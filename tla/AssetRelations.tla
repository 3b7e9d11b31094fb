---------------------------- MODULE AssetRelations ----------------------------
(***************************************************************************)
(* fms-asset: which asset depends on which.  A relation is created after two *)
(* walks along the relations that are there: can the start be reached from    *)
(* the end, and how deep does it go below the end.  Each walk is a statement  *)
(* of its own and sees what is committed when it begins; the INSERT looks at   *)
(* no other relation.  Nothing locks the assets or the relations read.       *)
(***************************************************************************)
EXTENDS Naturals, FiniteSets

CONSTANTS
  Assets,         \* rows of fms.assets the caller sees, deleted ones included
  RelationTypes,
  LinkTasks,      \* server tasks
  MaxDepth,       \* MAX_DEPENDENCY_DEPTH
  MaxLinks        \* bound: requests

ASSUME RelationAssumption == MaxDepth \in Nat \ {0} /\ MaxLinks \in Nat

VARIABLES
  relation,  \* the committed rows
  link,      \* link[t]: the request to create a relation that a task works on
  unseen,    \* history: <<e, f>>: f was there when e was inserted, but not at both its walks
  linked     \* requests so far

linkVars == <<relation, link, unseen, linked>>

Relations == [from : Assets, to : Assets, type : RelationTypes]
NoRelation == [step |-> "idle"]
OpenLink == [step : {"cycle", "depth", "insert"}, new : Relations, seen : SUBSET Relations]
LinkTypeOK ==
  /\ relation \subseteq Relations /\ IsFiniteSet(relation)
  /\ link \in [LinkTasks -> OpenLink \cup {NoRelation}]
  /\ unseen \subseteq relation \X relation
  /\ linked \in 0..MaxLinks

RelationInit ==
  /\ relation = {} /\ unseen = {}
  /\ link = [t \in LinkTasks |-> NoRelation]
  /\ linked = 0

-----------------------------------------------------------------------------
(* Walks of n relations, each beginning where the one before it ends.          *)
Chains(E, n) == {c \in [1..n -> E] : \A i \in 1..n - 1 : c[i].to = c[i + 1].from}

(* The end leads back to the start: the walk expands rows of depth 1 to MaxDepth. *)
LeadsBack(E, e) ==
  \E n \in 1..MaxDepth : \E c \in Chains(E, n) : c[1].from = e.to /\ c[n].to = e.from

(* Plausible bug: what is below the start is measured.                          *)
TooDeepBelowStart(E, e) == \E c \in Chains(E, MaxDepth) : c[1].from = e.from

(* The longest walk below the end, and the new relation, exceed MaxDepth.       *)
TooDeep(E, e) == \E c \in Chains(E, MaxDepth) : c[1].from = e.to

-----------------------------------------------------------------------------
(* POST /assets/{id}/relations: two different assets that the caller sees.      *)
AskRelation(t, e) ==
  /\ link[t] = NoRelation /\ linked < MaxLinks /\ e.from # e.to
  /\ linked' = linked + 1
  /\ link' = [link EXCEPT ![t] = [step |-> "cycle", new |-> e, seen |-> {}]]
  /\ UNCHANGED <<relation, unseen>>

SetLink(t, new) == link' = [link EXCEPT ![t] = new] /\ UNCHANGED <<relation, unseen, linked>>

WalkBack(t) ==
  /\ link[t].step = "cycle"
  /\ SetLink(t, IF LeadsBack(relation, link[t].new) THEN NoRelation
                ELSE [link[t] EXCEPT !.step = "depth", !.seen = relation])
WalkDown(t) ==
  /\ link[t].step = "depth"
  /\ SetLink(t, IF TooDeep(relation, link[t].new) THEN NoRelation
                ELSE [link[t] EXCEPT !.step = "insert", !.seen = @ \cap relation])

(* The INSERT and the commit: an equal relation that another task has inserted   *)
(* meanwhile is a conflict.                                                  *)
InsertRelation(t) ==
  LET e == link[t].new IN
  /\ link[t].step = "insert"
  /\ IF e \in relation THEN SetLink(t, NoRelation)
     ELSE /\ relation' = relation \cup {e}
          /\ unseen' = unseen \cup ({e} \X (relation \ link[t].seen))
          /\ link' = [link EXCEPT ![t] = NoRelation]
          /\ UNCHANGED linked

LoseLink(t) == link[t] # NoRelation /\ SetLink(t, NoRelation)

(* DELETE /asset-relations/{id}: the row goes.                                *)
DeleteRelation(e) ==
  /\ e \in relation /\ linked < MaxLinks
  /\ linked' = linked + 1
  /\ relation' = relation \ {e}
  /\ unseen' = {p \in unseen : p[1] # e /\ p[2] # e}
  /\ UNCHANGED link

RelationNext ==
  \/ \E t \in LinkTasks :
       \/ \E e \in Relations : AskRelation(t, e)
       \/ WalkBack(t) \/ WalkDown(t) \/ InsertRelation(t) \/ LoseLink(t)
  \/ \E e \in relation : DeleteRelation(e)

RelationSpec == RelationInit /\ [][RelationNext]_linkVars

-----------------------------------------------------------------------------
(* Relations that lead from an asset back to it, through each asset once.       *)
Rings(E, n) ==
  {c \in Chains(E, n) : /\ c[n].to = c[1].from
                        /\ \A i, j \in 1..n : c[i].from = c[j].from => i = j}

(* No cycle of any length is ever made, longer ones than the walk follows        *)
(* included, unless two of its relations were created at the same time, neither  *)
(* request seeing all of what the other wrote.                               *)
CyclesCross ==
  \A n \in 1..Cardinality(relation) : \A c \in Rings(relation, n) :
    \E i, j \in 1..n : <<c[i], c[j]>> \in unseen

(* Violated: relations never form a cycle.  Two requests that overlap make one.  *)
NoCycles == \A n \in 1..Cardinality(relation) : Rings(relation, n) = {}

(* Violated: no chain of dependencies is longer than MaxDepth.  Only the part     *)
(* below a new relation is measured; a chain grows at its lower end.          *)
ChainsAreShort == Chains(relation, MaxDepth + 1) = {}
=============================================================================
