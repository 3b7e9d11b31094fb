----------------------------- MODULE SpatialTree ------------------------------
(***************************************************************************)
(* fms-tenancy: the two trees, organisations and the spatial nodes of a      *)
(* facility.  A row carries its parent and a materialised path, which the    *)
(* trigger of sql/069 derives from the parent's path and the row's code, and *)
(* which a move or a new code rewrites in the whole subtree.                *)
(*                                                                         *)
(* The trigger reads the parent's path without a lock; the subtree is what   *)
(* its statement's snapshot shows, row by row, waiting for rows that others   *)
(* hold.  Deletion is soft and keeps parent and path.  Both trees work  *)
(* the same way, but only nodes can be imported in bulk.                     *)
(*                                                                         *)
(* A node belongs to a facility, its site; all organisations to one, the    *)
(* tenant.  Codes are unique in a site, a POST wants a parent of the site,   *)
(* and the trigger rewrites rows of the site; but a PATCH takes a parent of  *)
(* any site, and the trigger reads its path and compares paths whatever the *)
(* site.                                                                    *)
(***************************************************************************)
EXTENDS Naturals, Sequences, FiniteSets, SequencesExt

CONSTANTS
  Sites,     \* facilities
  Nodes,     \* ids, used in the order of the numbers they are
  Codes,     \* codes, which are labels of a path
  NewCodes,  \* bound: the codes clients give to rows
  Roots,     \* bound: the initial rows, their facilities, parents and paths
  TreeTasks, \* server tasks
  Files,     \* bound: the files imported, sequences of <<code, parent code or "">>
  MaxAsked   \* bound: requests and lost connections

NoParent == 0
Tenant == "tenant"
AllSites == Sites \cup {Tenant}

ASSUME TreeAssumption ==
  /\ Tenant \notin Sites
  /\ Nodes \subseteq Nat \ {NoParent} /\ IsFiniteSet(Nodes)
  /\ NewCodes \subseteq Codes /\ "" \notin Codes
  /\ Files \subseteq Seq(Codes \X (Codes \cup {""}))
  /\ MaxAsked \in Nat

(* The initial rows are a tree: a path is that of the parent and a code of its own. *)
ASSUME RootsAssumption ==
  /\ DOMAIN Roots \subseteq Nodes
  /\ \A n \in DOMAIN Roots :
       LET path == Roots[n].path
           q == Roots[n].parent IN
       /\ path \in Seq(Codes) /\ path # <<>> /\ Roots[n].site \in Sites
       /\ IF q = NoParent THEN path = <<Last(path)>>
          ELSE q \in DOMAIN Roots /\ Roots[q].site = Roots[n].site /\ path = Append(Roots[q].path, Last(path))
  /\ \A m, n \in DOMAIN Roots : Last(Roots[m].path) = Last(Roots[n].path) => m = n

VARIABLES
  forest,  \* which tree this is: "org" or "space"
  node,    \* node[n]: the committed row
  work,    \* work[t]: the open transaction of a task
  asked,   \* requests and lost connections so far
  stray    \* history: the sites of rows placed under one of another site,
           \* or under one that was moving, or going

treeVars == <<forest, node, work, asked, stray>>

NoRow == [state |-> "none", site |-> Tenant, parent |-> NoParent, code |-> "", path |-> <<>>]
NoWork ==
  [step |-> "idle", site |-> Tenant, node |-> NoParent, parent |-> NoParent, code |-> "", old |-> <<>>,
   todo |-> {}, rows |-> <<>>, file |-> <<>>, still |-> <<>>, known |-> <<>>, before |-> 0]

Row == [state : {"none", "live", "deleted"}, site : AllSites, parent : Nodes \cup {NoParent},
        code : Codes \cup {""}, path : Seq(Codes)]

TreeTypeOK ==
  /\ forest \in {"org", "space"}
  /\ node \in [Nodes -> Row]
  /\ \A t \in TreeTasks :
       /\ work[t].step \in {"idle", "insert", "repath", "delete", "pass", "done"}
       /\ DOMAIN work[t].rows \subseteq Nodes /\ work[t].todo \subseteq Nodes
  /\ asked \in 0..MaxAsked /\ stray \subseteq AllSites

TreeInit ==
  /\ forest \in {"org", "space"}
  /\ node = [n \in Nodes |->
       IF n \in DOMAIN Roots
       THEN [state |-> "live", site |-> IF forest = "org" THEN Tenant ELSE Roots[n].site,
             parent |-> Roots[n].parent, code |-> Last(Roots[n].path), path |-> Roots[n].path]
       ELSE NoRow]
  /\ work = [t \in TreeTasks |-> NoWork]
  /\ asked = 0
  /\ stray = {}

-----------------------------------------------------------------------------
(* What a transaction sees: committed rows and its own; which rows and codes  *)
(* the open transactions of others hold.                                     *)
Seen(t, n) == IF n \in DOMAIN work[t].rows THEN work[t].rows[n] ELSE node[n]
Live(n) == node[n].state = "live"
SitesHere == IF forest = "org" THEN {Tenant} ELSE Sites
Under(path, top) == IsPrefix(top, path)

HeldByOther(t, n) == \E u \in TreeTasks \ {t} : n \in DOMAIN work[u].rows
Bears(row, s, c) == row.state = "live" /\ row.site = s /\ row.code = c
CodeHeld(t, c) ==
  \E u \in TreeTasks \ {t} : \E n \in DOMAIN work[u].rows : Bears(work[u].rows[n], work[t].site, c)
CodeTaken(t, n, c) == \E m \in Nodes \ {n} : Bears(Seen(t, m), work[t].site, c)

With(rows, n, new) == [m \in DOMAIN rows \cup {n} |-> IF m = n THEN new ELSE rows[m]]
Fresh == {n \in Nodes : node[n] = NoRow /\ \A u \in TreeTasks : n \notin DOMAIN work[u].rows}
NextId == CHOOSE n \in Fresh : \A m \in Fresh : n <= m

(* The path the trigger gives a row.                                          *)
PathIn(t, q, c) == IF q = NoParent THEN <<c>> ELSE Append(Seen(t, q).path, c)

-----------------------------------------------------------------------------
(* History.  A row m is placed under q by an insert or a new parent.  It goes   *)
(* astray under a row that is not live or is being deleted, and, unless it is  *)
(* below already, in a subtree that is being rewritten.  Under a row of another *)
(* site it has gone astray anyhow.                                           *)
Rewrites(t) == work[t].step = "repath" /\ work[t].rows[work[t].node].path # work[t].old
Outside(m, top) == node[m] = NoRow \/ ~Under(node[m].path, top)
Astray(m, q) ==
  /\ q # NoParent /\ node[q] # NoRow
  /\ \/ ~Live(q)
     \/ \E u \in {v \in TreeTasks : work[v].site = node[q].site} :
          \/ work[u].step = "delete" /\ work[u].node = q
          \/ /\ Rewrites(u) /\ work[u].node # m
             /\ Under(node[q].path, work[u].old) /\ Outside(m, work[u].old)

(* The other way round: an open transaction has placed a row under q.          *)
Placed(u) == {m \in DOMAIN work[u].rows : node[m] = NoRow \/ m = work[u].node}
LeavesBehind(q, top) ==
  \E u \in {v \in TreeTasks : work[v].site = node[q].site} : \E m \in Placed(u) : work[u].rows[m].parent = q /\ Outside(m, top)

-----------------------------------------------------------------------------
Ask(t, new) ==
  /\ work[t] = NoWork /\ asked < MaxAsked
  /\ asked' = asked + 1
  /\ work' = [work EXCEPT ![t] = new]
Write(t, new, astray) ==
  /\ work' = [work EXCEPT ![t] = new]
  /\ stray' = stray \cup {s \in {work[t].site} : astray}
  /\ UNCHANGED <<forest, node, asked>>
Do(t, new) == Write(t, new, FALSE)
CommitRows(t, rows) ==
  /\ node' = [n \in Nodes |-> IF n \in DOMAIN rows THEN rows[n] ELSE node[n]]
  /\ work' = [work EXCEPT ![t] = NoWork]
  /\ UNCHANGED <<forest, asked, stray>>

(* Plausible bug: only the node itself is refused as its parent, as before 069. *)
GuardSelfOnly(n, q) == q # n /\ (q # NoParent => node[q] # NoRow)

(* The UPDATE of a PATCH: the row is locked, the parent's path read, the guard *)
(* of 069 tested, and the statement that rewrites the subtree begins.  Any     *)
(* PATCH runs the trigger, since its SET list names parent_id and code.        *)
Guard(n, q) == q # n /\ (q # NoParent => node[q] # NoRow /\ ~Under(node[q].path, node[n].path))

Patch(t, n, q, c) ==
  LET s == node[n].site
      new == [node[n] EXCEPT !.parent = q, !.code = c, !.path = PathIn(t, q, c)]
      sub == {m \in Nodes \ {n} : /\ node[m] # NoRow /\ node[m].site = s
                                  /\ Under(node[m].path, node[n].path)} IN
  /\ Live(n) /\ ~HeldByOther(t, n)
  /\ Guard(n, q)
  /\ Ask(t, [NoWork EXCEPT !.step = "repath", !.site = s, !.node = n, !.parent = q, !.old = node[n].path,
                           !.rows = With(<<>>, n, new),
                           !.todo = IF new.path = node[n].path THEN {} ELSE sub])
  /\ stray' = stray \cup {f \in {s} :
       \/ q # NoParent /\ node[q].site # s
       \/ q # node[n].parent /\ Astray(n, q)
       \/ new.path # node[n].path /\ \E m \in sub \cup {n} : LeavesBehind(m, node[n].path)}
  /\ UNCHANGED <<forest, node>>
PatchOrg(t, n, q, c) == forest = "org" /\ Patch(t, n, q, c)
PatchNode(t, n, q, c) == forest = "space" /\ Patch(t, n, q, c)

(* Plausible bug: the subtree keeps its paths.                                 *)
RepathNone(t, m) ==
  work[t].step = "repath" /\ m \in work[t].todo /\ Do(t, [work[t] EXCEPT !.todo = {}])

(* One row of the subtree, in its newest version, if it is still below.  A row  *)
(* with the very path of the moved one makes subpath() fail.                  *)
RepathRow(t, m) ==
  LET w == work[t]
      path == node[m].path IN
  /\ w.step = "repath" /\ m \in w.todo /\ ~HeldByOther(t, m)
  /\ IF path = w.old THEN Do(t, NoWork)
     ELSE Do(t, [w EXCEPT !.todo = @ \ {m},
                          !.rows = IF Under(path, w.old)
                                   THEN With(@, m, [node[m] EXCEPT !.path =
                                          w.rows[w.node].path \o
                                            SubSeq(path, Len(w.old) + 1, Len(path))])
                                   ELSE @])

(* The row itself is written and its code compared; commit.                   *)
FinishPatch(t) ==
  LET w == work[t] IN
  /\ w.step = "repath" /\ w.todo = {}
  /\ ~CodeHeld(t, w.rows[w.node].code)
  /\ IF CodeTaken(t, w.node, w.rows[w.node].code) THEN Do(t, NoWork) ELSE CommitRows(t, w.rows)

(* POST: the parent is looked up in the site, the row inserted by a later       *)
(* statement.                                                                *)
CheckParent(t, s, q, c) ==
  /\ s \in SitesHere
  /\ q # NoParent => Live(q) /\ node[q].site = s
  /\ Ask(t, [NoWork EXCEPT !.step = "insert", !.site = s, !.parent = q, !.code = c])
  /\ UNCHANGED <<forest, node, stray>>
InsertNode(t) ==
  LET w == work[t]
      new == [state |-> "live", site |-> w.site, parent |-> w.parent, code |-> w.code,
              path |-> PathIn(t, w.parent, w.code)] IN
  /\ w.step = "insert" /\ w.rows = <<>> /\ Fresh # {} /\ ~CodeHeld(t, w.code)
  /\ IF CodeTaken(t, NoParent, w.code) THEN Do(t, NoWork)
     ELSE Write(t, [w EXCEPT !.node = NextId, !.rows = With(<<>>, NextId, new)],
                Astray(NextId, w.parent))
CommitInsert(t) == work[t].step = "insert" /\ work[t].rows # <<>> /\ CommitRows(t, work[t].rows)

(* DELETE: the children of any site are counted, then the row is marked.                   *)
Childless(n) == \A m \in Nodes : Live(m) => node[m].parent # n
CountChildren(t, n) ==
  /\ Live(n) /\ Childless(n)
  /\ Ask(t, [NoWork EXCEPT !.step = "delete", !.site = node[n].site, !.node = n])
  /\ stray' = stray \cup {s \in {node[n].site} : LeavesBehind(n, node[n].path)}
  /\ UNCHANGED <<forest, node>>
DeleteOrg(t, n) == forest = "org" /\ CountChildren(t, n)
DeleteNode(t, n) == forest = "space" /\ CountChildren(t, n)
SoftDelete(t) ==
  LET n == work[t].node IN
  /\ work[t].step = "delete" /\ ~HeldByOther(t, n)
  /\ CommitRows(t, With(<<>>, n, IF Live(n) THEN [node[n] EXCEPT !.state = "deleted"] ELSE node[n]))

-----------------------------------------------------------------------------
(* POST /facilities/{id}/spatial-nodes:bulk-import                            *)
CodesOf(ns) == {node[n].code : n \in ns}
ReadKnown(t, s, file) ==
  LET live == {n \in Nodes : Live(n) /\ node[n].site = s} IN
  /\ forest = "space" /\ s \in SitesHere
  /\ Ask(t, [NoWork EXCEPT !.step = "pass", !.site = s, !.file = file, !.before = Len(file),
               !.known = [c \in CodesOf(live) |-> CHOOSE n \in live : node[n].code = c]])
  /\ UNCHANGED <<forest, node, stray>>

(* One row of a pass: left for the next pass while its parent is not known;    *)
(* otherwise inserted in a savepoint, and dropped if its code is taken.        *)
ImportRow(t) ==
  LET w == work[t]
      r == Head(w.file)
      q == IF r[2] = "" THEN NoParent ELSE w.known[r[2]]
      rest == [w EXCEPT !.file = Tail(@)]
      new == [state |-> "live", site |-> w.site, parent |-> q, code |-> r[1],
              path |-> PathIn(t, q, r[1])] IN
  /\ w.step = "pass" /\ w.file # <<>>
  /\ IF r[2] # "" /\ r[2] \notin DOMAIN w.known
     THEN Do(t, [rest EXCEPT !.still = Append(@, r)])
     ELSE /\ ~CodeHeld(t, r[1]) /\ Fresh # {}
          /\ IF CodeTaken(t, NoParent, r[1]) THEN Do(t, rest)
             ELSE Write(t, [rest EXCEPT !.rows = With(@, NextId, new),
                                        !.known = With(@, r[1], NextId)], Astray(NextId, q))
(* Plausible bug: rows whose parent comes later in the file get one chance.     *)
NextPassNone(t) ==
  work[t].step = "pass" /\ work[t].file = <<>> /\ Do(t, [work[t] EXCEPT !.step = "done"])

(* The end of a pass: another one if this one left fewer rows than it began with. *)
NextPass(t) ==
  LET w == work[t] IN
  /\ w.step = "pass" /\ w.file = <<>>
  /\ Do(t, IF w.still = <<>> \/ Len(w.still) = w.before THEN [w EXCEPT !.step = "done"]
           ELSE [w EXCEPT !.file = w.still, !.still = <<>>, !.before = Len(w.still)])
(* A dry run has inserted everything, and rolls it back.                       *)
EndImport(t, dry) ==
  work[t].step = "done" /\ (IF dry THEN Do(t, NoWork) ELSE CommitRows(t, work[t].rows))

-----------------------------------------------------------------------------
(* Waiting for a row or for a code, and PostgreSQL's deadlock detector.  A      *)
(* row of an import that loses is rolled back to its savepoint.              *)
WaitsForRow(t, u) ==
  \E m \in DOMAIN work[u].rows :
    \/ m \in work[t].todo
    \/ work[t].step = "delete" /\ m = work[t].node
WaitsForCode(t, u) ==
  \E m \in DOMAIN work[u].rows :
    /\ work[u].rows[m].state = "live" /\ work[u].rows[m].site = work[t].site
    /\ \/ work[t].step = "repath" /\ work[t].todo = {} /\ work[u].rows[m].code = work[t].rows[work[t].node].code
       \/ work[t].step = "insert" /\ work[t].rows = <<>> /\ work[u].rows[m].code = work[t].code
       \/ work[t].step = "pass" /\ work[t].file # <<>> /\ work[u].rows[m].code = Head(work[t].file)[1]
StuckOn(t, u) == t # u /\ (WaitsForRow(t, u) \/ WaitsForCode(t, u))
LoseDeadlock(t) ==
  /\ \E cycle \in SUBSET TreeTasks :
       t \in cycle /\ \A v \in cycle : \E u \in cycle : StuckOn(v, u)
  /\ Do(t, IF work[t].step = "pass" THEN [work[t] EXCEPT !.file = Tail(@)] ELSE NoWork)
CutOff(t) ==
  /\ work[t] # NoWork /\ asked < MaxAsked
  /\ asked' = asked + 1
  /\ work' = [work EXCEPT ![t] = NoWork]
  /\ UNCHANGED <<forest, node, stray>>

TreeNext ==
  \E t \in TreeTasks :
    \/ \E n \in Nodes, q \in Nodes \cup {NoParent} :
         \E c \in NewCodes \cup {node[n].code} : PatchOrg(t, n, q, c) \/ PatchNode(t, n, q, c)
    \/ \E m \in Nodes : RepathRow(t, m) \/ DeleteOrg(t, m) \/ DeleteNode(t, m)
    \/ \E s \in AllSites, q \in Nodes \cup {NoParent}, c \in NewCodes : CheckParent(t, s, q, c)
    \/ FinishPatch(t) \/ InsertNode(t) \/ CommitInsert(t) \/ SoftDelete(t)
    \/ \E s \in AllSites, file \in Files : ReadKnown(t, s, file)
    \/ ImportRow(t) \/ NextPass(t) \/ \E dry \in BOOLEAN : EndImport(t, dry)
    \/ LoseDeadlock(t) \/ CutOff(t)

TreeSpec == TreeInit /\ [][TreeNext]_treeVars

-----------------------------------------------------------------------------
(* In a site no row of which was placed under a row of another, or where others *)
(* were moving or deleting at that moment, a live row hangs under a live row of *)
(* the site and its path says so, whatever happens in the other sites, some of  *)
(* whose rows may hang under its own.  A PATCH that changes neither parent nor  *)
(* code, moves inside a moving subtree, renames, deadlocks and lost connections *)
(* do no harm.                                                               *)
InPlace(n) ==
  IF node[n].parent = NoParent THEN node[n].path = <<node[n].code>>
  ELSE /\ Live(node[n].parent)
       /\ node[n].path = Append(node[node[n].parent].path, node[n].code)
OfSite(n) == node[n].parent # NoParent => node[node[n].parent].site = node[n].site
PathsFollowParents ==
  \A n \in Nodes : Live(n) /\ node[n].site \notin stray => InPlace(n) /\ OfSite(n)

(* An import leaves a row out as unresolved only if its parent is neither in    *)
(* the tree nor made by another row of the file, in whatever order they come.  *)
ImportsAreComplete ==
  \A t \in TreeTasks : work[t].step = "done" =>
    \A r \in ToSet(work[t].still) : r[2] \notin DOMAIN work[t].known

TreesAreSound == PathsFollowParents /\ ImportsAreComplete

(* Violated: a move is refused only for what is wrong with it.  A deleted row   *)
(* keeps its path; a new row with its code under the same parent can never be  *)
(* moved or renamed, since subpath() fails on the deleted one.               *)
MovesSucceed == [][\A t \in TreeTasks : \A m \in Nodes :
  RepathRow(t, m) => work'[t] # NoWork]_treeVars

(* Violated: the parent of a PATCH may have been deleted before.              *)
PatchedUnderLive == [][\A n \in Nodes :
  node'[n].parent # node[n].parent /\ node'[n].parent # NoParent => Live(node'[n].parent)]_treeVars

(* Violated: a PATCH does not look at the facility of the new parent.          *)
ParentsAreOfTheSite == \A n \in Nodes : Live(n) => OfSite(n)

(* Violated, by one request after the other: a node under a node of another      *)
(* facility keeps the path it got there when that one moves.                   *)
ForeignPathsFollow == \A n \in Nodes : Live(n) => InPlace(n) \/ OfSite(n)
=============================================================================
