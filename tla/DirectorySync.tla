----------------------------- MODULE DirectorySync -----------------------------
(***************************************************************************)
(* fms-identity: an identity provider's groups become role assignments.      *)
(* SCIM requests and administrators change members, groups, mappings and     *)
(* manual assignments while handlers and the scheduled watchdog reconcile:   *)
(* one transaction inserts what is missing row by row, from a list it read   *)
(* at its start, and then deletes what is no longer backed.  Rows of one     *)
(* (user, role, scope) are unique, and a writer waits for an uncommitted     *)
(* row or row lock of another one.                                           *)
(***************************************************************************)
EXTENDS Naturals, FiniteSets

CONSTANTS
  People,      \* users of this provider, numbered in the order of their ids
  DirGroups,   \* directory_groups of one provider
  DirRoles,    \* roles, each at its scope
  Mappable,    \* the mappings <<g, r>> that administrators make
  Rank,        \* Rank[<<g, r>>]: place of the mapping by priority and id
  Watchdogs,   \* processes that run the scheduled sync
  Admins,      \* server tasks that serve POST /identity-providers/{id}/sync
  Withheld,    \* Withheld[s]: roles role_grant_blocked_by holds against the actor of s
  Clients,     \* server tasks that serve SCIM group patches
  MaxChanges   \* bound: changes by users, administrators and SCIM clients

Syncs == Watchdogs \cup Admins
Grantees == People \X DirRoles

ASSUME DirAssumption ==
  /\ People \subseteq Nat /\ IsFiniteSet(People)
  /\ Mappable \subseteq DirGroups \X DirRoles
  /\ Rank \in [Mappable -> Nat]
  /\ \A m, n \in Mappable : Rank[m] = Rank[n] => m = n
  /\ Withheld \in [Syncs -> SUBSET DirRoles]
  /\ "NONE" \notin DirGroups /\ "MANUAL" \notin DirGroups
  /\ MaxChanges \in Nat

VARIABLES
  dirGroups,  \* groups that exist
  members,    \* user_directory_groups: <<user, group>>
  mappings,   \* active directory_role_mappings: <<group, role>>
  grant,      \* grant[u, r]: NONE, MANUAL, or the group a synced row comes from
  tally,      \* tally[g]: member_count
  sync,       \* sync[s]: the open transaction of a run
  edit,       \* edit[c]: the open transaction of a group patch
  changes     \* how many of MaxChanges have happened

dirVars == <<dirGroups, members, mappings, grant, tally, sync, edit, changes>>

Asleep == [on |-> FALSE, todo |-> {}, won |-> {}, stuck |-> FALSE]
NoEdit == [step |-> "idle", group |-> "NONE", add |-> {}, del |-> {}, n |-> 0]
Offer == People \X DirGroups \X DirRoles

DirTypeOK ==
  /\ dirGroups \subseteq DirGroups
  /\ members \subseteq People \X dirGroups
  /\ mappings \subseteq Mappable \cap (dirGroups \X DirRoles)
  /\ grant \in [Grantees -> {"NONE", "MANUAL"} \cup dirGroups]
  /\ tally \in [DirGroups -> Nat]
  /\ sync \in [Syncs -> [on : BOOLEAN, todo : SUBSET Offer, won : SUBSET Offer,
                         stuck : BOOLEAN]]
  /\ edit \in [Clients -> [step : {"idle", "edit", "waiting", "counted"},
                           group : {"NONE"} \cup DirGroups, add : SUBSET People,
                           del : SUBSET People, n : Nat]]
  /\ changes \in 0..MaxChanges

SizeIn(g, ms) == Cardinality({m \in ms : m[2] = g})

DirInit ==
  /\ dirGroups = DirGroups
  /\ members \in SUBSET (People \X DirGroups)
  /\ mappings \in SUBSET Mappable
  /\ grant = [k \in Grantees |-> "NONE"]
  /\ tally = [g \in DirGroups |-> SizeIn(g, members)]
  /\ sync = [s \in Syncs |-> Asleep]
  /\ edit = [c \in Clients |-> NoEdit]
  /\ changes = 0

Change == changes < MaxChanges /\ changes' = changes + 1

-----------------------------------------------------------------------------
(* run_sync and reconcile_directory_roles                                     *)

Backed(u, g, r) == <<u, g>> \in members /\ <<g, r>> \in mappings
Offers == {o \in Offer : Backed(o[1], o[2], o[3])}

(* A run that has nothing to offer and nothing to take away changes nothing.   *)
StartSync(s) ==
  /\ ~sync[s].on
  /\ Offers # {} \/ \E k \in Grantees : grant[k] \in DirGroups
  /\ sync' = [sync EXCEPT ![s] = [Asleep EXCEPT !.on = TRUE, !.todo = Offers]]
  /\ UNCHANGED <<dirGroups, members, mappings, grant, tally, edit, changes>>

(* ORDER BY priority, mapping, user                                           *)
Before(o, q) ==
  \/ Rank[<<o[2], o[3]>>] < Rank[<<q[2], q[3]>>]
  \/ <<o[2], o[3]>> = <<q[2], q[3]>> /\ o[1] <= q[1]
IsNext(s, o) == o \in sync[s].todo /\ \A q \in sync[s].todo : Before(o, q)

Gives(o, k) == <<o[1], o[3]>> = k
Holds(s, k) == \E o \in sync[s].won : Gives(o, k)

(* The outcome of one INSERT ... WHERE NOT EXISTS: it does nothing, waits for a *)
(* row that another run has not committed, inserts, or fails on a group that   *)
(* has been deleted meanwhile.                                               *)
Granting(s, o) ==
  LET k == <<o[1], o[3]>> IN
    \/ /\ o[3] \in Withheld[s] \/ grant[k] # "NONE" \/ Holds(s, k)
       /\ sync' = [sync EXCEPT ![s] = [@ EXCEPT !.todo = sync[s].todo \ {o}]]
    \/ /\ o[3] \notin Withheld[s] /\ grant[k] = "NONE" /\ ~Holds(s, k)
       /\ \/ /\ \E t \in Syncs : Holds(t, k)
             /\ sync' = [sync EXCEPT ![s] = [@ EXCEPT !.stuck = TRUE]]
          \/ /\ \A t \in Syncs : ~Holds(t, k)
             /\ o[2] \in dirGroups
             /\ sync' = [sync EXCEPT ![s] =
                  [@ EXCEPT !.todo = sync[s].todo \ {o}, !.won = sync[s].won \cup {o}]]
          \/ /\ \A t \in Syncs : ~Holds(t, k)
             /\ o[2] \notin dirGroups
             /\ sync' = [sync EXCEPT ![s] = Asleep]
Grant(s) ==
  /\ sync[s].on /\ ~sync[s].stuck
  /\ \E o \in sync[s].todo : IsNext(s, o) /\ Granting(s, o)
  /\ UNCHANGED <<dirGroups, members, mappings, grant, tally, edit, changes>>

(* The other run is over: its row is there, which fails the whole run, or not. *)
Resume(s) ==
  /\ sync[s].stuck
  /\ \E o \in sync[s].todo :
       /\ IsNext(s, o)
       /\ \A t \in Syncs : ~Holds(t, <<o[1], o[3]>>)
       /\ sync' = [sync EXCEPT ![s] =
            IF grant[<<o[1], o[3]>>] = "NONE" THEN [@ EXCEPT !.stuck = FALSE] ELSE Asleep]
  /\ UNCHANGED <<dirGroups, members, mappings, grant, tally, edit, changes>>

Inserted(s) == [k \in Grantees |->
  IF Holds(s, k) THEN (CHOOSE o \in sync[s].won : Gives(o, k))[2] ELSE grant[k]]

(* The DELETE looks at the state of now, the rows just inserted included, and   *)
(* only at the group a row comes from.                                         *)
Revoke(g) == [k \in Grantees |->
  IF g[k] \in DirGroups /\ ~Backed(k[1], g[k], k[2]) THEN "NONE" ELSE g[k]]

(* Plausible bug: first take away, then insert what the list said.              *)
FinishSyncDeleteFirst(s) ==
  /\ sync[s].on /\ sync[s].todo = {}
  /\ grant' = [k \in Grantees |-> IF Holds(s, k) THEN Inserted(s)[k] ELSE Revoke(grant)[k]]
  /\ sync' = [sync EXCEPT ![s] = Asleep]
  /\ UNCHANGED <<dirGroups, members, mappings, tally, edit, changes>>
FinishSync(s) ==
  /\ sync[s].on /\ sync[s].todo = {}
  /\ grant' = Revoke(Inserted(s))
  /\ sync' = [sync EXCEPT ![s] = Asleep]
  /\ UNCHANGED <<dirGroups, members, mappings, tally, edit, changes>>

(* The process dies or the connection is lost.                                 *)
AbortSync(s) ==
  /\ sync[s].on
  /\ sync' = [sync EXCEPT ![s] = Asleep]
  /\ Change
  /\ UNCHANGED <<dirGroups, members, mappings, grant, tally, edit>>

-----------------------------------------------------------------------------
(* PATCH /scim/v2/Groups/{id}: members are added, removed or replaced           *)

Of(g) == {u \in People : <<u, g>> \in members}
Touches(c, u, g) == edit[c].group = g /\ u \in edit[c].add \cup edit[c].del

Verbs(S) == {<<S, {}>>, <<{}, S>>, <<S, People \ S>>}
PatchGroup(c, g, add, del) ==
  /\ edit[c] = NoEdit /\ g \in dirGroups
  /\ \A d \in Clients, u \in add \cup del : ~Touches(d, u, g)
  /\ edit' = [edit EXCEPT ![c] = [NoEdit EXCEPT !.step = "edit", !.group = g,
                                  !.add = add \ Of(g), !.del = del \cap Of(g)]]
  /\ Change
  /\ UNCHANGED <<dirGroups, members, mappings, grant, tally, sync>>

(* What transaction c sees: the committed rows and its own.                     *)
Visible(c) == (Of(edit[c].group) \ edit[c].del) \cup edit[c].add

(* sync_member_count: the subquery counts what is visible when the UPDATE        *)
(* starts, also when it then waits for the row.                                *)
Locked(c) == \E d \in Clients \ {c} : edit[d].step = "counted" /\ edit[d].group = edit[c].group
CountMembers(c) ==
  /\ edit[c].step = "edit"
  /\ edit' = [edit EXCEPT ![c] = [edit[c] EXCEPT
       !.step = IF Locked(c) THEN "waiting" ELSE "counted", !.n = Cardinality(Visible(c))]]
  /\ UNCHANGED <<dirGroups, members, mappings, grant, tally, sync, changes>>

CommitPatch(c) ==
  /\ edit[c].step \in {"waiting", "counted"} /\ ~Locked(c)
  /\ LET g == edit[c].group IN
       /\ members' = (members \ (edit[c].del \X {g})) \cup (edit[c].add \X {g})
       /\ tally' = [tally EXCEPT ![g] = edit[c].n]
  /\ edit' = [edit EXCEPT ![c] = NoEdit]
  /\ UNCHANGED <<dirGroups, mappings, grant, sync, changes>>

(* Plausible bug: the members are left.                                        *)
DeleteGroupOnly(g) ==
  /\ g \in dirGroups
  /\ dirGroups' = dirGroups \ {g}
  /\ Change
  /\ UNCHANGED <<members, mappings, grant, tally, sync, edit>>
(* DELETE /scim/v2/Groups/{id} waits for rows that refer to the group; members,  *)
(* mappings and synced assignments go with it (ON DELETE CASCADE).             *)
DeleteGroup(g) ==
  /\ g \in dirGroups
  /\ \A c \in Clients : edit[c].group # g
  /\ \A s \in Syncs : \A o \in sync[s].won : o[2] # g
  /\ dirGroups' = dirGroups \ {g}
  /\ members' = {m \in members : m[2] # g}
  /\ mappings' = {m \in mappings : m[1] # g}
  /\ grant' = [k \in Grantees |-> IF grant[k] = g THEN "NONE" ELSE grant[k]]
  /\ Change
  /\ UNCHANGED <<tally, sync, edit>>

-----------------------------------------------------------------------------
(* Mappings and manual assignments                                             *)

MapRole(m) ==
  /\ m[1] \in dirGroups /\ m \notin mappings
  /\ mappings' = mappings \cup {m}
  /\ Change
  /\ UNCHANGED <<dirGroups, members, grant, tally, sync, edit>>

UnmapRole(m) ==
  /\ m \in mappings
  /\ mappings' = mappings \ {m}
  /\ Change
  /\ UNCHANGED <<dirGroups, members, grant, tally, sync, edit>>

(* A second row of the same user, role and scope is refused, and an uncommitted  *)
(* one is waited for.                                                          *)
Assign(k) ==
  /\ grant[k] = "NONE" /\ \A s \in Syncs : ~Holds(s, k)
  /\ grant' = [grant EXCEPT ![k] = "MANUAL"]
  /\ Change
  /\ UNCHANGED <<dirGroups, members, mappings, tally, sync, edit>>

(* DELETE /role-assignments/{id} refuses the rows of the directory sync.         *)
Unassign(k) ==
  /\ grant[k] = "MANUAL"
  /\ grant' = [grant EXCEPT ![k] = "NONE"]
  /\ Change
  /\ UNCHANGED <<dirGroups, members, mappings, tally, sync, edit>>

SyncStep(s) == Grant(s) \/ Resume(s) \/ FinishSync(s)

DirNext ==
  \/ \E s \in Syncs : StartSync(s) \/ SyncStep(s) \/ AbortSync(s)
  \/ \E c \in Clients, g \in DirGroups, S \in SUBSET People : \E v \in Verbs(S) :
       PatchGroup(c, g, v[1], v[2])
  \/ \E c \in Clients : CountMembers(c) \/ CommitPatch(c)
  \/ \E g \in DirGroups : DeleteGroup(g)
  \/ \E m \in Mappable : MapRole(m) \/ UnmapRole(m)
  \/ \E k \in Grantees : Assign(k) \/ Unassign(k)

DirSpec == DirInit /\ [][DirNext]_dirVars

(* A run ends, and the schedule starts the watchdog's next one.                 *)
DirFairness ==
  /\ \A s \in Syncs : WF_dirVars(SyncStep(s))
  /\ \A s \in Watchdogs : WF_dirVars(StartSync(s))

DirFairSpec == DirSpec /\ DirFairness

-----------------------------------------------------------------------------
(* A sync never takes or overwrites what an administrator gave by hand, also      *)
(* when the manual assignment is made while the sync runs.                      *)
ManualIsNeverTouched ==
  [][sync' # sync => \A k \in Grantees :
       (grant[k] = "MANUAL") <=> (grant'[k] = "MANUAL")]_dirVars

(* When a run ends, no synced assignment is left that its group and mapping do     *)
(* not back any more, although the run inserts from a list it read at its start.  *)
Unbacked(k) == grant[k] \in DirGroups /\ ~Backed(k[1], grant[k], k[2])
SyncLeavesNoOrphan ==
  [][\A s \in Syncs : (sync[s].on /\ ~sync'[s].on /\ grant' # grant)
       => \A k \in Grantees : ~Unbacked(k)']_dirVars

(* No sync harms what is not its own, and none leaves behind what is.              *)
SyncIsSound == ManualIsNeverTouched /\ SyncLeavesNoOrphan

(* The scheduled sync catches up: again and again every role that a mapping gives  *)
(* to a member and the watchdog may grant is held, and none is left that is not    *)
(* backed any more.                                                             *)
MayGrant(r) == \E s \in Watchdogs : r \notin Withheld[s]
CaughtUp ==
  /\ \A o \in Offers : MayGrant(o[3]) => grant[<<o[1], o[3]>>] # "NONE"
  /\ \A k \in Grantees : ~Unbacked(k)
DirectoryCatchesUp == []<>CaughtUp

(* Violated: "only what no active mapping of a group the user is still in backs is  *)
(* taken away" -- the DELETE asks only about the group the row came from.          *)
RoleKeptWhileBacked ==
  [][\A s \in Syncs : sync'[s] # sync[s] =>
       \A u \in People, r \in DirRoles :
         grant[<<u, r>>] \in DirGroups /\ grant'[<<u, r>>] = "NONE"
           => ~\E g \in DirGroups : Backed(u, g, r)]_dirVars

(* Violated: the cached member_count is the number of members.                    *)
CountIsExact ==
  \A g \in dirGroups : (\A c \in Clients : edit[c].group # g)
    => tally[g] = SizeIn(g, members)
=============================================================================
