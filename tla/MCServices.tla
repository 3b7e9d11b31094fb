------------------------------ MODULE MCServices ------------------------------
(***************************************************************************)
(* One run for three worlds that share no state: what requests of the API meet,   *)
(* what a tenant administers, and the labour and parts of work orders.  The         *)
(* initial state chooses a world, and in the first two one part of it; all          *)
(* that is not chosen rests in one initial state.                              *)
(***************************************************************************)
EXTENDS MCRequests, MCTenant, WorkExecution, TLC

CONSTANTS
  TaskA, TaskB,     \* the two tasks, or clients, of every part
  First, Second, Third,  \* callers of the calendar with one kind of request
  Id1, Id2, Id3     \* ids of rows: of assets, or of files

VARIABLE world

servicesVars == <<world, requestsVars, tenantVars, execVars>>

(* One part in one place, one in two places, and one that is not in stock.       *)
ShelfParts == [x |-> "p", y |-> "q", z |-> "q"]
FirstStock == [x |-> 2, y |-> 1, z |-> 1]
ThreeUses ==
  {<<>>, <<<<"p", 2>>>>, <<<<"q", 1>>, <<"n", 1>>, <<"p", 1>>>>}

(* Two callers of the calendar do everything, two book and one closes rooms.        *)
RequestsOf ==
  [c \in {TaskA, TaskB, First, Second, Third} |->
     IF c \in {First, Second} THEN {"booking"}
     ELSE IF c = Third THEN {"closure"} ELSE {"booking", "hold", "closure", "list"}]

(* The tasks of a part do the same things.                                    *)
Tasks == Permutations({TaskA, TaskB})

-----------------------------------------------------------------------------
ServicesInit ==
  /\ world \in {"requests", "tenant", "execution"}
  /\ RequestsInit /\ (world # "requests" => part = "relations")
  /\ TenantInit /\ (world # "tenant" => tenantPart = "login")
  /\ ExecInit /\ (world # "execution" => \A w \in Jobs : ~job[w].service)

ServicesNext ==
  /\ UNCHANGED world
  /\ \/ world = "requests" /\ RequestsNext /\ UNCHANGED <<tenantVars, execVars>>
     \/ world = "tenant" /\ TenantNext /\ UNCHANGED <<requestsVars, execVars>>
     \/ world = "execution" /\ ExecNext /\ UNCHANGED <<requestsVars, tenantVars>>

ServicesSpec == ServicesInit /\ [][ServicesNext]_servicesVars
=============================================================================
