----------------------------- MODULE MCFederation -----------------------------
(***************************************************************************)
(* One run for three parts that share no state, as in MCBackground: tokens  *)
(* and sign-on, the directory sync, and the external calendar.  Without a    *)
(* mapping or a changed event neither watchdog has anything to do.          *)
(***************************************************************************)
EXTENDS AuthTokens, DirectorySync, CalendarSync

VARIABLE part

Parts == {"tokens", "directory", "calendar"}

Init ==
  /\ part \in Parts
  /\ TokInit /\ DirInit /\ CalInit
  /\ part # "directory" => members = {} /\ mappings = {}

TokenPart == TokNext /\ UNCHANGED <<dirVars, calVars>>
Directory == DirNext /\ UNCHANGED <<tokVars, calVars>>
Calendar == CalNext /\ UNCHANGED <<tokVars, dirVars>>

Next ==
  /\ UNCHANGED part
  /\ \/ part = "tokens" /\ TokenPart
     \/ part = "directory" /\ Directory
     \/ part = "calendar" /\ Calendar

Spec ==
  /\ Init /\ [][Next]_<<part, tokVars, dirVars, calVars>>
  /\ DirFairness /\ CalFairness

(* Every part's variables have their types.                                  *)
TypesOK == TokTypeOK /\ DirTypeOK /\ CalTypeOK

(* What is decided elsewhere arrives: roles follow the directory again and again,   *)
(* and a deletion in the external calendar frees the room.                       *)
SyncsArrive == DirectoryCatchesUp /\ DeletionFreesRoom

-----------------------------------------------------------------------------
(* One role the watchdog may grant and one it may not; one of them is given  *)
(* by two groups.                                                           *)
ThreeMappings == {<<"a", "r">>, <<"b", "r">>, <<"b", "d">>}
ByPriority ==
  [m \in ThreeMappings |-> (IF m[1] = "a" THEN 0 ELSE 2) + (IF m[2] = "r" THEN 0 ELSE 1)]
WatchdogAndAdmin == {"dog", "adm"}
WatchdogMayNot == [s \in WatchdogAndAdmin |-> IF s = "dog" THEN {"d"} ELSE {}]
=============================================================================
