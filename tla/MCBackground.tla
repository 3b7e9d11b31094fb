----------------------------- MODULE MCBackground -----------------------------
(***************************************************************************)
(* One run for six parts that share no state: the initial state chooses    *)
(* the part, which moves while the others rest in theirs.  No action of a    *)
(* resting part that its fairness mentions is enabled there: no plan is due, *)
(* no alert raised, no export requested, and the worker process has exited.  *)
(***************************************************************************)
EXTENDS PmGenerator, MeterReadings, ExportJobs, NotificationQueue, Alarms, WorkerProcess

VARIABLE part

Parts == {"maintenance", "meters", "exports", "notifications", "alarms", "worker"}

Init ==
  /\ part \in Parts
  /\ PmInit /\ MeterInit /\ ExportInit /\ NotifyInit /\ AlarmInit
  /\ IF part = "worker" THEN WorkerInit ELSE WorkerExited
  /\ part # "meters" => meter.type = "GAUGE"
  /\ part # "alarms" => alarm = [p \in Points |-> NoAlarm]

Maintenance == PmNext /\ UNCHANGED <<meterVars, exportVars, notifyVars, alarmVars, workerVars>>
Meters == MeterNext /\ UNCHANGED <<pmVars, exportVars, notifyVars, alarmVars, workerVars>>
ExportPart == ExportNext /\ UNCHANGED <<pmVars, meterVars, notifyVars, alarmVars, workerVars>>
Notifications == NotifyNext /\ UNCHANGED <<pmVars, meterVars, exportVars, alarmVars, workerVars>>
AlarmPart == AlarmNext /\ UNCHANGED <<pmVars, meterVars, exportVars, notifyVars, workerVars>>
WorkerPart == WorkerNext /\ UNCHANGED <<pmVars, meterVars, exportVars, notifyVars, alarmVars>>

Next ==
  /\ UNCHANGED part
  /\ \/ part = "maintenance" /\ Maintenance
     \/ part = "meters" /\ Meters
     \/ part = "exports" /\ ExportPart
     \/ part = "notifications" /\ Notifications
     \/ part = "alarms" /\ AlarmPart
     \/ part = "worker" /\ WorkerPart

Spec ==
  /\ Init /\ [][Next]_<<part, pmVars, meterVars, exportVars, notifyVars, alarmVars, workerVars>>
  /\ PmFairness /\ ExportFairness /\ NotifyFairness /\ WorkerFairness

(* Every part's variables have their types.                                  *)
TypesOK == PmTypeOK /\ MeterTypeOK /\ ExportTypeOK /\ NotifyTypeOK /\ AlarmTypeOK /\ WorkerTypeOK

(* A mail goes out twice only for a death or a lost answer, and the end of the    *)
(* process cuts no round off unless a loop has panicked.                       *)
RoundsAreClean == MailOnceUnlessLoss /\ NoRoundIsCut

(* The background goes on: no plan is forgotten, by the calendar or by a meter;    *)
(* every export ends and its event with it; every notification is dealt with; and    *)
(* the process stops when it is asked to.                                      *)
WorkGoesOn == PlansAreServed /\ JobEnds /\ EveryoneIsServed /\ StopsWhenAsked

-----------------------------------------------------------------------------
(* Plan x has two assets; the filter of plan y matches none.                 *)
Weekly == [at |-> {1, 2, 3}, count |-> 0]
LaterOnly == [at |-> {3}, count |-> 0]
TwoRules == {Weekly, LaterOnly}
TwoPlans == {"x", "y"}
AllWeekly == [p \in TwoPlans |-> Weekly]
TwoTargets == [p \in TwoPlans |-> IF p = "x" THEN {1, 2} ELSE {}]
OneEvent == {"e"}
EventOfBoth == [e \in OneEvent |-> <<"x", "y">>]
EventOnFirst == [e \in OneEvent |-> 1]

(* Both points belong to one asset; only p opens orders by its rule.          *)
TwoPoints == {"p", "q"}
OneAsset == [p \in TwoPoints |-> 1]
BothOrders == {<<"p", "q">>, <<"q", "p">>}

(* Two relays and a loop with many transactions; main awaits the last two one by one. *)
ThreeLoops == {Relay("relay"), Relay("push"), CalendarWatchdog}
=============================================================================
