------------------------------ MODULE WorkerProcess ------------------------------
(***************************************************************************)
(* The process of fms-jobs: its loops, the pool of connections they share,   *)
(* the signal to shut down, and main, which waits for the loops.             *)
(*                                                                         *)
(* A loop looks at the signal, does a round and sleeps.  A round of a relay    *)
(* keeps a connection for its batch while each handler takes a second one, so   *)
(* that relays can hold the whole pool and wait for each other; the time limit  *)
(* of the pool ends that, and charges the events with an attempt.             *)
(***************************************************************************)
EXTENDS Naturals, FiniteSets, FiniteSetsExt

CONSTANTS
  Loops,       \* loops of this run, of AllLoops; some are started only when configured
  PoolSize,    \* max_connections
  MaxWork,     \* bound: events of a batch, or further transactions of a round
  MaxPanics    \* bound

VARIABLES
  loop,        \* loop[l]: where it is, and what its round has still to do
  signalled,   \* the value of the watch channel
  main,        \* what main waits for
  panics

workerVars == <<loop, signalled, main, panics>>

(* A relay; and the loops that wake up after a time, whose rounds are one        *)
(* transaction, or a list and then a transaction per row of it.               *)
Relay(name) == [name |-> name, relay |-> TRUE, many |-> FALSE]
OneTx(name) == [name |-> name, relay |-> FALSE, many |-> FALSE]
ManyTx(name) == [name |-> name, relay |-> FALSE, many |-> TRUE]

RelayLoops ==
  {Relay("relay"), Relay("notifications"), Relay("exports"), Relay("report_exports"),
   Relay("webhook_fanout"), Relay("push")}
Scan == ManyTx("scan")
NoShow == ManyTx("no_show")
DirectoryWatchdog == ManyTx("directory_sync")
CalendarWatchdog == ManyTx("watchdog")
Reminders == OneTx("reminders")
Partitions == OneTx("partitions")
Dispatcher == OneTx("dispatcher")
SlaWatchdog == OneTx("sla")
CertWatchdog == OneTx("certs")
WebhookDispatcher == OneTx("webhooks")
TokenPurge == OneTx("token_purge")

AllLoops ==
  RelayLoops \cup {Scan, NoShow, DirectoryWatchdog, CalendarWatchdog, Reminders, Partitions,
               Dispatcher, SlaWatchdog, CertWatchdog, WebhookDispatcher, TokenPurge}

(* Three loops depend on the environment; main awaits them one after the other,   *)
(* when all the others have ended.                                           *)
Awaited == <<"dispatcher", "watchdog", "push">>
Joined == {l \in Loops : \A i \in DOMAIN Awaited : l.name # Awaited[i]}

ASSUME WorkerAssumption ==
  /\ Loops \subseteq AllLoops /\ PoolSize \in Nat \ {0} /\ MaxWork \in Nat /\ MaxPanics \in Nat

Places ==
  {"check", "connect", "working", "handler", "handling", "nap", "sleep", "ended", "panicked", "cut"}
WorkerTypeOK ==
  /\ \A l \in Loops : loop[l].at \in Places /\ loop[l].todo \in 0..MaxWork /\ loop[l].busy \in BOOLEAN
  /\ signalled \in BOOLEAN /\ panics \in 0..MaxPanics
  /\ main \in {"joining", "awaiting", "exited", "failed"}

(* What main starts; a setting that is missing ends it before.                  *)
WorkerInit ==
  /\ loop = [l \in Loops |-> [at |-> "check", todo |-> 0, busy |-> FALSE]]
  /\ signalled = FALSE /\ main = "joining" /\ panics = 0

(* A process that has been asked to stop and has.                              *)
WorkerExited ==
  /\ loop = [l \in Loops |-> [at |-> "ended", todo |-> 0, busy |-> FALSE]]
  /\ signalled = TRUE /\ main = "exited" /\ panics = 0

-----------------------------------------------------------------------------
Running == main \in {"joining", "awaiting"}
Keeps(l) == CASE loop[l].at \in {"working", "handler"} -> 1
              [] loop[l].at = "handling" -> 2
              [] OTHER -> 0
FreeConnections == PoolSize - MapThenSumSet(Keeps, Loops)

Stands(l, place) == Running /\ loop[l].at = place
Move(l, new) == loop' = [loop EXCEPT ![l] = new] /\ UNCHANGED <<signalled, main, panics>>
GoesTo(l, place) == Move(l, [loop[l] EXCEPT !.at = place])

(* The top of every loop: the signal, or a round and what it will find to do.    *)
CheckSignal(l) ==
  /\ Stands(l, "check")
  /\ IF signalled THEN GoesTo(l, "ended")
     ELSE \E n \in IF l.relay \/ l.many THEN 0..MaxWork ELSE {0} :
            Move(l, [at |-> "connect", todo |-> n, busy |-> n > 0])

Connect(l) == Stands(l, "connect") /\ FreeConnections > 0 /\ GoesTo(l, "working")

(* A round that fails: a relay sleeps for its interval and does not listen, the  *)
(* others sleep as they do after every round.                                *)
AfterFailure(l) == IF l.relay THEN "nap" ELSE "sleep"
NapEnds(l) == Stands(l, "nap") /\ GoesTo(l, "check")
RoundFails(l) == Stands(l, "working") /\ GoesTo(l, AfterFailure(l))

(* Plausible bug: connections are waited for without a limit.                   *)
WaitsForEver(l) == FALSE
GivesUp(l) == loop[l].at \in {"connect", "handler"} /\ FreeConnections = 0

(* acquire_timeout: the round fails; a handler fails, and its event is retried.   *)
TimesOut(l) ==
  /\ Running /\ GivesUp(l)
  /\ \/ Stands(l, "connect") /\ GoesTo(l, AfterFailure(l))
     \/ Stands(l, "handler") /\ Move(l, [loop[l] EXCEPT !.at = "working", !.todo = @ - 1])

(* A timed round: its transaction ends, there is another, or it sleeps.          *)
EndTransaction(l) ==
  /\ Stands(l, "working") /\ ~l.relay
  /\ IF loop[l].todo > 0 THEN Move(l, [loop[l] EXCEPT !.at = "connect", !.todo = @ - 1])
     ELSE GoesTo(l, "sleep")

(* A relay's round: a handler per event, then the commit.  Only an empty batch    *)
(* is followed by a sleep.                                                   *)
CallHandler(l) == Stands(l, "working") /\ l.relay /\ loop[l].todo > 0 /\ GoesTo(l, "handler")
HandlerConnects(l) == Stands(l, "handler") /\ FreeConnections > 0 /\ GoesTo(l, "handling")
HandlerReturns(l) ==
  Stands(l, "handling") /\ Move(l, [loop[l] EXCEPT !.at = "working", !.todo = @ - 1])
EndBatch(l) ==
  /\ Stands(l, "working") /\ l.relay /\ loop[l].todo = 0
  /\ GoesTo(l, IF loop[l].busy THEN "check" ELSE "sleep")

(* select!: the time is over, or the channel has a value that was not awaited    *)
(* before, also if it was sent during the round.                             *)
TimeElapses(l) == Stands(l, "sleep") /\ GoesTo(l, "check")
Notice(l) == Stands(l, "sleep") /\ signalled /\ GoesTo(l, "check")

Panic(l) ==
  /\ Stands(l, "working") \/ Stands(l, "handling")
  /\ panics < MaxPanics /\ panics' = panics + 1
  /\ loop' = [loop EXCEPT ![l].at = "panicked"]
  /\ UNCHANGED <<signalled, main>>

-----------------------------------------------------------------------------
(* Ctrl-C                                                                    *)
Signal == Running /\ ~signalled /\ signalled' = TRUE /\ UNCHANGED <<loop, main, panics>>

Over(l) == loop[l].at \in {"ended", "panicked"}
Panicked(set) == \E l \in set : loop[l].at = "panicked"

(* main returns, the runtime is dropped, and with it the rounds that are open.    *)
Return(how) ==
  /\ main' = how
  /\ loop' = [l \in Loops |->
       IF Over(l) THEN loop[l] ELSE [loop[l] EXCEPT !.at = IF Keeps(l) > 0 THEN "cut" ELSE "ended"]]
  /\ UNCHANGED <<signalled, panics>>

(* join! waits for all of them before the first result is looked at.             *)
JoinAll ==
  /\ main = "joining" /\ \A l \in Joined : Over(l)
  /\ IF Panicked(Joined) THEN Return("failed")
     ELSE main' = "awaiting" /\ UNCHANGED <<loop, signalled, panics>>

(* One handle after the other; the first that has panicked ends it.             *)
NextAwaited(set) == CHOOSE l \in set : \A k \in set :
  \E i, j \in DOMAIN Awaited : i <= j /\ l.name = Awaited[i] /\ k.name = Awaited[j]
AwaitRest ==
  LET open == {l \in Loops \ Joined : loop[l].at # "ended"} IN
  /\ main = "awaiting"
  /\ IF open = {} THEN Return("exited")
     ELSE loop[NextAwaited(open)].at = "panicked" /\ Return("failed")

-----------------------------------------------------------------------------
LoopStep(l) ==
  \/ CheckSignal(l) \/ Connect(l) \/ NapEnds(l) \/ RoundFails(l) \/ TimesOut(l) \/ EndTransaction(l)
  \/ CallHandler(l) \/ HandlerConnects(l) \/ HandlerReturns(l) \/ EndBatch(l) \/ Notice(l)
WorkerNext ==
  \/ Signal \/ JoinAll \/ AwaitRest
  \/ \E l \in Loops : LoopStep(l) \/ TimeElapses(l) \/ Panic(l)

(* A sleep may take a day: nothing obliges it to end, only the signal does.      *)
WorkerFairness ==
  /\ \A l \in Loops : WF_workerVars(LoopStep(l))
  /\ WF_workerVars(JoinAll) /\ WF_workerVars(AwaitRest)
WorkerSpec == WorkerInit /\ [][WorkerNext]_workerVars /\ WorkerFairness

-----------------------------------------------------------------------------
(* After Ctrl-C the process ends, wherever its loops were: asleep, in a round, or  *)
(* each holding a connection and waiting for another's.                       *)
StopsWhenAsked == signalled ~> ~Running

(* Unless a loop has panicked, no round is cut off in the middle by the end.      *)
NoRoundIsCut == panics = 0 => \A l \in Loops : loop[l].at # "cut"

(* Violated: the panic of a loop ends the process (comment above join!).         *)
PanicEndsProcess == panics > 0 ~> ~Running

(* Violated: a loop that panics takes no other's round with it.                 *)
OthersFinish == \A l \in Loops : loop[l].at # "cut"

(* Violated: an attempt is charged only to an event whose handler has run.        *)
AttemptsAreReal == [][\A l \in Loops : loop[l].at = "handler" => loop'[l].at # "working"]_workerVars
=============================================================================
