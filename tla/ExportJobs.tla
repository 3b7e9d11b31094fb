------------------------------- MODULE ExportJobs -------------------------------
(***************************************************************************)
(* Audit and report exports.  A request writes the job and its outbox event *)
(* in one transaction; a relay delivers the event at least once; the        *)
(* handler marks the job RUNNING, writes a file under the export's id and    *)
(* marks the job COMPLETED, each in a transaction of its own, or FAILED when *)
(* any of it goes wrong.  The relay keeps the event locked while the handler *)
(* runs, unless its connection is lost.                                      *)
(***************************************************************************)
EXTENDS Naturals

CONSTANTS
  Exports,      \* export ids that users ask for
  Exporters,    \* relay tasks that deliver export events
  MaxAttempts,  \* RelayConfig.max_attempts
  MaxMishaps    \* bound: failing calls, lost connections and dying processes

ASSUME ExportAssumption == MaxAttempts \in Nat \ {0} /\ MaxMishaps \in Nat

VARIABLES
  job,      \* job[x]: status of a row of audit_exports or report_exports
  file,     \* exports whose object is in the storage
  notice,   \* notice[x]: the outbox event of a job
  run,      \* run[w]: the delivery a relay task is busy with
  lost,     \* history: a relay lost its connection while a handler ran
  mishaps   \* how many of MaxMishaps have happened

exportVars == <<job, file, notice, run, lost, mishaps>>

Resting == [on |-> FALSE]
Delivery == [on : {TRUE}, export : Exports, held : BOOLEAN,
             step : {"claimed", "running", "uploaded", "broken", "ok", "err"}]

ExportTypeOK ==
  /\ job \in [Exports -> {"NONE", "PENDING", "RUNNING", "COMPLETED", "FAILED"}]
  /\ file \subseteq Exports
  /\ notice \in [Exports -> [state : {"none", "pending", "published", "parked"},
                             attempts : 0..MaxAttempts]]
  /\ run \in [Exporters -> {Resting} \cup Delivery]
  /\ lost \in BOOLEAN
  /\ mishaps \in 0..MaxMishaps

ExportInit ==
  /\ job = [x \in Exports |-> "NONE"]
  /\ file = {}
  /\ notice = [x \in Exports |-> [state |-> "none", attempts |-> 0]]
  /\ run = [w \in Exporters |-> Resting]
  /\ lost = FALSE /\ mishaps = 0

Mishap == mishaps < MaxMishaps /\ mishaps' = mishaps + 1
At(w, step) == run[w].on /\ run[w].step = step
GoTo(w, step) == run' = [run EXCEPT ![w].step = step]

-----------------------------------------------------------------------------
(* POST /audit-log:export and POST /reports/{reportCode}:export               *)
RequestExport(x) ==
  /\ job[x] = "NONE"
  /\ job' = [job EXCEPT ![x] = "PENDING"]
  /\ notice' = [notice EXCEPT ![x].state = "pending"]
  /\ UNCHANGED <<file, run, lost, mishaps>>

(* The relay's claim: FOR UPDATE SKIP LOCKED, held until the round commits.    *)
ClaimExport(w, x) ==
  /\ ~run[w].on /\ notice[x].state = "pending"
  /\ \A v \in Exporters : run[v].on => run[v].export # x \/ ~run[v].held
  /\ run' = [run EXCEPT ![w] = [on |-> TRUE, export |-> x, held |-> TRUE,
                                step |-> "claimed"]]
  /\ UNCHANGED <<job, file, notice, lost, mishaps>>

-----------------------------------------------------------------------------
(* produce                                                                    *)

Unfinished == {"PENDING", "RUNNING"}

(* Plausible bug: the UPDATE to RUNNING without its condition on the status.    *)
StartAnyRun(w) ==
  /\ At(w, "claimed")
  /\ job' = [job EXCEPT ![run[w].export] = "RUNNING"]
  /\ GoTo(w, "running")
  /\ UNCHANGED <<file, notice, lost, mishaps>>
(* A job that is not PENDING or RUNNING is answered Ok(0).                     *)
StartRun(w) ==
  /\ At(w, "claimed")
  /\ LET x == run[w].export IN
       \/ /\ job[x] \in Unfinished
          /\ job' = [job EXCEPT ![x] = "RUNNING"]
          /\ GoTo(w, "running")
       \/ /\ job[x] \notin Unfinished
          /\ GoTo(w, "ok")
          /\ UNCHANGED job
  /\ UNCHANGED <<file, notice, lost, mishaps>>

(* The object key is the export id: a repeated upload overwrites.              *)
Upload(w) ==
  /\ At(w, "running")
  /\ file' = file \cup {run[w].export}
  /\ GoTo(w, "uploaded")
  /\ UNCHANGED <<job, notice, lost, mishaps>>

CompleteRun(w) ==
  /\ At(w, "uploaded")
  /\ job' = [job EXCEPT ![run[w].export] = "COMPLETED"]
  /\ GoTo(w, "ok")
  /\ UNCHANGED <<file, notice, lost, mishaps>>

(* A query, the upload or an update fails.  Before RUNNING nothing is          *)
(* recorded, later the job is marked.                                          *)
CallFails(w) ==
  /\ \/ At(w, "claimed") /\ GoTo(w, "err")
     \/ (At(w, "running") \/ At(w, "uploaded")) /\ GoTo(w, "broken")
  /\ Mishap
  /\ UNCHANGED <<job, file, notice, lost>>

RecordFailure(w) ==
  /\ At(w, "broken")
  /\ job' = [job EXCEPT ![run[w].export] = "FAILED"]
  /\ GoTo(w, "err")
  /\ UNCHANGED <<file, notice, lost, mishaps>>

(* The result of recording the failure is thrown away.                         *)
RecordLost(w) ==
  /\ At(w, "broken")
  /\ GoTo(w, "err")
  /\ Mishap
  /\ UNCHANGED <<job, file, notice, lost>>

-----------------------------------------------------------------------------
(* The relay's own transaction                                                *)

Retried(n) == [state |-> IF n + 1 >= MaxAttempts THEN "parked" ELSE "pending",
               attempts |-> n + 1]

Settle(w) ==
  /\ At(w, "ok") \/ At(w, "err")
  /\ LET x == run[w].export IN
       notice' = IF ~run[w].held THEN notice
                 ELSE IF At(w, "ok") THEN [notice EXCEPT ![x].state = "published"]
                 ELSE [notice EXCEPT ![x] = Retried(notice[x].attempts)]
  /\ run' = [run EXCEPT ![w] = Resting]
  /\ UNCHANGED <<job, file, lost, mishaps>>

(* The relay's connection is lost and its locks with it; the handler, on       *)
(* connections of its own, goes on.                                            *)
LoseConnection(w) ==
  /\ run[w].on /\ run[w].held
  /\ run' = [run EXCEPT ![w].held = FALSE]
  /\ lost' = TRUE
  /\ Mishap
  /\ UNCHANGED <<job, file, notice>>

KillExporter(w) ==
  /\ run[w].on
  /\ run' = [run EXCEPT ![w] = Resting]
  /\ Mishap
  /\ UNCHANGED <<job, file, notice, lost>>

ExportStep(w) ==
  StartRun(w) \/ Upload(w) \/ CompleteRun(w) \/ RecordFailure(w) \/ Settle(w)

ExportNext ==
  \/ \E x \in Exports : RequestExport(x) \/ \E w \in Exporters : ClaimExport(w, x)
  \/ \E w \in Exporters : ExportStep(w) \/ CallFails(w) \/ RecordLost(w)
                          \/ LoseConnection(w) \/ KillExporter(w)

ExportSpec == ExportInit /\ [][ExportNext]_exportVars

(* Relays keep polling and a delivery that was begun goes on to its end.       *)
ExportFairness ==
  /\ \A w \in Exporters : WF_exportVars(ExportStep(w))
  /\ \A x \in Exports : WF_exportVars(\E w \in Exporters : ClaimExport(w, x))

ExportFairSpec == ExportSpec /\ ExportFairness

-----------------------------------------------------------------------------
(* An event is never acknowledged while its job still waits or runs: whoever    *)
(* polls the job is told the end, and a job shown as COMPLETED has its file,    *)
(* whatever fails, dies, overlaps or is delivered again.                       *)
PublishedIsTold ==
  \A x \in Exports :
    /\ notice[x].state = "published" => job[x] \in {"COMPLETED", "FAILED"}
    /\ job[x] = "COMPLETED" => x \in file

(* A delivered result is final as long as no relay lost its connection: a       *)
(* redelivery of the event never turns a COMPLETED job into anything else.      *)
CompletedIsKept ==
  [][\A x \in Exports : job[x] = "COMPLETED" /\ ~lost => job'[x] = "COMPLETED"]_exportVars

(* The answer that a job gives is there in time, true, and final.                *)
ExportsAreHonest == []PublishedIsTold /\ CompletedIsKept

(* With fewer mishaps than attempts every requested export ends, and its event   *)
(* is not parked.                                                              *)
JobEnds ==
  \A x \in Exports : job[x] = "PENDING" ~>
    job[x] \in {"COMPLETED", "FAILED"} /\ notice[x].state = "published"

(* Violated: "retries and backoff of the outbox are reused in full" -- an event  *)
(* that was retried and acknowledged has produced the file.                     *)
AckedIsCompleted ==
  \A x \in Exports : notice[x].state = "published" => job[x] = "COMPLETED"
=============================================================================
