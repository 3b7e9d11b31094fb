---------------------------- MODULE MeterReadings -----------------------------
(***************************************************************************)
(* fms-asset: readings of one meter, posted by people and pushed by IoT      *)
(* gateways.  Both compute the next value with next_meter_value in one       *)
(* statement and store it in a later one, whose WHERE keeps a late reading   *)
(* from moving the value back; only the posting handler looks for plans      *)
(* whose threshold is crossed and emits the event that generates their       *)
(* work orders.                                                              *)
(***************************************************************************)
EXTENDS Naturals, FiniteSets

CONSTANTS
  ReadingTypes,  \* the reading types a behaviour may choose its meter from
  Rollover,      \* rollover_at, 0 for NULL
  Threshold,     \* meter_threshold of the plan that watches the meter
  MaxValue,      \* bound: values that are reported
  MaxAt,         \* bound: reading_at
  Posters,       \* server tasks serving POST .../readings
  Gateways,      \* tasks serving the IoT ingestion
  MaxReadings    \* bound: readings that are accepted or refused

Tasks == Posters \cup Gateways

ASSUME MeterAssumption ==
  /\ ReadingTypes \subseteq {"CUMULATIVE", "DELTA", "GAUGE"}
  /\ Rollover \in Nat /\ Threshold \in Nat \ {0}
  /\ MaxValue \in Nat /\ MaxAt \in Nat /\ MaxReadings \in Nat
  /\ IsFiniteSet(Posters) /\ IsFiniteSet(Gateways) /\ Posters \cap Gateways = {}

VARIABLES
  meter,     \* the row of asset_meters: type, last_value, last_read_at (0: NULL)
  readings,  \* committed rows of asset_meter_readings
  crossing,  \* reading_at of the committed threshold events
  refused,   \* readings that got METER_VALUE_INVALID
  task       \* task[t]: the open transaction of a task

meterVars == <<meter, readings, crossing, refused, task>>

MeterReading == [value : 0..MaxValue, at : 1..MaxAt, nr : 1..MaxReadings]
Free == [step |-> "free"]
Taken == Cardinality(readings) + Cardinality(refused)

MeterTypeOK ==
  /\ meter \in [type : ReadingTypes, last : Nat, readAt : 0..MaxAt]
  /\ readings \subseteq MeterReading
  /\ refused \subseteq [value : 0..MaxValue, at : 1..MaxAt, last : Nat,
                        readAt : 0..MaxAt, nr : 1..MaxReadings]
  /\ crossing \subseteq 1..MaxAt
  /\ task \in [Tasks -> {Free} \cup
       [step : {"read", "computed", "stored"}, value : 0..MaxValue, at : 1..MaxAt,
        old : Nat, next : Nat, hit : BOOLEAN]]

MeterInit ==
  /\ meter \in [type : ReadingTypes, last : {0}, readAt : {0}]
  /\ readings = {} /\ refused = {} /\ crossing = {}
  /\ task = [t \in Tasks |-> Free]

-----------------------------------------------------------------------------
(* meter_state: the value before the reading, read without a lock.            *)
Report(t, v, a) ==
  /\ task[t] = Free
  /\ Taken + Cardinality({u \in Tasks : task[u] # Free}) < MaxReadings
  /\ task' = [task EXCEPT ![t] = [step |-> "read", value |-> v, at |-> a,
                                  old |-> meter.last, next |-> 0, hit |-> FALSE]]
  /\ UNCHANGED <<meter, readings, crossing, refused>>

(* fms.next_meter_value                                                       *)
Wraps == Rollover > meter.last
Accepts(v) == meter.type = "CUMULATIVE" => v >= meter.last \/ Wraps
NextValue(v) ==
  CASE meter.type = "DELTA" -> meter.last + v
    [] meter.type = "GAUGE" -> v
    [] OTHER -> IF v >= meter.last THEN v ELSE Rollover + v

Compute(t) ==
  /\ task[t].step = "read"
  /\ LET r == task[t] IN
       \/ /\ Accepts(r.value)
          /\ task' = [task EXCEPT ![t].step = "computed", ![t].next = NextValue(r.value)]
          /\ UNCHANGED refused
       \/ /\ ~Accepts(r.value)
          /\ task' = [task EXCEPT ![t] = Free]
          /\ refused' = refused \cup {[value |-> r.value, at |-> r.at, last |-> meter.last,
                                       readAt |-> meter.readAt, nr |-> Taken + 1]}
  /\ UNCHANGED <<meter, readings, crossing>>

(* The UPDATE takes the row lock when its WHERE holds for the committed row,   *)
(* waits for a lock that is held, and then looks again.                        *)
(* Plausible bug: every reading moves the value.                               *)
InTimeAlways(a) == TRUE
InTime(a) == meter.readAt <= a
Store(t) ==
  /\ task[t].step = "computed"
  /\ InTime(task[t].at) => \A u \in Tasks : task[u].step = "stored" => ~task[u].hit
  /\ task' = [task EXCEPT ![t].step = "stored", ![t].hit = InTime(task[t].at)]
  /\ UNCHANGED <<meter, readings, crossing, refused>>

Crosses(old, new) ==
  IF meter.type = "GAUGE" THEN old < Threshold /\ Threshold <= new
                          ELSE (new \div Threshold) > (old \div Threshold)

(* last_value as the handler shows it decides whether thresholds are looked at *)
Shown(r) == IF r.hit THEN r.next ELSE r.old
Triggers(t) ==
  LET r == task[t] IN t \in Posters /\ Shown(r) = r.next /\ Crosses(r.old, r.next)

Save(t) ==
  /\ task[t].step = "stored"
  /\ LET r == task[t] IN
       /\ meter' = IF r.hit THEN [meter EXCEPT !.last = r.next, !.readAt = r.at] ELSE meter
       /\ readings' = readings \cup {[value |-> r.value, at |-> r.at, nr |-> Taken + 1]}
       /\ crossing' = IF Triggers(t) THEN crossing \cup {r.at} ELSE crossing
  /\ task' = [task EXCEPT ![t] = Free]
  /\ UNCHANGED refused

Step(t) == Compute(t) \/ Store(t) \/ Save(t)

MeterNext ==
  \E t \in Tasks : Step(t) \/ \E v \in 0..MaxValue, a \in 1..MaxAt : Report(t, v, a)

MeterSpec == MeterInit /\ [][MeterNext]_meterVars

-----------------------------------------------------------------------------
(* last_value is what the latest reading made it, although readings arrive     *)
(* late, together and through two paths: no later reading is ever hidden by    *)
(* an earlier one that was stored after it.                                    *)
CurrentIsLatest ==
  /\ \A r \in readings : r.at <= meter.readAt
  /\ readings # {} => meter.readAt # 0
  /\ readings # {} /\ meter.type # "DELTA" /\ Rollover = 0 =>
       \E r \in readings : r.at = meter.readAt /\ r.value = meter.last

(* Violated: a late reading of a cumulative meter is still part of its history    *)
(* and is taken, it only does not move the value back.                           *)
LateReadingIsTaken == \A r \in refused : r.at >= r.readAt
=============================================================================
