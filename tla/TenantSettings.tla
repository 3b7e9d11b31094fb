----------------------------- MODULE TenantSettings -----------------------------
(***************************************************************************)
(* The settings that administrators keep for a facility or for the tenant:    *)
(* service items, SLA policies and the calendar of holidays.  All three are    *)
(* read without a lock, judged with what the request changes, and written by   *)
(* a statement that names only what was sent; row security judges the row      *)
(* once more.  Beside them reservations take service items as they are read.   *)
(***************************************************************************)
EXTENDS Naturals, FiniteSets, FiniteSetsExt

CONSTANTS
  Facilities,
  TenantWide,  \* facility_id IS NULL
  KeyNames,    \* a code, a priority, a date
  AnyKey,      \* a policy without a priority
  Regular,     \* <<f, k>>: facility f works on day k by its weekly hours
  Offices,     \* server tasks
  Users,
  Permit,      \* Permit[u]: the places for which u has the permission
  Scope,       \* Scope[u]: the places that row security lets u write
  Forms,       \* bound: bodies of POST
  Changes,     \* bound: bodies of PATCH
  Lines,       \* bound: ids of rows
  MaxFiled     \* bound: requests and lost ones

Places == Facilities \cup {TenantWide}
Settable ==
  [place |-> Places, key |-> KeyNames \cup {AnyKey}, flag |-> BOOLEAN, need |-> BOOLEAN,
   active |-> BOOLEAN]
ASSUME SettingsAssumption ==
  /\ TenantWide \notin Facilities /\ AnyKey \notin KeyNames /\ Regular \subseteq Facilities \X KeyNames
  /\ \A u \in Users :
       /\ Permit[u] \subseteq Scope[u] /\ Scope[u] \subseteq Places
       /\ TenantWide \in Permit[u] => Permit[u] = Places
  /\ Forms \subseteq
       [place : Places, key : KeyNames \cup {AnyKey}, flag : BOOLEAN, need : BOOLEAN]
  /\ \A asks \in Changes : \A f \in DOMAIN asks : f \in DOMAIN Settable /\ asks[f] \in Settable[f]
  /\ Lines \subseteq Nat \ {0} /\ MaxFiled \in Nat

VARIABLES
  kept,   \* which of the three
  line,   \* line[i]: a committed row
  desk,   \* desk[c]: an open request
  sold,   \* sold[i]: how the last reservation that took item i was priced
  filed

settingVars == <<kept, line, desk, sold, filed>>

SettingKinds == {"items", "policies", "holidays"}
(* flag and need: chargeable and a price with its currency, or a day that is        *)
(* worked and its windows.  crossed: history, a PATCH was judged by an older row.   *)
NoLine ==
  [there |-> "none", place |-> TenantWide, key |-> AnyKey, flag |-> FALSE, need |-> FALSE,
   active |-> TRUE, crossed |-> FALSE]
NoRequest == [kind |-> "none"]

SettingTypeOK ==
  /\ kept \in SettingKinds
  /\ \A i \in Lines :
       /\ line[i].there \in {"none", "live", "gone"} /\ line[i].place \in Places
       /\ line[i].key \in KeyNames \cup {AnyKey}
       /\ line[i].flag \in BOOLEAN /\ line[i].need \in BOOLEAN /\ line[i].active \in BOOLEAN
       /\ sold[i] \in {"never", "free", "priced", "unpriced"}
  /\ \A c \in Offices : desk[c].kind \in {"none", "post", "patch", "delete", "take"}
  /\ filed \in 0..MaxFiled

-----------------------------------------------------------------------------
(* What a POST of this table writes; a policy has no rule between its columns.      *)
FromForm(t, form) ==
  [NoLine EXCEPT !.there = "live", !.place = form.place, !.key = form.key,
                 !.flag = form.flag /\ t # "policies", !.need = form.need]
Patchable(t) ==
  CASE t = "items" -> {"flag", "need", "active"}
    [] t = "policies" -> {"place", "key", "active"}
    [] OTHER -> {"place", "key", "flag", "need"}
KeysOf(t) == IF t = "policies" THEN KeyNames \cup {AnyKey} ELSE KeyNames

(* coalesce and CASE WHEN given: what was not sent stays.                           *)
WithAsked(old, asks) == [f \in DOMAIN old |-> IF f \in DOMAIN asks THEN asks[f] ELSE old[f]]

(* validate_pricing, check_make_up_day                                             *)
Sensible(t, new) ==
  new.flag => \/ new.need
              \/ t = "holidays" /\ <<new.place, new.key>> \in Regular

(* Plausible bug: only what was sent is judged.                                    *)
JudgedAsSent(t, old, asks) == Sensible(t, WithAsked([old EXCEPT !.flag = FALSE], asks))
Judged(t, old, asks) == Sensible(t, WithAsked(old, asks))

(* A service item of the tenant asks for the permission at any place.               *)
Permitted(u, t, place) ==
  IF t = "items" /\ place = TenantWide THEN Permit[u] # {} ELSE place \in Permit[u]
Readable(u, i) == line[i].there = "live" /\ line[i].place \in Scope[u] \cup {TenantWide}

(* uq_service_items_code, uq_sla_policies_scope, uq_holiday_calendars_date           *)
InIndex(t, r) == r.there = "live" /\ (t = "policies" => r.active)
NoDuplicate(i, new) ==
  InIndex(kept, new) =>
    \A j \in Lines \ {i} :
      ~(InIndex(kept, line[j]) /\ line[j].place = new.place /\ line[j].key = new.key)

SettingsInit ==
  /\ kept \in SettingKinds
  /\ \E form \in Forms :
       /\ form.key \in KeysOf(kept) /\ Sensible(kept, FromForm(kept, form))
       /\ line = [i \in Lines |-> IF i = 1 THEN FromForm(kept, form) ELSE NoLine]
  /\ desk = [c \in Offices |-> NoRequest]
  /\ sold = [i \in Lines |-> "never"] /\ filed = 0

-----------------------------------------------------------------------------
Open(c, q) ==
  /\ desk[c] = NoRequest /\ filed < MaxFiled /\ filed' = filed + 1
  /\ desk' = [desk EXCEPT ![c] = q] /\ UNCHANGED <<kept, line, sold>>
Close(c) == desk' = [desk EXCEPT ![c] = NoRequest] /\ UNCHANGED <<kept, filed>>

(* Whoever has read row i and not written yet has an old copy from now on.           *)
Put(c, i, new) ==
  /\ line' = [line EXCEPT ![i] = new]
  /\ desk' = [d \in Offices |->
       IF d = c THEN NoRequest
       ELSE IF desk[d].kind = "patch" /\ desk[d].id = i THEN [desk[d] EXCEPT !.fresh = FALSE]
       ELSE desk[d]]
  /\ UNCHANGED <<kept, sold, filed>>

(* A statement that row security or an index refuses changes nothing.                *)
TurnDown(c) == Close(c) /\ UNCHANGED <<line, sold>>

BeginPost(c, u, form) ==
  /\ form.key \in KeysOf(kept)
  /\ Permitted(u, kept, form.place) /\ Sensible(kept, FromForm(kept, form))
  /\ Open(c, [kind |-> "post", user |-> u, form |-> form])
FinishPost(c) ==
  LET q == desk[c]
      free == {i \in Lines : line[i].there = "none"}
      new == FromForm(kept, q.form) IN
  /\ q.kind = "post" /\ free # {}
  /\ IF q.form.place \in Scope[q.user] /\ NoDuplicate(Min(free), new)
     THEN Put(c, Min(free), new) ELSE TurnDown(c)

(* code and facility_id of a service item cannot be changed; who moves a row needs    *)
(* the permission at both places.                                                  *)
BeginSetting(c, u, i, asks) ==
  /\ DOMAIN asks \subseteq Patchable(kept) /\ Readable(u, i)
  /\ Permitted(u, kept, line[i].place) /\ Permitted(u, kept, WithAsked(line[i], asks).place)
  /\ Judged(kept, line[i], asks)
  /\ Open(c, [kind |-> "patch", user |-> u, id |-> i, asks |-> asks, fresh |-> TRUE])
FinishSetting(c) ==
  LET q == desk[c]
      old == line[q.id]
      new == [WithAsked(old, q.asks) EXCEPT !.crossed = @ \/ ~q.fresh] IN
  /\ q.kind = "patch"
  /\ IF /\ old.there = "live" /\ old.place \in Scope[q.user]
        /\ new.place \in Scope[q.user] /\ NoDuplicate(q.id, new)
     THEN Put(c, q.id, new) ELSE TurnDown(c)

(* A service item is marked, a holiday deleted; a policy can only be switched off.    *)
BeginDelete(c, u, i) ==
  /\ kept # "policies" /\ Readable(u, i) /\ Permitted(u, kept, line[i].place)
  /\ Open(c, [kind |-> "delete", user |-> u, id |-> i])
FinishDelete(c) ==
  LET q == desk[c] IN
  /\ q.kind = "delete"
  /\ IF line[q.id].there = "live" /\ line[q.id].place \in Scope[q.user]
     THEN Put(c, q.id, [line[q.id] EXCEPT !.there = "gone", !.active = kept = "holidays" /\ @])
     ELSE TurnDown(c)

(* A reservation with an additional service, priced by the item as it was read.       *)
BeginTake(c, i) ==
  /\ kept = "items" /\ line[i].there = "live"
  /\ Open(c, [kind |-> "take", id |-> i, flag |-> line[i].flag, need |-> line[i].need])
FinishTake(c) ==
  LET q == desk[c] IN
  /\ q.kind = "take" /\ Close(c) /\ UNCHANGED line
  /\ sold' = [sold EXCEPT ![q.id] =
       IF ~q.flag THEN "free" ELSE IF q.need THEN "priced" ELSE "unpriced"]

LoseSetting(c) == desk[c] # NoRequest /\ TurnDown(c)

SettingsNext ==
  \E c \in Offices :
    \/ \E u \in Users, form \in Forms : BeginPost(c, u, form)
    \/ \E u \in Users, i \in Lines, asks \in Changes : BeginSetting(c, u, i, asks)
    \/ \E u \in Users, i \in Lines : BeginDelete(c, u, i)
    \/ \E i \in Lines : BeginTake(c, i)
    \/ FinishPost(c) \/ FinishSetting(c) \/ FinishDelete(c) \/ FinishTake(c) \/ LoseSetting(c)

SettingsSpec == SettingsInit /\ [][SettingsNext]_settingVars

-----------------------------------------------------------------------------
(* No PATCH makes a row that POST would refuse, and no reservation has a service     *)
(* that costs an unknown amount, unless two PATCHes of the row overlapped.           *)
RulesHold ==
  \A i \in Lines :
    /\ line[i].there = "live" /\ ~Sensible(kept, line[i]) => line[i].crossed
    /\ sold[i] = "unpriced" => line[i].crossed

(* resolve_sla_policy and business_windows: the row of the facility before the       *)
(* tenant's, a priority before all; there is one answer, whoever moves rows or        *)
(* switches them on.                                                              *)
Bit(b) == IF b THEN 1 ELSE 0
Rank(r) == 2 * Bit(r.place # TenantWide) + Bit(r.key # AnyKey)
Candidates(f, k) ==
  {i \in Lines : InIndex(kept, line[i]) /\ line[i].place \in {f, TenantWide}
                                         /\ line[i].key \in {k, AnyKey}}
Answers(f, k) ==
  {i \in Candidates(f, k) : \A j \in Candidates(f, k) : Rank(line[j]) <= Rank(line[i])}
OneAnswer == \A f \in Facilities, k \in KeyNames : Cardinality(Answers(f, k)) <= 1

(* Whoever changes a row may write where it is and where it goes, although it may     *)
(* have moved since it was read; and what was deleted is not changed.               *)
WritesStayInScope ==
  \A c \in Offices, i \in Lines :
    desk[c] # NoRequest /\ desk'[c] = NoRequest /\ line'[i] # line[i] =>
      /\ line[i].there # "gone"
      /\ line[i].there = "live" => line[i].place \in Scope[desk[c].user]
      /\ line'[i].place \in Scope[desk[c].user]

(* The administrators' settings.                                                  *)
SettingsAreSound ==
  [][<<line, sold>>' # <<line, sold>> => RulesHold' /\ OneAnswer' /\ WritesStayInScope]_settingVars

(* Violated: PATCH has no way round the rules of POST (comment in admin.rs:403).      *)
NoBackDoor == \A i \in Lines : line[i].there = "live" => Sensible(kept, line[i])

(* Violated: a service that is paused or deleted is not added to a reservation.       *)
PausedIsNotTaken ==
  [][\A i \in Lines : sold'[i] # sold[i] => line[i].there = "live" /\ line[i].active]_settingVars

(* Violated: who changes a row has the permission for the place where it is.         *)
PermittedWhereItIs ==
  [][\A c \in Offices, i \in Lines :
       desk[c] # NoRequest /\ desk'[c] = NoRequest /\ line'[i] # line[i] /\ line[i].there = "live"
         => Permitted(desk[c].user, kept, line[i].place)]_settingVars
=============================================================================
