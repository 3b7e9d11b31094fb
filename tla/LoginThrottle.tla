------------------------------ MODULE LoginThrottle ------------------------------
(***************************************************************************)
(* The limit on failed password attempts per tenant and identifier: a map in   *)
(* the memory of one server process.  The check before an attempt and the      *)
(* count after it are two critical sections with the verification of the       *)
(* password in between.  The identifier is folded to lower case.              *)
(***************************************************************************)
EXTENDS Naturals, Sequences, FiniteSets

CONSTANTS
  Identifiers,  \* tenant and identifier as typed
  KeyOf,        \* KeyOf[i]: its folded form
  MaxFailures,  \* settings.login_throttle.max_failures
  LoginWindow,  \* settings.login_throttle.window
  Logins,       \* requests being served
  LoginTime,    \* bound: the clock
  MaxLogins     \* bound: attempts

Keys == {KeyOf[i] : i \in Identifiers}
NoLogin == "none"

ASSUME ThrottleAssumption ==
  /\ MaxFailures \in Nat \ {0} /\ LoginWindow \in Nat \ {0} /\ LoginTime \in Nat /\ MaxLogins \in Nat
  /\ DOMAIN KeyOf = Identifiers /\ NoLogin \notin Keys /\ IsFiniteSet(Logins)

VARIABLES
  windows,  \* windows[k]: failures and start; no failures: not in the map
  login,    \* login[t]: the key being verified, or none
  time,
  tried,
  fails     \* history: fails[k]: when failures were counted since the last success

throttleVars == <<windows, login, time, tried, fails>>

NoWindow == [failures |-> 0, started |-> 0]

ThrottleTypeOK ==
  /\ \A k \in Keys : windows[k].failures \in 0..MaxLogins /\ windows[k].started \in 0..LoginTime
  /\ \A t \in Logins : login[t] \in Keys \cup {NoLogin}
  /\ time \in 0..LoginTime /\ tried \in 0..MaxLogins

ThrottleInit ==
  /\ windows = [k \in Keys |-> NoWindow]
  /\ login = [t \in Logins |-> NoLogin]
  /\ time = 0 /\ tried = 0
  /\ fails = [k \in Keys |-> <<>>]

-----------------------------------------------------------------------------
InWindow(w) == w.failures > 0 /\ time - w.started < LoginWindow
Blocked(k) == InWindow(windows[k]) /\ windows[k].failures >= MaxFailures

(* check: a blocked request verifies nothing and counts for nothing.            *)
Attempt(t, i) ==
  /\ login[t] = NoLogin /\ tried < MaxLogins
  /\ tried' = tried + 1
  /\ login' = [login EXCEPT ![t] = IF Blocked(KeyOf[i]) THEN NoLogin ELSE KeyOf[i]]
  /\ UNCHANGED <<windows, time, fails>>

Counted(w) ==
  IF InWindow(w) THEN [w EXCEPT !.failures = @ + 1] ELSE [failures |-> 1, started |-> time]

(* Rejected, for whatever reason: the windows that are over are dropped.        *)
RecordFailure(t) ==
  LET k == login[t] IN
  /\ k # NoLogin
  /\ windows' = [j \in Keys |-> IF j = k THEN Counted(windows[j])
                                ELSE IF InWindow(windows[j]) THEN windows[j] ELSE NoWindow]
  /\ fails' = [fails EXCEPT ![k] = Append(@, time)]
  /\ login' = [login EXCEPT ![t] = NoLogin]
  /\ UNCHANGED <<time, tried>>

Grant(t) ==
  /\ login[t] # NoLogin
  /\ windows' = [windows EXCEPT ![login[t]] = NoWindow]
  /\ fails' = [fails EXCEPT ![login[t]] = <<>>]
  /\ login' = [login EXCEPT ![t] = NoLogin]
  /\ UNCHANGED <<time, tried>>

(* The database fails, or the client leaves: neither counted nor forgiven.      *)
Unanswered(t) ==
  /\ login[t] # NoLogin
  /\ login' = [login EXCEPT ![t] = NoLogin]
  /\ UNCHANGED <<windows, time, tried, fails>>

PassTime == time < LoginTime /\ time' = time + 1 /\ UNCHANGED <<windows, login, tried, fails>>

ThrottleNext ==
  \/ PassTime
  \/ \E t \in Logins :
       \/ \E i \in Identifiers : Attempt(t, i)
       \/ RecordFailure(t) \/ Grant(t) \/ Unanswered(t)

ThrottleSpec == ThrottleInit /\ [][ThrottleNext]_throttleVars

-----------------------------------------------------------------------------
(* The n-th failure counted from the last one is not older than a window.        *)
Recently(k, n) ==
  n <= Len(fails[k]) /\ time - fails[k][Len(fails[k]) - n + 1] < LoginWindow

(* Whoever is blocked has failed MaxFailures times within the window, and not    *)
(* succeeded since: requests that are turned away never prolong it.             *)
BlocksAreEarned == \A k \in Keys : Blocked(k) => Recently(k, MaxFailures)

(* Attempts that overlap pass the check together: a window takes MaxFailures - 1  *)
(* failures and one for each request being served then, and any stretch of time     *)
(* as long as a window meets two of them at most.                             *)
PerWindow == MaxFailures - 1 + Cardinality(Logins)
FailuresAreBounded ==
  \A k \in Keys : windows[k].failures <= PerWindow /\ ~Recently(k, 2 * PerWindow + 1)

ThrottleIsFair == BlocksAreEarned /\ FailuresAreBounded

(* Violated: never more than MaxFailures failures in a window.                   *)
ExactlyMax == \A k \in Keys : windows[k].failures <= MaxFailures
=============================================================================
