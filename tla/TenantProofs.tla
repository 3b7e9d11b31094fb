--------------------------- MODULE TenantProofs ---------------------------
(***************************************************************************)
(* Theorems about what a tenant administers: LoginThrottle for any keys,     *)
(* logins, limit, window and number of attempts, ProviderAdmin for any       *)
(* provider types, patches and callers, ScimProvisioning for any user names, *)
(* external ids, columns and callers, and SpatialTree for any nodes, codes,  *)
(* files and tasks, from any rows that are a tree.                           *)
(***************************************************************************)
EXTENDS MCTenant,
  SequenceTheorems, FiniteSetTheorems, WellFoundedInduction, TLAPS

-----------------------------------------------------------------------------
(* The throttle of logins *)

InFlight(k) == {t \in Logins : login[t] = k}
LastsAt(count, start, now) == count > 0 /\ now - start < LoginWindow

(* The failures of a key fall into windows.  Those after b are the last one's, those   *)
(* between a and b the one's before; whatever is older was over a window's length       *)
(* before the last one began.                                                *)
SplitCounts(count, n, a, b) ==
  /\ a <= b /\ b <= n /\ n - b <= PerWindow /\ b - a <= PerWindow
  /\ n > 0 => b < n
  /\ count > 0 => b = n - count
SplitAt(count, f, now, a, b) ==
  /\ SplitCounts(count, Len(f), a, b)
  /\ count = 0 /\ Len(f) > 0 => f[b + 1] + LoginWindow <= now
  /\ Len(f) > 0 => \A i \in 1..a : f[i] + LoginWindow <= f[b + 1]

InOrder(f, now) ==
  /\ \A i \in 1..Len(f) : f[i] <= now
  /\ \A i, j \in 1..Len(f) : i <= j => f[i] <= f[j]
CountsFit(count, start, n, m, now, all) ==
  /\ start <= now /\ count <= n /\ count + m <= all /\ count <= PerWindow
  /\ LastsAt(count, start, now) => count + m <= PerWindow

(* What holds of a key whose window counts so many since its start, that has had the     *)
(* failures f, and has m requests that are being served, of all that were ever made.     *)
KeyIsFair(count, start, f, m, now, all) ==
  /\ InOrder(f, now) /\ CountsFit(count, start, Len(f), m, now, all)
  /\ count > 0 => f[Len(f) - count + 1] = start
  /\ \E a, b \in Nat : SplitAt(count, f, now, a, b)

Window == [failures : Nat, started : Nat]
FairNow(k) ==
  KeyIsFair(windows[k].failures, windows[k].started, fails[k], Cardinality(InFlight(k)), time, tried)

ThrottleInv ==
  /\ windows \in [Keys -> Window]
  /\ login \in [Logins -> Keys \cup {NoLogin}]
  /\ time \in 0..LoginTime /\ tried \in 0..MaxLogins
  /\ fails \in [Keys -> Seq(Nat)]
  /\ \A k \in Keys : FairNow(k)

LEMMA PerWindowFacts ==
  /\ Cardinality(Logins) \in Nat /\ PerWindow \in Nat
  /\ PerWindow = MaxFailures - 1 + Cardinality(Logins)
  /\ MaxFailures \in Nat \ {0} /\ LoginWindow \in Nat \ {0}
<1> QED BY FS_CardinalityType, ThrottleAssumption DEF PerWindow

LEMMA InFlightFacts ==
  ASSUME NEW k
  PROVE  /\ IsFiniteSet(InFlight(k)) /\ Cardinality(InFlight(k)) \in Nat
         /\ Cardinality(InFlight(k)) <= Cardinality(Logins)
<1> QED BY FS_Subset, FS_CardinalityType, ThrottleAssumption DEF InFlight

LEMMA AppendInOrder ==
  ASSUME NEW f \in Seq(Nat), NEW now \in Nat, InOrder(f, now)
  PROVE  /\ Append(f, now) \in Seq(Nat) /\ Len(Append(f, now)) = Len(f) + 1
         /\ InOrder(Append(f, now), now)
         /\ Append(f, now)[Len(f) + 1] = now
         /\ \A i \in 1..Len(f) : Append(f, now)[i] = f[i]
<1> DEFINE g == Append(f, now)
<1>1. /\ g \in Seq(Nat) /\ Len(g) = Len(f) + 1 /\ Len(f) \in Nat
      /\ g[Len(f) + 1] = now
      /\ \A i \in 1..Len(f) : g[i] = f[i]
  OBVIOUS
<1> HIDE DEF g
<1>2. ASSUME NEW i \in 1..Len(g), NEW j \in 1..Len(g), i <= j
      PROVE  g[i] <= g[j] /\ g[i] <= now
  <2>1. \A x \in 1..Len(f) : f[x] \in Nat /\ f[x] <= now
    BY DEF InOrder
  <2>2. CASE j = Len(f) + 1
    <3>1. CASE i = Len(f) + 1
      BY <1>1, <2>2, <3>1
    <3>2. CASE i \in 1..Len(f)
      BY <1>1, <2>1, <2>2, <3>2
    <3> QED BY <1>1, <3>1, <3>2
  <2>3. CASE j \in 1..Len(f)
    <3>1. i \in 1..Len(f)
      BY <1>1, <1>2, <2>3
    <3>2. f[i] <= f[j]
      BY <1>2, <2>3, <3>1 DEF InOrder
    <3> QED BY <1>1, <2>1, <2>3, <3>1, <3>2
  <2> QED BY <1>1, <2>2, <2>3
<1>3. InOrder(g, now)
  <2>1. ASSUME NEW i \in 1..Len(g) PROVE g[i] <= now
    <3>1. i <= i
      BY <1>1
    <3> QED BY <1>2, <3>1
  <2> QED BY <1>2, <2>1 DEF InOrder
<1> QED BY <1>1, <1>3 DEF g

LEMMA CountFits ==
  ASSUME NEW x \in Nat, NEW s \in Nat, NEW n \in Nat, NEW m \in Nat, NEW now \in Nat, NEW all \in Nat,
         m > 0, m <= Cardinality(Logins), CountsFit(x, s, n, m, now, all)
  PROVE  /\ LastsAt(x, s, now) => CountsFit(x + 1, s, n + 1, m - 1, now, all)
         /\ ~LastsAt(x, s, now) => CountsFit(1, now, n + 1, m - 1, now, all)
<1> QED BY PerWindowFacts DEF CountsFit, LastsAt

LEMMA CountSplits ==
  ASSUME NEW x \in Nat, NEW n \in Nat, NEW a \in Nat, NEW b \in Nat, SplitCounts(x, n, a, b),
         PerWindow > 0
  PROVE  /\ x > 0 /\ x <= n /\ x + 1 <= PerWindow => SplitCounts(x + 1, n + 1, a, b)
         /\ SplitCounts(1, n + 1, b, n)
<1>1. ASSUME x > 0, x <= n, x + 1 <= PerWindow PROVE SplitCounts(x + 1, n + 1, a, b)
  BY <1>1, PerWindowFacts DEF SplitCounts
<1>2. SplitCounts(1, n + 1, b, n)
  BY PerWindowFacts DEF SplitCounts
<1> QED BY <1>1, <1>2

(* A failure is counted in the window that lasts: the request is no longer served.       *)
LEMMA CountIsFair ==
  ASSUME NEW x \in Nat, NEW s \in Nat, NEW f \in Seq(Nat), NEW m \in Nat, NEW now \in Nat,
         NEW all \in Nat, m > 0, m <= Cardinality(Logins), KeyIsFair(x, s, f, m, now, all),
         LastsAt(x, s, now)
  PROVE  KeyIsFair(x + 1, s, Append(f, now), m - 1, now, all)
<1> DEFINE g == Append(f, now)
           n == Len(f)
<1>1. /\ Len(g) = n + 1 /\ n \in Nat
      /\ InOrder(g, now)
      /\ \A i \in 1..n : g[i] = f[i]
  BY AppendInOrder DEF KeyIsFair
<1> HIDE DEF g, n
<1>2. PICK a \in Nat, b \in Nat : SplitAt(x, f, now, a, b)
  BY DEF KeyIsFair
<1>3. CountsFit(x, s, n, m, now, all) /\ SplitCounts(x, n, a, b)
  BY <1>2 DEF KeyIsFair, SplitAt, n
<1>4. x > 0 /\ x <= n /\ x + 1 <= PerWindow
  BY <1>3, PerWindowFacts DEF CountsFit, LastsAt
<1>5. CountsFit(x + 1, s, n + 1, m - 1, now, all)
  BY <1>1, <1>3, CountFits
<1>6. SplitCounts(x + 1, n + 1, a, b)
  <2>1. PerWindow > 0
    BY <1>4, PerWindowFacts
  <2> QED BY <1>1, <1>3, <1>4, <2>1, CountSplits
<1>7. n + 1 - (x + 1) + 1 = n - x + 1 /\ n - x + 1 \in 1..n
  BY <1>1, <1>4
<1>8. g[Len(g) - (x + 1) + 1] = s
  <2>1. g[n - x + 1] = f[n - x + 1]
    BY <1>1, <1>7
  <2>2. f[n - x + 1] = s
    BY <1>4 DEF KeyIsFair, n
  <2> QED BY <1>1, <1>7, <2>1, <2>2
<1>9. a <= b /\ b + 1 \in 1..n /\ n > 0
  BY <1>1, <1>3, <1>4 DEF SplitCounts
<1>10. ASSUME NEW i \in 1..a PROVE g[i] + LoginWindow <= g[b + 1]
  <2>1. f[i] + LoginWindow <= f[b + 1]
    BY <1>2, <1>9 DEF SplitAt, n
  <2>2. i \in 1..n
    BY <1>1, <1>9
  <2> QED BY <1>1, <1>9, <2>1, <2>2
<1>11. SplitAt(x + 1, g, now, a, b)
  BY <1>1, <1>6, <1>10 DEF SplitAt
<1>12. InOrder(g, now) /\ CountsFit(x + 1, s, Len(g), m - 1, now, all)
  BY <1>1, <1>5
<1> QED BY <1>8, <1>11, <1>12 DEF KeyIsFair, g

(* The window that a failure began is over: b moves to where it ended.               *)
LEMMA LastIsOver ==
  ASSUME NEW x \in Nat, NEW s \in Nat, NEW f \in Seq(Nat), NEW m \in Nat, NEW now \in Nat,
         NEW all \in Nat, KeyIsFair(x, s, f, m, now, all), ~LastsAt(x, s, now),
         NEW a \in Nat, NEW b \in Nat, SplitAt(x, f, now, a, b), Len(f) > 0
  PROVE  f[b + 1] + LoginWindow <= now /\ b + 1 \in 1..Len(f)
<1>1. SplitCounts(x, Len(f), a, b) /\ Len(f) \in Nat
  BY DEF SplitAt
<1>2. b + 1 \in 1..Len(f)
  BY <1>1 DEF SplitCounts
<1>3. CASE x = 0
  BY <1>2, <1>3 DEF SplitAt
<1>4. CASE x > 0
  <2>1. Len(f) - x + 1 = b + 1
    BY <1>1, <1>4 DEF SplitCounts
  <2>2. f[b + 1] = s
    BY <1>4, <2>1 DEF KeyIsFair
  <2>3. now - s >= LoginWindow
    BY <1>4, PerWindowFacts DEF LastsAt
  <2> QED BY <1>2, <2>2, <2>3, PerWindowFacts
<1> QED BY <1>3, <1>4

LEMMA BeginIsFair ==
  ASSUME NEW x \in Nat, NEW s \in Nat, NEW f \in Seq(Nat), NEW m \in Nat, NEW now \in Nat,
         NEW all \in Nat, m > 0, m <= Cardinality(Logins), KeyIsFair(x, s, f, m, now, all),
         ~LastsAt(x, s, now)
  PROVE  KeyIsFair(1, now, Append(f, now), m - 1, now, all)
<1> DEFINE g == Append(f, now)
           n == Len(f)
<1>1. /\ Len(g) = n + 1 /\ n \in Nat
      /\ InOrder(g, now)
      /\ g[n + 1] = now
      /\ \A i \in 1..n : g[i] = f[i] /\ f[i] \in Nat
  BY AppendInOrder DEF KeyIsFair
<1> HIDE DEF g
<1>2. PICK a \in Nat, b \in Nat : SplitAt(x, f, now, a, b)
  BY DEF KeyIsFair
<1>3. n > 0 => f[b + 1] + LoginWindow <= now /\ b + 1 \in 1..n
  BY <1>2, LastIsOver
<1> HIDE DEF n
<1>4. CountsFit(x, s, n, m, now, all) /\ SplitCounts(x, n, a, b)
  BY <1>2 DEF KeyIsFair, SplitAt, n
<1>5. CountsFit(1, now, n + 1, m - 1, now, all)
  BY <1>1, <1>4, CountFits
<1>6. SplitCounts(1, n + 1, b, n)
  <2>1. PerWindow > 0
    BY PerWindowFacts
  <2> QED BY <1>1, <1>4, <2>1, CountSplits
<1>7. n + 1 - 1 + 1 = n + 1
  BY <1>1
<1>8. ASSUME NEW i \in 1..b PROVE g[i] + LoginWindow <= g[n + 1]
  <2>1. n > 0 /\ i \in 1..n /\ i <= b + 1
    BY <1>1, <1>4 DEF SplitCounts
  <2>2. f[i] <= f[b + 1]
    BY <1>3, <2>1 DEF KeyIsFair, InOrder, n
  <2>3. f[i] \in Nat /\ f[b + 1] \in Nat /\ g[i] = f[i]
    BY <1>1, <1>3, <2>1
  <2>4. f[i] + LoginWindow <= now
    <3>1. f[b + 1] + LoginWindow <= now
      BY <1>3, <2>1
    <3> DEFINE y == f[i]
               z == f[b + 1]
    <3>2. y \in Nat /\ z \in Nat /\ y <= z /\ z + LoginWindow <= now
      BY <2>2, <2>3, <3>1
    <3> HIDE DEF y, z
    <3>3. y + LoginWindow <= now
      BY <3>2, PerWindowFacts
    <3> QED BY <3>3 DEF y
  <2> QED BY <1>1, <2>3, <2>4
<1>9. SplitAt(1, g, now, b, n)
  BY <1>1, <1>6, <1>8 DEF SplitAt
<1>10. InOrder(g, now) /\ CountsFit(1, now, Len(g), m - 1, now, all) /\ g[Len(g) - 1 + 1] = now
  BY <1>1, <1>5, <1>7
<1> QED BY <1>1, <1>9, <1>10 DEF KeyIsFair, g

(* A window that is over is dropped.                                           *)
LEMMA DropIsFair ==
  ASSUME NEW x \in Nat, NEW s \in Nat, NEW f \in Seq(Nat), NEW m \in Nat, NEW now \in Nat,
         NEW all \in Nat, KeyIsFair(x, s, f, m, now, all), ~LastsAt(x, s, now)
  PROVE  KeyIsFair(0, 0, f, m, now, all)
<1>1. PICK a \in Nat, b \in Nat : SplitAt(x, f, now, a, b)
  BY DEF KeyIsFair
<1>2. Len(f) > 0 => f[b + 1] + LoginWindow <= now
  BY <1>1, LastIsOver
<1>3. SplitCounts(0, Len(f), a, b)
  BY <1>1 DEF SplitAt, SplitCounts
<1>4. SplitAt(0, f, now, a, b)
  BY <1>1, <1>2, <1>3 DEF SplitAt
<1>5. CountsFit(0, 0, Len(f), m, now, all)
  BY PerWindowFacts DEF KeyIsFair, CountsFit, LastsAt
<1> QED BY <1>1, <1>4, <1>5 DEF KeyIsFair

(* Other requests are being served, time passes, attempts are made.                 *)
LEMMA LaterIsFair ==
  ASSUME NEW x \in Nat, NEW s \in Nat, NEW f \in Seq(Nat), NEW m \in Nat, NEW p \in Nat,
         NEW now \in Nat, NEW then \in Nat, now <= then, NEW all \in Nat, NEW more \in Nat,
         KeyIsFair(x, s, f, m, now, all), x + p <= more,
         LastsAt(x, s, then) => x + p <= PerWindow
  PROVE  KeyIsFair(x, s, f, p, then, more)
<1>1. PICK a \in Nat, b \in Nat : SplitAt(x, f, now, a, b)
  BY DEF KeyIsFair
<1>2. SplitCounts(x, Len(f), a, b) /\ CountsFit(x, s, Len(f), m, now, all) /\ Len(f) \in Nat
  BY <1>1 DEF SplitAt, KeyIsFair
<1>3. \A i \in 1..Len(f) : f[i] \in Nat
  OBVIOUS
<1>4. CountsFit(x, s, Len(f), p, then, more)
  BY <1>2 DEF CountsFit
<1>5. InOrder(f, then)
  <2>1. ASSUME NEW i \in 1..Len(f) PROVE f[i] <= then
    <3>1. f[i] <= now /\ f[i] \in Nat
      BY <1>3 DEF KeyIsFair, InOrder
    <3> QED BY <3>1
  <2> QED BY <2>1 DEF KeyIsFair, InOrder
<1>6. ASSUME x = 0, Len(f) > 0 PROVE f[b + 1] + LoginWindow <= then
  <2>1. b + 1 \in 1..Len(f)
    BY <1>2, <1>6 DEF SplitCounts
  <2>2. f[b + 1] + LoginWindow <= now /\ f[b + 1] \in Nat
    BY <1>1, <1>3, <1>6, <2>1 DEF SplitAt
  <2> QED BY <2>2, PerWindowFacts
<1>7. SplitAt(x, f, then, a, b)
  BY <1>1, <1>6 DEF SplitAt
<1> QED BY <1>4, <1>5, <1>7 DEF KeyIsFair

LEMMA FreshIsFair ==
  ASSUME NEW m \in Nat, NEW now \in Nat, NEW all \in Nat, m <= all
  PROVE  KeyIsFair(0, 0, <<>>, m, now, all)
<1>1. SplitAt(0, <<>>, now, 0, 0)
  BY PerWindowFacts DEF SplitAt, SplitCounts
<1>2. InOrder(<<>>, now) /\ CountsFit(0, 0, Len(<<>>), m, now, all)
  BY PerWindowFacts DEF InOrder, CountsFit, LastsAt
<1> QED BY <1>1, <1>2 DEF KeyIsFair

(* What is known of one key.                                                     *)
LEMMA KeyFacts ==
  ASSUME ThrottleInv, NEW k \in Keys
  PROVE  /\ windows[k] \in Window /\ fails[k] \in Seq(Nat) /\ FairNow(k)
         /\ windows[k].failures \in Nat /\ windows[k].started \in Nat
         /\ Cardinality(InFlight(k)) \in Nat /\ Cardinality(InFlight(k)) <= Cardinality(Logins)
         /\ windows[k].failures + Cardinality(InFlight(k)) <= tried
         /\ LastsAt(windows[k].failures, windows[k].started, time) =>
              windows[k].failures + Cardinality(InFlight(k)) <= PerWindow
<1>1. windows[k] \in Window /\ fails[k] \in Seq(Nat) /\ FairNow(k)
  BY DEF ThrottleInv
<1> QED BY <1>1, InFlightFacts DEF Window, FairNow, KeyIsFair, CountsFit

LEMMA InitThrottleInv == ThrottleInit => ThrottleInv
<1> SUFFICES ASSUME ThrottleInit PROVE ThrottleInv
  OBVIOUS
<1>1. /\ windows \in [Keys -> Window] /\ login \in [Logins -> Keys \cup {NoLogin}]
      /\ fails \in [Keys -> Seq(Nat)]
      /\ time = 0 /\ tried = 0
  BY DEF ThrottleInit, Window, NoWindow
<1>2. ASSUME NEW k \in Keys PROVE FairNow(k)
  <2>1. InFlight(k) = {}
    BY ThrottleAssumption DEF ThrottleInit, InFlight
  <2>2. Cardinality(InFlight(k)) = 0
    BY <2>1, FS_EmptySet
  <2>3. windows[k].failures = 0 /\ windows[k].started = 0 /\ fails[k] = <<>>
    BY DEF ThrottleInit, NoWindow
  <2> QED BY <1>1, <2>2, <2>3, FreshIsFair DEF FairNow
<1> QED BY <1>1, <1>2, ThrottleAssumption DEF ThrottleInv

(* A request that is no longer being served, and what that means for every key.       *)
LEMMA Answered ==
  ASSUME ThrottleInv, NEW t \in Logins, NEW key \in Keys, key = login[t],
         login' = [login EXCEPT ![t] = NoLogin]
  PROVE  /\ login' \in [Logins -> Keys \cup {NoLogin}]
         /\ Cardinality(InFlight(key)) > 0
         /\ Cardinality(InFlight(key)') = Cardinality(InFlight(key)) - 1
         /\ \A k \in Keys \ {key} : InFlight(k)' = InFlight(k)
<1>1. login' \in [Logins -> Keys \cup {NoLogin}]
  BY DEF ThrottleInv
<1>2. login'[t] = NoLogin /\ \A u \in Logins \ {t} : login'[u] = login[u]
  BY DEF ThrottleInv
<1>3. \A k \in Keys : k # NoLogin
  BY ThrottleAssumption
<1>4. InFlight(key)' = InFlight(key) \ {t} /\ t \in InFlight(key)
  BY <1>2, <1>3 DEF InFlight
<1>5. \A k \in Keys \ {key} : InFlight(k)' = InFlight(k)
  BY <1>2, <1>3 DEF InFlight
<1>6. Cardinality(InFlight(key) \ {t}) = Cardinality(InFlight(key)) - 1
  BY <1>4, InFlightFacts, FS_RemoveElement
<1>7. Cardinality(InFlight(key)) > 0
  BY <1>4, InFlightFacts, FS_EmptySet
<1>8. Cardinality(InFlight(key)') = Cardinality(InFlight(key)) - 1
  BY <1>4, <1>6
<1> QED BY <1>1, <1>5, <1>7, <1>8

(* One more request, or as many as before, of every key.                           *)
LEMMA AttemptKeeps ==
  ASSUME ThrottleInv, NEW t \in Logins, NEW i \in Identifiers, Attempt(t, i)
  PROVE  ThrottleInv'
<1> DEFINE key == KeyOf[i]
<1>1. /\ login[t] = NoLogin /\ tried' = tried + 1 /\ tried' \in 0..MaxLogins
      /\ UNCHANGED <<windows, time, fails>> /\ tried \in Nat /\ time \in Nat
  BY ThrottleAssumption DEF Attempt, ThrottleInv
<1>2. key \in Keys
  BY DEF Keys
<1>3. login' = [login EXCEPT ![t] = IF Blocked(key) THEN NoLogin ELSE key]
  BY DEF Attempt
<1> HIDE DEF key
<1>4. login' \in [Logins -> Keys \cup {NoLogin}]
  BY <1>2, <1>3 DEF ThrottleInv
<1>5. ASSUME NEW k \in Keys PROVE FairNow(k)'
  <2> DEFINE x == windows[k].failures
             s == windows[k].started
             p == Cardinality(InFlight(k)')
  <2>1. /\ fails[k] \in Seq(Nat) /\ FairNow(k) /\ x \in Nat /\ s \in Nat
        /\ Cardinality(InFlight(k)) \in Nat /\ Cardinality(InFlight(k)) <= Cardinality(Logins)
        /\ x + Cardinality(InFlight(k)) <= tried
        /\ LastsAt(x, s, time) => x + Cardinality(InFlight(k)) <= PerWindow
    BY KeyFacts
  <2>2. p \in Nat /\ x + p <= tried + 1 /\ (LastsAt(x, s, time) => x + p <= PerWindow)
    <3>1. CASE k = key /\ ~Blocked(key)
      <4>1. InFlight(k)' = InFlight(k) \cup {t} /\ t \notin InFlight(k)
        <5>1. login'[t] = k /\ \A u \in Logins \ {t} : login'[u] = login[u]
          BY <1>3, <3>1 DEF ThrottleInv
        <5>2. login[t] # k
          BY <1>1, ThrottleAssumption
        <5> QED BY <5>1, <5>2 DEF InFlight
      <4>2. p = Cardinality(InFlight(k)) + 1
        BY <4>1, InFlightFacts, FS_AddElement
      <4>3. p <= Cardinality(Logins)
        <5>1. InFlight(k)' \subseteq Logins
          BY DEF InFlight
        <5> QED BY <5>1, FS_Subset, ThrottleAssumption
      <4>4. LastsAt(x, s, time) => x < MaxFailures
        BY <2>1, <3>1, PerWindowFacts DEF Blocked, InWindow, LastsAt
      <4> HIDE DEF x, s, p
      <4> QED BY <1>1, <2>1, <4>2, <4>3, <4>4, PerWindowFacts
    <3>2. CASE ~(k = key /\ ~Blocked(key))
      <4>1. login'[t] # k /\ login[t] # k /\ \A u \in Logins \ {t} : login'[u] = login[u]
        BY <1>1, <1>3, <3>2, ThrottleAssumption DEF ThrottleInv
      <4>2. InFlight(k)' = InFlight(k)
        BY <4>1 DEF InFlight
      <4>3. p = Cardinality(InFlight(k))
        BY <4>2
      <4> HIDE DEF x, s, p
      <4> QED BY <1>1, <2>1, <4>3
    <3> QED BY <3>1, <3>2
  <2>3. KeyIsFair(x, s, fails[k], p, time, tried + 1)
    <3>1. KeyIsFair(x, s, fails[k], Cardinality(InFlight(k)), time, tried)
      BY <2>1 DEF FairNow
    <3>2. tried + 1 \in Nat /\ time <= time
      BY <1>1
    <3> HIDE DEF x, s, p
    <3> QED BY <1>1, <2>1, <2>2, <3>1, <3>2, LaterIsFair
  <2> QED BY <1>1, <2>3 DEF FairNow
<1> QED BY <1>1, <1>4, <1>5 DEF ThrottleInv

LEMMA FailureKeeps ==
  ASSUME ThrottleInv, NEW t \in Logins, RecordFailure(t)
  PROVE  ThrottleInv'
<1>0. PICK key \in Keys : key = login[t]
  BY DEF ThrottleInv, RecordFailure
<1>1. /\ key # NoLogin
      /\ windows' = [j \in Keys |-> IF j = key THEN Counted(windows[j])
                                    ELSE IF InWindow(windows[j]) THEN windows[j] ELSE NoWindow]
      /\ fails' = [fails EXCEPT ![key] = Append(@, time)]
      /\ login' = [login EXCEPT ![t] = NoLogin]
      /\ UNCHANGED <<time, tried>> /\ time \in Nat /\ tried \in Nat
  BY <1>0, ThrottleAssumption DEF RecordFailure, ThrottleInv
<1>2. /\ login' \in [Logins -> Keys \cup {NoLogin}]
      /\ Cardinality(InFlight(key)) > 0
      /\ Cardinality(InFlight(key)') = Cardinality(InFlight(key)) - 1
      /\ \A k \in Keys \ {key} : InFlight(k)' = InFlight(k)
  BY <1>0, <1>1, Answered
<1>3. ASSUME NEW k \in Keys
      PROVE  windows'[k] \in Window /\ fails'[k] \in Seq(Nat) /\ FairNow(k)'
  <2> DEFINE x == windows[k].failures
             s == windows[k].started
             m == Cardinality(InFlight(k))
  <2>1. /\ windows[k] \in Window /\ fails[k] \in Seq(Nat) /\ FairNow(k) /\ x \in Nat /\ s \in Nat
        /\ m \in Nat /\ m <= Cardinality(Logins)
    BY KeyFacts
  <2>2. KeyIsFair(x, s, fails[k], m, time, tried)
    BY <2>1 DEF FairNow
  <2>3. InWindow(windows[k]) <=> LastsAt(x, s, time)
    BY DEF InWindow, LastsAt
  <2>4. CASE k = key
    <3>1. /\ windows'[k] = Counted(windows[k]) /\ fails'[k] = Append(fails[k], time)
          /\ Cardinality(InFlight(k)') = m - 1 /\ m > 0
      BY <1>1, <1>2, <2>4 DEF ThrottleInv
    <3>2. /\ LastsAt(x, s, time) => windows'[k] = [failures |-> x + 1, started |-> s]
          /\ ~LastsAt(x, s, time) => windows'[k] = [failures |-> 1, started |-> time]
      <4>1. LastsAt(x, s, time) => Counted(windows[k]) = [windows[k] EXCEPT !.failures = @ + 1]
        BY <2>3 DEF Counted
      <4>2. [windows[k] EXCEPT !.failures = @ + 1] = [failures |-> x + 1, started |-> s]
        BY <2>1 DEF Window
      <4> QED BY <2>3, <3>1, <4>1, <4>2 DEF Counted
    <3> HIDE DEF x, s, m
    <3>3. CASE LastsAt(x, s, time)
      <4>1. KeyIsFair(x + 1, s, Append(fails[k], time), m - 1, time, tried)
        BY <1>1, <2>1, <2>2, <3>1, <3>3, CountIsFair
      <4>2. windows'[k].failures = x + 1 /\ windows'[k].started = s /\ windows'[k] \in Window
        BY <2>1, <3>2, <3>3 DEF Window
      <4> QED BY <1>1, <2>1, <3>1, <4>1, <4>2 DEF FairNow
    <3>4. CASE ~LastsAt(x, s, time)
      <4>1. KeyIsFair(1, time, Append(fails[k], time), m - 1, time, tried)
        BY <1>1, <2>1, <2>2, <3>1, <3>4, BeginIsFair
      <4>2. windows'[k].failures = 1 /\ windows'[k].started = time /\ windows'[k] \in Window
        BY <1>1, <3>2, <3>4 DEF Window
      <4> QED BY <1>1, <2>1, <3>1, <4>1, <4>2 DEF FairNow
    <3> QED BY <3>3, <3>4
  <2>5. CASE k # key
    <3>1. /\ windows'[k] = IF InWindow(windows[k]) THEN windows[k] ELSE NoWindow
          /\ fails'[k] = fails[k] /\ Cardinality(InFlight(k)') = m
      BY <1>1, <1>2, <2>5 DEF ThrottleInv
    <3>2. CASE LastsAt(x, s, time)
      BY <1>1, <2>1, <2>2, <2>3, <3>1, <3>2 DEF FairNow
    <3>3. CASE ~LastsAt(x, s, time)
      <4>1. windows'[k].failures = 0 /\ windows'[k].started = 0 /\ windows'[k] \in Window
        BY <2>3, <3>1, <3>3 DEF NoWindow, Window
      <4> HIDE DEF x, s, m
      <4>2. KeyIsFair(0, 0, fails[k], m, time, tried)
        BY <1>1, <2>1, <2>2, <3>3, DropIsFair
      <4> QED BY <1>1, <2>1, <3>1, <4>1, <4>2 DEF FairNow
    <3> QED BY <3>2, <3>3
  <2> QED BY <2>4, <2>5
<1>4. windows' \in [Keys -> Window] /\ fails' \in [Keys -> Seq(Nat)]
  BY <1>1, <1>3 DEF ThrottleInv
<1> QED BY <1>1, <1>2, <1>3, <1>4 DEF ThrottleInv

LEMMA GrantKeeps ==
  ASSUME ThrottleInv, NEW t \in Logins, Grant(t)
  PROVE  ThrottleInv'
<1>0. PICK key \in Keys : key = login[t]
  BY DEF ThrottleInv, Grant
<1>1. /\ key # NoLogin
      /\ windows' = [windows EXCEPT ![key] = NoWindow]
      /\ fails' = [fails EXCEPT ![key] = <<>>]
      /\ login' = [login EXCEPT ![t] = NoLogin]
      /\ UNCHANGED <<time, tried>> /\ time \in Nat /\ tried \in Nat
  BY <1>0, ThrottleAssumption DEF Grant, ThrottleInv
<1>2. /\ login' \in [Logins -> Keys \cup {NoLogin}]
      /\ Cardinality(InFlight(key)) > 0
      /\ Cardinality(InFlight(key)') = Cardinality(InFlight(key)) - 1
      /\ \A k \in Keys \ {key} : InFlight(k)' = InFlight(k)
  BY <1>0, <1>1, Answered
<1>3. NoWindow \in Window /\ <<>> \in Seq(Nat) /\ NoWindow.failures = 0 /\ NoWindow.started = 0
  BY DEF NoWindow, Window
<1>4. windows' \in [Keys -> Window] /\ fails' \in [Keys -> Seq(Nat)]
  BY <1>1, <1>3 DEF ThrottleInv
<1>5. ASSUME NEW k \in Keys PROVE FairNow(k)'
  <2>1. CASE k = key
    <3>1. windows'[k] = NoWindow /\ fails'[k] = <<>>
      BY <1>1, <2>1 DEF ThrottleInv
    <3> DEFINE m == Cardinality(InFlight(k))
               x == windows[k].failures
    <3>2. m \in Nat /\ x \in Nat /\ x + m <= tried /\ m > 0 /\ Cardinality(InFlight(k)') = m - 1
      BY <1>2, <2>1, KeyFacts
    <3> HIDE DEF m, x
    <3>3. m - 1 \in Nat /\ m - 1 <= tried
      BY <1>1, <3>2
    <3>4. KeyIsFair(0, 0, <<>>, m - 1, time, tried)
      BY <1>1, <3>3, FreshIsFair
    <3> QED BY <1>1, <1>3, <3>1, <3>2, <3>4 DEF FairNow
  <2>2. CASE k # key
    <3>1. windows'[k] = windows[k] /\ fails'[k] = fails[k] /\ InFlight(k)' = InFlight(k)
      BY <1>1, <1>2, <2>2 DEF ThrottleInv
    <3> QED BY <1>1, <3>1 DEF ThrottleInv, FairNow
  <2> QED BY <2>1, <2>2
<1> QED BY <1>1, <1>2, <1>4, <1>5 DEF ThrottleInv

LEMMA UnansweredKeeps ==
  ASSUME ThrottleInv, NEW t \in Logins, Unanswered(t)
  PROVE  ThrottleInv'
<1>0. PICK key \in Keys : key = login[t]
  BY DEF ThrottleInv, Unanswered
<1>1. /\ key # NoLogin /\ login' = [login EXCEPT ![t] = NoLogin]
      /\ UNCHANGED <<windows, time, tried, fails>> /\ time \in Nat /\ tried \in Nat
  BY <1>0, ThrottleAssumption DEF Unanswered, ThrottleInv
<1>2. /\ login' \in [Logins -> Keys \cup {NoLogin}]
      /\ Cardinality(InFlight(key)) > 0
      /\ Cardinality(InFlight(key)') = Cardinality(InFlight(key)) - 1
      /\ \A k \in Keys \ {key} : InFlight(k)' = InFlight(k)
  BY <1>0, <1>1, Answered
<1>3. ASSUME NEW k \in Keys PROVE FairNow(k)'
  <2> DEFINE x == windows[k].failures
             s == windows[k].started
             m == Cardinality(InFlight(k))
             p == Cardinality(InFlight(k)')
  <2>1. /\ fails[k] \in Seq(Nat) /\ FairNow(k) /\ x \in Nat /\ s \in Nat /\ m \in Nat
        /\ x + m <= tried /\ (LastsAt(x, s, time) => x + m <= PerWindow)
    BY KeyFacts
  <2>2. KeyIsFair(x, s, fails[k], m, time, tried)
    BY <2>1 DEF FairNow
  <2>3. p = m \/ (p = m - 1 /\ m > 0)
    <3>1. CASE k = key
      BY <1>2, <3>1
    <3>2. CASE k # key
      BY <1>2, <3>2
    <3> QED BY <3>1, <3>2
  <2> HIDE DEF x, s, m, p
  <2>4. p \in Nat /\ x + p <= tried /\ (LastsAt(x, s, time) => x + p <= PerWindow)
    BY <1>1, <2>1, <2>3, PerWindowFacts
  <2>5. KeyIsFair(x, s, fails[k], p, time, tried)
    <3>1. time <= time
      BY <1>1
    <3> QED BY <1>1, <2>1, <2>2, <2>4, <3>1, LaterIsFair
  <2> QED BY <1>1, <2>5 DEF FairNow, x, s, p
<1> QED BY <1>1, <1>2, <1>3 DEF ThrottleInv

LEMMA PassTimeKeeps ==
  ASSUME ThrottleInv, PassTime
  PROVE  ThrottleInv'
<1>1. /\ time' = time + 1 /\ time' \in 0..LoginTime /\ time \in Nat /\ tried \in Nat
      /\ UNCHANGED <<windows, login, tried, fails>>
  BY ThrottleAssumption DEF PassTime, ThrottleInv
<1>2. ASSUME NEW k \in Keys PROVE FairNow(k)'
  <2> DEFINE x == windows[k].failures
             s == windows[k].started
             m == Cardinality(InFlight(k))
  <2>1. /\ fails[k] \in Seq(Nat) /\ FairNow(k) /\ x \in Nat /\ s \in Nat /\ m \in Nat
        /\ x + m <= tried /\ (LastsAt(x, s, time) => x + m <= PerWindow)
    BY KeyFacts
  <2>2. KeyIsFair(x, s, fails[k], m, time, tried)
    BY <2>1 DEF FairNow
  <2> HIDE DEF x, s, m
  <2>3. LastsAt(x, s, time + 1) => LastsAt(x, s, time)
    BY <1>1, <2>1, PerWindowFacts DEF LastsAt
  <2>4. KeyIsFair(x, s, fails[k], m, time + 1, tried)
    <3>1. time + 1 \in Nat /\ time <= time + 1
      BY <1>1
    <3> QED BY <1>1, <2>1, <2>2, <2>3, <3>1, LaterIsFair
  <2>5. Cardinality(InFlight(k)') = m
    BY <1>1 DEF InFlight, m
  <2> QED BY <1>1, <2>4, <2>5 DEF FairNow, x, s
<1> QED BY <1>1, <1>2 DEF ThrottleInv

LEMMA ThrottleInvIsKept == ThrottleInv /\ [ThrottleNext]_throttleVars => ThrottleInv'
<1> SUFFICES ASSUME ThrottleInv, [ThrottleNext]_throttleVars PROVE ThrottleInv'
  OBVIOUS
<1>1. CASE ThrottleNext
  BY <1>1, AttemptKeeps, FailureKeeps, GrantKeeps, UnansweredKeeps, PassTimeKeeps DEF ThrottleNext
<1>2. CASE UNCHANGED throttleVars
  BY <1>2 DEF throttleVars, ThrottleInv, FairNow, InFlight
<1> QED BY <1>1, <1>2

LEMMA ThrottleInvIsFair == ThrottleInv => ThrottleTypeOK /\ ThrottleIsFair
<1> SUFFICES ASSUME ThrottleInv PROVE ThrottleTypeOK /\ ThrottleIsFair
  OBVIOUS
<1>0. time \in 0..LoginTime /\ tried \in 0..MaxLogins /\ LoginTime \in Nat /\ MaxLogins \in Nat
  BY ThrottleAssumption DEF ThrottleInv
<1>1. ASSUME NEW k \in Keys
      PROVE  /\ windows[k].failures \in 0..MaxLogins /\ windows[k].started \in 0..LoginTime
             /\ Blocked(k) => Recently(k, MaxFailures)
             /\ windows[k].failures <= PerWindow /\ ~Recently(k, 2 * PerWindow + 1)
  <2> DEFINE x == windows[k].failures
             s == windows[k].started
             f == fails[k]
             m == Cardinality(InFlight(k))
             n == Len(f)
  <2>1. /\ KeyIsFair(x, s, f, m, time, tried) /\ f \in Seq(Nat)
        /\ x \in Nat /\ s \in Nat /\ n \in Nat /\ m \in Nat
    BY KeyFacts DEF FairNow
  <2>3. /\ CountsFit(x, s, n, m, time, tried)
        /\ x > 0 => f[n - x + 1] = s
    BY <2>1 DEF KeyIsFair
  <2>4. /\ \A i \in 1..n : f[i] \in Nat /\ f[i] <= time
        /\ \A i, j \in 1..n : i <= j => f[i] <= f[j]
    BY <2>1 DEF KeyIsFair, InOrder
  <2> HIDE DEF x, s, f, m, n
  <2>5. x \in 0..MaxLogins /\ s \in 0..LoginTime /\ x <= PerWindow
    BY <1>0, <2>1, <2>3 DEF CountsFit
  <2>6. ASSUME Blocked(k) PROVE Recently(k, MaxFailures)
    <3>1. x > 0 /\ time - s < LoginWindow /\ x >= MaxFailures
      BY <2>6 DEF Blocked, InWindow, x, s
    <3>2. x <= n
      BY <2>3 DEF CountsFit
    <3>0. x \in Nat /\ s \in Nat /\ n \in Nat /\ MaxFailures \in Nat /\ MaxFailures >= 1 /\ time \in Nat /\ LoginWindow \in Nat
      BY <1>0, <2>1, <2>5, PerWindowFacts
    <3>3. /\ n - x + 1 \in 1..n /\ n - MaxFailures + 1 \in 1..n
          /\ n - x + 1 <= n - MaxFailures + 1 /\ MaxFailures <= n
      BY ONLY <3>0, <3>1, <3>2
    <3>4. s <= f[n - MaxFailures + 1] /\ f[n - MaxFailures + 1] \in Nat
      BY <2>3, <2>4, <3>1, <3>3
    <3>5. time - f[n - MaxFailures + 1] < LoginWindow
      <4>1. PICK y : y = f[n - MaxFailures + 1]
        OBVIOUS
      <4>2. s <= y /\ y \in Nat
        BY <3>4, <4>1
      <4>3. time - y < LoginWindow
        BY ONLY <3>0, <3>1, <4>2
      <4> QED BY <4>1, <4>3
    <3> QED BY <3>3, <3>5 DEF Recently, f, n
  <2>7. ~Recently(k, 2 * PerWindow + 1)
    <3> DEFINE j == n - (2 * PerWindow + 1) + 1
    <3> SUFFICES ASSUME 2 * PerWindow + 1 <= n PROVE ~(time - f[j] < LoginWindow)
      BY DEF Recently, f, n
    <3>1. PICK a \in Nat, b \in Nat : SplitAt(x, f, time, a, b)
      BY <2>1 DEF KeyIsFair
    <3>2. a \in Nat /\ b \in Nat /\ SplitCounts(x, n, a, b)
      BY <3>1 DEF SplitAt, n
    <3>3. n > 0 /\ b + 1 \in 1..n /\ j \in 1..a /\ j \in 1..n
      <4>0. a \in Nat /\ b \in Nat /\ n \in Nat /\ PerWindow \in Nat
        BY <2>1, <3>2, PerWindowFacts
      <4>1. n > 0 /\ a <= b /\ b < n /\ n - b <= PerWindow /\ b - a <= PerWindow
        <5>1. SplitCounts(x, n, a, b) /\ x \in Nat /\ 2 * PerWindow + 1 <= n /\ x <= PerWindow
          BY <2>1, <2>5, <3>2
        <5> QED BY ONLY <4>0, <5>1 DEF SplitCounts
      <4>2. n <= a + 2 * PerWindow
        BY ONLY <4>0, <4>1
      <4>3. j \in 1..a
        <5> DEFINE q == 2 * PerWindow
        <5>1. q \in Nat /\ q + 1 <= n /\ n <= a + q
          BY <4>2, PerWindowFacts
        <5> HIDE DEF q
        <5>2. n - (q + 1) + 1 \in 1..a
          BY <2>1, <3>2, <5>1
        <5> QED BY <5>2 DEF q
      <4>4. a <= n /\ b + 1 \in 1..n
        BY <2>1, <3>2, <4>1
      <4> HIDE DEF j
      <4> QED BY <2>1, <3>2, <4>1, <4>3, <4>4
    <3> HIDE DEF j
    <3>4. f[j] + LoginWindow <= f[b + 1]
      BY <3>1, <3>3 DEF SplitAt, n
    <3>5. f[b + 1] <= time /\ f[b + 1] \in Nat /\ f[j] \in Nat
      BY <2>4, <3>3
    <3> QED BY <1>0, <3>4, <3>5, PerWindowFacts
  <2> QED BY <2>5, <2>6, <2>7 DEF x, s
<1> QED BY <1>0, <1>1 DEF ThrottleInv, ThrottleTypeOK, ThrottleIsFair, BlocksAreEarned, FailuresAreBounded

(* check, record_failure and record_success, whatever attempts overlap between the two     *)
(* critical sections: who is blocked has failed often enough of late, and no stretch of    *)
(* time as long as a window has more failures than two windows take.               *)
THEOREM BlocksAreFair == ThrottleSpec => []ThrottleIsFair
<1> QED BY InitThrottleInv, ThrottleInvIsKept, ThrottleInvIsFair, PTL DEF ThrottleSpec

-----------------------------------------------------------------------------
(* The administration of an identity provider *)

Value == [by : Nat, as : Words]
RowShape ==
  [type : Types \cup {"none"}, scim : Switches.scim, status : Switches.status,
   values : [Fields -> Value]]
OrderShape ==
  [kind : {"none", "create", "patch", "scim", "test"},
   step : {"idle", "insert", "lock", "write", "rotate", "commit", "find", "touch", "read", "probe"},
   number : Nat, asks : Patches \cup {<<>>}, type : Types \cup {""}, row : RowShape,
   token : Nat, revoked : SUBSET Nat, made : Nat]

Holding(a) == a.kind = "patch" /\ a.step \in {"write", "rotate", "commit"}
Creating(a) == a.kind = "create" /\ a.step = "commit"

(* What an open request has prepared is still true of the committed row and tokens.    *)
Prepared(a) ==
  /\ Holding(a) =>
       /\ provider.type # "none" /\ a.asks \in Patches
       /\ a.row = Merged(provider, a) /\ Complete(a.row)
  /\ Creating(a) =>
       /\ provider.type = "none" /\ a.row.type \in Types /\ a.asks \in Patches
       /\ a.row.values = Entered(a, NoValues)
       /\ Complete(a.row)
  /\ IF a.made = 0 THEN a.revoked = {}
     ELSE a.kind = "patch" /\ a.step = "commit" /\ a.revoked = live
Numbered(a) ==
  /\ a.kind # "none" => a.number > 0
  /\ a.kind = "patch" => a.asks \in Patches
  /\ a.kind = "create" => a.type \in Types /\ a.asks \in Patches
  /\ a.step \in {"write", "rotate"} => a.kind = "patch"
  /\ a.step = "probe" => a.row.type \in Types /\ Complete(a.row)

Apart ==
  /\ \A t, u \in Admins : Holding(admin[t]) /\ Holding(admin[u]) => t = u
  /\ \A t, u \in Admins : Creating(admin[t]) /\ Creating(admin[u]) => t = u

AdminInv ==
  /\ provider \in RowShape /\ (provider.type = "none" => provider.values = NoValues)
  /\ admin \in [Admins -> OrderShape]
  /\ ordered \in Nat /\ held \in Nat /\ live \subseteq Nat
  /\ \A t \in Admins : Numbered(admin[t])
  /\ \A t \in Admins : Prepared(admin[t])
  /\ Apart
  /\ FieldsAreLast /\ OneLiveToken

LEMMA ProviderFacts ==
  /\ NoValues \in [Fields -> Value] /\ "none" \notin Types /\ "" \notin Types
  /\ NoProvider \in RowShape /\ NoProvider.type = "none" /\ NoProvider.values = NoValues
  /\ NoOrder \in OrderShape
  /\ NoOrder.kind = "none" /\ NoOrder.step = "idle" /\ NoOrder.made = 0 /\ NoOrder.revoked = {}
<1>1. NoValues \in [Fields -> Value] /\ "none" \notin Types /\ "" \notin Types
  BY AdminAssumption DEF NoValues, Null, Value, Words
<1>2. NoProvider \in RowShape /\ NoProvider.type = "none" /\ NoProvider.values = NoValues
  BY <1>1 DEF NoProvider, RowShape, Switches
<1>3. /\ NoOrder \in OrderShape
      /\ NoOrder.kind = "none" /\ NoOrder.step = "idle" /\ NoOrder.made = 0 /\ NoOrder.revoked = {}
  BY <1>2 DEF NoOrder, OrderShape
<1> QED BY <1>1, <1>2, <1>3

LEMMA WrittenFacts ==
  ASSUME NEW old \in [Fields -> Value], NEW a, a.asks \in Patches, a.number \in Nat
  PROVE  Entered(a, old) \in [Fields -> Value]
<1>1. ASSUME NEW f \in Fields, Given(a.asks, f) PROVE Stored(a, f) \in Value
  <2>1. a.asks[f] \in Words
    BY <1>1, AdminAssumption DEF Given
  <2> QED BY <2>1 DEF Stored, Null, Value, Words
<1> QED BY <1>1 DEF Entered

LEMMA SameWritten ==
  ASSUME NEW a, NEW b, a.asks = b.asks, a.number = b.number, a.kind = b.kind
  PROVE  \A old : Entered(a, old) = Entered(b, old) /\ Merged(old, a) = Merged(old, b)
<1>1. \A f : Stored(a, f) = Stored(b, f)
  BY DEF Stored
<1>2. \A old : Entered(a, old) = Entered(b, old)
  BY <1>1 DEF Entered
<1> QED BY <1>2 DEF Merged

LEMMA MergedFacts ==
  ASSUME NEW old \in RowShape, NEW a, a.asks \in Patches, a.number \in Nat
  PROVE  /\ Merged(old, a) \in RowShape
         /\ Merged(old, a).type = old.type
         /\ Merged(old, a).values = Entered(a, old.values)
<1> DEFINE values == Entered(a, old.values)
           scim == Turned(a.asks, "scim", old.scim)
           status == Turned(a.asks, "status", old.status)
<1>1. values \in [Fields -> Value]
  BY WrittenFacts DEF RowShape
<1>2. scim \in Switches.scim /\ status \in Switches.status
  BY AdminAssumption DEF RowShape, Given, Turned, Switches
<1>3. Merged(old, a) = [[[old EXCEPT !.values = values] EXCEPT !.scim = scim] EXCEPT !.status = status]
  BY DEF Merged, RowShape
<1> HIDE DEF values, scim, status
<1>4. ASSUME NEW new, new = [[[old EXCEPT !.values = values] EXCEPT !.scim = scim] EXCEPT !.status = status]
      PROVE  new \in RowShape /\ new.type = old.type /\ new.values = values
  BY <1>1, <1>2, <1>4 DEF RowShape
<1> QED BY <1>3, <1>4 DEF values

LEMMA InitAdminInv == AdminInit => AdminInv
<1> SUFFICES ASSUME AdminInit PROVE AdminInv
  OBVIOUS
<1>1. /\ admin = [t \in Admins |-> NoOrder] /\ ordered = 1 /\ slipped = FALSE
      /\ named = provider.values
  BY DEF AdminInit
<1>2. /\ provider \in RowShape /\ (provider.type = "none" => provider.values = NoValues)
      /\ Complete(provider)
      /\ held \in Nat /\ live = (IF held = 0 THEN {} ELSE {held})
  <2>1. CASE provider = NoProvider /\ live = {} /\ held = 0
    BY <2>1, ProviderFacts DEF Complete, Required
  <2>2. CASE \E type \in Types :
               /\ provider = [type |-> type, scim |-> "on", status |-> "ACTIVE",
                              values |-> [f \in Fields |-> IF f \in Required(type) THEN [by |-> 1, as |-> "text"] ELSE Null]]
               /\ live = {1} /\ held = 1
    <3>1. PICK type \in Types :
            provider = [type |-> type, scim |-> "on", status |-> "ACTIVE",
                        values |-> [f \in Fields |-> IF f \in Required(type) THEN [by |-> 1, as |-> "text"] ELSE Null]]
      BY <2>2
    <3> DEFINE values == [f \in Fields |-> IF f \in Required(type) THEN [by |-> 1, as |-> "text"] ELSE Null]
    <3>2. Required(type) \subseteq Fields
      BY DEF Required, Fields
    <3>3. values \in [Fields -> Value] /\ \A f \in Required(type) : values[f].as = "text"
      BY <3>2 DEF Null, Value, Words
    <3> HIDE DEF values
    <3>4. provider = [type |-> type, scim |-> "on", status |-> "ACTIVE", values |-> values]
      BY <3>1 DEF values
    <3>5. provider \in RowShape /\ provider.type = type /\ provider.values = values
      BY <3>3, <3>4 DEF RowShape, Switches
    <3>6. Complete(provider)
      BY <3>3, <3>5 DEF Complete
    <3>7. held \in Nat /\ live = (IF held = 0 THEN {} ELSE {held})
      BY <2>2
    <3>8. provider.type # "none"
      BY <3>5, ProviderFacts
    <3> QED BY <3>5, <3>6, <3>7, <3>8
  <2> QED BY <2>1, <2>2 DEF AdminInit
<1>3. ASSUME NEW t \in Admins
      PROVE  /\ Numbered(admin[t]) /\ Prepared(admin[t])
             /\ ~Holding(admin[t]) /\ ~Creating(admin[t])
  <2>1. admin[t] = NoOrder
    BY <1>1
  <2> QED BY <2>1, ProviderFacts DEF Numbered, Prepared, Holding, Creating
<1>4. admin \in [Admins -> OrderShape] /\ live \subseteq Nat
  BY <1>1, <1>2, ProviderFacts
<1> QED BY <1>1, <1>2, <1>3, <1>4 DEF AdminInv, Apart, FieldsAreLast, OneLiveToken

(* A request goes on, and neither the row nor the tokens change.                       *)
LEMMA ProceedKeeps ==
  ASSUME AdminInv, NEW t \in Admins, NEW new \in OrderShape,
         admin' = [admin EXCEPT ![t] = new],
         UNCHANGED <<provider, live, named, held, slipped>>, ordered' \in Nat,
         Numbered(new), Prepared(new),
         Holding(new) => \A u \in Admins \ {t} : ~Holding(admin[u]),
         Creating(new) => \A u \in Admins \ {t} : ~Creating(admin[u])
  PROVE  AdminInv'
<1>1. /\ admin' \in [Admins -> OrderShape] /\ admin'[t] = new
      /\ \A u \in Admins \ {t} : admin'[u] = admin[u]
  BY DEF AdminInv
<1>2. /\ \A u \in Admins : Numbered(admin[u]) /\ Prepared(admin[u])
      /\ \A u, w \in Admins : Holding(admin[u]) /\ Holding(admin[w]) => u = w
      /\ \A u, w \in Admins : Creating(admin[u]) /\ Creating(admin[w]) => u = w
  BY DEF AdminInv, Apart
<1>3. ASSUME NEW u \in Admins PROVE Numbered(admin'[u]) /\ Prepared(admin'[u])
  <2>1. CASE u = t
    BY <1>1, <2>1
  <2>2. CASE u # t
    BY <1>1, <1>2, <2>2
  <2> QED BY <2>1, <2>2
<1>4. \A u \in Admins : Numbered(admin[u])' /\ Prepared(admin[u])'
  BY <1>3 DEF Numbered, Prepared
<1>5. Apart'
  <2>1. ASSUME NEW u \in Admins, NEW w \in Admins, Holding(admin'[u]), Holding(admin'[w]) PROVE u = w
    BY <1>1, <1>2, <2>1
  <2>2. ASSUME NEW u \in Admins, NEW w \in Admins, Creating(admin'[u]), Creating(admin'[w]) PROVE u = w
    BY <1>1, <1>2, <2>2
  <2> QED BY <2>1, <2>2 DEF Apart, Holding, Creating
<1>6. FieldsAreLast' /\ OneLiveToken'
  BY DEF AdminInv, FieldsAreLast, OneLiveToken
<1> QED BY <1>1, <1>4, <1>5, <1>6 DEF AdminInv

LEMMA DropKeeps ==
  ASSUME AdminInv, NEW t \in Admins, admin' = [admin EXCEPT ![t] = NoOrder],
         UNCHANGED <<provider, live, named, held, slipped>>, ordered' \in Nat
  PROVE  AdminInv'
<1>1. /\ Numbered(NoOrder) /\ Prepared(NoOrder)
      /\ ~Holding(NoOrder) /\ ~Creating(NoOrder)
  BY ProviderFacts DEF Numbered, Prepared, Holding, Creating
<1> QED BY <1>1, ProviderFacts, ProceedKeeps

(* A new request has prepared nothing.                                            *)
LEMMA OrderKeeps ==
  ASSUME AdminInv, NEW t \in Admins, NEW new \in OrderShape, Order(t, new),
         new.step \in {"insert", "lock", "find", "read"}, new.made = 0, new.revoked = {},
         new.kind \in {"create", "patch"} => new.asks \in Patches,
         new.kind = "create" => new.type \in Types
  PROVE  AdminInv'
<1> DEFINE n == ordered + 1
           all == [new EXCEPT !.number = n]
<1>1. /\ admin' = [admin EXCEPT ![t] = all] /\ ordered' = n
      /\ UNCHANGED <<provider, live, named, held, slipped>>
  BY DEF Order
<1>2. n \in Nat /\ n > 0
  BY DEF AdminInv
<1> HIDE DEF n
<1>3. /\ all \in OrderShape /\ all.number = n /\ all.kind = new.kind /\ all.step = new.step
      /\ all.made = new.made /\ all.revoked = new.revoked /\ all.asks = new.asks
      /\ all.type = new.type
  BY <1>2 DEF OrderShape
<1> HIDE DEF all
<1>4. Numbered(all) /\ Prepared(all) /\ ~Holding(all) /\ ~Creating(all)
  BY <1>2, <1>3 DEF Numbered, Prepared, Holding, Creating
<1> QED BY <1>1, <1>2, <1>3, <1>4, ProceedKeeps

LEMMA AskKeeps ==
  ASSUME AdminInv, NEW t \in Admins,
         \/ \E type \in Types, asks \in {p \in Patches : DOMAIN p \subseteq Fields} :
              CreateProvider(t, type, asks)
         \/ \E asks \in Patches : PatchProvider(t, asks)
         \/ \E token \in 1..ordered : Present(t, token)
         \/ TestProvider(t)
  PROVE  AdminInv'
<1>1. ASSUME NEW type \in Types, NEW asks \in Patches, CreateProvider(t, type, asks) PROVE AdminInv'
  <2> DEFINE new == [NoOrder EXCEPT !.kind = "create", !.step = "insert", !.type = type, !.asks = asks]
  <2>1. /\ new \in OrderShape /\ new.step = "insert" /\ new.made = 0 /\ new.revoked = {}
        /\ new.asks = asks /\ new.type = type
    BY ProviderFacts DEF NoOrder, OrderShape
  <2> HIDE DEF new
  <2> QED BY <1>1, <2>1, OrderKeeps DEF CreateProvider, new
<1>2. ASSUME NEW asks \in Patches, PatchProvider(t, asks) PROVE AdminInv'
  <2> DEFINE new == [NoOrder EXCEPT !.kind = "patch", !.step = "lock", !.asks = asks]
  <2>1. /\ new \in OrderShape /\ new.step = "lock" /\ new.made = 0 /\ new.revoked = {}
        /\ new.asks = asks /\ new.kind = "patch"
    BY ProviderFacts DEF NoOrder, OrderShape
  <2> HIDE DEF new
  <2> QED BY <1>2, <2>1, OrderKeeps DEF PatchProvider, new
<1>3. ASSUME NEW token \in 1..ordered, Present(t, token) PROVE AdminInv'
  <2> DEFINE new == [NoOrder EXCEPT !.kind = "scim", !.step = "find", !.token = token]
  <2>0. token \in Nat
    BY DEF AdminInv
  <2>1. /\ new \in OrderShape /\ new.step = "find" /\ new.made = 0 /\ new.revoked = {}
        /\ new.kind = "scim"
    BY <2>0, ProviderFacts DEF NoOrder, OrderShape
  <2> HIDE DEF new
  <2> QED BY <1>3, <2>1, OrderKeeps DEF Present, new
<1>4. ASSUME TestProvider(t) PROVE AdminInv'
  <2> DEFINE new == [NoOrder EXCEPT !.kind = "test", !.step = "read"]
  <2>1. /\ new \in OrderShape /\ new.step = "read" /\ new.made = 0 /\ new.revoked = {}
        /\ new.kind = "test"
    BY ProviderFacts DEF NoOrder, OrderShape
  <2> HIDE DEF new
  <2> QED BY <1>4, <2>1, OrderKeeps DEF TestProvider, new
<1> QED BY <1>1, <1>2, <1>3, <1>4

LEMMA InsertKeeps ==
  ASSUME AdminInv, NEW t \in Admins, InsertProvider(t)
  PROVE  AdminInv'
<1> DEFINE a == admin[t]
           base == [NoProvider EXCEPT !.type = a.type]
           row == Merged(base, a)
           new == [[a EXCEPT !.step = "commit"] EXCEPT !.row = row]
<1>1. /\ a \in OrderShape /\ a.kind = "create" /\ a.step = "insert"
      /\ \A u \in Admins \ {t} : admin[u].kind = "create" => admin[u].step # "commit"
      /\ Numbered(a) /\ Prepared(a) /\ ordered \in Nat
  BY DEF InsertProvider, AdminInv
<1>2. /\ UNCHANGED <<provider, live, ordered, named, held, slipped>>
      /\ \/ admin' = [admin EXCEPT ![t] = NoOrder]
         \/ Complete(row) /\ provider.type = "none" /\ admin' = [admin EXCEPT ![t] = new]
  BY DEF InsertProvider, Deny, Proceed
<1>3. a.type \in Types /\ a.asks \in Patches /\ a.number \in Nat /\ a.number > 0 /\ a.made = 0 /\ a.revoked = {}
  BY <1>1 DEF Numbered, Prepared, OrderShape
<1>4. base \in RowShape /\ base.type = a.type /\ base.values = NoValues
  BY <1>3, ProviderFacts DEF RowShape, NoProvider
<1> HIDE DEF base
<1>5. /\ row \in RowShape /\ row.type = a.type
      /\ row.values = Entered(a, NoValues)
  BY <1>3, <1>4, MergedFacts
<1> HIDE DEF row, a
<1>6. /\ new \in OrderShape /\ new.step = "commit" /\ new.row = row /\ new.kind = a.kind
      /\ new.asks = a.asks /\ new.number = a.number /\ new.made = a.made /\ new.revoked = a.revoked
      /\ new.type = a.type
  BY <1>1, <1>5 DEF OrderShape
<1> HIDE DEF new
<1>7. CASE admin' = [admin EXCEPT ![t] = NoOrder]
  BY <1>1, <1>2, <1>7, DropKeeps
<1>8. CASE Complete(row) /\ provider.type = "none" /\ admin' = [admin EXCEPT ![t] = new]
  <2>1. Numbered(new)
    BY <1>1, <1>3, <1>6 DEF Numbered
  <2>2. Creating(new) /\ ~Holding(new)
    BY <1>1, <1>6 DEF Creating, Holding
  <2>3. Prepared(new)
    <3>1. Entered(new, NoValues) = Entered(a, NoValues)
      BY <1>6, SameWritten
    <3> QED BY <1>3, <1>5, <1>6, <1>8, <2>2, <3>1 DEF Prepared
  <2>4. \A u \in Admins \ {t} : ~Creating(admin[u])
    BY <1>1 DEF Creating
  <2> QED BY <1>1, <1>2, <1>6, <1>8, <2>1, <2>2, <2>3, <2>4, ProceedKeeps
<1> QED BY <1>2, <1>7, <1>8

LEMMA LockKeepsIt ==
  ASSUME AdminInv, NEW t \in Admins, LockProvider(t)
  PROVE  AdminInv'
<1> DEFINE a == admin[t]
           row == Merged(provider, a)
           new == [[a EXCEPT !.step = "write"] EXCEPT !.row = row]
<1>1. /\ a \in OrderShape /\ a.kind = "patch" /\ a.step = "lock" /\ RowIsFree(t)
      /\ Numbered(a) /\ Prepared(a) /\ ordered \in Nat /\ provider \in RowShape
  BY DEF LockProvider, AdminInv
<1>2. /\ UNCHANGED <<provider, live, ordered, named, held, slipped>>
      /\ \/ admin' = [admin EXCEPT ![t] = NoOrder]
         \/ Complete(row) /\ provider.type # "none" /\ admin' = [admin EXCEPT ![t] = new]
  BY DEF LockProvider, Deny, Proceed
<1>3. a.asks \in Patches /\ a.number \in Nat /\ a.number > 0 /\ a.made = 0 /\ a.revoked = {}
  BY <1>1 DEF Numbered, Prepared, OrderShape
<1>4. row \in RowShape
  BY <1>1, <1>3, MergedFacts
<1>5. row = Merged(provider, a)
  OBVIOUS
<1> HIDE DEF row, a
<1>6. /\ new \in OrderShape /\ new.step = "write" /\ new.row = row /\ new.kind = a.kind
      /\ new.asks = a.asks /\ new.number = a.number /\ new.made = a.made /\ new.revoked = a.revoked
  BY <1>1, <1>4 DEF OrderShape
<1> HIDE DEF new
<1>7. CASE admin' = [admin EXCEPT ![t] = NoOrder]
  BY <1>1, <1>2, <1>7, DropKeeps
<1>8. CASE Complete(row) /\ provider.type # "none" /\ admin' = [admin EXCEPT ![t] = new]
  <2>1. Numbered(new)
    BY <1>1, <1>3, <1>6 DEF Numbered
  <2>2. ~Creating(new) /\ Holding(new)
    BY <1>1, <1>6 DEF Creating, Holding
  <2>3. Prepared(new)
    <3>1. Merged(provider, new) = Merged(provider, a)
      BY <1>6, SameWritten
    <3> QED BY <1>3, <1>5, <1>6, <1>8, <2>2, <3>1 DEF Prepared
  <2>4. \A u \in Admins \ {t} : ~Holding(admin[u])
    BY <1>1 DEF RowIsFree, Holding
  <2> QED BY <1>1, <1>2, <1>6, <1>8, <2>1, <2>2, <2>3, <2>4, ProceedKeeps
<1> QED BY <1>2, <1>7, <1>8

(* Under the lock: the request only changes its step, or notes the tokens it revokes.   *)
LEMMA UpdateIssueKeep ==
  ASSUME AdminInv, NEW t \in Admins, UpdateProvider(t) \/ IssueToken(t)
  PROVE  AdminInv'
<1> DEFINE a == admin[t]
<1>1. /\ a \in OrderShape /\ Numbered(a) /\ Prepared(a) /\ ordered \in Nat /\ live \subseteq Nat
      /\ a.step \in {"write", "rotate"}
  BY DEF UpdateProvider, IssueToken, AdminInv
<1>2. /\ a.kind = "patch" /\ Holding(a) /\ a.made = 0 /\ a.revoked = {}
      /\ a.number \in Nat /\ a.number > 0
  BY <1>1 DEF Numbered, Prepared, Holding, OrderShape
<1>3. \A u \in Admins \ {t} : ~Holding(admin[u])
  BY <1>2 DEF AdminInv, Apart
<1>4. ASSUME NEW new \in OrderShape, admin' = [admin EXCEPT ![t] = new],
             UNCHANGED <<provider, live, ordered, named, held, slipped>>,
             new.step \in {"rotate", "commit"}, new.kind = a.kind, new.asks = a.asks,
             new.number = a.number, new.row = a.row,
             \/ new.made = 0 /\ new.revoked = {}
             \/ new.step = "commit" /\ new.made = a.number /\ new.revoked = live
      PROVE  AdminInv'
  <2> HIDE DEF a
  <2>1. Numbered(new)
    BY <1>1, <1>2, <1>4 DEF Numbered
  <2>2. ~Creating(new) /\ Holding(new)
    BY <1>2, <1>4 DEF Creating, Holding
  <2>3. Prepared(new)
    <3>1. Merged(provider, new) = Merged(provider, a)
      BY <1>4, SameWritten
    <3> QED BY <1>1, <1>2, <1>4, <2>2, <3>1 DEF Prepared
  <2> QED BY <1>1, <1>3, <1>4, <2>1, <2>2, <2>3, ProceedKeeps
<1>5. CASE UpdateProvider(t)
  <2> DEFINE next == IF Given(a.asks, "rotate") THEN "rotate" ELSE "commit"
             new == [a EXCEPT !.step = next]
  <2>1. admin' = [admin EXCEPT ![t] = new] /\ UNCHANGED <<provider, live, ordered, named, held, slipped>>
    BY <1>5 DEF UpdateProvider, Proceed
  <2>2. next \in {"rotate", "commit"}
    OBVIOUS
  <2> HIDE DEF next
  <2>3. /\ new \in OrderShape /\ new.step = next /\ new.kind = a.kind /\ new.asks = a.asks
        /\ new.number = a.number /\ new.row = a.row /\ new.made = a.made /\ new.revoked = a.revoked
    BY <1>1, <2>2 DEF OrderShape
  <2> HIDE DEF new
  <2> QED BY <1>2, <1>4, <2>1, <2>2, <2>3
<1>6. CASE IssueToken(t)
  <2> DEFINE new == [[[a EXCEPT !.step = "commit"] EXCEPT !.revoked = live] EXCEPT !.made = a.number]
  <2>1. admin' = [admin EXCEPT ![t] = new] /\ UNCHANGED <<provider, live, ordered, named, held, slipped>>
    BY <1>6 DEF IssueToken, Proceed
  <2>2. /\ new \in OrderShape /\ new.step = "commit" /\ new.kind = a.kind /\ new.asks = a.asks
        /\ new.number = a.number /\ new.row = a.row /\ new.made = a.number /\ new.revoked = live
    BY <1>1, <1>2 DEF OrderShape
  <2> HIDE DEF new
  <2> QED BY <1>2, <1>4, <2>1, <2>2
<1> QED BY <1>5, <1>6

LEMMA CommitKeepsIt ==
  ASSUME AdminInv, NEW t \in Admins, CommitAdmin(t)
  PROVE  AdminInv'
<1> DEFINE a == admin[t]
<1>1. /\ a \in OrderShape /\ Numbered(a) /\ Prepared(a) /\ Apart
      /\ provider \in RowShape /\ (provider.type = "none" => provider.values = NoValues)
      /\ Holding(a) \/ Creating(a)
      /\ held \in Nat /\ live \subseteq Nat /\ ordered \in Nat /\ FieldsAreLast /\ OneLiveToken
  BY DEF CommitAdmin, AdminInv, Holding, Creating
<1>2. /\ provider' = a.row
      /\ live' = (live \ a.revoked) \cup (IF a.made = 0 THEN {} ELSE {a.made})
      /\ held' = IF a.made = 0 THEN held ELSE a.made
      /\ named' = Entered(a, named)
      /\ admin' = [admin EXCEPT ![t] = NoOrder]
      /\ UNCHANGED <<ordered, slipped>>
  BY DEF CommitAdmin
<1>3. /\ admin' \in [Admins -> OrderShape] /\ admin'[t] = NoOrder
      /\ \A u \in Admins \ {t} : admin'[u] = admin[u]
  BY <1>2, ProviderFacts DEF AdminInv
<1>4. /\ a.row \in RowShape /\ a.number \in Nat /\ a.made \in Nat /\ a.asks \in Patches
      /\ Complete(a.row)
      /\ IF a.made = 0 THEN a.revoked = {} ELSE a.revoked = live
  BY <1>1 DEF Prepared, OrderShape
<1>5. /\ a.row.type \in Types
      /\ a.row.values = Entered(a, provider.values)
  <2>1. CASE Holding(a)
    <3>1. a.row = Merged(provider, a) /\ provider.type # "none"
      BY <1>1, <2>1 DEF Prepared
    <3>2. provider.type \in Types
      BY <1>1, <3>1 DEF RowShape
    <3> QED BY <1>1, <1>4, <3>1, <3>2, MergedFacts
  <2>2. CASE Creating(a)
    <3>1. /\ provider.type = "none" /\ a.row.type \in Types
          /\ a.row.values = Entered(a, NoValues)
      BY <1>1, <2>2 DEF Prepared
    <3> QED BY <1>1, <3>1
  <2> QED BY <1>1, <2>1, <2>2
<1>6. ASSUME NEW u \in Admins \ {t} PROVE ~Holding(admin[u]) /\ ~Creating(admin[u]) /\ admin[u].made = 0
  <2>1. Prepared(admin[u]) /\ Prepared(a)
    BY <1>1 DEF AdminInv
  <2>2. Holding(admin[u]) => provider.type # "none"
    BY <2>1 DEF Prepared
  <2>3. Creating(admin[u]) => provider.type = "none"
    BY <2>1 DEF Prepared
  <2>4. (Holding(a) => provider.type # "none") /\ (Creating(a) => provider.type = "none")
    BY <2>1 DEF Prepared
  <2>5. ~Holding(admin[u]) /\ ~Creating(admin[u])
    BY <1>1, <2>2, <2>3, <2>4 DEF Apart
  <2>6. admin[u].made = 0
    BY <2>1, <2>5 DEF Prepared, Holding
  <2> QED BY <2>5, <2>6
<1>7. ASSUME NEW u \in Admins
      PROVE  /\ Numbered(admin'[u]) /\ ~Holding(admin'[u]) /\ ~Creating(admin'[u])
             /\ admin'[u].made = 0 /\ admin'[u].revoked = {}
  <2>1. CASE u = t
    BY <1>3, <2>1, ProviderFacts DEF Numbered, Holding, Creating
  <2>2. CASE u # t
    <3>1. Numbered(admin[u]) /\ Prepared(admin[u])
      BY DEF AdminInv
    <3>2. admin[u].revoked = {}
      BY <1>6, <2>2, <3>1 DEF Prepared
    <3> QED BY <1>3, <1>6, <2>2, <3>1, <3>2
  <2> QED BY <2>1, <2>2
<1> HIDE DEF a
<1>8. \A u \in Admins : Numbered(admin[u])' /\ Prepared(admin[u])'
  BY <1>7 DEF Numbered, Prepared, Holding, Creating
<1>9. Apart'
  BY <1>7 DEF Apart, Holding, Creating
<1>10. FieldsAreLast'
  <2>1. named' = provider'.values
    BY <1>1, <1>2, <1>5 DEF FieldsAreLast
  <2>2. Complete(provider)'
    BY <1>2, <1>4 DEF Complete
  <2> QED BY <2>1, <2>2 DEF FieldsAreLast
<1>11. OneLiveToken' /\ held' \in Nat /\ live' \subseteq Nat
  <2>1. CASE a.made = 0
    BY <1>1, <1>2, <1>4, <2>1 DEF OneLiveToken
  <2>2. CASE a.made # 0
    <3>1. live' = {a.made} /\ held' = a.made /\ slipped' = slipped
      BY <1>2, <1>4, <2>2
    <3> QED BY <1>1, <1>4, <2>2, <3>1 DEF OneLiveToken
  <2> QED BY <2>1, <2>2
<1>12. provider' \in RowShape /\ (provider'.type = "none" => provider'.values = NoValues)
  BY <1>2, <1>4, <1>5, ProviderFacts
<1> QED BY <1>1, <1>2, <1>3, <1>8, <1>9, <1>10, <1>11, <1>12 DEF AdminInv

LEMMA ReadKeepsIt ==
  ASSUME AdminInv, NEW t \in Admins, ReadForTest(t) \/ FindToken(t)
  PROVE  AdminInv'
<1> DEFINE a == admin[t]
           probe == [[a EXCEPT !.step = "probe"] EXCEPT !.row = provider]
           touch == [a EXCEPT !.step = "touch"]
<1>1. /\ a \in OrderShape /\ Numbered(a) /\ Prepared(a) /\ provider \in RowShape /\ ordered \in Nat
      /\ a.kind \in {"test", "scim"} /\ Complete(provider)
  BY DEF ReadForTest, FindToken, AdminInv, FieldsAreLast
<1>2. /\ UNCHANGED <<provider, live, ordered, named, held, slipped>>
      /\ \/ admin' = [admin EXCEPT ![t] = NoOrder]
         \/ provider.type # "none" /\ admin' = [admin EXCEPT ![t] = probe]
         \/ admin' = [admin EXCEPT ![t] = touch]
  BY DEF ReadForTest, FindToken, Deny, Proceed
<1>3. a.made = 0 /\ a.revoked = {} /\ a.number > 0
  BY <1>1 DEF Numbered, Prepared
<1> HIDE DEF a
<1>4. /\ probe \in OrderShape /\ probe.step = "probe" /\ probe.row = provider /\ probe.kind = a.kind
      /\ probe.number = a.number /\ probe.made = a.made /\ probe.revoked = a.revoked
  BY <1>1 DEF OrderShape
<1>5. /\ touch \in OrderShape /\ touch.step = "touch" /\ touch.kind = a.kind
      /\ touch.number = a.number /\ touch.made = a.made /\ touch.revoked = a.revoked
  BY <1>1 DEF OrderShape
<1> HIDE DEF probe, touch
<1>6. CASE admin' = [admin EXCEPT ![t] = NoOrder]
  BY <1>1, <1>2, <1>6, DropKeeps
<1>7. CASE provider.type # "none" /\ admin' = [admin EXCEPT ![t] = probe]
  <2>1. provider.type \in Types
    BY <1>1, <1>7 DEF RowShape
  <2>2. Numbered(probe) /\ Prepared(probe) /\ ~Holding(probe) /\ ~Creating(probe)
    BY <1>1, <1>3, <1>4, <2>1 DEF Numbered, Prepared, Holding, Creating
  <2> QED BY <1>1, <1>2, <1>4, <1>7, <2>2, ProceedKeeps
<1>8. CASE admin' = [admin EXCEPT ![t] = touch]
  <2>1. Numbered(touch) /\ Prepared(touch) /\ ~Holding(touch) /\ ~Creating(touch)
    BY <1>1, <1>3, <1>5 DEF Numbered, Prepared, Holding, Creating
  <2> QED BY <1>1, <1>2, <1>5, <1>8, <2>1, ProceedKeeps
<1> QED BY <1>2, <1>6, <1>7, <1>8

LEMMA EndKeeps ==
  ASSUME AdminInv, NEW t \in Admins, LetIn(t) \/ LoseAdmin(t) \/ \E m \in Meets : Probe(t, m)
  PROVE  AdminInv'
<1>1. slipped = FALSE /\ ordered \in Nat
  BY DEF AdminInv, OneLiveToken
<1>2. admin' = [admin EXCEPT ![t] = NoOrder] /\ UNCHANGED <<provider, live, named, held>>
  BY DEF LetIn, LoseAdmin, Probe
<1>3. ordered' \in Nat
  BY <1>1 DEF LetIn, LoseAdmin, Probe
<1>4. slipped' = slipped
  <2>1. CASE LetIn(t)
    <3>1. StillLive(t) => admin[t].token = held
      BY DEF AdminInv, OneLiveToken, StillLive
    <3> QED BY <1>1, <2>1, <3>1, Zenon DEF LetIn
  <2> QED BY <2>1 DEF LoseAdmin, Probe
<1> QED BY <1>2, <1>3, <1>4, DropKeeps

LEMMA AdminInvIsKept == AdminInv /\ [AdminNext]_adminVars => AdminInv'
<1> SUFFICES ASSUME AdminInv, [AdminNext]_adminVars PROVE AdminInv'
  OBVIOUS
<1>1. CASE AdminNext
  BY <1>1, AskKeeps, InsertKeeps, LockKeepsIt, UpdateIssueKeep, CommitKeepsIt, ReadKeepsIt, EndKeeps
  DEF AdminNext
<1>2. CASE UNCHANGED adminVars
  <2>1. /\ provider' = provider /\ admin' = admin /\ ordered' = ordered /\ held' = held
        /\ live' = live /\ named' = named /\ slipped' = slipped
    BY <1>2 DEF adminVars
  <2>2. \A t \in Admins : (Holding(admin[t])' <=> Holding(admin[t])) /\ (Creating(admin[t])' <=> Creating(admin[t]))
    BY <2>1 DEF Holding, Creating
  <2>3. \A t \in Admins : Numbered(admin[t])' /\ Prepared(admin[t])'
    <3> SUFFICES ASSUME NEW t \in Admins PROVE Numbered(admin[t])' /\ Prepared(admin[t])'
      OBVIOUS
    <3>1. Numbered(admin[t]) /\ Prepared(admin[t])
      BY DEF AdminInv
    <3>2. Numbered(admin[t])'
      BY <2>1, <3>1 DEF Numbered
    <3>3. Prepared(admin[t])'
      BY <2>1, <2>2, <3>1 DEF Prepared
    <3> QED BY <3>2, <3>3
  <2>4. Apart'
    BY <2>2 DEF AdminInv, Apart
  <2>5. FieldsAreLast' /\ OneLiveToken'
    BY <2>1 DEF AdminInv, FieldsAreLast, OneLiveToken
  <2> QED BY <2>1, <2>3, <2>4, <2>5 DEF AdminInv
<1> QED BY <1>1, <1>2

(* What a test of the connection says of a complete row, whatever it meets.            *)
LEMMA TestIsHonest ==
  ASSUME NEW row \in RowShape, row.type \in Types, Complete(row), NEW m \in Meets
  PROVE  /\ Verdict(Checks(row, m)) = "PASSED" =>
              /\ row.type # "LOCAL"
              /\ row.type = "OIDC" => m.target = "fine" /\ row.values["issuer"].as = "text"
              /\ row.type = "LDAP" => m.target \notin {"forbidden", "dead"}
              /\ ~(UsesSecret(row, m) /\ m.secret = "bad")
         /\ UsesSecret(row, m) /\ m.secret = "bad" => Bad("secret") \in Checks(row, m)
         /\ Verdict(Checks(row, m)) = "NOT_TESTABLE" => row.type \in {"SAML2", "LOCAL"}
         /\ Bad("configured") \in Checks(row, m) => row.values[TargetOf(row.type)].as = "blank"
<1> DEFINE checks == Checks(row, m)
<1>1. row.type \in {"OIDC", "LDAP", "SAML2", "LOCAL"}
  BY AdminAssumption
<1>2. /\ row.type = "OIDC" => row.values["issuer"].as \in {"text", "blank"}
      /\ row.type = "LDAP" => row.values["ldap_host"].as \in {"text", "blank"}
  <2>1. row.values["issuer"].as \in Words /\ row.values["ldap_host"].as \in Words
    BY DEF RowShape, Fields, Value
  <2> QED BY <2>1 DEF Complete, Required, Words
<1>3. /\ m.secret \in {"unset", "blank", "good", "bad"} /\ m.direct \in BOOLEAN
      /\ m.target \in {"forbidden", "dead", "junk", "no_endpoints", "no_issuer", "other_issuer", "fine"}
  BY DEF Meets
<1>4. \A name : Bad(name).good = FALSE /\ Good(name).good = TRUE /\ Bad(name).name = name /\ Good(name).name = name
  BY DEF Bad, Good
<1>5. /\ Verdict(checks) = "PASSED" => checks # {} /\ \A c \in checks : c.good
      /\ Verdict(checks) = "NOT_TESTABLE" => checks = {}
  BY DEF Verdict
<1>6. checks = SecretChecks(row, m) \cup TargetChecks(row, m)
  BY DEF Checks
<1>7. /\ UsesSecret(row, m) /\ m.secret = "bad" => Bad("secret") \in SecretChecks(row, m)
      /\ \A c \in SecretChecks(row, m) : c.name = "secret"
      /\ row.type = "LOCAL" => SecretChecks(row, m) = {}
  <2> DEFINE good == m.secret = "good"
  <2>1. m.secret = "bad" => good = FALSE
    OBVIOUS
  <2>2. SecretChecks(row, m) = IF ~UsesSecret(row, m) THEN {} ELSE {[name |-> "secret", good |-> good]}
    BY DEF SecretChecks
  <2> HIDE DEF good
  <2>3. UsesSecret(row, m) /\ m.secret = "bad" => Bad("secret") \in SecretChecks(row, m)
    BY <2>1, <2>2, Zenon DEF Bad
  <2>4. \A c \in SecretChecks(row, m) : c.name = "secret"
    BY <2>2
  <2>5. row.type = "LOCAL" => ~UsesSecret(row, m)
    BY DEF UsesSecret
  <2> QED BY <2>2, <2>3, <2>4, <2>5
<1>8. CASE row.type \in {"SAML2", "LOCAL"}
  <2>1. TargetChecks(row, m) = {}
    BY <1>8 DEF TargetChecks
  <2> HIDE DEF checks
  <2> QED BY <1>4, <1>5, <1>6, <1>7, <1>8, <2>1 DEF checks
<1>9. CASE row.type = "OIDC"
  <2> DEFINE text == row.values["issuer"].as = "text"
  <2>1. CASE HasTarget(row, m)
    <3>1. TargetChecks(row, m) =
            IF m.target = "forbidden" THEN {Bad("permitted")}
            ELSE IF m.target = "dead" THEN {Bad("reachable")}
            ELSE {Good("reachable")} \cup InspectDiscovery(row, m)
      BY <1>9, <2>1 DEF TargetChecks
    <3>2. /\ m.target # "fine" \/ ~text => \E name : Bad(name) \in TargetChecks(row, m)
          /\ TargetChecks(row, m) # {}
          /\ \A c \in TargetChecks(row, m) : c.name # "configured"
      <4>1. CASE m.target = "forbidden"
        <5>1. TargetChecks(row, m) = {Bad("permitted")}
          BY <3>1, <4>1
        <5> QED BY <1>4, <5>1
      <4>2. CASE m.target = "dead"
        <5>1. TargetChecks(row, m) = {Bad("reachable")}
          BY <3>1, <4>2
        <5> QED BY <1>4, <5>1
      <4>3. CASE m.target \notin {"forbidden", "dead"}
        <5>1. TargetChecks(row, m) = {Good("reachable")} \cup InspectDiscovery(row, m)
          BY <3>1, <4>3
        <5>2. m.target # "fine" \/ ~text => \E name : Bad(name) \in InspectDiscovery(row, m)
          BY <1>3, <4>3 DEF InspectDiscovery, HasText
        <5>3. \A c \in InspectDiscovery(row, m) : c.name # "configured"
          BY <1>4 DEF InspectDiscovery
        <5> QED BY <1>4, <5>1, <5>2, <5>3
      <4> QED BY <4>1, <4>2, <4>3
    <3>3. \A c \in TargetChecks(row, m) : c # Bad("configured")
      BY <1>4, <3>2
    <3> HIDE DEF checks, text
    <3>4. (Verdict(checks) = "PASSED" => m.target = "fine" /\ text) /\ Verdict(checks) # "NOT_TESTABLE"
      BY <1>4, <1>5, <1>6, <3>2
    <3>5. Bad("configured") \notin checks
      BY <1>4, <1>6, <1>7, <3>3
    <3> QED BY <1>4, <1>5, <1>6, <1>7, <1>9, <3>4, <3>5 DEF checks, text
  <2>2. CASE ~HasTarget(row, m)
    <3>1. TargetChecks(row, m) = {Bad("configured")}
      BY <1>9, <2>2 DEF TargetChecks
    <3>2. row.values[TargetOf(row.type)].as = "blank"
      BY <1>2, <1>9, <2>2 DEF HasTarget, HasText, TargetOf
    <3> HIDE DEF checks
    <3>3. Verdict(checks) # "PASSED" /\ Verdict(checks) # "NOT_TESTABLE"
      BY <1>4, <1>5, <1>6, <3>1
    <3> QED BY <1>6, <1>7, <3>2, <3>3 DEF checks
  <2> QED BY <2>1, <2>2
<1>10. CASE row.type = "LDAP"
  <2> DEFINE bind == IF m.bind /\ m.secret = "unset" THEN {Bad("bind")} ELSE {}
  <2>1. CASE HasTarget(row, m)
    <3>1. TargetChecks(row, m) =
            IF m.target = "forbidden" THEN {Bad("permitted")}
            ELSE (IF m.target = "dead" THEN {Bad("reachable")} ELSE {Good("reachable")}) \cup bind
      BY <1>10, <2>1 DEF TargetChecks
    <3>2. /\ m.target \in {"forbidden", "dead"} => \E name : Bad(name) \in TargetChecks(row, m)
          /\ TargetChecks(row, m) # {}
          /\ \A c \in TargetChecks(row, m) : c.name # "configured"
      BY <1>4, <3>1
    <3>3. \A c \in TargetChecks(row, m) : c # Bad("configured")
      BY <1>4, <3>2
    <3> HIDE DEF checks
    <3>4. /\ Verdict(checks) = "PASSED" => m.target \notin {"forbidden", "dead"}
          /\ Verdict(checks) # "NOT_TESTABLE"
      BY <1>4, <1>5, <1>6, <3>2
    <3>5. Bad("configured") \notin checks
      BY <1>4, <1>6, <1>7, <3>3
    <3> QED BY <1>4, <1>5, <1>6, <1>7, <1>10, <3>4, <3>5 DEF checks
  <2>2. CASE ~HasTarget(row, m)
    <3>1. TargetChecks(row, m) = {Bad("configured")}
      BY <1>10, <2>2 DEF TargetChecks
    <3>2. row.values[TargetOf(row.type)].as = "blank"
      BY <1>2, <1>10, <2>2 DEF HasTarget, HasText, TargetOf
    <3> HIDE DEF checks
    <3>3. Verdict(checks) # "PASSED" /\ Verdict(checks) # "NOT_TESTABLE"
      BY <1>4, <1>5, <1>6, <3>1
    <3> QED BY <1>6, <1>7, <3>2, <3>3 DEF checks
  <2> QED BY <2>1, <2>2
<1> QED BY <1>1, <1>8, <1>9, <1>10

(* What is known of the provider is enough for its promises.                      *)
LEMMA AdminInvSound == AdminInv => AdminIsSound
<1> SUFFICES ASSUME AdminInv PROVE AdminIsSound
  OBVIOUS
<1>1. \A t \in Admins : admin[t].step = "probe" => /\ admin[t].row \in RowShape /\ admin[t].row.type \in Types
                                                   /\ Complete(admin[t].row)
  BY DEF AdminInv, Numbered, OrderShape
<1>2. TestsAreHonest
  BY <1>1, TestIsHonest DEF TestsAreHonest
<1> QED BY <1>2 DEF AdminInv, AdminIsSound

(* create_provider, patch_provider, issue_token, authenticate_scim_token and             *)
(* test_connection: the row holds what was named last and is complete, the one live      *)
(* token is the one handed out last, and a test passes nothing that is bad.        *)
THEOREM ProvidersAreSound == AdminSpec => []AdminIsSound
<1> QED BY AdminInvSound, InitAdminInv, AdminInvIsKept, PTL DEF AdminSpec

-----------------------------------------------------------------------------
(* Accounts and their provisioning *)

AccountStatuses == {"none", "INVITED", "ACTIVE", "SUSPENDED", "DEPROVISIONED"}
LinkShape == [sent : Externals \cup {""}, own : Nat]
AccountShape ==
  [name : UserNames \cup {""}, link : LinkShape, status : AccountStatuses, set : [Columns -> Nat]]
CallShape ==
  [kind : Kinds, step : {"idle", "look", "insert", "link", "scope", "write", "commit"},
   id : Ids \cup {0}, name : UserNames \cup {""}, external : Externals \cup {""},
   status : AccountStatuses \cup {""}, names : SUBSET Columns, number : Nat,
   saw : AccountStatuses \cup {""}, row : AccountShape]

Creates == {"create", "scim_create"}
OnScoped == {"scim_patch", "scim_delete"}
Writes == OnScoped \cup {"patch", "suspend"}
Pends(c) == c.step \in {"link", "commit"}
Inserting(c) == c.kind \in Creates /\ Pends(c)
Writing(c) == c.kind \in Writes /\ c.step = "commit"

(* What an operation is about, at each of its steps.                                 *)
Ordered(c) ==
  /\ IF Pends(c) THEN c.row.status # "none" /\ c.id \in Ids /\ c.kind \in Creates \cup Writes
     ELSE c.row = NoAccount
  /\ c.step = "link" => c.kind = "scim_create"
  /\ c.step = "look" => c.kind = "scim_create"
  /\ c.step \in {"look", "insert"} => c.kind \in Creates /\ c.name # "" /\ c.status \notin {"none", ""}
  /\ c.step = "scope" => c.kind \in OnScoped /\ c.id \in Ids
  /\ c.step = "write" => c.kind \in Writes /\ c.id \in Ids
  /\ c.kind = "scim_delete" => c.status = "DEPROVISIONED"
  /\ c.kind = "patch" => c.status = ""
  /\ c.status # "none"
  /\ c.kind = "scim_patch" /\ c.step \in {"write", "commit"} => c.saw # "DEPROVISIONED"

(* A new row has a name and a link of its own; a changed one those of the account,      *)
(* which the operation had in scope.                                            *)
InsertFits(c) ==
  /\ account[c.id].status = "none" /\ c.names = Columns
  /\ c.row.name # "" /\ c.row.set = [x \in Columns |-> c.number]
  /\ \A i \in Ids : account[i].name # c.row.name
  /\ c.row.link # NoLink => \A i \in Ids : account[i].link # c.row.link
  /\ c.kind = "scim_create" /\ c.step = "commit" => c.row.link # NoLink
WriteFits(c) ==
  /\ account[c.id].status # "none"
  /\ c.row.name = account[c.id].name /\ c.row.link = account[c.id].link
  /\ c.row.set = [x \in Columns |-> IF x \in c.names THEN c.number ELSE account[c.id].set[x]]
  /\ c.row.status = IF c.status = "" THEN account[c.id].status ELSE c.status
CallFits(c) ==
  /\ Inserting(c) => InsertFits(c)
  /\ Writing(c) => WriteFits(c)
  /\ c.kind \in OnScoped /\ c.step \in {"write", "commit"} => account[c.id].link # NoLink

Differ(c, d) ==
  c.id # d.id /\ c.row.name # d.row.name /\ (c.row.link # NoLink => c.row.link # d.row.link)
PendingDiffer ==
  \A t, u \in Clerks : t # u /\ Pends(clerk[t]) /\ Pends(clerk[u]) => Differ(clerk[t], clerk[u])

AccountsFit ==
  /\ \A i \in Ids : account[i].status = "none" => account[i] = NoAccount
  /\ \A i \in Ids : account[i].status # "none" => account[i].name # ""
  /\ byScim \subseteq Ids
  /\ left \subseteq {i \in Ids : account[i].status # "none"}

ScimInv ==
  /\ account \in [Ids -> AccountShape] /\ wrote \in [Ids -> [Columns -> Nat]]
  /\ clerk \in [Clerks -> CallShape] /\ calls \in Nat
  /\ \A t \in Clerks : Ordered(clerk[t]) /\ CallFits(clerk[t])
  /\ PendingDiffer /\ AccountsFit
  /\ ProvisioningIsSound

LEMMA ScimFacts ==
  /\ NoLink \in LinkShape /\ NoAccount \in AccountShape /\ NoCall \in CallShape
  /\ NoAccount.status = "none" /\ NoAccount.link = NoLink /\ NoAccount.name = ""
  /\ NoAccount.set = [c \in Columns |-> 0]
  /\ NoCall.kind = "none" /\ NoCall.step = "idle" /\ NoCall.row = NoAccount /\ NoCall.status = ""
  /\ 0 \notin Ids /\ Ids \subseteq Nat
<1>1. NoLink \in LinkShape
  BY DEF NoLink, LinkShape
<1>2. /\ NoAccount \in AccountShape /\ NoAccount.status = "none" /\ NoAccount.link = NoLink
      /\ NoAccount.name = "" /\ NoAccount.set = [c \in Columns |-> 0]
  BY <1>1 DEF NoAccount, AccountShape, AccountStatuses
<1>3. /\ NoCall \in CallShape
      /\ NoCall.kind = "none" /\ NoCall.step = "idle" /\ NoCall.row = NoAccount /\ NoCall.status = ""
  BY <1>2 DEF NoCall, CallShape, Kinds
<1>4. 0 \notin Ids /\ Ids \subseteq Nat
  <2>1. \A i \in Ids : i \in Nat /\ i # 0
    <3>1. MaxAccounts \in Nat
      BY ScimAssumption, Zenon
    <3> HIDE ScimAssumption
    <3> QED BY <3>1 DEF Ids
  <2> QED BY <2>1
<1> QED BY <1>1, <1>2, <1>3, <1>4

LEMMA NoCallFits == Ordered(NoCall) /\ CallFits(NoCall) /\ ~Pends(NoCall)
<1> QED BY ScimFacts DEF Ordered, CallFits, Pends, Inserting, Writing, Creates, OnScoped, Writes

LEMMA InitScimInv == ScimInit => ScimInv
<1> SUFFICES ASSUME ScimInit PROVE ScimInv
  OBVIOUS
<1>1. /\ account = [i \in Ids |-> NoAccount] /\ clerk = [t \in Clerks |-> NoCall] /\ calls = 0
      /\ wrote = [i \in Ids |-> [c \in Columns |-> 0]] /\ byScim = {} /\ left = {} /\ undone = {}
  BY DEF ScimInit
<1>2. \A t \in Clerks : Ordered(clerk[t]) /\ CallFits(clerk[t]) /\ ~Pends(clerk[t])
  BY <1>1, NoCallFits
<1>3. \A i \in Ids : account[i] = NoAccount /\ account[i].status = "none"
  BY <1>1, ScimFacts
<1>4. ProvisioningIsSound
  <2>1. NoTakeover /\ GoneUnlessRaced
    BY <1>1 DEF NoTakeover, GoneUnlessRaced
  <2>2. OneEach
    BY <1>3 DEF OneEach, Exists
  <2>3. ColumnsAreLast
    BY <1>1, ScimFacts DEF ColumnsAreLast
  <2> QED BY <2>1, <2>2, <2>3 DEF ProvisioningIsSound
<1>5. AccountsFit
  BY <1>1, <1>3 DEF AccountsFit
<1>6. PendingDiffer
  BY <1>2 DEF PendingDiffer
<1>7. account \in [Ids -> AccountShape] /\ wrote \in [Ids -> [Columns -> Nat]] /\ clerk \in [Clerks -> CallShape]
  BY <1>1, ScimFacts
<1> QED BY <1>1, <1>2, <1>4, <1>5, <1>6, <1>7 DEF ScimInv

LEMMA SameFits ==
  ASSUME NEW u \in Clerks, account' = account, Ordered(clerk'[u]), CallFits(clerk'[u])
  PROVE  Ordered(clerk[u])' /\ CallFits(clerk[u])'
<1>1. PICK d : d = clerk'[u]
  OBVIOUS
<1>2. Ordered(d) /\ CallFits(d)
  BY <1>1
<1>3. Ordered(clerk[u])'
  BY <1>1, <1>2 DEF Ordered, Pends
<1>4. ASSUME InsertFits(d) PROVE InsertFits(clerk[u])'
  BY <1>1, <1>4, Zenon DEF InsertFits
<1>5. ASSUME WriteFits(d) PROVE WriteFits(clerk[u])'
  <2> DEFINE set == [x \in Columns |-> IF x \in d.names THEN d.number ELSE account[d.id].set[x]]
  <2>1. /\ account[d.id].status # "none" /\ d.row.name = account[d.id].name
        /\ d.row.link = account[d.id].link /\ d.row.set = set
        /\ d.row.status = IF d.status = "" THEN account[d.id].status ELSE d.status
    BY <1>5 DEF WriteFits
  <2>2. d.row.set = [x \in Columns |-> IF x \in clerk'[u].names THEN clerk'[u].number
                                       ELSE account'[clerk'[u].id].set[x]]
    BY <1>1, <2>1
  <2> HIDE DEF set
  <2> QED BY <1>1, <2>1, <2>2 DEF WriteFits
<1>6. (Inserting(clerk[u])' <=> Inserting(d)) /\ (Writing(clerk[u])' <=> Writing(d))
  BY <1>1 DEF Inserting, Writing, Pends
<1> QED BY <1>1, <1>2, <1>3, <1>4, <1>5, <1>6 DEF CallFits

(* An operation goes on, and nothing is committed.                                  *)
LEMMA GoOnKeeps ==
  ASSUME ScimInv, NEW t \in Clerks, NEW new \in CallShape, clerk' = [clerk EXCEPT ![t] = new],
         UNCHANGED <<account, wrote, byScim, left, undone>>, calls' \in Nat,
         Ordered(new), CallFits(new),
         Pends(new) => \A u \in Clerks \ {t} :
           Pends(clerk[u]) => Differ(new, clerk[u]) /\ Differ(clerk[u], new)
  PROVE  ScimInv'
<1>1. /\ clerk' \in [Clerks -> CallShape] /\ clerk'[t] = new
      /\ \A u \in Clerks \ {t} : clerk'[u] = clerk[u]
  BY DEF ScimInv
<1>2. \A u \in Clerks : Ordered(clerk[u]) /\ CallFits(clerk[u])
  BY DEF ScimInv
<1>3. \A u \in Clerks : Ordered(clerk'[u]) /\ CallFits(clerk'[u])
  BY <1>1, <1>2
<1>4. \A u \in Clerks : Ordered(clerk[u])' /\ CallFits(clerk[u])'
  BY <1>3, SameFits
<1>5. ASSUME NEW u \in Clerks, NEW w \in Clerks, u # w, Pends(clerk'[u]), Pends(clerk'[w])
      PROVE  Differ(clerk'[u], clerk'[w])
  <2>1. CASE u = t
    BY <1>1, <1>5, <2>1
  <2>2. CASE w = t
    BY <1>1, <1>5, <2>2
  <2>3. CASE u # t /\ w # t
    BY <1>1, <1>5, <2>3 DEF ScimInv, PendingDiffer
  <2> QED BY <2>1, <2>2, <2>3
<1>6. PendingDiffer'
  BY <1>5 DEF PendingDiffer, Pends, Differ
<1>7. AccountsFit' /\ ProvisioningIsSound'
  BY DEF ScimInv, AccountsFit, ProvisioningIsSound, NoTakeover, OneEach, ColumnsAreLast,
         GoneUnlessRaced, Exists
<1> QED BY <1>1, <1>4, <1>6, <1>7 DEF ScimInv

LEMMA RefuseKeeps ==
  ASSUME ScimInv, NEW t \in Clerks, clerk' = [clerk EXCEPT ![t] = NoCall],
         UNCHANGED <<account, wrote, byScim, left, undone>>, calls' \in Nat
  PROVE  ScimInv'
<1> QED BY NoCallFits, ScimFacts, GoOnKeeps

LEMMA CallKeeps ==
  ASSUME ScimInv, NEW t \in Clerks, NEW new \in CallShape, Call(t, new),
         Ordered(new), CallFits(new), ~Pends(new)
  PROVE  ScimInv'
<1> DEFINE n == calls + 1
           all == [new EXCEPT !.number = n]
<1>1. /\ clerk' = [clerk EXCEPT ![t] = all] /\ calls' = n
      /\ UNCHANGED <<account, wrote, byScim, left, undone>>
  BY DEF Call
<1>2. n \in Nat
  BY DEF ScimInv
<1> HIDE DEF n
<1>3. /\ all \in CallShape /\ all.kind = new.kind /\ all.step = new.step /\ all.id = new.id
      /\ all.name = new.name /\ all.status = new.status /\ all.saw = new.saw /\ all.row = new.row
  BY <1>2 DEF CallShape
<1> HIDE DEF all
<1>4. Ordered(all) /\ ~Pends(all)
  BY <1>3 DEF Ordered, Pends
<1>5. CallFits(all)
  BY <1>3, <1>4 DEF CallFits, Pends, Inserting, Writing
<1> QED BY <1>1, <1>2, <1>3, <1>4, <1>5, GoOnKeeps

LEMMA PostKeeps ==
  ASSUME ScimInv, NEW t \in Clerks, NEW name \in UserNames,
         \/ \E external \in Externals \cup {""}, active \in BOOLEAN : PostUser(t, name, external, active)
         \/ CreateUser(t, name)
  PROVE  ScimInv'
<1>1. name # ""
  BY ScimAssumption
<1>2. ASSUME NEW new \in CallShape, Call(t, new), new.row = NoAccount, new.name = name,
             new.status \in {"ACTIVE", "SUSPENDED", "INVITED"},
             \/ new.kind = "scim_create" /\ new.step = "look"
             \/ new.kind = "create" /\ new.step = "insert"
      PROVE  ScimInv'
  <2>1. Ordered(new) /\ CallFits(new) /\ ~Pends(new)
    BY <1>1, <1>2 DEF Ordered, CallFits, Pends, Inserting, Writing, Creates, OnScoped, Writes
  <2> QED BY <1>2, <2>1, CallKeeps
<1>3. ASSUME NEW external \in Externals \cup {""}, NEW active \in BOOLEAN,
             PostUser(t, name, external, active)
      PROVE  ScimInv'
  <2> DEFINE status == IF active THEN "ACTIVE" ELSE "SUSPENDED"
             new == [NoCall EXCEPT !.kind = "scim_create", !.step = "look", !.name = name,
                                   !.external = external, !.status = status]
  <2>1. Call(t, new)
    BY <1>3 DEF PostUser
  <2>2. status \in {"ACTIVE", "SUSPENDED"}
    OBVIOUS
  <2> HIDE DEF status
  <2>3. /\ new \in CallShape /\ new.row = NoAccount /\ new.name = name /\ new.status = status
        /\ new.kind = "scim_create" /\ new.step = "look"
    <3>1. /\ "scim_create" \in Kinds /\ status \in AccountStatuses \cup {""}
          /\ {} \in SUBSET Columns
      BY <2>2 DEF Kinds, AccountStatuses, Columns
    <3>2. new \in CallShape
      BY <3>1, ScimFacts, Zenon DEF NoCall, CallShape
    <3> QED BY <3>2, Zenon DEF NoCall
  <2> HIDE DEF new
  <2> QED BY <1>2, <2>1, <2>2, <2>3
<1>4. ASSUME CreateUser(t, name) PROVE ScimInv'
  <2> DEFINE new == [NoCall EXCEPT !.kind = "create", !.step = "insert", !.name = name,
                                   !.status = "INVITED"]
  <2>1. Call(t, new)
    BY <1>4 DEF CreateUser
  <2>2. /\ new \in CallShape /\ new.row = NoAccount /\ new.name = name /\ new.status = "INVITED"
        /\ new.kind = "create" /\ new.step = "insert"
    <3>1. /\ "create" \in Kinds /\ "INVITED" \in AccountStatuses \cup {""}
          /\ {} \in SUBSET Columns
      BY DEF Kinds, AccountStatuses, Columns
    <3>2. new \in CallShape
      BY <3>1, ScimFacts, Zenon DEF NoCall, CallShape
    <3> QED BY <3>2, Zenon DEF NoCall
  <2> HIDE DEF new
  <2> QED BY <1>2, <2>1, <2>2
<1> QED BY <1>3, <1>4

LEMMA ChangeKeeps ==
  ASSUME ScimInv, NEW t \in Clerks, NEW i \in Ids,
         \/ \E names \in {{"status"}, {"job_title"}, {"status", "display_name"}}, active \in BOOLEAN :
              PatchUser(t, i, names, active)
         \/ DeleteUser(t, i)
         \/ \E names \in {{"job_title"}, {"display_name"}} : EditUser(t, i, names)
         \/ \E status \in {"SUSPENDED", "DEPROVISIONED"} : SuspendUser(t, i, status)
  PROVE  ScimInv'
<1>1. ASSUME NEW new \in CallShape, Call(t, new), new.row = NoAccount, new.id = i,
             new.status \in {"", "ACTIVE", "SUSPENDED", "DEPROVISIONED"},
             new.kind = "scim_delete" => new.status = "DEPROVISIONED",
             new.kind = "patch" => new.status = "",
             \/ new.kind \in OnScoped /\ new.step = "scope"
             \/ new.kind \in {"patch", "suspend"} /\ new.step = "write"
      PROVE  ScimInv'
  <2>1. Ordered(new) /\ CallFits(new) /\ ~Pends(new)
    BY <1>1 DEF Ordered, CallFits, Pends, Inserting, Writing, Creates, OnScoped, Writes
  <2> QED BY <1>1, <2>1, CallKeeps
<1>2. \A f \in {{"status"}, {"job_title"}, {"display_name"}, {"status", "display_name"}} : f \in SUBSET Columns
  BY DEF Columns
<1>3. ASSUME NEW names \in {{"status"}, {"job_title"}, {"status", "display_name"}}, NEW active \in BOOLEAN,
             PatchUser(t, i, names, active)
      PROVE  ScimInv'
  <2> DEFINE status == IF "status" \notin names THEN "" ELSE IF active THEN "ACTIVE" ELSE "SUSPENDED"
             new == [NoCall EXCEPT !.kind = "scim_patch", !.step = "scope", !.id = i, !.names = names,
                                   !.status = status]
  <2>1. Call(t, new)
    BY <1>3 DEF PatchUser
  <2>2. status \in {"", "ACTIVE", "SUSPENDED"} /\ names \in SUBSET Columns
    BY <1>2
  <2> HIDE DEF status
  <2>3. /\ new \in CallShape /\ new.row = NoAccount /\ new.id = i /\ new.status = status
        /\ new.kind = "scim_patch" /\ new.step = "scope"
    <3>1. /\ "scim_patch" \in Kinds /\ status \in AccountStatuses \cup {""}
          /\ names \in SUBSET Columns
      BY <2>2 DEF Kinds, AccountStatuses, Columns
    <3>2. new \in CallShape
      BY <3>1, ScimFacts, Zenon DEF NoCall, CallShape
    <3> QED BY <3>2, Zenon DEF NoCall
  <2> HIDE DEF new
  <2> QED BY <1>1, <2>1, <2>2, <2>3 DEF OnScoped
<1>4. ASSUME DeleteUser(t, i) PROVE ScimInv'
  <2> DEFINE new == [NoCall EXCEPT !.kind = "scim_delete", !.step = "scope", !.id = i,
                                   !.names = {"status"}, !.status = "DEPROVISIONED"]
  <2>1. Call(t, new)
    BY <1>4 DEF DeleteUser
  <2>2. /\ new \in CallShape /\ new.row = NoAccount /\ new.id = i /\ new.status = "DEPROVISIONED"
        /\ new.kind = "scim_delete" /\ new.step = "scope"
    <3>1. /\ "scim_delete" \in Kinds /\ "DEPROVISIONED" \in AccountStatuses \cup {""}
          /\ {"status"} \in SUBSET Columns
      BY <1>2 DEF Kinds, AccountStatuses, Columns
    <3>2. new \in CallShape
      BY <3>1, ScimFacts, Zenon DEF NoCall, CallShape
    <3> QED BY <3>2, Zenon DEF NoCall
  <2> HIDE DEF new
  <2> QED BY <1>1, <2>1, <2>2 DEF OnScoped
<1>5. ASSUME NEW names \in {{"job_title"}, {"display_name"}}, EditUser(t, i, names) PROVE ScimInv'
  <2> DEFINE new == [NoCall EXCEPT !.kind = "patch", !.step = "write", !.id = i, !.names = names]
  <2>1. Call(t, new)
    BY <1>5 DEF EditUser
  <2>2. /\ new \in CallShape /\ new.row = NoAccount /\ new.id = i /\ new.status = ""
        /\ new.kind = "patch" /\ new.step = "write"
    <3>1. /\ "patch" \in Kinds /\ "" \in AccountStatuses \cup {""}
          /\ names \in SUBSET Columns
      BY <1>2 DEF Kinds, AccountStatuses, Columns
    <3>2. new \in CallShape
      BY <3>1, ScimFacts, Zenon DEF NoCall, CallShape
    <3> QED BY <3>2, Zenon DEF NoCall
  <2> HIDE DEF new
  <2> QED BY <1>1, <2>1, <2>2
<1>6. ASSUME NEW status \in {"SUSPENDED", "DEPROVISIONED"}, SuspendUser(t, i, status) PROVE ScimInv'
  <2> DEFINE new == [NoCall EXCEPT !.kind = "suspend", !.step = "write", !.id = i,
                                   !.names = {"status"}, !.status = status]
  <2>1. Call(t, new)
    BY <1>6 DEF SuspendUser
  <2>2. /\ new \in CallShape /\ new.row = NoAccount /\ new.id = i /\ new.status = status
        /\ new.kind = "suspend" /\ new.step = "write"
    <3>1. /\ "suspend" \in Kinds /\ status \in AccountStatuses \cup {""}
          /\ {"status"} \in SUBSET Columns
      BY <1>2 DEF Kinds, AccountStatuses, Columns
    <3>2. new \in CallShape
      BY <3>1, ScimFacts, Zenon DEF NoCall, CallShape
    <3> QED BY <3>2, Zenon DEF NoCall
  <2> HIDE DEF new
  <2> QED BY <1>1, <2>1, <2>2
<1> QED BY <1>3, <1>4, <1>5, <1>6

LEMMA LookScopeKeep ==
  ASSUME ScimInv, NEW t \in Clerks, LookForName(t) \/ CheckScope(t)
  PROVE  ScimInv'
<1> DEFINE c == clerk[t]
           insert == [c EXCEPT !.step = "insert"]
           write == [[c EXCEPT !.step = "write"] EXCEPT !.saw = account[c.id].status]
<1>1. c \in CallShape /\ Ordered(c) /\ calls \in Nat /\ account \in [Ids -> AccountShape]
  BY DEF ScimInv
<1>2. /\ UNCHANGED <<account, calls, wrote, byScim, left, undone>>
      /\ \/ clerk' = [clerk EXCEPT ![t] = NoCall]
         \/ c.step = "look" /\ clerk' = [clerk EXCEPT ![t] = insert]
         \/ c.step = "scope" /\ InScope(account[c.id]) /\ clerk' = [clerk EXCEPT ![t] = write]
  BY DEF LookForName, CheckScope, Refuse, GoOnWith
<1>3. CASE clerk' = [clerk EXCEPT ![t] = NoCall]
  BY <1>1, <1>2, <1>3, RefuseKeeps
<1>4. CASE c.step = "look" /\ clerk' = [clerk EXCEPT ![t] = insert]
  <2> HIDE DEF c
  <2>1. /\ insert \in CallShape /\ insert.step = "insert" /\ insert.kind = c.kind /\ insert.row = c.row
        /\ insert.name = c.name /\ insert.status = c.status /\ insert.id = c.id
    BY <1>1 DEF CallShape
  <2> HIDE DEF insert
  <2>2. Ordered(insert) /\ CallFits(insert) /\ ~Pends(insert)
    BY <1>1, <1>4, <2>1
    DEF Ordered, CallFits, Pends, Inserting, Writing, Creates, OnScoped, Writes
  <2> QED BY <1>1, <1>2, <1>4, <2>1, <2>2, GoOnKeeps
<1>5. CASE c.step = "scope" /\ InScope(account[c.id]) /\ clerk' = [clerk EXCEPT ![t] = write]
  <2> DEFINE saw == account[c.id].status
  <2>1. c.id \in Ids /\ c.kind \in OnScoped /\ c.row = NoAccount /\ c.status # "none"
    BY <1>1, <1>5 DEF Ordered, Pends
  <2>2. /\ saw \in AccountStatuses /\ saw # "DEPROVISIONED" /\ account[c.id].link # NoLink
    BY <1>1, <1>5, <2>1 DEF InScope, AccountShape
  <2> HIDE DEF saw, c
  <2>3. write = [[c EXCEPT !.step = "write"] EXCEPT !.saw = saw]
    BY DEF saw
  <2> HIDE DEF write
  <2>4. /\ write \in CallShape /\ write.step = "write" /\ write.kind = c.kind /\ write.row = c.row
        /\ write.name = c.name /\ write.status = c.status /\ write.id = c.id /\ write.saw = saw
    BY <1>1, <2>2, <2>3 DEF CallShape
  <2>5. Ordered(write) /\ CallFits(write) /\ ~Pends(write)
    BY <1>1, <1>5, <2>1, <2>2, <2>4
    DEF Ordered, CallFits, Pends, Inserting, Writing, Creates, OnScoped, Writes
  <2> QED BY <1>1, <1>2, <1>5, <2>4, <2>5, GoOnKeeps
<1> QED BY <1>2, <1>3, <1>4, <1>5

LEMMA LeastOf ==
  ASSUME NEW S, S \subseteq Nat, S # {}
  PROVE  Min(S) \in S
<1>1. PICK n \in S : \A m \in S : <<m, n>> \notin OpToRel(<, Nat)
  <2> HIDE DEF OpToRel
  <2> QED BY NatLessThanWellFounded, WFMin
<1>2. \A m \in S : ~(m < n)
  BY <1>1 DEF OpToRel
<1>3. \A m \in S : n =< m
  BY <1>2
<1> QED BY <1>3 DEF Min

(* Rows that are pending are those that other transactions may meet.                 *)
LEMMA PendingFacts ==
  ASSUME ScimInv, NEW t \in Clerks
  PROVE  /\ (clerk[t].row # NoAccount) <=> Pends(clerk[t])
         /\ \A u \in Clerks \ {t} : Pends(clerk[u]) => clerk[u].row \in Pending(t)
         /\ \A u \in Clerks : Pends(clerk[u]) => clerk[u].id \in Used /\ clerk[u].id \in Ids
         /\ \A u \in Clerks, i \in Ids : u # t /\ Pends(clerk[u]) /\ ~Locked(t, i) => clerk[u].id # i
<1>1. \A u \in Clerks : (clerk[u].row # NoAccount) <=> Pends(clerk[u])
  BY ScimFacts DEF ScimInv, Ordered
<1>2. \A u \in Clerks : Pends(clerk[u]) => clerk[u].id \in Ids
  BY DEF ScimInv, Ordered
<1>3. \A u \in Clerks \ {t} : Pends(clerk[u]) => clerk[u].row \in Pending(t)
  BY <1>1 DEF Pending
<1>4. \A u \in Clerks : Pends(clerk[u]) => clerk[u].id \in Used
  BY <1>1, <1>2 DEF Used
<1>5. \A u \in Clerks, i \in Ids : u # t /\ Pends(clerk[u]) /\ ~Locked(t, i) => clerk[u].id # i
  BY <1>1 DEF Locked
<1> QED BY <1>1, <1>2, <1>3, <1>4, <1>5

LEMMA InsertUserKeeps ==
  ASSUME ScimInv, NEW t \in Clerks, InsertUser(t)
  PROVE  ScimInv'
<1> DEFINE c == clerk[t]
           n == c.number
           id == Min(Ids \ Used)
           next == IF c.kind = "create" THEN "commit" ELSE "link"
           set == [x \in Columns |-> n]
           row == [[[NoAccount EXCEPT !.name = c.name] EXCEPT !.status = c.status] EXCEPT !.set = set]
           new == [[[[c EXCEPT !.step = next] EXCEPT !.id = id] EXCEPT !.names = Columns] EXCEPT !.row = row]
<1>1. c \in CallShape /\ Ordered(c) /\ calls \in Nat /\ c.step = "insert" /\ \A r \in Pending(t) : r.name # c.name
  BY DEF ScimInv, InsertUser
<1>2. /\ UNCHANGED <<account, calls, wrote, byScim, left, undone>>
      /\ \/ clerk' = [clerk EXCEPT ![t] = NoCall]
         \/ /\ \A i \in Ids : account[i].name # c.name
            /\ Used # Ids /\ clerk' = [clerk EXCEPT ![t] = new]
  BY DEF InsertUser, Refuse, GoOnWith
<1>3. CASE clerk' = [clerk EXCEPT ![t] = NoCall]
  BY <1>1, <1>2, <1>3, RefuseKeeps
<1>4. CASE /\ \A i \in Ids : account[i].name # c.name
           /\ Used # Ids /\ clerk' = [clerk EXCEPT ![t] = new]
  <2>1. id \in Ids /\ id \notin Used
    <3>1. Ids \ Used # {} /\ Ids \ Used \subseteq Nat
      BY <1>4, ScimFacts DEF Used
    <3> QED BY <3>1, LeastOf
  <2>2. /\ c.kind \in Creates /\ c.name # "" /\ c.status \notin {"none", ""} /\ n \in Nat
        /\ c.name \in UserNames /\ c.status \in AccountStatuses
    BY <1>1 DEF Ordered, CallShape
  <2>3. set \in [Columns -> Nat]
    BY <2>2
  <2>4. /\ row \in AccountShape /\ row.name = c.name /\ row.status = c.status /\ row.set = set
        /\ row.link = NoLink
    <3> HIDE DEF set, c
    <3> QED BY <2>2, <2>3, ScimFacts DEF AccountShape
  <2>5. next \in {"commit", "link"} /\ (next = "link" => c.kind = "scim_create")
        /\ (c.kind = "scim_create" => next = "link")
    BY <2>2 DEF Creates
  <2> HIDE DEF id, next, row, c
  <2>6. /\ new \in CallShape /\ new.step = next /\ new.id = id /\ new.names = Columns /\ new.row = row
        /\ new.kind = c.kind /\ new.number = n /\ new.status = c.status /\ new.name = c.name
    BY <1>1, <2>1, <2>4, <2>5 DEF CallShape
  <2> HIDE DEF new, n
  <2>7. Ordered(new)
    BY <1>1, <2>1, <2>2, <2>4, <2>5, <2>6 DEF Ordered, Pends, Creates, OnScoped, Writes
  <2>8. CallFits(new)
    <3>1. account[id].status = "none"
      BY <2>1 DEF Used, Exists
    <3>2. InsertFits(new)
      BY <1>4, <2>2, <2>4, <2>5, <2>6, <3>1 DEF InsertFits, set
    <3> QED BY <2>2, <2>6, <3>2 DEF CallFits, Writing, Creates, OnScoped, Writes
  <2>9. ASSUME NEW u \in Clerks \ {t}, Pends(clerk[u])
        PROVE  Differ(new, clerk[u]) /\ Differ(clerk[u], new)
    <3>1. clerk[u].id # id
      BY <2>1, <2>9, PendingFacts
    <3>2. clerk[u].row.name # c.name
      BY <1>1, <2>9, PendingFacts
    <3> QED BY <2>4, <2>6, <3>1, <3>2 DEF Differ
  <2> QED BY <1>1, <1>2, <1>4, <2>6, <2>7, <2>8, <2>9, GoOnKeeps
<1> QED BY <1>2, <1>3, <1>4

LEMMA LinkUserKeeps ==
  ASSUME ScimInv, NEW t \in Clerks, LinkUser(t)
  PROVE  ScimInv'
<1> DEFINE c == clerk[t]
           link == Subject(c)
           row == [c.row EXCEPT !.link = link]
           new == [[c EXCEPT !.step = "commit"] EXCEPT !.row = row]
<1>1. /\ c \in CallShape /\ Ordered(c) /\ CallFits(c) /\ calls \in Nat /\ c.step = "link"
      /\ \A r \in Pending(t) : r.link # link
  BY DEF ScimInv, LinkUser
<1>2. /\ UNCHANGED <<account, calls, wrote, byScim, left, undone>>
      /\ \/ clerk' = [clerk EXCEPT ![t] = NoCall]
         \/ /\ \A i \in Ids : account[i].link # link
            /\ clerk' = [clerk EXCEPT ![t] = new]
  <2>1. [c EXCEPT !.step = "commit", !.row.link = link] = new
    <3>1. [c EXCEPT !.step = "commit"].row = c.row
      BY <1>1 DEF CallShape
    <3> HIDE DEF c, link
    <3> QED BY <1>1, <3>1
  <2> QED BY <2>1 DEF LinkUser, Refuse, GoOnWith
<1>3. CASE clerk' = [clerk EXCEPT ![t] = NoCall]
  BY <1>1, <1>2, <1>3, RefuseKeeps
<1>4. CASE /\ \A i \in Ids : account[i].link # link
           /\ clerk' = [clerk EXCEPT ![t] = new]
  <2>1. /\ c.kind = "scim_create" /\ c.id \in Ids /\ c.row \in AccountShape /\ c.row.status # "none"
        /\ c.external \in Externals \cup {""} /\ c.number \in Nat /\ c.status # "none"
    BY <1>1 DEF Ordered, Pends, CallShape
  <2>2. link \in LinkShape /\ link # NoLink
    <3>1. c.id \in Nat /\ c.id # 0
      BY <2>1, ScimFacts
    <3>2. CASE c.external = ""
      <4>1. link = [NoLink EXCEPT !.own = c.id]
        BY <3>2 DEF Subject
      <4>2. link.own = c.id /\ link \in LinkShape /\ NoLink.own = 0
        BY <3>1, <4>1 DEF NoLink, LinkShape
      <4> QED BY <3>1, <4>2
    <3>3. CASE c.external # ""
      <4>1. link = [NoLink EXCEPT !.sent = c.external]
        BY <3>3 DEF Subject
      <4>2. link.sent = c.external /\ link \in LinkShape /\ NoLink.sent = ""
        <5> DEFINE sent == c.external
        <5>1. sent \in Externals \cup {""} /\ link = [NoLink EXCEPT !.sent = sent]
          BY <2>1, <4>1
        <5> HIDE DEF sent, link
        <5>2. link.sent = sent /\ link \in LinkShape /\ NoLink.sent = ""
          BY <5>1 DEF NoLink, LinkShape
        <5> QED BY <5>2 DEF sent
      <4> QED BY <3>3, <4>2
    <3> QED BY <3>2, <3>3
  <2>3. Inserting(c) /\ InsertFits(c)
    BY <1>1, <2>1 DEF CallFits, Inserting, Pends, Creates
  <2> HIDE DEF link
  <2>4. /\ row \in AccountShape /\ row.name = c.row.name /\ row.status = c.row.status
        /\ row.set = c.row.set /\ row.link = link
    <3> HIDE DEF c
    <3> QED BY <2>1, <2>2 DEF AccountShape
  <2> HIDE DEF row, c
  <2>5. /\ new \in CallShape /\ new.step = "commit" /\ new.id = c.id /\ new.names = c.names /\ new.row = row
        /\ new.kind = c.kind /\ new.number = c.number /\ new.status = c.status /\ new.name = c.name
    BY <1>1, <2>4 DEF CallShape
  <2> HIDE DEF new
  <2>6. Ordered(new)
    BY <1>1, <2>1, <2>4, <2>5 DEF Ordered, Pends, Creates, OnScoped, Writes
  <2>7. CallFits(new)
    <3>1. InsertFits(new)
      BY <1>4, <2>2, <2>3, <2>4, <2>5 DEF InsertFits
    <3> QED BY <2>1, <2>5, <3>1 DEF CallFits, Writing, Creates, OnScoped, Writes
  <2>8. ASSUME NEW u \in Clerks \ {t}, Pends(clerk[u])
        PROVE  Differ(new, clerk[u]) /\ Differ(clerk[u], new)
    <3>1. Pends(c)
      BY <1>1 DEF Pends
    <3>2. Differ(c, clerk[u]) /\ Differ(clerk[u], c)
      BY <2>8, <3>1 DEF ScimInv, PendingDiffer, c
    <3>3. clerk[u].row.link # link
      BY <1>1, <2>8, PendingFacts
    <3> QED BY <2>4, <2>5, <3>2, <3>3 DEF Differ
  <2> QED BY <1>1, <1>2, <1>4, <2>5, <2>6, <2>7, <2>8, GoOnKeeps
<1> QED BY <1>2, <1>3, <1>4

LEMMA WriteUserKeeps ==
  ASSUME ScimInv, NEW t \in Clerks, WriteUser(t)
  PROVE  ScimInv'
<1> DEFINE c == clerk[t]
           old == account[c.id]
           status == IF c.status = "" THEN old.status ELSE c.status
           set == [x \in Columns |-> IF x \in c.names THEN c.number ELSE old.set[x]]
           row == [[old EXCEPT !.status = status] EXCEPT !.set = set]
           new == [[c EXCEPT !.step = "commit"] EXCEPT !.row = row]
<1>1. /\ c \in CallShape /\ Ordered(c) /\ CallFits(c) /\ calls \in Nat /\ c.step = "write"
      /\ account \in [Ids -> AccountShape]
  BY DEF ScimInv, WriteUser
<1>2. c.kind \in Writes /\ c.id \in Ids /\ c.row = NoAccount /\ c.status # "none" /\ c.number \in Nat
  BY <1>1 DEF Ordered, Pends, CallShape
<1>3. old \in AccountShape /\ c.status \in AccountStatuses \cup {""}
  BY <1>1, <1>2 DEF CallShape
<1>4. /\ UNCHANGED <<account, calls, wrote, byScim, left, undone>> /\ ~Locked(t, c.id)
      /\ \/ clerk' = [clerk EXCEPT ![t] = NoCall]
         \/ Exists(c.id) /\ clerk' = [clerk EXCEPT ![t] = new]
  <2>1. [old EXCEPT !.status = IF c.status = "" THEN @ ELSE c.status,
                    !.set = [x \in Columns |-> IF x \in c.names THEN c.number ELSE @[x]]] = row
    <3>1. [old EXCEPT !.status = IF c.status = "" THEN @ ELSE c.status] = [old EXCEPT !.status = status]
      BY <1>3
    <3>2. [old EXCEPT !.status = status].set = old.set
      BY <1>3 DEF AccountShape
    <3> HIDE DEF status, old, c
    <3> QED BY <3>1, <3>2 DEF row
  <2> QED BY <2>1 DEF WriteUser, Refuse, GoOnWith
<1>5. CASE clerk' = [clerk EXCEPT ![t] = NoCall]
  BY <1>1, <1>4, <1>5, RefuseKeeps
<1>6. CASE Exists(c.id) /\ clerk' = [clerk EXCEPT ![t] = new]
  <2>1. old.status # "none" /\ status \in AccountStatuses /\ status # "none"
    BY <1>2, <1>3, <1>6 DEF Exists, AccountShape
  <2>2. set \in [Columns -> Nat]
    BY <1>2, <1>3 DEF AccountShape
  <2> HIDE DEF status, set, old
  <2>3. /\ row \in AccountShape /\ row.status = status /\ row.set = set
        /\ row.name = old.name /\ row.link = old.link
    BY <1>3, <2>1, <2>2 DEF AccountShape
  <2> HIDE DEF row, c
  <2>4. /\ new \in CallShape /\ new.step = "commit" /\ new.id = c.id /\ new.names = c.names /\ new.row = row
        /\ new.kind = c.kind /\ new.number = c.number /\ new.status = c.status /\ new.saw = c.saw
    BY <1>1, <2>3 DEF CallShape
  <2> HIDE DEF new
  <2>5. Ordered(new)
    BY <1>1, <1>2, <2>1, <2>3, <2>4 DEF Ordered, Pends, Creates, OnScoped, Writes
  <2>6. CallFits(new)
    <3>1. WriteFits(new)
      BY <2>1, <2>3, <2>4 DEF WriteFits, old, set, status
    <3>2. ~Inserting(new)
      BY <1>2, <2>4 DEF Inserting, Creates, Writes, OnScoped
    <3>3. new.kind \in OnScoped => account[new.id].link # NoLink
      BY <1>1, <2>4 DEF CallFits
    <3> QED BY <3>1, <3>2, <3>3 DEF CallFits
  <2>7. ASSUME NEW u \in Clerks \ {t}, Pends(clerk[u])
        PROVE  Differ(new, clerk[u]) /\ Differ(clerk[u], new)
    <3> DEFINE d == clerk[u]
    <3>1. d.id # c.id /\ d.id \in Ids
      BY <1>2, <1>4, <2>7, PendingFacts
    <3>2. Ordered(d) /\ CallFits(d) /\ ProvisioningIsSound
      BY DEF ScimInv
    <3>3. Inserting(d) \/ Writing(d)
      BY <2>7, <3>2 DEF Ordered, Inserting, Writing, Pends, Creates, Writes, OnScoped
    <3>4. CASE Inserting(d)
      <4>1. InsertFits(d)
        BY <3>2, <3>4 DEF CallFits
      <4>2. d.row.name # old.name /\ (d.row.link # NoLink => old.link # d.row.link)
        BY <1>2, <4>1 DEF InsertFits, old
      <4> QED BY <2>3, <2>4, <3>1, <4>2 DEF Differ
    <3>5. CASE Writing(d)
      <4>1. WriteFits(d)
        BY <3>2, <3>5 DEF CallFits
      <4>2. Exists(d.id) /\ d.row.name = account[d.id].name /\ d.row.link = account[d.id].link
        BY <4>1 DEF WriteFits, Exists
      <4>3. /\ account[d.id].name # old.name
            /\ account[d.id].link # NoLink => account[d.id].link # old.link
            /\ old.link # NoLink => old.link # account[d.id].link
        BY <1>2, <1>6, <3>1, <3>2, <4>2 DEF ProvisioningIsSound, OneEach, old
      <4> QED BY <2>3, <2>4, <3>1, <4>2, <4>3 DEF Differ
    <3> QED BY <3>3, <3>4, <3>5
  <2> QED BY <1>1, <1>4, <1>6, <2>4, <2>5, <2>6, <2>7, GoOnKeeps
<1> QED BY <1>4, <1>5, <1>6

(* The pending row becomes the account; nobody else's preparation is disturbed.        *)
LEMMA CommitUserKeeps ==
  ASSUME ScimInv, NEW t \in Clerks, CommitUser(t)
  PROVE  ScimInv'
<1> DEFINE c == clerk[t]
           k == c.id
           row == c.row
           scim == c.kind \in {"scim_create", "scim_patch", "scim_delete"}
<1>1. /\ c \in CallShape /\ Ordered(c) /\ CallFits(c) /\ calls \in Nat /\ c.step = "commit"
      /\ account \in [Ids -> AccountShape] /\ wrote \in [Ids -> [Columns -> Nat]]
      /\ PendingDiffer /\ AccountsFit /\ NoTakeover /\ OneEach /\ ColumnsAreLast /\ GoneUnlessRaced
  BY DEF ScimInv, CommitUser, ProvisioningIsSound
<1>2. /\ account' = [account EXCEPT ![k] = row]
      /\ wrote' = [wrote EXCEPT ![k] = [x \in Columns |-> IF x \in c.names THEN c.number ELSE @[x]]]
      /\ byScim' = (IF scim THEN byScim \cup {k} ELSE byScim)
      /\ left' = (IF c.kind = "scim_delete" THEN left \cup {k} ELSE left)
      /\ undone' = (IF k \in left /\ (\/ c.kind = "suspend"
                                      \/ c.kind = "scim_patch" /\ c.saw # "DEPROVISIONED")
                    THEN undone \cup {k} ELSE undone)
      /\ clerk' = [clerk EXCEPT ![t] = NoCall]
      /\ calls' = calls
  BY DEF CommitUser
<1>3. /\ Pends(c) /\ row.status # "none" /\ k \in Ids /\ c.kind \in Creates \cup Writes
      /\ c.number \in Nat /\ row \in AccountShape
  BY <1>1 DEF Ordered, Pends, CallShape
<1>4. /\ account' \in [Ids -> AccountShape] /\ account'[k] = row
      /\ \A i \in Ids \ {k} : account'[i] = account[i]
  BY <1>1, <1>2, <1>3
<1>5. /\ clerk' \in [Clerks -> CallShape] /\ clerk'[t] = NoCall
      /\ \A u \in Clerks \ {t} : clerk'[u] = clerk[u]
  BY <1>2, ScimFacts DEF ScimInv
<1>6. \/ Inserting(c) /\ InsertFits(c) /\ c.kind \in Creates
      \/ Writing(c) /\ WriteFits(c) /\ c.kind \in Writes
  BY <1>1, <1>3 DEF CallFits, Inserting, Writing
<1>7. /\ row.name # "" /\ row.set = [x \in Columns |-> IF x \in c.names THEN c.number ELSE account[k].set[x]]
      /\ \A i \in Ids \ {k} : Exists(i) =>
           /\ account[i].name # row.name
           /\ row.link # NoLink => account[i].link # row.link
      /\ account[k].link # NoLink => row.link = account[k].link
  <2>1. CASE Inserting(c) /\ InsertFits(c)
    <3>1. account[k].link = NoLink
      BY <1>1, <1>3, <2>1, ScimFacts DEF InsertFits, AccountsFit
    <3> QED BY <2>1, <3>1 DEF InsertFits
  <2>2. CASE Writing(c) /\ WriteFits(c)
    <3>1. /\ account[k].status # "none" /\ row.name = account[k].name /\ row.link = account[k].link
          /\ row.set = [x \in Columns |-> IF x \in c.names THEN c.number ELSE account[k].set[x]]
      BY <2>2 DEF WriteFits
    <3>2. \A i \in Ids \ {k} : Exists(i) =>
            /\ account[i].name # account[k].name
            /\ account[k].link # NoLink => account[i].link # account[k].link
      BY <1>1, <1>3, <3>1 DEF OneEach, Exists
    <3>3. account[k].name # ""
      BY <1>1, <1>3, <3>1 DEF AccountsFit
    <3> QED BY <3>1, <3>2, <3>3
  <2> QED BY <1>6, <2>1, <2>2
<1>8. scim => row.link # NoLink
  <2>1. CASE Inserting(c) /\ InsertFits(c) /\ c.kind \in Creates
    BY <1>1, <2>1 DEF InsertFits, Creates
  <2>2. CASE Writing(c) /\ WriteFits(c) /\ c.kind \in Writes
    <3>1. scim => account[k].link # NoLink
      BY <1>1, <2>2 DEF CallFits, Writes, OnScoped
    <3> QED BY <1>7, <3>1
  <2> QED BY <1>6, <2>1, <2>2
<1>9. wrote' \in [Ids -> [Columns -> Nat]] /\ ColumnsAreLast'
  <2>1. account[k].set = wrote[k]
    BY <1>1, <1>3 DEF ColumnsAreLast
  <2>2. wrote' = [wrote EXCEPT ![k] = row.set]
    BY <1>2, <1>7, <2>1
  <2>3. row.set \in [Columns -> Nat]
    BY <1>3 DEF AccountShape
  <2>4. wrote'[k] = row.set /\ \A i \in Ids \ {k} : wrote'[i] = wrote[i]
    BY <1>1, <1>3, <2>2
  <2>5. wrote' \in [Ids -> [Columns -> Nat]]
    BY <1>1, <2>2, <2>3
  <2> HIDE DEF row, k, c
  <2> QED BY <1>1, <1>4, <2>4, <2>5 DEF ColumnsAreLast
<1>10. NoTakeover'
  <2> HIDE DEF row, k, c, scim
  <2>1. ASSUME NEW i \in byScim' PROVE account'[i].link # NoLink
    <3>1. byScim \subseteq Ids
      BY <1>1 DEF AccountsFit
    <3>2. CASE i = k
      <4>1. CASE scim
        BY <1>4, <1>8, <3>2, <4>1
      <4>2. CASE ~scim
        <5>1. k \in byScim
          BY <1>2, <2>1, <3>2, <4>2
        <5>2. account[k].link # NoLink
          BY <1>1, <5>1 DEF NoTakeover
        <5> QED BY <1>4, <1>7, <3>2, <5>2
      <4> QED BY <4>1, <4>2
    <3>3. CASE i # k
      <4>1. i \in byScim
        BY <1>2, <2>1, <3>3
      <4> QED BY <1>1, <1>4, <3>1, <3>3, <4>1 DEF NoTakeover
    <3> QED BY <3>2, <3>3
  <2> QED BY <2>1 DEF NoTakeover
<1>11. OneEach'
  <2> HIDE DEF row, k, c, scim
  <2>1. ASSUME NEW i \in Ids, NEW j \in Ids, account'[i].status # "none", account'[j].status # "none", i # j
        PROVE  /\ account'[i].name # account'[j].name
               /\ account'[i].link # NoLink => account'[i].link # account'[j].link
    <3>0. \A x \in Ids \ {k} : account'[x].status # "none" =>
            account'[x] = account[x] /\ account[x].name # row.name
              /\ (row.link # NoLink => account[x].link # row.link)
      BY <1>4, <1>7 DEF Exists
    <3>1. CASE i = k
      BY <1>4, <2>1, <3>0, <3>1
    <3>2. CASE j = k
      <4>1. account'[i] = account[i] /\ account[i].name # row.name
              /\ (row.link # NoLink => account[i].link # row.link)
        BY <2>1, <3>0, <3>2
      <4> QED BY <1>4, <3>2, <4>1
    <3>3. CASE i # k /\ j # k
      BY <1>1, <1>4, <2>1, <3>3 DEF OneEach, Exists
    <3> QED BY <3>1, <3>2, <3>3
  <2> QED BY <2>1 DEF OneEach, Exists
<1>12. GoneUnlessRaced'
  <2>1. ASSUME NEW i \in left', i \notin undone' PROVE account'[i].status = "DEPROVISIONED"
    <3>1. left \subseteq Ids /\ \A j \in left : account[j].status # "none"
      BY <1>1 DEF AccountsFit
    <3>2. CASE i # k
      <4>1. i \in left /\ i \notin undone /\ i \in Ids
        <5> HIDE DEF row, k, c, scim
        <5> QED BY <1>2, <2>1, <3>1, <3>2
      <4> HIDE DEF row, k, c, scim
      <4> QED BY <1>1, <1>4, <3>2, <4>1 DEF GoneUnlessRaced
    <3>3. CASE i = k
      <4>1. CASE c.kind = "scim_delete"
        <5>1. Writing(c) /\ WriteFits(c) /\ c.status = "DEPROVISIONED"
          BY <1>1, <1>6, <4>1 DEF Ordered, Creates, Writes, OnScoped
        <5>2. row.status = "DEPROVISIONED"
          BY <5>1 DEF WriteFits
        <5> QED BY <1>4, <3>3, <5>2
      <4>2. CASE c.kind # "scim_delete"
        <5>1. k \in left
          BY <1>2, <2>1, <3>3, <4>2
        <5>2. c.kind # "suspend" /\ ~(c.kind = "scim_patch" /\ c.saw # "DEPROVISIONED") /\ k \notin undone
          BY <1>2, <2>1, <3>3, <5>1
        <5>3. c.kind # "scim_patch"
          BY <1>1, <5>2 DEF Ordered
        <5>4. account[k].status # "none" /\ account[k].status = "DEPROVISIONED"
          BY <1>1, <3>1, <5>1, <5>2 DEF GoneUnlessRaced
        <5>5. Writing(c) /\ WriteFits(c) /\ c.kind \in Writes
          BY <1>6, <5>4 DEF InsertFits
        <5>6. c.status = ""
          BY <1>1, <4>2, <5>2, <5>3, <5>5 DEF Ordered, Writes, OnScoped
        <5>7. row.status = account[k].status
          BY <5>5, <5>6 DEF WriteFits
        <5> QED BY <1>4, <3>3, <5>4, <5>7
      <4> QED BY <4>1, <4>2
    <3> QED BY <3>2, <3>3
  <2> QED BY <2>1 DEF GoneUnlessRaced
<1>13. AccountsFit'
  <2> HIDE DEF row, k, c, scim
  <2>1. ASSUME NEW i \in Ids PROVE (account'[i].status = "none" => account'[i] = NoAccount)
                                   /\ (account'[i].status # "none" => account'[i].name # "")
    <3>1. CASE i = k
      BY <1>3, <1>4, <1>7, <3>1
    <3>2. CASE i # k
      BY <1>1, <1>4, <3>2 DEF AccountsFit
    <3> QED BY <3>1, <3>2
  <2>2. byScim' \subseteq Ids
    BY <1>1, <1>2, <1>3 DEF AccountsFit
  <2>3. ASSUME NEW i \in left' PROVE i \in Ids /\ account'[i].status # "none"
    <3>1. CASE i = k
      BY <1>3, <1>4, <3>1
    <3>2. CASE i # k
      <4>1. i \in left
        BY <1>2, <2>3, <3>2
      <4> QED BY <1>1, <1>4, <3>2, <4>1 DEF AccountsFit
    <3> QED BY <3>1, <3>2
  <2> QED BY <2>1, <2>2, <2>3 DEF AccountsFit
<1>14. ASSUME NEW u \in Clerks PROVE Ordered(clerk'[u]) /\ CallFits(clerk[u])'
  <2>1. CASE u = t
    <3>1. clerk'[u] = NoCall
      BY <1>5, <2>1
    <3> QED BY <3>1, NoCallFits, ScimFacts DEF CallFits, Inserting, Writing, OnScoped, Pends
  <2>2. CASE u # t
    <3> DEFINE d == clerk[u]
    <3>1. clerk'[u] = d /\ Ordered(d) /\ CallFits(d)
      BY <1>5, <2>2 DEF ScimInv
    <3>2. Pends(d) => Differ(c, d) /\ d.id \in Ids
      BY <1>1, <1>3, <2>2, <3>1 DEF PendingDiffer, Ordered
    <3> HIDE DEF d, c, k, row, scim
    <3>3. ASSUME Pends(d), InsertFits(d) PROVE InsertFits(clerk[u])'
      <4>1. account'[d.id] = account[d.id]
        BY <1>4, <3>2, <3>3 DEF Differ, k
      <4>2. row.name # d.row.name /\ (d.row.link # NoLink => row.link # d.row.link)
        BY <3>2, <3>3 DEF Differ, row
      <4>3. \A i \in Ids : account'[i].name # d.row.name
        BY <1>4, <3>3, <4>2 DEF InsertFits
      <4>4. d.row.link # NoLink => \A i \in Ids : account'[i].link # d.row.link
        BY <1>4, <3>3, <4>2 DEF InsertFits
      <4> QED BY <3>1, <3>3, <4>1, <4>3, <4>4 DEF InsertFits
    <3>4. ASSUME Pends(d), WriteFits(d) PROVE WriteFits(clerk[u])'
      <4>1. account'[d.id] = account[d.id]
        BY <1>4, <3>2, <3>4 DEF Differ, k
      <4> QED BY <3>1, <3>4, <4>1 DEF WriteFits
    <3>5. d.kind \in OnScoped /\ d.step \in {"write", "commit"} => account'[d.id].link # NoLink
      <4>1. SUFFICES ASSUME d.kind \in OnScoped, d.step \in {"write", "commit"}
                     PROVE  account'[d.id].link # NoLink
        OBVIOUS
      <4>2. account[d.id].link # NoLink /\ d.id \in Ids
        BY <3>1, <4>1 DEF CallFits, Ordered, Pends
      <4> QED BY <1>4, <1>7, <4>2
    <3>6. Inserting(d) => Pends(d) /\ InsertFits(d)
      BY <3>1 DEF Inserting, CallFits
    <3>7. Writing(d) => Pends(d) /\ WriteFits(d)
      BY <3>1 DEF Writing, CallFits, Pends
    <3>8. (Inserting(clerk[u])' <=> Inserting(d)) /\ (Writing(clerk[u])' <=> Writing(d))
      BY <3>1 DEF Inserting, Writing, Pends
    <3>9. CallFits(clerk[u])'
      BY <3>1, <3>3, <3>4, <3>5, <3>6, <3>7, <3>8 DEF CallFits
    <3> QED BY <3>1, <3>9
  <2> QED BY <2>1, <2>2
<1>15. \A u \in Clerks : Ordered(clerk[u])' /\ CallFits(clerk[u])'
  BY <1>14 DEF Ordered, Pends
<1>16. PendingDiffer'
  <2>1. ASSUME NEW u \in Clerks, NEW w \in Clerks, u # w, Pends(clerk'[u]), Pends(clerk'[w])
        PROVE  Differ(clerk'[u], clerk'[w])
    <3>1. u # t /\ w # t
      BY <1>5, <2>1, NoCallFits
    <3> QED BY <1>1, <1>5, <2>1, <3>1 DEF PendingDiffer
  <2> QED BY <2>1 DEF PendingDiffer, Pends, Differ
<1>17. calls' \in Nat
  BY <1>1, <1>2
<1> QED BY <1>4, <1>5, <1>9, <1>10, <1>11, <1>12, <1>13, <1>15, <1>16, <1>17 DEF ScimInv, ProvisioningIsSound

LEMMA LoseClerkKeeps ==
  ASSUME ScimInv, NEW t \in Clerks, LoseClerk(t)
  PROVE  ScimInv'
<1>1. calls \in Nat
  BY DEF ScimInv
<1>2. calls' \in Nat
  BY <1>1 DEF LoseClerk
<1> QED BY <1>2, RefuseKeeps DEF LoseClerk

LEMMA ScimInvIsKept == ScimInv /\ [ScimNext]_scimVars => ScimInv'
<1> SUFFICES ASSUME ScimInv, [ScimNext]_scimVars PROVE ScimInv'
  OBVIOUS
<1>1. CASE ScimNext
  BY <1>1, PostKeeps, ChangeKeeps, LookScopeKeep, InsertUserKeeps, LinkUserKeeps, WriteUserKeeps,
     CommitUserKeeps, LoseClerkKeeps
  DEF ScimNext
<1>2. CASE UNCHANGED scimVars
  <2>1. /\ UNCHANGED <<account, wrote, byScim, left, undone>> /\ clerk' = clerk /\ calls' = calls
    BY <1>2 DEF scimVars
  <2>2. \A u \in Clerks : Ordered(clerk[u])' /\ CallFits(clerk[u])'
    BY <2>1, SameFits DEF ScimInv
  <2>3. PendingDiffer' /\ AccountsFit' /\ ProvisioningIsSound'
    BY <2>1 DEF ScimInv, PendingDiffer, Pends, Differ, AccountsFit, ProvisioningIsSound, NoTakeover,
                OneEach, ColumnsAreLast, GoneUnlessRaced, Exists
  <2> QED BY <2>1, <2>2, <2>3 DEF ScimInv
<1> QED BY <1>1, <1>2

(* The SCIM endpoints and users.rs side by side: SCIM keeps to the accounts it provisioned, *)
(* names and subjects stay unique, no column is lost, and a deletion lasts unless a request  *)
(* of the named kinds has overtaken it.                                      *)
THEOREM AccountsAreSound == ScimSpec => []ProvisioningIsSound
<1> QED BY InitScimInv, ScimInvIsKept, PTL DEF ScimSpec, ScimInv

-----------------------------------------------------------------------------
(* Paths *)

Paths == Seq(Codes)
MovedTo(new, old, path) == new \o SubSeq(path, Len(old) + 1, Len(path))

(* A path is below another that it continues, label by label.                 *)
LEMMA UnderMeans ==
  ASSUME NEW path \in Paths, NEW top \in Paths
  PROVE  Under(path, top) <=>
           Len(top) <= Len(path) /\ \A i \in 1..Len(top) : path[i] = top[i]
<1>1. Len(top) \in Nat /\ Len(path) \in Nat
  BY LenProperties DEF Paths
<1>2. CASE Len(top) <= Len(path)
  <2>1. \A i \in 1..Len(top) : top[i] \in Codes /\ path[i] \in Codes
    BY <1>1, <1>2, ElementOfSeq DEF Paths
  <2>2. /\ SubSeq(top, 1, Len(top)) = top
        /\ SubSeq(path, 1, Len(top)) \in Seq(Codes)
        /\ Len(SubSeq(path, 1, Len(top))) = Len(top)
        /\ \A i \in 1..Len(top) : SubSeq(path, 1, Len(top))[i] = path[i]
    <3>1. SubSeq(top, 1, Len(top)) = top
      BY SubSeqFull DEF Paths
    <3>2. /\ SubSeq(path, 1, Len(top)) \in Seq(Codes)
          /\ Len(SubSeq(path, 1, Len(top))) = IF 1 <= Len(top) THEN Len(top) - 1 + 1 ELSE 0
          /\ \A i \in 1..Len(top) - 1 + 1 : SubSeq(path, 1, Len(top))[i] = path[1 + i - 1]
      BY <1>1, <2>1, SubSeqProperties
    <3> QED BY <1>1, <3>1, <3>2
  <2>3. top = SubSeq(path, 1, Len(top)) <=> \A i \in 1..Len(top) : top[i] = SubSeq(path, 1, Len(top))[i]
    BY <1>1, <2>2, SeqEqual DEF Paths
  <2> QED BY <1>2, <2>2, <2>3 DEF Under, IsPrefix
<1>3. CASE ~(Len(top) <= Len(path))
  BY <1>3 DEF Under, IsPrefix
<1> QED BY <1>2, <1>3

(* "Below" is an order, and the paths above one path are in a line.          *)
LEMMA UnderOrder ==
  ASSUME NEW a \in Paths, NEW b \in Paths, NEW c \in Paths
  PROVE  /\ Under(a, a)
         /\ Under(a, b) /\ Under(b, c) => Under(a, c)
         /\ Under(a, b) /\ Len(a) = Len(b) => a = b
         /\ Under(a, b) /\ Under(a, c) /\ Len(b) = Len(c) => b = c
         /\ Under(a, b) /\ Under(a, c) /\ Len(c) <= Len(b) => Under(b, c)
<1>1. Len(a) \in Nat /\ Len(b) \in Nat /\ Len(c) \in Nat
  BY LenProperties DEF Paths
<1>2. Under(a, a)
  BY <1>1, UnderMeans
<1>3. Under(a, b) /\ Under(b, c) => Under(a, c)
  BY <1>1, UnderMeans
<1>4. Under(a, b) /\ Len(a) = Len(b) => a = b
  BY <1>1, UnderMeans, SeqEqual DEF Paths
<1>5. Under(a, b) /\ Under(a, c) /\ Len(b) = Len(c) => b = c
  BY <1>1, UnderMeans, SeqEqual DEF Paths
<1>6. Under(a, b) /\ Under(a, c) /\ Len(c) <= Len(b) => Under(b, c)
  BY <1>1, UnderMeans
<1> QED BY <1>2, <1>3, <1>4, <1>5, <1>6

(* A path with one label more: what is above it is what was above, or itself.*)
LEMMA AppendFacts ==
  ASSUME NEW a \in Paths, NEW c \in Codes
  PROVE  /\ Append(a, c) \in Paths /\ Append(a, c) # <<>>
         /\ Len(a) \in Nat /\ Len(Append(a, c)) = Len(a) + 1
         /\ Append(a, c)[Len(a) + 1] = c
         /\ Under(Append(a, c), a) /\ ~Under(a, Append(a, c))
         /\ \A top \in Paths : Under(Append(a, c), top) <=> Under(a, top) \/ top = Append(a, c)
<1> DEFINE b == Append(a, c)
<1>1. /\ b \in Paths /\ b # <<>>
      /\ Len(b) = Len(a) + 1
      /\ \A i \in 1..Len(a) : b[i] = a[i]
      /\ b[Len(a) + 1] = c
  BY AppendProperties DEF Paths, b
<1>2. Len(a) \in Nat
  BY LenProperties DEF Paths
<1> HIDE DEF b
<1>3. Under(b, a) /\ ~Under(a, b)
  <2>1. Under(b, a) <=> Len(a) <= Len(b) /\ \A i \in 1..Len(a) : b[i] = a[i]
    BY <1>1, UnderMeans
  <2>2. Under(a, b) => Len(b) <= Len(a)
    BY <1>1, UnderMeans
  <2> QED BY <1>1, <1>2, <2>1, <2>2
<1>4. ASSUME NEW top \in Paths
      PROVE  Under(b, top) <=> Under(a, top) \/ top = b
  <2>1. Len(top) \in Nat
    BY LenProperties DEF Paths
  <2>2. CASE Len(top) <= Len(a)
    <3>1. Under(b, top) <=> Len(top) <= Len(b) /\ \A i \in 1..Len(top) : b[i] = top[i]
      BY <1>1, UnderMeans
    <3>2. Under(a, top) <=> Len(top) <= Len(a) /\ \A i \in 1..Len(top) : a[i] = top[i]
      BY UnderMeans
    <3>3. top # b
      BY <1>1, <1>2, <2>2
    <3> QED BY <1>1, <1>2, <2>1, <2>2, <3>1, <3>2, <3>3
  <2>3. CASE Len(top) > Len(a)
    <3>1. ~Under(a, top)
      BY <1>2, <2>1, <2>3, UnderMeans
    <3>2. Under(b, top) => Len(b) = Len(top)
      <4>1. Under(b, top) => Len(top) <= Len(b)
        BY <1>1, UnderMeans
      <4> QED BY <1>1, <1>2, <2>1, <2>3, <4>1
    <3> QED BY <1>1, <3>1, <3>2, UnderOrder
  <2> QED BY <1>2, <2>1, <2>2, <2>3
<1> QED BY <1>1, <1>2, <1>3, <1>4 DEF b

(* A path of one label.                                                     *)
LEMMA RootFacts ==
  ASSUME NEW c \in Codes
  PROVE  /\ <<c>> \in Paths /\ <<c>> # <<>> /\ Len(<<c>>) = 1 /\ <<c>>[1] = c
         /\ \A top \in Paths : top # <<>> /\ Under(<<c>>, top) => top = <<c>>
<1>1. <<c>> \in Paths /\ <<c>> # <<>> /\ Len(<<c>>) = 1 /\ <<c>>[1] = c
  BY DEF Paths
<1>2. ASSUME NEW top \in Paths, top # <<>>, Under(<<c>>, top) PROVE top = <<c>>
  <2>1. Len(top) \in Nat /\ Len(top) # 0
    BY <1>2, LenProperties, EmptySeq DEF Paths
  <2>2. Len(top) <= 1
    BY <1>1, <1>2, UnderMeans
  <2>3. Len(<<c>>) = Len(top)
    BY <1>1, <2>1, <2>2
  <2> QED BY <1>1, <1>2, <2>3, UnderOrder
<1> QED BY <1>1, <1>2

(* A path below old, moved with it to new.                                      *)
Moved(new, old, path, p) ==
  /\ p \in Paths
  /\ Len(new) \in Nat /\ Len(old) \in Nat /\ Len(path) \in Nat /\ Len(old) <= Len(path)
  /\ Len(p) = Len(new) + (Len(path) - Len(old))
  /\ \A i \in 1..Len(new) : p[i] = new[i]
  /\ \A i \in Len(old) + 1..Len(path) : p[Len(new) + (i - Len(old))] = path[i]

(* MovedTo moves it so.                                                          *)
LEMMA MovedIs ==
  ASSUME NEW new \in Paths, NEW old \in Paths, NEW path \in Paths, Under(path, old)
  PROVE  /\ Moved(new, old, path, MovedTo(new, old, path))
         /\ Under(MovedTo(new, old, path), new)
         /\ new # <<>> => MovedTo(new, old, path) # <<>>
<1> DEFINE rest == SubSeq(path, Len(old) + 1, Len(path))
<1>1. Len(new) \in Nat /\ Len(old) \in Nat /\ Len(path) \in Nat /\ Len(old) <= Len(path)
  BY LenProperties, UnderMeans DEF Paths
<1>2. \A i \in Len(old) + 1..Len(path) : path[i] \in Codes
  BY <1>1, ElementOfSeq DEF Paths
<1>3. /\ rest \in Seq(Codes) /\ Len(rest) = Len(path) - Len(old)
      /\ \A j \in 1..Len(path) - Len(old) : rest[j] = path[Len(old) + j]
  <2>1. /\ rest \in Seq(Codes)
        /\ Len(rest) = IF Len(old) + 1 <= Len(path) THEN Len(path) - (Len(old) + 1) + 1 ELSE 0
        /\ \A j \in 1..Len(path) - (Len(old) + 1) + 1 : rest[j] = path[(Len(old) + 1) + j - 1]
    BY <1>1, <1>2, SubSeqProperties
  <2> HIDE DEF rest
  <2> QED BY <1>1, <2>1
<1> HIDE DEF rest
<1>4. /\ new \o rest \in Seq(Codes) /\ Len(new \o rest) = Len(new) + Len(rest)
      /\ \A i \in 1..Len(new) + Len(rest) :
           (new \o rest)[i] = IF i <= Len(new) THEN new[i] ELSE rest[i - Len(new)]
  BY <1>3, ConcatProperties DEF Paths
<1> DEFINE moved == new \o rest
<1>5. /\ moved \in Paths /\ Len(moved) = Len(new) + Len(rest)
      /\ \A i \in 1..Len(new) + Len(rest) :
           moved[i] = IF i <= Len(new) THEN new[i] ELSE rest[i - Len(new)]
      /\ MovedTo(new, old, path) = moved
  BY <1>4 DEF MovedTo, rest, Paths
<1> HIDE DEF moved
<1>6. ASSUME NEW i \in 1..Len(new) PROVE moved[i] = new[i]
  <2>1. i \in 1..Len(new) + Len(rest) /\ i <= Len(new)
    BY <1>1, <1>3
  <2> QED BY <1>5, <2>1
<1>7. ASSUME NEW i \in Len(old) + 1..Len(path)
      PROVE  moved[Len(new) + (i - Len(old))] = path[i]
  <2> DEFINE j == i - Len(old)
             k == Len(new) + j
  <2>1. j \in 1..Len(path) - Len(old) /\ Len(old) + j = i
    BY <1>1
  <2>2. k \in 1..Len(new) + Len(rest) /\ k > Len(new) /\ k - Len(new) = j
    BY <1>1, <1>3, <2>1
  <2>3. moved[k] = rest[k - Len(new)] /\ rest[j] = path[Len(old) + j]
    <3> HIDE DEF j, k
    <3> QED BY <1>1, <1>3, <1>5, <2>1, <2>2
  <2> QED BY <2>1, <2>2, <2>3
<1>8. Under(moved, new)
  <2>1. Under(moved, new) <=> Len(new) <= Len(moved) /\ \A i \in 1..Len(new) : moved[i] = new[i]
    BY <1>5, UnderMeans
  <2> QED BY <1>1, <1>3, <1>5, <1>6, <2>1
<1>9. new # <<>> => moved # <<>>
  <2>1. Len(moved) = 0 => Len(new) = 0
    BY <1>1, <1>3, <1>5
  <2> QED BY <1>5, <2>1, EmptySeq DEF Paths
<1>10. Moved(new, old, path, moved)
  <2>1. Len(moved) = Len(new) + (Len(path) - Len(old))
    BY <1>3, <1>5
  <2> QED BY <1>1, <1>5, <1>6, <1>7, <2>1 DEF Moved
<1> QED BY <1>5, <1>8, <1>9, <1>10

(* What a move makes of the paths below.                                      *)
LEMMA MovedFacts ==
  ASSUME NEW new \in Paths, NEW old \in Paths, NEW path \in Paths, Under(path, old)
  PROVE  /\ MovedTo(new, old, path) \in Paths
         /\ Len(new) \in Nat /\ Len(old) \in Nat /\ Len(path) \in Nat /\ Len(old) <= Len(path)
         /\ Len(MovedTo(new, old, path)) = Len(new) + (Len(path) - Len(old))
         /\ \A i \in 1..Len(new) : MovedTo(new, old, path)[i] = new[i]
         /\ \A i \in Len(old) + 1..Len(path) :
              MovedTo(new, old, path)[Len(new) + (i - Len(old))] = path[i]
         /\ Under(MovedTo(new, old, path), new)
         /\ new # <<>> => MovedTo(new, old, path) # <<>>
BY MovedIs, Zenon DEF Moved

(* To move a path is to move the one above it and to add its own label.      *)
LEMMA MovedAppend ==
  ASSUME NEW new \in Paths, NEW old \in Paths, NEW path \in Paths, NEW c \in Codes, Under(path, old)
  PROVE  /\ MovedTo(new, old, old) = new
         /\ MovedTo(new, old, Append(path, c)) = Append(MovedTo(new, old, path), c)
<1>1. MovedTo(new, old, old) = new
  <2>1. Under(old, old)
    BY UnderOrder
  <2>2. /\ Len(MovedTo(new, old, old)) = Len(new) + (Len(old) - Len(old))
        /\ Len(new) \in Nat /\ Len(old) \in Nat
        /\ Under(MovedTo(new, old, old), new) /\ MovedTo(new, old, old) \in Paths
    BY <2>1, MovedFacts
  <2>3. Len(MovedTo(new, old, old)) = Len(new)
    BY <2>2
  <2> QED BY <2>2, <2>3, UnderOrder
<1> DEFINE longer == Append(path, c)
           p == MovedTo(new, old, path)
           q == MovedTo(new, old, longer)
<1>2. /\ longer \in Paths /\ Len(longer) = Len(path) + 1 /\ longer[Len(path) + 1] = c
      /\ \A i \in 1..Len(path) : longer[i] = path[i]
      /\ Under(longer, old)
  <2>1. path \in Seq(Codes)
    BY DEF Paths
  <2>2. \A i \in 1..Len(path) : longer[i] = path[i]
    BY <2>1, AppendProperties
  <2>3. longer \in Paths /\ Len(longer) = Len(path) + 1 /\ longer[Len(path) + 1] = c /\ Under(longer, path)
    BY AppendFacts
  <2> HIDE DEF longer
  <2>4. Under(longer, old)
    BY <2>3, UnderOrder
  <2> QED BY <2>2, <2>3, <2>4
<1> HIDE DEF longer
<1>3. /\ p \in Paths /\ Len(p) = Len(new) + (Len(path) - Len(old))
      /\ \A i \in 1..Len(new) : p[i] = new[i]
      /\ \A i \in Len(old) + 1..Len(path) : p[Len(new) + (i - Len(old))] = path[i]
      /\ Len(new) \in Nat /\ Len(old) \in Nat /\ Len(path) \in Nat /\ Len(old) <= Len(path)
  <2>1. Moved(new, old, path, MovedTo(new, old, path))
    BY MovedIs
  <2> QED BY <2>1, Zenon DEF Moved
<1>4. /\ q \in Paths /\ Len(q) = Len(new) + (Len(longer) - Len(old))
      /\ \A i \in 1..Len(new) : q[i] = new[i]
      /\ \A i \in Len(old) + 1..Len(longer) : q[Len(new) + (i - Len(old))] = longer[i]
  <2>1. Moved(new, old, longer, MovedTo(new, old, longer))
    BY <1>2, MovedIs
  <2> QED BY <2>1, Zenon DEF Moved
<1> HIDE DEF p, q
<1>5. /\ Append(p, c) \in Paths /\ Len(Append(p, c)) = Len(p) + 1
      /\ \A i \in 1..Len(p) : Append(p, c)[i] = p[i]
      /\ Append(p, c)[Len(p) + 1] = c
  BY <1>3, AppendProperties DEF Paths
<1>6. Len(q) = Len(Append(p, c))
  BY <1>2, <1>3, <1>4, <1>5
<1>7. ASSUME NEW i \in 1..Len(q) PROVE q[i] = Append(p, c)[i]
  <2>1. CASE i <= Len(new)
    BY <1>2, <1>3, <1>4, <1>5, <2>1
  <2>2. CASE i > Len(new) /\ i <= Len(p)
    <3>1. i = Len(new) + ((i - Len(new) + Len(old)) - Len(old))
          /\ i - Len(new) + Len(old) \in Len(old) + 1..Len(path)
          /\ i - Len(new) + Len(old) \in Len(old) + 1..Len(longer)
      BY <1>2, <1>3, <1>4, <2>2
    <3> DEFINE j == i - Len(new) + Len(old)
    <3>2. j \in Len(old) + 1..Len(path) /\ j \in Len(old) + 1..Len(longer) /\ i = Len(new) + (j - Len(old))
      BY <3>1
    <3>3. j \in 1..Len(path)
      BY <1>3, <3>2
    <3> HIDE DEF j
    <3>4. q[i] = longer[j] /\ p[i] = path[j] /\ longer[j] = path[j]
      BY <1>2, <1>3, <1>4, <3>2, <3>3
    <3>5. i \in 1..Len(p)
      BY <1>3, <1>4, <2>2
    <3> QED BY <1>5, <3>4, <3>5
  <2>3. CASE i = Len(p) + 1
    <3>1. Len(longer) \in Len(old) + 1..Len(longer) /\ Len(new) + (Len(longer) - Len(old)) = i
      BY <1>2, <1>3, <2>3
    <3> QED BY <1>2, <1>4, <1>5, <2>3, <3>1
  <2> QED BY <1>2, <1>3, <1>4, <2>1, <2>2, <2>3
<1>8. q = Append(p, c)
  BY <1>4, <1>5, <1>6, <1>7, SeqEqual DEF Paths
<1> QED BY <1>1, <1>8 DEF longer, p, q

(* A moved path is below another one only if the new place is, or if a label of   *)
(* the subtree is the last of that path.                                      *)
LEMMA MovedUnder ==
  ASSUME NEW new \in Paths, NEW old \in Paths, NEW path \in Paths, NEW top \in Paths,
         Under(path, old), Under(MovedTo(new, old, path), top), ~Under(new, top)
  PROVE  \E k \in Len(old) + 1..Len(path) : k \in 1..Len(path) /\ top[Len(top)] = path[k]
<1> DEFINE p == MovedTo(new, old, path)
<1>1. /\ p \in Paths /\ Len(p) = Len(new) + (Len(path) - Len(old))
      /\ \A i \in 1..Len(new) : p[i] = new[i]
      /\ \A i \in Len(old) + 1..Len(path) : p[Len(new) + (i - Len(old))] = path[i]
      /\ Len(new) \in Nat /\ Len(old) \in Nat /\ Len(path) \in Nat /\ Len(old) <= Len(path)
  <2>1. Moved(new, old, path, MovedTo(new, old, path))
    BY MovedIs
  <2> QED BY <2>1, Zenon DEF Moved
<1> HIDE DEF p
<1>2. /\ Len(top) \in Nat /\ Len(top) <= Len(p)
      /\ \A i \in 1..Len(top) : p[i] = top[i]
  BY <1>1, UnderMeans, LenProperties DEF Paths, p
<1>3. Len(top) > Len(new)
  BY <1>1, <1>2, UnderMeans
<1> DEFINE k == Len(top) - Len(new) + Len(old)
<1>4. k \in Len(old) + 1..Len(path) /\ k \in 1..Len(path) /\ Len(new) + (k - Len(old)) = Len(top)
  BY <1>1, <1>2, <1>3
<1> HIDE DEF k
<1>5. p[Len(top)] = path[k] /\ p[Len(top)] = top[Len(top)]
  BY <1>1, <1>2, <1>3, <1>4
<1> QED BY <1>4, <1>5

-----------------------------------------------------------------------------
(* Shapes *)

TreeSteps == {"idle", "insert", "repath", "delete", "pass", "done"}
FileRow == Codes \X (Codes \cup {""})
RowSets == UNION {[S -> Row] : S \in SUBSET Nodes}
CodeMaps == UNION {[S -> Nodes] : S \in SUBSET Codes}
Transaction ==
  [step : TreeSteps, site : AllSites, node : Nodes \cup {NoParent}, parent : Nodes \cup {NoParent},
   code : Codes \cup {""}, old : Paths, todo : SUBSET Nodes, rows : RowSets,
   file : Seq(FileRow), still : Seq(FileRow), known : CodeMaps, before : Nat]

TreeTyped ==
  /\ forest \in {"org", "space"}
  /\ node \in [Nodes -> Row] /\ work \in [TreeTasks -> Transaction]
  /\ asked \in 0..MaxAsked /\ stray \in SUBSET AllSites

(* What a set of rows that a transaction has written is.                     *)
LEMMA RowSetFacts ==
  ASSUME NEW r \in RowSets
  PROVE  DOMAIN r \subseteq Nodes /\ \A x \in DOMAIN r : r[x] \in Row
BY DEF RowSets

(* With adds a row to it and leaves the others.                              *)
LEMMA WithFacts ==
  ASSUME NEW r \in RowSets, NEW n \in Nodes, NEW new \in Row
  PROVE  /\ With(r, n, new) \in RowSets
         /\ DOMAIN With(r, n, new) = DOMAIN r \cup {n}
         /\ With(r, n, new)[n] = new
         /\ \A x \in DOMAIN r \ {n} : With(r, n, new)[x] = r[x]
<1>1. DOMAIN r \subseteq Nodes /\ \A x \in DOMAIN r : r[x] \in Row
  BY RowSetFacts
<1>2. With(r, n, new) \in [DOMAIN r \cup {n} -> Row]
  BY <1>1 DEF With
<1>3. DOMAIN r \cup {n} \in SUBSET Nodes
  BY <1>1
<1> QED BY <1>2, <1>3 DEF With, RowSets

(* The set of one row.                                                       *)
LEMMA OneRowFacts ==
  ASSUME NEW n \in Nodes, NEW new \in Row
  PROVE  With(<<>>, n, new) \in RowSets /\ DOMAIN With(<<>>, n, new) = {n} /\ With(<<>>, n, new)[n] = new
<1>1. With(<<>>, n, new) = [m \in {n} |-> new]
  BY DEF With
<1>2. [m \in {n} |-> new] \in [{n} -> Row] /\ {n} \in SUBSET Nodes
  OBVIOUS
<1> QED BY <1>1, <1>2 DEF RowSets

(* The empty value of each collection.                                       *)
LEMMA NothingFacts ==
  /\ <<>> \in RowSets /\ <<>> \in CodeMaps /\ DOMAIN <<>> = {}
  /\ <<>> \in Seq(FileRow) /\ <<>> \in Paths
<1>1. <<>> \in [{} -> Row] /\ <<>> \in [{} -> Nodes]
  OBVIOUS
<1>2. {} \in SUBSET Nodes /\ {} \in SUBSET Codes
  OBVIOUS
<1>3. <<>> \in RowSets /\ <<>> \in CodeMaps
  BY <1>1, <1>2 DEF RowSets, CodeMaps
<1> QED BY <1>3 DEF Paths

(* What the map of known codes is, and that With adds a code to it.          *)
LEMMA MapFacts ==
  ASSUME NEW k \in CodeMaps
  PROVE  /\ DOMAIN k \subseteq Codes /\ \A c \in DOMAIN k : k[c] \in Nodes
         /\ \A c \in Codes, n \in Nodes :
              /\ With(k, c, n) \in CodeMaps /\ DOMAIN With(k, c, n) = DOMAIN k \cup {c}
              /\ With(k, c, n)[c] = n
              /\ \A d \in DOMAIN k \ {c} : With(k, c, n)[d] = k[d]
<1>1. DOMAIN k \subseteq Codes /\ \A c \in DOMAIN k : k[c] \in Nodes
  BY DEF CodeMaps
<1>2. ASSUME NEW c \in Codes, NEW n \in Nodes
      PROVE  /\ With(k, c, n) \in CodeMaps /\ DOMAIN With(k, c, n) = DOMAIN k \cup {c}
             /\ With(k, c, n)[c] = n
             /\ \A d \in DOMAIN k \ {c} : With(k, c, n)[d] = k[d]
  <2>1. With(k, c, n) \in [DOMAIN k \cup {c} -> Nodes]
    BY <1>1 DEF With
  <2>2. DOMAIN k \cup {c} \in SUBSET Codes
    BY <1>1
  <2> QED BY <2>1, <2>2 DEF With, CodeMaps
<1> QED BY <1>1, <1>2

(* A task that does nothing has nothing.                                     *)
LEMMA NoWorkFacts ==
  /\ NoWork \in Transaction
  /\ NoWork.step = "idle" /\ NoWork.node = NoParent /\ NoWork.todo = {} /\ NoWork.rows = <<>>
  /\ NoWork.file = <<>> /\ NoWork.still = <<>>
<1>1. Tenant \in AllSites
  BY DEF AllSites
<1> QED
  BY <1>1, NothingFacts DEF Transaction, NoWork, TreeSteps

(* An id for a new row is one that nothing uses yet.                            *)
LEMMA NextIdIsFresh ==
  ASSUME Fresh # {}
  PROVE  NextId \in Fresh
<1>1. Fresh \subseteq Nat
  BY TreeAssumption DEF Fresh
<1>2. PICK n \in Fresh : \A m \in Fresh : <<m, n>> \notin OpToRel(<, Nat)
  <2> HIDE DEF OpToRel
  <2> QED BY <1>1, NatLessThanWellFounded, WFMin
<1>3. \A m \in Fresh : ~(m < n)
  BY <1>1, <1>2 DEF OpToRel
<1>4. \A m \in Fresh : n <= m
  BY <1>1, <1>3
<1> QED BY <1>4 DEF NextId

-----------------------------------------------------------------------------
(* What transactions hold *)

IsARow(n) == node[n] # NoRow
RowOf(s, n) == IsARow(n) /\ node[n].site = s
LiveIn(s, n) == Live(n) /\ node[n].site = s
Held(t) == DOMAIN work[t].rows
NewRows(t) == {x \in Held(t) : ~IsARow(x)}
Real(row) == row.state \in {"live", "deleted"} /\ row.code \in Codes /\ row.path # <<>>

(* A transaction of a PATCH has its own row and, in their new places, rows that    *)
(* were below it; one that leaves the path of its row has no other.               *)
Moves(w) ==
  LET n == w.node
      new == w.rows[n] IN
  /\ n \in DOMAIN w.rows /\ Live(n) /\ node[n].path = w.old
  /\ new.state = "live" /\ new.site = w.site /\ new.parent # n /\ n \notin w.todo
  /\ new.path = w.old => DOMAIN w.rows = {n} /\ w.todo = {}
  /\ \A m \in DOMAIN w.rows \cup w.todo : RowOf(w.site, m)
  /\ \A m \in DOMAIN w.rows \ {n} :
       /\ Under(node[m].path, w.old) /\ node[m].path # w.old
       /\ w.rows[m] = [node[m] EXCEPT !.path = MovedTo(new.path, w.old, node[m].path)]

(* The others have only new rows.  An import knows rows of the tree and its own;   *)
(* it leaves fewer rows than it began with, unless none can be made.              *)
NewOnly(w) ==
  /\ w.todo = {}
  /\ \A x \in DOMAIN w.rows : ~IsARow(x) /\ w.rows[x].state = "live" /\ w.rows[x].site = w.site
NoneKnown(w) == \A i \in 1..Len(w.still) : w.still[i][2] \notin DOMAIN w.known
Imports(w) ==
  /\ w.node = NoParent
  /\ \A c \in DOMAIN w.known : RowOf(w.site, w.known[c]) \/ w.known[c] \in DOMAIN w.rows
  /\ IF w.step = "done" THEN NoneKnown(w)
     ELSE /\ Len(w.still) + Len(w.file) <= w.before
          /\ Len(w.still) + Len(w.file) = w.before => NoneKnown(w)
Fits(w) ==
  /\ w.step = "idle" => w = NoWork
  /\ IF w.step = "repath" THEN Moves(w) ELSE NewOnly(w)
  /\ w.step = "insert" => w.code \in Codes /\ (w.parent # NoParent => RowOf(w.site, w.parent))
  /\ w.step = "delete" => w.rows = <<>> /\ w.node \in Nodes /\ RowOf(w.site, w.node)
  /\ w.step \in {"pass", "done"} => Imports(w)

RowsAreReal ==
  /\ \A n \in Nodes : IsARow(n) => Real(node[n])
  /\ \A t \in TreeTasks : \A x \in Held(t) : Real(work[t].rows[x])
HoldersDiffer == \A t, u \in TreeTasks : t # u => Held(t) \cap Held(u) = {}
Key(row) == <<row.site, row.code>>
CodesDiffer ==
  /\ \A m, n \in Nodes : Live(m) /\ Live(n) /\ Key(node[m]) = Key(node[n]) => m = n
  /\ \A t \in TreeTasks : \A x \in NewRows(t) :
       /\ \A n \in Nodes : Live(n) => Key(node[n]) # Key(work[t].rows[x])
       /\ \A u \in TreeTasks : \A y \in NewRows(u) :
            Key(work[u].rows[y]) = Key(work[t].rows[x]) => y = x
TasksAreSound ==
  /\ TreeTyped /\ RowsAreReal /\ HoldersDiffer /\ CodesDiffer
  /\ \A t \in TreeTasks : Fits(work[t])

(* What a transaction may have, and what it may commit.                          *)
FreeOf(t, x) == \A u \in TreeTasks \ {t} : x \notin Held(u)
NewCode(t, key) ==
  /\ \A n \in Nodes : Live(n) => Key(node[n]) # key
  /\ \A u \in TreeTasks \ {t} : \A y \in NewRows(u) : Key(work[u].rows[y]) # key
MayHave(t, w) ==
  /\ \A x \in DOMAIN w.rows : Real(w.rows[x]) /\ FreeOf(t, x)
  /\ \A x \in DOMAIN w.rows : ~IsARow(x) =>
       /\ NewCode(t, Key(w.rows[x]))
       /\ \A y \in DOMAIN w.rows : ~IsARow(y) /\ Key(w.rows[y]) = Key(w.rows[x]) => y = x

(* A step that writes only in its own transaction keeps what the tasks hold, *)
(* if what the transaction then has is its own and fits.                     *)
LEMMA WorkKeeps ==
  ASSUME TasksAreSound, NEW t \in TreeTasks, NEW w \in Transaction,
         forest' = forest, node' = node, work' = [work EXCEPT ![t] = w],
         asked' \in 0..MaxAsked, stray' \in SUBSET AllSites, MayHave(t, w), Fits(w)
  PROVE  TasksAreSound'
<1>1. /\ work' \in [TreeTasks -> Transaction] /\ work'[t] = w
      /\ \A u \in TreeTasks \ {t} : work'[u] = work[u]
  BY DEF TasksAreSound, TreeTyped
<1>2. TreeTyped'
  BY <1>1 DEF TasksAreSound, TreeTyped
<1>3. RowsAreReal'
  BY <1>1 DEF TasksAreSound, RowsAreReal, Real, IsARow, Held, MayHave
<1>4. HoldersDiffer'
  BY <1>1 DEF TasksAreSound, HoldersDiffer, Held, MayHave, FreeOf
<1>5. CodesDiffer'
  <2>1. \A m, n \in Nodes : Live(m)' /\ Live(n)' /\ Key(node'[m]) = Key(node'[n]) => m = n
    BY DEF TasksAreSound, CodesDiffer, Live
  <2>2. ASSUME NEW u \in TreeTasks, NEW x \in NewRows(u)'
        PROVE  \A n \in Nodes : Live(n)' => Key(node'[n]) # Key(work'[u].rows[x])
    BY <1>1, <2>2 DEF TasksAreSound, CodesDiffer, Live, NewRows, Held, IsARow, MayHave, NewCode
  <2>3. ASSUME NEW u \in TreeTasks, NEW x \in NewRows(u)', NEW v \in TreeTasks, NEW y \in NewRows(v)',
               Key(work'[v].rows[y]) = Key(work'[u].rows[x])
        PROVE  y = x
    <3>1. CASE u = t /\ v = t
      BY <1>1, <2>3, <3>1 DEF NewRows, Held, IsARow, MayHave
    <3>2. CASE u = t /\ v # t
      BY <1>1, <2>3, <3>2 DEF NewRows, Held, IsARow, MayHave, NewCode
    <3>3. CASE u # t /\ v = t
      BY <1>1, <2>3, <3>3 DEF NewRows, Held, IsARow, MayHave, NewCode
    <3>4. CASE u # t /\ v # t
      BY <1>1, <2>3, <3>4 DEF TasksAreSound, CodesDiffer, NewRows, Held, IsARow
    <3> QED BY <3>1, <3>2, <3>3, <3>4
  <2> QED BY <2>1, <2>2, <2>3 DEF CodesDiffer
<1>6. ASSUME NEW u \in TreeTasks PROVE Fits(work[u])'
  <2>1. PICK v : v = work'[u]
    OBVIOUS
  <2>2. Fits(v)
    BY <1>1, <2>1 DEF TasksAreSound
  <2>3. Moves(v) <=> Moves(v)'
    BY DEF Moves, RowOf, IsARow, Live
  <2>4. NewOnly(v) <=> NewOnly(v)'
    BY DEF NewOnly, IsARow
  <2>5. Imports(v) <=> Imports(v)'
    BY DEF Imports, NoneKnown, RowOf, IsARow
  <2>6. Fits(v)'
    BY <2>2, <2>3, <2>4, <2>5 DEF Fits, RowOf, IsARow
  <2> QED BY <2>1, <2>6
<1> QED BY <1>2, <1>3, <1>4, <1>5, <1>6 DEF TasksAreSound

(* A transaction still fits when others commit: its rows are as they were, and no   *)
(* row ceases to exist.                                                      *)
LEMMA FitsOn ==
  ASSUME NEW w \in Transaction, Fits(w),
         \A n \in Nodes : IsARow(n) => IsARow(n)' /\ node'[n].site = node[n].site,
         \A x \in DOMAIN w.rows : node'[x] = node[x]
  PROVE  Fits(w)'
<1>1. /\ w.todo \subseteq Nodes /\ \A c \in DOMAIN w.known : w.known[c] \in Nodes
      /\ w.parent # NoParent => w.parent \in Nodes
      /\ DOMAIN w.rows \subseteq Nodes
  BY MapFacts, RowSetFacts DEF Transaction
<1>2. Moves(w) => Moves(w)'
  BY <1>1 DEF Moves, RowOf, IsARow, Live
<1>3. NewOnly(w) => NewOnly(w)'
  BY DEF NewOnly, IsARow
<1>4. Imports(w) => Imports(w)'
  BY <1>1 DEF Imports, NoneKnown, RowOf
<1> QED BY <1>1, <1>2, <1>3, <1>4 DEF Fits, RowOf

(* So does a commit, if no row becomes live under a code that a live row or a*)
(* row of another transaction has.                                           *)
LEMMA CommitKeeps ==
  ASSUME TasksAreSound, NEW t \in TreeTasks, NEW rows \in RowSets, CommitRows(t, rows),
         \A x \in DOMAIN rows : Real(rows[x]) /\ FreeOf(t, x) /\ (IsARow(x) => rows[x].site = node[x].site),
         \A m, n \in Nodes : Live(m)' /\ Live(n)' /\ Key(node'[m]) = Key(node'[n]) => m = n,
         \A x \in DOMAIN rows : rows[x].state = "live" =>
           \A u \in TreeTasks \ {t} : \A y \in NewRows(u) : Key(work[u].rows[y]) # Key(rows[x])
  PROVE  TasksAreSound'
<1>1. /\ work' \in [TreeTasks -> Transaction] /\ work'[t] = NoWork
      /\ \A u \in TreeTasks \ {t} : work'[u] = work[u]
  BY NoWorkFacts DEF TasksAreSound, TreeTyped, CommitRows
<1>2. /\ DOMAIN rows \subseteq Nodes /\ \A x \in DOMAIN rows : rows[x] \in Row /\ node'[x] = rows[x]
      /\ \A n \in Nodes \ DOMAIN rows : node'[n] = node[n]
      /\ node' \in [Nodes -> Row]
  BY RowSetFacts DEF TasksAreSound, TreeTyped, CommitRows
<1>3. TreeTyped'
  BY <1>1, <1>2 DEF TasksAreSound, TreeTyped, CommitRows
<1>4. \A x \in DOMAIN rows : IsARow(x)'
  <2>1. \A x \in DOMAIN rows : rows[x].state # NoRow.state
    BY DEF Real, NoRow
  <2> QED BY <1>2, <2>1 DEF IsARow
<1>5. \A u \in TreeTasks \ {t} : \A x \in Held(u) : x \notin DOMAIN rows /\ x \in Nodes /\ node'[x] = node[x]
  <2>1. \A u \in TreeTasks \ {t} : Held(u) \subseteq Nodes
    BY RowSetFacts DEF TasksAreSound, TreeTyped, Transaction, Held
  <2> QED BY <1>2, <2>1 DEF FreeOf
<1>6. RowsAreReal'
  BY <1>1, <1>2, <1>4, NoWorkFacts, NothingFacts DEF TasksAreSound, RowsAreReal, Real, IsARow, Held
<1>7. HoldersDiffer'
  BY <1>1, NoWorkFacts, NothingFacts DEF TasksAreSound, HoldersDiffer, Held
<1>8. CodesDiffer'
  <2>1. ASSUME NEW u \in TreeTasks, NEW x \in NewRows(u)'
        PROVE  u # t /\ x \in NewRows(u) /\ work'[u] = work[u]
    BY <1>1, <1>5, <2>1, NoWorkFacts, NothingFacts DEF NewRows, Held, IsARow
  <2>2. ASSUME NEW u \in TreeTasks, NEW x \in NewRows(u)', NEW n \in Nodes, Live(n)'
        PROVE  Key(node'[n]) # Key(work'[u].rows[x])
    BY <1>2, <2>1, <2>2 DEF TasksAreSound, CodesDiffer, Live
  <2>3. ASSUME NEW u \in TreeTasks, NEW x \in NewRows(u)', NEW v \in TreeTasks, NEW y \in NewRows(v)',
               Key(work'[v].rows[y]) = Key(work'[u].rows[x])
        PROVE  y = x
    BY <2>1, <2>3 DEF TasksAreSound, CodesDiffer
  <2> QED BY <2>2, <2>3 DEF CodesDiffer
<1>9. ASSUME NEW u \in TreeTasks PROVE Fits(work[u])'
  <2>1. CASE u = t
    BY <1>1, <2>1, NoWorkFacts, NothingFacts DEF Fits, NewOnly
  <2>2. CASE u # t
    <3> DEFINE w == work[u]
    <3>1. Fits(w) /\ w \in Transaction /\ work'[u] = w /\ DOMAIN w.rows = Held(u)
      BY <1>1, <2>2 DEF TasksAreSound, TreeTyped, Held
    <3>2. \A n \in Nodes : IsARow(n) => IsARow(n)' /\ node'[n].site = node[n].site
      BY <1>2, <1>4 DEF IsARow
    <3>3. \A x \in DOMAIN w.rows : node'[x] = node[x] /\ x \in Nodes
      BY <1>5, <2>2, <3>1
    <3>4. /\ w.todo \subseteq Nodes /\ \A c \in DOMAIN w.known : w.known[c] \in Nodes
          /\ w.parent # NoParent => w.parent \in Nodes
      BY <3>1, MapFacts DEF Transaction
    <3>5. Fits(work'[u])
      BY <3>1
    <3> QED BY <1>1, <3>1, <3>2, <3>3, <3>4, FitsOn DEF TasksAreSound, TreeTyped
  <2> QED BY <2>1, <2>2
<1> QED BY <1>3, <1>6, <1>7, <1>8, <1>9 DEF TasksAreSound

(* Facts about one transaction and the rows it sees.                              *)
LEMMA TreeFacts ==
  ASSUME TasksAreSound
  PROVE  /\ \A t \in TreeTasks :
              /\ work[t] \in Transaction /\ Fits(work[t]) /\ Held(t) \subseteq Nodes
              /\ \A x \in Held(t) : work[t].rows[x] \in Row /\ Real(work[t].rows[x])
              /\ \A n \in Nodes : Seen(t, n) = IF n \in Held(t) THEN work[t].rows[n] ELSE node[n]
         /\ \A n \in Nodes :
              /\ node[n] \in Row /\ (IsARow(n) => Real(node[n])) /\ (Live(n) => IsARow(n))
              /\ \A s : LiveIn(s, n) => Live(n) /\ node[n].site = s /\ RowOf(s, n)
              /\ node[n].path \in Paths /\ node[n].parent \in Nodes \cup {NoParent}
         /\ NoParent \notin Nodes
<1>1. \A t \in TreeTasks : work[t] \in Transaction /\ Fits(work[t])
  BY DEF TasksAreSound, TreeTyped
<1>2. \A t \in TreeTasks : Held(t) \subseteq Nodes /\ \A x \in Held(t) : work[t].rows[x] \in Row
  BY <1>1, RowSetFacts DEF Transaction, Held
<1>3. \A n \in Nodes : node[n] \in Row /\ (IsARow(n) => Real(node[n]))
  BY DEF TasksAreSound, TreeTyped, RowsAreReal
<1>4. \A n \in Nodes : Live(n) => IsARow(n)
  <2>1. NoRow.state = "none"
    BY DEF NoRow
  <2> QED BY <2>1 DEF Live, IsARow
<1>5. \A n \in Nodes : \A s : LiveIn(s, n) => Live(n) /\ node[n].site = s /\ RowOf(s, n)
  BY <1>4 DEF LiveIn, RowOf
<1> QED BY <1>1, <1>2, <1>3, <1>4, <1>5, TreeAssumption DEF TasksAreSound, RowsAreReal, Held, Seen, Row, Paths

(* The row that a request writes.                                              *)
LEMMA PathInFacts ==
  ASSUME TasksAreSound, NEW t \in TreeTasks, NEW q \in Nodes \cup {NoParent}, NEW c \in Codes
  PROVE  PathIn(t, q, c) \in Paths /\ PathIn(t, q, c) # <<>>
<1>1. CASE q = NoParent
  BY <1>1, RootFacts DEF PathIn
<1>2. CASE q # NoParent
  <2>1. Seen(t, q) \in Row
    BY <1>2, TreeFacts
  <2> QED BY <1>2, <2>1, AppendFacts DEF PathIn, Row, Paths
<1> QED BY <1>1, <1>2

LiveRow(s, q, c, path) == [state |-> "live", site |-> s, parent |-> q, code |-> c, path |-> path]
NewRow(t, q, c) == LiveRow(work[t].site, q, c, PathIn(t, q, c))

(* A live row as INSERT writes it.                                           *)
LEMMA LiveRowFacts ==
  ASSUME NEW s \in AllSites, NEW q \in Nodes \cup {NoParent}, NEW c \in Codes,
         NEW path \in Paths, path # <<>>
  PROVE  LET row == LiveRow(s, q, c, path) IN
         /\ row \in Row /\ Real(row) /\ row.state = "live" /\ row.site = s
         /\ row.parent = q /\ row.code = c /\ row.path = path
BY DEF LiveRow, Row, Real, Paths

(* The row that a transaction makes under a parent.                          *)
LEMMA NewRowFacts ==
  ASSUME TasksAreSound, NEW t \in TreeTasks, NEW q \in Nodes \cup {NoParent}, NEW c \in Codes
  PROVE  /\ NewRow(t, q, c) \in Row /\ Real(NewRow(t, q, c)) /\ NewRow(t, q, c).state = "live"
         /\ NewRow(t, q, c).parent = q /\ NewRow(t, q, c).code = c
         /\ NewRow(t, q, c).path = PathIn(t, q, c) /\ NewRow(t, q, c).site = work[t].site
<1>1. work[t].site \in AllSites
  BY TreeFacts DEF Transaction
<1>2. PathIn(t, q, c) \in Paths /\ PathIn(t, q, c) # <<>>
  BY PathInFacts
<1>3. PICK site, path : site = work[t].site /\ path = PathIn(t, q, c)
  OBVIOUS
<1>4. site \in AllSites /\ path \in Paths /\ path # <<>> /\ NewRow(t, q, c) = LiveRow(site, q, c, path)
  BY <1>1, <1>2, <1>3 DEF NewRow
<1>5. LET row == LiveRow(site, q, c, path) IN
      /\ row \in Row /\ Real(row) /\ row.state = "live" /\ row.site = site
      /\ row.parent = q /\ row.code = c /\ row.path = path
  BY ONLY <1>4, q \in Nodes \cup {NoParent}, c \in Codes, LiveRowFacts
<1> QED
  BY <1>3, <1>4, <1>5

(* A request is counted, and the history is a set of sites.                        *)
LEMMA AskFacts ==
  ASSUME TasksAreSound, NEW t \in TreeTasks, NEW w, Ask(t, w)
  PROVE  work[t] = NoWork /\ work' = [work EXCEPT ![t] = w] /\ asked' \in 0..MaxAsked
<1>1. asked \in 0..MaxAsked /\ MaxAsked \in Nat /\ work[t] = NoWork /\ asked < MaxAsked
      /\ asked' = asked + 1 /\ work' = [work EXCEPT ![t] = w]
  BY TreeAssumption DEF Ask, TasksAreSound, TreeTyped
<1>2. asked + 1 \in 0..MaxAsked
  BY <1>1
<1> QED BY <1>1, <1>2

(* What Write changes.                                                       *)
LEMMA WriteFacts ==
  ASSUME TasksAreSound, NEW t \in TreeTasks, NEW w, NEW astray \in BOOLEAN, Write(t, w, astray)
  PROVE  /\ work' = [work EXCEPT ![t] = w] /\ forest' = forest /\ node' = node
         /\ asked' \in 0..MaxAsked /\ stray' \in SUBSET AllSites /\ stray' = stray \cup {s \in {work[t].site} : astray}
<1>1. stray \in SUBSET AllSites /\ asked \in 0..MaxAsked /\ work[t].site \in AllSites
  BY TreeFacts DEF Transaction, TasksAreSound, TreeTyped
<1>2. /\ work' = [work EXCEPT ![t] = w] /\ forest' = forest /\ node' = node /\ asked' = asked
      /\ stray' = stray \cup {s \in {work[t].site} : astray}
  BY DEF Write
<1>3. stray' \in SUBSET AllSites
  BY <1>1, <1>2
<1> QED BY <1>1, <1>2, <1>3

(* What a transaction that takes no row and no code away changes nothing.           *)
LEMMA BareKeeps ==
  ASSUME TasksAreSound, NEW t \in TreeTasks, NEW w \in Transaction,
         forest' = forest, node' = node, work' = [work EXCEPT ![t] = w],
         asked' \in 0..MaxAsked, stray' \in SUBSET AllSites,
         w.rows = work[t].rows \/ w.rows = <<>>, Fits(w)
  PROVE  TasksAreSound'
<1>1. MayHave(t, w)
  <2>1. CASE w.rows = <<>>
    BY <2>1, NothingFacts DEF MayHave
  <2>2. CASE w.rows = work[t].rows
    BY <2>2 DEF TasksAreSound, RowsAreReal, HoldersDiffer, CodesDiffer, MayHave, FreeOf, NewCode, Held, NewRows
  <2> QED BY <2>1, <2>2
<1> QED BY <1>1, WorkKeeps

(* A rollback keeps what the tasks hold.                                     *)
LEMMA DropMoveKeeps ==
  ASSUME TasksAreSound, NEW t \in TreeTasks,
         forest' = forest, node' = node, work' = [work EXCEPT ![t] = NoWork],
         asked' \in 0..MaxAsked, stray' \in SUBSET AllSites
  PROVE  TasksAreSound'
<1>1. Fits(NoWork)
  BY NoWorkFacts, NothingFacts DEF Fits, NewOnly
<1> QED BY <1>1, NoWorkFacts, BareKeeps

(* The first statement of a PATCH takes a row that nobody holds, under a code*)
(* that is its own or new.                                                   *)
LEMMA PatchKeepsTasks ==
  ASSUME TasksAreSound, NEW t \in TreeTasks, NEW n \in Nodes, NEW q \in Nodes \cup {NoParent},
         NEW c \in NewCodes \cup {node[n].code}, Patch(t, n, q, c)
  PROVE  TasksAreSound'
<1> DEFINE new == [node[n] EXCEPT !.parent = q, !.code = c, !.path = PathIn(t, q, c)]
           s == node[n].site
           sub == {m \in Nodes \ {n} : /\ node[m] # NoRow /\ node[m].site = s
                                       /\ Under(node[m].path, node[n].path)}
           rows == With(<<>>, n, new)
           todo == IF new.path = node[n].path THEN {} ELSE sub
           w == [NoWork EXCEPT !.step = "repath", !.site = s, !.node = n, !.parent = q, !.old = node[n].path,
                               !.rows = rows, !.todo = todo]
<1>1. /\ Live(n) /\ ~HeldByOther(t, n) /\ Guard(n, q)
      /\ asked' \in 0..MaxAsked /\ work' = [work EXCEPT ![t] = w]
      /\ stray' \in SUBSET AllSites /\ node' = node /\ forest' = forest
  <2>1. Live(n) /\ ~HeldByOther(t, n) /\ Guard(n, q) /\ node' = node /\ forest' = forest
    BY DEF Patch
  <2>2. Ask(t, w)
    BY DEF Patch
  <2>3. stray' \in SUBSET AllSites
    <3>1. s \in AllSites /\ stray \in SUBSET AllSites
      BY TreeFacts DEF Row, TasksAreSound, TreeTyped
    <3> QED BY <3>1 DEF Patch
  <2> QED BY <2>1, <2>2, <2>3, AskFacts
<1>2. /\ node[n] \in Row /\ node[n].path \in Paths /\ IsARow(n) /\ c \in Codes
      /\ s \in AllSites /\ node[n].site = s
  <2>1. node[n] \in Row /\ node[n].path \in Paths /\ IsARow(n) /\ Real(node[n])
    BY <1>1, TreeFacts
  <2>2. c \in Codes
    BY <2>1, TreeAssumption DEF Real
  <2>3. s \in AllSites
    BY <2>1 DEF Row
  <2> QED BY <2>1, <2>2, <2>3
<1>3. PathIn(t, q, c) \in Paths /\ PathIn(t, q, c) # <<>>
  BY <1>2, PathInFacts
<1>4. /\ new \in Row /\ new.state = "live" /\ new.parent = q /\ new.code = c /\ Real(new)
      /\ new.site = s
  BY <1>1, <1>2, <1>3 DEF Row, Real, Live, Paths
<1>5. /\ rows \in RowSets /\ DOMAIN rows = {n} /\ rows[n] = new
  BY <1>4, OneRowFacts
<1>6. /\ todo \in SUBSET Nodes /\ n \notin todo /\ \A m \in todo : RowOf(s, m)
      /\ new.path = node[n].path => todo = {}
  BY DEF RowOf, IsARow
<1> HIDE DEF new, rows, todo, s
<1>7. /\ w \in Transaction /\ w.step = "repath" /\ w.site = s /\ w.node = n /\ w.old = node[n].path
      /\ w.rows = rows /\ w.todo = todo
  BY <1>2, <1>5, <1>6, NoWorkFacts DEF Transaction, TreeSteps
<1> HIDE DEF w
<1>8. Moves(w)
  BY <1>1, <1>2, <1>4, <1>5, <1>6, <1>7 DEF Moves, Guard, RowOf
<1>9. Fits(w)
  BY <1>7, <1>8 DEF Fits
<1>10. MayHave(t, w)
  BY <1>1, <1>2, <1>4, <1>5, <1>7 DEF MayHave, FreeOf, HeldByOther, Held
<1> QED BY <1>1, <1>7, <1>9, <1>10, WorkKeeps

(* The rewrite of one row below it takes a row that nobody else holds and    *)
(* keeps its code.                                                           *)
LEMMA RepathKeepsTasks ==
  ASSUME TasksAreSound, NEW t \in TreeTasks, NEW m \in Nodes, RepathRow(t, m)
  PROVE  TasksAreSound'
<1> DEFINE w == work[t]
           n == w.node
           path == node[m].path
           moved == [node[m] EXCEPT !.path = MovedTo(w.rows[n].path, w.old, path)]
           rows == IF Under(path, w.old) THEN With(w.rows, m, moved) ELSE w.rows
           v == [w EXCEPT !.todo = w.todo \ {m}, !.rows = rows]
<1>1. /\ w.step = "repath" /\ m \in w.todo /\ ~HeldByOther(t, m)
      /\ forest' = forest /\ node' = node /\ asked' \in 0..MaxAsked /\ stray' \in SUBSET AllSites
      /\ IF path = w.old THEN work' = [work EXCEPT ![t] = NoWork] ELSE work' = [work EXCEPT ![t] = v]
  BY DEF RepathRow, Do, Write, TasksAreSound, TreeTyped, MovedTo
<1>2. CASE path = w.old
  BY <1>1, <1>2, DropMoveKeeps
<1>3. CASE path # w.old
  <2>1. w \in Transaction /\ Moves(w) /\ Held(t) = DOMAIN w.rows /\ Held(t) \subseteq Nodes
    BY <1>1, TreeFacts DEF Fits, Held
  <2>2. /\ n \in Held(t) /\ n # m /\ Live(n) /\ node[n].path = w.old /\ w.rows[n].path # w.old
        /\ RowOf(w.site, m) /\ w.rows[n] \in Row /\ Real(w.rows[n]) /\ w.rows \in RowSets
        /\ w.old \in Paths /\ w.todo \subseteq Nodes
    BY <1>1, <2>1, TreeFacts DEF Moves, Transaction, Held, RowOf
  <2>3. /\ node[m] \in Row /\ Real(node[m]) /\ path \in Paths /\ w.rows[n].path \in Paths
    BY <2>2, TreeFacts DEF Row, Paths, RowOf
  <2>4. Under(path, w.old) => moved \in Row /\ Real(moved)
    <3>1. ASSUME Under(path, w.old)
          PROVE  /\ MovedTo(w.rows[n].path, w.old, path) \in Paths
                 /\ MovedTo(w.rows[n].path, w.old, path) # <<>>
      BY <2>2, <2>3, <3>1, MovedFacts DEF Real
    <3> QED BY <2>3, <3>1 DEF Row, Real, Paths
  <2>5. /\ rows \in RowSets /\ DOMAIN w.rows \subseteq DOMAIN rows
        /\ DOMAIN rows \subseteq DOMAIN w.rows \cup {m}
        /\ \A x \in DOMAIN w.rows \ {m} : rows[x] = w.rows[x]
        /\ m \in DOMAIN rows =>
             \/ rows[m] = moved /\ Under(path, w.old)
             \/ rows[m] = w.rows[m] /\ m \in DOMAIN w.rows
    <3>1. CASE Under(path, w.old)
      <4>1. moved \in Row
        BY <2>4, <3>1
      <4> HIDE DEF moved
      <4>2. rows = With(w.rows, m, moved)
        BY <3>1
      <4>3. w.rows \in RowSets
        BY <2>2
      <4> HIDE DEF rows, w
      <4>4. /\ With(w.rows, m, moved) \in RowSets
            /\ DOMAIN With(w.rows, m, moved) = DOMAIN w.rows \cup {m}
            /\ With(w.rows, m, moved)[m] = moved
            /\ \A x \in DOMAIN w.rows \ {m} : With(w.rows, m, moved)[x] = w.rows[x]
        BY <4>1, <4>3, WithFacts
      <4> QED BY <3>1, <4>2, <4>4
    <3>2. CASE ~Under(path, w.old)
      BY <2>2, <3>2
    <3> QED BY <3>1, <3>2
  <2> HIDE DEF rows, moved
  <2>6. /\ v \in Transaction /\ v.step = "repath" /\ v.site = w.site /\ v.node = n /\ v.old = w.old
        /\ v.rows = rows /\ v.todo = w.todo \ {m}
    <3>1. PICK u : u = work[t]
      OBVIOUS
    <3>2. PICK todo : todo = u.todo \ {m}
      OBVIOUS
    <3>3. v = [u EXCEPT !.todo = todo, !.rows = rows]
      BY <3>1, <3>2
    <3>4. u \in Transaction /\ u.step = "repath"
      BY <1>1, <2>1, <3>1
    <3>5. todo \in SUBSET Nodes /\ rows \in RowSets
      BY <2>5, <3>2, <3>4 DEF Transaction
    <3> HIDE DEF v, w, n
    <3>6. v \in Transaction
      BY <3>3, <3>4, <3>5 DEF Transaction
    <3>7. v.step = "repath" /\ v.site = u.site /\ v.node = u.node /\ v.old = u.old /\ v.rows = rows /\ v.todo = todo
      BY <3>3, <3>4 DEF Transaction
    <3> QED BY <3>1, <3>2, <3>6, <3>7 DEF w, n
  <2> HIDE DEF v
  <2>7. rows[n] = w.rows[n] /\ n \in DOMAIN rows
    BY <2>1, <2>2, <2>5
  <2>8. ASSUME NEW x \in DOMAIN rows \ {n}
        PROVE  /\ RowOf(w.site, x) /\ Under(node[x].path, w.old) /\ node[x].path # w.old
               /\ rows[x] = [node[x] EXCEPT !.path = MovedTo(rows[n].path, w.old, node[x].path)]
    <3>1. CASE x # m
      BY <2>1, <2>5, <2>7, <3>1 DEF Moves
    <3>2. CASE x = m /\ rows[m] = w.rows[m] /\ m \in DOMAIN w.rows
      BY <2>1, <2>2, <2>7, <3>2 DEF Moves
    <3>3. CASE x = m /\ rows[m] = moved /\ Under(path, w.old)
      BY <1>3, <2>2, <2>7, <3>3 DEF moved
    <3> QED BY <2>5, <3>1, <3>2, <3>3
  <2>9. Moves(v)
    <3>0. Moves(w)
      BY <2>1, <2>2
    <3>1. Live(n) /\ node[n].path = w.old
      BY <3>0 DEF Moves
    <3>2. /\ rows[n].state = "live" /\ rows[n].parent # n /\ n \notin w.todo
          /\ rows[n].site = w.site /\ \A x \in DOMAIN w.rows \cup w.todo : RowOf(w.site, x)
      BY <2>7, <3>0 DEF Moves
    <3>3. \A x \in DOMAIN rows \cup (w.todo \ {m}) : RowOf(w.site, x)
      <4> TAKE x \in DOMAIN rows \cup (w.todo \ {m})
      <4>1. CASE x \in w.todo
        BY <3>2, <4>1
      <4>2. CASE x = n
        <5>1. n \in DOMAIN w.rows
          BY <2>1, <2>2
        <5> QED BY <3>2, <4>2, <5>1
      <4>3. CASE x \in DOMAIN rows \ {n}
        BY <2>8, <4>3
      <4> QED BY <4>1, <4>2, <4>3
    <3>4. rows[n].path # w.old
      BY <1>1, <1>3, <2>1, <2>2, <2>7, <3>0 DEF Moves
    <3>5. v.site = w.site /\ v.node = n /\ v.rows = rows /\ v.old = w.old /\ v.todo = w.todo \ {m}
      BY <2>6
    <3> QED BY <2>7, <2>8, <3>1, <3>2, <3>3, <3>4, <3>5 DEF Moves
  <2>10. Fits(v)
    BY <2>6, <2>9 DEF Fits
  <2>11. MayHave(t, v)
    <3>1. ASSUME NEW x \in DOMAIN rows PROVE Real(rows[x]) /\ FreeOf(t, x) /\ IsARow(x)
      <4>1. FreeOf(t, x)
        BY <1>1, <2>1, <2>5 DEF FreeOf, HeldByOther, Held, TasksAreSound, HoldersDiffer
      <4>2. IsARow(x)
        BY <2>1, <2>2, <2>8, TreeFacts DEF RowOf
      <4>3. Real(rows[x])
        BY <2>1, <2>4, <2>5, TreeFacts DEF Held
      <4> QED BY <4>1, <4>2, <4>3
    <3> QED BY <2>6, <3>1 DEF MayHave
  <2> QED BY <1>1, <1>3, <2>6, <2>10, <2>11, WorkKeeps
<1> QED BY <1>2, <1>3

(* The end of a PATCH commits rows that exist, each with the code that it has*)
(* or one that nobody has.                                                   *)
LEMMA FinishPatchKeepsTasks ==
  ASSUME TasksAreSound, NEW t \in TreeTasks, FinishPatch(t)
  PROVE  TasksAreSound'
<1> DEFINE w == work[t]
           n == w.node
           c == w.rows[n].code
<1>1. /\ w.step = "repath" /\ ~CodeHeld(t, c)
      /\ \/ Do(t, NoWork)
         \/ ~CodeTaken(t, n, c) /\ CommitRows(t, w.rows)
  BY DEF FinishPatch
<1>2. CASE Do(t, NoWork)
  BY <1>2, DropMoveKeeps DEF Do, Write, TasksAreSound, TreeTyped
<1>3. CASE ~CodeTaken(t, n, c) /\ CommitRows(t, w.rows)
  <2>1. w \in Transaction /\ Moves(w) /\ Held(t) = DOMAIN w.rows /\ Held(t) \subseteq Nodes /\ w.rows \in RowSets
    BY <1>1, TreeFacts DEF Fits, Held, Transaction
  <2>2. /\ n \in Held(t) /\ Live(n) /\ w.rows[n].site = w.site /\ node[n].site = w.site
        /\ \A x \in Held(t) : node[x].site = w.site
    BY <2>1 DEF Moves, RowOf
  <2>3. ASSUME NEW x \in Held(t) \ {n}
        PROVE  /\ w.rows[x].state = node[x].state /\ Key(w.rows[x]) = Key(node[x])
               /\ w.rows[x].site = node[x].site
    <3>1. w.rows[x] = [node[x] EXCEPT !.path = MovedTo(w.rows[n].path, w.old, node[x].path)]
      BY <2>1 DEF Moves
    <3>2. node[x] \in Row
      BY <2>1, TreeFacts
    <3> QED BY <3>1, <3>2 DEF Row, Key
  <2>4. \A x \in Nodes : node'[x] = Seen(t, x)
    BY <1>3, <2>1, TreeFacts DEF CommitRows
  <2>5. \A x \in Nodes \ {n} : node'[x].state = node[x].state /\ Key(node'[x]) = Key(node[x])
    BY <2>1, <2>3, <2>4, TreeFacts
  <2>7. node'[n] = w.rows[n] /\ Key(w.rows[n]) = <<w.site, c>>
    BY <2>1, <2>2, <2>4, TreeFacts DEF Key
  <2>6. \A x \in Nodes \ {n} : node'[x].state = "live" => Key(node'[x]) # Key(node'[n])
    BY <1>3, <2>4, <2>7 DEF CodeTaken, Bears, Key
  <2>8. \A x, y \in Nodes : Live(x)' /\ Live(y)' /\ Key(node'[x]) = Key(node'[y]) => x = y
    BY <2>5, <2>6, <2>7 DEF TasksAreSound, CodesDiffer, Live
  <2>9. ASSUME NEW x \in DOMAIN w.rows, w.rows[x].state = "live",
               NEW u \in TreeTasks \ {t}, NEW y \in NewRows(u)
        PROVE  Key(work[u].rows[y]) # Key(w.rows[x])
    <3>1. CASE x = n
      <4>1. work[u].rows[y].state = "live"
        BY TreeFacts DEF Fits, Moves, RowOf, NewOnly, NewRows, Held
      <4> QED BY <1>1, <2>7, <3>1, <4>1 DEF CodeHeld, Bears, Key, NewRows, Held
    <3>2. CASE x # n
      BY <2>1, <2>3, <2>9, <3>2 DEF TasksAreSound, CodesDiffer, Live
    <3> QED BY <3>1, <3>2
  <2>10. \A x \in DOMAIN w.rows : Real(w.rows[x]) /\ FreeOf(t, x) /\ w.rows[x].site = node[x].site
    BY <2>1, <2>2, <2>3, TreeFacts DEF FreeOf, TasksAreSound, HoldersDiffer
  <2> QED BY <1>3, <2>1, <2>8, <2>9, <2>10, CommitKeeps
<1> QED BY <1>1, <1>2, <1>3

(* A create that has looked at the parent has no row yet.                    *)
LEMMA CheckParentKeepsTasks ==
  ASSUME TasksAreSound, NEW t \in TreeTasks, NEW s \in AllSites, NEW q \in Nodes \cup {NoParent},
         NEW c \in NewCodes, CheckParent(t, s, q, c)
  PROVE  TasksAreSound'
<1> DEFINE w == [NoWork EXCEPT !.step = "insert", !.site = s, !.parent = q, !.code = c]
<1>1. /\ q # NoParent => Live(q) /\ node[q].site = s
      /\ forest' = forest /\ node' = node /\ work' = [work EXCEPT ![t] = w]
      /\ asked' \in 0..MaxAsked /\ stray' \in SUBSET AllSites
  <2>1. (q # NoParent => Live(q) /\ node[q].site = s) /\ forest' = forest /\ node' = node
    BY DEF CheckParent
  <2>2. Ask(t, w)
    BY DEF CheckParent
  <2>3. stray' \in SUBSET AllSites
    BY DEF CheckParent, TasksAreSound, TreeTyped
  <2> QED BY <2>1, <2>2, <2>3, AskFacts
<1>2. /\ w \in Transaction /\ w.step = "insert" /\ w.site = s /\ w.parent = q /\ w.code = c
      /\ w.todo = {} /\ w.rows = <<>>
  BY NoWorkFacts, TreeAssumption DEF Transaction, TreeSteps
<1> HIDE DEF w
<1>3. Fits(w)
  BY <1>1, <1>2, NothingFacts, TreeFacts, TreeAssumption DEF Fits, NewOnly, RowOf
<1> QED BY <1>1, <1>2, <1>3, BareKeeps

(* A new row: its id is free, its code is nobody's.                                *)
LEMMA FreshFacts ==
  ASSUME TasksAreSound, NEW t \in TreeTasks, NEW c \in Codes, Fresh # {}, ~CodeHeld(t, c),
         ~CodeTaken(t, NoParent, c), work[t].step # "repath"
  PROVE  /\ NextId \in Nodes /\ ~IsARow(NextId) /\ \A u \in TreeTasks : NextId \notin Held(u)
         /\ NewCode(t, <<work[t].site, c>>)
         /\ \A y \in NewRows(t) : Key(work[t].rows[y]) # <<work[t].site, c>>
<1>1. NextId \in Nodes /\ ~IsARow(NextId) /\ \A u \in TreeTasks : NextId \notin Held(u)
  BY NextIdIsFresh DEF Fresh, IsARow, Held
<1>2. \A u \in TreeTasks : \A y \in NewRows(u) : y \in Held(u) /\ y \in Nodes /\ work[u].rows[y].state = "live"
  BY TreeFacts DEF Fits, Moves, RowOf, NewOnly, NewRows, Held
<1>3. \A u \in TreeTasks \ {t} : \A y \in NewRows(u) : Key(work[u].rows[y]) # <<work[t].site, c>>
  BY <1>2 DEF CodeHeld, Bears, Key, Held
<1>4. \A m \in Nodes : Seen(t, m).state = "live" => Key(Seen(t, m)) # <<work[t].site, c>>
  BY TreeFacts DEF CodeTaken, Bears, Key
<1>5. \A y \in NewRows(t) : Key(work[t].rows[y]) # <<work[t].site, c>>
  BY <1>2, <1>4, TreeFacts
<1>6. ASSUME NEW m \in Nodes, Live(m) PROVE Key(node[m]) # <<work[t].site, c>>
  <2>1. CASE m \notin Held(t)
    BY <1>4, <1>6, <2>1, TreeFacts DEF Live
  <2>2. CASE m \in Held(t)
    BY <1>6, <2>2, TreeFacts DEF Fits, NewOnly, Held
  <2> QED BY <2>1, <2>2
<1> QED BY <1>1, <1>3, <1>5, <1>6 DEF NewCode

(* The insert of a create takes a fresh id and a code that is free.          *)
LEMMA InsertNodeKeepsTasks ==
  ASSUME TasksAreSound, NEW t \in TreeTasks, InsertNode(t)
  PROVE  TasksAreSound'
<1> DEFINE w == work[t]
           new == NewRow(t, w.parent, w.code)
           rows == With(<<>>, NextId, new)
           v == [w EXCEPT !.node = NextId, !.rows = rows]
<1>1. /\ w.step = "insert" /\ w.rows = <<>> /\ Fresh # {} /\ ~CodeHeld(t, w.code)
      /\ forest' = forest /\ node' = node /\ asked' \in 0..MaxAsked /\ stray' \in SUBSET AllSites
      /\ \/ work' = [work EXCEPT ![t] = NoWork]
         \/ ~CodeTaken(t, NoParent, w.code) /\ work' = [work EXCEPT ![t] = v]
  <2>1. work[t].site \in AllSites /\ stray \in SUBSET AllSites /\ asked \in 0..MaxAsked
    BY TreeFacts DEF Transaction, TasksAreSound, TreeTyped
  <2>2. /\ w.step = "insert" /\ w.rows = <<>> /\ Fresh # {} /\ ~CodeHeld(t, w.code)
        /\ \/ Write(t, NoWork, FALSE)
           \/ /\ ~CodeTaken(t, NoParent, w.code)
              /\ Write(t, [w EXCEPT !.node = NextId, !.rows = rows], Astray(NextId, w.parent))
    BY DEF InsertNode, Do, NewRow, LiveRow
  <2> HIDE DEF w, rows
  <2> QED BY <2>1, <2>2 DEF Write
<1>2. CASE work' = [work EXCEPT ![t] = NoWork]
  BY <1>1, <1>2, DropMoveKeeps
<1>3. CASE ~CodeTaken(t, NoParent, w.code) /\ work' = [work EXCEPT ![t] = v]
  <2>1. /\ w \in Transaction /\ Fits(w) /\ w.code \in Codes /\ w.todo = {}
        /\ w.parent \in Nodes \cup {NoParent} /\ (w.parent # NoParent => RowOf(w.site, w.parent))
    BY <1>1, TreeFacts DEF Fits, NewOnly, Transaction
  <2>2. /\ new \in Row /\ Real(new) /\ new.state = "live" /\ new.code = w.code /\ new.site = w.site
        /\ Key(new) = <<w.site, w.code>>
    BY <2>1, NewRowFacts DEF Key
  <2>3. /\ NextId \in Nodes /\ ~IsARow(NextId) /\ \A u \in TreeTasks : NextId \notin Held(u)
        /\ NewCode(t, <<w.site, w.code>>)
    BY <1>1, <1>3, <2>1, FreshFacts
  <2> HIDE DEF new
  <2>4. rows \in RowSets /\ DOMAIN rows = {NextId} /\ rows[NextId] = new
    BY <2>2, <2>3, OneRowFacts
  <2> HIDE DEF rows
  <2>5. /\ v \in Transaction /\ v.step = "insert" /\ v.site = w.site /\ v.rows = rows /\ v.todo = {}
        /\ v.code = w.code /\ v.parent = w.parent
    BY <1>1, <2>1, <2>3, <2>4 DEF Transaction
  <2> HIDE DEF v
  <2>6. Fits(v)
    BY <2>1, <2>2, <2>3, <2>4, <2>5 DEF Fits, NewOnly
  <2>7. MayHave(t, v)
    BY <2>2, <2>3, <2>4, <2>5 DEF MayHave, FreeOf
  <2> QED BY <1>1, <1>3, <2>5, <2>6, <2>7, WorkKeeps
<1> QED BY <1>1, <1>2, <1>3

(* Rows that are all new may be committed.                                        *)
LEMMA CommitNewKeepsTasks ==
  ASSUME TasksAreSound, NEW t \in TreeTasks, work[t].step # "repath", CommitRows(t, work[t].rows)
  PROVE  TasksAreSound'
<1> DEFINE rows == work[t].rows
<1>1. rows \in RowSets /\ DOMAIN rows = NewRows(t) /\ DOMAIN rows \subseteq Nodes
      /\ \A x \in DOMAIN rows : rows[x].state = "live" /\ Real(rows[x]) /\ FreeOf(t, x)
  BY TreeFacts DEF Fits, NewOnly, NewRows, Held, Transaction, FreeOf, TasksAreSound, HoldersDiffer
<1>2. \A x \in Nodes : node'[x] = IF x \in NewRows(t) THEN rows[x] ELSE node[x]
  BY <1>1 DEF CommitRows
<1>3. ASSUME NEW x \in Nodes, NEW y \in Nodes, Live(x)', Live(y)', Key(node'[x]) = Key(node'[y])
      PROVE  x = y
  <2>1. \/ Live(x) /\ node'[x] = node[x]
        \/ x \in NewRows(t) /\ node'[x] = rows[x]
    BY <1>2, <1>3 DEF Live
  <2>2. \/ Live(y) /\ node'[y] = node[y]
        \/ y \in NewRows(t) /\ node'[y] = rows[y]
    BY <1>2, <1>3 DEF Live
  <2> QED BY <1>3, <2>1, <2>2 DEF TasksAreSound, CodesDiffer
<1>4. ASSUME NEW x \in DOMAIN rows, NEW u \in TreeTasks \ {t}, NEW y \in NewRows(u)
      PROVE  Key(work[u].rows[y]) # Key(rows[x])
  BY <1>1 DEF TasksAreSound, CodesDiffer, FreeOf, NewRows
<1>5. \A x \in DOMAIN rows : ~IsARow(x)
  BY <1>1 DEF NewRows
<1> QED BY <1>1, <1>3, <1>4, <1>5, CommitKeeps

(* A delete that has counted the children has no row yet.                    *)
LEMMA CountChildrenKeepsTasks ==
  ASSUME TasksAreSound, NEW t \in TreeTasks, NEW n \in Nodes, CountChildren(t, n)
  PROVE  TasksAreSound'
<1> DEFINE s == node[n].site
           w == [NoWork EXCEPT !.step = "delete", !.site = s, !.node = n]
<1>1. /\ Live(n) /\ forest' = forest /\ node' = node /\ work' = [work EXCEPT ![t] = w]
      /\ asked' \in 0..MaxAsked /\ stray' \in SUBSET AllSites
  <2>1. Live(n) /\ forest' = forest /\ node' = node
    BY DEF CountChildren
  <2>2. Ask(t, w)
    BY DEF CountChildren
  <2>3. stray' \in SUBSET AllSites
    <3>1. s \in AllSites /\ stray \in SUBSET AllSites
      BY TreeFacts DEF Row, TasksAreSound, TreeTyped
    <3> QED BY <3>1 DEF CountChildren
  <2> QED BY <2>1, <2>2, <2>3, AskFacts
<1>2. /\ w \in Transaction /\ w.step = "delete" /\ w.site = node[n].site /\ w.node = n /\ w.todo = {}
      /\ w.rows = <<>>
  <2>1. s \in AllSites
    BY TreeFacts DEF Row
  <2> QED BY <2>1, NoWorkFacts DEF Transaction, TreeSteps
<1> HIDE DEF w, s
<1>3. Fits(w)
  BY <1>1, <1>2, NothingFacts, TreeFacts DEF Fits, NewOnly, RowOf
<1> QED BY <1>1, <1>2, <1>3, BareKeeps

(* A delete commits its row, which is then live no longer.                   *)
LEMMA SoftDeleteKeepsTasks ==
  ASSUME TasksAreSound, NEW t \in TreeTasks, SoftDelete(t)
  PROVE  TasksAreSound'
<1> DEFINE n == work[t].node
           row == IF Live(n) THEN [node[n] EXCEPT !.state = "deleted"] ELSE node[n]
           rows == With(<<>>, n, row)
<1>1. work[t].step = "delete" /\ ~HeldByOther(t, n) /\ CommitRows(t, rows)
  BY DEF SoftDelete
<1>2. n \in Nodes /\ IsARow(n) /\ node[n] \in Row /\ Real(node[n])
  BY <1>1, TreeFacts DEF Fits, RowOf
<1>3. row \in Row /\ row.state # "live" /\ Real(row) /\ row.site = node[n].site
  BY <1>2 DEF Row, Real, Live
<1> HIDE DEF row
<1>4. rows \in RowSets /\ DOMAIN rows = {n} /\ rows[n] = row
  BY <1>2, <1>3, OneRowFacts
<1> HIDE DEF rows
<1>5. node'[n] = row /\ \A x \in Nodes \ {n} : node'[x] = node[x]
  BY <1>1, <1>2, <1>4 DEF CommitRows
<1>6. \A x, y \in Nodes : Live(x)' /\ Live(y)' /\ Key(node'[x]) = Key(node'[y]) => x = y
  BY <1>3, <1>5 DEF TasksAreSound, CodesDiffer, Live
<1>7. \A x \in DOMAIN rows :
        Real(rows[x]) /\ FreeOf(t, x) /\ rows[x].state # "live" /\ rows[x].site = node[x].site
  BY <1>1, <1>3, <1>4 DEF FreeOf, HeldByOther, Held
<1> QED BY <1>1, <1>4, <1>6, <1>7, CommitKeeps

(* An import begins with the live rows by code and with its whole file.      *)
LEMMA ReadKnownKeepsTasks ==
  ASSUME TasksAreSound, NEW t \in TreeTasks, NEW s \in AllSites, NEW file \in Files, ReadKnown(t, s, file)
  PROVE  TasksAreSound'
<1> DEFINE alive == {n \in Nodes : Live(n) /\ node[n].site = s}
           known == [c \in CodesOf(alive) |-> CHOOSE n \in alive : node[n].code = c]
           w == [NoWork EXCEPT !.step = "pass", !.site = s, !.file = file, !.before = Len(file), !.known = known]
<1>1. /\ forest' = forest /\ node' = node /\ work' = [work EXCEPT ![t] = w]
      /\ asked' \in 0..MaxAsked /\ stray' \in SUBSET AllSites
  <2>1. forest' = forest /\ node' = node
    BY DEF ReadKnown
  <2>2. Ask(t, w)
    BY DEF ReadKnown
  <2>3. stray' \in SUBSET AllSites
    BY DEF ReadKnown, TasksAreSound, TreeTyped
  <2> QED BY <2>1, <2>2, <2>3, AskFacts
<1>2. file \in Seq(FileRow) /\ Len(file) \in Nat
  BY TreeAssumption, LenProperties DEF FileRow
<1>3. \A c \in CodesOf(alive) : c \in Codes /\ known[c] \in alive
  BY TreeFacts DEF CodesOf, Real
<1>4. known \in CodeMaps /\ \A c \in DOMAIN known : known[c] \in Nodes /\ RowOf(s, known[c])
  <2>1. known \in [CodesOf(alive) -> Nodes] /\ CodesOf(alive) \in SUBSET Codes
    BY <1>3
  <2>2. \A c \in DOMAIN known : known[c] \in Nodes /\ RowOf(s, known[c])
    BY <1>3, TreeFacts DEF RowOf
  <2> QED BY <2>1, <2>2 DEF CodeMaps
<1> HIDE DEF known
<1>5. /\ w \in Transaction /\ w.step = "pass" /\ w.site = s /\ w.node = NoParent /\ w.todo = {} /\ w.rows = <<>>
      /\ w.file = file /\ w.still = <<>> /\ w.before = Len(file) /\ w.known = known
  BY <1>2, <1>4, NoWorkFacts DEF Transaction, TreeSteps
<1> HIDE DEF w
<1>6. Imports(w)
  <2>1. Len(<<>>) = 0
    OBVIOUS
  <2> QED BY <1>2, <1>4, <1>5, <2>1 DEF Imports, NoneKnown
<1>7. Fits(w)
  BY <1>5, <1>6, NothingFacts DEF Fits, NewOnly
<1> QED BY <1>1, <1>5, <1>7, BareKeeps

(* An import after a row that is not made, one that is left, and one that is made.   *)
After(w, remaining) == [w EXCEPT !.file = remaining]
AfterLeft(w, remaining, r) == [After(w, remaining) EXCEPT !.still = Append(w.still, r)]
AfterMade(w, remaining, c, id, new) ==
  [After(w, remaining) EXCEPT !.rows = With(w.rows, id, new), !.known = With(w.known, c, id)]

(* The next row of a file, and the rest of it.                                    *)
LEMMA FileFacts ==
  ASSUME TasksAreSound, NEW t \in TreeTasks, work[t].step = "pass", work[t].file # <<>>
  PROVE  /\ Tail(work[t].file) \in Seq(FileRow) /\ Len(Tail(work[t].file)) \in Nat
         /\ Len(work[t].file) = Len(Tail(work[t].file)) + 1
         /\ Head(work[t].file) \in FileRow
         /\ Head(work[t].file)[1] \in Codes /\ Head(work[t].file)[2] \in Codes \cup {""}
<1> DEFINE file == work[t].file
           remaining == Tail(file)
           r == Head(file)
<1>1. file \in Seq(FileRow)
  BY TreeFacts DEF Transaction
<1>2. /\ r \in FileRow /\ remaining \in Seq(FileRow) /\ Len(remaining) = Len(file) - 1
      /\ Len(file) \in Nat /\ Len(remaining) \in Nat
  BY <1>1, HeadTailProperties, LenProperties
<1> HIDE DEF r, remaining, file
<1>3. Len(file) = Len(remaining) + 1
  BY <1>2
<1>4. r[1] \in Codes /\ r[2] \in Codes \cup {""}
  BY <1>2 DEF FileRow
<1>5. /\ remaining \in Seq(FileRow) /\ Len(remaining) \in Nat /\ Len(file) = Len(remaining) + 1
      /\ r \in FileRow /\ r[1] \in Codes /\ r[2] \in Codes \cup {""}
  BY <1>2, <1>3, <1>4
<1> QED BY <1>5 DEF file, remaining, r

(* The state of an import within a pass.                                     *)
LEMMA PassFacts ==
  ASSUME TasksAreSound, NEW t \in TreeTasks, NEW w, w = work[t], w.step = "pass",
         NEW remaining \in Seq(FileRow), Len(w.file) = Len(remaining) + 1
  PROVE  /\ w \in Transaction /\ NewOnly(w) /\ Imports(w)
         /\ w.still \in Seq(FileRow) /\ w.before \in Nat
         /\ Len(remaining) \in Nat /\ Len(w.still) \in Nat
         /\ Len(w.still) + Len(remaining) < w.before
         /\ Len(w.still) + Len(remaining) + 1 = w.before => NoneKnown(w)
<1>1. w \in Transaction /\ NewOnly(w) /\ Imports(w)
  BY TreeFacts DEF Fits
<1>2. w.still \in Seq(FileRow) /\ w.before \in Nat
  BY <1>1 DEF Transaction
<1>3. Len(w.still) \in Nat /\ Len(remaining) \in Nat
  BY <1>2, LenProperties
<1>4. Len(w.still) + Len(w.file) <= w.before
  BY <1>1 DEF Imports
<1>5. /\ Len(w.still) + Len(remaining) < w.before
      /\ Len(w.still) + Len(remaining) + 1 = w.before => Len(w.still) + Len(w.file) = w.before
  <2> DEFINE kept == w.still
             all == w.file
             limit == w.before
  <2>1. /\ Len(kept) + Len(all) <= limit /\ limit \in Nat /\ Len(kept) \in Nat /\ Len(remaining) \in Nat
        /\ Len(all) = Len(remaining) + 1
    BY <1>2, <1>3, <1>4
  <2> HIDE DEF kept, all, limit
  <2>2. /\ Len(kept) + Len(remaining) < limit
        /\ Len(kept) + Len(remaining) + 1 = limit => Len(kept) + Len(all) = limit
    BY <2>1
  <2> QED BY <2>2 DEF kept, all, limit
<1>6. Len(w.still) + Len(w.file) = w.before => NoneKnown(w)
  BY <1>1 DEF Imports
<1> QED BY <1>1, <1>2, <1>3, <1>5, <1>6

(* A row of an import that is not made: the transaction goes on with the rest.       *)
LEMMA RestKeeps ==
  ASSUME TasksAreSound, NEW t \in TreeTasks, NEW w, w = work[t], w.step = "pass",
         NEW remaining \in Seq(FileRow), Len(w.file) = Len(remaining) + 1, NEW v, v = After(w, remaining),
         forest' = forest, node' = node, asked' \in 0..MaxAsked, stray' \in SUBSET AllSites,
         work' = [work EXCEPT ![t] = v]
  PROVE  TasksAreSound'
<1>1. /\ w \in Transaction /\ NewOnly(w) /\ Imports(w)
      /\ remaining \in Seq(FileRow) /\ w.before \in Nat
      /\ Len(remaining) \in Nat /\ Len(w.still) \in Nat /\ Len(w.still) + Len(remaining) < w.before
  BY PassFacts
<1>2. /\ v \in Transaction /\ v.step = "pass" /\ v.site = w.site /\ v.node = w.node
      /\ v.todo = w.todo /\ v.rows = w.rows
      /\ v.file = remaining /\ v.still = w.still /\ v.before = w.before /\ v.known = w.known
  BY <1>1 DEF Transaction, After
<1>3. /\ Len(v.still) + Len(v.file) <= v.before
      /\ Len(v.still) + Len(v.file) # v.before
  BY <1>1, <1>2
<1>4. Imports(v)
  BY <1>1, <1>2, <1>3 DEF Imports
<1>5. Fits(v)
  BY <1>1, <1>2, <1>4 DEF Fits, NewOnly
<1> QED BY <1>2, <1>5, BareKeeps

(* One that is left for the next pass, its parent being unknown.                     *)
LEMMA LeaveKeeps ==
  ASSUME TasksAreSound, NEW t \in TreeTasks, NEW w, w = work[t], w.step = "pass",
         NEW remaining \in Seq(FileRow), Len(w.file) = Len(remaining) + 1, NEW r \in FileRow,
         NEW v, v = AfterLeft(w, remaining, r),
         r[2] \notin DOMAIN w.known,
         forest' = forest, node' = node, asked' \in 0..MaxAsked, stray' \in SUBSET AllSites,
         work' = [work EXCEPT ![t] = v]
  PROVE  TasksAreSound'
<1> DEFINE over == Append(w.still, r)
<1>1. /\ w \in Transaction /\ NewOnly(w) /\ Imports(w)
      /\ r \in FileRow /\ remaining \in Seq(FileRow) /\ w.still \in Seq(FileRow) /\ w.before \in Nat
      /\ Len(remaining) \in Nat /\ Len(w.still) \in Nat /\ Len(w.still) + Len(remaining) < w.before
  BY PassFacts
<1>2. /\ over \in Seq(FileRow) /\ Len(over) = Len(w.still) + 1
      /\ \A i \in 1..Len(w.still) : over[i] = w.still[i]
      /\ over[Len(w.still) + 1] = r
  BY <1>1, AppendProperties
<1>3. v = [[w EXCEPT !.file = remaining] EXCEPT !.still = over]
  BY DEF AfterLeft, After
<1> HIDE DEF over
<1>4. /\ v \in Transaction /\ v.step = "pass" /\ v.site = w.site /\ v.node = w.node /\ v.todo = w.todo
      /\ v.rows = w.rows /\ v.file = remaining /\ v.still = over
      /\ v.before = w.before /\ v.known = w.known
  BY <1>1, <1>2, <1>3 DEF Transaction
<1>5. Len(over) + Len(remaining) <= w.before
  BY <1>1, <1>2
<1>6. Len(w.still) + Len(remaining) + 1 = w.before => NoneKnown(w)
  BY PassFacts
<1>7. Len(over) + Len(remaining) = w.before => NoneKnown(v)
  <2>1. Len(over) + Len(remaining) = w.before => Len(w.still) + Len(remaining) + 1 = w.before
    BY <1>1, <1>2
  <2>3. ASSUME NoneKnown(w), NEW i \in 1..Len(over) PROVE over[i][2] \notin DOMAIN w.known
    <3>1. i \in 1..Len(w.still) \/ i = Len(w.still) + 1
      BY <1>1, <1>2
    <3> QED BY <1>2, <2>3, <3>1 DEF NoneKnown
  <2> QED BY <1>4, <1>6, <2>1, <2>3 DEF NoneKnown
<1>8. Imports(v)
  BY <1>1, <1>4, <1>5, <1>7 DEF Imports
<1>9. Fits(v)
  BY <1>1, <1>4, <1>8 DEF Fits, NewOnly
<1> QED BY <1>4, <1>9, BareKeeps

(* The state of an import after it has made a row.                           *)
LEMMA MadeFacts ==
  ASSUME NEW w \in Transaction, NEW remaining \in Seq(FileRow), NEW c \in Codes, NEW id \in Nodes, NEW new \in Row,
         NEW v, v = AfterMade(w, remaining, c, id, new)
  PROVE  /\ v \in Transaction /\ v.step = w.step /\ v.site = w.site /\ v.node = w.node /\ v.todo = w.todo
         /\ v.file = remaining /\ v.still = w.still /\ v.before = w.before
         /\ DOMAIN v.rows = DOMAIN w.rows \cup {id} /\ v.rows[id] = new
         /\ \A x \in DOMAIN w.rows \ {id} : v.rows[x] = w.rows[x]
         /\ DOMAIN v.known = DOMAIN w.known \cup {c} /\ v.known[c] = id
         /\ \A d \in DOMAIN w.known \ {c} : v.known[d] = w.known[d]
<1> DEFINE old == w.rows
           map == w.known
           mine == With(old, id, new)
           names == With(map, c, id)
<1>1. old \in RowSets /\ map \in CodeMaps
  BY DEF Transaction
<1> HIDE DEF old, map
<1>2. /\ mine \in RowSets /\ DOMAIN mine = DOMAIN old \cup {id} /\ mine[id] = new
      /\ \A x \in DOMAIN old \ {id} : mine[x] = old[x]
  <2> HIDE DEF names
  <2>1. id \in Nodes /\ new \in Row
    OBVIOUS
  <2>2. With(old, id, new) \in RowSets /\ DOMAIN With(old, id, new) = DOMAIN old \cup {id}
    BY ONLY <1>1, <2>1, WithFacts
  <2>3. With(old, id, new)[id] = new /\ \A x \in DOMAIN old \ {id} : With(old, id, new)[x] = old[x]
    BY DEF With
  <2> QED BY <2>2, <2>3
<1>3. /\ names \in CodeMaps /\ DOMAIN names = DOMAIN map \cup {c} /\ names[c] = id
      /\ \A d \in DOMAIN map \ {c} : names[d] = map[d]
  <2>1. c \in Codes /\ id \in Nodes
    OBVIOUS
  <2>2. With(map, c, id) \in CodeMaps /\ DOMAIN With(map, c, id) = DOMAIN map \cup {c}
    BY ONLY <1>1, <2>1, MapFacts
  <2>3. With(map, c, id)[c] = id /\ \A d \in DOMAIN map \ {c} : With(map, c, id)[d] = map[d]
    BY DEF With
  <2> QED BY <2>2, <2>3
<1>4. v = [[w EXCEPT !.file = remaining] EXCEPT !.rows = mine, !.known = names]
  BY Zenon DEF old, map, AfterMade, After
<1> HIDE DEF mine, names
<1>5. /\ v \in Transaction /\ v.step = w.step /\ v.site = w.site /\ v.node = w.node /\ v.todo = w.todo
      /\ v.file = remaining /\ v.still = w.still /\ v.before = w.before /\ v.rows = mine /\ v.known = names
  <2>1. PICK u : u = [w EXCEPT !.file = remaining]
    OBVIOUS
  <2>2. /\ u \in Transaction /\ u.step = w.step /\ u.site = w.site /\ u.node = w.node /\ u.todo = w.todo
        /\ u.file = remaining /\ u.still = w.still /\ u.before = w.before
    BY <2>1 DEF Transaction
  <2>3. v = [u EXCEPT !.rows = mine, !.known = names]
    BY <1>4, <2>1
  <2>4. v \in Transaction
    BY <1>2, <1>3, <2>2, <2>3 DEF Transaction
  <2>5. /\ v.step = u.step /\ v.site = u.site /\ v.node = u.node /\ v.todo = u.todo /\ v.file = u.file
        /\ v.still = u.still /\ v.before = u.before /\ v.rows = mine /\ v.known = names
    BY <2>2, <2>3 DEF Transaction
  <2> QED BY <2>2, <2>4, <2>5
<1> QED BY <1>2, <1>3, <1>5 DEF old, map

(* One that is made.                                                          *)
LEMMA MakeKeeps ==
  ASSUME TasksAreSound, NEW t \in TreeTasks, NEW w, w = work[t], w.step = "pass",
         NEW remaining \in Seq(FileRow), Len(w.file) = Len(remaining) + 1, NEW r \in FileRow,
         NEW q \in Nodes \cup {NoParent}, NEW c \in Codes, NEW id, id = NextId,
         NEW new, new = NewRow(t, q, c),
         NEW v, v = AfterMade(w, remaining, c, id, new),
         ~CodeHeld(t, c), Fresh # {}, ~CodeTaken(t, NoParent, c),
         forest' = forest, node' = node, asked' \in 0..MaxAsked, stray' \in SUBSET AllSites,
         work' = [work EXCEPT ![t] = v]
  PROVE  TasksAreSound'
<1> DEFINE mine == v.rows
           names == v.known
<1>1. /\ w \in Transaction /\ NewOnly(w) /\ Imports(w)
      /\ remaining \in Seq(FileRow) /\ w.still \in Seq(FileRow) /\ w.before \in Nat
      /\ Len(remaining) \in Nat /\ Len(w.still) \in Nat /\ Len(w.still) + Len(remaining) < w.before
  BY PassFacts
<1>2. /\ id \in Nodes /\ ~IsARow(id) /\ \A u \in TreeTasks : id \notin Held(u)
      /\ NewCode(t, <<w.site, c>>) /\ \A y \in NewRows(t) : Key(w.rows[y]) # <<w.site, c>>
  BY FreshFacts
<1>3. new \in Row /\ Real(new) /\ new.state = "live" /\ new.site = w.site /\ Key(new) = <<w.site, c>>
  <2>1. new \in Row /\ Real(new) /\ new.state = "live" /\ new.code = c /\ new.site = work[t].site
    BY ONLY TasksAreSound, t \in TreeTasks, q \in Nodes \cup {NoParent}, c \in Codes,
            new = NewRow(t, q, c), NewRowFacts
  <2> QED BY <2>1 DEF Key
<1>8. /\ v \in Transaction /\ v.step = "pass" /\ v.site = w.site /\ v.node = w.node /\ v.todo = w.todo
      /\ v.file = remaining /\ v.still = w.still /\ v.before = w.before
  BY <1>1, <1>2, <1>3, MadeFacts
<1>5. /\ DOMAIN mine = DOMAIN w.rows \cup {id} /\ mine[id] = new
      /\ \A x \in DOMAIN w.rows \ {id} : mine[x] = w.rows[x]
  BY <1>1, <1>2, <1>3, MadeFacts
<1>6. /\ DOMAIN names = DOMAIN w.known \cup {c} /\ names[c] = id
      /\ \A d \in DOMAIN w.known \ {c} : names[d] = w.known[d]
  BY <1>1, <1>2, <1>3, MadeFacts
<1>9. DOMAIN w.rows = Held(t) /\ id \notin DOMAIN w.rows /\ DOMAIN w.rows = NewRows(t)
  BY <1>1, <1>2 DEF Held, NewRows, NewOnly
<1>10. Imports(v)
  <2>1. /\ Len(v.still) + Len(v.file) <= v.before
        /\ Len(v.still) + Len(v.file) # v.before
    BY <1>1, <1>8
  <2>2. \A d \in DOMAIN names : RowOf(w.site, names[d]) \/ names[d] \in DOMAIN mine
    BY <1>1, <1>5, <1>6 DEF Imports
  <2> QED BY <1>1, <1>8, <2>1, <2>2 DEF Imports
<1>11. Fits(v)
  BY <1>1, <1>2, <1>3, <1>5, <1>8, <1>9, <1>10 DEF Fits, NewOnly
<1>12. MayHave(t, v)
  <2>1. ASSUME NEW x \in DOMAIN mine
        PROVE  /\ Real(mine[x]) /\ FreeOf(t, x) /\ ~IsARow(x) /\ NewCode(t, Key(mine[x]))
               /\ \A y \in DOMAIN mine : Key(mine[y]) = Key(mine[x]) => y = x
    <3>1. CASE x = id
      BY <1>2, <1>3, <1>5, <1>9, <3>1 DEF FreeOf
    <3>2. CASE x # id
      <4>1. x \in NewRows(t) /\ mine[x] = w.rows[x] /\ x \in Held(t)
        BY <1>5, <1>9, <3>2
      <4>2. Real(w.rows[x]) /\ FreeOf(t, x) /\ ~IsARow(x)
        BY <4>1, TreeFacts DEF FreeOf, TasksAreSound, HoldersDiffer, NewRows
      <4>3. NewCode(t, Key(w.rows[x]))
        BY <4>1, <4>2 DEF NewCode, TasksAreSound, CodesDiffer, FreeOf, NewRows
      <4>4. \A y \in DOMAIN w.rows : Key(w.rows[y]) = Key(w.rows[x]) => y = x
        BY <1>9, <4>1 DEF TasksAreSound, CodesDiffer
      <4> QED BY <1>2, <1>3, <1>5, <1>9, <4>1, <4>2, <4>3, <4>4
    <3> QED BY <3>1, <3>2
  <2> QED BY <1>8, <2>1 DEF MayHave
<1> QED BY <1>8, <1>11, <1>12, WorkKeeps

(* What an import does with the next row of its file.                              *)
NextRow(t, w, remaining, r) ==
  /\ w = work[t] /\ w.step = "pass" /\ remaining \in Seq(FileRow) /\ Len(w.file) = Len(remaining) + 1
  /\ r \in FileRow /\ r[1] \in Codes
LeavesRow(t, w, remaining, r) ==
  r[2] \notin DOMAIN w.known /\ work' = [work EXCEPT ![t] = AfterLeft(w, remaining, r)]
MakesRow(t, w, remaining, r, q) ==
  /\ q \in Nodes \cup {NoParent}
  /\ q # NoParent => r[2] \in DOMAIN w.known /\ q = w.known[r[2]]
  /\ ~CodeHeld(t, r[1]) /\ Fresh # {} /\ ~CodeTaken(t, NoParent, r[1])
  /\ stray' = stray \cup {s \in {w.site} : Astray(NextId, q)}
  /\ work' = [work EXCEPT ![t] = AfterMade(w, remaining, r[1], NextId, NewRow(t, q, r[1]))]

(* A step of an import leaves its row of the file for later, drops it or     *)
(* makes it.                                                                 *)
LEMMA ImportRowMeans ==
  ASSUME TasksAreSound, NEW t \in TreeTasks, ImportRow(t)
  PROVE  /\ forest' = forest /\ node' = node /\ asked' \in 0..MaxAsked /\ stray' \in SUBSET AllSites
         /\ \E w, remaining, r, q :
              /\ NextRow(t, w, remaining, r)
              /\ \/ stray' = stray /\ LeavesRow(t, w, remaining, r)
                 \/ stray' = stray /\ work' = [work EXCEPT ![t] = After(w, remaining)]
                 \/ MakesRow(t, w, remaining, r, q)
<1> DEFINE w == work[t]
           remaining == Tail(w.file)
           r == Head(w.file)
           q == IF r[2] = "" THEN NoParent ELSE w.known[r[2]]
           made == AfterMade(w, remaining, r[1], NextId, NewRow(t, q, r[1]))
           astray == Astray(NextId, q)
<1>1. /\ w.step = "pass" /\ w.file # <<>>
      /\ \/ /\ r[2] # "" /\ r[2] \notin DOMAIN w.known
            /\ Write(t, AfterLeft(w, remaining, r), FALSE)
         \/ Write(t, After(w, remaining), FALSE)
         \/ /\ ~(r[2] # "" /\ r[2] \notin DOMAIN w.known)
            /\ ~CodeHeld(t, r[1]) /\ Fresh # {} /\ ~CodeTaken(t, NoParent, r[1])
            /\ Write(t, made, astray)
  BY DEF ImportRow, Do, After, AfterLeft, AfterMade, NewRow, LiveRow
<1>2. /\ remaining \in Seq(FileRow) /\ Len(w.file) = Len(remaining) + 1
      /\ r \in FileRow /\ r[1] \in Codes /\ r[2] \in Codes \cup {""}
  BY <1>1, FileFacts
<1>3. w.known \in CodeMaps /\ w = work[t]
  BY TreeFacts DEF Transaction
<1>4. astray \in BOOLEAN
  BY DEF Astray
<1> HIDE DEF w, remaining, r
<1>5. q # NoParent => q = w.known[r[2]] /\ r[2] # ""
  OBVIOUS
<1>6. ~(r[2] # "" /\ r[2] \notin DOMAIN w.known) => q \in Nodes \cup {NoParent}
  BY <1>2, <1>3, MapFacts
<1>7. NextRow(t, w, remaining, r)
  BY <1>1, <1>2, <1>3 DEF NextRow
<1>8. \A s : stray \cup {f \in {s} : FALSE} = stray
  OBVIOUS
<1>9. astray = Astray(NextId, q) /\ made = AfterMade(w, remaining, r[1], NextId, NewRow(t, q, r[1]))
  OBVIOUS
<1> HIDE DEF q, made, astray
<1>10. CASE /\ r[2] # "" /\ r[2] \notin DOMAIN w.known
            /\ Write(t, AfterLeft(w, remaining, r), FALSE)
  <2>1. /\ forest' = forest /\ node' = node /\ asked' \in 0..MaxAsked /\ stray' \in SUBSET AllSites
        /\ stray' = stray /\ LeavesRow(t, w, remaining, r)
    BY <1>8, <1>10, WriteFacts DEF LeavesRow
  <2> QED BY <1>7, <2>1
<1>11. CASE Write(t, After(w, remaining), FALSE)
  <2>1. /\ forest' = forest /\ node' = node /\ asked' \in 0..MaxAsked /\ stray' \in SUBSET AllSites
        /\ stray' = stray /\ work' = [work EXCEPT ![t] = After(w, remaining)]
    BY <1>8, <1>11, WriteFacts
  <2> QED BY <1>7, <2>1
<1>12. CASE /\ ~(r[2] # "" /\ r[2] \notin DOMAIN w.known)
            /\ ~CodeHeld(t, r[1]) /\ Fresh # {} /\ ~CodeTaken(t, NoParent, r[1])
            /\ Write(t, made, astray)
  <2>1. /\ forest' = forest /\ node' = node /\ asked' \in 0..MaxAsked /\ stray' \in SUBSET AllSites
        /\ work' = [work EXCEPT ![t] = made] /\ stray' = stray \cup {s \in {work[t].site} : astray}
    BY <1>4, <1>12, WriteFacts
  <2>2. MakesRow(t, w, remaining, r, q)
    BY <1>3, <1>5, <1>6, <1>9, <1>12, <2>1 DEF MakesRow
  <2> QED BY <1>7, <2>1, <2>2
<1> QED BY <1>1, <1>10, <1>11, <1>12

(* In each of the three cases what the tasks hold stays sound.               *)
LEMMA ImportRowKeepsTasks ==
  ASSUME TasksAreSound, NEW t \in TreeTasks, ImportRow(t)
  PROVE  TasksAreSound'
<1>1. forest' = forest /\ node' = node /\ asked' \in 0..MaxAsked /\ stray' \in SUBSET AllSites
  BY ImportRowMeans
<1>2. PICK w, remaining, r, q :
        /\ NextRow(t, w, remaining, r)
        /\ \/ LeavesRow(t, w, remaining, r)
           \/ work' = [work EXCEPT ![t] = After(w, remaining)]
           \/ MakesRow(t, w, remaining, r, q)
  BY ImportRowMeans
<1>3. /\ w = work[t] /\ w.step = "pass" /\ remaining \in Seq(FileRow) /\ Len(w.file) = Len(remaining) + 1
      /\ r \in FileRow /\ r[1] \in Codes
  BY <1>2 DEF NextRow
<1>4. CASE LeavesRow(t, w, remaining, r)
  BY <1>1, <1>3, <1>4, LeaveKeeps DEF LeavesRow
<1>5. CASE work' = [work EXCEPT ![t] = After(w, remaining)]
  BY <1>1, <1>3, <1>5, RestKeeps
<1>6. CASE MakesRow(t, w, remaining, r, q)
  BY <1>1, <1>3, <1>6, MakeKeeps DEF MakesRow
<1> QED BY <1>2, <1>4, <1>5, <1>6

(* The next pass begins with the rows that the last one left, or with none   *)
(* that can be made.                                                         *)
LEMMA NextPassKeepsTasks ==
  ASSUME TasksAreSound, NEW t \in TreeTasks, NextPass(t)
  PROVE  TasksAreSound'
<1> DEFINE w == work[t]
           done == [w EXCEPT !.step = "done"]
           again == [w EXCEPT !.file = w.still, !.still = <<>>, !.before = Len(w.still)]
<1>1. /\ w.step = "pass" /\ w.file = <<>>
      /\ forest' = forest /\ node' = node /\ asked' \in 0..MaxAsked /\ stray' \in SUBSET AllSites
      /\ \/ /\ w.still = <<>> \/ Len(w.still) = w.before
            /\ work' = [work EXCEPT ![t] = done]
         \/ work' = [work EXCEPT ![t] = again]
  BY DEF NextPass, Do, Write, TasksAreSound, TreeTyped
<1>2. /\ w \in Transaction /\ NewOnly(w) /\ Imports(w) /\ w.still \in Seq(FileRow)
      /\ w.before \in Nat /\ Len(w.still) \in Nat /\ Len(w.file) = 0 /\ Len(<<>>) = 0
  <2>1. w \in Transaction /\ NewOnly(w) /\ Imports(w)
    BY <1>1, TreeFacts DEF Fits
  <2> QED BY <1>1, <2>1, LenProperties DEF Transaction
<1>3. CASE /\ w.still = <<>> \/ Len(w.still) = w.before
           /\ work' = [work EXCEPT ![t] = done]
  <2>1. /\ done \in Transaction /\ done.step = "done" /\ done.site = w.site /\ done.node = w.node /\ done.todo = w.todo
        /\ done.rows = w.rows /\ done.still = w.still /\ done.known = w.known
    BY <1>2 DEF Transaction, TreeSteps
  <2> HIDE DEF done
  <2>2. NoneKnown(w)
    <3>1. CASE w.still = <<>>
      BY <1>2, <3>1 DEF NoneKnown
    <3>2. CASE Len(w.still) = w.before
      BY <1>1, <1>2, <3>2 DEF Imports
    <3> QED BY <1>3, <3>1, <3>2
  <2>3. Fits(done)
    BY <1>2, <2>1, <2>2 DEF Fits, NewOnly, Imports, NoneKnown
  <2> QED BY <1>1, <1>3, <2>1, <2>3, BareKeeps
<1>4. CASE work' = [work EXCEPT ![t] = again]
  <2>1. /\ again \in Transaction /\ again.step = "pass" /\ again.site = w.site /\ again.node = w.node /\ again.todo = w.todo
        /\ again.rows = w.rows /\ again.still = <<>> /\ again.known = w.known
        /\ again.file = w.still /\ again.before = Len(w.still)
    BY <1>1, <1>2, NothingFacts DEF Transaction
  <2> HIDE DEF again
  <2>2. Imports(again)
    BY <1>2, <2>1 DEF Imports, NoneKnown
  <2>3. Fits(again)
    BY <1>2, <2>1, <2>2 DEF Fits, NewOnly
  <2> QED BY <1>1, <1>4, <2>1, <2>3, BareKeeps
<1> QED BY <1>1, <1>3, <1>4

(* The loser of a deadlock waits for a row or a code; an import has rows left then.   *)
LEMMA LoserWaits ==
  ASSUME TasksAreSound, NEW t \in TreeTasks, LoseDeadlock(t), work[t].step = "pass"
  PROVE  work[t].file # <<>>
<1>1. PICK u \in TreeTasks : StuckOn(t, u)
  BY DEF LoseDeadlock
<1>2. work[t].todo = {}
  BY TreeFacts DEF Fits, NewOnly
<1> QED BY <1>1, <1>2 DEF StuckOn, WaitsForRow, WaitsForCode

(* The one that is picked to break a deadlock rolls back.                    *)
LEMMA LoseDeadlockKeepsTasks ==
  ASSUME TasksAreSound, NEW t \in TreeTasks, LoseDeadlock(t)
  PROVE  TasksAreSound'
<1>1. CASE work[t].step = "pass"
  <2>1. work[t].file # <<>>
    BY <1>1, LoserWaits
  <2>2. PICK remaining \in Seq(FileRow) : remaining = Tail(work[t].file) /\ Len(work[t].file) = Len(remaining) + 1
    BY <1>1, <2>1, FileFacts
  <2>3. Write(t, After(work[t], remaining), FALSE)
    BY <1>1, <2>2 DEF LoseDeadlock, Do, After
  <2>4. /\ work' = [work EXCEPT ![t] = After(work[t], remaining)] /\ forest' = forest /\ node' = node
        /\ asked' \in 0..MaxAsked /\ stray' \in SUBSET AllSites
    BY <2>3, WriteFacts
  <2>5. remaining \in Seq(FileRow) /\ Len(work[t].file) = Len(remaining) + 1
    BY <2>2
  <2> QED BY <1>1, <2>4, <2>5, RestKeeps
<1>2. CASE work[t].step # "pass"
  BY <1>2, DropMoveKeeps DEF LoseDeadlock, Do, Write, TasksAreSound, TreeTyped
<1> QED BY <1>1, <1>2

(* A process that stops rolls back what it had open.                         *)
LEMMA CutOffKeepsTasks ==
  ASSUME TasksAreSound, NEW t \in TreeTasks, CutOff(t)
  PROVE  TasksAreSound'
<1>1. asked \in 0..MaxAsked /\ MaxAsked \in Nat
  BY TreeAssumption DEF TasksAreSound, TreeTyped
<1>2. asked' \in 0..MaxAsked
  <2>1. asked < MaxAsked /\ asked' = asked + 1
    BY DEF CutOff
  <2> QED BY <1>1, <2>1
<1> QED BY <1>2, DropMoveKeeps DEF CutOff, TasksAreSound, TreeTyped

(* What the tasks hold is sound at first: nobody has a transaction.          *)
LEMMA InitTasks == TreeInit => TasksAreSound
<1> SUFFICES ASSUME TreeInit PROVE TasksAreSound
  OBVIOUS
<1>1. /\ \A t \in TreeTasks : work[t] = NoWork /\ Held(t) = {}
      /\ work \in [TreeTasks -> Transaction]
  BY NoWorkFacts, NothingFacts DEF TreeInit, Held
<1> DEFINE Site(n) == IF forest = "org" THEN Tenant ELSE Roots[n].site
<1>2. ASSUME NEW n \in DOMAIN Roots
      PROVE  /\ n \in Nodes /\ Roots[n].path \in Seq(Codes) /\ Roots[n].path # <<>>
             /\ Last(Roots[n].path) \in Codes /\ Roots[n].parent \in Nodes \cup {NoParent}
             /\ Site(n) \in AllSites
  <2>1. n \in Nodes /\ Roots[n].path \in Seq(Codes) /\ Roots[n].path # <<>>
        /\ Roots[n].parent \in Nodes \cup {NoParent}
    BY RootsAssumption
  <2>2. Last(Roots[n].path) \in Codes
    <3>1. Len(Roots[n].path) \in Nat /\ Len(Roots[n].path) # 0
      BY <2>1, LenProperties, EmptySeq
    <3>2. Len(Roots[n].path) \in 1..Len(Roots[n].path)
      BY <3>1
    <3> QED BY <2>1, <3>2, ElementOfSeq DEF Last
  <2>3. Site(n) \in AllSites
    BY RootsAssumption DEF AllSites
  <2> QED BY <2>1, <2>2, <2>3
<1>3. \A n \in Nodes :
        /\ node[n] \in Row
        /\ n \in DOMAIN Roots => node[n].state = "live" /\ node[n].code = Last(Roots[n].path)
                                   /\ Real(node[n])
        /\ n \notin DOMAIN Roots => node[n] = NoRow /\ ~Live(n)
  <2>1. NoRow \in Row /\ NoRow.state = "none"
    <3>1. <<>> \in Seq(Codes) /\ Tenant \in AllSites
      BY DEF AllSites
    <3> QED BY <3>1 DEF NoRow, Row
  <2>2. ASSUME NEW n \in DOMAIN Roots
        PROVE  node[n] \in Row /\ node[n].state = "live" /\ node[n].code = Last(Roots[n].path)
               /\ Real(node[n])
    <3>1. node[n] = LiveRow(Site(n), Roots[n].parent, Last(Roots[n].path), Roots[n].path)
      BY <1>2, <2>2 DEF TreeInit, LiveRow
    <3> HIDE DEF Site
    <3> QED BY <1>2, <2>2, <3>1, LiveRowFacts DEF Paths
  <2>3. \A n \in Nodes \ DOMAIN Roots : node[n] = NoRow
    BY DEF TreeInit
  <2> QED BY <2>1, <2>2, <2>3 DEF Live
<1>4. TreeTyped
  <2>1. node \in [Nodes -> Row]
    <3>1. node = [n \in Nodes |-> node[n]]
      BY DEF TreeInit
    <3> QED BY <1>3, <3>1
  <2>2. 0 \in 0..MaxAsked
    <3>1. MaxAsked \in Nat
      BY TreeAssumption
    <3> QED BY ONLY <3>1
  <2> QED BY <1>1, <2>1, <2>2 DEF TreeInit, TreeTyped
<1>5. RowsAreReal /\ HoldersDiffer
  BY <1>1, <1>3 DEF RowsAreReal, HoldersDiffer, IsARow
<1>6. CodesDiffer
  BY <1>1, <1>3, RootsAssumption DEF CodesDiffer, Key, NewRows
<1>7. \A t \in TreeTasks : Fits(work[t])
  BY <1>1, NoWorkFacts, NothingFacts DEF Fits, NewOnly
<1> QED BY <1>4, <1>5, <1>6, <1>7 DEF TasksAreSound

(* And every step keeps it so.                                               *)
LEMMA StepKeepsTasks == TasksAreSound /\ [TreeNext]_treeVars => TasksAreSound'
<1> SUFFICES ASSUME TasksAreSound, [TreeNext]_treeVars PROVE TasksAreSound'
  OBVIOUS
<1>1. CASE UNCHANGED treeVars
  <2>0. UNCHANGED <<forest, node, work, asked, stray>>
    BY <1>1 DEF treeVars
  <2>1. \A w : /\ Moves(w) => Moves(w)'
               /\ NewOnly(w) => NewOnly(w)'
               /\ Imports(w) => Imports(w)'
    BY <2>0 DEF Moves, NewOnly, Imports, NoneKnown, RowOf, IsARow, Live
  <2>2. \A w : Fits(w) => Fits(w)'
    BY <2>0, <2>1 DEF Fits, RowOf, IsARow
  <2>3. \A t \in TreeTasks : Fits(work[t])'
    <3> TAKE t \in TreeTasks
    <3>1. PICK w : w = work[t] /\ w = work'[t]
      BY <2>0
    <3>2. Fits(w)'
      BY <2>2, <3>1 DEF TasksAreSound
    <3> QED BY <3>1, <3>2
  <2>4. TreeTyped' /\ RowsAreReal' /\ HoldersDiffer'
    BY <2>0 DEF TasksAreSound, TreeTyped, RowsAreReal, HoldersDiffer, IsARow, Held
  <2>5. CodesDiffer'
    BY <2>0 DEF TasksAreSound, CodesDiffer, IsARow, Held, NewRows, Live
  <2> QED BY <2>3, <2>4, <2>5 DEF TasksAreSound
<1>2. ASSUME NEW t \in TreeTasks, NEW n \in Nodes, NEW q \in Nodes \cup {NoParent},
             NEW c \in NewCodes \cup {node[n].code}, PatchOrg(t, n, q, c) \/ PatchNode(t, n, q, c)
      PROVE  TasksAreSound'
  BY <1>2, PatchKeepsTasks DEF PatchOrg, PatchNode
<1>3. ASSUME NEW t \in TreeTasks, NEW m \in Nodes, RepathRow(t, m) PROVE TasksAreSound'
  BY <1>3, RepathKeepsTasks
<1>4. ASSUME NEW t \in TreeTasks, NEW m \in Nodes, DeleteOrg(t, m) \/ DeleteNode(t, m)
      PROVE  TasksAreSound'
  BY <1>4, CountChildrenKeepsTasks DEF DeleteOrg, DeleteNode
<1>5. ASSUME NEW t \in TreeTasks, NEW s \in AllSites, NEW q \in Nodes \cup {NoParent}, NEW c \in NewCodes,
             CheckParent(t, s, q, c)
      PROVE  TasksAreSound'
  BY <1>5, CheckParentKeepsTasks
<1>6. ASSUME NEW t \in TreeTasks, FinishPatch(t) PROVE TasksAreSound'
  BY <1>6, FinishPatchKeepsTasks
<1>7. ASSUME NEW t \in TreeTasks, InsertNode(t) PROVE TasksAreSound'
  BY <1>7, InsertNodeKeepsTasks
<1>8. ASSUME NEW t \in TreeTasks, CommitInsert(t) PROVE TasksAreSound'
  BY <1>8, CommitNewKeepsTasks DEF CommitInsert
<1>9. ASSUME NEW t \in TreeTasks, SoftDelete(t) PROVE TasksAreSound'
  BY <1>9, SoftDeleteKeepsTasks
<1>10. ASSUME NEW t \in TreeTasks, NEW s \in AllSites, NEW file \in Files, ReadKnown(t, s, file) PROVE TasksAreSound'
  BY <1>10, ReadKnownKeepsTasks
<1>11. ASSUME NEW t \in TreeTasks, ImportRow(t) PROVE TasksAreSound'
  BY <1>11, ImportRowKeepsTasks
<1>12. ASSUME NEW t \in TreeTasks, NextPass(t) PROVE TasksAreSound'
  BY <1>12, NextPassKeepsTasks
<1>13. ASSUME NEW t \in TreeTasks, NEW dry \in BOOLEAN, EndImport(t, dry) PROVE TasksAreSound'
  <2>1. CASE dry
    BY <1>13, <2>1, DropMoveKeeps DEF EndImport, Do, Write, TasksAreSound, TreeTyped
  <2>2. CASE ~dry
    BY <1>13, <2>2, CommitNewKeepsTasks DEF EndImport
  <2> QED BY <2>1, <2>2
<1>14. ASSUME NEW t \in TreeTasks, LoseDeadlock(t) PROVE TasksAreSound'
  BY <1>14, LoseDeadlockKeepsTasks
<1>15. ASSUME NEW t \in TreeTasks, CutOff(t) PROVE TasksAreSound'
  BY <1>15, CutOffKeepsTasks
<1> QED BY <1>1, <1>2, <1>3, <1>4, <1>5, <1>6, <1>7, <1>8, <1>9, <1>10, <1>11, <1>12, <1>13, <1>14, <1>15
        DEF TreeNext
-----------------------------------------------------------------------------
(* Places *)

(* A live row hangs where its path says.                                        *)
Right(s, row) ==
  IF row.parent = NoParent THEN row.path = <<row.code>>
  ELSE LiveIn(s, row.parent) /\ row.path = Append(node[row.parent].path, row.code)
PathsAreRight(s) == \A n \in Nodes : LiveIn(s, n) => Right(s, node[n])

(* A row whose deletion has begun has no children and gets none.                   *)
RewritesIn(s, u) == work[u].site = s /\ Rewrites(u)
DeletingIn(s, q) == \E u \in TreeTasks : work[u].site = s /\ work[u].step = "delete" /\ work[u].node = q
DeletedAreBare(s) == \A m \in Nodes : LiveIn(s, m) => ~DeletingIn(s, node[m].parent)

(* A move that changes paths has, or will take, all live rows below its own.         *)
MovesAreWhole(s, t) ==
  RewritesIn(s, t) => \A m \in Nodes :
    LiveIn(s, m) /\ Under(node[m].path, work[t].old) => m \in Held(t) \cup work[t].todo

(* A pending new row hangs under another of the same transaction, or under a row    *)
(* that stays where it is; it is in no subtree whose paths are being rewritten.       *)
FirmNew(s, t, x) ==
  LET row == work[t].rows[x]
      q == row.parent IN
  /\ IF q \in Held(t) THEN row.path = Append(work[t].rows[q].path, row.code)
     ELSE /\ Right(s, row) /\ ~DeletingIn(s, q)
          /\ q # NoParent => \A u \in TreeTasks : RewritesIn(s, u) => ~Under(node[q].path, work[u].old)
  /\ \A u \in TreeTasks : RewritesIn(s, u) => ~Under(row.path, work[u].old)

(* A row moves to a place outside its subtree, and into a subtree that is being       *)
(* rewritten only if it is there already.                                       *)
FirmMove(s, t) ==
  LET row == work[t].rows[work[t].node]
      q == row.parent IN
  /\ Right(s, row) /\ ~DeletingIn(s, q)
  /\ q # NoParent =>
       /\ ~Under(node[q].path, work[t].old)
       /\ \A u \in TreeTasks : RewritesIn(s, u) /\ Under(node[q].path, work[u].old)
            => Under(work[t].old, work[u].old)
FirmTask(s, t) ==
  work[t].site = s =>
    /\ MovesAreWhole(s, t)
    /\ work[t].step = "repath" => FirmMove(s, t)
    /\ \A x \in NewRows(t) : FirmNew(s, t, x)
PlacesAreFirm(s) == PathsAreRight(s) /\ DeletedAreBare(s) /\ \A t \in TreeTasks : FirmTask(s, t)

(* The last label of a path that is made of a parent's path and a code.      *)
LEMMA LastLabel ==
  ASSUME NEW q, NEW c \in Codes, NEW above \in Paths, NEW path,
         path = IF q = NoParent THEN <<c>> ELSE Append(above, c)
  PROVE  path \in Paths /\ path # <<>> /\ Len(path) \in Nat /\ Len(path) >= 1 /\ path[Len(path)] = c
<1>1. CASE q = NoParent
  <2>1. path \in Paths /\ path # <<>> /\ Len(path) = 1 /\ path[1] = c
    BY <1>1, RootFacts
  <2> QED BY <2>1
<1>2. CASE q # NoParent
  <2>1. /\ path \in Paths /\ path # <<>> /\ Len(above) \in Nat /\ Len(path) = Len(above) + 1
        /\ path[Len(above) + 1] = c
    BY <1>2, AppendFacts
  <2> QED BY <2>1
<1> QED BY <1>1, <1>2

(* In a tree whose paths are right: the path of a live row and that of its   *)
(* parent.                                                                   *)
LEMMA LiveFacts ==
  ASSUME NEW s, TasksAreSound, PathsAreRight(s), NEW n \in Nodes, LiveIn(s, n)
  PROVE  /\ node[n].path \in Paths /\ node[n].path # <<>> /\ node[n].code \in Codes
         /\ Len(node[n].path) \in Nat /\ Len(node[n].path) >= 1
         /\ node[n].path[Len(node[n].path)] = node[n].code
         /\ node[n].parent = NoParent => node[n].path = <<node[n].code>> /\ Len(node[n].path) = 1
         /\ node[n].parent # NoParent =>
              /\ node[n].parent \in Nodes /\ LiveIn(s, node[n].parent)
              /\ node[node[n].parent].path \in Paths
              /\ node[n].path = Append(node[node[n].parent].path, node[n].code)
              /\ Len(node[n].path) = Len(node[node[n].parent].path) + 1
              /\ Under(node[n].path, node[node[n].parent].path)
<1> DEFINE q == node[n].parent
           p == node[n].path
           c == node[n].code
           above == node[q].path
<1>1. /\ p \in Paths /\ c \in Codes /\ q \in Nodes \cup {NoParent}
      /\ q = NoParent => p = <<c>>
      /\ q # NoParent => LiveIn(s, q) /\ p = Append(above, c) /\ above \in Paths
  BY TreeFacts DEF PathsAreRight, Right, Real
<1> HIDE DEF q, p, c, above
<1>2. CASE q = NoParent
  <2>1. p # <<>> /\ Len(p) = 1 /\ p[1] = c
    BY <1>1, <1>2, RootFacts
  <2>2. Len(p) \in Nat /\ Len(p) >= 1 /\ p[Len(p)] = c
    BY <2>1
  <2> QED BY <1>1, <1>2, <2>1, <2>2 DEF q, p, c, above
<1>3. CASE q # NoParent
  <2>1. p # <<>> /\ Len(above) \in Nat /\ Len(p) = Len(above) + 1 /\ p[Len(above) + 1] = c /\ Under(p, above)
    BY <1>1, <1>3, AppendFacts
  <2>2. Len(p) \in Nat /\ Len(p) >= 1 /\ p[Len(p)] = c
    BY <2>1
  <2> QED BY <1>1, <1>3, <2>1, <2>2 DEF q, p, c, above
<1> QED BY <1>2, <1>3

(* Every label of the path of a live row is that of a live row above it.            *)
LEMMA Chain ==
  ASSUME NEW s, TasksAreSound, PathsAreRight(s), NEW n \in Nodes, LiveIn(s, n), NEW k \in 1..Len(node[n].path)
  PROVE  \E m \in Nodes : LiveIn(s, m) /\ Len(node[m].path) = k /\ Under(node[n].path, node[m].path)
<1> DEFINE Above(m) == m \in Nodes /\ LiveIn(s, m) /\ Under(node[n].path, node[m].path) /\ k <= Len(node[m].path)
           long == {j \in Nat : \E m \in Nodes : Above(m) /\ Len(node[m].path) = j}
<1>1. k \in Nat /\ 1 <= k /\ k <= Len(node[n].path) /\ Len(node[n].path) \in Nat /\ node[n].path \in Paths
  BY LiveFacts
<1>2. Above(n)
  BY <1>1, UnderOrder
<1>3. long # {}
  BY <1>1, <1>2
<1>4. PICK j \in long : \A i \in long : <<i, j>> \notin OpToRel(<, Nat)
  <2> HIDE DEF OpToRel, long
  <2>1. long \subseteq Nat
    BY DEF long
  <2> QED BY <1>3, <2>1, NatLessThanWellFounded, WFMin
<1>5. \A i \in long : ~(i < j)
  BY <1>4 DEF OpToRel
<1>6. PICK m \in Nodes : Above(m) /\ Len(node[m].path) = j /\ k <= j /\ j \in Nat
  BY <1>4
<1>7. CASE j = k
  BY <1>6, <1>7
<1>8. CASE j # k
  <2>1. j \in Nat /\ k < j
    BY ONLY <1>1, <1>6, <1>8
  <2> DEFINE q == node[m].parent
  <2>2. /\ q \in Nodes /\ LiveIn(s, q) /\ Len(node[m].path) = Len(node[q].path) + 1
        /\ Under(node[m].path, node[q].path) /\ node[q].path \in Paths /\ node[m].path \in Paths
        /\ Len(node[q].path) \in Nat
    <3>1. q # NoParent
      <4>1. q = NoParent => Len(node[m].path) = 1
        BY <1>6, LiveFacts
      <4> QED BY <1>1, <1>6, <2>1, <4>1
    <3>2. /\ q \in Nodes /\ LiveIn(s, q) /\ Len(node[m].path) = Len(node[q].path) + 1
          /\ Under(node[m].path, node[q].path)
      BY <1>6, <3>1, LiveFacts
    <3> QED BY <1>6, <3>2, LiveFacts
  <2>3. Under(node[n].path, node[q].path)
    BY <1>1, <1>6, <2>2, UnderOrder
  <2>4. k <= Len(node[q].path) /\ Len(node[q].path) < j
    <3>1. j = Len(node[q].path) + 1 /\ Len(node[q].path) \in Nat
      BY <1>6, <2>2
    <3> DEFINE len == Len(node[q].path)
    <3>2. j = len + 1 /\ len \in Nat /\ k \in Nat
      BY <1>1, <3>1
    <3> HIDE DEF len
    <3>3. k <= len /\ len < j
      BY ONLY <2>1, <3>2
    <3> QED BY <3>3 DEF len
  <2>5. Len(node[q].path) \in long
    BY <2>2, <2>3, <2>4
  <2> QED BY <1>5, <2>4, <2>5
<1> QED BY <1>7, <1>8

(* There the path names the row, each label the row above that has it as its *)
(* code, and a row with another below it has a child.                        *)
LEMMA LivePaths ==
  ASSUME NEW s, TasksAreSound, PathsAreRight(s), NEW m \in Nodes, NEW n \in Nodes, LiveIn(s, m), LiveIn(s, n)
  PROVE  /\ node[m].path = node[n].path => m = n
         /\ \A k \in 1..Len(node[n].path) :
              node[n].path[k] = node[m].code => Under(node[n].path, node[m].path)
         /\ Under(node[n].path, node[m].path) /\ m # n =>
              \E x \in Nodes : LiveIn(s, x) /\ node[x].parent = m
<1>1. \A x, y \in Nodes : LiveIn(s, x) /\ LiveIn(s, y) /\ node[x].code = node[y].code => x = y
  BY DEF TasksAreSound, CodesDiffer, LiveIn, Key
<1>2. \A x, y \in Nodes : LiveIn(s, x) /\ LiveIn(s, y) /\ node[x].path = node[y].path => x = y
  BY <1>1, LiveFacts
<1>3. ASSUME NEW k \in 1..Len(node[n].path), node[n].path[k] = node[m].code
      PROVE  Under(node[n].path, node[m].path)
  <2>1. PICK x \in Nodes : LiveIn(s, x) /\ Len(node[x].path) = k /\ Under(node[n].path, node[x].path)
    BY Chain
  <2>2. /\ node[x].path \in Paths /\ node[n].path \in Paths
        /\ Len(node[x].path) >= 1 /\ Len(node[x].path) \in Nat /\ node[x].path[k] = node[x].code
    BY <2>1, LiveFacts
  <2>3. node[n].path[k] = node[x].path[k]
    <3>1. k \in 1..Len(node[x].path)
      BY <2>1, <2>2
    <3> QED BY <2>1, <2>2, <3>1, UnderMeans
  <2> QED BY <1>1, <1>3, <2>1, <2>2, <2>3
<1>4. ASSUME Under(node[n].path, node[m].path), m # n
      PROVE  \E x \in Nodes : LiveIn(s, x) /\ node[x].parent = m
  <2> DEFINE a == node[n].path
             b == node[m].path
  <2>1. a \in Paths /\ b \in Paths /\ Len(a) \in Nat /\ Len(b) \in Nat /\ Len(b) >= 1
    BY LiveFacts
  <2>2. Len(b) <= Len(a) /\ (Len(b) = Len(a) => a = b)
    BY <1>4, <2>1, UnderMeans, UnderOrder
  <2>3. Len(b) + 1 \in 1..Len(a)
    <3>1. Len(b) # Len(a)
      BY <1>2, <1>4, <2>2
    <3> HIDE DEF a, b
    <3> QED BY <2>1, <2>2, <3>1
  <2>4. PICK x \in Nodes : LiveIn(s, x) /\ Len(node[x].path) = Len(b) + 1 /\ Under(a, node[x].path)
    BY <2>3, Chain
  <2> DEFINE q == node[x].parent
  <2>5. q # NoParent
    <3>1. q = NoParent => Len(node[x].path) = 1
      BY <2>4, LiveFacts
    <3> HIDE DEF a, b
    <3> QED BY <2>1, <2>4, <3>1
  <2>6. /\ q \in Nodes /\ LiveIn(s, q) /\ Len(node[x].path) = Len(node[q].path) + 1
        /\ Under(node[x].path, node[q].path) /\ node[x].path \in Paths
    BY <2>4, <2>5, LiveFacts
  <2>7. node[q].path \in Paths /\ Len(node[q].path) \in Nat
    BY <2>6, LiveFacts
  <2>8. Under(a, node[q].path) /\ Len(node[q].path) = Len(b)
    <3>1. Under(a, node[q].path)
      BY <2>1, <2>4, <2>6, <2>7, UnderOrder
    <3> HIDE DEF a, b
    <3> QED BY <2>1, <2>4, <2>6, <2>7, <3>1
  <2>9. node[q].path = b
    BY <1>4, <2>1, <2>7, <2>8, UnderOrder
  <2> QED BY <1>2, <2>4, <2>6, <2>9
<1> QED BY <1>2, <1>3, <1>4

(* What a PATCH that is rewriting paths has.                                 *)
LEMMA MoveFacts ==
  ASSUME NEW s, TasksAreSound, PathsAreRight(s), NEW u \in TreeTasks, work[u].step = "repath", work[u].site = s
  PROVE  /\ work[u].node \in Nodes /\ LiveIn(s, work[u].node) /\ node[work[u].node].path = work[u].old
         /\ work[u].node \in Held(u) /\ work[u].old \in Paths
         /\ work[u].rows[work[u].node].parent # work[u].node
         /\ NewRows(u) = {} /\ Placed(u) = {work[u].node}
         /\ \A c \in Codes \ {node[work[u].node].code} :
              /\ ~Under(<<c>>, work[u].old)
              /\ \A p \in Paths : Under(Append(p, c), work[u].old) => Under(p, work[u].old)
<1> DEFINE n == work[u].node
           old == work[u].old
<1>1. /\ n \in Held(u) /\ LiveIn(s, n) /\ node[n].path = old /\ work[u].rows[n].parent # n
      /\ \A m \in Held(u) : IsARow(m)
      /\ Held(u) \subseteq Nodes
  BY TreeFacts DEF Fits, Moves, Held, LiveIn, RowOf
<1>2. n \in Nodes /\ old \in Paths /\ old # <<>> /\ old[Len(old)] = node[n].code
  BY <1>1, LiveFacts
<1>3. NewRows(u) = {} /\ Placed(u) = {n}
  BY <1>1 DEF NewRows, Placed, Held, IsARow
<1>4. ASSUME NEW c \in Codes, c # node[n].code
      PROVE  /\ ~Under(<<c>>, old)
             /\ \A p \in Paths : Under(Append(p, c), old) => Under(p, old)
  <2> HIDE DEF n, old
  <2>1. old # <<c>> /\ \A p \in Paths : old # Append(p, c)
    <3>1. \A p \in Paths : LET path == Append(p, c) IN path[Len(path)] = c
      BY AppendFacts
    <3>2. LET path == <<c>> IN path[Len(path)] = c
      OBVIOUS
    <3> QED BY <1>2, <1>4, <3>1, <3>2
  <2>2. ~Under(<<c>>, old)
    BY <1>2, <2>1, RootFacts
  <2> QED BY <1>2, <2>1, <2>2, AppendFacts
<1> QED BY <1>1, <1>2, <1>3, <1>4

(* What a transaction with a new row has.                                    *)
LEMMA PendingInsertFacts ==
  ASSUME NEW s, TasksAreSound, NEW t \in TreeTasks, work[t].site = s, NEW x \in NewRows(t)
  PROVE  /\ x \in Nodes /\ x \in Held(t) /\ ~IsARow(x) /\ x \in Placed(t)
         /\ Held(t) = NewRows(t) /\ Held(t) \subseteq Nodes /\ NoParent \notin Held(t)
         /\ work[t].step \notin {"repath", "delete"}
         /\ work[t].rows[x] \in Row /\ work[t].rows[x].state = "live" /\ work[t].rows[x].code \in Codes
         /\ work[t].rows[x].path \in Paths /\ work[t].rows[x].parent \in Nodes \cup {NoParent}
         /\ work[t].rows[x].site = s
         /\ \A n \in Nodes : LiveIn(s, n) => node[n].code # work[t].rows[x].code
<1>1. x \in Held(t) /\ ~IsARow(x)
  BY DEF NewRows
<1>2. work[t].step # "repath"
  BY <1>1, TreeFacts DEF Fits, Moves, RowOf, Held
<1>3. work[t].step # "delete"
  BY <1>1, TreeFacts, NothingFacts DEF Fits, Held
<1>4. /\ x \in Nodes /\ Held(t) \subseteq Nodes /\ NoParent \notin Held(t)
      /\ work[t].rows[x] \in Row /\ work[t].rows[x].code \in Codes
      /\ work[t].rows[x].path \in Paths /\ work[t].rows[x].parent \in Nodes \cup {NoParent}
  BY <1>1, TreeFacts DEF Real, Row, Paths
<1>5. Held(t) = NewRows(t) /\ work[t].rows[x].state = "live" /\ work[t].rows[x].site = s
  BY <1>1, <1>2, TreeFacts DEF Fits, NewOnly, NewRows, Held
<1>6. \A n \in Nodes : LiveIn(s, n) => node[n].code # work[t].rows[x].code
  BY <1>5 DEF TasksAreSound, CodesDiffer, LiveIn, Key
<1>7. x \in Placed(t)
  BY <1>1 DEF Placed, Held, IsARow
<1> QED BY <1>1, <1>2, <1>3, <1>4, <1>5, <1>6, <1>7

(* Nothing that others rely on changes when a transaction goes on that begins neither *)
(* a deletion nor a move.                                                      *)
LEMMA QuietMeans ==
  ASSUME NEW s, TasksAreSound, NEW t \in TreeTasks, NEW w, node' = node, work' = [work EXCEPT ![t] = w],
         w.step = "delete" => work[t].step = "delete" /\ work[t].node = w.node /\ work[t].site = w.site,
         RewritesIn(s, t)' => RewritesIn(s, t) /\ w.old = work[t].old
  PROVE  /\ work'[t] = w /\ \A u \in TreeTasks \ {t} : work'[u] = work[u]
         /\ \A q : DeletingIn(s, q)' => DeletingIn(s, q)
         /\ \A u \in TreeTasks : RewritesIn(s, u)' => RewritesIn(s, u) /\ work'[u].old = work[u].old
<1>1. /\ work'[t] = w /\ \A u \in TreeTasks \ {t} : work'[u] = work[u]
  BY DEF TasksAreSound, TreeTyped
<1>2. \A q : DeletingIn(s, q)' => DeletingIn(s, q)
  BY <1>1 DEF DeletingIn
<1>3. \A u \in TreeTasks : RewritesIn(s, u)' => RewritesIn(s, u) /\ work'[u].old = work[u].old
  BY <1>1 DEF RewritesIn, Rewrites
<1> QED BY <1>1, <1>2, <1>3

(* A step that commits nothing keeps the paths right if it begins no delete  *)
(* and no rewrite and its own task stays firm.                               *)
LEMMA QuietKeeps ==
  ASSUME NEW s, TasksAreSound, PlacesAreFirm(s), NEW t \in TreeTasks, node' = node,
         \A u \in TreeTasks \ {t} : work'[u] = work[u],
         \A q : DeletingIn(s, q)' => DeletingIn(s, q),
         \A u \in TreeTasks : RewritesIn(s, u)' => RewritesIn(s, u) /\ work'[u].old = work[u].old,
         FirmTask(s, t)'
  PROVE  PlacesAreFirm(s)'
<1>1. PathsAreRight(s)' /\ DeletedAreBare(s)'
  BY DEF PlacesAreFirm, PathsAreRight, DeletedAreBare, Right, LiveIn, Live
<1>2. ASSUME NEW u \in TreeTasks \ {t} PROVE FirmTask(s, u)'
  <2> SUFFICES ASSUME work[u].site = s PROVE FirmTask(s, u)'
    BY DEF FirmTask
  <2>1. FirmTask(s, u)
    BY DEF PlacesAreFirm
  <2>2. MovesAreWhole(s, u)'
    BY <2>1 DEF FirmTask, MovesAreWhole, RewritesIn, Rewrites, LiveIn, Live, Held
  <2>3. work[u].step = "repath" => FirmMove(s, u)'
    BY <2>1 DEF FirmTask, FirmMove, Right, LiveIn, Live
  <2>4. ASSUME NEW x \in NewRows(u)' PROVE FirmNew(s, u, x)'
    <3>1. x \in NewRows(u)
      BY <2>4 DEF NewRows, Held, IsARow
    <3>2. FirmNew(s, u, x)
      BY <2>1, <3>1 DEF FirmTask
    <3> QED BY <3>2 DEF FirmNew, Right, LiveIn, Live, Held
  <2> QED BY <2>2, <2>3, <2>4 DEF FirmTask
<1> QED BY <1>1, <1>2 DEF PlacesAreFirm

(* A transaction that takes no new rows.                                          *)
LEMMA BareFirm ==
  ASSUME NEW s, TasksAreSound, PlacesAreFirm(s), NEW t \in TreeTasks, NEW w,
         node' = node, work' = [work EXCEPT ![t] = w],
         w.rows = <<>> \/ (w.rows = work[t].rows /\ w.site = work[t].site), w.step \notin {"repath", "delete"}
  PROVE  PlacesAreFirm(s)'
<1>1. work'[t] = w /\ ~RewritesIn(s, t)'
  BY DEF TasksAreSound, TreeTyped, RewritesIn, Rewrites
<1>2. /\ \A u \in TreeTasks \ {t} : work'[u] = work[u]
      /\ \A q : DeletingIn(s, q)' => DeletingIn(s, q)
      /\ \A u \in TreeTasks : RewritesIn(s, u)' => RewritesIn(s, u) /\ work'[u].old = work[u].old
  BY <1>1, QuietMeans
<1>3. ASSUME NEW x \in NewRows(t)', w.site = s PROVE FirmNew(s, t, x)'
  <2>1. w.rows = work[t].rows /\ work[t].site = s
    BY <1>1, <1>3, NothingFacts DEF NewRows, Held
  <2>2. x \in NewRows(t)
    BY <1>1, <1>3, <2>1 DEF NewRows, Held, IsARow
  <2>3. FirmNew(s, t, x)
    BY <2>1, <2>2 DEF PlacesAreFirm, FirmTask
  <2> QED BY <1>1, <1>2, <2>1, <2>3 DEF FirmNew, Right, LiveIn, Live, Held
<1>4. FirmTask(s, t)'
  BY <1>1, <1>3 DEF FirmTask, MovesAreWhole
<1> QED BY <1>2, <1>4, QuietKeeps

(* A rollback commits nothing.                                               *)
LEMMA DropFirm ==
  ASSUME NEW s, TasksAreSound, PlacesAreFirm(s), NEW t \in TreeTasks,
         node' = node, work' = [work EXCEPT ![t] = NoWork]
  PROVE  PlacesAreFirm(s)'
BY NoWorkFacts, BareFirm

(* What is done in another site leaves a site as it is.                      *)
LEMMA ForeignFirm ==
  ASSUME NEW s, TasksAreSound, PlacesAreFirm(s), NEW t \in TreeTasks,
         \A u \in TreeTasks \ {t} : work'[u] = work[u],
         work'[t] = NoWork \/ work'[t].site # s,
         \A x \in Nodes : (LiveIn(s, x)' <=> LiveIn(s, x)) /\ (LiveIn(s, x) => node'[x] = node[x])
                         /\ (IsARow(x) => IsARow(x)')
  PROVE  PlacesAreFirm(s)'
<1>1. /\ \A q : DeletingIn(s, q)' => DeletingIn(s, q)
      /\ \A u \in TreeTasks : RewritesIn(s, u)' => RewritesIn(s, u) /\ work'[u].old = work[u].old
      /\ ~RewritesIn(s, t)'
  BY NoWorkFacts DEF DeletingIn, RewritesIn, Rewrites
<1>2. \A q \in Nodes \cup {NoParent} : q # NoParent /\ LiveIn(s, q) => LiveIn(s, q)' /\ node'[q] = node[q]
  OBVIOUS
<1>3. ASSUME NEW row, row.parent \in Nodes \cup {NoParent}, Right(s, row)
      PROVE  /\ row.parent = NoParent => row.path = <<row.code>>
             /\ row.parent # NoParent => LiveIn(s, row.parent)' /\ row.path = Append(node'[row.parent].path, row.code)
  BY <1>2, <1>3 DEF Right
<1>4. PathsAreRight(s)' /\ DeletedAreBare(s)'
  <2>1. ASSUME NEW x \in Nodes, LiveIn(s, x)' PROVE Right(s, node[x])' /\ ~DeletingIn(s, node[x].parent)'
    <3>1. PICK row : row = node[x] /\ node'[x] = row /\ LiveIn(s, x)
      BY <2>1
    <3>2. row.parent \in Nodes \cup {NoParent} /\ Right(s, row) /\ ~DeletingIn(s, row.parent)
      BY <3>1, TreeFacts DEF PlacesAreFirm, PathsAreRight, DeletedAreBare
    <3> QED BY <1>1, <1>3, <3>1, <3>2 DEF Right
  <2> QED BY <2>1 DEF PathsAreRight, DeletedAreBare
<1>5. ASSUME NEW u \in TreeTasks \ {t} PROVE FirmTask(s, u)'
  <2> SUFFICES ASSUME work[u].site = s PROVE FirmTask(s, u)'
    BY DEF FirmTask
  <2>1. FirmTask(s, u) /\ work'[u] = work[u]
    BY DEF PlacesAreFirm
  <2>2. MovesAreWhole(s, u)'
    BY <1>1, <2>1 DEF FirmTask, MovesAreWhole, Held
  <2>3. ASSUME work[u].step = "repath" PROVE FirmMove(s, u)'
    <3>1. PICK row : row = work[u].rows[work[u].node]
      OBVIOUS
    <3>2. FirmMove(s, u) /\ row.parent \in Nodes \cup {NoParent}
      <4>1. work[u].node \in Held(u)
        BY <2>3, MoveFacts DEF PlacesAreFirm
      <4> QED BY <2>1, <2>3, <3>1, <4>1, TreeFacts DEF FirmTask, Row
    <3>3. Right(s, row) /\ ~DeletingIn(s, row.parent)
      BY <3>1, <3>2 DEF FirmMove
    <3>4. row.parent # NoParent => LiveIn(s, row.parent)
      BY <3>3 DEF Right
    <3>5. row.parent # NoParent => node'[row.parent] = node[row.parent] /\ LiveIn(s, row.parent)'
      BY <1>2, <3>2, <3>4
    <3>6. row.parent # NoParent => node'[row.parent].state = "live" /\ node'[row.parent].site = s
      BY <3>5 DEF LiveIn, Live
    <3>7. /\ ~DeletingIn(s, row.parent)'
          /\ row.parent = NoParent => row.path = <<row.code>>
          /\ row.parent # NoParent => row.path = Append(node'[row.parent].path, row.code)
      BY <1>1, <1>3, <3>2, <3>3
    <3>8. row.parent # NoParent =>
            /\ ~Under(node'[row.parent].path, work[u].old)
            /\ \A v \in TreeTasks : RewritesIn(s, v)' /\ Under(node'[row.parent].path, work'[v].old)
                 => Under(work[u].old, work'[v].old)
      BY <1>1, <3>1, <3>2, <3>5 DEF FirmMove
    <3> QED BY <2>1, <3>1, <3>5, <3>6, <3>7, <3>8 DEF FirmMove, Right, LiveIn, Live
  <2>4. ASSUME NEW x \in NewRows(u)' PROVE FirmNew(s, u, x)'
    <3>1. x \in NewRows(u)
      <4>1. x \in Held(u) /\ x \in Nodes
        BY <2>1, <2>4, TreeFacts DEF NewRows, Held
      <4> QED BY <2>4, <4>1 DEF NewRows
    <3>2. PICK row : row = work[u].rows[x]
      OBVIOUS
    <3>3. FirmNew(s, u, x) /\ row.parent \in Nodes \cup {NoParent}
      BY <2>1, <3>1, <3>2, PendingInsertFacts DEF FirmTask
    <3>4. row.parent \notin Held(u) => Right(s, row)
      BY <3>2, <3>3 DEF FirmNew
    <3>5. row.parent # NoParent /\ row.parent \notin Held(u) => LiveIn(s, row.parent)
      BY <3>4 DEF Right
    <3>6. row.parent # NoParent /\ row.parent \notin Held(u) =>
            node'[row.parent] = node[row.parent] /\ LiveIn(s, row.parent)'
      BY <1>2, <3>3, <3>5
    <3>7. row.parent # NoParent /\ row.parent \notin Held(u) =>
            node'[row.parent].state = "live" /\ node'[row.parent].site = s
      BY <3>6 DEF LiveIn, Live
    <3> QED BY <1>1, <2>1, <3>2, <3>3, <3>4, <3>6, <3>7 DEF FirmNew, Right, LiveIn, Live, Held
  <2> QED BY <2>1, <2>2, <2>3, <2>4 DEF FirmTask
<1>6. FirmTask(s, t)'
  BY <1>1, NoWorkFacts, NothingFacts DEF FirmTask, MovesAreWhole, NewRows, Held
<1> QED BY <1>4, <1>5, <1>6 DEF PlacesAreFirm

(* So does a step of a transaction of another site that commits nothing.          *)
LEMMA ElsewhereFirm ==
  ASSUME NEW s, TasksAreSound, PlacesAreFirm(s), NEW t \in TreeTasks, NEW w,
         node' = node, work' = [work EXCEPT ![t] = w], w = NoWork \/ w.site # s
  PROVE  PlacesAreFirm(s)'
<1>1. work'[t] = w /\ \A u \in TreeTasks \ {t} : work'[u] = work[u]
  BY DEF TasksAreSound, TreeTyped
<1>2. \A x \in Nodes : (LiveIn(s, x)' <=> LiveIn(s, x)) /\ node'[x] = node[x] /\ (IsARow(x) => IsARow(x)')
  BY DEF LiveIn, Live, IsARow
<1> QED BY <1>1, <1>2, ForeignFirm

(* And its commit.                                                           *)
LEMMA CommitElsewhere ==
  ASSUME NEW s, TasksAreSound, PlacesAreFirm(s), NEW t \in TreeTasks, NEW rows, CommitRows(t, rows),
         \A x \in DOMAIN rows : rows[x].site # s /\ rows[x].state \in {"live", "deleted"} /\ ~LiveIn(s, x)
  PROVE  PlacesAreFirm(s)'
<1>1. /\ work'[t] = NoWork /\ \A u \in TreeTasks \ {t} : work'[u] = work[u]
      /\ \A x \in Nodes : node'[x] = IF x \in DOMAIN rows THEN rows[x] ELSE node[x]
  BY DEF CommitRows, TasksAreSound, TreeTyped
<1>2. NoRow.state = "none"
  BY DEF NoRow
<1>3. ASSUME NEW x \in Nodes
      PROVE  (LiveIn(s, x)' <=> LiveIn(s, x)) /\ (LiveIn(s, x) => node'[x] = node[x]) /\ (IsARow(x) => IsARow(x)')
  <2>1. CASE x \in DOMAIN rows
    BY <1>1, <1>2, <2>1 DEF LiveIn, Live, IsARow
  <2>2. CASE x \notin DOMAIN rows
    BY <1>1, <2>2 DEF LiveIn, Live, IsARow
  <2> QED BY <2>1, <2>2
<1> QED BY <1>1, <1>3, ForeignFirm

(* The rows of a transaction are of its site, in the tree and in itself.          *)
LEMMA RowsOfSite ==
  ASSUME TasksAreSound, NEW t \in TreeTasks, NEW x \in Held(t)
  PROVE  work[t].rows[x].site = work[t].site /\ (IsARow(x) => node[x].site = work[t].site)
<1>1. CASE work[t].step # "repath"
  BY <1>1, TreeFacts DEF Fits, NewOnly, Held
<1>2. CASE work[t].step = "repath" /\ x = work[t].node
  BY <1>2, TreeFacts DEF Fits, Moves, Held, RowOf
<1>3. CASE work[t].step = "repath" /\ x # work[t].node
  <2>3. Moves(work[t]) /\ x \in Nodes
    BY <1>3, TreeFacts DEF Fits
  <2>4. PICK p : work[t].rows[x] = [node[x] EXCEPT !.path = p]
    BY <1>3, <2>3 DEF Moves, Held
  <2>5. RowOf(work[t].site, x)
    BY <2>3 DEF Moves, Held
  <2>1. RowOf(work[t].site, x) /\ x \in Nodes /\ work[t].rows[x] = [node[x] EXCEPT !.path = p]
    BY <2>3, <2>4, <2>5
  <2>2. node[x] \in Row
    BY <2>1, TreeFacts
  <2> QED BY <2>1, <2>2 DEF Row, RowOf
<1> QED BY <1>1, <1>2, <1>3

(* The commit of the rows of a transaction of another site.                  *)
LEMMA OwnElsewhere ==
  ASSUME NEW s, TasksAreSound, PlacesAreFirm(s), NEW t \in TreeTasks, work[t].site # s,
         CommitRows(t, work[t].rows)
  PROVE  PlacesAreFirm(s)'
<1>1. ASSUME NEW x \in DOMAIN work[t].rows
      PROVE  work[t].rows[x].site # s /\ work[t].rows[x].state \in {"live", "deleted"} /\ ~LiveIn(s, x)
  <2>1. x \in Held(t) /\ x \in Nodes
    BY TreeFacts DEF Held
  <2> QED BY <2>1, RowsOfSite, TreeFacts DEF Real, RowOf
<1> QED BY <1>1, CommitElsewhere

(* A new row, of an insert or an import.                                          *)
AddsRow(t, w, x, q, c) ==
  /\ work' = [work EXCEPT ![t] = w] /\ node' = node
  /\ w.step = work[t].step /\ w.step \in {"insert", "pass"} /\ w.site = work[t].site
  /\ x \in Nodes /\ ~IsARow(x) /\ x \notin Held(t)
  /\ DOMAIN w.rows = Held(t) \cup {x}
  /\ w.rows[x] = NewRow(t, q, c)
  /\ \A y \in Held(t) : w.rows[y] = work[t].rows[y]

(* A transaction that adds a row under a parent that stays where it is       *)
(* remains firm.                                                             *)
LEMMA MadeFirm ==
  ASSUME NEW s, TasksAreSound, PlacesAreFirm(s), NEW t \in TreeTasks, NEW w, NEW x,
         NEW q \in Nodes \cup {NoParent}, NEW c \in Codes, AddsRow(t, w, x, q, c),
         q # NoParent => q \in Held(t) \/ RowOf(work[t].site, q),
         NewCode(t, <<work[t].site, c>>), ~Astray(x, q)
  PROVE  PlacesAreFirm(s)'
<1>0. CASE work[t].site # s
  BY <1>0, ElsewhereFirm DEF AddsRow
<1> SUFFICES ASSUME work[t].site = s PROVE PlacesAreFirm(s)'
  BY <1>0
<1>1. /\ work'[t] = w /\ ~RewritesIn(s, t)' /\ ~RewritesIn(s, t) /\ Held(t)' = Held(t) \cup {x}
      /\ work' = [work EXCEPT ![t] = w] /\ node' = node /\ w.step \in {"insert", "pass"}
      /\ work[t].step \in {"insert", "pass"} /\ w.site = s
  BY DEF TasksAreSound, TreeTyped, RewritesIn, Rewrites, AddsRow, Held
<1>2. /\ \A u \in TreeTasks \ {t} : work'[u] = work[u]
      /\ \A p : DeletingIn(s, p)' => DeletingIn(s, p)
      /\ \A u \in TreeTasks : RewritesIn(s, u)' => RewritesIn(s, u) /\ work'[u].old = work[u].old
  <2>1. \A u \in TreeTasks \ {t} : work'[u] = work[u]
    BY <1>1 DEF TasksAreSound, TreeTyped
  <2>2. work'[t].step # "delete"
    BY <1>1
  <2> QED BY <1>1, <2>1, <2>2 DEF DeletingIn, RewritesIn, Rewrites
<1>3. Held(t) = NewRows(t) /\ Held(t) \subseteq Nodes
  BY <1>1, TreeFacts DEF Fits, NewOnly, NewRows, Held
<1>4. ASSUME NEW y \in Held(t) PROVE FirmNew(s, t, y)'
  <2>1. FirmNew(s, t, y) /\ work'[t].rows[y] = work[t].rows[y]
    BY <1>1, <1>3, <1>4 DEF PlacesAreFirm, FirmTask, AddsRow
  <2> DEFINE p == work[t].rows[y].parent
  <2>2. CASE p \in Held(t)
    BY <1>1, <1>2, <2>1, <2>2 DEF FirmNew, AddsRow
  <2>3. CASE p \notin Held(t)
    <3>1. p # x
      <4>1. p = NoParent \/ LiveIn(s, p)
        BY <2>1, <2>3 DEF FirmNew, Right
      <4> QED BY <4>1, TreeFacts DEF AddsRow
    <3> QED BY <1>1, <1>2, <2>1, <2>3, <3>1 DEF FirmNew, Right, LiveIn, Live
  <2> QED BY <2>2, <2>3
<1>5. FirmNew(s, t, x)'
  <2> DEFINE row == NewRow(t, q, c)
  <2>1. /\ work'[t].rows[x] = row /\ row.parent = q /\ row.code = c
        /\ row.path = PathIn(t, q, c)
    BY <1>1, NewRowFacts DEF AddsRow
  <2>2. \A u \in TreeTasks : RewritesIn(s, u) =>
          /\ ~Under(<<c>>, work[u].old)
          /\ \A p \in Paths : Under(Append(p, c), work[u].old) => Under(p, work[u].old)
    <3> SUFFICES ASSUME NEW u \in TreeTasks, RewritesIn(s, u)
                 PROVE  /\ ~Under(<<c>>, work[u].old)
                        /\ \A p \in Paths : Under(Append(p, c), work[u].old) => Under(p, work[u].old)
      OBVIOUS
    <3>1. PICK m : m = work[u].node
      OBVIOUS
    <3>2. m \in Nodes /\ LiveIn(s, m) /\ PathsAreRight(s) /\ work[u].step = "repath" /\ work[u].site = s
      BY <3>1, MoveFacts DEF PlacesAreFirm, RewritesIn, Rewrites
    <3>3. c # node[m].code
      BY <3>2 DEF NewCode, LiveIn, Key
    <3> QED BY <3>1, <3>2, <3>3, MoveFacts
  <2>3. NoParent \notin Held(t) /\ NoParent # x
    BY TreeFacts DEF AddsRow
  <2> HIDE DEF row
  <2>4. CASE q = NoParent
    <3>1. PathIn(t, q, c) = <<c>> /\ ~DeletingIn(s, q)
      BY <2>4, TreeFacts DEF PathIn, DeletingIn, Fits
    <3>2. q \notin Held(t)' /\ ~DeletingIn(s, q)'
      BY <1>1, <1>2, <2>3, <2>4, <3>1
    <3>3. Right(s, work[t].rows[x])'
      BY <2>1, <2>4, <3>1 DEF Right
    <3>4. \A u \in TreeTasks : RewritesIn(s, u)' => ~Under(work'[t].rows[x].path, work'[u].old)
      BY <1>2, <2>1, <2>2, <3>1
    <3> QED BY <2>1, <2>4, <3>2, <3>3, <3>4 DEF FirmNew
  <2>5. CASE q \in Held(t)
    <3>1. /\ PathIn(t, q, c) = Append(work[t].rows[q].path, c) /\ work[t].rows[q].path \in Paths
          /\ work'[t].rows[q] = work[t].rows[q]
      BY <1>1, <1>3, <2>3, <2>5, PendingInsertFacts DEF PathIn, Seen, AddsRow, Held
    <3>2. \A u \in TreeTasks : RewritesIn(s, u) => ~Under(work[t].rows[q].path, work[u].old)
      BY <1>3, <2>5 DEF PlacesAreFirm, FirmTask, FirmNew
    <3>3. q \in Held(t)'
      BY <1>1, <2>5
    <3>4. \A u \in TreeTasks : RewritesIn(s, u)' => ~Under(work'[t].rows[x].path, work'[u].old)
      BY <1>2, <2>1, <2>2, <3>1, <3>2
    <3>5. work'[t].rows[x].path = Append(work'[t].rows[q].path, work'[t].rows[x].code)
      BY <2>1, <3>1
    <3> QED BY <2>1, <3>3, <3>4, <3>5 DEF FirmNew
  <2>6. CASE q # NoParent /\ q \notin Held(t)
    <3>1. IsARow(q) /\ node[q].site = s /\ PathIn(t, q, c) = Append(node[q].path, c) /\ node[q].path \in Paths /\ q # x
      BY <2>6, TreeFacts DEF PathIn, Held, AddsRow, RowOf
    <3>2. /\ LiveIn(s, q) /\ ~DeletingIn(s, q)
          /\ \A u \in TreeTasks : RewritesIn(s, u) => ~Under(node[q].path, work[u].old)
      <4>1. \A u \in TreeTasks : RewritesIn(s, u) => work[u].node # x
        BY MoveFacts, TreeFacts DEF PlacesAreFirm, RewritesIn, Rewrites, AddsRow
      <4> QED BY <2>6, <3>1, <4>1 DEF Astray, LiveIn, DeletingIn, RewritesIn, Outside, IsARow, AddsRow
    <3>3. q \notin Held(t)' /\ ~DeletingIn(s, q)'
      BY <1>1, <1>2, <2>6, <3>1, <3>2
    <3>4. LiveIn(s, q)' /\ node'[q] = node[q]
      BY <1>1, <3>2 DEF LiveIn, Live
    <3>5. Right(s, work[t].rows[x])'
      BY <2>1, <2>6, <3>1, <3>4 DEF Right
    <3>6. \A u \in TreeTasks : RewritesIn(s, u)' => ~Under(node'[q].path, work'[u].old)
      BY <1>2, <3>2, <3>4
    <3>7. \A u \in TreeTasks : RewritesIn(s, u)' => ~Under(work'[t].rows[x].path, work'[u].old)
      BY <1>2, <2>1, <2>2, <3>1, <3>2
    <3> QED BY <2>1, <3>3, <3>5, <3>6, <3>7 DEF FirmNew
  <2> QED BY <2>4, <2>5, <2>6
<1>6. FirmTask(s, t)'
  BY <1>1, <1>4, <1>5 DEF FirmTask, MovesAreWhole, NewRows
<1> QED BY <1>1, <1>2, <1>6, QuietKeeps

(* The insert of a create is such a step, unless it goes astray.             *)
LEMMA InsertNodeFirm ==
  ASSUME NEW s, TasksAreSound, PlacesAreFirm(s), NEW t \in TreeTasks, InsertNode(t), s \notin stray'
  PROVE  PlacesAreFirm(s)'
<1> DEFINE w == work[t]
           new == NewRow(t, w.parent, w.code)
           mine == With(<<>>, NextId, new)
           v == [w EXCEPT !.node = NextId, !.rows = mine]
<1>1. /\ w.step = "insert" /\ w.rows = <<>> /\ Fresh # {} /\ ~CodeHeld(t, w.code) /\ node' = node
      /\ \/ work' = [work EXCEPT ![t] = NoWork]
         \/ /\ ~CodeTaken(t, NoParent, w.code) /\ work' = [work EXCEPT ![t] = v]
            /\ (w.site = s => ~Astray(NextId, w.parent))
  BY DEF InsertNode, Do, Write, NewRow, LiveRow
<1>2. CASE work' = [work EXCEPT ![t] = NoWork]
  BY <1>1, <1>2, DropFirm
<1>3. CASE ~CodeTaken(t, NoParent, w.code) /\ work' = [work EXCEPT ![t] = v] /\ (w.site = s => ~Astray(NextId, w.parent))
  <2>1. /\ w \in Transaction /\ w.code \in Codes
        /\ w.parent \in Nodes \cup {NoParent} /\ (w.parent # NoParent => RowOf(w.site, w.parent))
    BY <1>1, TreeFacts DEF Fits, Transaction
  <2>2. new \in Row
    BY <2>1, NewRowFacts
  <2>3. NextId \in Nodes /\ ~IsARow(NextId) /\ NextId \notin Held(t) /\ NewCode(t, <<w.site, w.code>>)
    BY <1>1, <1>3, <2>1, FreshFacts
  <2>4. Held(t) = {}
    BY <1>1, NothingFacts DEF Held
  <2> HIDE DEF new
  <2>5. DOMAIN mine = {NextId} /\ mine[NextId] = new
    BY <2>2, <2>3, OneRowFacts
  <2> HIDE DEF mine
  <2>6. v.step = "insert" /\ v.rows = mine /\ v.site = w.site
    BY <1>1, <2>1 DEF Transaction
  <2> HIDE DEF v
  <2>7. AddsRow(t, v, NextId, w.parent, w.code)
    BY <1>1, <1>3, <2>3, <2>4, <2>5, <2>6 DEF AddsRow, new
  <2>8. CASE w.site # s
    BY <1>1, <1>3, <2>6, <2>8, ElsewhereFirm
  <2>9. CASE w.site = s
    BY <1>3, <2>1, <2>3, <2>7, <2>9, MadeFirm
  <2> QED BY <2>8, <2>9
<1> QED BY <1>1, <1>2, <1>3

(* So is the row that an import makes.                                       *)
LEMMA MakesRowFirm ==
  ASSUME NEW s, TasksAreSound, PlacesAreFirm(s), NEW t \in TreeTasks, NEW w, NEW remaining, NEW r, NEW q,
         NextRow(t, w, remaining, r), MakesRow(t, w, remaining, r, q), node' = node, s \notin stray'
  PROVE  PlacesAreFirm(s)'
<1> DEFINE c == r[1]
           new == NewRow(t, q, c)
           v == AfterMade(w, remaining, c, NextId, new)
<1>1. /\ w = work[t] /\ w.step = "pass" /\ remaining \in Seq(FileRow) /\ Len(w.file) = Len(remaining) + 1
      /\ r \in FileRow /\ c \in Codes
      /\ q \in Nodes \cup {NoParent} /\ (q # NoParent => r[2] \in DOMAIN w.known /\ q = w.known[r[2]])
      /\ ~CodeHeld(t, c) /\ Fresh # {} /\ ~CodeTaken(t, NoParent, c) /\ (w.site = s => ~Astray(NextId, q))
      /\ work' = [work EXCEPT ![t] = v]
  BY DEF NextRow, MakesRow
<1>2. w \in Transaction /\ Imports(w) /\ DOMAIN w.rows = Held(t)
  BY <1>1, TreeFacts DEF Fits, Held
<1>3. NextId \in Nodes /\ ~IsARow(NextId) /\ NextId \notin Held(t) /\ NewCode(t, <<w.site, c>>)
  BY <1>1, FreshFacts
<1>4. new \in Row
  BY <1>1, NewRowFacts
<1> HIDE DEF new, c
<1>5. /\ v.step = w.step /\ v.site = w.site /\ DOMAIN v.rows = DOMAIN w.rows \cup {NextId} /\ v.rows[NextId] = new
      /\ \A x \in DOMAIN w.rows \ {NextId} : v.rows[x] = w.rows[x]
  BY <1>1, <1>2, <1>3, <1>4, MadeFacts
<1> HIDE DEF v
<1>6. AddsRow(t, v, NextId, q, c)
  BY <1>1, <1>2, <1>3, <1>5 DEF AddsRow, new
<1>7. q # NoParent => q \in Held(t) \/ RowOf(w.site, q)
  BY <1>1, <1>2 DEF Imports
<1>8. CASE w.site # s
  BY <1>1, <1>5, <1>8, ElsewhereFirm
<1>9. CASE w.site = s
  BY <1>1, <1>3, <1>6, <1>7, <1>9, MadeFirm
<1> QED BY <1>8, <1>9

(* A step of an import that makes no row changes nothing that places depend  *)
(* on.                                                                       *)
LEMMA PassFirm ==
  ASSUME NEW s, TasksAreSound, PlacesAreFirm(s), NEW t \in TreeTasks, work[t].step = "pass",
         NEW w, w.rows = work[t].rows, w.site = work[t].site, w.step \in {"pass", "done"},
         node' = node, work' = [work EXCEPT ![t] = w]
  PROVE  PlacesAreFirm(s)'
BY BareFirm

(* An import that goes on to its next row has the same rows.                 *)
LEMMA AfterFacts ==
  ASSUME NEW w \in Transaction, NEW remaining, NEW r
  PROVE  /\ After(w, remaining).step = w.step /\ After(w, remaining).rows = w.rows /\ After(w, remaining).site = w.site
         /\ AfterLeft(w, remaining, r).step = w.step /\ AfterLeft(w, remaining, r).rows = w.rows
         /\ AfterLeft(w, remaining, r).site = w.site
BY DEF After, AfterLeft, Transaction

(* So a step of an import keeps the paths right, unless it goes astray.      *)
LEMMA ImportRowFirm ==
  ASSUME NEW s, TasksAreSound, PlacesAreFirm(s), NEW t \in TreeTasks, ImportRow(t), s \notin stray'
  PROVE  PlacesAreFirm(s)'
<1>1. node' = node
  BY ImportRowMeans
<1>2. PICK w, remaining, r, q :
        /\ NextRow(t, w, remaining, r)
        /\ \/ LeavesRow(t, w, remaining, r)
           \/ work' = [work EXCEPT ![t] = After(w, remaining)]
           \/ MakesRow(t, w, remaining, r, q)
  BY ImportRowMeans
<1>3. w = work[t] /\ w.step = "pass" /\ w \in Transaction
  BY <1>2, TreeFacts DEF NextRow
<1>4. CASE LeavesRow(t, w, remaining, r)
  <2>1. work' = [work EXCEPT ![t] = AfterLeft(w, remaining, r)]
    BY <1>4 DEF LeavesRow
  <2>2. AfterLeft(w, remaining, r).step = "pass" /\ AfterLeft(w, remaining, r).rows = work[t].rows
        /\ AfterLeft(w, remaining, r).site = work[t].site
    BY <1>3, AfterFacts
  <2> QED BY <1>1, <1>3, <2>1, <2>2, PassFirm
<1>5. CASE work' = [work EXCEPT ![t] = After(w, remaining)]
  BY <1>1, <1>3, <1>5, AfterFacts, PassFirm
<1>6. CASE MakesRow(t, w, remaining, r, q)
  BY <1>1, <1>2, <1>6, MakesRowFirm
<1> QED BY <1>2, <1>4, <1>5, <1>6

(* The next pass makes no row.                                               *)
LEMMA NextPassFirm ==
  ASSUME NEW s, TasksAreSound, PlacesAreFirm(s), NEW t \in TreeTasks, NextPass(t)
  PROVE  PlacesAreFirm(s)'
<1> DEFINE w == work[t]
           done == [w EXCEPT !.step = "done"]
           again == [w EXCEPT !.file = w.still, !.still = <<>>, !.before = Len(w.still)]
<1>1. /\ w.step = "pass" /\ node' = node /\ w \in Transaction
      /\ work' = [work EXCEPT ![t] = done] \/ work' = [work EXCEPT ![t] = again]
  BY TreeFacts DEF NextPass, Do, Write
<1>2. done.step = "done" /\ done.rows = w.rows /\ again.step = "pass" /\ again.rows = w.rows /\ done.site = w.site /\ again.site = w.site
  BY <1>1 DEF Transaction
<1> HIDE DEF done, again
<1> QED BY <1>1, <1>2, PassFirm

(* The loser of a deadlock rolls back.                                       *)
LEMMA LoseDeadlockFirm ==
  ASSUME NEW s, TasksAreSound, PlacesAreFirm(s), NEW t \in TreeTasks, LoseDeadlock(t)
  PROVE  PlacesAreFirm(s)'
<1>1. CASE work[t].step = "pass"
  <2>1. node' = node /\ work' = [work EXCEPT ![t] = After(work[t], Tail(work[t].file))]
    BY <1>1 DEF LoseDeadlock, Do, Write, After
  <2>2. PICK w : w = After(work[t], Tail(work[t].file))
    OBVIOUS
  <2>3. w.step = "pass" /\ w.rows = work[t].rows /\ w.site = work[t].site
    BY <1>1, <2>2, TreeFacts, AfterFacts
  <2> QED BY <1>1, <2>1, <2>2, <2>3, PassFirm
<1>2. CASE work[t].step # "pass"
  BY <1>2, DropFirm DEF LoseDeadlock, Do, Write
<1> QED BY <1>1, <1>2

(* A create that looks at its parent and an import that reads the tree have  *)
(* no row yet.                                                               *)
LEMMA AskFirm ==
  ASSUME NEW s, TasksAreSound, PlacesAreFirm(s), NEW t \in TreeTasks
  PROVE  /\ \A f, q, c : CheckParent(t, f, q, c) => PlacesAreFirm(s)'
         /\ \A f, file : ReadKnown(t, f, file) => PlacesAreFirm(s)'
<1>1. ASSUME NEW f, NEW q, NEW c, CheckParent(t, f, q, c) PROVE PlacesAreFirm(s)'
  <2> DEFINE w == [NoWork EXCEPT !.step = "insert", !.site = f, !.parent = q, !.code = c]
  <2>1. node' = node /\ work' = [work EXCEPT ![t] = w]
    BY <1>1 DEF CheckParent, Ask
  <2>2. w.step = "insert" /\ w.rows = <<>>
    BY DEF NoWork
  <2> HIDE DEF w
  <2> QED BY <2>1, <2>2, BareFirm
<1>2. ASSUME NEW f, NEW file, ReadKnown(t, f, file) PROVE PlacesAreFirm(s)'
  <2> DEFINE alive == {n \in Nodes : Live(n) /\ node[n].site = f}
             names == [c \in CodesOf(alive) |-> CHOOSE n \in alive : node[n].code = c]
             w == [NoWork EXCEPT !.step = "pass", !.site = f, !.file = file, !.before = Len(file), !.known = names]
  <2>1. node' = node /\ work' = [work EXCEPT ![t] = w]
    BY <1>2 DEF ReadKnown, Ask
  <2> HIDE DEF names
  <2>2. w.step = "pass" /\ w.rows = <<>>
    BY DEF NoWork
  <2> HIDE DEF w
  <2> QED BY <2>1, <2>2, BareFirm
<1> QED BY <1>1, <1>2

(* The rewrite of one row puts it where the new path of its parent says.     *)
LEMMA RepathFirm ==
  ASSUME NEW s, TasksAreSound, TasksAreSound', PlacesAreFirm(s), NEW t \in TreeTasks, NEW m \in Nodes,
         RepathRow(t, m)
  PROVE  PlacesAreFirm(s)'
<1> DEFINE w == work[t]
           n == w.node
           path == node[m].path
           moved == [node[m] EXCEPT !.path = MovedTo(w.rows[n].path, w.old, path)]
           mine == IF Under(path, w.old) THEN With(w.rows, m, moved) ELSE w.rows
           v == [w EXCEPT !.todo = w.todo \ {m}, !.rows = mine]
<1>1. /\ w.step = "repath" /\ m \in w.todo /\ node' = node
      /\ IF path = w.old THEN work' = [work EXCEPT ![t] = NoWork] ELSE work' = [work EXCEPT ![t] = v]
  BY DEF RepathRow, Do, Write, MovedTo
<1>2. CASE path = w.old
  BY <1>1, <1>2, DropFirm
<1>3. CASE path # w.old
  <2>1. w \in Transaction /\ n \in Held(t) /\ n # m /\ Held(t) = DOMAIN w.rows
    BY <1>1, TreeFacts DEF Fits, Held, Moves
  <2>2. /\ DOMAIN w.rows \subseteq DOMAIN mine
        /\ \A x \in DOMAIN w.rows \ {m} : mine[x] = w.rows[x]
        /\ Under(path, w.old) => m \in DOMAIN mine
    <3> HIDE DEF w, moved
    <3> QED BY DEF With
  <2> HIDE DEF mine
  <2>3. /\ v.step = "repath" /\ v.node = n /\ v.old = w.old /\ v.rows = mine /\ v.todo = w.todo \ {m} /\ v.site = w.site
    BY <1>1, <2>1 DEF Transaction
  <2> HIDE DEF v
  <2>11. CASE w.site # s
    <3>1. v.site # s
      BY <2>1, <2>11 DEF v, Transaction
    <3> QED BY <1>1, <1>3, <3>1, ElsewhereFirm
  <2> SUFFICES ASSUME w.site = s PROVE PlacesAreFirm(s)'
    BY <2>11
  <2>4. mine[n] = w.rows[n] /\ n \in DOMAIN mine
    BY <2>1, <2>2
  <2>5. /\ work'[t] = v /\ \A u \in TreeTasks \ {t} : work'[u] = work[u]
        /\ work' = [work EXCEPT ![t] = v]
    BY <1>1, <1>3 DEF TasksAreSound, TreeTyped
  <2>6. RewritesIn(s, t)' <=> RewritesIn(s, t)
    BY <1>1, <2>3, <2>4, <2>5 DEF RewritesIn, Rewrites
  <2>7. /\ \A q : DeletingIn(s, q)' => DeletingIn(s, q)
        /\ \A u \in TreeTasks : RewritesIn(s, u)' => RewritesIn(s, u) /\ work'[u].old = work[u].old
    <3>1. work'[t].step # "delete" /\ work'[t].old = work[t].old
      BY <2>3, <2>5
    <3>2. \A q : DeletingIn(s, q)' => DeletingIn(s, q)
      BY <2>5, <3>1 DEF DeletingIn
    <3>3. \A u \in TreeTasks \ {t} : RewritesIn(s, u)' => RewritesIn(s, u) /\ work'[u].old = work[u].old
      BY <2>5 DEF RewritesIn, Rewrites
    <3> QED BY <2>6, <3>1, <3>2, <3>3
  <2>8. MovesAreWhole(s, t)'
    <3>1. MovesAreWhole(s, t)
      BY DEF PlacesAreFirm, FirmTask
    <3>2. ASSUME RewritesIn(s, t), NEW x \in Nodes, LiveIn(s, x), Under(node[x].path, w.old)
          PROVE  x \in DOMAIN mine \cup (w.todo \ {m})
      BY <2>1, <2>2, <3>1, <3>2 DEF MovesAreWhole
    <3> QED BY <1>1, <2>3, <2>5, <2>6, <3>2 DEF MovesAreWhole, LiveIn, Live, Held
  <2>9. FirmMove(s, t)'
    <3>1. FirmMove(s, t)
      BY <1>1 DEF PlacesAreFirm, FirmTask
    <3>2. work'[t].rows[work'[t].node] = work[t].rows[work[t].node] /\ work'[t].old = work[t].old
      BY <2>3, <2>4, <2>5
    <3> QED BY <1>1, <2>7, <3>1, <3>2 DEF FirmMove, Right, LiveIn, Live
  <2>10. NewRows(t)' = {}
    <3>1. work'[t].step = "repath"
      BY <2>3, <2>5
    <3>2. \A x \in Held(t)' : IsARow(x)'
      BY <3>1 DEF TasksAreSound, Fits, Moves, RowOf, Held
    <3> QED BY <3>2 DEF NewRows
  <2> QED BY <1>1, <2>5, <2>7, <2>8, <2>9, <2>10, QuietKeeps DEF FirmTask
<1> QED BY <1>2, <1>3

(* The deletion of a row: no live row has it as its parent, and no pending one.      *)
LEMMA CountChildrenFirm ==
  ASSUME NEW s, TasksAreSound, PlacesAreFirm(s), NEW t \in TreeTasks, NEW n \in Nodes,
         CountChildren(t, n), s \notin stray'
  PROVE  PlacesAreFirm(s)'
<1> DEFINE w == [NoWork EXCEPT !.step = "delete", !.site = node[n].site, !.node = n]
<1>1. /\ Live(n) /\ Childless(n) /\ work[t] = NoWork /\ node' = node
      /\ work' = [work EXCEPT ![t] = w] /\ (node[n].site = s => ~LeavesBehind(n, node[n].path))
  BY DEF CountChildren, Ask
<1>2. w.step = "delete" /\ w.node = n /\ w.rows = <<>> /\ w.site = node[n].site
  BY DEF NoWork
<1> HIDE DEF w
<1>11. CASE node[n].site # s
  BY <1>1, <1>2, <1>11, ElsewhereFirm
<1> SUFFICES ASSUME node[n].site = s PROVE PlacesAreFirm(s)'
  BY <1>11
<1>12. LiveIn(s, n) /\ ~LeavesBehind(n, node[n].path)
  BY <1>1 DEF LiveIn
<1>3. /\ work'[t] = w /\ \A u \in TreeTasks \ {t} : work'[u] = work[u]
      /\ ~RewritesIn(s, t)' /\ NewRows(t)' = {}
  BY <1>1, <1>2, NothingFacts DEF TasksAreSound, TreeTyped, RewritesIn, Rewrites, NewRows, Held
<1>4. \A q : DeletingIn(s, q)' => DeletingIn(s, q) \/ q = n
  BY <1>2, <1>3 DEF DeletingIn
<1>5. \A u \in TreeTasks : RewritesIn(s, u)' => RewritesIn(s, u) /\ work'[u].old = work[u].old
  BY <1>3 DEF RewritesIn, Rewrites
<1>6. PathsAreRight(s)
  BY DEF PlacesAreFirm
<1>7. PathsAreRight(s)'
  BY <1>1, <1>6 DEF PathsAreRight, Right, LiveIn, Live
<1>8. DeletedAreBare(s)'
  BY <1>1, <1>4 DEF PlacesAreFirm, DeletedAreBare, LiveIn, Live, Childless
<1>9. ASSUME NEW u \in TreeTasks \ {t} PROVE FirmTask(s, u)'
  <2> SUFFICES ASSUME work[u].site = s PROVE FirmTask(s, u)'
    BY <1>3 DEF FirmTask
  <2>1. FirmTask(s, u) /\ work'[u] = work[u]
    BY <1>3 DEF PlacesAreFirm
  <2>2. MovesAreWhole(s, u)'
    BY <1>1, <2>1 DEF FirmTask, MovesAreWhole, RewritesIn, Rewrites, LiveIn, Live, Held
  <2>3. ASSUME work[u].step = "repath" PROVE FirmMove(s, u)'
    <3> DEFINE m == work[u].node
    <3>1. FirmMove(s, u)
      BY <2>1, <2>3 DEF FirmTask
    <3>2. work[u].rows[m].parent # n
      <4> SUFFICES ASSUME work[u].rows[m].parent = n PROVE FALSE
        OBVIOUS
      <4>1. m \in Nodes /\ LiveIn(s, m) /\ m # n /\ m \in Placed(u)
        BY <1>6, <2>3, MoveFacts
      <4>2. Under(node[m].path, node[n].path)
        BY <1>12, <4>1 DEF LeavesBehind, Outside
      <4> QED BY <1>1, <1>6, <1>12, <4>1, <4>2, LivePaths DEF LiveIn, Childless
    <3> QED BY <1>1, <1>4, <1>5, <2>1, <3>1, <3>2 DEF FirmMove, Right, LiveIn, Live
  <2>4. ASSUME NEW x \in NewRows(u)' PROVE FirmNew(s, u, x)'
    <3>1. x \in NewRows(u)
      BY <1>1, <2>1, <2>4 DEF NewRows, Held, IsARow
    <3>2. FirmNew(s, u, x) /\ x \in Placed(u) /\ ~IsARow(x)
      BY <2>1, <3>1, PendingInsertFacts DEF FirmTask
    <3>3. work[u].rows[x].parent # n
      BY <1>12, <3>2 DEF LeavesBehind, Outside, IsARow
    <3> QED BY <1>1, <1>4, <1>5, <2>1, <3>2, <3>3 DEF FirmNew, Right, LiveIn, Live, Held
  <2> QED BY <2>1, <2>2, <2>3, <2>4 DEF FirmTask
<1>10. FirmTask(s, t)'
  BY <1>2, <1>3 DEF FirmTask, MovesAreWhole
<1> QED BY <1>7, <1>8, <1>9, <1>10 DEF PlacesAreFirm

(* No pending row is below a row, unless the place it hangs at is.                  *)
LEMMA PendingOutside ==
  ASSUME NEW s, TasksAreSound, PlacesAreFirm(s), NEW u \in TreeTasks, work[u].site = s, NEW n \in Nodes, LiveIn(s, n),
         \A x \in NewRows(u) : LET q == work[u].rows[x].parent IN
           q \in Held(u) \/ q = NoParent \/ ~Under(node[q].path, node[n].path),
         NEW x \in NewRows(u)
  PROVE  ~Under(work[u].rows[x].path, node[n].path)
<1> DEFINE top == node[n].path
           Below(y) == y \in NewRows(u) /\ Under(work[u].rows[y].path, top)
           long == {j \in Nat : \E y \in NewRows(u) : Below(y) /\ Len(work[u].rows[y].path) = j}
<1>1. PathsAreRight(s)
  BY DEF PlacesAreFirm
<1>2. top \in Paths /\ top # <<>> /\ top[Len(top)] = node[n].code
  BY <1>1, LiveFacts
<1> HIDE DEF top
<1>3. SUFFICES ASSUME Below(x) PROVE FALSE
  BY DEF top
<1>4. ASSUME NEW y \in NewRows(u)
      PROVE  Len(work[u].rows[y].path) \in Nat /\ work[u].rows[y].path \in Paths
  BY PendingInsertFacts, LenProperties DEF Paths
<1>5. PICK j \in long : \A i \in long : <<i, j>> \notin OpToRel(<, Nat)
  <2> HIDE DEF OpToRel
  <2>1. long \subseteq Nat /\ long # {}
    BY <1>3, <1>4
  <2> HIDE DEF long
  <2> QED BY <2>1, NatLessThanWellFounded, WFMin
<1>6. \A i \in long : ~(i < j)
  BY <1>5 DEF OpToRel
<1>7. PICK y \in NewRows(u) : Below(y) /\ Len(work[u].rows[y].path) = j
  BY <1>5
<1> DEFINE row == work[u].rows[y]
           q == row.parent
           c == row.code
<1>8. /\ row.path \in Paths /\ c \in Codes /\ c # node[n].code /\ q \in Nodes \cup {NoParent}
      /\ Held(u) = NewRows(u) /\ NoParent \notin Held(u) /\ FirmNew(s, u, y)
  BY PendingInsertFacts DEF PlacesAreFirm, FirmTask
<1>9. /\ row.path = <<c>> => row.path # top
      /\ \A p \in Paths : row.path = Append(p, c) => row.path # top
  <2>1. \A p \in Paths : LET path == Append(p, c) IN path[Len(path)] = c
    BY <1>8, AppendFacts
  <2>2. LET path == <<c>> IN path[Len(path)] = c
    OBVIOUS
  <2> QED BY <1>2, <1>8, <2>1, <2>2
<1>10. Under(row.path, top)
  BY <1>7
<1>14. ASSUME NEW p \in Paths, row.path = Append(p, c) PROVE Under(p, top)
  <2>1. Under(Append(p, c), top) /\ top # Append(p, c)
    BY <1>9, <1>10, <1>14
  <2> HIDE DEF row, q, c
  <2> QED BY <1>2, <1>8, <2>1, AppendFacts
<1>11. CASE q \in Held(u)
  <2>1. q \in NewRows(u) /\ row.path = Append(work[u].rows[q].path, c)
    BY <1>8, <1>11 DEF FirmNew
  <2>2. Under(work[u].rows[q].path, top)
    BY <1>4, <1>14, <2>1
  <2>3. Len(work[u].rows[q].path) \in long
    BY <1>4, <2>1, <2>2
  <2>4. Len(work[u].rows[q].path) < j
    <3> DEFINE above == work[u].rows[q].path
    <3>1. above \in Paths
      BY <1>4, <2>1
    <3>2. j = Len(Append(above, c))
      BY <1>7, <2>1
    <3> HIDE DEF above
    <3>3. j = Len(above) + 1 /\ Len(above) \in Nat
      BY <1>8, <3>1, <3>2, AppendFacts
    <3>4. Len(above) < j
      BY <3>3
    <3> QED BY <3>4 DEF above
  <2> QED BY <1>6, <2>3, <2>4
<1>12. CASE q = NoParent
  <2>1. row.path = <<c>>
    BY <1>8, <1>12 DEF FirmNew, Right
  <2>2. row.path # top /\ Under(<<c>>, top) /\ c \in Codes
    BY <1>8, <1>9, <1>10, <2>1
  <2>3. top = <<c>>
    <3> HIDE DEF row, q, c
    <3> QED BY <1>2, <2>2, RootFacts
  <2> QED BY <2>1, <2>2, <2>3
<1>13. CASE q # NoParent /\ q \notin Held(u)
  <2>1. row.path = Append(node[q].path, c) /\ node[q].path \in Paths
    BY <1>8, <1>13, TreeFacts DEF FirmNew, Right
  <2>2. Under(node[q].path, top)
    BY <1>14, <2>1
  <2>3. ~Under(node[q].path, top)
    BY <1>13 DEF top
  <2> QED BY <2>2, <2>3
<1> QED BY <1>11, <1>12, <1>13

(* A PATCH that does not go astray takes a parent that no one deletes, that  *)
(* is not below the row and that no other rewrite moves away.                *)
LEMMA PatchFirm ==
  ASSUME NEW s, TasksAreSound, TasksAreSound', PlacesAreFirm(s), NEW t \in TreeTasks, NEW n \in Nodes,
         NEW q \in Nodes \cup {NoParent}, NEW c \in NewCodes \cup {node[n].code},
         Patch(t, n, q, c), s \notin stray'
  PROVE  PlacesAreFirm(s)'
<1> DEFINE new == [node[n] EXCEPT !.parent = q, !.code = c, !.path = PathIn(t, q, c)]
           sub == {m \in Nodes \ {n} : node[m] # NoRow /\ node[m].site = node[n].site /\ Under(node[m].path, node[n].path)}
           mine == With(<<>>, n, new)
           todo == IF new.path = node[n].path THEN {} ELSE sub
           w == [NoWork EXCEPT !.step = "repath", !.site = node[n].site, !.node = n, !.parent = q, !.old = node[n].path,
                               !.rows = mine, !.todo = todo]
           old == node[n].path
<1>1. /\ Live(n) /\ ~HeldByOther(t, n) /\ Guard(n, q) /\ work[t] = NoWork /\ node' = node
      /\ work' = [work EXCEPT ![t] = w]
      /\ node[n].site = s =>
           /\ q # NoParent => node[q].site = s
           /\ q # node[n].parent => ~Astray(n, q)
           /\ new.path # node[n].path => \A m \in sub \cup {n} : ~LeavesBehind(m, node[n].path)
  BY DEF Patch, Ask
<1>2. PathsAreRight(s) /\ node[n] \in Row /\ node[n].path \in Paths /\ NoParent \notin Nodes
  BY TreeFacts DEF PlacesAreFirm
<1>3. new.parent = q /\ new.code = c /\ new.path = PathIn(t, q, c)
  BY <1>2 DEF Row
<1>4. DOMAIN mine = {n} /\ mine[n] = new
  BY DEF With
<1>5. w.step = "repath" /\ w.node = n /\ w.old = old /\ w.rows = mine /\ w.todo = todo
      /\ w.site = node[n].site
  BY DEF NoWork
<1>20. CASE node[n].site # s
  <2> HIDE DEF w
  <2> QED BY <1>1, <1>5, <1>20, ElsewhereFirm
<1> SUFFICES ASSUME node[n].site = s PROVE PlacesAreFirm(s)'
  BY <1>20
<1>21. LiveIn(s, n) /\ (q # NoParent => node[q].site = s)
  BY <1>1 DEF LiveIn
<1> DEFINE newpath == new.path
<1>6. newpath = PathIn(t, q, c)
  BY <1>3
<1>7. newpath # old => todo = sub
  OBVIOUS
<1> HIDE DEF new, mine, w, todo
<1>8. /\ work'[t] = w /\ \A u \in TreeTasks \ {t} : work'[u] = work[u]
  BY <1>1 DEF TasksAreSound, TreeTyped
<1>9. ~RewritesIn(s, t) /\ (RewritesIn(s, t)' <=> newpath # old)
  BY <1>1, <1>4, <1>5, <1>8, NoWorkFacts DEF RewritesIn, Rewrites
<1> HIDE DEF newpath
<1>10. \A p : DeletingIn(s, p)' => DeletingIn(s, p)
  BY <1>5, <1>8 DEF DeletingIn
<1>11. \A u \in TreeTasks \ {t} : (RewritesIn(s, u)' <=> RewritesIn(s, u)) /\ work'[u].old = work[u].old
  BY <1>8 DEF RewritesIn, Rewrites
<1>12. NewRows(t)' = {}
  BY <1>1, <1>4, <1>5, <1>8, TreeFacts DEF NewRows, Held, IsARow
<1>13. MovesAreWhole(s, t)'
  <2>1. Held(t)' = {n} /\ work'[t].todo = todo /\ work'[t].old = old
    BY <1>4, <1>5, <1>8 DEF Held
  <2>2. ASSUME NEW m \in Nodes, LiveIn(s, m), Under(node[m].path, old), newpath # old
        PROVE  m \in {n} \cup todo
    BY <1>7, <2>2, TreeFacts DEF IsARow, LiveIn
  <2> QED BY <1>1, <1>9, <2>1, <2>2 DEF MovesAreWhole, LiveIn, Live
<1>14. /\ ~DeletingIn(s, q)
       /\ q # NoParent =>
            /\ LiveIn(s, q) /\ newpath = Append(node[q].path, c) /\ ~Under(node[q].path, old)
            /\ \A u \in TreeTasks : RewritesIn(s, u) /\ Under(node[q].path, work[u].old)
                 => Under(old, work[u].old)
       /\ q = NoParent => newpath = <<c>>
  <2>1. CASE q = NoParent
    <3>1. ~DeletingIn(s, q)
      BY <1>2, <2>1, TreeFacts DEF DeletingIn, Fits
    <3> QED BY <1>6, <2>1, <3>1 DEF PathIn
  <2>2. CASE q # NoParent
    <3>1. newpath = Append(node[q].path, c) /\ ~Under(node[q].path, old) /\ IsARow(q)
      BY <1>1, <1>6, <2>2, NoWorkFacts, NothingFacts DEF PathIn, Seen, Guard, IsARow
    <3>2. CASE q # node[n].parent
      <4>1. /\ LiveIn(s, q) /\ ~DeletingIn(s, q)
            /\ \A u \in TreeTasks : RewritesIn(s, u) /\ work[u].node # n /\ Under(node[q].path, work[u].old)
                 => Under(old, work[u].old)
        BY <1>1, <1>21, <2>2, <3>1, <3>2 DEF Astray, LiveIn, DeletingIn, RewritesIn, Outside, IsARow
      <4>2. \A u \in TreeTasks : RewritesIn(s, u) => work[u].node # n
        <5>1. \A u \in TreeTasks \ {t} : n \notin Held(u)
          BY <1>1 DEF HeldByOther, Held
        <5> QED BY <1>2, <1>9, <5>1, MoveFacts DEF RewritesIn, Rewrites
      <4> QED BY <2>2, <3>1, <4>1, <4>2
    <3>3. CASE q = node[n].parent
      <4>1. LiveIn(s, q) /\ Under(old, node[q].path) /\ node[q].path \in Paths
        BY <1>1, <1>2, <1>21, <2>2, <3>3, LiveFacts
      <4>2. ~DeletingIn(s, q)
        BY <1>21, <3>3 DEF PlacesAreFirm, DeletedAreBare
      <4>3. ASSUME NEW u \in TreeTasks, RewritesIn(s, u), Under(node[q].path, work[u].old)
            PROVE  Under(old, work[u].old)
        <5>1. work[u].old \in Paths
          BY <1>2, <4>3, MoveFacts DEF RewritesIn, Rewrites
        <5> QED BY <1>2, <4>1, <4>3, <5>1, UnderOrder
      <4> QED BY <2>2, <3>1, <4>1, <4>2, <4>3
    <3> QED BY <3>2, <3>3
  <2> QED BY <2>1, <2>2
<1>15. FirmMove(s, t)'
  <2>1. /\ work'[t].rows[work'[t].node] = new /\ work'[t].old = old /\ new.path = newpath
    BY <1>4, <1>5, <1>8 DEF newpath
  <2>2. /\ work'[t].rows[work'[t].node].parent = q /\ work'[t].rows[work'[t].node].code = c
        /\ work'[t].rows[work'[t].node].path = newpath
    BY <1>3, <2>1
  <2>3. ASSUME q # NoParent
        PROVE  \A u \in TreeTasks : RewritesIn(s, u)' /\ Under(node'[q].path, work'[u].old)
                 => Under(work'[t].old, work'[u].old)
    BY <1>1, <1>11, <1>14, <2>1, <2>3
  <2>4. Right(s, work[t].rows[work[t].node])'
    BY <1>1, <1>14, <2>2 DEF Right, LiveIn, Live
  <2> QED BY <1>1, <1>10, <1>14, <2>1, <2>2, <2>3, <2>4 DEF FirmMove
<1>16. ASSUME newpath # old, NEW u \in TreeTasks, work[u].site = s, NEW x \in Placed(u), NEW p \in Nodes,
              p = work[u].rows[x].parent, LiveIn(s, p), Under(node[p].path, old)
       PROVE  ~Outside(x, old)
  <2>1. p \in sub \cup {n}
    BY <1>16, TreeFacts DEF IsARow, LiveIn
  <2>2. ~LeavesBehind(p, old)
    BY <1>1, <1>16, <2>1 DEF newpath
  <2> QED BY <1>16, <2>2 DEF LeavesBehind, LiveIn
<1>17. ASSUME NEW u \in TreeTasks \ {t} PROVE FirmTask(s, u)'
  <2> SUFFICES ASSUME work[u].site = s PROVE FirmTask(s, u)'
    BY <1>8 DEF FirmTask
  <2>1. FirmTask(s, u) /\ work'[u] = work[u]
    BY <1>8 DEF PlacesAreFirm
  <2>2. MovesAreWhole(s, u)'
    BY <1>1, <2>1 DEF FirmTask, MovesAreWhole, RewritesIn, Rewrites, LiveIn, Live, Held
  <2>3. ASSUME work[u].step = "repath" PROVE FirmMove(s, u)'
    <3> DEFINE m == work[u].node
               p == work[u].rows[m].parent
    <3>1. FirmMove(s, u)
      BY <2>1, <2>3 DEF FirmTask
    <3>2. ASSUME p # NoParent, newpath # old, Under(node[p].path, old)
          PROVE  Under(work[u].old, old)
      <4>1. m \in Placed(u) /\ m \in Nodes /\ LiveIn(s, m) /\ node[m].path = work[u].old /\ m \in Held(u)
        BY <1>2, <2>3, MoveFacts
      <4>2. p \in Nodes /\ LiveIn(s, p)
        BY <3>1, <3>2, <4>1, TreeFacts DEF FirmMove, Right, Row
      <4>3. ~Outside(m, old)
        BY <1>16, <3>2, <4>1, <4>2
      <4> QED BY <4>1, <4>3 DEF Outside
    <3>3. ASSUME p # NoParent, NEW v \in TreeTasks, RewritesIn(s, v)', Under(node[p].path, work'[v].old)
          PROVE  Under(work[u].old, work'[v].old)
      <4>1. CASE v = t
        <5>1. newpath # old /\ work'[v].old = old
          BY <1>5, <1>8, <1>9, <3>3, <4>1
        <5> QED BY <3>2, <3>3, <5>1
      <4>2. CASE v # t
        BY <1>11, <3>1, <3>3, <4>2 DEF FirmMove
      <4> QED BY <4>1, <4>2
    <3> QED BY <1>1, <1>10, <2>1, <3>1, <3>3 DEF FirmMove, Right, LiveIn, Live
  <2>4. ASSUME newpath # old, NEW x \in NewRows(u), NEW p, p = work[u].rows[x].parent, p # NoParent, p \notin Held(u)
        PROVE  ~Under(node[p].path, old)
    <3>1. FirmNew(s, u, x) /\ x \in Placed(u) /\ ~IsARow(x) /\ p \in Nodes
      BY <2>1, <2>4, PendingInsertFacts DEF FirmTask
    <3>2. LiveIn(s, p) /\ Outside(x, old)
      BY <2>4, <3>1 DEF FirmNew, Right, Outside, IsARow
    <3> QED BY <1>16, <2>4, <3>1, <3>2
  <2>5. ASSUME NEW x \in NewRows(u)' PROVE FirmNew(s, u, x)'
    <3>1. x \in NewRows(u)
      BY <1>1, <2>1, <2>5 DEF NewRows, Held, IsARow
    <3>2. FirmNew(s, u, x)
      BY <2>1, <3>1 DEF FirmTask
    <3>3. newpath # old => ~Under(work[u].rows[x].path, old)
      BY <1>21, <2>4, <3>1, PendingOutside
    <3>4. \A v \in TreeTasks : RewritesIn(s, v)' => ~Under(work[u].rows[x].path, work'[v].old)
      <4>1. \A v \in TreeTasks \ {t} : RewritesIn(s, v)' => ~Under(work[u].rows[x].path, work'[v].old)
        BY <1>11, <3>2 DEF FirmNew
      <4>2. RewritesIn(s, t)' => newpath # old /\ work'[t].old = old
        BY <1>5, <1>8, <1>9
      <4> QED BY <3>3, <4>1, <4>2
    <3>5. ASSUME work[u].rows[x].parent # NoParent, work[u].rows[x].parent \notin Held(u)
          PROVE  \A v \in TreeTasks : RewritesIn(s, v)' => ~Under(node[work[u].rows[x].parent].path, work'[v].old)
      <4>1. \A v \in TreeTasks \ {t} : RewritesIn(s, v)' => ~Under(node[work[u].rows[x].parent].path, work'[v].old)
        BY <1>11, <3>2, <3>5 DEF FirmNew
      <4>2. RewritesIn(s, t)' => newpath # old /\ work'[t].old = old
        BY <1>5, <1>8, <1>9
      <4> QED BY <2>4, <3>1, <3>5, <4>1, <4>2
    <3> QED BY <1>1, <1>10, <2>1, <3>2, <3>4, <3>5 DEF FirmNew, Right, LiveIn, Live, Held
  <2> QED BY <2>1, <2>2, <2>3, <2>5 DEF FirmTask
<1>18. PathsAreRight(s)' /\ DeletedAreBare(s)'
  BY <1>1, <1>10 DEF PlacesAreFirm, PathsAreRight, DeletedAreBare, Right, LiveIn, Live
<1>19. FirmTask(s, t)'
  BY <1>12, <1>13, <1>15 DEF FirmTask
<1> QED BY <1>17, <1>18, <1>19 DEF PlacesAreFirm

(* What a commit without moves leaves to the others.                                *)
LEMMA CommitNewFirm ==
  ASSUME NEW s, TasksAreSound, TasksAreSound', PlacesAreFirm(s), NEW t \in TreeTasks,
         work[t].step \notin {"repath", "delete"}, CommitRows(t, work[t].rows)
  PROVE  PlacesAreFirm(s)'
<1>0. CASE work[t].site # s
  BY <1>0, OwnElsewhere
<1> SUFFICES ASSUME work[t].site = s PROVE PlacesAreFirm(s)'
  BY <1>0
<1> DEFINE mine == work[t].rows
<1>1. /\ work'[t] = NoWork /\ \A u \in TreeTasks \ {t} : work'[u] = work[u]
      /\ \A x \in Nodes : node'[x] = IF x \in Held(t) THEN mine[x] ELSE node[x]
  BY DEF CommitRows, Held, TasksAreSound, TreeTyped
<1>2. /\ Held(t) = NewRows(t) /\ Held(t) \subseteq Nodes /\ NoParent \notin Nodes
      /\ \A x \in Held(t) : ~IsARow(x) /\ ~LiveIn(s, x) /\ mine[x].state = "live" /\ mine[x].site = s
      /\ \A u \in TreeTasks \ {t} : Held(u) \cap Held(t) = {}
  BY TreeFacts DEF Fits, NewOnly, NewRows, Held, TasksAreSound, HoldersDiffer
<1>3. /\ \A x \in Held(t) : LiveIn(s, x)' /\ node'[x] = mine[x] /\ FirmNew(s, t, x)
      /\ \A x \in Nodes : LiveIn(s, x) => LiveIn(s, x)' /\ node'[x] = node[x] /\ x \notin Held(t)
      /\ \A x \in Nodes : LiveIn(s, x)' => LiveIn(s, x) \/ x \in Held(t)
  BY <1>1, <1>2 DEF LiveIn, Live, PlacesAreFirm, FirmTask
<1>4. /\ \A q : DeletingIn(s, q)' => DeletingIn(s, q)
      /\ \A u \in TreeTasks : RewritesIn(s, u)' => u # t /\ RewritesIn(s, u) /\ work'[u].old = work[u].old
      /\ ~RewritesIn(s, t)'
  BY <1>1, NoWorkFacts DEF DeletingIn, RewritesIn, Rewrites
<1>5. \A q : DeletingIn(s, q) => q \in Nodes /\ IsARow(q)
  BY TreeFacts DEF DeletingIn, Fits, RowOf
<1>7. PathsAreRight(s)'
  <2>2. ASSUME NEW x \in Held(t) PROVE Right(s, node[x])'
    <3>1. node'[x] = mine[x] /\ FirmNew(s, t, x) /\ mine[x].parent \in Nodes \cup {NoParent}
      BY <1>2, <1>3, PendingInsertFacts
    <3>2. CASE mine[x].parent \in Held(t)
      <4>1. PICK q : q = mine[x].parent
        OBVIOUS
      <4>2. mine[x].path = Append(mine[q].path, mine[x].code)
        BY <3>1, <3>2, <4>1 DEF FirmNew
      <4>3. LiveIn(s, q)' /\ node'[q] = mine[q] /\ q # NoParent
        BY <1>2, <1>3, <3>2, <4>1
      <4> QED BY <3>1, <4>1, <4>2, <4>3 DEF Right
    <3>3. CASE mine[x].parent \notin Held(t)
      <4>1. PICK q : q = mine[x].parent
        OBVIOUS
      <4>2. Right(s, mine[x])
        BY <3>1, <3>3 DEF FirmNew
      <4>3. q # NoParent => node'[q].state = "live" /\ node'[q] = node[q]
        BY <1>3, <3>1, <4>1, <4>2 DEF Right, LiveIn, Live
      <4> QED BY <3>1, <4>1, <4>2, <4>3 DEF Right, LiveIn, Live
    <3> QED BY <3>2, <3>3
  <2>3. ASSUME NEW x \in Nodes, LiveIn(s, x) PROVE Right(s, node[x])'
    <3>1. Right(s, node[x]) /\ node'[x] = node[x] /\ node[x].parent \in Nodes \cup {NoParent}
      BY <1>3, <2>3, TreeFacts DEF PlacesAreFirm, PathsAreRight
    <3> QED BY <1>3, <3>1 DEF Right, LiveIn, Live
  <2> QED BY <1>3, <2>2, <2>3 DEF PathsAreRight
<1>8. DeletedAreBare(s)'
  <2>1. ASSUME NEW x \in Held(t) PROVE ~DeletingIn(s, mine[x].parent)
    BY <1>2, <1>3, <1>5 DEF FirmNew
  <2> QED BY <1>3, <1>4, <2>1 DEF PlacesAreFirm, DeletedAreBare
<1>9. ASSUME NEW u \in TreeTasks \ {t} PROVE FirmTask(s, u)'
  <2> SUFFICES ASSUME work[u].site = s PROVE FirmTask(s, u)'
    BY <1>1 DEF FirmTask
  <2>1. FirmTask(s, u) /\ work'[u] = work[u]
    BY <1>1 DEF PlacesAreFirm
  <2>2. MovesAreWhole(s, u)'
    <3>1. ASSUME RewritesIn(s, u), NEW x \in Nodes, LiveIn(s, x)', Under(node'[x].path, work[u].old)
          PROVE  x \in Held(u) \cup work[u].todo
      <4>1. CASE x \in Held(t)
        BY <1>3, <3>1, <4>1 DEF FirmNew
      <4>2. CASE LiveIn(s, x)
        BY <1>3, <2>1, <3>1, <4>2 DEF FirmTask, MovesAreWhole
      <4> QED BY <1>3, <3>1, <4>1, <4>2
    <3> QED BY <1>4, <2>1, <3>1 DEF MovesAreWhole, Held
  <2>3. ASSUME work[u].step = "repath" PROVE FirmMove(s, u)'
    <3> DEFINE p == work[u].rows[work[u].node].parent
    <3>1. FirmMove(s, u) /\ p \in Nodes \cup {NoParent}
      <4>1. work[u].node \in Held(u)
        BY <2>3, MoveFacts DEF PlacesAreFirm
      <4> QED BY <2>1, <2>3, <4>1, TreeFacts DEF FirmTask, Row
    <3>2. p # NoParent => LiveIn(s, p) /\ node'[p].state = "live" /\ node'[p] = node[p]
      BY <1>3, <3>1 DEF FirmMove, Right, LiveIn, Live
    <3> QED BY <1>4, <2>1, <3>1, <3>2 DEF FirmMove, Right, LiveIn, Live
  <2>4. ASSUME NEW x \in NewRows(u)' PROVE FirmNew(s, u, x)'
    <3> DEFINE p == work[u].rows[x].parent
    <3>1. x \in NewRows(u)
      <4>1. x \in Held(u) /\ x \in Nodes /\ x \notin Held(t)
        BY <1>2, <2>1, <2>4, TreeFacts DEF NewRows, Held
      <4> QED BY <1>1, <2>4, <4>1 DEF NewRows, IsARow
    <3>2. FirmNew(s, u, x) /\ p \in Nodes \cup {NoParent}
      BY <2>1, <3>1, PendingInsertFacts DEF FirmTask
    <3>3. p # NoParent /\ p \notin Held(u) => LiveIn(s, p) /\ node'[p].state = "live" /\ node'[p] = node[p]
      BY <1>3, <3>2 DEF FirmNew, Right, LiveIn, Live
    <3> QED BY <1>4, <2>1, <3>2, <3>3 DEF FirmNew, Right, LiveIn, Live, Held
  <2> QED BY <2>1, <2>2, <2>3, <2>4 DEF FirmTask
<1>10. FirmTask(s, t)'
  BY <1>1, <1>4, NoWorkFacts, NothingFacts DEF FirmTask, MovesAreWhole, NewRows, Held
<1> QED BY <1>7, <1>8, <1>9, <1>10 DEF PlacesAreFirm

(* A delete that counted no live child makes a bare row: no transaction has a*)
(* row under it.                                                             *)
LEMMA SoftDeleteFirm ==
  ASSUME NEW s, TasksAreSound, TasksAreSound', PlacesAreFirm(s), NEW t \in TreeTasks, SoftDelete(t)
  PROVE  PlacesAreFirm(s)'
<1> DEFINE n == work[t].node
           row == IF Live(n) THEN [node[n] EXCEPT !.state = "deleted"] ELSE node[n]
           mine == With(<<>>, n, row)
<1>1. work[t].step = "delete" /\ CommitRows(t, mine) /\ n \in Nodes /\ RowOf(work[t].site, n)
  BY TreeFacts DEF SoftDelete, Fits
<1>2. row.path = node[n].path /\ row.parent = node[n].parent /\ row.code = node[n].code /\ row.state # "live"
      /\ row # NoRow /\ row.site = work[t].site /\ row.state \in {"live", "deleted"}
  <2>1. row.path = node[n].path /\ row.parent = node[n].parent /\ row.code = node[n].code /\ row.state # "live"
        /\ row.site = node[n].site /\ row.state \in {"live", "deleted"}
    <3>1. PICK old : old = node[n]
      OBVIOUS
    <3>2. old \in Row /\ old.state \in {"live", "deleted"}
      <4>1. IsARow(n) /\ n \in Nodes
        BY <1>1 DEF RowOf
      <4>2. node[n] \in Row /\ Real(node[n])
        BY <4>1, TreeFacts
      <4> QED BY <3>1, <4>2 DEF Real
    <3>3. CASE Live(n)
      <4>1. row = [old EXCEPT !.state = "deleted"]
        BY <3>1, <3>3
      <4> HIDE DEF row
      <4> QED BY <3>1, <3>2, <4>1 DEF Row
    <3>4. CASE ~Live(n)
      <4>1. row = old /\ old.state # "live"
        BY <3>1, <3>4 DEF Live
      <4> HIDE DEF row
      <4> QED BY <3>1, <3>2, <4>1
    <3> QED BY <3>3, <3>4
  <2>3. NoRow.state = "none"
    BY DEF NoRow
  <2> QED BY <1>1, <2>1, <2>3 DEF RowOf
<1> HIDE DEF row
<1>3. DOMAIN mine = {n} /\ mine[n] = row
  BY DEF With
<1> HIDE DEF mine
<1>12. CASE work[t].site # s
  BY <1>1, <1>2, <1>3, <1>12, CommitElsewhere DEF LiveIn, RowOf
<1> SUFFICES ASSUME work[t].site = s PROVE PlacesAreFirm(s)'
  BY <1>12
<1>4. /\ work'[t] = NoWork /\ \A u \in TreeTasks \ {t} : work'[u] = work[u]
      /\ node'[n] = row /\ \A x \in Nodes \ {n} : node'[x] = node[x]
  BY <1>1, <1>3 DEF CommitRows, TasksAreSound, TreeTyped
<1>5. /\ \A x \in Nodes : LiveIn(s, x)' <=> LiveIn(s, x) /\ x # n
      /\ \A x \in Nodes : LiveIn(s, x)' => node'[x] = node[x]
  BY <1>2, <1>4 DEF LiveIn, Live
<1>6. DeletingIn(s, n)
  BY <1>1 DEF DeletingIn
<1>7. /\ \A q : DeletingIn(s, q)' => DeletingIn(s, q)
      /\ \A u \in TreeTasks : RewritesIn(s, u)' => u # t /\ RewritesIn(s, u) /\ work'[u].old = work[u].old
      /\ ~RewritesIn(s, t)'
  BY <1>4, NoWorkFacts DEF DeletingIn, RewritesIn, Rewrites
<1>8. \A q \in Nodes : LiveIn(s, q) /\ ~DeletingIn(s, q) => LiveIn(s, q)' /\ node'[q] = node[q]
  BY <1>5, <1>6
<1>9. PathsAreRight(s)' /\ DeletedAreBare(s)'
  <2>1. ASSUME NEW x \in Nodes, LiveIn(s, x)' PROVE Right(s, node[x])' /\ ~DeletingIn(s, node[x].parent)'
    <3>1. LiveIn(s, x) /\ node'[x] = node[x] /\ Right(s, node[x]) /\ ~DeletingIn(s, node[x].parent)
      BY <1>5, <2>1 DEF PlacesAreFirm, PathsAreRight, DeletedAreBare
    <3>2. PICK row0 : row0 = node[x] /\ node'[x] = row0 /\ row0.parent \in Nodes \cup {NoParent}
      BY <3>1, TreeFacts
    <3>3. row0.parent # NoParent =>
            /\ node'[row0.parent] = node[row0.parent]
            /\ node'[row0.parent].state = "live" /\ node'[row0.parent].site = s
      BY <1>8, <3>1, <3>2 DEF Right, LiveIn, Live
    <3>4. Right(s, node[x])'
      BY <3>1, <3>2, <3>3 DEF Right, LiveIn, Live
    <3>5. ~DeletingIn(s, node[x].parent)'
      BY <1>7, <3>1
    <3> QED BY <3>4, <3>5
  <2> QED BY <2>1 DEF PathsAreRight, DeletedAreBare
<1>10. ASSUME NEW u \in TreeTasks \ {t} PROVE FirmTask(s, u)'
  <2> SUFFICES ASSUME work[u].site = s PROVE FirmTask(s, u)'
    BY <1>4 DEF FirmTask
  <2>1. FirmTask(s, u) /\ work'[u] = work[u]
    BY <1>4 DEF PlacesAreFirm
  <2>2. MovesAreWhole(s, u)'
    BY <1>5, <1>7, <2>1 DEF FirmTask, MovesAreWhole, Held
  <2>3. ASSUME work[u].step = "repath" PROVE FirmMove(s, u)'
    <3> DEFINE p == work[u].rows[work[u].node].parent
    <3>1. FirmMove(s, u) /\ p \in Nodes \cup {NoParent}
      <4>1. work[u].node \in Held(u)
        BY <2>3, MoveFacts DEF PlacesAreFirm
      <4> QED BY <2>1, <2>3, <4>1, TreeFacts DEF FirmTask, Row
    <3>2. p # NoParent => LiveIn(s, p) /\ node'[p].state = "live" /\ node'[p] = node[p]
      BY <1>8, <3>1 DEF FirmMove, Right, LiveIn, Live
    <3> QED BY <1>7, <2>1, <3>1, <3>2 DEF FirmMove, Right, LiveIn, Live
  <2>4. ASSUME NEW x \in NewRows(u)' PROVE FirmNew(s, u, x)'
    <3> DEFINE p == work[u].rows[x].parent
    <3>1. x \in NewRows(u)
      <4>1. x \in Held(u) /\ x \in Nodes
        BY <2>1, <2>4, TreeFacts DEF NewRows, Held
      <4>2. x # n
        BY <1>2, <1>4, <2>4 DEF NewRows, IsARow
      <4> QED BY <1>4, <2>4, <4>1, <4>2 DEF NewRows, IsARow
    <3>2. FirmNew(s, u, x) /\ p \in Nodes \cup {NoParent}
      BY <2>1, <3>1, PendingInsertFacts DEF FirmTask
    <3>3. p # NoParent /\ p \notin Held(u) => LiveIn(s, p) /\ node'[p].state = "live" /\ node'[p] = node[p]
      BY <1>8, <3>2 DEF FirmNew, Right, LiveIn, Live
    <3> QED BY <1>7, <2>1, <3>2, <3>3 DEF FirmNew, Right, LiveIn, Live, Held
  <2> QED BY <2>1, <2>2, <2>3, <2>4 DEF FirmTask
<1>11. FirmTask(s, t)'
  BY <1>4, <1>7, NoWorkFacts, NothingFacts DEF FirmTask, MovesAreWhole, NewRows, Held
<1> QED BY <1>9, <1>10, <1>11 DEF PlacesAreFirm

(* A move to the very place of the row changes no path.                           *)
LEMMA MovedSame ==
  ASSUME NEW old \in Paths, NEW path \in Paths, Under(path, old)
  PROVE  MovedTo(old, old, path) = path
<1> DEFINE p == MovedTo(old, old, path)
<1>1. /\ p \in Paths /\ Len(p) = Len(old) + (Len(path) - Len(old))
      /\ \A i \in 1..Len(old) : p[i] = old[i]
      /\ \A i \in Len(old) + 1..Len(path) : p[Len(old) + (i - Len(old))] = path[i]
      /\ Len(old) \in Nat /\ Len(path) \in Nat /\ Len(old) <= Len(path)
  BY MovedFacts
<1> HIDE DEF p
<1>2. \A i \in 1..Len(old) : path[i] = old[i]
  BY UnderMeans
<1>3. Len(p) = Len(path)
  BY <1>1
<1>4. ASSUME NEW i \in 1..Len(path) PROVE p[i] = path[i]
  <2>1. CASE i <= Len(old)
    BY <1>1, <1>2, <2>1
  <2>2. CASE i > Len(old)
    <3>1. i \in Len(old) + 1..Len(path) /\ Len(old) + (i - Len(old)) = i
      BY <1>1, <2>2
    <3> QED BY <1>1, <3>1
  <2> QED BY <1>1, <2>1, <2>2
<1> QED BY <1>1, <1>3, <1>4, SeqEqual DEF Paths, p

(* What the commit of a move makes of the rows.                                    *)
Committed(s, t, n, new, old) ==
  /\ work'[t] = NoWork /\ \A u \in TreeTasks \ {t} : work'[u] = work[u]
  /\ n = work[t].node /\ n \in Nodes /\ LiveIn(s, n) /\ node[n].path = old
  /\ old \in Paths /\ new \in Paths /\ old = work[t].old
  /\ node'[n] = work[t].rows[n] /\ new = work[t].rows[n].path
  /\ work[t].rows[n].code \in Codes /\ work[t].rows[n].parent \in Nodes \cup {NoParent}
  /\ work[t].rows[n].parent # n
  /\ \A x \in Nodes \ {n} : node'[x].parent = node[x].parent /\ node'[x].code = node[x].code
  /\ \A x \in Nodes : (LiveIn(s, x)' <=> LiveIn(s, x)) /\ (IsARow(x)' <=> IsARow(x))
  /\ \A x \in Nodes : LiveIn(s, x) =>
       node'[x].path = IF Under(node[x].path, old) THEN MovedTo(new, old, node[x].path) ELSE node[x].path
  /\ \A x \in Nodes : LiveIn(s, x) /\ x # n =>
       node'[x] = node[x] \/ (RewritesIn(s, t) /\ Under(node[x].path, old) /\ x \in Held(t))
  /\ \A x \in Held(t) : IsARow(x)

(* The end of a PATCH rolls back or commits the row in its new place and all *)
(* below it.                                                                 *)
LEMMA FinishMeans ==
  ASSUME NEW s, TasksAreSound, PlacesAreFirm(s), NEW t \in TreeTasks, work[t].site = s, FinishPatch(t)
  PROVE  \/ node' = node /\ work' = [work EXCEPT ![t] = NoWork]
         \/ \E n, new, old : Committed(s, t, n, new, old)
<1> DEFINE w == work[t]
           n == w.node
           old == w.old
           new == w.rows[n].path
<1>1. /\ w.step = "repath" /\ w.todo = {}
      /\ \/ node' = node /\ work' = [work EXCEPT ![t] = NoWork]
         \/ CommitRows(t, w.rows)
  BY DEF FinishPatch, Do, Write
<1>2. CASE CommitRows(t, w.rows)
  <2>1. /\ work'[t] = NoWork /\ \A u \in TreeTasks \ {t} : work'[u] = work[u]
        /\ \A x \in Nodes : node'[x] = IF x \in Held(t) THEN w.rows[x] ELSE node[x]
    BY <1>2 DEF CommitRows, Held, TasksAreSound, TreeTyped
  <2>2. w \in Transaction /\ Moves(w) /\ DOMAIN w.rows = Held(t) /\ Held(t) \subseteq Nodes
    BY <1>1, TreeFacts DEF Fits, Held
  <2>3. /\ n \in Held(t) /\ n \in Nodes /\ LiveIn(s, n) /\ node[n].path = old /\ old \in Paths
        /\ w.rows[n] \in Row /\ Real(w.rows[n]) /\ w.rows[n].state = "live" /\ w.rows[n].site = s /\ w.rows[n].parent # n
        /\ \A x \in Held(t) : IsARow(x)
        /\ new = old => Held(t) = {n}
    BY <2>2, TreeFacts DEF Moves, LiveIn, RowOf
  <2>4. new \in Paths /\ w.rows[n].code \in Codes /\ w.rows[n].parent \in Nodes \cup {NoParent}
    BY <2>3 DEF Row, Real, Paths
  <2>5. ASSUME NEW x \in Held(t) \ {n}
        PROVE  /\ node'[x].parent = node[x].parent /\ node'[x].code = node[x].code
               /\ node'[x].state = node[x].state /\ node'[x].site = node[x].site
               /\ node'[x].path = MovedTo(new, old, node[x].path) /\ Under(node[x].path, old)
               /\ node[x].state # "none"
    <3>1. /\ w.rows[x] = [node[x] EXCEPT !.path = MovedTo(new, old, node[x].path)]
          /\ Under(node[x].path, old) /\ node[x] \in Row /\ Real(node[x]) /\ x \in Nodes
      BY <2>2, <2>3, TreeFacts DEF Moves
    <3>2. node'[x] = w.rows[x]
      BY <2>1, <3>1
    <3> QED BY <3>1, <3>2 DEF Row, Real
  <2>6. node'[n] = w.rows[n]
    BY <2>1, <2>3
  <2>7. \A x \in Nodes \ {n} : node'[x].parent = node[x].parent /\ node'[x].code = node[x].code
    BY <2>1, <2>5
  <2>8. ASSUME NEW x \in Nodes PROVE (LiveIn(s, x)' <=> LiveIn(s, x)) /\ (IsARow(x)' <=> IsARow(x))
    <3>1. NoRow.state = "none"
      BY DEF NoRow
    <3>2. CASE x = n
      BY <2>3, <2>6, <3>1, <3>2 DEF LiveIn, Live, IsARow
    <3>3. CASE x \in Held(t) \ {n}
      BY <2>3, <2>5, <3>1, <3>3 DEF LiveIn, Live, IsARow
    <3>4. CASE x \notin Held(t)
      BY <2>1, <3>4 DEF LiveIn, Live, IsARow
    <3> QED BY <3>2, <3>3, <3>4
  <2>9. RewritesIn(s, t) <=> new # old
    BY <1>1 DEF RewritesIn, Rewrites
  <2>10. ASSUME NEW x \in Nodes, LiveIn(s, x)
         PROVE  node'[x].path = IF Under(node[x].path, old) THEN MovedTo(new, old, node[x].path)
                                ELSE node[x].path
    <3>1. CASE x = n
      <4>1. Under(old, old)
        BY <2>3, UnderOrder
      <4>2. MovedTo(new, old, old) = new
        BY <2>3, <2>4, <4>1, MovedAppend
      <4> QED BY <2>3, <2>6, <3>1, <4>1, <4>2
    <3>2. CASE x \in Held(t) \ {n}
      BY <2>5, <3>2
    <3>3. CASE x \notin Held(t) /\ ~Under(node[x].path, old)
      BY <2>1, <3>3
    <3>4. CASE x \notin Held(t) /\ Under(node[x].path, old)
      <4>1. new = old
        BY <1>1, <2>9, <2>10, <3>4 DEF PlacesAreFirm, FirmTask, MovesAreWhole
      <4> QED BY <2>1, <2>3, <3>4, <4>1, MovedSame, TreeFacts
    <3> QED BY <3>1, <3>2, <3>3, <3>4
  <2>11. ASSUME NEW x \in Nodes, LiveIn(s, x), x # n
         PROVE  node'[x] = node[x] \/ (RewritesIn(s, t) /\ Under(node[x].path, old) /\ x \in Held(t))
    BY <2>1, <2>3, <2>5, <2>9, <2>11
  <2>12. Committed(s, t, n, new, old)
    BY <2>1, <2>3, <2>4, <2>6, <2>7, <2>8, <2>10, <2>11 DEF Committed
  <2> QED BY <2>12
<1> QED BY <1>1, <1>2

(* The child of a moved row moves along.                                          *)
MovedPath(new, old, path) == IF Under(path, old) THEN MovedTo(new, old, path) ELSE path
(* The new path of a child is that of its parent and the child's code.       *)
LEMMA MovedChild ==
  ASSUME NEW new \in Paths, NEW old \in Paths, NEW a \in Paths, NEW d \in Codes, old # Append(a, d)
  PROVE  MovedPath(new, old, Append(a, d)) = Append(MovedPath(new, old, a), d)
<1>1. Under(Append(a, d), old) <=> Under(a, old)
  BY AppendFacts
<1> QED BY <1>1, MovedAppend DEF MovedPath

(* After the commit every path is again the parent's and a code, those of the*)
(* rows moved and those of the rows in no move.                              *)
LEMMA FinishPatchFirm ==
  ASSUME NEW s, TasksAreSound, TasksAreSound', PlacesAreFirm(s), NEW t \in TreeTasks, FinishPatch(t)
  PROVE  PlacesAreFirm(s)'
<1>0. CASE work[t].site # s
  BY <1>0, DropFirm, OwnElsewhere DEF FinishPatch, Do, Write
<1> SUFFICES ASSUME work[t].site = s PROVE PlacesAreFirm(s)'
  BY <1>0
<1>1. CASE node' = node /\ work' = [work EXCEPT ![t] = NoWork]
  BY <1>1, DropFirm
<1>2. ASSUME NEW n, NEW new, NEW old, Committed(s, t, n, new, old) PROVE PlacesAreFirm(s)'
  <2>14. work[t].rows[n].code \in Codes /\ work[t].rows[n].parent \in Nodes \cup {NoParent}
    BY <1>2 DEF Committed
  <2>15. PICK c \in Codes, q \in Nodes \cup {NoParent} :
           c = work[t].rows[n].code /\ q = work[t].rows[n].parent
    BY <2>14
  <2>1. /\ work'[t] = NoWork /\ \A u \in TreeTasks \ {t} : work'[u] = work[u]
        /\ n = work[t].node /\ n \in Nodes /\ LiveIn(s, n) /\ node[n].path = old
        /\ old \in Paths /\ new \in Paths /\ old = work[t].old
        /\ node'[n] = work[t].rows[n] /\ new = work[t].rows[n].path
        /\ node'[n].code = c /\ node'[n].parent = q /\ q # n
    BY <1>2, <2>15 DEF Committed
  <2>2. /\ \A x \in Nodes \ {n} : node'[x].parent = node[x].parent /\ node'[x].code = node[x].code
        /\ \A x \in Nodes : (LiveIn(s, x)' <=> LiveIn(s, x)) /\ (IsARow(x)' <=> IsARow(x))
    BY <1>2 DEF Committed
  <2>3. \A x \in Nodes : LiveIn(s, x) =>
           node'[x].path = MovedPath(new, old, node[x].path)
    BY <1>2 DEF Committed, MovedPath
  <2>4. work[t].step = "repath" /\ work[t].todo = {} /\ PathsAreRight(s) /\ FirmTask(s, t)
    BY DEF FinishPatch, PlacesAreFirm
  <2>5. /\ ~DeletingIn(s, q)
        /\ q = NoParent => new = <<c>>
        /\ q # NoParent =>
             /\ LiveIn(s, q) /\ new = Append(node[q].path, c) /\ ~Under(node[q].path, old)
             /\ \A u \in TreeTasks : RewritesIn(s, u) /\ Under(node[q].path, work[u].old)
                  => Under(old, work[u].old)
    BY <2>1, <2>4, <2>15 DEF FirmTask, FirmMove, Right
  <2>6. /\ \A p : DeletingIn(s, p)' => DeletingIn(s, p)
        /\ \A u \in TreeTasks : RewritesIn(s, u)' => u # t /\ RewritesIn(s, u) /\ work'[u].old = work[u].old
        /\ ~RewritesIn(s, t)'
    BY <2>1, NoWorkFacts DEF DeletingIn, RewritesIn, Rewrites
  <2>7. \A x \in Nodes : LiveIn(s, x) =>
          /\ node[x].path \in Paths /\ node[x].path # <<>> /\ node[x].code \in Codes
          /\ node[x].path = old => x = n
    <3> SUFFICES ASSUME NEW x \in Nodes, LiveIn(s, x)
                 PROVE  /\ node[x].path \in Paths /\ node[x].path # <<>> /\ node[x].code \in Codes
                        /\ node[x].path = old => x = n
      OBVIOUS
    <3>1. node[x].path \in Paths /\ node[x].path # <<>> /\ node[x].code \in Codes
      BY <2>4, LiveFacts
    <3>2. n \in Nodes /\ LiveIn(s, n) /\ node[n].path = old
      BY <2>1
    <3>3. node[n].path = node[x].path => n = x
      BY <2>4, <3>2, LivePaths
    <3> QED BY <3>1, <3>2, <3>3
  <2>8. old # <<>> /\ Under(old, old)
    BY <2>1, <2>7, UnderOrder
  <2>9. ASSUME NEW p \in Nodes, LiveIn(s, p), ~RewritesIn(s, t) \/ ~Under(node[p].path, old)
        PROVE  node'[p].path = node[p].path
    <3>1. CASE ~Under(node[p].path, old)
      BY <2>3, <2>9, <3>1 DEF MovedPath
    <3>2. CASE ~RewritesIn(s, t) /\ Under(node[p].path, old)
      <4>1. new = old
        BY <2>1, <2>4, <3>2 DEF RewritesIn, Rewrites
      <4>2. MovedTo(old, old, node[p].path) = node[p].path
        BY <2>1, <2>7, <2>9, <3>2, MovedSame
      <4> QED BY <2>3, <2>9, <3>2, <4>1, <4>2 DEF MovedPath
    <3> QED BY <2>9, <3>1, <3>2
  <2>10. PathsAreRight(s)'
    <3>1. Right(s, node[n])'
      <4>1. node'[n].path = new /\ node'[n].code = c /\ node'[n].parent = q
        BY <2>1
      <4>2. q # NoParent => node'[q].state = "live" /\ node'[q].site = s /\ node'[q].path = node[q].path
        BY <2>1, <2>2, <2>5, <2>9 DEF LiveIn, Live
      <4> QED BY <2>5, <4>1, <4>2 DEF Right, LiveIn, Live
    <3>2. ASSUME NEW x \in Nodes, x # n, LiveIn(s, x) PROVE Right(s, node[x])'
      <4> DEFINE p == node[x].parent
                 d == node[x].code
      <4>1. node'[x].parent = p /\ node'[x].code = d
        BY <2>2, <3>2
      <4>2. d \in Codes /\ old # node[x].path
        BY <2>7, <3>2
      <4>3. CASE p = NoParent
        <5>1. node[x].path = <<d>>
          BY <2>4, <3>2, <4>3, LiveFacts
        <5>2. ~Under(node[x].path, old)
          BY <2>1, <2>8, <4>2, <5>1, RootFacts
        <5>3. node'[x].path = <<d>>
          BY <2>9, <3>2, <5>1, <5>2
        <5> QED BY <4>1, <4>3, <5>3 DEF Right
      <4>4. CASE p # NoParent
        <5>1. p \in Nodes /\ LiveIn(s, p) /\ node[p].path \in Paths /\ node[x].path = Append(node[p].path, d)
          BY <2>4, <3>2, <4>4, LiveFacts
        <5>2. old # Append(node[p].path, d)
          BY <4>2, <5>1
        <5>3. node'[x].path = Append(node'[p].path, d)
          <6>1. MovedPath(new, old, Append(node[p].path, d)) = Append(MovedPath(new, old, node[p].path), d)
            <7>1. PICK a \in Paths, e \in Codes : a = node[p].path /\ e = d
              BY <4>2, <5>1
            <7>2. new \in Paths /\ old \in Paths /\ old # Append(a, e)
              BY <2>1, <5>2, <7>1
            <7>3. MovedPath(new, old, Append(a, e)) = Append(MovedPath(new, old, a), e)
              BY ONLY <7>2, MovedChild
            <7> QED BY <7>1, <7>3
          <6> QED BY <2>3, <3>2, <5>1, <6>1
        <5>4. node'[p].state = "live" /\ node'[p].site = s
          BY <2>2, <5>1 DEF LiveIn, Live
        <5> QED BY <4>1, <4>4, <5>3, <5>4 DEF Right, LiveIn, Live
      <4> QED BY <4>3, <4>4
    <3> QED BY <2>2, <3>1, <3>2 DEF PathsAreRight
  <2>11. DeletedAreBare(s)'
    <3>1. ~DeletingIn(s, node[n].parent)'
      <4>1. node'[n].parent = q
        BY <2>1
      <4> QED BY <2>5, <2>6, <4>1
    <3>2. ASSUME NEW x \in Nodes, x # n, LiveIn(s, x) PROVE ~DeletingIn(s, node[x].parent)'
      BY <2>2, <2>6, <3>2 DEF PlacesAreFirm, DeletedAreBare
    <3> QED BY <2>2, <3>1, <3>2 DEF DeletedAreBare
  <2>12. ASSUME NEW u \in TreeTasks \ {t} PROVE FirmTask(s, u)'
    <3> SUFFICES ASSUME work[u].site = s PROVE FirmTask(s, u)'
      BY <2>1 DEF FirmTask
    <3>1. FirmTask(s, u) /\ work'[u] = work[u] /\ Held(u) \cap Held(t) = {}
      BY <2>1 DEF PlacesAreFirm, TasksAreSound, HoldersDiffer
    <3>2. MovesAreWhole(s, u)'
      <4>1. ASSUME RewritesIn(s, u), NEW x \in Nodes, LiveIn(s, x), Under(node'[x].path, work[u].old)
            PROVE  x \in Held(u) \cup work[u].todo
        <5> DEFINE top == work[u].old
        <5>5. PICK m : m = work[u].node
          OBVIOUS
        <5>1. m \in Nodes /\ LiveIn(s, m) /\ node[m].path = top /\ m \in Held(u) /\ top \in Paths
              /\ top[Len(top)] = node[m].code /\ top # <<>>
          <6>1. work[u].step = "repath"
            BY <4>1 DEF RewritesIn, Rewrites
          <6>2. m \in Nodes /\ LiveIn(s, m) /\ node[m].path = top /\ m \in Held(u) /\ top \in Paths
            BY <2>4, <5>5, <6>1, MoveFacts
          <6> QED BY <2>4, <6>2, LiveFacts
        <5> HIDE DEF top
        <5>2. m # n /\ node'[m].code = node[m].code /\ node[m].code # c
          <6>1. n \in Held(t)
            BY <2>1, <2>4, MoveFacts
          <6>2. m # n
            BY <3>1, <5>1, <6>1
          <6>3. node'[m].code = node[m].code /\ LiveIn(s, m)' /\ LiveIn(s, n)' /\ node'[n].code = c
            BY <2>1, <2>2, <5>1, <6>2
          <6>4. \A y, z \in Nodes : LiveIn(s, y)' /\ LiveIn(s, z)' /\ node'[y].code = node'[z].code => y = z
            BY DEF TasksAreSound, CodesDiffer, LiveIn, Key
          <6> QED BY <2>1, <5>1, <6>2, <6>3, <6>4
        <5>3. ~Under(new, top) \/ Under(old, top)
          <6>1. CASE q = NoParent
            <7>1. new = <<c>> /\ <<c>>[Len(<<c>>)] = c
              BY <2>5, <6>1
            <7> QED BY <2>1, <5>1, <5>2, <7>1, RootFacts
          <6>2. CASE q # NoParent
            <7>1. /\ new = Append(node[q].path, c) /\ node[q].path \in Paths /\ c \in Codes
                  /\ Under(node[q].path, top) => Under(old, top)
              BY <2>1, <2>5, <2>7, <4>1, <6>2 DEF top
            <7>2. new[Len(new)] = c /\ (Under(new, top) <=> Under(node[q].path, top) \/ top = new)
              BY <5>1, <7>1, AppendFacts
            <7> QED BY <5>1, <5>2, <7>1, <7>2
          <6> QED BY <6>1, <6>2
        <5>4. Under(node[x].path, top)
          <6>1. CASE ~Under(node[x].path, old)
            BY <2>3, <4>1, <6>1 DEF MovedPath, top
          <6>2. CASE Under(node[x].path, old) /\ Under(old, top)
            BY <2>1, <2>7, <4>1, <5>1, <6>2, UnderOrder
          <6>3. CASE Under(node[x].path, old) /\ ~Under(new, top)
            <7>1. Under(MovedTo(new, old, node[x].path), top)
              BY <2>3, <4>1, <6>3 DEF MovedPath, top
            <7>2. PICK k \in 1..Len(node[x].path) : top[Len(top)] = node[x].path[k]
              <8>1. node[x].path \in Paths
                BY <2>7, <4>1
              <8> QED BY ONLY <2>1, <5>1, <6>3, <7>1, <8>1, MovedUnder
            <7> QED BY <2>4, <4>1, <5>1, <7>2, LivePaths
          <6> QED BY <5>3, <6>1, <6>2, <6>3
        <5> QED BY <3>1, <4>1, <5>4 DEF FirmTask, MovesAreWhole, top
      <4> QED BY <2>2, <2>6, <3>1, <4>1 DEF MovesAreWhole, Held
    <3>3. ASSUME work[u].step = "repath" PROVE FirmMove(s, u)'
      <4> DEFINE m == work[u].node
                 p == work[u].rows[m].parent
      <4>1. /\ m \in Nodes /\ LiveIn(s, m) /\ node[m].path = work[u].old /\ m \in Held(u)
            /\ FirmMove(s, u) /\ p \in Nodes \cup {NoParent}
        <5>1. m \in Nodes /\ LiveIn(s, m) /\ node[m].path = work[u].old /\ m \in Held(u)
          BY <2>4, <3>3, MoveFacts
        <5> QED BY <3>1, <3>3, <5>1, TreeFacts DEF FirmTask, Row
      <4>2. p # NoParent => LiveIn(s, p) /\ node'[p].state = "live" /\ node'[p].site = s /\ node'[p].path = node[p].path
        <5>1. p # NoParent => LiveIn(s, p)
          BY <4>1 DEF FirmMove, Right
        <5>2. p # NoParent /\ RewritesIn(s, t) => ~Under(node[p].path, old)
          <6>1. p # NoParent /\ RewritesIn(s, t) /\ Under(node[p].path, old) => Under(node[m].path, old)
            BY <2>1, <4>1 DEF FirmMove
          <6>2. RewritesIn(s, t) => ~Under(node[m].path, old)
            BY <2>1, <2>4, <3>1, <4>1 DEF FirmTask, MovesAreWhole
          <6> QED BY <6>1, <6>2
        <5> QED BY <2>2, <2>9, <4>1, <5>1, <5>2 DEF LiveIn, Live
      <4> QED BY <2>6, <3>1, <4>1, <4>2 DEF FirmMove, Right, LiveIn, Live
    <3>4. ASSUME NEW x \in NewRows(u)' PROVE FirmNew(s, u, x)'
      <4> DEFINE p == work[u].rows[x].parent
      <4>1. x \in NewRows(u)
        <5>1. x \in Held(u) /\ x \in Nodes
          BY <3>1, <3>4, TreeFacts DEF NewRows, Held
        <5> QED BY <2>2, <3>4, <5>1 DEF NewRows
      <4>2. FirmNew(s, u, x) /\ p \in Nodes \cup {NoParent}
        BY <3>1, <4>1, PendingInsertFacts DEF FirmTask
      <4>3. p # NoParent /\ p \notin Held(u) =>
              LiveIn(s, p) /\ node'[p].state = "live" /\ node'[p].site = s /\ node'[p].path = node[p].path
        <5>1. p # NoParent /\ p \notin Held(u) => LiveIn(s, p) /\ (RewritesIn(s, t) => ~Under(node[p].path, old))
          BY <2>1, <4>2 DEF FirmNew, Right
        <5> QED BY <2>2, <2>9, <4>2, <5>1 DEF LiveIn, Live
      <4> QED BY <2>6, <3>1, <4>2, <4>3 DEF FirmNew, Right, LiveIn, Live, Held
    <3> QED BY <3>1, <3>2, <3>3, <3>4 DEF FirmTask
  <2>13. FirmTask(s, t)'
    BY <2>1, <2>6, NoWorkFacts, NothingFacts DEF FirmTask, MovesAreWhole, NewRows, Held
  <2> QED BY <2>10, <2>11, <2>12, <2>13 DEF PlacesAreFirm
<1> QED BY <1>1, <1>2, FinishMeans

(* The paths are right at first: the rows are those of the assumption.       *)
LEMMA InitPlaces ==
  ASSUME NEW s, TreeInit
  PROVE  PlacesAreFirm(s)
<1>1. TasksAreSound
  BY InitTasks
<1>2. \A t \in TreeTasks : work[t] = NoWork
  BY DEF TreeInit
<1>3. \A t \in TreeTasks : FirmTask(s, t)
  BY <1>2, NoWorkFacts, NothingFacts DEF FirmTask, MovesAreWhole, RewritesIn, Rewrites, NewRows, Held
<1>4. \A q : ~DeletingIn(s, q)
  BY <1>2, NoWorkFacts DEF DeletingIn
<1>5. ASSUME NEW n \in Nodes, LiveIn(s, n)
      PROVE  /\ n \in DOMAIN Roots /\ node[n].parent = Roots[n].parent /\ node[n].site = s
             /\ s = IF forest = "org" THEN Tenant ELSE Roots[n].site
             /\ node[n].code = Last(Roots[n].path) /\ node[n].path = Roots[n].path
  <2>1. n \in DOMAIN Roots
    BY <1>5 DEF TreeInit, LiveIn, Live, NoRow
  <2>2. node[n] = LiveRow(IF forest = "org" THEN Tenant ELSE Roots[n].site, Roots[n].parent, Last(Roots[n].path), Roots[n].path)
    BY <2>1 DEF TreeInit, LiveRow
  <2> QED BY <1>5, <2>1, <2>2 DEF LiveRow, LiveIn
<1>6. \A n \in DOMAIN Roots : n \in Nodes /\ (s = (IF forest = "org" THEN Tenant ELSE Roots[n].site) => LiveIn(s, n))
  BY RootsAssumption DEF TreeInit, LiveIn, Live
<1>7. PathsAreRight(s)
  <2>1. ASSUME NEW n \in Nodes, LiveIn(s, n) PROVE Right(s, node[n])
    <3>1. n \in DOMAIN Roots /\ Roots[n].parent = node[n].parent
      BY <1>5, <2>1
    <3>2. CASE Roots[n].parent = NoParent
      <4>1. Roots[n].path = <<Last(Roots[n].path)>>
        BY <3>1, <3>2, RootsAssumption
      <4> QED BY <1>5, <2>1, <3>2, <4>1 DEF Right
    <3>3. CASE Roots[n].parent # NoParent
      <4> DEFINE q == Roots[n].parent
      <4>1. q \in DOMAIN Roots /\ Roots[q].site = Roots[n].site /\ Roots[n].path = Append(Roots[q].path, Last(Roots[n].path))
        BY <3>1, <3>3, RootsAssumption
      <4> QED BY <1>5, <1>6, <2>1, <3>3, <4>1 DEF Right
    <3> QED BY <3>2, <3>3
  <2> QED BY <2>1 DEF PathsAreRight
<1> QED BY <1>3, <1>4, <1>7 DEF PlacesAreFirm, DeletedAreBare

(* The history is kept: what was astray stays so.                                  *)
LEMMA StrayStays ==
  ASSUME TasksAreSound, [TreeNext]_treeVars
  PROVE  stray \subseteq stray'
<1>1. CASE UNCHANGED treeVars
  BY <1>1 DEF treeVars
<1>2. ASSUME NEW t \in TreeTasks, ImportRow(t) PROVE stray \subseteq stray'
  BY <1>2 DEF ImportRow, Do, Write
<1>3. ASSUME NEW t \in TreeTasks, NEW n, NEW q, NEW c, Patch(t, n, q, c) PROVE stray \subseteq stray'
  BY <1>3 DEF Patch
<1>4. ASSUME NEW t \in TreeTasks, NEW m, RepathRow(t, m) PROVE stray \subseteq stray'
  BY <1>4 DEF RepathRow, Do, Write
<1>5. ASSUME NEW t \in TreeTasks, NEW m, CountChildren(t, m) PROVE stray \subseteq stray'
  BY <1>5 DEF CountChildren
<1>6. ASSUME NEW t \in TreeTasks, NEW f, NEW q, NEW c, CheckParent(t, f, q, c) PROVE stray \subseteq stray'
  BY <1>6 DEF CheckParent
<1>7. ASSUME NEW t \in TreeTasks, NEW f, NEW file, ReadKnown(t, f, file) PROVE stray \subseteq stray'
  BY <1>7 DEF ReadKnown
<1>8. ASSUME NEW t \in TreeTasks, FinishPatch(t) \/ CommitInsert(t) \/ SoftDelete(t) \/ CutOff(t)
      PROVE  stray \subseteq stray'
  BY <1>8 DEF FinishPatch, CommitInsert, SoftDelete, CutOff, CommitRows, Do, Write
<1>9. ASSUME NEW t \in TreeTasks, InsertNode(t) \/ NextPass(t) \/ LoseDeadlock(t) PROVE stray \subseteq stray'
  BY <1>9 DEF InsertNode, NextPass, LoseDeadlock, Do, Write
<1>10. ASSUME NEW t \in TreeTasks, NEW dry \in BOOLEAN, EndImport(t, dry) PROVE stray \subseteq stray'
  BY <1>10 DEF EndImport, CommitRows, Do, Write
<1> QED BY <1>1, <1>2, <1>3, <1>4, <1>5, <1>6, <1>7, <1>8, <1>9, <1>10
        DEF TreeNext, PatchOrg, PatchNode, DeleteOrg, DeleteNode

(* And every step keeps those of a site right, unless one goes astray there.      *)
LEMMA SiteStaysFirm ==
  ASSUME NEW s, TasksAreSound, TasksAreSound', PlacesAreFirm(s), [TreeNext]_treeVars, s \notin stray'
  PROVE  PlacesAreFirm(s)'
<1>0. PlacesAreFirm(s)
  OBVIOUS
<1>1. CASE UNCHANGED treeVars
  <2>1. node' = node /\ work' = work
    BY <1>1 DEF treeVars
  <2>2. PathsAreRight(s)' /\ DeletedAreBare(s)'
    BY <1>0, <2>1 DEF PlacesAreFirm, PathsAreRight, DeletedAreBare, Right, DeletingIn, LiveIn, Live
  <2>3. \A u \in TreeTasks : (RewritesIn(s, u)' <=> RewritesIn(s, u)) /\ NewRows(u)' = NewRows(u)
    BY <2>1 DEF RewritesIn, Rewrites, NewRows, Held, IsARow
  <2>4. ASSUME NEW u \in TreeTasks PROVE FirmTask(s, u)'
    <3> SUFFICES ASSUME work[u].site = s PROVE FirmTask(s, u)'
      BY <2>1 DEF FirmTask
    <3>1. FirmTask(s, u)
      BY <1>0 DEF PlacesAreFirm
    <3>2. MovesAreWhole(s, u)'
      BY <2>1, <2>3, <3>1 DEF FirmTask, MovesAreWhole, LiveIn, Live, Held
    <3>3. ASSUME work[u].step = "repath" PROVE FirmMove(s, u)'
      BY <2>1, <2>3, <3>1, <3>3 DEF FirmTask, FirmMove, Right, DeletingIn, LiveIn, Live
    <3>4. ASSUME NEW x \in NewRows(u) PROVE FirmNew(s, u, x)'
      BY <2>1, <2>3, <3>1, <3>4 DEF FirmTask, FirmNew, Right, DeletingIn, LiveIn, Live, Held
    <3> QED BY <2>1, <2>3, <3>2, <3>3, <3>4 DEF FirmTask
  <2> QED BY <2>2, <2>4 DEF PlacesAreFirm
<1>2. ASSUME NEW t \in TreeTasks, NEW n \in Nodes, NEW q \in Nodes \cup {NoParent},
             NEW c \in NewCodes \cup {node[n].code}, PatchOrg(t, n, q, c) \/ PatchNode(t, n, q, c)
      PROVE  PlacesAreFirm(s)'
  BY <1>0, <1>2, PatchFirm DEF PatchOrg, PatchNode
<1>3. ASSUME NEW t \in TreeTasks, NEW m \in Nodes, RepathRow(t, m) PROVE PlacesAreFirm(s)'
  BY <1>0, <1>3, RepathFirm
<1>4. ASSUME NEW t \in TreeTasks, NEW m \in Nodes, DeleteOrg(t, m) \/ DeleteNode(t, m)
      PROVE  PlacesAreFirm(s)'
  BY <1>0, <1>4, CountChildrenFirm DEF DeleteOrg, DeleteNode
<1>5. ASSUME NEW t \in TreeTasks, NEW f, NEW q \in Nodes \cup {NoParent}, NEW c \in NewCodes,
             CheckParent(t, f, q, c)
      PROVE  PlacesAreFirm(s)'
  BY <1>0, <1>5, AskFirm
<1>6. ASSUME NEW t \in TreeTasks, FinishPatch(t) PROVE PlacesAreFirm(s)'
  BY <1>0, <1>6, FinishPatchFirm
<1>7. ASSUME NEW t \in TreeTasks, InsertNode(t) PROVE PlacesAreFirm(s)'
  BY <1>0, <1>7, InsertNodeFirm
<1>8. ASSUME NEW t \in TreeTasks, CommitInsert(t) PROVE PlacesAreFirm(s)'
  BY <1>0, <1>8, CommitNewFirm DEF CommitInsert
<1>9. ASSUME NEW t \in TreeTasks, SoftDelete(t) PROVE PlacesAreFirm(s)'
  BY <1>0, <1>9, SoftDeleteFirm
<1>10. ASSUME NEW t \in TreeTasks, NEW f, NEW file \in Files, ReadKnown(t, f, file) PROVE PlacesAreFirm(s)'
  BY <1>0, <1>10, AskFirm
<1>11. ASSUME NEW t \in TreeTasks, ImportRow(t) PROVE PlacesAreFirm(s)'
  BY <1>0, <1>11, ImportRowFirm
<1>12. ASSUME NEW t \in TreeTasks, NextPass(t) PROVE PlacesAreFirm(s)'
  BY <1>0, <1>12, NextPassFirm
<1>13. ASSUME NEW t \in TreeTasks, NEW dry \in BOOLEAN, EndImport(t, dry) PROVE PlacesAreFirm(s)'
  <2>1. CASE dry
    BY <1>0, <1>13, <2>1, DropFirm DEF EndImport, Do, Write
  <2>2. CASE ~dry
    BY <1>0, <1>13, <2>2, CommitNewFirm DEF EndImport
  <2> QED BY <2>1, <2>2
<1>14. ASSUME NEW t \in TreeTasks, LoseDeadlock(t) PROVE PlacesAreFirm(s)'
  BY <1>0, <1>14, LoseDeadlockFirm
<1>15. ASSUME NEW t \in TreeTasks, CutOff(t) PROVE PlacesAreFirm(s)'
  BY <1>0, <1>15, DropFirm DEF CutOff
<1> QED BY <1>1, <1>2, <1>3, <1>4, <1>5, <1>6, <1>7, <1>8, <1>9, <1>10, <1>11, <1>12, <1>13, <1>14, <1>15
        DEF TreeNext

(* The places of every facility that a crossing of two requests has not spoilt hold,   *)
PlacesAreSound == \A s \in AllSites \ stray : PlacesAreFirm(s)
(* and every step keeps that.                                                       *)
LEMMA StepKeepsPlaces ==
  TasksAreSound /\ TasksAreSound' /\ PlacesAreSound /\ [TreeNext]_treeVars => PlacesAreSound'
<1> SUFFICES ASSUME TasksAreSound, TasksAreSound', PlacesAreSound, [TreeNext]_treeVars,
                    NEW s \in AllSites, s \notin stray'
             PROVE  PlacesAreFirm(s)'
  BY DEF PlacesAreSound
<1>1. PlacesAreFirm(s)
  BY StrayStays DEF PlacesAreSound
<1> QED BY <1>1, SiteStaysFirm

(* What the runs check follows from the invariant.                           *)
LEMMA TreesFollow == TasksAreSound /\ PlacesAreSound => TreeTypeOK /\ TreesAreSound
<1> SUFFICES ASSUME TasksAreSound, PlacesAreSound PROVE TreeTypeOK /\ TreesAreSound
  OBVIOUS
<1>1. TreeTypeOK
  <2>1. ASSUME NEW t \in TreeTasks
        PROVE  /\ work[t].step \in {"idle", "insert", "repath", "delete", "pass", "done"}
               /\ DOMAIN work[t].rows \subseteq Nodes /\ work[t].todo \subseteq Nodes
    BY TreeFacts DEF Transaction, TreeSteps, Held
  <2> QED BY <2>1 DEF TasksAreSound, TreeTyped, TreeTypeOK
<1>2. PathsFollowParents
  <2>1. ASSUME NEW n \in Nodes, Live(n), node[n].site \notin stray PROVE InPlace(n) /\ OfSite(n)
    <3>1. PICK s \in AllSites : s = node[n].site
      BY TreeFacts DEF Row
    <3>2. Right(s, node[n])
      BY <2>1, <3>1 DEF PlacesAreSound, PlacesAreFirm, PathsAreRight, LiveIn
    <3> QED BY <3>1, <3>2 DEF Right, InPlace, OfSite, LiveIn
  <2> QED BY <2>1 DEF PathsFollowParents
<1>3. ImportsAreComplete
  <2>1. ASSUME NEW t \in TreeTasks, work[t].step = "done", NEW r \in ToSet(work[t].still)
        PROVE  r[2] \notin DOMAIN work[t].known
    <3>1. NoneKnown(work[t]) /\ work[t].still \in Seq(FileRow)
      BY <2>1, TreeFacts DEF Fits, Imports, Transaction
    <3>2. PICK i \in DOMAIN work[t].still : r = work[t].still[i]
      BY DEF ToSet
    <3>3. i \in 1..Len(work[t].still)
      BY <3>1, <3>2, LenProperties
    <3> QED BY <3>1, <3>2, <3>3 DEF NoneKnown
  <2> QED BY <2>1 DEF ImportsAreComplete
<1> QED BY <1>1, <1>2, <1>3 DEF TreesAreSound

(* TreesAreSound: rows of both trees hang where their paths say, whatever moves,      *)
(* renames, inserts, imports and deletions run side by side, unless a row was placed  *)
(* where another was moving or going; an import leaves no row out that it could make. *)
THEOREM TreesStaySound == TreeSpec => [](TreeTypeOK /\ TreesAreSound)
<1>1. TreeInit => TasksAreSound /\ PlacesAreSound
  BY InitTasks, InitPlaces DEF PlacesAreSound
<1>2. TasksAreSound /\ PlacesAreSound /\ [TreeNext]_treeVars
        => (TasksAreSound /\ PlacesAreSound)'
  BY StepKeepsTasks, StepKeepsPlaces
<1> QED BY <1>1, <1>2, TreesFollow, PTL DEF TreeSpec

-----------------------------------------------------------------------------
(* All the parts of a run together *)

(* Stamps, tokens and what was read are never ahead of the number of requests, and no  *)
(* more requests are sent than the bound.                                       *)
NotAhead(a, n) == a.number <= n /\ a.made <= n /\ \A f \in Fields : a.row.values[f].by <= n
StampsInv ==
  /\ ordered \in 1..MaxOrders /\ held <= ordered
  /\ \A f \in Fields : provider.values[f].by <= ordered
  /\ \A t \in Admins : NotAhead(admin[t], ordered)
  /\ told \in {"none", "PASSED", "FAILED", "NOT_TESTABLE"}

(* A task that rests has no stamps,                                              *)
LEMMA RestsBehind == ASSUME NEW n \in Nat PROVE NotAhead(NoOrder, n)
<1>1. NoOrder.number = 0 /\ NoOrder.made = 0 /\ NoOrder.row = NoProvider
  BY DEF NoOrder
<1>2. \A f \in Fields : NoProvider.values[f].by = 0
  BY DEF NoProvider, NoValues, Null
<1> QED
  BY <1>1, <1>2 DEF NotAhead

(* and nothing gets ahead of more requests.                                       *)
LEMMA StaysBehind ==
  ASSUME NEW a \in OrderShape, NEW n \in Nat, NEW m \in Nat, n <= m, NotAhead(a, n)
  PROVE  NotAhead(a, m)
<1>1. a.number \in Nat /\ a.made \in Nat /\ \A f \in Fields : a.row.values[f].by \in Nat
  BY DEF OrderShape, RowShape, Value
<1>2. \A f \in Fields : a.row.values[f].by <= m
  BY <1>1 DEF NotAhead
<1> QED
  BY <1>1, <1>2 DEF NotAhead

(* Merging keeps behind what the row and the request are.                            *)
LEMMA MergedBehind ==
  ASSUME NEW old \in RowShape, NEW a, a.asks \in Patches, a.number \in Nat, NEW n \in Nat, a.number <= n,
         \A f \in Fields : old.values[f].by <= n
  PROVE  \A f \in Fields : Merged(old, a).values[f].by <= n
<1>1. Merged(old, a).values = Entered(a, old.values)
  BY MergedFacts
<1>2. \A f \in Fields : Stored(a, f).by <= n
  BY DEF Stored, Null
<1> QED
  BY <1>1, <1>2 DEF Entered

(* One request changes, and the row and the tokens do not.                            *)
LEMMA StampsGoOn ==
  ASSUME AdminInv, StampsInv, NEW t \in Admins, NEW new, admin' = [admin EXCEPT ![t] = new],
         UNCHANGED <<provider, held>>, ordered' \in ordered..MaxOrders, NotAhead(new, ordered'),
         told' \in {"none", "PASSED", "FAILED", "NOT_TESTABLE"}
  PROVE  StampsInv'
<1>1. /\ admin \in [Admins -> OrderShape] /\ ordered \in Nat /\ held \in Nat /\ MaxOrders \in Nat
      /\ \A f \in Fields : provider.values[f].by \in Nat
  BY AdminAssumption DEF AdminInv, RowShape, Value
<1>2. ordered' \in Nat /\ ordered <= ordered' /\ ordered' \in 1..MaxOrders
  BY <1>1 DEF StampsInv
<1>3. ASSUME NEW u \in Admins PROVE NotAhead(admin'[u], ordered')
  <2>1. CASE u = t
    BY <1>1, <2>1
  <2>2. CASE u # t
    <3>1. admin'[u] = admin[u] /\ admin[u] \in OrderShape /\ NotAhead(admin[u], ordered)
      BY <1>1, <2>2 DEF StampsInv
    <3> QED
      BY <1>1, <1>2, <3>1, StaysBehind
  <2> QED
    BY <2>1, <2>2
<1>4. \A f \in Fields : provider'.values[f].by <= ordered'
  BY <1>1, <1>2 DEF StampsInv
<1>5. held' <= ordered'
  BY <1>1, <1>2 DEF StampsInv
<1> QED
  BY <1>2, <1>3, <1>4, <1>5 DEF StampsInv, NotAhead

(* A request is dropped.                                                       *)
LEMMA DroppedBehind ==
  ASSUME AdminInv, StampsInv, NEW t \in Admins, admin' = [admin EXCEPT ![t] = NoOrder],
         UNCHANGED <<provider, held>>, ordered' \in ordered..MaxOrders,
         told' \in {"none", "PASSED", "FAILED", "NOT_TESTABLE"}
  PROVE  StampsInv'
<1>1. ordered' \in Nat
  BY DEF AdminInv
<1> QED
  BY <1>1, RestsBehind, StampsGoOn

(* A request is sent.                                                          *)
LEMMA OrderBehind ==
  ASSUME AdminInv, StampsInv, NEW t \in Admins, NEW new \in OrderShape, Order(t, new),
         new.made = 0, new.row = NoProvider
  PROVE  StampsInv'
<1> DEFINE n == ordered + 1
           all == [new EXCEPT !.number = n]
<1>1. /\ admin' = [admin EXCEPT ![t] = all] /\ ordered' = n /\ ordered < MaxOrders
      /\ UNCHANGED <<provider, held, told>>
  BY DEF Order
<1>2. n \in Nat /\ n \in ordered..MaxOrders
  BY <1>1, AdminAssumption DEF AdminInv
<1> HIDE DEF n
<1>3. all.number = n /\ all.made = 0 /\ all.row = NoProvider
  BY DEF OrderShape
<1> HIDE DEF all
<1>4. \A f \in Fields : NoProvider.values[f].by = 0
  BY DEF NoProvider, NoValues, Null
<1>5. NotAhead(all, n)
  BY <1>2, <1>3, <1>4 DEF NotAhead
<1> QED
  BY <1>1, <1>2, <1>5, StampsGoOn DEF StampsInv

(* Any of the requests there are.                                                *)
LEMMA AskBehind ==
  ASSUME AdminInv, StampsInv, NEW t \in Admins,
         \/ \E type \in Types, asks \in {p \in Patches : DOMAIN p \subseteq Fields} :
              CreateProvider(t, type, asks)
         \/ \E asks \in Patches : PatchProvider(t, asks)
         \/ \E token \in 1..ordered : Present(t, token)
         \/ TestProvider(t)
  PROVE  StampsInv'
<1>1. ASSUME NEW type \in Types, NEW asks \in Patches, CreateProvider(t, type, asks) PROVE StampsInv'
  <2> DEFINE new == [NoOrder EXCEPT !.kind = "create", !.step = "insert", !.type = type, !.asks = asks]
  <2>1. new \in OrderShape /\ new.made = 0 /\ new.row = NoProvider
    BY ProviderFacts DEF NoOrder, OrderShape
  <2> HIDE DEF new
  <2> QED BY <1>1, <2>1, OrderBehind DEF CreateProvider, new
<1>2. ASSUME NEW asks \in Patches, PatchProvider(t, asks) PROVE StampsInv'
  <2> DEFINE new == [NoOrder EXCEPT !.kind = "patch", !.step = "lock", !.asks = asks]
  <2>1. new \in OrderShape /\ new.made = 0 /\ new.row = NoProvider
    BY ProviderFacts DEF NoOrder, OrderShape
  <2> HIDE DEF new
  <2> QED BY <1>2, <2>1, OrderBehind DEF PatchProvider, new
<1>3. ASSUME NEW token \in 1..ordered, Present(t, token) PROVE StampsInv'
  <2> DEFINE new == [NoOrder EXCEPT !.kind = "scim", !.step = "find", !.token = token]
  <2>0. token \in Nat
    BY DEF AdminInv
  <2>1. new \in OrderShape /\ new.made = 0 /\ new.row = NoProvider
    BY <2>0, ProviderFacts DEF NoOrder, OrderShape
  <2> HIDE DEF new
  <2> QED BY <1>3, <2>1, OrderBehind DEF Present, new
<1>4. ASSUME TestProvider(t) PROVE StampsInv'
  <2> DEFINE new == [NoOrder EXCEPT !.kind = "test", !.step = "read"]
  <2>1. new \in OrderShape /\ new.made = 0 /\ new.row = NoProvider
    BY ProviderFacts DEF NoOrder, OrderShape
  <2> HIDE DEF new
  <2> QED BY <1>4, <2>1, OrderBehind DEF TestProvider, new
<1> QED BY <1>1, <1>2, <1>3, <1>4

(* A request that goes on with the row it has merged,                                *)
LEMMA RowBehind ==
  ASSUME AdminInv, StampsInv, NEW t \in Admins, NEW row \in RowShape, NEW step,
         \A f \in Fields : row.values[f].by <= ordered,
         Deny(t) \/ Proceed(t, [admin[t] EXCEPT !.step = step, !.row = row])
  PROVE  StampsInv'
<1> DEFINE a == admin[t]
           new == [a EXCEPT !.step = step, !.row = row]
<1>1. a \in OrderShape /\ ordered \in Nat /\ ordered \in ordered..MaxOrders /\ NotAhead(a, ordered)
  BY AdminAssumption DEF AdminInv, StampsInv
<1>2. Deny(t) \/ Proceed(t, new)
  OBVIOUS
<1> HIDE DEF a
<1>3. new.number = a.number /\ new.made = a.made /\ new.row = row
  BY <1>1 DEF OrderShape
<1> HIDE DEF new
<1>4. NotAhead(new, ordered)
  BY <1>1, <1>3 DEF NotAhead
<1>5. UNCHANGED <<provider, held, told, ordered>>
  BY <1>2 DEF Deny, Proceed
<1>6. CASE Deny(t)
  BY <1>1, <1>5, <1>6, DroppedBehind DEF Deny, Proceed, StampsInv
<1>7. CASE Proceed(t, new)
  BY <1>1, <1>4, <1>5, <1>7, StampsGoOn DEF Proceed, StampsInv
<1> QED
  BY <1>2, <1>6, <1>7

(* as the insert, the lock and the read of a test do.                                *)
LEMMA PrepareBehind ==
  ASSUME AdminInv, StampsInv, NEW t \in Admins, InsertProvider(t) \/ LockProvider(t) \/ ReadForTest(t)
  PROVE  StampsInv'
<1> DEFINE a == admin[t]
           base == [NoProvider EXCEPT !.type = a.type]
<1>1. /\ a \in OrderShape /\ ordered \in Nat /\ provider \in RowShape /\ Numbered(a)
      /\ a.number \in Nat /\ a.number <= ordered
      /\ \A f \in Fields : provider.values[f].by <= ordered
  BY DEF AdminInv, StampsInv, NotAhead, OrderShape
<1>2. CASE InsertProvider(t)
  <2>1. a.type \in Types /\ a.asks \in Patches
    BY <1>1, <1>2 DEF Numbered, InsertProvider
  <2>2. base \in RowShape /\ base.values = NoValues
    BY <2>1, ProviderFacts DEF RowShape, NoProvider
  <2> DEFINE merged == Merged(base, a)
  <2>4. Deny(t) \/ Proceed(t, [a EXCEPT !.step = "commit", !.row = merged])
    BY <1>2 DEF InsertProvider
  <2> HIDE DEF base
  <2>3. \A f \in Fields : base.values[f].by <= ordered
    BY <1>1, <2>2 DEF NoValues, Null
  <2>5. merged \in RowShape /\ \A f \in Fields : merged.values[f].by <= ordered
    BY <1>1, <2>1, <2>2, <2>3, MergedFacts, MergedBehind
  <2> HIDE DEF merged
  <2>6. Deny(t) \/ Proceed(t, [admin[t] EXCEPT !.step = "commit", !.row = merged])
    BY <2>4
  <2> HIDE DEF a
  <2> QED
    BY ONLY AdminInv, StampsInv, t \in Admins, <2>5, <2>6, RowBehind
<1>3. CASE LockProvider(t)
  <2>1. a.asks \in Patches
    BY <1>1, <1>3 DEF Numbered, LockProvider
  <2> DEFINE merged == Merged(provider, a)
  <2>2. Deny(t) \/ Proceed(t, [a EXCEPT !.step = "write", !.row = merged])
    BY <1>3 DEF LockProvider
  <2>3. merged \in RowShape /\ \A f \in Fields : merged.values[f].by <= ordered
    BY <1>1, <2>1, MergedFacts, MergedBehind
  <2> HIDE DEF merged
  <2>4. Deny(t) \/ Proceed(t, [admin[t] EXCEPT !.step = "write", !.row = merged])
    BY <2>2
  <2> QED
    BY ONLY AdminInv, StampsInv, t \in Admins, <2>3, <2>4, RowBehind
<1>4. CASE ReadForTest(t)
  <2>1. Deny(t) \/ Proceed(t, [admin[t] EXCEPT !.step = "probe", !.row = provider])
    BY <1>4 DEF ReadForTest
  <2>2. provider \in RowShape /\ \A f \in Fields : provider.values[f].by <= ordered
    BY <1>1
  <2> QED
    BY ONLY AdminInv, StampsInv, t \in Admins, <2>1, <2>2, RowBehind
<1> QED
  BY <1>2, <1>3, <1>4

(* The write and the rotation, which takes the request's number for its token,          *)
LEMMA WriteBehind ==
  ASSUME AdminInv, StampsInv, NEW t \in Admins, UpdateProvider(t) \/ IssueToken(t) \/ FindToken(t)
  PROVE  StampsInv'
<1> DEFINE a == admin[t]
           written == [a EXCEPT !.step = IF Given(a.asks, "rotate") THEN "rotate" ELSE "commit"]
           rotated == [a EXCEPT !.step = "commit", !.revoked = live, !.made = a.number]
           found == [a EXCEPT !.step = "touch"]
<1>1. a \in OrderShape /\ ordered \in Nat /\ ordered \in ordered..MaxOrders /\ NotAhead(a, ordered)
  BY AdminAssumption DEF AdminInv, StampsInv
<1>2. Deny(t) \/ Proceed(t, written) \/ Proceed(t, rotated) \/ Proceed(t, found)
  BY DEF UpdateProvider, IssueToken, FindToken
<1> HIDE DEF a
<1>3. NotAhead(written, ordered)
  <2>1. written.number = a.number /\ written.made = a.made /\ written.row = a.row
    BY <1>1 DEF OrderShape
  <2> QED
    BY <1>1, <2>1 DEF NotAhead
<1>4. NotAhead(rotated, ordered)
  <2>1. rotated.number = a.number /\ rotated.made = a.number /\ rotated.row = a.row
    BY <1>1 DEF OrderShape
  <2> QED
    BY <1>1, <2>1 DEF NotAhead
<1>5. NotAhead(found, ordered)
  <2>1. found.number = a.number /\ found.made = a.made /\ found.row = a.row
    BY <1>1 DEF OrderShape
  <2> QED
    BY <1>1, <2>1 DEF NotAhead
<1> HIDE DEF written, rotated, found
<1>6. ASSUME NEW new, Proceed(t, new), NotAhead(new, ordered) PROVE StampsInv'
  BY <1>1, <1>6, StampsGoOn DEF Proceed, StampsInv
<1> QED
  BY <1>1, <1>2, <1>3, <1>4, <1>5, <1>6, RestsBehind DEF Deny

(* the commit,                                                                   *)
LEMMA CommitBehind == ASSUME AdminInv, StampsInv, NEW t \in Admins, CommitAdmin(t) PROVE StampsInv'
<1> DEFINE a == admin[t]
<1>1. /\ a \in OrderShape /\ ordered \in Nat /\ NotAhead(a, ordered)
      /\ admin \in [Admins -> OrderShape]
  BY DEF AdminInv, StampsInv
<1>2. /\ provider' = a.row /\ held' = (IF a.made = 0 THEN held ELSE a.made)
      /\ admin' = [admin EXCEPT ![t] = NoOrder] /\ ordered' = ordered /\ told' = told
  BY DEF CommitAdmin
<1> HIDE DEF a
<1>3. \A f \in Fields : provider'.values[f].by <= ordered'
  BY <1>1, <1>2 DEF NotAhead
<1>4. held' <= ordered'
  BY <1>1, <1>2 DEF NotAhead, StampsInv
<1>5. ASSUME NEW u \in Admins PROVE NotAhead(admin'[u], ordered')
  <2>1. admin'[u] = IF u = t THEN NoOrder ELSE admin[u]
    BY <1>1, <1>2
  <2> QED
    BY <1>1, <1>2, <2>1, RestsBehind DEF StampsInv
<1> QED
  BY <1>2, <1>3, <1>4, <1>5 DEF StampsInv, NotAhead

(* and the ends of the other requests.                                                *)
LEMMA EndBehind ==
  ASSUME AdminInv, StampsInv, NEW t \in Admins,
         LetIn(t) \/ LoseAdmin(t) \/ \E m \in Meets : Probe(t, m)
  PROVE  StampsInv'
<1>1. /\ admin' = [admin EXCEPT ![t] = NoOrder] /\ UNCHANGED <<provider, held>>
  BY DEF LetIn, LoseAdmin, Probe
<1>2. ordered \in Nat /\ MaxOrders \in Nat /\ ordered <= MaxOrders
  BY AdminAssumption DEF AdminInv, StampsInv
<1>3. ordered' \in ordered..MaxOrders
  BY <1>2 DEF LetIn, LoseAdmin, Probe
<1>4. told' \in {"none", "PASSED", "FAILED", "NOT_TESTABLE"}
  BY DEF StampsInv, LetIn, LoseAdmin, Probe, Verdict
<1> QED
  BY <1>1, <1>3, <1>4, DroppedBehind

(* Stamps stay behind at the beginning,                                             *)
LEMMA InitStamps == AdminInit => StampsInv
<1> SUFFICES ASSUME AdminInit PROVE StampsInv
  OBVIOUS
<1>1. /\ admin = [t \in Admins |-> NoOrder] /\ ordered = 1 /\ told = "none" /\ held \in {0, 1}
  BY DEF AdminInit
<1>2. \A t \in Admins : NotAhead(admin[t], ordered)
  BY <1>1, RestsBehind
<1>3. \A f \in Fields : provider.values[f].by \in {0, 1}
  <2>1. CASE provider = NoProvider
    BY <2>1 DEF NoProvider, NoValues, Null
  <2>2. CASE \E type \in Types :
               provider = [type |-> type, scim |-> "on", status |-> "ACTIVE",
                           values |-> [f \in Fields |-> IF f \in Required(type) THEN [by |-> 1, as |-> "text"] ELSE Null]]
    <3>1. PICK type \in Types :
            provider = [type |-> type, scim |-> "on", status |-> "ACTIVE",
                        values |-> [f \in Fields |-> IF f \in Required(type) THEN [by |-> 1, as |-> "text"] ELSE Null]]
      BY <2>2
    <3>2. provider.values = [f \in Fields |-> IF f \in Required(type) THEN [by |-> 1, as |-> "text"] ELSE Null]
      BY <3>1
    <3> QED
      BY <3>2 DEF Null
  <2> QED
    BY <2>1, <2>2 DEF AdminInit
<1> QED
  BY <1>1, <1>2, <1>3, AdminAssumption DEF StampsInv

(* and in every step.                                                           *)
LEMMA StampsAreKept == AdminInv /\ StampsInv /\ [AdminNext]_adminVars => StampsInv'
<1> SUFFICES ASSUME AdminInv, StampsInv, [AdminNext]_adminVars PROVE StampsInv'
  OBVIOUS
<1>1. CASE AdminNext
  BY <1>1, AskBehind, PrepareBehind, WriteBehind, CommitBehind, EndBehind DEF AdminNext
<1>2. CASE UNCHANGED adminVars
  BY <1>2 DEF adminVars, StampsInv, NotAhead
<1> QED
  BY <1>1, <1>2

(* Together they give the types of the provider.                                     *)
LEMMA AdminTypes == AdminInv /\ StampsInv => AdminTypeOK
<1> SUFFICES ASSUME AdminInv, StampsInv PROVE AdminTypeOK
  OBVIOUS
<1>1. /\ provider \in RowShape /\ ordered \in 1..MaxOrders /\ held \in Nat /\ held <= ordered
      /\ live = (IF held = 0 THEN {} ELSE {held}) /\ MaxOrders \in Nat
      /\ slipped = FALSE
  BY AdminAssumption DEF AdminInv, StampsInv, OneLiveToken
<1>2. provider.values \in [Fields -> [by : 0..MaxOrders, as : Words]]
  <2>1. /\ provider.values \in [Fields -> Value]
        /\ \A f \in Fields : provider.values[f].by <= ordered
    BY <1>1 DEF RowShape, StampsInv
  <2>2. ASSUME NEW f \in Fields PROVE provider.values[f] \in [by : 0..MaxOrders, as : Words]
    <3>1. PICK v \in Value : v = provider.values[f] /\ v.by <= ordered
      BY <2>1
    <3>2. v.by \in 0..MaxOrders /\ v.as \in Words /\ v = [by |-> v.by, as |-> v.as]
      BY <1>1, <3>1 DEF Value
    <3> QED BY <3>1, <3>2
  <2> QED
    BY <2>1, <2>2
<1>3. live \subseteq 1..MaxOrders /\ held \in 0..MaxOrders /\ ordered \in 0..MaxOrders
  BY <1>1
<1> QED
  BY <1>1, <1>2, <1>3 DEF AdminTypeOK, RowShape, StampsInv

(* No more calls are made than the bound, and only a deletion that was answered is     *)
(* undone.                                                                     *)
CallsInv == calls \in 0..MaxCalls /\ undone \subseteq left

(* So it is in every step of the accounts.                                           *)
LEMMA CallsAreKept == CallsInv /\ [ScimNext]_scimVars => CallsInv'
<1> SUFFICES ASSUME CallsInv, [ScimNext]_scimVars PROVE CallsInv'
  OBVIOUS
<1>1. /\ calls' = calls \/ (calls < MaxCalls /\ calls' = calls + 1)
      /\ undone' \subseteq left'
  <2>1. CASE UNCHANGED scimVars
    BY <2>1 DEF scimVars, CallsInv
  <2>2. ASSUME NEW t \in Clerks, CommitUser(t)
        PROVE  calls' = calls /\ undone' \subseteq left'
    BY <2>2 DEF CommitUser, CallsInv
  <2>3. ASSUME NEW t \in Clerks, LoseClerk(t)
        PROVE  calls < MaxCalls /\ calls' = calls + 1 /\ undone' \subseteq left'
    BY <2>3 DEF LoseClerk, CallsInv
  <2>4. ASSUME NEW t \in Clerks, NEW new, Call(t, new)
        PROVE  calls < MaxCalls /\ calls' = calls + 1 /\ undone' \subseteq left'
    BY <2>4 DEF Call, CallsInv
  <2>5. ASSUME NEW t \in Clerks,
               LookForName(t) \/ InsertUser(t) \/ LinkUser(t) \/ CheckScope(t) \/ WriteUser(t)
        PROVE  calls' = calls /\ undone' \subseteq left'
    BY <2>5 DEF LookForName, InsertUser, LinkUser, CheckScope, WriteUser, Refuse, GoOnWith, CallsInv
  <2>6. ASSUME NEW t \in Clerks, NEW name, NEW external, NEW active,
               PostUser(t, name, external, active) \/ CreateUser(t, name)
        PROVE  calls < MaxCalls /\ calls' = calls + 1 /\ undone' \subseteq left'
    BY <2>4, <2>6 DEF PostUser, CreateUser
  <2>7. ASSUME NEW t \in Clerks, NEW i, NEW names, NEW active, NEW status,
               \/ PatchUser(t, i, names, active) \/ DeleteUser(t, i)
               \/ EditUser(t, i, names) \/ SuspendUser(t, i, status)
        PROVE  calls < MaxCalls /\ calls' = calls + 1 /\ undone' \subseteq left'
    BY <2>4, <2>7 DEF PatchUser, DeleteUser, EditUser, SuspendUser
  <2> QED
    BY <2>1, <2>2, <2>3, <2>5, <2>6, <2>7 DEF ScimNext
<1>2. MaxCalls \in Nat
  BY ScimAssumption, Zenon
<1> HIDE ScimAssumption
<1> QED
  BY <1>1, <1>2 DEF CallsInv

(* The types of the accounts.                                                     *)
LEMMA ScimTypes == ScimInv /\ CallsInv => ScimTypeOK
<1> SUFFICES ASSUME ScimInv, CallsInv PROVE ScimTypeOK
  OBVIOUS
<1>1. ASSUME NEW i \in Ids
      PROVE  /\ account[i].status \in {"none", "INVITED", "ACTIVE", "SUSPENDED", "DEPROVISIONED"}
             /\ (account[i].status = "none") = (account[i].name = "")
  <2>1. account[i] \in AccountShape
    BY DEF ScimInv
  <2>2. account[i].status = "none" <=> account[i].name = ""
    BY ScimFacts DEF ScimInv, AccountsFit
  <2> QED
    BY <2>1, <2>2 DEF AccountShape, AccountStatuses
<1>2. ASSUME NEW t \in Clerks PROVE clerk[t].kind \in Kinds /\ clerk[t].id \in Ids \cup {0}
  BY DEF ScimInv, CallShape
<1>3. byScim \subseteq Ids /\ left \subseteq Ids
  BY DEF ScimInv, AccountsFit
<1> QED
  BY <1>1, <1>2, <1>3 DEF ScimTypeOK, CallsInv

(* A step of the run is a step of each part, or leaves it alone.                        *)
LEMMA TenantStep ==
  [TenantNext]_tenantVars
    => [TreeNext]_treeVars /\ [ScimNext]_scimVars /\ [AdminNext]_adminVars /\ [ThrottleNext]_throttleVars
<1> QED
  BY DEF TenantNext, tenantVars, TreePart, AccountsPart, ProviderPart, LoginPart

(* What holds of each part; a tree without strays also has firm places.               *)
TenantInv ==
  /\ TasksAreSound /\ PlacesAreSound /\ ScimInv /\ CallsInv
  /\ AdminInv /\ StampsInv /\ ThrottleInv

(* It holds at the beginning,                                                       *)
LEMMA TenantStarts == TenantInit => TenantInv
<1>1. TenantInit => TreeInit /\ ScimInit /\ AdminInit /\ ThrottleInit
  BY DEF TenantInit
<1>2. MaxCalls \in Nat
  BY ScimAssumption, Zenon
<1>3. ScimInit => CallsInv
  <2> HIDE ScimAssumption
  <2> QED
    BY <1>2 DEF ScimInit, CallsInv
<1>4. TreeInit => TasksAreSound /\ PlacesAreSound
  BY InitTasks, InitPlaces DEF PlacesAreSound
<1>5. AdminInit => AdminInv /\ StampsInv
  BY InitAdminInv, InitStamps
<1> QED
  BY <1>1, <1>3, <1>4, <1>5, InitScimInv, InitThrottleInv DEF TenantInv

(* and every step keeps it.                                                         *)
LEMMA TenantKeeps == TenantInv /\ [TenantNext]_tenantVars => TenantInv'
<1> QED
  BY TenantStep, StepKeepsTasks, StepKeepsPlaces, ScimInvIsKept, CallsAreKept, AdminInvIsKept,
     StampsAreKept, ThrottleInvIsKept DEF TenantInv

(* TenantTypesOK: the variables of every part keep their types, whichever part runs. *)
THEOREM TenantTyped == TenantSpec => []TenantTypesOK
<1>1. TenantInv => TenantTypesOK
  BY TreesFollow, ScimTypes, AdminTypes, ThrottleInvIsFair DEF TenantTypesOK, TenantInv
<1> QED
  BY <1>1, TenantStarts, TenantKeeps, PTL DEF TenantSpec

(* Who may come in: SCIM keeps to the accounts it provisioned and none is lost, taken over  *)
(* or brought back; the provider is what administrators named last and its one token the  *)
(* last handed out; and nobody is kept out of a login but by failures of his own name.  *)
THEOREM IdentitiesAreSound == TenantSpec => []IdentityIsSound
<1>1. TenantInv => ProvisioningIsSound /\ ThrottleIsFair
  BY ThrottleInvIsFair DEF TenantInv, ScimInv
<1>2. TenantInv => AdminIsSound
  BY AdminInvSound DEF TenantInv
<1>3. TenantInv => IdentityIsSound
  BY <1>1, <1>2 DEF IdentityIsSound
<1> QED
  BY <1>3, TenantStarts, TenantKeeps, PTL DEF TenantSpec
=============================================================================
