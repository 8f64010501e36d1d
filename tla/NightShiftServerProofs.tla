----------------------- MODULE NightShiftServerProofs -----------------------
(***************************************************************************)
(* The server's hooks for every set of requests, every limit, window, time *)
(* to live and number of workspaces.                                       *)
(*                                                                         *)
(* Two invariants carry the results.  Account: what a window counts is what*)
(* was let through since it opened, and what was let through shortly before*)
(* it opened left room for one more.  Places: a store is numbered once,    *)
(* serves one workspace, and while a request is on its way its workspace is*)
(* either still there or was pushed out by others that are.                *)
(***************************************************************************)
EXTENDS NightShiftServer, FiniteSetTheorems, WellFoundedInduction, TLAPS

(* Rounding up to whole seconds loses nothing.                             *)
LEMMA CeilCovers ==
  ASSUME NEW n \in Nat, NEW s \in Nat \ {0}
  PROVE  /\ (n + s - 1) \div s \in Nat
         /\ ((n + s - 1) \div s) * s >= n
<1> DEFINE q == (n + s - 1) \div s
<1>1. n + s - 1 \in Nat
  OBVIOUS
<1>2. /\ q \in Int
      /\ s * q <= n + s - 1
      /\ n + s - 1 < s * q + s
  BY <1>1, SMTT(30)
<1>3. q * s = s * q
  BY <1>2, SMTT(30)
<1>4. q >= 0
  BY <1>1, <1>2, SMTT(30)
<1>5. QED
  BY <1>2, <1>3, <1>4, SMTT(30)

-----------------------------------------------------------------------------
(* The positions of what lies in a stretch of time, and from a time on.    *)
Between(s, from, to) == {i \in DOMAIN s : from <= s[i] /\ s[i] < to}
Since(s, from) == {i \in DOMAIN s : s[i] >= from}

LEMMA PositionsAreFinite ==
  ASSUME NEW s \in Seq(Nat), NEW T \in SUBSET DOMAIN s
  PROVE  IsFiniteSet(T) /\ Cardinality(T) \in Nat
<1>1. DOMAIN s = 1..Len(s) /\ Len(s) \in Nat
  OBVIOUS
<1>2. IsFiniteSet(1..Len(s))
  BY <1>1, FS_Interval
<1>3. QED
  BY <1>1, <1>2, FS_Subset, FS_CardinalityType

LEMMA CoverCounts ==
  ASSUME NEW S, NEW T, IsFiniteSet(S), IsFiniteSet(T), NEW U \in SUBSET (S \cup T)
  PROVE  Cardinality(U) <= Cardinality(S) + Cardinality(T)
<1>1. /\ IsFiniteSet(S \cup T)
      /\ Cardinality(S \cup T) = Cardinality(S) + Cardinality(T) - Cardinality(S \cap T)
  BY FS_Union
<1>2. IsFiniteSet(S \cap T) /\ IsFiniteSet(U) /\ Cardinality(U) <= Cardinality(S \cup T)
  BY <1>1, FS_Subset
<1>3. \A V : IsFiniteSet(V) => Cardinality(V) \in Nat
  BY FS_CardinalityType
<1>4. QED
  BY <1>1, <1>2, <1>3

LEMMA RemovalCounts ==
  ASSUME NEW S, IsFiniteSet(S), NEW x
  PROVE  /\ IsFiniteSet(S \ {x})
         /\ Cardinality(S \ {x}) \in Nat
         /\ Cardinality(S \ {x}) >= Cardinality(S) - 1
<1>1. /\ IsFiniteSet(S \ {x})
      /\ Cardinality(S \ {x}) = IF x \in S THEN Cardinality(S) - 1 ELSE Cardinality(S)
  BY FS_RemoveElement
<1>2. Cardinality(S) \in Nat /\ Cardinality(S \ {x}) \in Nat
  BY <1>1, FS_CardinalityType
<1>3. QED
  BY <1>1, <1>2

LEMMA AppendToBetween ==
  ASSUME NEW s \in Seq(Nat), NEW x \in Nat, NEW from \in Int, NEW to \in Int,
         ~(from <= x /\ x < to)
  PROVE  Between(Append(s, x), from, to) = Between(s, from, to)
<1>1. /\ DOMAIN Append(s, x) = (DOMAIN s) \cup {Len(s) + 1}
      /\ \A i \in DOMAIN s : Append(s, x)[i] = s[i]
      /\ Append(s, x)[Len(s) + 1] = x
      /\ Len(s) + 1 \notin DOMAIN s
  OBVIOUS
<1>2. QED
  BY <1>1 DEF Between

LEMMA AppendToSince ==
  ASSUME NEW s \in Seq(Nat), NEW x \in Nat, NEW from \in Int, from <= x
  PROVE  Cardinality(Since(Append(s, x), from)) = Cardinality(Since(s, from)) + 1
<1>1. /\ DOMAIN Append(s, x) = (DOMAIN s) \cup {Len(s) + 1}
      /\ \A i \in DOMAIN s : Append(s, x)[i] = s[i]
      /\ Append(s, x)[Len(s) + 1] = x
      /\ Len(s) + 1 \notin DOMAIN s
  OBVIOUS
<1>2. Since(Append(s, x), from) = Since(s, from) \cup {Len(s) + 1}
  BY <1>1 DEF Since
<1>3. IsFiniteSet(Since(s, from)) /\ Len(s) + 1 \notin Since(s, from)
  BY <1>1, PositionsAreFinite DEF Since
<1>4. QED
  BY <1>2, <1>3, FS_AddElement

-----------------------------------------------------------------------------
(* The account of one key.                                                 *)
Opened(key) == rateLimitState[key].resetAt - RateLimitWindow

Account(key) ==
  LET entry == rateLimitState[key]
      times == admitted[key]
      limit == Limit[key[1]]
  IN  /\ entry.count <= limit
      /\ entry.count = Cardinality(Since(times, Opened(key)))
      /\ \A i \in DOMAIN times : times[i] <= clock /\ times[i] < entry.resetAt
      /\ \E i \in DOMAIN times : times[i] = Opened(key)
      /\ \A i \in DOMAIN times :
           /\ times[i] < Opened(key) /\ Opened(key) < times[i] + RateLimitWindow =>
                Cardinality(Between(times, times[i], Opened(key))) < limit
           /\ times[i] + RateLimitWindow <= Opened(key) =>
                Cardinality(Between(times, times[i], times[i] + RateLimitWindow)) < 2 * limit

Promise(key) ==
  /\ promised[key].served <= Len(admitted[key])
  /\ 0 < promised[key].at /\ promised[key].served = Len(admitted[key]) =>
       /\ key \in DOMAIN rateLimitState
       /\ rateLimitState[key].resetAt <= promised[key].at

LimiterInv ==
  /\ LimiterTypeOK
  /\ \A key \in Key : IF key \in DOMAIN rateLimitState THEN Account(key)
                      ELSE admitted[key] = <<>>
  /\ \A key \in Key : Promise(key)

(* The account bounds every stretch that begins with a request.            *)
LEMMA AccountBounds ==
  ASSUME LimiterTypeOK, NEW key \in Key, key \in DOMAIN rateLimitState, Account(key),
         NEW i \in DOMAIN admitted[key]
  PROVE  Cardinality(Between(admitted[key], admitted[key][i], admitted[key][i] + RateLimitWindow))
           < 2 * Limit[key[1]]
<1> DEFINE times == admitted[key]
           from  == times[i]
           opened == Opened(key)
           limit == Limit[key[1]]
           stretch == Between(times, from, from + RateLimitWindow)
<1>1. /\ times \in Seq(Nat)
      /\ from \in Nat
      /\ RateLimitWindow \in Nat \ {0}
      /\ limit \in Nat \ {0}
      /\ rateLimitState[key].resetAt \in Nat
      /\ opened \in Int
  BY RateLimiterAssumption, SMTT(30) DEF LimiterTypeOK, Key, RateLimitEntry, Opened
<1>2. /\ Since(times, opened) \in SUBSET DOMAIN times
      /\ stretch \in SUBSET DOMAIN times
      /\ Between(times, from, opened) \in SUBSET DOMAIN times
  BY DEF Since, Between
<1>3. /\ IsFiniteSet(Since(times, opened)) /\ Cardinality(Since(times, opened)) \in Nat
      /\ IsFiniteSet(stretch) /\ Cardinality(stretch) \in Nat
      /\ IsFiniteSet(Between(times, from, opened))
      /\ Cardinality(Between(times, from, opened)) \in Nat
  BY <1>1, <1>2, PositionsAreFinite
<1>4. Cardinality(Since(times, opened)) <= limit
  BY DEF Account
<1>5. CASE from >= opened
  <2>1. stretch \subseteq Since(times, opened)
    BY <1>1, <1>5 DEF Between, Since
  <2>2. Cardinality(stretch) <= Cardinality(Since(times, opened))
    BY <1>3, <2>1, FS_Subset
  <2>3. QED
    BY <1>1, <1>3, <1>4, <2>2, SMTT(30)
<1>6. CASE from < opened /\ opened < from + RateLimitWindow
  <2>1. stretch \subseteq Between(times, from, opened) \cup Since(times, opened)
    BY <1>1 DEF Between, Since
  <2>2. Cardinality(stretch)
          <= Cardinality(Between(times, from, opened)) + Cardinality(Since(times, opened))
    BY <1>3, <2>1, CoverCounts
  <2>3. Cardinality(Between(times, from, opened)) < limit
    BY <1>6 DEF Account
  <2>4. QED
    BY <1>1, <1>3, <1>4, <2>2, <2>3
<1>7. CASE from + RateLimitWindow <= opened
  BY <1>7 DEF Account
<1>8. QED
  BY <1>1, <1>5, <1>6, <1>7


-----------------------------------------------------------------------------
(* A request that opens a window: the one before it lies wholly in the past.*)
LEMMA OpeningKeepsAccount ==
  ASSUME LimiterTypeOK, NEW key \in Key,
         IF key \in DOMAIN rateLimitState THEN Account(key) ELSE admitted[key] = <<>>,
         OpenWindow(key),
         admitted' = [admitted EXCEPT ![key] = Append(@, clock)], clock' = clock
  PROVE  Account(key)'
<1> DEFINE times == admitted[key]
           limit == Limit[key[1]]
<1>1. /\ times \in Seq(Nat) /\ times' = Append(times, clock)
      /\ clock \in Nat
      /\ RateLimitWindow \in Nat \ {0}
      /\ limit \in Nat \ {0}
  BY RateLimiterAssumption DEF LimiterTypeOK, Key
<1>2. /\ rateLimitState'[key] = [count |-> 1, resetAt |-> clock + RateLimitWindow]
      /\ Opened(key)' = clock
  BY <1>1 DEF OpenWindow, SetEntry, Opened
<1>3. \A i \in DOMAIN times : times[i] < clock
  <2>1. CASE key \in DOMAIN rateLimitState
    <3>1. rateLimitState[key].resetAt <= clock /\ rateLimitState[key].resetAt \in Nat
      BY <1>1, <2>1 DEF OpenWindow, WindowOpen, LimiterTypeOK, RateLimitEntry
    <3>2. \A i \in DOMAIN times : times[i] \in Nat
      BY <1>1
    <3>3. QED
      BY <1>1, <2>1, <3>1, <3>2 DEF Account
  <2>2. CASE key \notin DOMAIN rateLimitState
    BY <2>2
  <2>3. QED
    BY <2>1, <2>2
<1>4. /\ DOMAIN times' = (DOMAIN times) \cup {Len(times) + 1}
      /\ \A i \in DOMAIN times : times'[i] = times[i]
      /\ times'[Len(times) + 1] = clock
      /\ Len(times) + 1 \notin DOMAIN times
      /\ \A i \in DOMAIN times : times[i] \in Nat
  BY <1>1
<1>5. Cardinality(Since(times', clock)) = 1
  <2>1. Since(times, clock) = {}
    BY <1>1, <1>3, <1>4 DEF Since
  <2>2. Cardinality(Since(times, clock)) = 0
    BY <2>1, FS_EmptySet
  <2>3. clock \in Int /\ clock <= clock
    BY <1>1
  <2>4. Cardinality(Since(Append(times, clock), clock)) = Cardinality(Since(times, clock)) + 1
    BY <1>1, <2>3, AppendToSince
  <2>5. QED
    BY <1>1, <2>2, <2>4
<1>6. ASSUME NEW i \in DOMAIN times, clock < times[i] + RateLimitWindow
      PROVE  Cardinality(Between(times', times[i], clock)) < limit
  <2>1. key \in DOMAIN rateLimitState /\ Account(key)
    BY <1>4
  <2>2. /\ Opened(key) \in Int
        /\ Opened(key) < times[i]
    BY <1>1, <1>4, <1>6, <2>1, SMTT(30)
       DEF OpenWindow, WindowOpen, Opened, LimiterTypeOK, RateLimitEntry
  <2>3. PICK first \in DOMAIN times : times[first] = Opened(key)
    BY <2>1 DEF Account
  <2>4. Between(times', times[i], clock) = Between(times, times[i], clock)
    BY <1>1, <1>4, AppendToBetween
  <2>5. /\ Between(times, times[i], clock) \subseteq Since(times, Opened(key)) \ {first}
        /\ first \in Since(times, Opened(key))
    BY <1>4, <2>2, <2>3 DEF Between, Since
  <2>6. /\ IsFiniteSet(Since(times, Opened(key)))
        /\ Cardinality(Since(times, Opened(key))) \in Nat
        /\ IsFiniteSet(Between(times, times[i], clock))
        /\ Cardinality(Between(times, times[i], clock)) \in Nat
    BY <1>1, PositionsAreFinite DEF Since, Between
  <2>7. /\ IsFiniteSet(Since(times, Opened(key)) \ {first})
        /\ Cardinality(Since(times, Opened(key)) \ {first})
             = Cardinality(Since(times, Opened(key))) - 1
    BY <2>5, <2>6, FS_RemoveElement
  <2>8. Cardinality(Between(times, times[i], clock))
          <= Cardinality(Since(times, Opened(key)) \ {first})
    BY <2>5, <2>7, FS_Subset
  <2>9. Cardinality(Since(times, Opened(key))) <= limit
    BY <2>1 DEF Account
  <2>10. QED
    BY <1>1, <2>4, <2>6, <2>7, <2>8, <2>9
<1>7. ASSUME NEW i \in DOMAIN times, times[i] + RateLimitWindow <= clock
      PROVE  Cardinality(Between(times', times[i], times[i] + RateLimitWindow)) < 2 * limit
  <2>1. key \in DOMAIN rateLimitState /\ Account(key)
    BY <1>4
  <2>2. Between(times', times[i], times[i] + RateLimitWindow)
          = Between(times, times[i], times[i] + RateLimitWindow)
    BY <1>1, <1>4, <1>7, AppendToBetween
  <2>3. QED
    BY <2>1, <2>2, AccountBounds
<1>8. \A i \in DOMAIN times' : times'[i] <= clock /\ times'[i] < clock + RateLimitWindow
  BY <1>1, <1>3, <1>4
<1>9. \A i \in DOMAIN times' :
        /\ times'[i] < clock /\ clock < times'[i] + RateLimitWindow =>
             Cardinality(Between(times', times'[i], clock)) < limit
        /\ times'[i] + RateLimitWindow <= clock =>
             Cardinality(Between(times', times'[i], times'[i] + RateLimitWindow)) < 2 * limit
  BY <1>1, <1>4, <1>6, <1>7
<1>10. QED
  BY <1>1, <1>2, <1>4, <1>5, <1>8, <1>9, SMTT(30) DEF Account


(* A request that is counted in the window it finds.                       *)
LEMMA CountingKeepsAccount ==
  ASSUME LimiterTypeOK, NEW key \in Key, key \in DOMAIN rateLimitState, Account(key),
         CountInWindow(key),
         admitted' = [admitted EXCEPT ![key] = Append(@, clock)], clock' = clock
  PROVE  Account(key)'
<1> DEFINE times == admitted[key]
           limit == Limit[key[1]]
           entry == rateLimitState[key]
<1>1. /\ times \in Seq(Nat) /\ times' = Append(times, clock)
      /\ clock \in Nat
      /\ RateLimitWindow \in Nat \ {0}
      /\ limit \in Nat \ {0}
      /\ entry.resetAt \in Nat /\ entry.count \in Nat
      /\ Opened(key) \in Int /\ Opened(key) = entry.resetAt - RateLimitWindow
  BY RateLimiterAssumption DEF LimiterTypeOK, Key, RateLimitEntry, Opened
<1>2. /\ entry'.resetAt = entry.resetAt
      /\ entry'.count = entry.count + 1
      /\ Opened(key)' = Opened(key)
      /\ clock < entry.resetAt
      /\ entry.count < limit
  BY <1>1 DEF CountInWindow, WindowOpen, SetEntry, Opened, LimiterTypeOK, RateLimitEntry
<1>3. /\ DOMAIN times' = (DOMAIN times) \cup {Len(times) + 1}
      /\ \A i \in DOMAIN times : times'[i] = times[i]
      /\ times'[Len(times) + 1] = clock
      /\ Len(times) + 1 \notin DOMAIN times
      /\ \A i \in DOMAIN times : times[i] \in Nat
  BY <1>1
<1>4. PICK first \in DOMAIN times : times[first] = Opened(key)
  BY DEF Account
<1>5. Opened(key) <= clock
  BY <1>4 DEF Account
<1>6. Cardinality(Since(times', Opened(key))) = entry.count + 1
  BY <1>1, <1>5, AppendToSince DEF Account
<1>7. \A i \in DOMAIN times' : times'[i] <= clock /\ times'[i] < entry.resetAt
  <2>1. \A i \in DOMAIN times : times[i] <= clock /\ times[i] < entry.resetAt
    BY DEF Account
  <2> DEFINE reset == entry.resetAt
             n == Len(times) + 1
  <2>2. clock < reset /\ reset \in Nat
    BY <1>1, <1>2
  <2>3. \A i \in DOMAIN times : times[i] <= clock /\ times[i] < reset
    BY <2>1
  <2>4. /\ DOMAIN times' = (DOMAIN times) \cup {n}
        /\ \A i \in DOMAIN times : times'[i] = times[i]
        /\ times'[n] = clock
    BY <1>3
  <2> HIDE DEF reset, n
  <2>5. \A i \in DOMAIN times' : times'[i] <= clock /\ times'[i] < reset
    BY <1>1, <2>2, <2>3, <2>4, SMTT(30)
  <2>6. QED
    BY <2>5 DEF reset
<1>8. ASSUME NEW i \in DOMAIN times'
      PROVE  /\ times'[i] < Opened(key) /\ Opened(key) < times'[i] + RateLimitWindow =>
                  Cardinality(Between(times', times'[i], Opened(key))) < limit
             /\ times'[i] + RateLimitWindow <= Opened(key) =>
                  Cardinality(Between(times', times'[i], times'[i] + RateLimitWindow)) < 2 * limit
  <2>1. CASE i = Len(times) + 1
    <3>1. /\ times'[i] = clock
          /\ ~(clock < Opened(key))
          /\ ~(clock + RateLimitWindow <= Opened(key))
      BY <1>1, <1>3, <1>5, <2>1
    <3>2. QED
      BY <3>1
  <2>2. CASE i \in DOMAIN times
    <3>1. Between(times', times[i], Opened(key)) = Between(times, times[i], Opened(key))
      BY <1>1, <1>3, <1>5, <2>2, AppendToBetween
    <3>2. times[i] + RateLimitWindow <= Opened(key) =>
            Between(times', times[i], times[i] + RateLimitWindow)
              = Between(times, times[i], times[i] + RateLimitWindow)
      BY <1>1, <1>3, <1>5, <2>2, AppendToBetween, SMTT(30)
    <3>3. QED
      BY <1>3, <2>2, <3>1, <3>2 DEF Account
  <2>3. QED
    BY <1>3, <2>1, <2>2
<1>9. \E i \in DOMAIN times' : times'[i] = Opened(key)
  BY <1>3, <1>4
<1>10. entry'.count <= limit
  BY <1>1, <1>2, SMTT(30)
<1>11. /\ entry'.count = Cardinality(Since(times', Opened(key)'))
       /\ \A i \in DOMAIN times' : times'[i] <= clock' /\ times'[i] < entry'.resetAt
       /\ \E i \in DOMAIN times' : times'[i] = Opened(key)'
  BY <1>2, <1>6, <1>7, <1>9
<1>12. QED
  BY <1>2, <1>8, <1>10, <1>11 DEF Account

-----------------------------------------------------------------------------
LEMMA AdmitKeepsLimiterInv ==
  ASSUME LimiterInv, NEW key \in Key, Admit(key), clock' = clock
  PROVE  LimiterInv'
<1> DEFINE times == admitted[key]
<1>1. /\ LimiterTypeOK
      /\ admitted' = [admitted EXCEPT ![key] = Append(@, clock)]
      /\ promised' = promised
      /\ times \in Seq(Nat) /\ clock \in Nat
      /\ RateLimitWindow \in Nat \ {0}
  BY RateLimiterAssumption DEF LimiterInv, LimiterTypeOK, Admit
<1>2. PICK e \in RateLimitEntry : SetEntry(key, e)
  <2>1. CASE OpenWindow(key)
    <3>1. [count |-> 1, resetAt |-> clock + RateLimitWindow] \in RateLimitEntry
      BY <1>1 DEF RateLimitEntry
    <3>2. QED
      BY <2>1, <3>1 DEF OpenWindow
  <2>2. CASE CountInWindow(key)
    <3>1. rateLimitState[key] \in RateLimitEntry
      BY <1>1, <2>2 DEF CountInWindow, WindowOpen, LimiterTypeOK
    <3>2. [rateLimitState[key] EXCEPT !.count = @ + 1] \in RateLimitEntry
      BY <3>1 DEF RateLimitEntry
    <3>3. QED
      BY <2>2, <3>2 DEF CountInWindow
  <2>3. QED
    BY <2>1, <2>2 DEF Admit
<1>3. /\ DOMAIN rateLimitState' = DOMAIN rateLimitState \cup {key}
      /\ \A k \in DOMAIN rateLimitState \ {key} : rateLimitState'[k] = rateLimitState[k]
  BY <1>2 DEF SetEntry
<1>4. /\ admitted'[key] = Append(times, clock)
      /\ \A k \in Key \ {key} : admitted'[k] = admitted[k]
  BY <1>1 DEF LimiterTypeOK
<1>5. LimiterTypeOK'
  <2>1. rateLimitState' \in [DOMAIN rateLimitState' -> RateLimitEntry]
    BY <1>1, <1>2 DEF SetEntry, LimiterTypeOK
  <2>2. admitted' \in [Key -> Seq(Nat)]
    BY <1>1 DEF LimiterTypeOK
  <2>3. QED
    BY <1>1, <1>3, <2>1, <2>2 DEF LimiterTypeOK
<1>6. Account(key)'
  <2>1. CASE OpenWindow(key)
    BY <1>1, <2>1, OpeningKeepsAccount DEF LimiterInv
  <2>2. CASE CountInWindow(key)
    BY <1>1, <2>2, CountingKeepsAccount DEF LimiterInv, CountInWindow, WindowOpen
  <2>3. QED
    BY <2>1, <2>2 DEF Admit
<1>7. ASSUME NEW k \in Key \ {key}
      PROVE  IF k \in DOMAIN rateLimitState' THEN Account(k)' ELSE admitted'[k] = <<>>
  BY <1>3, <1>4 DEF LimiterInv, Account, Opened
<1>8. ASSUME NEW k \in Key PROVE Promise(k)'
  <2>1. CASE k = key
    BY <1>1, <1>4, <2>1 DEF LimiterInv, Promise, LimiterTypeOK
  <2>2. CASE k # key
    BY <1>1, <1>3, <1>4, <2>2 DEF LimiterInv, Promise
  <2>3. QED
    BY <2>1, <2>2
<1>9. QED
  BY <1>3, <1>5, <1>6, <1>7, <1>8 DEF LimiterInv

LEMMA RefuseKeepsLimiterInv ==
  ASSUME LimiterInv, NEW key \in Key, Refuse(key), clock' = clock
  PROVE  LimiterInv'
<1> DEFINE rest == rateLimitState[key].resetAt - clock
<1>1. /\ LimiterTypeOK
      /\ key \in DOMAIN rateLimitState
      /\ rateLimitState[key].resetAt \in Nat /\ clock \in Nat
      /\ rest \in Nat
      /\ Second \in Nat \ {0}
      /\ Len(admitted[key]) \in Nat
      /\ rateLimitState' = rateLimitState /\ admitted' = admitted
  BY RateLimiterAssumption
     DEF LimiterInv, LimiterTypeOK, RateLimitEntry, Refuse, Refused, WindowOpen
<1>2. RetryAfter(key) \in Nat /\ RetryAfter(key) * Second >= rest
  BY <1>1, CeilCovers DEF RetryAfter
<1> DEFINE at == clock + RetryAfter(key) * Second
<1>3. at \in Nat /\ rateLimitState[key].resetAt <= at
  <2>1. RetryAfter(key) * Second \in Nat
    BY <1>1, <1>2, SMTT(30)
  <2>2. QED
    BY <1>1, <1>2, <2>1
<1>4. promised' = [promised EXCEPT ![key] = [at |-> at, served |-> Len(admitted[key])]]
  BY DEF Refuse
<1>5. LimiterTypeOK'
  BY <1>1, <1>3, <1>4 DEF LimiterTypeOK
<1>6. ASSUME NEW k \in Key PROVE Promise(k)'
  BY <1>1, <1>3, <1>4 DEF LimiterInv, LimiterTypeOK, Promise
<1>7. \A k \in DOMAIN rateLimitState : Account(k)' = Account(k)
  BY <1>1 DEF Account, Opened
<1>8. QED
  BY <1>1, <1>5, <1>6, <1>7 DEF LimiterInv, Account, Opened

LEMMA LimiterInvStable ==
  ASSUME LimiterInv, UNCHANGED <<rateLimitState, admitted, promised>>,
         clock' \in Nat, clock <= clock'
  PROVE  LimiterInv'
<1>1. LimiterTypeOK' /\ clock \in Nat
  BY DEF LimiterInv, LimiterTypeOK
<1>2. ASSUME NEW k \in Key, k \in DOMAIN rateLimitState, Account(k) PROVE Account(k)'
  <2>1. \A i \in DOMAIN admitted[k] : admitted[k][i] \in Nat
    BY DEF LimiterInv, LimiterTypeOK
  <2>2. QED
    BY <1>1, <1>2, <2>1 DEF Account, Opened
<1>3. QED
  BY <1>1, <1>2 DEF LimiterInv, Promise


-----------------------------------------------------------------------------
LEMMA LetThroughKeepsLimiterInv ==
  ASSUME LimiterInv, NEW r \in Request, clock' = clock,
         \/ LetThrough(MethodOf[r], UrlOf[r], IpOf[r])
         \/ TurnAway(MethodOf[r], UrlOf[r], IpOf[r])
  PROVE  LimiterInv'
<1>1. IpOf[r] \in Ip /\ clock \in Nat
  BY RequestAssumption DEF LimiterInv, LimiterTypeOK
<1>2. CASE Uncounted(MethodOf[r], UrlOf[r])
  BY <1>1, <1>2, LimiterInvStable DEF Uncounted
<1>3. ASSUME NEW b \in BucketName, Admit(<<b, IpOf[r]>>) PROVE LimiterInv'
  BY <1>1, <1>3, AdmitKeepsLimiterInv DEF Key
<1>4. ASSUME NEW b \in BucketName, Refuse(<<b, IpOf[r]>>) PROVE LimiterInv'
  BY <1>1, <1>4, RefuseKeepsLimiterInv DEF Key
<1>5. QED
  BY <1>2, <1>3, <1>4 DEF LetThrough, TurnAway

LEMMA LimiterInvHolds == ServerSpec => []LimiterInv
<1>1. ServerInit => LimiterInv
  <2> SUFFICES ASSUME ServerInit PROVE LimiterInv
    OBVIOUS
  <2>1. LimiterTypeOK
    BY DEF ServerInit, LimiterInit, LimiterTypeOK
  <2>2. \A key \in Key : Promise(key)
    BY DEF ServerInit, LimiterInit, Promise
  <2>3. QED
    BY <2>1, <2>2 DEF ServerInit, LimiterInit, LimiterInv
<1>2. LimiterInv /\ [ServerNext]_serverVars => LimiterInv'
  <2> SUFFICES ASSUME LimiterInv, [ServerNext]_serverVars PROVE LimiterInv'
    OBVIOUS
  <2>1. ASSUME NEW r \in Request, ArriveLimited(r) \/ Arrive(r) PROVE LimiterInv'
    BY <2>1, LetThroughKeepsLimiterInv DEF ArriveLimited, Arrive
  <2>2. ASSUME NEW r \in Request, Handle(r) PROVE LimiterInv'
    BY <2>2, LimiterInvStable DEF Handle, limiterVars, LimiterInv, LimiterTypeOK
  <2>3. CASE ServerTick
    BY <2>3, LimiterInvStable DEF ServerTick, Tick, LimiterInv, LimiterTypeOK
  <2>4. CASE UNCHANGED serverVars
    BY <2>4, LimiterInvStable DEF serverVars, limiterVars, LimiterInv, LimiterTypeOK
  <2>5. QED
    BY <2>1, <2>2, <2>3, <2>4 DEF ServerNext
<1>3. QED
  BY <1>1, <1>2, PTL DEF ServerSpec

(* No stretch as long as a window sees twice the limit, for every limit,   *)
(* window and number of addresses (server.ts:135).                         *)
THEOREM BurstsStayBounded == ServerSpec => []BurstIsBounded
<1>1. LimiterInv => BurstIsBounded
  <2> SUFFICES ASSUME LimiterInv, NEW key \in Key, NEW from \in Range(admitted[key])
               PROVE  AdmittedWithin(key, from) < 2 * Limit[key[1]]
    BY DEF BurstIsBounded
  <2>1. PICK i \in DOMAIN admitted[key] : from = admitted[key][i]
    BY DEF Range
  <2>2. key \in DOMAIN rateLimitState /\ Account(key) /\ LimiterTypeOK
    BY <2>1 DEF LimiterInv
  <2>3. AdmittedWithin(key, from)
          = Cardinality(Between(admitted[key], from, from + RateLimitWindow))
    BY DEF AdmittedWithin, Between
  <2>4. QED
    BY <2>1, <2>2, <2>3, AccountBounds
<1>2. QED
  BY <1>1, LimiterInvHolds, PTL

(* The count of an entry is exactly what its window let through.           *)
THEOREM WindowsKeepQuota == ServerSpec => []WindowKeepsQuota
<1>1. LimiterInv => WindowKeepsQuota
  BY DEF LimiterInv, LimiterTypeOK, WindowKeepsQuota, Account, Since, Opened
<1>2. QED
  BY <1>1, LimiterInvHolds, PTL

(* retry-after never promises too early (server.ts:148).                   *)
THEOREM PatienceIsAlwaysServed == ServerSpec => []PatienceIsServed
<1>1. LimiterInv => PatienceIsServed
  <2> SUFFICES ASSUME LimiterInv, NEW key \in Key, Refused(key),
                      0 < promised[key].at, promised[key].at <= clock
               PROVE  Len(admitted[key]) > promised[key].served
    BY DEF PatienceIsServed
  <2>1. /\ clock \in Nat
        /\ promised[key].at \in Nat /\ promised[key].served \in Nat
        /\ Len(admitted[key]) \in Nat
        /\ rateLimitState[key].resetAt \in Nat
    BY DEF LimiterInv, LimiterTypeOK, RateLimitEntry, Refused, WindowOpen
  <2>2. Promise(key) /\ rateLimitState[key].resetAt > clock
    BY DEF LimiterInv, Refused, WindowOpen
  <2>3. QED
    BY <2>1, <2>2 DEF Promise
<1>2. QED
  BY <1>1, LimiterInvHolds, PTL


-----------------------------------------------------------------------------
(* The workspaces by themselves: every entry has a store of its own.       *)
StoresAreOwn ==
  /\ WorkspacesTypeOK
  /\ IsFiniteSet(DOMAIN workspaces)
  /\ \A w \in DOMAIN workspaces : /\ 0 < workspaces[w].store
                                  /\ workspaces[w].store <= storesMade
                                  /\ workspaces[w].touchedAt <= clock
  /\ \A v, w \in DOMAIN workspaces : workspaces[v].store = workspaces[w].store => v = w

(* Cleanup and eviction, whatever is asked for next.                       *)
LEMMA RoomLeavesOut ==
  ASSUME StoresAreOwn, clock \in Nat
  PROVE  LET kept == Kept(clock)
             room == Room(kept)
         IN  /\ kept \in SUBSET DOMAIN workspaces
             /\ room \in SUBSET kept
             /\ IsFiniteSet(kept) /\ IsFiniteSet(room)
             /\ Cardinality(kept) \in Nat /\ Cardinality(room) \in Nat
             /\ Cardinality(room) >= Cardinality(kept) - 1
             /\ \A v \in kept \ room :
                  /\ Cardinality(kept) >= MaxWorkspaces
                  /\ v # DefaultWorkspaceId
                  /\ \A u \in kept \ {DefaultWorkspaceId} :
                       workspaces[v].touchedAt <= workspaces[u].touchedAt
<1> DEFINE kept == Kept(clock)
           room == Room(kept)
<1>1. kept \in SUBSET DOMAIN workspaces /\ room \in SUBSET kept
  BY DEF Kept, Room
<1>2. IsFiniteSet(kept) /\ IsFiniteSet(room)
  BY <1>1, FS_Subset DEF StoresAreOwn
<1>3. Cardinality(kept) \in Nat /\ Cardinality(room) \in Nat
  BY <1>2, FS_CardinalityType
<1>4. \A w \in kept : workspaces[w].touchedAt \in Nat /\ workspaces[w].store \in Nat
  BY <1>1 DEF StoresAreOwn, WorkspacesTypeOK, WorkspaceEntry
<1>5. \A v \in kept \ room :
        /\ Cardinality(kept) >= MaxWorkspaces
        /\ v \in Oldest(kept)
  BY DEF Room
<1>6. \A v \in Oldest(kept) :
        /\ v # DefaultWorkspaceId
        /\ \A u \in kept \ {DefaultWorkspaceId} :
             workspaces[v].touchedAt <= workspaces[u].touchedAt
  BY <1>4 DEF Oldest
<1>7. \A u, v \in Oldest(kept) : u = v
  <2> SUFFICES ASSUME NEW u \in Oldest(kept), NEW v \in Oldest(kept) PROVE u = v
    OBVIOUS
  <2>1. workspaces[u].store = workspaces[v].store /\ u \in kept /\ v \in kept
    BY <1>4 DEF Oldest
  <2>2. QED
    BY <1>1, <2>1 DEF StoresAreOwn
<1>8. Cardinality(room) >= Cardinality(kept) - 1
  <2>1. CASE kept \ room = {}
    <3>1. room = kept
      BY <1>1, <2>1
    <3>2. QED
      BY <1>3, <3>1
  <2>2. CASE kept \ room # {}
    <3>1. PICK v : v \in kept \ room
      BY <2>2
    <3>2. kept \ room = {v}
      BY <1>5, <1>7, <3>1
    <3>3. room = kept \ {v}
      BY <1>1, <3>1, <3>2
    <3>4. Cardinality(kept \ {v}) = Cardinality(kept) - 1
      BY <1>2, <3>1, FS_RemoveElement
    <3>5. QED
      BY <1>3, <3>3, <3>4
  <2>3. QED
    BY <2>1, <2>2
<1>9. QED
  BY <1>1, <1>2, <1>3, <1>5, <1>6, <1>8

(* What picking a workspace changes.                                       *)
LEMMA GetWorkspaceEffect ==
  ASSUME StoresAreOwn, clock \in Nat, NEW w \in WorkspaceId, GetWorkspace(w, clock)
  PROVE  /\ WorkspacesTypeOK'
         /\ IsFiniteSet(DOMAIN workspaces')
         /\ w \in DOMAIN workspaces'
         /\ workspaces'[w].touchedAt = clock
         /\ storesMade <= storesMade'
         /\ \/ /\ w \in DOMAIN workspaces
               /\ workspaces'[w].store = workspaces[w].store
            \/ workspaces'[w].store = storesMade + 1 /\ storesMade' = storesMade + 1
         /\ \A v \in DOMAIN workspaces' \ {w} :
              /\ v \in DOMAIN workspaces
              /\ workspaces'[v] = workspaces[v]
<1>1. /\ Kept(clock) \in SUBSET DOMAIN workspaces
      /\ Room(Kept(clock)) \in SUBSET Kept(clock)
      /\ IsFiniteSet(Kept(clock)) /\ IsFiniteSet(Room(Kept(clock)))
  BY RoomLeavesOut
<1>2. /\ DOMAIN workspaces \subseteq WorkspaceId
      /\ workspaces \in [DOMAIN workspaces -> WorkspaceEntry]
      /\ storesMade \in Nat
  BY DEF StoresAreOwn, WorkspacesTypeOK
<1>3. CASE TouchExisting(w, clock)
  <2>1. /\ DOMAIN workspaces' = Kept(clock) /\ w \in Kept(clock) /\ storesMade' = storesMade
        /\ workspaces'[w] = [workspaces[w] EXCEPT !.touchedAt = clock]
        /\ \A v \in Kept(clock) \ {w} : workspaces'[v] = workspaces[v]
        /\ workspaces' = [v \in Kept(clock) |-> workspaces'[v]]
    BY <1>3 DEF TouchExisting
  <2>2. /\ workspaces[w] \in WorkspaceEntry
        /\ workspaces'[w] \in WorkspaceEntry
        /\ workspaces'[w].touchedAt = clock
        /\ workspaces'[w].store = workspaces[w].store
    BY <1>1, <1>2, <2>1 DEF WorkspaceEntry
  <2>3. \A v \in Kept(clock) : workspaces'[v] \in WorkspaceEntry
    BY <1>1, <1>2, <2>1, <2>2
  <2>4. workspaces' \in [DOMAIN workspaces' -> WorkspaceEntry]
    BY <2>1, <2>3
  <2>5. QED
    BY <1>1, <1>2, <2>1, <2>2, <2>4 DEF WorkspacesTypeOK
<1>4. CASE CreateWorkspace(w, clock)
  <2> DEFINE room == Room(Kept(clock))
  <2>1. /\ DOMAIN workspaces' = room \cup {w} /\ w \notin Kept(clock)
        /\ storesMade' = storesMade + 1
        /\ workspaces'[w] = [store |-> storesMade + 1, touchedAt |-> clock]
        /\ \A v \in room \ {w} : workspaces'[v] = workspaces[v]
        /\ workspaces' = [v \in room \cup {w} |-> workspaces'[v]]
    BY <1>4 DEF CreateWorkspace
  <2>2. workspaces'[w] \in WorkspaceEntry
    BY <1>2, <2>1 DEF WorkspaceEntry
  <2>3. \A v \in room \cup {w} : workspaces'[v] \in WorkspaceEntry
    BY <1>1, <1>2, <2>1, <2>2
  <2>4. workspaces' \in [DOMAIN workspaces' -> WorkspaceEntry]
    BY <2>1, <2>3
  <2>5. IsFiniteSet(room \cup {w})
    BY <1>1, FS_AddElement
  <2>6. QED
    BY <1>1, <1>2, <2>1, <2>4, <2>5 DEF WorkspacesTypeOK
<1>5. QED
  BY <1>3, <1>4 DEF GetWorkspace

LEMMA GetWorkspaceKeepsOwn ==
  ASSUME StoresAreOwn, clock \in Nat, clock' = clock,
         NEW w \in WorkspaceId, GetWorkspace(w, clock)
  PROVE  StoresAreOwn'
<1>1. \A v \in DOMAIN workspaces :
        workspaces[v].store \in Nat /\ workspaces[v].touchedAt \in Nat /\ storesMade \in Nat
  BY DEF StoresAreOwn, WorkspacesTypeOK, WorkspaceEntry
<1>2. storesMade \in Nat /\ storesMade' \in Nat
  BY GetWorkspaceEffect DEF StoresAreOwn, WorkspacesTypeOK
<1>3. QED
  BY <1>1, <1>2, GetWorkspaceEffect DEF StoresAreOwn


-----------------------------------------------------------------------------
(* The requests that have a store to write to, or wrote to one.            *)
Serving == {r \in Request : requests[r].phase \in {"held", "done"}}

Current(r) ==
  /\ requests[r].workspaceId \in DOMAIN workspaces
  /\ workspaces[requests[r].workspaceId].store = requests[r].store
  /\ workspaces[requests[r].workspaceId].touchedAt >= requests[r].arrivedAt

(* The Map is full, and of nothing that was idle since the request came.   *)
PushedOut(r) ==
  /\ Cardinality(DOMAIN workspaces) >= MaxWorkspaces
  /\ \A w \in DOMAIN workspaces \ {DefaultWorkspaceId} :
       workspaces[w].touchedAt >= requests[r].arrivedAt

Places ==
  /\ StoresAreOwn
  /\ clock \in Nat
  /\ requests \in [Request -> RequestState]
  /\ \A r \in Serving : /\ 0 < requests[r].store
                        /\ requests[r].store <= storesMade
                        /\ requests[r].arrivedAt <= clock
  /\ \A q, r \in Serving : requests[q].store = requests[r].store =>
       requests[q].workspaceId = requests[r].workspaceId
  /\ \A r \in Serving, w \in DOMAIN workspaces : workspaces[w].store = requests[r].store =>
       requests[r].workspaceId = w
  /\ \A r \in Request : InFlight(r) /\ clock < requests[r].arrivedAt + WorkspaceTtl =>
       Current(r) \/ PushedOut(r)

(* Whatever workspace another request asks for, one on its way keeps its   *)
(* own or finds the Map full of others.                                    *)
LEMMA GetWorkspaceKeepsPlace ==
  ASSUME StoresAreOwn, clock \in Nat, NEW w \in WorkspaceId, GetWorkspace(w, clock),
         requests \in [Request -> RequestState],
         NEW r \in Request, requests'[r] = requests[r],
         requests[r].arrivedAt <= clock,
         clock < requests[r].arrivedAt + WorkspaceTtl,
         Current(r) \/ PushedOut(r)
  PROVE  Current(r)' \/ PushedOut(r)'
<1> DEFINE kept == Kept(clock)
           room == Room(kept)
           own  == requests[r].workspaceId
           arrivedAt == requests[r].arrivedAt
<1>1. /\ kept \in SUBSET DOMAIN workspaces /\ room \in SUBSET kept
      /\ IsFiniteSet(kept) /\ IsFiniteSet(room)
      /\ Cardinality(kept) \in Nat /\ Cardinality(room) \in Nat
      /\ Cardinality(room) >= Cardinality(kept) - 1
      /\ \A v \in kept \ room :
           /\ Cardinality(kept) >= MaxWorkspaces
           /\ v # DefaultWorkspaceId
           /\ \A u \in kept \ {DefaultWorkspaceId} :
                workspaces[v].touchedAt <= workspaces[u].touchedAt
  BY RoomLeavesOut
<1>2. /\ arrivedAt \in Nat
      /\ \A v \in DOMAIN workspaces : workspaces[v].touchedAt \in Nat
      /\ WorkspaceTtl \in Nat /\ MaxWorkspaces \in Nat
  BY WorkspacesAssumption
     DEF RequestState, StoresAreOwn, WorkspacesTypeOK, WorkspaceEntry
<1>3. \A v \in DOMAIN workspaces : workspaces[v].touchedAt >= arrivedAt => v \in kept
  BY <1>2 DEF Kept, Expired
<1>4. /\ workspaces'[w].touchedAt = clock
      /\ w \in DOMAIN workspaces'
      /\ \A v \in DOMAIN workspaces' \ {w} : v \in DOMAIN workspaces /\ workspaces'[v] = workspaces[v]
  BY GetWorkspaceEffect
<1>5. ASSUME \A v \in room \ {DefaultWorkspaceId} : workspaces[v].touchedAt >= arrivedAt,
             Cardinality(kept) >= MaxWorkspaces,
             CreateWorkspace(w, clock)
      PROVE  PushedOut(r)'
  <2>1. DOMAIN workspaces' = room \cup {w} /\ w \notin kept
    BY <1>5 DEF CreateWorkspace
  <2>2. Cardinality(room \cup {w}) = Cardinality(room) + 1
    BY <1>1, <2>1, FS_AddElement
  <2>3. Cardinality(room \cup {w}) >= MaxWorkspaces
    BY <1>1, <1>2, <1>5, <2>2
  <2>4. \A v \in DOMAIN workspaces' \ {DefaultWorkspaceId} :
          workspaces'[v].touchedAt >= arrivedAt
    BY <1>1, <1>4, <1>5, <2>1
  <2>5. QED
    BY <2>1, <2>3, <2>4 DEF PushedOut
<1>6. CASE Current(r)
  <2>1. own \in kept
    BY <1>3, <1>6 DEF Current
  <2>2. CASE own \in DOMAIN workspaces'
    <3>1. CASE own = w
      <4>1. TouchExisting(w, clock)
        BY <2>1, <3>1 DEF GetWorkspace, CreateWorkspace
      <4>2. workspaces'[w].store = workspaces[w].store
        BY <1>1, <2>1, <3>1, <4>1
           DEF TouchExisting, StoresAreOwn, WorkspacesTypeOK, WorkspaceEntry
      <4>3. QED
        BY <1>4, <1>6, <2>2, <3>1, <4>2 DEF Current
    <3>2. CASE own # w
      BY <1>4, <1>6, <2>2, <3>2 DEF Current
    <3>3. QED
      BY <3>1, <3>2
  <2>3. CASE own \notin DOMAIN workspaces'
    <3>1. CreateWorkspace(w, clock) /\ own \in kept \ room
      BY <2>1, <2>3 DEF GetWorkspace, TouchExisting, CreateWorkspace
    <3>2. \A v \in kept \ {DefaultWorkspaceId} : workspaces[v].touchedAt >= arrivedAt
      BY <1>1, <1>2, <1>6, <3>1 DEF Current
    <3>3. QED
      BY <1>1, <1>5, <3>1, <3>2
  <2>4. QED
    BY <2>2, <2>3
<1>7. CASE PushedOut(r)
  <2>1. DefaultWorkspaceId \in DOMAIN workspaces => DefaultWorkspaceId \in kept
    BY DEF Kept, Expired
  <2>2. kept = DOMAIN workspaces
    BY <1>1, <1>3, <1>7, <2>1 DEF PushedOut
  <2>3. CASE TouchExisting(w, clock)
    BY <1>4, <1>7, <2>2, <2>3 DEF TouchExisting, PushedOut
  <2>4. CASE CreateWorkspace(w, clock)
    BY <1>1, <1>5, <1>7, <2>2, <2>4 DEF PushedOut
  <2>5. QED
    BY <2>3, <2>4 DEF GetWorkspace
<1>8. QED
  BY <1>6, <1>7


LEMMA ArriveKeepsPlaces ==
  ASSUME Places, NEW r \in Request, Arrive(r)
  PROVE  Places'
<1> DEFINE w == NormalizeWorkspaceId(HeaderOf[r])
           made == workspaces'[w].store
<1>1. /\ clock' = clock /\ GetWorkspace(w, clock) /\ requests[r].phase = "coming"
      /\ requests' = [requests EXCEPT ![r] =
           [phase |-> IF Denied(r) THEN "denied" ELSE "held",
            workspaceId |-> w, store |-> made, arrivedAt |-> clock]]
  BY DEF Arrive
<1>2. w \in WorkspaceId
  BY RequestAssumption, WorkspacesAssumption DEF NormalizeWorkspaceId, Header
<1>3. StoresAreOwn'
  BY <1>1, <1>2, GetWorkspaceKeepsOwn DEF Places
<1>4. /\ WorkspacesTypeOK' /\ w \in DOMAIN workspaces'
      /\ workspaces'[w].touchedAt = clock
      /\ storesMade <= storesMade'
      /\ \/ w \in DOMAIN workspaces /\ made = workspaces[w].store
         \/ made = storesMade + 1 /\ storesMade' = storesMade + 1
      /\ \A v \in DOMAIN workspaces' \ {w} :
           v \in DOMAIN workspaces /\ workspaces'[v] = workspaces[v]
  BY <1>1, <1>2, GetWorkspaceEffect DEF Places
<1>5. /\ made \in Nat /\ 0 < made /\ made <= storesMade'
      /\ storesMade \in Nat /\ storesMade' \in Nat /\ clock \in Nat
  BY <1>3, <1>4 DEF StoresAreOwn, WorkspacesTypeOK, WorkspaceEntry, Places
<1>6. /\ requests' \in [Request -> RequestState]
      /\ requests'[r].workspaceId = w /\ requests'[r].store = made
      /\ requests'[r].arrivedAt = clock
      /\ \A q \in Request \ {r} : requests'[q] = requests[q]
  <2>1. [phase |-> IF Denied(r) THEN "denied" ELSE "held",
         workspaceId |-> w, store |-> made, arrivedAt |-> clock] \in RequestState
    BY <1>2, <1>5 DEF RequestState
  <2>2. QED
    BY <1>1, <2>1 DEF Places
<1>7. /\ r \notin Serving
      /\ Serving' \subseteq Serving \cup {r}
      /\ \A q \in Serving : /\ q # r /\ q \in Request
                            /\ requests[q].store \in Nat /\ requests[q].arrivedAt \in Nat
                            /\ requests[q].store <= storesMade
  BY <1>1, <1>6 DEF Serving, Places, RequestState
<1>8. \A q \in Serving' : /\ 0 < requests'[q].store
                          /\ requests'[q].store <= storesMade'
                          /\ requests'[q].arrivedAt <= clock'
  BY <1>1, <1>4, <1>5, <1>6, <1>7 DEF Places
<1>9. \A q \in Serving : requests[q].store = made => requests[q].workspaceId = w
  BY <1>4, <1>5, <1>7 DEF Places
<1>10. \A p, q \in Serving' : requests'[p].store = requests'[q].store =>
         requests'[p].workspaceId = requests'[q].workspaceId
  BY <1>6, <1>7, <1>9 DEF Places
<1>11. \A q \in Serving', v \in DOMAIN workspaces' :
         workspaces'[v].store = requests'[q].store => requests'[q].workspaceId = v
  <2> SUFFICES ASSUME NEW q \in Serving', NEW v \in DOMAIN workspaces',
                      workspaces'[v].store = requests'[q].store
               PROVE  requests'[q].workspaceId = v
    OBVIOUS
  <2>1. CASE q = r
    BY <1>3, <1>4, <1>6, <2>1 DEF StoresAreOwn
  <2>2. CASE q # r /\ v = w
    BY <1>6, <1>7, <1>9, <2>2
  <2>3. CASE q # r /\ v # w
    BY <1>4, <1>6, <1>7, <2>3 DEF Places
  <2>4. QED
    BY <2>1, <2>2, <2>3
<1>12. ASSUME NEW q \in Request, InFlight(q)', clock' < requests'[q].arrivedAt + WorkspaceTtl
       PROVE  Current(q)' \/ PushedOut(q)'
  <2>1. CASE q = r
    BY <1>4, <1>5, <1>6, <2>1 DEF Current
  <2>2. CASE q # r
    <3>1. requests'[q] = requests[q] /\ InFlight(q) /\ q \in Serving
      BY <1>6, <1>12, <2>2 DEF InFlight, Serving
    <3>2. QED
      BY <1>1, <1>2, <1>12, <3>1, GetWorkspaceKeepsPlace DEF Places
  <2>3. QED
    BY <2>1, <2>2
<1>13. QED
  BY <1>1, <1>3, <1>5, <1>6, <1>8, <1>10, <1>11, <1>12 DEF Places

LEMMA PlacesHold == ServerSpec => []Places
<1>1. ServerInit => Places
  <2> SUFFICES ASSUME ServerInit PROVE Places
    OBVIOUS
  <2>1. requests \in [Request -> RequestState] /\ Serving = {} /\ clock \in Nat
    BY WorkspacesAssumption DEF ServerInit, LimiterInit, RequestState, NoStore, Serving
  <2>2. DOMAIN workspaces = {} /\ WorkspacesTypeOK
    BY DEF ServerInit, WorkspacesInit, WorkspacesTypeOK
  <2>3. StoresAreOwn
    BY <2>2, FS_EmptySet DEF StoresAreOwn
  <2>4. \A r \in Request : ~InFlight(r)
    BY DEF ServerInit, InFlight
  <2>5. QED
    BY <2>1, <2>3, <2>4 DEF Places
<1>2. Places /\ [ServerNext]_serverVars => Places'
  <2> SUFFICES ASSUME Places, [ServerNext]_serverVars PROVE Places'
    OBVIOUS
  <2>1. ASSUME NEW r \in Request, Arrive(r) PROVE Places'
    BY <2>1, ArriveKeepsPlaces
  <2>2. ASSUME NEW r \in Request, ArriveLimited(r) \/ Handle(r) PROVE Places'
    <3>1. UNCHANGED <<clock, workspaces, storesMade>>
      BY <2>2 DEF ArriveLimited, Handle, workspaceVars, limiterVars
    <3>2. /\ requests' \in [Request -> RequestState]
          /\ \A q \in Request : /\ requests'[q].store = requests[q].store
                                /\ requests'[q].workspaceId = requests[q].workspaceId
                                /\ requests'[q].arrivedAt = requests[q].arrivedAt
          /\ Serving' \subseteq Serving
          /\ \A q \in Request : InFlight(q)' => InFlight(q)
      BY <2>2 DEF ArriveLimited, Handle, Places, RequestState, Serving, InFlight
    <3>3. StoresAreOwn'
      BY <3>1 DEF Places, StoresAreOwn, WorkspacesTypeOK
    <3>4. \A q \in Request : Current(q) \/ PushedOut(q) => Current(q)' \/ PushedOut(q)'
      BY <3>1, <3>2 DEF Current, PushedOut
    <3>5. Serving \subseteq Request
      BY DEF Serving
    <3>6. QED
      BY <3>1, <3>2, <3>3, <3>4, <3>5 DEF Places
  <2>3. CASE ServerTick
    <3>1. clock' = clock + 1 /\ UNCHANGED <<workspaces, storesMade, requests>>
      BY <2>3 DEF ServerTick, Tick, workspaceVars
    <3>2. StoresAreOwn'
      BY <3>1 DEF Places, StoresAreOwn, WorkspacesTypeOK, WorkspaceEntry
    <3>3. \A q \in Request : /\ requests[q].arrivedAt \in Nat
                             /\ InFlight(q)' = InFlight(q)
                             /\ Current(q)' = Current(q) /\ PushedOut(q)' = PushedOut(q)
      BY <3>1 DEF Places, RequestState, InFlight, Current, PushedOut
    <3>4. Serving' = Serving /\ Serving \subseteq Request
      BY <3>1 DEF Serving
    <3>5. WorkspaceTtl \in Nat
      BY WorkspacesAssumption
    <3>6. QED
      BY <3>1, <3>2, <3>3, <3>4, <3>5 DEF Places
  <2>4. CASE UNCHANGED serverVars
    BY <2>4 DEF serverVars, limiterVars, workspaceVars, Places, StoresAreOwn, WorkspacesTypeOK,
                Serving, InFlight, Current, PushedOut
  <2>5. QED
    BY <2>1, <2>2, <2>3, <2>4 DEF ServerNext
<1>3. QED
  BY <1>1, <1>2, PTL DEF ServerSpec

(* What one workspace's requests wrote never serves another, for every     *)
(* time to live and number of workspaces (store.ts:784-818).               *)
THEOREM WorkspacesStayIsolated == ServerSpec => []WorkspacesAreIsolated
<1>1. Places => WorkspacesAreIsolated
  BY DEF Places, Serving, WorkspacesAreIsolated, WrittenTo, InFlight
<1>2. QED
  BY <1>1, PlacesHold, PTL

(* A handler's store is the one its workspace still has, unless the request*)
(* took longer than the time to live or the Map was filled meanwhile       *)
(* (server.ts:164).                                                        *)
THEOREM InFlightStoreStaysCurrent == ServerSpec => []InFlightStoreIsCurrent
<1>1. Places => InFlightStoreIsCurrent
  <2> SUFFICES ASSUME Places, NEW r \in Request, InFlight(r),
                      clock < requests[r].arrivedAt + WorkspaceTtl,
                      Cardinality(UsedSince(r)) < MaxWorkspaces - 2
               PROVE  Current(r)
    BY DEF InFlightStoreIsCurrent, Current
  <2> DEFINE own == requests[r].workspaceId
             others == (DOMAIN workspaces \ {DefaultWorkspaceId}) \ {own}
  <2>1. /\ IsFiniteSet(DOMAIN workspaces)
        /\ Cardinality(DOMAIN workspaces) \in Nat
        /\ MaxWorkspaces \in Nat
    BY FS_CardinalityType, WorkspacesAssumption DEF Places, StoresAreOwn
  <2>2. /\ IsFiniteSet(DOMAIN workspaces \ {DefaultWorkspaceId})
        /\ Cardinality(DOMAIN workspaces \ {DefaultWorkspaceId}) \in Nat
        /\ Cardinality(DOMAIN workspaces \ {DefaultWorkspaceId})
             >= Cardinality(DOMAIN workspaces) - 1
    BY <2>1, RemovalCounts
  <2>3. /\ Cardinality(others) \in Nat
        /\ Cardinality(others) >= Cardinality(DOMAIN workspaces \ {DefaultWorkspaceId}) - 1
    BY <2>2, RemovalCounts
  <2>4. ASSUME PushedOut(r) PROVE FALSE
    <3>1. UsedSince(r) = others
      BY <2>4 DEF PushedOut, UsedSince
    <3>2. Cardinality(others) < MaxWorkspaces - 2
      BY <3>1
    <3>3. Cardinality(DOMAIN workspaces) >= MaxWorkspaces
      BY <2>4 DEF PushedOut
    <3>4. QED
      BY <2>1, <2>2, <2>3, <3>2, <3>3
  <2>5. QED
    BY <2>4 DEF Places
<1>2. QED
  BY <1>1, PlacesHold, PTL

(* Every variable of the server keeps its type.                            *)
THEOREM ServerTypeCorrect == ServerSpec => []ServerTypeOK
BY LimiterInvHolds, PlacesHold, PTL DEF LimiterInv, Places, StoresAreOwn, ServerTypeOK

-----------------------------------------------------------------------------
LEMMA DropHasReason ==
  ASSUME StoresAreOwn, clock \in Nat, NEW w \in WorkspaceId, GetWorkspace(w, clock),
         NEW v \in DOMAIN workspaces
  PROVE  \/ v \in DOMAIN workspaces' /\ workspaces'[v].store = workspaces[v].store
         \/ MayBeDropped(v)
<1> DEFINE kept == Kept(clock)
           room == Room(kept)
<1>0. kept = {u \in DOMAIN workspaces : ~Idle(u)}
  BY DEF Kept, Expired, Idle
<1>1. CASE v \notin kept
  BY <1>0, <1>1 DEF MayBeDropped, Idle
<1>2. CASE v \in kept \ room
  <2>1. /\ v # DefaultWorkspaceId
        /\ \A u \in kept \ {DefaultWorkspaceId} :
             workspaces[v].touchedAt <= workspaces[u].touchedAt
    BY <1>2, RoomLeavesOut
  <2>2. \A u \in DOMAIN workspaces : workspaces[u].touchedAt \in Nat
    BY DEF StoresAreOwn, WorkspacesTypeOK, WorkspaceEntry
  <2>3. Cardinality(kept) >= MaxWorkspaces
    BY <1>2 DEF Room
  <2>4. \A u \in DOMAIN workspaces \ {DefaultWorkspaceId} :
          Idle(u) \/ workspaces[u].touchedAt >= workspaces[v].touchedAt
    BY <1>0, <2>1, <2>2
  <2>5. QED
    BY <1>0, <2>1, <2>3, <2>4 DEF MayBeDropped
<1>3. CASE v \in room
  <2>1. room \subseteq kept
    BY RoomLeavesOut
  <2>2. v \in DOMAIN workspaces'
    BY <1>3, <2>1 DEF GetWorkspace, TouchExisting, CreateWorkspace
  <2>3. CASE v = w
    BY <1>3, <2>1, <2>3
       DEF GetWorkspace, TouchExisting, CreateWorkspace, StoresAreOwn, WorkspacesTypeOK,
           WorkspaceEntry
  <2>4. CASE v # w
    BY <2>2, <2>4, GetWorkspaceEffect
  <2>5. QED
    BY <2>2, <2>3, <2>4
<1>4. QED
  BY <1>1, <1>2, <1>3

(* A workspace is given up only idle for its time to live, or as the least *)
(* recently used one of as many as there may be; the default one never     *)
(* (store.ts:772-818).                                                     *)
THEOREM WorkspacesAreDroppedForAReason == ServerSpec => DroppedForAReason
<1>1. Places /\ [ServerNext]_serverVars =>
        [\A w \in DOMAIN workspaces :
           \/ /\ w \in DOMAIN workspaces'
              /\ workspaces'[w].store = workspaces[w].store
           \/ MayBeDropped(w)]_serverVars
  <2> SUFFICES ASSUME Places, ServerNext, NEW v \in DOMAIN workspaces
               PROVE  \/ /\ v \in DOMAIN workspaces'
                         /\ workspaces'[v].store = workspaces[v].store
                      \/ MayBeDropped(v)
    OBVIOUS
  <2>1. ASSUME NEW r \in Request, Arrive(r)
        PROVE  GetWorkspace(NormalizeWorkspaceId(HeaderOf[r]), clock)
               /\ NormalizeWorkspaceId(HeaderOf[r]) \in WorkspaceId
    BY <2>1, RequestAssumption, WorkspacesAssumption DEF Arrive, NormalizeWorkspaceId, Header
  <2>2. CASE \E r \in Request : Arrive(r)
    BY <2>1, <2>2, DropHasReason DEF Places
  <2>3. CASE workspaces' = workspaces
    BY <2>3
  <2>4. QED
    BY <2>2, <2>3 DEF ServerNext, ArriveLimited, Handle, ServerTick, workspaceVars
<1>2. QED
  BY <1>1, PlacesHold, PTL DEF ServerSpec, DroppedForAReason

-----------------------------------------------------------------------------
LEMMA LeastOfSome ==
  ASSUME NEW T \in SUBSET Nat, T # {}
  PROVE  \E n \in T : \A m \in T : n <= m
<1> DEFINE R == OpToRel(<, Nat)
<1>1. \A m, n \in Nat : m < n => <<m, n>> \in R
  BY DEF OpToRel
<1>2. IsWellFoundedOn(R, Nat)
  BY NatLessThanWellFounded
<1> HIDE DEF R
<1>3. PICK n \in T : \A m \in T : ~(<<m, n>> \in R)
  BY <1>2, WFMin
<1>4. ASSUME NEW m \in T PROVE n <= m
  <2>1. m \in Nat /\ n \in Nat /\ ~(m < n)
    BY <1>1, <1>3
  <2>2. QED
    BY <2>1
<1>5. QED
  BY <1>4

(* There is always one to evict.                                           *)
LEMMA OldestExists ==
  ASSUME StoresAreOwn, NEW kept \in SUBSET DOMAIN workspaces, kept \ {DefaultWorkspaceId} # {}
  PROVE  Oldest(kept) # {}
<1> DEFINE others == kept \ {DefaultWorkspaceId}
           times == {workspaces[v].touchedAt : v \in others}
<1>1. \A v \in others : workspaces[v].touchedAt \in Nat /\ workspaces[v].store \in Nat
  BY DEF StoresAreOwn, WorkspacesTypeOK, WorkspaceEntry
<1>2. PICK n \in times : \A m \in times : n <= m
  <2>1. times \in SUBSET Nat /\ times # {}
    <3>1. times \in SUBSET Nat
      BY <1>1
    <3>2. times # {}
      OBVIOUS
    <3>3. QED
      BY <3>1, <3>2
  <2>2. QED
    BY <2>1, LeastOfSome
<1> DEFINE first == {v \in others : workspaces[v].touchedAt = n}
           stores == {workspaces[v].store : v \in first}
<1>3. PICK s \in stores : \A m \in stores : s <= m
  <2>1. stores \in SUBSET Nat /\ stores # {}
    BY <1>1, <1>2
  <2>2. QED
    BY <2>1, LeastOfSome
<1>4. PICK w \in first : workspaces[w].store = s
  OBVIOUS
<1>5. \A v \in others : \/ n < workspaces[v].touchedAt
                        \/ n = workspaces[v].touchedAt /\ s <= workspaces[v].store
  <2> SUFFICES ASSUME NEW v \in others
               PROVE  \/ n < workspaces[v].touchedAt
                      \/ n = workspaces[v].touchedAt /\ s <= workspaces[v].store
    OBVIOUS
  <2>1. n \in Nat /\ workspaces[v].touchedAt \in Nat /\ n <= workspaces[v].touchedAt
    BY <1>1, <1>2
  <2>2. CASE workspaces[v].touchedAt = n
    <3>1. v \in first
      BY <2>2
    <3>2. workspaces[v].store \in stores
      BY <3>1
    <3>3. QED
      BY <2>2, <3>2, <1>3
  <2>3. CASE workspaces[v].touchedAt # n
    <3>. HIDE DEF times, first, stores
    <3>. QED
      BY <2>1, <2>3
  <2>. QED
    BY <2>2, <2>3
<1>6. w \in Oldest(kept)
  BY <1>1, <1>4, <1>5 DEF Oldest
<1>7. QED
  BY <1>6

(* The Map never outgrows its bound, for every bound above one             *)
(* (store.ts:772).                                                         *)
THEOREM WorkspacesStayBounded == ServerSpec => []WorkspacesAreBounded
<1>1. ServerInit => WorkspacesAreBounded
  <2> SUFFICES ASSUME ServerInit PROVE WorkspacesAreBounded
    OBVIOUS
  <2>1. DOMAIN workspaces = {}
    BY DEF ServerInit, WorkspacesInit
  <2>2. QED
    BY <2>1, FS_EmptySet, WorkspacesAssumption DEF WorkspacesAreBounded
<1>2. Places /\ WorkspacesAreBounded /\ [ServerNext]_serverVars => WorkspacesAreBounded'
  <2> SUFFICES ASSUME Places, WorkspacesAreBounded, [ServerNext]_serverVars
               PROVE  WorkspacesAreBounded'
    OBVIOUS
  <2> DEFINE kept == Kept(clock)
             room == Room(kept)
  <2>1. /\ kept \in SUBSET DOMAIN workspaces /\ room \in SUBSET kept
        /\ IsFiniteSet(kept) /\ IsFiniteSet(room)
        /\ Cardinality(kept) \in Nat /\ Cardinality(room) \in Nat
    BY RoomLeavesOut DEF Places
  <2>2. IsFiniteSet(DOMAIN workspaces) /\ Cardinality(DOMAIN workspaces) \in Nat
        /\ MaxWorkspaces \in Nat \ {0, 1}
    BY FS_CardinalityType, WorkspacesAssumption DEF Places, StoresAreOwn
  <2>3. Cardinality(kept) <= MaxWorkspaces
    <3>1. Cardinality(kept) <= Cardinality(DOMAIN workspaces)
      BY <2>1, <2>2, FS_Subset
    <3>2. QED
      BY <2>1, <2>2, <3>1 DEF WorkspacesAreBounded
  <2>4. Cardinality(room) < MaxWorkspaces
    <3>1. CASE Cardinality(kept) >= MaxWorkspaces
      <4>1. kept \ {DefaultWorkspaceId} # {}
        <5>1. Cardinality({DefaultWorkspaceId}) = 1 /\ IsFiniteSet({DefaultWorkspaceId})
          BY FS_Singleton
        <5>2. ASSUME kept \ {DefaultWorkspaceId} = {} PROVE FALSE
          <6>1. kept \in SUBSET {DefaultWorkspaceId}
            BY <5>2
          <6>2. Cardinality(kept) <= 1
            BY <5>1, <6>1, FS_Subset
          <6>3. QED
            BY <2>1, <2>2, <3>1, <6>2
        <5>3. QED
          BY <5>2
      <4>2. PICK w : w \in Oldest(kept)
        BY <2>1, <4>1, OldestExists DEF Places
      <4>3. w \in kept /\ room \in SUBSET (kept \ {w})
        BY <3>1, <4>2 DEF Room, Oldest
      <4>4. /\ IsFiniteSet(kept \ {w})
            /\ Cardinality(kept \ {w}) = Cardinality(kept) - 1
        BY <2>1, <4>3, FS_RemoveElement
      <4>5. Cardinality(room) <= Cardinality(kept \ {w})
        BY <4>3, <4>4, FS_Subset
      <4>6. QED
        BY <2>1, <2>2, <2>3, <4>4, <4>5
    <3>2. CASE ~(Cardinality(kept) >= MaxWorkspaces)
      BY <2>1, <2>2, <3>2 DEF Room
    <3>3. QED
      BY <3>1, <3>2
  <2>5. ASSUME NEW w, TouchExisting(w, clock) PROVE WorkspacesAreBounded'
    BY <2>3, <2>5 DEF TouchExisting, WorkspacesAreBounded
  <2>6. ASSUME NEW w, CreateWorkspace(w, clock) PROVE WorkspacesAreBounded'
    <3>1. DOMAIN workspaces' = room \cup {w}
      BY <2>6 DEF CreateWorkspace
    <3>2. /\ IsFiniteSet(room \cup {w})
          /\ Cardinality(room \cup {w}) \in {Cardinality(room), Cardinality(room) + 1}
      BY <2>1, FS_AddElement
    <3>3. Cardinality(room \cup {w}) <= MaxWorkspaces
      BY <2>1, <2>2, <2>4, <3>2
    <3>4. QED
      BY <3>1, <3>3 DEF WorkspacesAreBounded
  <2>7. CASE workspaces' = workspaces
    BY <2>7 DEF WorkspacesAreBounded
  <2>8. QED
    BY <2>5, <2>6, <2>7
       DEF ServerNext, Arrive, GetWorkspace, ArriveLimited, Handle, ServerTick, workspaceVars,
           serverVars
<1>3. QED
  BY <1>1, <1>2, PlacesHold, PTL DEF ServerSpec

=============================================================================
