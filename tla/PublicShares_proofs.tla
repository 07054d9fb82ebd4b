-------------------------- MODULE PublicShares_proofs --------------------------
(***************************************************************************)
(* Theorems about PublicShares, for any handlers, shares, notes and        *)
(* prefixes, and before them about the limiter it extends, for any keys,   *)
(* limit and window.                                                       *)
(***************************************************************************)
EXTENDS PublicShares, Sums

-----------------------------------------------------------------------------
(* The limiter.  What a key was admitted for is a sum over ages; the       *)
(* lemmas say what the two things that happen to it, a request and a tick, *)
(* do to such sums.                                                        *)

Upto(F, age) == Sum(F, 0..age)

Live(key)   == key \in DOMAIN entries /\ entries[key].left > 0
Opened(key) == Window - entries[key].left    \* how long ago its window opened

LimiterTypeOK ==
  /\ DOMAIN entries \subseteq Keys
  /\ entries \in [DOMAIN entries -> [count : Nat, left : 0..Window]]
  /\ recent \in [Keys -> [Ages -> Nat]]

(* A window that is not over has counted the requests admitted since it    *)
(* opened: all of those after that tick, and the one that opened it.  What *)
(* was admitted before is of a window that opened before the history       *)
(* begins, and so at least one less than a window holds.                   *)
Accounted(key) ==
  LET all == Upto(recent[key], Window - 1) IN
  IF Live(key)
  THEN LET count == entries[key].count IN
       /\ count \in 1..Limit
       /\ Upto(recent[key], Opened(key) - 1) <= count - 1
       /\ count <= Upto(recent[key], Opened(key))
       /\ all <= count + Limit - 1
  ELSE all <= Limit - 1

LimiterInv == LimiterTypeOK /\ \A key \in Keys : Accounted(key)

-------------------------------------------------------------------------------
LEMMA Between == \A a, b \in Int : IsFiniteSet(a..b)
  BY FS_Interval

LEMMA AgesSum ==
  ASSUME NEW F \in [Ages -> Nat], NEW n \in (-1)..(Window - 1)
  PROVE  /\ IsFiniteSet(0..n) /\ 0..n \subseteq Ages
         /\ Upto(F, n) \in Nat
<1>1. IsFiniteSet(0..n) /\ 0..n \subseteq Ages
  <2>1. n \in Int /\ 0..n \subseteq Ages
    BY LimitsAssumption DEF Ages
  <2> QED
    BY <2>1, Between
<1>2. \A x \in 0..n : F[x] \in Nat
  BY <1>1
<1> QED
  BY <1>1, <1>2, SumNat DEF Upto

LEMMA UptoGrows ==
  ASSUME NEW F \in [Ages -> Nat],
         NEW m \in (-1)..(Window - 1), NEW n \in (-1)..(Window - 1), m <= n
  PROVE  Upto(F, m) <= Upto(F, n)
<1>1. 0..n = (0..m) \cup ((m + 1)..n) /\ (0..m) \cap ((m + 1)..n) = {}
  OBVIOUS
<1>2. IsFiniteSet((m + 1)..n) /\ (m + 1)..n \subseteq Ages
  <2>1. m + 1 \in Int /\ n \in Int /\ (m + 1)..n \subseteq Ages
    BY LimitsAssumption DEF Ages
  <2> QED
    BY <2>1, Between
<1>3. IsFiniteSet(0..m) /\ 0..m \subseteq Ages /\ Upto(F, m) \in Nat
  BY AgesSum
<1>4. \A x \in (0..m) \cup ((m + 1)..n) : F[x] \in Nat /\ F[x] \in Int
  BY <1>2, <1>3
<1>5. Sum(F, (m + 1)..n) \in Nat
  BY <1>2, <1>4, SumNat
<1>6. Sum(F, (0..m) \cup ((m + 1)..n)) = Sum(F, 0..m) + Sum(F, (m + 1)..n)
  BY <1>1, <1>2, <1>3, <1>4, SumJoin
<1>7. Upto(F, n) = Upto(F, m) + Sum(F, (m + 1)..n)
  BY <1>1, <1>6, Zenon DEF Upto
<1> QED
  BY <1>3, <1>5, <1>7

LEMMA UptoNothing == \A F : Upto(F, -1) = 0
<1>1. 0..(-1) = {}
  OBVIOUS
<1> QED
  BY <1>1, SumEmpty DEF Upto

(* A request is admitted at age 0.                                         *)
LEMMA UptoNoted ==
  ASSUME NEW F \in [Ages -> Nat], NEW n \in Ages
  PROVE  /\ [F EXCEPT ![0] = @ + 1] \in [Ages -> Nat]
         /\ Upto([F EXCEPT ![0] = @ + 1], n) = Upto(F, n) + 1
<1> DEFINE G == [F EXCEPT ![0] = @ + 1]
<1>1. 0 \in Ages /\ G \in [Ages -> Nat] /\ G[0] = F[0] + 1 /\ \A x \in 1..n : G[x] = F[x]
  BY LimitsAssumption DEF Ages
<1>2. /\ 0 \notin 1..n /\ 0..n = (1..n) \cup {0} /\ 1..n \subseteq Ages
      /\ IsFiniteSet(1..n)
  <2>1. n \in Int /\ 0 \notin 1..n /\ 0..n = (1..n) \cup {0} /\ 1..n \subseteq Ages
    BY LimitsAssumption DEF Ages
  <2> QED
    BY <2>1, Between
<1>3. \A x \in (1..n) \cup {0} : G[x] \in Nat /\ F[x] \in Nat /\ G[x] \in Int /\ F[x] \in Int
  BY <1>1, <1>2
<1> HIDE DEF G
<1>4. Sum(G, 1..n) = Sum(F, 1..n)
  BY <1>1, <1>2, SumSame
<1>5. Sum(G, (1..n) \cup {0}) = Sum(G, 1..n) + G[0]
  BY <1>2, <1>3, SumAdd
<1>6. Sum(F, (1..n) \cup {0}) = Sum(F, 1..n) + F[0]
  BY <1>2, <1>3, SumAdd
<1>7. Sum(F, 1..n) \in Nat
  BY <1>2, <1>3, SumNat
<1>8. Upto(G, n) = Upto(F, n) + 1
  <2>1. Upto(G, n) = Sum(F, 1..n) + G[0]
    BY <1>2, <1>4, <1>5, Zenon DEF Upto
  <2>2. Upto(F, n) = Sum(F, 1..n) + F[0]
    BY <1>2, <1>6, Zenon DEF Upto
  <2> QED
    BY <1>1, <1>3, <1>7, <2>1, <2>2
<1> QED
  BY <1>1, <1>8 DEF G

(* A tick makes everything a tick older.                                   *)
Older(F) == [age \in Ages |-> IF age = 0 THEN 0 ELSE F[age - 1]]

LEMMA UptoOlder ==
  ASSUME NEW F \in [Ages -> Nat], NEW n \in Ages
  PROVE  /\ Older(F) \in [Ages -> Nat]
         /\ Upto(Older(F), n) = Upto(F, n - 1)
<1> DEFINE G == Older(F)
           b == [x \in 1..n |-> x - 1]
<1>1. 0 \in Ages /\ G \in [Ages -> Nat] /\ G[0] = 0 /\ \A x \in 1..n : G[x] = F[x - 1]
  BY LimitsAssumption DEF Ages, Older
<1>2. /\ 0 \notin 1..n /\ 0..n = (1..n) \cup {0} /\ 1..n \subseteq Ages
      /\ IsFiniteSet(1..n) /\ 0..(n - 1) \subseteq Ages
  <2>1. /\ n \in Int /\ 0 \notin 1..n /\ 0..n = (1..n) \cup {0} /\ 1..n \subseteq Ages
        /\ 0..(n - 1) \subseteq Ages
    BY LimitsAssumption DEF Ages
  <2> QED
    BY <2>1, Between
<1>3. \A x \in (1..n) \cup {0} : G[x] \in Nat /\ G[x] \in Int
  BY <1>1, <1>2
<1>4. b \in Bijection(1..n, 0..(n - 1))
  <2>1. b \in [1..n -> 0..(n - 1)]
    BY DEF Ages
  <2>2. \A x, y \in 1..n : b[x] = b[y] => x = y
    OBVIOUS
  <2>3. \A y \in 0..(n - 1) : y + 1 \in 1..n /\ b[y + 1] = y
    BY DEF Ages
  <2>4. \A y \in 0..(n - 1) : \E x \in 1..n : b[x] = y
    BY <2>3
  <2> HIDE DEF b
  <2> QED
    BY <2>1, <2>2, <2>4 DEF Bijection, Injection, Surjection, IsInjective
<1>5. Sum(G, 1..n) = Sum(F, 0..(n - 1))
  <2>1. \A x \in 1..n : G[x] = F[b[x]]
    BY <1>1
  <2>2. \A y \in 0..(n - 1) : F[y] \in Int
    BY <1>2
  <2>3. ASSUME NEW c \in Bijection(1..n, 0..(n - 1)), \A x \in 1..n : G[x] = F[c[x]]
        PROVE  Sum(G, 1..n) = Sum(F, 0..(n - 1))
    <3> DEFINE S == 1..n
               T == 0..(n - 1)
    <3>1. IsFiniteSet(S) /\ c \in Bijection(S, T) /\ (\A x \in S : G[x] = F[c[x]])
          /\ (\A y \in T : F[y] \in Int)
      BY <1>2, <2>2, <2>3
    <3> HIDE DEF G, b, S, T
    <3>2. Sum(G, S) = Sum(F, T)
      BY <3>1, SumCarried
    <3> QED
      BY <3>2 DEF S, T
  <2> HIDE DEF b, G
  <2> QED
    BY <1>4, <2>1, <2>3
<1> HIDE DEF G
<1>6. Sum(G, (1..n) \cup {0}) = Sum(G, 1..n) + G[0]
  BY <1>2, <1>3, SumAdd
<1>7. Sum(G, 1..n) \in Nat
  BY <1>2, <1>3, SumNat
<1>8. Upto(G, n) = Upto(F, n - 1)
  <2>1. Upto(G, n) = Upto(F, n - 1) + G[0] /\ Upto(F, n - 1) \in Nat
    BY <1>2, <1>5, <1>6, <1>7, Zenon DEF Upto
  <2> QED
    BY <1>1, <2>1
<1> QED
  BY <1>1, <1>8 DEF G

-------------------------------------------------------------------------------
LEMMA LimiterInit == Init => LimiterInv
<1> SUFFICES ASSUME Init PROVE LimiterInv
  OBVIOUS
<1> USE DEF Init
<1> DEFINE Z == [age \in Ages |-> 0]
<1>1. DOMAIN entries = {} /\ Z \in [Ages -> Nat] /\ \A key \in Keys : recent[key] = Z
  OBVIOUS
<1>2. LimiterTypeOK
  BY <1>1 DEF LimiterTypeOK
<1>3. Upto(Z, Window - 1) = 0
  BY LimitsAssumption, Between, SumZero DEF Upto, Ages
<1> QED
  BY <1>1, <1>2, <1>3, LimitsAssumption DEF LimiterInv, Accounted, Live

LEMMA LimiterRestart == Init' => LimiterInv'
  BY LimiterInit, PTL

(* A key a request is not counted under keeps its account.                 *)
LEMMA AccountKept ==
  ASSUME LimiterInv, NEW key \in Keys, recent'[key] = recent[key],
         Live(key)' <=> Live(key), Live(key) => entries'[key] = entries[key]
  PROVE  Accounted(key)'
  BY DEF LimiterInv, Accounted, Opened, Live

LEMMA AllowKeeps ==
  ASSUME LimiterInv, NEW keys \in SUBSET Keys, Allow(keys)
  PROVE  LimiterInv'
<1>1. CASE \E key \in keys : Full(key)
  <2>1. entries' = Pruned /\ recent' = recent
    BY <1>1 DEF Allow
  <2>2. \A key : /\ Live(key)' <=> Live(key)
                 /\ Live(key) => entries'[key] = entries[key]
    BY <2>1 DEF Pruned, Restrict, Live
  <2>3. LimiterTypeOK'
    BY <2>1 DEF LimiterInv, LimiterTypeOK, Pruned, Restrict
  <2> QED
    BY <2>1, <2>2, <2>3, AccountKept DEF LimiterInv
<1>2. CASE ~\E key \in keys : Full(key)
  <2>1. entries' = Counted(keys) /\ recent' = Noted(keys)
    BY <1>2 DEF Allow
  <2>2. LimiterTypeOK'
    <3>1. DOMAIN Pruned \subseteq Keys /\ Pruned \in [DOMAIN Pruned -> [count : Nat, left : 0..Window]]
      BY DEF LimiterInv, LimiterTypeOK, Pruned, Restrict
    <3>2. /\ DOMAIN Counted(keys) = DOMAIN Pruned \cup keys
          /\ Counted(keys) \in [DOMAIN Pruned \cup keys -> [count : Nat, left : 0..Window]]
      BY <3>1, LimitsAssumption DEF Counted
    <3>3. Noted(keys) \in [Keys -> [Ages -> Nat]]
      <4>1. \A key \in Keys : [recent[key] EXCEPT ![0] = @ + 1] \in [Ages -> Nat]
        BY UptoNoted, LimitsAssumption DEF LimiterInv, LimiterTypeOK, Ages
      <4> QED
        BY <4>1 DEF Noted, LimiterInv, LimiterTypeOK
    <3> QED
      BY <2>1, <3>1, <3>2, <3>3 DEF LimiterTypeOK
  <2>3. ASSUME NEW key \in Keys PROVE Accounted(key)'
    <3> DEFINE F == recent[key]
               G == [F EXCEPT ![0] = @ + 1]
    <3>1. CASE key \notin keys
      <4>1. recent'[key] = recent[key] /\ (Live(key)' <=> Live(key))
              /\ (Live(key) => entries'[key] = entries[key])
        BY <2>1, <3>1 DEF Counted, Noted, Pruned, Restrict, Live
      <4> QED
        BY <4>1, AccountKept
    <3>2. F \in [Ages -> Nat] /\ Window - 1 \in Ages
      BY LimitsAssumption DEF LimiterInv, LimiterTypeOK, Ages
    <3>3. key \in keys => recent'[key] = G
      BY <2>1 DEF Noted
    <3>4. \A n \in Ages : Upto(G, n) = Upto(F, n) + 1
      BY <3>2, UptoNoted
    <3>5. Upto(F, Window - 1) \in Nat /\ \A n \in Ages : Upto(F, n) \in Nat
      BY <3>2, AgesSum, LimitsAssumption DEF Ages
    <3>6. CASE key \in keys /\ Live(key)
      <4> DEFINE n == Opened(key)
      <4>1. /\ entries'[key] = [entries[key] EXCEPT !.count = @ + 1]
            /\ Live(key)' /\ Opened(key)' = n
        BY <2>1, <3>6 DEF Counted, Pruned, Restrict, Live, Opened, LimiterInv, LimiterTypeOK
      <4>2. n \in Ages /\ entries[key].count < Limit
        BY <1>2, <3>6, LimitsAssumption
           DEF Full, Live, Opened, Ages, LimiterInv, LimiterTypeOK
      <4>3. entries'[key].count = entries[key].count + 1 /\ entries[key].count \in Nat
        BY <3>6, <4>1 DEF Live, LimiterInv, LimiterTypeOK
      <4>4. Upto(G, n - 1) <= entries[key].count
        <5>1. CASE n = 0
          BY <4>3, <5>1, UptoNothing
        <5>2. CASE n # 0
          <6>1. n - 1 \in Ages
            BY <4>2, <5>2, LimitsAssumption DEF Ages
          <6>2. Upto(F, n - 1) <= entries[key].count - 1
            BY <3>6 DEF LimiterInv, Accounted
          <6> HIDE DEF n, F, G
          <6> QED
            BY <3>4, <3>5, <4>3, <6>1, <6>2
        <5> QED
          BY <5>1, <5>2
      <4>5. /\ entries[key].count + 1 <= Upto(G, n)
            /\ Upto(G, Window - 1) <= entries[key].count + 1 + Limit - 1
            /\ entries[key].count + 1 \in 1..Limit
        <5>1. /\ entries[key].count <= Upto(F, n)
              /\ Upto(F, Window - 1) <= entries[key].count + Limit - 1
              /\ entries[key].count \in 1..Limit
          BY <3>6 DEF LimiterInv, Accounted
        <5> HIDE DEF n, F, G
        <5> QED
          BY <3>2, <3>4, <3>5, <4>2, <4>3, <5>1, LimitsAssumption
      <4> HIDE DEF n, F, G
      <4> QED
        BY <3>3, <3>6, <4>1, <4>3, <4>4, <4>5 DEF Accounted
    <3>7. CASE key \in keys /\ ~Live(key)
      <4>1. entries'[key] = [count |-> 1, left |-> Window] /\ Live(key)' /\ Opened(key)' = 0
        BY <2>1, <3>7, LimitsAssumption DEF Counted, Pruned, Restrict, Live, Opened
      <4>2. Upto(F, Window - 1) <= Limit - 1
        BY <3>7 DEF LimiterInv, Accounted
      <4>3. 0 \in Ages /\ Upto(G, -1) = 0
        BY LimitsAssumption, UptoNothing DEF Ages
      <4>4. 1 <= Upto(G, 0) /\ Upto(G, Window - 1) <= 1 + Limit - 1
        <5> HIDE DEF F, G
        <5> QED
          BY <3>2, <3>4, <3>5, <4>2, <4>3, LimitsAssumption
      <4> HIDE DEF F, G
      <4> QED
        BY <3>3, <3>7, <4>1, <4>3, <4>4, LimitsAssumption DEF Accounted
    <3> QED
      BY <3>1, <3>6, <3>7
  <2> QED
    BY <2>2, <2>3 DEF LimiterInv
<1> QED
  BY <1>1, <1>2

LEMMA TickKeeps ==
  ASSUME LimiterInv, Tick
  PROVE  LimiterInv'
<1>1. /\ DOMAIN entries' = DOMAIN entries
      /\ \A key \in DOMAIN entries :
           entries'[key] = [entries[key] EXCEPT !.left = IF @ = 0 THEN 0 ELSE @ - 1]
      /\ recent' = [key \in Keys |-> Older(recent[key])]
  BY DEF Tick, Older
<1>2. LimiterTypeOK'
  <2>1. \A key \in Keys : Older(recent[key]) \in [Ages -> Nat]
    BY UptoOlder, LimitsAssumption DEF LimiterInv, LimiterTypeOK, Ages, Older
  <2>2. /\ entries' \in [DOMAIN entries' -> [count : Nat, left : 0..Window]]
        /\ DOMAIN entries' \subseteq Keys
    <3>1. \A key \in DOMAIN entries : entries[key] \in [count : Nat, left : 0..Window]
      BY DEF LimiterInv, LimiterTypeOK
    <3>2. \A key \in DOMAIN entries : entries'[key] \in [count : Nat, left : 0..Window]
      BY <1>1, <3>1, LimitsAssumption
    <3>3. entries' = [key \in DOMAIN entries |-> entries'[key]]
      BY DEF Tick
    <3> QED
      BY <1>1, <3>2, <3>3 DEF LimiterInv, LimiterTypeOK
  <2> QED
    BY <1>1, <2>1, <2>2 DEF LimiterTypeOK
<1>3. ASSUME NEW key \in Keys PROVE Accounted(key)'
  <2> DEFINE F == recent[key]
             G == Older(F)
  <2>1. F \in [Ages -> Nat] /\ Window - 1 \in Ages /\ recent'[key] = G
    BY <1>1, LimitsAssumption DEF LimiterInv, LimiterTypeOK, Ages
  <2>2. \A n \in Ages : Upto(G, n) = Upto(F, n - 1)
    BY <2>1, UptoOlder
  <2>3. \A n \in (-1)..(Window - 1) : Upto(F, n) \in Nat /\ Upto(F, n) <= Upto(F, Window - 1)
    BY <2>1, AgesSum, UptoGrows, LimitsAssumption
  <2>4. Upto(G, Window - 1) = Upto(F, Window - 2) /\ Upto(F, Window - 2) <= Upto(F, Window - 1)
        /\ Upto(F, Window - 2) \in Nat /\ Upto(F, Window - 1) \in Nat
    <3>1. (Window - 1) - 1 = Window - 2 /\ Window - 2 \in (-1)..(Window - 1)
          /\ Window - 1 \in (-1)..(Window - 1)
      BY LimitsAssumption
    <3> HIDE DEF F, G
    <3> QED
      BY <2>1, <2>2, <2>3, <3>1
  <2>5. CASE ~Live(key)
    <3>1. ~Live(key)'
      BY <1>1, <2>5 DEF Live, LimiterInv, LimiterTypeOK
    <3>2. Upto(F, Window - 1) <= Limit - 1
      BY <2>5 DEF LimiterInv, Accounted
    <3>3. Upto(G, Window - 1) <= Limit - 1
      <4> HIDE DEF F, G
      <4> QED
        BY <2>4, <3>2, LimitsAssumption
    <3> QED
      BY <2>1, <3>1, <3>3 DEF Accounted
  <2>6. CASE Live(key)
    <3> DEFINE n == Opened(key)
               count == entries[key].count
    <3>1. /\ key \in DOMAIN entries /\ entries[key].left \in 1..Window /\ count \in Nat
          /\ entries'[key].count = count /\ entries'[key].left = entries[key].left - 1
      BY <1>1, <2>6 DEF Live, LimiterInv, LimiterTypeOK
    <3>2. /\ count \in 1..Limit
          /\ Upto(F, n - 1) <= count - 1
          /\ count <= Upto(F, n)
          /\ Upto(F, Window - 1) <= count + Limit - 1
      BY <2>6 DEF LimiterInv, Accounted
    <3>3. CASE entries[key].left = 1
      <4>1. ~Live(key)' /\ n = Window - 1
        BY <1>1, <3>1, <3>3 DEF Live, Opened
      <4>2. Upto(F, Window - 2) <= count - 1
        <5>1. n - 1 = Window - 2
          BY <4>1, LimitsAssumption
        <5> HIDE DEF F, n
        <5> QED
          BY <3>2, <5>1
      <4>3. Upto(G, Window - 1) <= Limit - 1
        <5> HIDE DEF F, G, n
        <5> QED
          BY <2>4, <3>2, <4>2, LimitsAssumption
      <4> QED
        BY <2>1, <4>1, <4>3 DEF Accounted
    <3>4. CASE entries[key].left # 1
      <4>1. Live(key)' /\ Opened(key)' = n + 1 /\ n + 1 \in Ages /\ n \in Ages
        BY <1>1, <3>1, <3>4, LimitsAssumption DEF Live, Opened, Ages
      <4>2. Upto(G, n + 1) = Upto(F, n) /\ Upto(G, n) = Upto(F, n - 1)
        <5>1. (n + 1) - 1 = n /\ n \in Int
          BY <4>1, LimitsAssumption DEF Ages
        <5> HIDE DEF F, G, n
        <5> QED
          BY <2>2, <4>1, <5>1
      <4>3. /\ Upto(G, (n + 1) - 1) <= count - 1
            /\ count <= Upto(G, n + 1)
            /\ Upto(G, Window - 1) <= count + Limit - 1
        <5>1. (n + 1) - 1 = n
          BY <4>1, LimitsAssumption DEF Ages
        <5> HIDE DEF F, G, n
        <5> QED
          BY <2>4, <3>1, <3>2, <4>2, <5>1, LimitsAssumption
      <4> HIDE DEF F, G, n
      <4> QED
        BY <2>1, <3>1, <3>2, <4>1, <4>3 DEF Accounted
    <3> QED
      BY <3>3, <3>4
  <2> QED
    BY <2>5, <2>6
<1> QED
  BY <1>2, <1>3 DEF LimiterInv

-------------------------------------------------------------------------------
LEMMA AdmittedIs ==
  ASSUME LimiterTypeOK, NEW key \in Keys
  PROVE  Admitted(key) = Upto(recent[key], Window - 1)
<1>1. recent[key] \in [Ages -> Nat]
  BY DEF LimiterTypeOK
<1> QED
  BY <1>1, SumOfAll DEF Admitted, Upto, Ages

LEMMA LimiterKept ==
  ASSUME LimiterInv
  PROVE  BurstsAreBounded /\ FullKeysWereUsed
<1> SUFFICES ASSUME NEW key \in Keys
             PROVE  /\ Admitted(key) <= 2 * Limit - 1
                    /\ Full(key) => Admitted(key) >= Limit
  BY DEF BurstsAreBounded, FullKeysWereUsed
<1> DEFINE F == recent[key]
<1>1. F \in [Ages -> Nat] /\ Admitted(key) = Upto(F, Window - 1) /\ Upto(F, Window - 1) \in Nat
  <2>1. F \in [Ages -> Nat] /\ Window - 1 \in (-1)..(Window - 1)
    BY LimitsAssumption DEF LimiterInv, LimiterTypeOK
  <2>2. Upto(F, Window - 1) \in Nat
    BY <2>1, AgesSum
  <2> QED
    BY <2>1, <2>2, AdmittedIs DEF LimiterInv
<1>2. Live(key) => Upto(F, Opened(key)) \in Nat /\ Upto(F, Opened(key)) <= Upto(F, Window - 1)
  <2>1. Live(key) => Opened(key) \in Ages
    BY LimitsAssumption DEF Live, Opened, Ages, LimiterInv, LimiterTypeOK
  <2>2. \A n \in Ages : Upto(F, n) \in Nat /\ Upto(F, n) <= Upto(F, Window - 1)
    BY <1>1, AgesSum, UptoGrows, LimitsAssumption DEF Ages
  <2> QED
    BY <2>1, <2>2
<1>3. Full(key) => Live(key) /\ entries[key].count >= Limit
  BY DEF Full, Live
<1> HIDE DEF F
<1> QED
  BY <1>1, <1>2, <1>3, LimitsAssumption DEF LimiterInv, Accounted, F

(* However requests are spread over the windows of a key, no period of the *)
(* length of a window admits more than two windows hold, less one; and a   *)
(* key is full only for requests of its own.                               *)
THEOREM LimiterBounds == Spec => [](BurstsAreBounded /\ FullKeysWereUsed)
<1>1. Init => LimiterInv
  BY LimiterInit
<1>2. LimiterInv /\ [Next]_vars => LimiterInv'
  <2>1. ASSUME LimiterInv, UNCHANGED vars PROVE LimiterInv'
    BY <2>1 DEF vars, LimiterInv, LimiterTypeOK, Accounted, Live, Opened
  <2> QED
    BY <2>1, AllowKeeps, TickKeeps DEF Next
<1>3. LimiterInv => BurstsAreBounded /\ FullKeysWereUsed
  BY LimiterKept
<1> QED
  BY <1>1, <1>2, <1>3, PTL DEF Spec

-----------------------------------------------------------------------------
(* Requests and updates.                                                   *)

Jobs == {Idle} \cup PublicJobs \cup UpdateJobs

(* What may be served to a request: the files under its prefix, and what   *)
(* notes there have embedded since the lookup.                             *)
Allowed(h) == Covers[jobs[h].prefix] \cup jobs[h].seen

(* An update that was not asked to set a field writes it as it read it.    *)
UpdatesAgree ==
  \A h \in Handlers : At(h, "write") =>
    \A f \in {"prefix", "revoked", "left"} :
      f \notin jobs[h].asked => jobs[h].row[f] = jobs[h].was[f]

(* A request whose share was of no use all along has yet to look it up.    *)
DeadAreShut ==
  \A h \in Handlers : Reading(h) /\ jobs[h].dead => At(h, "lookup") /\ ~Usable(jobs[h].id)

(* What notes under the prefix embed now has been seen, and what a request *)
(* holds or is about to read may be served to it.                          *)
InBounds(h) ==
  /\ Embedded(jobs[h].prefix) \subseteq jobs[h].seen
  /\ jobs[h].files \cup jobs[h].todo \subseteq Allowed(h)
  /\ At(h, "fetch") /\ jobs[h].kind # "tree" =>
       /\ jobs[h].file \in Files \cap Allowed(h)
       /\ jobs[h].kind = "download" => jobs[h].file \in Covers[jobs[h].prefix]
  /\ At(h, "reference") => jobs[h].kind = "raw" /\ jobs[h].file \in Files

FoundAreAllowed ==
  \A h \in Handlers :
    /\ Reading(h) /\ ~At(h, "lookup") => InBounds(h)
    /\ At(h, "lookup") => jobs[h].files = {} /\ jobs[h].todo = {}

IInv == TypeOK /\ UpdatesAgree /\ DeadAreShut /\ FoundAreAllowed
-------------------------------------------------------------------------------
(* What a request is follows from its step.                                *)
LEMMA JobKinds ==
  ASSUME TypeOK, NEW h \in Handlers
  PROVE  /\ Reading(h) => jobs[h] \in PublicJobs
         /\ At(h, "write") => jobs[h] \in UpdateJobs
         /\ At(h, "idle") => jobs[h] = Idle
<1>1. CASE jobs[h] = Idle
  BY <1>1 DEF Reading, At, Idle
<1>2. CASE jobs[h] \in PublicJobs
  BY <1>2 DEF Reading, At, PublicJobs, Steps
<1>3. CASE jobs[h] \in UpdateJobs
  BY <1>3 DEF Reading, At, UpdateJobs
<1> QED BY <1>1, <1>2, <1>3 DEF TypeOK

(* A step that puts one job in its place.                                  *)
LEMMA JobsTyped ==
  ASSUME TypeOK, NEW h \in Handlers, NEW job \in Jobs, jobs' = [jobs EXCEPT ![h] = job],
         job.step = "write" => job.id \in DOMAIN shares,
         job.step \notin {"idle", "lookup", "write"} => job.prefix # None,
         UNCHANGED <<shares, embeds>>
  PROVE  TypeOK'
BY DEF TypeOK, At, Reading, Jobs

LEMMA AnswerTyped ==
  ASSUME TypeOK, NEW h \in Handlers, Answer(h), UNCHANGED <<shares, embeds>>
  PROVE  TypeOK'
<1>1. Idle \in Jobs /\ Idle.step = "idle"
  BY DEF Jobs, Idle
<1> QED BY <1>1, JobsTyped DEF Answer

LEMMA PatchedIsRow ==
  ASSUME NEW row \in Row, NEW patch \in Patches
  PROVE  /\ Patched(row, patch) \in Row
         /\ DOMAIN patch \subseteq {"prefix", "revoked", "left"}
         /\ \A f \in {"prefix", "revoked", "left"} :
              f \notin DOMAIN patch => Patched(row, patch)[f] = row[f]
<1>1. DOMAIN row = {"prefix", "revoked", "left"}
  BY DEF Row
<1>2. CASE patch \in [prefix : Prefixes]
  BY <1>1, <1>2 DEF Patched, Row
<1>3. CASE patch \in [revoked : BOOLEAN]
  BY <1>1, <1>3 DEF Patched, Row
<1>4. CASE patch \in [left : Lifetimes \cup {Never}]
  BY <1>1, <1>4, LifetimesAssumption DEF Patched, Row
<1>5. CASE patch = <<>>
  BY <1>1, <1>5 DEF Patched, Row
<1> QED BY <1>2, <1>3, <1>4, <1>5 DEF Patches

LEMMA AgedIsRow ==
  ASSUME NEW row \in Row
  PROVE  /\ Aged(row) \in Row
         /\ Aged(row).prefix = row.prefix /\ Aged(row).revoked = row.revoked
         /\ Active(Aged(row)) => Active(row)
BY DEF Aged, Row, Active, Never
-------------------------------------------------------------------------------
(* Types.                                                                  *)

LEMMA TablesTyped ==
  ASSUME TypeOK, SharesNext
  PROVE  /\ DOMAIN shares' \subseteq ShareIds /\ shares' \in [DOMAIN shares' -> Row]
         /\ DOMAIN shares \subseteq DOMAIN shares'
         /\ embeds' \in [Notes -> SUBSET Media]
<1>1. CASE CreateGitNoteShare
  <2>1. PICK id \in ShareIds \ DOMAIN shares, prefix \in Prefixes,
             left \in Lifetimes \cup {Never} :
          shares' = [i \in DOMAIN shares \cup {id} |->
            IF i = id THEN [prefix |-> prefix, revoked |-> FALSE, left |-> left] ELSE shares[i]]
    BY <1>1 DEF CreateGitNoteShare
  <2>2. [prefix |-> prefix, revoked |-> FALSE, left |-> left] \in Row
    BY LifetimesAssumption DEF Row
  <2> QED BY <1>1, <2>1, <2>2 DEF TypeOK, CreateGitNoteShare
<1>2. CASE RevokeGitNoteShare
  <2>1. PICK id \in DOMAIN shares : shares' = [shares EXCEPT ![id].revoked = TRUE]
    BY <1>2 DEF RevokeGitNoteShare
  <2>2. [shares[id] EXCEPT !.revoked = TRUE] \in Row
    BY DEF TypeOK, Row
  <2> QED BY <1>2, <2>1, <2>2 DEF TypeOK, RevokeGitNoteShare
<1>3. CASE EditNote
  BY <1>3 DEF TypeOK, EditNote
<1>4. CASE Time
  BY <1>4, AgedIsRow DEF TypeOK, Time
<1>5. CASE Restart
  BY <1>5 DEF TypeOK, Restart
<1>6. ASSUME NEW h \in Handlers, UpdateGitNoteShare(h)
      PROVE  /\ DOMAIN shares' \subseteq ShareIds /\ shares' \in [DOMAIN shares' -> Row]
             /\ DOMAIN shares \subseteq DOMAIN shares'
             /\ embeds' \in [Notes -> SUBSET Media]
  <2>1. jobs[h] \in UpdateJobs
    BY <1>6, JobKinds DEF UpdateGitNoteShare
  <2>2. jobs[h].row \in Row
    BY <2>1 DEF UpdateJobs
  <2> QED BY <1>6, <2>2 DEF TypeOK, UpdateGitNoteShare
<1>7. ASSUME NEW h \in Handlers,
             \/ ReceiveUpdateGitNoteShare(h) \/ Receive(h) \/ ActiveByToken(h)
             \/ MarkdownReferencesPath(h) \/ Fetch(h) \/ BundleFile(h) \/ Serve(h) \/ Fail(h)
      PROVE  UNCHANGED <<shares, embeds>>
  BY <1>7 DEF ReceiveUpdateGitNoteShare, Receive, ActiveByToken, MarkdownReferencesPath, Fetch,
              BundleFile, Serve, Fail
<1> QED BY <1>1, <1>2, <1>3, <1>4, <1>5, <1>6, <1>7 DEF SharesNext, TypeOK

(* Steps that leave the tables alone and set one job.                      *)
LEMMA StepOfOneTyped ==
  ASSUME TypeOK, FoundAreAllowed, NEW h \in Handlers,
         \/ ReceiveUpdateGitNoteShare(h) \/ Receive(h) \/ ActiveByToken(h)
         \/ MarkdownReferencesPath(h) \/ Fetch(h) \/ BundleFile(h) \/ Serve(h) \/ Fail(h)
  PROVE  TypeOK'
<1>1. CASE ReceiveUpdateGitNoteShare(h)
  <2>1. PICK id \in DOMAIN shares, patch \in Patches :
          jobs' = [jobs EXCEPT ![h] =
            [step |-> "write", id |-> id, was |-> shares[id], row |-> Patched(shares[id], patch),
             asked |-> DOMAIN patch]]
    BY <1>1 DEF ReceiveUpdateGitNoteShare
  <2>2. id \in ShareIds /\ shares[id] \in Row
    BY DEF TypeOK
  <2>3. [step |-> "write", id |-> id, was |-> shares[id], row |-> Patched(shares[id], patch),
         asked |-> DOMAIN patch] \in UpdateJobs
    BY <2>2, PatchedIsRow DEF UpdateJobs
  <2> QED BY <1>1, <2>1, <2>3, JobsTyped DEF Jobs, ReceiveUpdateGitNoteShare
<1>2. CASE Receive(h)
  <2>1. PICK ip \in Addresses, id \in ShareIds :
          IF \E key \in KeysOf(ip, id) : Full(key) THEN UNCHANGED jobs
          ELSE jobs' = [jobs EXCEPT ![h] = PublicJob(id)]
    BY <1>2 DEF Receive
  <2>2. PublicJob(id) \in PublicJobs /\ PublicJob(id).step = "lookup"
    BY DEF PublicJob, PublicJobs, Kinds, Steps, Usable, Active
  <2>3. UNCHANGED <<shares, embeds>>
    BY <1>2 DEF Receive
  <2>4. CASE UNCHANGED jobs
    BY <2>3, <2>4 DEF TypeOK, At, Reading
  <2> QED BY <2>1, <2>2, <2>3, <2>4, JobsTyped DEF Jobs
<1>3. CASE ActiveByToken(h)
  <2>1. UNCHANGED <<shares, embeds>> /\ At(h, "lookup")
    BY <1>3 DEF ActiveByToken
  <2>2. jobs[h] \in PublicJobs
    BY <2>1, JobKinds DEF Reading, At
  <2>3. CASE Answer(h)
    BY <2>1, <2>3, AnswerTyped
  <2>4. CASE ~Answer(h)
    <3>1. /\ Usable(jobs[h].id)
          /\ \E kind \in Kinds :
             \E file \in IF kind \in {"raw", "download"} THEN Files ELSE {None},
                from \in IF kind = "raw" THEN Notes \cup {None} ELSE {None} :
               /\ NextStep(kind, file, shares[jobs[h].id].prefix) # "idle"
               /\ jobs' = [jobs EXCEPT ![h] =
                 [@ EXCEPT !.step = NextStep(kind, file, shares[jobs[h].id].prefix),
                           !.kind = kind, !.file = file, !.from = from,
                           !.prefix = shares[jobs[h].id].prefix,
                           !.seen = Embedded(shares[jobs[h].id].prefix)]]
      BY <1>3, <2>4 DEF ActiveByToken, Found
    <3>2. PICK kind \in Kinds :
             \E file \in IF kind \in {"raw", "download"} THEN Files ELSE {None},
                from \in IF kind = "raw" THEN Notes \cup {None} ELSE {None} :
               /\ NextStep(kind, file, shares[jobs[h].id].prefix) # "idle"
               /\ jobs' = [jobs EXCEPT ![h] =
                 [@ EXCEPT !.step = NextStep(kind, file, shares[jobs[h].id].prefix),
                           !.kind = kind, !.file = file, !.from = from,
                           !.prefix = shares[jobs[h].id].prefix,
                           !.seen = Embedded(shares[jobs[h].id].prefix)]]
      BY <3>1
    <3>3. PICK file \in IF kind \in {"raw", "download"} THEN Files ELSE {None},
               from \in IF kind = "raw" THEN Notes \cup {None} ELSE {None} :
               /\ NextStep(kind, file, shares[jobs[h].id].prefix) # "idle"
               /\ jobs' = [jobs EXCEPT ![h] =
                 [@ EXCEPT !.step = NextStep(kind, file, shares[jobs[h].id].prefix),
                           !.kind = kind, !.file = file, !.from = from,
                           !.prefix = shares[jobs[h].id].prefix,
                           !.seen = Embedded(shares[jobs[h].id].prefix)]]
      BY <3>2
    <3> DEFINE prefix == shares[jobs[h].id].prefix
               job == [jobs[h] EXCEPT !.step = NextStep(kind, file, prefix),
                         !.kind = kind, !.file = file, !.from = from,
                         !.prefix = prefix, !.seen = Embedded(prefix)]
    <3>4. prefix \in Prefixes
      BY <3>1 DEF TypeOK, Row, Usable
    <3>5. Embedded(prefix) \subseteq Media
      BY <3>4 DEF TypeOK, Embedded
    <3>6. NextStep(kind, file, prefix) \in {"idle", "reference", "fetch", "serve"}
      BY DEF NextStep
    <3>7. jobs' = [jobs EXCEPT ![h] = job]
      BY <3>3
    <3>8. file \in Files \cup {None} /\ from \in Notes \cup {None}
      OBVIOUS
    <3>9. NextStep(kind, file, prefix) # "idle"
      BY <3>3
    <3>10. job \in PublicJobs
      BY <2>2, <3>4, <3>5, <3>6, <3>8, <3>9 DEF PublicJobs, Steps
    <3>11. job.prefix # None
      BY <2>2, <3>4, NoneAssumption DEF PublicJobs
    <3>12. job.step # "write"
      BY <3>10 DEF PublicJobs
    <3> HIDE DEF job
    <3> QED BY <2>1, <3>7, <3>10, <3>11, <3>12, JobsTyped DEF Jobs
  <2> QED BY <2>3, <2>4
<1>4. CASE MarkdownReferencesPath(h)
  <2>1. UNCHANGED <<shares, embeds>> /\ At(h, "reference")
    BY <1>4 DEF MarkdownReferencesPath
  <2>2. jobs[h] \in PublicJobs /\ jobs[h].prefix # None
    BY <2>1, JobKinds DEF Reading, At, TypeOK
  <2>3. [jobs[h] EXCEPT !.step = "fetch"] \in PublicJobs
    BY <2>2 DEF PublicJobs, Steps
  <2>4. CASE Answer(h)
    BY <2>1, <2>4, AnswerTyped
  <2>5. CASE jobs' = [jobs EXCEPT ![h] = [jobs[h] EXCEPT !.step = "fetch"]]
    <3>1. /\ [jobs[h] EXCEPT !.step = "fetch"].step = "fetch"
          /\ [jobs[h] EXCEPT !.step = "fetch"].prefix = jobs[h].prefix
      BY <2>2 DEF PublicJobs
    <3> QED BY <2>1, <2>2, <2>3, <2>5, <3>1, JobsTyped DEF Jobs
  <2> QED BY <1>4, <2>4, <2>5 DEF MarkdownReferencesPath
<1>5. CASE Fetch(h)
  <2>1. UNCHANGED <<shares, embeds>> /\ At(h, "fetch")
    BY <1>5 DEF Fetch
  <2>2. jobs[h] \in PublicJobs /\ jobs[h].prefix # None
    BY <2>1, JobKinds DEF Reading, At, TypeOK
  <2>3. InBounds(h) /\ jobs[h].prefix \in Prefixes
    BY <2>1, <2>2 DEF FoundAreAllowed, Reading, At, PublicJobs
  <2> DEFINE tree   == [jobs[h] EXCEPT !.step = "serve", !.files = Covers[jobs[h].prefix]]
             bundle == [jobs[h] EXCEPT !.step = "bundle", !.files = {jobs[h].file},
                          !.todo = embeds[jobs[h].file]]
             file   == [jobs[h] EXCEPT !.step = "serve", !.files = {jobs[h].file}]
  <2>4. /\ jobs[h].kind = "tree" => jobs' = [jobs EXCEPT ![h] = tree]
        /\ jobs[h].kind = "download" /\ jobs[h].file \in Notes =>
             jobs' = [jobs EXCEPT ![h] = bundle]
        /\ jobs[h].kind # "tree" /\ ~(jobs[h].kind = "download" /\ jobs[h].file \in Notes) =>
             jobs' = [jobs EXCEPT ![h] = file]
    BY <1>5 DEF Fetch
  <2>5. CASE jobs[h].kind = "tree"
    <3>1. tree \in PublicJobs /\ tree.prefix # None
      BY <2>2, <2>3, PrefixesAssumption DEF PublicJobs, Steps
    <3> QED BY <2>1, <2>4, <2>5, <3>1, JobsTyped DEF Jobs, PublicJobs
  <2>6. CASE jobs[h].kind = "download" /\ jobs[h].file \in Notes
    <3>1. embeds[jobs[h].file] \subseteq Media
      BY <2>6 DEF TypeOK
    <3>2. bundle \in PublicJobs /\ bundle.prefix # None
      BY <2>2, <2>6, <3>1 DEF PublicJobs, Steps, Files
    <3> QED BY <2>1, <2>4, <2>6, <3>2, JobsTyped DEF Jobs, PublicJobs
  <2>7. CASE jobs[h].kind # "tree" /\ ~(jobs[h].kind = "download" /\ jobs[h].file \in Notes)
    <3>1. jobs[h].file \in Files
      BY <2>1, <2>3, <2>7 DEF InBounds
    <3>2. file \in PublicJobs /\ file.prefix # None
      BY <2>2, <3>1 DEF PublicJobs, Steps
    <3> QED BY <2>1, <2>4, <2>7, <3>2, JobsTyped DEF Jobs, PublicJobs
  <2> QED BY <2>5, <2>6, <2>7
<1>6. CASE BundleFile(h)
  <2>1. UNCHANGED <<shares, embeds>> /\ At(h, "bundle")
    BY <1>6 DEF BundleFile
  <2>2. jobs[h] \in PublicJobs /\ jobs[h].prefix # None
    BY <2>1, JobKinds DEF Reading, At, TypeOK
  <2>3. CASE jobs' = [jobs EXCEPT ![h] = [jobs[h] EXCEPT !.step = "serve"]]
    <3>1. /\ [jobs[h] EXCEPT !.step = "serve"] \in PublicJobs
          /\ [jobs[h] EXCEPT !.step = "serve"].prefix # None
      BY <2>2 DEF PublicJobs, Steps
    <3> QED BY <2>1, <2>3, <3>1, JobsTyped DEF Jobs, PublicJobs
  <2>4. ASSUME NEW f \in jobs[h].todo, NEW found \in {{}, {f}},
               jobs' = [jobs EXCEPT ![h] =
                 [jobs[h] EXCEPT !.todo = @ \ {f}, !.files = @ \cup found]]
        PROVE  TypeOK'
    <3>1. f \in Files
      BY <2>2 DEF PublicJobs, Files
    <3>2. /\ [jobs[h] EXCEPT !.todo = @ \ {f}, !.files = @ \cup found] \in PublicJobs
          /\ [jobs[h] EXCEPT !.todo = @ \ {f}, !.files = @ \cup found].prefix # None
      BY <2>2, <3>1 DEF PublicJobs
    <3> QED BY <2>1, <2>4, <3>2, JobsTyped DEF Jobs, PublicJobs
  <2>5. \/ jobs' = [jobs EXCEPT ![h] = [jobs[h] EXCEPT !.step = "serve"]]
        \/ \E f \in jobs[h].todo : \E found \in {{}, {f}} :
             jobs' = [jobs EXCEPT ![h] =
               [jobs[h] EXCEPT !.todo = @ \ {f}, !.files = @ \cup found]]
    BY <1>6 DEF BundleFile
  <2> QED BY ONLY <2>3, <2>4, <2>5
<1>7. CASE Serve(h) \/ Fail(h)
  BY <1>7, AnswerTyped DEF Serve, Fail
<1> QED BY <1>1, <1>2, <1>3, <1>4, <1>5, <1>6, <1>7

(* What the rest of the steps do to a job: it is dropped, its history is   *)
(* brought up to date, or the instants it holds come nearer.               *)
Kept(g) ==
  \/ jobs'[g] = Idle
  \/ jobs'[g] = jobs[g] /\ jobs[g] \in Jobs
  \/ /\ Reading(g) /\ jobs[g] \in PublicJobs
     /\ \E dead \in {FALSE, jobs[g].dead}, ms \in SUBSET Media :
          jobs'[g] = [jobs[g] EXCEPT !.dead = dead, !.seen = @ \cup ms]
  \/ /\ At(g, "write") /\ jobs[g] \in UpdateJobs
     /\ jobs'[g] = [jobs[g] EXCEPT !.was = Aged(@), !.row = Aged(@)]

LEMMA OthersKeep ==
  ASSUME TypeOK,
         \/ CreateGitNoteShare \/ RevokeGitNoteShare \/ EditNote \/ Time \/ Restart
         \/ \E h \in Handlers : UpdateGitNoteShare(h),
         NEW g \in Handlers
  PROVE  Kept(g)
<1>1. DOMAIN jobs = Handlers /\ jobs[g] \in Jobs
  BY DEF TypeOK, Jobs
<1>2. ASSUME NEW id
      PROVE  /\ DOMAIN Revived(id) = Handlers
             /\ \/ Revived(id)[g] = jobs[g]
                \/ /\ Reading(g) /\ jobs[g] \in PublicJobs
                   /\ Revived(id)[g] = [jobs[g] EXCEPT !.dead = FALSE, !.seen = @ \cup {}]
  <2>1. [jobs[g] EXCEPT !.dead = FALSE, !.seen = @ \cup {}] = [jobs[g] EXCEPT !.dead = FALSE]
    <3>1. CASE Reading(g)
      BY <3>1, JobKinds DEF PublicJobs
    <3>2. CASE ~Reading(g)
      <4>1. CASE jobs[g] = Idle
        BY <4>1 DEF Idle
      <4>2. CASE jobs[g] \in UpdateJobs
        BY <4>2 DEF UpdateJobs
      <4>3. CASE jobs[g] \in PublicJobs
        BY <4>3 DEF PublicJobs
      <4> QED BY <1>1, <4>1, <4>2, <4>3 DEF Jobs
    <3> QED BY <3>1, <3>2
  <2> QED BY <2>1, JobKinds DEF Revived
<1>3. CASE CreateGitNoteShare
  <2>1. PICK id : jobs' = Revived(id) \/ jobs' = jobs
    BY <1>3 DEF CreateGitNoteShare
  <2> QED BY <1>1, <1>2, <2>1 DEF Kept
<1>4. CASE RevokeGitNoteShare
  BY <1>1, <1>4 DEF RevokeGitNoteShare, Kept
<1>5. CASE EditNote
  <2>1. PICK n \in Notes, ms \in SUBSET Media :
          jobs' = [h \in Handlers |->
            IF Reading(h) /\ jobs[h].prefix # None /\ n \in Covers[jobs[h].prefix]
            THEN [jobs[h] EXCEPT !.seen = @ \cup ms] ELSE jobs[h]]
    BY <1>5 DEF EditNote
  <2>2. CASE jobs'[g] = jobs[g]
    BY <1>1, <2>1, <2>2 DEF Kept
  <2>3. CASE Reading(g) /\ jobs'[g] = [jobs[g] EXCEPT !.seen = @ \cup ms]
    <3>1. jobs[g] \in PublicJobs
      BY <2>3, JobKinds
    <3>2. [jobs[g] EXCEPT !.seen = @ \cup ms]
            = [jobs[g] EXCEPT !.dead = jobs[g].dead, !.seen = @ \cup ms]
      BY <3>1 DEF PublicJobs
    <3> QED BY <2>1, <2>3, <3>1, <3>2 DEF Kept
  <2> QED BY <2>1, <2>2, <2>3
<1>6. CASE Time
  BY <1>1, <1>6, JobKinds DEF Time, Kept
<1>7. CASE Restart
  BY <1>7 DEF Restart, Kept
<1>8. ASSUME NEW h \in Handlers, UpdateGitNoteShare(h)
      PROVE  Kept(g)
  <2>1. PICK before \in {jobs, Revived(jobs[h].id)} : jobs' = [before EXCEPT ![h] = Idle]
    BY <1>8 DEF UpdateGitNoteShare
  <2> QED BY <1>1, <1>2, <2>1 DEF Kept
<1> QED BY <1>3, <1>4, <1>5, <1>6, <1>7, <1>8

LEMMA OthersDomain ==
  ASSUME TypeOK,
         \/ CreateGitNoteShare \/ RevokeGitNoteShare \/ EditNote \/ Time \/ Restart
         \/ \E h \in Handlers : UpdateGitNoteShare(h)
  PROVE  jobs' = [g \in Handlers |-> jobs'[g]]
<1>1. jobs = [g \in Handlers |-> jobs[g]]
  BY DEF TypeOK
<1>2. CASE CreateGitNoteShare
  <2>1. PICK id : jobs' = Revived(id) \/ jobs' = jobs
    BY <1>2 DEF CreateGitNoteShare
  <2> QED BY <1>1, <2>1 DEF Revived
<1>3. CASE RevokeGitNoteShare
  BY <1>1, <1>3 DEF RevokeGitNoteShare
<1>4. CASE EditNote
  BY <1>4 DEF EditNote
<1>5. CASE Time
  BY <1>5 DEF Time
<1>6. CASE Restart
  BY <1>6 DEF Restart
<1>7. ASSUME NEW h \in Handlers, UpdateGitNoteShare(h)
      PROVE  jobs' = [g \in Handlers |-> jobs'[g]]
  <2>1. PICK before \in {jobs, Revived(jobs[h].id)} : jobs' = [before EXCEPT ![h] = Idle]
    BY <1>7 DEF UpdateGitNoteShare
  <2> QED BY <1>1, <2>1 DEF Revived
<1> QED BY <1>2, <1>3, <1>4, <1>5, <1>6, <1>7

LEMMA KeptTyped ==
  ASSUME TypeOK, NEW g \in Handlers, Kept(g)
  PROVE  /\ jobs'[g] \in Jobs
         /\ jobs'[g] = Idle \/ (/\ jobs'[g].step = jobs[g].step
                                /\ jobs'[g].id = jobs[g].id)
         /\ Reading(g)' => /\ Reading(g) /\ jobs[g] \in PublicJobs
                           /\ jobs'[g].prefix = jobs[g].prefix
<1>1. CASE jobs'[g] = Idle
  BY <1>1 DEF Jobs, Reading, Idle
<1>2. CASE jobs'[g] = jobs[g] /\ jobs[g] \in Jobs
  BY <1>2, JobKinds DEF Reading
<1>3. CASE Reading(g) /\ jobs[g] \in PublicJobs
           /\ \E dead \in {FALSE, jobs[g].dead}, ms \in SUBSET Media :
                jobs'[g] = [jobs[g] EXCEPT !.dead = dead, !.seen = @ \cup ms]
  <2>1. PICK dead \in {FALSE, jobs[g].dead}, ms \in SUBSET Media :
                jobs'[g] = [jobs[g] EXCEPT !.dead = dead, !.seen = @ \cup ms]
    BY <1>3
  <2>2. jobs'[g] \in PublicJobs
    BY <1>3, <2>1 DEF PublicJobs
  <2> QED BY <1>3, <2>1, <2>2 DEF PublicJobs, Jobs
<1>4. CASE At(g, "write") /\ jobs[g] \in UpdateJobs
           /\ jobs'[g] = [jobs[g] EXCEPT !.was = Aged(@), !.row = Aged(@)]
  <2>1. Aged(jobs[g].was) \in Row /\ Aged(jobs[g].row) \in Row
    BY <1>4, AgedIsRow DEF UpdateJobs
  <2>2. jobs'[g] \in UpdateJobs /\ jobs'[g].step = "write" /\ jobs'[g].id = jobs[g].id
    BY <1>4, <2>1 DEF UpdateJobs
  <2> QED BY <1>4, <2>2 DEF Jobs, Reading, At
<1> QED BY <1>1, <1>2, <1>3, <1>4 DEF Kept

LEMMA KeptReading ==
  ASSUME NEW g \in Handlers, Kept(g), Reading(g), jobs'[g].step = jobs[g].step
  PROVE  \/ jobs'[g] = jobs[g]
         \/ \E dead \in {FALSE, jobs[g].dead}, ms \in SUBSET Media :
              jobs'[g] = [jobs[g] EXCEPT !.dead = dead, !.seen = @ \cup ms]
<1>1. jobs'[g] # Idle
  BY DEF Reading, Idle
<1>2. ~At(g, "write")
  BY DEF Reading, At
<1> QED BY <1>1, <1>2, Zenon DEF Kept

LEMMA StepTyped ==
  ASSUME TypeOK, FoundAreAllowed, [SharesNext]_shareVars
  PROVE  TypeOK'
<1>1. CASE UNCHANGED shareVars
  BY <1>1 DEF TypeOK, shareVars, At, Reading
<1>2. CASE SharesNext /\ (\/ CreateGitNoteShare \/ RevokeGitNoteShare \/ EditNote \/ Time
                          \/ Restart \/ \E h \in Handlers : UpdateGitNoteShare(h))
  <2>1. /\ DOMAIN shares' \subseteq ShareIds /\ shares' \in [DOMAIN shares' -> Row]
        /\ DOMAIN shares \subseteq DOMAIN shares'
        /\ embeds' \in [Notes -> SUBSET Media]
    BY <1>2, TablesTyped
  <2>2. \A g \in Handlers : Kept(g)
    BY <1>2, OthersKeep
  <2>3. ASSUME NEW g \in Handlers
        PROVE  /\ jobs'[g] \in Jobs
               /\ At(g, "write")' => jobs'[g].id \in DOMAIN shares'
               /\ Reading(g)' /\ ~At(g, "lookup")' => jobs'[g].prefix # None
    <3>1. /\ jobs'[g] \in Jobs
          /\ jobs'[g] = Idle \/ (/\ jobs'[g].step = jobs[g].step
                                 /\ jobs'[g].id = jobs[g].id)
          /\ Reading(g)' => Reading(g) /\ jobs'[g].prefix = jobs[g].prefix
      BY <2>2, KeptTyped
    <3>2. At(g, "write")' => jobs'[g].id \in DOMAIN shares'
      BY <2>1, <3>1 DEF TypeOK, At, Idle
    <3>3. Reading(g)' /\ ~At(g, "lookup")' => jobs'[g].prefix # None
      BY <3>1 DEF TypeOK, At, Idle, Reading
    <3> QED BY <3>1, <3>2, <3>3
  <2>4. jobs' \in [Handlers -> Jobs]
    <3>1. jobs' = [g \in Handlers |-> jobs'[g]]
      BY <1>2, OthersDomain
    <3> QED BY <2>3, <3>1
  <2> QED BY <2>1, <2>3, <2>4 DEF TypeOK, Jobs
<1>3. CASE SharesNext /\ \E h \in Handlers :
             \/ ReceiveUpdateGitNoteShare(h) \/ Receive(h) \/ ActiveByToken(h)
             \/ MarkdownReferencesPath(h) \/ Fetch(h) \/ BundleFile(h) \/ Serve(h) \/ Fail(h)
  BY <1>3, StepOfOneTyped
<1> QED BY <1>1, <1>2, <1>3 DEF SharesNext
-------------------------------------------------------------------------------
(* What requests hold.                                                     *)

LEMMA OneJob ==
  ASSUME TypeOK, NEW h \in Handlers,
         \/ ReceiveUpdateGitNoteShare(h) \/ Receive(h) \/ ActiveByToken(h)
         \/ MarkdownReferencesPath(h) \/ Fetch(h) \/ BundleFile(h) \/ Serve(h) \/ Fail(h)
  PROVE  /\ UNCHANGED <<shares, embeds>>
         /\ \A g \in Handlers \ {h} : jobs'[g] = jobs[g]
BY DEF TypeOK, ReceiveUpdateGitNoteShare, Receive, ActiveByToken, MarkdownReferencesPath, Fetch,
       BundleFile, Serve, Fail, Answer

(* A public request that takes a step ends, or has a share that was of use *)
(* and stays within its bounds.                                            *)
LEMMA PublicStep ==
  ASSUME TypeOK, DeadAreShut, FoundAreAllowed, NEW h \in Handlers,
         \/ ActiveByToken(h) \/ MarkdownReferencesPath(h) \/ Fetch(h) \/ BundleFile(h)
         \/ Serve(h) \/ Fail(h)
  PROVE  \/ jobs'[h] = Idle
         \/ /\ jobs'[h].step \in {"reference", "fetch", "bundle", "serve"}
            /\ ~jobs'[h].dead
            /\ InBounds(h)'
<1>0. UNCHANGED embeds /\ h \in DOMAIN jobs
  BY OneJob DEF TypeOK
<1>1. CASE Answer(h)
  BY <1>0, <1>1 DEF Answer
<1>2. CASE ActiveByToken(h) /\ ~Answer(h)
  <2>1. At(h, "lookup") /\ jobs[h] \in PublicJobs /\ jobs[h].files = {} /\ jobs[h].todo = {}
    BY <1>2, JobKinds DEF ActiveByToken, At, Reading, FoundAreAllowed
  <2>2. /\ Usable(jobs[h].id)
        /\ \E kind \in Kinds :
           \E file \in IF kind \in {"raw", "download"} THEN Files ELSE {None},
              from \in IF kind = "raw" THEN Notes \cup {None} ELSE {None} :
             /\ NextStep(kind, file, shares[jobs[h].id].prefix) # "idle"
             /\ jobs' = [jobs EXCEPT ![h] =
               [@ EXCEPT !.step = NextStep(kind, file, shares[jobs[h].id].prefix),
                         !.kind = kind, !.file = file, !.from = from,
                         !.prefix = shares[jobs[h].id].prefix,
                         !.seen = Embedded(shares[jobs[h].id].prefix)]]
    BY <1>2 DEF ActiveByToken, Found
  <2>3. PICK kind \in Kinds :
           \E file \in IF kind \in {"raw", "download"} THEN Files ELSE {None},
              from \in IF kind = "raw" THEN Notes \cup {None} ELSE {None} :
             /\ NextStep(kind, file, shares[jobs[h].id].prefix) # "idle"
             /\ jobs' = [jobs EXCEPT ![h] =
               [@ EXCEPT !.step = NextStep(kind, file, shares[jobs[h].id].prefix),
                         !.kind = kind, !.file = file, !.from = from,
                         !.prefix = shares[jobs[h].id].prefix,
                         !.seen = Embedded(shares[jobs[h].id].prefix)]]
    BY <2>2
  <2>4. PICK file \in IF kind \in {"raw", "download"} THEN Files ELSE {None},
             from \in IF kind = "raw" THEN Notes \cup {None} ELSE {None} :
             /\ NextStep(kind, file, shares[jobs[h].id].prefix) # "idle"
             /\ jobs' = [jobs EXCEPT ![h] =
               [@ EXCEPT !.step = NextStep(kind, file, shares[jobs[h].id].prefix),
                         !.kind = kind, !.file = file, !.from = from,
                         !.prefix = shares[jobs[h].id].prefix,
                         !.seen = Embedded(shares[jobs[h].id].prefix)]]
    BY <2>3
  <2> DEFINE prefix == shares[jobs[h].id].prefix
             step == NextStep(kind, file, prefix)
             job == [jobs[h] EXCEPT !.step = step, !.kind = kind, !.file = file, !.from = from,
                       !.prefix = prefix, !.seen = Embedded(prefix)]
  <2>5. jobs'[h] = job
    BY <1>0, <2>4
  <2>6. ~jobs[h].dead
    BY <2>1, <2>2 DEF DeadAreShut, Reading, At
  <2>7. /\ job.step = step /\ job.kind = kind /\ job.file = file /\ job.prefix = prefix
        /\ job.seen = Embedded(prefix) /\ job.files = {} /\ job.todo = {} /\ ~job.dead
    BY <2>1, <2>6 DEF PublicJobs
  <2>8. /\ step \in {"reference", "fetch", "serve"}
        /\ step = "fetch" /\ kind # "tree" => file \in Files /\ file \in Covers[prefix]
        /\ step = "reference" => kind = "raw" /\ file \in Files
    BY <2>4 DEF NextStep, Kinds, Files
  <2>9. Embedded(jobs[h].prefix)' = Embedded(prefix)
    BY <1>0, <2>5, <2>7 DEF Embedded
  <2> HIDE DEF job, step, prefix
  <2> QED BY <2>5, <2>7, <2>8, <2>9 DEF InBounds, Allowed, At
<1>3. CASE ~Answer(h) /\ (\/ MarkdownReferencesPath(h) \/ Fetch(h) \/ BundleFile(h))
  <2>1. Reading(h) /\ ~At(h, "lookup") /\ jobs[h] \in PublicJobs
    BY <1>3, JobKinds DEF MarkdownReferencesPath, Fetch, BundleFile, At, Reading
  <2>2. InBounds(h) /\ ~jobs[h].dead /\ jobs[h].prefix \in Prefixes
    BY <2>1 DEF FoundAreAllowed, DeadAreShut, TypeOK, PublicJobs
  <2>3. ASSUME NEW n \in Notes \cap Covers[jobs[h].prefix]
        PROVE  embeds[n] \subseteq Allowed(h)
    BY <2>2 DEF InBounds, Embedded, Allowed
  <2>4. ASSUME NEW job \in PublicJobs, jobs' = [jobs EXCEPT ![h] = job],
               job.prefix = jobs[h].prefix, job.seen = jobs[h].seen, job.dead = jobs[h].dead,
               job.step \in {"fetch", "bundle", "serve"},
               job.files \cup job.todo \subseteq Allowed(h),
               job.step = "fetch" /\ job.kind # "tree" =>
                 /\ job.file \in Files \cap Allowed(h)
                 /\ job.kind = "download" => job.file \in Covers[job.prefix]
        PROVE  jobs'[h].step \in {"reference", "fetch", "bundle", "serve"}
               /\ ~jobs'[h].dead /\ InBounds(h)'
    <3>1. jobs'[h] = job
      BY <1>0, <2>4
    <3>2. Embedded(jobs[h].prefix)' = Embedded(jobs[h].prefix)
      BY <1>0, <2>4, <3>1 DEF Embedded
    <3>3. Allowed(h)' = Allowed(h)
      BY <2>4, <3>1 DEF Allowed
    <3> QED BY <2>2, <2>4, <3>1, <3>2, <3>3 DEF InBounds, At
  <2>5. CASE MarkdownReferencesPath(h)
    <3>1. PICK from \in Notes \cap Covers[jobs[h].prefix] : jobs[h].file \in embeds[from]
      BY <1>3, <2>5 DEF MarkdownReferencesPath
    <3> DEFINE job == [jobs[h] EXCEPT !.step = "fetch"]
    <3>2. jobs' = [jobs EXCEPT ![h] = job]
      BY <1>3, <2>5 DEF MarkdownReferencesPath
    <3>3. job \in PublicJobs
      BY <2>1 DEF PublicJobs, Steps
    <3>4. /\ job.prefix = jobs[h].prefix /\ job.seen = jobs[h].seen /\ job.dead = jobs[h].dead
          /\ job.step = "fetch" /\ job.files = jobs[h].files /\ job.todo = jobs[h].todo
          /\ job.kind = jobs[h].kind /\ job.file = jobs[h].file
      BY <2>1 DEF PublicJobs
    <3>5. job.file \in Files \cap Allowed(h) /\ job.kind = "raw"
      BY <2>2, <2>3, <2>5, <3>1, <3>4 DEF InBounds, MarkdownReferencesPath
    <3>6. job.files \cup job.todo \subseteq Allowed(h)
      BY <2>2, <3>4 DEF InBounds
    <3> HIDE DEF job
    <3> QED BY <2>4, <3>2, <3>3, <3>4, <3>5, <3>6
  <2>6. CASE Fetch(h)
    <3>0. At(h, "fetch")
      BY <2>6 DEF Fetch
    <3>1. CASE jobs[h].kind = "tree"
      <4> DEFINE job == [jobs[h] EXCEPT !.step = "serve", !.files = Covers[jobs[h].prefix]]
      <4>1. jobs' = [jobs EXCEPT ![h] = job]
        BY <2>6, <3>1 DEF Fetch
      <4>2. job \in PublicJobs
        BY <2>1, <2>2, PrefixesAssumption DEF PublicJobs, Steps
      <4>3. /\ job.prefix = jobs[h].prefix /\ job.seen = jobs[h].seen /\ job.dead = jobs[h].dead
            /\ job.step = "serve" /\ job.files = Covers[jobs[h].prefix] /\ job.todo = jobs[h].todo
        BY <2>1 DEF PublicJobs
      <4>4. job.files \cup job.todo \subseteq Allowed(h)
        BY <2>2, <4>3 DEF InBounds, Allowed
      <4> HIDE DEF job
      <4> QED BY <2>4, <4>1, <4>2, <4>3, <4>4
    <3>2. CASE jobs[h].kind = "download" /\ jobs[h].file \in Notes
      <4> DEFINE job == [jobs[h] EXCEPT !.step = "bundle", !.files = {jobs[h].file},
                           !.todo = embeds[jobs[h].file]]
      <4>1. jobs' = [jobs EXCEPT ![h] = job]
        BY <2>6, <3>2 DEF Fetch
      <4>2. job \in PublicJobs
        BY <2>1, <3>2 DEF PublicJobs, Steps, TypeOK, Files
      <4>3. /\ job.prefix = jobs[h].prefix /\ job.seen = jobs[h].seen /\ job.dead = jobs[h].dead
            /\ job.step = "bundle" /\ job.files = {jobs[h].file}
            /\ job.todo = embeds[jobs[h].file]
        BY <2>1 DEF PublicJobs
      <4>4. jobs[h].file \in Notes \cap Covers[jobs[h].prefix]
        BY <2>2, <3>0, <3>2 DEF InBounds
      <4>5. job.files \cup job.todo \subseteq Allowed(h)
        BY <2>3, <4>3, <4>4 DEF Allowed
      <4> HIDE DEF job
      <4> QED BY <2>4, <4>1, <4>2, <4>3, <4>5
    <3>3. CASE jobs[h].kind # "tree" /\ ~(jobs[h].kind = "download" /\ jobs[h].file \in Notes)
      <4> DEFINE job == [jobs[h] EXCEPT !.step = "serve", !.files = {jobs[h].file}]
      <4>1. jobs' = [jobs EXCEPT ![h] = job]
        BY <2>6, <3>3 DEF Fetch
      <4>2. jobs[h].file \in Files \cap Allowed(h)
        BY <2>2, <3>0, <3>3 DEF InBounds
      <4>3. job \in PublicJobs
        BY <2>1, <4>2 DEF PublicJobs, Steps
      <4>4. /\ job.prefix = jobs[h].prefix /\ job.seen = jobs[h].seen /\ job.dead = jobs[h].dead
            /\ job.step = "serve" /\ job.files = {jobs[h].file} /\ job.todo = jobs[h].todo
        BY <2>1 DEF PublicJobs
      <4>5. job.files \cup job.todo \subseteq Allowed(h)
        BY <2>2, <4>2, <4>4 DEF InBounds
      <4> HIDE DEF job
      <4> QED BY <2>4, <4>1, <4>3, <4>4, <4>5
    <3> QED BY <3>1, <3>2, <3>3
  <2>7. CASE BundleFile(h)
    <3>1. CASE jobs' = [jobs EXCEPT ![h] = [jobs[h] EXCEPT !.step = "serve"]]
      <4> DEFINE job == [jobs[h] EXCEPT !.step = "serve"]
      <4>1. job \in PublicJobs
        BY <2>1 DEF PublicJobs, Steps
      <4>2. /\ job.prefix = jobs[h].prefix /\ job.seen = jobs[h].seen /\ job.dead = jobs[h].dead
            /\ job.step = "serve" /\ job.files = jobs[h].files /\ job.todo = jobs[h].todo
        BY <2>1 DEF PublicJobs
      <4>3. job.files \cup job.todo \subseteq Allowed(h)
        BY <2>2, <4>2 DEF InBounds
      <4>4. jobs' = [jobs EXCEPT ![h] = job]
        BY <3>1
      <4> HIDE DEF job
      <4> QED BY <2>4, <4>1, <4>2, <4>3, <4>4
    <3>2. ASSUME NEW f \in jobs[h].todo, NEW found \in {{}, {f}},
                 jobs' = [jobs EXCEPT ![h] =
                   [jobs[h] EXCEPT !.todo = @ \ {f}, !.files = @ \cup found]]
          PROVE  jobs'[h].step \in {"reference", "fetch", "bundle", "serve"}
                 /\ ~jobs'[h].dead /\ InBounds(h)'
      <4> DEFINE job == [jobs[h] EXCEPT !.todo = @ \ {f}, !.files = @ \cup found]
      <4>1. job \in PublicJobs
        <5>1. f \in Files
          BY <2>1 DEF PublicJobs, Files
        <5> QED BY <2>1, <5>1 DEF PublicJobs
      <4>2. /\ job.prefix = jobs[h].prefix /\ job.seen = jobs[h].seen /\ job.dead = jobs[h].dead
            /\ job.step = jobs[h].step /\ job.files = jobs[h].files \cup found
            /\ job.todo = jobs[h].todo \ {f}
        BY <2>1 DEF PublicJobs
      <4>3. job.files \cup job.todo \subseteq Allowed(h)
        BY <2>2, <4>2 DEF InBounds
      <4>4. jobs' = [jobs EXCEPT ![h] = job]
        BY <3>2
      <4>5. job.step = "bundle"
        BY <2>7, <4>2 DEF BundleFile, At
      <4> HIDE DEF job
      <4> QED BY <2>4, <4>1, <4>2, <4>3, <4>4, <4>5
    <3>3. \/ jobs' = [jobs EXCEPT ![h] = [jobs[h] EXCEPT !.step = "serve"]]
          \/ \E f \in jobs[h].todo : \E found \in {{}, {f}} :
               jobs' = [jobs EXCEPT ![h] =
                 [jobs[h] EXCEPT !.todo = @ \ {f}, !.files = @ \cup found]]
      BY <2>7 DEF BundleFile
    <3> QED BY ONLY <3>1, <3>2, <3>3
  <2> QED BY <1>3, <2>5, <2>6, <2>7
<1>4. CASE ~Answer(h) /\ (Serve(h) \/ Fail(h))
  BY <1>4 DEF Serve, Fail
<1> QED BY <1>1, <1>2, <1>3, <1>4

LEMMA AgedAgrees ==
  ASSUME NEW a \in Row, NEW b \in Row, NEW f \in {"prefix", "revoked", "left"}, a[f] = b[f]
  PROVE  Aged(a)[f] = Aged(b)[f]
BY DEF Aged, Row

LEMMA UpdatesStep ==
  ASSUME TypeOK, UpdatesAgree, DeadAreShut, FoundAreAllowed, [SharesNext]_shareVars
  PROVE  UpdatesAgree'
<1> SUFFICES ASSUME NEW g \in Handlers, At(g, "write")',
                    NEW f \in {"prefix", "revoked", "left"}, f \notin jobs'[g].asked
             PROVE  jobs'[g].row[f] = jobs'[g].was[f]
  BY DEF UpdatesAgree, At
<1>1. CASE jobs'[g] = jobs[g]
  BY <1>1 DEF UpdatesAgree, At
<1>2. CASE \/ CreateGitNoteShare \/ RevokeGitNoteShare \/ EditNote \/ Time \/ Restart
           \/ \E h \in Handlers : UpdateGitNoteShare(h)
  <2>1. Kept(g)
    BY <1>2, OthersKeep
  <2>2. jobs'[g] # Idle /\ At(g, "write")
    BY <2>1, KeptTyped DEF At, Idle
  <2>3. ~Reading(g)
    BY <2>2 DEF At, Reading
  <2>4. CASE jobs[g] \in UpdateJobs /\ jobs'[g] = [jobs[g] EXCEPT !.was = Aged(@), !.row = Aged(@)]
    <3>1. jobs[g].was \in Row /\ jobs[g].row \in Row
      BY <2>4 DEF UpdateJobs
    <3>2. /\ jobs'[g].was = Aged(jobs[g].was) /\ jobs'[g].row = Aged(jobs[g].row)
          /\ jobs'[g].asked = jobs[g].asked
      BY <2>4 DEF UpdateJobs
    <3>3. jobs[g].row[f] = jobs[g].was[f]
      BY <2>2, <3>2 DEF UpdatesAgree
    <3> QED BY <3>1, <3>2, <3>3, AgedAgrees
  <2> QED BY <1>1, <2>1, <2>2, <2>3, <2>4 DEF Kept
<1>3. ASSUME NEW h \in Handlers,
             \/ ReceiveUpdateGitNoteShare(h) \/ Receive(h) \/ ActiveByToken(h)
             \/ MarkdownReferencesPath(h) \/ Fetch(h) \/ BundleFile(h) \/ Serve(h) \/ Fail(h)
      PROVE  jobs'[g].row[f] = jobs'[g].was[f]
  <2>1. CASE g # h
    BY <1>1, <1>3, <2>1, OneJob
  <2>2. CASE g = h /\ ReceiveUpdateGitNoteShare(h)
    <3>1. PICK id \in DOMAIN shares, patch \in Patches :
            jobs' = [jobs EXCEPT ![h] =
              [step |-> "write", id |-> id, was |-> shares[id], row |-> Patched(shares[id], patch),
               asked |-> DOMAIN patch]]
      BY <2>2 DEF ReceiveUpdateGitNoteShare
    <3>2. shares[id] \in Row
      BY DEF TypeOK
    <3>3. /\ jobs'[g].row = Patched(shares[id], patch) /\ jobs'[g].was = shares[id]
          /\ jobs'[g].asked = DOMAIN patch
      BY <2>2, <3>1 DEF TypeOK
    <3> QED BY <3>2, <3>3, PatchedIsRow
  <2>3. CASE g = h /\ ~ReceiveUpdateGitNoteShare(h)
    <3>1. CASE Receive(h)
      BY <1>1, <2>3, <3>1 DEF Receive, PublicJob, At, TypeOK
    <3>2. CASE ~Receive(h)
      <4>1. CASE Fail(h)
        BY <2>3, <4>1 DEF Fail, Answer, Idle, At, TypeOK
      <4>2. CASE ~Fail(h)
        BY <1>3, <2>3, <3>2, <4>2, PublicStep DEF At, Idle
      <4> QED BY <4>1, <4>2
    <3> QED BY <3>1, <3>2
  <2> QED BY <2>1, <2>2, <2>3
<1>4. CASE UNCHANGED shareVars
  BY <1>1, <1>4 DEF shareVars
<1> QED BY <1>2, <1>3, <1>4 DEF SharesNext
LEMMA DeadStep ==
  ASSUME TypeOK, DeadAreShut, FoundAreAllowed, [SharesNext]_shareVars
  PROVE  DeadAreShut'
<1> SUFFICES ASSUME NEW g \in Handlers, Reading(g)', jobs'[g].dead
             PROVE  At(g, "lookup")' /\ ~Usable(jobs[g].id)'
  BY DEF DeadAreShut, Reading, At
<1>1. CASE jobs'[g] = jobs[g] /\ UNCHANGED shares
  BY <1>1 DEF DeadAreShut, Reading, At, Usable
<1>2. CASE \/ CreateGitNoteShare \/ RevokeGitNoteShare \/ EditNote \/ Time \/ Restart
           \/ \E h \in Handlers : UpdateGitNoteShare(h)
  <2>1. Kept(g)
    BY <1>2, OthersKeep
  <2>2. /\ Reading(g) /\ jobs[g] \in PublicJobs /\ jobs[g].id \in ShareIds
        /\ jobs'[g].step = jobs[g].step /\ jobs'[g].id = jobs[g].id
    BY <2>1, KeptTyped DEF Reading, Idle, PublicJobs
  <2>3. jobs[g].dead
    <3>1. CASE \E dead \in {FALSE, jobs[g].dead}, ms \in SUBSET Media :
                 jobs'[g] = [jobs[g] EXCEPT !.dead = dead, !.seen = @ \cup ms]
      BY <2>2, <3>1 DEF PublicJobs
    <3>2. CASE jobs'[g] = jobs[g]
      BY <3>2
    <3> QED BY <2>1, <2>2, <3>1, <3>2, KeptReading
  <2>4. At(g, "lookup") /\ ~Usable(jobs[g].id)
    BY <2>2, <2>3 DEF DeadAreShut
  <2>5. ~Usable(jobs[g].id)'
    <3>1. CASE CreateGitNoteShare
      <4>1. PICK id \in ShareIds \ DOMAIN shares, prefix \in Prefixes,
                 left \in Lifetimes \cup {Never} :
              /\ shares' = [i \in DOMAIN shares \cup {id} |->
                   IF i = id THEN [prefix |-> prefix, revoked |-> FALSE, left |-> left]
                   ELSE shares[i]]
              /\ jobs' = IF left # 0 THEN Revived(id) ELSE jobs
        BY <3>1 DEF CreateGitNoteShare
      <4>2. CASE jobs[g].id = id /\ left # 0
        <5>1. jobs'[g] = [jobs[g] EXCEPT !.dead = FALSE]
          BY <2>2, <4>1, <4>2 DEF Revived
        <5> QED BY <2>2, <5>1 DEF PublicJobs
      <4>3. CASE jobs[g].id = id /\ left = 0
        BY <2>2, <4>1, <4>3 DEF Usable, Active
      <4>4. CASE jobs[g].id # id
        BY <2>2, <2>4, <4>1, <4>4 DEF Usable
      <4> QED BY <4>2, <4>3, <4>4
    <3>2. CASE RevokeGitNoteShare
      <4>1. PICK id \in DOMAIN shares : shares' = [shares EXCEPT ![id].revoked = TRUE]
        BY <3>2 DEF RevokeGitNoteShare
      <4>2. shares[id] \in Row
        BY DEF TypeOK
      <4> QED BY <2>2, <2>4, <4>1, <4>2 DEF Usable, Active, TypeOK, Row
    <3>3. CASE Time
      <4>1. /\ DOMAIN shares' = DOMAIN shares
            /\ \A i \in DOMAIN shares : shares'[i] = Aged(shares[i])
        BY <3>3 DEF Time
      <4>2. \A i \in DOMAIN shares : Active(Aged(shares[i])) => Active(shares[i])
        BY AgedIsRow DEF TypeOK
      <4> QED BY <2>2, <2>4, <4>1, <4>2 DEF Usable
    <3>4. CASE EditNote
      BY <2>4, <2>2, <3>4 DEF EditNote, Usable
    <3>5. CASE Restart
      BY <2>4, <2>2, <3>5 DEF Restart, Usable
    <3>6. ASSUME NEW h \in Handlers, UpdateGitNoteShare(h)
          PROVE  ~Usable(jobs[g].id)'
      <4>1. /\ shares' = [shares EXCEPT ![jobs[h].id] = jobs[h].row]
            /\ jobs' = [(IF Active(jobs[h].row) THEN Revived(jobs[h].id) ELSE jobs)
                          EXCEPT ![h] = Idle]
            /\ At(h, "write") /\ jobs[h].id \in DOMAIN shares
        BY <3>6 DEF UpdateGitNoteShare, TypeOK
      <4>2. CASE jobs[g].id = jobs[h].id /\ Active(jobs[h].row)
        <5>1. g # h
          BY <2>2, <4>1 DEF Reading, At
        <5>2. jobs'[g] = [jobs[g] EXCEPT !.dead = FALSE]
          BY <2>2, <4>1, <4>2, <5>1 DEF Revived
        <5> QED BY <2>2, <5>2 DEF PublicJobs
      <4>3. CASE jobs[g].id = jobs[h].id /\ ~Active(jobs[h].row)
        BY <2>2, <4>1, <4>3 DEF Usable, TypeOK
      <4>4. CASE jobs[g].id # jobs[h].id
        BY <2>2, <2>4, <4>1, <4>4 DEF Usable, TypeOK
      <4> QED BY <4>2, <4>3, <4>4
    <3> QED BY <1>2, <3>1, <3>2, <3>3, <3>4, <3>5, <3>6
  <2> QED BY <2>2, <2>4, <2>5 DEF At
<1>3. ASSUME NEW h \in Handlers,
             \/ ReceiveUpdateGitNoteShare(h) \/ Receive(h) \/ ActiveByToken(h)
             \/ MarkdownReferencesPath(h) \/ Fetch(h) \/ BundleFile(h) \/ Serve(h) \/ Fail(h)
      PROVE  At(g, "lookup")' /\ ~Usable(jobs[g].id)'
  <2>1. UNCHANGED shares
    BY <1>3, OneJob
  <2>2. CASE g # h
    BY <1>1, <1>3, <2>1, <2>2, OneJob
  <2>3. CASE g = h /\ ReceiveUpdateGitNoteShare(h)
    BY <2>3 DEF ReceiveUpdateGitNoteShare, Reading, TypeOK
  <2>4. CASE g = h /\ Receive(h)
    <3>1. PICK ip \in Addresses, id \in ShareIds :
            IF \E key \in KeysOf(ip, id) : Full(key) THEN UNCHANGED jobs
            ELSE jobs' = [jobs EXCEPT ![h] = PublicJob(id)]
      BY <2>4 DEF Receive
    <3>2. CASE UNCHANGED jobs
      BY <1>1, <2>1, <3>2
    <3>3. CASE jobs' = [jobs EXCEPT ![h] = PublicJob(id)]
      BY <2>1, <2>4, <3>3 DEF PublicJob, At, Usable, TypeOK
    <3> QED BY <3>1, <3>2, <3>3
  <2>5. CASE g = h /\ ~ReceiveUpdateGitNoteShare(h) /\ ~Receive(h)
    BY <1>3, <2>5, PublicStep DEF Reading, Idle
  <2> QED BY <2>2, <2>3, <2>4, <2>5
<1>4. CASE UNCHANGED shareVars
  BY <1>1, <1>4 DEF shareVars
<1> QED BY <1>2, <1>3, <1>4 DEF SharesNext

(* What was in bounds stays there while more is seen.                      *)
LEMMA MoreIsSeen ==
  ASSUME NEW g \in Handlers, Reading(g), jobs[g] \in PublicJobs, InBounds(g),
         NEW dead, NEW ms \in SUBSET Media,
         jobs'[g] = [jobs[g] EXCEPT !.dead = dead, !.seen = @ \cup ms],
         Embedded(jobs[g].prefix)' \subseteq jobs[g].seen \cup ms
  PROVE  InBounds(g)'
<1>1. /\ jobs'[g].prefix = jobs[g].prefix /\ jobs'[g].seen = jobs[g].seen \cup ms
      /\ jobs'[g].files = jobs[g].files /\ jobs'[g].todo = jobs[g].todo
      /\ jobs'[g].file = jobs[g].file /\ jobs'[g].kind = jobs[g].kind
      /\ jobs'[g].step = jobs[g].step
  BY DEF PublicJobs
<1> QED BY <1>1 DEF InBounds, Allowed, At

LEMMA FoundStep ==
  ASSUME TypeOK, DeadAreShut, FoundAreAllowed, [SharesNext]_shareVars
  PROVE  FoundAreAllowed'
<1> SUFFICES ASSUME NEW g \in Handlers, Reading(g)'
             PROVE  /\ ~At(g, "lookup")' => InBounds(g)'
                    /\ At(g, "lookup")' => jobs'[g].files = {} /\ jobs'[g].todo = {}
  BY DEF FoundAreAllowed, Reading, At
<1>1. CASE jobs'[g] = jobs[g] /\ UNCHANGED embeds
  BY <1>1 DEF FoundAreAllowed, Reading, At, InBounds, Allowed, Embedded
<1>2. CASE \/ CreateGitNoteShare \/ RevokeGitNoteShare \/ EditNote \/ Time \/ Restart
           \/ \E h \in Handlers : UpdateGitNoteShare(h)
  <2>1. Kept(g)
    BY <1>2, OthersKeep
  <2>2. /\ Reading(g) /\ jobs[g] \in PublicJobs
        /\ jobs'[g].step = jobs[g].step
    BY <2>1, KeptTyped DEF Reading, Idle
  <2>3. \E dead \in BOOLEAN, ms \in SUBSET Media :
          /\ jobs'[g] = [jobs[g] EXCEPT !.dead = dead, !.seen = @ \cup ms]
          /\ ~At(g, "lookup") => Embedded(jobs[g].prefix)' \subseteq jobs[g].seen \cup ms
    <3>1. CASE EditNote
      <4>1. PICK n \in Notes, ms \in SUBSET Media :
              /\ embeds' = [embeds EXCEPT ![n] = ms]
              /\ jobs' = [h \in Handlers |->
                   IF Reading(h) /\ jobs[h].prefix # None /\ n \in Covers[jobs[h].prefix]
                   THEN [jobs[h] EXCEPT !.seen = @ \cup ms] ELSE jobs[h]]
        BY <3>1 DEF EditNote
      <4> DEFINE more == IF jobs[g].prefix # None /\ n \in Covers[jobs[g].prefix]
                         THEN ms ELSE {}
      <4>2. jobs'[g] = [jobs[g] EXCEPT !.dead = jobs[g].dead, !.seen = @ \cup more]
        BY <2>2, <4>1 DEF PublicJobs
      <4>3. ASSUME ~At(g, "lookup")
            PROVE  Embedded(jobs[g].prefix)' \subseteq jobs[g].seen \cup more
        <5>1. jobs[g].prefix # None /\ Embedded(jobs[g].prefix) \subseteq jobs[g].seen
          BY <2>2, <4>3 DEF TypeOK, FoundAreAllowed, InBounds
        <5>2. jobs'[g].prefix = jobs[g].prefix
          BY <2>2, <4>2 DEF PublicJobs
        <5>3. ASSUME NEW m \in Notes \cap Covers[jobs[g].prefix]
              PROVE  embeds'[m] \subseteq jobs[g].seen \cup more
          <6>1. CASE m = n
            BY <4>1, <5>1, <5>3, <6>1 DEF TypeOK
          <6>2. CASE m # n
            BY <4>1, <5>1, <5>3, <6>2 DEF TypeOK, Embedded
          <6> QED BY <6>1, <6>2
        <5> HIDE DEF more
        <5> QED BY <5>2, <5>3 DEF Embedded
      <4>4. jobs[g].dead \in BOOLEAN /\ more \subseteq Media
        BY <2>2 DEF PublicJobs
      <4> HIDE DEF more
      <4> QED BY <4>2, <4>3, <4>4
    <3>2. CASE ~EditNote
      <4>1. UNCHANGED embeds
        BY <1>2, <3>2 DEF CreateGitNoteShare, RevokeGitNoteShare, Time, Restart,
                          UpdateGitNoteShare
      <4>2. PICK dead \in BOOLEAN, ms \in SUBSET Media :
              jobs'[g] = [jobs[g] EXCEPT !.dead = dead, !.seen = @ \cup ms]
        <5>1. CASE jobs'[g] = jobs[g]
          <6>1. jobs'[g] = [jobs[g] EXCEPT !.dead = jobs[g].dead, !.seen = @ \cup {}]
            BY <2>2, <5>1 DEF PublicJobs
          <6> QED BY <2>2, <6>1 DEF PublicJobs
        <5>2. CASE \E dead \in {FALSE, jobs[g].dead}, ms \in SUBSET Media :
                     jobs'[g] = [jobs[g] EXCEPT !.dead = dead, !.seen = @ \cup ms]
          BY <2>2, <5>2 DEF PublicJobs
        <5> QED BY <2>1, <2>2, <5>1, <5>2, KeptReading
      <4>3. jobs'[g].prefix = jobs[g].prefix
        BY <2>2, <4>2 DEF PublicJobs
      <4>4. ~At(g, "lookup") => Embedded(jobs[g].prefix)' \subseteq jobs[g].seen \cup ms
        BY <2>2, <4>1, <4>3 DEF FoundAreAllowed, InBounds, Embedded
      <4> QED BY <4>2, <4>4
    <3> QED BY <3>1, <3>2
  <2>4. PICK dead \in BOOLEAN, ms \in SUBSET Media :
          /\ jobs'[g] = [jobs[g] EXCEPT !.dead = dead, !.seen = @ \cup ms]
          /\ ~At(g, "lookup") => Embedded(jobs[g].prefix)' \subseteq jobs[g].seen \cup ms
    BY <2>3
  <2>5. CASE At(g, "lookup")
    BY <2>2, <2>4, <2>5 DEF FoundAreAllowed, At, PublicJobs
  <2>6. CASE ~At(g, "lookup")
    <3>1. InBounds(g)
      BY <2>2, <2>6 DEF FoundAreAllowed
    <3>2. InBounds(g)'
      BY <2>2, <2>4, <2>6, <3>1, MoreIsSeen
    <3> QED BY <2>2, <2>6, <3>2 DEF At
  <2> QED BY <2>5, <2>6
<1>3. ASSUME NEW h \in Handlers,
             \/ ReceiveUpdateGitNoteShare(h) \/ Receive(h) \/ ActiveByToken(h)
             \/ MarkdownReferencesPath(h) \/ Fetch(h) \/ BundleFile(h) \/ Serve(h) \/ Fail(h)
      PROVE  /\ ~At(g, "lookup")' => InBounds(g)'
             /\ At(g, "lookup")' => jobs'[g].files = {} /\ jobs'[g].todo = {}
  <2>1. UNCHANGED <<shares, embeds>>
    BY <1>3, OneJob
  <2>2. CASE g # h
    BY <1>1, <1>3, <2>1, <2>2, OneJob
  <2>3. CASE g = h /\ ReceiveUpdateGitNoteShare(h)
    BY <2>3 DEF ReceiveUpdateGitNoteShare, Reading, TypeOK
  <2>4. CASE g = h /\ Receive(h)
    <3>1. PICK ip \in Addresses, id \in ShareIds :
            IF \E key \in KeysOf(ip, id) : Full(key) THEN UNCHANGED jobs
            ELSE jobs' = [jobs EXCEPT ![h] = PublicJob(id)]
      BY <2>4 DEF Receive
    <3>2. CASE UNCHANGED jobs
      BY <1>1, <2>1, <3>2
    <3>3. CASE jobs' = [jobs EXCEPT ![h] = PublicJob(id)]
      BY <2>4, <3>3 DEF PublicJob, At, TypeOK
    <3> QED BY <3>1, <3>2, <3>3
  <2>5. CASE g = h /\ ~ReceiveUpdateGitNoteShare(h) /\ ~Receive(h)
    BY <1>3, <2>5, PublicStep DEF Reading, Idle, At
  <2> QED BY <2>2, <2>3, <2>4, <2>5
<1>4. CASE UNCHANGED shareVars
  BY <1>1, <1>4 DEF shareVars
<1> QED BY <1>2, <1>3, <1>4 DEF SharesNext
-------------------------------------------------------------------------------
LEMMA InitInvariant ==
  ASSUME SharesInit
  PROVE  IInv
<1>1. \A h \in Handlers : jobs[h] = Idle
  BY DEF SharesInit
<1>2. DOMAIN shares = {} /\ shares \in [{} -> Row]
  <2>1. DOMAIN <<>> = {} /\ <<>> \in [{} -> Row]
    OBVIOUS
  <2> QED BY <2>1 DEF SharesInit
<1>3. embeds \in [Notes -> SUBSET Media] /\ jobs \in [Handlers -> {Idle}]
  BY DEF SharesInit
<1>4. TypeOK
  BY <1>1, <1>2, <1>3 DEF TypeOK, At, Reading, Idle
<1> QED BY <1>1, <1>4 DEF IInv, UpdatesAgree, DeadAreShut, FoundAreAllowed, At, Reading, Idle

LEMMA Invariance == SharesSpec => []IInv
<1>1. ASSUME IInv, [SharesNext]_shareVars
      PROVE  IInv'
  BY <1>1, StepTyped, UpdatesStep, DeadStep, FoundStep DEF IInv
<1> QED BY <1>1, InitInvariant, PTL DEF SharesSpec

(* Whatever requests and updates overlap, the tables keep their columns, a *)
(* request has its share from the lookup on (share.go, ActiveByToken) and  *)
(* an update names a row that exists (UpdateGitNoteShare).                 *)
THEOREM TypeCorrect == SharesSpec => []TypeOK
<1>1. IInv => TypeOK
  BY DEF IInv
<1> QED BY <1>1, Invariance, PTL

(* A share that has been of no use since a request arrived gives it        *)
(* nothing: ActiveByToken is the one place where that is decided.          *)
THEOREM LateGetNothing == SharesSpec => []NothingForTheLate
<1>1. IInv => NothingForTheLate
  BY DEF IInv, DeadAreShut, NothingForTheLate
<1> QED BY <1>1, Invariance, PTL

(* What publicPathAllowed and writeMarkdownBundle let out is under the     *)
(* prefix or was embedded by a note there while the request was under way. *)
THEOREM OnlySharedServed == SharesSpec => []ServedIsShared
<1>1. ASSUME IInv, NEW h \in Handlers, At(h, "serve")
      PROVE  jobs[h].files \subseteq Covers[jobs[h].prefix] \cup jobs[h].seen
  BY <1>1 DEF IInv, FoundAreAllowed, InBounds, Allowed, Reading, At
<1>2. IInv => ServedIsShared
  BY <1>1 DEF ServedIsShared
<1> QED BY <1>2, Invariance, PTL

(* UpdateGitNoteShare changes a column that it was not asked to only when  *)
(* its read is stale; nothing else lifts a revocation.                     *)
THEOREM ReopenedAsRead == SharesSpec => ReopenedOnRequestOrStaleRead
<1>1. ASSUME IInv, [SharesNext]_shareVars, NEW id \in DOMAIN shares,
             NEW f \in {"prefix", "revoked", "left"}
      PROVE  \/ shares'[id][f] = shares[id][f]
             \/ f = "revoked" /\ shares'[id][f]
             \/ f = "left" /\ shares'[id].left = Aged(shares[id]).left
             \/ \E h \in Handlers :
                  /\ At(h, "write") /\ jobs[h].id = id /\ ~At(h, "write")'
                  /\ f \in jobs[h].asked \/ jobs[h].was[f] # shares[id][f]
  <2>1. CASE UNCHANGED shares
    BY <2>1
  <2>2. CASE CreateGitNoteShare
    BY <2>2 DEF CreateGitNoteShare
  <2>3. CASE RevokeGitNoteShare
    <3>1. PICK i \in DOMAIN shares : shares' = [shares EXCEPT ![i].revoked = TRUE]
      BY <2>3 DEF RevokeGitNoteShare
    <3>2. shares[id] \in Row
      BY <1>1 DEF IInv, TypeOK
    <3> QED BY <1>1, <3>1, <3>2 DEF IInv, TypeOK, Row
  <2>4. CASE Time
    <3>1. shares'[id] = Aged(shares[id]) /\ shares[id] \in Row
      BY <1>1, <2>4 DEF Time, IInv, TypeOK
    <3> QED BY <3>1, AgedIsRow
  <2>5. ASSUME NEW h \in Handlers, UpdateGitNoteShare(h)
        PROVE  \/ shares'[id][f] = shares[id][f]
               \/ /\ At(h, "write") /\ jobs[h].id = id /\ ~At(h, "write")'
                  /\ f \in jobs[h].asked \/ jobs[h].was[f] # shares[id][f]
    <3>1. /\ shares' = [shares EXCEPT ![jobs[h].id] = jobs[h].row]
          /\ At(h, "write") /\ jobs[h].id \in DOMAIN shares
      BY <1>1, <2>5 DEF UpdateGitNoteShare, IInv, TypeOK
    <3>2. jobs'[h] = Idle
      BY <1>1, <2>5 DEF UpdateGitNoteShare, IInv, TypeOK, Revived
    <3>3. ~At(h, "write")'
      BY <3>2 DEF At, Idle
    <3>4. f \notin jobs[h].asked => jobs[h].row[f] = jobs[h].was[f]
      BY <1>1, <3>1 DEF IInv, UpdatesAgree
    <3>5. CASE jobs[h].id = id
      <4>1. shares'[id] = jobs[h].row
        BY <1>1, <3>1, <3>5 DEF IInv, TypeOK
      <4> QED BY <3>1, <3>3, <3>4, <3>5, <4>1
    <3>6. CASE jobs[h].id # id
      BY <1>1, <3>1, <3>6 DEF IInv, TypeOK
    <3> QED BY <3>5, <3>6
  <2>6. \/ UNCHANGED shares \/ CreateGitNoteShare \/ RevokeGitNoteShare \/ Time
        \/ \E h \in Handlers : UpdateGitNoteShare(h)
    BY <1>1, OneJob DEF IInv, SharesNext, shareVars, EditNote, Restart
  <2> QED BY <2>1, <2>2, <2>3, <2>4, <2>5, <2>6
<1>2. ASSUME IInv, [SharesNext]_shareVars
      PROVE  \A id \in DOMAIN shares :
               \A f \in {"prefix", "revoked", "left"} :
                 \/ shares'[id][f] = shares[id][f]
                 \/ f = "revoked" /\ shares'[id][f]
                 \/ f = "left" /\ shares'[id].left = Aged(shares[id]).left
                 \/ \E h \in Handlers :
                      /\ At(h, "write") /\ jobs[h].id = id /\ ~At(h, "write")'
                      /\ f \in jobs[h].asked \/ jobs[h].was[f] # shares[id][f]
  BY <1>1, <1>2
<1> QED BY <1>2, Invariance, PTL DEF SharesSpec, ReopenedOnRequestOrStaleRead

-------------------------------------------------------------------------------
(* The limiter under the requests: only the ones that come to it, time and *)
(* restarts move it.                                                       *)
LEMMA SharesKeepLimiter == LimiterInv /\ [SharesNext]_shareVars => LimiterInv'
<1> SUFFICES ASSUME LimiterInv, [SharesNext]_shareVars PROVE LimiterInv'
  OBVIOUS
<1>1. CASE UNCHANGED <<entries, recent>>
  BY <1>1 DEF LimiterInv, LimiterTypeOK, Accounted, Live, Opened
<1>2. CASE \E keys \in SUBSET Keys : Allow(keys)
  BY <1>2, AllowKeeps
<1>3. CASE Tick
  BY <1>3, TickKeeps
<1>4. CASE Restart
  <2>1. Init'
    BY <1>4 DEF Restart, Init
  <2> QED
    BY <2>1, LimiterRestart
<1>5. ASSUME NEW h \in Handlers, Receive(h)
      PROVE  \E keys \in SUBSET Keys : Allow(keys)
  BY <1>5, KeysAssumption DEF Receive
<1> QED
  BY <1>1, <1>2, <1>3, <1>4, <1>5
     DEF SharesNext, shareVars, CreateGitNoteShare, RevokeGitNoteShare, EditNote, Time,
         ReceiveUpdateGitNoteShare, UpdateGitNoteShare, ActiveByToken,
         MarkdownReferencesPath, Fetch, BundleFile, Serve, Fail

LEMMA LimiterHolds == SharesSpec => []LimiterInv
<1>1. SharesInit => LimiterInv
  BY LimiterInit DEF SharesInit
<1> QED
  BY <1>1, SharesKeepLimiter, PTL DEF SharesSpec

(* security.RequestLimiter.Allow in front of the public shares: however    *)
(* its requests fall, no period of the length of a window admits more of   *)
(* a key than two windows less one.                                        *)
THEOREM BurstsBounded == SharesSpec => []BurstsAreBounded
<1>1. LimiterInv => BurstsAreBounded
  BY LimiterKept
<1> QED
  BY <1>1, LimiterHolds, PTL

(* A key is full only after as many requests of its own as a window holds. *)
THEOREM FullKeysEarnedIt == SharesSpec => []FullKeysWereUsed
<1>1. LimiterInv => FullKeysWereUsed
  BY LimiterKept
<1> QED
  BY <1>1, LimiterHolds, PTL
===============================================================================
