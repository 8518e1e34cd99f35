----------------------------- MODULE StoreProofs -----------------------------
(***************************************************************************)
(* Proofs about RetryDelay, EventTable and LeaseClock: for every width of  *)
(* a duration, policy and number of attempts; for every number of clients  *)
(* and every bound on the rows and the clock; for every length of a lease, *)
(* every division of a second and any number of workers.                   *)
(***************************************************************************)
EXTENDS CodecProofs, EventTable, LeaseClock, FiniteSetTheorems

(***************************************************************************)
(* Backoff                                                                 *)
(***************************************************************************)

LEMMA PowerExists == \E p : p = [n \in Nat |-> IF n = 0 THEN 1 ELSE 2 * p[n - 1]]
<1> DEFINE Good(f, n) == f[0] = 1 /\ \A i \in 1..n : f[i] = 2 * f[i - 1]
           first(n) == CHOOSE f : Good(f, n)
           p == [n \in Nat |-> first(n)[n]]
<1>1. ASSUME NEW n \in Nat PROVE \E f : Good(f, n)
  <2> DEFINE T == {k \in 0..n : \E f : Good(f, k)}
  <2>1. 0 \in T
    <3> DEFINE f == [i \in {0} |-> 1]
    <3>1. Good(f, 0)
      OBVIOUS
    <3>2. \E g : Good(g, 0)
      <4> HIDE DEF f, Good
      <4> QED
        BY <3>1
    <3> HIDE DEF Good
    <3> QED
      BY <3>2
  <2>2. ASSUME NEW k \in 1..n, k - 1 \in T PROVE k \in T
    <3>1. PICK f : Good(f, k - 1)
      BY <2>2
    <3> DEFINE g == [i \in 0..k |-> IF i = k THEN 2 * f[k - 1] ELSE f[i]]
    <3>2. g[0] = 1
      BY <3>1
    <3>3. ASSUME NEW i \in 1..k PROVE g[i] = 2 * g[i - 1]
      <4>1. g[i - 1] = f[i - 1]
        OBVIOUS
      <4>2. i = k \/ i \in 1..(k - 1)
        OBVIOUS
      <4> QED
        BY <3>1, <4>1, <4>2
    <3> HIDE DEF g
    <3>4. \E h : Good(h, k)
      BY <3>2, <3>3
    <3> HIDE DEF Good
    <3> QED
      BY <3>4
  <2>3. n \in 0..n
    OBVIOUS
  <2>4. n \in T
    <3> HIDE DEF T
    <3> QED
      BY <2>1, <2>2, <2>3, UpTo
  <2> HIDE DEF Good
  <2> QED
    BY <2>4, Zenon
<1>2. ASSUME NEW n \in Nat PROVE Good(first(n), n)
  <2> HIDE DEF Good
  <2> QED
    BY <1>1, Zenon
<1> HIDE DEF first
<1>3. ASSUME NEW n \in Nat, n # 0 PROVE p[n] = 2 * p[n - 1]
  <2> DEFINE f == first(n)
             h == first(n - 1)
             m == n - 1
  <2>1. Good(f, n) /\ Good(h, m) /\ m \in Nat /\ n \in 1..n
    BY <1>2, <1>3
  <2>2. \A i \in 1..m : i \in 1..n
    BY <1>3
  <2> HIDE DEF f, h, m
  <2>3. \A i \in 1..m : f[i - 1] = h[i - 1] => f[i] = h[i]
    BY <2>1, <2>2
  <2>4. f[m] = h[m]
    <3>1. f[0] = h[0] /\ m \in 0..m
      BY <2>1
    <3> QED
      BY <2>1, <2>3, <3>1, ChainUnique
  <2>5. f[n] = 2 * f[m]
    BY <2>1 DEF m
  <2>6. p[n] = f[n] /\ p[n - 1] = h[m]
    BY <2>1 DEF f, h, m
  <2> QED
    BY <2>4, <2>5, <2>6
<1>4. p[0] = 1
  BY <1>2
<1>5. p = [n \in Nat |-> IF n = 0 THEN 1 ELSE 2 * p[n - 1]]
  <2>1. \A n \in Nat : p[n] = IF n = 0 THEN 1 ELSE 2 * p[n - 1]
    BY <1>3, <1>4
  <2>2. p = [n \in Nat |-> p[n]]
    OBVIOUS
  <2> HIDE DEF p
  <2> QED
    BY <2>1, <2>2
<1> HIDE DEF p
<1> QED
  BY <1>5

LEMMA PowerDoubles ==
    /\ Power[0] = 1
    /\ \A n \in Nat : Power[n] \in Nat /\ Power[n + 1] = 2 * Power[n]
<1>1. Power = [n \in Nat |-> IF n = 0 THEN 1 ELSE 2 * Power[n - 1]]
  BY PowerExists, Zenon DEF Power
<1>2. Power[0] = 1 /\ \A n \in Nat : n # 0 => Power[n] = 2 * Power[n - 1]
  BY <1>1
<1>3. ASSUME NEW n \in Nat PROVE Power[n] \in Nat
  <2> DEFINE T == {k \in 0..n : Power[k] \in Nat}
  <2>1. 0 \in T
    BY <1>2
  <2>2. ASSUME NEW k \in 1..n, k - 1 \in T PROVE k \in T
    BY <1>2, <2>2
  <2>3. n \in 0..n
    OBVIOUS
  <2>4. n \in T
    <3> HIDE DEF T
    <3> QED
      BY <2>1, <2>2, <2>3, UpTo
  <2> QED
    BY <2>4
<1>4. ASSUME NEW n \in Nat PROVE Power[n + 1] = 2 * Power[n]
  <2>1. n + 1 \in Nat /\ n + 1 # 0 /\ (n + 1) - 1 = n
    OBVIOUS
  <2> QED
    BY <1>2, <2>1
<1> QED
  BY <1>2, <1>3, <1>4

\* base * 2^n, which no limit cuts.
Product(base, n) == base * Power[n]

LEMMA ProductDoubles ==
    ASSUME NEW base \in Nat
    PROVE  /\ Product(base, 0) = base
           /\ \A n \in Nat : /\ Product(base, n) \in Nat
                             /\ Product(base, n + 1) = 2 * Product(base, n)
<1>1. ASSUME NEW n \in Nat
      PROVE  Product(base, n) \in Nat /\ Product(base, n + 1) = 2 * Product(base, n)
  <2>1. Power[n] \in Nat /\ Power[n + 1] = 2 * Power[n]
    BY PowerDoubles
  <2>2. \A x, y \in Nat : x * y \in Nat /\ x * (2 * y) = 2 * (x * y)
    OBVIOUS
  <2> QED
    BY <2>1, <2>2 DEF Product
<1>2. Product(base, 0) = base
  BY PowerDoubles DEF Product
<1> QED
  BY <1>1, <1>2

LEMMA ProductGrows ==
    ASSUME NEW base \in Nat, NEW k \in Nat, NEW n \in 0..k
    PROVE  Product(base, n) <= Product(base, k)
<1> DEFINE T == {i \in 0..(k - n) : Product(base, n) <= Product(base, n + i)}
<1>1. k - n \in Nat
  OBVIOUS
<1>2. 0 \in T
  BY ProductDoubles
<1>3. ASSUME NEW i \in 1..(k - n), i - 1 \in T PROVE i \in T
  <2> DEFINE j == n + (i - 1)
  <2>1. j \in Nat /\ n \in Nat /\ j + 1 = n + i
    OBVIOUS
  <2>2. Product(base, n) <= Product(base, j)
    BY <1>3
  <2>3. /\ Product(base, n) \in Nat /\ Product(base, j) \in Nat
        /\ Product(base, j + 1) = 2 * Product(base, j)
    BY <2>1, ProductDoubles
  <2> HIDE DEF j
  <2>4. Product(base, n) <= Product(base, n + i)
    BY <2>1, <2>2, <2>3
  <2>5. i \in 0..(k - n)
    BY <1>1
  <2> QED
    BY <2>4, <2>5
<1>4. k - n \in T
  <2>1. k - n \in 0..(k - n)
    BY <1>1
  <2> HIDE DEF T
  <2> QED
    BY <1>1, <1>2, <1>3, <2>1, UpTo
<1>5. n + (k - n) = k
  OBVIOUS
<1> QED
  BY <1>4, <1>5

\* A saturated double is the double, saturated.
LEMMA Saturates ==
    ASSUME NEW x \in Nat
    PROVE  SaturatingDouble(Lesser(x, DurationMax)) = Lesser(2 * x, DurationMax)
  BY DelayAssumption DEF SaturatingDouble, Lesser

LEMMA DoubledIsProduct ==
    ASSUME NEW base \in 0..DurationMax
    PROVE  \A n \in Nat : Doubled(base)[n] = Lesser(Product(base, n), DurationMax)
<1>0. base \in Nat
  BY DelayAssumption
<1> DEFINE w == [n \in Nat |-> Lesser(Product(base, n), DurationMax)]
<1>1. w = [n \in Nat |-> IF n = 0 THEN base ELSE SaturatingDouble(w[n - 1])]
  <2>1. w[0] = base
    BY <1>0, ProductDoubles, DelayAssumption DEF Lesser
  <2>2. ASSUME NEW n \in Nat, n # 0 PROVE w[n] = SaturatingDouble(w[n - 1])
    <3> DEFINE m == n - 1
    <3>1. m \in Nat /\ m + 1 = n
      BY <2>2
    <3>2. Product(base, m) \in Nat /\ Product(base, n) = 2 * Product(base, m)
      BY <1>0, <3>1, ProductDoubles
    <3>3. w[m] = Lesser(Product(base, m), DurationMax)
      BY <3>1
    <3> HIDE DEF m
    <3> QED
      BY <3>2, <3>3, Saturates DEF m
  <2>3. \A n \in Nat : w[n] = IF n = 0 THEN base ELSE SaturatingDouble(w[n - 1])
    BY <2>1, <2>2
  <2>4. w = [n \in Nat |-> w[n]]
    OBVIOUS
  <2> HIDE DEF w
  <2> QED
    BY <2>3, <2>4
<1>2. PICK d : /\ d = [n \in Nat |-> IF n = 0 THEN base ELSE SaturatingDouble(d[n - 1])]
               /\ Doubled(base) = d
  <2> HIDE DEF w
  <2> QED
    BY <1>1, Zenon DEF Doubled
<1>3. \A n \in Nat : d[n] = IF n = 0 THEN base ELSE SaturatingDouble(d[n - 1])
  BY <1>2
<1>4. \A n \in Nat : w[n] = IF n = 0 THEN base ELSE SaturatingDouble(w[n - 1])
  <2> HIDE DEF w
  <2> QED
    BY <1>1
<1>5. ASSUME NEW n \in Nat PROVE d[n] = w[n]
  <2> HIDE DEF w
  <2>1. d[0] = w[0]
    BY <1>3, <1>4
  <2>2. ASSUME NEW i \in 1..n, d[i - 1] = w[i - 1] PROVE d[i] = w[i]
    BY <1>3, <1>4, <2>2
  <2>3. n \in 0..n
    OBVIOUS
  <2> QED
    BY <2>1, <2>2, <2>3, ChainUnique
<1> QED
  BY <1>2, <1>5

\* backoff_duration is min(base * 2^n, max), for every n and every width of a
\* duration (engine.rs:691-705).
THEOREM BackoffIsMin ==
    ASSUME NEW base \in 0..DurationMax, NEW max \in 0..DurationMax, NEW n \in Nat
    PROVE  BackoffDuration([type |-> "exponential", base |-> base, max |-> max], n)
             = Lesser(base * Power[n], max)
<1> DEFINE policy == [type |-> "exponential", base |-> base, max |-> max]
           d(i) == Doubled(base)[i]
<1>0. base \in Nat /\ max \in Nat /\ DurationMax \in Nat /\ max <= DurationMax
  BY DelayAssumption
<1>1. BackoffDuration(policy, n) = IF \E i \in 1..n : d(i) >= max THEN max
                                                                  ELSE Lesser(d(n), max)
  BY DEF BackoffDuration
<1>2. \A i \in Nat : d(i) = Lesser(Product(base, i), DurationMax) /\ Product(base, i) \in Nat
  BY <1>0, DoubledIsProduct, ProductDoubles
<1> HIDE DEF d
<1>3. CASE \E i \in 1..n : d(i) >= max
  <2>1. PICK i \in 1..n : d(i) >= max
    BY <1>3
  <2>2. i \in Nat /\ i \in 0..n
    OBVIOUS
  <2>3. Product(base, i) <= Product(base, n)
    BY <1>0, <2>2, ProductGrows
  <2>4. Product(base, n) >= max
    BY <1>0, <1>2, <2>1, <2>2, <2>3 DEF Lesser
  <2>5. Lesser(Product(base, n), max) = max
    BY <1>0, <1>2, <2>4 DEF Lesser
  <2> QED
    BY <1>1, <1>3, <2>5 DEF Product
<1>4. CASE ~ \E i \in 1..n : d(i) >= max
  <2>1. Lesser(Lesser(Product(base, n), DurationMax), max) = Lesser(Product(base, n), max)
    BY <1>0, <1>2 DEF Lesser
  <2> QED
    BY <1>1, <1>2, <1>4, <2>1 DEF Product
<1> QED
  BY <1>3, <1>4

THEOREM BackoffIsSound == FunctionsSpec => []BackoffIsCapped
<1>1. input \in Inputs \union {NoInput} => BackoffIsCapped
  <2> SUFFICES ASSUME input \in Inputs \union {NoInput}, input.of = "delay"
               PROVE  BackoffDuration(input.policy, input.failed_attempt)
                        = Lesser(input.policy.base * Power[input.failed_attempt], input.policy.max)
    BY DEF BackoffIsCapped
  <2>1. input.policy \in SomePolicies /\ input.failed_attempt \in SomeAttempts
    BY DEF Inputs, NoInput
  <2>2. PICK base \in 0..DurationMax, max \in 0..DurationMax :
          input.policy = [type |-> "exponential", base |-> base, max |-> max]
    BY <2>1, FunctionsAssumption
  <2>3. input.failed_attempt \in Nat
    BY <2>1, FunctionsAssumption
  <2> QED
    BY <2>2, <2>3, BackoffIsMin
<1> QED
  BY <1>1, OnlyInputs, PTL

(***************************************************************************)
(* The table.  Its rows are the appends that have returned, encoded; what  *)
(* is under way carries a time that no earlier row exceeds.                *)
(***************************************************************************)

Appends == [event : Appendable, ts : Nat, after : Nat]

TableTypeOK ==
    /\ schema \in {"none", "old", "new"}
    /\ conn \in [Clients -> {"closed", "inspect", "alter", "open", "failed"}]
    /\ pending \in [Clients -> Appends \union {NoAppend}]
    /\ millis \in Nat
    /\ appended \in Seq(Appends)

RowsAreAppends ==
    events = [i \in 1..Len(appended) |-> Row(appended[i].event, appended[i].ts)]

\* a is an append that may stand behind the rows there are.
InItsTime(a) ==
    /\ a.ts <= millis
    /\ a.after <= Len(appended)
    /\ \A i \in 1..Len(appended) : i <= a.after => appended[i].ts <= a.ts

TimesInOrder ==
    /\ \A i \in 1..Len(appended) : InItsTime(appended[i])
    /\ \A c \in Clients : pending[c] # NoAppend => InItsTime(pending[c])

TableInv == TableTypeOK /\ RowsAreAppends /\ OpenMeansMigrated /\ TimesInOrder

LEMMA AppendToFunction ==
    ASSUME NEW n \in Nat, NEW s, s = [i \in 1..n |-> s[i]], NEW x
    PROVE  /\ Len(s) = n
           /\ Append(s, x) = [i \in 1..(n + 1) |-> IF i = n + 1 THEN x ELSE s[i]]
<1> DEFINE S == {s[i] : i \in 1..n} \union {x}
           a == Append(s, x)
           b == [i \in 1..(n + 1) |-> IF i = n + 1 THEN x ELSE s[i]]
<1>1. \A i \in 1..n : s[i] \in S
  OBVIOUS
<1>2. x \in S
  OBVIOUS
<1> HIDE DEF S
<1>3. s \in Seq(S) /\ Len(s) = n
  BY <1>1, IsSequence
<1>4. a \in Seq(S) /\ Len(a) = n + 1 /\ \A i \in 1..(n + 1) : a[i] = IF i = n + 1 THEN x ELSE s[i]
  BY <1>2, <1>3
<1>5. b \in Seq(S) /\ Len(b) = n + 1
  <2>1. b = [i \in 1..(n + 1) |-> b[i]] /\ n + 1 \in Nat
    OBVIOUS
  <2>2. \A i \in 1..(n + 1) : b[i] \in S
    BY <1>1, <1>2
  <2> HIDE DEF b
  <2> QED
    BY <2>1, <2>2, IsSequence
<1>6. \A i \in 1..(n + 1) : a[i] = b[i]
  BY <1>4
<1> HIDE DEF a, b
<1>7. a = b
  BY <1>4, <1>5, <1>6, SeqEqual
<1> QED
  BY <1>3, <1>7 DEF a, b

LEMMA TableInvInit == TableInit => TableInv
<1> SUFFICES ASSUME TableInit PROVE TableInv
  OBVIOUS
<1>1. conn = [c \in Clients |-> "closed"] /\ pending = [c \in Clients |-> NoAppend] /\ millis = 1
      /\ schema \in {"none", "old"}
  BY DEF TableInit
<1>2. CASE events = <<>> /\ appended = <<>>
  BY <1>1, <1>2 DEF TableInv, TableTypeOK, RowsAreAppends, OpenMeansMigrated, TimesInOrder
<1>3. ASSUME NEW e \in Appendable, events = <<Row(e, 0)>>,
             appended = <<[event |-> e, ts |-> 0, after |-> 0]>>
      PROVE  TableInv
  <2> DEFINE a == [event |-> e, ts |-> 0, after |-> 0]
  <2>1. a \in Appends /\ a.event = e /\ a.ts = 0 /\ a.after = 0
    BY DEF Appends
  <2>2. appended = <<a>>
    BY <1>3
  <2> HIDE DEF a
  <2>3. appended \in Seq(Appends) /\ Len(appended) = 1 /\ appended[1] = a
    BY <2>1, <2>2
  <2>4. RowsAreAppends
    <3>1. events = [i \in 1..1 |-> Row(e, 0)]
      BY <1>3
    <3> QED
      BY <2>1, <2>3, <3>1 DEF RowsAreAppends
  <2>5. TimesInOrder
    BY <1>1, <2>1, <2>3 DEF TimesInOrder, InItsTime
  <2> QED
    BY <1>1, <2>3, <2>4, <2>5 DEF TableInv, TableTypeOK, OpenMeansMigrated
<1> QED
  BY <1>2, <1>3 DEF TableInit

LEMMA TableInvStep == TableInv /\ [TableNext]_table => TableInv'
<1> SUFFICES ASSUME TableInv, [TableNext]_table PROVE TableInv'
  OBVIOUS
<1>0. TableTypeOK /\ RowsAreAppends /\ OpenMeansMigrated /\ TimesInOrder
  BY DEF TableInv
<1> DEFINE SameRows == UNCHANGED <<events, pending, millis, appended>>
<1>1. ASSUME SameRows PROVE RowsAreAppends' /\ TimesInOrder'
  BY <1>0, <1>1 DEF RowsAreAppends, TimesInOrder, InItsTime
<1>2. ASSUME NEW c \in Clients, CreateTables(c) PROVE TableInv'
  BY <1>0, <1>1, <1>2 DEF CreateTables, SetConn, TableInv, TableTypeOK, OpenMeansMigrated
<1>3. ASSUME NEW c \in Clients, Inspect(c) PROVE TableInv'
  BY <1>0, <1>1, <1>3 DEF Inspect, SetConn, TableInv, TableTypeOK, OpenMeansMigrated
<1>4. ASSUME NEW c \in Clients, AddColumn(c) PROVE TableInv'
  BY <1>0, <1>1, <1>4 DEF AddColumn, SetConn, TableInv, TableTypeOK, OpenMeansMigrated
<1>5. ASSUME NEW c \in Clients, NEW e \in Appendable, Prepare(c, e) PROVE TableInv'
  <2> DEFINE a == [event |-> e, ts |-> Now, after |-> Len(events)]
  <2>1. Len(events) = Len(appended) /\ Len(appended) \in Nat
    BY <1>0 DEF RowsAreAppends, TableTypeOK
  <2>2. a \in Appends /\ a.ts = millis /\ a.after = Len(appended)
    BY <1>0, <2>1 DEF Appends, Now, TableTypeOK
  <2>3. pending' = [pending EXCEPT ![c] = a] /\ UNCHANGED <<schema, events, conn, millis, appended>>
    BY <1>5 DEF Prepare
  <2> HIDE DEF a
  <2>4. TableTypeOK' /\ RowsAreAppends' /\ OpenMeansMigrated'
    BY <1>0, <2>2, <2>3 DEF TableTypeOK, RowsAreAppends, OpenMeansMigrated
  <2>5. InItsTime(a)
    <3>1. \A i \in 1..Len(appended) : appended[i].ts <= millis
      BY <1>0 DEF InItsTime, TimesInOrder
    <3>2. millis \in Nat
      BY <1>0 DEF TableTypeOK
    <3> QED
      BY <2>1, <2>2, <3>1, <3>2 DEF InItsTime
  <2>6. TimesInOrder'
    BY <1>0, <2>3, <2>5 DEF InItsTime, TimesInOrder, TableTypeOK
  <2> QED
    BY <2>4, <2>6 DEF TableInv
<1>6. ASSUME NEW c \in Clients, Insert(c) PROVE TableInv'
  <2> DEFINE a == pending[c]
             n == Len(appended)
  <2>1. /\ a \in Appends /\ InItsTime(a)
        /\ events' = Append(events, Row(a.event, a.ts)) /\ appended' = Append(appended, a)
        /\ pending' = [pending EXCEPT ![c] = NoAppend] /\ UNCHANGED <<schema, conn, millis>>
    BY <1>0, <1>6 DEF Insert, TableTypeOK, TimesInOrder
  <2> HIDE DEF a
  <2>2. n \in Nat /\ appended' \in Seq(Appends) /\ Len(appended') = n + 1
        /\ appended'[n + 1] = a /\ \A i \in 1..n : appended'[i] = appended[i]
    BY <1>0, <2>1 DEF TableTypeOK
  <2>3. TableTypeOK' /\ OpenMeansMigrated'
    BY <1>0, <2>1, <2>2 DEF TableTypeOK, OpenMeansMigrated
  <2>4. RowsAreAppends'
    <3>1. events = [i \in 1..n |-> events[i]]
          /\ \A i \in 1..n : events[i] = Row(appended[i].event, appended[i].ts)
      BY <1>0, <2>2 DEF RowsAreAppends
    <3>2. Append(events, Row(a.event, a.ts))
            = [i \in 1..(n + 1) |-> IF i = n + 1 THEN Row(a.event, a.ts) ELSE events[i]]
      BY <2>2, <3>1, AppendToFunction
    <3>3. \A i \in 1..(n + 1) : Row(appended'[i].event, appended'[i].ts)
                                  = IF i = n + 1 THEN Row(a.event, a.ts) ELSE events[i]
      BY <2>2, <3>1
    <3> QED
      BY <2>1, <2>2, <3>2, <3>3 DEF RowsAreAppends
  <2>5. ASSUME NEW b \in Appends, InItsTime(b) PROVE InItsTime(b)'
    BY <2>1, <2>2, <2>5 DEF InItsTime, Appends
  <2>6. TimesInOrder'
    <3>1. ASSUME NEW i \in 1..Len(appended') PROVE InItsTime(appended[i])'
      <4>1. appended'[i] \in Appends /\ InItsTime(appended'[i])
        BY <1>0, <2>1, <2>2 DEF TimesInOrder, TableTypeOK
      <4> QED
        BY <2>5, <4>1 DEF InItsTime
    <3>2. ASSUME NEW d \in Clients, pending'[d] # NoAppend PROVE InItsTime(pending[d])'
      <4>1. pending'[d] = pending[d] /\ pending[d] \in Appends /\ InItsTime(pending[d])
        BY <1>0, <2>1, <3>2 DEF TimesInOrder, TableTypeOK
      <4> QED
        BY <2>5, <4>1 DEF InItsTime
    <3> QED
      BY <3>1, <3>2 DEF TimesInOrder
  <2> QED
    BY <2>3, <2>4, <2>6 DEF TableInv
<1>7. ASSUME NEW c \in Clients, Close(c) PROVE TableInv'
  BY <1>0, <1>7
     DEF Close, SetConn, TableInv, TableTypeOK, RowsAreAppends, OpenMeansMigrated,
         TimesInOrder, InItsTime
<1>8. CASE MillisPass
  <2>1. millis' = millis + 1 /\ UNCHANGED <<schema, events, conn, pending, appended>>
    BY <1>8 DEF MillisPass
  <2>2. TableTypeOK' /\ RowsAreAppends' /\ OpenMeansMigrated'
    BY <1>0, <2>1 DEF TableTypeOK, RowsAreAppends, OpenMeansMigrated
  <2>3. ASSUME NEW b \in Appends, InItsTime(b) PROVE InItsTime(b)'
    BY <1>0, <2>1, <2>3 DEF InItsTime, Appends, TableTypeOK
  <2>4. TimesInOrder'
    BY <1>0, <2>1, <2>3 DEF TimesInOrder, TableTypeOK
  <2> QED
    BY <2>2, <2>4 DEF TableInv
<1>9. CASE UNCHANGED table
  BY <1>0, <1>9
     DEF table, TableInv, TableTypeOK, RowsAreAppends, OpenMeansMigrated, TimesInOrder, InItsTime
<1> QED
  BY <1>2, <1>3, <1>4, <1>5, <1>6, <1>7, <1>8, <1>9 DEF TableNext

LEMMA TableInvAlways == TableSpec => []TableInv
  BY TableInvInit, TableInvStep, PTL DEF TableSpec

\* Nobody uses a table without the column: sqlite.rs:71-94.
THEOREM MigrationIsSafe == TableSpec => []OpenMeansMigrated
<1>1. TableInv => OpenMeansMigrated
  BY DEF TableInv
<1> QED
  BY <1>1, TableInvAlways, PTL

\* The times of appends that do not overlap follow the ids: sqlite.rs:107-111.
THEOREM StampsAreOrdered == TableSpec => []StampsFollowReturns
<1>1. ASSUME TableInv PROVE StampsFollowReturns
  <2> SUFFICES ASSUME NEW i \in DOMAIN events, NEW j \in DOMAIN events,
                      i <= appended[j].after
               PROVE  events[i].ts <= events[j].ts
    BY DEF StampsFollowReturns
  <2>1. RowsAreAppends /\ TimesInOrder
    BY <1>1 DEF TableInv
  <2>2. i \in 1..Len(appended) /\ j \in 1..Len(appended)
    BY <2>1 DEF RowsAreAppends
  <2>3. events[i].ts = appended[i].ts /\ events[j].ts = appended[j].ts
    BY <2>1, <2>2 DEF RowsAreAppends, Row
  <2>4. appended[i].ts <= appended[j].ts
    BY <2>1, <2>2 DEF TimesInOrder, InItsTime
  <2> QED
    BY <2>3, <2>4
<1> QED
  BY <1>1, TableInvAlways, PTL

(***************************************************************************)
(* Loading                                                                 *)
(***************************************************************************)

Increasing(f) == \A i, j \in DOMAIN f : i < j => f[i] < f[j]

LEMMA OrderExists ==
    ASSUME NEW n \in Nat, NEW ids \in SUBSET (1..n)
    PROVE  \E f \in [1..Cardinality(ids) -> ids] : Increasing(f)
<1> DEFINE Ordered(S) == \E f \in [1..Cardinality(S) -> S] : Increasing(f)
           T == {k \in 0..n : \A S \in SUBSET (1..k) : Ordered(S)}
<1>1. 0 \in T
  <2>1. SUBSET (1..0) = {{}} /\ 0 \in 0..n
    OBVIOUS
  <2>2. Ordered({})
    <3> DEFINE f == [i \in 1..0 |-> 0]
    <3>1. f \in [1..Cardinality({}) -> {}] /\ Increasing(f)
      BY FS_EmptySet DEF Increasing
    <3> HIDE DEF f
    <3> QED
      BY <3>1
  <2> HIDE DEF Ordered
  <2> QED
    BY <2>1, <2>2
<1>2. ASSUME NEW k \in 1..n, k - 1 \in T PROVE k \in T
  <2>1. \A S \in SUBSET (1..(k - 1)) : Ordered(S)
    BY <1>2
  <2>2. ASSUME NEW S \in SUBSET (1..k) PROVE Ordered(S)
    <3> DEFINE R == S \ {k}
               m == Cardinality(R)
    <3>1. R \in SUBSET (1..(k - 1))
      OBVIOUS
    <3>2. CASE k \notin S
      <4>1. S \in SUBSET (1..(k - 1))
        BY <3>2
      <4> HIDE DEF Ordered
      <4> QED
        BY <2>1, <4>1
    <3>3. CASE k \in S
      <4>1. PICK f \in [1..m -> R] : Increasing(f)
        BY <2>1, <3>1
      <4>2. IsFiniteSet(1..k) /\ IsFiniteSet(S)
        <5>1. IsFiniteSet(1..k)
          BY FS_Interval
        <5>2. S \subseteq 1..k
          OBVIOUS
        <5> QED
          BY <5>1, <5>2, FS_Subset
      <4>3. m \in Nat /\ Cardinality(S) = m + 1
        BY <3>3, <4>2, FS_RemoveElement, FS_CardinalityType, FS_Subset
      <4> DEFINE g == [i \in 1..(m + 1) |-> IF i = m + 1 THEN k ELSE f[i]]
      <4> HIDE DEF m
      <4>4. g \in [1..(m + 1) -> S]
        BY <3>3, <4>1, <4>3
      <4>5. Increasing(g)
        <5>1. \A i \in 1..m : f[i] \in 1..(k - 1)
          BY <3>1, <4>1
        <5>2. \A i, j \in 1..m : i < j => f[i] < f[j]
          BY <4>1 DEF Increasing
        <5>3. \A i \in 1..(m + 1) : i = m + 1 \/ i \in 1..m
          BY <4>3
        <5> HIDE DEF R
        <5> QED
          BY <4>3, <5>1, <5>2, <5>3 DEF Increasing
      <4> HIDE DEF g
      <4> QED
        BY <4>3, <4>4, <4>5
    <3> QED
      BY <3>2, <3>3
  <2> HIDE DEF Ordered
  <2> QED
    BY <2>2
<1>3. n \in T
  <2>1. n \in 0..n
    OBVIOUS
  <2> HIDE DEF T
  <2> QED
    BY <1>1, <1>2, <2>1, UpTo
<1> QED
  BY <1>3

LEMMA InOrderType ==
    ASSUME NEW n \in Nat, NEW ids \in SUBSET (1..n)
    PROVE  \A k \in DOMAIN InOrder(ids) : InOrder(ids)[k] \in ids
<1>1. \E f \in [1..Cardinality(ids) -> ids] : \A i, j \in DOMAIN f : i < j => f[i] < f[j]
  BY OrderExists DEF Increasing
<1>2. InOrder(ids) \in [1..Cardinality(ids) -> ids]
  BY <1>1, Zenon DEF InOrder
<1> QED
  BY <1>2

\* A load gives back what was appended, in its order and character by character:
\* sqlite.rs:49-138, 524-755.
THEOREM LoadIsFaithful == TableSpec => []LoadReturnsAppended
<1>1. ASSUME TableInv PROVE LoadReturnsAppended
  <2> SUFFICES ASSUME NEW w
               PROVE  LET mine == InOrder({i \in DOMAIN appended : WorkflowOf(appended[i].event) = w})
                      IN  LoadEventsWithTimestamps(w) =
                             [k \in DOMAIN mine |-> [event |-> appended[mine[k]].event,
                                                     ts    |-> appended[mine[k]].ts]]
    BY DEF LoadReturnsAppended
  <2> DEFINE n == Len(appended)
             ids == {i \in DOMAIN events : events[i].workflow = w}
             f == InOrder(ids)
  <2>1. n \in Nat /\ DOMAIN appended = 1..n /\ DOMAIN events = 1..n
    BY <1>1 DEF TableInv, TableTypeOK, RowsAreAppends
  <2>2. ASSUME NEW i \in 1..n
        PROVE  /\ events[i].workflow = WorkflowOf(appended[i].event)
               /\ Decode(events[i].payload) = appended[i].event
               /\ events[i].ts = appended[i].ts
    <3>1. appended[i].event \in Appendable
      <4>1. appended \in Seq(Appends)
        BY <1>1 DEF TableInv, TableTypeOK
      <4>2. appended[i] \in Appends
        BY <2>1, <4>1
      <4> QED
        BY <4>2 DEF Appends
    <3>2. events[i] = Row(appended[i].event, appended[i].ts)
      BY <1>1 DEF TableInv, RowsAreAppends
    <3>3. Decode(Encode(appended[i].event)) = appended[i].event
      BY <3>1, TableAssumption, DecodeUndoesEncode
    <3> QED
      BY <3>2, <3>3 DEF Row
  <2>3. ids = {i \in DOMAIN appended : WorkflowOf(appended[i].event) = w}
    BY <2>1, <2>2
  <2>4. ids \in SUBSET (1..n)
    BY <2>1
  <2> HIDE DEF n, ids
  <2>5. \A k \in DOMAIN f : f[k] \in 1..n
    BY <2>1, <2>4, InOrderType
  <2>6. LoadEventsWithTimestamps(w)
          = [k \in DOMAIN f |-> [event |-> Decode(events[f[k]].payload), ts |-> events[f[k]].ts]]
    BY DEF LoadEventsWithTimestamps, ids
  <2> HIDE DEF f
  <2>7. [k \in DOMAIN f |-> [event |-> Decode(events[f[k]].payload), ts |-> events[f[k]].ts]]
          = [k \in DOMAIN f |-> [event |-> appended[f[k]].event, ts |-> appended[f[k]].ts]]
    BY <2>2, <2>5
  <2> QED
    BY <2>3, <2>6, <2>7 DEF f
<1> QED
  BY <1>1, TableInvAlways, PTL

(***************************************************************************)
(* Leases: times and their parts                                           *)
(***************************************************************************)

\* A time is put together again from its seconds and the rest.
LEMMA PartsOfTime ==
    ASSUME ClockAssumption, NEW t \in Nat
    PROVE  /\ Secs(t) \in Nat /\ Nanos(t) \in 0..(PerSecond - 1)
           /\ Secs(t) * PerSecond + Nanos(t) = t
  BY DEF ClockAssumption, Secs, Nanos

\* Comparing the parts in turn is comparing the times.
LEMMA PartsCompare ==
    ASSUME NEW p \in Nat \ {0}, NEW s \in Nat, NEW q \in Nat,
           NEW n \in 0..(p - 1), NEW m \in 0..(p - 1)
    PROVE  (s * p + n > q * p + m) <=> ~ (s < q \/ (s = q /\ n <= m))
  <1>1. CASE s < q
    <2>1. s + 1 <= q
      BY <1>1
    <2>2. (s + 1) * p <= q * p
      BY <2>1
    <2>3. (s + 1) * p = s * p + p
      OBVIOUS
    <2>4. s * p \in Nat /\ q * p \in Nat
      OBVIOUS
    <2> QED
      BY <1>1, <2>2, <2>3, <2>4
  <1>2. CASE s = q
    <2>1. s * p \in Nat
      OBVIOUS
    <2> QED
      BY <1>2, <2>1
  <1>3. CASE q < s
    <2>1. q + 1 <= s
      BY <1>3
    <2>2. (q + 1) * p <= s * p
      BY <2>1
    <2>3. (q + 1) * p = q * p + p
      OBVIOUS
    <2>4. s * p \in Nat /\ q * p \in Nat
      OBVIOUS
    <2> QED
      BY <1>3, <2>2, <2>3, <2>4
  <1> QED
    BY <1>1, <1>2, <1>3

(***************************************************************************)
(* Types                                                                   *)
(***************************************************************************)

LEMMA IntervalIsPositive ==
    ASSUME ClockAssumption
    PROVE  Interval \in Nat \ {0}
  BY DEF ClockAssumption, Interval

\* The rows that a worker and an event write.
LEMMA WrittenRows ==
    ASSUME ClockAssumption, LeaseTypeOK
    PROVE  /\ \A w \in Workers : LeasedTo(w) \in
                 [status : {"leased"}, holder : Workers, secs : Nat, nanos : 0..(PerSecond - 1)]
           /\ \A st \in {"pending", "completed", "failed", "waiting"} :
                 [Free EXCEPT !.status = st] \in
                     [status : {st}, holder : {Nobody}, secs : Nat, nanos : 0..(PerSecond - 1)]
  <1>1. now + Ttl \in Nat
    BY DEF ClockAssumption, LeaseTypeOK
  <1>2. Secs(now + Ttl) \in Nat /\ Nanos(now + Ttl) \in 0..(PerSecond - 1)
    BY <1>1, PartsOfTime
  <1>3. 0 \in 0..(PerSecond - 1)
    BY DEF ClockAssumption
  <1> QED
    BY <1>2, <1>3 DEF LeasedTo, Free

\* The next tick of an engine that is not ahead of its last one lies ahead, by no more
\* than an interval.
LEMMA NextTickAhead ==
    ASSUME ClockAssumption, LeaseTypeOK, NEW w \in Workers, due[w] <= now
    PROVE  NextTick(w) \in Nat /\ now < NextTick(w) /\ NextTick(w) <= now + Interval
  <1>1. now - due[w] \in Nat
    BY DEF LeaseTypeOK
  <1>2. (now - due[w]) % Interval \in 0..(Interval - 1)
    BY <1>1, IntervalIsPositive
  <1> QED
    BY <1>2, IntervalIsPositive DEF NextTick, LeaseTypeOK

LEMMA TypeIsInductive ==
    ASSUME ClockAssumption, LeaseTypeOK, [LeaseNext]_lease
    PROVE  LeaseTypeOK'
  <1>1. ASSUME NEW w \in Workers, Claim(w)
        PROVE  LeaseTypeOK'
    BY <1>1, WrittenRows DEF Claim, LeaseTypeOK
  <1>2. ASSUME NEW w \in Workers, Await(w)
        PROVE  LeaseTypeOK'
    BY <1>2 DEF Await, LeaseTypeOK
  <1>3. ASSUME NEW w \in Workers, Renew(w)
        PROVE  LeaseTypeOK'
    BY <1>3, WrittenRows, NextTickAhead DEF Renew, RenewLease, LeaseTypeOK
  <1>4. ASSUME NEW w \in Workers, Ends(w)
        PROVE  LeaseTypeOK'
    BY <1>4, WrittenRows DEF Ends, LeaseTypeOK
  <1>5. ASSUME NEW w \in Workers, Look(w)
        PROVE  LeaseTypeOK'
    BY <1>5 DEF Look, LeaseTypeOK
  <1>6. ASSUME NEW w \in Workers, Readmit(w)
        PROVE  LeaseTypeOK'
    BY <1>6, WrittenRows DEF Readmit, LeaseTypeOK
  <1>7. CASE Reopen
    BY <1>7, WrittenRows DEF Reopen, LeaseTypeOK
  <1>8. CASE Pass
    BY <1>8 DEF Pass, LeaseTypeOK
  <1>9. CASE UNCHANGED lease
    BY <1>9 DEF lease, LeaseTypeOK
  <1> QED
    BY <1>1, <1>2, <1>3, <1>4, <1>5, <1>6, <1>7, <1>8, <1>9 DEF LeaseNext, Rest

LEMMA TypeInitially ==
    ASSUME ClockAssumption, LeaseInit
    PROVE  LeaseTypeOK
  <1>1. 0 \in 0..(PerSecond - 1)
    BY DEF ClockAssumption
  <1> QED
    BY <1>1 DEF LeaseInit, LeaseTypeOK, Free

\* Types hold for every length of a lease (engine.rs:458-475, sqlite.rs:158-193).
THEOREM LeaseTypeCorrect == LeaseSpec => []LeaseTypeOK
  <1>1. LeaseInit => LeaseTypeOK
    BY TypeInitially, ClockAssumption
  <1>2. LeaseTypeOK /\ [LeaseNext]_lease => LeaseTypeOK'
    BY TypeIsInductive, ClockAssumption
  <1> QED
    BY <1>1, <1>2, PTL DEF LeaseSpec

\* A lease is either respected by other workers or found by a recovery, and never
\* both, at every moment and for every division of a second (sqlite.rs:202-208,
\* 268-277).
THEOREM EveryLeaseIsHeldOrFound == LeaseSpec => []NoLeaseInLimbo
  <1>1. ASSUME LeaseTypeOK
        PROVE  NoLeaseInLimbo
    <2>1. /\ Secs(now) \in Nat /\ Nanos(now) \in 0..(PerSecond - 1)
          /\ Secs(now) * PerSecond + Nanos(now) = now
      BY <1>1, PartsOfTime, ClockAssumption DEF LeaseTypeOK
    <2>2. row.secs \in Nat /\ row.nanos \in 0..(PerSecond - 1)
      BY <1>1 DEF LeaseTypeOK
    <2>3. (row.secs * PerSecond + row.nanos > Secs(now) * PerSecond + Nanos(now))
             <=> ~ (row.secs < Secs(now) \/ (row.secs = Secs(now) /\ row.nanos <= Nanos(now)))
      BY <2>1, <2>2, PartsCompare, ClockAssumption DEF ClockAssumption
    <2> QED
      BY <2>1, <2>3 DEF NoLeaseInLimbo, Unexpired, Expiry, Expired
  <1> QED
    BY <1>1, LeaseTypeCorrect, PTL

(***************************************************************************)
(* Renewal                                                                 *)
(***************************************************************************)

\* What a lease written now expires at.
LEMMA WrittenExpiry ==
    ASSUME ClockAssumption, LeaseTypeOK, NEW w \in Workers, row' = LeasedTo(w)
    PROVE  Expiry' = now + Ttl
  <1>1. now + Ttl \in Nat
    BY DEF ClockAssumption, LeaseTypeOK
  <1> QED
    BY <1>1, PartsOfTime DEF Expiry, LeasedTo

LEMMA RenewalIsInductive ==
    ASSUME ClockAssumption, LeaseTypeOK, RenewalsInTime, [LeaseNext]_lease
    PROVE  RenewalsInTime'
  <1> USE IntervalIsPositive
  <1>0. \A w \in Workers : due[w] \in Nat /\ now \in Nat /\ Slack \in Nat /\ Ttl \in Nat
    BY DEF LeaseTypeOK, ClockAssumption
  <1>1. ASSUME NEW w \in Workers, Claim(w)
        PROVE  RenewalsInTime'
    <2>1. row'.holder = w /\ phase'[w] = "push"
      BY <1>1 DEF Claim, LeasedTo, LeaseTypeOK
    <2> QED
      BY <1>1, <2>1 DEF Claim, RenewalsInTime, LeaseTypeOK
  <1>2. ASSUME NEW w \in Workers, Await(w)
        PROVE  RenewalsInTime'
    <2>1. \A v \in Workers \ {w} : phase'[v] = phase[v] /\ due'[v] = due[v]
      BY <1>2 DEF Await, LeaseTypeOK
    <2>2. phase'[w] = "await" /\ due'[w] = now /\ now' = now
      BY <1>2 DEF Await, LeaseTypeOK
    <2>3. Expiry' = Expiry /\ row' = row
      BY <1>2 DEF Await, Expiry
    <2> QED
      BY <1>0, <2>1, <2>2, <2>3 DEF RenewalsInTime
  <1>3. ASSUME NEW w \in Workers, Renew(w)
        PROVE  RenewalsInTime'
    <2>1. \A v \in Workers \ {w} : phase'[v] = phase[v] /\ due'[v] = due[v]
      BY <1>3 DEF Renew, LeaseTypeOK
    <2>2. phase'[w] = "renew" /\ due'[w] = NextTick(w) /\ now' = now /\ due[w] <= now
      BY <1>3 DEF Renew, LeaseTypeOK
    <2>3. now < NextTick(w) /\ NextTick(w) <= now + Interval /\ NextTick(w) \in Nat
      BY <2>2, NextTickAhead
    <2>4. CASE row.status = "leased" /\ row.holder = w
      <3>1. row' = LeasedTo(w) /\ row'.holder = w
        BY <1>3, <2>4 DEF Renew, RenewLease, LeasedTo
      <3>2. Expiry' = now + Ttl
        BY <3>1, WrittenExpiry
      <3> QED
        BY <1>0, <2>1, <2>2, <2>3, <3>1, <3>2 DEF RenewalsInTime
    <2>5. CASE ~ (row.status = "leased" /\ row.holder = w)
      <3>1. row' = row /\ Expiry' = Expiry
        BY <1>3, <2>5 DEF Renew, RenewLease, Expiry
      <3> QED
        BY <1>0, <2>1, <2>2, <2>3, <2>5, <3>1 DEF RenewalsInTime
    <2> QED
      BY <2>4, <2>5
  <1>4. ASSUME NEW w \in Workers, Ends(w)
        PROVE  RenewalsInTime'
    <2>1. /\ \A v \in Workers : phase'[v] = phase[v] \/ phase'[v] = "idle"
          /\ now' = now /\ due' = due
      BY <1>4 DEF Ends, LeaseTypeOK
    <2>2. row'.status # "leased" \/ (row' = row /\ Expiry' = Expiry)
      BY <1>4, WrittenRows DEF Ends, Expiry
    <2> QED
      BY <2>1, <2>2 DEF RenewalsInTime
  <1>5. ASSUME NEW w \in Workers, Look(w)
        PROVE  RenewalsInTime'
    BY <1>5 DEF Look, RenewalsInTime, Expiry
  <1>6. ASSUME NEW w \in Workers, Readmit(w)
        PROVE  RenewalsInTime'
    <2>1. row'.status # "leased"
      BY <1>6, WrittenRows DEF Readmit
    <2> QED
      BY <1>6, <2>1 DEF Readmit, RenewalsInTime
  <1>7. CASE Reopen
    <2>1. row'.status # "leased"
      BY <1>7, WrittenRows DEF Reopen
    <2> QED
      BY <1>7, <2>1 DEF Reopen, RenewalsInTime
  <1>8. CASE Pass
    <2>1. /\ now' = now + 1 /\ row' = row /\ phase' = phase /\ due' = due
          /\ \A w \in Workers : phase[w] \in {"await", "renew"} => now < due[w] + Slack
      BY <1>8 DEF Pass
    <2>2. Expiry' = Expiry
      BY <2>1 DEF Expiry
    <2> QED
      BY <1>0, <2>1, <2>2 DEF RenewalsInTime
  <1>9. CASE UNCHANGED lease
    BY <1>9 DEF lease, RenewalsInTime, Expiry
  <1> QED
    BY <1>1, <1>2, <1>3, <1>4, <1>5, <1>6, <1>7, <1>8, <1>9 DEF LeaseNext, Rest

\* An engine that comes to its ticks in time never loses the lease of the step it
\* awaits to the clock (engine.rs:458-475, 499-513).
THEOREM AwaitedLeaseLasts == LeaseSpec => []LeaseOutlivesInterval
  <1>1. LeaseInit => LeaseTypeOK /\ RenewalsInTime
    BY TypeInitially, ClockAssumption DEF LeaseInit, RenewalsInTime
  <1>2. LeaseTypeOK /\ RenewalsInTime /\ [LeaseNext]_lease
            => LeaseTypeOK' /\ RenewalsInTime'
    BY TypeIsInductive, RenewalIsInductive, ClockAssumption
  <1>3. ASSUME LeaseTypeOK, RenewalsInTime
        PROVE  LeaseOutlivesInterval
    <2> SUFFICES ASSUME NEW w \in Workers,
                        phase[w] = "renew", row.status = "leased", row.holder = w
                 PROVE  Expiry > now
      BY DEF LeaseOutlivesInterval, Unexpired
    <2>1. now <= due[w] + Slack /\ Expiry + Interval >= due[w] + Ttl
      BY <1>3 DEF RenewalsInTime
    <2>2. Interval + Slack < Ttl /\ Interval \in Nat /\ Slack \in Nat /\ Ttl \in Nat
      BY ClockAssumption, IntervalIsPositive DEF ClockAssumption
    <2>3. now \in Nat /\ due[w] \in Nat /\ row.secs \in Nat /\ row.nanos \in Nat
      BY <1>3, ClockAssumption DEF LeaseTypeOK, ClockAssumption
    <2>4. Expiry \in Nat
      BY <2>3, ClockAssumption DEF Expiry, ClockAssumption
    <2> QED
      BY <2>1, <2>2, <2>3, <2>4
  <1> QED
    BY <1>1, <1>2, <1>3, PTL DEF LeaseSpec

(***************************************************************************)
(* Refinement                                                              *)
(***************************************************************************)

\* What StepStore sees of a row, whose other fields do not matter to it.
LEMMA SeenRow ==
    ASSUME NEW st, NEW h, NEW f \in BOOLEAN,
           row'.status = st, row'.holder = h, (st = "leased" /\ Unexpired') = f
    PROVE  RowWithFresh' = [RowWithFresh EXCEPT
               ![0] = [status |-> st, holder |-> h, fresh |-> f, attempt |-> 0]]
  BY DEF RowWithFresh

\* A step of the clock or of a worker is an operation of StepStore on the row, or none.
LEMMA LeaseStepsMap ==
    ASSUME ClockAssumption, LeaseTypeOK, [LeaseNext]_lease
    PROVE  \/ \E w \in Workers : Store!ClaimStep(0, w) \/ Store!RenewLease(0, w)
           \/ Store!ExpireLease(0)
           \/ Projection
           \/ UNCHANGED RowWithFresh
  <1>0. now \in Nat /\ Ttl \in Nat /\ Ttl > 0
    BY IntervalIsPositive DEF LeaseTypeOK, ClockAssumption
  <1>a. \A w \in Workers :
          (row' = LeasedTo(w) /\ now' = now) =>
              RowWithFresh' = [RowWithFresh EXCEPT
                  ![0] = [status |-> "leased", holder |-> w, fresh |-> TRUE, attempt |-> 0]]
    <2> SUFFICES ASSUME NEW w \in Workers, row' = LeasedTo(w), now' = now
                 PROVE  RowWithFresh' = [RowWithFresh EXCEPT
                   ![0] = [status |-> "leased", holder |-> w, fresh |-> TRUE, attempt |-> 0]]
      OBVIOUS
    <2>1. Expiry' = now + Ttl
      BY WrittenExpiry
    <2>2. Unexpired'
      BY <2>1, <1>0 DEF Unexpired
    <2>3. row'.status = "leased" /\ row'.holder = w
      BY DEF LeasedTo
    <2> QED
      BY <2>2, <2>3, SeenRow
  <1>b. \A st \in {"pending", "completed", "failed", "waiting"} :
          row' = [Free EXCEPT !.status = st] =>
              RowWithFresh' = [RowWithFresh EXCEPT
                  ![0] = [status |-> st, holder |-> Nobody, fresh |-> FALSE, attempt |-> 0]]
    <2> SUFFICES ASSUME NEW st \in {"pending", "completed", "failed", "waiting"},
                        row' = [Free EXCEPT !.status = st]
                 PROVE  RowWithFresh' = [RowWithFresh EXCEPT
                   ![0] = [status |-> st, holder |-> Nobody, fresh |-> FALSE, attempt |-> 0]]
      OBVIOUS
    <2>1. row'.status = st /\ row'.holder = Nobody /\ st # "leased"
      BY DEF Free
    <2> QED
      BY <2>1, SeenRow
  <1>c. /\ 0 \in DOMAIN RowWithFresh /\ RowWithFresh[0].attempt = 0
        /\ RowWithFresh[0].status = row.status /\ RowWithFresh[0].holder = row.holder
        /\ RowWithFresh[0].fresh = (row.status = "leased" /\ Unexpired)
    BY DEF RowWithFresh
  <1>d. ASSUME NEW type \in {"StepCompleted", "StepFailed", "StepWaiting", "StepResumed"},
               row' = [Free EXCEPT !.status = Store!StatusAfter(type)]
        PROVE  Projection
    <2>1. Store!Projected(RowWithFresh[0], [type |-> type, attempt |-> 0])
            = [status |-> Store!StatusAfter(type), holder |-> Nobody,
               fresh |-> FALSE, attempt |-> 0]
      BY <1>c DEF Store!Projected, Store!Projects, Store!StepEvents, Store!NoRow,
                  Store!AttemptAfter
    <2>2. Store!StatusAfter(type) \in {"pending", "completed", "failed", "waiting"}
      BY DEF Store!StatusAfter
    <2>3. type \in Store!StepEvents
      BY DEF Store!StepEvents
    <2> QED
      BY <1>b, <1>c, <1>d, <2>1, <2>2, <2>3 DEF Projection
  <1>1. ASSUME NEW w \in Workers, Claim(w)
        PROVE  Store!ClaimStep(0, w)
    <2>1. Store!ClaimResult(RowWithFresh[0], w) = "Claimed"
      BY <1>1, <1>c DEF Claim, Store!ClaimResult
    <2>2. row' = LeasedTo(w) /\ now' = now
      BY <1>1 DEF Claim
    <2> QED
      BY <1>a, <1>c, <2>1, <2>2 DEF Store!ClaimStep
  <1>2. ASSUME NEW w \in Workers, Renew(w)
        PROVE  Store!RenewLease(0, w) \/ UNCHANGED RowWithFresh
    <2>1. CASE row.status = "leased" /\ row.holder = w
      <3>1. row' = LeasedTo(w) /\ now' = now
        BY <1>2, <2>1 DEF Renew, RenewLease
      <3>2. RowWithFresh' = [RowWithFresh EXCEPT
              ![0] = [status |-> "leased", holder |-> w, fresh |-> TRUE, attempt |-> 0]]
        BY <1>a, <3>1
      <3>3. RowWithFresh' = [RowWithFresh EXCEPT ![0].fresh = TRUE]
        BY <2>1, <3>2 DEF RowWithFresh
      <3> QED
        BY <1>c, <2>1, <3>3 DEF Store!RenewLease
    <2>2. CASE ~ (row.status = "leased" /\ row.holder = w)
      BY <1>2, <2>2 DEF Renew, RenewLease, RowWithFresh, Unexpired, Expiry
    <2> QED
      BY <2>1, <2>2
  <1>3. ASSUME NEW w \in Workers, Ends(w)
        PROVE  Projection \/ UNCHANGED RowWithFresh
    <2>1. CASE row' = row
      BY <1>3, <2>1 DEF Ends, RowWithFresh, Unexpired, Expiry
    <2>2. CASE row' = [Free EXCEPT !.status = "completed"]
      BY <1>d, <2>2 DEF Store!StatusAfter
    <2>3. CASE row' = [Free EXCEPT !.status = "failed"]
      BY <1>d, <2>3 DEF Store!StatusAfter
    <2>4. CASE row' = [Free EXCEPT !.status = "waiting"]
      BY <1>d, <2>4 DEF Store!StatusAfter
    <2> QED
      BY <1>3, <2>1, <2>2, <2>3, <2>4 DEF Ends
  <1>4. ASSUME row' = [Free EXCEPT !.status = "pending"]
        PROVE  Projection
    BY <1>d, <1>4 DEF Store!StatusAfter
  <1>5. CASE Pass
    <2>1. now' = now + 1 /\ row' = row /\ Expiry' = Expiry
      BY <1>5 DEF Pass, Expiry
    <2>2. Expiry \in Nat
      BY DEF Expiry, LeaseTypeOK, ClockAssumption
    <2>3. CASE (row.status = "leased" /\ Unexpired) = (row.status = "leased" /\ Unexpired')
      BY <2>1, <2>3 DEF RowWithFresh
    <2>4. CASE row.status = "leased" /\ Unexpired /\ ~ Unexpired'
      <3>1. RowWithFresh' = [RowWithFresh EXCEPT ![0].fresh = FALSE]
        BY <2>1, <2>4 DEF RowWithFresh
      <3> QED
        BY <1>c, <2>4, <3>1 DEF Store!ExpireLease
    <2>5. Unexpired' => Unexpired
      BY <1>0, <2>1, <2>2 DEF Unexpired
    <2> QED
      BY <2>3, <2>4, <2>5
  <1>6. CASE UNCHANGED <<now, row>>
    BY <1>6 DEF RowWithFresh, Unexpired, Expiry
  <1> QED
    BY <1>1, <1>2, <1>3, <1>4, <1>5, <1>6
    DEF LeaseNext, lease, Await, Look, Readmit, Reopen, Rest

\* Leases in time do nothing that leases of one bit, which StepStore and with it
\* WorkflowEngine have, do not (sqlite.rs:140-193, 255-306, 332-448).
THEOREM LeasesRefineStore == LeaseSpec => LeasesImplementStore
  <1>1. LeaseTypeOK /\ [LeaseNext]_lease =>
          [\/ \E w \in Workers : Store!ClaimStep(0, w) \/ Store!RenewLease(0, w)
           \/ Store!ExpireLease(0)
           \/ Projection]_RowWithFresh
    BY LeaseStepsMap, ClockAssumption
  <1> QED
    BY <1>1, LeaseTypeCorrect, PTL DEF LeaseSpec, LeasesImplementStore
=============================================================================
