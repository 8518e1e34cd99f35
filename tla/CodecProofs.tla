----------------------------- MODULE CodecProofs -----------------------------
(***************************************************************************)
(* Proofs about EventCodec, for every alphabet, every text, every event    *)
(* and every error of a step body: by induction on sequences, which is     *)
(* laid here on the well-foundedness of the numbers.                       *)
(***************************************************************************)
EXTENDS StoreFunctions, TLAPS, SequenceTheorems, WellFoundedInduction

(***************************************************************************)
(* Induction, as a fact about sets of numbers: it rests on < being well    *)
(* founded on Nat.                                                         *)
(***************************************************************************)

LEMMA Least ==
    ASSUME NEW T, T \subseteq Nat, T # {}
    PROVE  \E m \in T : \A k \in T : ~ (k < m)
<1>1. IsWellFoundedOn(OpToRel(<, Nat), Nat)
  BY NatLessThanWellFounded
<1>2. \E x \in T : \A y \in T : ~ (<<y, x>> \in OpToRel(<, Nat))
  BY <1>1, WFMin, Zenon
<1>3. \A x, y \in Nat : <<y, x>> \in OpToRel(<, Nat) <=> y < x
  BY DEF OpToRel
<1> QED
  BY <1>2, <1>3

LEMMA UpTo ==
    ASSUME NEW n \in Nat, NEW T, 0 \in T, \A i \in 1..n : i - 1 \in T => i \in T
    PROVE  0..n \subseteq T
<1> SUFFICES ASSUME NEW b \in 0..n, b \notin T PROVE FALSE
  OBVIOUS
<1> DEFINE R == {i \in 0..n : i \notin T}
<1>1. PICK m \in R : \A k \in R : ~ (k < m)
  <2>1. R \subseteq Nat /\ b \in R
    OBVIOUS
  <2> HIDE DEF R
  <2> QED
    BY <2>1, Least
<1>2. m \in 1..n /\ m - 1 \in 0..n /\ m - 1 < m
  BY <1>1
<1>3. m - 1 \in T
  BY <1>1, <1>2
<1> QED
  BY <1>1, <1>2, <1>3

(***************************************************************************)
(* Sequences built one element after the other: the values g[0] .. g[n],   *)
(* each made from the one before.                                          *)
(***************************************************************************)

LEMMA ChainUnique ==
    ASSUME NEW n \in Nat, NEW g, NEW h, g[0] = h[0],
           \A i \in 1..n : g[i - 1] = h[i - 1] => g[i] = h[i]
    PROVE  \A i \in 0..n : g[i] = h[i]
<1> DEFINE T == {i \in 0..n : g[i] = h[i]}
<1>1. 0..n \subseteq T
  <2>1. 0 \in T /\ \A i \in 1..n : i - 1 \in T => i \in T
    OBVIOUS
  <2> HIDE DEF T
  <2> QED
    BY <2>1, UpTo
<1> QED
  BY <1>1

LEMMA MaxOfSome ==
    ASSUME NEW n \in Nat, NEW x, x \subseteq 1..n, x # {}
    PROVE  Max(x) \in x /\ \A y \in x : Max(x) >= y
<1> DEFINE T == {n - y : y \in x}
<1>1. T \subseteq Nat /\ T # {}
  OBVIOUS
<1>2. PICK m \in T : \A k \in T : ~ (k < m)
  BY <1>1, Least
<1>3. PICK z \in x : m = n - z
  BY <1>2
<1>4. \A y \in x : n - y \in T
  OBVIOUS
<1>5. \A y \in x : z >= y
  <2>1. \A y \in x : ~ (n - y < n - z)
    BY <1>2, <1>3, <1>4
  <2> QED
    BY <2>1
<1>6. \E a \in x : \A y \in x : a >= y
  BY <1>5
<1> QED
  BY <1>6, Zenon DEF Max

LEMMA MaxOfInterval ==
    ASSUME NEW n \in Nat, NEW i \in 1..n
    PROVE  Max(1..i) = i /\ (1..i) \ {Max(1..i)} = 1..(i - 1) /\ 1..i # {}
<1>1. 1..i \subseteq 1..n /\ 1..i # {}
  OBVIOUS
<1>2. Max(1..i) = i
  <2> DEFINE m == Max(1..i)
  <2>1. m \in 1..i /\ \A y \in 1..i : m >= y
    BY <1>1, MaxOfSome
  <2>2. m >= i
    BY <2>1
  <2> HIDE DEF m
  <2>3. m = i
    BY <2>1, <2>2
  <2> QED
    BY <2>3 DEF m
<1> QED
  BY <1>1, <1>2

Folded(F, n, base, Step) ==
    \A x \in SUBSET (1..n) :
        F[x] = IF x = {} THEN base ELSE Step[<<F[x \ {Max(x)}], Max(x)>>]

\* The recursion of MapThenFoldSet, over all sets of positions, has a solution.
LEMMA FoldExists ==
    ASSUME NEW n \in Nat, NEW Acc, NEW base \in Acc, NEW Step \in [Acc \X (1..n) -> Acc]
    PROVE  \E F \in [SUBSET (1..n) -> Acc] : Folded(F, n, base, Step)
<1> USE DEF Folded
<1> DEFINE Solves(F, k) == Folded(F, k, base, Step)
           T == {k \in 0..n : \E F \in [SUBSET (1..k) -> Acc] : Solves(F, k)}
<1>1. 0 \in T
  <2> DEFINE F == [x \in SUBSET (1..0) |-> base]
  <2>1. F \in [SUBSET (1..0) -> Acc]
    OBVIOUS
  <2>2. \A x \in SUBSET (1..0) : x = {} /\ F[x] = base
    OBVIOUS
  <2>3. Solves(F, 0)
    BY <2>2
  <2>4. \E H \in [SUBSET (1..0) -> Acc] : Solves(H, 0)
    <3> HIDE DEF F, Solves
    <3> QED
      BY <2>1, <2>3
  <2>5. 0 \in 0..n
    OBVIOUS
  <2> HIDE DEF Solves
  <2> QED
    BY <2>4, <2>5, Zenon
<1>2. ASSUME NEW k \in 1..n, k - 1 \in T PROVE k \in T
  <2>1. PICK F \in [SUBSET (1..(k - 1)) -> Acc] : Solves(F, k - 1)
    BY <1>2
  <2> DEFINE G == [x \in SUBSET (1..k) |-> IF k \in x THEN Step[<<F[x \ {k}], k>>] ELSE F[x]]
  <2>2. \A x \in SUBSET (1..k) : /\ k \in x => x \ {k} \in SUBSET (1..(k - 1))
                                 /\ k \notin x => x \in SUBSET (1..(k - 1))
    OBVIOUS
  <2>3. G \in [SUBSET (1..k) -> Acc]
    BY <2>1, <2>2
  <2>4. ASSUME NEW x \in SUBSET (1..k)
        PROVE  G[x] = IF x = {} THEN base ELSE Step[<<G[x \ {Max(x)}], Max(x)>>]
    <3>0. x # {} => Max(x) \in x /\ \A y \in x : Max(x) >= y
      <4>1. x \subseteq 1..k /\ k \in Nat
        OBVIOUS
      <4> QED
        BY <4>1, MaxOfSome
    <3>1. CASE x = {}
      BY <2>1, <3>1
    <3>2. CASE x # {} /\ k \in x
      <4>1. Max(x) = k
        <5>1. Max(x) \in 1..k /\ Max(x) >= k
          BY <3>0, <3>2
        <5> QED
          BY <5>1
      <4>2. k \notin x \ {k} /\ x \ {k} \in SUBSET (1..k)
        OBVIOUS
      <4>3. G[x \ {k}] = F[x \ {k}]
        BY <4>2
      <4> QED
        BY <3>2, <4>1, <4>3
    <3>3. CASE x # {} /\ k \notin x
      <4>1. x \in SUBSET (1..(k - 1))
        BY <2>2, <3>3
      <4> DEFINE y == x \ {Max(x)}
      <4>3. y \in SUBSET (1..(k - 1)) /\ y \in SUBSET (1..k) /\ k \notin y
        BY <3>3, <4>1
      <4>4. G[x] = F[x] /\ G[x \ {Max(x)}] = F[x \ {Max(x)}]
        BY <3>3, <4>3
      <4> QED
        BY <2>1, <3>3, <4>1, <4>4
    <3> QED
      BY <3>1, <3>2, <3>3
  <2>5. Solves(G, k)
    BY <2>4
  <2> HIDE DEF G, Solves
  <2> QED
    BY <2>3, <2>5
<1>3. 0..n \subseteq T
  <2> HIDE DEF T
  <2> QED
    BY <1>1, <1>2, UpTo
<1> QED
  BY <1>3, n \in 0..n

(***************************************************************************)
(* Splitting                                                               *)
(***************************************************************************)

LEMMA SplitNextType ==
    ASSUME NEW lines \in Seq(Text) \ {<<>>}, NEW c \in Symbols
    PROVE  SplitNext(lines, c) \in Seq(Text) \ {<<>>}
  BY DEF SplitNext, Text

LEMMA SplitChain ==
    ASSUME NEW s \in Text
    PROVE  \E g : /\ g[0] = << <<>> >>
                  /\ \A i \in 1..Len(s) : g[i] = SplitNext(g[i - 1], s[i])
                  /\ Split(s) = g[Len(s)]
<1> DEFINE n == Len(s)
           Acc == Seq(Text) \ {<<>>}
           base == << <<>> >>
           Step == [p \in Acc \X (1..n) |-> SplitNext(p[1], s[p[2]])]
<1>1. n \in Nat /\ DOMAIN s = 1..n /\ \A i \in 1..n : s[i] \in Symbols
  BY DEF Text
<1>2. base \in Acc
  BY DEF Text
<1>3. Step \in [Acc \X (1..n) -> Acc]
  <2>1. ASSUME NEW p \in Acc \X (1..n) PROVE SplitNext(p[1], s[p[2]]) \in Acc
    <3>1. p[1] \in Acc /\ s[p[2]] \in Symbols
      BY <1>1
    <3> QED
      BY <3>1, SplitNextType
  <2> QED
    BY <2>1
<1>4. PICK F \in [SUBSET (1..n) -> Acc] : Folded(F, n, base, Step)
  <2> HIDE DEF Acc, base, Step, n
  <2> QED
    BY <1>1, <1>2, <1>3, FoldExists
<1>5. ASSUME NEW x \in SUBSET (1..n), x # {}
      PROVE  Step[<<F[x \ {Max(x)}], Max(x)>>] = SplitNext(F[x \ {Max(x)}], s[Max(x)])
  <2>1. Max(x) \in 1..n
    BY <1>1, <1>5, MaxOfSome
  <2>2. F[x \ {Max(x)}] \in Acc
    BY <1>4
  <2> HIDE DEF Acc, n
  <2> QED
    BY <2>1, <2>2
<1> HIDE DEF Step
<1>6. F = [x \in SUBSET (DOMAIN s) |->
             IF x = {} THEN << <<>> >> ELSE SplitNext(F[x \ {Max(x)}], s[Max(x)])]
  <2>1. \A x \in SUBSET (DOMAIN s) :
          F[x] = IF x = {} THEN << <<>> >> ELSE SplitNext(F[x \ {Max(x)}], s[Max(x)])
    BY <1>1, <1>4, <1>5 DEF Folded
  <2> QED
    BY <1>1, <1>4, <2>1
<1>7. PICK G : /\ G = [x \in SUBSET (DOMAIN s) |->
                         IF x = {} THEN << <<>> >> ELSE SplitNext(G[x \ {Max(x)}], s[Max(x)])]
               /\ Split(s) = G[DOMAIN s]
  BY <1>6, Zenon DEF Split, FoldLeft, MapThenFoldSet
<1> DEFINE g == [i \in 0..n |-> G[1..i]]
<1>8. G[{}] = base /\ 1..0 = {}
  BY <1>1, <1>7
<1>9. ASSUME NEW i \in 1..n PROVE G[1..i] = SplitNext(G[1..(i - 1)], s[i])
  <2>1. 1..i \in SUBSET (DOMAIN s)
    BY <1>1
  <2>2. Max(1..i) = i /\ (1..i) \ {Max(1..i)} = 1..(i - 1) /\ 1..i # {}
    BY <1>1, MaxOfInterval
  <2> QED
    BY <1>7, <2>1, <2>2
<1>10. g[0] = base /\ \A i \in 1..n : g[i] = SplitNext(g[i - 1], s[i])
  BY <1>1, <1>8, <1>9
<1>11. Split(s) = g[n]
  BY <1>1, <1>7
<1> QED
  BY <1>10, <1>11

(***************************************************************************)
(* Unescaping                                                              *)
(***************************************************************************)

Unread == [out |-> <<>>, escaped |-> FALSE]

Unescaping(s) == FoldLeft(UnescapeNext, Unread, s)

\* One step, case by case.
LEMMA UnescapeStep ==
    ASSUME NEW out, NEW c \in Symbols
    PROVE  /\ c = "bs" => UnescapeNext([out |-> out, escaped |-> FALSE], c)
                             = [out |-> out, escaped |-> TRUE]
           /\ c # "bs" => UnescapeNext([out |-> out, escaped |-> FALSE], c)
                             = [out |-> Append(out, c), escaped |-> FALSE]
           /\ c = "n" => UnescapeNext([out |-> out, escaped |-> TRUE], c)
                             = [out |-> Append(out, "nl"), escaped |-> FALSE]
           /\ c = "bs" => UnescapeNext([out |-> out, escaped |-> TRUE], c)
                             = [out |-> Append(out, "bs"), escaped |-> FALSE]
           /\ c \notin {"n", "bs"} => UnescapeNext([out |-> out, escaped |-> TRUE], c)
                             = [out |-> out \o <<"bs", c>>, escaped |-> FALSE]
  BY DEF UnescapeNext

LEMMA UnescapeNextType ==
    ASSUME NEW st \in [out : Text, escaped : BOOLEAN], NEW c \in Symbols
    PROVE  UnescapeNext(st, c) \in [out : Text, escaped : BOOLEAN]
<1>1. PICK out \in Text, e \in BOOLEAN : st = [out |-> out, escaped |-> e]
  OBVIOUS
<1>2. /\ Append(out, c) \in Text /\ out \o <<"bs", c>> \in Text
      /\ Append(out, "nl") \in Text /\ Append(out, "bs") \in Text
  <2>1. {"bs", "nl"} \subseteq Symbols
    BY CodecAssumption
  <2> QED
    BY <2>1 DEF Text
<1>3. ASSUME NEW o \in Text, NEW f \in BOOLEAN
      PROVE  [out |-> o, escaped |-> f] \in [out : Text, escaped : BOOLEAN]
  OBVIOUS
<1>4. CASE e = TRUE
  <2>1. UnescapeNext(st, c) \in {[out |-> Append(out, "nl"), escaped |-> FALSE],
                                 [out |-> Append(out, "bs"), escaped |-> FALSE],
                                 [out |-> out \o <<"bs", c>>, escaped |-> FALSE]}
    BY <1>1, <1>4, UnescapeStep, Zenon
  <2> QED
    BY <1>2, <1>3, <2>1
<1>5. CASE e = FALSE
  <2>1. UnescapeNext(st, c) \in {[out |-> out, escaped |-> TRUE],
                                 [out |-> Append(out, c), escaped |-> FALSE]}
    BY <1>1, <1>5, UnescapeStep, Zenon
  <2> QED
    BY <1>2, <1>3, <2>1
<1> QED
  BY <1>1, <1>4, <1>5

LEMMA UnescapeChain ==
    ASSUME NEW s \in Text
    PROVE  \E g : /\ g[0] = Unread
                  /\ \A i \in 1..Len(s) : g[i] = UnescapeNext(g[i - 1], s[i])
                  /\ Unescaping(s) = g[Len(s)]
<1> DEFINE n == Len(s)
           Acc == [out : Text, escaped : BOOLEAN]
           Step == [p \in Acc \X (1..n) |-> UnescapeNext(p[1], s[p[2]])]
<1>1. n \in Nat /\ DOMAIN s = 1..n /\ \A i \in 1..n : s[i] \in Symbols
  BY DEF Text
<1>2. Unread \in Acc
  BY DEF Text, Unread
<1>3. Step \in [Acc \X (1..n) -> Acc]
  <2>1. ASSUME NEW p \in Acc \X (1..n) PROVE UnescapeNext(p[1], s[p[2]]) \in Acc
    <3>1. p[1] \in Acc /\ s[p[2]] \in Symbols
      BY <1>1
    <3> QED
      BY <3>1, UnescapeNextType
  <2> QED
    BY <2>1
<1>4. PICK F \in [SUBSET (1..n) -> Acc] : Folded(F, n, Unread, Step)
  <2> HIDE DEF Acc, Step, n
  <2> QED
    BY <1>1, <1>2, <1>3, FoldExists
<1>5. ASSUME NEW x \in SUBSET (1..n), x # {}
      PROVE  Step[<<F[x \ {Max(x)}], Max(x)>>] = UnescapeNext(F[x \ {Max(x)}], s[Max(x)])
  <2>1. Max(x) \in 1..n
    BY <1>1, <1>5, MaxOfSome
  <2>2. F[x \ {Max(x)}] \in Acc
    BY <1>4
  <2> HIDE DEF Acc, n
  <2> QED
    BY <2>1, <2>2
<1> HIDE DEF Step
<1>6. F = [x \in SUBSET (DOMAIN s) |->
             IF x = {} THEN Unread ELSE UnescapeNext(F[x \ {Max(x)}], s[Max(x)])]
  <2>1. \A x \in SUBSET (DOMAIN s) :
          F[x] = IF x = {} THEN Unread ELSE UnescapeNext(F[x \ {Max(x)}], s[Max(x)])
    BY <1>1, <1>4, <1>5 DEF Folded
  <2> QED
    BY <1>1, <1>4, <2>1
<1>7. PICK G : /\ G = [x \in SUBSET (DOMAIN s) |->
                         IF x = {} THEN Unread ELSE UnescapeNext(G[x \ {Max(x)}], s[Max(x)])]
               /\ Unescaping(s) = G[DOMAIN s]
  BY <1>6, Zenon DEF Unescaping, FoldLeft, MapThenFoldSet
<1> DEFINE g == [i \in 0..n |-> G[1..i]]
<1>8. G[{}] = Unread /\ 1..0 = {}
  BY <1>1, <1>7
<1>9. ASSUME NEW i \in 1..n PROVE G[1..i] = UnescapeNext(G[1..(i - 1)], s[i])
  <2>1. 1..i \in SUBSET (DOMAIN s)
    BY <1>1
  <2>2. Max(1..i) = i /\ (1..i) \ {Max(1..i)} = 1..(i - 1) /\ 1..i # {}
    BY <1>1, MaxOfInterval
  <2> QED
    BY <1>7, <2>1, <2>2
<1>10. g[0] = Unread /\ \A i \in 1..n : g[i] = UnescapeNext(g[i - 1], s[i])
  BY <1>1, <1>8, <1>9
<1>11. Unescaping(s) = g[n]
  BY <1>1, <1>7
<1> QED
  BY <1>10, <1>11

\* Each symbol more of a text is one step more.
LEMMA UnescapingAppend ==
    /\ Unescaping(<<>>) = Unread
    /\ \A s \in Text, c \in Symbols :
          Unescaping(Append(s, c)) = UnescapeNext(Unescaping(s), c)
<1>1. Unescaping(<<>>) = Unread
  <2>1. <<>> \in Text /\ Len(<<>>) = 0
    BY DEF Text
  <2> QED
    BY <2>1, UnescapeChain
<1>2. ASSUME NEW s \in Text, NEW c \in Symbols
      PROVE  Unescaping(Append(s, c)) = UnescapeNext(Unescaping(s), c)
  <2> DEFINE n == Len(s)
             t == Append(s, c)
  <2>1. n \in Nat /\ t \in Text /\ Len(t) = n + 1 /\ t[n + 1] = c /\ \A i \in 1..n : t[i] = s[i]
    BY DEF Text
  <2>2. PICK g : /\ g[0] = Unread /\ Unescaping(s) = g[n]
                 /\ \A i \in 1..n : g[i] = UnescapeNext(g[i - 1], s[i])
    BY UnescapeChain
  <2>3. PICK h : /\ h[0] = Unread /\ Unescaping(t) = h[n + 1]
                 /\ \A i \in 1..(n + 1) : h[i] = UnescapeNext(h[i - 1], t[i])
    BY <2>1, UnescapeChain
  <2> HIDE DEF n, t
  <2>4. \A i \in 0..n : g[i] = h[i]
    <3>1. \A i \in 1..n : i \in 1..(n + 1)
      BY <2>1
    <3>2. \A i \in 1..n : g[i - 1] = h[i - 1] => g[i] = h[i]
      BY <2>1, <2>2, <2>3, <3>1
    <3>3. g[0] = h[0]
      BY <2>2, <2>3
    <3>4. n \in Nat
      BY <2>1
    <3> QED
      BY <3>2, <3>3, <3>4, ChainUnique
  <2>5. h[n + 1] = UnescapeNext(h[n], t[n + 1])
    BY <2>1, <2>3
  <2>6. g[n] = h[n]
    BY <2>1, <2>4
  <2> QED
    BY <2>1, <2>2, <2>3, <2>5, <2>6 DEF t
<1> QED
  BY <1>1, <1>2

(***************************************************************************)
(* Concatenation of many                                                   *)
(***************************************************************************)

LEMMA FlattenExists ==
    ASSUME NEW ss \in Seq(Text)
    PROVE  \E f : f = [i \in 1..Len(ss) |-> IF i = 1 THEN ss[i] ELSE f[i - 1] \o ss[i]]
<1> DEFINE n == Len(ss)
           Solves(f, k) ==
             \A i \in 1..k : f[i] = IF i = 1 THEN ss[i] ELSE f[i - 1] \o ss[i]
           T == {k \in 0..n : \E f \in [1..k -> Text] : Solves(f, k)}
<1>1. n \in Nat /\ \A i \in 1..n : ss[i] \in Text
  OBVIOUS
<1> HIDE DEF n
<1>2. 0 \in T
  <2> DEFINE f == [i \in 1..0 |-> <<>>]
  <2>1. f \in [1..0 -> Text] /\ Solves(f, 0)
    OBVIOUS
  <2>2. \E d \in [1..0 -> Text] : Solves(d, 0)
    <3> HIDE DEF f, Solves
    <3> QED
      BY <2>1
  <2>3. 0 \in 0..n
    BY <1>1
  <2> HIDE DEF Solves
  <2> QED
    BY <2>2, <2>3, Zenon
<1>3. ASSUME NEW k \in 1..n, k - 1 \in T PROVE k \in T
  <2>1. PICK f \in [1..(k - 1) -> Text] : Solves(f, k - 1)
    BY <1>3
  <2> DEFINE last == IF k = 1 THEN ss[k] ELSE f[k - 1] \o ss[k]
             e == [i \in 1..k |-> IF i = k THEN last ELSE f[i]]
  <2>2. last \in Text
    <3>1. ss[k] \in Text /\ (k # 1 => f[k - 1] \in Text)
      BY <1>1, <2>1
    <3> QED
      BY <3>1 DEF Text
  <2>3. e \in [1..k -> Text]
    <3> HIDE DEF last
    <3> QED
      BY <2>1, <2>2
  <2>4. ASSUME NEW i \in 1..k PROVE e[i] = IF i = 1 THEN ss[i] ELSE e[i - 1] \o ss[i]
    <3>1. i # 1 => e[i - 1] = f[i - 1]
      OBVIOUS
    <3>2. i # k => i \in 1..(k - 1)
      OBVIOUS
    <3> QED
      BY <2>1, <3>1, <3>2
  <2>5. Solves(e, k)
    BY <2>4
  <2>6. \E d \in [1..k -> Text] : Solves(d, k)
    <3> HIDE DEF e, Solves
    <3> QED
      BY <2>3, <2>5
  <2> HIDE DEF Solves
  <2> QED
    BY <2>6
<1>4. 0..n \subseteq T
  <2> HIDE DEF T
  <2> QED
    BY <1>1, <1>2, <1>3, UpTo
<1>5. PICK f \in [1..n -> Text] : Solves(f, n)
  <2>1. n \in T
    <3>1. n \in 0..n
      BY <1>1
    <3> HIDE DEF T
    <3> QED
      BY <1>4, <3>1
  <2> HIDE DEF Solves
  <2> QED
    BY <2>1, Zenon
<1>6. f = [i \in 1..n |-> IF i = 1 THEN ss[i] ELSE f[i - 1] \o ss[i]]
  BY <1>5
<1> QED
  BY <1>6 DEF n

LEMMA FlattenChain ==
    ASSUME NEW ss \in Seq(Text)
    PROVE  \E g : /\ g[0] = <<>>
                  /\ \A i \in 1..Len(ss) : g[i] \in Text /\ g[i] = g[i - 1] \o ss[i]
                  /\ FlattenSeq(ss) = g[Len(ss)]
<1> DEFINE n == Len(ss)
<1>1. n \in Nat /\ \A i \in 1..n : ss[i] \in Text
  OBVIOUS
<1>2. CASE n = 0
  <2>1. FlattenSeq(ss) = <<>>
    BY <1>2 DEF FlattenSeq
  <2> DEFINE g == [i \in 0..0 |-> <<>>]
  <2>2. g[0] = <<>> /\ n = 0
    BY <1>2
  <2> HIDE DEF g
  <2> QED
    BY <2>1, <2>2
<1>3. CASE n # 0
  <2>1. PICK f : /\ f = [i \in 1..n |-> IF i = 1 THEN ss[i] ELSE f[i - 1] \o ss[i]]
                 /\ FlattenSeq(ss) = f[n]
    BY <1>3, FlattenExists, Zenon DEF FlattenSeq
  <2>2. \A i \in 1..n : f[i] = IF i = 1 THEN ss[i] ELSE f[i - 1] \o ss[i]
    BY <2>1
  <2> HIDE DEF n
  <2> DEFINE T == {i \in 0..n : i = 0 \/ f[i] \in Text}
  <2>3. 0..n \subseteq T
    <3>1. 0 \in T
      BY <1>1
    <3>2. ASSUME NEW i \in 1..n, i - 1 \in T PROVE i \in T
      <4>1. f[i] = IF i = 1 THEN ss[i] ELSE f[i - 1] \o ss[i]
        BY <2>2
      <4>2. ss[i] \in Text /\ (i # 1 => f[i - 1] \in Text)
        BY <1>1, <3>2
      <4>3. f[i] \in Text
        BY <4>1, <4>2 DEF Text
      <4> QED
        BY <4>3
    <3> HIDE DEF T
    <3> QED
      BY <1>1, <3>1, <3>2, UpTo
  <2> DEFINE g == [i \in 0..n |-> IF i = 0 THEN <<>> ELSE f[i]]
  <2>4. g[0] = <<>> /\ g[n] = f[n]
    BY <1>1, <1>3
  <2>5. ASSUME NEW i \in 1..n PROVE g[i] \in Text /\ g[i] = g[i - 1] \o ss[i]
    <3>1. g[i] = f[i] /\ g[i - 1] = (IF i = 1 THEN <<>> ELSE f[i - 1]) /\ f[i] \in Text
      BY <1>1, <2>3
    <3>2. <<>> \o ss[i] = ss[i]
      BY <1>1 DEF Text
    <3> HIDE DEF g
    <3> QED
      BY <2>2, <3>1, <3>2
  <2> HIDE DEF g
  <2> QED
    BY <2>1, <2>4, <2>5 DEF n
<1> QED
  BY <1>2, <1>3

LEMMA FlattenAppend ==
    /\ FlattenSeq(<<>>) = <<>>
    /\ \A ss \in Seq(Text), t \in Text :
          /\ FlattenSeq(ss) \in Text
          /\ FlattenSeq(Append(ss, t)) = FlattenSeq(ss) \o t
<1>1. FlattenSeq(<<>>) = <<>>
  BY DEF FlattenSeq
<1>2. ASSUME NEW ss \in Seq(Text), NEW t \in Text
      PROVE  /\ FlattenSeq(ss) \in Text
             /\ FlattenSeq(Append(ss, t)) = FlattenSeq(ss) \o t
  <2> DEFINE n == Len(ss)
             tt == Append(ss, t)
  <2>1. n \in Nat /\ tt \in Seq(Text) /\ Len(tt) = n + 1 /\ tt[n + 1] = t
        /\ \A i \in 1..n : tt[i] = ss[i]
    OBVIOUS
  <2>2. PICK g : /\ g[0] = <<>> /\ FlattenSeq(ss) = g[n]
                 /\ \A i \in 1..n : g[i] \in Text /\ g[i] = g[i - 1] \o ss[i]
    BY FlattenChain
  <2>3. PICK h : /\ h[0] = <<>> /\ FlattenSeq(tt) = h[n + 1]
                 /\ \A i \in 1..(n + 1) : h[i] \in Text /\ h[i] = h[i - 1] \o tt[i]
    BY <2>1, FlattenChain
  <2> HIDE DEF n, tt
  <2>4. \A i \in 0..n : g[i] = h[i]
    <3>1. \A i \in 1..n : i \in 1..(n + 1)
      BY <2>1
    <3>2. \A i \in 1..n : g[i - 1] = h[i - 1] => g[i] = h[i]
      BY <2>1, <2>2, <2>3, <3>1
    <3>3. g[0] = h[0]
      BY <2>2, <2>3
    <3>4. n \in Nat
      BY <2>1
    <3> QED
      BY <3>2, <3>3, <3>4, ChainUnique
  <2>5. h[n + 1] = h[n] \o tt[n + 1]
    <3>1. n + 1 \in 1..(n + 1) /\ (n + 1) - 1 = n
      BY <2>1
    <3>2. h[n + 1] = h[(n + 1) - 1] \o tt[n + 1]
      BY <2>3, <3>1
    <3> QED
      BY <3>1, <3>2
  <2>6. g[n] = h[n]
    BY <2>1, <2>4
  <2>7. g[n] \in Text
    <3>1. <<>> \in Text
      BY DEF Text
    <3>2. n = 0 \/ n \in 1..n
      BY <2>1
    <3> QED
      BY <2>2, <3>1, <3>2
  <2> QED
    BY <2>1, <2>2, <2>3, <2>5, <2>6, <2>7 DEF tt
<1> QED
  BY <1>1, <1>2

LEMMA IsSequence ==
    ASSUME NEW S, NEW m \in Nat, NEW a, a = [i \in 1..m |-> a[i]], \A i \in 1..m : a[i] \in S
    PROVE  a \in Seq(S) /\ Len(a) = m /\ DOMAIN a = 1..m
<1>1. a \in [1..m -> S]
  OBVIOUS
<1> QED
  BY <1>1

\* Sequences are all reached from the empty one by Append.
LEMMA ByAppend ==
    ASSUME NEW S, NEW T, <<>> \in T,
           \A s \in Seq(S), c \in S : s \in T => Append(s, c) \in T
    PROVE  Seq(S) \subseteq T
<1> SUFFICES ASSUME NEW s \in Seq(S) PROVE s \in T
  OBVIOUS
<1> DEFINE n == Len(s)
           Prefix1(i) == [j \in 1..i |-> s[j]]
           R == {i \in 0..n : Prefix1(i) \in T}
<1>1. n \in Nat /\ \A i \in 1..n : s[i] \in S
  OBVIOUS
<1>2. Prefix1(n) = s
  OBVIOUS
<1> HIDE DEF n
<1>3. 0 \in R
  <2>1. Prefix1(0) = <<>>
    OBVIOUS
  <2> QED
    BY <1>1, <2>1
<1>4. ASSUME NEW i \in 1..n, i - 1 \in R PROVE i \in R
  <2>1. i \in Nat /\ i - 1 \in Nat /\ s[i] \in S /\ \A j \in 1..(i - 1) : s[j] \in S
    BY <1>1
  <2>2. Prefix1(i - 1) \in Seq(S) /\ Len(Prefix1(i - 1)) = i - 1
    BY <2>1
  <2>3. Prefix1(i) = Append(Prefix1(i - 1), s[i])
    BY <2>1, <2>2
  <2>4. Prefix1(i - 1) \in T
    BY <1>4
  <2>5. i \in 0..n
    BY <1>1
  <2> HIDE DEF Prefix1
  <2>6. Prefix1(i) \in T
    BY <2>1, <2>2, <2>3, <2>4
  <2> QED
    BY <2>5, <2>6
<1>5. 0..n \subseteq R
  <2> HIDE DEF R
  <2> QED
    BY <1>1, <1>3, <1>4, UpTo
<1>6. n \in 0..n
  BY <1>1
<1>7. n \in R
  <2> HIDE DEF R
  <2> QED
    BY <1>5, <1>6
<1> HIDE DEF Prefix1
<1> QED
  BY <1>2, <1>7

(***************************************************************************)
(* Escaping                                                                *)
(***************************************************************************)

LEMMA ReplacedAppend ==
    ASSUME NEW symbol \in Symbols, NEW by \in Text
    PROVE  /\ Replaced(<<>>, symbol, by) = <<>>
           /\ \A s \in Text, c \in Symbols :
                 /\ Replaced(s, symbol, by) \in Text
                 /\ Replaced(Append(s, c), symbol, by)
                      = Replaced(s, symbol, by) \o (IF c = symbol THEN by ELSE <<c>>)
<1> DEFINE One(c) == IF c = symbol THEN by ELSE <<c>>
           Each(s) == [i \in DOMAIN s |-> IF s[i] = symbol THEN by ELSE <<s[i]>>]
<1>1. Each(<<>>) = <<>>
  OBVIOUS
<1>2. ASSUME NEW s \in Text, NEW c \in Symbols
      PROVE  Each(s) \in Seq(Text) /\ One(c) \in Text /\ Each(Append(s, c)) = Append(Each(s), One(c))
  <2>1. \A d \in Symbols : One(d) \in Text
    BY DEF Text
  <2>2. Each(s) = [i \in 1..Len(s) |-> One(s[i])] /\ \A i \in 1..Len(s) : s[i] \in Symbols
    BY DEF Text
  <2>3. Each(s) \in Seq(Text) /\ Len(Each(s)) = Len(s)
    <3> HIDE DEF One
    <3> QED
      BY <2>1, <2>2 DEF Text
  <2>4. Each(Append(s, c)) = [i \in 1..(Len(s) + 1) |-> One(Append(s, c)[i])]
    BY DEF Text
  <2>5. Each(Append(s, c)) = Append(Each(s), One(c))
    <3> DEFINE a == Each(Append(s, c))
               b == Append(Each(s), One(c))
    <3>1. Append(s, c) \in Text /\ Len(Append(s, c)) = Len(s) + 1
      BY DEF Text
    <3>2. ASSUME NEW i \in 1..(Len(s) + 1) PROVE a[i] = b[i] /\ a[i] \in Text
      <4>1. CASE i = Len(s) + 1
        <5>1. Append(s, c)[i] = c
          BY <4>1 DEF Text
        <5>2. b[i] = One(c)
          <6> HIDE DEF Each, One
          <6> QED
            BY <2>3, <4>1
        <5> HIDE DEF One
        <5> QED
          BY <2>1, <2>4, <5>1, <5>2
      <4>2. CASE i \in 1..Len(s)
        <5>1. Append(s, c)[i] = s[i]
          BY <4>2 DEF Text
        <5>2. b[i] = Each(s)[i]
          <6> HIDE DEF Each, One
          <6> QED
            BY <2>3, <4>2
        <5> HIDE DEF One
        <5> QED
          BY <2>1, <2>2, <2>4, <4>2, <5>1, <5>2
      <4>3. Len(s) \in Nat
        BY DEF Text
      <4> QED
        BY <4>1, <4>2, <4>3
    <3>3. Len(s) \in Nat /\ DOMAIN a = 1..(Len(s) + 1)
      BY <2>4 DEF Text
    <3>4. a = [i \in 1..(Len(s) + 1) |-> a[i]]
      BY <2>4
    <3>5. a \in Seq(Text) /\ Len(a) = Len(s) + 1
      <4>1. Len(s) + 1 \in Nat
        BY <3>3
      <4> HIDE DEF a
      <4> QED
        BY <3>2, <3>4, <4>1, IsSequence
    <3>6. b \in Seq(Text) /\ Len(b) = Len(s) + 1
      <4> HIDE DEF Each, One
      <4> QED
        BY <2>1, <2>3
    <3> HIDE DEF a, b
    <3>7. a = b
      BY <3>2, <3>5, <3>6, SeqEqual
    <3> QED
      BY <3>7 DEF a, b
  <2> QED
    BY <2>1, <2>3, <2>5
<1>3. \A s : Replaced(s, symbol, by) = FlattenSeq(Each(s))
  BY DEF Replaced
<1> HIDE DEF Each
<1>4. Replaced(<<>>, symbol, by) = <<>>
  BY <1>1, <1>3, FlattenAppend
<1>5. ASSUME NEW s \in Text, NEW c \in Symbols
      PROVE  /\ Replaced(s, symbol, by) \in Text
             /\ Replaced(Append(s, c), symbol, by) = Replaced(s, symbol, by) \o One(c)
  <2>1. Each(s) \in Seq(Text) /\ One(c) \in Text /\ Each(Append(s, c)) = Append(Each(s), One(c))
    BY <1>2
  <2> HIDE DEF One
  <2>2. /\ FlattenSeq(Each(s)) \in Text
        /\ FlattenSeq(Append(Each(s), One(c))) = FlattenSeq(Each(s)) \o One(c)
    BY <2>1, FlattenAppend
  <2> QED
    BY <1>3, <2>1, <2>2
<1> QED
  BY <1>4, <1>5

LEMMA AppendOneOrTwo ==
    ASSUME NEW S, NEW s \in Seq(S), NEW a \in S, NEW b \in S
    PROVE  s \o <<a>> = Append(s, a) /\ s \o <<a, b>> = Append(Append(s, a), b)
  OBVIOUS

LEMMA EscapeAppend ==
    /\ Escape(<<>>) = <<>>
    /\ \A s \in Text, c \in Symbols :
          /\ Escape(s) \in Text
          /\ c = "bs" => Escape(Append(s, c)) = Append(Append(Escape(s), "bs"), "bs")
          /\ c = "nl" => Escape(Append(s, c)) = Append(Append(Escape(s), "bs"), "n")
          /\ c \notin {"bs", "nl"} => Escape(Append(s, c)) = Append(Escape(s), c)
<1> DEFINE bb == <<"bs", "bs">>
           bn == <<"bs", "n">>
           R1(s) == Replaced(s, "bs", bb)
           R2(s) == Replaced(s, "nl", bn)
<1>1. {"bs", "nl", "n"} \subseteq Symbols
  BY CodecAssumption
<1>2. bb \in Text /\ bn \in Text
  BY <1>1 DEF Text
<1>3. /\ R1(<<>>) = <<>>
      /\ \A s \in Text, c \in Symbols :
            /\ R1(s) \in Text
            /\ R1(Append(s, c)) = R1(s) \o (IF c = "bs" THEN bb ELSE <<c>>)
  <2> HIDE DEF bb
  <2> QED
    BY <1>1, <1>2, ReplacedAppend
<1>4. /\ R2(<<>>) = <<>>
      /\ \A s \in Text, c \in Symbols :
            /\ R2(s) \in Text
            /\ R2(Append(s, c)) = R2(s) \o (IF c = "nl" THEN bn ELSE <<c>>)
  <2> HIDE DEF bn
  <2> QED
    BY <1>1, <1>2, ReplacedAppend
<1>5. \A s : Escape(s) = R2(R1(s))
  BY DEF Escape
<1> HIDE DEF R1, R2
<1>6. ASSUME NEW s \in Text, NEW c \in Symbols
      PROVE  /\ c = "bs" => R1(Append(s, c)) = Append(Append(R1(s), "bs"), "bs")
             /\ c # "bs" => R1(Append(s, c)) = Append(R1(s), c)
  <2>1. R1(s) \in Seq(Symbols)
    BY <1>3 DEF Text
  <2>2. R1(s) \o <<c>> = Append(R1(s), c) /\ R1(s) \o bb = Append(Append(R1(s), "bs"), "bs")
    BY <1>1, <2>1, AppendOneOrTwo
  <2> HIDE DEF bb
  <2> QED
    BY <1>3, <2>2
<1>7. ASSUME NEW s \in Text, NEW c \in Symbols
      PROVE  /\ c = "nl" => R2(Append(s, c)) = Append(Append(R2(s), "bs"), "n")
             /\ c # "nl" => R2(Append(s, c)) = Append(R2(s), c)
  <2>1. R2(s) \in Seq(Symbols)
    BY <1>4 DEF Text
  <2>2. R2(s) \o <<c>> = Append(R2(s), c) /\ R2(s) \o bn = Append(Append(R2(s), "bs"), "n")
    BY <1>1, <2>1, AppendOneOrTwo
  <2> HIDE DEF bn
  <2> QED
    BY <1>4, <2>2
<1>8. Escape(<<>>) = <<>>
  BY <1>3, <1>4, <1>5
<1>9. ASSUME NEW s \in Text, NEW c \in Symbols
      PROVE  /\ Escape(s) \in Text
             /\ c = "bs" => Escape(Append(s, c)) = Append(Append(Escape(s), "bs"), "bs")
             /\ c = "nl" => Escape(Append(s, c)) = Append(Append(Escape(s), "bs"), "n")
             /\ c \notin {"bs", "nl"} => Escape(Append(s, c)) = Append(Escape(s), c)
  <2>1. R1(s) \in Text /\ R2(R1(s)) \in Text
    BY <1>3, <1>4
  <2>2. CASE c = "bs"
    <3>1. Append(R1(s), "bs") \in Text
      BY <1>1, <2>1 DEF Text
    <3>2. R2(Append(Append(R1(s), "bs"), "bs")) = Append(Append(R2(R1(s)), "bs"), "bs")
      BY <1>1, <1>7, <2>1, <3>1
    <3> QED
      BY <1>5, <1>6, <2>1, <2>2, <3>2
  <2>3. CASE c # "bs"
    BY <1>5, <1>6, <1>7, <2>1, <2>3
  <2> QED
    BY <2>2, <2>3
<1> QED
  BY <1>8, <1>9

\* The line of a field has no line break.
Plain == Symbols \ {"nl"}

LEMMA EscapeIsPlain == \A s \in Text : Escape(s) \in Seq(Plain)
<1> DEFINE T == {s \in Text : Escape(s) \in Seq(Plain)}
<1>1. <<>> \in T
  <2>1. <<>> \in Text /\ <<>> \in Seq(Plain)
    BY DEF Text
  <2> QED
    BY <2>1, EscapeAppend
<1>2. ASSUME NEW s \in Text, NEW c \in Symbols, s \in T PROVE Append(s, c) \in T
  <2>1. {"bs", "n"} \subseteq Plain
    BY CodecAssumption DEF Plain
  <2>2. Append(s, c) \in Text
    BY DEF Text
  <2>3. Escape(s) \in Seq(Plain)
    BY <1>2
  <2>4. CASE c \in {"bs", "nl"}
    <3>1. /\ Append(Append(Escape(s), "bs"), "bs") \in Seq(Plain)
          /\ Append(Append(Escape(s), "bs"), "n") \in Seq(Plain)
      BY <2>1, <2>3
    <3> QED
      BY <2>2, <2>4, <3>1, EscapeAppend
  <2>5. CASE c \notin {"bs", "nl"}
    <3>1. c \in Plain
      BY <2>5 DEF Plain
    <3> QED
      BY <2>2, <2>3, <2>5, <3>1, EscapeAppend
  <2> QED
    BY <2>4, <2>5
<1>3. Text \subseteq T
  <2> HIDE DEF T
  <2> QED
    BY <1>1, <1>2, ByAppend DEF Text
<1> QED
  BY <1>3

\* unescape_field undoes escape_field (sqlite.rs:725-748).
THEOREM UnescapeUndoesEscape == \A s \in Text : Unescape(Escape(s)) = s
<1> DEFINE Done(s) == [out |-> s, escaped |-> FALSE]
           T == {s \in Text : Unescaping(Escape(s)) = Done(s)}
<1>0. {"bs", "nl", "n"} \subseteq Symbols
  BY CodecAssumption
<1>1. <<>> \in T
  BY EscapeAppend, UnescapingAppend DEF Text, Unread
<1>2. ASSUME NEW s \in Text, NEW c \in Symbols, s \in T PROVE Append(s, c) \in T
  <2> DEFINE e == Escape(s)
  <2>1. e \in Text /\ Append(e, "bs") \in Text /\ Append(s, c) \in Text
    BY <1>0, EscapeAppend DEF Text
  <2>2. Unescaping(e) = Done(s)
    BY <1>2
  <2>3. c = "bs" => Escape(Append(s, c)) = Append(Append(e, "bs"), "bs")
    BY EscapeAppend
  <2>4. c = "nl" => Escape(Append(s, c)) = Append(Append(e, "bs"), "n")
    BY EscapeAppend
  <2>5. c \notin {"bs", "nl"} => Escape(Append(s, c)) = Append(e, c)
    BY EscapeAppend
  <2> HIDE DEF e
  <2>6. Unescaping(Append(e, "bs")) = [out |-> s, escaped |-> TRUE]
    <3>1. Unescaping(Append(e, "bs")) = UnescapeNext(Done(s), "bs")
      BY <1>0, <2>1, <2>2, UnescapingAppend
    <3> QED
      BY <1>0, <3>1, UnescapeStep
  <2>7. CASE c = "bs"
    <3>1. Unescaping(Append(Append(e, "bs"), c)) = UnescapeNext([out |-> s, escaped |-> TRUE], c)
      BY <2>1, <2>6, UnescapingAppend
    <3> QED
      BY <2>1, <2>3, <2>7, <3>1, UnescapeStep
  <2>8. CASE c = "nl"
    <3>1. Unescaping(Append(Append(e, "bs"), "n"))
            = UnescapeNext([out |-> s, escaped |-> TRUE], "n")
      BY <1>0, <2>1, <2>6, UnescapingAppend
    <3> QED
      BY <1>0, <2>1, <2>4, <2>8, <3>1, UnescapeStep
  <2>9. CASE c \notin {"bs", "nl"}
    <3>1. Unescaping(Append(e, c)) = UnescapeNext(Done(s), c)
      BY <2>1, <2>2, UnescapingAppend
    <3> QED
      BY <2>1, <2>5, <2>9, <3>1, UnescapeStep
  <2> QED
    BY <2>7, <2>8, <2>9
<1>3. Text \subseteq T
  <2> HIDE DEF T
  <2> QED
    BY <1>1, <1>2, ByAppend DEF Text
<1>4. ASSUME NEW s \in Text PROVE Unescape(Escape(s)) = s
  <2>1. Unescaping(Escape(s)) = Done(s)
    BY <1>3
  <2> QED
    BY <2>1 DEF Unescape, Unescaping, Unread
<1> QED
  BY <1>4

(***************************************************************************)
(* Lines                                                                   *)
(***************************************************************************)

LEMMA SplitAppend ==
    /\ Split(<<>>) = << <<>> >>
    /\ \A s \in Text, c \in Symbols : Split(Append(s, c)) = SplitNext(Split(s), c)
<1>1. Split(<<>>) = << <<>> >>
  <2>1. <<>> \in Text /\ Len(<<>>) = 0
    BY DEF Text
  <2> QED
    BY <2>1, SplitChain
<1>2. ASSUME NEW s \in Text, NEW c \in Symbols
      PROVE  Split(Append(s, c)) = SplitNext(Split(s), c)
  <2> DEFINE n == Len(s)
             t == Append(s, c)
  <2>1. n \in Nat /\ t \in Text /\ Len(t) = n + 1 /\ t[n + 1] = c /\ \A i \in 1..n : t[i] = s[i]
    BY DEF Text
  <2>2. PICK g : /\ g[0] = << <<>> >> /\ Split(s) = g[n]
                 /\ \A i \in 1..n : g[i] = SplitNext(g[i - 1], s[i])
    BY SplitChain
  <2>3. PICK h : /\ h[0] = << <<>> >> /\ Split(t) = h[n + 1]
                 /\ \A i \in 1..(n + 1) : h[i] = SplitNext(h[i - 1], t[i])
    BY <2>1, SplitChain
  <2> HIDE DEF n, t
  <2>4. \A i \in 0..n : g[i] = h[i]
    <3>1. \A i \in 1..n : i \in 1..(n + 1)
      BY <2>1
    <3>2. \A i \in 1..n : g[i - 1] = h[i - 1] => g[i] = h[i]
      BY <2>1, <2>2, <2>3, <3>1
    <3>3. g[0] = h[0] /\ n \in Nat
      BY <2>1, <2>2, <2>3
    <3> QED
      BY <3>2, <3>3, ChainUnique
  <2>5. h[n + 1] = SplitNext(h[n], t[n + 1])
    BY <2>1, <2>3
  <2>6. g[n] = h[n]
    BY <2>1, <2>4
  <2> QED
    BY <2>1, <2>2, <2>3, <2>5, <2>6 DEF t
<1> QED
  BY <1>1, <1>2

\* A line without line breaks becomes the last of the lines.
LEMMA SplitLine ==
    ASSUME NEW p \in Text, NEW ls \in Seq(Text), Split(p) = Append(ls, <<>>)
    PROVE  \A l \in Seq(Plain) : Split(p \o l) = Append(ls, l)
<1> DEFINE T == {l \in Seq(Plain) : Split(p \o l) = Append(ls, l)}
<1>1. <<>> \in T
  BY DEF Text
<1>2. ASSUME NEW l \in Seq(Plain), NEW c \in Plain, l \in T PROVE Append(l, c) \in T
  <2>1. l \in Text /\ c \in Symbols /\ c # "nl"
    BY DEF Text, Plain
  <2>2. p \o Append(l, c) = Append(p \o l, c) /\ p \o l \in Text
    BY <2>1 DEF Text
  <2>3. Split(p \o l) = Append(ls, l)
    BY <1>2
  <2>4. SplitNext(Append(ls, l), c) = Append(ls, Append(l, c))
    <3> DEFINE a == Append(ls, l)
    <3>1. a \in Seq(Text) /\ Len(a) = Len(ls) + 1 /\ a[Len(a)] = l
      BY <2>1
    <3>2. Append(l, c) \in Text
      BY <2>1 DEF Text
    <3>3. [a EXCEPT ![Len(a)] = Append(l, c)] = Append(ls, Append(l, c))
      <4> DEFINE x == [a EXCEPT ![Len(a)] = Append(l, c)]
                 y == Append(ls, Append(l, c))
      <4>1. x \in Seq(Text) /\ Len(x) = Len(ls) + 1
        BY <3>1, <3>2
      <4>2. y \in Seq(Text) /\ Len(y) = Len(ls) + 1
        BY <3>2
      <4>3. ASSUME NEW i \in 1..(Len(ls) + 1) PROVE x[i] = y[i]
        <5>1. CASE i = Len(ls) + 1
          <6>1. y[i] = Append(l, c) /\ i \in DOMAIN a /\ i = Len(a)
            BY <3>1, <3>2, <5>1
          <6> HIDE DEF a
          <6> QED
            BY <6>1
        <5>2. CASE i \in 1..Len(ls)
          <6>1. y[i] = ls[i] /\ a[i] = ls[i] /\ i \in DOMAIN a /\ i # Len(a)
            BY <2>1, <3>1, <3>2, <5>2
          <6> HIDE DEF a
          <6> QED
            BY <6>1
        <5> QED
          BY <5>1, <5>2
      <4>4. x = y
        <5> HIDE DEF x, y
        <5> QED
          BY <4>1, <4>2, <4>3, SeqEqual
      <4> QED
        BY <4>4
    <3> QED
      BY <2>1, <3>1, <3>3 DEF SplitNext
  <2>5. Split(Append(p \o l, c)) = SplitNext(Split(p \o l), c)
    BY <2>1, <2>2, SplitAppend
  <2>6. Append(l, c) \in Seq(Plain)
    OBVIOUS
  <2> QED
    BY <2>2, <2>3, <2>4, <2>5, <2>6
<1>3. Seq(Plain) \subseteq T
  <2> HIDE DEF T
  <2> QED
    BY <1>1, <1>2, ByAppend
<1> QED
  BY <1>3

LEMMA TailOfConcat ==
    ASSUME NEW S, NEW s \in Seq(S), s # <<>>, NEW c \in S, NEW l \in Seq(S)
    PROVE  Tail(s \o (<<c>> \o l)) = Append(Tail(s), c) \o l
<1> DEFINE x == Tail(s \o (<<c>> \o l))
           y == Append(Tail(s), c) \o l
           n == Len(s) + Len(l)
<1>1. <<c>> \o l \in Seq(S) /\ Len(<<c>> \o l) = Len(l) + 1
      /\ \A i \in 1..(Len(l) + 1) : (<<c>> \o l)[i] = IF i = 1 THEN c ELSE l[i - 1]
  OBVIOUS
<1>2. Len(s) \in Nat /\ Len(s) > 0 /\ Len(l) \in Nat
  OBVIOUS
<1>3. x \in Seq(S) /\ Len(x) = n /\ \A i \in 1..n : x[i] = (s \o (<<c>> \o l))[i + 1]
  BY <1>1, <1>2
<1>4. Tail(s) \in Seq(S) /\ Len(Tail(s)) = Len(s) - 1
      /\ \A i \in 1..(Len(s) - 1) : Tail(s)[i] = s[i + 1]
  BY <1>2
<1>5. y \in Seq(S) /\ Len(y) = n
  BY <1>2, <1>4
<1>6. ASSUME NEW i \in 1..n PROVE x[i] = y[i]
  <2> DEFINE u == <<c>> \o l
             v == Append(Tail(s), c)
  <2>1. x[i] = IF i + 1 <= Len(s) THEN s[i + 1] ELSE u[i + 1 - Len(s)]
    <3>1. i + 1 \in 1..(Len(s) + Len(u)) /\ u \in Seq(S)
      BY <1>1, <1>2
    <3>2. x[i] = (s \o u)[i + 1]
      BY <1>3
    <3> HIDE DEF u, x
    <3> QED
      BY <1>2, <3>1, <3>2
  <2>2. v \in Seq(S) /\ Len(v) = Len(s)
        /\ \A j \in 1..Len(s) : v[j] = IF j = Len(s) THEN c ELSE s[j + 1]
    <3> DEFINE w == Tail(s)
    <3>1. w \in Seq(S) /\ Len(w) + 1 = Len(s) /\ \A j \in 1..Len(w) : w[j] = s[j + 1]
      BY <1>2, <1>4
    <3> HIDE DEF w
    <3>2. /\ Append(w, c) \in Seq(S) /\ Len(Append(w, c)) = Len(w) + 1
          /\ \A j \in 1..(Len(w) + 1) : Append(w, c)[j] = IF j = Len(w) + 1 THEN c ELSE w[j]
      BY <3>1
    <3>3. Append(w, c) = v
      BY DEF w
    <3> HIDE DEF v
    <3> QED
      BY <1>2, <3>1, <3>2, <3>3
  <2>3. y[i] = IF i <= Len(s) THEN v[i] ELSE l[i - Len(s)]
    <3>1. i \in 1..(Len(v) + Len(l))
      BY <1>2, <2>2
    <3> HIDE DEF v
    <3> QED
      BY <1>2, <2>2, <3>1
  <2> HIDE DEF x, y, u, v
  <2>4. \A j \in 1..(Len(l) + 1) : u[j] = IF j = 1 THEN c ELSE l[j - 1]
    BY <1>1 DEF u
  <2>5. CASE i + 1 <= Len(s)
    BY <1>2, <2>1, <2>2, <2>3, <2>5
  <2>6. CASE i = Len(s)
    BY <1>2, <2>1, <2>2, <2>3, <2>4, <2>6
  <2>7. CASE i > Len(s)
    BY <1>2, <2>1, <2>3, <2>4, <2>7
  <2> QED
    BY <1>2, <2>5, <2>6, <2>7
<1> HIDE DEF x, y, n
<1>7. x = y
  BY <1>3, <1>5, <1>6, SeqEqual
<1> QED
  BY <1>7 DEF x, y

LEMMA JoinedAppend ==
    \A lines \in Seq(Seq(Plain)), l \in Seq(Plain) :
        Joined(Append(lines, l)) = IF lines = <<>> THEN l
                                                   ELSE Append(Joined(lines), "nl") \o l
<1> DEFINE Marked(lines) == [i \in DOMAIN lines |-> <<"nl">> \o lines[i]]
           Flat(lines) == FlattenSeq(Marked(lines))
<1>1. "nl" \in Symbols /\ \A l \in Seq(Plain) : l \in Text /\ <<"nl">> \o l \in Text
  BY CodecAssumption DEF Text, Plain
<1>2. ASSUME NEW lines \in Seq(Seq(Plain)), NEW l \in Seq(Plain)
      PROVE  /\ Marked(lines) \in Seq(Text)
             /\ Marked(Append(lines, l)) = Append(Marked(lines), <<"nl">> \o l)
  <2>1. \A i \in 1..Len(lines) : lines[i] \in Seq(Plain)
    OBVIOUS
  <2>2. Marked(lines) \in Seq(Text) /\ Len(Marked(lines)) = Len(lines)
    <3>1. Marked(lines) = [i \in 1..Len(lines) |-> Marked(lines)[i]] /\ Len(lines) \in Nat
      OBVIOUS
    <3>2. \A i \in 1..Len(lines) : Marked(lines)[i] \in Text
      BY <1>1, <2>1
    <3> HIDE DEF Marked
    <3> QED
      BY <3>1, <3>2, IsSequence
  <2> DEFINE a == Marked(Append(lines, l))
             b == Append(Marked(lines), <<"nl">> \o l)
             m == Len(lines) + 1
  <2>3. a = [i \in 1..m |-> <<"nl">> \o Append(lines, l)[i]] /\ m \in Nat
    OBVIOUS
  <2>4. b \in Seq(Text) /\ Len(b) = m
    BY <1>1, <2>2
  <2>5. ASSUME NEW i \in 1..m PROVE a[i] = b[i] /\ a[i] \in Text
    <3>1. Append(lines, l)[i] \in Seq(Plain)
      OBVIOUS
    <3>2. a[i] = <<"nl">> \o Append(lines, l)[i]
      BY <2>3
    <3>3. b[i] = <<"nl">> \o Append(lines, l)[i]
      <4>1. CASE i = m
        <5>1. b[i] = <<"nl">> \o l
          BY <1>1, <2>2, <4>1
        <5>2. Append(lines, l)[i] = l
          BY <4>1
        <5> QED
          BY <5>1, <5>2
      <4>2. CASE i \in 1..Len(lines)
        <5>1. b[i] = Marked(lines)[i]
          BY <1>1, <2>2, <4>2
        <5>2. Append(lines, l)[i] = lines[i]
          BY <4>2
        <5> QED
          BY <4>2, <5>1, <5>2
      <4> QED
        BY <4>1, <4>2
    <3> QED
      BY <1>1, <3>1, <3>2, <3>3
  <2>6. a \in Seq(Text) /\ Len(a) = m
    <3>1. a = [i \in 1..m |-> a[i]] /\ m \in Nat
      BY <2>3
    <3> HIDE DEF a, m
    <3> QED
      BY <2>5, <3>1, IsSequence
  <2> HIDE DEF a, b, m
  <2>7. a = b
    BY <2>4, <2>5, <2>6, SeqEqual
  <2> QED
    BY <2>2, <2>7 DEF a, b
<1>3. \A lines : Joined(lines) = Tail(Flat(lines))
  BY DEF Joined
<1>4. ASSUME NEW lines \in Seq(Seq(Plain)), NEW l \in Seq(Plain)
      PROVE  Flat(lines) \in Text /\ Flat(Append(lines, l)) = Flat(lines) \o (<<"nl">> \o l)
  <2>1. Marked(lines) \in Seq(Text) /\ <<"nl">> \o l \in Text
    BY <1>1, <1>2
  <2>2. Marked(Append(lines, l)) = Append(Marked(lines), <<"nl">> \o l)
    BY <1>2
  <2> HIDE DEF Marked
  <2> QED
    BY <2>1, <2>2, FlattenAppend
<1>5. Flat(<<>>) = <<>>
  <2>1. Marked(<<>>) = <<>>
    OBVIOUS
  <2> QED
    BY <2>1, FlattenAppend
<1> HIDE DEF Flat
<1> DEFINE T == {lines \in Seq(Seq(Plain)) : lines = <<>> \/ Flat(lines) # <<>>}
<1>6. ASSUME NEW lines \in Seq(Seq(Plain)), NEW l \in Seq(Plain)
      PROVE  Flat(Append(lines, l)) # <<>>
  <2>1. Flat(lines) \in Seq(Symbols) /\ l \in Seq(Symbols) /\ "nl" \in Symbols
    BY <1>1, <1>4 DEF Text
  <2>2. Len(Flat(lines) \o (<<"nl">> \o l)) # 0
    BY <2>1
  <2> QED
    BY <1>4, <2>2
<1>7. Seq(Seq(Plain)) \subseteq T
  <2>1. <<>> \in T
    OBVIOUS
  <2>2. ASSUME NEW lines \in Seq(Seq(Plain)), NEW l \in Seq(Plain) PROVE Append(lines, l) \in T
    BY <1>6
  <2> HIDE DEF T
  <2> QED
    BY <2>1, <2>2, ByAppend
<1>8. ASSUME NEW lines \in Seq(Seq(Plain)), NEW l \in Seq(Plain)
      PROVE  Joined(Append(lines, l)) = IF lines = <<>> THEN l
                                                        ELSE Append(Joined(lines), "nl") \o l
  <2>1. Flat(lines) \in Seq(Symbols) /\ l \in Seq(Symbols) /\ "nl" \in Symbols
    BY <1>1, <1>4 DEF Text
  <2>2. Joined(Append(lines, l)) = Tail(Flat(lines) \o (<<"nl">> \o l))
    BY <1>3, <1>4
  <2>3. CASE lines = <<>>
    BY <1>5, <2>1, <2>2, <2>3
  <2>4. CASE lines # <<>>
    <3>1. Flat(lines) # <<>>
      BY <1>7, <2>4
    <3>2. Tail(Flat(lines) \o (<<"nl">> \o l)) = Append(Tail(Flat(lines)), "nl") \o l
      BY <2>1, <3>1, TailOfConcat
    <3> QED
      BY <1>3, <2>2, <2>4, <3>2
  <2> QED
    BY <2>3, <2>4
<1> QED
  BY <1>8

\* payload.split('\n') gives back the lines that lines.join("\n") took.
THEOREM SplitUndoesJoined ==
    \A lines \in Seq(Seq(Plain)) :
        lines # <<>> => Joined(lines) \in Text /\ Split(Joined(lines)) = lines
<1> DEFINE T == {lines \in Seq(Seq(Plain)) :
                    lines # <<>> => Joined(lines) \in Text /\ Split(Joined(lines)) = lines}
<1>0. "nl" \in Symbols /\ \A l \in Seq(Plain) : l \in Text
  BY CodecAssumption DEF Plain, Text
<1>1. <<>> \in T
  OBVIOUS
<1>2. ASSUME NEW lines \in Seq(Seq(Plain)), NEW l \in Seq(Plain), lines \in T
      PROVE  Append(lines, l) \in T
  <2>0. Append(lines, l) \in Seq(Seq(Plain)) /\ lines \in Seq(Text)
    BY <1>0
  <2>1. CASE lines = <<>>
    <3>1. Joined(Append(lines, l)) = l
      BY <2>1, JoinedAppend
    <3>4. Append(lines, l) = <<l>>
      BY <2>1
    <3>2. Split(<<>> \o l) = Append(<<>>, l)
      <4>1. <<>> \in Text /\ <<>> \in Seq(Text) /\ Append(<<>>, <<>>) = << <<>> >>
        BY DEF Text
      <4> QED
        BY <4>1, SplitAppend, SplitLine
    <3>3. <<>> \o l = l /\ Append(<<>>, l) = <<l>>
      OBVIOUS
    <3> QED
      BY <1>0, <2>0, <3>1, <3>2, <3>3, <3>4
  <2>2. CASE lines # <<>>
    <3> DEFINE j == Joined(lines)
    <3>1. Joined(Append(lines, l)) = Append(j, "nl") \o l
      BY <2>2, JoinedAppend
    <3>2. j \in Text /\ Split(j) = lines
      BY <1>2, <2>2
    <3> HIDE DEF j
    <3>3. Append(j, "nl") \in Text /\ Append(j, "nl") \o l \in Text
      BY <1>0, <3>2 DEF Text
    <3>4. Split(Append(j, "nl")) = Append(lines, <<>>)
      BY <1>0, <3>2, SplitAppend DEF SplitNext
    <3>5. Split(Append(j, "nl") \o l) = Append(lines, l)
      BY <2>0, <3>3, <3>4, SplitLine
    <3> QED
      BY <2>0, <3>1, <3>3, <3>5
  <2> QED
    BY <2>1, <2>2
<1>3. Seq(Seq(Plain)) \subseteq T
  <2> HIDE DEF T
  <2> QED
    BY <1>1, <1>2, ByAppend
<1> QED
  BY <1>3

(***************************************************************************)
(* Events                                                                  *)
(***************************************************************************)

LEMMA LayoutShape ==
    \A k \in Kinds : /\ k # "nl"
                     /\ Len(Layout[k]) \in Nat
                     /\ DOMAIN Layout[k] = 1..Len(Layout[k])
  BY DEF Kinds, Layout

LEMMA NumeralsParse ==
    ASSUME NEW n \in 0..MaxNumber
    PROVE  /\ Numeral(n) \in Seq(Plain)
           /\ IsNumber(Numeral(n))
           /\ ParseNumber(Numeral(n)) = n
<1>1. Decimal[n] \in Plain
  BY CodecAssumption DEF Plain
<1>2. \A m \in 0..MaxNumber : Numeral(n) = Numeral(m) => m = n
  BY CodecAssumption DEF Numeral
<1>3. Numeral(n) \in Seq(Plain)
  BY <1>1 DEF Numeral
<1>4. IsNumber(Numeral(n))
  BY DEF IsNumber
<1>5. \E m \in 0..MaxNumber : Numeral(n) = Numeral(m)
  OBVIOUS
<1>6. ParseNumber(Numeral(n)) = n
  BY <1>2, <1>5 DEF ParseNumber
<1> QED
  BY <1>3, <1>4, <1>6

LEMMA LinesOfEvent ==
    ASSUME NEW e, IsEvent(e)
    PROVE  LET lines == EncodedLines(e)
               L == Layout[e.kind]
           IN  /\ lines \in Seq(Seq(Plain))
               /\ Len(lines) = Len(L) + 1
               /\ lines[1] = <<e.kind>>
               /\ \A i \in DOMAIN L :
                     lines[i + 1] = IF L[i] \in Numbers THEN Numeral(e.values[i])
                                                        ELSE Escape(e.values[i])
<1> DEFINE L == Layout[e.kind]
           n == Len(L)
           fields == [i \in DOMAIN L |-> IF L[i] \in Numbers THEN Numeral(e.values[i])
                                                             ELSE Escape(e.values[i])]
           lines == EncodedLines(e)
<1>1. /\ e.kind \in Kinds
      /\ \A i \in DOMAIN L : e.values[i] \in IF L[i] \in Numbers THEN 0..MaxNumber ELSE Text
  BY DEF IsEvent
<1>2. e.kind \in Plain /\ n \in Nat /\ DOMAIN L = 1..n
  BY <1>1, LayoutShape, CodecAssumption DEF Plain
<1>3. <<e.kind>> \in Seq(Plain)
  BY <1>2
<1>4. lines = << <<e.kind>> >> \o fields
  BY DEF EncodedLines
<1> HIDE DEF L, n, lines
<1>5. fields \in Seq(Seq(Plain)) /\ Len(fields) = n
  <2>1. fields = [i \in 1..n |-> fields[i]]
    BY <1>2
  <2>2. ASSUME NEW i \in 1..n PROVE fields[i] \in Seq(Plain)
    <3>1. e.values[i] \in IF L[i] \in Numbers THEN 0..MaxNumber ELSE Text
      BY <1>1, <1>2
    <3>2. CASE L[i] \in Numbers
      BY <1>2, <3>1, <3>2, NumeralsParse
    <3>3. CASE L[i] \notin Numbers
      BY <1>2, <3>1, <3>3, EscapeIsPlain
    <3> QED
      BY <3>2, <3>3
  <2> HIDE DEF fields
  <2> QED
    BY <1>2, <2>1, <2>2, IsSequence
<1>6. \A i \in DOMAIN L : fields[i] = IF L[i] \in Numbers THEN Numeral(e.values[i])
                                                         ELSE Escape(e.values[i])
  OBVIOUS
<1> HIDE DEF fields
<1>7. /\ lines \in Seq(Seq(Plain)) /\ Len(lines) = n + 1 /\ lines[1] = <<e.kind>>
      /\ \A i \in 1..n : lines[i + 1] = fields[i]
  <2> DEFINE first == <<e.kind>>
  <2>1. first \in Seq(Plain)
    BY <1>3
  <2> HIDE DEF first
  <2>2. << first >> \o fields \in Seq(Seq(Plain)) /\ Len(<< first >> \o fields) = n + 1
        /\ (<< first >> \o fields)[1] = first
    BY <1>2, <1>5, <2>1
  <2>3. \A i \in 1..n : (<< first >> \o fields)[i + 1] = fields[i]
    BY <1>2, <1>5, <2>1
  <2> QED
    BY <1>4, <2>2, <2>3 DEF first
<1> QED
  BY <1>2, <1>6, <1>7 DEF L, n, lines

\* decode_event undoes encode_event, for every event (sqlite.rs:524-771).
THEOREM DecodeUndoesEncode ==
    ASSUME NEW e, IsEvent(e)
    PROVE  Decode(Encode(e)) = e
<1> DEFINE k == e.kind
           L == Layout[k]
           lines == EncodedLines(e)
<1>1. /\ k \in Kinds
      /\ e = Event(k, [i \in DOMAIN L |-> e.values[i]])
      /\ \A i \in DOMAIN L : e.values[i] \in IF L[i] \in Numbers THEN 0..MaxNumber ELSE Text
  BY DEF IsEvent
<1>2. Len(L) \in Nat /\ DOMAIN L = 1..Len(L)
  BY <1>1, LayoutShape
<1>3. /\ lines \in Seq(Seq(Plain)) /\ Len(lines) = Len(L) + 1 /\ lines[1] = <<k>>
      /\ \A i \in DOMAIN L : lines[i + 1] = IF L[i] \in Numbers THEN Numeral(e.values[i])
                                                               ELSE Escape(e.values[i])
  BY LinesOfEvent
<1>4. Split(Encode(e)) = lines
  <2> HIDE DEF lines
  <2>1. lines # <<>>
    BY <1>2, <1>3
  <2> QED
    BY <1>3, <2>1, SplitUndoesJoined DEF Encode, lines
<1>5. Len(lines[1]) = 1 /\ lines[1][1] = k
  BY <1>3
<1>6. \A i \in DOMAIN L : L[i] \in Numbers => IsNumber(lines[i + 1])
  BY <1>1, <1>3, NumeralsParse
<1>7. \A i \in DOMAIN L : (IF L[i] \in Numbers THEN ParseNumber(lines[i + 1])
                                               ELSE Unescape(lines[i + 1])) = e.values[i]
  BY <1>1, <1>3, NumeralsParse, UnescapeUndoesEscape
<1>8. Len(lines) > Len(L)
  BY <1>2, <1>3
<1> HIDE DEF lines
<1>9. Decode(Encode(e)) = Event(k, [i \in DOMAIN L |-> IF L[i] \in Numbers
                                                       THEN ParseNumber(lines[i + 1])
                                                       ELSE Unescape(lines[i + 1])])
  BY <1>1, <1>4, <1>5, <1>6, <1>8 DEF Decode
<1> QED
  BY <1>1, <1>7, <1>9

(***************************************************************************)
(* The machine that tries inputs                                           *)
(***************************************************************************)

\* Whatever is tried is one of the inputs.
LEMMA OnlyInputs == FunctionsSpec => [](input \in Inputs \union {NoInput})
<1>1. FunctionsInit => input \in Inputs \union {NoInput}
  BY DEF FunctionsInit
<1>2. input \in Inputs \union {NoInput} /\ [FunctionsNext]_input
        => (input \in Inputs \union {NoInput})'
  BY DEF FunctionsNext, Inputs, NoInput
<1> QED
  BY <1>1, <1>2, PTL DEF FunctionsSpec

\* The rows of every event are read back as that event: sqlite.rs:524-771.
THEOREM CodecIsSound == FunctionsSpec => []CodecRoundTrip
<1>1. input \in Inputs \union {NoInput} => CodecRoundTrip
  <2> SUFFICES ASSUME input \in Inputs \union {NoInput}, input.of = "codec"
               PROVE  Decode(Encode(input.event)) = input.event
    BY DEF CodecRoundTrip
  <2>1. input.event \in SomeEvents
    BY DEF Inputs, NoInput
  <2> QED
    BY <2>1, FunctionsAssumption, DecodeUndoesEncode
<1> QED
  BY <1>1, OnlyInputs, PTL

LEMMA HeadAndTail ==
    ASSUME NEW S, NEW s \in Seq(S), NEW a
    PROVE  LET d == <<a>> \o s IN d # <<>> /\ Head(d) = a /\ Tail(d) = s
<1> DEFINE R == S \union {a}
           d == <<a>> \o s
           t == Tail(d)
<1>1. s \in Seq(R) /\ <<a>> \in Seq(R)
  OBVIOUS
<1> HIDE DEF R
<1>2. d \in Seq(R) /\ Len(d) = Len(s) + 1 /\ d[1] = a /\ \A i \in 1..Len(s) : d[i + 1] = s[i]
  BY <1>1
<1> HIDE DEF d
<1>3. d # <<>> /\ Head(d) = a
  BY <1>1, <1>2
<1>4. t \in Seq(R) /\ Len(t) = Len(s) /\ \A i \in 1..Len(s) : t[i] = s[i]
  BY <1>1, <1>2, <1>3
<1>5. t = s
  <2> HIDE DEF t
  <2> QED
    BY <1>1, <1>4, SeqEqual
<1> QED
  BY <1>3, <1>5 DEF d

\* Only a plain error whose text begins with a marker is taken for another:
\* engine.rs:16-56, 606-648.
THEOREM MarkersAreSound == FunctionsSpec => []MarkersSurvive
<1>1. ASSUME NEW err \in BodyErrors(Text)
      PROVE  LET asked == [kind   |-> IF err.type = "WaitForInput" THEN "StepWaiting"
                                                                   ELSE "StepFailed",
                           reason |-> err.text,
                           retry  |-> err.type = "plain"]
                 marked == err.text # <<>> /\ \E m \in Markers : Head(err.text) = Prefix[m]
             IN  Recorded(Display(err)) = asked <=> ~ (err.type = "plain" /\ marked)
  <2> DEFINE s == err.text
             d == Display(err)
  <2>1. /\ s \in Seq(Symbols) /\ err.type \in {"WaitForInput", "NonRetryable", "plain"}
        /\ Markers = {"WaitForInput", "NonRetryable"}
        /\ Prefix["WaitForInput"] = "agentq:wait:"
        /\ Prefix["NonRetryable"] = "agentq:non-retryable:"
    BY DEF BodyErrors, Markers, Prefix, Text
  <2>2. CASE err.type \in Markers
    <3>1. d = <<Prefix[err.type]>> \o s
      BY <2>2 DEF Display
    <3>2. d # <<>> /\ Head(d) = Prefix[err.type] /\ Tail(d) = s
      BY <2>1, <3>1, HeadAndTail
    <3> HIDE DEF s, d
    <3>3. CASE err.type = "WaitForInput"
      <4>1. Recorded(d) = [kind |-> "StepWaiting", reason |-> s, retry |-> FALSE]
        BY <2>1, <3>2, <3>3 DEF Recorded, Carries
      <4> QED
        BY <3>3, <4>1 DEF s, d
    <3>4. CASE err.type = "NonRetryable"
      <4>1. Recorded(d) = [kind |-> "StepFailed", reason |-> s, retry |-> FALSE]
        BY <2>1, <3>2, <3>4 DEF Recorded, Carries
      <4> QED
        BY <3>4, <4>1 DEF s, d
    <3> QED
      BY <2>1, <2>2, <3>3, <3>4
  <2>3. CASE err.type = "plain"
    <3> DEFINE asked == [kind |-> "StepFailed", reason |-> s, retry |-> TRUE]
               marked == s # <<>> /\ \E m \in Markers : Head(s) = Prefix[m]
    <3>1. d = s
      BY <2>1, <2>3 DEF Display
    <3>2. ASSUME marked PROVE Recorded(s) # asked
      <4>1. Recorded(s).retry = FALSE
        BY <2>1, <3>2 DEF Recorded, Carries
      <4>2. asked.retry = TRUE
        OBVIOUS
      <4> QED
        BY <4>1, <4>2
    <3>3. ASSUME ~ marked PROVE Recorded(s) = asked
      BY <2>1, <3>3 DEF Recorded, Carries
    <3>4. Recorded(s) = asked <=> ~ marked
      BY <3>2, <3>3
    <3>5. [kind   |-> IF err.type = "WaitForInput" THEN "StepWaiting" ELSE "StepFailed",
           reason |-> s,
           retry  |-> err.type = "plain"] = asked
      BY <2>3
    <3>6. ~ (err.type = "plain" /\ marked) <=> ~ marked
      BY <2>3
    <3> HIDE DEF asked, marked
    <3>7. Recorded(d) = asked <=> ~ (err.type = "plain" /\ marked)
      BY <3>1, <3>4, <3>6
    <3> QED
      BY <3>5, <3>7 DEF marked
  <2> QED
    BY <2>1, <2>2, <2>3
<1>2. input \in Inputs \union {NoInput} => MarkersSurvive
  <2> SUFFICES ASSUME input \in Inputs \union {NoInput}, input.of = "marker" PROVE MarkersSurvive
    BY DEF MarkersSurvive
  <2>1. input.error \in BodyErrors(Text)
    BY FunctionsAssumption DEF Inputs, NoInput
  <2> QED
    BY <1>1, <2>1 DEF MarkersSurvive
<1> QED
  BY <1>2, OnlyInputs, PTL
=============================================================================
