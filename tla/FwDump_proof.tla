---------------------------- MODULE FwDump_proof ----------------------------
(***************************************************************************)
(* Proofs about firmware dumps, for every layout, template, number of      *)
(* queues, number of versions of the firmware and amount of its memory: a  *)
(* dump stays within the buffer that was allocated for it, a minidump's    *)
(* buffer has the size its template asks for, nothing changes a dump while *)
(* it is read, and what is offered to the reader is whole: every area is   *)
(* where the layout, the chain or the template has it.                     *)
(***************************************************************************)
EXTENDS FwDump, FiniteSetTheorems, TLAPS

--------------------------------------------------------------------------
(* Folds over lists.  A recursive definition is not unfolded by a prover;  *)
(* what is used of one is the function of its values, which least elements *)
(* give without induction over an operator.                                *)

LEMMA LeastNat ==
  ASSUME NEW T, T \subseteq Nat, T # {}
  PROVE  \E m \in T : \A k \in T : m <= k
<1> DEFINE R == {ss \in Nat \X Nat : ss[1] < ss[2]}
<1>1. IsWellFoundedOn(R, Nat)
  BY NatLessThanWellFounded, Zenon DEF OpToRel
<1>2. PICK m \in T : \A k \in T : ~ <<k, m>> \in R
  <2> HIDE DEF R
  <2> QED BY <1>1, WFMin
<1>3. \A k \in T : ~ k < m
  <2> SUFFICES ASSUME NEW k \in T, k < m PROVE FALSE
    OBVIOUS
  <2>1. <<k, m>> \in R
    OBVIOUS
  <2> QED BY <2>1, <1>2
<1> QED BY <1>3

LEMMA MaxIs ==
  ASSUME NEW n \in Nat, NEW s, s \subseteq 1..n, s # {}
  PROVE  Max(s) \in s /\ \A k \in s : Max(s) >= k
<1> DEFINE T == {n - k : k \in s}
<1>1. T \subseteq Nat /\ T # {}
  OBVIOUS
<1>2. PICK m \in T : \A k \in T : m <= k
  <2> HIDE DEF T
  <2> QED BY <1>1, LeastNat
<1>3. PICK x \in s : m = n - x
  OBVIOUS
<1>4. \A k \in s : x >= k
  BY <1>2, <1>3
<1>5. \E y \in s : \A k \in s : y >= k
  BY <1>4
<1> QED BY <1>5 DEF Max

LEMMA MaxOfRange ==
  ASSUME NEW n \in Nat, n > 0
  PROVE  Max(1..n) = n /\ (1..n) \ {n} = 1..(n - 1)
<1>1. Max(1..n) \in 1..n /\ \A k \in 1..n : Max(1..n) >= k
  BY MaxIs
<1> QED BY <1>1

\* The function that folds 1..n from the top, as MapThenFoldSet defines it.
Folds1toN(f, n, base, G) ==
  f = [s \in SUBSET (1..n) |->
         IF s = {} THEN base ELSE G[<<f[s \ {Max(s)}], Max(s)>>]]

\* What is needed of f for it to be such a function on the intervals 1..i.
StepsBy(f, n, W, base, G) ==
  /\ n \in Nat /\ base \in W /\ G \in [W \X (1..n) -> W]
  /\ f[{}] = base
  /\ \A i \in 1..n : f[1..(i - 1)] \in W => f[1..i] = G[<<f[1..(i - 1)], i>>]

\* The values of a fold, one element after the other.
Values(h, n, W, base, G) ==
  /\ h \in [0..n -> W]
  /\ h[0] = base
  /\ \A i \in 1..n : h[i] = G[<<h[i - 1], i>>]

LEMMA FoldExists ==
  ASSUME NEW n \in Nat, NEW W, NEW base \in W, NEW G \in [W \X (1..n) -> W]
  PROVE  \E f \in [SUBSET (1..n) -> W] : Folds1toN(f, n, base, G)
<1> DEFINE Step(f, s) == IF s = {} THEN base ELSE G[<<f[s \ {Max(s)}], Max(s)>>]
           Up(k) == {s \in SUBSET (1..n) : \A x \in s : x <= k}
           Good(f, k) == f \in [SUBSET (1..n) -> W] /\ \A s \in Up(k) : f[s] = Step(f, s)
           T == {k \in Nat : k <= n /\ ~ \E f : Good(f, k)}
<1>1. \A s \in SUBSET (1..n) : s # {} => /\ Max(s) \in 1..n /\ Max(s) \in s
                                         /\ \A x \in s \ {Max(s)} : x <= Max(s) - 1
  <2> SUFFICES ASSUME NEW s \in SUBSET (1..n), s # {}
      PROVE  /\ Max(s) \in 1..n /\ Max(s) \in s
             /\ \A x \in s \ {Max(s)} : x <= Max(s) - 1
    OBVIOUS
  <2>1. Max(s) \in s /\ \A k \in s : Max(s) >= k
    BY MaxIs
  <2>2. \A k \in s : k \in Int
    OBVIOUS
  <2>3. ASSUME NEW x \in s \ {Max(s)} PROVE x <= Max(s) - 1
    <3>1. x \in Int /\ Max(s) \in Int /\ Max(s) >= x /\ x # Max(s)
      BY <2>1, <2>2
    <3> QED BY <3>1
  <2> QED BY <2>1, <2>3
<1>2. \A f, s : f \in [SUBSET (1..n) -> W] /\ s \in SUBSET (1..n) => Step(f, s) \in W
  BY <1>1
<1>3. T = {}
  <2> SUFFICES ASSUME T # {} PROVE FALSE
    OBVIOUS
  <2>1. PICK k \in T : \A j \in T : k <= j
    <3>1. T \subseteq Nat
      OBVIOUS
    <3> HIDE DEF T
    <3> QED BY <3>1, LeastNat
  <2>2. CASE k = 0
    <3>1. \A s \in Up(0) : s = {}
      OBVIOUS
    <3>2. Good([s \in SUBSET (1..n) |-> base], 0)
      BY <3>1
    <3> QED BY <2>2, <3>2
  <2>3. CASE k # 0
    <3>0. k \in Nat /\ k <= n
      OBVIOUS
    <3>1. k - 1 \in Nat /\ k - 1 <= n /\ k - 1 \notin T
      <4> HIDE DEF T
      <4> QED BY <2>1, <2>3, <3>0
    <3>2. PICK f : Good(f, k - 1)
      <4> HIDE DEF Good
      <4> QED BY <3>1
    <3> DEFINE g == [s \in SUBSET (1..n) |-> Step(f, s)]
    <3>3. g \in [SUBSET (1..n) -> W]
      <4>1. \A s \in SUBSET (1..n) : Step(f, s) \in W
        BY <3>2, <1>2
      <4> HIDE DEF Step
      <4> QED BY <4>1
    <3>4. \A s \in Up(k - 1) : g[s] = f[s]
      BY <3>2
    <3>5. \A s \in Up(k) : s # {} => s \ {Max(s)} \in Up(k - 1)
      <4> SUFFICES ASSUME NEW s \in Up(k), s # {}
                   PROVE  s \ {Max(s)} \in Up(k - 1)
        OBVIOUS
      <4>1. /\ s \in SUBSET (1..n) /\ \A x \in s : x <= k
            /\ \A x \in s : x \in Int
        OBVIOUS
      <4>2. Max(s) \in s /\ Max(s) <= k /\ \A x \in s \ {Max(s)} : x <= Max(s) - 1
        BY <4>1, <1>1
      <4>3. ASSUME NEW x \in s \ {Max(s)} PROVE x <= k - 1
        <5>1. x \in Int /\ Max(s) \in Int /\ Max(s) <= k /\ x <= Max(s) - 1
          BY <4>1, <4>2
        <5> QED BY <5>1, <3>0
      <4>4. s \ {Max(s)} \in SUBSET (1..n)
        BY <4>1
      <4> QED BY <4>3, <4>4
    <3>6. \A s \in Up(k) : g[s] = Step(g, s)
      <4> SUFFICES ASSUME NEW s \in Up(k) PROVE g[s] = Step(g, s)
        OBVIOUS
      <4>1. CASE s = {}
        BY <4>1
      <4>2. CASE s # {}
        <5>1. g[s \ {Max(s)}] = f[s \ {Max(s)}]
          BY <4>2, <3>4, <3>5
        <5>2. g[s] = Step(f, s)
          OBVIOUS
        <5> HIDE DEF g
        <5> QED BY <5>1, <5>2, <4>2
      <4> QED BY <4>1, <4>2
    <3>7. Good(g, k)
      BY <3>3, <3>6
    <3> QED BY <3>7, <2>1
  <2> QED BY <2>2, <2>3
<1>4. PICK f : Good(f, n)
  <2>1. n \notin T
    BY <1>3
  <2> HIDE DEF Good
  <2> QED BY <2>1
<1>5. \A s \in SUBSET (1..n) : s \in Up(n)
  OBVIOUS
<1>6. \A s \in SUBSET (1..n) : f[s] = Step(f, s)
  BY <1>4, <1>5
<1>7. f = [s \in SUBSET (1..n) |-> f[s]]
  BY <1>4
<1>8. f = [s \in SUBSET (1..n) |-> Step(f, s)]
  <2> HIDE DEF Step
  <2> QED BY <1>6, <1>7
<1> QED BY <1>4, <1>8 DEF Folds1toN

\* What a fold computes, one element after the other.
LEMMA FoldSteps ==
  ASSUME NEW n, NEW W, NEW G, NEW base, NEW f, StepsBy(f, n, W, base, G)
  PROVE  \E h : Values(h, n, W, base, G) /\ h[n] = f[1..n]
<1> DEFINE T == {k \in Nat : k <= n /\ f[1..k] \notin W}
           h == [i \in 0..n |-> f[1..i]]
<1> USE DEF StepsBy
<1>1. f[1..0] = f[{}]
  <2>1. 1..0 = {}
    OBVIOUS
  <2> QED BY <2>1
<1>2. T = {}
  <2> SUFFICES ASSUME T # {} PROVE FALSE
    OBVIOUS
  <2>1. PICK k \in T : \A j \in T : k <= j
    <3>1. T \subseteq Nat
      OBVIOUS
    <3> HIDE DEF T
    <3> QED BY <3>1, LeastNat
  <2>2. k \in Nat /\ k <= n /\ f[1..k] \notin W
    OBVIOUS
  <2>3. k # 0
    BY <2>2, <1>1
  <2>4. k - 1 \in Nat /\ k - 1 <= n /\ k - 1 \notin T /\ k \in 1..n
    <3> HIDE DEF T
    <3> QED BY <2>1, <2>2, <2>3
  <2>5. f[1..(k - 1)] \in W
    BY <2>4
  <2> QED BY <2>2, <2>4, <2>5
<1>3. \A i \in 0..n : f[1..i] \in W
  <2> SUFFICES ASSUME NEW i \in 0..n PROVE f[1..i] \in W
    OBVIOUS
  <2>1. i \in Nat /\ i <= n /\ i \notin T
    BY <1>2
  <2> QED BY <2>1
<1>4. h \in [0..n -> W]
  BY <1>3
<1>5. 0 \in 0..n /\ n \in 0..n
  OBVIOUS
<1>6. h[0] = f[{}] /\ h[n] = f[1..n]
  BY <1>1, <1>5
<1>7. \A i \in 1..n : h[i] = G[<<h[i - 1], i>>]
  <2> SUFFICES ASSUME NEW i \in 1..n PROVE h[i] = G[<<h[i - 1], i>>]
    OBVIOUS
  <2>1. i \in 0..n /\ i - 1 \in 0..n
    OBVIOUS
  <2> QED BY <1>3, <2>1
<1> QED BY <1>4, <1>6, <1>7 DEF Values

\* The ends of the intervals.
LEMMA TopOfInterval ==
  ASSUME NEW n \in Nat, NEW i \in 1..n
  PROVE  /\ 1..i \in SUBSET (1..n) /\ 1..i # {}
         /\ Max(1..i) = i /\ (1..i) \ {Max(1..i)} = 1..(i - 1)
<1>1. i \in Nat /\ i > 0 /\ 1..i \in SUBSET (1..n) /\ 1..i # {}
  OBVIOUS
<1> QED BY <1>1, MaxOfRange

--------------------------------------------------------------------------
\* h gives the sums of the beginnings of s.
Sums(s, h) ==
  /\ h \in [0..Len(s) -> Nat]
  /\ h[0] = 0
  /\ \A i \in 1..Len(s) : h[i] = h[i - 1] + s[i]

LEMMA TotalIsSum ==
  ASSUME NEW s \in Seq(Nat)
  PROVE  \E h : Sums(s, h) /\ Total(s) = h[Len(s)]
<1> DEFINE n == Len(s)
           G == [p \in Nat \X (1..n) |-> p[1] + s[p[2]]]
           F(f) == [t \in SUBSET (1..n) |->
                      IF t = {} THEN 0 ELSE f[t \ {Max(t)}] + s[Max(t)]]
           it == CHOOSE f : f = F(f)
<1>1. n \in Nat /\ DOMAIN s = 1..n /\ \A i \in 1..n : s[i] \in Nat
  OBVIOUS
<1>2. /\ G \in [Nat \X (1..n) -> Nat]
      /\ \A k \in Nat, i \in 1..n : G[<<k, i>>] = k + s[i]
  BY <1>1
<1>3. Total(s) = it[1..n]
  BY <1>1 DEF Total, FoldLeft, MapThenFoldSet
<1>4. \E f : f = F(f)
  <2> HIDE DEF n, G
  <2>1. PICK f \in [SUBSET (1..n) -> Nat] : Folds1toN(f, n, 0, G)
    <3>1. n \in Nat /\ 0 \in Nat /\ G \in [Nat \X (1..n) -> Nat]
      BY <1>1, <1>2
    <3> QED BY <3>1, FoldExists
  <2>2. \A t \in SUBSET (1..n) : t # {} =>
          f[t \ {Max(t)}] \in Nat /\ Max(t) \in 1..n
    BY <1>1, MaxIs
  <2>3. \A t \in SUBSET (1..n) : t # {} =>
          G[<<f[t \ {Max(t)}], Max(t)>>] = f[t \ {Max(t)}] + s[Max(t)]
    BY <2>2, <1>2
  <2>4. F(f) = [t \in SUBSET (1..n) |->
           IF t = {} THEN 0 ELSE G[<<f[t \ {Max(t)}], Max(t)>>]]
    BY <2>3
  <2> QED BY <2>1, <2>4 DEF Folds1toN
<1>5. it = F(it)
  <2> HIDE DEF F
  <2> QED BY <1>4
<1>6. \A t \in SUBSET (1..n) :
        it[t] = IF t = {} THEN 0 ELSE it[t \ {Max(t)}] + s[Max(t)]
  <2> HIDE DEF it
  <2> QED BY <1>5
<1>7. it[{}] = 0
  <2> HIDE DEF it
  <2> QED BY <1>6
<1>8. ASSUME NEW i \in 1..n, it[1..(i - 1)] \in Nat
      PROVE  it[1..i] = G[<<it[1..(i - 1)], i>>]
  <2> HIDE DEF it, G, n
  <2>1. it[1..i] = it[1..(i - 1)] + s[i]
    BY <1>1, <1>6, TopOfInterval
  <2> QED BY <1>2, <1>8, <2>1
<1>9. PICK h : Values(h, n, Nat, 0, G) /\ h[n] = it[1..n]
  <2> HIDE DEF it, G, n
  <2>1. StepsBy(it, n, Nat, 0, G)
    BY <1>1, <1>2, <1>7, <1>8 DEF StepsBy
  <2> QED BY <2>1, FoldSteps
<1>10. \A i \in 1..n : h[i] = h[i - 1] + s[i]
  <2> HIDE DEF it, G
  <2> SUFFICES ASSUME NEW i \in 1..n PROVE h[i] = h[i - 1] + s[i]
    OBVIOUS
  <2>1. h[i - 1] \in Nat
    <3>1. i - 1 \in 0..n
      BY <1>1
    <3> QED BY <3>1, <1>9 DEF Values
  <2> QED BY <1>2, <1>9, <2>1 DEF Values
<1> HIDE DEF it, G
<1> QED BY <1>1, <1>3, <1>7, <1>9, <1>10 DEF Sums, Values

--------------------------------------------------------------------------
(* Lengths of lists of areas.                                              *)

\* A set of numbers up to n that can only be entered at 0, and is not.
LEMMA NoneBad ==
  ASSUME NEW n \in Nat, NEW T, T \subseteq 0..n, 0 \notin T,
         \A i \in 1..n : i - 1 \notin T => i \notin T
  PROVE  T = {}
<1> SUFFICES ASSUME T # {} PROVE FALSE
  OBVIOUS
<1>1. T \subseteq Nat
  OBVIOUS
<1>2. PICK m \in T : \A k \in T : m <= k
  BY <1>1, LeastNat
<1>3. m \in 1..n /\ m - 1 \in Int
  OBVIOUS
<1>4. m - 1 \notin T
  BY <1>2, <1>3
<1> QED BY <1>3, <1>4

LEMMA SumsUnique ==
  ASSUME NEW s \in Seq(Nat), NEW g, NEW h, Sums(s, g), Sums(s, h)
  PROVE  \A i \in 0..Len(s) : g[i] = h[i]
<1> DEFINE T == {i \in 0..Len(s) : g[i] # h[i]}
<1>1. Len(s) \in Nat /\ T \subseteq 0..Len(s) /\ 0 \notin T
  BY DEF Sums
<1>2. \A i \in 1..Len(s) : i - 1 \notin T => i \notin T
  <2> SUFFICES ASSUME NEW i \in 1..Len(s), i - 1 \notin T PROVE i \notin T
    OBVIOUS
  <2>1. i - 1 \in 0..Len(s)
    OBVIOUS
  <2>2. g[i - 1] = h[i - 1]
    BY <2>1
  <2>3. g[i] = g[i - 1] + s[i] /\ h[i] = h[i - 1] + s[i]
    BY DEF Sums
  <2> QED BY <2>2, <2>3
<1>3. T = {}
  <2> HIDE DEF T
  <2> QED BY <1>1, <1>2, NoneBad
<1> QED BY <1>3

LEMMA TotalOf ==
  ASSUME NEW s \in Seq(Nat), NEW h, Sums(s, h)
  PROVE  Total(s) = h[Len(s)]
<1>1. PICK g : Sums(s, g) /\ Total(s) = g[Len(s)]
  BY TotalIsSum
<1>2. \A i \in 0..Len(s) : g[i] = h[i]
  BY <1>1, SumsUnique
<1>3. Len(s) \in 0..Len(s)
  OBVIOUS
<1> QED BY <1>1, <1>2, <1>3

--------------------------------------------------------------------------
Areas == [area : Names \X Nat, len : Nat]
Lists == Seq(Areas)

\* Where the areas of a list begin and end.
Offsets(list, h) ==
  /\ h \in [0..Len(list) -> Nat]
  /\ h[0] = 0
  /\ \A i \in 1..Len(list) : h[i] = h[i - 1] + list[i].len

LEMMA ListType ==
  ASSUME NEW list \in Lists
  PROVE  /\ Len(list) \in Nat /\ DOMAIN list = 1..Len(list)
         /\ \A i \in 1..Len(list) : list[i] \in Areas /\ list[i].len \in Nat
<1>1. /\ Len(list) \in Nat /\ DOMAIN list = 1..Len(list)
      /\ \A i \in 1..Len(list) : list[i] \in Areas
  BY DEF Lists
<1>2. \A x \in Areas : x.len \in Nat
  BY DEF Areas
<1> QED BY <1>1, <1>2

LEMMA LengthOf ==
  ASSUME NEW list \in Lists, NEW h, Offsets(list, h)
  PROVE  /\ Length(list) = h[Len(list)]
         /\ \A k \in 0..Len(list) : Length(SubSeq(list, 1, k)) = h[k]
<1> DEFINE lens(l) == [i \in DOMAIN l |-> l[i].len]
<1>0. Len(list) \in Nat /\ DOMAIN list = 1..Len(list) /\ \A i \in 1..Len(list) : list[i].len \in Nat
  BY ListType
<1>1. lens(list) \in Seq(Nat) /\ Len(lens(list)) = Len(list) /\ \A i \in 1..Len(list) : lens(list)[i] = list[i].len
  BY <1>0
<1>2. Sums(lens(list), h)
  BY <1>1 DEF Sums, Offsets
<1>3. Length(list) = h[Len(list)]
  <2>1. Total(lens(list)) = h[Len(lens(list))]
    <3> HIDE DEF lens
    <3> QED BY <1>1, <1>2, TotalOf
  <2> QED BY <1>1, <2>1 DEF Length
<1>4. ASSUME NEW k \in 0..Len(list) PROVE Length(SubSeq(list, 1, k)) = h[k]
  <2> DEFINE l == SubSeq(list, 1, k)
             g == [i \in 0..k |-> h[i]]
  <2>1. /\ l \in Lists /\ Len(l) = k /\ DOMAIN l = 1..k
        /\ \A i \in 1..k : l[i] = list[i]
    BY <1>0 DEF Lists
  <2>2. /\ lens(l) \in Seq(Nat) /\ Len(lens(l)) = k
        /\ \A i \in 1..k : lens(l)[i] = list[i].len
    <3> HIDE DEF l
    <3> QED BY <1>0, <2>1
  <2>3. g \in [0..k -> Nat] /\ g[0] = 0 /\ \A i \in 1..k : g[i] = g[i - 1] + list[i].len
    BY DEF Offsets
  <2>4. Sums(lens(l), g)
    <3> HIDE DEF g, l, lens
    <3> QED BY <2>2, <2>3 DEF Sums
  <2>5. Total(lens(l)) = g[k]
    <3> HIDE DEF g, l, lens
    <3> QED BY <2>2, <2>4, TotalOf
  <2>6. g[k] = h[k] /\ Length(l) = Total(lens(l))
    BY DEF Length
  <2> QED BY <2>5, <2>6
<1> QED BY <1>3, <1>4

LEMMA OffsetsExist ==
  ASSUME NEW list \in Lists
  PROVE  \E h : Offsets(list, h)
<1> DEFINE lens == [i \in DOMAIN list |-> list[i].len]
<1>0. Len(list) \in Nat /\ DOMAIN list = 1..Len(list) /\ \A i \in 1..Len(list) : list[i].len \in Nat
  BY ListType
<1>1. lens \in Seq(Nat) /\ Len(lens) = Len(list) /\ \A i \in 1..Len(list) : lens[i] = list[i].len
  BY <1>0
<1>2. PICK h : Sums(lens, h)
  <2> HIDE DEF lens
  <2> QED BY <1>1, TotalIsSum
<1>3. Offsets(list, h)
  <2> HIDE DEF lens
  <2> QED BY <1>1, <1>2 DEF Sums, Offsets
<1> QED BY <1>3

LEMMA LengthType ==
  ASSUME NEW list \in Lists
  PROVE  Length(list) \in Nat
<1>1. PICK h : Offsets(list, h)
  BY OffsetsExist
<1>2. Length(list) = h[Len(list)]
  BY <1>1, LengthOf
<1>3. Len(list) \in 0..Len(list)
  BY DEF Lists
<1> QED BY <1>1, <1>2, <1>3 DEF Offsets

--------------------------------------------------------------------------
(* Where the areas of a list lie: one behind the other.                    *)

LEMMA NothingLaid ==
  /\ <<>> \in Lists /\ Length(<<>>) = 0
  /\ \A at : Place(<<>>, at) = {}
<1>1. <<>> \in Lists /\ Len(<<>>) = 0
  BY DEF Lists
<1> DEFINE h == [i \in 0..0 |-> 0]
<1>2. Offsets(<<>>, h) /\ h[0] = 0
  BY <1>1 DEF Offsets
<1>3. Length(<<>>) = h[Len(<<>>)]
  <2> HIDE DEF h
  <2> QED BY <1>1, <1>2, LengthOf
<1>4. \A at : Place(<<>>, at) = {}
  BY DEF Place
<1> QED BY <1>1, <1>2, <1>3, <1>4

LEMMA OneLaid ==
  ASSUME NEW x \in Names \X Nat, NEW n \in Nat
  PROVE  /\ P(x, n) \in Lists /\ Len(P(x, n)) = 1 /\ Length(P(x, n)) = n
         /\ \A at \in Nat : Place(P(x, n), at) = IF n = 0 THEN {} ELSE {[area |-> x, at |-> at, len |-> n]}
<1> DEFINE l == P(x, n)
           h == [i \in 0..1 |-> IF i = 0 THEN 0 ELSE n]
<1>1. l \in Lists /\ Len(l) = 1 /\ l[1] = [area |-> x, len |-> n] /\ DOMAIN l = 1..1
  BY DEF P, Lists, Areas
<1>2. Offsets(l, h) /\ h[0] = 0 /\ h[1] = n
  <2> HIDE DEF l
  <2> QED BY <1>1 DEF Offsets
<1>3. Length(l) = h[1] /\ Length(SubSeq(l, 1, 0)) = h[0]
  <2>1. 0 \in 0..Len(l)
    BY <1>1
  <2> HIDE DEF h, l
  <2> QED BY <1>1, <1>2, <2>1, LengthOf
<1>4. ASSUME NEW at \in Nat
      PROVE  Place(l, at) = IF n = 0 THEN {} ELSE {[area |-> x, at |-> at, len |-> n]}
  <2>1. SubSeq(l, 1, 1 - 1) = SubSeq(l, 1, 0)
    OBVIOUS
  <2>2. CASE n = 0
    <3>1. {j \in DOMAIN l : l[j].len > 0} = {}
      BY <1>1, <2>2
    <3> HIDE DEF l
    <3> QED BY <2>2, <3>1 DEF Place
  <2>3. CASE n # 0
    <3>1. {j \in DOMAIN l : l[j].len > 0} = {1}
      BY <1>1, <2>3
    <3>2. Place(l, at) = {[area |-> l[1].area, at |-> at + Length(SubSeq(l, 1, 1 - 1)), len |-> l[1].len]}
      <4> HIDE DEF l
      <4> QED BY <3>1 DEF Place
    <3> HIDE DEF l, h
    <3> QED BY <1>1, <1>2, <1>3, <2>1, <2>3, <3>2
  <2> QED BY <2>2, <2>3
<1> QED BY <1>1, <1>2, <1>3, <1>4

\* Where Place puts the areas, by the offsets.
LEMMA PlaceIs ==
  ASSUME NEW list \in Lists, NEW h, Offsets(list, h), NEW at \in Nat
  PROVE  Place(list, at) = {[area |-> list[i].area, at |-> at + h[i - 1], len |-> list[i].len] :
                              i \in {j \in 1..Len(list) : list[j].len > 0}}
<1>1. \A i \in 1..Len(list) : Length(SubSeq(list, 1, i - 1)) = h[i - 1]
  <2> SUFFICES ASSUME NEW i \in 1..Len(list) PROVE Length(SubSeq(list, 1, i - 1)) = h[i - 1]
    OBVIOUS
  <2>1. i - 1 \in 0..Len(list)
    BY ListType
  <2> QED BY <2>1, LengthOf
<1>2. DOMAIN list = 1..Len(list)
  BY ListType
<1> QED BY <1>1, <1>2 DEF Place

\* The areas in set fill what is between from and to.
Tiles(set, from, to) ==
  /\ \A x \in set : x.at \in Nat /\ x.len \in Nat \ {0} /\ from <= x.at /\ x.at + x.len <= to
  /\ \A k \in from..to - 1 : \E x \in set : k \in x.at..x.at + x.len - 1

LEMMA OffsetsRise ==
  ASSUME NEW list \in Lists, NEW h, Offsets(list, h)
  PROVE  \A i \in 0..Len(list) : h[i] \in Nat /\ h[i] <= h[Len(list)]
<1> DEFINE n == Len(list)
           T == {i \in 0..n : ~ h[n - i] <= h[n]}
<1>0. n \in Nat
  BY ListType
<1>1. \A i \in 0..n : h[i] \in Nat
  BY DEF Offsets
<1>2. T \subseteq 0..n /\ 0 \notin T
  BY <1>0, <1>1
<1>3. \A i \in 1..n : i - 1 \notin T => i \notin T
  <2> SUFFICES ASSUME NEW i \in 1..n, i - 1 \notin T PROVE i \notin T
    OBVIOUS
  <2>1. h[n - (i - 1)] <= h[n]
    BY <1>0
  <2>2. n - (i - 1) \in 1..n /\ (n - (i - 1)) - 1 = n - i /\ n - i \in 0..n
    BY <1>0
  <2>3. h[n - (i - 1)] = h[n - i] + list[n - (i - 1)].len /\ list[n - (i - 1)].len \in Nat
    BY <2>2, ListType DEF Offsets
  <2>4. h[n - i] \in Nat /\ h[n] \in Nat /\ n - (i - 1) \in 0..n /\ h[n - (i - 1)] \in Nat
    BY <1>0, <1>1, <2>2
  <2>5. h[n - i] <= h[n]
    BY <2>1, <2>3, <2>4
  <2> QED BY <2>5
<1>4. T = {}
  <2> HIDE DEF T, n
  <2> QED BY <1>0, <1>2, <1>3, NoneBad
<1>5. ASSUME NEW i \in 0..n PROVE h[i] <= h[n]
  <2>1. n - i \in 0..n /\ n - (n - i) = i
    BY <1>0
  <2>2. n - i \notin T
    BY <1>4
  <2> QED BY <2>1, <2>2
<1> QED BY <1>1, <1>5

LEMMA PlaceTiles ==
  ASSUME NEW list \in Lists, NEW at \in Nat
  PROVE  Tiles(Place(list, at), at, at + Length(list))
<1>1. PICK h : Offsets(list, h)
  BY OffsetsExist
<1> DEFINE n == Len(list)
           L == {j \in 1..n : list[j].len > 0}
           Area(i) == [area |-> list[i].area, at |-> at + h[i - 1], len |-> list[i].len]
           H == Place(list, at)
<1>2. H = {Area(i) : i \in L}
  BY <1>1, PlaceIs
<1>3. Length(list) = h[n]
  BY <1>1, LengthOf
<1>4. /\ n \in Nat /\ \A i \in 0..n : h[i] \in Nat /\ h[i] <= h[n]
      /\ \A i \in 1..n : list[i].len \in Nat /\ h[i] = h[i - 1] + list[i].len /\ i - 1 \in 0..n
  <2>1. n \in Nat /\ \A i \in 0..n : h[i] \in Nat /\ h[i] <= h[n]
    BY <1>1, ListType, OffsetsRise
  <2>2. \A i \in 1..n : list[i].len \in Nat
    BY ListType
  <2>3. \A i \in 1..n : h[i] = h[i - 1] + list[i].len
    BY <1>1 DEF Offsets
  <2>4. \A i \in 1..n : i - 1 \in 0..n
    BY <2>1
  <2> HIDE DEF n
  <2> QED BY <2>1, <2>2, <2>3, <2>4
<1>5. ASSUME NEW x \in H
      PROVE  x.at \in Nat /\ x.len \in Nat \ {0} /\ at <= x.at /\ x.at + x.len <= at + Length(list)
  <2>1. PICK i \in L : x = Area(i)
    BY <1>2
  <2>2. i \in 1..n /\ x.at = at + h[i - 1] /\ x.len = list[i].len /\ x.len > 0
    BY <2>1
  <2>3. /\ h[i - 1] \in Nat /\ h[i] \in Nat /\ h[i] <= h[n] /\ h[i] = h[i - 1] + x.len
        /\ x.len \in Nat /\ h[n] \in Nat
    BY <1>4, <2>2
  <2> HIDE DEF H, n
  <2> QED BY <1>3, <2>2, <2>3
<1>6. ASSUME NEW k \in at..at + Length(list) - 1
      PROVE  \E x \in H : k \in x.at..x.at + x.len - 1
  <2> DEFINE T == {i \in Nat : i <= n /\ k - at < h[i]}
  <2>0. k \in Nat /\ k - at \in Nat /\ k - at < h[n]
    BY <1>3, <1>4
  <2>1. T \subseteq Nat /\ n \in T
    BY <1>4, <2>0
  <2>2. PICK i \in T : \A j \in T : i <= j
    <3> HIDE DEF T
    <3> QED BY <2>1, LeastNat
  <2>3. i \in Nat /\ i <= n /\ k - at < h[i]
    OBVIOUS
  <2>4. i # 0
    BY <1>1, <2>0, <2>3 DEF Offsets
  <2>5. i \in 1..n /\ i - 1 \in Nat /\ i - 1 <= n /\ ~ i <= i - 1
    BY <1>4, <2>3, <2>4
  <2>6. ~ (k - at < h[i - 1])
    <3>1. i - 1 \notin T
      <4> HIDE DEF T
      <4> QED BY <2>2, <2>5
    <3> QED BY <2>5, <3>1
  <2>7. /\ h[i - 1] \in Nat /\ h[i] \in Nat /\ h[i] = h[i - 1] + list[i].len
        /\ list[i].len \in Nat
    BY <1>4, <2>5
  <2>8. list[i].len > 0 /\ h[i - 1] <= k - at
    BY <2>0, <2>3, <2>6, <2>7
  <2>9. Area(i) \in H
    BY <1>2, <2>5, <2>8
  <2>10. k \in Area(i).at..Area(i).at + Area(i).len - 1
    <3>1. Area(i).at = at + h[i - 1] /\ Area(i).len = list[i].len
      OBVIOUS
    <3>2. at + h[i - 1] <= k /\ k <= at + h[i - 1] + list[i].len - 1 /\ k \in Int
          /\ at + h[i - 1] \in Int /\ at + h[i - 1] + list[i].len - 1 \in Int
      <4> HIDE DEF T, H, L, n, Area
      <4> QED BY <2>0, <2>3, <2>7, <2>8
    <3> HIDE DEF Area
    <3> QED BY <3>1, <3>2
  <2> HIDE DEF H, Area
  <2> QED BY <2>9, <2>10
<1>7. Tiles(H, at, at + Length(list))
  <2>1. Length(list) \in Nat
    BY LengthType
  <2> HIDE DEF H, L, Area
  <2> QED BY <1>5, <1>6, <2>1 DEF Tiles
<1> QED BY <1>7

\* Two lists, one behind the other.
LEMMA Joined ==
  ASSUME NEW a \in Lists, NEW b \in Lists
  PROVE  /\ a \o b \in Lists /\ Len(a \o b) = Len(a) + Len(b)
         /\ Length(a \o b) = Length(a) + Length(b)
         /\ \A at \in Nat : Place(a \o b, at) = Place(a, at) \cup Place(b, at + Length(a))
<1> DEFINE m == Len(a)
           n == Len(b)
           c == a \o b
<1>1. PICK g : Offsets(a, g)
  BY OffsetsExist
<1>2. PICK h : Offsets(b, h)
  BY OffsetsExist
<1> DEFINE k == [i \in 0..m + n |-> IF i <= m THEN g[i] ELSE g[m] + h[i - m]]
<1>3. /\ m \in Nat /\ n \in Nat
      /\ \A i \in 1..m : a[i].len \in Nat
      /\ \A i \in 1..n : b[i].len \in Nat
  BY ListType
<1>4. /\ c \in Lists /\ Len(c) = m + n
      /\ \A i \in 1..m : c[i] = a[i]
      /\ \A i \in 1..n : c[m + i] = b[i]
  BY <1>3 DEF Lists
<1>5. /\ g \in [0..m -> Nat] /\ g[0] = 0 /\ \A i \in 1..m : g[i] = g[i - 1] + a[i].len
      /\ h \in [0..n -> Nat] /\ h[0] = 0 /\ \A i \in 1..n : h[i] = h[i - 1] + b[i].len
  BY <1>1, <1>2 DEF Offsets
<1>6. /\ k \in [0..m + n -> Nat]
      /\ \A i \in 0..m : k[i] = g[i]
      /\ \A i \in 0..n : k[m + i] = g[m] + h[i]
  <2>1. \A i \in 0..m : k[i] = g[i]
    BY <1>3
  <2>2. ASSUME NEW i \in 0..n PROVE k[m + i] = g[m] + h[i]
    <3>1. m + i \in 0..m + n /\ (m + i) - m = i
      BY <1>3
    <3>2. CASE i = 0
      BY <1>3, <1>5, <3>2
    <3>3. CASE i # 0
      <4>1. ~ m + i <= m
        BY <1>3, <3>3
      <4> QED BY <3>1, <4>1
    <3> QED BY <3>2, <3>3
  <2>3. k \in [0..m + n -> Nat]
    BY <1>3, <1>5
  <2> QED BY <2>1, <2>2, <2>3
<1> HIDE DEF k
<1>7. Offsets(c, k)
  <2>1. ASSUME NEW i \in 1..m + n PROVE k[i] = k[i - 1] + c[i].len
    <3>1. CASE i <= m
      <4>1. i \in 1..m /\ i \in 0..m /\ i - 1 \in 0..m
        BY <1>3, <3>1
      <4> QED BY <1>4, <1>5, <1>6, <4>1
    <3>2. CASE ~ i <= m
      <4> DEFINE j == i - m
      <4>1. j \in 1..n /\ j \in 0..n /\ j - 1 \in 0..n /\ i = m + j /\ i - 1 = m + (j - 1)
        BY <1>3, <3>2
      <4> HIDE DEF j
      <4>2. k[i] = g[m] + h[j] /\ k[i - 1] = g[m] + h[j - 1] /\ c[i] = b[j] /\ h[j] = h[j - 1] + b[j].len
        BY <1>4, <1>5, <1>6, <4>1
      <4>3. g[m] \in Nat /\ h[j] \in Nat /\ h[j - 1] \in Nat /\ b[j].len \in Nat
        <5>1. m \in 0..m
          BY <1>3
        <5> QED BY <1>3, <1>5, <4>1, <5>1
      <4> QED BY <4>2, <4>3
    <3> QED BY <3>1, <3>2
  <2>2. k[0] = 0
    BY <1>3, <1>5, <1>6
  <2> HIDE DEF c
  <2> QED BY <1>4, <1>6, <2>1, <2>2 DEF Offsets
<1>8. Length(a) = g[m] /\ Length(b) = h[n] /\ Length(c) = k[m + n]
  <2>1. Length(c) = k[Len(c)]
    <3> HIDE DEF c
    <3> QED BY <1>4, <1>7, LengthOf
  <2> QED BY <1>1, <1>2, <1>4, <2>1, LengthOf
<1>9. Length(c) = Length(a) + Length(b)
  BY <1>3, <1>6, <1>8
<1>10. ASSUME NEW at \in Nat PROVE Place(c, at) = Place(a, at) \cup Place(b, at + Length(a))
  <2> DEFINE Area(l, o, f, i) == [area |-> l[i].area, at |-> o + f[i - 1], len |-> l[i].len]
             KA == {j \in 1..m : a[j].len > 0}
             KB == {j \in 1..n : b[j].len > 0}
             KC == {j \in 1..m + n : c[j].len > 0}
  <2>1. Place(a, at) = {Area(a, at, g, i) : i \in KA}
    BY <1>1, PlaceIs
  <2>2. Place(b, at + g[m]) = {Area(b, at + g[m], h, i) : i \in KB}
    <3> DEFINE o == at + g[m]
    <3>1. o \in Nat
      BY <1>3, <1>5
    <3> HIDE DEF o
    <3>2. Place(b, o) = {Area(b, o, h, i) : i \in KB}
      BY <1>2, <3>1, PlaceIs
    <3> QED BY <3>2 DEF o
  <2>3. Place(c, at) = {Area(c, at, k, i) : i \in KC}
    <3>1. Place(c, at) = {[area |-> c[i].area, at |-> at + k[i - 1], len |-> c[i].len] :
                            i \in {j \in 1..Len(c) : c[j].len > 0}}
      <4> HIDE DEF c
      <4>1. c \in Lists /\ Offsets(c, k) /\ at \in Nat
        BY <1>4, <1>7
      <4> QED BY <4>1, PlaceIs
    <3>2. Len(c) = m + n
      BY <1>4
    <3> HIDE DEF c
    <3> QED BY <3>1, <3>2
  <2>4. \A i \in KA : i \in KC /\ Area(c, at, k, i) = Area(a, at, g, i)
    <3> SUFFICES ASSUME NEW i \in KA PROVE i \in KC /\ Area(c, at, k, i) = Area(a, at, g, i)
      OBVIOUS
    <3>1. i \in 1..m /\ i - 1 \in 0..m /\ i \in 1..m + n /\ a[i].len > 0
      BY <1>3
    <3>2. c[i] = a[i] /\ k[i - 1] = g[i - 1]
      BY <1>4, <1>6, <3>1
    <3> HIDE DEF c
    <3> QED BY <3>1, <3>2
  <2>5. \A i \in KB : m + i \in KC /\ Area(c, at, k, m + i) = Area(b, at + g[m], h, i)
    <3> SUFFICES ASSUME NEW i \in KB
                 PROVE  m + i \in KC /\ Area(c, at, k, m + i) = Area(b, at + g[m], h, i)
      OBVIOUS
    <3>1. i \in 1..n /\ i - 1 \in 0..n /\ m + i \in 1..m + n /\ (m + i) - 1 = m + (i - 1) /\ b[i].len > 0
      BY <1>3
    <3>2. c[m + i] = b[i] /\ k[m + (i - 1)] = g[m] + h[i - 1]
      BY <1>4, <1>6, <3>1
    <3>3. g[m] \in Nat /\ h[i - 1] \in Nat
      <4>1. m \in 0..m
        BY <1>3
      <4> QED BY <1>5, <3>1, <4>1
    <3>4. at + (g[m] + h[i - 1]) = (at + g[m]) + h[i - 1]
      <4> HIDE DEF m
      <4> QED BY <3>3
    <3> HIDE DEF c
    <3> QED BY <3>1, <3>2, <3>4
  <2>6. \A i \in KC : i \in KA \/ \E j \in KB : i = m + j
    <3> SUFFICES ASSUME NEW i \in KC, i \notin KA PROVE \E j \in KB : i = m + j
      OBVIOUS
    <3>1. i \in 1..m + n /\ c[i].len > 0
      OBVIOUS
    <3>2. ~ i <= m
      BY <1>3, <1>4, <3>1
    <3>3. i - m \in 1..n /\ i = m + (i - m)
      BY <1>3, <3>1, <3>2
    <3>4. c[i] = b[i - m]
      BY <1>4, <3>3
    <3> HIDE DEF c
    <3> QED BY <3>1, <3>3, <3>4
  <2> HIDE DEF Area, KA, KB, KC
  <2>7. {Area(c, at, k, i) : i \in KC} = {Area(a, at, g, i) : i \in KA} \cup {Area(b, at + g[m], h, i) : i \in KB}
    BY <2>4, <2>5, <2>6
  <2> QED BY <1>8, <2>1, <2>2, <2>3, <2>7
<1> QED BY <1>4, <1>9, <1>10

--------------------------------------------------------------------------
(* Lists compared with one another.                                        *)

LEMMA Compared ==
  ASSUME NEW a \in Lists, NEW b \in Lists, Len(a) = Len(b),
         \A i \in 1..Len(a) : a[i].len <= b[i].len
  PROVE  Length(a) <= Length(b)
<1> DEFINE n == Len(a)
<1>1. PICK g : Offsets(a, g)
  BY OffsetsExist
<1>2. PICK h : Offsets(b, h)
  BY OffsetsExist
<1> DEFINE T == {i \in 0..n : ~ g[i] <= h[i]}
<1>3. /\ n \in Nat /\ Len(b) = n
      /\ \A i \in 1..n : a[i].len \in Nat /\ b[i].len \in Nat /\ i \in 0..n /\ i - 1 \in 0..n
  BY ListType
<1>4. /\ \A i \in 0..n : g[i] \in Nat /\ h[i] \in Nat
      /\ g[0] = 0 /\ h[0] = 0
      /\ \A i \in 1..n : g[i] = g[i - 1] + a[i].len /\ h[i] = h[i - 1] + b[i].len
  BY <1>1, <1>2, <1>3 DEF Offsets
<1>5. T \subseteq 0..n /\ 0 \notin T
  BY <1>4
<1>6. \A i \in 1..n : i - 1 \notin T => i \notin T
  <2> SUFFICES ASSUME NEW i \in 1..n, i - 1 \notin T PROVE i \notin T
    OBVIOUS
  <2>1. g[i - 1] <= h[i - 1] /\ a[i].len <= b[i].len
    BY <1>3
  <2>2. /\ g[i] = g[i - 1] + a[i].len /\ h[i] = h[i - 1] + b[i].len
        /\ g[i - 1] \in Nat /\ h[i - 1] \in Nat /\ a[i].len \in Nat /\ b[i].len \in Nat
    BY <1>3, <1>4
  <2>3. g[i] <= h[i]
    BY <2>1, <2>2
  <2> QED BY <2>3
<1>7. T = {}
  <2> HIDE DEF T, n
  <2> QED BY <1>3, <1>5, <1>6, NoneBad
<1>8. Length(a) = g[n] /\ Length(b) = h[n]
  BY <1>1, <1>2, <1>3, LengthOf
<1>9. n \in 0..n
  BY <1>3
<1> QED BY <1>7, <1>8, <1>9

LEMMA Bounded ==
  ASSUME NEW a \in Lists, NEW k \in Nat, \A i \in 1..Len(a) : a[i].len <= k
  PROVE  Length(a) <= Len(a) * k
<1> DEFINE n == Len(a)
<1>1. PICK g : Offsets(a, g)
  BY OffsetsExist
<1> DEFINE T == {i \in 0..n : ~ g[i] <= i * k}
<1>3. /\ n \in Nat
      /\ \A i \in 1..n : a[i].len \in Nat /\ i \in 0..n /\ i - 1 \in 0..n
  BY ListType
<1>4. /\ \A i \in 0..n : g[i] \in Nat
      /\ g[0] = 0
      /\ \A i \in 1..n : g[i] = g[i - 1] + a[i].len
  BY <1>1, <1>3 DEF Offsets
<1>5. T \subseteq 0..n /\ 0 \notin T
  <2>1. 0 * k = 0
    OBVIOUS
  <2> QED BY <1>4, <2>1
<1>6. \A i \in 1..n : i - 1 \notin T => i \notin T
  <2> SUFFICES ASSUME NEW i \in 1..n, i - 1 \notin T PROVE i \notin T
    OBVIOUS
  <2>1. g[i - 1] <= (i - 1) * k /\ a[i].len <= k
    BY <1>3
  <2>2. /\ g[i] = g[i - 1] + a[i].len
        /\ g[i - 1] \in Nat /\ a[i].len \in Nat
    BY <1>3, <1>4
  <2>3. i \in Int /\ (i - 1) * k = i * k - k /\ i * k \in Int
    OBVIOUS
  <2>4. g[i] <= i * k
    <3> HIDE DEF T, n
    <3> QED BY <2>1, <2>2, <2>3
  <2> QED BY <2>4
<1>7. T = {}
  <2> HIDE DEF T, n
  <2> QED BY <1>3, <1>5, <1>6, NoneBad
<1>8. Length(a) = g[n]
  BY <1>1, LengthOf
<1>9. n \in 0..n
  BY <1>3
<1> QED BY <1>7, <1>8, <1>9

\* What is written of a list that a failure cuts short.
LEMMA Prefix ==
  ASSUME NEW a \in Lists, NEW k \in 0..Len(a)
  PROVE  /\ SubSeq(a, 1, k) \in Lists
         /\ Length(SubSeq(a, 1, k)) \in Nat
         /\ Length(SubSeq(a, 1, k)) <= Length(a)
<1>1. PICK h : Offsets(a, h)
  BY OffsetsExist
<1>2. SubSeq(a, 1, k) \in Lists
  BY ListType DEF Lists
<1>3. Length(SubSeq(a, 1, k)) = h[k] /\ Length(a) = h[Len(a)]
  BY <1>1, LengthOf
<1>4. h[k] \in Nat /\ h[k] <= h[Len(a)]
  BY <1>1, OffsetsRise
<1> QED BY <1>2, <1>3, <1>4

--------------------------------------------------------------------------
(* The layouts.                                                            *)

\* A list of n areas, of the length k.
Sized(list, n, k) ==
  list \in Lists /\ n \in Nat /\ k \in Nat /\ Len(list) = n /\ Length(list) = k

LEMMA SizedJoin ==
  ASSUME NEW a, NEW b, NEW m, NEW n, NEW j, NEW k, Sized(a, m, j), Sized(b, n, k)
  PROVE  Sized(a \o b, m + n, j + k)
<1>1. a \in Lists /\ b \in Lists /\ m \in Nat /\ n \in Nat /\ j \in Nat /\ k \in Nat
  BY DEF Sized
<1>2. /\ a \o b \in Lists /\ Len(a \o b) = Len(a) + Len(b)
      /\ Length(a \o b) = Length(a) + Length(b)
  BY <1>1, Joined
<1>3. m + n \in Nat /\ j + k \in Nat
  BY <1>1
<1> QED BY <1>2, <1>3 DEF Sized

LEMMA SizedOne ==
  ASSUME NEW x \in Names \X Nat, NEW n \in Nat
  PROVE  Sized(P(x, n), 1, n)
BY OneLaid DEF Sized

LEMMA SizedIf ==
  ASSUME NEW c \in BOOLEAN, NEW a, NEW n, NEW k, Sized(a, n, k)
  PROVE  Sized(If(c, a), IF c THEN n ELSE 0, IF c THEN k ELSE 0)
<1>1. Sized(<<>>, 0, 0)
  <2>1. Len(<<>>) = 0
    OBVIOUS
  <2> QED BY <2>1, NothingLaid DEF Sized
<1> QED BY <1>1 DEF If

LEMMA Sizes ==
  /\ Hdr \in Nat \ {0} /\ Regs \in Nat \ {0} /\ Ram \in Nat \ {0}
  /\ Req \in Nat \ {0} /\ Rsp \in Nat \ {0} /\ ExtraRsp \in Nat \ {0}
  /\ Eft \in Nat \ {0} /\ Fce \in Nat \ {0} /\ Mq \in Nat \ {0}
  /\ QueHdr \in Nat \ {0} /\ Tmpl \in Nat \ {0}
  /\ MaxQueue["req"] \in Nat /\ MaxQueue["rsp"] \in Nat
  /\ \A f \in Firmware : Mem[f] \in Nat \ {0}
  /\ \A t \in Templates : Walked[t] \in Nat \ {0}
<1>1. {Hdr, Regs, Ram, Req, Rsp, ExtraRsp, Eft, Fce, Mq, QueHdr, Tmpl} \subseteq Nat \ {0}
  BY FwDumpAssumption
<1>2. MaxQueue["req"] \in Nat /\ MaxQueue["rsp"] \in Nat
  BY FwDumpAssumption DEF Kinds
<1>3. \A f \in Firmware : Mem[f] \in Nat \ {0}
  <2> DEFINE MemSizes == {n \in 4..4000 : n % 4 = 0}
  <2>1. \A f \in Firmware : Mem[f] \in MemSizes
    BY FwDumpAssumption
  <2>2. \A x \in MemSizes : x \in Nat \ {0}
    OBVIOUS
  <2> HIDE DEF MemSizes
  <2> QED BY <2>1, <2>2
<1>4. \A t \in Templates : Walked[t] \in Nat \ {0}
  BY FwDumpAssumption
<1> QED BY <1>1, <1>2, <1>3, <1>4

LEMMA AreaNames ==
  /\ \A n \in Names : A(n) \in Names \X Nat
  /\ \A k \in Kinds, q \in Nat : <<k, q>> \in Names \X Nat
BY DEF A, Kinds, Names

LEMMA SizedA ==
  ASSUME NEW n \in Names, NEW k, k \in Nat
  PROVE  Sized(P(A(n), k), 1, k)
BY SizedOne, AreaNames

LEMMA Queues2 == Sized(copy_queues, 1 + 1, Req + Rsp)
<1>1. Sized(P(A("req"), Req), 1, Req) /\ Sized(P(A("rsp"), Rsp), 1, Rsp)
  BY Sizes, SizedA DEF Names
<1> QED BY <1>1, SizedJoin DEF copy_queues

LEMMA RamIs == Sized(dump_ram, 1 + 1, Regs + Ram)
<1>1. Sized(P(A("regs"), Regs), 1, Regs) /\ Sized(P(A("ram"), Ram), 1, Ram)
  BY Sizes, SizedA DEF Names
<1> QED BY <1>1, SizedJoin DEF dump_ram

LEMMA BodyIs ==
  ASSUME NEW mem \in Nat, NEW e \in {0, Eft}
  PROVE  \E n \in Nat : /\ n >= 4
                        /\ Sized(Body(mem, e), n, Regs + Ram + (IF chip # "2100" THEN mem ELSE 0) + (Req + Rsp) + e)
<1> DEFINE b == If(chip # "2100", P(A("ext"), mem))
           d == If(e > 0, P(A("eft"), e))
           nb == IF chip # "2100" THEN 1 ELSE 0
           nd == IF e > 0 THEN 1 ELSE 0
           lb == IF chip # "2100" THEN mem ELSE 0
           n == (((1 + 1) + nb) + (1 + 1)) + nd
<1>1. Sized(b, nb, lb)
  <2>1. Sized(P(A("ext"), mem), 1, mem)
    BY SizedA DEF Names
  <2> QED BY <2>1, SizedIf
<1>2. Sized(d, nd, e)
  <2>1. e \in Nat
    BY Sizes
  <2>2. Sized(P(A("eft"), e), 1, e)
    BY <2>1, SizedA DEF Names
  <2>3. Sized(d, nd, IF e > 0 THEN e ELSE 0)
    <3>1. (e > 0) \in BOOLEAN
      OBVIOUS
    <3> QED BY <2>2, <3>1, SizedIf
  <2>4. (IF e > 0 THEN e ELSE 0) = e
    BY <2>1
  <2> QED BY <2>3, <2>4
<1> HIDE DEF b, d, nb, nd, lb
<1>3. Sized(dump_ram \o b, (1 + 1) + nb, Regs + Ram + lb)
  BY RamIs, <1>1, SizedJoin
<1>4. Sized((dump_ram \o b) \o copy_queues, ((1 + 1) + nb) + (1 + 1), Regs + Ram + lb + (Req + Rsp))
  BY Queues2, <1>3, SizedJoin
<1>5. Sized(((dump_ram \o b) \o copy_queues) \o d, n, Regs + Ram + lb + (Req + Rsp) + e)
  BY <1>2, <1>4, SizedJoin
<1>6. Body(mem, e) = ((dump_ram \o b) \o copy_queues) \o d
  BY DEF Body, b, d, dump_ram
<1>7. n \in Nat /\ n >= 4
  <2>1. nb \in Nat /\ nd \in Nat
    BY DEF nb, nd
  <2> QED BY <2>1
<1> QED BY <1>5, <1>6, <1>7 DEF lb

--------------------------------------------------------------------------
(* The chain: queues that exist, and the room kept for them.               *)

LEMMA CreatedIs ==
  ASSUME NEW kind \in Kinds
  PROVE  \E n \in 0..MaxQueue[kind] : Created(kind) = 1..n /\ Cardinality(Created(kind)) = n
<1> DEFINE m == MaxQueue[kind]
           T == {p \in Nat : p \in 1..m /\ <<kind, p>> \notin queues}
<1>0. m \in Nat
  BY FwDumpAssumption
<1>1. Created(kind) = {q \in 1..m : \A p \in 1..q : <<kind, p>> \in queues}
  BY DEF Created, Queues
<1>2. \E n \in 0..m : Created(kind) = 1..n
  <2>1. CASE T = {}
    <3>1. \A p \in 1..m : <<kind, p>> \in queues
      BY <2>1, <1>0
    <3>2. \A q \in 1..m : \A p \in 1..q : p \in 1..m
      BY <1>0
    <3>3. Created(kind) = 1..m
      BY <1>1, <3>1, <3>2
    <3> QED BY <1>0, <3>3
  <2>2. CASE T # {}
    <3>0. T \subseteq Nat
      OBVIOUS
    <3>1. PICK k \in T : \A j \in T : k <= j
      <4> HIDE DEF T
      <4> QED BY <2>2, <3>0, LeastNat
    <3>2. k \in Nat /\ k \in 1..m /\ <<kind, k>> \notin queues
      OBVIOUS
    <3>3. \A p \in 1..(k - 1) : p \in 1..m /\ <<kind, p>> \in queues
      <4> SUFFICES ASSUME NEW p \in 1..(k - 1) PROVE p \in 1..m /\ <<kind, p>> \in queues
        OBVIOUS
      <4>1. p \in Nat /\ p \in 1..m /\ ~ k <= p
        BY <1>0, <3>2
      <4>2. p \notin T
        <5> HIDE DEF T
        <5> QED BY <3>1, <4>1
      <4> QED BY <4>1, <4>2
    <3>4. \A q \in 1..m : q \notin 1..(k - 1) => k \in 1..q
      BY <1>0, <3>2
    <3>5. \A q \in 1..(k - 1) : \A p \in 1..q : p \in 1..(k - 1)
      BY <3>2
    <3>6. Created(kind) = 1..(k - 1)
      <4> HIDE DEF T, m
      <4> QED BY <1>1, <3>2, <3>3, <3>4, <3>5
    <3>7. k - 1 \in 0..m
      BY <1>0, <3>2
    <3> QED BY <3>6, <3>7
  <2> QED BY <2>1, <2>2
<1>3. \A n \in 0..m : Cardinality(1..n) = n
  <2> SUFFICES ASSUME NEW n \in 0..m PROVE Cardinality(1..n) = n
    OBVIOUS
  <2>1. 1 \in Int /\ n \in Int /\ ~ 1 > n + 1
    BY <1>0
  <2>2. Cardinality(1..n) = IF 1 > n THEN 0 ELSE n - 1 + 1
    BY <2>1, FS_Interval
  <2> QED BY <1>0, <2>2
<1> QED BY <1>2, <1>3

\* The length of a ring that has been created, and its header.
RingSize(kind) == QueHdr + (IF kind = "req" THEN Req ELSE ExtraRsp)

LEMMA CopiedIs ==
  ASSUME NEW kind \in Kinds
  PROVE  \E n \in 0..MaxQueue[kind], k \in Nat :
           Created(kind) = 1..n /\ Sized(copied(kind), n, k) /\ k <= MaxQueue[kind] * RingSize(kind)
<1>1. PICK n \in 0..MaxQueue[kind] : Created(kind) = 1..n /\ Cardinality(Created(kind)) = n
  BY CreatedIs
<1>2. MaxQueue[kind] \in Nat /\ n \in Nat /\ n <= MaxQueue[kind]
  <2>1. MaxQueue[kind] \in Nat
    BY FwDumpAssumption
  <2> QED BY <2>1
<1>3. copied(kind) = [q \in 1..n |-> [area |-> <<kind, q>>, len |-> QueHdr + Ring(kind, q)]]
  BY <1>1 DEF copied
<1>4. RingSize(kind) \in Nat /\ \A q \in 1..n : QueHdr + Ring(kind, q) = RingSize(kind)
  BY <1>2, Sizes DEF Ring, RingSize
<1>5. \A q \in 1..n : <<kind, q>> \in Names \X Nat
  BY <1>2, AreaNames
<1>6. copied(kind) = [q \in 1..n |-> [area |-> <<kind, q>>, len |-> RingSize(kind)]]
  BY <1>3, <1>4
<1>7. copied(kind) \in Lists /\ Len(copied(kind)) = n
  <2>1. \A q \in 1..n : [area |-> <<kind, q>>, len |-> RingSize(kind)] \in Areas
    BY <1>4, <1>5 DEF Areas
  <2>2. copied(kind) \in [1..n -> Areas]
    BY <1>6, <2>1
  <2>3. n \in Nat
    BY <1>2
  <2> QED BY <2>2, <2>3 DEF Lists
<1>8. Length(copied(kind)) \in Nat /\ Length(copied(kind)) <= n * RingSize(kind)
  <2>1. \A i \in 1..n : copied(kind)[i].len <= RingSize(kind)
    BY <1>4, <1>6
  <2>2. Length(copied(kind)) <= Len(copied(kind)) * RingSize(kind)
    BY <1>4, <1>7, <2>1, Bounded
  <2> QED BY <1>7, <2>2, LengthType
<1>9. n * RingSize(kind) <= MaxQueue[kind] * RingSize(kind)
  <2>1. \A x, y, z \in Nat : x <= y => x * z <= y * z
    OBVIOUS
  <2> QED BY <1>2, <1>4, <2>1
<1>10. Length(copied(kind)) <= MaxQueue[kind] * RingSize(kind)
  <2>1. n * RingSize(kind) \in Int /\ MaxQueue[kind] * RingSize(kind) \in Int
    BY <1>2, <1>4
  <2> QED BY <1>8, <1>9, <2>1
<1>11. Sized(copied(kind), n, Length(copied(kind)))
  BY <1>2, <1>7, <1>8 DEF Sized
<1> QED BY <1>1, <1>8, <1>10, <1>11

\* The parts of the chain of an adapter that has one.
LEMMA CopyMq ==
  \E n \in Nat : Sized(copy_mq, n, IF mqenable /\ chip # "83xx" THEN Mq ELSE 0)
<1>1. Sized(P(A("mq"), Mq), 1, Mq)
  BY SizedA, Sizes DEF Names
<1>2. CASE mqenable /\ chip # "83xx"
  <2>1. copy_mq = P(A("mq"), Mq)
    BY <1>2 DEF copy_mq, If
  <2> QED BY <1>1, <1>2, <2>1
<1>3. CASE ~(mqenable /\ chip # "83xx")
  <2>1. copy_mq = <<>>
    BY <1>3 DEF copy_mq, If
  <2>2. Sized(<<>>, 0, 0)
    BY NothingLaid DEF Sized
  <2> QED BY <1>3, <2>1, <2>2
<1> QED BY <1>2, <1>3

LEMMA CopyFce ==
  \E n \in Nat : Sized(copy_fce, n, IF fce # "none" THEN Fce ELSE 0)
<1>1. Sized(P(A("fce"), Fce), 1, Fce)
  BY SizedA, Sizes DEF Names
<1>2. CASE fce # "none"
  <2>1. copy_fce = P(A("fce"), Fce)
    BY <1>2 DEF copy_fce, If
  <2> QED BY <1>1, <1>2, <2>1
<1>3. CASE ~(fce # "none")
  <2>1. copy_fce = <<>>
    BY <1>3 DEF copy_fce, If
  <2>2. Sized(<<>>, 0, 0)
    BY NothingLaid DEF Sized
  <2> QED BY <1>3, <2>1, <2>2
<1> QED BY <1>2, <1>3

LEMMA CopyMqueues ==
  \E n \in Nat, k \in Nat :
    /\ Sized(copy_mqueues, n, k)
    /\ mqenable => k <= (MaxQueue["req"] + 1) * Req + (MaxQueue["rsp"] + 1) * Rsp
    /\ ~mqenable => k = 0
<1>1. CASE mqenable
  <2>1. "req" \in Kinds /\ "rsp" \in Kinds
    BY DEF Kinds
  <2>2. PICK n1 \in 0..MaxQueue["req"], k1 \in Nat :
          Sized(copied("req"), n1, k1) /\ k1 <= MaxQueue["req"] * RingSize("req")
    BY <2>1, CopiedIs
  <2>3. PICK n2 \in 0..MaxQueue["rsp"], k2 \in Nat :
          Sized(copied("rsp"), n2, k2) /\ k2 <= MaxQueue["rsp"] * RingSize("rsp")
    BY <2>1, CopiedIs
  <2>4. Sized(copy_mqueues, n1 + n2, k1 + k2)
    <3>1. copy_mqueues = copied("req") \o copied("rsp")
      BY <1>1 DEF copy_mqueues, If
    <3> QED BY <2>2, <2>3, <3>1, SizedJoin
  <2>5. k1 + k2 <= (MaxQueue["req"] + 1) * Req + (MaxQueue["rsp"] + 1) * Rsp
    <3> DEFINE a == MaxQueue["req"]
               b == MaxQueue["rsp"]
    <3>1. /\ a \in Nat /\ b \in Nat /\ QueHdr \in Nat /\ Req \in Nat /\ Rsp \in Nat /\ ExtraRsp \in Nat
          /\ k1 \in Nat /\ k2 \in Nat
      BY Sizes
    <3>2. k1 <= a * (QueHdr + Req) /\ k2 <= b * (QueHdr + ExtraRsp)
      BY <2>2, <2>3 DEF RingSize
    <3>3. (a + b) * QueHdr <= Req + Rsp /\ ExtraRsp <= Rsp
      BY FwDumpAssumption
    <3> HIDE DEF a, b
    <3>4. /\ a * (QueHdr + Req) = a * QueHdr + a * Req
          /\ b * (QueHdr + ExtraRsp) = b * QueHdr + b * ExtraRsp
          /\ (a + b) * QueHdr = a * QueHdr + b * QueHdr
          /\ (a + 1) * Req = a * Req + Req
          /\ (b + 1) * Rsp = b * Rsp + Rsp
      BY <3>1
    <3>5. b * ExtraRsp <= b * Rsp
      <4>1. \A x, y, z \in Nat : x <= y => z * x <= z * y
        OBVIOUS
      <4> QED BY <3>1, <3>3, <4>1
    <3>6. /\ a * QueHdr \in Nat /\ b * QueHdr \in Nat /\ a * Req \in Nat /\ b * Rsp \in Nat
          /\ b * ExtraRsp \in Nat
      BY <3>1
    <3>7. k1 + k2 <= (a + 1) * Req + (b + 1) * Rsp
      BY <3>1, <3>2, <3>3, <3>4, <3>5, <3>6
    <3> QED BY <3>7 DEF a, b
  <2>6. n1 + n2 \in Nat /\ k1 + k2 \in Nat
    BY <2>4 DEF Sized
  <2> QED BY <1>1, <2>4, <2>5, <2>6
<1>2. CASE ~mqenable
  <2>1. copy_mqueues = <<>>
    BY <1>2 DEF copy_mqueues, If
  <2>2. Sized(<<>>, 0, 0)
    BY NothingLaid DEF Sized
  <2> QED BY <1>2, <2>1, <2>2
<1> QED BY <1>1, <1>2

\* The chain of a dump fits in what was allocated for it.
LEMMA ChainFits ==
  ASSUME mqenable \in BOOLEAN, chip \in FceChips
  PROVE  /\ \E n, k \in Nat : /\ Sized(Chain, n, k)
                              /\ k <= mq_size(mqenable) + (IF fce = "none" THEN 0 ELSE Fce)
         /\ \E n, k \in Nat : Sized(copy_mq, n, k) /\ k <= mq_size(mqenable)
<1> DEFINE lm == IF mqenable /\ chip # "83xx" THEN Mq ELSE 0
           lf == IF fce # "none" THEN Fce ELSE 0
<1>1. PICK n1 \in Nat : Sized(copy_mq, n1, lm)
  BY CopyMq
<1>2. PICK n2 \in Nat : Sized(copy_fce, n2, lf)
  BY CopyFce
<1>3. PICK n3 \in Nat, k3 \in Nat :
        /\ Sized(copy_mqueues, n3, k3)
        /\ mqenable => k3 <= (MaxQueue["req"] + 1) * Req + (MaxQueue["rsp"] + 1) * Rsp
        /\ ~mqenable => k3 = 0
  BY CopyMqueues
<1>4. lm \in Nat /\ lf \in Nat
  BY <1>1, <1>2 DEF Sized
<1>5. Sized((copy_mq \o copy_fce) \o copy_mqueues, (n1 + n2) + n3, (lm + lf) + k3)
  <2> HIDE DEF lm, lf
  <2>1. Sized(copy_mq \o copy_fce, n1 + n2, lm + lf)
    BY <1>1, <1>2, SizedJoin
  <2> QED BY <1>3, <2>1, SizedJoin
<1>6. Chain = (copy_mq \o copy_fce) \o copy_mqueues
  BY DEF Chain
<1> DEFINE rest == (MaxQueue["req"] + 1) * Req + (MaxQueue["rsp"] + 1) * Rsp
<1>7. rest \in Nat
  <2>1. \A x, y \in Nat : x * y \in Nat
    OBVIOUS
  <2>2. /\ MaxQueue["req"] + 1 \in Nat /\ MaxQueue["rsp"] + 1 \in Nat /\ Req \in Nat /\ Rsp \in Nat
    BY Sizes
  <2>3. (MaxQueue["req"] + 1) * Req \in Nat /\ (MaxQueue["rsp"] + 1) * Rsp \in Nat
    BY <2>1, <2>2
  <2> QED BY <2>3
<1>8. mq_size(mqenable) = IF mqenable THEN lm + rest ELSE 0
  <2>1. mq_size(mqenable) = IF ~mqenable THEN 0
                            ELSE (IF chip = "83xx" THEN 0 ELSE Mq) + (MaxQueue["req"] + 1) * Req
                                 + (MaxQueue["rsp"] + 1) * Rsp
    BY DEF mq_size
  <2>2. (IF chip = "83xx" THEN 0 ELSE Mq) \in Nat /\ (MaxQueue["req"] + 1) * Req \in Int
        /\ (MaxQueue["rsp"] + 1) * Rsp \in Int
    BY Sizes
  <2>3. (IF chip = "83xx" THEN 0 ELSE Mq) + (MaxQueue["req"] + 1) * Req + (MaxQueue["rsp"] + 1) * Rsp
          = (IF chip = "83xx" THEN 0 ELSE Mq) + rest
    BY <2>2
  <2>4. mqenable => lm = (IF chip = "83xx" THEN 0 ELSE Mq)
    OBVIOUS
  <2> HIDE DEF lm, rest
  <2> QED BY <2>1, <2>3, <2>4
<1>9. lf = IF fce = "none" THEN 0 ELSE Fce
  OBVIOUS
<1>10. ~mqenable => lm = 0
  OBVIOUS
<1>11. mqenable => k3 <= rest
  BY <1>3
<1> HIDE DEF lm, lf, rest
<1>12. (lm + lf) + k3 <= mq_size(mqenable) + lf /\ lm <= mq_size(mqenable)
  BY <1>3, <1>4, <1>7, <1>8, <1>10, <1>11
<1>13. (n1 + n2) + n3 \in Nat /\ (lm + lf) + k3 \in Nat
  BY <1>4
<1> QED BY <1>1, <1>4, <1>5, <1>6, <1>9, <1>12, <1>13

--------------------------------------------------------------------------
(* The 27xx template: a walk that writes stays below a dry one.            *)

\* The lengths of what entries about queues write.
LEMMA QueueEntries ==
  ASSUME NEW kind \in Kinds, NEW dry \in BOOLEAN
  PROVE  /\ Sized(t263(kind, dry), MaxQueue[kind] + 1, Length(t263(kind, dry)))
         /\ Length(t263(kind, dry)) <= Length(t263(kind, TRUE))
<1> DEFINE m == MaxQueue[kind]
           Ent(d, i) == [area |-> <<kind, i - 1>>,
                         len |-> IF i - 1 \in Present(kind, d) THEN QueHdr + Ring(kind, i - 1) ELSE 0]
<1>1. m \in Nat
  BY FwDumpAssumption
<1>2. \A q : QueHdr + Ring(kind, q) \in Nat
  BY Sizes DEF Ring
<1>3. ASSUME NEW d \in BOOLEAN
      PROVE  t263(kind, d) \in Lists /\ Len(t263(kind, d)) = m + 1
             /\ \A i \in 1..m + 1 : t263(kind, d)[i] = Ent(d, i)
  <2>1. t263(kind, d) = [i \in 1..m + 1 |-> Ent(d, i)]
    BY DEF t263
  <2>2. \A i \in 1..m + 1 : Ent(d, i) \in Areas
    <3> SUFFICES ASSUME NEW i \in 1..m + 1 PROVE Ent(d, i) \in Areas
      OBVIOUS
    <3>1. i - 1 \in Nat
      BY <1>1
    <3>2. <<kind, i - 1>> \in Names \X Nat
      BY <3>1, AreaNames
    <3> QED BY <1>2, <3>2 DEF Areas
  <2>3. m + 1 \in Nat
    BY <1>1
  <2> HIDE DEF Ent, m
  <2>4. t263(kind, d) \in Lists /\ Len(t263(kind, d)) = m + 1
    BY <2>1, <2>2, <2>3 DEF Lists
  <2> QED BY <2>1, <2>4
<1>4. \A i \in 1..m + 1 : i - 1 \in Present(kind, TRUE)
  BY <1>1 DEF Present
<1>5. \A i \in 1..m + 1 : t263(kind, dry)[i].len <= t263(kind, TRUE)[i].len
  <2> SUFFICES ASSUME NEW i \in 1..m + 1 PROVE t263(kind, dry)[i].len <= t263(kind, TRUE)[i].len
    OBVIOUS
  <2>1. t263(kind, dry)[i] = Ent(dry, i) /\ t263(kind, TRUE)[i] = Ent(TRUE, i)
    BY <1>3
  <2>2. Ent(TRUE, i).len = QueHdr + Ring(kind, i - 1)
    BY <1>4
  <2>3. Ent(dry, i).len \in {0, QueHdr + Ring(kind, i - 1)}
    OBVIOUS
  <2>4. QueHdr + Ring(kind, i - 1) \in Nat
    BY <1>2
  <2> DEFINE size == QueHdr + Ring(kind, i - 1)
             x == Ent(dry, i).len
             y == Ent(TRUE, i).len
  <2>5. y = size /\ x \in {0, size} /\ size \in Nat
    BY <2>2, <2>3, <2>4
  <2>6. x <= y
    <3> HIDE DEF x, y, size
    <3> QED BY <2>5
  <2> HIDE DEF Ent
  <2> QED BY <2>1, <2>6
<1> HIDE DEF m, Ent
<1>6. Length(t263(kind, dry)) <= Length(t263(kind, TRUE))
  <2>1. t263(kind, dry) \in Lists /\ Len(t263(kind, dry)) = m + 1
    BY <1>3
  <2>2. t263(kind, TRUE) \in Lists /\ Len(t263(kind, TRUE)) = m + 1
    BY <1>3
  <2> QED BY <1>5, <2>1, <2>2, Compared
<1>7. Sized(t263(kind, dry), m + 1, Length(t263(kind, dry)))
  <2>1. t263(kind, dry) \in Lists /\ Len(t263(kind, dry)) = m + 1
    BY <1>3
  <2>2. m + 1 \in Nat
    BY <1>1
  <2> QED BY <2>1, <2>2, LengthType DEF Sized
<1> QED BY <1>6, <1>7 DEF m

\* The number of shadow pointers.
LEMMA ShadowEntries ==
  ASSUME NEW kind \in Kinds, NEW dry \in BOOLEAN
  PROVE  \E n \in Nat : /\ Cardinality(Present(kind, dry)) = n
                        /\ Sized(t274(kind, dry), 1, n * (QueHdr + 1))
                        /\ n <= MaxQueue[kind] + 1
<1> DEFINE m == MaxQueue[kind]
<1>1. m \in Nat
  BY FwDumpAssumption
<1>2. IsFiniteSet(0..m) /\ Cardinality(0..m) = m + 1
  <2>1. 0 \in Int /\ m \in Int /\ ~ 0 > m + 1 /\ m - 0 + 1 = m + 1
    BY <1>1
  <2>2. IsFiniteSet(0..m) /\ Cardinality(0..m) = IF 0 > m THEN 0 ELSE m - 0 + 1
    BY <2>1, FS_Interval
  <2> QED BY <1>1, <2>2
<1>3. Present(kind, dry) \subseteq 0..m
  BY DEF Present
<1>4. IsFiniteSet(Present(kind, dry)) /\ Cardinality(Present(kind, dry)) <= Cardinality(0..m)
  BY <1>2, <1>3, FS_Subset
<1>5. Cardinality(Present(kind, dry)) \in Nat
  BY <1>4, FS_CardinalityType
<1> DEFINE n == Cardinality(Present(kind, dry))
           c == IF kind = "req" THEN 0 ELSE 1
<1>6. n * (QueHdr + 1) \in Nat /\ <<"shadow", c>> \in Names \X Nat
  <2>1. \A x, y \in Nat : x * y \in Nat
    OBVIOUS
  <2>2. QueHdr + 1 \in Nat
    BY Sizes
  <2> QED BY <1>5, <2>1, <2>2 DEF Names
<1>7. t274(kind, dry) = P(<<"shadow", c>>, n * (QueHdr + 1))
  BY DEF t274
<1>8. Sized(t274(kind, dry), 1, n * (QueHdr + 1))
  <2> HIDE DEF n, c
  <2> QED BY <1>6, <1>7, SizedOne
<1>9. n <= m + 1
  BY <1>2, <1>4
<1> QED BY <1>5, <1>8, <1>9

LEMMA AllPresent ==
  ASSUME NEW kind \in Kinds
  PROVE  Cardinality(Present(kind, TRUE)) = MaxQueue[kind] + 1
<1>1. MaxQueue[kind] \in Nat
  BY FwDumpAssumption
<1>2. Present(kind, TRUE) = 0..MaxQueue[kind]
  BY DEF Present
<1>3. 0 \in Int /\ MaxQueue[kind] \in Int /\ ~ 0 > MaxQueue[kind] + 1
      /\ ~ 0 > MaxQueue[kind] /\ MaxQueue[kind] - 0 + 1 = MaxQueue[kind] + 1
  BY <1>1
<1>4. Cardinality(0..MaxQueue[kind]) = IF 0 > MaxQueue[kind] THEN 0 ELSE MaxQueue[kind] - 0 + 1
  BY <1>3, FS_Interval
<1> QED BY <1>2, <1>3, <1>4

\* A walk without a buffer, whatever queues there are.
all263(kind) == [i \in 1..MaxQueue[kind] + 1 |-> [area |-> <<kind, i - 1>>, len |-> QueHdr + Ring(kind, i - 1)]]
all274(kind) == P(<<"shadow", IF kind = "req" THEN 0 ELSE 1>>, (MaxQueue[kind] + 1) * (QueHdr + 1))
dry_walk(t, mem, fce_now, eft_now) ==
  P(A("template"), Tmpl) \o registers(t) \o t262(mem)
  \o all263("req") \o all263("rsp")
  \o t264(fce_now) \o t268(eft_now)
  \o remote(t) \o t272 \o all274("req") \o all274("rsp")

LEMMA DryWalk ==
  \A t, mem, f, e : walk_template(t, mem, f, e, TRUE) = dry_walk(t, mem, f, e)
<1>1. \A kind \in Kinds : t263(kind, TRUE) = all263(kind) /\ t274(kind, TRUE) = all274(kind)
  <2> SUFFICES ASSUME NEW kind \in Kinds
               PROVE  t263(kind, TRUE) = all263(kind) /\ t274(kind, TRUE) = all274(kind)
    OBVIOUS
  <2>1. \A i \in 1..MaxQueue[kind] + 1 : i - 1 \in Present(kind, TRUE)
    <3>1. MaxQueue[kind] \in Nat
      BY FwDumpAssumption
    <3> QED BY <3>1 DEF Present
  <2>2. t263(kind, TRUE) = all263(kind)
    BY <2>1 DEF t263, all263
  <2>3. t274(kind, TRUE) = all274(kind)
    BY AllPresent DEF t274, all274
  <2> QED BY <2>2, <2>3
<1>2. "req" \in Kinds /\ "rsp" \in Kinds
  BY DEF Kinds
<1> QED BY <1>1, <1>2 DEF walk_template, dry_walk

\* A walk writes no more than was counted without a buffer.
LEMMA WalkFits ==
  ASSUME NEW t \in Templates, NEW mem \in Nat, NEW f, NEW e, NEW dry \in BOOLEAN
  PROVE  /\ walk_template(t, mem, f, e, dry) \in Lists
         /\ dry_walk(t, mem, f, e) \in Lists
         /\ Length(walk_template(t, mem, f, e, dry)) <= Length(dry_walk(t, mem, f, e))
         /\ Length(walk_template(t, mem, f, e, dry)) > 0
<1> DEFINE q1(d) == Length(t263("req", d))
           q2(d) == Length(t263("rsp", d))
           s1(d) == Cardinality(Present("req", d)) * (QueHdr + 1)
           s2(d) == Cardinality(Present("rsp", d)) * (QueHdr + 1)
           lf == IF f # "none" THEN Fce ELSE 0
           le == IF e # "none" THEN Eft ELSE 0
           a == P(A("template"), Tmpl)
           w == Walked[t]
<1>0. "req" \in Kinds /\ "rsp" \in Kinds
  BY DEF Kinds
<1>1. Sized(a, 1, Tmpl)
  BY SizedA, Sizes DEF Names
<1>2. Sized(registers(t), 1, w) /\ Sized(remote(t), 1, w)
  <2>1. w \in Nat
    BY Sizes
  <2> QED BY <2>1, SizedA DEF Names, registers, remote
<1>3. Sized(t262(mem), 1, mem)
  BY SizedA DEF Names, t262
<1>4. Sized(t272, 1, Ram)
  BY SizedA, Sizes DEF Names, t272
<1>5. \E n \in Nat : Sized(t264(f), n, lf)
  <2>1. Sized(P(A("fce"), Fce), 1, Fce)
    BY SizedA, Sizes DEF Names
  <2>2. (f # "none") \in BOOLEAN
    OBVIOUS
  <2>3. Sized(t264(f), IF f # "none" THEN 1 ELSE 0, lf)
    BY <2>1, <2>2, SizedIf DEF t264
  <2> QED BY <2>3
<1>6. \E n \in Nat : Sized(t268(e), n, le)
  <2>1. Sized(P(A("eft"), Eft), 1, Eft)
    BY SizedA, Sizes DEF Names
  <2>2. (e # "none") \in BOOLEAN
    OBVIOUS
  <2>3. Sized(t268(e), IF e # "none" THEN 1 ELSE 0, le)
    BY <2>1, <2>2, SizedIf DEF t268
  <2> QED BY <2>3
<1>7. PICK n5 \in Nat : Sized(t264(f), n5, lf)
  BY <1>5
<1>8. PICK n6 \in Nat : Sized(t268(e), n6, le)
  BY <1>6
<1> DEFINE k(d) == Tmpl + w + mem + q1(d) + q2(d) + lf + le + w + Ram + s1(d) + s2(d)
           m1 == MaxQueue["req"] + 1
           m2 == MaxQueue["rsp"] + 1
<1> HIDE DEF a, w, lf, le
<1>9. ASSUME NEW d \in BOOLEAN
      PROVE  \E n \in Nat : Sized(walk_template(t, mem, f, e, d), n, k(d))
  <2>1. Sized(t263("req", d), m1, q1(d)) /\ Sized(t263("rsp", d), m2, q2(d))
    BY <1>0, QueueEntries
  <2>2. Sized(t274("req", d), 1, s1(d)) /\ Sized(t274("rsp", d), 1, s2(d))
    BY <1>0, ShadowEntries
  <2> HIDE DEF q1, q2, s1, s2, m1, m2
  <2>3. Sized(a \o registers(t) \o t262(mem), 1 + 1 + 1, Tmpl + w + mem)
    <3>1. Sized(a \o registers(t), 1 + 1, Tmpl + w)
      BY <1>1, <1>2, SizedJoin
    <3> QED BY <1>3, <3>1, SizedJoin
  <2>4. Sized(a \o registers(t) \o t262(mem) \o t263("req", d) \o t263("rsp", d),
              1 + 1 + 1 + m1 + m2, Tmpl + w + mem + q1(d) + q2(d))
    <3>1. Sized(a \o registers(t) \o t262(mem) \o t263("req", d),
                1 + 1 + 1 + m1, Tmpl + w + mem + q1(d))
      BY <2>1, <2>3, SizedJoin
    <3> QED BY <2>1, <3>1, SizedJoin
  <2>5. Sized(a \o registers(t) \o t262(mem) \o t263("req", d) \o t263("rsp", d) \o t264(f) \o t268(e),
              1 + 1 + 1 + m1 + m2 + n5 + n6, Tmpl + w + mem + q1(d) + q2(d) + lf + le)
    <3>1. Sized(a \o registers(t) \o t262(mem) \o t263("req", d) \o t263("rsp", d) \o t264(f),
                1 + 1 + 1 + m1 + m2 + n5, Tmpl + w + mem + q1(d) + q2(d) + lf)
      BY <1>7, <2>4, SizedJoin
    <3> QED BY <1>8, <3>1, SizedJoin
  <2>6. Sized(a \o registers(t) \o t262(mem) \o t263("req", d) \o t263("rsp", d) \o t264(f) \o t268(e)
                \o remote(t) \o t272,
              1 + 1 + 1 + m1 + m2 + n5 + n6 + 1 + 1, Tmpl + w + mem + q1(d) + q2(d) + lf + le + w + Ram)
    <3>1. Sized(a \o registers(t) \o t262(mem) \o t263("req", d) \o t263("rsp", d) \o t264(f) \o t268(e)
                  \o remote(t),
                1 + 1 + 1 + m1 + m2 + n5 + n6 + 1, Tmpl + w + mem + q1(d) + q2(d) + lf + le + w)
      BY <1>2, <2>5, SizedJoin
    <3> QED BY <1>4, <3>1, SizedJoin
  <2>7. Sized(a \o registers(t) \o t262(mem) \o t263("req", d) \o t263("rsp", d) \o t264(f) \o t268(e)
                \o remote(t) \o t272 \o t274("req", d) \o t274("rsp", d),
              1 + 1 + 1 + m1 + m2 + n5 + n6 + 1 + 1 + 1 + 1, k(d))
    <3>1. Sized(a \o registers(t) \o t262(mem) \o t263("req", d) \o t263("rsp", d) \o t264(f) \o t268(e)
                  \o remote(t) \o t272 \o t274("req", d),
                1 + 1 + 1 + m1 + m2 + n5 + n6 + 1 + 1 + 1,
                Tmpl + w + mem + q1(d) + q2(d) + lf + le + w + Ram + s1(d))
      BY <2>2, <2>6, SizedJoin
    <3> QED BY <2>2, <3>1, SizedJoin
  <2>8. walk_template(t, mem, f, e, d)
          = a \o registers(t) \o t262(mem) \o t263("req", d) \o t263("rsp", d) \o t264(f) \o t268(e)
            \o remote(t) \o t272 \o t274("req", d) \o t274("rsp", d)
    BY DEF walk_template, a
  <2>9. 1 + 1 + 1 + m1 + m2 + n5 + n6 + 1 + 1 + 1 + 1 \in Nat
    BY <2>7 DEF Sized
  <2> HIDE DEF k
  <2> QED BY <2>7, <2>8, <2>9
<1>10. k(dry) <= k(TRUE) /\ k(dry) > 0
  <2>1. q1(dry) <= q1(TRUE) /\ q2(dry) <= q2(TRUE)
    BY <1>0, QueueEntries
  <2>2. \A d \in BOOLEAN : q1(d) \in Nat /\ q2(d) \in Nat
    BY <1>0, QueueEntries DEF Sized
  <2>3. PICK c1 \in Nat : Cardinality(Present("req", dry)) = c1 /\ c1 <= MaxQueue["req"] + 1
    BY <1>0, ShadowEntries
  <2>4. PICK c2 \in Nat : Cardinality(Present("rsp", dry)) = c2 /\ c2 <= MaxQueue["rsp"] + 1
    BY <1>0, ShadowEntries
  <2>5. s1(dry) = c1 * (QueHdr + 1) /\ s2(dry) = c2 * (QueHdr + 1)
        /\ s1(TRUE) = (MaxQueue["req"] + 1) * (QueHdr + 1)
        /\ s2(TRUE) = (MaxQueue["rsp"] + 1) * (QueHdr + 1)
    BY <1>0, <2>3, <2>4, AllPresent
  <2>6. /\ \A x, y, z \in Nat : x <= y => x * z <= y * z
        /\ \A x, y \in Nat : x * y \in Nat
    OBVIOUS
  <2>7. QueHdr + 1 \in Nat /\ MaxQueue["req"] + 1 \in Nat /\ MaxQueue["rsp"] + 1 \in Nat
    BY Sizes
  <2>8. /\ s1(dry) \in Nat /\ s2(dry) \in Nat /\ s1(TRUE) \in Nat /\ s2(TRUE) \in Nat
        /\ s1(dry) <= s1(TRUE) /\ s2(dry) <= s2(TRUE)
    <3> DEFINE z == QueHdr + 1
               m3 == MaxQueue["req"] + 1
               m4 == MaxQueue["rsp"] + 1
    <3>1. z \in Nat /\ m3 \in Nat /\ m4 \in Nat /\ c1 \in Nat /\ c2 \in Nat /\ c1 <= m3 /\ c2 <= m4
      BY <2>3, <2>4, <2>7
    <3>2. s1(dry) = c1 * z /\ s2(dry) = c2 * z /\ s1(TRUE) = m3 * z /\ s2(TRUE) = m4 * z
      BY <2>5
    <3> HIDE DEF s1, s2, z, m3, m4
    <3>3. c1 * z \in Nat /\ c2 * z \in Nat /\ m3 * z \in Nat /\ m4 * z \in Nat
      BY <2>6, <3>1, Zenon
    <3>4. c1 * z <= m3 * z /\ c2 * z <= m4 * z
      BY <2>6, <3>1, Zenon
    <3> QED BY <3>2, <3>3, <3>4, Zenon
  <2>9. w \in Nat /\ lf \in Nat /\ le \in Nat /\ Tmpl \in Nat /\ Tmpl > 0 /\ Ram \in Nat
    BY Sizes DEF w, lf, le
  <2> HIDE DEF q1, q2, s1, s2
  <2>10. q1(dry) \in Nat /\ q2(dry) \in Nat /\ q1(TRUE) \in Nat /\ q2(TRUE) \in Nat
    BY <2>2
  <2> DEFINE x1 == q1(dry)
             x2 == q2(dry)
             x3 == s1(dry)
             x4 == s2(dry)
             y1 == q1(TRUE)
             y2 == q2(TRUE)
             y3 == s1(TRUE)
             y4 == s2(TRUE)
             kd == k(dry)
             kt == k(TRUE)
  <2>11. /\ kd = Tmpl + w + mem + x1 + x2 + lf + le + w + Ram + x3 + x4
         /\ kt = Tmpl + w + mem + y1 + y2 + lf + le + w + Ram + y3 + y4
    OBVIOUS
  <2>12. /\ x1 \in Nat /\ x2 \in Nat /\ x3 \in Nat /\ x4 \in Nat
         /\ y1 \in Nat /\ y2 \in Nat /\ y3 \in Nat /\ y4 \in Nat
         /\ x1 <= y1 /\ x2 <= y2 /\ x3 <= y3 /\ x4 <= y4
    BY <2>1, <2>8, <2>10
  <2> HIDE DEF k, x1, x2, x3, x4, y1, y2, y3, y4, kd, kt
  <2>13. kd <= kt /\ kd > 0
    BY <2>9, <2>11, <2>12
  <2> QED BY <2>13 DEF kd, kt
<1> HIDE DEF k
<1>11. walk_template(t, mem, f, e, dry) \in Lists /\ Length(walk_template(t, mem, f, e, dry)) = k(dry)
  BY <1>9 DEF Sized
<1>12. walk_template(t, mem, f, e, TRUE) \in Lists /\ Length(walk_template(t, mem, f, e, TRUE)) = k(TRUE)
  BY <1>9 DEF Sized
<1> QED BY <1>10, <1>11, <1>12, DryWalk

--------------------------------------------------------------------------
(* Entries of a minidump: what one adds to the buffer.                     *)

Claim(e) == IF e.captured THEN Result8044(e, 0).words ELSE 0

\* What an entry of either adapter reads.
ResultOf(c, e, at) == IF c = "82xx" THEN Result82xx(e, at) ELSE Result8044(e, at)
StatusOf(c) == IF c = "82xx" THEN Hard
               ELSE Hard \cup {"RDROM", "POLLRD", "POLLRDMWR", "RDDFE", "RDMDIO", "POLLWR"}
WalkOf(c, entries, size, fault) ==
  IF c = "82xx" THEN md_walk_82xx(entries, size, fault) ELSE md_walk_8044(entries, size, fault)

MdData == [area : {"md"} \X Nat, at : Nat, len : Nat \ {0}]
Walks == [ptr : Nat, data : SUBSET MdData, ok : BOOLEAN, stopped : BOOLEAN]
Results == [words : Nat, ok : BOOLEAN]
At(fault, i) == IF fault[1] = i THEN fault[2] ELSE 0

WalkStep(c, entries, size, fault, w, i) ==
  LET e == entries[i]
      r == ResultOf(c, e, At(fault, i))
  IN IF w.stopped THEN w
     ELSE IF w.ptr > size
     THEN [ptr |-> w.ptr, data |-> w.data, ok |-> w.ok, stopped |-> TRUE]
     ELSE IF ~e.captured THEN w
     ELSE [ptr |-> w.ptr + r.words, data |-> w.data \cup DataOf(w, i, r),
           ok |-> IF e.type \in StatusOf(c) THEN r.ok ELSE w.ok,
           stopped |-> ~r.ok /\ e.type \in Hard]

\* What becomes of an entry, by its type.
LEMMA ResultByType ==
  ASSUME NEW e, NEW x
  PROVE  /\ e.type = "CNTRL" => /\ Result82xx(e, x) = process_control(e, x)
                                /\ Result8044(e, x) = process_control_8044(e, x)
         /\ e.type = "RDCRB" => /\ Result82xx(e, x) = process_rdcrb(e)
                                /\ Result8044(e, x) = process_rdcrb_8044(e)
         /\ e.type = "RDMEM" => /\ Result82xx(e, x) = process_rdmem(e, x)
                                /\ Result8044(e, x) = IF pex_dma_read(e, x).ok THEN pex_dma_read(e, x) ELSE process_rdmem_8044(e, x)
         /\ e.type = "RDROM" => /\ Result82xx(e, x) = process_rdrom(e)
                                /\ Result8044(e, x) = process_rdrom_8044(e, x)
         /\ e.type = "L2TAG" => /\ Result82xx(e, x) = process_l2tag(e, x)
                                /\ Result8044(e, x) = process_l2tag_8044(e, x)
         /\ e.type = "L1" => /\ Result82xx(e, x) = process_l1cache(e)
                             /\ Result8044(e, x) = process_l1cache_8044(e)
         /\ e.type = "RDOCM" => /\ Result82xx(e, x) = process_rdocm(e)
                                /\ Result8044(e, x) = process_rdocm_8044(e)
         /\ e.type = "RDMUX" => /\ Result82xx(e, x) = process_rdmux(e)
                                /\ Result8044(e, x) = process_rdmux_8044(e)
         /\ e.type = "QUEUE" => /\ Result82xx(e, x) = process_queue(e)
                                /\ Result8044(e, x) = process_queue_8044(e)
         /\ e.type = "POLLRD" => Result82xx(e, x) = Done(0) /\ Result8044(e, x) = process_pollrd(e, x)
         /\ e.type = "RDMUX2" => Result82xx(e, x) = Done(0) /\ Result8044(e, x) = process_rdmux2(e)
         /\ e.type = "POLLRDMWR" => Result82xx(e, x) = Done(0) /\ Result8044(e, x) = process_pollrdmwr(e, x)
         /\ e.type = "RDDFE" => Result82xx(e, x) = Done(0) /\ Result8044(e, x) = process_rddfe(e, x)
         /\ e.type = "RDMDIO" => Result82xx(e, x) = Done(0) /\ Result8044(e, x) = process_rdmdio(e, x)
         /\ e.type = "POLLWR" => Result82xx(e, x) = Done(0) /\ Result8044(e, x) = process_pollwr(e, x)
         /\ e.type = "RDNOP" => Result82xx(e, x) = Done(0) /\ Result8044(e, x) = Done(0)
BY Zenon DEF Result82xx, Result8044

\* Whatever times out, an entry reads no more than it would otherwise, and no
\* more than the template claims; and one that ends the walk even if nothing
\* times out ends it.
LEMMA ResultBounds ==
  ASSUME NEW c \in P3P, NEW e \in Entries(Types8044), NEW x \in 0..2
  PROVE  /\ ResultOf(c, e, x) \in Results
         /\ Result8044(e, 0) \in Results
         /\ ResultOf(c, e, x).words <= ResultOf(c, e, 0).words
         /\ ResultOf(c, e, x).words <= Result8044(e, 0).words
         /\ ~ResultOf(c, e, 0).ok /\ e.type \in Hard => ~ResultOf(c, e, x).ok
<1> DEFINE Good(r, r0, k) ==
             /\ r \in Results /\ k \in Results
             /\ r.words <= r0.words /\ r.words <= k.words
             /\ ~r0.ok /\ e.type \in Hard => ~r.ok
           a == ResultOf(c, e, x)
           a0 == ResultOf(c, e, 0)
           k == Result8044(e, 0)
<1> SUFFICES Good(a, a0, k)
  OBVIOUS
<1>0. /\ Failed \in Results /\ Failed.words = 0 /\ Failed.ok = FALSE
      /\ \A n \in Nat : Done(n) \in Results /\ Done(n).words = n /\ Done(n).ok = TRUE
  BY DEF Results, Done, Failed
<1>1. e.ops \in Nat /\ e.ops > 0 /\ e.size \in Nat /\ e.size > 0 /\ e.type \in Types8044
  BY DEF Entries
<1>2. /\ e.ops * e.size \in Nat /\ 2 * e.ops \in Nat /\ 2 * e.ops >= 2 /\ 4 * e.ops \in Nat
  BY <1>1
<1>3. /\ e.size \div 4 \in Nat /\ 4 * (e.size \div 16) \in Nat
      /\ 4 * (e.size \div 16) <= e.size \div 4
  BY <1>1
<1>4. c = "82xx" \/ c = "8044"
  BY DEF P3P
<1>5. x = 0 \/ x = 1 \/ x = 2
  OBVIOUS
<1>6. CASE e.type = "CNTRL"
  <2>1. \A y \in {0, x} : /\ Result82xx(e, y) = process_control(e, y)
                          /\ Result8044(e, y) = process_control_8044(e, y)
    BY <1>6, Zenon DEF Result82xx, Result8044
  <2>2. Good(a, a0, k)
    BY <1>1, <1>2, <1>3, <1>4, <1>5, <1>0, <1>6, <2>1
       DEF ResultOf, Polled, Hard, process_control, process_control_8044
  <2> QED BY <2>2
<1>7. CASE e.type = "RDCRB"
  <2>1. \A y \in {0, x} : /\ Result82xx(e, y) = process_rdcrb(e)
                          /\ Result8044(e, y) = process_rdcrb_8044(e)
    BY <1>7, Zenon DEF Result82xx, Result8044
  <2>2. Good(a, a0, k)
    BY <1>1, <1>2, <1>3, <1>4, <1>5, <1>0, <1>7, <2>1
       DEF ResultOf, Polled, Hard, process_rdcrb, process_rdcrb_8044
  <2> QED BY <2>2
<1>8. CASE e.type = "RDMEM"
  <2>1. \A y \in {0, x} : /\ Result82xx(e, y) = process_rdmem(e, y)
                          /\ Result8044(e, y) = IF pex_dma_read(e, y).ok THEN pex_dma_read(e, y) ELSE process_rdmem_8044(e, y)
    BY <1>8, Zenon DEF Result82xx, Result8044
  <2>2. Good(a, a0, k)
    BY <1>1, <1>2, <1>3, <1>4, <1>5, <1>0, <1>8, <2>1
       DEF ResultOf, Polled, Hard, process_rdmem, process_rdmem_8044, pex_dma_read, start_pex_dma
  <2> QED BY <2>2
<1>9. CASE e.type = "RDROM"
  <2>1. \A y \in {0, x} : /\ Result82xx(e, y) = process_rdrom(e)
                          /\ Result8044(e, y) = process_rdrom_8044(e, y)
    BY <1>9, Zenon DEF Result82xx, Result8044
  <2>2. Good(a, a0, k)
    BY <1>1, <1>2, <1>3, <1>4, <1>5, <1>0, <1>9, <2>1
       DEF ResultOf, Polled, Hard, process_rdrom, process_rdrom_8044
  <2> QED BY <2>2
<1>10. CASE e.type = "L2TAG"
  <2>1. \A y \in {0, x} : /\ Result82xx(e, y) = process_l2tag(e, y)
                          /\ Result8044(e, y) = process_l2tag_8044(e, y)
    BY <1>10, Zenon DEF Result82xx, Result8044
  <2>2. Good(a, a0, k)
    BY <1>1, <1>2, <1>3, <1>4, <1>5, <1>0, <1>10, <2>1
       DEF ResultOf, Polled, Hard, process_l2tag, process_l2tag_8044
  <2> QED BY <2>2
<1>11. CASE e.type = "L1"
  <2>1. \A y \in {0, x} : /\ Result82xx(e, y) = process_l1cache(e)
                          /\ Result8044(e, y) = process_l1cache_8044(e)
    BY <1>11, Zenon DEF Result82xx, Result8044
  <2>2. Good(a, a0, k)
    BY <1>1, <1>2, <1>3, <1>4, <1>5, <1>0, <1>11, <2>1
       DEF ResultOf, Polled, Hard, process_l1cache, process_l1cache_8044
  <2> QED BY <2>2
<1>12. CASE e.type = "RDOCM"
  <2>1. \A y \in {0, x} : /\ Result82xx(e, y) = process_rdocm(e)
                          /\ Result8044(e, y) = process_rdocm_8044(e)
    BY <1>12, Zenon DEF Result82xx, Result8044
  <2>2. Good(a, a0, k)
    BY <1>1, <1>2, <1>3, <1>4, <1>5, <1>0, <1>12, <2>1
       DEF ResultOf, Polled, Hard, process_rdocm, process_rdocm_8044
  <2> QED BY <2>2
<1>13. CASE e.type = "RDMUX"
  <2>1. \A y \in {0, x} : /\ Result82xx(e, y) = process_rdmux(e)
                          /\ Result8044(e, y) = process_rdmux_8044(e)
    BY <1>13, Zenon DEF Result82xx, Result8044
  <2>2. Good(a, a0, k)
    BY <1>1, <1>2, <1>3, <1>4, <1>5, <1>0, <1>13, <2>1
       DEF ResultOf, Polled, Hard, process_rdmux, process_rdmux_8044
  <2> QED BY <2>2
<1>14. CASE e.type = "QUEUE"
  <2>1. \A y \in {0, x} : /\ Result82xx(e, y) = process_queue(e)
                          /\ Result8044(e, y) = process_queue_8044(e)
    BY <1>14, Zenon DEF Result82xx, Result8044
  <2>2. Good(a, a0, k)
    BY <1>1, <1>2, <1>3, <1>4, <1>5, <1>0, <1>14, <2>1
       DEF ResultOf, Polled, Hard, process_queue, process_queue_8044
  <2> QED BY <2>2
<1>15. CASE e.type = "RDNOP"
  <2>1. \A y \in {0, x} : /\ Result82xx(e, y) = Done(0)
                          /\ Result8044(e, y) = Done(0)
    BY <1>15, Zenon DEF Result82xx, Result8044
  <2>2. Good(a, a0, k)
    BY <1>1, <1>2, <1>3, <1>4, <1>5, <1>0, <1>15, <2>1
       DEF ResultOf, Polled, Hard
  <2> QED BY <2>2
<1>16. CASE e.type = "POLLRD"
  <2>1. \A y \in {0, x} : /\ Result82xx(e, y) = Done(0)
                          /\ Result8044(e, y) = process_pollrd(e, y)
    BY <1>16, Zenon DEF Result82xx, Result8044
  <2>2. Good(a, a0, k)
    BY <1>1, <1>2, <1>3, <1>4, <1>5, <1>0, <1>16, <2>1
       DEF ResultOf, Polled, Hard, process_pollrd
  <2> QED BY <2>2
<1>17. CASE e.type = "RDMUX2"
  <2>1. \A y \in {0, x} : /\ Result82xx(e, y) = Done(0)
                          /\ Result8044(e, y) = process_rdmux2(e)
    BY <1>17, Zenon DEF Result82xx, Result8044
  <2>2. Good(a, a0, k)
    BY <1>1, <1>2, <1>3, <1>4, <1>5, <1>0, <1>17, <2>1
       DEF ResultOf, Polled, Hard, process_rdmux2
  <2> QED BY <2>2
<1>18. CASE e.type = "POLLRDMWR"
  <2>1. \A y \in {0, x} : /\ Result82xx(e, y) = Done(0)
                          /\ Result8044(e, y) = process_pollrdmwr(e, y)
    BY <1>18, Zenon DEF Result82xx, Result8044
  <2>2. Good(a, a0, k)
    BY <1>1, <1>2, <1>3, <1>4, <1>5, <1>0, <1>18, <2>1
       DEF ResultOf, Polled, Hard, process_pollrdmwr
  <2> QED BY <2>2
<1>19. CASE e.type = "RDDFE"
  <2>1. \A y \in {0, x} : /\ Result82xx(e, y) = Done(0)
                          /\ Result8044(e, y) = process_rddfe(e, y)
    BY <1>19, Zenon DEF Result82xx, Result8044
  <2>2. Good(a, a0, k)
    BY <1>1, <1>2, <1>3, <1>4, <1>5, <1>0, <1>19, <2>1
       DEF ResultOf, Polled, Hard, process_rddfe
  <2> QED BY <2>2
<1>20. CASE e.type = "RDMDIO"
  <2>1. \A y \in {0, x} : /\ Result82xx(e, y) = Done(0)
                          /\ Result8044(e, y) = process_rdmdio(e, y)
    BY <1>20, Zenon DEF Result82xx, Result8044
  <2> DEFINE d == process_rdmdio(e, x)
  <2>2. process_rdmdio(e, 0) = Done(2 * e.ops)
    BY DEF process_rdmdio
  <2>3. /\ x # 0 => d \in Results /\ d.words <= 2 * e.ops /\ ~d.ok
        /\ x = 0 => d = Done(2 * e.ops)
    <3>1. CASE x = 0
      BY <2>2, <3>1
    <3>2. CASE x # 0
      <4>1. d = [words |-> 2 * (x - 1), ok |-> FALSE]
        BY <3>2 DEF process_rdmdio
      <4>2. 2 * (x - 1) \in Nat /\ 2 * (x - 1) <= 2 * e.ops
        BY <1>1, <1>5, <3>2
      <4> HIDE DEF d
      <4> QED BY <3>2, <4>1, <4>2 DEF Results
    <3> QED BY <3>1, <3>2
  <2> HIDE DEF d
  <2>4. Good(a, a0, k)
    BY <1>2, <1>4, <1>0, <1>20, <2>1, <2>2, <2>3 DEF ResultOf, Hard, d
  <2> QED BY <2>4
<1>21. CASE e.type = "POLLWR"
  <2>1. \A y \in {0, x} : /\ Result82xx(e, y) = Done(0)
                          /\ Result8044(e, y) = process_pollwr(e, y)
    BY <1>21, Zenon DEF Result82xx, Result8044
  <2>2. Good(a, a0, k)
    BY <1>1, <1>2, <1>3, <1>4, <1>5, <1>0, <1>21, <2>1
       DEF ResultOf, Polled, Hard, process_pollwr
  <2> QED BY <2>2
<1> QED BY <1>1, <1>6, <1>7, <1>8, <1>9, <1>10, <1>11, <1>12, <1>13, <1>14, <1>15, <1>16, <1>17, <1>18, <1>19, <1>20, <1>21 DEF Types8044, Types82xx

--------------------------------------------------------------------------
(* The walk of a minidump, entry by entry.                                 *)

GoodFault(fault) == \A i \in Nat : At(fault, i) \in 0..2

\* The states of a walk, one entry after the other.
WalkStates(h, c, entries, size, fault) ==
  /\ h \in [0..Len(entries) -> Walks]
  /\ h[0] = Start
  /\ \A i \in 1..Len(entries) : h[i] = WalkStep(c, entries, size, fault, h[i - 1], i)

EntryList(entries) == entries \in Seq(Entries(Types8044))

LEMMA EntryType ==
  ASSUME NEW entries, EntryList(entries)
  PROVE  /\ Len(entries) \in Nat /\ DOMAIN entries = 1..Len(entries)
         /\ \A i \in 1..Len(entries) : entries[i] \in Entries(Types8044)
BY DEF EntryList

\* What an entry does to the state of the walk.
Stepped(c, size, w, v, e, i, r) ==
  /\ v \in Walks
  /\ w.stopped => v = w
  /\ ~w.stopped /\ w.ptr > size => v.ptr = w.ptr /\ v.data = w.data /\ v.stopped
  /\ ~w.stopped /\ ~(w.ptr > size) /\ ~e.captured => v = w
  /\ ~w.stopped /\ ~(w.ptr > size) /\ e.captured =>
       v.ptr = w.ptr + r.words /\ v.data = w.data \cup DataOf(w, i, r) /\ v.stopped = (~r.ok /\ e.type \in Hard)

LEMMA StepCases ==
  ASSUME NEW c \in P3P, NEW entries, EntryList(entries), NEW size, NEW fault, GoodFault(fault),
         NEW i \in 1..Len(entries), NEW w \in Walks
  PROVE  Stepped(c, size, w, WalkStep(c, entries, size, fault, w, i), entries[i], i,
                 ResultOf(c, entries[i], At(fault, i)))
<1> DEFINE v == WalkStep(c, entries, size, fault, w, i)
           e == entries[i]
           r == ResultOf(c, e, At(fault, i))
           new == DataOf(w, i, r)
           o == IF e.type \in StatusOf(c) THEN r.ok ELSE w.ok
           s == ~r.ok /\ e.type \in Hard
<1>1. i \in Nat /\ e \in Entries(Types8044) /\ At(fault, i) \in 0..2
  BY EntryType DEF GoodFault
<1>2. r \in Results
  BY <1>1, ResultBounds
<1>3. r.words \in Nat /\ r.ok \in BOOLEAN
  BY <1>2 DEF Results
<1>4. w.ptr \in Nat /\ w.data \in SUBSET MdData /\ w.ok \in BOOLEAN /\ w.stopped \in BOOLEAN
  BY DEF Walks
<1>5. new \in SUBSET MdData
  <2>1. <<"md", i>> \in {"md"} \X Nat
    BY <1>1
  <2> HIDE DEF r
  <2> QED BY <1>3, <1>4, <2>1 DEF MdData, DataOf
<1>6. v = IF w.stopped THEN w
          ELSE IF w.ptr > size THEN [ptr |-> w.ptr, data |-> w.data, ok |-> w.ok, stopped |-> TRUE]
          ELSE IF ~e.captured THEN w
          ELSE [ptr |-> w.ptr + r.words, data |-> w.data \cup new, ok |-> o, stopped |-> s]
  BY DEF WalkStep
<1>7. o \in BOOLEAN /\ s \in BOOLEAN /\ w.ptr + r.words \in Nat /\ w.data \cup new \in SUBSET MdData
  BY <1>3, <1>4, <1>5
<1> SUFFICES Stepped(c, size, w, v, e, i, r)
  OBVIOUS
<1> HIDE DEF r, v, o, e
<1>8. CASE w.stopped
  BY <1>6, <1>8 DEF Stepped
<1>9. CASE ~w.stopped /\ w.ptr > size
  <2>1. v = [ptr |-> w.ptr, data |-> w.data, ok |-> w.ok, stopped |-> TRUE]
    BY <1>6, <1>9
  <2>2. v \in Walks
    BY <1>4, <2>1 DEF Walks
  <2> QED BY <1>9, <2>1, <2>2 DEF Stepped
<1>10. CASE ~w.stopped /\ ~(w.ptr > size) /\ ~e.captured
  BY <1>6, <1>10 DEF Stepped
<1>11. CASE ~w.stopped /\ ~(w.ptr > size) /\ e.captured
  <2> HIDE DEF new, s
  <2>1. v = [ptr |-> w.ptr + r.words, data |-> w.data \cup new, ok |-> o, stopped |-> s]
    BY <1>6, <1>11
  <2>2. v \in Walks
    BY <1>7, <2>1 DEF Walks
  <2>3. v.ptr = w.ptr + r.words /\ v.data = w.data \cup new /\ v.stopped = s
    BY <2>1
  <2> QED BY <1>11, <2>2, <2>3 DEF Stepped, new, s
<1> QED BY <1>8, <1>9, <1>10, <1>11

LEMMA WalkIs ==
  ASSUME NEW c \in P3P, NEW entries, EntryList(entries), NEW size, NEW fault, GoodFault(fault)
  PROVE  \E h : WalkStates(h, c, entries, size, fault) /\ WalkOf(c, entries, size, fault) = h[Len(entries)]
<1> DEFINE n == Len(entries)
           seq == [i \in DOMAIN entries |-> i]
           Step(w, i) == WalkStep(c, entries, size, fault, w, i)
           G == [p \in Walks \X (1..n) |-> Step(p[1], p[2])]
           F(f) == [t \in SUBSET (DOMAIN seq) |->
                      IF t = {} THEN Start ELSE Step(f[t \ {Max(t)}], seq[Max(t)])]
           it == CHOOSE f : f = F(f)
<1>1. n \in Nat /\ DOMAIN entries = 1..n /\ DOMAIN seq = 1..n /\ \A i \in 1..n : seq[i] = i
  BY EntryType
<1>2. /\ G \in [Walks \X (1..n) -> Walks]
      /\ \A w \in Walks, i \in 1..n : G[<<w, i>>] = Step(w, i)
  <2>1. \A w \in Walks, i \in 1..n : Step(w, i) \in Walks
    BY StepCases DEF Stepped
  <2> HIDE DEF Step
  <2> QED BY <2>1
<1>3. WalkOf(c, entries, size, fault) = it[DOMAIN seq]
  <2>1. CASE c = "82xx"
    BY <2>1 DEF WalkOf, md_walk_82xx, Walk, FoldLeft, MapThenFoldSet, WalkStep, ResultOf, StatusOf, At
  <2>2. CASE c = "8044"
    BY <2>2 DEF WalkOf, md_walk_8044, Walk, FoldLeft, MapThenFoldSet, WalkStep, ResultOf, StatusOf, At
  <2> QED BY <2>1, <2>2 DEF P3P
<1> HIDE DEF Step
<1>4. \E f : f = F(f)
  <2>1. PICK f \in [SUBSET (1..n) -> Walks] : Folds1toN(f, n, Start, G)
    <3>1. n \in Nat /\ Start \in Walks /\ G \in [Walks \X (1..n) -> Walks]
      BY <1>1, <1>2 DEF Start, Walks
    <3> HIDE DEF n, G
    <3> QED BY <3>1, FoldExists
  <2> HIDE DEF n, G, seq
  <2>2. \A t \in SUBSET (1..n) : t # {} => f[t \ {Max(t)}] \in Walks /\ Max(t) \in 1..n
    BY <1>1, MaxIs
  <2>3. \A t \in SUBSET (1..n) : t # {} =>
          G[<<f[t \ {Max(t)}], Max(t)>>] = Step(f[t \ {Max(t)}], seq[Max(t)])
    BY <1>1, <1>2, <2>2
  <2>4. F(f) = [t \in SUBSET (1..n) |->
           IF t = {} THEN Start ELSE G[<<f[t \ {Max(t)}], Max(t)>>]]
    BY <1>1, <2>3
  <2> QED BY <2>1, <2>4 DEF Folds1toN
<1>5. it = F(it)
  <2> HIDE DEF F
  <2> QED BY <1>4
<1>6. \A t \in SUBSET (1..n) :
        it[t] = IF t = {} THEN Start ELSE Step(it[t \ {Max(t)}], seq[Max(t)])
  <2> HIDE DEF it, n, seq
  <2> QED BY <1>1, <1>5
<1>7. it[{}] = Start
  <2> HIDE DEF it, n, seq
  <2> QED BY <1>6
<1>8. ASSUME NEW i \in 1..n, it[1..(i - 1)] \in Walks
      PROVE  it[1..i] = G[<<it[1..(i - 1)], i>>]
  <2> HIDE DEF it, G, n, seq
  <2>1. it[1..i] = Step(it[1..(i - 1)], i)
    <3>1. /\ 1..i \in SUBSET (1..n) /\ 1..i # {} /\ Max(1..i) = i
          /\ (1..i) \ {Max(1..i)} = 1..(i - 1)
      BY <1>1, TopOfInterval
    <3>2. it[1..i] = Step(it[(1..i) \ {Max(1..i)}], seq[Max(1..i)])
      BY <1>6, <3>1
    <3> QED BY <1>1, <3>1, <3>2
  <2> QED BY <1>2, <1>8, <2>1
<1>9. PICK h : Values(h, n, Walks, Start, G) /\ h[n] = it[1..n]
  <2> HIDE DEF it, G, n
  <2>1. StepsBy(it, n, Walks, Start, G)
    <3>1. Start \in Walks
      BY DEF Start, Walks
    <3> QED BY <1>1, <1>2, <1>7, <1>8, <3>1 DEF StepsBy
  <2> QED BY <2>1, FoldSteps
<1>10. \A i \in 1..n : h[i] = Step(h[i - 1], i)
  <2> HIDE DEF it, G, n
  <2> SUFFICES ASSUME NEW i \in 1..n PROVE h[i] = Step(h[i - 1], i)
    OBVIOUS
  <2>1. h[i - 1] \in Walks
    <3>1. i - 1 \in 0..n
      BY <1>1
    <3> QED BY <3>1, <1>9 DEF Values
  <2> QED BY <1>2, <1>9, <2>1 DEF Values
<1>11. WalkStates(h, c, entries, size, fault)
  <2> HIDE DEF it, G
  <2> QED BY <1>9, <1>10 DEF WalkStates, Values, Step
<1>12. WalkOf(c, entries, size, fault) = h[n]
  <2> HIDE DEF it, G, n, seq
  <2> QED BY <1>1, <1>3, <1>9
<1> QED BY <1>11, <1>12

--------------------------------------------------------------------------
(* A walk adds at most what the entries claim.                             *)

Claims(entries) == [i \in DOMAIN entries |-> Claim(entries[i])]

LEMMA ClaimsType ==
  ASSUME NEW entries, EntryList(entries)
  PROVE  /\ Claims(entries) \in Seq(Nat) /\ Len(Claims(entries)) = Len(entries)
         /\ \A i \in 1..Len(entries) : Claims(entries)[i] = Claim(entries[i]) /\ Claim(entries[i]) \in Nat
<1>1. Len(entries) \in Nat /\ DOMAIN entries = 1..Len(entries)
  BY EntryType
<1>2. \A i \in 1..Len(entries) : Claim(entries[i]) \in Nat
  <2> SUFFICES ASSUME NEW i \in 1..Len(entries) PROVE Claim(entries[i]) \in Nat
    OBVIOUS
  <2>1. entries[i] \in Entries(Types8044)
    BY EntryType
  <2>2. Result8044(entries[i], 0) \in Results
    <3>1. "8044" \in P3P /\ 0 \in 0..2
      BY DEF P3P
    <3> QED BY <2>1, <3>1, ResultBounds
  <2>3. Result8044(entries[i], 0).words \in Nat
    BY <2>2 DEF Results
  <2> QED BY <2>3 DEF Claim
<1>3. Claims(entries) = [i \in 1..Len(entries) |-> Claim(entries[i])]
  BY <1>1 DEF Claims
<1>4. \A i \in 1..Len(entries) : Claims(entries)[i] = Claim(entries[i])
  BY <1>3
<1>5. Claims(entries) \in [1..Len(entries) -> Nat]
  BY <1>2, <1>3
<1>6. Claims(entries) \in Seq(Nat) /\ Len(Claims(entries)) = Len(entries)
  BY <1>1, <1>5
<1> QED BY <1>2, <1>4, <1>6

LEMMA ClaimedTotal ==
  ASSUME NEW entries, EntryList(entries)
  PROVE  Claimed(entries) = Total(Claims(entries))
<1> DEFINE n == Len(entries)
           F(f) == [t \in SUBSET (DOMAIN entries) |->
                      IF t = {} THEN 0 ELSE f[t \ {Max(t)}] + Claim(entries[Max(t)])]
           it == CHOOSE f : f = F(f)
           H(f) == [t \in SUBSET (DOMAIN Claims(entries)) |->
                      IF t = {} THEN 0 ELSE f[t \ {Max(t)}] + Claims(entries)[Max(t)]]
           jt == CHOOSE f : f = H(f)
<1>1. n \in Nat /\ DOMAIN entries = 1..n /\ DOMAIN Claims(entries) = 1..n
      /\ \A i \in 1..n : Claims(entries)[i] = Claim(entries[i])
  BY EntryType, ClaimsType DEF Claims
<1>2. Claimed(entries) = it[DOMAIN entries]
  BY DEF Claimed, Claim, FoldLeft, MapThenFoldSet
<1>3. Total(Claims(entries)) = jt[DOMAIN Claims(entries)]
  BY DEF Total, FoldLeft, MapThenFoldSet
<1>4. \A f : F(f) = H(f)
  <2> SUFFICES ASSUME NEW f PROVE F(f) = H(f)
    OBVIOUS
  <2>1. \A t \in SUBSET (1..n) : t # {} => Max(t) \in 1..n
    BY <1>1, MaxIs
  <2>2. \A t \in SUBSET (1..n) : t # {} => Claims(entries)[Max(t)] = Claim(entries[Max(t)])
    BY <1>1, <2>1
  <2> HIDE DEF n
  <2> QED BY <1>1, <2>2
<1>5. it = jt
  <2> HIDE DEF F, H
  <2> QED BY <1>4
<1> HIDE DEF it, jt
<1> QED BY <1>1, <1>2, <1>3, <1>5

LEMMA ClaimedIs ==
  ASSUME NEW entries, EntryList(entries)
  PROVE  \E k : Sums(Claims(entries), k) /\ Claimed(entries) = k[Len(entries)]
<1>1. Claims(entries) \in Seq(Nat) /\ Len(Claims(entries)) = Len(entries)
  BY ClaimsType
<1>2. PICK k : Sums(Claims(entries), k) /\ Total(Claims(entries)) = k[Len(Claims(entries))]
  BY <1>1, TotalIsSum
<1> QED BY <1>1, <1>2, ClaimedTotal

\* The sums of a list only grow.
LEMMA SumsRise ==
  ASSUME NEW s \in Seq(Nat), NEW h, Sums(s, h)
  PROVE  \A i \in 0..Len(s) : h[i] \in Nat /\ h[i] <= h[Len(s)]
<1> DEFINE n == Len(s)
           T == {i \in 0..n : ~ h[n - i] <= h[n]}
<1>0. n \in Nat /\ \A i \in 1..n : s[i] \in Nat
  OBVIOUS
<1>1. \A i \in 0..n : h[i] \in Nat
  BY DEF Sums
<1>2. T \subseteq 0..n /\ 0 \notin T
  BY <1>0, <1>1
<1>3. \A i \in 1..n : i - 1 \notin T => i \notin T
  <2> SUFFICES ASSUME NEW i \in 1..n, i - 1 \notin T PROVE i \notin T
    OBVIOUS
  <2>1. h[n - (i - 1)] <= h[n]
    BY <1>0
  <2>2. n - (i - 1) \in 1..n /\ (n - (i - 1)) - 1 = n - i /\ n - i \in 0..n
    BY <1>0
  <2>3. h[n - (i - 1)] = h[n - i] + s[n - (i - 1)] /\ s[n - (i - 1)] \in Nat
    BY <1>0, <2>2 DEF Sums
  <2>4. h[n - i] \in Nat /\ h[n] \in Nat /\ n - (i - 1) \in 0..n /\ h[n - (i - 1)] \in Nat
    BY <1>0, <1>1, <2>2
  <2>5. h[n - i] <= h[n]
    BY <2>1, <2>3, <2>4
  <2> QED BY <2>5
<1>4. T = {}
  <2> HIDE DEF T, n
  <2> QED BY <1>0, <1>2, <1>3, NoneBad
<1>5. ASSUME NEW i \in 0..n PROVE h[i] <= h[n]
  <2>1. n - i \in 0..n /\ n - (n - i) = i
    BY <1>0
  <2>2. n - i \notin T
    BY <1>4
  <2> QED BY <2>1, <2>2
<1> QED BY <1>1, <1>5

\* A walk never has more than the entries so far claim, and what it has lies
\* before where it is.
Within(w, k) ==
  w.ptr \in Nat /\ w.ptr <= k /\ \A x \in w.data : x.at \in Nat /\ x.len \in Nat \ {0} /\ x.at + x.len <= w.ptr

LEMMA StepWithin ==
  ASSUME NEW c \in P3P, NEW e \in Entries(Types8044), NEW x \in 0..2, NEW size \in Nat, NEW i,
         NEW w \in Walks, NEW v, NEW k \in Nat, k <= size, Within(w, k),
         Stepped(c, size, w, v, e, i, ResultOf(c, e, x))
  PROVE  Within(v, k + Claim(e)) /\ Claim(e) \in Nat /\ v.ptr - w.ptr <= Claim(e)
<1> DEFINE r == ResultOf(c, e, x)
           k0 == Result8044(e, 0)
<1>1. r \in Results /\ k0 \in Results /\ r.words <= k0.words
  BY ResultBounds
<1>2. r.words \in Nat /\ k0.words \in Nat /\ Claim(e) = (IF e.captured THEN k0.words ELSE 0)
  BY <1>1 DEF Results, Claim
<1>3. Claim(e) \in Nat
  BY <1>2
<1>4. w.ptr \in Nat /\ w.ptr <= k /\ ~(w.ptr > size)
      /\ \A y \in w.data : y.at \in Nat /\ y.len \in Nat \ {0} /\ y.at + y.len <= w.ptr
  BY DEF Within
<1> HIDE DEF r, k0
<1>5. CASE v = w
  BY <1>3, <1>4, <1>5 DEF Within
<1>6. CASE ~w.stopped /\ e.captured
  <2>1. v.ptr = w.ptr + r.words /\ v.data = w.data \cup DataOf(w, i, r)
    BY <1>4, <1>6 DEF Stepped, r
  <2>2. \A y \in DataOf(w, i, r) : y.at = w.ptr /\ y.len = r.words /\ r.words # 0
    BY DEF DataOf
  <2>3. ASSUME NEW y \in v.data
        PROVE  y.at \in Nat /\ y.len \in Nat \ {0} /\ y.at + y.len <= v.ptr
    <3>1. CASE y \in w.data
      BY <1>2, <1>4, <2>1, <3>1
    <3>2. CASE y \in DataOf(w, i, r)
      BY <1>2, <1>4, <2>1, <2>2, <3>2
    <3> QED BY <2>1, <3>1, <3>2
  <2>4. v.ptr \in Nat /\ v.ptr <= k + Claim(e) /\ v.ptr - w.ptr <= Claim(e)
    BY <1>1, <1>2, <1>4, <1>6, <2>1
  <2> QED BY <1>3, <2>3, <2>4 DEF Within
<1>7. v = w \/ (~w.stopped /\ e.captured)
  BY <1>4 DEF Stepped
<1> QED BY <1>5, <1>6, <1>7

LEMMA WalkWithin ==
  ASSUME NEW c \in P3P, NEW entries, EntryList(entries), NEW size \in Nat, NEW fault, GoodFault(fault),
         NEW h, WalkStates(h, c, entries, size, fault),
         NEW k, Sums(Claims(entries), k), k[Len(entries)] <= size
  PROVE  \A i \in 0..Len(entries) : Within(h[i], k[i]) /\ k[i] \in Nat /\ k[i] <= size
<1> DEFINE n == Len(entries)
           T == {i \in 0..n : ~Within(h[i], k[i])}
<1>1. n \in Nat /\ \A i \in 1..n : entries[i] \in Entries(Types8044) /\ At(fault, i) \in 0..2
  BY EntryType DEF GoodFault
<1>2. /\ Claims(entries) \in Seq(Nat) /\ Len(Claims(entries)) = n
      /\ \A i \in 1..n : Claims(entries)[i] = Claim(entries[i])
  BY ClaimsType
<1>3. /\ k[0] = 0 /\ \A i \in 1..n : k[i] = k[i - 1] + Claim(entries[i])
      /\ \A i \in 0..n : k[i] \in Nat /\ k[i] <= k[n]
  BY <1>2, SumsRise DEF Sums
<1>4. /\ \A i \in 0..n : h[i] \in Walks
      /\ h[0] = Start
      /\ \A i \in 1..n : h[i] = WalkStep(c, entries, size, fault, h[i - 1], i)
  BY DEF WalkStates
<1>5. \A i \in 0..n : k[i] \in Nat /\ k[i] <= size
  <2>1. n \in 0..n
    BY <1>1
  <2> QED BY <1>3, <2>1
<1>6. T \subseteq 0..n /\ 0 \notin T
  BY <1>3, <1>4 DEF Start, Within
<1>7. \A i \in 1..n : i - 1 \notin T => i \notin T
  <2> SUFFICES ASSUME NEW i \in 1..n, i - 1 \notin T PROVE i \notin T
    OBVIOUS
  <2>0. i - 1 \in 0..n
    BY <1>1
  <2>1. Within(h[i - 1], k[i - 1]) /\ k[i - 1] \in Nat /\ k[i - 1] <= size /\ h[i - 1] \in Walks
    BY <1>4, <1>5, <2>0
  <2>2. Stepped(c, size, h[i - 1], h[i], entries[i], i, ResultOf(c, entries[i], At(fault, i)))
    BY <1>4, <2>1, StepCases
  <2>3. Within(h[i], k[i - 1] + Claim(entries[i]))
    BY <1>1, <2>1, <2>2, StepWithin
  <2> QED BY <1>3, <2>3
<1>8. T = {}
  <2> HIDE DEF T, n
  <2> QED BY <1>1, <1>6, <1>7, NoneBad
<1> QED BY <1>5, <1>8

\* What a minidump writes stays within what its template claims.
LEMMA MdFits ==
  ASSUME NEW c \in P3P, NEW entries, EntryList(entries), NEW size \in Nat, NEW fault, GoodFault(fault),
         Claimed(entries) <= size
  PROVE  LET w == WalkOf(c, entries, size, fault)
         IN /\ w \in Walks /\ w.ptr <= size
            /\ \A x \in w.data : x \in MdData /\ x.at + x.len <= size
<1> DEFINE w == WalkOf(c, entries, size, fault)
           n == Len(entries)
<1>1. PICK h : WalkStates(h, c, entries, size, fault) /\ w = h[n]
  BY WalkIs
<1>2. PICK k : Sums(Claims(entries), k) /\ Claimed(entries) = k[n]
  BY ClaimedIs
<1>3. n \in 0..n
  BY EntryType
<1>4. Within(w, k[n]) /\ k[n] \in Nat /\ k[n] <= size
  <2> HIDE DEF w
  <2> QED BY <1>1, <1>2, <1>3, WalkWithin
<1>5. w \in Walks
  BY <1>1, <1>3 DEF WalkStates
<1>6. w.data \subseteq MdData
  BY <1>5 DEF Walks
<1> HIDE DEF w
<1>7. w.ptr <= size /\ \A x \in w.data : x.at + x.len <= size
  BY <1>4 DEF Within
<1> QED BY <1>5, <1>6, <1>7 DEF w

--------------------------------------------------------------------------
(* A walk that adds all that is claimed adds what an undisturbed one does. *)

\* Two walks that have the same data; the second does not stop before the first.
SameData(w, w0) == w0.ptr = w.ptr /\ w0.data = w.data /\ (w0.stopped => w.stopped)

\* An entry that adds all it claims adds the same if nothing times out.
LEMMA SameStep ==
  ASSUME NEW c \in P3P, NEW e \in Entries(Types8044), NEW x \in 0..2, NEW size \in Nat, NEW i,
         NEW w \in Walks, NEW v, NEW w0 \in Walks, NEW v0,
         w.ptr <= size, SameData(w, w0), v.ptr = w.ptr + Claim(e),
         Stepped(c, size, w, v, e, i, ResultOf(c, e, x)),
         Stepped(c, size, w0, v0, e, i, ResultOf(c, e, 0))
  PROVE  SameData(v, v0)
<1> DEFINE r == ResultOf(c, e, x)
           r0 == ResultOf(c, e, 0)
           k0 == Result8044(e, 0)
<1>1. /\ r \in Results /\ k0 \in Results /\ r.words <= k0.words /\ r.words <= r0.words
      /\ ~r0.ok /\ e.type \in Hard => ~r.ok
  BY ResultBounds
<1>2. r0 \in Results /\ r0.words <= k0.words
  <2>1. 0 \in 0..2
    OBVIOUS
  <2> QED BY <2>1, ResultBounds
<1>3. r.words \in Nat /\ k0.words \in Nat /\ r0.words \in Nat /\ Claim(e) = (IF e.captured THEN k0.words ELSE 0)
  BY <1>1, <1>2 DEF Results, Claim
<1>4. /\ w.ptr \in Nat /\ ~(w.ptr > size) /\ ~(w0.ptr > size) /\ w0.ptr = w.ptr
      /\ w0.data = w.data /\ (w0.stopped => w.stopped)
  BY DEF Walks, SameData
<1> HIDE DEF r, r0, k0
<1>5. CASE ~e.captured
  <2>1. v = w /\ v0 = w0
    BY <1>4, <1>5 DEF Stepped
  <2> QED BY <2>1
<1>6. CASE e.captured /\ w.stopped
  <2>1. v = w
    BY <1>6 DEF Stepped
  <2>2. k0.words = 0
    BY <1>3, <1>4, <1>6, <2>1
  <2>3. r0.words = 0
    BY <1>2, <1>3, <2>2
  <2>4. CASE w0.stopped
    <3>1. v0 = w0
      BY <2>4 DEF Stepped
    <3> QED BY <2>1, <3>1
  <2>5. CASE ~w0.stopped
    <3>1. v0.ptr = w0.ptr + r0.words /\ v0.data = w0.data \cup DataOf(w0, i, r0)
      BY <1>4, <1>6, <2>5 DEF Stepped, r0
    <3>2. v0.ptr = w0.ptr /\ v0.data = w0.data
      BY <1>4, <2>3, <3>1 DEF DataOf
    <3> QED BY <1>4, <1>6, <2>1, <3>2 DEF SameData
  <2> QED BY <2>4, <2>5
<1>7. CASE e.captured /\ ~w.stopped
  <2>1. ~w0.stopped
    BY <1>4, <1>7
  <2>2. /\ v.ptr = w.ptr + r.words /\ v.data = w.data \cup DataOf(w, i, r)
        /\ v.stopped = (~r.ok /\ e.type \in Hard)
    BY <1>4, <1>7 DEF Stepped, r
  <2>3. /\ v0.ptr = w0.ptr + r0.words /\ v0.data = w0.data \cup DataOf(w0, i, r0)
        /\ v0.stopped = (~r0.ok /\ e.type \in Hard)
    BY <1>4, <1>7, <2>1 DEF Stepped, r0
  <2>4. r.words = k0.words
    BY <1>3, <1>4, <1>7, <2>2
  <2>5. r0.words = r.words
    BY <1>1, <1>2, <1>3, <2>4
  <2>6. DataOf(w0, i, r0) = DataOf(w, i, r)
    BY <1>4, <2>5 DEF DataOf
  <2>7. v0.ptr = v.ptr /\ v0.data = v.data
    BY <1>4, <2>2, <2>3, <2>5, <2>6
  <2>8. v0.stopped => v.stopped
    BY <1>1, <2>2, <2>3
  <2> QED BY <2>7, <2>8 DEF SameData
<1> QED BY <1>5, <1>6, <1>7

\* A minidump that fills its buffer has all the data that there would be
\* without a timeout.
LEMMA MdWhole ==
  ASSUME NEW c \in P3P, NEW entries, EntryList(entries), NEW size \in Nat, NEW fault, GoodFault(fault),
         Claimed(entries) <= size, WalkOf(c, entries, size, fault).ptr = size
  PROVE  WalkOf(c, entries, size, NoFault).data = WalkOf(c, entries, size, fault).data
<1> DEFINE n == Len(entries)
<1>0. GoodFault(NoFault)
  BY DEF GoodFault, NoFault, At
<1>1. PICK h : WalkStates(h, c, entries, size, fault) /\ WalkOf(c, entries, size, fault) = h[n]
  BY WalkIs
<1>2. PICK g : WalkStates(g, c, entries, size, NoFault) /\ WalkOf(c, entries, size, NoFault) = g[n]
  BY <1>0, WalkIs
<1>3. PICK k : Sums(Claims(entries), k) /\ Claimed(entries) = k[n]
  BY ClaimedIs
<1>4. /\ n \in Nat /\ n \in 0..n
      /\ \A i \in 1..n : i \in 0..n /\ i - 1 \in 0..n /\ i \in Nat /\ i # 0
      /\ \A i \in 1..n : entries[i] \in Entries(Types8044) /\ At(fault, i) \in 0..2 /\ At(NoFault, i) = 0
  BY EntryType DEF GoodFault, At, NoFault
<1>5. /\ \A i \in 0..n : h[i] \in Walks /\ g[i] \in Walks
      /\ h[0] = Start /\ g[0] = Start
      /\ \A i \in 1..n : h[i] = WalkStep(c, entries, size, fault, h[i - 1], i)
      /\ \A i \in 1..n : g[i] = WalkStep(c, entries, size, NoFault, g[i - 1], i)
  BY <1>1, <1>2 DEF WalkStates
<1>6. \A i \in 0..n : Within(h[i], k[i]) /\ k[i] \in Nat /\ k[i] <= size
  BY <1>1, <1>3, WalkWithin
<1>7. /\ Claims(entries) \in Seq(Nat) /\ Len(Claims(entries)) = n
      /\ \A i \in 1..n : Claims(entries)[i] = Claim(entries[i]) /\ Claim(entries[i]) \in Nat
  BY ClaimsType
<1>8. \A i \in 1..n : k[i] = k[i - 1] + Claim(entries[i])
  BY <1>3, <1>7 DEF Sums
<1>9. \A i \in 0..n : h[i].ptr \in Nat /\ h[i].ptr <= k[i]
  BY <1>6 DEF Within
<1>10. \A i \in 1..n : Stepped(c, size, h[i - 1], h[i], entries[i], i, ResultOf(c, entries[i], At(fault, i)))
  BY <1>4, <1>5, StepCases
<1>11. \A i \in 1..n : Stepped(c, size, g[i - 1], g[i], entries[i], i, ResultOf(c, entries[i], 0))
  <2> SUFFICES ASSUME NEW i \in 1..n
               PROVE  Stepped(c, size, g[i - 1], g[i], entries[i], i, ResultOf(c, entries[i], 0))
    OBVIOUS
  <2>1. Stepped(c, size, g[i - 1], g[i], entries[i], i, ResultOf(c, entries[i], At(NoFault, i)))
    BY <1>0, <1>4, <1>5, StepCases
  <2> QED BY <1>4, <2>1
<1>12. \A i \in 1..n : h[i].ptr - h[i - 1].ptr <= Claim(entries[i])
  <2> SUFFICES ASSUME NEW i \in 1..n PROVE h[i].ptr - h[i - 1].ptr <= Claim(entries[i])
    OBVIOUS
  <2>1. h[i - 1] \in Walks /\ k[i - 1] \in Nat /\ k[i - 1] <= size /\ Within(h[i - 1], k[i - 1])
    BY <1>4, <1>5, <1>6
  <2> QED BY <1>4, <1>10, <2>1, StepWithin
\* Once an entry has added less than it claims, the end cannot be reached.
<1>13. \A i \in 0..n : h[i].ptr = k[i]
  <2> DEFINE T == {i \in 0..n : ~(h[n - i].ptr = k[n - i])}
  <2>1. h[n].ptr = k[n]
    <3>1. h[n].ptr = size /\ k[n] <= size
      BY <1>1, <1>3
    <3>2. h[n].ptr <= k[n] /\ k[n] \in Nat
      BY <1>4, <1>6, <1>9
    <3> QED BY <3>1, <3>2
  <2>2. T \subseteq 0..n /\ 0 \notin T
    BY <1>4, <2>1
  <2>3. \A i \in 1..n : i - 1 \notin T => i \notin T
    <3> SUFFICES ASSUME NEW i \in 1..n, i - 1 \notin T PROVE i \notin T
      OBVIOUS
    <3> DEFINE j == n - (i - 1)
    <3>1. j \in 1..n /\ j - 1 = n - i /\ i - 1 \in 0..n /\ j \in 0..n /\ j - 1 \in 0..n
      BY <1>4
    <3>2. h[j].ptr = k[j]
      BY <3>1
    <3> HIDE DEF j, n
    <3>3. h[j].ptr - h[j - 1].ptr <= Claim(entries[j]) /\ k[j] = k[j - 1] + Claim(entries[j])
      BY <1>8, <1>12, <3>1
    <3>4. h[j].ptr \in Nat /\ h[j - 1].ptr \in Nat /\ h[j - 1].ptr <= k[j - 1] /\ k[j - 1] \in Nat
          /\ k[j] \in Nat /\ Claim(entries[j]) \in Nat
      BY <1>6, <1>7, <1>9, <3>1
    <3>5. h[j - 1].ptr = k[j - 1]
      BY <3>2, <3>3, <3>4
    <3> QED BY <3>1, <3>5
  <2>4. T = {}
    <3> HIDE DEF T, n
    <3> QED BY <1>4, <2>2, <2>3, NoneBad
  <2>5. ASSUME NEW i \in 0..n PROVE h[i].ptr = k[i]
    <3>1. n - i \in 0..n /\ n - (n - i) = i
      BY <1>4
    <3>2. n - i \notin T
      BY <2>4
    <3> QED BY <3>1, <3>2
  <2> QED BY <2>5
<1>14. \A i \in 0..n : SameData(h[i], g[i])
  <2> DEFINE T == {i \in 0..n : ~SameData(h[i], g[i])}
  <2>1. T \subseteq 0..n /\ 0 \notin T
    BY <1>5 DEF SameData
  <2>2. \A i \in 1..n : i - 1 \notin T => i \notin T
    <3> SUFFICES ASSUME NEW i \in 1..n, i - 1 \notin T PROVE i \notin T
      OBVIOUS
    <3>1. i - 1 \in 0..n /\ i \in 0..n
      BY <1>4
    <3>2. SameData(h[i - 1], g[i - 1]) /\ h[i - 1] \in Walks /\ g[i - 1] \in Walks
      BY <1>5, <3>1
    <3>3. h[i].ptr = h[i - 1].ptr + Claim(entries[i])
      BY <1>8, <1>13, <3>1
    <3>4. h[i - 1].ptr <= size
      BY <1>6, <1>13, <3>1
    <3>5. SameData(h[i], g[i])
      <4> HIDE DEF T, n
      <4>1. entries[i] \in Entries(Types8044) /\ At(fault, i) \in 0..2
        BY <1>4
      <4>2. /\ Stepped(c, size, h[i - 1], h[i], entries[i], i, ResultOf(c, entries[i], At(fault, i)))
            /\ Stepped(c, size, g[i - 1], g[i], entries[i], i, ResultOf(c, entries[i], 0))
        BY <1>10, <1>11
      <4> QED BY <3>2, <3>3, <3>4, <4>1, <4>2, SameStep
    <3> QED BY <3>5
  <2>3. T = {}
    <3> HIDE DEF T, n
    <3> QED BY <1>4, <2>1, <2>2, NoneBad
  <2> QED BY <2>3
<1>15. SameData(h[n], g[n])
  BY <1>4, <1>14
<1> QED BY <1>1, <1>2, <1>15 DEF SameData

--------------------------------------------------------------------------
(* The inductive invariant: what is known of the buffer, by adapter.  Sizes *)
(* are operators of constants and of the values of the variables.          *)

\* The length of the fixed layout, the room for a chain, and the size of a
\* minidump.
BodySize(c, mem, e) == Regs + Ram + (IF c # "2100" THEN mem ELSE 0) + (Req + Rsp) + e
ChainRoom(c, on) ==
  IF ~on THEN 0
  ELSE (IF c = "83xx" THEN 0 ELSE Mq) + (MaxQueue["req"] + 1) * Req + (MaxQueue["rsp"] + 1) * Rsp
Needs(c, t) == Claimed(MdEntries[c][t - Of(0)])
OfFirmware == {Of(f) : f \in Firmware}

Buffers == [size : Nat, mem : Nat, tmplt : Templates \cup {None}, eft : {0, Eft}, chain : Nat]

\* DumpTypeOK but for the areas, which are looked at below.
StateOK ==
  /\ chip \in ChipSet /\ mqenable \in BOOLEAN
  /\ fw \in Firmware \cup {0}
  /\ fce \in {"none", "live", "stale"} /\ eft \in {"none", "live", "stale"}
  /\ buf \in Buffers
  /\ len \in Nat /\ variant \in BOOLEAN
  /\ fw_dumped \in BOOLEAN /\ fw_dump_reading \in BOOLEAN
  /\ \A q \in queues : q[1] \in Kinds /\ q[2] \in Queues(q[1])
  /\ tmplt \in Templates \cup {None, Partial}
  /\ spare \in BOOLEAN /\ reset \in {"no", "asked", "started"}
  /\ changes \in 0..MaxChanges[chip]
  /\ no_md_cap \in BOOLEAN /\ prev_minidump_failed \in BOOLEAN /\ starved \in BOOLEAN
  /\ dumps \in 0..MaxDumps

\* A dump is of a firmware that ran.
LastOK == last.mem \in Nat /\ last.tmplt \in Templates \cup {None}

\* Without a buffer there is no dump; the adapters with a fixed layout then
\* have no traces either, since the two are allocated together.
NothingThere ==
  buf = NoBuf =>
    /\ areas = {}
    /\ chip \in Laid => fce = "none" /\ eft = "none" /\ ~fw_dumped /\ ~variant

\* What the first start of the firmware finds.
FirstOfAll == fw = 0 => buf = NoBuf /\ ~fw_dumped /\ tmplt # Partial /\ dumps = 0

\* Which adapters have which traces, and queues.
TracesKnown ==
  /\ fce # "none" => chip \in FceChips
  /\ eft # "none" => chip \in Fwi2 \cup {"27xx"}
  /\ mqenable => chip \in FceChips
  /\ queues # {} => mqenable
  /\ chip \in Laid => fce # "stale" /\ eft # "stale"

\* The buffer of a fixed layout: the layout, then room for the chain.
LaidBuffer ==
  chip \in Laid /\ buf # NoBuf =>
    /\ buf.tmplt = None
    /\ buf.eft = (IF eft = "none" THEN 0 ELSE Eft)
    /\ buf.chain = Hdr + BodySize(chip, buf.mem, buf.eft)
    /\ buf.size = buf.chain + ChainRoom(chip, mqenable) + (IF fce = "none" THEN 0 ELSE Fce)

\* The buffer of the 27xx: what its template writes with all queues.
WalkedBuffer ==
  chip = "27xx" /\ buf # NoBuf =>
    /\ buf.tmplt \in Templates
    /\ buf.size = Length(dry_walk(buf.tmplt, buf.mem, fce, eft))

\* Which adapters have which templates.
TmpltOf ==
  /\ chip \in Laid => tmplt = None
  /\ tmplt = Partial => chip = "27xx" /\ buf = NoBuf
  /\ chip \in P3P => tmplt \in {None} \cup OfFirmware

\* The buffer of a minidump: what the template claims, and more only after
\* md_alloc found no memory.
MdBuffer ==
  chip \in P3P =>
    /\ last = NoDump /\ ~variant
    /\ buf # NoBuf => /\ buf = MdBuf(len)
                      /\ tmplt \in OfFirmware /\ len >= Needs(chip, tmplt)
                      /\ ~starved => len = Needs(chip, tmplt)
    /\ buf = NoBuf /\ ~starved => len = 0

\* A chain is announced only by an adapter that may have one.
VariantMeans == variant => chip \in FceChips \cap Laid /\ (mqenable \/ fce # "none")

BufferInv ==
  /\ StateOK /\ LastOK /\ NothingThere /\ FirstOfAll /\ TracesKnown
  /\ LaidBuffer /\ WalkedBuffer /\ TmpltOf /\ MdBuffer /\ VariantMeans

--------------------------------------------------------------------------
(* Facts about constants the steps need.                                   *)

LEMMA FirmwareIs ==
  /\ 0 \notin Firmware /\ Firmware \subseteq Nat
  /\ \A f \in Firmware : Of(f) \in Templates /\ Of(f) \in Nat /\ Of(f) - Of(0) = f /\ Of(f) > 3
  /\ \A t \in Templates : t \in Nat /\ t >= 2
  /\ None \notin Templates /\ Partial \notin Templates /\ None # Partial
  /\ Default \in Templates /\ User \in Templates
<1>1. Firmware \subseteq Nat /\ 0 \notin Firmware
  <2>1. IsFiniteSet(Firmware) /\ Firmware = 1..Cardinality(Firmware)
    BY FwDumpAssumption
  <2>2. Cardinality(Firmware) \in Nat
    BY <2>1, FS_CardinalityType
  <2> QED BY <2>1, <2>2
<1>2. \A f \in Firmware : Of(f) \in Nat /\ Of(f) - Of(0) = f /\ Of(f) > 3
  BY <1>1 DEF Of
<1>3. \A t \in Templates : t \in Nat /\ t >= 2
  BY <1>2 DEF Templates, Default, User
<1> QED BY <1>1, <1>2, <1>3 DEF Templates, Default, User, None, Partial

LEMMA NeedsType ==
  ASSUME NEW c \in P3P, NEW f \in Firmware
  PROVE  /\ Needs(c, Of(f)) \in Nat /\ Needs(c, Of(f)) > 0
         /\ EntryList(MdEntries[c][Of(f) - Of(0)])
<1>1. Of(f) - Of(0) = f
  BY FirmwareIs
<1>2. EntryList(MdEntries[c][f]) /\ Claimed(MdEntries[c][f]) > 0
  BY FwDumpAssumption DEF EntryList
<1>3. PICK k : Sums(Claims(MdEntries[c][f]), k) /\ Claimed(MdEntries[c][f]) = k[Len(MdEntries[c][f])]
  BY <1>2, ClaimedIs
<1>4. Claims(MdEntries[c][f]) \in Seq(Nat) /\ Len(Claims(MdEntries[c][f])) = Len(MdEntries[c][f])
  BY <1>2, ClaimsType
<1>5. k[Len(MdEntries[c][f])] \in Nat
  <2>1. Len(MdEntries[c][f]) \in Nat
    BY <1>2, EntryType
  <2> QED BY <1>3, <1>4, <2>1 DEF Sums
<1> QED BY <1>1, <1>2, <1>3, <1>5 DEF Needs

LEMMA ChipKinds ==
  /\ "27xx" \notin P3P /\ "27xx" \notin Laid /\ Laid \cap P3P = {}
  /\ FceChips \cap P3P = {} /\ Fwi2 \subseteq Laid
  /\ FceChips \subseteq Fwi2 \cup {"27xx"} /\ "27xx" \in FceChips
  /\ ChipSet \subseteq Laid \cup P3P \cup {"27xx"}
  /\ P3P \cap (Fwi2 \cup {"27xx"}) = {}
BY FwDumpAssumption DEF P3P, Chips, Laid, FceChips, Fwi2

\* Both sizes are natural numbers.
LEMMA RoomType ==
  ASSUME NEW c, NEW mem \in Nat, NEW e \in {0, Eft}, NEW on \in BOOLEAN
  PROVE  BodySize(c, mem, e) \in Nat /\ ChainRoom(c, on) \in Nat
<1>1. e \in Nat
  BY Sizes
<1>2. BodySize(c, mem, e) \in Nat
  BY <1>1, Sizes DEF BodySize
<1>3. (MaxQueue["req"] + 1) * Req \in Nat /\ (MaxQueue["rsp"] + 1) * Rsp \in Nat
  BY Sizes
<1>4. ChainRoom(c, on) \in Nat
  BY <1>3, Sizes DEF ChainRoom
<1> QED BY <1>2, <1>4

LEMMA BodyLength ==
  ASSUME NEW mem \in Nat, NEW e \in {0, Eft}
  PROVE  Body(mem, e) \in Lists /\ Length(Body(mem, e)) = BodySize(chip, mem, e)
BY BodyIs DEF Sized, BodySize

LEMMA RoomIs == \A on \in BOOLEAN : mq_size(on) = ChainRoom(chip, on)
BY DEF mq_size, ChainRoom

--------------------------------------------------------------------------
(* The start, and the outcomes of an allocation.                           *)

\* The initial states are sound.
LEMMA InitIs == DumpInit => BufferInv
<1> SUFFICES ASSUME DumpInit PROVE BufferInv
  OBVIOUS
<1> USE DEF DumpInit
<1>1. NoBuf \in Buffers
  BY FirmwareIs DEF NoBuf, MdBuf, Buffers
<1>2. tmplt \in Templates \cup {None}
  BY FirmwareIs
<1>3. chip \in Laid \cup P3P => tmplt = None
  BY ChipKinds
<1>4. StateOK
  <2>1. 0 \in 0..MaxChanges[chip] /\ 0 \in 0..MaxDumps
    BY FwDumpAssumption
  <2> QED BY <1>1, <1>2, <2>1 DEF StateOK
<1>5. LastOK
  BY DEF LastOK, NoDump
<1>6. NothingThere /\ LaidBuffer /\ WalkedBuffer /\ VariantMeans
  BY DEF NothingThere, LaidBuffer, WalkedBuffer, VariantMeans
<1>7. FirstOfAll
  BY <1>2, FirmwareIs DEF FirstOfAll
<1>8. TracesKnown
  BY DEF TracesKnown
<1>9. TmpltOf
  BY <1>2, <1>3, FirmwareIs DEF TmpltOf
<1>10. MdBuffer
  BY DEF MdBuffer
<1> QED BY <1>4, <1>5, <1>6, <1>7, <1>8, <1>9, <1>10 DEF BufferInv

\* A new buffer for the fixed layout.
LEMMA LaidSize ==
  ASSUME NEW mem \in Nat, NEW e \in {0, Eft}, NEW on \in BOOLEAN
  PROVE  Hdr + Length(Body(mem, e)) = Hdr + BodySize(chip, mem, e) /\ mq_size(on) = ChainRoom(chip, on)
BY BodyLength, RoomIs

\* The allocation, by its outcome.
NoNeed == buf # NoBuf /\ UNCHANGED <<traces, dumpBuffer, fw_dumped>>
NothingToWalk(fo, eo) ==
  /\ buf = NoBuf /\ fw_dumped' = FALSE
  /\ chip = "27xx" /\ tmplt = None
  /\ fce' = new_fce(fo) /\ eft' = new_eft(eo)
  /\ UNCHANGED dumpBuffer
NoneToHave ==
  /\ buf = NoBuf /\ fw_dumped' = FALSE
  /\ fce' = "none" /\ eft' = "none"
  /\ UNCHANGED dumpBuffer
Allocated(f, fo, eo) ==
  /\ buf = NoBuf /\ fw_dumped' = FALSE
  /\ ~(chip = "27xx" /\ tmplt \in {None, Partial})
  /\ fce' = new_fce(fo) /\ eft' = new_eft(eo)
  /\ buf' = new_buf(f, fo, eo) /\ len' = buf'.size
  /\ variant' = FALSE /\ areas' = {}

LEMMA AllocCases ==
  ASSUME NEW f, alloc_fw_dump(f)
  PROVE  \E fo, eo \in BOOLEAN :
           NoNeed \/ NothingToWalk(fo, eo) \/ NoneToHave \/ Allocated(f, fo, eo)
<1> USE DEF NoNeed, NothingToWalk, NoneToHave, Allocated
<1>1. CASE buf # NoBuf
  <2>1. UNCHANGED <<traces, dumpBuffer, fw_dumped>>
    BY <1>1, Zenon DEF alloc_fw_dump
  <2> QED BY <1>1, <2>1
<1>2. CASE buf = NoBuf
  <2>1. PICK fo \in BOOLEAN, eo \in BOOLEAN, mo \in BOOLEAN :
          /\ fw_dumped' = FALSE
          /\ IF chip = "27xx" /\ tmplt = None
             THEN fce' = new_fce(fo) /\ eft' = new_eft(eo) /\ UNCHANGED dumpBuffer
             ELSE IF ~mo \/ (chip = "27xx" /\ tmplt = Partial)
             THEN NoMemory(new_fce(fo), new_eft(eo))
             ELSE /\ fce' = new_fce(fo) /\ eft' = new_eft(eo)
                  /\ buf' = new_buf(f, fo, eo) /\ len' = buf'.size
                  /\ variant' = FALSE /\ areas' = {}
    BY <1>2, Zenon DEF alloc_fw_dump
  <2>2. CASE chip = "27xx" /\ tmplt = None
    BY <1>2, <2>1, <2>2, Zenon
  <2>3. CASE ~(chip = "27xx" /\ tmplt = None) /\ (~mo \/ (chip = "27xx" /\ tmplt = Partial))
    BY <1>2, <2>1, <2>3, Zenon DEF NoMemory
  <2>4. CASE ~(chip = "27xx" /\ tmplt = None) /\ ~(~mo \/ (chip = "27xx" /\ tmplt = Partial))
    <3>1. ~(chip = "27xx" /\ tmplt \in {None, Partial})
      BY <2>4
    <3> QED BY <1>2, <2>1, <2>4, <3>1, Zenon
  <2> QED BY <2>2, <2>3, <2>4
<1> QED BY <1>1, <1>2

\* The traces after an allocation.
LEMMA NewTraces ==
  ASSUME BufferInv, buf = NoBuf, chip \notin P3P, NEW fo \in BOOLEAN, NEW eo \in BOOLEAN
  PROVE  /\ new_fce(fo) \in {"none", "live", "stale"} /\ new_eft(eo) \in {"none", "live", "stale"}
         /\ new_fce(fo) # "none" => chip \in FceChips
         /\ new_eft(eo) # "none" => chip \in Fwi2 \cup {"27xx"}
         /\ chip \in Laid => /\ new_fce(fo) = (IF chip \in FceChips /\ fo THEN "live" ELSE "none")
                             /\ new_eft(eo) = (IF chip \in Fwi2 /\ eo THEN "live" ELSE "none")
<1>1. fce \in {"none", "live", "stale"} /\ eft \in {"none", "live", "stale"}
  BY DEF BufferInv, StateOK
<1>2. chip \in Laid => fce = "none" /\ eft = "none"
  BY DEF BufferInv, NothingThere
<1>3. (fce # "none" => chip \in FceChips) /\ (eft # "none" => chip \in Fwi2 \cup {"27xx"})
  BY DEF BufferInv, TracesKnown
<1>4. "27xx" \notin Laid
  BY ChipKinds
<1> QED BY <1>1, <1>2, <1>3, <1>4 DEF new_fce, new_eft, Again

\* The new buffer of a fixed layout, and of the 27xx.
LEMMA NewLaid ==
  ASSUME BufferInv, chip \in Laid, NEW f \in Firmware, NEW fo \in BOOLEAN, NEW eo \in BOOLEAN
  PROVE  LET e == IF chip \in Fwi2 /\ eo THEN Eft ELSE 0
             b == new_buf(f, fo, eo)
         IN /\ b \in Buffers /\ b.mem = Mem[f] /\ b.tmplt = None /\ b.eft = e
            /\ b.chain = Hdr + BodySize(chip, Mem[f], e)
            /\ b.size = b.chain + ChainRoom(chip, mqenable)
                        + (IF chip \in FceChips /\ fo THEN Fce ELSE 0)
<1> DEFINE e == IF chip \in Fwi2 /\ eo THEN Eft ELSE 0
           fs == IF chip \in FceChips /\ fo THEN Fce ELSE 0
           on == mqenable /\ chip \in Fwi2
           lc == Hdr + Length(Body(Mem[f], e))
           b == [size |-> lc + mq_size(on) + fs, mem |-> Mem[f], tmplt |-> None, eft |-> e, chain |-> lc]
<1>1. mqenable \in BOOLEAN /\ (mqenable => chip \in FceChips)
  BY DEF BufferInv, StateOK, TracesKnown
<1>2. chip # "27xx" /\ on = mqenable
  BY <1>1, ChipKinds
<1>3. new_buf(f, fo, eo) = b
  BY <1>2, Zenon DEF new_buf
<1>4. Mem[f] \in Nat /\ e \in {0, Eft} /\ fs \in Nat /\ Hdr \in Nat
  BY Sizes
<1> HIDE DEF e, fs
<1>5. lc = Hdr + BodySize(chip, Mem[f], e) /\ mq_size(on) = ChainRoom(chip, mqenable)
  BY <1>1, <1>2, <1>4, LaidSize
<1>6. BodySize(chip, Mem[f], e) \in Nat /\ ChainRoom(chip, mqenable) \in Nat
  BY <1>1, <1>4, RoomType
<1> HIDE DEF on, lc
<1>7. lc \in Nat /\ lc + mq_size(on) + fs \in Nat
  BY <1>4, <1>5, <1>6
<1>8. b \in Buffers
  BY <1>4, <1>7 DEF Buffers
<1>9. /\ b.mem = Mem[f] /\ b.tmplt = None /\ b.eft = e /\ b.chain = lc
      /\ b.size = lc + mq_size(on) + fs
  OBVIOUS
<1> HIDE DEF b
<1> QED BY <1>3, <1>5, <1>8, <1>9 DEF e, fs

LEMMA NewWalked ==
  ASSUME chip = "27xx", tmplt \in Templates, NEW f \in Firmware, NEW fo \in BOOLEAN, NEW eo \in BOOLEAN
  PROVE  LET b == new_buf(f, fo, eo)
         IN /\ b \in Buffers /\ b.mem = Mem[f] /\ b.tmplt = tmplt /\ b.eft = 0 /\ b.chain = 0
            /\ b.size = Length(dry_walk(tmplt, Mem[f], new_fce(fo), new_eft(eo)))
<1> DEFINE k == Length(dry_walk(tmplt, Mem[f], new_fce(fo), new_eft(eo)))
           b == [size |-> k, mem |-> Mem[f], tmplt |-> tmplt, eft |-> 0, chain |-> 0]
<1>1. Length(walk_template(tmplt, Mem[f], new_fce(fo), new_eft(eo), TRUE)) = k
  BY DryWalk
<1>2. new_buf(f, fo, eo)
        = [size |-> Length(walk_template(tmplt, Mem[f], new_fce(fo), new_eft(eo), TRUE)),
           mem |-> Mem[f], tmplt |-> tmplt, eft |-> 0, chain |-> 0]
  BY Zenon DEF new_buf
<1>3. Mem[f] \in Nat
  BY Sizes
<1>4. k \in Nat
  <2>1. dry_walk(tmplt, Mem[f], new_fce(fo), new_eft(eo)) \in Lists
    BY <1>3, WalkFits
  <2> QED BY <2>1, LengthType
<1> HIDE DEF k
<1>5. b \in Buffers
  BY <1>3, <1>4 DEF Buffers
<1>6. b.size = k /\ b.mem = Mem[f] /\ b.tmplt = tmplt /\ b.eft = 0 /\ b.chain = 0
  OBVIOUS
<1>7. new_buf(f, fo, eo) = b
  BY <1>1, <1>2
<1> HIDE DEF b
<1> QED BY <1>5, <1>6, <1>7 DEF k

--------------------------------------------------------------------------
(* Allocation keeps the invariant.                                         *)

\* What an allocation leaves alone.
AllocFrame ==
  UNCHANGED <<chip, mqenable, fw_dump_reading, queues, tmplt, spare, reset, no_md_cap,
              prev_minidump_failed, starved, dumps, last, changes>>

LEMMA AllocKeeps ==
  ASSUME BufferInv, NEW f \in Firmware, alloc_fw_dump(f), fw' = f, chip \notin P3P, AllocFrame
  PROVE  BufferInv'
<1> USE DEF AllocFrame
<1>1. PICK fo \in BOOLEAN, eo \in BOOLEAN :
        NoNeed \/ NothingToWalk(fo, eo) \/ NoneToHave \/ Allocated(f, fo, eo)
  BY AllocCases
<1>2. /\ fce' \in {"none", "live", "stale"} /\ eft' \in {"none", "live", "stale"}
      /\ buf' = NoBuf => (chip \in Laid => fce' = "none" /\ eft' = "none")
      /\ fce' # "none" => chip \in FceChips
      /\ eft' # "none" => chip \in Fwi2 \cup {"27xx"}
      /\ chip \in Laid => fce' # "stale" /\ eft' # "stale"
  <2>1. CASE NoNeed
    BY <2>1 DEF BufferInv, StateOK, TracesKnown, NoNeed, traces, dumpBuffer
  <2>2. CASE NothingToWalk(fo, eo)
    BY <2>2, NewTraces, ChipKinds DEF NothingToWalk
  <2>3. CASE NoneToHave
    BY <2>3 DEF NoneToHave
  <2>4. CASE Allocated(f, fo, eo)
    <3>1. CASE chip \in Laid
      <4>1. buf'.chain = Hdr + BodySize(chip, Mem[f], IF chip \in Fwi2 /\ eo THEN Eft ELSE 0)
        BY <2>4, <3>1, NewLaid DEF Allocated
      <4>2. Hdr + BodySize(chip, Mem[f], IF chip \in Fwi2 /\ eo THEN Eft ELSE 0) > 0
        <5> DEFINE e == IF chip \in Fwi2 /\ eo THEN Eft ELSE 0
        <5>1. BodySize(chip, Mem[f], e) \in Nat
          BY RoomType, Sizes DEF BufferInv, StateOK
        <5> HIDE DEF e
        <5>2. Hdr + BodySize(chip, Mem[f], e) > 0
          BY <5>1, Sizes
        <5> QED BY <5>2 DEF e
      <4>3. buf' # NoBuf
        BY <4>1, <4>2 DEF NoBuf, MdBuf
      <4> QED BY <2>4, <3>1, <4>3, NewTraces DEF Allocated
    <3>2. CASE chip \notin Laid
      BY <2>4, <3>2, NewTraces DEF Allocated
    <3> QED BY <3>1, <3>2
  <2> QED BY <1>1, <2>1, <2>2, <2>3, <2>4
<1>3. chip \in Laid \cup {"27xx"}
  BY ChipKinds DEF BufferInv, StateOK
<1>4. CASE Allocated(f, fo, eo)
  <2>1. chip = "27xx" => tmplt \in Templates
    BY <1>4 DEF Allocated, BufferInv, StateOK
  <2>2. /\ buf' \in Buffers /\ len' \in Nat /\ buf'.mem = Mem[f]
        /\ variant' = FALSE /\ areas' = {} /\ fw_dumped' = FALSE
    <3>1. buf' \in Buffers /\ buf'.mem = Mem[f]
      BY <1>3, <1>4, <2>1, NewLaid, NewWalked DEF Allocated
    <3> QED BY <1>4, <3>1 DEF Allocated, Buffers
  <2>3. StateOK'
    BY <1>2, <2>2 DEF BufferInv, StateOK
  <2>4. LastOK' /\ FirstOfAll' /\ TracesKnown' /\ VariantMeans'
    BY <1>2, <2>2, FirmwareIs DEF BufferInv, LastOK, FirstOfAll, TracesKnown, VariantMeans
  <2>5. NothingThere'
    BY <1>2, <2>2 DEF NothingThere
  <2>6. LaidBuffer'
    <3> SUFFICES ASSUME chip \in Laid PROVE LaidBuffer'
      BY DEF LaidBuffer
    <3> DEFINE e == IF chip \in Fwi2 /\ eo THEN Eft ELSE 0
               fs == IF chip \in FceChips /\ fo THEN Fce ELSE 0
    <3>1. /\ buf'.mem = Mem[f] /\ buf'.tmplt = None /\ buf'.eft = e
          /\ buf'.chain = Hdr + BodySize(chip, Mem[f], e)
          /\ buf'.size = buf'.chain + ChainRoom(chip, mqenable) + fs
      BY <1>4, NewLaid DEF Allocated
    <3>2. e = (IF eft' = "none" THEN 0 ELSE Eft) /\ fs = (IF fce' = "none" THEN 0 ELSE Fce)
      BY <1>4, NewTraces DEF Allocated
    <3> HIDE DEF e, fs
    <3> QED BY <3>1, <3>2 DEF LaidBuffer
  <2>7. WalkedBuffer'
    <3>1. chip = "27xx" => /\ buf'.mem = Mem[f] /\ buf'.tmplt = tmplt /\ tmplt \in Templates
                           /\ buf'.size = Length(dry_walk(tmplt, Mem[f], fce', eft'))
      BY <1>4, <2>1, NewWalked DEF Allocated
    <3> QED BY <3>1 DEF WalkedBuffer
  <2>8. TmpltOf' /\ MdBuffer'
    <3>1. tmplt # Partial
      BY <1>4 DEF BufferInv, TmpltOf, Allocated
    <3> QED BY <3>1 DEF BufferInv, TmpltOf, MdBuffer
  <2> QED BY <2>3, <2>4, <2>5, <2>6, <2>7, <2>8 DEF BufferInv
<1>5. CASE NoNeed
  <2>1. UNCHANGED <<fce, eft, buf, len, variant, areas, fw_dumped>>
    BY <1>5 DEF NoNeed, traces, dumpBuffer
  <2>2. f # 0
    BY FirmwareIs
  <2>3. StateOK'
    BY <2>1 DEF BufferInv, StateOK
  <2> QED BY <2>1, <2>2, <2>3 DEF BufferInv, LastOK, NothingThere, FirstOfAll, TracesKnown, LaidBuffer,
                                WalkedBuffer, TmpltOf, MdBuffer, VariantMeans
<1>6. CASE NothingToWalk(fo, eo) \/ NoneToHave
  <2>1. UNCHANGED <<buf, len, variant, areas>> /\ buf = NoBuf /\ fw_dumped' = FALSE
    BY <1>6 DEF NothingToWalk, NoneToHave, dumpBuffer
  <2>2. f # 0
    BY FirmwareIs
  <2>3. StateOK'
    BY <1>2, <2>1 DEF BufferInv, StateOK
  <2>4. VariantMeans'
    <3>1. NoneToHave \/ chip = "27xx"
      BY <1>6 DEF NothingToWalk
    <3>2. chip = "27xx" => chip \notin Laid
      BY ChipKinds
    <3>3. ~variant \/ chip = "27xx"
      BY <1>3, <2>1 DEF BufferInv, NothingThere
    <3>4. variant => FALSE
      BY <3>2, <3>3 DEF BufferInv, VariantMeans
    <3> QED BY <2>1, <3>4 DEF VariantMeans
  <2>5. NothingThere'
    BY <1>2, <2>1 DEF BufferInv, NothingThere
  <2> QED BY <1>2, <2>1, <2>2, <2>3, <2>4, <2>5 DEF BufferInv, LastOK, FirstOfAll, TracesKnown, LaidBuffer,
                                WalkedBuffer, TmpltOf, MdBuffer
<1> QED BY <1>1, <1>4, <1>5, <1>6

--------------------------------------------------------------------------
(* A dump of a fixed layout or of a 27xx keeps it.                         *)

\* What every dump of these adapters does but for the areas it writes.
DumpStep ==
  /\ chip \notin P3P /\ fw # 0 /\ buf # NoBuf
  /\ dumps < MaxDumps /\ dumps' = dumps + 1
  /\ fw_dumped' \in BOOLEAN /\ len' \in Nat
  /\ last'.mem = Mem[fw] /\ last'.tmplt = tmplt
  /\ variant' \in BOOLEAN
  /\ variant' => chip \in FceChips \cap Laid /\ (mqenable \/ fce # "none")
  /\ UNCHANGED <<chip, mqenable, fw, fce, eft, buf, fw_dump_reading, queues, tmplt, spare, reset, no_md_cap,
                 prev_minidump_failed, starved, changes>>

LEMMA DumpKeeps ==
  ASSUME BufferInv, DumpStep
  PROVE  BufferInv'
<1> USE DEF DumpStep
<1>1. dumps' \in 0..MaxDumps
  BY FwDumpAssumption DEF BufferInv, StateOK
<1>2. StateOK'
  BY <1>1 DEF BufferInv, StateOK
<1>3. LastOK'
  <2>1. fw \in Firmware /\ tmplt \in Templates \cup {None}
    BY DEF BufferInv, StateOK, TmpltOf
  <2> QED BY <2>1, Sizes DEF LastOK
<1>4. NothingThere' /\ FirstOfAll' /\ TracesKnown' /\ VariantMeans'
  BY DEF BufferInv, NothingThere, FirstOfAll, TracesKnown, VariantMeans
<1>5. LaidBuffer' /\ WalkedBuffer' /\ TmpltOf' /\ MdBuffer'
  BY DEF BufferInv, LaidBuffer, WalkedBuffer, TmpltOf, MdBuffer
<1> QED BY <1>2, <1>3, <1>4, <1>5 DEF BufferInv

LEMMA TookIs ==
  ASSUME NEW list, NEW hammered, NEW miss, Took(list, hammered, miss)
  PROVE  /\ last'.mem = Mem[fw] /\ last'.tmplt = tmplt /\ last'.hammered = hammered /\ last'.lost = miss
         /\ last'.freed = {x \in AreasOf(list) : \/ x = A("fce") /\ fce = "stale"
                                                 \/ x = A("eft") /\ eft = "stale"}
         /\ last'.queues = IF list = <<>> THEN {} ELSE queues
BY DEF Took

LEMMA PlainStep ==
  ASSUME BufferInv, NEW on \in SUBSET Laid, prep_dump(on), NEW list, NEW end, plain_dump(list, end)
  PROVE  DumpStep
<1>1. /\ chip \in Laid /\ fw # 0 /\ buf # NoBuf
      /\ UNCHANGED <<chip, mqenable, fw, fce, eft, buf, fw_dump_reading, queues, tmplt, spare, reset,
                     no_md_cap, prev_minidump_failed, starved, changes>>
  BY DEF prep_dump, Idle, traces, p3p
<1>2. /\ dumps < MaxDumps /\ dumps' = dumps + 1
      /\ fw_dumped' \in BOOLEAN /\ UNCHANGED <<len, variant>>
  BY DEF plain_dump, Write, post_process
<1>3. last'.mem = Mem[fw] /\ last'.tmplt = tmplt
  BY TookIs DEF plain_dump
<1>4. chip \notin P3P
  BY <1>1, ChipKinds
<1> QED BY <1>1, <1>2, <1>3, <1>4 DEF DumpStep, BufferInv, StateOK, VariantMeans

\* Without a trace and without queues there is no chain.
LEMMA NoChain ==
  ASSUME ~mqenable, fce = "none"
  PROVE  Chain = <<>>
<1>1. copy_mq = <<>> /\ copy_fce = <<>> /\ copy_mqueues = <<>>
  BY DEF copy_mq, copy_fce, copy_mqueues, If
<1>2. <<>> \o <<>> \o <<>> = <<>>
  OBVIOUS
<1> QED BY <1>1, <1>2 DEF Chain

\* What is behind a dump of an adapter that has a chain.
LEMMA ChainType ==
  ASSUME BufferInv, chip \in FceChips
  PROVE  /\ Chain \in Lists /\ copy_mq \in Lists
         /\ Length(Chain) \in Nat
         /\ Length(Chain) <= ChainRoom(chip, mqenable) + (IF fce = "none" THEN 0 ELSE Fce)
         /\ Length(copy_mq) \in Nat
         /\ Length(copy_mq) <= ChainRoom(chip, mqenable)
<1>1. mqenable \in BOOLEAN
  BY DEF BufferInv, StateOK
<1>2. mq_size(mqenable) = ChainRoom(chip, mqenable)
  BY <1>1, RoomIs
<1> QED BY <1>1, <1>2, ChainFits DEF Sized

LEMMA ChainedStep ==
  ASSUME BufferInv, NEW on \in SUBSET (FceChips \cap Laid), prep_dump(on),
         NEW fixed, NEW list, NEW end, chained_dump(fixed, list, end)
  PROVE  DumpStep
<1>1. /\ chip \in FceChips \cap Laid /\ fw # 0 /\ buf # NoBuf
      /\ UNCHANGED <<chip, mqenable, fw, fce, eft, buf, fw_dump_reading, queues, tmplt, spare, reset,
                     no_md_cap, prev_minidump_failed, starved, changes>>
  BY DEF prep_dump, Idle, traces, p3p
<1> DEFINE complete == end \in {"done", "hammered"}
           chain == IF complete THEN Chain ELSE copy_mq
<1>2. /\ Write(fixed \cup Place(chain, buf.chain))
      /\ post_process(end)
      /\ len' = IF complete THEN valid_len(chain) ELSE len
      /\ variant' = \/ variant /\ chip # "25xx"
                    \/ complete /\ chain # <<>>
      /\ Took(If(complete, list \o chain), end = "hammered", {})
  BY Zenon DEF chained_dump
<1>3. dumps < MaxDumps /\ dumps' = dumps + 1 /\ fw_dumped' \in BOOLEAN
  BY <1>2 DEF Write, post_process
<1>4. last'.mem = Mem[fw] /\ last'.tmplt = tmplt
  BY <1>2, TookIs
<1>5. len' \in Nat
  <2>1. len \in Nat /\ buf.chain \in Nat
    BY DEF BufferInv, StateOK, Buffers
  <2>2. Length(chain) \in Nat
    BY <1>1, ChainType
  <2> HIDE DEF chain
  <2> QED BY <1>2, <2>1, <2>2 DEF valid_len
<1>6. variant' \in BOOLEAN /\ (variant' => mqenable \/ fce # "none")
  <2>1. complete /\ chain # <<>> => mqenable \/ fce # "none"
    BY NoChain
  <2>2. variant => mqenable \/ fce # "none"
    BY DEF BufferInv, VariantMeans
  <2> HIDE DEF complete, chain
  <2> QED BY <1>2, <2>1, <2>2 DEF BufferInv, StateOK
<1>7. chip \notin P3P
  BY <1>1, ChipKinds
<1> QED BY <1>1, <1>3, <1>4, <1>5, <1>6, <1>7 DEF DumpStep

LEMMA WalkedStep ==
  ASSUME BufferInv, NEW miss, fwdump_27xx(miss)
  PROVE  DumpStep
<1> DEFINE list == walk_template(tmplt, Mem[fw], fce, eft, FALSE)
<1>1. /\ chip = "27xx" /\ buf # NoBuf /\ tmplt \in Templates
      /\ Write({x \in Place(list, 0) : x.area \notin miss})
      /\ fw_dumped' = TRUE /\ len' = Length(list)
      /\ Took(list, FALSE, miss)
      /\ UNCHANGED <<chip, mqenable, fw, traces, buf, variant, fw_dump_reading, queues, tmplt, p3p, changes>>
  BY Zenon DEF fwdump_27xx
<1>2. dumps < MaxDumps /\ dumps' = dumps + 1
  BY <1>1 DEF Write
<1>3. last'.mem = Mem[fw] /\ last'.tmplt = tmplt
  BY <1>1, TookIs
<1>4. fw # 0 /\ fw \in Firmware
  BY <1>1 DEF BufferInv, FirstOfAll, StateOK
<1>5. len' \in Nat
  <2>1. Mem[fw] \in Nat
    BY <1>4, Sizes
  <2>2. list \in Lists
    BY <1>1, <2>1, WalkFits
  <2> HIDE DEF list
  <2> QED BY <1>1, <2>2, LengthType
<1>6. chip \notin P3P
  BY <1>1, ChipKinds
<1>7. variant \in BOOLEAN /\ ~variant
  BY <1>1, ChipKinds DEF BufferInv, StateOK, VariantMeans
<1> QED BY <1>1, <1>2, <1>3, <1>4, <1>5, <1>6, <1>7 DEF DumpStep, traces, p3p

\* Every dump of these adapters.
LEMMA DumpIs ==
  ASSUME BufferInv, Dump
  PROVE  DumpStep
<1>0. /\ {"2100"} \in SUBSET Laid /\ {"2300", "2322"} \in SUBSET Laid /\ {"24xx"} \in SUBSET Laid
      /\ {"25xx"} \in SUBSET (FceChips \cap Laid) /\ {"81xx"} \in SUBSET (FceChips \cap Laid)
      /\ {"83xx"} \in SUBSET (FceChips \cap Laid)
  BY DEF Laid, Chips, P3P, FceChips
<1>1. CASE qla2100_fw_dump
  BY <1>0, <1>1, PlainStep DEF qla2100_fw_dump
<1>2. CASE qla2300_fw_dump
  BY <1>0, <1>2, PlainStep DEF qla2300_fw_dump
<1>3. CASE qla24xx_fw_dump
  BY <1>0, <1>3, PlainStep DEF qla24xx_fw_dump
<1>4. CASE qla25xx_fw_dump
  BY <1>0, <1>4, ChainedStep DEF qla25xx_fw_dump, fw_dump_25xx
<1>5. CASE qla81xx_fw_dump
  BY <1>0, <1>5, ChainedStep DEF qla81xx_fw_dump, fw_dump_25xx
<1>6. CASE qla83xx_fw_dump
  BY <1>0, <1>6, ChainedStep DEF qla83xx_fw_dump, fw_dump_25xx
<1>7. CASE \E miss \in {{}, {A("ext"), A("mpi")}} : fwdump_27xx(miss)
  BY <1>7, WalkedStep
<1> QED BY <1>1, <1>2, <1>3, <1>4, <1>5, <1>6, <1>7 DEF Dump

--------------------------------------------------------------------------
(* So do set-up, queues and templates.                                     *)

LEMMA StutterKeeps ==
  ASSUME BufferInv, UNCHANGED dumpVars
  PROVE  BufferInv'
BY DEF BufferInv, StateOK, LastOK, NothingThere, FirstOfAll, TracesKnown, LaidBuffer, WalkedBuffer, TmpltOf,
       MdBuffer, VariantMeans, dumpVars, traces, dumpBuffer, sysfs, p3p, taken

\* What changes neither the buffer nor what it was allocated for.
LEMMA ApartKeeps ==
  ASSUME BufferInv,
         UNCHANGED <<chip, mqenable, fce, eft, buf, len, variant, areas, dumps, last, starved>>,
         fw' \in Firmware \cup {0}, fw' = 0 => fw = 0, ~fw_dumped => ~fw_dumped',
         fw_dumped' \in BOOLEAN, fw_dump_reading' \in BOOLEAN,
         \A q \in queues' : q[1] \in Kinds /\ q[2] \in Queues(q[1]), queues' # {} => mqenable,
         tmplt' = tmplt \/ (chip = "27xx" /\ fw' # 0 /\ tmplt' \in Templates \cup {None}),
         spare' \in BOOLEAN, reset' \in {"no", "asked", "started"},
         no_md_cap' \in BOOLEAN, prev_minidump_failed' \in BOOLEAN,
         changes' \in 0..MaxChanges[chip]
  PROVE  BufferInv'
<1>1. StateOK'
  BY DEF BufferInv, StateOK
<1>2. LastOK' /\ NothingThere' /\ TracesKnown' /\ LaidBuffer' /\ WalkedBuffer' /\ VariantMeans'
  BY DEF BufferInv, LastOK, NothingThere, TracesKnown, LaidBuffer, WalkedBuffer, VariantMeans
<1>3. FirstOfAll' /\ TmpltOf' /\ MdBuffer'
  <2>1. "27xx" \notin Laid /\ "27xx" \notin P3P
    BY ChipKinds
  <2> QED BY <2>1, FirmwareIs DEF BufferInv, FirstOfAll, TmpltOf, MdBuffer
<1> QED BY <1>1, <1>2, <1>3 DEF BufferInv

\* Unfolded, for use with ApartKeeps.
LEMMA TypesAre ==
  ASSUME BufferInv
  PROVE  /\ fw \in Firmware \cup {0} /\ fw_dumped \in BOOLEAN /\ fw_dump_reading \in BOOLEAN
         /\ \A q \in queues : q[1] \in Kinds /\ q[2] \in Queues(q[1])
         /\ queues # {} => mqenable
         /\ spare \in BOOLEAN /\ reset \in {"no", "asked", "started"}
         /\ no_md_cap \in BOOLEAN /\ prev_minidump_failed \in BOOLEAN /\ starved \in BOOLEAN
         /\ changes \in 0..MaxChanges[chip] /\ dumps \in 0..MaxDumps
BY DEF BufferInv, StateOK, TracesKnown

LEMMA ChangeType ==
  ASSUME BufferInv, Change
  PROVE  changes' \in 0..MaxChanges[chip]
<1>1. MaxChanges[chip] \in Nat
  BY FwDumpAssumption DEF BufferInv, StateOK
<1> QED BY <1>1 DEF Change, BufferInv, StateOK

LEMMA SetupKeeps ==
  ASSUME BufferInv, NEW f \in Firmware, chip_setup(f)
  PROVE  BufferInv'
<1>1. /\ fw' = f /\ tmplt' \in LoadedTemplates(f) /\ Change
      /\ UNCHANGED <<chip, mqenable, fce, eft, buf, len, variant, areas, dumps, last, starved, fw_dumped,
                     fw_dump_reading, queues, spare, reset, no_md_cap, prev_minidump_failed>>
  BY DEF chip_setup, traces, dumpBuffer, sysfs, p3p, taken
<1>2. tmplt' = tmplt \/ (chip = "27xx" /\ tmplt' \in Templates \cup {None})
  BY <1>1, FirmwareIs DEF LoadedTemplates
<1>3. fw' # 0
  BY <1>1, FirmwareIs
<1> QED BY <1>1, <1>2, <1>3, ApartKeeps, TypesAre, ChangeType

LEMMA FirstKeeps ==
  ASSUME BufferInv, NEW f \in Firmware, first_setup(f)
  PROVE  BufferInv'
BY AllocKeeps DEF first_setup, AllocFrame, p3p, taken

LEMMA QueueKeeps ==
  ASSUME BufferInv, (\E kind \in Kinds : create_que(kind)) \/ delete_que
  PROVE  BufferInv'
<1>1. /\ Change /\ fw' = fw
      /\ UNCHANGED <<chip, mqenable, fce, eft, buf, len, variant, areas, dumps, last, starved, fw_dumped, tmplt,
                     fw_dump_reading, spare, reset, no_md_cap, prev_minidump_failed>>
  BY DEF create_que, delete_que, traces, dumpBuffer, sysfs, p3p, taken
<1>2. /\ \A q \in queues' : q[1] \in Kinds /\ q[2] \in Queues(q[1])
      /\ queues' # {} => mqenable
  <2>1. CASE delete_que
    BY <2>1, TypesAre DEF delete_que
  <2>2. CASE \E kind \in Kinds : create_que(kind)
    <3>1. PICK kind \in Kinds : create_que(kind)
      BY <2>2
    <3>2. PICK q \in Nat : (\A p \in Unused(kind) : q <= p) /\ q \in Unused(kind)
      <4>1. Unused(kind) \subseteq Nat /\ Unused(kind) # {}
        <5>1. MaxQueue[kind] \in Nat
          BY FwDumpAssumption
        <5> QED BY <3>1, <5>1 DEF Unused, Queues, create_que
      <4> QED BY <4>1, LeastNat
    <3> DEFINE que_id == CHOOSE p \in Unused(kind) : \A r \in Unused(kind) : p <= r
    <3>3. que_id \in Unused(kind)
      BY <3>2
    <3>4. queues' = queues \cup {<<kind, que_id>>} /\ mqenable
      BY <3>1, Zenon DEF create_que
    <3>5. que_id \in Queues(kind)
      BY <3>3 DEF Unused
    <3> HIDE DEF que_id
    <3> QED BY <3>4, <3>5, TypesAre
  <2> QED BY <2>1, <2>2
<1> QED BY <1>1, <1>2, ApartKeeps, TypesAre, ChangeType

--------------------------------------------------------------------------
(* The minidump's buffer.                                                  *)

LEMMA MdPrepKeeps ==
  ASSUME BufferInv, chip \in P3P, NEW f \in Firmware, NEW got \in BOOLEAN, NEW mem_ok \in BOOLEAN,
         md_prep(f, got, mem_ok), fw' = f,
         UNCHANGED <<chip, mqenable, fce, eft, variant, dumps, last, changes, queues, spare>>,
         fw_dumped' \in BOOLEAN, fw_dump_reading' \in BOOLEAN,
         reset' \in {"no", "asked", "started"}, no_md_cap' \in BOOLEAN, prev_minidump_failed' \in BOOLEAN
  PROVE  BufferInv'
<1> DEFINE n == IF buf # NoBuf THEN 0 ELSE len
           size == n + Needs(chip, Of(f))
<1>0. md_free.size = n /\ md_needs(Of(f)) = Needs(chip, Of(f))
  BY DEF md_free, md_needs, Needs
<1>1. /\ areas' = {}
      /\ IF ~got
         THEN /\ buf' = NoBuf /\ len' = n /\ tmplt' = None
              /\ starved' = (starved /\ buf = NoBuf)
         ELSE /\ size <= MaxLen /\ len' = size
              /\ buf' = IF mem_ok THEN MdBuf(size) ELSE NoBuf
              /\ tmplt' = IF mem_ok THEN Of(f) ELSE None
              /\ starved' = ((starved /\ buf = NoBuf) \/ ~mem_ok)
  BY <1>0, Zenon DEF md_prep
<1>2. /\ n \in Nat /\ Needs(chip, Of(f)) \in Nat /\ Needs(chip, Of(f)) > 0
      /\ starved \in BOOLEAN
      /\ ~starved \/ buf # NoBuf => n = 0
  BY NeedsType DEF BufferInv, StateOK, MdBuffer
<1> HIDE DEF n
<1>3. size \in Nat /\ size >= Needs(chip, Of(f)) /\ (n = 0 => size = Needs(chip, Of(f)))
  BY <1>2
<1> HIDE DEF size
<1>4. \A k \in Nat : MdBuf(k) \in Buffers
  BY DEF MdBuf, Buffers
<1>5. /\ NoBuf \in Buffers /\ Of(f) \in Templates /\ Of(f) \in OfFirmware /\ f # 0
      /\ Of(f) # Partial /\ None # Partial
  BY <1>4, FirmwareIs DEF NoBuf, OfFirmware, None, Partial
<1>6. StateOK'
  <2>1. buf' \in Buffers /\ len' \in Nat /\ tmplt' \in Templates \cup {None, Partial} /\ starved' \in BOOLEAN
    BY <1>1, <1>2, <1>3, <1>4, <1>5
  <2>2. fw' \in Firmware \cup {0}
    OBVIOUS
  <2> QED BY <2>1, <2>2 DEF BufferInv, StateOK
<1>7. LastOK' /\ NothingThere' /\ FirstOfAll' /\ TracesKnown' /\ VariantMeans'
  BY <1>1, <1>5, ChipKinds DEF BufferInv, LastOK, NothingThere, FirstOfAll, TracesKnown, VariantMeans
<1>8. LaidBuffer' /\ WalkedBuffer'
  BY ChipKinds DEF LaidBuffer, WalkedBuffer
<1>9. TmpltOf'
  <2>1. tmplt' \in {None, Of(f)}
    BY <1>1
  <2> QED BY <2>1, <1>5, ChipKinds DEF TmpltOf
<1>10. MdBuffer'
  <2>1. last' = NoDump /\ ~variant'
    BY DEF BufferInv, MdBuffer
  <2>2. buf' # NoBuf => /\ got /\ mem_ok /\ buf' = MdBuf(len') /\ tmplt' = Of(f) /\ len' = size
                        /\ (~starved' => n = 0)
    BY <1>1, <1>2
  <2>3. buf' = NoBuf /\ ~starved' => len' = 0
    <3>1. CASE ~got
      BY <1>1, <1>2, <3>1
    <3>2. CASE got
      <4>1. mem_ok => buf' # NoBuf
        <5>1. MdBuf(size).size # 0 /\ NoBuf.size = 0
          BY <1>2, <1>3 DEF MdBuf, NoBuf
        <5> QED BY <1>1, <3>2, <5>1
      <4> QED BY <1>1, <1>2, <3>2, <4>1
    <3> QED BY <3>1, <3>2
  <2> QED BY <2>1, <2>2, <2>3, <1>3, <1>5 DEF MdBuffer
<1> QED BY <1>6, <1>7, <1>8, <1>9, <1>10 DEF BufferInv

--------------------------------------------------------------------------
(* And minidumps and sysfs: so the size of a minidump is its template's.   *)

\* A minidump, whatever it writes.
MdStep ==
  /\ chip \in P3P /\ buf # NoBuf
  /\ dumps < MaxDumps /\ dumps' = dumps + 1 /\ last' = NoDump
  /\ fw_dumped' \in BOOLEAN /\ reset' \in {"no", "asked", "started"}
  /\ no_md_cap' \in BOOLEAN /\ prev_minidump_failed' \in BOOLEAN
  /\ UNCHANGED <<chip, mqenable, fw, fce, eft, buf, len, variant, fw_dump_reading, queues, tmplt, spare,
                 starved, changes>>

LEMMA MdStepKeeps ==
  ASSUME BufferInv, MdStep
  PROVE  BufferInv'
<1> USE DEF MdStep
<1>1. dumps' \in 0..MaxDumps
  BY FwDumpAssumption DEF BufferInv, StateOK
<1>2. StateOK'
  BY <1>1 DEF BufferInv, StateOK
<1>3. LastOK'
  BY DEF LastOK, NoDump
<1>4. NothingThere' /\ FirstOfAll' /\ TracesKnown' /\ VariantMeans'
  BY DEF BufferInv, NothingThere, FirstOfAll, TracesKnown, VariantMeans
<1>5. LaidBuffer' /\ WalkedBuffer' /\ TmpltOf' /\ MdBuffer'
  BY DEF BufferInv, LaidBuffer, WalkedBuffer, TmpltOf, MdBuffer
<1> QED BY <1>2, <1>3, <1>4, <1>5 DEF BufferInv

\* What a step of a P3P adapter does that takes no dump and leaves the buffer.
MdApart ==
  /\ chip \in P3P
  /\ fw_dumped' \in BOOLEAN /\ (~fw_dumped => ~fw_dumped')
  /\ reset' \in {"no", "asked", "started"}
  /\ no_md_cap' \in BOOLEAN /\ prev_minidump_failed' \in BOOLEAN /\ spare' \in BOOLEAN
  /\ UNCHANGED <<chip, mqenable, fw, fce, eft, buf, len, variant, areas, dumps, last, fw_dump_reading,
                 queues, tmplt, starved, changes>>

LEMMA MdApartKeeps ==
  ASSUME BufferInv, MdApart
  PROVE  BufferInv'
BY ApartKeeps, TypesAre DEF MdApart

\* The minidump routines: a dump, or nothing that touches the buffer.
LEMMA CollectCases ==
  ASSUME BufferInv, qla82xx_md_collect \/ qla8044_collect_md_data
  PROVE  \/ MdApart
         \/ MdStep /\ ~fw_dumped /\ buf # NoBuf /\ tmplt # None
            /\ \E fault \in Fault :
                 /\ Write(WalkOf(chip, template, len, fault).data)
                 /\ fw_dumped' => \/ WalkOf(chip, template, len, fault).ptr = len
                                  \/ WalkOf(chip, template, len, fault).ptr > len
<1>1. chip \in P3P /\ UNCHANGED <<chip, mqenable, fw, fce, eft, fw_dump_reading, queues, tmplt, spare,
                                  starved, changes>> /\ reset' = "started"
  BY DEF qla82xx_md_collect, qla8044_collect_md_data, traces, P3P
<1>2. CASE qla82xx_md_collect
  <2>1. chip = "82xx" /\ UNCHANGED prev_minidump_failed
    BY <1>2 DEF qla82xx_md_collect
  <2>2. CASE fw_dumped \/ ~Room
    <3>1. UNCHANGED <<dumpBuffer, taken, fw_dumped, no_md_cap>>
      BY <1>2, <2>2, Zenon DEF qla82xx_md_collect
    <3> QED BY <1>1, <2>1, <3>1, TypesAre DEF MdApart, dumpBuffer, taken
  <2>3. CASE ~(fw_dumped \/ ~Room) /\ no_md_cap
    <3>1. no_md_cap' = FALSE /\ UNCHANGED <<dumpBuffer, taken, fw_dumped>>
      BY <1>2, <2>3, Zenon DEF qla82xx_md_collect
    <3> QED BY <1>1, <2>1, <3>1, TypesAre DEF MdApart, dumpBuffer, taken
  <2>4. CASE ~(fw_dumped \/ ~Room) /\ ~no_md_cap
    <3>1. PICK fault \in Fault :
            /\ Collected(md_walk_82xx(template, len, fault))
            /\ fw_dumped' = md_done(md_walk_82xx(template, len, fault))
            /\ UNCHANGED no_md_cap
      BY <1>2, <2>4, Zenon DEF qla82xx_md_collect
    <3>2. WalkOf(chip, template, len, fault) = md_walk_82xx(template, len, fault)
      BY <2>1 DEF WalkOf
    <3>3. fw_dumped' \in BOOLEAN /\ (fw_dumped' => md_walk_82xx(template, len, fault).ptr = len)
      BY <3>1 DEF md_done
    <3>4. /\ Write(md_walk_82xx(template, len, fault).data) /\ last' = NoDump
          /\ UNCHANGED <<buf, len, variant>>
      BY <3>1 DEF Collected
    <3>5. dumps < MaxDumps /\ dumps' = dumps + 1
      BY <3>4 DEF Write
    <3>6. MdStep
      BY <1>1, <2>1, <2>4, <3>1, <3>3, <3>4, <3>5, TypesAre DEF MdStep, Room
    <3> QED BY <2>4, <3>2, <3>3, <3>4, <3>6 DEF Room
  <2> QED BY <2>2, <2>3, <2>4
<1>3. CASE qla8044_collect_md_data
  <2>1. chip = "8044" /\ no_md_cap' = FALSE
    BY <1>3 DEF qla8044_collect_md_data
  <2>2. CASE fw_dumped \/ ~Room
    <3>1. /\ fw_dumped' = (fw_dumped /\ ~no_md_cap) /\ prev_minidump_failed' = TRUE
          /\ UNCHANGED <<dumpBuffer, taken>>
      BY <1>3, <2>2, Zenon DEF qla8044_collect_md_data
    <3> QED BY <1>1, <2>1, <3>1, TypesAre DEF MdApart, dumpBuffer, taken
  <2>3. CASE ~(fw_dumped \/ ~Room) /\ no_md_cap
    <3>1. prev_minidump_failed' = TRUE /\ UNCHANGED <<dumpBuffer, taken, fw_dumped>>
      BY <1>3, <2>3, Zenon DEF qla8044_collect_md_data
    <3> QED BY <1>1, <2>1, <3>1, TypesAre DEF MdApart, dumpBuffer, taken
  <2>4. CASE ~(fw_dumped \/ ~Room) /\ ~no_md_cap
    <3> DEFINE walk(fault) == md_walk_8044(template, len, fault)
               ok(fault) == walk(fault).ok /\ (walk(fault).ptr = len \/ (walk(fault).stopped /\ walk(fault).ptr > len))
    <3>1. PICK fault \in Fault :
            /\ Collected(walk(fault))
            /\ fw_dumped' = (md_done(walk(fault)) \/ ok(fault))
            /\ prev_minidump_failed' = ~ok(fault)
      BY <1>3, <2>4, Zenon DEF qla8044_collect_md_data
    <3>2. WalkOf(chip, template, len, fault) = walk(fault)
      BY <2>1 DEF WalkOf
    <3>3. /\ fw_dumped' \in BOOLEAN /\ prev_minidump_failed' \in BOOLEAN
          /\ fw_dumped' => walk(fault).ptr = len \/ walk(fault).ptr > len
      BY <3>1 DEF md_done
    <3>4. /\ Write(walk(fault).data) /\ last' = NoDump
          /\ UNCHANGED <<buf, len, variant>>
      BY <3>1 DEF Collected
    <3>5. dumps < MaxDumps /\ dumps' = dumps + 1
      BY <3>4 DEF Write
    <3> HIDE DEF walk, ok
    <3>6. MdStep
      BY <1>1, <2>1, <2>4, <3>3, <3>4, <3>5, TypesAre DEF MdStep, Room
    <3> QED BY <2>4, <3>2, <3>3, <3>4, <3>6 DEF Room
  <2> QED BY <2>2, <2>3, <2>4
<1> QED BY <1>2, <1>3

LEMMA CheckKeeps ==
  ASSUME BufferInv, NEW f \in Firmware, check_md_needed(f)
  PROVE  BufferInv'
<1>1. /\ chip \in P3P /\ fw' = f /\ reset' = "no"
      /\ UNCHANGED <<chip, mqenable, fce, eft, variant, dumps, last, changes, queues, spare, fw_dumped,
                     fw_dump_reading, no_md_cap, prev_minidump_failed>>
  BY DEF check_md_needed, traces, sysfs, taken
<1>2. \/ \E got, mem_ok \in BOOLEAN : md_prep(f, got, mem_ok)
      \/ UNCHANGED <<buf, len, areas, tmplt, starved>>
  BY Zenon DEF check_md_needed
<1>3. CASE \E got, mem_ok \in BOOLEAN : md_prep(f, got, mem_ok)
  BY <1>1, <1>3, MdPrepKeeps, TypesAre
<1>4. CASE UNCHANGED <<buf, len, areas, tmplt, starved>>
  BY <1>1, <1>4, ApartKeeps, TypesAre, FirmwareIs
<1> QED BY <1>2, <1>3, <1>4

LEMMA MinidumpKeeps ==
  ASSUME BufferInv, Minidump
  PROVE  BufferInv'
<1>1. CASE \E f \in Firmware : check_md_needed(f)
  BY <1>1, CheckKeeps
<1>2. CASE \E ask \in BOOLEAN : suppress(ask)
  <2>1. MdApart
    BY <1>2, TypesAre DEF suppress, MdApart, traces, dumpBuffer, sysfs, taken
  <2> QED BY <2>1, MdApartKeeps
<1>3. CASE fw_hung
  <2>1. MdApart
    BY <1>3, TypesAre DEF fw_hung, MdApart, traces, dumpBuffer, sysfs, taken
  <2> QED BY <2>1, MdApartKeeps
<1>4. CASE not_collected
  <2>1. MdApart
    BY <1>4, TypesAre DEF not_collected, MdApart, traces, dumpBuffer, sysfs, taken
  <2> QED BY <2>1, MdApartKeeps
<1>5. CASE qla82xx_md_collect \/ qla8044_collect_md_data
  BY <1>5, CollectCases, MdApartKeeps, MdStepKeeps
<1> QED BY <1>1, <1>2, <1>3, <1>4, <1>5 DEF Minidump

--------------------------------------------------------------------------
(* Sysfs.                                                                  *)

LEMMA ClearKeeps ==
  ASSUME BufferInv, clear
  PROVE  BufferInv'
<1>1. /\ fw_dump_reading' = FALSE /\ fw_dumped' = FALSE
      /\ UNCHANGED <<chip, mqenable, fw, fce, eft, variant, dumps, last, changes, queues, spare, reset,
                     no_md_cap, prev_minidump_failed>>
  BY DEF clear, traces, taken
<1>2. CASE chip \in P3P /\ fw # 0
  <2>1. PICK got \in BOOLEAN, mem_ok \in BOOLEAN : md_prep(fw, got, mem_ok)
    BY <1>2, Zenon DEF clear
  <2> QED BY <1>1, <1>2, <2>1, MdPrepKeeps, TypesAre
<1>3. CASE ~(chip \in P3P /\ fw # 0)
  <2>1. UNCHANGED <<buf, len, areas, tmplt, starved>>
    BY <1>3, Zenon DEF clear
  <2> QED BY <1>1, <2>1, ApartKeeps, TypesAre
<1> QED BY <1>2, <1>3

LEMMA AllocateKeeps ==
  ASSUME BufferInv, alloc
  PROVE  BufferInv'
<1>1. fw # 0 /\ fw \in Firmware
  BY TypesAre DEF alloc
<1>2. CASE chip \in P3P
  <2>1. MdApart
    BY <1>2, TypesAre DEF alloc, MdApart, traces, dumpBuffer, taken
  <2> QED BY <2>1, MdApartKeeps
<1>3. CASE chip \notin P3P
  <2>1. alloc_fw_dump(fw) /\ AllocFrame /\ fw' = fw
    BY <1>3 DEF alloc, AllocFrame, taken
  <2> QED BY <1>1, <1>3, <2>1, AllocKeeps
<1> QED BY <1>2, <1>3

\* A template that is being written leaves no buffer, or the one it asks for.
LEMMA TemplateKeeps ==
  ASSUME BufferInv, write_template \/ write_template_end
  PROVE  BufferInv'
<1>0. /\ UNCHANGED <<chip, mqenable, fw, fce, eft, variant, fw_dumped, fw_dump_reading, queues, spare, reset,
                     no_md_cap, prev_minidump_failed, starved, dumps, last>>
      /\ chip = "27xx" /\ fw # 0 /\ fw \in Firmware
  BY TypesAre DEF write_template, write_template_end, traces, sysfs, p3p, taken, BufferInv, TmpltOf, FirstOfAll
<1>1. CASE write_template
  <2>1. /\ buf' = NoBuf /\ len' = 0 /\ areas' = {} /\ tmplt' \in {None, Partial}
        /\ changes' \in 0..MaxChanges[chip]
    BY <1>1, ChangeType DEF write_template
  <2>2. StateOK'
    <3>1. NoBuf \in Buffers
      BY FirmwareIs DEF NoBuf, MdBuf, Buffers
    <3> QED BY <1>0, <2>1, <3>1 DEF BufferInv, StateOK
  <2>3. chip \notin Laid /\ chip \notin P3P
    BY <1>0, ChipKinds
  <2> QED BY <1>0, <2>1, <2>2, <2>3 DEF BufferInv, LastOK, NothingThere, FirstOfAll, TracesKnown, LaidBuffer,
                                        WalkedBuffer, TmpltOf, MdBuffer, VariantMeans
<1>2. CASE write_template_end
  <2> DEFINE k == Length(walk_template(User, Mem[fw], fce, eft, TRUE))
             b == [size |-> k, mem |-> Mem[fw], tmplt |-> User, eft |-> 0, chain |-> 0]
  <2>1. /\ tmplt = Partial /\ tmplt' = User /\ UNCHANGED <<areas, changes>>
        /\ UNCHANGED <<buf, len>> \/ (buf' = b /\ len' = k)
    BY <1>2, Zenon DEF write_template_end
  <2>2. buf = NoBuf /\ areas = {}
    BY <2>1 DEF BufferInv, TmpltOf, NothingThere
  <2>3. User \in Templates /\ User # Partial
    BY FirmwareIs
  <2>4. k = Length(dry_walk(User, Mem[fw], fce, eft)) /\ k \in Nat /\ Mem[fw] \in Nat
    <3>1. Mem[fw] \in Nat
      BY <1>0, Sizes
    <3>2. walk_template(User, Mem[fw], fce, eft, TRUE) \in Lists
      BY <2>3, <3>1, WalkFits
    <3> QED BY <3>1, <3>2, LengthType, DryWalk
  <2>5. b \in Buffers
    <3> HIDE DEF k
    <3> QED BY <2>3, <2>4 DEF Buffers
  <2>6. b.mem = Mem[fw] /\ b.tmplt = User /\ b.size = k
    OBVIOUS
  <2>7. StateOK'
    <3>1. buf' \in Buffers /\ len' \in Nat
      <4> HIDE DEF k, b
      <4> QED BY <2>1, <2>4, <2>5 DEF BufferInv, StateOK
    <3> QED BY <1>0, <2>1, <2>3, <3>1 DEF BufferInv, StateOK
  <2>8. chip \notin Laid /\ chip \notin P3P
    BY <1>0, ChipKinds
  <2>9. WalkedBuffer'
    <3> HIDE DEF k, b
    <3> QED BY <1>0, <2>1, <2>2, <2>3, <2>4, <2>6 DEF WalkedBuffer
  <2> HIDE DEF b, k
  <2> QED BY <1>0, <2>1, <2>2, <2>3, <2>7, <2>8, <2>9 DEF BufferInv, LastOK, NothingThere, FirstOfAll, TracesKnown,
                                        LaidBuffer, TmpltOf, MdBuffer, VariantMeans
<1> QED BY <1>1, <1>2

LEMMA SysfsKeeps ==
  ASSUME BufferInv, Sysfs
  PROVE  BufferInv'
<1>1. CASE start_reading
  BY <1>1, ApartKeeps, TypesAre DEF start_reading, traces, dumpBuffer, p3p, taken
<1> QED BY <1>1, ClearKeeps, AllocateKeeps, TemplateKeeps DEF Sysfs

LEMMA BufferStep ==
  ASSUME BufferInv, [DumpNext]_dumpVars
  PROVE  BufferInv'
BY StutterKeeps, FirstKeeps, SetupKeeps, QueueKeeps, DumpIs, DumpKeeps, MinidumpKeeps, SysfsKeeps DEF DumpNext

\* The minidump buffer has the size the template asks for: MdBuffer says so.
THEOREM DumpMdSize == DumpSpec => []MdSizeIsTemplates
<1>1. DumpInit => BufferInv
  BY InitIs
<1>2. BufferInv /\ [DumpNext]_dumpVars => BufferInv'
  BY BufferStep
<1>3. BufferInv => MdSizeIsTemplates
  <2> SUFFICES ASSUME BufferInv, chip \in P3P, buf # NoBuf, ~starved
               PROVE  buf.size = len /\ len = md_needs(tmplt)
    BY DEF MdSizeIsTemplates
  <2>1. buf = MdBuf(len) /\ len = Needs(chip, tmplt)
    BY DEF BufferInv, MdBuffer
  <2>2. buf.size = len
    BY <2>1 DEF MdBuf
  <2> QED BY <2>1, <2>2 DEF md_needs, Needs
<1> QED BY <1>1, <1>2, <1>3, PTL DEF DumpSpec

--------------------------------------------------------------------------
(* What a reader looks at; and the areas of the latest dump.               *)

\* What a reader looks at stays as it is, but for the exceptions named.
LEMMA ReaderStep ==
  ASSUME BufferInv, DumpNext, fw_dump_reading, fw_dumped, fw_dump_reading'
  PROVE  \/ fw_dumped' /\ UNCHANGED dumpBuffer
         \/ chip = "27xx"
         \/ chip \in P3P /\ alloc
         \/ chip = "8044" /\ no_md_cap /\ UNCHANGED dumpBuffer
<1>1. fw # 0
  BY DEF BufferInv, FirstOfAll
<1>2. chip \in Laid => buf # NoBuf
  BY DEF BufferInv, NothingThere
<1>3. chip \in Laid \cup P3P \cup {"27xx"}
  BY ChipKinds DEF BufferInv, StateOK
<1>4. CASE \E f \in Firmware : first_setup(f) \/ chip_setup(f)
  BY <1>1, <1>4 DEF first_setup, chip_setup, sysfs
<1>5. CASE (\E kind \in Kinds : create_que(kind)) \/ delete_que
  BY <1>5 DEF create_que, delete_que, sysfs
<1>6. CASE Dump
  <2>1. CASE \E miss \in {{}, {A("ext"), A("mpi")}} : fwdump_27xx(miss)
    BY <2>1 DEF fwdump_27xx
  <2>2. CASE ~ \E miss \in {{}, {A("ext"), A("mpi")}} : fwdump_27xx(miss)
    <3>1. \E on : prep_dump(on)
      BY <1>6, <2>2 DEF Dump, qla2100_fw_dump, qla2300_fw_dump, qla24xx_fw_dump, qla25xx_fw_dump,
                        qla81xx_fw_dump, qla83xx_fw_dump
    <3> QED BY <3>1 DEF prep_dump, Idle
  <2> QED BY <2>1, <2>2
<1>7. CASE Minidump
  <2>1. CASE \E f \in Firmware : check_md_needed(f)
    <3>1. PICK f \in Firmware : check_md_needed(f)
      BY <2>1
    <3>2. UNCHANGED <<buf, len, areas, tmplt, starved>>
      BY <3>1, Zenon DEF check_md_needed
    <3> QED BY <3>1, <3>2 DEF check_md_needed, dumpBuffer, sysfs
  <2>2. CASE (\E ask \in BOOLEAN : suppress(ask)) \/ fw_hung \/ not_collected
    BY <2>2 DEF suppress, fw_hung, not_collected, sysfs
  <2>3. CASE qla82xx_md_collect
    <3>1. UNCHANGED <<dumpBuffer, taken, fw_dumped, no_md_cap>>
      BY <2>3, Zenon DEF qla82xx_md_collect
    <3> QED BY <3>1
  <2>4. CASE qla8044_collect_md_data
    <3>1. fw_dumped' = (fw_dumped /\ ~no_md_cap) /\ UNCHANGED <<dumpBuffer, taken>>
      BY <2>4, Zenon DEF qla8044_collect_md_data
    <3>2. chip = "8044"
      BY <2>4 DEF qla8044_collect_md_data
    <3> QED BY <3>1, <3>2
  <2> QED BY <1>7, <2>1, <2>2, <2>3, <2>4 DEF Minidump
<1>8. CASE Sysfs
  <2>1. CASE start_reading \/ clear
    BY <2>1 DEF start_reading, clear
  <2>2. CASE alloc
    <3>1. CASE chip \in P3P
      BY <2>2, <3>1
    <3>2. CASE chip \in Laid
      <4>1. alloc_fw_dump(fw)
        BY <2>2, <3>2, ChipKinds DEF alloc
      <4>2. NoNeed
        BY <1>2, <3>2, <4>1, AllocCases DEF NothingToWalk, NoneToHave, Allocated
      <4> QED BY <4>2 DEF NoNeed
    <3> QED BY <1>3, <3>1, <3>2
  <2>3. CASE write_template
    BY <2>3 DEF write_template
  <2>4. CASE write_template_end
    BY <2>4 DEF write_template_end, BufferInv, TmpltOf
  <2> QED BY <1>8, <2>1, <2>2, <2>3, <2>4 DEF Sysfs
<1> QED BY <1>4, <1>5, <1>6, <1>7, <1>8 DEF DumpNext

\* The dump a process reads is not touched.
THEOREM DumpKeptForReader == DumpSpec => KeptForReader
<1> DEFINE Kept == fw_dump_reading /\ fw_dumped /\ fw_dump_reading' =>
                     \/ fw_dumped' /\ UNCHANGED dumpBuffer
                     \/ chip = "27xx"
                     \/ chip \in P3P /\ alloc
                     \/ chip = "8044" /\ no_md_cap /\ UNCHANGED dumpBuffer
<1>1. DumpInit => BufferInv
  BY InitIs
<1>2. BufferInv /\ [DumpNext]_dumpVars => BufferInv'
  BY BufferStep
<1>3. BufferInv /\ [DumpNext]_dumpVars => [Kept]_dumpVars
  BY ReaderStep
<1>4. DumpSpec => [][Kept]_dumpVars
  <2> HIDE DEF Kept
  <2> QED BY <1>1, <1>2, <1>3, PTL DEF DumpSpec
<1> QED BY <1>4 DEF KeptForReader

--------------------------------------------------------------------------
(* What a dump writes, and where.                                          *)

Typed(new) == \A y \in new : y.area \in Names \X Nat /\ y.at \in Nat /\ y.len \in Nat \ {0}
Fits(new, size) == \A y \in new : y.at + y.len <= size

\* DumpTypeOK of the areas.
AreasOK ==
  \A x \in areas : x.area \in Names \X Nat /\ x.at \in Nat /\ x.len \in Nat \ {0} /\ x.by \in 1..dumps

\* Those of the latest dump are those it has written.
Marked(new, n) == {[area |-> y.area, at |-> y.at, len |-> y.len, by |-> n] : y \in new}

LEMMA LatestIs ==
  ASSUME BufferInv, AreasOK, NEW new, Write(new), Typed(new)
  PROVE  AreasOK' /\ Latest' = Marked(new, dumps')
<1>1. dumps \in Nat /\ dumps' = dumps + 1
  BY FwDumpAssumption DEF BufferInv, StateOK, Write
<1> DEFINE old_areas == {x \in areas : \A y \in new : y.area # x.area}
<1>2. areas' = old_areas \cup Marked(new, dumps')
  BY DEF Write, Marked
<1>3. \A x \in old_areas : x.area \in Names \X Nat /\ x.at \in Nat /\ x.len \in Nat \ {0} /\ x.by \in 1..dumps
  BY DEF AreasOK
<1>4. \A x \in old_areas : x.by \in 1..dumps' /\ x.by # dumps'
  <2> HIDE DEF old_areas
  <2> QED BY <1>1, <1>3
<1>5. \A x \in Marked(new, dumps') : /\ x.area \in Names \X Nat /\ x.at \in Nat /\ x.len \in Nat \ {0}
                                     /\ x.by = dumps' /\ x.by \in 1..dumps'
  <2>1. dumps' \in 1..dumps'
    BY <1>1
  <2> QED BY <2>1 DEF Marked, Typed
<1> HIDE DEF old_areas
<1>6. AreasOK'
  BY <1>2, <1>3, <1>4, <1>5 DEF AreasOK
<1>7. Latest' = {x \in areas' : x.by = dumps'}
  BY DEF Latest
<1>8. Latest' = Marked(new, dumps')
  BY <1>2, <1>4, <1>5, <1>7
<1> QED BY <1>6, <1>8

LEMMA PlaceTyped ==
  ASSUME NEW list \in Lists, NEW at \in Nat
  PROVE  /\ Typed(Place(list, at))
         /\ \A size \in Nat : at + Length(list) <= size => Fits(Place(list, at), size)
         /\ \A x \in Place(list, at) : x.area \in AreasOf(list)
<1>1. PICK h : Offsets(list, h)
  BY OffsetsExist
<1> DEFINE K == {j \in 1..Len(list) : list[j].len > 0}
<1>2. Place(list, at) = {[area |-> list[i].area, at |-> at + h[i - 1], len |-> list[i].len] : i \in K}
  BY <1>1, PlaceIs
<1>3. \A i \in 1..Len(list) : list[i].area \in Names \X Nat
  BY ListType DEF Areas
<1>4. \A x \in Place(list, at) : \E i \in 1..Len(list) : x.area = list[i].area
  BY <1>2
<1>5. /\ \A x \in Place(list, at) : /\ x.at \in Nat /\ x.len \in Nat \ {0}
                                    /\ x.at + x.len <= at + Length(list)
  BY PlaceTiles DEF Tiles
<1>6. Typed(Place(list, at))
  BY <1>3, <1>4, <1>5 DEF Typed
<1>7. ASSUME NEW size \in Nat, at + Length(list) <= size
      PROVE  Fits(Place(list, at), size)
  <2>1. Length(list) \in Nat
    BY LengthType
  <2>2. \A x \in Place(list, at) : x.at + x.len <= size
    <3> SUFFICES ASSUME NEW x \in Place(list, at) PROVE x.at + x.len <= size
      OBVIOUS
    <3>1. x.at \in Nat /\ x.len \in Nat /\ x.at + x.len <= at + Length(list)
      BY <1>5
    <3> QED BY <1>7, <2>1, <3>1
  <2> QED BY <2>2 DEF Fits
<1>8. \A x \in Place(list, at) : x.area \in AreasOf(list)
  <2>1. DOMAIN list = 1..Len(list)
    BY ListType
  <2> QED BY <1>4, <2>1 DEF AreasOf
<1> QED BY <1>6, <1>7, <1>8

--------------------------------------------------------------------------
(* What a dump routine writes, before all else.                            *)

\* What a routine has written when it stops is a part of what it writes.
LEMMA ReachedIs ==
  ASSUME NEW list \in Lists, Len(list) >= 2, NEW end \in {"pause", "regs", "ram", "ext", "done"}
  PROVE  /\ Reached(list, end) \in Lists
         /\ Length(Reached(list, end)) <= Length(list)
         /\ end = "done" => Reached(list, end) = list
<1>1. Len(list) \in Nat /\ Length(list) \in Nat
  BY ListType, LengthType
<1>2. 1 \in 0..Len(list) /\ 2 \in 0..Len(list)
  BY <1>1
<1>3. CASE end = "pause"
  <2>1. Reached(list, end) = <<>>
    BY <1>3, Zenon DEF Reached
  <2> QED BY <1>1, <1>3, <2>1, NothingLaid
<1>4. CASE end \in {"regs", "ram"}
  <2>1. Reached(list, end) = SubSeq(list, 1, 1)
    <3>1. end = "regs" \/ end = "ram"
      BY <1>4
    <3>2. CASE end = "regs"
      <4>1. "regs" # "pause"
        OBVIOUS
      <4> QED BY <3>2, <4>1, Zenon DEF Reached
    <3>3. CASE end = "ram"
      <4>1. "ram" # "pause"
        OBVIOUS
      <4> QED BY <3>3, <4>1, Zenon DEF Reached
    <3> QED BY <3>1, <3>2, <3>3
  <2>2. end # "done"
    BY <1>4
  <2> QED BY <1>2, <2>1, <2>2, Prefix
<1>5. CASE end = "ext"
  <2>1. Reached(list, end) = SubSeq(list, 1, 2)
    <3>1. "ext" # "pause" /\ "ext" \notin {"regs", "ram"}
      OBVIOUS
    <3> QED BY <1>5, <3>1, Zenon DEF Reached
  <2> QED BY <1>2, <1>5, <2>1, Prefix
<1>6. CASE end = "done"
  <2>1. Reached(list, end) = list
    <3>1. "done" # "pause" /\ "done" \notin {"regs", "ram"} /\ "done" # "ext"
      OBVIOUS
    <3> QED BY <1>6, <3>1, Zenon DEF Reached
  <2> QED BY <1>1, <2>1
<1> QED BY <1>3, <1>4, <1>5, <1>6

\* What the routines of the fixed layouts write.
LEMMA RoutineLists ==
  ASSUME BufferInv, chip \in Laid, buf # NoBuf, fw # 0
  PROVE  /\ Sized(dump_ram \o copy_queues, 4, Regs + Ram + (Req + Rsp))
         /\ Sized(dump_memory \o copy_queues, 5, Regs + Ram + Mem[fw] + (Req + Rsp))
         /\ \E n \in Nat : n >= 5 /\ Sized(dump_memory \o copy_queues \o copy_eft, n,
                                           Regs + Ram + Mem[fw] + (Req + Rsp) + buf.eft)
         /\ \E n \in Nat : Sized(copy_queues \o copy_eft, n, (Req + Rsp) + buf.eft)
         /\ copy_eft = If(buf.eft > 0, P(A("eft"), buf.eft))
         /\ Mem[fw] \in Nat /\ buf.eft \in Nat /\ buf.eft \in {0, Eft} /\ buf.mem \in Nat
<1>1. fw \in Firmware /\ buf \in Buffers
  BY DEF BufferInv, StateOK
<1>2. Mem[fw] \in Nat /\ buf.eft \in {0, Eft} /\ buf.eft \in Nat /\ buf.mem \in Nat
  BY <1>1, Sizes DEF Buffers
<1>3. Sized(dump_ram \o copy_queues, 4, Regs + Ram + (Req + Rsp))
  <2>1. Sized(dump_ram \o copy_queues, (1 + 1) + (1 + 1), Regs + Ram + (Req + Rsp))
    BY RamIs, Queues2, SizedJoin
  <2>2. (1 + 1) + (1 + 1) = 4
    OBVIOUS
  <2> QED BY <2>1, <2>2
<1>4. Sized(dump_memory, (1 + 1) + 1, Regs + Ram + Mem[fw])
  <2>1. Sized(P(A("ext"), Mem[fw]), 1, Mem[fw])
    BY <1>2, SizedA DEF Names
  <2>2. Sized(dump_ram \o P(A("ext"), Mem[fw]), (1 + 1) + 1, Regs + Ram + Mem[fw])
    BY <2>1, RamIs, SizedJoin
  <2> QED BY <2>2 DEF dump_memory
<1>5. Sized(dump_memory \o copy_queues, ((1 + 1) + 1) + (1 + 1), Regs + Ram + Mem[fw] + (Req + Rsp))
  BY <1>4, Queues2, SizedJoin
<1>6. copy_eft = If(buf.eft > 0, P(A("eft"), buf.eft))
  <2>1. buf.eft = (IF eft = "none" THEN 0 ELSE Eft)
    BY DEF BufferInv, LaidBuffer
  <2>2. buf.eft > 0 => eft # "none"
    BY <2>1
  <2> QED BY <2>2 DEF copy_eft, If
<1>7. \E n \in Nat : Sized(copy_eft, n, buf.eft)
  <2>1. Sized(P(A("eft"), buf.eft), 1, buf.eft)
    BY <1>2, SizedA DEF Names
  <2>2. (buf.eft > 0) \in BOOLEAN
    OBVIOUS
  <2>3. Sized(If(buf.eft > 0, P(A("eft"), buf.eft)), IF buf.eft > 0 THEN 1 ELSE 0, IF buf.eft > 0 THEN buf.eft ELSE 0)
    BY <2>1, <2>2, SizedIf
  <2>4. (IF buf.eft > 0 THEN buf.eft ELSE 0) = buf.eft /\ (IF buf.eft > 0 THEN 1 ELSE 0) \in Nat
    BY <1>2
  <2> QED BY <1>6, <2>3, <2>4
<1>8. PICK n \in Nat : Sized(copy_eft, n, buf.eft)
  BY <1>7
<1>9. Sized((dump_memory \o copy_queues) \o copy_eft, (((1 + 1) + 1) + (1 + 1)) + n,
            Regs + Ram + Mem[fw] + (Req + Rsp) + buf.eft)
  BY <1>5, <1>8, SizedJoin
<1>10. Sized(copy_queues \o copy_eft, (1 + 1) + n, (Req + Rsp) + buf.eft)
  BY <1>8, Queues2, SizedJoin
<1>11. /\ ((1 + 1) + 1) + (1 + 1) = 5
       /\ (((1 + 1) + 1) + (1 + 1)) + n >= 5 /\ (((1 + 1) + 1) + (1 + 1)) + n \in Nat
       /\ (1 + 1) + n \in Nat
  BY <1>8
<1> QED BY <1>2, <1>3, <1>5, <1>6, <1>9, <1>10, <1>11

\* A dump that keeps to what the buffer was allocated for is within it.
LEMMA WriteFits ==
  ASSUME BufferInv, AreasOK, NEW new, Write(new), Typed(new), DumpStep \/ MdStep,
         last'.mem <= buf.mem /\ (chip = "27xx" => AsAllocated') => Fits(new, buf.size)
  PROVE  AreasOK' /\ WithinBuffer'
<1>1. buf' = buf /\ chip' = chip
  BY DEF DumpStep, MdStep
<1>2. AreasOK' /\ Latest' = Marked(new, dumps')
  BY LatestIs
<1>3. SUFFICES ASSUME AsAllocated' \/ (last'.mem < buf'.mem /\ chip' # "27xx")
               PROVE  \A x \in Latest' : x.at + x.len <= buf'.size
  BY <1>2 DEF WithinBuffer
<1>4. last'.mem <= buf.mem
  <2>1. last'.mem \in Nat /\ buf.mem \in Nat
    <3>1. BufferInv'
      BY DumpKeeps, MdStepKeeps
    <3> QED BY <3>1 DEF BufferInv, LastOK, StateOK, Buffers
  <2> QED BY <1>1, <1>3, <2>1 DEF AsAllocated
<1>5. Fits(new, buf.size)
  BY <1>1, <1>3, <1>4
<1> QED BY <1>1, <1>2, <1>5 DEF Fits, Marked

\* The traces of a fixed layout have not been freed.
LEMMA LaidLive ==
  ASSUME BufferInv, chip \in Laid, NEW list, NEW hammered, NEW miss, Took(list, hammered, miss)
  PROVE  last'.freed = {}
<1>1. fce # "stale" /\ eft # "stale"
  BY DEF BufferInv, TracesKnown
<1> QED BY <1>1, TookIs

FitInv == AreasOK /\ WithinBuffer /\ CopiesLiveTraces

LEMMA PlainFits ==
  ASSUME BufferInv, AreasOK, NEW on \in SUBSET Laid, prep_dump(on),
         NEW list, NEW end \in {"pause", "regs", "ram", "ext", "done"}, plain_dump(list, end),
         list \in Lists, Len(list) >= 2,
         Mem[fw] <= buf.mem => Length(list) <= BodySize(chip, buf.mem, buf.eft)
  PROVE  FitInv'
<1>1. DumpStep /\ chip \in Laid /\ chip # "27xx"
  BY PlainStep, ChipKinds DEF prep_dump
<1> DEFINE new == Place(Reached(list, end), Hdr)
<1>2. Write(new) /\ Took(If(end = "done", list), FALSE, {})
  BY DEF plain_dump
<1>3. Reached(list, end) \in Lists /\ Length(Reached(list, end)) <= Length(list)
  BY ReachedIs
<1>4. Hdr \in Nat /\ Length(list) \in Nat /\ Length(Reached(list, end)) \in Nat
  BY <1>3, Sizes, LengthType
<1>5. Typed(new)
  BY <1>3, <1>4, PlaceTyped
<1>6. ASSUME last'.mem <= buf.mem PROVE Fits(new, buf.size)
  <2>1. Length(list) <= BodySize(chip, buf.mem, buf.eft)
    BY <1>1, <1>6 DEF DumpStep
  <2>2. /\ buf.mem \in Nat /\ buf.eft \in {0, Eft} /\ mqenable \in BOOLEAN /\ buf.size \in Nat
        /\ buf.chain = Hdr + BodySize(chip, buf.mem, buf.eft)
        /\ buf.size = buf.chain + ChainRoom(chip, mqenable) + (IF fce = "none" THEN 0 ELSE Fce)
    BY <1>1 DEF DumpStep, BufferInv, StateOK, Buffers, LaidBuffer
  <2>3. /\ BodySize(chip, buf.mem, buf.eft) \in Nat /\ ChainRoom(chip, mqenable) \in Nat
        /\ (IF fce = "none" THEN 0 ELSE Fce) \in Nat
    BY <2>2, RoomType, Sizes
  <2>4. Hdr + Length(Reached(list, end)) <= buf.size
    BY <1>3, <1>4, <2>1, <2>2, <2>3
  <2> QED BY <1>3, <1>4, <2>2, <2>4, PlaceTyped
<1> HIDE DEF new
<1>7. AreasOK' /\ WithinBuffer'
  BY <1>1, <1>2, <1>5, <1>6, WriteFits
<1>8. CopiesLiveTraces'
  BY <1>1, <1>2, LaidLive DEF CopiesLiveTraces
<1> QED BY <1>7, <1>8 DEF FitInv

--------------------------------------------------------------------------
(* Each routine stays within its buffer.                                   *)

\* The numbers of the buffer of a fixed layout.
LEMMA LaidNumbers ==
  ASSUME BufferInv, chip \in Laid, buf # NoBuf
  PROVE  LET room == ChainRoom(chip, mqenable)
             trace == IF fce = "none" THEN 0 ELSE Fce
             body == BodySize(chip, buf.mem, buf.eft)
         IN /\ room \in Nat /\ trace \in Nat /\ body \in Nat /\ Hdr \in Nat
            /\ buf.chain \in Nat /\ buf.size \in Nat /\ buf.mem \in Nat /\ buf.eft \in {0, Eft}
            /\ buf.chain = Hdr + body /\ buf.size = buf.chain + room + trace
<1>1. /\ buf.mem \in Nat /\ buf.eft \in {0, Eft} /\ mqenable \in BOOLEAN /\ buf.size \in Nat /\ buf.chain \in Nat
      /\ buf.chain = Hdr + BodySize(chip, buf.mem, buf.eft)
      /\ buf.size = buf.chain + ChainRoom(chip, mqenable) + (IF fce = "none" THEN 0 ELSE Fce)
  BY DEF BufferInv, StateOK, Buffers, LaidBuffer
<1>2. /\ BodySize(chip, buf.mem, buf.eft) \in Nat /\ ChainRoom(chip, mqenable) \in Nat
      /\ (IF fce = "none" THEN 0 ELSE Fce) \in Nat /\ Hdr \in Nat
  BY <1>1, RoomType, Sizes
<1> QED BY <1>1, <1>2

\* An area before the end of the body is in the buffer.
LEMMA BodyFits ==
  ASSUME BufferInv, chip \in Laid, buf # NoBuf, NEW list \in Lists, NEW from \in Nat,
         from + Length(list) <= Hdr + BodySize(chip, buf.mem, buf.eft)
  PROVE  Fits(Place(list, from), buf.size)
<1> DEFINE room == ChainRoom(chip, mqenable)
           trace == IF fce = "none" THEN 0 ELSE Fce
           body == BodySize(chip, buf.mem, buf.eft)
<1>1. /\ room \in Nat /\ trace \in Nat /\ body \in Nat /\ Hdr \in Nat
      /\ buf.chain \in Nat /\ buf.size \in Nat
      /\ buf.chain = Hdr + body /\ buf.size = buf.chain + room + trace
  BY LaidNumbers
<1>2. Length(list) \in Nat
  BY LengthType
<1>3. from + Length(list) <= Hdr + body
  OBVIOUS
<1> HIDE DEF room, trace, body
<1>4. from + Length(list) <= buf.size
  BY <1>1, <1>2, <1>3
<1> QED BY <1>1, <1>4, PlaceTyped

LEMMA ChainedFits ==
  ASSUME BufferInv, AreasOK, NEW on \in SUBSET (FceChips \cap Laid), prep_dump(on),
         NEW fixed, NEW list, NEW end, chained_dump(fixed, list, end),
         Typed(fixed), Mem[fw] <= buf.mem => Fits(fixed, buf.size)
  PROVE  FitInv'
<1>1. DumpStep /\ chip \in Laid /\ chip \in FceChips /\ chip # "27xx" /\ buf # NoBuf
  BY ChainedStep, ChipKinds DEF prep_dump, Idle
<1> DEFINE complete == end \in {"done", "hammered"}
           chain == IF complete THEN Chain ELSE copy_mq
           behind == Place(chain, buf.chain)
           new == fixed \cup behind
           room == ChainRoom(chip, mqenable)
           trace == IF fce = "none" THEN 0 ELSE Fce
           body == BodySize(chip, buf.mem, buf.eft)
<1>2. Write(new) /\ Took(If(complete, list \o chain), end = "hammered", {})
  BY Zenon DEF chained_dump
<1>3. /\ room \in Nat /\ trace \in Nat /\ body \in Nat /\ Hdr \in Nat
      /\ buf.chain \in Nat /\ buf.size \in Nat
      /\ buf.chain = Hdr + body /\ buf.size = buf.chain + room + trace
  BY <1>1, LaidNumbers
<1>4. chain \in Lists /\ Length(chain) \in Nat /\ Length(chain) <= room + trace
  <2>1. Chain \in Lists /\ Length(Chain) \in Nat /\ Length(Chain) <= room + trace
    BY <1>1, ChainType
  <2>2. copy_mq \in Lists /\ Length(copy_mq) \in Nat /\ Length(copy_mq) <= room
    BY <1>1, ChainType
  <2>3. Length(copy_mq) <= room + trace
    <3> HIDE DEF room, trace
    <3> QED BY <1>3, <2>2
  <2> QED BY <2>1, <2>2, <2>3
<1> HIDE DEF complete, chain, room, trace, body
<1>5. buf.chain + Length(chain) <= buf.size
  BY <1>3, <1>4
<1>6. Typed(behind) /\ Fits(behind, buf.size)
  BY <1>3, <1>4, <1>5, PlaceTyped
<1> HIDE DEF behind
<1>7. Typed(new)
  BY <1>6 DEF Typed
<1>8. last'.mem <= buf.mem => Fits(new, buf.size)
  <2>1. last'.mem = Mem[fw]
    BY <1>1 DEF DumpStep
  <2> QED BY <1>6, <2>1 DEF Fits
<1> HIDE DEF new
<1>9. AreasOK' /\ WithinBuffer'
  BY <1>1, <1>2, <1>7, <1>8, WriteFits
<1>10. CopiesLiveTraces'
  BY <1>1, <1>2, LaidLive DEF CopiesLiveTraces
<1> QED BY <1>9, <1>10 DEF FitInv

\* The layout of the 25xx, its like, and the 83xx when its RISC stops.
LEMMA FixedFits ==
  ASSUME BufferInv, AreasOK, NEW on \in SUBSET (FceChips \cap Laid), prep_dump(on),
         NEW end \in {"regs", "ram", "ext", "done"}, fw_dump_25xx(end)
  PROVE  FitInv'
<1>1. chip \in Laid /\ buf # NoBuf /\ fw # 0 /\ chip # "2100"
  BY DEF prep_dump, Idle, FceChips
<1> DEFINE list == dump_memory \o copy_queues \o copy_eft
<1>2. PICK n \in Nat : n >= 5 /\ Sized(list, n, Regs + Ram + Mem[fw] + (Req + Rsp) + buf.eft)
  BY <1>1, RoutineLists
<1>3. Mem[fw] \in Nat /\ buf.eft \in Nat /\ buf.mem \in Nat
  BY <1>1, RoutineLists
<1>4. chained_dump(Place(Reached(list, end), Hdr), list, end)
  BY Zenon DEF fw_dump_25xx
<1> HIDE DEF list
<1>5. list \in Lists /\ Len(list) >= 2 /\ Length(list) = Regs + Ram + Mem[fw] + (Req + Rsp) + buf.eft
  BY <1>2 DEF Sized
<1>6. Reached(list, end) \in Lists /\ Length(Reached(list, end)) <= Length(list)
  BY <1>5, ReachedIs
<1>7. Typed(Place(Reached(list, end), Hdr))
  BY <1>6, PlaceTyped, Sizes
<1>8. Mem[fw] <= buf.mem => Fits(Place(Reached(list, end), Hdr), buf.size)
  <2> SUFFICES ASSUME Mem[fw] <= buf.mem PROVE Fits(Place(Reached(list, end), Hdr), buf.size)
    OBVIOUS
  <2>1. BodySize(chip, buf.mem, buf.eft) = Regs + Ram + buf.mem + (Req + Rsp) + buf.eft
    BY <1>1 DEF BodySize
  <2>2. Length(Reached(list, end)) \in Nat /\ Length(list) \in Nat
    BY <1>5, <1>6, LengthType
  <2>3. Length(list) <= BodySize(chip, buf.mem, buf.eft)
    BY <1>3, <1>5, <2>1, Sizes
  <2>4. BodySize(chip, buf.mem, buf.eft) \in Nat
    BY <1>3, <2>1, Sizes
  <2>5. Hdr + Length(Reached(list, end)) <= Hdr + BodySize(chip, buf.mem, buf.eft) /\ Hdr \in Nat
    BY <1>6, <2>2, <2>3, <2>4, Sizes
  <2> QED BY <1>1, <1>6, <2>5, BodyFits
<1> QED BY <1>4, <1>7, <1>8, ChainedFits

LEMMA HammeredFits ==
  ASSUME BufferInv, AreasOK, prep_dump({"83xx"}),
         chained_dump(Place(P(A("regs"), Regs), Hdr)
                        \cup Place(copy_queues \o copy_eft, Hdr + Regs + Ram + Mem[fw] \div 4),
                      dump_memory \o (copy_queues \o copy_eft), "hammered")
  PROVE  FitInv'
<1>1. chip = "83xx" /\ chip \in Laid /\ chip # "2100" /\ buf # NoBuf /\ fw # 0
      /\ {"83xx"} \in SUBSET (FceChips \cap Laid)
  BY DEF prep_dump, Idle, FceChips, Laid, Chips, P3P
<1> DEFINE a == P(A("regs"), Regs)
           b == copy_queues \o copy_eft
           from == Hdr + Regs + Ram + Mem[fw] \div 4
<1>2. PICK n \in Nat : Sized(b, n, (Req + Rsp) + buf.eft)
  BY <1>1, RoutineLists
<1>3. /\ Mem[fw] \in Nat /\ buf.eft \in Nat /\ buf.mem \in Nat
      /\ Hdr \in Nat /\ Regs \in Nat /\ Ram \in Nat /\ Req \in Nat /\ Rsp \in Nat
  BY <1>1, RoutineLists, Sizes
<1>4. Sized(a, 1, Regs)
  BY <1>3, SizedA DEF Names
<1>5. BodySize(chip, buf.mem, buf.eft) = Regs + Ram + buf.mem + (Req + Rsp) + buf.eft
  BY <1>1 DEF BodySize
<1>6. Mem[fw] \div 4 \in Nat /\ Mem[fw] \div 4 <= Mem[fw]
  BY <1>3
<1> HIDE DEF a, b
<1>7. a \in Lists /\ Length(a) = Regs /\ b \in Lists /\ Length(b) = (Req + Rsp) + buf.eft /\ from \in Nat
  BY <1>2, <1>3, <1>4, <1>6 DEF Sized
<1> HIDE DEF from
<1>8. Typed(Place(a, Hdr) \cup Place(b, from))
  <2>1. Typed(Place(a, Hdr)) /\ Typed(Place(b, from))
    BY <1>3, <1>7, PlaceTyped
  <2> QED BY <2>1 DEF Typed
<1>9. ASSUME Mem[fw] <= buf.mem PROVE Fits(Place(a, Hdr) \cup Place(b, from), buf.size)
  <2>1. Hdr + Length(a) <= Hdr + BodySize(chip, buf.mem, buf.eft)
    BY <1>3, <1>5, <1>7
  <2>2. from + Length(b) <= Hdr + BodySize(chip, buf.mem, buf.eft)
    BY <1>3, <1>5, <1>6, <1>7, <1>9 DEF from
  <2>3. Fits(Place(a, Hdr), buf.size)
    BY <1>1, <1>3, <1>7, <2>1, BodyFits
  <2>4. Fits(Place(b, from), buf.size)
    BY <1>1, <1>7, <2>2, BodyFits
  <2> QED BY <2>3, <2>4 DEF Fits
<1>10. chained_dump(Place(a, Hdr) \cup Place(b, from), dump_memory \o b, "hammered")
  BY DEF a, b, from
<1> QED BY <1>1, <1>8, <1>9, <1>10, ChainedFits

LEMMA WalkedFits ==
  ASSUME BufferInv, AreasOK, NEW miss, fwdump_27xx(miss)
  PROVE  FitInv'
<1> DEFINE list == walk_template(tmplt, Mem[fw], fce, eft, FALSE)
           new == {x \in Place(list, 0) : x.area \notin miss}
<1>1. DumpStep /\ chip = "27xx" /\ Write(new) /\ tmplt \in Templates /\ buf # NoBuf
  BY WalkedStep, Zenon DEF fwdump_27xx
<1>2. fw \in Firmware /\ Mem[fw] \in Nat
  BY <1>1, Sizes DEF BufferInv, StateOK, DumpStep
<1>3. /\ list \in Lists /\ dry_walk(tmplt, Mem[fw], fce, eft) \in Lists
      /\ Length(list) <= Length(dry_walk(tmplt, Mem[fw], fce, eft))
  BY <1>1, <1>2, WalkFits
<1> HIDE DEF list
<1>4. Typed(Place(list, 0))
  BY <1>3, PlaceTyped
<1>5. Typed(new)
  BY <1>4 DEF Typed
<1>6. ASSUME AsAllocated' PROVE Fits(new, buf.size)
  <2>1. Mem[fw] = buf.mem /\ tmplt = buf.tmplt
    BY <1>1, <1>6 DEF AsAllocated, DumpStep
  <2>2. buf.size = Length(dry_walk(tmplt, Mem[fw], fce, eft)) /\ buf.size \in Nat
    BY <1>1, <2>1 DEF BufferInv, WalkedBuffer, StateOK, Buffers
  <2>3. Length(list) \in Nat
    BY <1>3, LengthType
  <2>4. 0 + Length(list) <= buf.size
    BY <1>3, <2>2, <2>3
  <2>5. Fits(Place(list, 0), buf.size)
    BY <1>3, <2>2, <2>4, PlaceTyped
  <2> QED BY <2>5 DEF Fits
<1> HIDE DEF new
<1>7. AreasOK' /\ WithinBuffer'
  BY <1>1, <1>5, <1>6, WriteFits
<1>8. CopiesLiveTraces'
  BY <1>1 DEF CopiesLiveTraces, DumpStep
<1> QED BY <1>7, <1>8 DEF FitInv

--------------------------------------------------------------------------
(* Every step does.                                                        *)

\* A walk of the minidump's template: the entries and the poll that times out
\* are such as the facts about walks ask for.
LEMMA MdTemplate ==
  ASSUME BufferInv, chip \in P3P, buf # NoBuf
  PROVE  /\ EntryList(template) /\ len \in Nat /\ Claimed(template) <= len
         /\ buf.size = len /\ buf.tmplt = None /\ buf.mem = 0
         /\ \A fault \in Fault : GoodFault(fault)
         /\ GoodFault(NoFault)
<1>1. /\ buf = MdBuf(len) /\ tmplt \in OfFirmware /\ len >= Needs(chip, tmplt) /\ len \in Nat
  BY DEF BufferInv, MdBuffer, StateOK
<1>2. PICK f \in Firmware : tmplt = Of(f)
  BY <1>1 DEF OfFirmware
<1>3. EntryList(template) /\ Claimed(template) = Needs(chip, tmplt) /\ Needs(chip, tmplt) \in Nat
  BY <1>2, NeedsType DEF template, Needs
<1>4. buf.size = len /\ buf.tmplt = None /\ buf.mem = 0
  BY <1>1 DEF MdBuf
<1>5. GoodFault(NoFault)
  BY DEF GoodFault, At, NoFault
<1>6. ASSUME NEW fault \in Fault PROVE GoodFault(fault)
  <2>1. CASE fault = NoFault
    BY <1>5, <2>1
  <2>2. CASE fault # NoFault
    <3>1. PICK i \in 1..Len(template), k \in 1..2 : fault = <<i, k>>
      BY <2>2 DEF Fault
    <3>2. fault[2] \in 0..2
      BY <3>1
    <3> QED BY <3>2 DEF GoodFault, At
  <2> QED BY <2>1, <2>2
<1> QED BY <1>1, <1>3, <1>4, <1>5, <1>6

LEMMA CollectFits ==
  ASSUME BufferInv, AreasOK, MdStep, NEW fault \in Fault, Write(WalkOf(chip, template, len, fault).data)
  PROVE  FitInv'
<1> DEFINE w == WalkOf(chip, template, len, fault)
<1>1. chip \in P3P /\ buf # NoBuf /\ last' = NoDump
  BY DEF MdStep
<1>2. /\ EntryList(template) /\ len \in Nat /\ Claimed(template) <= len
      /\ buf.size = len /\ GoodFault(fault)
  BY <1>1, MdTemplate
<1>3. w \in Walks /\ \A x \in w.data : x \in MdData /\ x.at + x.len <= len
  <2> HIDE DEF w
  <2>1. LET v == WalkOf(chip, template, len, fault)
        IN v \in Walks /\ v.ptr <= len /\ \A x \in v.data : x \in MdData /\ x.at + x.len <= len
    BY <1>1, <1>2, MdFits
  <2> QED BY <2>1 DEF w
<1> HIDE DEF w
<1>4. Typed(w.data) /\ Fits(w.data, buf.size)
  <2>1. \A x \in MdData : x.area \in Names \X Nat /\ x.at \in Nat /\ x.len \in Nat \ {0}
    BY DEF MdData, Names
  <2> QED BY <1>2, <1>3, <2>1 DEF Typed, Fits
<1>5. Write(w.data)
  BY DEF w
<1>6. AreasOK' /\ WithinBuffer'
  BY <1>4, <1>5, WriteFits
<1>7. CopiesLiveTraces'
  BY <1>1 DEF CopiesLiveTraces, NoDump
<1> QED BY <1>6, <1>7 DEF FitInv

\* A step that takes no dump either leaves areas and buffer, or there are no
\* areas when it has been done.
Quiet == /\ UNCHANGED <<chip, dumps, last>>
         /\ areas' = {} \/ UNCHANGED <<areas, buf>>

LEMMA QuietFits ==
  ASSUME FitInv, Quiet
  PROVE  FitInv'
BY DEF Quiet, FitInv, AreasOK, WithinBuffer, CopiesLiveTraces, Latest, AsAllocated

\* An allocation is quiet: without a buffer there were no areas.
LEMMA AllocQuiet ==
  ASSUME BufferInv, NEW f, alloc_fw_dump(f)
  PROVE  areas' = {} \/ UNCHANGED <<areas, buf>>
<1>1. PICK fo \in BOOLEAN, eo \in BOOLEAN :
        NoNeed \/ NothingToWalk(fo, eo) \/ NoneToHave \/ Allocated(f, fo, eo)
  BY AllocCases
<1> QED BY <1>1 DEF NoNeed, NothingToWalk, NoneToHave, Allocated, dumpBuffer

LEMMA SetupQuiet ==
  ASSUME BufferInv, (\E f \in Firmware : first_setup(f) \/ chip_setup(f))
                    \/ (\E kind \in Kinds : create_que(kind)) \/ delete_que
  PROVE  Quiet
<1>1. CASE \E f \in Firmware : first_setup(f)
  BY <1>1, AllocQuiet DEF first_setup, Quiet, taken
<1>2. CASE (\E f \in Firmware : chip_setup(f)) \/ (\E kind \in Kinds : create_que(kind)) \/ delete_que
  BY <1>2 DEF chip_setup, create_que, delete_que, Quiet, dumpBuffer, taken
<1> QED BY <1>1, <1>2

LEMMA SysfsQuiet ==
  ASSUME BufferInv, Sysfs
  PROVE  Quiet
<1>1. CASE start_reading
  BY <1>1 DEF start_reading, Quiet, dumpBuffer, taken
<1>2. CASE clear
  <2>1. UNCHANGED <<chip, dumps, last>>
    BY <1>2 DEF clear, taken
  <2>2. CASE chip \in P3P /\ fw # 0
    <3>1. areas' = {}
      BY <1>2, <2>2, Zenon DEF clear, md_prep
    <3> QED BY <2>1, <3>1 DEF Quiet
  <2>3. CASE ~(chip \in P3P /\ fw # 0)
    <3>1. UNCHANGED <<buf, len, areas, tmplt, starved>>
      BY <1>2, <2>3, Zenon DEF clear
    <3> QED BY <2>1, <3>1 DEF Quiet
  <2> QED BY <2>2, <2>3
<1>3. CASE alloc
  <2>1. UNCHANGED <<chip, dumps, last>>
    BY <1>3 DEF alloc, taken
  <2>2. CASE chip \in P3P
    BY <1>3, <2>1, <2>2 DEF alloc, Quiet, dumpBuffer
  <2>3. CASE chip \notin P3P
    BY <1>3, <2>1, <2>3, AllocQuiet DEF alloc, Quiet
  <2> QED BY <2>2, <2>3
<1>4. CASE write_template
  BY <1>4 DEF write_template, Quiet, taken
<1>5. CASE write_template_end
  <2>1. areas = {}
    BY <1>5 DEF write_template_end, BufferInv, TmpltOf, NothingThere
  <2> QED BY <1>5, <2>1 DEF write_template_end, Quiet, taken
<1> QED BY <1>1, <1>2, <1>3, <1>4, <1>5 DEF Sysfs

LEMMA MinidumpFits ==
  ASSUME BufferInv, FitInv, Minidump
  PROVE  FitInv'
<1>1. CASE \E f \in Firmware : check_md_needed(f)
  <2>1. PICK f \in Firmware : check_md_needed(f)
    BY <1>1
  <2>2. \/ \E got, mem_ok \in BOOLEAN : md_prep(f, got, mem_ok)
        \/ UNCHANGED <<buf, len, areas, tmplt, starved>>
    BY <2>1, Zenon DEF check_md_needed
  <2>3. areas' = {} \/ UNCHANGED <<areas, buf>>
    BY <2>2 DEF md_prep
  <2>4. Quiet
    BY <2>1, <2>3 DEF check_md_needed, Quiet, taken
  <2> QED BY <2>4, QuietFits
<1>2. CASE (\E ask \in BOOLEAN : suppress(ask)) \/ fw_hung \/ not_collected
  <2>1. Quiet
    BY <1>2 DEF suppress, fw_hung, not_collected, Quiet, dumpBuffer, taken
  <2> QED BY <2>1, QuietFits
<1>3. CASE qla82xx_md_collect \/ qla8044_collect_md_data
  <2>1. CASE MdApart
    <3>1. Quiet
      BY <2>1 DEF MdApart, Quiet
    <3> QED BY <3>1, QuietFits
  <2>2. CASE MdStep /\ \E fault \in Fault : Write(WalkOf(chip, template, len, fault).data)
    BY <2>2, CollectFits DEF FitInv
  <2> QED BY <1>3, <2>1, <2>2, CollectCases
<1> QED BY <1>1, <1>2, <1>3 DEF Minidump

LEMMA DumpFits ==
  ASSUME BufferInv, AreasOK, Dump
  PROVE  FitInv'
<1>0. /\ {"2100"} \in SUBSET Laid /\ {"2300", "2322"} \in SUBSET Laid /\ {"24xx"} \in SUBSET Laid
      /\ {"25xx"} \in SUBSET (FceChips \cap Laid) /\ {"81xx"} \in SUBSET (FceChips \cap Laid)
      /\ {"83xx"} \in SUBSET (FceChips \cap Laid)
  BY DEF Laid, Chips, P3P, FceChips
<1> DEFINE plain == dump_ram \o copy_queues
           outer == dump_memory \o copy_queues
           traced == dump_memory \o copy_queues \o copy_eft
<1>1. ASSUME NEW on \in SUBSET Laid, prep_dump(on)
      PROVE  /\ plain \in Lists /\ Len(plain) >= 2
             /\ chip = "2100" => Length(plain) <= BodySize(chip, buf.mem, buf.eft)
             /\ outer \in Lists /\ Len(outer) >= 2
             /\ traced \in Lists /\ Len(traced) >= 2
             /\ chip # "2100" /\ Mem[fw] <= buf.mem =>
                  /\ Length(outer) <= BodySize(chip, buf.mem, buf.eft)
                  /\ Length(traced) <= BodySize(chip, buf.mem, buf.eft)
  <2>1. chip \in Laid /\ buf # NoBuf /\ fw # 0
    BY <1>1 DEF prep_dump, Idle
  <2>2. PICK n \in Nat : n >= 5 /\ Sized(traced, n, Regs + Ram + Mem[fw] + (Req + Rsp) + buf.eft)
    BY <2>1, RoutineLists
  <2>3. /\ Sized(plain, 4, Regs + Ram + (Req + Rsp))
        /\ Sized(outer, 5, Regs + Ram + Mem[fw] + (Req + Rsp))
        /\ Mem[fw] \in Nat /\ buf.eft \in Nat /\ buf.mem \in Nat
    BY <2>1, RoutineLists
  <2> HIDE DEF plain, outer, traced
  <2>4. /\ plain \in Lists /\ Len(plain) = 4 /\ Length(plain) = Regs + Ram + (Req + Rsp)
        /\ outer \in Lists /\ Len(outer) = 5 /\ Length(outer) = Regs + Ram + Mem[fw] + (Req + Rsp)
        /\ traced \in Lists /\ Len(traced) >= 5
        /\ Length(traced) = Regs + Ram + Mem[fw] + (Req + Rsp) + buf.eft
    BY <2>2, <2>3 DEF Sized
  <2>5. BodySize(chip, buf.mem, buf.eft)
          = Regs + Ram + (IF chip # "2100" THEN buf.mem ELSE 0) + (Req + Rsp) + buf.eft
    BY DEF BodySize
  <2>6. chip = "2100" => Length(plain) <= BodySize(chip, buf.mem, buf.eft)
    BY <2>3, <2>4, <2>5, Sizes
  <2>7. chip # "2100" /\ Mem[fw] <= buf.mem =>
          /\ Length(outer) <= BodySize(chip, buf.mem, buf.eft)
          /\ Length(traced) <= BodySize(chip, buf.mem, buf.eft)
    BY <2>3, <2>4, <2>5, Sizes
  <2> QED BY <2>2, <2>4, <2>6, <2>7
<1> HIDE DEF plain, outer, traced
<1>2. CASE qla2100_fw_dump
  <2>1. PICK end \in {"pause", "regs", "ram", "done"} : plain_dump(plain, end)
    BY <1>2 DEF qla2100_fw_dump, plain
  <2>2. prep_dump({"2100"}) /\ chip = "2100"
    BY <1>2 DEF qla2100_fw_dump, prep_dump
  <2>3. plain \in Lists /\ Len(plain) >= 2 /\ Length(plain) <= BodySize(chip, buf.mem, buf.eft)
    BY <1>0, <1>1, <2>2
  <2> QED BY <1>0, <2>1, <2>2, <2>3, PlainFits
<1>3. CASE qla2300_fw_dump
  <2>1. PICK end \in {"pause", "regs", "ram", "ext", "done"} : plain_dump(outer, end)
    BY <1>3 DEF qla2300_fw_dump, outer
  <2>2. prep_dump({"2300", "2322"}) /\ chip # "2100"
    BY <1>3 DEF qla2300_fw_dump, prep_dump
  <2>3. /\ outer \in Lists /\ Len(outer) >= 2
        /\ Mem[fw] <= buf.mem => Length(outer) <= BodySize(chip, buf.mem, buf.eft)
    BY <1>0, <1>1, <2>2
  <2> QED BY <1>0, <2>1, <2>2, <2>3, PlainFits
<1>4. CASE qla24xx_fw_dump
  <2>1. PICK end \in {"regs", "ram", "ext", "done"} : plain_dump(traced, end)
    BY <1>4 DEF qla24xx_fw_dump, traced
  <2>2. prep_dump({"24xx"}) /\ chip # "2100"
    BY <1>4 DEF qla24xx_fw_dump, prep_dump
  <2>3. /\ traced \in Lists /\ Len(traced) >= 2
        /\ Mem[fw] <= buf.mem => Length(traced) <= BodySize(chip, buf.mem, buf.eft)
    BY <1>0, <1>1, <2>2
  <2> QED BY <1>0, <2>1, <2>2, <2>3, PlainFits
<1>5. CASE qla25xx_fw_dump
  BY <1>0, <1>5, FixedFits DEF qla25xx_fw_dump
<1>6. CASE qla81xx_fw_dump
  BY <1>0, <1>6, FixedFits DEF qla81xx_fw_dump
<1>7. CASE qla83xx_fw_dump
  <2>1. prep_dump({"83xx"})
    BY <1>7 DEF qla83xx_fw_dump
  <2>2. CASE \E end \in {"ram", "ext", "done"} : fw_dump_25xx(end)
    BY <1>0, <2>1, <2>2, FixedFits
  <2>3. CASE ~ \E end \in {"ram", "ext", "done"} : fw_dump_25xx(end)
    <3>1. chained_dump(Place(P(A("regs"), Regs), Hdr)
                         \cup Place(copy_queues \o copy_eft, Hdr + Regs + Ram + Mem[fw] \div 4),
                       dump_memory \o (copy_queues \o copy_eft), "hammered")
      BY <1>7, <2>3, Zenon DEF qla83xx_fw_dump
    <3> QED BY <2>1, <3>1, HammeredFits
  <2> QED BY <2>2, <2>3
<1>8. CASE \E miss \in {{}, {A("ext"), A("mpi")}} : fwdump_27xx(miss)
  BY <1>8, WalkedFits
<1> QED BY <1>2, <1>3, <1>4, <1>5, <1>6, <1>7, <1>8 DEF Dump

LEMMA FitStep ==
  ASSUME BufferInv, FitInv, [DumpNext]_dumpVars
  PROVE  FitInv'
<1>1. CASE UNCHANGED dumpVars
  <2>1. Quiet
    BY <1>1 DEF dumpVars, dumpBuffer, taken, Quiet
  <2> QED BY <2>1, QuietFits
<1>2. CASE Dump
  BY <1>2, DumpFits DEF FitInv
<1>3. CASE Minidump
  BY <1>3, MinidumpFits
<1>4. CASE Sysfs
  BY <1>4, SysfsQuiet, QuietFits
<1>5. CASE (\E f \in Firmware : first_setup(f) \/ chip_setup(f))
           \/ (\E kind \in Kinds : create_que(kind)) \/ delete_que
  BY <1>5, SetupQuiet, QuietFits
<1> QED BY <1>1, <1>2, <1>3, <1>4, <1>5 DEF DumpNext

LEMMA FitInit ==
  ASSUME DumpInit
  PROVE  FitInv
BY DEF DumpInit, FitInv, AreasOK, WithinBuffer, CopiesLiveTraces, NoDump

\* A dump touches only memory that is its own.
THEOREM DumpMemoryIsOwn == DumpSpec => []MemoryIsOwn
<1>1. DumpInit => BufferInv /\ FitInv
  BY InitIs, FitInit
<1>2. BufferInv /\ FitInv /\ [DumpNext]_dumpVars => (BufferInv /\ FitInv)'
  BY BufferStep, FitStep
<1>3. BufferInv /\ FitInv => MemoryIsOwn
  BY DEF BufferInv, FitInv, MemoryIsOwn, DumpTypeOK, StateOK, AreasOK, Buffers
<1> QED BY <1>1, <1>2, <1>3, PTL DEF DumpSpec

--------------------------------------------------------------------------
(* What the reader of a dump finds.  First, the areas of a list.           *)

\* The areas of list that are not empty.
Filled(list) == {list[i].area : i \in {j \in DOMAIN list : list[j].len > 0}}

LEMMA FilledIs ==
  ASSUME NEW list \in Lists, NEW at \in Nat
  PROVE  /\ \A x \in Place(list, at) : x.area \in Filled(list)
         /\ \A a \in Filled(list) : \E x \in Place(list, at) : x.area = a
<1>1. ASSUME NEW x \in Place(list, at) PROVE x.area \in Filled(list)
  <2>1. PICK i \in {j \in DOMAIN list : list[j].len > 0} :
          x = [area |-> list[i].area, at |-> at + Length(SubSeq(list, 1, i - 1)), len |-> list[i].len]
    BY Zenon DEF Place
  <2>2. x.area = list[i].area
    BY <2>1, Zenon
  <2> QED BY <2>2, Zenon DEF Filled
<1>2. ASSUME NEW a \in Filled(list) PROVE \E x \in Place(list, at) : x.area = a
  <2>1. PICK i \in {j \in DOMAIN list : list[j].len > 0} : a = list[i].area
    BY Zenon DEF Filled
  <2> DEFINE x == [area |-> list[i].area, at |-> at + Length(SubSeq(list, 1, i - 1)), len |-> list[i].len]
  <2>2. x \in Place(list, at)
    BY Zenon DEF Place
  <2>3. x.area = a
    BY <2>1, Zenon
  <2> QED BY <2>2, <2>3, Zenon
<1> QED BY <1>1, <1>2

LEMMA FilledJoin ==
  ASSUME NEW a \in Lists, NEW b \in Lists
  PROVE  a \o b \in Lists /\ Filled(a \o b) = Filled(a) \cup Filled(b)
<1>1. a \o b \in Lists /\ Place(a \o b, 0) = Place(a, 0) \cup Place(b, 0 + Length(a))
  BY Joined
<1>2. 0 + Length(a) \in Nat
  BY LengthType
<1>3. /\ \A x \in Place(a \o b, 0) : x.area \in Filled(a \o b)
      /\ \A y \in Filled(a \o b) : \E x \in Place(a \o b, 0) : x.area = y
  BY <1>1, FilledIs
<1>4. /\ \A x \in Place(a, 0) : x.area \in Filled(a)
      /\ \A y \in Filled(a) : \E x \in Place(a, 0) : x.area = y
  BY FilledIs
<1>5. /\ \A x \in Place(b, 0 + Length(a)) : x.area \in Filled(b)
      /\ \A y \in Filled(b) : \E x \in Place(b, 0 + Length(a)) : x.area = y
  BY <1>2, FilledIs
<1>6. ASSUME NEW y PROVE y \in Filled(a \o b) <=> y \in Filled(a) \cup Filled(b)
  BY <1>1, <1>3, <1>4, <1>5, Zenon
<1> QED BY <1>1, <1>6, Zenon

LEMMA FilledOne ==
  ASSUME NEW x \in Names \X Nat, NEW n \in Nat
  PROVE  P(x, n) \in Lists /\ Filled(P(x, n)) \subseteq {x} /\ (n > 0 => Filled(P(x, n)) = {x})
<1>1. P(x, n) \in Lists
  BY OneLaid
<1>2. /\ Len(P(x, n)) = 1 /\ DOMAIN P(x, n) = {1} /\ P(x, n)[1].area = x /\ P(x, n)[1].len = n
  BY DEF P
<1> QED BY <1>1, <1>2 DEF Filled

LEMMA FilledNone == <<>> \in Lists /\ Filled(<<>>) = {}
BY NothingLaid DEF Filled

LEMMA FilledIf ==
  ASSUME NEW c \in BOOLEAN, NEW a \in Lists
  PROVE  /\ If(c, a) \in Lists /\ Filled(If(c, a)) \subseteq Filled(a)
         /\ c => If(c, a) = a
         /\ ~c => If(c, a) = <<>>
BY FilledNone DEF If

\* Nothing is added by an empty list.
LEMMA JoinNone ==
  ASSUME NEW a \in Lists
  PROVE  a \o <<>> = a
<1>1. a \in Seq(Areas)
  BY DEF Lists
<1> QED BY <1>1

--------------------------------------------------------------------------
(* The invariant, and the steps that take no dump.                         *)

ReadInv == DumpIsReadable /\ queues \subseteq Kinds \X Nat

\* A step that takes no dump leaves the dump that is offered, or is on a 27xx
\* and leaves nothing of it.
Calm ==
  /\ UNCHANGED <<chip, dumps, last>>
  /\ fw_dumped' =>
       \/ /\ fw_dumped /\ UNCHANGED <<areas, buf, len, variant>>
          /\ chip \in P3P => UNCHANGED tmplt
          /\ chip \in Laid => UNCHANGED fce
       \/ chip = "27xx" /\ areas' = {}

LEMMA CalmKeeps ==
  ASSUME BufferInv, DumpIsReadable, Calm
  PROVE  DumpIsReadable'
<1> SUFFICES ASSUME fw_dumped' PROVE DumpIsReadable'
  BY DEF DumpIsReadable, DumpIsWhole, ChainIsWhole, QueuesAreDumped
<1>1. UNCHANGED <<chip, dumps, last>>
  BY DEF Calm
<1>2. CASE chip = "27xx" /\ areas' = {}
  BY <1>1, <1>2, ChipKinds DEF DumpIsReadable, DumpIsWhole, ChainIsWhole, QueuesAreDumped
<1>3. CASE /\ fw_dumped /\ UNCHANGED <<areas, buf, len, variant>>
           /\ chip \in P3P => UNCHANGED tmplt
           /\ chip \in Laid => UNCHANGED fce
  <2>1. Latest' = Latest /\ Chained' = Chained
    BY <1>1, <1>3 DEF Latest, Chained
  <2>2. AsAllocated' <=> AsAllocated
    BY <1>1, <1>3 DEF AsAllocated
  <2>3. Body(buf.mem, buf.eft)' = Body(buf.mem, buf.eft)
    BY <1>1, <1>3 DEF Body
  <2>4. DumpIsWhole'
    BY <1>1, <1>3, <2>1, <2>2, <2>3 DEF DumpIsReadable, DumpIsWhole, Have, template, P3P
  <2>5. ChainIsWhole'
    BY <1>1, <1>3, <2>1 DEF DumpIsReadable, ChainIsWhole
  <2>6. QueuesAreDumped'
    BY <1>1, <1>3, <2>1 DEF DumpIsReadable, QueuesAreDumped
  <2> QED BY <2>4, <2>5, <2>6 DEF DumpIsReadable
<1> QED BY <1>2, <1>3 DEF Calm

LEMMA AllocCalm ==
  ASSUME BufferInv, NEW f, alloc_fw_dump(f), chip \notin P3P, UNCHANGED <<chip, dumps, last>>
  PROVE  Calm
<1>1. PICK fo \in BOOLEAN, eo \in BOOLEAN :
        NoNeed \/ NothingToWalk(fo, eo) \/ NoneToHave \/ Allocated(f, fo, eo)
  BY AllocCases
<1> QED BY <1>1 DEF NoNeed, NothingToWalk, NoneToHave, Allocated, dumpBuffer, traces, Calm

LEMMA SetupCalm ==
  ASSUME BufferInv, (\E f \in Firmware : first_setup(f) \/ chip_setup(f))
                    \/ (\E kind \in Kinds : create_que(kind)) \/ delete_que
  PROVE  Calm
<1>1. CASE \E f \in Firmware : first_setup(f)
  BY <1>1, AllocCalm DEF first_setup, taken
<1>2. CASE (\E f \in Firmware : chip_setup(f)) \/ (\E kind \in Kinds : create_que(kind)) \/ delete_que
  BY <1>2 DEF chip_setup, create_que, delete_que, Calm, dumpBuffer, taken, traces, sysfs
<1> QED BY <1>1, <1>2

LEMMA SysfsCalm ==
  ASSUME BufferInv, Sysfs
  PROVE  Calm
<1>1. CASE start_reading
  BY <1>1 DEF start_reading, Calm, dumpBuffer, traces, taken
<1>2. CASE clear
  BY <1>2 DEF clear, Calm, taken
<1>3. CASE alloc
  <2>1. UNCHANGED <<chip, dumps, last>>
    BY <1>3 DEF alloc, taken
  <2>2. CASE chip \in P3P
    BY <1>3, <2>1, <2>2 DEF alloc, Calm
  <2>3. CASE chip \notin P3P
    BY <1>3, <2>1, <2>3, AllocCalm DEF alloc
  <2> QED BY <2>2, <2>3
<1>4. CASE write_template
  BY <1>4 DEF write_template, Calm, taken
<1>5. CASE write_template_end
  <2>1. areas = {} /\ chip = "27xx"
    BY <1>5 DEF write_template_end, BufferInv, TmpltOf, NothingThere
  <2> QED BY <1>5, <2>1 DEF write_template_end, Calm, taken
<1> QED BY <1>1, <1>2, <1>3, <1>4, <1>5 DEF Sysfs

LEMMA QueuesPaired ==
  ASSUME BufferInv, BufferInv', queues \subseteq Kinds \X Nat, DumpNext
  PROVE  queues' \subseteq Kinds \X Nat
<1>1. CASE \E kind \in Kinds : create_que(kind)
  <2>0. PICK kind \in Kinds : create_que(kind)
    BY <1>1
  <2>1. PICK q : queues' = queues \cup {<<kind, q>>}
    BY <2>0, Zenon DEF create_que
  <2>2. q \in Queues(kind)
    <3>1. \A x \in queues' : x[2] \in Queues(x[1])
      BY DEF BufferInv, StateOK
    <3>2. <<kind, q>> \in queues'
      BY <2>1, Zenon
    <3> QED BY <3>1, <3>2
  <2>3. q \in Nat
    BY <2>2, Sizes DEF Queues
  <2> QED BY <2>1, <2>3
<1>2. CASE delete_que
  BY <1>2 DEF delete_que
<1>3. CASE \E f \in Firmware : first_setup(f) \/ chip_setup(f)
  BY <1>3 DEF first_setup, chip_setup
<1>4. CASE Dump
  <2>1. DumpStep
    BY <1>4, DumpIs
  <2> QED BY <2>1 DEF DumpStep
<1>5. CASE Minidump
  BY <1>5 DEF Minidump, check_md_needed, suppress, fw_hung, qla82xx_md_collect, qla8044_collect_md_data,
              not_collected
<1>6. CASE Sysfs
  BY <1>6 DEF Sysfs, start_reading, clear, alloc, write_template, write_template_end
<1> QED BY <1>1, <1>2, <1>3, <1>4, <1>5, <1>6 DEF DumpNext

--------------------------------------------------------------------------
(* What a dump has written can be found again.                             *)

\* The areas of the fixed layouts, before the chain.
FixedAreas == {A(n) : n \in {"regs", "ram", "ext", "req", "rsp", "eft"}}

LEMMA FixedIs ==
  \A n \in {"regs", "ram", "ext", "req", "rsp", "eft"} :
    /\ n \in Names /\ A(n) \in FixedAreas /\ A(n) \in Names \X Nat
    /\ \A k \in Nat : P(A(n), k) \in Lists /\ Filled(P(A(n), k)) \subseteq FixedAreas
<1> SUFFICES ASSUME NEW n \in {"regs", "ram", "ext", "req", "rsp", "eft"}
             PROVE  /\ n \in Names /\ A(n) \in FixedAreas /\ A(n) \in Names \X Nat
                    /\ \A k \in Nat : P(A(n), k) \in Lists /\ Filled(P(A(n), k)) \subseteq FixedAreas
  OBVIOUS
<1>1. n \in Names /\ A(n) \in FixedAreas
  BY DEF Names, FixedAreas
<1>2. A(n) \in Names \X Nat
  BY <1>1, AreaNames
<1>3. ASSUME NEW k \in Nat PROVE P(A(n), k) \in Lists /\ Filled(P(A(n), k)) \subseteq FixedAreas
  <2>1. P(A(n), k) \in Lists /\ Filled(P(A(n), k)) \subseteq {A(n)}
    BY <1>2, FilledOne
  <2> QED BY <1>1, <2>1
<1> QED BY <1>1, <1>2, <1>3

LEMMA FixedFilled ==
  ASSUME BufferInv, chip \in Laid, buf # NoBuf, fw # 0
  PROVE  /\ copy_queues \o copy_eft \in Lists /\ Filled(copy_queues \o copy_eft) \subseteq FixedAreas
         /\ dump_memory \o copy_queues \o copy_eft \in Lists
         /\ Filled(dump_memory \o copy_queues \o copy_eft) \subseteq FixedAreas
<1>1. /\ Mem[fw] \in Nat /\ buf.eft \in Nat
      /\ copy_eft = If(buf.eft > 0, P(A("eft"), buf.eft))
  BY RoutineLists
<1>2. /\ Regs \in Nat /\ Ram \in Nat /\ Req \in Nat /\ Rsp \in Nat
  BY Sizes
<1>3. /\ P(A("regs"), Regs) \in Lists /\ Filled(P(A("regs"), Regs)) \subseteq FixedAreas
      /\ P(A("ram"), Ram) \in Lists /\ Filled(P(A("ram"), Ram)) \subseteq FixedAreas
      /\ P(A("ext"), Mem[fw]) \in Lists /\ Filled(P(A("ext"), Mem[fw])) \subseteq FixedAreas
      /\ P(A("req"), Req) \in Lists /\ Filled(P(A("req"), Req)) \subseteq FixedAreas
      /\ P(A("rsp"), Rsp) \in Lists /\ Filled(P(A("rsp"), Rsp)) \subseteq FixedAreas
      /\ P(A("eft"), buf.eft) \in Lists /\ Filled(P(A("eft"), buf.eft)) \subseteq FixedAreas
  BY <1>1, <1>2, FixedIs
<1>4. copy_eft \in Lists /\ Filled(copy_eft) \subseteq FixedAreas
  <2>1. (buf.eft > 0) \in BOOLEAN
    OBVIOUS
  <2> QED BY <1>1, <1>3, <2>1, FilledIf
<1>5. copy_queues \in Lists /\ Filled(copy_queues) \subseteq FixedAreas
  BY <1>3, FilledJoin DEF copy_queues
<1>6. dump_ram \in Lists /\ Filled(dump_ram) \subseteq FixedAreas
  BY <1>3, FilledJoin DEF dump_ram
<1>7. dump_memory \in Lists /\ Filled(dump_memory) \subseteq FixedAreas
  BY <1>3, <1>6, FilledJoin DEF dump_memory
<1>8. dump_memory \o copy_queues \in Lists /\ Filled(dump_memory \o copy_queues) \subseteq FixedAreas
  BY <1>5, <1>7, FilledJoin
<1> QED BY <1>4, <1>5, <1>8, FilledJoin

\* What a routine writes when nothing fails is the layout of the buffer.
LEMMA BodyIsWritten ==
  ASSUME BufferInv, chip \in Laid, buf # NoBuf, fw # 0, Mem[fw] = buf.mem
  PROVE  /\ chip = "2100" => Body(buf.mem, buf.eft) = dump_ram \o copy_queues
         /\ chip \in {"2300", "2322"} => Body(buf.mem, buf.eft) = dump_memory \o copy_queues
         /\ chip \in Fwi2 => Body(buf.mem, buf.eft) = dump_memory \o copy_queues \o copy_eft
<1>1. copy_eft = If(buf.eft > 0, P(A("eft"), buf.eft))
  BY RoutineLists
<1>2. chip # "2100" => Body(buf.mem, buf.eft) = dump_memory \o copy_queues \o copy_eft
  BY <1>1 DEF Body, dump_memory, dump_ram, If
<1>3. chip \notin Fwi2 => copy_eft = <<>>
  BY ChipKinds DEF copy_eft, If, BufferInv, TracesKnown
<1>4. dump_ram \in Lists /\ dump_memory \o copy_queues \in Lists /\ dump_ram \o copy_queues \in Lists
  BY RamIs, RoutineLists DEF Sized
<1>5. chip = "2100" => Body(buf.mem, buf.eft) = (dump_ram \o <<>>) \o copy_queues \o copy_eft
  BY <1>1 DEF Body, dump_ram, If
<1>6. /\ dump_ram \o <<>> = dump_ram
      /\ (dump_memory \o copy_queues) \o <<>> = dump_memory \o copy_queues
      /\ (dump_ram \o copy_queues) \o <<>> = dump_ram \o copy_queues
  BY <1>4, JoinNone
<1> QED BY <1>2, <1>3, <1>5, <1>6 DEF Fwi2

\* The areas a dump has written, if it wrote at least those of place.
LEMMA HaveIs ==
  ASSUME NEW new, NEW n, NEW latest, latest = Marked(new, n)
  PROVE  /\ \A x \in new : \E y \in latest : y.area = x.area /\ y.at = x.at /\ y.len = x.len
         /\ \A y \in latest : \E x \in new : y.area = x.area /\ y.at = x.at /\ y.len = x.len
<1> DEFINE m(y) == [area |-> y.area, at |-> y.at, len |-> y.len, by |-> n]
<1>1. \A y \in new : m(y) \in latest
  BY Zenon DEF Marked
<1>2. \A y \in latest : \E x \in new : y = m(x)
  BY Zenon DEF Marked
<1>3. \A x : m(x).area = x.area /\ m(x).at = x.at /\ m(x).len = x.len
  BY Zenon
<1> HIDE DEF m
<1>4. ASSUME NEW x \in new
      PROVE  \E y \in latest : y.area = x.area /\ y.at = x.at /\ y.len = x.len
  BY <1>1, <1>3, Zenon
<1>5. ASSUME NEW y \in latest
      PROVE  \E x \in new : y.area = x.area /\ y.at = x.at /\ y.len = x.len
  BY <1>2, <1>3, Zenon
<1> QED BY <1>4, <1>5

LEMMA PlainReads ==
  ASSUME BufferInv, AreasOK, NEW on \in SUBSET (Laid \ FceChips), prep_dump(on),
         NEW list, NEW end \in {"pause", "regs", "ram", "ext", "done"}, plain_dump(list, end),
         list \in Lists, Len(list) >= 2,
         Mem[fw] = buf.mem => Body(buf.mem, buf.eft) = list
  PROVE  DumpIsReadable'
<1> SUFFICES ASSUME fw_dumped' PROVE DumpIsReadable'
  BY DEF DumpIsReadable, DumpIsWhole, ChainIsWhole, QueuesAreDumped
<1>1. chip \in Laid /\ chip \notin FceChips /\ chip' = chip /\ buf' = buf
  BY DEF prep_dump
<1>2. end = "done" /\ Reached(list, end) = list
  BY ReachedIs DEF plain_dump, post_process
<1>3. Write(Place(list, Hdr)) /\ Typed(Place(list, Hdr))
  BY <1>2, PlaceTyped, Sizes DEF plain_dump
<1>4. Latest' = Marked(Place(list, Hdr), dumps')
  BY <1>3, LatestIs
<1>5. last'.mem = Mem[fw]
  BY TookIs DEF plain_dump
<1>6. Body(buf.mem, buf.eft)' = Body(buf.mem, buf.eft)
  BY <1>1 DEF Body
<1>7. ASSUME AsAllocated' PROVE Have(Place(Body(buf.mem, buf.eft), Hdr))'
  <2>1. Body(buf.mem, buf.eft) = list
    BY <1>1, <1>5, <1>7 DEF AsAllocated
  <2> QED BY <1>4, <1>6, <2>1, HaveIs DEF Have
<1>8. DumpIsWhole'
  BY <1>1, <1>7, ChipKinds DEF DumpIsWhole, P3P
<1>9. ChainIsWhole' /\ QueuesAreDumped'
  BY <1>1 DEF ChainIsWhole, QueuesAreDumped
<1> QED BY <1>8, <1>9 DEF DumpIsReadable

--------------------------------------------------------------------------
(* Dumps with a chain.                                                     *)

LEMMA CopiedFilled ==
  ASSUME NEW kind \in Kinds
  PROVE  /\ copied(kind) \in Lists
         /\ Filled(copied(kind)) = {<<kind, q>> : q \in Created(kind)}
         /\ Created(kind) \subseteq Nat \ {0}
<1>1. PICK n \in 0..MaxQueue[kind] : Created(kind) = 1..n /\ Cardinality(Created(kind)) = n
  BY CreatedIs
<1>2. copied(kind) \in Lists
  BY CopiedIs DEF Sized
<1>3. n \in Nat
  BY <1>1, FwDumpAssumption
<1>4. copied(kind) = [q \in 1..n |-> [area |-> <<kind, q>>, len |-> QueHdr + Ring(kind, q)]]
  BY <1>1 DEF copied
<1>5. \A q \in 1..n : QueHdr + Ring(kind, q) > 0
  BY Sizes DEF Ring
<1>6. Filled(copied(kind)) = {<<kind, q>> : q \in 1..n}
  <2>1. DOMAIN copied(kind) = 1..n
    BY <1>4
  <2>2. \A q \in 1..n : copied(kind)[q].area = <<kind, q>> /\ copied(kind)[q].len > 0
    BY <1>4, <1>5
  <2>3. {j \in DOMAIN copied(kind) : copied(kind)[j].len > 0} = 1..n
    BY <2>1, <2>2, Zenon
  <2>4. ASSUME NEW x
        PROVE  x \in Filled(copied(kind)) <=> x \in {<<kind, q>> : q \in 1..n}
    BY <2>2, <2>3, Zenon DEF Filled
  <2> QED BY <2>4, Zenon
<1> QED BY <1>1, <1>2, <1>3, <1>6

LEMMA ChainAreas ==
  ASSUME BufferInv, chip \in FceChips
  PROVE  /\ Chain \in Lists
         /\ \A a \in Filled(Chain) : a[1] \in {"mq", "fce"} \/ a[2] > 0
         /\ mqenable /\ chip # "83xx" => A("mq") \in Filled(Chain)
         /\ fce # "none" => A("fce") \in Filled(Chain)
         /\ mqenable => \A kind \in Kinds : \A q \in Created(kind) : <<kind, q>> \in Filled(Chain)
<1>1. /\ mqenable \in BOOLEAN /\ (mqenable /\ chip # "83xx") \in BOOLEAN /\ (fce # "none") \in BOOLEAN
      /\ "req" \in Kinds /\ "rsp" \in Kinds
  BY DEF BufferInv, StateOK, Kinds
<1>2. /\ P(A("mq"), Mq) \in Lists /\ Filled(P(A("mq"), Mq)) = {A("mq")}
      /\ P(A("fce"), Fce) \in Lists /\ Filled(P(A("fce"), Fce)) = {A("fce")}
  <2>1. /\ A("mq") \in Names \X Nat /\ A("fce") \in Names \X Nat
        /\ Mq \in Nat /\ Mq > 0 /\ Fce \in Nat /\ Fce > 0
    BY Sizes, AreaNames DEF Names
  <2> QED BY <2>1, FilledOne
<1>3. /\ copy_mq \in Lists /\ Filled(copy_mq) \subseteq {A("mq")}
      /\ mqenable /\ chip # "83xx" => A("mq") \in Filled(copy_mq)
  BY <1>1, <1>2, FilledIf DEF copy_mq
<1>4. /\ copy_fce \in Lists /\ Filled(copy_fce) \subseteq {A("fce")}
      /\ fce # "none" => A("fce") \in Filled(copy_fce)
  BY <1>1, <1>2, FilledIf DEF copy_fce
<1>5. /\ copied("req") \o copied("rsp") \in Lists
      /\ Filled(copied("req") \o copied("rsp")) = Filled(copied("req")) \cup Filled(copied("rsp"))
      /\ Filled(copied("req")) = {<<"req", q>> : q \in Created("req")} /\ Created("req") \subseteq Nat \ {0}
      /\ Filled(copied("rsp")) = {<<"rsp", q>> : q \in Created("rsp")} /\ Created("rsp") \subseteq Nat \ {0}
  BY <1>1, CopiedFilled, FilledJoin
<1>6. /\ copy_mqueues \in Lists
      /\ Filled(copy_mqueues) \subseteq Filled(copied("req") \o copied("rsp"))
      /\ mqenable => copy_mqueues = copied("req") \o copied("rsp")
  BY <1>1, <1>5, FilledIf DEF copy_mqueues
<1>7. \A a \in Filled(copy_mqueues) : a[2] > 0
  BY <1>5, <1>6
<1>8. mqenable => \A kind \in Kinds : \A q \in Created(kind) : <<kind, q>> \in Filled(copy_mqueues)
  BY <1>5, <1>6 DEF Kinds
<1>9. /\ Chain \in Lists
      /\ Filled(Chain) = Filled(copy_mq) \cup Filled(copy_fce) \cup Filled(copy_mqueues)
  <2>1. copy_mq \o copy_fce \in Lists /\ Filled(copy_mq \o copy_fce) = Filled(copy_mq) \cup Filled(copy_fce)
    BY <1>3, <1>4, FilledJoin
  <2>2. Chain = copy_mq \o copy_fce \o copy_mqueues
    BY DEF Chain
  <2> QED BY <1>6, <2>1, <2>2, FilledJoin
<1>10. \A a \in Filled(Chain) : a[1] \in {"mq", "fce"} \/ a[2] > 0
  <2>1. A("mq")[1] = "mq" /\ A("fce")[1] = "fce"
    BY DEF A
  <2> QED BY <1>3, <1>4, <1>7, <1>9, <2>1
<1> QED BY <1>3, <1>4, <1>8, <1>9, <1>10

LEMMA FixedNotChained == \A a \in FixedAreas : ~(a[1] \in {"mq", "fce"} \/ a[2] > 0)
BY DEF FixedAreas, A

\* What is dumped of the queues of the state before, when all that have been
\* created are in new.
LEMMA QueuesIn ==
  ASSUME BufferInv, queues \subseteq Kinds \X Nat, NEW q \in queues
  PROVE  \/ \E kind \in Kinds : \E n \in Created(kind) : q = <<kind, n>>
         \/ \E p \in 1..q[2] - 1 : <<q[1], p>> \notin queues
<1>1. PICK kind \in Kinds, n \in Nat : q = <<kind, n>>
  OBVIOUS
<1>2. q[1] = kind /\ q[2] = n /\ n \in Queues(kind)
  BY <1>1 DEF BufferInv, StateOK
<1>3. CASE n \in Created(kind)
  BY <1>1, <1>3
<1>4. CASE n \notin Created(kind)
  <2>1. PICK p \in 1..n : <<kind, p>> \notin queues
    BY <1>2, <1>4 DEF Created
  <2>2. p # n
    BY <1>1, <2>1
  <2>3. p \in 1..n - 1
    BY <1>1, <2>1, <2>2
  <2> QED BY <1>2, <2>1, <2>3
<1> QED BY <1>3, <1>4

LEMMA ChainedReads ==
  ASSUME BufferInv, AreasOK, queues \subseteq Kinds \X Nat,
         NEW on \in SUBSET (FceChips \cap Laid), prep_dump(on),
         NEW fixed, NEW list, NEW end, chained_dump(fixed, list, end),
         Typed(fixed), \A x \in fixed : x.area \in FixedAreas, fw_dumped'
  PROVE  /\ ChainIsWhole' /\ QueuesAreDumped'
         /\ Latest' = Marked(fixed \cup Place(Chain, buf.chain), dumps')
         /\ last'.hammered = (end = "hammered") /\ last'.mem = Mem[fw]
<1>1. /\ chip \in FceChips \cap Laid /\ fw # 0 /\ buf # NoBuf
      /\ UNCHANGED <<chip, mqenable, fce, buf, queues>>
  BY DEF prep_dump, Idle, traces
<1>2. end \in {"done", "hammered"}
  <2>1. post_process(end)
    BY Zenon DEF chained_dump
  <2> QED BY <2>1 DEF post_process
<1> DEFINE new == fixed \cup Place(Chain, buf.chain)
<1>3. /\ Write(new)
      /\ len' = valid_len(Chain)
      /\ variant' = ((variant /\ chip # "25xx") \/ Chain # <<>>)
      /\ Took(list \o Chain, end = "hammered", {})
  <2>1. LET complete == end \in {"done", "hammered"}
            chain == IF complete THEN Chain ELSE copy_mq
        IN /\ Write(fixed \cup Place(chain, buf.chain))
           /\ len' = IF complete THEN valid_len(chain) ELSE len
           /\ variant' = \/ variant /\ chip # "25xx"
                         \/ complete /\ chain # <<>>
           /\ Took(If(complete, list \o chain), end = "hammered", {})
    BY Zenon DEF chained_dump
  <2> QED BY <1>2, <2>1 DEF If
<1>4. /\ Chain \in Lists /\ Length(Chain) \in Nat
      /\ \A a \in Filled(Chain) : a[1] \in {"mq", "fce"} \/ a[2] > 0
      /\ mqenable /\ chip # "83xx" => A("mq") \in Filled(Chain)
      /\ fce # "none" => A("fce") \in Filled(Chain)
      /\ mqenable => \A kind \in Kinds : \A q \in Created(kind) : <<kind, q>> \in Filled(Chain)
  BY <1>1, ChainAreas, LengthType
<1>5. buf.chain \in Nat
  BY DEF BufferInv, StateOK, Buffers
<1>6. /\ Typed(Place(Chain, buf.chain))
      /\ Tiles(Place(Chain, buf.chain), buf.chain, buf.chain + Length(Chain))
      /\ \A x \in Place(Chain, buf.chain) : x.area \in Filled(Chain)
      /\ \A a \in Filled(Chain) : \E x \in Place(Chain, buf.chain) : x.area = a
  BY <1>4, <1>5, PlaceTyped, PlaceTiles, FilledIs
<1>7. Typed(new)
  BY <1>6 DEF Typed
<1>8. Latest' = Marked(new, dumps')
  <2> HIDE DEF new
  <2> QED BY <1>3, <1>7, LatestIs
<1>9. /\ \A x \in new : \E y \in Latest' : y.area = x.area /\ y.at = x.at /\ y.len = x.len
      /\ \A y \in Latest' : \E x \in new : y.area = x.area /\ y.at = x.at /\ y.len = x.len
  <2> HIDE DEF new
  <2> QED BY <1>8, HaveIs
<1>10. Chained' = {x \in Latest' : x.area[1] \in {"mq", "fce"} \/ x.area[2] > 0}
  BY DEF Chained
<1>11. \A y \in Chained' : \E x \in Place(Chain, buf.chain) : y.area = x.area /\ y.at = x.at /\ y.len = x.len
  BY <1>9, <1>10, FixedNotChained
<1>12. \A x \in Place(Chain, buf.chain) : \E y \in Chained' : y.area = x.area /\ y.at = x.at /\ y.len = x.len
  <2> SUFFICES ASSUME NEW x \in Place(Chain, buf.chain)
               PROVE  \E y \in Chained' : y.area = x.area /\ y.at = x.at /\ y.len = x.len
    OBVIOUS
  <2>1. PICK y \in Latest' : y.area = x.area /\ y.at = x.at /\ y.len = x.len
    BY <1>9
  <2>2. y.area[1] \in {"mq", "fce"} \/ y.area[2] > 0
    BY <1>4, <1>6, <2>1
  <2> QED BY <1>10, <2>1, <2>2
<1>13. len' = buf.chain + Length(Chain)
  BY <1>3 DEF valid_len
<1>14. ~(chip = "83xx" /\ fce = "none") => variant' = (Chained' # {})
  <2> SUFFICES ASSUME ~(chip = "83xx" /\ fce = "none") PROVE variant' = (Chained' # {})
    OBVIOUS
  <2>1. CASE mqenable \/ fce # "none"
    <3>1. PICK a : a \in Filled(Chain)
      BY <1>4, <2>1
    <3>2. Chained' # {}
      BY <1>6, <1>12, <3>1
    <3>3. Chain # <<>>
      BY <3>1, FilledNone
    <3> QED BY <1>3, <3>2, <3>3
  <2>2. CASE ~(mqenable \/ fce # "none")
    <3>1. Chain = <<>>
      BY <2>2, NoChain
    <3>2. ~variant
      BY <2>2 DEF BufferInv, VariantMeans
    <3>3. Chained' = {}
      BY <1>6, <1>11, <3>1, FilledNone
    <3> QED BY <1>3, <3>1, <3>2, <3>3
  <2> QED BY <2>1, <2>2
<1>15. \A at \in buf.chain..len' - 1 : \E x \in Chained' : at \in x.at..x.at + x.len - 1
  <2> SUFFICES ASSUME NEW at \in buf.chain..len' - 1 PROVE \E x \in Chained' : at \in x.at..x.at + x.len - 1
    OBVIOUS
  <2>1. PICK x \in Place(Chain, buf.chain) : at \in x.at..x.at + x.len - 1
    BY <1>6, <1>13 DEF Tiles
  <2> QED BY <1>12, <2>1
<1>16. \A x \in Chained' : x.at >= buf.chain /\ x.at + x.len <= len'
  <2> SUFFICES ASSUME NEW x \in Chained' PROVE x.at >= buf.chain /\ x.at + x.len <= len'
    OBVIOUS
  <2>1. PICK y \in Place(Chain, buf.chain) : x.at = y.at /\ x.len = y.len
    BY <1>11
  <2>2. y.at \in Nat /\ buf.chain <= y.at /\ y.at + y.len <= len'
    BY <1>6, <1>13 DEF Tiles
  <2> QED BY <1>5, <2>1, <2>2
<1>17. ChainIsWhole'
  BY <1>1, <1>14, <1>15, <1>16 DEF ChainIsWhole
<1>18. QueuesAreDumped'
  <2>1. last'.queues \subseteq queues /\ (last'.queues # {} => last'.queues = queues)
    BY <1>3, TookIs
  <2>2. ASSUME NEW q \in last'.queues
        PROVE  (\E x \in Latest' : x.area = q) \/ \E p \in 1..q[2] - 1 : <<q[1], p>> \notin last'.queues
    <3>1. q \in queues /\ last'.queues = queues /\ mqenable
      BY <2>1, <2>2 DEF BufferInv, TracesKnown
    <3>2. CASE \E p \in 1..q[2] - 1 : <<q[1], p>> \notin queues
      BY <3>1, <3>2
    <3>3. CASE \E kind \in Kinds : \E n \in Created(kind) : q = <<kind, n>>
      <4>1. q \in Filled(Chain)
        BY <1>4, <3>1, <3>3
      <4>2. PICK x \in new : x.area = q
        BY <1>6, <4>1
      <4> QED BY <1>9, <4>2
    <3> QED BY <3>1, <3>2, <3>3, QueuesIn
  <2>3. chip' # "27xx"
    BY <1>1, ChipKinds
  <2> QED BY <2>2, <2>3 DEF QueuesAreDumped
<1>19. last'.hammered = (end = "hammered") /\ last'.mem = Mem[fw]
  BY <1>3, TookIs
<1> QED BY <1>8, <1>17, <1>18, <1>19

--------------------------------------------------------------------------
(* Each routine leaves a dump that can be read.                            *)

\* The layout of the 25xx and its like.
LEMMA FixedReads ==
  ASSUME BufferInv, AreasOK, queues \subseteq Kinds \X Nat,
         NEW on \in SUBSET (FceChips \cap Laid), prep_dump(on),
         NEW end \in {"regs", "ram", "ext", "done"}, fw_dump_25xx(end)
  PROVE  DumpIsReadable'
<1> SUFFICES ASSUME fw_dumped' PROVE DumpIsReadable'
  BY DEF DumpIsReadable, DumpIsWhole, ChainIsWhole, QueuesAreDumped
<1>1. chip \in Laid /\ chip \in FceChips /\ buf # NoBuf /\ fw # 0 /\ chip' = chip /\ buf' = buf
  BY DEF prep_dump, Idle
<1> DEFINE list == dump_memory \o copy_queues \o copy_eft
<1>2. list \in Lists /\ Filled(list) \subseteq FixedAreas
  BY <1>1, FixedFilled
<1>3. Len(list) >= 2
  <2>1. PICK n \in Nat : n >= 5 /\ Sized(list, n, Regs + Ram + Mem[fw] + (Req + Rsp) + buf.eft)
    BY <1>1, RoutineLists
  <2> QED BY <2>1 DEF Sized
<1>4. chained_dump(Place(Reached(list, end), Hdr), list, end)
  BY Zenon DEF fw_dump_25xx
<1>5. Mem[fw] = buf.mem => Body(buf.mem, buf.eft) = list
  <2>1. chip \in Fwi2
    BY <1>1, ChipKinds
  <2> QED BY <1>1, <2>1, BodyIsWritten
<1> HIDE DEF list
<1>6. end = "done"
  <2>1. post_process(end)
    BY <1>4, Zenon DEF chained_dump
  <2> QED BY <2>1 DEF post_process
<1>7. Reached(list, end) = list
  BY <1>2, <1>3, <1>6, ReachedIs
<1>8. /\ Typed(Place(list, Hdr)) /\ \A x \in Place(list, Hdr) : x.area \in FixedAreas
      /\ chained_dump(Place(list, Hdr), list, end)
  BY <1>2, <1>4, <1>7, PlaceTyped, FilledIs, Sizes
<1>9. /\ ChainIsWhole' /\ QueuesAreDumped'
      /\ Latest' = Marked(Place(list, Hdr) \cup Place(Chain, buf.chain), dumps')
      /\ last'.mem = Mem[fw]
  BY <1>8, ChainedReads
<1>10. Body(buf.mem, buf.eft)' = Body(buf.mem, buf.eft)
  BY <1>1 DEF Body
<1>11. ASSUME AsAllocated' PROVE Have(Place(Body(buf.mem, buf.eft), Hdr))'
  <2>1. Body(buf.mem, buf.eft) = list
    BY <1>1, <1>5, <1>9, <1>11 DEF AsAllocated
  <2>2. \A x \in Place(list, Hdr) \cup Place(Chain, buf.chain) :
          \E y \in Latest' : y.area = x.area /\ y.at = x.at /\ y.len = x.len
    BY <1>9, HaveIs
  <2> QED BY <1>10, <2>1, <2>2 DEF Have
<1>12. DumpIsWhole'
  BY <1>1, <1>11, ChipKinds DEF DumpIsWhole, P3P
<1> QED BY <1>9, <1>12 DEF DumpIsReadable

\* The 83xx without its RISC.
LEMMA HammeredReads ==
  ASSUME BufferInv, AreasOK, queues \subseteq Kinds \X Nat, prep_dump({"83xx"}),
         chained_dump(Place(P(A("regs"), Regs), Hdr)
                        \cup Place(copy_queues \o copy_eft, Hdr + Regs + Ram + Mem[fw] \div 4),
                      dump_memory \o (copy_queues \o copy_eft), "hammered")
  PROVE  DumpIsReadable'
<1> SUFFICES ASSUME fw_dumped' PROVE DumpIsReadable'
  BY DEF DumpIsReadable, DumpIsWhole, ChainIsWhole, QueuesAreDumped
<1>1. chip = "83xx" /\ chip \in Laid /\ buf # NoBuf /\ fw # 0
      /\ {"83xx"} \in SUBSET (FceChips \cap Laid)
  BY DEF prep_dump, Idle, FceChips, Laid, Chips, P3P
<1> DEFINE a == P(A("regs"), Regs)
           b == copy_queues \o copy_eft
           from == Hdr + Regs + Ram + Mem[fw] \div 4
<1>2. Hdr \in Nat /\ Regs \in Nat /\ Ram \in Nat /\ Mem[fw] \in Nat
  BY <1>1, RoutineLists, Sizes
<1>3. from \in Nat
  <2>1. Mem[fw] \div 4 \in Nat
    BY <1>2
  <2> QED BY <1>2, <2>1
<1>4. a \in Lists /\ Filled(a) \subseteq FixedAreas /\ b \in Lists /\ Filled(b) \subseteq FixedAreas
  BY <1>1, <1>2, FixedIs, FixedFilled
<1> HIDE DEF a, b, from
<1> DEFINE fixed == Place(a, Hdr) \cup Place(b, from)
<1>5. Typed(fixed) /\ \A x \in fixed : x.area \in FixedAreas
  <2>1. Typed(Place(a, Hdr)) /\ Typed(Place(b, from))
    BY <1>2, <1>3, <1>4, PlaceTyped
  <2>2. /\ \A x \in Place(a, Hdr) : x.area \in Filled(a)
        /\ \A x \in Place(b, from) : x.area \in Filled(b)
    BY <1>2, <1>3, <1>4, FilledIs
  <2> QED BY <1>4, <2>1, <2>2 DEF Typed
<1>6. chained_dump(fixed, dump_memory \o b, "hammered")
  BY DEF a, b, from
<1> HIDE DEF fixed
<1>7. ChainIsWhole' /\ QueuesAreDumped' /\ last'.hammered
  BY <1>1, <1>5, <1>6, ChainedReads
<1> QED BY <1>7 DEF DumpIsReadable, DumpIsWhole

\* The walk of the 27xx template.
LEMMA WalkHas ==
  ASSUME NEW t \in Templates, NEW mem \in Nat, NEW f, NEW e, NEW kind \in Kinds
  PROVE  Filled(t263(kind, FALSE)) \subseteq Filled(walk_template(t, mem, f, e, FALSE))
<1>1. /\ "req" \in Kinds /\ "rsp" \in Kinds /\ FALSE \in BOOLEAN
      /\ (f # "none") \in BOOLEAN /\ (e # "none") \in BOOLEAN
  BY DEF Kinds
<1>2. /\ Tmpl \in Nat /\ Walked[t] \in Nat /\ Ram \in Nat /\ Fce \in Nat /\ Eft \in Nat
      /\ \A n \in Names : A(n) \in Names \X Nat
      /\ {"template", "regs", "remote", "ext", "mpi", "fce", "eft"} \subseteq Names
  BY Sizes, AreaNames DEF Names
<1>3. /\ P(A("template"), Tmpl) \in Lists /\ registers(t) \in Lists /\ remote(t) \in Lists
      /\ t262(mem) \in Lists /\ t272 \in Lists
      /\ P(A("fce"), Fce) \in Lists /\ P(A("eft"), Eft) \in Lists
  BY <1>2, FilledOne DEF registers, remote, t262, t272
<1>4. t264(f) \in Lists /\ t268(e) \in Lists
  BY <1>1, <1>3, FilledIf DEF t264, t268
<1>5. /\ t263("req", FALSE) \in Lists /\ t263("rsp", FALSE) \in Lists
      /\ t274("req", FALSE) \in Lists /\ t274("rsp", FALSE) \in Lists
  BY <1>1, QueueEntries, ShadowEntries DEF Sized
<1> DEFINE l1 == P(A("template"), Tmpl) \o registers(t) \o t262(mem)
           l2 == l1 \o t263("req", FALSE)
           l3 == l2 \o t263("rsp", FALSE)
           l4 == l3 \o t264(f) \o t268(e)
           l5 == l4 \o remote(t) \o t272
           l6 == l5 \o t274("req", FALSE) \o t274("rsp", FALSE)
<1>6. l1 \in Lists
  BY <1>3, FilledJoin
<1> HIDE DEF l1
<1>7. l2 \in Lists /\ Filled(t263("req", FALSE)) \subseteq Filled(l2)
  BY <1>5, <1>6, FilledJoin
<1> HIDE DEF l2
<1>8. l3 \in Lists /\ Filled(l2) \subseteq Filled(l3) /\ Filled(t263("rsp", FALSE)) \subseteq Filled(l3)
  BY <1>5, <1>7, FilledJoin
<1> HIDE DEF l3
<1>9. l4 \in Lists /\ Filled(l3) \subseteq Filled(l4)
  <2>1. l3 \o t264(f) \in Lists /\ Filled(l3) \subseteq Filled(l3 \o t264(f))
    BY <1>4, <1>8, FilledJoin
  <2> QED BY <1>4, <2>1, FilledJoin
<1> HIDE DEF l4
<1>10. l5 \in Lists /\ Filled(l4) \subseteq Filled(l5)
  <2>1. l4 \o remote(t) \in Lists /\ Filled(l4) \subseteq Filled(l4 \o remote(t))
    BY <1>3, <1>9, FilledJoin
  <2> QED BY <1>3, <2>1, FilledJoin
<1> HIDE DEF l5
<1>11. l6 \in Lists /\ Filled(l5) \subseteq Filled(l6)
  <2>1. l5 \o t274("req", FALSE) \in Lists /\ Filled(l5) \subseteq Filled(l5 \o t274("req", FALSE))
    BY <1>5, <1>10, FilledJoin
  <2> QED BY <1>5, <2>1, FilledJoin
<1>12. walk_template(t, mem, f, e, FALSE) = l6
  BY DEF walk_template, l1, l2, l3, l4, l5
<1> HIDE DEF l6
<1>13. kind = "req" \/ kind = "rsp"
  BY DEF Kinds
<1> QED BY <1>7, <1>8, <1>9, <1>10, <1>11, <1>12, <1>13

LEMMA WalkedReads ==
  ASSUME BufferInv, AreasOK, queues \subseteq Kinds \X Nat,
         NEW miss \in {{}, {A("ext"), A("mpi")}}, fwdump_27xx(miss)
  PROVE  DumpIsReadable'
<1> DEFINE list == walk_template(tmplt, Mem[fw], fce, eft, FALSE)
           new == {x \in Place(list, 0) : x.area \notin miss}
<1>1. /\ chip = "27xx" /\ tmplt \in Templates /\ buf # NoBuf
      /\ Write(new) /\ len' = Length(list)
      /\ Took(list, FALSE, miss)
      /\ chip' = chip
  BY Zenon DEF fwdump_27xx
<1>2. Mem[fw] \in Nat
  BY <1>1, Sizes DEF BufferInv, StateOK, FirstOfAll
<1>3. list \in Lists
  BY <1>1, <1>2, WalkFits
<1>4. \A kind \in Kinds : Filled(t263(kind, FALSE)) \subseteq Filled(list)
  BY <1>1, <1>2, WalkHas
<1> HIDE DEF list
<1>5. /\ Typed(Place(list, 0)) /\ Tiles(Place(list, 0), 0, 0 + Length(list))
      /\ \A a \in Filled(list) : \E x \in Place(list, 0) : x.area = a
      /\ Length(list) \in Nat
  BY <1>3, PlaceTyped, PlaceTiles, FilledIs, LengthType
<1>6. Typed(new)
  BY <1>5 DEF Typed
<1>7. Latest' = Marked(new, dumps')
  <2> HIDE DEF new
  <2> QED BY <1>1, <1>6, LatestIs
<1>8. \A x \in new : \E y \in Latest' : y.area = x.area /\ y.at = x.at /\ y.len = x.len
  <2> HIDE DEF new
  <2> QED BY <1>7, HaveIs
<1>9. last'.lost = miss /\ last'.queues \subseteq queues
  BY <1>1, TookIs
<1>10. ASSUME miss = {}, NEW at \in 0..len' - 1
       PROVE  \E x \in Latest' : at \in x.at..x.at + x.len - 1
  <2>1. at \in 0..(0 + Length(list)) - 1
    BY <1>1, <1>5, <1>10
  <2>2. PICK x \in Place(list, 0) : at \in x.at..x.at + x.len - 1
    BY <1>5, <2>1 DEF Tiles
  <2>3. x \in new
    BY <1>10
  <2> QED BY <1>8, <2>2, <2>3
<1>11. DumpIsWhole'
  BY <1>1, <1>9, <1>10, ChipKinds DEF DumpIsWhole
<1>12. ASSUME NEW q \in last'.queues PROVE \E x \in Latest' : x.area = q
  <2>1. PICK kind \in Kinds, n \in Nat : q = <<kind, n>> /\ q \in queues
    BY <1>9, <1>12
  <2>2. q[1] = kind /\ q[2] = n /\ n \in Queues(kind) /\ MaxQueue[kind] \in Nat
    BY <2>1, FwDumpAssumption DEF BufferInv, StateOK
  <2>3. n \in 1..MaxQueue[kind] /\ n \in Present(kind, FALSE)
    BY <2>1, <2>2 DEF Queues, Present
  <2>4. /\ n + 1 \in DOMAIN t263(kind, FALSE) /\ t263(kind, FALSE)[n + 1].area = q
        /\ t263(kind, FALSE)[n + 1].len > 0
    <3>1. /\ n + 1 \in 1..MaxQueue[kind] + 1 /\ (n + 1) - 1 = n
          /\ QueHdr + Ring(kind, n) > 0
      BY <2>2, <2>3, Sizes DEF Ring
    <3>2. /\ DOMAIN t263(kind, FALSE) = 1..MaxQueue[kind] + 1
          /\ t263(kind, FALSE)[n + 1] = [area |-> <<kind, (n + 1) - 1>>,
                                         len |-> IF (n + 1) - 1 \in Present(kind, FALSE)
                                                 THEN QueHdr + Ring(kind, (n + 1) - 1) ELSE 0]
      BY <3>1, Zenon DEF t263
    <3>3. t263(kind, FALSE)[n + 1] = [area |-> <<kind, n>>, len |-> QueHdr + Ring(kind, n)]
      BY <2>3, <3>1, <3>2
    <3>4. t263(kind, FALSE)[n + 1].area = q /\ t263(kind, FALSE)[n + 1].len = QueHdr + Ring(kind, n)
      <4> DEFINE e == t263(kind, FALSE)[n + 1]
                 l == QueHdr + Ring(kind, n)
      <4>1. e = [area |-> <<kind, n>>, len |-> l]
        BY <3>3
      <4> HIDE DEF e, l
      <4>2. e.area = <<kind, n>> /\ e.len = l
        BY <4>1
      <4>3. e.area = q /\ e.len = l
        BY <2>1, <4>2, Zenon
      <4> QED BY <4>3 DEF e, l
    <3>5. n + 1 \in DOMAIN t263(kind, FALSE)
      BY <3>1, <3>2, Zenon
    <3> QED BY <3>1, <3>4, <3>5
  <2>5. q \in Filled(list)
    BY <1>4, <2>1, <2>4 DEF Filled
  <2>6. PICK x \in Place(list, 0) : x.area = q
    BY <1>5, <2>5
  <2>7. q \notin miss
    BY <2>1 DEF A, Kinds
  <2> QED BY <1>8, <2>6, <2>7
<1>13. ChainIsWhole' /\ QueuesAreDumped'
  BY <1>1, <1>12, ChipKinds DEF ChainIsWhole, QueuesAreDumped
<1> QED BY <1>11, <1>13 DEF DumpIsReadable

\* A minidump.
LEMMA CollectReads ==
  ASSUME BufferInv, AreasOK, MdStep, NEW fault \in Fault, Write(WalkOf(chip, template, len, fault).data),
         fw_dumped' => \/ WalkOf(chip, template, len, fault).ptr = len
                       \/ WalkOf(chip, template, len, fault).ptr > len
  PROVE  DumpIsReadable'
<1> SUFFICES ASSUME fw_dumped' PROVE DumpIsReadable'
  BY DEF DumpIsReadable, DumpIsWhole, ChainIsWhole, QueuesAreDumped
<1> DEFINE w == WalkOf(chip, template, len, fault)
           whole == WalkOf(chip, template, len, NoFault).data
<1>1. chip \in P3P /\ buf # NoBuf /\ UNCHANGED <<chip, tmplt, len>>
  BY DEF MdStep
<1>2. EntryList(template) /\ len \in Nat /\ Claimed(template) <= len /\ GoodFault(fault)
  BY <1>1, MdTemplate
<1>3. w \in Walks /\ w.ptr <= len /\ \A x \in w.data : x \in MdData
  <2> HIDE DEF w
  <2>1. LET v == WalkOf(chip, template, len, fault)
        IN v \in Walks /\ v.ptr <= len /\ \A x \in v.data : x \in MdData /\ x.at + x.len <= len
    BY <1>1, <1>2, MdFits
  <2> QED BY <2>1 DEF w
<1>4. w.ptr \in Nat
  BY <1>3 DEF Walks
<1>5. w.ptr = len
  <2> HIDE DEF w
  <2>1. w.ptr = len \/ w.ptr > len
    BY DEF w
  <2> QED BY <1>2, <1>3, <1>4, <2>1
<1>6. whole = w.data
  BY <1>1, <1>2, <1>5, MdWhole
<1>7. Typed(w.data)
  <2> HIDE DEF w
  <2>1. \A x \in MdData : x.area \in Names \X Nat /\ x.at \in Nat /\ x.len \in Nat \ {0}
    BY DEF MdData, Names
  <2> QED BY <1>3, <2>1 DEF Typed
<1>8. Latest' = Marked(w.data, dumps')
  <2>1. Write(w.data)
    OBVIOUS
  <2> HIDE DEF w
  <2> QED BY <1>7, <2>1, LatestIs
<1>9. \A x \in whole : \E y \in Latest' : y.area = x.area /\ y.at = x.at /\ y.len = x.len
  <2> HIDE DEF w, whole
  <2> QED BY <1>6, <1>8, HaveIs
<1>10. template' = template
  BY <1>1 DEF template
<1>11. /\ chip = "82xx" => Have(md_walk_82xx(template, len, NoFault).data)'
       /\ chip = "8044" => Have(md_walk_8044(template, len, NoFault).data)'
  BY <1>1, <1>9, <1>10 DEF Have, WalkOf, NoFault
<1>12. DumpIsWhole'
  BY <1>1, <1>11, ChipKinds DEF DumpIsWhole
<1>13. ChainIsWhole' /\ QueuesAreDumped'
  BY <1>1, ChipKinds DEF ChainIsWhole, QueuesAreDumped
<1> QED BY <1>12, <1>13 DEF DumpIsReadable

LEMMA MinidumpReads ==
  ASSUME BufferInv, AreasOK, DumpIsReadable, Minidump
  PROVE  DumpIsReadable'
<1>1. CASE \E f \in Firmware : check_md_needed(f)
  <2>1. PICK f \in Firmware : check_md_needed(f)
    BY <1>1
  <2>2. \/ ~fw_dumped
        \/ UNCHANGED <<buf, len, areas, tmplt, starved>>
    BY <2>1, Zenon DEF check_md_needed
  <2>3. chip \in P3P /\ UNCHANGED <<chip, variant, dumps, last, fw_dumped, fce>>
    BY <2>1 DEF check_md_needed, taken, sysfs, traces
  <2>4. Calm
    BY <2>2, <2>3 DEF Calm
  <2> QED BY <2>4, CalmKeeps
<1>2. CASE (\E ask \in BOOLEAN : suppress(ask)) \/ fw_hung \/ not_collected
  <2>1. Calm
    BY <1>2 DEF suppress, fw_hung, not_collected, Calm, dumpBuffer, taken, sysfs, traces
  <2> QED BY <2>1, CalmKeeps
<1>3. CASE qla82xx_md_collect \/ qla8044_collect_md_data
  <2>1. CASE MdApart
    <3>1. Calm
      BY <2>1 DEF MdApart, Calm
    <3> QED BY <3>1, CalmKeeps
  <2>2. CASE MdStep /\ \E fault \in Fault :
               /\ Write(WalkOf(chip, template, len, fault).data)
               /\ fw_dumped' => \/ WalkOf(chip, template, len, fault).ptr = len
                                \/ WalkOf(chip, template, len, fault).ptr > len
    BY <2>2, CollectReads
  <2> QED BY <1>3, <2>1, <2>2, CollectCases
<1> QED BY <1>1, <1>2, <1>3 DEF Minidump

LEMMA DumpReads ==
  ASSUME BufferInv, AreasOK, queues \subseteq Kinds \X Nat, Dump
  PROVE  DumpIsReadable'
<1>0. /\ {"2100"} \in SUBSET (Laid \ FceChips) /\ {"2300", "2322"} \in SUBSET (Laid \ FceChips)
      /\ {"24xx"} \in SUBSET (Laid \ FceChips) /\ {"24xx"} \subseteq Fwi2
      /\ {"25xx"} \in SUBSET (FceChips \cap Laid) /\ {"81xx"} \in SUBSET (FceChips \cap Laid)
      /\ {"83xx"} \in SUBSET (FceChips \cap Laid)
  BY DEF Laid, Chips, P3P, FceChips, Fwi2
<1> DEFINE plain == dump_ram \o copy_queues
           outer == dump_memory \o copy_queues
           traced == dump_memory \o copy_queues \o copy_eft
<1>1. ASSUME NEW on \in SUBSET Laid, prep_dump(on)
      PROVE  /\ plain \in Lists /\ Len(plain) >= 2
             /\ outer \in Lists /\ Len(outer) >= 2
             /\ traced \in Lists /\ Len(traced) >= 2
             /\ Mem[fw] = buf.mem =>
                  /\ chip = "2100" => Body(buf.mem, buf.eft) = plain
                  /\ chip \in {"2300", "2322"} => Body(buf.mem, buf.eft) = outer
                  /\ chip \in Fwi2 => Body(buf.mem, buf.eft) = traced
  <2>1. chip \in Laid /\ buf # NoBuf /\ fw # 0
    BY <1>1 DEF prep_dump, Idle
  <2>2. PICK n \in Nat : n >= 5 /\ Sized(traced, n, Regs + Ram + Mem[fw] + (Req + Rsp) + buf.eft)
    BY <2>1, RoutineLists
  <2>3. /\ Sized(plain, 4, Regs + Ram + (Req + Rsp))
        /\ Sized(outer, 5, Regs + Ram + Mem[fw] + (Req + Rsp))
    BY <2>1, RoutineLists
  <2>4. Mem[fw] = buf.mem =>
                  /\ chip = "2100" => Body(buf.mem, buf.eft) = plain
                  /\ chip \in {"2300", "2322"} => Body(buf.mem, buf.eft) = outer
                  /\ chip \in Fwi2 => Body(buf.mem, buf.eft) = traced
    BY <2>1, BodyIsWritten
  <2> HIDE DEF plain, outer, traced
  <2> QED BY <2>2, <2>3, <2>4 DEF Sized
<1>2. CASE qla2100_fw_dump
  <2>1. PICK end \in {"pause", "regs", "ram", "done"} : plain_dump(plain, end)
    BY <1>2 DEF qla2100_fw_dump
  <2>2. prep_dump({"2100"}) /\ chip = "2100"
    BY <1>2 DEF qla2100_fw_dump, prep_dump
  <2>3. plain \in Lists /\ Len(plain) >= 2 /\ (Mem[fw] = buf.mem => Body(buf.mem, buf.eft) = plain)
    BY <1>0, <1>1, <2>2
  <2> HIDE DEF plain
  <2> QED BY <1>0, <2>1, <2>2, <2>3, PlainReads
<1>3. CASE qla2300_fw_dump
  <2>1. PICK end \in {"pause", "regs", "ram", "ext", "done"} : plain_dump(outer, end)
    BY <1>3 DEF qla2300_fw_dump
  <2>2. prep_dump({"2300", "2322"}) /\ chip \in {"2300", "2322"}
    BY <1>3 DEF qla2300_fw_dump, prep_dump
  <2>3. outer \in Lists /\ Len(outer) >= 2 /\ (Mem[fw] = buf.mem => Body(buf.mem, buf.eft) = outer)
    BY <1>0, <1>1, <2>2
  <2> HIDE DEF outer
  <2> QED BY <1>0, <2>1, <2>2, <2>3, PlainReads
<1>4. CASE qla24xx_fw_dump
  <2>1. PICK end \in {"regs", "ram", "ext", "done"} : plain_dump(traced, end)
    BY <1>4 DEF qla24xx_fw_dump
  <2>2. prep_dump({"24xx"}) /\ chip = "24xx"
    BY <1>4 DEF qla24xx_fw_dump, prep_dump
  <2>3. traced \in Lists /\ Len(traced) >= 2 /\ (Mem[fw] = buf.mem => Body(buf.mem, buf.eft) = traced)
    BY <1>0, <1>1, <2>2
  <2> HIDE DEF traced
  <2> QED BY <1>0, <2>1, <2>2, <2>3, PlainReads
<1>5. CASE qla25xx_fw_dump
  BY <1>0, <1>5, FixedReads DEF qla25xx_fw_dump
<1>6. CASE qla81xx_fw_dump
  BY <1>0, <1>6, FixedReads DEF qla81xx_fw_dump
<1>7. CASE qla83xx_fw_dump
  <2>1. prep_dump({"83xx"})
    BY <1>7 DEF qla83xx_fw_dump
  <2>2. CASE \E end \in {"ram", "ext", "done"} : fw_dump_25xx(end)
    <3>1. PICK end \in {"ram", "ext", "done"} : fw_dump_25xx(end)
      BY <2>2
    <3>2. end \in {"regs", "ram", "ext", "done"}
      OBVIOUS
    <3> QED BY <1>0, <2>1, <3>1, <3>2, FixedReads
  <2>3. CASE chained_dump(Place(P(A("regs"), Regs), Hdr)
                            \cup Place(copy_queues \o copy_eft, Hdr + Regs + Ram + Mem[fw] \div 4),
                          dump_memory \o (copy_queues \o copy_eft), "hammered")
    BY <2>1, <2>3, HammeredReads
  <2> QED BY <1>7, <2>2, <2>3, Zenon DEF qla83xx_fw_dump
<1>8. CASE \E lost \in {{}, {A("ext"), A("mpi")}} : fwdump_27xx(lost)
  BY <1>8, WalkedReads
<1> QED BY <1>2, <1>3, <1>4, <1>5, <1>6, <1>7, <1>8 DEF Dump

LEMMA ReadStep ==
  ASSUME BufferInv, BufferInv', AreasOK, ReadInv, [DumpNext]_dumpVars
  PROVE  ReadInv'
<1>1. CASE UNCHANGED dumpVars
  <2>1. Calm
    BY <1>1 DEF dumpVars, Calm, traces, dumpBuffer, sysfs, p3p, taken
  <2>2. queues' = queues
    BY <1>1 DEF dumpVars
  <2> QED BY <2>1, <2>2, CalmKeeps DEF ReadInv
<1>2. CASE DumpNext
  <2>1. queues' \subseteq Kinds \X Nat
    BY <1>2, QueuesPaired DEF ReadInv
  <2>2. CASE \/ \E f \in Firmware : first_setup(f) \/ chip_setup(f)
             \/ \E kind \in Kinds : create_que(kind)
             \/ delete_que
    <3>1. Calm
      BY <2>2, SetupCalm
    <3> QED BY <2>1, <3>1, CalmKeeps DEF ReadInv
  <2>3. CASE Dump
    BY <2>1, <2>3, DumpReads DEF ReadInv
  <2>4. CASE Minidump
    BY <2>1, <2>4, MinidumpReads DEF ReadInv
  <2>5. CASE Sysfs
    BY <2>1, <2>5, SysfsCalm, CalmKeeps DEF ReadInv
  <2> QED BY <1>2, <2>2, <2>3, <2>4, <2>5 DEF DumpNext
<1> QED BY <1>1, <1>2

\* What is offered to the reader is one dump, whole and as its headers say.
THEOREM DumpAlwaysReadable == DumpSpec => []DumpIsReadable
<1> DEFINE AllInv == BufferInv /\ FitInv /\ ReadInv
<1>1. DumpInit => AllInv
  <2>1. DumpInit => ReadInv
    BY DEF DumpInit, ReadInv, DumpIsReadable, DumpIsWhole, ChainIsWhole, QueuesAreDumped
  <2> QED BY <2>1, InitIs, FitInit
<1>2. AllInv /\ [DumpNext]_dumpVars => AllInv'
  <2>1. BufferInv /\ FitInv /\ [DumpNext]_dumpVars => BufferInv' /\ FitInv'
    BY BufferStep, FitStep
  <2> QED BY <2>1, ReadStep DEF FitInv
<1>3. AllInv => DumpIsReadable
  BY DEF ReadInv
<1> HIDE DEF AllInv
<1> QED BY <1>1, <1>2, <1>3, PTL DEF DumpSpec
=============================================================================
