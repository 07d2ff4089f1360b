----------------------------- MODULE DataLemmas -----------------------------
(***************************************************************************)
(* Facts about data that the proofs of several components rest on.  The    *)
(* provers cannot instantiate an induction theorem, whose parameter is an  *)
(* operator; a property of every element is proved here by its least       *)
(* counterexample instead, the set of counterexamples being a value.       *)
(***************************************************************************)
EXTENDS Integers, SequencesExt, FiniteSetsExt, FiniteSetTheorems, SequenceTheorems,
        NaturalsInduction, TLAPS

(***************************************************************************)
(* A set of natural numbers that is not empty has a least element.         *)
(***************************************************************************)
LEMMA LeastNatural ==
    ASSUME NEW S \in SUBSET Nat, S # {}
    PROVE  \E n \in S : \A m \in S : n <= m
<1> DEFINE R == {ss \in Nat \X Nat : ss[1] < ss[2]}
<1>1. IsWellFoundedOn(R, Nat)
  BY NatLessThanWellFounded DEF OpToRel
<1> HIDE DEF R
<1>2. PICK n \in S : \A m \in S : ~(<<m, n>> \in R)
  BY <1>1, WFMin
<1>3. ASSUME NEW m \in S PROVE n <= m
  <2> DEFINE p == <<m, n>>
  <2>1. p \in Nat \X Nat /\ p[1] = m /\ p[2] = n
    OBVIOUS
  <2>2. p \notin R
    BY <1>2, <1>3
  <2>3. ~(m < n)
    BY <2>1, <2>2 DEF R
  <2> QED
    BY <2>3
<1> QED
  BY <1>3

(***************************************************************************)
(* Min and Max of a bounded set of natural numbers.                        *)
(***************************************************************************)
LEMMA MinOfNaturals ==
    ASSUME NEW S \in SUBSET Nat, S # {}
    PROVE  Min(S) \in S /\ \A m \in S : Min(S) <= m
BY LeastNatural DEF Min

LEMMA MaxOfBounded ==
    ASSUME NEW n \in Nat, NEW S \in SUBSET (0..n), S # {}
    PROVE  Max(S) \in S /\ \A m \in S : m <= Max(S)
<1> DEFINE gaps == {n - m : m \in S}
<1>1. gaps \in SUBSET Nat /\ gaps # {}
  <2>1. \A m \in S : n - m \in Nat
    OBVIOUS
  <2> QED
    BY <2>1
<1>2. PICK g \in gaps : \A h \in gaps : g <= h
  BY <1>1, LeastNatural
<1>3. PICK x \in S : g = n - x
  BY <1>2
<1>4. \A m \in S : x >= m
  <2> SUFFICES ASSUME NEW m \in S PROVE x >= m
    OBVIOUS
  <2>1. n - x <= n - m
    BY <1>2, <1>3
  <2> QED
    BY <2>1
<1>5. Max(S) \in S /\ \A m \in S : Max(S) >= m
  BY <1>4 DEF Max
<1> QED
  BY <1>5

-----------------------------------------------------------------------------
(***************************************************************************)
(* FlattenSeq concatenates: the result is a sequence, and its elements are *)
(* those of the sequences it is made of.                                   *)
(***************************************************************************)
FlattensTo(f, seqs, n) ==
    f = [i \in 1..n |-> IF i = 1 THEN seqs[i] ELSE f[i - 1] \o seqs[i]]

LEMMA FlattenExists ==
    ASSUME NEW S, NEW seqs \in Seq(Seq(S)), NEW n \in 1..Len(seqs)
    PROVE  \E f : FlattensTo(f, seqs, n)
<1> DEFINE Bad == {m \in 1..Len(seqs) : ~ \E f : FlattensTo(f, seqs, m)}
<1>1. Bad = {}
  <2> SUFFICES ASSUME Bad # {} PROVE FALSE
    OBVIOUS
  <2>0. Bad \in SUBSET Nat
    OBVIOUS
  <2>1. PICK m \in Bad : \A k \in Bad : m <= k
    BY <2>0, LeastNatural
  <2>2. m \in 1..Len(seqs) /\ ~ \E f : FlattensTo(f, seqs, m)
    BY DEF Bad
  <2>3. CASE m = 1
    <3>1. FlattensTo([i \in 1..1 |-> seqs[1]], seqs, 1)
      BY DEF FlattensTo
    <3> QED
      BY <2>2, <2>3, <3>1
  <2>4. CASE m # 1
    <3>0. m - 1 \in 1..Len(seqs) /\ ~(m <= m - 1)
      BY <2>2, <2>4
    <3>1. m - 1 \in 1..Len(seqs) /\ m - 1 \notin Bad
      BY <2>1, <3>0
    <3>2. PICK g : FlattensTo(g, seqs, m - 1)
      BY <3>1 DEF Bad
    <3> DEFINE last == g[m - 1] \o seqs[m]
               f == [i \in 1..m |-> IF i = m THEN last ELSE g[i]]
    <3>5. \A i \in 1..m : f[i] = IF i = m THEN last ELSE g[i]
      OBVIOUS
    <3>3. \A i \in 1..m : f[i] = IF i = 1 THEN seqs[i] ELSE f[i - 1] \o seqs[i]
      <4> SUFFICES ASSUME NEW i \in 1..m
                   PROVE  f[i] = IF i = 1 THEN seqs[i] ELSE f[i - 1] \o seqs[i]
        OBVIOUS
      <4>1. CASE i = m
        <5>1. m - 1 \in 1..m /\ m - 1 # m /\ m \in 1..m
          BY <2>2, <2>4
        <5>2. f[m] = last /\ f[m - 1] = g[m - 1]
          BY <3>5, <5>1
        <5> QED
          BY <2>4, <4>1, <5>2
      <4>2. CASE i # m
        <5>1. i \in 1..(m - 1) /\ i - 1 # m /\ (i # 1 => i - 1 \in 1..m)
          BY <2>2, <4>2
        <5>3. f[i] = g[i] /\ (i # 1 => f[i - 1] = g[i - 1])
          BY <3>5, <4>2, <5>1
        <5>2. g[i] = IF i = 1 THEN seqs[i] ELSE g[i - 1] \o seqs[i]
          BY <3>2, <5>1 DEF FlattensTo
        <5> HIDE DEF f
        <5> QED
          BY <5>2, <5>3
      <4> QED
        BY <4>1, <4>2
    <3>4. FlattensTo(f, seqs, m)
      BY <3>3 DEF FlattensTo
    <3> QED
      BY <2>2, <3>4
  <2> QED
    BY <2>3, <2>4
<1> QED
  BY <1>1

LEMMA FlattenRange ==
    ASSUME NEW S, NEW seqs \in Seq(Seq(S))
    PROVE  /\ FlattenSeq(seqs) \in Seq(S)
           /\ \A e \in Range(FlattenSeq(seqs)) : \E i \in DOMAIN seqs : e \in Range(seqs[i])
<1> DEFINE n == Len(seqs)
           f == CHOOSE f : FlattensTo(f, seqs, n)
<1>1. CASE n = 0
  <2>1. FlattenSeq(seqs) = << >>
    BY <1>1 DEF FlattenSeq
  <2> QED
    BY <2>1 DEF Range
<1>2. CASE n # 0
  <2>1. n \in 1..n /\ n \in Nat
    BY <1>2
  <2>2. FlattensTo(f, seqs, n)
    BY <2>1, FlattenExists
  <2>3. FlattenSeq(seqs) = f[n]
    BY <1>2 DEF FlattenSeq, FlattensTo
  <2> HIDE DEF f
  <2> DEFINE Good(i) == /\ f[i] \in Seq(S)
                        /\ \A e \in Range(f[i]) : \E j \in 1..i : e \in Range(seqs[j])
             Bad == {i \in 1..n : ~Good(i)}
  <2>4. Bad = {}
    <3> SUFFICES ASSUME Bad # {} PROVE FALSE
      OBVIOUS
    <3>0. Bad \in SUBSET Nat
      BY <2>1
    <3>1. PICK m \in Bad : \A k \in Bad : m <= k
      BY <3>0, LeastNatural
    <3>2. m \in 1..n /\ ~Good(m) /\ seqs[m] \in Seq(S)
      BY <3>1
    <3> HIDE DEF Good
    <3>3. CASE m = 1
      <4>1. f[m] = seqs[m]
        BY <2>2, <3>2, <3>3 DEF FlattensTo
      <4> QED
        BY <3>2, <3>3, <4>1 DEF Good
    <3>4. CASE m # 1
      <4>1. m - 1 \in 1..n /\ m - 1 \notin Bad
        <5>1. m - 1 \in 1..n /\ ~(m <= m - 1)
          BY <2>1, <3>2, <3>4
        <5> QED
          BY <3>1, <5>1
      <4>2. Good(m - 1)
        BY <4>1
      <4>3. f[m] = f[m - 1] \o seqs[m]
        BY <2>2, <3>2, <3>4 DEF FlattensTo
      <4>4. f[m] \in Seq(S) /\ Range(f[m]) = Range(f[m - 1]) \cup Range(seqs[m])
        BY <3>2, <4>2, <4>3, RangeConcatenation DEF Good
      <4>5. ASSUME NEW e \in Range(f[m]) PROVE \E j \in 1..m : e \in Range(seqs[j])
        <5>1. CASE e \in Range(seqs[m])
          <6>1. m \in 1..m
            BY <2>1, <3>2
          <6> QED
            BY <5>1, <6>1
        <5>2. CASE e \in Range(f[m - 1])
          <6>1. PICK j \in 1..(m - 1) : e \in Range(seqs[j])
            BY <4>2, <5>2 DEF Good
          <6>2. j \in 1..m
            BY <2>1, <3>2, <6>1
          <6> QED
            BY <6>1, <6>2
        <5> QED
          BY <4>4, <4>5, <5>1, <5>2
      <4> QED
        BY <3>2, <4>4, <4>5 DEF Good
    <3> QED
      BY <3>3, <3>4
  <2>5. Good(n)
    BY <2>1, <2>4
  <2> QED
    BY <2>3, <2>5
<1> QED
  BY <1>1, <1>2

(***************************************************************************)
(* The elements of a filtered sequence: t holds, position by position, an  *)
(* element of s or nothing.                                                *)
(***************************************************************************)
LEMMA PickRange ==
    ASSUME NEW A, NEW B, NEW s \in Seq(A), NEW t, DOMAIN t = DOMAIN s,
           t = [k \in DOMAIN s |-> t[k]],
           \A k \in DOMAIN s : t[k] = << >> \/ (t[k] = <<s[k]>> /\ s[k] \in B)
    PROVE  FlattenSeq(t) \in Seq(B)
<1>1. ASSUME NEW k \in DOMAIN s PROVE t[k] \in Seq(B)
  <2>1. CASE t[k] = << >>
    BY <2>1
  <2>2. CASE t[k] = <<s[k]>> /\ s[k] \in B
    <3>1. <<s[k]>> \in Seq(B)
      BY <2>2
    <3> QED
      BY <2>2, <3>1
  <2> QED
    BY <2>1, <2>2
<1>2. t \in Seq(Seq(B))
  <2>1. Len(s) \in Nat /\ DOMAIN s = 1..Len(s)
    OBVIOUS
  <2>2. t \in [1..Len(s) -> Seq(B)]
    BY <1>1, <2>1
  <2> QED
    BY <2>1, <2>2
<1> QED
  BY <1>2, FlattenRange

(***************************************************************************)
(* The head of a sequence and the elements of its tail are its elements.   *)
(***************************************************************************)
LEMMA HeadTailRange ==
    ASSUME NEW S, NEW s \in Seq(S), s # << >>
    PROVE  /\ Head(s) \in S /\ Tail(s) \in Seq(S)
           /\ {Head(s)} \cup Range(Tail(s)) = Range(s)
<1>1. /\ Head(s) \in S /\ Tail(s) \in Seq(S)
      /\ Len(Tail(s)) = Len(s) - 1
      /\ \A i \in 1..Len(Tail(s)) : Tail(s)[i] = s[i + 1]
  BY HeadTailProperties
<1>2. DOMAIN s = 1..Len(s) /\ Len(s) \in Nat /\ Len(s) >= 1 /\ Head(s) = s[1]
      /\ DOMAIN Tail(s) = 1..Len(Tail(s))
  BY <1>1
<1>3. ASSUME NEW e \in {Head(s)} \cup Range(Tail(s)) PROVE e \in Range(s)
  <2>1. CASE e = Head(s)
    <3>1. 1 \in DOMAIN s
      BY <1>2
    <3> QED
      BY <1>2, <2>1, <3>1 DEF Range
  <2>2. CASE e \in Range(Tail(s))
    <3>1. PICK i \in DOMAIN Tail(s) : e = Tail(s)[i]
      BY <2>2 DEF Range
    <3>2. i + 1 \in DOMAIN s /\ e = s[i + 1]
      BY <1>1, <1>2, <3>1
    <3> QED
      BY <3>2 DEF Range
  <2> QED
    BY <1>3, <2>1, <2>2
<1>4. ASSUME NEW e \in Range(s) PROVE e \in {Head(s)} \cup Range(Tail(s))
  <2>1. PICK i \in DOMAIN s : e = s[i]
    BY DEF Range
  <2>2. CASE i = 1
    BY <1>2, <2>1, <2>2
  <2>3. CASE i # 1
    <3>1. i - 1 \in 1..Len(Tail(s)) /\ (i - 1) + 1 = i
      BY <1>1, <1>2, <2>1, <2>3
    <3>2. Tail(s)[i - 1] = e
      BY <1>1, <2>1, <3>1
    <3> QED
      BY <1>2, <3>1, <3>2 DEF Range
  <2> QED
    BY <2>2, <2>3
<1> QED
  BY <1>1, <1>3, <1>4

(***************************************************************************)
(* The elements of a sequence after its first m.                           *)
(***************************************************************************)
LEMMA RangeAfter ==
    ASSUME NEW S, NEW s \in Seq(S), NEW m \in Nat
    PROVE  Range(SubSeq(s, m + 1, Len(s))) = {s[i] : i \in {j \in DOMAIN s : j > m}}
<1> DEFINE n == Len(s)
           new == SubSeq(s, m + 1, n)
<1>1. n \in Nat /\ DOMAIN s = 1..n /\ \A i \in DOMAIN s : s[i] \in S
  OBVIOUS
<1> HIDE DEF n
<1>2. /\ new \in Seq(S)
      /\ Len(new) = IF m + 1 <= n THEN n - (m + 1) + 1 ELSE 0
      /\ \A i \in 1..(n - (m + 1) + 1) : new[i] = s[(m + 1) + i - 1]
  <2>1. \A i \in (m + 1)..n : s[i] \in S
    BY <1>1
  <2>2. m + 1 \in Int /\ n \in Int
    BY <1>1
  <2> QED
    BY <2>1, <2>2, SubSeqProperties
<1>3. DOMAIN new = 1..Len(new) /\ Len(new) \in Nat
  <2> HIDE DEF new
  <2> QED
    BY <1>2
<1> HIDE DEF new
<1>4. ASSUME NEW e \in Range(new) PROVE \E i \in DOMAIN s : i > m /\ e = s[i]
  <2>1. PICK i \in DOMAIN new : e = new[i]
    BY DEF Range
  <2>2. i \in 1..(n - (m + 1) + 1) /\ i \in Nat /\ i >= 1
    BY <1>1, <1>2, <1>3, <2>1
  <2>3. (m + 1) + i - 1 = m + i /\ m + i \in 1..n /\ m + i > m
    BY <1>1, <2>2
  <2>4. e = s[m + i]
    BY <1>2, <2>1, <2>2, <2>3
  <2> QED
    BY <1>1, <2>3, <2>4
<1>5. ASSUME NEW i \in DOMAIN s, i > m PROVE s[i] \in Range(new)
  <2>1. i \in 1..n
    BY <1>1
  <2>2. i - m \in 1..(n - (m + 1) + 1) /\ (m + 1) + (i - m) - 1 = i
    BY <1>1, <1>5, <2>1
  <2>3. Len(new) = n - (m + 1) + 1
    BY <1>1, <1>2, <1>5, <2>1
  <2>4. new[i - m] = s[i] /\ i - m \in DOMAIN new
    BY <1>2, <1>3, <2>2, <2>3
  <2> QED
    BY <2>4 DEF Range
<1>6. Range(new) = {s[i] : i \in {j \in DOMAIN s : j > m}}
  BY <1>4, <1>5
<1> QED
  BY <1>6 DEF new, n

-----------------------------------------------------------------------------
(***************************************************************************)
(* A remainder below the divisor is the only one.                          *)
(***************************************************************************)
LEMMA Quotient ==
    ASSUME NEW d \in Nat \ {0}, NEW p \in Int, NEW q \in Int, NEW r \in 0..(d - 1), NEW s \in 0..(d - 1),
           d * p + r = d * q + s
    PROVE  r = s
OBVIOUS

(***************************************************************************)
(* A remainder counts up to the divisor and starts again at 0.             *)
(***************************************************************************)
LEMMA ModNext ==
    ASSUME NEW n \in Nat, NEW d \in Nat \ {0}
    PROVE  /\ n % d \in 0..(d - 1)
           /\ (n + 1) % d = IF n % d = d - 1 THEN 0 ELSE (n % d) + 1
<1> DEFINE p == n \div d
           r == n % d
           q == (n + 1) \div d
           s == (n + 1) % d
<1>1. p \in Int /\ r \in 0..(d - 1) /\ n = d * p + r
  OBVIOUS
<1>2. q \in Int /\ s \in 0..(d - 1) /\ n + 1 = d * q + s
  OBVIOUS
<1> HIDE DEF p, r, q, s
<1>3. CASE r = d - 1
  <2>1. d * (p + 1) = d * p + d
    BY <1>1
  <2>2. d * (p + 1) + 0 = d * q + s /\ 0 \in 0..(d - 1) /\ p + 1 \in Int
    BY <1>1, <1>2, <1>3, <2>1
  <2>3. s = 0
    BY <1>2, <2>2, Quotient
  <2> QED
    BY <1>1, <1>3, <2>3 DEF r, s
<1>4. CASE r # d - 1
  <2>1. d * p + (r + 1) = d * q + s /\ r + 1 \in 0..(d - 1)
    BY <1>1, <1>2, <1>4
  <2>2. s = r + 1
    BY <1>1, <1>2, <2>1, Quotient
  <2> QED
    BY <1>1, <1>4, <2>2 DEF r, s
<1> QED
  BY <1>3, <1>4

-----------------------------------------------------------------------------
(***************************************************************************)
(* What holds of 0 and passes from each number to the next holds up to n.  *)
(***************************************************************************)
LEMMA UpTo ==
    ASSUME NEW n \in Nat, NEW P, 0 \in P, \A i \in 1..n : i - 1 \in P => i \in P
    PROVE  \A i \in 0..n : i \in P
<1> DEFINE Bad == {i \in 0..n : i \notin P}
<1> SUFFICES ASSUME Bad # {} PROVE FALSE
  OBVIOUS
<1>1. Bad \in SUBSET Nat
  OBVIOUS
<1>2. PICK m \in Bad : \A k \in Bad : m <= k
  BY <1>1, LeastNatural
<1>3. m \in 1..n /\ m - 1 \in 0..n /\ ~(m <= m - 1)
  BY <1>2
<1>4. m - 1 \notin Bad
  BY <1>2, <1>3
<1> QED
  BY <1>2, <1>3, <1>4

(***************************************************************************)
(* A recursive function on 0..n exists: base is its first value, step      *)
(* gives each other one from the one before it.                            *)
(***************************************************************************)
RecursesTo(f, base, step, n) ==
    f = [i \in 0..n |-> IF i = 0 THEN base ELSE step[<<f[i - 1], i>>]]

LEMMA RecursionExists ==
    ASSUME NEW S, NEW base \in S, NEW n \in Nat, NEW step \in [S \X (1..n) -> S]
    PROVE  \E f \in [0..n -> S] : RecursesTo(f, base, step, n)
<1> DEFINE P == {m \in 0..n : \E f \in [0..m -> S] : RecursesTo(f, base, step, m)}
<1>1. 0 \in P
  <2>1. [i \in 0..0 |-> base] \in [0..0 -> S]
    OBVIOUS
  <2>2. RecursesTo([i \in 0..0 |-> base], base, step, 0)
    BY DEF RecursesTo
  <2> QED
    BY <2>1, <2>2
<1>2. ASSUME NEW m \in 1..n, m - 1 \in P PROVE m \in P
  <2>1. PICK g \in [0..(m - 1) -> S] : RecursesTo(g, base, step, m - 1)
    BY <1>2
  <2>2. m \in 0..n /\ m # 0 /\ m - 1 \in 0..(m - 1)
    OBVIOUS
  <2> DEFINE last == step[<<g[m - 1], m>>]
             f == [i \in 0..m |-> IF i = m THEN last ELSE g[i]]
  <2>3. last \in S
    <3>1. <<g[m - 1], m>> \in S \X (1..n)
      BY <2>1, <2>2
    <3> QED
      BY <3>1
  <2>4. f \in [0..m -> S]
    <3>1. ASSUME NEW i \in 0..m, i # m PROVE g[i] \in S
      <4>1. i \in 0..(m - 1)
        BY <3>1
      <4> QED
        BY <2>1, <4>1
    <3> HIDE DEF last
    <3> QED
      BY <2>3, <3>1
  <2>5. \A i \in 0..m : f[i] = IF i = m THEN last ELSE g[i]
    OBVIOUS
  <2>6. \A i \in 0..m : f[i] = IF i = 0 THEN base ELSE step[<<f[i - 1], i>>]
    <3> SUFFICES ASSUME NEW i \in 0..m
                 PROVE  f[i] = IF i = 0 THEN base ELSE step[<<f[i - 1], i>>]
      OBVIOUS
    <3>1. CASE i = m
      <4>1. m - 1 \in 0..m /\ m - 1 # m /\ m \in 0..m
        BY <2>2
      <4>2. f[m] = last /\ f[m - 1] = g[m - 1]
        BY <2>5, <4>1
      <4> QED
        BY <2>2, <3>1, <4>2
    <3>2. CASE i # m
      <4>1. i \in 0..(m - 1) /\ i - 1 # m /\ (i # 0 => i - 1 \in 0..m)
        BY <3>2
      <4>2. f[i] = g[i] /\ (i # 0 => f[i - 1] = g[i - 1])
        BY <2>5, <3>2, <4>1
      <4>3. g[i] = IF i = 0 THEN base ELSE step[<<g[i - 1], i>>]
        BY <2>1, <4>1 DEF RecursesTo
      <4> HIDE DEF f
      <4> QED
        BY <4>2, <4>3
    <3> QED
      BY <3>1, <3>2
  <2>7. RecursesTo(f, base, step, m)
    BY <2>6 DEF RecursesTo
  <2> QED
    BY <2>2, <2>4, <2>7
<1> HIDE DEF P
<1>3. \A i \in 0..n : i \in P
  BY <1>1, <1>2, UpTo
<1>4. n \in P
  BY <1>3
<1> QED
  BY <1>4 DEF P

(***************************************************************************)
(* FlattenSeq of a sequence with one more at its end.                      *)
(***************************************************************************)
LEMMA FlattenAppend ==
    ASSUME NEW S, NEW seqs \in Seq(Seq(S)), NEW x \in Seq(S)
    PROVE  FlattenSeq(Append(seqs, x)) = FlattenSeq(seqs) \o x
<1> DEFINE n == Len(seqs)
           more == Append(seqs, x)
           f == CHOOSE f : FlattensTo(f, seqs, n)
           g == CHOOSE g : FlattensTo(g, more, n + 1)
<1>1. /\ more \in Seq(Seq(S)) /\ Len(more) = n + 1 /\ n \in Nat
      /\ more[n + 1] = x /\ \A i \in 1..n : more[i] = seqs[i]
  BY AppendProperties
<1>2. FlattensTo(g, more, n + 1)
  <2> HIDE DEF more
  <2>1. n + 1 \in 1..Len(more)
    BY <1>1
  <2> QED
    BY <1>1, <2>1, FlattenExists
<1>3. FlattenSeq(more) = g[n + 1]
  <2> HIDE DEF more
  <2> QED
    BY <1>1 DEF FlattenSeq, FlattensTo
<1> HIDE DEF g, more
<1>4. CASE n = 0
  <2>1. seqs = << >> /\ FlattenSeq(seqs) = << >>
    BY <1>4 DEF FlattenSeq
  <2>2. g[n + 1] = x
    <3>1. n + 1 = 1 /\ 1 \in 1..1
      BY <1>4
    <3> QED
      BY <1>1, <1>2, <3>1 DEF FlattensTo
  <2> QED
    BY <1>3, <2>1, <2>2 DEF more
<1>5. CASE n # 0
  <2>0. n \in 1..n
    BY <1>1, <1>5
  <2>1. FlattensTo(f, seqs, n)
    BY <2>0, FlattenExists
  <2>2. FlattenSeq(seqs) = f[n]
    BY <1>1, <1>5 DEF FlattenSeq, FlattensTo
  <2> HIDE DEF f
  <2> DEFINE P == {0} \cup {i \in 1..n : f[i] = g[i]}
  <2>3. ASSUME NEW i \in 1..n, i - 1 \in P PROVE i \in P
    <3>1. i \in 1..(n + 1) /\ more[i] = seqs[i]
      BY <1>1
    <3>2. f[i] = IF i = 1 THEN seqs[i] ELSE f[i - 1] \o seqs[i]
      BY <2>1 DEF FlattensTo
    <3>3. g[i] = IF i = 1 THEN more[i] ELSE g[i - 1] \o more[i]
      BY <1>2, <3>1 DEF FlattensTo
    <3>4. i # 1 => f[i - 1] = g[i - 1]
      BY <2>3
    <3> QED
      BY <3>1, <3>2, <3>3, <3>4
  <2>4. 0 \in P
    OBVIOUS
  <2> HIDE DEF P
  <2>5. \A i \in 0..n : i \in P
    BY <1>1, <2>3, <2>4, UpTo
  <2>6. f[n] = g[n]
    <3>1. n \in P /\ n # 0
      BY <1>1, <1>5, <2>5
    <3> QED
      BY <3>1 DEF P
  <2>7. g[n + 1] = g[n] \o x
    <3>1. n + 1 \in 1..(n + 1) /\ n + 1 # 1 /\ (n + 1) - 1 = n
      BY <1>1, <1>5
    <3>2. g[n + 1] = g[(n + 1) - 1] \o more[n + 1]
      BY <1>2, <3>1 DEF FlattensTo
    <3> QED
      BY <1>1, <3>1, <3>2
  <2> QED
    BY <1>3, <2>2, <2>6, <2>7 DEF more
<1> QED
  BY <1>4, <1>5
=============================================================================
