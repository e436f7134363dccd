-------------------------- MODULE RegistrationProofs --------------------------
(***************************************************************************)
(* Proofs about Registration, for every word size, every unit and every    *)
(* family of trials:                                                       *)
(*   MatchDenotes            a glob matches exactly what it denotes        *)
(*   TypeCorrect             Spec => []TypeOK                              *)
(*   ShownIsEnforcedCorrect  Spec => []ShownIsEnforced                     *)
(*   EnforcedAsTypedCorrect  Spec => []EnforcedAsTyped                     *)
(* The matchers are recursive functions.  What a pattern denotes, unrolled *)
(* by one element, is a function that obeys the same recursion, and only   *)
(* one function does.                                                      *)
(***************************************************************************)
EXTENDS Registration, FiniteSetTheorems, SequenceTheorems, WellFoundedInduction, TLAPS

-----------------------------------------------------------------------------
(* Cuttings: Aligned, from the i-th element of the pattern and the j-th of  *)
(* what it is to match.  fit has the triples <<x, a, b>> where element x of *)
(* the pattern fits the piece from a to b.                                  *)

From(cut, i, j, x) == IF x = i THEN j - 1 ELSE cut[x - 1]

Fitting(fit, m, n, i, j, cut) ==
  /\ n = IF i > m THEN j - 1 ELSE cut[m]
  /\ \A x \in i..m : /\ From(cut, i, j, x) <= cut[x]
                     /\ <<x, From(cut, i, j, x) + 1, cut[x]>> \in fit

Rests(fit, m, n, i, j) == \E cut \in [i..m -> 0..n] : Fitting(fit, m, n, i, j, cut)

\* A pattern that is used up denotes the end.
LEMMA RestsEnd ==
  ASSUME NEW fit, NEW m \in Nat, NEW n \in Nat, NEW i \in Int, i > m, NEW j \in Int
  PROVE Rests(fit, m, n, i, j) <=> n = j - 1
<1>1. i..m = {}
  OBVIOUS
<1>2. [x \in i..m |-> 0] \in [i..m -> 0..n]
  OBVIOUS
<1>3. \A cut : Fitting(fit, m, n, i, j, cut) <=> n = j - 1
  BY <1>1 DEF Fitting
<1> QED
  BY <1>2, <1>3 DEF Rests

\* The first element takes a piece, and the rest of the pattern denotes the rest.
LEMMA RestsStep ==
  ASSUME NEW fit, NEW m \in Nat, NEW n \in Nat, NEW i \in 1..m, NEW j \in 1..(n + 1)
  PROVE Rests(fit, m, n, i, j) <=>
          \E k \in (j - 1)..n : <<i, j, k>> \in fit /\ Rests(fit, m, n, i + 1, k + 1)
<1>1. ASSUME Rests(fit, m, n, i, j)
      PROVE \E k \in (j - 1)..n : <<i, j, k>> \in fit /\ Rests(fit, m, n, i + 1, k + 1)
  <2>1. PICK cut \in [i..m -> 0..n] : Fitting(fit, m, n, i, j, cut)
    BY <1>1 DEF Rests
  <2>2. PICK k : k = cut[i]
    OBVIOUS
  <2>3. k \in 0..n
    BY <2>2
  <2>4. j - 1 <= k /\ <<i, j, k>> \in fit
    <3>1. From(cut, i, j, i) = j - 1
      BY DEF From
    <3>2. From(cut, i, j, i) <= cut[i] /\ <<i, From(cut, i, j, i) + 1, cut[i]>> \in fit
      BY <2>1 DEF Fitting
    <3>3. (j - 1) + 1 = j
      OBVIOUS
    <3> QED
      BY <3>1, <3>2, <3>3, <2>2
  <2>5. PICK rest : rest = [x \in (i + 1)..m |-> cut[x]]
    OBVIOUS
  <2>6. rest \in [(i + 1)..m -> 0..n]
    BY <2>5
  <2>7. Fitting(fit, m, n, i + 1, k + 1, rest)
    <3>1. n = IF i + 1 > m THEN (k + 1) - 1 ELSE rest[m]
      <4>1. n = cut[m]
        BY <2>1 DEF Fitting
      <4>2. CASE i + 1 > m
        <5>1. i = m
          BY <4>2
        <5> QED
          BY <5>1, <4>1, <4>2, <2>2, <2>3
      <4>3. CASE ~(i + 1 > m)
        <5>1. rest[m] = cut[m]
          BY <4>3, <2>5
        <5> QED
          BY <5>1, <4>1, <4>3
      <4> QED
        BY <4>2, <4>3
    <3>2. ASSUME NEW x \in (i + 1)..m
          PROVE /\ From(rest, i + 1, k + 1, x) <= rest[x]
                /\ <<x, From(rest, i + 1, k + 1, x) + 1, rest[x]>> \in fit
      <4>1. x \in i..m /\ x # i /\ rest[x] = cut[x]
        BY <2>5
      <4>2. From(rest, i + 1, k + 1, x) = From(cut, i, j, x)
        <5>1. CASE x = i + 1
          <6>1. From(rest, i + 1, k + 1, x) = k
            BY <5>1, <2>3 DEF From
          <6>2. x - 1 = i
            BY <5>1
          <6>3. From(cut, i, j, x) = cut[i]
            BY <4>1, <6>2 DEF From
          <6> QED
            BY <6>1, <6>3, <2>2
        <5>2. CASE x # i + 1
          <6>1. x - 1 \in (i + 1)..m
            BY <5>2
          <6>2. rest[x - 1] = cut[x - 1]
            BY <6>1, <2>5
          <6> QED
            BY <5>2, <6>2, <4>1 DEF From
        <5> QED
          BY <5>1, <5>2
      <4>3. /\ From(cut, i, j, x) <= cut[x]
            /\ <<x, From(cut, i, j, x) + 1, cut[x]>> \in fit
        BY <2>1, <4>1 DEF Fitting
      <4> QED
        BY <4>1, <4>2, <4>3
    <3> QED
      BY <3>1, <3>2 DEF Fitting
  <2>8. Rests(fit, m, n, i + 1, k + 1)
    BY <2>6, <2>7 DEF Rests
  <2>9. k \in (j - 1)..n
    BY <2>3, <2>4
  <2> QED
    BY <2>4, <2>8, <2>9
<1>2. ASSUME NEW k \in (j - 1)..n, <<i, j, k>> \in fit, Rests(fit, m, n, i + 1, k + 1)
      PROVE Rests(fit, m, n, i, j)
  <2>1. PICK rest \in [(i + 1)..m -> 0..n] : Fitting(fit, m, n, i + 1, k + 1, rest)
    BY <1>2 DEF Rests
  <2>2. PICK cut : cut = [x \in i..m |-> IF x = i THEN k ELSE rest[x]]
    OBVIOUS
  <2>3. /\ cut \in [i..m -> 0..n]
        /\ cut[i] = k
        /\ \A x \in (i + 1)..m : cut[x] = rest[x]
    BY <2>2
  <2>4. Fitting(fit, m, n, i, j, cut)
    <3>1. n = IF i > m THEN j - 1 ELSE cut[m]
      <4>1. n = IF i + 1 > m THEN (k + 1) - 1 ELSE rest[m]
        BY <2>1 DEF Fitting
      <4>2. CASE i = m
        BY <4>1, <4>2, <2>3
      <4>3. CASE i # m
        <5>1. m \in (i + 1)..m
          BY <4>3
        <5> QED
          BY <4>1, <5>1, <2>3
      <4> QED
        BY <4>2, <4>3
    <3>2. ASSUME NEW x \in i..m
          PROVE /\ From(cut, i, j, x) <= cut[x]
                /\ <<x, From(cut, i, j, x) + 1, cut[x]>> \in fit
      <4>1. CASE x = i
        <5>1. From(cut, i, j, x) = j - 1 /\ cut[x] = k
          BY <4>1, <2>3 DEF From
        <5>2. (j - 1) + 1 = j /\ j - 1 <= k
          OBVIOUS
        <5> QED
          BY <4>1, <5>1, <5>2, <1>2
      <4>2. CASE x # i
        <5>1. x \in (i + 1)..m
          BY <4>2
        <5>2. cut[x] = rest[x]
          BY <5>1, <2>3
        <5>3. From(cut, i, j, x) = From(rest, i + 1, k + 1, x)
          <6>1. CASE x = i + 1
            <7>1. From(rest, i + 1, k + 1, x) = k
              BY <6>1 DEF From
            <7>2. x - 1 = i
              BY <6>1
            <7> QED
              BY <4>2, <7>1, <7>2, <2>3 DEF From
          <6>2. CASE x # i + 1
            <7>1. x - 1 \in (i + 1)..m
              BY <5>1, <6>2
            <7> QED
              BY <4>2, <6>2, <7>1, <2>3 DEF From
          <6> QED
            BY <6>1, <6>2
        <5>4. /\ From(rest, i + 1, k + 1, x) <= rest[x]
              /\ <<x, From(rest, i + 1, k + 1, x) + 1, rest[x]>> \in fit
          BY <2>1, <5>1 DEF Fitting
        <5> QED
          BY <5>2, <5>3, <5>4
      <4> QED
        BY <4>1, <4>2
    <3> QED
      BY <3>1, <3>2 DEF Fitting
  <2> QED
    BY <2>3, <2>4 DEF Rests
<1> QED
  BY <1>1, <1>2

-----------------------------------------------------------------------------

\* A stretch of a sequence is a sequence of the same elements, an empty one too.
LEMMA SubSeqSeq ==
  ASSUME NEW S, NEW s \in Seq(S), NEW a \in Nat \ {0}, NEW b \in Int, b <= Len(s)
  PROVE SubSeq(s, a, b) \in Seq(S)
<1>0. Len(s) \in Nat
  OBVIOUS
<1>1. CASE b < a
  <2>1. SubSeq(s, a, b) = << >>
    BY <1>1, <1>0
  <2> QED
    BY <2>1
<1>2. CASE b >= a
  <2>1. a \in 1..(Len(s) + 1) /\ b \in (a - 1)..Len(s)
    BY <1>2, <1>0
  <2> QED
    BY <2>1, SubSeqProperties
<1> QED
  BY <1>1, <1>2

\* The pieces that the bytes of a pattern fit.
ByteFit(pat, s) ==
  {t \in (1..Len(pat)) \X (1..(Len(s) + 1)) \X (0..Len(s)) :
     ByteFits(pat[t[1]], SubSeq(s, t[2], t[3]))}

LEMMA ByteFitIs ==
  ASSUME NEW pat, NEW s, NEW x \in 1..Len(pat), NEW a \in 1..(Len(s) + 1), NEW b \in 0..Len(s)
  PROVE <<x, a, b>> \in ByteFit(pat, s) <=> ByteFits(pat[x], SubSeq(s, a, b))
BY DEF ByteFit

\* Aligned is Rests from the first element on.
LEMMA AlignedBytes ==
  ASSUME NEW S, NEW pat \in Seq(S), NEW s \in Seq(S)
  PROVE Aligned(pat, s, ByteFits) <=> Rests(ByteFit(pat, s), Len(pat), Len(s), 1, 1)
<1> DEFINE m == Len(pat)
           n == Len(s)
           f(cut, i) == IF i = 1 THEN 0 ELSE cut[i - 1]
<1>0. m \in Nat /\ n \in Nat /\ (pat = << >> <=> 1 > m)
  OBVIOUS
<1>1. ASSUME NEW cut \in [1..m -> 0..n], NEW i \in 1..m
      PROVE (f(cut, i) <= cut[i] /\ ByteFits(pat[i], SubSeq(s, f(cut, i) + 1, cut[i])))
              <=> (/\ From(cut, 1, 1, i) <= cut[i]
                   /\ <<i, From(cut, 1, 1, i) + 1, cut[i]>> \in ByteFit(pat, s))
  <2>1. From(cut, 1, 1, i) = f(cut, i) /\ From(cut, 1, 1, i) + 1 \in 1..(n + 1)
    <3>1. From(cut, 1, 1, i) = f(cut, i)
      BY DEF From
    <3>2. i # 1 => cut[i - 1] \in 0..n
      OBVIOUS
    <3> HIDE DEF m, n
    <3>3. f(cut, i) \in 0..n
      BY <1>0, <3>2
    <3> HIDE DEF f
    <3> QED
      BY <1>0, <3>1, <3>3
  <2>2. PICK from : from = From(cut, 1, 1, i)
    OBVIOUS
  <2>3. <<i, from + 1, cut[i]>> \in ByteFit(pat, s)
          <=> ByteFits(pat[i], SubSeq(s, from + 1, cut[i]))
    BY <2>1, <2>2, ByteFitIs
  <2> QED
    BY <2>1, <2>2, <2>3
<1>2. ASSUME NEW cut \in [1..m -> 0..n]
      PROVE (/\ n = IF pat = << >> THEN 0 ELSE cut[m]
             /\ \A i \in 1..m :
                  f(cut, i) <= cut[i] /\ ByteFits(pat[i], SubSeq(s, f(cut, i) + 1, cut[i])))
              <=> Fitting(ByteFit(pat, s), m, n, 1, 1, cut)
  <2>1. (IF pat = << >> THEN 0 ELSE cut[m]) = IF 1 > m THEN 1 - 1 ELSE cut[m]
    BY <1>0
  <2>2. (\A i \in 1..m : f(cut, i) <= cut[i] /\ ByteFits(pat[i], SubSeq(s, f(cut, i) + 1, cut[i])))
          <=> (\A x \in 1..m : /\ From(cut, 1, 1, x) <= cut[x]
                               /\ <<x, From(cut, 1, 1, x) + 1, cut[x]>> \in ByteFit(pat, s))
    <3> HIDE DEF f
    <3> QED
      BY <1>1
  <2> HIDE DEF f
  <2> QED
    BY <2>1, <2>2 DEF Fitting
<1> QED
  BY <1>2 DEF Aligned, Rests

-----------------------------------------------------------------------------
(* The star and the question mark. *)

\* The body of MatchSegment's recursive function.
StarStep(pat, s, rest, i, j) ==
  IF i > Len(pat) THEN j > Len(s)
  ELSE IF pat[i] = "*" THEN \E k \in j..(Len(s) + 1) : rest[<<i + 1, k>>]
  ELSE j <= Len(s) /\ pat[i] \in {"?", s[j]} /\ rest[<<i + 1, j + 1>>]

IsSegmentRest(pat, s, rest) ==
  rest = [x \in Places(pat, s) |-> StarStep(pat, s, rest, x[1], x[2])]

\* MatchSegment is its recursive function at the first bytes.
LEMMA MatchSegmentIs ==
  ASSUME NEW pat, NEW s
  PROVE MatchSegment(pat, s) = (CHOOSE rest : IsSegmentRest(pat, s, rest))[<<1, 1>>]
BY DEF MatchSegment, IsSegmentRest, StarStep

\* A set of naturals that is not empty has a least element.
LEMMA Least ==
  ASSUME NEW T \in SUBSET Nat, T # {}
  PROVE \E x \in T : \A y \in T : x <= y
<1>1. PICK R : R = {ss \in Nat \X Nat : ss[1] < ss[2]}
  OBVIOUS
<1>2. IsWellFoundedOn(R, Nat)
  BY <1>1, NatLessThanWellFounded, Zenon DEF OpToRel
<1>3. PICK x \in T : \A y \in T : ~(<<y, x>> \in R)
  BY <1>2, WFMin
<1>4. ASSUME NEW y \in T
      PROVE x <= y
  <2>1. x \in Nat /\ y \in Nat
    OBVIOUS
  <2>2. <<y, x>> \in R <=> y < x
    BY <1>1, <2>1
  <2>3. ~(y < x)
    BY <1>3, <2>2
  <2> QED
    BY <2>1, <2>3
<1> QED
  BY <1>4

\* What the rests of a pattern denote, as a function of where they start.
SegmentRests(pat, s) ==
  [x \in Places(pat, s) |-> Rests(ByteFit(pat, s), Len(pat), Len(s), x[1], x[2])]

LEMMA PlacesIs ==
  ASSUME NEW S, NEW pat \in Seq(S), NEW V, NEW s \in Seq(V)
  PROVE /\ Len(pat) \in Nat /\ Len(s) \in Nat
        /\ \A i, j : <<i, j>> \in Places(pat, s)
                       <=> i \in 1..(Len(pat) + 1) /\ j \in 1..(Len(s) + 1)
BY DEF Places

\* A byte that is no star fits one byte.
LEMMA OneByte ==
  ASSUME NEW S, NEW s \in Seq(S), NEW b, b # "*",
         NEW j \in 1..(Len(s) + 1), NEW k \in (j - 1)..Len(s)
  PROVE ByteFits(b, SubSeq(s, j, k)) <=> k = j /\ b \in {"?", s[j]}
<1>1. Len(SubSeq(s, j, k)) = k - j + 1 /\ (k >= j => SubSeq(s, j, k)[1] = s[j])
  BY SubSeqProperties
<1> QED
  BY <1>1 DEF ByteFits

\* What a pattern denotes obeys the recursion of MatchSegment.
LEMMA SegmentStep ==
  ASSUME NEW S, NEW pat \in Seq(S), NEW s \in Seq(S),
         NEW i \in 1..(Len(pat) + 1), NEW j \in 1..(Len(s) + 1)
  PROVE Rests(ByteFit(pat, s), Len(pat), Len(s), i, j)
          <=> StarStep(pat, s, SegmentRests(pat, s), i, j)
<1> DEFINE m == Len(pat)
           n == Len(s)
           fit == ByteFit(pat, s)
           D == SegmentRests(pat, s)
<1>0. m \in Nat /\ n \in Nat /\ i \in 1..(m + 1) /\ j \in 1..(n + 1)
  OBVIOUS
<1>1. ASSUME NEW a \in 1..(m + 1), NEW b \in 1..(n + 1)
      PROVE D[<<a, b>>] = Rests(fit, m, n, a, b)
  <2>1. <<a, b>> \in Places(pat, s)
    BY PlacesIs
  <2> QED
    BY <2>1 DEF SegmentRests
<1>2. CASE i > m
  <2>1. Rests(fit, m, n, i, j) <=> n = j - 1
    <3> HIDE DEF m, n, fit
    <3> QED
      BY <1>0, <1>2, RestsEnd
  <2> QED
    BY <2>1, <1>2, <1>0 DEF StarStep
<1>3. CASE i <= m
  <2>0. i \in 1..m /\ i + 1 \in 1..(m + 1)
    BY <1>0, <1>3
  <2>1. Rests(fit, m, n, i, j)
          <=> \E k \in (j - 1)..n : <<i, j, k>> \in fit /\ Rests(fit, m, n, i + 1, k + 1)
    <3> HIDE DEF m, n, fit
    <3> QED
      BY <1>0, <2>0, RestsStep
  <2>2. ASSUME NEW k \in (j - 1)..n
        PROVE <<i, j, k>> \in fit <=> ByteFits(pat[i], SubSeq(s, j, k))
    BY <1>0, <2>0, ByteFitIs
  <2>3. CASE pat[i] = "*"
    <3>1. \A k \in (j - 1)..n : <<i, j, k>> \in fit
      BY <2>2, <2>3 DEF ByteFits
    <3>2. Rests(fit, m, n, i, j) <=> \E k \in (j - 1)..n : Rests(fit, m, n, i + 1, k + 1)
      BY <2>1, <3>1
    <3>3. (\E k \in (j - 1)..n : Rests(fit, m, n, i + 1, k + 1))
            <=> \E k \in j..(n + 1) : Rests(fit, m, n, i + 1, k)
      <4> HIDE DEF m, n, fit
      <4>1. ASSUME NEW k \in (j - 1)..n
            PROVE k + 1 \in j..(n + 1)
        BY <1>0
      <4>2. ASSUME NEW k \in j..(n + 1)
            PROVE k - 1 \in (j - 1)..n /\ (k - 1) + 1 = k
        BY <1>0
      <4> QED
        BY <4>1, <4>2
    <3>4. ASSUME NEW k \in j..(n + 1)
          PROVE D[<<i + 1, k>>] = Rests(fit, m, n, i + 1, k)
      <4> HIDE DEF D, m, n, fit
      <4>1. k \in 1..(n + 1)
        BY <1>0
      <4> QED
        BY <1>1, <2>0, <4>1
    <3>5. StarStep(pat, s, D, i, j) <=> \E k \in j..(n + 1) : D[<<i + 1, k>>]
      BY <1>0, <2>0, <2>3 DEF StarStep
    <3>6. Rests(fit, m, n, i, j) <=> StarStep(pat, s, D, i, j)
      <4> HIDE DEF D, m, n, fit
      <4> QED
        BY <3>2, <3>3, <3>4, <3>5
    <3> QED
      BY <3>6
  <2>4. CASE pat[i] # "*"
    <3>1. \A k \in (j - 1)..n : <<i, j, k>> \in fit <=> k = j /\ pat[i] \in {"?", s[j]}
      BY <2>2, <2>4, OneByte
    <3>2. (\E k \in (j - 1)..n : <<i, j, k>> \in fit /\ Rests(fit, m, n, i + 1, k + 1))
            <=> j <= n /\ pat[i] \in {"?", s[j]} /\ Rests(fit, m, n, i + 1, j + 1)
      <4> HIDE DEF m, n, fit
      <4>1. j <= n <=> j \in (j - 1)..n
        BY <1>0
      <4>2. (\E k \in (j - 1)..n : <<i, j, k>> \in fit /\ Rests(fit, m, n, i + 1, k + 1))
              <=> (\E k \in (j - 1)..n :
                     k = j /\ pat[i] \in {"?", s[j]} /\ Rests(fit, m, n, i + 1, k + 1))
        BY <3>1
      <4> QED
        BY <4>1, <4>2
    <3>3. j <= n => D[<<i + 1, j + 1>>] = Rests(fit, m, n, i + 1, j + 1)
      <4> HIDE DEF D, m, n, fit
      <4>1. j <= n => j + 1 \in 1..(n + 1)
        BY <1>0
      <4> QED
        BY <1>1, <2>0, <4>1
    <3>4. StarStep(pat, s, D, i, j)
            <=> j <= n /\ pat[i] \in {"?", s[j]} /\ D[<<i + 1, j + 1>>]
      BY <1>0, <2>0, <2>4 DEF StarStep
    <3>6. Rests(fit, m, n, i, j) <=> StarStep(pat, s, D, i, j)
      <4> HIDE DEF D, m, n, fit
      <4> QED
        BY <2>1, <3>2, <3>3, <3>4
    <3> QED
      BY <3>6
  <2> QED
    BY <2>3, <2>4
<1> QED
  BY <1>0, <1>2, <1>3

\* How far a place is from the ends, a measure that the recursions decrease.
LEMMA Nearer ==
  ASSUME NEW m \in Nat, NEW n \in Nat, NEW i \in 1..(m + 1), NEW j \in 1..(n + 1),
         NEW a \in i..(m + 1), NEW b \in j..(n + 1), a + b > i + j
  PROVE /\ (m + 1 - a) + (n + 1 - b) \in Nat
        /\ (m + 1 - a) + (n + 1 - b) < (m + 1 - i) + (n + 1 - j)
OBVIOUS

\* Two functions of places that agree wherever they agree on all later ones.
Agree(pat, s, g, h) ==
  /\ g = [x \in Places(pat, s) |-> g[x]]
  /\ h = [x \in Places(pat, s) |-> h[x]]
  /\ \A i \in 1..(Len(pat) + 1), j \in 1..(Len(s) + 1) :
       (\A a \in i..(Len(pat) + 1), b \in j..(Len(s) + 1) :
          a + b > i + j => g[<<a, b>>] = h[<<a, b>>])
         => g[<<i, j>>] = h[<<i, j>>]

\* They are equal: of the places where they differ none could be nearest to the ends.
LEMMA SameRests ==
  ASSUME NEW S, NEW pat \in Seq(S), NEW V, NEW s \in Seq(V), NEW g, NEW h,
         Agree(pat, s, g, h)
  PROVE g = h
<1> DEFINE m == Len(pat)
           n == Len(s)
           Bad(i, j) == i \in 1..(m + 1) /\ j \in 1..(n + 1) /\ g[<<i, j>>] # h[<<i, j>>]
           T == {d \in Nat : \E i \in 1..(m + 1), j \in 1..(n + 1) :
                               Bad(i, j) /\ d = (m + 1 - i) + (n + 1 - j)}
<1>0. m \in Nat /\ n \in Nat
  OBVIOUS
<1>1. T = {}
  <2> SUFFICES ASSUME T # {}
               PROVE FALSE
    OBVIOUS
  <2>1. PICK d \in T : \A e \in T : d <= e
    <3> HIDE DEF Bad
    <3>1. T \in SUBSET Nat
      OBVIOUS
    <3> HIDE DEF T
    <3> QED
      BY <3>1, Least
  <2>2. PICK i \in 1..(m + 1), j \in 1..(n + 1) : Bad(i, j) /\ d = (m + 1 - i) + (n + 1 - j)
    BY <2>1
  <2>3. ASSUME NEW a \in i..(m + 1), NEW b \in j..(n + 1), a + b > i + j
        PROVE g[<<a, b>>] = h[<<a, b>>]
    <3> SUFFICES ASSUME g[<<a, b>>] # h[<<a, b>>]
                 PROVE FALSE
      OBVIOUS
    <3>1. a \in 1..(m + 1) /\ b \in 1..(n + 1)
      BY <1>0
    <3>2. Bad(a, b)
      BY <3>1
    <3>3. PICK e : e = (m + 1 - a) + (n + 1 - b)
      OBVIOUS
    <3>4. e \in Nat /\ e < d
      <4> HIDE DEF m, n, T
      <4> QED
        BY <1>0, <2>2, <2>3, <3>3, Nearer
    <3>5. e \in T
      <4> HIDE DEF Bad, m, n
      <4> QED
        BY <3>1, <3>2, <3>3, <3>4
    <3>6. d \in Nat
      OBVIOUS
    <3> HIDE DEF T
    <3> QED
      BY <2>1, <3>4, <3>5, <3>6
  <2>4. g[<<i, j>>] = h[<<i, j>>]
    BY <2>3 DEF Agree
  <2> QED
    BY <2>2, <2>4
<1>2. ASSUME NEW x \in Places(pat, s)
      PROVE g[x] = h[x]
  <2>1. PICK i \in 1..(m + 1), j \in 1..(n + 1) : x = <<i, j>>
    BY DEF Places
  <2>2. PICK d \in Nat : d = (m + 1 - i) + (n + 1 - j)
    <3> HIDE DEF m, n, T, Bad
    <3>1. (m + 1 - i) + (n + 1 - j) \in Nat
      BY <1>0
    <3> QED
      BY <3>1
  <2>3. Bad(i, j) => d \in T
    <3> HIDE DEF Bad, m, n
    <3> QED
      BY <2>2
  <2>4. ~Bad(i, j)
    BY <1>1, <2>3
  <2> QED
    BY <2>1, <2>4
<1> QED
  BY <1>2 DEF Agree

\* So the recursion of MatchSegment has a solution,
LEMMA SegmentRestsSolve ==
  ASSUME NEW S, NEW pat \in Seq(S), NEW s \in Seq(S)
  PROVE IsSegmentRest(pat, s, SegmentRests(pat, s))
<1> DEFINE D == SegmentRests(pat, s)
<1>1. ASSUME NEW x \in Places(pat, s)
      PROVE D[x] = StarStep(pat, s, D, x[1], x[2])
  <2>1. x[1] \in 1..(Len(pat) + 1) /\ x[2] \in 1..(Len(s) + 1)
    BY <1>1 DEF Places
  <2>2. D[x] = Rests(ByteFit(pat, s), Len(pat), Len(s), x[1], x[2])
    BY <1>1 DEF SegmentRests
  <2>3. D[x] <=> StarStep(pat, s, D, x[1], x[2])
    BY <2>1, <2>2, SegmentStep
  <2>4. D[x] \in BOOLEAN
    BY <2>2 DEF Rests
  <2>5. StarStep(pat, s, D, x[1], x[2]) \in BOOLEAN
    <3>1. CASE x[1] > Len(pat)
      <4>1. StarStep(pat, s, D, x[1], x[2]) <=> x[2] > Len(s)
        BY <3>1 DEF StarStep
      <4>2. StarStep(pat, s, D, x[1], x[2]) = (x[2] > Len(s))
        BY <3>1 DEF StarStep
      <4>3. PICK b \in Int, c \in Int : b = x[2] /\ c = Len(s)
        BY <2>1, PlacesIs
      <4>4. (b > c) \in BOOLEAN
        OBVIOUS
      <4> QED
        BY <4>2, <4>3, <4>4
    <3>2. CASE ~(x[1] > Len(pat)) /\ pat[x[1]] = "*"
      BY <3>2 DEF StarStep
    <3>3. CASE ~(x[1] > Len(pat)) /\ pat[x[1]] # "*"
      BY <3>3 DEF StarStep
    <3> QED
      BY <3>1, <3>2, <3>3
  <2> QED
    BY <2>3, <2>4, <2>5
<1>2. D = [x \in Places(pat, s) |-> D[x]]
  BY DEF SegmentRests
<1> HIDE DEF D
<1>3. IsSegmentRest(pat, s, D)
  BY <1>1, <1>2 DEF IsSegmentRest
<1> QED
  BY <1>3 DEF D

\* and only one.
LEMMA SegmentRestUnique ==
  ASSUME NEW S, NEW pat \in Seq(S), NEW s \in Seq(S),
         NEW g, IsSegmentRest(pat, s, g), NEW h, IsSegmentRest(pat, s, h)
  PROVE g = h
<1> DEFINE m == Len(pat)
           n == Len(s)
<1>0. m \in Nat /\ n \in Nat
  OBVIOUS
<1>1. g = [x \in Places(pat, s) |-> g[x]] /\ h = [x \in Places(pat, s) |-> h[x]]
  BY DEF IsSegmentRest
<1>2. ASSUME NEW i \in 1..(m + 1), NEW j \in 1..(n + 1),
             \A a \in i..(m + 1), b \in j..(n + 1) :
               a + b > i + j => g[<<a, b>>] = h[<<a, b>>]
      PROVE g[<<i, j>>] = h[<<i, j>>]
  <2>1. <<i, j>> \in Places(pat, s)
    BY PlacesIs
  <2>2. /\ g[<<i, j>>] = StarStep(pat, s, g, i, j)
        /\ h[<<i, j>>] = StarStep(pat, s, h, i, j)
    BY <2>1 DEF IsSegmentRest
  <2>3. i <= m => \A k \in j..(n + 1) : g[<<i + 1, k>>] = h[<<i + 1, k>>]
    BY <1>0, <1>2
  <2>4. i <= m /\ j <= n => g[<<i + 1, j + 1>>] = h[<<i + 1, j + 1>>]
    BY <1>0, <1>2
  <2>5. StarStep(pat, s, g, i, j) = StarStep(pat, s, h, i, j)
    <3>1. CASE i > m
      BY <3>1 DEF StarStep
    <3>2. CASE i <= m /\ pat[i] = "*"
      BY <1>0, <2>3, <3>2 DEF StarStep
    <3>3. CASE i <= m /\ pat[i] # "*"
      BY <1>0, <2>4, <3>3 DEF StarStep
    <3> QED
      BY <1>0, <3>1, <3>2, <3>3
  <2> QED
    BY <2>2, <2>5
<1>3. Agree(pat, s, g, h)
  BY <1>1, <1>2 DEF Agree
<1> QED
  BY <1>3, SameRests

\* matchSegment is right about `*` and `?` within a segment.
LEMMA MatchSegmentDenotes ==
  ASSUME NEW S, NEW pat \in Seq(S), NEW s \in Seq(S)
  PROVE MatchSegment(pat, s) <=> Aligned(pat, s, ByteFits)
<1>1. (CHOOSE rest : IsSegmentRest(pat, s, rest)) = SegmentRests(pat, s)
  BY SegmentRestsSolve, SegmentRestUnique
<1>2. <<1, 1>> \in Places(pat, s)
  BY PlacesIs
<1>3. MatchSegment(pat, s) = Rests(ByteFit(pat, s), Len(pat), Len(s), 1, 1)
  BY <1>1, <1>2, MatchSegmentIs DEF SegmentRests
<1> QED
  BY <1>3, AlignedBytes

-----------------------------------------------------------------------------
(* The double star. *)

\* The pieces that the segments of a pattern fit.
SegmentFit(pat, name) ==
  {t \in (1..Len(pat)) \X (1..(Len(name) + 1)) \X (0..Len(name)) :
     SegmentFits(pat[t[1]], SubSeq(name, t[2], t[3]))}

LEMMA SegmentFitIs ==
  ASSUME NEW pat, NEW s, NEW x \in 1..Len(pat), NEW a \in 1..(Len(s) + 1), NEW b \in 0..Len(s)
  PROVE <<x, a, b>> \in SegmentFit(pat, s) <=> SegmentFits(pat[x], SubSeq(s, a, b))
BY DEF SegmentFit

\* As AlignedBytes.
LEMMA AlignedSegments ==
  ASSUME NEW S, NEW pat \in Seq(S), NEW V, NEW s \in Seq(V)
  PROVE Aligned(pat, s, SegmentFits) <=> Rests(SegmentFit(pat, s), Len(pat), Len(s), 1, 1)
<1> DEFINE m == Len(pat)
           n == Len(s)
           f(cut, i) == IF i = 1 THEN 0 ELSE cut[i - 1]
<1>0. m \in Nat /\ n \in Nat /\ (pat = << >> <=> 1 > m)
  OBVIOUS
<1>1. ASSUME NEW cut \in [1..m -> 0..n], NEW i \in 1..m
      PROVE (f(cut, i) <= cut[i] /\ SegmentFits(pat[i], SubSeq(s, f(cut, i) + 1, cut[i])))
              <=> (/\ From(cut, 1, 1, i) <= cut[i]
                   /\ <<i, From(cut, 1, 1, i) + 1, cut[i]>> \in SegmentFit(pat, s))
  <2>1. From(cut, 1, 1, i) = f(cut, i) /\ From(cut, 1, 1, i) + 1 \in 1..(n + 1)
    <3>1. From(cut, 1, 1, i) = f(cut, i)
      BY DEF From
    <3>2. i # 1 => cut[i - 1] \in 0..n
      OBVIOUS
    <3> HIDE DEF m, n
    <3>3. f(cut, i) \in 0..n
      BY <1>0, <3>2
    <3> HIDE DEF f
    <3> QED
      BY <1>0, <3>1, <3>3
  <2>2. PICK from : from = From(cut, 1, 1, i)
    OBVIOUS
  <2>3. <<i, from + 1, cut[i]>> \in SegmentFit(pat, s)
          <=> SegmentFits(pat[i], SubSeq(s, from + 1, cut[i]))
    BY <2>1, <2>2, SegmentFitIs
  <2> QED
    BY <2>1, <2>2, <2>3
<1>2. ASSUME NEW cut \in [1..m -> 0..n]
      PROVE (/\ n = IF pat = << >> THEN 0 ELSE cut[m]
             /\ \A i \in 1..m :
                  f(cut, i) <= cut[i] /\ SegmentFits(pat[i], SubSeq(s, f(cut, i) + 1, cut[i])))
              <=> Fitting(SegmentFit(pat, s), m, n, 1, 1, cut)
  <2>1. (IF pat = << >> THEN 0 ELSE cut[m]) = IF 1 > m THEN 1 - 1 ELSE cut[m]
    BY <1>0
  <2>2. (\A i \in 1..m : f(cut, i) <= cut[i] /\ SegmentFits(pat[i], SubSeq(s, f(cut, i) + 1, cut[i])))
          <=> (\A x \in 1..m : /\ From(cut, 1, 1, x) <= cut[x]
                               /\ <<x, From(cut, 1, 1, x) + 1, cut[x]>> \in SegmentFit(pat, s))
    <3> HIDE DEF f
    <3> QED
      BY <1>1
  <2> HIDE DEF f
  <2> QED
    BY <2>1, <2>2 DEF Fitting
<1> QED
  BY <1>2 DEF Aligned, Rests

\* The body of MatchSegments' recursive function.
DoubleStarStep(pat, name, rest, i, j) ==
  IF i > Len(pat) THEN j > Len(name)
  ELSE IF pat[i] = <<"*", "*">> THEN
    rest[<<i + 1, j>>] \/ (j <= Len(name) /\ rest[<<i, j + 1>>])
  ELSE j <= Len(name) /\ MatchSegment(pat[i], name[j]) /\ rest[<<i + 1, j + 1>>]

IsNameRest(pat, name, rest) ==
  rest = [x \in Places(pat, name) |-> DoubleStarStep(pat, name, rest, x[1], x[2])]

LEMMA MatchSegmentsIs ==
  ASSUME NEW pat, NEW name
  PROVE MatchSegments(pat, name) = (CHOOSE rest : IsNameRest(pat, name, rest))[<<1, 1>>]
BY DEF MatchSegments, IsNameRest, DoubleStarStep

NameRests(pat, s) ==
  [x \in Places(pat, s) |-> Rests(SegmentFit(pat, s), Len(pat), Len(s), x[1], x[2])]

\* A segment that is no double star fits one segment, which matchSegment matches.
LEMMA OneSegment ==
  ASSUME NEW S, NEW s \in Seq(Seq(S)), NEW p \in Seq(S), p # <<"*", "*">>,
         NEW j \in 1..(Len(s) + 1), NEW k \in (j - 1)..Len(s)
  PROVE SegmentFits(p, SubSeq(s, j, k)) <=> k = j /\ MatchSegment(p, s[j])
<1>1. Len(SubSeq(s, j, k)) = k - j + 1 /\ (k >= j => SubSeq(s, j, k)[1] = s[j])
  BY SubSeqProperties
<1>2. CASE k = j
  <2>1. s[j] \in Seq(S)
    BY <1>2
  <2>2. MatchSegment(p, s[j]) <=> Aligned(p, s[j], ByteFits)
    BY <2>1, MatchSegmentDenotes
  <2>3. Len(SubSeq(s, j, k)) = 1 /\ SubSeq(s, j, k)[1] = s[j]
    BY <1>1, <1>2
  <2> QED
    BY <1>2, <2>2, <2>3 DEF SegmentFits
<1>3. CASE k # j
  <2>1. Len(SubSeq(s, j, k)) # 1
    BY <1>1, <1>3
  <2> QED
    BY <1>3, <2>1 DEF SegmentFits
<1> QED
  BY <1>2, <1>3

\* What a pattern denotes obeys the recursion of MatchSegments.
LEMMA NameStep ==
  ASSUME NEW S, NEW pat \in Seq(Seq(S)), NEW s \in Seq(Seq(S)),
         NEW i \in 1..(Len(pat) + 1), NEW j \in 1..(Len(s) + 1)
  PROVE Rests(SegmentFit(pat, s), Len(pat), Len(s), i, j)
          <=> DoubleStarStep(pat, s, NameRests(pat, s), i, j)
<1> DEFINE m == Len(pat)
           n == Len(s)
           fit == SegmentFit(pat, s)
           D == NameRests(pat, s)
<1>0. m \in Nat /\ n \in Nat /\ i \in 1..(m + 1) /\ j \in 1..(n + 1)
  OBVIOUS
<1>1. ASSUME NEW a \in 1..(m + 1), NEW b \in 1..(n + 1)
      PROVE D[<<a, b>>] = Rests(fit, m, n, a, b)
  <2>1. <<a, b>> \in Places(pat, s)
    BY PlacesIs
  <2> QED
    BY <2>1 DEF NameRests
<1>2. CASE i > m
  <2>1. Rests(fit, m, n, i, j) <=> n = j - 1
    <3> HIDE DEF m, n, fit
    <3> QED
      BY <1>0, <1>2, RestsEnd
  <2> QED
    BY <2>1, <1>2, <1>0 DEF DoubleStarStep
<1>3. CASE i <= m
  <2>0. i \in 1..m /\ i + 1 \in 1..(m + 1)
    BY <1>0, <1>3
  <2>1. ASSUME NEW b \in 1..(n + 1)
        PROVE Rests(fit, m, n, i, b)
          <=> \E k \in (b - 1)..n : <<i, b, k>> \in fit /\ Rests(fit, m, n, i + 1, k + 1)
    <3> HIDE DEF m, n, fit
    <3> QED
      BY <1>0, <2>0, RestsStep
  <2>2. ASSUME NEW b \in 1..(n + 1), NEW k \in (b - 1)..n
        PROVE <<i, b, k>> \in fit <=> SegmentFits(pat[i], SubSeq(s, b, k))
    BY <1>0, <2>0, SegmentFitIs
  <2>3. CASE pat[i] = <<"*", "*">>
    <3>1. \A b \in 1..(n + 1) : \A k \in (b - 1)..n : <<i, b, k>> \in fit
      BY <2>2, <2>3 DEF SegmentFits
    <3>2. \A b \in 1..(n + 1) :
            Rests(fit, m, n, i, b) <=> \E k \in (b - 1)..n : Rests(fit, m, n, i + 1, k + 1)
      BY <2>1, <3>1
    <3>3. Rests(fit, m, n, i, j)
            <=> (Rests(fit, m, n, i + 1, j) \/ (j <= n /\ Rests(fit, m, n, i, j + 1)))
      <4> HIDE DEF m, n, fit
      <4>1. Rests(fit, m, n, i, j) <=> \E k \in (j - 1)..n : Rests(fit, m, n, i + 1, k + 1)
        BY <1>0, <3>2
      <4>2. j <= n => (Rests(fit, m, n, i, j + 1)
                        <=> \E k \in j..n : Rests(fit, m, n, i + 1, k + 1))
        <5>1. j <= n => j + 1 \in 1..(n + 1) /\ (j + 1) - 1 = j
          BY <1>0
        <5> QED
          BY <3>2, <5>1
      <4>3. ASSUME NEW k \in (j - 1)..n
            PROVE (k = j - 1 /\ k + 1 = j) \/ (j <= n /\ k \in j..n)
        BY <1>0
      <4>4. j - 1 \in (j - 1)..n /\ (j - 1) + 1 = j
        BY <1>0
      <4>5. \A k \in j..n : k \in (j - 1)..n
        BY <1>0
      <4> QED
        BY <4>1, <4>2, <4>3, <4>4, <4>5
    <3>4. D[<<i + 1, j>>] = Rests(fit, m, n, i + 1, j)
      BY <1>0, <1>1, <2>0
    <3>5. j <= n => D[<<i, j + 1>>] = Rests(fit, m, n, i, j + 1)
      <4> HIDE DEF D, m, n, fit
      <4>1. j <= n => j + 1 \in 1..(n + 1)
        BY <1>0
      <4> QED
        BY <1>0, <1>1, <4>1
    <3>6. DoubleStarStep(pat, s, D, i, j)
            <=> D[<<i + 1, j>>] \/ (j <= n /\ D[<<i, j + 1>>])
      BY <1>0, <2>0, <2>3 DEF DoubleStarStep
    <3>7. Rests(fit, m, n, i, j) <=> DoubleStarStep(pat, s, D, i, j)
      <4> HIDE DEF D, m, n, fit
      <4>1. DoubleStarStep(pat, s, D, i, j)
              <=> Rests(fit, m, n, i + 1, j) \/ (j <= n /\ Rests(fit, m, n, i, j + 1))
        BY <3>4, <3>5, <3>6
      <4> QED
        BY <3>3, <4>1
    <3> QED
      BY <3>7
  <2>4. CASE pat[i] # <<"*", "*">>
    <3>0. pat[i] \in Seq(S)
      BY <2>0
    <3>1. ASSUME NEW k \in (j - 1)..n
          PROVE <<i, j, k>> \in fit <=> k = j /\ MatchSegment(pat[i], s[j])
      <4>1. SegmentFits(pat[i], SubSeq(s, j, k)) <=> k = j /\ MatchSegment(pat[i], s[j])
        BY <2>4, <3>0, OneSegment
      <4>2. <<i, j, k>> \in fit <=> SegmentFits(pat[i], SubSeq(s, j, k))
        <5> HIDE DEF m, n, fit
        <5> QED
          BY <1>0, <2>2
      <4> QED
        BY <4>1, <4>2
    <3>2. (\E k \in (j - 1)..n : <<i, j, k>> \in fit /\ Rests(fit, m, n, i + 1, k + 1))
            <=> j <= n /\ MatchSegment(pat[i], s[j]) /\ Rests(fit, m, n, i + 1, j + 1)
      <4> HIDE DEF m, n, fit
      <4>1. j <= n <=> j \in (j - 1)..n
        BY <1>0
      <4>2. (\E k \in (j - 1)..n : <<i, j, k>> \in fit /\ Rests(fit, m, n, i + 1, k + 1))
              <=> (\E k \in (j - 1)..n :
                     k = j /\ MatchSegment(pat[i], s[j]) /\ Rests(fit, m, n, i + 1, k + 1))
        BY <3>1
      <4> QED
        BY <4>1, <4>2
    <3>3. ASSUME j <= n
          PROVE D[<<i + 1, j + 1>>] = Rests(fit, m, n, i + 1, j + 1)
      <4>1. PICK b \in 1..(n + 1) : b = j + 1
        <5> HIDE DEF D, m, n, fit
        <5> QED
          BY <1>0, <3>3
      <4>2. D[<<i + 1, b>>] = Rests(fit, m, n, i + 1, b)
        BY <1>1, <2>0
      <4> HIDE DEF D, m, n, fit
      <4> QED
        BY <4>1, <4>2
    <3>4. DoubleStarStep(pat, s, D, i, j)
            <=> j <= n /\ MatchSegment(pat[i], s[j]) /\ D[<<i + 1, j + 1>>]
      <4>1. ~(i > Len(pat))
        BY <1>0, <2>0
      <4>2. ASSUME NEW rest
            PROVE DoubleStarStep(pat, s, rest, i, j)
                    <=> j <= Len(s) /\ MatchSegment(pat[i], s[j]) /\ rest[<<i + 1, j + 1>>]
        BY <2>4, <4>1, Zenon DEF DoubleStarStep
      <4> QED
        BY <4>2
    <3>5. Rests(fit, m, n, i, j) <=> DoubleStarStep(pat, s, D, i, j)
      <4> HIDE DEF D, m, n, fit
      <4> QED
        BY <1>0, <2>1, <3>2, <3>3, <3>4
    <3> QED
      BY <3>5
  <2> QED
    BY <2>3, <2>4
<1> QED
  BY <1>0, <1>2, <1>3

\* The recursion of MatchSegments has a solution,
LEMMA NameRestsSolve ==
  ASSUME NEW S, NEW pat \in Seq(Seq(S)), NEW s \in Seq(Seq(S))
  PROVE IsNameRest(pat, s, NameRests(pat, s))
<1> DEFINE D == NameRests(pat, s)
<1>1. ASSUME NEW x \in Places(pat, s)
      PROVE D[x] = DoubleStarStep(pat, s, D, x[1], x[2])
  <2>1. x[1] \in 1..(Len(pat) + 1) /\ x[2] \in 1..(Len(s) + 1)
    BY <1>1 DEF Places
  <2>2. D[x] = Rests(SegmentFit(pat, s), Len(pat), Len(s), x[1], x[2])
    BY <1>1 DEF NameRests
  <2>3. D[x] <=> DoubleStarStep(pat, s, D, x[1], x[2])
    BY <2>1, <2>2, NameStep
  <2>4. D[x] \in BOOLEAN
    BY <2>2 DEF Rests
  <2>5. DoubleStarStep(pat, s, D, x[1], x[2]) \in BOOLEAN
    <3>1. CASE x[1] > Len(pat)
      <4>1. DoubleStarStep(pat, s, D, x[1], x[2]) = (x[2] > Len(s))
        BY <3>1 DEF DoubleStarStep
      <4>2. PICK b \in Int, c \in Int : b = x[2] /\ c = Len(s)
        BY <2>1, PlacesIs
      <4>3. (b > c) \in BOOLEAN
        OBVIOUS
      <4> QED
        BY <4>1, <4>2, <4>3
    <3>2. CASE ~(x[1] > Len(pat)) /\ pat[x[1]] = <<"*", "*">>
      BY <3>2 DEF DoubleStarStep
    <3>3. CASE ~(x[1] > Len(pat)) /\ pat[x[1]] # <<"*", "*">>
      BY <3>3 DEF DoubleStarStep
    <3> QED
      BY <3>1, <3>2, <3>3
  <2> QED
    BY <2>3, <2>4, <2>5
<1>2. D = [x \in Places(pat, s) |-> D[x]]
  BY DEF NameRests
<1> HIDE DEF D
<1>3. IsNameRest(pat, s, D)
  BY <1>1, <1>2 DEF IsNameRest
<1> QED
  BY <1>3 DEF D

\* and only one.
LEMMA NameRestUnique ==
  ASSUME NEW S, NEW pat \in Seq(Seq(S)), NEW s \in Seq(Seq(S)),
         NEW g, IsNameRest(pat, s, g), NEW h, IsNameRest(pat, s, h)
  PROVE g = h
<1> DEFINE m == Len(pat)
           n == Len(s)
<1>0. m \in Nat /\ n \in Nat
  OBVIOUS
<1>1. g = [x \in Places(pat, s) |-> g[x]] /\ h = [x \in Places(pat, s) |-> h[x]]
  BY DEF IsNameRest
<1>2. ASSUME NEW i \in 1..(m + 1), NEW j \in 1..(n + 1),
             \A a \in i..(m + 1), b \in j..(n + 1) :
               a + b > i + j => g[<<a, b>>] = h[<<a, b>>]
      PROVE g[<<i, j>>] = h[<<i, j>>]
  <2>1. <<i, j>> \in Places(pat, s)
    BY PlacesIs
  <2>2. /\ g[<<i, j>>] = DoubleStarStep(pat, s, g, i, j)
        /\ h[<<i, j>>] = DoubleStarStep(pat, s, h, i, j)
    BY <2>1 DEF IsNameRest
  <2>0. /\ i \in i..(m + 1) /\ (i <= m => i + 1 \in i..(m + 1))
        /\ j \in j..(n + 1) /\ (j <= n => j + 1 \in j..(n + 1))
        /\ i + 1 + j > i + j /\ i + (j + 1) > i + j /\ i + 1 + (j + 1) > i + j
    <3> HIDE DEF m, n
    <3> QED
      BY <1>0
  <2>3. i <= m => g[<<i + 1, j>>] = h[<<i + 1, j>>]
    BY <1>2, <2>0
  <2>4. i <= m /\ j <= n => g[<<i + 1, j + 1>>] = h[<<i + 1, j + 1>>]
    BY <1>2, <2>0
  <2>5. i <= m /\ j <= n => g[<<i, j + 1>>] = h[<<i, j + 1>>]
    BY <1>2, <2>0
  <2>6. DoubleStarStep(pat, s, g, i, j) = DoubleStarStep(pat, s, h, i, j)
    <3>1. CASE i > m
      BY <3>1 DEF DoubleStarStep
    <3>2. CASE i <= m /\ pat[i] = <<"*", "*">>
      BY <1>0, <2>3, <2>5, <3>2 DEF DoubleStarStep
    <3>3. CASE i <= m /\ pat[i] # <<"*", "*">>
      BY <1>0, <2>4, <3>3 DEF DoubleStarStep
    <3> QED
      BY <1>0, <3>1, <3>2, <3>3
  <2> QED
    BY <2>2, <2>6
<1>3. Agree(pat, s, g, h)
  BY <1>1, <1>2 DEF Agree
<1> QED
  BY <1>3, SameRests

\* matchSegments is right about `**` between segments.
LEMMA MatchSegmentsDenotes ==
  ASSUME NEW S, NEW pat \in Seq(Seq(S)), NEW s \in Seq(Seq(S))
  PROVE MatchSegments(pat, s) <=> Aligned(pat, s, SegmentFits)
<1>1. (CHOOSE rest : IsNameRest(pat, s, rest)) = NameRests(pat, s)
  BY NameRestsSolve, NameRestUnique
<1>2. <<1, 1>> \in Places(pat, s)
  BY PlacesIs
<1>3. MatchSegments(pat, s) = Rests(SegmentFit(pat, s), Len(pat), Len(s), 1, 1)
  BY <1>1, <1>2, MatchSegmentsIs DEF NameRests
<1> QED
  BY <1>3, AlignedSegments

\* strings.Split makes a sequence of byte sequences.
LEMMA SplitType ==
  ASSUME NEW S, NEW s \in Seq(S)
  PROVE Split(s) \in Seq(Seq(S))
<1> DEFINE n == Len(s)
           Slashes(i) == Cardinality({j \in 1..i : s[j] = "/"})
           Before(k) == {i \in 0..n : Slashes(i) < k}
           At(k) == Cardinality(Before(k))
<1>0. n \in Nat
  OBVIOUS
<1>1. Slashes(n) \in Nat
  <2>1. IsFiniteSet(1..n)
    BY <1>0, FS_Interval
  <2>2. {j \in 1..n : s[j] = "/"} \subseteq 1..n
    OBVIOUS
  <2> QED
    BY <2>1, <2>2, FS_Subset, FS_CardinalityType
<1>2. ASSUME NEW k \in Int
      PROVE At(k) \in Nat /\ At(k) <= n + 1
  <2>1. IsFiniteSet(0..n) /\ Cardinality(0..n) = n + 1
    BY <1>0, FS_Interval
  <2>2. Before(k) \subseteq 0..n
    OBVIOUS
  <2> QED
    BY <2>1, <2>2, FS_Subset, FS_CardinalityType
<1>3. ASSUME NEW k \in 1..(Slashes(n) + 1)
      PROVE SubSeq(s, At(k - 1) + 1, At(k) - 1) \in Seq(S)
  <2>1. At(k - 1) + 1 \in Nat \ {0} /\ At(k) - 1 \in Int /\ At(k) - 1 <= n
    <3>1. k \in Int /\ k - 1 \in Int
      <4> HIDE DEF Slashes
      <4> QED
        BY <1>1
    <3> HIDE DEF At, n, Slashes
    <3>2. At(k) \in Nat /\ At(k) <= n + 1 /\ At(k - 1) \in Nat
      BY <1>2, <3>1
    <3> QED
      BY <1>0, <3>2
  <2> HIDE DEF At
  <2> QED
    BY <2>1, SubSeqSeq
<1>4. Split(s) = [k \in 1..(Slashes(n) + 1) |-> SubSeq(s, At(k - 1) + 1, At(k) - 1)]
  BY DEF Split
<1>5. PICK N \in Nat : N = Slashes(n) + 1
  <2> HIDE DEF Slashes
  <2> QED
    BY <1>1
<1>6. PICK f : f = [k \in 1..N |-> SubSeq(s, At(k - 1) + 1, At(k) - 1)]
  OBVIOUS
<1>7. \A k \in 1..N : f[k] \in Seq(S)
  <2> HIDE DEF At, Slashes
  <2> QED
    BY <1>3, <1>5, <1>6
<1>8. f \in Seq(Seq(S))
  <2> HIDE DEF At, Slashes
  <2> QED
    BY <1>6, <1>7
<1> HIDE DEF At, Slashes, n
<1> QED
  BY <1>4, <1>5, <1>6, <1>8

\* Match (pattern.go:13) accepts exactly the names that the comment above it describes,
\* for patterns and names of any length, over any bytes.
THEOREM MatchDenotes ==
  ASSUME NEW S, NEW pattern \in Seq(S), NEW name \in Seq(S)
  PROVE Match(pattern, name) <=> Denotes(pattern, name)
BY SplitType, MatchSegmentsDenotes DEF Match, Denotes

-----------------------------------------------------------------------------
(* The numbers. *)

LEMMA Mod ==
  ASSUME NEW a \in Nat, NEW b \in Nat \ {0}
  PROVE a % b \in 0..(b - 1) /\ a - (a % b) \in Nat
OBVIOUS

LEMMA ModSmall ==
  ASSUME NEW a \in Nat, NEW b \in Nat \ {0}, a < b
  PROVE a % b = a
OBVIOUS

LEMMA ModInt ==
  ASSUME NEW a \in Int, NEW b \in Nat \ {0}
  PROVE a % b \in 0..(b - 1)
OBVIOUS

\* A number that fits in a word is that word,
LEMMA WrapFits ==
  ASSUME NEW n \in 0..MaxInt
  PROVE Wrap(n) = n
<1>1. PICK a \in Nat, b \in Nat \ {0} : a = n + MaxInt + 1 /\ b = 2 * (MaxInt + 1)
  BY ParseAssumption
<1>2. a < b
  BY <1>1, ParseAssumption
<1>3. a % b = a
  BY <1>2, ModSmall
<1> QED
  BY <1>1, <1>3, ParseAssumption DEF Wrap

\* and a word wraps to itself.
LEMMA WrapRange ==
  ASSUME NEW n \in Int
  PROVE Wrap(n) \in Int /\ Wrap(Wrap(n)) = Wrap(n)
<1>1. PICK a \in Int, b \in Nat \ {0} : a = n + MaxInt + 1 /\ b = 2 * (MaxInt + 1)
  BY ParseAssumption
<1>2. PICK c : c = a % b
  OBVIOUS
<1>3. c \in 0..(b - 1)
  BY <1>2, ModInt
<1>4. Wrap(n) = c - (MaxInt + 1)
  BY <1>1, <1>2 DEF Wrap
<1>5. (c - (MaxInt + 1)) + MaxInt + 1 = c /\ c - (MaxInt + 1) \in Int
  BY <1>3, ParseAssumption
<1>6. c % b = c
  BY <1>3, ModSmall
<1>7. Wrap(c - (MaxInt + 1)) = c - (MaxInt + 1)
  BY <1>1, <1>5, <1>6 DEF Wrap
<1> QED
  BY <1>4, <1>5, <1>7

LEMMA Units ==
  /\ DOMAIN Multiplier = {"B", "KB", "MB", "GB"}
  /\ Multiplier["B"] = 1
  /\ \A u \in DOMAIN Multiplier : Multiplier[u] \in Nat \ {0}
  /\ \A u \in DOMAIN Ticks : Ticks[u] \in Nat \ {0}
BY ParseAssumption DEF Multiplier, Ticks

\* A unit that divides a number gives the number back.
LEMMA Divides ==
  ASSUME NEW n \in Nat, NEW m \in Nat \ {0}, n % m = 0
  PROVE n \div m \in 0..n /\ (n \div m) * m = n
OBVIOUS

\* Of some units one is the largest.
LEMMA LargestUnit ==
  ASSUME NEW U, U \subseteq DOMAIN Multiplier, U # {}
  PROVE \E u \in U : \A v \in U : Multiplier[v] <= Multiplier[u]
<1>1. PICK b \in Nat, k \in Nat, m \in Nat, g \in Nat :
        b = Multiplier["B"] /\ k = Multiplier["KB"] /\ m = Multiplier["MB"] /\ g = Multiplier["GB"]
  BY Units
<1>2. PICK w \in U : TRUE
  OBVIOUS
<1>3. U \subseteq {"B", "KB", "MB", "GB"}
  BY Units
<1> QED
  BY <1>1, <1>2, <1>3

\* formatSize finds a unit that divides.
LEMMA FormatSizeIs ==
  ASSUME NEW n \in Nat, n # 0
  PROVE \E u \in DOMAIN Multiplier :
          n % Multiplier[u] = 0 /\ FormatSize(n) = [num |-> n \div Multiplier[u], unit |-> u]
<1> DEFINE U == {u \in DOMAIN Multiplier : n % Multiplier[u] = 0}
           Fits(u) == /\ n % Multiplier[u] = 0
                      /\ \A v \in DOMAIN Multiplier :
                           n % Multiplier[v] = 0 => Multiplier[v] <= Multiplier[u]
<1>1. "B" \in U
  <2>1. n % 1 = 0
    OBVIOUS
  <2> QED
    BY <2>1, Units
<1>2. \E u \in DOMAIN Multiplier : Fits(u)
  <2>1. PICK u \in U : \A v \in U : Multiplier[v] <= Multiplier[u]
    BY <1>1, LargestUnit
  <2> QED
    BY <2>1
<1>3. PICK u : u = CHOOSE w \in DOMAIN Multiplier : Fits(w)
  OBVIOUS
<1>4. u \in DOMAIN Multiplier /\ Fits(u)
  <2> HIDE DEF Fits
  <2> QED
    BY <1>2, <1>3
<1>5. FormatSize(n) = [num |-> n \div Multiplier[u], unit |-> u]
  BY <1>3 DEF FormatSize
<1> QED
  BY <1>4, <1>5

\* Formatting a time takes less than a second off it.
LEMMA RFC3339Is ==
  ASSUME NEW t \in Nat
  PROVE RFC3339(t) \in Nat /\ RFC3339(t) <= t /\ t < RFC3339(t) + TicksPerSecond
<1>1. PICK b \in Nat \ {0} : b = TicksPerSecond
  BY ParseAssumption
<1>2. PICK r \in 0..(b - 1) : r = t % b /\ t - r \in Nat
  BY Mod
<1>3. RFC3339(t) = t - r
  BY <1>1, <1>2 DEF RFC3339
<1>4. r \in Nat /\ r < b
  BY <1>2
<1>5. t - r <= t /\ t < (t - r) + b
  BY <1>4
<1> QED
  BY <1>1, <1>2, <1>3, <1>5

-----------------------------------------------------------------------------
(* The states. *)

\* The record that the flags make.
Stored ==
  [keys |-> StringList(flags.keys),
   artifacts |-> {a \in {trial.want.artifact} :
                    \E p \in StringList(flags.artifacts) : Match(p, a)},
   maxSize |-> ParseSize(flags.maxSize),
   expires |-> IF ParseTTL(flags.ttl) > 0 THEN RFC3339(trial.at + ParseTTL(flags.ttl)) ELSE Never]

\* What is stored is the record of the flags, what is answered the verdict on it.
IInv ==
  /\ trial \in Trial
  /\ phase \in {"typed", "refused", "registered", "answered"}
  /\ phase \in {"typed", "refused"} => caller = NoCaller
  /\ phase # "answered" => verdict = "none"
  /\ phase \in {"registered", "answered"} => FlagsParse /\ caller = Stored
  /\ phase = "answered" => verdict = Evaluate(Stored, trial.want, trial.at + trial.wait)

LEMMA TrialTypes ==
  ASSUME trial \in Trial
  PROVE /\ flags.keys \in Seq(Text) /\ flags.artifacts \in Seq(Text)
        /\ flags.maxSize.num \in Int /\ flags.maxSize.unit \in DOMAIN Multiplier
        /\ flags.ttl.num \in Int /\ flags.ttl.unit \in DOMAIN Ticks
        /\ trial.want.artifact \in Text /\ trial.want.size \in Nat
        /\ trial.at \in Nat /\ trial.wait \in Nat
<1>1. trial.flags \in [keys : Seq(Text), artifacts : Seq(Text), rate : Int,
                       maxSize : [num : Int, unit : DOMAIN Multiplier],
                       ttl : [num : Int, unit : DOMAIN Ticks]]
  BY DEF Trial
<1>2. trial.want \in [key : Text, artifact : Text, size : Nat]
  BY DEF Trial
<1>3. trial.at \in Nat /\ trial.wait \in Nat
  BY DEF Trial
<1> QED
  BY <1>1, <1>2, <1>3 DEF flags

\* What is parsed is a word.
LEMMA ParsedTypes ==
  ASSUME trial \in Trial
  PROVE /\ ParseSize(flags.maxSize) \in Int
        /\ Wrap(ParseSize(flags.maxSize)) = ParseSize(flags.maxSize)
        /\ ParseTTL(flags.ttl) \in Int
<1>1. PICK a \in Int, b \in Nat : /\ a = flags.maxSize.num
                                  /\ b = Multiplier[flags.maxSize.unit]
  BY TrialTypes, Units
<1>2. PICK c \in Int, d \in Nat : c = flags.ttl.num /\ d = Ticks[flags.ttl.unit]
  BY TrialTypes, Units
<1>3. a * b \in Int /\ c * d \in Int
  OBVIOUS
<1>4. ParseSize(flags.maxSize) = Wrap(a * b) /\ ParseTTL(flags.ttl) = Wrap(c * d)
  BY <1>1, <1>2 DEF ParseSize, ParseTTL
<1> QED
  BY <1>3, <1>4, WrapRange

LEMMA ListType ==
  ASSUME NEW parts \in Seq(Text)
  PROVE StringList(parts) \subseteq Text
BY DEF StringList

LEMMA StoredType ==
  ASSUME trial \in Trial
  PROVE Stored \in Record /\ Stored.expires >= Never /\ Stored # NoCaller
<1>1. PICK life \in Int : life = ParseTTL(flags.ttl)
  BY ParsedTypes
<1>2. life > 0 => RFC3339(trial.at + life) \in Nat
  <2>1. life > 0 => trial.at + life \in Nat
    BY TrialTypes
  <2> QED
    BY <2>1, RFC3339Is
<1>3. PICK e : e = IF life > 0 THEN RFC3339(trial.at + life) ELSE Never
  OBVIOUS
<1>4. e \in Int /\ e >= Never
  BY <1>2, <1>3 DEF Never
<1>5. StringList(flags.keys) \in SUBSET Text
  BY TrialTypes, ListType
<1>6. {a \in {trial.want.artifact} :
         \E p \in StringList(flags.artifacts) : Match(p, a)} \in SUBSET Text
  BY TrialTypes
<1>7. ParseSize(flags.maxSize) \in Int
  BY ParsedTypes
<1>8. Stored.expires = e
  BY <1>1, <1>3 DEF Stored
<1>9. Stored \in Record
  BY <1>1, <1>3, <1>4, <1>5, <1>6, <1>7 DEF Stored, Record
<1> QED
  BY <1>4, <1>8, <1>9, TrialsAssumption

\* IInv is inductive.
LEMMA Invariance == Spec => []IInv
<1>1. Init => IInv
  BY TrialsAssumption DEF Init, IInv
<1>2. IInv /\ [Next]_vars => IInv'
  <2> SUFFICES ASSUME IInv, [Next]_vars
               PROVE IInv'
    OBVIOUS
  <2>1. CASE CmdCallerAdd
    <3>1. trial' = trial /\ phase' = "registered" /\ verdict' = verdict /\ FlagsParse /\ caller' = Stored
      BY <2>1 DEF CmdCallerAdd, Stored
    <3>2. FlagsParse' /\ Stored' = Stored
      BY <3>1 DEF FlagsParse, Stored, flags
    <3> QED
      BY <2>1, <3>1, <3>2 DEF IInv, CmdCallerAdd
  <2>2. CASE CmdCallerAddRefused
    BY <2>2 DEF IInv, CmdCallerAddRefused
  <2>3. CASE Request
    <3>1. /\ trial' = trial /\ phase' = "answered" /\ caller' = caller /\ phase = "registered"
          /\ verdict' = Evaluate(caller, trial.want, trial.at + trial.wait)
      BY <2>3 DEF Request
    <3>2. (FlagsParse <=> FlagsParse') /\ Stored' = Stored
      BY <3>1 DEF FlagsParse, Stored, flags
    <3> QED
      BY <3>1, <3>2 DEF IInv
  <2>4. CASE UNCHANGED vars
    <3>1. (FlagsParse <=> FlagsParse') /\ Stored' = Stored
      BY <2>4 DEF vars, FlagsParse, Stored, flags
    <3> QED
      BY <2>4, <3>1 DEF IInv, vars
  <2> QED
    BY <2>1, <2>2, <2>3, <2>4 DEF Next
<1> QED
  BY <1>1, <1>2, PTL DEF Spec

-----------------------------------------------------------------------------
(* The properties. *)

\* Flags that do not parse store nothing, and no record is without a key.
THEOREM TypeCorrect == Spec => []TypeOK
<1>1. IInv => TypeOK
  <2> SUFFICES ASSUME IInv
               PROVE TypeOK
    OBVIOUS
  <2>1. /\ Stored # NoCaller /\ Stored.expires >= Never
                   /\ Wrap(Stored.maxSize) = Stored.maxSize
    BY StoredType, ParsedTypes DEF IInv, Stored
  <2>2. CASE phase \in {"typed", "refused"}
    BY <2>2 DEF IInv, TypeOK
  <2>3. CASE phase \in {"registered", "answered"}
    <3>1. caller = Stored /\ caller.keys # {}
      BY <2>3 DEF IInv, FlagsParse, Stored
    <3>2. verdict \in {"none", "allow", "expired", "key", "artifact", "size"}
      BY <2>3 DEF IInv, Evaluate
    <3> QED
      BY <2>1, <2>3, <3>1, <3>2 DEF TypeOK
  <2> QED
    BY <2>2, <2>3 DEF IInv
<1> QED
  BY <1>1, Invariance, PTL

\* A size that fits is stored as it was typed.
LEMMA SizeStored ==
  ASSUME trial \in Trial, FlagsParse, NumbersFit
  PROVE Stored.maxSize = Size /\ Size \in 0..MaxInt
<1>1. Size \in 0..MaxInt
  BY DEF NumbersFit
<1>2. ParseSize(flags.maxSize) = Size
  BY <1>1, WrapFits DEF ParseSize, Size
<1> QED
  BY <1>1, <1>2 DEF Stored

\* The size that caller add and whoami print is the one in force (callers.go:29).
THEOREM ShownIsEnforcedCorrect == Spec => []ShownIsEnforced
<1>1. IInv => ShownIsEnforced
  <2> SUFFICES ASSUME IInv, phase = "registered", NumbersFit
               PROVE LET shown == FormatSize(caller.maxSize) IN
                     /\ shown = Unlimited <=> caller.maxSize <= 0
                     /\ shown # Unlimited => SizeParses(shown) /\ ParseSize(shown) = caller.maxSize
    BY DEF ShownIsEnforced
  <2>1. PICK n \in 0..MaxInt : n = caller.maxSize
    BY SizeStored DEF IInv
  <2>2. CASE n = 0
    <3>1. FormatSize(n) = Unlimited
      BY <2>2 DEF FormatSize
    <3> QED
      BY <2>1, <2>2, <3>1
  <2>3. CASE n # 0
    <3>0. n \in Nat /\ n > 0
      BY <2>3
    <3>1. PICK u \in DOMAIN Multiplier :
            n % Multiplier[u] = 0 /\ FormatSize(n) = [num |-> n \div Multiplier[u], unit |-> u]
      BY <2>3, <3>0, FormatSizeIs
    <3>2. PICK m \in Nat \ {0} : m = Multiplier[u]
      BY Units
    <3>3. PICK q \in 0..n : q = n \div m /\ q * m = n
      BY <3>0, <3>1, <3>2, Divides
    <3>4. FormatSize(n).num = q /\ FormatSize(n).unit = u
      BY <3>1, <3>2, <3>3
    <3>5. FormatSize(n) # Unlimited
      <4>1. u # "unlimited"
        BY Units
      <4>2. Unlimited.unit = "unlimited"
        BY DEF Unlimited
      <4> QED
        BY <3>4, <4>1, <4>2
    <3>6. SizeParses(FormatSize(n))
      BY <3>0, <3>3, <3>4, ParseAssumption DEF SizeParses
    <3>7. ParseSize(FormatSize(n)) = n
      BY <3>2, <3>3, <3>4, WrapFits DEF ParseSize
    <3> QED
      BY <2>1, <3>0, <3>5, <3>6, <3>7
  <2> QED
    BY <2>2, <2>3
<1> QED
  BY <1>1, Invariance, PTL

\* A lifetime that fits ends less than a second early.
LEMMA LifetimeStored ==
  ASSUME trial \in Trial, FlagsParse, NumbersFit
  PROVE /\ Lifetime \in Nat
        /\ Lifetime = 0 => Stored.expires = Never
        /\ Lifetime # 0 => /\ Stored.expires \in Nat
                           /\ Stored.expires <= trial.at + Lifetime
                           /\ trial.at + Lifetime < Stored.expires + TicksPerSecond
<1>1. Lifetime \in 0..MaxInt
  BY DEF NumbersFit
<1>2. ParseTTL(flags.ttl) = Lifetime
  BY <1>1, WrapFits DEF ParseTTL, Lifetime
<1>3. PICK life \in Nat : life = Lifetime
  BY <1>1, ParseAssumption
<1>4. PICK t \in Nat : t = trial.at + life
  BY TrialTypes
<1>5. Stored.expires = IF life > 0 THEN RFC3339(t) ELSE Never
  BY <1>2, <1>3, <1>4 DEF Stored
<1> QED
  BY <1>3, <1>4, <1>5, RFC3339Is

\* The record holds the artifact if a glob of the flags denotes it.
LEMMA ArtifactStored ==
  ASSUME trial \in Trial
  PROVE trial.want.artifact \in Stored.artifacts
          <=> \E p \in StringList(flags.artifacts) : Denotes(p, trial.want.artifact)
<1>1. \A p \in StringList(flags.artifacts) :
        Match(p, trial.want.artifact) <=> Denotes(p, trial.want.artifact)
  BY TrialTypes, ListType, MatchDenotes DEF Text
<1> QED
  BY <1>1 DEF Stored

\* A request passes exactly if the flags meant to grant it, until its lifetime is over
\* (callers.go:53, policy.go:83).
THEOREM EnforcedAsTypedCorrect == Spec => []EnforcedAsTyped
<1>1. IInv => EnforcedAsTyped
  <2> SUFFICES ASSUME IInv, phase = "answered", NumbersFit
               PROVE /\ verdict = "allow" => Granted /\ (Lifetime = 0 \/ trial.wait < Lifetime)
                     /\ Granted /\ (Lifetime = 0 \/ trial.wait + TicksPerSecond <= Lifetime)
                          => verdict = "allow"
    BY DEF EnforcedAsTyped
  <2>1. trial \in Trial /\ FlagsParse
    BY DEF IInv
  <2>2. verdict = "allow" <=> /\ ~Expired(Stored, trial.at + trial.wait)
                              /\ AllowsKey(Stored, trial.want.key)
                              /\ trial.want.artifact \in Stored.artifacts
                              /\ ~(Stored.maxSize > 0 /\ trial.want.size > Stored.maxSize)
    BY DEF IInv, Evaluate
  <2>3. AllowsKey(Stored, trial.want.key) <=> {AnyKey, trial.want.key} \cap StringList(flags.keys) # {}
    BY DEF AllowsKey, Stored
  <2>4. ~(Stored.maxSize > 0 /\ trial.want.size > Stored.maxSize) <=> Size = 0 \/ trial.want.size <= Size
    <3>1. PICK n \in Nat, z \in Nat : n = Size /\ n = Stored.maxSize /\ z = trial.want.size
      BY <2>1, SizeStored, TrialTypes
    <3> QED
      BY <3>1
  <2>5. Granted <=> /\ AllowsKey(Stored, trial.want.key)
                    /\ trial.want.artifact \in Stored.artifacts
                    /\ ~(Stored.maxSize > 0 /\ trial.want.size > Stored.maxSize)
    BY <2>1, <2>3, <2>4, ArtifactStored DEF Granted
  <2>6. PICK life \in Nat, at \in Nat, wait \in Nat, second \in Nat \ {0} :
          life = Lifetime /\ at = trial.at /\ wait = trial.wait /\ second = TicksPerSecond
    BY <2>1, LifetimeStored, TrialTypes, ParseAssumption
  <2>7. CASE life = 0
    <3>1. ~Expired(Stored, trial.at + trial.wait)
      BY <2>1, <2>6, <2>7, LifetimeStored DEF Expired
    <3> QED
      BY <2>2, <2>5, <2>6, <2>7, <3>1
  <2>8. CASE life # 0
    <3>1. PICK e \in Nat : e = Stored.expires /\ e <= at + life /\ at + life < e + second
      BY <2>1, <2>6, <2>8, LifetimeStored
    <3>2. e # Never
      BY <3>1 DEF Never
    <3>3. Expired(Stored, trial.at + trial.wait) <=> at + wait >= e
      BY <2>6, <3>1, <3>2 DEF Expired
    <3>4. ~(at + wait >= e) => wait < life
      BY <3>1
    <3>5. wait + second <= life => ~(at + wait >= e)
      BY <3>1
    <3> QED
      BY <2>2, <2>5, <2>6, <2>8, <3>3, <3>4, <3>5
  <2> QED
    BY <2>7, <2>8
<1> QED
  BY <1>1, Invariance, PTL
=============================================================================
