------------------------ MODULE PacketAgreementProofs ------------------------
(***************************************************************************)
(* Theorems about PacketAgreement, for any schemas, texts and limits:      *)
(* what the simulator promises of a packet is what the server does.        *)
(*                                                                         *)
(* The facts about texts and numbers are inductions.  The provers cannot   *)
(* instantiate an induction rule over a predicate, so Induct and           *)
(* TextInduct speak of a set of naturals or texts, and follow from the     *)
(* fact that < is well founded on the naturals (WFMin).                    *)
(***************************************************************************)
EXTENDS PacketAgreement, WellFoundedInduction, FiniteSetTheorems, SequenceTheorems, TLAPS

-----------------------------------------------------------------------------
(* Induction over the naturals and over sequences, for sets.               *)

(* Naturals: every non-empty set has a least element.                      *)
LEMMA Least == ASSUME NEW T \in SUBSET Nat, T # {} PROVE \E n \in T : \A m \in T : n <= m
<1> DEFINE R == {ss \in Nat \X Nat : ss[1] < ss[2]}
<1>1. IsWellFoundedOn(R, Nat)
  BY NatLessThanWellFounded, Zenon DEF OpToRel
<1>2. \E x \in T : \A y \in T : ~ (<<y, x>> \in R)
  <2> HIDE DEF R
  <2> QED BY <1>1, WFMin
<1>3. ASSUME NEW x \in T, NEW y \in T, ~ (<<y, x>> \in R) PROVE x <= y
  BY <1>3
<1>4. QED BY <1>2, <1>3

(* Naturals: a set with 0 and with the successor of each of its elements.  *)
LEMMA Induct ==
  ASSUME NEW T, 0 \in T, \A n \in Nat : n \in T => n + 1 \in T
  PROVE  Nat \subseteq T
<1> DEFINE B == Nat \ T
<1>1. SUFFICES ASSUME B # {} PROVE FALSE OBVIOUS
<1>2. PICK n \in B : \A m \in B : n <= m BY <1>1, Least
<1>3. n # 0 /\ n - 1 \in Nat /\ ~(n <= n - 1) BY <1>2
<1>4. n - 1 \in T BY <1>2, <1>3
<1>5. QED BY <1>2, <1>3, <1>4

(* Naturals: a set that has each number all smaller ones of which it has.  *)
LEMMA StrongInduct ==
  ASSUME NEW T, \A n \in Nat : (\A m \in Nat : m < n => m \in T) => n \in T
  PROVE  Nat \subseteq T
<1> DEFINE B == Nat \ T
<1>1. SUFFICES ASSUME B # {} PROVE FALSE OBVIOUS
<1>2. PICK n \in B : \A m \in B : n <= m BY <1>1, Least
<1>3. \A m \in Nat : m < n => m \in T BY <1>2
<1>4. QED BY <1>2, <1>3

(* Sequences: a set with the empty one and with each extension by one.     *)
LEMMA TextInduct ==
  ASSUME NEW A, NEW T, <<>> \in T, \A s \in Seq(A), x \in A : s \in T => Append(s, x) \in T
  PROVE  Seq(A) \subseteq T
<1> DEFINE L == {n \in Nat : \A s \in Seq(A) : Len(s) = n => s \in T}
<1>1. 0 \in L
  BY EmptySeq
<1>2. ASSUME NEW n \in Nat, n \in L PROVE n + 1 \in L
  <2>1. SUFFICES ASSUME NEW s \in Seq(A), Len(s) = n + 1 PROVE s \in T
    OBVIOUS
  <2>2. PICK r \in Seq(A), x \in A : s = Append(r, x)
    BY <2>1, SequenceEmptyOrAppend, EmptySeq, LenProperties
  <2>3. Len(r) = n
    BY <2>1, <2>2, AppendProperties, LenProperties
  <2>4. QED BY <1>2, <2>2, <2>3
<1>3. Nat \subseteq L
  <2> HIDE DEF L
  <2> QED BY <1>1, <1>2, Induct
<1>4. QED BY <1>3, LenProperties

Descends(p) == \A n \in Nat : n > 0 => p[n] < n
Follows(f, a, G, p) == f[0] = a /\ \A n \in Nat : n > 0 => f[n] = G[<<n, f[p[n]]>>]

(* A function on the naturals may be defined by its first value and, at    *)
(* each other n, by its value at a smaller number p[n].                    *)
LEMMA Recursion ==
  ASSUME NEW S, NEW a \in S, NEW G \in [Nat \X S -> S],
         NEW p \in [Nat -> Nat], Descends(p)
  PROVE  \E f \in [Nat -> S] : Follows(f, a, G, p)
<1>0. \A n \in Nat : n > 0 => p[n] < n
  BY DEF Descends
<1> DEFINE Upto(g, n) ==
      /\ g \in [0..n -> S] /\ g[0] = a
      /\ \A k \in 1..n : g[k] = G[<<k, g[p[k]]>>]
<1>1. ASSUME NEW n \in Nat, NEW m \in 0..n, NEW g, NEW h, Upto(g, n), Upto(h, m)
      PROVE  \A k \in 0..m : g[k] = h[k]
  <2> DEFINE T == {k \in Nat : k <= m => g[k] = h[k]}
  <2>1. ASSUME NEW k \in Nat, \A j \in Nat : j < k => j \in T PROVE k \in T
    <3>1. SUFFICES ASSUME k <= m, k > 0 PROVE g[k] = h[k]
      BY <1>1
    <3>2. p[k] \in Nat /\ p[k] < k
      BY <1>0, <3>1
    <3>3. g[p[k]] = h[p[k]]
      BY <2>1, <3>1, <3>2
    <3>4. k \in 1..n /\ k \in 1..m
      BY <3>1
    <3>5. QED BY <1>1, <3>3, <3>4
  <2>2. Nat \subseteq T
    <3> HIDE DEF T
    <3> QED BY <2>1, StrongInduct
  <2>3. QED BY <2>2
<1>2. ASSUME NEW n \in Nat PROVE \E g : Upto(g, n)
  <2> DEFINE T == {k \in Nat : \E g : Upto(g, k)}
  <2>1. 0 \in T
    <3>1. Upto([k \in 0..0 |-> a], 0)
      OBVIOUS
    <3>2. QED BY <3>1
  <2>2. ASSUME NEW k \in Nat, k \in T PROVE k + 1 \in T
    <3>1. PICK g : Upto(g, k)
      BY <2>2
    <3>2. p[k + 1] \in 0..k
      BY <1>0
    <3> DEFINE v == G[<<k + 1, g[p[k + 1]]>>]
               h == [j \in 0..(k + 1) |-> IF j = k + 1 THEN v ELSE g[j]]
    <3>3. v \in S
      <4>1. g[p[k + 1]] \in S
        BY <3>1, <3>2
      <4>2. QED BY <4>1
    <3>4. h \in [0..(k + 1) -> S] /\ h[0] = a
      <4> HIDE DEF v
      <4> QED BY <3>1, <3>3
    <3>5. \A i \in 0..k : h[i] = g[i]
      OBVIOUS
    <3>6. h[k + 1] = v
      <4> HIDE DEF v
      <4> QED OBVIOUS
    <3> HIDE DEF h
    <3>7. ASSUME NEW j \in 1..(k + 1) PROVE h[j] = G[<<j, h[p[j]]>>]
      <4>1. p[j] \in 0..k
        BY <1>0
      <4>2. h[p[j]] = g[p[j]]
        BY <3>5, <4>1
      <4>3. CASE j = k + 1
        BY <3>6, <4>2, <4>3
      <4>4. CASE j # k + 1
        <5>1. j \in 1..k /\ h[j] = g[j]
          BY <3>5, <4>4
        <5>2. QED BY <3>1, <4>2, <5>1
      <4>5. QED BY <4>3, <4>4
    <3>8. Upto(h, k + 1)
      BY <3>4, <3>7
    <3> HIDE DEF Upto
    <3>9. QED BY <3>8
  <2>3. Nat \subseteq T
    <3> HIDE DEF T
    <3> QED BY <2>1, <2>2, Induct
  <2>4. QED BY <2>3
<1> DEFINE At(n) == CHOOSE g : Upto(g, n)
           f == [n \in Nat |-> At(n)[n]]
<1>3. ASSUME NEW n \in Nat PROVE Upto(At(n), n)
  <2> HIDE DEF Upto
  <2> QED BY <1>2
<1>4. ASSUME NEW n \in Nat, NEW m \in 0..n PROVE At(n)[m] = f[m]
  <2>1. m \in Nat /\ m \in 0..m
    OBVIOUS
  <2>2. Upto(At(n), n) /\ Upto(At(m), m)
    BY <1>3, <2>1
  <2>3. At(n)[m] = At(m)[m]
    <3> HIDE DEF At, Upto
    <3> QED BY <1>1, <2>1, <2>2
  <2>4. f[m] = At(m)[m]
    BY <2>1
  <2>5. QED BY <2>3, <2>4
<1>5. f \in [Nat -> S]
  <2>1. \A n \in Nat : At(n)[n] \in S
    <3> SUFFICES ASSUME NEW n \in Nat PROVE At(n)[n] \in S
      OBVIOUS
    <3>1. Upto(At(n), n)
      BY <1>3
    <3> HIDE DEF At
    <3> QED BY <3>1
  <2> HIDE DEF At
  <2> QED BY <2>1
<1>6. f[0] = a
  <2>1. Upto(At(0), 0)
    BY <1>3
  <2>2. f[0] = At(0)[0]
    OBVIOUS
  <2> HIDE DEF At, f
  <2> QED BY <2>1, <2>2
<1>7. ASSUME NEW n \in Nat, n > 0 PROVE f[n] = G[<<n, f[p[n]]>>]
  <2>1. Upto(At(n), n) /\ f[n] = At(n)[n]
    BY <1>3
  <2>2. n \in 1..n /\ p[n] \in 0..n
    BY <1>0, <1>7
  <2>3. f[p[n]] = At(n)[p[n]]
    BY <1>4, <2>2
  <2> HIDE DEF At, f
  <2>4. QED BY <2>1, <2>2, <2>3
<1>8. QED
  <2> HIDE DEF f
  <2>1. Follows(f, a, G, p)
    BY <1>6, <1>7 DEF Follows
  <2>2. QED BY <1>5, <2>1

-----------------------------------------------------------------------------
(* Flattening (FlattenSeq), which encodes and decodes texts.               *)

Accumulates(F, s) == F[0] = <<>> /\ \A n \in 1..Len(s) : F[n] = F[n - 1] \o s[n]

(* A sequence of partial results that ends in the flattened sequence.      *)
LEMMA FlattenIs ==
  ASSUME NEW B, NEW s \in Seq(Seq(B)), NEW F \in [Nat -> Seq(B)], Accumulates(F, s)
  PROVE  FlattenSeq(s) = F[Len(s)]
<1>0. F[0] = <<>> /\ \A n \in 1..Len(s) : F[n] = F[n - 1] \o s[n]
  BY DEF Accumulates
<1>1. CASE Len(s) = 0
  <2>1. s = <<>>
    BY <1>1, EmptySeq
  <2>2. FlattenSeq(s) = s
    BY <1>1 DEF FlattenSeq
  <2>3. QED BY <1>0, <1>1, <2>1, <2>2
<1>2. CASE Len(s) # 0
  <2> DEFINE Eqn(g) == g = [i \in 1..Len(s) |-> IF i = 1 THEN s[i] ELSE g[i - 1] \o s[i]]
             h == [i \in 1..Len(s) |-> F[i]]
             c == CHOOSE g : Eqn(g)
  <2>1. Len(s) \in Nat /\ Len(s) \in 1..Len(s)
    BY <1>2, LenProperties
  <2>2. ASSUME NEW i \in 1..Len(s)
        PROVE  F[i] = IF i = 1 THEN s[i] ELSE F[i - 1] \o s[i]
    <3>1. s[i] \in Seq(B)
      BY ElementOfSeq
    <3>2. <<>> \o s[i] = s[i]
      BY <3>1, ConcatEmptySeq
    <3>3. F[i] = F[i - 1] \o s[i]
      BY <1>0
    <3>4. CASE i = 1
      <4>1. F[i - 1] = <<>>
        BY <1>0, <3>4
      <4>2. QED BY <3>2, <3>3, <3>4, <4>1
    <3>5. QED BY <3>3, <3>4
  <2>3. Eqn(h)
    <3>1. ASSUME NEW i \in 1..Len(s)
          PROVE  h[i] = IF i = 1 THEN s[i] ELSE h[i - 1] \o s[i]
      <4>1. CASE i = 1
        BY <2>2, <4>1
      <4>2. CASE i # 1
        <5>1. i - 1 \in 1..Len(s)
          BY <2>1, <4>2
        <5>2. QED BY <2>2, <4>2, <5>1
      <4>3. QED BY <4>1, <4>2
    <3>2. h = [i \in 1..Len(s) |-> h[i]]
      OBVIOUS
    <3> HIDE DEF h
    <3>3. QED BY <3>1, <3>2
  <2>4. Eqn(c)
    <3> HIDE DEF Eqn, h
    <3> QED BY <2>3
  <2>5. FlattenSeq(s) = c[Len(s)]
    BY <1>2, Zenon DEF FlattenSeq
  <2> HIDE DEF c
  <2> DEFINE T == {n \in Nat : n + 1 <= Len(s) => c[n + 1] = F[n + 1]}
  <2>6. 0 \in T
    <3>1. SUFFICES ASSUME 1 <= Len(s) PROVE c[1] = F[1]
      OBVIOUS
    <3>2. 1 \in 1..Len(s)
      BY <2>1, <3>1
    <3>3. c[1] = s[1]
      BY <2>4, <3>2
    <3>4. QED BY <2>2, <3>2, <3>3
  <2>7. ASSUME NEW n \in Nat, n \in T PROVE n + 1 \in T
    <3>1. SUFFICES ASSUME n + 2 <= Len(s) PROVE c[n + 2] = F[n + 2]
      BY <2>1
    <3>2. n + 2 \in 1..Len(s) /\ n + 2 # 1 /\ (n + 2) - 1 = n + 1
      BY <2>1, <3>1
    <3>3. c[n + 1] = F[n + 1]
      BY <2>1, <2>7, <3>1
    <3>4. c[n + 2] = c[n + 1] \o s[n + 2]
      BY <2>4, <3>2
    <3>5. F[n + 2] = F[n + 1] \o s[n + 2]
      BY <1>0, <3>2
    <3>6. QED BY <3>3, <3>4, <3>5
  <2>8. Nat \subseteq T
    <3> HIDE DEF T
    <3> QED BY <2>6, <2>7, Induct
  <2>9. Len(s) - 1 \in Nat /\ (Len(s) - 1) + 1 = Len(s)
    BY <1>2, <2>1
  <2>10. Len(s) - 1 \in T
    <3> HIDE DEF T
    <3> QED BY <2>8, <2>9
  <2>11. QED BY <2>5, <2>9, <2>10
<1>3. QED BY <1>1, <1>2

(* Any sequence of sequences has such partial results.                     *)
LEMMA FlattenSteps ==
  ASSUME NEW B, NEW s \in Seq(Seq(B))
  PROVE  \E F \in [Nat -> Seq(B)] : Accumulates(F, s)
<1> DEFINE p == [n \in Nat |-> IF n = 0 THEN 0 ELSE n - 1]
           V(n, t) == IF n \in 1..Len(s) THEN t \o s[n] ELSE t
           G == [z \in Nat \X Seq(B) |-> V(z[1], z[2])]
<1>1. <<>> \in Seq(B)
  BY EmptySeq
<1>2. G \in [Nat \X Seq(B) -> Seq(B)]
  <2>1. ASSUME NEW n \in Nat, NEW t \in Seq(B) PROVE V(n, t) \in Seq(B)
    <3>1. n \in 1..Len(s) => s[n] \in Seq(B)
      BY ElementOfSeq
    <3>2. QED BY <3>1, ConcatProperties
  <2> HIDE DEF V
  <2> QED BY <2>1
<1>3. p \in [Nat -> Nat] /\ Descends(p)
  BY DEF Descends
<1>4. PICK F \in [Nat -> Seq(B)] : Follows(F, <<>>, G, p)
  <2> HIDE DEF G, p
  <2> QED BY <1>1, <1>2, <1>3, Recursion
<1>5. ASSUME NEW n \in 1..Len(s) PROVE F[n] = F[n - 1] \o s[n]
  <2>1. n \in Nat /\ n > 0 /\ p[n] = n - 1 /\ n - 1 \in Nat
    BY LenProperties
  <2>2. F[n] = G[<<n, F[n - 1]>>]
    <3> HIDE DEF G, p
    <3> QED BY <1>4, <2>1 DEF Follows
  <2>3. G[<<n, F[n - 1]>>] = V(n, F[n - 1])
    <3> HIDE DEF V
    <3> QED BY <2>1
  <2>4. QED BY <2>2, <2>3
<1>6. F[0] = <<>>
  BY <1>4 DEF Follows
<1>7. QED BY <1>5, <1>6 DEF Accumulates

(* Flattening is typed, forgets the empty sequence and follows Append.     *)
LEMMA FlattenAppend ==
  ASSUME NEW B
  PROVE  /\ FlattenSeq(<<>>) = <<>>
         /\ \A s \in Seq(Seq(B)) : FlattenSeq(s) \in Seq(B)
         /\ \A s \in Seq(Seq(B)), x \in Seq(B) :
              FlattenSeq(Append(s, x)) = FlattenSeq(s) \o x
<1>1. FlattenSeq(<<>>) = <<>>
  BY DEF FlattenSeq
<1>2. ASSUME NEW s \in Seq(Seq(B)) PROVE FlattenSeq(s) \in Seq(B)
  <2>1. PICK F \in [Nat -> Seq(B)] : Accumulates(F, s)
    BY FlattenSteps
  <2>2. FlattenSeq(s) = F[Len(s)]
    BY <2>1, FlattenIs
  <2>3. QED BY <2>1, <2>2, LenProperties
<1>3. ASSUME NEW s \in Seq(Seq(B)), NEW x \in Seq(B)
      PROVE  FlattenSeq(Append(s, x)) = FlattenSeq(s) \o x
  <2> DEFINE r == Append(s, x)
  <2>1. /\ r \in Seq(Seq(B)) /\ Len(s) \in Nat /\ Len(r) = Len(s) + 1 /\ r[Len(r)] = x
        /\ \A n \in 1..Len(s) : r[n] = s[n]
    BY AppendProperties, LenProperties
  <2> HIDE DEF r
  <2>2. PICK F \in [Nat -> Seq(B)] : Accumulates(F, r)
    BY <2>1, FlattenSteps
  <2>3. FlattenSeq(r) = F[Len(r)]
    BY <2>1, <2>2, FlattenIs
  <2>4. Accumulates(F, s)
    <3>1. F[0] = <<>>
      BY <2>2 DEF Accumulates
    <3>2. ASSUME NEW n \in 1..Len(s) PROVE F[n] = F[n - 1] \o s[n]
      <4>1. n \in 1..Len(r) /\ r[n] = s[n]
        BY <2>1
      <4>2. F[n] = F[n - 1] \o r[n]
        BY <2>2, <4>1 DEF Accumulates
      <4>3. QED BY <4>1, <4>2
    <3>3. QED BY <3>1, <3>2 DEF Accumulates
  <2>5. FlattenSeq(s) = F[Len(s)]
    BY <2>4, FlattenIs
  <2>6. F[Len(r)] = F[Len(s)] \o x
    <3>1. Len(r) \in 1..Len(r) /\ Len(r) - 1 = Len(s)
      BY <2>1
    <3>2. QED BY <2>1, <2>2, <3>1 DEF Accumulates
  <2>7. QED BY <2>3, <2>5, <2>6 DEF r
<1>4. QED BY <1>1, <1>2, <1>3

(* Flattening two sequences in a row is flattening each.                   *)
LEMMA FlattenConcat ==
  ASSUME NEW B, NEW s \in Seq(Seq(B)), NEW t \in Seq(Seq(B))
  PROVE  FlattenSeq(s \o t) = FlattenSeq(s) \o FlattenSeq(t)
<1> DEFINE T == {u \in Seq(Seq(B)) : FlattenSeq(s \o u) = FlattenSeq(s) \o FlattenSeq(u)}
<1>1. <<>> \in T
  <2>1. <<>> \in Seq(Seq(B)) /\ s \o <<>> = s /\ FlattenSeq(s) \in Seq(B)
    BY EmptySeq, ConcatEmptySeq, FlattenAppend
  <2>2. FlattenSeq(s) \o <<>> = FlattenSeq(s)
    BY <2>1, ConcatEmptySeq
  <2>3. QED BY <2>1, <2>2, FlattenAppend
<1>2. ASSUME NEW u \in Seq(Seq(B)), NEW x \in Seq(B), u \in T PROVE Append(u, x) \in T
  <2>1. Append(u, x) \in Seq(Seq(B))
    BY AppendProperties
  <2>2. s \o Append(u, x) = Append(s \o u, x) /\ s \o u \in Seq(Seq(B))
    <3>1. s \o u \in Seq(Seq(B)) /\ <<x>> \in Seq(Seq(B))
      BY ConcatProperties
    <3>2. Append(u, x) = u \o <<x>> /\ Append(s \o u, x) = (s \o u) \o <<x>>
      BY <3>1, AppendIsConcat
    <3>3. QED BY <3>1, <3>2, ConcatAssociative
  <2>3. FlattenSeq(Append(s \o u, x)) = FlattenSeq(s \o u) \o x
    BY <2>2, FlattenAppend
  <2>4. FlattenSeq(s \o u) = FlattenSeq(s) \o FlattenSeq(u)
    BY <1>2
  <2>5. FlattenSeq(Append(u, x)) = FlattenSeq(u) \o x
    BY FlattenAppend
  <2>6. FlattenSeq(s) \in Seq(B) /\ FlattenSeq(u) \in Seq(B)
    BY FlattenAppend
  <2>7. (FlattenSeq(s) \o FlattenSeq(u)) \o x = FlattenSeq(s) \o (FlattenSeq(u) \o x)
    <3> DEFINE a == FlattenSeq(s)
               b == FlattenSeq(u)
    <3>1. a \in Seq(B) /\ b \in Seq(B) /\ x \in Seq(B)
      BY <2>6
    <3> HIDE DEF a, b
    <3>2. (a \o b) \o x = a \o (b \o x)
      BY <3>1, ConcatAssociative, SMTT(60)
    <3>3. QED BY <3>2 DEF a, b
  <2>8. QED BY <2>1, <2>2, <2>3, <2>4, <2>5, <2>7
<1>3. Seq(Seq(B)) \subseteq T
  <2> HIDE DEF T
  <2> QED BY <1>1, <1>2, TextInduct
<1>4. QED BY <1>3

-----------------------------------------------------------------------------
(* Digits.                                                                 *)

(* The names of the digits, one by one.                                    *)
LEMMA DigitNamesAre ==
  /\ DOMAIN DigitNames = 1..10
  /\ DigitNames[1] = "0" /\ DigitNames[2] = "1" /\ DigitNames[3] = "2" /\ DigitNames[4] = "3"
  /\ DigitNames[5] = "4" /\ DigitNames[6] = "5" /\ DigitNames[7] = "6" /\ DigitNames[8] = "7"
  /\ DigitNames[9] = "8" /\ DigitNames[10] = "9"
BY DEF DigitNames

(* Digits are the ten names.                                               *)
LEMMA DigitsAre == Digits = {"0", "1", "2", "3", "4", "5", "6", "7", "8", "9"}
<1> DEFINE Ten == {"0", "1", "2", "3", "4", "5", "6", "7", "8", "9"}
<1>1. Digits = {DigitNames[i] : i \in 1..10}
  BY DigitNamesAre, Zenon DEF Digits, ToSet
<1>2. ASSUME NEW i \in 1..10 PROVE DigitNames[i] \in Ten
  <2>1. i = 1 \/ i = 2 \/ i = 3 \/ i = 4 \/ i = 5 \/ i = 6 \/ i = 7 \/ i = 8 \/ i = 9 \/ i = 10
    OBVIOUS
  <2>2. QED BY <2>1, DigitNamesAre
<1>3. ASSUME NEW c \in Ten PROVE \E i \in 1..10 : DigitNames[i] = c
  BY DigitNamesAre
<1>4. QED BY <1>1, <1>2, <1>3

(* A digit is the name of its value.                                       *)
LEMMA DigitOfName ==
  /\ \A d \in 0..9 : DigitNames[d + 1] \in Digits /\ Digit(DigitNames[d + 1]) = d
  /\ \A c \in Digits : Digit(c) \in 0..9
  /\ Digit("0") = 0
<1>1. ASSUME NEW d \in 0..9, NEW e \in 0..9, DigitNames[d + 1] = DigitNames[e + 1] PROVE d = e
  <2>1. d = 0 \/ d = 1 \/ d = 2 \/ d = 3 \/ d = 4 \/ d = 5 \/ d = 6 \/ d = 7 \/ d = 8 \/ d = 9
    OBVIOUS
  <2>2. e = 0 \/ e = 1 \/ e = 2 \/ e = 3 \/ e = 4 \/ e = 5 \/ e = 6 \/ e = 7 \/ e = 8 \/ e = 9
    OBVIOUS
  <2>3. /\ DigitNames[0 + 1] = "0" /\ DigitNames[1 + 1] = "1" /\ DigitNames[2 + 1] = "2"
        /\ DigitNames[3 + 1] = "3" /\ DigitNames[4 + 1] = "4" /\ DigitNames[5 + 1] = "5"
        /\ DigitNames[6 + 1] = "6" /\ DigitNames[7 + 1] = "7" /\ DigitNames[8 + 1] = "8"
        /\ DigitNames[9 + 1] = "9"
    BY DigitNamesAre
  <2>4. QED BY <1>1, <2>1, <2>2, <2>3
<1>2. ASSUME NEW d \in 0..9 PROVE DigitNames[d + 1] \in Digits
  <2>1. d + 1 \in DOMAIN DigitNames
    BY DigitNamesAre
  <2>2. QED BY <2>1 DEF Digits, ToSet
<1>3. ASSUME NEW d \in 0..9 PROVE Digit(DigitNames[d + 1]) = d
  <2>1. \E e \in 0..9 : DigitNames[e + 1] = DigitNames[d + 1]
    OBVIOUS
  <2>2. /\ Digit(DigitNames[d + 1]) \in 0..9
        /\ DigitNames[Digit(DigitNames[d + 1]) + 1] = DigitNames[d + 1]
    BY <2>1, Zenon DEF Digit
  <2>3. QED BY <1>1, <2>2
<1>4. ASSUME NEW c \in Digits PROVE Digit(c) \in 0..9
  <2>1. PICK i \in 1..10 : DigitNames[i] = c
    BY DigitNamesAre DEF Digits, ToSet
  <2>2. i - 1 \in 0..9 /\ (i - 1) + 1 = i
    OBVIOUS
  <2>3. Digit(c) = i - 1
    BY <1>3, <2>1, <2>2
  <2>4. QED BY <2>2, <2>3
<1>5. Digit("0") = 0
  <2>1. 0 \in 0..9 /\ 0 + 1 = 1
    OBVIOUS
  <2>2. QED BY <1>3, <2>1, DigitNamesAre
<1>6. QED BY <1>2, <1>3, <1>4, <1>5

-----------------------------------------------------------------------------
(* Encoding and decoding.                                                  *)

Octets(A) == A \X (1..3)

(* Every character has one to three bytes, an ASCII one a single byte.     *)
LEMMA BytesRange ==
  /\ \A c : Bytes(c) \in 1..3
  /\ \A c \in Ascii : Bytes(c) = 1
<1>1. ASSUME NEW c PROVE Bytes(c) \in 1..3
  <2>1. CASE c \in {"acute", "nbsp"}
    <3>1. c # "bom"
      BY <2>1
    <3>2. Bytes(c) = 2
      BY <2>1, <3>1, Zenon DEF Bytes
    <3>3. QED BY <3>2
  <2>2. CASE c = "bom"
    <3>1. c \notin {"acute", "nbsp"}
      BY <2>2
    <3>2. Bytes(c) = 3
      BY <2>2, <3>1, Zenon DEF Bytes
    <3>3. QED BY <3>2
  <2>3. CASE c \notin {"acute", "nbsp"} /\ c # "bom"
    <3>1. Bytes(c) = 1
      BY <2>3, Zenon DEF Bytes
    <3>2. QED BY <3>1
  <2>4. QED BY <2>1, <2>2, <2>3
<1>2. ASSUME NEW c \in Ascii PROVE Bytes(c) = 1
  <2>1. c \notin {"acute", "nbsp"} /\ c # "bom"
    BY DigitsAre DEF Ascii
  <2>2. QED BY <2>1, Zenon DEF Bytes
<1>3. QED BY <1>1, <1>2

(* The bytes of one character.                                             *)
LEMMA EncodeCharType ==
  ASSUME NEW A, NEW c \in A
  PROVE  /\ EncodeChar(c) \in Seq(Octets(A)) /\ Len(EncodeChar(c)) = Bytes(c)
         /\ \A k \in 1..Bytes(c) : EncodeChar(c)[k] = <<c, k>>
<1>1. Bytes(c) \in 1..3
  BY BytesRange
<1>2. EncodeChar(c) = [k \in 1..Bytes(c) |-> <<c, k>>]
  BY DEF EncodeChar
<1>3. \A k \in 1..Bytes(c) : <<c, k>> \in Octets(A)
  BY <1>1 DEF Octets
<1>4. QED BY <1>1, <1>2, <1>3

CharBytes(t) == [i \in DOMAIN t |-> EncodeChar(t[i])]

(* The bytes of the characters of a text that grows.                       *)
LEMMA CharBytesAppend ==
  ASSUME NEW A, NEW t \in Seq(A), NEW c \in A
  PROVE  /\ CharBytes(t) \in Seq(Seq(Octets(A)))
         /\ CharBytes(Append(t, c)) = Append(CharBytes(t), EncodeChar(c))
<1>1. ASSUME NEW s \in Seq(A)
      PROVE  /\ CharBytes(s) \in Seq(Seq(Octets(A))) /\ Len(CharBytes(s)) = Len(s)
             /\ \A i \in 1..Len(s) : CharBytes(s)[i] = EncodeChar(s[i])
  <2>1. DOMAIN s = 1..Len(s) /\ Len(s) \in Nat
    BY LenProperties
  <2>2. \A i \in 1..Len(s) : EncodeChar(s[i]) \in Seq(Octets(A))
    BY EncodeCharType, ElementOfSeq
  <2>3. CharBytes(s) = [i \in 1..Len(s) |-> EncodeChar(s[i])]
    BY <2>1 DEF CharBytes
  <2>4. QED BY <2>1, <2>2, <2>3
<1> DEFINE r == Append(t, c)
           b == CharBytes(t)
           e == EncodeChar(c)
<1>2. /\ r \in Seq(A) /\ Len(r) = Len(t) + 1 /\ Len(t) \in Nat
      /\ \A i \in 1..Len(t) : r[i] = t[i]
      /\ r[Len(t) + 1] = c
  BY AppendProperties, LenProperties
<1>3. e \in Seq(Octets(A))
  BY EncodeCharType
<1>4. b \in Seq(Seq(Octets(A))) /\ Len(b) = Len(t) /\ \A i \in 1..Len(t) : b[i] = EncodeChar(t[i])
  BY <1>1
<1>5. /\ CharBytes(r) \in Seq(Seq(Octets(A))) /\ Len(CharBytes(r)) = Len(r)
      /\ \A i \in 1..Len(r) : CharBytes(r)[i] = EncodeChar(r[i])
  BY <1>1, <1>2
<1> HIDE DEF r, b
<1>6. /\ Append(b, e) \in Seq(Seq(Octets(A))) /\ Len(Append(b, e)) = Len(b) + 1
      /\ \A i \in 1..Len(b) : Append(b, e)[i] = b[i]
      /\ Append(b, e)[Len(b) + 1] = e
  <2> HIDE DEF e
  <2> QED BY <1>3, <1>4, AppendProperties
<1>7. ASSUME NEW i \in 1..Len(r) PROVE CharBytes(r)[i] = Append(b, e)[i]
  <2>1. CASE i = Len(t) + 1
    BY <1>2, <1>4, <1>5, <1>6, <2>1
  <2>2. CASE i # Len(t) + 1
    <3>1. i \in 1..Len(t)
      BY <1>2, <2>2
    <3>2. QED BY <1>2, <1>4, <1>5, <1>6, <3>1
  <2>3. QED BY <2>1, <2>2
<1>8. CharBytes(r) = Append(b, e)
  <2> HIDE DEF e
  <2> QED BY <1>2, <1>4, <1>5, <1>6, <1>7, SeqEqual
<1>9. QED BY <1>4, <1>8 DEF r, b

(* The encoding of a text that grows.                                      *)
LEMMA EncodeAppend ==
  ASSUME NEW A
  PROVE  /\ Encode(<<>>) = <<>>
         /\ \A t \in Seq(A) : Encode(t) \in Seq(Octets(A))
         /\ \A t \in Seq(A), c \in A : Encode(Append(t, c)) = Encode(t) \o EncodeChar(c)
<1>1. \A t : Encode(t) = FlattenSeq(CharBytes(t))
  BY DEF Encode, CharBytes
<1>2. CharBytes(<<>>) = <<>>
  BY DEF CharBytes
<1>3. Encode(<<>>) = <<>>
  BY <1>1, <1>2, FlattenAppend
<1>4. ASSUME NEW t \in Seq(A) PROVE Encode(t) \in Seq(Octets(A))
  <2>1. CharBytes(t) \in Seq(Seq(Octets(A)))
    <3>1. CASE t = <<>>
      BY <1>2, <3>1, EmptySeq
    <3>2. CASE t # <<>>
      <4>1. t[1] \in A
        BY <3>2, EmptySeq, LenProperties, ElementOfSeq
      <4>2. QED BY <4>1, CharBytesAppend
    <3>3. QED BY <3>1, <3>2
  <2>2. QED BY <1>1, <2>1, FlattenAppend
<1>5. ASSUME NEW t \in Seq(A), NEW c \in A PROVE Encode(Append(t, c)) = Encode(t) \o EncodeChar(c)
  <2>1. CharBytes(t) \in Seq(Seq(Octets(A))) /\ EncodeChar(c) \in Seq(Octets(A))
    BY CharBytesAppend, EncodeCharType
  <2>2. CharBytes(Append(t, c)) = Append(CharBytes(t), EncodeChar(c))
    BY CharBytesAppend
  <2>3. FlattenSeq(Append(CharBytes(t), EncodeChar(c))) = FlattenSeq(CharBytes(t)) \o EncodeChar(c)
    BY <2>1, FlattenAppend
  <2>4. QED BY <1>1, <2>2, <2>3
<1>6. QED BY <1>3, <1>4, <1>5

Marks(b) == [i \in DOMAIN b |-> IF b[i][2] = 1 THEN <<b[i][1]>> ELSE <<>>]
Starts(b) == FlattenSeq(Marks(b))

(* The first bytes of characters, marked in each of a sequence of bytes.   *)
LEMMA MarksType ==
  ASSUME NEW A, NEW b \in Seq(Octets(A))
  PROVE  /\ Marks(b) \in Seq(Seq(A)) /\ Len(Marks(b)) = Len(b)
         /\ \A i \in 1..Len(b) : Marks(b)[i] = IF b[i][2] = 1 THEN <<b[i][1]>> ELSE <<>>
<1>1. DOMAIN b = 1..Len(b) /\ Len(b) \in Nat
  BY LenProperties
<1> DEFINE M(i) == IF b[i][2] = 1 THEN <<b[i][1]>> ELSE <<>>
<1>2. ASSUME NEW i \in 1..Len(b) PROVE M(i) \in Seq(A)
  <2>1. b[i] \in Octets(A)
    BY ElementOfSeq
  <2>2. b[i][1] \in A
    BY <2>1 DEF Octets
  <2>3. QED BY <2>2
<1>3. Marks(b) = [i \in 1..Len(b) |-> M(i)]
  BY <1>1 DEF Marks
<1> HIDE DEF M
<1>4. Marks(b) \in Seq(Seq(A)) /\ Len(Marks(b)) = Len(b) /\ \A i \in 1..Len(b) : Marks(b)[i] = M(i)
  BY <1>1, <1>2, <1>3
<1>5. QED BY <1>4 DEF M

(* Marks of bytes in a row.                                                *)
LEMMA MarksConcat ==
  ASSUME NEW A, NEW a \in Seq(Octets(A)), NEW b \in Seq(Octets(A))
  PROVE  Marks(a \o b) = Marks(a) \o Marks(b)
<1>1. /\ a \o b \in Seq(Octets(A)) /\ Len(a \o b) = Len(a) + Len(b)
      /\ \A i \in 1..Len(a) + Len(b) : (a \o b)[i] = IF i <= Len(a) THEN a[i] ELSE b[i - Len(a)]
  BY ConcatProperties
<1>2. Len(a) \in Nat /\ Len(b) \in Nat
  BY LenProperties
<1> DEFINE c == a \o b
           M(x) == IF x[2] = 1 THEN <<x[1]>> ELSE <<>>
           r == Marks(a) \o Marks(b)
<1> HIDE DEF c, M
<1>3. /\ Marks(c) \in Seq(Seq(A)) /\ Len(Marks(c)) = Len(c)
      /\ \A i \in 1..Len(c) : Marks(c)[i] = M(c[i])
  BY <1>1, MarksType DEF M, c
<1>4. /\ Marks(a) \in Seq(Seq(A)) /\ Len(Marks(a)) = Len(a)
      /\ \A i \in 1..Len(a) : Marks(a)[i] = M(a[i])
  BY MarksType DEF M
<1>5. /\ Marks(b) \in Seq(Seq(A)) /\ Len(Marks(b)) = Len(b)
      /\ \A i \in 1..Len(b) : Marks(b)[i] = M(b[i])
  BY MarksType DEF M
<1>6. /\ r \in Seq(Seq(A)) /\ Len(r) = Len(a) + Len(b)
      /\ \A i \in 1..Len(a) + Len(b) :
           r[i] = IF i <= Len(a) THEN Marks(a)[i] ELSE Marks(b)[i - Len(a)]
  <2> DEFINE B == Seq(A)
             ma == Marks(a)
             mb == Marks(b)
  <2>1. ma \in Seq(B) /\ Len(ma) = Len(a) /\ mb \in Seq(B) /\ Len(mb) = Len(b)
    BY <1>4, <1>5
  <2> HIDE DEF B, ma, mb
  <2>2. /\ ma \o mb \in Seq(B) /\ Len(ma \o mb) = Len(ma) + Len(mb)
        /\ \A i \in 1..Len(ma) + Len(mb) :
             (ma \o mb)[i] = IF i <= Len(ma) THEN ma[i] ELSE mb[i - Len(ma)]
    BY <2>1, ConcatProperties
  <2>3. QED BY <2>1, <2>2 DEF B, ma, mb
<1> HIDE DEF r
<1>7. ASSUME NEW i \in 1..Len(c) PROVE Marks(c)[i] = r[i]
  <2>0. i \in 1..Len(a) + Len(b)
    BY <1>1 DEF c
  <2>1. CASE i <= Len(a)
    <3>1. i \in 1..Len(a) /\ c[i] = a[i]
      BY <1>1, <1>2, <2>0, <2>1 DEF c
    <3>2. QED BY <1>3, <1>4, <1>6, <2>0, <2>1, <3>1
  <2>2. CASE ~(i <= Len(a))
    <3>1. i - Len(a) \in 1..Len(b) /\ c[i] = b[i - Len(a)]
      BY <1>1, <1>2, <2>0, <2>2 DEF c
    <3>2. QED BY <1>3, <1>5, <1>6, <2>0, <2>2, <3>1
  <2>3. QED BY <2>1, <2>2
<1>8. Len(c) = Len(a) + Len(b)
  BY <1>1 DEF c
<1>9. Marks(c) = r
  BY <1>3, <1>6, <1>7, <1>8, SeqEqual
<1>10. QED BY <1>9 DEF c, r

(* The texts of bytes in a row, and of the bytes of one character.         *)
LEMMA StartsConcat ==
  ASSUME NEW A
  PROVE  /\ Starts(<<>>) = <<>>
         /\ \A a \in Seq(Octets(A)) : Starts(a) \in Seq(A)
         /\ \A a, b \in Seq(Octets(A)) : Starts(a \o b) = Starts(a) \o Starts(b)
         /\ \A c \in A : Starts(EncodeChar(c)) = <<c>>
<1>1. Starts(<<>>) = <<>>
  <2>1. Marks(<<>>) = <<>>
    BY DEF Marks
  <2>2. QED BY <2>1, FlattenAppend DEF Starts
<1>2. ASSUME NEW a \in Seq(Octets(A)) PROVE Starts(a) \in Seq(A)
  <2>1. Marks(a) \in Seq(Seq(A))
    BY MarksType
  <2>2. QED BY <2>1, FlattenAppend DEF Starts
<1>3. ASSUME NEW a \in Seq(Octets(A)), NEW b \in Seq(Octets(A))
      PROVE  Starts(a \o b) = Starts(a) \o Starts(b)
  <2>1. Marks(a) \in Seq(Seq(A)) /\ Marks(b) \in Seq(Seq(A))
    BY MarksType
  <2>2. Marks(a \o b) = Marks(a) \o Marks(b)
    BY MarksConcat
  <2>3. QED BY <2>1, <2>2, FlattenConcat DEF Starts
<1>4. ASSUME NEW c \in A PROVE Starts(EncodeChar(c)) = <<c>>
  <2> DEFINE e == EncodeChar(c)
             F == [n \in Nat |-> IF n = 0 THEN <<>> ELSE <<c>>]
  <2>1. e \in Seq(Octets(A)) /\ Len(e) = Bytes(c) /\ \A k \in 1..Bytes(c) : e[k] = <<c, k>>
    BY EncodeCharType
  <2>2. Bytes(c) \in 1..3
    BY BytesRange
  <2> HIDE DEF e
  <2>3. /\ Marks(e) \in Seq(Seq(A)) /\ Len(Marks(e)) = Len(e)
        /\ \A i \in 1..Len(e) : Marks(e)[i] = IF e[i][2] = 1 THEN <<e[i][1]>> ELSE <<>>
    BY <2>1, MarksType
  <2>4. \A i \in 1..Len(e) : Marks(e)[i] = IF i = 1 THEN <<c>> ELSE <<>>
    BY <2>1, <2>3
  <2>5. <<>> \in Seq(A) /\ <<c>> \in Seq(A)
    OBVIOUS
  <2>6. <<>> \o <<c>> = <<c>> /\ <<c>> \o <<>> = <<c>>
    BY <2>5, ConcatEmptySeq
  <2>7. F \in [Nat -> Seq(A)] /\ F[0] = <<>> /\ \A n \in Nat \ {0} : F[n] = <<c>>
    BY <2>5
  <2> HIDE DEF F
  <2>8. ASSUME NEW n \in 1..Len(Marks(e)) PROVE F[n] = F[n - 1] \o Marks(e)[n]
    <3>1. n \in Nat \ {0} /\ n \in 1..Len(e)
      BY <2>1, <2>2, <2>3
    <3>2. CASE n = 1
      <4>1. F[n - 1] = <<>> /\ Marks(e)[n] = <<c>> /\ F[n] = <<c>>
        BY <2>4, <2>7, <3>1, <3>2
      <4>2. QED BY <2>6, <4>1
    <3>3. CASE n # 1
      <4>1. n - 1 \in Nat \ {0}
        BY <3>1, <3>3
      <4>2. F[n - 1] = <<c>> /\ F[n] = <<c>>
        BY <2>7, <3>1, <4>1
      <4>3. Marks(e)[n] = <<>>
        BY <2>4, <3>1, <3>3
      <4>4. QED BY <2>6, <4>2, <4>3
    <3>4. QED BY <3>2, <3>3
  <2>9. Accumulates(F, Marks(e))
    BY <2>7, <2>8 DEF Accumulates
  <2>10. FlattenSeq(Marks(e)) = F[Len(Marks(e))]
    BY <2>3, <2>7, <2>9, FlattenIs
  <2>11. Len(Marks(e)) \in Nat \ {0}
    BY <2>1, <2>2, <2>3
  <2>12. QED BY <2>7, <2>10, <2>11 DEF Starts, e
<1>5. QED BY <1>1, <1>2, <1>3, <1>4

(* A text is what its bytes decode to.                                     *)
LEMMA DecodeEncode ==
  ASSUME NEW A, NEW t \in Seq(A)
  PROVE  Starts(Encode(t)) = t /\ Decode(Encode(t)) = Ok(t)
<1> DEFINE T == {s \in Seq(A) : Starts(Encode(s)) = s}
<1>1. <<>> \in T
  BY EmptySeq, EncodeAppend, StartsConcat
<1>2. ASSUME NEW s \in Seq(A), NEW c \in A, s \in T PROVE Append(s, c) \in T
  <2>1. Encode(Append(s, c)) = Encode(s) \o EncodeChar(c)
    BY EncodeAppend
  <2>2. Encode(s) \in Seq(Octets(A)) /\ EncodeChar(c) \in Seq(Octets(A))
    BY EncodeAppend, EncodeCharType
  <2>3. Starts(Encode(s) \o EncodeChar(c)) = Starts(Encode(s)) \o <<c>>
    BY <2>2, StartsConcat
  <2>4. Append(s, c) = s \o <<c>> /\ Append(s, c) \in Seq(A)
    BY AppendIsConcat, AppendProperties
  <2>5. QED BY <1>2, <2>1, <2>3, <2>4
<1>3. Seq(A) \subseteq T
  <2> HIDE DEF T
  <2> QED BY <1>1, <1>2, TextInduct
<1>4. Starts(Encode(t)) = t
  BY <1>3
<1>5. QED BY <1>4, Zenon DEF Decode, Starts, Marks

(* What decodes is the encoding of what it decodes to.                     *)
LEMMA DecodeOk ==
  ASSUME NEW A, NEW b \in Seq(Octets(A)), Decode(b).ok
  PROVE  /\ Decode(b) = Ok(Decode(b).value) /\ Decode(b).value \in Seq(A)
         /\ Encode(Decode(b).value) = b
<1>1. Decode(b) = IF Encode(Starts(b)) = b THEN Ok(Starts(b)) ELSE Error
  BY Zenon DEF Decode, Starts, Marks
<1>2. Encode(Starts(b)) = b
  BY <1>1 DEF Error
<1>3. Decode(b) = Ok(Starts(b)) /\ Decode(b).value = Starts(b)
  BY <1>1, <1>2 DEF Ok
<1>4. QED BY <1>2, <1>3, StartsConcat

(* The bytes of a text that grows, one by one.                             *)
LEMMA EncodeGrow ==
  ASSUME NEW A, NEW t \in Seq(A), NEW c \in A
  PROVE  LET e == Encode(t)
             r == Encode(Append(t, c))
         IN /\ Len(e) \in Nat /\ Len(r) = Len(e) + Bytes(c)
            /\ \A i \in 1..Len(e) : r[i] = e[i]
            /\ \A k \in 1..Bytes(c) : r[Len(e) + k] = <<c, k>>
<1> DEFINE e == Encode(t)
           x == EncodeChar(c)
           r == Encode(Append(t, c))
<1>1. e \in Seq(Octets(A)) /\ Len(e) \in Nat
  BY EncodeAppend, LenProperties
<1>2. x \in Seq(Octets(A)) /\ Len(x) = Bytes(c) /\ \A k \in 1..Bytes(c) : x[k] = <<c, k>>
  BY EncodeCharType
<1>3. r = e \o x /\ Bytes(c) \in 1..3
  BY EncodeAppend, BytesRange
<1> HIDE DEF e, x, r
<1>4. /\ Len(r) = Len(e) + Len(x)
      /\ \A i \in 1..Len(e) + Len(x) : r[i] = IF i <= Len(e) THEN e[i] ELSE x[i - Len(e)]
  BY <1>1, <1>2, <1>3, ConcatProperties
<1>5. \A i \in 1..Len(e) : r[i] = e[i]
  BY <1>1, <1>2, <1>3, <1>4
<1>6. ASSUME NEW k \in 1..Bytes(c) PROVE r[Len(e) + k] = <<c, k>>
  <2>1. Len(e) + k \in 1..Len(e) + Len(x) /\ ~(Len(e) + k <= Len(e)) /\ (Len(e) + k) - Len(e) = k
    BY <1>1, <1>2, <1>3
  <2>2. r[Len(e) + k] = x[k]
    BY <1>4, <2>1
  <2>3. QED BY <1>2, <2>2
<1>7. QED BY <1>1, <1>2, <1>4, <1>5, <1>6 DEF e, r

(* The bytes of a text are bytes of its characters, each of which begins.  *)
LEMMA EncodeOccurs ==
  ASSUME NEW A, NEW t \in Seq(A)
  PROVE  /\ \A i \in 1..Len(Encode(t)) : \E j \in 1..Len(t) : Encode(t)[i][1] = t[j]
         /\ \A j \in 1..Len(t) : \E i \in 1..Len(Encode(t)) : Encode(t)[i] = <<t[j], 1>>
<1> DEFINE Of(s) == \A i \in 1..Len(Encode(s)) : \E j \in 1..Len(s) : Encode(s)[i][1] = s[j]
           Begins(s) == \A j \in 1..Len(s) : \E i \in 1..Len(Encode(s)) : Encode(s)[i] = <<s[j], 1>>
           T == {s \in Seq(A) : Of(s) /\ Begins(s)}
<1>1. <<>> \in T
  BY EmptySeq, EncodeAppend
<1>2. ASSUME NEW s \in Seq(A), NEW c \in A, s \in T PROVE Append(s, c) \in T
  <2> DEFINE r == Append(s, c)
             e == Encode(s)
             b == Encode(Append(s, c))
  <2>1. /\ r \in Seq(A) /\ Len(r) = Len(s) + 1 /\ Len(s) \in Nat
        /\ \A i \in 1..Len(s) : r[i] = s[i]
        /\ r[Len(s) + 1] = c
    BY AppendProperties, LenProperties
  <2>2. /\ Len(e) \in Nat /\ Len(b) = Len(e) + Bytes(c) /\ Bytes(c) \in 1..3
        /\ \A i \in 1..Len(e) : b[i] = e[i]
        /\ \A k \in 1..Bytes(c) : b[Len(e) + k] = <<c, k>>
    BY EncodeGrow, BytesRange
  <2>3. Of(s) /\ Begins(s)
    BY <1>2
  <2>4. Of(s) <=> \A i \in 1..Len(e) : \E j \in 1..Len(s) : e[i][1] = s[j]
    OBVIOUS
  <2>5. Begins(s) <=> \A j \in 1..Len(s) : \E i \in 1..Len(e) : e[i] = <<s[j], 1>>
    OBVIOUS
  <2>6. Of(r) <=> \A i \in 1..Len(b) : \E j \in 1..Len(r) : b[i][1] = r[j]
    OBVIOUS
  <2>7. Begins(r) <=> \A j \in 1..Len(r) : \E i \in 1..Len(b) : b[i] = <<r[j], 1>>
    OBVIOUS
  <2> HIDE DEF Of, Begins, r, e, b
  <2>8. Of(r)
    <3>1. SUFFICES ASSUME NEW i \in 1..Len(b) PROVE \E j \in 1..Len(r) : b[i][1] = r[j]
      BY <2>6
    <3>2. CASE i \in 1..Len(e)
      <4>1. PICK j \in 1..Len(s) : e[i][1] = s[j]
        BY <2>3, <2>4, <3>2
      <4>2. j \in 1..Len(r) /\ b[i][1] = r[j]
        BY <2>1, <2>2, <3>2, <4>1
      <4>3. QED BY <4>2
    <3>3. CASE i \notin 1..Len(e)
      <4>1. i - Len(e) \in 1..Bytes(c) /\ Len(e) + (i - Len(e)) = i
        BY <2>2, <3>3
      <4>2. b[i] = <<c, i - Len(e)>>
        BY <2>2, <4>1
      <4>3. Len(s) + 1 \in 1..Len(r) /\ b[i][1] = r[Len(s) + 1]
        BY <2>1, <4>2
      <4>4. QED BY <4>3
    <3>4. QED BY <3>2, <3>3
  <2>9. Begins(r)
    <3>1. SUFFICES ASSUME NEW j \in 1..Len(r) PROVE \E i \in 1..Len(b) : b[i] = <<r[j], 1>>
      BY <2>7
    <3>2. CASE j \in 1..Len(s)
      <4>1. PICK i \in 1..Len(e) : e[i] = <<s[j], 1>>
        BY <2>3, <2>5, <3>2
      <4>2. i \in 1..Len(b) /\ b[i] = <<r[j], 1>>
        BY <2>1, <2>2, <3>2, <4>1
      <4>3. QED BY <4>2
    <3>3. CASE j \notin 1..Len(s)
      <4>1. j = Len(s) + 1 /\ 1 \in 1..Bytes(c)
        BY <2>1, <2>2, <3>3
      <4>2. Len(e) + 1 \in 1..Len(b) /\ b[Len(e) + 1] = <<r[j], 1>>
        BY <2>1, <2>2, <4>1
      <4>3. QED BY <4>2
    <3>4. QED BY <3>2, <3>3
  <2>10. QED BY <2>1, <2>8, <2>9 DEF r
<1>3. Seq(A) \subseteq T
  <2> HIDE DEF T
  <2> QED BY <1>1, <1>2, TextInduct
<1>4. QED BY <1>3

(* A text of characters of one byte is encoded character by character.     *)
LEMMA EncodeSingle ==
  ASSUME NEW A, NEW t \in Seq(A), \A i \in 1..Len(t) : Bytes(t[i]) = 1
  PROVE  Len(Encode(t)) = Len(t) /\ \A i \in 1..Len(t) : Encode(t)[i] = <<t[i], 1>>
<1> DEFINE Single(s) == \A i \in 1..Len(s) : Bytes(s[i]) = 1
           Plain(s) == Len(Encode(s)) = Len(s) /\ \A i \in 1..Len(s) : Encode(s)[i] = <<s[i], 1>>
           T == {s \in Seq(A) : Single(s) => Plain(s)}
<1>1. <<>> \in T
  BY EmptySeq, EncodeAppend
<1>2. ASSUME NEW s \in Seq(A), NEW c \in A, s \in T PROVE Append(s, c) \in T
  <2> DEFINE r == Append(s, c)
             e == Encode(s)
             b == Encode(Append(s, c))
  <2>1. /\ r \in Seq(A) /\ Len(r) = Len(s) + 1 /\ Len(s) \in Nat
        /\ \A i \in 1..Len(s) : r[i] = s[i]
        /\ r[Len(s) + 1] = c
    BY AppendProperties, LenProperties
  <2>2. /\ Len(e) \in Nat /\ Len(b) = Len(e) + Bytes(c)
        /\ \A i \in 1..Len(e) : b[i] = e[i]
        /\ \A k \in 1..Bytes(c) : b[Len(e) + k] = <<c, k>>
    BY EncodeGrow
  <2>3. Plain(s) <=> Len(e) = Len(s) /\ \A i \in 1..Len(s) : e[i] = <<s[i], 1>>
    OBVIOUS
  <2>4. Plain(r) <=> Len(b) = Len(r) /\ \A i \in 1..Len(r) : b[i] = <<r[i], 1>>
    OBVIOUS
  <2>5. SUFFICES ASSUME Single(r) PROVE Plain(r)
    BY <2>1 DEF r
  <2> HIDE DEF Plain, r, e, b
  <2>6. Single(s) /\ Bytes(c) = 1
    <3>1. \A i \in 1..Len(s) : i \in 1..Len(r) /\ r[i] = s[i]
      BY <2>1
    <3>2. Len(s) + 1 \in 1..Len(r)
      BY <2>1
    <3>3. QED BY <2>1, <2>5, <3>1, <3>2
  <2>7. Plain(s)
    BY <1>2, <2>6
  <2>8. Len(b) = Len(r) /\ Len(e) = Len(s) /\ 1 \in 1..Bytes(c)
    BY <2>1, <2>2, <2>3, <2>6, <2>7
  <2>9. ASSUME NEW i \in 1..Len(r) PROVE b[i] = <<r[i], 1>>
    <3>1. CASE i \in 1..Len(s)
      BY <2>1, <2>2, <2>3, <2>7, <2>8, <3>1
    <3>2. CASE i \notin 1..Len(s)
      <4>1. i = Len(e) + 1 /\ r[i] = c
        BY <2>1, <2>8, <3>2
      <4>2. QED BY <2>2, <2>8, <4>1
    <3>3. QED BY <3>1, <3>2
  <2>10. QED BY <2>4, <2>8, <2>9
<1>3. Seq(A) \subseteq T
  <2> HIDE DEF T
  <2> QED BY <1>1, <1>2, TextInduct
<1>4. QED BY <1>3

(* A text that loses its first character loses the bytes of it.            *)
LEMMA EncodeTail ==
  ASSUME NEW A, NEW t \in Seq(A), t # <<>>
  PROVE  Len(Encode(t)) = Bytes(Head(t)) + Len(Encode(Tail(t)))
<1> DEFINE T == {s \in Seq(A) : s # <<>> =>
                   Len(Encode(s)) = Bytes(Head(s)) + Len(Encode(Tail(s)))}
<1>1. <<>> \in T
  BY EmptySeq
<1>2. ASSUME NEW s \in Seq(A), NEW c \in A, s \in T PROVE Append(s, c) \in T
  <2> DEFINE r == Append(s, c)
  <2>1. r \in Seq(A)
    BY AppendProperties
  <2>2. Len(Encode(s)) \in Nat /\ Len(Encode(r)) = Len(Encode(s)) + Bytes(c) /\ Bytes(c) \in 1..3
    BY EncodeGrow, BytesRange
  <2>3. /\ Head(r) = IF s = <<>> THEN c ELSE Head(s)
        /\ Tail(r) = IF s = <<>> THEN <<>> ELSE Append(Tail(s), c)
    BY HeadTailAppend
  <2> HIDE DEF r
  <2>4. Len(Encode(<<>>)) = 0
    BY EncodeAppend, EmptySeq
  <2>5. CASE s = <<>>
    <3>1. Head(r) = c /\ Tail(r) = <<>> /\ Len(Encode(s)) = 0
      BY <2>3, <2>4, <2>5
    <3>2. Bytes(Head(r)) = Bytes(c) /\ Len(Encode(Tail(r))) = 0
      BY <2>4, <3>1, Zenon
    <3>3. Len(Encode(r)) = Bytes(Head(r)) + Len(Encode(Tail(r)))
      BY <2>2, <3>1, <3>2
    <3>4. QED BY <2>1, <3>3 DEF r
  <2>6. CASE s # <<>>
    <3>1. Tail(s) \in Seq(A)
      BY <2>6, HeadTailProperties
    <3>2. /\ Len(Encode(Tail(s))) \in Nat
          /\ Len(Encode(Append(Tail(s), c))) = Len(Encode(Tail(s))) + Bytes(c)
      BY <3>1, EncodeGrow
    <3>3. Len(Encode(s)) = Bytes(Head(s)) + Len(Encode(Tail(s)))
      BY <1>2, <2>6
    <3>4. Bytes(Head(s)) \in 1..3
      BY BytesRange
    <3>5. Head(r) = Head(s) /\ Tail(r) = Append(Tail(s), c)
      BY <2>3, <2>6
    <3>6. Bytes(Head(r)) = Bytes(Head(s)) /\ Len(Encode(Tail(r))) = Len(Encode(Append(Tail(s), c)))
      BY <3>5, Zenon
    <3>7. Len(Encode(r)) = Bytes(Head(r)) + Len(Encode(Tail(r)))
      <4> DEFINE l == Len(Encode(r))
                 k == Len(Encode(s))
                 m == Len(Encode(Tail(s)))
                 h == Bytes(Head(s))
                 d == Bytes(c)
      <4>1. l = k + d /\ k = h + m /\ m \in Nat /\ h \in Int /\ d \in Int
        BY <2>2, <3>2, <3>3, <3>4, BytesRange
      <4> HIDE DEF l, k, m, h, d
      <4>2. l = h + (m + d)
        BY <4>1
      <4>3. QED BY <3>2, <3>6, <4>2 DEF l, m, h, d
    <3>8. QED BY <2>1, <3>7 DEF r
  <2>7. QED BY <2>5, <2>6
<1>3. Seq(A) \subseteq T
  <2> HIDE DEF T
  <2> QED BY <1>1, <1>2, TextInduct
<1>4. QED BY <1>3

(* The bytes of a text are those of its first character and of the rest.   *)
LEMMA EncodeFront ==
  ASSUME NEW A, NEW t \in Seq(A), t # <<>>
  PROVE  Encode(t) = EncodeChar(Head(t)) \o Encode(Tail(t))
<1> DEFINE Parts(s) == Encode(s) = EncodeChar(Head(s)) \o Encode(Tail(s))
           T == {s \in Seq(A) : s # <<>> => Parts(s)}
<1>1. <<>> \in T
  BY EmptySeq
<1>2. ASSUME NEW s \in Seq(A), NEW c \in A, s \in T PROVE Append(s, c) \in T
  <2> DEFINE r == Append(s, c)
  <2>1. r \in Seq(A)
    BY AppendProperties
  <2>2. Encode(r) = Encode(s) \o EncodeChar(c)
    BY EncodeAppend
  <2>3. /\ Head(r) = IF s = <<>> THEN c ELSE Head(s)
        /\ Tail(r) = IF s = <<>> THEN <<>> ELSE Append(Tail(s), c)
    BY HeadTailAppend
  <2>4. EncodeChar(c) \in Seq(Octets(A)) /\ <<>> \in Seq(A)
    BY EncodeCharType, EmptySeq
  <2> HIDE DEF r
  <2>5. CASE s = <<>>
    <3>1. Head(r) = c /\ Tail(r) = <<>>
      BY <2>3, <2>5
    <3>2. Encode(s) = <<>> /\ Encode(Tail(r)) = <<>>
      BY <2>5, <3>1, EncodeAppend
    <3>3. <<>> \o EncodeChar(c) = EncodeChar(c) /\ EncodeChar(c) \o <<>> = EncodeChar(c)
      BY <2>4, ConcatEmptySeq
    <3>4. Parts(r)
      BY <2>2, <3>1, <3>2, <3>3, Zenon
    <3>5. QED BY <2>1, <3>4 DEF r
  <2>6. CASE s # <<>>
    <3> DEFINE h == EncodeChar(Head(s))
               m == Encode(Tail(s))
               x == EncodeChar(c)
    <3>1. Head(r) = Head(s) /\ Tail(r) = Append(Tail(s), c)
      BY <2>3, <2>6
    <3>2. Head(s) \in A /\ Tail(s) \in Seq(A)
      BY <2>6, HeadTailProperties
    <3>3. Encode(s) = h \o m
      BY <1>2, <2>6
    <3>4. h \in Seq(Octets(A)) /\ m \in Seq(Octets(A))
      BY <3>2, EncodeCharType, EncodeAppend
    <3>5. Encode(Append(Tail(s), c)) = m \o x
      BY <3>2, EncodeAppend
    <3>6. (h \o m) \o x = h \o (m \o x)
      <4> DEFINE O == Octets(A)
      <4>1. h \in Seq(O) /\ m \in Seq(O) /\ x \in Seq(O)
        BY <2>4, <3>4
      <4> HIDE DEF h, m, x, O
      <4>2. QED BY <4>1, ConcatAssociative, SMTT(20)
    <3>7. Parts(r)
      BY <2>2, <3>1, <3>3, <3>5, <3>6, Zenon
    <3>8. QED BY <2>1, <3>7 DEF r
  <2>7. QED BY <2>5, <2>6
<1>3. Seq(A) \subseteq T
  <2> HIDE DEF T
  <2> QED BY <1>1, <1>2, TextInduct
<1>4. QED BY <1>3

-----------------------------------------------------------------------------
(* Numbers and their numerals.                                             *)

Figures == Digits \cup {"_"}
Weighs(M, b) ==
  M[0] = 0 /\ \A k \in 1..Len(b) :
                M[k] = IF b[k] = "_" THEN M[k - 1] ELSE 10 * M[k - 1] + Digit(b[k])

(* A sequence of partial values that ends in the value of the literal.     *)
LEMMA MagnitudeIs ==
  ASSUME NEW b \in Seq(Figures), NEW M \in [Nat -> Nat], Weighs(M, b)
  PROVE  Magnitude(b) = M[Len(b)]
<1> DEFINE L == Len(b)
           W(n, k) == IF b[k] = "_" THEN n ELSE 10 * n + Digit(b[k])
           Eqn(g) == g = [k \in 0..L |-> IF k = 0 THEN 0 ELSE W(g[k - 1], k)]
           h == [k \in 0..L |-> M[k]]
           c == CHOOSE g : Eqn(g)
<1>0. L \in Nat
  BY LenProperties
<1>1. M[0] = 0 /\ \A k \in 1..L : M[k] = W(M[k - 1], k)
  BY DEF Weighs
<1>10. Magnitude(b) = c[L]
  BY Zenon DEF Magnitude
<1> HIDE DEF W, L
<1>2. Eqn(h)
  <2>1. ASSUME NEW k \in 0..L PROVE h[k] = IF k = 0 THEN 0 ELSE W(h[k - 1], k)
    <3>1. CASE k = 0
      BY <1>0, <1>1, <3>1
    <3>2. CASE k # 0
      <4>1. k \in 1..L /\ k - 1 \in 0..L
        BY <1>0, <3>2
      <4>2. h[k] = M[k] /\ h[k - 1] = M[k - 1]
        BY <4>1
      <4> HIDE DEF h
      <4>3. QED BY <1>1, <3>2, <4>1, <4>2
    <3>3. QED BY <3>1, <3>2
  <2>2. h = [k \in 0..L |-> h[k]]
    OBVIOUS
  <2> HIDE DEF h
  <2>3. QED BY <2>1, <2>2
<1>3. Eqn(c)
  <2> HIDE DEF Eqn, h
  <2> QED BY <1>2
<1> HIDE DEF c
<1> DEFINE T == {k \in Nat : k <= L => c[k] = M[k]}
<1>5. 0 \in T
  BY <1>0, <1>1, <1>3
<1>6. ASSUME NEW k \in Nat, k \in T PROVE k + 1 \in T
  <2>1. SUFFICES ASSUME k + 1 <= L PROVE c[k + 1] = M[k + 1]
    OBVIOUS
  <2>2. k + 1 \in 0..L /\ k + 1 \in 1..L /\ k + 1 # 0 /\ (k + 1) - 1 = k
    BY <1>0, <2>1
  <2>3. c[k] = M[k]
    BY <1>0, <1>6, <2>1
  <2>4. c[k + 1] = W(c[k], k + 1)
    BY <1>3, <2>2
  <2>5. M[k + 1] = W(M[k], k + 1)
    BY <1>1, <2>2
  <2>6. QED BY <2>3, <2>4, <2>5
<1>7. Nat \subseteq T
  <2> HIDE DEF T
  <2> QED BY <1>5, <1>6, Induct
<1>8. L \in T
  <2> HIDE DEF T
  <2> QED BY <1>0, <1>7
<1>9. c[L] = M[L]
  BY <1>0, <1>8
<1>11. QED BY <1>9, <1>10 DEF L

(* Any literal has such partial values.                                    *)
LEMMA MagnitudeSteps ==
  ASSUME NEW b \in Seq(Figures)
  PROVE  \E M \in [Nat -> Nat] : Weighs(M, b)
<1> DEFINE p == [n \in Nat |-> IF n = 0 THEN 0 ELSE n - 1]
           V(n, v) == IF n \in 1..Len(b) /\ b[n] # "_" THEN 10 * v + Digit(b[n]) ELSE v
           G == [z \in Nat \X Nat |-> V(z[1], z[2])]
<1>1. G \in [Nat \X Nat -> Nat]
  <2>1. ASSUME NEW n \in Nat, NEW v \in Nat PROVE V(n, v) \in Nat
    <3>1. CASE n \in 1..Len(b) /\ b[n] # "_"
      <4>1. b[n] \in Figures
        BY <3>1, ElementOfSeq
      <4>2. b[n] \in Digits
        BY <3>1, <4>1 DEF Figures
      <4>3. Digit(b[n]) \in 0..9
        BY <4>2, DigitOfName
      <4>4. V(n, v) = 10 * v + Digit(b[n])
        BY <3>1
      <4> HIDE DEF V
      <4>5. QED BY <4>3, <4>4
    <3>2. CASE ~(n \in 1..Len(b) /\ b[n] # "_")
      BY <3>2
    <3>3. QED BY <3>1, <3>2
  <2> HIDE DEF V
  <2> QED BY <2>1
<1>2. p \in [Nat -> Nat] /\ Descends(p)
  BY DEF Descends
<1>3. PICK M \in [Nat -> Nat] : Follows(M, 0, G, p)
  <2> HIDE DEF G, p
  <2> QED BY <1>1, <1>2, Recursion
<1>4. ASSUME NEW n \in 1..Len(b)
      PROVE  M[n] = IF b[n] = "_" THEN M[n - 1] ELSE 10 * M[n - 1] + Digit(b[n])
  <2>1. n \in Nat /\ n > 0 /\ p[n] = n - 1 /\ n - 1 \in Nat
    BY LenProperties
  <2>2. M[n] = G[<<n, M[n - 1]>>]
    <3> HIDE DEF G, p
    <3> QED BY <1>3, <2>1 DEF Follows
  <2>3. G[<<n, M[n - 1]>>] = V(n, M[n - 1])
    <3> HIDE DEF V
    <3> QED BY <2>1
  <2>4. QED BY <2>2, <2>3
<1>5. M[0] = 0
  BY <1>3 DEF Follows
<1>6. QED BY <1>4, <1>5 DEF Weighs

(* The value of a literal that grows.                                      *)
LEMMA MagnitudeAppend ==
  /\ Magnitude(<<>>) = 0
  /\ \A b \in Seq(Figures) : Magnitude(b) \in Nat
  /\ \A b \in Seq(Figures), c \in Figures :
       Magnitude(Append(b, c)) = IF c = "_" THEN Magnitude(b) ELSE 10 * Magnitude(b) + Digit(c)
<1>1. ASSUME NEW b \in Seq(Figures)
      PROVE  \E M \in [Nat -> Nat] : Weighs(M, b) /\ Magnitude(b) = M[Len(b)]
  BY MagnitudeSteps, MagnitudeIs
<1>2. Magnitude(<<>>) = 0
  <2>1. PICK M \in [Nat -> Nat] : Weighs(M, <<>>) /\ Magnitude(<<>>) = M[Len(<<>>)]
    BY <1>1, EmptySeq
  <2>2. QED BY <2>1, EmptySeq DEF Weighs
<1>3. ASSUME NEW b \in Seq(Figures) PROVE Magnitude(b) \in Nat
  BY <1>1, LenProperties
<1>4. ASSUME NEW b \in Seq(Figures), NEW c \in Figures
      PROVE  Magnitude(Append(b, c))
               = IF c = "_" THEN Magnitude(b) ELSE 10 * Magnitude(b) + Digit(c)
  <2> DEFINE r == Append(b, c)
  <2>1. /\ r \in Seq(Figures) /\ Len(b) \in Nat /\ Len(r) = Len(b) + 1 /\ r[Len(b) + 1] = c
        /\ \A n \in 1..Len(b) : r[n] = b[n]
    BY AppendProperties, LenProperties
  <2> HIDE DEF r
  <2>2. PICK M \in [Nat -> Nat] : Weighs(M, r) /\ Magnitude(r) = M[Len(r)]
    BY <1>1, <2>1
  <2>3. Weighs(M, b)
    <3>1. M[0] = 0
      BY <2>2 DEF Weighs
    <3>2. ASSUME NEW k \in 1..Len(b)
          PROVE  M[k] = IF b[k] = "_" THEN M[k - 1] ELSE 10 * M[k - 1] + Digit(b[k])
      <4>1. k \in 1..Len(r) /\ r[k] = b[k]
        BY <2>1
      <4>2. M[k] = IF r[k] = "_" THEN M[k - 1] ELSE 10 * M[k - 1] + Digit(r[k])
        BY <2>2, <4>1 DEF Weighs
      <4>3. QED BY <4>1, <4>2
    <3>3. QED BY <3>1, <3>2 DEF Weighs
  <2>4. Magnitude(b) = M[Len(b)]
    BY <2>3, MagnitudeIs
  <2>5. Len(r) \in 1..Len(r) /\ Len(r) - 1 = Len(b) /\ r[Len(r)] = c
    BY <2>1
  <2>6. M[Len(r)] = IF c = "_" THEN M[Len(b)] ELSE 10 * M[Len(b)] + Digit(c)
    BY <2>2, <2>5 DEF Weighs
  <2>7. QED BY <2>2, <2>4, <2>6 DEF r
<1>5. QED BY <1>2, <1>3, <1>4

Named(d) ==
  \A k \in Nat : d[k] = IF k < 10 THEN <<DigitNames[k + 1]>>
                        ELSE Append(d[k \div 10], DigitNames[(k % 10) + 1])

(* A number has a numeral.                                                 *)
LEMMA NumeralIs ==
  \E d : /\ Named(d)
         /\ \A n \in Int : Numeral(n) = IF n < 0 THEN <<"-">> \o d[-n] ELSE d[n]
<1> DEFINE p == [n \in Nat |-> n \div 10]
           V(n, t) == IF n < 10 THEN <<DigitNames[n + 1]>> ELSE Append(t, DigitNames[(n % 10) + 1])
           G == [z \in Nat \X Seq(Digits) |-> V(z[1], z[2])]
           Eqn(g) == g = [k \in Nat |-> V(k, g[k \div 10])]
           c == CHOOSE g : Eqn(g)
           a == V(0, <<>>)
<1>1. \A n \in Nat : n % 10 \in 0..9 /\ n \div 10 \in Nat /\ (n > 0 => n \div 10 < n)
  OBVIOUS
<1>2. ASSUME NEW n \in Nat, NEW t \in Seq(Digits) PROVE V(n, t) \in Seq(Digits)
  <2>1. n < 10 => DigitNames[n + 1] \in Digits
    BY DigitOfName
  <2>2. DigitNames[(n % 10) + 1] \in Digits
    BY <1>1, DigitOfName
  <2>3. n < 10 => <<DigitNames[n + 1]>> \in Seq(Digits)
    BY <2>1
  <2>4. Append(t, DigitNames[(n % 10) + 1]) \in Seq(Digits)
    BY <2>2, AppendProperties
  <2>5. QED BY <2>3, <2>4
<1>3. \A n \in Int : Numeral(n) = IF n < 0 THEN <<"-">> \o c[-n] ELSE c[n]
  BY Zenon DEF Numeral
<1>4. a \in Seq(Digits) /\ \A t \in Seq(Digits) : V(0, t) = a
  <2>1. <<>> \in Seq(Digits) /\ 0 \in Nat
    BY EmptySeq
  <2>2. \A t : V(0, t) = <<DigitNames[0 + 1]>>
    OBVIOUS
  <2> HIDE DEF V
  <2>3. QED BY <1>2, <2>1, <2>2
<1> HIDE DEF V, a
<1>5. G \in [Nat \X Seq(Digits) -> Seq(Digits)] /\ p \in [Nat -> Nat]
  BY <1>1, <1>2
<1>6. Descends(p)
  BY <1>1 DEF Descends
<1>7. PICK f \in [Nat -> Seq(Digits)] : Follows(f, a, G, p)
  <2> HIDE DEF G, p
  <2> QED BY <1>4, <1>5, <1>6, Recursion
<1>8. Eqn(f)
  <2>1. ASSUME NEW k \in Nat PROVE f[k] = V(k, f[k \div 10])
    <3>1. f[k \div 10] \in Seq(Digits)
      BY <1>1
    <3>2. CASE k = 0
      <4>1. f[k] = a
        BY <1>7, <3>2 DEF Follows
      <4>2. QED BY <1>4, <3>1, <3>2, <4>1
    <3>3. CASE k # 0
      <4>1. p[k] = k \div 10
        OBVIOUS
      <4>2. f[k] = G[<<k, f[p[k]]>>]
        <5> HIDE DEF G, p
        <5> QED BY <1>7, <3>3 DEF Follows
      <4>3. QED BY <3>1, <4>1, <4>2
    <3>4. QED BY <3>2, <3>3
  <2>2. f = [k \in Nat |-> f[k]]
    OBVIOUS
  <2>3. QED BY <2>1, <2>2
<1>9. Eqn(c)
  <2> HIDE DEF Eqn
  <2> QED BY <1>8
<1> HIDE DEF c
<1>10. Named(c)
  <2>1. \A k \in Nat : c[k] = V(k, c[k \div 10])
    BY <1>9
  <2>2. QED BY <2>1 DEF Named, V
<1>11. QED BY <1>3, <1>10

(* The numeral of a natural number is digits of that value.                *)
LEMMA NamedValue ==
  ASSUME NEW d, Named(d), NEW n \in Nat
  PROVE  d[n] \in Seq(Digits) /\ d[n] # <<>> /\ Magnitude(d[n]) = n
<1> DEFINE Right(k) == d[k] \in Seq(Digits) /\ d[k] # <<>> /\ Magnitude(d[k]) = k
           T == {k \in Nat : Right(k)}
<1>1. ASSUME NEW k \in Nat, \A j \in Nat : j < k => j \in T PROVE k \in T
  <2>1. d[k] = IF k < 10 THEN <<DigitNames[k + 1]>>
               ELSE Append(d[k \div 10], DigitNames[(k % 10) + 1])
    BY DEF Named
  <2>2. CASE k < 10
    <3> DEFINE x == DigitNames[k + 1]
    <3>1. x \in Digits /\ Digit(x) = k
      BY <2>2, DigitOfName
    <3>2. x \in Figures /\ x # "_"
      BY <3>1, DigitsAre DEF Figures
    <3>3. d[k] = <<x>>
      BY <2>1, <2>2
    <3> HIDE DEF x
    <3>4. <<>> \in Seq(Figures) /\ Append(<<>>, x) = <<x>> /\ <<x>> \in Seq(Digits) /\ <<x>> # <<>>
      BY <3>1, EmptySeq
    <3>5. Magnitude(<<x>>) = 10 * Magnitude(<<>>) + Digit(x)
      BY <3>2, <3>4, MagnitudeAppend
    <3>6. Magnitude(<<x>>) = k
      <4>1. Magnitude(<<>>) = 0
        BY MagnitudeAppend
      <4>2. QED BY <3>1, <3>5, <4>1
    <3>7. QED BY <3>3, <3>4, <3>6
  <2>3. CASE ~(k < 10)
    <3> DEFINE x == DigitNames[(k % 10) + 1]
               q == k \div 10
    <3>1. k % 10 \in 0..9 /\ q \in Nat /\ q < k /\ k = 10 * q + (k % 10)
      BY <2>3
    <3>2. x \in Digits /\ Digit(x) = k % 10
      BY <3>1, DigitOfName
    <3>3. x \in Figures /\ x # "_"
      BY <3>2, DigitsAre DEF Figures
    <3>4. d[k] = Append(d[q], x)
      BY <2>1, <2>3
    <3>5. Right(q)
      BY <1>1, <3>1
    <3> HIDE DEF x, q
    <3>6. d[q] \in Seq(Figures)
      <4>1. Digits \subseteq Figures
        BY DEF Figures
      <4>2. QED BY <3>5, <4>1, SeqMonotonic
    <3>7. Magnitude(Append(d[q], x)) = 10 * Magnitude(d[q]) + Digit(x)
      BY <3>3, <3>6, MagnitudeAppend
    <3>8. Magnitude(d[k]) = k
      BY <3>1, <3>2, <3>4, <3>5, <3>7
    <3>9. d[k] \in Seq(Digits) /\ d[k] # <<>>
      BY <3>2, <3>4, <3>5, AppendProperties
    <3>10. QED BY <3>8, <3>9
  <2>4. QED BY <2>2, <2>3
<1>2. Nat \subseteq T
  <2> HIDE DEF T
  <2> QED BY <1>1, StrongInduct
<1>3. QED BY <1>2

(* What String(n) writes, BigInt reads again.                              *)
LEMMA NumeralRoundTrip ==
  ASSUME NEW n \in Int
  PROVE  /\ IsDecimal(Numeral(n)) /\ IntegerOf(Numeral(n)) = n
         /\ Numeral(n) \in Seq(Digits \cup {"-"})
         /\ n >= 0 => Numeral(n) \in Seq(Digits) /\ Numeral(n) # <<>> /\ Magnitude(Numeral(n)) = n
<1>1. PICK d : /\ Named(d)
               /\ \A m \in Int : Numeral(m) = IF m < 0 THEN <<"-">> \o d[-m] ELSE d[m]
  BY NumeralIs
<1>2. ASSUME NEW t \in Seq(Digits), t # <<>>
      PROVE  /\ Head(t) \in Digits /\ Head(t) \notin {"+", "-"} /\ Unsigned(t) = t
             /\ ToSet(t) \subseteq Digits
  <2>1. Head(t) \in Digits
    BY <1>2, HeadTailProperties
  <2>2. Head(t) \notin {"+", "-"}
    BY <2>1, DigitsAre
  <2>3. ToSet(t) \subseteq Digits
    BY ElementOfSeq, LenProperties DEF ToSet
  <2>4. QED BY <2>1, <2>2, <2>3, Zenon DEF Unsigned
<1>3. CASE n >= 0
  <2> DEFINE t == Numeral(n)
  <2>1. t = d[n] /\ n \in Nat
    BY <1>1, <1>3
  <2>2. t \in Seq(Digits) /\ t # <<>> /\ Magnitude(t) = n
    BY <1>1, <2>1, NamedValue
  <2> HIDE DEF t
  <2>3. /\ Head(t) \notin {"+", "-"} /\ Unsigned(t) = t /\ ToSet(t) \subseteq Digits
    BY <1>2, <2>2
  <2>4. IsDecimal(t)
    BY <2>2, <2>3, Zenon DEF IsDecimal
  <2>5. IntegerOf(t) = n
    <3>1. Head(t) # "-"
      BY <2>3
    <3>2. QED BY <2>2, <2>3, <3>1, Zenon DEF IntegerOf
  <2>6. t \in Seq(Digits \cup {"-"})
    BY <2>2
  <2>7. QED BY <2>2, <2>4, <2>5, <2>6 DEF t
<1>4. CASE n < 0
  <2> DEFINE t == Numeral(n)
             u == d[-n]
  <2>1. t = <<"-">> \o u /\ -n \in Nat
    BY <1>1, <1>4
  <2>2. u \in Seq(Digits) /\ u # <<>> /\ Magnitude(u) = -n
    BY <1>1, <2>1, NamedValue
  <2> HIDE DEF t, u
  <2>3. Head(t) = "-" /\ Tail(t) = u /\ t # <<>> /\ t \in Seq(Digits \cup {"-"})
    BY <2>1, <2>2
  <2>4. Unsigned(t) = u
    <3>1. Head(t) \in {"+", "-"}
      BY <2>3
    <3>2. QED BY <2>3, <3>1, Zenon DEF Unsigned
  <2>5. ToSet(u) \subseteq Digits
    BY <1>2, <2>2
  <2>6. IsDecimal(t)
    BY <2>2, <2>4, <2>5, Zenon DEF IsDecimal
  <2>7. IntegerOf(t) = -(-n)
    BY <2>2, <2>3, Zenon DEF IntegerOf
  <2>8. QED BY <1>4, <2>3, <2>6, <2>7 DEF t
<1>5. QED BY <1>3, <1>4

-----------------------------------------------------------------------------
(* Stripping.                                                              *)

(* A non-empty set of positions has a first and a last one.                *)
LEMMA Extremes ==
  ASSUME NEW n \in Nat, NEW K \in SUBSET (1..n), K # {}
  PROVE  /\ Min(K) \in K /\ \A k \in K : Min(K) <= k
         /\ Max(K) \in K /\ \A k \in K : k <= Max(K)
<1>1. \E x \in K : \A y \in K : x <= y
  <2>1. K \in SUBSET Nat
    OBVIOUS
  <2>2. QED BY <2>1, Least
<1>2. \E x \in K : \A y \in K : x >= y
  <2> DEFINE T == {m \in Nat : \E k \in K : m = n - k}
  <2>1. T \in SUBSET Nat
    OBVIOUS
  <2>2. T # {}
    <3>1. PICK k \in K : TRUE
      OBVIOUS
    <3>2. n - k \in Nat
      OBVIOUS
    <3>3. QED BY <3>1, <3>2
  <2>3. \E m \in T : \A l \in T : m <= l
    <3> HIDE DEF T
    <3> QED BY <2>1, <2>2, Least
  <2>4. PICK m \in T : \A l \in T : m <= l
    BY <2>3
  <2>5. PICK x \in K : m = n - x
    OBVIOUS
  <2>6. ASSUME NEW y \in K PROVE x >= y
    <3>1. n - y \in T
      OBVIOUS
    <3>2. n - x <= n - y
      BY <2>4, <2>5, <3>1
    <3>3. QED BY <3>2
  <2>7. QED BY <2>6
<1>3. Min(K) \in K /\ \A k \in K : Min(K) <= k
  BY <1>1 DEF Min
<1>4. Max(K) \in K /\ \A k \in K : Max(K) >= k
  BY <1>2 DEF Max
<1>5. QED BY <1>3, <1>4

Kept(t, blanks) == {i \in DOMAIN t : t[i] \notin blanks}

(* Stripping keeps a part of the text that has every non-blank character.  *)
LEMMA StripIs ==
  ASSUME NEW A, NEW t \in Seq(A), NEW blanks
  PROVE  /\ Strip(t, blanks) \in Seq(A)
         /\ Kept(t, blanks) = {} => Strip(t, blanks) = <<>>
         /\ \A i \in Kept(t, blanks) : t[i] \in ToSet(Strip(t, blanks))
         /\ ToSet(Strip(t, blanks)) \subseteq ToSet(t)
<1> DEFINE K == Kept(t, blanks)
<1>1. Len(t) \in Nat /\ DOMAIN t = 1..Len(t) /\ K \in SUBSET (1..Len(t))
  BY LenProperties DEF Kept
<1>2. Strip(t, blanks) = IF K = {} THEN <<>> ELSE SubSeq(t, Min(K), Max(K))
  BY DEF Strip, Kept
<1> HIDE DEF K
<1>3. CASE K = {}
  <2>1. Strip(t, blanks) = <<>>
    BY <1>2, <1>3
  <2>2. <<>> \in Seq(A) /\ ToSet(<<>>) = {}
    BY EmptySeq DEF ToSet
  <2>3. QED BY <1>3, <2>1, <2>2 DEF K
<1>4. CASE K # {}
  <2> DEFINE p == Min(K)
             q == Max(K)
             s == SubSeq(t, p, q)
  <2>1. /\ p \in K /\ \A k \in K : p <= k
        /\ q \in K /\ \A k \in K : k <= q
    BY <1>1, <1>4, Extremes
  <2>2. p \in 1..Len(t) /\ q \in 1..Len(t) /\ p <= q
    BY <1>1, <2>1
  <2> HIDE DEF p, q
  <2>3. \A i \in p..q : t[i] \in A
    <3>1. p..q \subseteq 1..Len(t)
      BY <1>1, <2>2
    <3>2. QED BY <3>1, ElementOfSeq
  <2>4. /\ s \in Seq(A) /\ Len(s) = q - p + 1
        /\ \A i \in 1..(q - p + 1) : s[i] = t[p + i - 1]
    BY <2>2, <2>3, SubSeqProperties
  <2> HIDE DEF s
  <2>5. DOMAIN s = 1..(q - p + 1)
    BY <2>4, LenProperties
  <2>6. ASSUME NEW i \in K PROVE t[i] \in ToSet(s)
    <3>1. (i - p) + 1 \in 1..(q - p + 1) /\ p + ((i - p) + 1) - 1 = i
      BY <1>1, <2>1, <2>2
    <3>2. s[(i - p) + 1] = t[i]
      BY <2>4, <3>1
    <3>3. QED BY <2>5, <3>1, <3>2 DEF ToSet
  <2>7. ASSUME NEW c \in ToSet(s) PROVE c \in ToSet(t)
    <3>1. PICK i \in 1..(q - p + 1) : c = s[i]
      BY <2>5 DEF ToSet
    <3>2. p + i - 1 \in DOMAIN t
      BY <1>1, <2>2
    <3>3. c = t[p + i - 1]
      BY <2>4, <3>1
    <3>4. QED BY <3>2, <3>3 DEF ToSet
  <2>8. Strip(t, blanks) = s
    BY <1>2, <1>4 DEF s, p, q
  <2>9. QED BY <1>4, <2>4, <2>6, <2>7, <2>8 DEF K
<1>5. QED BY <1>3, <1>4

(* What trim leaves of an ASCII text str.strip leaves, too, but for fs.    *)
LEMMA SameToken ==
  ASSUME NEW t \in Seq(Ascii), "fs" \notin ToSet(Trim(t)) \/ "fs" \notin ToSet(t)
  PROVE  PythonStrip(t) = Trim(t)
<1>1. \A i \in DOMAIN t : t[i] \in Ascii
  BY ElementOfSeq, LenProperties
<1>2. "nbsp" \notin Ascii /\ "bom" \notin Ascii
  BY DigitsAre DEF Ascii
<1>3. ASSUME NEW i \in DOMAIN t, t[i] = "fs" PROVE FALSE
  <2>1. "fs" \notin {" ", "nbsp", "bom"}
    OBVIOUS
  <2>2. i \in Kept(t, {" ", "nbsp", "bom"})
    BY <1>3, <2>1 DEF Kept
  <2>3. \A j \in Kept(t, {" ", "nbsp", "bom"}) : t[j] \in ToSet(Strip(t, {" ", "nbsp", "bom"}))
    BY StripIs
  <2>4. t[i] \in ToSet(Trim(t))
    BY <2>2, <2>3, Zenon DEF Trim
  <2>5. "fs" \in ToSet(Trim(t))
    BY <1>3, <2>4
  <2>6. "fs" \in ToSet(t)
    BY <1>3 DEF ToSet
  <2>7. QED BY <2>5, <2>6
<1>4. Kept(t, {" ", "nbsp", "bom"}) = Kept(t, {" ", "fs", "nbsp"})
  BY <1>1, <1>2, <1>3 DEF Kept
<1>5. QED BY <1>4, Zenon DEF Trim, PythonStrip, Strip, Kept

(* A token that is an integer or a truth value has no fs in it.            *)
LEMMA TokenClean ==
  ASSUME NEW t \in Seq(Ascii)
  PROVE  /\ IsInteger(t) => "fs" \notin ToSet(t) /\ IntegerOf(t) \in Int
         /\ t \in TrueTokens \cup FalseTokens => "fs" \notin ToSet(t)
<1>1. ASSUME IsInteger(t) PROVE "fs" \notin ToSet(t) /\ IntegerOf(t) \in Int
  <2> DEFINE u == Unsigned(t)
  <2>1. /\ u # <<>>
        /\ \A i \in DOMAIN u : u[i] \in Figures
    BY <1>1 DEF IsInteger, Figures
  <2>2. \/ u = t
        \/ t # <<>> /\ Head(t) \in {"+", "-"} /\ u = Tail(t)
    BY DEF Unsigned
  <2>3. \A c \in Figures : c # "fs" /\ c # "+" /\ c # "-"
    BY DigitsAre DEF Figures
  <2> HIDE DEF u
  <2>4. u \in Seq(Ascii)
    BY <2>2, HeadTailProperties
  <2>5. u \in Seq(Figures)
    <3>1. DOMAIN u = 1..Len(u) /\ Len(u) \in Nat /\ u = [i \in 1..Len(u) |-> u[i]]
      BY <2>4, LenProperties
    <3>2. \A i \in 1..Len(u) : u[i] \in Figures
      BY <2>1, <3>1
    <3>3. QED BY <3>1, <3>2, IsASeq
  <2>6. Magnitude(u) \in Nat
    BY <2>5, MagnitudeAppend
  <2>7. DOMAIN t = 1..Len(t) /\ DOMAIN u = 1..Len(u) /\ Len(t) \in Nat
    BY <2>4, LenProperties
  <2>8. ASSUME NEW i \in DOMAIN t PROVE t[i] # "fs"
    <3>1. CASE u = t
      BY <2>1, <2>3, <3>1
    <3>2. CASE t # <<>> /\ Head(t) \in {"+", "-"} /\ u = Tail(t)
      <4>1. CASE i = 1
        BY <3>2, <4>1
      <4>2. CASE i # 1
        <5>1. Len(u) = Len(t) - 1 /\ \A k \in 1..Len(u) : u[k] = t[k + 1]
          BY <3>2, HeadTailProperties
        <5>2. i - 1 \in 1..Len(u) /\ (i - 1) + 1 = i
          BY <2>7, <4>2, <5>1
        <5>3. t[i] = u[i - 1]
          BY <5>1, <5>2
        <5>4. QED BY <2>1, <2>3, <2>7, <5>2, <5>3
      <4>3. QED BY <4>1, <4>2
    <3>3. QED BY <2>2, <3>1, <3>2
  <2>9. "fs" \notin ToSet(t)
    BY <2>8 DEF ToSet
  <2>10. IntegerOf(t) \in Int
    <3>1. CASE Head(t) = "-"
      <4>1. u = Tail(t)
        <5>1. t # <<>>
          BY <2>1, <2>2
        <5>2. QED BY <3>1, <5>1 DEF u, Unsigned
      <4>2. IntegerOf(t) = -Magnitude(u)
        BY <3>1, <4>1 DEF IntegerOf
      <4>3. QED BY <2>6, <4>2
    <3>2. CASE Head(t) # "-"
      <4>1. IntegerOf(t) = Magnitude(u)
        BY <3>2 DEF IntegerOf, u
      <4>2. QED BY <2>6, <4>1
    <3>3. QED BY <3>1, <3>2
  <2>11. QED BY <2>9, <2>10
<1>2. ASSUME t \in TrueTokens \cup FalseTokens PROVE "fs" \notin ToSet(t)
  <2>1. ToSet(<<"1">>) = {"1"} /\ ToSet(<<"0">>) = {"0"}
    BY DEF ToSet
  <2>2. "fs" \notin ToSet(<<"t", "r", "u", "e">>)
    BY DEF ToSet
  <2>3. "fs" \notin ToSet(<<"f", "a", "l", "s", "e">>)
    <3> DEFINE s == <<"f", "a", "l", "s", "e">>
    <3>1. /\ DOMAIN s = 1..5 /\ s[1] = "f" /\ s[2] = "a" /\ s[3] = "l" /\ s[4] = "s"
          /\ s[5] = "e"
      OBVIOUS
    <3>2. \A i \in 1..5 : i = 1 \/ i = 2 \/ i = 3 \/ i = 4 \/ i = 5
      OBVIOUS
    <3> HIDE DEF s
    <3>3. \A i \in DOMAIN s : s[i] # "fs"
      BY <3>1, <3>2
    <3>4. "fs" \notin ToSet(s)
      BY <3>3 DEF ToSet
    <3>5. QED BY <3>4 DEF s
  <2>4. "fs" \notin ToSet(<<"1">>) /\ "fs" \notin ToSet(<<"0">>)
    BY <2>1
  <2>5. QED BY <1>2, <2>2, <2>3, <2>4, Zenon DEF TrueTokens, FalseTokens
<1>3. QED BY <1>1, <1>2

(* No token is both true and false.                                        *)
LEMMA TokensApart == TrueTokens \cap FalseTokens = {}
<1>1. Len(<<"1">>) = 1 /\ Len(<<"0">>) = 1 /\ <<"1">>[1] # <<"0">>[1]
  OBVIOUS
<1>2. Len(<<"t", "r", "u", "e">>) = 4 /\ Len(<<"f", "a", "l", "s", "e">>) = 5
  OBVIOUS
<1>3. QED BY <1>1, <1>2 DEF TrueTokens, FalseTokens

-----------------------------------------------------------------------------
(* Fields: the parser of the simulator and the one of the server.          *)

(* A result has a value, an error none.                                    *)
LEMMA Results == /\ \A v : Ok(v).ok = TRUE /\ Ok(v).value = v
                 /\ Error.ok = FALSE
BY DEF Ok, Error

(* The characters that occur in a segment.                                 *)
Occurring(s) == {s[i][1] : i \in DOMAIN s}

(* A segment of ASCII bytes decodes to their characters.                   *)
LEMMA AsciiIs ==
  ASSUME NEW A, NEW s \in Seq(Octets(A)), AsciiDecoder(s).ok
  PROVE  /\ AsciiDecoder(s) = Ok(AsciiDecoder(s).value) /\ AsciiDecoder(s).value \in Seq(Ascii)
         /\ Len(AsciiDecoder(s).value) = Len(s)
         /\ \A i \in 1..Len(s) : AsciiDecoder(s).value[i] = s[i][1]
         /\ ToSet(AsciiDecoder(s).value) \subseteq Occurring(s)
<1> DEFINE t == [i \in DOMAIN s |-> s[i][1]]
           Plain == \A i \in DOMAIN s : s[i][1] \in Ascii
<1>1. AsciiDecoder(s) = IF Plain THEN Ok(t) ELSE Error
  BY DEF AsciiDecoder
<1>2. Plain /\ AsciiDecoder(s) = Ok(t)
  <2> HIDE DEF Plain, t
  <2> QED BY <1>1, Results
<1>3. AsciiDecoder(s).value = t
  <2> HIDE DEF Plain, t
  <2> QED BY <1>2, Results
<1>4. DOMAIN s = 1..Len(s) /\ Len(s) \in Nat
  BY LenProperties
<1>5. t = [i \in 1..Len(s) |-> s[i][1]] /\ \A i \in 1..Len(s) : s[i][1] \in Ascii
  BY <1>2, <1>4
<1>6. t \in Seq(Ascii) /\ Len(t) = Len(s) /\ \A i \in 1..Len(s) : t[i] = s[i][1]
  <2>1. t \in [1..Len(s) -> Ascii]
    BY <1>5
  <2>2. t \in Seq(Ascii)
    BY <1>4, <2>1, SeqDef
  <2>3. DOMAIN t = 1..Len(s)
    BY <1>4
  <2>4. QED BY <1>4, <1>5, <2>2, <2>3, LenProperties
<1>7. ToSet(t) \subseteq Occurring(s)
  BY DEF ToSet, Occurring
<1> HIDE DEF t
<1>8. QED BY <1>2, <1>3, <1>6, <1>7

(* A segment of UTF-8 decodes to the same text, but for the byte order     *)
(* mark that TextDecoder drops.                                            *)
LEMMA Utf8Is ==
  ASSUME NEW A, NEW s \in Seq(Octets(A))
  PROVE  /\ Utf8Decoder(s).ok = Decode(s).ok
         /\ Decode(s).ok =>
              Utf8Decoder(s) = Ok(IF Drops(Decode(s).value) THEN Tail(Decode(s).value)
                                  ELSE Decode(s).value)
<1> DEFINE B == A \cup {"bom"}
           mark == EncodeChar("bom")
           rest == SubSeq(s, 4, Len(s))
<1>1. mark \in Seq(Octets(B)) /\ Len(mark) = 3 /\ Len(s) \in Nat
  <2>1. mark \in Seq(Octets(B)) /\ Len(mark) = Bytes("bom")
    BY EncodeCharType
  <2>2. Bytes("bom") = 3
    BY Zenon DEF Bytes
  <2>3. QED BY <2>1, <2>2, LenProperties
<1>2. s \in Seq(Octets(B))
  <2>1. Octets(A) \subseteq Octets(B)
    BY DEF Octets
  <2> HIDE DEF B
  <2>2. Seq(Octets(A)) \subseteq Seq(Octets(B))
    BY <2>1
  <2>3. QED BY <2>2
<1>3. ASSUME NEW b \in Seq(Octets(B))
      PROVE  /\ Decode(b) = IF Encode(Starts(b)) = b THEN Ok(Starts(b)) ELSE Error
             /\ Starts(b) \in Seq(B)
  BY StartsConcat, Zenon DEF Decode, Starts, Marks
<1>4. CASE IsPrefix(mark, s)
  <2>1. Utf8Decoder(s) = Decode(rest)
    <3> DEFINE From(k) == SubSeq(s, k, Len(s))
               here == IsPrefix(mark, s)
    <3>1. Utf8Decoder(s) = Decode(IF here THEN From(Len(mark) + 1) ELSE s)
      BY Zenon DEF Utf8Decoder
    <3>2. here
      BY <1>4
    <3>3. Len(mark) + 1 = 4
      <4> HIDE DEF mark
      <4> QED BY <1>1
    <3> HIDE DEF From, here
    <3>4. Utf8Decoder(s) = Decode(From(4))
      BY <3>1, <3>2, <3>3
    <3>5. QED BY <3>4 DEF From
  <2>2. rest \in Seq(Octets(B)) /\ s = mark \o rest
    <3>1. 3 <= Len(s) /\ SubSeq(s, 1, 3) = mark
      <4>1. SubSeq(mark, 1, 3) = mark
        BY <1>1, SubSeqFull
      <4>2. QED BY <1>1, <1>4, <4>1 DEF IsPrefix
    <3>2. SubSeq(s, 1, 3) \o SubSeq(s, 4, Len(s)) = SubSeq(s, 1, Len(s))
      BY <1>1, <1>2, <3>1, ConcatAdjacentSubSeq
    <3>3. SubSeq(s, 1, Len(s)) = s
      BY <1>2, SubSeqFull
    <3>4. rest \in Seq(Octets(B))
      BY <1>1, <1>2, SubSeqProperties
    <3>5. QED BY <3>1, <3>2, <3>3, <3>4
  <2> DEFINE r == Starts(rest)
             t == Starts(s)
  <2>3. r \in Seq(B) /\ t = <<"bom">> \o r
    <3>1. Starts(mark) = <<"bom">>
      BY StartsConcat
    <3>2. Starts(mark \o rest) = Starts(mark) \o r
      BY <1>1, <2>2, StartsConcat
    <3>3. QED BY <1>3, <2>2, <3>1, <3>2
  <2> HIDE DEF r, t, rest, mark, B
  <2>4. t \in Seq(B) /\ t # <<>> /\ Head(t) = "bom" /\ Tail(t) = r
    <3>1. "bom" \in B
      BY DEF B
    <3>2. QED BY <2>3, <3>1
  <2>5. Encode(t) = mark \o Encode(r)
    BY <2>4, EncodeFront, Zenon DEF mark
  <2>6. Encode(r) \in Seq(Octets(B))
    BY <2>3, EncodeAppend
  <2>7. Encode(t) = s <=> Encode(r) = rest
    BY <1>1, <2>2, <2>5, <2>6, ConcatSimplifications
  <2>8. /\ Decode(s) = IF Encode(t) = s THEN Ok(t) ELSE Error
        /\ Decode(rest) = IF Encode(r) = rest THEN Ok(r) ELSE Error
    BY <1>2, <1>3, <2>2 DEF r, t
  <2>9. Drops(t)
    BY <2>4 DEF Drops
  <2>10. CASE Encode(t) = s
    <3>1. Decode(s) = Ok(t) /\ Utf8Decoder(s) = Ok(r)
      BY <2>1, <2>7, <2>8, <2>10
    <3>2. Decode(s).ok = TRUE /\ Decode(s).value = t /\ Utf8Decoder(s).ok = TRUE
      BY <3>1, Results
    <3>3. QED BY <2>4, <2>9, <3>1, <3>2
  <2>11. CASE Encode(t) # s
    <3>1. Decode(s) = Error /\ Utf8Decoder(s) = Error
      BY <2>1, <2>7, <2>8, <2>11
    <3>2. QED BY <3>1, Results
  <2>12. QED BY <2>10, <2>11
<1>5. CASE ~IsPrefix(mark, s)
  <2>1. Utf8Decoder(s) = Decode(s)
    BY <1>5, Zenon DEF Utf8Decoder
  <2>2. ASSUME Decode(s).ok PROVE Utf8Decoder(s) = Ok(Decode(s).value) /\ ~Drops(Decode(s).value)
    <3> DEFINE t == Decode(s).value
    <3>1. Decode(s) = Ok(t) /\ t \in Seq(A) /\ Encode(t) = s
      BY <2>2, DecodeOk
    <3>2. ~Drops(t)
      <4>1. SUFFICES ASSUME Drops(t) PROVE FALSE
        OBVIOUS
      <4> HIDE DEF t
      <4>2. t # <<>> /\ Head(t) = "bom"
        BY <4>1 DEF Drops
      <4> DEFINE y == Encode(Tail(t))
      <4>3. s = mark \o y
        BY <3>1, <4>2, EncodeFront, Zenon
      <4>4. y \in Seq(Octets(B))
        <5>1. Tail(t) \in Seq(A)
          BY <3>1, <4>2, HeadTailProperties
        <5>2. Tail(t) \in Seq(B)
          BY <5>1
        <5>3. QED BY <5>2, EncodeAppend
      <4> HIDE DEF mark, y, B
      <4>5. 3 <= Len(s) /\ \A i \in 1..3 : s[i] = mark[i]
        <5>1. /\ Len(mark \o y) = 3 + Len(y) /\ Len(y) \in Nat
              /\ \A i \in 1..3 + Len(y) : (mark \o y)[i] = IF i <= 3 THEN mark[i] ELSE y[i - 3]
          <6> DEFINE O == Octets(B)
          <6>1. mark \in Seq(O) /\ y \in Seq(O) /\ Len(mark) = 3
            BY <1>1, <4>4
          <6> HIDE DEF O
          <6>2. /\ Len(mark \o y) = Len(mark) + Len(y)
                /\ \A i \in 1..Len(mark) + Len(y) :
                     (mark \o y)[i] = IF i <= Len(mark) THEN mark[i] ELSE y[i - Len(mark)]
            BY <6>1, ConcatProperties
          <6>3. Len(y) \in Nat
            BY <6>1, LenProperties
          <6>4. QED BY <6>1, <6>2, <6>3
        <5>2. \A i \in 1..3 : i \in 1..3 + Len(y) /\ i <= 3
          BY <5>1
        <5>3. 3 <= 3 + Len(y) /\ \A i \in 1..3 : (mark \o y)[i] = mark[i]
          BY <5>1, <5>2
        <5>4. QED BY <4>3, <5>1, <5>3
      <4>6. SubSeq(mark, 1, 3) = SubSeq(s, 1, 3)
        <5>1. \A i \in 1..3 : mark[i] \in Octets(B) /\ s[i] \in Octets(B)
          BY <1>1, <4>5, ElementOfSeq
        <5>2. /\ SubSeq(s, 1, 3) \in Seq(Octets(B)) /\ Len(SubSeq(s, 1, 3)) = 3
              /\ \A i \in 1..3 : SubSeq(s, 1, 3)[i] = s[i]
          BY <5>1, SubSeqProperties
        <5>3. SubSeq(mark, 1, 3) = mark
          BY <1>1, SubSeqFull
        <5>4. QED BY <1>1, <4>5, <5>2, <5>3, SeqEqual
      <4>7. IsPrefix(mark, s)
        BY <1>1, <4>5, <4>6 DEF IsPrefix
      <4>8. QED BY <1>5, <4>7 DEF mark
    <3>3. QED BY <2>1, <3>1, <3>2
  <2>3. QED BY <2>1, <2>2
<1>6. QED BY <1>4, <1>5

(* DecodeField, codec by codec.                                            *)
LEMMA SimulatorDecodes ==
  ASSUME NEW field, NEW bytes, NEW s, s = SubSeq(bytes, field.start + 1, field.end)
  PROVE  LET d == DecodeField(field, bytes)
             a == AsciiDecoder(s)
             u == Utf8Decoder(s)
             t == Trim(a.value)
             F(v) == Ok([raw |-> a.value, value |-> v])
         IN /\ field.codec = "utf8" =>
                 d = IF u.ok THEN Ok([raw |-> u.value, value |-> Text(u.value)]) ELSE Error
            /\ field.codec = "integer" =>
                 d = IF a.ok /\ IsInteger(t) THEN F(Text(Numeral(IntegerOf(t)))) ELSE Error
            /\ field.codec = "boolean" =>
                 d = IF a.ok /\ t \in TrueTokens THEN F(Truth(TRUE))
                     ELSE IF a.ok /\ t \in FalseTokens THEN F(Truth(FALSE)) ELSE Error
<1> DEFINE d == DecodeField(field, bytes)
           a == AsciiDecoder(s)
           u == Utf8Decoder(s)
           t == Trim(a.value)
           F(v) == Ok([raw |-> a.value, value |-> v])
<1>1. CASE field.codec = "utf8"
  <2>1. d = IF u.ok THEN Ok([raw |-> u.value, value |-> Text(u.value)]) ELSE Error
    BY <1>1, Zenon DEF DecodeField
  <2>2. QED BY <1>1, <2>1
<1>2. CASE field.codec = "integer"
  <2>1. d = IF a.ok /\ IsInteger(t) THEN F(Text(Numeral(IntegerOf(t)))) ELSE Error
    BY <1>2, Zenon DEF DecodeField
  <2>2. QED BY <1>2, <2>1
<1>3. CASE field.codec = "boolean"
  <2>1. ~(t \in TrueTokens /\ t \in FalseTokens)
    BY TokensApart
  <2>2. d = IF a.ok /\ t \in TrueTokens THEN F(Truth(TRUE))
            ELSE IF a.ok /\ t \in FalseTokens THEN F(Truth(FALSE)) ELSE Error
    BY <1>3, <2>1, Zenon DEF DecodeField
  <2>3. QED BY <1>3, <2>2
<1>4. QED BY <1>1, <1>2, <1>3

(* PythonDecode, codec by codec.                                           *)
LEMMA ServerDecodes ==
  ASSUME NEW field, NEW s
  PROVE  LET p == PythonDecode(field, s)
             a == AsciiDecoder(s)
             t == PythonStrip(a.value)
         IN /\ field.codec = "utf8" => 
                 p = IF Decode(s).ok THEN Ok(Text(Decode(s).value)) ELSE Error
            /\ field.codec = "integer" =>
                 p = IF a.ok /\ IsInteger(t) THEN Ok(Number(IntegerOf(t))) ELSE Error
            /\ field.codec = "boolean" =>
                 p = IF a.ok /\ t \in TrueTokens THEN Ok(Truth(TRUE))
                     ELSE IF a.ok /\ t \in FalseTokens THEN Ok(Truth(FALSE)) ELSE Error
<1> DEFINE p == PythonDecode(field, s)
           a == AsciiDecoder(s)
           t == PythonStrip(a.value)
<1>1. CASE field.codec = "utf8"
  <2>1. p = IF Decode(s).ok THEN Ok(Text(Decode(s).value)) ELSE Error
    BY <1>1, Zenon DEF PythonDecode
  <2>2. QED BY <1>1, <2>1
<1>2. CASE field.codec = "integer"
  <2>1. p = IF a.ok /\ IsInteger(t) THEN Ok(Number(IntegerOf(t))) ELSE Error
    BY <1>2, Zenon DEF PythonDecode
  <2>2. QED BY <1>2, <2>1
<1>3. CASE field.codec = "boolean"
  <2>1. ~(t \in TrueTokens /\ t \in FalseTokens)
    BY TokensApart
  <2>2. p = IF a.ok /\ t \in TrueTokens THEN Ok(Truth(TRUE))
            ELSE IF a.ok /\ t \in FalseTokens THEN Ok(Truth(FALSE)) ELSE Error
    BY <1>3, <2>1, Zenon DEF PythonDecode
  <2>3. QED BY <1>3, <2>2
<1>4. QED BY <1>1, <1>2, <1>3

(* The value of a field as the simulator and as the server see it.         *)
Match(codec, v, w) ==
  \/ codec = "integer" /\ \E n \in Int : v = Text(Numeral(n)) /\ w = Number(n)
  \/ codec = "boolean" /\ \E b \in BOOLEAN : v = Truth(b) /\ w = Truth(b)
  \/ codec = "utf8" /\ \E t : w = Text(t) /\ v = Text(IF Drops(t) THEN Tail(t) ELSE t)

Codecs == {"integer", "utf8", "boolean"}

(* Both decode a segment, or neither does, into values that match - unless *)
(* U+001C is in it, which only the server strips.                          *)
LEMMA FieldsAgree ==
  ASSUME NEW A, NEW field, field.codec \in Codecs, NEW bytes,
         NEW s \in Seq(Octets(A)), s = SubSeq(bytes, field.start + 1, field.end)
  PROVE  LET d == DecodeField(field, bytes)
             p == PythonDecode(field, s)
         IN /\ d.ok \in BOOLEAN /\ p.ok \in BOOLEAN
            /\ d.ok => p.ok
            /\ p.ok /\ "fs" \notin Occurring(s) => d.ok
            /\ d.ok => Match(field.codec, d.value.value, p.value)
<1> DEFINE d == DecodeField(field, bytes)
           p == PythonDecode(field, s)
           a == AsciiDecoder(s)
           m == Trim(a.value)
           n == PythonStrip(a.value)
           u == Utf8Decoder(s)
           Clean == "fs" \notin Occurring(s)
           F(v) == Ok([raw |-> a.value, value |-> v])
<1>0. /\ \A v : F(v).ok = TRUE /\ F(v).value.value = v
      /\ Error.ok = FALSE
      /\ \A v : Ok(v).ok = TRUE /\ Ok(v).value = v
  BY Results
<1>1. ASSUME a.ok, IsInteger(m) \/ IsInteger(n) \/ m \in TrueTokens \cup FalseTokens
                     \/ n \in TrueTokens \cup FalseTokens
      PROVE  /\ m \in Seq(Ascii)
             /\ Clean \/ IsInteger(m) \/ m \in TrueTokens \cup FalseTokens => n = m
  <2>1. a.value \in Seq(Ascii) /\ ToSet(a.value) \subseteq Occurring(s)
    <3>1. AsciiDecoder(s).ok
      BY <1>1
    <3>2. QED BY <3>1, AsciiIs
  <2>2. m \in Seq(Ascii)
    BY <2>1, StripIs DEF Trim
  <2>3. IsInteger(m) \/ m \in TrueTokens \cup FalseTokens => "fs" \notin ToSet(m)
    <3> HIDE DEF m
    <3> QED BY <2>2, TokenClean
  <2>4. Clean => "fs" \notin ToSet(a.value)
    BY <2>1
  <2>5. "fs" \notin ToSet(m) \/ "fs" \notin ToSet(a.value) => n = m
    BY <2>1, SameToken
  <2> HIDE DEF m, n, a
  <2>6. QED BY <2>2, <2>3, <2>4, <2>5
<1>2. CASE field.codec = "utf8"
  <2>1. /\ d = IF u.ok THEN Ok([raw |-> u.value, value |-> Text(u.value)]) ELSE Error
        /\ p = IF Decode(s).ok THEN Ok(Text(Decode(s).value)) ELSE Error
    BY <1>2, SimulatorDecodes, ServerDecodes
  <2> DEFINE t == Decode(s).value
  <2>2. /\ u.ok = Decode(s).ok
        /\ Decode(s).ok => u = Ok(IF Drops(t) THEN Tail(t) ELSE t)
    BY Utf8Is
  <2> HIDE DEF d, p, t, u, Clean
  <2>3. CASE Decode(s).ok
    <3>1. u.value = IF Drops(t) THEN Tail(t) ELSE t
      BY <1>0, <2>2, <2>3
    <3>2. d = Ok([raw |-> u.value, value |-> Text(u.value)]) /\ p = Ok(Text(t))
      BY <2>1, <2>2, <2>3 DEF t
    <3>3. d.ok = TRUE /\ p.ok = TRUE /\ d.value.value = Text(u.value) /\ p.value = Text(t)
      BY <1>0, <3>2
    <3>4. Match(field.codec, d.value.value, p.value)
      BY <1>2, <3>1, <3>3, Zenon DEF Match
    <3>5. QED BY <3>3, <3>4 DEF d, p, Clean
  <2>4. CASE ~Decode(s).ok
    <3>1. d = Error /\ p = Error
      BY <2>1, <2>2, <2>4
    <3>2. QED BY <1>0, <3>1 DEF d, p, Clean
  <2>5. QED BY <2>3, <2>4
<1>3. CASE field.codec = "integer"
  <2>1. /\ d = IF a.ok /\ IsInteger(m) THEN F(Text(Numeral(IntegerOf(m)))) ELSE Error
        /\ p = IF a.ok /\ IsInteger(n) THEN Ok(Number(IntegerOf(n))) ELSE Error
    BY <1>3, SimulatorDecodes, ServerDecodes
  <2> HIDE DEF d, p, a, m, n, F, Clean
  <2>2. CASE a.ok /\ IsInteger(m)
    <3>1. n = m /\ IntegerOf(m) \in Int
      BY <1>1, <2>2, TokenClean
    <3>2. d = F(Text(Numeral(IntegerOf(m)))) /\ p = Ok(Number(IntegerOf(m)))
      BY <2>1, <2>2, <3>1
    <3>3. d.ok = TRUE /\ p.ok = TRUE /\ d.value.value = Text(Numeral(IntegerOf(m)))
          /\ p.value = Number(IntegerOf(m))
      BY <1>0, <3>2
    <3>4. Match(field.codec, d.value.value, p.value)
      BY <1>3, <3>1, <3>3, Zenon DEF Match
    <3>5. QED BY <3>3, <3>4 DEF d, p, Clean
  <2>3. CASE ~(a.ok /\ IsInteger(m))
    <3>1. d = Error
      BY <2>1, <2>3
    <3>2. p.ok \in BOOLEAN /\ (p.ok => a.ok /\ IsInteger(n))
      BY <1>0, <2>1
    <3>3. p.ok => ~Clean
      BY <1>1, <2>3, <3>2
    <3>4. QED BY <1>0, <3>1, <3>2, <3>3 DEF d, p, Clean
  <2>4. QED BY <2>2, <2>3
<1>4. CASE field.codec = "boolean"
  <2>1. /\ d = IF a.ok /\ m \in TrueTokens THEN F(Truth(TRUE))
               ELSE IF a.ok /\ m \in FalseTokens THEN F(Truth(FALSE)) ELSE Error
        /\ p = IF a.ok /\ n \in TrueTokens THEN Ok(Truth(TRUE))
               ELSE IF a.ok /\ n \in FalseTokens THEN Ok(Truth(FALSE)) ELSE Error
    BY <1>4, SimulatorDecodes, ServerDecodes
  <2> HIDE DEF d, p, a, m, n, F, Clean
  <2>2. CASE a.ok /\ m \in TrueTokens \cup FalseTokens
    <3>1. n = m
      BY <1>1, <2>2
    <3> DEFINE b == IF m \in TrueTokens THEN TRUE ELSE FALSE
    <3>2. b \in BOOLEAN /\ d = F(Truth(b)) /\ p = Ok(Truth(b))
      BY <2>1, <2>2, <3>1
    <3> HIDE DEF b
    <3>3. d.ok = TRUE /\ p.ok = TRUE /\ d.value.value = Truth(b) /\ p.value = Truth(b)
      BY <1>0, <3>2
    <3>4. Match(field.codec, d.value.value, p.value)
      BY <1>4, <3>2, <3>3, Zenon DEF Match
    <3>5. QED BY <3>3, <3>4 DEF d, p, Clean
  <2>3. CASE ~(a.ok /\ m \in TrueTokens \cup FalseTokens)
    <3>1. d = Error
      BY <2>1, <2>3
    <3>2. p.ok \in BOOLEAN /\ (p.ok => a.ok /\ n \in TrueTokens \cup FalseTokens)
      BY <1>0, <2>1
    <3>3. p.ok => ~Clean
      BY <1>1, <2>3, <3>2
    <3>4. QED BY <1>0, <3>1, <3>2, <3>3 DEF d, p, Clean
  <2>4. QED BY <2>2, <2>3
<1>5. QED BY <1>2, <1>3, <1>4, Zenon DEF Codecs

(* The segment of a field of a payload that reaches far enough.            *)
LEMMA SegmentIs ==
  ASSUME NEW A, NEW b \in Seq(A), NEW i \in Nat, NEW j \in Nat, i < j, j <= Len(b)
  PROVE  LET s == SubSeq(b, i + 1, j)
         IN /\ s \in Seq(A) /\ Len(s) = j - i
            /\ \A k \in 1..(j - i) : s[k] = b[i + k]
<1>1. Len(b) \in Nat /\ \A k \in (i + 1)..j : b[k] \in A
  <2>1. (i + 1)..j \subseteq 1..Len(b)
    BY LenProperties
  <2>2. QED BY <2>1, ElementOfSeq, LenProperties
<1> DEFINE s == SubSeq(b, i + 1, j)
<1>2. /\ s \in Seq(A) /\ Len(s) = j - (i + 1) + 1
      /\ \A k \in 1..(j - (i + 1) + 1) : s[k] = b[(i + 1) + k - 1]
  BY <1>1, SubSeqProperties
<1> HIDE DEF s
<1>3. j - (i + 1) + 1 = j - i /\ \A k \in 1..(j - i) : (i + 1) + k - 1 = i + k
  OBVIOUS
<1>4. s \in Seq(A) /\ Len(s) = j - i /\ \A k \in 1..(j - i) : s[k] = b[i + k]
  BY <1>2, <1>3
<1>5. QED BY <1>4 DEF s

(* What occurs in a segment occurs in the payload.                         *)
LEMMA SegmentOccurs ==
  ASSUME NEW A, NEW t \in Seq(A), NEW i \in Nat, NEW j \in Nat, i < j, j <= Len(Encode(t)),
         NEW s, s = SubSeq(Encode(t), i + 1, j)
  PROVE  s \in Seq(Octets(A)) /\ Occurring(s) \subseteq ToSet(t)
<1>1. Encode(t) \in Seq(Octets(A)) /\ Len(Encode(t)) \in Nat
  BY EncodeAppend, LenProperties
<1>2. s \in Seq(Octets(A)) /\ Len(s) = j - i /\ \A k \in 1..(j - i) : s[k] = Encode(t)[i + k]
  BY <1>1, SegmentIs
<1>3. ASSUME NEW k \in DOMAIN s PROVE s[k][1] \in ToSet(t)
  <2>1. k \in 1..(j - i) /\ i + k \in 1..Len(Encode(t))
    BY <1>1, <1>2, LenProperties
  <2>2. PICK l \in 1..Len(t) : Encode(t)[i + k][1] = t[l]
    BY <2>1, EncodeOccurs
  <2>3. DOMAIN t = 1..Len(t)
    BY LenProperties
  <2>4. s[k][1] = t[l]
    BY <1>2, <2>1, <2>2
  <2>5. QED BY <2>2, <2>3, <2>4 DEF ToSet
<1>4. QED BY <1>2, <1>3 DEF Occurring

-----------------------------------------------------------------------------
(* The catalog.                                                            *)

(* The constant of a clean rule, by its type.                              *)
Numeric == {"integer", "datetime"}
ConstantClean(rule) ==
  \/ /\ rule.type \in Numeric
     /\ rule.constant = Number(rule.constant.number) /\ rule.constant.number \in Int
  \/ /\ rule.type = "string"
     /\ rule.constant = Text(rule.constant.text) /\ rule.constant.text \in Seq(Alphabet)
  \/ /\ rule.type = "boolean"
     /\ rule.constant = Truth(rule.constant.truth) /\ rule.constant.truth \in BOOLEAN

(* A clean rule as the simulator gets it.                                  *)
Sent(rule) ==
  [type |-> rule.type, unit |-> rule.unit, source |-> rule.source,
   constant |-> IF rule.source # Null THEN Null
                ELSE IF rule.type \in Numeric THEN Text(Numeral(rule.constant.number))
                ELSE rule.constant]

(* The kind of a value and what it holds.                                  *)
LEMMA Values ==
  /\ \A n : Number(n).kind = "number" /\ Number(n).number = n
  /\ \A t : Text(t).kind = "text" /\ Text(t).text = t
  /\ \A b : Truth(b).kind = "truth" /\ Truth(b).truth = b
  /\ \A k, v : Json(k, v).json = k /\ Json(k, v).v = v
  /\ JsonNull = Json("null", Null)
BY DEF Number, Text, Truth, Json, JsonNull

(* No row of a clean schema is refused.                                    *)
LEMMA RuleSent ==
  ASSUME NEW schema, NEW rule, RuleClean(schema, rule)
  PROVE  MapProjectionRule(SerializeRule(rule)) = Ok(Sent(rule))
<1> DEFINE s == SerializeRule(rule)
           c == SerializeConstant(rule)
           config == IF rule.unit = Null THEN <<>> ELSE <<"timestampUnit", rule.unit>>
           k == MapConstantValue(c, rule.type)
           r == [type |-> rule.type, unit |-> rule.unit, source |-> rule.source, constant |-> Null]
           id == IF rule.source = Null THEN JsonNull ELSE Json("string", rule.source)
<1>1. /\ s.valueType = rule.type /\ s.constantValue = c /\ s.conversionConfig = config
      /\ s.sourceKind = (IF rule.source = Null THEN "constant" ELSE "field")
      /\ s.sourceFieldId = id
  BY DEF SerializeRule
<1>2. MapConversionConfig(config) = rule.unit
  <2>1. CASE rule.unit = Null
    <3>1. config = <<>>
      BY <2>1
    <3> HIDE DEF config
    <3>2. QED BY <2>1, <3>1 DEF MapConversionConfig
  <2>2. CASE rule.unit # Null
    <3>1. config = <<"timestampUnit", rule.unit>>
      BY <2>2
    <3> HIDE DEF config
    <3>2. config # <<>> /\ config[1] = "timestampUnit" /\ config[2] = rule.unit
      BY <3>1
    <3>3. QED BY <3>2 DEF MapConversionConfig
  <2>3. QED BY <2>1, <2>2
<1>3. id.v = rule.source /\ id.json = (IF rule.source = Null THEN "null" ELSE "string")
  BY Values
<1> HIDE DEF s, config, id
<1>4. MapProjectionRule(s) =
        CASE s.sourceKind = "field" /\ c.json = "null" /\ id.json = "string" -> Ok(r)
          [] s.sourceKind = "constant" /\ id.json = "null" /\ k.ok ->
               Ok([r EXCEPT !.constant = k.value])
          [] OTHER -> Error
  BY <1>1, <1>2, <1>3, Zenon DEF MapProjectionRule
<1>5. CASE rule.source # Null
  <2>1. c = JsonNull
    BY <1>5 DEF SerializeConstant
  <2>2. s.sourceKind = "field" /\ c.json = "null" /\ id.json = "string"
    BY <1>1, <1>3, <1>5, <2>1, Values
  <2>3. MapProjectionRule(s) = Ok(r)
    <3> HIDE DEF c, r
    <3>1. s.sourceKind # "constant"
      BY <2>2
    <3>2. QED BY <1>4, <2>2, <3>1, Zenon
  <2>4. r = Sent(rule)
    BY <1>5 DEF Sent
  <2>5. QED BY <2>3, <2>4 DEF s
<1>6. CASE rule.source = Null
  <2> DEFINE v == IF rule.type \in Numeric THEN Text(Numeral(rule.constant.number))
                  ELSE rule.constant
  <2>1. ConstantClean(rule)
    BY <1>6 DEF RuleClean, ConstantClean, Numeric
  <2>2. k = Ok(v)
    <3>1. CASE /\ rule.type \in Numeric
               /\ rule.constant = Number(rule.constant.number)
      <4>1. rule.constant.kind = "number" /\ rule.type # "boolean"
        BY <3>1, Values DEF Numeric
      <4>2. c = Json("string", Numeral(rule.constant.number))
        BY <1>6, <4>1, Zenon DEF SerializeConstant
      <4> HIDE DEF c
      <4>3. c.json = "string" /\ c.v = Numeral(rule.constant.number)
        BY <4>2, Values
      <4>4. k = Ok(Text(c.v))
        BY <4>1, <4>3, Zenon DEF MapConstantValue
      <4>5. QED BY <3>1, <4>3, <4>4
    <3>2. CASE /\ rule.type = "string"
               /\ rule.constant = Text(rule.constant.text)
      <4>1. rule.constant.kind = "text" /\ rule.type # "boolean" /\ rule.type \notin Numeric
        BY <3>2, Values DEF Numeric
      <4>2. c = Json("string", rule.constant.text)
        BY <1>6, <4>1, Zenon DEF SerializeConstant
      <4> HIDE DEF c
      <4>3. c.json = "string" /\ c.v = rule.constant.text
        BY <4>2, Values
      <4>4. k = Ok(Text(c.v))
        BY <4>1, <4>3, Zenon DEF MapConstantValue
      <4>5. QED BY <3>2, <4>1, <4>3, <4>4
    <3>3. CASE /\ rule.type = "boolean"
               /\ rule.constant = Truth(rule.constant.truth)
      <4>1. rule.constant.kind = "truth" /\ rule.type \notin Numeric
        BY <3>3, Values DEF Numeric
      <4>2. c = Json("boolean", rule.constant.truth)
        BY <1>6, <4>1, Zenon DEF SerializeConstant
      <4> HIDE DEF c
      <4>3. c.json = "boolean" /\ c.v = rule.constant.truth
        BY <4>2, Values
      <4>4. k = Ok(Truth(c.v))
        BY <3>3, <4>3, Zenon DEF MapConstantValue
      <4>5. QED BY <3>3, <4>1, <4>3, <4>4
    <3>4. QED BY <2>1, <3>1, <3>2, <3>3 DEF ConstantClean
  <2> HIDE DEF k
  <2>3. k.ok /\ k.value = v
    BY <2>2, Results
  <2>4. s.sourceKind = "constant" /\ id.json = "null" /\ s.sourceKind # "field"
    BY <1>1, <1>3, <1>6
  <2>5. MapProjectionRule(s) = Ok([r EXCEPT !.constant = k.value])
    <3> HIDE DEF c, r
    <3> QED BY <1>4, <2>3, <2>4, Zenon
  <2>6. [r EXCEPT !.constant = k.value] = Sent(rule)
    <3>1. \A x : [r EXCEPT !.constant = x] = [type |-> rule.type, unit |-> rule.unit,
                                              source |-> rule.source, constant |-> x]
      OBVIOUS
    <3>2. QED BY <1>6, <2>3, <3>1 DEF Sent
  <2>7. QED BY <2>5, <2>6 DEF s
<1>7. QED BY <1>5, <1>6

(* A schema of the database.                                               *)
LEMMA SchemasClean == ASSUME NEW schema \in Schemas PROVE SchemaClean(schema)
BY InputsAssumption

(* The catalog shows the fields as they are and the rules as sent.         *)
LEMMA CatalogIs ==
  ASSUME NEW schema, SchemaClean(schema)
  PROVE  /\ MapSchema(schema).ok
         /\ Catalog(schema).length = schema.length
         /\ Catalog(schema).fields = schema.fields
         /\ Catalog(schema).rules = [q \in DOMAIN schema.rules |-> Sent(schema.rules[q])]
<1> DEFINE m == [q \in DOMAIN schema.rules |-> MapProjectionRule(SerializeRule(schema.rules[q]))]
           r == [q \in DOMAIN m |-> m[q].value]
<1>1. ASSUME NEW q \in DOMAIN schema.rules
      PROVE  m[q] = Ok(Sent(schema.rules[q]))
  <2>1. RuleClean(schema, schema.rules[q])
    BY DEF SchemaClean
  <2>2. MapProjectionRule(SerializeRule(schema.rules[q])) = Ok(Sent(schema.rules[q]))
    BY <2>1, RuleSent
  <2>3. QED BY <2>2
<1>2. DOMAIN m = DOMAIN schema.rules
  OBVIOUS
<1>3. MapSchema(schema) = IF \A q \in DOMAIN m : m[q].ok
                          THEN Ok([schema EXCEPT !.rules = r]) ELSE Error
  BY DEF MapSchema
<1> HIDE DEF m
<1>4. \A q \in DOMAIN m : m[q].ok
  BY <1>1, <1>2, Results
<1>5. r = [q \in DOMAIN schema.rules |-> Sent(schema.rules[q])]
  BY <1>1, <1>2, Results
<1> HIDE DEF r
<1>6. MapSchema(schema) = Ok([schema EXCEPT !.rules = r])
  BY <1>3, <1>4
<1>7. MapSchema(schema).ok /\ Catalog(schema) = [schema EXCEPT !.rules = r]
  BY <1>6, Results DEF Catalog
<1>8. DOMAIN schema = {"length", "fields", "rules"}
  BY DEF SchemaClean
<1>9. /\ [schema EXCEPT !.rules = r].length = schema.length
      /\ [schema EXCEPT !.rules = r].fields = schema.fields
      /\ [schema EXCEPT !.rules = r].rules = r
  BY <1>8
<1>10. QED BY <1>5, <1>7, <1>9

-----------------------------------------------------------------------------
(* Rules, and the whole payload.                                           *)

(* What is in the calendar is a safe integer: parsing it loses nothing.    *)
LEMMA CalendarSafe ==
  ASSUME NEW n \in Int, NEW unit, InCalendar(Instant(n, unit))
  PROVE  n \in -MaxSafe..MaxSafe
<1>1. /\ MaxSecond \in Nat /\ MaxSafe \in Nat /\ PerSecond \in Nat /\ PerSecond >= 1
      /\ MinSecond \in Int /\ -MaxSafe <= MinSecond * PerSecond
      /\ (MaxSecond + 1) * PerSecond <= MaxSafe
  BY LimitsAssumption
<1> DEFINE low == MinSecond * PerSecond
           high == (MaxSecond + 1) * PerSecond
           k == n * PerSecond
<1>2. low \in Int /\ high \in Int /\ k \in Int /\ -MaxSafe <= low /\ high <= MaxSafe
  BY <1>1
<1>3. (n >= 0 => n <= k) /\ (n < 0 => k <= n)
  <2>1. n >= 0 => n * (PerSecond - 1) >= 0
    BY <1>1
  <2>2. n < 0 => n * (PerSecond - 1) <= 0
    BY <1>1
  <2>3. n * (PerSecond - 1) = k - n
    BY <1>1
  <2>4. QED BY <1>1, <2>1, <2>2, <2>3
<1>4. low <= Instant(n, unit) /\ Instant(n, unit) < high
  BY DEF InCalendar
<1>5. Instant(n, unit) = n \/ Instant(n, unit) = k
  BY DEF Instant
<1> HIDE DEF low, high, k
<1>6. QED BY <1>1, <1>2, <1>3, <1>4, <1>5

(* What the server stores for a number within the calendar.                *)
Stored(n, unit) ==
  IF unit = "milliseconds" THEN Microseconds(n) ELSE n * PerSecond * PerMilli

(* It is the time itself, but for how floats round.                        *)
LEMMA StoredIs ==
  ASSUME NEW n \in Int, NEW unit, InCalendar(Instant(n, unit))
  PROVE  SameTime(unit, Instant(n, unit), Stored(n, unit))
<1>1. CASE unit = "milliseconds"
  <2>1. Instant(n, unit) = n /\ Stored(n, unit) = Microseconds(n)
    BY <1>1 DEF Instant, Stored
  <2> DEFINE low == MinSecond * PerSecond
             high == (MaxSecond + 1) * PerSecond
  <2>2. low \in Int /\ high \in Int
    BY LimitsAssumption
  <2>3. low <= n /\ n < high
    BY <2>1 DEF InCalendar
  <2> HIDE DEF low, high
  <2>4. n \in low..(high - 1)
    BY <2>2, <2>3
  <2>5. /\ 2 * (Microseconds(n) - n * PerMilli) \in (1 - PerMilli)..(PerMilli - 1)
        /\ n \in -MaxExact..MaxExact => Microseconds(n) = n * PerMilli
    BY <2>4, RoundingAssumption DEF low, high
  <2>6. QED BY <1>1, <2>1, <2>5, Zenon DEF SameTime
<1>2. CASE unit # "milliseconds"
  BY <1>2 DEF Instant, Stored, SameTime
<1>3. QED BY <1>1, <1>2

(* Both read the same time from a number.                                  *)
LEMMA DatetimesAgree ==
  ASSUME NEW n \in Int, NEW unit
  PROVE  /\ DatetimeReading(Text(Numeral(n)), unit)
              = IF InCalendar(Instant(n, unit)) THEN Ok(Instant(n, unit)) ELSE Error
         /\ TimestampToDatetime(Number(n), unit)
              = IF InCalendar(Instant(n, unit)) THEN Ok(Stored(n, unit)) ELSE Error
<1> DEFINE v == Text(Numeral(n))
           w == Number(n)
<1>1. v.kind = "text" /\ v.text = Numeral(n) /\ w.kind = "number" /\ w.number = n
  BY Values
<1>2. IsDecimal(v.text) /\ IntegerOf(v.text) = n
  BY <1>1, NumeralRoundTrip
<1> HIDE DEF v, w
<1>3. InCalendar(Instant(n, unit)) => n \in -MaxSafe..MaxSafe
  BY CalendarSafe
<1>4. DatetimeReading(v, unit)
        = IF InCalendar(Instant(n, unit)) THEN Ok(Instant(n, unit)) ELSE Error
  BY <1>1, <1>2, <1>3, Zenon DEF DatetimeReading
<1>5. TimestampToDatetime(w, unit)
        = IF InCalendar(Instant(n, unit)) THEN Ok(Stored(n, unit)) ELSE Error
  BY <1>1, Zenon DEF TimestampToDatetime, Stored
<1>6. QED BY <1>4, <1>5 DEF v, w

(* The value a rule reads, for the simulator and for the server.           *)
ReadAlike(rule, v, w) ==
  \/ rule.type \in Numeric /\ \E n \in Int : v = Text(Numeral(n)) /\ w = Number(n)
  \/ rule.type = "boolean" /\ \E b \in BOOLEAN : v = Truth(b) /\ w = Truth(b)
  \/ /\ rule.type = "string"
     /\ \E t : w = Text(t) /\ v = Text(IF rule.source # Null /\ Drops(t) THEN Tail(t) ELSE t)

(* A clean rule is projected from what it reads alone.                     *)
LEMMA ProjectIs ==
  ASSUME NEW schema, NEW rule, RuleClean(schema, rule), FieldsClean(schema), NEW values
  PROVE  LET w == IF rule.source = Null THEN rule.constant ELSE values[rule.source].value
         IN PythonProject(schema, rule, values) = CoerceParameterValue(rule, w)
<1>1. rule.source # Null =>
        /\ rule.source \in DOMAIN schema.fields
        /\ rule.type \in Projects(schema.fields[rule.source])
  BY DEF RuleClean
<1>2. rule.source # Null /\ schema.fields[rule.source].role = "timestamp" => rule.type = "datetime"
  BY <1>1 DEF Projects
<1>3. QED BY <1>2, Zenon DEF PythonProject

(* The same of the simulator.                                              *)
LEMMA ProjectRuleIs ==
  ASSUME NEW schema, NEW rule, RuleClean(schema, rule), FieldsClean(schema), NEW fields,
         NEW seen, seen.fields = schema.fields, NEW v,
         v = IF rule.source = Null THEN Sent(rule).constant ELSE fields[rule.source].value.value
  PROVE  LET x == ProjectRule(seen, Sent(rule), fields)
         IN /\ rule.type = "datetime" => x = DatetimeReading(v, rule.unit)
            /\ rule.type = "integer" =>
                 x = IF v.kind = "text" /\ IsDecimal(v.text)
                        /\ IntegerOf(v.text) \in (-MaxBigint - 1)..MaxBigint
                     THEN Ok(IntegerOf(v.text)) ELSE Error
            /\ rule.type = "boolean" => x = IF v.kind = "truth" THEN Ok(v.truth) ELSE Error
            /\ rule.type = "string" => x = IF v.kind = "text" THEN Ok(v.text) ELSE Error
<1>1. rule.source # Null => rule.type \in Projects(schema.fields[rule.source])
  BY DEF RuleClean
<1>2. rule.source # Null /\ schema.fields[rule.source].role = "timestamp" => rule.type = "datetime"
  BY <1>1 DEF Projects
<1>3. rule.type # "datetime" => rule.unit = Null
  BY DEF RuleClean
<1> DEFINE r == Sent(rule)
<1>4. r.type = rule.type /\ r.unit = rule.unit /\ r.source = rule.source
  BY DEF Sent
<1>5. v = IF r.source = Null THEN r.constant ELSE fields[r.source].value.value
  BY <1>4
<1> HIDE DEF r
<1> DEFINE x == ProjectRule(seen, r, fields)
<1>6. ~(r.type # "datetime" /\ ((r.source # Null /\ seen.fields[r.source].role = "timestamp")
                                \/ r.unit # Null))
  BY <1>2, <1>3, <1>4
<1>7. x = CASE r.type = "datetime" -> DatetimeReading(v, r.unit)
            [] r.type = "integer" ->
                 IF v.kind = "text" /\ IsDecimal(v.text)
                    /\ IntegerOf(v.text) \in (-MaxBigint - 1)..MaxBigint
                 THEN Ok(IntegerOf(v.text)) ELSE Error
            [] r.type = "boolean" -> IF v.kind = "truth" THEN Ok(v.truth) ELSE Error
            [] r.type = "string" -> IF v.kind = "text" THEN Ok(v.text) ELSE Error
  BY <1>5, <1>6, Zenon DEF ProjectRule
<1>8. r.type = "datetime" => x = DatetimeReading(v, r.unit)
  BY <1>7, Zenon
<1>9. r.type = "integer" => x = IF v.kind = "text" /\ IsDecimal(v.text)
                                   /\ IntegerOf(v.text) \in (-MaxBigint - 1)..MaxBigint
                                THEN Ok(IntegerOf(v.text)) ELSE Error
  BY <1>7, Zenon
<1>10. r.type = "boolean" => x = IF v.kind = "truth" THEN Ok(v.truth) ELSE Error
  BY <1>7, Zenon
<1>11. r.type = "string" => x = IF v.kind = "text" THEN Ok(v.text) ELSE Error
  BY <1>7, Zenon
<1> HIDE DEF x
<1>12. /\ rule.type = "datetime" => x = DatetimeReading(v, rule.unit)
       /\ rule.type = "integer" => x = IF v.kind = "text" /\ IsDecimal(v.text)
                                   /\ IntegerOf(v.text) \in (-MaxBigint - 1)..MaxBigint
                                THEN Ok(IntegerOf(v.text)) ELSE Error
       /\ rule.type = "boolean" => x = IF v.kind = "truth" THEN Ok(v.truth) ELSE Error
       /\ rule.type = "string" => x = IF v.kind = "text" THEN Ok(v.text) ELSE Error
  BY <1>4, <1>8, <1>9, <1>10, <1>11, Zenon
<1>13. QED BY <1>12 DEF x, r

(* CoerceParameterValue, type by type.                                     *)
LEMMA CoerceIs ==
  ASSUME NEW schema, NEW rule, RuleClean(schema, rule), NEW w
  PROVE  LET y == CoerceParameterValue(rule, w)
         IN /\ rule.type = "datetime" => y = TimestampToDatetime(w, rule.unit)
            /\ rule.type = "integer" =>
                 y = IF w.kind = "number" /\ w.number \in (-MaxBigint - 1)..MaxBigint
                     THEN Ok(w.number) ELSE Error
            /\ rule.type = "boolean" => y = IF w.kind = "truth" THEN Ok(w.truth) ELSE Error
            /\ rule.type = "string" => y = IF w.kind = "text" THEN Ok(w.text) ELSE Error
<1>1. ~(rule.type # "datetime" /\ rule.unit # Null)
  BY DEF RuleClean
<1> DEFINE y == CoerceParameterValue(rule, w)
<1>2. y = CASE rule.type = "datetime" -> TimestampToDatetime(w, rule.unit)
            [] rule.type = "integer" ->
                 IF w.kind = "number" /\ w.number \in (-MaxBigint - 1)..MaxBigint
                 THEN Ok(w.number) ELSE Error
            [] rule.type = "boolean" -> IF w.kind = "truth" THEN Ok(w.truth) ELSE Error
            [] rule.type = "string" -> IF w.kind = "text" THEN Ok(w.text) ELSE Error
  BY <1>1, Zenon DEF CoerceParameterValue
<1>3. rule.type = "datetime" => y = TimestampToDatetime(w, rule.unit)
  BY <1>2, Zenon
<1>4. rule.type = "integer" =>
        y = IF w.kind = "number" /\ w.number \in (-MaxBigint - 1)..MaxBigint
            THEN Ok(w.number) ELSE Error
  BY <1>2, Zenon
<1>5. rule.type = "boolean" => y = IF w.kind = "truth" THEN Ok(w.truth) ELSE Error
  BY <1>2, Zenon
<1>6. rule.type = "string" => y = IF w.kind = "text" THEN Ok(w.text) ELSE Error
  BY <1>2, Zenon
<1>7. QED BY <1>3, <1>4, <1>5, <1>6, Zenon

(* A field rule has one of the types its field projects to.                *)
LEMMA FieldRule ==
  ASSUME NEW schema, NEW rule, RuleClean(schema, rule), FieldsClean(schema), rule.source # Null
  PROVE  LET field == schema.fields[rule.source]
         IN /\ rule.source \in DOMAIN schema.fields
            /\ field.role = "timestamp" => field.codec = "integer" /\ rule.type = "datetime"
            /\ \/ field.codec = "integer" /\ rule.type \in Numeric
               \/ field.codec = "boolean" /\ rule.type = "boolean"
               \/ field.codec = "utf8" /\ rule.type = "string"
<1> DEFINE field == schema.fields[rule.source]
<1>1. /\ rule.type \in Projects(field) /\ rule.source \in DOMAIN schema.fields
      /\ field.codec \in Codecs
      /\ field.role = "timestamp" => field.codec = "integer"
  BY DEF RuleClean, FieldsClean, FieldClean, Codecs
<1> HIDE DEF field
<1>2. field.role = "timestamp" => rule.type = "datetime"
  BY <1>1 DEF Projects
<1>3. CASE field.role = "timestamp"
  BY <1>1, <1>2, <1>3 DEF Numeric, field
<1>4. CASE field.role # "timestamp"
  <2>1. rule.type \in CASE field.codec = "integer" -> {"integer", "datetime"}
                        [] field.codec = "utf8" -> {"string"}
                        [] field.codec = "boolean" -> {"boolean"}
    BY <1>1, <1>4 DEF Projects
  <2>2. CASE field.codec = "integer"
    <3>1. rule.type \in {"integer", "datetime"}
      BY <2>1, <2>2, Zenon
    <3>2. QED BY <1>1, <1>4, <2>2, <3>1 DEF Numeric, field
  <2>3. CASE field.codec = "utf8"
    <3>1. rule.type \in {"string"}
      BY <2>1, <2>3, Zenon
    <3>2. QED BY <1>1, <1>4, <2>3, <3>1 DEF field
  <2>4. CASE field.codec = "boolean"
    <3>1. rule.type \in {"boolean"}
      BY <2>1, <2>4, Zenon
    <3>2. QED BY <1>1, <1>4, <2>4, <3>1 DEF field
  <2>5. QED BY <1>1, <2>2, <2>3, <2>4 DEF Codecs
<1>5. QED BY <1>3, <1>4

(* Values that match are read alike, but for a byte order mark.            *)
LEMMA ReadingsAgree ==
  ASSUME NEW schema, NEW rule, RuleClean(schema, rule), FieldsClean(schema),
         NEW seen, seen.fields = schema.fields, NEW fields, NEW values,
         rule.source # Null =>
           Match(schema.fields[rule.source].codec, fields[rule.source].value.value,
                 values[rule.source].value)
  PROVE  LET x == ProjectRule(seen, Sent(rule), fields)
             y == PythonProject(schema, rule, values)
         IN /\ x.ok \in BOOLEAN /\ y.ok = x.ok
            /\ x.ok => SameReading(rule, x.value, y.value)
<1> DEFINE x == ProjectRule(seen, Sent(rule), fields)
           y == PythonProject(schema, rule, values)
           v == IF rule.source = Null THEN Sent(rule).constant ELSE fields[rule.source].value.value
           w == IF rule.source = Null THEN rule.constant ELSE values[rule.source].value
<1>1. /\ rule.type = "datetime" => x = DatetimeReading(v, rule.unit)
      /\ rule.type = "integer" => x = IF v.kind = "text" /\ IsDecimal(v.text)
                                         /\ IntegerOf(v.text) \in (-MaxBigint - 1)..MaxBigint
                                      THEN Ok(IntegerOf(v.text)) ELSE Error
      /\ rule.type = "boolean" => x = IF v.kind = "truth" THEN Ok(v.truth) ELSE Error
      /\ rule.type = "string" => x = IF v.kind = "text" THEN Ok(v.text) ELSE Error
  BY ProjectRuleIs
<1>2. y = CoerceParameterValue(rule, w)
  BY ProjectIs
<1>3. /\ rule.type = "datetime" => y = TimestampToDatetime(w, rule.unit)
      /\ rule.type = "integer" =>
           y = IF w.kind = "number" /\ w.number \in (-MaxBigint - 1)..MaxBigint
               THEN Ok(w.number) ELSE Error
      /\ rule.type = "boolean" => y = IF w.kind = "truth" THEN Ok(w.truth) ELSE Error
      /\ rule.type = "string" => y = IF w.kind = "text" THEN Ok(w.text) ELSE Error
  BY <1>2, CoerceIs
<1>4. ReadAlike(rule, v, w)
  <2>1. CASE rule.source = Null
    <3>1. ConstantClean(rule)
      BY <2>1 DEF RuleClean, ConstantClean, Numeric
    <3>2. v = IF rule.type \in Numeric THEN Text(Numeral(rule.constant.number)) ELSE rule.constant
      BY <2>1 DEF Sent
    <3>3. w = rule.constant
      BY <2>1
    <3> HIDE DEF v, w
    <3>4. CASE rule.type \in Numeric
      <4>1. w = Number(rule.constant.number) /\ rule.constant.number \in Int
        BY <3>1, <3>3, <3>4 DEF ConstantClean, Numeric
      <4>2. v = Text(Numeral(rule.constant.number))
        BY <3>2, <3>4
      <4>3. QED BY <3>4, <4>1, <4>2 DEF ReadAlike
    <3>5. CASE rule.type = "string"
      <4>1. w = Text(rule.constant.text) /\ rule.type \notin Numeric
        BY <3>1, <3>3, <3>5 DEF ConstantClean, Numeric
      <4>2. v = w
        BY <3>2, <3>3, <4>1
      <4>3. v = Text(IF rule.source # Null /\ Drops(rule.constant.text)
                     THEN Tail(rule.constant.text) ELSE rule.constant.text)
        BY <2>1, <4>1, <4>2
      <4>4. QED BY <3>5, <4>1, <4>3 DEF ReadAlike
    <3>6. CASE rule.type = "boolean"
      <4>1. w = Truth(rule.constant.truth) /\ rule.constant.truth \in BOOLEAN
            /\ rule.type \notin Numeric
        BY <3>1, <3>3, <3>6 DEF ConstantClean, Numeric
      <4>2. v = w
        BY <3>2, <3>3, <4>1
      <4>3. QED BY <3>6, <4>1, <4>2 DEF ReadAlike
    <3>7. QED BY <3>1, <3>4, <3>5, <3>6 DEF ConstantClean
  <2>2. CASE rule.source # Null
    <3> DEFINE field == schema.fields[rule.source]
    <3>2. \/ field.codec = "integer" /\ rule.type \in Numeric
          \/ field.codec = "boolean" /\ rule.type = "boolean"
          \/ field.codec = "utf8" /\ rule.type = "string"
      BY <2>2, FieldRule
    <3> HIDE DEF field
    <3>3. Match(field.codec, v, w)
      BY <2>2 DEF field
    <3> HIDE DEF v, w
    <3>4. CASE field.codec = "integer" /\ rule.type \in Numeric
      BY <3>3, <3>4 DEF Match, ReadAlike
    <3>5. CASE field.codec = "boolean" /\ rule.type = "boolean"
      BY <3>3, <3>5 DEF Match, ReadAlike
    <3>6. CASE field.codec = "utf8" /\ rule.type = "string"
      <4>1. PICK t : w = Text(t) /\ v = Text(IF Drops(t) THEN Tail(t) ELSE t)
        BY <3>3, <3>6 DEF Match
      <4>2. v = Text(IF rule.source # Null /\ Drops(t) THEN Tail(t) ELSE t)
        BY <2>2, <4>1
      <4>3. QED BY <3>6, <4>1, <4>2 DEF ReadAlike
    <3>7. QED BY <3>2, <3>4, <3>5, <3>6
  <2>3. QED BY <2>1, <2>2
<1> HIDE DEF x, y, v, w
<1>5. CASE rule.type = "datetime"
  <2>1. PICK n \in Int : v = Text(Numeral(n)) /\ w = Number(n)
    BY <1>4, <1>5 DEF ReadAlike, Numeric
  <2>2. /\ x = IF InCalendar(Instant(n, rule.unit)) THEN Ok(Instant(n, rule.unit)) ELSE Error
        /\ y = IF InCalendar(Instant(n, rule.unit)) THEN Ok(Stored(n, rule.unit)) ELSE Error
    BY <1>1, <1>3, <1>5, <2>1, DatetimesAgree
  <2>3. CASE InCalendar(Instant(n, rule.unit))
    <3>1. /\ x.ok = TRUE /\ y.ok = TRUE
          /\ x.value = Instant(n, rule.unit) /\ y.value = Stored(n, rule.unit)
      BY <2>2, <2>3, Results
    <3>2. SameReading(rule, x.value, y.value)
      BY <1>5, <2>3, <3>1, StoredIs DEF SameReading
    <3>3. QED BY <3>1, <3>2 DEF x, y
  <2>4. CASE ~InCalendar(Instant(n, rule.unit))
    <3>1. x.ok = FALSE /\ y.ok = FALSE
      BY <2>2, <2>4, Results
    <3>2. QED BY <3>1 DEF x, y
  <2>5. QED BY <2>3, <2>4
<1>6. CASE rule.type = "integer"
  <2>1. PICK n \in Int : v = Text(Numeral(n)) /\ w = Number(n)
    BY <1>4, <1>6 DEF ReadAlike, Numeric
  <2>2. v.kind = "text" /\ v.text = Numeral(n) /\ w.kind = "number" /\ w.number = n
    BY <2>1, Values
  <2>3. IsDecimal(v.text) /\ IntegerOf(v.text) = n
    BY <2>2, NumeralRoundTrip
  <2>4. x = y /\ x = IF n \in (-MaxBigint - 1)..MaxBigint THEN Ok(n) ELSE Error
    BY <1>1, <1>3, <1>6, <2>2, <2>3
  <2>5. x.ok \in BOOLEAN
    BY <2>4, Results
  <2>6. SameReading(rule, x.value, y.value)
    BY <1>6, <2>4 DEF SameReading
  <2>7. QED BY <2>4, <2>5, <2>6 DEF x, y
<1>7. CASE rule.type = "boolean"
  <2>1. PICK b \in BOOLEAN : v = Truth(b) /\ w = Truth(b)
    BY <1>4, <1>7 DEF ReadAlike, Numeric
  <2>2. x = Ok(b) /\ y = Ok(b)
    BY <1>1, <1>3, <1>7, <2>1, Values
  <2>3. SameReading(rule, x.value, y.value)
    BY <1>7, <2>2 DEF SameReading
  <2>4. QED BY <2>2, <2>3, Results DEF x, y
<1>8. CASE rule.type = "string"
  <2>1. PICK t : w = Text(t) /\ v = Text(IF rule.source # Null /\ Drops(t) THEN Tail(t) ELSE t)
    BY <1>4, <1>8 DEF ReadAlike, Numeric
  <2>2. /\ x = Ok(IF rule.source # Null /\ Drops(t) THEN Tail(t) ELSE t)
        /\ y = Ok(t)
    BY <1>1, <1>3, <1>8, <2>1, Values
  <2>3. SameReading(rule, x.value, y.value)
    BY <1>8, <2>2, Results DEF SameReading
  <2>4. QED BY <2>2, <2>3, Results DEF x, y
<1>9. rule.type \in {"integer", "datetime", "string", "boolean"}
  BY DEF RuleClean
<1>10. QED BY <1>5, <1>6, <1>7, <1>8, <1>9

(* What the two parsers make of a payload, before they judge it.           *)
SimulatorFields(schema, payload) ==
  [f \in DOMAIN schema.fields |-> DecodeField(schema.fields[f], Encode(payload))]
SimulatorReadings(schema, payload) ==
  [q \in DOMAIN schema.rules |->
     ProjectRule(Catalog(schema), Sent(schema.rules[q]), SimulatorFields(schema, payload))]

Segment(schema, f, payload) ==
  SubSeq(Encode(payload), schema.fields[f].start + 1, schema.fields[f].end)
ServerValues(schema, payload) ==
  [f \in DOMAIN schema.fields |-> PythonDecode(schema.fields[f], Segment(schema, f, payload))]
ServerReadings(schema, payload) ==
  [q \in DOMAIN schema.rules |->
     PythonProject(schema, schema.rules[q], ServerValues(schema, payload))]

Sound(results) == \A k \in DOMAIN results : results[k].ok

(* The two parsers.                                                        *)
LEMMA ParsersAre ==
  ASSUME NEW schema, SchemaClean(schema), NEW payload
  PROVE  /\ ParsePayload(Catalog(schema), payload)
              = IF /\ LengthFits(schema, Encode(payload))
                   /\ Sound(SimulatorFields(schema, payload))
                   /\ Sound(SimulatorReadings(schema, payload))
                THEN Ok([fields |-> [f \in DOMAIN schema.fields |->
                                       SimulatorFields(schema, payload)[f].value],
                         readings |-> [q \in DOMAIN schema.rules |->
                                         SimulatorReadings(schema, payload)[q].value]])
                ELSE Error
         /\ PythonParse(schema, payload)
              = IF /\ LengthFits(schema, Encode(payload))
                   /\ Sound(ServerValues(schema, payload))
                   /\ Sound(ServerReadings(schema, payload))
                THEN Ok([q \in DOMAIN schema.rules |-> ServerReadings(schema, payload)[q].value])
                ELSE Error
<1> DEFINE C == Catalog(schema)
           fields == [f \in DOMAIN C.fields |-> DecodeField(C.fields[f], Encode(payload))]
           readings == [q \in DOMAIN C.rules |-> ProjectRule(C, C.rules[q], fields)]
<1>1. C.length = schema.length /\ C.fields = schema.fields
      /\ C.rules = [q \in DOMAIN schema.rules |-> Sent(schema.rules[q])]
  BY CatalogIs
<1>2. ParsePayload(C, payload)
        = IF /\ LengthFits(C, Encode(payload))
             /\ \A f \in DOMAIN fields : fields[f].ok
             /\ \A q \in DOMAIN readings : readings[q].ok
          THEN Ok([fields |-> [f \in DOMAIN fields |-> fields[f].value],
                   readings |-> [q \in DOMAIN readings |-> readings[q].value]])
          ELSE Error
  BY Zenon DEF ParsePayload
<1>3. LengthFits(C, Encode(payload)) <=> LengthFits(schema, Encode(payload))
  BY <1>1 DEF LengthFits
<1>4. fields = SimulatorFields(schema, payload) /\ DOMAIN fields = DOMAIN schema.fields
  BY <1>1 DEF SimulatorFields
<1>5. readings = SimulatorReadings(schema, payload) /\ DOMAIN readings = DOMAIN schema.rules
  <2> HIDE DEF fields
  <2>1. DOMAIN C.rules = DOMAIN schema.rules
        /\ \A q \in DOMAIN schema.rules : C.rules[q] = Sent(schema.rules[q])
    BY <1>1
  <2>2. readings = [q \in DOMAIN schema.rules |->
                      ProjectRule(C, Sent(schema.rules[q]), SimulatorFields(schema, payload))]
    BY <1>4, <2>1
  <2>3. QED BY <2>2 DEF SimulatorReadings
<1> HIDE DEF fields, readings
<1>6. ParsePayload(C, payload)
        = IF /\ LengthFits(schema, Encode(payload))
             /\ Sound(SimulatorFields(schema, payload))
             /\ Sound(SimulatorReadings(schema, payload))
          THEN Ok([fields |-> [f \in DOMAIN schema.fields |->
                                 SimulatorFields(schema, payload)[f].value],
                   readings |-> [q \in DOMAIN schema.rules |->
                                   SimulatorReadings(schema, payload)[q].value]])
          ELSE Error
  BY <1>2, <1>3, <1>4, <1>5, Zenon DEF Sound
<1>7. DOMAIN ServerValues(schema, payload) = DOMAIN schema.fields
      /\ DOMAIN ServerReadings(schema, payload) = DOMAIN schema.rules
  BY DEF ServerValues, ServerReadings
<1>8. PythonParse(schema, payload)
        = IF /\ LengthFits(schema, Encode(payload))
             /\ Sound(ServerValues(schema, payload))
             /\ Sound(ServerReadings(schema, payload))
          THEN Ok([q \in DOMAIN ServerReadings(schema, payload) |->
                     ServerReadings(schema, payload)[q].value])
          ELSE Error
  BY Zenon DEF PythonParse, Sound, ServerValues, ServerReadings, Segment
<1>9. QED BY <1>6, <1>7, <1>8, Zenon

(* A field of a payload that is long enough, for both.                     *)
LEMMA PayloadFields ==
  ASSUME NEW schema, SchemaClean(schema), NEW payload \in Seq(Alphabet),
         LengthFits(schema, Encode(payload)), NEW f \in DOMAIN schema.fields
  PROVE  LET d == SimulatorFields(schema, payload)[f]
             p == ServerValues(schema, payload)[f]
         IN /\ d.ok \in BOOLEAN /\ p.ok \in BOOLEAN
            /\ d.ok => p.ok
            /\ p.ok /\ "fs" \notin ToSet(payload) => d.ok
            /\ d.ok => Match(schema.fields[f].codec, d.value.value, p.value)
<1> DEFINE field == schema.fields[f]
           s == Segment(schema, f, payload)
           d == SimulatorFields(schema, payload)[f]
           p == ServerValues(schema, payload)[f]
<1>1. /\ field.start \in Nat /\ field.end \in Nat /\ field.start < field.end
      /\ field.codec \in Codecs
  BY DEF SchemaClean, FieldsClean, FieldClean, Codecs
<1>2. field.end <= Len(Encode(payload))
  BY DEF LengthFits
<1>3. s = SubSeq(Encode(payload), field.start + 1, field.end)
  BY DEF Segment
<1>4. d = DecodeField(field, Encode(payload)) /\ p = PythonDecode(field, s)
  BY DEF SimulatorFields, ServerValues
<1> HIDE DEF field, s, d, p
<1>5. s \in Seq(Octets(Alphabet)) /\ Occurring(s) \subseteq ToSet(payload)
  BY <1>1, <1>2, <1>3, SegmentOccurs
<1>6. /\ d.ok \in BOOLEAN /\ p.ok \in BOOLEAN
      /\ d.ok => p.ok
      /\ p.ok /\ "fs" \notin Occurring(s) => d.ok
      /\ d.ok => Match(field.codec, d.value.value, p.value)
  BY <1>1, <1>3, <1>4, <1>5, FieldsAgree
<1>7. /\ d.ok \in BOOLEAN /\ p.ok \in BOOLEAN
      /\ d.ok => p.ok
      /\ p.ok /\ "fs" \notin ToSet(payload) => d.ok
      /\ d.ok => Match(field.codec, d.value.value, p.value)
  BY <1>5, <1>6
<1>8. QED BY <1>7 DEF field, d, p

(* A reading of a payload whose fields are decoded, for both.              *)
LEMMA PayloadReadings ==
  ASSUME NEW schema, SchemaClean(schema), NEW payload \in Seq(Alphabet),
         LengthFits(schema, Encode(payload)), Sound(SimulatorFields(schema, payload)),
         NEW q \in DOMAIN schema.rules
  PROVE  LET x == SimulatorReadings(schema, payload)[q]
             y == ServerReadings(schema, payload)[q]
             rule == schema.rules[q]
         IN /\ x.ok \in BOOLEAN /\ y.ok = x.ok
            /\ x.ok => SameReading(rule, x.value, y.value)
<1> DEFINE rule == schema.rules[q]
           x == SimulatorReadings(schema, payload)[q]
           y == ServerReadings(schema, payload)[q]
           C == Catalog(schema)
           fields == SimulatorFields(schema, payload)
           values == ServerValues(schema, payload)
<1>1. x = ProjectRule(C, Sent(rule), fields) /\ y = PythonProject(schema, rule, values)
  BY DEF SimulatorReadings, ServerReadings
<1>2. RuleClean(schema, rule) /\ FieldsClean(schema)
  BY DEF SchemaClean
<1>3. C.fields = schema.fields
  BY CatalogIs
<1>4. ASSUME rule.source # Null
      PROVE  Match(schema.fields[rule.source].codec, fields[rule.source].value.value,
                   values[rule.source].value)
  <2>1. rule.source \in DOMAIN schema.fields
    BY <1>2, <1>4 DEF RuleClean
  <2>2. fields[rule.source].ok
    BY <2>1 DEF Sound, SimulatorFields
  <2> HIDE DEF fields, values, rule
  <2>3. QED BY <2>1, <2>2, PayloadFields DEF fields, values
<1> HIDE DEF rule, x, y, C, fields, values
<1>5. /\ x.ok \in BOOLEAN /\ y.ok = x.ok
      /\ x.ok => SameReading(rule, x.value, y.value)
  BY <1>1, <1>2, <1>3, <1>4, ReadingsAgree
<1>6. QED BY <1>5 DEF rule, x, y

(* What the simulator processes the server processes, and the other way    *)
(* round but for U+001C.                                                   *)
LEMMA PayloadsAgree ==
  ASSUME NEW schema, SchemaClean(schema), NEW payload \in Seq(Alphabet)
  PROVE  LET simulator == ParsePayload(Catalog(schema), payload)
             server == PythonParse(schema, payload)
         IN /\ simulator.ok \in BOOLEAN /\ server.ok \in BOOLEAN
            /\ simulator.ok => server.ok
            /\ server.ok /\ "fs" \notin ToSet(payload) => simulator.ok
            /\ simulator.ok => \A q \in DOMAIN schema.rules :
                 SameReading(schema.rules[q], simulator.value.readings[q], server.value[q])
<1> DEFINE simulator == ParsePayload(Catalog(schema), payload)
           server == PythonParse(schema, payload)
           d == SimulatorFields(schema, payload)
           p == ServerValues(schema, payload)
           x == SimulatorReadings(schema, payload)
           y == ServerReadings(schema, payload)
           Fits == LengthFits(schema, Encode(payload))
           v == [fields |-> [f \in DOMAIN schema.fields |-> d[f].value],
                 readings |-> [q \in DOMAIN schema.rules |-> x[q].value]]
           w == [q \in DOMAIN schema.rules |-> y[q].value]
           Same(q) == SameReading(schema.rules[q], x[q].value, y[q].value)
<1>1. /\ simulator = IF Fits /\ Sound(d) /\ Sound(x) THEN Ok(v) ELSE Error
      /\ server = IF Fits /\ Sound(p) /\ Sound(y) THEN Ok(w) ELSE Error
  BY ParsersAre
<1>2. DOMAIN d = DOMAIN schema.fields /\ DOMAIN p = DOMAIN schema.fields
      /\ DOMAIN x = DOMAIN schema.rules /\ DOMAIN y = DOMAIN schema.rules
  BY DEF SimulatorFields, ServerValues, SimulatorReadings, ServerReadings
<1>3. v.readings = [q \in DOMAIN schema.rules |-> x[q].value]
  OBVIOUS
<1> HIDE DEF v
<1>4. ASSUME Fits
      PROVE  /\ Sound(d) => Sound(p)
             /\ Sound(p) /\ "fs" \notin ToSet(payload) => Sound(d)
  <2>1. ASSUME NEW f \in DOMAIN schema.fields
        PROVE (d[f].ok => p[f].ok) /\ (p[f].ok /\ "fs" \notin ToSet(payload) => d[f].ok)
    BY <1>4, PayloadFields
  <2> HIDE DEF d, p
  <2>2. QED BY <1>2, <2>1 DEF Sound
<1>5. ASSUME Fits, Sound(d)
      PROVE  Sound(x) = Sound(y) /\ (Sound(x) => \A q \in DOMAIN schema.rules : Same(q))
  <2>1. ASSUME NEW q \in DOMAIN schema.rules
        PROVE  x[q].ok \in BOOLEAN /\ y[q].ok = x[q].ok /\ (x[q].ok => Same(q))
    BY <1>5, PayloadReadings
  <2> HIDE DEF x, y, Same
  <2>2. QED BY <1>2, <2>1 DEF Sound
<1> HIDE DEF simulator, server, d, p, x, y, Fits
<1>6. (simulator.ok <=> Fits /\ Sound(d) /\ Sound(x)) /\ simulator.ok \in BOOLEAN
      /\ (server.ok <=> Fits /\ Sound(p) /\ Sound(y)) /\ server.ok \in BOOLEAN
  BY <1>1, Results
<1>7. simulator.ok => server.ok
  BY <1>4, <1>5, <1>6
<1>8. server.ok /\ "fs" \notin ToSet(payload) => simulator.ok
  BY <1>4, <1>5, <1>6
<1>9. ASSUME simulator.ok, NEW q \in DOMAIN schema.rules
      PROVE  SameReading(schema.rules[q], simulator.value.readings[q], server.value[q])
  <2>1. simulator.value = v /\ server.value = w
    BY <1>1, <1>6, <1>7, <1>9, Results
  <2>2. simulator.value.readings[q] = x[q].value /\ server.value[q] = y[q].value
    BY <1>3, <2>1
  <2>3. Same(q)
    BY <1>5, <1>6, <1>9
  <2>4. QED BY <2>2, <2>3
<1>10. QED BY <1>6, <1>7, <1>8, <1>9 DEF simulator, server

-----------------------------------------------------------------------------
(* The states.                                                             *)

(* An input is one of the three kinds, for a schema of the database.       *)
Inputs ==
  \/ input = None
  \/ /\ input.kind = "drafts" /\ input.schema \in Schemas /\ input.gap \in Gaps
     /\ input.drafts \in DraftsFor(input.schema)
  \/ input.kind = "payload" /\ input.schema \in Schemas /\ input.payload \in Payloads
  \/ input.kind = "schema" /\ input.schema \in Schemas

(* The inputs a behaviour chooses are the ones offered.                    *)
LEMMA InputsAlways == Spec => []Inputs
<1>1. Init => Inputs
  BY DEF Init, Inputs
<1>2. Inputs /\ [Next]_input => Inputs'
  <2> SUFFICES ASSUME Inputs, [Next]_input PROVE Inputs'
    OBVIOUS
  <2>1. ASSUME NEW schema \in Schemas, Compose(schema) PROVE Inputs'
    BY <2>1 DEF Compose, Inputs
  <2>2. ASSUME NEW schema \in Schemas, Receive(schema) PROVE Inputs'
    BY <2>2 DEF Receive, Inputs
  <2>3. ASSUME NEW schema \in Schemas, Open(schema) PROVE Inputs'
    BY <2>3 DEF Open, Inputs
  <2>4. CASE UNCHANGED input
    BY <2>4 DEF Inputs
  <2>5. QED BY <2>1, <2>2, <2>3, <2>4 DEF Next
<1>3. QED BY <1>1, <1>2, PTL DEF Spec

(* A receipt of the simulator is no empty promise (parsePayload): what its *)
(* parser processes the server processes, into the same readings, and what *)
(* it fails the server fails - for any schemas that full_clean lets into   *)
(* the database and any payloads.                                          *)
THEOREM Agreement == Spec => []DecodersAgree
<1>1. Inputs => DecodersAgree
  <2> SUFFICES ASSUME Inputs, input.kind = "payload" PROVE DecodersAgree
    BY DEF DecodersAgree
  <2> DEFINE schema == input.schema
             payload == input.payload
  <2>1. schema \in Schemas /\ payload \in Payloads
    BY DEF Inputs, None
  <2>2. SchemaClean(schema) /\ payload \in Seq(Alphabet)
    BY <2>1, InputsAssumption
  <2> HIDE DEF schema, payload
  <2> DEFINE simulator == ParsePayload(Catalog(schema), payload)
             server == PythonParse(schema, payload)
  <2>3. /\ simulator.ok \in BOOLEAN /\ server.ok \in BOOLEAN
        /\ simulator.ok => server.ok
        /\ server.ok /\ "fs" \notin ToSet(payload) => simulator.ok
        /\ simulator.ok => \A q \in DOMAIN schema.rules :
             SameReading(schema.rules[q], simulator.value.readings[q], server.value[q])
    BY <2>2, PayloadsAgree
  <2>4. QED BY <2>3, Zenon DEF DecodersAgree, schema, payload
<1>2. QED BY <1>1, InputsAlways, PTL

-----------------------------------------------------------------------------
(* Generation.                                                             *)

(* The furthest end is 0 or an end, and no end is further.                 *)
LEMMA FurthestIs ==
  ASSUME NEW schema, FieldsClean(schema)
  PROVE  /\ FurthestEnd(schema) \in Nat
         /\ \A f \in DOMAIN schema.fields : schema.fields[f].end <= FurthestEnd(schema)
         /\ \/ FurthestEnd(schema) = 0
            \/ \E f \in DOMAIN schema.fields : schema.fields[f].end = FurthestEnd(schema)
<1> DEFINE D == DOMAIN schema.fields
           n == Cardinality(D)
           S == {0} \cup {f.end : f \in Spans(schema)}
<1>1. IsFiniteSet(D) /\ \A f \in D : schema.fields[f].end \in Nat
  BY DEF FieldsClean, FieldClean
<1>2. S = {0} \cup {schema.fields[f].end : f \in D} /\ S \subseteq Nat
  BY <1>1 DEF Spans
<1>3. n \in Nat /\ ExistsBijection(1..n, D)
  BY <1>1, FS_CardinalityType
<1>4. PICK g \in [1..n -> D] : \A f \in D : \E i \in 1..n : g[i] = f
  <2>1. PICK g : g \in Bijection(1..n, D)
    BY <1>3 DEF ExistsBijection
  <2>2. QED BY <2>1 DEF Bijection, Surjection
<1> HIDE DEF n
<1> DEFINE e(i) == schema.fields[g[i]].end
           Top(k, m) == m \in S /\ \A i \in 1..k : e(i) <= m
           T == {k \in Nat : k <= n => \E m \in S : Top(k, m)}
<1>5. 0 \in T
  <2>1. 0 \in S /\ \A i \in 1..0 : e(i) <= 0
    OBVIOUS
  <2>2. QED BY <2>1
<1>6. ASSUME NEW k \in Nat, k \in T PROVE k + 1 \in T
  <2> HIDE DEF Top, S
  <2>1. SUFFICES ASSUME k + 1 <= n PROVE \E m \in S : Top(k + 1, m)
    OBVIOUS
  <2>2. PICK m \in S : Top(k, m) /\ \A i \in 1..k : e(i) <= m
    BY <1>3, <1>6, <2>1 DEF Top
  <2>3. k + 1 \in 1..n /\ g[k + 1] \in D
    BY <1>3, <1>4, <2>1
  <2>4. e(k + 1) \in S /\ e(k + 1) \in Nat /\ m \in Nat
    BY <1>1, <1>2, <2>2, <2>3
  <2>5. \A i \in 1..(k + 1) : i \in 1..k \/ i = k + 1
    OBVIOUS
  <2>6. \A i \in 1..k : e(i) \in Nat
    <3>1. \A i \in 1..k : g[i] \in D
      BY <1>3, <1>4, <2>1
    <3>2. QED BY <1>1, <3>1
  <2> HIDE DEF e
  <2>7. CASE e(k + 1) <= m
    <3>1. Top(k + 1, m)
      BY <2>2, <2>5, <2>7 DEF Top
    <3>2. QED BY <3>1, <2>2
  <2>8. CASE ~(e(k + 1) <= m)
    <3>1. \A i \in 1..k : e(i) <= e(k + 1)
      BY <2>2, <2>4, <2>6, <2>8
    <3>2. Top(k + 1, e(k + 1))
      BY <2>4, <2>5, <3>1 DEF Top
    <3>3. QED BY <2>4, <3>2
  <2>9. QED BY <2>7, <2>8
<1>7. PICK m \in S : Top(n, m)
  <2>1. Nat \subseteq T
    <3> HIDE DEF T
    <3> QED BY <1>5, <1>6, Induct
  <2>2. n \in T
    BY <1>3, <2>1
  <2> HIDE DEF Top, S
  <2>3. QED BY <1>3, <2>2
<1>8. \A x \in S : m >= x
  <2>1. \A f \in D : schema.fields[f].end <= m
    BY <1>4, <1>7
  <2>2. m \in Nat
    BY <1>2
  <2>3. ASSUME NEW x \in S PROVE m >= x
    <3>1. x = 0 \/ \E f \in D : x = schema.fields[f].end
      BY <1>2
    <3> HIDE DEF S
    <3>2. CASE x = 0 BY <2>2, <3>2
    <3>3. CASE \E f \in D : x = schema.fields[f].end BY <2>1, <3>3
    <3>4. QED BY <3>1, <3>2, <3>3
  <2>4. QED BY <2>3
<1>9. /\ FurthestEnd(schema) \in S /\ \A x \in S : FurthestEnd(schema) >= x
  <2>1. \E y \in S : \A x \in S : y >= x
    BY <1>8
  <2>2. FurthestEnd(schema) = CHOOSE y \in S : \A x \in S : y >= x
    BY DEF FurthestEnd, Max
  <2> HIDE DEF S
  <2>3. QED BY <2>1, <2>2
<1>10. QED BY <1>2, <1>9

(* Every field ends within the length of the generated payload.            *)
LEMMA LengthIs ==
  ASSUME NEW schema, SchemaClean(schema)
  PROVE  /\ GeneratedLength(schema) \in Nat
         /\ \A f \in DOMAIN schema.fields : schema.fields[f].end <= GeneratedLength(schema)
         /\ schema.length # Null => FurthestEnd(schema) <= schema.length
<1>1. FieldsClean(schema) /\ (schema.length # Null => schema.length \in Nat \ {0})
  BY DEF SchemaClean
<1>2. /\ FurthestEnd(schema) \in Nat
      /\ \A f \in DOMAIN schema.fields : schema.fields[f].end <= FurthestEnd(schema)
      /\ \/ FurthestEnd(schema) = 0
         \/ \E f \in DOMAIN schema.fields : schema.fields[f].end = FurthestEnd(schema)
  BY <1>1, FurthestIs
<1>3. schema.length # Null => \A f \in DOMAIN schema.fields : schema.fields[f].end <= schema.length
  BY <1>1 DEF FieldsClean, FieldClean
<1>4. schema.length # Null => FurthestEnd(schema) <= schema.length
  BY <1>1, <1>2, <1>3
<1>5. QED BY <1>1, <1>2, <1>3, <1>4 DEF GeneratedLength

(* The generator sees the same fields and lengths through the catalog.     *)
LEMMA CatalogGenerates ==
  ASSUME NEW schema, SchemaClean(schema)
  PROVE  LET C == Catalog(schema)
         IN /\ GeneratedLength(C) = GeneratedLength(schema)
            /\ ValidForGeneration(C) = ValidForGeneration(schema)
            /\ \A drafts, gap : Assemble(C, drafts, gap) = Assemble(schema, drafts, gap)
<1> DEFINE C == Catalog(schema)
<1>1. C.length = schema.length /\ C.fields = schema.fields
  BY CatalogIs
<1> HIDE DEF C
<1>2. FurthestEnd(C) = FurthestEnd(schema)
  BY <1>1, Zenon DEF FurthestEnd, Spans
<1>3. GeneratedLength(C) = GeneratedLength(schema)
  BY <1>1, <1>2, Zenon DEF GeneratedLength
<1>4. ValidForGeneration(C) = ValidForGeneration(schema)
  BY <1>1, <1>2, <1>3, Zenon DEF ValidForGeneration
<1>5. ASSUME NEW drafts, NEW gap PROVE Assemble(C, drafts, gap) = Assemble(schema, drafts, gap)
  <2> DEFINE Of(fields, n) ==
        [i \in 1..n |->
           LET here == {f \in DOMAIN fields : fields[f].start < i /\ i <= fields[f].end}
           IN IF here = {} THEN <<gap, 1>>
              ELSE LET f == CHOOSE g \in here : TRUE
                   IN Encode(drafts[f])[i - fields[f].start]]
  <2>1. /\ Assemble(C, drafts, gap) = Of(C.fields, GeneratedLength(C))
        /\ Assemble(schema, drafts, gap) = Of(schema.fields, GeneratedLength(schema))
    BY Zenon DEF Assemble
  <2> HIDE DEF Of
  <2>2. QED BY <1>1, <1>3, <2>1
<1>6. QED BY <1>3, <1>4, <1>5 DEF C

(* Drafts that are as long as their fields.                                *)
Fitting(schema, drafts) ==
  \A f \in DOMAIN schema.fields :
    drafts[f] \in Seq(Alphabet) /\ Len(Encode(drafts[f])) = Width(schema.fields[f])

(* What is assembled has the length of the schema; each field of it is the *)
(* encoding of its draft, and there is a gap byte in between.              *)
LEMMA AssembleIs ==
  ASSUME NEW schema, SchemaClean(schema), NEW drafts, Fitting(schema, drafts), NEW gap \in Gaps
  PROVE  LET b == Assemble(schema, drafts, gap)
         IN /\ b \in Seq(Octets(Alphabet)) /\ Len(b) = GeneratedLength(schema)
            /\ \A f \in DOMAIN schema.fields :
                 SubSeq(b, schema.fields[f].start + 1, schema.fields[f].end) = Encode(drafts[f])
            /\ \A i \in 1..Len(b) :
                 \/ b[i] = <<gap, 1>>
                 \/ \E f \in DOMAIN schema.fields :
                      \E k \in 1..Len(Encode(drafts[f])) : b[i] = Encode(drafts[f])[k]
<1> DEFINE fields == schema.fields
           D == DOMAIN schema.fields
           L == GeneratedLength(schema)
           b == Assemble(schema, drafts, gap)
           here(i) == {f \in D : fields[f].start < i /\ i <= fields[f].end}
           At(i) == IF here(i) = {} THEN <<gap, 1>>
                    ELSE LET f == CHOOSE g \in here(i) : TRUE
                         IN Encode(drafts[f])[i - fields[f].start]
<1>1. L \in Nat /\ \A f \in D : fields[f].end <= L
  BY LengthIs
<1>2. /\ \A f \in D : fields[f].start \in Nat /\ fields[f].end \in Nat
                      /\ fields[f].start < fields[f].end
      /\ \A f, g \in D : f # g =>
           fields[f].end <= fields[g].start \/ fields[g].end <= fields[f].start
  BY DEF SchemaClean, FieldsClean, FieldClean
<1>3. b = [i \in 1..L |-> At(i)]
  BY Zenon DEF Assemble
<1>4. ASSUME NEW f \in D
      PROVE  /\ Encode(drafts[f]) \in Seq(Octets(Alphabet))
             /\ Len(Encode(drafts[f])) = fields[f].end - fields[f].start
  <2>1. drafts[f] \in Seq(Alphabet) /\ Len(Encode(drafts[f])) = Width(fields[f])
    BY DEF Fitting
  <2>2. QED BY <2>1, EncodeAppend DEF Width
<1>5. ASSUME NEW f \in D, NEW i \in Int, fields[f].start < i, i <= fields[f].end
      PROVE  At(i) = Encode(drafts[f])[i - fields[f].start]
  <2>1. f \in here(i)
    BY <1>5
  <2>2. ASSUME NEW g \in here(i) PROVE g = f
    BY <1>2, <1>5, <2>2
  <2>3. (CHOOSE g \in here(i) : TRUE) = f
    <3> HIDE DEF here
    <3>1. (CHOOSE g \in here(i) : TRUE) \in here(i)
      BY <2>1
    <3>2. QED BY <2>2, <3>1
  <2>4. here(i) # {}
    BY <2>1
  <2> HIDE DEF here
  <2>5. QED BY <2>3, <2>4, Zenon
<1>6. ASSUME NEW i \in 1..L
      PROVE  /\ At(i) \in Octets(Alphabet)
             /\ \/ At(i) = <<gap, 1>>
                \/ \E f \in D : \E k \in 1..Len(Encode(drafts[f])) : At(i) = Encode(drafts[f])[k]
  <2>1. CASE here(i) = {}
    <3>1. At(i) = <<gap, 1>>
      BY <2>1, Zenon
    <3>2. gap \in Alphabet
      <4>1. gap \in {" ", "0"} /\ Ascii \subseteq Alphabet
        BY InputsAssumption
      <4>2. QED BY <4>1, DigitsAre DEF Ascii
    <3>3. <<gap, 1>> \in Octets(Alphabet)
      BY <3>2 DEF Octets
    <3>4. QED BY <3>1, <3>3
  <2>2. CASE here(i) # {}
    <3> HIDE DEF At
    <3>1. PICK f \in D : fields[f].start < i /\ i <= fields[f].end
      BY <2>2
    <3>2. At(i) = Encode(drafts[f])[i - fields[f].start]
      BY <1>5, <3>1
    <3>3. i - fields[f].start \in 1..Len(Encode(drafts[f]))
      BY <1>2, <1>4, <3>1
    <3>4. At(i) \in Octets(Alphabet)
      BY <1>4, <3>2, <3>3, ElementOfSeq
    <3>5. QED BY <3>2, <3>3, <3>4
  <2>3. QED BY <2>1, <2>2
<1>7. b \in Seq(Octets(Alphabet)) /\ Len(b) = L /\ \A i \in 1..L : b[i] = At(i)
  <2> HIDE DEF At, L
  <2>1. b \in [1..L -> Octets(Alphabet)]
    BY <1>3, <1>6
  <2>2. b \in Seq(Octets(Alphabet))
    BY <1>1, <2>1, SeqDef
  <2>3. DOMAIN b = 1..L
    BY <1>3
  <2>4. Len(b) = L
    BY <1>1, <2>2, <2>3, LenProperties
  <2>5. QED BY <1>3, <2>2, <2>4
<1> HIDE DEF b
<1>8. ASSUME NEW f \in D
      PROVE  SubSeq(b, fields[f].start + 1, fields[f].end) = Encode(drafts[f])
  <2> DEFINE i == fields[f].start
             j == fields[f].end
             s == SubSeq(b, i + 1, j)
  <2>1. i \in Nat /\ j \in Nat /\ i < j /\ j <= Len(b)
    BY <1>1, <1>2, <1>7
  <2>2. s \in Seq(Octets(Alphabet)) /\ Len(s) = j - i /\ \A k \in 1..(j - i) : s[k] = b[i + k]
    <3>1. b \in Seq(Octets(Alphabet))
      BY <1>7
    <3> HIDE DEF i, j
    <3>2. QED BY <2>1, <3>1, SegmentIs
  <2>3. ASSUME NEW k \in 1..Len(s) PROVE s[k] = Encode(drafts[f])[k]
    <3>1. i + k \in 1..L /\ i < i + k /\ i + k <= j /\ (i + k) - i = k
      <4> HIDE DEF i, j, s, L
      <4>1. L \in Nat /\ j <= L
        BY <1>1, <1>7, <2>1
      <4>2. k \in 1..(j - i)
        BY <2>2
      <4>3. QED BY <2>1, <4>1, <4>2
    <3>2. At(i + k) = Encode(drafts[f])[k]
      <4> HIDE DEF At
      <4> QED BY <1>5, <3>1
    <3> HIDE DEF At, s
    <3>3. QED BY <1>7, <2>2, <3>1, <3>2
  <2>4. Len(s) = Len(Encode(drafts[f]))
    BY <1>4, <2>2
  <2> HIDE DEF s
  <2>5. s = Encode(drafts[f])
    BY <1>4, <2>2, <2>3, <2>4, SeqEqual
  <2>6. QED BY <2>5 DEF s
<1>9. ASSUME NEW i \in 1..L
      PROVE  \/ b[i] = <<gap, 1>>
             \/ \E f \in D : \E k \in 1..Len(Encode(drafts[f])) : b[i] = Encode(drafts[f])[k]
  <2> HIDE DEF At
  <2> QED BY <1>6, <1>7
<1>10. QED BY <1>7, <1>8, <1>9 DEF b

(* A generated payload is what is assembled: no byte order mark is         *)
(* dropped, since the parser would miss the bytes of it at the end.        *)
LEMMA GeneratedIs ==
  ASSUME NEW schema, SchemaClean(schema), NEW gap \in Gaps,
         NEW drafts, \A f \in DOMAIN schema.fields : drafts[f] \in Seq(Alphabet),
         NEW g, g = GeneratePayload(Catalog(schema), drafts, gap), g.ok
  PROVE  /\ ValidForGeneration(Catalog(schema))
         /\ \A f \in DOMAIN schema.fields : DraftFits(schema.fields[f], drafts[f])
         /\ Fitting(schema, drafts)
         /\ g.value \in Seq(Alphabet) /\ Encode(g.value) = Assemble(schema, drafts, gap)
         /\ ~Drops(g.value) /\ ParsePayload(Catalog(schema), g.value).ok
<1> DEFINE C == Catalog(schema)
           D == DOMAIN schema.fields
           b == Assemble(schema, drafts, gap)
           u == Utf8Decoder(b)
           t == Decode(b).value
           Fit == \A f \in D : f \in DOMAIN drafts /\ DraftFits(schema.fields[f], drafts[f])
<1>1. /\ C.length = schema.length /\ C.fields = schema.fields
      /\ Assemble(C, drafts, gap) = b
  <2>1. \A d, x : Assemble(C, d, x) = Assemble(schema, d, x)
    BY CatalogGenerates
  <2>2. Assemble(C, drafts, gap) = b
    BY <2>1, Zenon
  <2>3. QED BY <2>2, CatalogIs
<1> HIDE DEF b
<1>2. g = IF ValidForGeneration(C) /\ Fit
          THEN IF u.ok /\ ParsePayload(C, u.value).ok THEN u ELSE Error
          ELSE Error
  BY <1>1, Zenon DEF GeneratePayload
<1> HIDE DEF C, Fit
<1>3. ValidForGeneration(C) /\ Fit /\ u.ok /\ ParsePayload(C, u.value).ok /\ g = u
  BY <1>2, Results
<1>4. \A f \in D : DraftFits(schema.fields[f], drafts[f])
  BY <1>3 DEF Fit
<1>5. Fitting(schema, drafts)
  BY <1>4 DEF Fitting, DraftFits
<1>6. b \in Seq(Octets(Alphabet)) /\ Len(b) = GeneratedLength(schema)
  BY <1>5, AssembleIs DEF b
<1>7. /\ Decode(b).ok
      /\ u = Ok(IF Drops(t) THEN Tail(t) ELSE t)
  BY <1>3, <1>6, Utf8Is
<1>8. t \in Seq(Alphabet) /\ Encode(t) = b
  BY <1>6, <1>7, DecodeOk
<1>9. ~Drops(t)
  <2>1. SUFFICES ASSUME Drops(t) PROVE FALSE
    OBVIOUS
  <2> DEFINE r == Tail(t)
             n == Len(Encode(r))
  <2>2. u.value = r
    BY <1>7, <2>1, Results
  <2>3. t # <<>> /\ Head(t) = "bom"
    BY <2>1 DEF Drops
  <2>4. r \in Seq(Alphabet) /\ Len(b) = Bytes(Head(t)) + n
    BY <1>8, <2>3, HeadTailProperties, EncodeTail
  <2>5. Bytes(Head(t)) = 3
    BY <2>3, Zenon DEF Bytes
  <2>6. n \in Nat
    BY <2>4, EncodeAppend, LenProperties
  <2>7. LengthFits(schema, Encode(r))
    <3>1. ParsePayload(C, r).ok
      BY <1>3, <2>2
    <3> HIDE DEF r
    <3>2. ParsePayload(C, r) = Error \/ LengthFits(schema, Encode(r))
      BY ParsersAre DEF C
    <3>3. QED BY <3>1, <3>2, Results
  <2> HIDE DEF r
  <2>8. /\ schema.length # Null => n = schema.length
        /\ \A f \in D : schema.fields[f].end <= n
    BY <2>7 DEF LengthFits
  <2>9. GeneratedLength(schema) = n + 3
    BY <1>6, <2>4, <2>5, <2>6
  <2> HIDE DEF n
  <2>10. FieldsClean(schema)
    BY DEF SchemaClean
  <2>11. CASE schema.length # Null
    <3>1. GeneratedLength(schema) = n
      BY <2>8, <2>11 DEF GeneratedLength
    <3>2. QED BY <2>6, <2>9, <3>1
  <2>12. CASE schema.length = Null
    <3>1. GeneratedLength(schema) = FurthestEnd(schema)
      BY <2>12 DEF GeneratedLength
    <3>2. FurthestEnd(schema) = 0 \/ \E f \in D : schema.fields[f].end = FurthestEnd(schema)
      BY <2>10, FurthestIs
    <3>3. QED BY <2>6, <2>8, <2>9, <3>1, <3>2
  <2>13. QED BY <2>11, <2>12
<1>10. u.value = t
  BY <1>7, <1>9, Results
<1>11. QED BY <1>3, <1>4, <1>5, <1>8, <1>9, <1>10 DEF C, b

(* The segment of a field in a generated payload.                          *)
LEMMA GeneratedSegment ==
  ASSUME NEW schema, SchemaClean(schema), NEW gap \in Gaps,
         NEW drafts, Fitting(schema, drafts),
         NEW t, Encode(t) = Assemble(schema, drafts, gap),
         NEW f \in DOMAIN schema.fields
  PROVE  Segment(schema, f, t) = Encode(drafts[f])
BY AssembleIs DEF Segment

(* The drafts of the composer.                                             *)
LEMMA DraftsAre ==
  ASSUME NEW schema \in Schemas, NEW drafts \in DraftsFor(schema)
  PROVE  /\ DOMAIN drafts = DOMAIN schema.fields
         /\ drafts = [f \in DOMAIN schema.fields |-> drafts[f]]
         /\ \A f \in DOMAIN schema.fields : drafts[f] \in Seq(Alphabet)
<1>1. /\ drafts \in [DOMAIN schema.fields -> UNION {Draft(schema, f) : f \in DOMAIN schema.fields}]
      /\ \A f \in DOMAIN schema.fields : drafts[f] \in Draft(schema, f)
  BY DEF DraftsFor
<1>2. \A f \in DOMAIN schema.fields : Draft(schema, f) \subseteq Seq(Alphabet)
  BY InputsAssumption
<1>3. \A f \in DOMAIN schema.fields : drafts[f] \in Seq(Alphabet)
  BY <1>1, <1>2
<1>4. DOMAIN drafts = DOMAIN schema.fields
  BY <1>1
<1>5. drafts = [f \in DOMAIN drafts |-> drafts[f]]
  BY <1>1
<1>6. QED BY <1>3, <1>4, <1>5

(* "builds valid payloads from the same database configuration": what      *)
(* generatePayload returns has the length of the schema and is processed   *)
(* by the server into the values of the drafts, as they were typed.        *)
THEOREM Generated == Spec => []GeneratedIsAccepted
<1>1. Inputs => GeneratedIsAccepted
  <2> SUFFICES ASSUME Inputs, input.kind = "drafts" PROVE GeneratedIsAccepted
    BY DEF GeneratedIsAccepted
  <2> DEFINE schema == input.schema
             drafts == input.drafts
             gap == input.gap
             g == GeneratePayload(Catalog(schema), drafts, gap)
             server == PythonParse(schema, g.value)
             Typed(f) == PythonDecode(schema.fields[f], Encode(drafts[f])).value
  <2>1. schema \in Schemas /\ gap \in Gaps /\ drafts \in DraftsFor(schema)
    BY DEF Inputs, None
  <2>2. GeneratedIsAccepted <=>
          (g.ok => /\ Len(Encode(g.value)) = GeneratedLength(schema)
                   /\ server.ok
                   /\ \A q \in DOMAIN schema.rules :
                        schema.rules[q].source # Null =>
                          server.value[q] = CoerceParameterValue(schema.rules[q],
                                              Typed(schema.rules[q].source)).value)
    BY Zenon DEF GeneratedIsAccepted
  <2>3. SUFFICES ASSUME g.ok
                 PROVE /\ Len(Encode(g.value)) = GeneratedLength(schema)
                       /\ server.ok
                       /\ \A q \in DOMAIN schema.rules :
                            schema.rules[q].source # Null =>
                              server.value[q] = CoerceParameterValue(schema.rules[q],
                                                  Typed(schema.rules[q].source)).value
    BY <2>2
  <2>4. SchemaClean(schema)
    BY <2>1, InputsAssumption
  <2> HIDE DEF schema, drafts, gap, g
  <2>5. \A f \in DOMAIN schema.fields : drafts[f] \in Seq(Alphabet)
    BY <2>1, DraftsAre
  <2>6. /\ Fitting(schema, drafts)
        /\ g.value \in Seq(Alphabet) /\ Encode(g.value) = Assemble(schema, drafts, gap)
        /\ ParsePayload(Catalog(schema), g.value).ok
    BY <2>1, <2>3, <2>4, <2>5, GeneratedIs DEF g
  <2>7. Len(Encode(g.value)) = GeneratedLength(schema)
    BY <2>1, <2>4, <2>6, AssembleIs
  <2>8. server.ok
    BY <2>4, <2>6, PayloadsAgree
  <2>9. server = Ok([q \in DOMAIN schema.rules |-> ServerReadings(schema, g.value)[q].value])
    <3>1. \/ server = Error
          \/ server = Ok([q \in DOMAIN schema.rules |-> ServerReadings(schema, g.value)[q].value])
      BY <2>4, ParsersAre
    <3>2. QED BY <2>8, <3>1, Results
  <2>10. ASSUME NEW q \in DOMAIN schema.rules, schema.rules[q].source # Null
         PROVE  server.value[q]
                  = CoerceParameterValue(schema.rules[q], Typed(schema.rules[q].source)).value
    <3> DEFINE rule == schema.rules[q]
               f == schema.rules[q].source
    <3>1. server.value[q] = ServerReadings(schema, g.value)[q].value
      BY <2>9, Results
    <3>2. ServerReadings(schema, g.value)[q]
            = PythonProject(schema, rule, ServerValues(schema, g.value))
      BY DEF ServerReadings
    <3>3. RuleClean(schema, rule) /\ FieldsClean(schema) /\ f \in DOMAIN schema.fields
      BY <2>4, <2>10 DEF SchemaClean, RuleClean
    <3>4. PythonProject(schema, rule, ServerValues(schema, g.value))
            = CoerceParameterValue(rule, ServerValues(schema, g.value)[f].value)
      BY <2>10, <3>3, ProjectIs
    <3>5. ServerValues(schema, g.value)[f]
            = PythonDecode(schema.fields[f], Segment(schema, f, g.value))
      BY <3>3 DEF ServerValues
    <3>6. Segment(schema, f, g.value) = Encode(drafts[f])
      BY <2>1, <2>4, <2>6, <3>3, GeneratedSegment
    <3>7. QED BY <3>1, <3>2, <3>4, <3>5, <3>6
  <2>11. QED BY <2>7, <2>8, <2>10
<1>2. QED BY <1>1, InputsAlways, PTL

-----------------------------------------------------------------------------
(* Replay.                                                                 *)

(* A text of ASCII characters is what its bytes are decoded to.            *)
LEMMA AsciiEncode ==
  ASSUME NEW t \in Seq(Alphabet), NEW s, s = Encode(t),
         AsciiDecoder(s).ok \/ t \in Seq(Ascii)
  PROVE  AsciiDecoder(s) = Ok(t) /\ t \in Seq(Ascii) /\ Len(s) = Len(t)
         /\ \A i \in 1..Len(t) : s[i] = <<t[i], 1>>
<1>1. s \in Seq(Octets(Alphabet)) /\ DOMAIN s = 1..Len(s) /\ Len(t) \in Nat /\ DOMAIN t = 1..Len(t)
  BY EncodeAppend, LenProperties
<1>2. ASSUME NEW j \in 1..Len(t) PROVE t[j] \in Ascii
  <2>1. CASE t \in Seq(Ascii)
    BY <2>1, ElementOfSeq
  <2>2. CASE AsciiDecoder(s).ok
    <3>1. PICK i \in 1..Len(s) : s[i] = <<t[j], 1>>
      BY EncodeOccurs
    <3>2. AsciiDecoder(s).value \in Seq(Ascii) /\ Len(AsciiDecoder(s).value) = Len(s)
          /\ AsciiDecoder(s).value[i] = s[i][1]
      BY <1>1, <2>2, AsciiIs
    <3>3. AsciiDecoder(s).value[i] \in Ascii
      BY <3>2, ElementOfSeq
    <3>4. QED BY <3>1, <3>2, <3>3
  <2>3. QED BY <2>1, <2>2
<1>3. t \in Seq(Ascii)
  <2>1. t \in [1..Len(t) -> Ascii]
    BY <1>1, <1>2, LenProperties
  <2>2. QED BY <1>1, <2>1, SeqDef
<1>4. \A j \in 1..Len(t) : Bytes(t[j]) = 1
  BY <1>2, BytesRange
<1>5. Len(s) = Len(t) /\ \A i \in 1..Len(t) : s[i] = <<t[i], 1>>
  BY <1>4, EncodeSingle
<1>6. AsciiDecoder(s) = Ok([i \in DOMAIN s |-> s[i][1]])
  <2>1. \A i \in DOMAIN s : s[i][1] \in Ascii
    BY <1>1, <1>2, <1>5
  <2>2. QED BY <2>1, Zenon DEF AsciiDecoder
<1>7. [i \in DOMAIN s |-> s[i][1]] = t
  <2>1. [i \in DOMAIN s |-> s[i][1]] = [i \in 1..Len(t) |-> t[i]]
    BY <1>1, <1>5
  <2>2. t = [i \in 1..Len(t) |-> t[i]]
    BY <1>1, LenProperties
  <2>3. QED BY <2>1, <2>2
<1>8. QED BY <1>3, <1>5, <1>6, <1>7

(* The text of a field that parsePayload reports, if its bytes are those   *)
(* of a draft without a byte order mark, is the draft.                     *)
LEMMA RawIs ==
  ASSUME NEW t \in Seq(Alphabet), ~Drops(t), NEW field, field.codec \in Codecs, NEW bytes,
         SubSeq(bytes, field.start + 1, field.end) = Encode(t), DecodeField(field, bytes).ok
  PROVE  DecodeField(field, bytes).value.raw = t
<1> DEFINE s == Encode(t)
           d == DecodeField(field, bytes)
           a == AsciiDecoder(s)
           u == Utf8Decoder(s)
           m == Trim(a.value)
           F(v) == Ok([raw |-> a.value, value |-> v])
<1>1. \A v : F(v).value.raw = a.value
  BY Results
<1>2. a.ok => a.value = t
  BY AsciiEncode, Results
<1>3. CASE field.codec = "utf8"
  <2>1. d = IF u.ok THEN Ok([raw |-> u.value, value |-> Text(u.value)]) ELSE Error
    BY <1>3, SimulatorDecodes
  <2>2. s \in Seq(Octets(Alphabet)) /\ Decode(s) = Ok(t)
    BY EncodeAppend, DecodeEncode
  <2> HIDE DEF s, d
  <2>3. u = Ok(t)
    BY <2>2, Results, Utf8Is
  <2>4. d = Ok([raw |-> t, value |-> Text(t)])
    BY <2>1, <2>3, Results
  <2>5. QED BY <2>4, Results DEF d
<1>4. CASE field.codec = "integer"
  <2>1. d = IF a.ok /\ IsInteger(m) THEN F(Text(Numeral(IntegerOf(m)))) ELSE Error
    BY <1>4, SimulatorDecodes
  <2> HIDE DEF a, m, F, d
  <2>2. d = F(Text(Numeral(IntegerOf(m)))) /\ a.ok
    BY <2>1, Results DEF d
  <2>3. QED BY <1>1, <1>2, <2>2 DEF d
<1>5. CASE field.codec = "boolean"
  <2>1. d = IF a.ok /\ m \in TrueTokens THEN F(Truth(TRUE))
            ELSE IF a.ok /\ m \in FalseTokens THEN F(Truth(FALSE)) ELSE Error
    BY <1>5, SimulatorDecodes
  <2> HIDE DEF a, m, F, d
  <2>2. (d = F(Truth(TRUE)) \/ d = F(Truth(FALSE))) /\ a.ok
    BY <2>1, Results DEF d
  <2>3. QED BY <1>1, <1>2, <2>2 DEF d
<1>6. QED BY <1>3, <1>4, <1>5 DEF Codecs

(* Replaying a receipt: the texts that parsePayload reports, and those of  *)
(* extractFieldDrafts, are the drafts the payload was generated from.      *)
THEOREM Replay == Spec => []ReplayRestores
<1>1. Inputs => ReplayRestores
  <2> SUFFICES ASSUME Inputs, input.kind = "drafts" PROVE ReplayRestores
    BY DEF ReplayRestores
  <2> DEFINE schema == input.schema
             C == Catalog(schema)
             drafts == input.drafts
             gap == input.gap
             g == GeneratePayload(C, drafts, gap)
             fields == ParsePayload(C, g.value).value.fields
  <2>1. schema \in Schemas /\ gap \in Gaps /\ drafts \in DraftsFor(schema)
    BY DEF Inputs, None
  <2>2. ReplayRestores <=>
          (g.ok /\ (\A f \in DOMAIN drafts : ~Drops(drafts[f])) =>
             /\ [f \in DOMAIN fields |-> fields[f].raw] = drafts
             /\ ExtractFieldDrafts(C, g.value) = Ok(drafts))
    BY Zenon DEF ReplayRestores
  <2>3. SUFFICES ASSUME g.ok, \A f \in DOMAIN drafts : ~Drops(drafts[f])
                 PROVE  /\ [f \in DOMAIN fields |-> fields[f].raw] = drafts
                        /\ ExtractFieldDrafts(C, g.value) = Ok(drafts)
    BY <2>2
  <2>4. SchemaClean(schema)
    BY <2>1, InputsAssumption
  <2> DEFINE D == DOMAIN schema.fields
             t == g.value
  <2> HIDE DEF schema, drafts, gap
  <2>5. /\ DOMAIN drafts = D /\ drafts = [f \in D |-> drafts[f]]
        /\ \A f \in D : drafts[f] \in Seq(Alphabet)
    BY <2>1, DraftsAre
  <2>6. /\ ValidForGeneration(C)
        /\ \A f \in D : DraftFits(schema.fields[f], drafts[f])
        /\ Fitting(schema, drafts)
        /\ t \in Seq(Alphabet) /\ Encode(t) = Assemble(schema, drafts, gap)
        /\ ParsePayload(C, t).ok
    <3> HIDE DEF g
    <3> QED BY <2>1, <2>3, <2>4, <2>5, GeneratedIs DEF g
  <2>7. ASSUME NEW f \in D PROVE Segment(schema, f, t) = Encode(drafts[f])
    <3> HIDE DEF t
    <3> QED BY <2>1, <2>4, <2>6, GeneratedSegment
  <2> HIDE DEF t
  <2>8. /\ LengthFits(schema, Encode(t)) /\ Sound(SimulatorFields(schema, t))
        /\ ParsePayload(C, t).value.fields = [f \in D |-> SimulatorFields(schema, t)[f].value]
    <3> DEFINE v == [fields |-> [f \in DOMAIN schema.fields |-> SimulatorFields(schema, t)[f].value],
                     readings |-> [q \in DOMAIN schema.rules |->
                                     SimulatorReadings(schema, t)[q].value]]
    <3>1. ParsePayload(C, t)
            = IF /\ LengthFits(schema, Encode(t))
                 /\ Sound(SimulatorFields(schema, t))
                 /\ Sound(SimulatorReadings(schema, t))
              THEN Ok(v) ELSE Error
      BY <2>4, ParsersAre
    <3>2. v.fields = [f \in D |-> SimulatorFields(schema, t)[f].value]
      OBVIOUS
    <3> HIDE DEF v
    <3>3. QED BY <2>6, <3>1, <3>2, Results
  <2>9. ASSUME NEW f \in D PROVE SimulatorFields(schema, t)[f].value.raw = drafts[f]
    <3> DEFINE field == schema.fields[f]
    <3>1. SimulatorFields(schema, t)[f] = DecodeField(field, Encode(t))
      BY DEF SimulatorFields
    <3>2. DecodeField(field, Encode(t)).ok
      BY <2>8, <3>1 DEF Sound, SimulatorFields
    <3>3. field.codec \in Codecs
      BY <2>4 DEF SchemaClean, FieldsClean, FieldClean, Codecs
    <3>4. SubSeq(Encode(t), field.start + 1, field.end) = Encode(drafts[f])
      BY <2>7 DEF Segment
    <3>5. drafts[f] \in Seq(Alphabet) /\ ~Drops(drafts[f])
      BY <2>3, <2>5
    <3> HIDE DEF field
    <3>6. DecodeField(field, Encode(t)).value.raw = drafts[f]
      BY <3>2, <3>3, <3>4, <3>5, RawIs
    <3>7. QED BY <3>1, <3>6
  <2>10. [f \in DOMAIN fields |-> fields[f].raw] = drafts
    <3>1. fields = [f \in D |-> SimulatorFields(schema, t)[f].value]
      BY <2>8 DEF t
    <3> HIDE DEF fields
    <3>2. QED BY <2>5, <2>9, <3>1
  <2>11. ExtractFieldDrafts(C, t) = Ok(drafts)
    <3> DEFINE texts == [f \in DOMAIN C.fields |->
                  Utf8Decoder(SubSeq(Encode(t), C.fields[f].start + 1, C.fields[f].end))]
    <3>1. C.fields = schema.fields /\ C.length = schema.length
      BY <2>4, CatalogIs
    <3>2. LengthFits(C, Encode(t))
      BY <2>8, <3>1 DEF LengthFits
    <3>3. ASSUME NEW f \in D PROVE texts[f] = Ok(drafts[f])
      <4>1. texts[f] = Utf8Decoder(Encode(drafts[f]))
        BY <2>7, <3>1 DEF Segment
      <4>2. drafts[f] \in Seq(Alphabet) /\ ~Drops(drafts[f])
        BY <2>3, <2>5
      <4>3. Encode(drafts[f]) \in Seq(Octets(Alphabet)) /\ Decode(Encode(drafts[f])) = Ok(drafts[f])
        BY <4>2, EncodeAppend, DecodeEncode
      <4>4. Decode(Encode(drafts[f])).ok /\ Decode(Encode(drafts[f])).value = drafts[f]
        BY <4>3, Results
      <4>5. Utf8Decoder(Encode(drafts[f])) = Ok(drafts[f])
        BY <4>2, <4>3, <4>4, Utf8Is
      <4>6. QED BY <4>1, <4>5
    <3>4. DOMAIN texts = D
      BY <3>1
    <3>5. ~HasUnpairedSurrogate(t)
      <4>1. SUFFICES ASSUME NEW j \in DOMAIN t, t[j] = "half" PROVE FALSE
        BY DEF HasUnpairedSurrogate
      <4>2. j \in 1..Len(t)
        BY <2>6, LenProperties
      <4>3. PICK i \in 1..Len(Encode(t)) : Encode(t)[i] = <<t[j], 1>>
        BY <2>6, <4>2, EncodeOccurs
      <4>4. \/ Encode(t)[i] = <<gap, 1>>
            \/ \E f \in D : \E k \in 1..Len(Encode(drafts[f])) : Encode(t)[i] = Encode(drafts[f])[k]
        BY <2>1, <2>4, <2>6, <4>3, AssembleIs
      <4>5. CASE Encode(t)[i] = <<gap, 1>>
        <5>1. gap = "half"
          BY <4>1, <4>3, <4>5
        <5>2. gap \in {" ", "0"}
          BY <2>1, InputsAssumption
        <5>3. QED BY <5>1, <5>2
      <4>6. ASSUME NEW f \in D, NEW k \in 1..Len(Encode(drafts[f])),
                   Encode(t)[i] = Encode(drafts[f])[k]
            PROVE  FALSE
        <5>1. drafts[f] \in Seq(Alphabet)
          BY <2>5
        <5>2. PICK l \in 1..Len(drafts[f]) : Encode(drafts[f])[k][1] = drafts[f][l]
          BY <5>1, EncodeOccurs
        <5>3. drafts[f][l] = "half" /\ l \in DOMAIN drafts[f]
          BY <4>1, <4>3, <4>6, <5>1, <5>2, LenProperties
        <5>4. HasUnpairedSurrogate(drafts[f])
          BY <5>3 DEF HasUnpairedSurrogate
        <5>5. QED BY <2>6, <5>4 DEF DraftFits
      <4>7. QED BY <4>4, <4>5, <4>6
    <3>6. ExtractFieldDrafts(C, t)
            = IF /\ ValidForGeneration(C) /\ ~HasUnpairedSurrogate(t)
                 /\ LengthFits(C, Encode(t))
                 /\ \A f \in DOMAIN texts : texts[f].ok
              THEN Ok([f \in DOMAIN texts |-> texts[f].value]) ELSE Error
      BY Zenon DEF ExtractFieldDrafts
    <3> HIDE DEF texts, C
    <3>7. \A f \in DOMAIN texts : texts[f].ok
      BY <3>3, <3>4, Results
    <3>8. [f \in DOMAIN texts |-> texts[f].value] = drafts
      BY <2>5, <3>3, <3>4, Results
    <3>9. QED BY <2>6, <3>2, <3>5, <3>6, <3>7, <3>8
  <2>12. QED BY <2>10, <2>11 DEF t
<1>2. QED BY <1>1, InputsAlways, PTL

-----------------------------------------------------------------------------
(* Drafts of the editor.                                                   *)

(* A text of one character.                                                *)
LEMMA RepeatIs ==
  ASSUME NEW A, NEW c \in A, NEW n \in Nat
  PROVE  /\ Repeat(c, n) \in Seq(A) /\ Len(Repeat(c, n)) = n
         /\ \A i \in 1..n : Repeat(c, n)[i] = c
<1> DEFINE r == Repeat(c, n)
<1>1. r = [i \in 1..n |-> c]
  BY DEF Repeat
<1> HIDE DEF r
<1>2. r \in [1..n -> A] /\ DOMAIN r = 1..n
  BY <1>1
<1>3. r \in Seq(A)
  BY <1>2, SeqDef
<1>4. Len(r) = n
  BY <1>2, <1>3, LenProperties
<1>5. QED BY <1>1, <1>3, <1>4 DEF r

(* A text that is padded to a length it fits in.                           *)
LEMMA PadIs ==
  ASSUME NEW A, NEW c \in A, NEW n \in Nat, NEW t \in Seq(A), Len(t) <= n
  PROVE  /\ PadStart(t, n, c) \in Seq(A) /\ Len(PadStart(t, n, c)) = n
         /\ \A i \in 1..n : PadStart(t, n, c)[i] = IF i <= n - Len(t) THEN c ELSE t[i - (n - Len(t))]
<1> DEFINE k == n - Len(t)
           r == Repeat(c, k)
           p == PadStart(t, n, c)
<1>1. k \in Nat /\ Len(t) \in Nat
  BY LenProperties
<1>2. r \in Seq(A) /\ Len(r) = k /\ \A i \in 1..k : r[i] = c
  <2> HIDE DEF k
  <2> QED BY <1>1, RepeatIs
<1>3. p = r \o t
  BY DEF PadStart
<1> HIDE DEF r, p
<1>4. /\ r \o t \in Seq(A) /\ Len(r \o t) = Len(r) + Len(t)
      /\ \A i \in 1..Len(r) + Len(t) : (r \o t)[i] = IF i <= Len(r) THEN r[i] ELSE t[i - Len(r)]
  BY <1>2, ConcatProperties
<1>5. ASSUME NEW i \in 1..n PROVE p[i] = IF i <= k THEN c ELSE t[i - k]
  <2>1. p[i] = IF i <= Len(r) THEN r[i] ELSE t[i - Len(r)]
    BY <1>1, <1>2, <1>3, <1>4
  <2>2. i <= k => r[i] = c
    BY <1>1, <1>2
  <2> HIDE DEF k
  <2>3. QED BY <1>2, <2>1, <2>2
<1>6. Len(p) = n /\ p \in Seq(A)
  BY <1>1, <1>2, <1>3, <1>4
<1>7. QED BY <1>5, <1>6 DEF p

(* The ends of an interval.                                                *)
LEMMA IntervalEnds ==
  ASSUME NEW n \in Nat, NEW a \in 1..n, NEW K, K = a..n
  PROVE  K # {} /\ Min(K) = a /\ Max(K) = n
<1>1. K \in SUBSET (1..n) /\ K # {} /\ a \in K /\ n \in K /\ \A i \in K : a <= i /\ i <= n
  <2>1. a \in Nat /\ 1 <= a /\ a <= n
    OBVIOUS
  <2>2. \A i : i \in K <=> i \in Int /\ a <= i /\ i <= n
    BY <2>1
  <2>3. K \in SUBSET (1..n) /\ \A i \in K : a <= i /\ i <= n
    BY <2>1, <2>2
  <2>4. a \in K /\ n \in K
    BY <2>1, <2>2
  <2>5. QED BY <2>3, <2>4
<1> DEFINE low == Min(K)
           high == Max(K)
<1>2. /\ low \in K /\ \A i \in K : low <= i
      /\ high \in K /\ \A i \in K : i <= high
  BY <1>1, Extremes
<1> HIDE DEF low, high
<1>3. low = a /\ high = n
  BY <1>1, <1>2
<1>4. QED BY <1>1, <1>3 DEF low, high

(* Stripping leaves a text without blanks as it is, and takes the padding  *)
(* of it away.                                                             *)
LEMMA StripPad ==
  ASSUME NEW A, NEW blanks, NEW c \in A, c \in blanks, NEW n \in Nat, NEW t \in Seq(A),
         Len(t) <= n, t # <<>>, \A i \in 1..Len(t) : t[i] \notin blanks
  PROVE  Strip(PadStart(t, n, c), blanks) = t
<1> DEFINE p == PadStart(t, n, c)
           k == n - Len(t)
           K == {i \in DOMAIN p : p[i] \notin blanks}
<1>1. Len(t) \in Nat /\ Len(t) > 0
  BY EmptySeq
<1>2. /\ p \in Seq(A) /\ Len(p) = n /\ DOMAIN p = 1..n
      /\ \A i \in 1..n : p[i] = IF i <= k THEN c ELSE t[i - k]
  BY PadIs, LenProperties
<1> HIDE DEF p
<1>3. K = (k + 1)..n
  <2>1. ASSUME NEW i \in 1..n, i <= k PROVE p[i] \in blanks
    BY <1>2, <2>1
  <2>2. ASSUME NEW i \in 1..n, ~(i <= k) PROVE p[i] \notin blanks
    <3>1. i - k \in 1..Len(t)
      BY <1>1, <2>2
    <3>2. p[i] = t[i - k]
      BY <1>2, <2>2
    <3>3. QED BY <3>1, <3>2
  <2>3. k \in Nat
    BY <1>1
  <2> HIDE DEF k
  <2>4. QED BY <1>2, <2>1, <2>2, <2>3
<1> HIDE DEF K
<1>4. k + 1 \in 1..n
  BY <1>1
<1>5. K # {} /\ Min(K) = k + 1 /\ Max(K) = n
  <2> HIDE DEF k
  <2> QED BY <1>3, <1>4, IntervalEnds
<1>6. Strip(p, blanks) = SubSeq(p, k + 1, n)
  <2>1. Strip(p, blanks) = IF K = {} THEN <<>> ELSE SubSeq(p, Min(K), Max(K))
    BY DEF Strip, K
  <2>2. QED BY <1>5, <2>1
<1>7. /\ SubSeq(p, k + 1, n) \in Seq(A) /\ Len(SubSeq(p, k + 1, n)) = n - k
      /\ \A j \in 1..(n - k) : SubSeq(p, k + 1, n)[j] = p[k + j]
  <2>1. k \in Nat /\ k < n /\ n <= Len(p) /\ p \in Seq(A)
    BY <1>1, <1>2
  <2> HIDE DEF k
  <2>2. QED BY <2>1, SegmentIs
<1>8. ASSUME NEW j \in 1..Len(t) PROVE SubSeq(p, k + 1, n)[j] = t[j]
  <2>1. j \in 1..(n - k) /\ k + j \in 1..n /\ ~(k + j <= k) /\ (k + j) - k = j
    BY <1>1
  <2>2. SubSeq(p, k + 1, n)[j] = p[k + j]
    BY <1>7, <2>1
  <2>3. p[k + j] = t[(k + j) - k]
    BY <1>2, <2>1
  <2>4. t[(k + j) - k] = t[j]
    BY <2>1
  <2>5. QED BY <2>2, <2>3, <2>4
<1>9. SubSeq(p, k + 1, n) = t
  <2>1. n - k = Len(t)
    BY <1>1
  <2> DEFINE s == SubSeq(p, k + 1, n)
  <2>2. s \in Seq(A) /\ Len(s) = Len(t) /\ \A j \in 1..Len(s) : s[j] = t[j]
    BY <1>7, <1>8, <2>1
  <2> HIDE DEF s
  <2>3. s = t
    BY <2>2, SeqEqual
  <2>4. QED BY <2>3 DEF s
<1>10. QED BY <1>6, <1>9 DEF p

(* The same without padding.                                               *)
LEMMA StripNothing ==
  ASSUME NEW A, NEW blanks, NEW t \in Seq(A), t # <<>>, \A i \in 1..Len(t) : t[i] \notin blanks
  PROVE  Strip(t, blanks) = t
<1> DEFINE K == {i \in DOMAIN t : t[i] \notin blanks}
<1>1. Len(t) \in Nat /\ Len(t) > 0 /\ DOMAIN t = 1..Len(t)
  BY EmptySeq, LenProperties
<1>2. K = 1..Len(t)
  BY <1>1
<1> HIDE DEF K
<1>3. 1 \in 1..Len(t)
  BY <1>1
<1>4. K # {} /\ Min(K) = 1 /\ Max(K) = Len(t)
  BY <1>1, <1>2, <1>3, IntervalEnds
<1>5. Strip(t, blanks) = IF K = {} THEN <<>> ELSE SubSeq(t, Min(K), Max(K))
  BY DEF Strip, K
<1>6. Strip(t, blanks) = SubSeq(t, 1, Len(t))
  BY <1>4, <1>5
<1>7. QED BY <1>6, SubSeqFull

(* Digits are figures and ASCII, and no blanks.                            *)
LEMMA DigitsIn ==
  /\ Digits \subseteq Figures /\ Digits \subseteq Ascii /\ "0" \in Digits
  /\ \A c \in Digits : c \notin {" ", "nbsp", "bom", "fs", "_", "+", "-"}
BY DigitsAre DEF Figures, Ascii

(* A text of digits alone is an integer.                                   *)
LEMMA DigitText ==
  ASSUME NEW t \in Seq(Digits), t # <<>>
  PROVE  /\ t \in Seq(Ascii) /\ "fs" \notin ToSet(t) /\ Trim(t) = t
         /\ IsInteger(t) /\ IntegerOf(t) = Magnitude(t)
<1>1. DOMAIN t = 1..Len(t) /\ Len(t) \in Nat /\ \A i \in 1..Len(t) : t[i] \in Digits
  BY LenProperties, ElementOfSeq
<1>2. t \in Seq(Ascii)
  BY DigitsIn, SeqMonotonic
<1>3. "fs" \notin ToSet(t)
  BY <1>1, DigitsIn DEF ToSet
<1>4. \A i \in 1..Len(t) : t[i] \notin {" ", "nbsp", "bom"}
  BY <1>1, DigitsIn
<1>5. Trim(t) = t
  BY <1>2, <1>4, StripNothing DEF Trim
<1>6. Head(t) \in Digits
  BY HeadTailProperties
<1>7. Head(t) \notin {"+", "-"}
  BY <1>6, DigitsIn
<1>8. Unsigned(t) = t
  BY <1>7, Zenon DEF Unsigned
<1>9. IsInteger(t)
  BY <1>1, <1>8 DEF IsInteger
<1>10. Head(t) # "-"
  BY <1>7
<1>11. IntegerOf(t) = Magnitude(t)
  BY <1>8, <1>10, Zenon DEF IntegerOf
<1>12. QED BY <1>2, <1>3, <1>5, <1>9, <1>11

(* Zeros weigh nothing, nor do they in front of a number.                  *)
LEMMA ZerosWeigh ==
  /\ \A z \in Seq({"0"}) : z \in Seq(Digits) /\ Magnitude(z) = 0
  /\ \A z \in Seq({"0"}), t \in Seq(Digits) : z \o t \in Seq(Digits) /\ Magnitude(z \o t) = Magnitude(t)
<1>1. ASSUME NEW z \in Seq({"0"}) PROVE z \in Seq(Digits) /\ z \in Seq(Figures)
  <2>1. {"0"} \subseteq Digits /\ {"0"} \subseteq Figures
    BY DigitsIn
  <2>2. QED BY <2>1, SeqMonotonic
<1>2. ASSUME NEW t \in Seq(Digits) PROVE t \in Seq(Figures)
  BY DigitsIn, SeqMonotonic
<1> DEFINE T == {z \in Seq({"0"}) : Magnitude(z) = 0}
<1>3. <<>> \in T
  BY EmptySeq, MagnitudeAppend
<1>4. ASSUME NEW z \in Seq({"0"}), NEW c \in {"0"}, z \in T PROVE Append(z, c) \in T
  <2>1. Append(z, c) \in Seq({"0"}) /\ c \in Figures /\ c # "_" /\ Digit(c) = 0
    BY AppendProperties, DigitsIn, DigitOfName
  <2>2. Magnitude(Append(z, c)) = 10 * Magnitude(z) + Digit(c)
    BY <1>1, <2>1, MagnitudeAppend
  <2>3. Magnitude(z) = 0
    BY <1>4
  <2>4. QED BY <2>1, <2>2, <2>3
<1>5. Seq({"0"}) \subseteq T
  <2> HIDE DEF T
  <2> QED BY <1>3, <1>4, TextInduct
<1>6. ASSUME NEW z \in Seq({"0"}), NEW t \in Seq(Digits)
      PROVE  z \o t \in Seq(Digits) /\ Magnitude(z \o t) = Magnitude(t)
  <2> DEFINE U == {u \in Seq(Digits) : Magnitude(z \o u) = Magnitude(u)}
  <2>1. z \in Seq(Digits) /\ z \in Seq(Figures) /\ Magnitude(z) = 0
    BY <1>1, <1>5
  <2>2. <<>> \in U
    <3>1. z \o <<>> = z
      BY <2>1, ConcatEmptySeq
    <3>2. QED BY <2>1, <3>1, EmptySeq, MagnitudeAppend
  <2>3. ASSUME NEW u \in Seq(Digits), NEW c \in Digits, u \in U PROVE Append(u, c) \in U
    <3>1. Append(u, c) \in Seq(Digits) /\ u \in Seq(Figures) /\ c \in Figures /\ c # "_"
          /\ z \o u \in Seq(Figures)
      BY <1>2, <2>1, AppendProperties, DigitsIn, ConcatProperties
    <3>2. z \o Append(u, c) = Append(z \o u, c)
      <4>1. <<c>> \in Seq(Digits) /\ z \o u \in Seq(Digits)
        BY <2>1, ConcatProperties
      <4>2. Append(u, c) = u \o <<c>> /\ Append(z \o u, c) = (z \o u) \o <<c>>
        BY <4>1, AppendIsConcat
      <4>3. QED BY <2>1, <4>1, <4>2, ConcatAssociative
    <3>3. Magnitude(Append(z \o u, c)) = 10 * Magnitude(z \o u) + Digit(c)
      BY <3>1, MagnitudeAppend
    <3>4. Magnitude(Append(u, c)) = 10 * Magnitude(u) + Digit(c)
      BY <3>1, MagnitudeAppend
    <3>5. Magnitude(z \o u) = Magnitude(u)
      BY <2>3
    <3>6. QED BY <3>1, <3>2, <3>3, <3>4, <3>5
  <2>4. Seq(Digits) \subseteq U
    <3> HIDE DEF U
    <3> QED BY <2>2, <2>3, TextInduct
  <2>5. QED BY <2>1, <2>4, ConcatProperties
<1>7. QED BY <1>1, <1>5, <1>6

(* A number a clean rule can be projected from.                            *)
Projectable(rule, n) ==
  IF rule.type = "datetime" THEN InCalendar(Instant(n, rule.unit))
  ELSE n \in (-MaxBigint - 1)..MaxBigint

(* A draft of ASCII characters that fills its field with a value all rules *)
(* that read it can be projected from.                                     *)
Proper(schema, f, t) ==
  LET field == schema.fields[f]
  IN /\ t \in Seq(Ascii) /\ "fs" \notin ToSet(t) /\ Len(t) = Width(field)
     /\ field.codec = "boolean" => Trim(t) \in TrueTokens \cup FalseTokens
     /\ field.codec = "integer" =>
          /\ IsInteger(Trim(t))
          /\ \A q \in DOMAIN schema.rules :
               schema.rules[q].source = f => Projectable(schema.rules[q], IntegerOf(Trim(t)))

(* The editor accepts such a draft, and the server reads it.               *)
LEMMA ProperDraft ==
  ASSUME NEW schema, SchemaClean(schema), NEW f \in DOMAIN schema.fields, NEW t,
         Proper(schema, f, t)
  PROVE  LET field == schema.fields[f]
             p == PythonDecode(field, Encode(t))
         IN /\ DraftFits(field, t) /\ Len(Encode(t)) = Len(t)
            /\ \A i \in 1..Len(t) : Encode(t)[i] = <<t[i], 1>>
            /\ p.ok
            /\ \A q \in DOMAIN schema.rules :
                 schema.rules[q].source = f => CoerceParameterValue(schema.rules[q], p.value).ok
<1> DEFINE field == schema.fields[f]
           s == Encode(t)
           a == AsciiDecoder(s)
           m == Trim(t)
           p == PythonDecode(field, s)
           e == DecodeDraftValue(field, t)
           Reading == \A q \in DOMAIN schema.rules :
                        schema.rules[q].source = f => CoerceParameterValue(schema.rules[q], p.value).ok
<1>1. /\ t \in Seq(Ascii) /\ "fs" \notin ToSet(t) /\ Len(t) = Width(field)
      /\ field.codec = "boolean" => m \in TrueTokens \cup FalseTokens
      /\ field.codec = "integer" =>
           /\ IsInteger(m)
           /\ \A q \in DOMAIN schema.rules :
                schema.rules[q].source = f => Projectable(schema.rules[q], IntegerOf(m))
  BY DEF Proper
<1>2. t \in Seq(Alphabet)
  BY <1>1, InputsAssumption, SeqMonotonic
<1>3. a = Ok(t) /\ Len(s) = Len(t) /\ \A i \in 1..Len(t) : s[i] = <<t[i], 1>>
  BY <1>1, <1>2, AsciiEncode
<1>4. a.ok /\ a.value = t /\ PythonStrip(a.value) = m
  <2>1. PythonStrip(t) = m
    BY <1>1, SameToken
  <2>2. QED BY <1>3, <2>1, Results
<1>5. Decode(s) = Ok(t)
  BY <1>2, DecodeEncode
<1>6. ~HasUnpairedSurrogate(t)
  <2>1. "half" \notin Ascii
    BY DigitsAre DEF Ascii
  <2>2. \A i \in DOMAIN t : t[i] \in Ascii
    BY <1>1, LenProperties, ElementOfSeq
  <2>3. QED BY <2>1, <2>2 DEF HasUnpairedSurrogate
<1>7. ASSUME NEW q \in DOMAIN schema.rules, schema.rules[q].source = f
      PROVE  LET rule == schema.rules[q]
             IN /\ RuleClean(schema, rule)
                /\ \/ field.codec = "integer" /\ rule.type \in Numeric
                   \/ field.codec = "boolean" /\ rule.type = "boolean"
                   \/ field.codec = "utf8" /\ rule.type = "string"
  <2>1. RuleClean(schema, schema.rules[q]) /\ FieldsClean(schema) /\ Null \notin DOMAIN schema.fields
    BY DEF SchemaClean, FieldsClean
  <2>2. schema.rules[q].source # Null
    BY <1>7, <2>1
  <2>3. QED BY <1>7, <2>1, <2>2, FieldRule
<1>8. field.codec \in Codecs
  BY DEF SchemaClean, FieldsClean, FieldClean, Codecs
<1> HIDE DEF s, a, m
<1>9. e.ok /\ p.ok /\ Reading
  <2>1. CASE field.codec = "utf8"
    <3>1. e = Ok(Text(t))
      BY <2>1, Zenon DEF DecodeDraftValue
    <3>2. p = IF Decode(s).ok THEN Ok(Text(Decode(s).value)) ELSE Error
      BY <2>1, ServerDecodes
    <3> HIDE DEF e, p, field
    <3>3. p = Ok(Text(t))
      BY <1>5, <3>2, Results
    <3>4. p.ok /\ p.value = Text(t)
      BY <3>3, Results
    <3>5. ASSUME NEW q \in DOMAIN schema.rules, schema.rules[q].source = f
          PROVE  CoerceParameterValue(schema.rules[q], p.value).ok
      <4>1. RuleClean(schema, schema.rules[q]) /\ schema.rules[q].type = "string"
        BY <1>7, <2>1, <3>5
      <4>2. CoerceParameterValue(schema.rules[q], p.value)
              = IF p.value.kind = "text" THEN Ok(p.value.text) ELSE Error
        BY <4>1, CoerceIs
      <4>3. QED BY <3>4, <4>2, Values, Results
    <3>6. QED BY <3>1, <3>4, <3>5, Results
  <2>2. CASE field.codec = "boolean"
    <3>1. e.ok
      <4>1. ~(m \in TrueTokens /\ m \in FalseTokens) /\ (m \in TrueTokens \/ m \in FalseTokens)
        BY <1>1, <2>2, TokensApart
      <4>2. e = Ok(Truth(TRUE)) \/ e = Ok(Truth(FALSE))
        BY <2>2, <4>1, Zenon DEF DecodeDraftValue, m
      <4>3. QED BY <4>2, Results
    <3>2. p = IF a.ok /\ m \in TrueTokens THEN Ok(Truth(TRUE))
              ELSE IF a.ok /\ m \in FalseTokens THEN Ok(Truth(FALSE)) ELSE Error
      BY <1>4, <2>2, ServerDecodes DEF a
    <3> HIDE DEF e, p
    <3>3. PICK b \in BOOLEAN : p = Ok(Truth(b))
      BY <1>1, <1>4, <2>2, <3>2
    <3> HIDE DEF field
    <3>4. p.ok /\ p.value = Truth(b)
      BY <3>3, Results
    <3>5. ASSUME NEW q \in DOMAIN schema.rules, schema.rules[q].source = f
          PROVE  CoerceParameterValue(schema.rules[q], p.value).ok
      <4>1. RuleClean(schema, schema.rules[q]) /\ schema.rules[q].type = "boolean"
        BY <1>7, <2>2, <3>5
      <4>2. CoerceParameterValue(schema.rules[q], p.value)
              = IF p.value.kind = "truth" THEN Ok(p.value.truth) ELSE Error
        BY <4>1, CoerceIs
      <4>3. QED BY <3>4, <4>2, Values, Results
    <3>6. QED BY <3>1, <3>4, <3>5
  <2>3. CASE field.codec = "integer"
    <3>1. IsInteger(m)
      BY <1>1, <2>3
    <3>2. e = Ok(Text(Numeral(IntegerOf(m))))
      BY <2>3, <3>1, Zenon DEF DecodeDraftValue, m
    <3>3. p = IF a.ok /\ IsInteger(m) THEN Ok(Number(IntegerOf(m))) ELSE Error
      BY <1>4, <2>3, ServerDecodes DEF a
    <3> HIDE DEF e, p
    <3>4. p.ok /\ p.value = Number(IntegerOf(m))
      BY <1>4, <3>1, <3>3, Results
    <3>5. IntegerOf(m) \in Int
      <4>1. m \in Seq(Ascii)
        BY <1>1, StripIs DEF m, Trim
      <4>2. QED BY <3>1, <4>1, TokenClean
    <3>6. ASSUME NEW q \in DOMAIN schema.rules, schema.rules[q].source = f
          PROVE  CoerceParameterValue(schema.rules[q], p.value).ok
      <4> DEFINE rule == schema.rules[q]
                 n == IntegerOf(m)
                 w == Number(n)
      <4>1. RuleClean(schema, rule) /\ rule.type \in Numeric /\ Projectable(rule, n)
        BY <1>1, <1>7, <2>3, <3>6
      <4> HIDE DEF rule, n
      <4>2. CASE rule.type = "datetime"
        <5>1. CoerceParameterValue(rule, w) = TimestampToDatetime(w, rule.unit)
          BY <4>1, <4>2, CoerceIs
        <5>2. TimestampToDatetime(w, rule.unit)
                = IF InCalendar(Instant(n, rule.unit)) THEN Ok(Stored(n, rule.unit)) ELSE Error
          BY <3>5, DatetimesAgree DEF n
        <5>3. InCalendar(Instant(n, rule.unit))
          BY <4>1, <4>2 DEF Projectable
        <5> HIDE DEF w
        <5>4. CoerceParameterValue(rule, w).ok
          BY <5>1, <5>2, <5>3, Results
        <5>5. QED BY <3>4, <5>4 DEF w, n, rule
      <4>3. CASE rule.type = "integer"
        <5>1. CoerceParameterValue(rule, w)
                = IF w.kind = "number" /\ w.number \in (-MaxBigint - 1)..MaxBigint
                  THEN Ok(w.number) ELSE Error
          BY <4>1, <4>3, CoerceIs
        <5>2. w.kind = "number" /\ w.number = n
          BY Values
        <5>3. n \in (-MaxBigint - 1)..MaxBigint
          BY <4>1, <4>3 DEF Projectable
        <5> HIDE DEF w
        <5>4. CoerceParameterValue(rule, w).ok
          BY <5>1, <5>2, <5>3, Results
        <5>5. QED BY <3>4, <5>4 DEF w, n, rule
      <4>4. QED BY <4>1, <4>2, <4>3 DEF Numeric
    <3>7. e.ok
      BY <3>2, Results
    <3>8. QED BY <3>4, <3>6, <3>7
  <2>4. QED BY <1>8, <2>1, <2>2, <2>3 DEF Codecs
<1>10. DraftFits(field, t)
  BY <1>1, <1>3, <1>6, <1>9 DEF DraftFits, s
<1> HIDE DEF p, field
<1>11. QED BY <1>3, <1>9, <1>10 DEF p, s, field

(* The constants of a schema that can be projected.                        *)
ConstantsRead(schema) ==
  \A q \in DOMAIN schema.rules :
    schema.rules[q].source = Null =>
      CoerceParameterValue(schema.rules[q], schema.rules[q].constant).ok

(* full_clean lets in what can be generated, if it is not too long.        *)
LEMMA CleanIsValid ==
  ASSUME NEW schema, SchemaClean(schema), GeneratedLength(schema) <= MaxPayload
  PROVE  ValidForGeneration(Catalog(schema))
<1> DEFINE fields == schema.fields
           D == DOMAIN schema.fields
           S == {f \in D : fields[f].role = "timestamp"}
<1>1. /\ IsFiniteSet(D)
      /\ \A f \in D : /\ fields[f].start \in Nat /\ fields[f].start < fields[f].end
                      /\ fields[f].role = "timestamp" => fields[f].codec = "integer"
      /\ \A f, g \in D : f # g =>
           /\ fields[f].end <= fields[g].start \/ fields[g].end <= fields[f].start
           /\ ~(fields[f].role = "timestamp" /\ fields[g].role = "timestamp")
      /\ schema.length # Null => schema.length \in Nat \ {0}
  BY DEF SchemaClean, FieldsClean, FieldClean
<1>2. schema.length # Null => schema.length > 0 /\ FurthestEnd(schema) <= schema.length
  BY <1>1, LengthIs
<1>3. Cardinality(S) <= 1
  <2>1. CASE S = {}
    <3>1. Cardinality(S) = 0
      BY <2>1, FS_EmptySet
    <3>2. QED BY <3>1
  <2>2. CASE S # {}
    <3>1. PICK f : f \in S
      BY <2>2
    <3>2. S = {f}
      BY <1>1, <3>1
    <3>3. Cardinality(S) = 1
      BY <3>2, FS_Singleton
    <3>4. QED BY <3>3
  <2>3. QED BY <2>1, <2>2
<1>4. \A f \in D : 0 <= fields[f].start
  BY <1>1
<1>5. ValidForGeneration(schema)
  BY <1>1, <1>2, <1>3, <1>4, Zenon DEF ValidForGeneration
<1>6. QED BY <1>5, CatalogGenerates

(* A text with these ASCII characters has these bytes.                     *)
LEMMA AsciiBytes ==
  ASSUME NEW b \in Seq(Octets(Alphabet)), NEW F, F \subseteq Ascii,
         \A i \in 1..Len(b) : \E c \in F : b[i] = <<c, 1>>
  PROVE  \E t \in Seq(F) : Encode(t) = b
<1> DEFINE t == [i \in 1..Len(b) |-> b[i][1]]
<1>1. Len(b) \in Nat
  BY LenProperties
<1>2. \A i \in 1..Len(b) : b[i][1] \in F /\ b[i] = <<b[i][1], 1>>
  OBVIOUS
<1>3. t \in [1..Len(b) -> F] /\ DOMAIN t = 1..Len(b) /\ \A i \in 1..Len(b) : b[i] = <<t[i], 1>>
  BY <1>2
<1> HIDE DEF t
<1>4. t \in Seq(F)
  BY <1>1, <1>3, SeqDef
<1>5. Len(t) = Len(b)
  BY <1>1, <1>3, <1>4, LenProperties
<1>6. t \in Seq(Alphabet) /\ t \in Seq(Ascii)
  <2>1. F \subseteq Alphabet
    BY InputsAssumption
  <2>2. QED BY <1>4, <2>1, SeqMonotonic
<1>7. Len(Encode(t)) = Len(t) /\ \A i \in 1..Len(t) : Encode(t)[i] = <<t[i], 1>>
  <2> DEFINE s == Encode(t)
  <2>1. s = Encode(t)
    OBVIOUS
  <2> HIDE DEF s
  <2>2. Len(s) = Len(t) /\ \A i \in 1..Len(t) : s[i] = <<t[i], 1>>
    BY <1>6, <2>1, AsciiEncode
  <2>3. QED BY <2>1, <2>2
<1>8. Encode(t) \in Seq(Octets(Alphabet))
  BY <1>6, EncodeAppend
<1> DEFINE s == Encode(t)
<1>9. s \in Seq(Octets(Alphabet)) /\ Len(s) = Len(b) /\ \A i \in 1..Len(s) : s[i] = b[i]
  BY <1>3, <1>5, <1>7, <1>8
<1> HIDE DEF s
<1>10. s = b
  BY <1>9, SeqEqual
<1>11. QED BY <1>4, <1>10 DEF s

(* Such drafts generate a payload, if the constants can be projected.      *)
LEMMA ProperGenerates ==
  ASSUME NEW schema, SchemaClean(schema), GeneratedLength(schema) <= MaxPayload,
         ConstantsRead(schema), NEW gap \in Gaps,
         NEW drafts, DOMAIN drafts = DOMAIN schema.fields,
         \A f \in DOMAIN schema.fields : Proper(schema, f, drafts[f])
  PROVE  GeneratePayload(Catalog(schema), drafts, gap).ok
<1> DEFINE C == Catalog(schema)
           D == DOMAIN schema.fields
           b == Assemble(schema, drafts, gap)
           F == Ascii \ {"fs"}
<1>1. ASSUME NEW f \in D
      PROVE  LET p == PythonDecode(schema.fields[f], Encode(drafts[f]))
             IN /\ DraftFits(schema.fields[f], drafts[f])
                /\ drafts[f] \in Seq(Ascii) /\ "fs" \notin ToSet(drafts[f])
                /\ drafts[f] \in Seq(Alphabet)
                /\ Len(Encode(drafts[f])) = Len(drafts[f])
                /\ Len(drafts[f]) = Width(schema.fields[f])
                /\ \A i \in 1..Len(drafts[f]) : Encode(drafts[f])[i] = <<drafts[f][i], 1>>
                /\ p.ok
                /\ \A q \in DOMAIN schema.rules :
                     schema.rules[q].source = f => CoerceParameterValue(schema.rules[q], p.value).ok
  <2> DEFINE t == drafts[f]
  <2>1. Proper(schema, f, t)
    OBVIOUS
  <2> HIDE DEF t
  <2>2. t \in Seq(Ascii) /\ "fs" \notin ToSet(t) /\ Len(t) = Width(schema.fields[f])
    BY <2>1 DEF Proper
  <2>3. t \in Seq(Alphabet)
    BY <2>2, InputsAssumption, SeqMonotonic
  <2>4. LET p == PythonDecode(schema.fields[f], Encode(t))
        IN /\ DraftFits(schema.fields[f], t) /\ Len(Encode(t)) = Len(t)
           /\ \A i \in 1..Len(t) : Encode(t)[i] = <<t[i], 1>>
           /\ p.ok
           /\ \A q \in DOMAIN schema.rules :
                schema.rules[q].source = f => CoerceParameterValue(schema.rules[q], p.value).ok
    BY <2>1, ProperDraft
  <2>5. QED BY <2>2, <2>3, <2>4 DEF t
<1>2. Fitting(schema, drafts)
  BY <1>1 DEF Fitting
<1>3. /\ b \in Seq(Octets(Alphabet)) /\ Len(b) = GeneratedLength(schema)
      /\ \A i \in 1..Len(b) :
           \/ b[i] = <<gap, 1>>
           \/ \E f \in D : \E k \in 1..Len(Encode(drafts[f])) : b[i] = Encode(drafts[f])[k]
  BY <1>2, AssembleIs
<1> HIDE DEF b
<1>4. ASSUME NEW i \in 1..Len(b) PROVE \E c \in F : b[i] = <<c, 1>>
  <2>1. CASE b[i] = <<gap, 1>>
    <3>1. gap \in {" ", "0"}
      BY InputsAssumption
    <3>2. gap \in F
      BY <3>1, DigitsIn DEF Ascii
    <3>3. QED BY <2>1, <3>2
  <2>2. ASSUME NEW f \in D, NEW k \in 1..Len(Encode(drafts[f])), b[i] = Encode(drafts[f])[k]
        PROVE  \E c \in F : b[i] = <<c, 1>>
    <3> DEFINE t == drafts[f]
    <3>1. /\ t \in Seq(Ascii) /\ "fs" \notin ToSet(t) /\ k \in 1..Len(t)
          /\ Encode(t)[k] = <<t[k], 1>> /\ b[i] = Encode(t)[k]
      BY <1>1, <2>2
    <3> HIDE DEF t
    <3>2. t[k] \in Ascii /\ k \in DOMAIN t
      BY <3>1, ElementOfSeq, LenProperties
    <3>3. t[k] \in F
      BY <3>1, <3>2 DEF ToSet
    <3> HIDE DEF F
    <3>4. QED BY <3>1, <3>3
  <2>3. QED BY <1>3, <2>1, <2>2
<1>5. PICK t \in Seq(F) : Encode(t) = b
  <2>1. F \subseteq Ascii
    OBVIOUS
  <2> HIDE DEF F
  <2>2. QED BY <1>3, <1>4, <2>1, AsciiBytes
<1>6. t \in Seq(Ascii) /\ t \in Seq(Alphabet) /\ "fs" \notin ToSet(t) /\ ~Drops(t)
  <2>1. F \subseteq Ascii /\ F \subseteq Alphabet
    BY InputsAssumption
  <2>2. t \in Seq(Ascii) /\ t \in Seq(Alphabet)
    BY <2>1, SeqMonotonic
  <2>3. \A i \in DOMAIN t : t[i] \in F
    BY LenProperties, ElementOfSeq
  <2>4. "fs" \notin ToSet(t)
    BY <2>3 DEF ToSet
  <2>5. ~Drops(t)
    <3>1. t # <<>> => Head(t) \in Ascii
      BY <2>2, HeadTailProperties
    <3>2. "bom" \notin Ascii
      BY DigitsAre DEF Ascii
    <3>3. QED BY <3>1, <3>2 DEF Drops
  <2>6. QED BY <2>2, <2>4, <2>5
<1>7. Utf8Decoder(b) = Ok(t)
  <2>1. Decode(b) = Ok(t)
    BY <1>5, <1>6, DecodeEncode
  <2>2. Decode(b).ok /\ Decode(b).value = t
    BY <2>1, Results
  <2>3. Utf8Decoder(b) = Ok(IF Drops(Decode(b).value) THEN Tail(Decode(b).value)
                            ELSE Decode(b).value)
    BY <1>3, <2>2, Utf8Is
  <2>4. QED BY <1>6, <2>2, <2>3
<1>8. LengthFits(schema, Encode(t))
  <2>1. Len(Encode(t)) = GeneratedLength(schema)
    BY <1>3, <1>5
  <2>2. \A f \in D : schema.fields[f].end <= GeneratedLength(schema)
    BY LengthIs
  <2>3. schema.length # Null => GeneratedLength(schema) = schema.length
    BY DEF GeneratedLength
  <2>4. QED BY <2>1, <2>2, <2>3 DEF LengthFits
<1>9. ASSUME NEW f \in D
      PROVE  ServerValues(schema, t)[f] = PythonDecode(schema.fields[f], Encode(drafts[f]))
  <2>1. Segment(schema, f, t) = Encode(drafts[f])
    BY <1>2, <1>5, GeneratedSegment DEF b
  <2>2. QED BY <2>1 DEF ServerValues
<1>10. Sound(ServerValues(schema, t))
  <2>1. DOMAIN ServerValues(schema, t) = D
    BY DEF ServerValues
  <2>2. QED BY <1>1, <1>9, <2>1 DEF Sound
<1>11. Sound(ServerReadings(schema, t))
  <2>1. DOMAIN ServerReadings(schema, t) = DOMAIN schema.rules
    BY DEF ServerReadings
  <2>2. ASSUME NEW q \in DOMAIN schema.rules PROVE ServerReadings(schema, t)[q].ok
    <3> DEFINE rule == schema.rules[q]
               w == IF rule.source = Null THEN rule.constant
                    ELSE ServerValues(schema, t)[rule.source].value
    <3>1. RuleClean(schema, rule) /\ FieldsClean(schema)
      BY DEF SchemaClean
    <3>2. ServerReadings(schema, t)[q] = PythonProject(schema, rule, ServerValues(schema, t))
      BY DEF ServerReadings
    <3>3. PythonProject(schema, rule, ServerValues(schema, t)) = CoerceParameterValue(rule, w)
      BY <3>1, ProjectIs
    <3>4. CoerceParameterValue(rule, w).ok
      <4>1. CASE rule.source = Null
        BY <4>1 DEF ConstantsRead
      <4>2. CASE rule.source # Null
        <5>1. rule.source \in D
          BY <3>1, <4>2 DEF RuleClean
        <5>2. w = PythonDecode(schema.fields[rule.source], Encode(drafts[rule.source])).value
          BY <1>9, <4>2, <5>1
        <5> HIDE DEF w
        <5>3. QED BY <1>1, <5>1, <5>2
      <4>3. QED BY <4>1, <4>2
    <3>5. QED BY <3>2, <3>3, <3>4
  <2>3. QED BY <2>1, <2>2 DEF Sound
<1>12. PythonParse(schema, t).ok
  <2>1. PythonParse(schema, t)
          = Ok([q \in DOMAIN schema.rules |-> ServerReadings(schema, t)[q].value])
    BY <1>8, <1>10, <1>11, ParsersAre
  <2>2. QED BY <2>1, Results
<1>13. ParsePayload(C, t).ok
  BY <1>6, <1>12, PayloadsAgree
<1>14. ValidForGeneration(C)
  BY CleanIsValid
<1>15. \A f \in DOMAIN C.fields : f \in DOMAIN drafts /\ DraftFits(C.fields[f], drafts[f])
  <2>1. C.fields = schema.fields
    BY CatalogIs
  <2>2. QED BY <1>1, <2>1
<1>16. Assemble(C, drafts, gap) = b
  <2>1. \A d, x : Assemble(C, d, x) = Assemble(schema, d, x)
    BY CatalogGenerates
  <2>2. QED BY <2>1, Zenon DEF b
<1> HIDE DEF C
<1>17. Ok(t).ok /\ Ok(t).value = t
  BY Results
<1>18. GeneratePayload(C, drafts, gap) = Ok(t)
  BY <1>7, <1>13, <1>14, <1>15, <1>16, <1>17, Zenon DEF GeneratePayload
<1>19. QED BY <1>17, <1>18 DEF C

(* A field is at least one byte wide.                                      *)
LEMMA WidthIs ==
  ASSUME NEW schema, SchemaClean(schema), NEW f \in DOMAIN schema.fields
  PROVE  Width(schema.fields[f]) \in Nat \ {0}
BY DEF SchemaClean, FieldsClean, FieldClean, Width

(* Zero is in the calendar and fits everywhere.                            *)
LEMMA ZeroProjects == ASSUME NEW rule PROVE Projectable(rule, 0)
<1>1. /\ MaxSecond \in Nat /\ MaxBigint \in Nat /\ PerSecond \in Nat /\ PerSecond >= 1
      /\ MinSecond \in Int /\ MinSecond <= 0
  BY LimitsAssumption
<1>2. MinSecond * PerSecond <= 0 /\ 0 < (MaxSecond + 1) * PerSecond
  BY <1>1
<1>3. Instant(0, rule.unit) = 0
  BY <1>1 DEF Instant
<1>4. InCalendar(0)
  BY <1>2 DEF InCalendar
<1>5. QED BY <1>1, <1>3, <1>4 DEF Projectable

(* A time is in the calendar as it is and rounded down to seconds, read in *)
(* either unit.                                                            *)
LEMMA TimeProjects ==
  ASSUME NEW now \in Nat, InCalendar(now)
  PROVE  /\ now \div PerSecond \in Nat
         /\ InCalendar(now \div PerSecond) /\ InCalendar((now \div PerSecond) * PerSecond)
<1>1. /\ MaxSecond \in Nat /\ PerSecond \in Nat /\ PerSecond >= 1
      /\ MinSecond \in Int /\ MinSecond <= 0
  BY LimitsAssumption
<1> DEFINE n == now \div PerSecond
           low == MinSecond * PerSecond
           high == (MaxSecond + 1) * PerSecond
           k == n * PerSecond
<1>2. n \in Nat /\ k \in Nat /\ k <= now
  <2>1. n \in Int /\ now = PerSecond * n + (now % PerSecond)
        /\ now % PerSecond \in Int /\ 0 <= now % PerSecond /\ now % PerSecond < PerSecond
    BY <1>1
  <2>2. n >= 0
    <3>1. n < 0 => PerSecond * n <= -PerSecond
      BY <1>1, <2>1
    <3> HIDE DEF n
    <3>2. QED BY <1>1, <2>1, <3>1
  <2> HIDE DEF n
  <2>3. QED BY <1>1, <2>1, <2>2
<1>3. n <= k
  <2> HIDE DEF n
  <2>1. n * (PerSecond - 1) >= 0 /\ n * (PerSecond - 1) = n * PerSecond - n
    BY <1>1, <1>2
  <2>2. QED BY <1>1, <1>2, <2>1
<1>4. low <= 0 /\ low \in Int /\ high \in Int
  BY <1>1
<1>5. now < high
  BY DEF InCalendar
<1> HIDE DEF n, low, high, k
<1>6. n \in Nat /\ (low <= n /\ n < high) /\ (low <= k /\ k < high)
  BY <1>2, <1>3, <1>4, <1>5
<1>7. QED BY <1>6 DEF n, low, high, k, InCalendar

Letters == {"0", "1", "t", "r", "u", "e", "f", "a", "l", "s"}

(* The tokens of truth values are words without blanks.                    *)
LEMMA TokensAre ==
  ASSUME NEW t \in TrueTokens \cup FalseTokens
  PROVE  t \in Seq(Letters) /\ t # <<>>
<1>1. <<"1">> \in Seq(Letters) /\ <<"0">> \in Seq(Letters) /\ <<"1">> # <<>> /\ <<"0">> # <<>>
  BY DEF Letters
<1>2. <<"t", "r", "u", "e">> \in Seq(Letters) /\ <<"t", "r", "u", "e">> # <<>>
  BY DEF Letters
<1>3. <<"f", "a", "l", "s", "e">> \in Seq(Letters) /\ <<"f", "a", "l", "s", "e">> # <<>>
  BY DEF Letters
<1>4. QED BY <1>1, <1>2, <1>3, Zenon DEF TrueTokens, FalseTokens

(* A word filled up with spaces on its left, read without them.            *)
LEMMA PaddedWord ==
  ASSUME NEW W \in Nat, NEW word \in Seq(Letters), word # <<>>, Len(word) <= W
  PROVE  /\ PadStart(word, W, " ") \in Seq(Ascii) /\ Len(PadStart(word, W, " ")) = W
         /\ "fs" \notin ToSet(PadStart(word, W, " ")) /\ Trim(PadStart(word, W, " ")) = word
<1> DEFINE A == Letters \cup {" "}
           blanks == {" ", "nbsp", "bom"}
           d == PadStart(word, W, " ")
<1>1. Letters \subseteq A /\ " " \in A /\ A \subseteq Ascii /\ "fs" \notin A
      /\ (\A c \in Letters : c \notin blanks) /\ " " \in blanks
  BY DigitsAre DEF Letters, Ascii
<1> HIDE DEF A, blanks
<1>2. word \in Seq(A)
  BY <1>1, SeqMonotonic
<1>3. \A i \in 1..Len(word) : word[i] \notin blanks
  <2>1. \A i \in 1..Len(word) : word[i] \in Letters
    BY ElementOfSeq
  <2>2. QED BY <1>1, <2>1
<1>4. d \in Seq(A) /\ Len(d) = W
  <2>1. " " \in A
    BY <1>1
  <2> DEFINE blank == " "
  <2>2. blank \in A
    BY <2>1
  <2> HIDE DEF blank
  <2>3. PadStart(word, W, blank) \in Seq(A) /\ Len(PadStart(word, W, blank)) = W
    BY <1>2, <2>2, PadIs
  <2>4. QED BY <2>3 DEF blank
<1>5. Trim(d) = word
  <2>1. Strip(d, blanks) = word
    BY <1>1, <1>2, <1>3, StripPad
  <2>2. QED BY <2>1 DEF Trim, blanks
<1> HIDE DEF d
<1>6. d \in Seq(Ascii)
  BY <1>1, <1>4, SeqMonotonic
<1>7. DOMAIN d = 1..Len(d)
  BY <1>4, LenProperties
<1>8. \A i \in DOMAIN d : d[i] \in A
  BY <1>4, <1>7, ElementOfSeq
<1>9. "fs" \notin ToSet(d)
  BY <1>1, <1>8 DEF ToSet
<1>10. QED BY <1>4, <1>5, <1>6, <1>9 DEF d

(* The draft a field starts with.                                          *)
LEMMA DefaultProper ==
  ASSUME NEW schema, SchemaClean(schema), NEW f \in DOMAIN schema.fields
  PROVE  Proper(schema, f, DefaultDraft(schema.fields[f]))
<1> DEFINE field == schema.fields[f]
           W == Width(field)
           t == DefaultDraft(field)
<1>1. W \in Nat \ {0} /\ field.codec \in Codecs
  <2>1. field.codec \in Codecs
    BY DEF SchemaClean, FieldsClean, FieldClean, Codecs
  <2>2. QED BY <2>1, WidthIs
<1>2. CASE field.codec = "utf8"
  <2>1. t = Repeat(" ", W)
    BY <1>2, Zenon DEF DefaultDraft
  <2> HIDE DEF t, W
  <2>2. t \in Seq({" "}) /\ Len(t) = W
    BY <1>1, <2>1, RepeatIs
  <2>3. {" "} \subseteq Ascii
    BY DEF Ascii
  <2>4. t \in Seq(Ascii)
    BY <2>2, <2>3, SeqMonotonic
  <2>5. \A i \in DOMAIN t : t[i] = " "
    <3>1. DOMAIN t = 1..Len(t)
      BY <2>2, LenProperties
    <3>2. \A i \in 1..Len(t) : t[i] \in {" "}
      BY <2>2, ElementOfSeq
    <3>3. QED BY <3>1, <3>2
  <2>6. "fs" \notin ToSet(t)
    BY <2>5 DEF ToSet
  <2>7. QED BY <1>2, <2>2, <2>4, <2>6 DEF Proper, t, W
<1>3. CASE field.codec = "integer"
  <2>1. t = Repeat("0", W)
    BY <1>3, Zenon DEF DefaultDraft
  <2> HIDE DEF t, W
  <2>2. t \in Seq({"0"}) /\ Len(t) = W
    BY <1>1, <2>1, RepeatIs
  <2>3. t \in Seq(Digits) /\ Magnitude(t) = 0
    BY <2>2, ZerosWeigh
  <2>4. t # <<>>
    BY <1>1, <2>2, EmptySeq
  <2>5. t \in Seq(Ascii) /\ "fs" \notin ToSet(t) /\ Trim(t) = t /\ IsInteger(t)
        /\ IntegerOf(t) = 0
    BY <2>3, <2>4, DigitText
  <2>6. \A q \in DOMAIN schema.rules : Projectable(schema.rules[q], 0)
    BY ZeroProjects
  <2>7. QED BY <1>3, <2>2, <2>5, <2>6 DEF Proper, t, W
<1>4. CASE field.codec = "boolean"
  <2> DEFINE word == <<"0">>
  <2>1. t = PadStart(word, W, " ")
    BY <1>4, Zenon DEF DefaultDraft
  <2>2. word \in FalseTokens
    BY DEF FalseTokens
  <2>3. Len(word) = 1
    OBVIOUS
  <2> HIDE DEF t, W, word
  <2>4. word \in Seq(Letters) /\ word # <<>>
    BY <2>2, TokensAre
  <2>5. W \in Nat /\ Len(word) <= W
    BY <1>1, <2>3
  <2>6. /\ t \in Seq(Ascii) /\ Len(t) = W /\ "fs" \notin ToSet(t) /\ Trim(t) = word
    BY <2>1, <2>4, <2>5, PaddedWord
  <2>7. QED BY <1>4, <2>2, <2>6 DEF Proper, t, W
<1>5. QED BY <1>1, <1>2, <1>3, <1>4 DEF Codecs

(* The options of a truth value.                                           *)
LEMMA OptionsProper ==
  ASSUME NEW schema, SchemaClean(schema), NEW f \in DOMAIN schema.fields,
         schema.fields[f].codec = "boolean", NEW d \in BooleanOptions(schema.fields[f])
  PROVE  Proper(schema, f, d)
<1> DEFINE field == schema.fields[f]
           W == Width(field)
<1>1. W \in Nat
  BY WidthIs
<1>2. PICK word \in TrueTokens \cup FalseTokens : Len(word) <= W /\ d = PadStart(word, W, " ")
  BY DEF BooleanOptions
<1>3. word \in Seq(Letters) /\ word # <<>>
  BY <1>2, TokensAre
<1> HIDE DEF W
<1>4. /\ d \in Seq(Ascii) /\ Len(d) = W /\ "fs" \notin ToSet(d) /\ Trim(d) = word
  BY <1>1, <1>2, <1>3, PaddedWord
<1>5. QED BY <1>2, <1>4 DEF Proper, W

(* A number filled up with zeros on its left is still that number.         *)
LEMMA PaddedNumeral ==
  ASSUME NEW W \in Nat \ {0}, NEW n \in Nat, Len(PadStart(Numeral(n), W, "0")) = W
  PROVE  LET d == PadStart(Numeral(n), W, "0")
         IN /\ d \in Seq(Ascii) /\ "fs" \notin ToSet(d)
            /\ IsInteger(Trim(d)) /\ IntegerOf(Trim(d)) = n
<1> DEFINE raw == Numeral(n)
           k == W - Len(raw)
           z == Repeat("0", k)
           d == PadStart(raw, W, "0")
<1>1. n \in Int /\ n >= 0
  OBVIOUS
<1>2. raw \in Seq(Digits) /\ Magnitude(raw) = n
  BY <1>1, NumeralRoundTrip
<1> HIDE DEF raw
<1>3. Len(raw) \in Nat
  BY <1>2, LenProperties
<1>4. k \in Int
  BY <1>3
<1> HIDE DEF k
<1>5. z \in Seq({"0"})
  <2>1. "0" \in {"0"}
    OBVIOUS
  <2>2. CASE k >= 0
    <3>1. k \in Nat
      BY <1>4, <2>2
    <3>2. QED BY <2>1, <3>1, RepeatIs
  <2>3. CASE k < 0
    <3>1. 1..k = 1..0
      BY <1>4, <2>3
    <3>2. z = Repeat("0", 0)
      BY <3>1, Zenon DEF Repeat
    <3>3. 0 \in Nat
      OBVIOUS
    <3>4. Repeat("0", 0) \in Seq({"0"})
      BY <2>1, <3>3, RepeatIs
    <3>5. QED BY <3>2, <3>4
  <2>4. QED BY <1>4, <2>2, <2>3
<1>6. d = z \o raw
  BY Zenon DEF PadStart, k
<1> HIDE DEF z
<1>7. d \in Seq(Digits) /\ Magnitude(d) = n
  BY <1>2, <1>5, <1>6, ZerosWeigh, Zenon
<1>8. Len(d) = W
  BY DEF raw
<1> HIDE DEF d
<1>9. d # <<>>
  BY <1>8, EmptySeq
<1>10. /\ d \in Seq(Ascii) /\ "fs" \notin ToSet(d) /\ Trim(d) = d
       /\ IsInteger(d) /\ IntegerOf(d) = Magnitude(d)
  BY <1>7, <1>9, DigitText
<1>11. QED BY <1>7, <1>10 DEF d, raw

(* The rules that read a field.                                            *)
ReadBy(schema, f) == {q \in DOMAIN schema.rules : schema.rules[q].source = f}
InMillis(schema, q) == schema.rules[q].unit = "milliseconds"

(* The current time, if it is as wide as the field and the rules that read *)
(* the field agree on milliseconds.                                        *)
LEMMA TimeProper ==
  ASSUME NEW schema, SchemaClean(schema), NEW f \in DOMAIN schema.fields,
         schema.fields[f].role = "timestamp", NEW now \in Nows,
         /\ ReadBy(schema, f) # {} /\ InMillis(schema, Min(ReadBy(schema, f)))
           => \A q \in ReadBy(schema, f) : InMillis(schema, q),
         Len(CurrentTimestampDraft(Catalog(schema), f, now)) = Width(schema.fields[f])
  PROVE  Proper(schema, f, CurrentTimestampDraft(Catalog(schema), f, now))
<1> DEFINE C == Catalog(schema)
           W == Width(schema.fields[f])
           mine == {q \in DOMAIN C.rules : C.rules[q].source = f /\ C.rules[q].type = "datetime"}
           R == ReadBy(schema, f)
           milli == R # {} /\ InMillis(schema, Min(R))
           n == IF milli THEN now ELSE now \div PerSecond
           d == CurrentTimestampDraft(C, f, now)
<1>1. now \in Nat /\ InCalendar(now)
  BY InputsAssumption
<1>2. /\ now \div PerSecond \in Nat
      /\ InCalendar(now \div PerSecond) /\ InCalendar((now \div PerSecond) * PerSecond)
  BY <1>1, TimeProjects
<1>3. /\ DOMAIN C.rules = DOMAIN schema.rules
      /\ \A q \in DOMAIN schema.rules : /\ C.rules[q].source = schema.rules[q].source
                                        /\ C.rules[q].type = schema.rules[q].type
                                        /\ C.rules[q].unit = schema.rules[q].unit
      /\ C.fields = schema.fields
  <2>1. C.rules = [q \in DOMAIN schema.rules |-> Sent(schema.rules[q])] /\ C.fields = schema.fields
    BY CatalogIs
  <2> HIDE DEF C
  <2>2. QED BY <2>1 DEF Sent
<1>4. FieldsClean(schema) /\ f # Null /\ schema.fields[f].codec = "integer" /\ W \in Nat \ {0}
  BY WidthIs DEF SchemaClean, FieldsClean, FieldClean
<1>5. ASSUME NEW q \in R
      PROVE  q \in DOMAIN schema.rules /\ schema.rules[q].type = "datetime"
  <2>1. q \in DOMAIN schema.rules /\ schema.rules[q].source = f
    BY DEF ReadBy
  <2>2. RuleClean(schema, schema.rules[q])
    BY <2>1 DEF SchemaClean
  <2>3. QED BY <1>4, <2>1, <2>2, FieldRule
<1> HIDE DEF C, W
<1>6. mine = R
  BY <1>3, <1>5 DEF ReadBy
<1>7. milli => Min(R) \in R
  <2>1. Len(schema.rules) \in Nat /\ DOMAIN schema.rules = 1..Len(schema.rules)
    BY DEF SchemaClean
  <2>2. R \in SUBSET (1..Len(schema.rules))
    BY <2>1 DEF ReadBy
  <2> HIDE DEF R
  <2>3. QED BY <2>1, <2>2, Extremes
<1> HIDE DEF mine
<1>8. milli <=> mine # {} /\ C.rules[Min(mine)].unit = "milliseconds"
  <2>1. mine # {} => C.rules[Min(R)].unit = schema.rules[Min(R)].unit
    <3>1. mine # {} => Min(R) \in R
      <4>1. Len(schema.rules) \in Nat /\ DOMAIN schema.rules = 1..Len(schema.rules)
        BY DEF SchemaClean
      <4>2. R \in SUBSET (1..Len(schema.rules))
        BY <4>1 DEF ReadBy
      <4> HIDE DEF R
      <4>3. QED BY <1>6, <4>1, <4>2, Extremes
    <3>2. QED BY <1>3, <1>5, <3>1
  <2> HIDE DEF R
  <2>2. QED BY <1>6, <2>1, Zenon DEF InMillis
<1>9. d = PadStart(Numeral(n), W, "0")
  <2>1. d = PadStart(Numeral(IF mine # {} /\ C.rules[Min(mine)].unit = "milliseconds"
                             THEN now ELSE now \div PerSecond), Width(C.fields[f]), "0")
    BY Zenon DEF CurrentTimestampDraft, mine
  <2> HIDE DEF d, milli
  <2>2. QED BY <1>3, <1>8, <2>1, Zenon DEF W
<1>10. n \in Nat
  BY <1>1, <1>2
<1>11. ASSUME NEW q \in R PROVE Projectable(schema.rules[q], n)
  <2>1. schema.rules[q].type = "datetime"
    BY <1>5
  <2>2. InCalendar(Instant(n, schema.rules[q].unit))
    <3>1. CASE milli
      <4>1. schema.rules[q].unit = "milliseconds" /\ n = now
        BY <3>1 DEF InMillis
      <4>2. QED BY <1>1, <4>1 DEF Instant
    <3>2. CASE ~milli
      <4>1. n = now \div PerSecond
        BY <3>2
      <4> HIDE DEF n
      <4>2. QED BY <1>2, <4>1 DEF Instant
    <3>3. QED BY <3>1, <3>2
  <2>3. QED BY <2>1, <2>2 DEF Projectable
<1> HIDE DEF n, milli, d
<1>12. Len(d) = W
  BY DEF d, W, C
<1>13. /\ d \in Seq(Ascii) /\ "fs" \notin ToSet(d)
       /\ IsInteger(Trim(d)) /\ IntegerOf(Trim(d)) = n
  BY <1>4, <1>9, <1>10, <1>12, PaddedNumeral
<1>14. \A q \in DOMAIN schema.rules :
         schema.rules[q].source = f => Projectable(schema.rules[q], IntegerOf(Trim(d)))
  BY <1>11, <1>13 DEF ReadBy
<1>15. Proper(schema, f, d)
  BY <1>4, <1>12, <1>13, <1>14 DEF Proper, W
<1>16. QED BY <1>15 DEF d, C

(* A constant that cannot be projected fails every payload.                *)
LEMMA ConstantFails ==
  ASSUME NEW schema, SchemaClean(schema), ~ConstantsRead(schema), NEW payload
  PROVE  /\ \E q \in DOMAIN schema.rules : schema.rules[q].source = Null
         /\ ~PythonParse(schema, payload).ok
<1> DEFINE y == ServerReadings(schema, payload)
           server == PythonParse(schema, payload)
<1>1. PICK q \in DOMAIN schema.rules :
        /\ schema.rules[q].source = Null
        /\ ~CoerceParameterValue(schema.rules[q], schema.rules[q].constant).ok
  BY DEF ConstantsRead
<1>2. RuleClean(schema, schema.rules[q]) /\ FieldsClean(schema)
  BY DEF SchemaClean
<1>3. q \in DOMAIN y /\ y[q] = PythonProject(schema, schema.rules[q], ServerValues(schema, payload))
  BY DEF ServerReadings
<1>4. PythonProject(schema, schema.rules[q], ServerValues(schema, payload))
        = CoerceParameterValue(schema.rules[q], schema.rules[q].constant)
  BY <1>1, <1>2, ProjectIs
<1>5. ~y[q].ok
  BY <1>1, <1>3, <1>4
<1> HIDE DEF y
<1>6. ~Sound(y)
  BY <1>3, <1>5 DEF Sound
<1>7. server = Error
  <2> DEFINE w == [p \in DOMAIN schema.rules |-> ServerReadings(schema, payload)[p].value]
             Fits == LengthFits(schema, Encode(payload))
             p == ServerValues(schema, payload)
  <2>1. server = IF Fits /\ Sound(p) /\ Sound(y) THEN Ok(w) ELSE Error
    BY ParsersAre DEF y
  <2> HIDE DEF server, w, Fits, p
  <2>2. QED BY <1>6, <2>1
<1>8. QED BY <1>1, <1>7, Results

(* What the composer offers for a field.                                   *)
Offered(schema, f) ==
  CASE schema.fields[f].codec = "boolean" -> BooleanOptions(schema.fields[f])
    [] /\ schema.fields[f].role = "timestamp"
       /\ ReadBy(schema, f) # {} /\ InMillis(schema, Min(ReadBy(schema, f)))
            => \A q \in ReadBy(schema, f) : InMillis(schema, q) ->
         {d \in {CurrentTimestampDraft(Catalog(schema), f, now) : now \in Nows} :
            Len(d) = Width(schema.fields[f])}
    [] OTHER -> {}

(* Every offer fills its field with a value its rules accept.              *)
LEMMA OfferedProper ==
  ASSUME NEW schema, SchemaClean(schema), NEW f \in DOMAIN schema.fields,
         NEW text \in Offered(schema, f)
  PROVE  Proper(schema, f, text)
<1> DEFINE field == schema.fields[f]
           Boolean == field.codec = "boolean"
           Agreed == /\ ReadBy(schema, f) # {} /\ InMillis(schema, Min(ReadBy(schema, f)))
                       => \A q \in ReadBy(schema, f) : InMillis(schema, q)
           Stamp == field.role = "timestamp" /\ Agreed
           times == {d \in {CurrentTimestampDraft(Catalog(schema), f, now) : now \in Nows} :
                       Len(d) = Width(field)}
<1>1. field.role = "timestamp" => field.codec = "integer"
  BY DEF SchemaClean, FieldsClean, FieldClean
<1>2. ~(Boolean /\ Stamp)
  BY <1>1
<1>3. Offered(schema, f) = CASE Boolean -> BooleanOptions(field) [] Stamp -> times [] OTHER -> {}
  BY Zenon DEF Offered
<1>4. CASE Boolean
  <2>1. text \in BooleanOptions(field)
    <3> HIDE DEF Boolean, Stamp, times, field
    <3>1. Offered(schema, f) = BooleanOptions(field)
      BY <1>2, <1>3, <1>4, Zenon
    <3>2. QED BY <3>1
  <2>2. QED BY <1>4, <2>1, OptionsProper
<1>5. CASE Stamp
  <2>1. text \in times
    <3> HIDE DEF Boolean, Stamp, times, field
    <3>1. Offered(schema, f) = times
      BY <1>2, <1>3, <1>5, Zenon
    <3>2. QED BY <3>1
  <2>2. PICK now \in Nows : text = CurrentTimestampDraft(Catalog(schema), f, now)
    BY <2>1
  <2>3. Len(text) = Width(field)
    BY <2>1
  <2>4. QED BY <1>5, <2>2, <2>3, TimeProper
<1>6. CASE ~Boolean /\ ~Stamp
  <2> HIDE DEF Boolean, Stamp, times, field
  <2>1. Offered(schema, f) = {}
    BY <1>3, <1>6, Zenon
  <2>2. QED BY <2>1
<1>7. QED BY <1>4, <1>5, <1>6

(* Every schema that full_clean lets into the database passes the catalog, *)
(* and the drafts the composer starts with and offers (createFieldDrafts,  *)
(* the boolean options, the current time) generate a payload, unless the   *)
(* schema is too long or holds a constant the server refuses as well.      *)
THEOREM Editor == Spec => []EditorStartsValid
<1>1. Inputs => EditorStartsValid
  <2> SUFFICES ASSUME Inputs, input.kind = "schema" PROVE EditorStartsValid
    BY DEF EditorStartsValid
  <2> DEFINE schema == input.schema
             drafts == CreateFieldDrafts(schema)
             Generates(d) == \A gap \in Gaps : GeneratePayload(Catalog(schema), d, gap).ok
  <2>1. schema \in Schemas
    BY DEF Inputs, None
  <2>2. SchemaClean(schema)
    BY <2>1, InputsAssumption
  <2>3. EditorStartsValid <=>
          /\ MapSchema(schema).ok
          /\ \/ GeneratedLength(schema) > MaxPayload
             \/ /\ Generates(drafts)
                /\ \A f \in DOMAIN drafts : \A text \in Offered(schema, f) :
                     Generates([drafts EXCEPT ![f] = text])
             \/ /\ \E q \in DOMAIN schema.rules : schema.rules[q].source = Null
                /\ \A payload \in Payloads : ~PythonParse(schema, payload).ok
    BY Zenon DEF EditorStartsValid, Offered, ReadBy, InMillis
  <2> HIDE DEF schema
  <2>4. MapSchema(schema).ok
    BY <2>2, CatalogIs
  <2>5. ASSUME ~ConstantsRead(schema)
        PROVE  /\ \E q \in DOMAIN schema.rules : schema.rules[q].source = Null
               /\ \A payload \in Payloads : ~PythonParse(schema, payload).ok
    BY <2>2, <2>5, ConstantFails
  <2>6. ASSUME ConstantsRead(schema), GeneratedLength(schema) <= MaxPayload
        PROVE  /\ Generates(drafts)
               /\ \A f \in DOMAIN drafts : \A text \in Offered(schema, f) :
                    Generates([drafts EXCEPT ![f] = text])
    <3>1. /\ DOMAIN drafts = DOMAIN schema.fields
          /\ \A f \in DOMAIN schema.fields : Proper(schema, f, drafts[f])
      BY <2>2, DefaultProper DEF CreateFieldDrafts
    <3> HIDE DEF drafts
    <3>2. Generates(drafts)
      BY <2>2, <2>6, <3>1, ProperGenerates
    <3>3. ASSUME NEW f \in DOMAIN drafts, NEW text \in Offered(schema, f)
          PROVE  Generates([drafts EXCEPT ![f] = text])
      <4> DEFINE d == [drafts EXCEPT ![f] = text]
      <4>1. Proper(schema, f, text)
        BY <2>2, <3>1, <3>3, OfferedProper
      <4>2. /\ DOMAIN d = DOMAIN schema.fields
            /\ \A g \in DOMAIN schema.fields : d[g] = IF g = f THEN text ELSE drafts[g]
        BY <3>1
      <4> HIDE DEF d
      <4>3. \A g \in DOMAIN schema.fields : Proper(schema, g, d[g])
        BY <3>1, <4>1, <4>2
      <4>4. Generates(d)
        BY <2>2, <2>6, <4>2, <4>3, ProperGenerates
      <4>5. QED BY <4>4 DEF d
    <3>4. QED BY <3>2, <3>3
  <2>7. GeneratedLength(schema) <= MaxPayload \/ GeneratedLength(schema) > MaxPayload
    <3>1. GeneratedLength(schema) \in Nat
      BY <2>2, LengthIs
    <3>2. QED BY <3>1, LimitsAssumption
  <2>8. QED BY <2>3, <2>4, <2>5, <2>6, <2>7
<1>2. QED BY <1>1, InputsAlways, PTL

-----------------------------------------------------------------------------
(* The gap byte.                                                           *)

(* A text that is not empty begins with its first character.               *)
LEMMA FirstByte ==
  ASSUME NEW A, NEW t \in Seq(A), t # <<>>
  PROVE  Len(Encode(t)) >= 1 /\ Encode(t)[1] = <<Head(t), 1>>
<1> DEFINE Begins(s) == Len(Encode(s)) >= 1 /\ Encode(s)[1] = <<Head(s), 1>>
           T == {s \in Seq(A) : s # <<>> => Begins(s)}
<1>1. <<>> \in T
  BY EmptySeq
<1>2. ASSUME NEW s \in Seq(A), NEW c \in A, s \in T PROVE Append(s, c) \in T
  <2> DEFINE r == Append(s, c)
             e == Encode(s)
             b == Encode(Append(s, c))
  <2>1. r \in Seq(A)
    BY AppendProperties
  <2>2. /\ Len(e) \in Nat /\ Len(b) = Len(e) + Bytes(c) /\ Bytes(c) \in 1..3
        /\ \A i \in 1..Len(e) : b[i] = e[i]
        /\ \A k \in 1..Bytes(c) : b[Len(e) + k] = <<c, k>>
    BY EncodeGrow, BytesRange
  <2>3. Head(r) = IF s = <<>> THEN c ELSE Head(s)
    BY HeadTailAppend
  <2>4. CASE s = <<>>
    <3>1. Len(e) = 0
      BY <2>4, EncodeAppend, EmptySeq
    <3>2. Head(r) = c
      BY <2>3, <2>4
    <3> HIDE DEF e, b, r
    <3>3. Len(b) >= 1 /\ b[1] = <<c, 1>>
      BY <2>2, <3>1
    <3>4. QED BY <2>1, <3>2, <3>3 DEF b, r
  <2>5. CASE s # <<>>
    <3>1. Len(e) >= 1 /\ e[1] = <<Head(s), 1>>
      BY <1>2, <2>5
    <3>2. Head(r) = Head(s)
      BY <2>3, <2>5
    <3> HIDE DEF e, b, r
    <3>3. Len(b) >= 1 /\ b[1] = e[1]
      BY <2>2, <3>1
    <3>4. b[1] = <<Head(r), 1>>
      BY <3>1, <3>2, <3>3
    <3>5. QED BY <2>1, <3>3, <3>4 DEF b, r
  <2>6. QED BY <2>4, <2>5
<1>3. Seq(A) \subseteq T
  <2> HIDE DEF T
  <2> QED BY <1>1, <1>2, TextInduct
<1>4. QED BY <1>3

(* The bytes of text at the places P are one character; text and other     *)
(* differ by what stands at these places.                                  *)
FilledWith(text, P, gap) ==
  \A i \in 1..Len(Encode(text)) : i \in P => Encode(text)[i] = <<gap, 1>>
Refilled(text, other, P, gap) ==
  /\ Len(Encode(other)) = Len(Encode(text))
  /\ \A i \in 1..Len(Encode(text)) :
       Encode(other)[i] = IF i \in P THEN <<gap, 1>> ELSE Encode(text)[i]

(* Characters of one byte may be exchanged for others at any places.       *)
LEMMA Refill ==
  ASSUME NEW A, NEW gap \in A, NEW other \in A, Bytes(gap) = 1, Bytes(other) = 1, NEW P,
         NEW t \in Seq(A), FilledWith(t, P, gap)
  PROVE  \E r \in Seq(A) : Refilled(t, r, P, other)
<1>0. ASSUME NEW s \in Seq(A), NEW c \in A
      PROVE  /\ Len(Encode(Append(s, c))) = Len(Encode(s)) + Bytes(c)
             /\ \A i \in 1..Len(Encode(s)) : Encode(Append(s, c))[i] = Encode(s)[i]
             /\ \A k \in 1..Bytes(c) : Encode(Append(s, c))[Len(Encode(s)) + k] = <<c, k>>
  BY EncodeGrow
<1> USE DEF FilledWith, Refilled
<1> DEFINE Filled(s) == FilledWith(s, P, gap)
           Other(s, r) == Refilled(s, r, P, other)
           T == {s \in Seq(A) : Filled(s) => \E r \in Seq(A) : Other(s, r)}
<1>1. <<>> \in T
  <2>1. Len(Encode(<<>>)) = 0 /\ <<>> \in Seq(A)
    BY EncodeAppend, EmptySeq
  <2>2. Other(<<>>, <<>>)
    BY <2>1
  <2> HIDE DEF Other
  <2>3. QED BY <2>1, <2>2
<1>2. ASSUME NEW s \in Seq(A), NEW c \in A, s \in T PROVE Append(s, c) \in T
  <2> DEFINE w == Append(s, c)
             e == Encode(s)
             b == Encode(w)
             n == Len(e)
  <2>1. w \in Seq(A)
    BY AppendProperties
  <2>2. /\ n \in Nat /\ Len(b) = n + Bytes(c) /\ Bytes(c) \in 1..3
        /\ \A i \in 1..n : b[i] = e[i]
        /\ \A k \in 1..Bytes(c) : b[n + k] = <<c, k>>
    <3>1. n \in Nat /\ Bytes(c) \in 1..3
      BY EncodeGrow, BytesRange
    <3>2. QED BY <1>0, <3>1
  <2>3. SUFFICES ASSUME Filled(w) PROVE \E r \in Seq(A) : Other(w, r)
    <3> HIDE DEF Filled, Other
    <3> QED BY <2>1
  <2>4. Filled(s)
    <3>1. \A i \in 1..Len(b) : i \in P => b[i] = <<gap, 1>>
      BY <2>3
    <3> HIDE DEF e, b, n, w
    <3>2. \A i \in 1..n : i \in 1..Len(b)
      BY <2>2
    <3>3. \A i \in 1..n : i \in P => e[i] = <<gap, 1>>
      BY <2>2, <3>1, <3>2
    <3>4. QED BY <3>3 DEF e, n
  <2>5. PICK r \in Seq(A) : Other(s, r)
    <3> HIDE DEF Filled, Other
    <3> QED BY <1>2, <2>4
  <2> DEFINE m == n + 1
             d == IF c = gap /\ m \in P THEN other ELSE c
             v == Append(r, d)
             x == Encode(r)
             y == Encode(v)
  <2>6. d \in A /\ Bytes(d) = Bytes(c)
    OBVIOUS
  <2>7. v \in Seq(A)
    <3> HIDE DEF d
    <3> QED BY <2>6, AppendProperties
  <2>8. /\ Len(x) = n /\ Len(y) = n + Bytes(c)
        /\ \A i \in 1..n : y[i] = x[i]
        /\ \A k \in 1..Bytes(c) : y[n + k] = <<d, k>>
    <3>1. Len(x) = n
      BY <2>5
    <3> HIDE DEF d, n
    <3>2. /\ Len(y) = Len(x) + Bytes(d)
          /\ \A i \in 1..Len(x) : y[i] = x[i]
          /\ \A k \in 1..Bytes(d) : y[Len(x) + k] = <<d, k>>
      BY <1>0, <2>6
    <3>3. QED BY <2>6, <3>1, <3>2
  <2>9. \A i \in 1..n : x[i] = IF i \in P THEN <<other, 1>> ELSE e[i]
    BY <2>5
  <2>10. \A i \in 1..Len(b) : i \in P => b[i] = <<gap, 1>>
    BY <2>3
  <2>11. ASSUME NEW k \in 1..Bytes(c)
         PROVE  <<d, k>> = IF n + k \in P THEN <<other, 1>> ELSE <<c, k>>
    <3> HIDE DEF e, b, n
    <3>1. n + k \in 1..Len(b) /\ b[n + k] = <<c, k>>
      BY <2>2
    <3>2. CASE n + k \in P
      <4>1. c = gap /\ k = 1
        BY <2>10, <3>1, <3>2
      <4>2. QED BY <3>2, <4>1
    <3>3. CASE n + k \notin P
      <4>1. c = gap => k = 1
        <5>1. c = gap => Bytes(c) = 1
          OBVIOUS
        <5>2. QED BY <5>1
      <4>2. d = c
        BY <3>3, <4>1
      <4>3. QED BY <3>3, <4>2
    <3>4. QED BY <3>2, <3>3
  <2> HIDE DEF d, x, y, e, b, n
  <2>12. ASSUME NEW i \in 1..Len(b)
         PROVE  y[i] = IF i \in P THEN <<other, 1>> ELSE b[i]
    <3>1. CASE i <= n
      <4>1. i \in 1..n
        BY <3>1
      <4>2. QED BY <2>2, <2>8, <2>9, <4>1
    <3>2. CASE ~(i <= n)
      <4> DEFINE k == i - n
      <4>1. k \in 1..Bytes(c) /\ n + k = i
        BY <2>2, <3>2
      <4> HIDE DEF k
      <4>2. y[i] = <<d, k>> /\ b[i] = <<c, k>>
        BY <2>2, <2>8, <4>1
      <4>3. <<d, k>> = IF n + k \in P THEN <<other, 1>> ELSE <<c, k>>
        BY <2>11, <4>1
      <4>4. QED BY <4>1, <4>2, <4>3
    <3>3. QED BY <3>1, <3>2
  <2>13. Len(y) = Len(b)
    BY <2>2, <2>8
  <2>14. Other(w, v)
    BY <2>12, <2>13 DEF y, b
  <2> HIDE DEF Other, v
  <2>15. QED BY <2>7, <2>14
<1>3. Seq(A) \subseteq T
  <2> HIDE DEF T
  <2> QED BY <1>1, <1>2, TextInduct
<1>4. QED BY <1>3

(* What a parser makes of a payload depends on the segments of its fields. *)
LEMMA SegmentsDecide ==
  ASSUME NEW schema, SchemaClean(schema), NEW t, NEW r,
         Len(Encode(r)) = Len(Encode(t)),
         \A f \in DOMAIN schema.fields : Segment(schema, f, r) = Segment(schema, f, t)
  PROVE  ParsePayload(Catalog(schema), r) = ParsePayload(Catalog(schema), t)
<1> DEFINE C == Catalog(schema)
           Result(fits, fields, readings) ==
             IF fits /\ Sound(fields) /\ Sound(readings)
             THEN Ok([fields |-> [f \in DOMAIN schema.fields |-> fields[f].value],
                      readings |-> [q \in DOMAIN schema.rules |-> readings[q].value]])
             ELSE Error
<1>1. ASSUME NEW p
      PROVE  ParsePayload(C, p) = Result(LengthFits(schema, Encode(p)),
                                         SimulatorFields(schema, p), SimulatorReadings(schema, p))
  BY ParsersAre
<1>2. LengthFits(schema, Encode(r)) = LengthFits(schema, Encode(t))
  BY Zenon DEF LengthFits
<1>3. SimulatorFields(schema, r) = SimulatorFields(schema, t)
  <2>1. ASSUME NEW f \in DOMAIN schema.fields
        PROVE  DecodeField(schema.fields[f], Encode(r)) = DecodeField(schema.fields[f], Encode(t))
    <3> DEFINE field == schema.fields[f]
               Of(segment) ==
                 LET raw == IF field.codec = "utf8" THEN Utf8Decoder(segment)
                            ELSE AsciiDecoder(segment)
                     token == Trim(raw.value)
                     Field(v) == Ok([raw |-> raw.value, value |-> v])
                 IN IF ~raw.ok THEN Error
                    ELSE CASE field.codec = "utf8" -> Field(Text(raw.value))
                           [] field.codec = "integer" /\ IsInteger(token) ->
                                Field(Text(Numeral(IntegerOf(token))))
                           [] field.codec = "boolean" /\ token \in TrueTokens -> Field(Truth(TRUE))
                           [] field.codec = "boolean" /\ token \in FalseTokens -> Field(Truth(FALSE))
                           [] OTHER -> Error
    <3>1. SubSeq(Encode(r), schema.fields[f].start + 1, schema.fields[f].end)
            = SubSeq(Encode(t), schema.fields[f].start + 1, schema.fields[f].end)
      BY DEF Segment
    <3>2. ASSUME NEW bytes
          PROVE  DecodeField(field, bytes) = Of(SubSeq(bytes, field.start + 1, field.end))
      BY Zenon DEF DecodeField
    <3> HIDE DEF Of
    <3>3. QED BY <3>1, <3>2
  <2>2. QED BY <2>1 DEF SimulatorFields
<1>4. SimulatorReadings(schema, r) = SimulatorReadings(schema, t)
  BY <1>3, Zenon DEF SimulatorReadings
<1> HIDE DEF Result
<1>5. QED BY <1>1, <1>2, <1>3, <1>4, Zenon

(* The byte in the gaps does not matter: drafts that generate a payload    *)
(* with one of them (generatePayload) do with the other, and what is       *)
(* parsed is the same.  A replay is therefore faithful whatever gap byte   *)
(* the composer offers then.                                               *)
THEOREM AnyGap ==
  ASSUME NEW schema \in Schemas, NEW drafts \in DraftsFor(schema),
         NEW gap \in Gaps, NEW other \in Gaps,
         GeneratePayload(Catalog(schema), drafts, gap).ok
  PROVE  LET g == GeneratePayload(Catalog(schema), drafts, gap)
             h == GeneratePayload(Catalog(schema), drafts, other)
         IN /\ h.ok
            /\ ParsePayload(Catalog(schema), h.value) = ParsePayload(Catalog(schema), g.value)
<1> DEFINE C == Catalog(schema)
           D == DOMAIN schema.fields
           L == GeneratedLength(schema)
           g == GeneratePayload(C, drafts, gap)
           h == GeneratePayload(C, drafts, other)
           t == g.value
           b == Assemble(schema, drafts, gap)
           a == Assemble(schema, drafts, other)
           here(i) == {f \in D : schema.fields[f].start < i /\ i <= schema.fields[f].end}
           P == {i \in 1..L : here(i) = {}}
           Fit == \A f \in D : f \in DOMAIN drafts /\ DraftFits(schema.fields[f], drafts[f])
<1>1. SchemaClean(schema)
  BY InputsAssumption
<1>2. DOMAIN drafts = D /\ \A f \in D : drafts[f] \in Seq(Alphabet)
  BY DraftsAre
<1>3. /\ ValidForGeneration(C)
      /\ \A f \in D : DraftFits(schema.fields[f], drafts[f])
      /\ Fitting(schema, drafts)
      /\ t \in Seq(Alphabet) /\ Encode(t) = b /\ ~Drops(t) /\ ParsePayload(C, t).ok
  <2> HIDE DEF g
  <2> QED BY <1>1, <1>2, GeneratedIs DEF g
<1>4. /\ b \in Seq(Octets(Alphabet)) /\ Len(b) = L
      /\ a \in Seq(Octets(Alphabet)) /\ Len(a) = L
  BY <1>1, <1>3, AssembleIs
<1>5. \A i \in 1..L : /\ i \in P => b[i] = <<gap, 1>> /\ a[i] = <<other, 1>>
                      /\ i \notin P => a[i] = b[i]
  <2> DEFINE At(i) == LET f == CHOOSE f \in here(i) : TRUE
                      IN Encode(drafts[f])[i - schema.fields[f].start]
  <2>1. b = [i \in 1..L |-> IF here(i) = {} THEN <<gap, 1>> ELSE At(i)]
    BY Zenon DEF Assemble
  <2>2. a = [i \in 1..L |-> IF here(i) = {} THEN <<other, 1>> ELSE At(i)]
    BY Zenon DEF Assemble
  <2> HIDE DEF a, b, here, At, L
  <2>3. QED BY <2>1, <2>2
<1>6. /\ gap \in Alphabet /\ other \in Alphabet /\ other # "bom"
      /\ Bytes(gap) = 1 /\ Bytes(other) = 1
  <2>1. {gap, other} \subseteq {" ", "0"} /\ Ascii \subseteq Alphabet
    BY InputsAssumption
  <2>2. {" ", "0"} \subseteq Ascii /\ "bom" \notin {" ", "0"}
    BY DigitsIn DEF Ascii
  <2>3. gap \in Ascii /\ other \in Ascii
    BY <2>1, <2>2
  <2>4. QED BY <2>1, <2>2, <2>3, BytesRange
<1> HIDE DEF P, L, a, b
<1>7. PICK r \in Seq(Alphabet) :
        /\ Len(Encode(r)) = Len(Encode(t))
        /\ \A i \in 1..Len(Encode(t)) :
             Encode(r)[i] = IF i \in P THEN <<other, 1>> ELSE Encode(t)[i]
  <2>1. FilledWith(t, P, gap)
    BY <1>3, <1>4, <1>5 DEF FilledWith
  <2>2. t \in Seq(Alphabet)
    BY <1>3
  <2> HIDE DEF t
  <2>3. \E r \in Seq(Alphabet) : Refilled(t, r, P, other)
    BY <1>6, <2>1, <2>2, Refill
  <2>4. QED BY <2>3 DEF Refilled
<1> HIDE DEF g, t
<1>8. Encode(r) = a
  <2>1. Encode(r) \in Seq(Octets(Alphabet)) /\ Len(Encode(r)) = L
    BY <1>3, <1>4, <1>7, EncodeAppend
  <2>2. \A i \in 1..L : Encode(r)[i] = a[i]
    BY <1>3, <1>4, <1>5, <1>7
  <2>3. QED BY <1>4, <2>1, <2>2, SeqEqual
<1>9. ~Drops(r)
  <2>1. SUFFICES ASSUME Drops(r) PROVE FALSE
    OBVIOUS
  <2>2. r # <<>> /\ Head(r) = "bom"
    BY <2>1 DEF Drops
  <2>3. Len(Encode(r)) >= 1 /\ Encode(r)[1] = <<"bom", 1>>
    BY <2>2, FirstByte
  <2>4. Len(Encode(t)) \in Nat /\ Len(Encode(t)) >= 1
    BY <1>3, <1>4, <1>7, <2>3, LenProperties
  <2>5. 1 \in 1..Len(Encode(t))
    BY <2>4
  <2>6. Encode(t)[1] = <<"bom", 1>>
    BY <1>6, <1>7, <2>3, <2>5
  <2>7. t # <<>>
    <3>1. Len(Encode(<<>>)) = 0
      BY EncodeAppend, EmptySeq
    <3>2. QED BY <2>4, <3>1
  <2>8. Head(t) = "bom"
    <3>1. t \in Seq(Alphabet)
      BY <1>3
    <3>2. Encode(t)[1] = <<Head(t), 1>>
      BY <2>7, <3>1, FirstByte
    <3> DEFINE c == Head(t)
               x == Encode(t)[1]
    <3> HIDE DEF c, x
    <3>3. x = <<c, 1>> /\ x = <<"bom", 1>>
      BY <2>6, <3>2 DEF c, x
    <3>4. x[1] = c /\ x[1] = "bom"
      BY <3>3
    <3>5. QED BY <3>4 DEF c
  <2>9. QED BY <1>3, <2>7, <2>8 DEF Drops
<1>10. Utf8Decoder(a) = Ok(r)
  <2>1. Decode(a) = Ok(r)
    BY <1>8, DecodeEncode
  <2>2. Decode(a).ok /\ Decode(a).value = r
    BY <2>1, Results
  <2>3. QED BY <1>4, <1>9, <2>2, Utf8Is
<1>11. ParsePayload(C, r) = ParsePayload(C, t)
  <2>1. ASSUME NEW f \in D PROVE Segment(schema, f, r) = Segment(schema, f, t)
    <3>1. Segment(schema, f, t) = Encode(drafts[f])
      BY <1>1, <1>3, GeneratedSegment DEF b
    <3>2. Segment(schema, f, r) = Encode(drafts[f])
      BY <1>1, <1>3, <1>8, GeneratedSegment DEF a
    <3>3. QED BY <3>1, <3>2
  <2>2. QED BY <1>1, <1>7, <2>1, SegmentsDecide
<1>12. h = Ok(r)
  <2> DEFINE u == Utf8Decoder(a)
  <2>1. Assemble(C, drafts, other) = a /\ C.fields = schema.fields
    <3>1. \A d, x : Assemble(C, d, x) = Assemble(schema, d, x)
      BY <1>1, CatalogGenerates
    <3>2. Assemble(C, drafts, other) = a
      BY <3>1, Zenon DEF a
    <3>3. QED BY <1>1, <3>2, CatalogIs
  <2>2. h = IF ValidForGeneration(C) /\ Fit
            THEN IF u.ok /\ ParsePayload(C, u.value).ok THEN u ELSE Error
            ELSE Error
    BY <2>1, Zenon DEF GeneratePayload
  <2>3. Fit
    BY <1>2, <1>3
  <2>4. u.ok /\ u.value = r
    BY <1>10, Results
  <2>5. ParsePayload(C, u.value).ok
    BY <1>3, <1>11, <2>4
  <2> HIDE DEF h, u, Fit
  <2>6. h = u
    BY <1>3, <2>2, <2>3, <2>4, <2>5
  <2>7. QED BY <1>10, <2>6 DEF u
<1> HIDE DEF h
<1>13. h.ok /\ h.value = r
  BY <1>12, Results
<1>14. QED BY <1>11, <1>13 DEF g, h, t

=============================================================================
