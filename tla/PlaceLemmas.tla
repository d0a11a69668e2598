----------------------------- MODULE PlaceLemmas -----------------------------
(***************************************************************************)
(* Facts about places, the numbers from 0 or 1 up, that several proofs     *)
(* need: induction on them, the greatest of a set, and where FlattenSeq    *)
(* puts the elements of the sequences that it flattens.                    *)
(***************************************************************************)
EXTENDS SequencesExt, SequenceTheorems, WellFoundedInduction, TLAPS

-----------------------------------------------------------------------------
(* Induction by the least counterexample, on sets instead of predicates.   *)

Below == {p \in Nat \X Nat : p[1] < p[2]}

LEMMA Least ==
  ASSUME NEW T \in SUBSET Nat, T # {}
  PROVE  \E x \in T : \A y \in T : x <= y
<1>1. IsWellFoundedOn(Below, Nat)
  <2>1. IsWellFoundedOn(OpToRel(<, Nat), Nat)
    BY NatLessThanWellFounded
  <2>2. Below \cap (Nat \X Nat) \subseteq OpToRel(<, Nat)
    BY DEF Below, OpToRel
  <2> QED BY <2>1, <2>2, IsWellFoundedOnSubrelation
<1>2. PICK x \in T : \A y \in T : <<y, x>> \notin Below
  BY <1>1, WFMin
<1>3. ASSUME NEW y \in T PROVE x <= y
  <2>1. <<y, x>> \in Nat \X Nat
    OBVIOUS
  <2>2. <<y, x>> \notin Below
    BY <1>2
  <2>3. ~ (y < x)
    BY <2>1, <2>2 DEF Below
  <2> QED BY <2>3
<1> QED BY <1>3

(* What holds for the first place and, if for one, for the next one, holds *)
(* for all.                                                                *)
LEMMA Upwards ==
  ASSUME NEW n \in Nat, NEW G \in SUBSET (0..n),
         0 \in G, \A i \in 0..n-1 : i \in G => i + 1 \in G
  PROVE  G = 0..n
<1> SUFFICES ASSUME (0..n) \ G # {} PROVE FALSE
  OBVIOUS
<1>1. (0..n) \ G \in SUBSET Nat
  OBVIOUS
<1>2. PICK m \in (0..n) \ G : \A y \in (0..n) \ G : m <= y
  BY <1>1, Least
<1>3. m - 1 \in 0..n-1 /\ m - 1 \notin (0..n) \ G
  BY <1>2
<1>4. m \in G
  BY <1>3
<1> QED BY <1>2, <1>4

(* Max is what it says, on sets of places.                                 *)
LEMMA MaxOfPlaces ==
  ASSUME NEW n \in Nat, NEW T \in SUBSET (1..n), T # {}
  PROVE  Max(T) \in T
<1> DEFINE D == {n - x : x \in T}
<1>1. D \in SUBSET Nat /\ D # {}
  <2>1. \A x \in T : x \in 1..n /\ n - x \in Nat
    OBVIOUS
  <2> QED BY <2>1
<1>2. PICK d \in D : \A e \in D : d <= e
  BY <1>1, Least
<1>3. PICK x \in T : d = n - x
  BY <1>2
<1>4. \A y \in T : x >= y
  <2> TAKE y \in T
  <2>1. n - y \in D
    OBVIOUS
  <2>2. d <= n - y
    BY <1>2, <2>1
  <2> QED BY <1>3, <2>2
<1>5. \E z \in T : \A y \in T : z >= y
  BY <1>4
<1> QED BY <1>5 DEF Max

-----------------------------------------------------------------------------
(* Where FlattenSeq puts the elements of its sequences.                    *)

(* The recursion of FlattenSeq has a solution.                             *)
IsFlattening(seqs, n, f) ==
  f = [i \in 1..n |-> IF i = 1 THEN seqs[i] ELSE f[i-1] \o seqs[i]]

LEMMA FlatteningExists ==
  ASSUME NEW seqs, NEW n \in Nat
  PROVE  \E f : IsFlattening(seqs, n, f)
<1> DEFINE G == {k \in 0..n : \E f : IsFlattening(seqs, k, f)}
<1>1. 0 \in G
  <2>1. IsFlattening(seqs, 0, [i \in 1..0 |-> seqs[i]])
    BY DEF IsFlattening
  <2> QED BY <2>1
<1>2. ASSUME NEW k \in 0..n-1, k \in G PROVE k + 1 \in G
  <2>1. PICK g : IsFlattening(seqs, k, g)
    BY <1>2
  <2> DEFINE f == [i \in 1..k+1 |-> IF i = 1 THEN seqs[1] ELSE g[i-1] \o seqs[i]]
  <2>2. ASSUME NEW i \in 1..k PROVE f[i] = g[i]
    <3>1. g[i] = IF i = 1 THEN seqs[i] ELSE g[i-1] \o seqs[i]
      BY <2>1, Zenon DEF IsFlattening
    <3>2. f[i] = IF i = 1 THEN seqs[1] ELSE g[i-1] \o seqs[i]
      OBVIOUS
    <3> QED BY <3>1, <3>2
  <2>3. ASSUME NEW i \in 1..k+1
        PROVE  f[i] = IF i = 1 THEN seqs[i] ELSE f[i-1] \o seqs[i]
    <3>1. CASE i = 1
      BY <3>1
    <3>2. CASE i # 1
      <4>1. i - 1 \in 1..k
        BY <3>2
      <4>2. f[i-1] = g[i-1]
        BY <4>1, <2>2
      <4> QED BY <3>2, <4>2
    <3> QED BY <3>1, <3>2
  <2> HIDE DEF f
  <2>4. f = [i \in 1..k+1 |-> f[i]]
    BY DEF f
  <2>5. IsFlattening(seqs, k + 1, f)
    BY <2>3, <2>4 DEF IsFlattening
  <2> QED BY <2>5
<1> HIDE DEF G
<1>3. G \in SUBSET (0..n)
  BY DEF G
<1>4. n \in G
  BY <1>1, <1>2, <1>3, Upwards
<1> QED BY <1>4 DEF G

(* The first n sequences make up the whole, sequence i from the place      *)
(* after off[i] on.                                                        *)
Placed(seqs, n, whole, off) ==
  /\ \A i \in 1..n : off[i] + Len(seqs[i]) <= Len(whole)
  /\ \A i, k \in 1..n : i < k => off[i] + Len(seqs[i]) <= off[k]
  /\ \A i \in 1..n : \A j \in 1..Len(seqs[i]) : whole[off[i] + j] = seqs[i][j]
  /\ \A p \in 1..Len(whole) :
       \E i \in 1..n : \E j \in 1..Len(seqs[i]) : p = off[i] + j

LEMMA PlacedNext ==
  ASSUME NEW S, NEW seqs \in Seq(Seq(S)), NEW n \in 0..Len(seqs)-1,
         NEW whole \in Seq(S), NEW off \in [1..Len(seqs) -> Nat],
         Placed(seqs, n, whole, off), off[n+1] = Len(whole)
  PROVE  Placed(seqs, n + 1, whole \o seqs[n+1], off)
<1> DEFINE s == seqs[n+1]
           longer == whole \o s
<1>1. /\ s \in Seq(S) /\ Len(s) \in Nat /\ Len(whole) \in Nat
      /\ longer \in Seq(S) /\ Len(longer) = Len(whole) + Len(s)
      /\ \A p \in 1..Len(whole) : longer[p] = whole[p]
      /\ \A j \in 1..Len(s) : longer[Len(whole) + j] = s[j]
  OBVIOUS
<1>2. \A i \in 1..n+1 : /\ off[i] \in Nat /\ Len(seqs[i]) \in Nat
                        /\ i \in 1..n \/ i = n + 1
  <2> TAKE i \in 1..n+1
  <2>1. i \in 1..Len(seqs)
    OBVIOUS
  <2>2. off[i] \in Nat /\ seqs[i] \in Seq(S)
    BY <2>1
  <2> QED BY <2>2
<1>3. \A i \in 1..n : off[i] + Len(seqs[i]) <= Len(whole)
  BY DEF Placed
<1> HIDE DEF longer
<1>4. \A i \in 1..n+1 : off[i] + Len(seqs[i]) <= Len(longer)
  <2> TAKE i \in 1..n+1
  <2>1. off[i] + Len(seqs[i]) <= Len(whole) \/ i = n + 1
    BY <1>2, <1>3
  <2>2. off[n+1] + Len(seqs[n+1]) <= Len(longer) /\ Len(whole) <= Len(longer)
    BY <1>1
  <2>3. off[i] \in Nat /\ Len(seqs[i]) \in Nat
    BY <1>2
  <2> QED BY <1>1, <2>1, <2>2, <2>3
<1>5. \A i, k \in 1..n+1 : i < k => off[i] + Len(seqs[i]) <= off[k]
  <2> SUFFICES ASSUME NEW i \in 1..n+1, NEW k \in 1..n+1, i < k
               PROVE  off[i] + Len(seqs[i]) <= off[k]
    OBVIOUS
  <2>1. i \in 1..n
    OBVIOUS
  <2>2. CASE k = n + 1
    BY <1>3, <2>1, <2>2
  <2>3. CASE k \in 1..n
    BY <2>1, <2>3 DEF Placed
  <2> QED BY <1>2, <2>2, <2>3
<1>6. \A i \in 1..n+1 : \A j \in 1..Len(seqs[i]) : longer[off[i] + j] = seqs[i][j]
  <2> SUFFICES ASSUME NEW i \in 1..n+1, NEW j \in 1..Len(seqs[i])
               PROVE  longer[off[i] + j] = seqs[i][j]
    OBVIOUS
  <2>1. CASE i = n + 1
    BY <1>1, <2>1
  <2>2. CASE i \in 1..n
    <3>1. off[i] + j \in 1..Len(whole)
      <4>1. /\ off[i] \in Nat /\ Len(seqs[i]) \in Nat
            /\ off[i] + Len(seqs[i]) <= Len(whole)
        BY <1>2, <1>3, <2>2
      <4> QED BY <1>1, <4>1
    <3>2. whole[off[i] + j] = seqs[i][j]
      BY <2>2 DEF Placed
    <3> QED BY <1>1, <3>1, <3>2
  <2> QED BY <1>2, <2>1, <2>2
<1>7. \A p \in 1..Len(longer) :
        \E i \in 1..n+1 : \E j \in 1..Len(seqs[i]) : p = off[i] + j
  <2> SUFFICES ASSUME NEW p \in 1..Len(longer)
               PROVE  \E i \in 1..n+1 : \E j \in 1..Len(seqs[i]) : p = off[i] + j
    OBVIOUS
  <2>1. CASE p <= Len(whole)
    <3>1. \E i \in 1..n : \E j \in 1..Len(seqs[i]) : p = off[i] + j
      BY <1>1, <2>1 DEF Placed
    <3> QED BY <3>1
  <2>2. CASE p > Len(whole)
    <3>1. p - Len(whole) \in 1..Len(seqs[n+1]) /\ p = off[n+1] + (p - Len(whole))
      BY <1>1, <2>2
    <3>2. n + 1 \in 1..n+1
      OBVIOUS
    <3> QED BY <3>1, <3>2
  <2> QED BY <1>1, <2>1, <2>2
<1>8. Placed(seqs, n + 1, longer, off)
  BY <1>4, <1>5, <1>6, <1>7 DEF Placed
<1> QED BY <1>8 DEF longer

LEMMA FlattenPlaces ==
  ASSUME NEW S, NEW seqs \in Seq(Seq(S))
  PROVE  /\ FlattenSeq(seqs) \in Seq(S)
         /\ \E off \in [1..Len(seqs) -> Nat] :
              Placed(seqs, Len(seqs), FlattenSeq(seqs), off)
<1>1. CASE Len(seqs) = 0
  <2>1. FlattenSeq(seqs) = << >> /\ << >> \in Seq(S)
    BY <1>1 DEF FlattenSeq
  <2>2. Placed(seqs, 0, << >>, [i \in 1..0 |-> 0])
    BY DEF Placed
  <2>3. [i \in 1..0 |-> 0] \in [1..Len(seqs) -> Nat]
    BY <1>1
  <2> QED BY <1>1, <2>1, <2>2, <2>3
<1>2. CASE Len(seqs) # 0
  <2> DEFINE N == Len(seqs)
             f == CHOOSE g : IsFlattening(seqs, N, g)
             off == [i \in 1..N |-> IF i = 1 THEN 0 ELSE Len(f[i-1])]
  <2>0. N \in Nat
    OBVIOUS
  <2>1. IsFlattening(seqs, N, f)
    <3>1. \E g : IsFlattening(seqs, N, g)
      BY <2>0, FlatteningExists, Zenon
    <3> QED BY <3>1
  <2>2. FlattenSeq(seqs) = f[N]
    BY <1>2 DEF FlattenSeq, IsFlattening
  <2> HIDE DEF f
  <2>3. \A i \in 1..N : f[i] = IF i = 1 THEN seqs[i] ELSE f[i-1] \o seqs[i]
    BY <2>1 DEF IsFlattening
  <2> DEFINE G == {k \in 0..N-1 : \A i \in 1..k+1 : f[i] \in Seq(S)}
  <2>4. N - 1 \in G
    <3>1. 0 \in G
      <4>1. f[1] = seqs[1] /\ seqs[1] \in Seq(S)
        BY <1>2, <2>3
      <4> QED BY <1>2, <4>1
    <3>2. ASSUME NEW k \in 0..N-1-1, k \in G PROVE k + 1 \in G
      <4>1. f[k+2] = f[k+1] \o seqs[k+2]
        <5>1. PICK j \in 1..N : j = k + 2
          OBVIOUS
        <5>2. f[j] = IF j = 1 THEN seqs[j] ELSE f[j-1] \o seqs[j]
          BY <2>3
        <5>3. j # 1 /\ j - 1 = k + 1
          BY <5>1
        <5> QED BY <5>1, <5>2, <5>3, Zenon
      <4>2. f[k+1] \in Seq(S) /\ seqs[k+2] \in Seq(S)
        BY <3>2
      <4>3. f[k+2] \in Seq(S)
        BY <4>1, <4>2
      <4>4. \A i \in 1..k+1+1 : i \in 1..k+1 \/ i = k + 2
        OBVIOUS
      <4>5. \A i \in 1..k+1 : f[i] \in Seq(S)
        BY <3>2
      <4> QED BY <4>3, <4>4, <4>5
    <3>3. N - 1 \in Nat /\ G \in SUBSET (0..N-1)
      BY <1>2
    <3> HIDE DEF G
    <3> DEFINE n == N - 1
    <3>4. \A k \in 0..n-1 : k \in G => k + 1 \in G
      BY <3>2
    <3>5. n \in Nat /\ G \in SUBSET (0..n)
      BY <3>3
    <3> HIDE DEF n
    <3>6. G = 0..n
      BY <3>1, <3>4, <3>5, Upwards
    <3> QED BY <3>5, <3>6 DEF n
  <2>5. \A i \in 1..N : f[i] \in Seq(S)
    BY <2>0, <2>4
  <2>6. off \in [1..N -> Nat]
    <3>1. \A i \in 1..N : i # 1 => i - 1 \in 1..N
      OBVIOUS
    <3>2. \A i \in 1..N : Len(f[i]) \in Nat
      BY <2>5
    <3> QED BY <3>1, <3>2
  <2> DEFINE H == {k \in 0..N-1 : Placed(seqs, k + 1, f[k+1], off)}
  <2>7. 0 \in H
    <3>0. 1 \in 1..N
      BY <1>2, <2>0
    <3>1. f[1] = seqs[1] /\ seqs[1] \in Seq(S) /\ off[1] = 0
      <4>1. f[1] = IF 1 = 1 THEN seqs[1] ELSE f[1-1] \o seqs[1]
        BY <2>3, <3>0
      <4> QED BY <3>0, <4>1
    <3> HIDE DEF off
    <3>2. 0 + 1 = 1 /\ 1..1 = {1} /\ 0 \in 0..N-1
      BY <1>2
    <3>3. Placed(seqs, 1, seqs[1], off)
      BY <3>1, <3>2 DEF Placed
    <3> QED BY <3>1, <3>2, <3>3
  <2>8. ASSUME NEW k \in 0..N-1-1, k \in H PROVE k + 1 \in H
    <3>1. Placed(seqs, k + 1, f[k+1], off)
      BY <2>8
    <3>2. PICK m \in 0..N-1 : m = k + 1
      OBVIOUS
    <3>3. /\ m + 1 \in 1..N /\ m + 1 # 1 /\ (m + 1) - 1 = m /\ m \in 1..N
      BY <3>2
    <3>4. f[m+1] = f[m] \o seqs[m+1]
      <4>1. f[m+1] = IF m + 1 = 1 THEN seqs[m+1] ELSE f[(m+1)-1] \o seqs[m+1]
        BY <2>3, <3>3
      <4> QED BY <3>3, <4>1
    <3>5. off[m+1] = Len(f[m])
      <4>1. off[m+1] = IF m + 1 = 1 THEN 0 ELSE Len(f[(m+1)-1])
        BY <3>3
      <4> QED BY <3>3, <4>1
    <3>6. f[m] \in Seq(S)
      BY <2>5, <3>3
    <3> HIDE DEF off
    <3>7. Placed(seqs, m, f[m], off)
      BY <3>1, <3>2
    <3>8. m \in 0..Len(seqs)-1 /\ off \in [1..Len(seqs) -> Nat]
      BY <2>6, <3>2
    <3>9. Placed(seqs, m + 1, f[m] \o seqs[m+1], off)
      BY <3>5, <3>6, <3>7, <3>8, PlacedNext
    <3> QED BY <3>2, <3>4, <3>9
  <2>9. Placed(seqs, N, f[N], off)
    <3>1. N - 1 \in Nat /\ H \in SUBSET (0..N-1)
      BY <1>2
    <3> HIDE DEF H
    <3> DEFINE n == N - 1
    <3>2. \A k \in 0..n-1 : k \in H => k + 1 \in H
      BY <2>8
    <3>3. n \in Nat /\ H \in SUBSET (0..n)
      BY <3>1
    <3> HIDE DEF n
    <3>4. H = 0..n
      BY <2>7, <3>2, <3>3, Upwards
    <3>5. N - 1 \in H
      BY <3>3, <3>4 DEF n
    <3>6. Placed(seqs, (N-1) + 1, f[(N-1)+1], off)
      BY <3>5 DEF H
    <3>7. (N - 1) + 1 = N
      OBVIOUS
    <3> QED BY <3>6, <3>7
  <2>10. f[N] \in Seq(S)
    BY <1>2, <2>5
  <2> QED BY <2>2, <2>6, <2>9, <2>10
<1> QED BY <1>1, <1>2

LEMMA FlattenContents ==
  ASSUME NEW S, NEW seqs \in Seq(Seq(S))
  PROVE  /\ FlattenSeq(seqs) \in Seq(S)
         /\ ToSet(FlattenSeq(seqs)) = UNION {ToSet(seqs[i]) : i \in 1..Len(seqs)}
<1> DEFINE whole == FlattenSeq(seqs)
<1>1. whole \in Seq(S)
  BY FlattenPlaces
<1>2. PICK off \in [1..Len(seqs) -> Nat] : Placed(seqs, Len(seqs), whole, off)
  BY FlattenPlaces
<1> HIDE DEF whole
<1>3. ASSUME NEW x \in ToSet(whole)
      PROVE  \E i \in 1..Len(seqs) : x \in ToSet(seqs[i])
  <2>1. PICK p \in 1..Len(whole) : x = whole[p]
    BY <1>1, <1>3 DEF ToSet
  <2>2. PICK i \in 1..Len(seqs) : \E j \in 1..Len(seqs[i]) : p = off[i] + j
    BY <1>2 DEF Placed
  <2>3. PICK j \in 1..Len(seqs[i]) : p = off[i] + j
    BY <2>2
  <2>4. x = seqs[i][j]
    BY <1>2, <2>1, <2>3 DEF Placed
  <2>5. seqs[i] \in Seq(S)
    OBVIOUS
  <2> QED BY <2>4, <2>5 DEF ToSet
<1>4. ASSUME NEW i \in 1..Len(seqs), NEW x \in ToSet(seqs[i])
      PROVE  x \in ToSet(whole)
  <2>1. seqs[i] \in Seq(S) /\ Len(seqs[i]) \in Nat /\ off[i] \in Nat
    OBVIOUS
  <2>2. PICK j \in 1..Len(seqs[i]) : x = seqs[i][j]
    BY <1>4, <2>1 DEF ToSet
  <2>3. off[i] + Len(seqs[i]) <= Len(whole) /\ whole[off[i] + j] = x
    BY <1>2, <2>2 DEF Placed
  <2>4. off[i] + j \in 1..Len(whole)
    BY <1>1, <2>1, <2>3
  <2> QED BY <1>1, <2>3, <2>4 DEF ToSet
<1>5. ToSet(whole) = UNION {ToSet(seqs[i]) : i \in 1..Len(seqs)}
  BY <1>3, <1>4
<1> QED BY <1>1, <1>5 DEF whole
==============================================================================
