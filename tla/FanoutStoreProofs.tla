------------------------- MODULE FanoutStoreProofs -------------------------
(***************************************************************************)
(* Theorems about FanoutStore: what the primary and the mirrors have of    *)
(* one another, what the heads of the mirrors are worth, and that the      *)
(* window of the one and the file of the other are chains.                 *)
(***************************************************************************)
EXTENDS FanoutStore, SequenceTheorems, WellFoundedInduction, TLAPS

-----------------------------------------------------------------------------
(* Lemmas about the operators. *)

\* A non-empty set of natural numbers has a least element.
LEMMA Least ==
    ASSUME NEW S \in SUBSET Nat, S # {}
    PROVE  \E i \in S : \A j \in S : i <= j
<1> DEFINE R == OpToRel(<, Nat)
<1>1. IsWellFoundedOn(R, Nat)
  BY NatLessThanWellFounded
<1> HIDE DEF R
<1>2. \E x \in S : \A y \in S : ~ (<<y, x>> \in R)
  BY <1>1, WFMin
<1>3. \A x, y \in Nat : <<y, x>> \in R <=> y < x
  BY DEF R, OpToRel
<1>4. PICK x \in S : \A y \in S : ~ (<<y, x>> \in R)
  BY <1>2
<1>5. \A y \in S : ~ (y < x)
  BY <1>3, <1>4
<1> QED BY <1>5

\* A set of natural numbers that has 0 and every successor up to m has all up to m.
LEMMA UpTo ==
    ASSUME NEW m \in Nat, NEW S, 0 \in S, \A n \in 0 .. m - 1 : n \in S => n + 1 \in S
    PROVE  0 .. m \subseteq S
<1> SUFFICES ASSUME (0 .. m) \ S # {} PROVE FALSE
  OBVIOUS
<1>1. PICK i \in (0 .. m) \ S : \A j \in (0 .. m) \ S : i <= j
  <2> DEFINE M == (0 .. m) \ S
  <2>1. M \in SUBSET Nat /\ M # {}
    OBVIOUS
  <2> HIDE DEF M
  <2>2. \E i \in M : \A j \in M : i <= j
    BY <2>1, Least
  <2> QED BY <2>2 DEF M
<1>2. i # 0 /\ i - 1 \in 0 .. m - 1 /\ i - 1 \in 0 .. m
  BY <1>1
<1>3. i - 1 \in S
  BY <1>1, <1>2
<1> QED BY <1>1, <1>2, <1>3

\* A function on the first numbers is a sequence.
LEMMA IsSequence ==
    ASSUME NEW T, NEW m \in Nat, NEW g, DOMAIN g = 1 .. m, g = [k \in 1 .. m |-> g[k]],
           \A k \in 1 .. m : g[k] \in T
    PROVE  g \in Seq(T) /\ Len(g) = m
<1>1. g \in [1 .. m -> T]
  OBVIOUS
<1> QED BY <1>1

\* What Where keeps of the first entries, by their number.
KeptAt(q, S, kept, n) ==
    IF n = 0 THEN <<>> ELSE IF q[n] \in S THEN Append(kept[n - 1], q[n]) ELSE kept[n - 1]

Keeps(q, S, m, kept) == kept = [n \in 0 .. m |-> KeptAt(q, S, kept, n)]

LEMMA WhereUnfolds ==
    ASSUME NEW q, Len(q) \in Nat, NEW S
    PROVE  \E kept : Keeps(q, S, Len(q), kept) /\ Where(q, S) = kept[Len(q)]
<1> DEFINE Good == {n \in 0 .. Len(q) : \E kept : Keeps(q, S, n, kept)}
<1>1. 0 \in Good
  <2> DEFINE f == [i \in 0 .. 0 |-> <<>>]
  <2>1. \A i \in 0 .. 0 : KeptAt(q, S, f, i) = <<>>
    BY DEF KeptAt
  <2> HIDE DEF f
  <2>2. Keeps(q, S, 0, f)
    BY <2>1 DEF Keeps, f
  <2> QED BY <2>2
<1>2. ASSUME NEW n \in 0 .. Len(q) - 1, n \in Good PROVE n + 1 \in Good
  <2>1. PICK g : Keeps(q, S, n, g)
    BY <1>2
  <2> DEFINE f == [i \in 0 .. n + 1 |-> IF i <= n THEN g[i] ELSE KeptAt(q, S, g, i)]
  <2>2. \A i \in 0 .. n + 1 : f[i] = KeptAt(q, S, g, i)
    <3>1. \A i \in 0 .. n : g[i] = KeptAt(q, S, g, i)
      BY <2>1 DEF Keeps
    <3> QED BY <3>1
  <2>3. \A i \in 0 .. n + 1 : KeptAt(q, S, f, i) = KeptAt(q, S, g, i)
    <3>1. \A i \in 0 .. n + 1 : i # 0 => f[i - 1] = g[i - 1]
      OBVIOUS
    <3> HIDE DEF f
    <3> QED BY <3>1 DEF KeptAt
  <2>4. f = [i \in 0 .. n + 1 |-> f[i]]
    OBVIOUS
  <2> HIDE DEF f
  <2>5. Keeps(q, S, n + 1, f)
    BY <2>2, <2>3, <2>4 DEF Keeps
  <2> QED BY <2>5
<1>3. Len(q) \in Good
  <2>1. 0 .. Len(q) \subseteq Good
    <3> HIDE DEF Good
    <3> QED BY <1>1, <1>2, UpTo
  <2> HIDE DEF Good
  <2> QED BY <2>1
<1> DEFINE IsKept(kept) == kept = [n \in 0 .. Len(q) |->
                               IF n = 0 THEN <<>>
                               ELSE IF q[n] \in S THEN Append(kept[n - 1], q[n]) ELSE kept[n - 1]]
           k == CHOOSE kept : IsKept(kept)
<1>4. IsKept(k)
  <2>1. \E kept : IsKept(kept)
    BY <1>3 DEF Keeps, KeptAt
  <2> HIDE DEF IsKept
  <2> QED BY <2>1
<1>5. Where(q, S) = k[Len(q)]
  BY DEF Where
<1> QED BY <1>4, <1>5 DEF Keeps, KeptAt

\* f numbers, in order, the entries of q up to n that are in S.
Picks(q, S, n, m, f) ==
    /\ m \in Nat /\ f \in [1 .. m -> 1 .. n]
    /\ \A i, j \in 1 .. m : i < j => f[i] < f[j]
    /\ \A k \in 1 .. m : q[f[k]] \in S
    /\ \A i \in 1 .. n : q[i] \in S => \E k \in 1 .. m : f[k] = i

\* Where returns the entries with the numbers in f.
IsPicked(q, S, m, f) == Picks(q, S, Len(q), m, f) /\ Where(q, S) = [k \in 1 .. m |-> q[f[k]]]

LEMMA WherePicks ==
    ASSUME NEW T, NEW q \in Seq(T), NEW S
    PROVE  \E m, f : IsPicked(q, S, m, f)
<1>1. Len(q) \in Nat /\ \A i \in 1 .. Len(q) : q[i] \in T
  OBVIOUS
<1>2. PICK kept : Keeps(q, S, Len(q), kept) /\ Where(q, S) = kept[Len(q)]
  BY <1>1, WhereUnfolds
<1> DEFINE Kept(n, m, f) == Picks(q, S, n, m, f) /\ kept[n] = [k \in 1 .. m |-> q[f[k]]]
           Good == {n \in 0 .. Len(q) : \E m, f : Kept(n, m, f)}
<1>3. \A n \in 0 .. Len(q) : kept[n] = KeptAt(q, S, kept, n)
  BY <1>2 DEF Keeps
<1>4. 0 \in Good
  <2> DEFINE f == [k \in 1 .. 0 |-> 1]
  <2>1. Picks(q, S, 0, 0, f)
    BY DEF Picks
  <2>2. kept[0] = <<>>
    BY <1>1, <1>3 DEF KeptAt
  <2>3. <<>> = [k \in 1 .. 0 |-> q[f[k]]]
    OBVIOUS
  <2>4. Kept(0, 0, f)
    BY <2>1, <2>2, <2>3
  <2> HIDE DEF Kept
  <2> QED BY <1>1, <2>4
<1>5. ASSUME NEW n \in 0 .. Len(q) - 1, n \in Good PROVE n + 1 \in Good
  <2>1. PICK m, f : Kept(n, m, f)
    BY <1>5
  <2>2. n \in Nat /\ n + 1 \in 1 .. Len(q) /\ n + 1 \in 0 .. Len(q) /\ m \in Nat /\ f \in [1 .. m -> 1 .. n]
    BY <1>1, <2>1 DEF Picks
  <2>3. kept[n + 1] = IF q[n + 1] \in S THEN Append(kept[n], q[n + 1]) ELSE kept[n]
    BY <1>3, <2>2 DEF KeptAt
  <2>4. CASE q[n + 1] \in S
    <3> DEFINE g == [k \in 1 .. m + 1 |-> IF k = m + 1 THEN n + 1 ELSE f[k]]
    <3>1. g \in [1 .. m + 1 -> 1 .. n + 1] /\ g[m + 1] = n + 1 /\ \A k \in 1 .. m : g[k] = f[k]
      BY <2>2
    <3> HIDE DEF g
    <3>2. \A i, j \in 1 .. m + 1 : i < j => g[i] < g[j]
      <4> SUFFICES ASSUME NEW i \in 1 .. m + 1, NEW j \in 1 .. m + 1, i < j PROVE g[i] < g[j]
        OBVIOUS
      <4>1. i \in 1 .. m /\ f[i] \in 1 .. n /\ g[i] = f[i]
        BY <2>2, <3>1
      <4>2. CASE j = m + 1
        BY <2>2, <3>1, <4>1, <4>2
      <4>3. CASE j \in 1 .. m
        BY <2>1, <3>1, <4>1, <4>3 DEF Picks
      <4> QED BY <2>2, <4>2, <4>3
    <3>3. \A k \in 1 .. m + 1 : q[g[k]] \in S
      <4>1. \A k \in 1 .. m : q[f[k]] \in S
        BY <2>1 DEF Picks
      <4>2. \A k \in 1 .. m + 1 : k = m + 1 \/ k \in 1 .. m
        BY <2>2
      <4> QED BY <2>4, <3>1, <4>1, <4>2
    <3>4. \A i \in 1 .. n + 1 : q[i] \in S => \E k \in 1 .. m + 1 : g[k] = i
      <4> SUFFICES ASSUME NEW i \in 1 .. n + 1, q[i] \in S PROVE \E k \in 1 .. m + 1 : g[k] = i
        OBVIOUS
      <4>1. CASE i = n + 1
        BY <2>2, <3>1, <4>1
      <4>2. CASE i \in 1 .. n
        BY <2>1, <2>2, <3>1, <4>2 DEF Picks
      <4> QED BY <2>2, <4>1, <4>2
    <3>5. kept[n + 1] = [k \in 1 .. m + 1 |-> q[g[k]]]
      <4> DEFINE w == [k \in 1 .. m |-> q[f[k]]]
      <4>1. kept[n + 1] = Append(w, q[n + 1])
        BY <2>1, <2>3, <2>4
      <4>2. w \in Seq(T) /\ Len(w) = m
        BY <1>1, <2>2
      <4>3. \A k \in 1 .. m : w[k] = q[f[k]]
        OBVIOUS
      <4> HIDE DEF w
      <4>4. Append(w, q[n + 1]) = [k \in 1 .. m + 1 |-> IF k = m + 1 THEN q[n + 1] ELSE w[k]]
        BY <1>1, <2>2, <4>2
      <4>5. \A k \in 1 .. m + 1 : q[g[k]] = IF k = m + 1 THEN q[n + 1] ELSE w[k]
        BY <2>2, <3>1, <4>3
      <4> QED BY <4>1, <4>4, <4>5
    <3>6. Kept(n + 1, m + 1, g)
      BY <2>2, <3>1, <3>2, <3>3, <3>4, <3>5 DEF Picks
    <3> HIDE DEF Kept
    <3> QED BY <2>2, <3>6
  <2>5. CASE q[n + 1] \notin S
    <3>1. f \in [1 .. m -> 1 .. n + 1]
      BY <2>2
    <3>2. \A i \in 1 .. n + 1 : q[i] \in S => i \in 1 .. n
      BY <2>2, <2>5
    <3>3. Picks(q, S, n + 1, m, f)
      BY <2>1, <3>1, <3>2 DEF Picks
    <3>4. Kept(n + 1, m, f)
      BY <2>1, <2>3, <2>5, <3>3
    <3> HIDE DEF Kept
    <3> QED BY <2>2, <3>4
  <2> QED BY <2>4, <2>5
<1>6. Len(q) \in Good
  <2>1. 0 .. Len(q) \subseteq Good
    <3> HIDE DEF Good
    <3> QED BY <1>1, <1>4, <1>5, UpTo
  <2> HIDE DEF Good
  <2> QED BY <1>1, <2>1
<1>7. PICK m, f : Kept(Len(q), m, f)
  BY <1>6
<1>8. IsPicked(q, S, m, f)
  BY <1>2, <1>7 DEF IsPicked
<1> QED BY <1>8

\* What Where returns, and which entries are in it.
LEMMA WhereProperties ==
    ASSUME NEW T, NEW q \in Seq(T), NEW S
    PROVE  /\ Where(q, S) \in Seq(T)
           /\ ToSet(Where(q, S)) = ToSet(q) \cap S
<1>a. PICK m, f : IsPicked(q, S, m, f)
  BY WherePicks
<1>1. Picks(q, S, Len(q), m, f) /\ Where(q, S) = [k \in 1 .. m |-> q[f[k]]]
  BY <1>a DEF IsPicked
<1>2. m \in Nat /\ f \in [1 .. m -> 1 .. Len(q)] /\ Len(q) \in Nat /\ DOMAIN q = 1 .. Len(q)
  BY <1>1 DEF Picks
<1>3. \A k \in 1 .. m : q[f[k]] \in T
  BY <1>2
<1>4. Where(q, S) \in Seq(T)
  BY <1>1, <1>2, <1>3
<1>5. ASSUME NEW x \in ToSet(Where(q, S)) PROVE x \in ToSet(q) \cap S
  BY <1>1, <1>2 DEF ToSet, Picks
<1>6. ASSUME NEW x \in ToSet(q) \cap S PROVE x \in ToSet(Where(q, S))
  <2>1. PICK i \in 1 .. Len(q) : q[i] = x
    BY <1>2 DEF ToSet
  <2>2. PICK k \in 1 .. m : f[k] = i
    BY <1>1, <2>1 DEF Picks
  <2> QED BY <1>1, <2>1, <2>2 DEF ToSet
<1> QED BY <1>4, <1>5, <1>6

\* The steps of Where, one entry after the other.
Steps(q, S, T, kept) ==
    /\ kept[0] = <<>> /\ Where(q, S) = kept[Len(q)]
    /\ \A n \in 0 .. Len(q) : kept[n] \in Seq(T)
    /\ \A n \in 0 .. Len(q) - 1 :
         kept[n + 1] = IF q[n + 1] \in S THEN Append(kept[n], q[n + 1]) ELSE kept[n]

LEMMA WhereSteps ==
    ASSUME NEW T, NEW q \in Seq(T), NEW S
    PROVE  \E kept : Steps(q, S, T, kept)
<1>1. Len(q) \in Nat /\ \A n \in 1 .. Len(q) : q[n] \in T
  OBVIOUS
<1>2. PICK kept : Keeps(q, S, Len(q), kept) /\ Where(q, S) = kept[Len(q)]
  BY <1>1, WhereUnfolds
<1>3. \A n \in 0 .. Len(q) : kept[n] = KeptAt(q, S, kept, n)
  BY <1>2 DEF Keeps
<1>4. kept[0] = <<>>
  BY <1>1, <1>3 DEF KeptAt
<1>5. ASSUME NEW n \in 0 .. Len(q) - 1
      PROVE  kept[n + 1] = IF q[n + 1] \in S THEN Append(kept[n], q[n + 1]) ELSE kept[n]
  <2>1. n + 1 \in 0 .. Len(q) /\ n + 1 # 0 /\ (n + 1) - 1 = n
    BY <1>1
  <2> QED BY <1>3, <2>1 DEF KeptAt
<1> DEFINE Good == {n \in 0 .. Len(q) : kept[n] \in Seq(T)}
<1>6. 0 \in Good
  <2>1. <<>> \in Seq(T) /\ 0 \in 0 .. Len(q)
    BY <1>1
  <2>2. kept[0] \in Seq(T)
    BY <1>4, <2>1
  <2> QED BY <2>1, <2>2
<1>7. ASSUME NEW n \in 0 .. Len(q) - 1, n \in Good PROVE n + 1 \in Good
  <2>1. n + 1 \in 0 .. Len(q) /\ q[n + 1] \in T /\ kept[n] \in Seq(T)
    BY <1>1, <1>7
  <2>2. Append(kept[n], q[n + 1]) \in Seq(T)
    BY <2>1
  <2> QED BY <1>5, <2>1, <2>2
<1>8. \A n \in 0 .. Len(q) : kept[n] \in Seq(T)
  <2>1. 0 .. Len(q) \subseteq Good
    <3> HIDE DEF Good
    <3> QED BY <1>1, <1>6, <1>7, UpTo
  <2> QED BY <2>1
<1>9. Steps(q, S, T, kept)
  BY <1>2, <1>4, <1>5, <1>8 DEF Steps
<1> QED BY <1>9

LEMMA WhereNothing == ASSUME NEW S PROVE Where(<<>>, S) = <<>>
<1>1. <<>> \in Seq({}) /\ Len(<<>>) = 0
  OBVIOUS
<1>2. PICK kept : Steps(<<>>, S, {}, kept)
  BY <1>1, WhereSteps
<1> QED BY <1>1, <1>2 DEF Steps

\* Where looks at the entries only.
LEMMA WhereSame ==
    ASSUME NEW T, NEW q \in Seq(T), NEW S, NEW S2, ToSet(q) \cap S = ToSet(q) \cap S2
    PROVE  Where(q, S) = Where(q, S2)
<1>1. Len(q) \in Nat /\ \A n \in 1 .. Len(q) : q[n] \in S <=> q[n] \in S2
  BY DEF ToSet
<1>2. PICK k : Steps(q, S, T, k)
  BY WhereSteps
<1>3. PICK k2 : Steps(q, S2, T, k2)
  BY WhereSteps
<1> DEFINE Good == {n \in 0 .. Len(q) : k[n] = k2[n]}
<1>4. 0 \in Good
  BY <1>1, <1>2, <1>3 DEF Steps
<1>5. ASSUME NEW n \in 0 .. Len(q) - 1, n \in Good PROVE n + 1 \in Good
  <2>1. n + 1 \in 1 .. Len(q) /\ n + 1 \in 0 .. Len(q)
    BY <1>1
  <2>2. k[n] = k2[n] /\ (q[n + 1] \in S <=> q[n + 1] \in S2)
    BY <1>1, <1>5, <2>1
  <2>3. /\ k[n + 1] = IF q[n + 1] \in S THEN Append(k[n], q[n + 1]) ELSE k[n]
        /\ k2[n + 1] = IF q[n + 1] \in S2 THEN Append(k2[n], q[n + 1]) ELSE k2[n]
    BY <1>2, <1>3 DEF Steps
  <2>4. k[n + 1] = k2[n + 1]
    BY <2>2, <2>3
  <2> QED BY <2>1, <2>4
<1>6. 0 .. Len(q) \subseteq Good
  <2> HIDE DEF Good
  <2> QED BY <1>1, <1>4, <1>5, UpTo
<1> QED BY <1>1, <1>2, <1>3, <1>6 DEF Steps

\* All entries, or none.
LEMMA WhereAll ==
    ASSUME NEW T, NEW q \in Seq(T), NEW S, ToSet(q) \subseteq S
    PROVE  Where(q, S) = q
<1>1. Len(q) \in Nat /\ \A n \in 1 .. Len(q) : q[n] \in S /\ q[n] \in T
  BY DEF ToSet
<1>2. PICK k : Steps(q, S, T, k)
  BY WhereSteps
<1> DEFINE Good == {n \in 0 .. Len(q) : k[n] = SubSeq(q, 1, n)}
<1>3. 0 \in Good
  <2>1. SubSeq(q, 1, 0) = <<>>
    OBVIOUS
  <2>2. k[0] = SubSeq(q, 1, 0) /\ 0 \in 0 .. Len(q)
    BY <1>1, <1>2, <2>1 DEF Steps
  <2> HIDE DEF Good
  <2> QED BY <2>2 DEF Good
<1>4. ASSUME NEW n \in 0 .. Len(q) - 1, n \in Good PROVE n + 1 \in Good
  <2>1. n + 1 \in 1 .. Len(q) /\ n + 1 \in 0 .. Len(q) /\ n \in Nat
    BY <1>1
  <2>2. k[n + 1] = Append(SubSeq(q, 1, n), q[n + 1])
    BY <1>1, <1>2, <1>4, <2>1 DEF Steps
  <2>3. Append(SubSeq(q, 1, n), q[n + 1]) = SubSeq(q, 1, n + 1)
    <3>1. SubSeq(q, 1, n) = [i \in 1 .. n |-> q[i]] /\ SubSeq(q, 1, n) \in Seq(T)
      BY <1>1, <2>1
    <3>2. Len(SubSeq(q, 1, n)) = n
      BY <1>1, <2>1
    <3>3. Append(SubSeq(q, 1, n), q[n + 1]) = [i \in 1 .. n + 1 |-> IF i = n + 1 THEN q[n + 1] ELSE q[i]]
      BY <2>1, <3>1, <3>2
    <3>4. SubSeq(q, 1, n + 1) = [i \in 1 .. n + 1 |-> q[i]]
      BY <1>1, <2>1
    <3> QED BY <2>1, <3>3, <3>4
  <2> QED BY <2>1, <2>2, <2>3
<1>5. 0 .. Len(q) \subseteq Good
  <2> HIDE DEF Good
  <2> QED BY <1>1, <1>3, <1>4, UpTo
<1>6. SubSeq(q, 1, Len(q)) = q
  OBVIOUS
<1>7. k[Len(q)] = SubSeq(q, 1, Len(q))
  <2>1. Len(q) \in 0 .. Len(q)
    BY <1>1
  <2> QED BY <1>5, <2>1
<1>8. Where(q, S) = k[Len(q)]
  BY <1>2 DEF Steps
<1> QED BY <1>6, <1>7, <1>8

LEMMA WhereNone ==
    ASSUME NEW T, NEW q \in Seq(T), NEW S, ToSet(q) \cap S = {}
    PROVE  Where(q, S) = <<>>
<1>1. Where(q, S) \in Seq(T) /\ ToSet(Where(q, S)) = {}
  BY WhereProperties
<1>2. \A x \in Seq(T) : x # <<>> => x[1] \in ToSet(x)
  BY DEF ToSet
<1> QED BY <1>1, <1>2

\* Two sequences that are joined.
LEMMA JoinedAt ==
    ASSUME NEW T, NEW a \in Seq(T), NEW b \in Seq(T)
    PROVE  /\ a \o b \in Seq(T) /\ Len(a \o b) = Len(a) + Len(b)
           /\ \A i \in 1 .. Len(a) : (a \o b)[i] = a[i]
           /\ \A i \in 1 .. Len(b) : (a \o b)[Len(a) + i] = b[i]
           /\ a \o <<>> = a /\ <<>> \o a = a
OBVIOUS

\* An entry can be appended before or after they are joined.
Appends(a, b, x) == Append(a \o b, x) = a \o Append(b, x)

LEMMA JoinAppend ==
    ASSUME NEW T, NEW a \in Seq(T), NEW b \in Seq(T), NEW x \in T
    PROVE  Appends(a, b, x)
<1> DEFINE p == a \o b
           c == Append(b, x)
           d == Append(p, x)
           e == a \o c
<1>1. /\ p \in Seq(T) /\ Len(p) = Len(a) + Len(b) /\ Len(a) \in Nat /\ Len(b) \in Nat
      /\ \A i \in 1 .. Len(a) : p[i] = a[i]
      /\ \A i \in 1 .. Len(b) : p[Len(a) + i] = b[i]
  BY JoinedAt
<1>2. /\ c \in Seq(T) /\ Len(c) = Len(b) + 1 /\ c[Len(b) + 1] = x
      /\ \A i \in 1 .. Len(b) : c[i] = b[i]
  OBVIOUS
<1> HIDE DEF p, c
<1>3. /\ d \in Seq(T) /\ Len(d) = Len(p) + 1 /\ d[Len(p) + 1] = x
      /\ \A i \in 1 .. Len(p) : d[i] = p[i]
  BY <1>1
<1>4. /\ e \in Seq(T) /\ Len(e) = Len(a) + Len(c)
      /\ \A i \in 1 .. Len(a) : e[i] = a[i]
      /\ \A i \in 1 .. Len(c) : e[Len(a) + i] = c[i]
  <2>1. PICK y \in Seq(T) : y = c
    BY <1>2
  <2>2. /\ a \o y \in Seq(T) /\ Len(a \o y) = Len(a) + Len(y)
        /\ \A i \in 1 .. Len(a) : (a \o y)[i] = a[i]
        /\ \A i \in 1 .. Len(y) : (a \o y)[Len(a) + i] = y[i]
    BY <2>1, JoinedAt
  <2>3. e = a \o y
    BY <2>1
  <2> HIDE DEF e
  <2> QED BY <2>1, <2>2, <2>3
<1> HIDE DEF d, e
<1>5. ASSUME NEW i \in 1 .. Len(d) PROVE d[i] = e[i]
  <2>1. CASE i <= Len(a)
    <3>1. i \in 1 .. Len(a) /\ i \in 1 .. Len(p)
      BY <1>1, <1>3, <2>1
    <3> QED BY <1>1, <1>3, <1>4, <3>1
  <2>2. CASE ~(i <= Len(a))
    <3>1. PICK j \in 1 .. Len(c) : i = Len(a) + j
      <4>1. i - Len(a) \in 1 .. Len(c) /\ i = Len(a) + (i - Len(a))
        BY <1>1, <1>2, <1>3, <2>2
      <4> QED BY <4>1
    <3>2. e[i] = c[j]
      BY <1>4, <3>1
    <3>3. CASE j \in 1 .. Len(b)
      <4>1. i \in 1 .. Len(p)
        BY <1>1, <3>1, <3>3
      <4> QED BY <1>1, <1>2, <1>3, <3>1, <3>2, <3>3, <4>1
    <3>4. CASE j = Len(b) + 1
      <4>1. i = Len(p) + 1
        BY <1>1, <3>1, <3>4
      <4> QED BY <1>2, <1>3, <3>2, <3>4, <4>1
    <3> QED BY <1>1, <1>2, <3>3, <3>4
  <2> QED BY <2>1, <2>2
<1>6. Len(d) = Len(e)
  BY <1>1, <1>2, <1>3, <1>4
<1>7. d = e
  BY <1>3, <1>4, <1>5, <1>6, SeqEqual
<1> QED BY <1>7 DEF p, c, d, e, Appends

\* Where takes two sequences that are joined one after the other.
WhereJoins(a, b, S) == Where(a \o b, S) = Where(a, S) \o Where(b, S)

LEMMA WhereJoin ==
    ASSUME NEW T, NEW a \in Seq(T), NEW b \in Seq(T), NEW S
    PROVE  WhereJoins(a, b, S)
<1> DEFINE q == a \o b
<1>1. /\ Len(a) \in Nat /\ Len(b) \in Nat /\ q \in Seq(T) /\ Len(q) = Len(a) + Len(b)
      /\ \A i \in 1 .. Len(a) : q[i] = a[i]
      /\ \A i \in 1 .. Len(b) : q[Len(a) + i] = b[i] /\ b[i] \in T
  OBVIOUS
<1> HIDE DEF q
<1>2. PICK k : Steps(a, S, T, k)
  BY WhereSteps
<1>3. PICK l : Steps(b, S, T, l)
  BY WhereSteps
<1>4. PICK m : Steps(q, S, T, m)
  BY <1>1, WhereSteps
<1> DEFINE First == {n \in 0 .. Len(a) : m[n] = k[n]}
           Second == {n \in 0 .. Len(b) : m[Len(a) + n] = k[Len(a)] \o l[n]}
<1>5. Len(a) \in First
  <2>1. 0 \in First
    BY <1>1, <1>2, <1>4 DEF Steps
  <2>2. ASSUME NEW n \in 0 .. Len(a) - 1, n \in First PROVE n + 1 \in First
    <3>1. n \in 0 .. Len(q) - 1 /\ n + 1 \in 1 .. Len(a) /\ n + 1 \in 0 .. Len(a)
      BY <1>1
    <3>2. m[n + 1] = IF q[n + 1] \in S THEN Append(m[n], q[n + 1]) ELSE m[n]
      BY <1>4, <3>1 DEF Steps
    <3>3. k[n + 1] = IF a[n + 1] \in S THEN Append(k[n], a[n + 1]) ELSE k[n]
      BY <1>2 DEF Steps
    <3> QED BY <1>1, <2>2, <3>1, <3>2, <3>3
  <2>3. 0 .. Len(a) \subseteq First
    <3> HIDE DEF First
    <3> QED BY <1>1, <2>1, <2>2, UpTo
  <2> HIDE DEF First
  <2> QED BY <1>1, <2>3
<1>6. k[Len(a)] \in Seq(T)
  BY <1>1, <1>2 DEF Steps
<1>7. Len(b) \in Second
  <2>1. 0 \in Second
    <3>1. k[Len(a)] \o <<>> = k[Len(a)]
      <4>1. PICK x \in Seq(T) : x = k[Len(a)]
        BY <1>6
      <4>2. x \o <<>> = x
        BY <4>1, JoinedAt
      <4> QED BY <4>1, <4>2
    <3>2. m[Len(a)] = k[Len(a)] /\ l[0] = <<>>
      BY <1>3, <1>5 DEF Steps
    <3>3. Len(a) + 0 = Len(a) /\ 0 \in 0 .. Len(b)
      BY <1>1
    <3> QED BY <3>1, <3>2, <3>3
  <2>2. ASSUME NEW n \in 0 .. Len(b) - 1, n \in Second PROVE n + 1 \in Second
    <3>1. Len(a) + n \in 0 .. Len(q) - 1 /\ n + 1 \in 1 .. Len(b) /\ n + 1 \in 0 .. Len(b)
          /\ (Len(a) + n) + 1 = Len(a) + (n + 1)
      BY <1>1
    <3>2. m[Len(a) + (n + 1)] = IF q[Len(a) + (n + 1)] \in S THEN Append(m[Len(a) + n], q[Len(a) + (n + 1)])
                                ELSE m[Len(a) + n]
      BY <1>4, <3>1 DEF Steps
    <3>3. q[Len(a) + (n + 1)] = b[n + 1] /\ b[n + 1] \in T
      BY <1>1, <3>1
    <3>4. l[n + 1] = IF b[n + 1] \in S THEN Append(l[n], b[n + 1]) ELSE l[n]
      BY <1>3 DEF Steps
    <3>5. l[n] \in Seq(T) /\ m[Len(a) + n] = k[Len(a)] \o l[n]
      BY <1>1, <1>3, <2>2 DEF Steps
    <3>6. Append(k[Len(a)] \o l[n], b[n + 1]) = k[Len(a)] \o Append(l[n], b[n + 1])
      <4>1. PICK x \in Seq(T), y \in Seq(T), z \in T : x = k[Len(a)] /\ y = l[n] /\ z = b[n + 1]
        BY <1>6, <3>3, <3>5
      <4>2. Appends(x, y, z)
        BY <4>1, JoinAppend
      <4> QED BY <4>1, <4>2 DEF Appends
    <3>7. m[Len(a) + (n + 1)] = k[Len(a)] \o l[n + 1]
      BY <3>2, <3>3, <3>4, <3>5, <3>6
    <3> QED BY <3>1, <3>7
  <2>3. 0 .. Len(b) \subseteq Second
    <3> HIDE DEF Second
    <3> QED BY <1>1, <2>1, <2>2, UpTo
  <2> HIDE DEF Second
  <2> QED BY <1>1, <2>3
<1>8. Where(q, S) = k[Len(a)] \o l[Len(b)]
  BY <1>1, <1>4, <1>7 DEF Steps
<1> QED BY <1>2, <1>3, <1>8 DEF q, Steps, WhereJoins

\* The entries of two sequences that are joined.
LEMMA JoinedSets ==
    ASSUME NEW T, NEW a \in Seq(T), NEW b \in Seq(T)
    PROVE  ToSet(a \o b) = ToSet(a) \cup ToSet(b)
<1>1. /\ Len(a) \in Nat /\ Len(b) \in Nat /\ DOMAIN a = 1 .. Len(a) /\ DOMAIN b = 1 .. Len(b)
      /\ DOMAIN (a \o b) = 1 .. Len(a) + Len(b)
      /\ \A i \in 1 .. Len(a) + Len(b) : (a \o b)[i] = IF i <= Len(a) THEN a[i] ELSE b[i - Len(a)]
  OBVIOUS
<1>2. ASSUME NEW x \in ToSet(a \o b) PROVE x \in ToSet(a) \cup ToSet(b)
  <2>1. PICK i \in 1 .. Len(a) + Len(b) : (a \o b)[i] = x
    BY <1>1 DEF ToSet
  <2>2. CASE i <= Len(a)
    <3>1. i \in DOMAIN a /\ a[i] = x
      BY <1>1, <2>1, <2>2
    <3> QED BY <3>1 DEF ToSet
  <2>3. CASE ~(i <= Len(a))
    <3>1. i - Len(a) \in DOMAIN b /\ b[i - Len(a)] = x
      BY <1>1, <2>1, <2>3
    <3> QED BY <3>1 DEF ToSet
  <2> QED BY <2>2, <2>3
<1>3. ASSUME NEW x \in ToSet(a) PROVE x \in ToSet(a \o b)
  <2>1. PICK i \in DOMAIN a : a[i] = x
    BY <1>3 DEF ToSet
  <2>2. i \in DOMAIN (a \o b) /\ (a \o b)[i] = x
    BY <1>1, <2>1
  <2> QED BY <2>2 DEF ToSet
<1>4. ASSUME NEW x \in ToSet(b) PROVE x \in ToSet(a \o b)
  <2>1. PICK i \in DOMAIN b : b[i] = x
    BY <1>4 DEF ToSet
  <2>2. Len(a) + i \in DOMAIN (a \o b) /\ (a \o b)[Len(a) + i] = x
    BY <1>1, <2>1
  <2> QED BY <2>2 DEF ToSet
<1> QED BY <1>2, <1>3, <1>4

\* What FlattenSeq makes of the first sequences, by their number.
JoinAt(ss, flat, n) == IF n = 1 THEN ss[n] ELSE flat[n - 1] \o ss[n]

Joins(ss, m, flat) == flat = [n \in 1 .. m |-> JoinAt(ss, flat, n)]

LEMMA FlattenUnfolds ==
    ASSUME NEW ss, Len(ss) \in Nat, Len(ss) # 0
    PROVE  \E flat : Joins(ss, Len(ss), flat) /\ FlattenSeq(ss) = flat[Len(ss)]
<1> DEFINE Good == {n \in 0 .. Len(ss) : \E flat : Joins(ss, n, flat)}
<1>1. 0 \in Good
  <2> DEFINE f == [i \in 1 .. 0 |-> <<>>]
  <2>1. Joins(ss, 0, f)
    BY DEF Joins
  <2> QED BY <2>1
<1>2. ASSUME NEW n \in 0 .. Len(ss) - 1, n \in Good PROVE n + 1 \in Good
  <2>1. PICK g : Joins(ss, n, g)
    BY <1>2
  <2> DEFINE f == [i \in 1 .. n + 1 |-> IF i <= n THEN g[i] ELSE JoinAt(ss, g, i)]
  <2>2. \A i \in 1 .. n + 1 : f[i] = JoinAt(ss, g, i)
    <3>1. \A i \in 1 .. n : g[i] = JoinAt(ss, g, i)
      BY <2>1 DEF Joins
    <3> QED BY <3>1
  <2>3. \A i \in 1 .. n + 1 : JoinAt(ss, f, i) = JoinAt(ss, g, i)
    <3>1. \A i \in 1 .. n + 1 : i # 1 => f[i - 1] = g[i - 1]
      OBVIOUS
    <3> HIDE DEF f
    <3> QED BY <3>1 DEF JoinAt
  <2>4. f = [i \in 1 .. n + 1 |-> f[i]]
    OBVIOUS
  <2> HIDE DEF f
  <2>5. Joins(ss, n + 1, f)
    BY <2>2, <2>3, <2>4 DEF Joins
  <2> QED BY <2>5
<1>3. Len(ss) \in Good
  <2>1. 0 .. Len(ss) \subseteq Good
    <3> HIDE DEF Good
    <3> QED BY <1>1, <1>2, UpTo
  <2> HIDE DEF Good
  <2> QED BY <2>1
<1> DEFINE IsFlat(flat) == flat = [n \in 1 .. Len(ss) |->
                               IF n = 1 THEN ss[n] ELSE flat[n - 1] \o ss[n]]
           f == CHOOSE flat : IsFlat(flat)
<1>4. IsFlat(f)
  <2>1. \E flat : IsFlat(flat)
    BY <1>3 DEF Joins, JoinAt
  <2> HIDE DEF IsFlat
  <2> QED BY <2>1
<1>5. FlattenSeq(ss) = f[Len(ss)]
  BY DEF FlattenSeq
<1> QED BY <1>4, <1>5 DEF Joins, JoinAt

\* What FlattenSeq returns, and which entries are in it.
LEMMA FlattenProperties ==
    ASSUME NEW T, NEW ss \in Seq(Seq(T))
    PROVE  /\ FlattenSeq(ss) \in Seq(T)
           /\ ToSet(FlattenSeq(ss)) = UNION {ToSet(ss[k]) : k \in DOMAIN ss}
<1>1. Len(ss) \in Nat /\ DOMAIN ss = 1 .. Len(ss) /\ \A k \in DOMAIN ss : ss[k] \in Seq(T)
  OBVIOUS
<1>2. CASE Len(ss) = 0
  <2>1. ss = <<>> /\ DOMAIN ss = {}
    BY <1>2
  <2>2. FlattenSeq(ss) = <<>>
    BY <1>2, <2>1 DEF FlattenSeq
  <2>3. ToSet(FlattenSeq(ss)) = {}
    BY <2>2 DEF ToSet
  <2>4. {ToSet(ss[k]) : k \in DOMAIN ss} = {}
    BY <2>1
  <2>5. UNION {ToSet(ss[k]) : k \in DOMAIN ss} = {}
    BY <2>4
  <2> QED BY <2>2, <2>3, <2>5
<1>3. CASE Len(ss) # 0
  <2>1. PICK flat : Joins(ss, Len(ss), flat) /\ FlattenSeq(ss) = flat[Len(ss)]
    BY <1>1, <1>3, FlattenUnfolds
  <2> DEFINE Flat(n) == flat[n] \in Seq(T) /\ ToSet(flat[n]) = UNION {ToSet(ss[k]) : k \in 1 .. n}
             Good == {0} \cup {n \in 1 .. Len(ss) : Flat(n)}
  <2>2. \A n \in 1 .. Len(ss) : flat[n] = JoinAt(ss, flat, n)
    BY <2>1 DEF Joins
  <2>3. ASSUME NEW n \in 0 .. Len(ss) - 1, n \in Good PROVE n + 1 \in Good
    <3>1. n + 1 \in 1 .. Len(ss) /\ ss[n + 1] \in Seq(T)
      BY <1>1
    <3>2. CASE n = 0
      <4>1. flat[1] = ss[1] /\ 1 \in 1 .. Len(ss)
        BY <2>2, <3>1, <3>2 DEF JoinAt
      <4>2. Flat(1)
        BY <1>1, <4>1
      <4> QED BY <3>2, <4>1, <4>2
    <3>3. CASE n # 0
      <4>1. n \in 1 .. Len(ss) /\ Flat(n)
        BY <2>3, <3>3
      <4>2. flat[n + 1] = flat[n] \o ss[n + 1]
        <5>1. flat[n + 1] = JoinAt(ss, flat, n + 1) /\ n + 1 # 1 /\ (n + 1) - 1 = n
          BY <1>1, <2>2, <3>1, <3>3
        <5> QED BY <5>1 DEF JoinAt
      <4>3. ToSet(flat[n + 1]) = ToSet(flat[n]) \cup ToSet(ss[n + 1])
        BY <3>1, <4>1, <4>2, JoinedSets
      <4>4. {ToSet(ss[k]) : k \in 1 .. n + 1} = {ToSet(ss[k]) : k \in 1 .. n} \cup {ToSet(ss[n + 1])}
        <5> HIDE DEF Good
        <5>1. 1 .. n + 1 = (1 .. n) \cup {n + 1}
          BY <1>1
        <5> QED BY <5>1
      <4>5. UNION {ToSet(ss[k]) : k \in 1 .. n + 1}
            = (UNION {ToSet(ss[k]) : k \in 1 .. n}) \cup ToSet(ss[n + 1])
        <5> HIDE DEF Good
        <5> QED BY <4>4
      <4>6. flat[n + 1] \in Seq(T)
        BY <3>1, <4>1, <4>2
      <4>7. Flat(n + 1)
        BY <4>1, <4>3, <4>5, <4>6
      <4> QED BY <3>1, <4>7
    <3> QED BY <3>2, <3>3
  <2>4. Len(ss) \in Good
    <3>1. 0 .. Len(ss) \subseteq Good
      <4> HIDE DEF Good
      <4>1. 0 \in Good
        BY DEF Good
      <4> QED BY <1>1, <2>3, <4>1, UpTo
    <3> HIDE DEF Good
    <3> QED BY <1>1, <3>1
  <2> QED BY <1>1, <1>3, <2>1, <2>4
<1> QED BY <1>2, <1>3

\* Where takes one of the sequences that are flattened, or none of them.
LEMMA WhereFlatten ==
    ASSUME NEW T, NEW ss \in Seq(Seq(T)), NEW S, NEW j \in Nat,
           \A k \in DOMAIN ss : /\ k = j => ToSet(ss[k]) \subseteq S
                                /\ k # j => ToSet(ss[k]) \cap S = {}
    PROVE  Where(FlattenSeq(ss), S) = IF j \in DOMAIN ss THEN ss[j] ELSE <<>>
<1>1. Len(ss) \in Nat /\ DOMAIN ss = 1 .. Len(ss) /\ \A k \in DOMAIN ss : ss[k] \in Seq(T)
  OBVIOUS
<1>2. \A k \in DOMAIN ss : Where(ss[k], S) = IF k = j THEN ss[k] ELSE <<>>
  BY <1>1, WhereAll, WhereNone
<1>3. CASE Len(ss) = 0
  <2>1. ss = <<>> /\ DOMAIN ss = {}
    BY <1>3
  <2>2. FlattenSeq(ss) = <<>>
    BY <1>3, <2>1 DEF FlattenSeq
  <2> QED BY <2>1, <2>2, WhereNothing
<1>4. CASE Len(ss) # 0
  <2>1. PICK flat : Joins(ss, Len(ss), flat) /\ FlattenSeq(ss) = flat[Len(ss)]
    BY <1>1, <1>4, FlattenUnfolds
  <2>2. \A n \in 1 .. Len(ss) : flat[n] = JoinAt(ss, flat, n)
    BY <2>1 DEF Joins
  <2> DEFINE Upto(n) == flat[n] \in Seq(T) /\ Where(flat[n], S) = IF j \in 1 .. n THEN ss[j] ELSE <<>>
             Good == {0} \cup {n \in 1 .. Len(ss) : Upto(n)}
  <2>3. ASSUME NEW n \in 0 .. Len(ss) - 1, n \in Good PROVE n + 1 \in Good
    <3>1. n \in Nat /\ n + 1 \in 1 .. Len(ss) /\ n + 1 \in DOMAIN ss /\ ss[n + 1] \in Seq(T)
      BY <1>1
    <3>2. CASE n = 0
      <4>1. flat[1] = ss[1]
        BY <2>2, <3>1, <3>2 DEF JoinAt
      <4>2. Where(ss[1], S) = IF 1 = j THEN ss[1] ELSE <<>>
        BY <1>2, <3>1, <3>2
      <4>3. j \in 1 .. 1 <=> j = 1
        OBVIOUS
      <4>4. Upto(1)
        BY <3>1, <3>2, <4>1, <4>2, <4>3
      <4> HIDE DEF Upto
      <4> QED BY <3>1, <3>2, <4>4
    <3>3. CASE n # 0
      <4>1. n \in 1 .. Len(ss) /\ Upto(n)
        BY <2>3, <3>3
      <4>2. flat[n + 1] = flat[n] \o ss[n + 1]
        <5>1. flat[n + 1] = JoinAt(ss, flat, n + 1) /\ n + 1 # 1 /\ (n + 1) - 1 = n
          BY <1>1, <2>2, <3>1, <3>3
        <5> QED BY <5>1 DEF JoinAt
      <4> DEFINE a == flat[n]
                 b == ss[n + 1]
      <4>3. a \in Seq(T) /\ b \in Seq(T) /\ Where(b, S) = IF n + 1 = j THEN b ELSE <<>>
        BY <1>2, <3>1, <4>1
      <4>4. Where(a, S) = IF j \in 1 .. n THEN ss[j] ELSE <<>>
        BY <4>1
      <4>5. flat[n + 1] = a \o b /\ b = ss[n + 1]
        BY <4>2
      <4> HIDE DEF a, b, Upto
      <4>6. Where(a \o b, S) = Where(a, S) \o Where(b, S) /\ a \o b \in Seq(T)
        <5>1. a \o b \in Seq(T)
          BY <4>3
        <5>2. WhereJoins(a, b, S)
          BY <4>3, WhereJoin
        <5> QED BY <5>1, <5>2 DEF WhereJoins
      <4>7. Where(a \o b, S) = IF j \in 1 .. n + 1 THEN ss[j] ELSE <<>>
        <5>1. CASE j \in 1 .. n
          <6>1. j \in 1 .. n + 1 /\ j # n + 1 /\ ss[j] \in Seq(T)
            BY <1>1, <3>1, <5>1
          <6>2. Where(a, S) = ss[j] /\ Where(b, S) = <<>>
            BY <4>3, <4>4, <5>1, <6>1
          <6>3. ss[j] \o <<>> = ss[j]
            BY <6>1
          <6> QED BY <4>6, <6>1, <6>2, <6>3
        <5>2. CASE j = n + 1
          <6>1. j \in 1 .. n + 1 /\ j \notin 1 .. n
            BY <3>1, <5>2
          <6>2. Where(a, S) = <<>> /\ Where(b, S) = b
            BY <4>3, <4>4, <5>2, <6>1
          <6>3. <<>> \o b = b
            BY <4>3
          <6> QED BY <4>5, <4>6, <5>2, <6>1, <6>2, <6>3
        <5>3. CASE j \notin 1 .. n + 1
          <6>1. j \notin 1 .. n /\ j # n + 1
            BY <3>1, <5>3
          <6>2. Where(a, S) = <<>> /\ Where(b, S) = <<>>
            BY <4>3, <4>4, <6>1
          <6>3. <<>> \o <<>> = <<>>
            OBVIOUS
          <6> QED BY <4>6, <5>3, <6>2, <6>3
        <5> QED BY <3>1, <5>1, <5>2, <5>3
      <4>8. Upto(n + 1)
        BY <4>5, <4>6, <4>7 DEF Upto
      <4> QED BY <3>1, <4>8
    <3> QED BY <3>2, <3>3
  <2>4. Len(ss) \in Good
    <3>1. 0 .. Len(ss) \subseteq Good
      <4> HIDE DEF Good
      <4>1. 0 \in Good
        BY DEF Good
      <4> QED BY <1>1, <2>3, <4>1, UpTo
    <3> HIDE DEF Good
    <3> QED BY <1>1, <3>1
  <2> QED BY <1>1, <1>4, <2>1, <2>4
<1> QED BY <1>3, <1>4

\* Three sequences that are joined.
Associates(a, b, c) == (a \o b) \o c = a \o (b \o c)

LEMMA JoinThree ==
    ASSUME NEW T, NEW a \in Seq(T), NEW b \in Seq(T), NEW c \in Seq(T)
    PROVE  Associates(a, b, c)
BY ConcatAssociative DEF Associates

\* Flattening some empty sequences and then the single entries of a sequence gives it back.
SingleAt(q, d, n) == IF n <= d THEN <<>> ELSE <<q[n - d]>>

LEMMA FlattenSingles ==
    ASSUME NEW T, NEW q \in Seq(T), NEW d \in Nat, NEW ss, ss = [n \in 1 .. d + Len(q) |-> SingleAt(q, d, n)]
    PROVE  FlattenSeq(ss) = q
<1> DEFINE l == d + Len(q)
<1>1. /\ Len(q) \in Nat /\ l \in Nat /\ Len(ss) = l /\ \A k \in 1 .. Len(q) : q[k] \in T
      /\ \A n \in 1 .. l : ss[n] = SingleAt(q, d, n)
  <2>1. Len(q) \in Nat /\ l \in Nat /\ \A k \in 1 .. Len(q) : q[k] \in T
    OBVIOUS
  <2>2. DOMAIN ss = 1 .. l /\ \A n \in 1 .. l : ss[n] = SingleAt(q, d, n)
    OBVIOUS
  <2>3. ss = [n \in 1 .. l |-> ss[n]] /\ \A n \in 1 .. l : ss[n] \in {ss[k] : k \in 1 .. l}
    BY <2>2
  <2>4. Len(ss) = l
    <3> DEFINE V == {ss[k] : k \in 1 .. l}
    <3>1. \A n \in 1 .. l : ss[n] \in V
      OBVIOUS
    <3> HIDE DEF V, l
    <3> QED BY <2>1, <2>2, <2>3, <3>1, IsSequence
  <2> QED BY <2>1, <2>2, <2>4
<1> HIDE DEF l
<1>2. CASE l = 0
  <2>1. q = <<>> /\ ss = <<>>
    BY <1>1, <1>2 DEF l
  <2> QED BY <2>1 DEF FlattenSeq
<1>3. CASE l # 0
  <2>1. PICK flat : Joins(ss, Len(ss), flat) /\ FlattenSeq(ss) = flat[Len(ss)]
    BY <1>1, <1>3, FlattenUnfolds
  <2>2. \A n \in 1 .. l : flat[n] = JoinAt(ss, flat, n)
    BY <1>1, <2>1 DEF Joins
  <2> DEFINE Upto(n) == IF n <= d THEN <<>> ELSE SubSeq(q, 1, n - d)
             Good == {0} \cup {n \in 1 .. l : flat[n] = Upto(n)}
  <2>3. ASSUME NEW n \in 0 .. l - 1, n \in Good PROVE n + 1 \in Good
    <3>1. n \in Nat /\ n + 1 \in 1 .. l /\ (n + 1) - 1 = n /\ (n + 1 # 1 <=> n # 0)
      BY <1>1
    <3>2. ss[n + 1] = SingleAt(q, d, n + 1) /\ flat[n + 1] = IF n = 0 THEN ss[n + 1] ELSE flat[n] \o ss[n + 1]
      BY <1>1, <2>2, <3>1 DEF JoinAt
    <3>3. n # 0 => flat[n] = Upto(n)
      BY <2>3
    <3>4. CASE n + 1 <= d
      <4>1. ss[n + 1] = <<>> /\ Upto(n) = <<>> /\ Upto(n + 1) = <<>>
        BY <3>1, <3>2, <3>4 DEF SingleAt
      <4>2. <<>> \o <<>> = <<>>
        OBVIOUS
      <4>3. flat[n + 1] = Upto(n + 1)
        BY <3>2, <3>3, <4>1, <4>2
      <4> HIDE DEF Upto
      <4> QED BY <3>1, <4>3
    <3>5. CASE ~(n + 1 <= d)
      <4>1. PICK k \in Nat : n = d + k
        <5>1. n - d \in Nat /\ n = d + (n - d)
          BY <3>1, <3>5
        <5> QED BY <5>1
      <4>2. k + 1 \in 1 .. Len(q) /\ (n + 1) - d = k + 1 /\ n - d = k
        BY <1>1, <3>1, <4>1 DEF l
      <4>3. ss[n + 1] = <<q[k + 1]>> /\ Upto(n + 1) = SubSeq(q, 1, k + 1)
        BY <3>2, <3>5, <4>2 DEF SingleAt
      <4>4. Upto(n) = SubSeq(q, 1, k)
        <5>1. SubSeq(q, 1, 0) = <<>>
          OBVIOUS
        <5> QED BY <4>1, <4>2, <5>1
      <4>5. SubSeq(q, 1, k) \o <<q[k + 1]>> = SubSeq(q, 1, k + 1)
        <5>1. SubSeq(q, 1, k) = [i \in 1 .. k |-> q[i]] /\ Len(SubSeq(q, 1, k)) = k /\ SubSeq(q, 1, k) \in Seq(T)
          BY <1>1, <4>2
        <5>2. SubSeq(q, 1, k + 1) = [i \in 1 .. k + 1 |-> q[i]]
          BY <1>1, <4>2
        <5>3. SubSeq(q, 1, k) \o <<q[k + 1]>> = [i \in 1 .. k + 1 |-> IF i <= k THEN q[i] ELSE q[k + 1]]
          BY <1>1, <4>2, <5>1
        <5> QED BY <4>1, <5>2, <5>3
      <4>6. n = 0 => <<q[k + 1]>> = SubSeq(q, 1, k + 1)
        <5>1. <<>> \o <<q[k + 1]>> = <<q[k + 1]>> /\ SubSeq(q, 1, 0) = <<>>
          BY <1>1, <4>2
        <5> QED BY <4>1, <4>5, <5>1
      <4>7. flat[n + 1] = Upto(n + 1)
        <5> HIDE DEF Upto
        <5> QED BY <3>2, <3>3, <4>3, <4>4, <4>5, <4>6
      <4> HIDE DEF Upto
      <4> QED BY <3>1, <4>7
    <3> QED BY <3>4, <3>5
  <2>4. 0 .. l \subseteq Good
    <3> HIDE DEF Good
    <3>1. 0 \in Good
      BY DEF Good
    <3> QED BY <1>1, <2>3, <3>1, UpTo
  <2>5. flat[l] = Upto(l)
    <3>1. l \in Good /\ l # 0
      <4> HIDE DEF Good
      <4> QED BY <1>1, <1>3, <2>4
    <3> HIDE DEF Upto
    <3> QED BY <3>1
  <2>6. Upto(l) = q
    <3>1. l - d = Len(q) /\ (l <= d => Len(q) = 0)
      BY <1>1 DEF l
    <3>2. SubSeq(q, 1, Len(q)) = q /\ (Len(q) = 0 => q = <<>>)
      OBVIOUS
    <3> QED BY <3>1, <3>2
  <2> HIDE DEF Upto
  <2> QED BY <1>1, <2>1, <2>5, <2>6
<1> QED BY <1>2, <1>3

\* The first of the sequences that are flattened can be taken away.
HeadFirst(ss) == FlattenSeq(ss) = Head(ss) \o FlattenSeq(Tail(ss))

LEMMA FlattenTail ==
    ASSUME NEW T, NEW ss \in Seq(Seq(T)), ss # <<>>
    PROVE  HeadFirst(ss)
<1> DEFINE rest == Tail(ss)
           l == Len(rest)
<1>1. /\ l \in Nat /\ Len(ss) = l + 1 /\ rest \in Seq(Seq(T)) /\ Head(ss) = ss[1] /\ ss[1] \in Seq(T)
      /\ \A n \in 1 .. l : rest[n] = ss[n + 1] /\ rest[n] \in Seq(T)
  OBVIOUS
<1> HIDE DEF rest
<1>2. PICK flat : Joins(ss, Len(ss), flat) /\ FlattenSeq(ss) = flat[Len(ss)]
  <2>1. Len(ss) \in Nat /\ Len(ss) # 0
    BY <1>1
  <2> QED BY <2>1, FlattenUnfolds
<1>3. \A n \in 1 .. l + 1 : flat[n] = JoinAt(ss, flat, n)
  BY <1>1, <1>2 DEF Joins
<1>4. flat[1] = ss[1]
  BY <1>1, <1>3 DEF JoinAt
<1>5. CASE l = 0
  <2>1. rest = <<>>
    BY <1>1, <1>5
  <2>2. FlattenSeq(rest) = <<>>
    BY <2>1 DEF FlattenSeq
  <2>3. ss[1] \o <<>> = ss[1]
    <3>1. PICK x \in Seq(T) : x = ss[1]
      BY <1>1
    <3>2. x \o <<>> = x
      BY JoinedAt
    <3> QED BY <3>1, <3>2
  <2>4. FlattenSeq(ss) = ss[1]
    BY <1>1, <1>2, <1>4, <1>5
  <2>5. Head(ss) \o FlattenSeq(rest) = ss[1]
    BY <1>1, <2>2, <2>3
  <2> QED BY <2>4, <2>5 DEF HeadFirst, rest
<1>6. CASE l # 0
  <2>1. PICK flat2 : Joins(rest, Len(rest), flat2) /\ FlattenSeq(rest) = flat2[Len(rest)]
    BY <1>1, <1>6, FlattenUnfolds
  <2>2. \A n \in 1 .. l : flat2[n] = JoinAt(rest, flat2, n)
    BY <2>1 DEF Joins
  <2> DEFINE Upto(n) == flat2[n] \in Seq(T) /\ flat[n + 1] = ss[1] \o flat2[n]
             Good == {0} \cup {n \in 1 .. l : Upto(n)}
  <2> HIDE DEF l
  <2>3. ASSUME NEW n \in 0 .. l - 1, n \in Good PROVE n + 1 \in Good
    <3>1. n \in Nat /\ n + 1 \in 1 .. l /\ (n + 1) - 1 = n /\ (n + 1 # 1 <=> n # 0)
          /\ (n + 1) + 1 \in 1 .. l + 1 /\ (n + 1) + 1 # 1 /\ ((n + 1) + 1) - 1 = n + 1
      BY <1>1
    <3>2. flat[(n + 1) + 1] = flat[n + 1] \o rest[n + 1]
      <4>1. flat[(n + 1) + 1] = flat[n + 1] \o ss[(n + 1) + 1]
        BY <1>3, <3>1 DEF JoinAt
      <4> QED BY <1>1, <3>1, <4>1
    <3>3. flat2[n + 1] = IF n = 0 THEN rest[n + 1] ELSE flat2[n] \o rest[n + 1]
      BY <2>2, <3>1 DEF JoinAt
    <3>4. rest[n + 1] \in Seq(T)
      BY <1>1, <3>1
    <3>5. CASE n = 0
      <4>1. flat[n + 1] = ss[1]
        BY <1>4, <3>5
      <4>2. Upto(n + 1)
        BY <3>2, <3>3, <3>4, <3>5, <4>1
      <4> HIDE DEF Upto
      <4> QED BY <3>1, <4>2
    <3>6. CASE n # 0
      <4>1. Upto(n)
        BY <2>3, <3>6
      <4>2. PICK x \in Seq(T), y \in Seq(T), z \in Seq(T) : x = ss[1] /\ y = flat2[n] /\ z = rest[n + 1]
        BY <1>1, <3>4, <4>1
      <4>3. Associates(x, y, z) /\ y \o z \in Seq(T)
        BY <4>2, JoinThree
      <4>4. flat2[n + 1] = y \o z
        BY <3>3, <3>6, <4>2
      <4>5. flat[(n + 1) + 1] = (x \o y) \o z
        BY <3>2, <4>1, <4>2
      <4>6. Upto(n + 1)
        BY <4>2, <4>3, <4>4, <4>5 DEF Associates
      <4> HIDE DEF Upto
      <4> QED BY <3>1, <4>6
    <3> QED BY <3>5, <3>6
  <2>4. 0 .. l \subseteq Good
    <3> HIDE DEF Good
    <3>1. 0 \in Good
      BY DEF Good
    <3>2. l \in Nat
      BY <1>1
    <3> QED BY <2>3, <3>1, <3>2, UpTo
  <2>5. Upto(l)
    <3>1. l \in Good
      <4> HIDE DEF Good
      <4> QED BY <1>1, <2>4
    <3> HIDE DEF Upto
    <3> QED BY <1>6, <3>1
  <2> QED BY <1>1, <1>2, <2>1, <2>5 DEF HeadFirst, rest, l
<1> QED BY <1>5, <1>6

-----------------------------------------------------------------------------
(* Lemmas about batches, chains and heads. *)

\* The events of a stream in a batch.
LEMMA OfStreamProperties ==
    ASSUME NEW b \in Seq(Events), NEW s
    PROVE  /\ OfStream(b, s) \in Seq(Events)
           /\ ToSet(OfStream(b, s)) = {e \in ToSet(b) : StreamOf[e] = s}
<1> DEFINE S == {e \in Events : StreamOf[e] = s}
<1>1. ToSet(b) \subseteq Events
  BY DEF ToSet
<1>2. OfStream(b, s) = Where(b, S)
  BY DEF OfStream
<1>3. Where(b, S) \in Seq(Events) /\ ToSet(Where(b, S)) = ToSet(b) \cap S
  <2> HIDE DEF S
  <2> QED BY WhereProperties
<1>4. ToSet(b) \cap S = {e \in ToSet(b) : StreamOf[e] = s}
  BY <1>1
<1> QED BY <1>2, <1>3, <1>4

\* The streams of a batch, each of them once.
LEMMA StreamsOfProperties ==
    ASSUME NEW b \in Seq(Events)
    PROVE  /\ StreamsOf(b) \in Seq(Streams)
           /\ \A i \in DOMAIN b : \E k \in DOMAIN StreamsOf(b) : StreamsOf(b)[k] = StreamOf[b[i]]
           /\ \A j, k \in DOMAIN StreamsOf(b) : StreamsOf(b)[j] = StreamsOf(b)[k] => j = k
<1> DEFINE ids == [i \in DOMAIN b |-> i]
           firsts == {i \in DOMAIN b : \A j \in 1 .. i - 1 : StreamOf[b[j]] # StreamOf[b[i]]}
<1>1. Len(b) \in Nat /\ DOMAIN b = 1 .. Len(b) /\ \A i \in DOMAIN b : b[i] \in Events /\ StreamOf[b[i]] \in Streams
  BY FanoutAssumption
<1>2. ids \in Seq(Nat) /\ Len(ids) = Len(b) /\ \A i \in 1 .. Len(b) : ids[i] = i
  BY <1>1
<1>3. PICK m, f : IsPicked(ids, firsts, m, f)
  <2> HIDE DEF ids, firsts
  <2> QED BY <1>2, WherePicks
<1>4. Picks(ids, firsts, Len(b), m, f) /\ Where(ids, firsts) = [k \in 1 .. m |-> ids[f[k]]]
  BY <1>2, <1>3 DEF IsPicked
<1> DEFINE order == Where(ids, firsts)
<1>5. /\ m \in Nat /\ f \in [1 .. m -> 1 .. Len(b)]
      /\ DOMAIN order = 1 .. m /\ \A k \in 1 .. m : order[k] = f[k] /\ f[k] \in firsts
      /\ \A i, j \in 1 .. m : i < j => f[i] < f[j]
      /\ \A i \in firsts : \E k \in 1 .. m : f[k] = i
  <2> HIDE DEF ids, firsts
  <2>1. m \in Nat /\ f \in [1 .. m -> 1 .. Len(b)] /\ \A i, j \in 1 .. m : i < j => f[i] < f[j]
    BY <1>4 DEF Picks
  <2>2. DOMAIN order = 1 .. m /\ \A k \in 1 .. m : order[k] = f[k]
    BY <1>2, <1>4, <2>1
  <2>3. \A k \in 1 .. m : f[k] \in firsts
    BY <1>2, <1>4, <2>1 DEF Picks
  <2>4. firsts \subseteq 1 .. Len(b)
    BY <1>1 DEF firsts
  <2>5. \A i \in firsts : \E k \in 1 .. m : f[k] = i
    BY <1>2, <1>4, <2>4 DEF Picks
  <2> QED BY <2>1, <2>2, <2>3, <2>5
<1>6. StreamsOf(b) = [k \in DOMAIN order |-> StreamOf[b[order[k]]]]
  BY DEF StreamsOf
<1>7. DOMAIN StreamsOf(b) = 1 .. m /\ \A k \in 1 .. m : StreamsOf(b)[k] = StreamOf[b[f[k]]]
  <2> HIDE DEF ids, firsts
  <2> QED BY <1>5, <1>6
<1>8. StreamsOf(b) \in Seq(Streams)
  <2>1. StreamsOf(b) = [k \in 1 .. m |-> StreamsOf(b)[k]]
    BY <1>6, <1>7
  <2>2. \A k \in 1 .. m : StreamsOf(b)[k] \in Streams
    BY <1>1, <1>5, <1>7
  <2> HIDE DEF ids, firsts
  <2> QED BY <1>5, <1>7, <2>1, <2>2, IsSequence
<1>9. ASSUME NEW i \in DOMAIN b PROVE \E k \in DOMAIN StreamsOf(b) : StreamsOf(b)[k] = StreamOf[b[i]]
  <2> DEFINE same == {j \in DOMAIN b : StreamOf[b[j]] = StreamOf[b[i]]}
  <2>1. same \in SUBSET Nat /\ same # {}
    BY <1>1
  <2>2. PICK j \in same : \A n \in same : j <= n
    <3> HIDE DEF same
    <3> QED BY <2>1, Least
  <2>3. \A n \in 1 .. j - 1 : n \in DOMAIN b /\ ~(j <= n)
    BY <1>1, <2>2
  <2>4. j \in firsts
    BY <2>2, <2>3
  <2>5. PICK k \in 1 .. m : f[k] = j
    BY <1>5, <2>4
  <2> QED BY <1>7, <2>2, <2>5
<1>10. ASSUME NEW j \in 1 .. m, NEW k \in 1 .. m, StreamsOf(b)[j] = StreamsOf(b)[k], j < k PROVE FALSE
  <2>1. f[j] \in Nat /\ f[k] \in Nat /\ f[j] >= 1 /\ f[j] < f[k] /\ f[k] \in firsts
    <3> HIDE DEF ids, firsts
    <3>1. f[j] \in 1 .. Len(b) /\ f[k] \in 1 .. Len(b)
      BY <1>5
    <3> QED BY <1>1, <1>5, <1>10, <3>1
  <2>2. f[j] \in 1 .. f[k] - 1
    BY <2>1
  <2>3. StreamOf[b[f[j]]] # StreamOf[b[f[k]]]
    BY <2>1, <2>2
  <2> QED BY <1>7, <1>10, <2>3
<1> QED BY <1>5, <1>7, <1>8, <1>9, <1>10

\* What a hash commits to, heads, and rows.
Entry == [event : Events, seq : Nat]
IsHead(head) == head \in [seq : Nat, hash : Seq(Entry)] /\ Len(head.hash) = head.seq
Row == [event : Events, seq : Nat, hash : Seq(Entry)]
HeadsOk(h) == h \in [Streams -> [seq : Nat, hash : Seq(Entry)]] /\ \A s \in Streams : IsHead(h[s])

\* The hash of the last of some events.
LEMMA HashAfterProperties ==
    ASSUME NEW q \in Seq(Events), NEW head, IsHead(head)
    PROVE  /\ HashAfter(q, head) \in Seq(Entry)
           /\ Len(HashAfter(q, head)) = head.seq + Len(q)
           /\ \A k \in 1 .. head.seq : HashAfter(q, head)[k] = head.hash[k]
           /\ \A k \in 1 .. Len(q) : HashAfter(q, head)[head.seq + k] = [event |-> q[k], seq |-> head.seq + k]
<1> DEFINE E(k) == IF k <= head.seq THEN head.hash[k] ELSE [event |-> q[k - head.seq], seq |-> k]
<1>1. /\ head.seq \in Nat /\ Len(q) \in Nat /\ head.hash \in Seq(Entry) /\ Len(head.hash) = head.seq
      /\ \A k \in 1 .. head.seq : head.hash[k] \in Entry
      /\ \A k \in 1 .. Len(q) : q[k] \in Events
  BY DEF IsHead
<1>2. HashAfter(q, head) = [k \in 1 .. head.seq + Len(q) |-> E(k)]
  BY DEF HashAfter
<1>3. ASSUME NEW k \in 1 .. head.seq + Len(q) PROVE E(k) \in Entry
  <2>1. CASE k <= head.seq
    BY <1>1, <2>1
  <2>2. CASE ~(k <= head.seq)
    <3>1. k - head.seq \in 1 .. Len(q) /\ k \in Nat
      BY <1>1, <2>2
    <3> QED BY <1>1, <2>2, <3>1 DEF Entry
  <2> QED BY <2>1, <2>2
<1>4. \A k \in 1 .. head.seq : k \in 1 .. head.seq + Len(q) /\ E(k) = head.hash[k]
  BY <1>1
<1>5. ASSUME NEW k \in 1 .. Len(q)
      PROVE  head.seq + k \in 1 .. head.seq + Len(q) /\ E(head.seq + k) = [event |-> q[k], seq |-> head.seq + k]
  <2>1. ~(head.seq + k <= head.seq) /\ (head.seq + k) - head.seq = k
    BY <1>1
  <2> QED BY <1>1, <2>1
<1>6. HashAfter(q, head) \in Seq(Entry) /\ Len(HashAfter(q, head)) = head.seq + Len(q)
  <2>1. DOMAIN HashAfter(q, head) = 1 .. head.seq + Len(q) /\ head.seq + Len(q) \in Nat
    BY <1>1, <1>2
  <2> HIDE DEF E
  <2>2. \A k \in 1 .. head.seq + Len(q) : HashAfter(q, head)[k] = E(k)
    BY <1>2
  <2>3. HashAfter(q, head) = [k \in 1 .. head.seq + Len(q) |-> HashAfter(q, head)[k]]
    BY <1>2
  <2>4. \A k \in 1 .. head.seq + Len(q) : HashAfter(q, head)[k] \in Entry
    BY <1>3, <2>2
  <2>5. PICK g, m : g = HashAfter(q, head) /\ m = head.seq + Len(q)
    OBVIOUS
  <2>6. m \in Nat /\ DOMAIN g = 1 .. m /\ g = [k \in 1 .. m |-> g[k]] /\ \A k \in 1 .. m : g[k] \in Entry
    BY <2>1, <2>3, <2>4, <2>5
  <2>7. g \in Seq(Entry) /\ Len(g) = m
    BY <2>6, IsSequence
  <2> QED BY <2>5, <2>7
<1> HIDE DEF E
<1> QED BY <1>2, <1>4, <1>5, <1>6

\* The row of the k-th of some events that are chained to a head, and the rows of a stream
\* of a batch.
RowAt(q, head, k) == [event |-> q[k], seq |-> head.seq + k, hash |-> HashAfter(SubSeq(q, 1, k), head)]
GroupOf(b, h, s) == [k \in 1 .. Len(OfStream(b, s)) |-> RowAt(OfStream(b, s), h[s], k)]
Groups(b, h) == [k \in DOMAIN StreamsOf(b) |-> GroupOf(b, h, StreamsOf(b)[k])]

\* The hash of a row is what the hash of the last one begins with.
LEMMA RowAtProperties ==
    ASSUME NEW q \in Seq(Events), NEW head, IsHead(head), NEW k \in 1 .. Len(q)
    PROVE  /\ RowAt(q, head, k) \in Row
           /\ RowAt(q, head, k).event = q[k] /\ RowAt(q, head, k).seq = head.seq + k
           /\ RowAt(q, head, k).hash = SubSeq(HashAfter(q, head), 1, head.seq + k)
           /\ Len(RowAt(q, head, k).hash) = head.seq + k
<1> DEFINE p == SubSeq(q, 1, k)
           n == head.seq + k
           all == HashAfter(q, head)
           part == HashAfter(p, head)
<1>1. head.seq \in Nat /\ Len(q) \in Nat /\ k \in Nat /\ q[k] \in Events /\ n \in Nat
  BY DEF IsHead
<1>2. p \in Seq(Events) /\ Len(p) = k /\ \A j \in 1 .. k : p[j] = q[j]
  BY <1>1
<1>3. /\ all \in Seq(Entry) /\ Len(all) = head.seq + Len(q)
      /\ \A j \in 1 .. head.seq : all[j] = head.hash[j]
      /\ \A j \in 1 .. Len(q) : all[head.seq + j] = [event |-> q[j], seq |-> head.seq + j]
  BY HashAfterProperties
<1>4. /\ part \in Seq(Entry) /\ Len(part) = n
      /\ \A j \in 1 .. head.seq : part[j] = head.hash[j]
      /\ \A j \in 1 .. k : part[head.seq + j] = [event |-> p[j], seq |-> head.seq + j]
  <2> HIDE DEF p
  <2> QED BY <1>2, HashAfterProperties
<1> HIDE DEF p, all, part
<1>5. ASSUME NEW j \in 1 .. n PROVE part[j] = all[j]
  <2>1. CASE j <= head.seq
    BY <1>1, <1>3, <1>4, <2>1
  <2>2. CASE ~(j <= head.seq)
    <3>1. PICK i \in 1 .. k : j = head.seq + i
      <4>1. j - head.seq \in 1 .. k /\ j = head.seq + (j - head.seq)
        BY <1>1, <2>2
      <4> QED BY <4>1
    <3>2. i \in 1 .. Len(q)
      BY <1>1
    <3>3. part[j] = [event |-> p[i], seq |-> head.seq + i] /\ p[i] = q[i]
      BY <1>2, <1>4, <3>1
    <3>4. all[j] = [event |-> q[i], seq |-> head.seq + i]
      BY <1>3, <3>1, <3>2
    <3> QED BY <3>3, <3>4
  <2> QED BY <2>1, <2>2
<1>6. part = SubSeq(all, 1, n)
  <2>1. n <= Len(all) /\ Len(SubSeq(all, 1, n)) = n /\ SubSeq(all, 1, n) \in Seq(Entry)
    BY <1>1, <1>3
  <2>2. \A j \in 1 .. n : SubSeq(all, 1, n)[j] = all[j]
    BY <1>1, <1>3, <2>1
  <2> QED BY <1>1, <1>4, <1>5, <2>1, <2>2, SeqEqual
<1>7. RowAt(q, head, k) = [event |-> q[k], seq |-> n, hash |-> part]
  BY DEF RowAt, part, p
<1>8. RowAt(q, head, k) \in Row
  BY <1>1, <1>4, <1>7 DEF Row
<1> QED BY <1>4, <1>6, <1>7, <1>8 DEF all

LEMMA GroupOfProperties ==
    ASSUME NEW b \in Seq(Events), NEW h, HeadsOk(h), NEW s \in Streams
    PROVE  /\ GroupOf(b, h, s) \in Seq(Row) /\ Len(GroupOf(b, h, s)) = Len(OfStream(b, s))
           /\ \A k \in 1 .. Len(OfStream(b, s)) :
                /\ GroupOf(b, h, s)[k].event = OfStream(b, s)[k]
                /\ GroupOf(b, h, s)[k].seq = h[s].seq + k
                /\ GroupOf(b, h, s)[k].hash = SubSeq(HashAfter(OfStream(b, s), h[s]), 1, h[s].seq + k)
<1> DEFINE q == OfStream(b, s)
           g == GroupOf(b, h, s)
<1>1. q \in Seq(Events) /\ IsHead(h[s]) /\ Len(q) \in Nat
  BY OfStreamProperties DEF HeadsOk
<1>2. DOMAIN g = 1 .. Len(q) /\ g = [k \in 1 .. Len(q) |-> g[k]] /\ \A k \in 1 .. Len(q) : g[k] = RowAt(q, h[s], k)
  BY DEF GroupOf
<1> HIDE DEF q, g
<1>3. \A k \in 1 .. Len(q) : /\ g[k] \in Row /\ g[k].event = q[k] /\ g[k].seq = h[s].seq + k
                             /\ g[k].hash = SubSeq(HashAfter(q, h[s]), 1, h[s].seq + k)
  BY <1>1, <1>2, RowAtProperties
<1>4. g \in Seq(Row) /\ Len(g) = Len(q)
  BY <1>1, <1>2, <1>3, IsSequence
<1> QED BY <1>3, <1>4 DEF q, g

LEMMA ChainedIsGroups ==
    ASSUME NEW b \in Seq(Events), NEW h, HeadsOk(h)
    PROVE  /\ Groups(b, h) \in Seq(Seq(Row)) /\ Len(Groups(b, h)) = Len(StreamsOf(b))
           /\ Chained(b, h) = FlattenSeq(Groups(b, h))
<1> DEFINE order == StreamsOf(b)
           rows(s) == ChainBatch(OfStream(b, s), h[s])
           group(s) == [k \in 1 .. Len(OfStream(b, s)) |->
               LET n == h[s].seq + k
               IN  [event |-> rows(s)[n].event, seq |-> n, hash |-> rows(s)[n].hash]]
<1>1. order \in Seq(Streams) /\ Len(order) \in Nat /\ DOMAIN order = 1 .. Len(order)
      /\ \A k \in DOMAIN order : order[k] \in Streams
  BY StreamsOfProperties
<1>2. ASSUME NEW s \in Streams PROVE group(s) = GroupOf(b, h, s)
  <2> DEFINE q == OfStream(b, s)
             head == h[s]
  <2>1. q \in Seq(Events) /\ Len(q) \in Nat /\ head.seq \in Nat
    BY OfStreamProperties DEF HeadsOk, IsHead
  <2> HIDE DEF q, head
  <2>2. ASSUME NEW k \in 1 .. Len(q)
        PROVE  [event |-> ChainBatch(q, head)[head.seq + k].event, seq |-> head.seq + k,
                hash |-> ChainBatch(q, head)[head.seq + k].hash] = RowAt(q, head, k)
    <3>1. head.seq + k \in head.seq + 1 .. head.seq + Len(q) /\ (head.seq + k) - head.seq = k
      BY <2>1
    <3>2. ChainBatch(q, head)[head.seq + k] = [event |-> q[k], hash |-> HashAfter(SubSeq(q, 1, k), head)]
      BY <3>1 DEF ChainBatch
    <3> QED BY <3>2 DEF RowAt
  <2>3. [k \in 1 .. Len(q) |-> [event |-> ChainBatch(q, head)[head.seq + k].event, seq |-> head.seq + k,
                                hash |-> ChainBatch(q, head)[head.seq + k].hash]]
        = [k \in 1 .. Len(q) |-> RowAt(q, head, k)]
    BY <2>2
  <2> QED BY <2>3 DEF GroupOf, q, head
<1>3. Groups(b, h) = [k \in DOMAIN order |-> group(order[k])]
  <2> HIDE DEF order, group
  <2> QED BY <1>1, <1>2 DEF Groups, order
<1>4. Chained(b, h) = FlattenSeq(Groups(b, h))
  BY <1>3 DEF Chained
<1>5. Groups(b, h) \in Seq(Seq(Row)) /\ Len(Groups(b, h)) = Len(order)
  <2>1. DOMAIN Groups(b, h) = 1 .. Len(order)
    BY <1>1 DEF Groups
  <2>2. Groups(b, h) = [k \in 1 .. Len(order) |-> Groups(b, h)[k]]
    BY <1>1 DEF Groups
  <2>3. \A k \in 1 .. Len(order) : Groups(b, h)[k] \in Seq(Row)
    BY <1>1, GroupOfProperties DEF Groups
  <2> HIDE DEF order
  <2> QED BY <1>1, <2>1, <2>2, <2>3, IsSequence
<1> QED BY <1>4, <1>5

\* The rows of a batch are the rows of its streams.
LEMMA ChainedProperties ==
    ASSUME NEW b \in Seq(Events), NEW h, HeadsOk(h)
    PROVE  /\ Chained(b, h) \in Seq(Row)
           /\ ToSet(Chained(b, h)) = UNION {ToSet(GroupOf(b, h, s)) : s \in Streams}
           /\ {r.event : r \in ToSet(Chained(b, h))} = ToSet(b)
<1> DEFINE order == StreamsOf(b)
           ss == Groups(b, h)
<1>1. ss \in Seq(Seq(Row)) /\ DOMAIN ss = DOMAIN order /\ Chained(b, h) = FlattenSeq(ss)
      /\ \A k \in DOMAIN order : order[k] \in Streams /\ ss[k] = GroupOf(b, h, order[k])
  BY ChainedIsGroups, StreamsOfProperties DEF Groups
<1> HIDE DEF ss
<1>2. Chained(b, h) \in Seq(Row) /\ ToSet(Chained(b, h)) = UNION {ToSet(ss[k]) : k \in DOMAIN ss}
  BY <1>1, FlattenProperties
<1>3. ASSUME NEW s \in Streams, NEW r \in ToSet(GroupOf(b, h, s))
      PROVE  /\ r.event \in ToSet(b)
             /\ \E k \in DOMAIN order : order[k] = s
  <2>1. PICK n \in 1 .. Len(OfStream(b, s)) : r = GroupOf(b, h, s)[n]
    BY GroupOfProperties DEF ToSet
  <2>2. r.event = OfStream(b, s)[n] /\ OfStream(b, s) \in Seq(Events)
    BY <2>1, GroupOfProperties, OfStreamProperties
  <2>3. r.event \in ToSet(OfStream(b, s))
    BY <2>2 DEF ToSet
  <2>4. r.event \in ToSet(b) /\ StreamOf[r.event] = s
    BY <2>3, OfStreamProperties
  <2>5. PICK i \in DOMAIN b : b[i] = r.event
    BY <2>4 DEF ToSet
  <2>6. \E k \in DOMAIN order : order[k] = StreamOf[b[i]]
    BY StreamsOfProperties
  <2> QED BY <2>4, <2>5, <2>6
<1>4. ToSet(Chained(b, h)) = UNION {ToSet(GroupOf(b, h, s)) : s \in Streams}
  <2>1. ASSUME NEW k \in DOMAIN ss PROVE \E s \in Streams : ToSet(ss[k]) = ToSet(GroupOf(b, h, s))
    BY <1>1
  <2>2. ASSUME NEW s \in Streams, NEW r \in ToSet(GroupOf(b, h, s)) PROVE \E k \in DOMAIN ss : r \in ToSet(ss[k])
    BY <1>1, <1>3
  <2> HIDE DEF order
  <2> QED BY <1>2, <2>1, <2>2
<1>5. ASSUME NEW e \in ToSet(b) PROVE \E r \in ToSet(Chained(b, h)) : r.event = e
  <2>1. e \in Events /\ StreamOf[e] \in Streams
    BY FanoutAssumption DEF ToSet
  <2> DEFINE s == StreamOf[e]
  <2>2. e \in ToSet(OfStream(b, s)) /\ OfStream(b, s) \in Seq(Events)
    BY OfStreamProperties
  <2>3. PICK n \in 1 .. Len(OfStream(b, s)) : OfStream(b, s)[n] = e
    BY <2>2 DEF ToSet
  <2>4. GroupOf(b, h, s)[n].event = e /\ n \in DOMAIN GroupOf(b, h, s)
    BY <2>1, <2>3, GroupOfProperties
  <2>5. GroupOf(b, h, s)[n] \in ToSet(GroupOf(b, h, s))
    BY <2>4 DEF ToSet
  <2> QED BY <1>4, <2>1, <2>4, <2>5
<1>6. \A r \in ToSet(Chained(b, h)) : r.event \in ToSet(b)
  BY <1>3, <1>4
<1> DEFINE all == ToSet(Chained(b, h))
<1>7. \A e \in ToSet(b) : \E r \in all : r.event = e
  BY <1>5
<1>8. \A r \in all : r.event \in ToSet(b)
  BY <1>6
<1>9. {r.event : r \in all} = ToSet(b)
  <2> HIDE DEF all
  <2> QED BY <1>7, <1>8
<1> QED BY <1>2, <1>4, <1>9

\* The heads after a batch.
LEMMA HeadsAfterProperties ==
    ASSUME NEW b \in Seq(Events), NEW h, HeadsOk(h)
    PROVE  HeadsOk(HeadsAfter(b, h))
<1>1. ASSUME NEW s \in Streams PROVE IsHead(HeadsAfter(b, h)[s])
  <2> DEFINE q == OfStream(b, s)
  <2>1. q \in Seq(Events) /\ Len(q) \in Nat /\ IsHead(h[s]) /\ h[s].seq \in Nat
    BY OfStreamProperties DEF HeadsOk, IsHead
  <2>2. HeadsAfter(b, h)[s] = [seq |-> h[s].seq + Len(q), hash |-> HashAfter(q, h[s])]
    BY DEF HeadsAfter
  <2> HIDE DEF q
  <2> QED BY <2>1, <2>2, HashAfterProperties DEF IsHead
<1>2. HeadsAfter(b, h) = [s \in Streams |-> HeadsAfter(b, h)[s]]
  BY DEF HeadsAfter
<1> QED BY <1>1, <1>2 DEF HeadsOk, IsHead

\* Heads whose rows are among some rows: after a batch, its rows are needed too.
LEMMA BackedAfter ==
    ASSUME NEW b \in Seq(Events), NEW h, HeadsOk(h), NEW R, NEW s \in Streams, BackedBy(h[s], R)
    PROVE  BackedBy(HeadsAfter(b, h)[s], R \cup ToSet(Chained(b, h)))
<1> DEFINE q == OfStream(b, s)
           head == h[s]
           all == HashAfter(q, head)
<1>1. q \in Seq(Events) /\ Len(q) \in Nat /\ IsHead(head) /\ head.seq \in Nat /\ head.hash \in Seq(Entry)
      /\ Len(head.hash) = head.seq
  BY OfStreamProperties DEF HeadsOk, IsHead
<1>2. HeadsAfter(b, h)[s] = [seq |-> head.seq + Len(q), hash |-> all]
  BY DEF HeadsAfter
<1>3. \A k \in 1 .. Len(q) : \E r \in ToSet(GroupOf(b, h, s)) : r.hash = SubSeq(all, 1, head.seq + k)
  BY GroupOfProperties DEF ToSet
<1>4. ToSet(GroupOf(b, h, s)) \subseteq ToSet(Chained(b, h))
  BY ChainedProperties
<1>5. \A k \in 1 .. head.seq : \E r \in R : r.hash = SubSeq(head.hash, 1, k)
  BY DEF BackedBy
<1> HIDE DEF q, head
<1>6. /\ all \in Seq(Entry) /\ Len(all) = head.seq + Len(q)
      /\ \A k \in 1 .. head.seq : all[k] = head.hash[k]
  BY <1>1, HashAfterProperties
<1> HIDE DEF all
<1>7. ASSUME NEW k \in 1 .. head.seq PROVE SubSeq(all, 1, k) = SubSeq(head.hash, 1, k)
  <2>1. k \in Nat /\ k <= Len(all) /\ k <= Len(head.hash)
    BY <1>1, <1>6
  <2>2. /\ SubSeq(all, 1, k) \in Seq(Entry) /\ Len(SubSeq(all, 1, k)) = k
        /\ SubSeq(head.hash, 1, k) \in Seq(Entry) /\ Len(SubSeq(head.hash, 1, k)) = k
    BY <1>1, <1>6, <2>1
  <2>3. \A j \in 1 .. k : SubSeq(all, 1, k)[j] = all[j] /\ SubSeq(head.hash, 1, k)[j] = head.hash[j]
    BY <1>1, <1>6, <2>1
  <2>4. \A j \in 1 .. k : all[j] = head.hash[j]
    BY <1>1, <1>6
  <2> QED BY <2>2, <2>3, <2>4, SeqEqual
<1>8. ASSUME NEW k \in 1 .. head.seq + Len(q)
      PROVE  \E r \in R \cup ToSet(Chained(b, h)) : r.hash = SubSeq(all, 1, k)
  <2>1. CASE k <= head.seq
    BY <1>1, <1>5, <1>7, <2>1
  <2>2. CASE ~(k <= head.seq)
    <3>1. k - head.seq \in 1 .. Len(q) /\ head.seq + (k - head.seq) = k
      BY <1>1, <2>2
    <3>2. PICK r \in ToSet(GroupOf(b, h, s)) : r.hash = SubSeq(all, 1, head.seq + (k - head.seq))
      BY <1>3, <3>1
    <3> QED BY <1>4, <3>1, <3>2
  <2> QED BY <2>1, <2>2
<1>9. HeadsAfter(b, h)[s].seq = head.seq + Len(q) /\ HeadsAfter(b, h)[s].hash = all
  BY <1>2
<1> QED BY <1>8, <1>9 DEF BackedBy

\* The rows of a stream in a batch.
LEMMA RowsOfChained ==
    ASSUME NEW b \in Seq(Events), NEW h, HeadsOk(h), NEW s \in Streams
    PROVE  RowsOf(Chained(b, h), s) = GroupOf(b, h, s)
<1> DEFINE order == StreamsOf(b)
           ss == Groups(b, h)
           S == {r \in Row : StreamOf[r.event] = s}
           all == Chained(b, h)
<1>1. /\ ss \in Seq(Seq(Row)) /\ all = FlattenSeq(ss) /\ DOMAIN ss = DOMAIN order
      /\ \A k \in DOMAIN order : order[k] \in Streams /\ ss[k] = GroupOf(b, h, order[k])
  BY ChainedIsGroups, StreamsOfProperties DEF Groups
<1>2. all \in Seq(Row)
  BY ChainedProperties
<1>3. RowsOf(all, s) = Where(all, S)
  <2> DEFINE R == {r \in ToSet(all) : StreamOf[r.event] = s}
  <2>1. ToSet(all) \subseteq Row
    BY <1>2 DEF ToSet
  <2>2. ToSet(all) \cap R = ToSet(all) \cap S
    BY <2>1
  <2>3. RowsOf(all, s) = Where(all, R)
    BY DEF RowsOf
  <2> HIDE DEF R, S, all
  <2> QED BY <1>2, <2>2, <2>3, WhereSame
<1>4. ASSUME NEW t \in Streams, NEW r \in ToSet(GroupOf(b, h, t)) PROVE r \in Row /\ StreamOf[r.event] = t
  <2>1. PICK n \in 1 .. Len(OfStream(b, t)) : r = GroupOf(b, h, t)[n]
    BY GroupOfProperties DEF ToSet
  <2>2. r \in Row /\ r.event = OfStream(b, t)[n]
    BY <2>1, GroupOfProperties
  <2>3. OfStream(b, t)[n] \in ToSet(OfStream(b, t))
    BY OfStreamProperties DEF ToSet
  <2> QED BY <2>2, <2>3, OfStreamProperties
<1>5. \A k \in DOMAIN order : \A r \in ToSet(ss[k]) : r \in Row /\ StreamOf[r.event] = order[k]
  BY <1>1, <1>4
<1> HIDE DEF ss, S, all
<1>6. CASE \E j \in DOMAIN order : order[j] = s
  <2>1. PICK j \in DOMAIN order : order[j] = s
    BY <1>6
  <2>2. \A k \in DOMAIN order : k # j => order[k] # s
    BY <2>1, StreamsOfProperties
  <2>3. j \in Nat
    BY <2>1, StreamsOfProperties
  <2>4. \A k \in DOMAIN ss : /\ k = j => ToSet(ss[k]) \subseteq S
                             /\ k # j => ToSet(ss[k]) \cap S = {}
    BY <1>1, <1>5, <2>1, <2>2 DEF S
  <2>5. Where(FlattenSeq(ss), S) = ss[j]
    BY <1>1, <2>1, <2>3, <2>4, WhereFlatten
  <2> QED BY <1>1, <1>3, <2>1, <2>5 DEF all
<1>7. CASE ~ \E j \in DOMAIN order : order[j] = s
  <2>1. 0 \notin DOMAIN order
    BY StreamsOfProperties
  <2>2. \A k \in DOMAIN ss : /\ k = 0 => ToSet(ss[k]) \subseteq S
                             /\ k # 0 => ToSet(ss[k]) \cap S = {}
    BY <1>1, <1>5, <1>7, <2>1 DEF S
  <2>3. Where(FlattenSeq(ss), S) = <<>>
    BY <1>1, <2>1, <2>2, WhereFlatten
  <2>4. ASSUME OfStream(b, s) # <<>> PROVE FALSE
    <3>1. OfStream(b, s) \in Seq(Events)
      BY OfStreamProperties
    <3>2. OfStream(b, s)[1] \in ToSet(OfStream(b, s))
      BY <2>4, <3>1 DEF ToSet
    <3>3. PICK i \in DOMAIN b : StreamOf[b[i]] = s
      BY <3>2, OfStreamProperties DEF ToSet
    <3> QED BY <1>7, <3>3, StreamsOfProperties
  <2>5. GroupOf(b, h, s) = <<>>
    <3>1. Len(OfStream(b, s)) = 0
      BY <2>4
    <3>2. 1 .. Len(OfStream(b, s)) = {}
      BY <3>1
    <3> QED BY <3>2 DEF GroupOf
  <2> QED BY <1>1, <1>3, <2>3, <2>5 DEF all
<1> QED BY <1>6, <1>7

\* Where a verification has got.
ReachedAt(rows, start, after, k) ==
    IF k = 0 THEN start
    ELSE IF rows[k].seq = after[k - 1].seq + 1
            /\ rows[k].hash = HashEntry(rows[k].event, rows[k].seq, after[k - 1].hash)
         THEN [seq |-> rows[k].seq, hash |-> rows[k].hash] ELSE after[k - 1]

Reaches(rows, start, m, after) == after = [k \in 0 .. m |-> ReachedAt(rows, start, after, k)]

LEMMA ReachedUnfolds ==
    ASSUME NEW rows, Len(rows) \in Nat, NEW start
    PROVE  Reaches(rows, start, Len(rows), Reached(rows, start))
<1> DEFINE Good == {n \in 0 .. Len(rows) : \E after : Reaches(rows, start, n, after)}
<1>1. 0 \in Good
  <2> DEFINE f == [i \in 0 .. 0 |-> start]
  <2>1. \A i \in 0 .. 0 : ReachedAt(rows, start, f, i) = start
    BY DEF ReachedAt
  <2> HIDE DEF f
  <2>2. Reaches(rows, start, 0, f)
    BY <2>1 DEF Reaches, f
  <2> QED BY <2>2
<1>2. ASSUME NEW n \in 0 .. Len(rows) - 1, n \in Good PROVE n + 1 \in Good
  <2>1. PICK g : Reaches(rows, start, n, g)
    BY <1>2
  <2> DEFINE f == [i \in 0 .. n + 1 |-> IF i <= n THEN g[i] ELSE ReachedAt(rows, start, g, i)]
  <2>2. \A i \in 0 .. n + 1 : f[i] = ReachedAt(rows, start, g, i)
    <3>1. \A i \in 0 .. n : g[i] = ReachedAt(rows, start, g, i)
      BY <2>1 DEF Reaches
    <3> QED BY <3>1
  <2>3. \A i \in 0 .. n + 1 : ReachedAt(rows, start, f, i) = ReachedAt(rows, start, g, i)
    <3>1. \A i \in 0 .. n + 1 : i # 0 => f[i - 1] = g[i - 1]
      OBVIOUS
    <3> HIDE DEF f
    <3> QED BY <3>1 DEF ReachedAt
  <2>4. f = [i \in 0 .. n + 1 |-> f[i]]
    OBVIOUS
  <2> HIDE DEF f
  <2>5. Reaches(rows, start, n + 1, f)
    BY <2>2, <2>3, <2>4 DEF Reaches
  <2> QED BY <2>5
<1>3. Len(rows) \in Good
  <2>1. 0 .. Len(rows) \subseteq Good
    <3> HIDE DEF Good
    <3> QED BY <1>1, <1>2, UpTo
  <2> HIDE DEF Good
  <2> QED BY <2>1
<1> DEFINE IsAfter(after) == after = [k \in 0 .. Len(rows) |->
               IF k = 0 THEN start
               ELSE LET row == rows[k]
                        prev == after[k - 1]
                    IN  IF row.seq = prev.seq + 1 /\ row.hash = HashEntry(row.event, row.seq, prev.hash)
                        THEN [seq |-> row.seq, hash |-> row.hash]
                        ELSE prev]
           a == CHOOSE after : IsAfter(after)
<1>4. IsAfter(a)
  <2>1. \E after : IsAfter(after)
    BY <1>3 DEF Reaches, ReachedAt
  <2> HIDE DEF IsAfter
  <2> QED BY <2>1
<1>5. Reached(rows, start) = a
  BY DEF Reached
<1> QED BY <1>4, <1>5 DEF Reaches, ReachedAt

\* A verification that starts before the first of some consecutive rows of a chain finds
\* all of them valid.
LEMMA ChainIsValid ==
    ASSUME NEW rows \in Seq(Row), NEW H \in Seq(Entry), NEW n \in Nat, n + Len(rows) <= Len(H),
           \A k \in 1 .. Len(rows) : /\ rows[k].seq = n + k /\ rows[k].hash = SubSeq(H, 1, n + k)
                                     /\ H[n + k] = [event |-> rows[k].event, seq |-> n + k]
    PROVE  AllValid(rows, [seq |-> n, hash |-> SubSeq(H, 1, n)])
<1> DEFINE start == [seq |-> n, hash |-> SubSeq(H, 1, n)]
           after == Reached(rows, start)
           at(k) == [seq |-> n + k, hash |-> SubSeq(H, 1, n + k)]
           Good == {k \in 0 .. Len(rows) : after[k] = at(k)}
<1>1. Len(rows) \in Nat /\ Len(H) \in Nat /\ DOMAIN rows = 1 .. Len(rows)
  OBVIOUS
<1>2. Reaches(rows, start, Len(rows), after)
  BY <1>1, ReachedUnfolds
<1> HIDE DEF after
<1>3. \A k \in 0 .. Len(rows) : after[k] = ReachedAt(rows, start, after, k)
  BY <1>2 DEF Reaches
<1>4. 0 \in Good
  <2>1. after[0] = start /\ 0 \in 0 .. Len(rows) /\ n + 0 = n
    <3> HIDE DEF start
    <3>1. 0 \in 0 .. Len(rows)
      BY <1>1
    <3>2. after[0] = ReachedAt(rows, start, after, 0)
      BY <1>3, <3>1
    <3> QED BY <3>1, <3>2 DEF ReachedAt
  <2>2. at(0) = start
    BY <2>1
  <2> QED BY <2>1, <2>2
<1>5. ASSUME NEW k \in 0 .. Len(rows) - 1, k \in Good PROVE k + 1 \in Good
  <2>1. k \in Nat /\ k + 1 \in 1 .. Len(rows) /\ k + 1 \in 0 .. Len(rows) /\ k + 1 # 0 /\ (k + 1) - 1 = k
        /\ n + (k + 1) = (n + k) + 1
    BY <1>1
  <2>2. after[k] = at(k)
    BY <1>5
  <2>3. /\ rows[k + 1].seq = (n + k) + 1 /\ rows[k + 1].hash = SubSeq(H, 1, (n + k) + 1)
        /\ H[(n + k) + 1] = [event |-> rows[k + 1].event, seq |-> (n + k) + 1]
    <3>1. /\ rows[k + 1].seq = n + (k + 1) /\ rows[k + 1].hash = SubSeq(H, 1, n + (k + 1))
          /\ H[n + (k + 1)] = [event |-> rows[k + 1].event, seq |-> n + (k + 1)]
      BY <2>1
    <3> QED BY <2>1, <3>1
  <2>4. SubSeq(H, 1, (n + k) + 1) = Append(SubSeq(H, 1, n + k), H[(n + k) + 1])
    <3>1. n + k \in Nat /\ (n + k) + 1 <= Len(H)
      BY <1>1, <2>1
    <3>2. \A m \in Nat : m + 1 <= Len(H) => SubSeq(H, 1, m + 1) = Append(SubSeq(H, 1, m), H[m + 1])
      <4> SUFFICES ASSUME NEW m \in Nat, m + 1 <= Len(H)
                   PROVE  SubSeq(H, 1, m + 1) = Append(SubSeq(H, 1, m), H[m + 1])
        OBVIOUS
      <4>1. SubSeq(H, 1, m) = [i \in 1 .. m |-> H[i]] /\ SubSeq(H, 1, m) \in Seq(Entry)
            /\ Len(SubSeq(H, 1, m)) = m
        BY <1>1
      <4>2. Append(SubSeq(H, 1, m), H[m + 1]) = [i \in 1 .. m + 1 |-> IF i = m + 1 THEN H[m + 1] ELSE H[i]]
        BY <1>1, <4>1
      <4>3. SubSeq(H, 1, m + 1) = [i \in 1 .. m + 1 |-> H[i]]
        BY <1>1
      <4> QED BY <4>2, <4>3
    <3> QED BY <3>1, <3>2
  <2>5. rows[k + 1].hash = HashEntry(rows[k + 1].event, rows[k + 1].seq, SubSeq(H, 1, n + k))
    BY <2>3, <2>4 DEF HashEntry
  <2>6. after[k].seq = n + k /\ after[k].hash = SubSeq(H, 1, n + k)
    BY <2>2
  <2>7. after[k + 1] = [seq |-> rows[k + 1].seq, hash |-> rows[k + 1].hash]
    BY <1>3, <2>1, <2>3, <2>5, <2>6 DEF ReachedAt
  <2>8. after[k + 1] = at(k + 1)
    BY <2>1, <2>3, <2>7
  <2> HIDE DEF at
  <2> QED BY <2>1, <2>8
<1>6. 0 .. Len(rows) \subseteq Good
  <2> HIDE DEF Good
  <2> QED BY <1>1, <1>4, <1>5, UpTo
<1>7. \A k \in DOMAIN rows : after[k].seq = rows[k].seq /\ after[k].hash = rows[k].hash
  <2> SUFFICES ASSUME NEW k \in 1 .. Len(rows) PROVE after[k].seq = rows[k].seq /\ after[k].hash = rows[k].hash
    BY <1>1
  <2>1. after[k] = at(k)
    <3> HIDE DEF at
    <3>1. k \in 0 .. Len(rows)
      BY <1>1
    <3>2. k \in Good
      <4> HIDE DEF Good
      <4> QED BY <1>6, <3>1
    <3> QED BY <3>2
  <2>2. after[k].seq = n + k /\ after[k].hash = SubSeq(H, 1, n + k)
    BY <2>1
  <2> QED BY <2>2
<1> QED BY <1>7 DEF AllValid, after, start

-----------------------------------------------------------------------------
(* The mirrors' operators are those of ChainedWrite. *)

LEMMA StreamOps ==
    /\ \A b, h : Stream!Chained(b, h) = Chained(b, h)
    /\ \A b, h : Stream!HeadsAfter(b, h) = HeadsAfter(b, h)
    /\ \A q : Stream!ToSet(q) = ToSet(q)
    /\ \A head, R : Stream!BackedBy(head, R) <=> BackedBy(head, R)
    /\ Stream!NoHeads = NoHeads
<1>1. \A q, S : Stream!Where(q, S) = Where(q, S)
  BY DEF Stream!Where, Where
<1>2. \A b, s : Stream!OfStream(b, s) = OfStream(b, s)
  BY <1>1 DEF Stream!OfStream, OfStream
<1>3. \A b : Stream!StreamsOf(b) = StreamsOf(b)
  BY <1>1 DEF Stream!StreamsOf, StreamsOf
<1>4. \A q, head : Stream!HashAfter(q, head) = HashAfter(q, head)
  BY DEF Stream!HashAfter, HashAfter
<1>5. \A q, head : Stream!ChainBatch(q, head) = ChainBatch(q, head)
  BY <1>4 DEF Stream!ChainBatch, ChainBatch
<1>6. \A ss : Stream!FlattenSeq(ss) = FlattenSeq(ss)
  BY DEF Stream!FlattenSeq, FlattenSeq
<1>7. ASSUME NEW b, NEW h PROVE Stream!Chained(b, h) = Chained(b, h)
  <2> DEFINE rows(s) == [k \in 1 .. Len(OfStream(b, s)) |->
                 LET n == h[s].seq + k
                 IN  [event |-> ChainBatch(OfStream(b, s), h[s])[n].event, seq |-> n,
                      hash |-> ChainBatch(OfStream(b, s), h[s])[n].hash]]
             mirror(s) == [k \in 1 .. Len(Stream!OfStream(b, s)) |->
                 LET n == h[s].seq + k
                 IN  [event |-> Stream!ChainBatch(Stream!OfStream(b, s), h[s])[n].event, seq |-> n,
                      hash |-> Stream!ChainBatch(Stream!OfStream(b, s), h[s])[n].hash]]
             joined == [k \in DOMAIN StreamsOf(b) |-> rows(StreamsOf(b)[k])]
             gathered == [k \in DOMAIN Stream!StreamsOf(b) |-> mirror(Stream!StreamsOf(b)[k])]
  <2>1. Chained(b, h) = FlattenSeq(joined)
    BY DEF Chained
  <2>2. Stream!Chained(b, h) = Stream!FlattenSeq(gathered)
    BY DEF Stream!Chained
  <2>3. \A s : mirror(s) = rows(s)
    BY <1>2, <1>5
  <2>4. gathered = joined
    <3> HIDE DEF rows, mirror
    <3> QED BY <1>3, <2>3
  <2> HIDE DEF joined, gathered
  <2> QED BY <1>6, <2>1, <2>2, <2>4
<1>8. \A b, h : Stream!HeadsAfter(b, h) = HeadsAfter(b, h)
  BY <1>2, <1>4 DEF Stream!HeadsAfter, HeadsAfter
<1>9. \A q : Stream!ToSet(q) = ToSet(q)
  BY DEF Stream!ToSet, ToSet
<1>10. \A head, R : Stream!BackedBy(head, R) <=> BackedBy(head, R)
  BY DEF Stream!BackedBy, BackedBy
<1>11. Stream!NoHeads = NoHeads
  BY DEF Stream!NoHeads, NoHeads, Stream!NoHead, NoHead, Stream!GENESIS, GENESIS
<1> QED BY <1>7, <1>8, <1>9, <1>10, <1>11

LEMMA HttpOps ==
    /\ \A b, h : Http!Chained(b, h) = Chained(b, h)
    /\ \A b, h : Http!HeadsAfter(b, h) = HeadsAfter(b, h)
    /\ \A q : Http!ToSet(q) = ToSet(q)
    /\ \A head, R : Http!BackedBy(head, R) <=> BackedBy(head, R)
    /\ Http!NoHeads = NoHeads
<1>1. \A q, S : Http!Where(q, S) = Where(q, S)
  BY DEF Http!Where, Where
<1>2. \A b, s : Http!OfStream(b, s) = OfStream(b, s)
  BY <1>1 DEF Http!OfStream, OfStream
<1>3. \A b : Http!StreamsOf(b) = StreamsOf(b)
  BY <1>1 DEF Http!StreamsOf, StreamsOf
<1>4. \A q, head : Http!HashAfter(q, head) = HashAfter(q, head)
  BY DEF Http!HashAfter, HashAfter
<1>5. \A q, head : Http!ChainBatch(q, head) = ChainBatch(q, head)
  BY <1>4 DEF Http!ChainBatch, ChainBatch
<1>6. \A ss : Http!FlattenSeq(ss) = FlattenSeq(ss)
  BY DEF Http!FlattenSeq, FlattenSeq
<1>7. ASSUME NEW b, NEW h PROVE Http!Chained(b, h) = Chained(b, h)
  <2> DEFINE rows(s) == [k \in 1 .. Len(OfStream(b, s)) |->
                 LET n == h[s].seq + k
                 IN  [event |-> ChainBatch(OfStream(b, s), h[s])[n].event, seq |-> n,
                      hash |-> ChainBatch(OfStream(b, s), h[s])[n].hash]]
             mirror(s) == [k \in 1 .. Len(Http!OfStream(b, s)) |->
                 LET n == h[s].seq + k
                 IN  [event |-> Http!ChainBatch(Http!OfStream(b, s), h[s])[n].event, seq |-> n,
                      hash |-> Http!ChainBatch(Http!OfStream(b, s), h[s])[n].hash]]
             joined == [k \in DOMAIN StreamsOf(b) |-> rows(StreamsOf(b)[k])]
             gathered == [k \in DOMAIN Http!StreamsOf(b) |-> mirror(Http!StreamsOf(b)[k])]
  <2>1. Chained(b, h) = FlattenSeq(joined)
    BY DEF Chained
  <2>2. Http!Chained(b, h) = Http!FlattenSeq(gathered)
    BY DEF Http!Chained
  <2>3. \A s : mirror(s) = rows(s)
    BY <1>2, <1>5
  <2>4. gathered = joined
    <3> HIDE DEF rows, mirror
    <3> QED BY <1>3, <2>3
  <2> HIDE DEF joined, gathered
  <2> QED BY <1>6, <2>1, <2>2, <2>4
<1>8. \A b, h : Http!HeadsAfter(b, h) = HeadsAfter(b, h)
  BY <1>2, <1>4 DEF Http!HeadsAfter, HeadsAfter
<1>9. \A q : Http!ToSet(q) = ToSet(q)
  BY DEF Http!ToSet, ToSet
<1>10. \A head, R : Http!BackedBy(head, R) <=> BackedBy(head, R)
  BY DEF Http!BackedBy, BackedBy
<1>11. Http!NoHeads = NoHeads
  BY DEF Http!NoHeads, NoHeads, Http!NoHead, NoHead, Http!GENESIS, GENESIS
<1> QED BY <1>7, <1>8, <1>9, <1>10, <1>11

LEMMA WindowOps ==
    /\ \A q, S : Http!Where(q, S) = Where(q, S)
    /\ \A b, s : Http!OfStream(b, s) = OfStream(b, s)
    /\ \A rows, s : Http!RowsOf(rows, s) = RowsOf(rows, s)
    /\ \A q : Http!ToSet(q) = ToSet(q)
    /\ \A rows, start : Http!AllValid(rows, start) <=> AllValid(rows, start)
    /\ Http!NoHead = NoHead
<1>1. \A q, S : Http!Where(q, S) = Where(q, S)
  BY DEF Http!Where, Where
<1>2. \A b, s : Http!OfStream(b, s) = OfStream(b, s)
  BY <1>1 DEF Http!OfStream, OfStream
<1>3. \A q : Http!ToSet(q) = ToSet(q)
  BY DEF Http!ToSet, ToSet
<1>4. \A rows, s : Http!RowsOf(rows, s) = RowsOf(rows, s)
  BY <1>1, <1>3 DEF Http!RowsOf, RowsOf
<1>5. \A event, seq, hash : Http!HashEntry(event, seq, hash) = HashEntry(event, seq, hash)
  BY DEF Http!HashEntry, HashEntry
<1>6. \A rows, start : Http!Reached(rows, start) = Reached(rows, start)
  BY <1>5 DEF Http!Reached, Reached
<1>7. \A rows, start : Http!AllValid(rows, start) <=> AllValid(rows, start)
  BY <1>6 DEF Http!AllValid, AllValid
<1>8. Http!NoHead = NoHead
  BY DEF Http!NoHead, NoHead, Http!GENESIS, GENESIS
<1> QED BY <1>1, <1>2, <1>3, <1>4, <1>7, <1>8

\* The operators of the file are those of ChainedWrite too.
LEMMA FileOps ==
    /\ \A q, S : Stream!Where(q, S) = Where(q, S)
    /\ \A rows, s : Stream!RowsOf(rows, s) = RowsOf(rows, s)
    /\ \A q : Stream!ToSet(q) = ToSet(q)
    /\ \A ss : Stream!FlattenSeq(ss) = FlattenSeq(ss)
    /\ \A rows, start : Stream!AllValid(rows, start) <=> AllValid(rows, start)
    /\ Stream!NoHead = NoHead
<1>1. \A q, S : Stream!Where(q, S) = Where(q, S)
  BY DEF Stream!Where, Where
<1>2. \A q : Stream!ToSet(q) = ToSet(q)
  BY DEF Stream!ToSet, ToSet
<1>3. \A rows, s : Stream!RowsOf(rows, s) = RowsOf(rows, s)
  BY <1>1, <1>2 DEF Stream!RowsOf, RowsOf
<1>4. \A ss : Stream!FlattenSeq(ss) = FlattenSeq(ss)
  BY DEF Stream!FlattenSeq, FlattenSeq
<1>5. \A event, seq, hash : Stream!HashEntry(event, seq, hash) = HashEntry(event, seq, hash)
  BY DEF Stream!HashEntry, HashEntry
<1>6. \A rows, start : Stream!Reached(rows, start) = Reached(rows, start)
  BY <1>5 DEF Stream!Reached, Reached
<1>7. \A rows, start : Stream!AllValid(rows, start) <=> AllValid(rows, start)
  BY <1>6 DEF Stream!AllValid, AllValid
<1>8. Stream!NoHead = NoHead
  BY DEF Stream!NoHead, NoHead, Stream!GENESIS, GENESIS
<1> QED BY <1>1, <1>2, <1>3, <1>4, <1>7, <1>8

-----------------------------------------------------------------------------
(* The stream store. *)

\* A call that waits or has its turn, the turn itself, and the rows of lines.
Entries == [call : Calls, batch : Seq(Events)]
Turns == [call : Calls \cup {0}, batch : Seq(Events), lines : Seq(Seq(Row))]
Ends == {"none", "pending", "ok", "failed"}
EntryOf(w) == [call |-> w.call, batch |-> w.batch]
RowsIn(lines) == UNION {ToSet(lines[k]) : k \in DOMAIN lines}

OnDisk == ToSet(file) \cup glued
InStream == {EntryOf(w) : w \in {writing} \ {Stream!Resting}} \cup ToSet(queue)

StreamType ==
    /\ format \in {"ndjson", "json"}
    /\ file \in Seq(Row) /\ glued \subseteq Row
    /\ HeadsOk(streamHeads) /\ HeadsOk(sidecar)
    /\ queue \in Seq(Entries)
    /\ writing \in Turns /\ (writing # Stream!Resting => writing.call \in Calls)
    /\ streamAnswer \in [Calls -> Ends]

\* The rows of the batch under way are in the file or in the lines that are left.
TurnBacked ==
    writing # Stream!Resting =>
        LET rows == ToSet(Chained(writing.batch, streamHeads))
        IN  rows \subseteq OnDisk \cup RowsIn(writing.lines) /\ RowsIn(writing.lines) \subseteq rows

StreamBacked == \A s \in Streams : BackedBy(streamHeads[s], OnDisk) /\ BackedBy(sidecar[s], OnDisk)

StreamInv == StreamType /\ TurnBacked /\ StreamBacked

\* The lines of a batch have its rows.
LEMMA LinesOfProperties ==
    ASSUME NEW b \in Seq(Events), NEW h, HeadsOk(h)
    PROVE  /\ Stream!LinesOf(b, h) \in Seq(Seq(Row))
           /\ RowsIn(Stream!LinesOf(b, h)) = ToSet(Chained(b, h))
<1> DEFINE rows == Chained(b, h)
           lines == Stream!LinesOf(b, h)
<1>1. rows \in Seq(Row) /\ Len(rows) \in Nat /\ DOMAIN rows = 1 .. Len(rows) /\ \A k \in DOMAIN rows : rows[k] \in Row
  BY ChainedProperties
<1>2. lines = IF format = "json" THEN <<rows>> ELSE [k \in DOMAIN rows |-> <<rows[k]>>]
  BY StreamOps DEF Stream!LinesOf
<1> HIDE DEF rows, lines
<1>3. CASE format = "json"
  <2>1. lines = <<rows>> /\ DOMAIN lines = {1} /\ lines[1] = rows
    BY <1>2, <1>3
  <2>2. lines \in Seq(Seq(Row))
    BY <1>1, <2>1
  <2>3. {ToSet(lines[k]) : k \in DOMAIN lines} = {ToSet(rows)}
    BY <2>1
  <2>4. RowsIn(lines) = ToSet(rows)
    BY <2>3 DEF RowsIn
  <2> QED BY <2>2, <2>4 DEF rows, lines
<1>4. CASE format # "json"
  <2>1. DOMAIN lines = 1 .. Len(rows) /\ lines = [k \in 1 .. Len(rows) |-> lines[k]]
        /\ \A k \in 1 .. Len(rows) : lines[k] = <<rows[k]>>
    BY <1>1, <1>2, <1>4
  <2>2. \A k \in 1 .. Len(rows) : lines[k] \in Seq(Row)
    <3>1. \A x \in Row : <<x>> \in Seq(Row)
      <4> SUFFICES ASSUME NEW T, NEW x \in T PROVE <<x>> \in Seq(T)
        OBVIOUS
      <4> QED OBVIOUS
    <3> QED BY <1>1, <2>1, <3>1
  <2>3. lines \in Seq(Seq(Row))
    BY <1>1, <2>1, <2>2, IsSequence
  <2>4. \A k \in 1 .. Len(rows) : ToSet(lines[k]) = {rows[k]}
    <3>1. \A x : ToSet(<<x>>) = {x}
      <4>1. \A x : DOMAIN <<x>> = {1} /\ <<x>>[1] = x
        OBVIOUS
      <4> QED BY <4>1 DEF ToSet
    <3> QED BY <2>1, <3>1
  <2>5. RowsIn(lines) = ToSet(rows)
    <3>1. RowsIn(lines) = UNION {{rows[k]} : k \in 1 .. Len(rows)}
      BY <2>1, <2>4 DEF RowsIn
    <3>2. ToSet(rows) = {rows[k] : k \in 1 .. Len(rows)}
      BY <1>1 DEF ToSet
    <3> QED BY <3>1, <3>2
  <2> QED BY <2>3, <2>5 DEF rows, lines
<1> QED BY <1>3, <1>4

\* The first of some waiting calls has its turn, or nobody.
LEMMA TurnTaken ==
    ASSUME NEW waiting \in Seq(Entries), Stream!TurnOfFirst(waiting), HeadsOk(streamHeads')
    PROVE  /\ queue' \in Seq(Entries) /\ ToSet(queue') \subseteq ToSet(waiting)
           /\ writing' \in Turns
           /\ writing' # Stream!Resting =>
                /\ EntryOf(writing') \in ToSet(waiting) /\ writing'.call \in Calls
                /\ RowsIn(writing'.lines) = ToSet(Chained(writing'.batch, streamHeads'))
<1>1. Stream!Resting \in Turns
  <2>1. <<>> \in Seq(Events) /\ <<>> \in Seq(Seq(Row))
    OBVIOUS
  <2> QED BY <2>1 DEF Turns, Stream!Resting, Stream!NoCall
<1>2. CASE waiting = <<>>
  <2>1. queue' = <<>> /\ writing' = Stream!Resting
    BY <1>2 DEF Stream!TurnOfFirst
  <2>2. ToSet(queue') = {} /\ queue' \in Seq(Entries)
    BY <2>1 DEF ToSet
  <2> QED BY <1>1, <2>1, <2>2
<1>3. CASE waiting # <<>>
  <2> DEFINE first == waiting[1]
  <2>1. Len(waiting) \in Nat /\ Len(waiting) > 0 /\ 1 \in DOMAIN waiting /\ first \in Entries
    BY <1>3
  <2>2. first.call \in Calls /\ first.batch \in Seq(Events) /\ first \in ToSet(waiting)
    BY <2>1 DEF Entries, ToSet
  <2>3. queue' = Tail(waiting)
        /\ writing' = [call |-> first.call, batch |-> first.batch,
                       lines |-> Stream!LinesOf(first.batch, streamHeads')]
    BY <1>3 DEF Stream!TurnOfFirst
  <2> HIDE DEF first
  <2>4. Stream!LinesOf(first.batch, streamHeads') \in Seq(Seq(Row))
        /\ RowsIn(Stream!LinesOf(first.batch, streamHeads')) = ToSet(Chained(first.batch, streamHeads'))
    BY <2>2, LinesOfProperties
  <2>5. queue' \in Seq(Entries) /\ ToSet(queue') \subseteq ToSet(waiting)
    <3>1. /\ Tail(waiting) \in Seq(Entries) /\ Len(Tail(waiting)) = Len(waiting) - 1
          /\ \A i \in 1 .. Len(waiting) - 1 : Tail(waiting)[i] = waiting[i + 1]
      BY <1>3, <2>1
    <3>2. DOMAIN Tail(waiting) = 1 .. Len(waiting) - 1 /\ DOMAIN waiting = 1 .. Len(waiting)
      BY <2>1, <3>1
    <3>3. \A i \in 1 .. Len(waiting) - 1 : i + 1 \in DOMAIN waiting
      BY <2>1, <3>2
    <3>4. \A i \in DOMAIN Tail(waiting) : Tail(waiting)[i] \in ToSet(waiting)
      BY <3>1, <3>2, <3>3 DEF ToSet
    <3> QED BY <2>3, <3>1, <3>4 DEF ToSet
  <2>6. writing' \in Turns
    BY <2>2, <2>3, <2>4 DEF Turns
  <2>7. EntryOf(writing') = first
    BY <2>1, <2>3 DEF EntryOf, Entries
  <2> QED BY <2>2, <2>3, <2>4, <2>5, <2>6, <2>7
<1> QED BY <1>2, <1>3

LEMMA BackedMore ==
    ASSUME NEW head, NEW R, NEW R2, R \subseteq R2, BackedBy(head, R)
    PROVE  BackedBy(head, R2)
BY DEF BackedBy

\* What a mirror may do by itself: of the calls it has, some end, with "ok" only when their
\* events have been seen, and it sees only events of such calls.
Moved(entries, entries2, answers, answers2, seen, seen2) ==
    /\ entries2 \subseteq entries
    /\ seen \subseteq seen2
    /\ \A x \in seen2 \ seen : \E e \in entries : x \in ToSet(e.batch)
    /\ \A c \in Calls : answers2[c] # answers[c] =>
         \E e \in entries : e.call = c /\ (answers2[c] = "ok" => ToSet(e.batch) \subseteq seen)

\* What it does when it is called.
Called(c, b, entries, entries2, answers, answers2, seen, seen2) ==
    /\ entries2 \subseteq entries \cup {[call |-> c, batch |-> b]}
    /\ seen2 = seen
    /\ answers2 = [answers EXCEPT ![c] = "pending"]

LEMMA SeenIsOnDisk == InFile = {r.event : r \in OnDisk}
<1>1. {file[i].event : i \in DOMAIN file} = {r.event : r \in ToSet(file)}
  BY DEF ToSet
<1> QED BY <1>1 DEF InFile, OnDisk

\* The calls of the stream store, with the one whose turn it is.
LEMMA StreamEntries ==
    ASSUME StreamType
    PROVE  /\ writing # Stream!Resting => EntryOf(writing) \in InStream
           /\ ToSet(queue) \subseteq InStream
           /\ InStream \subseteq Entries
<1>1. ToSet(queue) \subseteq Entries
  BY DEF StreamType, ToSet
<1>2. writing # Stream!Resting => EntryOf(writing) \in Entries
  BY DEF StreamType, Turns, EntryOf, Entries
<1> QED BY <1>1, <1>2 DEF InStream

\* write() of the stream store.
LEMMA StreamCalled ==
    ASSUME StreamInv, NEW c \in Calls, NEW b \in Seq(Events), Stream!Write(c, b)
    PROVE  /\ StreamInv'
           /\ streamAnswer[c] = "none"
           /\ Called(c, b, InStream, InStream', streamAnswer, streamAnswer', InFile, InFile')
<1> DEFINE entry == [call |-> c, batch |-> b]
<1>1. entry \in Entries
  BY DEF Entries
<1>2. /\ UNCHANGED <<format, file, torn, glued, sidecar, streamHeads, broken>>
      /\ streamAnswer[c] = "none" /\ streamAnswer' = [streamAnswer EXCEPT ![c] = "pending"]
  BY DEF Stream!Write, Stream!disk
<1>3. StreamType /\ HeadsOk(streamHeads')
  BY <1>2 DEF StreamInv, StreamType
<1>4. OnDisk' = OnDisk /\ InFile' = InFile
  BY <1>2 DEF OnDisk, InFile
<1>5. /\ queue' \in Seq(Entries) /\ writing' \in Turns
      /\ writing' # Stream!Resting => writing'.call \in Calls
      /\ TurnBacked'
      /\ InStream' \subseteq InStream \cup {entry}
  <2>1. CASE writing = Stream!Resting
    <3> DEFINE waiting == <<entry>>
    <3>1. Stream!TurnOfFirst(waiting)
      BY <2>1 DEF Stream!Write
    <3>2. waiting \in Seq(Entries) /\ ToSet(waiting) = {entry}
      <4>1. DOMAIN waiting = {1} /\ waiting[1] = entry
        OBVIOUS
      <4> QED BY <1>1, <4>1 DEF ToSet
    <3> HIDE DEF waiting, entry
    <3>3. /\ queue' \in Seq(Entries) /\ ToSet(queue') \subseteq {entry}
          /\ writing' \in Turns
          /\ writing' # Stream!Resting =>
               /\ EntryOf(writing') = entry /\ writing'.call \in Calls
               /\ RowsIn(writing'.lines) = ToSet(Chained(writing'.batch, streamHeads'))
      BY <1>3, <3>1, <3>2, TurnTaken
    <3> QED BY <3>3 DEF TurnBacked, InStream
  <2>2. CASE writing # Stream!Resting
    <3>1. queue' = Append(queue, entry) /\ writing' = writing
      BY <2>2 DEF Stream!Write
    <3>2. queue \in Seq(Entries)
      BY <1>3 DEF StreamType
    <3> HIDE DEF entry
    <3>3. ToSet(Append(queue, entry)) = ToSet(queue) \cup {entry}
      <4>1. Len(queue) \in Nat /\ DOMAIN queue = 1 .. Len(queue)
            /\ DOMAIN Append(queue, entry) = 1 .. Len(queue) + 1
            /\ \A i \in 1 .. Len(queue) : Append(queue, entry)[i] = queue[i]
            /\ Append(queue, entry)[Len(queue) + 1] = entry
        BY <1>1, <3>2
      <4>2. 1 .. Len(queue) + 1 = 1 .. Len(queue) \cup {Len(queue) + 1}
        BY <4>1
      <4> QED BY <4>1, <4>2 DEF ToSet
    <3>4. TurnBacked'
      BY <1>2, <1>4, <3>1 DEF StreamInv, TurnBacked
    <3>5. InStream' \subseteq InStream \cup {entry}
      BY <3>1, <3>3 DEF InStream
    <3> QED BY <1>1, <1>3, <3>1, <3>2, <3>4, <3>5 DEF StreamType
  <2> QED BY <2>1, <2>2
<1>6. StreamBacked'
  BY <1>2, <1>4 DEF StreamInv, StreamBacked
<1>7. streamAnswer' \in [Calls -> Ends]
  BY <1>2, <1>3 DEF StreamType, Ends
<1>8. StreamInv'
  BY <1>2, <1>3, <1>5, <1>6, <1>7 DEF StreamInv, StreamType
<1> QED BY <1>2, <1>4, <1>5, <1>8 DEF Called

\* A turn that has ended: the next one begins.
LEMMA StreamTurns ==
    ASSUME StreamInv, writing # Stream!Resting, NEW how \in {"ok", "failed"},
           Stream!Answered(how), HeadsOk(streamHeads'), OnDisk' = OnDisk,
           how = "ok" => ToSet(writing.batch) \subseteq InFile
    PROVE  /\ queue' \in Seq(Entries) /\ writing' \in Turns
           /\ writing' # Stream!Resting => writing'.call \in Calls
           /\ streamAnswer' \in [Calls -> Ends]
           /\ TurnBacked'
           /\ Moved(InStream, InStream', streamAnswer, streamAnswer', InFile, InFile)
<1>1. StreamType /\ writing.call \in Calls
  BY DEF StreamInv, StreamType
<1>2. streamAnswer' = [streamAnswer EXCEPT ![writing.call] = how] /\ Stream!TurnOfFirst(queue)
  BY DEF Stream!Answered
<1>3. /\ queue' \in Seq(Entries) /\ ToSet(queue') \subseteq ToSet(queue)
      /\ writing' \in Turns
      /\ writing' # Stream!Resting =>
           /\ EntryOf(writing') \in ToSet(queue) /\ writing'.call \in Calls
           /\ RowsIn(writing'.lines) = ToSet(Chained(writing'.batch, streamHeads'))
  BY <1>1, <1>2, TurnTaken DEF StreamType
<1>4. streamAnswer' \in [Calls -> Ends]
  BY <1>1, <1>2 DEF StreamType, Ends
<1>5. InStream' \subseteq InStream
  BY <1>3 DEF InStream
<1>6. \A c \in Calls : streamAnswer'[c] # streamAnswer[c] => c = writing.call /\ streamAnswer'[c] = how
  BY <1>1, <1>2 DEF StreamType
<1>7. EntryOf(writing) \in InStream /\ EntryOf(writing).call = writing.call /\ EntryOf(writing).batch = writing.batch
  BY <1>1, StreamEntries DEF EntryOf
<1>8. TurnBacked'
  BY <1>3 DEF TurnBacked
<1>9. Moved(InStream, InStream', streamAnswer, streamAnswer', InFile, InFile)
  BY <1>5, <1>6, <1>7 DEF Moved
<1> QED BY <1>3, <1>4, <1>8, <1>9

\* A line is in the file.
LEMMA StreamLine ==
    ASSUME StreamInv, Stream!WriteLine
    PROVE  StreamInv' /\ Moved(InStream, InStream', streamAnswer, streamAnswer', InFile, InFile')
<1> DEFINE line == Head(writing.lines)
           rest == Tail(writing.lines)
<1>1. StreamType /\ writing \in Turns /\ writing.lines # <<>> /\ writing.lines \in Seq(Seq(Row))
  BY DEF StreamInv, StreamType, Turns, Stream!WriteLine
<1>2. /\ writing' = [writing EXCEPT !.lines = rest]
      /\ UNCHANGED <<format, sidecar, streamHeads, broken, queue, streamAnswer>>
  BY DEF Stream!WriteLine
<1>3. line \in Seq(Row) /\ rest \in Seq(Seq(Row))
  BY <1>1
<1>4. RowsIn(writing.lines) = ToSet(line) \cup RowsIn(rest)
  <2> DEFINE q == writing.lines
  <2>1. q \in Seq(Seq(Row)) /\ q # <<>>
    BY <1>1
  <2> HIDE DEF q
  <2>2. /\ Len(q) \in Nat /\ Len(q) > 0 /\ DOMAIN q = 1 .. Len(q) /\ Head(q) = q[1]
        /\ DOMAIN Tail(q) = 1 .. Len(q) - 1 /\ \A k \in 1 .. Len(q) - 1 : Tail(q)[k] = q[k + 1]
    BY <2>1
  <2>3. \A k \in DOMAIN q : k = 1 \/ (k - 1 \in DOMAIN Tail(q) /\ Tail(q)[k - 1] = q[k])
    BY <2>2
  <2>4. \A k \in DOMAIN Tail(q) : k + 1 \in DOMAIN q /\ Tail(q)[k] = q[k + 1]
    BY <2>2
  <2>5. 1 \in DOMAIN q
    BY <2>2
  <2>6. RowsIn(q) = ToSet(Head(q)) \cup RowsIn(Tail(q))
    BY <2>2, <2>3, <2>4, <2>5 DEF RowsIn
  <2> QED BY <2>6 DEF q
<1> HIDE DEF line, rest
<1>5. file' \in Seq(Row) /\ glued' \subseteq Row /\ OnDisk' = OnDisk \cup ToSet(line)
  <2>1. CASE torn
    <3>1. glued' = glued \cup ToSet(line) /\ file' = file
      BY <2>1, StreamOps DEF Stream!WriteLine, line
    <3>2. ToSet(line) \subseteq Row
      BY <1>3 DEF ToSet
    <3> QED BY <1>1, <3>1, <3>2 DEF StreamType, OnDisk
  <2>2. CASE ~torn
    <3>1. file' = file \o line /\ glued' = glued
      BY <2>2 DEF Stream!WriteLine, line
    <3>2. file \in Seq(Row)
      BY <1>1 DEF StreamType
    <3>3. ToSet(file \o line) = ToSet(file) \cup ToSet(line)
      BY <1>3, <3>2, JoinedSets
    <3>4. file \o line \in Seq(Row)
      BY <1>3, <3>2
    <3> QED BY <1>1, <3>1, <3>3, <3>4 DEF StreamType, OnDisk
  <2> QED BY <2>1, <2>2
<1>6. /\ writing' \in Turns /\ writing'.call = writing.call /\ writing'.batch = writing.batch /\ writing'.lines = rest
      /\ writing # Stream!Resting
  <2>1. PICK c, b, q : writing = [call |-> c, batch |-> b, lines |-> q]
                       /\ c \in Calls \cup {0} /\ b \in Seq(Events) /\ q \in Seq(Seq(Row))
    BY <1>1 DEF Turns
  <2>2. writing' = [call |-> c, batch |-> b, lines |-> rest]
    BY <1>2, <2>1
  <2>3. [call |-> c, batch |-> b, lines |-> rest] \in Turns
    BY <1>3, <2>1 DEF Turns
  <2>4. writing # Stream!Resting
    BY <1>1 DEF Stream!Resting
  <2> QED BY <2>1, <2>2, <2>3, <2>4
<1>7. writing.call \in Calls /\ EntryOf(writing') = EntryOf(writing) /\ writing.batch \in Seq(Events)
  BY <1>1, <1>6 DEF StreamType, EntryOf, Turns
<1>8. StreamType'
  BY <1>1, <1>2, <1>5, <1>6, <1>7 DEF StreamType
<1>9. TurnBacked'
  BY <1>2, <1>4, <1>5, <1>6 DEF StreamInv, TurnBacked
<1>10. StreamBacked'
  <2>1. OnDisk \subseteq OnDisk'
    BY <1>5
  <2> QED BY <1>2, <2>1, BackedMore DEF StreamInv, StreamBacked
<1>11. InStream' \subseteq InStream
  BY <1>2, <1>6, <1>7 DEF InStream
<1>12. InFile \subseteq InFile' /\ \A x \in InFile' \ InFile : x \in ToSet(writing.batch)
  <2>1. InFile = {r.event : r \in OnDisk} /\ InFile' = {r.event : r \in OnDisk'}
    <3>1. {file[i].event : i \in DOMAIN file}' = {r.event : r \in ToSet(file')}
      BY DEF ToSet
    <3>2. InFile' = {r.event : r \in OnDisk'}
      BY <3>1 DEF InFile, OnDisk
    <3> QED BY <3>2, SeenIsOnDisk
  <2>2. \A r \in ToSet(line) : r \in ToSet(Chained(writing.batch, streamHeads))
    BY <1>4, <1>6 DEF StreamInv, TurnBacked
  <2>3. {r.event : r \in ToSet(Chained(writing.batch, streamHeads))} = ToSet(writing.batch)
    BY <1>1, <1>7, ChainedProperties DEF StreamType
  <2> QED BY <1>5, <2>1, <2>2, <2>3
<1>13. EntryOf(writing) \in InStream /\ EntryOf(writing).batch = writing.batch
  BY <1>1, <1>6, StreamEntries DEF EntryOf
<1>14. Moved(InStream, InStream', streamAnswer, streamAnswer', InFile, InFile')
  BY <1>2, <1>11, <1>12, <1>13 DEF Moved
<1> QED BY <1>8, <1>9, <1>10, <1>14 DEF StreamInv

\* A line cannot be written.
LEMMA StreamLineFails ==
    ASSUME StreamInv, Stream!LineFails
    PROVE  StreamInv' /\ Moved(InStream, InStream', streamAnswer, streamAnswer', InFile, InFile')
<1>1. /\ writing # Stream!Resting /\ Stream!Answered("failed")
      /\ UNCHANGED <<format, file, glued, sidecar, streamHeads>>
  BY DEF Stream!LineFails, Stream!Resting
<1>2. OnDisk' = OnDisk /\ InFile' = InFile /\ StreamType
  BY <1>1 DEF OnDisk, InFile, StreamInv
<1>3. HeadsOk(streamHeads')
  BY <1>1, <1>2 DEF StreamType
<1>4. /\ queue' \in Seq(Entries) /\ writing' \in Turns
      /\ writing' # Stream!Resting => writing'.call \in Calls
      /\ streamAnswer' \in [Calls -> Ends]
      /\ TurnBacked'
      /\ Moved(InStream, InStream', streamAnswer, streamAnswer', InFile, InFile)
  BY <1>1, <1>2, <1>3, StreamTurns
<1>5. StreamType'
  BY <1>1, <1>2, <1>4 DEF StreamType
<1>6. StreamBacked'
  BY <1>1, <1>2 DEF StreamInv, StreamBacked
<1> QED BY <1>2, <1>4, <1>5, <1>6 DEF StreamInv

\* All lines are written: the heads move, and the sidecar too unless it cannot be written.
LEMMA StreamHeadsMove ==
    ASSUME StreamInv, writing # Stream!Resting, writing.lines = <<>>,
           streamHeads' = Stream!HeadsAfter(writing.batch, streamHeads),
           sidecar' = streamHeads' \/ sidecar' = sidecar,
           UNCHANGED <<format, file, glued>>,
           NEW how \in {"ok", "failed"}, Stream!Answered(how)
    PROVE  StreamInv' /\ Moved(InStream, InStream', streamAnswer, streamAnswer', InFile, InFile')
<1>1. StreamType /\ writing.batch \in Seq(Events) /\ HeadsOk(streamHeads)
  BY DEF StreamInv, StreamType, Turns
<1>2. OnDisk' = OnDisk /\ InFile' = InFile
  BY DEF OnDisk, InFile
<1>3. streamHeads' = HeadsAfter(writing.batch, streamHeads)
  BY StreamOps
<1>4. HeadsOk(streamHeads')
  BY <1>1, <1>3, HeadsAfterProperties
<1>5. ToSet(Chained(writing.batch, streamHeads)) \subseteq OnDisk
  <2>1. RowsIn(<<>>) = {}
    BY DEF RowsIn
  <2> QED BY <2>1 DEF StreamInv, TurnBacked
<1>6. \A s \in Streams : BackedBy(streamHeads'[s], OnDisk)
  <2>1. OnDisk \cup ToSet(Chained(writing.batch, streamHeads)) = OnDisk
    BY <1>5
  <2> SUFFICES ASSUME NEW s \in Streams PROVE BackedBy(HeadsAfter(writing.batch, streamHeads)[s], OnDisk)
    BY <1>3
  <2>2. BackedBy(streamHeads[s], OnDisk)
    BY DEF StreamInv, StreamBacked
  <2>3. BackedBy(HeadsAfter(writing.batch, streamHeads)[s], OnDisk \cup ToSet(Chained(writing.batch, streamHeads)))
    BY <1>1, <2>2, BackedAfter
  <2> QED BY <2>1, <2>3
<1>7. ToSet(writing.batch) \subseteq InFile
  BY <1>1, <1>5, ChainedProperties, SeenIsOnDisk
<1>8. /\ queue' \in Seq(Entries) /\ writing' \in Turns
      /\ writing' # Stream!Resting => writing'.call \in Calls
      /\ streamAnswer' \in [Calls -> Ends]
      /\ TurnBacked'
      /\ Moved(InStream, InStream', streamAnswer, streamAnswer', InFile, InFile)
  BY <1>2, <1>4, <1>7, StreamTurns
<1>9. HeadsOk(sidecar') /\ StreamType'
  BY <1>1, <1>4, <1>8 DEF StreamType
<1>10. StreamBacked'
  BY <1>2, <1>6 DEF StreamInv, StreamBacked
<1> QED BY <1>2, <1>8, <1>9, <1>10 DEF StreamInv

LEMMA StreamWriteStep ==
    ASSUME StreamInv, Stream!WriteStep
    PROVE  StreamInv' /\ Moved(InStream, InStream', streamAnswer, streamAnswer', InFile, InFile')
<1>1. CASE Stream!WriteLine
  BY <1>1, StreamLine
<1>2. CASE Stream!LineFails
  BY <1>2, StreamLineFails
<1>3. CASE Stream!FinishBatch
  <2>1. /\ writing # Stream!Resting /\ writing.lines = <<>>
        /\ streamHeads' = Stream!HeadsAfter(writing.batch, streamHeads)
        /\ sidecar' = streamHeads' /\ UNCHANGED <<format, file, glued>> /\ Stream!Answered("ok")
    BY <1>3 DEF Stream!FinishBatch
  <2> QED BY <2>1, StreamHeadsMove
<1>4. CASE Stream!PersistFails
  <2>1. /\ writing # Stream!Resting /\ writing.lines = <<>>
        /\ streamHeads' = Stream!HeadsAfter(writing.batch, streamHeads)
        /\ sidecar' = sidecar /\ UNCHANGED <<format, file, glued>> /\ Stream!Answered("failed")
    BY <1>4 DEF Stream!PersistFails, Stream!disk
  <2> QED BY <2>1, StreamHeadsMove
<1> QED BY <1>1, <1>2, <1>3, <1>4 DEF Stream!WriteStep

\* The process dies: the heads are those of the sidecar.
LEMMA StreamCrash ==
    ASSUME StreamInv, Stream!Crash
    PROVE  StreamInv' /\ InStream' = {} /\ InFile' = InFile /\ streamAnswer' = [c \in Calls |-> "none"]
<1>1. /\ queue' = <<>> /\ writing' = Stream!Resting /\ streamHeads' = sidecar
      /\ streamAnswer' = [c \in Calls |-> "none"] /\ UNCHANGED <<format, file, glued, sidecar>>
  BY DEF Stream!Crash
<1>2. OnDisk' = OnDisk /\ InFile' = InFile /\ StreamType
  BY <1>1 DEF OnDisk, InFile, StreamInv
<1>3. queue' \in Seq(Entries) /\ ToSet(queue') = {}
  BY <1>1 DEF ToSet
<1>4. writing' \in Turns
  <2>1. <<>> \in Seq(Events) /\ <<>> \in Seq(Seq(Row))
    OBVIOUS
  <2> QED BY <1>1, <2>1 DEF Turns, Stream!Resting, Stream!NoCall
<1>5. StreamType'
  BY <1>1, <1>2, <1>3, <1>4 DEF StreamType, Ends
<1>6. TurnBacked' /\ StreamBacked'
  BY <1>1, <1>2 DEF StreamInv, TurnBacked, StreamBacked
<1> QED BY <1>1, <1>2, <1>3, <1>5, <1>6 DEF StreamInv, InStream

-----------------------------------------------------------------------------
(* The HTTP store. *)

Posts == [phase : {"none", "posting", "taken"}, batch : Seq(Events), rows : Seq(Row),
          next : [Streams -> [seq : Nat, hash : Seq(Entry)]]]

InHttp == {[call |-> c, batch |-> call[c].batch] : c \in {d \in Calls : call[d].phase # "none"}}

HttpType ==
    /\ HeadsOk(httpHeads)
    /\ call \in [Calls -> Posts] /\ \A c \in Calls : HeadsOk(call[c].next)
    /\ httpAnswer \in [Calls -> Ends]

\* What a call has posted has the events of its batch and backs the heads it will set, with
\* what the collector had.
PostBacked(k) ==
    k.phase # "none" =>
        /\ {r.event : r \in ToSet(k.rows)} = ToSet(k.batch)
        /\ \A s \in Streams : BackedBy(k.next[s], collector \cup ToSet(k.rows))
        /\ k.phase = "taken" => ToSet(k.rows) \subseteq collector

HttpBacked == \A s \in Streams : BackedBy(httpHeads[s], collector)

HttpInv == HttpType /\ (\A c \in Calls : PostBacked(call[c])) /\ HttpBacked

LEMMA NoHeadsOk == HeadsOk(NoHeads) /\ \A R : \A s \in Streams : BackedBy(NoHeads[s], R)
<1>1. <<>> \in Seq(Entry) /\ Len(<<>>) = 0
  OBVIOUS
<1>2. \A s \in Streams : NoHeads[s] = [seq |-> 0, hash |-> <<>>]
  BY DEF NoHeads, NoHead, GENESIS
<1>3. HeadsOk(NoHeads)
  BY <1>1, <1>2 DEF HeadsOk, IsHead, NoHeads, NoHead, GENESIS
<1>4. ASSUME NEW s \in Streams, NEW R PROVE BackedBy(NoHeads[s], R)
  BY <1>2 DEF BackedBy
<1> QED BY <1>3, <1>4

LEMMA NoCallOk == Http!NoCall \in Posts /\ HeadsOk(Http!NoCall.next) /\ Http!NoCall.phase = "none"
<1>1. <<>> \in Seq(Events) /\ <<>> \in Seq(Row)
  OBVIOUS
<1>2. Http!NoCall = [phase |-> "none", batch |-> <<>>, rows |-> <<>>, next |-> NoHeads]
  BY HttpOps DEF Http!NoCall
<1>3. NoHeads \in [Streams -> [seq : Nat, hash : Seq(Entry)]]
  BY NoHeadsOk DEF HeadsOk
<1> QED BY <1>1, <1>2, <1>3, NoHeadsOk DEF Posts

\* write() of the HTTP store.
LEMMA HttpCalled ==
    ASSUME HttpInv, NEW c \in Calls, NEW b \in Seq(Events), Http!Write(c, b)
    PROVE  /\ HttpInv'
           /\ httpAnswer[c] = "none"
           /\ Called(c, b, InHttp, InHttp', httpAnswer, httpAnswer', Collected, Collected')
<1> DEFINE k == [phase |-> "posting", batch |-> b, rows |-> Chained(b, httpHeads),
                 next |-> HeadsAfter(b, httpHeads)]
<1>1. /\ httpAnswer[c] = "none" /\ httpAnswer' = [httpAnswer EXCEPT ![c] = "pending"]
      /\ call' = [call EXCEPT ![c] = k] /\ UNCHANGED <<httpHeads, collector>>
  BY HttpOps DEF Http!Write
<1>2. HttpType /\ HeadsOk(httpHeads) /\ HttpBacked
  BY DEF HttpInv, HttpType
<1>3. HeadsOk(HeadsAfter(b, httpHeads)) /\ Chained(b, httpHeads) \in Seq(Row)
      /\ {r.event : r \in ToSet(Chained(b, httpHeads))} = ToSet(b)
  BY <1>2, HeadsAfterProperties, ChainedProperties
<1>4. /\ k \in Posts /\ HeadsOk(k.next) /\ k.phase = "posting" /\ k.batch = b
      /\ k.rows = Chained(b, httpHeads) /\ k.next = HeadsAfter(b, httpHeads)
  BY <1>3 DEF Posts, HeadsOk
<1>5. \A s \in Streams : BackedBy(HeadsAfter(b, httpHeads)[s], collector \cup ToSet(Chained(b, httpHeads)))
  BY <1>2, BackedAfter DEF HttpBacked
<1> HIDE DEF k
<1>6. PostBacked(k)
  BY <1>3, <1>4, <1>5 DEF PostBacked
<1>7. call \in [Calls -> Posts] /\ call' \in [Calls -> Posts] /\ call'[c] = k
      /\ \A d \in Calls \ {c} : call'[d] = call[d]
  BY <1>1, <1>2, <1>4 DEF HttpType
<1>8. \A d \in Calls : HeadsOk(call'[d].next)
  BY <1>2, <1>4, <1>7 DEF HttpType
<1>9. httpAnswer' \in [Calls -> Ends]
  BY <1>1, <1>2 DEF HttpType, Ends
<1>10. HttpType'
  BY <1>1, <1>2, <1>7, <1>8, <1>9 DEF HttpType
<1>11. ASSUME NEW d \in Calls PROVE PostBacked(call[d])'
  BY <1>1, <1>6, <1>7 DEF HttpInv, PostBacked
<1>12. HttpBacked'
  BY <1>1, <1>2 DEF HttpBacked
<1>13. HttpInv'
  BY <1>10, <1>11, <1>12 DEF HttpInv
<1>14. InHttp' \subseteq InHttp \cup {[call |-> c, batch |-> b]}
  <2> SUFFICES ASSUME NEW d \in Calls, call'[d].phase # "none"
               PROVE  [call |-> d, batch |-> call'[d].batch] \in InHttp \cup {[call |-> c, batch |-> b]}
    BY DEF InHttp
  <2>1. CASE d = c
    BY <1>4, <1>7, <2>1
  <2>2. CASE d # c
    BY <1>7, <2>2 DEF InHttp
  <2> QED BY <2>1, <2>2
<1>15. Collected' = Collected
  BY <1>1 DEF Collected
<1> QED BY <1>1, <1>13, <1>14, <1>15 DEF Called

\* The collector takes a batch.
LEMMA HttpTakes ==
    ASSUME HttpInv, NEW c \in Calls, Http!Take(c)
    PROVE  HttpInv' /\ Moved(InHttp, InHttp', httpAnswer, httpAnswer', Collected, Collected')
<1>1. /\ call[c].phase = "posting" /\ collector' = collector \cup ToSet(call[c].rows)
      /\ call' = [call EXCEPT ![c].phase = "taken"] /\ UNCHANGED <<httpHeads, httpAnswer>>
  BY HttpOps DEF Http!Take
<1>2. HttpType /\ HttpBacked /\ call \in [Calls -> Posts] /\ call[c] \in Posts
  BY DEF HttpInv, HttpType
<1>3. PICK k : k = [call[c] EXCEPT !.phase = "taken"]
  OBVIOUS
<1>4. /\ k \in Posts /\ k.phase = "taken" /\ k.batch = call[c].batch /\ k.rows = call[c].rows
      /\ k.next = call[c].next
  BY <1>2, <1>3 DEF Posts
<1>5. call' \in [Calls -> Posts] /\ call'[c] = k /\ \A d \in Calls \ {c} : call'[d] = call[d]
  BY <1>1, <1>2, <1>3, <1>4
<1>6. HttpType'
  BY <1>1, <1>2, <1>4, <1>5 DEF HttpType
<1>7. \A head : BackedBy(head, collector) => BackedBy(head, collector')
  BY <1>1, BackedMore
<1>8. ASSUME NEW d \in Calls PROVE PostBacked(call[d])'
  <2>1. collector \subseteq collector'
    BY <1>1
  <2>2. PostBacked(call[d])
    BY DEF HttpInv
  <2>3. \A s \in Streams : BackedBy(call[d].next[s], collector \cup ToSet(call[d].rows))
                           => BackedBy(call[d].next[s], collector' \cup ToSet(call[d].rows))
    BY <2>1, BackedMore
  <2>4. CASE d # c
    BY <1>5, <2>1, <2>2, <2>3, <2>4 DEF PostBacked
  <2>5. CASE d = c
    <3>1. call'[d].phase = "taken" /\ call'[d].batch = call[d].batch /\ call'[d].rows = call[d].rows
          /\ call'[d].next = call[d].next
      BY <1>4, <1>5, <2>5
    <3>2. call[d].phase # "none" /\ ToSet(call[d].rows) \subseteq collector'
      BY <1>1, <2>5
    <3> QED BY <2>2, <2>3, <3>1, <3>2 DEF PostBacked
  <2> QED BY <2>4, <2>5
<1>9. HttpBacked'
  BY <1>1, <1>2, <1>7 DEF HttpBacked
<1>10. InHttp' \subseteq InHttp
  <2> SUFFICES ASSUME NEW d \in Calls, call'[d].phase # "none"
               PROVE  call[d].phase # "none" /\ call'[d].batch = call[d].batch
    BY DEF InHttp
  <2> QED BY <1>1, <1>4, <1>5
<1>11. [call |-> c, batch |-> call[c].batch] \in InHttp
  BY <1>1 DEF InHttp
<1>12. {r.event : r \in ToSet(call[c].rows)} = ToSet(call[c].batch)
  BY <1>1 DEF HttpInv, PostBacked
<1>13. Collected \subseteq Collected' /\ \A x \in Collected' \ Collected : x \in ToSet(call[c].batch)
  BY <1>1, <1>12 DEF Collected
<1>14. Moved(InHttp, InHttp', httpAnswer, httpAnswer', Collected, Collected')
  BY <1>1, <1>10, <1>11, <1>13 DEF Moved
<1> QED BY <1>6, <1>8, <1>9, <1>14 DEF HttpInv

\* A call ends, with or without its heads set.
LEMMA HttpEnds ==
    ASSUME HttpInv, NEW c \in Calls, NEW how \in {"ok", "failed"}, call[c].phase # "none",
           Http!Answered(c, how), UNCHANGED collector,
           how = "ok" => call[c].phase = "taken",
           httpHeads' = httpHeads \/ (how = "ok" /\ Http!MoveHeads(c))
    PROVE  HttpInv' /\ Moved(InHttp, InHttp', httpAnswer, httpAnswer', Collected, Collected')
<1>1. call' = [call EXCEPT ![c] = Http!NoCall] /\ httpAnswer' = [httpAnswer EXCEPT ![c] = how]
  BY DEF Http!Answered
<1>2. HttpType /\ HttpBacked /\ call \in [Calls -> Posts] /\ call[c] \in Posts /\ HeadsOk(httpHeads)
      /\ HeadsOk(call[c].next) /\ PostBacked(call[c])
  BY DEF HttpInv, HttpType
<1>3. call' \in [Calls -> Posts] /\ call'[c] = Http!NoCall /\ \A d \in Calls \ {c} : call'[d] = call[d]
  BY <1>1, <1>2, NoCallOk
<1>4. httpAnswer' \in [Calls -> Ends] /\ \A d \in Calls : httpAnswer'[d] # httpAnswer[d] => d = c /\ httpAnswer'[d] = how
  BY <1>1, <1>2 DEF HttpType, Ends
<1>5. HeadsOk(httpHeads') /\ \A s \in Streams : BackedBy(httpHeads'[s], collector)
  <2>1. CASE httpHeads' = httpHeads
    BY <1>2, <2>1 DEF HttpBacked
  <2>2. CASE how = "ok" /\ Http!MoveHeads(c)
    <3>1. httpHeads' = [s \in Streams |-> IF Http!OfStream(call[c].batch, s) = <<>> THEN httpHeads[s]
                                          ELSE call[c].next[s]]
      BY <2>2 DEF Http!MoveHeads
    <3>2. \A s \in Streams : httpHeads'[s] = httpHeads[s] \/ httpHeads'[s] = call[c].next[s]
      BY <3>1
    <3>3. httpHeads' = [s \in Streams |-> httpHeads'[s]]
      BY <3>1
    <3>4. \A s \in Streams : IsHead(httpHeads'[s])
      BY <1>2, <3>2 DEF HeadsOk
    <3>5. HeadsOk(httpHeads')
      BY <3>3, <3>4 DEF HeadsOk, IsHead
    <3>6. collector \cup ToSet(call[c].rows) = collector
      BY <1>2, <2>2 DEF PostBacked
    <3>7. \A s \in Streams : BackedBy(call[c].next[s], collector)
      BY <1>2, <3>6 DEF PostBacked
    <3> QED BY <1>2, <3>2, <3>5, <3>7 DEF HttpBacked
  <2> QED BY <2>1, <2>2
<1>6. HttpType'
  BY <1>2, <1>3, <1>4, <1>5, NoCallOk DEF HttpType
<1>7. ASSUME NEW d \in Calls PROVE PostBacked(call[d])'
  <2>1. CASE d = c
    BY <1>3, <2>1, NoCallOk DEF PostBacked
  <2>2. CASE d # c
    BY <1>3, <2>2 DEF HttpInv, PostBacked
  <2> QED BY <2>1, <2>2
<1>8. HttpBacked'
  BY <1>5 DEF HttpBacked
<1>9. InHttp' \subseteq InHttp
  <2> SUFFICES ASSUME NEW d \in Calls, call'[d].phase # "none"
               PROVE  call[d].phase # "none" /\ call'[d].batch = call[d].batch
    BY DEF InHttp
  <2> QED BY <1>3, NoCallOk
<1>10. [call |-> c, batch |-> call[c].batch] \in InHttp
  BY DEF InHttp
<1>11. how = "ok" => ToSet(call[c].batch) \subseteq Collected
  BY <1>2 DEF PostBacked, Collected
<1>12. Collected' = Collected
  BY DEF Collected
<1>13. Moved(InHttp, InHttp', httpAnswer, httpAnswer', Collected, Collected')
  BY <1>4, <1>9, <1>10, <1>11, <1>12 DEF Moved
<1> QED BY <1>6, <1>7, <1>8, <1>13 DEF HttpInv

LEMMA HttpWriteStep ==
    ASSUME HttpInv, Http!WriteStep
    PROVE  HttpInv' /\ Moved(InHttp, InHttp', httpAnswer, httpAnswer', Collected, Collected')
<1>1. PICK c \in Calls : Http!Take(c) \/ Http!Done(c) \/ Http!PostFails(c)
  BY DEF Http!WriteStep
<1>2. CASE Http!Take(c)
  BY <1>2, HttpTakes
<1>3. CASE Http!Done(c)
  <2>1. call[c].phase = "taken" /\ Http!MoveHeads(c) /\ Http!Answered(c, "ok") /\ UNCHANGED collector
    BY <1>3 DEF Http!Done
  <2> QED BY <2>1, HttpEnds
<1>4. CASE Http!PostFails(c)
  <2>1. call[c].phase # "none" /\ Http!Answered(c, "failed") /\ UNCHANGED <<collector, httpHeads>>
    BY <1>4 DEF Http!PostFails
  <2> QED BY <2>1, HttpEnds
<1> QED BY <1>1, <1>2, <1>3, <1>4

\* Nothing but the window changes.
LEMMA HttpStays ==
    ASSUME HttpInv, UNCHANGED <<httpHeads, call, httpAnswer, collector>>
    PROVE  HttpInv' /\ InHttp' = InHttp /\ Collected' = Collected
<1>1. HttpType' /\ HttpBacked'
  BY DEF HttpInv, HttpType, HttpBacked
<1>2. \A c \in Calls : PostBacked(call[c])'
  BY DEF HttpInv, PostBacked
<1>3. InHttp' = InHttp /\ Collected' = Collected
  BY DEF InHttp, Collected
<1> QED BY <1>1, <1>2, <1>3 DEF HttpInv

LEMMA HttpPruneStep ==
    ASSUME HttpInv, Http!PruneStep
    PROVE  HttpInv' /\ Moved(InHttp, InHttp', httpAnswer, httpAnswer', Collected, Collected')
<1>1. UNCHANGED <<httpHeads, call, httpAnswer, collector>>
  BY DEF Http!PruneStep, Http!Prune, Http!SelectRows, Http!KeepRetained, Http!PruneEnds
<1>2. HttpInv' /\ InHttp' = InHttp /\ Collected' = Collected
  BY <1>1, HttpStays
<1> QED BY <1>1, <1>2 DEF Moved

LEMMA HttpCrash ==
    ASSUME HttpInv, Http!Crash
    PROVE  HttpInv' /\ InHttp' = {} /\ Collected' = Collected /\ httpAnswer' = [c \in Calls |-> "none"]
<1>1. /\ httpHeads' = NoHeads /\ call' = [c \in Calls |-> Http!NoCall]
      /\ httpAnswer' = [c \in Calls |-> "none"] /\ UNCHANGED collector
  BY HttpOps DEF Http!Crash
<1>2. HttpType'
  BY <1>1, NoHeadsOk, NoCallOk DEF HttpType, Ends
<1>3. \A c \in Calls : PostBacked(call[c])'
  BY <1>1, NoCallOk DEF PostBacked
<1>4. HttpBacked'
  BY <1>1, NoHeadsOk DEF HttpBacked
<1>5. InHttp' = {}
  BY <1>1, NoCallOk DEF InHttp
<1> QED BY <1>1, <1>2, <1>3, <1>4, <1>5 DEF HttpInv, Collected

-----------------------------------------------------------------------------
(* The primary and a mirror. *)

\* A mirror has no call that was not made, and of the last call the batch it was made with;
\* it answers that call "ok" when it has the batch.  In mode m, with what p the primary has,
\* in phase ph of the call n with batch b.
Told(entries, answers, seen, m, p, ph, b, n) ==
    /\ \A e \in entries : e.call <= n /\ (e.call = n => e.batch = b)
    /\ \A c \in Calls : /\ c > n => answers[c] = "none"
                        /\ c = n /\ answers[c] = "ok" => ToSet(b) \subseteq seen
    /\ m = "throw" => p \subseteq seen /\ (ph = "primary" => ToSet(b) \subseteq seen)
    /\ m = "log" => seen \subseteq p /\ \A e \in entries : ToSet(e.batch) \subseteq p

LEMMA ToldMoved ==
    ASSUME NEW entries, NEW entries2, NEW answers, NEW answers2, NEW seen, NEW seen2,
           NEW m, NEW p, NEW ph, NEW b, NEW n \in Nat, entries \subseteq Entries,
           Told(entries, answers, seen, m, p, ph, b, n),
           Moved(entries, entries2, answers, answers2, seen, seen2)
    PROVE  Told(entries2, answers2, seen2, m, p, ph, b, n)
<1>1. \A e \in entries2 : e \in entries
  BY DEF Moved
<1>2. ASSUME NEW c \in Calls
      PROVE  /\ c > n => answers2[c] = "none"
             /\ c = n /\ answers2[c] = "ok" => ToSet(b) \subseteq seen2
  <2>1. CASE answers2[c] = answers[c]
    BY <2>1 DEF Moved, Told
  <2>2. CASE answers2[c] # answers[c]
    <3>1. PICK e \in entries : e.call = c /\ (answers2[c] = "ok" => ToSet(e.batch) \subseteq seen)
      BY <2>2 DEF Moved
    <3>2. c <= n /\ (c = n => e.batch = b)
      BY <3>1 DEF Told
    <3>3. c \in Nat
      BY FanoutAssumption DEF Calls
    <3> QED BY <3>1, <3>2, <3>3 DEF Moved
  <2> QED BY <2>1, <2>2
<1>3. m = "throw" => p \subseteq seen2 /\ (ph = "primary" => ToSet(b) \subseteq seen2)
  BY DEF Told, Moved
<1>4. m = "log" => seen2 \subseteq p /\ \A e \in entries2 : ToSet(e.batch) \subseteq p
  <2> SUFFICES ASSUME m = "log" PROVE seen2 \subseteq p
    BY <1>1 DEF Told
  <2>1. \A x \in seen2 \ seen : x \in p
    BY DEF Told, Moved
  <2> QED BY <2>1 DEF Told
<1> QED BY <1>1, <1>2, <1>3, <1>4 DEF Told

\* The mirror is called: first in mode "throw", after the primary in mode "log".
LEMMA ToldCalled ==
    ASSUME NEW entries, NEW entries2, NEW answers \in [Calls -> Ends], NEW answers2, NEW seen, NEW seen2,
           NEW m, NEW p, NEW ph, NEW b, NEW n \in Nat, entries \subseteq Entries,
           NEW p2, NEW b2, NEW n2 \in Calls,
           Told(entries, answers, seen, m, p, ph, b, n),
           Called(n2, b2, entries, entries2, answers, answers2, seen, seen2),
           \/ m = "throw" /\ n2 = n + 1 /\ p2 = p
           \/ m = "log" /\ n2 = n /\ b2 = b /\ p \subseteq p2 /\ ToSet(b) \subseteq p2
    PROVE  Told(entries2, answers2, seen2, m, p2, "mirrors", b2, n2)
<1>1. n2 \in Nat /\ \A e \in entries : e.call \in Nat
  BY FanoutAssumption DEF Calls, Entries
<1>2. ASSUME NEW e \in entries2 PROVE e.call <= n2 /\ (e.call = n2 => e.batch = b2)
  <2>1. CASE e \in entries
    BY <1>1, <2>1 DEF Told
  <2>2. CASE e = [call |-> n2, batch |-> b2]
    BY <1>1, <2>2
  <2> QED BY <2>1, <2>2 DEF Called
<1>3. ASSUME NEW c \in Calls PROVE (c > n2 => answers2[c] = "none") /\ (c = n2 => answers2[c] = "pending")
  <2>1. c \in Nat
    BY FanoutAssumption DEF Calls
  <2>2. c > n2 => c > n /\ c # n2
    BY <1>1, <2>1
  <2> QED BY <2>2 DEF Told, Called
<1>4. m = "throw" => p2 \subseteq seen2
  BY DEF Told, Called
<1>5. m = "log" => seen2 \subseteq p2 /\ \A e \in entries2 : ToSet(e.batch) \subseteq p2
  BY DEF Told, Called
<1> QED BY <1>2, <1>3, <1>4, <1>5 DEF Told

FanoutType ==
    /\ mode \in {"throw", "log"} /\ phase \in {"idle", "mirrors", "primary"}
    /\ batch \in Seq(Events) /\ calls \in 0 .. MaxCalls
    /\ phase # "idle" => calls \in Calls

StreamTold == Told(InStream, streamAnswer, InFile, mode, primary, phase, batch, calls)
HttpTold == Told(InHttp, httpAnswer, Collected, mode, primary, phase, batch, calls)

IInv == StreamInv /\ HttpInv /\ FanoutType /\ StreamTold /\ HttpTold

LEMMA HttpEntries ==
    ASSUME HttpType
    PROVE  InHttp \subseteq Entries
BY DEF HttpType, Posts, InHttp, Entries

\* Nothing of the stream store changes.
LEMMA StreamStays ==
    ASSUME StreamInv, UNCHANGED streamVars
    PROVE  StreamInv' /\ InStream' = InStream /\ InFile' = InFile /\ streamAnswer' = streamAnswer
<1> USE DEF streamVars
<1>1. OnDisk' = OnDisk /\ InFile' = InFile /\ InStream' = InStream
  BY DEF OnDisk, InFile, InStream
<1>2. StreamType' /\ TurnBacked' /\ StreamBacked'
  BY <1>1 DEF StreamInv, StreamType, TurnBacked, StreamBacked
<1> QED BY <1>1, <1>2 DEF StreamInv

\* Every mirror is called.
LEMMA MirrorsCalled ==
    ASSUME StreamInv, HttpInv, NEW c \in Calls, calls' = c, NEW b \in Seq(Events), CallMirrors(b)
    PROVE  /\ StreamInv' /\ HttpInv'
           /\ Called(c, b, InStream, InStream', streamAnswer, streamAnswer', InFile, InFile')
           /\ Called(c, b, InHttp, InHttp', httpAnswer, httpAnswer', Collected, Collected')
<1>1. Stream!Write(c, b) /\ Http!Write(c, b)
  BY DEF CallMirrors
<1> QED BY <1>1, StreamCalled, HttpCalled

LEMMA InitOk == Init => IInv
<1> SUFFICES ASSUME Init PROVE IInv
  OBVIOUS
<1> USE DEF Init
<1>1. <<>> \in Seq(Row) /\ <<>> \in Seq(Entries) /\ <<>> \in Seq(Events) /\ <<>> \in Seq(Seq(Row))
      /\ ToSet(<<>>) = {}
  BY DEF ToSet
<1>2. /\ format \in Formats /\ file = <<>> /\ glued = {} /\ sidecar = NoHeads /\ streamHeads = NoHeads
      /\ queue = <<>> /\ writing = Stream!Resting /\ streamAnswer = [c \in Calls |-> "none"]
  BY StreamOps DEF Stream!Init
<1>3. Stream!Resting \in Turns
  BY <1>1 DEF Turns, Stream!Resting, Stream!NoCall
<1>4. StreamType
  BY <1>1, <1>2, <1>3, NoHeadsOk, FanoutAssumption DEF StreamType, Ends
<1>5. TurnBacked /\ StreamBacked
  BY <1>2, NoHeadsOk DEF TurnBacked, StreamBacked
<1>6. /\ httpHeads = NoHeads /\ call = [c \in Calls |-> Http!NoCall]
      /\ httpAnswer = [c \in Calls |-> "none"] /\ collector = {}
  BY HttpOps DEF Http!Init
<1>7. HttpType /\ HttpBacked
  BY <1>6, NoHeadsOk, NoCallOk DEF HttpType, HttpBacked, Ends
<1>8. \A c \in Calls : PostBacked(call[c])
  BY <1>6, NoCallOk DEF PostBacked
<1>9. FanoutType
  BY <1>1, FanoutAssumption DEF FanoutType
<1>10. InStream = {} /\ InHttp = {} /\ InFile = {} /\ Collected = {}
  BY <1>1, <1>2, <1>6, NoCallOk DEF InStream, InHttp, InFile, Collected
<1>11. StreamTold
  BY <1>2, <1>10 DEF StreamTold, Told
<1>12. HttpTold
  BY <1>6, <1>10 DEF HttpTold, Told
<1> QED BY <1>4, <1>5, <1>7, <1>8, <1>9, <1>11, <1>12 DEF IInv, StreamInv, HttpInv

LEMMA NextOk == IInv /\ [Next]_vars => IInv'
<1> SUFFICES ASSUME IInv, [Next]_vars PROVE IInv'
  OBVIOUS
<1>1. /\ StreamInv /\ HttpInv /\ FanoutType /\ StreamTold /\ HttpTold
      /\ calls \in Nat /\ MaxCalls \in Nat /\ Calls = 1 .. MaxCalls
      /\ InStream \subseteq Entries /\ InHttp \subseteq Entries
      /\ streamAnswer \in [Calls -> Ends] /\ httpAnswer \in [Calls -> Ends]
  BY FanoutAssumption, StreamEntries, HttpEntries DEF IInv, StreamInv, StreamType, HttpInv, HttpType, FanoutType, Calls
<1>2. ASSUME UNCHANGED <<streamVars, httpVars>>
      PROVE  /\ StreamInv' /\ HttpInv' /\ InStream' = InStream /\ InHttp' = InHttp /\ InFile' = InFile
             /\ Collected' = Collected /\ UNCHANGED <<streamAnswer, httpAnswer>>
  BY <1>1, <1>2, StreamStays, HttpStays DEF httpVars
<1>3. CASE UNCHANGED vars
  <2>1. UNCHANGED <<streamVars, httpVars>> /\ UNCHANGED fanoutVars
    BY <1>3 DEF vars
  <2>2. FanoutType' /\ StreamTold' /\ HttpTold'
    BY <1>1, <1>2, <2>1 DEF fanoutVars, FanoutType, StreamTold, HttpTold
  <2> QED BY <1>2, <2>1, <2>2 DEF IInv
<1>4. ASSUME NEW b \in Batches, Write(b) PROVE IInv'
  <2>1. b \in Seq(Events) /\ calls' = calls + 1 /\ calls' \in Calls /\ batch' = b /\ UNCHANGED <<mode, primary>>
    BY <1>1, <1>4, FanoutAssumption DEF Write
  <2>2. CASE mode = "throw" /\ phase' = "mirrors" /\ CallMirrors(b)
    <3>1. /\ StreamInv' /\ HttpInv'
          /\ Called(calls', b, InStream, InStream', streamAnswer, streamAnswer', InFile, InFile')
          /\ Called(calls', b, InHttp, InHttp', httpAnswer, httpAnswer', Collected, Collected')
      BY <1>1, <2>1, <2>2, MirrorsCalled
    <3>2. StreamTold'
      BY <1>1, <2>1, <2>2, <3>1, ToldCalled DEF StreamTold
    <3>3. HttpTold'
      BY <1>1, <2>1, <2>2, <3>1, ToldCalled DEF HttpTold
    <3>4. FanoutType'
      BY <1>1, <2>1, <2>2 DEF FanoutType
    <3> QED BY <3>1, <3>2, <3>3, <3>4 DEF IInv
  <2>3. CASE mode = "log" /\ phase' = "primary" /\ UNCHANGED <<streamVars, httpVars>>
    <3>1. /\ StreamInv' /\ HttpInv' /\ InStream' = InStream /\ InHttp' = InHttp /\ InFile' = InFile
          /\ Collected' = Collected /\ UNCHANGED <<streamAnswer, httpAnswer>>
      BY <1>2, <2>3
    <3>2. ASSUME NEW entries, entries \subseteq Entries, NEW answers, NEW seen,
                 Told(entries, answers, seen, "log", primary, phase, batch, calls)
          PROVE  Told(entries, answers, seen, "log", primary, "primary", b, calls + 1)
      <4>1. ASSUME NEW e \in entries PROVE e.call <= calls + 1 /\ e.call # calls + 1
        <5>1. e.call \in Nat /\ e.call <= calls
          BY <1>1, <3>2 DEF Told, Entries
        <5> QED BY <1>1, <5>1
      <4>2. \A c \in Calls : c \in Nat /\ (c >= calls + 1 => c > calls)
        BY <1>1
      <4>3. \A c \in Calls : c >= calls + 1 => answers[c] = "none"
        BY <3>2, <4>2 DEF Told
      <4> QED BY <1>1, <3>2, <4>1, <4>2, <4>3 DEF Told
    <3>3. StreamTold'
      BY <1>1, <2>1, <2>3, <3>1, <3>2 DEF StreamTold
    <3>4. HttpTold'
      BY <1>1, <2>1, <2>3, <3>1, <3>2 DEF HttpTold
    <3>5. FanoutType'
      BY <1>1, <2>1, <2>3 DEF FanoutType
    <3> QED BY <3>1, <3>3, <3>4, <3>5 DEF IInv
  <2> QED BY <1>4, <2>2, <2>3 DEF Write
<1>5. CASE MirrorsWritten
  <2>1. /\ phase = "mirrors" /\ mode = "throw" /\ streamAnswer[calls] = "ok" /\ httpAnswer[calls] = "ok"
        /\ phase' = "primary" /\ UNCHANGED <<mode, primary, batch, calls>> /\ UNCHANGED <<streamVars, httpVars>>
    BY <1>5 DEF MirrorsWritten, Answers
  <2>2. calls \in Calls
    BY <1>1, <2>1 DEF FanoutType
  <2>3. StreamTold'
    BY <1>1, <1>2, <2>1, <2>2 DEF StreamTold, Told
  <2>4. HttpTold'
    BY <1>1, <1>2, <2>1, <2>2 DEF HttpTold, Told
  <2>5. FanoutType'
    BY <1>1, <2>1, <2>2 DEF FanoutType
  <2> QED BY <1>2, <2>1, <2>3, <2>4, <2>5 DEF IInv
<1>6. CASE MirrorFails \/ MirrorsSettled
  <2>1. phase' = "idle" /\ UNCHANGED <<mode, primary, batch, calls>> /\ UNCHANGED <<streamVars, httpVars>>
    BY <1>6 DEF MirrorFails, MirrorsSettled
  <2>2. StreamTold'
    BY <1>1, <1>2, <2>1 DEF StreamTold, Told
  <2>3. HttpTold'
    BY <1>1, <1>2, <2>1 DEF HttpTold, Told
  <2>4. FanoutType'
    BY <1>1, <2>1 DEF FanoutType
  <2> QED BY <1>2, <2>1, <2>2, <2>3, <2>4 DEF IInv
<1>7. TakenByPrimary => primary' = primary \cup ToSet(batch)
  BY DEF TakenByPrimary, ToSet
<1>8. CASE WritePrimary
  <2>1. phase = "primary" /\ primary' = primary \cup ToSet(batch) /\ UNCHANGED <<mode, batch, calls>>
        /\ calls \in Calls /\ calls' \in Calls
    BY <1>1, <1>7, <1>8 DEF WritePrimary, FanoutType
  <2>2. CASE mode = "throw" /\ phase' = "idle" /\ UNCHANGED <<streamVars, httpVars>>
    <3>1. StreamTold'
      BY <1>1, <1>2, <2>1, <2>2 DEF StreamTold, Told
    <3>2. HttpTold'
      BY <1>1, <1>2, <2>1, <2>2 DEF HttpTold, Told
    <3>3. FanoutType'
      BY <1>1, <2>1, <2>2 DEF FanoutType
    <3> QED BY <1>2, <2>2, <3>1, <3>2, <3>3 DEF IInv
  <2>3. CASE mode = "log" /\ phase' = "mirrors" /\ CallMirrors(batch)
    <3>1. batch \in Seq(Events)
      BY <1>1 DEF FanoutType
    <3>2. /\ StreamInv' /\ HttpInv'
          /\ Called(calls', batch, InStream, InStream', streamAnswer, streamAnswer', InFile, InFile')
          /\ Called(calls', batch, InHttp, InHttp', httpAnswer, httpAnswer', Collected, Collected')
      BY <1>1, <2>1, <2>3, <3>1, MirrorsCalled
    <3>3. StreamTold'
      BY <1>1, <2>1, <2>3, <3>2, ToldCalled DEF StreamTold
    <3>4. HttpTold'
      BY <1>1, <2>1, <2>3, <3>2, ToldCalled DEF HttpTold
    <3>5. FanoutType'
      BY <1>1, <2>1, <2>3 DEF FanoutType
    <3> QED BY <3>2, <3>3, <3>4, <3>5 DEF IInv
  <2> QED BY <1>8, <2>2, <2>3 DEF WritePrimary
<1>9. CASE PrimaryFails
  <2>1. /\ phase = "primary" /\ phase' = "idle" /\ UNCHANGED <<mode, batch, calls>> /\ UNCHANGED <<streamVars, httpVars>>
        /\ primary' = primary \/ primary' = primary \cup ToSet(batch)
    BY <1>7, <1>9 DEF PrimaryFails
  <2>2. StreamTold'
    BY <1>1, <1>2, <2>1 DEF StreamTold, Told
  <2>3. HttpTold'
    BY <1>1, <1>2, <2>1 DEF HttpTold, Told
  <2>4. FanoutType'
    BY <1>1, <2>1 DEF FanoutType
  <2> QED BY <1>2, <2>1, <2>2, <2>3, <2>4 DEF IInv
<1>10. CASE StreamStep
  <2>1. Stream!WriteStep /\ UNCHANGED <<mode, primary, phase, batch, calls>> /\ UNCHANGED httpVars
    BY <1>10 DEF StreamStep, fanoutVars
  <2>2. StreamInv' /\ Moved(InStream, InStream', streamAnswer, streamAnswer', InFile, InFile')
    BY <1>1, <2>1, StreamWriteStep
  <2>3. HttpInv' /\ InHttp' = InHttp /\ Collected' = Collected /\ httpAnswer' = httpAnswer
    BY <1>1, <2>1, HttpStays DEF httpVars
  <2>4. StreamTold'
    BY <1>1, <2>1, <2>2, ToldMoved DEF StreamTold
  <2>5. HttpTold' /\ FanoutType'
    BY <1>1, <2>1, <2>3 DEF HttpTold, FanoutType
  <2> QED BY <2>2, <2>3, <2>4, <2>5 DEF IInv
<1>11. CASE HttpStep
  <2>1. (Http!WriteStep \/ Http!PruneStep) /\ UNCHANGED <<mode, primary, phase, batch, calls>> /\ UNCHANGED streamVars
    BY <1>11 DEF HttpStep, fanoutVars
  <2>2. HttpInv' /\ Moved(InHttp, InHttp', httpAnswer, httpAnswer', Collected, Collected')
    BY <1>1, <2>1, HttpWriteStep, HttpPruneStep
  <2>3. StreamInv' /\ InStream' = InStream /\ InFile' = InFile /\ streamAnswer' = streamAnswer
    BY <1>1, <2>1, StreamStays
  <2>4. HttpTold'
    BY <1>1, <2>1, <2>2, ToldMoved DEF HttpTold
  <2>5. StreamTold' /\ FanoutType'
    BY <1>1, <2>1, <2>3 DEF StreamTold, FanoutType
  <2> QED BY <2>2, <2>3, <2>4, <2>5 DEF IInv
<1>12. CASE Crash
  <2>1. /\ Stream!Crash /\ Http!Crash /\ phase' = "idle" /\ calls' = 0 /\ batch' = <<>>
        /\ UNCHANGED <<mode, primary>>
    BY <1>12 DEF Crash
  <2>2. StreamInv' /\ InStream' = {} /\ InFile' = InFile /\ streamAnswer' = [c \in Calls |-> "none"]
    BY <1>1, <2>1, StreamCrash
  <2>3. HttpInv' /\ InHttp' = {} /\ Collected' = Collected /\ httpAnswer' = [c \in Calls |-> "none"]
    BY <1>1, <2>1, HttpCrash
  <2>4. StreamTold'
    BY <1>1, <2>1, <2>2 DEF StreamTold, Told
  <2>5. HttpTold'
    BY <1>1, <2>1, <2>3 DEF HttpTold, Told
  <2>6. FanoutType'
    BY <1>1, <2>1 DEF FanoutType
  <2> QED BY <2>2, <2>3, <2>4, <2>5, <2>6 DEF IInv
<1> QED BY <1>3, <1>4, <1>5, <1>6, <1>8, <1>9, <1>10, <1>11, <1>12 DEF Next, FanoutStep

-----------------------------------------------------------------------------
(* The window of the HTTP store. *)

\* The last row is that of the head.
EndsWith(rows, head) == IF rows = <<>> THEN head = NoHead ELSE rows[Len(rows)].hash = head.hash

\* The rows are the last ones of the chain of the head.
IsWhole(rows, head) ==
    /\ Len(rows) <= head.seq
    /\ \A k \in 1 .. Len(rows) :
         /\ rows[k].seq = (head.seq - Len(rows)) + k
         /\ rows[k].hash = SubSeq(head.hash, 1, (head.seq - Len(rows)) + k)
         /\ head.hash[(head.seq - Len(rows)) + k] = [event |-> rows[k].event, seq |-> (head.seq - Len(rows)) + k]

\* Numbers of entries that stand one after the other.
Consecutive(rows, m, f) ==
    /\ m \in Nat /\ f \in [1 .. m -> 1 .. Len(rows)]
    /\ \A k \in 1 .. m : f[k] = f[1] + (k - 1)

\* So do the rows with the sequence numbers of a range.
LEMMA RangeIsConsecutive ==
    ASSUME NEW rows \in Seq(Row), NEW d \in Nat, \A k \in 1 .. Len(rows) : rows[k].seq = d + k,
           NEW from \in Nat, NEW to \in Nat, NEW m, NEW f,
           Picks(rows, {r \in ToSet(rows) : r.seq \in from .. to}, Len(rows), m, f)
    PROVE  Consecutive(rows, m, f)
<1> DEFINE S == {r \in ToSet(rows) : r.seq \in from .. to}
<1>1. Len(rows) \in Nat /\ DOMAIN rows = 1 .. Len(rows)
  OBVIOUS
<1>2. /\ m \in Nat /\ f \in [1 .. m -> 1 .. Len(rows)]
      /\ \A i, j \in 1 .. m : i < j => f[i] < f[j]
      /\ \A k \in 1 .. m : rows[f[k]] \in S
      /\ \A i \in 1 .. Len(rows) : rows[i] \in S => \E k \in 1 .. m : f[k] = i
  BY DEF Picks
<1>3. \A i \in 1 .. Len(rows) : rows[i] \in S <=> (from <= d + i /\ d + i <= to)
  <2> SUFFICES ASSUME NEW i \in 1 .. Len(rows)
               PROVE  rows[i] \in S <=> (from <= d + i /\ d + i <= to)
    OBVIOUS
  <2>1. rows[i] \in ToSet(rows) /\ rows[i].seq = d + i /\ i \in Nat
    BY <1>1 DEF ToSet
  <2> QED BY <2>1
<1> HIDE DEF S
<1>4. ASSUME NEW k \in 1 .. m - 1 PROVE f[k + 1] = f[k] + 1
  <2>1. k \in 1 .. m /\ k + 1 \in 1 .. m /\ k < k + 1 /\ k \in Nat
    BY <1>2
  <2>2. f[k] \in 1 .. Len(rows) /\ f[k + 1] \in 1 .. Len(rows) /\ f[k] < f[k + 1]
        /\ rows[f[k]] \in S /\ rows[f[k + 1]] \in S
    BY <1>2, <2>1
  <2> SUFFICES ASSUME f[k] + 1 < f[k + 1] PROVE FALSE
    BY <1>1, <2>2
  <2>3. f[k] + 1 \in 1 .. Len(rows)
    BY <1>1, <2>2
  <2>4. from <= d + f[k] /\ d + f[k + 1] <= to
    BY <1>3, <2>2
  <2>5. from <= d + (f[k] + 1) /\ d + (f[k] + 1) <= to
    BY <1>1, <2>2, <2>4
  <2>6. PICK j \in 1 .. m : f[j] = f[k] + 1
    BY <1>2, <1>3, <2>3, <2>5
  <2>7. j <= k \/ k + 1 <= j
    BY <2>1
  <2>8. CASE j <= k
    <3>1. j = k \/ j < k
      BY <2>1, <2>8
    <3>2. j = k \/ f[j] < f[k]
      BY <1>2, <2>1, <3>1
    <3> QED BY <1>1, <2>2, <2>6, <3>2
  <2>9. CASE k + 1 <= j
    <3>1. k + 1 = j \/ k + 1 < j
      BY <2>1, <2>9
    <3>2. k + 1 = j \/ f[k + 1] < f[j]
      BY <1>2, <2>1, <3>1
    <3> QED BY <1>1, <2>2, <2>6, <3>2
  <2> QED BY <2>7, <2>8, <2>9
<1>5. CASE m = 0
  BY <1>2, <1>5 DEF Consecutive
<1>6. CASE m # 0
  <2> DEFINE Good == {n \in 0 .. m - 1 : f[n + 1] = f[1] + n}
  <2>1. f[1] \in Nat
    BY <1>1, <1>2, <1>6
  <2>2. 0 \in Good
    BY <1>2, <1>6, <2>1
  <2>3. ASSUME NEW n \in 0 .. (m - 1) - 1, n \in Good PROVE n + 1 \in Good
    <3>1. n + 1 \in 1 .. m - 1 /\ n + 1 \in 0 .. m - 1 /\ n \in Nat
      BY <1>2, <1>6
    <3>2. f[(n + 1) + 1] = f[n + 1] + 1
      BY <1>4, <3>1
    <3> QED BY <2>1, <2>3, <3>1, <3>2
  <2>4. 0 .. m - 1 \subseteq Good
    <3>1. m - 1 \in Nat
      BY <1>2, <1>6
    <3> HIDE DEF Good
    <3> QED BY <2>2, <2>3, <3>1, UpTo
  <2>5. \A k \in 1 .. m : f[k] = f[1] + (k - 1)
    <3> SUFFICES ASSUME NEW k \in 1 .. m PROVE f[k] = f[1] + (k - 1)
      OBVIOUS
    <3>1. k - 1 \in 0 .. m - 1 /\ (k - 1) + 1 = k
      BY <1>2
    <3>2. k - 1 \in Good
      <4> HIDE DEF Good
      <4> QED BY <2>4, <3>1
    <3> QED BY <3>1, <3>2
  <2> QED BY <1>2, <2>5 DEF Consecutive
<1> QED BY <1>5, <1>6

\* The last row below a sequence number stands before the first that has it.
LEMMA RowBefore ==
    ASSUME NEW rows \in Seq(Row), NEW d \in Nat, \A k \in 1 .. Len(rows) : rows[k].seq = d + k,
           NEW p \in 1 .. Len(rows), Where(rows, {r \in ToSet(rows) : r.seq < d + p}) # <<>>
    PROVE  LET before == Where(rows, {r \in ToSet(rows) : r.seq < d + p})
           IN  p - 1 \in 1 .. Len(rows) /\ before[Len(before)] = rows[p - 1]
<1> DEFINE S == {r \in ToSet(rows) : r.seq < d + p}
           before == Where(rows, S)
<1>1. Len(rows) \in Nat /\ DOMAIN rows = 1 .. Len(rows) /\ p \in Nat
  OBVIOUS
<1>2. PICK m, g : IsPicked(rows, S, m, g)
  <2> HIDE DEF S
  <2> QED BY WherePicks
<1>3. /\ m \in Nat /\ g \in [1 .. m -> 1 .. Len(rows)]
      /\ \A i, j \in 1 .. m : i < j => g[i] < g[j]
      /\ \A k \in 1 .. m : rows[g[k]] \in S
      /\ \A i \in 1 .. Len(rows) : rows[i] \in S => \E k \in 1 .. m : g[k] = i
      /\ before = [k \in 1 .. m |-> rows[g[k]]]
  <2> HIDE DEF S
  <2> QED BY <1>2 DEF IsPicked, Picks
<1>4. \A i \in 1 .. Len(rows) : rows[i] \in S <=> i < p
  <2> SUFFICES ASSUME NEW i \in 1 .. Len(rows) PROVE rows[i] \in S <=> i < p
    OBVIOUS
  <2>1. rows[i] \in ToSet(rows) /\ rows[i].seq = d + i /\ i \in Nat
    BY <1>1 DEF ToSet
  <2> QED BY <1>1, <2>1
<1>5. before # <<>>
  OBVIOUS
<1> HIDE DEF S, before
<1>6. m # 0
  BY <1>3, <1>5
<1>7. Len(before) = m /\ before[m] = rows[g[m]] /\ m \in 1 .. m
  BY <1>3, <1>6
<1>8. g[m] \in 1 .. Len(rows) /\ g[m] < p
  BY <1>3, <1>4, <1>7
<1>9. p - 1 \in 1 .. Len(rows) /\ p - 1 < p
  BY <1>1, <1>8
<1>10. PICK k \in 1 .. m : g[k] = p - 1
  BY <1>3, <1>4, <1>9
<1>11. k = m \/ g[k] < g[m]
  BY <1>3, <1>7
<1>12. g[m] = p - 1
  BY <1>1, <1>8, <1>10, <1>11
<1> QED BY <1>7, <1>9, <1>12 DEF before, S

\* As long as the window is whole, every range of it verifies.
LEMMA WholeVerifies ==
    ASSUME NEW rows \in Seq(Row), NEW head, IsHead(head), IsWhole(rows, head), NEW from \in Nat, NEW to \in Nat,
           NEW inRange, inRange = Where(rows, {r \in ToSet(rows) : r.seq \in from .. to}), inRange # <<>>
    PROVE  AllValid(inRange, Http!StartOf(rows, inRange))
<1> DEFINE d == head.seq - Len(rows)
           H == head.hash
           S == {r \in ToSet(rows) : r.seq \in from .. to}
<1>1. /\ Len(rows) \in Nat /\ DOMAIN rows = 1 .. Len(rows) /\ head.seq \in Nat /\ d \in Nat
      /\ H \in Seq(Entry) /\ Len(H) = head.seq /\ head.seq = d + Len(rows)
  BY DEF IsHead, IsWhole
<1>2. \A k \in 1 .. Len(rows) : /\ rows[k].seq = d + k /\ rows[k].hash = SubSeq(H, 1, d + k)
                                /\ H[d + k] = [event |-> rows[k].event, seq |-> d + k]
  BY DEF IsWhole
<1>3. PICK m, f : IsPicked(rows, S, m, f)
  <2> HIDE DEF S
  <2> QED BY WherePicks
<1>4. Picks(rows, S, Len(rows), m, f) /\ inRange = [k \in 1 .. m |-> rows[f[k]]]
  <2> HIDE DEF S
  <2>1. inRange = Where(rows, S)
    BY DEF S
  <2> QED BY <1>3, <2>1 DEF IsPicked
<1> HIDE DEF d, H
<1>5. m \in Nat /\ f \in [1 .. m -> 1 .. Len(rows)] /\ \A k \in 1 .. m : f[k] = f[1] + (k - 1)
  <2>1. \A k \in 1 .. Len(rows) : rows[k].seq = d + k
    BY <1>2
  <2>2. Consecutive(rows, m, f)
    BY <1>1, <1>4, <2>1, RangeIsConsecutive
  <2> QED BY <2>2 DEF Consecutive
<1> HIDE DEF S
<1>6. m # 0
  BY <1>4, <1>5
<1> DEFINE p == f[1]
           n == d + (p - 1)
<1>7. p \in 1 .. Len(rows) /\ p \in Nat /\ n \in Nat /\ n + 1 = d + p
  BY <1>1, <1>5, <1>6
<1>8. ASSUME NEW k \in 1 .. m PROVE f[k] \in 1 .. Len(rows) /\ d + f[k] = n + k /\ n + k <= head.seq
  <2>1. f[k] \in 1 .. Len(rows) /\ k \in Nat
    BY <1>5
  <2>2. f[k] = p + (k - 1)
    BY <1>5
  <2> HIDE DEF p
  <2>3. d + f[k] = n + k
    BY <1>1, <1>7, <2>1, <2>2
  <2>4. d + f[k] <= head.seq
    BY <1>1, <2>1
  <2> QED BY <2>1, <2>3, <2>4
<1>9. inRange \in Seq(Row) /\ Len(inRange) = m
  <2>1. DOMAIN inRange = 1 .. m /\ inRange = [k \in 1 .. m |-> inRange[k]]
        /\ \A k \in 1 .. m : inRange[k] = rows[f[k]]
    BY <1>4
  <2>2. \A k \in 1 .. m : inRange[k] \in Row
    BY <1>8, <2>1
  <2> QED BY <1>5, <2>1, <2>2, IsSequence
<1> HIDE DEF p, n
<1>10. \A k \in 1 .. m : /\ inRange[k].seq = n + k /\ inRange[k].hash = SubSeq(H, 1, n + k)
                         /\ H[n + k] = [event |-> inRange[k].event, seq |-> n + k]
  <2> SUFFICES ASSUME NEW k \in 1 .. m
               PROVE  /\ inRange[k].seq = n + k /\ inRange[k].hash = SubSeq(H, 1, n + k)
                      /\ H[n + k] = [event |-> inRange[k].event, seq |-> n + k]
    OBVIOUS
  <2>1. inRange[k] = rows[f[k]]
    BY <1>4
  <2> QED BY <1>2, <1>8, <2>1
<1>11. n + m <= Len(H)
  <2>1. m \in 1 .. m
    BY <1>5, <1>6
  <2> QED BY <1>1, <1>8, <2>1
<1>12. AllValid(inRange, [seq |-> n, hash |-> SubSeq(H, 1, n)])
  BY <1>1, <1>7, <1>9, <1>10, <1>11, ChainIsValid
<1>13. 1 \in 1 .. m /\ inRange[1].seq = d + p /\ inRange[1].hash = SubSeq(H, 1, n + 1)
  <2>1. 1 \in 1 .. m
    BY <1>5, <1>6
  <2> QED BY <1>7, <1>10, <2>1
<1>14. Http!StartOf(rows, inRange) = [seq |-> n, hash |-> SubSeq(H, 1, n)]
  <2> DEFINE before == Where(rows, {r \in ToSet(rows) : r.seq < d + p})
  <2>1. Http!StartOf(rows, inRange) =
          IF before # <<>> THEN [seq |-> before[Len(before)].seq, hash |-> before[Len(before)].hash]
          ELSE [seq |-> inRange[1].seq - 1, hash |-> SubSeq(inRange[1].hash, 1, Len(inRange[1].hash) - 1)]
    BY <1>13, WindowOps DEF Http!StartOf, Http!Last, Http!Front
  <2>2. CASE before # <<>>
    <3>1. p - 1 \in 1 .. Len(rows) /\ before[Len(before)] = rows[p - 1]
      BY <1>1, <1>2, <1>7, <2>2, RowBefore
    <3>2. rows[p - 1].seq = n /\ rows[p - 1].hash = SubSeq(H, 1, n)
      BY <1>2, <3>1 DEF n
    <3> HIDE DEF before
    <3> QED BY <2>1, <2>2, <3>1, <3>2
  <2>3. CASE before = <<>>
    <3>1. (n + 1) - 1 = n /\ n + 1 <= Len(H) /\ n \in Nat
      BY <1>5, <1>6, <1>7, <1>1, <1>11
    <3>2. Len(SubSeq(H, 1, n + 1)) = n + 1
      BY <1>1, <3>1
    <3>3. SubSeq(SubSeq(H, 1, n + 1), 1, n) = SubSeq(H, 1, n)
      <4>1. SubSeq(H, 1, n + 1) = [i \in 1 .. n + 1 |-> H[i]] /\ SubSeq(H, 1, n) = [i \in 1 .. n |-> H[i]]
        BY <1>1, <3>1
      <4>2. SubSeq(SubSeq(H, 1, n + 1), 1, n) = [i \in 1 .. n |-> SubSeq(H, 1, n + 1)[i]]
        BY <1>1, <3>1, <3>2
      <4>3. \A i \in 1 .. n : i \in 1 .. n + 1
        BY <3>1
      <4> QED BY <4>1, <4>2, <4>3
    <3>4. inRange[1].seq - 1 = n
      BY <1>7, <1>13, <3>1
    <3> HIDE DEF before
    <3> QED BY <1>13, <2>1, <2>3, <3>1, <3>2, <3>3, <3>4
  <2> QED BY <2>2, <2>3
<1> QED BY <1>12, <1>14

\* The window after a batch.
LEMMA WindowGrows ==
    ASSUME NEW b \in Seq(Events), NEW h, HeadsOk(h), NEW s \in Streams,
           NEW rows \in Seq(Row), NEW grown, grown = rows \o GroupOf(b, h, s)
    PROVE  /\ grown \in Seq(Row)
           /\ OfStream(b, s) # <<>> => grown # <<>> /\ EndsWith(grown, HeadsAfter(b, h)[s])
           /\ IsWhole(rows, h[s]) => IsWhole(grown, HeadsAfter(b, h)[s])
<1> DEFINE q == OfStream(b, s)
           g == GroupOf(b, h, s)
           head == h[s]
           all == HashAfter(q, head)
           next == HeadsAfter(b, h)[s]
           l == Len(rows)
           m == Len(q)
<1>1. /\ q \in Seq(Events) /\ m \in Nat /\ l \in Nat /\ IsHead(head) /\ head.seq \in Nat
      /\ head.hash \in Seq(Entry) /\ Len(head.hash) = head.seq
  BY OfStreamProperties DEF HeadsOk, IsHead
<1>2. next.seq = head.seq + m /\ next.hash = all
  BY DEF HeadsAfter
<1>3. /\ g \in Seq(Row) /\ Len(g) = m
      /\ \A k \in 1 .. m : /\ g[k].event = q[k] /\ g[k].seq = head.seq + k
                           /\ g[k].hash = SubSeq(all, 1, head.seq + k)
  BY GroupOfProperties
<1>4. /\ all \in Seq(Entry) /\ Len(all) = head.seq + m
      /\ \A k \in 1 .. head.seq : all[k] = head.hash[k]
      /\ \A k \in 1 .. m : all[head.seq + k] = [event |-> q[k], seq |-> head.seq + k]
  <2>1. all = HashAfter(q, head)
    OBVIOUS
  <2> HIDE DEF q, head, all
  <2>2. q \in Seq(Events) /\ IsHead(head)
    BY <1>1
  <2>3. /\ HashAfter(q, head) \in Seq(Entry)
        /\ Len(HashAfter(q, head)) = head.seq + Len(q)
        /\ \A k \in 1 .. head.seq : HashAfter(q, head)[k] = head.hash[k]
        /\ \A k \in 1 .. Len(q) : HashAfter(q, head)[head.seq + k] = [event |-> q[k], seq |-> head.seq + k]
    BY <2>2, HashAfterProperties, Zenon
  <2> QED BY <2>1, <2>3
<1>5. grown = rows \o g
  OBVIOUS
<1> HIDE DEF q, g, head, all, next
<1>6. /\ grown \in Seq(Row) /\ Len(grown) = l + m
      /\ \A k \in 1 .. l : grown[k] = rows[k]
      /\ \A k \in 1 .. m : grown[l + k] = g[k]
  <2>1. PICK y \in Seq(Row) : y = g
    BY <1>3
  <2>2. /\ rows \o y \in Seq(Row) /\ Len(rows \o y) = Len(rows) + Len(y)
        /\ \A k \in 1 .. Len(rows) : (rows \o y)[k] = rows[k]
        /\ \A k \in 1 .. Len(y) : (rows \o y)[Len(rows) + k] = y[k]
    BY <2>1, JoinedAt
  <2>3. grown = rows \o y
    BY <1>5, <2>1
  <2>4. Len(y) = m /\ Len(rows) = l
    BY <1>3, <2>1
  <2> HIDE DEF l, m
  <2> QED BY <2>1, <2>2, <2>3, <2>4
<1> HIDE DEF l, m
<1>7. ASSUME q # <<>> PROVE grown # <<>> /\ EndsWith(grown, next)
  <2>1. m \in 1 .. m /\ m # 0
    <3>1. m # 0
      BY <1>1, <1>7 DEF m
    <3> QED BY <1>1, <3>1
  <2>2. grown # <<>>
    BY <1>1, <1>6, <2>1
  <2>3. grown[Len(grown)] = g[m] /\ g[m].hash = SubSeq(all, 1, head.seq + m)
    BY <1>3, <1>6, <2>1
  <2>4. SubSeq(all, 1, Len(all)) = all
    BY <1>4
  <2> QED BY <1>2, <1>4, <2>2, <2>3, <2>4 DEF EndsWith
<1>8. ASSUME IsWhole(rows, head) PROVE IsWhole(grown, next)
  <2> DEFINE d == head.seq - l
  <2>1. /\ l <= head.seq
        /\ \A k \in 1 .. l : /\ rows[k].seq = d + k /\ rows[k].hash = SubSeq(head.hash, 1, d + k)
                             /\ head.hash[d + k] = [event |-> rows[k].event, seq |-> d + k]
    BY <1>8 DEF IsWhole, l
  <2>2. d \in Nat /\ next.seq - Len(grown) = d /\ head.seq = d + l
    <3>1. l \in Nat /\ m \in Nat /\ head.seq \in Nat /\ next.seq = head.seq + m /\ Len(grown) = l + m
          /\ l <= head.seq
      BY <1>1, <1>2, <1>6, <2>1
    <3> QED BY <3>1
  <2> HIDE DEF d
  <2>3. ASSUME NEW k \in 1 .. l + m
        PROVE  /\ grown[k].seq = d + k /\ grown[k].hash = SubSeq(all, 1, d + k)
               /\ all[d + k] = [event |-> grown[k].event, seq |-> d + k]
    <3>1. CASE k <= l
      <4>1. k \in 1 .. l /\ d + k \in 1 .. head.seq
        BY <1>1, <2>2, <3>1
      <4>2. grown[k] = rows[k] /\ all[d + k] = head.hash[d + k]
        BY <1>4, <1>6, <4>1
      <4>3. SubSeq(all, 1, d + k) = SubSeq(head.hash, 1, d + k)
        <5>1. \A n \in 1 .. head.seq : SubSeq(all, 1, n) = SubSeq(head.hash, 1, n)
          <6> SUFFICES ASSUME NEW n \in 1 .. head.seq PROVE SubSeq(all, 1, n) = SubSeq(head.hash, 1, n)
            OBVIOUS
          <6>1. n \in Nat /\ n <= Len(all) /\ n <= Len(head.hash)
            BY <1>1, <1>4
          <6>2. SubSeq(all, 1, n) = [i \in 1 .. n |-> all[i]]
            BY <1>4, <6>1
          <6>3. SubSeq(head.hash, 1, n) = [i \in 1 .. n |-> head.hash[i]]
            BY <1>1, <6>1
          <6>4. \A i \in 1 .. n : all[i] = head.hash[i]
            <7>1. \A i \in 1 .. n : i \in 1 .. head.seq
              BY <1>1, <6>1
            <7> QED BY <1>4, <7>1
          <6> QED BY <6>2, <6>3, <6>4
        <5> QED BY <4>1, <5>1
      <4> QED BY <2>1, <4>1, <4>2, <4>3
    <3>2. CASE ~(k <= l)
      <4>1. PICK j \in 1 .. m : k = l + j
        <5>1. k - l \in 1 .. m /\ k = l + (k - l)
          BY <1>1, <3>2
        <5> QED BY <5>1
      <4>2. d + k = head.seq + j
        BY <1>1, <2>2, <4>1
      <4>3. grown[k] = g[j]
        BY <1>6, <4>1
      <4>4. all[head.seq + j] = [event |-> g[j].event, seq |-> head.seq + j]
        BY <1>3, <1>4, <4>1
      <4> QED BY <1>3, <4>1, <4>2, <4>3, <4>4
    <3> QED BY <3>1, <3>2
  <2>4. Len(grown) <= next.seq
    BY <1>1, <1>2, <1>6, <2>1
  <2> QED BY <1>2, <1>6, <2>2, <2>3, <2>4 DEF IsWhole
<1> QED BY <1>6, <1>7, <1>8 DEF q, head, next

\* The cap keeps the last rows.
LEMMA WindowCapped ==
    ASSUME NEW rows \in Seq(Row), rows # <<>>, NEW head, IsHead(head), NEW capped, capped = Http!Capped(rows)
    PROVE  /\ capped \in Seq(Row) /\ capped # <<>>
           /\ EndsWith(rows, head) => EndsWith(capped, head)
           /\ IsWhole(rows, head) => IsWhole(capped, head)
<1>1. CASE capped = rows
  BY <1>1
<1>2. CASE capped # rows
  <2>1. /\ MaxRetained \in Nat /\ MaxRetained > 0 /\ Len(rows) > MaxRetained
        /\ capped = SubSeq(rows, Len(rows) - MaxRetained + 1, Len(rows))
    BY <1>2, FanoutAssumption DEF Http!Capped
  <2> DEFINE x == Len(rows) - MaxRetained
             l == Len(rows)
  <2>2. x \in Nat /\ l \in Nat /\ x + 1 <= l /\ l - x \in Nat /\ l - x # 0 /\ l - x = MaxRetained
        /\ capped = SubSeq(rows, x + 1, l)
    BY <2>1
  <2> HIDE DEF x
  <2>3. /\ capped \in Seq(Row) /\ Len(capped) = l - x
        /\ \A k \in 1 .. l - x : capped[k] = rows[x + k]
    <3>1. Len(capped) = l - x /\ capped \in Seq(Row)
      BY <2>2
    <3>2. \A k \in 1 .. l - x : capped[k] = rows[(x + 1) + k - 1]
      BY <2>2
    <3>3. \A k \in 1 .. l - x : (x + 1) + k - 1 = x + k
      BY <2>2
    <3> QED BY <3>1, <3>2, <3>3
  <2> HIDE DEF l
  <2>4. capped # <<>>
    BY <2>2, <2>3
  <2>5. capped[Len(capped)] = rows[l]
    <3>1. l - x \in 1 .. l - x /\ x + (l - x) = l
      BY <2>2
    <3> QED BY <2>3, <3>1
  <2>6. EndsWith(rows, head) => EndsWith(capped, head)
    BY <2>4, <2>5 DEF EndsWith, l
  <2>7. ASSUME IsWhole(rows, head) PROVE IsWhole(capped, head)
    <3> DEFINE d == head.seq - l
    <3>1. /\ l <= head.seq /\ head.seq \in Nat
          /\ \A k \in 1 .. l : /\ rows[k].seq = d + k /\ rows[k].hash = SubSeq(head.hash, 1, d + k)
                               /\ head.hash[d + k] = [event |-> rows[k].event, seq |-> d + k]
      BY <2>7 DEF IsWhole, IsHead, l
    <3>2. d \in Nat /\ head.seq - Len(capped) = d + x /\ Len(capped) <= head.seq
      BY <2>2, <2>3, <3>1
    <3> HIDE DEF d
    <3>3. ASSUME NEW k \in 1 .. l - x
          PROVE  /\ capped[k].seq = (d + x) + k /\ capped[k].hash = SubSeq(head.hash, 1, (d + x) + k)
                 /\ head.hash[(d + x) + k] = [event |-> capped[k].event, seq |-> (d + x) + k]
      <4>1. x + k \in 1 .. l /\ (d + x) + k = d + (x + k)
        BY <2>2, <3>2
      <4> QED BY <2>3, <3>1, <4>1
    <3> QED BY <2>3, <3>2, <3>3 DEF IsWhole
  <2> QED BY <2>3, <2>4, <2>6, <2>7
<1> QED BY <1>1, <1>2

\* A prune spares the last row.
LEMMA WindowRetained ==
    ASSUME NEW rows \in Seq(Row), rows # <<>>, NEW retained, retained = Http!Retained(rows)
    PROVE  /\ retained \in Seq(Row) /\ retained # <<>>
           /\ \A head : EndsWith(rows, head) => EndsWith(retained, head)
<1> DEFINE S == {r \in ToSet(rows) : \/ r.seq = rows[Len(rows)].seq
                                     \/ pruning.filter \notin {"none", NameOf[r.event]}
                                     \/ r.event \notin pruning.old}
<1>1. retained = Where(rows, S)
  BY WindowOps DEF Http!Retained, Http!Last
<1>2. Len(rows) \in Nat /\ Len(rows) \in 1 .. Len(rows) /\ DOMAIN rows = 1 .. Len(rows)
  OBVIOUS
<1>3. rows[Len(rows)] \in S
  BY <1>2 DEF ToSet
<1> HIDE DEF S
<1>4. PICK m, f : IsPicked(rows, S, m, f)
  BY WherePicks
<1>5. /\ m \in Nat /\ f \in [1 .. m -> 1 .. Len(rows)]
      /\ \A i, j \in 1 .. m : i < j => f[i] < f[j]
      /\ \A i \in 1 .. Len(rows) : rows[i] \in S => \E k \in 1 .. m : f[k] = i
      /\ retained = [k \in 1 .. m |-> rows[f[k]]]
  BY <1>1, <1>4 DEF IsPicked, Picks
<1>6. PICK k \in 1 .. m : f[k] = Len(rows)
  BY <1>2, <1>3, <1>5
<1>7. m \in 1 .. m /\ (k = m \/ k < m) /\ f[m] \in 1 .. Len(rows)
  BY <1>5, <1>6
<1>8. f[m] = Len(rows)
  <2>1. k = m \/ f[k] < f[m]
    BY <1>5, <1>6, <1>7
  <2> QED BY <1>2, <1>6, <1>7, <2>1
<1>9. retained \in Seq(Row)
  BY <1>1, WhereProperties
<1>10. Len(retained) = m /\ retained[m] = rows[Len(rows)] /\ m # 0
  BY <1>5, <1>7, <1>8
<1>11. retained # <<>>
  BY <1>10
<1> QED BY <1>9, <1>10, <1>11 DEF EndsWith

Prunes == [phase : {"none", "selecting", "archiving"}, filter : Filters \cup {"none"},
           old : Cutoffs \cup {{}}, done : SUBSET Streams, stream : Streams \cup {"none"}, retained : Seq(Row)]

WindowType ==
    /\ logs \in [Streams -> Seq(Row)]
    /\ pruning \in Prunes /\ prunes \in Nat
    /\ pruning.phase # "none" => prunes # 0

\* The only call that is under way has chained its batch to the heads as they are.
ChainedToHeads ==
    /\ \A c, d \in Calls : call[c].phase # "none" /\ call[d].phase # "none" => c = d
    /\ \A c \in Calls : call[c].phase # "none" =>
         call[c].rows = Chained(call[c].batch, httpHeads) /\ call[c].next = HeadsAfter(call[c].batch, httpHeads)

\* What a window is, and what it becomes when policy.archive() resolves.
WindowOk(s) ==
    /\ EndsWith(logs[s], httpHeads[s])
    /\ prunes = 0 => IsWhole(logs[s], httpHeads[s])
    /\ pruning.phase = "archiving" /\ pruning.stream = s => EndsWith(pruning.retained, httpHeads[s])

WindowInv == WindowType /\ (~overlapped => ChainedToHeads /\ \A s \in Streams : WindowOk(s))

LEMMA NoPruneOk == Http!NoPrune \in Prunes /\ Http!NoPrune.phase = "none"
<1>1. <<>> \in Seq(Row)
  OBVIOUS
<1> QED BY <1>1 DEF Http!NoPrune, Prunes

\* Empty windows and the heads of a process that has just started.
LEMMA EmptyWindows ==
    ASSUME NEW s \in Streams
    PROVE  EndsWith(<<>>, NoHeads[s]) /\ IsWhole(<<>>, NoHeads[s]) /\ <<>> \in Seq(Row)
<1>1. NoHeads[s] = NoHead /\ NoHead.seq = 0 /\ Len(<<>>) = 0 /\ <<>> \in Seq(Row)
  BY DEF NoHeads, NoHead
<1>2. 1 .. Len(<<>>) = {}
  BY <1>1
<1> QED BY <1>1, <1>2 DEF EndsWith, IsWhole

LEMMA WindowInit == Init => WindowInv
<1> SUFFICES ASSUME Init PROVE WindowInv
  OBVIOUS
<1>1. /\ httpHeads = NoHeads /\ logs = [s \in Streams |-> <<>>] /\ call = [c \in Calls |-> Http!NoCall]
      /\ pruning = Http!NoPrune /\ prunes = 0
  BY HttpOps DEF Init, Http!Init
<1>2. WindowType
  <2>1. logs \in [Streams -> Seq(Row)]
    BY <1>1, EmptyWindows
  <2> QED BY <1>1, <2>1, NoPruneOk DEF WindowType
<1>3. ChainedToHeads
  BY <1>1, NoCallOk DEF ChainedToHeads
<1>4. ASSUME NEW s \in Streams PROVE WindowOk(s)
  BY <1>1, EmptyWindows, NoPruneOk DEF WindowOk
<1> QED BY <1>2, <1>3, <1>4 DEF WindowInv

LEMMA WindowCrash ==
    ASSUME WindowInv, Http!Crash
    PROVE  WindowInv'
<1>1. /\ httpHeads' = NoHeads /\ logs' = [s \in Streams |-> <<>>] /\ call' = [c \in Calls |-> Http!NoCall]
      /\ pruning' = Http!NoPrune /\ prunes' = prunes
  BY HttpOps DEF Http!Crash
<1>2. WindowType'
  <2>1. logs' \in [Streams -> Seq(Row)]
    BY <1>1, EmptyWindows
  <2> QED BY <1>1, <2>1, NoPruneOk DEF WindowInv, WindowType
<1>3. ChainedToHeads'
  BY <1>1, NoCallOk DEF ChainedToHeads
<1>4. ASSUME NEW s \in Streams PROVE WindowOk(s)'
  BY <1>1, EmptyWindows, NoPruneOk DEF WindowOk
<1> QED BY <1>2, <1>3, <1>4 DEF WindowInv

LEMMA WindowStays ==
    ASSUME WindowInv, UNCHANGED httpVars
    PROVE  WindowInv'
<1>1. WindowType'
  BY DEF WindowInv, WindowType, httpVars
<1>2. ChainedToHeads => ChainedToHeads'
  BY DEF ChainedToHeads, httpVars
<1>3. \A s \in Streams : WindowOk(s) => WindowOk(s)'
  BY DEF WindowOk, httpVars
<1>4. overlapped' = overlapped
  BY DEF httpVars
<1> QED BY <1>1, <1>2, <1>3, <1>4 DEF WindowInv

\* write() runs into another call, or it is the only one.
LEMMA WindowCalled ==
    ASSUME HttpType, WindowInv, NEW c \in Calls, NEW b, Http!Write(c, b)
    PROVE  WindowInv'
<1> DEFINE k == [phase |-> "posting", batch |-> b, rows |-> Chained(b, httpHeads),
                 next |-> HeadsAfter(b, httpHeads)]
<1>1. /\ call' = [call EXCEPT ![c] = k] /\ UNCHANGED <<httpHeads, logs, pruning, prunes>>
      /\ overlapped' = (overlapped \/ Http!UnderWay # {})
  BY HttpOps DEF Http!Write
<1>2. WindowType'
  BY <1>1 DEF WindowInv, WindowType
<1>3. ASSUME ~overlapped' PROVE ChainedToHeads' /\ \A s \in Streams : WindowOk(s)'
  <2>1. ~overlapped /\ Http!UnderWay = {}
    BY <1>1, <1>3
  <2>2. \A d \in Calls : call[d].phase = "none"
    BY <2>1 DEF Http!UnderWay
  <2>3. k.phase = "posting" /\ k.batch = b /\ k.rows = Chained(b, httpHeads) /\ k.next = HeadsAfter(b, httpHeads)
    OBVIOUS
  <2> HIDE DEF k
  <2>4. call'[c] = k /\ \A d \in Calls \ {c} : call'[d] = call[d]
    BY <1>1 DEF HttpType
  <2>5. ChainedToHeads'
    BY <1>1, <2>2, <2>3, <2>4 DEF ChainedToHeads
  <2>6. \A s \in Streams : WindowOk(s) => WindowOk(s)'
    BY <1>1 DEF WindowOk
  <2> QED BY <2>1, <2>5, <2>6 DEF WindowInv
<1> QED BY <1>2, <1>3 DEF WindowInv

\* A call goes on, ends without effect, or ends with the heads and the windows moved.
LEMMA WindowWriteStep ==
    ASSUME HttpInv, WindowInv, Http!WriteStep
    PROVE  WindowInv'
<1>1. PICK c \in Calls : Http!Take(c) \/ Http!Done(c) \/ Http!PostFails(c)
  BY DEF Http!WriteStep
<1>2. HttpType /\ call \in [Calls -> Posts] /\ call[c] \in Posts /\ HeadsOk(httpHeads)
  BY DEF HttpInv, HttpType
<1>3. CASE Http!Take(c)
  <2>1. /\ call[c].phase = "posting" /\ call' = [call EXCEPT ![c].phase = "taken"]
        /\ UNCHANGED <<httpHeads, logs, pruning, prunes, overlapped>>
    BY <1>3 DEF Http!Take
  <2>2. WindowType'
    BY <2>1 DEF WindowInv, WindowType
  <2>3. \A d \in Calls : /\ call'[d].batch = call[d].batch /\ call'[d].rows = call[d].rows
                         /\ call'[d].next = call[d].next
                         /\ call'[d].phase # "none" => call[d].phase # "none"
    BY <1>2, <2>1 DEF Posts
  <2>4. ChainedToHeads => ChainedToHeads'
    BY <2>1, <2>3 DEF ChainedToHeads
  <2>5. \A s \in Streams : WindowOk(s) => WindowOk(s)'
    BY <2>1 DEF WindowOk
  <2> QED BY <2>1, <2>2, <2>4, <2>5 DEF WindowInv
<1>4. CASE Http!PostFails(c)
  <2>1. /\ call' = [call EXCEPT ![c] = Http!NoCall]
        /\ UNCHANGED <<httpHeads, logs, pruning, prunes, overlapped>>
    BY <1>4 DEF Http!PostFails, Http!Answered
  <2>2. WindowType'
    BY <2>1 DEF WindowInv, WindowType
  <2>3. \A d \in Calls : call'[d].phase # "none" => call'[d] = call[d]
    BY <1>2, <2>1, NoCallOk
  <2>4. ChainedToHeads => ChainedToHeads'
    BY <2>1, <2>3 DEF ChainedToHeads
  <2>5. \A s \in Streams : WindowOk(s) => WindowOk(s)'
    BY <2>1 DEF WindowOk
  <2> QED BY <2>1, <2>2, <2>4, <2>5 DEF WindowInv
<1>5. CASE Http!Done(c)
  <2> DEFINE b == call[c].batch
             next == call[c].next
  <2>1. /\ call[c].phase = "taken" /\ call' = [call EXCEPT ![c] = Http!NoCall]
        /\ httpHeads' = [s \in Streams |-> IF OfStream(b, s) = <<>> THEN httpHeads[s] ELSE next[s]]
        /\ logs' = [s \in Streams |-> IF OfStream(b, s) = <<>> THEN logs[s]
                                      ELSE Http!Capped(logs[s] \o RowsOf(call[c].rows, s))]
        /\ overlapped' = (overlapped \/ pruning.phase = "archiving")
        /\ UNCHANGED <<pruning, prunes>>
    BY <1>5, WindowOps DEF Http!Done, Http!Answered, Http!MoveHeads, Http!Remember
  <2>2. b \in Seq(Events) /\ call[c].rows \in Seq(Row)
    BY <1>2 DEF Posts
  <2>3. \A s \in Streams : logs[s] \in Seq(Row)
    BY DEF WindowInv, WindowType
  <2> HIDE DEF b, next
  <2>4. WindowType'
    <3>1. ASSUME NEW s \in Streams PROVE logs'[s] \in Seq(Row)
      <4> DEFINE rows == RowsOf(call[c].rows, s)
                 grown == logs[s] \o rows
      <4>1. rows \in Seq(Row)
        BY <2>2, WhereProperties DEF RowsOf
      <4> HIDE DEF rows
      <4>2. grown \in Seq(Row)
        BY <2>3, <4>1
      <4> HIDE DEF grown
      <4>3. Http!Capped(grown) \in Seq(Row)
        BY <4>2, FanoutAssumption DEF Http!Capped
      <4> QED BY <2>1, <2>3, <4>3 DEF grown, rows
    <3>2. logs' \in [Streams -> Seq(Row)]
      BY <2>1, <3>1
    <3> QED BY <2>1, <3>2 DEF WindowInv, WindowType
  <2>5. ASSUME ~overlapped' PROVE ChainedToHeads' /\ \A s \in Streams : WindowOk(s)'
    <3>1. /\ ~overlapped /\ pruning.phase # "archiving"
          /\ ChainedToHeads /\ \A s \in Streams : WindowOk(s)
      BY <2>1, <2>5 DEF WindowInv
    <3>2. call[c].rows = Chained(b, httpHeads) /\ next = HeadsAfter(b, httpHeads)
          /\ \A d \in Calls : call[d].phase # "none" => d = c
      BY <2>1, <3>1 DEF ChainedToHeads, b, next
    <3>3. \A d \in Calls : call'[d].phase = "none"
      BY <1>2, <2>1, <3>2, NoCallOk
    <3>4. ChainedToHeads'
      BY <3>3 DEF ChainedToHeads
    <3>5. ASSUME NEW s \in Streams PROVE WindowOk(s)'
      <4>1. CASE OfStream(b, s) = <<>>
        BY <2>1, <3>1, <4>1 DEF WindowOk
      <4>2. CASE OfStream(b, s) # <<>>
        <5> DEFINE grown == logs[s] \o GroupOf(b, httpHeads, s)
                   capped == Http!Capped(grown)
        <5>1. RowsOf(call[c].rows, s) = GroupOf(b, httpHeads, s)
          BY <1>2, <2>2, <3>2, RowsOfChained
        <5>2. logs'[s] = capped /\ httpHeads'[s] = next[s]
          BY <2>1, <4>2, <5>1
        <5>3. /\ grown \in Seq(Row) /\ grown # <<>> /\ EndsWith(grown, next[s])
              /\ IsWhole(logs[s], httpHeads[s]) => IsWhole(grown, next[s])
          <6> HIDE DEF grown
          <6>1. grown = logs[s] \o GroupOf(b, httpHeads, s)
            BY DEF grown
          <6> QED BY <1>2, <2>2, <2>3, <3>2, <4>2, <6>1, WindowGrows
        <5>4. IsHead(next[s])
          BY <1>2, <2>2, <3>2, HeadsAfterProperties DEF HeadsOk
        <5> HIDE DEF grown
        <5>5. /\ EndsWith(capped, next[s])
              /\ IsWhole(grown, next[s]) => IsWhole(capped, next[s])
          <6> HIDE DEF capped
          <6>1. capped = Http!Capped(grown)
            BY DEF capped
          <6> QED BY <5>3, <5>4, <6>1, WindowCapped
        <5> HIDE DEF capped
        <5>6. prunes = 0 => IsWhole(capped, next[s])
          BY <3>1, <5>3, <5>5 DEF WindowOk
        <5> QED BY <2>1, <3>1, <5>2, <5>5, <5>6 DEF WindowOk
      <4> QED BY <4>1, <4>2
    <3> QED BY <3>4, <3>5
  <2> QED BY <2>4, <2>5 DEF WindowInv
<1> QED BY <1>1, <1>3, <1>4, <1>5

\* A prune chooses and replaces rows of one window.
LEMMA WindowPruneStep ==
    ASSUME WindowInv, Http!PruneStep
    PROVE  WindowInv'
<1>1. WindowType /\ logs \in [Streams -> Seq(Row)] /\ pruning \in Prunes /\ prunes \in Nat
  BY DEF WindowInv, WindowType
<1>2. UNCHANGED <<httpHeads, call, overlapped>> /\ (ChainedToHeads => ChainedToHeads')
  <2>1. UNCHANGED <<httpHeads, call, overlapped>>
    BY DEF Http!PruneStep, Http!Prune, Http!SelectRows, Http!KeepRetained, Http!PruneEnds
  <2> QED BY <2>1 DEF ChainedToHeads
<1>3. ASSUME NEW filter \in Filters, NEW old \in Cutoffs, Http!Prune(filter, old) PROVE WindowInv'
  <2>1. prunes' = prunes + 1 /\ UNCHANGED logs
        /\ pruning' = [Http!NoPrune EXCEPT !.phase = "selecting", !.filter = filter, !.old = old]
    BY <1>3 DEF Http!Prune
  <2>2. pruning' \in Prunes /\ pruning'.phase = "selecting"
    BY <2>1, NoPruneOk DEF Prunes
  <2>3. prunes' # 0 /\ prunes' \in Nat
    BY <1>1, <2>1
  <2>4. WindowType'
    BY <1>1, <2>1, <2>2, <2>3 DEF WindowType
  <2>5. \A s \in Streams : WindowOk(s) => WindowOk(s)'
    BY <1>2, <2>1, <2>2, <2>3 DEF WindowOk
  <2> QED BY <1>2, <2>4, <2>5 DEF WindowInv
<1>4. CASE Http!SelectRows
  <2>1. PICK s \in Streams :
            LET retained == Http!Retained(logs[s])
            IN  \/ /\ logs[s] # <<>>
                   /\ pruning' = [pruning EXCEPT !.done = @ \cup {s}]
                   /\ logs' = [logs EXCEPT ![s] = retained]
                \/ /\ retained # logs[s]
                   /\ pruning' = [pruning EXCEPT !.phase = "archiving", !.done = @ \cup {s},
                                                 !.stream = s, !.retained = retained]
                   /\ UNCHANGED logs
    BY <1>4 DEF Http!SelectRows
  <2>2. pruning.phase = "selecting" /\ UNCHANGED prunes /\ prunes # 0
    BY <1>1, <1>4 DEF Http!SelectRows, WindowType
  <2> DEFINE retained == Http!Retained(logs[s])
  <2>3. logs[s] # <<>>
    <3> SUFFICES ASSUME logs[s] = <<>>, retained # logs[s] PROVE FALSE
      BY <2>1
    <3>1. \A S : Http!Where(<<>>, S) = <<>>
      BY WhereNothing, WindowOps
    <3>2. retained = <<>>
      BY <3>1 DEF Http!Retained
    <3> QED BY <3>2
  <2>4. retained \in Seq(Row) /\ \A head : EndsWith(logs[s], head) => EndsWith(retained, head)
    <3>1. logs[s] \in Seq(Row)
      BY <1>1
    <3> QED BY <2>3, <3>1, WindowRetained
  <2> HIDE DEF retained
  <2>5. CASE pruning' = [pruning EXCEPT !.done = @ \cup {s}] /\ logs' = [logs EXCEPT ![s] = retained]
    <3>1. pruning' \in Prunes /\ pruning'.phase = "selecting"
      BY <1>1, <2>2, <2>5 DEF Prunes
    <3>2. logs' \in [Streams -> Seq(Row)] /\ logs'[s] = retained /\ \A t \in Streams \ {s} : logs'[t] = logs[t]
      BY <1>1, <2>4, <2>5
    <3>3. WindowType'
      BY <1>1, <2>2, <3>1, <3>2 DEF WindowType
    <3>4. ASSUME NEW t \in Streams, WindowOk(t) PROVE WindowOk(t)'
      <4>1. EndsWith(logs'[t], httpHeads[t])
        BY <2>4, <3>2, <3>4 DEF WindowOk
      <4> QED BY <1>2, <2>2, <3>1, <4>1 DEF WindowOk
    <3> QED BY <1>2, <3>3, <3>4 DEF WindowInv
  <2>6. CASE pruning' = [pruning EXCEPT !.phase = "archiving", !.done = @ \cup {s},
                                        !.stream = s, !.retained = retained] /\ UNCHANGED logs
    <3>1. pruning' \in Prunes /\ pruning'.phase = "archiving" /\ pruning'.stream = s /\ pruning'.retained = retained
      BY <1>1, <2>4, <2>6 DEF Prunes
    <3>2. WindowType'
      BY <1>1, <2>2, <2>6, <3>1 DEF WindowType
    <3>3. ASSUME NEW t \in Streams, WindowOk(t) PROVE WindowOk(t)'
      <4>1. t = s => EndsWith(retained, httpHeads[t])
        BY <2>4, <3>3 DEF WindowOk
      <4> QED BY <1>2, <2>2, <2>6, <3>1, <3>3, <4>1 DEF WindowOk
    <3> QED BY <1>2, <3>2, <3>3 DEF WindowInv
  <2> QED BY <2>1, <2>5, <2>6 DEF retained
<1>5. CASE Http!KeepRetained
  <2>1. /\ pruning.phase = "archiving" /\ logs' = [logs EXCEPT ![pruning.stream] = pruning.retained]
        /\ pruning' = [pruning EXCEPT !.phase = "selecting", !.stream = "none", !.retained = <<>>]
        /\ UNCHANGED prunes /\ prunes # 0
    BY <1>1, <1>5 DEF Http!KeepRetained, WindowType
  <2>2. <<>> \in Seq(Row) /\ pruning.retained \in Seq(Row)
    BY <1>1 DEF Prunes
  <2>3. pruning' \in Prunes /\ pruning'.phase = "selecting"
    BY <1>1, <2>1, <2>2 DEF Prunes
  <2>4. logs' \in [Streams -> Seq(Row)]
        /\ \A t \in Streams : logs'[t] = IF t = pruning.stream THEN pruning.retained ELSE logs[t]
    BY <1>1, <2>1, <2>2
  <2>5. WindowType'
    BY <1>1, <2>1, <2>3, <2>4 DEF WindowType
  <2>6. ASSUME NEW t \in Streams, WindowOk(t) PROVE WindowOk(t)'
    <3>1. EndsWith(logs'[t], httpHeads[t])
      BY <2>1, <2>4, <2>6 DEF WindowOk
    <3> QED BY <1>2, <2>1, <2>3, <3>1 DEF WindowOk
  <2> QED BY <1>2, <2>5, <2>6 DEF WindowInv
<1>6. CASE Http!PruneEnds
  <2>1. pruning' = Http!NoPrune /\ UNCHANGED <<logs, prunes>>
    BY <1>6 DEF Http!PruneEnds
  <2>2. WindowType'
    BY <1>1, <2>1, NoPruneOk DEF WindowType
  <2>3. \A s \in Streams : WindowOk(s) => WindowOk(s)'
    BY <1>2, <2>1, NoPruneOk DEF WindowOk
  <2> QED BY <1>2, <2>2, <2>3 DEF WindowInv
<1> QED BY <1>3, <1>4, <1>5, <1>6 DEF Http!PruneStep

LEMMA WindowNext == IInv /\ WindowInv /\ [Next]_vars => WindowInv'
<1> SUFFICES ASSUME IInv, WindowInv, [Next]_vars PROVE WindowInv'
  OBVIOUS
<1>1. HttpInv /\ HttpType /\ calls \in Nat /\ Calls = 1 .. MaxCalls /\ MaxCalls \in Nat
  BY FanoutAssumption DEF IInv, HttpInv, FanoutType, Calls
<1>2. CASE UNCHANGED httpVars
  BY <1>2, WindowStays
<1>3. ASSUME NEW c \in Calls, NEW b, Http!Write(c, b) PROVE WindowInv'
  BY <1>1, <1>3, WindowCalled
<1>4. ASSUME NEW b \in Batches, Write(b) PROVE WindowInv'
  <2>1. calls' \in Calls /\ (CallMirrors(b) \/ UNCHANGED httpVars)
    BY <1>1, <1>4 DEF Write
  <2> QED BY <1>2, <1>3, <2>1 DEF CallMirrors
<1>5. CASE WritePrimary
  <2>1. (CallMirrors(batch) /\ calls' \in Calls) \/ UNCHANGED httpVars
    BY <1>5 DEF WritePrimary, IInv, FanoutType
  <2> QED BY <1>2, <1>3, <2>1 DEF CallMirrors
<1>6. CASE MirrorsWritten \/ MirrorFails \/ MirrorsSettled \/ PrimaryFails \/ StreamStep \/ UNCHANGED vars
  <2>1. UNCHANGED httpVars
    BY <1>6 DEF MirrorsWritten, MirrorFails, MirrorsSettled, PrimaryFails, StreamStep, vars
  <2> QED BY <1>2, <2>1
<1>7. CASE HttpStep
  BY <1>1, <1>7, WindowWriteStep, WindowPruneStep DEF HttpStep
<1>8. CASE Crash
  BY <1>8, WindowCrash DEF Crash
<1> QED BY <1>4, <1>5, <1>6, <1>7, <1>8 DEF Next, FanoutStep

-----------------------------------------------------------------------------
(* The file of the stream store. *)

\* The rows of a stream, in rows that are joined.
RowsJoin(a, b, s) == RowsOf(a \o b, s) = RowsOf(a, s) \o RowsOf(b, s)

LEMMA RowsOfProperties ==
    ASSUME NEW q \in Seq(Row), NEW s
    PROVE  /\ RowsOf(q, s) \in Seq(Row) /\ ToSet(RowsOf(q, s)) \subseteq ToSet(q)
           /\ RowsOf(q, s) = Where(q, {r \in Row : StreamOf[r.event] = s})
<1> DEFINE R == {r \in ToSet(q) : StreamOf[r.event] = s}
           S == {r \in Row : StreamOf[r.event] = s}
<1>1. ToSet(q) \subseteq Row
  BY DEF ToSet
<1>2. ToSet(q) \cap R = ToSet(q) \cap S
  BY <1>1
<1>3. RowsOf(q, s) = Where(q, R)
  BY DEF RowsOf
<1> HIDE DEF R, S
<1>4. Where(q, R) = Where(q, S)
  BY <1>2, WhereSame
<1>5. Where(q, R) \in Seq(Row) /\ ToSet(Where(q, R)) = ToSet(q) \cap R
  BY WhereProperties
<1> QED BY <1>3, <1>4, <1>5 DEF S

LEMMA RowsOfJoin ==
    ASSUME NEW a \in Seq(Row), NEW b \in Seq(Row), NEW s
    PROVE  RowsJoin(a, b, s)
<1> DEFINE S == {r \in Row : StreamOf[r.event] = s}
<1>1. \A q \in Seq(Row) : RowsOf(q, s) = Where(q, S)
  BY RowsOfProperties
<1> HIDE DEF S
<1>2. a \o b \in Seq(Row)
  BY JoinedAt
<1>3. WhereJoins(a, b, S)
  BY WhereJoin
<1> QED BY <1>1, <1>2, <1>3 DEF RowsJoin, WhereJoins

\* The rows with a sequence number.
Numbered(rows, n) == Where(rows, {r \in Row : r.seq = n})

LEMMA NumberedJoin ==
    ASSUME NEW a \in Seq(Row), NEW b \in Seq(Row), NEW n
    PROVE  /\ Len(Numbered(a, n)) \in Nat /\ Len(Numbered(b, n)) \in Nat
           /\ Len(Numbered(a \o b, n)) = Len(Numbered(a, n)) + Len(Numbered(b, n))
<1> DEFINE S == {r \in Row : r.seq = n}
<1> HIDE DEF S
<1>1. Where(a, S) \in Seq(Row) /\ Where(b, S) \in Seq(Row)
  BY WhereProperties
<1>2. Where(a \o b, S) = Where(a, S) \o Where(b, S)
  <2>1. WhereJoins(a, b, S)
    BY WhereJoin
  <2> QED BY <2>1 DEF WhereJoins
<1>3. PICK x \in Seq(Row), y \in Seq(Row) : x = Where(a, S) /\ y = Where(b, S)
  BY <1>1
<1>4. Len(x \o y) = Len(x) + Len(y) /\ Len(x) \in Nat /\ Len(y) \in Nat
  OBVIOUS
<1>5. /\ Len(Where(a, S)) \in Nat /\ Len(Where(b, S)) \in Nat
      /\ Len(Where(a \o b, S)) = Len(Where(a, S)) + Len(Where(b, S))
  BY <1>2, <1>3, <1>4
<1> QED BY <1>5 DEF Numbered, S

\* In consecutive rows there is one with each of their sequence numbers.
LEMMA NumberedOnce ==
    ASSUME NEW rows \in Seq(Row), NEW d \in Nat, \A k \in 1 .. Len(rows) : rows[k].seq = d + k, NEW n \in Nat
    PROVE  Numbered(rows, n) = IF n > d /\ n <= d + Len(rows) THEN <<rows[n - d]>> ELSE <<>>
<1> DEFINE S == {r \in Row : r.seq = n}
<1>1. Len(rows) \in Nat /\ DOMAIN rows = 1 .. Len(rows) /\ \A k \in 1 .. Len(rows) : rows[k] \in Row
  OBVIOUS
<1>2. \A k \in 1 .. Len(rows) : rows[k] \in S <=> k = n - d
  <2>1. \A k \in 1 .. Len(rows) : rows[k] \in S <=> d + k = n
    BY <1>1
  <2> HIDE DEF S
  <2> QED BY <2>1
<1> HIDE DEF S
<1>3. PICK m, f : IsPicked(rows, S, m, f)
  BY WherePicks
<1>4. /\ m \in Nat /\ f \in [1 .. m -> 1 .. Len(rows)]
      /\ \A i, j \in 1 .. m : i < j => f[i] < f[j]
      /\ \A k \in 1 .. m : rows[f[k]] \in S
      /\ \A i \in 1 .. Len(rows) : rows[i] \in S => \E k \in 1 .. m : f[k] = i
      /\ Where(rows, S) = [k \in 1 .. m |-> rows[f[k]]]
  BY <1>3 DEF IsPicked, Picks
<1>5. Numbered(rows, n) = [k \in 1 .. m |-> rows[f[k]]]
  BY <1>4 DEF Numbered, S
<1>6. \A k \in 1 .. m : f[k] = n - d
  BY <1>2, <1>4
<1>7. m <= 1
  <2> SUFFICES ASSUME ~(m <= 1) PROVE FALSE
    OBVIOUS
  <2>1. 1 \in 1 .. m /\ 2 \in 1 .. m /\ 1 < 2
    BY <1>4
  <2>2. f[1] < f[2] /\ f[1] = f[2] /\ f[1] \in 1 .. Len(rows)
    BY <1>4, <1>6, <2>1
  <2> QED BY <1>1, <2>2
<1>8. CASE n > d /\ n <= d + Len(rows)
  <2>1. n - d \in 1 .. Len(rows)
    BY <1>1, <1>8
  <2>2. PICK k \in 1 .. m : f[k] = n - d
    BY <1>2, <1>4, <2>1
  <2>3. m = 1 /\ f[1] = n - d
    BY <1>4, <1>7, <2>2
  <2> QED BY <1>5, <1>8, <2>3
<1>9. CASE ~(n > d /\ n <= d + Len(rows))
  <2>1. m = 0
    <3> SUFFICES ASSUME m # 0 PROVE FALSE
      OBVIOUS
    <3>1. 1 \in 1 .. m /\ f[1] = n - d /\ f[1] \in 1 .. Len(rows)
      BY <1>4, <1>6
    <3> QED BY <1>1, <1>9, <3>1
  <2>2. Numbered(rows, n) = <<>>
    BY <1>5, <2>1
  <2> QED BY <1>9, <2>2
<1> QED BY <1>8, <1>9

\* The rows of one life of the process continue a head: sequence numbers above it are free,
\* save for the forks of earlier lives, and in the first life the rows are its chain.
Fits(rows, head, lives) ==
    /\ \A n \in Nat : /\ Len(Numbered(rows, n)) <= 1 + lives
                      /\ n > head.seq => Len(Numbered(rows, n)) <= lives
    /\ lives = 0 => Len(rows) = head.seq /\ IsWhole(rows, head)

\* Rows whose hashes are those of a chain that starts at the genesis.
IsChain(rows, H) ==
    /\ Len(rows) <= Len(H)
    /\ \A k \in 1 .. Len(rows) : /\ rows[k].seq = k /\ rows[k].hash = SubSeq(H, 1, k)
                                 /\ H[k] = [event |-> rows[k].event, seq |-> k]

\* What a reader of the file finds.
Sound(rows, lives) ==
    /\ \A n \in Nat : Len(Numbered(rows, n)) <= 1 + lives
    /\ lives = 0 => \E H \in Seq(Entry) : IsChain(rows, H)

LEMMA FitsMore ==
    ASSUME NEW b \in Seq(Events), NEW h, HeadsOk(h), NEW s \in Streams, NEW lives \in Nat,
           NEW rows \in Seq(Row), Fits(rows, h[s], lives),
           NEW grown, grown = rows \o GroupOf(b, h, s)
    PROVE  Fits(grown, HeadsAfter(b, h)[s], lives)
<1> DEFINE g == GroupOf(b, h, s)
           next == HeadsAfter(b, h)[s]
           m == Len(OfStream(b, s))
           d == h[s].seq
<1>1. /\ m \in Nat /\ d \in Nat /\ next.seq = d + m
      /\ g \in Seq(Row) /\ Len(g) = m /\ \A k \in 1 .. Len(g) : g[k].seq = d + k
  <2>1. m \in Nat /\ d \in Nat
    BY OfStreamProperties DEF HeadsOk, IsHead
  <2>2. next.seq = d + m
    BY DEF HeadsAfter
  <2> QED BY <2>1, <2>2, GroupOfProperties
<1>2. /\ Len(grown) = Len(rows) + m
      /\ IsWhole(rows, h[s]) => IsWhole(grown, next)
  <2> HIDE DEF g, next, m, d
  <2>1. grown = rows \o GroupOf(b, h, s)
    OBVIOUS
  <2>2. Len(grown) = Len(rows) + Len(OfStream(b, s))
    <3>1. PICK y \in Seq(Row) : y = g
      BY <1>1
    <3>2. Len(rows \o y) = Len(rows) + Len(y)
      BY JoinedAt
    <3>3. Len(y) = m
      BY <1>1, <3>1
    <3> QED BY <2>1, <3>1, <3>2, <3>3 DEF g, m
  <2>3. IsWhole(rows, h[s]) => IsWhole(grown, HeadsAfter(b, h)[s])
    BY <2>1, WindowGrows
  <2> QED BY <2>2, <2>3 DEF next, m
<1>3. grown = rows \o g
  OBVIOUS
<1> HIDE DEF g, next, m, d
<1>4. ASSUME NEW n \in Nat
      PROVE  /\ Len(Numbered(g, n)) \in Nat /\ Len(Numbered(rows, n)) \in Nat
             /\ Len(Numbered(grown, n)) = Len(Numbered(rows, n)) + Len(Numbered(g, n))
             /\ Len(Numbered(g, n)) = IF n > d /\ n <= d + m THEN 1 ELSE 0
  <2>1. PICK y \in Seq(Row) : y = g
    BY <1>1
  <2>2. \A k \in 1 .. Len(y) : y[k].seq = d + k
    BY <1>1, <2>1
  <2>3. Numbered(y, n) = IF n > d /\ n <= d + Len(y) THEN <<y[n - d]>> ELSE <<>>
    BY <1>1, <2>2, NumberedOnce
  <2>4. /\ Len(Numbered(y, n)) \in Nat /\ Len(Numbered(rows, n)) \in Nat
        /\ Len(Numbered(rows \o y, n)) = Len(Numbered(rows, n)) + Len(Numbered(y, n))
    BY NumberedJoin
  <2>5. Len(y) = m
    BY <1>1, <2>1
  <2>6. Len(Numbered(y, n)) = IF n > d /\ n <= d + m THEN 1 ELSE 0
    BY <2>3, <2>5
  <2> QED BY <1>3, <2>1, <2>4, <2>6
<1>5. \A n \in Nat : /\ Len(Numbered(rows, n)) <= 1 + lives
                     /\ n > d => Len(Numbered(rows, n)) <= lives
  BY DEF Fits, d
<1>6. \A n \in Nat : /\ Len(Numbered(grown, n)) <= 1 + lives
                     /\ n > next.seq => Len(Numbered(grown, n)) <= lives
  <2> SUFFICES ASSUME NEW n \in Nat
               PROVE  /\ Len(Numbered(grown, n)) <= 1 + lives
                      /\ n > next.seq => Len(Numbered(grown, n)) <= lives
    OBVIOUS
  <2>1. /\ Len(Numbered(rows, n)) <= 1 + lives
        /\ n > d => Len(Numbered(rows, n)) <= lives
    BY <1>5
  <2>2. /\ Len(Numbered(g, n)) \in Nat /\ Len(Numbered(rows, n)) \in Nat
        /\ Len(Numbered(grown, n)) = Len(Numbered(rows, n)) + Len(Numbered(g, n))
        /\ Len(Numbered(g, n)) = IF n > d /\ n <= d + m THEN 1 ELSE 0
    BY <1>4
  <2>3. m \in Nat /\ d \in Nat /\ next.seq = d + m
    BY <1>1
  <2> QED BY <2>1, <2>2, <2>3
<1>7. lives = 0 => Len(rows) = d /\ IsWhole(rows, h[s])
  BY DEF Fits, d
<1>8. lives = 0 => Len(grown) = next.seq /\ IsWhole(grown, next)
  BY <1>1, <1>2, <1>7
<1> QED BY <1>6, <1>8 DEF Fits, next

\* Rows that fit are sound, and so are the first of them.
LEMMA FitsIsSound ==
    ASSUME NEW a \in Seq(Row), NEW b \in Seq(Row), NEW head, IsHead(head), NEW lives \in Nat,
           Fits(a \o b, head, lives)
    PROVE  Sound(a, lives)
<1>1. \A n \in Nat : Len(Numbered(a, n)) <= 1 + lives
  <2> SUFFICES ASSUME NEW n \in Nat PROVE Len(Numbered(a, n)) <= 1 + lives
    OBVIOUS
  <2>1. Len(Numbered(a \o b, n)) <= 1 + lives
    BY DEF Fits
  <2>2. /\ Len(Numbered(a, n)) \in Nat /\ Len(Numbered(b, n)) \in Nat
        /\ Len(Numbered(a \o b, n)) = Len(Numbered(a, n)) + Len(Numbered(b, n))
    BY NumberedJoin
  <2> QED BY <2>1, <2>2
<1>2. ASSUME lives = 0 PROVE \E H \in Seq(Entry) : IsChain(a, H)
  <2> DEFINE all == a \o b
             H == head.hash
  <2>1. /\ all \in Seq(Row) /\ Len(all) = Len(a) + Len(b) /\ Len(a) \in Nat /\ Len(b) \in Nat
        /\ \A k \in 1 .. Len(a) : all[k] = a[k]
    BY JoinedAt
  <2>2. Len(all) = head.seq /\ IsWhole(all, head)
    BY <1>2 DEF Fits
  <2>3. H \in Seq(Entry) /\ Len(H) = head.seq /\ head.seq \in Nat
    BY DEF IsHead
  <2> HIDE DEF all
  <2>4. ASSUME NEW k \in 1 .. Len(a)
        PROVE  /\ a[k].seq = k /\ a[k].hash = SubSeq(H, 1, k)
               /\ H[k] = [event |-> a[k].event, seq |-> k]
    <3>1. k \in 1 .. Len(all) /\ (head.seq - Len(all)) + k = k
      BY <2>1, <2>2, <2>3
    <3>2. /\ all[k].seq = (head.seq - Len(all)) + k
          /\ all[k].hash = SubSeq(H, 1, (head.seq - Len(all)) + k)
          /\ H[(head.seq - Len(all)) + k] = [event |-> all[k].event, seq |-> (head.seq - Len(all)) + k]
      BY <2>2, <3>1 DEF IsWhole
    <3>3. all[k] = a[k]
      BY <2>1
    <3> QED BY <3>1, <3>2, <3>3
  <2>5. Len(a) <= Len(H)
    BY <2>1, <2>2, <2>3
  <2> HIDE DEF H
  <2>6. IsChain(a, H)
    BY <2>4, <2>5 DEF IsChain
  <2> QED BY <2>3, <2>6
<1> QED BY <1>1, <1>2 DEF Sound

\* Rows that are left out make room.
LEMMA FitsLess ==
    ASSUME NEW a \in Seq(Row), NEW b \in Seq(Row), NEW c \in Seq(Row), NEW head, NEW lives \in Nat, lives # 0,
           Fits(a \o (b \o c), head, lives)
    PROVE  Fits(a \o c, head, lives)
<1> SUFFICES ASSUME NEW n \in Nat
             PROVE  /\ Len(Numbered(a \o c, n)) <= 1 + lives
                    /\ n > head.seq => Len(Numbered(a \o c, n)) <= lives
  BY DEF Fits
<1>1. /\ Len(Numbered(a \o (b \o c), n)) <= 1 + lives
      /\ n > head.seq => Len(Numbered(a \o (b \o c), n)) <= lives
  BY DEF Fits
<1>2. PICK y \in Seq(Row) : y = b \o c
  <2>1. b \o c \in Seq(Row)
    BY JoinedAt
  <2> QED BY <2>1
<1>3. /\ Len(Numbered(a, n)) \in Nat /\ Len(Numbered(y, n)) \in Nat
      /\ Len(Numbered(a \o y, n)) = Len(Numbered(a, n)) + Len(Numbered(y, n))
  <2>1. y \in Seq(Row)
    BY <1>2
  <2> QED BY <2>1, NumberedJoin
<1>4. /\ Len(Numbered(b, n)) \in Nat /\ Len(Numbered(c, n)) \in Nat
      /\ Len(Numbered(b \o c, n)) = Len(Numbered(b, n)) + Len(Numbered(c, n))
  BY NumberedJoin
<1>5. Len(Numbered(a \o c, n)) = Len(Numbered(a, n)) + Len(Numbered(c, n))
  BY NumberedJoin
<1>6. Len(Numbered(a \o c, n)) <= Len(Numbered(a \o (b \o c), n))
  BY <1>2, <1>3, <1>4, <1>5
<1>7. Len(Numbered(a \o c, n)) \in Nat /\ Len(Numbered(a \o (b \o c), n)) \in Nat
  BY <1>2, <1>3, <1>4, <1>5
<1> HIDE DEF Numbered
<1> QED BY <1>1, <1>6, <1>7

\* The rows of a range of a chain.
IsRange(rows, from, to, inRange) ==
    /\ inRange \in Seq(Row) /\ Len(inRange) = (to - from) + 1
    /\ \A k \in 1 .. Len(inRange) : inRange[k] = rows[(from - 1) + k]

LEMMA RangeOfChain ==
    ASSUME NEW rows \in Seq(Row), NEW H, IsChain(rows, H),
           NEW from \in 1 .. Len(rows), NEW to \in 1 .. Len(rows), from <= to,
           NEW inRange, inRange = Where(rows, {r \in ToSet(rows) : r.seq \in from .. to})
    PROVE  IsRange(rows, from, to, inRange)
<1> DEFINE S == {r \in ToSet(rows) : r.seq \in from .. to}
<1>1. /\ Len(rows) \in Nat /\ DOMAIN rows = 1 .. Len(rows) /\ from \in Nat /\ to \in Nat
      /\ \A k \in 1 .. Len(rows) : rows[k] \in Row /\ rows[k].seq = k
  <2>1. \A k \in 1 .. Len(rows) : rows[k].seq = k
    BY DEF IsChain
  <2>2. /\ Len(rows) \in Nat /\ DOMAIN rows = 1 .. Len(rows)
        /\ \A k \in 1 .. Len(rows) : rows[k] \in Row
    OBVIOUS
  <2>3. from \in Nat /\ to \in Nat
    BY <2>2
  <2> QED BY <2>1, <2>2, <2>3
<1>2. inRange = Where(rows, S)
  OBVIOUS
<1>3. PICK m, f : IsPicked(rows, S, m, f)
  <2> HIDE DEF S
  <2> QED BY WherePicks
<1>4. Picks(rows, S, Len(rows), m, f) /\ inRange = [k \in 1 .. m |-> rows[f[k]]]
  <2> HIDE DEF S
  <2> QED BY <1>2, <1>3 DEF IsPicked
<1>5. m \in Nat /\ f \in [1 .. m -> 1 .. Len(rows)] /\ \A k \in 1 .. m : f[k] = f[1] + (k - 1)
  <2>1. \A k \in 1 .. Len(rows) : rows[k].seq = 0 + k
    BY <1>1
  <2>2. Consecutive(rows, m, f)
    BY <1>1, <1>4, <2>1, RangeIsConsecutive
  <2> QED BY <2>2 DEF Consecutive
<1>6. \A k \in 1 .. Len(rows) : rows[k] \in S <=> (from <= k /\ k <= to)
  <2> SUFFICES ASSUME NEW k \in 1 .. Len(rows) PROVE rows[k] \in S <=> (from <= k /\ k <= to)
    OBVIOUS
  <2>1. rows[k] \in ToSet(rows) /\ rows[k].seq = k
    BY <1>1 DEF ToSet
  <2> QED BY <1>1, <2>1
<1> HIDE DEF S
<1>7. /\ \A k \in 1 .. m : from <= f[k] /\ f[k] <= to
      /\ \A i \in 1 .. Len(rows) : from <= i /\ i <= to => \E k \in 1 .. m : f[k] = i
  BY <1>4, <1>5, <1>6 DEF Picks
<1>8. PICK i \in 1 .. m : f[i] = from
  BY <1>1, <1>7
<1>9. PICK j \in 1 .. m : f[j] = to
  BY <1>1, <1>7
<1>10. f[1] = from /\ f[m] = to /\ 1 \in 1 .. m
  <2>1. 1 \in 1 .. m /\ m \in 1 .. m
    BY <1>5, <1>8
  <2>2. f[1] \in Nat /\ from <= f[1] /\ f[m] <= to
    BY <1>5, <1>7, <2>1
  <2>3. from = f[1] + (i - 1) /\ to = f[1] + (j - 1) /\ f[m] = f[1] + (m - 1)
    BY <1>5, <1>8, <1>9, <2>1
  <2> QED BY <1>1, <1>5, <2>1, <2>2, <2>3
<1>11. m = (to - from) + 1
  <2>1. f[m] = f[1] + (m - 1)
    BY <1>5, <1>8
  <2> QED BY <1>1, <1>5, <1>10, <2>1
<1>12. \A k \in 1 .. m : inRange[k] = rows[(from - 1) + k] /\ inRange[k] \in Row
  <2> SUFFICES ASSUME NEW k \in 1 .. m PROVE inRange[k] = rows[(from - 1) + k] /\ inRange[k] \in Row
    OBVIOUS
  <2>1. f[k] = (from - 1) + k
    <3>1. f[k] = f[1] + (k - 1)
      BY <1>5
    <3> QED BY <1>1, <1>5, <1>10, <3>1
  <2>2. inRange[k] = rows[f[k]] /\ f[k] \in 1 .. Len(rows)
    BY <1>4, <1>5
  <2> QED BY <1>1, <2>1, <2>2
<1>13. inRange \in Seq(Row) /\ Len(inRange) = m
  <2>1. DOMAIN inRange = 1 .. m /\ inRange = [k \in 1 .. m |-> inRange[k]]
    BY <1>4
  <2>2. \A k \in 1 .. m : inRange[k] \in Row
    BY <1>12
  <2> QED BY <1>5, <2>1, <2>2, IsSequence
<1> QED BY <1>11, <1>12, <1>13 DEF IsRange

\* A range of a chain verifies from the genesis if and only if it starts at the first row.
LEMMA RangeVerifies ==
    ASSUME NEW rows \in Seq(Row), NEW H \in Seq(Entry), IsChain(rows, H),
           NEW from \in 1 .. Len(rows), NEW to \in 1 .. Len(rows), from <= to,
           NEW inRange, IsRange(rows, from, to, inRange)
    PROVE  AllValid(inRange, NoHead) <=> from = 1
<1>1. /\ inRange \in Seq(Row) /\ Len(inRange) = (to - from) + 1
      /\ \A k \in 1 .. Len(inRange) : inRange[k] = rows[(from - 1) + k]
  BY DEF IsRange
<1>2. /\ Len(rows) \in Nat /\ Len(H) \in Nat /\ Len(rows) <= Len(H) /\ from \in Nat /\ to \in Nat
      /\ \A k \in 1 .. Len(rows) : /\ rows[k].seq = k /\ rows[k].hash = SubSeq(H, 1, k)
                                   /\ H[k] = [event |-> rows[k].event, seq |-> k]
  BY DEF IsChain
<1>3. 1 \in 1 .. Len(inRange) /\ inRange[1].seq = from /\ DOMAIN inRange = 1 .. Len(inRange)
  <2>1. 1 \in 1 .. Len(inRange) /\ (from - 1) + 1 = from
    <3>1. from \in Nat /\ to \in Nat /\ Len(inRange) = (to - from) + 1
      BY <1>1, <1>2
    <3> QED BY <3>1
  <2>2. inRange[1] = rows[from]
    BY <1>1, <2>1
  <2>3. DOMAIN inRange = 1 .. Len(inRange)
    BY <1>1
  <2>4. rows[from].seq = from
    BY <1>2
  <2> QED BY <2>1, <2>2, <2>3, <2>4
<1>4. ASSUME from = 1 PROVE AllValid(inRange, NoHead)
  <2>1. 0 + Len(inRange) <= Len(H) /\ Len(inRange) \in Nat /\ Len(inRange) <= Len(rows)
    BY <1>1, <1>2, <1>4
  <2>2. \A k \in 1 .. Len(inRange) : /\ inRange[k].seq = 0 + k /\ inRange[k].hash = SubSeq(H, 1, 0 + k)
                                     /\ H[0 + k] = [event |-> inRange[k].event, seq |-> 0 + k]
    <3> SUFFICES ASSUME NEW k \in 1 .. Len(inRange)
                 PROVE  /\ inRange[k].seq = 0 + k /\ inRange[k].hash = SubSeq(H, 1, 0 + k)
                        /\ H[0 + k] = [event |-> inRange[k].event, seq |-> 0 + k]
      OBVIOUS
    <3>1. k \in 1 .. Len(rows) /\ (from - 1) + k = k /\ 0 + k = k
      BY <1>2, <1>4, <2>1
    <3>2. inRange[k] = rows[k]
      BY <1>1, <3>1
    <3> QED BY <1>2, <3>1, <3>2
  <2>3. AllValid(inRange, [seq |-> 0, hash |-> SubSeq(H, 1, 0)])
    BY <1>1, <2>1, <2>2, ChainIsValid
  <2>4. NoHead = [seq |-> 0, hash |-> SubSeq(H, 1, 0)]
    <3>1. SubSeq(H, 1, 0) = <<>>
      OBVIOUS
    <3> QED BY <3>1 DEF NoHead, GENESIS
  <2> QED BY <2>3, <2>4
<1>5. ASSUME AllValid(inRange, NoHead) PROVE from = 1
  <2> DEFINE after == Reached(inRange, NoHead)
  <2>1. Reaches(inRange, NoHead, Len(inRange), after)
    <3>1. Len(inRange) \in Nat
      BY <1>1
    <3> HIDE DEF after
    <3>2. \A start : Reaches(inRange, start, Len(inRange), Reached(inRange, start))
      BY <3>1, ReachedUnfolds
    <3> QED BY <3>2 DEF after
  <2>2. after[1].seq = inRange[1].seq
    BY <1>3, <1>5 DEF AllValid
  <2> HIDE DEF after
  <2>3. Len(inRange) \in Nat /\ 0 \in 0 .. Len(inRange) /\ 1 \in 0 .. Len(inRange)
    BY <1>1, <1>3
  <2>4. after[0] = NoHead
    BY <2>1, <2>3 DEF Reaches, ReachedAt
  <2>5. after[1] = ReachedAt(inRange, NoHead, after, 1)
    BY <2>1, <2>3 DEF Reaches
  <2>6. NoHead.seq = 0
    BY DEF NoHead
  <2>7. CASE inRange[1].seq = NoHead.seq + 1
    BY <1>3, <2>6, <2>7
  <2>8. CASE inRange[1].seq # NoHead.seq + 1
    <3>1. after[1] = NoHead
      BY <2>4, <2>5, <2>8 DEF ReachedAt
    <3> QED BY <1>2, <1>3, <2>2, <2>6, <3>1
  <2> QED BY <2>7, <2>8
<1> QED BY <1>4, <1>5

\* Sorting them by their sequence number leaves them as they are.
LEMMA RangeIsSorted ==
    ASSUME NEW rows \in Seq(Row), NEW H, IsChain(rows, H),
           NEW from \in 1 .. Len(rows), NEW to \in 1 .. Len(rows), from <= to,
           NEW inRange, IsRange(rows, from, to, inRange)
    PROVE  FlattenSeq([n \in 1 .. to |-> Numbered(inRange, n)]) = inRange
<1> DEFINE d == from - 1
<1>1. /\ inRange \in Seq(Row) /\ Len(inRange) = (to - from) + 1
      /\ \A k \in 1 .. Len(inRange) : inRange[k] = rows[d + k]
  BY DEF IsRange
<1>2. /\ Len(rows) \in Nat /\ d \in Nat /\ to \in Nat /\ from \in Nat /\ to = d + Len(inRange)
      /\ \A k \in 1 .. Len(rows) : rows[k].seq = k
  <2>1. \A k \in 1 .. Len(rows) : rows[k].seq = k
    BY DEF IsChain
  <2>2. Len(rows) \in Nat
    OBVIOUS
  <2>3. d \in Nat /\ to \in Nat /\ from \in Nat /\ to = d + Len(inRange)
    BY <1>1, <2>2
  <2> QED BY <2>1, <2>2, <2>3
<1>3. \A k \in 1 .. Len(inRange) : inRange[k].seq = d + k
  <2> SUFFICES ASSUME NEW k \in 1 .. Len(inRange) PROVE inRange[k].seq = d + k
    OBVIOUS
  <2>1. d + k \in 1 .. Len(rows)
    BY <1>1, <1>2
  <2> QED BY <1>1, <1>2, <2>1
<1> HIDE DEF d
<1>4. \A n \in 1 .. to : Numbered(inRange, n) = SingleAt(inRange, d, n)
  <2> SUFFICES ASSUME NEW n \in 1 .. to PROVE Numbered(inRange, n) = SingleAt(inRange, d, n)
    OBVIOUS
  <2>1. n \in Nat /\ n <= d + Len(inRange) /\ (n > d <=> ~(n <= d))
    <3>1. d \in Nat /\ to \in Nat /\ to = d + Len(inRange)
      BY <1>2
    <3>2. n \in Nat /\ n <= to
      BY <3>1
    <3>3. n > d <=> ~(n <= d)
      BY <3>1, <3>2
    <3> QED BY <3>1, <3>2, <3>3
  <2>2. Numbered(inRange, n) = IF n > d /\ n <= d + Len(inRange) THEN <<inRange[n - d]>> ELSE <<>>
    BY <1>1, <1>2, <1>3, <2>1, NumberedOnce
  <2> QED BY <2>1, <2>2 DEF SingleAt
<1>5. PICK ss : ss = [n \in 1 .. to |-> Numbered(inRange, n)]
  OBVIOUS
<1>6. ss = [n \in 1 .. d + Len(inRange) |-> SingleAt(inRange, d, n)]
  BY <1>2, <1>4, <1>5
<1>7. FlattenSeq(ss) = inRange
  BY <1>1, <1>2, <1>6, FlattenSingles
<1> QED BY <1>5, <1>7

\* The heads when the call whose turn it is has written its lines.
HeadsThen(turn, h) == IF turn = Stream!Resting THEN h ELSE HeadsAfter(turn.batch, h)

\* The rows of a stream in the lines of a call that are not written.
RowsLeft(turn, s) == RowsOf(FlattenSeq(turn.lines), s)

\* With them, the file continues the heads.
FileFits(rows, turn, h, lives) ==
    \A s \in Streams : Fits(RowsOf(rows, s) \o RowsLeft(turn, s), HeadsThen(turn, h)[s], lives)

FileInv ==
    /\ crashes \in Nat
    /\ \A s \in Streams : Sound(RowsOf(file, s), crashes)
    /\ ~broken => /\ crashes = 0 => ~torn
                  /\ FileFits(file, writing, streamHeads, crashes)

\* Nothing is left to write.
LEMMA NothingLeft ==
    ASSUME NEW rows \in Seq(Row), NEW turn, turn.lines = <<>>, NEW h, NEW lives
    PROVE  FileFits(rows, turn, h, lives) <=> \A s \in Streams : Fits(RowsOf(rows, s), HeadsThen(turn, h)[s], lives)
<1>1. FlattenSeq(turn.lines) = <<>>
  BY DEF FlattenSeq
<1>2. \A s \in Streams : RowsLeft(turn, s) = <<>>
  BY <1>1, WhereNothing DEF RowsLeft, RowsOf
<1>3. ASSUME NEW s \in Streams PROVE RowsOf(rows, s) \o RowsLeft(turn, s) = RowsOf(rows, s)
  <2>1. PICK x \in Seq(Row) : x = RowsOf(rows, s)
    BY RowsOfProperties
  <2>2. x \o <<>> = x
    BY JoinedAt
  <2> QED BY <1>2, <2>1, <2>2
<1> QED BY <1>3 DEF FileFits

LEMMA LinesAreChained ==
    ASSUME NEW b \in Seq(Events), NEW h, HeadsOk(h)
    PROVE  FlattenSeq(Stream!LinesOf(b, h)) = Chained(b, h)
<1> DEFINE rows == Chained(b, h)
           lines == Stream!LinesOf(b, h)
<1>1. rows \in Seq(Row) /\ Len(rows) \in Nat /\ DOMAIN rows = 1 .. Len(rows)
  BY ChainedProperties
<1>2. lines = IF format = "json" THEN <<rows>> ELSE [k \in DOMAIN rows |-> <<rows[k]>>]
  BY StreamOps DEF Stream!LinesOf
<1> HIDE DEF rows, lines
<1>3. CASE format = "json"
  <2>1. lines = <<rows>> /\ Len(lines) = 1 /\ lines[1] = rows
    BY <1>2, <1>3
  <2>2. PICK flat : Joins(lines, Len(lines), flat) /\ FlattenSeq(lines) = flat[Len(lines)]
    <3>1. Len(lines) \in Nat /\ Len(lines) # 0
      BY <2>1
    <3> QED BY <3>1, FlattenUnfolds
  <2>3. flat[1] = JoinAt(lines, flat, 1)
    BY <2>1, <2>2 DEF Joins
  <2> QED BY <2>1, <2>2, <2>3 DEF JoinAt, rows, lines
<1>4. CASE format # "json"
  <2>1. \A k \in 1 .. Len(rows) : SingleAt(rows, 0, k) = <<rows[k]>>
    BY <1>1 DEF SingleAt
  <2>2. lines = [k \in 1 .. Len(rows) |-> SingleAt(rows, 0, k)]
    BY <1>1, <1>2, <1>4, <2>1
  <2>3. 0 \in Nat /\ 0 + Len(rows) = Len(rows)
    BY <1>1
  <2>4. lines = [k \in 1 .. 0 + Len(rows) |-> SingleAt(rows, 0, k)]
    BY <2>2, <2>3
  <2>5. FlattenSeq(lines) = rows
    BY <1>1, <2>3, <2>4, FlattenSingles
  <2> QED BY <2>5 DEF rows, lines
<1> QED BY <1>3, <1>4

\* A turn that begins.
LEMMA TurnFits ==
    ASSUME NEW waiting \in Seq(Entries), Stream!TurnOfFirst(waiting), HeadsOk(streamHeads'),
           NEW rows \in Seq(Row), NEW lives \in Nat,
           \A s \in Streams : Fits(RowsOf(rows, s), streamHeads'[s], lives)
    PROVE  FileFits(rows, writing', streamHeads', lives)
<1>1. CASE waiting = <<>>
  <2>1. writing' = Stream!Resting
    BY <1>1 DEF Stream!TurnOfFirst
  <2>2. writing'.lines = <<>> /\ HeadsThen(writing', streamHeads') = streamHeads'
    BY <2>1 DEF Stream!Resting, HeadsThen
  <2> QED BY <2>2, NothingLeft
<1>2. CASE waiting # <<>>
  <2>1. PICK b, h : b = writing'.batch /\ h = streamHeads'
    OBVIOUS
  <2>2. /\ writing' # Stream!Resting /\ b \in Seq(Events) /\ HeadsOk(h)
        /\ writing'.lines = Stream!LinesOf(b, h)
    <3>1. Len(waiting) > 0 /\ waiting[1] \in Entries
      BY <1>2
    <3>2. writing' = [call |-> waiting[1].call, batch |-> waiting[1].batch,
                      lines |-> Stream!LinesOf(waiting[1].batch, streamHeads')]
      BY <1>2 DEF Stream!TurnOfFirst
    <3>3. waiting[1].call # 0 /\ waiting[1].batch \in Seq(Events)
      BY <3>1, FanoutAssumption DEF Entries, Calls
    <3>4. writing' # Stream!Resting
      BY <3>2, <3>3 DEF Stream!Resting, Stream!NoCall
    <3> QED BY <2>1, <3>2, <3>3, <3>4
  <2>3. FlattenSeq(writing'.lines) = Chained(b, h)
    BY <2>2, LinesAreChained
  <2>4. ASSUME NEW s \in Streams
        PROVE  Fits(RowsOf(rows, s) \o RowsLeft(writing', s), HeadsThen(writing', streamHeads')[s], lives)
    <3>1. RowsLeft(writing', s) = GroupOf(b, h, s)
      BY <2>2, <2>3, RowsOfChained DEF RowsLeft
    <3>2. PICK x \in Seq(Row) : x = RowsOf(rows, s)
      BY RowsOfProperties
    <3>3. Fits(x, h[s], lives)
      BY <2>1, <3>2
    <3>4. \A y : y = x \o GroupOf(b, h, s) => Fits(y, HeadsAfter(b, h)[s], lives)
      BY <2>2, <3>2, <3>3, FitsMore
    <3>5. HeadsThen(writing', streamHeads') = HeadsAfter(b, h)
      BY <2>1, <2>2 DEF HeadsThen
    <3> QED BY <3>1, <3>2, <3>4, <3>5
  <2> QED BY <2>4 DEF FileFits
<1> QED BY <1>1, <1>2

\* A line goes from what is left to the file, or behind a torn line and out of sight.
LEMMA LineMoves ==
    ASSUME NEW rows \in Seq(Row), NEW lines \in Seq(Seq(Row)), lines # <<>>, NEW s, NEW head, NEW lives \in Nat,
           Fits(RowsOf(rows, s) \o RowsOf(FlattenSeq(lines), s), head, lives)
    PROVE  /\ Fits(RowsOf(rows \o Head(lines), s) \o RowsOf(FlattenSeq(Tail(lines)), s), head, lives)
           /\ lives # 0 => Fits(RowsOf(rows, s) \o RowsOf(FlattenSeq(Tail(lines)), s), head, lives)
<1>1. Head(lines) \in Seq(Row) /\ Tail(lines) \in Seq(Seq(Row))
  OBVIOUS
<1>2. FlattenSeq(Tail(lines)) \in Seq(Row)
  BY <1>1, FlattenProperties
<1>3. PICK l \in Seq(Row), t \in Seq(Row) : l = Head(lines) /\ t = FlattenSeq(Tail(lines))
  BY <1>1, <1>2
<1>4. FlattenSeq(lines) = l \o t
  <2>1. HeadFirst(lines)
    BY FlattenTail
  <2> QED BY <1>3, <2>1 DEF HeadFirst
<1>5. RowsOf(l \o t, s) = RowsOf(l, s) \o RowsOf(t, s) /\ RowsOf(rows \o l, s) = RowsOf(rows, s) \o RowsOf(l, s)
  <2>1. l \in Seq(Row) /\ t \in Seq(Row)
    BY <1>3
  <2>2. RowsJoin(l, t, s) /\ RowsJoin(rows, l, s)
    BY <2>1, RowsOfJoin
  <2> QED BY <2>2 DEF RowsJoin
<1>6. PICK a \in Seq(Row), b \in Seq(Row), c \in Seq(Row) :
          a = RowsOf(rows, s) /\ b = RowsOf(l, s) /\ c = RowsOf(t, s)
  <2>1. l \in Seq(Row) /\ t \in Seq(Row)
    BY <1>3
  <2>2. RowsOf(rows, s) \in Seq(Row) /\ RowsOf(l, s) \in Seq(Row) /\ RowsOf(t, s) \in Seq(Row)
    BY <2>1, RowsOfProperties
  <2> QED BY <2>2
<1>7. Fits(a \o (b \o c), head, lives)
  BY <1>4, <1>5, <1>6
<1>8. a \in Seq(Row) /\ b \in Seq(Row) /\ c \in Seq(Row)
  BY <1>6
<1>9. (a \o b) \o c = a \o (b \o c)
  <2>1. Associates(a, b, c)
    BY <1>8, JoinThree
  <2> QED BY <2>1 DEF Associates
<1>10. Fits((a \o b) \o c, head, lives)
  BY <1>7, <1>9
<1>11. lives # 0 => Fits(a \o c, head, lives)
  BY <1>7, <1>8, FitsLess
<1>12. RowsOf(rows \o Head(lines), s) = a \o b /\ RowsOf(FlattenSeq(Tail(lines)), s) = c
  BY <1>3, <1>5, <1>6
<1> QED BY <1>6, <1>10, <1>11, <1>12

\* With the lines that are left or without them, what the file has is sound.
LEMMA FileIsSound ==
    ASSUME NEW rows \in Seq(Row), NEW turn \in Turns, NEW h, HeadsOk(h), NEW lives \in Nat,
           FileFits(rows, turn, h, lives)
    PROVE  \A s \in Streams : Sound(RowsOf(rows, s), lives)
<1> SUFFICES ASSUME NEW s \in Streams PROVE Sound(RowsOf(rows, s), lives)
  OBVIOUS
<1>1. turn.lines \in Seq(Seq(Row)) /\ turn.batch \in Seq(Events)
  BY DEF Turns
<1>2. FlattenSeq(turn.lines) \in Seq(Row)
  BY <1>1, FlattenProperties
<1>3. PICK a \in Seq(Row), b \in Seq(Row) : a = RowsOf(rows, s) /\ b = RowsLeft(turn, s)
  <2>1. RowsOf(rows, s) \in Seq(Row) /\ RowsLeft(turn, s) \in Seq(Row)
    BY <1>2, RowsOfProperties DEF RowsLeft
  <2> QED BY <2>1
<1>4. IsHead(HeadsThen(turn, h)[s])
  <2>1. HeadsOk(HeadsThen(turn, h))
    BY <1>1, HeadsAfterProperties DEF HeadsThen
  <2> QED BY <2>1 DEF HeadsOk
<1>5. Fits(a \o b, HeadsThen(turn, h)[s], lives)
  BY <1>3 DEF FileFits
<1>6. a \in Seq(Row) /\ b \in Seq(Row)
  BY <1>3
<1>7. Sound(a, lives)
  BY <1>4, <1>5, <1>6, FitsIsSound
<1> QED BY <1>3, <1>7

\* An empty file.
LEMMA FileInit == Init => FileInv
<1> SUFFICES ASSUME Init PROVE FileInv
  OBVIOUS
<1>1. /\ file = <<>> /\ ~torn /\ ~broken /\ streamHeads = NoHeads /\ writing = Stream!Resting /\ crashes = 0
  BY StreamOps DEF Init, Stream!Init
<1>2. \A s : RowsOf(<<>>, s) = <<>>
  BY WhereNothing DEF RowsOf
<1>3. \A n : Numbered(<<>>, n) = <<>>
  BY WhereNothing DEF Numbered
<1>4. Len(<<>>) = 0 /\ <<>> \in Seq(Row)
  OBVIOUS
<1>5. ASSUME NEW s \in Streams PROVE Fits(<<>>, NoHeads[s], 0) /\ IsHead(NoHeads[s])
  <2>1. IsWhole(<<>>, NoHeads[s]) /\ NoHeads[s].seq = 0 /\ IsHead(NoHeads[s])
    BY EmptyWindows, NoHeadsOk DEF NoHeads, NoHead, HeadsOk
  <2> QED BY <1>3, <1>4, <2>1 DEF Fits
<1>6. FileFits(file, writing, streamHeads, 0)
  <2>1. writing.lines = <<>> /\ HeadsThen(writing, streamHeads) = NoHeads /\ file \in Seq(Row)
    BY <1>1, <1>4 DEF Stream!Resting, HeadsThen
  <2>2. \A s \in Streams : Fits(RowsOf(file, s), HeadsThen(writing, streamHeads)[s], 0)
    BY <1>1, <1>2, <1>5, <2>1
  <2> QED BY <2>1, <2>2, NothingLeft
<1>7. \A s \in Streams : Sound(RowsOf(file, s), 0)
  <2> SUFFICES ASSUME NEW s \in Streams PROVE Sound(<<>>, 0)
    BY <1>1, <1>2
  <2>1. Fits(<<>> \o <<>>, NoHeads[s], 0)
    BY <1>5
  <2> QED BY <1>4, <1>5, <2>1, FitsIsSound
<1> QED BY <1>1, <1>6, <1>7 DEF FileInv

LEMMA FileStays ==
    ASSUME FileInv, UNCHANGED streamVars
    PROVE  FileInv'
<1>1. UNCHANGED <<file, torn, streamHeads, broken, writing, crashes>>
  BY DEF streamVars
<1>2. \A s : RowsOf(file', s) = RowsOf(file, s)
  BY <1>1
<1> QED BY <1>1, <1>2 DEF FileInv

\* A write that finds the store at rest has its turn.
LEMMA FileCalled ==
    ASSUME StreamType, FileInv, NEW c \in Calls, NEW b \in Seq(Events), Stream!Write(c, b)
    PROVE  FileInv'
<1>1. UNCHANGED <<file, torn, streamHeads, broken, crashes>>
  BY DEF Stream!Write, Stream!disk
<1>2. \A s \in Streams : Sound(RowsOf(file, s), crashes)'
  BY <1>1 DEF FileInv
<1>3. ASSUME ~broken PROVE FileFits(file, writing', streamHeads', crashes)
  <2>1. FileFits(file, writing, streamHeads, crashes)
    BY <1>3 DEF FileInv
  <2>2. CASE writing = Stream!Resting
    <3> DEFINE waiting == <<[call |-> c, batch |-> b]>>
    <3>1. Stream!TurnOfFirst(waiting)
      BY <2>2 DEF Stream!Write
    <3>2. waiting \in Seq(Entries)
      BY DEF Entries
    <3> HIDE DEF waiting
    <3>3. file \in Seq(Row) /\ crashes \in Nat /\ HeadsOk(streamHeads')
      BY <1>1 DEF StreamType, FileInv
    <3>4. writing.lines = <<>> /\ HeadsThen(writing, streamHeads) = streamHeads
      BY <2>2 DEF Stream!Resting, HeadsThen
    <3>5. \A s \in Streams : Fits(RowsOf(file, s), streamHeads'[s], crashes)
      BY <1>1, <2>1, <3>3, <3>4, NothingLeft
    <3> QED BY <3>1, <3>2, <3>3, <3>5, TurnFits
  <2>3. CASE writing # Stream!Resting
    BY <1>1, <2>1, <2>3 DEF Stream!Write
  <2> QED BY <2>2, <2>3
<1> QED BY <1>1, <1>2, <1>3 DEF FileInv

\* A line is in the file, or behind a torn one.
LEMMA FileLine ==
    ASSUME StreamType, FileInv, Stream!WriteLine
    PROVE  FileInv'
<1> DEFINE lines == writing.lines
<1>1. /\ lines # <<>> /\ ~broken /\ torn' = FALSE /\ writing' = [writing EXCEPT !.lines = Tail(lines)]
      /\ file' = IF torn THEN file ELSE file \o Head(lines)
      /\ UNCHANGED <<streamHeads, broken, crashes>>
  BY DEF Stream!WriteLine
<1>2. /\ crashes \in Nat /\ (crashes = 0 => ~torn) /\ FileFits(file, writing, streamHeads, crashes)
  BY <1>1 DEF FileInv
<1>3. file \in Seq(Row) /\ writing \in Turns /\ lines \in Seq(Seq(Row)) /\ HeadsOk(streamHeads)
  BY DEF StreamType, Turns
<1>4. /\ writing' \in Turns /\ writing'.lines = Tail(lines)
      /\ HeadsThen(writing', streamHeads) = HeadsThen(writing, streamHeads)
  <2>1. PICK c, b, q : writing = [call |-> c, batch |-> b, lines |-> q]
                       /\ c \in Calls \cup {0} /\ b \in Seq(Events) /\ q \in Seq(Seq(Row))
    BY <1>3 DEF Turns
  <2>2. writing # Stream!Resting
    BY <1>1 DEF Stream!Resting
  <2>3. writing.call \in Calls /\ writing.call # 0
    BY <2>2, FanoutAssumption DEF StreamType, Calls
  <2> DEFINE rest == Tail(lines)
  <2>4. writing' = [call |-> c, batch |-> b, lines |-> rest] /\ rest \in Seq(Seq(Row))
    <3>1. rest \in Seq(Seq(Row))
      BY <1>1, <1>3
    <3>2. writing' = [writing EXCEPT !.lines = rest]
      BY <1>1
    <3> HIDE DEF rest, lines
    <3> QED BY <2>1, <3>1, <3>2
  <2> HIDE DEF rest
  <2>5. writing' \in Turns
    BY <2>1, <2>4 DEF Turns
  <2>6. writing' # Stream!Resting
    BY <2>1, <2>3, <2>4 DEF Stream!Resting, Stream!NoCall
  <2> QED BY <2>1, <2>2, <2>4, <2>5, <2>6 DEF HeadsThen, rest
<1> HIDE DEF lines
<1>5. FileFits(file', writing', streamHeads, crashes)
  <2> SUFFICES ASSUME NEW s \in Streams
               PROVE  Fits(RowsOf(file', s) \o RowsOf(FlattenSeq(Tail(lines)), s),
                           HeadsThen(writing, streamHeads)[s], crashes)
    BY <1>4 DEF FileFits, RowsLeft
  <2>1. Fits(RowsOf(file, s) \o RowsOf(FlattenSeq(lines), s), HeadsThen(writing, streamHeads)[s], crashes)
    BY <1>2 DEF FileFits, RowsLeft, lines
  <2>2. PICK f \in Seq(Row), q \in Seq(Seq(Row)), lives \in Nat : f = file /\ q = lines /\ lives = crashes
    BY <1>2, <1>3
  <2> DEFINE head == HeadsThen(writing, streamHeads)[s]
  <2>3. f \in Seq(Row) /\ q \in Seq(Seq(Row)) /\ q # <<>> /\ lives \in Nat
        /\ Fits(RowsOf(f, s) \o RowsOf(FlattenSeq(q), s), head, lives)
    BY <1>1, <2>1, <2>2
  <2> HIDE DEF head
  <2>4. /\ Fits(RowsOf(f \o Head(q), s) \o RowsOf(FlattenSeq(Tail(q)), s), head, lives)
        /\ lives # 0 => Fits(RowsOf(f, s) \o RowsOf(FlattenSeq(Tail(q)), s), head, lives)
    BY <2>3, LineMoves
  <2>5. CASE torn
    BY <1>1, <1>2, <2>2, <2>4, <2>5 DEF head
  <2>6. CASE ~torn
    BY <1>1, <2>2, <2>4, <2>6 DEF head
  <2> QED BY <2>5, <2>6
<1>6. file' \in Seq(Row)
  <2>1. Head(lines) \in Seq(Row)
    BY <1>1, <1>3
  <2>2. PICK l \in Seq(Row) : l = Head(lines)
    BY <2>1
  <2>3. file \o l \in Seq(Row)
    BY <1>3
  <2> QED BY <1>1, <1>3, <2>2, <2>3
<1>7. \A s \in Streams : Sound(RowsOf(file', s), crashes)
  BY <1>2, <1>3, <1>4, <1>5, <1>6, FileIsSound
<1> QED BY <1>1, <1>2, <1>5, <1>7 DEF FileInv

\* A write has ended; the next one begins.
LEMMA FileTurns ==
    ASSUME StreamType, FileInv, HeadsOk(streamHeads'), UNCHANGED <<file, torn, broken, crashes>>,
           writing # Stream!Resting, writing.lines = <<>>, streamHeads' = Stream!HeadsAfter(writing.batch, streamHeads),
           Stream!TurnOfFirst(queue)
    PROVE  FileInv'
<1>1. file \in Seq(Row) /\ queue \in Seq(Entries) /\ crashes \in Nat
  BY DEF StreamType, FileInv
<1>2. \A s \in Streams : Sound(RowsOf(file, s), crashes)'
  BY DEF FileInv
<1>3. ASSUME ~broken PROVE FileFits(file, writing', streamHeads', crashes)
  <2>1. FileFits(file, writing, streamHeads, crashes)
    BY <1>3 DEF FileInv
  <2>2. HeadsThen(writing, streamHeads) = streamHeads'
    BY StreamOps DEF HeadsThen
  <2>3. \A s \in Streams : Fits(RowsOf(file, s), streamHeads'[s], crashes)
    BY <1>1, <2>1, <2>2, NothingLeft
  <2> QED BY <1>1, <2>3, TurnFits
<1> QED BY <1>2, <1>3 DEF FileInv

LEMMA FileWriteStep ==
    ASSUME StreamType, StreamType', FileInv, Stream!WriteStep
    PROVE  FileInv'
<1>1. CASE Stream!WriteLine
  BY <1>1, FileLine
<1>2. CASE Stream!LineFails
  <2>1. broken' = TRUE /\ UNCHANGED <<file, crashes>>
    BY <1>2 DEF Stream!LineFails
  <2>2. \A s \in Streams : Sound(RowsOf(file, s), crashes)'
    BY <2>1 DEF FileInv
  <2> QED BY <2>1, <2>2 DEF FileInv
<1>3. CASE Stream!FinishBatch \/ Stream!PersistFails
  <2>1. /\ writing # Stream!Resting /\ writing.lines = <<>>
        /\ streamHeads' = Stream!HeadsAfter(writing.batch, streamHeads)
        /\ UNCHANGED <<file, torn, broken, crashes>> /\ Stream!TurnOfFirst(queue)
    BY <1>3 DEF Stream!FinishBatch, Stream!PersistFails, Stream!Answered, Stream!disk
  <2>2. HeadsOk(streamHeads')
    BY DEF StreamType
  <2> QED BY <2>1, <2>2, FileTurns
<1> QED BY <1>1, <1>2, <1>3 DEF Stream!WriteStep

\* A new life may fork every stream once more.
LEMMA FileCrash ==
    ASSUME StreamType, FileInv, Stream!Crash
    PROVE  FileInv'
<1>1. /\ writing' = Stream!Resting /\ broken' = FALSE /\ crashes' = crashes + 1
      /\ streamHeads' = sidecar /\ UNCHANGED file
  BY DEF Stream!Crash
<1>2. crashes \in Nat /\ crashes' \in Nat /\ crashes' # 0 /\ file \in Seq(Row)
  BY <1>1 DEF FileInv, StreamType
<1>3. ASSUME NEW s \in Streams, NEW head PROVE Sound(RowsOf(file, s), crashes') /\ Fits(RowsOf(file, s), head, crashes')
  <2>1. \A n \in Nat : Len(Numbered(RowsOf(file, s), n)) <= 1 + crashes
    BY DEF FileInv, Sound
  <2>2. ASSUME NEW n \in Nat
        PROVE  Len(Numbered(RowsOf(file, s), n)) <= crashes' /\ Len(Numbered(RowsOf(file, s), n)) <= 1 + crashes'
    <3>1. PICK q \in Seq(Row) : q = RowsOf(file, s)
      BY <1>2, RowsOfProperties
    <3>2. Len(Numbered(q, n)) \in Nat
      <4>1. q \in Seq(Row)
        BY <3>1
      <4> QED BY <4>1, NumberedJoin
    <3>3. Len(Numbered(q, n)) <= 1 + crashes
      BY <2>1, <3>1
    <3> QED BY <1>1, <1>2, <3>1, <3>2, <3>3
  <2> QED BY <1>2, <2>2 DEF Sound, Fits
<1>4. FileFits(file, writing', streamHeads', crashes')
  <2>1. writing'.lines = <<>>
    BY <1>1 DEF Stream!Resting
  <2> QED BY <1>2, <1>3, <2>1, NothingLeft
<1> QED BY <1>1, <1>2, <1>3, <1>4 DEF FileInv

LEMMA FileNext == IInv /\ FileInv /\ [Next]_vars => FileInv'
<1> SUFFICES ASSUME IInv, FileInv, [Next]_vars PROVE FileInv'
  OBVIOUS
<1>1. IInv' /\ StreamType /\ StreamType' /\ calls \in Nat /\ Calls = 1 .. MaxCalls /\ MaxCalls \in Nat
  BY NextOk, FanoutAssumption DEF IInv, StreamInv, FanoutType, Calls
<1>2. CASE UNCHANGED streamVars
  BY <1>2, FileStays
<1>3. ASSUME NEW c \in Calls, NEW b \in Seq(Events), Stream!Write(c, b) PROVE FileInv'
  BY <1>1, <1>3, FileCalled
<1>4. ASSUME NEW b \in Batches, Write(b) PROVE FileInv'
  <2>1. b \in Seq(Events) /\ calls' \in Calls /\ (CallMirrors(b) \/ UNCHANGED streamVars)
    BY <1>1, <1>4, FanoutAssumption DEF Write
  <2> QED BY <1>2, <1>3, <2>1 DEF CallMirrors
<1>5. CASE WritePrimary
  <2>1. (CallMirrors(batch) /\ calls' \in Calls /\ batch \in Seq(Events)) \/ UNCHANGED streamVars
    BY <1>5 DEF WritePrimary, IInv, FanoutType
  <2> QED BY <1>2, <1>3, <2>1 DEF CallMirrors
<1>6. CASE MirrorsWritten \/ MirrorFails \/ MirrorsSettled \/ PrimaryFails \/ HttpStep \/ UNCHANGED vars
  <2>1. UNCHANGED streamVars
    BY <1>6 DEF MirrorsWritten, MirrorFails, MirrorsSettled, PrimaryFails, HttpStep, vars
  <2> QED BY <1>2, <2>1
<1>7. CASE StreamStep
  BY <1>1, <1>7, FileWriteStep DEF StreamStep
<1>8. CASE Crash
  BY <1>1, <1>8, FileCrash DEF Crash
<1> QED BY <1>4, <1>5, <1>6, <1>7, <1>8 DEF Next, FanoutStep

\* What a sound file is to its readers.
LEMMA SoundIsRead ==
    ASSUME file \in Seq(Row), NEW s \in Streams, NEW lives \in Nat, Sound(RowsOf(file, s), lives)
    PROVE  /\ \A n \in Nat : Len(Where(RowsOf(file, s), {r \in ToSet(RowsOf(file, s)) : r.seq = n})) <= 1 + lives
           /\ lives = 0 => \A to \in 1 .. Len(RowsOf(file, s)) : Stream!Verify(s, 1, to)
<1>1. PICK rows \in Seq(Row) : rows = RowsOf(file, s)
  BY RowsOfProperties
<1>2. ToSet(rows) \subseteq ToSet(file) /\ ToSet(file) \subseteq Row /\ ToSet(rows) \subseteq Row
  <2>1. ToSet(rows) \subseteq ToSet(file)
    BY <1>1, RowsOfProperties
  <2>2. ToSet(file) \subseteq Row
    BY DEF ToSet
  <2> QED BY <2>1, <2>2
<1>3. \A n \in Nat : Len(Where(rows, {r \in ToSet(rows) : r.seq = n})) <= 1 + lives
  <2> SUFFICES ASSUME NEW n \in Nat PROVE Len(Where(rows, {r \in ToSet(rows) : r.seq = n})) <= 1 + lives
    OBVIOUS
  <2> DEFINE R == {r \in ToSet(rows) : r.seq = n}
             S == {r \in Row : r.seq = n}
  <2>1. ToSet(rows) \cap R = ToSet(rows) \cap S
    BY <1>2
  <2>2. rows \in Seq(Row)
    BY <1>1
  <2>3. Len(Where(rows, S)) <= 1 + lives
    BY <1>1 DEF Sound, Numbered
  <2> HIDE DEF R, S
  <2>4. Where(rows, R) = Where(rows, S)
    BY <2>1, <2>2, WhereSame
  <2> QED BY <2>3, <2>4 DEF R
<1>4. ASSUME lives = 0, NEW from \in 1 .. Len(rows), NEW to \in 1 .. Len(rows), from <= to, from = 1
      PROVE  Stream!Verify(s, from, to)
  <2>1. PICK H \in Seq(Entry) : IsChain(rows, H)
    BY <1>1, <1>4 DEF Sound
  <2> DEFINE R == {r \in ToSet(file) : r.seq \in from .. to}
             S == {r \in ToSet(rows) : r.seq \in from .. to}
  <2>2. PICK inRange : inRange = Where(rows, S)
    OBVIOUS
  <2>3. Where(rows, R) = inRange
    <3>1. ToSet(rows) \cap R = ToSet(rows) \cap S
      BY <1>2
    <3>2. rows \in Seq(Row)
      BY <1>1
    <3> HIDE DEF R, S
    <3> QED BY <2>2, <3>1, <3>2, WhereSame
  <2>4. IsRange(rows, from, to, inRange)
    <3>1. rows \in Seq(Row) /\ H \in Seq(Entry) /\ IsChain(rows, H)
      BY <1>1, <2>1
    <3> QED BY <1>4, <2>2, <3>1, RangeOfChain
  <2>5. ToSet(inRange) \subseteq ToSet(file) /\ inRange \in Seq(Row)
    <3>1. rows \in Seq(Row)
      BY <1>1
    <3> HIDE DEF R
    <3>2. ToSet(Where(rows, R)) = ToSet(rows) \cap R /\ Where(rows, R) \in Seq(Row)
      BY <3>1, WhereProperties
    <3> QED BY <1>2, <2>3, <3>2
  <2>6. \A n : Where(inRange, {r \in ToSet(file) : r.seq = n}) = Numbered(inRange, n)
    <3> SUFFICES ASSUME NEW n PROVE Where(inRange, {r \in ToSet(file) : r.seq = n}) = Numbered(inRange, n)
      OBVIOUS
    <3> DEFINE A == {r \in ToSet(file) : r.seq = n}
               B == {r \in Row : r.seq = n}
    <3>1. ToSet(inRange) \cap A = ToSet(inRange) \cap B
      BY <1>2, <2>5
    <3> HIDE DEF A, B
    <3>2. Where(inRange, A) = Where(inRange, B)
      BY <2>5, <3>1, WhereSame
    <3> QED BY <3>2 DEF A, B, Numbered
  <2>7. Stream!ReadFileEvents(s, from, to) = FlattenSeq([n \in 1 .. to |-> Numbered(inRange, n)])
    <3>1. Stream!ReadFileEvents(s, from, to)
          = FlattenSeq([n \in 1 .. to |-> Where(Where(rows, R), {r \in ToSet(file) : r.seq = n})])
      BY <1>1, FileOps DEF Stream!ReadFileEvents
    <3>2. [n \in 1 .. to |-> Where(Where(rows, R), {r \in ToSet(file) : r.seq = n})]
          = [n \in 1 .. to |-> Numbered(inRange, n)]
      <4> HIDE DEF R
      <4> QED BY <2>3, <2>6
    <3> HIDE DEF R
    <3> QED BY <3>1, <3>2
  <2>8. Stream!ReadFileEvents(s, from, to) = inRange /\ AllValid(inRange, NoHead)
    <3>1. rows \in Seq(Row) /\ H \in Seq(Entry) /\ IsChain(rows, H)
      BY <1>1, <2>1
    <3>2. FlattenSeq([n \in 1 .. to |-> Numbered(inRange, n)]) = inRange
      BY <1>4, <2>4, <3>1, RangeIsSorted
    <3>3. AllValid(inRange, NoHead)
      BY <1>4, <2>4, <3>1, RangeVerifies
    <3> QED BY <2>7, <3>2, <3>3
  <2> QED BY <2>8, FileOps DEF Stream!Verify
<1>5. ASSUME lives = 0, NEW to \in 1 .. Len(rows) PROVE Stream!Verify(s, 1, to)
  <2>1. 1 \in 1 .. Len(rows) /\ 1 <= to
    OBVIOUS
  <2> QED BY <1>4, <1>5, <2>1
<1> QED BY <1>1, <1>3, <1>5

-----------------------------------------------------------------------------
(* Theorems. *)

\* With mirrorFailure "throw" the primary never has an event that a mirror lacks, with "log"
\* no mirror has an event that the primary lacks: for all batches, streams, bounds of faults
\* and restarts.
THEOREM MirrorsFirstOrLast == Spec => []FanoutOrder
<1>1. IInv => FanoutOrder
  BY DEF IInv, StreamTold, HttpTold, Told, FanoutOrder
<1> QED BY <1>1, InitOk, NextOk, PTL DEF Spec

\* No mirror's head ever runs ahead of what its destination has.
THEOREM HeadsNeverRunAhead == Spec => []HeadsAreBacked
<1>1. IInv => HeadsAreBacked
  <2> SUFFICES ASSUME StreamBacked, HttpBacked PROVE HeadsAreBacked
    BY DEF IInv, StreamInv, HttpInv
  <2>1. Stream!HeadsAreWritten
    BY StreamOps DEF Stream!HeadsAreWritten, StreamBacked, OnDisk
  <2>2. Http!HeadsAreTaken
    BY HttpOps DEF Http!HeadsAreTaken, HttpBacked
  <2> QED BY <2>1, <2>2 DEF HeadsAreBacked
<1> QED BY <1>1, InitOk, NextOk, PTL DEF Spec

\* As long as no call runs into another, the window of every stream ends with its head, and
\* until something was pruned each of its ranges verifies: for all batches, caps and prunes.
THEOREM WindowsAreChains == Spec => []WindowIsChain
<1>1. Init => IInv /\ WindowInv
  BY InitOk, WindowInit
<1>2. IInv /\ WindowInv /\ [Next]_vars => IInv' /\ WindowInv'
  BY NextOk, WindowNext
<1>3. IInv /\ WindowInv => WindowIsChain
  <2> SUFFICES ASSUME IInv, WindowInv, ~overlapped, NEW s \in Streams
               PROVE  /\ IF logs[s] = <<>> THEN httpHeads[s] = Http!NoHead
                         ELSE Http!Last(logs[s]).hash = httpHeads[s].hash
                      /\ prunes = 0 => \A from, to \in 1 .. httpHeads[s].seq : Http!Verify(s, from, to)
    BY DEF WindowIsChain, Http!WindowIsChain
  <2>1. WindowOk(s) /\ logs[s] \in Seq(Row) /\ IsHead(httpHeads[s])
    BY DEF WindowInv, WindowType, IInv, HttpInv, HttpType, HeadsOk
  <2>2. IF logs[s] = <<>> THEN httpHeads[s] = Http!NoHead ELSE Http!Last(logs[s]).hash = httpHeads[s].hash
    BY <2>1, WindowOps DEF WindowOk, EndsWith, Http!Last
  <2>3. ASSUME prunes = 0, NEW from \in 1 .. httpHeads[s].seq, NEW to \in 1 .. httpHeads[s].seq
        PROVE  Http!Verify(s, from, to)
    <3> DEFINE inRange == Where(logs[s], {r \in ToSet(logs[s]) : r.seq \in from .. to})
    <3>1. Http!Verify(s, from, to) <=> (inRange # <<>> => AllValid(inRange, Http!StartOf(logs[s], inRange)))
      BY WindowOps DEF Http!Verify
    <3>2. IsWhole(logs[s], httpHeads[s]) /\ from \in Nat /\ to \in Nat
      BY <2>1, <2>3 DEF WindowOk
    <3>3. inRange # <<>> => AllValid(inRange, Http!StartOf(logs[s], inRange))
      <4>1. PICK q : q = inRange
        OBVIOUS
      <4>2. q # <<>> => AllValid(q, Http!StartOf(logs[s], q))
        BY <2>1, <3>2, <4>1, WholeVerifies
      <4> QED BY <4>1, <4>2
    <3> QED BY <3>1, <3>3
  <2> QED BY <2>2, <2>3
<1> QED BY <1>1, <1>2, <1>3, PTL DEF Spec

\* Within the life of one process no two rows of a stream of the file get the same seq, a
\* restart adds at most one more with it, and what the first life has written verifies from
\* the first row to any other: for all batches, faults and crashes.
THEOREM FilesForkByRestarts == Spec => []StreamFileSound
<1>1. Init => IInv /\ FileInv
  BY InitOk, FileInit
<1>2. IInv /\ FileInv /\ [Next]_vars => IInv' /\ FileInv'
  BY NextOk, FileNext
<1>3. IInv /\ FileInv => StreamFileSound
  <2> SUFFICES ASSUME IInv, FileInv PROVE StreamFileSound
    OBVIOUS
  <2>1. file \in Seq(Row) /\ crashes \in Nat
    BY DEF IInv, StreamInv, StreamType, FileInv
  <2>2. ASSUME NEW s \in Streams
        PROVE  LET rows == RowsOf(file, s)
               IN  /\ \A n \in {r.seq : r \in ToSet(rows)} :
                        Len(Where(rows, {r \in ToSet(rows) : r.seq = n})) <= 1 + crashes
                   /\ crashes = 0 => \A to \in 1 .. Len(rows) : Stream!Verify(s, 1, to)
    <3> DEFINE rows == RowsOf(file, s)
    <3>1. Sound(RowsOf(file, s), crashes)
      BY DEF FileInv
    <3>2. PICK lives \in Nat : lives = crashes
      BY <2>1
    <3>3. /\ \A n \in Nat : Len(Where(rows, {r \in ToSet(rows) : r.seq = n})) <= 1 + lives
          /\ lives = 0 => \A to \in 1 .. Len(rows) : Stream!Verify(s, 1, to)
      <4>1. Sound(RowsOf(file, s), lives) /\ lives \in Nat
        BY <3>1, <3>2
      <4> QED BY <2>1, <4>1, SoundIsRead
    <3>4. \A r \in ToSet(rows) : r.seq \in Nat
      <4>1. rows \in Seq(Row)
        BY <2>1, RowsOfProperties
      <4> HIDE DEF rows
      <4>2. ToSet(rows) \subseteq Row
        BY <4>1 DEF ToSet
      <4> QED BY <4>2 DEF Row
    <3> HIDE DEF rows
    <3>5. \A n \in {r.seq : r \in ToSet(rows)} : n \in Nat
      BY <3>4
    <3> QED BY <3>2, <3>3, <3>5 DEF rows
  <2> QED BY <2>2, FileOps DEF StreamFileSound, Stream!StreamFileSound, Stream!Copies
<1> QED BY <1>1, <1>2, <1>3, PTL DEF Spec

=============================================================================
