--------------------------- MODULE BlobsParts_proofs ---------------------------
(***************************************************************************)
(* The parts of a pack and the batches it is uploaded in: sums, sequences  *)
(* of sequences, and what the loops over them compute, for every pack and  *)
(* every part and batch size.                                              *)
(*                                                                         *)
(* `Total`, `Batches` and FlattenSeq are recursive functions.  That there  *)
(* is a function that follows such a recursion (`Recursion`), and that two *)
(* that follow the same one agree (`Agree`), comes from the least number   *)
(* for which something fails.                                              *)
(***************************************************************************)
EXTENDS Blobs_proofs, SequenceTheorems, FiniteSetTheorems

-----------------------------------------------------------------------------
\* Induction and recursion over numbers.

\* A set of numbers has a least one: their intervals are ordered by inclusion.
LEMMA LeastOf ==
  ASSUME NEW S \in SUBSET Nat, S # {}
  PROVE  \E n \in S : \A m \in S : n <= m
<1> DEFINE T == {1..n : n \in S}
<1>1. IsWellFoundedOn(StrictSubsetOrdering(Nat), FiniteSubsetsOf(Nat))
  BY FS_StrictSubsetOrderingWellFounded
<1>2. T \subseteq FiniteSubsetsOf(Nat)
  <2> SUFFICES ASSUME NEW n \in S PROVE 1..n \in FiniteSubsetsOf(Nat)
    OBVIOUS
  <2>1. n \in Int /\ 1 \in Int /\ 1..n \in SUBSET Nat
    OBVIOUS
  <2>2. IsFiniteSet(1..n)
    BY <2>1, FS_Interval
  <2> QED
    BY <2>1, <2>2 DEF FiniteSubsetsOf
<1>3. T # {}
  OBVIOUS
<1> HIDE DEF T
<1>4. PICK x \in T : \A y \in T : ~ (<<y, x>> \in StrictSubsetOrdering(Nat))
  BY <1>1, <1>2, <1>3, WFMin
<1>5. PICK n \in S : x = 1..n
  BY DEF T
<1>6. ASSUME NEW m \in S PROVE n <= m
  <2>1. SUFFICES ASSUME m < n PROVE FALSE
    OBVIOUS
  <2>2. 1..m \in SUBSET Nat /\ 1..n \in SUBSET Nat /\ 1..m \subseteq 1..n
    BY <2>1
  <2>3. n \in 1..n /\ n \notin 1..m
    BY <2>1
  <2>4. 1..m \in T
    BY DEF T
  <2>5. <<1..m, 1..n>> \in StrictSubsetOrdering(Nat)
    BY <2>2, <2>3 DEF StrictSubsetOrdering
  <2> QED
    BY <1>4, <1>5, <2>4, <2>5
<1> QED
  BY <1>6

\* What holds of 0 and of each number after one of which it holds, up to n.
LEMMA Induction ==
  ASSUME NEW n \in Nat, NEW S, 0 \in S, \A i \in 1..n : i - 1 \in S => i \in S
  PROVE  0..n \subseteq S
<1> SUFFICES ASSUME (0..n) \ S # {} PROVE FALSE
  OBVIOUS
<1>1. (0..n) \ S \in SUBSET Nat
  OBVIOUS
<1>2. PICK i \in (0..n) \ S : \A j \in (0..n) \ S : i <= j
  BY <1>1, LeastOf
<1>3. i \in 1..n /\ i - 1 \in 0..n /\ ~(i <= i - 1)
  BY <1>2
<1> QED
  BY <1>2, <1>3

\* Two functions that follow the same recursion agree.
LEMMA Agree ==
  ASSUME NEW n \in Nat, NEW f, NEW g, f[0] = g[0],
         \A i \in 1..n : f[i - 1] = g[i - 1] => f[i] = g[i]
  PROVE  \A i \in 0..n : f[i] = g[i]
<1> DEFINE S == {i \in 0..n : f[i] = g[i]}
<1>1. 0 \in S
  OBVIOUS
<1>2. \A i \in 1..n : i - 1 \in S => i \in S
  OBVIOUS
<1> HIDE DEF S
<1>3. 0..n \subseteq S
  BY <1>1, <1>2, Induction
<1> QED
  BY <1>3 DEF S

(* f starts so and goes on by `step`, n times, in V.                       *)
Follows(f, n, V, start, step) ==
  /\ f \in [0..n -> V] /\ f[0] = start
  /\ \A i \in 1..n : f[i] = step[<<i, f[i - 1]>>]

\* Such a function exists.
LEMMA Recursion ==
  ASSUME NEW V, NEW n \in Nat, NEW start \in V, NEW step \in [(1..n) \X V -> V]
  PROVE  \E f : Follows(f, n, V, start, step)
<1> DEFINE Upto(m, f) == f[0] = start /\ \A i \in 1..m : f[i] = step[<<i, f[i - 1]>>]
           S == {m \in 0..n : \E f \in [0..m -> V] : Upto(m, f)}
<1>1. 0 \in S
  <2> DEFINE f == [i \in 0..0 |-> start]
  <2>1. f \in [0..0 -> V] /\ f[0] = start
    OBVIOUS
  <2> HIDE DEF f
  <2>2. Upto(0, f)
    BY <2>1
  <2> HIDE DEF Upto
  <2> QED
    BY <2>1, <2>2
<1>2. ASSUME NEW m \in 1..n, m - 1 \in S PROVE m \in S
  <2>1. PICK f \in [0..(m - 1) -> V] : Upto(m - 1, f)
    BY <1>2
  <2> DEFINE g == [i \in 0..m |-> IF i = m THEN step[<<m, f[m - 1]>>] ELSE f[i]]
  <2>2. m \in Nat /\ m - 1 \in 0..(m - 1)
    OBVIOUS
  <2>3. f[m - 1] \in V /\ step[<<m, f[m - 1]>>] \in V
    BY <2>2
  <2>4. g \in [0..m -> V]
    BY <2>2, <2>3
  <2>5. \A i \in 0..(m - 1) : g[i] = f[i]
    BY <2>2
  <2>6. g[m] = step[<<m, g[m - 1]>>]
    <3>1. g[m] = step[<<m, f[m - 1]>>]
      BY <2>2
    <3>2. g[m - 1] = f[m - 1]
      BY <2>2, <2>5
    <3> QED
      BY <3>1, <3>2
  <2> HIDE DEF g
  <2>7. g[0] = start
    BY <2>1, <2>2, <2>5
  <2>8. \A i \in 1..m : i = m \/ (i \in 1..(m - 1) /\ i \in 0..(m - 1) /\ i - 1 \in 0..(m - 1))
    BY <2>2
  <2>9. \A i \in 1..m : g[i] = step[<<i, g[i - 1]>>]
    BY <2>1, <2>5, <2>6, <2>8
  <2> QED
    BY <2>4, <2>7, <2>9
<1> HIDE DEF S
<1>3. 0..n \subseteq S
  BY <1>1, <1>2, Induction
<1>4. n \in S
  BY <1>3
<1> QED
  BY <1>4 DEF S, Follows

-----------------------------------------------------------------------------
\* Sums.

\* s is what t starts with.
Begins(s, t) == Len(s) <= Len(t) /\ \A i \in 1..Len(s) : s[i] = t[i]

Sums(f, s) == f[0] = 0 /\ \A i \in 1..Len(s) : f[i] = f[i - 1] + s[i]

LEMMA TotalIs ==
  ASSUME NEW s \in Seq(Nat)
  PROVE  \E f \in [0..Len(s) -> Nat] : Sums(f, s) /\ Total(s) = f[Len(s)]
<1> DEFINE n == Len(s)
           N == Nat
           step == [w \in (1..n) \X N |-> w[2] + s[w[1]]]
           next(g) == [i \in 0..n |-> IF i = 0 THEN 0 ELSE g[i - 1] + s[i]]
           sum == CHOOSE g : g = next(g)
<1>1. n \in Nat /\ \A i \in 1..n : s[i] \in Nat
  BY LenProperties
<1>2. step \in [(1..n) \X N -> N] /\ 0 \in N
  BY <1>1
<1>3. \A i \in 1..n, k \in N : step[<<i, k>>] = k + s[i]
  BY <1>1
<1>4. PICK f : Follows(f, n, N, 0, step)
  <2> HIDE DEF n, step, N
  <2> QED
    BY <1>1, <1>2, Recursion
<1>5. f = next(f)
  <2>1. \A i \in 1..n : f[i] = f[i - 1] + s[i]
    <3> SUFFICES ASSUME NEW i \in 1..n PROVE f[i] = f[i - 1] + s[i]
      OBVIOUS
    <3>1. i - 1 \in 0..n
      BY <1>1
    <3> HIDE DEF n, step, N
    <3> QED
      BY <1>3, <1>4, <3>1 DEF Follows
  <2> HIDE DEF n, step
  <2> QED
    BY <1>1, <1>4, <2>1 DEF Follows
<1> HIDE DEF n
<1>6. sum = next(sum)
  <2> HIDE DEF next
  <2> QED
    BY <1>5
<1>7. Total(s) = sum[n]
  BY DEF Total, n
<1> HIDE DEF sum
<1>8. sum[0] = 0 /\ \A i \in 1..n : sum[i] = sum[i - 1] + s[i]
  <2>1. next(sum)[0] = 0 /\ \A i \in 1..n : next(sum)[i] = sum[i - 1] + s[i]
    BY <1>1
  <2> HIDE DEF next
  <2> QED
    BY <1>6, <2>1
<1>9. 0..n \subseteq {i \in 0..n : sum[i] \in Nat}
  <2> DEFINE S == {i \in 0..n : sum[i] \in Nat}
  <2>1. 0 \in S /\ n \in Nat
    BY <1>1, <1>8
  <2>2. \A i \in 1..n : i - 1 \in S => i \in S
    BY <1>1, <1>8
  <2> HIDE DEF S
  <2>3. 0..n \subseteq S
    BY <2>1, <2>2, Induction
  <2> QED
    BY <2>3 DEF S
<1>10. sum \in [0..n -> Nat]
  <2>1. DOMAIN sum = 0..n /\ sum = [i \in 0..n |-> sum[i]]
    BY <1>6
  <2> HIDE DEF next
  <2> QED
    BY <1>9, <2>1
<1> QED
  BY <1>7, <1>8, <1>10 DEF Sums, n

\* Two prefixes of a sequence add up to the same.
LEMMA SumsAgree ==
  ASSUME NEW s \in Seq(Nat), NEW t \in Seq(Nat), NEW f, NEW g, Sums(f, s), Sums(g, t),
         Begins(s, t)
  PROVE  \A i \in 0..Len(s) : f[i] = g[i]
<1>1. Len(s) \in Nat /\ Len(t) \in Nat
  BY LenProperties
<1>2. \A i \in 1..Len(s) : f[i - 1] = g[i - 1] => f[i] = g[i]
  <2> SUFFICES ASSUME NEW i \in 1..Len(s) PROVE f[i - 1] = g[i - 1] => f[i] = g[i]
    OBVIOUS
  <2>1. i \in 1..Len(t) /\ s[i] = t[i]
    BY <1>1 DEF Begins
  <2> QED
    BY <2>1 DEF Sums
<1>3. f[0] = g[0]
  BY DEF Sums
<1>4. Len(s) \in Nat
  BY <1>1
<1> QED
  BY <1>2, <1>3, <1>4, Agree

\* What is summed can be computed by any function that sums.
LEMMA TotalBy ==
  ASSUME NEW s \in Seq(Nat), NEW f, Sums(f, s)
  PROVE  Total(s) = f[Len(s)] /\ Total(s) \in Nat
<1>1. PICK g \in [0..Len(s) -> Nat] : Sums(g, s) /\ Total(s) = g[Len(s)]
  BY TotalIs
<1>2. Len(s) \in Nat /\ Len(s) \in 0..Len(s)
  BY LenProperties
<1>3. \A i \in 0..Len(s) : f[i] = g[i]
  BY <1>1, <1>2, SumsAgree
<1> QED
  BY <1>1, <1>2, <1>3

LEMMA TotalAppend ==
  ASSUME NEW s \in Seq(Nat), NEW k \in Nat
  PROVE  Total(Append(s, k)) = Total(s) + k
<1> DEFINE t == Append(s, k)
<1>1. /\ t \in Seq(Nat) /\ Len(s) \in Nat /\ Len(t) = Len(s) + 1
      /\ \A i \in 1..Len(s) : t[i] = s[i]
      /\ t[Len(s) + 1] = k
  BY LenProperties, AppendProperties
<1> HIDE DEF t
<1>2. PICK f \in [0..Len(s) -> Nat] : Sums(f, s) /\ Total(s) = f[Len(s)]
  BY TotalIs
<1>3. PICK g \in [0..Len(t) -> Nat] : Sums(g, t) /\ Total(t) = g[Len(t)]
  BY <1>1, TotalIs
<1>4. \A i \in 0..Len(s) : f[i] = g[i]
  <2>1. Begins(s, t)
    BY <1>1 DEF Begins
  <2> QED
    BY <1>1, <1>2, <1>3, <2>1, SumsAgree
<1>5. g[Len(s) + 1] = g[Len(s)] + k
  <2>1. Len(s) + 1 \in 1..Len(t) /\ (Len(s) + 1) - 1 = Len(s)
    BY <1>1
  <2> QED
    BY <1>1, <1>3, <2>1 DEF Sums
<1> QED
  BY <1>1, <1>2, <1>3, <1>4, <1>5 DEF t

LEMMA TotalNone == Total(<<>>) = 0
<1>1. <<>> \in Seq(Nat) /\ Len(<<>>) = 0
  OBVIOUS
<1>2. PICK f \in [0..0 -> Nat] : Sums(f, <<>>) /\ Total(<<>>) = f[0]
  BY <1>1, TotalIs
<1> QED
  BY <1>2 DEF Sums

\* A number and its multiples.
LEMMA Divides ==
  ASSUME NEW a \in Nat, NEW p \in Nat \ {0}
  PROVE  /\ a \div p \in Nat /\ a % p \in 0..(p - 1)
         /\ a = ((a \div p) * p) + (a % p)
OBVIOUS

LEMMA Multiples ==
  ASSUME NEW i \in Int, NEW j \in Int, NEW p \in Nat \ {0}, i < j
  PROVE  i * p + p <= j * p
<1>1. (j - i - 1) * p >= 0
  OBVIOUS
<1> QED
  BY <1>1

LEMMA Remainder ==
  ASSUME NEW a \in Nat, NEW p \in Nat \ {0}, NEW i \in Nat, i * p <= a, a < i * p + p
  PROVE  a % p = a - i * p
<1> DEFINE q == a \div p
<1>1. q \in Nat /\ a % p \in 0..(p - 1) /\ a = (q * p) + (a % p)
  BY Divides
<1> HIDE DEF q
<1>2. CASE q < i
  BY <1>1, <1>2, Multiples
<1>3. CASE i < q
  BY <1>1, <1>3, Multiples
<1>4. CASE i = q
  BY <1>1, <1>4
<1> QED
  BY <1>1, <1>2, <1>3, <1>4

(* The parts of a pack add up to its bytes.                                *)
LEMMA CutTotal ==
  ASSUME NEW n \in Length
  PROVE  Total(Cut(n)) = n
<1>1. n \in Nat \ {0} /\ PartSize \in Nat
  BY SizeAssumption
<1>2. CASE PartSize = 0
  <2>1. Cut(n) = Append(<<>>, n)
    BY <1>2 DEF Cut
  <2>2. <<>> \in Seq(Nat)
    OBVIOUS
  <2>3. n \in Nat
    BY <1>1
  <2>4. Total(Append(<<>>, n)) = Total(<<>>) + n
    BY <2>2, <2>3, TotalAppend
  <2> QED
    BY <2>1, <2>3, <2>4, TotalNone
<1>3. CASE PartSize # 0
  <2> DEFINE p == PartSize
             k == (n + p - 1) \div p
  <2>1. p \in Nat \ {0} /\ n + p - 1 \in Nat
    BY <1>1, <1>3
  <2>2. /\ k \in Nat /\ (n + p - 1) % p \in 0..(p - 1)
        /\ n + p - 1 = (k * p) + ((n + p - 1) % p)
    BY <2>1, Divides
  <2>3. n <= k * p /\ k * p <= n + p - 1
    BY <1>1, <2>1, <2>2
  <2>4. Cut(n) = [i \in 1..k |-> IF i * p <= n THEN p ELSE n % p]
    BY <1>3 DEF Cut
  <2>5. Cut(n) \in Seq(Nat)
    BY CutType
  <2>6. Len(Cut(n)) = k
    BY <2>2, <2>4, <2>5
  <2>7. PICK f \in [0..k -> Nat] : Sums(f, Cut(n)) /\ Total(Cut(n)) = f[k]
    BY <2>5, <2>6, TotalIs
  <2> HIDE DEF k, p
  <2> DEFINE S == {i \in 0..k : f[i] = IF i * p <= n THEN i * p ELSE n}
  <2>8. 0 \in S
    BY <1>1, <2>1, <2>2, <2>7 DEF Sums
  <2>9. ASSUME NEW i \in 1..k, i - 1 \in S PROVE i \in S
    <3>1. f[i] = f[i - 1] + Cut(n)[i]
      BY <2>6, <2>7, <2>9 DEF Sums
    <3>2. i - 1 \in Nat /\ (i - 1) * p + p = i * p
      BY <2>1, <2>2
    <3>3. (i - 1) * p <= n
      <4>1. i - 1 < k
        BY <2>2
      <4>2. (i - 1) * p + p <= k * p
        BY <2>1, <2>2, <4>1, Multiples
      <4>3. (i - 1) * p \in Int /\ k * p \in Int
        BY <2>1, <2>2
      <4> QED
        BY <1>1, <2>1, <2>3, <4>2, <4>3
    <3>4. f[i - 1] = (i - 1) * p
      BY <2>9, <3>3
    <3>5. Cut(n)[i] = IF i * p <= n THEN p ELSE n % p
      BY <2>4
    <3>6. CASE i * p <= n
      BY <2>1, <2>2, <3>1, <3>2, <3>4, <3>5, <3>6
    <3>7. CASE ~(i * p <= n)
      <4>1. n % p = n - (i - 1) * p
        <5>1. n < (i - 1) * p + p /\ n \in Nat
          BY <1>1, <2>1, <3>2, <3>7
        <5> QED
          BY <2>1, <3>2, <3>3, <5>1, Remainder
      <4> QED
        BY <1>1, <2>1, <2>2, <3>1, <3>2, <3>4, <3>5, <3>7, <4>1
    <3> QED
      BY <3>6, <3>7
  <2> HIDE DEF S
  <2>10. 0..k \subseteq S
    BY <2>2, <2>8, <2>9, Induction
  <2>11. f[k] = IF k * p <= n THEN k * p ELSE n
    BY <2>2, <2>10 DEF S
  <2> QED
    BY <1>1, <2>1, <2>2, <2>3, <2>7, <2>11
<1> QED
  BY <1>1, <1>2, <1>3

-----------------------------------------------------------------------------
\* Sequences of sequences, one after the other.

Flats(f, s) == f[1] = s[1] /\ \A i \in 2..Len(s) : f[i] = f[i - 1] \o s[i]

LEMMA FlattenIs ==
  ASSUME NEW V, NEW s \in Seq(Seq(V)), s # <<>>
  PROVE  \E f \in [1..Len(s) -> Seq(V)] : Flats(f, s) /\ FlattenSeq(s) = f[Len(s)]
<1> DEFINE n == Len(s)
           W == Seq(V)
           step == [w \in (1..(n - 1)) \X W |-> w[2] \o s[w[1] + 1]]
           next(g) == [i \in 1..n |-> IF i = 1 THEN s[i] ELSE g[i - 1] \o s[i]]
           flat == CHOOSE g : g = next(g)
<1>1. n \in Nat \ {0} /\ \A i \in 1..n : s[i] \in W
  BY LenProperties, EmptySeq
<1>2. \A i \in 1..(n - 1) : i + 1 \in 1..n
  BY <1>1
<1>3. \A v \in W, w \in W : v \o w \in W
  BY ConcatProperties
<1>4. n - 1 \in Nat /\ 1 \in 1..n /\ n \in 1..n /\ n # 0
  BY <1>1
<1>5. n - 1 \in Nat /\ s[1] \in W
  BY <1>1, <1>4
<1> HIDE DEF W
<1>6. step \in [(1..(n - 1)) \X W -> W]
  <2> SUFFICES ASSUME NEW i \in 1..(n - 1), NEW v \in W PROVE v \o s[i + 1] \in W
    OBVIOUS
  <2>1. i + 1 \in 1..n
    BY <1>2
  <2>2. s[i + 1] \in W
    BY <1>1, <2>1
  <2> QED
    BY <1>3, <2>2
<1>7. \A i \in 1..(n - 1), v \in W : step[<<i, v>>] = v \o s[i + 1]
  BY DEF W
<1>8. PICK f : Follows(f, n - 1, W, s[1], step)
  <2>1. n - 1 \in Nat
    BY <1>5
  <2>2. s[1] \in W
    BY <1>5
  <2> HIDE DEF n, step
  <2> QED
    BY <1>6, <2>1, <2>2, Recursion
<1> DEFINE g == [i \in 1..n |-> f[i - 1]]
<1>9. g = next(g)
  <2> SUFFICES ASSUME NEW i \in 1..n
               PROVE  f[i - 1] = IF i = 1 THEN s[i] ELSE g[i - 1] \o s[i]
    BY DEF g
  <2>1. CASE i = 1
    BY <1>8, <2>1 DEF Follows
  <2>2. CASE i # 1
    <3>1. i - 1 \in 1..(n - 1) /\ i - 2 \in 0..(n - 1) /\ i - 1 \in 1..n
      BY <1>1, <2>2
    <3>2. (i - 1) + 1 = i /\ (i - 1) - 1 = i - 2
      BY <1>1
    <3>3. g[i - 1] = f[i - 2]
      BY <3>1, <3>2
    <3>4. f[i - 2] \in W
      BY <1>8, <3>1 DEF Follows
    <3>5. f[i - 1] = step[<<i - 1, f[i - 2]>>]
      BY <1>8, <3>1, <3>2 DEF Follows
    <3>6. f[i - 1] = f[i - 2] \o s[i]
      <4> HIDE DEF step
      <4> QED
        BY <1>7, <3>1, <3>2, <3>4, <3>5
    <3> QED
      BY <2>2, <3>3, <3>6
  <2> QED
    BY <2>1, <2>2
<1> HIDE DEF g
<1>10. flat = next(flat)
  <2> HIDE DEF next
  <2> QED
    BY <1>9
<1>11. FlattenSeq(s) = flat[n]
  BY <1>4 DEF FlattenSeq
<1> HIDE DEF flat
<1>12. flat[1] = s[1] /\ \A i \in 2..n : flat[i] = flat[i - 1] \o s[i]
  <2>1. next(flat)[1] = s[1]
    BY <1>4
  <2>2. \A i \in 2..n : next(flat)[i] = flat[i - 1] \o s[i]
    <3> SUFFICES ASSUME NEW i \in 2..n PROVE next(flat)[i] = flat[i - 1] \o s[i]
      OBVIOUS
    <3>1. i \in 1..n /\ i # 1
      BY <1>1
    <3> QED
      BY <3>1
  <2> HIDE DEF next, n
  <2> QED
    BY <1>10, <2>1, <2>2
<1>13. \A i \in 1..n : flat[i] \in W
  <2> DEFINE S == {i \in 0..(n - 1) : flat[i + 1] \in W}
  <2>1. 0 \in S
    BY <1>5, <1>12
  <2>2. ASSUME NEW i \in 1..(n - 1), i - 1 \in S PROVE i \in S
    <3>1. i + 1 \in 2..n /\ (i - 1) + 1 = i /\ (i + 1) - 1 = i
      BY <1>1
    <3>2. flat[i + 1] = flat[i] \o s[i + 1] /\ flat[i] \in W
      BY <1>12, <2>2, <3>1
    <3>3. s[i + 1] \in W
      <4>1. i + 1 \in 1..n
        BY <1>1
      <4> QED
        BY <1>1, <4>1
    <3>4. flat[i + 1] \in W
      BY <1>3, <3>2, <3>3
    <3>5. i \in 0..(n - 1)
      BY <1>1
    <3> QED
      BY <3>4, <3>5
  <2>3. n - 1 \in Nat
    BY <1>5
  <2> HIDE DEF S
  <2>4. 0..(n - 1) \subseteq S
    BY <2>1, <2>2, <2>3, Induction
  <2> SUFFICES ASSUME NEW i \in 1..n PROVE flat[i] \in W
    OBVIOUS
  <2>5. i - 1 \in 0..(n - 1) /\ (i - 1) + 1 = i
    BY <1>1
  <2> QED
    BY <2>4, <2>5 DEF S
<1>14. flat \in [1..n -> W]
  <2>1. DOMAIN flat = 1..n /\ flat = [i \in 1..n |-> flat[i]]
    BY <1>10
  <2> HIDE DEF next
  <2> QED
    BY <1>13, <2>1
<1> QED
  BY <1>11, <1>12, <1>14 DEF Flats, W

\* The last sequence comes last.
LEMMA FlattenAppend ==
  ASSUME NEW V, NEW s \in Seq(Seq(V)), NEW t \in Seq(V)
  PROVE  FlattenSeq(s) \in Seq(V) /\ FlattenSeq(Append(s, t)) = FlattenSeq(s) \o t
<1> DEFINE u == Append(s, t)
<1>1. /\ u \in Seq(Seq(V)) /\ u # <<>> /\ Len(u) = Len(s) + 1 /\ Len(s) \in Nat
      /\ \A i \in 1..Len(s) : u[i] = s[i]
      /\ u[Len(s) + 1] = t
  BY LenProperties, AppendProperties
<1> HIDE DEF u
<1>2. PICK g \in [1..Len(u) -> Seq(V)] : Flats(g, u) /\ FlattenSeq(u) = g[Len(u)]
  BY <1>1, FlattenIs
<1>3. CASE s = <<>>
  <2>1. Len(s) = 0 /\ FlattenSeq(s) = <<>>
    BY <1>3 DEF FlattenSeq
  <2>2. FlattenSeq(u) = t
    BY <1>1, <1>2, <2>1 DEF Flats
  <2>3. <<>> \in Seq(V) /\ <<>> \o t = t
    BY ConcatEmptySeq
  <2> QED
    BY <2>1, <2>2, <2>3 DEF u
<1>4. CASE s # <<>>
  <2>1. PICK f \in [1..Len(s) -> Seq(V)] : Flats(f, s) /\ FlattenSeq(s) = f[Len(s)]
    BY <1>4, FlattenIs
  <2>2. Len(s) \in Nat \ {0}
    BY <1>4, EmptySeq
  <2> DEFINE n == Len(s) - 1
             S == {i \in 0..n : f[i + 1] = g[i + 1]}
  <2>3. n \in Nat /\ n + 1 = Len(s)
    BY <2>2
  <2>4. 0 \in S
    BY <1>1, <1>2, <2>1, <2>2 DEF Flats
  <2>5. ASSUME NEW i \in 1..n, i - 1 \in S PROVE i \in S
    <3>1. i + 1 \in 2..Len(s) /\ i + 1 \in 2..Len(u) /\ (i + 1) - 1 = i /\ (i - 1) + 1 = i
      BY <1>1, <2>2
    <3>2. f[i] = g[i] /\ u[i + 1] = s[i + 1]
      BY <1>1, <2>2, <2>5, <3>1
    <3>3. f[i + 1] = f[i] \o s[i + 1] /\ g[i + 1] = g[i] \o u[i + 1]
      BY <1>2, <2>1, <3>1 DEF Flats
    <3>4. f[i + 1] = g[i + 1]
      BY <3>2, <3>3
    <3>5. i \in 0..n
      BY <2>3
    <3> QED
      BY <3>4, <3>5
  <2>6. n \in 0..n
    BY <2>3
  <2>7. n \in Nat
    BY <2>3
  <2> HIDE DEF S, n
  <2>8. 0..n \subseteq S
    BY <2>4, <2>5, <2>7, Induction
  <2>9. f[Len(s)] = g[Len(s)]
    BY <2>3, <2>6, <2>8 DEF S
  <2>10. g[Len(s) + 1] = g[Len(s)] \o t
    <3>1. Len(s) + 1 \in 2..Len(u) /\ (Len(s) + 1) - 1 = Len(s)
      BY <1>1, <2>2
    <3> QED
      BY <1>1, <1>2, <3>1 DEF Flats
  <2>11. f[Len(s)] \in Seq(V)
    BY <2>1, <2>2
  <2> QED
    BY <1>1, <1>2, <2>1, <2>9, <2>10, <2>11 DEF u
<1> QED
  BY <1>3, <1>4

\* One more element in the last sequence comes last.
LEMMA FlattenGrows ==
  ASSUME NEW V, NEW s \in Seq(Seq(V)), s # <<>>, NEW x \in V
  PROVE  FlattenSeq([s EXCEPT ![Len(s)] = Append(@, x)]) = Append(FlattenSeq(s), x)
<1> DEFINE W == Seq(V)
           last == Append(s[Len(s)], x)
           t == [s EXCEPT ![Len(s)] = last]
<1>0. s \in Seq(W)
  OBVIOUS
<1> HIDE DEF W
<1>1. PICK r \in Seq(W), l \in W : s = Append(r, l)
  BY <1>0, SequenceEmptyOrAppend
<1>2. /\ Len(r) \in Nat /\ Len(s) = Len(r) + 1 /\ s[Len(r) + 1] = l
      /\ \A i \in 1..Len(r) : s[i] = r[i]
  BY <1>1, LenProperties, AppendProperties
<1>3. s[Len(s)] = l /\ Len(s) \in 1..Len(s)
  BY <1>2
<1>4. last = Append(l, x) /\ last \in W
  BY <1>3, AppendProperties DEF W
<1> HIDE DEF last
<1>5. /\ t \in Seq(W) /\ Len(t) = Len(s)
      /\ \A j \in 1..Len(s) : t[j] = IF j = Len(s) THEN last ELSE s[j]
  BY <1>0, <1>3, <1>4, ExceptSeq
<1>6. /\ Append(r, last) \in Seq(W) /\ Len(Append(r, last)) = Len(r) + 1
      /\ \A i \in 1..Len(r) : Append(r, last)[i] = r[i]
      /\ Append(r, last)[Len(r) + 1] = last
  BY <1>4, AppendProperties
<1> HIDE DEF t
<1>7. t = Append(r, last)
  <2> DEFINE u == Append(r, last)
  <2>1. u \in Seq(W) /\ Len(t) = Len(u)
    BY <1>2, <1>5, <1>6
  <2>2. \A i \in 1..Len(t) : t[i] = u[i]
    <3> SUFFICES ASSUME NEW i \in 1..Len(t) PROVE t[i] = u[i]
      OBVIOUS
    <3>1. i \in 1..Len(r) \/ i = Len(r) + 1
      BY <1>2, <1>5
    <3> QED
      BY <1>2, <1>5, <1>6, <3>1
  <2> HIDE DEF u
  <2>3. t = u
    BY <1>5, <2>1, <2>2, SeqEqual
  <2> QED
    BY <2>3 DEF u
<1>8. r \in Seq(Seq(V)) /\ l \in Seq(V)
  BY DEF W
<1>9. FlattenSeq(r) \in Seq(V) /\ FlattenSeq(s) = FlattenSeq(r) \o l
  BY <1>1, <1>8, FlattenAppend
<1>10. last \in Seq(V)
  BY <1>4 DEF W
<1>11. FlattenSeq(Append(r, last)) = FlattenSeq(r) \o last
  BY <1>8, <1>10, FlattenAppend
<1>12. FlattenSeq(r) \o Append(l, x) = Append(FlattenSeq(r) \o l, x)
  <2> DEFINE a == FlattenSeq(r)
  <2>1. a \in Seq(V) /\ <<x>> \in Seq(V)
    BY <1>9
  <2> HIDE DEF a
  <2>2. Append(l, x) = l \o <<x>>
    BY <1>8, AppendIsConcat
  <2>3. a \o l \in Seq(V)
    BY <1>8, <2>1, ConcatProperties
  <2>4. Append(a \o l, x) = (a \o l) \o <<x>>
    BY <2>3, AppendIsConcat
  <2>5. (a \o l) \o <<x>> = a \o (l \o <<x>>)
    BY <1>8, <2>1, ConcatAssociative
  <2>6. a \o Append(l, x) = Append(a \o l, x)
    BY <2>2, <2>4, <2>5
  <2> QED
    BY <2>6 DEF a
<1>13. FlattenSeq(t) = Append(FlattenSeq(s), x)
  BY <1>4, <1>7, <1>9, <1>11, <1>12
<1> QED
  BY <1>13 DEF t, last

\* The bytes of a batch.
SizesOf(sizes, batch) == [j \in DOMAIN batch |-> sizes[batch[j]]]
Bytes(sizes, batch) == Total(SizesOf(sizes, batch))

LEMMA SizesOfType ==
  ASSUME NEW sizes \in Seq(Nat), NEW batch \in Seq(DOMAIN sizes)
  PROVE  /\ SizesOf(sizes, batch) \in Seq(Nat)
         /\ Len(SizesOf(sizes, batch)) = Len(batch)
         /\ \A j \in 1..Len(batch) : SizesOf(sizes, batch)[j] = sizes[batch[j]]
<1>1. Len(batch) \in Nat /\ DOMAIN batch = 1..Len(batch)
  BY LenProperties
<1>2. \A j \in 1..Len(batch) : batch[j] \in DOMAIN sizes
  BY ElementOfSeq
<1>3. \A i \in DOMAIN sizes : sizes[i] \in Nat
  BY LenProperties, ElementOfSeq
<1>4. SizesOf(sizes, batch) = [j \in 1..Len(batch) |-> sizes[batch[j]]]
  BY <1>1 DEF SizesOf
<1>5. SizesOf(sizes, batch) \in [1..Len(batch) -> Nat]
  BY <1>2, <1>3, <1>4
<1> QED
  BY <1>1, <1>4, <1>5

LEMMA BytesAppend ==
  ASSUME NEW sizes \in Seq(Nat), NEW batch \in Seq(DOMAIN sizes), NEW i \in DOMAIN sizes
  PROVE  Bytes(sizes, Append(batch, i)) = Bytes(sizes, batch) + sizes[i]
<1> DEFINE D == DOMAIN sizes
           s == SizesOf(sizes, batch)
           t == SizesOf(sizes, Append(batch, i))
<1>0. batch \in Seq(D) /\ i \in D
  OBVIOUS
<1>1. /\ Append(batch, i) \in Seq(D) /\ Len(Append(batch, i)) = Len(batch) + 1
      /\ \A j \in 1..Len(batch) : Append(batch, i)[j] = batch[j]
      /\ Append(batch, i)[Len(batch) + 1] = i
  <2> HIDE DEF D
  <2> QED
    BY <1>0, AppendProperties
<1>2. Len(batch) \in Nat /\ sizes[i] \in Nat
  BY LenProperties, ElementOfSeq
<1>3. s \in Seq(Nat) /\ Len(s) = Len(batch) /\ \A j \in 1..Len(batch) : s[j] = sizes[batch[j]]
  BY SizesOfType
<1>4. /\ t \in Seq(Nat) /\ Len(t) = Len(batch) + 1
      /\ \A j \in 1..(Len(batch) + 1) : t[j] = sizes[Append(batch, i)[j]]
  BY <1>1, SizesOfType
<1> HIDE DEF s, t
<1> DEFINE u == Append(s, sizes[i])
<1>5. /\ u \in Seq(Nat) /\ Len(u) = Len(s) + 1 /\ \A j \in 1..Len(s) : u[j] = s[j]
      /\ u[Len(s) + 1] = sizes[i]
  BY <1>2, <1>3, AppendProperties
<1> HIDE DEF u
<1>6. t = u
  <2>1. Len(t) = Len(u)
    BY <1>3, <1>4, <1>5
  <2>2. \A j \in 1..Len(t) : t[j] = u[j]
    <3> SUFFICES ASSUME NEW j \in 1..Len(t) PROVE t[j] = u[j]
      OBVIOUS
    <3>1. j \in 1..Len(batch) \/ j = Len(batch) + 1
      BY <1>2, <1>4
    <3> QED
      BY <1>1, <1>2, <1>3, <1>4, <1>5, <3>1
  <2> QED
    BY <1>4, <1>5, <2>1, <2>2, SeqEqual
<1>7. Total(u) = Total(s) + sizes[i]
  BY <1>2, <1>3, TotalAppend DEF u
<1> QED
  BY <1>6, <1>7 DEF Bytes, s, t

-----------------------------------------------------------------------------
\* Batches.

LEMMA BytesOfOne ==
  ASSUME NEW sizes \in Seq(Nat), NEW i \in DOMAIN sizes
  PROVE  <<i>> \in Seq(DOMAIN sizes) /\ Bytes(sizes, <<i>>) = sizes[i]
<1> DEFINE none == <<>>
<1>1. none \in Seq(DOMAIN sizes) /\ Append(none, i) = <<i>>
  OBVIOUS
<1>2. SizesOf(sizes, none) = <<>>
  BY DEF SizesOf
<1>3. Bytes(sizes, none) = 0
  BY <1>2, TotalNone DEF Bytes
<1> HIDE DEF none
<1>4. Bytes(sizes, Append(none, i)) = Bytes(sizes, none) + sizes[i]
  BY <1>1, BytesAppend
<1>5. sizes[i] \in Nat
  BY LenProperties, ElementOfSeq
<1> QED
  BY <1>1, <1>3, <1>4, <1>5

(* What the first i parts have made: they are in the batches, in order; the *)
(* running bytes are those of the last batch; and a batch of several parts  *)
(* is no larger than UploadBatch.                                           *)
FitParts(sizes, b, i) ==
  b.batches \in Seq(Seq(DOMAIN sizes)) /\ FlattenSeq(b.batches) = [j \in 1..i |-> j]
FitLast(sizes, b) ==
  b.bytes \in Nat /\ (b.batches # <<>> => b.bytes = Bytes(sizes, b.batches[Len(b.batches)]))
FitEach(sizes, b) ==
  \A k \in 1..Len(b.batches) :
    Len(b.batches[k]) > 1 => Bytes(sizes, b.batches[k]) <= UploadBatch
Fit(sizes, b, i) == FitParts(sizes, b, i) /\ FitLast(sizes, b) /\ FitEach(sizes, b)

\* i counts on after the parts before it.
LEMMA CountOn ==
  ASSUME NEW i \in Nat \ {0}
  PROVE  [j \in 1..i |-> j] = Append([j \in 1..(i - 1) |-> j], i)
<1> DEFINE s == [j \in 1..(i - 1) |-> j]
           t == [j \in 1..i |-> j]
           u == Append(s, i)
<1>1. s \in Seq(Nat) /\ Len(s) = i - 1 /\ \A j \in 1..(i - 1) : s[j] = j
  OBVIOUS
<1>2. t \in Seq(Nat) /\ Len(t) = i /\ \A j \in 1..i : t[j] = j
  OBVIOUS
<1> HIDE DEF s, t
<1>3. /\ u \in Seq(Nat) /\ Len(u) = Len(s) + 1 /\ \A j \in 1..Len(s) : u[j] = s[j]
      /\ u[Len(s) + 1] = i
  BY <1>1, AppendProperties
<1> HIDE DEF u
<1>4. Len(t) = Len(u)
  BY <1>1, <1>2, <1>3
<1>5. \A j \in 1..Len(t) : t[j] = u[j]
  <2> SUFFICES ASSUME NEW j \in 1..Len(t) PROVE t[j] = u[j]
    OBVIOUS
  <2>1. j \in 1..(i - 1) \/ j = i
    BY <1>2
  <2> QED
    BY <1>1, <1>2, <1>3, <2>1
<1>6. t = u
  BY <1>2, <1>3, <1>4, <1>5, SeqEqual
<1> QED
  BY <1>6 DEF t, u, s

\* A part that starts a batch.
LEMMA StartFits ==
  ASSUME NEW sizes \in Seq(Nat), NEW b, NEW i \in DOMAIN sizes, i \in Nat \ {0},
         Fit(sizes, b, i - 1)
  PROVE  Fit(sizes, [batches |-> Append(b.batches, <<i>>), bytes |-> sizes[i]], i)
<1> DEFINE D == DOMAIN sizes
           W == Seq(D)
           s == b.batches
           t == Append(s, <<i>>)
           c == [batches |-> t, bytes |-> sizes[i]]
<1>1. s \in Seq(W) /\ FlattenSeq(s) = [j \in 1..(i - 1) |-> j]
  BY DEF Fit, FitParts
<1>2. <<i>> \in W /\ Bytes(sizes, <<i>>) = sizes[i] /\ sizes[i] \in Nat
  BY BytesOfOne, LenProperties, ElementOfSeq
<1>3. \A k \in 1..Len(s) : Len(s[k]) > 1 => Bytes(sizes, s[k]) <= UploadBatch
  BY DEF Fit, FitEach
<1> HIDE DEF s, W
<1>4. /\ t \in Seq(W) /\ Len(t) = Len(s) + 1 /\ Len(s) \in Nat
      /\ \A k \in 1..Len(s) : t[k] = s[k]
      /\ t[Len(s) + 1] = <<i>>
  BY <1>1, <1>2, AppendProperties, LenProperties
<1>5. FlattenSeq(t) = [j \in 1..i |-> j]
  <2>1. s \in Seq(Seq(D)) /\ <<i>> \in Seq(D) /\ i \in D
    BY <1>1, <1>2 DEF W
  <2> DEFINE one == <<i>>
  <2>2. one \in Seq(D)
    BY <2>1
  <2> HIDE DEF D, one
  <2>3. FlattenSeq(s) \in Seq(D) /\ FlattenSeq(Append(s, one)) = FlattenSeq(s) \o one
    BY <2>1, <2>2, FlattenAppend
  <2>4. FlattenSeq(s) \o <<i>> = Append(FlattenSeq(s), i)
    BY <2>1, <2>3, AppendIsConcat
  <2> QED
    BY <1>1, <2>3, <2>4, CountOn DEF one
<1>6. c.batches = t /\ c.bytes = sizes[i]
  OBVIOUS
<1> HIDE DEF t, c
<1>7. FitParts(sizes, c, i)
  BY <1>4, <1>5, <1>6 DEF FitParts, W
<1>8. FitLast(sizes, c)
  BY <1>2, <1>4, <1>6 DEF FitLast
<1>9. FitEach(sizes, c)
  <2> SUFFICES ASSUME NEW k \in 1..Len(t), Len(t[k]) > 1
               PROVE  Bytes(sizes, t[k]) <= UploadBatch
    BY <1>6 DEF FitEach
  <2>1. Len(<<i>>) = 1
    OBVIOUS
  <2>2. k # Len(s) + 1
    <3> SUFFICES ASSUME k = Len(s) + 1 PROVE FALSE
      OBVIOUS
    <3>1. t[k] = <<i>>
      BY <1>4
    <3>2. Len(t[k]) = 1
      BY <2>1, <3>1
    <3> QED
      BY <3>2
  <2>3. k \in 1..Len(s)
    BY <1>4, <2>2
  <2> QED
    BY <1>3, <1>4, <2>3
<1>10. Fit(sizes, c, i)
  BY <1>7, <1>8, <1>9 DEF Fit
<1> QED
  BY <1>10 DEF c, t, s

\* A part that joins the last batch.
LEMMA JoinFits ==
  ASSUME NEW sizes \in Seq(Nat), NEW b, NEW i \in DOMAIN sizes, i \in Nat \ {0},
         Fit(sizes, b, i - 1), b.batches # <<>>, b.bytes + sizes[i] <= UploadBatch
  PROVE  Fit(sizes, [batches |-> [b.batches EXCEPT ![Len(b.batches)] = Append(@, i)],
                     bytes   |-> b.bytes + sizes[i]], i)
<1> DEFINE D == DOMAIN sizes
           W == Seq(D)
           s == b.batches
           last == Append(s[Len(s)], i)
           t == [s EXCEPT ![Len(s)] = last]
           c == [batches |-> t, bytes |-> b.bytes + sizes[i]]
<1>1. s \in Seq(W) /\ FlattenSeq(s) = [j \in 1..(i - 1) |-> j] /\ s # <<>>
  BY DEF Fit, FitParts
<1>2. sizes[i] \in Nat /\ b.bytes \in Nat /\ b.bytes = Bytes(sizes, s[Len(s)])
  BY LenProperties, ElementOfSeq DEF Fit, FitLast
<1>3. \A k \in 1..Len(s) : Len(s[k]) > 1 => Bytes(sizes, s[k]) <= UploadBatch
  BY DEF Fit, FitEach
<1> HIDE DEF s, W
<1>4. Len(s) \in 1..Len(s) /\ Len(s) \in Nat /\ s[Len(s)] \in W
  <2>1. Len(s) \in Nat \ {0}
    BY <1>1, EmptySeq
  <2>2. Len(s) \in 1..Len(s)
    BY <2>1
  <2> QED
    BY <1>1, <2>1, <2>2, ElementOfSeq
<1>5. last \in W /\ Bytes(sizes, last) = b.bytes + sizes[i]
  <2>1. s[Len(s)] \in Seq(D) /\ i \in D
    BY <1>4 DEF W
  <2>2. last \in Seq(D)
    <3> HIDE DEF D
    <3> QED
      BY <2>1, AppendProperties
  <2> QED
    BY <1>2, <2>1, <2>2, BytesAppend DEF W
<1>6. FlattenSeq(t) = [j \in 1..i |-> j]
  <2>1. s \in Seq(Seq(D)) /\ i \in D
    BY <1>1 DEF W
  <2> HIDE DEF D
  <2>2. FlattenSeq(t) = Append(FlattenSeq(s), i)
    BY <1>1, <2>1, FlattenGrows
  <2> QED
    BY <1>1, <2>2, CountOn
<1>7. c.batches = t /\ c.bytes = b.bytes + sizes[i]
  OBVIOUS
<1> HIDE DEF last
<1>8. /\ t \in Seq(W) /\ Len(t) = Len(s)
      /\ \A k \in 1..Len(s) : t[k] = IF k = Len(s) THEN last ELSE s[k]
  BY <1>1, <1>4, <1>5, ExceptSeq
<1> HIDE DEF t, c
<1>9. FitParts(sizes, c, i)
  BY <1>6, <1>7, <1>8 DEF FitParts, W
<1>10. FitLast(sizes, c)
  BY <1>2, <1>4, <1>5, <1>7, <1>8 DEF FitLast
<1>11. FitEach(sizes, c)
  <2> SUFFICES ASSUME NEW k \in 1..Len(t), Len(t[k]) > 1
               PROVE  Bytes(sizes, t[k]) <= UploadBatch
    BY <1>7 DEF FitEach
  <2>1. k \in 1..Len(s)
    BY <1>8
  <2> QED
    BY <1>3, <1>5, <1>8, <2>1
<1>12. Fit(sizes, c, i)
  BY <1>9, <1>10, <1>11 DEF Fit
<1> QED
  BY <1>12 DEF c, t, last, s

\* What the batches of a pack are.
LEMMA BatchesAre ==
  ASSUME NEW sizes \in Seq(Nat), Batches(sizes) # <<>>
  PROVE  \E b : Fit(sizes, b, Len(sizes)) /\ Batches(sizes) = b.batches
<1> DEFINE n == Len(sizes)
           V == [batches : Seq(Seq(Nat)), bytes : Nat]
           step == [w \in (1..n) \X V |-> AddToBatch(sizes, w[2], w[1])]
           next(g) == [i \in 0..n |-> IF i = 0 THEN NoBatch ELSE AddToBatch(sizes, g[i - 1], i)]
           added == CHOOSE g : g = next(g)
<1>1. n \in Nat /\ DOMAIN sizes = 1..n /\ \A i \in 1..n : sizes[i] \in Nat
  BY LenProperties, ElementOfSeq
<1>2. step \in [(1..n) \X V -> V]
  <2> SUFFICES ASSUME NEW i \in 1..n, NEW b \in V PROVE AddToBatch(sizes, b, i) \in V
    OBVIOUS
  <2> DEFINE W == Seq(Nat)
  <2>1. b.batches \in Seq(W) /\ b.bytes \in Nat /\ sizes[i] \in Nat /\ <<i>> \in W /\ i \in Nat
    BY <1>1
  <2>2. b.bytes + sizes[i] \in Nat
    BY <2>1
  <2>3. Append(b.batches, <<i>>) \in Seq(W)
    <3> HIDE DEF W
    <3> QED
      BY <2>1, AppendProperties
  <2>4. ASSUME b.batches # <<>>
        PROVE  [b.batches EXCEPT ![Len(b.batches)] = Append(@, i)] \in Seq(W)
    <3> DEFINE s == b.batches
               e == Append(s[Len(s)], i)
    <3>1. s \in Seq(W) /\ s # <<>>
      BY <2>1, <2>4
    <3> HIDE DEF s, W
    <3>2. Len(s) \in Nat \ {0}
      BY <3>1, EmptySeq
    <3>3. Len(s) \in 1..Len(s)
      BY <3>2
    <3>4. s[Len(s)] \in W
      BY <3>1, <3>3, ElementOfSeq
    <3>5. e \in W
      BY <2>1, <3>4, AppendProperties DEF W
    <3> HIDE DEF e
    <3>6. [s EXCEPT ![Len(s)] = e] \in Seq(W)
      BY <3>1, <3>3, <3>5, ExceptSeq
    <3> QED
      BY <3>6 DEF s, e
  <2>5. CASE b.batches # <<>> /\ b.bytes + sizes[i] <= UploadBatch
    BY <2>2, <2>4, <2>5 DEF AddToBatch
  <2>6. CASE ~(b.batches # <<>> /\ b.bytes + sizes[i] <= UploadBatch)
    BY <2>1, <2>3, <2>6 DEF AddToBatch
  <2> QED
    BY <2>5, <2>6
<1>3. NoBatch \in V
  BY DEF NoBatch
<1>4. \A i \in 1..n, b \in V : step[<<i, b>>] = AddToBatch(sizes, b, i)
  OBVIOUS
<1>5. PICK f : Follows(f, n, V, NoBatch, step)
  <2> HIDE DEF n, V, step
  <2> QED
    BY <1>1, <1>2, <1>3, Recursion
<1>6. \A i \in 1..n : f[i] = AddToBatch(sizes, f[i - 1], i)
  <2> SUFFICES ASSUME NEW i \in 1..n PROVE f[i] = AddToBatch(sizes, f[i - 1], i)
    OBVIOUS
  <2> HIDE DEF step, V
  <2>1. i - 1 \in 0..n
    BY <1>1
  <2>2. f[i - 1] \in V /\ f[i] = step[<<i, f[i - 1]>>]
    BY <1>5, <2>1 DEF Follows
  <2> QED
    BY <1>4, <2>2
<1>7. f = next(f)
  <2> HIDE DEF step, V
  <2>1. f \in [0..n -> V] /\ f[0] = NoBatch
    BY <1>5 DEF Follows
  <2> SUFFICES ASSUME NEW i \in 0..n
               PROVE  f[i] = IF i = 0 THEN NoBatch ELSE AddToBatch(sizes, f[i - 1], i)
    BY <2>1
  <2>2. i = 0 \/ i \in 1..n
    BY <1>1
  <2> QED
    BY <1>6, <2>1, <2>2
<1>8. added = next(added)
  <2> HIDE DEF next
  <2> QED
    BY <1>7
<1>9. Batches(sizes) = added[n].batches
  BY DEF Batches
<1> HIDE DEF added
<1>10. added[0] = NoBatch /\ \A i \in 1..n : added[i] = AddToBatch(sizes, added[i - 1], i)
  <2>1. next(added)[0] = NoBatch
    BY <1>1
  <2>2. \A i \in 1..n : next(added)[i] = AddToBatch(sizes, added[i - 1], i)
    <3> SUFFICES ASSUME NEW i \in 1..n
                 PROVE  next(added)[i] = AddToBatch(sizes, added[i - 1], i)
      OBVIOUS
    <3>1. i \in 0..n /\ i # 0
      BY <1>1
    <3> QED
      BY <3>1
  <2> HIDE DEF next, n
  <2> QED
    BY <1>8, <2>1, <2>2
<1> DEFINE S == {i \in 0..n : Fit(sizes, added[i], i)}
<1>11. 0 \in S
  <2>1. NoBatch.batches = <<>> /\ NoBatch.bytes = 0
    BY DEF NoBatch
  <2>2. FlattenSeq(<<>>) = <<>>
    BY DEF FlattenSeq
  <2>3. <<>> = [j \in 1..0 |-> j]
    OBVIOUS
  <2>4. <<>> \in Seq(Seq(DOMAIN sizes)) /\ Len(<<>>) = 0
    OBVIOUS
  <2>5. FitParts(sizes, NoBatch, 0)
    BY <2>1, <2>2, <2>3, <2>4 DEF FitParts
  <2>6. FitLast(sizes, NoBatch) /\ FitEach(sizes, NoBatch)
    BY <2>1, <2>4 DEF FitLast, FitEach
  <2>7. Fit(sizes, added[0], 0)
    BY <1>10, <2>5, <2>6 DEF Fit
  <2> QED
    BY <1>1, <2>7
<1>12. ASSUME NEW i \in 1..n, i - 1 \in S PROVE i \in S
  <2>1. Fit(sizes, added[i - 1], i - 1) /\ added[i] = AddToBatch(sizes, added[i - 1], i)
    BY <1>10, <1>12
  <2> DEFINE b == added[i - 1]
  <2>2. Fit(sizes, b, i - 1) /\ i \in DOMAIN sizes /\ i \in Nat \ {0} /\ i \in 0..n
    BY <1>1, <2>1
  <2> HIDE DEF b
  <2>3. Fit(sizes, AddToBatch(sizes, b, i), i)
    <3>1. CASE b.batches # <<>> /\ b.bytes + sizes[i] <= UploadBatch
      BY <2>2, <3>1, JoinFits DEF AddToBatch
    <3>2. CASE ~(b.batches # <<>> /\ b.bytes + sizes[i] <= UploadBatch)
      BY <2>2, <3>2, StartFits DEF AddToBatch
    <3> QED
      BY <3>1, <3>2
  <2>4. Fit(sizes, added[i], i)
    BY <2>1, <2>3 DEF b
  <2> QED
    BY <2>2, <2>4
<1> HIDE DEF S
<1>13. 0..n \subseteq S
  <2> HIDE DEF n
  <2> QED
    BY <1>1, <1>11, <1>12, Induction
<1>14. Fit(sizes, added[n], n)
  BY <1>1, <1>13 DEF S
<1> HIDE DEF n, next
<1> QED
  BY <1>9, <1>14 DEF n

-----------------------------------------------------------------------------
\* What is stored, and what is uploaded.

\* What the batches of a pack of several hold.
LEMMA BatchesOfCut ==
  ASSUME NEW sizes \in Seq(Nat), Batches(sizes) # <<>>
  PROVE  /\ FlattenSeq(Batches(sizes)) = [i \in DOMAIN sizes |-> i]
         /\ \A k \in DOMAIN Batches(sizes) :
              Len(Batches(sizes)[k]) > 1 => Bytes(sizes, Batches(sizes)[k]) <= UploadBatch
<1>1. PICK b : Fit(sizes, b, Len(sizes)) /\ Batches(sizes) = b.batches
  BY BatchesAre
<1>2. /\ b.batches \in Seq(Seq(DOMAIN sizes))
      /\ FlattenSeq(b.batches) = [i \in 1..Len(sizes) |-> i]
      /\ \A k \in 1..Len(b.batches) :
           Len(b.batches[k]) > 1 => Bytes(sizes, b.batches[k]) <= UploadBatch
  BY <1>1 DEF Fit, FitParts, FitEach
<1>3. DOMAIN sizes = 1..Len(sizes)
  BY LenProperties
<1>4. DOMAIN b.batches = 1..Len(b.batches)
  BY <1>2, LenProperties
<1> QED
  BY <1>1, <1>2, <1>3, <1>4

\* Every pack is what one of some bytes is cut into.
CutInv == \A p \in Pack : stored[p] # <<>> => \E n \in Length : stored[p] = Cut(n)

\* Only a pack of several batches is uploaded in batches.
UploadInv ==
  \A h \in Helper : At(h, "upload") => Batches(stored[proc[h].staged.pack]) # <<>>

LEMMA CutStays ==
  ASSUME TypeOK, CutInv, [Next]_vars
  PROVE  CutInv'
<1>1. ASSUME NEW n \in Length, Unused # {}, stored' = [stored EXCEPT ![Fresh] = Cut(n)]
      PROVE  CutInv'
  <2>1. /\ Fresh \in Pack /\ stored'[Fresh] = Cut(n)
        /\ \A p \in Pack : p # Fresh => stored'[p] = stored[p]
    BY <1>1, StageType
  <2> QED
    BY <2>1 DEF CutInv
<1>2. ASSUME UNCHANGED stored PROVE CutInv'
  BY <1>2 DEF CutInv
<1>3. CASE UNCHANGED hostVars
  BY <1>2, <1>3 DEF hostVars
<1>4. CASE OthersStep
  <2>1. PICK n \in OthersLength, base \in {{}, TreeAt(Len(log))} : Others(n, base)
    BY <1>4 DEF OthersStep
  <2>2. n \in Length
    BY SizeAssumption
  <2> QED
    BY <1>1, <2>1, <2>2 DEF Others
<1>5. ASSUME NEW h \in Helper, HostStep(h) PROVE CutInv'
  <2>1. ASSUME NEW n \in Length, Stage(h, n) \/ StageFails(h, n) PROVE CutInv'
    BY <1>1, <2>1 DEF Stage, StageFails
  <2>2. CASE \/ Upload(h) \/ \E landed \in BOOLEAN : UploadFails(h, landed)
             \/ \E answer \in {"done", "moved", "failed"} : Land(h, answer)
             \/ \E ok \in BOOLEAN : DeleteUpload(h, ok)
    BY <1>2, <2>2 DEF Upload, UploadFails, Land, DeleteUpload
  <2> QED
    BY <1>5, <2>1, <2>2 DEF HostStep
<1> QED
  BY <1>3, <1>4, <1>5, Frames DEF Frame

LEMMA UploadStays ==
  ASSUME TypeOK, StagedInv, UploadInv, [Next]_vars
  PROVE  UploadInv'
<1>1. ASSUME NEW g \in Helper, At(g, "upload"), proc'[g].staged.pack = proc[g].staged.pack
      PROVE  Batches(stored'[proc'[g].staged.pack]) # <<>>
  <2>1. proc[g].staged # Nothing
    BY <1>1 DEF StagedInv, At
  <2>2. proc[g].staged.pack \in Pack /\ stored[proc[g].staged.pack] # <<>>
    BY <2>1, HelperType DEF Staged, StagedInv
  <2>3. stored'[proc[g].staged.pack] = stored[proc[g].staged.pack]
    BY <2>2, HostStays DEF Grown
  <2> QED
    BY <1>1, <2>3 DEF UploadInv
<1>2. CASE OthersStep \/ UNCHANGED vars
  <2>1. UNCHANGED proc
    BY <1>2 DEF OthersStep, Others, vars
  <2> QED
    BY <1>1, <2>1 DEF UploadInv, At
<1>3. ASSUME NEW h \in Helper, Helps(h) PROVE UploadInv'
  <2>1. Moves(h)
    BY <1>3, StepMoves
  <2>2. \A g \in Helper \ {h} : proc'[g] = proc[g]
    BY <2>1 DEF Moves
  <2>3. ASSUME proc'[h].pc = "upload" PROVE Batches(stored'[proc'[h].staged.pack]) # <<>>
    <3>1. CASE Upload(h)
      <4>1. At(h, "upload")
        BY <3>1 DEF Upload
      <4>2. proc[h].staged \in StagedPack /\ proc[h] \in State(Len(log))
        BY <4>1, HelperType DEF StagedInv, At, State
      <4>3. PICK to \in {"push", "upload"} :
              proc' = [proc EXCEPT ![h] = [proc[h] EXCEPT !.staged.sent = @ + 1, !.pc = to]]
        BY <3>1 DEF Upload
      <4>4. proc'[h].staged = [proc[h].staged EXCEPT !.sent = @ + 1]
        BY <4>2, <4>3, HelperType DEF State
      <4>5. proc'[h].staged.pack = proc[h].staged.pack
        BY <4>2, <4>4 DEF StagedPack
      <4> QED
        BY <1>1, <4>1, <4>5
    <3>2. ASSUME NEW n \in Length, Stage(h, n)
          PROVE  Batches(stored'[proc'[h].staged.pack]) # <<>>
      <4>1. stored'[Fresh] = Cut(n)
        BY <3>2, StageType DEF Stage
      <4> DEFINE new == [pack |-> Fresh, bases |-> PacksIn(Tree(h)), sent |-> 0]
                 to == IF Batches(Cut(n)) = <<>> THEN "push" ELSE "upload"
      <4>2. proc' = [proc EXCEPT ![h] = [proc[h] EXCEPT !.pc = to, !.staged = new]]
        BY <3>2 DEF Stage
      <4>3. new.pack = Fresh
        OBVIOUS
      <4> HIDE DEF new, to
      <4>4. proc'[h].pc = to /\ proc'[h].staged = new
        BY <4>2, HelperType DEF State
      <4>5. Batches(Cut(n)) # <<>>
        BY <2>3, <4>4 DEF to
      <4> QED
        BY <4>1, <4>3, <4>4, <4>5
    <3> QED
      BY <2>1, <2>3, <3>1, <3>2 DEF Moves
  <2>4. ASSUME NEW g \in Helper \ {h}, proc'[g].pc = "upload"
        PROVE  Batches(stored'[proc'[g].staged.pack]) # <<>>
    BY <1>1, <2>2, <2>4 DEF At
  <2> QED
    BY <2>3, <2>4 DEF UploadInv, At
<1> QED
  BY <1>2, <1>3, Steps

LEMMA AlwaysUploads == Spec => [](CutInv /\ UploadInv)
<1>1. Init => CutInv /\ UploadInv
  <2> SUFFICES ASSUME Init PROVE CutInv /\ UploadInv
    OBVIOUS
  <2>1. \A p \in Pack : stored[p] = <<>>
    BY DEF Init
  <2>2. \A h \in Helper : proc[h].pc = "idle"
    BY DEF Init, Idle
  <2> QED
    BY <2>1, <2>2 DEF CutInv, UploadInv, At
<1>2. Inv /\ CutInv /\ UploadInv /\ [Next]_vars => (CutInv /\ UploadInv)'
  BY CutStays, UploadStays DEF Inv
<1> QED
  BY <1>1, <1>2, Always, PTL DEF Spec

(* However large a pack and whatever the part and batch sizes: the parts a *)
(* helper uploads add up to the pack it built, the batches of `stage` hold *)
(* every part once and in order, and one of several parts is no larger     *)
(* than `enc.uploadBatch`.                                                 *)
THEOREM BatchesFitUploads == Spec => []BatchesFit
<1>1. Inv /\ CutInv /\ UploadInv => BatchesFit
  <2> SUFFICES ASSUME Inv, CutInv, UploadInv, NEW h \in Helper, At(h, "upload")
               PROVE  LET sizes == stored[proc[h].staged.pack]
                          batches == Batches(sizes)
                          bytes(batch) == Total([j \in DOMAIN batch |-> sizes[batch[j]]])
                      IN /\ Total(sizes) \in Length
                         /\ FlattenSeq(batches) = [i \in DOMAIN sizes |-> i]
                         /\ \A k \in DOMAIN batches :
                              Len(batches[k]) > 1 => bytes(batches[k]) <= UploadBatch
    BY DEF BatchesFit
  <2> DEFINE sizes == stored[proc[h].staged.pack]
  <2>1. proc[h].staged # Nothing /\ TypeOK /\ StagedInv
    BY DEF Inv, StagedInv, At
  <2>2. proc[h].staged.pack \in Pack /\ sizes # <<>>
    BY <2>1, HelperType DEF Staged, StagedInv
  <2>3. PICK n \in Length : sizes = Cut(n)
    BY <2>2 DEF CutInv
  <2>4. sizes \in Seq(Nat) /\ Total(sizes) \in Length
    BY <2>3, CutType, CutTotal
  <2>5. Batches(sizes) # <<>>
    BY DEF UploadInv
  <2> HIDE DEF sizes
  <2>6. /\ FlattenSeq(Batches(sizes)) = [i \in DOMAIN sizes |-> i]
        /\ \A k \in DOMAIN Batches(sizes) :
             Len(Batches(sizes)[k]) > 1 => Bytes(sizes, Batches(sizes)[k]) <= UploadBatch
    BY <2>4, <2>5, BatchesOfCut
  <2> QED
    BY <2>4, <2>6 DEF sizes, Bytes, SizesOf
<1> QED
  BY <1>1, Always, AlwaysUploads, PTL

=============================================================================
