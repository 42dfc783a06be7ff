--------------------------- MODULE HourLedgerProofs ---------------------------
(***************************************************************************)
(* The ledger of hour credit: its types, its invariants and what expiry    *)
(* may do, for every number of tasks, invoices, requests, rows and days.   *)
(*                                                                         *)
(* The inductive invariant (LedgerInv) says of each row what the rows      *)
(* before it were when it was written (Fits): a reversal undoes the        *)
(* consumption it follows, a correction keeps the sign of its row, an      *)
(* expiry has the next number of its batch. Later rows do not change that, *)
(* so a step only has to show it for the rows it writes. The rest is       *)
(* arithmetic over the whole ledger: what a batch holds, what is spent,    *)
(* and what remainingBatches leaves of each batch.                         *)
(*                                                                         *)
(* Assumed of the surroundings, where a theorem says so: NoCrossing (what  *)
(* a correction or a withdrawal has checked still holds when it writes),   *)
(* NoLate (a credit is withdrawn before part of it has expired), NoToggle  *)
(* (expiry is not switched off and on again).                              *)
(***************************************************************************)
EXTENDS HourLedger, HourCreditMathProofs, SequenceTheorems

(***************************************************************************)
(* Sums over rows. The library has no induction that can be used here, so  *)
(* the two lemmas below stand in for it: a set of exceptions has a least.  *)
(***************************************************************************)
\* What holds for zero, and for the next number with every number, holds for all:
\* the set of the numbers it fails for has no least one.
LEMMA CountingUp ==
    ASSUME NEW G, 0 \in G, \A n \in Nat : n \in G => n + 1 \in G
    PROVE  \A n \in Nat : n \in G
<1> SUFFICES ASSUME NEW n \in Nat, n \notin G PROVE FALSE
  OBVIOUS
<1> DEFINE Bad == {0..m : m \in {k \in 0..n : k \notin G}}
<1>1. IsFiniteSet(0..n) /\ Bad \in SUBSET (SUBSET (0..n))
  <2>1. \A m \in 0..n : 0..m \in SUBSET (0..n)
    OBVIOUS
  <2>2. IsFiniteSet(0..n)
    BY FS_Interval
  <2> QED BY <2>1, <2>2
<1>2. Bad # {}
  OBVIOUS
<1>3. PICK s \in Bad : \A t \in SUBSET s : t # s => t \notin Bad
  <2> HIDE DEF Bad
  <2> QED BY <1>1, <1>2, SmallestSet
<1>4. PICK m \in 0..n : m \notin G /\ s = 0..m
  BY <1>3
<1>5. m # 0 /\ m - 1 \in 0..n /\ m - 1 \in Nat
  BY <1>4
<1>6. m - 1 \notin G
  <2>1. (m - 1) + 1 = m
    BY <1>4
  <2> QED BY <1>4, <1>5, <2>1
<1>7. 0..(m - 1) \in Bad
  BY <1>5, <1>6
<1>8. 0..(m - 1) \in SUBSET s /\ 0..(m - 1) # s
  <2>1. m \in 0..m /\ m \notin 0..(m - 1)
    BY <1>4
  <2> QED BY <1>4, <1>5, <2>1
<1> QED BY <1>3, <1>7, <1>8

\* What holds for no element, and for one more element with every set, holds for a
\* finite set.
LEMMA AddingUp ==
    ASSUME NEW A, IsFiniteSet(A), NEW G, {} \in G,
           \A s \in SUBSET A : \A x \in A \ s : s \in G => s \union {x} \in G
    PROVE  A \in G
<1> DEFINE Bad == {s \in SUBSET A : s \notin G}
<1> SUFFICES ASSUME Bad # {} PROVE FALSE
  <2>1. A \in SUBSET A
    OBVIOUS
  <2> QED BY <2>1
<1>1. Bad \in SUBSET (SUBSET A)
  OBVIOUS
<1>2. PICK s \in Bad : \A t \in SUBSET s : t # s => t \notin Bad
  <2> HIDE DEF Bad
  <2> QED BY <1>1, SmallestSet
<1>3. PICK x \in s : TRUE
  OBVIOUS
<1>4. s \ {x} \in G /\ s \ {x} \in SUBSET A /\ x \in A \ (s \ {x}) /\ (s \ {x}) \union {x} = s
  BY <1>2, <1>3
<1> QED BY <1>2, <1>4

(***************************************************************************)
(* Sums over rows.                                                         *)
(***************************************************************************)
Term(k, S, value) == IF k \in S THEN value[k] ELSE 0

\* The recursion SumOver is defined by.
PartialSums(f, n, S, value) ==
    f = [k \in 0..n |-> IF k = 0 THEN 0 ELSE f[k - 1] + Term(k, S, value)]
SumsTo(n, S, value) == CHOOSE f : PartialSums(f, n, S, value)

\* SumOver is the last of the partial sums.
LEMMA SumOverIs == ASSUME NEW n, NEW S, NEW value
                   PROVE  SumOver(n, S, value) = SumsTo(n, S, value)[n]
  BY DEF SumOver, SumsTo, PartialSums, Term

\* There is such a function.
LEMMA PartialSumsExist ==
    ASSUME NEW n \in Nat, NEW S, NEW value
    PROVE  PartialSums(SumsTo(n, S, value), n, S, value)
<1> DEFINE G == {m \in Nat : \E f : PartialSums(f, m, S, value)}
<1>1. 0 \in G
  <2>1. PartialSums([k \in 0..0 |-> 0], 0, S, value)
    BY DEF PartialSums
  <2> QED BY <2>1
<1>2. ASSUME NEW m \in Nat, NEW f, PartialSums(f, m, S, value)
      PROVE  \E g : PartialSums(g, m + 1, S, value)
  <2> DEFINE g == [k \in 0..(m + 1) |-> IF k = m + 1 THEN f[m] + Term(k, S, value) ELSE f[k]]
  <2>1. \A k \in 0..m : g[k] = f[k]
    OBVIOUS
  <2>2. \A k \in 0..m : f[k] = IF k = 0 THEN 0 ELSE f[k - 1] + Term(k, S, value)
    BY <1>2 DEF PartialSums
  <2>3. \A k \in 0..(m + 1) : g[k] = IF k = 0 THEN 0 ELSE g[k - 1] + Term(k, S, value)
    <3> TAKE k \in 0..(m + 1)
    <3>1. CASE k = m + 1
      <4>1. g[k] = f[m] + Term(k, S, value) /\ k - 1 = m /\ k # 0
        BY <3>1
      <4> HIDE DEF g
      <4> QED BY <2>1, <4>1
    <3>2. CASE k # m + 1
      <4>1. k \in 0..m /\ (k # 0 => k - 1 \in 0..m)
        BY <3>2
      <4> HIDE DEF g
      <4> QED BY <2>1, <2>2, <4>1
    <3> QED BY <3>1, <3>2
  <2>4. g = [k \in 0..(m + 1) |-> g[k]]
    OBVIOUS
  <2>5. PartialSums(g, m + 1, S, value)
    <3> HIDE DEF g
    <3> QED BY <2>3, <2>4 DEF PartialSums
  <2> QED BY <2>5
<1>3. n \in G
  <2>1. \A m \in Nat : m \in G => m + 1 \in G
    BY <1>2
  <2> HIDE DEF G
  <2> QED BY <1>1, <2>1, CountingUp
<1> QED BY <1>3 DEF SumsTo

\* The first sums do not depend on how many rows follow.
LEMMA PartialSumsAgree ==
    ASSUME NEW n \in Nat, NEW m \in Nat, n <= m, NEW S, NEW value,
           NEW f, PartialSums(f, n, S, value), NEW g, PartialSums(g, m, S, value)
    PROVE  f[n] = g[n]
<1> DEFINE G == {k \in Nat : k <= n => f[k] = g[k]}
<1>1. /\ \A k \in 0..n : f[k] = IF k = 0 THEN 0 ELSE f[k - 1] + Term(k, S, value)
      /\ \A k \in 0..m : g[k] = IF k = 0 THEN 0 ELSE g[k - 1] + Term(k, S, value)
  BY DEF PartialSums
<1>2. 0 \in G
  BY <1>1
<1>3. ASSUME NEW k \in Nat, k <= n => f[k] = g[k], k + 1 <= n
      PROVE  f[k + 1] = g[k + 1]
  <2>1. k + 1 \in 0..n /\ k + 1 \in 0..m /\ (k + 1) - 1 = k /\ k + 1 # 0 /\ k <= n
    BY <1>3
  <2> QED BY <1>1, <1>3, <2>1
<1>4. \A k \in Nat : k \in G => k + 1 \in G
  BY <1>3
<1>5. n \in G
  <2> HIDE DEF G
  <2> QED BY <1>2, <1>4, CountingUp
<1> QED BY <1>5

\* No rows add up to nothing.
LEMMA SumOfNoRows == ASSUME NEW S, NEW value PROVE SumOver(0, S, value) = 0
<1>1. PartialSums(SumsTo(0, S, value), 0, S, value)
  BY PartialSumsExist
<1> QED BY <1>1, SumOverIs DEF PartialSums

\* One row more.
LEMMA SumOfNext ==
    ASSUME NEW n \in Nat, NEW S, NEW value
    PROVE  SumOver(n + 1, S, value) = SumOver(n, S, value) + Term(n + 1, S, value)
<1> DEFINE f == SumsTo(n, S, value)
           g == SumsTo(n + 1, S, value)
<1>1. PartialSums(f, n, S, value) /\ PartialSums(g, n + 1, S, value)
  BY PartialSumsExist
<1> HIDE DEF f, g
<1>2. f[n] = g[n]
  BY <1>1, PartialSumsAgree
<1>3. g[n + 1] = g[n] + Term(n + 1, S, value)
  <2>1. n + 1 \in 0..(n + 1) /\ n + 1 # 0 /\ (n + 1) - 1 = n
    OBVIOUS
  <2> QED BY <1>1, <2>1 DEF PartialSums
<1> QED BY <1>2, <1>3, SumOverIs DEF f, g

\* A sum of minutes is minutes.
LEMMA SumOverIsInt ==
    ASSUME NEW n \in Nat, NEW S, NEW value, \A k \in 1..n : k \in S => value[k] \in Int
    PROVE  SumOver(n, S, value) \in Int
<1> DEFINE G == {m \in Nat : m <= n => SumOver(m, S, value) \in Int}
<1>1. 0 \in G
  BY SumOfNoRows
<1>2. ASSUME NEW m \in Nat, m \in G PROVE m + 1 \in G
  <2> SUFFICES ASSUME m + 1 <= n PROVE SumOver(m + 1, S, value) \in Int
    OBVIOUS
  <2>1. Term(m + 1, S, value) \in Int
    BY DEF Term
  <2>2. SumOver(m, S, value) \in Int
    BY <1>2
  <2> QED BY <2>1, <2>2, SumOfNext
<1>3. n \in G
  <2> HIDE DEF G
  <2> QED BY <1>1, <1>2, CountingUp
<1> QED BY <1>3

\* Sums add up row by row.
LEMMA SumOfSums ==
    ASSUME NEW n \in Nat, NEW S, NEW v, NEW T, NEW w, NEW U, NEW x,
           \A k \in 1..n : Term(k, S, v) \in Int /\ Term(k, T, w) \in Int,
           \A k \in 1..n : Term(k, U, x) = Term(k, S, v) + Term(k, T, w)
    PROVE  SumOver(n, U, x) = SumOver(n, S, v) + SumOver(n, T, w)
<1> DEFINE G == {m \in Nat : m <= n => /\ SumOver(m, S, v) \in Int /\ SumOver(m, T, w) \in Int
                                       /\ SumOver(m, U, x) = SumOver(m, S, v) + SumOver(m, T, w)}
<1>1. 0 \in G
  BY SumOfNoRows
<1>2. ASSUME NEW m \in Nat, m \in G PROVE m + 1 \in G
  <2> SUFFICES ASSUME m + 1 <= n
               PROVE  /\ SumOver(m + 1, S, v) \in Int /\ SumOver(m + 1, T, w) \in Int
                      /\ SumOver(m + 1, U, x) = SumOver(m + 1, S, v) + SumOver(m + 1, T, w)
    OBVIOUS
  <2>1. m + 1 \in 1..n /\ m <= n
    OBVIOUS
  <2>2. PICK a \in Int, b \in Int : a = SumOver(m, S, v) /\ b = SumOver(m, T, w)
                                    /\ SumOver(m, U, x) = a + b
    BY <1>2, <2>1
  <2>3. PICK c \in Int, d \in Int : c = Term(m + 1, S, v) /\ d = Term(m + 1, T, w)
                                    /\ Term(m + 1, U, x) = c + d
    BY <2>1
  <2>4. SumOver(m + 1, S, v) = a + c /\ SumOver(m + 1, T, w) = b + d
        /\ SumOver(m + 1, U, x) = (a + b) + (c + d)
    BY <2>2, <2>3, SumOfNext
  <2> QED BY <2>4
<1>3. n \in G
  <2> HIDE DEF G
  <2> QED BY <1>1, <1>2, CountingUp
<1> QED BY <1>3

\* Row by row no more is together no more.
LEMMA SumIsMonotone ==
    ASSUME NEW n \in Nat, NEW S, NEW v, NEW T, NEW w,
           \A k \in 1..n : Term(k, S, v) \in Int /\ Term(k, T, w) \in Int
                           /\ Term(k, S, v) <= Term(k, T, w)
    PROVE  SumOver(n, S, v) <= SumOver(n, T, w)
<1> DEFINE G == {m \in Nat : m <= n => /\ SumOver(m, S, v) \in Int /\ SumOver(m, T, w) \in Int
                                       /\ SumOver(m, S, v) <= SumOver(m, T, w)}
<1>1. 0 \in G
  BY SumOfNoRows
<1>2. ASSUME NEW m \in Nat, m \in G PROVE m + 1 \in G
  <2> SUFFICES ASSUME m + 1 <= n
               PROVE  /\ SumOver(m + 1, S, v) \in Int /\ SumOver(m + 1, T, w) \in Int
                      /\ SumOver(m + 1, S, v) <= SumOver(m + 1, T, w)
    OBVIOUS
  <2>1. m + 1 \in 1..n /\ m <= n
    OBVIOUS
  <2>2. PICK a \in Int, b \in Int : a = SumOver(m, S, v) /\ b = SumOver(m, T, w) /\ a <= b
    BY <1>2, <2>1
  <2>3. PICK c \in Int, d \in Int : c = Term(m + 1, S, v) /\ d = Term(m + 1, T, w) /\ c <= d
    BY <2>1
  <2>4. SumOver(m + 1, S, v) = a + c /\ SumOver(m + 1, T, w) = b + d
    BY <2>2, <2>3, SumOfNext
  <2> QED BY <2>2, <2>3, <2>4
<1>3. n \in G
  <2> HIDE DEF G
  <2> QED BY <1>1, <1>2, CountingUp
<1> QED BY <1>3

\* Only the values at the rows that are summed matter.
LEMMA SumOfTheSame ==
    ASSUME NEW n \in Nat, NEW S, NEW v, NEW T, NEW w,
           \A k \in 1..n : (k \in S <=> k \in T) /\ (k \in S => v[k] = w[k])
    PROVE  SumOver(n, S, v) = SumOver(n, T, w)
<1> DEFINE G == {m \in Nat : m <= n => SumOver(m, S, v) = SumOver(m, T, w)}
<1>1. 0 \in G
  BY SumOfNoRows
<1>2. ASSUME NEW m \in Nat, m \in G PROVE m + 1 \in G
  <2> SUFFICES ASSUME m + 1 <= n PROVE SumOver(m + 1, S, v) = SumOver(m + 1, T, w)
    OBVIOUS
  <2>1. Term(m + 1, S, v) = Term(m + 1, T, w)
    BY DEF Term
  <2> QED BY <1>2, <2>1, SumOfNext
<1>3. n \in G
  <2> HIDE DEF G
  <2> QED BY <1>1, <1>2, CountingUp
<1> QED BY <1>3

\* Rows that are not summed, or move nothing, add nothing.
LEMMA SumOfFewer ==
    ASSUME NEW n \in Nat, NEW m \in Nat, m <= n, NEW S, NEW v, SumOver(m, S, v) \in Int,
           \A k \in (m + 1)..n : k \in S => v[k] = 0
    PROVE  SumOver(n, S, v) = SumOver(m, S, v)
<1> DEFINE G == {k \in Nat : k >= m /\ k <= n => SumOver(k, S, v) = SumOver(m, S, v)}
<1>1. 0 \in G
  BY SumOfNoRows
<1>2. ASSUME NEW k \in Nat, k \in G PROVE k + 1 \in G
  <2> SUFFICES ASSUME k + 1 > m, k + 1 <= n PROVE SumOver(k + 1, S, v) = SumOver(m, S, v)
    OBVIOUS
  <2>1. Term(k + 1, S, v) = 0
    BY DEF Term
  <2>2. SumOver(k, S, v) = SumOver(m, S, v)
    BY <1>2
  <2> QED BY <2>1, <2>2, SumOfNext
<1>3. n \in G
  <2> HIDE DEF G
  <2> QED BY <1>1, <1>2, CountingUp
<1> QED BY <1>3

\* Rows that move nothing add up to nothing.
LEMMA SumOfNothing ==
    ASSUME NEW n \in Nat, NEW S, NEW v, \A k \in 1..n : k \in S => v[k] = 0
    PROVE  SumOver(n, S, v) = 0
BY SumOfNoRows, SumOfFewer

\* The sum over one row.
LEMMA SumOfSingle ==
    ASSUME NEW n \in Nat, NEW x \in 1..n, NEW v, v[x] \in Int
    PROVE  SumOver(n, {x}, v) = v[x]
<1> DEFINE m == x - 1
<1>1. m \in Nat /\ x = m + 1 /\ m <= n
  OBVIOUS
<1> HIDE DEF m
<1>2. SumOver(m, {x}, v) = 0
  BY <1>1, SumOfNothing
<1>3. SumOver(m + 1, {x}, v) = v[x]
  BY <1>1, <1>2, SumOfNext DEF Term
<1> QED BY <1>1, <1>3, SumOfFewer

\* Two sets of rows without a row in common.
LEMMA SumOfUnion ==
    ASSUME NEW n \in Nat, NEW S, NEW T, S \intersect T = {}, NEW v,
           \A k \in 1..n : k \in S \union T => v[k] \in Int
    PROVE  SumOver(n, S \union T, v) = SumOver(n, S, v) + SumOver(n, T, v)
<1> PICK U : U = S \union T
  OBVIOUS
<1>1. \A k \in 1..n : Term(k, S, v) \in Int /\ Term(k, T, v) \in Int
  BY DEF Term
<1>2. \A k \in 1..n : Term(k, U, v) = Term(k, S, v) + Term(k, T, v)
  BY DEF Term
<1>3. SumOver(n, U, v) = SumOver(n, S, v) + SumOver(n, T, v)
  BY <1>1, <1>2, SumOfSums
<1> QED BY <1>3

\* One row of a sum set apart.
LEMMA SumWithout ==
    ASSUME NEW n \in Nat, NEW S, NEW x \in S, x \in 1..n, NEW R, R = S \ {x}, NEW v,
           \A k \in 1..n : k \in S => v[k] \in Int
    PROVE  SumOver(n, S, v) = v[x] + SumOver(n, R, v)
<1>1. {x} \union R = S /\ {x} \intersect R = {} /\ v[x] \in Int
  OBVIOUS
<1>2. SumOver(n, {x} \union R, v) = SumOver(n, {x}, v) + SumOver(n, R, v)
  BY <1>1, SumOfUnion
<1> QED BY <1>1, <1>2, SumOfSingle

\* What never is negative adds up to no less than zero.
LEMMA SumIsNat ==
    ASSUME NEW n \in Nat, NEW S, NEW v, \A k \in 1..n : k \in S => v[k] \in Nat
    PROVE  SumOver(n, S, v) \in Nat
<1>1. SumOver(n, S, v) \in Int
  BY SumOverIsInt
<1>2. \A k \in 1..n : /\ Term(k, S, v) \in Int /\ Term(k, {}, v) \in Int
                      /\ Term(k, {}, v) <= Term(k, S, v)
  BY DEF Term
<1>3. SumOver(n, {}, v) <= SumOver(n, S, v)
  BY <1>2, SumIsMonotone
<1>4. SumOver(n, {}, v) = 0
  BY SumOfNothing
<1> QED BY <1>1, <1>3, <1>4

\* Rows may be summed group by group, the group of a row being own[k].
Group(S, own, i) == {k \in S : own[k] = i}
Groups(n, S, own, O, value) == [i \in O |-> SumOver(n, Group(S, own, i), value)]

\* A sum is the sum of the sums of its groups.
LEMMA SumByGroups ==
    ASSUME NEW n \in Nat, NEW S \in SUBSET (1..n), NEW m \in Nat, NEW O \in SUBSET (1..m),
           NEW own, \A k \in S : own[k] \in O,
           NEW v, \A k \in S : v[k] \in Int
    PROVE  SumOver(n, S, v) = SumOver(m, O, Groups(n, S, own, O, v))
<1> DEFINE P(j) == SumOver(j, S, v) = SumOver(m, O, Groups(j, S, own, O, v))
           G == {j \in Nat : j <= n => P(j)}
<1>1. 0 \in G
  <2>1. \A i \in O : Groups(0, S, own, O, v)[i] = 0
    BY SumOfNoRows DEF Groups
  <2> QED BY <2>1, SumOfNoRows, SumOfNothing
<1>2. ASSUME NEW j \in Nat, j + 1 <= n, P(j) PROVE P(j + 1)
  <2> DEFINE old == Groups(j, S, own, O, v)
             new == Groups(j + 1, S, own, O, v)
  <2>1. \A i \in O : new[i] = old[i] + Term(j + 1, Group(S, own, i), v)
    BY SumOfNext DEF Groups
  <2>2. \A i \in O : old[i] \in Int
    <3> SUFFICES ASSUME NEW i \in O PROVE SumOver(j, Group(S, own, i), v) \in Int
      BY DEF Groups
    <3> QED BY SumOverIsInt DEF Group
  <2>3. SumOver(j + 1, S, v) = SumOver(j, S, v) + Term(j + 1, S, v)
    BY SumOfNext
  <2>4. SumOver(j, S, v) \in Int
    BY SumOverIsInt
  <2> HIDE DEF old, new
  <2>5. CASE j + 1 \notin S
    <3>1. Term(j + 1, S, v) = 0
      BY <2>5 DEF Term
    <3>2. \A i \in O : new[i] = old[i]
      BY <2>1, <2>2, <2>5 DEF Term, Group
    <3>3. SumOver(m, O, new) = SumOver(m, O, old)
      BY <3>2, SumOfTheSame
    <3> QED BY <1>2, <2>3, <2>4, <3>1, <3>3 DEF old, new
  <2>6. CASE j + 1 \in S
    <3> DEFINE o == own[j + 1]
               w == [i \in {o} |-> v[j + 1]]
    <3>1. o \in O /\ v[j + 1] \in Int /\ Term(j + 1, S, v) = v[j + 1] /\ o \in 1..m /\ w[o] = v[j + 1]
      BY <2>6 DEF Term
    <3>2. \A i \in O : new[i] = old[i] + Term(i, {o}, w)
      BY <2>1, <2>2, <2>6 DEF Term, Group
    <3> HIDE DEF w, o
    <3>3. \A i \in 1..m : /\ Term(i, O, old) \in Int /\ Term(i, {o}, w) \in Int
                          /\ Term(i, O, new) = Term(i, O, old) + Term(i, {o}, w)
      BY <2>2, <3>1, <3>2 DEF Term
    <3>4. SumOver(m, O, new) = SumOver(m, O, old) + SumOver(m, {o}, w)
      BY <3>3, SumOfSums
    <3>5. SumOver(m, {o}, w) = v[j + 1]
      BY <3>1, SumOfSingle
    <3> QED BY <1>2, <2>3, <3>1, <3>4, <3>5 DEF old, new
  <2> QED BY <2>5, <2>6
<1>3. n \in G
  <2>1. \A j \in Nat : j \in G => j + 1 \in G
    BY <1>2
  <2> HIDE DEF G
  <2> QED BY <1>1, <2>1, CountingUp
<1> QED BY <1>3

(***************************************************************************)
(* Ledgers and what is left of their batches.                              *)
(***************************************************************************)

\* What a ledger is made of.
LEMMA RowsOfLedger ==
    ASSUME NEW rows \in Seq(Row)
    PROVE  /\ Len(rows) \in Nat /\ DOMAIN rows = 1..Len(rows) /\ IsFiniteSet(DOMAIN rows)
           /\ \A k \in DOMAIN rows : /\ rows[k].kind \in Kinds /\ rows[k].delta \in Int
                                     /\ rows[k].expires \in Nat /\ rows[k].nth \in Nat
<1>1. Len(rows) \in Nat /\ DOMAIN rows = 1..Len(rows) /\ \A k \in DOMAIN rows : rows[k] \in Row
  OBVIOUS
<1>2. IsFiniteSet(1..Len(rows))
  BY <1>1, FS_Interval
<1> QED BY <1>1, <1>2 DEF Row

\* Rows of a ledger add up to minutes.
LEMMA DeltaIsInt ==
    ASSUME NEW rows \in Seq(Row), NEW S \in SUBSET DOMAIN rows
    PROVE  Delta(rows, S) \in Int
BY RowsOfLedger, SumOverIsInt DEF Delta

\* Rows without a row in common add up together.
LEMMA DeltaOfUnion ==
    ASSUME NEW rows \in Seq(Row), NEW S \in SUBSET DOMAIN rows, NEW T \in SUBSET DOMAIN rows,
           S \intersect T = {}
    PROVE  Delta(rows, S \union T) = Delta(rows, S) + Delta(rows, T)
<1>0. PICK U, n : U = S \union T /\ n = Len(rows)
  OBVIOUS
<1> n \in Nat
  BY <1>0, RowsOfLedger
<1>1. 1..n = DOMAIN rows /\ \A k \in DOMAIN rows : rows[k].delta \in Int
  BY <1>0, RowsOfLedger
<1>2. PICK u, v, w : /\ u = [k \in U |-> rows[k].delta] /\ v = [k \in S |-> rows[k].delta]
                     /\ w = [k \in T |-> rows[k].delta]
  OBVIOUS
<1>3. \A k \in 1..n : Term(k, S, v) \in Int /\ Term(k, T, w) \in Int
  BY <1>1, <1>2 DEF Term
<1>4. \A k \in 1..n : Term(k, U, u) = Term(k, S, v) + Term(k, T, w)
  BY <1>0, <1>1, <1>2 DEF Term
<1>5. SumOver(n, U, u) = SumOver(n, S, v) + SumOver(n, T, w)
  BY <1>3, <1>4, SumOfSums
<1> QED BY <1>0, <1>2, <1>5 DEF Delta

\* No rows move nothing.
LEMMA DeltaOfNone ==
    ASSUME NEW rows \in Seq(Row), NEW S, S = {}
    PROVE  Delta(rows, S) = 0
BY RowsOfLedger, SumOfNothing DEF Delta

\* One row moves its minutes.
LEMMA DeltaOfRow ==
    ASSUME NEW rows \in Seq(Row), NEW x \in DOMAIN rows
    PROVE  Delta(rows, {x}) = rows[x].delta
<1>1. PICK v : v = [k \in {x} |-> rows[k].delta]
  OBVIOUS
<1>2. v[x] = rows[x].delta /\ v[x] \in Int /\ Len(rows) \in Nat /\ x \in 1..Len(rows)
  BY <1>1, RowsOfLedger
<1>3. SumOver(Len(rows), {x}, v) = v[x]
  BY <1>2, SumOfSingle
<1> QED BY <1>1, <1>2, <1>3 DEF Delta

\* Two rows.
LEMMA DeltaOfTwo ==
    ASSUME NEW rows \in Seq(Row), NEW x \in DOMAIN rows, NEW y \in DOMAIN rows, x # y
    PROVE  Delta(rows, {x, y}) = rows[x].delta + rows[y].delta
<1>1. {x, y} = {x} \union {y} /\ {x} \intersect {y} = {}
  OBVIOUS
<1>2. Delta(rows, {x} \union {y}) = Delta(rows, {x}) + Delta(rows, {y})
  BY <1>1, DeltaOfUnion
<1> QED BY <1>1, <1>2, DeltaOfRow

\* Three rows.
LEMMA DeltaOfThree ==
    ASSUME NEW rows \in Seq(Row), NEW x \in DOMAIN rows, NEW y \in DOMAIN rows,
           NEW z \in DOMAIN rows, x # y, x # z, y # z
    PROVE  Delta(rows, {x, y, z}) = rows[x].delta + (rows[y].delta + rows[z].delta)
<1>1. {x, y, z} = {x} \union {y, z} /\ {x} \intersect {y, z} = {}
  OBVIOUS
<1>2. Delta(rows, {x} \union {y, z}) = Delta(rows, {x}) + Delta(rows, {y, z})
  BY <1>1, DeltaOfUnion
<1> QED BY <1>1, <1>2, DeltaOfRow, DeltaOfTwo

\* Math.max(n, 0).
LEMMA AtLeastZeroIsNat ==
    ASSUME NEW n \in Int
    PROVE  AtLeastZero(n) \in Nat /\ AtLeastZero(n) >= n /\ (n >= 0 => AtLeastZero(n) = n)
                                  /\ (n <= 0 => AtLeastZero(n) = 0)
BY DEF AtLeastZero

\* What a batch holds are minutes.
LEMMA HeldIsInt ==
    ASSUME NEW rows \in Seq(Row), NEW i \in Batches(rows)
    PROVE  Held(rows, i) \in Int
<1>1. Adjusting(rows, i) \in SUBSET DOMAIN rows /\ i \in DOMAIN rows
  BY DEF Adjusting, CorrectionsOf, WithdrawalsOf, Batches
<1>2. Delta(rows, Adjusting(rows, i)) \in Int
  BY <1>1, DeltaIsInt
<1> QED BY <1>1, <1>2, RowsOfLedger DEF Held

\* What the batches hold, as functions.
HeldBy(rows) == [i \in Batches(rows) |-> Held(rows, i)]
KeptBy(rows) == [i \in Batches(rows) |-> AtLeastZero(Held(rows, i))]
OwedBy(rows) == [i \in Batches(rows) |-> AtLeastZero(-Held(rows, i))]
BatchesBefore(rows, i) == {j \in Batches(rows) : SpentBefore(rows, j, i)}
KeptBefore(rows, i) == SumOver(Len(rows), BatchesBefore(rows, i), KeptBy(rows))

\* What the batches hold together, and what is spent, are minutes.
LEMMA BatchesHold ==
    ASSUME NEW rows \in Seq(Row)
    PROVE  /\ Batches(rows) \in SUBSET (1..Len(rows)) /\ IsFiniteSet(Batches(rows))
           /\ \A i \in Batches(rows) : /\ HeldBy(rows)[i] \in Int
                                       /\ KeptBy(rows)[i] \in Nat /\ OwedBy(rows)[i] \in Nat
                                       /\ KeptBy(rows)[i] = HeldBy(rows)[i] + OwedBy(rows)[i]
           /\ \A S : SumOver(Len(rows), S \intersect Batches(rows), KeptBy(rows)) \in Nat
           /\ Overdrawn(rows) = SumOver(Len(rows), Batches(rows), OwedBy(rows))
           /\ Overdrawn(rows) \in Nat
           /\ Spending(rows) \in SUBSET DOMAIN rows /\ ToSpend(rows) \in Int
<1> PICK n : n = Len(rows)
  OBVIOUS
<1>1. n \in Nat /\ Batches(rows) \in SUBSET (1..n) /\ IsFiniteSet(Batches(rows))
  BY RowsOfLedger, FS_Subset DEF Batches
<1>2. \A i \in Batches(rows) : /\ HeldBy(rows)[i] \in Int
                               /\ KeptBy(rows)[i] \in Nat /\ OwedBy(rows)[i] \in Nat
                               /\ KeptBy(rows)[i] = HeldBy(rows)[i] + OwedBy(rows)[i]
  BY HeldIsInt DEF HeldBy, KeptBy, OwedBy, AtLeastZero
<1>3. \A S : SumOver(n, S \intersect Batches(rows), KeptBy(rows)) \in Nat
  <2> TAKE S
  <2>1. \A k \in 1..n : k \in S \intersect Batches(rows) => KeptBy(rows)[k] \in Nat
    BY <1>2
  <2> QED BY <1>1, <2>1, SumIsNat
<1>4. Overdrawn(rows) = SumOver(n, Batches(rows), OwedBy(rows))
  BY DEF Overdrawn, OwedBy
<1>5. SumOver(n, Batches(rows), OwedBy(rows)) \in Nat
  BY <1>1, <1>2, SumIsNat
<1>6. Spending(rows) \in SUBSET DOMAIN rows /\ Delta(rows, Spending(rows)) \in Int
  BY DeltaIsInt DEF Spending
<1>7. ToSpend(rows) \in Int
  BY <1>4, <1>5, <1>6 DEF ToSpend
<1> QED BY <1>1, <1>2, <1>3, <1>4, <1>5, <1>6, <1>7

\* remainingBatches by the sums above: each batch keeps what those before it leave.
LEMMA RemainingIs ==
    ASSUME NEW rows \in Seq(Row)
    PROVE  /\ Remaining(rows) =
                [i \in Batches(rows) |->
                   AtLeastZero(KeptBy(rows)[i]
                               - AtLeastZero(AtLeastZero(ToSpend(rows)) - KeptBefore(rows, i)))]
           /\ \A i \in Batches(rows) : /\ KeptBefore(rows, i) \in Nat
                                       /\ Remaining(rows)[i] \in Nat
                                       /\ Remaining(rows)[i] <= KeptBy(rows)[i]
<1>1. Remaining(rows) =
        [i \in Batches(rows) |->
           AtLeastZero(KeptBy(rows)[i]
                       - AtLeastZero(AtLeastZero(ToSpend(rows)) - KeptBefore(rows, i)))]
  BY DEF Remaining, KeptBy, KeptBefore, BatchesBefore
<1>2. ASSUME NEW i \in Batches(rows)
      PROVE  KeptBefore(rows, i) \in Nat /\ Remaining(rows)[i] \in Nat
             /\ Remaining(rows)[i] <= KeptBy(rows)[i]
  <2>1. PICK a \in Nat : a = KeptBefore(rows, i)
    <3>1. BatchesBefore(rows, i) = BatchesBefore(rows, i) \intersect Batches(rows)
      BY DEF BatchesBefore
    <3> QED BY <3>1, BatchesHold DEF KeptBefore
  <2>2. PICK t \in Int, k \in Nat : t = ToSpend(rows) /\ k = KeptBy(rows)[i]
    BY BatchesHold
  <2>3. Remaining(rows)[i] = AtLeastZero(k - AtLeastZero(AtLeastZero(t) - a))
    BY <1>1, <2>1, <2>2
  <2> QED BY <2>1, <2>2, <2>3 DEF AtLeastZero
<1> QED BY <1>1, <1>2

(***************************************************************************)
(* The order in which batches are spent.                                   *)
(***************************************************************************)

\* byConsumptionOrder is a strict total order.
LEMMA SpentInOrder ==
    ASSUME NEW rows \in Seq(Row)
    PROVE  /\ \A i \in DOMAIN rows : ~SpentBefore(rows, i, i)
           /\ \A i, j \in DOMAIN rows : i = j \/ SpentBefore(rows, i, j) \/ SpentBefore(rows, j, i)
           /\ \A i, j, k \in DOMAIN rows :
                SpentBefore(rows, i, j) /\ SpentBefore(rows, j, k) => SpentBefore(rows, i, k)
           /\ \A i, j \in DOMAIN rows : SpentBefore(rows, i, j) => ~SpentBefore(rows, j, i)
BY RowsOfLedger DEF SpentBefore, NoTerm

\* Of some batches one is spent last.
LEMMA OneIsLast ==
    ASSUME NEW rows \in Seq(Row), NEW A \in SUBSET Batches(rows), A # {}
    PROVE  \E i \in A : \A j \in A : j = i \/ SpentBefore(rows, j, i)
<1> DEFINE Last(s) == \E i \in s : \A j \in s : j = i \/ SpentBefore(rows, j, i)
           G == {s \in SUBSET A : s = {} \/ Last(s)}
<1>1. IsFiniteSet(A) /\ A \in SUBSET DOMAIN rows
  BY BatchesHold, FS_Subset DEF Batches
<1>2. ASSUME NEW s \in SUBSET A, NEW x \in A \ s, s \in G PROVE s \union {x} \in G
  <2>1. CASE s = {}
    BY <2>1
  <2>2. CASE s # {}
    <3>1. PICK i \in s : \A j \in s : j = i \/ SpentBefore(rows, j, i)
      BY <1>2, <2>2
    <3>2. CASE SpentBefore(rows, x, i)
      BY <3>1, <3>2
    <3>3. CASE SpentBefore(rows, i, x)
      <4>1. \A j \in s : SpentBefore(rows, j, x)
        BY <1>1, <3>1, <3>3, SpentInOrder
      <4> QED BY <4>1
    <3> QED BY <1>1, <3>2, <3>3, SpentInOrder
  <2> QED BY <2>1, <2>2
<1>3. A \in G
  <2>1. {} \in G
    OBVIOUS
  <2> HIDE DEF G
  <2> QED BY <1>1, <1>2, <2>1, AddingUp
<1> QED BY <1>3

\* What the batches in front leave to be spent, the next one gives.
LEMMA SpendingOn ==
    ASSUME NEW a \in Nat, NEW k \in Nat, NEW t \in Nat
    PROVE  AtLeastZero(k - AtLeastZero(t - a)) + AtLeastZero(a - t) = AtLeastZero((k + a) - t)
<1>1. CASE t <= a
  <2>1. AtLeastZero(t - a) = 0 /\ AtLeastZero(a - t) = a - t
    BY <1>1 DEF AtLeastZero
  <2>2. AtLeastZero(k - 0) = k /\ AtLeastZero((k + a) - t) = (k + a) - t
    BY <1>1 DEF AtLeastZero
  <2> QED BY <2>1, <2>2
<1>2. CASE ~(t <= a)
  <2>1. AtLeastZero(t - a) = t - a /\ AtLeastZero(a - t) = 0
    BY <1>2 DEF AtLeastZero
  <2>2. k - (t - a) = (k + a) - t
    OBVIOUS
  <2>3. AtLeastZero((k + a) - t) \in Int
    BY DEF AtLeastZero
  <2> QED BY <2>1, <2>2, <2>3
<1> QED BY <1>1, <1>2

\* Batches in front of all others.
InFront(rows, D) ==
    /\ D \subseteq Batches(rows)
    /\ \A i \in D, j \in Batches(rows) : SpentBefore(rows, j, i) => j \in D

\* What is left of the batches in front is what they hold without what is to be spent.
LEMMA RemainingInFront ==
    ASSUME NEW rows \in Seq(Row), NEW A, InFront(rows, A)
    PROVE  SumOver(Len(rows), A, Remaining(rows))
             = AtLeastZero(SumOver(Len(rows), A, KeptBy(rows)) - AtLeastZero(ToSpend(rows)))
<1> PICK n, t : n = Len(rows) /\ t = AtLeastZero(ToSpend(rows))
  OBVIOUS
<1>1. n \in Nat /\ t \in Nat /\ Batches(rows) \in SUBSET (1..n) /\ IsFiniteSet(Batches(rows))
  BY RowsOfLedger, BatchesHold, AtLeastZeroIsNat
<1> DEFINE P(D) == SumOver(n, D, Remaining(rows)) = AtLeastZero(SumOver(n, D, KeptBy(rows)) - t)
           Bad == {D \in SUBSET Batches(rows) : InFront(rows, D) /\ ~P(D)}
<1> SUFFICES ASSUME Bad # {} PROVE FALSE
  BY DEF InFront
<1>2. PICK D \in Bad : \A t2 \in SUBSET D : t2 # D => t2 \notin Bad
  <2>1. Bad \in SUBSET (SUBSET Batches(rows))
    OBVIOUS
  <2> HIDE DEF Bad
  <2> QED BY <1>1, <2>1, SmallestSet
<1>3. D \in SUBSET Batches(rows) /\ InFront(rows, D) /\ ~P(D)
  OBVIOUS
<1>4. D # {}
  <2>1. SumOver(n, {}, Remaining(rows)) = 0 /\ SumOver(n, {}, KeptBy(rows)) = 0
    BY <1>1, SumOfNothing
  <2>2. AtLeastZero(0 - t) = 0
    BY <1>1 DEF AtLeastZero
  <2> QED BY <1>3, <2>1, <2>2
<1>5. PICK i \in D : \A j \in D : j = i \/ SpentBefore(rows, j, i)
  BY <1>3, <1>4, OneIsLast
<1> PICK E : E = D \ {i}
  OBVIOUS
<1>6. E = BatchesBefore(rows, i) /\ InFront(rows, E) /\ i \in 1..n
  <2>1. Batches(rows) \in SUBSET DOMAIN rows
    BY DEF Batches
  <2>2. E = BatchesBefore(rows, i)
    BY <1>3, <1>5, <2>1, SpentInOrder DEF InFront, BatchesBefore
  <2>3. ASSUME NEW e \in E, NEW j \in Batches(rows), SpentBefore(rows, j, e) PROVE j \in E
    <3>1. j \in D
      BY <1>3, <2>3 DEF InFront
    <3>2. j # i
      BY <1>3, <1>5, <2>1, <2>3, SpentInOrder
    <3> QED BY <3>1, <3>2
  <2>4. InFront(rows, E)
    BY <1>3, <2>3 DEF InFront
  <2> QED BY <1>1, <1>3, <2>2, <2>4
<1>7. P(E)
  <2>1. E \in SUBSET D /\ E # D /\ E \in SUBSET Batches(rows)
    BY <1>3
  <2> HIDE DEF P
  <2> QED BY <1>2, <1>6, <2>1
<1> HIDE DEF P, Bad
<1>8. /\ SumOver(n, D, Remaining(rows)) = Remaining(rows)[i] + SumOver(n, E, Remaining(rows))
      /\ SumOver(n, D, KeptBy(rows)) = KeptBy(rows)[i] + SumOver(n, E, KeptBy(rows))
  <2>1. \A k \in 1..n : k \in D => KeptBy(rows)[k] \in Int
    BY <1>3, BatchesHold
  <2>5. \A k \in 1..n : k \in D => Remaining(rows)[k] \in Int
    BY <1>3, RemainingIs
  <2>2. n \in Nat /\ i \in 1..n
    BY <1>1, <1>6
  <2>3. SumOver(n, D, Remaining(rows)) = Remaining(rows)[i] + SumOver(n, E, Remaining(rows))
    BY <2>2, <2>5, SumWithout
  <2>4. SumOver(n, D, KeptBy(rows)) = KeptBy(rows)[i] + SumOver(n, E, KeptBy(rows))
    BY <2>1, <2>2, SumWithout
  <2> QED BY <2>3, <2>4
<1>9. PICK a \in Nat, k \in Nat : a = SumOver(n, E, KeptBy(rows)) /\ k = KeptBy(rows)[i]
  BY <1>3, <1>6, BatchesHold, RemainingIs DEF KeptBefore
<1>10. Remaining(rows)[i] = AtLeastZero(k - AtLeastZero(t - a))
  BY <1>3, <1>6, <1>9, RemainingIs DEF KeptBefore
<1>11. SumOver(n, E, Remaining(rows)) = AtLeastZero(a - t)
  BY <1>7, <1>9 DEF P
<1>12. AtLeastZero(k - AtLeastZero(t - a)) + AtLeastZero(a - t) = AtLeastZero((k + a) - t)
  <2>1. t \in Nat
    BY <1>1
  <2> QED BY <2>1, SpendingOn, Zenon
<1>13. SumOver(n, D, Remaining(rows)) = AtLeastZero((k + a) - t)
  <2>1. AtLeastZero(k - AtLeastZero(t - a)) \in Nat /\ AtLeastZero(a - t) \in Nat
    BY <1>1, <1>9 DEF AtLeastZero
  <2> QED BY <1>8, <1>10, <1>11, <1>12, <2>1
<1> QED BY <1>3, <1>8, <1>9, <1>13 DEF P

(***************************************************************************)
(* How the rows of a ledger fit together. Fits(rows, k) is about row k and *)
(* the rows before it, so later rows do not matter to it.                  *)
(***************************************************************************)
Earlier(rows, k, kind, source) ==
    {i \in 1..(k - 1) : rows[i].kind = kind /\ rows[i].source = source}

\* Row k is the first reversal after consumption i of its task, and gives back
\* what the row and its correction took.
Undoes(rows, k, i) ==
    /\ i \in Earlier(rows, k, "task_consumption", rows[k].source)
    /\ \A m \in Earlier(rows, k, "task_reversal", rows[k].source) : m < i
    /\ \/ /\ Earlier(rows, k, "correction", i) = {}
          /\ rows[k].delta = -rows[i].delta
       \/ \E c \in Earlier(rows, k, "correction", i) :
             rows[k].delta = -(rows[i].delta + rows[c].delta)

\* Row k corrects row i, which keeps its sign and was not undone.
Corrects(rows, k, i) ==
    /\ i \in 1..(k - 1)
    /\ rows[i].kind \in {"manual", "purchase", "invoice_credit", "task_consumption"}
    /\ Sign(rows[i].delta + rows[k].delta) = Sign(rows[i].delta)
    /\ rows[i].kind = "task_consumption" =>
          \A m \in Earlier(rows, k, "task_reversal", rows[i].source) : m < i

Withdraws(rows, k, i) ==
    /\ i \in 1..(k - 1)
    /\ rows[i].kind \in {"invoice_credit", "purchase"}
    /\ rows[k].kind = ReversalOf(rows[i].kind) /\ rows[k].source = rows[i].source

Fits(rows, k) ==
    LET r == rows[k] IN
    /\ r.kind \in OncePerSource \union {"correction"} => Earlier(rows, k, r.kind, r.source) = {}
    /\ r.kind \in {"invoice_credit", "purchase"} => r.delta > 0
    /\ r.kind = "purchase" => r.source \in 1..(k - 1)
    /\ r.kind \in {"invoice_credit_reversal", "purchase_reversal"} =>
          r.delta < 0 /\ \E i \in 1..(k - 1) : Withdraws(rows, k, i)
    /\ r.kind = "overage_invoiced" => r.delta = 0
    /\ r.kind = "task_consumption" =>
          /\ r.delta < 0 /\ r.source \in Tasks
          /\ \A i \in Earlier(rows, k, "task_consumption", r.source) :
                \E m \in Earlier(rows, k, "task_reversal", r.source) : i < m
    /\ r.kind = "task_reversal" => \E i \in 1..(k - 1) : Undoes(rows, k, i)
    /\ r.kind = "correction" => Corrects(rows, k, r.source)
    /\ r.kind = "expire" =>
          /\ r.delta < 0 /\ r.source \in 1..(k - 1)
          /\ r.nth = 1 + Cardinality(Earlier(rows, k, "expire", r.source))

AllFit(rows) == \A k \in DOMAIN rows : Fits(rows, k)

\* A batch has its own rows: two batches share none, nor is one a row of another.
LEMMA BatchRowsAreApart ==
    ASSUME NEW rows \in Seq(Row), AllFit(rows), NEW i \in Batches(rows), NEW j \in Batches(rows),
           NEW k \in DOMAIN rows,
           k \in {i} \union Adjusting(rows, i), k \in {j} \union Adjusting(rows, j)
    PROVE  i = j /\ (k = i \/ rows[k].kind \in {"correction", "invoice_credit_reversal",
                                               "purchase_reversal"})
<1>1. /\ \A b \in Batches(rows) : b \in DOMAIN rows /\ rows[b].delta > 0
                                  /\ rows[b].kind \notin {"task_reversal", "correction"}
      /\ DOMAIN rows = 1..Len(rows) /\ Len(rows) \in Nat
      /\ \A m \in DOMAIN rows : rows[m].delta \in Int
  BY RowsOfLedger DEF Batches
<1>2. \A b \in Batches(rows) :
         /\ rows[b].kind \notin {"correction", "invoice_credit_reversal", "purchase_reversal",
                                 "task_reversal"}
         /\ \A m \in Adjusting(rows, b) :
               \/ rows[m].kind = "correction" /\ rows[m].source = b
               \/ /\ rows[b].kind \in {"invoice_credit", "purchase"}
                  /\ rows[m].kind = ReversalOf(rows[b].kind) /\ rows[m].source = rows[b].source
                  /\ rows[m].kind \in {"invoice_credit_reversal", "purchase_reversal"}
  <2> TAKE b \in Batches(rows)
  <2>1. Fits(rows, b)
    BY <1>1 DEF AllFit
  <2>2. rows[b].kind \notin {"correction", "invoice_credit_reversal", "purchase_reversal",
                             "task_reversal"}
    BY <1>1, <2>1 DEF Fits
  <2>3. rows[b].kind \notin {"invoice_credit", "purchase"} => ReversalOf(rows[b].kind) = "none"
    BY DEF ReversalOf
  <2>4. \A m \in DOMAIN rows : rows[m].kind # "none"
    BY RowsOfLedger DEF Kinds
  <2>5. rows[b].kind \in {"invoice_credit", "purchase"} =>
          ReversalOf(rows[b].kind) \in {"invoice_credit_reversal", "purchase_reversal"}
    BY DEF ReversalOf
  <2> QED BY <2>2, <2>3, <2>4, <2>5 DEF Adjusting, CorrectionsOf, WithdrawalsOf
<1>3. CASE i = j
  <2>1. k = i \/ k \in Adjusting(rows, i)
    OBVIOUS
  <2> QED BY <1>2, <1>3, <2>1
<1>4. CASE i # j
  <2>1. k \in Adjusting(rows, i) /\ k \in Adjusting(rows, j)
    BY <1>2, <1>4
  <2>2. /\ rows[i].kind \in {"invoice_credit", "purchase"}
        /\ rows[j].kind \in {"invoice_credit", "purchase"}
        /\ ReversalOf(rows[i].kind) = ReversalOf(rows[j].kind) /\ rows[i].source = rows[j].source
    BY <1>2, <1>4, <2>1
  <2>3. rows[i].kind = rows[j].kind
    BY <2>2 DEF ReversalOf
  <2>4. Fits(rows, i) /\ Fits(rows, j)
    BY <1>1 DEF AllFit
  <2>5. i \notin Earlier(rows, j, rows[j].kind, rows[j].source)
        /\ j \notin Earlier(rows, i, rows[i].kind, rows[i].source)
    BY <2>2, <2>4 DEF Fits, OncePerSource
  <2>6. i < j \/ j < i
    BY <1>1, <1>4
  <2> QED BY <1>1, <2>2, <2>3, <2>5, <2>6 DEF Earlier
<1> QED BY <1>3, <1>4

\* What a ledger adds up to is what its batches hold and what is spent.
LEMMA BalanceIsHeldAndSpent ==
    ASSUME NEW rows \in Seq(Row), AllFit(rows)
    PROVE  Balance(rows) = SumOver(Len(rows), Batches(rows), HeldBy(rows))
                           + Delta(rows, Spending(rows))
<1>0. PICK n, B, S : /\ n = Len(rows) /\ B = Batches(rows)
                     /\ S = UNION {{i} \union Adjusting(rows, i) : i \in B}
  OBVIOUS
<1>1. /\ n \in Nat /\ 1..n = DOMAIN rows /\ B \in SUBSET (1..n)
      /\ \A k \in DOMAIN rows : rows[k].delta \in Int
  BY <1>0, RowsOfLedger DEF Batches
<1>2. \A i \in B : Adjusting(rows, i) \in SUBSET DOMAIN rows
  BY DEF Adjusting, CorrectionsOf, WithdrawalsOf
<1>3. S \in SUBSET (1..n)
  BY <1>0, <1>1, <1>2
<1>4. Balance(rows) = Delta(rows, S) + Delta(rows, Spending(rows))
  <2>1. /\ Spending(rows) = DOMAIN rows \ S
        /\ S \union Spending(rows) = DOMAIN rows /\ S \intersect Spending(rows) = {}
    BY <1>0, <1>1, <1>3 DEF Spending
  <2>2. Delta(rows, S \union Spending(rows)) = Delta(rows, S) + Delta(rows, Spending(rows))
    BY <1>1, <1>3, <2>1, DeltaOfUnion
  <2> QED BY <2>1, <2>2 DEF Balance
<1>5. PICK own : own = [k \in S |-> CHOOSE i \in B : k \in {i} \union Adjusting(rows, i)]
  OBVIOUS
<1>6. \A k \in S : own[k] \in B /\ k \in {own[k]} \union Adjusting(rows, own[k])
  <2> TAKE k \in S
  <2>1. \E i \in B : k \in {i} \union Adjusting(rows, i)
    BY <1>0
  <2> QED BY <1>5, <2>1
<1>7. PICK v : v = [k \in S |-> rows[k].delta]
  OBVIOUS
<1>8. SumOver(n, S, v) = SumOver(n, B, Groups(n, S, own, B, v))
  <2>1. \A k \in S : v[k] \in Int
    BY <1>1, <1>3, <1>7
  <2>2. \A k \in S : own[k] \in B
    BY <1>6
  <2> QED BY <1>1, <1>3, <2>1, <2>2, SumByGroups
<1>9. ASSUME NEW i \in B PROVE Groups(n, S, own, B, v)[i] = HeldBy(rows)[i]
  <2>1. PICK A : A = Adjusting(rows, i)
    OBVIOUS
  <2>2. Group(S, own, i) = {i} \union A
    <3>1. \A k \in {i} \union A : k \in S /\ k \in DOMAIN rows
      BY <1>0, <1>1, <1>2, <2>1
    <3>2. \A k \in {i} \union A : own[k] = i
      <4> TAKE k \in {i} \union A
      <4>1. k \in {own[k]} \union Adjusting(rows, own[k]) /\ own[k] \in Batches(rows)
            /\ i \in Batches(rows)
        BY <1>0, <1>6, <3>1
      <4> QED BY <2>1, <3>1, <4>1, BatchRowsAreApart
    <3> QED BY <1>6, <2>1, <3>1, <3>2 DEF Group
  <2>3. i \notin A
    <3>1. i \in DOMAIN rows /\ rows[i].delta > 0 /\ rows[i].kind # "correction"
      BY <1>0, <1>1 DEF Batches
    <3>2. rows[i].kind \notin {"invoice_credit_reversal", "purchase_reversal"}
      BY <1>1, <3>1 DEF AllFit, Fits
    <3>3. ReversalOf(rows[i].kind) \in {"invoice_credit_reversal", "purchase_reversal", "none"}
      BY DEF ReversalOf
    <3>4. rows[i].kind # "none"
      BY <3>1, RowsOfLedger DEF Kinds
    <3> QED BY <2>1, <3>1, <3>2, <3>3, <3>4 DEF Adjusting, CorrectionsOf, WithdrawalsOf
  <2>4. i \in DOMAIN rows /\ {i} \in SUBSET DOMAIN rows /\ A \in SUBSET DOMAIN rows
        /\ {i} \intersect A = {}
    BY <1>1, <1>2, <2>1, <2>3
  <2>5. Delta(rows, {i} \union A) = Delta(rows, {i}) + Delta(rows, A)
    BY <2>4, DeltaOfUnion
  <2>6. Delta(rows, {i}) = rows[i].delta
    BY <2>4, DeltaOfRow
  <2>7. SumOver(n, {i} \union A, v) = Delta(rows, {i} \union A)
    <3>1. PICK w, D : D = {i} \union A /\ w = [k \in D |-> rows[k].delta]
      OBVIOUS
    <3>2. \A k \in 1..n : k \in D => v[k] = w[k]
      <4>1. \A k \in D : k \in S
        BY <2>2, <3>1 DEF Group
      <4> QED BY <1>7, <3>1, <4>1
    <3>3. SumOver(n, D, v) = SumOver(n, D, w)
      BY <1>1, <3>2, SumOfTheSame
    <3> QED BY <1>0, <3>1, <3>3 DEF Delta
  <2> QED BY <1>0, <2>1, <2>2, <2>5, <2>6, <2>7 DEF Groups, HeldBy, Held
<1>10. SumOver(n, B, Groups(n, S, own, B, v)) = SumOver(n, B, HeldBy(rows))
  BY <1>1, <1>9, SumOfTheSame
<1>11. Delta(rows, S) = SumOver(n, S, v)
  BY <1>0, <1>7 DEF Delta
<1> QED BY <1>0, <1>4, <1>8, <1>10, <1>11

(***************************************************************************)
(* What is spent. Each row belongs to one that costs something, so all     *)
(* of them together never give minutes.                                    *)
(***************************************************************************)
\* The row a row that is spent belongs to: a correction to the row it corrects, a
\* reversal to the consumption it undoes, any other row to itself.
Owner(rows, k) ==
    IF rows[k].kind = "correction" THEN rows[k].source
    ELSE IF rows[k].kind = "task_reversal" THEN CHOOSE i \in 1..(k - 1) : Undoes(rows, k, i)
    ELSE k

\* What is corrected or undone, and all other rows that are spent, are no batches.
LEMMA SpentRows ==
    ASSUME NEW rows \in Seq(Row), AllFit(rows), NEW k \in Spending(rows)
    PROVE  /\ k \in DOMAIN rows
           /\ rows[k].kind \in {"manual", "task_consumption", "task_reversal",
                                "overage_invoiced", "expire", "correction"}
           /\ rows[k].kind = "manual" => rows[k].delta <= 0
           /\ rows[k].kind = "task_reversal" => Undoes(rows, k, Owner(rows, k))
           /\ rows[k].kind = "correction" =>
                 /\ Corrects(rows, k, Owner(rows, k)) /\ Owner(rows, k) = rows[k].source
                 /\ \/ rows[Owner(rows, k)].kind = "task_consumption"
                    \/ rows[Owner(rows, k)].kind = "manual" /\ rows[Owner(rows, k)].delta <= 0
           /\ rows[k].kind \notin {"task_reversal", "correction"} => Owner(rows, k) = k
<1>1. /\ k \in DOMAIN rows /\ Fits(rows, k) /\ k \notin Batches(rows)
      /\ \A i \in Batches(rows) : k \notin Adjusting(rows, i)
      /\ DOMAIN rows = 1..Len(rows) /\ Len(rows) \in Nat
      /\ \A m \in DOMAIN rows : rows[m].delta \in Int /\ rows[m].kind \in Kinds
  BY RowsOfLedger DEF Spending, AllFit
<1>2. rows[k].kind \notin {"invoice_credit", "purchase"}
  BY <1>1 DEF Fits, Batches
<1>3. rows[k].kind \notin {"invoice_credit_reversal", "purchase_reversal"}
  <2> SUFFICES ASSUME rows[k].kind \in {"invoice_credit_reversal", "purchase_reversal"} PROVE FALSE
    OBVIOUS
  <2>1. PICK i \in 1..(k - 1) : Withdraws(rows, k, i)
    BY <1>1 DEF Fits
  <2>2. i \in DOMAIN rows /\ Fits(rows, i)
    BY <1>1 DEF AllFit
  <2>3. i \in Batches(rows)
    BY <2>1, <2>2 DEF Fits, Withdraws, Batches
  <2>4. k \in Adjusting(rows, i)
    BY <1>1, <2>1 DEF Withdraws, Adjusting, WithdrawalsOf
  <2> QED BY <1>1, <2>3, <2>4
<1>4. rows[k].kind = "manual" => rows[k].delta <= 0
  BY <1>1 DEF Batches
<1>5. rows[k].kind = "task_reversal" => Undoes(rows, k, Owner(rows, k))
  <2> SUFFICES ASSUME rows[k].kind = "task_reversal" PROVE Undoes(rows, k, Owner(rows, k))
    OBVIOUS
  <2>1. \E i \in 1..(k - 1) : Undoes(rows, k, i)
    BY <1>1 DEF Fits
  <2>2. Owner(rows, k) = CHOOSE i \in 1..(k - 1) : Undoes(rows, k, i)
    BY DEF Owner
  <2> QED BY <2>1, <2>2
<1>6. ASSUME rows[k].kind = "correction"
      PROVE  /\ Corrects(rows, k, Owner(rows, k)) /\ Owner(rows, k) = rows[k].source
             /\ \/ rows[Owner(rows, k)].kind = "task_consumption"
                \/ rows[Owner(rows, k)].kind = "manual" /\ rows[Owner(rows, k)].delta <= 0
  <2>1. Owner(rows, k) = rows[k].source
    BY <1>6 DEF Owner
  <2>2. PICK i : i = rows[k].source
    OBVIOUS
  <2>3. Corrects(rows, k, i)
    BY <1>1, <1>6, <2>2 DEF Fits
  <2>4. i \in DOMAIN rows /\ Fits(rows, i)
    BY <1>1, <2>3 DEF AllFit, Corrects
  <2>5. k \in Adjusting(rows, i)
    BY <1>1, <1>6, <2>2 DEF Adjusting, CorrectionsOf
  <2>6. i \notin Batches(rows)
    BY <1>1, <2>5
  <2>7. rows[i].kind = "task_consumption" \/ (rows[i].kind = "manual" /\ rows[i].delta <= 0)
    BY <1>1, <2>3, <2>4, <2>6 DEF Corrects, Fits, Batches
  <2> QED BY <2>1, <2>2, <2>3, <2>7
<1>7. rows[k].kind \notin {"task_reversal", "correction"} => Owner(rows, k) = k
  BY DEF Owner
<1> QED BY <1>1, <1>2, <1>3, <1>4, <1>5, <1>6, <1>7 DEF Kinds

\* The rows spent with row i do not move more back than row i took.
LEMMA OwnedTakes ==
    ASSUME NEW rows \in Seq(Row), AllFit(rows), NEW i \in DOMAIN rows,
           NEW S \in SUBSET Spending(rows),
           \A k \in Spending(rows) \ S : rows[k].kind = "expire",
           NEW O, O = {k \in S : Owner(rows, k) = i}
    PROVE  Delta(rows, O) <= 0
<1>1. /\ DOMAIN rows = 1..Len(rows) /\ Len(rows) \in Nat
      /\ \A m \in DOMAIN rows : rows[m].delta \in Int
      /\ S \in SUBSET DOMAIN rows /\ O \in SUBSET DOMAIN rows
  BY RowsOfLedger, BatchesHold
<1>2. \A k \in O : \/ k = i /\ rows[i].kind \notin {"task_reversal", "correction"}
                   \/ /\ rows[k].kind = "correction" /\ Corrects(rows, k, i) /\ rows[k].source = i
                      /\ \/ rows[i].kind = "task_consumption"
                         \/ rows[i].kind = "manual" /\ rows[i].delta <= 0
                   \/ rows[k].kind = "task_reversal" /\ Undoes(rows, k, i)
  <2> TAKE k \in O
  <2>1. k \in Spending(rows) /\ Owner(rows, k) = i
    OBVIOUS
  <2> QED BY <2>1, SpentRows
<1>3. Fits(rows, i)
  BY DEF AllFit
<1>4. CASE rows[i].kind \notin {"manual", "task_consumption"}
  <2>1. O \in SUBSET {i}
    <3>1. \A k \in O : ~Undoes(rows, k, i)
      BY <1>4 DEF Undoes, Earlier
    <3> QED BY <1>2, <1>4, <3>1
  <2>2. CASE O = {}
    <3>1. Delta(rows, O) = 0
      BY <2>2, DeltaOfNone
    <3> QED BY <3>1
  <2>3. CASE O = {i}
    <3>1. i \in Spending(rows) /\ i \in O
      BY <2>3
    <3>2. rows[i].kind \in {"overage_invoiced", "expire"}
      BY <1>2, <1>4, <3>1, SpentRows DEF Undoes, Earlier
    <3>3. rows[i].delta <= 0
      BY <1>1, <1>3, <3>2 DEF Fits
    <3> QED BY <2>3, <3>3, DeltaOfRow
  <2> QED BY <2>1, <2>2, <2>3
<1>5. \A c, d \in O : rows[c].kind = "correction" /\ rows[d].kind = "correction" => c = d
  <2> SUFFICES ASSUME NEW c \in O, NEW d \in O, rows[c].kind = "correction",
                      rows[d].kind = "correction", c < d
               PROVE  FALSE
    BY <1>1
  <2>1. rows[c].source = i /\ rows[d].source = i
    BY <1>2
  <2>2. Earlier(rows, d, "correction", i) = {}
    <3>1. Fits(rows, d)
      BY <1>1 DEF AllFit
    <3> QED BY <2>1, <3>1 DEF Fits
  <2>3. c \in Earlier(rows, d, "correction", i)
    BY <1>1, <2>1 DEF Earlier
  <2> QED BY <2>2, <2>3
<1>6. CASE rows[i].kind = "manual"
  <2>1. \A k \in O : rows[k].kind # "task_reversal"
    <3>1. \A k \in O : ~Undoes(rows, k, i)
      BY <1>6 DEF Undoes, Earlier
    <3> QED BY <1>2, <1>6, <3>1
  <2>2. CASE O = {}
    <3>1. Delta(rows, O) = 0
      BY <2>2, DeltaOfNone
    <3> QED BY <3>1
  <2>3. CASE O # {}
    <3>1. rows[i].delta <= 0
      <4>1. PICK k \in O : TRUE
        BY <2>3
      <4>2. k = i => rows[i].delta <= 0
        <5>1. k \in Spending(rows)
          OBVIOUS
        <5> QED BY <1>6, <5>1, SpentRows
      <4> QED BY <1>2, <1>6, <2>1, <4>1, <4>2
    <3>2. i \in O
      <4>1. i \notin Batches(rows) /\ \A b \in Batches(rows) : i \notin Adjusting(rows, b)
        <5>1. i \notin Batches(rows)
          BY <1>1, <3>1 DEF Batches
        <5>2. ReversalOf("invoice_credit") # "manual" /\ ReversalOf("purchase") # "manual"
              /\ \A b \in DOMAIN rows : ReversalOf(rows[b].kind) # "manual"
          BY DEF ReversalOf
        <5> QED BY <1>6, <5>1, <5>2 DEF Adjusting, CorrectionsOf, WithdrawalsOf, Batches
      <4>2. i \in Spending(rows)
        BY <4>1 DEF Spending
      <4> QED BY <1>6, <4>2 DEF Owner
    <3>3. CASE O = {i}
      BY <3>1, <3>3, DeltaOfRow
    <3>4. CASE O # {i}
      <4>1. PICK c \in O : c # i
        BY <3>2, <3>4
      <4>2. rows[c].kind = "correction" /\ Corrects(rows, c, i)
        BY <1>2, <2>1, <4>1
      <4>3. O = {i, c}
        BY <1>2, <1>5, <2>1, <3>2, <4>1, <4>2
      <4>4. rows[i].delta + rows[c].delta <= 0
        BY <1>1, <3>1, <4>1, <4>2 DEF Corrects, Sign
      <4> QED BY <1>1, <4>1, <4>3, <4>4, DeltaOfTwo
    <3> QED BY <3>3, <3>4
  <2> QED BY <2>2, <2>3
<1>7. CASE rows[i].kind = "task_consumption"
  <2>1. i \in O /\ rows[i].delta < 0
    <3>1. i \notin Batches(rows) /\ rows[i].delta < 0
      BY <1>1, <1>3, <1>7 DEF Batches, Fits
    <3>2. \A b \in DOMAIN rows : ReversalOf(rows[b].kind) # "task_consumption"
      BY DEF ReversalOf
    <3>3. i \in Spending(rows)
      BY <1>7, <3>1, <3>2 DEF Spending, Adjusting, CorrectionsOf, WithdrawalsOf, Batches
    <3> QED BY <1>7, <3>1, <3>3 DEF Owner
  <2>2. \A r, s \in O : rows[r].kind = "task_reversal" /\ rows[s].kind = "task_reversal" => r = s
    <3> SUFFICES ASSUME NEW r \in O, NEW s \in O, rows[r].kind = "task_reversal",
                        rows[s].kind = "task_reversal", r < s
                 PROVE  FALSE
      BY <1>1
    <3>1. Undoes(rows, r, i) /\ Undoes(rows, s, i)
      BY <1>2, <1>7
    <3>2. r \in Earlier(rows, s, "task_reversal", rows[s].source) /\ i < r
      BY <1>1, <3>1 DEF Undoes, Earlier
    <3> QED BY <1>1, <3>1, <3>2 DEF Undoes
  <2>3. \A r, c \in O : rows[r].kind = "task_reversal" /\ rows[c].kind = "correction" =>
          /\ c < r
          /\ rows[r].delta = -(rows[i].delta + rows[c].delta)
    <3> SUFFICES ASSUME NEW r \in O, NEW c \in O, rows[r].kind = "task_reversal",
                        rows[c].kind = "correction"
                 PROVE  c < r /\ rows[r].delta = -(rows[i].delta + rows[c].delta)
      OBVIOUS
    <3>1. Undoes(rows, r, i) /\ Corrects(rows, c, i) /\ rows[c].source = i
      BY <1>2, <1>7
    <3>2. i < r /\ rows[r].source = rows[i].source
      BY <1>1, <3>1 DEF Undoes, Earlier
    <3>3. c < r
      <4>1. ~(r < c)
        <5> SUFFICES ASSUME r < c PROVE FALSE
          OBVIOUS
        <5>1. r \in Earlier(rows, c, "task_reversal", rows[i].source)
          BY <1>1, <3>2 DEF Earlier
        <5> QED BY <1>1, <1>7, <3>1, <3>2, <5>1 DEF Corrects
      <4> QED BY <1>1, <4>1
    <3>4. c \in Earlier(rows, r, "correction", i)
      BY <1>1, <3>1, <3>3 DEF Earlier
    <3>5. PICK d \in Earlier(rows, r, "correction", i) :
             rows[r].delta = -(rows[i].delta + rows[d].delta)
      BY <3>1, <3>4 DEF Undoes
    <3>6. d = c
      <4>1. Fits(rows, c) /\ Fits(rows, d) /\ rows[d].kind = "correction" /\ rows[d].source = i
            /\ d \in DOMAIN rows
        BY <1>1, <3>5 DEF AllFit, Earlier
      <4>2. c < d => c \in Earlier(rows, d, "correction", i)
        BY <1>1, <3>1, <4>1 DEF Earlier
      <4>3. d < c => d \in Earlier(rows, c, "correction", i)
        BY <1>1, <3>1, <4>1 DEF Earlier
      <4> QED BY <1>1, <3>1, <4>1, <4>2, <4>3 DEF Fits
    <3> QED BY <3>3, <3>5, <3>6
  <2>4. CASE \A k \in O : rows[k].kind # "task_reversal"
    <3>1. CASE O = {i}
      <4>1. Delta(rows, O) = Delta(rows, {i})
        BY <3>1, Zenon
      <4> QED BY <1>1, <2>1, <4>1, DeltaOfRow
    <3>2. CASE O # {i}
      <4>1. PICK c \in O : c # i
        BY <2>1, <3>2
      <4>2. rows[c].kind = "correction" /\ Corrects(rows, c, i)
        BY <1>2, <2>4, <4>1
      <4>3. O = {i, c}
        BY <1>2, <1>5, <2>1, <2>4, <4>1, <4>2
      <4>4. rows[i].delta + rows[c].delta <= 0
        BY <1>1, <2>1, <4>1, <4>2 DEF Corrects, Sign
      <4> QED BY <1>1, <4>1, <4>3, <4>4, DeltaOfTwo
    <3> QED BY <3>1, <3>2
  <2>5. CASE \E k \in O : rows[k].kind = "task_reversal"
    <3>1. PICK r \in O : rows[r].kind = "task_reversal"
      BY <2>5
    <3>2. Undoes(rows, r, i) /\ r # i
      BY <1>2, <1>7, <3>1
    <3>3. CASE \E c \in O : rows[c].kind = "correction"
      <4>1. PICK c \in O : rows[c].kind = "correction"
        BY <3>3
      <4>2. c # i /\ c # r /\ O = {i, c, r}
        BY <1>2, <1>5, <1>7, <2>1, <2>2, <3>1, <4>1
      <4>3. rows[i].delta + (rows[c].delta + rows[r].delta) = 0
        BY <1>1, <2>1, <2>3, <3>1, <4>1
      <4> QED BY <1>1, <3>2, <4>1, <4>2, <4>3, DeltaOfThree
    <3>4. CASE \A c \in O : rows[c].kind # "correction"
      <4>1. O = {i, r}
        BY <1>2, <2>1, <2>2, <3>1, <3>4
      <4>2. Earlier(rows, r, "correction", i) = {}
        <5> SUFFICES ASSUME NEW c \in Earlier(rows, r, "correction", i) PROVE FALSE
          OBVIOUS
        <5>1. c \in DOMAIN rows /\ rows[c].kind = "correction" /\ rows[c].source = i
          BY <1>1 DEF Earlier
        <5>2. c \in Spending(rows)
          <6>1. c \notin Batches(rows)
            BY <5>1 DEF Batches
          <6>2. \A b \in DOMAIN rows : ReversalOf(rows[b].kind) # "correction"
            BY DEF ReversalOf
          <6>3. i \notin Batches(rows)
            BY <1>1, <2>1 DEF Batches
          <6> QED BY <5>1, <6>1, <6>2, <6>3
                  DEF Spending, Adjusting, CorrectionsOf, WithdrawalsOf, Batches
        <5>3. c \in O
          BY <5>1, <5>2 DEF Owner
        <5> QED BY <3>4, <5>1, <5>3
      <4>3. rows[r].delta = -rows[i].delta
        BY <3>2, <4>2 DEF Undoes
      <4>4. rows[i].delta + rows[r].delta = 0
        BY <1>1, <2>1, <4>3
      <4>5. Delta(rows, {i, r}) = rows[i].delta + rows[r].delta
        BY <1>1, <3>2, DeltaOfTwo
      <4>6. Delta(rows, O) = Delta(rows, {i, r})
        BY <4>1, Zenon
      <4> QED BY <4>4, <4>5, <4>6
    <3> QED BY <3>3, <3>4
  <2> QED BY <2>4, <2>5
<1> QED BY <1>4, <1>6, <1>7

\* What is spent takes from the batches, also when the expiries of some of them
\* are left aside.
LEMMA SpendingTakes ==
    ASSUME NEW rows \in Seq(Row), AllFit(rows), NEW S \in SUBSET Spending(rows),
           \A k \in Spending(rows) \ S : rows[k].kind = "expire"
    PROVE  Delta(rows, S) <= 0
<1>0. PICK n, v, own : /\ n = Len(rows) /\ v = [k \in S |-> rows[k].delta]
                       /\ own = [k \in S |-> Owner(rows, k)]
  OBVIOUS
<1>1. /\ n \in Nat /\ 1..n = DOMAIN rows /\ S \in SUBSET (1..n)
      /\ \A k \in S : v[k] \in Int
  BY <1>0, RowsOfLedger, BatchesHold
<1>2. \A k \in S : own[k] \in 1..n
  <2> TAKE k \in S
  <2>1. k \in 1..n /\ own[k] = Owner(rows, k)
    BY <1>0, <1>1
  <2>2. Owner(rows, k) \in 1..k
    <3>1. rows[k].kind = "task_reversal" => Owner(rows, k) \in 1..(k - 1)
      BY SpentRows DEF Undoes, Earlier
    <3>2. rows[k].kind = "correction" => Owner(rows, k) \in 1..(k - 1)
      BY SpentRows DEF Corrects
    <3>3. rows[k].kind \notin {"task_reversal", "correction"} => Owner(rows, k) = k
      BY SpentRows
    <3> QED BY <2>1, <3>1, <3>2, <3>3
  <2> QED BY <1>1, <2>1, <2>2
<1>3. PICK O, sums : O = 1..n /\ sums = Groups(n, S, own, O, v)
  OBVIOUS
<1>4. SumOver(n, S, v) = SumOver(n, O, sums)
  BY <1>1, <1>2, <1>3, SumByGroups
<1>5. ASSUME NEW i \in O PROVE sums[i] \in Int /\ sums[i] <= 0
  <2>1. PICK A : A = {k \in S : Owner(rows, k) = i}
    OBVIOUS
  <2>2. Group(S, own, i) = A
    BY <1>0, <2>1 DEF Group
  <2>3. SumOver(n, A, v) = Delta(rows, A)
    <3>1. PICK w : w = [k \in A |-> rows[k].delta]
      OBVIOUS
    <3>2. \A k \in 1..n : k \in A => v[k] = w[k]
      BY <1>0, <2>1, <3>1
    <3>3. SumOver(n, A, v) = SumOver(n, A, w)
      BY <1>1, <3>2, SumOfTheSame
    <3> QED BY <1>0, <3>1, <3>3 DEF Delta
  <2>4. Delta(rows, A) <= 0
    BY <1>1, <1>3, <2>1, OwnedTakes
  <2>5. Delta(rows, A) \in Int
    <3>1. A \in SUBSET DOMAIN rows
      BY <1>1, <2>1
    <3> QED BY <3>1, DeltaIsInt
  <2> QED BY <1>3, <2>2, <2>3, <2>4, <2>5 DEF Groups
<1>6. SumOver(n, O, sums) <= SumOver(n, {}, sums)
  <2>1. \A k \in 1..n : Term(k, O, sums) \in Int /\ Term(k, {}, sums) \in Int
                        /\ Term(k, O, sums) <= Term(k, {}, sums)
    BY <1>3, <1>5 DEF Term
  <2> QED BY <1>1, <2>1, SumIsMonotone
<1>7. SumOver(n, {}, sums) = 0
  BY <1>1, SumOfNothing
<1> QED BY <1>0, <1>4, <1>6, <1>7 DEF Delta

\* What is left of all batches is what the ledger adds up to, if anything is.
LEMMA RemainingIsBalance ==
    ASSUME NEW rows \in Seq(Row), AllFit(rows)
    PROVE  /\ SumOver(Len(rows), Batches(rows), Remaining(rows)) = AtLeastZero(Balance(rows))
           /\ ToSpend(rows) \in Nat
<1>1. PICK n, B : n = Len(rows) /\ B = Batches(rows)
  OBVIOUS
<1>2. PICK s \in Int : s = Delta(rows, Spending(rows))
  BY BatchesHold, DeltaIsInt
<1>3. s <= 0
  BY <1>2, SpendingTakes
<1>4. PICK o \in Nat : o = Overdrawn(rows) /\ o = SumOver(n, B, OwedBy(rows))
  BY <1>1, BatchesHold
<1>5. ToSpend(rows) = o - s /\ ToSpend(rows) \in Nat
  BY <1>2, <1>3, <1>4 DEF ToSpend
<1>6. PICK h \in Int : h = SumOver(n, B, HeldBy(rows))
  <2>1. n \in Nat /\ \A k \in 1..n : k \in B => HeldBy(rows)[k] \in Int
    BY <1>1, RowsOfLedger, BatchesHold
  <2>2. SumOver(n, B, HeldBy(rows)) \in Int
    BY <2>1, SumOverIsInt
  <2> QED BY <2>2
<1>7. SumOver(n, B, KeptBy(rows)) = h + o
  <2>1. n \in Nat
    BY <1>1, RowsOfLedger
  <2>2. \A k \in 1..n : Term(k, B, HeldBy(rows)) \in Int /\ Term(k, B, OwedBy(rows)) \in Int
    BY <1>1, BatchesHold DEF Term
  <2>3. \A k \in 1..n : Term(k, B, KeptBy(rows))
                          = Term(k, B, HeldBy(rows)) + Term(k, B, OwedBy(rows))
    BY <1>1, BatchesHold DEF Term
  <2>4. SumOver(n, B, KeptBy(rows)) = SumOver(n, B, HeldBy(rows)) + SumOver(n, B, OwedBy(rows))
    BY <2>1, <2>2, <2>3, SumOfSums
  <2> QED BY <1>4, <1>6, <2>4
<1>8. Balance(rows) = h + s
  BY <1>1, <1>2, <1>6, BalanceIsHeldAndSpent
<1>9. SumOver(n, B, Remaining(rows)) = AtLeastZero((h + o) - AtLeastZero(o - s))
  <2>1. InFront(rows, B)
    BY <1>1 DEF InFront
  <2> QED BY <1>1, <1>5, <1>7, <2>1, RemainingInFront
<1>10. (h + o) - AtLeastZero(o - s) = h + s
  BY <1>2, <1>3, <1>4, <1>6 DEF AtLeastZero
<1> QED BY <1>1, <1>5, <1>8, <1>9, <1>10

(***************************************************************************)
(* The rows of one run of the expiry job.                                  *)
(***************************************************************************)
DueBefore(rows, due, i) == {j \in due : SpentBefore(rows, j, i)}

\* In the order in which they are spent, some batches are the first, the second
\* and so on.
LEMMA EveryPlaceIsTaken ==
    ASSUME NEW rows \in Seq(Row), NEW due \in SUBSET Batches(rows)
    PROVE  /\ IsFiniteSet(due) /\ Cardinality(due) \in Nat
           /\ \A k \in 1..Cardinality(due) :
                 \E i \in due : Cardinality(DueBefore(rows, due, i)) = k - 1
<1>1. IsFiniteSet(due) /\ due \in SUBSET DOMAIN rows /\ Batches(rows) \in SUBSET DOMAIN rows
  BY BatchesHold, FS_Subset DEF Batches
<1> DEFINE Placed(s) == \A k \in 1..Cardinality(s) :
                          \E i \in s : Cardinality(DueBefore(rows, s, i)) = k - 1
           Bad == {s \in SUBSET due : ~Placed(s)}
<1>2. Bad = {}
  <2> SUFFICES ASSUME Bad # {} PROVE FALSE
    OBVIOUS
  <2>1. PICK s \in Bad : \A t \in SUBSET s : t # s => t \notin Bad
    <3>1. Bad \in SUBSET (SUBSET due)
      OBVIOUS
    <3> HIDE DEF Bad
    <3> QED BY <1>1, <3>1, SmallestSet
  <2>2. s \in SUBSET due /\ ~Placed(s) /\ IsFiniteSet(s) /\ Cardinality(s) \in Nat
    <3>1. s \in SUBSET due /\ ~Placed(s)
      OBVIOUS
    <3>2. IsFiniteSet(s)
      BY <1>1, <3>1, FS_Subset
    <3> QED BY <3>1, <3>2, FS_CardinalityType
  <2>3. s # {}
    BY <2>2, FS_EmptySet
  <2>4. PICK i \in s : \A j \in s : j = i \/ SpentBefore(rows, j, i)
    BY <2>2, <2>3, OneIsLast
  <2> PICK t : t = s \ {i}
    OBVIOUS
  <2>5. /\ t \in SUBSET due /\ t \in SUBSET s /\ t # s
        /\ Cardinality(t) = Cardinality(s) - 1 /\ Cardinality(t) \in Nat
    BY <2>2, FS_RemoveElement, FS_CardinalityType
  <2>6. Placed(t)
    <3> HIDE DEF Placed
    <3> QED BY <2>1, <2>5
  <2>7. ASSUME NEW k \in 1..Cardinality(s)
        PROVE  \E j \in s : Cardinality(DueBefore(rows, s, j)) = k - 1
    <3>1. CASE k = Cardinality(s)
      <4>1. DueBefore(rows, s, i) = t
        BY <1>1, <2>2, <2>4, SpentInOrder DEF DueBefore
      <4> QED BY <2>5, <3>1, <4>1
    <3>2. CASE k # Cardinality(s)
      <4>1. k \in 1..Cardinality(t)
        BY <2>2, <2>5, <3>2
      <4>2. PICK j \in t : Cardinality(DueBefore(rows, t, j)) = k - 1
        BY <2>6, <4>1
      <4>3. DueBefore(rows, s, j) = DueBefore(rows, t, j)
        <5>1. ~SpentBefore(rows, i, j)
          BY <1>1, <2>2, <2>4, SpentInOrder
        <5> QED BY <5>1 DEF DueBefore
      <4> QED BY <4>2, <4>3
    <3> QED BY <3>1, <3>2
  <2> QED BY <2>2, <2>7
<1>3. Placed(due)
  BY <1>2
<1> QED BY <1>1, <1>3, FS_CardinalityType

\* No two of them have the same place.
LEMMA PlacesDiffer ==
    ASSUME NEW rows \in Seq(Row), NEW due \in SUBSET Batches(rows), NEW i \in due, NEW j \in due,
           SpentBefore(rows, i, j)
    PROVE  Cardinality(DueBefore(rows, due, i)) < Cardinality(DueBefore(rows, due, j))
           /\ Cardinality(DueBefore(rows, due, j)) < Cardinality(due)
           /\ Cardinality(DueBefore(rows, due, i)) \in Nat
<1>1. IsFiniteSet(due) /\ due \in SUBSET DOMAIN rows
  BY BatchesHold, FS_Subset DEF Batches
<1>2. PICK a, b : a = DueBefore(rows, due, i) /\ b = DueBefore(rows, due, j)
  OBVIOUS
<1>3. a \in SUBSET b /\ i \in b /\ i \notin a /\ b \in SUBSET due /\ j \in due /\ j \notin b
  BY <1>1, <1>2, SpentInOrder DEF DueBefore
<1>4. IsFiniteSet(a) /\ IsFiniteSet(b)
  BY <1>1, <1>3, FS_Subset
<1>5. /\ Cardinality(a) \in Nat /\ Cardinality(b) \in Nat /\ Cardinality(due) \in Nat
      /\ Cardinality(a) <= Cardinality(b) /\ (Cardinality(b) = Cardinality(a) => b = a)
      /\ Cardinality(b) <= Cardinality(due) /\ (Cardinality(due) = Cardinality(b) => due = b)
  BY <1>1, <1>3, <1>4, FS_Subset, FS_CardinalityType
<1>6. Cardinality(a) # Cardinality(b) /\ Cardinality(b) # Cardinality(due)
  BY <1>3, <1>5
<1> QED BY <1>2, <1>5, <1>6

\* Each due batch gets one row.
LEMMA OneRowEach ==
    ASSUME NEW rows \in Seq(Row), NEW due \in SUBSET Batches(rows)
    PROVE  \E nth :
             /\ ExpireRows(rows, due) = [k \in 1..Cardinality(due) |-> ExpireRow(rows, nth[k])]
             /\ \A k \in 1..Cardinality(due) : nth[k] \in due
             /\ \A i \in due : \E k \in 1..Cardinality(due) :
                   nth[k] = i /\ \A l \in 1..Cardinality(due) : nth[l] = i => l = k
<1>1. PICK m : m = Cardinality(due)
  OBVIOUS
<1>2. /\ IsFiniteSet(due) /\ m \in Nat /\ due \in SUBSET DOMAIN rows
      /\ \A k \in 1..m : \E i \in due : Cardinality(DueBefore(rows, due, i)) = k - 1
  BY <1>1, EveryPlaceIsTaken DEF Batches
<1> DEFINE at(k) == CHOOSE i \in due : Cardinality(DueBefore(rows, due, i)) = k - 1
<1>3. \A k \in 1..m : at(k) \in due /\ Cardinality(DueBefore(rows, due, at(k))) = k - 1
  BY <1>2
<1>4. PICK nth : nth = [k \in 1..m |-> at(k)]
  OBVIOUS
<1>5. ExpireRows(rows, due) = [k \in 1..m |-> ExpireRow(rows, nth[k])]
  BY <1>1, <1>4 DEF ExpireRows, DueBefore
<1> HIDE DEF at
<1>6. \A k \in 1..m : nth[k] \in due /\ Cardinality(DueBefore(rows, due, nth[k])) = k - 1
  BY <1>3, <1>4
<1>7. ASSUME NEW i \in due
      PROVE  \E k \in 1..m : nth[k] = i /\ \A l \in 1..m : nth[l] = i => l = k
  <2>1. PICK c : c = Cardinality(DueBefore(rows, due, i))
    OBVIOUS
  <2>2. c \in Nat /\ c < m
    <3>1. DueBefore(rows, due, i) \in SUBSET due /\ i \notin DueBefore(rows, due, i)
      BY <1>2, SpentInOrder DEF DueBefore
    <3>2. c <= m /\ (m = c => due = DueBefore(rows, due, i))
      BY <1>1, <1>2, <2>1, <3>1, FS_Subset
    <3>3. c \in Nat
      BY <1>2, <2>1, <3>1, FS_Subset, FS_CardinalityType
    <3> QED BY <1>2, <3>1, <3>2, <3>3
  <2>3. c + 1 \in 1..m
    BY <1>2, <2>2
  <2>4. \A l \in 1..m : nth[l] = i => l = c + 1
    BY <1>6, <2>1, <2>2
  <2>5. nth[c + 1] = i
    <3>1. PICK j \in due : j = nth[c + 1] /\ Cardinality(DueBefore(rows, due, j)) = c
      BY <1>6, <2>2, <2>3
    <3>2. ~SpentBefore(rows, i, j)
      <4> SUFFICES ASSUME SpentBefore(rows, i, j) PROVE FALSE
        OBVIOUS
      <4>1. c < Cardinality(DueBefore(rows, due, j))
        BY <2>1, PlacesDiffer
      <4> QED BY <2>2, <3>1, <4>1
    <3>3. ~SpentBefore(rows, j, i)
      <4> SUFFICES ASSUME SpentBefore(rows, j, i) PROVE FALSE
        OBVIOUS
      <4>1. Cardinality(DueBefore(rows, due, j)) < c
        BY <2>1, PlacesDiffer
      <4> QED BY <2>2, <3>1, <4>1
    <3> QED BY <1>2, <3>1, <3>2, <3>3, SpentInOrder
  <2> QED BY <2>3, <2>4, <2>5
<1> QED BY <1>1, <1>5, <1>6, <1>7

\* The row of an expiry.
LEMMA ExpireRowIsRow ==
    ASSUME NEW rows \in Seq(Row), NEW i \in Batches(rows)
    PROVE  /\ ExpireRow(rows, i) \in Row
           /\ ExpireRow(rows, i).kind = "expire" /\ ExpireRow(rows, i).source = i
           /\ ExpireRow(rows, i).expires = NoTerm
           /\ ExpireRow(rows, i).delta = -Remaining(rows)[i]
           /\ ExpireRow(rows, i).nth = 1 + Cardinality(ExpiriesOf(rows, i))
<1>1. Remaining(rows)[i] \in Nat /\ i \in DOMAIN rows /\ DOMAIN rows = 1..Len(rows)
      /\ IsFiniteSet(DOMAIN rows)
  BY RemainingIs, RowsOfLedger DEF Batches
<1>2. Cardinality(ExpiriesOf(rows, i)) \in Nat
  <2>1. IsFiniteSet(ExpiriesOf(rows, i))
    BY <1>1, FS_Subset DEF ExpiriesOf
  <2> QED BY <2>1, FS_CardinalityType
<1> QED BY <1>1, <1>2 DEF ExpireRow, Row, Kinds, NoTerm

\* The rows of a run take what was left of the due batches.
LEMMA ExpireRowsTake ==
    ASSUME NEW rows \in Seq(Row), NEW due \in SUBSET Batches(rows)
    PROVE  /\ ExpireRows(rows, due) \in Seq(Row)
           /\ Len(ExpireRows(rows, due)) = Cardinality(due)
           /\ \A k \in DOMAIN ExpireRows(rows, due) :
                 \E i \in due : ExpireRows(rows, due)[k] = ExpireRow(rows, i)
           /\ \A k, l \in DOMAIN ExpireRows(rows, due) :
                 ExpireRows(rows, due)[k].source = ExpireRows(rows, due)[l].source => k = l
           /\ Balance(ExpireRows(rows, due)) = -SumOver(Len(rows), due, Remaining(rows))
<1>1. PICK m, n, new, left : m = Cardinality(due) /\ n = Len(rows)
                             /\ new = ExpireRows(rows, due) /\ left = Remaining(rows)
  OBVIOUS
<1>2. /\ m \in Nat /\ n \in Nat /\ due \in SUBSET (1..n) /\ \A i \in due : i \in Batches(rows)
      /\ \A i \in due : left[i] \in Nat
  BY <1>1, EveryPlaceIsTaken, RowsOfLedger, RemainingIs DEF Batches
<1>3. PICK nth :
             /\ new = [k \in 1..m |-> ExpireRow(rows, nth[k])]
             /\ \A k \in 1..m : nth[k] \in due
             /\ \A i \in due : \E k \in 1..m : nth[k] = i /\ \A l \in 1..m : nth[l] = i => l = k
  BY <1>1, OneRowEach
<1>4. ASSUME NEW k \in 1..m
      PROVE  /\ new[k] = ExpireRow(rows, nth[k]) /\ nth[k] \in due
             /\ new[k] \in Row /\ new[k].source = nth[k] /\ new[k].delta = -left[nth[k]]
  <2>1. PICK i \in due : i = nth[k] /\ new[k] = ExpireRow(rows, i)
    BY <1>3
  <2>2. i \in Batches(rows)
    BY <1>2
  <2>3. /\ ExpireRow(rows, i) \in Row /\ ExpireRow(rows, i).source = i
        /\ ExpireRow(rows, i).delta = -Remaining(rows)[i]
    BY <2>2, ExpireRowIsRow
  <2> QED BY <1>1, <2>1, <2>3
<1>5. new \in Seq(Row) /\ Len(new) = m /\ DOMAIN new = 1..m
  BY <1>2, <1>3, <1>4
<1>6. \A k, l \in 1..m : new[k].source = new[l].source => k = l
  BY <1>3, <1>4
<1>7. Balance(new) = -SumOver(n, due, left)
  <2>1. PICK v, own, sums : v = [k \in 1..m |-> new[k].delta] /\ own = nth
                            /\ sums = Groups(m, 1..m, own, due, v)
    OBVIOUS
  <2>2. SumOver(m, 1..m, v) = SumOver(n, due, sums)
    <3>1. ASSUME NEW k \in 1..m PROVE v[k] \in Int
      <4>1. new[k].delta = -left[nth[k]] /\ nth[k] \in due
        BY <1>4
      <4>2. PICK p : p = left[nth[k]]
        OBVIOUS
      <4>3. p \in Nat
        BY <1>2, <4>1, <4>2
      <4> QED BY <2>1, <4>1, <4>2, <4>3
    <3>2. \A k \in 1..m : own[k] \in due
      BY <1>4, <2>1
    <3>3. PICK S : S = 1..m
      OBVIOUS
    <3> QED BY <1>2, <2>1, <3>1, <3>2, <3>3, SumByGroups
  <2>3. ASSUME NEW i \in due PROVE sums[i] = -left[i]
    <3>1. PICK k \in 1..m : nth[k] = i /\ \A l \in 1..m : nth[l] = i => l = k
      BY <1>3
    <3>2. Group(1..m, own, i) = {k}
      BY <2>1, <3>1 DEF Group
    <3>3. v[k] = -left[i] /\ v[k] \in Int
      BY <1>2, <1>4, <2>1, <3>1
    <3>4. SumOver(m, {k}, v) = v[k]
      BY <1>2, <3>1, <3>3, SumOfSingle
    <3>5. sums[i] = SumOver(m, Group(1..m, own, i), v)
      BY <2>1 DEF Groups
    <3> QED BY <3>2, <3>3, <3>4, <3>5
  <2>4. PICK zero : zero = [i \in due |-> 0]
    OBVIOUS
  <2>5. \A k \in 1..n : Term(k, due, left) \in Int /\ Term(k, due, sums) \in Int
                        /\ Term(k, due, zero) = Term(k, due, sums) + Term(k, due, left)
    BY <1>2, <2>3, <2>4 DEF Term
  <2>6. SumOver(n, due, zero) = SumOver(n, due, sums) + SumOver(n, due, left)
    BY <1>2, <2>5, SumOfSums
  <2>7. SumOver(n, due, zero) = 0
    BY <1>2, <2>4, SumOfNothing
  <2>8. SumOver(n, due, sums) \in Int /\ SumOver(n, due, left) \in Int
    <3>1. \A k \in 1..n : k \in due => sums[k] \in Int
      BY <1>2, <2>3
    <3>2. \A k \in 1..n : k \in due => left[k] \in Int
      BY <1>2
    <3> QED BY <1>2, <3>1, <3>2, SumOverIsInt
  <2>9. Balance(new) = SumOver(m, 1..m, v)
    BY <1>5, <2>1 DEF Balance, Delta
  <2> QED BY <2>2, <2>6, <2>7, <2>8, <2>9
<1>8. ASSUME NEW k \in DOMAIN new PROVE \E i \in due : new[k] = ExpireRow(rows, i)
  BY <1>4, <1>5
<1>9. \A k, l \in DOMAIN new : new[k].source = new[l].source => k = l
  BY <1>5, <1>6
<1> QED BY <1>1, <1>5, <1>7, <1>8, <1>9, Zenon

(***************************************************************************)
(* A ledger grows at its end.                                              *)
(***************************************************************************)
LEMMA Appended ==
    ASSUME NEW rows \in Seq(Row), NEW new \in Seq(Row), NEW all, all = rows \o new
    PROVE  /\ all \in Seq(Row) /\ Len(all) = Len(rows) + Len(new) /\ DOMAIN all = 1..Len(all)
           /\ Len(rows) \in Nat /\ DOMAIN rows = 1..Len(rows)
           /\ Len(new) \in Nat /\ DOMAIN new = 1..Len(new)
           /\ \A k \in DOMAIN rows : k \in DOMAIN all /\ all[k] = rows[k]
           /\ \A k \in DOMAIN new : Len(rows) + k \in DOMAIN all /\ all[Len(rows) + k] = new[k]
           /\ \A k \in DOMAIN all :
                 \/ k \in DOMAIN rows
                 \/ k \notin DOMAIN rows /\ k - Len(rows) \in DOMAIN new
                    /\ all[k] = new[k - Len(rows)]
<1>1. /\ all \in Seq(Row) /\ Len(all) = Len(rows) + Len(new)
      /\ Len(rows) \in Nat /\ Len(new) \in Nat /\ Len(all) \in Nat
  OBVIOUS
<1>2. DOMAIN all = 1..Len(all) /\ DOMAIN rows = 1..Len(rows) /\ DOMAIN new = 1..Len(new)
  BY <1>1
<1>3. \A k \in 1..Len(all) : all[k] = IF k <= Len(rows) THEN rows[k] ELSE new[k - Len(rows)]
  BY <1>1
<1>4. \A k \in DOMAIN rows : k \in DOMAIN all /\ all[k] = rows[k]
  BY <1>1, <1>2, <1>3
<1>5. ASSUME NEW k \in DOMAIN new
      PROVE  Len(rows) + k \in DOMAIN all /\ all[Len(rows) + k] = new[k]
  <2>1. PICK j : j = Len(rows) + k
    OBVIOUS
  <2>2. j \in 1..Len(all) /\ ~(j <= Len(rows)) /\ j - Len(rows) = k
    BY <1>1, <1>2, <2>1
  <2>3. all[j] = new[k]
    BY <1>3, <2>2
  <2> QED BY <1>2, <2>1, <2>2, <2>3
<1>6. ASSUME NEW k \in DOMAIN all, k \notin DOMAIN rows
      PROVE  k - Len(rows) \in DOMAIN new /\ all[k] = new[k - Len(rows)]
  BY <1>1, <1>2, <1>3, <1>6
<1> QED BY <1>1, <1>2, <1>4, <1>5, <1>6

\* What rows of the old ledger add up to.
LEMMA DeltaOfOld ==
    ASSUME NEW rows \in Seq(Row), NEW new \in Seq(Row), NEW all, all = rows \o new,
           NEW S \in SUBSET DOMAIN rows
    PROVE  Delta(all, S) = Delta(rows, S)
<1>1. PICK n, v, w : n = Len(rows) /\ v = [k \in S |-> rows[k].delta] /\ w = [k \in S |-> all[k].delta]
  OBVIOUS
<1>2. /\ n \in Nat /\ S \in SUBSET (1..n) /\ Len(all) \in Nat /\ n <= Len(all)
      /\ \A k \in S : all[k] = rows[k] /\ rows[k].delta \in Int
  BY <1>1, Appended, RowsOfLedger
<1>3. \A k \in 1..n : (k \in S <=> k \in S) /\ (k \in S => w[k] = v[k])
  BY <1>1, <1>2
<1>4. SumOver(n, S, w) = SumOver(n, S, v)
  BY <1>2, <1>3, SumOfTheSame
<1>5. SumOver(n, S, w) \in Int
  <2>1. \A k \in 1..n : k \in S => w[k] \in Int
    BY <1>1, <1>2
  <2> QED BY <1>2, <2>1, SumOverIsInt
<1>6. SumOver(Len(all), S, w) = SumOver(n, S, w)
  <2>1. \A k \in (n + 1)..Len(all) : k \in S => w[k] = 0
    BY <1>2
  <2> QED BY <1>2, <1>5, <2>1, SumOfFewer
<1> QED BY <1>1, <1>4, <1>6 DEF Delta

\* The new rows add to the balance what they add up to.
LEMMA BalanceOfAppended ==
    ASSUME NEW rows \in Seq(Row), NEW new \in Seq(Row), NEW all, all = rows \o new
    PROVE  Balance(all) = Balance(rows) + Balance(new)
<1>1. PICK n, m, A, M, w, v : /\ n = Len(rows) /\ m = Len(new) /\ A = DOMAIN all /\ M = DOMAIN new
                              /\ w = [k \in A |-> all[k].delta] /\ v = [k \in M |-> new[k].delta]
  OBVIOUS
<1>2. /\ n \in Nat /\ m \in Nat /\ Len(all) = n + m /\ A = 1..(n + m) /\ M = 1..m
      /\ \A k \in M : n + k \in A /\ all[n + k] = new[k] /\ new[k].delta \in Int
      /\ Balance(rows) \in Int
  <2>1. Balance(rows) \in Int
    BY DeltaIsInt DEF Balance
  <2> QED BY <1>1, <2>1, Appended, RowsOfLedger
<1> DEFINE G == {j \in Nat : j <= m => /\ SumOver(j, M, v) \in Int
                                       /\ SumOver(n + j, A, w) = Balance(rows) + SumOver(j, M, v)}
<1>3. 0 \in G
  <2>1. SumOver(0, M, v) = 0
    BY SumOfNoRows
  <2>2. PICK u, D : D = DOMAIN rows /\ u = [k \in D |-> rows[k].delta]
    OBVIOUS
  <2>3. \A k \in 1..n : (k \in A <=> k \in D) /\ (k \in A => w[k] = u[k])
    BY <1>1, <1>2, <2>2, Appended
  <2>7. n \in Nat
    BY <1>2
  <2>4. SumOver(n, A, w) = SumOver(n, D, u)
    BY ONLY <2>3, <2>7, SumOfTheSame
  <2>5. SumOver(n, A, w) = Balance(rows)
    BY <1>1, <2>2, <2>4 DEF Balance, Delta
  <2>6. n + 0 = n
    BY <1>2
  <2> QED BY <1>2, <2>1, <2>5, <2>6
<1>4. ASSUME NEW j \in Nat, j \in G PROVE j + 1 \in G
  <2> SUFFICES ASSUME j + 1 <= m
               PROVE  /\ SumOver(j + 1, M, v) \in Int
                      /\ SumOver(n + (j + 1), A, w) = Balance(rows) + SumOver(j + 1, M, v)
    OBVIOUS
  <2>1. SumOver(j, M, v) \in Int /\ SumOver(n + j, A, w) = Balance(rows) + SumOver(j, M, v)
    BY <1>2, <1>4
  <2>2. PICK p, q : p = n + j /\ q = j + 1
    OBVIOUS
  <2>3. p \in Nat /\ q \in M /\ n + q = p + 1 /\ p + 1 \in A
    BY <1>2, <2>2
  <2>4. SumOver(p + 1, A, w) = SumOver(p, A, w) + Term(p + 1, A, w)
    BY <2>3, SumOfNext
  <2>5. SumOver(j + 1, M, v) = SumOver(j, M, v) + Term(j + 1, M, v)
    BY SumOfNext
  <2>6. Term(p + 1, A, w) = new[q].delta /\ Term(q, M, v) = new[q].delta /\ new[q].delta \in Int
    <3>1. all[p + 1] = new[q] /\ new[q].delta \in Int
      BY <1>2, <2>3
    <3> QED BY <1>1, <2>3, <3>1 DEF Term
  <2>7. SumOver(n + (j + 1), A, w) = SumOver(p + 1, A, w)
    BY <2>2, <2>3
  <2> QED BY <1>2, <2>1, <2>2, <2>4, <2>5, <2>6, <2>7
<1> HIDE DEF G
<1>5. m \in G
  <2>1. \A j \in Nat : j \in G => j + 1 \in G
    BY <1>4
  <2> QED BY <1>2, <1>3, <2>1, CountingUp
<1>6. SumOver(n + m, A, w) = Balance(rows) + SumOver(m, M, v)
  BY <1>2, <1>5 DEF G
<1> QED BY <1>1, <1>2, <1>6 DEF Balance, Delta

\* What rows before row k a row fits does not change with later rows.
LEMMA FitsLooksBack ==
    ASSUME NEW rows \in Seq(Row), NEW new \in Seq(Row), NEW all, all = rows \o new,
           NEW k \in DOMAIN rows, Fits(rows, k)
    PROVE  Fits(all, k)
<1>1. /\ Len(rows) \in Nat /\ k \in 1..Len(rows)
      /\ \A i \in 1..Len(rows) : all[i] = rows[i]
  BY Appended
<1>2. \A i \in 1..k : all[i] = rows[i] /\ i \in Nat
  BY <1>1
<1>3. \A kind, source : Earlier(all, k, kind, source) = Earlier(rows, k, kind, source)
  BY <1>1, <1>2 DEF Earlier
<1>4. all[k] = rows[k]
  BY <1>1
<1>5. \A i \in 1..(k - 1) : Undoes(rows, k, i) => Undoes(all, k, i)
  <2> SUFFICES ASSUME NEW i \in 1..(k - 1), Undoes(rows, k, i) PROVE Undoes(all, k, i)
    OBVIOUS
  <2>1. all[i] = rows[i]
    BY <1>1
  <2>2. \A c \in Earlier(rows, k, "correction", i) : all[c] = rows[c]
    BY <1>1 DEF Earlier
  <2>3. /\ i \in Earlier(all, k, "task_consumption", all[k].source)
        /\ \A m \in Earlier(all, k, "task_reversal", all[k].source) : m < i
    BY <1>3, <1>4 DEF Undoes
  <2>4. \/ Earlier(all, k, "correction", i) = {} /\ all[k].delta = -all[i].delta
        \/ \E c \in Earlier(all, k, "correction", i) : all[k].delta = -(all[i].delta + all[c].delta)
    BY <1>3, <1>4, <2>1, <2>2 DEF Undoes
  <2> QED BY <2>3, <2>4 DEF Undoes
<1>6. \A i : Corrects(rows, k, i) => Corrects(all, k, i)
  <2> SUFFICES ASSUME NEW i, Corrects(rows, k, i) PROVE Corrects(all, k, i)
    OBVIOUS
  <2>1. i \in 1..(k - 1) /\ all[i] = rows[i]
    BY <1>1 DEF Corrects
  <2> QED BY <1>3, <1>4, <2>1 DEF Corrects
<1>7. \A i \in 1..(k - 1) : Withdraws(rows, k, i) => Withdraws(all, k, i)
  BY <1>1, <1>4 DEF Withdraws
<1> QED BY <1>3, <1>4, <1>5, <1>6, <1>7 DEF Fits

\* A ledger whose new rows fit fits together.
LEMMA AppendedFits ==
    ASSUME NEW rows \in Seq(Row), NEW new \in Seq(Row), NEW all, all = rows \o new, AllFit(rows),
           \A k \in DOMAIN all : k \notin DOMAIN rows => Fits(all, k)
    PROVE  AllFit(all)
BY FitsLooksBack DEF AllFit

(***************************************************************************)
(* Types.                                                                  *)
(***************************************************************************)
Sources == Invoices \union Tasks \union Nat

\* An entry is a row.
LEMMA EntryIsRow ==
    ASSUME NEW kind \in Kinds, NEW delta \in Int, NEW source \in Sources, NEW expires \in Nat
    PROVE  /\ Entry(kind, delta, source, expires) \in Row
           /\ Entry(kind, delta, source, expires).kind = kind
           /\ Entry(kind, delta, source, expires).delta = delta
           /\ Entry(kind, delta, source, expires).source = source
           /\ Entry(kind, delta, source, expires).expires = expires
BY DEF Entry, Row, Sources

\* A set of rows has a newest.
LEMMA NewestIs ==
    ASSUME NEW n \in Nat, NEW S \in SUBSET (1..n), S # {}
    PROVE  Newest(S) \in S /\ \A k \in S : k <= Newest(S)
<1> DEFINE G == {m \in Nat : \A T \in SUBSET (1..m) :
                               T # {} => \E i \in T : \A k \in T : k <= i}
<1>1. 0 \in G
  <2>1. ASSUME NEW T \in SUBSET (1..0), T # {} PROVE FALSE
    <3>1. PICK k \in T : TRUE
      BY <2>1
    <3> QED BY <3>1
  <2> QED BY <2>1
<1>2. ASSUME NEW m \in Nat, m \in G PROVE m + 1 \in G
  <2> SUFFICES ASSUME NEW T \in SUBSET (1..(m + 1)), T # {}
               PROVE  \E i \in T : \A k \in T : k <= i
    OBVIOUS
  <2>1. CASE m + 1 \in T
    BY <2>1
  <2>2. CASE m + 1 \notin T
    <3>1. T \in SUBSET (1..m)
      BY <2>2
    <3> QED BY <1>2, <3>1
  <2> QED BY <2>1, <2>2
<1>3. n \in G
  <2> HIDE DEF G
  <2>1. \A m \in Nat : m \in G => m + 1 \in G
    BY <1>2
  <2> QED BY <1>1, <2>1, CountingUp
<1>4. \E i \in S : \A k \in S : k <= i
  BY <1>3
<1> QED BY <1>4 DEF Newest

\* And an oldest.
LEMMA OldestIs ==
    ASSUME NEW n \in Nat, NEW S \in SUBSET (1..n), S # {}
    PROVE  \E i \in S : \A k \in S : i <= k
<1>1. PICK R : R = {(n + 1) - k : k \in S}
  OBVIOUS
<1>2. R \in SUBSET (1..n) /\ R # {}
  <2>1. \A k \in S : (n + 1) - k \in 1..n
    OBVIOUS
  <2> QED BY <1>1, <2>1
<1>3. PICK r \in R : \A q \in R : q <= r
  BY <1>2, NewestIs
<1>4. PICK i \in S : r = (n + 1) - i
  BY <1>1, <1>3
<1>5. ASSUME NEW k \in S PROVE i <= k
  <2>1. (n + 1) - k \in R
    BY <1>1
  <2>2. (n + 1) - k <= (n + 1) - i
    BY <1>3, <1>4, <2>1
  <2>3. i \in Nat /\ k \in Nat
    OBVIOUS
  <2> QED BY <2>2, <2>3
<1> QED BY <1>5

\* A row with its correction is minutes.
LEMMA NetIsInt ==
    ASSUME ledger \in Seq(Row), NEW i \in DOMAIN ledger
    PROVE  NetOfCorrections(i) \in Int
<1>1. CorrectionsOf(ledger, i) # {} =>
         (CHOOSE k \in CorrectionsOf(ledger, i) : TRUE) \in DOMAIN ledger
  BY DEF CorrectionsOf
<1>2. \A k \in DOMAIN ledger : ledger[k].delta \in Int
  BY RowsOfLedger
<1> QED BY <1>1, <1>2 DEF NetOfCorrections

\* What appending short sequences gives.
LEMMA Joined ==
    ASSUME NEW S, NEW a \in S, NEW b \in S, NEW c \in S
    PROVE  /\ <<>> \o <<a>> = <<a>> /\ <<a>> \o <<>> = <<a>> /\ <<a>> \o <<b>> = <<a, b>>
           /\ <<a, b>> \o <<>> = <<a, b>> /\ <<a, b>> \o <<c>> = <<a, b, c>>
           /\ <<>> \o <<>> = <<>>
<1>1. <<>> \o <<a>> = <<a>> 
  OBVIOUS
<1>2. <<a>> \o <<>> = <<a>> 
  OBVIOUS
<1>3. <<a>> \o <<b>> = <<a, b>>
  <2>1. PICK p, q : p = <<a>> \o <<b>> /\ q = <<a, b>>
    OBVIOUS
  <2>2. p \in Seq(S) /\ q \in Seq(S) /\ Len(p) = 2 /\ Len(q) = 2 /\ p[1] = a /\ p[2] = b
        /\ q[1] = a /\ q[2] = b
    BY <2>1
  <2>3. \A i \in 1..2 : p[i] = q[i]
    BY <2>2
  <2>4. p = q
    BY <2>2, <2>3, SeqEqual
  <2> QED BY <2>1, <2>4
<1>4. <<a, b>> \o <<>> = <<a, b>>
  OBVIOUS
<1>5. <<a, b>> \o <<c>> = <<a, b, c>>
  <2>1. PICK p, q : p = <<a, b>> \o <<c>> /\ q = <<a, b, c>>
    OBVIOUS
  <2>2. p \in Seq(S) /\ q \in Seq(S) /\ Len(p) = 3 /\ Len(q) = 3 /\ p[1] = a /\ p[2] = b
        /\ p[3] = c /\ q[1] = a /\ q[2] = b /\ q[3] = c
    BY <2>1
  <2>3. \A i \in 1..3 : p[i] = q[i]
    BY <2>2
  <2>4. p = q
    BY <2>2, <2>3, SeqEqual
  <2> QED BY <2>1, <2>4
<1>6. <<>> \o <<>> = <<>>
  OBVIOUS
<1> QED BY <1>1, <1>2, <1>3, <1>4, <1>5, <1>6

(***************************************************************************)
(* The rows of a settlement and of its undoing.                            *)
(***************************************************************************)
\* The rows: what the credit paid, the trace of the overage, the rest of the last block.
Consumes(t, minutes) == Entry("task_consumption", -minutes, t, NoTerm)
Traces(t) == Entry("overage_invoiced", 0, t, NoTerm)
Keeps(kept, trace, term) == Entry("purchase", kept, trace, term)

SettlementForm(new, n, t, minutes, kept, term) ==
    \/ new = <<Consumes(t, minutes)>>
    \/ new = <<Traces(t)>>
    \/ new = <<Traces(t), Keeps(kept, n + 1, term)>>
    \/ new = <<Consumes(t, minutes), Traces(t)>>
    \/ new = <<Consumes(t, minutes), Traces(t), Keeps(kept, n + 2, term)>>

\* A settlement writes one of five forms.
LEMMA SettlementRowsAre ==
    ASSUME ledger \in Seq(Row), rule.days \in Nat, today \in Nat, NEW t \in Tasks,
           NEW actual \in Actuals, balance \in Int,
           NEW new, new = SettlementRows(t, Split(actual, balance))
    PROVE  \E minutes \in Nat \ {0}, kept \in Nat \ {0}, term \in Nat :
              /\ SettlementForm(new, Len(ledger), t, minutes, kept, term)
              /\ Consumes(t, minutes) \in Row /\ Traces(t) \in Row
              /\ Keeps(kept, Len(ledger) + 1, term) \in Row /\ Keeps(kept, Len(ledger) + 2, term) \in Row
<1>1. PICK s, n, term, minutes, kept :
         /\ s = Split(actual, balance) /\ term = TermFrom(today, rule.days) /\ n = Len(ledger)
         /\ minutes = (IF s.consumed = 0 THEN 1 ELSE s.consumed)
         /\ kept = (IF s.surplus = 0 THEN 1 ELSE s.surplus)
  OBVIOUS
<1>2. /\ s.consumed \in Nat /\ s.overage \in Nat /\ s.surplus \in Nat
      /\ s.consumed + s.overage > 0 /\ (s.overage = 0 => s.surplus = 0)
  <2>1. actual \in Nat /\ actual > 0
    BY HourLedgerAssumption
  <2>2. CeilToStep(actual) >= actual
    BY <2>1, StepAssumption, RoundUpBounds DEF CeilToStep
  <2>3. CeilToStep(actual) \in Nat
    BY <2>1, StepAssumption, RoundUpBounds DEF CeilToStep
  <2> QED BY <1>1, <2>1, <2>2, <2>3, SplitIsExact
<1>3. minutes \in Nat \ {0} /\ kept \in Nat \ {0} /\ term \in Nat /\ n \in Nat
  BY <1>1, <1>2 DEF TermFrom, NoTerm
<1>4. PICK c, o, p1, p2 : /\ c = Consumes(t, minutes) /\ o = Traces(t)
                          /\ p1 = Keeps(kept, n + 1, term) /\ p2 = Keeps(kept, n + 2, term)
  OBVIOUS
<1>5. c \in Row /\ o \in Row /\ p1 \in Row /\ p2 \in Row
  <2>1. -minutes \in Int /\ kept \in Int /\ 0 \in Int
    BY <1>3
  <2>2. t \in Sources /\ n + 1 \in Sources /\ n + 2 \in Sources /\ NoTerm \in Nat
    BY <1>3 DEF Sources, NoTerm
  <2>3. "task_consumption" \in Kinds /\ "overage_invoiced" \in Kinds /\ "purchase" \in Kinds
    BY DEF Kinds
  <2>4. c \in Row /\ o \in Row
    BY <1>4, <2>1, <2>2, <2>3, EntryIsRow DEF Consumes, Traces
  <2>5. p1 \in Row /\ p2 \in Row
    BY <1>3, <1>4, <2>1, <2>2, <2>3, EntryIsRow DEF Keeps
  <2> QED BY <2>4, <2>5
<1>6. /\ <<>> \o <<o>> = <<o>> /\ <<o>> \o <<>> = <<o>> /\ <<o>> \o <<p1>> = <<o, p1>>
      /\ <<c>> \o <<>> = <<c>> /\ <<c>> \o <<o>> = <<c, o>> /\ <<c, o>> \o <<>> = <<c, o>>
      /\ <<c, o>> \o <<p2>> = <<c, o, p2>>
  BY <1>5, Joined
<1>7. s.consumed # 0 => minutes = s.consumed
  BY <1>1
<1>8. s.surplus # 0 => kept = s.surplus
  BY <1>1
<1>9. SettlementForm(new, n, t, minutes, kept, term)
  <2>1. PICK a : a = IF s.consumed = 0 THEN <<>> ELSE <<Entry("task_consumption", -s.consumed, t, NoTerm)>>
    OBVIOUS
  <2>2. new = a \o (IF s.overage = 0 THEN <<>> ELSE <<o>>)
                \o (IF s.surplus = 0 THEN <<>>
                    ELSE <<Entry("purchase", s.surplus, n + Len(a) + 1, term)>>)
    BY <1>1, <1>4, <2>1 DEF SettlementRows, Traces
  <2>3. CASE s.consumed = 0
    <3>1. a = <<>> /\ n + Len(a) + 1 = n + 1 /\ s.overage # 0
      BY <1>2, <1>3, <2>1, <2>3
    <3>2. new = <<o>> \o (IF s.surplus = 0 THEN <<>> ELSE <<p1>>)
      BY <1>4, <1>6, <1>8, <2>2, <3>1 DEF Keeps
    <3>3. new = <<o>> \/ new = <<o, p1>>
      BY <1>6, <3>2
    <3> QED BY <1>4, <3>3 DEF SettlementForm
  <2>4. CASE s.consumed # 0
    <3>1. a = <<c>> /\ n + Len(a) + 1 = n + 2
      <4>1. a = <<c>>
        BY <1>4, <1>7, <2>1, <2>4 DEF Consumes
      <4> QED BY <1>3, <4>1
    <3>2. new = <<c>> \o (IF s.overage = 0 THEN <<>> ELSE <<o>>)
                \o (IF s.surplus = 0 THEN <<>> ELSE <<p2>>)
      BY <1>4, <1>8, <2>2, <3>1 DEF Keeps
    <3>3. new = <<c>> \/ new = <<c, o>> \/ new = <<c, o, p2>>
      BY <1>2, <1>6, <3>2
    <3> QED BY <1>4, <3>3 DEF SettlementForm
  <2> QED BY <2>3, <2>4
<1> QED BY <1>1, <1>3, <1>4, <1>5, <1>9

\* What undoing a settlement writes: the consumption given back, the surplus withdrawn.
GivesBack(t, minutes) == Entry("task_reversal", minutes, t, NoTerm)
TakesSurplus(i) == Entry("purchase_reversal", -SurplusWithdrawn(i), ledger[i].source, NoTerm)

UndoForm(new, t, cycle) ==
    \/ new = <<>> /\ ~(GivenBack(t, cycle) > 0)
    \/ new = <<GivesBack(t, GivenBack(t, cycle))>> /\ GivenBack(t, cycle) > 0
    \/ \E i \in SurplusOf(t, cycle) :
          /\ SurplusWithdrawn(i) > 0
          /\ \/ new = <<TakesSurplus(i)>> /\ ~(GivenBack(t, cycle) > 0)
             \/ new = <<GivesBack(t, GivenBack(t, cycle)), TakesSurplus(i)>>
                /\ GivenBack(t, cycle) > 0

\* A reopen writes one of three forms.
LEMMA UndoRowsAre ==
    ASSUME ledger \in Seq(Row), NEW t \in Tasks, NEW cycle \in Nat,
           NEW new, new = UndoRows(t, cycle)
    PROVE  /\ UndoForm(new, t, cycle) /\ GivenBack(t, cycle) \in Int
           /\ GivesBack(t, GivenBack(t, cycle)) \in Row
           /\ \A i \in SurplusOf(t, cycle) : /\ i \in DOMAIN ledger /\ SurplusWithdrawn(i) \in Int
                                             /\ TakesSurplus(i) \in Row
<1>1. PICK g, S, E : /\ g = GivenBack(t, cycle)
                     /\ S = {i \in SurplusOf(t, cycle) : SurplusWithdrawn(i) > 0}
                     /\ E = {TakesSurplus(i) : i \in S}
  OBVIOUS
<1>2. g \in Int
  <2>1. PICK C : C = RowsOfCycle("task_consumption", t, cycle)
    OBVIOUS
  <2>2. C \in SUBSET (1..Len(ledger)) /\ Len(ledger) \in Nat
    BY <2>1, RowsOfLedger DEF RowsOfCycle
  <2>3. CASE C = {}
    BY <1>1, <2>1, <2>3 DEF GivenBack
  <2>4. CASE C # {}
    <3>1. Newest(C) \in DOMAIN ledger
      BY <2>2, <2>4, NewestIs, RowsOfLedger
    <3>2. NetOfCorrections(Newest(C)) \in Int
      BY <3>1, NetIsInt
    <3>3. g = -NetOfCorrections(Newest(C))
      BY <1>1, <2>1, <2>4 DEF GivenBack
    <3> QED BY <3>2, <3>3
  <2> QED BY <2>3, <2>4
<1>3. ASSUME NEW i \in SurplusOf(t, cycle)
      PROVE  i \in DOMAIN ledger /\ SurplusWithdrawn(i) \in Int /\ TakesSurplus(i) \in Row
  <2>1. i \in DOMAIN ledger
    BY DEF SurplusOf
  <2>2. ExpiriesOf(ledger, i) \in SUBSET DOMAIN ledger
    BY DEF ExpiriesOf
  <2>3. NetOfCorrections(i) \in Int /\ Delta(ledger, ExpiriesOf(ledger, i)) \in Int
    BY <2>1, <2>2, NetIsInt, DeltaIsInt
  <2>4. SurplusWithdrawn(i) \in Int
    BY <2>3 DEF SurplusWithdrawn
  <2>5. ledger[i].source \in Sources /\ NoTerm \in Nat /\ "purchase_reversal" \in Kinds
    <3>1. PICK row \in Row : row = ledger[i]
      BY <2>1
    <3>2. row.source \in Invoices \union Tasks \union Nat
      BY DEF Row
    <3> QED BY <3>1, <3>2 DEF Sources, NoTerm, Kinds
  <2>6. -SurplusWithdrawn(i) \in Int
    BY <2>4
  <2> QED BY <2>1, <2>4, <2>5, <2>6, EntryIsRow DEF TakesSurplus
<1>4. GivesBack(t, g) \in Row
  <2>1. t \in Sources /\ NoTerm \in Nat /\ "task_reversal" \in Kinds
    BY DEF Sources, NoTerm, Kinds
  <2> QED BY <1>2, <2>1, EntryIsRow DEF GivesBack
<1>5. PICK a, b : /\ a = (IF g > 0 THEN <<GivesBack(t, g)>> ELSE <<>>)
                  /\ b = (IF E = {} THEN <<>> ELSE <<CHOOSE e \in E : TRUE>>)
  OBVIOUS
<1>6. new = a \o b
  BY <1>1, <1>5 DEF UndoRows, GivesBack, TakesSurplus
<1>7. CASE E = {}
  <2>1. b = <<>>
    BY <1>5, <1>7
  <2>2. new = a
    BY <1>4, <1>5, <1>6, <2>1, Joined
  <2> QED BY <1>1, <1>2, <1>3, <1>4, <1>5, <2>2 DEF UndoForm
<1>8. CASE E # {}
  <2>1. PICK i \in S : (CHOOSE e \in E : TRUE) = TakesSurplus(i)
    BY <1>1, <1>8
  <2>2. i \in SurplusOf(t, cycle) /\ SurplusWithdrawn(i) > 0 /\ TakesSurplus(i) \in Row
    BY <1>1, <1>3
  <2>3. new = a \o <<TakesSurplus(i)>>
    BY <1>5, <1>6, <1>8, <2>1
  <2>4. \/ g > 0 /\ new = <<GivesBack(t, g), TakesSurplus(i)>>
        \/ ~(g > 0) /\ new = <<TakesSurplus(i)>>
    BY <1>4, <1>5, <2>2, <2>3, Joined
  <2> QED BY <1>1, <1>2, <1>3, <1>4, <2>2, <2>4 DEF UndoForm
<1> QED BY <1>7, <1>8

(***************************************************************************)
(* Types.                                                                  *)
(***************************************************************************)
LedgerTyped ==
    /\ ledger \in Seq(Row) /\ \A i \in DOMAIN ledger : TermOnCreditOnly(ledger[i])
    /\ balance \in Int

\* Rows whose term is on credit only keep the ledger typed.
LEMMA InsertTyped ==
    ASSUME LedgerTyped, NEW new \in Seq(Row), \A k \in DOMAIN new : TermOnCreditOnly(new[k]),
           Insert(new)
    PROVE  LedgerTyped'
<1>1. ledger' = ledger \o new /\ ledger \in Seq(Row) /\ balance \in Int
      /\ balance' = balance + Balance(new)
  BY DEF LedgerTyped, Insert
<1>2. Balance(new) \in Int
  BY DeltaIsInt DEF Balance
<1>3. ledger' \in Seq(Row) /\ \A k \in DOMAIN ledger' : TermOnCreditOnly(ledger'[k])
  <2>1. PICK all : all = ledger \o new
    OBVIOUS
  <2>2. all \in Seq(Row) /\ \A k \in DOMAIN all : TermOnCreditOnly(all[k])
    BY <1>1, <2>1, Appended DEF LedgerTyped
  <2> QED BY <1>1, <2>1, <2>2
<1> QED BY <1>1, <1>2, <1>3 DEF LedgerTyped

\* So does one entry.
LEMMA EntryTyped ==
    ASSUME LedgerTyped, NEW kind \in Kinds, NEW delta \in Int, NEW source \in Sources,
           NEW expires \in Nat, expires # NoTerm => delta > 0, ApplyEntry(Entry(kind, delta, source, expires))
    PROVE  LedgerTyped'
<1>1. PICK row : row = Entry(kind, delta, source, expires)
  OBVIOUS
<1>2. row \in Row /\ TermOnCreditOnly(row)
  BY <1>1, EntryIsRow DEF TermOnCreditOnly
<1>3. CASE Violates(<<row>>)
  BY <1>1, <1>3 DEF ApplyEntry, LedgerTyped
<1>4. CASE ~Violates(<<row>>)
  <2>1. Insert(<<row>>)
    BY <1>1, <1>4 DEF ApplyEntry
  <2>2. <<row>> \in Seq(Row) /\ \A k \in DOMAIN <<row>> : TermOnCreditOnly(<<row>>[k])
    BY <1>2
  <2> QED BY <2>1, <2>2, InsertTyped
<1> QED BY <1>3, <1>4

\* What a request carries.
Requests ==
    {Idle}
    \union [pc : {"credit"}, invoice : Invoices, days : Terms]
    \union [pc : {"undo"}, task : Tasks, cycle : Nat]
    \union [pc : {"correct"}, row : Nat, minutes : Int]
    \union [pc : {"withdraw"}, invoice : Invoices, minutes : Nat]

\* A request that moves on stays one.
LEMMA RequestTyped ==
    ASSUME TypeOK, NEW w \in Workers, NEW r \in Requests, Goto(w, r)
    PROVE  req' \in [Workers -> Requests]
<1>1. req \in [Workers -> Requests]
  BY DEF TypeOK, Requests
<1> QED BY <1>1 DEF Goto

\* The initial state is typed.
LEMMA TypeInit == Init => TypeOK
<1> SUFFICES ASSUME Init PROVE TypeOK
  OBVIOUS
<1>1. ledger = <<>> /\ ledger \in Seq(Row) /\ \A i \in DOMAIN ledger : FALSE
  BY DEF Init
<1>2. rule \in [days : Terms, enabledAt : Nat]
  BY HourLedgerAssumption DEF Init, Never
<1> QED BY <1>1, <1>2 DEF Init, TypeOK

\* Every step keeps the types.
LEMMA TypeStep == TypeOK /\ [Next]_vars => TypeOK'
<1> SUFFICES ASSUME TypeOK, [Next]_vars PROVE TypeOK'
  OBVIOUS
<1>0. /\ LedgerTyped /\ ledger \in Seq(Row) /\ balance \in Int /\ today \in Nat
      /\ rule.days \in Terms /\ rule.days \in Nat /\ rule.enabledAt \in Nat
      /\ Terms \in SUBSET Nat /\ settledAt \in [Tasks -> Nat]
      /\ Len(ledger) \in Nat /\ DOMAIN ledger = 1..Len(ledger)
      /\ req \in [Workers -> Requests]
  <2>1. /\ rule.days \in Terms /\ rule.days \in Nat /\ rule.enabledAt \in Nat
        /\ Terms \in SUBSET Nat
    BY HourLedgerAssumption DEF TypeOK
  <2>2. LedgerTyped /\ ledger \in Seq(Row) /\ balance \in Int /\ today \in Nat
        /\ settledAt \in [Tasks -> Nat]
    BY DEF TypeOK, LedgerTyped
  <2>3. Len(ledger) \in Nat /\ DOMAIN ledger = 1..Len(ledger)
    BY <2>2, RowsOfLedger
  <2>4. req \in [Workers -> Requests]
    BY DEF TypeOK, Requests
  <2> QED BY <2>1, <2>2, <2>3, <2>4
<1> DEFINE Typed ==
      /\ LedgerTyped
      /\ invoice \in [Invoices -> {"paid", "cancelled"}]
      /\ settledAt \in [Tasks -> Nat]
      /\ rule \in [days : Terms, enabledAt : Nat]
      /\ today \in Nat
      /\ job \in {Idle} \union [pc : {"expire"}, now : Nat, notBefore : Nat]
      /\ req \in [Workers -> Requests]
<1>01. Typed
  BY <1>0 DEF TypeOK
<1> SUFFICES Typed'
  BY DEF TypeOK, LedgerTyped, Requests
<1>02. UNCHANGED <<ledger, balance>> => LedgerTyped'
  BY <1>0 DEF LedgerTyped
<1>03. \A d \in Nat : TermFrom(today, d) \in Nat
  BY <1>0 DEF TermFrom, NoTerm
<1>1. ASSUME NEW w \in Workers, NEW i \in Invoices, ReadPaidInvoice(w, i) PROVE Typed'
  <2>1. [pc |-> "credit", invoice |-> i, days |-> rule.days] \in Requests
    BY <1>0 DEF Requests
  <2> QED BY <1>01, <1>02, <1>1, <2>1, RequestTyped DEF ReadPaidInvoice
<1>2. ASSUME NEW w \in Workers, NEW i \in Invoices, ReadCancelled(w, i) PROVE Typed'
  <2>1. PICK k \in CreditOf(i) :
             /\ NetOfCorrections(k) > 0
             /\ Goto(w, [pc |-> "withdraw", invoice |-> i, minutes |-> NetOfCorrections(k)])
    BY <1>2 DEF ReadCancelled
  <2>2. NetOfCorrections(k) \in Int
    BY <1>0, NetIsInt DEF CreditOf
  <2>3. NetOfCorrections(k) \in Nat
    BY <2>1, <2>2
  <2>4. [pc |-> "withdraw", invoice |-> i, minutes |-> NetOfCorrections(k)] \in Requests
    BY <2>3 DEF Requests
  <2> QED BY <1>01, <1>02, <1>2, <2>1, <2>4, RequestTyped DEF ReadCancelled
<1>3. ASSUME NEW w \in Workers, NEW t \in Tasks, ReadSettlement(w, t) PROVE Typed'
  <2>1. [pc |-> "undo", task |-> t, cycle |-> settledAt[t]] \in Requests
    BY <1>0 DEF Requests
  <2> QED BY <1>01, <1>02, <1>3, <2>1, RequestTyped DEF ReadSettlement
<1>4. ASSUME NEW w \in Workers, NEW i \in DOMAIN ledger, NEW minutes \in Corrections,
             CheckCorrection(w, i, minutes)
      PROVE  Typed'
  <2>1. i \in Nat /\ minutes \in Int
    BY <1>0, HourLedgerAssumption
  <2>2. [pc |-> "correct", row |-> i, minutes |-> minutes] \in Requests
    BY <2>1 DEF Requests
  <2> QED BY <1>01, <1>02, <1>4, <2>2, RequestTyped DEF CheckCorrection
<1>5. \A w \in Workers : Goto(w, Idle) => req' \in [Workers -> Requests]
  <2>1. Idle \in Requests
    BY DEF Requests
  <2> QED BY <2>1, RequestTyped
<1>6. ASSUME NEW w \in Workers, CreditInvoice(w) PROVE Typed'
  <2>1. PICK r \in Requests : r = req[w] /\ r.pc = "credit"
    BY <1>0, <1>6 DEF CreditInvoice, At
  <2>2. r.invoice \in Invoices /\ r.days \in Terms
    BY <2>1 DEF Requests, Idle
  <2>3. Worth[r.invoice] \in Nat \ {0}
    BY <2>2, HourLedgerAssumption
  <2>4. Worth[r.invoice] \in Int /\ Worth[r.invoice] > 0 /\ r.invoice \in Sources
        /\ "invoice_credit" \in Kinds /\ TermFrom(today, r.days) \in Nat
    <3>1. TermFrom(today, r.days) \in Nat
      BY <1>0, <1>03, <2>2
    <3>2. r.invoice \in Sources /\ "invoice_credit" \in Kinds
      BY <2>2 DEF Sources, Kinds
    <3> QED BY <2>3, <3>1, <3>2
  <2>5. ApplyEntry(Entry("invoice_credit", Worth[r.invoice], r.invoice, TermFrom(today, r.days)))
    BY <1>6, <2>1 DEF CreditInvoice
  <2>6. LedgerTyped'
    BY <1>0, <2>4, <2>5, EntryTyped
  <2> QED BY <1>01, <1>5, <1>6, <2>6 DEF CreditInvoice
<1>7. ASSUME NEW w \in Workers, Undo(w) PROVE Typed'
  <2>1. PICK r \in Requests : r = req[w] /\ r.pc = "undo"
    BY <1>0, <1>7 DEF Undo, At
  <2>2. r.task \in Tasks /\ r.cycle \in Nat
    BY <2>1 DEF Requests, Idle
  <2>3. PICK new : new = UndoRows(r.task, r.cycle)
    OBVIOUS
  <2>4. CASE settledAt[r.task] # r.cycle \/ Violates(new)
    <3>1. UNCHANGED <<ledger, balance, settledAt>>
      BY <1>7, <2>1, <2>3, <2>4 DEF Undo
    <3> QED BY <1>01, <1>02, <1>5, <1>7, <3>1 DEF Undo
  <2>5. CASE ~(settledAt[r.task] # r.cycle \/ Violates(new))
    <3>1. Insert(new) /\ settledAt' = [settledAt EXCEPT ![r.task] = 0]
      BY <1>7, <2>1, <2>3, <2>5 DEF Undo
    <3>2. PICK g : g = GivesBack(r.task, GivenBack(r.task, r.cycle)) /\ g \in Row
                   /\ TermOnCreditOnly(g)
      <4>1. GivesBack(r.task, GivenBack(r.task, r.cycle)) \in Row
        BY <1>0, <2>2, <2>3, UndoRowsAre
      <4> QED BY <4>1 DEF GivesBack, Entry, TermOnCreditOnly, NoTerm
    <3>3. \A i \in SurplusOf(r.task, r.cycle) : TakesSurplus(i) \in Row /\ TermOnCreditOnly(TakesSurplus(i))
      <4>1. \A i \in SurplusOf(r.task, r.cycle) : TakesSurplus(i) \in Row
        BY <1>0, <2>2, <2>3, UndoRowsAre
      <4> QED BY <4>1 DEF TakesSurplus, Entry, TermOnCreditOnly, NoTerm
    <3>4. new \in Seq(Row) /\ \A k \in DOMAIN new : TermOnCreditOnly(new[k])
      <4>1. UndoForm(new, r.task, r.cycle)
        BY <1>0, <2>2, <2>3, UndoRowsAre
      <4>2. \/ new = <<>> \/ new = <<g>>
            \/ \E i \in SurplusOf(r.task, r.cycle) :
                  new = <<TakesSurplus(i)>> \/ new = <<g, TakesSurplus(i)>>
        BY <3>2, <4>1 DEF UndoForm
      <4>3. ASSUME NEW i \in SurplusOf(r.task, r.cycle), new = <<g, TakesSurplus(i)>>
            PROVE  new \in Seq(Row) /\ \A k \in DOMAIN new : TermOnCreditOnly(new[k])
        <5>1. PICK e \in Row : e = TakesSurplus(i) /\ TermOnCreditOnly(e)
          BY <3>3
        <5>2. new = <<g, e>> /\ new \in Seq(Row) /\ DOMAIN new = 1..2
          BY <3>2, <4>3, <5>1
        <5> QED BY <3>2, <5>1, <5>2
      <4>4. ASSUME NEW i \in SurplusOf(r.task, r.cycle), new = <<TakesSurplus(i)>>
            PROVE  new \in Seq(Row) /\ \A k \in DOMAIN new : TermOnCreditOnly(new[k])
        <5>1. PICK e \in Row : e = TakesSurplus(i) /\ TermOnCreditOnly(e)
          BY <3>3
        <5>2. new = <<e>> /\ new \in Seq(Row) /\ DOMAIN new = 1..1
          BY <4>4, <5>1
        <5> QED BY <5>1, <5>2
      <4>5. CASE new = <<>>
        BY <4>5
      <4>6. CASE new = <<g>>
        <5>1. new \in Seq(Row) /\ DOMAIN new = 1..1 /\ new[1] = g
          BY <3>2, <4>6
        <5> QED BY <3>2, <5>1
      <4> QED BY <4>2, <4>3, <4>4, <4>5, <4>6
    <3>5. LedgerTyped'
      BY <1>0, <3>1, <3>4, InsertTyped
    <3> QED BY <1>01, <1>0, <1>5, <1>7, <3>1, <3>5 DEF Undo
  <2> QED BY <2>4, <2>5
<1>8. ASSUME NEW w \in Workers, WriteCorrection(w) PROVE Typed'
  <2>1. PICK r \in Requests : r = req[w] /\ r.pc = "correct"
    BY <1>0, <1>8 DEF WriteCorrection, At
  <2>2. r.row \in Nat /\ r.minutes \in Int
    BY <2>1 DEF Requests, Idle
  <2>3. r.row \in Sources /\ "correction" \in Kinds /\ NoTerm \in Nat
    BY <2>2 DEF Sources, Kinds, NoTerm
  <2>4. ApplyEntry(Entry("correction", r.minutes, r.row, NoTerm))
    BY <1>8, <2>1 DEF WriteCorrection
  <2>5. LedgerTyped'
    BY <1>0, <2>2, <2>3, <2>4, EntryTyped
  <2> QED BY <1>01, <1>5, <1>8, <2>5 DEF WriteCorrection
<1>9. ASSUME NEW w \in Workers, Withdraw(w) PROVE Typed'
  <2>1. PICK r \in Requests : r = req[w] /\ r.pc = "withdraw"
    BY <1>0, <1>9 DEF Withdraw, At
  <2>2. r.invoice \in Invoices /\ r.minutes \in Nat
    BY <2>1 DEF Requests, Idle
  <2>3. r.invoice \in Sources /\ "invoice_credit_reversal" \in Kinds /\ NoTerm \in Nat
        /\ -r.minutes \in Int
    BY <2>2 DEF Sources, Kinds, NoTerm
  <2>4. ApplyEntry(Entry("invoice_credit_reversal", -r.minutes, r.invoice, NoTerm))
    BY <1>9, <2>1 DEF Withdraw
  <2>5. LedgerTyped'
    BY <1>0, <2>3, <2>4, EntryTyped
  <2> QED BY <1>01, <1>5, <1>9, <2>5 DEF Withdraw
<1>10. ASSUME NEW w \in Workers, Fail(w) PROVE Typed'
  BY <1>01, <1>02, <1>5, <1>10 DEF Fail
<1>11. ASSUME NEW minutes \in Adjustments, AdjustHourCredit(minutes) PROVE Typed'
  <2>1. PICK term : term = IF minutes > 0 THEN TermFrom(today, rule.days) ELSE NoTerm
    OBVIOUS
  <2>2. minutes \in Int /\ 0 \in Sources /\ term \in Nat /\ "manual" \in Kinds
        /\ (term # NoTerm => minutes > 0)
    BY <1>0, <1>03, <2>1, HourLedgerAssumption DEF Sources, Kinds, NoTerm
  <2>3. PICK row : row = Entry("manual", minutes, 0, term)
    OBVIOUS
  <2>4. row \in Row /\ TermOnCreditOnly(row)
    BY <2>2, <2>3, EntryIsRow DEF TermOnCreditOnly
  <2>5. Insert(<<row>>)
    BY <1>11, <2>1, <2>3 DEF AdjustHourCredit
  <2>6. LedgerTyped'
    <3>1. <<row>> \in Seq(Row) /\ \A k \in DOMAIN <<row>> : TermOnCreditOnly(<<row>>[k])
      BY <2>4
    <3> QED BY <1>0, <2>5, <3>1, InsertTyped
  <2> QED BY <1>01, <1>11, <2>6 DEF AdjustHourCredit
<1>12. ASSUME NEW t \in Tasks, NEW actual \in Actuals, Settle(t, actual) PROVE Typed'
  <2>1. PICK new : new = SettlementRows(t, Split(actual, balance))
    OBVIOUS
  <2>2. PICK minutes \in Nat \ {0}, kept \in Nat \ {0}, term \in Nat :
              /\ SettlementForm(new, Len(ledger), t, minutes, kept, term)
              /\ Consumes(t, minutes) \in Row /\ Traces(t) \in Row
              /\ Keeps(kept, Len(ledger) + 1, term) \in Row /\ Keeps(kept, Len(ledger) + 2, term) \in Row
    BY <1>0, <2>1, SettlementRowsAre
  <2>3. PICK c, o, p1, p2 : /\ c = Consumes(t, minutes) /\ o = Traces(t)
                            /\ p1 = Keeps(kept, Len(ledger) + 1, term)
                            /\ p2 = Keeps(kept, Len(ledger) + 2, term)
    OBVIOUS
  <2>4. /\ c \in Row /\ o \in Row /\ p1 \in Row /\ p2 \in Row
        /\ TermOnCreditOnly(c) /\ TermOnCreditOnly(o) /\ TermOnCreditOnly(p1) /\ TermOnCreditOnly(p2)
    BY <2>2, <2>3 DEF Consumes, Traces, Keeps, Entry, TermOnCreditOnly, NoTerm
  <2>5. new \in Seq(Row) /\ \A k \in DOMAIN new : TermOnCreditOnly(new[k])
    <3>1. new = <<c>> \/ new = <<o>> \/ new = <<o, p1>> \/ new = <<c, o>> \/ new = <<c, o, p2>>
      BY <2>2, <2>3 DEF SettlementForm
    <3>2. new \in Seq(Row)
      <4>1. /\ <<c>> \in Seq(Row) /\ <<o>> \in Seq(Row) /\ <<o, p1>> \in Seq(Row)
            /\ <<c, o>> \in Seq(Row) /\ <<c, o, p2>> \in Seq(Row)
        BY <2>4
      <4> QED BY <3>1, <4>1, Zenon
    <3>3. \A k \in DOMAIN new : new[k] \in {c, o, p1, p2}
      BY <2>4, <3>1
    <3> QED BY <2>4, <3>2, <3>3
  <2>6. LedgerTyped'
    BY <1>0, <1>12, <2>1, <2>5, InsertTyped DEF Settle
  <2>7. settledAt' \in [Tasks -> Nat]
    BY <1>0, <1>12 DEF Settle
  <2> QED BY <1>01, <1>12, <2>6, <2>7 DEF Settle
<1>13. ASSUME NEW i \in Invoices, CancelInvoice(i) PROVE Typed'
  <2>1. invoice' \in [Invoices -> {"paid", "cancelled"}]
    BY <1>01, <1>13 DEF CancelInvoice
  <2> QED BY <1>01, <1>02, <1>13, <2>1 DEF CancelInvoice
<1>14. ASSUME NEW days \in Terms, UpdateRules(days) PROVE Typed'
  <2>1. rule' \in [days : Terms, enabledAt : Nat]
    BY <1>0, <1>14 DEF UpdateRules, NextEnabledAt, Never
  <2> QED BY <1>01, <1>02, <1>14, <2>1 DEF UpdateRules
<1>15. CASE StartJob
  <2>1. job' \in [pc : {"expire"}, now : Nat, notBefore : Nat]
    BY <1>0, <1>15 DEF StartJob
  <2> QED BY <1>01, <1>02, <1>15, <2>1 DEF StartJob
<1>16. CASE ExpireClient
  <2>1. PICK due, new : due = Due(ledger, job.now, job.notBefore) /\ new = ExpireRows(ledger, due)
    OBVIOUS
  <2>2. due \in SUBSET Batches(ledger)
    BY <2>1 DEF Due
  <2>3. new \in Seq(Row) /\ \A k \in DOMAIN new : \E i \in due : new[k] = ExpireRow(ledger, i)
    BY <1>0, <2>1, <2>2, ExpireRowsTake
  <2>4. \A k \in DOMAIN new : TermOnCreditOnly(new[k])
    BY <2>3 DEF ExpireRow, TermOnCreditOnly
  <2>5. LedgerTyped'
    <3>1. CASE Violates(new)
      BY <1>02, <1>16, <2>1, <3>1 DEF ExpireClient
    <3>2. CASE ~Violates(new)
      <4>1. Insert(new)
        BY <1>16, <2>1, <3>2 DEF ExpireClient
      <4> QED BY <1>0, <2>3, <2>4, <4>1, InsertTyped
    <3> QED BY <3>1, <3>2
  <2> QED BY <1>01, <1>16, <2>5 DEF ExpireClient
<1>17. CASE NextDay
  BY <1>0, <1>01, <1>02, <1>17 DEF NextDay
<1>18. CASE UNCHANGED vars
  BY <1>01, <1>02, <1>18 DEF vars
<1> QED BY <1>1, <1>2, <1>3, <1>4, <1>6, <1>7, <1>8, <1>9, <1>10, <1>11, <1>12, <1>13, <1>14,
           <1>15, <1>16, <1>17, <1>18 DEF Next, RequestStep

\* Every variable of the ledger's specification keeps to its type.
THEOREM LedgerTypeCorrect == Spec => []TypeOK
<1>1. Init => TypeOK
  BY TypeInit
<1>2. TypeOK /\ [Next]_vars => TypeOK'
  BY TypeStep
<1> QED BY <1>1, <1>2, PTL DEF Spec, SafetySpec

(***************************************************************************)
(* The inductive invariant.                                                *)
(***************************************************************************)
RowsOf(rows, kind, source) == {i \in DOMAIN rows : rows[i].kind = kind /\ rows[i].source = source}

\* A task that is not settled has all its consumption given back; of one settled
\* since a row, this is true of the rows before it, and that row may be open.
Settled(rows, since, t) ==
    LET consumed == RowsOf(rows, "task_consumption", t)
        undone   == RowsOf(rows, "task_reversal", t)
    IN  IF since = 0
        THEN \A i \in consumed : \E m \in undone : i < m
        ELSE /\ since \in DOMAIN rows
             /\ \A m \in undone : m < since
             /\ \A i \in consumed : i = since \/ \E m \in undone : i < m

\* What a request carries over its await.
Carried ==
    \A w \in Workers : /\ At(w, "correct") => req[w].row \in DOMAIN ledger
                       /\ At(w, "withdraw") => req[w].minutes > 0
                       /\ At(w, "undo") => req[w].cycle # 0

AllSettled == \A t \in Tasks : Settled(ledger, settledAt[t], t)

LedgerInv ==
    /\ TypeOK
    /\ AllFit(ledger)
    /\ balance = Balance(ledger)
    /\ AllSettled
    /\ Carried

\* A new row meets, of a kind and source no new row before it has, only old rows.
LEMMA EarlierInNew ==
    ASSUME NEW rows \in Seq(Row), NEW new \in Seq(Row), NEW j \in DOMAIN new,
           NEW kind, NEW source, NEW k, k = Len(rows) + j,
           \A l \in 1..(j - 1) : ~(new[l].kind = kind /\ new[l].source = source)
    PROVE  Earlier(rows \o new, k, kind, source) = RowsOf(rows, kind, source)
<1> PICK all : all = rows \o new
  OBVIOUS
<1>0. all = rows \o new
  OBVIOUS
<1>1. /\ Len(rows) \in Nat /\ j \in Nat /\ k \in Nat /\ j >= 1 /\ j <= Len(new) /\ Len(new) \in Nat
      /\ DOMAIN rows = 1..Len(rows) /\ DOMAIN new = 1..Len(new)
      /\ \A i \in 1..Len(rows) : all[i] = rows[i]
  BY Appended
<1>2. \A i \in 1..Len(rows) : i \in 1..(k - 1)
  BY <1>1
<1>3. ASSUME NEW i \in 1..(k - 1), i \notin 1..Len(rows)
      PROVE  ~(all[i].kind = kind /\ all[i].source = source)
  <2>1. PICK l : l = i - Len(rows)
    OBVIOUS
  <2>2. l \in 1..(j - 1) /\ l \in DOMAIN new /\ i = Len(rows) + l
    BY <1>1, <1>3, <2>1
  <2>3. all[i] = new[l]
    BY <2>2, Appended
  <2> QED BY <2>2, <2>3
<1>4. Earlier(all, k, kind, source) = RowsOf(rows, kind, source)
  BY <1>1, <1>2, <1>3 DEF Earlier, RowsOf
<1> QED BY <1>4

\* Rows that are not about a task leave it as it was.
LEMMA SettledStays ==
    ASSUME NEW rows \in Seq(Row), NEW new \in Seq(Row), NEW all, all = rows \o new,
           NEW since, NEW t, Settled(rows, since, t),
           \A k \in DOMAIN new :
              ~(new[k].kind \in {"task_consumption", "task_reversal"} /\ new[k].source = t)
    PROVE  Settled(all, since, t)
<1>1. \A kind \in {"task_consumption", "task_reversal"} : RowsOf(all, kind, t) = RowsOf(rows, kind, t)
  BY Appended DEF RowsOf
<1>2. DOMAIN rows \in SUBSET DOMAIN all
  BY Appended
<1> QED BY <1>1, <1>2 DEF Settled

\* A ledger that grows keeps what the requests carry.
LEMMA CarriedStays ==
    ASSUME Carried, DOMAIN ledger \in SUBSET DOMAIN ledger',
           \A w \in Workers : req'[w] = req[w] \/ req'[w] = Idle
    PROVE  Carried'
BY DEF Carried, At, Idle

\* A step that inserts rows that fit.
LEMMA InsertFits ==
    ASSUME LedgerInv, NEW new \in Seq(Row), Insert(new),
           NEW all, all = ledger \o new, \A j \in DOMAIN new : Fits(all, Len(ledger) + j)
    PROVE  /\ ledger' = all /\ AllFit(ledger') /\ balance' = Balance(ledger')
           /\ DOMAIN ledger \in SUBSET DOMAIN ledger'
<1>1. ledger \in Seq(Row) /\ AllFit(ledger) /\ balance = Balance(ledger)
  BY DEF LedgerInv, TypeOK
<1>2. ledger' = all /\ balance' = balance + Balance(new)
  BY DEF Insert
<1>3. \A k \in DOMAIN all : k \notin DOMAIN ledger => Fits(all, k)
  <2> SUFFICES ASSUME NEW k \in DOMAIN all, k \notin DOMAIN ledger PROVE Fits(all, k)
    OBVIOUS
  <2>1. PICK j : j = k - Len(ledger)
    OBVIOUS
  <2>2. j \in DOMAIN new /\ k = Len(ledger) + j
    BY <1>1, <2>1, Appended
  <2> QED BY <2>2
<1>4. AllFit(all)
  BY <1>1, <1>3, AppendedFits
<1>5. Balance(all) = Balance(ledger) + Balance(new)
  BY <1>1, BalanceOfAppended
<1>6. DOMAIN ledger \in SUBSET DOMAIN all
  BY <1>1, Appended
<1> QED BY <1>1, <1>2, <1>4, <1>5, <1>6

\* A step that inserts one row at most, about no task.
LEMMA EntryFits ==
    ASSUME LedgerInv, NEW row \in Row, ApplyEntry(row), UNCHANGED settledAt,
           \A w \in Workers : req'[w] = req[w] \/ req'[w] = Idle,
           row.kind \notin {"task_consumption", "task_reversal"},
           ~Violates(<<row>>) => Fits(ledger \o <<row>>, Len(ledger) + 1)
    PROVE  AllFit(ledger)' /\ (balance = Balance(ledger))' /\ AllSettled' /\ Carried'
<1>1. ledger \in Seq(Row) /\ Carried /\ AllSettled
  BY DEF LedgerInv, TypeOK
<1>2. CASE Violates(<<row>>)
  <2>1. UNCHANGED <<ledger, balance>>
    BY <1>2 DEF ApplyEntry
  <2>2. Carried'
    BY <1>1, <2>1, CarriedStays
  <2>3. AllSettled'
    BY <1>1, <2>1 DEF AllSettled
  <2> QED BY <2>1, <2>2, <2>3 DEF LedgerInv
<1>3. CASE ~Violates(<<row>>)
  <2>1. PICK new, all : new = <<row>> /\ all = ledger \o new
    OBVIOUS
  <2>2. Insert(new) /\ new \in Seq(Row) /\ DOMAIN new = {1} /\ new[1] = row
    BY <1>3, <2>1 DEF ApplyEntry
  <2>3. \A j \in DOMAIN new : Fits(all, Len(ledger) + j)
    BY <1>3, <2>1, <2>2
  <2>4. ledger' = all /\ AllFit(ledger') /\ balance' = Balance(ledger')
        /\ DOMAIN ledger \in SUBSET DOMAIN ledger'
    BY <2>1, <2>2, <2>3, InsertFits
  <2>5. Carried'
    BY <1>1, <2>4, CarriedStays
  <2>6. \A t \in Tasks : Settled(all, settledAt[t], t)
    BY <1>1, <2>1, <2>2, SettledStays DEF AllSettled
  <2>7. AllSettled'
    BY <2>4, <2>6 DEF AllSettled
  <2> QED BY <2>4, <2>5, <2>7
<1> QED BY <1>2, <1>3

\* What a row of the unique indexes does not meet when it is inserted.
LEMMA NoConflict ==
    ASSUME NEW new, ~Violates(new), NEW j \in DOMAIN new,
           new[j].kind \in OncePerSource \union {"correction"}
    PROVE  RowsOf(ledger, new[j].kind, new[j].source) = {}
BY DEF Violates, Conflicts, RowsOf

\* The correction of a row.
LEMMA NetIs ==
    ASSUME NEW rows \in Seq(Row), AllFit(rows), rows = ledger, NEW i \in DOMAIN rows
    PROVE  \/ CorrectionsOf(rows, i) = {} /\ NetOfCorrections(i) = rows[i].delta
           \/ \E c \in DOMAIN rows :
                /\ CorrectionsOf(rows, i) = {c} /\ Corrects(rows, c, i)
                /\ rows[c].kind = "correction" /\ rows[c].source = i
                /\ NetOfCorrections(i) = rows[i].delta + rows[c].delta
<1>1. DOMAIN rows = 1..Len(rows) /\ Len(rows) \in Nat /\ \A k \in DOMAIN rows : rows[k].delta \in Int
  BY RowsOfLedger
<1>2. CASE CorrectionsOf(rows, i) = {}
  BY <1>1, <1>2 DEF NetOfCorrections
<1>3. CASE CorrectionsOf(rows, i) # {}
  <2>1. PICK c \in CorrectionsOf(rows, i) : c = CHOOSE k \in CorrectionsOf(rows, i) : TRUE
    BY <1>3
  <2>2. c \in DOMAIN rows /\ rows[c].kind = "correction" /\ rows[c].source = i
    BY DEF CorrectionsOf
  <2>3. ASSUME NEW d \in CorrectionsOf(rows, i) PROVE d = c
    <3>1. d \in DOMAIN rows /\ rows[d].kind = "correction" /\ rows[d].source = i
      BY DEF CorrectionsOf
    <3>2. Earlier(rows, c, "correction", i) = {} /\ Earlier(rows, d, "correction", i) = {}
      BY <2>2, <3>1 DEF AllFit, Fits
    <3>3. d \notin Earlier(rows, c, "correction", i) /\ c \notin Earlier(rows, d, "correction", i)
      BY <3>2
    <3> QED BY <1>1, <2>2, <3>1, <3>3 DEF Earlier
  <2>4. Corrects(rows, c, i)
    BY <2>2 DEF AllFit, Fits
  <2>5. NetOfCorrections(i) = rows[i].delta + rows[c].delta
    BY <1>3, <2>1 DEF NetOfCorrections
  <2> QED BY <2>2, <2>3, <2>4, <2>5
<1> QED BY <1>2, <1>3

(***************************************************************************)
(* Each step keeps the invariant.                                          *)
(***************************************************************************)
\* A correction or a withdrawal writes only what its check would still allow.
NoCrossing == "crossed" \notin Env

\* The initial state has the invariant.
LEMMA InvInit == Init => LedgerInv
<1> SUFFICES ASSUME Init PROVE LedgerInv
  OBVIOUS
<1>1. ledger = <<>> /\ DOMAIN ledger = {} /\ TypeOK
  BY TypeInit DEF Init
<1>2. AllFit(ledger)
  BY <1>1 DEF AllFit
<1>3. balance = Balance(ledger)
  <2>1. PICK S : S = DOMAIN ledger
    OBVIOUS
  <2>2. Delta(ledger, S) = 0
    BY <1>1, <2>1, DeltaOfNone DEF TypeOK
  <2> QED BY <2>1, <2>2 DEF Init, Balance
<1>4. AllSettled
  BY <1>1 DEF Init, AllSettled, Settled, RowsOf
<1>5. Carried
  BY DEF Init, Carried, At, Idle
<1> QED BY <1>1, <1>2, <1>3, <1>4, <1>5 DEF LedgerInv

\* The rest of the invariant when the ledger stays as it is.
LEMMA NothingWritten ==
    ASSUME LedgerInv, UNCHANGED <<ledger, balance, settledAt>>, Carried'
    PROVE  AllFit(ledger)' /\ (balance = Balance(ledger))' /\ AllSettled' /\ Carried'
BY DEF LedgerInv, AllSettled

\* Consumption of a settlement that was not undone is given back in minutes.
LEMMA ConsumptionCounts ==
    ASSUME NEW rows \in Seq(Row), AllFit(rows), rows = ledger, NEW i \in DOMAIN rows,
           rows[i].kind = "task_consumption"
    PROVE  NetOfCorrections(i) \in Int /\ NetOfCorrections(i) < 0
<1>1. rows[i].delta \in Int /\ rows[i].delta < 0 /\ \A c \in DOMAIN rows : rows[c].delta \in Int
  BY RowsOfLedger DEF AllFit, Fits
<1>2. \A c \in DOMAIN rows : Corrects(rows, c, i) => rows[i].delta + rows[c].delta < 0
  BY <1>1 DEF Corrects, Sign
<1> QED BY <1>1, <1>2, NetIs

\* Settling a task keeps the invariant.
LEMMA SettleFits ==
    ASSUME LedgerInv, NEW t \in Tasks, NEW actual \in Actuals, Settle(t, actual)
    PROVE  AllFit(ledger)' /\ (balance = Balance(ledger))' /\ AllSettled' /\ Carried'
<1>1. /\ ledger \in Seq(Row) /\ balance \in Int /\ rule.days \in Nat /\ today \in Nat
      /\ settledAt \in [Tasks -> Nat] /\ AllFit(ledger) /\ AllSettled /\ Carried
  BY HourLedgerAssumption DEF LedgerInv, TypeOK
<1>2. PICK n, new, all : /\ n = Len(ledger) /\ new = SettlementRows(t, Split(actual, balance))
                         /\ all = ledger \o new
  OBVIOUS
<1>3. PICK minutes \in Nat \ {0}, kept \in Nat \ {0}, term \in Nat :
            /\ SettlementForm(new, n, t, minutes, kept, term)
            /\ Consumes(t, minutes) \in Row /\ Traces(t) \in Row
            /\ Keeps(kept, n + 1, term) \in Row /\ Keeps(kept, n + 2, term) \in Row
  BY <1>1, <1>2, SettlementRowsAre
<1>4. PICK c, o, p1, p2 : /\ c = Consumes(t, minutes) /\ o = Traces(t)
                          /\ p1 = Keeps(kept, n + 1, term) /\ p2 = Keeps(kept, n + 2, term)
  OBVIOUS
<1>5. /\ c.kind = "task_consumption" /\ c.delta = -minutes /\ c.source = t
      /\ o.kind = "overage_invoiced" /\ o.delta = 0 /\ o.source = t
      /\ p1.kind = "purchase" /\ p1.delta = kept /\ p1.source = n + 1
      /\ p2.kind = "purchase" /\ p2.delta = kept /\ p2.source = n + 2
  BY <1>4 DEF Consumes, Traces, Keeps, Entry
<1>6. c \in Row /\ o \in Row /\ p1 \in Row /\ p2 \in Row
  BY <1>3, <1>4
<1>7. new = <<c>> \/ new = <<o>> \/ new = <<o, p1>> \/ new = <<c, o>> \/ new = <<c, o, p2>>
  BY <1>3, <1>4 DEF SettlementForm
<1>8. new \in Seq(Row)
  <2>1. /\ <<c>> \in Seq(Row) /\ <<o>> \in Seq(Row) /\ <<o, p1>> \in Seq(Row)
        /\ <<c, o>> \in Seq(Row) /\ <<c, o, p2>> \in Seq(Row)
    BY <1>6
  <2> QED BY <1>7, <2>1, Zenon
<1>9. n \in Nat /\ Len(new) \in Nat /\ DOMAIN new = 1..Len(new) /\ DOMAIN ledger = 1..n
      /\ \A j \in DOMAIN new : n + j \in DOMAIN all /\ all[n + j] = new[j]
  BY <1>1, <1>2, <1>8, Appended
<1>10. \A j \in DOMAIN new :
          \/ j = 1 /\ new[j] = c
          \/ new[j] = o
          \/ /\ new[j].kind = "purchase" /\ new[j].delta = kept /\ new[j].source = n + (j - 1)
             /\ j > 1 /\ \A l \in 1..(j - 1) : new[l] = c \/ new[l] = o
  <2>1. CASE new = <<c>> \/ new = <<o>>
    BY <1>6, <2>1
  <2>2. CASE new = <<o, p1>>
    <3>1. Len(new) = 2 /\ new[1] = o /\ new[2] = p1
      BY <1>6, <2>2
    <3> QED BY <1>5, <1>9, <3>1
  <2>3. CASE new = <<c, o>>
    <3>1. Len(new) = 2 /\ new[1] = c /\ new[2] = o
      BY <1>6, <2>3
    <3> QED BY <1>5, <1>9, <3>1
  <2>4. CASE new = <<c, o, p2>>
    <3>1. Len(new) = 3 /\ new[1] = c /\ new[2] = o /\ new[3] = p2
      BY <1>6, <2>4
    <3> QED BY <1>5, <1>9, <3>1
  <2> QED BY <1>7, <2>1, <2>2, <2>3, <2>4
<1>11. settledAt[t] = 0 /\ Insert(new) /\ settledAt' = [settledAt EXCEPT ![t] = n + 1]
       /\ UNCHANGED req
  BY <1>2 DEF Settle
<1>12. Settled(ledger, 0, t)
  BY <1>1, <1>11 DEF AllSettled
<1>13. ASSUME NEW j \in DOMAIN new PROVE Fits(all, n + j)
  <2>1. PICK k : k = n + j
    OBVIOUS
  <2>2. all[k] = new[j] /\ k \in Nat /\ j \in Nat /\ j >= 1
    BY <1>9, <2>1
  <2>3. CASE j = 1 /\ new[j] = c
    <3>1. \A kind \in Kinds : Earlier(all, k, kind, t) = RowsOf(ledger, kind, t)
      <4> TAKE kind \in Kinds
      <4>1. \A l \in 1..(j - 1) : ~(new[l].kind = kind /\ new[l].source = t)
        BY <2>3
      <4>2. k = Len(ledger) + j
        BY <1>2, <2>1
      <4>8. ledger \in Seq(Row) /\ new \in Seq(Row)
        BY <1>1, <1>2, <1>8
      <4>9. Earlier(ledger \o new, k, kind, t) = RowsOf(ledger, kind, t)
        BY <4>8, <4>1, <4>2, EarlierInNew
      <4> QED BY <1>2, <4>9
    <3>2. \A i \in Earlier(all, k, "task_consumption", t) :
             \E m \in Earlier(all, k, "task_reversal", t) : i < m
      BY <1>12, <3>1 DEF Settled, Kinds
    <3>3. all[k].kind = "task_consumption" /\ all[k].delta < 0 /\ all[k].source = t
      BY <1>5, <2>2, <2>3
    <3>4. Fits(all, k)
      BY <3>2, <3>3 DEF Fits, OncePerSource
    <3> QED BY <2>1, <3>4
  <2>4. CASE new[j] = o
    <3>1. all[k].kind = "overage_invoiced" /\ all[k].delta = 0
      BY <1>5, <2>2, <2>4
    <3>2. Fits(all, k)
      BY <3>1 DEF Fits, OncePerSource
    <3> QED BY <2>1, <3>2
  <2>5. CASE /\ new[j].kind = "purchase" /\ new[j].delta = kept /\ new[j].source = n + (j - 1)
             /\ j > 1 /\ \A l \in 1..(j - 1) : new[l] = c \/ new[l] = o
    <3>1. PICK s : s = n + (j - 1)
      OBVIOUS
    <3>2. all[k].kind = "purchase" /\ all[k].delta > 0 /\ all[k].source = s /\ s \in 1..(k - 1)
          /\ s > n
      BY <1>9, <2>1, <2>2, <2>5, <3>1
    <3>3. \A l \in 1..(j - 1) : ~(new[l].kind = "purchase" /\ new[l].source = s)
      BY <1>5, <2>5
    <3>4. Earlier(all, k, "purchase", s) = RowsOf(ledger, "purchase", s)
      <4>1. k = Len(ledger) + j
        BY <1>2, <2>1
      <4>8. ledger \in Seq(Row) /\ new \in Seq(Row)
        BY <1>1, <1>2, <1>8
      <4>9. ASSUME NEW kind, \A l \in 1..(j - 1) : ~(new[l].kind = kind /\ new[l].source = s)
            PROVE  Earlier(ledger \o new, k, kind, s) = RowsOf(ledger, kind, s)
        BY <4>1, <4>8, <4>9, EarlierInNew
      <4> QED BY <1>2, <3>3, <4>9
    <3>5. RowsOf(ledger, "purchase", s) = {}
      <4> SUFFICES ASSUME NEW i \in RowsOf(ledger, "purchase", s) PROVE FALSE
        OBVIOUS
      <4>1. i \in DOMAIN ledger /\ ledger[i].kind = "purchase" /\ ledger[i].source = s
        BY DEF RowsOf
      <4>2. s \in 1..(i - 1)
        BY <1>1, <4>1 DEF AllFit, Fits
      <4> QED BY <1>9, <3>2, <4>1, <4>2
    <3>6. Fits(all, k)
      BY <3>2, <3>4, <3>5 DEF Fits
    <3> QED BY <2>1, <3>6
  <2> QED BY <1>10, <2>3, <2>4, <2>5
<1>14. ledger' = all /\ AllFit(ledger') /\ balance' = Balance(ledger')
       /\ DOMAIN ledger \in SUBSET DOMAIN ledger'
  BY <1>2, <1>8, <1>11, <1>13, InsertFits
<1>15. Carried'
  BY <1>1, <1>11, <1>14, CarriedStays
<1>16. ASSUME NEW u \in Tasks PROVE Settled(all, settledAt'[u], u)
  <2>1. CASE u # t
    <3>1. settledAt'[u] = settledAt[u] /\ Settled(ledger, settledAt[u], u)
      BY <1>1, <1>11, <2>1 DEF AllSettled
    <3>2. \A k \in DOMAIN new :
             ~(new[k].kind \in {"task_consumption", "task_reversal"} /\ new[k].source = u)
      BY <1>5, <1>10, <2>1
    <3> QED BY <1>1, <1>2, <1>8, <3>1, <3>2, SettledStays
  <2>2. CASE u = t
    <3>1. settledAt'[u] = n + 1 /\ n + 1 # 0
      BY <1>1, <1>9, <1>11, <2>2
    <3>2. n + 1 \in DOMAIN all
      <4>1. 1 \in DOMAIN new
        BY <1>6, <1>7
      <4> QED BY <1>9, <4>1
    <3>3. \A m \in RowsOf(all, "task_reversal", t) : m \in DOMAIN ledger
      <4> SUFFICES ASSUME NEW m \in DOMAIN all, m \notin DOMAIN ledger, all[m].kind = "task_reversal"
                   PROVE  FALSE
        BY DEF RowsOf
      <4>1. m - n \in DOMAIN new /\ all[m] = new[m - n]
        BY <1>1, <1>2, <1>8, Appended
      <4> QED BY <1>5, <1>10, <4>1
    <3>4. \A m \in RowsOf(all, "task_reversal", t) : m < n + 1
      BY <1>9, <3>3
    <3>5. ASSUME NEW i \in RowsOf(all, "task_consumption", t)
          PROVE  i = n + 1 \/ \E m \in RowsOf(all, "task_reversal", t) : i < m
      <4>1. i \in DOMAIN all /\ all[i].kind = "task_consumption" /\ all[i].source = t
        BY DEF RowsOf
      <4>2. CASE i \in DOMAIN ledger
        <5>1. i \in RowsOf(ledger, "task_consumption", t)
          BY <1>1, <1>2, <1>8, <4>1, <4>2, Appended DEF RowsOf
        <5>2. PICK m \in RowsOf(ledger, "task_reversal", t) : i < m
          BY <1>12, <5>1 DEF Settled
        <5>3. m \in RowsOf(all, "task_reversal", t)
          BY <1>1, <1>2, <1>8, Appended DEF RowsOf
        <5> QED BY <5>2, <5>3
      <4>3. CASE i \notin DOMAIN ledger
        <5>1. i - n \in DOMAIN new /\ all[i] = new[i - n]
          BY <1>1, <1>2, <1>8, <4>1, <4>3, Appended
        <5>2. i - n = 1
          BY <1>5, <1>10, <4>1, <5>1
        <5>3. i \in Nat
          BY <1>1, <1>2, <1>8, <4>1, Appended
        <5> QED BY <1>9, <5>2, <5>3
      <4> QED BY <4>2, <4>3
    <3> QED BY <2>2, <3>1, <3>2, <3>4, <3>5 DEF Settled
  <2> QED BY <2>1, <2>2
<1>17. AllSettled'
  BY <1>14, <1>16 DEF AllSettled
<1> QED BY <1>14, <1>15, <1>17

\* The rows of an undoing, one by one: row j withdraws a surplus, after rows e.
WithdrawsAt(new, j, t, cycle, e) ==
    \E i \in SurplusOf(t, cycle) :
       /\ new[j] = TakesSurplus(i) /\ i \in DOMAIN ledger
       /\ SurplusWithdrawn(i) \in Int /\ SurplusWithdrawn(i) > 0
       /\ \A l \in 1..(j - 1) : new[l] = e

\* The rows of an undoing: the reversal first, then the surplus.
LEMMA UndoRowsByRow ==
    ASSUME ledger \in Seq(Row), NEW t \in Tasks, NEW cycle \in Nat,
           NEW new, new = UndoRows(t, cycle),
           NEW g, g = GivenBack(t, cycle), NEW e, e = GivesBack(t, g)
    PROVE  /\ new \in Seq(Row) /\ g \in Int
           /\ g > 0 => 1 \in DOMAIN new /\ new[1] = e
           /\ \A j \in DOMAIN new :
                 \/ j = 1 /\ new[j] = e /\ g > 0
                 \/ WithdrawsAt(new, j, t, cycle, e)
<1>1. /\ UndoForm(new, t, cycle) /\ g \in Int /\ e \in Row
      /\ \A i \in SurplusOf(t, cycle) : /\ i \in DOMAIN ledger /\ SurplusWithdrawn(i) \in Int
                                        /\ TakesSurplus(i) \in Row
  BY UndoRowsAre
<1>2. CASE new = <<>> /\ ~(g > 0)
  BY <1>1, <1>2
<1>3. CASE new = <<e>> /\ g > 0
  <2>1. new \in Seq(Row) /\ DOMAIN new = {1} /\ new[1] = e
    BY <1>1, <1>3
  <2> QED BY <1>1, <1>3, <2>1
<1>4. ASSUME NEW i \in SurplusOf(t, cycle), SurplusWithdrawn(i) > 0,
             \/ new = <<TakesSurplus(i)>> /\ ~(g > 0)
             \/ new = <<e, TakesSurplus(i)>> /\ g > 0
      PROVE  /\ new \in Seq(Row)
             /\ g > 0 => 1 \in DOMAIN new /\ new[1] = e
             /\ \A j \in DOMAIN new :
                   \/ j = 1 /\ new[j] = e /\ g > 0
                   \/ new[j] = TakesSurplus(i) /\ \A l \in 1..(j - 1) : new[l] = e
  <2>1. PICK p \in Row : p = TakesSurplus(i)
    BY <1>1
  <2>2. CASE new = <<p>> /\ ~(g > 0)
    <3>1. new \in Seq(Row) /\ DOMAIN new = {1} /\ new[1] = p
      BY <2>1, <2>2
    <3> QED BY <2>1, <2>2, <3>1
  <2>3. CASE new = <<e, p>> /\ g > 0
    <3>1. new \in Seq(Row) /\ DOMAIN new = 1..2 /\ new[1] = e /\ new[2] = p
      BY <1>1, <2>1, <2>3
    <3>2. \A l \in 1..(2 - 1) : l = 1
      OBVIOUS
    <3> QED BY <2>1, <2>3, <3>1, <3>2
  <2> QED BY <1>4, <2>1, <2>2, <2>3
<1>5. \/ new = <<>> /\ ~(g > 0)
      \/ new = <<e>> /\ g > 0
      \/ \E i \in SurplusOf(t, cycle) :
            /\ SurplusWithdrawn(i) > 0
            /\ \/ new = <<TakesSurplus(i)>> /\ ~(g > 0)
               \/ new = <<e, TakesSurplus(i)>> /\ g > 0
  BY <1>1 DEF UndoForm
<1>6. CASE \E i \in SurplusOf(t, cycle) :
            /\ SurplusWithdrawn(i) > 0
            /\ \/ new = <<TakesSurplus(i)>> /\ ~(g > 0)
               \/ new = <<e, TakesSurplus(i)>> /\ g > 0
  <2>1. PICK i \in SurplusOf(t, cycle) :
            /\ SurplusWithdrawn(i) > 0
            /\ \/ new = <<TakesSurplus(i)>> /\ ~(g > 0)
               \/ new = <<e, TakesSurplus(i)>> /\ g > 0
    BY <1>6
  <2>2. /\ new \in Seq(Row)
        /\ g > 0 => 1 \in DOMAIN new /\ new[1] = e
        /\ \A j \in DOMAIN new :
              \/ j = 1 /\ new[j] = e /\ g > 0
              \/ new[j] = TakesSurplus(i) /\ \A l \in 1..(j - 1) : new[l] = e
    BY <1>4, <2>1
  <2>3. i \in DOMAIN ledger /\ SurplusWithdrawn(i) \in Int /\ SurplusWithdrawn(i) > 0
    BY <1>1, <2>1
  <2> QED BY <1>1, <2>2, <2>3 DEF WithdrawsAt
<1> QED BY <1>2, <1>3, <1>5, <1>6

\* Undoing a settlement keeps the invariant.
LEMMA UndoFits ==
    ASSUME LedgerInv, NEW w \in Workers, Undo(w)
    PROVE  AllFit(ledger)' /\ (balance = Balance(ledger))' /\ AllSettled' /\ Carried'
<1>1. /\ ledger \in Seq(Row) /\ settledAt \in [Tasks -> Nat] /\ AllFit(ledger) /\ AllSettled
      /\ Carried /\ req \in [Workers -> Requests]
  BY DEF LedgerInv, TypeOK, Requests
<1>2. PICK r \in Requests : r = req[w] /\ r.pc = "undo"
  BY <1>1 DEF Undo, At
<1>3. PICK t \in Tasks, cycle \in Nat : t = r.task /\ cycle = r.cycle
  BY <1>2 DEF Requests, Idle
<1>4. PICK n, new, all : n = Len(ledger) /\ new = UndoRows(t, cycle) /\ all = ledger \o new
  OBVIOUS
<1>5. \A v \in Workers : req'[v] = req[v] \/ req'[v] = Idle
  BY <1>1 DEF Undo, Goto
<1>6. CASE settledAt[t] # cycle \/ Violates(new)
  <2>1. UNCHANGED <<ledger, balance, settledAt>>
    BY <1>2, <1>3, <1>4, <1>6 DEF Undo
  <2>2. Carried'
    BY <1>1, <1>5, <2>1, CarriedStays
  <2> QED BY <2>1, <2>2, NothingWritten
<1>7. CASE ~(settledAt[t] # cycle \/ Violates(new))
  <2>1. Insert(new) /\ settledAt' = [settledAt EXCEPT ![t] = 0] /\ settledAt[t] = cycle
        /\ ~Violates(new)
    BY <1>2, <1>3, <1>4, <1>7 DEF Undo
  <2>2. PICK g, e : g = GivenBack(t, cycle) /\ e = GivesBack(t, g)
    OBVIOUS
  <2>3. /\ new \in Seq(Row) /\ g \in Int
        /\ g > 0 => 1 \in DOMAIN new /\ new[1] = e
        /\ \A j \in DOMAIN new : (j = 1 /\ new[j] = e /\ g > 0) \/ WithdrawsAt(new, j, t, cycle, e)
    <3>1. new = UndoRows(t, cycle) /\ ledger \in Seq(Row)
      BY <1>1, <1>4
    <3> QED BY <2>2, <3>1, UndoRowsByRow
  <2>4. e.kind = "task_reversal" /\ e.delta = g /\ e.source = t
    BY <2>2 DEF GivesBack, Entry
  <2>5. /\ n \in Nat /\ Len(new) \in Nat /\ DOMAIN new = 1..Len(new) /\ DOMAIN ledger = 1..n
        /\ \A j \in DOMAIN new : n + j \in DOMAIN all /\ all[n + j] = new[j]
        /\ \A k \in DOMAIN ledger : k \in DOMAIN all /\ all[k] = ledger[k]
        /\ \A k \in DOMAIN all : k \in DOMAIN ledger \/ (k - n \in DOMAIN new /\ all[k] = new[k - n])
    <3>1. ledger \in Seq(Row) /\ new \in Seq(Row) /\ all = ledger \o new /\ n = Len(ledger)
      BY <1>1, <1>4, <2>3
    <3>2. /\ n \in Nat /\ Len(new) \in Nat /\ DOMAIN new = 1..Len(new) /\ DOMAIN ledger = 1..n
          /\ \A j \in DOMAIN new : n + j \in DOMAIN all /\ all[n + j] = new[j]
      BY <3>1, Appended
    <3>3. \A k \in DOMAIN ledger : k \in DOMAIN all /\ all[k] = ledger[k]
      BY <3>1, Appended
    <3>4. \A k \in DOMAIN all : k \in DOMAIN ledger \/ (k - n \in DOMAIN new /\ all[k] = new[k - n])
      BY <3>1, Appended
    <3> QED BY <3>2, <3>3, <3>4
  <2>6. Settled(ledger, cycle, t)
    BY <1>1, <2>1 DEF AllSettled
  <2>7. ASSUME NEW i \in RowsOf(ledger, "task_consumption", t),
               \A m \in RowsOf(ledger, "task_reversal", t) : ~(i < m)
        PROVE  /\ i = cycle /\ g = -NetOfCorrections(i) /\ g > 0
               /\ \A m \in RowsOf(ledger, "task_reversal", t) : m < i
    <3>1. cycle # 0 /\ i = cycle /\ \A m \in RowsOf(ledger, "task_reversal", t) : m < cycle
      BY <2>6, <2>7 DEF Settled
    <3>2. PICK C : C = RowsOfCycle("task_consumption", t, cycle)
      OBVIOUS
    <3>3. i \in C /\ C \in SUBSET (1..n)
      BY <1>4, <2>5, <2>7, <3>1, <3>2 DEF RowsOfCycle, RowsOf
    <3>4. \A k \in C : k <= cycle
      <4> SUFFICES ASSUME NEW k \in C, k # cycle PROVE k < cycle
        BY <2>5, <3>3
      <4>1. k \in RowsOf(ledger, "task_consumption", t)
        BY <3>2 DEF RowsOfCycle, RowsOf
      <4>2. PICK m \in RowsOf(ledger, "task_reversal", t) : k < m
        BY <2>6, <3>1, <4>1 DEF Settled
      <4>3. m \in DOMAIN ledger /\ m < cycle
        BY <3>1 DEF RowsOf
      <4> QED BY <2>5, <3>3, <4>2, <4>3
    <3>5. Newest(C) = i
      <4>1. PICK c : c = Newest(C)
        OBVIOUS
      <4>2. c \in C /\ i <= c
        BY <2>5, <3>3, <4>1, NewestIs
      <4>3. c <= i /\ c \in Nat /\ i \in Nat
        BY <2>5, <3>1, <3>3, <3>4, <4>2
      <4> QED BY <4>1, <4>2, <4>3
    <3>6. g = -NetOfCorrections(i)
      BY <2>2, <3>2, <3>3, <3>5 DEF GivenBack
    <3>7. NetOfCorrections(i) \in Int /\ NetOfCorrections(i) < 0
      BY <1>1, <2>7, ConsumptionCounts DEF RowsOf
    <3> QED BY <3>1, <3>6, <3>7
  <2>8. ASSUME NEW j \in DOMAIN new PROVE Fits(all, n + j)
    <3>1. PICK k : k = n + j /\ k = Len(ledger) + j
      BY <1>4
    <3>2. all[k] = new[j] /\ k \in Nat /\ j \in Nat /\ j >= 1
      BY <2>5, <3>1
    <3>3. CASE j = 1 /\ new[j] = e /\ g > 0
      <4>1. \A kind, source : Earlier(all, k, kind, source) = RowsOf(ledger, kind, source)
        <5> TAKE kind, source
        <5>1. \A l \in 1..(j - 1) : ~(new[l].kind = kind /\ new[l].source = source)
          BY <3>3
        <5>8. ledger \in Seq(Row) /\ new \in Seq(Row)
          BY <1>1, <1>4, <2>3
        <5>9. Earlier(ledger \o new, k, kind, source) = RowsOf(ledger, kind, source)
          BY <5>8, <3>1, <5>1, EarlierInNew
        <5> QED BY <1>4, <5>9
      <4>2. PICK i \in RowsOf(ledger, "task_consumption", t) :
                \A m \in RowsOf(ledger, "task_reversal", t) : ~(i < m)
        <5>1. PICK C : C = RowsOfCycle("task_consumption", t, cycle)
          OBVIOUS
        <5>2. C # {}
          BY <2>2, <3>3, <5>1 DEF GivenBack
        <5>3. PICK i \in C : TRUE
          BY <5>2
        <5>4. i \in RowsOf(ledger, "task_consumption", t) /\ i >= cycle /\ i \in DOMAIN ledger
          BY <5>1 DEF RowsOfCycle, RowsOf
        <5>5. \A m \in RowsOf(ledger, "task_reversal", t) : ~(i < m)
          <6> SUFFICES ASSUME NEW m \in RowsOf(ledger, "task_reversal", t), i < m PROVE FALSE
            OBVIOUS
          <6>1. cycle = 0 \/ m < cycle
            BY <2>6 DEF Settled
          <6>2. m \in 1..n /\ i \in 1..n
            BY <2>5, <5>4 DEF RowsOf
          <6>3. cycle # 0
            BY <1>1, <1>2, <1>3 DEF Carried, At
          <6> QED BY <5>4, <6>1, <6>2, <6>3
        <5> QED BY <5>4, <5>5
      <4>3. i = cycle /\ g = -NetOfCorrections(i)
            /\ \A m \in RowsOf(ledger, "task_reversal", t) : m < i
        BY <2>7, <4>2
      <4>4. all[k].kind = "task_reversal" /\ all[k].delta = -NetOfCorrections(i) /\ all[k].source = t
        BY <2>4, <3>2, <3>3, <4>3
      <4>5. i \in DOMAIN ledger /\ all[i] = ledger[i] /\ i \in 1..(k - 1)
        BY <2>5, <3>1 DEF RowsOf
      <4>6. Undoes(all, k, i)
        <5>1. RowsOf(ledger, "correction", i) = CorrectionsOf(ledger, i)
          BY DEF RowsOf, CorrectionsOf
        <5>2. \/ /\ Earlier(all, k, "correction", i) = {} /\ all[k].delta = -all[i].delta
              \/ \E c \in Earlier(all, k, "correction", i) :
                    all[k].delta = -(all[i].delta + all[c].delta)
          <6>1. PICK rows \in Seq(Row) : rows = ledger
            BY <1>1
          <6>2. \/ CorrectionsOf(rows, i) = {} /\ NetOfCorrections(i) = rows[i].delta
                \/ \E c \in DOMAIN rows :
                     /\ CorrectionsOf(rows, i) = {c}
                     /\ NetOfCorrections(i) = rows[i].delta + rows[c].delta
            BY <1>1, <4>5, <6>1, NetIs
          <6>3. Earlier(all, k, "correction", i) = CorrectionsOf(ledger, i)
            BY <4>1, <5>1
          <6>4. CASE CorrectionsOf(ledger, i) = {} /\ NetOfCorrections(i) = ledger[i].delta
            BY <4>4, <4>5, <6>3, <6>4
          <6>5. CASE \E c \in DOMAIN ledger :
                        /\ CorrectionsOf(ledger, i) = {c}
                        /\ NetOfCorrections(i) = ledger[i].delta + ledger[c].delta
            <7>1. PICK c \in DOMAIN ledger :
                        /\ CorrectionsOf(ledger, i) = {c}
                        /\ NetOfCorrections(i) = ledger[i].delta + ledger[c].delta
              BY <6>5
            <7>2. c \in Earlier(all, k, "correction", i) /\ all[c] = ledger[c]
              BY <2>5, <6>3, <7>1
            <7>3. all[k].delta = -(all[i].delta + all[c].delta)
              BY <4>4, <4>5, <7>1, <7>2
            <7> QED BY <7>2, <7>3
          <6> QED BY <6>1, <6>2, <6>4, <6>5
        <5> QED BY <4>1, <4>2, <4>3, <4>4, <5>2 DEF Undoes
      <4>7. Fits(all, k)
        BY <4>4, <4>5, <4>6 DEF Fits, OncePerSource
      <4> QED BY <3>1, <4>7
    <3>4. ASSUME NEW i \in SurplusOf(t, cycle), new[j] = TakesSurplus(i), i \in DOMAIN ledger,
                 SurplusWithdrawn(i) \in Int, SurplusWithdrawn(i) > 0,
                 \A l \in 1..(j - 1) : new[l] = e
          PROVE  Fits(all, n + j)
      <4>1. PICK s : s = ledger[i].source
        OBVIOUS
      <4>2. /\ new[j].kind = "purchase_reversal" /\ new[j].source = s
            /\ new[j].delta = -SurplusWithdrawn(i)
        BY <3>4, <4>1 DEF TakesSurplus, Entry
      <4>3. Earlier(all, k, "purchase_reversal", s) = RowsOf(ledger, "purchase_reversal", s)
        <5>1. \A l \in 1..(j - 1) : ~(new[l].kind = "purchase_reversal" /\ new[l].source = s)
          BY <2>4, <3>4
        <5>8. ledger \in Seq(Row) /\ new \in Seq(Row)
          BY <1>1, <1>4, <2>3
        <5>9. Earlier(ledger \o new, k, "purchase_reversal", s) = RowsOf(ledger, "purchase_reversal", s)
          BY <5>8, <3>1, <5>1, EarlierInNew
        <5> QED BY <1>4, <5>9
      <4>4. RowsOf(ledger, "purchase_reversal", s) = {}
        <5>1. new[j].kind \in OncePerSource \union {"correction"}
          BY <4>2 DEF OncePerSource
        <5> QED BY <2>1, <4>2, <5>1, NoConflict
      <4>5. Withdraws(all, k, i) /\ i \in 1..(k - 1)
        <5>1. all[i] = ledger[i] /\ i \in 1..(k - 1)
          BY <2>5, <3>1, <3>4
        <5>2. ledger[i].kind = "purchase"
          BY DEF SurplusOf
        <5> QED BY <3>2, <4>1, <4>2, <5>1, <5>2 DEF Withdraws, ReversalOf
      <4>6. all[k].kind = "purchase_reversal" /\ all[k].delta < 0 /\ all[k].source = s
        BY <3>2, <3>4, <4>2
      <4>7. Fits(all, k)
        BY <4>3, <4>4, <4>5, <4>6 DEF Fits
      <4> QED BY <3>1, <4>7
    <3> QED BY <2>3, <3>3, <3>4 DEF WithdrawsAt
  <2>9. ledger' = all /\ AllFit(ledger') /\ balance' = Balance(ledger')
        /\ DOMAIN ledger \in SUBSET DOMAIN ledger'
    BY <1>4, <2>1, <2>3, <2>8, InsertFits
  <2>10. Carried'
    BY <1>1, <1>5, <2>9, CarriedStays
  <2>11. \A j \in DOMAIN new : new[j].kind # "task_consumption"
                               /\ (new[j].kind = "task_reversal" => new[j].source = t)
    BY <2>3, <2>4 DEF WithdrawsAt, TakesSurplus, Entry
  <2>12. ASSUME NEW u \in Tasks PROVE Settled(all, settledAt'[u], u)
    <3>1. CASE u # t
      <4>1. settledAt'[u] = settledAt[u] /\ Settled(ledger, settledAt[u], u)
        BY <1>1, <2>1, <3>1 DEF AllSettled
      <4>2. \A k \in DOMAIN new :
               ~(new[k].kind \in {"task_consumption", "task_reversal"} /\ new[k].source = u)
        BY <2>11, <3>1
      <4> QED BY <1>1, <1>4, <2>3, <4>1, <4>2, SettledStays
    <3>2. CASE u = t
      <4>1. settledAt'[u] = 0
        BY <1>1, <2>1, <3>2
      <4>2. ASSUME NEW i \in RowsOf(all, "task_consumption", t)
            PROVE  \E m \in RowsOf(all, "task_reversal", t) : i < m
        <5>1. i \in RowsOf(ledger, "task_consumption", t)
          <6>1. i \in DOMAIN all /\ all[i].kind = "task_consumption" /\ all[i].source = t
            BY DEF RowsOf
          <6>2. i \in DOMAIN ledger /\ ledger[i] = all[i]
            BY <2>5, <2>11, <6>1, Zenon
          <6> QED BY <6>1, <6>2 DEF RowsOf
        <5>2. CASE \E m \in RowsOf(ledger, "task_reversal", t) : i < m
          <6>1. PICK m \in RowsOf(ledger, "task_reversal", t) : i < m
            BY <5>2
          <6>2. m \in DOMAIN ledger /\ ledger[m].kind = "task_reversal" /\ ledger[m].source = t
            BY DEF RowsOf
          <6>3. m \in DOMAIN all /\ all[m] = ledger[m]
            BY <2>5, <6>2, Zenon
          <6>4. m \in RowsOf(all, "task_reversal", t)
            BY <6>2, <6>3 DEF RowsOf
          <6> QED BY <6>1, <6>4
        <5>3. CASE ~\E m \in RowsOf(ledger, "task_reversal", t) : i < m
          <6>1. g > 0
            BY <2>7, <5>1, <5>3
          <6>2. n + 1 \in RowsOf(all, "task_reversal", t)
            BY <2>3, <2>4, <2>5, <6>1 DEF RowsOf
          <6>3. i < n + 1
            BY <2>5, <5>1 DEF RowsOf
          <6> QED BY <6>2, <6>3
        <5> QED BY <5>2, <5>3
      <4> QED BY <3>2, <4>1, <4>2 DEF Settled
    <3> QED BY <3>1, <3>2
  <2>13. AllSettled'
    BY <2>9, <2>12 DEF AllSettled
  <2> QED BY <2>9, <2>10, <2>13
<1> QED BY <1>6, <1>7

\* A run of the job keeps the invariant.
LEMMA ExpireFits ==
    ASSUME LedgerInv, ExpireClient
    PROVE  AllFit(ledger)' /\ (balance = Balance(ledger))' /\ AllSettled' /\ Carried'
<1>1. /\ ledger \in Seq(Row) /\ AllFit(ledger) /\ AllSettled /\ Carried
      /\ UNCHANGED <<settledAt, req>>
  BY DEF LedgerInv, TypeOK, ExpireClient
<1>2. PICK n, due, new, all : /\ n = Len(ledger) /\ due = Due(ledger, job.now, job.notBefore)
                              /\ new = ExpireRows(ledger, due) /\ all = ledger \o new
  OBVIOUS
<1>3. due \in SUBSET Batches(ledger) /\ \A i \in due : Remaining(ledger)[i] > 0
  BY <1>2 DEF Due
<1>4. CASE Violates(new)
  <2>1. UNCHANGED <<ledger, balance, settledAt>>
    BY <1>1, <1>2, <1>4 DEF ExpireClient
  <2>2. Carried'
    BY <1>1, <2>1, CarriedStays
  <2> QED BY <2>1, <2>2, NothingWritten
<1>5. CASE ~Violates(new)
  <2>1. Insert(new)
    BY <1>2, <1>5 DEF ExpireClient
  <2>2. /\ new \in Seq(Row)
        /\ \A k \in DOMAIN new : \E i \in due : new[k] = ExpireRow(ledger, i)
        /\ \A k, l \in DOMAIN new : new[k].source = new[l].source => k = l
    <3>1. new = ExpireRows(ledger, due)
      BY <1>2
    <3> QED BY <1>1, <1>3, <3>1, ExpireRowsTake
  <2>3. \A k \in DOMAIN new : new[k].kind = "expire"
    BY <2>2 DEF ExpireRow
  <2>4. ASSUME NEW j \in DOMAIN new PROVE Fits(all, n + j)
    <3>1. PICK k : k = n + j /\ k = Len(ledger) + j
      BY <1>2
    <3>2. /\ n \in Nat /\ j \in Nat /\ j >= 1 /\ k \in Nat /\ k \in DOMAIN all /\ all[k] = new[j]
          /\ DOMAIN ledger = 1..n /\ DOMAIN new = 1..Len(new) /\ Len(new) \in Nat
      BY <1>1, <1>2, <2>2, <3>1, Appended
    <3>3. PICK i \in due : new[j] = ExpireRow(ledger, i)
      BY <2>2
    <3>4. i \in Batches(ledger) /\ i \in 1..n /\ Remaining(ledger)[i] > 0
          /\ Remaining(ledger)[i] \in Nat
      BY <1>1, <1>3, <3>2, RemainingIs DEF Batches
    <3>5. /\ new[j].kind = "expire" /\ new[j].source = i /\ new[j].delta = -Remaining(ledger)[i]
          /\ new[j].nth = 1 + Cardinality(ExpiriesOf(ledger, i))
      BY <1>1, <3>3, <3>4, ExpireRowIsRow
    <3>6. \A l \in 1..(j - 1) : ~(new[l].kind = "expire" /\ new[l].source = i)
      <4> SUFFICES ASSUME NEW l \in 1..(j - 1), new[l].source = i PROVE FALSE
        OBVIOUS
      <4>1. l \in DOMAIN new /\ l # j
        BY <3>2
      <4> QED BY <2>2, <3>5, <4>1
    <3>7. Earlier(all, k, "expire", i) = ExpiriesOf(ledger, i)
      <4>1. ledger \in Seq(Row) /\ new \in Seq(Row)
        BY <1>1, <2>2
      <4>2. ASSUME NEW kind, \A l \in 1..(j - 1) : ~(new[l].kind = kind /\ new[l].source = i)
            PROVE  Earlier(ledger \o new, k, kind, i) = RowsOf(ledger, kind, i)
        BY <3>1, <4>1, <4>2, EarlierInNew
      <4>3. Earlier(ledger \o new, k, "expire", i) = RowsOf(ledger, "expire", i)
        BY <3>6, <4>2
      <4>4. RowsOf(ledger, "expire", i) = ExpiriesOf(ledger, i)
        BY DEF RowsOf, ExpiriesOf
      <4> QED BY <1>2, <4>3, <4>4
    <3>8. /\ all[k].kind = "expire" /\ all[k].source = i /\ all[k].delta < 0
          /\ all[k].nth = 1 + Cardinality(Earlier(all, k, "expire", i)) /\ i \in 1..(k - 1)
      BY <3>1, <3>2, <3>4, <3>5, <3>7
    <3>9. Fits(all, k)
      BY <3>8 DEF Fits, OncePerSource
    <3> QED BY <3>1, <3>9
  <2>5. /\ ledger' = all /\ AllFit(ledger') /\ balance' = Balance(ledger')
        /\ DOMAIN ledger \in SUBSET DOMAIN ledger'
    BY <1>2, <2>1, <2>2, <2>4, InsertFits
  <2>6. Carried'
    BY <1>1, <2>5, CarriedStays
  <2>7. \A t \in Tasks : Settled(all, settledAt[t], t)
    BY <1>1, <1>2, <2>2, <2>3, SettledStays DEF AllSettled
  <2>8. AllSettled'
    BY <1>1, <2>5, <2>7 DEF AllSettled
  <2> QED BY <2>5, <2>6, <2>8
<1> QED BY <1>4, <1>5

\* What a row that follows the ledger has before it.
LEMMA NextRow ==
    ASSUME ledger \in Seq(Row), NEW row \in Row, NEW k, k = Len(ledger) + 1
    PROVE  /\ k \in Nat /\ DOMAIN ledger = 1..(k - 1) /\ (ledger \o <<row>>)[k] = row
           /\ \A i \in DOMAIN ledger : (ledger \o <<row>>)[i] = ledger[i]
           /\ \A kind, source :
                Earlier(ledger \o <<row>>, k, kind, source) = RowsOf(ledger, kind, source)
<1>1. PICK new : new = <<row>>
  OBVIOUS
<1>2. new \in Seq(Row) /\ DOMAIN new = {1} /\ new[1] = row /\ Len(new) = 1
  BY <1>1
<1>3. /\ k \in Nat /\ DOMAIN ledger = 1..(k - 1) /\ (ledger \o new)[k] = row
      /\ \A i \in DOMAIN ledger : (ledger \o new)[i] = ledger[i]
  BY <1>2, Appended
<1>4. ASSUME NEW kind, NEW source
      PROVE  Earlier(ledger \o new, k, kind, source) = RowsOf(ledger, kind, source)
  <2>1. 1 \in DOMAIN new /\ \A l \in 1..(1 - 1) : ~(new[l].kind = kind /\ new[l].source = source)
    BY <1>2
  <2>2. ledger \in Seq(Row) /\ k = Len(ledger) + 1 /\ new \in Seq(Row)
    BY <1>2
  <2> QED BY <2>1, <2>2, EarlierInNew
<1> QED BY <1>1, <1>3, <1>4

\* Requests that keep the ledger.
LEMMA RequestKept ==
    ASSUME LedgerInv, NEW w \in Workers, NEW r \in Requests, Goto(w, r),
           UNCHANGED <<ledger, balance, settledAt>>,
           r.pc = "correct" => r.row \in DOMAIN ledger,
           r.pc = "withdraw" => r.minutes > 0,
           r.pc = "undo" => r.cycle # 0
    PROVE  AllFit(ledger)' /\ (balance = Balance(ledger))' /\ AllSettled' /\ Carried'
<1>1. req \in [Workers -> Requests] /\ Carried
  BY DEF LedgerInv, TypeOK, Requests
<1>2. \A v \in Workers : req'[v] = IF v = w THEN r ELSE req[v]
  BY <1>1 DEF Goto
<1>3. Carried'
  BY <1>1, <1>2 DEF Carried, At
<1> QED BY <1>3, NothingWritten

\* Without crossings, what a request writes is what it has checked.
LEMMA InvStep ==
    ASSUME NoCrossing
    PROVE  LedgerInv /\ [Next]_vars => LedgerInv'
<1> SUFFICES ASSUME LedgerInv, [Next]_vars PROVE LedgerInv'
  OBVIOUS
<1> DEFINE Kept == AllFit(ledger)' /\ (balance = Balance(ledger))' /\ AllSettled' /\ Carried'
<1>0. /\ TypeOK /\ ledger \in Seq(Row) /\ AllFit(ledger) /\ AllSettled /\ Carried
      /\ req \in [Workers -> Requests] /\ settledAt \in [Tasks -> Nat]
      /\ rule.days \in Nat /\ today \in Nat
  <2>1. rule.days \in Nat /\ today \in Nat
    BY HourLedgerAssumption DEF LedgerInv, TypeOK
  <2> QED BY <2>1 DEF LedgerInv, TypeOK, Requests
<1>01. TypeOK'
  BY <1>0, TypeStep
<1> SUFFICES Kept
  BY <1>01 DEF LedgerInv
<1>02. \A w \in Workers : Goto(w, Idle) => \A v \in Workers : req'[v] = req[v] \/ req'[v] = Idle
  BY <1>0 DEF Goto
<1>03. UNCHANGED <<ledger, balance, settledAt, req>> => Kept
  <2> SUFFICES ASSUME UNCHANGED <<ledger, balance, settledAt, req>> PROVE Kept
    OBVIOUS
  <2>1. Carried'
    BY <1>0, CarriedStays
  <2> QED BY <2>1, NothingWritten
<1>1. ASSUME NEW w \in Workers, NEW i \in Invoices, ReadPaidInvoice(w, i) PROVE Kept
  <2>1. PICK r : r = [pc |-> "credit", invoice |-> i, days |-> rule.days]
    OBVIOUS
  <2>2. r \in Requests /\ r.pc = "credit"
    BY <1>0, <2>1 DEF TypeOK, Requests
  <2>3. Goto(w, r) /\ UNCHANGED <<ledger, balance, settledAt>>
    BY <1>1, <2>1 DEF ReadPaidInvoice
  <2> QED BY <2>2, <2>3, RequestKept
<1>2. ASSUME NEW w \in Workers, NEW i \in Invoices, ReadCancelled(w, i) PROVE Kept
  <2>1. PICK k \in CreditOf(i) :
             /\ NetOfCorrections(k) > 0
             /\ Goto(w, [pc |-> "withdraw", invoice |-> i, minutes |-> NetOfCorrections(k)])
    BY <1>2 DEF ReadCancelled
  <2>2. NetOfCorrections(k) \in Int
    BY <1>0, NetIsInt DEF CreditOf
  <2>3. PICK r : r = [pc |-> "withdraw", invoice |-> i, minutes |-> NetOfCorrections(k)]
    OBVIOUS
  <2>4. r \in Requests /\ r.pc = "withdraw" /\ r.minutes > 0
    BY <2>1, <2>2, <2>3 DEF Requests
  <2>5. Goto(w, r) /\ UNCHANGED <<ledger, balance, settledAt>>
    BY <1>2, <2>1, <2>3 DEF ReadCancelled
  <2> QED BY <2>4, <2>5, RequestKept
<1>3. ASSUME NEW w \in Workers, NEW t \in Tasks, ReadSettlement(w, t) PROVE Kept
  <2>1. PICK r : r = [pc |-> "undo", task |-> t, cycle |-> settledAt[t]]
    OBVIOUS
  <2>2. r \in Requests /\ r.pc = "undo" /\ r.cycle # 0
    BY <1>0, <1>3, <2>1 DEF ReadSettlement, Requests
  <2>3. Goto(w, r) /\ UNCHANGED <<ledger, balance, settledAt>>
    BY <1>3, <2>1 DEF ReadSettlement
  <2> QED BY <2>2, <2>3, RequestKept
<1>4. ASSUME NEW w \in Workers, NEW i \in DOMAIN ledger, NEW minutes \in Corrections,
             CheckCorrection(w, i, minutes)
      PROVE  Kept
  <2>1. PICK r : r = [pc |-> "correct", row |-> i, minutes |-> minutes]
    OBVIOUS
  <2>2. i \in Nat /\ minutes \in Int
    BY <1>0, RowsOfLedger, HourLedgerAssumption
  <2>3. r \in Requests /\ r.pc = "correct" /\ r.row \in DOMAIN ledger
    BY <2>1, <2>2 DEF Requests
  <2>4. Goto(w, r) /\ UNCHANGED <<ledger, balance, settledAt>>
    BY <1>4, <2>1 DEF CheckCorrection
  <2> QED BY <2>3, <2>4, RequestKept
<1>5. ASSUME NEW w \in Workers, CreditInvoice(w) PROVE Kept
  <2>1. PICK r \in Requests : r = req[w] /\ r.pc = "credit"
    BY <1>0, <1>5 DEF CreditInvoice, At
  <2>2. r.invoice \in Invoices /\ r.days \in Nat
    <3>1. r.invoice \in Invoices /\ r.days \in Terms
      BY <2>1 DEF Requests, Idle
    <3> QED BY <3>1, HourLedgerAssumption
  <2>3. PICK row : row = Entry("invoice_credit", Worth[r.invoice], r.invoice, TermFrom(today, r.days))
    OBVIOUS
  <2>4. row \in Row /\ row.kind = "invoice_credit" /\ row.delta > 0
    <3>1. Worth[r.invoice] \in Int /\ Worth[r.invoice] > 0
      <4>1. Worth[r.invoice] \in Nat \ {0}
        BY <2>2, HourLedgerAssumption
      <4> QED BY <4>1
    <3>2. r.invoice \in Sources /\ "invoice_credit" \in Kinds
      BY <2>2 DEF Sources, Kinds
    <3>3. TermFrom(today, r.days) \in Nat
      BY <1>0, <2>2 DEF TermFrom, NoTerm
    <3> QED BY <2>3, <3>1, <3>2, <3>3, EntryIsRow
  <2>5. ASSUME ~Violates(<<row>>) PROVE Fits(ledger \o <<row>>, Len(ledger) + 1)
    <3>1. PICK new, k : new = <<row>> /\ k = Len(ledger) + 1
      OBVIOUS
    <3>9. /\ (ledger \o <<row>>)[k] = row
          /\ \A kind, source :
               Earlier(ledger \o <<row>>, k, kind, source) = RowsOf(ledger, kind, source)
      BY <1>0, <2>4, <3>1, NextRow
    <3>8. PICK all : all = ledger \o <<row>>
      OBVIOUS
    <3>2. all[k] = row /\ \A kind, source : Earlier(all, k, kind, source) = RowsOf(ledger, kind, source)
      BY <3>8, <3>9
    <3>3. RowsOf(ledger, "invoice_credit", row.source) = {}
      <4>1. 1 \in DOMAIN new /\ new[1] = row /\ ~Violates(new)
        BY <2>4, <2>5, <3>1
      <4> QED BY <2>4, <4>1, NoConflict DEF OncePerSource
    <3>4. Fits(all, k)
      BY <2>4, <3>2, <3>3 DEF Fits
    <3> QED BY <3>1, <3>4, <3>8
  <2>6. ApplyEntry(row) /\ UNCHANGED settledAt /\ Goto(w, Idle)
    BY <1>5, <2>1, <2>3 DEF CreditInvoice
  <2> QED BY <1>02, <2>4, <2>5, <2>6, EntryFits
<1>6. ASSUME NEW w \in Workers, Undo(w) PROVE Kept
  BY <1>6, UndoFits
<1>7. ASSUME NEW w \in Workers, WriteCorrection(w) PROVE Kept
  <2>1. PICK r \in Requests : r = req[w] /\ r.pc = "correct"
    BY <1>0, <1>7 DEF WriteCorrection, At
  <2>2. PICK i \in Nat, m \in Int : i = r.row /\ m = r.minutes
    BY <2>1 DEF Requests, Idle
  <2>3. i \in DOMAIN ledger /\ Correctable(i, m)
    BY <1>0, <1>7, <2>1, <2>2 DEF NoCrossing, WriteCorrection, Carried, At
  <2>4. PICK row : row = Entry("correction", m, i, NoTerm)
    OBVIOUS
  <2>5. row \in Row /\ row.kind = "correction" /\ row.delta = m /\ row.source = i
    <3>1. i \in Sources /\ "correction" \in Kinds /\ NoTerm \in Nat
      BY DEF Sources, Kinds, NoTerm
    <3> QED BY <2>4, <3>1, EntryIsRow
  <2>6. ASSUME ~Violates(<<row>>) PROVE Fits(ledger \o <<row>>, Len(ledger) + 1)
    <3>1. PICK new, k : new = <<row>> /\ k = Len(ledger) + 1
      OBVIOUS
    <3>9. /\ (ledger \o <<row>>)[k] = row /\ DOMAIN ledger = 1..(k - 1)
          /\ \A l \in DOMAIN ledger : (ledger \o <<row>>)[l] = ledger[l]
          /\ \A kind, source :
               Earlier(ledger \o <<row>>, k, kind, source) = RowsOf(ledger, kind, source)
      BY <1>0, <2>5, <3>1, NextRow
    <3>8. PICK all : all = ledger \o <<row>>
      OBVIOUS
    <3>2. /\ all[k] = row /\ DOMAIN ledger = 1..(k - 1)
          /\ \A l \in DOMAIN ledger : all[l] = ledger[l]
          /\ \A kind, source : Earlier(all, k, kind, source) = RowsOf(ledger, kind, source)
      BY <3>8, <3>9
    <3>3. RowsOf(ledger, "correction", i) = {}
      <4>1. 1 \in DOMAIN new /\ new[1] = row /\ ~Violates(new)
        BY <2>5, <2>6, <3>1
      <4> QED BY <2>5, <4>1, NoConflict
    <3>4. Corrects(all, k, i)
      <4>1. all[i] = ledger[i] /\ i \in 1..(k - 1)
        BY <2>3, <3>2
      <4>2. ASSUME ledger[i].kind = "task_consumption"
            PROVE  \A l \in RowsOf(ledger, "task_reversal", ledger[i].source) : l < i
        <5>1. CycleOpen(i)
          BY <2>3, <4>2 DEF Correctable
        <5> SUFFICES ASSUME NEW l \in RowsOf(ledger, "task_reversal", ledger[i].source) PROVE l < i
          OBVIOUS
        <5>2. ~(l >= i) /\ l \in DOMAIN ledger
          BY <5>1 DEF CycleOpen, RowsOf
        <5> QED BY <1>0, <5>2, RowsOfLedger
      <4> QED BY <2>3, <2>5, <3>2, <4>1, <4>2 DEF Corrects, Correctable
    <3>5. Fits(all, k)
      BY <2>5, <3>2, <3>3, <3>4 DEF Fits
    <3> QED BY <3>1, <3>5, <3>8
  <2>7. ApplyEntry(row) /\ UNCHANGED settledAt /\ Goto(w, Idle)
    BY <1>7, <2>1, <2>2, <2>4 DEF WriteCorrection
  <2> QED BY <1>02, <2>5, <2>6, <2>7, EntryFits
<1>8. ASSUME NEW w \in Workers, Withdraw(w) PROVE Kept
  <2>1. PICK r \in Requests : r = req[w] /\ r.pc = "withdraw"
    BY <1>0, <1>8 DEF Withdraw, At
  <2>2. PICK i \in Invoices, m \in Nat : i = r.invoice /\ m = r.minutes
    BY <2>1 DEF Requests, Idle
  <2>3. m > 0
    BY <1>0, <2>1, <2>2 DEF Carried, At
  <2>4. PICK c \in CreditOf(i) : TRUE
    BY <1>8, <2>1, <2>2 DEF Withdraw
  <2>5. PICK row : row = Entry("invoice_credit_reversal", -m, i, NoTerm)
    OBVIOUS
  <2>6. row \in Row /\ row.kind = "invoice_credit_reversal" /\ row.delta < 0 /\ row.source = i
    <3>1. i \in Sources /\ "invoice_credit_reversal" \in Kinds /\ NoTerm \in Nat /\ -m \in Int
      BY DEF Sources, Kinds, NoTerm
    <3>2. row \in Row /\ row.kind = "invoice_credit_reversal" /\ row.delta = -m /\ row.source = i
      BY <2>5, <3>1, EntryIsRow
    <3> QED BY <2>3, <3>2
  <2>7. ASSUME ~Violates(<<row>>) PROVE Fits(ledger \o <<row>>, Len(ledger) + 1)
    <3>1. PICK new, k : new = <<row>> /\ k = Len(ledger) + 1
      OBVIOUS
    <3>9. /\ (ledger \o <<row>>)[k] = row /\ DOMAIN ledger = 1..(k - 1)
          /\ \A l \in DOMAIN ledger : (ledger \o <<row>>)[l] = ledger[l]
          /\ \A kind, source :
               Earlier(ledger \o <<row>>, k, kind, source) = RowsOf(ledger, kind, source)
      BY <1>0, <2>6, <3>1, NextRow
    <3>8. PICK all : all = ledger \o <<row>>
      OBVIOUS
    <3>2. /\ all[k] = row /\ DOMAIN ledger = 1..(k - 1)
          /\ \A l \in DOMAIN ledger : all[l] = ledger[l]
          /\ \A kind, source : Earlier(all, k, kind, source) = RowsOf(ledger, kind, source)
      BY <3>8, <3>9
    <3>3. RowsOf(ledger, "invoice_credit_reversal", i) = {}
      <4>1. 1 \in DOMAIN new /\ new[1] = row /\ ~Violates(new)
        BY <2>6, <2>7, <3>1
      <4> QED BY <2>6, <4>1, NoConflict DEF OncePerSource
    <3>4. c \in 1..(k - 1) /\ Withdraws(all, k, c)
      <4>1. c \in DOMAIN ledger /\ ledger[c].kind = "invoice_credit" /\ ledger[c].source = i
        BY DEF CreditOf
      <4>2. c \in 1..(k - 1) /\ all[c] = ledger[c]
        BY <3>2, <4>1
      <4> QED BY <2>6, <3>2, <4>1, <4>2 DEF Withdraws, ReversalOf
    <3>5. Fits(all, k)
      BY <2>6, <3>2, <3>3, <3>4 DEF Fits
    <3> QED BY <3>1, <3>5, <3>8
  <2>8. ApplyEntry(row) /\ UNCHANGED settledAt /\ Goto(w, Idle)
    BY <1>8, <2>1, <2>2, <2>5 DEF Withdraw
  <2> QED BY <1>02, <2>6, <2>7, <2>8, EntryFits
<1>9. ASSUME NEW w \in Workers, Fail(w) PROVE Kept
  <2>1. UNCHANGED <<ledger, balance, settledAt>> /\ Goto(w, Idle)
    BY <1>9 DEF Fail
  <2>2. Carried'
    BY <1>0, <1>02, <2>1, CarriedStays
  <2> QED BY <2>1, <2>2, NothingWritten
<1>10. ASSUME NEW minutes \in Adjustments, AdjustHourCredit(minutes) PROVE Kept
  <2>1. PICK term : term = IF minutes > 0 THEN TermFrom(today, rule.days) ELSE NoTerm
    OBVIOUS
  <2>2. PICK row : row = Entry("manual", minutes, 0, term)
    OBVIOUS
  <2>3. row \in Row /\ row.kind = "manual"
    <3>1. minutes \in Int /\ 0 \in Sources /\ term \in Nat /\ "manual" \in Kinds
      BY <1>0, <2>1, HourLedgerAssumption DEF Sources, Kinds, NoTerm, TermFrom
    <3> QED BY <2>2, <3>1, EntryIsRow
  <2>4. PICK new, all : new = <<row>> /\ all = ledger \o new
    OBVIOUS
  <2>5. /\ Insert(new) /\ UNCHANGED <<settledAt, req>>
        /\ new \in Seq(Row) /\ DOMAIN new = {1} /\ new[1] = row
    BY <1>10, <2>1, <2>2, <2>3, <2>4 DEF AdjustHourCredit
  <2>6. \A j \in DOMAIN new : Fits(all, Len(ledger) + j)
    <3>1. PICK k : k = Len(ledger) + 1
      OBVIOUS
    <3>9. (ledger \o <<row>>)[k] = row
      BY <1>0, <2>3, <3>1, NextRow
    <3>2. all[k] = row
      BY <2>4, <3>9
    <3>3. Fits(all, k)
      BY <2>3, <3>2 DEF Fits, OncePerSource
    <3> QED BY <2>5, <3>1, <3>3
  <2>7. /\ ledger' = all /\ AllFit(ledger') /\ balance' = Balance(ledger')
        /\ DOMAIN ledger \in SUBSET DOMAIN ledger'
    BY <2>4, <2>5, <2>6, InsertFits
  <2>8. Carried'
    BY <1>0, <2>5, <2>7, CarriedStays
  <2>9. \A t \in Tasks : Settled(all, settledAt[t], t)
    <3>1. \A t \in Tasks, j \in DOMAIN new :
             ~(new[j].kind \in {"task_consumption", "task_reversal"} /\ new[j].source = t)
      BY <2>3, <2>5
    <3> QED BY <1>0, <2>4, <2>5, <3>1, SettledStays DEF AllSettled
  <2>10. AllSettled'
    BY <2>5, <2>7, <2>9 DEF AllSettled
  <2> QED BY <2>7, <2>8, <2>10
<1>11. ASSUME NEW t \in Tasks, NEW actual \in Actuals, Settle(t, actual) PROVE Kept
  BY <1>11, SettleFits
<1>12. ASSUME NEW i \in Invoices, CancelInvoice(i) PROVE Kept
  BY <1>03, <1>12 DEF CancelInvoice
<1>13. ASSUME NEW days \in Terms, UpdateRules(days) PROVE Kept
  BY <1>03, <1>13 DEF UpdateRules
<1>14. CASE StartJob
  BY <1>03, <1>14 DEF StartJob
<1>15. CASE ExpireClient
  BY <1>15, ExpireFits
<1>16. CASE NextDay
  BY <1>03, <1>16 DEF NextDay
<1>17. CASE UNCHANGED vars
  BY <1>03, <1>17 DEF vars
<1> QED BY <1>1, <1>2, <1>3, <1>4, <1>5, <1>6, <1>7, <1>8, <1>9, <1>10, <1>11, <1>12, <1>13,
           <1>14, <1>15, <1>16, <1>17 DEF Next, RequestStep

\* The invariant holds in every state.
LEMMA LedgerInvHolds ==
    ASSUME NoCrossing
    PROVE  Spec => []LedgerInv
<1>1. Init => LedgerInv
  BY InvInit
<1>2. LedgerInv /\ [Next]_vars => LedgerInv'
  BY InvStep
<1> QED BY <1>1, <1>2, PTL DEF Spec, SafetySpec

(***************************************************************************)
(* What the invariant says of the ledger.                                  *)
(***************************************************************************)
\* The consumption of an undone settlement, its correction and the reversal.
LEMMA UndoneIsExact ==
    ASSUME LedgerInv, NEW i \in DOMAIN ledger, ledger[i].kind = "task_consumption",
           NEW t, t = ledger[i].source, NEW k \in DOMAIN ledger, k > i,
           ledger[k].kind = "task_reversal", ledger[k].source = t,
           \A m \in RowsOf(ledger, "task_reversal", t) : m > i => k <= m
    PROVE  NetOfCorrections(i) + ledger[k].delta = 0
<1>1. /\ ledger \in Seq(Row) /\ AllFit(ledger) /\ Len(ledger) \in Nat
      /\ DOMAIN ledger = 1..Len(ledger) /\ \A l \in DOMAIN ledger : ledger[l].delta \in Int
  BY RowsOfLedger DEF LedgerInv, TypeOK
<1>2. PICK p \in 1..(k - 1) : Undoes(ledger, k, p)
  BY <1>1 DEF AllFit, Fits
<1>3. /\ p \in DOMAIN ledger /\ ledger[p].kind = "task_consumption" /\ ledger[p].source = t
      /\ p < k /\ \A m \in Earlier(ledger, k, "task_reversal", t) : m < p
  BY <1>1, <1>2 DEF Undoes, Earlier
<1>4. ~(p < i)
  <2> SUFFICES ASSUME p < i PROVE FALSE
    OBVIOUS
  <2>1. p \in Earlier(ledger, i, "task_consumption", t)
    BY <1>1, <1>3 DEF Earlier
  <2>2. PICK m \in Earlier(ledger, i, "task_reversal", t) : p < m
    BY <1>1, <2>1 DEF AllFit, Fits
  <2>3. m \in Earlier(ledger, k, "task_reversal", t)
    BY <1>1, <2>2 DEF Earlier
  <2> QED BY <1>1, <1>3, <2>2, <2>3 DEF Earlier
<1>5. ~(i < p)
  <2> SUFFICES ASSUME i < p PROVE FALSE
    OBVIOUS
  <2>1. i \in Earlier(ledger, p, "task_consumption", t)
    BY <1>1, <1>3 DEF Earlier
  <2>2. PICK m \in Earlier(ledger, p, "task_reversal", t) : i < m
    BY <1>1, <1>3, <2>1 DEF AllFit, Fits
  <2>3. m \in RowsOf(ledger, "task_reversal", t) /\ m < k /\ m \in Nat
    BY <1>1, <1>3, <2>2 DEF Earlier, RowsOf
  <2> QED BY <1>1, <2>2, <2>3
<1>6. p = i
  BY <1>1, <1>4, <1>5
<1>7. CASE CorrectionsOf(ledger, i) = {} /\ NetOfCorrections(i) = ledger[i].delta
  <2>1. Earlier(ledger, k, "correction", i) \subseteq CorrectionsOf(ledger, i)
    BY <1>1 DEF Earlier, CorrectionsOf
  <2>2. ledger[k].delta = -ledger[i].delta
    BY <1>2, <1>6, <1>7, <2>1 DEF Undoes
  <2> QED BY <1>1, <1>7, <2>2
<1>8. ASSUME NEW c \in DOMAIN ledger,
             CorrectionsOf(ledger, i) = {c}, Corrects(ledger, c, i),
             ledger[c].kind = "correction", ledger[c].source = i,
             NetOfCorrections(i) = ledger[i].delta + ledger[c].delta
      PROVE  NetOfCorrections(i) + ledger[k].delta = 0
  <2>1. ~(k < c)
    <3> SUFFICES ASSUME k < c PROVE FALSE
      OBVIOUS
    <3>1. k \in Earlier(ledger, c, "task_reversal", t)
      BY <1>1 DEF Earlier
    <3>2. k < i
      BY <1>8, <3>1 DEF Corrects
    <3> QED BY <1>1, <3>2
  <2>2. c < k
    BY <1>1, <1>8, <2>1
  <2>3. c \in Earlier(ledger, k, "correction", i)
    BY <1>1, <1>8, <2>2 DEF Earlier
  <2>4. PICK d \in Earlier(ledger, k, "correction", i) :
           ledger[k].delta = -(ledger[i].delta + ledger[d].delta)
    BY <1>2, <1>6, <2>3 DEF Undoes
  <2>5. d \in CorrectionsOf(ledger, i)
    BY <1>1 DEF Earlier, CorrectionsOf
  <2>6. d = c
    BY <1>8, <2>5
  <2> QED BY <1>1, <1>8, <2>4, <2>6
<1>9. PICK rows : rows = ledger
  OBVIOUS
<1>10. \/ CorrectionsOf(rows, i) = {} /\ NetOfCorrections(i) = rows[i].delta
       \/ \E c \in DOMAIN rows :
            /\ CorrectionsOf(rows, i) = {c} /\ Corrects(rows, c, i)
            /\ rows[c].kind = "correction" /\ rows[c].source = i
            /\ NetOfCorrections(i) = rows[i].delta + rows[c].delta
  BY <1>1, <1>9, NetIs
<1> QED BY <1>7, <1>8, <1>9, <1>10

\* A reopen gives back exactly what its Done took, corrected in between or not, if
\* what a correction has checked still holds when it is written (ReopenIsExact).
THEOREM ReopensAreExact ==
    ASSUME NoCrossing
    PROVE  Spec => []ReopenIsExact
<1>1. LedgerInv => ReopenIsExact
  <2> SUFFICES ASSUME LedgerInv, NEW i \in DOMAIN ledger, ledger[i].kind = "task_consumption",
                      NEW t, t = ledger[i].source, settledAt[t] = 0 \/ settledAt[t] > i,
                      NEW undone, undone = {k \in DOMAIN ledger : k > i
                                              /\ ledger[k].kind = "task_reversal"
                                              /\ ledger[k].source = t}
               PROVE  \E k \in undone : /\ \A m \in undone : k <= m
                                        /\ NetOfCorrections(i) + ledger[k].delta = 0
    BY DEF ReopenIsExact
  <2>1. /\ ledger \in Seq(Row) /\ AllFit(ledger) /\ AllSettled
        /\ Len(ledger) \in Nat /\ DOMAIN ledger = 1..Len(ledger)
    BY RowsOfLedger DEF LedgerInv, TypeOK
  <2>2. t \in Tasks
    BY <2>1 DEF AllFit, Fits
  <2>3. \E m \in RowsOf(ledger, "task_reversal", t) : i < m
    <3>1. Settled(ledger, settledAt[t], t) /\ i \in RowsOf(ledger, "task_consumption", t)
      BY <2>1, <2>2 DEF AllSettled, RowsOf
    <3>2. i \in Nat /\ ~(settledAt[t] # 0 /\ i = settledAt[t])
      BY <2>1
    <3> QED BY <3>1, <3>2 DEF Settled
  <2>4. undone # {} /\ undone \in SUBSET (1..Len(ledger))
    BY <2>1, <2>3 DEF RowsOf
  <2>5. PICK k \in undone : \A m \in undone : k <= m
    BY <2>1, <2>4, OldestIs
  <2>6. \A m \in RowsOf(ledger, "task_reversal", t) : m > i => k <= m
    BY <2>5 DEF RowsOf
  <2>7. k \in DOMAIN ledger /\ k > i /\ ledger[k].kind = "task_reversal" /\ ledger[k].source = t
    BY <2>5
  <2>8. NetOfCorrections(i) + ledger[k].delta = 0
    BY <2>6, <2>7, UndoneIsExact
  <2> QED BY <2>5, <2>8
<1> QED BY <1>1, LedgerInvHolds, PTL

\* What remainingBatches leaves of all batches is the cached balance, under the
\* same condition (BatchesAreBalance).
THEOREM BatchesMakeBalance ==
    ASSUME NoCrossing
    PROVE  Spec => []BatchesAreBalance
<1>1. LedgerInv => BatchesAreBalance
  <2> SUFFICES ASSUME LedgerInv
               PROVE  SumOver(Len(ledger), DOMAIN Remaining(ledger), Remaining(ledger))
                        = AtLeastZero(balance)
    BY DEF BatchesAreBalance
  <2>1. ledger \in Seq(Row) /\ AllFit(ledger) /\ balance = Balance(ledger)
    BY DEF LedgerInv, TypeOK
  <2>2. DOMAIN Remaining(ledger) = Batches(ledger)
    BY <2>1, RemainingIs
  <2>3. SumOver(Len(ledger), Batches(ledger), Remaining(ledger)) = AtLeastZero(Balance(ledger))
    BY <2>1, RemainingIsBalance
  <2> QED BY <2>1, <2>2, <2>3
<1> QED BY <1>1, LedgerInvHolds, PTL

\* Minutes a reopen gives back keep the term of the batch they were taken from: once
\* all terms have passed and nothing is due, nothing is left (NothingEscapesItsTerm).
THEOREM TermsHold ==
    ASSUME NoCrossing
    PROVE  Spec => []NothingEscapesItsTerm
<1>1. LedgerInv => NothingEscapesItsTerm
  <2> SUFFICES ASSUME LedgerInv,
                      \A i \in DOMAIN ledger :
                        ledger[i].kind \in {"manual", "invoice_credit", "purchase"}
                          /\ ledger[i].delta > 0
                            => ledger[i].expires # NoTerm /\ ledger[i].expires < today,
                      Due(ledger, today, Never) = {}
               PROVE  balance <= 0
    BY DEF NothingEscapesItsTerm
  <2>1. /\ ledger \in Seq(Row) /\ AllFit(ledger) /\ balance = Balance(ledger) /\ balance \in Int
        /\ Len(ledger) \in Nat /\ DOMAIN ledger = 1..Len(ledger)
        /\ \A k \in DOMAIN ledger : /\ ledger[k].delta \in Int /\ ledger[k].kind \in Kinds
                                    /\ ledger[k].expires \in Nat
    BY RowsOfLedger DEF LedgerInv, TypeOK
  <2>2. ASSUME NEW i \in Batches(ledger) PROVE Remaining(ledger)[i] = 0
    <3>1. /\ i \in DOMAIN ledger /\ ledger[i].delta > 0
          /\ ledger[i].kind \notin {"task_reversal", "correction"}
      BY DEF Batches
    <3>2. ledger[i].kind \in {"manual", "invoice_credit", "purchase"}
      <4>1. ledger[i].kind \notin {"invoice_credit_reversal", "purchase_reversal",
                                   "overage_invoiced", "task_consumption", "expire"}
        BY <2>1, <3>1 DEF AllFit, Fits
      <4> QED BY <2>1, <3>1, <4>1 DEF Kinds
    <3>3. ledger[i].expires # NoTerm /\ ledger[i].expires < today /\ ledger[i].expires >= Never
      BY <2>1, <3>1, <3>2 DEF Never
    <3>4. ~(Remaining(ledger)[i] > 0)
      BY <3>3 DEF Due
    <3> QED BY <2>1, <3>4, RemainingIs
  <2>3. SumOver(Len(ledger), Batches(ledger), Remaining(ledger)) = 0
    BY <2>1, <2>2, SumOfNothing
  <2>4. AtLeastZero(balance) = 0
    BY <2>1, <2>3, RemainingIsBalance
  <2> QED BY <2>1, <2>4 DEF AtLeastZero
<1> QED BY <1>1, LedgerInvHolds, PTL

(***************************************************************************)
(* What each step writes.                                                  *)
(***************************************************************************)

\* Rows that neither adjust a batch nor take minutes of one.
PlainKinds == {"manual", "invoice_credit", "task_consumption", "overage_invoiced", "purchase"}
WritesPlainly ==
    \E new \in Seq(Row) : /\ ledger' = ledger \o new
                          /\ \A k \in DOMAIN new : new[k].kind \in PlainKinds

\* applyLedgerEntry writes one row or none.
LEMMA OneWritten ==
    ASSUME NEW row \in Row, ApplyEntry(row)
    PROVE  \/ UNCHANGED ledger
           \/ ~Violates(<<row>>) /\ ledger' = ledger \o <<row>> /\ <<row>> \in Seq(Row)
              /\ DOMAIN <<row>> = {1} /\ <<row>>[1] = row
<1>1. <<row>> \in Seq(Row) /\ DOMAIN <<row>> = {1} /\ <<row>>[1] = row
  OBVIOUS
<1>2. UNCHANGED ledger \/ (~Violates(<<row>>) /\ ledger' = ledger \o <<row>>)
  BY DEF ApplyEntry, Insert
<1> QED BY <1>1, <1>2

\* A step writes nothing, or plain rows, or is one of four.
LEMMA RowsWritten ==
    ASSUME LedgerInv, [Next]_vars
    PROVE  \/ UNCHANGED ledger
           \/ ExpireClient
           \/ \E w \in Workers : WriteCorrection(w) \/ Withdraw(w) \/ Undo(w)
           \/ WritesPlainly
<1>0. /\ ledger \in Seq(Row) /\ balance \in Int /\ req \in [Workers -> Requests]
      /\ rule.days \in Nat /\ today \in Nat
  BY HourLedgerAssumption DEF LedgerInv, TypeOK, Requests
<1>1. ASSUME NEW w \in Workers, CreditInvoice(w) PROVE UNCHANGED ledger \/ WritesPlainly
  <2>1. PICK r \in Requests : r = req[w] /\ r.pc = "credit"
    BY <1>0, <1>1 DEF CreditInvoice, At
  <2>2. r.invoice \in Invoices /\ r.days \in Nat
    <3>1. r.invoice \in Invoices /\ r.days \in Terms
      BY <2>1 DEF Requests, Idle
    <3> QED BY <3>1, HourLedgerAssumption
  <2>3. PICK row : row = Entry("invoice_credit", Worth[r.invoice], r.invoice, TermFrom(today, r.days))
    OBVIOUS
  <2>4. row \in Row /\ row.kind = "invoice_credit"
    <3>1. Worth[r.invoice] \in Int /\ r.invoice \in Sources /\ "invoice_credit" \in Kinds
      BY <2>2, HourLedgerAssumption DEF Sources, Kinds
    <3>2. TermFrom(today, r.days) \in Nat
      BY <1>0, <2>2 DEF TermFrom, NoTerm
    <3> QED BY <2>3, <3>1, <3>2, EntryIsRow
  <2>5. ApplyEntry(row)
    BY <1>1, <2>1, <2>3 DEF CreditInvoice
  <2>6. CASE UNCHANGED ledger
    BY <2>6
  <2>7. CASE ledger' = ledger \o <<row>> /\ <<row>> \in Seq(Row)
             /\ DOMAIN <<row>> = {1} /\ <<row>>[1] = row
    BY <2>4, <2>7 DEF WritesPlainly, PlainKinds
  <2> QED BY <2>4, <2>5, <2>6, <2>7, OneWritten
<1>2. ASSUME NEW minutes \in Adjustments, AdjustHourCredit(minutes) PROVE WritesPlainly
  <2>1. PICK term : term = IF minutes > 0 THEN TermFrom(today, rule.days) ELSE NoTerm
    OBVIOUS
  <2>2. PICK row : row = Entry("manual", minutes, 0, term)
    OBVIOUS
  <2>3. row \in Row /\ row.kind = "manual"
    <3>1. minutes \in Int /\ 0 \in Sources /\ term \in Nat /\ "manual" \in Kinds
      BY <1>0, <2>1, HourLedgerAssumption DEF Sources, Kinds, NoTerm, TermFrom
    <3> QED BY <2>2, <3>1, EntryIsRow
  <2>4. /\ ledger' = ledger \o <<row>> /\ <<row>> \in Seq(Row)
        /\ DOMAIN <<row>> = {1} /\ <<row>>[1] = row
    BY <1>2, <2>1, <2>2, <2>3 DEF AdjustHourCredit, Insert
  <2> QED BY <2>3, <2>4 DEF WritesPlainly, PlainKinds
<1>3. ASSUME NEW t \in Tasks, NEW actual \in Actuals, Settle(t, actual) PROVE WritesPlainly
  <2>1. PICK n, new : n = Len(ledger) /\ new = SettlementRows(t, Split(actual, balance))
    OBVIOUS
  <2>2. ledger' = ledger \o new
    BY <1>3, <2>1 DEF Settle, Insert
  <2>3. PICK minutes \in Nat \ {0}, kept \in Nat \ {0}, term \in Nat :
              /\ SettlementForm(new, n, t, minutes, kept, term)
              /\ Consumes(t, minutes) \in Row /\ Traces(t) \in Row
              /\ Keeps(kept, n + 1, term) \in Row /\ Keeps(kept, n + 2, term) \in Row
    BY <1>0, <2>1, SettlementRowsAre
  <2>4. PICK c, o, p1, p2 : /\ c = Consumes(t, minutes) /\ o = Traces(t)
                            /\ p1 = Keeps(kept, n + 1, term) /\ p2 = Keeps(kept, n + 2, term)
    OBVIOUS
  <2>5. /\ c \in Row /\ o \in Row /\ p1 \in Row /\ p2 \in Row
        /\ c.kind \in PlainKinds /\ o.kind \in PlainKinds
        /\ p1.kind \in PlainKinds /\ p2.kind \in PlainKinds
    BY <2>3, <2>4 DEF Consumes, Traces, Keeps, Entry, PlainKinds
  <2>6. new = <<c>> \/ new = <<o>> \/ new = <<o, p1>> \/ new = <<c, o>> \/ new = <<c, o, p2>>
    BY <2>3, <2>4 DEF SettlementForm
  <2>7. \A a \in Row, b \in Row, d \in Row :
           (/\ a.kind \in PlainKinds /\ b.kind \in PlainKinds /\ d.kind \in PlainKinds
            /\ (new = <<a>> \/ new = <<a, b>> \/ new = <<a, b, d>>))
              => new \in Seq(Row) /\ \A k \in DOMAIN new : new[k].kind \in PlainKinds
    <3> SUFFICES ASSUME NEW a \in Row, NEW b \in Row, NEW d \in Row,
                        a.kind \in PlainKinds, b.kind \in PlainKinds, d.kind \in PlainKinds,
                        new = <<a>> \/ new = <<a, b>> \/ new = <<a, b, d>>
                 PROVE  new \in Seq(Row) /\ \A k \in DOMAIN new : new[k].kind \in PlainKinds
      OBVIOUS
    <3>1. CASE new = <<a>>
      BY <3>1
    <3>2. CASE new = <<a, b>>
      BY <3>2
    <3>3. CASE new = <<a, b, d>>
      BY <3>3
    <3> QED BY <3>1, <3>2, <3>3
  <2>8. new \in Seq(Row) /\ \A k \in DOMAIN new : new[k].kind \in PlainKinds
    BY <2>5, <2>6, <2>7
  <2> QED BY <2>2, <2>8 DEF WritesPlainly
<1>4. ASSUME NEW w \in Workers, RequestStep(w)
      PROVE  UNCHANGED ledger \/ CreditInvoice(w) \/ WriteCorrection(w) \/ Withdraw(w) \/ Undo(w)
  BY <1>4 DEF RequestStep, ReadPaidInvoice, ReadCancelled, ReadSettlement, CheckCorrection, Fail
<1>5. ASSUME NEW i \in Invoices, CancelInvoice(i) PROVE UNCHANGED ledger
  BY <1>5 DEF CancelInvoice
<1>6. ASSUME NEW days \in Terms, UpdateRules(days) PROVE UNCHANGED ledger
  BY <1>6 DEF UpdateRules
<1>7. StartJob \/ NextDay \/ UNCHANGED vars => UNCHANGED ledger
  BY DEF StartJob, NextDay, vars
<1> QED BY <1>1, <1>2, <1>3, <1>4, <1>5, <1>6, <1>7 DEF Next

\* A correction is checked when it is written.
LEMMA CorrectionWritten ==
    ASSUME NoCrossing, LedgerInv, NEW w \in Workers, WriteCorrection(w)
    PROVE  \/ UNCHANGED ledger
           \/ \E row \in Row : /\ ledger' = ledger \o <<row>>
                               /\ row.kind = "correction" /\ row.source \in DOMAIN ledger
                               /\ Correctable(row.source, row.delta)
                               /\ RowsOf(ledger, "correction", row.source) = {}
<1>0. req \in [Workers -> Requests] /\ Carried
  BY DEF LedgerInv, TypeOK, Requests
<1>1. PICK r \in Requests : r = req[w] /\ r.pc = "correct"
  BY <1>0 DEF WriteCorrection, At
<1>2. PICK i \in Nat, m \in Int : i = r.row /\ m = r.minutes
  BY <1>1 DEF Requests, Idle
<1>3. i \in DOMAIN ledger /\ Correctable(i, m)
  BY <1>0, <1>1, <1>2 DEF NoCrossing, WriteCorrection, Carried, At
<1>4. PICK row : row = Entry("correction", m, i, NoTerm)
  OBVIOUS
<1>5. row \in Row /\ row.kind = "correction" /\ row.delta = m /\ row.source = i
  <2>1. i \in Sources /\ "correction" \in Kinds /\ NoTerm \in Nat
    BY DEF Sources, Kinds, NoTerm
  <2> QED BY <1>4, <2>1, EntryIsRow
<1>6. ApplyEntry(row)
  BY <1>1, <1>2, <1>4 DEF WriteCorrection
<1>7. ASSUME ~Violates(<<row>>) PROVE RowsOf(ledger, "correction", i) = {}
  <2>1. PICK new : new = <<row>>
    OBVIOUS
  <2>2. 1 \in DOMAIN new /\ new[1] = row /\ ~Violates(new)
    BY <1>5, <1>7, <2>1
  <2> QED BY <1>5, <2>2, NoConflict
<1> QED BY <1>3, <1>5, <1>6, <1>7, OneWritten

\* What is withdrawn for a cancelled invoice is what its credit holds.
LEMMA WithdrawalWritten ==
    ASSUME NoCrossing, LedgerInv, NEW w \in Workers, Withdraw(w)
    PROVE  \/ UNCHANGED ledger
           \/ \E row \in Row, c \in DOMAIN ledger :
                 /\ ledger' = ledger \o <<row>>
                 /\ row.kind = "invoice_credit_reversal" /\ row.source = ledger[c].source
                 /\ ledger[c].kind = "invoice_credit"
                 /\ row.delta = -NetOfCorrections(c) /\ row.delta < 0
                 /\ "late" \in Env \/ ExpiriesOf(ledger, c) = {}
                 /\ RowsOf(ledger, "invoice_credit_reversal", row.source) = {}
<1>0. req \in [Workers -> Requests] /\ Carried
  BY DEF LedgerInv, TypeOK, Requests
<1>1. PICK r \in Requests : r = req[w] /\ r.pc = "withdraw"
  BY <1>0 DEF Withdraw, At
<1>2. PICK i \in Invoices, m \in Nat : i = r.invoice /\ m = r.minutes
  BY <1>1 DEF Requests, Idle
<1>3. m > 0
  BY <1>0, <1>1, <1>2 DEF Carried, At
<1>4. PICK c \in CreditOf(i) : NetOfCorrections(c) = m /\ ("late" \in Env \/ ExpiriesOf(ledger, c) = {})
  BY <1>1, <1>2 DEF Withdraw, NoCrossing
<1>5. c \in DOMAIN ledger /\ ledger[c].kind = "invoice_credit" /\ ledger[c].source = i
  BY DEF CreditOf
<1>6. PICK row : row = Entry("invoice_credit_reversal", -m, i, NoTerm)
  OBVIOUS
<1>7. row \in Row /\ row.kind = "invoice_credit_reversal" /\ row.delta = -m /\ row.source = i
      /\ row.delta < 0
  <2>1. i \in Sources /\ "invoice_credit_reversal" \in Kinds /\ NoTerm \in Nat /\ -m \in Int
    BY DEF Sources, Kinds, NoTerm
  <2>2. row \in Row /\ row.kind = "invoice_credit_reversal" /\ row.delta = -m /\ row.source = i
    BY <1>6, <2>1, EntryIsRow
  <2> QED BY <1>3, <2>2
<1>8. ApplyEntry(row)
  BY <1>1, <1>2, <1>6 DEF Withdraw
<1>9. ASSUME ~Violates(<<row>>) PROVE RowsOf(ledger, "invoice_credit_reversal", i) = {}
  <2>1. PICK new : new = <<row>>
    OBVIOUS
  <2>2. 1 \in DOMAIN new /\ new[1] = row /\ ~Violates(new)
    BY <1>7, <1>9, <2>1
  <2> QED BY <1>7, <2>2, NoConflict DEF OncePerSource
<1> QED BY <1>4, <1>5, <1>7, <1>8, <1>9, OneWritten

\* A reopen gives minutes back, and takes of a surplus what is left to take.
WithdrawnSurplus(row) ==
    \E c \in DOMAIN ledger : /\ row.kind = "purchase_reversal" /\ row.source = ledger[c].source
                             /\ ledger[c].kind = "purchase"
                             /\ row.delta = -SurplusWithdrawn(c)
                             /\ SurplusWithdrawn(c) \in Int /\ SurplusWithdrawn(c) > 0
                             /\ RowsOf(ledger, "purchase_reversal", row.source) = {}

\* A reopen writes a reversal, a withdrawal of surplus, both or none.
LEMMA UndoWritten ==
    ASSUME LedgerInv, NEW w \in Workers, Undo(w)
    PROVE  \/ UNCHANGED ledger
           \/ \E new \in Seq(Row), e \in Row :
                 /\ ledger' = ledger \o new
                 /\ e.kind = "task_reversal"
                 /\ \A j \in DOMAIN new :
                       \/ j = 1 /\ new[j] = e
                       \/ WithdrawnSurplus(new[j]) /\ \A l \in 1..(j - 1) : new[l] = e
<1>0. ledger \in Seq(Row) /\ req \in [Workers -> Requests]
  BY DEF LedgerInv, TypeOK, Requests
<1>1. PICK r \in Requests : r = req[w] /\ r.pc = "undo"
  BY <1>0 DEF Undo, At
<1>2. PICK t \in Tasks, cycle \in Nat : t = r.task /\ cycle = r.cycle
  BY <1>1 DEF Requests, Idle
<1>3. PICK new : new = UndoRows(t, cycle)
  OBVIOUS
<1>4. UNCHANGED ledger \/ (ledger' = ledger \o new /\ ~Violates(new))
  BY <1>1, <1>2, <1>3 DEF Undo, Insert
<1>5. PICK g, e : g = GivenBack(t, cycle) /\ e = GivesBack(t, g)
  OBVIOUS
<1>6. /\ new \in Seq(Row)
      /\ \A j \in DOMAIN new : (j = 1 /\ new[j] = e /\ g > 0) \/ WithdrawsAt(new, j, t, cycle, e)
  BY <1>0, <1>3, <1>5, UndoRowsByRow
<1>7. e \in Row /\ e.kind = "task_reversal"
  <2>1. e \in Row
    BY <1>0, <1>3, <1>5, UndoRowsAre
  <2> QED BY <1>5, <2>1 DEF GivesBack, Entry
<1>8. ASSUME ~Violates(new), NEW j \in DOMAIN new, WithdrawsAt(new, j, t, cycle, e)
      PROVE  WithdrawnSurplus(new[j]) /\ \A l \in 1..(j - 1) : new[l] = e
  <2>1. PICK c \in SurplusOf(t, cycle) :
            /\ new[j] = TakesSurplus(c) /\ c \in DOMAIN ledger
            /\ SurplusWithdrawn(c) \in Int /\ SurplusWithdrawn(c) > 0
            /\ \A l \in 1..(j - 1) : new[l] = e
    BY <1>8 DEF WithdrawsAt
  <2>2. ledger[c].kind = "purchase"
    BY DEF SurplusOf
  <2>3. new[j].kind = "purchase_reversal" /\ new[j].source = ledger[c].source
        /\ new[j].delta = -SurplusWithdrawn(c)
    BY <2>1 DEF TakesSurplus, Entry
  <2>4. RowsOf(ledger, "purchase_reversal", new[j].source) = {}
    <3>1. new[j].kind \in OncePerSource \union {"correction"}
      BY <2>3 DEF OncePerSource
    <3>2. RowsOf(ledger, new[j].kind, new[j].source) = {}
      BY <1>8, <3>1, NoConflict
    <3> QED BY <2>3, <3>2
  <2> QED BY <2>1, <2>2, <2>3, <2>4 DEF WithdrawnSurplus
<1> QED BY <1>4, <1>6, <1>7, <1>8

(***************************************************************************)
(* Expiry takes no more than there is.                                     *)
(***************************************************************************)
\* Only the job writes expiries.
LEMMA NoneExpires ==
    ASSUME NEW rows \in Seq(Row), NEW new \in Seq(Row), \A j \in DOMAIN new : new[j].kind # "expire"
    PROVE  ~ExpiredIn(rows, rows \o new)
<1> PICK all : all = rows \o new
  OBVIOUS
<1>0. all = rows \o new
  OBVIOUS
<1>1. \A k \in DOMAIN all : k \in DOMAIN rows \/ \E j \in DOMAIN new : all[k] = new[j]
  <2>1. \A k \in DOMAIN all :
           \/ k \in DOMAIN rows
           \/ k \notin DOMAIN rows /\ k - Len(rows) \in DOMAIN new
              /\ all[k] = new[k - Len(rows)]
    BY Appended
  <2> QED BY <2>1
<1>2. ~ExpiredIn(rows, all)
  BY <1>1 DEF ExpiredIn
<1> QED BY <1>2

\* A step that writes an expiry is the job.
LEMMA OnlyTheJobExpires ==
    ASSUME NoCrossing, LedgerInv, [Next]_vars, ExpiredIn(ledger, ledger')
    PROVE  ExpireClient
<1>0. ledger \in Seq(Row)
  BY DEF LedgerInv, TypeOK
<1>1. ~(UNCHANGED ledger)
  BY DEF ExpiredIn
<1>2. ASSUME NEW row \in Row, ledger' = ledger \o <<row>> PROVE row.kind = "expire"
  <2> SUFFICES ASSUME row.kind # "expire" PROVE FALSE
    OBVIOUS
  <2>1. PICK new : new = <<row>>
    OBVIOUS
  <2>2. new \in Seq(Row) /\ \A j \in DOMAIN new : new[j].kind # "expire"
    BY <2>1
  <2>3. ~ExpiredIn(ledger, ledger \o new)
    BY <1>0, <2>2, NoneExpires
  <2> QED BY <1>2, <2>1, <2>3
<1>3. ASSUME WritesPlainly PROVE FALSE
  <2>1. PICK new \in Seq(Row) : /\ ledger' = ledger \o new
                                /\ \A k \in DOMAIN new : new[k].kind \in PlainKinds
    BY <1>3 DEF WritesPlainly
  <2>2. \A j \in DOMAIN new : new[j].kind # "expire"
    BY <2>1 DEF PlainKinds
  <2>3. ~ExpiredIn(ledger, ledger \o new)
    BY <1>0, <2>2, NoneExpires
  <2> QED BY <2>1, <2>3
<1>4. ASSUME NEW w \in Workers, WriteCorrection(w) PROVE FALSE
  <2>1. PICK row \in Row : ledger' = ledger \o <<row>> /\ row.kind = "correction"
    BY <1>1, <1>4, CorrectionWritten
  <2> QED BY <1>2, <2>1
<1>5. ASSUME NEW w \in Workers, Withdraw(w) PROVE FALSE
  <2>1. PICK row \in Row : ledger' = ledger \o <<row>> /\ row.kind = "invoice_credit_reversal"
    BY <1>1, <1>5, WithdrawalWritten
  <2> QED BY <1>2, <2>1
<1>6. ASSUME NEW w \in Workers, Undo(w) PROVE FALSE
  <2>1. PICK new \in Seq(Row), e \in Row :
                 /\ ledger' = ledger \o new
                 /\ e.kind = "task_reversal"
                 /\ \A j \in DOMAIN new :
                       \/ j = 1 /\ new[j] = e
                       \/ WithdrawnSurplus(new[j]) /\ \A l \in 1..(j - 1) : new[l] = e
    BY <1>1, <1>6, UndoWritten
  <2>2. \A j \in DOMAIN new : new[j].kind # "expire"
    BY <2>1 DEF WithdrawnSurplus
  <2>3. ~ExpiredIn(ledger, ledger \o new)
    BY <1>0, <2>2, NoneExpires
  <2> QED BY <2>1, <2>3
<1> QED BY <1>1, <1>3, <1>4, <1>5, <1>6, RowsWritten

\* What is left of some batches is no more than what is left of all.
LEMMA SomeAreFewer ==
    ASSUME NEW rows \in Seq(Row), NEW due \in SUBSET Batches(rows)
    PROVE  /\ SumOver(Len(rows), due, Remaining(rows)) \in Nat
           /\ SumOver(Len(rows), due, Remaining(rows))
                <= SumOver(Len(rows), Batches(rows), Remaining(rows))
           /\ \A i \in due : Remaining(rows)[i] <= SumOver(Len(rows), due, Remaining(rows))
<1>1. PICK n, B, R : n = Len(rows) /\ B = Batches(rows) /\ R = Remaining(rows)
  OBVIOUS
<1>2. n \in Nat /\ B \in SUBSET (1..n) /\ due \in SUBSET B /\ \A i \in B : R[i] \in Nat
  BY <1>1, RowsOfLedger, BatchesHold, RemainingIs
<1>3. SumOver(n, due, R) \in Nat
  BY <1>2, SumIsNat
<1>4. \A A : \A k \in 1..n : A \subseteq B => Term(k, A, R) \in Nat
  BY <1>2 DEF Term
<1>5. SumOver(n, due, R) <= SumOver(n, B, R)
  <2>1. \A k \in 1..n : /\ Term(k, due, R) \in Int /\ Term(k, B, R) \in Int
                        /\ Term(k, due, R) <= Term(k, B, R)
    BY <1>2 DEF Term
  <2> QED BY <1>2, <2>1, SumIsMonotone
<1>6. ASSUME NEW i \in due PROVE R[i] <= SumOver(n, due, R)
  <2>1. PICK one : one = {i}
    OBVIOUS
  <2>2. \A k \in 1..n : /\ Term(k, one, R) \in Int /\ Term(k, due, R) \in Int
                        /\ Term(k, one, R) <= Term(k, due, R)
    BY <1>2, <2>1 DEF Term
  <2>3. SumOver(n, one, R) <= SumOver(n, due, R)
    BY <1>2, <2>2, SumIsMonotone
  <2>4. SumOver(n, {i}, R) = R[i]
    <3>1. i \in 1..n /\ R[i] \in Int
      BY <1>2
    <3> QED BY <1>2, <3>1, SumOfSingle
  <2> QED BY <2>1, <2>3, <2>4
<1> QED BY <1>1, <1>3, <1>5, <1>6

\* The job expires only minutes nobody spent, so no run of it leaves a negative
\* balance (ExpiryNeverOverdraws).
THEOREM ExpiriesAreCovered ==
    ASSUME NoCrossing
    PROVE  Spec => ExpiryNeverOverdraws
<1>1. LedgerInv /\ [Next]_vars => (ExpiredIn(ledger, ledger') => balance' >= 0)
  <2> SUFFICES ASSUME LedgerInv, [Next]_vars, ExpiredIn(ledger, ledger') PROVE balance' >= 0
    OBVIOUS
  <2>1. /\ ledger \in Seq(Row) /\ AllFit(ledger) /\ balance = Balance(ledger) /\ balance \in Int
        /\ Len(ledger) \in Nat
    BY RowsOfLedger DEF LedgerInv, TypeOK
  <2>2. ExpireClient /\ ~(UNCHANGED ledger)
    BY OnlyTheJobExpires DEF ExpiredIn
  <2>3. PICK rows, due, new : /\ rows = ledger /\ due = Due(rows, job.now, job.notBefore)
                              /\ new = ExpireRows(rows, due)
    OBVIOUS
  <2>4. due \in SUBSET Batches(rows) /\ \A i \in due : Remaining(rows)[i] > 0
    BY <2>3 DEF Due
  <2>5. Insert(new)
    BY <2>2, <2>3 DEF ExpireClient
  <2>6. /\ new \in Seq(Row) /\ Balance(new) = -SumOver(Len(rows), due, Remaining(rows))
        /\ \A k \in DOMAIN new : \E i \in due : new[k] = ExpireRow(rows, i)
    BY <2>1, <2>3, <2>4, ExpireRowsTake
  <2>7. PICK E, R : /\ E = SumOver(Len(rows), due, Remaining(rows))
                    /\ R = SumOver(Len(rows), Batches(rows), Remaining(rows))
    OBVIOUS
  <2>8. E \in Nat /\ E <= R /\ \A i \in due : Remaining(rows)[i] <= E
    BY <2>1, <2>3, <2>4, <2>7, SomeAreFewer
  <2>9. R = AtLeastZero(balance)
    BY <2>1, <2>3, <2>7, RemainingIsBalance
  <2>10. balance' = balance - E
    <3>1. Balance(new) = -E
      BY <2>6, <2>7
    <3>2. balance' = balance + Balance(new)
      BY <2>5 DEF Insert
    <3> QED BY <2>1, <2>8, <3>1, <3>2
  <2>11. balance >= 0
    <3> SUFFICES ASSUME ~(balance >= 0) PROVE FALSE
      OBVIOUS
    <3>1. R = 0
      BY <2>1, <2>9 DEF AtLeastZero
    <3>2. due = {}
      <4>1. ASSUME NEW i \in due PROVE FALSE
        <5>1. Remaining(rows)[i] \in Nat
          BY <2>1, <2>3, <2>4, RemainingIs
        <5> QED BY <2>4, <2>8, <3>1, <5>1
      <4> QED BY <4>1
    <3>3. DOMAIN new = {}
      BY <2>6, <3>2
    <3>4. ~ExpiredIn(ledger, ledger \o new)
      BY <2>1, <2>6, <3>3, NoneExpires
    <3> QED BY <2>5, <3>4 DEF Insert
  <2> QED BY <2>1, <2>8, <2>9, <2>10, <2>11, AtLeastZeroIsNat
<1> QED BY <1>1, LedgerInvHolds, PTL DEF ExpiryNeverOverdraws, Spec, SafetySpec

(***************************************************************************)
(* What has expired is not due again.                                      *)
(***************************************************************************)
\* New rows add up to what they move.
LEMMA DeltaOfNew ==
    ASSUME NEW rows \in Seq(Row), NEW new \in Seq(Row), NEW all, all = rows \o new
    PROVE  Delta(all, DOMAIN all \ DOMAIN rows) = Balance(new)
<1>1. all \in Seq(Row) /\ DOMAIN rows \in SUBSET DOMAIN all /\ \A k \in DOMAIN rows : all[k] = rows[k]
  BY Appended
<1>2. PICK old, later : old = DOMAIN rows /\ later = DOMAIN all \ DOMAIN rows
  OBVIOUS
<1>3. /\ old \in SUBSET DOMAIN all /\ later \in SUBSET DOMAIN all
      /\ old \intersect later = {} /\ old \union later = DOMAIN all
  BY <1>1, <1>2
<1>4. Delta(all, old \union later) = Delta(all, old) + Delta(all, later)
  BY <1>1, <1>3, DeltaOfUnion
<1>5. Balance(all) = Balance(rows) + Balance(new)
  BY BalanceOfAppended
<1>6. Delta(all, old) = Delta(rows, old)
  <2>1. old \in SUBSET DOMAIN rows
    BY <1>2
  <2> QED BY <2>1, DeltaOfOld
<1>7. Balance(rows) \in Int /\ Balance(new) \in Int /\ Delta(all, later) \in Int
  BY <1>1, <1>3, DeltaIsInt DEF Balance
<1>8. Balance(all) = Delta(all, old \union later) /\ Balance(rows) = Delta(rows, old)
  BY <1>2, <1>3 DEF Balance
<1> QED BY <1>2, <1>4, <1>5, <1>6, <1>7, <1>8

\* Expiries leave the batches as they are: they are one more spending.
LEMMA ExpiriesAreSpent ==
    ASSUME NEW rows \in Seq(Row), NEW new \in Seq(Row), NEW all, all = rows \o new,
           \A j \in DOMAIN new : new[j].kind = "expire" /\ new[j].delta <= 0
    PROVE  /\ Batches(all) = Batches(rows)
           /\ KeptBy(all) = KeptBy(rows)
           /\ ToSpend(all) = ToSpend(rows) - Balance(new)
<1>1. /\ all \in Seq(Row) /\ DOMAIN all = 1..Len(all) /\ DOMAIN rows = 1..Len(rows)
      /\ Len(rows) \in Nat /\ Len(all) \in Nat /\ Len(rows) <= Len(all)
      /\ \A k \in DOMAIN rows : k \in DOMAIN all /\ all[k] = rows[k]
  BY Appended
<1>2. \A k \in DOMAIN all \ DOMAIN rows : all[k].kind = "expire" /\ all[k].delta <= 0
  <2>1. \A k \in DOMAIN all :
           \/ k \in DOMAIN rows
           \/ k \notin DOMAIN rows /\ k - Len(rows) \in DOMAIN new
              /\ all[k] = new[k - Len(rows)]
    BY Appended
  <2> QED BY <2>1
<1>3. Batches(all) = Batches(rows)
  <2>1. \A k \in DOMAIN all \ DOMAIN rows : ~(all[k].delta > 0)
    <3>1. \A k \in DOMAIN all : all[k].delta \in Int
      BY <1>1, RowsOfLedger
    <3> QED BY <1>2, <3>1
  <2> QED BY <1>1, <2>1 DEF Batches
<1>4. ASSUME NEW i \in Batches(rows)
      PROVE  Adjusting(all, i) = Adjusting(rows, i) /\ i \in DOMAIN rows /\ all[i] = rows[i]
             /\ Adjusting(rows, i) \in SUBSET DOMAIN rows
  <2>1. i \in DOMAIN rows /\ all[i] = rows[i]
    BY <1>1 DEF Batches
  <2>2. \A k \in DOMAIN all \ DOMAIN rows :
           all[k].kind # "correction" /\ all[k].kind # ReversalOf(rows[i].kind)
    BY <1>2 DEF ReversalOf
  <2>3. CorrectionsOf(all, i) = CorrectionsOf(rows, i)
    BY <1>1, <2>2 DEF CorrectionsOf
  <2>4. WithdrawalsOf(all, i) = WithdrawalsOf(rows, i)
    BY <1>1, <2>1, <2>2 DEF WithdrawalsOf
  <2>5. Adjusting(rows, i) \in SUBSET DOMAIN rows
    BY DEF Adjusting, CorrectionsOf, WithdrawalsOf
  <2> QED BY <2>1, <2>3, <2>4, <2>5 DEF Adjusting
<1>5. \A i \in Batches(rows) : Held(all, i) = Held(rows, i)
  <2> TAKE i \in Batches(rows)
  <2>1. Delta(all, Adjusting(rows, i)) = Delta(rows, Adjusting(rows, i))
    BY <1>4, DeltaOfOld
  <2> QED BY <1>4, <2>1 DEF Held
<1>6. KeptBy(all) = KeptBy(rows)
  BY <1>3, <1>5 DEF KeptBy
<1>7. OwedBy(all) = OwedBy(rows)
  BY <1>3, <1>5 DEF OwedBy
<1>8. Overdrawn(all) = Overdrawn(rows)
  <2>1. PICK B, v : B = Batches(rows) /\ v = OwedBy(rows)
    OBVIOUS
  <2>2. /\ Overdrawn(all) = SumOver(Len(all), B, v) /\ Overdrawn(rows) = SumOver(Len(rows), B, v)
        /\ B \in SUBSET (1..Len(rows)) /\ SumOver(Len(rows), B, v) \in Int
    <3>1. Overdrawn(all) = SumOver(Len(all), Batches(all), OwedBy(all))
      BY <1>1, BatchesHold
    <3>2. /\ Overdrawn(rows) = SumOver(Len(rows), Batches(rows), OwedBy(rows))
          /\ Batches(rows) \in SUBSET (1..Len(rows)) /\ Overdrawn(rows) \in Nat
      BY BatchesHold
    <3> QED BY <1>3, <1>7, <2>1, <3>1, <3>2
  <2>3. \A k \in (Len(rows) + 1)..Len(all) : k \in B => v[k] = 0
    BY <1>1, <2>2
  <2>4. SumOver(Len(all), B, v) = SumOver(Len(rows), B, v)
    BY <1>1, <2>2, <2>3, SumOfFewer
  <2> QED BY <2>2, <2>4
<1>9. ToSpend(all) = ToSpend(rows) - Balance(new)
  <2>1. PICK old, later : old = Spending(rows) /\ later = DOMAIN all \ DOMAIN rows
    OBVIOUS
  <2>2. old \in SUBSET DOMAIN rows /\ old \in SUBSET DOMAIN all /\ later \in SUBSET DOMAIN all
        /\ old \intersect later = {}
    BY <1>1, <2>1, BatchesHold
  <2>3. Spending(all) = old \union later
    <3>1. UNION {{i} \union Adjusting(all, i) : i \in Batches(all)}
            = UNION {{i} \union Adjusting(rows, i) : i \in Batches(rows)}
      BY <1>3, <1>4
    <3>2. UNION {{i} \union Adjusting(rows, i) : i \in Batches(rows)} \in SUBSET DOMAIN rows
      BY <1>4
    <3> QED BY <1>1, <2>1, <3>1, <3>2 DEF Spending
  <2>4. Delta(all, old \union later) = Delta(all, old) + Delta(all, later)
    BY <1>1, <2>2, DeltaOfUnion
  <2>5. Delta(all, old) = Delta(rows, old)
    <3>1. old \in SUBSET DOMAIN rows
      BY <2>2
    <3> QED BY <3>1, DeltaOfOld
  <2>6. Delta(all, later) = Balance(new)
    BY <2>1, DeltaOfNew
  <2>7. Delta(rows, old) \in Int /\ Balance(new) \in Int /\ Overdrawn(rows) \in Int
    BY <2>2, DeltaIsInt, BatchesHold DEF Balance
  <2>8. ToSpend(all) = Overdrawn(rows) - (Delta(rows, old) + Balance(new))
    BY <1>8, <2>3, <2>4, <2>5, <2>6 DEF ToSpend
  <2>9. ToSpend(rows) = Overdrawn(rows) - Delta(rows, old)
    BY <2>1 DEF ToSpend
  <2> QED BY <2>7, <2>8, <2>9
<1> QED BY <1>3, <1>6, <1>9

\* The batches whose term passed are spent before all others.
PastTerm(rows, now) ==
    {i \in Batches(rows) : rows[i].expires # NoTerm /\ rows[i].expires < now}

\* The nearest term is spent first, so the terms that passed are in front.
LEMMA PastTermInFront ==
    ASSUME NEW rows \in Seq(Row), NEW now \in Nat
    PROVE  InFront(rows, PastTerm(rows, now))
<1> SUFFICES ASSUME NEW i \in PastTerm(rows, now), NEW j \in Batches(rows), SpentBefore(rows, j, i)
             PROVE  j \in PastTerm(rows, now)
  BY DEF InFront, PastTerm
<1>1. /\ rows[i].expires \in Nat /\ rows[j].expires \in Nat
      /\ rows[i].expires # NoTerm /\ rows[i].expires < now
  BY RowsOfLedger DEF PastTerm, Batches
<1>2. rows[j].expires # NoTerm /\ rows[j].expires <= rows[i].expires
  BY <1>1 DEF SpentBefore
<1> QED BY <1>1, <1>2 DEF PastTerm

\* Rows that move nothing may be left out of a sum.
LEMMA SumOfTheRest ==
    ASSUME NEW n \in Nat, NEW A, NEW v, \A k \in A : v[k] \in Nat,
           NEW S, S \subseteq A, \A k \in A : k \in S \/ v[k] = 0
    PROVE  SumOver(n, S, v) = SumOver(n, A, v)
<1>1. \A k \in 1..n : /\ Term(k, S, v) \in Int /\ Term(k, A, v) \in Int
                      /\ Term(k, S, v) <= Term(k, A, v) /\ Term(k, A, v) <= Term(k, S, v)
  BY DEF Term
<1>2. SumOver(n, S, v) <= SumOver(n, A, v)
  BY <1>1, SumIsMonotone
<1>3. SumOver(n, A, v) <= SumOver(n, S, v)
  BY <1>1, SumIsMonotone
<1>4. SumOver(n, S, v) \in Int /\ SumOver(n, A, v) \in Int
  <2>1. \A k \in 1..n : (k \in S => v[k] \in Int) /\ (k \in A => v[k] \in Int)
    OBVIOUS
  <2> QED BY <2>1, SumOverIsInt
<1> QED BY <1>2, <1>3, <1>4

\* Once what was due has expired, nothing is due.
LEMMA NothingLeftDue ==
    ASSUME NEW rows \in Seq(Row), AllFit(rows), NEW now \in Nat,
           NEW due, due = Due(rows, now, Never), NEW new, new = ExpireRows(rows, due),
           NEW all, all = rows \o new
    PROVE  Due(all, now, Never) = {}
<1>1. due \in SUBSET Batches(rows) /\ \A i \in due : Remaining(rows)[i] > 0
  BY DEF Due
<1>2. PICK A : A = PastTerm(rows, now)
  OBVIOUS
<1>3. due \subseteq A /\ \A i \in A : i \in due \/ Remaining(rows)[i] = 0
  <2>1. \A i \in A : /\ i \in Batches(rows) /\ rows[i].expires # NoTerm /\ rows[i].expires < now
                     /\ rows[i].expires \in Nat
    BY <1>2, RowsOfLedger DEF PastTerm, Batches
  <2>2. \A i \in A : Remaining(rows)[i] \in Nat
    BY <2>1, RemainingIs
  <2>3. \A i \in A : Remaining(rows)[i] > 0 => i \in due
    BY <2>1 DEF Due, Never
  <2>4. due \subseteq A
    BY <1>2 DEF Due, PastTerm
  <2> QED BY <2>2, <2>3, <2>4
<1>4. /\ new \in Seq(Row) /\ Balance(new) = -SumOver(Len(rows), due, Remaining(rows))
      /\ \A k \in DOMAIN new : \E i \in due : new[k] = ExpireRow(rows, i)
  BY <1>1, ExpireRowsTake
<1>5. \A j \in DOMAIN new : new[j].kind = "expire" /\ new[j].delta <= 0
  <2> TAKE j \in DOMAIN new
  <2>1. PICK i \in due : new[j] = ExpireRow(rows, i)
    BY <1>4
  <2>2. Remaining(rows)[i] \in Nat
    BY <1>1, RemainingIs
  <2> QED BY <2>1, <2>2 DEF ExpireRow
<1>6. /\ Batches(all) = Batches(rows) /\ KeptBy(all) = KeptBy(rows)
      /\ ToSpend(all) = ToSpend(rows) - Balance(new)
  BY <1>4, <1>5, ExpiriesAreSpent
<1>7. /\ all \in Seq(Row) /\ Len(rows) \in Nat /\ Len(all) \in Nat /\ Len(rows) <= Len(all)
      /\ DOMAIN rows = 1..Len(rows) /\ \A k \in DOMAIN rows : all[k] = rows[k]
  BY <1>4, Appended
<1>8. PastTerm(all, now) = A
  BY <1>2, <1>6, <1>7 DEF PastTerm, Batches
<1>9. PICK K, E, T : /\ K = SumOver(Len(rows), A, KeptBy(rows))
                     /\ E = SumOver(Len(rows), A, Remaining(rows)) /\ T = ToSpend(rows)
  OBVIOUS
<1>10. A \in SUBSET Batches(rows) /\ A \in SUBSET (1..Len(rows))
  BY <1>2, BatchesHold DEF PastTerm
<1>11. T \in Nat /\ K \in Nat
  <2>1. T \in Nat
    BY <1>9, RemainingIsBalance
  <2>2. \A k \in 1..Len(rows) : k \in A => KeptBy(rows)[k] \in Nat
    BY <1>10, BatchesHold
  <2>3. K \in Nat
    BY <1>7, <1>9, <2>2, SumIsNat
  <2> QED BY <2>1, <2>3
<1>12. E = AtLeastZero(K - AtLeastZero(T))
  <2>1. InFront(rows, A)
    BY <1>2, PastTermInFront
  <2> QED BY <1>9, <2>1, RemainingInFront
<1>13. Balance(new) = -E
  <2>1. \A i \in A : Remaining(rows)[i] \in Nat
    BY <1>10, RemainingIs
  <2>2. PICK n, D, R : n = Len(rows) /\ D = due /\ R = Remaining(rows)
    OBVIOUS
  <2>3. /\ n \in Nat /\ D \subseteq A /\ \A k \in A : R[k] \in Nat
        /\ \A k \in A : k \in D \/ R[k] = 0
    BY <1>3, <1>7, <2>1, <2>2
  <2>4. SumOver(n, D, R) = SumOver(n, A, R)
    BY <2>3, SumOfTheRest
  <2> QED BY <1>4, <1>9, <2>2, <2>4
<1>14. SumOver(Len(all), A, KeptBy(all)) = K
  <2>1. PICK v : v = KeptBy(rows)
    OBVIOUS
  <2>2. \A k \in (Len(rows) + 1)..Len(all) : k \in A => v[k] = 0
    BY <1>7, <1>10
  <2>3. SumOver(Len(rows), A, v) \in Int
    BY <1>9, <1>11, <2>1
  <2>4. SumOver(Len(all), A, v) = SumOver(Len(rows), A, v)
    BY <1>7, <2>2, <2>3, SumOfFewer
  <2> QED BY <1>6, <1>9, <2>1, <2>4
<1>15. SumOver(Len(all), A, Remaining(all)) = AtLeastZero(K - AtLeastZero(T + E))
  <2>1. InFront(all, A)
    BY <1>7, <1>8, PastTermInFront
  <2>2. SumOver(Len(all), A, Remaining(all)) = AtLeastZero(K - AtLeastZero(ToSpend(all)))
    BY <1>7, <1>14, <2>1, RemainingInFront
  <2>3. ToSpend(all) = T + E
    <3>1. E \in Int
      BY <1>11, <1>12 DEF AtLeastZero
    <3> QED BY <1>6, <1>9, <1>11, <1>13, <3>1
  <2> QED BY <2>2, <2>3
<1>16. SumOver(Len(all), A, Remaining(all)) = 0
  BY <1>11, <1>12, <1>15 DEF AtLeastZero
<1>17. \A i \in A : Remaining(all)[i] <= SumOver(Len(all), A, Remaining(all))
  <2>1. A \in SUBSET Batches(all)
    BY <1>6, <1>10
  <2> QED BY <1>7, <2>1, SomeAreFewer
<1>18. ASSUME NEW i \in Due(all, now, Never) PROVE FALSE
  <2>1. i \in PastTerm(all, now) /\ Remaining(all)[i] > 0 /\ i \in Batches(all)
    BY DEF Due, PastTerm
  <2>2. Remaining(all)[i] \in Nat
    BY <1>7, <2>1, RemainingIs
  <2> QED BY <1>8, <1>16, <1>17, <2>1, <2>2
<1> QED BY <1>18

\* The key of an expiry is new.
LEMMA ExpiryKeysAreNew ==
    ASSUME LedgerInv, NEW due \in SUBSET Batches(ledger), NEW new, new = ExpireRows(ledger, due)
    PROVE  ~Violates(new)
<1>1. /\ ledger \in Seq(Row) /\ AllFit(ledger) /\ Len(ledger) \in Nat
      /\ DOMAIN ledger = 1..Len(ledger) /\ IsFiniteSet(DOMAIN ledger)
  BY RowsOfLedger DEF LedgerInv, TypeOK
<1> SUFFICES ASSUME NEW k \in DOMAIN ledger, NEW j \in DOMAIN new, Conflicts(ledger[k], new[j])
             PROVE  FALSE
  BY DEF Violates
<1>2. PICK i \in due : new[j] = ExpireRow(ledger, i)
  BY <1>1, ExpireRowsTake
<1>3. /\ new[j].kind = "expire" /\ new[j].source = i
      /\ new[j].nth = 1 + Cardinality(ExpiriesOf(ledger, i))
  <2>1. i \in Batches(ledger)
    OBVIOUS
  <2> QED BY <1>1, <1>2, <2>1, ExpireRowIsRow
<1>4. ledger[k].kind = "expire" /\ ledger[k].source = i
      /\ ledger[k].nth = 1 + Cardinality(ExpiriesOf(ledger, i))
  BY <1>3 DEF Conflicts, OncePerSource
<1>5. ledger[k].nth = 1 + Cardinality(Earlier(ledger, k, "expire", i))
  BY <1>1, <1>4 DEF AllFit, Fits
<1>6. PICK S, T : S = ExpiriesOf(ledger, i) /\ T = Earlier(ledger, k, "expire", i)
  OBVIOUS
<1>7. T \in SUBSET S /\ k \in S /\ k \notin T /\ S \in SUBSET DOMAIN ledger
  BY <1>1, <1>4, <1>6 DEF Earlier, ExpiriesOf
<1>8. IsFiniteSet(S)
  BY <1>1, <1>7, FS_Subset
<1>9. Cardinality(S) \in Nat /\ Cardinality(T) \in Nat /\ (Cardinality(S) = Cardinality(T) => S = T)
  BY <1>7, <1>8, FS_Subset, FS_CardinalityType
<1> QED BY <1>4, <1>5, <1>6, <1>7, <1>9

\* Expiry is not switched off and on again.
NoToggle == "toggle" \notin Env
NeverRestarted ==
    /\ rule.enabledAt = Never
    /\ job # Idle => job.notBefore = Never

\* A step that ends a run is the expiry of the client.
LEMMA OnlyTheJobEndsItself ==
    ASSUME [Next]_vars, job # Idle, job' = Idle
    PROVE  ExpireClient
<1> SUFFICES ASSUME ~ExpireClient PROVE UNCHANGED job
  OBVIOUS
<1>1. ASSUME NEW w \in Workers, RequestStep(w) PROVE UNCHANGED job
  BY <1>1 DEF RequestStep, ReadPaidInvoice, ReadCancelled, ReadSettlement, CheckCorrection,
              CreditInvoice, Undo, WriteCorrection, Withdraw, Fail
<1>2. ASSUME NEW minutes \in Adjustments, AdjustHourCredit(minutes) PROVE UNCHANGED job
  BY <1>2 DEF AdjustHourCredit
<1>3. ASSUME NEW t \in Tasks, NEW actual \in Actuals, Settle(t, actual) PROVE UNCHANGED job
  BY <1>3 DEF Settle
<1>4. ASSUME NEW i \in Invoices, CancelInvoice(i) PROVE UNCHANGED job
  BY <1>4 DEF CancelInvoice
<1>5. ASSUME NEW days \in Terms, UpdateRules(days) PROVE UNCHANGED job
  BY <1>5 DEF UpdateRules
<1>6. ~StartJob
  BY DEF StartJob
<1>7. NextDay \/ UNCHANGED vars => UNCHANGED job
  BY DEF NextDay, vars
<1> QED BY <1>1, <1>2, <1>3, <1>4, <1>5, <1>6, <1>7 DEF Next

\* A tenant that never switches expiry off has no day before which nothing expires.
LEMMA RestartStep ==
    ASSUME NoToggle, NeverRestarted, [Next]_vars
    PROVE  NeverRestarted'
<1>1. ASSUME NEW w \in Workers, RequestStep(w) PROVE UNCHANGED <<rule, job>>
  BY <1>1 DEF RequestStep, ReadPaidInvoice, ReadCancelled, ReadSettlement, CheckCorrection,
              CreditInvoice, Undo, WriteCorrection, Withdraw, Fail
<1>2. ASSUME NEW minutes \in Adjustments, AdjustHourCredit(minutes) PROVE UNCHANGED <<rule, job>>
  BY <1>2 DEF AdjustHourCredit
<1>3. ASSUME NEW t \in Tasks, NEW actual \in Actuals, Settle(t, actual) PROVE UNCHANGED <<rule, job>>
  BY <1>3 DEF Settle
<1>4. ASSUME NEW i \in Invoices, CancelInvoice(i) PROVE UNCHANGED <<rule, job>>
  BY <1>4 DEF CancelInvoice
<1>5. ASSUME NEW days \in Terms, UpdateRules(days) PROVE NeverRestarted'
  <2>1. days > 0 /\ rule.days > 0 /\ UNCHANGED job
        /\ rule' = [days |-> days, enabledAt |-> NextEnabledAt(days)]
    BY <1>5 DEF UpdateRules, NoToggle
  <2>2. NextEnabledAt(days) = rule.enabledAt \/ NextEnabledAt(days) = Never
    BY <2>1 DEF NextEnabledAt
  <2> QED BY <2>1, <2>2 DEF NeverRestarted
<1>6. StartJob => NeverRestarted'
  BY DEF StartJob, NeverRestarted
<1>7. ExpireClient => NeverRestarted'
  BY DEF ExpireClient, NeverRestarted
<1>8. NextDay \/ UNCHANGED vars => UNCHANGED <<rule, job>>
  BY DEF NextDay, vars
<1>9. UNCHANGED <<rule, job>> => NeverRestarted'
  BY DEF NeverRestarted
<1> QED BY <1>1, <1>2, <1>3, <1>4, <1>5, <1>6, <1>7, <1>8, <1>9 DEF Next

\* A run of the job leaves nothing due for a second run at the same time, if expiry is
\* not switched off and on again (JobIsIdempotent).
THEOREM JobsAreIdempotent ==
    ASSUME NoCrossing, NoToggle
    PROVE  Spec => JobIsIdempotent
<1>1. Init => NeverRestarted
  BY DEF Init, NeverRestarted
<1>2. LedgerInv /\ NeverRestarted /\ [Next]_vars =>
         (job # Idle /\ job' = Idle => Due(ledger', job.now, job.notBefore) = {})
  <2> SUFFICES ASSUME LedgerInv, NeverRestarted, [Next]_vars, job # Idle, job' = Idle
               PROVE  Due(ledger', job.now, job.notBefore) = {}
    OBVIOUS
  <2>1. ExpireClient
    BY OnlyTheJobEndsItself
  <2>2. PICK now \in Nat : now = job.now /\ job.notBefore = Never
    BY DEF LedgerInv, TypeOK, NeverRestarted
  <2>3. ledger \in Seq(Row) /\ AllFit(ledger)
    BY DEF LedgerInv, TypeOK
  <2>4. PICK due, new : due = Due(ledger, now, Never) /\ new = ExpireRows(ledger, due)
    OBVIOUS
  <2>5. due \in SUBSET Batches(ledger)
    BY <2>4 DEF Due
  <2>6. ~Violates(new)
    BY <2>4, <2>5, ExpiryKeysAreNew
  <2>7. ledger' = ledger \o new
    BY <2>1, <2>2, <2>4, <2>6 DEF ExpireClient, Insert
  <2>8. \A all : all = ledger \o new => Due(all, now, Never) = {}
    BY <2>3, <2>4, NothingLeftDue
  <2> QED BY <2>2, <2>7, <2>8
<1>3. NeverRestarted /\ [Next]_vars => NeverRestarted'
  BY RestartStep
<1> QED BY <1>1, <1>2, <1>3, LedgerInvHolds, PTL DEF JobIsIdempotent, Spec, SafetySpec

(***************************************************************************)
(* What the rows of a batch leave of it: its minutes, its correction, its  *)
(* expiries and its withdrawal.                                            *)
(***************************************************************************)
Touching(rows, i) == Adjusting(rows, i) \union ExpiriesOf(rows, i)
Left(rows, i) == rows[i].delta + Delta(rows, Touching(rows, i))
Touches(batch, i, row) ==
    \/ row.kind \in {"correction", "expire"} /\ row.source = i
    \/ row.kind = ReversalOf(batch.kind) /\ row.source = batch.source
FirstOnes(rows) ==
    {i \in Batches(rows) : \A j \in Batches(rows) : ~SpentBefore(rows, j, i)}
NoneOverGiven(rows) == \A i \in FirstOnes(rows) : Left(rows, i) >= 0

\* The rows of a batch are those that touch it.
LEMMA TouchingAre ==
    ASSUME NEW rows \in Seq(Row), NEW i \in DOMAIN rows
    PROVE  /\ Touching(rows, i) = {k \in DOMAIN rows : Touches(rows[i], i, rows[k])}
           /\ Touching(rows, i) \in SUBSET DOMAIN rows
           /\ Left(rows, i) \in Int /\ rows[i].delta \in Int
<1>1. Touching(rows, i) = {k \in DOMAIN rows : Touches(rows[i], i, rows[k])}
  BY DEF Touching, Touches, Adjusting, CorrectionsOf, WithdrawalsOf, ExpiriesOf
<1>2. Touching(rows, i) \in SUBSET DOMAIN rows
  BY <1>1
<1>3. Delta(rows, Touching(rows, i)) \in Int /\ rows[i].delta \in Int
  BY <1>2, DeltaIsInt, RowsOfLedger
<1> QED BY <1>1, <1>2, <1>3 DEF Left

\* The sum the property is about.
LEMMA LeftIs ==
    ASSUME NEW rows \in Seq(Row), AllFit(rows), rows = ledger, NEW i \in DOMAIN rows,
           NEW gone, gone = ExpiriesOf(rows, i) \union WithdrawalsOf(rows, i)
    PROVE  /\ NetOfCorrections(i) + Delta(rows, gone) = Left(rows, i)
           /\ NetOfCorrections(i) \in Int /\ Delta(rows, gone) \in Int
           /\ gone \in SUBSET DOMAIN rows
<1>1. PICK C : C = CorrectionsOf(rows, i)
  OBVIOUS
<1>2. C \in SUBSET DOMAIN rows /\ gone \in SUBSET DOMAIN rows /\ C \intersect gone = {}
  BY <1>1 DEF CorrectionsOf, ExpiriesOf, WithdrawalsOf, ReversalOf
<1>3. Touching(rows, i) = C \union gone
  BY <1>1 DEF Touching, Adjusting
<1>4. Delta(rows, C \union gone) = Delta(rows, C) + Delta(rows, gone)
  BY <1>2, DeltaOfUnion
<1>5. Delta(rows, C) \in Int /\ Delta(rows, gone) \in Int /\ rows[i].delta \in Int
  BY <1>2, DeltaIsInt, RowsOfLedger
<1>6. NetOfCorrections(i) = rows[i].delta + Delta(rows, C)
  <2>1. CASE C = {} /\ NetOfCorrections(i) = rows[i].delta
    BY <1>5, <2>1, DeltaOfNone
  <2>2. ASSUME NEW c \in DOMAIN rows, C = {c}, NetOfCorrections(i) = rows[i].delta + rows[c].delta
        PROVE  NetOfCorrections(i) = rows[i].delta + Delta(rows, C)
    BY <2>2, DeltaOfRow
  <2> QED BY <1>1, <2>1, <2>2, NetIs
<1> QED BY <1>2, <1>3, <1>4, <1>5, <1>6 DEF Left

\* What a batch has lost so far is lost after it.
LEMMA TouchedLater ==
    ASSUME NEW rows \in Seq(Row), AllFit(rows), NEW i \in Batches(rows), NEW k \in DOMAIN rows,
           Touches(rows[i], i, rows[k])
    PROVE  i < k
<1>1. /\ i \in DOMAIN rows /\ DOMAIN rows = 1..Len(rows) /\ Len(rows) \in Nat
  BY RowsOfLedger DEF Batches
<1>2. CASE rows[k].kind \in {"correction", "expire"} /\ rows[k].source = i
  BY <1>1, <1>2 DEF AllFit, Fits, Corrects
<1>3. CASE rows[k].kind = ReversalOf(rows[i].kind) /\ rows[k].source = rows[i].source
  <2>1. /\ rows[k].kind \in Kinds
        /\ ReversalOf(rows[i].kind) \in {"invoice_credit_reversal", "purchase_reversal", "none"}
    BY RowsOfLedger DEF ReversalOf
  <2>2. rows[k].kind \in {"invoice_credit_reversal", "purchase_reversal"}
    BY <1>3, <2>1 DEF Kinds
  <2>3. PICK p \in 1..(k - 1) : Withdraws(rows, k, p)
    BY <2>2 DEF AllFit, Fits
  <2>4. rows[p].kind = rows[i].kind /\ rows[p].source = rows[i].source
        /\ rows[i].kind \in {"invoice_credit", "purchase"}
    BY <1>3, <2>2, <2>3 DEF Withdraws, ReversalOf
  <2>5. ~(p < i)
    <3> SUFFICES ASSUME p < i PROVE FALSE
      OBVIOUS
    <3>1. p \in Earlier(rows, i, rows[i].kind, rows[i].source)
      BY <1>1, <2>4 DEF Earlier
    <3>2. Earlier(rows, i, rows[i].kind, rows[i].source) = {}
      BY <1>1, <2>4 DEF AllFit, Fits, OncePerSource
    <3> QED BY <3>1, <3>2
  <2> QED BY <1>1, <2>3, <2>5
<1> QED BY <1>2, <1>3 DEF Touches

\* What is first was first, when it was there.
LEMMA FirstWasFirst ==
    ASSUME NEW rows \in Seq(Row), NEW new \in Seq(Row), NEW all, all = rows \o new,
           NEW i \in FirstOnes(all), i \in DOMAIN rows
    PROVE  i \in FirstOnes(rows)
<1>1. \A k \in DOMAIN rows : k \in DOMAIN all /\ all[k] = rows[k]
  BY Appended
<1>2. Batches(rows) \subseteq Batches(all) /\ i \in Batches(rows)
  BY <1>1 DEF Batches, FirstOnes
<1>3. \A j \in Batches(rows) : SpentBefore(rows, j, i) => SpentBefore(all, j, i)
  BY <1>1 DEF SpentBefore, Batches
<1> QED BY <1>2, <1>3 DEF FirstOnes

\* New rows that take one batch's minutes at most once, and no more than it has left.
LEMMA OneTouches ==
    ASSUME NEW rows \in Seq(Row), NEW new \in Seq(Row), NEW all, all = rows \o new,
           NEW i \in DOMAIN rows, Left(rows, i) >= 0,
           \A j, l \in DOMAIN new :
              Touches(rows[i], i, new[j]) /\ Touches(rows[i], i, new[l]) => j = l,
           \A j \in DOMAIN new : Touches(rows[i], i, new[j]) => Left(rows, i) + new[j].delta >= 0
    PROVE  Left(all, i) >= 0
<1>1. /\ all \in Seq(Row) /\ DOMAIN all = 1..Len(all) /\ DOMAIN rows = 1..Len(rows)
      /\ Len(rows) \in Nat /\ Len(all) \in Nat
      /\ \A k \in DOMAIN rows : k \in DOMAIN all /\ all[k] = rows[k]
      /\ \A j \in DOMAIN new : Len(rows) + j \in DOMAIN all /\ all[Len(rows) + j] = new[j]
  BY Appended
<1>2. \A k \in DOMAIN all :
           \/ k \in DOMAIN rows
           \/ k \notin DOMAIN rows /\ k - Len(rows) \in DOMAIN new
              /\ all[k] = new[k - Len(rows)]
  BY Appended
<1>3. PICK old, later : /\ old = Touching(rows, i)
                        /\ later = {k \in DOMAIN all \ DOMAIN rows : Touches(rows[i], i, all[k])}
  OBVIOUS
<1>4. /\ old \in SUBSET DOMAIN rows /\ Left(rows, i) = rows[i].delta + Delta(rows, old)
      /\ Left(rows, i) \in Int /\ rows[i].delta \in Int
      /\ old = {k \in DOMAIN rows : Touches(rows[i], i, rows[k])}
  BY <1>3, TouchingAre DEF Left
<1>5. Touching(all, i) = old \union later
  <2>1. Touching(all, i) = {k \in DOMAIN all : Touches(rows[i], i, all[k])}
    <3>1. all \in Seq(Row) /\ i \in DOMAIN all /\ all[i] = rows[i]
      BY <1>1
    <3>2. Touching(all, i) = {k \in DOMAIN all : Touches(all[i], i, all[k])}
      BY <3>1, TouchingAre
    <3> QED BY <3>1, <3>2
  <2> QED BY <1>1, <1>3, <1>4, <2>1
<1>6. /\ old \in SUBSET DOMAIN all /\ later \in SUBSET DOMAIN all /\ old \intersect later = {}
  BY <1>1, <1>3, <1>4
<1>7. Delta(all, old \union later) = Delta(all, old) + Delta(all, later)
  BY <1>1, <1>6, DeltaOfUnion
<1>8. Delta(all, old) = Delta(rows, old)
  <2>1. old \in SUBSET DOMAIN rows
    BY <1>4
  <2> QED BY <2>1, DeltaOfOld
<1>9. Delta(rows, old) \in Int /\ Delta(all, later) \in Int
  BY <1>1, <1>4, <1>6, DeltaIsInt
<1>10. Left(all, i) = Left(rows, i) + Delta(all, later)
  <2>1. Left(all, i) = rows[i].delta + (Delta(rows, old) + Delta(all, later))
    BY <1>1, <1>5, <1>7, <1>8 DEF Left
  <2> QED BY <1>4, <1>9, <2>1
<1>11. CASE later = {}
  <2>1. Delta(all, later) = 0
    BY <1>1, <1>11, DeltaOfNone
  <2>2. PICK left \in Int : left = Left(rows, i)
    BY <1>4
  <2>3. Left(all, i) = left + 0 /\ left >= 0
    BY <1>10, <2>1, <2>2
  <2> QED BY <2>3
<1>12. CASE later # {}
  <2>1. PICK k \in later : TRUE
    BY <1>12
  <2>2. PICK j : j = k - Len(rows)
    OBVIOUS
  <2>3. j \in DOMAIN new /\ all[k] = new[j] /\ k \in DOMAIN all
    BY <1>2, <1>3, <2>1, <2>2
  <2>4. Touches(rows[i], i, new[j])
    BY <1>3, <2>1, <2>3
  <2>5. ASSUME NEW m \in later PROVE m = k
    <3>1. PICK l : l = m - Len(rows)
      OBVIOUS
    <3>2. l \in DOMAIN new /\ all[m] = new[l] /\ m \in DOMAIN all
      BY <1>2, <1>3, <2>5, <3>1
    <3>3. Touches(rows[i], i, new[l])
      BY <1>3, <2>5, <3>2
    <3>4. l = j
      BY <2>3, <2>4, <3>2, <3>3
    <3>5. m \in Nat /\ k \in Nat /\ Len(rows) \in Nat
      BY <1>1, <2>3, <3>2
    <3> QED BY <2>2, <3>1, <3>4, <3>5
  <2>6. later = {k}
    BY <2>1, <2>5
  <2>7. Delta(all, later) = new[j].delta
    BY <1>1, <2>3, <2>6, DeltaOfRow
  <2>8. Left(rows, i) + new[j].delta >= 0
    BY <2>3, <2>4
  <2> QED BY <1>10, <2>7, <2>8
<1> QED BY <1>11, <1>12

\* Rows that are all batches, or none of them, keep what the first batch gives.
LEMMA NoBatchAdded ==
    ASSUME NEW rows \in Seq(Row), NEW new \in Seq(Row), NEW all, all = rows \o new,
           \A j \in DOMAIN new : new[j].delta <= 0 \/ new[j].kind \in {"task_reversal", "correction"},
           \A i \in FirstOnes(rows) : Left(all, i) >= 0
    PROVE  NoneOverGiven(all)
<1> SUFFICES ASSUME NEW i \in FirstOnes(all) PROVE Left(all, i) >= 0
  BY DEF NoneOverGiven
<1>1. \A k \in DOMAIN all :
           \/ k \in DOMAIN rows
           \/ k \notin DOMAIN rows /\ k - Len(rows) \in DOMAIN new
              /\ all[k] = new[k - Len(rows)]
  BY Appended
<1>2. /\ i \in DOMAIN all /\ all[i].delta > 0 /\ all[i].kind \notin {"task_reversal", "correction"}
      /\ all \in Seq(Row) /\ all[i].delta \in Int
  <2>1. all \in Seq(Row)
    BY Appended
  <2>2. i \in DOMAIN all
    BY DEF FirstOnes, Batches
  <2> QED BY <2>1, <2>2, RowsOfLedger DEF FirstOnes, Batches
<1>3. i \in DOMAIN rows
  BY <1>1, <1>2
<1> QED BY <1>3, FirstWasFirst

\* A batch without such rows has all its minutes.
LEMMA NothingLost ==
    ASSUME NEW rows \in Seq(Row), NEW i \in Batches(rows), Touching(rows, i) = {}
    PROVE  Left(rows, i) >= 0
<1>1. PICK S : S = Touching(rows, i) /\ S = {}
  OBVIOUS
<1>2. Delta(rows, S) = 0
  BY <1>1, DeltaOfNone
<1>3. rows[i].delta \in Int /\ rows[i].delta > 0
  BY RowsOfLedger DEF Batches
<1>4. Left(rows, i) = rows[i].delta + Delta(rows, S)
  BY <1>1 DEF Left
<1> QED BY <1>2, <1>3, <1>4

\* Plain rows take nothing from a batch.
LEMMA PlainKeepsFirst ==
    ASSUME NEW rows \in Seq(Row), NEW new \in Seq(Row), NEW all, all = rows \o new,
           AllFit(all), NoneOverGiven(rows), \A j \in DOMAIN new : new[j].kind \in PlainKinds
    PROVE  NoneOverGiven(all)
<1> SUFFICES ASSUME NEW i \in FirstOnes(all) PROVE Left(all, i) >= 0
  BY DEF NoneOverGiven
<1>1. all \in Seq(Row) /\ DOMAIN all = 1..Len(all) /\ DOMAIN rows = 1..Len(rows)
      /\ Len(rows) \in Nat /\ Len(all) \in Nat
  BY Appended
<1>2. \A k \in DOMAIN all :
           \/ k \in DOMAIN rows
           \/ k \notin DOMAIN rows /\ k - Len(rows) \in DOMAIN new
              /\ all[k] = new[k - Len(rows)]
  BY Appended
<1>3. i \in DOMAIN all /\ i \in Batches(all)
  BY DEF FirstOnes, Batches
<1>4. \A j \in DOMAIN new : \A batch : ~Touches(batch, i, new[j])
  BY DEF Touches, PlainKinds, ReversalOf
<1>5. CASE i \in DOMAIN rows
  <2>1. Left(rows, i) >= 0
    BY <1>5, FirstWasFirst DEF NoneOverGiven
  <2>2. \A j \in DOMAIN new : ~Touches(rows[i], i, new[j])
    BY <1>4
  <2>3. \A j, l \in DOMAIN new :
           Touches(rows[i], i, new[j]) /\ Touches(rows[i], i, new[l]) => j = l
    BY <2>2
  <2>4. \A j \in DOMAIN new : Touches(rows[i], i, new[j]) => Left(rows, i) + new[j].delta >= 0
    BY <2>2
  <2> QED BY <1>5, <2>1, <2>3, <2>4, OneTouches
<1>6. CASE i \notin DOMAIN rows
  <2>1. ASSUME NEW k \in Touching(all, i) PROVE FALSE
    <3>1. k \in DOMAIN all /\ Touches(all[i], i, all[k])
      BY <1>1, <1>3, TouchingAre
    <3>2. i < k
      BY <1>1, <1>3, <3>1, TouchedLater
    <3>3. k \notin DOMAIN rows
      BY <1>1, <1>3, <1>6, <3>1, <3>2
    <3> QED BY <1>2, <1>4, <3>1, <3>3
  <2>2. Touching(all, i) = {}
    BY <2>1
  <2>3. all \in Seq(Row) /\ i \in Batches(all)
    BY <1>1, <1>3
  <2> QED BY <2>2, <2>3, NothingLost
<1> QED BY <1>5, <1>6

(***************************************************************************)
(* What expires of the batch spent first, or is withdrawn or corrected.    *)
(***************************************************************************)
\* What expires of the batch spent first is no more than it has left.
LEMMA FirstExpiry ==
    ASSUME NEW rows \in Seq(Row), AllFit(rows), NEW i \in FirstOnes(rows), Remaining(rows)[i] > 0
    PROVE  Left(rows, i) + -Remaining(rows)[i] >= 0
<1>1. /\ i \in Batches(rows) /\ i \in DOMAIN rows /\ BatchesBefore(rows, i) = {}
      /\ Len(rows) \in Nat
  BY RowsOfLedger DEF FirstOnes, Batches, BatchesBefore
<1>2. KeptBefore(rows, i) = 0
  <2>1. PICK B, n, v : B = BatchesBefore(rows, i) /\ n = Len(rows) /\ v = KeptBy(rows)
    OBVIOUS
  <2>2. n \in Nat /\ \A k \in 1..n : k \in B => v[k] = 0
    BY <1>1, <2>1
  <2>3. SumOver(n, B, v) = 0
    BY <2>2, SumOfNothing
  <2> QED BY <2>1, <2>3 DEF KeptBefore
<1>3. PICK T \in Nat : T = ToSpend(rows)
  BY RemainingIsBalance
<1>4. PICK H \in Int : H = Held(rows, i)
  BY <1>1, HeldIsInt
<1>5. Remaining(rows)[i] = AtLeastZero(KeptBy(rows)[i] - AtLeastZero(AtLeastZero(T) - 0))
  BY <1>1, <1>2, <1>3, RemainingIs
<1>6. KeptBy(rows)[i] = AtLeastZero(H)
  BY <1>1, <1>4 DEF KeptBy
<1>7. Remaining(rows)[i] = H - T
  BY <1>5, <1>6 DEF AtLeastZero
<1>8. PICK X, A, S : /\ X = ExpiriesOf(rows, i) /\ A = Adjusting(rows, i)
                     /\ S = Spending(rows) \ X
  OBVIOUS
<1>9. /\ X \in SUBSET DOMAIN rows /\ A \in SUBSET DOMAIN rows /\ A \intersect X = {}
      /\ Touching(rows, i) = A \union X
      /\ \A k \in X : rows[k].kind = "expire"
  BY <1>8 DEF Touching, Adjusting, CorrectionsOf, WithdrawalsOf, ExpiriesOf, ReversalOf
<1>10. X \subseteq Spending(rows)
  <2> SUFFICES ASSUME NEW k \in X, NEW j \in Batches(rows), k \in {j} \union Adjusting(rows, j)
               PROVE  FALSE
    BY <1>9 DEF Spending
  <2>1. rows[k].kind = "expire" /\ k \in DOMAIN rows
    BY <1>9
  <2>2. k # j
    <3>1. rows[k].delta < 0 /\ rows[k].delta \in Int
      BY <2>1, RowsOfLedger DEF AllFit, Fits
    <3> QED BY <3>1 DEF Batches
  <2>3. k \notin Adjusting(rows, j)
    BY <2>1 DEF Adjusting, CorrectionsOf, WithdrawalsOf, ReversalOf
  <2> QED BY <2>2, <2>3
<1>11. S \in SUBSET Spending(rows) /\ S \intersect X = {} /\ S \union X = Spending(rows)
       /\ S \in SUBSET DOMAIN rows
  BY <1>8, <1>10, BatchesHold
<1>12. Delta(rows, S) <= 0
  <2>1. \A k \in Spending(rows) \ S : rows[k].kind = "expire"
    BY <1>9, <1>11
  <2> QED BY <1>11, <2>1, SpendingTakes
<1>13. /\ Delta(rows, S \union X) = Delta(rows, S) + Delta(rows, X)
       /\ Delta(rows, A \union X) = Delta(rows, A) + Delta(rows, X)
  BY <1>9, <1>11, DeltaOfUnion
<1>14. PICK s \in Int, x \in Int, a \in Int, d \in Int, o \in Nat :
          /\ s = Delta(rows, S) /\ x = Delta(rows, X) /\ a = Delta(rows, A) /\ d = rows[i].delta
          /\ o = Overdrawn(rows)
  <2>1. Delta(rows, S) \in Int /\ Delta(rows, X) \in Int /\ Delta(rows, A) \in Int
    BY <1>9, <1>11, DeltaIsInt
  <2>2. rows[i].delta \in Int /\ Overdrawn(rows) \in Nat
    BY <1>1, RowsOfLedger, BatchesHold
  <2> QED BY <2>1, <2>2
<1>15. T = o - (s + x)
  BY <1>3, <1>11, <1>13, <1>14 DEF ToSpend
<1>16. Left(rows, i) = d + (a + x)
  BY <1>9, <1>13, <1>14 DEF Left
<1>17. H = d + a
  BY <1>4, <1>8, <1>14 DEF Held
<1>18. s <= 0
  BY <1>12, <1>14
<1>19. (d + (a + x)) - (H - T) >= 0
  BY <1>15, <1>17, <1>18
<1>20. PICK l \in Int, m \in Int : l = d + (a + x) /\ m = H - T /\ l - m >= 0
  BY <1>19
<1>21. l + -m >= 0
  BY <1>20
<1> QED BY <1>7, <1>16, <1>20, <1>21

\* Of a batch bought there is one with its source.
LEMMA SameCredit ==
    ASSUME NEW rows \in Seq(Row), AllFit(rows), NEW i \in DOMAIN rows, NEW c \in DOMAIN rows,
           rows[i].kind = rows[c].kind, rows[i].kind \in {"invoice_credit", "purchase"},
           rows[i].source = rows[c].source
    PROVE  i = c
<1>1. DOMAIN rows = 1..Len(rows) /\ Len(rows) \in Nat
  BY RowsOfLedger
<1>2. /\ Earlier(rows, i, rows[i].kind, rows[i].source) = {}
      /\ Earlier(rows, c, rows[i].kind, rows[i].source) = {}
  BY DEF AllFit, Fits, OncePerSource
<1>3. c \notin 1..(i - 1) /\ i \notin 1..(c - 1)
  BY <1>2 DEF Earlier
<1> QED BY <1>1, <1>3

\* The withdrawal of a credit takes what the row and its correction leave of it.
LEMMA WithdrawalTakes ==
    ASSUME NEW rows \in Seq(Row), AllFit(rows), rows = ledger, NEW i \in Batches(rows),
           NEW c \in DOMAIN rows, rows[c].kind \in {"invoice_credit", "purchase"},
           NEW row, row.kind = ReversalOf(rows[c].kind), row.source = rows[c].source,
           Touches(rows[i], i, row),
           RowsOf(rows, row.kind, row.source) = {}
    PROVE  /\ i = c
           /\ Left(rows, i) = NetOfCorrections(i) + Delta(rows, ExpiriesOf(rows, i))
           /\ NetOfCorrections(i) \in Int /\ Delta(rows, ExpiriesOf(rows, i)) \in Int
<1>1. i \in DOMAIN rows
  BY DEF Batches
<1>2. row.kind = ReversalOf(rows[i].kind) /\ row.source = rows[i].source
      /\ rows[i].kind = rows[c].kind
  BY DEF Touches, ReversalOf
<1>3. i = c
  BY <1>1, <1>2, SameCredit
<1>4. WithdrawalsOf(rows, i) = {}
  BY <1>2 DEF WithdrawalsOf, RowsOf
<1>5. PICK gone : gone = ExpiriesOf(rows, i) \union WithdrawalsOf(rows, i)
  OBVIOUS
<1>6. gone = ExpiriesOf(rows, i)
  BY <1>4, <1>5
<1>7. /\ NetOfCorrections(i) + Delta(rows, gone) = Left(rows, i)
      /\ NetOfCorrections(i) \in Int /\ Delta(rows, gone) \in Int
  BY <1>1, <1>5, LeftIs
<1> QED BY <1>3, <1>6, <1>7

\* A correction keeps the sign of a batch nothing was taken from.
LEMMA CorrectionKeeps ==
    ASSUME NEW rows \in Seq(Row), AllFit(rows), rows = ledger, NEW i \in Batches(rows),
           NEW m \in Int, Correctable(i, m), RowsOf(rows, "correction", i) = {}
    PROVE  Left(rows, i) + m >= 0
<1>1. i \in DOMAIN rows /\ rows[i].delta > 0 /\ rows[i].delta \in Int
  BY RowsOfLedger DEF Batches
<1>2. rows[i].kind # "task_consumption"
  BY <1>1 DEF AllFit, Fits
<1>3. WithdrawalsOf(rows, i) = {} /\ ExpiriesOf(rows, i) = {}
  BY <1>2 DEF Correctable
<1>4. CorrectionsOf(rows, i) = {}
  BY DEF CorrectionsOf, RowsOf
<1>5. PICK S : S = Touching(rows, i) /\ S = {}
  BY <1>3, <1>4 DEF Touching, Adjusting
<1>6. Delta(rows, S) = 0
  BY <1>5, DeltaOfNone
<1>7. PICK d \in Int : d = rows[i].delta /\ d > 0
  BY <1>1
<1>8. Sign(d + m) = Sign(d)
  BY <1>7 DEF Correctable
<1>9. d + m > 0
  BY <1>7, <1>8 DEF Sign
<1>10. Left(rows, i) = d + 0
  BY <1>5, <1>6, <1>7 DEF Left
<1> QED BY <1>9, <1>10

\* A credit is withdrawn before anything of it has expired.
NoLate == "late" \notin Env

\* One row that is no batch and takes no more than is left.
LEMMA OneRowKeepsFirst ==
    ASSUME ledger \in Seq(Row), NoneOverGiven(ledger), NEW row \in Row,
           row.delta <= 0 \/ row.kind = "correction",
           \A i \in FirstOnes(ledger) :
              Touches(ledger[i], i, row) => Left(ledger, i) + row.delta >= 0
    PROVE  NoneOverGiven(ledger \o <<row>>)
<1>1. PICK new : new = <<row>>
  OBVIOUS
<1>2. new \in Seq(Row) /\ DOMAIN new = {1} /\ new[1] = row
  BY <1>1
<1>3. PICK rows, all : rows = ledger /\ all = rows \o new
  OBVIOUS
<1>4. ASSUME NEW i \in FirstOnes(rows) PROVE Left(all, i) >= 0
  <2>1. i \in DOMAIN rows /\ Left(rows, i) >= 0
    BY <1>3 DEF NoneOverGiven, FirstOnes, Batches
  <2>2. \A j, l \in DOMAIN new : j = l
    BY <1>2
  <2>3. \A j \in DOMAIN new : Touches(rows[i], i, new[j]) => Left(rows, i) + new[j].delta >= 0
    BY <1>2, <1>3, <1>4
  <2>4. rows \in Seq(Row) /\ new \in Seq(Row)
    BY <1>2, <1>3
  <2> QED BY <1>3, <2>1, <2>2, <2>3, <2>4, OneTouches
<1>5. NoneOverGiven(all)
  <2>1. \A j \in DOMAIN new : new[j].delta <= 0 \/ new[j].kind \in {"task_reversal", "correction"}
    BY <1>2
  <2>2. rows \in Seq(Row) /\ new \in Seq(Row)
    BY <1>2, <1>3
  <2> QED BY <1>3, <1>4, <2>1, <2>2, NoBatchAdded
<1> QED BY <1>1, <1>3, <1>5

\* No step takes more than the first batch has left.
LEMMA FirstStep ==
    ASSUME NoCrossing, NoLate, LedgerInv, AllFit(ledger'), NoneOverGiven(ledger), [Next]_vars
    PROVE  NoneOverGiven(ledger')
<1>0. ledger \in Seq(Row) /\ AllFit(ledger)
  BY DEF LedgerInv, TypeOK
<1>01. \A i \in FirstOnes(ledger) :
          i \in Batches(ledger) /\ i \in DOMAIN ledger /\ Left(ledger, i) >= 0
  BY DEF NoneOverGiven, FirstOnes, Batches
<1>1. CASE UNCHANGED ledger
  BY <1>1
<1>2. CASE WritesPlainly
  <2>1. PICK new \in Seq(Row) : /\ ledger' = ledger \o new
                                /\ \A k \in DOMAIN new : new[k].kind \in PlainKinds
    BY <1>2 DEF WritesPlainly
  <2>2. \A all : all = ledger \o new /\ AllFit(all) => NoneOverGiven(all)
    BY <1>0, <2>1, PlainKeepsFirst
  <2> QED BY <2>1, <2>2
<1>3. ASSUME NEW w \in Workers, WriteCorrection(w), ~(UNCHANGED ledger)
      PROVE  NoneOverGiven(ledger')
  <2>1. PICK row \in Row : /\ ledger' = ledger \o <<row>>
                           /\ row.kind = "correction" /\ row.source \in DOMAIN ledger
                           /\ Correctable(row.source, row.delta)
                           /\ RowsOf(ledger, "correction", row.source) = {}
    BY <1>3, CorrectionWritten
  <2>2. ASSUME NEW i \in FirstOnes(ledger), Touches(ledger[i], i, row)
        PROVE  Left(ledger, i) + row.delta >= 0
    <3>1. row.source = i
      BY <2>1, <2>2 DEF Touches, ReversalOf
    <3>2. row.delta \in Int
      BY DEF Row
    <3> QED BY <1>0, <1>01, <2>1, <3>1, <3>2, CorrectionKeeps
  <2>3. NoneOverGiven(ledger \o <<row>>)
    BY <1>0, <2>1, <2>2, OneRowKeepsFirst
  <2> QED BY <2>1, <2>3
<1>4. ASSUME NEW w \in Workers, Withdraw(w), ~(UNCHANGED ledger)
      PROVE  NoneOverGiven(ledger')
  <2>1. PICK row \in Row, c \in DOMAIN ledger :
                 /\ ledger' = ledger \o <<row>>
                 /\ row.kind = "invoice_credit_reversal" /\ row.source = ledger[c].source
                 /\ ledger[c].kind = "invoice_credit"
                 /\ row.delta = -NetOfCorrections(c) /\ row.delta < 0
                 /\ "late" \in Env \/ ExpiriesOf(ledger, c) = {}
                 /\ RowsOf(ledger, "invoice_credit_reversal", row.source) = {}
    BY <1>4, WithdrawalWritten
  <2>2. ASSUME NEW i \in FirstOnes(ledger), Touches(ledger[i], i, row)
        PROVE  Left(ledger, i) + row.delta >= 0
    <3>1. row.kind = ReversalOf(ledger[c].kind) /\ ledger[c].kind \in {"invoice_credit", "purchase"}
          /\ RowsOf(ledger, row.kind, row.source) = {}
      BY <2>1 DEF ReversalOf
    <3>2. PICK rows : rows = ledger
      OBVIOUS
    <3>3. /\ i = c
          /\ Left(rows, i) = NetOfCorrections(i) + Delta(rows, ExpiriesOf(rows, i))
          /\ NetOfCorrections(i) \in Int /\ Delta(rows, ExpiriesOf(rows, i)) \in Int
      BY <1>0, <1>01, <2>1, <2>2, <3>1, <3>2, WithdrawalTakes
    <3>4. PICK X : X = ExpiriesOf(rows, i) /\ X = {}
      BY <2>1, <3>2, <3>3 DEF NoLate
    <3>5. Delta(rows, X) = 0
      BY <1>0, <3>2, <3>4, DeltaOfNone
    <3>6. PICK net \in Int : net = NetOfCorrections(i)
      BY <3>3
    <3>7. Left(ledger, i) = net + 0 /\ row.delta = -net
      BY <2>1, <3>2, <3>3, <3>4, <3>5, <3>6
    <3> QED BY <3>6, <3>7
  <2>3. row.delta <= 0
    <3>1. row.delta \in Int
      BY DEF Row
    <3> QED BY <2>1, <3>1
  <2>4. NoneOverGiven(ledger \o <<row>>)
    BY <1>0, <2>2, <2>3, OneRowKeepsFirst
  <2> QED BY <2>1, <2>4
<1>5. ASSUME NEW w \in Workers, Undo(w), ~(UNCHANGED ledger)
      PROVE  NoneOverGiven(ledger')
  <2>1. PICK new \in Seq(Row), e \in Row :
                 /\ ledger' = ledger \o new
                 /\ e.kind = "task_reversal"
                 /\ \A j \in DOMAIN new :
                       \/ j = 1 /\ new[j] = e
                       \/ WithdrawnSurplus(new[j]) /\ \A l \in 1..(j - 1) : new[l] = e
    BY <1>5, UndoWritten
  <2>2. PICK rows, all : rows = ledger /\ all = rows \o new
    OBVIOUS
  <2>3. ASSUME NEW i \in FirstOnes(rows) PROVE Left(all, i) >= 0
    <3>1. i \in Batches(rows) /\ i \in DOMAIN rows /\ Left(rows, i) >= 0
      BY <1>01, <2>2, <2>3
    <3>2. ~Touches(rows[i], i, e)
      BY <2>1 DEF Touches, ReversalOf
    <3>3. \A j \in DOMAIN new : Touches(rows[i], i, new[j]) =>
             WithdrawnSurplus(new[j]) /\ \A l \in 1..(j - 1) : new[l] = e
      BY <2>1, <3>2
    <3>4. \A j, l \in DOMAIN new :
             Touches(rows[i], i, new[j]) /\ Touches(rows[i], i, new[l]) => j = l
      <4> SUFFICES ASSUME NEW j \in DOMAIN new, NEW l \in DOMAIN new, j # l,
                          Touches(rows[i], i, new[j]), Touches(rows[i], i, new[l])
                   PROVE  FALSE
        OBVIOUS
      <4>1. j \in Nat /\ l \in Nat /\ j >= 1 /\ l >= 1
        OBVIOUS
      <4>2. l \in 1..(j - 1) \/ j \in 1..(l - 1)
        BY <4>1
      <4> QED BY <3>2, <3>3, <4>2
    <3>5. ASSUME NEW j \in DOMAIN new, Touches(rows[i], i, new[j])
          PROVE  Left(rows, i) + new[j].delta >= 0
      <4>1. WithdrawnSurplus(new[j])
        BY <3>3, <3>5
      <4>2. PICK c \in DOMAIN ledger :
                  /\ new[j].kind = "purchase_reversal" /\ new[j].source = ledger[c].source
                  /\ ledger[c].kind = "purchase"
                  /\ new[j].delta = -SurplusWithdrawn(c)
                  /\ SurplusWithdrawn(c) \in Int /\ SurplusWithdrawn(c) > 0
                  /\ RowsOf(ledger, "purchase_reversal", new[j].source) = {}
        BY <4>1 DEF WithdrawnSurplus
      <4>3. PICK row : row = new[j]
        OBVIOUS
      <4>4. /\ row.kind = ReversalOf(rows[c].kind) /\ row.source = rows[c].source
            /\ rows[c].kind \in {"invoice_credit", "purchase"} /\ c \in DOMAIN rows
            /\ RowsOf(rows, row.kind, row.source) = {} /\ Touches(rows[i], i, row)
        BY <2>2, <3>5, <4>2, <4>3 DEF ReversalOf
      <4>5. rows \in Seq(Row) /\ AllFit(rows)
        BY <1>0, <2>2
      <4>6. /\ i = c
            /\ Left(rows, i) = NetOfCorrections(i) + Delta(rows, ExpiriesOf(rows, i))
            /\ NetOfCorrections(i) \in Int /\ Delta(rows, ExpiriesOf(rows, i)) \in Int
        BY <2>2, <3>1, <4>4, <4>5, WithdrawalTakes
      <4>7. Left(rows, i) = SurplusWithdrawn(c)
        BY <2>2, <4>6 DEF SurplusWithdrawn
      <4>8. PICK s \in Int : s = SurplusWithdrawn(c)
        BY <4>2
      <4>9. s + -s >= 0
        BY <4>8
      <4> QED BY <4>2, <4>7, <4>8, <4>9
    <3>6. rows \in Seq(Row) /\ new \in Seq(Row)
      BY <1>0, <2>2
    <3> QED BY <2>2, <3>1, <3>4, <3>5, <3>6, OneTouches
  <2>4. \A j \in DOMAIN new : new[j].delta <= 0 \/ new[j].kind \in {"task_reversal", "correction"}
    <3> SUFFICES ASSUME NEW j \in DOMAIN new, WithdrawnSurplus(new[j]) PROVE new[j].delta <= 0
      BY <2>1
    <3>1. PICK s \in Int : new[j].delta = -s /\ s > 0
      BY DEF WithdrawnSurplus
    <3> QED BY <3>1
  <2>5. rows \in Seq(Row)
    BY <1>0, <2>2
  <2>6. NoneOverGiven(all)
    BY <2>2, <2>3, <2>4, <2>5, NoBatchAdded
  <2> QED BY <2>1, <2>2, <2>6
<1>6. ASSUME ExpireClient, ~(UNCHANGED ledger) PROVE NoneOverGiven(ledger')
  <2>1. PICK rows, due, new, all :
            /\ rows = ledger /\ due = Due(rows, job.now, job.notBefore)
            /\ new = ExpireRows(rows, due) /\ all = rows \o new
    OBVIOUS
  <2>2. ledger' = all
    BY <1>6, <2>1 DEF ExpireClient, Insert
  <2>3. due \in SUBSET Batches(rows) /\ \A i \in due : Remaining(rows)[i] > 0
    BY <2>1 DEF Due
  <2>4. rows \in Seq(Row) /\ AllFit(rows)
    BY <1>0, <2>1
  <2>5. /\ new \in Seq(Row)
        /\ \A k \in DOMAIN new : \E i \in due : new[k] = ExpireRow(rows, i)
        /\ \A k, l \in DOMAIN new : new[k].source = new[l].source => k = l
    BY <2>1, <2>3, <2>4, ExpireRowsTake
  <2>6. ASSUME NEW j \in DOMAIN new
        PROVE  \E i \in due : /\ new[j].kind = "expire" /\ new[j].source = i
                              /\ new[j].delta = -Remaining(rows)[i]
                              /\ Remaining(rows)[i] \in Nat
    <3>1. PICK i \in due : new[j] = ExpireRow(rows, i)
      BY <2>5
    <3>2. Remaining(rows)[i] \in Nat
      BY <2>3, <2>4, RemainingIs
    <3> QED BY <3>1, <3>2 DEF ExpireRow
  <2>7. ASSUME NEW i \in FirstOnes(rows) PROVE Left(all, i) >= 0
    <3>1. i \in DOMAIN rows /\ Left(rows, i) >= 0
      BY <1>01, <2>1, <2>7
    <3>2. \A j \in DOMAIN new : Touches(rows[i], i, new[j]) => new[j].source = i
      BY <2>6 DEF Touches, ReversalOf
    <3>3. \A j, l \in DOMAIN new :
             Touches(rows[i], i, new[j]) /\ Touches(rows[i], i, new[l]) => j = l
      BY <2>5, <3>2
    <3>4. ASSUME NEW j \in DOMAIN new, Touches(rows[i], i, new[j])
          PROVE  Left(rows, i) + new[j].delta >= 0
      <4>1. new[j].delta = -Remaining(rows)[i] /\ Remaining(rows)[i] > 0
        BY <2>3, <2>6, <3>2, <3>4
      <4>2. Left(rows, i) + -Remaining(rows)[i] >= 0
        BY <2>4, <4>1, FirstExpiry
      <4> QED BY <4>1, <4>2
    <3>5. rows \in Seq(Row) /\ new \in Seq(Row) /\ all = rows \o new
      BY <2>1, <2>4, <2>5
    <3>6. \A j \in DOMAIN new : Touches(rows[i], i, new[j]) => Left(rows, i) + new[j].delta >= 0
      BY <3>4
    <3> QED BY <3>1, <3>3, <3>5, <3>6, OneTouches
  <2>8. \A j \in DOMAIN new : new[j].delta <= 0 \/ new[j].kind \in {"task_reversal", "correction"}
    BY <2>6
  <2>9. NoneOverGiven(all)
    BY <2>1, <2>4, <2>5, <2>7, <2>8, NoBatchAdded
  <2> QED BY <2>2, <2>9
<1> QED BY <1>1, <1>2, <1>3, <1>4, <1>5, <1>6, RowsWritten

\* What expired of the batch spent first and what was withdrawn of it never exceed what
\* it holds, if credits are withdrawn before they expire (FirstBatchGivesOnce).
THEOREM FirstBatchesGiveOnce ==
    ASSUME NoCrossing, NoLate
    PROVE  Spec => []FirstBatchGivesOnce
<1>1. Init => NoneOverGiven(ledger)
  BY DEF Init, NoneOverGiven, FirstOnes, Batches
<1>2. LedgerInv /\ NoneOverGiven(ledger) => FirstBatchGivesOnce
  <2> SUFFICES ASSUME LedgerInv, NoneOverGiven(ledger), NEW i \in FirstOnes(ledger),
                      NEW gone, gone = ExpiriesOf(ledger, i) \union WithdrawalsOf(ledger, i)
               PROVE  NetOfCorrections(i) + Delta(ledger, gone) >= 0
    BY DEF FirstBatchGivesOnce, FirstOnes
  <2>1. PICK rows : rows = ledger
    OBVIOUS
  <2>2. /\ rows \in Seq(Row) /\ AllFit(rows) /\ i \in DOMAIN rows
        /\ gone = ExpiriesOf(rows, i) \union WithdrawalsOf(rows, i)
    BY <2>1 DEF LedgerInv, TypeOK, FirstOnes, Batches
  <2>3. NetOfCorrections(i) + Delta(rows, gone) = Left(rows, i)
    BY <2>1, <2>2, LeftIs
  <2> QED BY <2>1, <2>3 DEF NoneOverGiven
<1>3. LedgerInv /\ LedgerInv' /\ NoneOverGiven(ledger) /\ [Next]_vars => NoneOverGiven(ledger)'
  <2>1. LedgerInv' => AllFit(ledger')
    BY DEF LedgerInv
  <2> QED BY <2>1, FirstStep
<1> QED BY <1>1, <1>2, <1>3, LedgerInvHolds, PTL DEF Spec, SafetySpec

===============================================================================
