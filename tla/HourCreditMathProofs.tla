------------------------- MODULE HourCreditMathProofs -------------------------
(***************************************************************************)
(* Rounding to a unit and splitting a settlement, for every step and block,*)
(* and what a finite set of ledger rows adds up to.                        *)
(***************************************************************************)
EXTENDS HourCreditMath, TLAPS, FiniteSetTheorems

\* A quotient is the whole number of units that fit.
LEMMA Quotient ==
    ASSUME NEW m \in Int, NEW unit \in Nat \ {0}
    PROVE  /\ m \div unit \in Int
           /\ unit * (m \div unit) <= m
           /\ m < unit * (m \div unit) + unit
  OBVIOUS

\* Rounding up (ceilToStep, invoicedOverageMinutes) never loses time and adds
\* less than a unit.
LEMMA RoundUpBounds ==
    ASSUME NEW m \in Nat, NEW unit \in Nat \ {0}
    PROVE  /\ RoundUp(m, unit) \in Nat
           /\ m <= RoundUp(m, unit)
           /\ RoundUp(m, unit) < m + unit
  BY Quotient DEF RoundUp

\* What is in whole units is not rounded again: a trace in whole hours is
\* invoiced as it stands.
LEMMA RoundUpIdempotent ==
    ASSUME NEW m \in Nat, NEW unit \in Nat \ {0}
    PROVE  RoundUp(RoundUp(m, unit), unit) = RoundUp(m, unit)
  BY Quotient DEF RoundUp

\* invoicedOverageMinutes: whole hours, the least that cover the overage.
LEMMA InvoicedOverageBounds ==
    ASSUME NEW m \in Nat
    PROVE  /\ InvoicedOverage(m) \in Nat
           /\ m <= InvoicedOverage(m) /\ InvoicedOverage(m) < m + Block
           /\ InvoicedOverage(InvoicedOverage(m)) = InvoicedOverage(m)
           /\ m = 0 => InvoicedOverage(m) = 0
<1>1. m = 0 => RoundUp(m, Block) = 0
  BY DEF RoundUp
<1> QED BY <1>1, RoundUpBounds, RoundUpIdempotent, BlockAssumption DEF InvoicedOverage

\* splitTaskSettlement: what is taken is within the credit, what is taken and
\* what is invoiced, without its surplus, is what is billed, and a settlement
\* of some minutes has one or the other.
THEOREM SplitIsExact ==
    ASSUME NEW actual \in Nat, NEW balance \in Int
    PROVE  LET s == Split(actual, balance) IN
           /\ s.consumed \in Nat /\ s.overage \in Nat
           /\ s.invoiced \in Nat /\ s.surplus \in Nat
           /\ s.consumed + s.overage = CeilToStep(actual)
           /\ s.invoiced = s.overage + s.surplus
           /\ s.surplus < Block
           /\ s.consumed > 0 => s.consumed <= balance
           /\ s.overage = 0 => s.surplus = 0
           /\ s.invoiced = InvoicedOverage(s.invoiced)
           /\ actual > 0 => s.consumed > 0 \/ s.overage > 0
<1> DEFINE billed == CeilToStep(actual)
           credit == IF balance > 0 THEN balance ELSE 0
           consumed == IF billed <= credit THEN billed ELSE credit
           invoiced == InvoicedOverage(billed - consumed)
<1>1. /\ billed \in Nat /\ actual <= billed
  BY RoundUpBounds, StepAssumption DEF CeilToStep
<1>2. consumed \in Nat /\ billed - consumed \in Nat /\ (consumed > 0 => consumed <= balance)
  BY <1>1
<1>3. /\ invoiced \in Nat
      /\ billed - consumed <= invoiced /\ invoiced < billed - consumed + Block
      /\ InvoicedOverage(invoiced) = invoiced
      /\ billed - consumed = 0 => invoiced = 0
  <2> HIDE DEF billed, consumed
  <2> QED BY <1>2, InvoicedOverageBounds
<1>4. Split(actual, balance) = [consumed |-> consumed, overage |-> billed - consumed,
                                invoiced |-> invoiced, surplus |-> invoiced - (billed - consumed)]
  BY DEF Split
<1> HIDE DEF billed, credit, consumed, invoiced
<1> QED BY <1>1, <1>2, <1>3, <1>4, BlockAssumption DEF billed

(***************************************************************************)
(* Sums over sets of rows. What fails for some set fails for a smallest    *)
(* one (SmallestSet), which takes the place of induction on the set.       *)
(***************************************************************************)

\* Of some finite sets one has no smaller one among them: what fails for a finite
\* set fails for one whose smaller sets it holds for.
LEMMA SmallestSet ==
    ASSUME NEW A, IsFiniteSet(A), NEW Bad \in SUBSET (SUBSET A), Bad # {}
    PROVE  \E s \in Bad : \A t \in SUBSET s : t # s => t \notin Bad
<1>1. Bad \subseteq FiniteSubsetsOf(A)
  BY FS_Subset DEF FiniteSubsetsOf
<1>2. PICK s \in Bad : \A t \in Bad : ~(<<t, s>> \in StrictSubsetOrdering(A))
  BY <1>1, FS_StrictSubsetOrderingWellFounded, WFMin
<1> QED BY <1>2 DEF StrictSubsetOrdering


\* The recursion SumDelta is defined by, over the sets of rows of A.
Some(s) == CHOOSE x \in s : TRUE
Sums(f, A) ==
    f = [s \in SUBSET A |-> IF s = {} THEN 0 ELSE Some(s).delta + f[s \ {Some(s)}]]
SumOf(A) == CHOOSE f : Sums(f, A)

LEMMA SumIsOf == ASSUME NEW A PROVE SumDelta(A) = SumOf(A)[A]
  BY DEF SumDelta, SumOf, Sums, Some

LEMMA SomeIsIn == ASSUME NEW s, s # {} PROVE Some(s) \in s
  BY DEF Some

\* A function the recursion holds for, set by set.
LEMMA SumsAt ==
    ASSUME NEW A, NEW f, Sums(f, A), NEW s \in SUBSET A
    PROVE  f[s] = IF s = {} THEN 0 ELSE Some(s).delta + f[s \ {Some(s)}]
  BY DEF Sums

\* Two such functions agree where both are defined.
LEMMA SumsAgree ==
    ASSUME NEW A, IsFiniteSet(A), NEW B \in SUBSET A, NEW f, Sums(f, A), NEW g, Sums(g, B)
    PROVE  \A s \in SUBSET B : f[s] = g[s]
<1> DEFINE Bad == {s \in SUBSET B : f[s] # g[s]}
<1> SUFFICES ASSUME Bad # {} PROVE FALSE
  OBVIOUS
<1>1. IsFiniteSet(B) /\ Bad \in SUBSET (SUBSET B)
  BY FS_Subset
<1>2. PICK s \in Bad : \A t \in SUBSET s : t # s => t \notin Bad
  <2> HIDE DEF Bad
  <2> QED BY <1>1, SmallestSet
<1>3. s \in SUBSET A /\ s \in SUBSET B /\ f[s] # g[s]
  OBVIOUS
<1>4. s # {}
  BY <1>3, SumsAt
<1>5. PICK x \in s : f[s] = x.delta + f[s \ {x}] /\ g[s] = x.delta + g[s \ {x}]
  <2>1. f[s] = Some(s).delta + f[s \ {Some(s)}] /\ g[s] = Some(s).delta + g[s \ {Some(s)}]
    BY <1>3, <1>4, SumsAt
  <2> QED BY <1>4, <2>1, SomeIsIn
<1>6. f[s \ {x}] = g[s \ {x}]
  BY <1>2, <1>3, <1>5
<1> QED BY <1>3, <1>5, <1>6

\* Over a finite set there is such a function.
LEMMA SumsExist ==
    ASSUME NEW A, IsFiniteSet(A)
    PROVE  Sums(SumOf(A), A)
<1> DEFINE Bad == {s \in SUBSET A : ~\E f : Sums(f, s)}
<1>1. Bad \in SUBSET (SUBSET A)
  OBVIOUS
<1>2. ASSUME NEW s \in SUBSET A, \A t \in SUBSET s : t # s => \E f : Sums(f, t)
      PROVE  \E f : Sums(f, s)
  <2>1. \A t \in SUBSET s : t # s => Sums(SumOf(t), t)
    BY <1>2 DEF SumOf
  <2> DEFINE Value(u) == IF u = {} THEN 0
                         ELSE Some(u).delta + SumOf(u \ {Some(u)})[u \ {Some(u)}]
             f == [u \in SUBSET s |-> Value(u)]
  <2>2. ASSUME NEW u \in SUBSET s, u # s
        PROVE  Value(u) = SumOf(u)[u]
    <3>1. Sums(SumOf(u), u) /\ IsFiniteSet(u) /\ u \in SUBSET u
      BY <2>1, <2>2, FS_Subset
    <3>2. CASE u = {}
      BY <3>1, <3>2, SumsAt
    <3>3. CASE u # {}
      <4>1. PICK x \in u : x = Some(u)
        BY <3>3, SomeIsIn
      <4>2. SumOf(u)[u] = x.delta + SumOf(u)[u \ {x}]
        BY <3>1, <3>3, <4>1, SumsAt
      <4>3. Sums(SumOf(u \ {x}), u \ {x}) /\ u \ {x} \in SUBSET u
        BY <2>1, <2>2
      <4>4. SumOf(u)[u \ {x}] = SumOf(u \ {x})[u \ {x}]
        BY <3>1, <4>3, SumsAgree
      <4> QED BY <3>3, <4>1, <4>2, <4>4
    <3> QED BY <3>2, <3>3
  <2>3. ASSUME NEW u \in SUBSET s, u # {}
        PROVE  f[u \ {Some(u)}] = SumOf(u \ {Some(u)})[u \ {Some(u)}]
    <3>1. u \ {Some(u)} \in SUBSET s /\ u \ {Some(u)} # s
      BY <2>3, SomeIsIn
    <3> HIDE DEF Value
    <3> QED BY <2>2, <3>1
  <2>4. \A u \in SUBSET s :
           Value(u) = IF u = {} THEN 0 ELSE Some(u).delta + f[u \ {Some(u)}]
    <3> HIDE DEF f
    <3> QED BY <2>3
  <2>5. Sums(f, s)
    <3> HIDE DEF Value
    <3> QED BY <2>4 DEF Sums
  <2> QED BY <2>5
<1>3. Bad = {}
  <2> SUFFICES ASSUME Bad # {} PROVE FALSE
    OBVIOUS
  <2>1. PICK s \in Bad : \A t \in SUBSET s : t # s => t \notin Bad
    <3> HIDE DEF Bad
    <3> QED BY <1>1, SmallestSet
  <2> QED BY <1>2, <2>1
<1> QED BY <1>3 DEF SumOf

\* The sum over a finite set, one row at a time.
LEMMA SumUnfolds ==
    ASSUME NEW A, IsFiniteSet(A)
    PROVE  SumDelta(A) = IF A = {} THEN 0 ELSE Some(A).delta + SumDelta(A \ {Some(A)})
<1>1. Sums(SumOf(A), A)
  BY SumsExist
<1>2. CASE A = {}
  BY <1>1, <1>2, SumIsOf, SumsAt
<1>3. CASE A # {}
  <2>1. PICK x \in A : x = Some(A)
    BY <1>3, SomeIsIn
  <2>2. IsFiniteSet(A \ {x}) /\ A \ {x} \in SUBSET A
    BY FS_Subset
  <2>3. Sums(SumOf(A \ {x}), A \ {x})
    BY <2>2, SumsExist
  <2>4. SumOf(A)[A \ {x}] = SumOf(A \ {x})[A \ {x}]
    BY <1>1, <2>2, <2>3, SumsAgree
  <2> QED BY <1>1, <1>3, <2>1, <2>4, SumIsOf, SumsAt
<1> QED BY <1>2, <1>3

LEMMA SumOfNone == SumDelta({}) = 0
  BY SumUnfolds, FS_EmptySet

\* What is summed are minutes.
LEMMA SumIsInt ==
    ASSUME NEW A, IsFiniteSet(A), \A x \in A : x.delta \in Int
    PROVE  SumDelta(A) \in Int
<1> DEFINE Bad == {s \in SUBSET A : SumDelta(s) \notin Int}
<1> SUFFICES ASSUME Bad # {} PROVE FALSE
  <2>1. A \in SUBSET A
    OBVIOUS
  <2> QED BY <2>1
<1>1. Bad \in SUBSET (SUBSET A)
  OBVIOUS
<1>2. PICK s \in Bad : \A t \in SUBSET s : t # s => t \notin Bad
  <2> HIDE DEF Bad
  <2> QED BY <1>1, SmallestSet
<1>3. IsFiniteSet(s) /\ s \in SUBSET A /\ SumDelta(s) \notin Int
  BY FS_Subset
<1>4. s # {}
  <2>1. SumDelta({}) \in Int
    BY SumOfNone
  <2> QED BY <1>3, <2>1
<1>5. PICK x \in s : SumDelta(s) = x.delta + SumDelta(s \ {x})
  BY <1>3, <1>4, SumUnfolds, SomeIsIn
<1>6. SumDelta(s \ {x}) \in Int
  BY <1>2, <1>3
<1> QED BY <1>3, <1>5, <1>6

\* The order of the rows does not matter: any row may be the last one added.
LEMMA SumRemoves ==
    ASSUME NEW A, IsFiniteSet(A), \A x \in A : x.delta \in Int
    PROVE  \A x \in A : SumDelta(A) = x.delta + SumDelta(A \ {x})
<1> DEFINE Bad == {s \in SUBSET A : ~\A x \in s : SumDelta(s) = x.delta + SumDelta(s \ {x})}
<1> SUFFICES ASSUME Bad # {} PROVE FALSE
  <2>1. A \in SUBSET A
    OBVIOUS
  <2> QED BY <2>1
<1>1. Bad \in SUBSET (SUBSET A)
  OBVIOUS
<1>2. PICK s \in Bad : \A t \in SUBSET s : t # s => t \notin Bad
  <2> HIDE DEF Bad
  <2> QED BY <1>1, SmallestSet
<1>3. IsFiniteSet(s) /\ s \in SUBSET A
  BY FS_Subset
<1>4. PICK x \in s : SumDelta(s) # x.delta + SumDelta(s \ {x})
  OBVIOUS
<1>5. PICK y \in s : SumDelta(s) = y.delta + SumDelta(s \ {y})
  BY <1>3, <1>4, SumUnfolds, SomeIsIn
<1>6. x # y
  BY <1>4, <1>5
<1>7. \A t \in SUBSET s : t # s => \A z \in t : SumDelta(t) = z.delta + SumDelta(t \ {z})
  BY <1>2, <1>3
<1>8. SumDelta(s \ {y}) = x.delta + SumDelta((s \ {y}) \ {x})
  BY <1>6, <1>7
<1>9. SumDelta(s \ {x}) = y.delta + SumDelta((s \ {x}) \ {y})
  BY <1>6, <1>7
<1>10. (s \ {x}) \ {y} = (s \ {y}) \ {x}
  OBVIOUS
<1>11. SumDelta((s \ {y}) \ {x}) \in Int /\ x.delta \in Int /\ y.delta \in Int
  <2>1. IsFiniteSet((s \ {y}) \ {x})
    BY <1>3, FS_Subset
  <2> QED BY <1>3, <2>1, SumIsInt
<1>12. \A a, b, c \in Int : a + (b + c) = b + (a + c)
  OBVIOUS
<1>13. SumDelta(s) = y.delta + (x.delta + SumDelta((s \ {y}) \ {x}))
  BY <1>5, <1>8
<1>14. x.delta + SumDelta(s \ {x}) = x.delta + (y.delta + SumDelta((s \ {y}) \ {x}))
  BY <1>9, <1>10
<1> QED BY <1>4, <1>11, <1>12, <1>13, <1>14

\* Rows that move nothing add up to nothing.
LEMMA SumOfZeros ==
    ASSUME NEW A, IsFiniteSet(A), \A x \in A : x.delta = 0
    PROVE  SumDelta(A) = 0
<1> DEFINE Bad == {s \in SUBSET A : SumDelta(s) # 0}
<1> SUFFICES ASSUME Bad # {} PROVE FALSE
  <2>1. A \in SUBSET A
    OBVIOUS
  <2> QED BY <2>1
<1>1. Bad \in SUBSET (SUBSET A)
  OBVIOUS
<1>2. PICK s \in Bad : \A t \in SUBSET s : t # s => t \notin Bad
  <2> HIDE DEF Bad
  <2> QED BY <1>1, SmallestSet
<1>3. IsFiniteSet(s) /\ s \in SUBSET A /\ SumDelta(s) # 0
  BY FS_Subset
<1>4. s # {}
  BY <1>3, SumOfNone
<1>5. PICK x \in s : SumDelta(s) = x.delta + SumDelta(s \ {x})
  BY <1>3, <1>4, SumUnfolds, SomeIsIn
<1>6. SumDelta(s \ {x}) = 0
  BY <1>2, <1>3
<1> QED BY <1>3, <1>5, <1>6

\* The sum over a single row is its delta.
LEMMA SumOfOne ==
    ASSUME NEW y, y.delta \in Int
    PROVE  SumDelta({y}) = y.delta
<1>1. IsFiniteSet({y}) /\ {y} \ {y} = {}
  BY FS_Singleton
<1>2. SumDelta({y}) = y.delta + SumDelta({y} \ {y})
  BY <1>1, SumRemoves
<1> QED BY <1>1, <1>2, SumOfNone
===============================================================================
