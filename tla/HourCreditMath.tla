--------------------------- MODULE HourCreditMath ---------------------------
(***************************************************************************)
(* The arithmetic of hour credit: minutes are whole and signed, the time   *)
(* worked is rounded up once to the tenant's step, and what exceeds the    *)
(* credit is invoiced in whole blocks (hours); the unused part of the last *)
(* block goes back to the credit.                                          *)
(***************************************************************************)
EXTENDS Integers

CONSTANTS
    Step,   \* hourly catalogue rule stepMinutes: 10, 15, 30 or 60
    Block   \* OVERAGE_BLOCK_MINUTES

ASSUME StepAssumption == Step \in Nat \ {0}
ASSUME BlockAssumption == Block \in Nat \ {0}

RoundUp(minutes, unit) ==
    IF minutes <= 0 THEN 0 ELSE ((minutes + unit - 1) \div unit) * unit

\* Time worked, as it is charged.
CeilToStep(minutes) == RoundUp(minutes, Step)

\* What goes on the invoice for an overage.
InvoicedOverage(minutes) == RoundUp(minutes, Block)

\* How a settlement of actual minutes splits against a balance. A negative
\* balance counts as an empty one.
Split(actual, balance) ==
    LET billed   == CeilToStep(actual)
        credit   == IF balance > 0 THEN balance ELSE 0
        consumed == IF billed <= credit THEN billed ELSE credit
        invoiced == InvoicedOverage(billed - consumed)
    IN  [consumed |-> consumed,
         overage  |-> billed - consumed,
         invoiced |-> invoiced,
         surplus  |-> invoiced - (billed - consumed)]

\* What a set of ledger rows adds up to (each row counts once).
SumDelta(rows) ==
    LET sum[s \in SUBSET rows] ==
            IF s = {} THEN 0
            ELSE LET x == CHOOSE x \in s : TRUE IN x.delta + sum[s \ {x}]
    IN  sum[rows]
=============================================================================
