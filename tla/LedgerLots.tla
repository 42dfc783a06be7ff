------------------------------ MODULE LedgerLots ------------------------------
(***************************************************************************)
(* What is left of each batch of credit in a client's ledger, and which    *)
(* batches are due to expire: the pure rules of hour-credit-expiry.ts.     *)
(*                                                                         *)
(* A ledger is a sequence of rows; the position of a row is its id and its *)
(* place in time. What a row spends is not tied to a batch: it is          *)
(* allocated first to the batch that expires first.                        *)
(***************************************************************************)
EXTENDS Integers, FiniteSets, Sequences

NoTerm == 0   \* expires_at NULL; real terms are days 1, 2, ...

\* The sum of value[i] over the rows i in S, of n rows.
SumOver(n, S, value) ==
    LET sum[k \in 0..n] ==
            IF k = 0 THEN 0 ELSE sum[k - 1] + (IF k \in S THEN value[k] ELSE 0)
    IN  sum[n]

AtLeastZero(n) == IF n > 0 THEN n ELSE 0

AllPluses(rows) ==   \* mutant: minutes given back are a batch without a term
    {i \in DOMAIN rows : rows[i].delta > 0 /\ rows[i].kind # "correction"}

Batches(rows) ==
    {i \in DOMAIN rows : rows[i].delta > 0 /\ rows[i].kind \notin {"task_reversal", "correction"}}

\* CREDIT_REVERSAL_OF.
ReversalOf(kind) == CASE kind = "invoice_credit" -> "invoice_credit_reversal"
                      [] kind = "purchase"       -> "purchase_reversal"
                      [] OTHER                   -> "none"

CorrectionsOf(rows, i) == {k \in DOMAIN rows : rows[k].kind = "correction" /\ rows[k].source = i}
WithdrawalsOf(rows, i) ==
    {k \in DOMAIN rows : rows[k].kind = ReversalOf(rows[i].kind) /\ rows[k].source = rows[i].source}
ExpiriesOf(rows, i) == {k \in DOMAIN rows : rows[k].kind = "expire" /\ rows[k].source = i}

Delta(rows, S) == SumOver(Len(rows), S, [k \in S |-> rows[k].delta])
Balance(rows) == Delta(rows, DOMAIN rows)

\* The rows that adjust a batch itself: its corrections and its withdrawal.
Adjusting(rows, i) == CorrectionsOf(rows, i) \union WithdrawalsOf(rows, i)

HeldUncorrected(rows, i) == rows[i].delta + Delta(rows, WithdrawalsOf(rows, i))   \* mutant

\* What the batch holds before anything is spent (negative: more was taken
\* back than it held, and the rest counts as spent).
Held(rows, i) == rows[i].delta + Delta(rows, Adjusting(rows, i))

\* The rows that neither are a batch nor adjust one.
Spending(rows) ==
    DOMAIN rows \ UNION {{i} \union Adjusting(rows, i) : i \in Batches(rows)}
Overdrawn(rows) ==
    SumOver(Len(rows), Batches(rows), [i \in Batches(rows) |-> AtLeastZero(-Held(rows, i))])

ToSpendOnTasks(rows) ==   \* mutant: a manual minus is not spent
    Overdrawn(rows) - Delta(rows, {k \in Spending(rows) : rows[k].kind # "manual"})
ToSpendUnexpired(rows) ==   \* mutant: an expiry is not spent
    Overdrawn(rows) - Delta(rows, {k \in Spending(rows) : rows[k].kind # "expire"})

\* What all batches together have to pay for.
ToSpend(rows) == Overdrawn(rows) - Delta(rows, Spending(rows))

\* byConsumptionOrder: the nearest term first, no term last, then by age.
SpentBefore(rows, i, j) ==
    LET term(k) == rows[k].expires IN
    \/ term(i) # NoTerm /\ (term(j) = NoTerm \/ term(i) < term(j))
    \/ term(i) = term(j) /\ i < j

\* remainingBatches.
Remaining(rows) ==
    LET batches == Batches(rows)
        kept    == [i \in batches |-> AtLeastZero(Held(rows, i))]
        toSpend == AtLeastZero(ToSpend(rows))
        earlier(i) == SumOver(Len(rows), {j \in batches : SpentBefore(rows, j, i)}, kept)
    IN  [i \in batches |-> AtLeastZero(kept[i] - AtLeastZero(toSpend - earlier(i)))]

\* The batches whose term passed before now with minutes left. A term that
\* passed before expiry was switched on again does not count.
Due(rows, now, notBefore) ==
    {i \in Batches(rows) : /\ rows[i].expires # NoTerm /\ rows[i].expires < now
                           /\ rows[i].expires >= notBefore
                           /\ Remaining(rows)[i] > 0}

ExpireRowOnce(rows, i) ==   \* mutant: the key of a batch is always the batch
    [kind |-> "expire", delta |-> -Remaining(rows)[i], source |-> i, expires |-> NoTerm,
     nth |-> 1]

\* The expire row of a due batch. nth numbers the expiries of one batch: the
\* key is the batch for the first, batch#2, batch#3 ... for the later ones.
ExpireRow(rows, i) ==
    [kind |-> "expire", delta |-> -Remaining(rows)[i], source |-> i, expires |-> NoTerm,
     nth |-> 1 + Cardinality(ExpiriesOf(rows, i))]

\* The rows of one run, the batch spent first in front.
ExpireRows(rows, due) ==
    LET before(i) == {j \in due : SpentBefore(rows, j, i)}
        nth(k)    == CHOOSE i \in due : Cardinality(before(i)) = k - 1
    IN  [k \in 1..Cardinality(due) |-> ExpireRow(rows, nth(k))]
=============================================================================
