------------------------------ MODULE HourLedger ------------------------------
(***************************************************************************)
(* The ledger of one client's hour credit over time: credits with a term,  *)
(* consumption and reopening of tasks, manual adjustments, corrections of  *)
(* a row, withdrawal of the credit of a cancelled invoice, and the daily   *)
(* job that expires what is left of a batch after its term.                *)
(*                                                                         *)
(* A request reads, awaits and then writes in one transaction; req[w] is   *)
(* what it carries over the await. The tasks' drafts and invoice lines are *)
(* in TaskCredit; here a settlement is its ledger transaction.             *)
(*                                                                         *)
(* Env names what the surroundings may do:                                 *)
(*   "crossed"  what a correction or a withdrawal has checked may change   *)
(*              before it writes: a reopen, an expiry, each other          *)
(*   "late"     the credit of an invoice may be withdrawn after (part of)  *)
(*              it expired                                                 *)
(*   "toggle"   the tenant may switch expiry off and on again              *)
(***************************************************************************)
EXTENDS HourCreditMath, LedgerLots

CONSTANTS
    Workers, Invoices, Tasks,
    Worth,         \* [Invoices -> Nat \ {0}], minutes an invoice's net amount buys
    Actuals,       \* actual minutes a task may be settled with
    Adjustments,   \* signed minutes of a manual adjustment
    Corrections,   \* signed minutes of a correction
    Terms,         \* credit_expiry_days a tenant may choose; 0 is "no term"
    FirstTerm,     \* the one the tenant starts with
    Env,
    LastRuleDay,   \* bound: the last day the tenant changes it
    MaxDay,        \* bound: days that pass
    MaxRows        \* bound: rows after which requests write no more

ASSUME HourLedgerAssumption ==
    /\ Worth \in [Invoices -> Nat \ {0}]
    /\ Actuals \subseteq Nat \ {0}
    /\ Adjustments \subseteq Int \ {0} /\ Corrections \subseteq Int \ {0}
    /\ Terms \subseteq Nat /\ FirstTerm \in Terms
    /\ LastRuleDay \in Nat /\ MaxDay \in Nat \ {0} /\ MaxRows \in Nat

VARIABLES
    ledger,     \* client_hour_ledger
    balance,    \* client.hour_credit_minutes
    invoice,    \* status of each invoice; an unpaid one gives no credit
    settledAt,  \* task.credit_settled_at as the first row it wrote, 0 when null
    rule,       \* hour_credit_settings: credit_expiry_days, credit_expiry_enabled_at
    today,
    job,        \* the run of the expiry job in progress
    req         \* what each request is doing

vars == <<ledger, balance, invoice, settledAt, rule, today, job, req>>

Never == 0   \* enabled_at NULL: no restriction
Idle == [pc |-> "idle"]
At(w, pc) == req[w].pc = pc
Goto(w, r) == req' = [req EXCEPT ![w] = r]
Kinds == {"invoice_credit", "invoice_credit_reversal", "purchase", "purchase_reversal",
          "manual", "task_consumption", "task_reversal", "overage_invoiced", "expire",
          "correction"}
Row == [kind : Kinds, delta : Int, source : Invoices \union Tasks \union Nat,
        expires : Nat, nth : Nat]
\* Only credits have a term; consumption and expiries do not.
TermOnCreditOnly(row) == row.expires # NoTerm => row.delta > 0

Entry(kind, delta, source, expires) ==
    [kind |-> kind, delta |-> delta, source |-> source, expires |-> expires, nth |-> 0]

\* computeExpiryDate.
TermFrom(day, days) == IF days > 0 THEN day + days ELSE NoTerm

\* The unique indexes of the table.
OncePerSource == {"invoice_credit", "invoice_credit_reversal", "purchase", "purchase_reversal"}
Conflicts(x, y) ==
    /\ x.kind = y.kind
    /\ \/ x.kind \in OncePerSource \union {"correction"} /\ x.source = y.source
       \/ x.kind = "expire" /\ x.source = y.source /\ x.nth = y.nth
Violates(rows) == \E i \in DOMAIN ledger, j \in DOMAIN rows : Conflicts(ledger[i], rows[j])

Room == Len(ledger) < MaxRows

\* One transaction: the rows and the relative update of the balance.
Insert(rows) ==
    /\ ledger' = ledger \o rows
    /\ balance' = balance + Balance(rows)

\* applyLedgerEntry: a row that exists already leaves everything as it is.
ApplyEntry(row) == IF Violates(<<row>>) THEN UNCHANGED <<ledger, balance>> ELSE Insert(<<row>>)

(***************************************************************************)
(* creditPaidInvoice, and adjustHourCredit.                                *)
(***************************************************************************)
ReadPaidInvoice(w, i) ==
    /\ At(w, "idle")
    /\ invoice[i] = "paid"
    /\ Goto(w, [pc |-> "credit", invoice |-> i, days |-> rule.days])
    /\ UNCHANGED <<ledger, balance, invoice, settledAt, rule, today, job>>

CreditInvoice(w) ==
    /\ At(w, "credit") /\ Room
    /\ LET r == req[w] IN
       ApplyEntry(Entry("invoice_credit", Worth[r.invoice], r.invoice, TermFrom(today, r.days)))
    /\ Goto(w, Idle)
    /\ UNCHANGED <<invoice, settledAt, rule, today, job>>

AdjustWithTerm(minutes) ==   \* mutant: a minus has a term too
    /\ Room
    /\ Insert(<<Entry("manual", minutes, 0, TermFrom(today, rule.days))>>)
    /\ UNCHANGED <<invoice, settledAt, rule, today, job, req>>

AdjustHourCredit(minutes) ==
    /\ Room
    /\ Insert(<<Entry("manual", minutes, 0,
                      IF minutes > 0 THEN TermFrom(today, rule.days) ELSE NoTerm)>>)
    /\ UNCHANGED <<invoice, settledAt, rule, today, job, req>>

(***************************************************************************)
(* The ledger transaction of settleTaskCredit: what the credit covers is   *)
(* consumed, what it does not is traced, and the rest of the invoiced      *)
(* block becomes a batch of its own.                                       *)
(***************************************************************************)
SettlementRows(t, s) ==
    LET consumed == IF s.consumed = 0 THEN <<>>
                    ELSE <<Entry("task_consumption", -s.consumed, t, NoTerm)>>
        trace    == Len(ledger) + Len(consumed) + 1
        overage  == IF s.overage = 0 THEN <<>>
                    ELSE <<Entry("overage_invoiced", 0, t, NoTerm)>>
        surplus  == IF s.surplus = 0 THEN <<>>
                    ELSE <<Entry("purchase", s.surplus, trace, TermFrom(today, rule.days))>>
    IN  consumed \o overage \o surplus

Settle(t, actual) ==
    /\ Room
    /\ settledAt[t] = 0
    /\ Insert(SettlementRows(t, Split(actual, balance)))
    /\ settledAt' = [settledAt EXCEPT ![t] = Len(ledger) + 1]
    /\ UNCHANGED <<invoice, rule, today, job, req>>

(***************************************************************************)
(* reverseTaskCredit: the settlement read outside the transaction is       *)
(* claimed in it; its consumption comes back net of corrections, its       *)
(* surplus goes net of corrections and of what expired of it.              *)
(***************************************************************************)
ReadSettlement(w, t) ==
    /\ At(w, "idle")
    /\ settledAt[t] # 0
    /\ Goto(w, [pc |-> "undo", task |-> t, cycle |-> settledAt[t]])
    /\ UNCHANGED <<ledger, balance, invoice, settledAt, rule, today, job>>

RowsOfCycle(kind, t, cycle) ==
    {k \in DOMAIN ledger : k >= cycle /\ ledger[k].kind = kind /\ ledger[k].source = t}

\* The row with its correction; the unique index allows one.
NetOfCorrections(i) ==
    ledger[i].delta + (IF CorrectionsOf(ledger, i) = {} THEN 0
                       ELSE ledger[CHOOSE k \in CorrectionsOf(ledger, i) : TRUE].delta)

Newest(S) == CHOOSE i \in S : \A k \in S : k <= i

GivenBackGross(t, cycle) ==   \* mutant: the consumption comes back as it was written
    LET consumption == RowsOfCycle("task_consumption", t, cycle)
    IN  IF consumption = {} THEN 0 ELSE -ledger[Newest(consumption)].delta
GivenBack(t, cycle) ==
    LET consumption == RowsOfCycle("task_consumption", t, cycle)
    IN  IF consumption = {} THEN 0 ELSE -NetOfCorrections(Newest(consumption))

SurplusOf(t, cycle) ==
    {i \in DOMAIN ledger : /\ ledger[i].kind = "purchase"
                           /\ ledger[i].source \in RowsOfCycle("overage_invoiced", t, cycle)}

WithdrawnWithExpired(i) == NetOfCorrections(i)   \* mutant: what expired is withdrawn again
SurplusWithdrawn(i) == NetOfCorrections(i) + Delta(ledger, ExpiriesOf(ledger, i))

UndoRows(t, cycle) ==
    LET surplus == {i \in SurplusOf(t, cycle) : SurplusWithdrawn(i) > 0}
        entries == {Entry("purchase_reversal", -SurplusWithdrawn(i), ledger[i].source, NoTerm) :
                      i \in surplus}
    IN  (IF GivenBack(t, cycle) > 0
         THEN <<Entry("task_reversal", GivenBack(t, cycle), t, NoTerm)>> ELSE <<>>)
        \o (IF entries = {} THEN <<>> ELSE <<CHOOSE e \in entries : TRUE>>)

Undo(w) ==
    /\ At(w, "undo") /\ Room
    /\ LET r == req[w]
           rows == UndoRows(r.task, r.cycle)
       IN IF settledAt[r.task] # r.cycle \/ Violates(rows)
          THEN UNCHANGED <<ledger, balance, settledAt>>
          ELSE /\ Insert(rows)
               /\ settledAt' = [settledAt EXCEPT ![r.task] = 0]
    /\ Goto(w, Idle)
    /\ UNCHANGED <<invoice, rule, today, job>>

(***************************************************************************)
(* The debug endpoint: assertLedgerRowCorrectable only reads, and the      *)
(* correction is written after it.                                         *)
(***************************************************************************)
Sign(n) == IF n > 0 THEN 1 ELSE IF n < 0 THEN -1 ELSE 0

\* The consumption belongs to the settlement the task is in.
CycleOpen(i) ==
    /\ settledAt[ledger[i].source] # 0
    /\ \A k \in DOMAIN ledger : ~(/\ ledger[k].kind = "task_reversal"
                                  /\ ledger[k].source = ledger[i].source /\ k >= i)

Correctable(i, minutes) ==
    /\ ledger[i].kind \in {"manual", "purchase", "invoice_credit", "task_consumption"}
    /\ Sign(ledger[i].delta + minutes) = Sign(ledger[i].delta)
    /\ IF ledger[i].kind = "task_consumption" THEN CycleOpen(i)
       ELSE WithdrawalsOf(ledger, i) = {} /\ ExpiriesOf(ledger, i) = {}

CheckCorrection(w, i, minutes) ==
    /\ At(w, "idle")
    /\ Correctable(i, minutes)
    /\ Goto(w, [pc |-> "correct", row |-> i, minutes |-> minutes])
    /\ UNCHANGED <<ledger, balance, invoice, settledAt, rule, today, job>>

WriteCorrection(w) ==
    /\ At(w, "correct") /\ Room
    /\ "crossed" \in Env \/ Correctable(req[w].row, req[w].minutes)
    /\ ApplyEntry(Entry("correction", req[w].minutes, req[w].row, NoTerm))
    /\ Goto(w, Idle)
    /\ UNCHANGED <<invoice, settledAt, rule, today, job>>

(***************************************************************************)
(* Invoices outside this ledger, and reverseCancelledInvoiceCredit.        *)
(***************************************************************************)
CancelInvoice(i) ==
    /\ invoice[i] = "paid"
    /\ invoice' = [invoice EXCEPT ![i] = "cancelled"]
    /\ UNCHANGED <<ledger, balance, settledAt, rule, today, job, req>>

CreditOf(i) == {k \in DOMAIN ledger : ledger[k].kind = "invoice_credit" /\ ledger[k].source = i}

\* The credit net of its corrections; what expired of it is not looked at.
ReadCancelled(w, i) ==
    /\ At(w, "idle")
    /\ invoice[i] = "cancelled"
    /\ \E k \in CreditOf(i) :
        /\ NetOfCorrections(k) > 0
        /\ Goto(w, [pc |-> "withdraw", invoice |-> i, minutes |-> NetOfCorrections(k)])
    /\ UNCHANGED <<ledger, balance, invoice, settledAt, rule, today, job>>

Withdraw(w) ==
    /\ At(w, "withdraw") /\ Room
    /\ \E k \in CreditOf(req[w].invoice) :
        /\ "crossed" \in Env \/ NetOfCorrections(k) = req[w].minutes
        /\ "late" \in Env \/ ExpiriesOf(ledger, k) = {}
    /\ ApplyEntry(Entry("invoice_credit_reversal", -req[w].minutes, req[w].invoice, NoTerm))
    /\ Goto(w, Idle)
    /\ UNCHANGED <<invoice, settledAt, rule, today, job>>

(***************************************************************************)
(* The daily job: the tenant's settings and the time first, then, in one   *)
(* transaction, the client's rows read and the expiries written.           *)
(***************************************************************************)
StartJob ==
    /\ job = Idle /\ rule.days > 0
    /\ job' = [pc |-> "expire", now |-> today, notBefore |-> rule.enabledAt]
    /\ UNCHANGED <<ledger, balance, invoice, settledAt, rule, today, req>>

ExpireClient ==
    /\ job # Idle
    /\ LET rows == ExpireRows(ledger, Due(ledger, job.now, job.notBefore)) IN
       IF Violates(rows) THEN UNCHANGED <<ledger, balance>> ELSE Insert(rows)
    /\ job' = Idle
    /\ UNCHANGED <<invoice, settledAt, rule, today, req>>

\* nextExpiryEnabledAt.
NextEnabledAt(days) == IF days = 0 THEN Never
                       ELSE IF rule.days = 0 THEN today ELSE rule.enabledAt

UpdateRules(days) ==
    /\ days # rule.days /\ today <= LastRuleDay
    /\ "toggle" \in Env \/ (days > 0 /\ rule.days > 0)
    /\ rule' = [days |-> days, enabledAt |-> NextEnabledAt(days)]
    /\ UNCHANGED <<ledger, balance, invoice, settledAt, today, job, req>>

NextDay ==
    /\ today < MaxDay
    /\ today' = today + 1
    /\ UNCHANGED <<ledger, balance, invoice, settledAt, rule, job, req>>

\* A request ends without its write: an error thrown, or the process restarted.
Fail(w) ==
    /\ ~At(w, "idle")
    /\ Goto(w, Idle)
    /\ UNCHANGED <<ledger, balance, invoice, settledAt, rule, today, job>>

-----------------------------------------------------------------------------
Init ==
    /\ ledger = <<>> /\ balance = 0
    /\ invoice = [i \in Invoices |-> "paid"]
    /\ settledAt = [t \in Tasks |-> 0]
    /\ rule = [days |-> FirstTerm, enabledAt |-> Never]
    /\ today = 1
    /\ job = Idle
    /\ req = [w \in Workers |-> Idle]

RequestStep(w) ==
    \/ \E i \in Invoices : ReadPaidInvoice(w, i) \/ ReadCancelled(w, i)
    \/ \E t \in Tasks : ReadSettlement(w, t)
    \/ \E i \in DOMAIN ledger, minutes \in Corrections : CheckCorrection(w, i, minutes)
    \/ CreditInvoice(w)
    \/ Undo(w)
    \/ WriteCorrection(w)
    \/ Withdraw(w)
    \/ Fail(w)

Next ==
    \/ \E w \in Workers : RequestStep(w)
    \/ \E minutes \in Adjustments : AdjustHourCredit(minutes)
    \/ \E t \in Tasks, actual \in Actuals : Settle(t, actual)
    \/ \E i \in Invoices : CancelInvoice(i)
    \/ \E days \in Terms : UpdateRules(days)
    \/ StartJob
    \/ ExpireClient
    \/ NextDay

\* The scheduler starts the job again and again, and a run of it ends.
JobEnds == job # Idle /\ job' = Idle
Fairness == WF_vars(StartJob) /\ WF_job(JobEnds)

SafetySpec == Init /\ [][Next]_vars
Spec == SafetySpec /\ Fairness

-----------------------------------------------------------------------------
(***************************************************************************)
(* Properties.                                                             *)
(***************************************************************************)

\* Every variable holds values of its type.
TypeOK ==
    /\ ledger \in Seq(Row) /\ \A i \in DOMAIN ledger : TermOnCreditOnly(ledger[i])
    /\ balance \in Int
    /\ invoice \in [Invoices -> {"paid", "cancelled"}]
    /\ settledAt \in [Tasks -> Nat]
    /\ rule \in [days : Terms, enabledAt : Nat]
    /\ today \in Nat
    /\ job \in {Idle} \union [pc : {"expire"}, now : Nat, notBefore : Nat]
    /\ req \in [Workers ->
           {Idle}
           \union [pc : {"credit"}, invoice : Invoices, days : Terms]
           \union [pc : {"undo"}, task : Tasks, cycle : Nat]
           \union [pc : {"correct"}, row : Nat, minutes : Int]
           \union [pc : {"withdraw"}, invoice : Invoices, minutes : Nat]]

\* The batches account for the balance: what is left of all of them together
\* is the cached balance, and nothing while the balance is negative.
BatchesAreBalance ==
    LET left == Remaining(ledger) IN
    SumOver(Len(ledger), DOMAIN left, left) = AtLeastZero(balance)

\* The batch spent first gives its minutes once: what expired of it and what was
\* withdrawn with its invoice or its settlement never exceed what it holds. A later
\* batch may be booked with what expired of an earlier one.
FirstBatchGivesOnce ==
    \A i \in Batches(ledger) :
        (\A j \in Batches(ledger) : ~SpentBefore(ledger, j, i)) =>
            NetOfCorrections(i)
                + Delta(ledger, ExpiriesOf(ledger, i) \union WithdrawalsOf(ledger, i)) >= 0

\* "altfel aceleasi minute ar iesi din sold a doua oara": a reopen withdraws a
\* surplus without what expired of it, so a client for whom no task is done and
\* nothing was adjusted by hand owes nothing.
NothingDoneNothingOwed ==
    (/\ \A t \in Tasks : settledAt[t] = 0
     /\ \A k \in DOMAIN ledger : ledger[k].kind # "manual") => balance >= 0

\* "Soldul revine exact la valoarea dinainte de Done": the consumption of a
\* settlement that was undone, its correction and the reversal add up to zero.
ReopenIsExact ==
    \A i \in DOMAIN ledger : ledger[i].kind = "task_consumption" =>
        LET t      == ledger[i].source
            undone == {k \in DOMAIN ledger : k > i /\ ledger[k].kind = "task_reversal"
                                             /\ ledger[k].source = t}
        IN  settledAt[t] = 0 \/ settledAt[t] > i =>
                \E k \in undone : /\ \A m \in undone : k <= m
                                  /\ NetOfCorrections(i) + ledger[k].delta = 0

\* Minutes given back keep the term of the batch they came from: once every
\* credit is past its term and nothing is due, no credit is left.
NothingEscapesItsTerm ==
    (/\ \A i \in DOMAIN ledger :
          ledger[i].kind \in {"manual", "invoice_credit", "purchase"} /\ ledger[i].delta > 0
             => ledger[i].expires # NoTerm /\ ledger[i].expires < today
     /\ Due(ledger, today, Never) = {}) => balance <= 0

ExpiredIn(old, new) == \E k \in DOMAIN new \ DOMAIN old : new[k].kind = "expire"

\* Expiry takes only what nobody spent: it never makes the balance negative.
ExpiryNeverOverdraws == [][ExpiredIn(ledger, ledger') => balance' >= 0]_vars

\* "Idempotenta naturala a jobului": once the job expired what was due, nothing
\* of it is due, so running it again expires nothing more.
JobIsIdempotent ==
    [][job # Idle /\ job' = Idle => Due(ledger', job.now, job.notBefore) = {}]_vars

\* Minutes left after their term do expire, also when they come back to a batch
\* that expired before.
DueMinutesExpire ==
    []<>(rule.days > 0 => Due(ledger, today, rule.enabledAt) = {})
=============================================================================
