------------------------------ MODULE TaskCredit ------------------------------
(***************************************************************************)
(* Hour credit on tasks: a task moved to Done takes its hours from its     *)
(* client's credit, what exceeds the credit becomes a line of the client's *)
(* monthly overage draft, and reopening the task gives everything back.    *)
(*                                                                         *)
(* A worker is one HTTP request handled by the application. Each request   *)
(* is a sequence of database calls; the server awaits between two calls,   *)
(* so requests interleave there and nowhere else: a transaction (libSQL    *)
(* BEGIN IMMEDIATE) is one action. The local variables a request carries   *)
(* over an await are the fields of req[w].                                 *)
(*                                                                         *)
(* Env names what the surroundings may do. It is a parameter so that each  *)
(* promise can be checked with the weakest discipline that keeps it:       *)
(*   "overlap"   requests on the same task may be in flight together       *)
(*   "invoicing" staff send, push and delete invoices during a request     *)
(*   "crash"     a request may stop between two calls (process restart, a  *)
(*               thrown error, or a commit whose answer was lost and whose *)
(*               retry then fails)                                         *)
(*   "lostack"   the attach UPDATE may commit, be reported busy, and run   *)
(*               again (withTursoBusyRetry)                                *)
(*   "stalecard" a board card may be dragged with an outdated oldStatus    *)
(*   "move"      staff may move a task to another client                   *)
(***************************************************************************)
EXTENDS HourCreditMath, FiniteSets

CONSTANTS
    Tasks, Clients, Workers,
    Owner,        \* [Tasks -> Clients], task.client_id at creation
    Opening,      \* [Clients -> Int], the credit each client starts with
    Actuals,      \* actual minutes a task may be given
    Legacy,       \* [SUBSET Tasks -> Nat], settled before 17 Sep 2026: exact-minute trace
    Env,
    MaxStamp,     \* bound: settlement timestamps
    MaxMonth,     \* bound: calendar months that begin
    MaxInvoices,  \* bound: overage drafts ever created
    MaxLines      \* bound: overage lines ever inserted

Stamps == 1..MaxStamp
InvoiceIds == 1..MaxInvoices
LineIds == 1..MaxLines
Null == 0   \* SQL NULL in settledAt and overageInvoice

ASSUME TaskCreditAssumption ==
    /\ Owner \in [Tasks -> Clients]
    /\ Opening \in [Clients -> Int]
    /\ Actuals \subseteq Nat \ {0}
    /\ DOMAIN Legacy \subseteq Tasks
    /\ Legacy \in [DOMAIN Legacy -> Nat \ {0}]
    /\ MaxStamp \in Nat \ {0} /\ MaxMonth \in Nat
    /\ MaxInvoices \in Nat \ {0} /\ MaxLines \in Nat
    /\ Tasks # {} /\ Clients # {}
    /\ IsFiniteSet(DOMAIN Legacy)

VARIABLES
    balance,   \* client.hour_credit_minutes, the cached balance
    ledger,    \* client_hour_ledger: the rows of task settlements and reopenings
    task,      \* the credit columns of the task table
    invoice,   \* hour-overage invoices
    line,      \* invoice_line_item rows with a task_id
    clock,     \* the next settlement timestamp
    month,     \* the current calendar month
    req        \* what each worker is doing

vars == <<balance, ledger, task, invoice, line, clock, month, req>>

(***************************************************************************)
(* Tables.                                                                 *)
(***************************************************************************)

\* cycle is createdAt (= the settlement's creditSettledAt) for what a Done
\* writes and the settlement undone for a reversal. A purchase row is the
\* surplus of the trace with the same task and cycle.
Row == [kind   : {"task_consumption", "overage_invoiced", "purchase",
                  "task_reversal", "purchase_reversal"},
        client : Clients, task : Tasks, cycle : Stamps, delta : Int, real : Nat]

Task == [client : Clients, status : {"open", "done"}, actual : Nat,
         settledAt : Stamps \union {Null}, overageInvoice : InvoiceIds \union {Null}]

\* "keez" is a draft with keez_status set; "unused" an id not inserted yet.
Invoice == [state : {"unused", "draft", "keez", "sent", "deleted"},
            client : Clients, month : Nat]

\* minutes is what the line bills; cycle records the settlement it was built for.
Line == [state : {"unused", "on", "removed"}, invoice : InvoiceIds,
         task : Tasks, cycle : Stamps, minutes : Nat]

Idle == [pc |-> "idle"]
Bill == [task : Tasks, client : Clients, cycle : Stamps, minutes : Nat, month : Nat]
Request ==
    {Idle}
    \union [pc : {"status"}, task : Tasks, old : {"open", "done"}, new : {"open", "done"}]
    \union [pc : {"settle"}, task : Tasks, given : Nat]
    \union [pc : {"consume"}, task : Tasks, client : Clients, cycle : Stamps,
            actual : Nat \ {0}, month : Nat]
    \union [pc : {"find"}, bill : Bill]
    \union [pc : {"create"}, bill : Bill, month : Nat]
    \union [pc : {"line"}, bill : Bill, invoice : InvoiceIds]
    \union [pc : {"attach", "retract"}, bill : Bill, invoice : InvoiceIds, line : LineIds]
    \union [pc : {"reverse"}, task : Tasks]
    \union [pc : {"undo"}, task : Tasks, client : Clients, cycle : Stamps]
    \union [pc : {"relink"}, task : Tasks, cycle : Stamps, invoice : InvoiceIds]
    \union [pc : {"surplus"}, bill : Bill, trace : Row]
    \union [pc : {"delete"}, invoice : InvoiceIds]

Fresh(table) == {i \in DOMAIN table : /\ table[i].state = "unused"
                                      /\ \A j \in DOMAIN table : j < i => table[j].state # "unused"}

Rows(kind, t, from) == {x \in ledger : x.kind = kind /\ x.task = t /\ x.cycle >= from}
Newest(rows) == {x \in rows : \A y \in rows : y.cycle <= x.cycle}

Exists(i) == invoice[i].state \in {"draft", "keez", "sent"}
Editable(i) == invoice[i].state = "draft"
Emitted(i) == invoice[i].state \in {"keez", "sent"}
LinesOf(t) == {l \in LineIds : line[l].state = "on" /\ line[l].task = t}

(***************************************************************************)
(* Requests in flight and what Env lets overlap with them.                 *)
(***************************************************************************)
At(w, pc) == req[w].pc = pc
Goto(w, r) == req' = [req EXCEPT ![w] = r]

TaskOf(r) == IF r.pc \in {"find", "create", "line", "attach", "retract", "surplus"}
             THEN r.bill.task ELSE r.task
InFlight(t) == \E w \in Workers : req[w].pc \notin {"idle", "delete"} /\ TaskOf(req[w]) = t
NoDelete == \A w \in Workers : ~At(w, "delete")

MayTouch(t) == /\ "overlap" \in Env \/ ~InFlight(t)
               /\ "invoicing" \in Env \/ NoDelete
MayInvoice == "invoicing" \in Env \/ \A w \in Workers : At(w, "idle")

(***************************************************************************)
(* assertTaskReopenAllowed: the task's overage is on an invoice that left  *)
(* the draft, found by the link or by the line.                            *)
(***************************************************************************)
BlockedByLink(t) ==   \* mutant: the lines are not looked at
    /\ task[t].settledAt # Null
    /\ task[t].overageInvoice # Null /\ Emitted(task[t].overageInvoice)

ReopenBlocked(t) ==
    /\ task[t].settledAt # Null
    /\ \/ task[t].overageInvoice # Null /\ Emitted(task[t].overageInvoice)
       \/ \E l \in LinesOf(t) : Emitted(line[l].invoice)

(***************************************************************************)
(* Status changes: updateTask and updateTaskStatus read the old status,    *)
(* updateTaskPosition is told it by the browser. The write is              *)
(* unconditional and the credit effects follow it.                         *)
(***************************************************************************)
ReadStatus(w, t, old, new) ==
    /\ At(w, "idle") /\ MayTouch(t)
    /\ (old = task[t].status /\ old # new) \/ "stalecard" \in Env
    /\ ~(old = "done" /\ new = "open" /\ ReopenBlocked(t))
    /\ Goto(w, [pc |-> "status", task |-> t, old |-> old, new |-> new])
    /\ UNCHANGED <<balance, ledger, task, invoice, line, clock, month>>

\* The write, then applyTaskStatusCreditEffects chooses the effect.
WriteStatus(w) ==
    /\ At(w, "status")
    /\ LET r == req[w] IN
        /\ task' = [task EXCEPT ![r.task].status = r.new]
        /\ Goto(w, IF r.new = "done" /\ r.old # "done"
                   THEN [pc |-> "settle", task |-> r.task, given |-> 0]
                   ELSE IF r.old = "done" /\ r.new # "done"
                   THEN [pc |-> "reverse", task |-> r.task]
                   ELSE Idle)
    /\ UNCHANGED <<balance, ledger, invoice, line, clock, month>>

\* updateTask without a status: actual hours, or another client.
EditTask(t) ==
    /\ MayTouch(t)
    /\ \/ \E minutes \in Actuals : task' = [task EXCEPT ![t].actual = minutes]
       \/ "move" \in Env /\ \E c \in Clients : task' = [task EXCEPT ![t].client = c]
    /\ UNCHANGED <<balance, ledger, invoice, line, clock, month, req>>

\* settleDoneTaskNow: hours saved on the task win over the ones given.
SettleNow(w, t) ==
    /\ At(w, "idle") /\ MayTouch(t)
    /\ task[t].status = "done"
    /\ \E minutes \in Actuals :
        Goto(w, [pc |-> "settle", task |-> t,
                 given |-> IF task[t].actual > 0 THEN 0 ELSE minutes])
    /\ UNCHANGED <<balance, ledger, task, invoice, line, clock, month>>

(***************************************************************************)
(* settleTaskCredit.                                                       *)
(***************************************************************************)

Settleable(t, actual) == task[t].settledAt = Null /\ actual > 0

\* The read outside the transaction, its early returns, and now.
ReadTask(w) ==
    /\ At(w, "settle")
    /\ LET r == req[w]
           t == r.task
           actual == IF r.given > 0 THEN r.given ELSE task[t].actual
       IN IF ~Settleable(t, actual)
          THEN /\ Goto(w, Idle)
               /\ UNCHANGED clock
          ELSE /\ clock <= MaxStamp
               /\ clock' = clock + 1
               /\ Goto(w, [pc |-> "consume", task |-> t, client |-> task[t].client,
                           cycle |-> clock, actual |-> actual, month |-> month])
    /\ UNCHANGED <<balance, ledger, task, invoice, line, month>>

SettlementEntry(r, kind, delta, real) ==
    [kind |-> kind, client |-> r.client, task |-> r.task, cycle |-> r.cycle,
     delta |-> delta, real |-> real]

\* The rows a settlement writes.
SettlementRows(r, s) ==
    LET entry(kind, delta, real) == SettlementEntry(r, kind, delta, real)
    IN  (IF s.consumed > 0 THEN {entry("task_consumption", -s.consumed, r.actual)} ELSE {})
        \union (IF s.overage > 0 THEN {entry("overage_invoiced", 0, s.invoiced)} ELSE {})
        \union (IF s.surplus > 0 THEN {entry("purchase", s.surplus, s.surplus)} ELSE {})

AvailableToFirst(r) ==   \* mutant: what the settlements of other tasks took is not seen
    balance[r.client] - SumDelta({x \in ledger : /\ x.client = r.client /\ x.task # r.task
                                                 /\ x.kind = "task_consumption"})

\* The credit a settlement draws on: the balance in the database when it commits,
\* which both attempts of the transaction guard.
Available(r) == balance[r.client]

\* The transaction: claim the task, take the credit, write the trace of the
\* overage and its surplus. A lost claim rolls back and skips. Within the
\* transaction no other write can intervene, so its three attempts at the
\* partial update reduce to the first.
Consume(w) ==
    /\ At(w, "consume")
    /\ LET r == req[w]
           s == Split(r.actual, Available(r))
       IN IF task[r.task].settledAt # Null
          THEN Goto(w, Idle) /\ UNCHANGED <<balance, ledger, task>>
          ELSE /\ task' = [task EXCEPT ![r.task].actual = r.actual,
                                       ![r.task].settledAt = r.cycle]
               /\ balance' = [balance EXCEPT ![r.client] = @ - s.consumed + s.surplus]
               /\ ledger' = ledger \union SettlementRows(r, s)
               /\ Goto(w, IF s.overage = 0 THEN Idle
                          ELSE [pc |-> "find",
                                bill |-> [task |-> r.task, client |-> r.client, cycle |-> r.cycle,
                                          minutes |-> s.invoiced, month |-> r.month]])
    /\ UNCHANGED <<invoice, line, clock, month>>

(***************************************************************************)
(* billOverage = addOverageLine (findOrCreateOverageDraft, insert), attach,*)
(* and the retraction of the line when the attach finds a changed task.    *)
(***************************************************************************)
NewestDraft(c, m) ==
    LET drafts == {i \in InvoiceIds : Exists(i) /\ invoice[i].client = c /\ invoice[i].month = m}
    IN  {i \in drafts : \A j \in drafts : j <= i}

TakenWhenSent(c, m) ==   \* mutant: keez_status is not looked at
    \E i \in NewestDraft(c, m) : invoice[i].state = "sent"

\* A month whose newest invoice has left the draft is passed over. Two months
\* are looked at; the third is used without a look.
Taken(c, m) == \E i \in NewestDraft(c, m) : ~Editable(i)
TargetMonth(c, m) == IF ~Taken(c, m) THEN m ELSE IF ~Taken(c, m + 1) THEN m + 1 ELSE m + 2

FindDraft(w) ==
    /\ At(w, "find")
    /\ LET b == req[w].bill
           m == TargetMonth(b.client, b.month)
           found == IF m < b.month + 2 THEN NewestDraft(b.client, m) ELSE {}
       IN \/ \E i \in found : Goto(w, [pc |-> "line", bill |-> b, invoice |-> i])
          \/ found = {} /\ Goto(w, [pc |-> "create", bill |-> b, month |-> m])
    /\ UNCHANGED <<balance, ledger, task, invoice, line, clock, month>>

CreateDraft(w) ==
    /\ At(w, "create")
    /\ \E i \in Fresh(invoice) :
        /\ invoice' = [invoice EXCEPT ![i] = [state |-> "draft", client |-> req[w].bill.client,
                                              month |-> req[w].month]]
        /\ Goto(w, [pc |-> "line", bill |-> req[w].bill, invoice |-> i])
    /\ UNCHANGED <<balance, ledger, task, line, clock, month>>

\* The insert: a foreign-key error when the draft is gone, no check of its state.
AddLine(w) ==
    /\ At(w, "line")
    /\ LET r == req[w] IN
        IF ~Exists(r.invoice)
        THEN Goto(w, Idle) /\ UNCHANGED line
        ELSE \E l \in Fresh(line) :
               /\ line' = [line EXCEPT ![l] = [state |-> "on", invoice |-> r.invoice,
                                               task |-> r.bill.task, cycle |-> r.bill.cycle,
                                               minutes |-> r.bill.minutes]]
               /\ Goto(w, [pc |-> "attach", bill |-> r.bill, invoice |-> r.invoice, line |-> l])
    /\ UNCHANGED <<balance, ledger, task, invoice, clock, month>>

InASettlement(t, cycle) == task[t].settledAt # Null   \* mutant: in which one is not compared

\* The condition of every UPDATE that belongs to a settlement read earlier.
InSettlement(t, cycle) == task[t].settledAt = cycle

Attachable(t, cycle) == InSettlement(t, cycle) /\ task[t].overageInvoice = Null

Attach(w) ==
    /\ At(w, "attach")
    /\ LET r == req[w] IN
        IF Attachable(r.bill.task, r.bill.cycle)
        THEN /\ task' = [task EXCEPT ![r.bill.task].overageInvoice = r.invoice]
             /\ \/ Goto(w, Idle)
                \/ "lostack" \in Env /\ Goto(w, [r EXCEPT !.pc = "retract"])
        ELSE /\ Goto(w, [r EXCEPT !.pc = "retract"])
             /\ UNCHANGED task
    /\ UNCHANGED <<balance, ledger, invoice, line, clock, month>>

RemovableByLink(gone) ==   \* mutant: found by task.overage_invoice_id, not by task_id
    {l \in gone : Editable(line[l].invoice)
                  /\ task[line[l].task].overageInvoice = line[l].invoice}
RemovableFromClient(gone) ==   \* mutant: found on the drafts of the task's client
    {l \in gone : Editable(line[l].invoice)
                  /\ task[line[l].task].client = invoice[line[l].invoice].client}

\* Only lines on editable drafts.
Removable(gone) == {l \in gone : Editable(line[l].invoice)}

\* removeTaskOverageLines: a draft left empty is deleted.
RemoveLines(gone) ==
    LET removed == Removable(gone)
        touched == {line[l].invoice : l \in removed}
        left(i) == {l \in LineIds \ removed : line[l].state = "on" /\ line[l].invoice = i}
    IN  /\ line' = [l \in LineIds |-> IF l \in removed THEN [line[l] EXCEPT !.state = "removed"]
                                      ELSE line[l]]
        /\ invoice' = [i \in InvoiceIds |->
                          IF i \in touched /\ left(i) = {}
                          THEN [invoice[i] EXCEPT !.state = "deleted"] ELSE invoice[i]]

Retract(w) ==
    /\ At(w, "retract")
    /\ RemoveLines(LinesOf(req[w].bill.task) \intersect {req[w].line})
    /\ Goto(w, Idle)
    /\ UNCHANGED <<balance, ledger, task, clock, month>>

(***************************************************************************)
(* reverseTaskCredit.                                                      *)
(***************************************************************************)

\* The read, and the second reopen check; a refusal is logged by the caller.
ReadSettlement(w) ==
    /\ At(w, "reverse")
    /\ LET t == req[w].task IN
        Goto(w, IF task[t].settledAt = Null \/ ReopenBlocked(t) THEN Idle
                ELSE [pc |-> "undo", task |-> t, client |-> task[t].client,
                      cycle |-> task[t].settledAt])
    /\ UNCHANGED <<balance, ledger, task, invoice, line, clock, month>>

\* The newest consumption since the settlement, and the surpluses of every
\* overage traced since the settlement.
Consumption(t, cycle) == Rows("task_consumption", t, cycle)
SurplusesOfClient(t, cycle) ==   \* mutant: searched in the ledger of the task's client
    {x \in Rows("purchase", t, cycle) : x.client = task[t].client}
Surpluses(t, cycle) ==
    {x \in Rows("purchase", t, cycle) :
        \E y \in Rows("overage_invoiced", t, cycle) : y.cycle = x.cycle}
SurplusWithdrawn(x) ==
    \E y \in ledger : y.kind = "purchase_reversal" /\ y.task = x.task /\ y.cycle = x.cycle

RefundsOfWork(r) ==   \* mutant: the minutes worked, before rounding to the step
    LET rows == Consumption(r.task, r.cycle)
    IN  IF rows = {} THEN {0} ELSE {x.real : x \in Newest(rows)}
Refunds(r) == LET rows == Consumption(r.task, r.cycle)
              IN  IF rows = {} THEN {0} ELSE {-x.delta : x \in Newest(rows)}

ReversalEntry(r, kind, cycle, delta) ==
    [kind |-> kind, client |-> r.client, task |-> r.task, cycle |-> cycle,
     delta |-> delta, real |-> 0]
RefundRowOnly(r, refund) ==   \* mutant: the surplus is withdrawn without a row
    IF refund > 0 THEN {ReversalEntry(r, "task_reversal", r.cycle, refund)} ELSE {}
ReversalRows(r, refund) ==
    (IF refund > 0 THEN {ReversalEntry(r, "task_reversal", r.cycle, refund)} ELSE {})
    \union {ReversalEntry(r, "purchase_reversal", x.cycle, -x.delta) : x \in Surpluses(r.task, r.cycle)}

Unlinked(t) == [task EXCEPT ![t].overageInvoice = Null]   \* mutant: the claim is not given back

Reopened(t) == [task EXCEPT ![t].settledAt = Null, ![t].overageInvoice = Null]

\* The transaction. A lost claim, or a withdrawal that already exists (unique
\* index), rolls everything back.
Undo(w) ==
    /\ At(w, "undo")
    /\ LET r == req[w]
           surpluses == Surpluses(r.task, r.cycle)
       IN \/ /\ \/ ~InSettlement(r.task, r.cycle)
                \/ \E x \in surpluses : SurplusWithdrawn(x)
             /\ UNCHANGED <<balance, ledger, task, invoice, line>>
          \/ /\ InSettlement(r.task, r.cycle)
             /\ \A x \in surpluses : ~SurplusWithdrawn(x)
             /\ task' = Reopened(r.task)
             /\ \E refund \in Refunds(r) :
                 /\ ledger' = ledger \union ReversalRows(r, refund)
                 /\ balance' = [balance EXCEPT ![r.client] = @ + refund - SumDelta(surpluses)]
             /\ RemoveLines(LinesOf(r.task))
    /\ Goto(w, Idle)
    /\ UNCHANGED <<clock, month>>

(***************************************************************************)
(* regenerateOverageDraft.                                                 *)
(***************************************************************************)
Traces(t) == Rows("overage_invoiced", t, task[t].settledAt)

\* listUnbilledOverages, the "De rezolvat" list.
Unbilled(t) == /\ task[t].settledAt # Null
               /\ task[t].overageInvoice = Null
               /\ Traces(t) # {}

\* The reads: an existing line of the task is relinked, a legacy trace gets
\* its surplus first, anything else is billed again.
Regenerate(w, t) ==
    /\ At(w, "idle") /\ MayTouch(t)
    /\ Unbilled(t)
    /\ \E trace \in Newest(Traces(t)) :
       LET bill == [task |-> t, client |-> task[t].client, cycle |-> task[t].settledAt,
                    minutes |-> InvoicedOverage(trace.real), month |-> month]
       IN \/ \E l \in LinesOf(t) :
               Goto(w, [pc |-> "relink", task |-> t, cycle |-> task[t].settledAt,
                        invoice |-> line[l].invoice])
          \/ /\ LinesOf(t) = {}
             /\ Goto(w, IF InvoicedOverage(trace.real) # trace.real
                        THEN [pc |-> "surplus", bill |-> bill, trace |-> trace]
                        ELSE [pc |-> "find", bill |-> bill])
    /\ UNCHANGED <<balance, ledger, task, invoice, line, clock, month>>

Relink(w) ==
    /\ At(w, "relink")
    /\ task' = IF Attachable(req[w].task, req[w].cycle)
               THEN [task EXCEPT ![req[w].task].overageInvoice = req[w].invoice]
               ELSE task
    /\ Goto(w, Idle)
    /\ UNCHANGED <<balance, ledger, invoice, line, clock, month>>

\* creditLegacyOverageSurplus: nothing if the settlement changed, and nothing
\* twice (unique index on the surplus of a trace).
CreditLegacySurplus(w) ==
    /\ At(w, "surplus")
    /\ LET b == req[w].bill
           trace == req[w].trace
           surplus == b.minutes - trace.real
           row == [kind |-> "purchase", client |-> b.client, task |-> b.task,
                   cycle |-> trace.cycle, delta |-> surplus, real |-> surplus]
           credited == \E x \in ledger :
                           x.kind = "purchase" /\ x.task = b.task /\ x.cycle = trace.cycle
       IN IF ~InSettlement(b.task, b.cycle)
          THEN Goto(w, Idle) /\ UNCHANGED <<balance, ledger>>
          ELSE /\ Goto(w, [pc |-> "find", bill |-> [b EXCEPT !.month = month]])
               /\ ledger' = IF credited THEN ledger ELSE ledger \union {row}
               /\ balance' = IF credited THEN balance
                             ELSE [balance EXCEPT ![b.client] = @ + surplus]
    /\ UNCHANGED <<task, invoice, line, clock, month>>

(***************************************************************************)
(* Staff on invoices: sendInvoice, the push to Keez, and deleteInvoice     *)
(* whose draft check precedes its hooks and its transaction.               *)
(***************************************************************************)
SendInvoice(i) ==
    /\ MayInvoice
    /\ invoice[i].state \in {"draft", "keez"}
    /\ invoice' = [invoice EXCEPT ![i].state = "sent"]
    /\ UNCHANGED <<balance, ledger, task, line, clock, month, req>>

PushToKeez(i) ==
    /\ MayInvoice
    /\ invoice[i].state = "draft"
    /\ invoice' = [invoice EXCEPT ![i].state = "keez"]
    /\ UNCHANGED <<balance, ledger, task, line, clock, month, req>>

CheckDraft(w, i) ==
    /\ At(w, "idle") /\ MayInvoice
    /\ invoice[i].state \in {"draft", "keez"}
    /\ Goto(w, [pc |-> "delete", invoice |-> i])
    /\ UNCHANGED <<balance, ledger, task, invoice, line, clock, month>>

KeepLinks(i) == task   \* mutant: the tasks of a deleted invoice are forgotten

\* detachOverageInvoiceTasks.
Detached(i) == [t \in Tasks |-> IF task[t].overageInvoice = i
                                THEN [task[t] EXCEPT !.overageInvoice = Null] ELSE task[t]]

\* The transaction; the lines go by cascade.
DeleteInvoice(w) ==
    /\ At(w, "delete")
    /\ LET i == req[w].invoice IN
        /\ task' = Detached(i)
        /\ invoice' = [invoice EXCEPT ![i].state = "deleted"]
        /\ line' = [l \in LineIds |-> IF line[l].state = "on" /\ line[l].invoice = i
                                      THEN [line[l] EXCEPT !.state = "removed"] ELSE line[l]]
    /\ Goto(w, Idle)
    /\ UNCHANGED <<balance, ledger, clock, month>>

(***************************************************************************)
(* Time and faults.                                                        *)
(***************************************************************************)
NextMonth ==
    /\ month < MaxMonth
    /\ month' = month + 1
    /\ UNCHANGED <<balance, ledger, task, invoice, line, clock, req>>

Crash(w) ==
    /\ "crash" \in Env
    /\ ~At(w, "idle")
    /\ Goto(w, Idle)
    /\ UNCHANGED <<balance, ledger, task, invoice, line, clock, month>>

-----------------------------------------------------------------------------
LegacyRow(t) == [kind |-> "overage_invoiced", client |-> Owner[t], task |-> t, cycle |-> 1,
                 delta |-> 0, real |-> Legacy[t]]

Init ==
    /\ balance = Opening
    /\ ledger = {LegacyRow(t) : t \in DOMAIN Legacy}
    /\ task = [t \in Tasks |->
                  IF t \in DOMAIN Legacy
                  THEN [client |-> Owner[t], status |-> "done", actual |-> Legacy[t],
                        settledAt |-> 1, overageInvoice |-> Null]
                  ELSE [client |-> Owner[t], status |-> "open", actual |-> 0,
                        settledAt |-> Null, overageInvoice |-> Null]]
    /\ invoice = [i \in InvoiceIds |->
                     [state |-> "unused", client |-> CHOOSE c \in Clients : TRUE, month |-> 0]]
    /\ line = [l \in LineIds |->
                  [state |-> "unused", invoice |-> 1, task |-> CHOOSE t \in Tasks : TRUE,
                   cycle |-> 1, minutes |-> 0]]
    /\ clock = 2
    /\ month = 1
    /\ req = [w \in Workers |-> Idle]

RequestStep(w) ==
    \/ \E t \in Tasks, old, new \in {"open", "done"} : ReadStatus(w, t, old, new)
    \/ WriteStatus(w)
    \/ \E t \in Tasks : SettleNow(w, t)
    \/ ReadTask(w)
    \/ Consume(w)
    \/ FindDraft(w)
    \/ CreateDraft(w)
    \/ AddLine(w)
    \/ Attach(w)
    \/ Retract(w)
    \/ ReadSettlement(w)
    \/ Undo(w)
    \/ \E t \in Tasks : Regenerate(w, t)
    \/ Relink(w)
    \/ CreditLegacySurplus(w)
    \/ \E i \in InvoiceIds : CheckDraft(w, i)
    \/ DeleteInvoice(w)
    \/ Crash(w)

Next ==
    \/ \E w \in Workers : RequestStep(w)
    \/ \E t \in Tasks : EditTask(t)
    \/ \E i \in InvoiceIds : SendInvoice(i) \/ PushToKeez(i)
    \/ NextMonth

Spec == Init /\ [][Next]_vars

-----------------------------------------------------------------------------
(***************************************************************************)
(* Properties.                                                             *)
(***************************************************************************)

\* Every table and every request holds values of its type.
TypeOK ==
    /\ balance \in [Clients -> Int]
    /\ ledger \subseteq Row
    /\ task \in [Tasks -> Task]
    /\ invoice \in [InvoiceIds -> Invoice]
    /\ line \in [LineIds -> Line]
    /\ clock \in Nat \ {0} /\ month \in Nat
    /\ req \in [Workers -> Request]

\* The cached balance is the opening credit plus the sum of the client's
\* ledger rows, whatever requests interleave, crash or retry (the drift guard
\* findHourCreditDrift reports a client for which this fails).
CacheIsLedgerSum ==
    \A c \in Clients : balance[c] = Opening[c] + SumDelta({x \in ledger : x.client = c})

\* Two settlements never spend the same minute: a balance goes below zero only
\* in a step that withdraws an overage surplus somebody else already used.
NeverOverdraws ==
    [][\A c \in Clients :
          balance'[c] < balance[c] /\ balance'[c] < 0
            => \E x \in ledger' \ ledger : x.kind = "purchase_reversal" /\ x.client = c]_vars

\* The claim on credit_settled_at holds: the settlement a task is in has not
\* been undone in the ledger, and it is recorded there.
SettlementIsLive ==
    \A t \in Tasks : task[t].settledAt # Null =>
        /\ \E x \in ledger : x.task = t /\ x.cycle = task[t].settledAt
                             /\ x.kind \in {"task_consumption", "overage_invoiced"}
        /\ ~\E x \in ledger : x.task = t /\ x.cycle = task[t].settledAt
                              /\ x.kind \in {"task_reversal", "purchase_reversal"}

\* Surplus of an invoiced hour stays in the credit exactly as long as the
\* settlement that invoiced it: not twice, and not after a reopen.
SurplusFollowsSettlement ==
    \A x \in ledger : x.kind = "purchase" =>
        (SurplusWithdrawn(x) <=> task[x.task].settledAt # x.cycle)

Quiet(t) == ~InFlight(t)

\* An overage is never lost: once no request works on the task, its overage
\* either is a line of the invoice the task points to, or is listed as unbilled.
OverageAccountedFor ==
    \A t \in Tasks : Quiet(t) /\ task[t].settledAt # Null /\ Traces(t) # {} =>
        \/ Unbilled(t)
        \/ \E l \in LinesOf(t) : line[l].invoice = task[t].overageInvoice

\* An overage is never billed twice: once no request works on a task, its lines
\* on drafts are at most one, and that one bills the trace of the settlement
\* the task is in (a reopened task has none).
OneLinePerSettlement ==
    \A t \in Tasks : Quiet(t) =>
        LET drafted == {l \in LinesOf(t) : Editable(line[l].invoice)} IN
        \A l \in drafted :
            /\ drafted = {l}
            /\ line[l].cycle = task[t].settledAt
            /\ \E x \in Traces(t) : InvoicedOverage(x.real) = line[l].minutes

\* "Reopen permis doar daca depasirea nu a fost emisa fiscal": while an emitted
\* invoice bills a task's overage, the task stays in the settlement billed.
EmittedStaysSettled ==
    \A t \in Tasks : \A l \in LinesOf(t) :
        Quiet(t) /\ Emitted(line[l].invoice) => task[t].settledAt = line[l].cycle

\* What was emitted is what was invoiced: while an invoice is in Keez or sent,
\* no line comes or goes.
EmittedLinesAreFixed ==
    [][\A i \in InvoiceIds, l \in LineIds :
          Emitted(i) /\ invoice'[i].state \in {"keez", "sent"} =>
             (line[l].state = "on" /\ line[l].invoice = i
                <=> line'[l].state = "on" /\ line'[l].invoice = i)]_vars

ChargeOf(x, y) == /\ x.kind = "task_consumption" /\ y.kind = "task_reversal"
                  /\ x.task = y.task /\ x.cycle = y.cycle

\* Reopening gives back exactly what its own settlement took, never the
\* minutes of another settlement and never minutes from nothing.
RefundMatchesCharge ==
    \A y \in ledger : y.kind = "task_reversal" =>
        \E x \in ledger : ChargeOf(x, y) /\ y.delta = -x.delta

-----------------------------------------------------------------------------
(***************************************************************************)
(* What makes TypeOK, SettlementIsLive and SurplusFollowsSettlement        *)
(* inductive.                                                              *)
(***************************************************************************)

\* A settlement time is used once: a request about to claim one finds it in no
\* row, on no task and in no other request, and the clock is past all of them.
StampsAreFresh ==
    /\ \A x \in ledger : x.cycle < clock
    /\ \A t \in Tasks : task[t].settledAt < clock
    /\ \A w \in Workers : At(w, "consume") =>
          /\ req[w].cycle < clock
          /\ \A x \in ledger : x.cycle # req[w].cycle
          /\ \A t \in Tasks : task[t].settledAt # req[w].cycle
          /\ \A v \in Workers : At(v, "consume") /\ req[v].cycle = req[w].cycle => v = w

\* A surplus is the only one of its trace.
SurplusHasTrace ==
    \A x \in ledger : x.kind = "purchase" =>
        /\ \E y \in ledger : y.kind = "overage_invoiced" /\ y.task = x.task /\ y.cycle = x.cycle
        /\ \A y \in ledger : y.kind = "purchase" /\ y.task = x.task /\ y.cycle = x.cycle => y = x

\* Exact minutes are in traces from before the rounding to hours only, and
\* only those get their surplus late.
OnlyLegacyIsExact ==
    /\ \A x \in ledger : x.kind = "overage_invoiced" /\ InvoicedOverage(x.real) # x.real
                            => x.cycle = 1
    /\ \A w \in Workers : At(w, "surplus") =>
          LET b == req[w].bill
              x == req[w].trace
          IN  /\ x \in ledger /\ x.kind = "overage_invoiced" /\ x.task = b.task
              /\ x.cycle = b.cycle
              /\ b.minutes = InvoicedOverage(x.real)

ConsumptionTakes == \A x \in ledger : x.kind = "task_consumption" => x.delta < 0

\* The inductive invariant of the component.
Inv == /\ TypeOK
       /\ SettlementIsLive
       /\ SurplusFollowsSettlement
       /\ StampsAreFresh
       /\ SurplusHasTrace
       /\ OnlyLegacyIsExact
       /\ ConsumptionTakes
=============================================================================
