--------------------------- MODULE TaskCreditProofs ---------------------------
(***************************************************************************)
(* Inv is an inductive invariant of TaskCredit for every value of the      *)
(* constants: any number of tasks, clients, requests and invoices, and     *)
(* everything Env may allow; the cached credit is the sum of the ledger.   *)
(* Where requests on a task take turns (TakeTurns, the second half), the   *)
(* invoice and the ledger agree with the task, and TaskCredit implements   *)
(* HourCreditPromise.                                                      *)
(***************************************************************************)
EXTENDS TaskCreditRefinement, HourCreditMathProofs

\* The fields of a request at each of its steps.
LEMMA RequestFields ==
    ASSUME TypeOK, NEW w \in Workers
    PROVE  /\ At(w, "status") => /\ req[w].task \in Tasks
                                 /\ req[w].new \in {"open", "done"}
           /\ At(w, "settle") => req[w].task \in Tasks /\ req[w].given \in Nat
           /\ At(w, "consume") => /\ req[w].task \in Tasks /\ req[w].client \in Clients
                                  /\ req[w].cycle \in Stamps /\ req[w].actual \in Nat \ {0}
                                  /\ req[w].month \in Nat
           /\ At(w, "find") => req[w].bill \in Bill
           /\ At(w, "create") => req[w].bill \in Bill /\ req[w].month \in Nat
           /\ At(w, "line") => req[w].bill \in Bill /\ req[w].invoice \in InvoiceIds
           /\ At(w, "attach") \/ At(w, "retract") =>
                  /\ req[w].bill \in Bill /\ req[w].invoice \in InvoiceIds
                  /\ req[w].line \in LineIds
           /\ At(w, "reverse") => req[w].task \in Tasks
           /\ At(w, "undo") => /\ req[w].task \in Tasks /\ req[w].client \in Clients
                               /\ req[w].cycle \in Stamps
           /\ At(w, "relink") => /\ req[w].task \in Tasks /\ req[w].cycle \in Stamps
                                 /\ req[w].invoice \in InvoiceIds
           /\ At(w, "surplus") => req[w].bill \in Bill /\ req[w].trace \in Row
           /\ At(w, "delete") => req[w].invoice \in InvoiceIds
  BY DEF TypeOK, Request, At, Idle

\* A step that leaves the rows, the clock and the settlements alone, and
\* brings no request to the two steps that write rows later on.
LEMMA QuietStep ==
    ASSUME Inv, TypeOK', ledger' = ledger, clock' = clock,
           \A t \in Tasks : task'[t].settledAt = task[t].settledAt,
           \A w \in Workers : req'[w] = req[w] \/ req'[w].pc \notin {"consume", "surplus"}
    PROVE  Inv'
<1>1. SettlementIsLive'
  BY DEF Inv, SettlementIsLive
<1>2. SurplusFollowsSettlement'
  BY DEF Inv, TypeOK, Row, SurplusFollowsSettlement, SurplusWithdrawn
<1>3. StampsAreFresh'
  BY DEF Inv, StampsAreFresh, At
<1>4. SurplusHasTrace' /\ ConsumptionTakes'
  BY DEF Inv, SurplusHasTrace, ConsumptionTakes
<1>5. OnlyLegacyIsExact'
  BY DEF Inv, OnlyLegacyIsExact, At
<1> QED BY <1>1, <1>2, <1>3, <1>4, <1>5 DEF Inv

\* Reading a status writes no table.
LEMMA ReadStatusKeeps ==
    ASSUME Inv, NEW w \in Workers, NEW t \in Tasks,
           NEW old \in {"open", "done"}, NEW new \in {"open", "done"},
           ReadStatus(w, t, old, new)
    PROVE  Inv'
<1>1. [pc |-> "status", task |-> t, old |-> old, new |-> new] \in Request
  BY DEF Request
<1>2. TypeOK'
  BY <1>1 DEF Inv, TypeOK, ReadStatus, Goto
<1>3. \A v \in Workers : req'[v] = req[v] \/ req'[v].pc \notin {"consume", "surplus"}
  BY DEF Inv, TypeOK, ReadStatus, Goto
<1> QED BY <1>2, <1>3, QuietStep DEF ReadStatus

\* The status column is no part of a settlement.
LEMMA WriteStatusKeeps ==
    ASSUME Inv, NEW w \in Workers, WriteStatus(w)
    PROVE  Inv'
<1>1. req[w].task \in Tasks /\ req[w].new \in {"open", "done"}
  BY RequestFields DEF Inv, WriteStatus
<1>2. /\ [pc |-> "settle", task |-> req[w].task, given |-> 0] \in Request
      /\ [pc |-> "reverse", task |-> req[w].task] \in Request
      /\ Idle \in Request
  BY <1>1 DEF Request
<1>3. TypeOK'
  BY <1>1, <1>2 DEF Inv, TypeOK, WriteStatus, Goto, Task
<1>4. \A v \in Workers : req'[v] = req[v] \/ req'[v].pc \notin {"consume", "surplus"}
  BY DEF Inv, TypeOK, WriteStatus, Goto, Idle
<1>5. \A t \in Tasks : task'[t].settledAt = task[t].settledAt
  BY DEF Inv, TypeOK, WriteStatus, Task
<1> QED BY <1>3, <1>4, <1>5, QuietStep DEF WriteStatus

\* Hours and client of a task may change without touching its settlement.
LEMMA EditTaskKeeps ==
    ASSUME Inv, NEW t \in Tasks, EditTask(t)
    PROVE  Inv'
<1>1. TypeOK'
  BY TaskCreditAssumption DEF Inv, TypeOK, EditTask, Task
<1>2. \A u \in Tasks : task'[u].settledAt = task[u].settledAt
  BY DEF Inv, TypeOK, EditTask, Task
<1> QED BY <1>1, <1>2, QuietStep DEF EditTask

\* Asking for a settlement writes no table.
LEMMA SettleNowKeeps ==
    ASSUME Inv, NEW w \in Workers, NEW t \in Tasks, SettleNow(w, t)
    PROVE  Inv'
<1>1. \A minutes \in Actuals :
         [pc |-> "settle", task |-> t, given |-> IF task[t].actual > 0 THEN 0 ELSE minutes]
            \in Request
  BY TaskCreditAssumption DEF Request
<1>2. TypeOK'
  BY <1>1 DEF Inv, TypeOK, SettleNow, Goto
<1>3. \A v \in Workers : req'[v] = req[v] \/ req'[v].pc \notin {"consume", "surplus"}
  BY DEF Inv, TypeOK, SettleNow, Goto
<1> QED BY <1>2, <1>3, QuietStep DEF SettleNow

\* The claim's time is new: the clock moves past it.
LEMMA ReadTaskKeeps ==
    ASSUME Inv, NEW w \in Workers, ReadTask(w)
    PROVE  Inv'
<1> DEFINE t == req[w].task
           actual == IF req[w].given > 0 THEN req[w].given ELSE task[t].actual
           r == [pc |-> "consume", task |-> t, client |-> task[t].client,
                 cycle |-> clock, actual |-> actual, month |-> month]
<1>1. t \in Tasks /\ req[w].given \in Nat /\ TypeOK
  BY RequestFields DEF Inv, ReadTask
<1>2. CASE ~Settleable(t, actual)
  <2>1. TypeOK'
    BY <1>1, <1>2 DEF TypeOK, ReadTask, Goto, Request
  <2>2. \A v \in Workers : req'[v] = req[v] \/ req'[v].pc \notin {"consume", "surplus"}
    BY <1>1, <1>2 DEF TypeOK, ReadTask, Goto, Idle
  <2> QED BY <1>2, <2>1, <2>2, QuietStep DEF ReadTask
<1>3. CASE Settleable(t, actual)
  <2>1. /\ req' = [req EXCEPT ![w] = r] /\ clock' = clock + 1 /\ clock <= MaxStamp
        /\ UNCHANGED <<balance, ledger, task, invoice, line, month>>
    BY <1>3 DEF ReadTask, Goto
  <2>2. r \in Request
    BY <1>1, <1>3, <2>1, TaskCreditAssumption
    DEF Request, TypeOK, Task, Stamps, Settleable
  <2>3. TypeOK'
    BY <1>1, <2>1, <2>2 DEF TypeOK
  <2>4. StampsAreFresh'
    <3>1. /\ \A x \in ledger : x.cycle < clock /\ x.cycle \in Int
          /\ \A u \in Tasks : task[u].settledAt < clock /\ task[u].settledAt \in Int
          /\ \A v \in Workers : At(v, "consume") => req[v].cycle < clock /\ req[v].cycle \in Int
      BY <1>1, RequestFields, TaskCreditAssumption
      DEF Inv, StampsAreFresh, TypeOK, Row, Task, Stamps, Null
    <3>2. \A v \in Workers : v # w => req'[v] = req[v]
      BY <1>1, <2>1 DEF TypeOK
    <3>3. req'[w] = r /\ r.cycle = clock
      BY <1>1, <2>1 DEF TypeOK
    <3> QED BY <1>1, <2>1, <3>1, <3>2, <3>3 DEF Inv, StampsAreFresh, TypeOK, At
  <2>5. /\ SettlementIsLive' /\ SurplusFollowsSettlement' /\ SurplusHasTrace' /\ ConsumptionTakes'
    BY <2>1 DEF Inv, SettlementIsLive, SurplusFollowsSettlement, SurplusWithdrawn,
                SurplusHasTrace, ConsumptionTakes
  <2>6. OnlyLegacyIsExact'
    BY <1>1, <2>1 DEF Inv, OnlyLegacyIsExact, At, TypeOK
  <2> QED BY <2>3, <2>4, <2>5, <2>6 DEF Inv
<1> QED BY <1>2, <1>3
\* Looking for the month's draft writes no table.
LEMMA FindDraftKeeps ==
    ASSUME Inv, NEW w \in Workers, FindDraft(w)
    PROVE  Inv'
<1> DEFINE b == req[w].bill
<1>1. b \in Bill /\ TypeOK
  BY RequestFields DEF Inv, FindDraft
<1>2. /\ TargetMonth(b.client, b.month) \in Nat
      /\ \A m \in Nat : NewestDraft(b.client, m) \subseteq InvoiceIds
  BY <1>1 DEF TargetMonth, NewestDraft, Bill
<1>3. \A m \in Nat, i \in InvoiceIds :
         /\ [pc |-> "line", bill |-> b, invoice |-> i] \in Request
         /\ [pc |-> "create", bill |-> b, month |-> m] \in Request
  BY <1>1 DEF Request
<1>4. \E r \in Request : r.pc \in {"line", "create"} /\ Goto(w, r)
  <2> DEFINE m == TargetMonth(b.client, b.month)
             found == IF m < b.month + 2 THEN NewestDraft(b.client, m) ELSE {}
  <2>1. m \in Nat /\ found \subseteq InvoiceIds
    BY <1>2
  <2>2. \/ \E i \in found : Goto(w, [pc |-> "line", bill |-> b, invoice |-> i])
        \/ found = {} /\ Goto(w, [pc |-> "create", bill |-> b, month |-> m])
    BY DEF FindDraft
  <2> HIDE DEF b, m, found
  <2>3. CASE \E i \in found : Goto(w, [pc |-> "line", bill |-> b, invoice |-> i])
    BY <1>3, <2>1, <2>3
  <2>4. CASE Goto(w, [pc |-> "create", bill |-> b, month |-> m])
    <3>1. 1 \in InvoiceIds
      BY TaskCreditAssumption DEF InvoiceIds
    <3> QED BY <1>3, <2>1, <2>4, <3>1
  <2> QED BY <2>2, <2>3, <2>4
<1>5. TypeOK' /\ \A v \in Workers : req'[v] = req[v] \/ req'[v].pc \notin {"consume", "surplus"}
  BY <1>1, <1>4 DEF TypeOK, FindDraft, Goto
<1> QED BY <1>5, QuietStep DEF FindDraft

\* A new draft touches no row and no settlement.
LEMMA CreateDraftKeeps ==
    ASSUME Inv, NEW w \in Workers, CreateDraft(w)
    PROVE  Inv'
<1>1. /\ req[w].bill \in Bill /\ req[w].month \in Nat /\ TypeOK
  BY RequestFields DEF Inv, CreateDraft
<1>2. PICK i \in InvoiceIds :
         /\ invoice' = [invoice EXCEPT ![i] = [state |-> "draft", client |-> req[w].bill.client,
                                               month |-> req[w].month]]
         /\ Goto(w, [pc |-> "line", bill |-> req[w].bill, invoice |-> i])
  BY <1>1 DEF CreateDraft, Fresh, TypeOK
<1>3. [pc |-> "line", bill |-> req[w].bill, invoice |-> i] \in Request
  BY <1>1 DEF Request
<1>4. [state |-> "draft", client |-> req[w].bill.client, month |-> req[w].month] \in Invoice
  BY <1>1 DEF Invoice, Bill
<1>5. TypeOK' /\ \A v \in Workers : req'[v] = req[v] \/ req'[v].pc \notin {"consume", "surplus"}
  BY <1>1, <1>2, <1>3, <1>4 DEF TypeOK, CreateDraft, Goto
<1> QED BY <1>5, QuietStep DEF CreateDraft

\* A new line touches no row and no settlement.
LEMMA AddLineKeeps ==
    ASSUME Inv, NEW w \in Workers, AddLine(w)
    PROVE  Inv'
<1> DEFINE r == req[w]
           l0(l) == [state |-> "on", invoice |-> r.invoice, task |-> r.bill.task,
                     cycle |-> r.bill.cycle, minutes |-> r.bill.minutes]
<1>1. r.bill \in Bill /\ r.invoice \in InvoiceIds /\ TypeOK
  BY RequestFields DEF Inv, AddLine
<1>2. \A l \in LineIds :
         /\ l0(l) \in Line
         /\ [pc |-> "attach", bill |-> r.bill, invoice |-> r.invoice, line |-> l] \in Request
         /\ Idle \in Request
  BY <1>1 DEF Request, Line, Bill
<1>3. CASE ~Exists(r.invoice)
  <2>1. line' = line /\ req' = [req EXCEPT ![w] = Idle]
    BY <1>3 DEF AddLine, Goto
  <2>2. Idle \in Request /\ Idle.pc = "idle"
    BY DEF Request, Idle
  <2>3. TypeOK' /\ \A v \in Workers : req'[v] = req[v] \/ req'[v].pc \notin {"consume", "surplus"}
    BY <1>1, <2>1, <2>2 DEF TypeOK, AddLine
  <2> QED BY <2>3, QuietStep DEF AddLine
<1>4. CASE Exists(r.invoice)
  <2>1. PICK l \in LineIds :
           /\ line' = [line EXCEPT ![l] = l0(l)]
           /\ Goto(w, [pc |-> "attach", bill |-> r.bill, invoice |-> r.invoice, line |-> l])
    BY <1>1, <1>4 DEF AddLine, Fresh, TypeOK
  <2>2. TypeOK' /\ \A v \in Workers : req'[v] = req[v] \/ req'[v].pc \notin {"consume", "surplus"}
    BY <1>1, <1>2, <2>1 DEF TypeOK, AddLine, Goto
  <2> QED BY <2>2, QuietStep DEF AddLine
<1> QED BY <1>3, <1>4

\* The link of a task to its invoice is no part of its settlement.
LEMMA AttachKeeps ==
    ASSUME Inv, NEW w \in Workers, Attach(w)
    PROVE  Inv'
<1> DEFINE r == req[w]
<1>1. r.bill \in Bill /\ r.invoice \in InvoiceIds /\ r.line \in LineIds /\ TypeOK
  BY RequestFields DEF Inv, Attach
<1>2. r = [pc |-> "attach", bill |-> r.bill, invoice |-> r.invoice, line |-> r.line]
  BY <1>1 DEF TypeOK, Request, Attach, At, Idle
<1>3. [r EXCEPT !.pc = "retract"] =
         [pc |-> "retract", bill |-> r.bill, invoice |-> r.invoice, line |-> r.line]
  BY <1>2
<1>4. [r EXCEPT !.pc = "retract"] \in Request /\ Idle \in Request
  BY <1>1, <1>3 DEF Request
<1>5. \A v \in Workers : req'[v] = req[v] \/ req'[v].pc \notin {"consume", "surplus"}
  BY <1>1, <1>3 DEF TypeOK, Attach, Goto, Idle
<1>6. req' \in [Workers -> Request]
  BY <1>1, <1>4 DEF TypeOK, Attach, Goto
<1>7. task' \in [Tasks -> Task] /\ \A t \in Tasks : task'[t].settledAt = task[t].settledAt
  <2>1. r.bill.task \in Tasks
    BY <1>1 DEF Bill
  <2>2. \/ task' = [task EXCEPT ![r.bill.task].overageInvoice = r.invoice]
        \/ task' = task
    BY DEF Attach
  <2> HIDE DEF r
  <2>3. /\ task \in [Tasks -> Task] /\ task[r.bill.task] \in Task
        /\ r.invoice \in InvoiceIds \union {Null}
    BY <1>1, <2>1 DEF TypeOK
  <2>4. /\ [task[r.bill.task] EXCEPT !.overageInvoice = r.invoice] \in Task
        /\ [task[r.bill.task] EXCEPT !.overageInvoice = r.invoice].settledAt
              = task[r.bill.task].settledAt
    BY <2>3 DEF Task
  <2> QED BY <2>1, <2>2, <2>3, <2>4
<1> QED BY <1>1, <1>5, <1>6, <1>7, QuietStep DEF Attach, TypeOK

\* Taking lines off drafts leaves lines and invoices.
LEMMA RemoveLinesTyped ==
    ASSUME TypeOK, NEW gone \in SUBSET LineIds, RemoveLines(gone)
    PROVE  line' \in [LineIds -> Line] /\ invoice' \in [InvoiceIds -> Invoice]
<1>1. \A l \in LineIds : line[l] \in Line /\ [line[l] EXCEPT !.state = "removed"] \in Line
  BY DEF TypeOK, Line
<1>2. \A i \in InvoiceIds :
         invoice[i] \in Invoice /\ [invoice[i] EXCEPT !.state = "deleted"] \in Invoice
  BY DEF TypeOK, Invoice
<1>3. line' \in [LineIds -> Line]
  BY <1>1 DEF RemoveLines
<1>4. invoice' \in [InvoiceIds -> Invoice]
  BY <1>2 DEF RemoveLines
<1> QED BY <1>3, <1>4

\* Taking back a line touches no row and no settlement.
LEMMA RetractKeeps ==
    ASSUME Inv, NEW w \in Workers, Retract(w)
    PROVE  Inv'
<1>1. /\ TypeOK /\ Idle \in Request
      /\ LinesOf(req[w].bill.task) \intersect {req[w].line} \in SUBSET LineIds
  BY DEF Inv, LinesOf, Request
<1>2. line' \in [LineIds -> Line] /\ invoice' \in [InvoiceIds -> Invoice]
  BY <1>1, RemoveLinesTyped DEF Retract
<1>3. TypeOK' /\ \A v \in Workers : req'[v] = req[v] \/ req'[v].pc \notin {"consume", "surplus"}
  BY <1>1, <1>2 DEF TypeOK, Retract, Goto, Idle
<1> QED BY <1>3, QuietStep DEF Retract

\* Reading the settlement to undo writes no table.
LEMMA ReadSettlementKeeps ==
    ASSUME Inv, NEW w \in Workers, ReadSettlement(w)
    PROVE  Inv'
<1> DEFINE t == req[w].task
<1>1. t \in Tasks /\ TypeOK
  BY RequestFields DEF Inv, ReadSettlement
<1>2. task[t].settledAt # Null =>
        [pc |-> "undo", task |-> t, client |-> task[t].client, cycle |-> task[t].settledAt]
           \in Request
  BY <1>1 DEF TypeOK, Task, Request
<1>3. Idle \in Request
  BY DEF Request
<1>4. TypeOK' /\ \A v \in Workers : req'[v] = req[v] \/ req'[v].pc \notin {"consume", "surplus"}
  BY <1>1, <1>2, <1>3 DEF TypeOK, ReadSettlement, Goto, Idle
<1> QED BY <1>4, QuietStep DEF ReadSettlement

\* Relinking sets no settlement.
LEMMA RelinkKeeps ==
    ASSUME Inv, NEW w \in Workers, Relink(w)
    PROVE  Inv'
<1>1. req[w].task \in Tasks /\ req[w].invoice \in InvoiceIds /\ TypeOK /\ Idle \in Request
  BY RequestFields DEF Inv, Relink, Request
<1>2. task' \in [Tasks -> Task] /\ \A t \in Tasks : task'[t].settledAt = task[t].settledAt
  BY <1>1 DEF TypeOK, Relink, Task
<1>3. TypeOK' /\ \A v \in Workers : req'[v] = req[v] \/ req'[v].pc \notin {"consume", "surplus"}
  BY <1>1, <1>2 DEF TypeOK, Relink, Goto, Idle
<1> QED BY <1>2, <1>3, QuietStep DEF Relink

\* Sending an invoice and pushing it to Keez touch no row and no settlement.
LEMMA EmitKeeps ==
    ASSUME Inv, NEW i \in InvoiceIds, SendInvoice(i) \/ PushToKeez(i)
    PROVE  Inv'
<1>1. TypeOK'
  BY DEF Inv, TypeOK, SendInvoice, PushToKeez, Invoice
<1> QED BY <1>1, QuietStep DEF SendInvoice, PushToKeez

\* Checking that an invoice may be deleted writes no table.
LEMMA CheckDraftKeeps ==
    ASSUME Inv, NEW w \in Workers, NEW i \in InvoiceIds, CheckDraft(w, i)
    PROVE  Inv'
<1>1. [pc |-> "delete", invoice |-> i] \in Request
  BY DEF Request
<1>2. TypeOK' /\ \A v \in Workers : req'[v] = req[v] \/ req'[v].pc \notin {"consume", "surplus"}
  BY <1>1 DEF Inv, TypeOK, CheckDraft, Goto
<1> QED BY <1>2, QuietStep DEF CheckDraft

\* Deleting an invoice detaches its tasks and leaves them settled.
LEMMA DeleteInvoiceKeeps ==
    ASSUME Inv, NEW w \in Workers, DeleteInvoice(w)
    PROVE  Inv'
<1>1. req[w].invoice \in InvoiceIds /\ TypeOK /\ Idle \in Request
  BY RequestFields DEF Inv, DeleteInvoice, Request
<1>2. task' \in [Tasks -> Task] /\ \A t \in Tasks : task'[t].settledAt = task[t].settledAt
  BY <1>1 DEF TypeOK, DeleteInvoice, Detached, Task
<1>3. line' \in [LineIds -> Line] /\ invoice' \in [InvoiceIds -> Invoice]
  <2>1. \A l \in LineIds : line[l] \in Line /\ [line[l] EXCEPT !.state = "removed"] \in Line
    BY <1>1 DEF TypeOK, Line
  <2> QED BY <1>1, <2>1 DEF TypeOK, DeleteInvoice, Invoice
<1>4. TypeOK' /\ \A v \in Workers : req'[v] = req[v] \/ req'[v].pc \notin {"consume", "surplus"}
  BY <1>1, <1>2, <1>3 DEF TypeOK, DeleteInvoice, Goto, Idle
<1> QED BY <1>2, <1>4, QuietStep DEF DeleteInvoice

\* A new month and a request that stops change no table.
LEMMA NextMonthOrCrashKeeps ==
    ASSUME Inv, NextMonth \/ \E w \in Workers : Crash(w)
    PROVE  Inv'
<1>1. Idle \in Request
  BY DEF Request
<1>2. TypeOK' /\ \A v \in Workers : req'[v] = req[v] \/ req'[v].pc \notin {"consume", "surplus"}
  BY <1>1 DEF Inv, TypeOK, NextMonth, Crash, Goto, Idle
<1> QED BY <1>2, QuietStep DEF NextMonth, Crash

(***************************************************************************)
(* Settling.                                                               *)
(***************************************************************************)
\* The rows of a settlement: all are its own, none is a reversal, there is a
\* consumption or a trace, and a surplus is one and comes with the trace.
LEMMA SettlementRowsAre ==
    ASSUME NEW task0 \in Tasks, NEW client \in Clients, NEW cycle \in Stamps,
           NEW actual \in Nat \ {0}, NEW b \in Int, NEW r,
           r.task = task0, r.client = client, r.cycle = cycle, r.actual = actual
    PROVE  LET s    == Split(actual, b)
               rows == SettlementRows(r, s)
           IN  /\ \A x \in rows :
                     /\ x \in Row /\ x.task = task0 /\ x.cycle = cycle
                     /\ x.kind \in {"task_consumption", "overage_invoiced", "purchase"}
                     /\ x.kind = "task_consumption" => x.delta < 0
                     /\ x.kind = "overage_invoiced" => InvoicedOverage(x.real) = x.real
                     /\ x.kind = "purchase" =>
                           /\ \E y \in rows : y.kind = "overage_invoiced"
                           /\ \A y \in rows : y.kind = "purchase" => y = x
               /\ \E x \in rows : x.kind \in {"task_consumption", "overage_invoiced"}
<1> DEFINE s == Split(actual, b)
           consumption == SettlementEntry(r, "task_consumption", -s.consumed, actual)
           trace == SettlementEntry(r, "overage_invoiced", 0, s.invoiced)
           purchase == SettlementEntry(r, "purchase", s.surplus, s.surplus)
<1>1. /\ s.consumed \in Nat /\ s.overage \in Nat /\ s.invoiced \in Nat /\ s.surplus \in Nat
      /\ s.overage = 0 => s.surplus = 0
      /\ s.invoiced = InvoicedOverage(s.invoiced)
      /\ s.consumed > 0 \/ s.overage > 0
  BY SplitIsExact
<1> HIDE DEF s
<1>2. /\ consumption \in Row /\ consumption.kind = "task_consumption"
      /\ consumption.task = task0 /\ consumption.cycle = cycle
      /\ consumption.delta = -s.consumed
  BY <1>1 DEF SettlementEntry, Row
<1>3. /\ trace \in Row /\ trace.kind = "overage_invoiced"
      /\ trace.task = task0 /\ trace.cycle = cycle /\ trace.real = s.invoiced
  BY <1>1 DEF SettlementEntry, Row
<1>4. /\ purchase \in Row /\ purchase.kind = "purchase"
      /\ purchase.task = task0 /\ purchase.cycle = cycle
  BY <1>1 DEF SettlementEntry, Row
<1>5. /\ \A x \in SettlementRows(r, s) :
            \/ x = consumption /\ s.consumed > 0
            \/ x = trace /\ s.overage > 0
            \/ x = purchase /\ s.surplus > 0
      /\ s.consumed > 0 => consumption \in SettlementRows(r, s)
      /\ s.overage > 0 => trace \in SettlementRows(r, s)
  BY DEF SettlementRows
<1> HIDE DEF consumption, trace, purchase
<1> QED BY <1>1, <1>2, <1>3, <1>4, <1>5 DEF s

\* A settlement that takes the claim leaves no other at the same time, and
\* brings its own rows.
LEMMA ConsumeKeeps ==
    ASSUME Inv, NEW w \in Workers, Consume(w)
    PROVE  Inv'
<1> DEFINE r == req[w]
           s == Split(r.actual, balance[r.client])
           rows == SettlementRows(r, s)
           next == [pc |-> "find",
                    bill |-> [task |-> r.task, client |-> r.client, cycle |-> r.cycle,
                              minutes |-> s.invoiced, month |-> r.month]]
<1>1. /\ r.task \in Tasks /\ r.client \in Clients /\ r.cycle \in Stamps
      /\ r.actual \in Nat \ {0} /\ r.month \in Nat /\ r.pc = "consume"
      /\ TypeOK /\ balance[r.client] \in Int
  BY RequestFields DEF Inv, Consume, Available, TypeOK, At
<1>2. CASE task[r.task].settledAt # Null
  <2>1. Idle \in Request /\ Idle.pc = "idle"
    BY DEF Request, Idle
  <2>2. req' = [req EXCEPT ![w] = Idle] /\ UNCHANGED <<balance, ledger, task>>
    BY <1>2 DEF Consume, Available, Goto
  <2>3. TypeOK' /\ \A v \in Workers : req'[v] = req[v] \/ req'[v].pc \notin {"consume", "surplus"}
    BY <1>1, <2>1, <2>2 DEF TypeOK, Consume, Available
  <2> QED BY <2>2, <2>3, QuietStep DEF Consume, Available
<1>3. CASE task[r.task].settledAt = Null
  <2>1. /\ task' = [task EXCEPT ![r.task].actual = r.actual, ![r.task].settledAt = r.cycle]
        /\ balance' = [balance EXCEPT ![r.client] = @ - s.consumed + s.surplus]
        /\ ledger' = ledger \union rows
        /\ req' = [req EXCEPT ![w] = IF s.overage = 0 THEN Idle ELSE next]
        /\ UNCHANGED <<invoice, line, clock, month>>
    BY <1>3 DEF Consume, Available, Goto
  <2>2. /\ s.consumed \in Nat /\ s.surplus \in Nat /\ s.invoiced \in Nat
    BY <1>1, SplitIsExact
  <2>3. /\ \A x \in rows :
              /\ x \in Row /\ x.task = r.task /\ x.cycle = r.cycle
              /\ x.kind \in {"task_consumption", "overage_invoiced", "purchase"}
              /\ x.kind = "task_consumption" => x.delta < 0
              /\ x.kind = "overage_invoiced" => InvoicedOverage(x.real) = x.real
              /\ x.kind = "purchase" =>
                    /\ \E y \in rows : y.kind = "overage_invoiced"
                    /\ \A y \in rows : y.kind = "purchase" => y = x
        /\ \E x \in rows : x.kind \in {"task_consumption", "overage_invoiced"}
    <3> HIDE DEF r, s
    <3>1. /\ r.task \in Tasks /\ r.client \in Clients /\ r.cycle \in Stamps
          /\ r.actual \in Nat \ {0} /\ balance[r.client] \in Int
      BY <1>1
    <3> QED BY <3>1, SettlementRowsAre DEF s
  <2>4. next \in Request /\ Idle \in Request /\ next.pc = "find" /\ Idle.pc = "idle"
    BY <1>1, <2>2 DEF Request, Idle, Bill
  <2> HIDE DEF r, s, rows, next
  <2>5. TypeOK'
    BY <1>1, <2>1, <2>2, <2>3, <2>4 DEF TypeOK, Task
  <2>6. /\ \A t \in Tasks : task'[t].settledAt = IF t = r.task THEN r.cycle ELSE task[t].settledAt
        /\ \A v \in Workers : v # w => req'[v] = req[v]
        /\ req'[w].pc \in {"find", "idle"}
        /\ r = req[w]
    BY <1>1, <2>1, <2>4 DEF TypeOK, Task, r
  <2>7. /\ \A x \in ledger : x.cycle # r.cycle /\ x.cycle \in Stamps /\ x.task \in Tasks
        /\ r.cycle < clock
        /\ \A t \in Tasks : task[t].settledAt # r.cycle
        /\ \A v \in Workers : At(v, "consume") /\ req[v].cycle = r.cycle => v = w
        /\ 0 \notin Stamps
    BY <1>1 DEF Inv, StampsAreFresh, TypeOK, Row, Stamps, At, r
  <2>8. SettlementIsLive'
    <3> SUFFICES ASSUME NEW t \in Tasks, task'[t].settledAt # Null
                 PROVE  /\ \E x \in ledger' : x.task = t /\ x.cycle = task'[t].settledAt
                                /\ x.kind \in {"task_consumption", "overage_invoiced"}
                        /\ ~\E x \in ledger' : x.task = t /\ x.cycle = task'[t].settledAt
                                /\ x.kind \in {"task_reversal", "purchase_reversal"}
      BY DEF SettlementIsLive
    <3>1. CASE t = r.task
      <4>1. task'[t].settledAt = r.cycle
        BY <1>1, <2>6, <3>1
      <4>2. PICK x \in rows : x.kind \in {"task_consumption", "overage_invoiced"}
        BY <2>3
      <4>3. x \in ledger' /\ x.task = t /\ x.cycle = r.cycle
        BY <2>1, <2>3, <3>1
      <4>4. ASSUME NEW y \in ledger', y.cycle = r.cycle
            PROVE  y.kind \notin {"task_reversal", "purchase_reversal"}
        BY <2>1, <2>3, <2>7, <4>4
      <4> QED BY <4>1, <4>2, <4>3, <4>4
    <3>2. CASE t # r.task
      <4>1. task'[t].settledAt = task[t].settledAt
        BY <2>6, <3>2
      <4>2. PICK x \in ledger : /\ x.task = t /\ x.cycle = task[t].settledAt
                                /\ x.kind \in {"task_consumption", "overage_invoiced"}
        BY <4>1 DEF Inv, SettlementIsLive
      <4>3. x \in ledger'
        BY <2>1
      <4>4. ASSUME NEW y \in ledger', y.task = t, y.cycle = task[t].settledAt
            PROVE  y.kind \notin {"task_reversal", "purchase_reversal"}
        BY <2>1, <2>3, <3>2, <4>1, <4>4 DEF Inv, SettlementIsLive
      <4> QED BY <4>1, <4>2, <4>3, <4>4
    <3> QED BY <3>1, <3>2
  <2>9. SurplusFollowsSettlement'
    <3>1. \A x \in ledger' : SurplusWithdrawn(x)' <=>
             \E y \in ledger : y.kind = "purchase_reversal" /\ y.task = x.task /\ y.cycle = x.cycle
      BY <2>1, <2>3 DEF SurplusWithdrawn
    <3>2. ASSUME NEW x \in ledger, x.kind = "purchase"
          PROVE  SurplusWithdrawn(x)' <=> task'[x.task].settledAt # x.cycle
      <4>1. SurplusWithdrawn(x)' <=> SurplusWithdrawn(x)
        BY <2>1, <3>1 DEF SurplusWithdrawn
      <4>2. SurplusWithdrawn(x) <=> task[x.task].settledAt # x.cycle
        BY <3>2 DEF Inv, SurplusFollowsSettlement
      <4> QED BY <1>3, <2>6, <2>7, <4>1, <4>2 DEF Null
    <3>3. ASSUME NEW x \in rows
          PROVE  SurplusWithdrawn(x)' <=> task'[x.task].settledAt # x.cycle
      <4>1. task'[x.task].settledAt = x.cycle /\ x.cycle = r.cycle
        BY <1>1, <2>3, <2>6
      <4> QED BY <2>1, <2>7, <3>1, <4>1
    <3> QED BY <2>1, <3>2, <3>3 DEF SurplusFollowsSettlement
  <2>10. StampsAreFresh'
    <3>1. \A x \in ledger' : x.cycle < clock'
      BY <2>1, <2>3, <2>7 DEF Inv, StampsAreFresh
    <3>2. \A t \in Tasks : task'[t].settledAt < clock'
      <4>1. \A t \in Tasks : task[t].settledAt < clock
        BY DEF Inv, StampsAreFresh
      <4>2. ASSUME NEW t \in Tasks PROVE task'[t].settledAt < clock
        <5>1. CASE t = r.task
          BY <2>6, <2>7, <5>1
        <5>2. CASE t # r.task
          BY <2>6, <4>1, <5>2
        <5> QED BY <5>1, <5>2
      <4> QED BY <2>1, <4>2
    <3>3. ASSUME NEW v \in Workers, At(v, "consume")'
          PROVE  /\ req'[v].cycle < clock'
                 /\ \A x \in ledger' : x.cycle # req'[v].cycle
                 /\ \A t \in Tasks : task'[t].settledAt # req'[v].cycle
                 /\ \A u \in Workers : At(u, "consume")' /\ req'[u].cycle = req'[v].cycle
                                             => u = v
      <4>1. v # w /\ req'[v] = req[v] /\ At(v, "consume")
        BY <2>6, <3>3 DEF At
      <4>2. req[v].cycle # r.cycle
        BY <2>7, <4>1
      <4>3. /\ req[v].cycle < clock
            /\ \A x \in ledger : x.cycle # req[v].cycle
            /\ \A t \in Tasks : task[t].settledAt # req[v].cycle
            /\ \A u \in Workers : At(u, "consume") /\ req[u].cycle = req[v].cycle => u = v
        BY <4>1 DEF Inv, StampsAreFresh
      <4>4. \A u \in Workers : At(u, "consume")' => At(u, "consume") /\ req'[u] = req[u]
        BY <2>6 DEF At
      <4>5. req'[v].cycle < clock' /\ \A x \in ledger' : x.cycle # req'[v].cycle
        BY <2>1, <2>3, <4>1, <4>2, <4>3
      <4>6. \A t \in Tasks : task'[t].settledAt # req'[v].cycle
        BY <2>6, <4>1, <4>2, <4>3
      <4>7. \A u \in Workers : At(u, "consume")' /\ req'[u].cycle = req'[v].cycle => u = v
        BY <4>1, <4>3, <4>4
      <4> QED BY <4>5, <4>6, <4>7
    <3> QED BY <3>1, <3>2, <3>3 DEF StampsAreFresh
  <2>11. SurplusHasTrace'
    BY <2>1, <2>3, <2>7 DEF Inv, SurplusHasTrace
  <2>12. OnlyLegacyIsExact'
    BY <2>1, <2>3, <2>6 DEF Inv, OnlyLegacyIsExact, At
  <2>13. ConsumptionTakes'
    BY <2>1, <2>3 DEF Inv, ConsumptionTakes
  <2> QED BY <2>5, <2>8, <2>9, <2>10, <2>11, <2>12, <2>13 DEF Inv
<1> QED BY <1>2, <1>3

(***************************************************************************)
(* Billing again.                                                          *)
(***************************************************************************)
\* A legacy trace that gets its surplus late is the settlement's own: exact
\* minutes are the first settlement's, and no settlement is older.
LEMMA RegenerateKeeps ==
    ASSUME Inv, NEW w \in Workers, NEW t \in Tasks, Regenerate(w, t)
    PROVE  Inv'
<1> DEFINE bill(x) == [task |-> t, client |-> task[t].client, cycle |-> task[t].settledAt,
                       minutes |-> InvoicedOverage(x.real), month |-> month]
           surplus(x) == [pc |-> "surplus", bill |-> bill(x), trace |-> x]
           find(x) == [pc |-> "find", bill |-> bill(x)]
           relink(l) == [pc |-> "relink", task |-> t, cycle |-> task[t].settledAt,
                         invoice |-> line[l].invoice]
<1>1. TypeOK /\ task[t].settledAt \in Stamps /\ task[t].client \in Clients
  BY DEF Inv, TypeOK, Task, Regenerate, Unbilled
<1>2. PICK trace \in Newest(Traces(t)) :
         \/ \E l \in LinesOf(t) : Goto(w, relink(l))
         \/ Goto(w, IF InvoicedOverage(trace.real) # trace.real THEN surplus(trace) ELSE find(trace))
  BY DEF Regenerate
<1>3. /\ trace \in ledger /\ trace \in Row /\ trace.kind = "overage_invoiced" /\ trace.task = t
      /\ trace.cycle >= task[t].settledAt
  BY <1>1 DEF Newest, Traces, Rows, TypeOK
<1>4. bill(trace) \in Bill
  BY <1>1, <1>3, InvoicedOverageBounds DEF Bill, Row, TypeOK
<1>5. /\ surplus(trace) \in Request /\ find(trace) \in Request
      /\ \A l \in LinesOf(t) : relink(l) \in Request
  BY <1>1, <1>3, <1>4 DEF Request, LinesOf, TypeOK, Line
<1>6. UNCHANGED <<balance, ledger, task, invoice, line, clock, month>>
  BY DEF Regenerate
<1>7. /\ TypeOK'
      /\ \A v \in Workers : \/ req'[v] = req[v]
                            \/ req'[v].pc \notin {"consume", "surplus"}
                            \/ /\ InvoicedOverage(trace.real) # trace.real
                               /\ req'[v] = surplus(trace)
  <2>1. CASE \E l \in LinesOf(t) : Goto(w, relink(l))
    BY <1>1, <1>5, <1>6, <2>1 DEF TypeOK, Goto
  <2>2. CASE Goto(w, IF InvoicedOverage(trace.real) # trace.real THEN surplus(trace) ELSE find(trace))
    BY <1>1, <1>5, <1>6, <2>2 DEF TypeOK, Goto
  <2> QED BY <1>2, <2>1, <2>2
<1>8. InvoicedOverage(trace.real) # trace.real => trace.cycle = task[t].settledAt
  BY <1>1, <1>3 DEF Inv, OnlyLegacyIsExact, Stamps, Row
<1>9. /\ SettlementIsLive' /\ SurplusFollowsSettlement' /\ SurplusHasTrace' /\ ConsumptionTakes'
  BY <1>6 DEF Inv, SettlementIsLive, SurplusFollowsSettlement, SurplusWithdrawn,
              SurplusHasTrace, ConsumptionTakes
<1>10. StampsAreFresh'
  <2>1. \A v \in Workers : At(v, "consume")' => At(v, "consume") /\ req'[v] = req[v]
    BY <1>7 DEF At
  <2> QED BY <1>6, <2>1 DEF Inv, StampsAreFresh
<1>11. OnlyLegacyIsExact'
  <2> SUFFICES ASSUME NEW v \in Workers, At(v, "surplus")'
               PROVE  LET b == req'[v].bill
                          x == req'[v].trace
                      IN  /\ x \in ledger /\ x.kind = "overage_invoiced" /\ x.task = b.task
                          /\ x.cycle = b.cycle
                          /\ b.minutes = InvoicedOverage(x.real)
    BY <1>6 DEF Inv, OnlyLegacyIsExact
  <2>1. CASE req'[v] = req[v]
    BY <2>1 DEF Inv, OnlyLegacyIsExact, At
  <2>2. CASE InvoicedOverage(trace.real) # trace.real /\ req'[v] = surplus(trace)
    BY <1>3, <1>8, <2>2
  <2> QED BY <1>7, <2>1, <2>2 DEF At
<1> QED BY <1>7, <1>9, <1>10, <1>11 DEF Inv

\* A late surplus joins the settlement the task is still in, where nothing was
\* withdrawn, and is the only one.
LEMMA CreditLegacySurplusKeeps ==
    ASSUME Inv, NEW w \in Workers, CreditLegacySurplus(w)
    PROVE  Inv'
<1> DEFINE b == req[w].bill
           trace == req[w].trace
           surplus == b.minutes - trace.real
           row == [kind |-> "purchase", client |-> b.client, task |-> b.task,
                   cycle |-> trace.cycle, delta |-> surplus, real |-> surplus]
           find == [pc |-> "find", bill |-> [b EXCEPT !.month = month]]
           credited == \E x \in ledger :
                           x.kind = "purchase" /\ x.task = b.task /\ x.cycle = trace.cycle
<1>1. /\ TypeOK /\ b \in Bill /\ trace \in Row
      /\ trace \in ledger /\ trace.kind = "overage_invoiced" /\ trace.task = b.task
      /\ trace.cycle = b.cycle /\ b.minutes = InvoicedOverage(trace.real)
  BY RequestFields DEF Inv, OnlyLegacyIsExact, CreditLegacySurplus
<1>2. /\ surplus \in Nat
      /\ b.task \in Tasks /\ b.client \in Clients /\ trace.cycle \in Stamps
  BY <1>1, InvoicedOverageBounds DEF Row, Bill
<1>3. [b EXCEPT !.month = month] \in Bill
  BY <1>1 DEF Bill, TypeOK
<1>4. find \in Request /\ Idle \in Request /\ find.pc = "find" /\ Idle.pc = "idle"
  BY <1>3 DEF Request, Idle
<1>5. CASE ~InSettlement(b.task, b.cycle) \/ credited
  <2>1. /\ req' = [req EXCEPT ![w] = Idle] \/ req' = [req EXCEPT ![w] = find]
        /\ UNCHANGED <<balance, ledger>>
    BY <1>5 DEF CreditLegacySurplus, Goto
  <2> HIDE DEF find
  <2>2. TypeOK' /\ \A v \in Workers : req'[v] = req[v] \/ req'[v].pc \notin {"consume", "surplus"}
    BY <1>1, <1>4, <2>1 DEF TypeOK, CreditLegacySurplus
  <2> QED BY <2>1, <2>2, QuietStep DEF CreditLegacySurplus
<1>6. CASE InSettlement(b.task, b.cycle) /\ ~credited
  <2>1. /\ req' = [req EXCEPT ![w] = find]
        /\ ledger' = ledger \union {row}
        /\ balance' = [balance EXCEPT ![b.client] = @ + surplus]
        /\ UNCHANGED <<task, invoice, line, clock, month>>
    BY <1>6 DEF CreditLegacySurplus, Goto
  <2>2. /\ row \in Row /\ row.kind = "purchase" /\ row.task = b.task /\ row.cycle = trace.cycle
    BY <1>2 DEF Row
  <2>3. task[b.task].settledAt = trace.cycle /\ task[b.task].settledAt # Null
    BY <1>1, <1>2, <1>6 DEF InSettlement, Stamps, Null
  <2>4. ~\E x \in ledger : x.task = b.task /\ x.cycle = trace.cycle /\ x.kind = "purchase_reversal"
    BY <1>2, <2>3 DEF Inv, SettlementIsLive
  <2>5. \A x \in ledger : x.kind = "purchase" /\ x.task = b.task => x.cycle # trace.cycle
    BY <1>6
  <2> HIDE DEF b, trace, surplus, row, find, credited
  <2>6. \A v \in Workers : \/ req'[v] = req[v]
                           \/ req'[v].pc \notin {"consume", "surplus"}
    BY <1>1, <1>4, <2>1 DEF TypeOK
  <2>7. TypeOK'
    BY <1>1, <1>2, <1>4, <2>1, <2>2 DEF TypeOK
  <2>8. SettlementIsLive'
    BY <2>1, <2>2 DEF Inv, SettlementIsLive
  <2>9. SurplusFollowsSettlement'
    <3>1. \A x : SurplusWithdrawn(x)' <=> SurplusWithdrawn(x)
      BY <2>1, <2>2 DEF SurplusWithdrawn
    <3>2. ASSUME NEW x \in {row}
          PROVE  SurplusWithdrawn(x)' <=> task'[x.task].settledAt # x.cycle
      <4>1. ~SurplusWithdrawn(x)
        BY <2>2, <2>4 DEF SurplusWithdrawn
      <4> QED BY <2>1, <2>2, <2>3, <3>1, <4>1
    <3>3. ASSUME NEW x \in ledger, x.kind = "purchase"
          PROVE  SurplusWithdrawn(x)' <=> task'[x.task].settledAt # x.cycle
      BY <2>1, <3>1, <3>3 DEF Inv, SurplusFollowsSettlement
    <3> QED BY <2>1, <3>2, <3>3 DEF SurplusFollowsSettlement
  <2>10. StampsAreFresh'
    <3>1. \A v \in Workers : At(v, "consume")' => At(v, "consume") /\ req'[v] = req[v]
      BY <2>6 DEF At
    <3>2. row.cycle < clock /\ \A v \in Workers : At(v, "consume") => row.cycle # req[v].cycle
      BY <1>2, <2>2, <2>3 DEF Inv, StampsAreFresh
    <3> QED BY <2>1, <3>1, <3>2 DEF Inv, StampsAreFresh
  <2>11. SurplusHasTrace'
    <3>1. trace \in ledger' /\ trace.kind = "overage_invoiced" /\ trace.task = row.task
          /\ trace.cycle = row.cycle
      BY <1>1, <2>1, <2>2
    <3> QED BY <2>1, <2>2, <2>5, <3>1 DEF Inv, SurplusHasTrace
  <2>12. OnlyLegacyIsExact'
    BY <2>1, <2>2, <2>6 DEF Inv, OnlyLegacyIsExact, At
  <2>13. ConsumptionTakes'
    BY <2>1, <2>2 DEF Inv, ConsumptionTakes
  <2> QED BY <2>7, <2>8, <2>9, <2>10, <2>11, <2>12, <2>13 DEF Inv
<1> QED BY <1>5, <1>6

(***************************************************************************)
(* Reopening.                                                              *)
(***************************************************************************)

\* What a reopen withdraws: every surplus found that is not yet withdrawn is of
\* the settlement undone, so there is one at most.
LEMMA OneSurplusToWithdraw ==
    ASSUME Inv, NEW t \in Tasks, NEW cycle \in Stamps, task[t].settledAt = cycle,
           \A x \in Surpluses(t, cycle) : ~SurplusWithdrawn(x)
    PROVE  /\ \A x \in Surpluses(t, cycle) :
                 /\ x \in ledger /\ x.kind = "purchase" /\ x.task = t /\ x.cycle = cycle
                 /\ Surpluses(t, cycle) = {x}
           /\ \A x \in ledger :
                 x.kind = "purchase" /\ x.task = t /\ x.cycle = cycle => x \in Surpluses(t, cycle)
           /\ SumDelta(Surpluses(t, cycle)) \in Int
<1>1. \A x \in Surpluses(t, cycle) :
         x \in ledger /\ x.kind = "purchase" /\ x.task = t /\ x.cycle = cycle
  BY DEF Inv, SurplusFollowsSettlement, Surpluses, Rows
<1>2. \A x, y \in Surpluses(t, cycle) : x = y
  BY <1>1 DEF Inv, SurplusHasTrace
<1>3. \A x \in Surpluses(t, cycle) : Surpluses(t, cycle) = {x}
  BY <1>2
<1>4. ASSUME NEW x \in ledger, x.kind = "purchase", x.task = t, x.cycle = cycle
      PROVE  x \in Surpluses(t, cycle)
  <2>1. PICK y \in ledger : y.kind = "overage_invoiced" /\ y.task = t /\ y.cycle = cycle
    BY <1>4 DEF Inv, SurplusHasTrace
  <2>2. cycle >= cycle
    BY DEF Stamps
  <2> QED BY <1>4, <2>1, <2>2 DEF Surpluses, Rows
<1>5. SumDelta(Surpluses(t, cycle)) \in Int
  <2>1. CASE Surpluses(t, cycle) = {}
    BY <2>1, SumOfNone
  <2>2. ASSUME NEW x \in Surpluses(t, cycle) PROVE SumDelta(Surpluses(t, cycle)) \in Int
    <3>1. x.delta \in Int
      BY <1>1, <2>2 DEF Inv, TypeOK, Row
    <3> QED BY <1>3, <3>1, SumOfOne
  <2> QED BY <2>1, <2>2
<1> QED BY <1>1, <1>3, <1>4, <1>5

\* The rows of a reopen are of the settlement undone; each surplus found has its
\* withdrawal.
LEMMA ReversalRowsAre ==
    ASSUME NEW r, r.task \in Tasks, r.client \in Clients, r.cycle \in Stamps,
           NEW refund \in Int, ledger \subseteq Row,
           \A x \in Surpluses(r.task, r.cycle) : x \in ledger /\ x.cycle = r.cycle
    PROVE  /\ \A x \in ReversalRows(r, refund) :
                 /\ x \in Row /\ x.task = r.task /\ x.cycle = r.cycle /\ x.client = r.client
                 /\ x.kind \in {"task_reversal", "purchase_reversal"}
           /\ \A x \in Surpluses(r.task, r.cycle) : \E y \in ReversalRows(r, refund) :
                 y.kind = "purchase_reversal" /\ y.cycle = r.cycle
<1>1. /\ refund > 0 => ReversalEntry(r, "task_reversal", r.cycle, refund) \in Row
      /\ \A x \in Surpluses(r.task, r.cycle) :
            ReversalEntry(r, "purchase_reversal", x.cycle, -x.delta) \in Row
  <2>1. \A x \in Surpluses(r.task, r.cycle) : -x.delta \in Int
    BY DEF Row
  <2> QED BY <2>1 DEF ReversalEntry, Row
<1>2. ASSUME NEW x \in ReversalRows(r, refund)
      PROVE  /\ x \in Row /\ x.task = r.task /\ x.cycle = r.cycle /\ x.client = r.client
             /\ x.kind \in {"task_reversal", "purchase_reversal"}
  BY <1>1 DEF ReversalRows, ReversalEntry
<1>3. ASSUME NEW x \in Surpluses(r.task, r.cycle)
      PROVE  \E y \in ReversalRows(r, refund) : y.kind = "purchase_reversal" /\ y.cycle = r.cycle
  <2> DEFINE y == ReversalEntry(r, "purchase_reversal", x.cycle, -x.delta)
  <2>1. y \in ReversalRows(r, refund)
    BY DEF ReversalRows
  <2>2. y.kind = "purchase_reversal" /\ y.cycle = r.cycle
    BY DEF ReversalEntry
  <2> QED BY <2>1, <2>2
<1> QED BY <1>2, <1>3

\* A reopen takes the task out of its settlement and withdraws that settlement's
\* surplus in the same step.
LEMMA UndoKeeps ==
    ASSUME Inv, NEW w \in Workers, Undo(w)
    PROVE  Inv'
<1> DEFINE r == req[w]
           surpluses == Surpluses(r.task, r.cycle)
<1>1. /\ r.task \in Tasks /\ r.client \in Clients /\ r.cycle \in Stamps
      /\ TypeOK /\ Idle \in Request /\ Idle.pc = "idle"
  BY RequestFields DEF Inv, Undo, Request, Idle
<1>2. req' = [req EXCEPT ![w] = Idle] /\ UNCHANGED <<clock, month>>
  BY DEF Undo, Goto
<1>3. \A v \in Workers : req'[v] = req[v] \/ req'[v].pc \notin {"consume", "surplus"}
  BY <1>1, <1>2 DEF TypeOK
<1>4. CASE UNCHANGED <<balance, ledger, task, invoice, line>>
  <2>1. TypeOK'
    BY <1>1, <1>2, <1>4 DEF TypeOK
  <2> QED BY <1>2, <1>3, <1>4, <2>1, QuietStep
<1>5. ASSUME InSettlement(r.task, r.cycle),
             \A x \in surpluses : ~SurplusWithdrawn(x),
             task' = [task EXCEPT ![r.task].settledAt = Null, ![r.task].overageInvoice = Null],
             NEW refund \in Refunds(r),
             ledger' = ledger \union ReversalRows(r, refund),
             balance' = [balance EXCEPT ![r.client] = @ + refund - SumDelta(surpluses)],
             RemoveLines(LinesOf(r.task))
      PROVE  Inv'
  <2>1. task[r.task].settledAt = r.cycle
    BY <1>5 DEF InSettlement
  <2>2. /\ \A x \in surpluses : x \in ledger /\ x.cycle = r.cycle
        /\ \A x \in ledger :
              x.kind = "purchase" /\ x.task = r.task /\ x.cycle = r.cycle => x \in surpluses
        /\ SumDelta(surpluses) \in Int
    <3> HIDE DEF r
    <3> QED BY <1>1, <1>5, <2>1, OneSurplusToWithdraw
  <2>3. refund \in Int
    <3>1. \A x \in Consumption(r.task, r.cycle) : -x.delta \in Int
      BY <1>1 DEF Consumption, Rows, TypeOK, Row
    <3> QED BY <3>1 DEF Refunds, Newest
  <2>4. /\ \A x \in ReversalRows(r, refund) :
              /\ x \in Row /\ x.task = r.task /\ x.cycle = r.cycle
              /\ x.kind \in {"task_reversal", "purchase_reversal"}
        /\ \A x \in surpluses : \E y \in ReversalRows(r, refund) :
              y.kind = "purchase_reversal" /\ y.cycle = r.cycle
    <3>1. ledger \subseteq Row
      BY <1>1 DEF TypeOK
    <3> HIDE DEF r
    <3> QED BY <1>1, <2>2, <2>3, <3>1, ReversalRowsAre
  <2>5. line' \in [LineIds -> Line] /\ invoice' \in [InvoiceIds -> Invoice]
    BY <1>1, <1>5, RemoveLinesTyped DEF LinesOf
  <2> DEFINE rows == ReversalRows(r, refund)
  <2>6. ledger' = ledger \union rows
    BY <1>5
  <2> HIDE DEF r, surpluses, rows
  <2>7. TypeOK'
    <3>1. balance' \in [Clients -> Int]
      BY <1>1, <1>5, <2>2, <2>3 DEF TypeOK
    <3>2. task' \in [Tasks -> Task]
      BY <1>1, <1>5 DEF TypeOK, Task
    <3>3. ledger' \subseteq Row
      BY <1>1, <2>4, <2>6 DEF TypeOK, rows
    <3> QED BY <1>1, <1>2, <2>5, <3>1, <3>2, <3>3 DEF TypeOK
  <2>8. /\ \A t \in Tasks : t # r.task => task'[t].settledAt = task[t].settledAt
        /\ task'[r.task].settledAt = Null
    BY <1>1, <1>5 DEF TypeOK, Task
  <2>9. \A x \in rows : /\ x.task = r.task /\ x.cycle = r.cycle
                        /\ x.kind \in {"task_reversal", "purchase_reversal"}
    BY <2>4 DEF rows
  <2>10. SettlementIsLive'
    <3> SUFFICES ASSUME NEW t \in Tasks, task'[t].settledAt # Null
                 PROVE  /\ \E x \in ledger' : x.task = t /\ x.cycle = task'[t].settledAt
                                /\ x.kind \in {"task_consumption", "overage_invoiced"}
                        /\ ~\E x \in ledger' : x.task = t /\ x.cycle = task'[t].settledAt
                                /\ x.kind \in {"task_reversal", "purchase_reversal"}
      BY DEF SettlementIsLive
    <3>1. t # r.task /\ task'[t].settledAt = task[t].settledAt
      BY <2>8
    <3>2. PICK x \in ledger : /\ x.task = t /\ x.cycle = task[t].settledAt
                              /\ x.kind \in {"task_consumption", "overage_invoiced"}
      BY <3>1 DEF Inv, SettlementIsLive
    <3>3. ASSUME NEW y \in ledger', y.task = t, y.cycle = task[t].settledAt
          PROVE  y.kind \notin {"task_reversal", "purchase_reversal"}
      BY <2>6, <2>9, <3>1, <3>3 DEF Inv, SettlementIsLive
    <3> QED BY <2>6, <3>1, <3>2, <3>3
  <2>11. SurplusFollowsSettlement'
    <3> SUFFICES ASSUME NEW x \in ledger', x.kind = "purchase"
                 PROVE  SurplusWithdrawn(x)' <=> task'[x.task].settledAt # x.cycle
      BY DEF SurplusFollowsSettlement
    <3>1. /\ x \in ledger /\ x.task \in Tasks /\ x.cycle \in Stamps
          /\ SurplusWithdrawn(x) <=> task[x.task].settledAt # x.cycle
      BY <1>1, <2>6, <2>9 DEF Inv, SurplusFollowsSettlement, TypeOK, Row
    <3>2. CASE x.task # r.task
      <4>1. SurplusWithdrawn(x)' <=> SurplusWithdrawn(x)
        BY <2>6, <2>9, <3>2 DEF SurplusWithdrawn
      <4> QED BY <2>8, <3>1, <3>2, <4>1
    <3>3. CASE x.task = r.task
      <4>1. task'[x.task].settledAt # x.cycle
        BY <2>8, <3>1, <3>3 DEF Stamps, Null
      <4>2. SurplusWithdrawn(x) => SurplusWithdrawn(x)'
        BY <2>6 DEF SurplusWithdrawn
      <4>3. CASE x.cycle = r.cycle
        <5>1. PICK y \in rows : y.kind = "purchase_reversal" /\ y.cycle = r.cycle
          BY <2>2, <2>4, <3>1, <3>3, <4>3 DEF rows
        <5>2. y \in ledger' /\ y.task = x.task /\ y.cycle = x.cycle
          BY <2>6, <2>9, <3>3, <4>3, <5>1
        <5> QED BY <4>1, <5>1, <5>2 DEF SurplusWithdrawn
      <4>4. CASE x.cycle # r.cycle
        BY <2>1, <3>1, <3>3, <4>1, <4>2, <4>4
      <4> QED BY <4>3, <4>4
    <3> QED BY <3>2, <3>3
  <2>12. StampsAreFresh'
    <3>1. \A v \in Workers : At(v, "consume")' => At(v, "consume") /\ req'[v] = req[v]
      BY <1>3 DEF At
    <3>2. /\ r.cycle < clock
          /\ \A v \in Workers : At(v, "consume") => r.cycle # req[v].cycle
      BY <1>1, <2>1 DEF Inv, StampsAreFresh
    <3>3. /\ \A x \in ledger' : x.cycle < clock'
          /\ \A t \in Tasks : task'[t].settledAt < clock'
      <4>1. \A t \in Tasks : task'[t].settledAt = task[t].settledAt \/ task'[t].settledAt = 0
        BY <2>8 DEF Null
      <4>2. 0 < clock
        BY <1>1 DEF TypeOK
      <4> QED BY <1>2, <2>6, <2>9, <3>2, <4>1, <4>2 DEF Inv, StampsAreFresh
    <3>4. ASSUME NEW v \in Workers, At(v, "consume")'
          PROVE  /\ req'[v].cycle < clock'
                 /\ \A x \in ledger' : x.cycle # req'[v].cycle
                 /\ \A t \in Tasks : task'[t].settledAt # req'[v].cycle
      <4>1. At(v, "consume") /\ req'[v] = req[v] /\ req[v].cycle \in Stamps
        BY <1>1, <3>1, <3>4, RequestFields
      <4>2. \A x \in ledger' : x.cycle # req'[v].cycle
        BY <2>6, <2>9, <3>2, <4>1 DEF Inv, StampsAreFresh
      <4>3. \A t \in Tasks : task'[t].settledAt # req'[v].cycle
        <5> TAKE t \in Tasks
        <5>1. CASE t = r.task
          BY <2>8, <4>1, <5>1 DEF Stamps, Null
        <5>2. CASE t # r.task
          BY <2>8, <4>1, <5>2 DEF Inv, StampsAreFresh
        <5> QED BY <5>1, <5>2
      <4> QED BY <1>2, <4>1, <4>2, <4>3 DEF Inv, StampsAreFresh
    <3> QED BY <3>1, <3>3, <3>4 DEF Inv, StampsAreFresh
  <2>13. SurplusHasTrace'
    BY <2>6, <2>9 DEF Inv, SurplusHasTrace
  <2>14. OnlyLegacyIsExact'
    BY <1>3, <2>6, <2>9 DEF Inv, OnlyLegacyIsExact, At
  <2>15. ConsumptionTakes'
    BY <2>6, <2>9 DEF Inv, ConsumptionTakes
  <2> QED BY <2>7, <2>10, <2>11, <2>12, <2>13, <2>14, <2>15 DEF Inv
<1> QED BY <1>4, <1>5 DEF Undo, Reopened

(***************************************************************************)
(* The invariant and what follows from it.                                 *)
(***************************************************************************)
\* The tables the application starts with: legacy settlements and nothing else.
LEMMA InitInv == Init => Inv
<1> SUFFICES ASSUME Init PROVE Inv
  OBVIOUS
<1>1. \A t \in DOMAIN Legacy : t \in Tasks /\ Legacy[t] \in Nat \ {0} /\ Owner[t] \in Clients
  BY TaskCreditAssumption
<1>2. 1 \in Stamps /\ 1 \in InvoiceIds /\ 0 \notin Stamps
  BY TaskCreditAssumption DEF Stamps, InvoiceIds
<1>3. \A x \in ledger : /\ x \in Row /\ x.kind = "overage_invoiced" /\ x.cycle = 1
                        /\ x.task \in DOMAIN Legacy
  BY <1>1, <1>2 DEF Init, LegacyRow, Row
<1>4. \A t \in DOMAIN Legacy : LegacyRow(t) \in ledger /\ LegacyRow(t).task = t
  BY DEF Init, LegacyRow
<1>5. \A t \in Tasks : \/ t \in DOMAIN Legacy /\ task[t].settledAt = 1
                       \/ t \notin DOMAIN Legacy /\ task[t].settledAt = Null
  BY DEF Init
<1>6. \A w \in Workers : req[w] = Idle /\ Idle.pc = "idle"
  BY DEF Init, Idle
<1>7. TypeOK
  <2>1. balance \in [Clients -> Int] /\ ledger \subseteq Row /\ clock \in Nat \ {0} /\ month \in Nat
    BY <1>3, TaskCreditAssumption DEF Init
  <2>2. task \in [Tasks -> Task]
    <3>1. \A t \in DOMAIN Legacy :
             [client |-> Owner[t], status |-> "done", actual |-> Legacy[t],
              settledAt |-> 1, overageInvoice |-> Null] \in Task
      BY <1>1, <1>2 DEF Task
    <3>2. \A t \in Tasks :
             [client |-> Owner[t], status |-> "open", actual |-> 0,
              settledAt |-> Null, overageInvoice |-> Null] \in Task
      BY TaskCreditAssumption DEF Task
    <3> QED BY <3>1, <3>2 DEF Init
  <2>3. invoice \in [InvoiceIds -> Invoice]
    <3>1. (CHOOSE c \in Clients : TRUE) \in Clients
      BY TaskCreditAssumption
    <3> QED BY <3>1 DEF Init, Invoice
  <2>4. line \in [LineIds -> Line]
    <3>1. (CHOOSE t \in Tasks : TRUE) \in Tasks
      BY TaskCreditAssumption
    <3> QED BY <1>2, <3>1 DEF Init, Line
  <2>5. req \in [Workers -> Request]
    BY DEF Init, Request
  <2> QED BY <2>1, <2>2, <2>3, <2>4, <2>5 DEF TypeOK
<1>8. SettlementIsLive
  BY <1>2, <1>3, <1>4, <1>5 DEF SettlementIsLive, LegacyRow, Null
<1>9. SurplusFollowsSettlement /\ SurplusHasTrace /\ ConsumptionTakes
  BY <1>3 DEF SurplusFollowsSettlement, SurplusHasTrace, ConsumptionTakes
<1>10. StampsAreFresh
  BY <1>3, <1>5, <1>6 DEF StampsAreFresh, At, Init, Null
<1>11. OnlyLegacyIsExact
  BY <1>3, <1>6 DEF OnlyLegacyIsExact, At
<1> QED BY <1>7, <1>8, <1>9, <1>10, <1>11 DEF Inv

\* Every step of a request, of staff and of time keeps the invariant.
LEMMA StepInv == Inv /\ [Next]_vars => Inv'
<1> SUFFICES ASSUME Inv, [Next]_vars PROVE Inv'
  OBVIOUS
<1>1. ASSUME NEW w \in Workers, RequestStep(w) PROVE Inv'
  BY <1>1, ReadStatusKeeps, WriteStatusKeeps, SettleNowKeeps, ReadTaskKeeps, ConsumeKeeps,
     FindDraftKeeps, CreateDraftKeeps, AddLineKeeps, AttachKeeps, RetractKeeps,
     ReadSettlementKeeps, UndoKeeps, RegenerateKeeps, RelinkKeeps, CreditLegacySurplusKeeps,
     CheckDraftKeeps, DeleteInvoiceKeeps, NextMonthOrCrashKeeps
  DEF RequestStep
<1>2. CASE \E t \in Tasks : EditTask(t)
  BY <1>2, EditTaskKeeps
<1>3. CASE \E i \in InvoiceIds : SendInvoice(i) \/ PushToKeez(i)
  BY <1>3, EmitKeeps
<1>4. CASE NextMonth
  BY <1>4, NextMonthOrCrashKeeps
<1>5. CASE UNCHANGED vars
  <2>1. TypeOK'
    BY <1>5 DEF Inv, TypeOK, vars
  <2> QED BY <1>5, <2>1, QuietStep DEF vars
<1> QED BY <1>1, <1>2, <1>3, <1>4, <1>5 DEF Next

\* The inductive invariant holds in every reachable state, whatever Env allows.
THEOREM InvIsInvariant == Spec => []Inv
  BY InitInv, StepInv, PTL DEF Spec

\* Every table and every request in flight holds values of its type.
THEOREM TypeCorrect == Spec => []TypeOK
<1>1. Inv => TypeOK
  BY DEF Inv
<1> QED BY <1>1, InvIsInvariant, PTL

\* The settlement a task claims is in the ledger and has not been undone there,
\* under every interleaving of settlements and reopenings.
THEOREM SettlementStaysLive == Spec => []SettlementIsLive
<1>1. Inv => SettlementIsLive
  BY DEF Inv
<1> QED BY <1>1, InvIsInvariant, PTL

\* The surplus of an invoiced hour is withdrawn exactly when its settlement is
\* undone, also a legacy surplus credited late and a task moved in between.
THEOREM SurplusIsWithdrawnWithItsSettlement == Spec => []SurplusFollowsSettlement
<1>1. Inv => SurplusFollowsSettlement
  BY DEF Inv
<1> QED BY <1>1, InvIsInvariant, PTL

\* A settlement takes no more than the credit.
LEMMA ConsumeWithinCredit ==
    ASSUME Inv, NEW w \in Workers, Consume(w), NEW c \in Clients
    PROVE  balance'[c] >= balance[c] \/ balance'[c] >= 0
<1> DEFINE r == req[w]
           s == Split(r.actual, balance[r.client])
<1>1. r.client \in Clients /\ r.actual \in Nat /\ balance \in [Clients -> Int]
  BY RequestFields DEF Inv, Consume, Available, TypeOK
<1>2. /\ s.consumed \in Nat /\ s.surplus \in Nat
      /\ s.consumed > 0 => s.consumed <= balance[r.client]
  BY <1>1, SplitIsExact
<1>3. \/ balance' = balance
      \/ balance' = [balance EXCEPT ![r.client] = @ - s.consumed + s.surplus]
  BY DEF Consume, Available
<1> HIDE DEF r, s
<1> QED BY <1>1, <1>2, <1>3

\* A late surplus only adds to the credit.
LEMMA LateSurplusAdds ==
    ASSUME Inv, NEW w \in Workers, CreditLegacySurplus(w), NEW c \in Clients
    PROVE  balance'[c] >= balance[c]
<1> DEFINE b == req[w].bill
           surplus == b.minutes - req[w].trace.real
<1>1. b \in Bill /\ req[w].trace \in Row /\ b.minutes = InvoicedOverage(req[w].trace.real)
  BY RequestFields DEF Inv, OnlyLegacyIsExact, CreditLegacySurplus
<1>2. surplus \in Nat /\ b.client \in Clients /\ balance \in [Clients -> Int]
  BY <1>1, InvoicedOverageBounds DEF Inv, TypeOK, Bill, Row
<1>3. balance' = balance \/ balance' = [balance EXCEPT ![b.client] = @ + surplus]
  BY DEF CreditLegacySurplus
<1> HIDE DEF b, surplus
<1> QED BY <1>2, <1>3

\* A reopen that lowers a balance records the surplus it withdraws.
LEMMA UndoRecordsWithdrawal ==
    ASSUME Inv, NEW w \in Workers, Undo(w), NEW c \in Clients, balance'[c] < balance[c]
    PROVE  \E x \in ledger' \ ledger : x.kind = "purchase_reversal" /\ x.client = c
<1> DEFINE r == req[w]
           surpluses == Surpluses(r.task, r.cycle)
<1>1. r.task \in Tasks /\ r.client \in Clients /\ r.cycle \in Stamps /\ TypeOK
  BY RequestFields DEF Inv, Undo
<1>2. balance' # balance
  BY <1>1 DEF TypeOK
<1>3. PICK refund \in Refunds(r) :
         /\ InSettlement(r.task, r.cycle) /\ \A x \in surpluses : ~SurplusWithdrawn(x)
         /\ ledger' = ledger \union ReversalRows(r, refund)
         /\ balance' = [balance EXCEPT ![r.client] = @ + refund - SumDelta(surpluses)]
  BY <1>2 DEF Undo
<1>4. refund \in Nat
  <2>1. \A x \in Consumption(r.task, r.cycle) : -x.delta \in Nat
    BY <1>1 DEF Consumption, Rows, Inv, ConsumptionTakes, TypeOK, Row
  <2> QED BY <2>1 DEF Refunds, Newest
<1>5. task[r.task].settledAt = r.cycle /\ r.cycle # Null
  BY <1>1, <1>3 DEF InSettlement, Stamps, Null
<1> HIDE DEF r
<1>6. /\ \A x \in surpluses : x \in ledger /\ x.cycle = r.cycle
      /\ SumDelta(surpluses) \in Int
  BY <1>1, <1>3, <1>5, OneSurplusToWithdraw
<1>7. r.client = c /\ SumDelta(surpluses) > 0
  BY <1>1, <1>3, <1>4, <1>6 DEF TypeOK
<1>8. PICK x \in surpluses : TRUE
  BY <1>7, SumOfNone
<1>9. PICK y \in ReversalRows(r, refund) :
         /\ y.kind = "purchase_reversal" /\ y.cycle = r.cycle
         /\ y.task = r.task /\ y.client = r.client
  <2>1. refund \in Int /\ ledger \subseteq Row
    BY <1>1, <1>4 DEF TypeOK
  <2>2. /\ \A y \in ReversalRows(r, refund) : y.task = r.task /\ y.client = r.client
        /\ \A z \in surpluses : \E y \in ReversalRows(r, refund) :
              y.kind = "purchase_reversal" /\ y.cycle = r.cycle
    BY <1>1, <1>6, <2>1, ReversalRowsAre
  <2> QED BY <1>8, <2>2
<1>10. y \notin ledger
  BY <1>1, <1>5, <1>9 DEF Inv, SettlementIsLive
<1> QED BY <1>3, <1>7, <1>9, <1>10

\* Two settlements never spend the same minute: only the withdrawal of a surplus
\* takes a balance below zero.
THEOREM CreditIsNotOverdrawn == Spec => NeverOverdraws
<1> DEFINE Overdrawn(c) == balance'[c] < balance[c] /\ balance'[c] < 0
           Withdrawn(c) == \E x \in ledger' \ ledger : x.kind = "purchase_reversal" /\ x.client = c
<1>1. ASSUME Inv, Inv', Next, NEW c \in Clients, Overdrawn(c) PROVE Withdrawn(c)
  <2>1. balance \in [Clients -> Int] /\ balance' \in [Clients -> Int]
    BY <1>1 DEF Inv, TypeOK
  <2>2. balance' # balance
    BY <1>1, <2>1
  <2>3. \E w \in Workers : Consume(w) \/ Undo(w) \/ CreditLegacySurplus(w)
    BY <1>1, <2>2
    DEF Next, RequestStep, ReadStatus, WriteStatus, EditTask, SettleNow, ReadTask, FindDraft,
        CreateDraft, AddLine, Attach, Retract, ReadSettlement, Regenerate, Relink, SendInvoice,
        PushToKeez, CheckDraft, DeleteInvoice, NextMonth, Crash
  <2>4. ASSUME NEW w \in Workers, Consume(w) PROVE FALSE
    BY <1>1, <2>1, <2>4, ConsumeWithinCredit
  <2>5. ASSUME NEW w \in Workers, CreditLegacySurplus(w) PROVE FALSE
    BY <1>1, <2>1, <2>5, LateSurplusAdds
  <2>6. ASSUME NEW w \in Workers, Undo(w) PROVE Withdrawn(c)
    BY <1>1, <2>6, UndoRecordsWithdrawal
  <2> QED BY <2>3, <2>4, <2>5, <2>6
<1>2. Inv /\ Inv' /\ [Next]_vars => [\A c \in Clients : Overdrawn(c) => Withdrawn(c)]_vars
  BY <1>1
<1> QED BY <1>2, InvIsInvariant, PTL DEF NeverOverdraws, Spec

(***************************************************************************)
(* The books: the cached balance and the ledger move together.             *)
(***************************************************************************)

ClientSum(rows, c) == SumDelta({x \in rows : x.client = c})

LEMMA ClientSumIsInt ==
    ASSUME NEW rows, IsFiniteSet(rows), rows \subseteq Row, NEW c
    PROVE  /\ ClientSum(rows, c) \in Int
           /\ IsFiniteSet({x \in rows : x.client = c})
<1>1. {x \in rows : x.client = c} \in SUBSET rows
  OBVIOUS
<1>2. IsFiniteSet({x \in rows : x.client = c}) /\ \A x \in {x \in rows : x.client = c} : x.delta \in Int
  BY <1>1, FS_Subset DEF Row
<1> QED BY <1>2, SumIsInt DEF ClientSum

\* The rows of a client after a step of minutes more: one row more, or none when
\* there are no minutes.
Booked(old, new, client, minutes) ==
    /\ IsFiniteSet(new) /\ new \subseteq Row
    /\ ClientSum(new, client) = ClientSum(old, client) + minutes
    /\ \A c : c # client => ClientSum(new, c) = ClientSum(old, c)

LEMMA BookNothing ==
    ASSUME NEW rows, IsFiniteSet(rows), rows \subseteq Row, NEW client
    PROVE  Booked(rows, rows, client, 0)
<1>1. ClientSum(rows, client) \in Int
  BY ClientSumIsInt
<1>2. ClientSum(rows, client) = ClientSum(rows, client) + 0
  BY <1>1
<1> QED BY <1>2 DEF Booked

\* A new row moves the sum of its client by its delta.
LEMMA BookRow ==
    ASSUME NEW rows, IsFiniteSet(rows), rows \subseteq Row, NEW y \in Row, y \notin rows
    PROVE  Booked(rows, rows \union {y}, y.client, y.delta)
<1>1. IsFiniteSet(rows \union {y}) /\ rows \union {y} \subseteq Row
  BY FS_AddElement
<1>2. ASSUME NEW c, c # y.client PROVE ClientSum(rows \union {y}, c) = ClientSum(rows, c)
  <2>1. {x \in rows \union {y} : x.client = c} = {x \in rows : x.client = c}
    BY <1>2
  <2> QED BY <2>1 DEF ClientSum
<1>3. ClientSum(rows \union {y}, y.client) = ClientSum(rows, y.client) + y.delta
  <2> DEFINE of == {x \in rows : x.client = y.client}
             with == {x \in rows \union {y} : x.client = y.client}
  <2>1. IsFiniteSet(with) /\ y \in with /\ with \ {y} = of
    BY <1>1, ClientSumIsInt
  <2>2. y.delta \in Int /\ \A x \in with : x.delta \in Int
    BY <1>1 DEF Row
  <2>3. SumDelta(of) \in Int
    BY ClientSumIsInt DEF ClientSum
  <2>4. ClientSum(rows, y.client) = SumDelta(of) /\ ClientSum(rows \union {y}, y.client) = SumDelta(with)
    BY DEF ClientSum
  <2> HIDE DEF of, with
  <2>5. SumDelta(with) = y.delta + SumDelta(with \ {y})
    BY <2>1, <2>2, SumRemoves
  <2>6. y.delta + SumDelta(of) = SumDelta(of) + y.delta
    BY <2>2, <2>3
  <2> QED BY <2>1, <2>4, <2>5, <2>6
<1> QED BY <1>1, <1>2, <1>3 DEF Booked

LedgerAgrees == IsFiniteSet(ledger) /\ CacheIsLedgerSum

LEMMA Agrees ==
    CacheIsLedgerSum <=> \A c \in Clients : balance[c] = Opening[c] + ClientSum(ledger, c)
  BY DEF CacheIsLedgerSum, ClientSum

\* A step that books what it adds to the balance.
LEMMA BooksAgree ==
    ASSUME Inv, LedgerAgrees, NEW client \in Clients, NEW minutes \in Int,
           Booked(ledger, ledger', client, minutes),
           balance' = [balance EXCEPT ![client] = balance[client] + minutes]
    PROVE  LedgerAgrees'
<1>1. IsFiniteSet(ledger) /\ ledger \subseteq Row /\ IsFiniteSet(ledger') /\ balance \in [Clients -> Int]
  BY DEF LedgerAgrees, Inv, TypeOK, Booked
<1>2. ASSUME NEW c \in Clients PROVE balance'[c] = Opening[c] + ClientSum(ledger', c)
  <2>1. balance[c] = Opening[c] + ClientSum(ledger, c) /\ Opening[c] \in Int
        /\ ClientSum(ledger, c) \in Int
    BY <1>1, Agrees, ClientSumIsInt, TaskCreditAssumption DEF LedgerAgrees
  <2>2. CASE c = client
    BY <1>1, <2>1, <2>2 DEF Booked
  <2>3. CASE c # client
    BY <1>1, <2>1, <2>3 DEF Booked
  <2> QED BY <2>2, <2>3
<1> QED BY <1>1, <1>2 DEF LedgerAgrees, CacheIsLedgerSum, ClientSum

\* A settlement's rows are new, and are what it takes and gives back.
LEMMA ConsumeBooks ==
    ASSUME Inv, LedgerAgrees, NEW w \in Workers, Consume(w)
    PROVE  LedgerAgrees'
<1>1. PICK r : /\ r = req[w] /\ r.task \in Tasks /\ r.client \in Clients /\ r.cycle \in Stamps
               /\ r.actual \in Nat \ {0} /\ TypeOK /\ balance[r.client] \in Int
               /\ \A x \in ledger : x.cycle # r.cycle
  BY RequestFields DEF Inv, Consume, Available, TypeOK, At, StampsAreFresh
<1>2. PICK s : s = Split(r.actual, balance[r.client])
  OBVIOUS
<1>3. /\ s.consumed \in Nat /\ s.overage \in Nat /\ s.invoiced \in Nat /\ s.surplus \in Nat
  BY <1>1, <1>2, SplitIsExact
<1> DEFINE e1 == SettlementEntry(r, "task_consumption", -s.consumed, r.actual)
           e2 == SettlementEntry(r, "overage_invoiced", 0, s.invoiced)
           e3 == SettlementEntry(r, "purchase", s.surplus, s.surplus)
           l1 == ledger \union (IF s.consumed > 0 THEN {e1} ELSE {})
           l2 == l1 \union (IF s.overage > 0 THEN {e2} ELSE {})
           l3 == l2 \union (IF s.surplus > 0 THEN {e3} ELSE {})
<1>4. \/ UNCHANGED <<balance, ledger>>
      \/ /\ ledger' = l3
         /\ balance' = [balance EXCEPT ![r.client] = @ - s.consumed + s.surplus]
  BY <1>1, <1>2 DEF Consume, Available, SettlementRows
<1>5. /\ e1 \in Row /\ e1.client = r.client /\ e1.delta = -s.consumed
      /\ e1.kind = "task_consumption" /\ e1.cycle = r.cycle
  BY <1>1, <1>3 DEF SettlementEntry, Row
<1>6. /\ e2 \in Row /\ e2.client = r.client /\ e2.delta = 0
      /\ e2.kind = "overage_invoiced" /\ e2.cycle = r.cycle
  BY <1>1, <1>3 DEF SettlementEntry, Row
<1>7. /\ e3 \in Row /\ e3.client = r.client /\ e3.delta = s.surplus
      /\ e3.kind = "purchase" /\ e3.cycle = r.cycle
  BY <1>1, <1>3 DEF SettlementEntry, Row
<1> HIDE DEF e1, e2, e3
<1>8. e1 \notin ledger /\ e2 \notin l1 /\ e3 \notin l2
  BY <1>1, <1>5, <1>6, <1>7
<1>9. IsFiniteSet(ledger) /\ ledger \subseteq Row
  BY DEF LedgerAgrees, Inv, TypeOK
<1>10. Booked(ledger, l1, r.client, -s.consumed)
  <2>1. CASE s.consumed > 0
    BY <1>5, <1>8, <1>9, <2>1, BookRow
  <2>2. CASE ~(s.consumed > 0)
    BY <1>3, <1>9, <2>2, BookNothing
  <2> QED BY <2>1, <2>2
<1>11. Booked(l1, l2, r.client, 0)
  <2>1. IsFiniteSet(l1) /\ l1 \subseteq Row
    BY <1>10 DEF Booked
  <2> HIDE DEF l1
  <2>2. CASE s.overage > 0
    BY <1>6, <1>8, <2>1, <2>2, BookRow
  <2>3. CASE ~(s.overage > 0)
    BY <2>1, <2>3, BookNothing
  <2> QED BY <2>2, <2>3
<1>12. Booked(l2, l3, r.client, s.surplus)
  <2>1. IsFiniteSet(l2) /\ l2 \subseteq Row
    BY <1>11 DEF Booked
  <2> HIDE DEF l2
  <2>2. CASE s.surplus > 0
    BY <1>7, <1>8, <2>1, <2>2, BookRow
  <2>3. CASE ~(s.surplus > 0)
    BY <1>3, <2>1, <2>3, BookNothing
  <2> QED BY <2>2, <2>3
<1> HIDE DEF l1, l2, l3
<1>13. CASE UNCHANGED <<balance, ledger>>
  BY <1>13 DEF LedgerAgrees, CacheIsLedgerSum
<1>14. CASE /\ ledger' = l3
            /\ balance' = [balance EXCEPT ![r.client] = @ - s.consumed + s.surplus]
  <2>1. Booked(ledger, l3, r.client, s.surplus - s.consumed)
    <3>1. ClientSum(ledger, r.client) \in Int
      BY <1>9, ClientSumIsInt
    <3> QED BY <1>3, <1>10, <1>11, <1>12, <3>1 DEF Booked
  <2>2. balance' = [balance EXCEPT ![r.client] = balance[r.client] + (s.surplus - s.consumed)]
    <3>1. balance[r.client] - s.consumed + s.surplus
             = balance[r.client] + (s.surplus - s.consumed)
      BY <1>1, <1>3
    <3> QED BY <1>14, <3>1
  <2>3. PICK minutes \in Int : minutes = s.surplus - s.consumed
    BY <1>3
  <2>4. Booked(ledger, ledger', r.client, minutes)
    BY <1>14, <2>1, <2>3
  <2>5. balance' = [balance EXCEPT ![r.client] = balance[r.client] + minutes]
    BY <2>2, <2>3
  <2> QED BY <1>1, <2>4, <2>5, BooksAgree
<1> QED BY <1>4, <1>13, <1>14

\* A late surplus is booked once.
LEMMA CreditLegacySurplusBooks ==
    ASSUME Inv, LedgerAgrees, NEW w \in Workers, CreditLegacySurplus(w)
    PROVE  LedgerAgrees'
<1>1. PICK r : /\ r = req[w] /\ r.bill \in Bill /\ r.trace \in Row /\ r.bill.client \in Clients
               /\ r.bill.task \in Tasks /\ r.bill.minutes = InvoicedOverage(r.trace.real)
  BY RequestFields DEF Inv, CreditLegacySurplus, OnlyLegacyIsExact, Bill
<1> DEFINE surplus == r.bill.minutes - r.trace.real
           row == [kind |-> "purchase", client |-> r.bill.client, task |-> r.bill.task,
                   cycle |-> r.trace.cycle, delta |-> surplus, real |-> surplus]
<1>2. \/ UNCHANGED <<balance, ledger>>
      \/ /\ row \notin ledger /\ ledger' = ledger \union {row}
         /\ balance' = [balance EXCEPT ![r.bill.client] = @ + surplus]
  BY <1>1 DEF CreditLegacySurplus
<1>3. surplus \in Int
  BY <1>1, InvoicedOverageBounds DEF Row
<1>4. row \in Row /\ row.client = r.bill.client /\ row.delta = surplus
  <2>1. surplus \in Nat
    BY <1>1, InvoicedOverageBounds DEF Row
  <2> QED BY <1>1, <2>1 DEF Row
<1> HIDE DEF row, surplus
<1>5. CASE UNCHANGED <<balance, ledger>>
  BY <1>5 DEF LedgerAgrees, CacheIsLedgerSum
<1>6. CASE /\ row \notin ledger /\ ledger' = ledger \union {row}
           /\ balance' = [balance EXCEPT ![r.bill.client] = @ + surplus]
  <2>1. IsFiniteSet(ledger) /\ ledger \subseteq Row
    BY DEF LedgerAgrees, Inv, TypeOK
  <2>2. Booked(ledger, ledger', r.bill.client, surplus)
    BY <1>4, <1>6, <2>1, BookRow
  <2> QED BY <1>1, <1>3, <1>6, <2>2, BooksAgree
<1> QED BY <1>2, <1>5, <1>6

\* A reopen's rows are new, and are what it refunds and withdraws.
LEMMA UndoBooks ==
    ASSUME Inv, LedgerAgrees, NEW w \in Workers, Undo(w)
    PROVE  LedgerAgrees'
<1>1. PICK r : /\ r = req[w] /\ r.task \in Tasks /\ r.client \in Clients /\ r.cycle \in Stamps
               /\ balance[r.client] \in Int
  BY RequestFields DEF Inv, Undo, TypeOK
<1> DEFINE surpluses == Surpluses(r.task, r.cycle)
<1>2. CASE UNCHANGED <<balance, ledger>>
  BY <1>2 DEF LedgerAgrees, CacheIsLedgerSum
<1>3. ASSUME InSettlement(r.task, r.cycle), \A x \in surpluses : ~SurplusWithdrawn(x),
             NEW refund \in Refunds(r),
             ledger' = ledger \union ReversalRows(r, refund),
             balance' = [balance EXCEPT ![r.client] = @ + refund - SumDelta(surpluses)]
      PROVE  LedgerAgrees'
  <2>1. task[r.task].settledAt = r.cycle /\ r.cycle # Null
    BY <1>1, <1>3 DEF InSettlement, Stamps, Null
  <2>2. \A x \in surpluses : x \in ledger /\ x.cycle = r.cycle /\ surpluses = {x}
    <3>1. /\ \A x \in Surpluses(r.task, r.cycle) :
                /\ x \in ledger /\ x.kind = "purchase" /\ x.task = r.task /\ x.cycle = r.cycle
                /\ Surpluses(r.task, r.cycle) = {x}
      BY <1>1, <1>3, <2>1, OneSurplusToWithdraw
    <3> QED BY <3>1
  <2>3. refund \in Nat
    <3>1. \A x \in Consumption(r.task, r.cycle) : -x.delta \in Nat
      BY DEF Consumption, Rows, Inv, ConsumptionTakes, TypeOK, Row
    <3> QED BY <3>1 DEF Refunds, Newest
  <2>4. \A x \in ledger : x.task = r.task /\ x.cycle = r.cycle =>
             x.kind \notin {"task_reversal", "purchase_reversal"}
    BY <1>1, <2>1 DEF Inv, SettlementIsLive
  <2>5. IsFiniteSet(ledger) /\ ledger \subseteq Row
    BY DEF LedgerAgrees, Inv, TypeOK
  <2> DEFINE e1 == ReversalEntry(r, "task_reversal", r.cycle, refund)
             l1 == ledger \union (IF refund > 0 THEN {e1} ELSE {})
             withdrawals == {ReversalEntry(r, "purchase_reversal", x.cycle, -x.delta) : x \in surpluses}
  <2>6. ledger' = l1 \union withdrawals
    BY <1>3 DEF ReversalRows
  <2>7. /\ e1 \in Row /\ e1.client = r.client /\ e1.delta = refund
        /\ e1.kind = "task_reversal" /\ e1.task = r.task /\ e1.cycle = r.cycle
    BY <1>1, <2>3 DEF ReversalEntry, Row
  <2>8. Booked(ledger, l1, r.client, refund)
    <3> HIDE DEF e1
    <3>1. e1 \notin ledger
      BY <2>4, <2>7
    <3>2. CASE refund > 0
      BY <2>5, <2>7, <3>1, <3>2, BookRow
    <3>3. CASE ~(refund > 0)
      BY <2>3, <2>5, <3>3, BookNothing
    <3> QED BY <3>2, <3>3
  <2>9. PICK taken \in Int : taken = SumDelta(surpluses) /\ Booked(l1, ledger', r.client, 0 - taken)
    <3>1. IsFiniteSet(l1) /\ l1 \subseteq Row
      BY <2>8 DEF Booked
    <3>2. CASE surpluses = {}
      <4>1. SumDelta(surpluses) = 0
        BY <3>2, SumOfNone
      <4>2. ledger' = l1
        BY <2>6, <3>2
      <4> HIDE DEF l1, surpluses
      <4>3. Booked(l1, l1, r.client, 0)
        BY <3>1, BookNothing
      <4>4. 0 - 0 = 0
        OBVIOUS
      <4> QED BY <4>1, <4>2, <4>3, <4>4
    <3>3. ASSUME NEW x \in surpluses
          PROVE  /\ SumDelta(surpluses) = x.delta /\ x.delta \in Int
                 /\ Booked(l1, ledger', r.client, 0 - x.delta)
      <4>1. surpluses = {x} /\ x.cycle = r.cycle /\ x.delta \in Int
        BY <2>2, <2>5, <3>3 DEF Row
      <4> DEFINE e2 == ReversalEntry(r, "purchase_reversal", x.cycle, -x.delta)
      <4>2. ledger' = l1 \union {e2}
        BY <2>6, <4>1
      <4>3. /\ e2 \in Row /\ e2.client = r.client /\ e2.delta = -x.delta
            /\ e2.kind = "purchase_reversal" /\ e2.task = r.task /\ e2.cycle = r.cycle
        BY <1>1, <4>1 DEF ReversalEntry, Row
      <4> HIDE DEF e1, e2
      <4>4. e2 \notin l1
        BY <2>4, <2>7, <4>3
      <4> HIDE DEF l1
      <4>5. Booked(l1, ledger', r.client, 0 - x.delta)
        <5>1. 0 - x.delta = -x.delta
          BY <4>1
        <5> QED BY <3>1, <4>2, <4>3, <4>4, <5>1, BookRow
      <4> HIDE DEF surpluses
      <4>6. SumDelta(surpluses) = x.delta
        BY <4>1, SumOfOne
      <4> QED BY <4>1, <4>5, <4>6
    <3> HIDE DEF l1, surpluses
    <3> QED BY <3>2, <3>3
  <2>10. PICK minutes \in Int : minutes = refund - taken
    BY <2>3
  <2>11. Booked(ledger, ledger', r.client, minutes)
    <3>1. ClientSum(ledger, r.client) \in Int
      BY <2>5, ClientSumIsInt
    <3> HIDE DEF l1
    <3>2. \A a \in Int : (a + refund) + (0 - taken) = a + minutes
      BY <2>3, <2>10
    <3> QED BY <2>8, <2>9, <3>1, <3>2 DEF Booked
  <2>12. balance' = [balance EXCEPT ![r.client] = balance[r.client] + minutes]
    <3>1. balance[r.client] + refund - taken = balance[r.client] + minutes
      BY <1>1, <2>3, <2>10
    <3> QED BY <1>3, <2>9, <3>1
  <2> QED BY <1>1, <2>11, <2>12, BooksAgree
<1> QED BY <1>1, <1>2, <1>3 DEF Undo

\* The settlements from before the rounding moved no minutes.
LEMMA InitBooks == Init => LedgerAgrees
<1> SUFFICES ASSUME Init PROVE LedgerAgrees
  OBVIOUS
<1>1. IsFiniteSet(ledger)
  <2> DEFINE rowOf == [t \in DOMAIN Legacy |-> LegacyRow(t)]
  <2>1. rowOf \in Surjection(DOMAIN Legacy, ledger)
    BY DEF Init, Surjection
  <2> QED BY <2>1, FS_Surjection, TaskCreditAssumption
<1>2. \A x \in ledger : x.delta = 0
  BY DEF Init, LegacyRow
<1>3. ASSUME NEW c \in Clients PROVE balance[c] = Opening[c] + SumDelta({x \in ledger : x.client = c})
  <2>1. {x \in ledger : x.client = c} \in SUBSET ledger
    OBVIOUS
  <2>2. SumDelta({x \in ledger : x.client = c}) = 0
    BY <1>1, <1>2, <2>1, FS_Subset, SumOfZeros
  <2>3. Opening[c] \in Int /\ balance = Opening
    BY TaskCreditAssumption DEF Init
  <2> QED BY <2>2, <2>3
<1> QED BY <1>1, <1>3 DEF LedgerAgrees, CacheIsLedgerSum

\* The cached balance is the opening credit plus the client's rows, under every
\* interleaving, crash and retry: no reader of the cache sees minutes the ledger
\* does not explain.
THEOREM CreditIsLedgerSum == Spec => []CacheIsLedgerSum
<1>1. Init => Inv /\ LedgerAgrees
  BY InitInv, InitBooks
<1>2. (Inv /\ LedgerAgrees) /\ [Next]_vars => (Inv /\ LedgerAgrees)'
  <2> SUFFICES ASSUME Inv, LedgerAgrees, [Next]_vars PROVE Inv' /\ LedgerAgrees'
    OBVIOUS
  <2>1. ASSUME ~UNCHANGED <<balance, ledger>>
        PROVE  \E w \in Workers : Consume(w) \/ Undo(w) \/ CreditLegacySurplus(w)
    BY <2>1 DEF Next, RequestStep, ReadStatus, WriteStatus, EditTask, SettleNow, ReadTask, FindDraft,
           CreateDraft, AddLine, Attach, Retract, ReadSettlement, Regenerate, Relink, SendInvoice,
           PushToKeez, CheckDraft, DeleteInvoice, NextMonth, Crash, vars
  <2>2. CASE UNCHANGED <<balance, ledger>>
    BY <2>2, StepInv DEF LedgerAgrees, CacheIsLedgerSum
  <2> QED BY <2>1, <2>2, StepInv, ConsumeBooks, UndoBooks, CreditLegacySurplusBooks
<1>3. LedgerAgrees => CacheIsLedgerSum
  BY DEF LedgerAgrees
<1> QED BY <1>1, <1>2, <1>3, PTL DEF Spec

-----------------------------------------------------------------------------
(***************************************************************************)
(* Billing, where requests on a task take turns.                           *)
(***************************************************************************)

\* The discipline: no two requests on one task, staff let a running request
\* finish before they touch an invoice, and no UPDATE is run a second time.
\* Requests may crash, cards be stale and tasks move.
TakeTurns == Env \intersect {"overlap", "invoicing", "lostack"} = {}

(***************************************************************************)
(* The inductive invariant.                                                *)
(***************************************************************************)

Busy(w) == req[w].pc \notin {"idle", "delete"}

OneAtATime ==
    /\ \A v, w \in Workers : Busy(v) /\ Busy(w) /\ TaskOf(req[v]) = TaskOf(req[w]) => v = w
    /\ \A v, w \in Workers : At(v, "delete") => v = w \/ At(w, "idle")

Traced(t, minutes) == \E x \in Traces(t) : InvoicedOverage(x.real) = minutes

\* The overage a request is about to bill is the task's, and nothing bills it yet.
ToBill(b) ==
    /\ Attachable(b.task, b.cycle)
    /\ LinesOf(b.task) = {}
    /\ Traced(b.task, b.minutes)

\* What a request read is still so.
RequestFits(w) ==
    LET r == req[w] IN
    /\ At(w, "consume") => /\ task[r.task].settledAt = Null
                           /\ \A x \in ledger : x.task = r.task => x.cycle < r.cycle
    /\ r.pc \in {"surplus", "find", "create", "line"} => ToBill(r.bill)
    /\ At(w, "line") => invoice[r.invoice].state \in {"draft", "deleted"}
    /\ At(w, "attach") => /\ Attachable(r.bill.task, r.bill.cycle)
                          /\ r.line \in LinesOf(r.bill.task) /\ line[r.line].invoice = r.invoice
    /\ ~At(w, "retract")
    /\ At(w, "relink") => /\ InSettlement(r.task, r.cycle)
                          /\ \E l \in LinesOf(r.task) : line[l].invoice = r.invoice
    /\ At(w, "undo") => InSettlement(r.task, r.cycle) /\ ~ReopenBlocked(r.task)

\* A task has one line at most, on an invoice that is there, for its settlement.
LineFits(t) ==
    \A l \in LinesOf(t) :
        /\ LinesOf(t) = {l} /\ Exists(line[l].invoice)
        /\ InSettlement(t, line[l].cycle) /\ Traced(t, line[l].minutes)

\* The invoice a task points to has its line.
LinkFits(t) ==
    task[t].overageInvoice # Null
        => \E l \in LinesOf(t) : line[l].invoice = task[t].overageInvoice

SettlementIsNewest ==
    \A x \in ledger : task[x.task].settledAt # Null => x.cycle <= task[x.task].settledAt

BillingInv ==
    /\ OneAtATime
    /\ \A w \in Workers : RequestFits(w)
    /\ \A t \in Tasks : LineFits(t) /\ LinkFits(t)
    /\ SettlementIsNewest
    /\ RefundMatchesCharge

(***************************************************************************)
(* What a step on one task leaves of the others.                           *)
(***************************************************************************)

SameBilling(u) ==
    /\ task'[u].settledAt = task[u].settledAt
    /\ task'[u].overageInvoice = task[u].overageInvoice
    /\ LinesOf(u)' = LinesOf(u)
    /\ \A l \in LinesOf(u) : line'[l] = line[l]
    /\ \A x \in ledger' : x.task = u => x \in ledger

\* Requests create drafts, and delete drafts left without a line.
InvoicesStay ==
    \A i \in InvoiceIds :
        \/ invoice'[i].state = invoice[i].state
        \/ invoice[i].state = "unused" /\ invoice'[i].state = "draft"
        \/ /\ invoice[i].state = "draft" /\ invoice'[i].state = "deleted"
           /\ \A l \in LineIds : line'[l].state = "on" => line'[l].invoice # i

\* The traces of a task whose billing is the same are the same.
LEMMA SameTraces ==
    ASSUME NEW u \in Tasks, SameBilling(u), ledger \subseteq ledger'
    PROVE  /\ Traces(u)' = Traces(u)
           /\ \A minutes : Traced(u, minutes)' <=> Traced(u, minutes)
<1>1. Traces(u)' = Traces(u)
  BY DEF SameBilling, Traces, Rows
<1> QED BY <1>1 DEF Traced

\* The lines and the link of a task whose billing is the same still fit.
LEMMA OtherTaskFits ==
    ASSUME TypeOK, NEW u \in Tasks, SameBilling(u), InvoicesStay, ledger \subseteq ledger',
           LineFits(u), LinkFits(u)
    PROVE  LineFits(u)' /\ LinkFits(u)'
<1>1. LinkFits(u)'
  BY DEF LinkFits, SameBilling
<1>2. ASSUME NEW l \in LinesOf(u)'
      PROVE  /\ LinesOf(u)' = {l} /\ Exists(line[l].invoice)'
             /\ InSettlement(u, line[l].cycle)' /\ Traced(u, line[l].minutes)'
  <2>1. /\ l \in LinesOf(u) /\ l \in LineIds /\ line'[l] = line[l] /\ line'[l].state = "on"
        /\ line[l].invoice \in InvoiceIds
    BY <1>2 DEF SameBilling, LinesOf, TypeOK, Line
  <2>2. LinesOf(u)' = {l}
    BY <2>1 DEF SameBilling, LineFits
  <2>3. Exists(line[l].invoice)'
    BY <2>1 DEF LineFits, Exists, InvoicesStay
  <2>4. InSettlement(u, line[l].cycle)'
    BY <2>1 DEF LineFits, InSettlement, SameBilling
  <2>5. Traced(u, line[l].minutes)'
    <3>1. Traced(u, line[l].minutes)
      BY <2>1 DEF LineFits
    <3> QED BY <2>1, <3>1, SameTraces DEF Traced
  <2> QED BY <2>2, <2>3, <2>4, <2>5
<1> QED BY <1>1, <1>2 DEF LineFits

\* What another request read of such a task is still so.
LEMMA OtherRequestFits ==
    ASSUME TypeOK, NEW v \in Workers, RequestFits(v), req'[v] = req[v],
           Busy(v) => SameBilling(TaskOf(req[v])), InvoicesStay, ledger \subseteq ledger'
    PROVE  RequestFits(v)'
<1> DEFINE r == req[v]
<1>1. CASE ~Busy(v)
  BY <1>1 DEF RequestFits, Busy, At
<1>2. CASE At(v, "consume")
  <2>1. r.task \in Tasks /\ SameBilling(r.task)
    BY <1>2, RequestFields DEF Busy, At, TaskOf
  <2> QED BY <1>2, <2>1 DEF RequestFits, SameBilling, At
<1>3. CASE r.pc \in {"surplus", "find", "create", "line"}
  <2>1. r.bill \in Bill /\ r.bill.task \in Tasks /\ SameBilling(r.bill.task)
    BY <1>3, RequestFields DEF Busy, At, TaskOf, Bill
  <2>2. ToBill(r.bill)
    BY <1>3 DEF RequestFits
  <2>3. ToBill(r.bill)'
    <3>1. Attachable(r.bill.task, r.bill.cycle)' /\ (LinesOf(r.bill.task) = {})'
      BY <2>1, <2>2 DEF ToBill, Attachable, InSettlement, SameBilling
    <3>2. Traced(r.bill.task, r.bill.minutes)'
      BY <2>1, <2>2, SameTraces DEF ToBill, Traced
    <3> QED BY <3>1, <3>2 DEF ToBill
  <2>4. At(v, "line") => invoice'[r.invoice].state \in {"draft", "deleted"}
    BY <1>3, RequestFields DEF RequestFits, InvoicesStay
  <2> QED BY <1>3, <2>3, <2>4 DEF RequestFits, At
<1>4. CASE At(v, "attach")
  <2>1. r.bill.task \in Tasks /\ SameBilling(r.bill.task)
    BY <1>4, RequestFields DEF Busy, At, TaskOf, Bill
  <2>2. /\ Attachable(r.bill.task, r.bill.cycle)
        /\ r.line \in LinesOf(r.bill.task) /\ line[r.line].invoice = r.invoice
    BY <1>4 DEF RequestFits
  <2>3. /\ Attachable(r.bill.task, r.bill.cycle)'
        /\ r.line \in LinesOf(r.bill.task)' /\ line'[r.line].invoice = r.invoice
    BY <2>1, <2>2 DEF SameBilling, Attachable, InSettlement
  <2> QED BY <1>4, <2>3 DEF RequestFits, At
<1>5. CASE At(v, "relink")
  <2>1. r.task \in Tasks /\ SameBilling(r.task)
    BY <1>5, RequestFields DEF Busy, At, TaskOf
  <2>2. /\ InSettlement(r.task, r.cycle)
        /\ \E l \in LinesOf(r.task) : line[l].invoice = r.invoice
    BY <1>5 DEF RequestFits
  <2>3. /\ InSettlement(r.task, r.cycle)'
        /\ \E l \in LinesOf(r.task)' : line'[l].invoice = r.invoice
    BY <2>1, <2>2 DEF SameBilling, InSettlement
  <2> QED BY <1>5, <2>3 DEF RequestFits, At
<1>6. CASE At(v, "undo")
  <2>1. r.task \in Tasks /\ SameBilling(r.task)
    BY <1>6, RequestFields DEF Busy, At, TaskOf
  <2>2. InSettlement(r.task, r.cycle) /\ ~ReopenBlocked(r.task)
    BY <1>6 DEF RequestFits
  <2>3. task[r.task].overageInvoice \in InvoiceIds \union {Null}
    BY <2>1 DEF TypeOK, Task
  <2>4. \A l \in LinesOf(r.task) : line[l].invoice \in InvoiceIds
    BY DEF LinesOf, TypeOK, Line
  <2>5. \A i \in InvoiceIds : Emitted(i)' => Emitted(i)
    BY DEF Emitted, InvoicesStay
  <2>6. InSettlement(r.task, r.cycle)' /\ ~ReopenBlocked(r.task)'
    BY <2>1, <2>2, <2>3, <2>4, <2>5 DEF SameBilling, InSettlement, ReopenBlocked
  <2> QED BY <1>6, <2>6 DEF RequestFits, At
<1>7. CASE r.pc \in {"status", "settle", "reverse", "retract"}
  BY <1>7 DEF RequestFits, At
<1>8. r.pc \in {"idle", "status", "settle", "consume", "find", "create", "line", "attach",
                "retract", "reverse", "undo", "relink", "surplus", "delete"}
  BY DEF TypeOK, Request, Idle
<1> QED BY <1>1, <1>2, <1>3, <1>4, <1>5, <1>6, <1>7, <1>8 DEF Busy, At

\* A step of one request, which works on task t: what is left to show is what the
\* step does to that task and that request.
LEMMA TaskStep ==
    ASSUME Inv, BillingInv, NEW w \in Workers, NEW t \in Tasks,
           (Busy(w) /\ TaskOf(req[w]) = t) \/ (At(w, "idle") /\ ~InFlight(t) /\ NoDelete),
           \A v \in Workers : v # w => req'[v] = req[v],
           req'[w] = Idle \/ (Busy(w)' /\ TaskOf(req[w])' = t),
           \A u \in Tasks : u # t => SameBilling(u),
           InvoicesStay, ledger \subseteq ledger', ledger' \subseteq Row,
           RequestFits(w)', LineFits(t)', LinkFits(t)',
           \A x \in ledger' \ ledger :
               x.task = t /\ (task'[t].settledAt # Null => x.cycle <= task'[t].settledAt),
           \A x \in ledger : x.task = t /\ task'[t].settledAt # Null => x.cycle <= task'[t].settledAt,
           \A y \in ledger' \ ledger : y.kind = "task_reversal" =>
               \E x \in ledger : ChargeOf(x, y) /\ y.delta = -x.delta
    PROVE  BillingInv'
<1> TypeOK
  BY DEF Inv
<1>1. \A v \in Workers : v # w /\ Busy(v) => TaskOf(req[v]) # t /\ TaskOf(req[v]) \in Tasks
  <2>1. \A v \in Workers : Busy(v) => TaskOf(req[v]) \in Tasks
    BY RequestFields DEF TypeOK, Request, Idle, Busy, TaskOf, Bill
  <2>2. \A v \in Workers : v # w /\ Busy(v) => TaskOf(req[v]) # t
    BY DEF BillingInv, OneAtATime, InFlight, Busy
  <2> QED BY <2>1, <2>2
<1>2. OneAtATime'
  <2>1. \A v \in Workers : v # w => Busy(v)' = Busy(v) /\ TaskOf(req[v])' = TaskOf(req[v])
    BY DEF Busy, TaskOf
  <2>2. \A v \in Workers : ~At(v, "delete")
    BY DEF BillingInv, OneAtATime, NoDelete, Busy, At
  <2>3. \A v \in Workers : ~At(v, "delete")'
    BY <2>2 DEF Busy, At, Idle
  <2>4. req'[w] = Idle => ~Busy(w)'
    BY DEF Busy, Idle
  <2> QED BY <1>1, <2>1, <2>3, <2>4 DEF BillingInv, OneAtATime
<1>3. \A v \in Workers : RequestFits(v)'
  <2>1. ASSUME NEW v \in Workers, v # w PROVE RequestFits(v)'
    BY <1>1, <2>1, OtherRequestFits DEF BillingInv
  <2> QED BY <2>1
<1>4. \A u \in Tasks : LineFits(u)' /\ LinkFits(u)'
  BY OtherTaskFits DEF BillingInv
<1>5. SettlementIsNewest'
  <2> SUFFICES ASSUME NEW x \in ledger', task'[x.task].settledAt # Null
               PROVE  x.cycle <= task'[x.task].settledAt
    BY DEF SettlementIsNewest
  <2>1. CASE x.task = t
    BY <2>1
  <2>2. CASE x.task # t
    BY <2>2 DEF BillingInv, SettlementIsNewest, SameBilling, Row
  <2> QED BY <2>1, <2>2
<1>6. RefundMatchesCharge'
  BY DEF BillingInv, RefundMatchesCharge, ChargeOf
<1> QED BY <1>2, <1>3, <1>4, <1>5, <1>6 DEF BillingInv

\* A step that leaves the billing of every task alone.
LEMMA NoTaskStep ==
    ASSUME TypeOK, BillingInv, \A u \in Tasks : SameBilling(u), InvoicesStay, ledger' = ledger,
           OneAtATime', \A w \in Workers : req'[w] = req[w] \/ RequestFits(w)'
    PROVE  BillingInv'
<1>1. \A v \in Workers : RequestFits(v)'
  <2>1. \A v \in Workers : Busy(v) => TaskOf(req[v]) \in Tasks
    BY DEF TypeOK, Request, Idle, Busy, TaskOf, Bill
  <2>2. ASSUME NEW v \in Workers, req'[v] = req[v] PROVE RequestFits(v)'
    BY <2>1, <2>2, OtherRequestFits DEF BillingInv
  <2> QED BY <2>2
<1>2. \A u \in Tasks : LineFits(u)' /\ LinkFits(u)'
  BY OtherTaskFits DEF BillingInv
<1>3. SettlementIsNewest'
  BY DEF BillingInv, SettlementIsNewest, SameBilling, TypeOK, Row
<1>4. RefundMatchesCharge'
  BY DEF BillingInv, RefundMatchesCharge, ChargeOf
<1> QED BY <1>1, <1>2, <1>3, <1>4 DEF BillingInv

\* A request of task t that writes nothing the billing is read from.
LEMMA ReadingStep ==
    ASSUME Inv, BillingInv, NEW w \in Workers, NEW t \in Tasks,
           (Busy(w) /\ TaskOf(req[w]) = t) \/ (At(w, "idle") /\ ~InFlight(t) /\ NoDelete),
           \A v \in Workers : v # w => req'[v] = req[v],
           req'[w] = Idle \/ (Busy(w)' /\ TaskOf(req[w])' = t),
           UNCHANGED <<ledger, invoice, line>>,
           \A u \in Tasks : /\ task'[u].settledAt = task[u].settledAt
                            /\ task'[u].overageInvoice = task[u].overageInvoice,
           RequestFits(w)'
    PROVE  BillingInv'
<1>1. \A u \in Tasks : SameBilling(u)
  BY DEF SameBilling, LinesOf
<1>2. InvoicesStay
  BY DEF InvoicesStay
<1>3. LineFits(t)' /\ LinkFits(t)'
  BY <1>1, <1>2, OtherTaskFits DEF Inv, BillingInv
<1>4. \A x \in ledger : x.task = t /\ task'[t].settledAt # Null => x.cycle <= task'[t].settledAt
  BY DEF BillingInv, SettlementIsNewest
<1>5. ledger' \subseteq Row /\ ledger \subseteq ledger' /\ ledger' \ ledger = {}
  BY DEF Inv, TypeOK
<1> QED BY <1>1, <1>2, <1>3, <1>4, <1>5, TaskStep

\* The end of a request has nothing to fit.
LEMMA EndFits == ASSUME NEW w \in Workers, req'[w] = Idle PROVE RequestFits(w)'
  BY DEF RequestFits, At, Idle

\* A request that begins does so when no other works on its task.
LEMMA Begins ==
    ASSUME TakeTurns, NEW t \in Tasks, MayTouch(t)
    PROVE  ~InFlight(t) /\ NoDelete
  BY DEF TakeTurns, MayTouch

LEMMA ReadStatusBills ==
    ASSUME Inv, BillingInv, TakeTurns, NEW w \in Workers, NEW t \in Tasks,
           NEW old \in {"open", "done"}, NEW new \in {"open", "done"},
           ReadStatus(w, t, old, new)
    PROVE  BillingInv'
<1>1. req' = [req EXCEPT ![w] = [pc |-> "status", task |-> t, old |-> old, new |-> new]]
  BY DEF ReadStatus, Goto
<1>2. /\ req'[w] = [pc |-> "status", task |-> t, old |-> old, new |-> new]
      /\ \A v \in Workers : v # w => req'[v] = req[v]
  BY <1>1 DEF Inv, TypeOK
<1>3. Busy(w)' /\ TaskOf(req[w])' = t /\ RequestFits(w)'
  BY <1>2 DEF Busy, TaskOf, RequestFits, At
<1> QED BY <1>2, <1>3, Begins, ReadingStep DEF ReadStatus

LEMMA WriteStatusBills ==
    ASSUME Inv, BillingInv, NEW w \in Workers, WriteStatus(w)
    PROVE  BillingInv'
<1> DEFINE t == req[w].task
<1>1. t \in Tasks /\ Busy(w) /\ TaskOf(req[w]) = t
  BY RequestFields DEF Inv, WriteStatus, Busy, TaskOf, At
<1>2. PICK r : /\ r \in {[pc |-> "settle", task |-> t, given |-> 0],
                         [pc |-> "reverse", task |-> t], Idle}
               /\ req' = [req EXCEPT ![w] = r]
  BY DEF WriteStatus, Goto
<1>3. req'[w] = r /\ \A v \in Workers : v # w => req'[v] = req[v]
  BY <1>2 DEF Inv, TypeOK
<1>4. req'[w] = Idle \/ (Busy(w)' /\ TaskOf(req[w])' = t)
  BY <1>2, <1>3 DEF Busy, TaskOf
<1>5. RequestFits(w)'
  BY <1>2, <1>3 DEF RequestFits, At, Idle
<1>6. \A u \in Tasks : /\ task'[u].settledAt = task[u].settledAt
                       /\ task'[u].overageInvoice = task[u].overageInvoice
  BY DEF WriteStatus, Inv, TypeOK, Task
<1> QED BY <1>1, <1>3, <1>4, <1>5, <1>6, ReadingStep DEF WriteStatus

LEMMA SettleNowBills ==
    ASSUME Inv, BillingInv, TakeTurns, NEW w \in Workers, NEW t \in Tasks, SettleNow(w, t)
    PROVE  BillingInv'
<1>1. PICK given : req' = [req EXCEPT ![w] = [pc |-> "settle", task |-> t, given |-> given]]
  BY DEF SettleNow, Goto
<1>2. /\ req'[w] = [pc |-> "settle", task |-> t, given |-> given]
      /\ \A v \in Workers : v # w => req'[v] = req[v]
  BY <1>1 DEF Inv, TypeOK
<1>3. Busy(w)' /\ TaskOf(req[w])' = t /\ RequestFits(w)'
  BY <1>2 DEF Busy, TaskOf, RequestFits, At
<1> QED BY <1>2, <1>3, Begins, ReadingStep DEF SettleNow

\* The settlement to come is later than every row of its task.
LEMMA ReadTaskBills ==
    ASSUME Inv, BillingInv, NEW w \in Workers, ReadTask(w)
    PROVE  BillingInv'
<1> DEFINE t == req[w].task
           actual == IF req[w].given > 0 THEN req[w].given ELSE task[t].actual
           r == [pc |-> "consume", task |-> t, client |-> task[t].client,
                 cycle |-> clock, actual |-> actual, month |-> month]
<1>1. t \in Tasks /\ Busy(w) /\ TaskOf(req[w]) = t
  BY RequestFields DEF Inv, ReadTask, Busy, TaskOf, At
<1>2. /\ UNCHANGED <<ledger, task, invoice, line>>
      /\ req' = [req EXCEPT ![w] = Idle] \/ (Settleable(t, actual) /\ req' = [req EXCEPT ![w] = r])
  BY DEF ReadTask, Goto
<1>3. \A v \in Workers : v # w => req'[v] = req[v]
  BY <1>2 DEF Inv, TypeOK
<1>4. CASE req' = [req EXCEPT ![w] = Idle]
  <2>1. req'[w] = Idle
    BY <1>4 DEF Inv, TypeOK
  <2> QED BY <1>1, <1>2, <1>3, <2>1, EndFits, ReadingStep
<1>5. CASE Settleable(t, actual) /\ req' = [req EXCEPT ![w] = r]
  <2>1. req'[w] = r
    BY <1>5 DEF Inv, TypeOK
  <2>2. Busy(w)' /\ TaskOf(req[w])' = t
    BY <2>1 DEF Busy, TaskOf
  <2>3. task[t].settledAt = Null /\ \A x \in ledger : x.cycle < clock
    BY <1>5 DEF Settleable, Inv, StampsAreFresh
  <2>4. RequestFits(w)'
    BY <1>2, <2>1, <2>3 DEF RequestFits, At
  <2> QED BY <1>1, <1>2, <1>3, <2>2, <2>4, ReadingStep
<1> QED BY <1>2, <1>4, <1>5

\* The draft found is the month's newest invoice, which is editable.
LEMMA FindDraftBills ==
    ASSUME Inv, BillingInv, NEW w \in Workers, FindDraft(w)
    PROVE  BillingInv'
<1> DEFINE b == req[w].bill
           m == TargetMonth(b.client, b.month)
           found == IF m < b.month + 2 THEN NewestDraft(b.client, m) ELSE {}
<1>1. /\ b \in Bill /\ b.task \in Tasks /\ b.month \in Nat
      /\ Busy(w) /\ TaskOf(req[w]) = b.task
  BY RequestFields DEF Inv, FindDraft, Busy, TaskOf, At, Bill
<1>2. ToBill(b) /\ UNCHANGED <<ledger, task, invoice, line>>
  BY DEF FindDraft, BillingInv, RequestFits, At
<1>3. \A i \in found : invoice[i].state = "draft"
  <2>1. m < b.month + 2 => ~Taken(b.client, m)
    BY <1>1 DEF TargetMonth
  <2> QED BY <2>1 DEF Taken, Editable
<1>4. \/ \E i \in found : req' = [req EXCEPT ![w] = [pc |-> "line", bill |-> b, invoice |-> i]]
      \/ req' = [req EXCEPT ![w] = [pc |-> "create", bill |-> b, month |-> m]]
  BY DEF FindDraft, Goto
<1> HIDE DEF m, found
<1>5. PICK r : /\ req' = [req EXCEPT ![w] = r]
               /\ \/ \E i : /\ r = [pc |-> "line", bill |-> b, invoice |-> i]
                            /\ invoice[i].state = "draft"
                  \/ r = [pc |-> "create", bill |-> b, month |-> m]
  BY <1>3, <1>4
<1>6. req'[w] = r /\ \A v \in Workers : v # w => req'[v] = req[v]
  BY <1>5 DEF Inv, TypeOK
<1>7. Busy(w)' /\ TaskOf(req[w])' = b.task
  BY <1>5, <1>6 DEF Busy, TaskOf
<1>8. req'[w].bill = b /\ ToBill(b)'
  <2>1. req'[w].bill = b
    BY <1>5, <1>6
  <2> QED BY <1>2, <2>1 DEF ToBill, Attachable, InSettlement, LinesOf, Traced, Traces, Rows
<1>9. RequestFits(w)'
  BY <1>2, <1>5, <1>6, <1>8 DEF RequestFits, At
<1> QED BY <1>1, <1>2, <1>6, <1>7, <1>9, ReadingStep

\* Reading the settlement to undo: it is the task's, and none of its lines is emitted.
LEMMA ReadSettlementBills ==
    ASSUME Inv, BillingInv, NEW w \in Workers, ReadSettlement(w)
    PROVE  BillingInv'
<1> DEFINE t == req[w].task
           r == [pc |-> "undo", task |-> t, client |-> task[t].client,
                 cycle |-> task[t].settledAt]
<1>1. t \in Tasks /\ Busy(w) /\ TaskOf(req[w]) = t
  BY RequestFields DEF Inv, ReadSettlement, Busy, TaskOf, At
<1>2. /\ UNCHANGED <<ledger, task, invoice, line>>
      /\ req' = [req EXCEPT ![w] = Idle] \/ (~ReopenBlocked(t) /\ req' = [req EXCEPT ![w] = r])
  BY DEF ReadSettlement, Goto
<1>3. \A v \in Workers : v # w => req'[v] = req[v]
  BY <1>2 DEF Inv, TypeOK
<1>4. CASE req' = [req EXCEPT ![w] = Idle]
  <2>1. req'[w] = Idle
    BY <1>4 DEF Inv, TypeOK
  <2> QED BY <1>1, <1>2, <1>3, <2>1, EndFits, ReadingStep
<1>5. CASE ~ReopenBlocked(t) /\ req' = [req EXCEPT ![w] = r]
  <2>1. req'[w] = r
    BY <1>5 DEF Inv, TypeOK
  <2>2. Busy(w)' /\ TaskOf(req[w])' = t
    BY <2>1 DEF Busy, TaskOf
  <2>3. ~ReopenBlocked(t)'
    <3>1. req'[w].task = t
      BY <2>1
    <3>2. \A u \in Tasks : ReopenBlocked(u)' <=> ReopenBlocked(u)
      BY <1>2 DEF ReopenBlocked, LinesOf, Emitted
    <3> QED BY <1>1, <1>5, <3>1, <3>2
  <2>4. RequestFits(w)'
    BY <1>2, <2>1, <2>3 DEF RequestFits, At, InSettlement
  <2> QED BY <1>1, <1>2, <1>3, <2>2, <2>4, ReadingStep
<1> QED BY <1>2, <1>4, <1>5

(***************************************************************************)
(* Steps that write what the billing is read from.                         *)
(***************************************************************************)

\* A task without a settlement has no line and no link.
LEMMA UnsettledIsUnbilled ==
    ASSUME TypeOK, NEW t \in Tasks, LineFits(t), LinkFits(t), task[t].settledAt = Null
    PROVE  LinesOf(t) = {} /\ task[t].overageInvoice = Null
<1>1. \A l \in LinesOf(t) : line[l].cycle \in Stamps
  BY DEF TypeOK, LinesOf, Line
<1>2. LinesOf(t) = {}
  BY <1>1 DEF LineFits, InSettlement, Null, Stamps
<1> QED BY <1>2 DEF LinkFits

\* A settlement finds its task unsettled, so without a line, and its rows the newest.
LEMMA ConsumeBills ==
    ASSUME Inv, Inv', BillingInv, NEW w \in Workers, Consume(w)
    PROVE  BillingInv'
<1>1. PICK r : /\ r = req[w] /\ r.task \in Tasks /\ r.client \in Clients /\ r.cycle \in Stamps
               /\ r.actual \in Nat \ {0} /\ TypeOK /\ balance[r.client] \in Int
               /\ Busy(w) /\ TaskOf(req[w]) = r.task
  BY RequestFields DEF Inv, Consume, Available, TypeOK, At, Busy, TaskOf
<1>2. PICK s : s = Split(r.actual, balance[r.client])
  OBVIOUS
<1> DEFINE t == r.task
           rows == SettlementRows(r, s)
           bill == [task |-> t, client |-> r.client, cycle |-> r.cycle,
                    minutes |-> s.invoiced, month |-> r.month]
           next == IF s.overage = 0 THEN Idle ELSE [pc |-> "find", bill |-> bill]
<1>3. /\ task[t].settledAt = Null /\ LinesOf(t) = {} /\ task[t].overageInvoice = Null
      /\ \A x \in ledger : x.task = t => x.cycle < r.cycle
  <2>1. task[t].settledAt = Null /\ \A x \in ledger : x.task = t => x.cycle < r.cycle
    BY <1>1 DEF BillingInv, RequestFits, Consume, Available
  <2> QED BY <1>1, <2>1, UnsettledIsUnbilled DEF BillingInv
<1>4. /\ task' = [task EXCEPT ![t].actual = r.actual, ![t].settledAt = r.cycle]
      /\ ledger' = ledger \union rows
      /\ req' = [req EXCEPT ![w] = next]
      /\ UNCHANGED <<invoice, line>>
  BY <1>1, <1>2, <1>3 DEF Consume, Available, Goto
<1>5. \A x \in rows : /\ x.task = t /\ x.cycle = r.cycle /\ x.kind # "task_reversal"
  BY <1>1, <1>2, SettlementRowsAre
<1>6. /\ s.overage \in Nat
      /\ s.overage > 0 => \E x \in rows : /\ x.kind = "overage_invoiced" /\ x.task = t
                                          /\ x.cycle = r.cycle
                                          /\ InvoicedOverage(x.real) = s.invoiced
  <2>1. s.overage \in Nat /\ s.invoiced = InvoicedOverage(s.invoiced)
    BY <1>1, <1>2, SplitIsExact
  <2> DEFINE trace == SettlementEntry(r, "overage_invoiced", 0, s.invoiced)
  <2>2. /\ trace.kind = "overage_invoiced" /\ trace.task = t /\ trace.cycle = r.cycle
        /\ InvoicedOverage(trace.real) = s.invoiced
        /\ s.overage > 0 => trace \in rows
    BY <2>1 DEF SettlementEntry, SettlementRows
  <2> HIDE DEF trace
  <2> QED BY <2>1, <2>2
<1> HIDE DEF rows
<1>7. /\ task'[t].settledAt = r.cycle /\ task'[t].overageInvoice = Null
      /\ \A u \in Tasks : u # t => task'[u] = task[u]
  BY <1>1, <1>3, <1>4 DEF TypeOK, Task
<1>8. req'[w] = next /\ \A v \in Workers : v # w => req'[v] = req[v]
  BY <1>1, <1>4 DEF TypeOK
<1>9. next = Idle \/ (s.overage > 0 /\ next = [pc |-> "find", bill |-> bill])
  BY <1>6
<1>10. LinesOf(t)' = {} /\ LineFits(t)' /\ LinkFits(t)'
  <2>1. LinesOf(t)' = {}
    BY <1>3, <1>4 DEF LinesOf
  <2> QED BY <1>7, <2>1 DEF LineFits, LinkFits
<1>11. InvoicesStay /\ \A u \in Tasks : u # t => SameBilling(u)
  BY <1>4, <1>5, <1>7 DEF InvoicesStay, SameBilling, LinesOf
<1>12. RequestFits(w)' /\ (req'[w] = Idle \/ (Busy(w)' /\ TaskOf(req[w])' = t))
  <2>1. CASE next = Idle
    BY <1>8, <2>1, EndFits
  <2>2. CASE s.overage > 0 /\ next = [pc |-> "find", bill |-> bill]
    <3>1. Attachable(t, r.cycle)'
      BY <1>7 DEF Attachable, InSettlement
    <3>2. Traced(t, s.invoiced)'
      <4>1. PICK x \in rows : /\ x.kind = "overage_invoiced" /\ x.task = t
                              /\ x.cycle = r.cycle /\ InvoicedOverage(x.real) = s.invoiced
        BY <1>6, <2>2
      <4>2. x \in Traces(t)'
        BY <1>1, <1>4, <1>7, <4>1 DEF Traces, Rows, Stamps
      <4> QED BY <4>1, <4>2 DEF Traced
    <3>3. ToBill(bill)'
      BY <1>10, <3>1, <3>2 DEF ToBill
    <3>4. req'[w].bill = bill /\ req'[w].pc = "find"
      BY <1>8, <2>2
    <3> QED BY <3>3, <3>4 DEF RequestFits, At, Busy, TaskOf, ToBill
  <2> QED BY <1>9, <2>1, <2>2
<1>13. /\ \A x \in ledger' \ ledger : x.task = t /\ x.cycle <= task'[t].settledAt
       /\ \A x \in ledger : x.task = t => x.cycle <= task'[t].settledAt
       /\ \A x \in ledger' \ ledger : x.kind # "task_reversal"
  BY <1>1, <1>3, <1>4, <1>5, <1>7 DEF TypeOK, Row, Stamps
<1>14. ledger \subseteq ledger' /\ ledger' \subseteq Row
  BY <1>4 DEF Inv, TypeOK
<1> HIDE DEF t, next
<1> QED BY <1>1, <1>8, <1>10, <1>11, <1>12, <1>13, <1>14, TaskStep DEF t

\* A new draft was no invoice before, so no line is on it.
LEMMA CreateDraftBills ==
    ASSUME Inv, Inv', BillingInv, NEW w \in Workers, CreateDraft(w)
    PROVE  BillingInv'
<1>1. PICK r : /\ r = req[w] /\ r.bill \in Bill /\ r.bill.task \in Tasks
               /\ Busy(w) /\ TaskOf(req[w]) = r.bill.task
  BY RequestFields DEF Inv, CreateDraft, At, Busy, TaskOf, Bill
<1> DEFINE t == r.bill.task
<1>2. PICK i \in InvoiceIds :
         /\ invoice[i].state = "unused"
         /\ invoice' = [invoice EXCEPT ![i] = [state |-> "draft", client |-> r.bill.client,
                                               month |-> r.month]]
         /\ req' = [req EXCEPT ![w] = [pc |-> "line", bill |-> r.bill, invoice |-> i]]
  BY <1>1 DEF CreateDraft, Fresh, Goto, Inv, TypeOK
<1>3. /\ req'[w] = [pc |-> "line", bill |-> r.bill, invoice |-> i]
      /\ \A v \in Workers : v # w => req'[v] = req[v]
  BY <1>2 DEF Inv, TypeOK
<1>4. /\ invoice'[i].state = "draft" /\ \A j \in InvoiceIds : j # i => invoice'[j] = invoice[j]
      /\ UNCHANGED <<ledger, task, line>>
  BY <1>2 DEF CreateDraft, Inv, TypeOK
<1>5. InvoicesStay
  BY <1>2, <1>4 DEF InvoicesStay
<1>6. \A u \in Tasks : SameBilling(u)
  BY <1>4 DEF SameBilling, LinesOf
<1>7. LineFits(t)' /\ LinkFits(t)'
  BY <1>1, <1>4, <1>5, <1>6, OtherTaskFits DEF Inv, BillingInv
<1>8. ToBill(r.bill)'
  <2>1. ToBill(r.bill)
    BY <1>1 DEF CreateDraft, BillingInv, RequestFits, At
  <2> QED BY <1>4, <2>1 DEF ToBill, Attachable, InSettlement, LinesOf, Traced, Traces, Rows
<1>9. RequestFits(w)' /\ Busy(w)' /\ TaskOf(req[w])' = t
  <2>1. req'[w].pc = "line" /\ req'[w].bill = r.bill /\ req'[w].invoice = i
    BY <1>3
  <2> QED BY <1>4, <1>8, <2>1 DEF RequestFits, At, Busy, TaskOf, ToBill
<1>10. \A x \in ledger : x.task = t /\ task'[t].settledAt # Null => x.cycle <= task'[t].settledAt
  BY <1>4 DEF BillingInv, SettlementIsNewest
<1>11. ledger' \subseteq Row /\ ledger \subseteq ledger' /\ ledger' \ ledger = {}
  BY <1>4 DEF Inv, TypeOK
<1> HIDE DEF t
<1> QED BY <1>1, <1>3, <1>5, <1>6, <1>7, <1>9, <1>10, <1>11, TaskStep DEF t

\* The line a request adds is the only one of its task, on an invoice that is there.
LEMMA AddLineBills ==
    ASSUME Inv, Inv', BillingInv, NEW w \in Workers, AddLine(w)
    PROVE  BillingInv'
<1>1. PICK r : /\ r = req[w] /\ r.bill \in Bill /\ r.bill.task \in Tasks /\ r.invoice \in InvoiceIds
               /\ At(w, "line") /\ Busy(w) /\ TaskOf(req[w]) = r.bill.task
  BY RequestFields DEF Inv, AddLine, At, Busy, TaskOf, Bill
<1> DEFINE t == r.bill.task
           new == [state |-> "on", invoice |-> r.invoice, task |-> t,
                   cycle |-> r.bill.cycle, minutes |-> r.bill.minutes]
<1>2. ToBill(r.bill) /\ UNCHANGED <<ledger, task, invoice>>
  BY <1>1 DEF AddLine, BillingInv, RequestFits, At
<1>3. CASE req' = [req EXCEPT ![w] = Idle] /\ UNCHANGED line
  <2>1. req'[w] = Idle /\ \A v \in Workers : v # w => req'[v] = req[v]
    BY <1>3 DEF Inv, TypeOK
  <2> HIDE DEF t
  <2> QED BY <1>1, <1>2, <1>3, <2>1, EndFits, ReadingStep DEF t
<1>4. ASSUME Exists(r.invoice), NEW l \in LineIds, line[l].state = "unused",
             line' = [line EXCEPT ![l] = new],
             req' = [req EXCEPT ![w] = [pc |-> "attach", bill |-> r.bill,
                                        invoice |-> r.invoice, line |-> l]]
      PROVE  BillingInv'
  <2>1. /\ req'[w] = [pc |-> "attach", bill |-> r.bill, invoice |-> r.invoice, line |-> l]
        /\ \A v \in Workers : v # w => req'[v] = req[v]
    BY <1>4 DEF Inv, TypeOK
  <2>2. line'[l] = new /\ \A m \in LineIds : m # l => line'[m] = line[m]
    BY <1>4 DEF Inv, TypeOK
  <2>3. LinesOf(t)' = {l}
    BY <1>2, <1>4, <2>2 DEF ToBill, LinesOf
  <2>4. InvoicesStay
    BY <1>2 DEF InvoicesStay
  <2>5. \A u \in Tasks : u # t => SameBilling(u)
    BY <1>2, <1>4, <2>2 DEF SameBilling, LinesOf
  <2>6. LineFits(t)'
    <3>1. Exists(r.invoice)' /\ Attachable(t, r.bill.cycle)' /\ InSettlement(t, r.bill.cycle)'
      BY <1>2, <1>4 DEF Exists, ToBill, Attachable, InSettlement
    <3>2. Traced(t, r.bill.minutes)'
      BY <1>2 DEF ToBill, Traced, Traces, Rows
    <3>3. line'[l].invoice = r.invoice /\ line'[l].cycle = r.bill.cycle
          /\ line'[l].minutes = r.bill.minutes
      BY <2>2
    <3> QED BY <2>3, <3>1, <3>2, <3>3 DEF LineFits, Exists, InSettlement, Traced
  <2>7. LinkFits(t)'
    BY <1>2 DEF LinkFits, ToBill, Attachable
  <2>8. RequestFits(w)' /\ Busy(w)' /\ TaskOf(req[w])' = t
    <3>1. /\ req'[w].pc = "attach" /\ req'[w].bill = r.bill /\ req'[w].invoice = r.invoice
          /\ req'[w].line = l /\ line'[l].invoice = r.invoice
      BY <2>1, <2>2
    <3>2. Attachable(t, r.bill.cycle)'
      BY <1>2 DEF ToBill, Attachable, InSettlement
    <3>3. l \in LinesOf(t)'
      BY <2>3
    <3> QED BY <3>1, <3>2, <3>3 DEF RequestFits, At, Busy, TaskOf, Attachable, InSettlement, LinesOf
  <2>9. \A x \in ledger : x.task = t /\ task'[t].settledAt # Null => x.cycle <= task'[t].settledAt
    BY <1>2 DEF BillingInv, SettlementIsNewest
  <2>10. ledger' \subseteq Row /\ ledger \subseteq ledger' /\ ledger' \ ledger = {}
    BY <1>2 DEF Inv, TypeOK
  <2> HIDE DEF t
  <2> QED BY <1>1, <2>1, <2>4, <2>5, <2>6, <2>7, <2>8, <2>9, <2>10, TaskStep DEF t
<1> QED BY <1>1, <1>3, <1>4 DEF AddLine, Goto, Fresh, Inv, TypeOK

\* A step that only points a settled task to the invoice of its line.
LEMMA LinkStep ==
    ASSUME Inv, Inv', BillingInv, NEW w \in Workers, NEW t \in Tasks, NEW i \in InvoiceIds,
           Busy(w), TaskOf(req[w]) = t, \E l \in LinesOf(t) : line[l].invoice = i,
           task' = [task EXCEPT ![t].overageInvoice = i], req' = [req EXCEPT ![w] = Idle],
           UNCHANGED <<ledger, invoice, line>>
    PROVE  BillingInv'
<1>1. req'[w] = Idle /\ \A v \in Workers : v # w => req'[v] = req[v]
  BY DEF Inv, TypeOK
<1>2. /\ task'[t].settledAt = task[t].settledAt /\ task'[t].overageInvoice = i
      /\ \A u \in Tasks : u # t => task'[u] = task[u]
  BY DEF Inv, TypeOK, Task
<1>3. InvoicesStay /\ \A u \in Tasks : u # t => SameBilling(u)
  BY <1>2 DEF InvoicesStay, SameBilling, LinesOf
<1>4. LineFits(t)'
  <2>1. LineFits(t)
    BY DEF BillingInv
  <2> QED BY <1>2, <2>1 DEF LineFits, LinesOf, Exists, InSettlement, Traced, Traces, Rows
<1>5. LinkFits(t)'
  BY <1>2 DEF LinkFits, LinesOf
<1>6. \A x \in ledger : x.task = t /\ task'[t].settledAt # Null => x.cycle <= task'[t].settledAt
  BY <1>2 DEF BillingInv, SettlementIsNewest
<1>7. ledger' \subseteq Row /\ ledger \subseteq ledger' /\ ledger' \ ledger = {}
  BY DEF Inv, TypeOK
<1> QED BY <1>1, <1>3, <1>4, <1>5, <1>6, <1>7, EndFits, TaskStep

\* Nothing came between the line and the attach: it always finds its settlement.
LEMMA AttachBills ==
    ASSUME Inv, Inv', BillingInv, TakeTurns, NEW w \in Workers, Attach(w)
    PROVE  BillingInv'
<1>1. PICK r : /\ r = req[w] /\ r.bill.task \in Tasks /\ r.invoice \in InvoiceIds
               /\ At(w, "attach") /\ Busy(w) /\ TaskOf(req[w]) = r.bill.task
  BY RequestFields DEF Inv, Attach, At, Busy, TaskOf, Bill
<1>2. /\ Attachable(r.bill.task, r.bill.cycle)
      /\ r.line \in LinesOf(r.bill.task) /\ line[r.line].invoice = r.invoice
  BY <1>1 DEF BillingInv, RequestFits
<1>3. /\ task' = [task EXCEPT ![r.bill.task].overageInvoice = r.invoice]
      /\ req' = [req EXCEPT ![w] = Idle] /\ UNCHANGED <<ledger, invoice, line>>
  BY <1>1, <1>2 DEF Attach, Goto, TakeTurns
<1> QED BY <1>1, <1>2, <1>3, LinkStep

LEMMA RelinkBills ==
    ASSUME Inv, Inv', BillingInv, NEW w \in Workers, Relink(w)
    PROVE  BillingInv'
<1>1. PICK r : /\ r = req[w] /\ r.task \in Tasks /\ r.invoice \in InvoiceIds
               /\ At(w, "relink") /\ Busy(w) /\ TaskOf(req[w]) = r.task
  BY RequestFields DEF Inv, Relink, At, Busy, TaskOf
<1>2. \E l \in LinesOf(r.task) : line[l].invoice = r.invoice
  BY <1>1 DEF BillingInv, RequestFits
<1>3. /\ req' = [req EXCEPT ![w] = Idle] /\ UNCHANGED <<ledger, invoice, line>>
      /\ task' = [task EXCEPT ![r.task].overageInvoice = r.invoice] \/ UNCHANGED task
  BY <1>1 DEF Relink, Goto
<1>4. CASE UNCHANGED task
  <2>1. req'[w] = Idle /\ \A v \in Workers : v # w => req'[v] = req[v]
    BY <1>3 DEF Inv, TypeOK
  <2> QED BY <1>1, <1>3, <1>4, <2>1, EndFits, ReadingStep
<1> QED BY <1>1, <1>2, <1>3, <1>4, LinkStep

\* What is billed again is the newest trace of a settlement that nothing bills.
LEMMA RegenerateBills ==
    ASSUME Inv, Inv', BillingInv, TakeTurns, NEW w \in Workers, NEW t \in Tasks, Regenerate(w, t)
    PROVE  BillingInv'
<1>1. /\ At(w, "idle") /\ ~InFlight(t) /\ NoDelete
      /\ Attachable(t, task[t].settledAt) /\ task[t].settledAt # Null
      /\ UNCHANGED <<ledger, task, invoice, line>>
  BY Begins DEF Regenerate, Unbilled, Attachable, InSettlement
<1>2. PICK trace, bill :
         /\ trace \in Newest(Traces(t))
         /\ bill = [task |-> t, client |-> task[t].client, cycle |-> task[t].settledAt,
                    minutes |-> InvoicedOverage(trace.real), month |-> month]
         /\ \/ \E l \in LinesOf(t) :
                  req' = [req EXCEPT ![w] = [pc |-> "relink", task |-> t,
                                             cycle |-> task[t].settledAt,
                                             invoice |-> line[l].invoice]]
            \/ /\ LinesOf(t) = {}
               /\ \/ req' = [req EXCEPT ![w] = [pc |-> "surplus", bill |-> bill, trace |-> trace]]
                  \/ req' = [req EXCEPT ![w] = [pc |-> "find", bill |-> bill]]
  BY DEF Regenerate, Goto
<1>3. CASE \E l \in LinesOf(t) :
              req' = [req EXCEPT ![w] = [pc |-> "relink", task |-> t,
                                         cycle |-> task[t].settledAt,
                                         invoice |-> line[l].invoice]]
  <2>1. PICK l \in LinesOf(t) :
              req' = [req EXCEPT ![w] = [pc |-> "relink", task |-> t,
                                         cycle |-> task[t].settledAt,
                                         invoice |-> line[l].invoice]]
    BY <1>3
  <2>2. /\ req'[w].pc = "relink" /\ req'[w].task = t /\ req'[w].cycle = task[t].settledAt
        /\ req'[w].invoice = line[l].invoice
        /\ \A v \in Workers : v # w => req'[v] = req[v]
    BY <2>1 DEF Inv, TypeOK
  <2>3. Busy(w)' /\ TaskOf(req[w])' = t
    BY <2>2 DEF Busy, TaskOf
  <2>4. RequestFits(w)'
    BY <1>1, <2>2 DEF RequestFits, At, InSettlement, LinesOf
  <2> QED BY <1>1, <2>2, <2>3, <2>4, ReadingStep
<1>4. CASE /\ LinesOf(t) = {}
           /\ \/ req' = [req EXCEPT ![w] = [pc |-> "surplus", bill |-> bill, trace |-> trace]]
              \/ req' = [req EXCEPT ![w] = [pc |-> "find", bill |-> bill]]
  <2>1. /\ req'[w].pc \in {"surplus", "find"} /\ req'[w].bill = bill
        /\ \A v \in Workers : v # w => req'[v] = req[v]
    BY <1>4 DEF Inv, TypeOK
  <2>2. bill.task = t /\ bill.cycle = task[t].settledAt /\ bill.minutes = InvoicedOverage(trace.real)
    BY <1>2
  <2>3. Busy(w)' /\ TaskOf(req[w])' = t
    BY <2>1, <2>2 DEF Busy, TaskOf
  <2>4. Traced(t, bill.minutes)
    BY <1>2, <2>2 DEF Newest, Traced
  <2>5. ToBill(bill)'
    BY <1>1, <1>4, <2>2, <2>4 DEF ToBill, Attachable, InSettlement, LinesOf, Traced, Traces, Rows
  <2>6. RequestFits(w)'
    BY <2>1, <2>5 DEF RequestFits, At, ToBill
  <2> QED BY <1>1, <2>1, <2>3, <2>6, ReadingStep
<1> QED BY <1>2, <1>3, <1>4

\* The late surplus is of the settlement it is billed with.
LEMMA CreditLegacySurplusBills ==
    ASSUME Inv, Inv', BillingInv, NEW w \in Workers, CreditLegacySurplus(w)
    PROVE  BillingInv'
<1>1. PICK r : /\ r = req[w] /\ r.bill \in Bill /\ r.bill.task \in Tasks /\ r.bill.cycle \in Stamps
               /\ At(w, "surplus") /\ Busy(w) /\ TaskOf(req[w]) = r.bill.task
               /\ r.trace.cycle = r.bill.cycle
  BY RequestFields DEF Inv, CreditLegacySurplus, At, Busy, TaskOf, Bill, OnlyLegacyIsExact
<1>2. ToBill(r.bill) /\ UNCHANGED <<task, invoice, line>>
  BY <1>1 DEF CreditLegacySurplus, BillingInv, RequestFits, At
<1> DEFINE t == r.bill.task
           surplus == r.bill.minutes - r.trace.real
           row == [kind |-> "purchase", client |-> r.bill.client, task |-> t,
                   cycle |-> r.trace.cycle, delta |-> surplus, real |-> surplus]
<1>3. InSettlement(t, r.bill.cycle) /\ LinesOf(t) = {} /\ task[t].overageInvoice = Null
  BY <1>2 DEF ToBill, Attachable
<1>4. PICK bill :
         /\ bill = [r.bill EXCEPT !.month = month]
         /\ req' = [req EXCEPT ![w] = [pc |-> "find", bill |-> bill]]
         /\ ledger' = ledger \/ ledger' = ledger \union {row}
  BY <1>1, <1>3 DEF CreditLegacySurplus, Goto
<1>5. row.kind = "purchase" /\ row.task = t /\ row.cycle = r.bill.cycle
  BY <1>1
<1>6. bill.task = t /\ bill.cycle = r.bill.cycle /\ bill.minutes = r.bill.minutes
  BY <1>1, <1>4 DEF Bill
<1> HIDE DEF row
<1>7. /\ req'[w].pc = "find" /\ req'[w].bill = bill
      /\ \A v \in Workers : v # w => req'[v] = req[v]
  BY <1>4 DEF Inv, TypeOK
<1>8. Busy(w)' /\ TaskOf(req[w])' = t
  BY <1>6, <1>7 DEF Busy, TaskOf
<1>9. InvoicesStay /\ \A u \in Tasks : u # t => SameBilling(u)
  BY <1>2, <1>4, <1>5 DEF InvoicesStay, SameBilling, LinesOf
<1>10. LinesOf(t)' = {} /\ LineFits(t)' /\ LinkFits(t)'
  BY <1>2, <1>3 DEF LineFits, LinkFits, LinesOf
<1>11. RequestFits(w)'
  <2>1. Traced(t, r.bill.minutes)'
    BY <1>2, <1>4 DEF ToBill, Traced, Traces, Rows
  <2>2. Attachable(t, r.bill.cycle)'
    BY <1>2 DEF ToBill, Attachable, InSettlement
  <2>3. ToBill(bill)'
    BY <1>6, <1>10, <2>1, <2>2 DEF ToBill
  <2> QED BY <1>7, <2>3 DEF RequestFits, At, ToBill
<1>12. /\ \A x \in ledger' \ ledger : /\ x.task = t /\ x.kind # "task_reversal"
                                      /\ x.cycle <= task'[t].settledAt
       /\ \A x \in ledger : x.task = t /\ task'[t].settledAt # Null => x.cycle <= task'[t].settledAt
  BY <1>1, <1>2, <1>3, <1>4, <1>5 DEF BillingInv, SettlementIsNewest, InSettlement, Stamps
<1>13. ledger \subseteq ledger' /\ ledger' \subseteq Row
  BY <1>4 DEF Inv, TypeOK
<1> HIDE DEF t
<1> QED BY <1>1, <1>7, <1>8, <1>9, <1>10, <1>11, <1>12, <1>13, TaskStep DEF t

\* Taking every line of a task off its drafts leaves the lines of the others, and
\* deletes no draft with a line on it.
LEMMA TakenOff ==
    ASSUME TypeOK, NEW t \in Tasks, RemoveLines(LinesOf(t)),
           \A l \in LinesOf(t) : invoice[line[l].invoice].state = "draft"
    PROVE  /\ LinesOf(t)' = {} /\ InvoicesStay
           /\ \A u \in Tasks : u # t => /\ LinesOf(u)' = LinesOf(u)
                                        /\ \A l \in LinesOf(u) : line'[l] = line[l]
<1>1. Removable(LinesOf(t)) = LinesOf(t)
  BY DEF Removable, Editable
<1>2. \A l \in LineIds : /\ l \in LinesOf(t) => line'[l] = [line[l] EXCEPT !.state = "removed"]
                         /\ l \notin LinesOf(t) => line'[l] = line[l]
  BY <1>1 DEF RemoveLines
<1>3. \A l \in LineIds : l \in LinesOf(t) => line'[l].state = "removed"
  <2>1. \A l \in LineIds : [line[l] EXCEPT !.state = "removed"].state = "removed"
    BY DEF TypeOK, Line
  <2> HIDE DEF LinesOf
  <2> QED BY <1>2, <2>1
<1>4. LinesOf(t)' = {}
  <2>1. ASSUME NEW l \in LineIds, line'[l].state = "on", line'[l].task = t PROVE FALSE
    <3>1. l \notin LinesOf(t)
      BY <1>3, <2>1
    <3>2. line'[l] = line[l]
      BY <1>2, <3>1
    <3> QED BY <2>1, <3>1, <3>2 DEF LinesOf
  <2> QED BY <2>1 DEF LinesOf
<1>5. ASSUME NEW u \in Tasks, u # t
      PROVE  LinesOf(u)' = LinesOf(u) /\ \A l \in LinesOf(u) : line'[l] = line[l]
  <2>1. \A l \in LinesOf(u) : l \in LineIds /\ l \notin LinesOf(t)
    BY <1>5 DEF LinesOf
  <2>2. \A l \in LinesOf(u) : line'[l] = line[l]
    BY <1>2, <2>1
  <2>3. ASSUME NEW l \in LineIds, line'[l].state = "on", line'[l].task = u
        PROVE  l \in LinesOf(u)
    <3>1. l \notin LinesOf(t)
      BY <1>3, <2>3
    <3> QED BY <1>2, <2>3, <3>1 DEF LinesOf
  <2>4. LinesOf(u)' \subseteq LinesOf(u)
    BY <2>3 DEF LinesOf
  <2>5. LinesOf(u) \subseteq LinesOf(u)'
    BY <2>2 DEF LinesOf
  <2> QED BY <2>2, <2>4, <2>5
<1>6. InvoicesStay
  <2> SUFFICES ASSUME NEW i \in InvoiceIds, invoice'[i].state # invoice[i].state
               PROVE  /\ invoice[i].state = "draft" /\ invoice'[i].state = "deleted"
                      /\ \A l \in LineIds : line'[l].state = "on" => line'[l].invoice # i
    BY DEF InvoicesStay
  <2>1. /\ \E l \in LinesOf(t) : line[l].invoice = i
        /\ {l \in LineIds \ LinesOf(t) : line[l].state = "on" /\ line[l].invoice = i} = {}
        /\ invoice'[i] = [invoice[i] EXCEPT !.state = "deleted"]
    BY <1>1 DEF RemoveLines
  <2>2. invoice[i].state = "draft" /\ invoice'[i].state = "deleted"
    BY <2>1 DEF TypeOK, Invoice
  <2>3. ASSUME NEW l \in LineIds, line'[l].state = "on" PROVE line'[l].invoice # i
    <3>1. l \notin LinesOf(t)
      BY <1>3, <2>3
    <3> QED BY <1>2, <2>1, <2>3, <3>1
  <2> QED BY <2>2, <2>3
<1> QED BY <1>4, <1>5, <1>6

\* A reopen takes the line off, and refunds what its own settlement took.
LEMMA UndoBills ==
    ASSUME Inv, Inv', BillingInv, NEW w \in Workers, Undo(w)
    PROVE  BillingInv'
<1>1. PICK r : /\ r = req[w] /\ r.task \in Tasks /\ r.client \in Clients /\ r.cycle \in Stamps
               /\ At(w, "undo") /\ Busy(w) /\ TaskOf(req[w]) = r.task
  BY RequestFields DEF Inv, Undo, At, Busy, TaskOf
<1> DEFINE t == r.task
<1>2. /\ task[t].settledAt = r.cycle /\ ~ReopenBlocked(t) /\ r.cycle # Null
      /\ req' = [req EXCEPT ![w] = Idle]
  BY <1>1 DEF BillingInv, RequestFits, InSettlement, Undo, Goto, Stamps, Null
<1>3. req'[w] = Idle /\ \A v \in Workers : v # w => req'[v] = req[v]
  BY <1>2 DEF Inv, TypeOK
<1>4. CASE UNCHANGED <<balance, ledger, task, invoice, line>>
  <2> HIDE DEF t
  <2> QED BY <1>1, <1>3, <1>4, EndFits, ReadingStep DEF t
<1>5. ASSUME \A x \in Surpluses(t, r.cycle) : ~SurplusWithdrawn(x),
             task' = Reopened(t), NEW refund \in Refunds(r),
             ledger' = ledger \union ReversalRows(r, refund),
             RemoveLines(LinesOf(t))
      PROVE  BillingInv'
  <2>1. \A l \in LinesOf(t) : invoice[line[l].invoice].state = "draft"
    BY <1>1, <1>2 DEF BillingInv, LineFits, Exists, ReopenBlocked, Emitted
  <2>2. /\ LinesOf(t)' = {} /\ InvoicesStay
        /\ \A u \in Tasks : u # t => /\ LinesOf(u)' = LinesOf(u)
                                     /\ \A l \in LinesOf(u) : line'[l] = line[l]
    BY <1>1, <1>5, <2>1, TakenOff DEF Inv
  <2>3. /\ task'[t].settledAt = Null /\ task'[t].overageInvoice = Null
        /\ \A u \in Tasks : u # t => task'[u] = task[u]
    BY <1>1, <1>5 DEF Reopened, Inv, TypeOK, Task
  <2>4. LineFits(t)' /\ LinkFits(t)'
    BY <2>2, <2>3 DEF LineFits, LinkFits
  <2>5. \A x \in ReversalRows(r, refund) :
           /\ x.task = t
           /\ x.kind = "task_reversal" => refund > 0 /\ x.cycle = r.cycle /\ x.delta = refund
    BY DEF ReversalRows, ReversalEntry
  <2>6. \A u \in Tasks : u # t => SameBilling(u)
    BY <1>5, <2>2, <2>3, <2>5 DEF SameBilling
  <2>7. refund > 0 =>
           \E x \in ledger : /\ x.kind = "task_consumption" /\ x.task = t /\ x.cycle = r.cycle
                             /\ refund = -x.delta
    <3> SUFFICES ASSUME refund > 0
                 PROVE  \E x \in ledger : /\ x.kind = "task_consumption" /\ x.task = t
                                          /\ x.cycle = r.cycle /\ refund = -x.delta
      OBVIOUS
    <3>1. PICK x \in Newest(Consumption(t, r.cycle)) : refund = -x.delta
      BY DEF Refunds
    <3>2. /\ x \in ledger /\ x.kind = "task_consumption" /\ x.task = t /\ x.cycle >= r.cycle
      BY DEF Newest, Consumption, Rows
    <3>3. x.cycle <= r.cycle /\ x.cycle \in Int
      BY <1>2, <3>2 DEF BillingInv, SettlementIsNewest, Inv, TypeOK, Row, Stamps
    <3> QED BY <1>1, <3>1, <3>2, <3>3 DEF Stamps
  <2>8. \A y \in ledger' \ ledger : y.kind = "task_reversal" =>
           \E x \in ledger : ChargeOf(x, y) /\ y.delta = -x.delta
    BY <1>5, <2>5, <2>7 DEF ChargeOf
  <2>9. ledger \subseteq ledger' /\ ledger' \subseteq Row /\ \A x \in ledger' \ ledger : x.task = t
    BY <1>5, <2>5 DEF Inv, TypeOK
  <2> HIDE DEF t
  <2> QED BY <1>1, <1>3, <2>2, <2>3, <2>4, <2>6, <2>8, <2>9, EndFits, TaskStep DEF t
<1> QED BY <1>1, <1>4, <1>5 DEF Undo

(***************************************************************************)
(* Staff, time and faults.                                                 *)
(***************************************************************************)

\* Editing a task, and a new month, leave the billing alone.
LEMMA EditOrMonthBills ==
    ASSUME Inv, BillingInv, (\E t \in Tasks : EditTask(t)) \/ NextMonth
    PROVE  BillingInv'
<1>1. UNCHANGED <<ledger, invoice, line, req>>
  BY DEF EditTask, NextMonth
<1>2. \A u \in Tasks : /\ task'[u].settledAt = task[u].settledAt
                       /\ task'[u].overageInvoice = task[u].overageInvoice
  BY DEF EditTask, NextMonth, Inv, TypeOK, Task
<1>3. InvoicesStay /\ \A u \in Tasks : SameBilling(u)
  BY <1>1, <1>2 DEF InvoicesStay, SameBilling, LinesOf
<1>4. OneAtATime'
  BY <1>1 DEF BillingInv, OneAtATime, Busy, At, TaskOf
<1> QED BY <1>1, <1>3, <1>4, NoTaskStep DEF Inv

\* A request that ends where it is leaves the tables as they are.
LEMMA CrashBills ==
    ASSUME Inv, BillingInv, NEW w \in Workers, Crash(w)
    PROVE  BillingInv'
<1>1. /\ req'[w] = Idle /\ \A v \in Workers : v # w => req'[v] = req[v]
      /\ UNCHANGED <<ledger, task, invoice, line>>
  BY DEF Crash, Goto, Inv, TypeOK
<1>2. InvoicesStay /\ \A u \in Tasks : SameBilling(u)
  BY <1>1 DEF InvoicesStay, SameBilling, LinesOf
<1>3. OneAtATime'
  BY <1>1 DEF BillingInv, OneAtATime, Busy, At, TaskOf, Idle
<1>4. \A v \in Workers : req'[v] = req[v] \/ RequestFits(v)'
  BY <1>1, EndFits
<1> QED BY <1>1, <1>2, <1>3, <1>4, NoTaskStep DEF Inv

\* What is left to show of a step that staff take while no request runs: what it
\* does to the lines and links.
LEMMA StaffStep ==
    ASSUME Inv, BillingInv, NEW w \in Workers,
           \A v \in Workers : v # w => At(v, "idle") /\ req'[v] = req[v],
           req'[w].pc \in {"idle", "delete"}, ledger' = ledger,
           \A t \in Tasks : task'[t].settledAt = task[t].settledAt,
           \A t \in Tasks : LineFits(t)' /\ LinkFits(t)'
    PROVE  BillingInv'
<1>1. OneAtATime' /\ \A v \in Workers : RequestFits(v)'
  BY DEF OneAtATime, Busy, At, RequestFits
<1>2. SettlementIsNewest'
  BY DEF BillingInv, SettlementIsNewest, Inv, TypeOK, Row
<1>3. RefundMatchesCharge'
  BY DEF BillingInv, RefundMatchesCharge, ChargeOf
<1> QED BY <1>1, <1>2, <1>3 DEF BillingInv

\* Sending or pushing an invoice changes no line.
LEMMA EmitBills ==
    ASSUME Inv, BillingInv, TakeTurns, NEW i \in InvoiceIds, SendInvoice(i) \/ PushToKeez(i)
    PROVE  BillingInv'
<1>1. /\ \A v \in Workers : At(v, "idle") /\ req'[v] = req[v]
      /\ UNCHANGED <<ledger, task, line>>
  BY DEF SendInvoice, PushToKeez, MayInvoice, TakeTurns
<1>2. \A j \in InvoiceIds : Exists(j) => Exists(j)'
  BY DEF SendInvoice, PushToKeez, Exists, Inv, TypeOK, Invoice
<1>3. ASSUME NEW t \in Tasks PROVE LineFits(t)' /\ LinkFits(t)'
  <2>1. LineFits(t) /\ LinkFits(t)
    BY DEF BillingInv
  <2>2. \A l \in LinesOf(t) : line[l].invoice \in InvoiceIds
    BY DEF LinesOf, Inv, TypeOK, Line
  <2>3. LinesOf(t)' = LinesOf(t)
    BY <1>1 DEF LinesOf
  <2>4. LinkFits(t)'
    BY <1>1, <2>1, <2>3 DEF LinkFits
  <2>5. LineFits(t)'
    <3>1. \A l \in LinesOf(t) : Exists(line[l].invoice)'
      BY <1>1, <1>2, <2>1, <2>2 DEF LineFits, Exists
    <3> QED BY <1>1, <2>1, <2>3, <3>1
            DEF LineFits, InSettlement, Traced, Traces, Rows, Exists
  <2> QED BY <2>4, <2>5
<1>4. OneAtATime' /\ \A v \in Workers : RequestFits(v)'
  BY <1>1 DEF OneAtATime, Busy, At, RequestFits
<1>5. SettlementIsNewest' /\ RefundMatchesCharge'
  BY <1>1 DEF BillingInv, SettlementIsNewest, RefundMatchesCharge, ChargeOf
<1> QED BY <1>3, <1>4, <1>5 DEF BillingInv

LEMMA CheckDraftBills ==
    ASSUME Inv, BillingInv, TakeTurns, NEW w \in Workers, NEW i \in InvoiceIds, CheckDraft(w, i)
    PROVE  BillingInv'
<1>1. /\ req'[w] = [pc |-> "delete", invoice |-> i]
      /\ \A v \in Workers : v # w => At(v, "idle") /\ req'[v] = req[v]
      /\ UNCHANGED <<ledger, task, invoice, line>>
  BY DEF CheckDraft, Goto, MayInvoice, TakeTurns, Inv, TypeOK
<1>2. \A t \in Tasks : LineFits(t)' /\ LinkFits(t)'
  <2>1. InvoicesStay /\ \A u \in Tasks : SameBilling(u)
    BY <1>1 DEF InvoicesStay, SameBilling, LinesOf
  <2> QED BY <1>1, <2>1, OtherTaskFits DEF BillingInv, Inv
<1> QED BY <1>1, <1>2, StaffStep

\* Deleting an invoice takes its lines and the links to it at once.
LEMMA DeleteInvoiceBills ==
    ASSUME Inv, BillingInv, NEW w \in Workers, DeleteInvoice(w)
    PROVE  BillingInv'
<1>1. PICK i \in InvoiceIds : i = req[w].invoice /\ At(w, "delete")
  BY RequestFields DEF Inv, DeleteInvoice
<1>2. /\ req'[w] = Idle /\ ledger' = ledger
      /\ \A v \in Workers : v # w => At(v, "idle") /\ req'[v] = req[v]
  BY <1>1 DEF DeleteInvoice, Goto, BillingInv, OneAtATime, Inv, TypeOK
<1>3. /\ task' = Detached(i)
      /\ \A j \in InvoiceIds : j # i => invoice'[j] = invoice[j]
      /\ line' = [l \in LineIds |-> IF line[l].state = "on" /\ line[l].invoice = i
                                    THEN [line[l] EXCEPT !.state = "removed"] ELSE line[l]]
  BY <1>1 DEF DeleteInvoice, Inv, TypeOK
<1>4. \A t \in Tasks : /\ task'[t].settledAt = task[t].settledAt
                       /\ task'[t].overageInvoice = IF task[t].overageInvoice = i THEN Null
                                                    ELSE task[t].overageInvoice
  BY <1>3 DEF Detached, Inv, TypeOK, Task
<1>5. \A l \in LineIds : IF line[l].state = "on" /\ line[l].invoice = i
                         THEN line'[l].state = "removed" ELSE line'[l] = line[l]
  <2>1. \A l \in LineIds : [line[l] EXCEPT !.state = "removed"].state = "removed"
    BY DEF Inv, TypeOK, Line
  <2> QED BY <1>3, <2>1
<1>6. ASSUME NEW t \in Tasks PROVE LineFits(t)' /\ LinkFits(t)'
  <2>1. LineFits(t) /\ LinkFits(t) /\ Traces(t)' = Traces(t)
    BY <1>2, <1>4 DEF BillingInv, Traces, Rows
  <2>2. \A l \in LineIds : l \in LinesOf(t)' <=> l \in LinesOf(t) /\ line[l].invoice # i
    BY <1>5 DEF LinesOf
  <2>3. \A l \in LinesOf(t)' : line'[l] = line[l]
    BY <1>5, <2>2 DEF LinesOf
  <2>4. LinesOf(t) \subseteq LineIds /\ LinesOf(t)' \subseteq LineIds
    BY DEF LinesOf
  <2>5. LinkFits(t)'
    BY <1>4, <2>1, <2>2, <2>3, <2>4 DEF LinkFits
  <2>6. LineFits(t)'
    <3> SUFFICES ASSUME NEW l \in LinesOf(t)'
                 PROVE  /\ LinesOf(t)' = {l} /\ Exists(line[l].invoice)'
                        /\ InSettlement(t, line[l].cycle)' /\ Traced(t, line[l].minutes)'
      BY DEF LineFits
    <3>1. l \in LinesOf(t) /\ line[l].invoice # i /\ line'[l] = line[l]
          /\ line[l].invoice \in InvoiceIds
      BY <2>2, <2>3, <2>4 DEF Inv, TypeOK, Line
    <3>2. LinesOf(t)' = {l}
      BY <2>1, <2>2, <2>4, <3>1 DEF LineFits
    <3>3. Exists(line[l].invoice)' /\ InSettlement(t, line[l].cycle)'
      BY <1>3, <1>4, <2>1, <3>1 DEF LineFits, Exists, InSettlement
    <3>4. Traced(t, line[l].minutes)'
      BY <2>1, <3>1 DEF LineFits, Traced
    <3> QED BY <3>2, <3>3, <3>4
  <2> QED BY <2>5, <2>6
<1>7. req'[w].pc = "idle"
  BY <1>2 DEF Idle
<1> QED BY <1>2, <1>4, <1>6, <1>7, StaffStep

(***************************************************************************)
(* The theorems.                                                           *)
(***************************************************************************)

LEMMA InitBills == Init => BillingInv
<1> SUFFICES ASSUME Init PROVE BillingInv
  OBVIOUS
<1>1. \A w \in Workers : req[w] = Idle /\ Idle.pc = "idle"
  BY DEF Init, Idle
<1>2. \A t \in Tasks : LinesOf(t) = {} /\ task[t].overageInvoice = Null
  BY DEF Init, LinesOf
<1>3. \A x \in ledger : x.kind = "overage_invoiced" /\ x.cycle = 1 /\ x.task \in DOMAIN Legacy
  BY DEF Init, LegacyRow
<1>4. \A t \in DOMAIN Legacy : task[t].settledAt = 1
  BY TaskCreditAssumption DEF Init
<1>5. OneAtATime /\ \A w \in Workers : RequestFits(w)
  BY <1>1 DEF OneAtATime, RequestFits, Busy, At
<1>6. \A t \in Tasks : LineFits(t) /\ LinkFits(t)
  BY <1>2 DEF LineFits, LinkFits
<1>7. SettlementIsNewest /\ RefundMatchesCharge
  BY <1>3, <1>4 DEF SettlementIsNewest, RefundMatchesCharge
<1> QED BY <1>5, <1>6, <1>7 DEF BillingInv

\* Every step keeps the billing in order.
LEMMA StepBills == TakeTurns /\ Inv /\ Inv' /\ BillingInv /\ [Next]_vars => BillingInv'
<1> SUFFICES ASSUME TakeTurns, Inv, Inv', BillingInv, [Next]_vars PROVE BillingInv'
  OBVIOUS
<1>1. ASSUME NEW w \in Workers, RequestStep(w) PROVE BillingInv'
  <2>1. ~Retract(w)
    BY DEF Retract, BillingInv, RequestFits
  <2> QED BY <1>1, <2>1, ReadStatusBills, WriteStatusBills, SettleNowBills, ReadTaskBills,
          ConsumeBills, FindDraftBills, CreateDraftBills, AddLineBills, AttachBills,
          ReadSettlementBills, UndoBills, RegenerateBills, RelinkBills,
          CreditLegacySurplusBills, CheckDraftBills, DeleteInvoiceBills, CrashBills
      DEF RequestStep
<1>2. CASE (\E t \in Tasks : EditTask(t)) \/ NextMonth
  BY <1>2, EditOrMonthBills
<1>3. CASE \E i \in InvoiceIds : SendInvoice(i) \/ PushToKeez(i)
  BY <1>3, EmitBills
<1>4. CASE UNCHANGED vars
  <2>1. UNCHANGED <<balance, ledger, task, invoice, line, clock, month, req>>
    BY <1>4 DEF vars
  <2>2. InvoicesStay /\ OneAtATime' /\ \A u \in Tasks : SameBilling(u)
    BY <2>1 DEF InvoicesStay, SameBilling, LinesOf, BillingInv, OneAtATime, Busy, At, TaskOf
  <2> QED BY <2>1, <2>2, NoTaskStep DEF Inv
<1> QED BY <1>1, <1>2, <1>3, <1>4 DEF Next

\* The invoice, the ledger and the task agree wherever requests take turns.
THEOREM BillingIsInvariant == ASSUME TakeTurns PROVE Spec => [](Inv /\ BillingInv)
<1>1. Init => Inv /\ BillingInv
  BY InitInv, InitBills
<1>2. (Inv /\ BillingInv) /\ [Next]_vars => (Inv /\ BillingInv)'
  BY StepInv, StepBills
<1> QED BY <1>1, <1>2, PTL DEF Spec

\* An overage is on the invoice its task points to or listed as unbilled: no crash,
\* stale card, move or deleted invoice loses it.
THEOREM OveragesAreAccountedFor == ASSUME TakeTurns PROVE Spec => []OverageAccountedFor
<1>1. Inv /\ BillingInv => OverageAccountedFor
  BY DEF BillingInv, LinkFits, OverageAccountedFor, Unbilled
<1> QED BY <1>1, BillingIsInvariant, PTL

\* An overage is billed once: the line of a task is one, and of its settlement.
THEOREM OveragesAreBilledOnce == ASSUME TakeTurns PROVE Spec => []OneLinePerSettlement
<1>1. BillingInv => OneLinePerSettlement
  <2> SUFFICES ASSUME BillingInv, NEW t \in Tasks,
                      NEW l \in LinesOf(t), Editable(line[l].invoice)
               PROVE  /\ {k \in LinesOf(t) : Editable(line[k].invoice)} = {l}
                      /\ line[l].cycle = task[t].settledAt
                      /\ \E x \in Traces(t) : InvoicedOverage(x.real) = line[l].minutes
    BY DEF OneLinePerSettlement
  <2>1. LinesOf(t) = {l} /\ InSettlement(t, line[l].cycle) /\ Traced(t, line[l].minutes)
    BY DEF BillingInv, LineFits
  <2> QED BY <2>1 DEF InSettlement, Traced
<1> QED BY <1>1, BillingIsInvariant, PTL

\* While an emitted invoice bills a task, the task is not reopened.
THEOREM EmittedTasksStaySettled == ASSUME TakeTurns PROVE Spec => []EmittedStaysSettled
<1>1. BillingInv => EmittedStaysSettled
  BY DEF BillingInv, LineFits, EmittedStaysSettled, InSettlement
<1> QED BY <1>1, BillingIsInvariant, PTL

\* A reopen gives back what its own settlement took.
THEOREM RefundsAreCharges == ASSUME TakeTurns PROVE Spec => []RefundMatchesCharge
<1>1. BillingInv => RefundMatchesCharge
  BY DEF BillingInv
<1> QED BY <1>1, BillingIsInvariant, PTL

\* Taking lines off touches only the lines of drafts.
LEMMA OnlyDraftLinesGo ==
    ASSUME TypeOK, NEW gone \in SUBSET LineIds, RemoveLines(gone), NEW l \in LineIds
    PROVE  \/ line'[l] = line[l]
           \/ line'[l].state = "removed" /\ Editable(line[l].invoice)
<1>1. line'[l] = line[l] \/ (l \in Removable(gone) /\ line'[l] = [line[l] EXCEPT !.state = "removed"])
  BY DEF RemoveLines
<1>2. [line[l] EXCEPT !.state = "removed"].state = "removed"
  BY DEF TypeOK, Line
<1> QED BY <1>1, <1>2 DEF Removable

\* What was emitted is what was invoiced: a request adds its line to a draft, a
\* reopen takes lines off drafts, and a deleted invoice takes its own lines.
THEOREM EmittedLinesStay == ASSUME TakeTurns PROVE Spec => EmittedLinesAreFixed
<1> DEFINE Kept(i, l) ==
             Emitted(i) /\ invoice'[i].state \in {"keez", "sent"} =>
                (line[l].state = "on" /\ line[l].invoice = i
                   <=> line'[l].state = "on" /\ line'[l].invoice = i)
<1>1. ASSUME Inv, BillingInv, Next, NEW i \in InvoiceIds, NEW l \in LineIds,
             Emitted(i), invoice'[i].state \in {"keez", "sent"}
      PROVE  line[l].state = "on" /\ line[l].invoice = i
                <=> line'[l].state = "on" /\ line'[l].invoice = i
  <2>1. CASE line' = line
    BY <2>1
  <2>2. CASE line' # line
    <3>1. PICK w \in Workers : AddLine(w) \/ Retract(w) \/ Undo(w) \/ DeleteInvoice(w)
      <4>1. PICK w \in Workers : RequestStep(w)
        BY <1>1, <2>2 DEF Next, EditTask, SendInvoice, PushToKeez, NextMonth
      <4>2. ASSUME NEW t \in Tasks, NEW old \in {"open", "done"}, NEW new \in {"open", "done"},
                   ReadStatus(w, t, old, new) \/ SettleNow(w, t) \/ Regenerate(w, t)
            PROVE  line' = line
        BY <4>2 DEF ReadStatus, SettleNow, Regenerate
      <4>3. /\ WriteStatus(w) \/ ReadTask(w) \/ Consume(w) => line' = line
            /\ FindDraft(w) \/ CreateDraft(w) \/ Attach(w) => line' = line
            /\ ReadSettlement(w) \/ Relink(w) \/ CreditLegacySurplus(w) \/ Crash(w) => line' = line
        BY DEF WriteStatus, ReadTask, Consume, Available, FindDraft, CreateDraft, Attach, ReadSettlement,
               Relink, CreditLegacySurplus, Crash
      <4>4. ASSUME NEW i2 \in InvoiceIds, CheckDraft(w, i2) PROVE line' = line
        BY <4>4 DEF CheckDraft
      <4> QED BY <2>2, <4>1, <4>2, <4>3, <4>4, Zenon DEF RequestStep
    <3>2. CASE AddLine(w)
      <4> PICK r : r = req[w]
        OBVIOUS
      <4> DOMAIN line = LineIds
        BY <1>1 DEF Inv, TypeOK
      <4>1. PICK k \in LineIds :
               /\ line[k].state = "unused"
               /\ line' = [line EXCEPT ![k] = [state |-> "on", invoice |-> r.invoice,
                                               task |-> r.bill.task, cycle |-> r.bill.cycle,
                                               minutes |-> r.bill.minutes]]
        BY <2>2, <3>2 DEF AddLine, Fresh
      <4>2. r.invoice # i
        BY <1>1, <3>2, <4>1 DEF BillingInv, RequestFits, AddLine, Emitted
      <4>3. l # k => line'[l] = line[l]
        BY <4>1
      <4>4. line'[k].invoice = r.invoice
        BY <1>1, <4>1 DEF Inv, TypeOK
      <4> QED BY <4>1, <4>2, <4>3, <4>4
    <3>3. CASE Retract(w) \/ Undo(w)
      <4>1. PICK gone \in SUBSET LineIds : RemoveLines(gone)
        BY <2>2, <3>3 DEF Retract, Undo, LinesOf
      <4> QED BY <1>1, <4>1, OnlyDraftLinesGo DEF Inv, Editable, Emitted
    <3>4. CASE DeleteInvoice(w)
      <4>1. PICK j \in InvoiceIds : j = req[w].invoice
        BY <1>1, <3>4, RequestFields DEF Inv, DeleteInvoice
      <4>2. j # i
        BY <1>1, <3>4, <4>1 DEF DeleteInvoice, Inv, TypeOK, Invoice
      <4>3. line'[l] = line[l] \/ (/\ line[l].invoice = j
                                   /\ line'[l] = [line[l] EXCEPT !.state = "removed"])
        BY <3>4, <4>1 DEF DeleteInvoice
      <4>4. [line[l] EXCEPT !.state = "removed"].state = "removed"
        BY <1>1 DEF Inv, TypeOK, Line
      <4> QED BY <4>2, <4>3, <4>4
    <3> QED BY <3>1, <3>2, <3>3, <3>4
  <2> QED BY <2>1, <2>2
<1>2. Inv /\ BillingInv /\ [Next]_vars => [\A i \in InvoiceIds, l \in LineIds : Kept(i, l)]_vars
  BY <1>1
<1> QED BY <1>2, BillingIsInvariant, PTL DEF EmittedLinesAreFixed, Spec

(***************************************************************************)
(* What the promise needs besides: a task keeps its client, and its        *)
(* settlement one charge.                                                  *)
(***************************************************************************)

Worked == Actuals \union {Legacy[t] : t \in DOMAIN Legacy}

OwnersStay ==
    /\ \A t \in Tasks : task[t].client = Owner[t] /\ task[t].actual \in Worked \union {0}
    /\ \A x \in ledger : x.client = Owner[x.task]
    /\ \A w \in Workers :
          /\ At(w, "settle") => req[w].given \in Worked \union {0}
          /\ At(w, "consume") => req[w].actual \in Worked
          /\ At(w, "consume") \/ At(w, "undo") => req[w].client = Owner[req[w].task]
          /\ At(w, "surplus") => req[w].bill.client = Owner[req[w].bill.task]

OneCharge ==
    \A x, y \in ledger :
        x.kind = "task_consumption" /\ y.kind = "task_consumption"
        /\ x.task = y.task /\ x.cycle = y.cycle => x = y

\* A step that neither settles nor reopens, and reads nothing towards it.
LEMMA OwnersStayQuiet ==
    ASSUME OwnersStay, OneCharge, ledger' = ledger,
           \A t \in Tasks : task'[t].client = task[t].client /\ task'[t].actual = task[t].actual,
           \A w \in Workers :
              req'[w] = req[w] \/ req'[w].pc \notin {"settle", "consume", "undo", "surplus"}
    PROVE  OwnersStay' /\ OneCharge'
<1>1. OneCharge'
  BY DEF OneCharge
<1>2. OwnersStay'
  BY DEF OwnersStay, At
<1> QED BY <1>1, <1>2

\* A step of one request that reads towards a settlement or a reopen.
LEMMA OwnersStayReading ==
    ASSUME OwnersStay, OneCharge, NEW w \in Workers, ledger' = ledger,
           \A v \in Workers : v # w => req'[v] = req[v],
           \A t \in Tasks : task'[t].client = task[t].client /\ task'[t].actual = task[t].actual,
           req'[w].pc = "settle" => req'[w].given \in Worked \union {0},
           req'[w].pc = "consume" => req'[w].actual \in Worked,
           req'[w].pc \in {"consume", "undo"} => req'[w].client = Owner[req'[w].task],
           req'[w].pc = "surplus" => req'[w].bill.client = Owner[req'[w].bill.task]
    PROVE  OwnersStay' /\ OneCharge'
<1>1. OneCharge'
  BY DEF OneCharge
<1>2. \A v \in Workers : v # w => (At(v, "settle")' <=> At(v, "settle"))
                               /\ (At(v, "consume")' <=> At(v, "consume"))
                               /\ (At(v, "undo")' <=> At(v, "undo"))
                               /\ (At(v, "surplus")' <=> At(v, "surplus"))
  BY DEF At
<1>3. OwnersStay'
  BY <1>2 DEF OwnersStay, At
<1> QED BY <1>1, <1>3

LEMMA StepKeepsOwners ==
    ASSUME Inv, BillingInv, OwnersStay, OneCharge, Next, "move" \notin Env
    PROVE  OwnersStay' /\ OneCharge'
<1> TypeOK
  BY DEF Inv
<1>1. ASSUME NEW w \in Workers, NEW t \in Tasks, NEW old \in {"open", "done"},
             NEW new \in {"open", "done"}, ReadStatus(w, t, old, new)
      PROVE  OwnersStay' /\ OneCharge'
  <2>1. req'[w].pc = "status" /\ \A v \in Workers : v # w => req'[v] = req[v]
    BY <1>1 DEF ReadStatus, Goto, TypeOK
  <2> QED BY <1>1, <2>1, OwnersStayReading DEF ReadStatus
<1>13. ASSUME NEW w \in Workers, NEW t \in Tasks, SettleNow(w, t)
      PROVE  OwnersStay' /\ OneCharge'
  <2>1. PICK minutes \in Worked \union {0} :
           req' = [req EXCEPT ![w] = [pc |-> "settle", task |-> t, given |-> minutes]]
    BY <1>13 DEF SettleNow, Goto, Worked
  <2>2. /\ req'[w].pc = "settle" /\ req'[w].given = minutes
        /\ \A v \in Workers : v # w => req'[v] = req[v]
    BY <2>1 DEF TypeOK
  <2> QED BY <1>13, <2>2, OwnersStayReading DEF SettleNow
<1>2. ASSUME NEW w \in Workers, WriteStatus(w) PROVE OwnersStay' /\ OneCharge'
  <2>1. PICK r : /\ r \in {[pc |-> "settle", task |-> req[w].task, given |-> 0],
                           [pc |-> "reverse", task |-> req[w].task], Idle}
                 /\ req' = [req EXCEPT ![w] = r]
    BY <1>2 DEF WriteStatus, Goto
  <2>2. req'[w] = r /\ \A v \in Workers : v # w => req'[v] = req[v]
    BY <2>1 DEF TypeOK
  <2>3. req'[w].pc \in {"idle", "settle", "reverse"} /\ (req'[w].pc = "settle" => req'[w].given = 0)
    BY <2>1, <2>2 DEF Idle
  <2>4. ledger' = ledger /\ \A t \in Tasks : task'[t].client = task[t].client
                                             /\ task'[t].actual = task[t].actual
    BY <1>2 DEF WriteStatus, TypeOK, Task
  <2> QED BY <2>2, <2>3, <2>4, OwnersStayReading
<1>3. ASSUME NEW t \in Tasks, EditTask(t) PROVE OwnersStay' /\ OneCharge'
  <2>1. PICK minutes \in Actuals : task' = [task EXCEPT ![t].actual = minutes]
    BY <1>3 DEF EditTask
  <2>2. \A u \in Tasks : task'[u].client = task[u].client
                         /\ (task'[u].actual = task[u].actual \/ task'[u].actual = minutes)
    BY <2>1 DEF TypeOK, Task
  <2>3. UNCHANGED <<ledger, req>>
    BY <1>3 DEF EditTask
  <2> QED BY <2>2, <2>3 DEF OwnersStay, OneCharge, Worked, At
<1>4. ASSUME NEW w \in Workers, ReadTask(w) PROVE OwnersStay' /\ OneCharge'
  <2>1. PICK t, given :
           t \in Tasks /\ t = req[w].task /\ given = req[w].given /\ given \in Worked \union {0}
    BY <1>4, RequestFields DEF ReadTask, OwnersStay
  <2>2. PICK actual : /\ actual = (IF given > 0 THEN given ELSE task[t].actual)
                      /\ actual \in Worked \union {0}
    BY <2>1 DEF OwnersStay
  <2>3. PICK r : /\ req' = [req EXCEPT ![w] = r]
                 /\ \/ r = Idle
                    \/ /\ actual > 0
                       /\ r = [pc |-> "consume", task |-> t, client |-> task[t].client,
                               cycle |-> clock, actual |-> actual, month |-> month]
    BY <1>4, <2>1, <2>2 DEF ReadTask, Goto, Settleable
  <2>4. req'[w] = r /\ (\A v \in Workers : v # w => req'[v] = req[v]) /\ UNCHANGED <<ledger, task>>
    BY <1>4, <2>3 DEF ReadTask, TypeOK
  <2>5. r.pc \in {"idle", "consume"} /\ (r.pc = "consume" => /\ r.actual \in Worked
                                                           /\ r.client = Owner[r.task])
    BY <2>1, <2>2, <2>3 DEF Idle, OwnersStay
  <2> QED BY <2>4, <2>5, OwnersStayReading
<1>5. ASSUME NEW w \in Workers, ReadSettlement(w) PROVE OwnersStay' /\ OneCharge'
  <2>1. PICK t \in Tasks : t = req[w].task
    BY <1>5, RequestFields DEF ReadSettlement
  <2>2. PICK r : /\ req' = [req EXCEPT ![w] = r]
                 /\ \/ r = Idle
                    \/ r = [pc |-> "undo", task |-> t, client |-> task[t].client,
                            cycle |-> task[t].settledAt]
    BY <1>5, <2>1 DEF ReadSettlement, Goto
  <2>3. req'[w] = r /\ (\A v \in Workers : v # w => req'[v] = req[v]) /\ UNCHANGED <<ledger, task>>
    BY <1>5, <2>2 DEF ReadSettlement, TypeOK
  <2>4. r.pc \in {"idle", "undo"} /\ (r.pc = "undo" => r.client = Owner[r.task])
    BY <2>1, <2>2 DEF Idle, OwnersStay
  <2> QED BY <2>3, <2>4, OwnersStayReading
<1>6. ASSUME NEW w \in Workers, NEW t \in Tasks, Regenerate(w, t) PROVE OwnersStay' /\ OneCharge'
  <2>1. PICK trace, bill :
           /\ trace \in Newest(Traces(t))
           /\ bill = [task |-> t, client |-> task[t].client, cycle |-> task[t].settledAt,
                      minutes |-> InvoicedOverage(trace.real), month |-> month]
           /\ \/ \E l \in LinesOf(t) :
                    req' = [req EXCEPT ![w] = [pc |-> "relink", task |-> t,
                                               cycle |-> task[t].settledAt,
                                               invoice |-> line[l].invoice]]
              \/ req' = [req EXCEPT ![w] = [pc |-> "surplus", bill |-> bill, trace |-> trace]]
              \/ req' = [req EXCEPT ![w] = [pc |-> "find", bill |-> bill]]
    BY <1>6 DEF Regenerate, Goto
  <2>2. /\ req'[w].pc \in {"relink", "find", "surplus"}
        /\ req'[w].pc = "surplus" => req'[w].bill = bill
        /\ \A v \in Workers : v # w => req'[v] = req[v]
    BY <2>1 DEF TypeOK
  <2>3. bill.client = task[t].client /\ bill.task = t
    BY <2>1
  <2>4. UNCHANGED <<ledger, task>>
    BY <1>6 DEF Regenerate
  <2> QED BY <2>2, <2>3, <2>4, OwnersStayReading DEF OwnersStay
<1>7. ASSUME NEW w \in Workers, Consume(w) PROVE OwnersStay' /\ OneCharge'
  <2>1. PICK r : /\ r = req[w] /\ r.task \in Tasks /\ r.client \in Clients /\ r.cycle \in Stamps
                 /\ r.actual \in Nat \ {0} /\ balance[r.client] \in Int
                 /\ r.client = Owner[r.task] /\ r.actual \in Worked
                 /\ \A x \in ledger : x.cycle # r.cycle
    BY <1>7, RequestFields DEF Inv, Consume, Available, TypeOK, At, StampsAreFresh, OwnersStay
  <2>2. PICK s : s = Split(r.actual, balance[r.client])
    OBVIOUS
  <2>3. req'[w].pc \in {"idle", "find"} /\ \A v \in Workers : v # w => req'[v] = req[v]
    <3>1. PICK bill : req' = [req EXCEPT ![w] = Idle]
                      \/ req' = [req EXCEPT ![w] = [pc |-> "find", bill |-> bill]]
      BY <1>7 DEF Consume, Available, Goto
    <3> QED BY <3>1 DEF TypeOK, Idle
  <2>4. CASE UNCHANGED <<ledger, task>>
    BY <2>3, <2>4, OwnersStayReading
  <2>5. CASE /\ task' = [task EXCEPT ![r.task].actual = r.actual, ![r.task].settledAt = r.cycle]
             /\ ledger' = ledger \union SettlementRows(r, s)
    <3>1. \A x \in SettlementRows(r, s) : x.task = r.task /\ x.cycle = r.cycle
      BY <2>1, <2>2, SettlementRowsAre
    <3>2. \A x \in SettlementRows(r, s) : x.client = r.client
      BY DEF SettlementRows, SettlementEntry
    <3>3. \A x, y \in SettlementRows(r, s) :
             x.kind = "task_consumption" /\ y.kind = "task_consumption" => x = y
      BY DEF SettlementRows, SettlementEntry
    <3>4. OneCharge'
      <4> SUFFICES ASSUME NEW x \in ledger', NEW y \in ledger',
                          x.kind = "task_consumption", y.kind = "task_consumption",
                          x.task = y.task, x.cycle = y.cycle
                   PROVE  x = y
        BY DEF OneCharge
      <4>1. (x \in ledger <=> x.cycle # r.cycle) /\ (y \in ledger <=> y.cycle # r.cycle)
        BY <2>1, <2>5, <3>1
      <4>2. CASE x \in ledger /\ y \in ledger
        BY <4>2 DEF OneCharge
      <4>3. CASE x \in SettlementRows(r, s) /\ y \in SettlementRows(r, s)
        BY <3>3, <4>3
      <4> QED BY <2>5, <4>1, <4>2, <4>3
    <3>5. \A t \in Tasks : task'[t].client = task[t].client
                           /\ (task'[t].actual = task[t].actual \/ task'[t].actual = r.actual)
      BY <2>1, <2>5 DEF TypeOK, Task
    <3>6. \A x \in ledger' : x.client = Owner[x.task]
      BY <2>1, <2>5, <3>1, <3>2 DEF OwnersStay
    <3>7. OwnersStay'
      <4>1. \A v \in Workers : req'[v] = req[v] \/ req'[v].pc \in {"idle", "find"}
        BY <2>3
      <4> HIDE DEF Worked
      <4> QED BY <2>1, <3>5, <3>6, <4>1 DEF OwnersStay, At
    <3> QED BY <3>4, <3>7
  <2> QED BY <1>7, <2>1, <2>2, <2>4, <2>5 DEF Consume, Available
<1>8. ASSUME NEW w \in Workers, Undo(w) PROVE OwnersStay' /\ OneCharge'
  <2>1. PICK r : /\ r = req[w] /\ r.task \in Tasks /\ r.client = Owner[r.task]
    BY <1>8, RequestFields DEF Undo, OwnersStay
  <2>2. req'[w].pc = "idle" /\ \A v \in Workers : v # w => req'[v] = req[v]
    BY <1>8 DEF Undo, Goto, Idle, TypeOK
  <2>3. CASE UNCHANGED <<ledger, task>>
    BY <2>2, <2>3, OwnersStayReading
  <2>4. ASSUME task' = Reopened(r.task),
               NEW refund, ledger' = ledger \union ReversalRows(r, refund)
        PROVE  OwnersStay' /\ OneCharge'
    <3>1. \A x \in ReversalRows(r, refund) :
             x.task = r.task /\ x.client = r.client /\ x.kind # "task_consumption"
      BY DEF ReversalRows, ReversalEntry
    <3>2. OneCharge'
      <4>1. \A x \in ledger' : x.kind = "task_consumption" => x \in ledger
        BY <2>4, <3>1
      <4> QED BY <4>1 DEF OneCharge
    <3>3. \A t \in Tasks : task'[t].client = task[t].client /\ task'[t].actual = task[t].actual
      BY <2>1, <2>4 DEF Reopened, TypeOK, Task
    <3>4. \A v \in Workers : req'[v] = req[v] \/ req'[v].pc = "idle"
      BY <2>2
    <3>5. \A x \in ledger' : x.client = Owner[x.task]
      BY <2>1, <2>4, <3>1 DEF OwnersStay
    <3>6. OwnersStay'
      BY <3>3, <3>4, <3>5 DEF OwnersStay, At
    <3> QED BY <3>2, <3>6
  <2> QED BY <1>8, <2>1, <2>3, <2>4 DEF Undo
<1>9. ASSUME NEW w \in Workers, CreditLegacySurplus(w) PROVE OwnersStay' /\ OneCharge'
  <2>1. PICK b : b = req[w].bill /\ b.client = Owner[b.task]
    BY <1>9 DEF CreditLegacySurplus, OwnersStay
  <2>2. req'[w].pc \in {"idle", "find"} /\ \A v \in Workers : v # w => req'[v] = req[v]
    <3>1. PICK bill : req' = [req EXCEPT ![w] = Idle]
                      \/ req' = [req EXCEPT ![w] = [pc |-> "find", bill |-> bill]]
      BY <1>9 DEF CreditLegacySurplus, Goto
    <3> QED BY <3>1 DEF TypeOK, Idle
  <2>3. /\ task' = task
        /\ \A x \in ledger' : x \in ledger \/ (/\ x.kind = "purchase" /\ x.task = b.task
                                               /\ x.client = b.client)
    BY <1>9, <2>1 DEF CreditLegacySurplus
  <2>4. OneCharge'
    <3>1. \A x \in ledger' : x.kind = "task_consumption" => x \in ledger
      BY <2>3
    <3> QED BY <3>1 DEF OneCharge
  <2>5. \A v \in Workers : req'[v] = req[v] \/ req'[v].pc \in {"idle", "find"}
    BY <2>2
  <2>6. OwnersStay'
    BY <2>1, <2>3, <2>5 DEF OwnersStay, At
  <2> QED BY <2>4, <2>6
<1>10. ASSUME NEW w \in Workers,
              FindDraft(w) \/ CreateDraft(w) \/ AddLine(w) \/ Retract(w) \/ Crash(w)
              \/ \E i \in InvoiceIds : CheckDraft(w, i)
       PROVE  OwnersStay' /\ OneCharge'
  <2>1. UNCHANGED <<ledger, task>>
    BY <1>10 DEF FindDraft, CreateDraft, AddLine, Retract, Crash, CheckDraft
  <2>2. PICK b, m, i, l :
           \/ req' = [req EXCEPT ![w] = [pc |-> "line", bill |-> b, invoice |-> i]]
           \/ req' = [req EXCEPT ![w] = [pc |-> "create", bill |-> b, month |-> m]]
           \/ req' = [req EXCEPT ![w] = [pc |-> "attach", bill |-> b, invoice |-> i, line |-> l]]
           \/ req' = [req EXCEPT ![w] = [pc |-> "delete", invoice |-> i]]
           \/ req' = [req EXCEPT ![w] = Idle]
    BY <1>10 DEF FindDraft, CreateDraft, AddLine, Retract, Crash, CheckDraft, Goto
  <2>3. /\ req'[w].pc \in {"idle", "line", "create", "attach", "delete"}
        /\ \A v \in Workers : v # w => req'[v] = req[v]
    BY <2>2 DEF TypeOK, Idle
  <2> QED BY <2>1, <2>3, OwnersStayReading
<1>11. ASSUME NEW w \in Workers, Attach(w) \/ Relink(w) \/ DeleteInvoice(w)
       PROVE  OwnersStay' /\ OneCharge'
  <2>1. ledger' = ledger /\ \A t \in Tasks : task'[t].client = task[t].client
                                             /\ task'[t].actual = task[t].actual
    BY <1>11 DEF Attach, Relink, DeleteInvoice, Detached, TypeOK, Task
  <2>2. /\ \A v \in Workers : v # w => req'[v] = req[v]
        /\ req'[w] = Idle \/ (At(w, "attach") /\ req'[w] = [req[w] EXCEPT !.pc = "retract"])
    BY <1>11 DEF Attach, Relink, DeleteInvoice, Goto, TypeOK
  <2>3. req'[w].pc \in {"idle", "retract"}
    BY <2>2 DEF At, TypeOK, Request, Idle
  <2> QED BY <2>1, <2>2, <2>3, OwnersStayReading
<1>12. CASE NextMonth \/ \E i \in InvoiceIds : SendInvoice(i) \/ PushToKeez(i)
  <2>1. UNCHANGED <<ledger, task, req>>
    BY <1>12 DEF NextMonth, SendInvoice, PushToKeez
  <2> QED BY <2>1, OwnersStayQuiet
<1> QED BY <1>1, <1>13, <1>2, <1>3, <1>4, <1>5, <1>6, <1>7, <1>8, <1>9, <1>10, <1>11, <1>12
    DEF Next, RequestStep

(***************************************************************************)
(* What a task holds.                                                      *)
(***************************************************************************)

SettledRows(kind, t) ==
    {x \in ledger : x.kind = kind /\ x.task = t /\ x.cycle = task[t].settledAt}

MovedBy(rows) == IF rows = {} THEN 0 ELSE Some(rows).delta

Holding(client, consumptions, purchases) ==
    [client |-> client, taken |-> -MovedBy(consumptions), given |-> MovedBy(purchases)]

\* No row moves nothing, and one row its delta.
LEMMA MovedByFew ==
    /\ MovedBy({}) = 0
    /\ \A x : MovedBy({x}) = x.delta
<1>1. \A x : Some({x}) = x
  BY SomeIsIn
<1> QED BY <1>1 DEF MovedBy

\* A settled task holds what the rows of its settlement say, of its client.
LEMMA HeldIs ==
    Inv /\ OwnersStay => \A t \in Tasks :
       IF task[t].settledAt = Null THEN Held(t) = Free
       ELSE Held(t) = Holding(Owner[t], SettledRows("task_consumption", t), SettledRows("purchase", t))
<1> SUFFICES ASSUME Inv, OwnersStay, NEW t \in Tasks, task[t].settledAt # Null
             PROVE  Held(t) = Holding(Owner[t], SettledRows("task_consumption", t),
                                      SettledRows("purchase", t))
  BY DEF Held
<1>1. ChargedClient(t) = Owner[t]
  <2> DEFINE P(x) == /\ x.kind \in {"task_consumption", "overage_invoiced"}
                     /\ x.task = t /\ x.cycle = task[t].settledAt
             y == CHOOSE x \in ledger : P(x)
  <2>1. \E x \in ledger : P(x)
    BY DEF Inv, SettlementIsLive
  <2>2. y \in ledger /\ P(y)
    BY <2>1
  <2>3. y.client = Owner[t]
    BY <2>2 DEF OwnersStay
  <2> QED BY <2>3 DEF ChargedClient
<1>2. \A kind : Moved(kind, t) = MovedBy(SettledRows(kind, t))
  BY DEF Moved, MovedBy, SettledRows, Some
<1> QED BY <1>1, <1>2 DEF Held, Holding

LEMMA HeldWillBe ==
    (Inv /\ OwnersStay => \A t \in Tasks :
       IF task[t].settledAt = Null THEN Held(t) = Free
       ELSE Held(t) = Holding(Owner[t], SettledRows("task_consumption", t),
                              SettledRows("purchase", t)))'
  BY HeldIs, PTL

\* A charge and a surplus are one at most.
LEMMA RowsAreFew ==
    ASSUME Inv, OneCharge, NEW t \in Tasks
    PROVE  \A kind \in {"task_consumption", "purchase"} : \A x \in SettledRows(kind, t) :
              SettledRows(kind, t) = {x} /\ x.delta \in Int /\ x \in ledger
<1>1. \A kind \in {"task_consumption", "purchase"} : \A x, y \in SettledRows(kind, t) : x = y
  BY DEF SettledRows, OneCharge, Inv, SurplusHasTrace
<1>2. \A kind, x : x \in SettledRows(kind, t) => x \in ledger /\ x.delta \in Int
  BY DEF SettledRows, Inv, TypeOK, Row
<1> QED BY <1>1, <1>2

\* So what a task moved is a number, and what it holds is not Free.
LEMMA HoldsMinutes ==
    ASSUME Inv, OneCharge, NEW t \in Tasks
    PROVE  /\ \A kind \in {"task_consumption", "purchase"} : MovedBy(SettledRows(kind, t)) \in Int
           /\ Holding(Owner[t], SettledRows("task_consumption", t), SettledRows("purchase", t)) # Free
<1>1. ASSUME NEW kind \in {"task_consumption", "purchase"}
      PROVE  MovedBy(SettledRows(kind, t)) \in Int
  <2>1. CASE SettledRows(kind, t) = {}
    BY <2>1, MovedByFew
  <2>2. ASSUME NEW x \in SettledRows(kind, t) PROVE MovedBy(SettledRows(kind, t)) \in Int
    BY <2>2, RowsAreFew, MovedByFew
  <2> QED BY <2>1, <2>2
<1>2. PICK taken \in Int, given \in Int :
         /\ taken = -MovedBy(SettledRows("task_consumption", t))
         /\ given = MovedBy(SettledRows("purchase", t))
  BY <1>1
<1>3. Owner[t] \in Clients
  BY TaskCreditAssumption
<1>4. [client |-> Owner[t], taken |-> taken, given |-> given]
         \in [client : Clients, taken : Int, given : Int]
  BY <1>3
<1> QED BY <1>1, <1>2, <1>4, FreeAssumption DEF Holding

\* A task whose settlement is the same and gets no row holds the same.
LEMMA HoldsTheSame ==
    ASSUME Inv, Inv', OwnersStay, OwnersStay', NEW t \in Tasks, ledger \subseteq ledger',
           task'[t].settledAt = task[t].settledAt,
           \A x \in ledger' : x.task = t /\ x.kind \in {"task_consumption", "purchase"}
                                 => x \in ledger
    PROVE  Held(t)' = Held(t)
<1>1. /\ SettledRows("task_consumption", t)' = SettledRows("task_consumption", t)
      /\ SettledRows("purchase", t)' = SettledRows("purchase", t)
  BY DEF SettledRows
<1>2. CASE task[t].settledAt = Null
  BY <1>2, HeldIs, HeldWillBe
<1>3. CASE task[t].settledAt # Null
  <2>1. Held(t) = Holding(Owner[t], SettledRows("task_consumption", t), SettledRows("purchase", t))
    BY <1>3, HeldIs
  <2>2. Held(t)' = Holding(Owner[t], SettledRows("task_consumption", t)', SettledRows("purchase", t)')
    BY <1>3, HeldWillBe DEF Holding
  <2> QED BY <1>1, <2>1, <2>2
<1> QED BY <1>2, <1>3

\* The promise splits a settlement as the code does.
LEMMA SameSplit == \A actual, b : Promise!Split(actual, b) = Split(actual, b)
  BY DEF Promise!Split, Promise!CeilToStep, Promise!InvoicedOverage, Promise!RoundUp,
         Split, CeilToStep, InvoicedOverage, RoundUp

HeldAll == [t \in Tasks |-> Held(t)]

\* A settlement finishes its task, and no other.
LEMMA ConsumePromises ==
    ASSUME Inv, Inv', BillingInv, OwnersStay, OwnersStay', OneCharge, NEW w \in Workers, Consume(w)
    PROVE  Promise!Next \/ UNCHANGED <<balance, HeldAll>>
<1>1. PICK r : /\ r = req[w] /\ r.task \in Tasks /\ r.client \in Clients /\ r.cycle \in Stamps
               /\ r.actual \in Nat \ {0} /\ balance[r.client] \in Int
               /\ r.client = Owner[r.task] /\ r.actual \in Worked
               /\ task[r.task].settledAt = Null
               /\ \A x \in ledger : x.cycle # r.cycle
  BY RequestFields DEF Inv, Consume, Available, TypeOK, At, StampsAreFresh, OwnersStay, BillingInv, RequestFits
<1>2. PICK s : s = Split(r.actual, balance[r.client])
  OBVIOUS
<1>3. /\ s.consumed \in Nat /\ s.overage \in Nat /\ s.surplus \in Nat
      /\ s.overage = 0 => s.surplus = 0
  BY <1>1, <1>2, SplitIsExact
<1>4. /\ task' = [task EXCEPT ![r.task].actual = r.actual, ![r.task].settledAt = r.cycle]
      /\ balance' = [balance EXCEPT ![r.client] = @ - s.consumed + s.surplus]
      /\ ledger' = ledger \union SettlementRows(r, s)
  BY <1>1, <1>2 DEF Consume, Available
<1>5. /\ task'[r.task].settledAt = r.cycle /\ r.cycle # Null
      /\ \A t \in Tasks : t # r.task => task'[t].settledAt = task[t].settledAt
  BY <1>1, <1>4 DEF Inv, TypeOK, Task, Stamps, Null
<1>6. \A t \in Tasks : t # r.task => Held(t)' = Held(t)
  <2>1. \A x \in SettlementRows(r, s) : x.task = r.task
    BY DEF SettlementRows, SettlementEntry
  <2> QED BY <1>4, <1>5, <2>1, HoldsTheSame
<1>7. Held(r.task) = Free
  BY <1>1, HeldIs
<1>8. Held(r.task)' = [client |-> r.client, taken |-> s.consumed, given |-> s.surplus]
  <2> DEFINE e1 == SettlementEntry(r, "task_consumption", -s.consumed, r.actual)
             e3 == SettlementEntry(r, "purchase", s.surplus, s.surplus)
  <2>1. /\ e1.kind = "task_consumption" /\ e1.task = r.task /\ e1.cycle = r.cycle
        /\ e1.delta = -s.consumed
        /\ e3.kind = "purchase" /\ e3.task = r.task /\ e3.cycle = r.cycle /\ e3.delta = s.surplus
    BY DEF SettlementEntry
  <2>2. /\ \A x \in SettlementRows(r, s) :
              \/ x = e1 /\ s.consumed > 0
              \/ x.kind = "overage_invoiced"
              \/ x = e3 /\ s.surplus > 0
        /\ s.consumed > 0 => e1 \in SettlementRows(r, s)
        /\ s.surplus > 0 => e3 \in SettlementRows(r, s)
    BY DEF SettlementRows, SettlementEntry
  <2> HIDE DEF e1, e3
  <2>3. \A kind : SettledRows(kind, r.task)' =
            {x \in SettlementRows(r, s) : x.kind = kind /\ x.task = r.task /\ x.cycle = r.cycle}
    BY <1>1, <1>4, <1>5 DEF SettledRows
  <2>4. MovedBy(SettledRows("task_consumption", r.task)') = -s.consumed
    <3>1. CASE s.consumed > 0
      <4>1. SettledRows("task_consumption", r.task)' = {e1}
        BY <2>1, <2>2, <2>3, <3>1
      <4> QED BY <2>1, <4>1, MovedByFew
    <3>2. CASE ~(s.consumed > 0)
      <4>1. SettledRows("task_consumption", r.task)' = {}
        BY <2>1, <2>2, <2>3, <3>2
      <4>2. \A n \in Nat : ~(n > 0) => 0 = -n
        OBVIOUS
      <4> QED BY <1>3, <3>2, <4>1, <4>2, MovedByFew
    <3> QED BY <3>1, <3>2
  <2>5. MovedBy(SettledRows("purchase", r.task)') = s.surplus
    <3>1. CASE s.surplus > 0
      <4>1. SettledRows("purchase", r.task)' = {e3}
        BY <2>1, <2>2, <2>3, <3>1
      <4> QED BY <2>1, <4>1, MovedByFew
    <3>2. CASE ~(s.surplus > 0)
      <4>1. SettledRows("purchase", r.task)' = {}
        BY <2>1, <2>2, <2>3, <3>2
      <4>2. \A n \in Nat : ~(n > 0) => 0 = n
        OBVIOUS
      <4> QED BY <1>3, <3>2, <4>1, <4>2, MovedByFew
    <3> QED BY <3>1, <3>2
  <2>6. Held(r.task)' = Holding(Owner[r.task], SettledRows("task_consumption", r.task)',
                                SettledRows("purchase", r.task)')
    BY <1>1, <1>5, HeldWillBe DEF Holding
  <2>7. \A n \in Nat : \A m : m = -n => -m = n
    OBVIOUS
  <2>8. -MovedBy(SettledRows("task_consumption", r.task)') = s.consumed
    BY <1>3, <2>4, <2>7
  <2> QED BY <1>1, <2>5, <2>6, <2>8 DEF Holding
<1>9. HeldAll' = [HeldAll EXCEPT ![r.task] =
                     [client |-> r.client, taken |-> s.consumed, given |-> s.surplus]]
  BY <1>1, <1>6, <1>8 DEF HeldAll
<1>10. HeldAll[r.task] = Free
  BY <1>1, <1>7 DEF HeldAll
<1>11. Promise!Split(r.actual, balance[r.client]) = s
  BY <1>2, SameSplit
<1>12. Promise!Finish(r.task, r.client, r.actual)
  BY <1>4, <1>9, <1>10, <1>11 DEF Promise!Finish, HeldAll
<1> QED BY <1>1, <1>12 DEF Promise!Next, Worked

\* A reopen undoes what its settlement did: the newest charge since then is its
\* charge, and the surplus it withdraws its surplus.
LEMMA UndoPromises ==
    ASSUME Inv, Inv', BillingInv, OwnersStay, OwnersStay', OneCharge, NEW w \in Workers, Undo(w)
    PROVE  Promise!Next \/ UNCHANGED <<balance, HeldAll>>
<1>1. PICK r : /\ r = req[w] /\ r.task \in Tasks /\ r.cycle \in Stamps
               /\ r.client = Owner[r.task] /\ r.client \in Clients
               /\ task[r.task].settledAt = r.cycle /\ r.cycle # Null
  BY RequestFields DEF Inv, Undo, OwnersStay, BillingInv, RequestFits, At, InSettlement,
                       Stamps, Null
<1> DEFINE t == r.task
           charges == SettledRows("task_consumption", t)
           purchases == SettledRows("purchase", t)
           h == Holding(r.client, charges, purchases)
<1>2. CASE UNCHANGED <<balance, ledger, task>>
  <2>1. \A u \in Tasks : Held(u)' = Held(u)
    BY <1>2, HoldsTheSame
  <2> QED BY <1>2, <2>1 DEF HeldAll
<1>3. ASSUME \A x \in Surpluses(t, r.cycle) : ~SurplusWithdrawn(x),
             task' = Reopened(t), NEW refund \in Refunds(r),
             ledger' = ledger \union ReversalRows(r, refund),
             balance' = [balance EXCEPT ![r.client] = @ + refund - SumDelta(Surpluses(t, r.cycle))]
      PROVE  Promise!Next
  <2>1. /\ task'[t].settledAt = Null
        /\ \A u \in Tasks : u # t => task'[u].settledAt = task[u].settledAt
    BY <1>1, <1>3 DEF Reopened, Inv, TypeOK, Task
  <2>2. \A u \in Tasks : u # t => Held(u)' = Held(u)
    <3>1. \A x \in ReversalRows(r, refund) : x.kind \notin {"task_consumption", "purchase"}
      BY DEF ReversalRows, ReversalEntry
    <3> QED BY <1>3, <2>1, <3>1, HoldsTheSame
  <2>3. Held(t)' = Free
    BY <1>1, <2>1, HeldWillBe
  <2>4. Held(t) = h /\ h # Free
    BY <1>1, HeldIs, HoldsMinutes
  <2>5. refund = -MovedBy(charges)
    <3>1. Consumption(t, r.cycle) = charges
      <4>1. \A x \in ledger : x.task = t /\ x.cycle >= r.cycle <=> x.task = t /\ x.cycle = r.cycle
        BY <1>1 DEF BillingInv, SettlementIsNewest, Inv, TypeOK, Row, Stamps
      <4> QED BY <1>1, <4>1 DEF Consumption, Rows, SettledRows
    <3> HIDE DEF charges
    <3>2. CASE charges = {}
      <4>1. refund = 0
        BY <1>3, <3>1, <3>2 DEF Refunds
      <4>2. PICK m \in Int : m = MovedBy(charges) /\ m >= 0 /\ m <= 0
        BY <3>2, MovedByFew
      <4>3. 0 = -m
        BY <4>2
      <4> QED BY <4>1, <4>2, <4>3
    <3>3. ASSUME NEW x \in charges PROVE refund = -MovedBy(charges)
      <4>1. charges = {x} /\ x.delta \in Int
        BY <1>1, <3>3, RowsAreFew DEF charges
      <4>2. refund = -x.delta
        BY <1>3, <3>1, <4>1 DEF Refunds, Newest
      <4> QED BY <4>1, <4>2, MovedByFew
    <3> QED BY <3>2, <3>3
  <2>6. SumDelta(Surpluses(t, r.cycle)) = MovedBy(purchases)
    <3>1. Surpluses(t, r.cycle) = purchases
      <4>1. \A x \in Surpluses(t, r.cycle) :
               x \in ledger /\ x.kind = "purchase" /\ x.task = t /\ x.cycle = r.cycle
        BY <1>1, <1>3, OneSurplusToWithdraw
      <4>2. \A x \in ledger :
               x.kind = "purchase" /\ x.task = t /\ x.cycle = r.cycle => x \in Surpluses(t, r.cycle)
        BY <1>1, <1>3, OneSurplusToWithdraw
      <4> QED BY <1>1, <4>1, <4>2 DEF SettledRows
    <3> HIDE DEF purchases
    <3>2. CASE purchases = {}
      BY <3>1, <3>2, MovedByFew, SumOfNone
    <3>3. ASSUME NEW x \in purchases PROVE SumDelta(Surpluses(t, r.cycle)) = MovedBy(purchases)
      <4>1. purchases = {x} /\ x.delta \in Int
        BY <1>1, <3>3, RowsAreFew DEF purchases
      <4> QED BY <3>1, <4>1, MovedByFew, SumOfOne
    <3> QED BY <3>2, <3>3
  <2>7. h.client = r.client /\ h.taken = refund /\ h.given = SumDelta(Surpluses(t, r.cycle))
    BY <2>5, <2>6 DEF Holding
  <2> HIDE DEF h
  <2>8. HeldAll' = [HeldAll EXCEPT ![t] = Free] /\ HeldAll[t] = h
    BY <1>1, <2>2, <2>3, <2>4 DEF HeldAll
  <2>9. Promise!Reopen(t)
    BY <1>3, <2>4, <2>7, <2>8 DEF Promise!Reopen, HeldAll
  <2> QED BY <1>1, <2>9 DEF Promise!Next
<1> QED BY <1>1, <1>2, <1>3 DEF Undo

\* The surplus of an exact trace is what its task is given late.
LEMMA CreditLegacySurplusPromises ==
    ASSUME Inv, Inv', BillingInv, OwnersStay, OwnersStay', OneCharge, OneCharge',
           NEW w \in Workers, CreditLegacySurplus(w)
    PROVE  Promise!Next \/ UNCHANGED <<balance, HeldAll>>
<1>1. PICK r : /\ r = req[w] /\ r.bill \in Bill /\ r.trace \in Row /\ r.bill.task \in Tasks
               /\ r.bill.client = Owner[r.bill.task] /\ r.bill.client \in Clients
               /\ r.trace.cycle = r.bill.cycle /\ r.bill.cycle # Null
               /\ task[r.bill.task].settledAt = r.bill.cycle
               /\ r.bill.minutes = InvoicedOverage(r.trace.real)
  BY RequestFields DEF Inv, CreditLegacySurplus, OnlyLegacyIsExact, Bill, OwnersStay, BillingInv,
                       RequestFits, ToBill, Attachable, At, InSettlement, Stamps, Null
<1> DEFINE t == r.bill.task
           surplus == r.bill.minutes - r.trace.real
           row == [kind |-> "purchase", client |-> r.bill.client, task |-> t,
                   cycle |-> r.trace.cycle, delta |-> surplus, real |-> surplus]
           charges == SettledRows("task_consumption", t)
<1>2. UNCHANGED task
  BY DEF CreditLegacySurplus
<1>3. CASE UNCHANGED <<balance, ledger>>
  <2>1. \A u \in Tasks : Held(u)' = Held(u)
    BY <1>2, <1>3, HoldsTheSame
  <2> QED BY <1>3, <2>1 DEF HeldAll
<1>4. CASE /\ ~\E x \in ledger : x.kind = "purchase" /\ x.task = t /\ x.cycle = r.trace.cycle
           /\ ledger' = ledger \union {row}
           /\ balance' = [balance EXCEPT ![r.bill.client] = @ + surplus]
  <2>1. surplus \in Nat /\ surplus < Block
    BY <1>1, InvoicedOverageBounds, BlockAssumption DEF Row
  <2>2. row.kind = "purchase" /\ row.task = t /\ row.cycle = r.bill.cycle /\ row.delta = surplus
    BY <1>1
  <2> HIDE DEF row, surplus
  <2>3. SettledRows("purchase", t) = {} /\ SettledRows("purchase", t)' = {row}
    BY <1>1, <1>2, <1>4, <2>2 DEF SettledRows
  <2>4. SettledRows("task_consumption", t)' = charges
    BY <1>2, <1>4, <2>2 DEF SettledRows
  <2>5. Held(t) = Holding(r.bill.client, charges, {})
    BY <1>1, <2>3, HeldIs
  <2>6. Held(t)' = Holding(r.bill.client, charges, {row})
    <3>1. Held(t)' = Holding(Owner[t], SettledRows("task_consumption", t)',
                             SettledRows("purchase", t)')
      BY <1>1, <1>2, HeldWillBe DEF Holding
    <3> QED BY <1>1, <2>3, <2>4, <3>1
  <2>7. Held(t) # Free
    BY <1>1, HeldIs, HoldsMinutes
  <2>8. \A u \in Tasks : u # t => Held(u)' = Held(u)
    BY <1>2, <1>4, <2>2, HoldsTheSame
  <2> HIDE DEF charges
  <2>9. Held(t).client = r.bill.client /\ Held(t).given = 0
    BY <2>5, MovedByFew DEF Holding
  <2>10. Held(t)' = [Held(t) EXCEPT !.given = surplus]
    BY <2>2, <2>5, <2>6, MovedByFew DEF Holding
  <2>11. HeldAll' = [HeldAll EXCEPT ![t].given = surplus] /\ HeldAll[t] = Held(t)
    BY <1>1, <2>8, <2>10 DEF HeldAll
  <2>12. CASE surplus = 0
    <3>1. balance[r.bill.client] \in Int
      BY <1>1 DEF Inv, TypeOK
    <3>2. balance' = balance
      BY <1>4, <2>12, <3>1 DEF Inv, TypeOK
    <3>3. Held(t)' = Held(t)
      BY <2>2, <2>5, <2>6, <2>12, MovedByFew DEF Holding
    <3>4. HeldAll' = HeldAll
      BY <2>8, <3>3 DEF HeldAll
    <3> QED BY <3>2, <3>4
  <2>13. CASE surplus # 0
    <3>1. surplus \in 1..(Block - 1)
      BY <2>1, <2>13, BlockAssumption
    <3>2. Promise!GiveRest(t)
      BY <1>4, <2>7, <2>9, <2>11, <3>1 DEF Promise!GiveRest, HeldAll
    <3> QED BY <1>1, <3>2 DEF Promise!Next
  <2> QED BY <2>12, <2>13
<1> QED BY <1>1, <1>3, <1>4 DEF CreditLegacySurplus

\* Every other step is one the promise does not see.
LEMMA StepPromises ==
    ASSUME Inv, Inv', BillingInv, OwnersStay, OwnersStay', OneCharge, OneCharge', [Next]_vars
    PROVE  Promise!Next \/ UNCHANGED <<balance, HeldAll>>
<1>1. ASSUME ~\E w \in Workers : Consume(w) \/ Undo(w) \/ CreditLegacySurplus(w)
      PROVE  /\ UNCHANGED <<balance, ledger>>
             /\ \A t \in Tasks : task'[t].settledAt = task[t].settledAt
  <2>1. UNCHANGED <<balance, ledger>>
    BY <1>1 DEF Next, RequestStep, ReadStatus, WriteStatus, EditTask, SettleNow, ReadTask, FindDraft,
           CreateDraft, AddLine, Attach, Retract, ReadSettlement, Regenerate, Relink, SendInvoice,
           PushToKeez, CheckDraft, DeleteInvoice, NextMonth, Crash, vars
  <2>2. \A t \in Tasks : task'[t].settledAt = task[t].settledAt
    <3>1. \/ UNCHANGED task
          \/ \E w \in Workers : WriteStatus(w) \/ Attach(w) \/ Relink(w) \/ DeleteInvoice(w)
          \/ \E t \in Tasks : EditTask(t)
      BY <1>1 DEF Next, RequestStep, ReadStatus, SettleNow, ReadTask, FindDraft,
             CreateDraft, AddLine, Retract, ReadSettlement, Regenerate, SendInvoice,
             PushToKeez, CheckDraft, NextMonth, Crash, vars
    <3>2. ASSUME NEW w \in Workers, WriteStatus(w) \/ Attach(w) \/ Relink(w) \/ DeleteInvoice(w)
          PROVE  \A t \in Tasks : task'[t].settledAt = task[t].settledAt
      BY <3>2 DEF WriteStatus, Attach, Relink, DeleteInvoice, Detached, Inv, TypeOK, Task
    <3>3. ASSUME NEW t \in Tasks, EditTask(t)
          PROVE  \A u \in Tasks : task'[u].settledAt = task[u].settledAt
      BY <3>3 DEF EditTask, Inv, TypeOK, Task
    <3> QED BY <3>1, <3>2, <3>3
  <2> QED BY <2>1, <2>2
<1>2. ASSUME ~\E w \in Workers : Consume(w) \/ Undo(w) \/ CreditLegacySurplus(w)
      PROVE  UNCHANGED <<balance, HeldAll>>
  <2>1. \A t \in Tasks : Held(t)' = Held(t)
    BY <1>1, <1>2, HoldsTheSame
  <2> QED BY <1>1, <1>2, <2>1 DEF HeldAll
<1> QED BY <1>2, ConsumePromises, UndoPromises, CreditLegacySurplusPromises

\* At the start a task settled before the rounding holds no minutes.
LEMMA InitPromises == Init => OwnersStay /\ OneCharge /\ Promise!Init
<1> SUFFICES ASSUME Init PROVE OwnersStay /\ OneCharge /\ Promise!Init
  OBVIOUS
<1>1. OneCharge
  BY DEF Init, LegacyRow, OneCharge
<1>2. OwnersStay
  <2>1. \A w \in Workers : req[w].pc = "idle"
    BY DEF Init, Idle
  <2>2. \A x \in ledger : x.client = Owner[x.task]
    BY DEF Init, LegacyRow
  <2>3. \A t \in Tasks : task[t].client = Owner[t] /\ task[t].actual \in Worked \union {0}
    BY DEF Init, Worked
  <2> QED BY <2>1, <2>2, <2>3 DEF OwnersStay, At
<1>3. \A t \in Tasks : Held(t) = HeldAtStart[t]
  <2> SUFFICES ASSUME NEW t \in Tasks PROVE Held(t) = HeldAtStart[t]
    OBVIOUS
  <2>1. CASE t \notin DOMAIN Legacy
    <3>1. task[t].settledAt = Null
      BY <2>1 DEF Init
    <3> QED BY <1>2, <2>1, <3>1, InitInv, HeldIs DEF HeldAtStart
  <2>2. CASE t \in DOMAIN Legacy
    <3>1. task[t].settledAt = 1 /\ 1 # Null
      BY <2>2 DEF Init, Null
    <3>2. SettledRows("task_consumption", t) = {} /\ SettledRows("purchase", t) = {}
      BY DEF SettledRows, Init, LegacyRow
    <3>3. Held(t) = Holding(Owner[t], {}, {})
      BY <1>2, <3>1, <3>2, InitInv, HeldIs
    <3>4. \A m \in Int : m >= 0 /\ m <= 0 => -m = 0
      OBVIOUS
    <3>5. -MovedBy({}) = 0 /\ MovedBy({}) = 0
      BY <3>4, MovedByFew
    <3> QED BY <2>2, <3>3, <3>5 DEF Holding, HeldAtStart
  <2> QED BY <2>1, <2>2
<1>4. HeldAll = HeldAtStart
  BY <1>3 DEF HeldAll, HeldAtStart
<1> QED BY <1>1, <1>2, <1>4 DEF Promise!Init, HeldAll, Init

\* What the code does to credit is what HourCreditPromise says: through crashes,
\* stale cards and late corrections, a settlement takes what the promise takes, and
\* a reopen undoes exactly that.
THEOREM TaskCreditKeepsPromise ==
    ASSUME TakeTurns, "move" \notin Env PROVE Spec => ImplementsPromise
<1> DEFINE I == Inv /\ BillingInv /\ OwnersStay /\ OneCharge
<1>1. Init => I /\ Promise!Init
  BY InitInv, InitBills, InitPromises
<1>2. I /\ [Next]_vars => I'
  <2> SUFFICES ASSUME I, [Next]_vars PROVE I'
    OBVIOUS
  <2>1. Inv' /\ BillingInv'
    BY StepInv, StepBills
  <2>2. CASE UNCHANGED vars
    <3>1. UNCHANGED <<task, req, ledger>>
      BY <2>2 DEF vars
    <3> QED BY <2>1, <3>1, OwnersStayQuiet
  <2>3. CASE Next
    BY <2>1, <2>3, StepKeepsOwners
  <2> QED BY <2>1, <2>2, <2>3
<1>3. I /\ I' /\ [Next]_vars => [Promise!Next]_<<balance, [t \in Tasks |-> Held(t)]>>
  BY StepPromises DEF HeldAll
<1> QED BY <1>1, <1>2, <1>3, PTL DEF Spec, ImplementsPromise, Promise!Spec
=============================================================================
