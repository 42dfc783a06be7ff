------------------------- MODULE HoursPurchaseProofs -------------------------
(***************************************************************************)
(* Proofs about HoursPurchase, for any number of requests, orders, events  *)
(* and invoices: types and paid orders, then what is invoiced and credited *)
(* once, then refunds.                                                     *)
(***************************************************************************)
EXTENDS HoursPurchase, FiniteSetTheorems, TLAPS

(***************************************************************************)
(* Types: requests and what Stripe knows, then the tables.                 *)
(***************************************************************************)

Steps == {"delivered", "handle", "mark", "check", "credit", "find", "emit", "read", "ended"}

\* Requests are of events that Stripe created, or of the staff.
WorkTyped ==
    /\ work \in [Workers -> Request]
    /\ sent \subseteq Events /\ acked \subseteq sent /\ handled \subseteq sent
    /\ \A w \in Workers : At(w, "idle") \/ work[w].event.kind = "staff" \/ work[w].event \in sent

Tables ==
    /\ order \in [Orders -> Order]
    /\ intent \in [Orders -> {"none", "open", "succeeded", "refunded"}]
    /\ mismatched \subseteq Orders
    /\ invoice \in [InvoiceIds -> Invoice]
    /\ credits \in [Orders \union InvoiceIds -> 0..1]
    /\ has \subseteq {"reference", "bnr"}
    /\ overlapped \subseteq Orders /\ early \subseteq Orders

Typed == WorkTyped /\ Tables

\* An event of Stripe is of an order and not of the staff.
LEMMA EventFields ==
    ASSUME NEW e \in Events
    PROVE  /\ e.kind \in Kinds /\ e.kind # "staff" /\ e.order \in Orders
           /\ e = Event(e.kind, e.order)
  BY HoursPurchaseAssumption DEF Kinds, Event

\* What the request of a handler carries, by the step it is at.
LEMMA RequestFields ==
    ASSUME WorkTyped, NEW w \in Workers
    PROVE  /\ work[w].pc \in Steps \union {"idle", "write"}
           /\ ~At(w, "idle") => Its(w) \in Orders
           /\ work[w].pc \in (Steps \union {"write"}) \ {"credit"} =>
                 work[w].event \in Events /\ work[w].event \in sent
           /\ work[w].pc = "credit" /\ work[w].event.kind # "staff" =>
                 work[w].event \in Events /\ work[w].event \in sent
           /\ work[w].pc = "write" =>
                 work[w].invoice \in InvoiceIds /\ work[w].state \in {"paid", "refunded"}
<1>1. work[w] \in Request
  BY DEF WorkTyped
<1>2. CASE work[w] = Idle
  BY <1>2 DEF Idle, At, Steps
<1>3. CASE work[w] \in [pc : Steps, event : Events]
  BY <1>3, EventFields DEF WorkTyped, Its, At, Steps
<1>4. CASE work[w] \in [pc : {"write"}, event : Events, invoice : InvoiceIds,
                        state : {"paid", "refunded"}]
  BY <1>4, EventFields DEF WorkTyped, Its, At, Steps
<1>5. CASE work[w] \in [pc : {"credit"}, event : [kind : {"staff"}, order : Orders]]
  BY <1>5 DEF Its, At, Steps
<1> QED BY <1>1, <1>2, <1>3, <1>4, <1>5 DEF Request, Steps

\* A handler that goes on to its next call.
LEMMA GotoTyped ==
    ASSUME WorkTyped, NEW w \in Workers, work[w].pc \in Steps, work[w].event \in Events,
           NEW pc \in Steps, Goto(w, pc), UNCHANGED <<sent, acked, handled>>
    PROVE  /\ WorkTyped'
           /\ work'[w].pc = pc /\ work'[w].event = work[w].event
           /\ \A v \in Workers : v # w => work'[v] = work[v]
<1>1. work[w] \in [pc : Steps, event : Events]
  BY EventFields DEF WorkTyped, Request, Idle, Steps
<1>2. /\ work' \in [Workers -> Request] /\ work'[w] \in [pc : Steps, event : Events]
      /\ work'[w].pc = pc /\ work'[w].event = work[w].event
      /\ \A v \in Workers : v # w => work'[v] = work[v]
  BY <1>1 DEF Goto, WorkTyped, Request, Steps
<1> QED BY <1>1, <1>2, EventFields DEF WorkTyped, Request, At, Steps

\* A handler that returns or throws.
LEMMA EndTyped ==
    ASSUME WorkTyped, NEW w \in Workers, work[w].event \in Events, work[w].event \in sent,
           Return(w) \/ Throw(w)
    PROVE  /\ WorkTyped'
           /\ work'[w] = [pc |-> "ended", event |-> work[w].event]
           /\ \A v \in Workers : v # w => work'[v] = work[v]
           /\ handled' \subseteq handled \union {work[w].event}
           /\ Throw(w) => handled' = handled
  BY DEF Return, Throw, WorkTyped, Request, At, Steps

\* The event a handler runs for.
LEMMA HandledEvent ==
    ASSUME WorkTyped, NEW w \in Workers,
           work[w].pc \in {"delivered", "handle", "mark", "check", "find", "emit", "read", "write"}
    PROVE  work[w].event \in Events /\ work[w].event \in sent
  BY RequestFields DEF Steps

\* What a step of a handler does to its request.
LEMMA HandlerMoves ==
    ASSUME Typed, NEW w \in Workers, HandlerStep(w) \/ HandlerThrows(w) \/ BeginHandler(w)
    PROVE  /\ WorkTyped'
           /\ \A v \in Workers : v # w => work'[v] = work[v]
           /\ \/ At(w, "credit") /\ work'[w] = Idle
              \/ work'[w].event = work[w].event
<1> WorkTyped
  BY DEF Typed
<1> DEFINE Ends == Return(w) \/ Throw(w)
           Goes == \E pc \in Steps : Goto(w, pc) /\ UNCHANGED <<sent, acked, handled>>
           Plain == work[w].pc \in Steps /\ work[w].event \in Events
<1>1. CASE work[w].event \in Events /\ work[w].event \in sent /\ Ends
  <2>1. work'[w] = [pc |-> "ended", event |-> work[w].event]
    BY <1>1, EndTyped
  <2> QED BY <1>1, <2>1, EndTyped
<1>2. CASE Plain /\ Goes
  BY <1>2, GotoTyped
<1>3. CASE HandlerThrows(w)
  <2>1. work[w].event \in Events /\ work[w].event \in sent
    BY <1>3, HandledEvent DEF HandlerThrows
  <2> QED BY <1>1, <1>3, <2>1 DEF HandlerThrows
<1>4. CASE MarkFailed(w) \/ EmitInvoice(w) \/ WriteInvoice(w)
  <2>1. work[w].event \in Events /\ work[w].event \in sent
    BY <1>4, HandledEvent DEF MarkFailed, EmitInvoice, WriteInvoice, Handles, At
  <2> QED BY <1>1, <1>4, <2>1 DEF MarkFailed, EmitInvoice, WriteInvoice
<1>5. CASE ReadOrder(w) \/ FindInvoice(w)
  <2>1. Plain /\ work[w].event \in sent
    BY <1>5, HandledEvent DEF ReadOrder, FindInvoice, Handles, At, Steps
  <2>2. Goes \/ Ends
    BY <1>5 DEF ReadOrder, FindInvoice, Steps
  <2> QED BY <1>1, <1>2, <2>1, <2>2
<1>6. CASE BeginHandler(w) \/ MarkPaid(w) \/ CheckOrder(w) \/ RefundOrder(w)
  <2>1. Plain
    BY <1>6, HandledEvent DEF BeginHandler, Begin, MarkPaid, CheckOrder, RefundOrder, Handles, At, Steps
  <2>2. Goes
    BY <1>6 DEF BeginHandler, Begin, MarkPaid, CheckOrder, RefundOrder, Steps
  <2> QED BY <1>2, <2>1, <2>2
<1>7. CASE Credit(w)
  <2>1. CASE work[w].event.kind = "staff"
    BY <1>7, <2>1 DEF Credit, WorkTyped, Request, At, Idle
  <2>2. CASE work[w].event.kind # "staff"
    <3>1. Plain /\ Goes
      BY <1>7, <2>2, RequestFields DEF Credit, At, Steps
    <3> QED BY <1>2, <3>1
  <2> QED BY <2>1, <2>2
<1>8. CASE ReadInvoice(w)
  <2>1. work[w].event \in Events /\ work[w].event \in sent
    BY <1>8, HandledEvent DEF ReadInvoice, At
  <2>2. ASSUME NEW i \in InvoicesOf(Its(w)),
               work' = [work EXCEPT ![w] = [pc |-> "write", event |-> @.event,
                                             invoice |-> i, state |-> invoice[i].state]],
               UNCHANGED <<sent, acked, handled>>
        PROVE  /\ WorkTyped' /\ work'[w].event = work[w].event
               /\ \A v \in Workers : v # w => work'[v] = work[v]
    <3>1. i \in InvoiceIds /\ invoice[i].state \in {"paid", "refunded"}
      BY DEF InvoicesOf, Typed, Tables, Invoice
    <3>2. [pc |-> "write", event |-> work[w].event, invoice |-> i, state |-> invoice[i].state]
             \in Request
      BY <2>1, <3>1 DEF Request
    <3> QED BY <2>1, <2>2, <3>2 DEF WorkTyped, At
  <2> QED BY <1>1, <1>8, <2>1, <2>2 DEF ReadInvoice
<1> QED BY <1>3, <1>4, <1>5, <1>6, <1>7, <1>8 DEF HandlerStep

\* A delivery, its end, or a restart, which leave the tables alone.
LEMMA DeliveryMoves ==
    ASSUME Typed,
           \/ \E w \in Workers : Drop(w) \/ Answer(w) \/ \E e \in Events : Deliver(w, e) \/ Replay(w, e)
           \/ Crash
    PROVE  /\ WorkTyped' /\ UNCHANGED handled
           /\ \A v \in Workers : work'[v] = work[v] \/ work'[v].pc \in {"idle", "delivered"}
<1> USE DEF Typed, WorkTyped
<1>1. CASE Crash
  BY <1>1 DEF Crash, Request, Idle, At
<1>2. ASSUME NEW w \in Workers, Drop(w)
      PROVE  /\ WorkTyped' /\ UNCHANGED handled
             /\ \A v \in Workers : work'[v] = work[v] \/ work'[v].pc = "idle"
  <2>1. work[w].event \in sent
    BY <1>2, HandledEvent DEF Drop, At
  <2> QED BY <1>2, <2>1 DEF Drop, Request, Idle, At
<1>3. ASSUME NEW w \in Workers, Answer(w)
      PROVE  /\ WorkTyped' /\ UNCHANGED handled
             /\ \A v \in Workers : work'[v] = work[v] \/ work'[v].pc = "idle"
  BY <1>3 DEF Answer, Request, Idle, At
<1>4. ASSUME NEW w \in Workers, NEW e \in Events, Deliver(w, e) \/ Replay(w, e)
      PROVE  /\ WorkTyped' /\ UNCHANGED handled
             /\ \A v \in Workers : work'[v] = work[v] \/ work'[v].pc = "delivered"
  BY <1>4 DEF Deliver, Replay, Request, At
<1> QED BY <1>1, <1>2, <1>3, <1>4

\* The steps of a handler keep the tables.
LEMMA HandlerKeepsTables ==
    ASSUME Typed, NEW w \in Workers, HandlerStep(w) \/ HandlerThrows(w) \/ BeginHandler(w)
    PROVE  Tables'
<1> USE DEF Typed, Tables
<1>1. ~At(w, "idle") => Its(w) \in Orders
  BY RequestFields
<1>2. CASE HandlerThrows(w) \/ ReadOrder(w) \/ CheckOrder(w) \/ FindInvoice(w) \/ ReadInvoice(w)
  BY <1>2 DEF HandlerThrows, ReadOrder, CheckOrder, FindInvoice, ReadInvoice, history
<1>3. CASE MarkFailed(w) \/ MarkPaid(w) \/ RefundOrder(w)
  BY <1>1, <1>3 DEF MarkFailed, MarkPaid, RefundOrder, Handles, At, Order, history
<1>4. CASE Credit(w)
  <2>1. Entry(Its(w)) \in [Orders \union InvoiceIds -> 0..1]
    BY <1>1, <1>4 DEF Credit, At, Entry
  <2> QED BY <1>4, <2>1 DEF Credit, history
<1>5. CASE EmitInvoice(w)
  <2>1. Its(w) \in Orders
    BY <1>1, <1>5 DEF EmitInvoice, At
  <2>2. ASSUME NEW i \in Unused,
               invoice' = [invoice EXCEPT ![i] = [state |-> "paid", order |-> Its(w)]],
               order' = [order EXCEPT ![Its(w)].invoice = i]
        PROVE  invoice' \in [InvoiceIds -> Invoice] /\ order' \in [Orders -> Order]
    <3>1. i \in InvoiceIds
      BY DEF Unused
    <3>2. [state |-> "paid", order |-> Its(w)] \in Invoice
      BY <2>1 DEF Invoice
    <3>3. order' \in [Orders -> Order]
      BY <2>1, <2>2, <3>1 DEF Order
    <3> QED BY <2>2, <3>1, <3>2, <3>3
  <2>3. invoice' \in [InvoiceIds -> Invoice] /\ order' \in [Orders -> Order]
    BY <1>5, <2>2 DEF EmitInvoice
  <2> QED BY <1>5, <2>3 DEF EmitInvoice, history
<1>6. CASE WriteInvoice(w)
  <2>1. work[w].state \in {"paid", "refunded"}
    BY <1>6, RequestFields DEF WriteInvoice, At
  <2> QED BY <1>6, <2>1 DEF WriteInvoice, Invoice, history
<1>7. CASE BeginHandler(w)
  BY <1>7 DEF BeginHandler
<1> QED BY <1>2, <1>3, <1>4, <1>5, <1>6, <1>7 DEF HandlerStep

\* What is neither a delivery nor a handler: the customer, staff, exchange rates.
Around ==
    \/ \E o \in Orders : CreateOrder(o) \/ CreateIntent(o) \/ CardDeclined(o) \/ Pay(o)
    \/ \E o \in Orders, k \in {"partial", "refunded"} : Refund(o, k)
    \/ \E i \in InvoiceIds : CreditInvoice(i)
    \/ \E x \in {"reference", "bnr"} : Supply(x)

LEMMA AroundKeepsTypes ==
    ASSUME Typed, Around
    PROVE  /\ Typed' /\ UNCHANGED <<work, handled, invoice, overlapped>>
           /\ \A o \in Orders : order'[o].status = order[o].status \/ order[o].status = "none"
<1> USE DEF Typed, Tables
<1>1. ASSUME NEW o \in Orders, CreateOrder(o) \/ CreateIntent(o)
      PROVE  Typed' /\ UNCHANGED <<work, handled, invoice, overlapped>>
             /\ \A p \in Orders : order'[p].status = order[p].status \/ order[p].status = "none"
  <2>1. order' \in [Orders -> Order] /\ intent' \in [Orders -> {"none", "open", "succeeded", "refunded"}]
    <3>1. CASE CreateOrder(o)
      BY <3>1 DEF CreateOrder, Order
    <3>2. CASE CreateIntent(o)
      BY <3>2 DEF CreateIntent, Order
    <3> QED BY <1>1, <3>1, <3>2
  <2>2. \A p \in Orders : order'[p].status = order[p].status \/ order[p].status = "none"
    BY <1>1 DEF CreateOrder, CreateIntent, Order
  <2>3. UNCHANGED <<stripe, invoice, credits, has, mismatched, history>>
    BY <1>1 DEF CreateOrder, CreateIntent
  <2> QED BY <2>1, <2>2, <2>3 DEF stripe, history, WorkTyped, At
<1>2. ASSUME NEW e \in Events, Send(e) PROVE WorkTyped' /\ UNCHANGED <<work, handled>>
  BY <1>2 DEF Send, WorkTyped, At
<1>3. ASSUME NEW o \in Orders, CardDeclined(o) \/ Pay(o)
      PROVE  Typed' /\ UNCHANGED <<work, handled, invoice, overlapped, order>>
  <2>1. WorkTyped' /\ UNCHANGED <<work, handled>>
    BY <1>2, <1>3 DEF CardDeclined, Pay, Send
  <2> QED BY <1>3, <2>1 DEF CardDeclined, Pay, history
<1>4. ASSUME NEW o \in Orders, NEW k \in {"partial", "refunded"}, Refund(o, k)
      PROVE  Typed' /\ UNCHANGED <<work, handled, invoice, overlapped, order>>
  <2>1. WorkTyped' /\ UNCHANGED <<work, handled>>
    BY <1>2, <1>4 DEF Refund, Send
  <2> QED BY <1>4, <2>1 DEF Refund
<1>5. ASSUME NEW i \in InvoiceIds, CreditInvoice(i)
      PROVE  Typed' /\ UNCHANGED <<work, handled, invoice, overlapped, order>>
  BY <1>5 DEF CreditInvoice, Entry, stripe, history, WorkTyped, At
<1>6. ASSUME NEW x \in {"reference", "bnr"}, Supply(x)
      PROVE  Typed' /\ UNCHANGED <<work, handled, invoice, overlapped, order>>
  BY <1>6 DEF Supply, stripe, history, WorkTyped, At
<1> QED BY <1>1, <1>3, <1>4, <1>5, <1>6 DEF Around

\* A step is one of these.
LEMMA StepCases ==
    ASSUME [Next]_vars
    PROVE  \/ Around
           \/ \E w \in Workers : HandlerStep(w) \/ HandlerThrows(w) \/ BeginHandler(w)
           \/ /\ UNCHANGED <<order, intent, mismatched, invoice, credits, has, overlapped>>
              /\ early' = early \/ \E e \in Events : early' = early \union
                    {o \in Orders : e = Event("succeeded", o) /\ intent[o] = "refunded"}
              /\ \/ \E w \in Workers : Drop(w) \/ Answer(w)
                                       \/ \E e \in Events : Deliver(w, e) \/ Replay(w, e)
                 \/ Crash
           \/ \E w \in Workers, o \in Orders : CreditOrderNow(w, o)
           \/ UNCHANGED vars
  BY HoursPurchaseAssumption DEF Next, Around, Database, history, ReplayEvent

\* Every step keeps the types.
LEMMA TypeStep == Typed /\ [Next]_vars => Typed'
<1> SUFFICES ASSUME Typed, [Next]_vars PROVE Typed'
  OBVIOUS
<1>1. ASSUME Around PROVE Typed'
  BY <1>1, AroundKeepsTypes
<1>2. ASSUME NEW w \in Workers, HandlerStep(w) \/ HandlerThrows(w) \/ BeginHandler(w) PROVE Typed'
  BY <1>2, HandlerMoves, HandlerKeepsTables DEF Typed
<1>3. ASSUME UNCHANGED <<order, intent, mismatched, invoice, credits, has, overlapped>>,
             early' \subseteq Orders, WorkTyped'
      PROVE  Typed'
  BY <1>3 DEF Typed, Tables
<1>4. ASSUME NEW w \in Workers, NEW o \in Orders, CreditOrderNow(w, o) PROVE Typed'
  BY <1>4 DEF CreditOrderNow, Typed, Tables, WorkTyped, At, Request, Event, history
<1>5. CASE UNCHANGED vars
  BY <1>5 DEF vars, stripe, history, Typed, Tables, WorkTyped, At
<1> QED BY <1>1, <1>2, <1>3, <1>4, <1>5, StepCases, DeliveryMoves DEF Typed, Tables

(***************************************************************************)
(* A handled payment leaves its order paid, or refunded since. Between     *)
(* MarkPaid and the end, the handler relies on no decline undoing it.      *)
(***************************************************************************)

Settled(o) == order[o].status \in {"paid", "refunded"}

PastMark(w, o) ==
    work[w].event = Event("succeeded", o) /\ work[w].pc \in {"check", "credit", "find", "emit"}

Refunding(w) ==
    ~At(w, "idle") /\ work[w].pc \in {"read", "write"} => work[w].event.kind \in {"partial", "refunded"}

PaidInv ==
    /\ \A w \in Workers : \A o \in Orders : PastMark(w, o) /\ ~At(w, "idle") => Settled(o)
    /\ \A w \in Workers : Refunding(w)
    /\ HandledIsPaid

\* No step takes an order from paid or refunded to anything else.
LEMMA SettledStays ==
    ASSUME Typed, [Next]_vars, NEW o \in Orders, Settled(o)
    PROVE  Settled(o)'
<1> USE DEF Settled, Typed, Tables
<1>1. ASSUME NEW w \in Workers, HandlerStep(w) \/ HandlerThrows(w) \/ BeginHandler(w)
      PROVE  Settled(o)'
  <2>1. CASE MarkFailed(w)
    BY <2>1 DEF MarkFailed, Declinable, Order
  <2>2. CASE MarkPaid(w) \/ RefundOrder(w)
    BY <2>2 DEF MarkPaid, RefundOrder, Order
  <2>3. CASE EmitInvoice(w)
    BY <2>3 DEF EmitInvoice, Order
  <2>4. CASE UNCHANGED order
    BY <2>4
  <2> QED BY <1>1, <2>1, <2>2, <2>3, <2>4
          DEF HandlerStep, HandlerThrows, BeginHandler, ReadOrder, CheckOrder, Credit, FindInvoice,
              ReadInvoice, WriteInvoice
<1>2. ASSUME NEW w \in Workers, NEW p \in Orders, CreditOrderNow(w, p) PROVE Settled(o)'
  BY <1>2 DEF CreditOrderNow
<1>3. CASE UNCHANGED vars
  BY <1>3 DEF vars
<1> QED BY <1>1, <1>2, <1>3, StepCases, AroundKeepsTypes

\* A step of a handler gets past MarkPaid by taking it, ends a payment only when its
\* order is settled, and reads an invoice only for a refund.
LEMMA HandlerKeepsPaid ==
    ASSUME Typed, PaidInv, NEW w \in Workers,
           HandlerStep(w) \/ HandlerThrows(w) \/ BeginHandler(w), [Next]_vars
    PROVE  PaidInv'
<1> WorkTyped
  BY DEF Typed
<1> DEFINE e == work[w].event
           Done == \A o \in Orders \ mismatched : e = Event("succeeded", o) => Settled(o)'
<1>1. UNCHANGED mismatched
  BY DEF HandlerStep, HandlerThrows, BeginHandler, MarkFailed, ReadOrder, MarkPaid, CheckOrder,
         Credit, FindInvoice, EmitInvoice, RefundOrder, ReadInvoice, WriteInvoice
<1>2. ASSUME Refunding(w)', handled' = handled \/ (handled' = handled \union {e} /\ Done),
             \A o \in Orders : PastMark(w, o)' /\ ~At(w, "idle")' => Settled(o)'
      PROVE  PaidInv'
  <2>1. \A v \in Workers : v # w => work'[v] = work[v]
    BY HandlerMoves
  <2>2. HandledIsPaid'
    BY <1>1, <1>2, SettledStays DEF PaidInv, HandledIsPaid, Settled
  <2>3. \A v \in Workers : Refunding(v)'
    BY <1>2, <2>1 DEF PaidInv, Refunding, At
  <2>4. \A v \in Workers : \A o \in Orders : PastMark(v, o)' /\ ~At(v, "idle")' => Settled(o)'
    BY <1>2, <2>1, SettledStays DEF PaidInv, PastMark, At
  <2> QED BY <2>2, <2>3, <2>4 DEF PaidInv
<1>3. ASSUME NEW pc \in Steps \ {"read"}, work[w].pc \in Steps, e \in Events, Goto(w, pc),
             UNCHANGED <<sent, acked, handled>>,
             pc \notin {"check", "credit", "find", "emit"}
                 \/ work[w].pc \in {"check", "credit", "find", "emit"}
      PROVE  PaidInv'
  <2>1. work'[w].pc = pc /\ work'[w].event = e
    BY <1>3, GotoTyped
  <2>2. \A o \in Orders : PastMark(w, o)' => PastMark(w, o) /\ ~At(w, "idle")
    BY <1>3, <2>1 DEF PastMark, At
  <2> QED BY <1>2, <1>3, <2>1, <2>2, SettledStays DEF Refunding, PaidInv, Steps
<1>4. ASSUME e \in Events, e \in sent, Throw(w) \/ (Return(w) /\ Done)
      PROVE  PaidInv'
  <2>1. work'[w].pc = "ended"
    <3>1. work[w].event \in Events /\ work[w].event \in sent /\ (Return(w) \/ Throw(w))
      BY <1>4
    <3>2. work'[w] = [pc |-> "ended", event |-> work[w].event]
      BY <3>1, EndTyped
    <3> QED BY <3>2
  <2>2. handled' = handled \/ (handled' = handled \union {e} /\ Done)
    BY <1>4 DEF Return, Throw
  <2> QED BY <1>2, <2>1, <2>2 DEF Refunding, PastMark
<1>5. CASE HandlerThrows(w)
  BY <1>4, <1>5, HandledEvent DEF HandlerThrows
<1>6. CASE BeginHandler(w)
  BY <1>3, <1>6, HandledEvent DEF BeginHandler, Begin, At, Steps
<1>7. CASE MarkFailed(w)
  <2>1. Done
    BY <1>7 DEF MarkFailed, Handles, Event
  <2> QED BY <1>4, <1>7, <2>1, HandledEvent DEF MarkFailed, Handles, At
<1>8. CASE ReadOrder(w)
  <2>1. At(w, "handle") /\ e \in Events /\ e \in sent
    BY <1>8, HandledEvent DEF ReadOrder, Handles, At
  <2>2. CASE ToBePaid(Its(w))
    BY <1>3, <1>8, <2>1, <2>2 DEF ReadOrder, At, Steps
  <2>3. CASE ~ToBePaid(Its(w))
    <3>1. Done
      BY <1>8, <2>3 DEF ReadOrder, ToBePaid, Its, Event, Settled
    <3> QED BY <1>4, <1>8, <2>1, <2>3, <3>1 DEF ReadOrder
  <2> QED BY <2>2, <2>3
<1>9. CASE MarkPaid(w)
  <2>1. work'[w].pc = "check" /\ work'[w].event = e /\ Its(w) \in Orders
    BY <1>9, HandledEvent, RequestFields, GotoTyped DEF MarkPaid, At, Steps
  <2>2. order'[Its(w)].status = "paid"
    BY <1>9, <2>1 DEF MarkPaid, Typed, Tables, Order
  <2>3. \A o \in Orders : PastMark(w, o)' => o = Its(w)
    BY <2>1 DEF PastMark, Its, Event
  <2> QED BY <1>2, <1>9, <2>1, <2>2, <2>3 DEF MarkPaid, Refunding, Settled
<1>10. CASE CheckOrder(w)
  BY <1>3, <1>10, HandledEvent DEF CheckOrder, At, Steps
<1>11. CASE Credit(w)
  <2>1. CASE work[w].event.kind = "staff"
    <3>1. work'[w] = Idle /\ handled' = handled
      BY <1>11, <2>1 DEF Credit, WorkTyped
    <3> QED BY <1>2, <3>1 DEF Refunding, Idle, At
  <2>2. CASE work[w].event.kind # "staff"
    <3>1. e \in Events
      BY <1>11, <2>2, RequestFields DEF Credit, At
    <3> QED BY <1>3, <1>11, <2>2, <3>1 DEF Credit, At, Steps
  <2> QED BY <2>1, <2>2
<1>12. CASE FindInvoice(w) \/ EmitInvoice(w)
  <2>1. work[w].pc \in {"find", "emit"} /\ e \in Events /\ e \in sent
    BY <1>12, HandledEvent DEF FindInvoice, EmitInvoice, At
  <2>2. Done
    BY <2>1, SettledStays DEF PaidInv, PastMark, At
  <2> QED BY <1>3, <1>4, <1>12, <2>1, <2>2 DEF FindInvoice, EmitInvoice, At, Steps
<1>13. CASE RefundOrder(w)
  <2>1. work'[w].pc = "read" /\ work'[w].event = e
    BY <1>13, HandledEvent, GotoTyped DEF RefundOrder, Handles, At, Steps
  <2>2. e.kind \in {"partial", "refunded"}
    BY <1>13 DEF RefundOrder, Handles
  <2> QED BY <1>2, <1>13, <2>1, <2>2 DEF RefundOrder, Refunding, PastMark
<1>14. CASE ReadInvoice(w) \/ WriteInvoice(w)
  <2>1. work[w].pc \in {"read", "write"} /\ e \in Events /\ e \in sent
    BY <1>14, HandledEvent DEF ReadInvoice, WriteInvoice, At
  <2>2. e.kind \in {"partial", "refunded"} /\ Done
    BY <2>1 DEF PaidInv, Refunding, At, Event
  <2>3. CASE Return(w)
    BY <1>4, <2>1, <2>2, <2>3
  <2>4. CASE At(w, "read") /\ ~Return(w)
    <3>1. work'[w].pc = "write" /\ work'[w].event = e /\ handled' = handled
      BY <1>14, <2>4 DEF ReadInvoice, WriteInvoice, At, WorkTyped
    <3> QED BY <1>2, <2>2, <3>1 DEF Refunding, PastMark
  <2> QED BY <1>14, <2>3, <2>4 DEF ReadInvoice, WriteInvoice
<1> QED BY <1>5, <1>6, <1>7, <1>8, <1>9, <1>10, <1>11, <1>12, <1>13, <1>14 DEF HandlerStep

\* Every step keeps the invariant of paid orders.
LEMMA PaidStep == Typed /\ PaidInv /\ [Next]_vars => PaidInv'
<1> SUFFICES ASSUME Typed, PaidInv, [Next]_vars PROVE PaidInv'
  OBVIOUS
<1>1. ASSUME UNCHANGED <<handled, mismatched>>,
             \A w \in Workers : \/ work'[w] = work[w]
                                \/ work'[w].pc \in {"idle", "delivered"}
                                \/ work'[w].pc = "credit" /\ work'[w].event.kind = "staff"
      PROVE  PaidInv'
  <2>1. HandledIsPaid'
    BY <1>1, SettledStays DEF PaidInv, HandledIsPaid, Settled
  <2>2. \A w \in Workers : Refunding(w)'
    BY <1>1 DEF PaidInv, Refunding, At
  <2>3. \A w \in Workers : \A o \in Orders : PastMark(w, o)' /\ ~At(w, "idle")' => Settled(o)'
    BY <1>1, SettledStays DEF PaidInv, PastMark, At, Event
  <2> QED BY <2>1, <2>2, <2>3 DEF PaidInv
<1>2. CASE Around
  <2>1. UNCHANGED mismatched
    BY <1>2 DEF Around, CreateOrder, CreateIntent, CardDeclined, Pay, Refund, CreditInvoice, Supply
  <2> QED BY <1>1, <1>2, <2>1, AroundKeepsTypes
<1>3. ASSUME NEW w \in Workers, HandlerStep(w) \/ HandlerThrows(w) \/ BeginHandler(w)
      PROVE  PaidInv'
  BY <1>3, HandlerKeepsPaid
<1>4. ASSUME UNCHANGED mismatched,
             \/ \E w \in Workers : Drop(w) \/ Answer(w) \/ \E e \in Events : Deliver(w, e) \/ Replay(w, e)
             \/ Crash
      PROVE  PaidInv'
  BY <1>1, <1>4, DeliveryMoves
<1>5. ASSUME NEW w \in Workers, NEW o \in Orders, CreditOrderNow(w, o) PROVE PaidInv'
  <2>1. UNCHANGED <<handled, mismatched>>
    BY <1>5 DEF CreditOrderNow
  <2>2. work' = [work EXCEPT ![w] = [pc |-> "credit", event |-> Event("staff", o)]]
    BY <1>5 DEF CreditOrderNow
  <2>3. work'[w].pc = "credit" /\ work'[w].event.kind = "staff"
    BY <2>2 DEF Typed, WorkTyped, Event
  <2>4. \A v \in Workers : v # w => work'[v] = work[v]
    BY <2>2 DEF Typed, WorkTyped
  <2> QED BY <1>1, <2>1, <2>3, <2>4
<1>6. CASE UNCHANGED vars
  BY <1>1, <1>6 DEF vars, stripe
<1> QED BY <1>2, <1>3, <1>4, <1>5, <1>6, StepCases

(***************************************************************************)
(* The theorems.                                                           *)
(***************************************************************************)

Inv == Typed /\ PaidInv

LEMMA InvStarts == Init => Inv
<1> SUFFICES ASSUME Init PROVE Inv
  OBVIOUS
<1>1. work = [w \in Workers |-> Idle]
  BY DEF Init, DeliveryInit
<1>2. \A w \in Workers : At(w, "idle")
  BY <1>1 DEF At, Idle
<1>3. WorkTyped
  BY <1>1, <1>2 DEF Init, DeliveryInit, WorkTyped, Request
<1>4. Tables
  <2>1. (CHOOSE o \in Orders : TRUE) \in Orders
    BY HoursPurchaseAssumption
  <2> QED BY <2>1, HoursPurchaseAssumption DEF Init, Tables, Order, Invoice
<1>5. PaidInv
  BY <1>2 DEF Init, DeliveryInit, PaidInv, Refunding, HandledIsPaid
<1> QED BY <1>3, <1>4, <1>5 DEF Inv, Typed

\* Types, and what a running handler has settled, are an inductive invariant.
THEOREM InvIsInvariant == Spec => []Inv
<1>1. Init => Inv
  BY InvStarts
<1>2. Inv /\ [Next]_vars => Inv'
  BY TypeStep, PaidStep DEF Inv
<1> QED BY <1>1, <1>2, PTL DEF Spec

\* Requests, tables and the ledger hold only what their types allow; among it, a
\* source never has two ledger rows, whatever webhook and staff do together.
THEOREM TypeCorrect == Spec => []TypeOK
<1>1. Inv => TypeOK
  BY DEF Inv, Typed, WorkTyped, Tables, TypeOK
<1> QED BY <1>1, InvIsInvariant, PTL

\* An order whose payment a handler has dealt with is paid or refunded, for any
\* number of requests, declines, replays and crashes.
THEOREM HandledPaymentsArePaid == Spec => []HandledIsPaid
<1>1. Inv => HandledIsPaid
  BY DEF Inv, PaidInv
<1> QED BY <1>1, InvIsInvariant, PTL

\* Nothing takes an order back from paid or refunded, a late decline included.
THEOREM DeclinesNeverUndo == Spec => LateDeclineIsIgnored
<1>1. Inv /\ [Next]_vars =>
         [\A o \in Orders : order[o].status \in {"paid", "refunded"}
                               => order'[o].status \in {"paid", "refunded"}]_vars
  BY SettledStays DEF Inv, Settled
<1> QED BY <1>1, InvIsInvariant, PTL DEF Spec, LateDeclineIsIgnored

(***************************************************************************)
(* A payment is invoiced once and credited once as long as two requests do *)
(* not handle it at once.                                                  *)
(***************************************************************************)

Pays(w, o) == Running(w, Event("succeeded", o))

\* Only a payment, or staff at "credit", takes the steps from MarkPaid to EmitInvoice.
Paying(w) ==
    /\ work[w].pc \in {"mark", "check", "find", "emit"} => work[w].event.kind = "succeeded"
    /\ At(w, "credit") => work[w].event.kind \in {"succeeded", "staff"}

Used(i) == invoice[i].state # "unused"

WritesUsed(w) == At(w, "write") => Used(work[w].invoice)

\* A payment that never overlapped has one handler at most.
PaidAlone == \A o \in Orders \ overlapped : \A v, w \in Workers : Pays(v, o) /\ Pays(w, o) => v = w

\* What FindInvoice found is still so at EmitInvoice.
NoneYet(w) == \A o \in Orders \ overlapped : At(w, "emit") /\ Pays(w, o) => InvoicesOf(o) = {}

\* The order links to its invoice, which is why creditPaidInvoice refuses it.
Linked == \A o \in Orders \ overlapped : \A i \in InvoicesOf(o) : order[o].invoice = i

Uncredited == \A i \in InvoiceIds : credits[i] = 0 \/ (Used(i) /\ invoice[i].order \in overlapped)

OnceInv ==
    /\ \A w \in Workers : Paying(w) /\ WritesUsed(w) /\ NoneYet(w)
    /\ PaidAlone /\ Linked /\ Uncredited

(***************************************************************************)
(* Steps that neither insert an invoice nor credit one.                    *)
(***************************************************************************)

Kept ==
    /\ \A i \in InvoiceIds : /\ invoice'[i].order = invoice[i].order
                             /\ Used(i)' <=> Used(i)
    /\ \A o \in Orders : order'[o].invoice = order[o].invoice
    /\ \A i \in InvoiceIds : credits'[i] = credits[i]

\* A request does what OnceInv allows it, and takes up no payment.
Fine(w) ==
    /\ Paying(w)' /\ WritesUsed(w)' /\ NoneYet(w)'
    /\ \A o \in Orders : Pays(w, o)' => Pays(w, o)

LEMMA KeptInvoices ==
    ASSUME Kept, NEW o \in Orders
    PROVE  InvoicesOf(o)' = InvoicesOf(o)
  BY DEF Kept, InvoicesOf, Used

LEMMA KeptOnce ==
    ASSUME OnceInv, Kept, overlapped \subseteq overlapped', \A w \in Workers : Fine(w)
    PROVE  OnceInv'
<1>1. PaidAlone'
  BY DEF OnceInv, PaidAlone, Fine
<1>2. Linked'
  BY KeptInvoices DEF OnceInv, Linked, Kept, InvoicesOf
<1>3. Uncredited'
  BY DEF OnceInv, Uncredited, Kept
<1> QED BY <1>1, <1>2, <1>3 DEF OnceInv, Fine

\* A request that the step leaves alone.
LEMMA SameIsFine ==
    ASSUME Typed, OnceInv, Kept, overlapped \subseteq overlapped',
           NEW w \in Workers, work'[w] = work[w]
    PROVE  Fine(w)
<1>1. Paying(w)' /\ \A o \in Orders : Pays(w, o)' <=> Pays(w, o)
  BY DEF OnceInv, Paying, Pays, Running, At
<1>2. NoneYet(w)'
  BY <1>1, KeptInvoices DEF OnceInv, NoneYet, At
<1>3. At(w, "write") => work[w].invoice \in InvoiceIds
  BY RequestFields DEF Typed, At
<1>4. WritesUsed(w)'
  BY <1>3 DEF OnceInv, WritesUsed, At, Kept
<1> QED BY <1>1, <1>2, <1>4 DEF Fine

\* A request that does not handle an event, or is staff's.
LEMMA CalmIsFine ==
    ASSUME NEW w \in Workers,
           \/ work'[w].pc \in {"idle", "delivered", "ended"}
           \/ work'[w].pc = "credit" /\ work'[w].event.kind = "staff"
    PROVE  Fine(w)
  BY DEF Fine, Paying, WritesUsed, NoneYet, Pays, Running, At, Event

\* A handler that goes on, to neither "write" nor "emit".
LEMMA GoingIsFine ==
    ASSUME NEW w \in Workers, work'[w].pc \notin {"write", "emit"},
           work[w].pc \notin {"idle", "delivered", "ended"}, work'[w].event = work[w].event, Paying(w)'
    PROVE  Fine(w)
  BY DEF Fine, WritesUsed, NoneYet, Pays, Running, At

(***************************************************************************)
(* The steps of a handler.                                                 *)
(***************************************************************************)

LEMMA HandlerKeeps ==
    ASSUME Typed, OnceInv, NEW w \in Workers, HandlerStep(w) \/ HandlerThrows(w), ~EmitInvoice(w)
    PROVE  Kept /\ UNCHANGED overlapped
<1> USE DEF Typed, Tables
<1>1. CASE UNCHANGED <<order, invoice, credits, overlapped>>
  BY <1>1 DEF Kept, Used
<1>2. CASE MarkFailed(w) \/ MarkPaid(w) \/ RefundOrder(w)
  <2>1. \A o \in Orders : order'[o].invoice = order[o].invoice
    <3>1. CASE MarkFailed(w)
      BY <3>1 DEF MarkFailed, Order
    <3>2. CASE MarkPaid(w)
      BY <3>2 DEF MarkPaid, Order
    <3>3. CASE RefundOrder(w)
      BY <3>3 DEF RefundOrder, Order
    <3> QED BY <1>2, <3>1, <3>2, <3>3
  <2>2. UNCHANGED <<invoice, credits, overlapped>>
    BY <1>2 DEF MarkFailed, MarkPaid, RefundOrder, history
  <2> QED BY <2>1, <2>2 DEF Kept, Used
<1>3. CASE Credit(w)
  <2>1. Its(w) \in Orders
    BY <1>3, RequestFields DEF Credit, At
  <2>2. \A i \in InvoiceIds : credits'[i] = credits[i]
    BY <1>3, <2>1, HoursPurchaseAssumption DEF Credit, Entry
  <2> QED BY <1>3, <2>2 DEF Credit, Kept, Used, history
<1>4. CASE WriteInvoice(w)
  <2>1. work[w].state \in {"paid", "refunded"} /\ work[w].invoice \in InvoiceIds /\ Used(work[w].invoice)
    BY <1>4, RequestFields DEF WriteInvoice, At, OnceInv, WritesUsed
  <2>2. \A i \in InvoiceIds : invoice'[i].order = invoice[i].order /\ (Used(i)' <=> Used(i))
    BY <1>4, <2>1 DEF WriteInvoice, Used, Invoice
  <2> QED BY <1>4, <2>2 DEF WriteInvoice, Kept, history
<1> QED BY <1>1, <1>2, <1>3, <1>4
        DEF HandlerStep, HandlerThrows, ReadOrder, CheckOrder, FindInvoice, ReadInvoice, history

LEMMA HandlerIsFine ==
    ASSUME Typed, OnceInv, NEW w \in Workers, HandlerStep(w) \/ HandlerThrows(w)
    PROVE  EmitInvoice(w) \/ Fine(w)
<1> WorkTyped /\ Paying(w)
  BY DEF Typed, OnceInv
<1> DEFINE pc == work[w].pc
<1>1. ASSUME pc \in Steps, work[w].event \in Events, work[w].event \in sent, Return(w) \/ Throw(w)
      PROVE  Fine(w)
  <2>1. work'[w] = [pc |-> "ended", event |-> work[w].event]
    BY <1>1, EndTyped
  <2> QED BY <2>1, CalmIsFine
<1>2. ASSUME NEW next \in Steps, pc \in Steps, work[w].event \in Events, Goto(w, next),
             UNCHANGED <<sent, acked, handled>>, pc \notin {"delivered", "ended"}, next # "emit",
             next \in {"mark", "check", "credit", "find"} => work[w].event.kind = "succeeded"
      PROVE  Fine(w)
  <2>1. work'[w].pc = next /\ work'[w].event = work[w].event
    BY <1>2, GotoTyped
  <2>2. Paying(w)'
    BY <1>2, <2>1 DEF Paying, At
  <2> QED BY <1>2, <2>1, <2>2, GoingIsFine DEF Steps
<1>3. CASE HandlerThrows(w) \/ MarkFailed(w) \/ WriteInvoice(w)
  <2>1. work[w].event \in Events /\ work[w].event \in sent
    BY <1>3, HandledEvent DEF HandlerThrows, MarkFailed, WriteInvoice, Handles, At
  <2>2. Return(w) \/ Throw(w)
    BY <1>3 DEF HandlerThrows, MarkFailed, WriteInvoice
  <2>3. work'[w] = [pc |-> "ended", event |-> work[w].event]
    BY <2>1, <2>2, EndTyped
  <2> QED BY <2>3, CalmIsFine
<1>4. CASE ReadOrder(w)
  <2>1. pc = "handle" /\ work[w].event.kind = "succeeded" /\ work[w].event \in Events /\ work[w].event \in sent
    BY <1>4, HandledEvent DEF ReadOrder, Handles, At
  <2> QED BY <1>1, <1>2, <1>4, <2>1 DEF ReadOrder, Steps
<1>5. CASE MarkPaid(w) \/ CheckOrder(w)
  <2>1. pc \in {"mark", "check"} /\ work[w].event.kind = "succeeded" /\ work[w].event \in Events
    BY <1>5, HandledEvent DEF MarkPaid, CheckOrder, At, Paying
  <2> QED BY <1>2, <1>5, <2>1 DEF MarkPaid, CheckOrder, Steps
<1>6. CASE Credit(w)
  <2>1. CASE work[w].event.kind = "staff"
    <3>1. work'[w].pc = "idle"
      BY <1>6, <2>1 DEF Credit, WorkTyped, Idle
    <3> QED BY <3>1, CalmIsFine
  <2>2. CASE work[w].event.kind # "staff"
    <3>1. pc = "credit" /\ work[w].event.kind = "succeeded" /\ work[w].event \in Events
      BY <1>6, <2>2, RequestFields DEF Credit, At, Paying
    <3> QED BY <1>2, <1>6, <2>2, <3>1 DEF Credit, Steps
  <2> QED BY <2>1, <2>2
<1>7. CASE FindInvoice(w)
  <2>1. pc = "find" /\ work[w].event.kind = "succeeded" /\ work[w].event \in Events /\ work[w].event \in sent
    BY <1>7, HandledEvent DEF FindInvoice, At, Paying
  <2>2. CASE Return(w)
    BY <1>1, <2>1, <2>2 DEF Steps
  <2>3. CASE ~Emitted(Its(w)) /\ Goto(w, "emit") /\ UNCHANGED <<sent, acked, handled>>
    <3>1. work'[w].pc = "emit" /\ work'[w].event = work[w].event
      BY <2>1, <2>3, GotoTyped DEF Steps
    <3>2. \A o \in Orders : o = Its(w) => InvoicesOf(o)' = {}
      BY <1>7, <2>3 DEF FindInvoice, Emitted, InvoicesOf
    <3>3. \A o \in Orders : Pays(w, o)' => o = Its(w)
      BY <3>1 DEF Pays, Running, Event, Its
    <3>4. NoneYet(w)'
      BY <3>2, <3>3 DEF NoneYet
    <3>5. \A o \in Orders : Pays(w, o)' => Pays(w, o)
      BY <2>1, <3>1 DEF Pays, Running
    <3> QED BY <2>1, <3>1, <3>4, <3>5 DEF Fine, Paying, WritesUsed, At
  <2> QED BY <1>7, <2>2, <2>3 DEF FindInvoice
<1>8. CASE RefundOrder(w)
  <2>1. pc = "handle" /\ work[w].event \in Events
    BY <1>8, HandledEvent DEF RefundOrder, Handles, At
  <2> QED BY <1>2, <1>8, <2>1 DEF RefundOrder, Steps
<1>9. CASE ReadInvoice(w)
  <2>1. pc = "read" /\ work[w].event \in Events /\ work[w].event \in sent
    BY <1>9, HandledEvent DEF ReadInvoice, At
  <2>2. CASE Return(w)
    BY <1>1, <2>1, <2>2 DEF Steps
  <2>3. ASSUME NEW i \in InvoicesOf(Its(w)),
               work' = [work EXCEPT ![w] = [pc |-> "write", event |-> @.event,
                                             invoice |-> i, state |-> invoice[i].state]]
        PROVE  Fine(w)
    <3>1. work'[w].pc = "write" /\ work'[w].event = work[w].event /\ work'[w].invoice = i
      BY <2>3 DEF WorkTyped
    <3>2. Used(i)'
      BY <1>9 DEF ReadInvoice, InvoicesOf, Used
    <3> QED BY <2>1, <3>1, <3>2 DEF Fine, Paying, WritesUsed, NoneYet, Pays, Running, At
  <2> QED BY <1>9, <2>2, <2>3 DEF ReadInvoice
<1> QED BY <1>3, <1>4, <1>5, <1>6, <1>7, <1>8, <1>9 DEF HandlerStep

\* A delivery takes up a payment: from the second one on, the order has overlapped.
LEMMA BeginOnce ==
    ASSUME Typed, OnceInv, NEW w \in Workers, BeginHandler(w)
    PROVE  OnceInv'
<1> WorkTyped
  BY DEF Typed
<1>1. /\ work[w].pc = "delivered" /\ work[w].event \in Events
      /\ work'[w].pc = "handle" /\ work'[w].event = work[w].event
      /\ \A v \in Workers : v # w => work'[v] = work[v]
  BY HandledEvent, GotoTyped DEF BeginHandler, Begin, At, Steps
<1>2. Kept /\ overlapped \subseteq overlapped'
  BY <1>1 DEF BeginHandler, Kept, Used
<1>3. \A v \in Workers : v # w => Fine(v)
  BY <1>1, <1>2, SameIsFine
<1>4. \A v \in Workers : Paying(v)' /\ WritesUsed(v)' /\ NoneYet(v)'
  BY <1>1, <1>3 DEF Fine, Paying, WritesUsed, NoneYet, At
<1>5. PaidAlone'
  <2> SUFFICES ASSUME NEW o \in Orders \ overlapped', NEW u \in Workers, NEW v \in Workers,
                      Pays(u, o)', Pays(v, o)'
               PROVE  u = v
    BY DEF PaidAlone
  <2>1. CASE u # w /\ v # w
    BY <1>2, <1>3, <2>1 DEF OnceInv, PaidAlone, Fine
  <2>2. ASSUME NEW x \in Workers, x # w, Pays(x, o)', Pays(w, o)'
        PROVE  FALSE
    <3>1. work[w].event = Event("succeeded", o) /\ Running(x, work[w].event)
      BY <1>1, <1>3, <2>2 DEF Fine, Pays, Running
    <3> QED BY <3>1 DEF BeginHandler
  <2> QED BY <2>1, <2>2
<1>6. Linked' /\ Uncredited'
  BY <1>2, KeptInvoices DEF OnceInv, Linked, Uncredited, Kept, InvoicesOf
<1> QED BY <1>4, <1>5, <1>6 DEF OnceInv

\* The invoice that is inserted is the first of its order, which links to it.
LEMMA EmitOnce ==
    ASSUME Typed, OnceInv, NEW w \in Workers, EmitInvoice(w)
    PROVE  OnceInv'
<1> WorkTyped
  BY DEF Typed
<1> USE DEF Typed, Tables
<1>1. work[w].event \in Events /\ work[w].event \in sent /\ Its(w) \in Orders
  BY HandledEvent, RequestFields DEF EmitInvoice, At
<1>2. work'[w].pc = "ended" /\ \A v \in Workers : v # w => work'[v] = work[v]
  <2>1. Return(w)
    BY DEF EmitInvoice
  <2>2. work'[w] = [pc |-> "ended", event |-> work[w].event]
    BY <1>1, <2>1, EndTyped
  <2> QED BY <1>1, <2>1, <2>2, EndTyped
<1>3. Fine(w)
  BY <1>2, CalmIsFine
<1>4. UNCHANGED <<credits, overlapped>>
  BY DEF EmitInvoice, history
<1>5. CASE UNCHANGED <<invoice, order>>
  <2>1. Kept
    BY <1>4, <1>5 DEF Kept, Used
  <2> QED BY <1>2, <1>3, <1>4, <2>1, KeptOnce, SameIsFine
<1>6. ASSUME NEW i \in Unused,
             invoice' = [invoice EXCEPT ![i] = [state |-> "paid", order |-> Its(w)]],
             order' = [order EXCEPT ![Its(w)].invoice = i]
      PROVE  OnceInv'
  <2>0. PICK p \in Orders : p = Its(w)
    BY <1>1
  <2>1. i \in InvoiceIds /\ ~Used(i) /\ Pays(w, p)
    BY <1>1, <2>0, EventFields DEF Unused, Used, EmitInvoice, At, Pays, Running, OnceInv, Paying, Its
  <2>2. /\ invoice'[i].state = "paid" /\ invoice'[i].order = p /\ order'[p].invoice = i
        /\ \A j \in InvoiceIds : j # i => invoice'[j] = invoice[j]
        /\ \A o \in Orders : o # p => order'[o] = order[o]
    BY <1>6, <2>0, <2>1 DEF Order
  <2>3. \A o \in Orders : o # p => InvoicesOf(o)' = InvoicesOf(o)
    BY <2>1, <2>2 DEF InvoicesOf, Used
  <2>4. p \in overlapped \/ InvoicesOf(p)' = {i}
    <3>1. p \in overlapped \/ InvoicesOf(p) = {}
      BY <2>1 DEF OnceInv, NoneYet, EmitInvoice
    <3> QED BY <2>1, <2>2, <3>1 DEF InvoicesOf, Used
  <2>5. Linked'
    BY <1>4, <2>2, <2>3, <2>4 DEF OnceInv, Linked
  <2>6. Uncredited'
    BY <1>4, <2>1, <2>2 DEF OnceInv, Uncredited, Used
  <2>7. PaidAlone'
    BY <1>2, <1>4 DEF OnceInv, PaidAlone, Pays, Running
  <2>8. ASSUME NEW v \in Workers, v # w PROVE Paying(v)' /\ WritesUsed(v)' /\ NoneYet(v)'
    <3>1. Paying(v)'
      BY <1>2, <2>8 DEF OnceInv, Paying, At
    <3>2. At(v, "write") => work[v].invoice \in InvoiceIds
      BY RequestFields DEF At
    <3>3. WritesUsed(v)'
      BY <1>2, <2>2, <2>8, <3>2 DEF OnceInv, WritesUsed, Used, At
    <3>4. \A o \in Orders \ overlapped : Pays(v, o) => o # p
      BY <2>1, <2>8 DEF OnceInv, PaidAlone
    <3>5. NoneYet(v)'
      BY <1>2, <1>4, <2>3, <2>8, <3>4 DEF OnceInv, NoneYet, At, Pays, Running
    <3> QED BY <3>1, <3>3, <3>5
  <2> QED BY <1>3, <2>5, <2>6, <2>7, <2>8 DEF OnceInv, Fine
<1> QED BY <1>5, <1>6 DEF EmitInvoice

\* What is neither a handler nor a delivery inserts nothing, and credits an invoice
\* only if no order links to it.
LEMMA AroundOnce ==
    ASSUME Typed, OnceInv, Around
    PROVE  OnceInv'
<1> USE DEF Typed, Tables
<1>1. Typed' /\ UNCHANGED <<work, invoice, overlapped>>
  BY AroundKeepsTypes
<1>2. CASE ~\E i \in InvoiceIds : CreditInvoice(i)
  <2>1. UNCHANGED credits
    BY <1>2 DEF Around, CreateOrder, CreateIntent, CardDeclined, Pay, Refund, Supply
  <2>2. \A o \in Orders : order'[o].invoice = order[o].invoice
    BY <1>2 DEF Around, CreateOrder, CreateIntent, CardDeclined, Pay, Refund, Supply, Order
  <2>3. Kept
    BY <1>1, <2>1, <2>2 DEF Kept, Used
  <2> QED BY <1>1, <2>3, KeptOnce, SameIsFine
<1>3. ASSUME NEW i \in InvoiceIds, CreditInvoice(i)
      PROVE  OnceInv'
  <2>1. invoice[i].order \in overlapped
    <3>1. invoice[i].order \in Orders /\ i \in InvoicesOf(invoice[i].order)
      BY <1>3 DEF CreditInvoice, InvoicesOf, Invoice
    <3> QED BY <1>3, <3>1 DEF CreditInvoice, IsHoursOrderInvoice, OnceInv, Linked
  <2>2. UNCHANGED order /\ \A j \in InvoiceIds : j # i => credits'[j] = credits[j]
    BY <1>3 DEF CreditInvoice, Entry
  <2>3. Uncredited'
    BY <1>1, <1>3, <2>1, <2>2 DEF OnceInv, Uncredited, Used, CreditInvoice
  <2> QED BY <1>1, <2>2, <2>3
          DEF OnceInv, Paying, WritesUsed, NoneYet, PaidAlone, Linked, Pays, Running, At,
              InvoicesOf, Used
<1> QED BY <1>2, <1>3

\* Every step keeps the invariant.
LEMMA OnceStep == Typed /\ OnceInv /\ [Next]_vars => OnceInv'
<1> SUFFICES ASSUME Typed, OnceInv, [Next]_vars PROVE OnceInv'
  OBVIOUS
<1>1. CASE Around
  BY <1>1, AroundOnce
<1>2. ASSUME NEW w \in Workers, HandlerStep(w) \/ HandlerThrows(w) PROVE OnceInv'
  <2>1. CASE EmitInvoice(w)
    BY <2>1, EmitOnce
  <2>2. CASE ~EmitInvoice(w)
    <3>1. Kept /\ UNCHANGED overlapped
      BY <1>2, <2>2, HandlerKeeps
    <3>2. Fine(w)
      BY <1>2, <2>2, HandlerIsFine
    <3>3. \A v \in Workers : v # w => Fine(v)
      BY <1>2, <3>1, HandlerMoves, SameIsFine
    <3> QED BY <3>1, <3>2, <3>3, KeptOnce
  <2> QED BY <2>1, <2>2
<1>3. ASSUME NEW w \in Workers, BeginHandler(w) PROVE OnceInv'
  BY <1>3, BeginOnce
<1>4. ASSUME UNCHANGED <<order, invoice, credits, overlapped>>,
             \A v \in Workers : \/ work'[v] = work[v]
                                \/ work'[v].pc \in {"idle", "delivered"}
                                \/ work'[v].pc = "credit" /\ work'[v].event.kind = "staff"
      PROVE  OnceInv'
  <2>1. Kept
    BY <1>4 DEF Kept, Used
  <2>2. \A v \in Workers : Fine(v)
    BY <1>4, <2>1, SameIsFine, CalmIsFine
  <2> QED BY <1>4, <2>1, <2>2, KeptOnce
<1>5. ASSUME UNCHANGED <<order, invoice, credits, overlapped>>,
             \/ \E w \in Workers : Drop(w) \/ Answer(w) \/ \E e \in Events : Deliver(w, e) \/ Replay(w, e)
             \/ Crash
      PROVE  OnceInv'
  BY <1>4, <1>5, DeliveryMoves
<1>6. ASSUME NEW w \in Workers, NEW o \in Orders, CreditOrderNow(w, o) PROVE OnceInv'
  <2>1. work' = [work EXCEPT ![w] = [pc |-> "credit", event |-> Event("staff", o)]]
    BY <1>6 DEF CreditOrderNow
  <2>2. work'[w].pc = "credit" /\ work'[w].event.kind = "staff"
    BY <2>1 DEF Typed, WorkTyped, Event
  <2>3. \A v \in Workers : v # w => work'[v] = work[v]
    BY <2>1 DEF Typed, WorkTyped
  <2>4. UNCHANGED <<order, invoice, credits, overlapped>>
    BY <1>6 DEF CreditOrderNow, history
  <2> QED BY <1>4, <2>2, <2>3, <2>4
<1>7. CASE UNCHANGED vars
  BY <1>4, <1>7 DEF vars, stripe, history
<1> QED BY <1>1, <1>2, <1>3, <1>5, <1>6, <1>7, StepCases

LEMMA OnceIsInvariant == Spec => []OnceInv
<1>1. Init => OnceInv
  <2> SUFFICES ASSUME Init PROVE OnceInv
    OBVIOUS
  <2>1. \A w \in Workers : work[w].pc = "idle"
    BY DEF Init, DeliveryInit, Idle
  <2>2. \A i \in InvoiceIds : ~Used(i) /\ credits[i] = 0
    BY DEF Init, Used
  <2> QED BY <2>1, <2>2
          DEF OnceInv, Paying, WritesUsed, NoneYet, PaidAlone, Linked, Uncredited, Pays, Running,
              At, InvoicesOf, Used
<1>2. Inv /\ OnceInv /\ [Next]_vars => OnceInv'
  BY OnceStep DEF Inv
<1> QED BY <1>1, <1>2, InvIsInvariant, PTL DEF Spec

\* A payment whose event two requests never handled at once has one invoice at
\* most, for any number of deliveries, replays, refunds and crashes.
THEOREM PaymentsAreInvoicedOnce == Spec => []InvoicedOnce
<1>1. OnceInv => InvoicedOnce
  <2> SUFFICES ASSUME OnceInv, NEW o \in Orders \ overlapped PROVE Cardinality(InvoicesOf(o)) <= 1
    BY DEF InvoicedOnce
  <2>1. InvoicesOf(o) = {} \/ InvoicesOf(o) = {order[o].invoice}
    BY DEF OnceInv, Linked
  <2>2. CASE InvoicesOf(o) = {}
    BY <2>2, FS_EmptySet
  <2>3. CASE InvoicesOf(o) = {order[o].invoice}
    <3>1. Cardinality({order[o].invoice}) = 1
      BY FS_Singleton
    <3> QED BY <2>3, <3>1
  <2> QED BY <2>1, <2>2, <2>3
<1> QED BY <1>1, OnceIsInvariant, PTL

\* Such a payment is credited once: as an order, or as an invoice, but not as both.
THEOREM PaymentsAreCreditedOnce == Spec => []CreditedOnce
<1>1. OnceInv => CreditedOnce
  BY DEF OnceInv, Uncredited, CreditedOnce, InvoicesOf
<1> QED BY <1>1, OnceIsInvariant, PTL

(***************************************************************************)
(* A refund reaches the order and its invoice.                             *)
(***************************************************************************)

RefundOf(o) == Event("refunded", o)

\* Handlers of an order refunded in turn: Stripe has its answers for all earlier
\* events, so no payment and no partial refund of it runs any more.
Undisturbed(o) ==
    /\ EventsOf(o) \ {RefundOf(o)} \subseteq acked
    /\ \A w \in Workers : ~At(w, "idle") =>
          work[w].event \notin {Event("succeeded", o), Event("partial", o)}

Reached(o) ==
    /\ \A w \in Workers : work[w].pc \in {"read", "write"} /\ ~At(w, "idle")
                          /\ work[w].event = RefundOf(o) => order[o].status # "paid"
    /\ RefundOf(o) \in handled =>
          /\ order[o].status # "paid"
          /\ o \in overlapped \/ \A i \in InvoicesOf(o) : invoice[i].state = "refunded"

\* The invoice a refund writes back is one of its order.
WritesIts(w) == At(w, "write") => work[w].invoice \in InvoicesOf(Its(w))

RefundInv ==
    /\ \A o \in Orders :
          /\ order[o].status = "paid" => order[o].pi
          /\ RefundOf(o) \in sent => intent[o] = "refunded"
          /\ RefundOf(o) \in sent /\ o \notin early => Undisturbed(o) /\ Reached(o)
    /\ \A w \in Workers : WritesIts(w)

\* Staff replay no partial refund: its handler writes back the state of the invoice
\* it read, over a full refund handled in between.
NoPartialReplay == \A e \in Replayable : e.kind # "partial"

\* A step that leaves the tables and the refunds alone.
LEMMA RefundKept ==
    ASSUME Typed, RefundInv, UNCHANGED <<sent, handled, order, intent, invoice, overlapped>>,
           acked \subseteq acked', early \subseteq early',
           \A w \in Workers :
              \/ work'[w] = work[w]
              \/ work'[w].pc = "idle"
              \/ /\ work'[w].pc \in {"delivered", "credit"}
                 /\ \A o \in Orders :
                       work'[w].event \in {Event("succeeded", o), Event("partial", o)}
                       /\ RefundOf(o) \in sent => o \in early' \/ work'[w].event \in sent \ acked
    PROVE  RefundInv'
<1>1. \A o \in Orders : InvoicesOf(o)' = InvoicesOf(o) /\ EventsOf(o)' = EventsOf(o)
  BY DEF InvoicesOf, EventsOf
<1>2. ASSUME NEW w \in Workers PROVE WritesIts(w)'
  BY <1>1, RequestFields DEF RefundInv, WritesIts, At, Its, Typed
<1>3. ASSUME NEW o \in Orders, RefundOf(o) \in sent, o \notin early'
      PROVE  Undisturbed(o)' /\ Reached(o)'
  <2>1. Undisturbed(o) /\ Reached(o) /\ o \notin early
    BY <1>3 DEF RefundInv
  <2>2. Reached(o)'
    BY <1>1, <2>1 DEF Reached, At
  <2>3. RefundOf(o)' = RefundOf(o) /\ Event("succeeded", o)' = Event("succeeded", o)
        /\ Event("partial", o)' = Event("partial", o)
    BY DEF RefundOf, Event
  <2>4. EventsOf(o)' \ {RefundOf(o)} \subseteq acked'
    BY <1>1, <2>1 DEF Undisturbed
  <2>5. ASSUME NEW w \in Workers, work'[w].pc # "idle",
               work'[w].event \in {Event("succeeded", o), Event("partial", o)}
        PROVE  FALSE
    <3>1. work'[w] # work[w]
      BY <2>1, <2>5 DEF Undisturbed, At
    <3>2. work'[w].event \in sent \ acked
      BY <1>3, <2>5, <3>1
    <3>3. work'[w].event \in EventsOf(o) \ {RefundOf(o)}
      BY <2>5, <3>2 DEF EventsOf, Event, RefundOf
    <3> QED BY <2>1, <3>2, <3>3 DEF Undisturbed
  <2> QED BY <2>2, <2>3, <2>4, <2>5 DEF Undisturbed, At
<1> QED BY <1>2, <1>3 DEF RefundInv, RefundOf, Event

\* What is around the handlers: a refund in turn finds all else answered, and after
\* it Stripe has no further event of the order to send.
LEMMA AroundKeepsRefunds ==
    ASSUME Typed, RefundInv, Around
    PROVE  RefundInv'
<1> USE DEF Typed, Tables
<1>1. /\ Typed' /\ UNCHANGED <<work, handled, invoice, overlapped>>
      /\ \A o \in Orders : order'[o].status = order[o].status \/ order[o].status = "none"
  BY AroundKeepsTypes
<1>2. acked' = acked /\ early \subseteq early'
  BY DEF Around, CreateOrder, CreateIntent, CardDeclined, Pay, Refund, CreditInvoice, Supply, Send,
         stripe, history
<1>3. \A o \in Orders : InvoicesOf(o)' = InvoicesOf(o)
  BY <1>1 DEF InvoicesOf
<1>4. \A w \in Workers : WritesIts(w)'
  BY <1>1, <1>3, RequestFields DEF RefundInv, WritesIts, At, Its
<1>5. ASSUME NEW o \in Orders
      PROVE  /\ order'[o].status = "paid" => order[o].status = "paid" /\ order'[o].pi
  <2>1. CASE \E p \in Orders : CreateOrder(p)
    BY <2>1 DEF CreateOrder, Order, RefundInv
  <2>2. CASE \E p \in Orders : CreateIntent(p)
    BY <2>2 DEF CreateIntent, Order, RefundInv
  <2>3. CASE UNCHANGED order
    BY <2>3 DEF RefundInv
  <2> QED BY <2>1, <2>2, <2>3
          DEF Around, CardDeclined, Pay, Refund, CreditInvoice, Supply
<1>6. ASSUME NEW o \in Orders, RefundOf(o) \in sent
      PROVE  /\ intent'[o] = "refunded" /\ EventsOf(o)' = EventsOf(o)
             /\ o \notin early' => Undisturbed(o)' /\ Reached(o)'
  <2>1. intent[o] = "refunded"
    BY <1>6 DEF RefundInv
  <2>2. \/ \E e \in Events : e.order # o /\ sent' = sent \union {e}
        \/ sent' = sent
    BY <2>1, EventFields
       DEF Around, CreateOrder, CreateIntent, CardDeclined, Pay, Refund, CreditInvoice, Supply, Send,
           stripe, Event
  <2>3. EventsOf(o)' = EventsOf(o)
    BY <2>2 DEF EventsOf
  <2>4. intent'[o] = "refunded"
    BY <2>1 DEF Around, CreateOrder, CreateIntent, CardDeclined, Pay, Refund, CreditInvoice, Supply
  <2>5. ASSUME o \notin early' PROVE Undisturbed(o)' /\ Reached(o)'
    <3>1. Undisturbed(o) /\ Reached(o)
      BY <1>2, <1>6, <2>5 DEF RefundInv
    <3>2. Undisturbed(o)'
      BY <1>1, <1>2, <2>3, <3>1 DEF Undisturbed, At, RefundOf, Event
    <3>3. Reached(o)'
      BY <1>1, <1>3, <1>5, <3>1 DEF Reached, At, RefundOf, Event
    <3> QED BY <3>2, <3>3
  <2> QED BY <2>3, <2>4, <2>5
<1>7. ASSUME NEW o \in Orders, RefundOf(o) \notin sent, RefundOf(o) \in sent'
      PROVE  /\ intent'[o] = "refunded"
             /\ o \notin early' => Undisturbed(o)' /\ Reached(o)'
  <2>0. \E p \in Orders, k \in {"partial", "refunded"} : Refund(p, k)
    <3>1. ASSUME NEW p \in Orders, NEW k \in Kinds \ {"refunded"}, Send(Event(k, p)) PROVE FALSE
      BY <1>7, <3>1 DEF Send, RefundOf, Event
    <3> QED BY <1>7, <3>1
            DEF Around, CreateOrder, CreateIntent, CardDeclined, Pay, CreditInvoice, Supply, stripe,
                Kinds
  <2>1. Refund(o, "refunded")
    <3>1. PICK p \in Orders, k \in {"partial", "refunded"} : Refund(p, k)
      BY <2>0
    <3>2. Event("refunded", o) = Event(k, p)
      BY <1>7, <3>1 DEF Refund, Send, RefundOf
    <3>3. o = p /\ k = "refunded"
      BY <3>2 DEF Event
    <3> QED BY <3>1, <3>3
  <2>2. intent'[o] = "refunded" /\ sent' = sent \union {RefundOf(o)}
    BY <2>1 DEF Refund, Send, RefundOf
  <2>3. ASSUME o \notin early' PROVE Undisturbed(o)' /\ Reached(o)'
    <3>1. Quiet(o) /\ EventsOf(o) \subseteq acked
      BY <2>1, <2>3 DEF Refund
    <3>2. EventsOf(o)' \ {RefundOf(o)} \subseteq acked'
      BY <1>2, <2>2, <3>1 DEF EventsOf
    <3>3. \A w \in Workers : ~At(w, "idle") =>
             work[w].event \notin {Event("succeeded", o), Event("partial", o), RefundOf(o)}
      <4>1. \A w \in Workers : ~At(w, "idle") => work[w].event.kind = "staff" \/ work[w].event \in sent
        BY DEF WorkTyped
      <4>2. \A k \in {"succeeded", "partial", "refunded"} :
               Event(k, o).kind # "staff" /\ Event(k, o).order = o
        BY DEF Event
      <4> QED BY <3>1, <4>1, <4>2 DEF Quiet, EventsOf, RefundOf
    <3>4. Undisturbed(o)'
      BY <1>1, <3>2, <3>3 DEF Undisturbed, At, RefundOf, Event
    <3>5. RefundOf(o) \notin handled
      BY <1>7 DEF WorkTyped
    <3>6. Reached(o)'
      BY <1>1, <3>3, <3>5 DEF Reached, At, RefundOf, Event
    <3> QED BY <3>4, <3>6
  <2> QED BY <2>2, <2>3
<1> QED BY <1>4, <1>5, <1>6, <1>7 DEF RefundInv, RefundOf, Event

\* Deliveries, restarts and staff touch no table; what they have handled of an order
\* refunded in turn is the refund, or puts the order out of turn.
LEMMA DeliveryKeepsRefunds ==
    ASSUME NoPartialReplay, Typed, RefundInv,
           \/ \E w \in Workers : \/ UNCHANGED Database /\ (Drop(w) \/ Answer(w))
                                 \/ \E e \in Events : \/ UNCHANGED Database /\ Deliver(w, e)
                                                      \/ ReplayEvent(w, e)
                                 \/ \E o \in Orders : CreditOrderNow(w, o)
           \/ UNCHANGED Database /\ Crash
           \/ UNCHANGED vars
    PROVE  RefundInv'
<1> USE DEF Typed, WorkTyped
<1>1. ASSUME UNCHANGED <<sent, handled, order, intent, invoice, overlapped>>,
             acked \subseteq acked', early \subseteq early',
             \A w \in Workers : work'[w] = work[w] \/ work'[w].pc = "idle"
      PROVE  RefundInv'
  BY <1>1, RefundKept
<1>2. CASE UNCHANGED vars
  BY <1>1, <1>2 DEF vars, stripe, history
<1>3. CASE UNCHANGED Database /\ Crash
  BY <1>1, <1>3 DEF Database, history, Crash, Idle
<1>4. ASSUME NEW w \in Workers, UNCHANGED Database, Drop(w) \/ Answer(w) PROVE RefundInv'
  BY <1>1, <1>4 DEF Database, history, Drop, Answer, Idle
<1>5. ASSUME NEW w \in Workers, NEW e \in Events, UNCHANGED Database, Deliver(w, e) PROVE RefundInv'
  <2>1. work'[w].pc = "delivered" /\ work'[w].event = e /\ e \in sent \ acked
        /\ \A v \in Workers : v # w => work'[v] = work[v]
    BY <1>5 DEF Deliver
  <2>2. UNCHANGED <<sent, acked, handled, order, intent, invoice, overlapped, early>>
    BY <1>5 DEF Deliver, Database, history
  <2> QED BY <2>1, <2>2, RefundKept
<1>6. ASSUME NEW w \in Workers, NEW e \in Events, ReplayEvent(w, e) PROVE RefundInv'
  <2>1. work'[w].pc = "delivered" /\ work'[w].event = e
        /\ \A v \in Workers : v # w => work'[v] = work[v]
    BY <1>6 DEF ReplayEvent, Replay
  <2>2. UNCHANGED <<sent, acked, handled, order, intent, invoice, overlapped>> /\ early \subseteq early'
    BY <1>6 DEF ReplayEvent, Replay
  <2>3. e.kind # "partial"
    BY <1>6 DEF ReplayEvent, NoPartialReplay
  <2>4. \A o \in Orders : e = Event("succeeded", o) /\ RefundOf(o) \in sent => o \in early'
    BY <1>6 DEF ReplayEvent, RefundInv
  <2>5. \A o \in Orders : e # Event("partial", o)
    BY <2>3 DEF Event
  <2> QED BY <2>1, <2>2, <2>4, <2>5, RefundKept
<1>7. ASSUME NEW w \in Workers, NEW p \in Orders, CreditOrderNow(w, p) PROVE RefundInv'
  <2>1. work'[w].pc = "credit" /\ work'[w].event = Event("staff", p)
        /\ \A v \in Workers : v # w => work'[v] = work[v]
    BY <1>7 DEF CreditOrderNow
  <2>2. UNCHANGED <<sent, acked, handled, order, intent, invoice, overlapped, early>>
    BY <1>7 DEF CreditOrderNow, history
  <2>3. \A o \in Orders : work'[w].event \notin {Event("succeeded", o), Event("partial", o)}
    BY <2>1 DEF Event
  <2> QED BY <2>1, <2>2, <2>3, RefundKept
<1> QED BY <1>2, <1>3, <1>4, <1>5, <1>6, <1>7

\* The steps of a handler: what a refund in turn has done stays, since only its own
\* handler still writes to the order, and that one writes "refunded".
LEMMA HandlerKeepsRefunds ==
    ASSUME Inv, OnceInv, RefundInv, NEW w \in Workers,
           HandlerStep(w) \/ HandlerThrows(w) \/ BeginHandler(w)
    PROVE  RefundInv'
<1> Typed /\ WorkTyped
  BY DEF Inv, Typed
<1> USE DEF Typed, Tables
<1>1. UNCHANGED <<sent, acked, intent, early>> /\ overlapped \subseteq overlapped'
  BY DEF HandlerStep, HandlerThrows, BeginHandler, MarkFailed, ReadOrder, MarkPaid, CheckOrder, Credit,
         FindInvoice, EmitInvoice, RefundOrder, ReadInvoice, WriteInvoice, history,
         Begin, Return, Throw
<1>2. ~At(w, "idle")
  BY DEF HandlerStep, HandlerThrows, BeginHandler, MarkFailed, ReadOrder, MarkPaid, CheckOrder, Credit,
         FindInvoice, EmitInvoice, RefundOrder, ReadInvoice, WriteInvoice, Handles, Begin, At
<1>3. /\ WorkTyped' /\ \A v \in Workers : v # w => work'[v] = work[v]
      /\ work'[w].pc # "idle" => work'[w].event = work[w].event
  BY HandlerMoves DEF Idle
<1>4. Its(w) \in Orders
  BY <1>2, RequestFields
<1>5. ASSUME NEW o \in Orders, RefundOf(o) \in sent, o \notin early
      PROVE  /\ Undisturbed(o) /\ Reached(o) /\ Undisturbed(o)'
             /\ work[w].event \notin {Event("succeeded", o), Event("partial", o)}
  <2>1. Undisturbed(o) /\ Reached(o)
    BY <1>5 DEF RefundInv
  <2>2. EventsOf(o)' = EventsOf(o)
    BY <1>1 DEF EventsOf
  <2>3. Undisturbed(o)'
    BY <1>1, <1>2, <1>3, <2>1, <2>2 DEF Undisturbed, At, RefundOf, Event
  <2> QED BY <1>2, <2>1, <2>3 DEF Undisturbed
<1>6. ASSUME NEW o \in Orders
      PROVE  /\ order'[o].status = "paid" => order'[o].pi
             /\ RefundOf(o) \in sent /\ o \notin early =>
                   (order'[o].status = "paid" => order[o].status = "paid")
  <2>1. order[o].status = "paid" => order[o].pi
    BY DEF RefundInv
  <2>2. CASE MarkFailed(w)
    BY <2>1, <2>2 DEF MarkFailed, Order
  <2>3. CASE MarkPaid(w)
    <3>1. work[w].event.kind = "succeeded" /\ work[w].event \in Events
      BY <2>3, HandledEvent DEF MarkPaid, At, OnceInv, Paying
    <3>2. o = Its(w) => work[w].event = Event("succeeded", o)
      BY <3>1, EventFields DEF Its
    <3> QED BY <1>5, <2>1, <2>3, <3>2 DEF MarkPaid, Order
  <2>4. CASE RefundOrder(w)
    BY <2>1, <2>4 DEF RefundOrder, Order
  <2>5. CASE EmitInvoice(w)
    BY <2>1, <2>5 DEF EmitInvoice, Order
  <2>6. CASE UNCHANGED order
    BY <2>1, <2>6
  <2> QED BY <2>2, <2>3, <2>4, <2>5, <2>6
          DEF HandlerStep, HandlerThrows, BeginHandler, ReadOrder, CheckOrder, Credit, FindInvoice,
              ReadInvoice, WriteInvoice
<1>7. \A o \in Orders : InvoicesOf(o) \subseteq InvoicesOf(o)'
  <2>1. CASE EmitInvoice(w)
    BY <2>1 DEF EmitInvoice, Unused, InvoicesOf
  <2>2. CASE WriteInvoice(w)
    <3>1. work[w].state \in {"paid", "refunded"}
      BY <2>2, RequestFields DEF WriteInvoice, At
    <3> QED BY <2>2, <3>1 DEF WriteInvoice, InvoicesOf, Invoice
  <2>3. CASE UNCHANGED invoice
    BY <2>3 DEF InvoicesOf
  <2> QED BY <2>1, <2>2, <2>3
          DEF HandlerStep, HandlerThrows, BeginHandler, MarkFailed, ReadOrder, MarkPaid, CheckOrder,
              Credit, FindInvoice, RefundOrder, ReadInvoice
<1>8. ASSUME NEW v \in Workers PROVE WritesIts(v)'
  <2>1. CASE v # w
    <3>1. ~At(v, "idle") => Its(v) \in Orders
      BY RequestFields
    <3> QED BY <1>3, <1>7, <2>1, <3>1 DEF RefundInv, WritesIts, At, Its
  <2>2. CASE v = w /\ ReadInvoice(w) /\ ~Return(w)
    <3>1. PICK i \in InvoicesOf(Its(w)) :
             work' = [work EXCEPT ![w] = [pc |-> "write", event |-> @.event,
                                          invoice |-> i, state |-> invoice[i].state]]
      BY <2>2 DEF ReadInvoice
    <3>2. work'[w].invoice = i /\ Its(w)' = Its(w)
      BY <3>1 DEF WorkTyped, Its
    <3> QED BY <1>4, <1>7, <2>2, <3>2 DEF WritesIts
  <2>3. CASE v = w /\ ~(ReadInvoice(w) /\ ~Return(w))
    <3>1. \/ Return(w) \/ Throw(w) \/ work' = [work EXCEPT ![w] = Idle]
          \/ \E pc \in Steps : Goto(w, pc)
      BY <2>3 DEF HandlerStep, HandlerThrows, BeginHandler, MarkFailed, ReadOrder, MarkPaid, CheckOrder,
         Credit, FindInvoice, EmitInvoice, RefundOrder, WriteInvoice, Begin, Steps
    <3>2. work'[w].pc # "write"
      BY <3>1 DEF Return, Throw, Goto, Idle, Steps, WorkTyped, Request
    <3> QED BY <2>3, <3>2 DEF WritesIts, At
  <2> QED BY <2>1, <2>2, <2>3
<1>9. ASSUME NEW o \in Orders, RefundOf(o) \in sent, o \notin early, NEW i \in InvoicesOf(o)'
      PROVE  /\ i \in InvoicesOf(o)
             /\ invoice[i].state = "refunded" => invoice'[i].state = "refunded"
  <2>1. CASE EmitInvoice(w)
    <3>1. work[w].event.kind = "succeeded" /\ work[w].event \in Events
      BY <2>1, HandledEvent DEF EmitInvoice, At, OnceInv, Paying
    <3>2. o # Its(w)
      BY <1>5, <1>9, <3>1, EventFields DEF Its
    <3> QED BY <2>1, <3>2, <1>9 DEF EmitInvoice, Unused, InvoicesOf
  <2>2. CASE WriteInvoice(w)
    <3>1. /\ work[w].event \in Events /\ work[w].event.kind \in {"partial", "refunded"}
          /\ work[w].invoice \in InvoicesOf(Its(w)) /\ work[w].state \in {"paid", "refunded"}
      BY <2>2, HandledEvent, RequestFields
         DEF WriteInvoice, At, Inv, PaidInv, Refunding, RefundInv, WritesIts
    <3>2. i \in InvoicesOf(o)
      BY <1>9, <2>2, <3>1 DEF WriteInvoice, InvoicesOf, Invoice
    <3>3. CASE i = work[w].invoice
      <4>1. Its(w) = o
        BY <3>1, <3>2, <3>3 DEF InvoicesOf
      <4>2. work[w].event.kind = "refunded"
        BY <1>5, <1>9, <3>1, <4>1, EventFields DEF Its
      <4> QED BY <2>2, <3>2, <3>3, <4>2 DEF WriteInvoice, InvoicesOf, Invoice
    <3>4. CASE i # work[w].invoice
      BY <2>2, <3>2, <3>4 DEF WriteInvoice, InvoicesOf
    <3> QED BY <3>2, <3>3, <3>4
  <2>3. CASE UNCHANGED invoice
    BY <1>9, <2>3 DEF InvoicesOf
  <2> QED BY <2>1, <2>2, <2>3
          DEF HandlerStep, HandlerThrows, BeginHandler, MarkFailed, ReadOrder, MarkPaid, CheckOrder,
              Credit, FindInvoice, RefundOrder, ReadInvoice
<1>10. ASSUME NEW o \in Orders, RefundOf(o) \in sent, o \notin early,
              work'[w].pc \in {"read", "write"}, work'[w].event = RefundOf(o)
       PROVE  order'[o].status # "paid"
  <2>1. work[w].event = RefundOf(o) /\ work'[w].pc # "idle"
    BY <1>3, <1>10
  <2>2. CASE RefundOrder(w)
    <3>1. o = Its(w) /\ work[w].event.kind = "refunded"
      BY <2>1 DEF RefundOf, Event, Its
    <3>2. order[o].status = "paid" => Refundable(o)
      BY DEF RefundInv, Refundable
    <3> QED BY <2>2, <3>1, <3>2 DEF RefundOrder, Handles, Order
  <2>3. CASE ReadInvoice(w)
    BY <1>2, <1>5, <1>6, <1>10, <2>1, <2>3 DEF ReadInvoice, Reached, At
  <2>4. CASE ~RefundOrder(w) /\ ~ReadInvoice(w)
    <3>1. \/ Return(w) \/ Throw(w) \/ work' = [work EXCEPT ![w] = Idle]
          \/ \E pc \in Steps \ {"read"} : Goto(w, pc)
      BY <2>4 DEF HandlerStep, HandlerThrows, BeginHandler, MarkFailed, ReadOrder, MarkPaid, CheckOrder,
         Credit, FindInvoice, EmitInvoice, WriteInvoice, Begin, Steps
    <3>2. work'[w].pc \notin {"read", "write"}
      BY <3>1 DEF Return, Throw, Goto, Idle, Steps, WorkTyped, Request
    <3> QED BY <1>10, <3>2
  <2> QED BY <2>2, <2>3, <2>4
<1>11. ASSUME NEW o \in Orders, RefundOf(o) \in sent, o \notin early, RefundOf(o) \in handled'
       PROVE  /\ order'[o].status # "paid"
              /\ o \in overlapped' \/ \A i \in InvoicesOf(o)' : invoice'[i].state = "refunded"
  <2>1. CASE RefundOf(o) \in handled
    BY <1>1, <1>5, <1>6, <1>9, <1>11, <2>1 DEF Reached
  <2>2. CASE RefundOf(o) \notin handled
    <3>1. work[w].event = RefundOf(o)
      BY <1>11, <2>2
         DEF HandlerStep, HandlerThrows, BeginHandler, MarkFailed, ReadOrder, MarkPaid, CheckOrder,
             Credit, FindInvoice, EmitInvoice, RefundOrder, ReadInvoice, WriteInvoice, Begin,
             Return, Throw
    <3>2. work[w].event.kind = "refunded" /\ Its(w) = o
      BY <3>1 DEF RefundOf, Event, Its
    <3>3. ~MarkFailed(w) /\ ~ReadOrder(w) /\ ~FindInvoice(w) /\ ~EmitInvoice(w)
      BY <3>2 DEF MarkFailed, ReadOrder, FindInvoice, EmitInvoice, Handles, At, OnceInv, Paying
    <3>4. (ReadInvoice(w) /\ InvoicesOf(o) = {}) \/ WriteInvoice(w)
      BY <1>11, <2>2, <3>2, <3>3
         DEF HandlerStep, HandlerThrows, BeginHandler, MarkPaid, CheckOrder, Credit, RefundOrder,
             ReadInvoice, Begin, Throw
    <3>5. order'[o].status # "paid"
      <4>1. work[w].pc \in {"read", "write"}
        BY <3>4 DEF ReadInvoice, WriteInvoice, At
      <4> QED BY <1>2, <1>5, <1>6, <1>11, <3>1, <4>1 DEF Reached
    <3>6. ASSUME o \notin overlapped', NEW i \in InvoicesOf(o)' PROVE invoice'[i].state = "refunded"
      <4>1. o \notin overlapped /\ i \in InvoicesOf(o)
        BY <1>1, <1>9, <1>11, <3>6
      <4>2. WriteInvoice(w) /\ work[w].invoice \in InvoicesOf(o)
        BY <3>2, <3>4, <4>1 DEF WriteInvoice, RefundInv, WritesIts
      <4>3. i = work[w].invoice
        BY <4>1, <4>2 DEF OnceInv, Linked
      <4> QED BY <3>2, <4>2, <4>3 DEF WriteInvoice, InvoicesOf, Invoice
    <3> QED BY <3>5, <3>6
  <2> QED BY <2>1, <2>2
<1>12. ASSUME NEW o \in Orders, RefundOf(o) \in sent, o \notin early PROVE Reached(o)'
  <2>1. \A v \in Workers : v # w => (work'[v].pc \in {"read", "write"} /\ ~At(v, "idle")'
                                       /\ work'[v].event = RefundOf(o) => order'[o].status # "paid")
    BY <1>3, <1>5, <1>6, <1>12 DEF Reached, At
  <2> QED BY <1>10, <1>11, <1>12, <2>1 DEF Reached, RefundOf, Event
<1> QED
  <2>1. \A o \in Orders : RefundOf(o)' = RefundOf(o)
    BY DEF RefundOf, Event
  <2> QED BY <1>1, <1>5, <1>6, <1>8, <1>12, <2>1 DEF RefundInv

\* Every step keeps the invariant of refunds.
LEMMA RefundStep ==
    ASSUME NoPartialReplay
    PROVE  Inv /\ OnceInv /\ RefundInv /\ [Next]_vars => RefundInv'
<1> SUFFICES ASSUME Inv, OnceInv, RefundInv, [Next]_vars PROVE RefundInv'
  OBVIOUS
<1>1. Typed
  BY DEF Inv
<1>2. CASE Around
  BY <1>1, <1>2, AroundKeepsRefunds
<1>3. ASSUME NEW w \in Workers, HandlerStep(w) \/ HandlerThrows(w) \/ BeginHandler(w)
      PROVE  RefundInv'
  BY <1>3, HandlerKeepsRefunds
<1>4. CASE \/ \E w \in Workers : \/ UNCHANGED Database /\ (Drop(w) \/ Answer(w))
                                 \/ \E e \in Events : \/ UNCHANGED Database /\ Deliver(w, e)
                                                      \/ ReplayEvent(w, e)
                                 \/ \E o \in Orders : CreditOrderNow(w, o)
           \/ UNCHANGED Database /\ Crash
           \/ UNCHANGED vars
  BY <1>1, <1>4, DeliveryKeepsRefunds
<1> QED BY <1>2, <1>3, <1>4 DEF Next, Around

\* A refund in turn reaches the order and its invoice, for any number of requests,
\* orders, deliveries and crashes, if staff replay no partial refund: that handler
\* writes back the state of the invoice it has read.
THEOREM RefundsReachOrders == ASSUME NoPartialReplay PROVE Spec => []RefundReachesOrder
<1>1. Init => RefundInv
  <2> SUFFICES ASSUME Init PROVE RefundInv
    OBVIOUS
  <2>1. sent = {} /\ \A w \in Workers : work[w].pc = "idle"
    BY DEF Init, DeliveryInit, Idle
  <2>2. \A o \in Orders : order[o].status = "none"
    BY DEF Init
  <2> QED BY <2>1, <2>2 DEF RefundInv, WritesIts, At
<1>2. Inv /\ OnceInv /\ RefundInv /\ [Next]_vars => RefundInv'
  BY RefundStep
<1>3. RefundInv => RefundReachesOrder
  <2> SUFFICES ASSUME RefundInv, NEW o \in Orders \ early, RefundDone(o)
               PROVE  /\ order[o].status # "paid"
                      /\ o \in overlapped \/ \A i \in InvoicesOf(o) : invoice[i].state = "refunded"
    BY DEF RefundReachesOrder
  <2>1. RefundOf(o) \in sent /\ RefundOf(o) \in handled
    BY DEF RefundDone, EventsOf, RefundOf, Event
  <2> QED BY <2>1 DEF RefundInv, Reached
<1> QED BY <1>1, <1>2, <1>3, InvIsInvariant, OnceIsInvariant, PTL DEF Spec
==============================================================================
