---------------------------- MODULE HoursPurchase ----------------------------
(***************************************************************************)
(* An order of hours paid by card on /servicii: the order and its payment  *)
(* intent, the webhook handlers that mark it paid, credit its hours and    *)
(* emit its invoice, refunds, and the staff who credit what the webhook    *)
(* did not. The events of Stripe reach the handlers as EventDelivery says. *)
(*                                                                         *)
(* A worker is one request, work[w].pc the next call it makes.             *)
(***************************************************************************)
EXTENDS EventDelivery, Naturals, FiniteSets

CONSTANTS Orders,
          Replayable,   \* events that staff may have replayed
          Given,        \* what the tenant has from the start: "reference", "bnr"
          InvoiceIds    \* bound: invoices ever inserted

Kinds == {"failed", "succeeded", "partial", "refunded"}
Event(k, o) == [kind |-> k, order |-> o]
Null == 0   \* SQL NULL in order.invoiceId

ASSUME HoursPurchaseAssumption ==
    /\ Events \subseteq [kind : Kinds, order : Orders]
    /\ Replayable \subseteq Events /\ Given \subseteq {"reference", "bnr"}
    /\ Orders # {} /\ InvoiceIds \subseteq Nat \ {Null} /\ Orders \intersect InvoiceIds = {}

VARIABLES
    order,       \* service_hours_order
    intent,      \* the payment intent of the order, at Stripe
    mismatched,  \* orders whose intent is not over their gross amount in RON
    invoice,     \* the invoices the emitter inserted
    credits,     \* rows of client_hour_ledger, by source
    has,         \* what the tenant has: a reference rate, a BNR exchange rate
    overlapped,  \* history: orders whose payment two requests handled at once
    early        \* history: orders refunded, or replayed to paid, out of turn

stripe == <<sent, acked, handled, work>>
history == <<overlapped, early>>
vars == <<stripe, order, intent, mismatched, invoice, credits, has, history>>

Order == [status : {"none", "pending_payment", "paid", "failed", "refunded"},
          pi : BOOLEAN, invoice : InvoiceIds \union {Null}]
Invoice == [state : {"unused", "paid", "refunded"}, order : Orders]

InvoicesOf(o) == {i \in InvoiceIds : invoice[i].state # "unused" /\ invoice[i].order = o}
Unused == {i \in InvoiceIds : /\ invoice[i].state = "unused"
                              /\ \A j \in InvoiceIds : j < i => invoice[j].state # "unused"}

Init ==
    /\ DeliveryInit
    /\ order = [o \in Orders |-> [status |-> "none", pi |-> FALSE, invoice |-> Null]]
    /\ intent = [o \in Orders |-> "none"]
    /\ mismatched \in SUBSET Orders
    /\ invoice = [i \in InvoiceIds |-> [state |-> "unused", order |-> CHOOSE o \in Orders : TRUE]]
    /\ credits = [s \in Orders \union InvoiceIds |-> 0]
    /\ has = Given
    /\ overlapped = {} /\ early = {}

(***************************************************************************)
(* The order form: the row first, then the intent, whose id is stored      *)
(* before the customer gets the secret to pay with.                        *)
(***************************************************************************)

CreateOrder(o) ==
    /\ order[o].status = "none"
    /\ order' = [order EXCEPT ![o].status = "pending_payment"]
    /\ UNCHANGED <<stripe, intent, invoice, credits, has, mismatched, history>>

CreateIntent(o) ==
    /\ order[o].status = "pending_payment" /\ intent[o] = "none"
    /\ intent' = [intent EXCEPT ![o] = "open"]
    /\ order' = [order EXCEPT ![o].pi = TRUE]
    /\ UNCHANGED <<stripe, invoice, credits, has, mismatched, history>>

(***************************************************************************)
(* The customer and Stripe.                                                *)
(***************************************************************************)

CardDeclined(o) ==
    /\ intent[o] = "open"
    /\ Send(Event("failed", o))
    /\ UNCHANGED <<order, intent, invoice, credits, has, mismatched, history>>

Pay(o) ==
    /\ intent[o] = "open"
    /\ intent' = [intent EXCEPT ![o] = "succeeded"]
    /\ Send(Event("succeeded", o))
    /\ UNCHANGED <<order, invoice, credits, has, mismatched, history>>

EventsOf(o) == {e \in sent : e.order = o}
Quiet(o) == \A w \in Workers : At(w, "idle") \/ work[w].event \notin EventsOf(o)

Refund(o, k) ==
    /\ intent[o] = "succeeded"
    /\ intent' = [intent EXCEPT ![o] = IF k = "refunded" THEN k ELSE @]
    /\ early' = IF Quiet(o) /\ EventsOf(o) \subseteq acked THEN early ELSE early \union {o}
    /\ Send(Event(k, o))
    /\ UNCHANGED <<order, invoice, credits, has, mismatched, overlapped>>

(***************************************************************************)
(* payment_intent.payment_failed.                                          *)
(***************************************************************************)

Handles(w, pc, k) == At(w, pc) /\ work[w].event.kind = k
Its(w) == work[w].event.order

DeclinableWhenPaid(o) == order[o].status \in {"pending_payment", "paid"}
Declinable(o) == order[o].status = "pending_payment"

MarkFailed(w) ==
    /\ Handles(w, "handle", "failed")
    /\ order' = IF Declinable(Its(w)) THEN [order EXCEPT ![Its(w)].status = "failed"] ELSE order
    /\ Return(w)
    /\ UNCHANGED <<intent, invoice, credits, has, mismatched, history>>

(***************************************************************************)
(* payment_intent.succeeded: the order is read, marked paid whatever its   *)
(* status has become, credited, and invoiced. Errors after "mark" are      *)
(* logged and the handler goes on.                                         *)
(***************************************************************************)

PendingToBePaid(o) == order[o].status = "pending_payment" /\ o \notin mismatched
ToBePaid(o) == order[o].status # "paid" /\ o \notin mismatched

ReadOrder(w) ==
    /\ Handles(w, "handle", "succeeded")
    /\ IF ToBePaid(Its(w)) THEN Goto(w, "mark") /\ UNCHANGED <<sent, acked, handled>>
       ELSE Return(w)
    /\ UNCHANGED <<order, intent, invoice, credits, has, mismatched, history>>

MarkPaid(w) ==
    /\ At(w, "mark")
    /\ order' = [order EXCEPT ![Its(w)].status = "paid", ![Its(w)].pi = TRUE]
    /\ Goto(w, "check")
    /\ UNCHANGED <<sent, acked, handled, intent, invoice, credits, has, mismatched, history>>

\* creditPaidHoursOrder: the checks, then the transaction.
Creditable(o) == order[o].status = "paid" /\ "reference" \in has

CheckOrder(w) ==
    /\ At(w, "check")
    /\ \/ Creditable(Its(w)) /\ Goto(w, "credit")
       \/ Goto(w, "find")
    /\ UNCHANGED <<sent, acked, handled, order, intent, invoice, credits, has, mismatched, history>>

\* The unique index on (kind, source): the second row of a source is refused.
Entry(s) == [credits EXCEPT ![s] = IF @ = 0 THEN 1 ELSE @]

Credit(w) ==
    /\ At(w, "credit")
    /\ credits' \in {credits, Entry(Its(w))}
    /\ IF work[w].event.kind = "staff" THEN work' = [work EXCEPT ![w] = Idle] ELSE Goto(w, "find")
    /\ UNCHANGED <<sent, acked, handled, order, intent, invoice, has, mismatched, history>>

\* An invoice with the intent of the order exists.
LinkedToPaid(o) == \E i \in InvoicesOf(o) : invoice[i].state = "paid"
Emitted(o) == InvoicesOf(o) # {}

FindInvoice(w) ==
    /\ At(w, "find")
    /\ \/ /\ ~Emitted(Its(w)) /\ "bnr" \in has
          /\ Goto(w, "emit") /\ UNCHANGED <<sent, acked, handled>>
       \/ Return(w)
    /\ UNCHANGED <<order, intent, invoice, credits, has, mismatched, history>>

\* Invoice, line and the link from the order in one transaction, or none of
\* them; the handler returns in both cases.
EmitInvoice(w) ==
    /\ At(w, "emit")
    /\ \/ UNCHANGED <<invoice, order>>
       \/ \E i \in Unused :
             /\ invoice' = [invoice EXCEPT ![i] = [state |-> "paid", order |-> Its(w)]]
             /\ order' = [order EXCEPT ![Its(w)].invoice = i]
    /\ Return(w)
    /\ UNCHANGED <<intent, credits, has, mismatched, history>>

(***************************************************************************)
(* charge.refunded, full or partial: the order, then the invoice, whose    *)
(* status is read and written back in two calls.                           *)
(***************************************************************************)

RefundableIfInvoiced(o) == order[o].status = "paid" /\ order[o].invoice # Null
Refundable(o) == order[o].pi /\ order[o].status = "paid"

RefundOrder(w) ==
    /\ \/ Handles(w, "handle", "partial") /\ UNCHANGED order
       \/ /\ Handles(w, "handle", "refunded")
          /\ order' = IF Refundable(Its(w)) THEN [order EXCEPT ![Its(w)].status = "refunded"]
                      ELSE order
    /\ Goto(w, "read")
    /\ UNCHANGED <<sent, acked, handled, intent, invoice, credits, has, mismatched, history>>

ReadInvoice(w) ==
    /\ At(w, "read")
    /\ \/ InvoicesOf(Its(w)) = {} /\ Return(w)
       \/ \E i \in InvoicesOf(Its(w)) :
             /\ work' = [work EXCEPT ![w] = [pc |-> "write", event |-> @.event,
                                             invoice |-> i, state |-> invoice[i].state]]
             /\ UNCHANGED <<sent, acked, handled>>
    /\ UNCHANGED <<order, intent, invoice, credits, has, mismatched, history>>

WriteInvoice(w) ==
    /\ At(w, "write")
    /\ invoice' = [invoice EXCEPT ![work[w].invoice].state =
                      IF work[w].event.kind = "refunded" THEN "refunded" ELSE work[w].state]
    /\ Return(w)
    /\ UNCHANGED <<order, intent, credits, has, mismatched, history>>

(***************************************************************************)
(* What may happen to any handler: two requests run it at once, one of the *)
(* calls throws whose exceptions nothing catches, the process is killed.   *)
(***************************************************************************)

BeginHandler(w) ==
    /\ Begin(w)
    /\ overlapped' = overlapped \union
          {o \in Orders : /\ work[w].event = Event("succeeded", o)
                          /\ \E v \in Workers : Running(v, work[w].event)}
    /\ UNCHANGED <<order, intent, invoice, credits, has, mismatched, early>>

HandlerThrows(w) ==
    /\ work[w].pc \in {"handle", "mark", "read", "write"}
    /\ Throw(w)
    /\ UNCHANGED <<order, intent, invoice, credits, has, mismatched, history>>

(***************************************************************************)
(* Staff, and the data a tenant gets in time.                              *)
(***************************************************************************)

\* creditPaidHoursOrder again, past its checks.
CreditOrderNow(w, o) ==
    /\ At(w, "idle") /\ Creditable(o)
    /\ work' = [work EXCEPT ![w] = [pc |-> "credit", event |-> Event("staff", o)]]
    /\ UNCHANGED <<sent, acked, handled, order, intent, invoice, credits, has, mismatched, history>>

\* The replay of a payment already refunded is out of turn, as is a refund before
\* Stripe has all answers for the order.
ReplayEvent(w, e) ==
    /\ e \in Replayable /\ Replay(w, e)
    /\ early' = early \union {o \in Orders : e = Event("succeeded", o) /\ intent[o] = "refunded"}
    /\ UNCHANGED <<order, intent, invoice, credits, has, mismatched, overlapped>>

NoInvoiceIsOfAnOrder(i) == FALSE
IsHoursOrderInvoice(i) == \E o \in Orders : order[o].invoice = i

\* creditPaidInvoice, by staff or by the Keez synchronisation, for a client whose
\* invoices feed the credit.
CreditInvoice(i) ==
    /\ invoice[i].state = "paid" /\ ~IsHoursOrderInvoice(i) /\ "reference" \in has
    /\ credits' = Entry(i)
    /\ UNCHANGED <<stripe, order, intent, invoice, has, mismatched, history>>

Supply(x) ==
    /\ x \notin has
    /\ has' = has \union {x}
    /\ UNCHANGED <<stripe, order, intent, invoice, credits, mismatched, history>>

HandlerStep(w) ==
    \/ MarkFailed(w)
    \/ ReadOrder(w) \/ MarkPaid(w) \/ CheckOrder(w) \/ Credit(w)
    \/ FindInvoice(w) \/ EmitInvoice(w)
    \/ RefundOrder(w) \/ ReadInvoice(w) \/ WriteInvoice(w)

Database == <<order, intent, mismatched, invoice, credits, has, history>>

Next ==
    \/ \E o \in Orders : \/ CreateOrder(o) \/ CreateIntent(o) \/ CardDeclined(o) \/ Pay(o)
                         \/ \E k \in {"partial", "refunded"} : Refund(o, k)
                         \/ \E w \in Workers : CreditOrderNow(w, o)
    \/ \E w \in Workers : \/ BeginHandler(w) \/ HandlerStep(w) \/ HandlerThrows(w)
                          \/ UNCHANGED Database /\ (Drop(w) \/ Answer(w))
                          \/ \E e \in Events : \/ UNCHANGED Database /\ Deliver(w, e)
                                             \/ ReplayEvent(w, e)
    \/ UNCHANGED Database /\ Crash
    \/ \E i \in InvoiceIds : CreditInvoice(i)
    \/ \E x \in {"reference", "bnr"} : Supply(x)

(***************************************************************************)
(* Fairness: requests run on, Stripe delivers what it has no 200 for,      *)
(* staff replay what they may, and exchange rates arrive. A customer does  *)
(* what he wants.                                                          *)
(***************************************************************************)

Fairness ==
    /\ \A w \in Workers : WF_vars(\/ BeginHandler(w) \/ HandlerStep(w)
                                  \/ UNCHANGED Database /\ Answer(w))
    /\ \A e \in Events : SF_vars(\E w \in Workers : UNCHANGED Database /\ Deliver(w, e))
    /\ \A e \in Replayable : SF_vars(\E w \in Workers : ReplayEvent(w, e))
    /\ \A x \in {"reference", "bnr"} : WF_vars(Supply(x))

Spec == Init /\ [][Next]_vars
FairSpec == Spec /\ Fairness

(***************************************************************************)
(* Properties.                                                             *)
(***************************************************************************)

Request ==
    {Idle}
    \union [pc : {"delivered", "handle", "mark", "check", "credit", "find", "emit", "read", "ended"},
            event : Events]
    \union [pc : {"write"}, event : Events, invoice : InvoiceIds, state : {"paid", "refunded"}]
    \union [pc : {"credit"}, event : [kind : {"staff"}, order : Orders]]

\* The tables hold what their columns allow, among it one ledger row per source.
TypeOK ==
    /\ sent \subseteq Events /\ acked \subseteq sent /\ handled \subseteq sent
    /\ work \in [Workers -> Request]
    /\ order \in [Orders -> Order]
    /\ intent \in [Orders -> {"none", "open", "succeeded", "refunded"}] /\ mismatched \subseteq Orders
    /\ invoice \in [InvoiceIds -> Invoice]
    /\ credits \in [Orders \union InvoiceIds -> 0..1]
    /\ has \subseteq {"reference", "bnr"}
    /\ overlapped \subseteq Orders /\ early \subseteq Orders

\* When the handler of a payment has returned, the order is paid: also after a
\* declined card and the success of another, and whatever was interrupted before.
HandledIsPaid ==
    \A o \in Orders \ mismatched :
        Event("succeeded", o) \in handled => order[o].status \in {"paid", "refunded"}

\* A decline delivered after the payment does not undo it (hours-purchase.ts:193).
LateDeclineIsIgnored ==
    [][\A o \in Orders : order[o].status \in {"paid", "refunded"}
                            => order'[o].status \in {"paid", "refunded"}]_vars

\* A payment has one invoice, however often its event is delivered, interrupted
\* and reordered with refunds, as long as two handlers of it do not run together
\* (emit-keez-hours-invoice.ts: a look-up by intent, without a unique index).
InvoicedOnce == \A o \in Orders \ overlapped : Cardinality(InvoicesOf(o)) <= 1

\* A payment is credited once: as an order by the webhook and by staff, or as an
\* invoice, which is excluded because the order links to it. A second invoice
\* takes that link from the first, so here too handlers must not overlap.
CreditedOnce ==
    \A o \in Orders \ overlapped :
        credits[o] = 0 \/ \A i \in InvoicesOf(o) : credits[i] = 0

RefundDone(o) ==
    /\ intent[o] = "refunded" /\ Event("refunded", o) \in sent
    /\ Quiet(o) /\ EventsOf(o) \subseteq acked \intersect handled

\* When all events of a refunded order are through, it is not left paid, nor its
\* invoice, unless Stripe still waited for the answer to an earlier event when
\* the refund was made, or the order has two invoices.
RefundReachesOrder ==
    \A o \in Orders \ early : RefundDone(o) =>
        /\ order[o].status # "paid"
        /\ o \in overlapped \/ \A i \in InvoicesOf(o) : invoice[i].state = "refunded"

\* A paid order gets its invoice: hours-purchase.ts:115 says of an emission that
\* failed, and emit-keez-hours-invoice.ts:21 of one skipped for want of an
\* exchange rate, that staff resume it.
PaidIsInvoiced ==
    \A o \in Orders : order[o].status = "paid"
                         ~> InvoicesOf(o) # {} \/ order[o].status = "refunded"
=============================================================================
