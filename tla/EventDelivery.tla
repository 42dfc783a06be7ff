---------------------------- MODULE EventDelivery ----------------------------
(***************************************************************************)
(* What the handler of a Stripe event may rely on: the event is delivered  *)
(* until it is answered 200, to any number of requests; a delivery either  *)
(* begins the handler or is dropped; a handler returns or throws, or the   *)
(* process is killed under it. Nothing keeps two requests from handling    *)
(* the same event, nothing keeps events in order, and staff may replay any *)
(* of them. StripeEvents shows that the webhook route promises this, and   *)
(* when it promises more.                                                  *)
(***************************************************************************)
CONSTANTS Workers, Events

VARIABLES
    sent,     \* the events Stripe has created
    acked,    \* the events Stripe has a 200 for: delivered no more
    handled,  \* the events whose handler returned, once at least
    work      \* what each request is doing

Idle == [pc |-> "idle"]
At(w, pc) == work[w].pc = pc
Goto(w, pc) == work' = [work EXCEPT ![w].pc = pc]
Running(w, e) == work[w].pc \notin {"idle", "delivered", "ended"} /\ work[w].event = e

DeliveryInit ==
    /\ sent = {} /\ acked = {} /\ handled = {}
    /\ work = [w \in Workers |-> Idle]

Send(e) ==
    /\ e \in Events \ sent
    /\ sent' = sent \union {e}
    /\ UNCHANGED <<acked, handled, work>>

Deliver(w, e) ==
    /\ At(w, "idle") /\ e \in sent \ acked
    /\ work' = [work EXCEPT ![w] = [pc |-> "delivered", event |-> e]]
    /\ UNCHANGED <<sent, acked, handled>>

\* Staff have the handler run again, also for an event Stripe has a 200 for.
Replay(w, e) ==
    /\ At(w, "idle") /\ e \in sent
    /\ work' = [work EXCEPT ![w] = [pc |-> "delivered", event |-> e]]
    /\ UNCHANGED <<sent, acked, handled>>

Begin(w) ==
    /\ At(w, "delivered")
    /\ Goto(w, "handle")
    /\ UNCHANGED <<sent, acked, handled>>

\* A duplicate, an event in flight, an error; an answer of 200 among them.
Drop(w) ==
    /\ At(w, "delivered")
    /\ work' = [work EXCEPT ![w] = Idle]
    /\ acked' \in {acked, acked \union {work[w].event}}
    /\ UNCHANGED <<sent, handled>>

Return(w) ==
    /\ work' = [work EXCEPT ![w] = [pc |-> "ended", event |-> work[w].event]]
    /\ handled' = handled \union {work[w].event}
    /\ UNCHANGED <<sent, acked>>

Throw(w) ==
    /\ work' = [work EXCEPT ![w] = [pc |-> "ended", event |-> work[w].event]]
    /\ UNCHANGED <<sent, acked, handled>>

\* The answer may get lost, or come after Stripe stopped waiting for it.
Answer(w) ==
    /\ At(w, "ended")
    /\ work' = [work EXCEPT ![w] = Idle]
    /\ acked' \in {acked, acked \union ({work[w].event} \intersect handled)}
    /\ UNCHANGED <<sent, handled>>

Crash ==
    /\ work' = [w \in Workers |-> Idle]
    /\ UNCHANGED <<sent, acked, handled>>

Delivery(w) == Begin(w) \/ Drop(w) \/ Answer(w)

DeliveryNext ==
    \/ \E e \in Events : Send(e) \/ \E w \in Workers : Deliver(w, e) \/ Replay(w, e)
    \/ \E w \in Workers : Delivery(w) \/ (At(w, "handle") /\ (Return(w) \/ Throw(w)))
    \/ Crash

DeliverySpec == DeliveryInit /\ [][DeliveryNext]_<<sent, acked, handled, work>>
=============================================================================
