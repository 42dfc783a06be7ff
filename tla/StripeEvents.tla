---------------------------- MODULE StripeEvents ----------------------------
(***************************************************************************)
(* How the Stripe webhook claims an event. A request first finds out whose *)
(* event it is, and lets go of one that seems nobody's. It then inserts a  *)
(* row of processed_stripe_event, whose primary key is the event; one that *)
(* finds the row there looks at it, and leaves, asks for a retry, or takes *)
(* the row over. Staff may replay an event whose row is there. The handler *)
(* of the event is one step here.                                          *)
(*                                                                         *)
(* A worker is one request. A mishap is a database call that fails, a      *)
(* handler that throws or a process that is killed; MaxMishaps bounds      *)
(* their number.                                                           *)
(***************************************************************************)
EXTENDS Naturals

CONSTANTS Workers, Events,
          MaxMishaps   \* bound: failed calls and restarts

ASSUME StripeEventsAssumption == MaxMishaps \in Nat

VARIABLES
    row,         \* processed_stripe_event, by event
    sent,        \* the events Stripe has created
    named,       \* those of them whose object names its tenant in the metadata
    acked,       \* the events Stripe has a 200 for: delivered no more
    work,        \* what each request is doing
    mishaps,
    handled,     \* history: events whose handler returned
    raced,       \* history: events answered 200 as a lost race for the row
    untenanted,  \* history: events answered 200 because no tenant was found
    outrun       \* history: events with a request that time or a replay passed over

tenancy == <<named, untenanted>>
vars == <<row, sent, acked, work, mishaps, handled, raced, outrun, tenancy>>

\* age is that of startedAt: 1 is more than ten minutes, 2 more than an hour.
Row == [status : {"absent", "processing", "completed", "failed"}, age : 0..2]
Absent == [status |-> "absent", age |-> 0]

Idle == [pc |-> "idle"]
Request == {Idle} \union
    [pc : {"resolve", "insert", "lookup", "takeover", "handle", "complete", "fail"},
     event : Events, claim : {"none", "insert", "takeover", "replay"}]

Init ==
    /\ row = [e \in Events |-> Absent]
    /\ sent = {} /\ acked = {} /\ handled = {} /\ raced = {} /\ outrun = {}
    /\ named = {} /\ untenanted = {}
    /\ work = [w \in Workers |-> Idle]
    /\ mishaps = 0

At(w, pc) == work[w].pc = pc
Goto(w, pc) == work' = [work EXCEPT ![w].pc = pc]
GotoAs(w, pc, claim) == work' = [work EXCEPT ![w].pc = pc, ![w].claim = claim]
Mishap == mishaps < MaxMishaps /\ mishaps' = mishaps + 1

\* The answer may get lost, or come after Stripe stopped waiting for it; that to
\* a replay goes to the staff.
Answer200(w) ==
    /\ work' = [work EXCEPT ![w] = Idle]
    /\ acked' \in {acked, IF work[w].claim = "replay" THEN acked
                         ELSE acked \union {work[w].event}}

RetryLater(w) ==
    /\ work' = [work EXCEPT ![w] = Idle]
    /\ UNCHANGED acked

\* An UPDATE by primary key: nothing happens when the row is gone.
Update(e, status) ==
    IF row[e] = Absent THEN row
    ELSE [row EXCEPT ![e] = [status |-> status, age |-> 0]]

(***************************************************************************)
(* Stripe creates an event, and delivers it until it is answered 200,      *)
(* possibly to several requests at once. The object of the event carries   *)
(* the metadata of what the CRM created, or does not: renewals, disputes   *)
(* and some refunds have none.                                             *)
(***************************************************************************)

Send(e) ==
    /\ e \notin sent
    /\ sent' = sent \union {e}
    /\ named' \in {named, named \union {e}}
    /\ UNCHANGED <<row, acked, work, mishaps, handled, raced, untenanted, outrun>>

Deliver(w, e) ==
    /\ At(w, "idle") /\ e \in sent \ acked
    /\ work' = [work EXCEPT ![w] = [pc |-> "resolve", event |-> e, claim |-> "none"]]
    /\ UNCHANGED <<row, sent, acked, mishaps, handled, raced, outrun, tenancy>>

(***************************************************************************)
(* Whose event it is. What the object does not name is looked up by the    *)
(* Stripe customer and by the payment intent, in tables that others change *)
(* between two deliveries; an event found nowhere is answered 200, without *)
(* a row and without a handler. The signature is checked after that, with  *)
(* the secret of the tenant: a missing secret or a bad signature is a      *)
(* mishap (Abort).                                                         *)
(***************************************************************************)

Resolve(w) ==
    LET e == work[w].event IN
    /\ At(w, "resolve")
    /\ \/ Goto(w, "insert") /\ UNCHANGED <<acked, untenanted>>
       \/ e \notin named /\ Answer200(w) /\ untenanted' = untenanted \union {e}
    /\ UNCHANGED <<row, sent, named, mishaps, handled, raced, outrun>>

(***************************************************************************)
(* The claim. Any error of the INSERT leads to the look-up, be it the      *)
(* primary key or a busy database.                                         *)
(***************************************************************************)

Insert(w) ==
    /\ At(w, "insert")
    /\ row[work[w].event] = Absent
    /\ row' = [row EXCEPT ![work[w].event] = [status |-> "processing", age |-> 0]]
    /\ GotoAs(w, "handle", "insert")
    /\ UNCHANGED <<sent, acked, mishaps, handled, raced, outrun, tenancy>>

InsertFails(w) ==
    /\ At(w, "insert")
    /\ \/ row[work[w].event] # Absent /\ UNCHANGED mishaps
       \/ Mishap
    /\ Goto(w, "lookup")
    /\ UNCHANGED <<row, sent, acked, handled, raced, outrun, tenancy>>

IsDuplicateOrFailed(r) == r.status \in {"completed", "failed"}
IsDuplicate(r) == r.status = "completed"
AnyIsStuck(r) == TRUE
NoneIsStuck(r) == FALSE
IsStuck(r) == r.age > 0
InFlight(r) == r.status = "processing" /\ ~IsStuck(r)

Lookup(w) ==
    LET e == work[w].event  r == row[e] IN
    /\ At(w, "lookup")
    /\ \/ r = Absent /\ Answer200(w) /\ raced' = raced \union {e}
       \/ IsDuplicate(r) /\ Answer200(w) /\ UNCHANGED raced
       \/ InFlight(r) /\ RetryLater(w) /\ UNCHANGED raced
       \/ /\ r # Absent /\ ~IsDuplicate(r) /\ ~InFlight(r)
          /\ GotoAs(w, "takeover", "takeover") /\ UNCHANGED <<acked, raced>>
    /\ UNCHANGED <<row, sent, mishaps, handled, outrun, tenancy>>

\* A request of another is past its look-up when time, or a replay, gets at its row.
PassedOver(e) ==
    {e} \intersect {work[w].event : w \in {v \in Workers :
                                          work[v].pc \notin {"idle", "resolve", "insert", "lookup"}}}

\* An administrator replays an event whose row is there, in whatever status.
Replay(w, e) ==
    /\ At(w, "idle") /\ row[e] # Absent
    /\ work' = [work EXCEPT ![w] = [pc |-> "takeover", event |-> e, claim |-> "replay"]]
    /\ outrun' = outrun \union PassedOver(e)
    /\ UNCHANGED <<row, sent, acked, mishaps, handled, raced, tenancy>>

\* The UPDATE does not check what the look-up saw: two may take over.
TakeOver(w) ==
    /\ At(w, "takeover")
    /\ row' = Update(work[w].event, "processing")
    /\ Goto(w, "handle")
    /\ UNCHANGED <<sent, acked, mishaps, handled, raced, outrun, tenancy>>

(***************************************************************************)
(* The handler, and the end of a delivery. An exception of the handler or  *)
(* of the UPDATE to completed leads to the UPDATE to failed.               *)
(***************************************************************************)

Dispatch(w) ==
    /\ At(w, "handle")
    /\ \/ Goto(w, "complete") /\ handled' = handled \union {work[w].event} /\ UNCHANGED mishaps
       \/ Goto(w, "fail") /\ Mishap /\ UNCHANGED handled
    /\ UNCHANGED <<row, sent, acked, raced, outrun, tenancy>>

Complete(w) ==
    /\ At(w, "complete")
    /\ row' = Update(work[w].event, "completed")
    /\ Answer200(w)
    /\ UNCHANGED <<sent, mishaps, handled, raced, outrun, tenancy>>

CompleteFails(w) ==
    /\ At(w, "complete") /\ Mishap
    /\ Goto(w, "fail")
    /\ UNCHANGED <<row, sent, acked, handled, raced, outrun, tenancy>>

FailAnswered(w) ==
    /\ At(w, "fail")
    /\ row' = Update(work[w].event, "failed")
    /\ Answer200(w)
    /\ UNCHANGED <<sent, mishaps, handled, raced, outrun, tenancy>>

Fail(w) ==
    /\ At(w, "fail")
    /\ row' = Update(work[w].event, "failed")
    /\ RetryLater(w)
    /\ UNCHANGED <<sent, mishaps, handled, raced, outrun, tenancy>>

\* No secret, no valid signature; or a call outside the try block throws, or the
\* UPDATE to failed, which is caught.
Abort(w) ==
    /\ work[w].pc \in {"resolve", "lookup", "takeover", "fail"} /\ Mishap
    /\ RetryLater(w)
    /\ UNCHANGED <<row, sent, handled, raced, outrun, tenancy>>

\* The process is killed: every request ends where it is.
Crash ==
    /\ \E w \in Workers : ~At(w, "idle")
    /\ Mishap
    /\ work' = [w \in Workers |-> Idle]
    /\ UNCHANGED <<row, sent, acked, handled, raced, outrun, tenancy>>

(***************************************************************************)
(* Time, and the nightly deletion of claims older than an hour. Time has   *)
(* passed over a request if the row of its event gets old or is deleted    *)
(* while the request is past its look-up. Rows of other statuses are       *)
(* deleted after 90 days; Stripe retries for three.                        *)
(***************************************************************************)

Age(e) ==
    /\ row[e].status = "processing" /\ row[e].age < 2
    /\ row' = [row EXCEPT ![e].age = @ + 1]
    /\ outrun' = outrun \union PassedOver(e)
    /\ UNCHANGED <<sent, acked, work, mishaps, handled, raced, tenancy>>

Cleanup(e) ==
    /\ row[e].status = "processing" /\ row[e].age = 2
    /\ row' = [row EXCEPT ![e] = Absent]
    /\ outrun' = outrun \union PassedOver(e)
    /\ UNCHANGED <<sent, acked, work, mishaps, handled, raced, tenancy>>

RequestStep(w) ==
    \/ Resolve(w) \/ Insert(w) \/ InsertFails(w) \/ Lookup(w) \/ TakeOver(w)
    \/ Dispatch(w) \/ Complete(w) \/ CompleteFails(w) \/ Fail(w) \/ Abort(w)

Next ==
    \/ \E e \in Events : Send(e) \/ Age(e) \/ Cleanup(e)
    \/ \E w \in Workers : RequestStep(w) \/ \E e \in Events : Deliver(w, e) \/ Replay(w, e)
    \/ Crash

(***************************************************************************)
(* Fairness: a request runs on, time passes, and Stripe delivers again     *)
(* what it has no 200 for. It does so for three days; that no outage lasts *)
(* as long is assumed. Cleanup is not fair: it meets an abandoned claim or *)
(* it does not.                                                            *)
(***************************************************************************)

Fairness ==
    /\ \A w \in Workers : WF_vars(RequestStep(w))
    /\ \A e \in Events : WF_vars(Age(e)) /\ SF_vars(\E w \in Workers : Deliver(w, e))

Spec == Init /\ [][Next]_vars /\ Fairness

(***************************************************************************)
(* Properties.                                                             *)
(***************************************************************************)

\* The row has the statuses and ages of the schema; what Stripe knows was sent.
TypeOK ==
    /\ row \in [Events -> Row]
    /\ \A e \in Events : row[e].age > 0 => row[e].status = "processing"
    /\ sent \subseteq Events /\ acked \subseteq sent /\ handled \subseteq sent
    /\ raced \subseteq sent /\ outrun \subseteq sent
    /\ named \subseteq sent /\ untenanted \subseteq sent
    /\ work \in [Workers -> Request]
    /\ mishaps \in 0..MaxMishaps

Handling(w, e) == At(w, "handle") /\ work[w].event = e

\* Two requests handle one event at the same time only if both took its row over,
\* or time or a replay passed over one of them: the claim of a punctual first
\* delivery excludes the others (PRIMARY KEY, then 409). A request that is late may also
\* set to failed, or complete, a row that another one holds by now.
OnlyTakeoversOverlap ==
    \A v, w \in Workers : \A e \in Events \ outrun :
        (v # w /\ Handling(v, e) /\ Handling(w, e))
            => "insert" \notin {work[v].claim, work[w].claim}

\* The two 200s that no handler stands behind: the look-up does not find the row
\* the INSERT met, or an event that names no tenant is found to be nobody's. The
\* second loses, say, the refund of an order paid without a Stripe customer and not
\* yet invoiced. An event that names its tenant is never among them.
LetGo == raced \union (untenanted \ named)

\* Stripe is told 200, and stops, only for an event whose handler returned, apart
\* from those two exits.
AckedWasHandled == acked \subseteq handled \union LetGo

\* Every event is handled, through failures and restarts, unless it left by one of
\* those two exits: no abandoned claim answers 409 for ever (the ten minutes).
EveryEventIsHandled == \A e \in Events : e \in sent ~> e \in handled \union LetGo

\* The route promises the handlers what EventDelivery says.
Phase(pc) == CASE pc \in {"resolve", "insert", "lookup", "takeover"} -> "delivered"
               [] pc \in {"complete", "fail"} -> "ended"
               [] OTHER -> pc

Delivered == INSTANCE EventDelivery WITH
    work <- [w \in Workers |-> IF At(w, "idle") THEN Idle
                               ELSE [pc |-> Phase(work[w].pc), event |-> work[w].event]]

ImplementsDelivery == Delivered!DeliverySpec
=============================================================================
