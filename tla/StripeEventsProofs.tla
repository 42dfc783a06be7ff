------------------------- MODULE StripeEventsProofs -------------------------
(***************************************************************************)
(* Proofs about StripeEvents, for any number of requests, events and       *)
(* mishaps: its type invariant, that a 200 means a handled event but for   *)
(* two exits, that the first claim of an event is exclusive, and that      *)
(* StripeEvents implements EventDelivery.                                  *)
(***************************************************************************)
EXTENDS StripeEvents, TLAPS

(***************************************************************************)
(* The inductive invariants.                                               *)
(***************************************************************************)

\* Requests and rows are of events that Stripe created.
OnlySentArrives ==
    /\ \A w \in Workers : At(w, "idle") \/ work[w].event \in sent
    /\ \A e \in Events : row[e] # Absent => e \in sent

Typed == TypeOK /\ OnlySentArrives

\* A row is completed, and a request is about to complete it, only after the
\* handler returned.
CompletedWasHandled ==
    /\ \A e \in Events : row[e].status = "completed" => e \in handled
    /\ \A w \in Workers : At(w, "complete") => work[w].event \in handled

Claimed(w, e) ==
    work[w].pc \in {"takeover", "handle", "complete", "fail"} /\ work[w].event = e

\* A request past its look-up has a row, unless time took it away.
ClaimHasRow ==
    \A w \in Workers : \A e \in Events \ outrun : Claimed(w, e) => row[e] # Absent

\* While the one that inserted the row is in the handler, the row is fresh and no
\* other request is past its look-up.
InsertExcludes ==
    \A w \in Workers : \A e \in Events \ outrun :
        Handling(w, e) /\ work[w].claim = "insert" =>
            /\ row[e] = [status |-> "processing", age |-> 0]
            /\ \A v \in Workers : v # w => ~Claimed(v, e)

TakeoverIsNoInsert == \A w \in Workers : At(w, "takeover") => work[w].claim # "insert"

Exclusion == ClaimHasRow /\ InsertExcludes /\ TakeoverIsNoInsert

(***************************************************************************)
(* Lemmas.                                                                 *)
(***************************************************************************)

\* What a request that is not idle carries.
LEMMA WorkFields ==
    ASSUME Typed, NEW w \in Workers, ~At(w, "idle")
    PROVE  /\ work[w] \in Request \ {Idle}
           /\ work[w].event \in Events /\ work[w].event \in sent
  BY DEF Typed, OnlySentArrives, TypeOK, Request, Idle, At

\* Moving a request to another step keeps the type of the requests.
LEMMA GotoKeepsType ==
    ASSUME Typed, NEW w \in Workers, ~At(w, "idle"),
           NEW pc \in {"resolve", "insert", "lookup", "takeover", "handle", "complete", "fail"},
           \/ Goto(w, pc)
           \/ \E claim \in {"insert", "takeover"} : GotoAs(w, pc, claim)
    PROVE  /\ work' \in [Workers -> Request] /\ At(w, pc)' /\ work'[w].event = work[w].event
           /\ \A v \in Workers : v # w => work'[v] = work[v]
  BY WorkFields DEF Typed, TypeOK, Request, Goto, GotoAs, At

\* Ending a request keeps the type of the requests, and acknowledges only its event.
LEMMA EndKeepsType ==
    ASSUME Typed, NEW w \in Workers, Answer200(w) \/ RetryLater(w)
    PROVE  /\ work' \in [Workers -> Request] /\ work' = [work EXCEPT ![w] = Idle]
           /\ acked' \subseteq acked \union {work[w].event}
  BY DEF Typed, TypeOK, Request, Answer200, RetryLater

\* An UPDATE keeps the type of the rows, and changes no row but its own.
LEMMA UpdateIsRow ==
    ASSUME TypeOK, NEW e \in Events, NEW s \in {"processing", "completed", "failed"}
    PROVE  /\ Update(e, s) \in [Events -> Row]
           /\ \A d \in Events : Update(e, s)[d].age > 0 => Update(e, s)[d].status = "processing"
           /\ \A d \in Events : Update(e, s)[d].status = "completed"
                                    => row[d].status = "completed" \/ (d = e /\ s = "completed")
           /\ \A d \in Events : Update(e, s)[d] = Absent <=> row[d] = Absent
           /\ \A d \in Events : d # e => Update(e, s)[d] = row[d]
  BY DEF TypeOK, Update, Row, Absent

\* Every step keeps the types.
LEMMA TypeStep == Typed /\ [Next]_vars => Typed'
<1> SUFFICES ASSUME Typed, [Next]_vars PROVE Typed'
  OBVIOUS
<1> USE StripeEventsAssumption DEF Typed, OnlySentArrives, tenancy
<1>1. ASSUME NEW e \in Events, Send(e) PROVE Typed'
  BY <1>1 DEF Send, TypeOK, At
<1>2. ASSUME NEW w \in Workers, NEW e \in Events, Deliver(w, e) PROVE Typed'
  BY <1>2 DEF Deliver, TypeOK, Request, At
<1>3. ASSUME NEW w \in Workers, NEW e \in Events, Replay(w, e) PROVE Typed'
  <2>1. e \in sent /\ PassedOver(e) \subseteq sent
    BY <1>3 DEF Replay, PassedOver
  <2> QED BY <1>3, <2>1 DEF Replay, TypeOK, Request, At
<1>4. ASSUME NEW w \in Workers, Insert(w) PROVE Typed'
  <2>1. /\ work[w].event \in sent /\ work' \in [Workers -> Request]
        /\ work'[w].event = work[w].event
        /\ \A v \in Workers : v # w => work'[v] = work[v]
    BY <1>4, WorkFields, GotoKeepsType DEF Insert, At
  <2> QED BY <1>4, <2>1 DEF Insert, TypeOK, Row, Absent, At
<1>5. ASSUME NEW w \in Workers, InsertFails(w) PROVE Typed'
  <2>1. work' \in [Workers -> Request]
    BY <1>5, GotoKeepsType DEF InsertFails, At
  <2> QED BY <1>5, <2>1, GotoKeepsType DEF InsertFails, TypeOK, Mishap, At
<1>6. ASSUME NEW w \in Workers, Lookup(w) PROVE Typed'
  <2>1. work[w].event \in sent
    BY <1>6, WorkFields DEF Lookup, At
  <2>2. CASE GotoAs(w, "takeover", "takeover") /\ UNCHANGED <<acked, raced>>
    <3>1. /\ work' \in [Workers -> Request] /\ work'[w].event = work[w].event
          /\ \A v \in Workers : v # w => work'[v] = work[v]
      BY <1>6, <2>2, GotoKeepsType DEF Lookup, At
    <3> QED BY <1>6, <2>1, <2>2, <3>1 DEF Lookup, TypeOK, At
  <2>3. CASE Answer200(w) \/ RetryLater(w)
    <3>1. /\ work' \in [Workers -> Request] /\ work' = [work EXCEPT ![w] = Idle]
          /\ acked' \subseteq sent
      BY <2>1, <2>3, EndKeepsType DEF TypeOK
    <3>2. raced' \subseteq sent
      BY <1>6, <2>1 DEF Lookup, TypeOK
    <3> QED BY <1>6, <3>1, <3>2 DEF Lookup, TypeOK, At, Idle
  <2> QED BY <1>6, <2>2, <2>3 DEF Lookup
<1>7. ASSUME NEW w \in Workers, TakeOver(w) PROVE Typed'
  <2>1. /\ work[w].event \in Events /\ work' \in [Workers -> Request]
        /\ work'[w].event = work[w].event
        /\ \A v \in Workers : v # w => work'[v] = work[v]
    BY <1>7, WorkFields, GotoKeepsType DEF TakeOver, At
  <2>2. /\ row' \in [Events -> Row]
        /\ \A d \in Events : row'[d].age > 0 => row'[d].status = "processing"
        /\ \A d \in Events : row'[d] = Absent <=> row[d] = Absent
    BY <1>7, <2>1, UpdateIsRow DEF TakeOver
  <2> QED BY <1>7, <2>1, <2>2 DEF TakeOver, TypeOK, At
<1>8. ASSUME NEW w \in Workers, Dispatch(w) PROVE Typed'
  <2>1. /\ work[w].event \in sent /\ work' \in [Workers -> Request]
        /\ work'[w].event = work[w].event
        /\ \A v \in Workers : v # w => work'[v] = work[v]
    BY <1>8, WorkFields, GotoKeepsType DEF Dispatch, At
  <2> QED BY <1>8, <2>1 DEF Dispatch, TypeOK, Mishap, At
<1>9. ASSUME NEW w \in Workers, Complete(w) \/ Fail(w) PROVE Typed'
  <2>1. work[w].event \in Events /\ work[w].event \in sent
    BY <1>9, WorkFields DEF Complete, Fail, At
  <2>2. /\ work' \in [Workers -> Request] /\ work' = [work EXCEPT ![w] = Idle]
        /\ acked' \subseteq sent
    BY <1>9, <2>1, EndKeepsType DEF Complete, Fail, TypeOK
  <2> QED BY <1>9, <2>1, <2>2, UpdateIsRow DEF Complete, Fail, TypeOK, At, Idle
<1>10. ASSUME NEW w \in Workers, CompleteFails(w) PROVE Typed'
  <2>1. /\ work' \in [Workers -> Request] /\ work'[w].event = work[w].event
        /\ work[w].event \in sent /\ \A v \in Workers : v # w => work'[v] = work[v]
    BY <1>10, WorkFields, GotoKeepsType DEF CompleteFails, At
  <2> QED BY <1>10, <2>1 DEF CompleteFails, TypeOK, Mishap, At
<1>11. ASSUME NEW w \in Workers, Abort(w) PROVE Typed'
  <2>1. work' \in [Workers -> Request] /\ work' = [work EXCEPT ![w] = Idle]
    BY <1>11, EndKeepsType DEF Abort
  <2> QED BY <1>11, <2>1 DEF Abort, TypeOK, Mishap, RetryLater, At, Idle
<1>12. ASSUME Crash PROVE Typed'
  BY <1>12 DEF Crash, TypeOK, Mishap, Request, At, Idle
<1>13. ASSUME NEW e \in Events, Age(e) \/ Cleanup(e) PROVE Typed'
  <2>1. e \in sent /\ PassedOver(e) \subseteq sent
    BY <1>13 DEF Age, Cleanup, PassedOver, Absent
  <2>2. CASE Age(e)
    <3>1. row[e].age + 1 \in 0..2
      BY <2>2 DEF Age, TypeOK, Row
    <3>2. /\ row' \in [Events -> Row]
          /\ \A d \in Events : row'[d].age > 0 => row'[d].status = "processing"
          /\ \A d \in Events : d # e => row'[d] = row[d]
      BY <2>2, <3>1 DEF Age, TypeOK, Row
    <3> QED BY <2>1, <2>2, <3>2 DEF Age, TypeOK, At
  <2>3. CASE Cleanup(e)
    <3>1. Absent \in Row
      BY DEF Absent, Row
    <3>2. /\ row' \in [Events -> Row]
          /\ \A d \in Events : row'[d].age > 0 => row'[d].status = "processing"
      BY <2>3, <3>1 DEF Cleanup, TypeOK, Absent
    <3> QED BY <2>1, <2>3, <3>2 DEF Cleanup, TypeOK, At
  <2> QED BY <1>13, <2>2, <2>3
<1>14. CASE UNCHANGED vars
  BY <1>14 DEF vars, TypeOK, At
<1>15. ASSUME NEW w \in Workers, Resolve(w) PROVE Typed'
  <2>1. work[w].event \in sent /\ ~At(w, "idle")
    BY <1>15, WorkFields DEF Resolve, At
  <2>2. CASE Goto(w, "insert") /\ UNCHANGED <<acked, untenanted>>
    <3>1. /\ work' \in [Workers -> Request] /\ work'[w].event = work[w].event
          /\ \A v \in Workers : v # w => work'[v] = work[v]
      BY <2>1, <2>2, GotoKeepsType
    <3> QED BY <1>15, <2>1, <2>2, <3>1 DEF Resolve, TypeOK, At
  <2>3. CASE Answer200(w) /\ untenanted' = untenanted \union {work[w].event}
    <3>1. /\ work' \in [Workers -> Request] /\ work' = [work EXCEPT ![w] = Idle]
          /\ acked' \subseteq sent
      BY <2>1, <2>3, EndKeepsType DEF TypeOK
    <3> QED BY <1>15, <2>1, <2>3, <3>1 DEF Resolve, TypeOK, At, Idle
  <2> QED BY <1>15, <2>2, <2>3 DEF Resolve
<1> QED BY <1>1, <1>2, <1>3, <1>4, <1>5, <1>6, <1>7, <1>8, <1>9, <1>10, <1>11, <1>12, <1>13, <1>14,
        <1>15 DEF Next, RequestStep

\* A step keeps what is said of handled events: a row is completed by a request
\* that was about to, and a 200 goes out for a completed row, a lost race or an event
\* that names no tenant; which event does is settled before it is delivered.
LEMMA HandledStep ==
    Typed /\ CompletedWasHandled /\ AckedWasHandled /\ [Next]_vars
        => CompletedWasHandled' /\ AckedWasHandled'
<1> SUFFICES ASSUME Typed, CompletedWasHandled, AckedWasHandled, [Next]_vars
             PROVE  CompletedWasHandled' /\ AckedWasHandled'
  OBVIOUS
<1> USE DEF CompletedWasHandled, AckedWasHandled, LetGo, tenancy
<1> TypeOK
  BY DEF Typed
<1>1. ASSUME NEW e \in Events, Send(e) PROVE CompletedWasHandled' /\ AckedWasHandled'
  BY <1>1 DEF Send, At, TypeOK
<1>2. ASSUME NEW w \in Workers, NEW e \in Events, Deliver(w, e) \/ Replay(w, e)
      PROVE  CompletedWasHandled' /\ AckedWasHandled'
  BY <1>2 DEF Deliver, Replay, At, TypeOK
<1>3. ASSUME NEW w \in Workers, Insert(w) PROVE CompletedWasHandled' /\ AckedWasHandled'
  <2>1. At(w, "handle")' /\ work[w].event \in Events /\ \A v \in Workers : v # w => work'[v] = work[v]
    BY <1>3, WorkFields, GotoKeepsType DEF Insert, At
  <2> QED BY <1>3, <2>1 DEF Insert, At, TypeOK
<1>4. ASSUME NEW w \in Workers, InsertFails(w) PROVE CompletedWasHandled' /\ AckedWasHandled'
  <2>1. At(w, "lookup")' /\ \A v \in Workers : v # w => work'[v] = work[v]
    BY <1>4, GotoKeepsType DEF InsertFails, At
  <2> QED BY <1>4, <2>1 DEF InsertFails, At
<1>5. ASSUME NEW w \in Workers, Lookup(w) PROVE CompletedWasHandled' /\ AckedWasHandled'
  <2>1. work[w].event \in Events
    BY <1>5, WorkFields DEF Lookup, At
  <2>2. CASE GotoAs(w, "takeover", "takeover") /\ UNCHANGED <<acked, raced>>
    <3>1. At(w, "takeover")' /\ \A v \in Workers : v # w => work'[v] = work[v]
      BY <1>5, <2>2, GotoKeepsType DEF Lookup, At
    <3> QED BY <1>5, <2>2, <3>1 DEF Lookup, At
  <2>3. CASE Answer200(w) /\ row[work[w].event] = Absent /\ raced' = raced \union {work[w].event}
    BY <1>5, <2>1, <2>3, EndKeepsType DEF Lookup, At, Idle, TypeOK
  <2>4. CASE Answer200(w) /\ IsDuplicate(row[work[w].event]) /\ UNCHANGED raced
    BY <1>5, <2>1, <2>4, EndKeepsType DEF Lookup, At, Idle, TypeOK, IsDuplicate
  <2>5. CASE RetryLater(w) /\ UNCHANGED raced
    BY <1>5, <2>5 DEF Lookup, At, Idle, TypeOK, RetryLater
  <2> QED BY <1>5, <2>2, <2>3, <2>4, <2>5 DEF Lookup
<1>6. ASSUME NEW w \in Workers, TakeOver(w) PROVE CompletedWasHandled' /\ AckedWasHandled'
  <2>1. At(w, "handle")' /\ work[w].event \in Events /\ \A v \in Workers : v # w => work'[v] = work[v]
    BY <1>6, WorkFields, GotoKeepsType DEF TakeOver, At
  <2>2. \A e \in Events : row'[e].status = "completed" => row[e].status = "completed"
    BY <1>6, <2>1, UpdateIsRow DEF TakeOver
  <2> QED BY <1>6, <2>1, <2>2 DEF TakeOver, At
<1>7. ASSUME NEW w \in Workers, Dispatch(w) PROVE CompletedWasHandled' /\ AckedWasHandled'
  <2>1. /\ work'[w].event = work[w].event /\ \A v \in Workers : v # w => work'[v] = work[v]
        /\ \/ At(w, "complete")' /\ handled' = handled \union {work[w].event}
           \/ At(w, "fail")' /\ UNCHANGED handled
    BY <1>7, WorkFields, GotoKeepsType DEF Dispatch, At
  <2> QED BY <1>7, <2>1 DEF Dispatch, At
<1>8. ASSUME NEW w \in Workers, Complete(w) PROVE CompletedWasHandled' /\ AckedWasHandled'
  <2>1. work[w].event \in Events /\ work[w].event \in handled
    BY <1>8, WorkFields DEF Complete, At
  <2>2. work' = [work EXCEPT ![w] = Idle] /\ acked' \subseteq acked \union {work[w].event}
    BY <1>8, EndKeepsType DEF Complete
  <2>3. \A e \in Events : row'[e].status = "completed"
                              => row[e].status = "completed" \/ e = work[w].event
    BY <1>8, <2>1, UpdateIsRow DEF Complete
  <2> QED BY <1>8, <2>1, <2>2, <2>3 DEF Complete, At, Idle, TypeOK
<1>9. ASSUME NEW w \in Workers, CompleteFails(w) PROVE CompletedWasHandled' /\ AckedWasHandled'
  <2>1. At(w, "fail")' /\ \A v \in Workers : v # w => work'[v] = work[v]
    BY <1>9, GotoKeepsType DEF CompleteFails, At
  <2> QED BY <1>9, <2>1 DEF CompleteFails, At
<1>10. ASSUME NEW w \in Workers, Fail(w) PROVE CompletedWasHandled' /\ AckedWasHandled'
  <2>1. work[w].event \in Events
    BY <1>10, WorkFields DEF Fail, At
  <2>2. \A e \in Events : row'[e].status = "completed" => row[e].status = "completed"
    BY <1>10, <2>1, UpdateIsRow DEF Fail
  <2> QED BY <1>10, <2>2 DEF Fail, At, Idle, TypeOK, RetryLater
<1>11. ASSUME NEW w \in Workers, Abort(w) PROVE CompletedWasHandled' /\ AckedWasHandled'
  BY <1>11 DEF Abort, At, Idle, TypeOK, RetryLater
<1>12. ASSUME Crash PROVE CompletedWasHandled' /\ AckedWasHandled'
  BY <1>12 DEF Crash, At, Idle
<1>13. ASSUME NEW e \in Events, Age(e) \/ Cleanup(e)
       PROVE  CompletedWasHandled' /\ AckedWasHandled'
  <2>1. \A d \in Events : row'[d].status = "completed" => row[d].status = "completed"
    BY <1>13 DEF Age, Cleanup, TypeOK, Row, Absent
  <2> QED BY <1>13, <2>1 DEF Age, Cleanup, At
<1>14. CASE UNCHANGED vars
  BY <1>14 DEF vars, At
<1>15. ASSUME NEW w \in Workers, Resolve(w) PROVE CompletedWasHandled' /\ AckedWasHandled'
  <2>1. ~At(w, "idle")
    BY <1>15 DEF Resolve, At
  <2>2. CASE Goto(w, "insert") /\ UNCHANGED <<acked, untenanted>>
    <3>1. At(w, "insert")' /\ \A v \in Workers : v # w => work'[v] = work[v]
      BY <2>1, <2>2, GotoKeepsType
    <3> QED BY <1>15, <2>2, <3>1 DEF Resolve, At
  <2>3. CASE /\ work[w].event \notin named /\ Answer200(w)
             /\ untenanted' = untenanted \union {work[w].event}
    BY <1>15, <2>3, EndKeepsType DEF Resolve, At, Idle, TypeOK
  <2> QED BY <1>15, <2>2, <2>3 DEF Resolve
<1> QED BY <1>1, <1>2, <1>3, <1>4, <1>5, <1>6, <1>7, <1>8, <1>9, <1>10, <1>11, <1>12, <1>13, <1>14,
        <1>15 DEF Next, RequestStep

\* A step by which no request begins to claim, and no claimed row changes unless
\* time passed over the claim, keeps the exclusion.
LEMMA NoNewClaimKeepsExclusion ==
    ASSUME Exclusion, outrun \subseteq outrun',
           \A w \in Workers :
               \/ work'[w] = work[w]
               \/ work'[w].pc \in {"idle", "resolve", "insert", "lookup"}
               \/ /\ work'[w].pc \in {"complete", "fail"}
                  /\ \A e \in Events : work'[w].event = e => Claimed(w, e),
           \A e \in Events \ outrun' :
               row'[e] = row[e] \/ \A w \in Workers : ~Claimed(w, e)
    PROVE  Exclusion'
<1> USE DEF Exclusion
<1>1. \A w \in Workers : \A e \in Events : Claimed(w, e)' => Claimed(w, e)
  BY DEF Claimed
<1>2. ClaimHasRow'
  BY <1>1 DEF ClaimHasRow, Absent
<1>3. InsertExcludes'
  <2> SUFFICES ASSUME NEW w \in Workers, NEW e \in Events \ outrun',
                      Handling(w, e)', work'[w].claim = "insert"
               PROVE  /\ row'[e] = [status |-> "processing", age |-> 0]
                      /\ \A v \in Workers : v # w => ~Claimed(v, e)'
    BY DEF InsertExcludes
  <2>1. work'[w] = work[w] /\ Handling(w, e) /\ Claimed(w, e)
    BY DEF Handling, At, Claimed
  <2> QED BY <1>1, <2>1 DEF InsertExcludes
<1>4. TakeoverIsNoInsert'
  BY DEF TakeoverIsNoInsert, At
<1> QED BY <1>2, <1>3, <1>4

\* A request that inserts the row finds nobody past the look-up.
LEMMA InsertKeepsExclusion ==
    ASSUME Typed, Exclusion, NEW w \in Workers, Insert(w)
    PROVE  Exclusion'
<1> DEFINE d == work[w].event
<1> USE DEF Exclusion
<1>1. /\ d \in Events /\ At(w, "handle")' /\ work'[w].event = d
      /\ \A v \in Workers : v # w => work'[v] = work[v]
  BY WorkFields, GotoKeepsType DEF Insert, At
<1>2. /\ row[d] = Absent /\ outrun' = outrun
      /\ row'[d] = [status |-> "processing", age |-> 0]
      /\ \A e \in Events : e # d => row'[e] = row[e]
  BY <1>1 DEF Insert, Typed, TypeOK
<1>3. d \notin outrun => \A v \in Workers : ~Claimed(v, d)
  BY <1>1, <1>2 DEF ClaimHasRow
<1>4. ClaimHasRow'
  BY <1>1, <1>2, <1>3 DEF ClaimHasRow, Claimed, Absent, At
<1>5. InsertExcludes'
  BY <1>1, <1>2, <1>3 DEF InsertExcludes, Handling, Claimed, At
<1>6. TakeoverIsNoInsert'
  BY <1>1 DEF TakeoverIsNoInsert, At
<1> QED BY <1>4, <1>5, <1>6

\* A look-up that ends in a takeover saw a row that no punctual insert holds.
LEMMA LookupKeepsExclusion ==
    ASSUME Typed, Exclusion, NEW w \in Workers, Lookup(w)
    PROVE  Exclusion'
<1> DEFINE d == work[w].event
<1>1. d \in Events /\ UNCHANGED <<row, outrun>> /\ At(w, "lookup")
  BY WorkFields DEF Lookup, At
<1>2. CASE Answer200(w) \/ RetryLater(w)
  <2>1. work' = [work EXCEPT ![w] = Idle]
    BY <1>2, EndKeepsType DEF Typed
  <2>2. \A v \in Workers : work'[v] = work[v] \/ work'[v].pc = "idle"
    BY <2>1 DEF Idle, Typed, TypeOK
  <2> QED BY <1>1, <2>2, NoNewClaimKeepsExclusion
<1>3. CASE GotoAs(w, "takeover", "takeover") /\ row[d] # Absent /\ ~InFlight(row[d])
  <2> USE DEF Exclusion
  <2>1. /\ At(w, "takeover")' /\ work'[w].event = d
        /\ \A v \in Workers : v # w => work'[v] = work[v]
    BY <1>1, <1>3, GotoKeepsType DEF At
  <2>2. work'[w].claim = "takeover"
    BY <1>1, <1>3, WorkFields DEF GotoAs, Typed, TypeOK, Request, At, Idle
  <2>3. row[d] # [status |-> "processing", age |-> 0]
    BY <1>3 DEF InFlight, IsStuck
  <2>4. ClaimHasRow'
    BY <1>1, <1>3, <2>1 DEF ClaimHasRow, Claimed, Absent
  <2>5. InsertExcludes'
    BY <1>1, <2>1, <2>3 DEF InsertExcludes, Handling, Claimed, At
  <2>6. TakeoverIsNoInsert'
    BY <2>1, <2>2 DEF TakeoverIsNoInsert, At
  <2> QED BY <2>4, <2>5, <2>6
<1> QED BY <1>2, <1>3 DEF Lookup

\* A replay that meets a claim has it counted as passed over.
LEMMA ReplayKeepsExclusion ==
    ASSUME Typed, Exclusion, NEW w \in Workers, NEW d \in Events, Replay(w, d)
    PROVE  Exclusion'
<1> USE DEF Exclusion
<1>1. /\ work'[w] = [pc |-> "takeover", event |-> d, claim |-> "replay"]
      /\ \A v \in Workers : v # w => work'[v] = work[v]
      /\ UNCHANGED row /\ outrun' = outrun \union PassedOver(d) /\ row[d] # Absent
  BY DEF Replay, Typed, TypeOK
<1>2. d \notin outrun' => \A v \in Workers : ~Claimed(v, d)
  BY <1>1 DEF PassedOver, Claimed
<1>3. ClaimHasRow'
  BY <1>1 DEF ClaimHasRow, Claimed, Absent
<1>4. InsertExcludes'
  BY <1>1, <1>2 DEF InsertExcludes, Handling, Claimed, At
<1>5. TakeoverIsNoInsert'
  BY <1>1 DEF TakeoverIsNoInsert, At
<1> QED BY <1>3, <1>4, <1>5

\* A request past its look-up updates a row that no punctual insert of another holds.
LEMMA UpdateKeepsExclusion ==
    ASSUME Typed, Exclusion, NEW w \in Workers, TakeOver(w) \/ Complete(w) \/ Fail(w)
    PROVE  Exclusion'
<1> DEFINE d == work[w].event
<1> USE DEF Exclusion
<1>1. d \in Events /\ Claimed(w, d) /\ UNCHANGED outrun
  BY WorkFields DEF TakeOver, Complete, Fail, At, Claimed
<1>2. /\ \A e \in Events : row'[e] = Absent <=> row[e] = Absent
      /\ \A e \in Events : e # d => row'[e] = row[e]
  BY <1>1, UpdateIsRow DEF TakeOver, Complete, Fail, Typed
<1>3. /\ \A v \in Workers : v # w => work'[v] = work[v]
      /\ \/ work'[w].pc = "idle"
         \/ work'[w].pc = "handle" /\ work'[w].event = d /\ work'[w].claim # "insert"
  <2>1. CASE TakeOver(w)
    <3>1. work[w] \in Request \ {Idle} /\ work[w].claim # "insert"
      BY <2>1, WorkFields DEF TakeOver, At, TakeoverIsNoInsert
    <3> QED BY <2>1, <3>1 DEF TakeOver, Goto, Typed, TypeOK, Request
  <2>2. CASE Complete(w) \/ Fail(w)
    <3>1. work' = [work EXCEPT ![w] = Idle]
      BY <2>2, EndKeepsType DEF Complete, Fail
    <3> QED BY <3>1 DEF Idle, Typed, TypeOK
  <2> QED BY <2>1, <2>2
<1>4. ClaimHasRow'
  BY <1>1, <1>2, <1>3 DEF ClaimHasRow, Claimed, Absent
<1>5. InsertExcludes'
  BY <1>1, <1>2, <1>3 DEF InsertExcludes, Handling, Claimed, At
<1>6. TakeoverIsNoInsert'
  BY <1>3 DEF TakeoverIsNoInsert, At
<1> QED BY <1>4, <1>5, <1>6

\* Every step keeps the exclusion.
LEMMA ExclusionStep == Typed /\ Exclusion /\ [Next]_vars => Exclusion'
<1> SUFFICES ASSUME Typed, Exclusion, [Next]_vars PROVE Exclusion'
  OBVIOUS
<1> TypeOK
  BY DEF Typed
<1>1. ASSUME NEW e \in Events, Send(e) PROVE Exclusion'
  BY <1>1, NoNewClaimKeepsExclusion DEF Send
<1>2. ASSUME NEW w \in Workers, NEW e \in Events, Deliver(w, e) PROVE Exclusion'
  <2>1. \A v \in Workers : work'[v] = work[v] \/ work'[v].pc = "resolve"
    BY <1>2 DEF Deliver, TypeOK
  <2> QED BY <1>2, <2>1, NoNewClaimKeepsExclusion DEF Deliver
<1>3. ASSUME NEW w \in Workers, InsertFails(w) PROVE Exclusion'
  <2>1. \A v \in Workers : work'[v] = work[v] \/ work'[v].pc = "lookup"
    BY <1>3, GotoKeepsType DEF InsertFails, At
  <2> QED BY <1>3, <2>1, NoNewClaimKeepsExclusion DEF InsertFails
<1>4. ASSUME NEW w \in Workers, Dispatch(w) \/ CompleteFails(w) PROVE Exclusion'
  <2>1. /\ work'[w].pc \in {"complete", "fail"} /\ work'[w].event = work[w].event
        /\ \A v \in Workers : v # w => work'[v] = work[v]
    BY <1>4, GotoKeepsType DEF Dispatch, CompleteFails, At
  <2>2. work[w].pc \in {"handle", "complete"} /\ UNCHANGED <<row, outrun>>
    BY <1>4 DEF Dispatch, CompleteFails, At
  <2> QED BY <2>1, <2>2, NoNewClaimKeepsExclusion DEF Claimed
<1>5. ASSUME NEW w \in Workers, Abort(w) PROVE Exclusion'
  <2>1. \A v \in Workers : work'[v] = work[v] \/ work'[v].pc = "idle"
    BY <1>5 DEF Abort, RetryLater, TypeOK, Idle
  <2> QED BY <1>5, <2>1, NoNewClaimKeepsExclusion DEF Abort
<1>6. ASSUME Crash PROVE Exclusion'
  <2>1. \A v \in Workers : work'[v].pc = "idle"
    BY <1>6 DEF Crash, Idle
  <2> QED BY <1>6, <2>1, NoNewClaimKeepsExclusion DEF Crash
<1>7. ASSUME NEW d \in Events, Age(d) \/ Cleanup(d) PROVE Exclusion'
  <2>1. /\ UNCHANGED work /\ outrun' = outrun \union PassedOver(d)
        /\ \A e \in Events : e # d => row'[e] = row[e]
    BY <1>7 DEF Age, Cleanup, TypeOK
  <2>2. d \notin outrun' => \A w \in Workers : ~Claimed(w, d)
    BY <2>1 DEF PassedOver, Claimed
  <2> QED BY <2>1, <2>2, NoNewClaimKeepsExclusion
<1>8. CASE UNCHANGED vars
  BY <1>8, NoNewClaimKeepsExclusion DEF vars
<1>9. ASSUME NEW w \in Workers, Resolve(w) PROVE Exclusion'
  <2>1. CASE Goto(w, "insert")
    <3>1. \A v \in Workers : work'[v] = work[v] \/ work'[v].pc = "insert"
      BY <1>9, <2>1, GotoKeepsType DEF Resolve, At
    <3> QED BY <1>9, <3>1, NoNewClaimKeepsExclusion DEF Resolve
  <2>2. CASE Answer200(w)
    <3>1. \A v \in Workers : work'[v] = work[v] \/ work'[v].pc = "idle"
      BY <2>2 DEF Answer200, TypeOK, Idle
    <3> QED BY <1>9, <3>1, NoNewClaimKeepsExclusion DEF Resolve
  <2> QED BY <1>9, <2>1, <2>2 DEF Resolve
<1> QED BY <1>1, <1>2, <1>3, <1>4, <1>5, <1>6, <1>7, <1>8, <1>9, InsertKeepsExclusion,
        LookupKeepsExclusion, ReplayKeepsExclusion, UpdateKeepsExclusion DEF Next, RequestStep

\* What the theorems rest on.
Inv == Typed /\ CompletedWasHandled /\ AckedWasHandled /\ Exclusion

(***************************************************************************)
(* The refinement: each step of the route is a step of EventDelivery, or   *)
(* leaves alone what that module speaks of.                                *)
(***************************************************************************)

\* What the refinement shows of a request.
Shown(w) == IF At(w, "idle") THEN Idle
            ELSE [pc |-> Phase(work[w].pc), event |-> work[w].event]
ShownWork == [w \in Workers |-> Shown(w)]

\* Where a request is shown to be, by its step.
LEMMA ShownPhase ==
    ASSUME NEW w \in Workers
    PROVE  /\ ShownWork[w] = Shown(w)
           /\ At(w, "idle") => Shown(w) = Idle
           /\ work[w].pc \in {"resolve", "insert", "lookup", "takeover"} =>
                  Shown(w) = [pc |-> "delivered", event |-> work[w].event]
           /\ At(w, "handle") => Shown(w) = [pc |-> "handle", event |-> work[w].event]
           /\ work[w].pc \in {"complete", "fail"} =>
                  Shown(w) = [pc |-> "ended", event |-> work[w].event]
  BY DEF ShownWork, Shown, Phase, At

\* A step of one request changes what is shown of that request only.
LEMMA ShownStep ==
    ASSUME Typed, NEW w \in Workers, \A v \in Workers : v # w => work'[v] = work[v]
    PROVE  ShownWork' = [ShownWork EXCEPT ![w] = Shown(w)']
  BY DEF ShownWork, Shown, At

\* Going from one step to another with the same event.
LEMMA ShownGoto ==
    ASSUME Typed, NEW w \in Workers, ~At(w, "idle"),
           NEW pc \in {"resolve", "insert", "lookup", "takeover", "handle", "complete", "fail"},
           \/ Goto(w, pc)
           \/ \E claim \in {"insert", "takeover"} : GotoAs(w, pc, claim)
    PROVE  ShownWork' = [ShownWork EXCEPT ![w] = [pc |-> Phase(pc), event |-> work[w].event]]
<1>1. At(w, pc)' /\ work'[w].event = work[w].event /\ \A v \in Workers : v # w => work'[v] = work[v]
  BY GotoKeepsType
<1>2. Shown(w)' = [pc |-> Phase(pc), event |-> work[w].event]
  BY <1>1 DEF Shown, At
<1> QED BY <1>1, <1>2, ShownStep

\* The end of a request.
LEMMA ShownEnd ==
    ASSUME Typed, NEW w \in Workers, work' = [work EXCEPT ![w] = Idle]
    PROVE  ShownWork' = [ShownWork EXCEPT ![w] = Idle]
<1>1. work'[w] = Idle /\ \A v \in Workers : v # w => work'[v] = work[v]
  BY DEF Typed, TypeOK
<1>2. Shown(w)' = Idle
  BY <1>1 DEF Shown, At, Idle
<1> QED BY <1>1, <1>2, ShownStep

\* The beginning of the handler, by an INSERT or by a takeover.
LEMMA BeginsDelivery ==
    ASSUME Inv, NEW w \in Workers, Insert(w) \/ TakeOver(w)
    PROVE  Delivered!Begin(w)
<1> Typed
  BY DEF Inv
<1>1. work[w].pc \in {"insert", "takeover"} /\ UNCHANGED <<sent, acked, handled>>
  BY DEF Insert, TakeOver, At
<1>2. ShownWork[w] = [pc |-> "delivered", event |-> work[w].event]
  BY <1>1, ShownPhase
<1>3. ShownWork' = [ShownWork EXCEPT ![w] = [pc |-> "handle", event |-> work[w].event]]
  BY <1>1, ShownGoto DEF Insert, TakeOver, At, Phase
<1>4. ShownWork' = [ShownWork EXCEPT ![w].pc = "handle"]
  <2>1. [ShownWork[w] EXCEPT !.pc = "handle"] = [pc |-> "handle", event |-> work[w].event]
    BY <1>2
  <2>2. [ShownWork EXCEPT ![w].pc = "handle"]
            = [ShownWork EXCEPT ![w] = [ShownWork[w] EXCEPT !.pc = "handle"]]
    OBVIOUS
  <2> QED BY <1>3, <2>1, <2>2
<1> QED BY <1>1, <1>2, <1>4 DEF Delivered!Begin, Delivered!At, Delivered!Goto, ShownWork, Shown

\* The tenant or the row looked up, when that ends the request: the answer may be 200.
LEMMA DropsDelivery ==
    ASSUME Inv, NEW w \in Workers, work[w].pc \in {"resolve", "insert", "lookup", "takeover"},
           Answer200(w) \/ RetryLater(w), UNCHANGED <<sent, handled>>
    PROVE  Delivered!Drop(w)
<1> Typed
  BY DEF Inv
<1>1. ShownWork[w] = [pc |-> "delivered", event |-> work[w].event]
  BY ShownPhase
<1>2. ShownWork' = [ShownWork EXCEPT ![w] = Idle]
  BY EndKeepsType, ShownEnd
<1>3. acked' \in {acked, acked \union {work[w].event}}
  BY DEF Answer200, RetryLater
<1> QED BY <1>1, <1>2, <1>3 DEF Delivered!Drop, Delivered!At, Delivered!Idle, ShownWork, Shown, Idle

\* The answer after the handler: 200 only for an event whose handler returned.
LEMMA AnswersDelivery ==
    ASSUME Inv, NEW w \in Workers, work[w].pc \in {"complete", "fail"},
           (At(w, "complete") /\ Answer200(w)) \/ RetryLater(w), UNCHANGED <<sent, handled>>
    PROVE  Delivered!Answer(w)
<1> Typed
  BY DEF Inv
<1>1. ShownWork[w] = [pc |-> "ended", event |-> work[w].event]
  BY ShownPhase
<1>2. ShownWork' = [ShownWork EXCEPT ![w] = Idle]
  BY EndKeepsType, ShownEnd
<1>3. acked' \in {acked, acked \union ({work[w].event} \intersect handled)}
  BY DEF Answer200, RetryLater, Inv, CompletedWasHandled
<1> QED BY <1>1, <1>2, <1>3
        DEF Delivered!Answer, Delivered!At, Delivered!Idle, ShownWork, Shown, Idle

\* The handler returns or throws.
LEMMA HandlesDelivery ==
    ASSUME Inv, NEW w \in Workers, Dispatch(w)
    PROVE  Delivered!At(w, "handle") /\ (Delivered!Return(w) \/ Delivered!Throw(w))
<1> Typed
  BY DEF Inv
<1>1. At(w, "handle") /\ UNCHANGED <<sent, acked>>
  BY DEF Dispatch
<1>2. ShownWork[w] = [pc |-> "handle", event |-> work[w].event]
  BY <1>1, ShownPhase
<1>3. ShownWork' = [ShownWork EXCEPT ![w] = [pc |-> "ended", event |-> work[w].event]]
  <2>1. ~At(w, "idle")
    BY <1>1 DEF At
  <2> QED BY <2>1, ShownGoto DEF Dispatch, Phase
<1>4. ShownWork[w].pc = "handle" /\ ShownWork[w].event = work[w].event
  BY <1>2
<1>5. Delivered!At(w, "handle")
  BY <1>4 DEF Delivered!At, ShownWork, Shown
<1>6. CASE handled' = handled \union {work[w].event}
  <2>1. /\ ShownWork' = [ShownWork EXCEPT ![w] = [pc |-> "ended", event |-> ShownWork[w].event]]
        /\ handled' = handled \union {ShownWork[w].event}
    BY <1>3, <1>4, <1>6
  <2>2. Delivered!Return(w)
    BY <1>1, <2>1 DEF Delivered!Return, ShownWork, Shown
  <2> QED BY <1>5, <2>2
<1>7. CASE UNCHANGED handled
  <2>1. ShownWork' = [ShownWork EXCEPT ![w] = [pc |-> "ended", event |-> ShownWork[w].event]]
    BY <1>3, <1>4
  <2>2. Delivered!Throw(w)
    BY <1>1, <1>7, <2>1 DEF Delivered!Throw, ShownWork, Shown
  <2> QED BY <1>5, <2>2
<1> QED BY <1>6, <1>7 DEF Dispatch

\* Stripe delivers an event, or staff replay one whose row is there.
LEMMA StartsDelivery ==
    ASSUME Inv, NEW w \in Workers, NEW e \in Events, Deliver(w, e) \/ Replay(w, e)
    PROVE  Delivered!Deliver(w, e) \/ Delivered!Replay(w, e)
<1> Typed
  BY DEF Inv
<1>1. At(w, "idle") /\ UNCHANGED <<sent, acked, handled>>
  BY DEF Deliver, Replay
<1>2. ShownWork[w] = Idle
  BY <1>1, ShownPhase
<1>3. ShownWork' = [ShownWork EXCEPT ![w] = [pc |-> "delivered", event |-> e]]
  <2>1. /\ work'[w].pc \in {"resolve", "takeover"} /\ work'[w].event = e
        /\ \A v \in Workers : v # w => work'[v] = work[v]
    BY DEF Deliver, Replay, Typed, TypeOK
  <2>2. Shown(w)' = [pc |-> "delivered", event |-> e]
    BY <2>1 DEF Shown, At, Phase
  <2> QED BY <2>1, <2>2, ShownStep
<1>4. CASE Deliver(w, e)
  BY <1>1, <1>2, <1>3, <1>4 DEF Deliver, Delivered!Deliver, Delivered!At, ShownWork, Shown, Idle
<1>5. CASE Replay(w, e)
  <2>1. e \in sent
    BY <1>5 DEF Replay, Typed, OnlySentArrives
  <2> QED BY <1>1, <1>2, <1>3, <2>1 DEF Delivered!Replay, Delivered!At, ShownWork, Shown, Idle
<1> QED BY <1>4, <1>5

\* Every step of the route is a step of EventDelivery or a stutter.
LEMMA StepDelivers ==
    Inv /\ [Next]_vars => [Delivered!DeliveryNext]_<<sent, acked, handled, ShownWork>>
<1> SUFFICES ASSUME Inv, [Next]_vars
             PROVE  [Delivered!DeliveryNext]_<<sent, acked, handled, ShownWork>>
  OBVIOUS
<1> DEFINE Goal == Delivered!DeliveryNext \/ UNCHANGED <<sent, acked, handled, ShownWork>>
<1> Typed
  BY DEF Inv
<1>1. ASSUME NEW e \in Events, Send(e) PROVE Goal
  <2>1. Delivered!Send(e)
    BY <1>1 DEF Send, Delivered!Send, At
  <2> QED BY <2>1 DEF Delivered!DeliveryNext
<1>2. ASSUME NEW w \in Workers, NEW e \in Events, Deliver(w, e) \/ Replay(w, e) PROVE Goal
  BY <1>2, StartsDelivery DEF Delivered!DeliveryNext
<1>3. ASSUME NEW w \in Workers, Insert(w) \/ TakeOver(w) PROVE Goal
  BY <1>3, BeginsDelivery DEF Delivered!DeliveryNext, Delivered!Delivery
<1>4. ASSUME NEW w \in Workers, Dispatch(w) PROVE Goal
  BY <1>4, HandlesDelivery DEF Delivered!DeliveryNext
<1>5. ASSUME NEW w \in Workers, InsertFails(w) PROVE Goal
  <2>1. At(w, "insert") /\ Goto(w, "lookup") /\ UNCHANGED <<sent, acked, handled>>
    BY <1>5 DEF InsertFails
  <2>2. ShownWork' = [ShownWork EXCEPT ![w] = ShownWork[w]]
    BY <2>1, ShownGoto, ShownPhase DEF At, Phase
  <2> QED BY <2>1, <2>2 DEF ShownWork
<1>6. ASSUME NEW w \in Workers, CompleteFails(w) PROVE Goal
  <2>1. At(w, "complete") /\ Goto(w, "fail") /\ UNCHANGED <<sent, acked, handled>>
    BY <1>6 DEF CompleteFails
  <2>2. ShownWork' = [ShownWork EXCEPT ![w] = ShownWork[w]]
    BY <2>1, ShownGoto, ShownPhase DEF At, Phase
  <2> QED BY <2>1, <2>2 DEF ShownWork
<1>7. ASSUME NEW w \in Workers, Lookup(w) PROVE Goal
  <2>1. At(w, "lookup") /\ UNCHANGED <<sent, handled>>
    BY <1>7 DEF Lookup
  <2>2. CASE Answer200(w) \/ RetryLater(w)
    BY <2>1, <2>2, DropsDelivery DEF At, Delivered!DeliveryNext, Delivered!Delivery
  <2>3. CASE GotoAs(w, "takeover", "takeover") /\ UNCHANGED acked
    <3>1. ShownWork' = [ShownWork EXCEPT ![w] = ShownWork[w]]
      BY <2>1, <2>3, ShownGoto, ShownPhase DEF At, Phase
    <3> QED BY <2>1, <2>3, <3>1 DEF ShownWork
  <2> QED BY <1>7, <2>2, <2>3 DEF Lookup
<1>8. ASSUME NEW w \in Workers, Complete(w) \/ Fail(w) PROVE Goal
  <2>1. /\ work[w].pc \in {"complete", "fail"} /\ UNCHANGED <<sent, handled>>
        /\ (At(w, "complete") /\ Answer200(w)) \/ RetryLater(w)
    BY <1>8 DEF Complete, Fail, At
  <2> QED BY <2>1, AnswersDelivery DEF Delivered!DeliveryNext, Delivered!Delivery
<1>9. ASSUME NEW w \in Workers, Abort(w) PROVE Goal
  <2>1. /\ work[w].pc \in {"resolve", "lookup", "takeover", "fail"}
        /\ RetryLater(w) /\ UNCHANGED <<sent, handled>>
    BY <1>9 DEF Abort
  <2> QED BY <2>1, DropsDelivery, AnswersDelivery DEF Delivered!DeliveryNext, Delivered!Delivery
<1>10. ASSUME Crash PROVE Goal
  <2>1. ShownWork' = [w \in Workers |-> Idle] /\ UNCHANGED <<sent, acked, handled>>
    BY <1>10 DEF Crash, ShownWork, Shown, At, Idle
  <2>2. Delivered!Crash
    BY <2>1 DEF Delivered!Crash, Delivered!Idle, ShownWork, Shown, Idle
  <2> QED BY <2>2 DEF Delivered!DeliveryNext
<1>11. ASSUME NEW e \in Events, Age(e) \/ Cleanup(e) PROVE Goal
  BY <1>11 DEF Age, Cleanup, ShownWork, Shown, At
<1>12. CASE UNCHANGED vars
  BY <1>12 DEF vars, ShownWork, Shown, At
<1>13. ASSUME NEW w \in Workers, Resolve(w) PROVE Goal
  <2>1. At(w, "resolve") /\ UNCHANGED <<sent, handled>>
    BY <1>13 DEF Resolve
  <2>2. CASE Answer200(w)
    BY <2>1, <2>2, DropsDelivery DEF At, Delivered!DeliveryNext, Delivered!Delivery
  <2>3. CASE Goto(w, "insert") /\ UNCHANGED acked
    <3>1. ShownWork' = [ShownWork EXCEPT ![w] = ShownWork[w]]
      BY <2>1, <2>3, ShownGoto, ShownPhase DEF At, Phase
    <3> QED BY <2>1, <2>3, <3>1 DEF ShownWork
  <2> QED BY <1>13, <2>2, <2>3 DEF Resolve
<1> QED BY <1>1, <1>2, <1>3, <1>4, <1>5, <1>6, <1>7, <1>8, <1>9, <1>10, <1>11, <1>12, <1>13
        DEF Next, RequestStep

(***************************************************************************)
(* The theorems.                                                           *)
(***************************************************************************)

\* The inductive invariant holds whatever is delivered, replayed, deleted or killed.
THEOREM InvIsInvariant == Spec => []Inv
<1>1. Init => Inv
  BY StripeEventsAssumption
     DEF Init, Inv, Typed, TypeOK, OnlySentArrives, CompletedWasHandled, AckedWasHandled, LetGo,
         Exclusion, ClaimHasRow, InsertExcludes, TakeoverIsNoInsert, Claimed, Handling,
         Row, Absent, Request, Idle, At
<1>2. Inv /\ [Next]_vars => Inv'
  BY TypeStep, HandledStep, ExclusionStep DEF Inv
<1> QED BY <1>1, <1>2, PTL DEF Spec

\* Rows, requests and what Stripe knows are of their types.
THEOREM TypeCorrect == Spec => []TypeOK
<1>1. Inv => TypeOK
  BY DEF Inv, Typed
<1> QED BY <1>1, InvIsInvariant, PTL

\* A 200 stops the deliveries only of an event whose handler returned, whose row was
\* gone when the request that met it looked it up, or whose object names no tenant and
\* was found to be nobody's. An event that names its tenant can be lost only to the race.
THEOREM AckedEventsWereHandled == Spec => []AckedWasHandled
<1>1. Inv => AckedWasHandled
  BY DEF Inv
<1> QED BY <1>1, InvIsInvariant, PTL

\* No request handles an event beside the one that inserted its row, unless time or
\* a replay passed over one of them.
THEOREM FirstClaimIsExclusive == Spec => []OnlyTakeoversOverlap
<1>1. Inv => OnlyTakeoversOverlap
  BY DEF Inv, Exclusion, InsertExcludes, OnlyTakeoversOverlap, Handling, Claimed, At
<1> QED BY <1>1, InvIsInvariant, PTL

\* The webhook route promises the handlers of Stripe events what EventDelivery says:
\* every step of it is a delivery, the beginning or the end of a handler, an answer
\* that is 200 only after the handler returned or without one, or changes none of that.
THEOREM RouteImplementsDelivery == Spec => ImplementsDelivery
<1>1. Init => Delivered!DeliveryInit
  BY DEF Init, Delivered!DeliveryInit, Delivered!Idle, Idle, At
<1>2. Inv /\ [Next]_vars
        => [Delivered!DeliveryNext]_<<sent, acked, handled,
               [w \in Workers |-> IF At(w, "idle") THEN Idle
                                  ELSE [pc |-> Phase(work[w].pc), event |-> work[w].event]]>>
  BY StepDelivers DEF ShownWork, Shown
<1> QED BY <1>1, <1>2, InvIsInvariant, PTL DEF Spec, ImplementsDelivery, Delivered!DeliverySpec
=============================================================================
