---------------------------- MODULE KeezSyncProofs ----------------------------
(***************************************************************************)
(* Proofs about KeezSync, for any number of users, failures and restarts   *)
(* and whatever the surroundings may do: its type invariant, and that      *)
(* calls which do not get in each other's way leave no ghost and no        *)
(* degraded integration that nobody was told of.                           *)
(***************************************************************************)
EXTENDS KeezSync, TLAPS

(***************************************************************************)
(* The inductive invariants.                                               *)
(***************************************************************************)
Counting(c) == calls[c].pc \in {"cancel", "read", "write", "enqueue"}
Holding(c) == calls[c].pc \in {"locked", "sync", "clear"}

\* The lock is held by the call that took it; an idle worker runs no job; an
\* attempt is queued only while there are some left; the
\* bank page counts nothing.
Typed ==
    /\ TypeOK
    /\ \A c \in Callers : Holding(c) <=> syncing = c
    /\ At("worker", "idle") => job = 0
    /\ \A c \in Callers : At(c, "enqueue") => calls[c].n + 1 < MaxFailures
    /\ \A c \in Callers : Counting(c) => calls[c].by # "bank"

\* A call that is going to count a failure, should it meet one.
Responsible(c) ==
    /\ calls[c].pc \in {"load", "cancel", "begin", "locked", "sync", "read", "write", "enqueue"}
    /\ calls[c].by # "bank"

\* There are failures only as long as somebody looks after them.
Chain == failures = 0 \/ degraded \/ queue # {} \/ \E c \in Callers : Responsible(c)

\* No attempt is ahead of the counter, so the next one finds its id free.
Attempted ==
    /\ \A id \in queue : id <= failures
    /\ job <= failures \/ At("worker", "clear")
    /\ \A c \in Callers : At(c, "write") => calls[c].n = failures
    /\ \A c \in Callers : At(c, "enqueue") => failures = calls[c].n + 1 /\ job <= calls[c].n

Told ==
    /\ degraded => notified \/ \E c \in Callers : At(c, "notify")
    /\ \A c \in Callers : At(c, "clear") => ~degraded

OneAtATime == active /\ \A c, d \in Callers : c # d => At(c, "idle") \/ At(d, "idle")

Undisturbed == clean => OneAtATime /\ Chain /\ Attempted /\ Told

Inv == Typed /\ Undisturbed

(***************************************************************************)
(* Calls.                                                                  *)
(***************************************************************************)

\* Only c does something.
Becomes(c, call) ==
    /\ calls' \in [Callers -> Call] /\ calls'[c] = call
    /\ \A d \in Callers : d # c => calls'[d] = calls[d]

\* A call may become any other.
LEMMA CallBecomes ==
    ASSUME Typed, NEW c \in Callers, NEW call \in Call, calls' = [calls EXCEPT ![c] = call]
    PROVE  Becomes(c, call)
  BY DEF Becomes, Typed, TypeOK

\* A call that is over is one, too.
LEMMA IdleIsCall == Idle \in Call /\ Idle.pc = "idle"
  BY KeezSyncAssumption DEF Idle, Call

\* A call that moves on stays a call.
LEMMA GotoBecomes ==
    ASSUME Typed, NEW c \in Callers, NEW pc \in {"begin", "locked", "sync"}, Goto(c, pc)
    PROVE  \E call \in Call : Becomes(c, call) /\ call.pc = pc /\ call.by = calls[c].by
<1> DEFINE call == [calls[c] EXCEPT !.pc = pc]
<1>1. call \in Call /\ call.pc = pc /\ call.by = calls[c].by
  BY DEF Typed, TypeOK, Call
<1>2. Becomes(c, call)
  BY <1>1, CallBecomes DEF Goto
<1> QED BY <1>1, <1>2

\* A call that ends leaves the worker, if it was the worker, without a job.
LEMMA EndBecomes ==
    ASSUME Typed, NEW c \in Callers, End(c)
    PROVE  Becomes(c, Idle) /\ job' = IF c = "worker" THEN 0 ELSE job
  BY IdleIsCall, CallBecomes DEF End

\* A call that begins was idle.
LEMMA StartBecomes ==
    ASSUME Typed, NEW c \in Callers, NEW by \in {"cron", "retry", "manual", "bank"},
           NEW pc \in {"load", "cancel", "begin"}, Start(c, by, pc)
    PROVE  /\ \E call \in Call : Becomes(c, call) /\ call.pc = pc /\ call.by = by
           /\ At(c, "idle") /\ clean' = (clean /\ Alone(c)) /\ clean' \in BOOLEAN
<1> DEFINE call == [Idle EXCEPT !.pc = pc, !.by = by]
<1>1. call \in Call /\ call.pc = pc /\ call.by = by
  BY IdleIsCall DEF Idle, Call
<1>2. Becomes(c, call)
  BY <1>1, CallBecomes DEF Start
<1> QED BY <1>1, <1>2 DEF Start

\* A call that notifies or clears keeps nothing in mind.
LEMMA ForgetBecomes ==
    ASSUME Typed, NEW c \in Callers, NEW pc \in {"clear", "notify"},
           calls' = [calls EXCEPT ![c] = [Idle EXCEPT !.pc = pc]]
    PROVE  \E call \in Call : Becomes(c, call) /\ call.pc = pc
<1>1. [Idle EXCEPT !.pc = pc] \in Call /\ [Idle EXCEPT !.pc = pc].pc = pc
  BY IdleIsCall DEF Idle, Call
<1> QED BY <1>1, CallBecomes

\* A call that removes retries removes the next one, or begins.
LEMMA CancelBecomes ==
    ASSUME Typed, NEW u \in Users, CancelPendingKeezRetry(u)
    PROVE  \E call \in Call : /\ Becomes(u, call) /\ call.pc \in {"cancel", "begin"}
                              /\ call.by = calls[u].by
<1>1. u \in Callers /\ calls[u] \in Call /\ calls[u].pc = "cancel"
  BY DEF CancelPendingKeezRetry, At, Callers, Typed, TypeOK
<1> DEFINE call == IF calls[u].n + 2 < MaxFailures THEN [calls[u] EXCEPT !.n = calls[u].n + 1]
                   ELSE [calls[u] EXCEPT !.pc = "begin", !.n = 0]
<1>2. call \in Call /\ call.pc \in {"cancel", "begin"} /\ call.by = calls[u].by
  <2>1. CASE calls[u].n + 2 < MaxFailures
    BY <1>1, <2>1, KeezSyncAssumption DEF Call
  <2>2. CASE ~(calls[u].n + 2 < MaxFailures)
    <3>1. call = [calls[u] EXCEPT !.pc = "begin", !.n = 0]
      BY <2>2
    <3>2. call = [pc |-> "begin", by |-> calls[u].by, again |-> calls[u].again,
                  error |-> calls[u].error, n |-> 0]
      BY <1>1, <3>1 DEF Call
    <3>3. 0 \in 0..MaxFailures
      BY KeezSyncAssumption
    <3> HIDE DEF call
    <3> QED BY <1>1, <3>2, <3>3 DEF Call
  <2> QED BY <2>1, <2>2
<1>3. calls' = [calls EXCEPT ![u] = call]
  BY DEF CancelPendingKeezRetry
<1>4. Becomes(u, call)
  BY <1>1, <1>2, <1>3, CallBecomes
<1> QED BY <1>2, <1>4

Read(c, n) == [calls[c] EXCEPT !.pc = "write", !.n = n]

\* A call that read the counter has it in mind, or 0.
LEMMA ReadBecomes ==
    ASSUME Typed, NEW c \in Callers, ReadCount(c)
    PROVE  \E call \in Call : /\ Becomes(c, call) /\ call.pc = "write" /\ call.by = calls[c].by
                              /\ call.n = failures \/ clean' = FALSE
<1>1. PICK n \in 0..MaxFailures : /\ calls' = [calls EXCEPT ![c] = Read(c, n)]
                                  /\ n = failures \/ clean' = FALSE
  <2>1. \/ calls' = [calls EXCEPT ![c] = Read(c, failures)]
        \/ calls' = [calls EXCEPT ![c] = Read(c, 0)] /\ clean' = FALSE
    BY DEF ReadCount, Read
  <2>2. failures \in 0..MaxFailures /\ 0 \in 0..MaxFailures
    BY KeezSyncAssumption DEF Typed, TypeOK
  <2> QED BY <2>1, <2>2
<1>2. /\ Read(c, n) \in Call /\ Read(c, n).pc = "write"
      /\ Read(c, n).n = n /\ Read(c, n).by = calls[c].by
  BY DEF Read, Typed, TypeOK, Call
<1>3. Becomes(c, Read(c, n))
  BY <1>1, <1>2, CallBecomes
<1>4. Read(c, n).n = failures \/ clean' = FALSE
  BY <1>1, <1>2
<1> QED BY <1>2, <1>3, <1>4

\* What a failure makes of the call that meets it.
FailedCall(c, call) ==
    \/ call.pc = "begin" /\ call.by = "cron"
    \/ call = Idle /\ calls[c].by = "bank"
    \/ call.pc = "read" /\ call.by = "none"

\* A call that met a failure tries again, is over, or goes to count it.
LEMMA AfterFailureBecomes ==
    ASSUME Typed, NEW c \in Callers, AfterFailure(c)
    PROVE  \E call \in Call : /\ Becomes(c, call) /\ FailedCall(c, call)
                              /\ job' = IF call.pc = "idle" /\ c = "worker" THEN 0 ELSE job
<1>1. CASE calls[c].by = "cron" /\ keez = "garbled" /\ ~calls[c].again
  <2> DEFINE call == [calls[c] EXCEPT !.pc = "begin", !.again = TRUE]
  <2>1. call \in Call /\ call.pc = "begin" /\ call.by = "cron"
    BY <1>1 DEF Typed, TypeOK, Call
  <2>2. Becomes(c, call) /\ job' = job
    BY <1>1, <2>1 DEF AfterFailure, Becomes, Typed, TypeOK, Call
  <2> QED BY <1>1, <2>1, <2>2 DEF FailedCall
<1>2. CASE ~(calls[c].by = "cron" /\ keez = "garbled" /\ ~calls[c].again) /\ calls[c].by = "bank"
  <2>1. Becomes(c, Idle) /\ job' = IF c = "worker" THEN 0 ELSE job
    BY <1>2, EndBecomes DEF AfterFailure
  <2> QED BY <1>2, <2>1, IdleIsCall DEF FailedCall, Idle
<1>3. CASE ~(calls[c].by = "cron" /\ keez = "garbled" /\ ~calls[c].again) /\ calls[c].by # "bank"
  <2>1. PICK error \in {"permanent", "transient"} :
            calls' = [calls EXCEPT ![c] = [Idle EXCEPT !.pc = "read", !.error = error]] /\ job' = job
    BY <1>3 DEF AfterFailure
  <2>2. [Idle EXCEPT !.pc = "read", !.error = error] \in Call
    BY IdleIsCall DEF Idle, Call
  <2>3. Becomes(c, [Idle EXCEPT !.pc = "read", !.error = error])
    BY <2>1, <2>2, CallBecomes
  <2>4. [Idle EXCEPT !.pc = "read", !.error = error].pc = "read"
        /\ [Idle EXCEPT !.pc = "read", !.error = error].by = "none"
    BY DEF Idle
  <2> QED BY <2>1, <2>2, <2>3, <2>4 DEF FailedCall
<1> QED BY <1>1, <1>2, <1>3

\* A call that wrote the counter notifies or queues an attempt that is left.
LEMMA WriteBecomes ==
    ASSUME Typed, NEW c \in Callers, WriteCount(c)
    PROVE  \E call \in Call :
              /\ Becomes(c, call)
              /\ \/ MarkDegraded(calls[c].error, calls[c].n) /\ call.pc = "notify"
                 \/ /\ ~MarkDegraded(calls[c].error, calls[c].n)
                    /\ call.pc = "enqueue" /\ call.n = calls[c].n /\ call.by = calls[c].by
                    /\ call.n + 1 < MaxFailures
<1>1. CASE MarkDegraded(calls[c].error, calls[c].n)
  BY <1>1, ForgetBecomes DEF WriteCount
<1>2. CASE ~MarkDegraded(calls[c].error, calls[c].n)
  <2> DEFINE call == [calls[c] EXCEPT !.pc = "enqueue"]
  <2>1. call \in Call /\ call.pc = "enqueue" /\ call.n = calls[c].n /\ call.by = calls[c].by
    BY DEF Typed, TypeOK, Call
  <2>2. calls' = [calls EXCEPT ![c] = call]
    BY <1>2 DEF WriteCount
  <2>3. call.n + 1 < MaxFailures
    BY <1>2, <2>1, KeezSyncAssumption DEF MarkDegraded, Call
  <2> QED BY <1>2, <2>1, <2>2, <2>3, CallBecomes
<1> QED BY <1>1, <1>2

(***************************************************************************)
(* Types.                                                                  *)
(***************************************************************************)
Store ==
    /\ keez \in Weather /\ failures \in 0..MaxFailures
    /\ queue \subseteq Attempts /\ job \in 0..(MaxFailures - 1)
    /\ syncing \in Callers \union {"nobody"}
    /\ restarts \in 0..MaxRestarts
Flags == active \in BOOLEAN /\ degraded \in BOOLEAN /\ notified \in BOOLEAN /\ clean \in BOOLEAN

\* What c becomes fits the lock, the job and the attempts that are left.
Fits(c, call) ==
    /\ syncing' = c <=> call.pc \in {"locked", "sync", "clear"}
    /\ \A d \in Callers : d # c => (syncing' = d <=> syncing = d)
    /\ IF c = "worker" THEN call.pc = "idle" => job' = 0 ELSE job' = job
    /\ call.pc = "enqueue" => call.n + 1 < MaxFailures
    /\ call.pc \in {"cancel", "read", "write", "enqueue"} => call.by # "bank"

\* A step of one call keeps the types when what it stores and becomes is right.
LEMMA CallStep ==
    ASSUME Typed, NEW c \in Callers, NEW call \in Call, Becomes(c, call), Fits(c, call), Store', Flags'
    PROVE  Typed'
  BY DEF Typed, TypeOK, Store, Flags, Becomes, Fits, Holding, Counting, At, Callers

\* Every step keeps the types.
LEMMA TypeStep == Typed /\ [Next]_vars => Typed'
<1> SUFFICES ASSUME Typed, [Next]_vars PROVE Typed'
  OBVIOUS
<1> USE KeezSyncAssumption
<1>0. Store /\ Flags
  BY DEF Store, Flags, Typed, TypeOK
<1>1. CASE StartCron
  <2>1. PICK call \in Call : Becomes("worker", call) /\ call.pc = "begin" /\ At("worker", "idle") /\ clean' \in BOOLEAN
    BY <1>1, StartBecomes DEF StartCron, Callers
  <2>2. Fits("worker", call)
    BY <1>1, <2>1 DEF StartCron, Fits, Holding, Counting, At, Callers, Typed, TypeOK, integration, End
  <2>3. Store'
    BY <1>1, <1>0, <2>1 DEF StartCron, Store, Callers, integration
  <2>4. Flags'
    BY <1>1, <1>0, <2>1 DEF StartCron, Flags, integration
  <2> QED BY <2>1, <2>2, <2>3, <2>4, CallStep DEF Callers
<1>2. ASSUME NEW id \in Attempts, StartRetry(id) PROVE Typed'
  <2>1. PICK call \in Call : Becomes("worker", call) /\ call.pc = "load" /\ At("worker", "idle") /\ clean' \in BOOLEAN
    BY <1>2, StartBecomes DEF StartRetry, Callers
  <2>2. Fits("worker", call)
    BY <1>2, <2>1 DEF StartRetry, Fits, Holding, Counting, At, Callers, Typed, TypeOK, integration, End
  <2>3. Store'
    BY <1>2, <1>0, <2>1 DEF StartRetry, Store, Callers, integration, Attempts
  <2>4. Flags'
    BY <1>2, <1>0, <2>1 DEF StartRetry, Flags, integration
  <2> QED BY <2>1, <2>2, <2>3, <2>4, CallStep DEF Callers
<1>3. ASSUME NEW u \in Users, SyncInvoicesFromKeez(u) PROVE Typed'
  <2>1. PICK call \in Call : Becomes(u, call) /\ call.pc = "cancel" /\ call.by = "manual" /\ At(u, "idle") /\ clean' \in BOOLEAN
    BY <1>3, StartBecomes DEF SyncInvoicesFromKeez, Callers
  <2>2. Fits(u, call)
    BY <1>3, <2>1 DEF SyncInvoicesFromKeez, Fits, Holding, Counting, At, Callers, Typed, TypeOK, integration, End
  <2>3. Store'
    BY <1>3, <1>0, <2>1 DEF SyncInvoicesFromKeez, Store, Callers, integration
  <2>4. Flags'
    BY <1>3, <1>0, <2>1 DEF SyncInvoicesFromKeez, Flags, integration
  <2> QED BY <2>1, <2>2, <2>3, <2>4, CallStep DEF Callers
<1>4. ASSUME NEW u \in Users, SyncKeezIfStale(u) PROVE Typed'
  <2>1. PICK call \in Call : Becomes(u, call) /\ call.pc = "begin" /\ At(u, "idle") /\ clean' \in BOOLEAN
    BY <1>4, StartBecomes DEF SyncKeezIfStale, Callers
  <2>2. Fits(u, call)
    BY <1>4, <2>1 DEF SyncKeezIfStale, Fits, Holding, Counting, At, Callers, Typed, TypeOK, integration, End
  <2>3. Store'
    BY <1>4, <1>0, <2>1 DEF SyncKeezIfStale, Store, Callers, integration
  <2>4. Flags'
    BY <1>4, <1>0, <2>1 DEF SyncKeezIfStale, Flags, integration
  <2> QED BY <2>1, <2>2, <2>3, <2>4, CallStep DEF Callers
<1>5. ASSUME NEW u \in Users, CancelPendingKeezRetry(u) PROVE Typed'
  <2>1. PICK call \in Call : Becomes(u, call) /\ call.pc \in {"cancel", "begin"} /\ call.by = calls[u].by
    BY <1>5, CancelBecomes
  <2>2. Fits(u, call)
    BY <1>5, <2>1 DEF CancelPendingKeezRetry, Fits, Holding, Counting, At, Callers, Typed, TypeOK, integration, End
  <2>3. Store'
    BY <1>5, <1>0, <2>1 DEF CancelPendingKeezRetry, Store, Callers, integration
  <2>4. Flags'
    BY <1>5, <1>0, <2>1 DEF CancelPendingKeezRetry, Flags, integration
  <2> QED BY <2>1, <2>2, <2>3, <2>4, CallStep DEF Callers
<1>6. CASE LoadRetry
  <2>1. PICK call \in Call :
            /\ Becomes("worker", call)
            /\ \/ call.pc = "begin" /\ job' = job
               \/ call.pc = "idle" /\ job' = 0
    <3>1. CASE active
      BY <1>6, <3>1, GotoBecomes DEF LoadRetry, Callers
    <3>2. CASE ~active
      BY <1>6, <3>2, EndBecomes, IdleIsCall DEF LoadRetry, Callers
    <3> QED BY <3>1, <3>2
  <2>2. Fits("worker", call)
    BY <1>6, <2>1 DEF LoadRetry, Fits, Holding, Counting, At, Callers, Typed, TypeOK
  <2>3. Store'
    BY <1>6, <1>0, <2>1 DEF LoadRetry, Store, integration
  <2>4. Flags' /\ "worker" \in Callers
    BY <1>6, <1>0 DEF LoadRetry, Flags, Callers, integration
  <2> QED BY <2>1, <2>2, <2>3, <2>4, CallStep
<1>7. ASSUME NEW c \in Callers, Skip(c) PROVE Typed'
  <2>1. Becomes(c, Idle) /\ Idle \in Call /\ Idle.pc = "idle" /\ job' = IF c = "worker" THEN 0 ELSE job
    BY <1>7, EndBecomes, IdleIsCall DEF Skip
  <2>2. Fits(c, Idle)
    BY <1>7, <2>1 DEF Skip, Fits, Holding, Counting, At, Callers, Typed, TypeOK, integration, End
  <2>3. Store'
    BY <1>7, <1>0, <2>1 DEF Skip, Store, Callers, integration
  <2>4. Flags'
    BY <1>7, <1>0, <2>1 DEF Skip, Flags, integration
  <2> QED BY <2>1, <2>2, <2>3, <2>4, CallStep
<1>8. ASSUME NEW c \in Callers, Lock(c) PROVE Typed'
  <2>1. PICK call \in Call : Becomes(c, call) /\ call.pc = "locked"
    BY <1>8, GotoBecomes DEF Lock
  <2>2. Fits(c, call)
    BY <1>8, <2>1 DEF Lock, Fits, Holding, Counting, At, Callers, Typed, TypeOK, integration, End
  <2>3. Store'
    BY <1>8, <1>0, <2>1 DEF Lock, Store, Callers, integration
  <2>4. Flags'
    BY <1>8, <1>0, <2>1 DEF Lock, Flags, integration
  <2> QED BY <2>1, <2>2, <2>3, <2>4, CallStep
<1>9. ASSUME NEW c \in Callers, LoadIntegration(c) PROVE Typed'
  <2>1. PICK call \in Call :
            /\ Becomes(c, call)
            /\ \/ call.pc = "sync" /\ job' = job /\ syncing' = syncing
               \/ call.pc = "idle" /\ syncing' = "nobody" /\ job' = IF c = "worker" THEN 0 ELSE job
    BY <1>9, GotoBecomes, EndBecomes, IdleIsCall DEF LoadIntegration
  <2>2. Fits(c, call)
    BY <1>9, <2>1 DEF LoadIntegration, Fits, Holding, Counting, At, Callers, Typed, TypeOK
  <2>3. Store'
    BY <1>9, <1>0, <2>1 DEF LoadIntegration, Store, integration
  <2>4. Flags'
    BY <1>9, <1>0 DEF LoadIntegration, Flags, integration
  <2> QED BY <2>1, <2>2, <2>3, <2>4, CallStep
<1>10. ASSUME NEW c \in Callers, SyncSucceeds(c) PROVE Typed'
  <2>1. PICK call \in Call : Becomes(c, call) /\ call.pc = "clear"
    BY <1>10, ForgetBecomes DEF SyncSucceeds
  <2>2. Fits(c, call)
    BY <1>10, <2>1 DEF SyncSucceeds, Fits, Holding, Counting, At, Callers, Typed, TypeOK, integration, End
  <2>3. Store'
    BY <1>10, <1>0, <2>1 DEF SyncSucceeds, Store, Callers, integration, Alone, At
  <2>4. Flags'
    BY <1>10, <1>0, <2>1 DEF SyncSucceeds, Flags, integration, Alone
  <2> QED BY <2>1, <2>2, <2>3, <2>4, CallStep
<1>11. ASSUME NEW c \in Callers, ClearNotifications(c) PROVE Typed'
  <2>1. Becomes(c, Idle) /\ Idle \in Call /\ Idle.pc = "idle" /\ job' = IF c = "worker" THEN 0 ELSE job
    BY <1>11, EndBecomes, IdleIsCall DEF ClearNotifications
  <2>2. Fits(c, Idle)
    BY <1>11, <2>1 DEF ClearNotifications, Fits, Holding, Counting, At, Callers, Typed, TypeOK, integration, End
  <2>3. Store'
    BY <1>11, <1>0, <2>1 DEF ClearNotifications, Store, Callers, integration
  <2>4. Flags'
    BY <1>11, <1>0, <2>1 DEF ClearNotifications, Flags, integration
  <2> QED BY <2>1, <2>2, <2>3, <2>4, CallStep
<1>12. ASSUME NEW c \in Callers, SyncFails(c) PROVE Typed'
  <2>1. PICK call \in Call : /\ Becomes(c, call) /\ call.pc \in {"idle", "begin", "read"}
                             /\ call.pc = "read" => call.by # "bank"
                             /\ job' = IF call.pc = "idle" /\ c = "worker" THEN 0 ELSE job
    BY <1>12, AfterFailureBecomes, IdleIsCall DEF SyncFails, FailedCall
  <2>2. Fits(c, call)
    BY <1>12, <2>1 DEF SyncFails, Fits, Holding, Counting, At, Callers, Typed, TypeOK, integration, End
  <2>3. Store'
    BY <1>12, <1>0, <2>1 DEF SyncFails, Store, Callers, integration
  <2>4. Flags'
    BY <1>12, <1>0, <2>1 DEF SyncFails, Flags, integration
  <2> QED BY <2>1, <2>2, <2>3, <2>4, CallStep
<1>13. ASSUME NEW c \in Callers, ReadCount(c) PROVE Typed'
  <2>1. PICK call \in Call : Becomes(c, call) /\ call.pc = "write" /\ call.by = calls[c].by
    BY <1>13, ReadBecomes
  <2>2. Fits(c, call)
    BY <1>13, <2>1 DEF ReadCount, Fits, Holding, Counting, At, Callers, Typed, TypeOK, integration, End
  <2>3. Store'
    BY <1>13, <1>0, <2>1 DEF ReadCount, Store, Callers, integration
  <2>4. Flags'
    BY <1>13, <1>0, <2>1 DEF ReadCount, Flags, integration
  <2> QED BY <2>1, <2>2, <2>3, <2>4, CallStep
<1>14. ASSUME NEW c \in Callers, WriteCount(c) PROVE Typed'
  <2>1. PICK call \in Call : /\ Becomes(c, call) /\ call.pc \in {"notify", "enqueue"}
                             /\ call.pc = "enqueue" => call.n + 1 < MaxFailures /\ call.by = calls[c].by
    BY <1>14, WriteBecomes
  <2>2. Fits(c, call)
    <3>1. UNCHANGED <<syncing, job>> /\ At(c, "write")
      BY <1>14 DEF WriteCount
    <3> QED BY <2>1, <3>1 DEF Fits, Holding, Counting, At, Callers, Typed, TypeOK
  <2>3. Store'
    <3>1. calls[c].n \in 0..MaxFailures /\ failures' \in {failures, Counted(calls[c].n)}
      BY <1>14 DEF WriteCount, Typed, TypeOK, Call
    <3>2. failures' \in 0..MaxFailures
      BY <1>0, <3>1 DEF Store, Counted
    <3> QED BY <1>14, <1>0, <3>2 DEF WriteCount, Store, Callers
  <2>4. Flags'
    BY <1>14, <1>0, <2>1 DEF WriteCount, Flags, integration, MarkDegraded
  <2> QED BY <2>1, <2>2, <2>3, <2>4, CallStep
<1>15. ASSUME NEW c \in Callers, EnqueueRetry(c) PROVE Typed'
  <2>1. Becomes(c, Idle) /\ Idle \in Call /\ Idle.pc = "idle" /\ job' = IF c = "worker" THEN 0 ELSE job
    BY <1>15, EndBecomes, IdleIsCall DEF EnqueueRetry
  <2>2. Fits(c, Idle)
    BY <1>15, <2>1 DEF EnqueueRetry, Fits, Holding, Counting, At, Callers, Typed, TypeOK, integration, End
  <2>3. Store'
    <3>1. calls[c].n + 1 \in Attempts /\ At(c, "enqueue")
      BY <1>15 DEF EnqueueRetry, At, Attempts, Typed, TypeOK, Call
    <3>2. queue' \in {queue, queue \union {calls[c].n + 1}}
      BY <1>15 DEF EnqueueRetry, RetryJobId
    <3> QED BY <1>15, <1>0, <2>1, <3>1, <3>2 DEF EnqueueRetry, Store, integration
  <2>4. Flags'
    BY <1>15, <1>0, <2>1 DEF EnqueueRetry, Flags, integration
  <2> QED BY <2>1, <2>2, <2>3, <2>4, CallStep
<1>16. ASSUME NEW c \in Callers, EnqueueFails(c) PROVE Typed'
  <2>1. PICK call \in Call : Becomes(c, call) /\ call.pc = "notify"
    BY <1>16, ForgetBecomes DEF EnqueueFails
  <2>2. Fits(c, call)
    BY <1>16, <2>1 DEF EnqueueFails, Fits, Holding, Counting, At, Callers, Typed, TypeOK, integration, End
  <2>3. Store'
    BY <1>16, <1>0, <2>1 DEF EnqueueFails, Store, Callers, integration
  <2>4. Flags'
    BY <1>16, <1>0, <2>1 DEF EnqueueFails, Flags, integration
  <2> QED BY <2>1, <2>2, <2>3, <2>4, CallStep
<1>17. ASSUME NEW c \in Callers, NotifyAdmins(c) PROVE Typed'
  <2>1. Becomes(c, Idle) /\ Idle \in Call /\ Idle.pc = "idle" /\ job' = IF c = "worker" THEN 0 ELSE job
    BY <1>17, EndBecomes, IdleIsCall DEF NotifyAdmins
  <2>2. Fits(c, Idle)
    BY <1>17, <2>1 DEF NotifyAdmins, Fits, Holding, Counting, At, Callers, Typed, TypeOK, integration, End
  <2>3. Store'
    BY <1>17, <1>0, <2>1 DEF NotifyAdmins, Store, Callers, integration
  <2>4. Flags'
    BY <1>17, <1>0, <2>1 DEF NotifyAdmins, Flags, integration
  <2> QED BY <2>1, <2>2, <2>3, <2>4, CallStep
<1>18. CASE DisconnectKeez \/ ConnectKeez \/ KeezChanges \/ UNCHANGED vars
  BY <1>18 DEF DisconnectKeez, ConnectKeez, KeezChanges, vars, Holding, Counting, At, Typed, TypeOK, integration
<1>19. CASE Restart
  <2>1. /\ calls' \in [Callers -> Call] /\ \A c \in Callers : calls'[c].pc = "idle"
        /\ job' = 0 /\ syncing' = "nobody" /\ "nobody" \notin Callers
    BY <1>19, IdleIsCall DEF Restart, Callers
  <2>2. queue' \subseteq Attempts
    BY <1>19 DEF Restart, Attempts, Typed, TypeOK
  <2>3. Store'
    BY <1>19, <1>0, <2>1, <2>2 DEF Restart, Store, integration
  <2>4. Flags'
    BY <1>19, <1>0 DEF Restart, Flags, integration
  <2> QED BY <2>1, <2>3, <2>4 DEF Typed, TypeOK, Store, Flags, Holding, Counting, At
<1> QED BY <1>1, <1>2, <1>3, <1>4, <1>5, <1>6, <1>7, <1>8, <1>9,
           <1>10, <1>11, <1>12, <1>13, <1>14, <1>15, <1>16, <1>17, <1>18, <1>19
        DEF Next, Work, Proceed

(***************************************************************************)
(* Undisturbed calls.                                                      *)
(***************************************************************************)

\* What c becomes, and what it stores, leaves the chain and the counter right.
Sound(c, call) ==
    /\ active'
    /\ \/ failures' = 0 \/ degraded' \/ queue' # {}
       \/ /\ call.pc \in {"load", "cancel", "begin", "locked", "sync", "read", "write", "enqueue"}
          /\ call.by # "bank"
    /\ \A id \in queue' : id <= failures'
    /\ job' <= failures' \/ (c = "worker" /\ call.pc = "clear")
    /\ call.pc = "write" => call.n = failures'
    /\ call.pc = "enqueue" => failures' = call.n + 1 /\ job' <= call.n
    /\ degraded' => notified' \/ call.pc = "notify"
    /\ call.pc = "clear" => ~degraded'

Healthy == OneAtATime /\ Chain /\ Attempted /\ Told

\* A sound step of a call that is alone leaves all well.
LEMMA SoundStep ==
    ASSUME NEW c \in Callers, NEW call, Alone(c), Becomes(c, call), Sound(c, call)
    PROVE  Healthy'
<1>1. \A d \in Callers : d # c => At(d, "idle")'
  BY DEF Alone, At, Becomes
<1>2. OneAtATime'
  BY <1>1 DEF OneAtATime, Sound
<1>3. Chain'
  BY DEF Chain, Responsible, Sound, Becomes
<1>4. Attempted'
  BY <1>1 DEF Attempted, Sound, Becomes, At
<1>5. Told'
  BY <1>1 DEF Told, Sound, Becomes, At
<1> QED BY <1>2, <1>3, <1>4, <1>5 DEF Healthy

\* A call that is under way is alone.
LEMMA UnderWayIsAlone ==
    ASSUME OneAtATime, NEW c \in Callers, ~At(c, "idle")
    PROVE  Alone(c)
  BY DEF OneAtATime, Alone

\* What holds when nobody but c is under way.
LEMMA WhenAlone ==
    ASSUME Typed, Healthy, NEW c \in Callers, Alone(c)
    PROVE  /\ active /\ failures \in Nat /\ job \in Nat
           /\ failures = 0 \/ degraded \/ queue # {} \/ Responsible(c)
           /\ \A id \in queue : id \in Nat /\ id <= failures
           /\ c # "worker" => job = 0
           /\ job <= failures \/ (c = "worker" /\ At(c, "clear"))
           /\ degraded => notified \/ At(c, "notify")
<1>1. \A d \in Callers : d # c => At(d, "idle") /\ ~Responsible(d)
  BY DEF Alone, At, Responsible
<1>2. failures \in Nat /\ job \in Nat /\ queue \subseteq Nat
  BY KeezSyncAssumption DEF Typed, TypeOK, Attempts
<1>3. c # "worker" => job = 0
  BY <1>1 DEF Typed, Callers
<1>4. failures = 0 \/ degraded \/ queue # {} \/ Responsible(c)
  BY <1>1 DEF Healthy, Chain
<1>5. degraded => notified \/ At(c, "notify")
  BY <1>1 DEF Healthy, Told, At
<1>6. job <= failures \/ (c = "worker" /\ At(c, "clear"))
  BY <1>2, <1>3 DEF Healthy, Attempted
<1> QED BY <1>2, <1>3, <1>4, <1>5, <1>6 DEF Healthy, OneAtATime, Attempted

\* Every step keeps what holds as long as nothing disturbs.
LEMMA UndisturbedStep == Typed /\ Undisturbed /\ [Next]_vars => Undisturbed'
<1> SUFFICES ASSUME Typed, Undisturbed, [Next]_vars, clean' PROVE Healthy'
  BY DEF Undisturbed, Healthy
<1>0. clean => Healthy
  BY DEF Undisturbed, Healthy
<1>1. CASE StartCron
  <2>1. PICK call \in Call : Becomes("worker", call) /\ call.pc = "begin" /\ At("worker", "idle")
                            /\ clean' = (clean /\ Alone("worker"))
    BY <1>1, StartBecomes DEF StartCron, Callers
  <2>2. UNCHANGED <<active, failures, degraded, notified, queue, job>>
    BY <1>1 DEF StartCron, integration
  <2>3. Healthy /\ Alone("worker")
    BY <1>0, <1>1, <2>1, <2>2, UnderWayIsAlone DEF Healthy, OneAtATime
  <2>4. Sound("worker", call)
    BY <2>1, <2>2, <2>3, WhenAlone DEF Sound, Responsible, At, Callers
  <2> QED BY <2>1, <2>3, <2>4, SoundStep DEF Callers
<1>2. ASSUME NEW id \in Attempts, StartRetry(id) PROVE Healthy'
  <2>1. PICK call \in Call : /\ Becomes("worker", call) /\ call.pc = "load" /\ call.by = "retry"
                             /\ At("worker", "idle") /\ clean' = (clean /\ Alone("worker"))
    BY <1>2, StartBecomes DEF StartRetry, Callers
  <2>2. UNCHANGED <<active, failures, degraded, notified>> /\ id \in queue /\ queue' = queue \ {id} /\ job' = id
    BY <1>2 DEF StartRetry, integration
  <2>3. Healthy /\ Alone("worker")
    BY <1>0, <1>2, <2>1, <2>2, UnderWayIsAlone DEF Healthy, OneAtATime
  <2>4. Sound("worker", call)
    BY <2>1, <2>2, <2>3, WhenAlone DEF Sound, Responsible, At, Callers
  <2> QED BY <2>1, <2>3, <2>4, SoundStep DEF Callers
<1>3. ASSUME NEW u \in Users, SyncInvoicesFromKeez(u) PROVE Healthy'
  <2>1. PICK call \in Call : /\ Becomes(u, call) /\ call.pc = "cancel" /\ call.by = "manual"
                             /\ At(u, "idle") /\ clean' = (clean /\ Alone(u))
    BY <1>3, StartBecomes DEF SyncInvoicesFromKeez, Callers
  <2>2. UNCHANGED <<active, failures, degraded, notified, queue, job>>
    BY <1>3 DEF SyncInvoicesFromKeez, integration
  <2>3. Healthy /\ Alone(u)
    BY <1>0, <1>3, <2>1, <2>2, UnderWayIsAlone DEF Healthy, OneAtATime
  <2>4. Sound(u, call)
    BY <2>1, <2>2, <2>3, WhenAlone DEF Sound, Responsible, At, Callers
  <2> QED BY <2>1, <2>3, <2>4, SoundStep DEF Callers
<1>4. ASSUME NEW u \in Users, SyncKeezIfStale(u) PROVE Healthy'
  <2>1. PICK call \in Call : /\ Becomes(u, call) /\ call.pc = "begin" /\ call.by = "bank"
                             /\ At(u, "idle") /\ clean' = (clean /\ Alone(u))
    BY <1>4, StartBecomes DEF SyncKeezIfStale, Callers
  <2>2. UNCHANGED <<active, failures, degraded, notified, queue, job>>
    BY <1>4 DEF SyncKeezIfStale, integration
  <2>3. Healthy /\ Alone(u)
    BY <1>0, <1>4, <2>1, <2>2, UnderWayIsAlone DEF Healthy, OneAtATime
  <2>4. Sound(u, call)
    BY <2>1, <2>2, <2>3, WhenAlone DEF Sound, Responsible, At, Callers
  <2> QED BY <2>1, <2>3, <2>4, SoundStep DEF Callers
<1>5. ASSUME NEW u \in Users, CancelPendingKeezRetry(u) PROVE Healthy'
  <2>1. PICK call \in Call : /\ Becomes(u, call) /\ call.pc \in {"cancel", "begin"}
                             /\ call.by = calls[u].by
    BY <1>5, CancelBecomes
  <2>2. UNCHANGED <<active, failures, degraded, notified, job, clean>> /\ At(u, "cancel") /\ queue' \subseteq queue
    BY <1>5 DEF CancelPendingKeezRetry, integration
  <2>3. Healthy /\ Alone(u)
    BY <1>0, <1>5, <2>1, <2>2, UnderWayIsAlone DEF Healthy, At, Callers
  <2>4. Sound(u, call)
    <3>1. u \in Callers /\ u # "worker" /\ call.by # "bank"
      BY <2>1, <2>2, KeezSyncAssumption DEF Callers, Typed, Counting, At
    <3> QED BY <2>1, <2>2, <2>3, <3>1, WhenAlone DEF Sound, Responsible, At
  <2> QED BY <2>1, <2>3, <2>4, SoundStep DEF Callers
<1>6. CASE LoadRetry
  <2>1. active /\ At("worker", "load") /\ Alone("worker") /\ Healthy /\ "worker" \in Callers
    BY <1>0, <1>6, UnderWayIsAlone DEF LoadRetry, Healthy, OneAtATime, At, Callers
  <2>2. PICK call \in Call : /\ Becomes("worker", call) /\ call.pc = "begin"
                             /\ call.by = calls["worker"].by
    BY <1>6, <2>1, GotoBecomes DEF LoadRetry
  <2>3. UNCHANGED <<active, failures, degraded, notified, queue, job>>
    BY <1>6, <2>1 DEF LoadRetry, integration
  <2>4. Sound("worker", call)
    BY <2>1, <2>2, <2>3, WhenAlone DEF Sound, Responsible, At
  <2> QED BY <2>1, <2>2, <2>4, SoundStep
<1>7. ASSUME NEW c \in Callers, Skip(c) PROVE Healthy'
  <2>1. Healthy /\ Alone(c) /\ At(c, "begin") /\ syncing # "nobody"
    BY <1>0, <1>7, UnderWayIsAlone DEF Skip, Healthy, At
  <2>2. syncing \in Callers /\ Holding(syncing)
    BY <2>1 DEF Typed, TypeOK
  <2> QED BY <2>1, <2>2 DEF Holding, Alone, At
<1>8. ASSUME NEW c \in Callers, Lock(c) PROVE Healthy'
  <2>1. PICK call \in Call : Becomes(c, call) /\ call.pc = "locked" /\ call.by = calls[c].by
    BY <1>8, GotoBecomes DEF Lock
  <2>2. UNCHANGED <<active, failures, degraded, notified, queue, job>> /\ clean' = clean /\ At(c, "begin")
    BY <1>8 DEF Lock, integration
  <2>3. Healthy /\ Alone(c)
    BY <1>0, <1>8, <2>1, <2>2, UnderWayIsAlone DEF Healthy, At
  <2>4. Sound(c, call)
    BY <2>1, <2>2, <2>3, WhenAlone DEF Sound, Responsible, At, Callers
  <2> QED BY <2>1, <2>3, <2>4, SoundStep
<1>9. ASSUME NEW c \in Callers, LoadIntegration(c) PROVE Healthy'
  <2>1. active /\ At(c, "locked") /\ Alone(c) /\ Healthy
    BY <1>0, <1>9, UnderWayIsAlone DEF LoadIntegration, Healthy, OneAtATime, At
  <2>2. PICK call \in Call : Becomes(c, call) /\ call.pc = "sync" /\ call.by = calls[c].by
    BY <1>9, <2>1, GotoBecomes DEF LoadIntegration
  <2>3. UNCHANGED <<active, failures, degraded, notified, queue, job>>
    BY <1>9, <2>1 DEF LoadIntegration, integration
  <2>4. Sound(c, call)
    BY <2>1, <2>2, <2>3, WhenAlone DEF Sound, Responsible, At
  <2> QED BY <2>1, <2>2, <2>4, SoundStep
<1>10. ASSUME NEW c \in Callers, SyncSucceeds(c) PROVE Healthy'
  <2>1. PICK call \in Call : Becomes(c, call) /\ call.pc = "clear"
    BY <1>10, ForgetBecomes DEF SyncSucceeds
  <2>2. Alone(c) /\ queue = {} /\ active /\ failures' = 0 /\ degraded' = FALSE
        /\ UNCHANGED <<active, queue, job>>
    BY <1>10 DEF SyncSucceeds
  <2>3. c # "worker" => job = 0
    BY <2>2 DEF Alone, Typed, Callers
  <2>4. Sound(c, call)
    BY <2>1, <2>2, <2>3 DEF Sound
  <2> QED BY <2>1, <2>2, <2>4, SoundStep
<1>11. ASSUME NEW c \in Callers, ClearNotifications(c) PROVE Healthy'
  <2>1. Becomes(c, Idle) /\ Idle.pc = "idle" /\ job' = IF c = "worker" THEN 0 ELSE job
    BY <1>11, EndBecomes, IdleIsCall DEF ClearNotifications
  <2>2. UNCHANGED <<active, failures, degraded, queue>> /\ At(c, "clear")
    BY <1>11 DEF ClearNotifications, integration
  <2>3. Healthy /\ Alone(c)
    BY <1>0, <1>11, UnderWayIsAlone DEF ClearNotifications, Healthy, At
  <2>4. ~degraded
    BY <2>2, <2>3 DEF Healthy, Told
  <2>5. Sound(c, Idle)
    BY <2>1, <2>2, <2>3, <2>4, WhenAlone DEF Sound, Responsible, At
  <2> QED BY <2>1, <2>3, <2>5, SoundStep
<1>12. ASSUME NEW c \in Callers, SyncFails(c) PROVE Healthy'
  <2>1. PICK call \in Call : /\ Becomes(c, call) /\ FailedCall(c, call) /\ Idle.pc = "idle"
                             /\ job' = IF call.pc = "idle" /\ c = "worker" THEN 0 ELSE job
    BY <1>12, AfterFailureBecomes, IdleIsCall DEF SyncFails
  <2>2. UNCHANGED <<active, failures, degraded, notified, queue, clean>> /\ At(c, "sync")
    BY <1>12 DEF SyncFails, integration
  <2>3. Healthy /\ Alone(c)
    BY <1>0, <1>12, <2>1, <2>2, UnderWayIsAlone DEF Healthy, At
  <2>4. Sound(c, call)
    BY <2>1, <2>2, <2>3, WhenAlone DEF Sound, Responsible, At, Callers, FailedCall
  <2> QED BY <2>1, <2>3, <2>4, SoundStep
<1>13. ASSUME NEW c \in Callers, ReadCount(c) PROVE Healthy'
  <2>1. PICK call \in Call : /\ Becomes(c, call) /\ call.pc = "write" /\ call.by = calls[c].by
                             /\ call.n = failures
    BY <1>13, ReadBecomes
  <2>2. UNCHANGED <<active, failures, degraded, notified, queue, job>> /\ At(c, "read") /\ clean
    BY <1>13 DEF ReadCount, integration
  <2>3. Healthy /\ Alone(c)
    BY <1>0, <1>13, <2>1, <2>2, UnderWayIsAlone DEF Healthy, At
  <2>4. Sound(c, call)
    BY <2>1, <2>2, <2>3, WhenAlone DEF Sound, Responsible, At, Callers
  <2> QED BY <2>1, <2>3, <2>4, SoundStep
<1>14. ASSUME NEW c \in Callers, WriteCount(c) PROVE Healthy'
  <2>1. /\ At(c, "write") /\ clean /\ UNCHANGED <<active, notified, queue, job>>
        /\ failures' = Counted(calls[c].n) /\ degraded' = MarkDegraded(calls[c].error, calls[c].n)
    BY <1>14 DEF WriteCount
  <2>2. Healthy /\ Alone(c) /\ calls[c].n = failures
    BY <1>0, <2>1, UnderWayIsAlone DEF Healthy, Attempted, At
  <2>3. failures' \in Nat /\ failures <= failures'
    BY <2>1, <2>2, WhenAlone DEF Counted
  <2>4. PICK call \in Call :
            /\ Becomes(c, call)
            /\ \/ MarkDegraded(calls[c].error, calls[c].n) /\ call.pc = "notify"
               \/ /\ ~MarkDegraded(calls[c].error, calls[c].n)
                  /\ call.pc = "enqueue" /\ call.n = calls[c].n /\ call.by = calls[c].by
                  /\ call.n + 1 < MaxFailures
    BY <1>14, WriteBecomes
  <2>5. /\ active /\ \A id \in queue : id \in Nat /\ id <= failures'
        /\ job <= failures /\ job \in Nat /\ failures \in Nat
    BY <2>1, <2>2, <2>3, WhenAlone DEF At
  <2>6. ASSUME MarkDegraded(calls[c].error, calls[c].n), call.pc = "notify"
        PROVE  Sound(c, call)
    <3>1. degraded'
      BY <2>1, <2>6
    <3>2. job <= failures' /\ UNCHANGED <<active, queue, job>>
      BY <2>1, <2>3, <2>5
    <3> QED BY <2>5, <2>6, <3>1, <3>2 DEF Sound
  <2>7. ASSUME ~MarkDegraded(calls[c].error, calls[c].n), call.n + 1 < MaxFailures,
               call.pc = "enqueue", call.n = calls[c].n, call.by = calls[c].by
        PROVE  Sound(c, call)
    <3>1. ~degraded' /\ UNCHANGED <<active, queue, job>>
      BY <2>1, <2>7
    <3>2. failures' = failures + 1
      BY <2>1, <2>2, <2>5, <2>7, KeezSyncAssumption DEF Counted
    <3>3. call.by # "bank" /\ call.n = failures
      BY <2>1, <2>2, <2>7 DEF Typed, Counting, At
    <3> QED BY <2>5, <2>7, <3>1, <3>2, <3>3 DEF Sound
  <2>8. Sound(c, call)
    BY <2>4, <2>6, <2>7
  <2> QED BY <2>2, <2>4, <2>8, SoundStep
<1>15. ASSUME NEW c \in Callers, EnqueueRetry(c) PROVE Healthy'
  <2>1. Becomes(c, Idle) /\ Idle.pc = "idle" /\ job' = IF c = "worker" THEN 0 ELSE job
    BY <1>15, EndBecomes, IdleIsCall DEF EnqueueRetry
  <2>2. /\ UNCHANGED <<active, failures, degraded, notified>> /\ At(c, "enqueue") /\ clean
        /\ queue' = IF calls[c].n + 1 = job THEN queue ELSE queue \union {calls[c].n + 1}
    BY <1>15 DEF EnqueueRetry, RetryJobId, integration
  <2>3. Healthy /\ Alone(c)
    BY <1>0, <2>2, UnderWayIsAlone DEF Healthy, At
  <2>4. failures = calls[c].n + 1 /\ job <= calls[c].n /\ calls[c].n \in Nat
    BY <2>2, <2>3 DEF Healthy, Attempted, Typed, TypeOK, Call
  <2>5. queue' = queue \union {failures} /\ job' <= failures
    BY <2>1, <2>2, <2>3, <2>4, WhenAlone DEF At
  <2>6. Sound(c, Idle)
    BY <2>1, <2>2, <2>3, <2>4, <2>5, WhenAlone DEF Sound, At
  <2> QED BY <2>1, <2>3, <2>6, SoundStep
<1>16. ASSUME NEW c \in Callers, EnqueueFails(c) PROVE Healthy'
  <2>1. PICK call \in Call : Becomes(c, call) /\ call.pc = "notify"
    BY <1>16, ForgetBecomes DEF EnqueueFails
  <2>2. /\ UNCHANGED <<active, failures, notified, queue, job>> /\ At(c, "enqueue") /\ clean
        /\ degraded' = TRUE
    BY <1>16 DEF EnqueueFails
  <2>3. Healthy /\ Alone(c)
    BY <1>0, <2>2, UnderWayIsAlone DEF Healthy, At
  <2>4. Sound(c, call)
    BY <2>1, <2>2, <2>3, WhenAlone DEF Sound, At
  <2> QED BY <2>1, <2>3, <2>4, SoundStep
<1>17. ASSUME NEW c \in Callers, NotifyAdmins(c) PROVE Healthy'
  <2>1. Becomes(c, Idle) /\ Idle.pc = "idle" /\ job' = IF c = "worker" THEN 0 ELSE job
    BY <1>17, EndBecomes, IdleIsCall DEF NotifyAdmins
  <2>2. /\ UNCHANGED <<active, failures, degraded, queue>> /\ At(c, "notify") /\ clean
        /\ notified' = TRUE
    BY <1>17 DEF NotifyAdmins, integration
  <2>3. Healthy /\ Alone(c)
    BY <1>0, <2>2, UnderWayIsAlone DEF Healthy, At
  <2>4. Sound(c, Idle)
    BY <2>1, <2>2, <2>3, WhenAlone DEF Sound, Responsible, At
  <2> QED BY <2>1, <2>3, <2>4, SoundStep
<1>18. CASE DisconnectKeez \/ ConnectKeez \/ Restart
  <2>1. clean' = FALSE \/ (~active /\ clean' = clean)
    BY <1>18 DEF DisconnectKeez, ConnectKeez, Restart
  <2> QED BY <1>0, <2>1 DEF Healthy, OneAtATime
<1>19. CASE KeezChanges \/ UNCHANGED vars
  <2>1. UNCHANGED <<active, failures, degraded, notified, queue, job, calls, clean>>
    BY <1>19 DEF KeezChanges, vars, integration
  <2>2. Healthy
    BY <1>0, <2>1
  <2>3. OneAtATime' /\ Chain'
    BY <2>1, <2>2 DEF Healthy, OneAtATime, Chain, Responsible, At
  <2>4. Attempted' /\ Told'
    BY <2>1, <2>2 DEF Healthy, Attempted, Told, At
  <2> QED BY <2>3, <2>4 DEF Healthy
<1> QED BY <1>1, <1>2, <1>3, <1>4, <1>5, <1>6, <1>7, <1>8, <1>9, <1>10, <1>11, <1>12, <1>13, <1>14,
           <1>15, <1>16, <1>17, <1>18, <1>19
        DEF Next, Work, Proceed

(***************************************************************************)
(* The theorems.                                                           *)
(***************************************************************************)

\* The invariant holds at the start and is kept.
THEOREM InvIsInvariant == Spec => []Inv
<1>1. Init => Inv
  <2> SUFFICES ASSUME Init PROVE Inv
    OBVIOUS
  <2>1. \A c \in Callers : calls[c] = Idle
    BY DEF Init
  <2>2. TypeOK
    <3>1. calls \in [Callers -> Call]
      BY IdleIsCall DEF Init
    <3>2. 0 \in 0..MaxFailures /\ 0 \in 0..(MaxFailures - 1) /\ 0 \in 0..MaxRestarts
      BY KeezSyncAssumption
    <3> QED BY <3>1, <3>2 DEF Init, TypeOK, Weather
  <2>3. \A c \in Callers : ~Holding(c) /\ ~At(c, "enqueue") /\ ~Counting(c) /\ syncing # c
    BY <2>1, IdleIsCall, KeezSyncAssumption DEF Init, Holding, Counting, At, Callers
  <2>4. Typed
    BY <2>2, <2>3 DEF Init, Typed
  <2>5. OneAtATime /\ Chain /\ Attempted /\ Told
    BY <2>1, IdleIsCall DEF Init, OneAtATime, Chain, Attempted, Told, At, Callers
  <2> QED BY <2>4, <2>5 DEF Inv, Undisturbed
<1>2. Inv /\ [Next]_vars => Inv'
  BY TypeStep, UndisturbedStep DEF Inv
<1> QED BY <1>1, <1>2, PTL DEF Spec

\* Every variable holds values of its type; only attempts that the cancelling
\* loop knows are ever queued.
THEOREM TypeCorrect == Spec => []TypeOK
<1>1. Inv => TypeOK
  BY DEF Inv, Typed
<1> QED BY <1>1, InvIsInvariant, PTL

\* As long as nothing disturbs a call, no failure is counted without a retry, a
\* degraded integration or a call that looks after it.
THEOREM UndisturbedLeavesNoGhost == Spec => []NoGhost
<1>1. Inv => NoGhost
  BY DEF Inv, Undisturbed, NoGhost, NeverAGhost, Ghost, Quiet, Chain, Responsible, At, Typed, TypeOK
<1> QED BY <1>1, InvIsInvariant, PTL

\* As long as nothing disturbs a call, whoever finds the integration degraded and
\* nobody at work finds the notification too.
THEOREM DegradedIsTold == Spec => []DegradedIsSeen
<1>1. Inv => DegradedIsSeen
  BY DEF Inv, Undisturbed, DegradedIsSeen, Quiet, Told, At
<1> QED BY <1>1, InvIsInvariant, PTL
=============================================================================
