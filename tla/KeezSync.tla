------------------------------- MODULE KeezSync -------------------------------
(***************************************************************************)
(* Synchronisation of one tenant's invoices with Keez: the daily job, the  *)
(* retry jobs a failure leaves in the queue, the button of the settings    *)
(* page and the synchronisation the bank page starts when the last one is  *)
(* old. They share the failure counter, the degraded flag, the retry queue *)
(* and the in-memory set of tenants being synchronised.                    *)
(*                                                                         *)
(* The scheduler's worker runs one job at a time; every user is a request  *)
(* of its own. The counter is kept up to MaxFailures: the code treats all  *)
(* values from there on alike.                                             *)
(*                                                                         *)
(* Env names what the surroundings may do:                                 *)
(*   "disconnect" an admin may disconnect Keez                             *)
(*   "restart"    the process may be killed at any step                    *)
(*   "queuefail"  adding a job to the queue, or removing one, may fail     *)
(*   "dbfail"     the statements of the failure handler may fail           *)
(***************************************************************************)
EXTENDS Naturals

CONSTANTS Users,
          MaxFailures,   \* MAX_CONSECUTIVE_FAILURES
          Env,
          MaxRestarts    \* bound: restarts

ASSUME KeezSyncAssumption ==
    /\ MaxFailures \in Nat \ {0} /\ MaxRestarts \in Nat
    /\ "worker" \notin Users /\ "nobody" \notin Users

VARIABLES
    keez,        \* what a synchronisation meets there
    active,      \* keez_integration.is_active
    failures,    \* keez_integration.consecutive_failures
    degraded,    \* keez_integration.is_degraded
    notified,    \* the admins have a keez.sync_error notification
    queue,       \* delayed retry jobs, by the attempt in their id
    job,         \* the attempt of the retry job the worker runs, 0 for none
    syncing,     \* activeSyncs: who synchronises the tenant
    calls,       \* what the worker and each user are doing
    restarts,
    clean        \* history: see Disturbed

vars == <<keez, active, failures, degraded, notified, queue, job, syncing, calls,
          restarts, clean>>
integration == <<active, failures, degraded>>

Callers == Users \union {"worker"}
Weather == {"up", "down", "garbled", "denies"}
Attempts == 1..(MaxFailures - 1)

\* n is how many ids the cancelling loop has removed, then the count the handler has read.
Call == [pc : {"idle", "load", "cancel", "begin", "locked", "sync", "clear", "read", "write",
               "enqueue", "notify"},
         by : {"none", "cron", "retry", "manual", "bank"}, again : BOOLEAN,
         error : {"none", "transient", "permanent"}, n : 0..MaxFailures]
Idle == [pc |-> "idle", by |-> "none", again |-> FALSE, error |-> "none", n |-> 0]

At(c, pc) == calls[c].pc = pc
Goto(c, pc) == calls' = [calls EXCEPT ![c].pc = pc]
Quiet == \A c \in Callers : At(c, "idle")
Alone(c) == \A d \in Callers \ {c} : At(d, "idle")

\* The call is over; a retry job that is over leaves its id free.
End(c) ==
    /\ calls' = [calls EXCEPT ![c] = Idle]
    /\ job' = IF c = "worker" THEN 0 ELSE job

(***************************************************************************)
(* The four ways in.                                                       *)
(***************************************************************************)
Start(c, by, pc) ==
    /\ At(c, "idle")
    /\ calls' = [calls EXCEPT ![c] = [Idle EXCEPT !.pc = pc, !.by = by]]
    /\ clean' = (clean /\ Alone(c))

StartCron ==
    /\ active
    /\ Start("worker", "cron", "begin")
    /\ UNCHANGED <<keez, integration, notified, queue, job, syncing, restarts>>

\* BullMQ takes a job whose delay has passed.
StartRetry(id) ==
    /\ id \in queue /\ queue' = queue \ {id} /\ job' = id
    /\ Start("worker", "retry", "load")
    /\ UNCHANGED <<keez, integration, notified, syncing, restarts>>

LoadRetry ==
    /\ At("worker", "load")
    /\ IF active THEN Goto("worker", "begin") /\ UNCHANGED job ELSE End("worker")
    /\ UNCHANGED <<keez, integration, notified, queue, syncing, restarts, clean>>

SyncInvoicesFromKeez(u) ==
    /\ Start(u, "manual", "cancel")
    /\ UNCHANGED <<keez, integration, notified, queue, job, syncing, restarts>>

\* One removal of cancelPendingKeezRetry; a running job is not removed, and an
\* error is passed over.
CancelPendingKeezRetry(u) ==
    /\ At(u, "cancel")
    /\ \/ queue' = queue \ {calls[u].n + 1}
       \/ "queuefail" \in Env /\ UNCHANGED queue
    /\ calls' = [calls EXCEPT ![u] =
                     IF calls[u].n + 2 < MaxFailures THEN [calls[u] EXCEPT !.n = calls[u].n + 1]
                     ELSE [calls[u] EXCEPT !.pc = "begin", !.n = 0]]
    /\ UNCHANGED <<keez, integration, notified, job, syncing, restarts, clean>>

SyncKeezIfStale(u) ==
    /\ active
    /\ Start(u, "bank", "begin")
    /\ UNCHANGED <<keez, integration, notified, queue, job, syncing, restarts>>

(***************************************************************************)
(* syncKeezInvoicesForTenant.                                              *)
(***************************************************************************)
\* A second synchronisation is answered with an empty result, as a success.
Skip(c) ==
    /\ At(c, "begin") /\ syncing # "nobody"
    /\ End(c)
    /\ UNCHANGED <<keez, integration, notified, queue, syncing, restarts, clean>>

Lock(c) ==
    /\ At(c, "begin") /\ syncing = "nobody"
    /\ syncing' = c
    /\ Goto(c, "locked")
    /\ UNCHANGED <<keez, integration, notified, queue, job, restarts, clean>>

\* Read once: a synchronisation under way does not notice a disconnection.
LoadIntegration(c) ==
    /\ At(c, "locked")
    /\ IF active THEN Goto(c, "sync") /\ UNCHANGED <<job, syncing>>
                 ELSE End(c) /\ syncing' = "nobody"
    /\ UNCHANGED <<keez, integration, notified, queue, restarts, clean>>

\* The reset concerns whatever was counted meanwhile.
SyncSucceeds(c) ==
    /\ At(c, "sync") /\ keez = "up"
    /\ failures' = 0 /\ degraded' = FALSE
    /\ clean' = (Alone(c) /\ queue = {} /\ active)
    /\ calls' = [calls EXCEPT ![c] = [Idle EXCEPT !.pc = "clear"]]
    /\ UNCHANGED <<keez, active, notified, queue, job, syncing, restarts>>

ClearNotifications(c) ==
    /\ At(c, "clear")
    /\ notified' = FALSE
    /\ syncing' = "nobody"
    /\ End(c)
    /\ UNCHANGED <<keez, integration, queue, restarts, clean>>

\* The daily job tries undecipherable credentials once more; the bank page has
\* no handler; everybody else is on the way to handleKeezSyncFailure.
AfterFailure(c) ==
    IF calls[c].by = "cron" /\ keez = "garbled" /\ ~calls[c].again
    THEN /\ calls' = [calls EXCEPT ![c] = [calls[c] EXCEPT !.pc = "begin", !.again = TRUE]]
         /\ UNCHANGED job
    ELSE IF calls[c].by = "bank" THEN End(c)
    ELSE /\ calls' = [calls EXCEPT ![c] = [Idle EXCEPT !.pc = "read", !.error =
                          IF keez = "denies" THEN "permanent" ELSE "transient"]]
         /\ UNCHANGED job

FailsHoldingLock(c) ==   \* mutant: the tenant is not released when a synchronisation throws
    /\ At(c, "sync") /\ keez # "up"
    /\ AfterFailure(c)
    /\ UNCHANGED <<keez, integration, notified, queue, syncing, restarts, clean>>

SyncFails(c) ==
    /\ At(c, "sync") /\ keez # "up"
    /\ syncing' = "nobody"
    /\ AfterFailure(c)
    /\ UNCHANGED <<keez, integration, notified, queue, restarts, clean>>

(***************************************************************************)
(* handleKeezSyncFailure, outside the lock.                                *)
(***************************************************************************)
ReadCount(c) ==
    /\ At(c, "read")
    /\ \/ /\ calls' = [calls EXCEPT ![c] = [calls[c] EXCEPT !.pc = "write", !.n = failures]]
          /\ UNCHANGED clean
       \/ /\ "dbfail" \in Env /\ clean' = FALSE
          /\ calls' = [calls EXCEPT ![c] = [calls[c] EXCEPT !.pc = "write", !.n = 0]]
    /\ UNCHANGED <<keez, integration, notified, queue, job, syncing, restarts>>

\* decideFailureAction.
MarkDegraded(error, n) == error = "permanent" \/ n + 1 >= MaxFailures

Counted(n) == IF n < MaxFailures THEN n + 1 ELSE n

WriteCount(c) ==
    LET gone == MarkDegraded(calls[c].error, calls[c].n) IN
    /\ At(c, "write")
    /\ \/ failures' = Counted(calls[c].n) /\ degraded' = gone /\ UNCHANGED clean
       \/ /\ "dbfail" \in Env /\ clean' = FALSE
          /\ UNCHANGED <<failures, degraded>>
    /\ calls' = [calls EXCEPT ![c] = IF gone THEN [Idle EXCEPT !.pc = "notify"]
                                              ELSE [calls[c] EXCEPT !.pc = "enqueue"]]
    /\ UNCHANGED <<keez, active, notified, queue, job, syncing, restarts>>

\* retryJobId, and BullMQ: adding an id that is queued or running adds nothing.
SameJobId(c) == 1   \* mutant: the id does not name the attempt
RetryJobId(c) == calls[c].n + 1

EnqueueRetry(c) ==
    LET id == RetryJobId(c) IN
    /\ At(c, "enqueue")
    /\ queue' = IF id = job THEN queue ELSE queue \union {id}
    /\ End(c)
    /\ UNCHANGED <<keez, integration, notified, syncing, restarts, clean>>

SilentEnqueueFails(c) ==   \* mutant: degraded, but nobody is told
    /\ At(c, "enqueue") /\ "queuefail" \in Env
    /\ degraded' = TRUE
    /\ End(c)
    /\ UNCHANGED <<keez, active, failures, notified, queue, syncing, restarts, clean>>

EnqueueFails(c) ==
    /\ At(c, "enqueue") /\ "queuefail" \in Env
    /\ \/ degraded' = TRUE /\ UNCHANGED clean
       \/ "dbfail" \in Env /\ clean' = FALSE /\ UNCHANGED degraded
    /\ calls' = [calls EXCEPT ![c] = [Idle EXCEPT !.pc = "notify"]]
    /\ UNCHANGED <<keez, active, failures, notified, queue, job, syncing, restarts>>

NotifyAdmins(c) ==
    /\ At(c, "notify")
    /\ \/ notified' = TRUE /\ UNCHANGED clean
       \/ "dbfail" \in Env /\ clean' = FALSE /\ UNCHANGED notified
    /\ End(c)
    /\ UNCHANGED <<keez, integration, queue, syncing, restarts>>

(***************************************************************************)
(* The surroundings.                                                       *)
(***************************************************************************)
DisconnectKeez ==
    /\ "disconnect" \in Env /\ active
    /\ active' = FALSE /\ clean' = FALSE
    /\ UNCHANGED <<keez, failures, degraded, notified, queue, job, syncing, calls, restarts>>

\* Saving the integration needs an answer of Keez; the counter stays.
ConnectKeez ==
    /\ ~active /\ keez = "up" /\ active' = TRUE
    /\ UNCHANGED <<keez, failures, degraded, notified, queue, job, syncing, calls, restarts, clean>>

KeezChanges ==
    /\ keez' \in Weather \ {keez}
    /\ UNCHANGED <<integration, notified, queue, job, syncing, calls, restarts, clean>>

\* BullMQ puts a job whose worker died back into the queue.
Restart ==
    /\ "restart" \in Env /\ restarts < MaxRestarts /\ restarts' = restarts + 1
    /\ calls' = [c \in Callers |-> Idle]
    /\ queue' = IF job = 0 THEN queue ELSE queue \union {job}
    /\ job' = 0 /\ syncing' = "nobody" /\ clean' = FALSE
    /\ UNCHANGED <<keez, integration, notified>>

-----------------------------------------------------------------------------
Init ==
    /\ keez = "up" /\ active = TRUE
    /\ failures = 0 /\ degraded = FALSE /\ notified = FALSE
    /\ queue = {} /\ job = 0 /\ syncing = "nobody"
    /\ calls = [c \in Callers |-> Idle]
    /\ restarts = 0 /\ clean = TRUE

Proceed(c) ==
    \/ Skip(c) \/ Lock(c) \/ LoadIntegration(c)
    \/ SyncSucceeds(c) \/ ClearNotifications(c) \/ SyncFails(c)
    \/ ReadCount(c) \/ WriteCount(c)
    \/ EnqueueRetry(c) \/ EnqueueFails(c) \/ NotifyAdmins(c)

Work(c) ==
    \/ Proceed(c)
    \/ c \in Users /\ CancelPendingKeezRetry(c)
    \/ c = "worker" /\ LoadRetry

Next ==
    \/ StartCron
    \/ \E id \in Attempts : StartRetry(id)
    \/ \E u \in Users : SyncInvoicesFromKeez(u) \/ SyncKeezIfStale(u)
    \/ \E c \in Callers : Work(c)
    \/ DisconnectKeez \/ ConnectKeez \/ KeezChanges \/ Restart

\* A call that has begun goes on. The daily job gets its turn although retry
\* jobs may be due at the same time: the queue is first in, first out.
Fairness ==
    /\ \A c \in Callers : WF_vars(Work(c))
    /\ SF_vars(StartCron)

Spec == Init /\ [][Next]_vars /\ Fairness
-----------------------------------------------------------------------------
(***************************************************************************)
(* Properties.                                                             *)
(***************************************************************************)

\* Every variable holds values of its type; only attempts that the cancelling
\* loop knows are ever queued ("keep the two in sync if MAX changes").
TypeOK ==
    /\ keez \in Weather /\ active \in BOOLEAN
    /\ failures \in 0..MaxFailures /\ degraded \in BOOLEAN /\ notified \in BOOLEAN
    /\ queue \subseteq Attempts /\ job \in 0..(MaxFailures - 1)
    /\ syncing \in Callers \union {"nobody"}
    /\ calls \in [Callers -> Call]
    /\ restarts \in 0..MaxRestarts /\ clean \in BOOLEAN

\* clean: since the last success that left no retry queued, no call began while
\* another was under way, no statement of the handler failed, the process was
\* not killed and the integration not disconnected.
Ghost == failures > 0 /\ ~degraded /\ queue = {}

\* "Without this, the integration would be a ghost: counter incremented, no
\* retry queued, no operator visibility until the next daily cron."
NeverAGhost == Quiet /\ active => ~Ghost

\* Calls that do not get in each other's way leave no ghost: every hop of the
\* chain of retries is queued while the one before still runs.
NoGhost == clean => NeverAGhost

\* Under the same conditions a degraded integration has been told of.
DegradedIsSeen == clean /\ Quiet /\ degraded => notified

\* Whatever overlapped, failed or was killed before: once Keez answers and the
\* integration stays connected, the failures are forgotten for good.
Recovers == <>[](keez = "up" /\ active) => <>[](failures = 0 /\ ~degraded)
=============================================================================
