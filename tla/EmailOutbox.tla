------------------------------ MODULE EmailOutbox ------------------------------
(***************************************************************************)
(* The e-mail log as an outbox. sendWithPersistence logs a letter, sends   *)
(* it and logs the outcome; the job of every 15 minutes replays failed     *)
(* rows in place; the panel replays one row, or all of them, as new sends; *)
(* a restart puts interrupted rows back among the failed ones.             *)
(*                                                                         *)
(* A letter is one call of a send function with a payload, to an address   *)
(* of its own. "job" is the scheduler's worker, which runs one job at a    *)
(* time; a request is anything else that sends.                            *)
(*                                                                         *)
(* Env names what the surroundings may do:                                 *)
(*   "restart"  the process may be killed at any step                      *)
(*   "midbulk"  also between a row's deletion and its new send, whose      *)
(*              first write may then fail too                              *)
(*   "unheard"  the server may accept a letter and the answer get lost     *)
(***************************************************************************)
EXTENDS Naturals, FiniteSets

CONSTANTS Letters, Requests,
          MaxAttempts,   \* email_log.max_attempts
          Tries,         \* attempts of one sendMailWithRetry
          Env,
          MaxRows,       \* bound: rows of the log
          MaxRefusals,   \* bound: times the mail server, or its settings, fail
          MaxMishaps     \* bound: restarts, lost answers, failed INSERTs

ASSUME EmailOutboxAssumption ==
    /\ MaxAttempts \in Nat \ {0} /\ Tries \in 1..MaxAttempts
    /\ MaxRows \in Nat /\ MaxRefusals \in Nat /\ MaxMishaps \in Nat
    /\ "job" \notin Requests /\ "none" \notin Letters

VARIABLES
    log,          \* email_log
    used,         \* the rows inserted so far
    suppressed,   \* letters whose address has bounced
    work,         \* what each request, and the job, is doing
    booting,      \* the process is up, recoverInterruptedRetries has not run
    refusals, mishaps,
    asked,        \* history: letters whose first row was written
    mails         \* history: copies the server accepted on account of each row

vars == <<log, used, suppressed, work, booting, refusals, mishaps, asked, mails>>

Workers == Requests \union {"job"}
Rows == 1..MaxRows
NoLetter == "none"
Status == {"unused", "pending", "active", "retrying", "completed", "failed", "deleted"}
Stuck == {"pending", "active", "retrying"}

\* aged: created more than 72 hours ago.
Row == [letter : Letters \union {NoLetter}, status : Status, attempts : 0..MaxAttempts, aged : BOOLEAN]
Unused == [letter |-> NoLetter, status |-> "unused", attempts |-> 0, aged |-> FALSE]

\* row is the row a call writes to, old the one the panel replays, todo the
\* rows a loop has read and not reached yet.
Activity ==
    [pc : {"idle", "next", "log", "check", "smtp", "report", "return"},
     by : {"none", "app", "panel", "bulk", "job"},
     letter : Letters \union {NoLetter}, row : 0..MaxRows, old : 0..MaxRows,
     tries : Nat, outcome : {"none", "ok", "refused", "bounced"}, todo : SUBSET Rows]
Idle == [pc |-> "idle", by |-> "none", letter |-> NoLetter, row |-> 0, old |-> 0,
         tries |-> 0, outcome |-> "none", todo |-> {}]

At(w, pc) == work[w].pc = pc
Set(w, r) == work' = [work EXCEPT ![w] = r]
Goto(w, pc) == Set(w, [work[w] EXCEPT !.pc = pc])
Refusal == refusals < MaxRefusals /\ refusals' = refusals + 1
Mishap == mishaps < MaxMishaps /\ mishaps' = mishaps + 1

\* An UPDATE by id: nothing happens to a row that is gone.
Update(r, row) == IF log[r].status = "deleted" THEN log ELSE [log EXCEPT ![r] = row]
Mark(r, status) == Update(r, [log[r] EXCEPT !.status = status])
MarkAttempt(r, status, n) == Update(r, [log[r] EXCEPT !.status = status, !.attempts = n])

Failed == {r \in Rows : log[r].status = "failed"}

\* Rows that calls under way are still going to insert.
Reserved == Cardinality({w \in Requests : At(w, "log")})
            + Cardinality({wr \in Requests \X Rows : wr[2] \in work[wr[1]].todo})

(***************************************************************************)
(* Where a send begins: a first send, a replay from the panel of one row   *)
(* or of all, the job. Only the job hands its row on; the panel's replay   *)
(* is a send like any other.                                               *)
(***************************************************************************)
Call(by, letter, old, todo) ==
    [Idle EXCEPT !.pc = "log", !.by = by, !.letter = letter, !.old = old, !.todo = todo]

Send(w, l) ==
    /\ At(w, "idle") /\ l \notin asked /\ \A v \in Requests : work[v].letter # l
    /\ used + Reserved < MaxRows
    /\ Set(w, Call("app", l, 0, {}))
    /\ UNCHANGED <<log, used, suppressed, booting, refusals, mishaps, asked, mails>>

DeletesFirst(w, r) ==   \* mutant: the old row goes before the new send
    /\ At(w, "idle") /\ r \in Failed
    /\ used + Reserved < MaxRows
    /\ Set(w, Call("panel", log[r].letter, r, {}))
    /\ log' = Mark(r, "deleted")
    /\ UNCHANGED <<used, suppressed, booting, refusals, mishaps, asked, mails>>

RetryEmailLog(w, r) ==
    /\ At(w, "idle") /\ r \in Failed
    /\ used + Reserved < MaxRows
    /\ Set(w, Call("panel", log[r].letter, r, {}))
    /\ UNCHANGED <<log, used, suppressed, booting, refusals, mishaps, asked, mails>>

RetryAllFailedEmails(w) ==
    /\ At(w, "idle") /\ Failed # {}
    /\ used + Reserved + Cardinality(Failed) <= MaxRows
    /\ Set(w, [Idle EXCEPT !.pc = "next", !.by = "bulk", !.todo = Failed])
    /\ UNCHANGED <<log, used, suppressed, booting, refusals, mishaps, asked, mails>>

DeleteAndSend(w, r) ==
    /\ At(w, "next") /\ work[w].by = "bulk" /\ r \in work[w].todo
    /\ log' = Mark(r, "deleted")
    /\ Set(w, Call("bulk", log[r].letter, r, work[w].todo \ {r}))
    /\ UNCHANGED <<used, suppressed, booting, refusals, mishaps, asked, mails>>

\* The backoff is at least 15 minutes from the row's last write, more than a
\* send takes: a row that somebody still sends is not eligible.
Candidate(r) ==
    /\ r \in Failed /\ log[r].attempts < MaxAttempts /\ ~log[r].aged
    /\ \A w \in Requests : work[w].row # r

StartJob ==
    LET todo == {r \in Rows : Candidate(r)} IN
    /\ ~booting /\ At("job", "idle") /\ todo # {}
    /\ Set("job", [Idle EXCEPT !.pc = "next", !.by = "job", !.todo = todo])
    /\ UNCHANGED <<log, used, suppressed, booting, refusals, mishaps, asked, mails>>

\* The attempts are those the job read: nobody else writes those of a failed row.
MarkRetrying(r) ==
    /\ At("job", "next") /\ r \in work["job"].todo
    /\ log' = MarkAttempt(r, "retrying", log[r].attempts + 1)
    /\ Set("job", [work["job"] EXCEPT !.pc = "check", !.letter = log[r].letter, !.row = r,
                                      !.todo = work["job"].todo \ {r}])
    /\ UNCHANGED <<used, suppressed, booting, refusals, mishaps, asked, mails>>

LoopEnds(w) ==
    /\ At(w, "next") /\ work[w].todo = {}
    /\ Set(w, Idle)
    /\ UNCHANGED <<log, used, suppressed, booting, refusals, mishaps, asked, mails>>

(***************************************************************************)
(* sendWithPersistence.                                                    *)
(***************************************************************************)
LogAttempt(w) ==
    LET l == work[w].letter IN
    /\ At(w, "log") /\ used < MaxRows
    /\ used' = used + 1
    /\ log' = [log EXCEPT ![used + 1] = [Unused EXCEPT !.letter = l, !.status = "pending"]]
    /\ Set(w, [work[w] EXCEPT !.pc = "check", !.row = used + 1])
    /\ asked' = asked \union {l}
    /\ UNCHANGED <<suppressed, booting, refusals, mishaps, mails>>

\* The INSERT throws: nobody has logged or sent the letter.
LogAttemptFails(w) ==
    /\ At(w, "log") /\ Mishap
    /\ "midbulk" \in Env \/ work[w].by # "bulk"
    /\ Set(w, IF work[w].by = "bulk" THEN [work[w] EXCEPT !.pc = "next"] ELSE Idle)
    /\ UNCHANGED <<log, used, suppressed, booting, refusals, asked, mails>>

\* logEmailProcessing, after the checks: it sets attempts to 1 whatever they were.
Processing(w) ==
    /\ At(w, "check") /\ work[w].letter \notin suppressed
    /\ log' = MarkAttempt(work[w].row, "active", 1)
    /\ Goto(w, "smtp")
    /\ UNCHANGED <<used, suppressed, booting, refusals, mishaps, asked, mails>>

\* A suppressed address, no transporter, or a template that throws.
CheckFails(w) ==
    /\ At(w, "check")
    /\ IF work[w].letter \in suppressed THEN UNCHANGED refusals ELSE Refusal
    /\ log' = Mark(work[w].row, "failed")
    /\ Set(w, [work[w] EXCEPT !.pc = "return",
                 !.outcome = IF work[w].letter \in suppressed THEN "bounced" ELSE "refused"])
    /\ UNCHANGED <<used, suppressed, booting, mishaps, asked, mails>>

Copy(w) == mails' = [mails EXCEPT ![work[w].row] = @ + 1]

Accept(w) ==
    /\ At(w, "smtp")
    /\ Copy(w)
    /\ Set(w, [work[w] EXCEPT !.pc = "report", !.outcome = "ok"])
    /\ UNCHANGED <<log, used, suppressed, booting, refusals, mishaps, asked>>

\* sendMailWithRetry: another try after an error that may pass, with its number
\* written to the row (not when Gmail limits the rate or SMTP takes over), or
\* the end: the tries are used up, the error is permanent, no fresh transporter.
Refuse(w) ==
    LET n == work[w].tries + 1 IN
    /\ At(w, "smtp")
    /\ \/ Refusal /\ UNCHANGED <<mails, mishaps>>
       \/ "unheard" \in Env /\ Mishap /\ Copy(w) /\ UNCHANGED refusals
    /\ \/ /\ n < Tries
          /\ log' \in {log, MarkAttempt(work[w].row, log[work[w].row].status, n)}
          /\ Set(w, [work[w] EXCEPT !.tries = n])
       \/ /\ Set(w, [work[w] EXCEPT !.pc = "report", !.outcome = "refused"])
          /\ UNCHANGED log
    /\ UNCHANGED <<used, suppressed, booting, asked>>

Bounce(w) ==
    /\ At(w, "smtp")
    /\ Refusal
    /\ Set(w, [work[w] EXCEPT !.pc = "report", !.outcome = "bounced"])
    /\ UNCHANGED <<log, used, suppressed, booting, mishaps, asked, mails>>

\* logEmailSuccess, or logEmailFailure and suppressEmail.
Report(w) ==
    LET r == work[w].row IN
    /\ At(w, "report")
    /\ log' = Mark(r, IF work[w].outcome = "ok" THEN "completed" ELSE "failed")
    /\ suppressed' = IF work[w].outcome = "bounced" THEN suppressed \union {work[w].letter}
                     ELSE suppressed
    /\ Goto(w, "return")
    /\ UNCHANGED <<used, booting, refusals, mishaps, asked, mails>>

(***************************************************************************)
(* What the caller does with the outcome.                                  *)
(***************************************************************************)
ReturnToApp(w) ==
    /\ At(w, "return") /\ work[w].by = "app"
    /\ Set(w, Idle)
    /\ UNCHANGED <<log, used, suppressed, booting, refusals, mishaps, asked, mails>>

ReturnToPanel(w) ==
    /\ At(w, "return") /\ work[w].by = "panel"
    /\ log' = IF work[w].outcome = "ok" THEN Mark(work[w].old, "deleted") ELSE log
    /\ Set(w, Idle)
    /\ UNCHANGED <<used, suppressed, booting, refusals, mishaps, asked, mails>>

ReturnToBulk(w) ==
    /\ At(w, "return") /\ work[w].by = "bulk"
    /\ Set(w, [Idle EXCEPT !.pc = "next", !.by = "bulk", !.todo = work[w].todo])
    /\ UNCHANGED <<log, used, suppressed, booting, refusals, mishaps, asked, mails>>

\* A permanent error exhausts the attempts, any other leaves the row for the next run.
ReturnToJob ==
    LET r == work["job"].row IN
    /\ At("job", "return")
    /\ log' = CASE work["job"].outcome = "ok"      -> log
                [] work["job"].outcome = "refused" -> Mark(r, "failed")
                [] work["job"].outcome = "bounced" -> MarkAttempt(r, "failed", MaxAttempts)
    /\ Set("job", [Idle EXCEPT !.pc = "next", !.by = "job", !.todo = work["job"].todo])
    /\ UNCHANGED <<used, suppressed, booting, refusals, mishaps, asked, mails>>

(***************************************************************************)
(* Restart: everything under way is gone; a letter in the hands of the     *)
(* server may have been accepted. Requests are served before the recovery. *)
(***************************************************************************)
Restart ==
    /\ "restart" \in Env /\ Mishap
    /\ "midbulk" \in Env \/ \A w \in Requests : ~(At(w, "log") /\ work[w].by = "bulk")
    /\ \E accepted \in SUBSET {work[w].row : w \in {v \in Workers : At(v, "smtp")}} :
          mails' = [r \in Rows |-> mails[r] + (IF r \in accepted THEN 1 ELSE 0)]
    /\ work' = [w \in Workers |-> Idle]
    /\ booting' = TRUE
    /\ UNCHANGED <<log, used, suppressed, refusals, asked>>

RecoverAll ==   \* mutant: completed rows too
    /\ booting /\ booting' = FALSE
    /\ log' = [r \in Rows |-> IF log[r].status \in Stuck \union {"completed"}
                              THEN [log[r] EXCEPT !.status = "failed"] ELSE log[r]]
    /\ UNCHANGED <<used, suppressed, work, refusals, mishaps, asked, mails>>
RecoverRetrying ==   \* mutant: only what the job had marked
    /\ booting /\ booting' = FALSE
    /\ log' = [r \in Rows |-> IF log[r].status = "retrying"
                              THEN [log[r] EXCEPT !.status = "failed"] ELSE log[r]]
    /\ UNCHANGED <<used, suppressed, work, refusals, mishaps, asked, mails>>
RecoverInterruptedRetries ==
    /\ booting /\ booting' = FALSE
    /\ log' = [r \in Rows |-> IF log[r].status \in Stuck
                              THEN [log[r] EXCEPT !.status = "failed"] ELSE log[r]]
    /\ UNCHANGED <<used, suppressed, work, refusals, mishaps, asked, mails>>

\* 72 hours pass without a success.
Age(r) ==
    /\ log[r].status = "failed" /\ ~log[r].aged
    /\ log' = [log EXCEPT ![r].aged = TRUE]
    /\ UNCHANGED <<used, suppressed, work, booting, refusals, mishaps, asked, mails>>

-----------------------------------------------------------------------------
Init ==
    /\ log = [r \in Rows |-> Unused] /\ used = 0
    /\ suppressed = {} /\ asked = {}
    /\ work = [w \in Workers |-> Idle]
    /\ booting = FALSE
    /\ refusals = 0 /\ mishaps = 0
    /\ mails = [r \in Rows |-> 0]

\* The steps a call takes on its own once it has begun.
Proceed(w) ==
    \/ LogAttempt(w) \/ LogAttemptFails(w)
    \/ Processing(w) \/ CheckFails(w)
    \/ Accept(w) \/ Refuse(w) \/ Bounce(w)
    \/ Report(w)
    \/ ReturnToApp(w) \/ ReturnToPanel(w) \/ ReturnToBulk(w)
    \/ LoopEnds(w)
    \/ \E r \in Rows : DeleteAndSend(w, r)

JobProceeds == Proceed("job") \/ ReturnToJob \/ \E r \in Rows : MarkRetrying(r)

Next ==
    \/ \E w \in Requests : \/ \E l \in Letters : Send(w, l)
                           \/ \E r \in Rows : RetryEmailLog(w, r)
                           \/ RetryAllFailedEmails(w)
                           \/ Proceed(w)
    \/ StartJob \/ JobProceeds
    \/ Restart \/ RecoverInterruptedRetries
    \/ \E r \in Rows : Age(r)

\* Calls go on, the scheduler starts its job, a process that starts recovers.
Fairness ==
    /\ \A w \in Requests : WF_vars(Proceed(w))
    /\ WF_vars(JobProceeds)
    /\ WF_vars(StartJob)
    /\ WF_vars(RecoverInterruptedRetries)

Spec == Init /\ [][Next]_vars /\ Fairness
-----------------------------------------------------------------------------
(***************************************************************************)
(* Properties.                                                             *)
(***************************************************************************)

\* Every variable holds values of its type; the attempts of a row stay within
\* its max_attempts whoever counts them.
TypeOK ==
    /\ log \in [Rows -> Row] /\ used \in 0..MaxRows
    /\ suppressed \subseteq Letters /\ asked \subseteq Letters
    /\ work \in [Workers -> Activity]
    /\ booting \in BOOLEAN
    /\ refusals \in 0..MaxRefusals /\ mishaps \in 0..MaxMishaps
    /\ mails \in [Rows -> Nat]

RowsOf(l) == {r \in Rows : log[r].letter = l}
Delivered(l) == \E r \in RowsOf(l) : mails[r] > 0

\* "Guarantees a row in email_log exists no matter what fails downstream": a
\* letter that was logged once and not delivered has a row, unless a replay
\* holds it that has deleted the old row and not inserted the new one.
NothingVanishes ==
    \A l \in asked :
        \/ Delivered(l)
        \/ \E r \in RowsOf(l) : log[r].status # "deleted"
        \/ \E w \in Requests : At(w, "log") /\ work[w].by = "bulk" /\ work[w].letter = l

\* A row logged as completed is not sent again, nor put back among those to be
\* sent: not by the job, the panel, a restart, or a call that outlived it.
CompletedIsFinal ==
    [][\A r \in Rows : log[r].status = "completed" =>
          log'[r].status \in {"completed", "deleted"} /\ mails'[r] = mails[r]]_vars

GivenUp(r) ==
    \/ log[r].status = "deleted"
    \/ log[r].status = "failed" /\ (log[r].aged \/ log[r].attempts >= MaxAttempts)

\* Every logged letter is delivered in the end, or given up: it bounced, grew
\* too old or used up its attempts.
EveryLetterIsSettled ==
    \A l \in Letters : l \in asked ~> Delivered(l) \/ \A r \in RowsOf(l) : GivenUp(r)

\* "Increment attempts (persisted BEFORE handler call)": the attempts of a row
\* are not taken back, so that three of them are the end.
AttemptsOnlyGrow ==
    [][\A r \in Rows : log'[r].attempts >= log[r].attempts]_vars
=============================================================================
