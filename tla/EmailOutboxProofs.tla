--------------------------- MODULE EmailOutboxProofs ---------------------------
(***************************************************************************)
(* Proofs about EmailOutbox, for any letters, requests, bounds and faults: *)
(* its type invariant, that a row logged as completed stays so and is not  *)
(* sent again, and, when the bulk retry of the panel is not interrupted    *)
(* between its two statements, that no letter vanishes from the log.       *)
(***************************************************************************)
EXTENDS EmailOutbox, TLAPS

(***************************************************************************)
(* The inductive invariants.                                               *)
(***************************************************************************)
Sending == {"check", "smtp", "report", "return"}

\* What an activity c knows is right for the log rows, of which n are in use.
Fits(c, rows, n) ==
    /\ c.todo \subseteq 1..n
    /\ c.pc \in {"idle", "next"} \/ c.letter \in Letters
    /\ IF c.pc \in Sending THEN c.row \in 1..n /\ rows[c.row].letter = c.letter ELSE c.row = 0
    /\ c.by = "panel" => c.old \in 1..n /\ rows[c.old].letter = c.letter
    /\ c.pc \in {"report", "return"} => c.outcome # "none"

Filled(rows, n) ==
    \A r \in Rows : IF r <= n THEN rows[r].letter \in Letters ELSE rows[r] = Unused

Typed ==
    /\ TypeOK /\ Filled(log, used)
    /\ \A w \in Workers : Fits(work[w], log, used)
    /\ work["job"].by \in {"none", "job"}

\* A row has at most one sender, which did not complete it yet; those the job
\* has still to reach have none.
Unfinished(c) == c.pc \in {"check", "smtp", "report"} \/ (c.pc = "return" /\ c.outcome # "ok")

Exclusive ==
    /\ \A v, w \in Workers : v # w /\ work[v].row # 0 => work[v].row # work[w].row
    /\ \A r \in work["job"].todo :
          /\ log[r].status \in {"failed", "deleted"} /\ log[r].attempts < MaxAttempts
          /\ \A w \in Workers : work[w].row # r
    /\ \A w \in Workers : Unfinished(work[w]) => log[work[w].row].status # "completed"

Inv == Typed /\ Exclusive

(***************************************************************************)
(* Types.                                                                  *)
(***************************************************************************)
Rest ==
    /\ suppressed \subseteq Letters /\ asked \subseteq Letters /\ booting \in BOOLEAN
    /\ refusals \in 0..MaxRefusals /\ mishaps \in 0..MaxMishaps /\ mails \in [Rows -> Nat]

\* The log only gets more rows; no row changes its letter.
Grows ==
    /\ log' \in [Rows -> Row] /\ used' \in 0..MaxRows /\ used <= used' /\ Filled(log', used')
    /\ \A r \in 1..used : log'[r].letter = log[r].letter

\* Only w does something.
Becomes(w, c) ==
    /\ work' \in [Workers -> Activity] /\ work'[w] = c
    /\ \A v \in Workers : v # w => work'[v] = work[v]

\* A worker that sets itself to c becomes c.
LEMMA SetBecomes ==
    ASSUME Typed, NEW w \in Workers, NEW c \in Activity, Set(w, c)
    PROVE  Becomes(w, c)
  BY DEF Becomes, Set, Typed, TypeOK

\* A worker that does nothing is an activity.
LEMMA IdleFits ==
    /\ Idle \in Activity /\ Idle.pc = "idle" /\ Idle.row = 0 /\ Idle.todo = {}
    /\ Idle.by = "none" /\ \A rows, n : Fits(Idle, rows, n)
<1>1. /\ Idle.pc = "idle" /\ Idle.row = 0 /\ Idle.todo = {} /\ Idle.by = "none"
  BY DEF Idle
<1>2. Idle \in Activity
  BY EmailOutboxAssumption DEF Idle, Activity, NoLetter, Rows
<1> QED BY <1>1, <1>2 DEF Fits, Sending

\* As long as the log only grows, what fitted fits.
LEMMA StillFits ==
    ASSUME Typed, Grows, NEW w \in Workers
    PROVE  Fits(work[w], log', used')
<1>1. Fits(work[w], log, used) /\ used \in Nat /\ used' \in Nat /\ used <= used'
  BY DEF Typed, TypeOK, Grows
<1>2. \A r \in 1..used : r \in 1..used' /\ log'[r].letter = log[r].letter
  BY <1>1 DEF Grows
<1> QED BY <1>1, <1>2 DEF Fits

\* A step of one worker keeps the types when what it stores and becomes is right.
LEMMA WorkStep ==
    ASSUME Typed, Grows, Rest', NEW w \in Workers, NEW c \in Activity, Becomes(w, c),
           Fits(c, log', used'), w = "job" => c.by \in {"none", "job"}
    PROVE  Typed' /\ Grows
<1>1. \A v \in Workers : Fits(work'[v], log', used')
  BY StillFits DEF Becomes
<1>2. TypeOK'
  BY DEF TypeOK, Grows, Rest, Becomes
<1>3. work'["job"].by \in {"none", "job"}
  BY DEF Typed, Becomes, Workers
<1> QED BY <1>1, <1>2, <1>3 DEF Typed, Grows

\* An UPDATE changes only its row, and not even that when it is gone.
LEMMA UpdateGrows ==
    ASSUME Typed, NEW r \in 1..used, NEW row \in Row, row.letter = log[r].letter,
           log' = Update(r, row), UNCHANGED used
    PROVE  /\ Grows /\ r \in Rows
           /\ \A s \in Rows : s # r => log'[s] = log[s]
           /\ IF log[r].status = "deleted" THEN log'[r] = log[r] ELSE log'[r] = row
<1>1. r \in Rows /\ log \in [Rows -> Row] /\ used \in 0..MaxRows /\ Filled(log, used) /\ r <= used
  BY EmailOutboxAssumption DEF Typed, TypeOK, Rows
<1>2. CASE log[r].status = "deleted"
  BY <1>1, <1>2 DEF Update, Grows
<1>3. CASE log[r].status # "deleted"
  <2>1. log' = [log EXCEPT ![r] = row]
    BY <1>3 DEF Update
  <2>2. /\ log' \in [Rows -> Row] /\ log'[r] = row
        /\ \A s \in Rows : s # r => log'[s] = log[s]
    <3>1. \A s \in Rows : log'[s] = IF s = r THEN row ELSE log[s]
      BY <1>1, <2>1
    <3>2. log' \in [Rows -> Row]
      BY <1>1, <2>1
    <3> QED BY <1>1, <3>1, <3>2
  <2>3. Filled(log', used) /\ \A s \in 1..used : log'[s].letter = log[s].letter
    <3>1. \A s \in 1..used : s \in Rows
      BY <1>1, EmailOutboxAssumption DEF Rows
    <3>2. \A s \in Rows : log'[s] = log[s] \/ (s = r /\ log'[s].letter = log[s].letter)
      BY <2>2
    <3>3. ASSUME NEW s \in Rows
          PROVE  IF s <= used THEN log'[s].letter \in Letters ELSE log'[s] = Unused
      BY <1>1, <3>2 DEF Filled
    <3> QED BY <3>1, <3>2, <3>3 DEF Filled
  <2> QED BY <1>1, <1>3, <2>2, <2>3 DEF Grows
<1> QED BY <1>2, <1>3

\* Marking a row changes its status, or that and its attempts.
LEMMA MarkGrows ==
    ASSUME Typed, NEW r \in 1..used, NEW status \in Status, UNCHANGED used,
           \/ log' = Mark(r, status)
           \/ \E n \in 0..MaxAttempts : log' = MarkAttempt(r, status, n)
    PROVE  /\ Grows /\ r \in Rows
           /\ \A s \in Rows : s # r => log'[s] = log[s]
           /\ log'[r].status = IF log[r].status = "deleted" THEN "deleted" ELSE status
<1>1. r \in Rows /\ log[r] \in Row
  BY EmailOutboxAssumption DEF Typed, TypeOK, Rows
<1>2. CASE log' = Mark(r, status)
  <2> DEFINE row == [log[r] EXCEPT !.status = status]
  <2>1. row \in Row /\ row.letter = log[r].letter /\ row.status = status
    BY <1>1 DEF Row
  <2>2. log' = Update(r, row)
    BY <1>2 DEF Mark
  <2> HIDE DEF row
  <2> QED BY <2>1, <2>2, UpdateGrows
<1>3. ASSUME NEW n \in 0..MaxAttempts, log' = MarkAttempt(r, status, n)
      PROVE  /\ Grows /\ r \in Rows
             /\ \A s \in Rows : s # r => log'[s] = log[s]
             /\ log'[r].status = IF log[r].status = "deleted" THEN "deleted" ELSE status
  <2> DEFINE row == [log[r] EXCEPT !.status = status, !.attempts = n]
  <2>1. row \in Row /\ row.letter = log[r].letter /\ row.status = status
    BY <1>1 DEF Row
  <2>2. log' = Update(r, row)
    BY <1>3 DEF MarkAttempt
  <2> HIDE DEF row
  <2> QED BY <2>1, <2>2, UpdateGrows
<1> QED BY <1>2, <1>3

\* A log that stays as it is grows.
LEMMA SameGrows == ASSUME Typed, UNCHANGED <<log, used>> PROVE Grows
  BY DEF Typed, TypeOK, Grows

(***************************************************************************)
(* Steps of one worker.                                                    *)
(***************************************************************************)

\* A step that writes to no row but the worker's own, unless to delete it, and
\* takes no other row, keeps the invariant.
LEMMA OwnStep ==
    ASSUME Inv, Grows, Rest', NEW w \in Workers, NEW c \in Activity, Set(w, c),
           Fits(c, log', used'), w = "job" => c.by \in {"none", "job"},
           w = "job" => c.todo \subseteq work["job"].todo,
           c.row = 0 \/ c.row = work[w].row,
           \A r \in Rows : r # work[w].row =>
              log'[r] = log[r] \/ (log'[r].status = "deleted" /\ log'[r].attempts = log[r].attempts),
           Unfinished(c) => log'[c.row].status # "completed"
    PROVE  Inv' /\ Grows
<1>1. Becomes(w, c)
  BY SetBecomes DEF Inv
<1>2. Typed'
  BY <1>1, WorkStep DEF Inv
<1>3. /\ work'["job"].todo \subseteq work["job"].todo /\ work["job"].todo \subseteq Rows
      /\ \A v \in Workers : work'[v].row = 0 \/ work'[v].row = work[v].row
  BY <1>1 DEF Becomes, Inv, Typed, TypeOK, Activity, Workers
<1>4. \A v, u \in Workers : v # u /\ work'[v].row # 0 => work'[v].row # work'[u].row
  BY <1>3 DEF Inv, Exclusive
<1>5. ASSUME NEW r \in work'["job"].todo
      PROVE  /\ log'[r].status \in {"failed", "deleted"} /\ log'[r].attempts < MaxAttempts
             /\ \A v \in Workers : work'[v].row # r
  <2>1. r \in Rows /\ r # 0 /\ r \in work["job"].todo /\ \A v \in Workers : work[v].row # r
    BY <1>3 DEF Inv, Exclusive, Rows
  <2>2. log'[r] = log[r] \/ (log'[r].status = "deleted" /\ log'[r].attempts = log[r].attempts)
    BY <2>1
  <2> QED BY <1>3, <2>1, <2>2 DEF Inv, Exclusive
<1>6. ASSUME NEW v \in Workers, Unfinished(work'[v]) PROVE log'[work'[v].row].status # "completed"
  <2>1. CASE v = w
    BY <1>1, <1>6, <2>1 DEF Becomes
  <2>2. CASE v # w
    <3>1. work'[v] = work[v] /\ Unfinished(work[v])
      BY <1>1, <1>6, <2>2 DEF Becomes
    <3>2. work[v].row \in 1..used /\ used \in 0..MaxRows
      BY <3>1 DEF Unfinished, Inv, Typed, TypeOK, Fits, Sending
    <3>3. work[v].row \in Rows /\ work[v].row # 0
      BY <3>2, EmailOutboxAssumption DEF Rows
    <3>4. work[v].row # work[w].row /\ log[work[v].row].status # "completed"
      BY <2>2, <3>1, <3>3 DEF Inv, Exclusive
    <3> QED BY <3>1, <3>3, <3>4
  <2> QED BY <2>1, <2>2
<1> QED BY <1>2, <1>4, <1>5, <1>6 DEF Inv, Exclusive

\* So does one that goes on with the worker's row.
LEMMA SendingStep ==
    ASSUME Inv, Grows, Rest', NEW w \in Workers, NEW c \in Activity, Set(w, c),
           work[w].pc \in Sending, c.pc \in Sending, c.by = work[w].by, c.letter = work[w].letter,
           c.row = work[w].row, c.old = work[w].old, c.todo = work[w].todo,
           c.pc \in {"report", "return"} => c.outcome # "none",
           \A r \in Rows : r # work[w].row => log'[r] = log[r],
           Unfinished(c) => log'[work[w].row].status # "completed"
    PROVE  Inv' /\ Grows
<1>1. Fits(work[w], log', used')
  BY StillFits DEF Inv
<1>2. Fits(c, log', used')
  BY <1>1 DEF Fits, Sending
<1>3. w = "job" => c.by \in {"none", "job"}
  BY DEF Inv, Typed
<1> QED BY <1>2, <1>3, OwnStep

\* What a worker that sends has in hand.
LEMMA InHand ==
    ASSUME Inv, NEW w \in Workers, work[w].pc \in Sending
    PROVE  /\ work[w] \in Activity /\ work[w].row \in 1..used /\ work[w].row \in Rows
           /\ work[w].letter \in Letters /\ log[work[w].row].letter = work[w].letter
           /\ log[work[w].row] \in Row
<1>1. work[w] \in Activity /\ Fits(work[w], log, used) /\ used \in 0..MaxRows
  BY DEF Inv, Typed, TypeOK
<1>2. work[w].row \in 1..used /\ work[w].letter \in Letters /\ log[work[w].row].letter = work[w].letter
  BY <1>1 DEF Fits, Sending
<1>3. work[w].row \in Rows
  BY <1>1, <1>2, EmailOutboxAssumption DEF Rows
<1> QED BY <1>1, <1>2, <1>3 DEF Inv, Typed, TypeOK

\* What is stored besides the log and the work keeps its type.
LEMMA MishapsFit == Rest /\ Mishap => mishaps' \in 0..MaxMishaps
  BY EmailOutboxAssumption DEF Rest, Mishap
\* And so for refusals.
LEMMA RefusalsFit == Rest /\ Refusal => refusals' \in 0..MaxRefusals
  BY EmailOutboxAssumption DEF Rest, Refusal
\* The types include those.
LEMMA RestFits == Typed => Rest
  BY DEF Typed, TypeOK, Rest

\* logEmailProcessing.
LEMMA ProcessingStep == ASSUME Inv, NEW w \in Workers, Processing(w) PROVE Inv' /\ Grows
<1> DEFINE c == [work[w] EXCEPT !.pc = "smtp"]
<1>1. work[w].pc = "check" /\ work[w].pc \in Sending
  BY DEF Processing, At, Sending
<1>2. /\ c \in Activity /\ c.pc = "smtp" /\ c.by = work[w].by /\ c.letter = work[w].letter
      /\ c.row = work[w].row /\ c.old = work[w].old /\ c.todo = work[w].todo
  BY <1>1, InHand DEF Activity
<1>3. Set(w, c) /\ log' = MarkAttempt(work[w].row, "active", 1) /\ UNCHANGED used
  BY DEF Processing, Goto
<1>4. 1 \in 0..MaxAttempts /\ "active" \in Status
  BY EmailOutboxAssumption DEF Status
<1>5. /\ Grows /\ \A s \in Rows : s # work[w].row => log'[s] = log[s]
      /\ log'[work[w].row].status # "completed"
  BY <1>1, <1>3, <1>4, InHand, MarkGrows DEF Inv
<1>6. Rest'
  BY RestFits DEF Processing, Rest, Inv
<1> HIDE DEF c
<1> QED BY <1>1, <1>2, <1>3, <1>5, <1>6, SendingStep DEF Sending

\* A send that fails before it reaches the server.
LEMMA CheckFailsStep == ASSUME Inv, NEW w \in Workers, CheckFails(w) PROVE Inv' /\ Grows
<1> DEFINE c == [work[w] EXCEPT !.pc = "return",
                   !.outcome = IF work[w].letter \in suppressed THEN "bounced" ELSE "refused"]
<1>1. work[w].pc = "check" /\ work[w].pc \in Sending
  BY DEF CheckFails, At, Sending
<1>2. /\ c \in Activity /\ c.pc = "return" /\ c.by = work[w].by /\ c.letter = work[w].letter
      /\ c.row = work[w].row /\ c.old = work[w].old /\ c.todo = work[w].todo /\ c.outcome # "none"
  BY <1>1, InHand DEF Activity
<1>3. Set(w, c) /\ log' = Mark(work[w].row, "failed") /\ UNCHANGED used
  BY DEF CheckFails
<1>4. "failed" \in Status
  BY DEF Status
<1>5. /\ Grows /\ \A s \in Rows : s # work[w].row => log'[s] = log[s]
      /\ log'[work[w].row].status # "completed"
  BY <1>1, <1>3, <1>4, InHand, MarkGrows DEF Inv
<1>6. Rest'
  BY RestFits, RefusalsFit DEF CheckFails, Rest, Inv
<1> HIDE DEF c
<1> QED BY <1>1, <1>2, <1>3, <1>5, <1>6, SendingStep DEF Sending

\* The server accepts the letter, or bounces it.
LEMMA AnswerStep == ASSUME Inv, NEW w \in Workers, Accept(w) \/ Bounce(w) PROVE Inv' /\ Grows
<1>1. work[w].pc = "smtp" /\ work[w].pc \in Sending /\ UNCHANGED <<log, used>>
  BY DEF Accept, Bounce, At, Sending
<1>2. PICK outcome \in {"ok", "bounced"} :
         Set(w, [work[w] EXCEPT !.pc = "report", !.outcome = outcome])
  BY DEF Accept, Bounce
<1> DEFINE c == [work[w] EXCEPT !.pc = "report", !.outcome = outcome]
<1>3. /\ c \in Activity /\ c.pc = "report" /\ c.by = work[w].by /\ c.letter = work[w].letter
      /\ c.row = work[w].row /\ c.old = work[w].old /\ c.todo = work[w].todo /\ c.outcome # "none"
  BY <1>1, InHand DEF Activity
<1>4. Grows /\ log'[work[w].row].status # "completed"
  BY <1>1, SameGrows DEF Inv, Exclusive, Unfinished
<1>5. Rest'
  <2>1. Rest /\ work[w].row \in Rows
    BY <1>1, RestFits, InHand DEF Inv
  <2>2. mails' \in [Rows -> Nat]
    BY <2>1 DEF Accept, Bounce, Copy, Rest
  <2> QED BY <2>1, <2>2, RefusalsFit DEF Accept, Bounce, Rest
<1> HIDE DEF c
<1> QED BY <1>1, <1>2, <1>3, <1>4, <1>5, SendingStep DEF Sending, c

\* Another try, or the end of them.
LEMMA RefuseStep == ASSUME Inv, NEW w \in Workers, Refuse(w) PROVE Inv' /\ Grows
<1>1. work[w].pc = "smtp" /\ work[w].pc \in Sending /\ UNCHANGED <<used, suppressed, booting, asked>>
  BY DEF Refuse, At, Sending
<1>2. log[work[w].row].status # "completed" /\ Rest
  BY <1>1, RestFits DEF Inv, Exclusive, Unfinished
<1>3. Rest'
  <2>1. mails' \in [Rows -> Nat]
    <3>1. mails \in [Rows -> Nat] /\ work[w].row \in Rows
      BY <1>1, <1>2, InHand DEF Rest
    <3>2. mails' = mails \/ Copy(w)
      BY DEF Refuse
    <3> QED BY <3>1, <3>2 DEF Copy
  <2>2. refusals' \in 0..MaxRefusals /\ mishaps' \in 0..MaxMishaps
    BY <1>2, RefusalsFit, MishapsFit DEF Refuse, Rest
  <2> QED BY <1>1, <1>2, <2>1, <2>2 DEF Rest
<1>4. CASE /\ work[w].tries + 1 < Tries
           /\ log' \in {log, MarkAttempt(work[w].row, log[work[w].row].status, work[w].tries + 1)}
           /\ Set(w, [work[w] EXCEPT !.tries = work[w].tries + 1])
  <2> DEFINE c == [work[w] EXCEPT !.tries = work[w].tries + 1]
  <2>1. /\ c \in Activity /\ c.pc = "smtp" /\ c.by = work[w].by /\ c.letter = work[w].letter
        /\ c.row = work[w].row /\ c.old = work[w].old /\ c.todo = work[w].todo
    BY <1>1, InHand DEF Activity
  <2>2. work[w].tries + 1 \in 0..MaxAttempts /\ log[work[w].row].status \in Status
    BY <1>1, <1>4, InHand, EmailOutboxAssumption DEF Activity, Row
  <2>3. /\ Grows /\ \A s \in Rows : s # work[w].row => log'[s] = log[s]
        /\ log'[work[w].row].status # "completed"
    <3>1. CASE log' = log
      BY <1>1, <1>2, <3>1, SameGrows DEF Inv
    <3>2. CASE log' = MarkAttempt(work[w].row, log[work[w].row].status, work[w].tries + 1)
      BY <1>1, <1>2, <2>2, <3>2, InHand, MarkGrows DEF Inv
    <3> QED BY <1>4, <3>1, <3>2
  <2>4. Set(w, c)
    BY <1>4
  <2> HIDE DEF c
  <2> QED BY <1>1, <1>3, <2>1, <2>3, <2>4, SendingStep DEF Sending
<1>5. CASE UNCHANGED log /\ Set(w, [work[w] EXCEPT !.pc = "report", !.outcome = "refused"])
  <2> DEFINE c == [work[w] EXCEPT !.pc = "report", !.outcome = "refused"]
  <2>1. /\ c \in Activity /\ c.pc = "report" /\ c.by = work[w].by /\ c.letter = work[w].letter
        /\ c.row = work[w].row /\ c.old = work[w].old /\ c.todo = work[w].todo /\ c.outcome # "none"
    BY <1>1, InHand DEF Activity
  <2>2. Grows
    BY <1>1, <1>5, SameGrows DEF Inv
  <2>3. Set(w, c)
    BY <1>5
  <2> HIDE DEF c
  <2> QED BY <1>1, <1>2, <1>3, <1>5, <2>1, <2>2, <2>3, SendingStep DEF Sending
<1> QED BY <1>4, <1>5 DEF Refuse

\* logEmailSuccess, or logEmailFailure and suppressEmail.
LEMMA ReportStep == ASSUME Inv, NEW w \in Workers, Report(w) PROVE Inv' /\ Grows
<1> DEFINE c == [work[w] EXCEPT !.pc = "return"]
<1>1. work[w].pc = "report" /\ work[w].pc \in Sending /\ UNCHANGED used
  BY DEF Report, At, Sending
<1>2. /\ c \in Activity /\ c.pc = "return" /\ c.by = work[w].by /\ c.letter = work[w].letter
      /\ c.row = work[w].row /\ c.old = work[w].old /\ c.todo = work[w].todo
      /\ c.outcome = work[w].outcome
  BY <1>1, InHand DEF Activity
<1>3. c.outcome # "none"
  BY <1>1, <1>2 DEF Inv, Typed, Fits
<1>4. PICK status \in {"completed", "failed"} :
         log' = Mark(work[w].row, status) /\ (work[w].outcome # "ok" => status # "completed")
  BY DEF Report
<1>5. /\ Grows /\ \A s \in Rows : s # work[w].row => log'[s] = log[s]
      /\ log'[work[w].row].status \in {status, "deleted"}
  BY <1>1, <1>4, InHand, MarkGrows DEF Inv, Status
<1>6. Rest'
  <2>1. suppressed' \subseteq Letters
    BY <1>1, InHand, RestFits DEF Report, Rest, Inv
  <2> QED BY <2>1, RestFits DEF Report, Rest, Inv
<1>7. Set(w, c)
  BY DEF Report, Goto
<1>8. Unfinished(c) => log'[work[w].row].status # "completed"
  BY <1>2, <1>4, <1>5 DEF Unfinished
<1> HIDE DEF c
<1> QED BY <1>1, <1>2, <1>3, <1>5, <1>6, <1>7, <1>8, SendingStep DEF Sending

\* Steps that end a call, and leave the log but for the row the panel replayed.
LEMMA EndStep ==
    ASSUME Inv, NEW w \in Workers, Set(w, Idle), Grows, UNCHANGED used, Rest',
           \A r \in Rows : r # work[w].row =>
              log'[r] = log[r] \/ (log'[r].status = "deleted" /\ log'[r].attempts = log[r].attempts)
    PROVE  Inv' /\ Grows
  BY IdleFits, OwnStep DEF Unfinished

\* The log stays, and so do the bounds of what is stored, when a call only sets itself.
LEMMA CallStep ==
    ASSUME Inv, NEW w \in Workers, NEW c \in Activity, Set(w, c), UNCHANGED <<log, used>>, Rest',
           Fits(c, log, used), w = "job" => c.by \in {"none", "job"},
           w = "job" => c.todo \subseteq work["job"].todo,
           c.row = 0, ~Unfinished(c)
    PROVE  Inv' /\ Grows
  BY OwnStep, SameGrows DEF Inv

\* What Call returns.
LEMMA CallFits ==
    ASSUME NEW by \in {"app", "panel", "bulk"}, NEW letter \in Letters, NEW old \in 0..MaxRows,
           NEW todo \in SUBSET Rows
    PROVE  /\ Call(by, letter, old, todo) \in Activity
           /\ LET c == Call(by, letter, old, todo)
              IN  /\ c.pc = "log" /\ c.by = by /\ c.letter = letter /\ c.old = old
                  /\ c.todo = todo /\ c.row = 0 /\ ~Unfinished(c)
  BY IdleFits DEF Call, Idle, Activity, Unfinished

\* A failed row is in use, and has a letter.
LEMMA FailedFits ==
    ASSUME Typed, NEW r \in Rows, log[r].status # "unused"
    PROVE  r \in 1..used /\ log[r] \in Row /\ log[r].letter \in Letters
<1>1. log[r] \in Row /\ r \in Nat /\ r >= 1 /\ used \in Nat
  BY EmailOutboxAssumption DEF Typed, TypeOK, Rows
<1>2. r <= used
  BY <1>1 DEF Typed, Filled, Unused
<1> QED BY <1>1, <1>2 DEF Typed, Filled

\* A first send.
LEMMA SendStep == ASSUME Inv, NEW w \in Requests, NEW l \in Letters, Send(w, l) PROVE Inv' /\ Grows
<1> DEFINE c == Call("app", l, 0, {})
<1>1. c \in Activity /\ c.pc = "log" /\ c.by = "app" /\ c.letter = l /\ c.todo = {} /\ c.row = 0
      /\ ~Unfinished(c)
  BY CallFits, EmailOutboxAssumption DEF Rows
<1>2. Set(w, c) /\ UNCHANGED <<log, used>> /\ Rest' /\ w \in Workers /\ w # "job"
  BY RestFits, EmailOutboxAssumption DEF Send, Rest, Inv, Workers
<1> HIDE DEF c
<1>3. Fits(c, log, used)
  BY <1>1 DEF Fits, Sending
<1> QED BY <1>1, <1>2, <1>3, CallStep

\* A replay of one row.
LEMMA RetryStep ==
    ASSUME Inv, NEW w \in Requests, NEW r \in Rows, RetryEmailLog(w, r) PROVE Inv' /\ Grows
<1>1. r \in 1..used /\ r \in 0..MaxRows /\ log[r].letter \in Letters
  BY FailedFits, EmailOutboxAssumption DEF RetryEmailLog, Failed, Inv, Rows
<1> DEFINE c == Call("panel", log[r].letter, r, {})
<1>2. c \in Activity /\ c.pc = "log" /\ c.letter = log[r].letter /\ c.old = r
      /\ c.todo = {} /\ c.row = 0 /\ ~Unfinished(c)
  BY <1>1, CallFits
<1>3. Set(w, c) /\ UNCHANGED <<log, used>> /\ Rest' /\ w \in Workers /\ w # "job"
  BY RestFits, EmailOutboxAssumption DEF RetryEmailLog, Rest, Inv, Workers
<1> HIDE DEF c
<1>4. Fits(c, log, used)
  BY <1>1, <1>2 DEF Fits, Sending
<1> QED BY <1>2, <1>3, <1>4, CallStep

\* A replay of all.
LEMMA RetryAllStep ==
    ASSUME Inv, NEW w \in Requests, RetryAllFailedEmails(w) PROVE Inv' /\ Grows
<1> DEFINE c == [Idle EXCEPT !.pc = "next", !.by = "bulk", !.todo = Failed]
<1>1. Failed \subseteq 1..used /\ Failed \subseteq Rows
  BY FailedFits DEF Failed, Inv
<1>2. c \in Activity /\ c.pc = "next" /\ c.by = "bulk" /\ c.todo = Failed /\ c.row = 0
  BY <1>1, IdleFits DEF Activity
<1>3. Set(w, c) /\ UNCHANGED <<log, used>> /\ Rest' /\ w \in Workers /\ w # "job"
  BY RestFits, EmailOutboxAssumption DEF RetryAllFailedEmails, Rest, Inv, Workers
<1> HIDE DEF c
<1>4. Fits(c, log, used) /\ ~Unfinished(c)
  BY <1>1, <1>2 DEF Fits, Sending, Unfinished
<1> QED BY <1>2, <1>3, <1>4, CallStep

\* The INSERT throws.
LEMMA LogFailsStep == ASSUME Inv, NEW w \in Workers, LogAttemptFails(w) PROVE Inv' /\ Grows
<1>1. /\ UNCHANGED <<log, used>> /\ work[w].pc = "log" /\ work[w] \in Activity
      /\ Fits(work[w], log, used)
  BY DEF LogAttemptFails, At, Inv, Typed, TypeOK
<1>2. Rest'
  BY RestFits, MishapsFit DEF LogAttemptFails, Rest, Inv
<1>3. CASE work[w].by = "bulk" /\ Set(w, [work[w] EXCEPT !.pc = "next"])
  <2> DEFINE c == [work[w] EXCEPT !.pc = "next"]
  <2>1. c \in Activity /\ c.pc = "next" /\ c.by = "bulk" /\ c.todo = work[w].todo
        /\ c.row = work[w].row
    BY <1>1, <1>3 DEF Activity
  <2>2. c.row = 0 /\ Fits(c, log, used) /\ ~Unfinished(c)
    BY <1>1, <2>1 DEF Fits, Sending, Unfinished
  <2>3. Set(w, c) /\ w # "job"
    BY <1>3 DEF Inv, Typed
  <2> HIDE DEF c
  <2> QED BY <1>1, <1>2, <2>1, <2>2, <2>3, CallStep
<1>4. CASE Set(w, Idle)
  BY <1>1, <1>2, <1>4, SameGrows, EndStep DEF Inv
<1> QED BY <1>3, <1>4 DEF LogAttemptFails

\* A loop reaches its end, or the caller is told.
LEMMA IdlesStep == ASSUME Inv, NEW w \in Workers, LoopEnds(w) \/ ReturnToApp(w) PROVE Inv' /\ Grows
<1>1. Set(w, Idle) /\ UNCHANGED <<log, used>> /\ Rest'
  BY RestFits DEF LoopEnds, ReturnToApp, Rest, Inv
<1> QED BY <1>1, SameGrows, EndStep DEF Inv

\* The panel's replay of one row is over.
LEMMA PanelStep == ASSUME Inv, NEW w \in Workers, ReturnToPanel(w) PROVE Inv' /\ Grows
<1>1. Set(w, Idle) /\ UNCHANGED used /\ Rest' /\ work[w].by = "panel"
  BY RestFits DEF ReturnToPanel, Rest, Inv
<1>2. CASE log' = log
  BY <1>1, <1>2, SameGrows, EndStep DEF Inv
<1>3. CASE log' = Mark(work[w].old, "deleted")
  <2>1. work[w].old \in 1..used /\ "deleted" \in Status
    BY <1>1 DEF Inv, Typed, Fits, Status
  <2>2. Grows
    BY <1>1, <1>3, <2>1, MarkGrows DEF Inv
  <2>3. ASSUME NEW r \in Rows
        PROVE  log'[r] = log[r] \/ (log'[r].status = "deleted" /\ log'[r].attempts = log[r].attempts)
    <3>1. log \in [Rows -> Row] /\ log[r] \in Row
      BY DEF Inv, Typed, TypeOK
    <3> QED BY <1>3, <3>1 DEF Mark, Update, Row
  <2> QED BY <1>1, <2>2, <2>3, EndStep
<1> QED BY <1>2, <1>3 DEF ReturnToPanel

\* The replay of all goes on to the next row.
LEMMA BulkStep == ASSUME Inv, NEW w \in Workers, ReturnToBulk(w) PROVE Inv' /\ Grows
<1> DEFINE c == [Idle EXCEPT !.pc = "next", !.by = "bulk", !.todo = work[w].todo]
<1>1. work[w] \in Activity /\ work[w].by = "bulk" /\ work[w].todo \subseteq 1..used
  BY DEF ReturnToBulk, Inv, Typed, TypeOK, Fits
<1>2. c \in Activity /\ c.pc = "next" /\ c.by = "bulk" /\ c.todo = work[w].todo /\ c.row = 0
  BY <1>1, IdleFits DEF Activity
<1>3. Set(w, c) /\ UNCHANGED <<log, used>> /\ Rest' /\ w # "job"
  BY <1>1, RestFits DEF ReturnToBulk, Rest, Inv, Typed
<1> HIDE DEF c
<1>4. Fits(c, log, used) /\ ~Unfinished(c)
  BY <1>1, <1>2 DEF Fits, Sending, Unfinished
<1> QED BY <1>2, <1>3, <1>4, CallStep

\* The replay of all takes a row off the log and sends its letter anew.
LEMMA DeleteStep ==
    ASSUME Inv, NEW w \in Workers, NEW r \in Rows, DeleteAndSend(w, r) PROVE Inv' /\ Grows
<1>1. /\ work[w] \in Activity /\ work[w].by = "bulk" /\ work[w].pc = "next" /\ r \in 1..used
      /\ work[w].todo \subseteq 1..used /\ w # "job" /\ log[r] \in Row /\ work[w].row = 0
  BY DEF DeleteAndSend, At, Inv, Typed, TypeOK, Fits, Sending
<1>2. log[r].letter \in Letters /\ "deleted" \in Status
  BY <1>1 DEF Inv, Typed, Filled, Status
<1> DEFINE c == Call("bulk", log[r].letter, r, work[w].todo \ {r})
<1>3. /\ c \in Activity /\ c.pc = "log" /\ c.by = "bulk" /\ c.letter = log[r].letter
      /\ c.todo = work[w].todo \ {r} /\ c.row = 0 /\ ~Unfinished(c)
  <2>1. r \in 0..MaxRows /\ work[w].todo \ {r} \in SUBSET Rows
    BY <1>1, EmailOutboxAssumption DEF Activity, Rows
  <2> QED BY <1>2, <2>1, CallFits
<1>4. Set(w, c) /\ UNCHANGED used /\ Rest' /\ log' = Mark(r, "deleted")
  BY RestFits DEF DeleteAndSend, Rest, Inv
<1> HIDE DEF c
<1>5. Grows
  BY <1>1, <1>2, <1>4, MarkGrows DEF Inv
<1>6. Fits(c, log', used')
  <2>1. used' = used /\ log'[r].letter = log[r].letter
    BY <1>1, <1>4, <1>5 DEF Grows
  <2> QED BY <1>1, <1>2, <1>3, <2>1 DEF Fits, Sending
<1>7. ASSUME NEW s \in Rows
      PROVE  log'[s] = log[s] \/ (log'[s].status = "deleted" /\ log'[s].attempts = log[s].attempts)
  <2>1. log \in [Rows -> Row] /\ log[s] \in Row
    BY DEF Inv, Typed, TypeOK
  <2> QED BY <1>4, <2>1 DEF Mark, Update, Row
<1> QED BY <1>1, <1>3, <1>4, <1>5, <1>6, <1>7, OwnStep

\* The job marks its row and goes on to the next.
LEMMA JobStep == ASSUME Inv, ReturnToJob PROVE Inv' /\ Grows
<1> DEFINE c == [Idle EXCEPT !.pc = "next", !.by = "job", !.todo = work["job"].todo]
           row == work["job"].row
<1>1. /\ "job" \in Workers /\ work["job"] \in Activity /\ work["job"].todo \subseteq 1..used
      /\ work["job"].pc = "return" /\ work["job"].pc \in Sending
  BY DEF ReturnToJob, At, Inv, Typed, TypeOK, Fits, Workers, Sending
<1>2. c \in Activity /\ c.pc = "next" /\ c.by = "job" /\ c.todo = work["job"].todo /\ c.row = 0
  BY <1>1, IdleFits DEF Activity
<1>3. Set("job", c) /\ UNCHANGED used /\ Rest'
  BY RestFits DEF ReturnToJob, Rest, Inv
<1> HIDE DEF c
<1>4. work["job"].outcome \in {"ok", "refused", "bounced"}
  BY <1>1 DEF Inv, Typed, Fits, Activity
<1>5. Grows /\ \A s \in Rows : s # row => log'[s] = log[s]
  <2>1. row \in 1..used /\ "failed" \in Status /\ MaxAttempts \in 0..MaxAttempts
    BY <1>1, InHand, EmailOutboxAssumption DEF Status
  <2>2. log' = log \/ log' = Mark(row, "failed") \/ log' = MarkAttempt(row, "failed", MaxAttempts)
    BY <1>4 DEF ReturnToJob
  <2>3. CASE log' = log
    BY <1>3, <2>3, SameGrows DEF Inv
  <2>4. CASE log' = Mark(row, "failed") \/ log' = MarkAttempt(row, "failed", MaxAttempts)
    BY <1>3, <2>1, <2>4, MarkGrows DEF Inv
  <2> QED BY <2>2, <2>3, <2>4
<1>6. Fits(c, log', used') /\ ~Unfinished(c)
  BY <1>1, <1>2, <1>3 DEF Fits, Sending, Unfinished
<1> QED BY <1>1, <1>2, <1>3, <1>5, <1>6, OwnStep

(***************************************************************************)
(* Steps that take a row, and steps that leave the work alone.             *)
(***************************************************************************)

\* logEmailAttempt: a row nobody has seen.
LEMMA LogStep == ASSUME Inv, NEW w \in Workers, LogAttempt(w) PROVE Inv' /\ Grows
<1> DEFINE new == [Unused EXCEPT !.letter = work[w].letter, !.status = "pending"]
           c == [work[w] EXCEPT !.pc = "check", !.row = used + 1]
<1>1. /\ work[w] \in Activity /\ work[w].pc = "log" /\ Fits(work[w], log, used)
      /\ log \in [Rows -> Row] /\ used \in 0..MaxRows /\ used + 1 \in Rows /\ used + 1 \in 0..MaxRows
  BY EmailOutboxAssumption DEF LogAttempt, At, Inv, Typed, TypeOK, Rows
<1>2. work[w].letter \in Letters
  BY <1>1 DEF Fits
<1>3. new \in Row /\ new.letter = work[w].letter /\ new.status = "pending"
  <2>1. Unused \in Row
    BY EmailOutboxAssumption DEF Unused, Row, Status
  <2> QED BY <1>2, <2>1 DEF Row, Status
<1>4. /\ c \in Activity /\ c.pc = "check" /\ c.letter = work[w].letter /\ c.row = used + 1
      /\ c.by = work[w].by /\ c.old = work[w].old /\ c.todo = work[w].todo
  BY <1>1 DEF Activity
<1>5. Set(w, c) /\ used' = used + 1 /\ log' = [log EXCEPT ![used + 1] = new] /\ Rest'
  <2>1. asked' \subseteq Letters
    BY <1>2, RestFits DEF LogAttempt, Rest, Inv
  <2> QED BY <2>1, RestFits DEF LogAttempt, Rest, Inv
<1> HIDE DEF new, c
<1>6. log'[used + 1] = new /\ log' \in [Rows -> Row] /\ \A s \in Rows : s # used + 1 => log'[s] = log[s]
  BY <1>1, <1>3, <1>5
<1>7. Grows
  <2>1. ASSUME NEW s \in Rows
        PROVE  IF s <= used' THEN log'[s].letter \in Letters ELSE log'[s] = Unused
    <3>1. s \in Nat /\ IF s <= used THEN log[s].letter \in Letters ELSE log[s] = Unused
      BY DEF Inv, Typed, Filled, Rows
    <3> QED BY <1>1, <1>2, <1>3, <1>5, <1>6, <3>1
  <2>2. ASSUME NEW s \in 1..used PROVE log'[s] = log[s]
    BY <1>1, <1>6, EmailOutboxAssumption DEF Rows
  <2> QED BY <1>1, <1>5, <1>6, <2>1, <2>2 DEF Grows, Filled
<1>8. Fits(c, log', used')
  <2>1. Fits(work[w], log', used')
    BY <1>7, StillFits DEF Inv
  <2> QED BY <1>1, <1>2, <1>3, <1>4, <1>5, <1>6, <2>1 DEF Fits, Sending
<1>9. Becomes(w, c) /\ (w = "job" => c.by \in {"none", "job"})
  BY <1>4, <1>5, SetBecomes DEF Inv, Typed
<1>10. Typed'
  BY <1>4, <1>5, <1>7, <1>8, <1>9, WorkStep DEF Inv
<1>11. \A v \in Workers : work[v].row # used + 1 /\ used + 1 \notin work[v].todo
  BY <1>1 DEF Inv, Typed, Fits
<1>12. \A v, u \in Workers : v # u /\ work'[v].row # 0 => work'[v].row # work'[u].row
  BY <1>1, <1>4, <1>9, <1>11 DEF Becomes, Inv, Exclusive
<1>13. ASSUME NEW r \in work'["job"].todo
       PROVE  /\ log'[r].status \in {"failed", "deleted"} /\ log'[r].attempts < MaxAttempts
              /\ \A v \in Workers : work'[v].row # r
  <2>1. r \in work["job"].todo /\ r # used + 1
    BY <1>4, <1>9, <1>11 DEF Becomes, Workers
  <2>2. r \in Rows
    BY <2>1 DEF Inv, Typed, TypeOK, Activity, Workers
  <2> QED BY <1>4, <1>6, <1>9, <2>1, <2>2 DEF Becomes, Inv, Exclusive
<1>14. ASSUME NEW v \in Workers, Unfinished(work'[v]) PROVE log'[work'[v].row].status # "completed"
  <2>1. CASE v = w
    BY <1>3, <1>4, <1>6, <1>9, <2>1 DEF Becomes
  <2>2. CASE v # w
    <3>1. work'[v] = work[v] /\ Unfinished(work[v])
      BY <1>9, <1>14, <2>2 DEF Becomes
    <3>2. work[v].row \in Rows /\ work[v].row # used + 1
      BY <1>11, <3>1, InHand DEF Unfinished, Sending
    <3> QED BY <1>6, <3>1, <3>2 DEF Inv, Exclusive
  <2> QED BY <2>1, <2>2
<1> QED BY <1>7, <1>10, <1>12, <1>13, <1>14 DEF Inv, Exclusive

\* emailRetry starts with the rows it may take, whose letters nobody sends.
LEMMA StartStep == ASSUME Inv, StartJob PROVE Inv' /\ Grows
<1> DEFINE todo == {r \in Rows : Candidate(r)}
           c == [Idle EXCEPT !.pc = "next", !.by = "job", !.todo = todo]
<1>1. "job" \in Workers /\ work["job"].row = 0
  BY DEF StartJob, At, Inv, Typed, Fits, Workers, Sending
<1>2. ASSUME NEW r \in todo
      PROVE  /\ r \in 1..used /\ r \in Rows /\ r # 0 /\ log[r].status = "failed"
             /\ log[r].attempts < MaxAttempts /\ \A v \in Workers : work[v].row # r
  <2>1. r \in Rows /\ log[r].status = "failed" /\ log[r].attempts < MaxAttempts
        /\ \A v \in Requests : work[v].row # r
    BY DEF Candidate, Failed
  <2> QED BY <1>1, <2>1, FailedFits DEF Inv, Rows, Workers
<1>3. c \in Activity /\ c.pc = "next" /\ c.by = "job" /\ c.todo = todo /\ c.row = 0
  BY IdleFits DEF Activity
<1>4. Set("job", c) /\ UNCHANGED <<log, used>> /\ Rest'
  BY RestFits DEF StartJob, Rest, Inv
<1> HIDE DEF todo, c
<1>5. Grows /\ Fits(c, log', used') /\ ~Unfinished(c)
  BY <1>2, <1>3, <1>4, SameGrows DEF Fits, Sending, Unfinished, Inv
<1>6. Becomes("job", c)
  BY <1>1, <1>3, <1>4, SetBecomes DEF Inv
<1>7. Typed'
  BY <1>1, <1>3, <1>4, <1>5, <1>6, WorkStep DEF Inv
<1>8. Exclusive'
  <2>1. \A v \in Workers : work'[v].row = work[v].row
    BY <1>1, <1>3, <1>6 DEF Becomes
  <2>2. \A v \in Workers : Unfinished(work'[v]) => Unfinished(work[v])
    BY <1>5, <1>6 DEF Becomes
  <2>3. work'["job"].todo = todo /\ log' = log
    BY <1>3, <1>4, <1>6 DEF Becomes
  <2> QED BY <1>2, <2>1, <2>2, <2>3 DEF Inv, Exclusive
<1> QED BY <1>5, <1>7, <1>8 DEF Inv

\* It takes one of them.
LEMMA TakeStep == ASSUME Inv, NEW r \in Rows, MarkRetrying(r) PROVE Inv' /\ Grows
<1> DEFINE c == [work["job"] EXCEPT !.pc = "check", !.letter = log[r].letter, !.row = r,
                                    !.todo = work["job"].todo \ {r}]
<1>1. /\ "job" \in Workers /\ work["job"] \in Activity /\ work["job"].pc = "next"
      /\ work["job"].todo \subseteq 1..used /\ r \in work["job"].todo /\ r \in 1..used
      /\ log[r] \in Row /\ work["job"].by \in {"none", "job"}
  BY DEF MarkRetrying, At, Inv, Typed, TypeOK, Fits, Workers
<1>2. /\ log[r].status # "completed" /\ log[r].attempts < MaxAttempts /\ r # 0
      /\ \A v \in Workers : work[v].row # r
  BY <1>1 DEF Inv, Exclusive, Rows
<1>3. log[r].letter \in Letters
  BY <1>1 DEF Inv, Typed, Filled
<1>4. /\ c \in Activity /\ c.pc = "check" /\ c.letter = log[r].letter /\ c.row = r
      /\ c.by = work["job"].by /\ c.todo = work["job"].todo \ {r}
  <2>1. r \in 0..MaxRows
    BY EmailOutboxAssumption DEF Rows
  <2> QED BY <1>1, <1>3, <2>1 DEF Activity
<1>5. Set("job", c) /\ UNCHANGED used /\ Rest'
      /\ log' = MarkAttempt(r, "retrying", log[r].attempts + 1)
  BY RestFits DEF MarkRetrying, Rest, Inv
<1> HIDE DEF c
<1>6. /\ Grows /\ \A s \in Rows : s # r => log'[s] = log[s]
      /\ log'[r].status \in {"retrying", "deleted"}
  <2>1. log[r].attempts + 1 \in 0..MaxAttempts /\ "retrying" \in Status
    BY <1>1, <1>2, EmailOutboxAssumption DEF Row, Status
  <2> QED BY <1>1, <1>5, <2>1, MarkGrows DEF Inv
<1>7. Fits(c, log', used')
  <2>1. log'[r].letter = log[r].letter /\ used' = used
    BY <1>1, <1>5, <1>6 DEF Grows
  <2> QED BY <1>1, <1>3, <1>4, <2>1 DEF Fits, Sending
<1>8. Becomes("job", c)
  BY <1>1, <1>4, <1>5, SetBecomes DEF Inv
<1>9. Typed'
  BY <1>1, <1>4, <1>5, <1>6, <1>7, <1>8, WorkStep DEF Inv
<1>10. \A v, u \in Workers : v # u /\ work'[v].row # 0 => work'[v].row # work'[u].row
  BY <1>2, <1>4, <1>8 DEF Becomes, Inv, Exclusive
<1>11. ASSUME NEW s \in work'["job"].todo
       PROVE  /\ log'[s].status \in {"failed", "deleted"} /\ log'[s].attempts < MaxAttempts
              /\ \A v \in Workers : work'[v].row # s
  <2>1. s \in work["job"].todo /\ s # r
    BY <1>4, <1>8 DEF Becomes
  <2>2. s \in Rows
    BY <1>1, <2>1 DEF Activity
  <2> QED BY <1>4, <1>6, <1>8, <2>1, <2>2 DEF Becomes, Inv, Exclusive
<1>12. ASSUME NEW v \in Workers, Unfinished(work'[v]) PROVE log'[work'[v].row].status # "completed"
  <2>1. CASE v = "job"
    BY <1>4, <1>6, <1>8, <2>1 DEF Becomes
  <2>2. CASE v # "job"
    <3>1. work'[v] = work[v] /\ Unfinished(work[v])
      BY <1>8, <1>12, <2>2 DEF Becomes
    <3>2. work[v].row \in Rows /\ work[v].row # r
      BY <1>2, <3>1, InHand DEF Unfinished, Sending
    <3> QED BY <1>6, <3>1, <3>2 DEF Inv, Exclusive
  <2> QED BY <2>1, <2>2
<1> QED BY <1>6, <1>9, <1>10, <1>11, <1>12 DEF Inv, Exclusive

\* A step on the log alone that completes no row, and leaves the failed and the
\* deleted ones what they are.
LEMMA LogOnlyStep ==
    ASSUME Inv, UNCHANGED <<work, used>>, Rest', Grows,
           \A r \in Rows : /\ log'[r].attempts = log[r].attempts
                           /\ log'[r].status = "completed" => log[r].status = "completed"
                           /\ log[r].status \in {"failed", "deleted"} => log'[r].status = log[r].status
    PROVE  Inv'
<1>1. \A v \in Workers : Fits(work'[v], log', used')
  BY StillFits DEF Inv
<1>2. Typed'
  BY <1>1 DEF Inv, Typed, TypeOK, Grows, Rest
<1>3. work["job"].todo \subseteq Rows
  BY DEF Inv, Typed, TypeOK, Activity, Workers
<1>4. \A v \in Workers : Unfinished(work[v]) => work[v].row \in Rows
  BY InHand DEF Unfinished, Sending
<1> QED BY <1>2, <1>3, <1>4 DEF Inv, Exclusive, Unfinished

\* recoverInterruptedRetries.
LEMMA RecoverStep == ASSUME Inv, RecoverInterruptedRetries PROVE Inv' /\ Grows
<1>1. log \in [Rows -> Row] /\ used \in 0..MaxRows /\ UNCHANGED <<work, used>> /\ Filled(log, used)
  BY DEF RecoverInterruptedRetries, Inv, Typed, TypeOK
<1>2. Rest'
  BY RestFits DEF RecoverInterruptedRetries, Rest, Inv
<1>3. ASSUME NEW r \in Rows
      PROVE  /\ log'[r] \in Row /\ log'[r].letter = log[r].letter /\ log'[r].attempts = log[r].attempts
             /\ log'[r] = log[r] \/ (log[r].status \in Stuck /\ log'[r].status = "failed")
  <2>1. log[r] \in Row
    BY <1>1
  <2>2. log'[r] = IF log[r].status \in Stuck THEN [log[r] EXCEPT !.status = "failed"] ELSE log[r]
    BY DEF RecoverInterruptedRetries
  <2> QED BY <2>1, <2>2 DEF Row, Status
<1>4. Grows
  <2>1. DOMAIN log' = Rows /\ log' = [r \in Rows |-> log'[r]]
    BY DEF RecoverInterruptedRetries
  <2>2. log' \in [Rows -> Row]
    BY <1>3, <2>1
  <2>3. ASSUME NEW r \in Rows
        PROVE  IF r <= used THEN log'[r].letter \in Letters ELSE log'[r] = Unused
    <3>1. IF r <= used THEN log[r].letter \in Letters ELSE log[r] = Unused
      BY <1>1 DEF Filled
    <3>2. Unused.status \notin Stuck
      BY DEF Unused, Stuck
    <3> QED BY <1>3, <3>1, <3>2
  <2>4. 1..used \subseteq Rows
    BY <1>1, EmailOutboxAssumption DEF Rows
  <2> QED BY <1>1, <1>3, <2>2, <2>3, <2>4 DEF Grows, Filled
<1> QED BY <1>1, <1>2, <1>3, <1>4, LogOnlyStep DEF Stuck

\* A row grows old.
LEMMA AgeStep == ASSUME Inv, NEW r \in Rows, Age(r) PROVE Inv' /\ Grows
<1>1. /\ log \in [Rows -> Row] /\ used \in 0..MaxRows /\ UNCHANGED <<work, used>> /\ Filled(log, used)
      /\ log' = [log EXCEPT ![r] = [log[r] EXCEPT !.aged = TRUE]] /\ log[r].status = "failed"
  BY DEF Age, Inv, Typed, TypeOK
<1>2. Rest'
  BY RestFits DEF Age, Rest, Inv
<1> DEFINE row == [log[r] EXCEPT !.aged = TRUE]
<1>3. row \in Row /\ row.letter = log[r].letter /\ row.attempts = log[r].attempts /\ row.status = "failed"
  BY <1>1 DEF Row
<1>4. log' = Update(r, row) /\ r \in 1..used
  BY <1>1, FailedFits DEF Update, Inv
<1> HIDE DEF row
<1>5. /\ Grows /\ \A s \in Rows : s # r => log'[s] = log[s]
      /\ log'[r] = row
  BY <1>1, <1>3, <1>4, UpdateGrows DEF Inv
<1> QED BY <1>1, <1>2, <1>3, <1>5, LogOnlyStep

\* The process is killed.
LEMMA RestartStep == ASSUME Inv, Restart PROVE Inv' /\ Grows
<1>1. /\ work' = [w \in Workers |-> Idle] /\ UNCHANGED <<log, used>> /\ "job" \in Workers
  BY DEF Restart, Workers
<1>2. Grows
  BY <1>1, SameGrows DEF Inv
<1>3. Rest'
  <2>1. Rest
    BY RestFits DEF Inv
  <2>2. PICK accepted : mails' = [r \in Rows |-> mails[r] + (IF r \in accepted THEN 1 ELSE 0)]
    BY DEF Restart
  <2>3. mails' \in [Rows -> Nat]
    <3>1. \A r \in Rows : mails[r] + (IF r \in accepted THEN 1 ELSE 0) \in Nat
      BY <2>1 DEF Rest
    <3> QED BY <2>2, <3>1
  <2> QED BY <2>1, <2>3, MishapsFit DEF Restart, Rest
<1>4. Typed'
  BY <1>1, <1>2, <1>3, IdleFits DEF Inv, Typed, TypeOK, Grows, Rest
<1>5. Exclusive'
  BY <1>1, IdleFits DEF Exclusive, Unfinished
<1> QED BY <1>2, <1>4, <1>5 DEF Inv

\* Nothing happens.
LEMMA IdleStep == ASSUME Inv, UNCHANGED vars PROVE Inv' /\ Grows
<1>1. Grows /\ Rest'
  BY SameGrows, RestFits DEF vars, Rest, Inv
<1> QED BY <1>1, LogOnlyStep DEF vars

(***************************************************************************)
(* The invariants.                                                         *)
(***************************************************************************)
LEMMA InvInit == Init => Inv
<1> SUFFICES ASSUME Init PROVE Inv
  OBVIOUS
<1>1. log = [r \in Rows |-> Unused] /\ used = 0 /\ work = [w \in Workers |-> Idle]
  BY DEF Init
<1>2. Unused \in Row
  BY EmailOutboxAssumption DEF Unused, Row, Status
<1>3. TypeOK
  <2>1. log \in [Rows -> Row] /\ work \in [Workers -> Activity] /\ mails \in [Rows -> Nat]
    BY <1>1, <1>2, IdleFits DEF Init
  <2>2. booting \in BOOLEAN
    BY DEF Init
  <2> QED BY <1>1, <2>1, <2>2, EmailOutboxAssumption DEF TypeOK, Init
<1>4. Filled(log, used)
  BY <1>1 DEF Filled, Rows
<1>5. (\A w \in Workers : Fits(work[w], log, used)) /\ work["job"].by = "none"
  BY <1>1, IdleFits DEF Workers
<1>6. Exclusive
  BY <1>1, IdleFits DEF Exclusive, Unfinished, Workers
<1> QED BY <1>3, <1>4, <1>5, <1>6 DEF Inv, Typed

\* A call that goes on keeps the invariant.
LEMMA ProceedStep == ASSUME Inv, NEW w \in Workers, Proceed(w) PROVE Inv' /\ Grows
<1>1. CASE LogAttempt(w) BY <1>1, LogStep
<1>2. CASE LogAttemptFails(w) BY <1>2, LogFailsStep
<1>3. CASE Processing(w) BY <1>3, ProcessingStep
<1>4. CASE CheckFails(w) BY <1>4, CheckFailsStep
<1>5. CASE Accept(w) \/ Bounce(w) BY <1>5, AnswerStep
<1>6. CASE Refuse(w) BY <1>6, RefuseStep
<1>7. CASE Report(w) BY <1>7, ReportStep
<1>8. CASE ReturnToApp(w) \/ LoopEnds(w) BY <1>8, IdlesStep
<1>9. CASE ReturnToPanel(w) BY <1>9, PanelStep
<1>10. CASE ReturnToBulk(w) BY <1>10, BulkStep
<1>11. CASE \E r \in Rows : DeleteAndSend(w, r) BY <1>11, DeleteStep
<1> QED BY <1>1, <1>2, <1>3, <1>4, <1>5, <1>6, <1>7, <1>8, <1>9, <1>10, <1>11 DEF Proceed

\* So does every step, and no row changes its letter.
LEMMA InvStep == Inv /\ [Next]_vars => Inv' /\ Grows
<1> SUFFICES ASSUME Inv, [Next]_vars PROVE Inv' /\ Grows
  OBVIOUS
<1>1. Requests \subseteq Workers /\ "job" \in Workers
  BY DEF Workers
<1>2. CASE \E w \in Requests : \E l \in Letters : Send(w, l)
  BY <1>2, SendStep
<1>3. CASE \E w \in Requests : \E r \in Rows : RetryEmailLog(w, r)
  BY <1>3, RetryStep
<1>4. CASE \E w \in Requests : RetryAllFailedEmails(w)
  BY <1>4, RetryAllStep
<1>5. CASE \E w \in Workers : Proceed(w)
  BY <1>5, ProceedStep
<1>6. CASE StartJob
  BY <1>6, StartStep
<1>7. CASE ReturnToJob
  BY <1>7, JobStep
<1>8. CASE \E r \in Rows : MarkRetrying(r)
  BY <1>8, TakeStep
<1>9. CASE Restart
  BY <1>9, RestartStep
<1>10. CASE RecoverInterruptedRetries
  BY <1>10, RecoverStep
<1>11. CASE \E r \in Rows : Age(r)
  BY <1>11, AgeStep
<1>12. CASE UNCHANGED vars
  BY <1>12, IdleStep
<1> QED BY <1>1, <1>2, <1>3, <1>4, <1>5, <1>6, <1>7, <1>8, <1>9, <1>10, <1>11, <1>12
        DEF Next, JobProceeds

\* A row of the log has one sender at a time, which has not completed it, and
\* the rows the job still has to take have none.
THEOREM InvIsInvariant == Spec => []Inv
  BY InvInit, InvStep, PTL DEF Spec

\* Every variable keeps its type, whatever is sent, replayed, recovered or lost:
\* no row is sent by two at a time, so that its attempts stay within the maximum
\* although the job writes the number it has read (emailRetry, logEmailProcessing).
THEOREM TypeCorrect == Spec => []TypeOK
  BY InvIsInvariant, PTL DEF Inv, Typed

(***************************************************************************)
(* What a step does to completed rows, and to those that are on the log.   *)
(***************************************************************************)
Keeps ==
    \A r \in Rows : log[r].status = "completed" =>
        log'[r].status \in {"completed", "deleted"} /\ mails'[r] = mails[r]

\* Copies are not unsent, and no row is deleted.
Tame ==
    \A r \in Rows : /\ mails'[r] >= mails[r]
                    /\ log[r].status # "deleted" => log'[r].status # "deleted"

\* Nothing is written but what the workers are doing.
LEMMA QuietEffect == ASSUME Inv, UNCHANGED <<log, mails>> PROVE Keeps /\ Tame
  BY DEF Keeps, Tame, Inv, Typed, TypeOK

\* No completed row is taken back, and none is deleted.
LogKept ==
    \A s \in Rows : /\ log[s].status = "completed" => log'[s].status = "completed"
                    /\ log[s].status # "deleted" => log'[s].status # "deleted"

\* A row that is not completed is written.
LEMMA UpdateEffect ==
    ASSUME Inv, NEW r \in Rows, log[r].status # "completed", NEW row, row.status # "deleted",
           log' = Update(r, row)
    PROVE  LogKept
<1>1. log \in [Rows -> Row]
  BY DEF Inv, Typed, TypeOK
<1>2. \A s \in Rows : s # r => log'[s] = log[s]
  BY <1>1 DEF Update
<1>3. log[r].status = "deleted" \/ log'[r] = row
  BY <1>1 DEF Update
<1> QED BY <1>2, <1>3 DEF LogKept

\* Its status is.
LEMMA MarkEffect ==
    ASSUME Inv, NEW r \in Rows, log[r].status # "completed", NEW status, status # "deleted",
           log' = Mark(r, status)
    PROVE  LogKept
<1> DEFINE row == [log[r] EXCEPT !.status = status]
<1>1. row.status = status
  BY DEF Inv, Typed, TypeOK, Row
<1>2. log' = Update(r, row)
  BY DEF Mark
<1> HIDE DEF row
<1> QED BY <1>1, <1>2, UpdateEffect

\* Its status and attempts are.
LEMMA AttemptEffect ==
    ASSUME Inv, NEW r \in Rows, log[r].status # "completed", NEW status, status # "deleted",
           NEW n, log' = MarkAttempt(r, status, n)
    PROVE  LogKept
<1> DEFINE row == [log[r] EXCEPT !.status = status, !.attempts = n]
<1>1. row.status = status
  BY DEF Inv, Typed, TypeOK, Row
<1>2. log' = Update(r, row)
  BY DEF MarkAttempt
<1> HIDE DEF row
<1> QED BY <1>1, <1>2, UpdateEffect

\* A row is deleted: it stays as it is or becomes deleted, and so do the others.
LEMMA DeleteEffect ==
    ASSUME Inv, NEW r \in Rows, log' = Mark(r, "deleted"), UNCHANGED mails
    PROVE  Keeps /\ \A s \in Rows : s # r => log'[s] = log[s]
<1>1. log \in [Rows -> Row] /\ log[r] \in Row
  BY DEF Inv, Typed, TypeOK
<1>2. \A s \in Rows : s # r => log'[s] = log[s]
  BY <1>1 DEF Mark, Update
<1>3. log'[r].status = "deleted"
  BY <1>1 DEF Mark, Update, Row
<1> QED BY <1>2, <1>3 DEF Keeps

\* The server accepts a letter whose row is not completed.
LEMMA CopyEffect ==
    ASSUME Inv, NEW w \in Workers, work[w].row \in Rows, log[work[w].row].status # "completed", Copy(w)
    PROVE  /\ \A r \in Rows : mails'[r] >= mails[r]
           /\ \A r \in Rows : log[r].status = "completed" => mails'[r] = mails[r]
           /\ mails'[work[w].row] > 0
<1>1. mails \in [Rows -> Nat] /\ mails' = [mails EXCEPT ![work[w].row] = mails[work[w].row] + 1]
  BY DEF Inv, Typed, TypeOK, Copy
<1> QED BY <1>1

\* A call that goes on, but for the two steps that delete.
LEMMA ProceedEffect ==
    ASSUME Inv, NEW w \in Workers, Proceed(w), ~ReturnToPanel(w), \A r \in Rows : ~DeleteAndSend(w, r)
    PROVE  Keeps /\ Tame
<1>1. mails \in [Rows -> Nat] /\ log \in [Rows -> Row]
  BY DEF Inv, Typed, TypeOK
<1>2. ASSUME Unfinished(work[w])
      PROVE  work[w].row \in Rows /\ log[work[w].row].status # "completed"
  BY <1>2, InHand DEF Unfinished, Sending, Inv, Exclusive
<1>3. CASE LogAttempt(w)
  <2>1. used + 1 \in Rows /\ log[used + 1] = Unused /\ used \in Nat
    BY <1>3, EmailOutboxAssumption DEF LogAttempt, Inv, Typed, TypeOK, Filled, Rows
  <2>2. log'[used + 1].status = "pending" /\ UNCHANGED mails
        /\ \A s \in Rows : s # used + 1 => log'[s] = log[s]
    BY <1>1, <1>3, <2>1 DEF LogAttempt, Unused
  <2>3. Unused.status = "unused"
    BY DEF Unused
  <2> QED BY <1>1, <2>1, <2>2, <2>3 DEF Keeps, Tame
<1>4. CASE LogAttemptFails(w) \/ ReturnToApp(w) \/ ReturnToBulk(w) \/ LoopEnds(w) \/ Bounce(w)
  BY <1>4, QuietEffect DEF LogAttemptFails, ReturnToApp, ReturnToBulk, LoopEnds, Bounce
<1>5. CASE Processing(w)
  <2>1. Unfinished(work[w]) /\ UNCHANGED mails /\ log' = MarkAttempt(work[w].row, "active", 1)
    BY <1>5 DEF Processing, At, Unfinished
  <2> QED BY <1>1, <1>2, <2>1, AttemptEffect DEF Keeps, Tame, LogKept
<1>6. CASE CheckFails(w)
  <2>1. Unfinished(work[w]) /\ UNCHANGED mails /\ log' = Mark(work[w].row, "failed")
    BY <1>6 DEF CheckFails, At, Unfinished
  <2> QED BY <1>1, <1>2, <2>1, MarkEffect DEF Keeps, Tame, LogKept
<1>7. CASE Accept(w)
  <2>1. Unfinished(work[w]) /\ Copy(w) /\ UNCHANGED log
    BY <1>7 DEF Accept, At, Unfinished
  <2> QED BY <1>1, <1>2, <2>1, CopyEffect DEF Keeps, Tame
<1>8. CASE Refuse(w)
  <2>1. Unfinished(work[w]) /\ (UNCHANGED mails \/ Copy(w))
    BY <1>8 DEF Refuse, At, Unfinished
  <2>2. /\ \A r \in Rows : mails'[r] >= mails[r]
        /\ \A r \in Rows : log[r].status = "completed" => mails'[r] = mails[r]
    BY <1>1, <1>2, <2>1, CopyEffect
  <2>3. LogKept
    <3>1. CASE UNCHANGED log
      BY <3>1 DEF LogKept
    <3>2. CASE log' = MarkAttempt(work[w].row, log[work[w].row].status, work[w].tries + 1)
      <4>1. CASE log[work[w].row].status = "deleted"
        BY <3>2, <4>1 DEF MarkAttempt, Update, LogKept
      <4>2. CASE log[work[w].row].status # "deleted"
        BY <1>2, <2>1, <3>2, <4>2, AttemptEffect
      <4> QED BY <4>1, <4>2
    <3> QED BY <1>8, <3>1, <3>2 DEF Refuse
  <2> QED BY <2>2, <2>3 DEF Keeps, Tame, LogKept
<1>9. CASE Report(w)
  <2>1. Unfinished(work[w]) /\ UNCHANGED mails
    BY <1>9 DEF Report, At, Unfinished
  <2>2. PICK status \in {"completed", "failed"} : log' = Mark(work[w].row, status)
    BY <1>9 DEF Report
  <2> QED BY <1>1, <1>2, <2>1, <2>2, MarkEffect DEF Keeps, Tame, LogKept
<1> QED BY <1>3, <1>4, <1>5, <1>6, <1>7, <1>8, <1>9 DEF Proceed

\* Every other step.
LEMMA OtherEffect ==
    ASSUME Inv, [Next]_vars, \A w \in Workers : ~Proceed(w)
    PROVE  Keeps /\ Tame
<1>1. mails \in [Rows -> Nat] /\ log \in [Rows -> Row] /\ "job" \in Workers /\ Requests \subseteq Workers
  BY DEF Inv, Typed, TypeOK, Workers
<1>2. ASSUME NEW w \in Workers, Unfinished(work[w])
      PROVE  work[w].row \in Rows /\ log[work[w].row].status # "completed"
  BY <1>2, InHand DEF Unfinished, Sending, Inv, Exclusive
<1>3. CASE \E w \in Requests : \/ \E l \in Letters : Send(w, l)
                               \/ \E r \in Rows : RetryEmailLog(w, r)
                               \/ RetryAllFailedEmails(w)
  BY <1>3, QuietEffect DEF Send, RetryEmailLog, RetryAllFailedEmails
<1>4. CASE StartJob \/ UNCHANGED vars
  BY <1>4, QuietEffect DEF StartJob, vars
<1>5. CASE ReturnToJob
  <2> DEFINE row == work["job"].row
  <2>1. UNCHANGED mails /\ work["job"].pc = "return"
    BY <1>5 DEF ReturnToJob, At
  <2>2. CASE log' = log
    BY <2>1, <2>2, QuietEffect
  <2>3. CASE work["job"].outcome # "ok" /\ (log' = Mark(row, "failed") \/ log' = MarkAttempt(row, "failed", MaxAttempts))
    <3>1. row \in Rows /\ log[row].status # "completed"
      BY <1>1, <1>2, <2>1, <2>3 DEF Unfinished
    <3>2. LogKept
      BY <2>3, <3>1, MarkEffect, AttemptEffect
    <3> QED BY <1>1, <2>1, <3>2 DEF Keeps, Tame, LogKept
  <2>4. work["job"].outcome \in {"ok", "refused", "bounced"}
    BY <1>1, <2>1 DEF Inv, Typed, TypeOK, Fits, Activity
  <2> QED BY <1>5, <2>2, <2>3, <2>4 DEF ReturnToJob
<1>6. ASSUME NEW r \in Rows, MarkRetrying(r) PROVE Keeps /\ Tame
  <2>1. log[r].status # "completed" /\ UNCHANGED mails /\ log' = MarkAttempt(r, "retrying", log[r].attempts + 1)
    BY <1>6 DEF MarkRetrying, Inv, Exclusive
  <2>2. LogKept
    BY <2>1, AttemptEffect
  <2> QED BY <1>1, <2>1, <2>2 DEF Keeps, Tame, LogKept
<1>7. CASE Restart
  <2>1. PICK accepted \in SUBSET {work[w].row : w \in {v \in Workers : At(v, "smtp")}} :
           mails' = [r \in Rows |-> mails[r] + (IF r \in accepted THEN 1 ELSE 0)]
    BY <1>7 DEF Restart
  <2>2. \A r \in Rows : log[r].status = "completed" => r \notin accepted
    BY <1>2 DEF At, Unfinished
  <2>3. \A r \in Rows : mails'[r] = mails[r] + (IF r \in accepted THEN 1 ELSE 0) /\ mails[r] \in Nat
    BY <1>1, <2>1
  <2>4. log' = log
    BY <1>7 DEF Restart
  <2> QED BY <2>2, <2>3, <2>4 DEF Keeps, Tame
<1>8. CASE RecoverInterruptedRetries
  <2>1. \A r \in Rows : log'[r] = log[r] \/ (log[r].status \in Stuck /\ log'[r].status = "failed")
    BY <1>1, <1>8 DEF RecoverInterruptedRetries, Row
  <2>2. UNCHANGED mails
    BY <1>8 DEF RecoverInterruptedRetries
  <2> QED BY <1>1, <2>1, <2>2 DEF Keeps, Tame, Stuck
<1>9. ASSUME NEW r \in Rows, Age(r) PROVE Keeps /\ Tame
  <2>1. log' = [log EXCEPT ![r] = [log[r] EXCEPT !.aged = TRUE]] /\ UNCHANGED mails /\ log[r].status = "failed"
    BY <1>9 DEF Age
  <2>2. (\A s \in Rows : s # r => log'[s] = log[s]) /\ log'[r].status = "failed"
    BY <1>1, <2>1 DEF Row
  <2> QED BY <1>1, <2>1, <2>2 DEF Keeps, Tame
<1> QED BY <1>1, <1>3, <1>4, <1>5, <1>6, <1>7, <1>8, <1>9 DEF Next, JobProceeds

(***************************************************************************)
(* Completed rows.                                                         *)
(***************************************************************************)
LEMMA KeepsStep == Inv /\ [Next]_vars => Keeps
<1> SUFFICES ASSUME Inv, [Next]_vars PROVE Keeps
  OBVIOUS
<1>1. ASSUME NEW w \in Workers, ReturnToPanel(w) PROVE Keeps
  <2>1. UNCHANGED mails /\ work[w].old \in Rows
    BY <1>1, EmailOutboxAssumption DEF ReturnToPanel, Inv, Typed, TypeOK, Fits, Rows
  <2>2. CASE log' = log
    BY <2>1, <2>2, QuietEffect
  <2>3. CASE log' = Mark(work[w].old, "deleted")
    BY <2>1, <2>3, DeleteEffect
  <2> QED BY <1>1, <2>2, <2>3 DEF ReturnToPanel
<1>2. ASSUME NEW w \in Workers, NEW r \in Rows, DeleteAndSend(w, r) PROVE Keeps
  BY <1>2, DeleteEffect DEF DeleteAndSend
<1> QED BY <1>1, <1>2, ProceedEffect, OtherEffect

\* A row logged as completed is not sent again nor put back among those to be
\* sent, by the job, the panel, a restart or a call that outlived it: nobody has
\* a completed row in hand but to return from it.
THEOREM CompletedStaysCompleted == Spec => CompletedIsFinal
<1>1. Inv /\ [Next]_vars
      => [\A r \in Rows : log[r].status = "completed" =>
             log'[r].status \in {"completed", "deleted"} /\ mails'[r] = mails[r]]_vars
  BY KeepsStep DEF Keeps
<1> QED BY <1>1, InvIsInvariant, PTL DEF Spec, CompletedIsFinal

(***************************************************************************)
(* Letters of the log.                                                     *)
(***************************************************************************)
Ok(c) == c.pc \in {"report", "return"} /\ c.outcome = "ok"

\* A call that was told of a success has sent its row.
OkIsSent == \A w \in Workers : Ok(work[w]) => mails[work[w].row] > 0

\* v turns into c: only an INSERT takes it from "log", only the server's answer
\* or the call's own report makes it successful.
Turns(v, c) ==
    /\ Set(v, c)
    /\ work[v].pc = "log" => LogAttempt(v) \/ LogAttemptFails(v)
    /\ Ok(c) => Accept(v) \/ Report(v)

\* What a call turns into as it goes on.
LEMMA ProceedActs ==
    ASSUME Inv, NEW w \in Workers, Proceed(w)
    PROVE  \E c : Turns(w, c)
<1>1. work[w] \in Activity
  BY DEF Inv, Typed, TypeOK
<1>2. CASE LogAttempt(w)
  <2>1. ~Ok([work[w] EXCEPT !.pc = "check", !.row = used + 1])
    BY <1>1 DEF Activity, Ok
  <2> QED BY <1>2, <2>1 DEF Turns, LogAttempt
<1>3. CASE LogAttemptFails(w)
  <2>1. ~Ok([work[w] EXCEPT !.pc = "next"]) /\ ~Ok(Idle)
    BY <1>1, IdleFits DEF Activity, Ok
  <2> QED BY <1>3, <2>1 DEF Turns, LogAttemptFails
<1>4. CASE Processing(w)
  <2>1. ~Ok([work[w] EXCEPT !.pc = "smtp"])
    BY <1>1 DEF Activity, Ok
  <2> QED BY <1>4, <2>1 DEF Turns, Processing, Goto, At
<1>5. CASE CheckFails(w)
  <2>1. ~Ok([work[w] EXCEPT !.pc = "return",
               !.outcome = IF work[w].letter \in suppressed THEN "bounced" ELSE "refused"])
    BY <1>1 DEF Activity, Ok
  <2> QED BY <1>5, <2>1 DEF Turns, CheckFails, At
<1>6. CASE Accept(w)
  BY <1>6 DEF Turns, Accept, At
<1>7. CASE Refuse(w)
  <2>1. ~Ok([work[w] EXCEPT !.tries = work[w].tries + 1]) \/ work[w].pc # "smtp"
    BY <1>1 DEF Activity, Ok
  <2>2. ~Ok([work[w] EXCEPT !.pc = "report", !.outcome = "refused"])
    BY <1>1 DEF Activity, Ok
  <2> QED BY <1>7, <2>1, <2>2 DEF Turns, Refuse, At
<1>8. CASE Bounce(w)
  <2>1. ~Ok([work[w] EXCEPT !.pc = "report", !.outcome = "bounced"])
    BY <1>1 DEF Activity, Ok
  <2> QED BY <1>8, <2>1 DEF Turns, Bounce, At
<1>9. CASE Report(w)
  BY <1>9 DEF Turns, Report, Goto, At
<1>10. CASE ReturnToApp(w) \/ ReturnToPanel(w) \/ LoopEnds(w)
  BY <1>10, IdleFits DEF Turns, ReturnToApp, ReturnToPanel, LoopEnds, At, Ok
<1>11. CASE ReturnToBulk(w)
  <2>1. ~Ok([Idle EXCEPT !.pc = "next", !.by = "bulk", !.todo = work[w].todo])
    BY IdleFits DEF Activity, Ok
  <2> QED BY <1>11, <2>1 DEF Turns, ReturnToBulk, At
<1>12. ASSUME NEW r \in Rows, DeleteAndSend(w, r)
       PROVE  \E c : Turns(w, c)
  <2>1. ~Ok(Call("bulk", log[r].letter, r, work[w].todo \ {r}))
    BY IdleFits DEF Activity, Ok, Call
  <2> QED BY <1>12, <2>1 DEF Turns, DeleteAndSend, At
<1> QED BY <1>2, <1>3, <1>4, <1>5, <1>6, <1>7, <1>8, <1>9, <1>10, <1>11, <1>12 DEF Proceed

\* What any step does to the work: nothing, or a worker's own part of it.
LEMMA Acts ==
    ASSUME Inv, [Next]_vars, ~Restart
    PROVE  UNCHANGED work \/ \E v \in Workers : \E c : Turns(v, c)
<1>1. "job" \in Workers /\ Requests \subseteq Workers
  BY DEF Workers
<1>2. CASE \E w \in Workers : Proceed(w)
  BY <1>2, ProceedActs
<1>3. ASSUME NEW w \in Requests, NEW l \in Letters, Send(w, l)
      PROVE  \E c : Turns(w, c)
  <2>1. ~Ok(Call("app", l, 0, {}))
    BY IdleFits DEF Activity, Ok, Call
  <2> QED BY <1>3, <2>1 DEF Turns, Send, At
<1>4. ASSUME NEW w \in Requests, NEW r \in Rows, RetryEmailLog(w, r)
      PROVE  \E c : Turns(w, c)
  <2>1. ~Ok(Call("panel", log[r].letter, r, {}))
    BY IdleFits DEF Activity, Ok, Call
  <2> QED BY <1>4, <2>1 DEF Turns, RetryEmailLog, At
<1>5. ASSUME NEW w \in Requests, RetryAllFailedEmails(w)
      PROVE  \E c : Turns(w, c)
  <2>1. ~Ok([Idle EXCEPT !.pc = "next", !.by = "bulk", !.todo = Failed])
    BY IdleFits DEF Activity, Ok
  <2> QED BY <1>5, <2>1 DEF Turns, RetryAllFailedEmails, At
<1>6. CASE StartJob
  <2> DEFINE todo == {r \in Rows : Candidate(r)}
  <2>1. ~Ok([Idle EXCEPT !.pc = "next", !.by = "job", !.todo = todo])
    BY IdleFits DEF Activity, Ok
  <2> QED BY <1>1, <1>6, <2>1 DEF Turns, StartJob, At
<1>7. CASE ReturnToJob
  <2>1. ~Ok([Idle EXCEPT !.pc = "next", !.by = "job", !.todo = work["job"].todo])
    BY IdleFits DEF Activity, Ok
  <2> QED BY <1>1, <1>7, <2>1 DEF Turns, ReturnToJob, At
<1>8. ASSUME NEW r \in Rows, MarkRetrying(r)
      PROVE  \E c : Turns("job", c)
  <2>1. ~Ok([work["job"] EXCEPT !.pc = "check", !.letter = log[r].letter, !.row = r,
                                !.todo = work["job"].todo \ {r}])
    BY <1>1 DEF Activity, Ok, Inv, Typed, TypeOK
  <2> QED BY <1>8, <2>1 DEF Turns, MarkRetrying, At
<1>9. CASE RecoverInterruptedRetries \/ (\E r \in Rows : Age(r)) \/ UNCHANGED vars
  BY <1>9 DEF RecoverInterruptedRetries, Age, vars
<1> QED BY <1>1, <1>2, <1>3, <1>4, <1>5, <1>6, <1>7, <1>8, <1>9 DEF Next, JobProceeds

\* No copy is unsent.
LEMMA MailsStay == Inv /\ [Next]_vars => \A r \in Rows : mails'[r] >= mails[r]
<1> SUFFICES ASSUME Inv, [Next]_vars PROVE \A r \in Rows : mails'[r] >= mails[r]
  OBVIOUS
<1>1. ASSUME NEW w \in Workers, ReturnToPanel(w) \/ \E r \in Rows : DeleteAndSend(w, r)
      PROVE  \A r \in Rows : mails'[r] >= mails[r]
  <2>1. UNCHANGED mails /\ mails \in [Rows -> Nat]
    BY <1>1 DEF ReturnToPanel, DeleteAndSend, Inv, Typed, TypeOK
  <2> QED BY <2>1
<1> QED BY <1>1, ProceedEffect, OtherEffect DEF Tame

\* A call that has been told of a success goes on knowing it.
LEMMA OkStep == Inv /\ OkIsSent /\ [Next]_vars => OkIsSent'
<1> SUFFICES ASSUME Inv, OkIsSent, [Next]_vars, NEW w \in Workers, Ok(work'[w])
             PROVE  mails'[work'[w].row] > 0
  BY DEF OkIsSent, Ok
<1>1. mails \in [Rows -> Nat] /\ mails' \in [Rows -> Nat] /\ work \in [Workers -> Activity]
  BY InvStep DEF Inv, Typed, TypeOK
<1>2. ASSUME work'[w].row = work[w].row, Ok(work[w]) PROVE mails'[work'[w].row] > 0
  <2>1. work[w].row \in Rows /\ mails[work[w].row] > 0
    BY <1>2, InHand DEF Ok, Sending, OkIsSent
  <2>2. mails'[work[w].row] >= mails[work[w].row]
    BY <2>1, MailsStay
  <2> QED BY <1>1, <1>2, <2>1, <2>2
<1>3. CASE Restart
  BY <1>3, IdleFits DEF Restart, Ok
<1>4. CASE UNCHANGED work
  BY <1>2, <1>4
<1>5. ASSUME NEW v \in Workers, NEW c, Turns(v, c)
      PROVE  mails'[work'[w].row] > 0
  <2>1. CASE v # w
    BY <1>1, <1>2, <1>5, <2>1 DEF Set, Turns
  <2>2. CASE Accept(w)
    <3>1. Unfinished(work[w]) /\ Copy(w) /\ work[w] \in Activity
          /\ work' = [work EXCEPT ![w] = [work[w] EXCEPT !.pc = "report", !.outcome = "ok"]]
      BY <1>1, <2>2 DEF Accept, At, Unfinished, Set
    <3>2. work'[w].row = work[w].row
      BY <1>1, <3>1 DEF Activity
    <3>3. work[w].row \in Rows /\ log[work[w].row].status # "completed"
      BY <3>1, InHand DEF Unfinished, Sending, Inv, Exclusive
    <3> QED BY <3>1, <3>2, <3>3, CopyEffect
  <2>3. CASE Report(w)
    <3>1. work[w] \in Activity /\ work[w].pc = "report"
          /\ work' = [work EXCEPT ![w] = [work[w] EXCEPT !.pc = "return"]]
      BY <1>1, <2>3 DEF Report, At, Goto, Set
    <3>2. work'[w].row = work[w].row /\ work'[w].outcome = work[w].outcome
      BY <1>1, <3>1 DEF Activity
    <3> QED BY <1>2, <3>1, <3>2 DEF Ok
  <2>4. v = w => work'[w] = c
    BY <1>1, <1>5 DEF Set, Turns
  <2> QED BY <1>5, <2>1, <2>2, <2>3, <2>4 DEF Turns
<1> QED BY <1>3, <1>4, <1>5, Acts

\* Only the first row of a letter makes it one that was logged.
LEMMA AskedStep == [Next]_vars => UNCHANGED asked \/ \E w \in Workers : LogAttempt(w)
<1> SUFFICES ASSUME [Next]_vars PROVE UNCHANGED asked \/ \E w \in Workers : LogAttempt(w)
  OBVIOUS
<1>1. "job" \in Workers /\ Requests \subseteq Workers
  BY DEF Workers
<1>2. CASE \E w \in Workers : Proceed(w)
  <2>1. PICK w \in Workers : Proceed(w)
    BY <1>2
  <2>2. CASE LogAttempt(w)
    BY <2>2
  <2>3. CASE LogAttemptFails(w) \/ Processing(w) \/ CheckFails(w) \/ Accept(w) \/ Refuse(w)
    BY <2>3 DEF LogAttemptFails, Processing, CheckFails, Accept, Refuse
  <2>4. CASE Bounce(w) \/ Report(w) \/ ReturnToApp(w) \/ ReturnToPanel(w)
    BY <2>4 DEF Bounce, Report, ReturnToApp, ReturnToPanel
  <2>5. CASE ReturnToBulk(w) \/ LoopEnds(w) \/ \E r \in Rows : DeleteAndSend(w, r)
    BY <2>5 DEF ReturnToBulk, LoopEnds, DeleteAndSend
  <2> QED BY <2>1, <2>2, <2>3, <2>4, <2>5 DEF Proceed
<1>3. CASE ~\E w \in Workers : Proceed(w)
  BY <1>1, <1>3 DEF Next, JobProceeds, Send, RetryEmailLog, RetryAllFailedEmails, StartJob, ReturnToJob,
              MarkRetrying, Restart, RecoverInterruptedRetries, Age, vars
<1> QED BY <1>2, <1>3

\* Whether a letter is still there to be found.
Found(l) ==
    \/ Delivered(l)
    \/ \E r \in RowsOf(l) : log[r].status # "deleted"
    \/ \E w \in Requests : At(w, "log") /\ work[w].by = "bulk" /\ work[w].letter = l

\* A row with a letter is in use and keeps it.
LEMMA LetterStays ==
    ASSUME Inv, [Next]_vars, NEW l \in Letters, NEW r \in RowsOf(l)
    PROVE  r \in 1..used /\ r \in RowsOf(l)'
<1>1. Grows /\ r \in Rows /\ log[r].letter = l
  BY InvStep DEF RowsOf
<1>2. log[r].status # "unused" \/ r \in 1..used
  BY <1>1, EmailOutboxAssumption DEF Inv, Typed, TypeOK, Filled, Unused, NoLetter, Rows
<1>3. r \in 1..used
  BY <1>1, <1>2, FailedFits DEF Inv
<1> QED BY <1>1, <1>3 DEF Grows, RowsOf

\* A delivered letter stays delivered.
LEMMA DeliveredStays ==
    ASSUME Inv, [Next]_vars, NEW l \in Letters, Delivered(l) PROVE Delivered(l)'
<1>1. PICK r \in RowsOf(l) : mails[r] > 0
  BY DEF Delivered
<1>2. r \in Rows /\ r \in RowsOf(l)' /\ mails'[r] >= mails[r]
  BY LetterStays, MailsStay DEF RowsOf
<1>3. mails[r] \in Nat /\ mails'[r] \in Nat
  BY <1>2, InvStep DEF Inv, Typed, TypeOK
<1>4. mails'[r] > 0
  BY <1>1, <1>2, <1>3
<1> QED BY <1>2, <1>4 DEF Delivered

\* A new row is found under its letter.
LEMMA LoggedIsFound ==
    ASSUME Inv, NEW w \in Workers, LogAttempt(w), NEW l, l = work[w].letter PROVE Found(l)'
<1>1. used + 1 \in Rows /\ log \in [Rows -> Row]
  BY EmailOutboxAssumption DEF LogAttempt, Inv, Typed, TypeOK, Rows
<1>2. log'[used + 1] = [Unused EXCEPT !.letter = work[w].letter, !.status = "pending"]
  BY <1>1 DEF LogAttempt
<1>3. log'[used + 1].letter = l /\ log'[used + 1].status = "pending"
  BY <1>2 DEF Unused
<1> QED BY <1>1, <1>3 DEF Found, RowsOf

\* What was found is found after a step, when nothing interrupts a bulk retry.
LEMMA FoundStays ==
    ASSUME Inv, OkIsSent, [Next]_vars, "midbulk" \notin Env, NEW l \in Letters, Found(l)
    PROVE  Found(l)'
<1>1. CASE Delivered(l)
  BY <1>1, DeliveredStays DEF Found
<1>2. ASSUME NEW r \in RowsOf(l), log[r].status # "deleted" PROVE Found(l)'
  <2>1. r \in Rows /\ r \in RowsOf(l)' /\ log[r].letter = l
    BY LetterStays DEF RowsOf
  <2>2. CASE Tame
    BY <1>2, <2>1, <2>2 DEF Tame, Found
  <2>3. ASSUME NEW w \in Workers, ReturnToPanel(w) PROVE Found(l)'
    <3>1. CASE work[w].outcome = "ok" /\ log' = Mark(work[w].old, "deleted")
      <4>1. work[w].old \in Rows /\ work[w].row \in Rows /\ mails[work[w].row] > 0
        BY <2>3, <3>1, InHand, EmailOutboxAssumption
           DEF ReturnToPanel, At, Ok, OkIsSent, Sending, Inv, Typed, TypeOK, Fits, Rows
      <4>2. CASE work[w].old = r
        <5>1. log[work[w].row].letter = l
          BY <2>1, <2>3, <4>2 DEF ReturnToPanel, At, Sending, Inv, Typed, Fits
        <5>2. Delivered(l)
          BY <4>1, <5>1 DEF Delivered, RowsOf
        <5> QED BY <5>2, DeliveredStays DEF Found
      <4>3. CASE work[w].old # r
        <5>1. log'[r] = log[r]
          BY <2>1, <2>3, <3>1, <4>1, <4>3, DeleteEffect DEF ReturnToPanel
        <5> QED BY <1>2, <2>1, <5>1 DEF Found
      <4> QED BY <4>2, <4>3
    <3>2. CASE log' = log
      BY <1>2, <2>1, <3>2 DEF Found
    <3> QED BY <2>3, <3>1, <3>2 DEF ReturnToPanel
  <2>4. ASSUME NEW w \in Workers, NEW s \in Rows, DeleteAndSend(w, s) PROVE Found(l)'
    <3>1. CASE s = r
      <4> DEFINE c == Call("bulk", log[r].letter, r, work[w].todo \ {r})
      <4>1. work' = [work EXCEPT ![w] = c] /\ w \in Requests /\ work \in [Workers -> Activity]
        BY <2>4, <3>1 DEF DeleteAndSend, Set, Inv, Typed, TypeOK, Workers
      <4>2. c.pc = "log" /\ c.by = "bulk" /\ c.letter = l
        BY <2>1, IdleFits DEF Call, Activity
      <4> HIDE DEF c
      <4>3. work'[w] = c
        BY <4>1 DEF Workers
      <4> QED BY <4>1, <4>2, <4>3 DEF Found, At
    <3>2. CASE s # r
      <4>1. log'[r] = log[r]
        BY <2>1, <2>4, <3>2, DeleteEffect DEF DeleteAndSend
      <4> QED BY <1>2, <2>1, <4>1 DEF Found
    <3> QED BY <3>1, <3>2
  <2> QED BY <2>2, <2>3, <2>4, ProceedEffect, OtherEffect
<1>3. ASSUME NEW w \in Requests, At(w, "log"), work[w].by = "bulk", work[w].letter = l PROVE Found(l)'
  <2>1. work \in [Workers -> Activity] /\ w \in Workers
    BY DEF Inv, Typed, TypeOK, Workers
  <2>2. CASE work'[w] = work[w]
    BY <1>3, <2>2 DEF Found, At
  <2>3. ~Restart /\ ~LogAttemptFails(w)
    BY <1>3 DEF Restart, LogAttemptFails
  <2>4. CASE LogAttempt(w)
    BY <1>3, <2>1, <2>4, LoggedIsFound
  <2>5. ASSUME NEW v \in Workers, NEW c, Turns(v, c) PROVE work'[w] = work[w] \/ LogAttempt(w)
    BY <1>3, <2>1, <2>3, <2>5 DEF Turns, Set, At
  <2> QED BY <2>2, <2>3, <2>4, <2>5, Acts
<1> QED BY <1>1, <1>2, <1>3 DEF Found

\* A letter that was logged and not delivered has a row on the log, or a replay
\* that deleted its row is about to insert another, unless the process may be
\* killed, or the INSERT fail, between the two statements of the bulk retry:
\* the panel deletes the old row of a replay only after a success.
THEOREM LoggedLettersStay ==
    ASSUME "midbulk" \notin Env PROVE Spec => []NothingVanishes
<1> DEFINE Held == OkIsSent /\ \A l \in asked : Found(l)
<1>1. Init => Held
  <2>1. Init => asked = {} /\ work = [w \in Workers |-> Idle]
    BY DEF Init
  <2> QED BY <2>1, IdleFits DEF OkIsSent, Ok
<1>2. Inv /\ Held /\ [Next]_vars => Held'
  <2> SUFFICES ASSUME Inv, Held, [Next]_vars PROVE Held'
    OBVIOUS
  <2>1. OkIsSent'
    BY OkStep
  <2>2. ASSUME NEW l \in asked' PROVE Found(l)'
    <3>1. CASE l \in asked
      <4>1. l \in Letters /\ Found(l)
        BY <3>1 DEF Inv, Typed, TypeOK
      <4> QED BY <4>1, FoundStays
    <3>2. CASE l \notin asked
      <4>1. PICK w \in Workers : LogAttempt(w)
        BY <3>2, AskedStep
      <4>2. l = work[w].letter
        BY <3>2, <4>1 DEF LogAttempt
      <4> QED BY <4>1, <4>2, LoggedIsFound
    <3> QED BY <3>1, <3>2
  <2> QED BY <2>1, <2>2
<1>3. Held => NothingVanishes
  BY DEF Found, NothingVanishes
<1> HIDE DEF Held
<1> QED BY <1>1, <1>2, <1>3, InvIsInvariant, PTL DEF Spec

==============================================================================
