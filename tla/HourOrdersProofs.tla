--------------------------- MODULE HourOrdersProofs ---------------------------
(***************************************************************************)
(* Proofs about HourOrders, for any number of requests, staff, orders and  *)
(* mishaps: its type invariant, and that an order is credited once, before *)
(* its invoice, and its invoice issued once.                               *)
(***************************************************************************)
EXTENDS HourOrders, TLAPS

(***************************************************************************)
(* The inductive invariant.                                                *)
(***************************************************************************)

\* The form holds the newest order; only a changed form has an older key.
FormIsNewest ==
    /\ form.order = last /\ form.key <= form.order
    /\ form.waiting # "nobody" => form.order <= MaxOrders
    /\ form.key = form.order \/ form.order \in reused

\* A call knows what it is about, and the one the form waits for is about the form.
CallsKnow ==
    /\ \A c \in Callers : ~At(c, "idle") => Key(c) \in Numbers
    /\ \A c \in Callers : At(c, "credit") => calls[c].order \in Numbers
    /\ \A c \in Requests : form.waiting = c =>
          ~At(c, "idle") /\ Key(c) = form.key /\ calls[c].order = form.order

Typed == TypeOK /\ FormIsNewest /\ CallsKnow

\* An order went out under the key the form has, or had when it was newest.
Known(sent) ==
    /\ sent.key <= sent.order /\ sent.order <= last
    /\ sent.order = last => sent.key = form.key

OneKeyEach ==
    /\ \A row \in ledger : Known(row)
    /\ \A c \in Callers : At(c, "credit") => Known(Row(c))
    /\ \A row, other \in ledger : row.order = other.order => row.key = other.key
    /\ \A c \in Callers, row \in ledger :
          At(c, "credit") /\ calls[c].order = row.order => Key(c) = row.key
    /\ \A c, d \in Callers :
          At(c, "credit") /\ At(d, "credit") /\ calls[c].order = calls[d].order => Key(c) = Key(d)

\* Past the credit there is a credit.
Credits ==
    /\ CreditComesFirst
    /\ \A c \in Callers :
          calls[c].pc \in {"rate", "insert", "push", "mail", "answer"} => Credited(Key(c))

\* Only the call that inserted an invoice pushes and mails it.
Issuing(c) == calls[c].pc \in {"push", "mail"}
Issues ==
    /\ \A k \in Numbers \ invoices : pushes[k] = 0 /\ mails[k] = 0
    /\ \A c \in Callers : Issuing(c) => Key(c) \in invoices /\ mails[Key(c)] = 0
    /\ \A c \in Callers : At(c, "push") => pushes[Key(c)] = 0
    /\ \A c, d \in Callers : c # d /\ Issuing(c) /\ Issuing(d) => Key(c) # Key(d)
    /\ IssuedOnce

Inv == Typed /\ OneKeyEach /\ Credits /\ Issues

(***************************************************************************)
(* Types.                                                                  *)
(***************************************************************************)

\* A call may become any other.
LEMMA CallsStayCalls ==
    ASSUME calls \in [Callers -> Call], NEW c, NEW call \in Call,
           calls' = [calls EXCEPT ![c] = call]
    PROVE  calls' \in [Callers -> Call]
  OBVIOUS

\* A call that is over is one, too.
LEMMA IdleIsCall == Idle \in Call
  BY HourOrdersAssumption DEF Idle, Call

\* A call that moves on keeps the types and what it is about.
LEMMA GotoKeepsCalls ==
    ASSUME Typed, NEW c \in Callers, ~At(c, "idle"), UNCHANGED <<form, last, reused>>,
           NEW pc \in {"rate", "insert", "push", "mail", "answer"}, Goto(c, pc)
    PROVE  /\ calls' \in [Callers -> Call]
           /\ FormIsNewest' /\ CallsKnow'
  BY DEF Typed, TypeOK, Call, FormIsNewest, CallsKnow, Goto, At, Key, Callers

\* Every step keeps the types.
LEMMA TypeStep == Typed /\ [Next]_vars => Typed'
<1> SUFFICES ASSUME Typed, [Next]_vars PROVE Typed'
  OBVIOUS
<1> USE HourOrdersAssumption
<1> DEFINE Rest == /\ ledger \subseteq [key : Numbers, order : Numbers]
                   /\ \A row, other \in ledger : row.key = other.key => row = other
<1>1. ASSUME NEW c \in Requests, Submit(c) PROVE Typed'
  <2>1. /\ calls'[c] = [pc |-> "credit", key |-> form.key, order |-> form.order]
        /\ \A d \in Callers : d # c => calls'[d] = calls[d]
        /\ form' = [form EXCEPT !.waiting = c, !.sent = TRUE] /\ c \in Callers
    BY <1>1 DEF Submit, Typed, TypeOK, Callers
  <2>2. form.key \in Numbers /\ form.order \in Numbers
    BY <1>1 DEF Submit, Typed, TypeOK, FormIsNewest, Numbers
  <2>3. form'.waiting = c /\ form'.key = form.key /\ form'.order = form.order
    BY <2>1 DEF Typed, TypeOK
  <2>4. CallsKnow'
    BY <2>1, <2>2, <2>3 DEF Typed, CallsKnow, At, Key, Callers
  <2>5. calls' = [calls EXCEPT ![c] = [pc |-> "credit", key |-> form.key, order |-> form.order]]
    BY <1>1 DEF Submit
  <2>6. [pc |-> "credit", key |-> form.key, order |-> form.order] \in Call
    BY <2>2 DEF Call, Numbers
  <2>7. FormIsNewest' /\ form' \in [order : 1..(MaxOrders + 1), key : 1..(MaxOrders + 1),
                                    sent : BOOLEAN, waiting : Requests \union {"nobody"}]
    BY <1>1, <2>1 DEF Submit, Typed, TypeOK, FormIsNewest, history
  <2>8. calls' \in [Callers -> Call]
    BY <2>5, <2>6, CallsStayCalls DEF Typed, TypeOK
  <2> QED BY <1>1, <2>4, <2>7, <2>8 DEF Submit, Typed, TypeOK, history
<1>2. CASE LoseAnswer
  BY <1>2 DEF Typed, TypeOK, FormIsNewest, CallsKnow, LoseAnswer, At, Key, history
<1>3. CASE Edit
  BY <1>3 DEF Typed, TypeOK, FormIsNewest, CallsKnow, Edit, At, Key
<1>4. CASE Reopen
  BY <1>4 DEF Typed, TypeOK, FormIsNewest, CallsKnow, Reopen, Blank, At, Key, history
<1>5. ASSUME NEW c \in Callers, Credit(c) PROVE Typed'
  <2>1. FormIsNewest' /\ CallsKnow' /\ ~At(c, "idle") /\ mishaps' \in 0..MaxMishaps
        /\ calls' \in [Callers -> Call]
    BY <1>5, GotoKeepsCalls DEF Credit, Typed, TypeOK, At, history, Mishap
  <2>2. Rest'
    BY <1>5 DEF Typed, TypeOK, CallsKnow, Credit, Credited, Row, At, Key
  <2> QED BY <1>5, <2>1, <2>2 DEF Typed, TypeOK, Credit, history
<1>6. ASSUME NEW c \in Callers, CreditFails(c) PROVE Typed'
  <2>1. calls' \in [Callers -> Call]
    BY <1>6, IdleIsCall, CallsStayCalls DEF CreditFails, Typed, TypeOK
  <2> QED BY <1>6, <2>1
          DEF Typed, TypeOK, FormIsNewest, CallsKnow, CreditFails, At, Key, Idle, Callers, history, Mishap
<1>7. ASSUME NEW c \in Callers, Rate(c) PROVE Typed'
  BY <1>7, GotoKeepsCalls DEF Rate, Typed, TypeOK, At, history
<1>8. ASSUME NEW c \in Callers, InsertInvoice(c) PROVE Typed'
  <2>1. FormIsNewest' /\ CallsKnow' /\ Key(c) \in Numbers
        /\ calls' \in [Callers -> Call]
    BY <1>8, GotoKeepsCalls DEF InsertInvoice, Typed, CallsKnow, At, history
  <2> QED BY <1>8, <2>1 DEF Typed, TypeOK, InsertInvoice, history, Mishap
<1>9. ASSUME NEW c \in Callers, Push(c) \/ Mail(c) PROVE Typed'
  <2>1. FormIsNewest' /\ CallsKnow' /\ Key(c) \in Numbers
        /\ calls' \in [Callers -> Call]
    BY <1>9, GotoKeepsCalls DEF Push, Mail, Typed, CallsKnow, At
  <2>2. pushes' \in [Numbers -> Nat] /\ mails' \in [Numbers -> Nat] /\ mishaps' \in 0..MaxMishaps
    BY <1>9, <2>1 DEF Typed, TypeOK, Push, Mail, Mishap
  <2> QED BY <1>9, <2>1, <2>2 DEF Typed, TypeOK, Push, Mail
<1>10. ASSUME NEW c \in Callers, Answer(c) PROVE Typed'
  <2>1. calls' \in [Callers -> Call]
    BY <1>10, IdleIsCall, CallsStayCalls DEF Answer, Typed, TypeOK
  <2>2. /\ calls'[c] = Idle /\ \A d \in Callers : d # c => calls'[d] = calls[d]
    BY <1>10 DEF Typed, TypeOK, Answer
  <2>3. CASE form.waiting = c
    <3>1. form.waiting # "nobody"
      BY <2>3 DEF Callers
    <3>2. form' = Blank /\ last' = last + 1 /\ c \in Requests /\ last \in Numbers
      BY <1>10, <2>3, <3>1 DEF Answer, Typed, TypeOK, FormIsNewest, Numbers
    <3>3. CallsKnow'
      BY <2>2, <3>2 DEF Typed, CallsKnow, At, Key, Idle, Blank
    <3>4. calls[c].order = form.order
      BY <2>3, <3>2 DEF Typed, CallsKnow
    <3>5. /\ FormIsNewest' /\ last' \in 1..(MaxOrders + 1)
          /\ form' \in [order : 1..(MaxOrders + 1), key : 1..(MaxOrders + 1),
                        sent : BOOLEAN, waiting : Requests \union {"nobody"}]
      BY <3>2 DEF Blank, FormIsNewest, Numbers
    <3>6. answered' \subseteq Numbers
      BY <1>10, <2>3, <3>2, <3>4 DEF Answer, Typed, TypeOK, FormIsNewest
    <3> QED BY <1>10, <2>1, <3>3, <3>5, <3>6 DEF Answer, Typed, TypeOK
  <2>4. CASE form.waiting # c
    <3>1. CallsKnow'
      BY <1>10, <2>2, <2>4 DEF Answer, Typed, TypeOK, CallsKnow, At, Key, Idle
    <3> QED BY <1>10, <2>1, <2>4, <3>1 DEF Answer, Typed, TypeOK, FormIsNewest
  <2> QED BY <2>3, <2>4
<1>11. ASSUME NEW c \in Staff, NEW k \in Numbers, Reissue(c, k) PROVE Typed'
  <2>1. /\ calls'[c] = [pc |-> "rate", key |-> k, order |-> 0]
        /\ \A q \in Callers : q # c => calls'[q] = calls[q]
        /\ \A q \in Requests : calls'[q] = calls[q]
    BY <1>11 DEF Typed, TypeOK, Reissue, Callers
  <2>2. CallsKnow'
    BY <1>11, <2>1 DEF Typed, TypeOK, CallsKnow, Reissue, At, Key
  <2>3. [pc |-> "rate", key |-> k, order |-> 0] \in Call
    BY DEF Call, Numbers
  <2>4. calls' \in [Callers -> Call]
    BY <1>11, <2>3, CallsStayCalls DEF Typed, TypeOK, Reissue
  <2> QED BY <1>11, <2>2, <2>4 DEF Typed, TypeOK, FormIsNewest, Reissue, history
<1>12. CASE BnrSync
  BY <1>12 DEF Typed, TypeOK, FormIsNewest, CallsKnow, BnrSync, At, Key, history
<1>13. CASE Crash
  BY <1>13, IdleIsCall DEF Typed, TypeOK, FormIsNewest, CallsKnow, Crash, At, Key, Idle, history, Mishap
<1>14. CASE UNCHANGED vars
  BY <1>14 DEF Typed, TypeOK, FormIsNewest, CallsKnow, At, Key, vars, history
<1> QED BY <1>1, <1>2, <1>3, <1>4, <1>5, <1>6, <1>7, <1>8, <1>9, <1>10, <1>11, <1>12, <1>13, <1>14
        DEF Next, Proceed

(***************************************************************************)
(* Orders and keys.                                                        *)
(***************************************************************************)

\* A call that leaves the credit, or never was at it, disturbs no order.
LEMMA LeavingKeepsKeys ==
    ASSUME OneKeyEach, UNCHANGED <<form, last, ledger>>,
           \A c \in Callers : At(c, "credit")' => calls'[c] = calls[c]
    PROVE  OneKeyEach'
  BY DEF OneKeyEach, Known, At, Key, Row

\* Every step keeps one key to an order.
LEMMA KeysStep == Typed /\ OneKeyEach /\ [Next]_vars => OneKeyEach'
<1> SUFFICES ASSUME Typed, OneKeyEach, [Next]_vars PROVE OneKeyEach'
  OBVIOUS
<1> USE HourOrdersAssumption DEF Call
<1>1. ASSUME NEW c \in Requests, Submit(c) PROVE OneKeyEach'
  <2>1. /\ c \in Callers /\ calls'[c] = [pc |-> "credit", key |-> form.key, order |-> last]
        /\ \A d \in Callers : d # c => calls'[d] = calls[d]
        /\ UNCHANGED <<last, ledger>> /\ form'.key = form.key
    BY <1>1 DEF Submit, Typed, TypeOK, FormIsNewest, Callers
  <2>2. form.key <= last /\ last \in Nat
    BY DEF Typed, TypeOK, FormIsNewest
  <2>3. \A d \in Callers : At(d, "credit")' =>
            IF d = c THEN Row(d)' = [key |-> form.key, order |-> last] ELSE At(d, "credit") /\ Row(d)' = Row(d)
    BY <2>1 DEF At, Row, Key
  <2> QED BY <2>1, <2>2, <2>3 DEF OneKeyEach, Known, At, Key, Row
<1>2. CASE LoseAnswer \/ Crash
  <2>1. /\ form'.key = form.key /\ UNCHANGED <<last, ledger>>
        /\ \A c \in Callers : At(c, "credit")' => calls'[c] = calls[c]
    BY <1>2 DEF LoseAnswer, Crash, Typed, TypeOK, At, Idle, history
  <2> QED BY <2>1 DEF OneKeyEach, Known, At, Key, Row
<1>3. CASE Edit \/ Reopen
  <2>1. last' = last + 1 /\ last \in Nat /\ UNCHANGED <<calls, ledger>>
    BY <1>3 DEF Edit, Reopen, Typed, TypeOK
  <2>2. /\ \A row \in ledger : row.order \in Nat
        /\ \A c \in Callers : calls[c].order \in Nat
    BY DEF Typed, TypeOK, Numbers
  <2> QED BY <2>1, <2>2 DEF OneKeyEach, Known, At, Key, Row
<1>4. ASSUME NEW c \in Callers, Credit(c) PROVE OneKeyEach'
  <2>1. /\ UNCHANGED <<form, last>> /\ At(c, "credit") /\ ~At(c, "credit")'
        /\ \A d \in Callers : At(d, "credit")' => d # c /\ calls'[d] = calls[d] /\ At(d, "credit")
        /\ ledger' \in {ledger, ledger \union {Row(c)}}
    BY <1>4 DEF Credit, Goto, At, Typed, TypeOK
  <2>2. Row(c).order = calls[c].order /\ Row(c).key = Key(c)
    BY DEF Row
  <2> QED BY <2>1, <2>2 DEF OneKeyEach, Known, At, Key, Row
<1>5. ASSUME NEW c \in Callers, CreditFails(c) PROVE OneKeyEach'
  <2>1. /\ form'.key = form.key /\ UNCHANGED <<last, ledger>>
        /\ \A d \in Callers : At(d, "credit")' => calls'[d] = calls[d]
    BY <1>5 DEF CreditFails, Typed, TypeOK, At, Idle
  <2> QED BY <2>1 DEF OneKeyEach, Known, At, Key, Row
<1>6. ASSUME NEW c \in Callers, Rate(c) \/ InsertInvoice(c) \/ Push(c) \/ Mail(c) PROVE OneKeyEach'
  BY <1>6, LeavingKeepsKeys DEF Rate, InsertInvoice, Push, Mail, Goto, At, Typed, TypeOK
<1>7. ASSUME NEW c \in Callers, Answer(c) PROVE OneKeyEach'
  <2>1. \A d \in Callers : At(d, "credit")' => calls'[d] = calls[d]
    BY <1>7 DEF Answer, Typed, TypeOK, At, Idle
  <2>2. CASE form.waiting = c
    <3>1. last' = last + 1 /\ last \in Nat /\ UNCHANGED ledger
      BY <1>7, <2>2 DEF Answer, Typed, TypeOK
    <3>2. /\ \A row \in ledger : row.order \in Nat
          /\ \A d \in Callers : calls[d].order \in Nat
      BY DEF Typed, TypeOK, Numbers
    <3> QED BY <2>1, <3>1, <3>2 DEF OneKeyEach, Known, At, Key, Row
  <2>3. CASE form.waiting # c
    BY <1>7, <2>1, <2>3, LeavingKeepsKeys DEF Answer
  <2> QED BY <2>2, <2>3
<1>8. ASSUME NEW c \in Staff, NEW k \in Numbers, Reissue(c, k) PROVE OneKeyEach'
  BY <1>8, LeavingKeepsKeys DEF Reissue, At, Typed, TypeOK, Callers
<1>9. CASE BnrSync \/ UNCHANGED vars
  BY <1>9, LeavingKeepsKeys DEF BnrSync, vars
<1> QED BY <1>1, <1>2, <1>3, <1>4, <1>5, <1>6, <1>7, <1>8, <1>9 DEF Next, Proceed

(***************************************************************************)
(* Credits and invoices.                                                   *)
(***************************************************************************)

\* Every step keeps the credit before whatever follows it.
LEMMA CreditsStep == Typed /\ OneKeyEach /\ Credits /\ [Next]_vars => Credits'
<1> SUFFICES ASSUME Typed, OneKeyEach, Credits, [Next]_vars PROVE Credits'
  OBVIOUS
<1> USE HourOrdersAssumption DEF Call
<1> DEFINE Past(c) == calls[c].pc \in {"rate", "insert", "push", "mail", "answer"}
<1>1. ASSUME NEW c \in Requests, Submit(c) PROVE Credits'
  <2>1. \A d \in Callers : Past(d)' => Past(d) /\ calls'[d] = calls[d]
    BY <1>1 DEF Submit, Typed, TypeOK, Callers
  <2> QED BY <1>1, <2>1 DEF Submit, Credits, CreditComesFirst, Credited, Key, history
<1>2. CASE LoseAnswer \/ Edit \/ Reopen
  BY <1>2 DEF LoseAnswer, Edit, Reopen, Credits, CreditComesFirst, Credited, Key, history
<1>3. ASSUME NEW c \in Callers, Credit(c) PROVE Credits'
  <2>1. \E pc : Goto(c, pc)
    BY <1>3 DEF Credit
  <2>2. /\ \A d \in Callers : d # c => calls'[d] = calls[d]
        /\ calls'[c].key = calls[c].key
    BY <2>1 DEF Goto, Typed, TypeOK
  <2>3. /\ UNCHANGED <<invoices, answered, reused>> /\ ledger \subseteq ledger'
        /\ \E row \in ledger' : row.key = Key(c)
    <3>1. UNCHANGED <<invoices, answered, reused>>
      BY <1>3 DEF Credit, history
    <3>2. CASE Credited(Key(c))
      BY <1>3, <3>1, <3>2 DEF Credit, Credited
    <3>3. CASE ~Credited(Key(c))
      <4>1. ledger' = ledger \union {Row(c)} /\ Row(c).key = Key(c)
        BY <1>3, <3>3 DEF Credit, Row
      <4> QED BY <3>1, <4>1
    <3> QED BY <3>2, <3>3
  <2>4. /\ \A d \in Callers : d # c => calls'[d] = calls[d]
        /\ Key(c)' = Key(c) /\ UNCHANGED <<invoices, answered, reused>>
        /\ ledger \subseteq ledger' /\ Credited(Key(c))'
    BY <2>2, <2>3 DEF Key, Credited
  <2>5. \A k : Credited(k) => Credited(k)'
    BY <2>4 DEF Credited
  <2>6. CreditComesFirst'
    BY <2>4, <2>5 DEF Credits, CreditComesFirst
  <2>7. \A d \in Callers : Past(d)' => Credited(Key(d))'
    BY <2>4, <2>5 DEF Credits, Key, Credited
  <2> QED BY <2>6, <2>7 DEF Credits
<1>4. ASSUME NEW c \in Callers, CreditFails(c) PROVE Credits'
  <2>1. \A d \in Callers : Past(d)' => Past(d) /\ calls'[d] = calls[d]
    BY <1>4 DEF CreditFails, Idle, Typed, TypeOK
  <2> QED BY <1>4, <2>1 DEF CreditFails, Credits, CreditComesFirst, Credited, Key, history
<1>5. ASSUME NEW c \in Callers, Rate(c) \/ InsertInvoice(c) \/ Push(c) \/ Mail(c) PROVE Credits'
  <2>1. /\ \A d \in Callers : Past(d)' => Past(d) /\ Key(d)' = Key(d)
        /\ UNCHANGED <<ledger, answered, reused>> /\ Past(c)
    BY <1>5 DEF Rate, InsertInvoice, Push, Mail, At, Goto, Key, Typed, TypeOK, history
  <2>2. invoices' \subseteq invoices \union {Key(c)}
    BY <1>5 DEF Rate, InsertInvoice, Push, Mail
  <2> QED BY <2>1, <2>2 DEF Credits, CreditComesFirst, Credited
<1>6. ASSUME NEW c \in Callers, Answer(c) PROVE Credits'
  <2>1. /\ \A d \in Callers : Past(d)' => Past(d) /\ calls'[d] = calls[d]
        /\ UNCHANGED <<ledger, invoices, reused>>
    BY <1>6 DEF Answer, Idle, Typed, TypeOK
  <2>2. CASE form.waiting = c
    <3>1. c \in Requests /\ answered' = answered \union {last} /\ Key(c) = form.key
      <4>1. c \in Requests
        BY <2>2 DEF Typed, TypeOK, Callers
      <4>2. Key(c) = form.key /\ calls[c].order = form.order /\ form.order = last
        BY <2>2, <4>1 DEF Typed, CallsKnow, FormIsNewest
      <4>3. answered' = answered \union {calls[c].order}
        BY <1>6, <2>2 DEF Answer
      <4> QED BY <4>1, <4>2, <4>3
    <3>2. PICK row \in ledger : row.key = form.key
      BY <1>6, <3>1 DEF Answer, At, Credits, Credited
    <3>3. last \in reused \/ row.order = last
      <4>1. CASE form.key = last
        BY <3>2, <4>1 DEF OneKeyEach, Known, Typed, TypeOK, Numbers
      <4>2. CASE form.key # last
        BY <4>2 DEF Typed, FormIsNewest
      <4> QED BY <4>1, <4>2
    <3> QED BY <2>1, <3>1, <3>2, <3>3 DEF Credits, CreditComesFirst, Credited, Key
  <2>3. CASE form.waiting # c
    BY <1>6, <2>1, <2>3 DEF Answer, Credits, CreditComesFirst, Credited, Key
  <2> QED BY <2>2, <2>3
<1>7. ASSUME NEW c \in Staff, NEW k \in Numbers, Reissue(c, k) PROVE Credits'
  <2>1. /\ calls'[c].key = k /\ Credited(k)
        /\ \A d \in Callers : d # c => calls'[d] = calls[d]
    BY <1>7 DEF Reissue, Listed, Typed, TypeOK, Callers
  <2> QED BY <1>7, <2>1 DEF Reissue, Credits, CreditComesFirst, Credited, Key, history
<1>8. CASE BnrSync \/ UNCHANGED vars
  BY <1>8 DEF BnrSync, vars, Credits, CreditComesFirst, Credited, Key, history
<1>9. CASE Crash
  BY <1>9 DEF Crash, Idle, Credits, CreditComesFirst, Credited, Key, history
<1> QED BY <1>1, <1>2, <1>3, <1>4, <1>5, <1>6, <1>7, <1>8, <1>9 DEF Next, Proceed

\* Every step keeps an invoice with the call that inserted it.
LEMMA IssuesStep == Typed /\ Issues /\ [Next]_vars => Issues'
<1> SUFFICES ASSUME Typed, Issues, [Next]_vars PROVE Issues'
  OBVIOUS
<1> USE HourOrdersAssumption DEF Call
\* Steps after which no other call issues than before.
<1> DEFINE NoNewIssuer == /\ \A d \in Callers : Issuing(d)' => calls'[d] = calls[d]
                          /\ UNCHANGED <<invoices, pushes, mails>>
<1>1. NoNewIssuer => Issues'
  BY DEF Issues, IssuedOnce, Issuing, At, Key
<1>2. ASSUME NEW c \in Requests, Submit(c) PROVE Issues'
  BY <1>1, <1>2 DEF Submit, Issuing, Typed, TypeOK, Callers, history
<1>3. CASE LoseAnswer \/ Edit \/ Reopen \/ BnrSync \/ UNCHANGED vars
  BY <1>1, <1>3 DEF LoseAnswer, Edit, Reopen, BnrSync, vars, history
<1>4. CASE Crash
  BY <1>1, <1>4 DEF Crash, Idle, Issuing, history
<1>5. ASSUME NEW c \in Callers, Credit(c) \/ CreditFails(c) \/ Rate(c) \/ Answer(c) PROVE Issues'
  BY <1>1, <1>5 DEF Credit, CreditFails, Rate, Answer, Goto, Idle, Issuing, Typed, TypeOK, history
<1>6. ASSUME NEW c \in Callers, InsertInvoice(c) PROVE Issues'
  <2>1. CASE Key(c) \notin invoices /\ invoices' = invoices \union {Key(c)}
             /\ (Goto(c, "push") \/ Goto(c, "answer"))
    <3>1. /\ \A d \in Callers : Key(d)' = Key(d)
          /\ \A d \in Callers : d # c => calls'[d] = calls[d]
          /\ UNCHANGED <<pushes, mails>> /\ Key(c) \in Numbers
      BY <1>6, <2>1 DEF InsertInvoice, Goto, Key, At, Typed, TypeOK, CallsKnow, history
    <3>2. pushes[Key(c)] = 0 /\ mails[Key(c)] = 0
      BY <2>1, <3>1 DEF Issues
    <3>3. \A d \in Callers : Issuing(d) => Key(d) # Key(c)
      BY <2>1 DEF Issues
    <3> QED BY <2>1, <3>1, <3>2, <3>3 DEF Issues, IssuedOnce, Issuing, At, Key
  <2>2. CASE Goto(c, "answer") /\ UNCHANGED invoices
    BY <1>1, <1>6, <2>2 DEF InsertInvoice, Goto, Issuing, Typed, TypeOK, history
  <2> QED BY <1>6, <2>1, <2>2 DEF InsertInvoice
<1>7. ASSUME NEW c \in Callers, Push(c) PROVE Issues'
  <2>1. /\ calls'[c].pc = "mail" /\ Key(c)' = Key(c) /\ UNCHANGED <<invoices, mails>>
        /\ \A d \in Callers : d # c => calls'[d] = calls[d]
        /\ Issuing(c) /\ At(c, "push")
    BY <1>7 DEF Push, Goto, Key, At, Issuing, Typed, TypeOK
  <2>2. Key(c) \in Numbers /\ Key(c) \in invoices /\ pushes[Key(c)] = 0
    BY <2>1 DEF Typed, CallsKnow, Issues, At
  <2>3. /\ \A k \in Numbers : k # Key(c) => pushes'[k] = pushes[k]
        /\ pushes'[Key(c)] <= 1
    BY <1>7, <2>2 DEF Push, Typed, TypeOK
  <2> QED BY <2>1, <2>2, <2>3 DEF Issues, IssuedOnce, Issuing, At, Key, Typed, CallsKnow
<1>8. ASSUME NEW c \in Callers, Mail(c) PROVE Issues'
  <2>1. /\ calls'[c].pc = "answer" /\ UNCHANGED <<invoices, pushes>>
        /\ \A d \in Callers : d # c => calls'[d] = calls[d]
        /\ Issuing(c) /\ At(c, "mail")
    BY <1>8 DEF Mail, Goto, At, Issuing, Typed, TypeOK
  <2>2. Key(c) \in Numbers /\ Key(c) \in invoices /\ mails[Key(c)] = 0
    BY <2>1 DEF Typed, CallsKnow, Issues, At
  <2>3. /\ \A k \in Numbers : k # Key(c) => mails'[k] = mails[k]
        /\ mails'[Key(c)] <= 1
    BY <1>8, <2>2 DEF Mail, Typed, TypeOK
  <2> QED BY <2>1, <2>2, <2>3 DEF Issues, IssuedOnce, Issuing, At, Key, Typed, CallsKnow
<1>9. ASSUME NEW c \in Staff, NEW k \in Numbers, Reissue(c, k) PROVE Issues'
  BY <1>1, <1>9 DEF Reissue, Issuing, Typed, TypeOK, Callers, history
<1> QED BY <1>2, <1>3, <1>4, <1>5, <1>6, <1>7, <1>8, <1>9 DEF Next, Proceed

(***************************************************************************)
(* The theorems.                                                           *)
(***************************************************************************)

\* The invariant holds at the start and is kept.
THEOREM InvIsInvariant == Spec => []Inv
<1>1. Init => Inv
  BY HourOrdersAssumption
     DEF Init, Inv, Typed, TypeOK, Call, FormIsNewest, CallsKnow, OneKeyEach, Credits, CreditComesFirst,
         Issues, Issuing, IssuedOnce, At, Idle, Numbers
<1>2. Inv /\ [Next]_vars => Inv'
  BY TypeStep, KeysStep, CreditsStep, IssuesStep DEF Inv
<1> QED BY <1>1, <1>2, PTL DEF Spec

\* Every variable holds values of its type; no two ledger rows have one source.
THEOREM TypeCorrect == Spec => []TypeOK
<1>1. Inv => TypeOK
  BY DEF Inv, Typed
<1> QED BY <1>1, InvIsInvariant, PTL

\* An order is credited by one ledger row, however often it is sent, whatever
\* answer is lost and whatever fails.
THEOREM OrdersAreCreditedOnce == Spec => []CreditedOnce
<1>1. Inv => CreditedOnce
  BY DEF Inv, Typed, TypeOK, OneKeyEach, CreditedOnce
<1> QED BY <1>1, InvIsInvariant, PTL

\* An invoice reaches Keez at most once and the client at most once.
THEOREM InvoicesAreIssuedOnce == Spec => []IssuedOnce
<1>1. Inv => IssuedOnce
  BY DEF Inv, Issues
<1> QED BY <1>1, InvIsInvariant, PTL

\* Nothing is invoiced that was not credited, and an order answered as a success
\* has its minutes, unless it went out under the key of an earlier one.
THEOREM CreditPrecedesInvoice == Spec => []CreditComesFirst
<1>1. Inv => CreditComesFirst
  BY DEF Inv, Credits
<1> QED BY <1>1, InvIsInvariant, PTL
=============================================================================
