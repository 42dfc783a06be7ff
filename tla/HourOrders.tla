------------------------------ MODULE HourOrders ------------------------------
(***************************************************************************)
(* Hours that staff add to a client: the modal sends an order under a      *)
(* request key, the server credits, issues the invoice, pushes it to Keez  *)
(* and mails it, and credits left without an invoice are worked off from   *)
(* a list. The invoice id derives from the key, so an order, its ledger    *)
(* row and its invoice are known by the key here.                          *)
(*                                                                         *)
(* An order is what the operator means: a filled form. One that is sent    *)
(* again unchanged is the same order; a form that is changed, or begun     *)
(* anew, is another. Orders and keys are numbered together.                *)
(***************************************************************************)
EXTENDS Naturals, FiniteSets

CONSTANTS Requests,    \* calls of addHoursToClient
          Staff,       \* calls of issueHourCreditInvoiceNow
          MaxOrders,   \* bound: orders the operator means
          MaxMishaps   \* bound: crashes, failed statements, lost acknowledgements

ASSUME HourOrdersAssumption ==
    /\ MaxOrders \in Nat /\ MaxMishaps \in Nat
    /\ Requests \intersect Staff = {} /\ "nobody" \notin Requests \union Staff

VARIABLES
    form,       \* the modal: its order, its request key, whether it was sent
                \* under that key, the call it waits for
    last,       \* the last number taken
    calls,      \* what each call is doing
    ledger,     \* purchase rows: [key, order]
    invoices,   \* keys whose invoice exists
    bnr,        \* a BNR rate is stored
    mishaps,
    pushes,     \* history: times each invoice was pushed to Keez
    mails,      \* history: times each invoice was mailed
    answered,   \* history: orders answered as a success
    reused      \* history: orders sent under the key of an earlier one

vars == <<form, last, calls, ledger, invoices, bnr, mishaps, pushes, mails, answered, reused>>
history == <<pushes, mails, answered, reused>>

Callers == Requests \union Staff
Numbers == 1..MaxOrders
Call == [pc : {"idle", "credit", "rate", "insert", "push", "mail", "answer"},
         key : 0..MaxOrders, order : 0..MaxOrders]
Idle == [pc |-> "idle", key |-> 0, order |-> 0]

At(c, pc) == calls[c].pc = pc
Goto(c, pc) == calls' = [calls EXCEPT ![c].pc = pc]
Key(c) == calls[c].key
Mishap == mishaps < MaxMishaps /\ mishaps' = mishaps + 1
Credited(k) == \E row \in ledger : row.key = k

(***************************************************************************)
(* The modal.                                                              *)
(***************************************************************************)
Submit(c) ==
    /\ At(c, "idle") /\ form.waiting = "nobody" /\ form.order <= MaxOrders
    /\ calls' = [calls EXCEPT ![c] = [pc |-> "credit", key |-> form.key, order |-> form.order]]
    /\ form' = [form EXCEPT !.waiting = c, !.sent = TRUE]
    /\ UNCHANGED <<last, ledger, invoices, bnr, mishaps, history>>

Blank == [order |-> last + 1, key |-> last + 1, sent |-> FALSE, waiting |-> "nobody"]

\* The answer is lost on the way, or late: the modal shows an error, the call goes on.
RenewOnError ==   \* mutant: every try has a key of its own
    /\ form.waiting # "nobody" /\ last <= MaxOrders
    /\ form' = [form EXCEPT !.waiting = "nobody", !.key = last + 1]
    /\ last' = last + 1
    /\ UNCHANGED <<calls, ledger, invoices, bnr, mishaps, history>>
LoseAnswer ==
    /\ form.waiting # "nobody"
    /\ form' = [form EXCEPT !.waiting = "nobody"]
    /\ UNCHANGED <<last, calls, ledger, invoices, bnr, mishaps, history>>

\* After an error the operator changes the form, and the key stays, or begins anew.
Edit ==
    /\ form.waiting = "nobody" /\ form.sent /\ last <= MaxOrders
    /\ form' = [form EXCEPT !.order = last + 1] /\ last' = last + 1
    /\ reused' = reused \union {last + 1}
    /\ UNCHANGED <<calls, ledger, invoices, bnr, mishaps, pushes, mails, answered>>

Reopen ==
    /\ form.waiting = "nobody" /\ form.sent /\ last <= MaxOrders
    /\ form' = Blank /\ last' = last + 1
    /\ UNCHANGED <<calls, ledger, invoices, bnr, mishaps, history>>

(***************************************************************************)
(* createHourCreditOrder: the credit.                                      *)
(***************************************************************************)
Row(c) == [key |-> Key(c), order |-> calls[c].order]

\* The unique index on (kind, source) turns a second row away: "duplicate". So
\* does a first one whose acknowledgement was lost and which is tried again.
Credit(c) ==
    /\ At(c, "credit")
    /\ IF Credited(Key(c))
       THEN Goto(c, "answer") /\ UNCHANGED <<ledger, mishaps>>
       ELSE /\ ledger' = ledger \union {Row(c)}
            /\ \/ Goto(c, "rate") /\ UNCHANGED mishaps
               \/ Goto(c, "answer") /\ Mishap
    /\ UNCHANGED <<form, last, invoices, bnr, history>>

\* The credit is the step that may not fail silently.
CreditFailsSilently(c) ==   \* mutant: the error is logged, the order goes on
    /\ At(c, "credit") /\ Mishap
    /\ Goto(c, "rate")
    /\ UNCHANGED <<form, last, ledger, invoices, bnr, history>>
CreditFails(c) ==
    /\ At(c, "credit") /\ Mishap
    /\ calls' = [calls EXCEPT ![c] = Idle]
    /\ form' = IF form.waiting = c THEN [form EXCEPT !.waiting = "nobody"] ELSE form
    /\ UNCHANGED <<last, ledger, invoices, bnr, history>>

(***************************************************************************)
(* issueHourCreditInvoice.                                                 *)
(***************************************************************************)
Rate(c) ==
    /\ At(c, "rate")
    /\ Goto(c, IF bnr THEN "insert" ELSE "answer")
    /\ UNCHANGED <<form, last, ledger, invoices, bnr, mishaps, history>>

\* A conflict on the key, a failure and a lost acknowledgement end alike: no
\* push, no mail, "the invoice could not be created".
InsertOrFind(c) ==   \* mutant: a conflict is taken for a success
    /\ At(c, "insert")
    /\ invoices' = invoices \union {Key(c)}
    /\ Goto(c, "push")
    /\ UNCHANGED <<form, last, ledger, bnr, mishaps, history>>
InsertInvoice(c) ==
    /\ At(c, "insert")
    /\ \/ /\ Key(c) \notin invoices
          /\ invoices' = invoices \union {Key(c)}
          /\ \/ Goto(c, "push") /\ UNCHANGED mishaps
             \/ Goto(c, "answer") /\ Mishap
       \/ /\ \/ Key(c) \in invoices /\ UNCHANGED mishaps
             \/ Mishap
          /\ Goto(c, "answer") /\ UNCHANGED invoices
    /\ UNCHANGED <<form, last, ledger, bnr, history>>

\* A push that Keez rejects is a warning.
Push(c) ==
    /\ At(c, "push")
    /\ \/ pushes' = [pushes EXCEPT ![Key(c)] = @ + 1] /\ UNCHANGED mishaps
       \/ Mishap /\ UNCHANGED pushes
    /\ Goto(c, "mail")
    /\ UNCHANGED <<form, last, ledger, invoices, bnr, mails, answered, reused>>

\* Not mailed: the box is not ticked, the client has no address, or it fails.
Mail(c) ==
    /\ At(c, "mail")
    /\ \/ mails' = [mails EXCEPT ![Key(c)] = @ + 1]
       \/ UNCHANGED mails
    /\ Goto(c, "answer")
    /\ UNCHANGED <<form, last, ledger, invoices, bnr, mishaps, pushes, answered, reused>>

\* With the answer the modal takes a new key; nobody may be waiting any more.
Answer(c) ==
    /\ At(c, "answer")
    /\ calls' = [calls EXCEPT ![c] = Idle]
    /\ IF form.waiting = c
       THEN form' = Blank /\ last' = last + 1 /\ answered' = answered \union {calls[c].order}
       ELSE UNCHANGED <<form, last, answered>>
    /\ UNCHANGED <<ledger, invoices, bnr, mishaps, pushes, mails, reused>>

(***************************************************************************)
(* The list of credits without an invoice, and reissueHourCreditInvoice.   *)
(***************************************************************************)
ListedOnceAnswered(k) ==   \* mutant: the list is made of the answers' warnings
    Credited(k) /\ k \notin invoices /\ k \in answered
Listed(k) == Credited(k) /\ k \notin invoices

\* The row is looked up and the invoice looked for, then it is issued.
Reissue(c, k) ==
    /\ At(c, "idle") /\ Listed(k)
    /\ calls' = [calls EXCEPT ![c] = [pc |-> "rate", key |-> k, order |-> 0]]
    /\ UNCHANGED <<form, last, ledger, invoices, bnr, mishaps, history>>

(***************************************************************************)
(* The surroundings.                                                       *)
(***************************************************************************)
\* The first run of bnr-rate-sync; stored rates stay.
BnrSync ==
    /\ ~bnr /\ bnr' = TRUE
    /\ UNCHANGED <<form, last, calls, ledger, invoices, mishaps, history>>

Crash ==
    /\ Mishap
    /\ calls' = [c \in Callers |-> Idle]
    /\ form' = [form EXCEPT !.waiting = "nobody"]
    /\ UNCHANGED <<last, ledger, invoices, bnr, history>>

-----------------------------------------------------------------------------
Init ==
    /\ form = [order |-> 1, key |-> 1, sent |-> FALSE, waiting |-> "nobody"] /\ last = 1
    /\ calls = [c \in Callers |-> Idle]
    /\ ledger = {} /\ invoices = {} /\ bnr \in BOOLEAN
    /\ mishaps = 0
    /\ pushes = [k \in Numbers |-> 0] /\ mails = [k \in Numbers |-> 0]
    /\ answered = {} /\ reused = {}

Proceed(c) ==
    \/ Credit(c) \/ CreditFails(c)
    \/ Rate(c) \/ InsertInvoice(c) \/ Push(c) \/ Mail(c) \/ Answer(c)

Next ==
    \/ \E c \in Requests : Submit(c)
    \/ LoseAnswer \/ Edit \/ Reopen
    \/ \E c \in Callers : Proceed(c)
    \/ \E c \in Staff, k \in Numbers : Reissue(c, k)
    \/ BnrSync \/ Crash

\* Calls go on, the rates are synchronised, staff work off the list.
Fairness ==
    /\ \A c \in Callers : WF_vars(Proceed(c))
    /\ WF_vars(BnrSync)
    /\ \A k \in Numbers : SF_vars(\E c \in Staff : Reissue(c, k))

Spec == Init /\ [][Next]_vars /\ Fairness
-----------------------------------------------------------------------------
(***************************************************************************)
(* Properties.                                                             *)
(***************************************************************************)

\* Every variable holds values of its type; no two ledger rows have one source.
TypeOK ==
    /\ form \in [order : 1..(MaxOrders + 1), key : 1..(MaxOrders + 1),
                 sent : BOOLEAN, waiting : Requests \union {"nobody"}]
    /\ last \in 1..(MaxOrders + 1)
    /\ calls \in [Callers -> Call]
    /\ ledger \subseteq [key : Numbers, order : Numbers]
    /\ \A row, other \in ledger : row.key = other.key => row = other
    /\ invoices \subseteq Numbers /\ bnr \in BOOLEAN
    /\ mishaps \in 0..MaxMishaps
    /\ pushes \in [Numbers -> Nat] /\ mails \in [Numbers -> Nat]
    /\ answered \subseteq Numbers /\ reused \subseteq 1..(MaxOrders + 1)

\* "A double click or a retry with the same key does not credit and does not
\* invoice a second time": one order, one row, whatever is lost, repeated or
\* interrupted.
CreditedOnce == \A row, other \in ledger : row.order = other.order => row = other

\* The order's own call and staff who work off the list may issue one invoice
\* at the same time: it reaches Keez once and the client once.
IssuedOnce == \A k \in Numbers : pushes[k] <= 1 /\ mails[k] <= 1

\* "First the credit, then the invoice": nothing is invoiced that was not
\* credited, and an order answered as a success has its minutes, unless it went
\* out under the key of an earlier one.
CreditComesFirst ==
    /\ \A k \in invoices : Credited(k)
    /\ \A o \in answered \ reused : \E row \in ledger : row.order = o

\* Every credit has its invoice in the end, whatever interrupted the order.
EveryCreditIsInvoiced == \A k \in Numbers : Credited(k) ~> k \in invoices
=============================================================================
