-------------------------- MODULE HourCreditPromise --------------------------
(***************************************************************************)
(* What hour credit promises about tasks, without requests, ledgers or     *)
(* drafts: a finished task holds minutes of its client's credit, at most   *)
(* what the client has, together with the unused rest of the hours it was  *)
(* invoiced; a reopened task holds nothing and the credit is what it would *)
(* be had the task never been finished.                                    *)
(***************************************************************************)
EXTENDS HourCreditMath

CONSTANTS Tasks, Clients, Actuals, Opening, InitiallyHeld, Free

VARIABLES
    credit,   \* minutes each client may use
    held      \* what each finished task took and gave back

HeldRecord == [client : Clients, taken : Nat, given : Nat]

Init == /\ credit = Opening
        /\ held = InitiallyHeld

Finish(t, c, actual) ==
    LET s == Split(actual, credit[c]) IN
    /\ credit' = [credit EXCEPT ![c] = @ - s.consumed + s.surplus]
    /\ held[t] = Free
    /\ held' = [held EXCEPT ![t] = [client |-> c, taken |-> s.consumed, given |-> s.surplus]]

Reopen(t) ==
    LET h == held[t] IN
    /\ h # Free
    /\ credit' = [credit EXCEPT ![h.client] = @ + h.taken - h.given]
    /\ held' = [held EXCEPT ![t] = Free]

\* An overage invoiced in full hours only later gives its rest back then.
GiveRest(t) ==
    LET h == held[t] IN
    /\ h # Free /\ h.given = 0
    /\ \E rest \in 1..(Block - 1) :
        /\ credit' = [credit EXCEPT ![h.client] = @ + rest]
        /\ held' = [held EXCEPT ![t].given = rest]

Next == \E t \in Tasks :
            \/ \E c \in Clients, actual \in Actuals : Finish(t, c, actual)
            \/ Reopen(t)
            \/ GiveRest(t)

Spec == Init /\ [][Next]_<<credit, held>>
=============================================================================
