------------------------ MODULE TaskCreditRefinement ------------------------
(***************************************************************************)
(* TaskCredit implements HourCreditPromise: what a task holds is read from *)
(* the ledger rows of the settlement it is in.                             *)
(***************************************************************************)
EXTENDS TaskCredit

CONSTANT Free   \* a task that holds nothing

ASSUME FreeAssumption == Free \notin [client : Clients, taken : Int, given : Int]

\* What the row of the current settlement moved, 0 without one.
Moved(kind, t) ==
    LET rows == {x \in ledger : x.kind = kind /\ x.task = t /\ x.cycle = task[t].settledAt}
    IN  IF rows = {} THEN 0 ELSE (CHOOSE x \in rows : TRUE).delta

ChargedClient(t) ==
    (CHOOSE x \in ledger : /\ x.kind \in {"task_consumption", "overage_invoiced"}
                           /\ x.task = t /\ x.cycle = task[t].settledAt).client

Held(t) ==
    IF task[t].settledAt = Null THEN Free
    ELSE [client |-> ChargedClient(t),
          taken |-> -Moved("task_consumption", t),
          given |-> Moved("purchase", t)]

HeldAtStart == [t \in Tasks |-> IF t \in DOMAIN Legacy
                                THEN [client |-> Owner[t], taken |-> 0, given |-> 0]
                                ELSE Free]

Promise == INSTANCE HourCreditPromise
           WITH credit <- balance, held <- [t \in Tasks |-> Held(t)],
                InitiallyHeld <- HeldAtStart,
                Actuals <- Actuals \union {Legacy[t] : t \in DOMAIN Legacy}

\* Finishing and reopening tasks through interleaved and crashing requests is
\* the promised behaviour: each settlement is one Finish, each reopening undoes
\* the effect of exactly that Finish, and nothing else moves the credit.
ImplementsPromise == Promise!Spec
=============================================================================
