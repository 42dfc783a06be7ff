---------------------------- MODULE MCTaskCredit ----------------------------
(***************************************************************************)
(* Values for the constants of TaskCredit.                                 *)
(***************************************************************************)
EXTENDS TaskCreditRefinement, TLC

CONSTANTS ta, tb   \* tasks

Credit120 == [c \in Clients |-> 120]
Credit30 == [c \in Clients |-> 30]
OwnedByFirst == [t \in Tasks |-> CHOOSE c \in Clients : TRUE]
NoLegacy == <<>>
LegacyA == ta :> 40

Hours == {70}
HoursOrMore == {70, 90}

WorkersAlike == Permutations(Workers)
=============================================================================
