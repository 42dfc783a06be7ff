--------------------------- MODULE MCHoursPurchase ---------------------------
(***************************************************************************)
(* Values for the constants of HoursPurchase.                              *)
(***************************************************************************)
EXTENDS HoursPurchase, TLC

AllEvents == [kind : Kinds, order : Orders]
PaymentEvents == [kind : {"succeeded", "refunded"}, order : Orders]
PaymentsReplayed == [kind : {"succeeded"}, order : Orders]
NothingReplayed == {}

WorkersAlike == Permutations(Workers)
=============================================================================
