---------------------------- MODULE MCHourLedger ----------------------------
(* One client with one paid invoice, tasks and manual adjustments.          *)
EXTENDS HourLedger

MCWorth == [i \in Invoices |-> 2]
MCMinuteWorth == [i \in Invoices |-> 1]
MCMinuses == {-1}
MCCorrections == {-1, 1}
=============================================================================
