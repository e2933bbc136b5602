------------------------------ MODULE MCReports ------------------------------
(* An instance of UsageReports alone, for TLC: one tariff, one day.         *)
EXTENDS UsageReports

Tariff == [strong |-> <<[from |-> 0, input |-> 10, output |-> 40]>>,
           cheap  |-> <<[from |-> 0, input |-> 1, output |-> 4]>>]
ModelNames == DOMAIN Tariff
OneUsage == {[input |-> 50, output |-> 50]}
OneRange == [today |-> 2]
=============================================================================
