----------------------------- MODULE MCQuotaBudget ------------------------------
(***************************************************************************)
(* Instances of QuotaBudget for TLC: of four searches a day one is in      *)
(* reserve, and every purpose has a slice of one.                          *)
(***************************************************************************)
EXTENDS QuotaBudget

MCSlice == [p \in Purposes |-> 1]
================================================================================
