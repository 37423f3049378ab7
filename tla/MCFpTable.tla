------------------------------ MODULE MCFpTable ------------------------------
(* Instances of FpTable for TLC: items 1 and 3 are alike, and so are 2 and   *)
(* 4; the filter "odd" keeps the former.                                     *)
EXTENDS FpTable

CONSTANTS severity, odd

MCCell    == [c \in Columns |-> [i \in 1 .. MaxItems |-> (MaxItems - i) \div 2]]
MCName    == [i \in 1 .. MaxItems |-> IF i % 2 = 1 THEN "a" ELSE "b"]
MCMatches == [m \in {NoFilter, odd} |-> {i \in 1 .. MaxItems : m = odd => i % 2 = 1}]
=============================================================================
