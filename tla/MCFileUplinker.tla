--------------------------- MODULE MCFileUplinker ---------------------------
(***************************************************************************)
(* Instances of FileUplinker for TLC.  f1 and f2 are two uploads with      *)
(* different names; f3 is a second upload under the name of f1, possible   *)
(* once f1's source has been removed from disk.  f2 selects packets 2 and  *)
(* 4 of a file of two chunks: 4 is past the end of the file.               *)
(***************************************************************************)
EXTENDS FileUplinker, TLC

CONSTANTS f1, f2, f3, p1, p2, c1, c2

MCPaths  == {p1, p2}
MCSource == [f \in Files |-> IF f = f2 THEN p2 ELSE p1]
MCSize   == [f \in Files |-> IF f = f2 THEN 2 ELSE 1]
MCPlan   == [f \in Files |-> IF f = f2 THEN <<2, 4>> ELSE <<1>>]
=============================================================================
