-------------------------- MODULE MCFileDownlinker --------------------------
(***************************************************************************)
(* An instance of FileDownlinker for TLC: two transfers, the first as long *)
(* as DATA packets that, arriving outside of it, hide a gap of the second. *)
(***************************************************************************)
EXTENDS FileDownlinker

CONSTANTS t1, t2, d1, d2

OneTwo == <<t1, t2>>
MCDest == [t \in {t1, t2} |-> IF t = t1 THEN d1 ELSE d2]
MCSize == [t \in TransferSet |-> IF t = t1 THEN 2 ELSE 1]
=============================================================================
