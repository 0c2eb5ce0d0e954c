----------------------------- MODULE MCRowCache -----------------------------
(* An instance of RowCache for TLC: two threads fetch three rows, of which *)
(* two share a byte of the bitmap, through one set of two ways; row 0 is   *)
(* another rank's.                                                         *)
EXTENDS RowCache

CONSTANTS t1, t2
=============================================================================
