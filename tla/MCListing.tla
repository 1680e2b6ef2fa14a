------------------------------ MODULE MCListing -------------------------------
(* Five names, of which the prefix accepts four and the delimiter folds two *)
(* into one directory; a u32 of two bits.                                   *)
EXTENDS Listing, TLC

CONSTANT d

MCNames == 1 .. 5
MCMatching == {1, 2, 3, 5}
MCDir == [n \in MCNames |-> IF n \in {2, 3} THEN d ELSE None]
MCPageSizes == 0 .. 3
===============================================================================
