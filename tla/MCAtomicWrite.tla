---------------------------- MODULE MCAtomicWrite -----------------------------
(* Two writes to one name in a new directory; an empty body goes to a name *)
(* in an old one, which fsync_dir may fail to open.                        *)
EXTENDS AtomicWrite, TLC

CONSTANTS w1, w2, w3, p1, p2, d1, d2

MCTarget == (w1 :> p1) @@ (w2 :> p1) @@ (w3 :> p2)
MCSize == (w1 :> 2) @@ (w2 :> 1) @@ (w3 :> 0)
MCParent == (p1 :> d1) @@ (p2 :> d2)
===============================================================================
