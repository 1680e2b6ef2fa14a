---------------------------- MODULE MCFsBackend -------------------------------
(* Small instances of FsBackend: which blobs share a container, body sizes, *)
(* the block lists clients send, and symmetric requests.                    *)
EXTENDS FsBackend, TLC

CONSTANTS b1, b2, c1, i1, i2, x, y, r1, r2, r3

MCSize == [body \in Bodies |-> IF body = x THEN 1 ELSE 2]
SameSize == [body \in Bodies |-> 1]
OneBlob == (b1 :> c1)
TwoBlobs == (b1 :> c1) @@ (b2 :> c1)

Ref(i, k) == [id |-> i, kind |-> k]

(* The lists a run lets its clients send. *)
AllKinds == {<<Ref(i1, "Latest")>>, <<Ref(i1, "Uncommitted"), Ref(i1, "Committed")>>}
LatestOnly == {<<Ref(i1, "Latest")>>}
OneOrTwoBlocks == {<<Ref(i1, "Latest")>>, <<Ref(i2, "Uncommitted"), Ref(i1, "Latest")>>}
NoLists == {}

(* Requests are interchangeable, and so are blobs of one container. *)
Symm == Permutations(Requests) \cup Permutations(Blobs)

(* So are bodies, where all have the same size.                             *)
SymmBodies == Permutations(Requests) \cup Permutations(Bodies)
===============================================================================
