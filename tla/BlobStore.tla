------------------------------- MODULE BlobStore -------------------------------
(***************************************************************************)
(* What fs_backend.rs does as a StorageBackend, seen from outside: no       *)
(* files, no tables and no awaits.  Each operation that changes a container *)
(* or a blob is one step, or does not happen.                               *)
(*                                                                         *)
(* Put Block List takes every block from those staged, in the order of the *)
(* list, and a Committed entry must name a block of the previous list too. *)
(***************************************************************************)
EXTENDS Sequences

CONSTANTS Containers, Blobs, Home, BlockIds, Bodies, BlockLists, None

VARIABLES
    containers,   \* the containers there are
    content,      \* the content of each blob, or None
    staged,       \* the blocks uploaded for each blob and not committed yet
    blocks        \* the ids of the block list each blob was last made from

storeVars == <<containers, content, staged, blocks>>

NoBlocks == [i \in BlockIds |-> None]

Init ==
    /\ containers = {}
    /\ content = [b \in Blobs |-> None]
    /\ staged = [b \in Blobs |-> NoBlocks]
    /\ blocks = [b \in Blobs |-> <<>>]

CreateContainer(c) ==
    /\ c \notin containers
    /\ containers' = containers \cup {c}
    /\ UNCHANGED <<content, staged, blocks>>

(* A container goes with all that is in it. *)
DeleteContainer(c) ==
    /\ c \in containers
    /\ containers' = containers \ {c}
    /\ content' = [b \in Blobs |-> IF Home[b] = c THEN None ELSE content[b]]
    /\ staged' = [b \in Blobs |-> IF Home[b] = c THEN NoBlocks ELSE staged[b]]
    /\ blocks' = [b \in Blobs |-> IF Home[b] = c THEN <<>> ELSE blocks[b]]

PutBlob(b, body) ==
    /\ Home[b] \in containers
    /\ content' = [content EXCEPT ![b] = <<body>>]
    /\ UNCHANGED <<containers, staged, blocks>>

(* A blob goes with its blocks. *)
DeleteBlob(b) ==
    /\ content[b] # None
    /\ content' = [content EXCEPT ![b] = None]
    /\ staged' = [staged EXCEPT ![b] = NoBlocks]
    /\ blocks' = [blocks EXCEPT ![b] = <<>>]
    /\ UNCHANGED containers

PutBlock(b, i, body) ==
    /\ Home[b] \in containers
    /\ staged' = [staged EXCEPT ![b][i] = body]
    /\ UNCHANGED <<containers, content, blocks>>

PutBlockList(b, list) ==
    /\ Home[b] \in containers
    /\ \A k \in DOMAIN list :
         /\ staged[b][list[k].id] # None
         /\ list[k].kind = "Committed" => \E j \in DOMAIN blocks[b] : blocks[b][j] = list[k].id
    /\ content' = [content EXCEPT ![b] = [k \in DOMAIN list |-> staged[b][list[k].id]]]
    /\ blocks' = [blocks EXCEPT ![b] = [k \in DOMAIN list |-> list[k].id]]
    /\ staged' = [staged EXCEPT ![b] = NoBlocks]
    /\ UNCHANGED containers

Next ==
    \/ \E c \in Containers : CreateContainer(c) \/ DeleteContainer(c)
    \/ \E b \in Blobs :
         \/ \E body \in Bodies : PutBlob(b, body) \/ \E i \in BlockIds : PutBlock(b, i, body)
         \/ \E list \in BlockLists : PutBlockList(b, list)
         \/ DeleteBlob(b)

Spec == Init /\ [][Next]_storeVars
===============================================================================
