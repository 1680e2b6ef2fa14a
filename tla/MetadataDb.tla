------------------------------ MODULE MetadataDb ------------------------------
(***************************************************************************)
(* The tables of crates/blobstore-storage/src/metadata_db.rs (one account) *)
(* and the statements and transactions that change them.  Each operator    *)
(* below is one SQLite statement or transaction, and so one atomic, fully  *)
(* synced step (WAL, synchronous = FULL).  The order in which a handler    *)
(* issues them is the business of FsBackend.                               *)
(*                                                                         *)
(* Content is a sequence of uploaded bodies: one for Put Blob, one per     *)
(* block for Put Block List.  A blobs row records the length and the MD5   *)
(* of what was written, so it is modelled by the content it describes; a   *)
(* staged_blocks row likewise by the body it describes.  storage_path is a *)
(* function of the blob's name, so it is not recorded.                     *)
(***************************************************************************)
EXTENDS Integers, Sequences

CONSTANTS
    Containers,   \* container names
    Blobs,        \* blobs, each in one container
    Home,         \* the container of each blob
    BlockIds,     \* block ids a client may choose
    Bodies,       \* request bodies
    Size,         \* the length of each body
    None          \* no row, no file, no value

ASSUME HomeAssumption == Home \in [Blobs -> Containers]
ASSUME SizeAssumption == Size \in [Bodies -> Nat]
ASSUME NoneAssumption ==
    /\ None \notin Containers \cup Blobs \cup BlockIds \cup Bodies
    /\ None \notin Nat
    /\ None \notin Seq(Bodies)

VARIABLES
    containers,   \* the containers table
    blobs,        \* the blobs table: what each row describes
    staged,       \* the staged_blocks table, by blob and block id
    committed     \* the committed_blocks table, in block_index order

dbVars == <<containers, blobs, staged, committed>>

Content == Seq(Bodies)
CommittedBlockRow == [id : BlockIds, size : Nat]
NoBlocks == [i \in BlockIds |-> None]

DbTypeOK ==
    /\ containers \subseteq Containers
    /\ blobs \in [Blobs -> Content \cup {None}]
    /\ staged \in [Blobs -> [BlockIds -> Bodies \cup {None}]]
    /\ committed \in [Blobs -> Seq(CommittedBlockRow)]

DbInit ==
    /\ containers = {}
    /\ blobs = [b \in Blobs |-> None]
    /\ staged = [b \in Blobs |-> NoBlocks]
    /\ committed = [b \in Blobs |-> <<>>]

BlobsOf(c) == {b \in Blobs : Home[b] = c}

-------------------------------------------------------------------------------
(* Containers. *)

(* INSERT INTO containers, refused when the name exists. *)
insert_container(c) ==
    /\ c \notin containers
    /\ containers' = containers \cup {c}
    /\ UNCHANGED <<blobs, staged, committed>>

(* MUTANT of delete_container_tx: the rows of staged_blocks are kept. *)
delete_container_keeps_staged(c) ==
    /\ containers' = containers \ {c}
    /\ blobs' = [b \in Blobs |-> IF Home[b] = c THEN None ELSE blobs[b]]
    /\ committed' = [b \in Blobs |-> IF Home[b] = c THEN <<>> ELSE committed[b]]
    /\ UNCHANGED staged

(* One transaction deletes the rows of all four tables. *)
delete_container_tx(c) ==
    /\ containers' = containers \ {c}
    /\ blobs' = [b \in Blobs |-> IF Home[b] = c THEN None ELSE blobs[b]]
    /\ staged' = [b \in Blobs |-> IF Home[b] = c THEN NoBlocks ELSE staged[b]]
    /\ committed' = [b \in Blobs |-> IF Home[b] = c THEN <<>> ELSE committed[b]]

-------------------------------------------------------------------------------
(* Blobs. *)

(* MUTANT of foreign_key: foreign_keys is left off. *)
foreign_key_off(b) == TRUE

(* The foreign key of the blobs table, and require_container before it. *)
foreign_key(b) == Home[b] \in containers

(* INSERT ... ON CONFLICT DO UPDATE.  Rows of the two block tables stay. *)
upsert_blob(b, content) ==
    /\ blobs' = [blobs EXCEPT ![b] = content]
    /\ UNCHANGED <<containers, staged, committed>>

delete_blob_row(b) ==
    /\ blobs' = [blobs EXCEPT ![b] = None]
    /\ UNCHANGED <<containers, staged, committed>>

(* MUTANT of delete_committed_blocks: the statement is left out. *)
delete_committed_omitted(b) == UNCHANGED dbVars

delete_committed_blocks(b) ==
    /\ committed' = [committed EXCEPT ![b] = <<>>]
    /\ UNCHANGED <<containers, blobs, staged>>

delete_staged_blocks(b) ==
    /\ staged' = [staged EXCEPT ![b] = NoBlocks]
    /\ UNCHANGED <<containers, blobs, committed>>

-------------------------------------------------------------------------------
(* Blocks. *)

(* INSERT ... ON CONFLICT DO UPDATE; the table has no foreign key. *)
stage_block(b, i, body) ==
    /\ staged' = [staged EXCEPT ![b][i] = body]
    /\ UNCHANGED <<containers, blobs, committed>>

(* The map put_block_list collects from get_committed_blocks: when an id   *)
(* was committed twice, the later size wins.                               *)
committed_map(b) ==
    LET rows == committed[b]
        Last(i) == {k \in DOMAIN rows : /\ rows[k].id = i
                                        /\ \A j \in DOMAIN rows : rows[j].id = i => j <= k}
    IN  [i \in BlockIds |-> IF Last(i) = {} THEN None ELSE rows[CHOOSE k \in Last(i) : TRUE].size]

(* MUTANT of commit_block_list_tx: the staged rows are kept. *)
commit_keeps_staged(b, rows, content) ==
    /\ committed' = [committed EXCEPT ![b] = rows]
    /\ blobs' = [blobs EXCEPT ![b] = content]
    /\ UNCHANGED <<containers, staged>>

(* MUTANT of commit_block_list_tx: the previous block list is not deleted   *)
(* but replaced index by index, and the rest of a longer one stays.        *)
commit_keeps_tail(b, rows, content) ==
    /\ committed' = [committed EXCEPT ![b] = rows \o SubSeq(@, Len(rows) + 1, Len(@))]
    /\ blobs' = [blobs EXCEPT ![b] = content]
    /\ staged' = [staged EXCEPT ![b] = NoBlocks]
    /\ UNCHANGED containers

(* One transaction replaces the committed blocks, writes the blobs row and *)
(* deletes every staged row of the blob.                                   *)
commit_block_list_tx(b, rows, content) ==
    /\ committed' = [committed EXCEPT ![b] = rows]
    /\ blobs' = [blobs EXCEPT ![b] = content]
    /\ staged' = [staged EXCEPT ![b] = NoBlocks]
    /\ UNCHANGED containers
===============================================================================
