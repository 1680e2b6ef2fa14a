------------------------------- MODULE FsBackend ------------------------------
(***************************************************************************)
(* The storage backend of crates/blobstore-storage/src/fs_backend.rs: blob *)
(* bytes in files, metadata in SQLite, and handlers that go back and forth *)
(* between the two.  Nothing locks a blob, so a handler is as many atomic  *)
(* steps as it awaits statements or file operations, and the steps of      *)
(* different requests interleave freely.                                   *)
(*                                                                         *)
(* A file write is one step here, from the old file to the new one and     *)
(* durable when it returns: this is what AtomicWrite shows of fs_io.rs,    *)
(* for directories that can be opened and whose own entries are on disk.   *)
(* So a crash here is one of the process, or of a machine that has written *)
(* the new directories back.  An unlink is durable here.  That a crash may *)
(* undo one (AtomicWrite) gives the file system a crash just before the    *)
(* unlink would have left.                                                 *)
(*                                                                         *)
(* Env names what the surroundings of the backend may do:                  *)
(*   "overlap"   clients write to the same blob or container concurrently  *)
(*   "cancel"    a client disconnects, and its handler's future is dropped *)
(*   "crash"     the process or the machine stops and starts again         *)
(*   "fault"     a statement or a file operation returns an error          *)
(*   "mismatch"  a Put Blob carries a Content-MD5 its body does not have   *)
(* Handlers that only read or write properties of a row are left out.      *)
(***************************************************************************)
EXTENDS MetadataDb

CONSTANTS
    Requests,     \* requests that can be in flight at once
    Ops,          \* the operations the clients use
    BlockLists,   \* the block lists the clients send
    Env           \* what the surroundings may do, see above

EnvEvents == {"overlap", "cancel", "crash", "fault", "mismatch"}
Kinds == {"Committed", "Uncommitted", "Latest"}
BlockRef == [id : BlockIds, kind : Kinds]

ASSUME EnvAssumption == Env \subseteq EnvEvents
ASSUME BlockListsAssumption == BlockLists \subseteq Seq(BlockRef)

VARIABLES
    blobFile,    \* the file at the path of each blob
    blockFile,   \* the file at the path of each staged block
    req,         \* the requests in flight
    renamed,     \* history: the contents ever renamed onto each blob's path
    dirty        \* history: blobs renamed onto since their row was last written

files == <<blobFile, blockFile>>
history == <<renamed, dirty>>
vars == <<dbVars, files, req, history>>

(* The awaits at which a handler can be, named after the handler.  The     *)
(* first await of each is taken when the request starts.                   *)
PutBlobPC == {"pb_write", "pb_reject", "pb_upsert"}
GetBlobPC == {"gb_open", "gb_stream"}
DeleteBlobPC == {"db_delete", "db_committed", "db_staged", "db_unlink"}
PutBlockPC == {"bk_write", "bk_stage"}
PutBlockListPC == {"bl_committed", "bl_resolve", "bl_concat", "bl_commit", "bl_cleanup"}
DeleteContainerPC == {"dc_tx", "dc_unlink", "dc_rmdir"}
WriterPC == PutBlobPC \cup DeleteBlobPC \cup PutBlockPC \cup PutBlockListPC \cup DeleteContainerPC
PC == {"idle"} \cup GetBlobPC \cup WriterPC

ResolvedBlock == [id : BlockIds, size : Nat, has : BOOLEAN]

(* A handler's arguments and local variables.  A request that has ended    *)
(* is the same as one that has not begun.                                  *)
Request ==
    [pc : PC,
     live : BOOLEAN,                     \* FALSE once the future is dropped
     c : Containers \cup {None},
     b : Blobs \cup {None},
     id : BlockIds \cup {None},          \* Put Block: the block id
     body : Bodies \cup {None},          \* Put Block: the request body
     bad : BOOLEAN,                      \* Put Blob: Content-MD5 will not match
     refs : Seq(BlockRef),               \* Put Block List: entries to resolve
     comm : [BlockIds -> Nat \cup {None}],
     res : Seq(ResolvedBlock),           \* Put Block List: resolved entries
     out : Content \cup {None},          \* content to write, or being read
     row : Content \cup {None},          \* Get Blob: the row as read
     left : SUBSET Blobs]                \* Delete Container: paths to unlink

IdleReq ==
    [pc |-> "idle", live |-> TRUE, c |-> None, b |-> None, id |-> None, body |-> None,
     bad |-> FALSE, refs |-> <<>>, comm |-> NoBlocks, res |-> <<>>, out |-> None,
     row |-> None, left |-> {}]

TypeOK ==
    /\ DbTypeOK
    /\ blobFile \in [Blobs -> Content \cup {None}]
    /\ blockFile \in [Blobs -> [BlockIds -> Bodies \cup {None}]]
    /\ req \in [Requests -> Request]
    /\ renamed \in [Blobs -> SUBSET Content]
    /\ dirty \subseteq Blobs

Init ==
    /\ DbInit
    /\ blobFile = [b \in Blobs |-> None]
    /\ blockFile = [b \in Blobs |-> NoBlocks]
    /\ req = [r \in Requests |-> IdleReq]
    /\ renamed = [b \in Blobs |-> {}]
    /\ dirty = {}

-------------------------------------------------------------------------------
(* Requests. *)

(* Whether request s, in flight, writes what a request for container c,    *)
(* blob b (None: the container itself) and block id would write.  Clients  *)
(* upload the blocks of one blob in parallel; that is no conflict.         *)
Conflicts(s, c, b, id) ==
    /\ req[s].live
    /\ req[s].pc \in WriterPC
    /\ req[s].c = c
    /\ \/ b = None
       \/ req[s].b = None
       \/ req[s].b = b /\ (id = None \/ req[s].id = None \/ req[s].id = id)

Admit(c, b, id) ==
    "overlap" \in Env \/ \A s \in Requests : ~Conflicts(s, c, b, id)

Begin(r, locals) ==
    /\ req[r].pc = "idle"
    /\ req' = [req EXCEPT ![r] = locals]

(* The handler goes on, unless its future was dropped at this await. *)
Continue(r, locals) ==
    req' = [req EXCEPT ![r] = IF req[r].live THEN locals ELSE IdleReq]

Goto(r, pc) == Continue(r, [req[r] EXCEPT !.pc = pc])
End(r) == req' = [req EXCEPT ![r] = IdleReq]

(* MUTANT of unlink_blob: the file is forgotten. *)
unlink_blob_forgotten(b) == UNCHANGED blobFile

(* A best-effort unlink: `let _ =` discards the error. *)
unlink_blob(b) ==
    \/ blobFile' = [blobFile EXCEPT ![b] = None]
    \/ "fault" \in Env /\ UNCHANGED blobFile

unlink_block(b, i) ==
    \/ blockFile' = [blockFile EXCEPT ![b][i] = None]
    \/ "fault" \in Env /\ UNCHANGED blockFile

(* The write protocol of fs_io.rs puts content at the path of blob b. *)
replace_blob_file(b, content) ==
    /\ blobFile' = [blobFile EXCEPT ![b] = content]
    /\ renamed' = [renamed EXCEPT ![b] = @ \cup {content}]
    /\ dirty' = dirty \cup {b}

-------------------------------------------------------------------------------
(* Put Blob. *)

(* MUTANT of put_blob: the row is written, and the file never. *)
put_blob_row_only(r) ==
    /\ "put_blob" \in Ops
    /\ \E b \in Blobs, body \in Bodies :
         /\ Home[b] \in containers
         /\ Admit(Home[b], b, None)
         /\ Begin(r, [IdleReq EXCEPT !.pc = "pb_upsert", !.c = Home[b], !.b = b,
                                     !.out = <<body>>])
    /\ UNCHANGED <<dbVars, files, history>>

put_blob(r) ==
    /\ "put_blob" \in Ops
    /\ \E b \in Blobs, body \in Bodies, bad \in BOOLEAN :
         /\ Home[b] \in containers
         /\ bad => "mismatch" \in Env
         /\ Admit(Home[b], b, None)
         /\ Begin(r, [IdleReq EXCEPT !.pc = "pb_write", !.c = Home[b], !.b = b,
                                     !.bad = bad, !.out = <<body>>])
    /\ UNCHANGED <<dbVars, files, history>>

put_blob_write(r) ==
    /\ req[r].pc = "pb_write"
    /\ replace_blob_file(req[r].b, req[r].out)
    /\ Goto(r, IF req[r].bad THEN "pb_reject" ELSE "pb_upsert")
    /\ UNCHANGED <<dbVars, blockFile>>

(* Content-MD5 is compared once the file is in place. *)
put_blob_reject(r) ==
    /\ req[r].pc = "pb_reject"
    /\ unlink_blob(req[r].b)
    /\ End(r)
    /\ UNCHANGED <<dbVars, blockFile, history>>

put_blob_upsert(r) ==
    /\ req[r].pc = "pb_upsert"
    /\ foreign_key(req[r].b)
    /\ upsert_blob(req[r].b, req[r].out)
    /\ dirty' = dirty \ {req[r].b}
    /\ End(r)
    /\ UNCHANGED <<files, renamed>>

-------------------------------------------------------------------------------
(* Get Blob: the row first, then the file it names. *)

get_blob(r) ==
    /\ "get_blob" \in Ops
    /\ \E b \in Blobs :
         /\ blobs[b] # None
         /\ Begin(r, [IdleReq EXCEPT !.pc = "gb_open", !.c = Home[b], !.b = b,
                                     !.row = blobs[b]])
    /\ UNCHANGED <<dbVars, files, history>>

get_blob_open(r) ==
    /\ req[r].pc = "gb_open"
    /\ IF blobFile[req[r].b] = None
       THEN End(r)
       ELSE Continue(r, [req[r] EXCEPT !.pc = "gb_stream", !.out = blobFile[req[r].b]])
    /\ UNCHANGED <<dbVars, files, history>>

(* The open file is sent, cut at the length in the row. *)
get_blob_stream(r) ==
    /\ req[r].pc = "gb_stream"
    /\ End(r)
    /\ UNCHANGED <<dbVars, files, history>>

-------------------------------------------------------------------------------
(* Delete Blob: four statements without a transaction, then the file.  The *)
(* files of staged blocks are not removed.                                 *)

(* MUTANT of delete_blob: the file is unlinked before the row is deleted. *)
delete_blob_unlinks_first(r) ==
    /\ "delete_blob" \in Ops
    /\ \E b \in Blobs :
         /\ blobs[b] # None
         /\ Admit(Home[b], b, None)
         /\ Begin(r, [IdleReq EXCEPT !.pc = "db_delete", !.c = Home[b], !.b = b])
         /\ blobFile' = [blobFile EXCEPT ![b] = None]
    /\ UNCHANGED <<dbVars, blockFile, history>>

delete_blob(r) ==
    /\ "delete_blob" \in Ops
    /\ \E b \in Blobs :
         /\ blobs[b] # None
         /\ Admit(Home[b], b, None)
         /\ Begin(r, [IdleReq EXCEPT !.pc = "db_delete", !.c = Home[b], !.b = b])
    /\ UNCHANGED <<dbVars, files, history>>

delete_blob_delete(r) ==
    /\ req[r].pc = "db_delete"
    /\ delete_blob_row(req[r].b)
    /\ Goto(r, "db_committed")
    /\ UNCHANGED <<files, history>>

delete_blob_committed(r) ==
    /\ req[r].pc = "db_committed"
    /\ delete_committed_blocks(req[r].b) \/ ("fault" \in Env /\ UNCHANGED dbVars)
    /\ Goto(r, "db_staged")
    /\ UNCHANGED <<files, history>>

delete_blob_staged(r) ==
    /\ req[r].pc = "db_staged"
    /\ delete_staged_blocks(req[r].b) \/ ("fault" \in Env /\ UNCHANGED dbVars)
    /\ Goto(r, "db_unlink")
    /\ UNCHANGED <<files, history>>

delete_blob_unlink(r) ==
    /\ req[r].pc = "db_unlink"
    /\ unlink_blob(req[r].b)
    /\ End(r)
    /\ UNCHANGED <<dbVars, blockFile, history>>

-------------------------------------------------------------------------------
(* Put Block. *)

put_block(r) ==
    /\ "put_block" \in Ops
    /\ \E b \in Blobs, i \in BlockIds, body \in Bodies :
         /\ Home[b] \in containers
         /\ Admit(Home[b], b, i)
         /\ Begin(r, [IdleReq EXCEPT !.pc = "bk_write", !.c = Home[b], !.b = b,
                                     !.id = i, !.body = body])
    /\ UNCHANGED <<dbVars, files, history>>

(* MUTANT of put_block_write: the row is staged and the file is not written. *)
put_block_write_skipped(r) ==
    /\ req[r].pc = "bk_write"
    /\ Goto(r, "bk_stage")
    /\ UNCHANGED <<dbVars, files, history>>

put_block_write(r) ==
    /\ req[r].pc = "bk_write"
    /\ blockFile' = [blockFile EXCEPT ![req[r].b][req[r].id] = req[r].body]
    /\ Goto(r, "bk_stage")
    /\ UNCHANGED <<dbVars, blobFile, history>>

put_block_stage(r) ==
    /\ req[r].pc = "bk_stage"
    /\ stage_block(req[r].b, req[r].id, req[r].body)
    /\ End(r)
    /\ UNCHANGED <<files, history>>

-------------------------------------------------------------------------------
(* Put Block List. *)

put_block_list(r) ==
    /\ "put_block_list" \in Ops
    /\ \E b \in Blobs, refs \in BlockLists :
         /\ Home[b] \in containers
         /\ Admit(Home[b], b, None)
         /\ Begin(r, [IdleReq EXCEPT !.pc = "bl_committed", !.c = Home[b], !.b = b,
                                     !.refs = refs])
    /\ UNCHANGED <<dbVars, files, history>>

(* get_committed_blocks reads an error as an empty list. *)
put_block_list_committed(r) ==
    /\ req[r].pc = "bl_committed"
    /\ \E comm \in {committed_map(req[r].b)} \cup (IF "fault" \in Env THEN {NoBlocks} ELSE {}) :
         Continue(r, [req[r] EXCEPT !.pc = "bl_resolve", !.comm = comm])
    /\ UNCHANGED <<dbVars, files, history>>

(* How one entry resolves, given its staged row s and the size m of the    *)
(* committed block of that id: a set of at most one resolved block.  A     *)
(* Latest entry that is only committed resolves to no path (has = FALSE).  *)
resolve_block(ref, s, m) ==
    LET Block(n, has) == {[id |-> ref.id, size |-> n, has |-> has]} IN
    IF s = None
    THEN IF ref.kind = "Latest" /\ m # None THEN Block(m, FALSE) ELSE {}
    ELSE IF ref.kind # "Committed" THEN Block(Size[s], TRUE)
    ELSE IF m # None THEN Block(m, TRUE) ELSE {}

put_block_list_resolve(r) ==
    /\ req[r].pc = "bl_resolve"
    /\ req[r].refs # <<>>
    /\ LET ref == Head(req[r].refs)
           found == resolve_block(ref, staged[req[r].b][ref.id], req[r].comm[ref.id])
       IN  \/ /\ found = {}
              /\ End(r)
           \/ \E x \in found : Continue(r, [req[r] EXCEPT !.refs = Tail(@), !.res = Append(@, x)])
    /\ UNCHANGED <<dbVars, files, history>>

(* Every entry is resolved; one without a path rejects the list. *)
put_block_list_check(r) ==
    /\ req[r].pc = "bl_resolve"
    /\ req[r].refs = <<>>
    /\ IF \E k \in DOMAIN req[r].res : ~req[r].res[k].has
       THEN End(r)
       ELSE Continue(r, [req[r] EXCEPT !.pc = "bl_concat", !.out = <<>>])
    /\ UNCHANGED <<dbVars, files, history>>

(* MUTANT of put_block_list_part: a missing part is not noticed. *)
put_block_list_part_unchecked(r) ==
    LET k == Len(req[r].out) + 1 IN
    /\ req[r].pc = "bl_concat"
    /\ k <= Len(req[r].res)
    /\ Continue(r, [req[r] EXCEPT !.out = Append(@, blockFile[req[r].b][req[r].res[k].id])])
    /\ UNCHANGED <<dbVars, files, history>>

(* The next part is opened and copied; a missing part is an error. *)
put_block_list_part(r) ==
    LET k == Len(req[r].out) + 1
        part == blockFile[req[r].b][req[r].res[k].id]
    IN  /\ req[r].pc = "bl_concat"
        /\ k <= Len(req[r].res)
        /\ IF part = None
           THEN End(r)
           ELSE Continue(r, [req[r] EXCEPT !.out = Append(@, part)])
        /\ UNCHANGED <<dbVars, files, history>>

put_block_list_rename(r) ==
    /\ req[r].pc = "bl_concat"
    /\ Len(req[r].out) = Len(req[r].res)
    /\ replace_blob_file(req[r].b, req[r].out)
    /\ Goto(r, "bl_commit")
    /\ UNCHANGED <<dbVars, blockFile>>

put_block_list_commit(r) ==
    LET rows == [k \in DOMAIN req[r].res |->
                   [id |-> req[r].res[k].id, size |-> req[r].res[k].size]]
    IN  /\ req[r].pc = "bl_commit"
        /\ foreign_key(req[r].b)
        /\ commit_block_list_tx(req[r].b, rows, req[r].out)
        /\ dirty' = dirty \ {req[r].b}
        /\ IF rows = <<>> THEN End(r) ELSE Goto(r, "bl_cleanup")
        /\ UNCHANGED <<files, renamed>>

(* MUTANT of put_block_list_cleanup: the loop does not advance. *)
put_block_list_cleanup_stuck(r) ==
    /\ req[r].pc = "bl_cleanup"
    /\ unlink_block(req[r].b, Head(req[r].res).id)
    /\ UNCHANGED <<dbVars, blobFile, req, history>>

put_block_list_cleanup(r) ==
    /\ req[r].pc = "bl_cleanup"
    /\ unlink_block(req[r].b, Head(req[r].res).id)
    /\ IF Len(req[r].res) = 1
       THEN End(r)
       ELSE Continue(r, [req[r] EXCEPT !.res = Tail(@)])
    /\ UNCHANGED <<dbVars, blobFile, history>>

-------------------------------------------------------------------------------
(* Containers. *)

create_container(r) ==
    /\ "create_container" \in Ops
    /\ req[r].pc = "idle"
    /\ \E c \in Containers : insert_container(c)
    /\ UNCHANGED <<files, req, history>>

delete_container(r) ==
    /\ "delete_container" \in Ops
    /\ \E c \in containers :
         /\ Admit(c, None, None)
         /\ Begin(r, [IdleReq EXCEPT !.pc = "dc_tx", !.c = c])
    /\ UNCHANGED <<dbVars, files, history>>

delete_container_rows(r) ==
    LET rows == {b \in BlobsOf(req[r].c) : blobs[b] # None} IN
    /\ req[r].pc = "dc_tx"
    /\ delete_container_tx(req[r].c)
    /\ Continue(r, [req[r] EXCEPT !.pc = IF rows = {} THEN "dc_rmdir" ELSE "dc_unlink",
                                  !.left = rows])
    /\ UNCHANGED <<files, history>>

delete_container_unlink(r) ==
    /\ req[r].pc = "dc_unlink"
    /\ \E b \in req[r].left :
         /\ unlink_blob(b)
         /\ Continue(r, [req[r] EXCEPT !.pc = IF req[r].left = {b}
                                              THEN "dc_rmdir" ELSE "dc_unlink",
                                       !.left = @ \ {b}])
    /\ UNCHANGED <<dbVars, blockFile, history>>

(* remove_dir_all takes the files under the container one by one. *)
delete_container_rmdir(r) ==
    /\ req[r].pc = "dc_rmdir"
    /\ \E b \in BlobsOf(req[r].c) :
         \/ /\ blobFile[b] # None
            /\ blobFile' = [blobFile EXCEPT ![b] = None]
            /\ UNCHANGED blockFile
         \/ \E i \in BlockIds :
              /\ blockFile[b][i] # None
              /\ blockFile' = [blockFile EXCEPT ![b][i] = None]
              /\ UNCHANGED blobFile
    /\ UNCHANGED <<dbVars, req, history>>

(* It ends when nothing is left, or on an error, which is discarded: an    *)
(* I/O error, or a directory into which another request has written.       *)
delete_container_end(r) ==
    /\ req[r].pc = "dc_rmdir"
    /\ \/ \A b \in BlobsOf(req[r].c) : blobFile[b] = None /\ blockFile[b] = NoBlocks
       \/ {"fault", "overlap"} \cap Env # {}
    /\ End(r)
    /\ UNCHANGED <<dbVars, files, history>>

-------------------------------------------------------------------------------
(* Failures. *)

(* The awaits whose error the handler returns with `?`. *)
FailPC == {"pb_write", "pb_upsert", "gb_open", "gb_stream", "db_delete", "bk_write",
           "bk_stage", "bl_resolve", "bl_concat", "bl_commit", "dc_tx"}

(* A statement or file operation fails and the handler returns the error,  *)
(* leaving what it has done.                                               *)
Fail(r) ==
    /\ "fault" \in Env
    /\ req[r].pc \in FailPC
    /\ End(r)
    /\ UNCHANGED <<dbVars, files, history>>

(* The container is gone when the row is to be written: ContainerNotFound, *)
(* or the foreign key refuses the row.  The renamed file stays.            *)
NoContainer(r) ==
    /\ req[r].pc \in {"pb_upsert", "bl_commit"}
    /\ ~foreign_key(req[r].b)
    /\ End(r)
    /\ UNCHANGED <<dbVars, files, history>>

(* The client disconnects: the future is dropped at an await.  The         *)
(* statement or file operation already handed to a blocking thread or to   *)
(* SQLite runs to its end, later, and nothing after it does.               *)
Cancel(r) ==
    /\ "cancel" \in Env
    /\ req[r].pc # "idle"
    /\ req[r].live
    /\ req' = [req EXCEPT ![r].live = FALSE]
    /\ UNCHANGED <<dbVars, files, history>>

(* The future was dropped before it had handed anything over: it was still *)
(* receiving the body or waiting for a database connection.  An unlink is  *)
(* handed over as soon as it is reached.                                   *)
Drop(r) ==
    /\ ~req[r].live
    /\ req[r].pc \notin {"pb_reject", "db_unlink", "bl_cleanup", "dc_unlink", "dc_rmdir"}
    /\ End(r)
    /\ UNCHANGED <<dbVars, files, history>>

(* Tables and files are durable; the requests are gone. *)
Crash ==
    /\ "crash" \in Env
    /\ req' = [r \in Requests |-> IdleReq]
    /\ UNCHANGED <<dbVars, files, history>>

-------------------------------------------------------------------------------
Start(r) ==
    \/ put_blob(r) \/ get_blob(r) \/ delete_blob(r) \/ put_block(r) \/ put_block_list(r)
    \/ create_container(r) \/ delete_container(r)

Step(r) ==
    \/ put_blob_write(r) \/ put_blob_reject(r) \/ put_blob_upsert(r)
    \/ get_blob_open(r) \/ get_blob_stream(r)
    \/ delete_blob_delete(r) \/ delete_blob_committed(r)
    \/ delete_blob_staged(r) \/ delete_blob_unlink(r)
    \/ put_block_write(r) \/ put_block_stage(r)
    \/ put_block_list_committed(r) \/ put_block_list_resolve(r) \/ put_block_list_check(r)
    \/ put_block_list_part(r) \/ put_block_list_rename(r) \/ put_block_list_commit(r)
    \/ put_block_list_cleanup(r)
    \/ delete_container_rows(r) \/ delete_container_unlink(r)
    \/ delete_container_rmdir(r) \/ delete_container_end(r)
    \/ NoContainer(r)

Disturbance(r) == Fail(r) \/ Cancel(r) \/ Drop(r)

Next ==
    \/ \E r \in Requests : Start(r) \/ Step(r) \/ Disturbance(r)
    \/ Crash

Spec == Init /\ [][Next]_vars

(* The runtime polls every request that is not dropped, and every          *)
(* statement and file operation returns.                                   *)
FairSpec == Spec /\ \A r \in Requests : WF_vars(Step(r))

-------------------------------------------------------------------------------
(* What holds whatever clients, faults and crashes do. *)

(* The blobs table never has a row in a container that does not exist, not *)
(* even while delete_container races an upload that passed its own check.  *)
BlobRowHasContainer ==
    \A b \in Blobs : blobs[b] # None => Home[b] \in containers

(* "The DB is only updated once the durable write has succeeded": a row    *)
(* describes bytes that were, at some time, at the blob's path.            *)
RowWasWritten ==
    \A b \in Blobs : blobs[b] # None => blobs[b] \in renamed[b]

-------------------------------------------------------------------------------
(* What holds when clients do not write to one blob concurrently. *)

(* Row and file agree, but for a blob whose upload has renamed its file    *)
(* and not yet, or, after an error or a crash, never, written its row.     *)
Consistent ==
    \A b \in Blobs : blobs[b] # None /\ b \notin dirty => blobFile[b] = blobs[b]

(* A staged row always has its file: Put Block makes the file first, and   *)
(* Put Block List, Delete Blob and Delete Container delete the row first.  *)
StagedRowHasFile ==
    \A b \in Blobs, i \in BlockIds : staged[b][i] # None => blockFile[b][i] # None

(* staged_blocks has no foreign key, yet no staged row outlives its        *)
(* container.                                                              *)
StagedRowHasContainer ==
    \A b \in Blobs, i \in BlockIds : staged[b][i] # None => Home[b] \in containers

(* Between resolving a list and assembling it, Put Block List loses none   *)
(* of its parts: each still has its staged row and its file.               *)
AssembledFromStaged ==
    \A r \in Requests :
        req[r].pc = "bl_concat" =>
            \A k \in DOMAIN req[r].res :
                /\ blockFile[req[r].b][req[r].res[k].id] # None
                /\ staged[req[r].b][req[r].res[k].id] # None

-------------------------------------------------------------------------------
(* What holds when, moreover, nothing fails. *)

Quiet(b) == \A r \in Requests : req[r].pc \in WriterPC => req[r].c # Home[b]

(* Once the requests for it have ended, a blob has a file exactly when it  *)
(* has a row, with the content the row describes; every staged row         *)
(* describes its file; and a container that is gone has left no file.      *)
QuietIsClean ==
    \A b \in Blobs : Quiet(b) =>
        /\ blobFile[b] = blobs[b]
        /\ \A i \in BlockIds : staged[b][i] # None => blockFile[b][i] = staged[b][i]
        /\ Home[b] \notin containers => blockFile[b] = NoBlocks

(* The store a client sees.  A blob is gone, and its blocks with it, once   *)
(* Delete Blob has deleted its row: the rows of its blocks, deleted next,   *)
(* are no longer its blocks.                                                *)
Deleting(b, pcs) == \E r \in Requests : req[r].pc \in pcs /\ req[r].b = b

SeenStaged ==
    [b \in Blobs |-> IF Deleting(b, {"db_committed", "db_staged"}) THEN NoBlocks ELSE staged[b]]

SeenBlocks ==
    [b \in Blobs |-> IF Deleting(b, {"db_committed"}) THEN <<>>
                     ELSE [k \in DOMAIN committed[b] |-> committed[b][k].id]]

Store == INSTANCE BlobStore WITH content <- blobs, staged <- SeenStaged, blocks <- SeenBlocks

(* Every operation takes effect at once: the content Put Block List         *)
(* commits, copied file by file, is that of the blocks staged at the        *)
(* commit, though other requests run between its statements; nothing of a   *)
(* deleted blob or container comes back.                                    *)
ImplementsStore == Store!Spec

(* The committed block list of a blob has the sizes of the parts of which  *)
(* the content is made, when the content comes from Put Block List.        *)
BlockListDescribesContent ==
    \A b \in Blobs : blobs[b] # None =>
        /\ Len(committed[b]) = Len(blobs[b])
        /\ \A k \in DOMAIN blobs[b] : committed[b][k].size = Size[blobs[b][k]]

(* Every request comes to an end: the loops over block lists, over the     *)
(* paths of a container and over its directory terminate.                  *)
RequestsEnd ==
    \A r \in Requests : req[r].pc # "idle" ~> req[r].pc = "idle"

-------------------------------------------------------------------------------
(* What the documents say and the code does not do. *)

(* docs/design.md: "GETs are never torn".  The length and MD5 that get_blob *)
(* answers with are those of the bytes it sends.                           *)
GetIsNeverTorn ==
    \A r \in Requests : req[r].pc = "gb_stream" => req[r].row = req[r].out

(* backend.rs: get_blob "Returns blob properties plus a streaming reader"; *)
(* a blob that has properties has bytes to read.                           *)
BlobIsReadable ==
    \A b \in Blobs : Quiet(b) /\ blobs[b] # None => blobFile[b] # None
===============================================================================
