-------------------------------- MODULE Handlers -------------------------------
(***************************************************************************)
(* The HTTP handlers of blobs.rs and containers.rs down to the rows of the  *)
(* containers and blobs tables: what a handler checks, writes, reads back  *)
(* and answers while other requests write the same row.  A setter is three  *)
(* statements without a transaction (metadata_db.rs): a check, an UPDATE,   *)
(* and a read of the row it answers with.  The bytes, the files and the     *)
(* block tables are the business of FsBackend: of an upload only the        *)
(* statements on these two tables are here.                                 *)
(*                                                                          *)
(* A value is known by the write it came from: a request writes its own     *)
(* stamp into every column it has a value for, and 0 (NULL) into the others *)
(* that its statement names.  Content-Encoding, Content-Language,           *)
(* Cache-Control and Content-Disposition are written together and are one   *)
(* column, enc.  The stamp is also the ETag and the Last-Modified:          *)
(* generate_etag is the clock in nanoseconds, taken to be different each    *)
(* time it is read.                                                         *)
(***************************************************************************)
EXTENDS ByteRange, BlockListXml

CONSTANTS
    Containers,   \* container names
    Blobs,        \* blobs, each in one container
    Home,         \* the container of each blob
    Requests,     \* requests that can be in flight at once
    Ranges,       \* <<x-ms-range, Range>> headers clients send
    Documents,    \* block list bodies clients send
    Lengths,      \* lengths of uploads
    Omissions,    \* sets of optional headers clients leave out together
    MaxStamps     \* bound on the writes of one instance

ASSUME HandlersAssumption ==
    /\ Home \in [Blobs -> Containers]
    /\ Containers \cap Blobs = {}
    /\ None \notin Containers \cup Blobs
    /\ Ranges \subseteq (RangeHeader \cup {None}) \X (RangeHeader \cup {None})
    /\ \A doc \in Documents : IsDocument(doc)
    /\ Lengths \subseteq U64
    /\ MaxStamps \in Nat

Keys == Containers \cup Blobs
Columns == {"acl", "meta", "content", "type", "md5", "enc"}

VARIABLES
    rows,     \* the two tables: the row of each container and blob, or None
    clock,    \* the stamps handed out so far
    req       \* the requests: arguments, locals, the answer, and histories

vars == <<rows, clock, req>>

Row == [etag : Nat, len : U64, col : [Columns -> Nat]]

ASSUME NoRowAssumption == None \notin Row

-------------------------------------------------------------------------------
(* Operations. *)

Setters == {"set_container_metadata", "set_container_acl", "set_blob_properties", "set_blob_metadata"}
Uploads == {"put_blob", "put_block_list"}
Deletes == {"delete_container", "delete_blob"}
Writers == Setters \cup Uploads \cup {"create_container"}
Ops == Writers \cup Deletes \cup {"get", "none"}

(* The columns the statement of each operation names. *)
Writes(op) ==
    CASE op = "create_container" -> {"acl", "meta"}
      [] op = "set_container_acl" -> {"acl"}
      [] op \in {"set_container_metadata", "set_blob_metadata"} -> {"meta"}
      [] op = "set_blob_properties" -> {"type", "md5", "enc"}
      [] op \in Uploads -> {"content", "type", "md5", "meta"}
      [] OTHER -> {}

(* The headers a client may leave out: without them, NULL is written. *)
Optional(op) ==
    CASE op = "set_blob_properties" -> {"type", "md5", "enc"}
      [] op \in Uploads -> {"type"}
      [] OTHER -> {}

(* The columns for which a request brings a value. *)
Given(op) == {Writes(op) \ out : out \in Omissions \cap SUBSET Optional(op)}

-------------------------------------------------------------------------------
(* Requests. *)

(* Where a request is: its body is parsed; its body is uploaded; the        *)
(* statement is next; a new container's directory is; the read of the row   *)
(* to answer with is.  An answered request keeps its place until the place  *)
(* is taken, so that its answer can be compared with what comes after.      *)
PendingPC == {"parsed", "body", "commit", "write", "mkdir", "read"}
PC == {"idle", "done"} \cup PendingPC

IdleReq ==
    [pc |-> "idle", op |-> "none", key |-> None,
     stamp |-> 0, len |-> 0, given |-> {},  \* what it writes
     before |-> None,                       \* the row as it was checked
     doc |-> <<>>, parsed |-> None,         \* Put Block List: the body
     row |-> None,                          \* the answer: the row it describes
     applied |-> FALSE,                     \* history: its statement wrote the row
     gone |-> FALSE,                        \* history: the row was deleted since
     lost |-> {}]                           \* history: columns others wrote since

Req ==
    [pc : PC, op : Ops, key : Keys \cup {None},
     stamp : Nat, len : U64, given : SUBSET Columns,
     before : Row \cup {None},
     doc : Documents \cup {<<>>},
     parsed : {parse_block_list_request(Events(doc)) : doc \in Documents} \cup {None},
     row : Row \cup {None},
     applied : BOOLEAN, gone : BOOLEAN, lost : SUBSET Columns]

EmptyRow == [etag |-> 0, len |-> 0, col |-> [c \in Columns |-> 0]]

(* The tables are new, or as an earlier process left them, with stamps      *)
(* older than every stamp to come; values of that time are 0 as NULL is.    *)
Init ==
    /\ rows \in {[k \in Keys |-> None], [k \in Keys |-> EmptyRow]}
    /\ clock = 0
    /\ req = [r \in Requests |-> IdleReq]

Free(r) == req[r].pc \in {"idle", "done"}
Fresh(op, k, given) == [IdleReq EXCEPT !.op = op, !.key = k, !.given = given]
Become(r, q) == req' = [req EXCEPT ![r] = q]
Goto(r, pc) == Become(r, [req[r] EXCEPT !.pc = pc])

(* An answer without a row leaves nothing to compare with: the place is     *)
(* free.  The code, of AzureErrorCode or 202 Accepted, is only named.       *)
Answer(code) == IdleReq
NotFound(k) == IF k \in Containers THEN "ContainerNotFound" ELSE "BlobNotFound"

(* generate_etag and now_rfc1123; MaxStamps bounds the instance. *)
generate_etag ==
    /\ clock < MaxStamps
    /\ clock' = clock + 1

(* get_container and get_blob answer the row, or None: there is none, or    *)
(* the query failed (`.ok()??`).                                            *)
get_row(k) == {rows[k], None}

(* The value of a column the statement of q names. *)
Value(q, c) == IF c \in q.given THEN q.stamp ELSE 0

(* MUTANT of written_row: every other column as it was when it was checked. *)
written_row_from_check(q, old) ==
    [etag |-> q.stamp, len |-> IF q.op \in Uploads THEN q.len ELSE old.len,
     col |-> [c \in Columns |-> IF c \in Writes(q.op) THEN Value(q, c)
                                ELSE IF q.before # None THEN q.before.col[c] ELSE old.col[c]]]

(* MUTANT of written_row: setters keep the ETag. *)
written_row_keeps_etag(q, old) ==
    [etag |-> IF q.op \in Setters THEN old.etag ELSE q.stamp,
     len |-> IF q.op \in Uploads THEN q.len ELSE old.len,
     col |-> [c \in Columns |-> IF c \in Writes(q.op) THEN Value(q, c) ELSE old.col[c]]]

(* INSERT, UPDATE and ON CONFLICT DO UPDATE: the columns the statement      *)
(* names, and the others as they are.  A new row has no other columns.      *)
written_row(q, old) ==
    [etag |-> q.stamp, len |-> IF q.op \in Uploads THEN q.len ELSE old.len,
     col |-> [c \in Columns |-> IF c \in Writes(q.op) THEN Value(q, c) ELSE old.col[c]]]

(* The statement of request r, now q, writes the row of its key. *)
Write(r, q) ==
    LET k == q.key IN
    /\ rows' = [rows EXCEPT ![k] = written_row(q, IF @ = None THEN EmptyRow ELSE @)]
    /\ req' = [s \in Requests |->
                 IF s = r THEN [q EXCEPT !.applied = TRUE, !.gone = FALSE, !.lost = {}]
                 ELSE IF req[s].key = k THEN [req[s] EXCEPT !.lost = @ \cup Writes(q.op)]
                 ELSE req[s]]

(* The statement of request r, which is answered by it, deletes rows. *)
Remove(r, ks) ==
    /\ rows' = [k \in Keys |-> IF k \in ks THEN None ELSE rows[k]]
    /\ req' = [s \in Requests |->
                 IF s = r THEN Answer("Accepted")
                 ELSE IF req[s].key \in ks THEN [req[s] EXCEPT !.gone = TRUE]
                 ELSE req[s]]

-------------------------------------------------------------------------------
(* Requests come in. *)

(* A setter: require_container or require_blob, then the stamp. *)
set(r, op, k) ==
    \E row \in get_row(k), given \in Given(op) :
        \/ row = None /\ Become(r, Answer(NotFound(k))) /\ UNCHANGED clock
        \/ /\ row # None
           /\ generate_etag
           /\ Become(r, [Fresh(op, k, given) EXCEPT !.pc = "write", !.stamp = clock', !.before = row])

(* PUT of a container: comp=metadata, comp=acl, and anything else creates.  *)
(* create_container checks nothing; its stamp comes before the INSERT.      *)
container_put(r) ==
    /\ Free(r)
    /\ \E k \in Containers :
         \/ set(r, "set_container_metadata", k)
         \/ set(r, "set_container_acl", k)
         \/ /\ generate_etag
            /\ Become(r, [Fresh("create_container", k, Writes("create_container")) EXCEPT
                            !.pc = "write", !.stamp = clock'])
    /\ UNCHANGED rows

(* PUT of a blob, comp=properties and comp=metadata. *)
blob_put_set(r) ==
    /\ Free(r)
    /\ \E k \in Blobs : set(r, "set_blob_properties", k) \/ set(r, "set_blob_metadata", k)
    /\ UNCHANGED rows

(* PUT of a blob, any other comp but block and blocklist: Put Blob, refused *)
(* for another blob type.  The container is checked before the body.        *)
blob_put_blob(r) ==
    /\ Free(r)
    /\ \E k \in Blobs, supported \in BOOLEAN : \E row \in get_row(Home[k]) :
         Become(r, IF ~supported THEN Answer("FeatureNotSupported")
                   ELSE IF row = None THEN Answer("ContainerNotFound")
                   ELSE [Fresh("put_blob", k, {}) EXCEPT !.pc = "body"])
    /\ UNCHANGED <<rows, clock>>

(* PUT of a blob, comp=blocklist: the body is read, at most 64 MiB, and     *)
(* parsed.                                                                  *)
blob_put_blocklist(r) ==
    /\ Free(r)
    /\ \/ Become(r, Answer("InvalidXmlDocument"))
       \/ \E k \in Blobs, doc \in Documents :
            Become(r, [Fresh("put_block_list", k, {}) EXCEPT
                         !.pc = "parsed", !.doc = doc,
                         !.parsed = parse_block_list_request(Events(doc))])
    /\ UNCHANGED <<rows, clock>>

(* The blocks go to put_block_list, which checks the container first. *)
put_block_list(r) ==
    /\ req[r].pc = "parsed"
    /\ \E row \in get_row(Home[req[r].key]) :
         Become(r, IF req[r].parsed.error # "none" THEN Answer(req[r].parsed.error)
                   ELSE IF row = None THEN Answer("ContainerNotFound")
                   ELSE [Fresh("put_block_list", req[r].key, {}) EXCEPT !.pc = "body"])
    /\ UNCHANGED <<rows, clock>>

(* GET and HEAD: one read of the row.  Which bytes go with it is a function *)
(* of the headers and of the length in the row.                             *)
get(r) ==
    /\ Free(r)
    /\ \E k \in Keys : \E row \in get_row(k) :
         Become(r, IF row = None THEN Answer(NotFound(k))
                   ELSE [Fresh("get", k, {}) EXCEPT !.pc = "done", !.row = row])
    /\ UNCHANGED <<rows, clock>>

(* What Get Blob sends of a blob of this row. *)
blob_get(headers, row) == range_answer(range_header(headers[1], headers[2]), row.len)

(* DELETE: a check, then the statement or the transaction. *)
delete(r) ==
    /\ Free(r)
    /\ \E k \in Keys : \E row \in get_row(k) :
         Become(r, IF row = None THEN Answer(NotFound(k))
                   ELSE [Fresh(IF k \in Blobs THEN "delete_blob" ELSE "delete_container", k, {})
                           EXCEPT !.pc = "write"])
    /\ UNCHANGED <<rows, clock>>

-------------------------------------------------------------------------------
(* Statements. *)

(* MUTANT of update_row: WHERE etag = the ETag that was checked. *)
update_row_if_unchanged(r) ==
    LET q == [req[r] EXCEPT !.pc = "read"] IN
    /\ req[r].pc = "write"
    /\ req[r].op \in Setters
    /\ IF rows[q.key] # None /\ rows[q.key].etag = q.before.etag
       THEN Write(r, q) ELSE Become(r, q) /\ UNCHANGED rows
    /\ UNCHANGED clock

(* UPDATE ... WHERE the key: no error when there is no such row any more. *)
update_row(r) ==
    LET q == [req[r] EXCEPT !.pc = "read"] IN
    /\ req[r].pc = "write"
    /\ req[r].op \in Setters
    /\ IF rows[q.key] # None THEN Write(r, q) ELSE Become(r, q) /\ UNCHANGED rows
    /\ UNCHANGED clock

(* INSERT INTO containers, refused by the primary key. *)
insert_container(r) ==
    /\ req[r].pc = "write"
    /\ req[r].op = "create_container"
    /\ IF rows[req[r].key] = None
       THEN Write(r, [req[r] EXCEPT !.pc = "mkdir"])
       ELSE Become(r, Answer("ContainerAlreadyExists")) /\ UNCHANGED rows
    /\ UNCHANGED clock

(* The directory is made; the answer is made of the values inserted, not    *)
(* read back.                                                               *)
create_dir(r) ==
    /\ req[r].pc = "mkdir"
    /\ Become(r, [req[r] EXCEPT !.pc = "done", !.row = written_row(req[r], EmptyRow)])
    /\ UNCHANGED <<rows, clock>>

(* The bytes are in place (or their MD5 is not the one announced), and the  *)
(* container is checked again.  The stamp of Put Blob is taken here.        *)
upload_check(r) ==
    /\ req[r].pc = "body"
    /\ \E row \in get_row(Home[req[r].key]), given \in Given(req[r].op), len \in Lengths :
         LET q == [req[r] EXCEPT !.given = given, !.len = len] IN
         \/ Become(r, Answer("Md5Mismatch")) /\ req[r].op = "put_blob" /\ UNCHANGED clock
         \/ Become(r, Answer("InvalidBlockList")) /\ req[r].op = "put_block_list" /\ UNCHANGED clock
         \/ row = None /\ Become(r, Answer("ContainerNotFound")) /\ UNCHANGED clock
         \/ /\ row # None /\ req[r].op = "put_blob"
            /\ generate_etag
            /\ Become(r, [q EXCEPT !.pc = "write", !.stamp = clock'])
         \/ /\ row # None /\ req[r].op = "put_block_list"
            /\ Become(r, [q EXCEPT !.pc = "commit"])
            /\ UNCHANGED clock
    /\ UNCHANGED rows

(* Put Blob: INSERT ... ON CONFLICT DO UPDATE, refused by the foreign key. *)
upsert_blob_single_shot(r) ==
    /\ req[r].pc = "write"
    /\ req[r].op = "put_blob"
    /\ IF rows[Home[req[r].key]] = None
       THEN Become(r, Answer("InternalError")) /\ UNCHANGED rows
       ELSE Write(r, [req[r] EXCEPT !.pc = "read"])
    /\ UNCHANGED clock

(* Put Block List: one transaction; its stamp is taken inside. *)
commit_block_list(r) ==
    /\ req[r].pc = "commit"
    /\ generate_etag
    /\ IF rows[Home[req[r].key]] = None
       THEN Become(r, Answer("InternalError")) /\ UNCHANGED rows
       ELSE Write(r, [req[r] EXCEPT !.pc = "read", !.stamp = clock'])

delete_blob(r) ==
    /\ req[r].pc = "write"
    /\ req[r].op = "delete_blob"
    /\ Remove(r, {req[r].key})
    /\ UNCHANGED clock

(* One transaction deletes the container and the rows of its blobs. *)
delete_container(r) ==
    /\ req[r].pc = "write"
    /\ req[r].op = "delete_container"
    /\ Remove(r, {req[r].key} \cup {b \in Blobs : Home[b] = req[r].key})
    /\ UNCHANGED clock

(* MUTANT of read_back: the row that was checked is answered. *)
read_back_checked(r) ==
    /\ req[r].pc = "read"
    /\ \E row \in get_row(req[r].key) :
         Become(r, IF row = None THEN Answer(NotFound(req[r].key))
                   ELSE [req[r] EXCEPT !.pc = "done", !.before = None,
                                       !.row = IF req[r].before = None THEN row ELSE req[r].before])
    /\ UNCHANGED <<rows, clock>>

(* The row to answer with. *)
read_back(r) ==
    /\ req[r].pc = "read"
    /\ \E row \in get_row(req[r].key) :
         Become(r, IF row = None THEN Answer(NotFound(req[r].key))
                   ELSE [req[r] EXCEPT !.pc = "done", !.row = row, !.before = None])
    /\ UNCHANGED <<rows, clock>>

-------------------------------------------------------------------------------
(* A statement, an upload or the directory fails. *)
Fail(r) ==
    /\ req[r].pc \in {"body", "write", "commit", "mkdir"}
    /\ Become(r, Answer("InternalError"))
    /\ UNCHANGED <<rows, clock>>

(* The client disconnects, or the server stops. *)
Drop(r) ==
    /\ req[r].pc \in PendingPC
    /\ Become(r, IdleReq)
    /\ UNCHANGED <<rows, clock>>

Start(r) ==
    \/ container_put(r) \/ blob_put_set(r) \/ blob_put_blob(r) \/ blob_put_blocklist(r)
    \/ get(r) \/ delete(r)

Step(r) ==
    \/ put_block_list(r) \/ update_row(r) \/ insert_container(r) \/ create_dir(r)
    \/ upload_check(r) \/ upsert_blob_single_shot(r) \/ commit_block_list(r)
    \/ delete_blob(r) \/ delete_container(r) \/ read_back(r)

Next == \E r \in Requests : Start(r) \/ Step(r) \/ Fail(r) \/ Drop(r)

Spec == Init /\ [][Next]_vars

-------------------------------------------------------------------------------
TypeOK ==
    /\ rows \in [Keys -> Row \cup {None}]
    /\ clock \in Nat
    /\ req \in [Requests -> Req]

(* Answered with success, and a row. *)
Succeeded(r) == req[r].pc = "done"

(* A write answered with success has been applied, although UPDATE does not *)
(* report that it found no row: unless the row was deleted during the       *)
(* request, and made again by someone else before it was read back.         *)
OkMeansApplied ==
    \A r \in Requests :
        Succeeded(r) /\ req[r].op \in Writers => req[r].applied \/ req[r].gone

(* The answer shows the request's own write, read back after any number of  *)
(* statements of others: its value in each column that none of them names,  *)
(* and its ETag when there were none.                                       *)
AnswerShowsOwnWrite ==
    \A r \in Requests :
        Succeeded(r) /\ req[r].op \in Writers /\ ~req[r].gone =>
            /\ \A c \in Writes(req[r].op) \ req[r].lost : req[r].row.col[c] = Value(req[r], c)
            /\ req[r].lost = {} => req[r].row.etag = req[r].stamp

(* No update is lost: what a request has written, answered yet or not, is   *)
(* in the row until the row is deleted or another operation on the same     *)
(* column is applied.  An update of other columns does not undo it.         *)
NoLostUpdate ==
    \A r \in Requests :
        req[r].applied /\ ~req[r].gone =>
            /\ rows[req[r].key] # None
            /\ \A c \in Writes(req[r].op) \ req[r].lost : rows[req[r].key].col[c] = Value(req[r], c)

(* A client may use what it has cached while the ETag is the same: two rows  *)
(* of one key with one ETag, answered or current, are the same row.          *)
EtagNamesOneRow ==
    \A r, s \in Requests :
        req[r].row # None =>
            /\ rows[req[r].key] # None /\ rows[req[r].key].etag = req[r].row.etag
                 => rows[req[r].key] = req[r].row
            /\ req[s].row # None /\ req[s].key = req[r].key /\ req[s].row.etag = req[r].row.etag
                 => req[s].row = req[r].row

(* Get Blob sends the bytes the range asks for, announces their number, and *)
(* refuses a range exactly when the blob has none of its bytes.             *)
RangeIsExact ==
    \A r \in Requests, headers \in Ranges :
        req[r].op = "get" =>
            Exact(blob_get(headers, req[r].row), range_header(headers[1], headers[2]), req[r].row.len)

(* "The document order [...] is preserved exactly": the blocks handed to    *)
(* put_block_list are the entries of the request's body.                    *)
BlocksInOrder ==
    \A r \in Requests : req[r].pc = "parsed" => InOrder(req[r].parsed, req[r].doc)
===============================================================================
