---------------------------- MODULE HandlersProofs -----------------------------
(* For every set of containers, blobs and requests, every mix of headers and   *)
(* any number of writes: a setter's answer tells the truth, no update is lost, *)
(* an ETag names one row, a range is served exactly, and the blocks of a list  *)
(* are those of its document, in order.                                        *)
EXTENDS Handlers, ParsingProofs

USE HandlersAssumption, NoRowAssumption, MaxU64Assumption, NoRangeAssumption

-------------------------------------------------------------------------------
(* Types. *)

LEMMA ColumnsOfOps ==
    \A op \in Ops : /\ Writes(op) \in SUBSET Columns
                    /\ Given(op) \subseteq SUBSET Columns
                    /\ op \in Writers => Writes(op) # {}
<1>1. \A op \in Ops : Writes(op) \in SUBSET Columns
  BY DEF Writes, Columns
<1>2. \A op \in Ops : Given(op) \subseteq SUBSET Columns
  BY <1>1 DEF Given
<1>3. \A op \in Writers : Writes(op) # {}
  BY DEF Writes, Writers, Setters, Uploads
<1> QED
  BY <1>1, <1>2, <1>3

LEMMA EmptyRowType == EmptyRow \in Row
  BY DEF EmptyRow, Row, U64

LEMMA IdleType == IdleReq \in Req
  BY DEF IdleReq, Req, PC, Ops, U64

LEMMA WrittenRow ==
    ASSUME NEW q \in Req, NEW old \in Row
    PROVE  /\ written_row(q, old) \in Row
           /\ written_row(q, old) # None
           /\ written_row(q, old).etag = q.stamp
           /\ \A c \in Columns :
                written_row(q, old).col[c] = IF c \in Writes(q.op) THEN Value(q, c) ELSE old.col[c]
<1>1. q.stamp \in Nat /\ q.len \in U64
  BY DEF Req
<1>2. old.len \in U64 /\ old.col \in [Columns -> Nat]
  BY DEF Row
<1>3. \A c \in Columns : Value(q, c) \in Nat
  BY <1>1 DEF Value
<1>4. written_row(q, old) \in Row
  BY <1>1, <1>2, <1>3 DEF written_row, Row
<1>5. written_row(q, old) # None
  BY <1>4
<1>6. written_row(q, old).etag = q.stamp
  BY DEF written_row
<1>7. \A c \in Columns :
        written_row(q, old).col[c] = IF c \in Writes(q.op) THEN Value(q, c) ELSE old.col[c]
  BY DEF written_row
<1> QED
  BY <1>4, <1>5, <1>6, <1>7

-------------------------------------------------------------------------------
(* The shapes of a step.  Every step is a move of one request that leaves the  *)
(* tables alone, a statement that writes one row, or one that deletes rows.    *)

(* A request that has just come in. *)
Opened(q) ==
    /\ q.key \in Keys
    /\ ~q.applied /\ ~q.gone /\ q.lost = {}
    /\ q.op # "get" => q.row = None

(* A request whose body is parsed has what the parser makes of its document. *)
HoldsParsed(q) ==
    q.pc = "parsed" => q.doc \in Documents /\ q.parsed = parse_block_list_request(Events(q.doc))

Moved(p, q) ==
    \/ q = IdleReq
    \/ /\ Opened(q) /\ q.pc = "write" /\ q.op \in Setters
       /\ rows[q.key] # None
       /\ q.stamp = clock + 1 /\ clock' = clock + 1
    \/ /\ Opened(q) /\ q.pc = "write" /\ q.op = "create_container"
       /\ q.stamp = clock + 1 /\ clock' = clock + 1
    \/ Opened(q) /\ q.pc = "write" /\ q.op \in Deletes
    \/ Opened(q) /\ q.pc \in {"parsed", "body"} /\ q.op \in Uploads /\ HoldsParsed(q)
    \/ Opened(q) /\ q.pc = "done" /\ q.op = "get" /\ q.row = rows[q.key] /\ q.row # None
    \/ /\ p.pc = "write" /\ p.op \in Setters /\ rows[p.key] = None
       /\ q = [p EXCEPT !.pc = "read"]
    \/ p.pc = "mkdir" /\ q = [p EXCEPT !.pc = "done", !.row = written_row(p, EmptyRow)]
    \/ /\ p.pc = "body"
       /\ \E given \in SUBSET Columns, len \in U64 :
            q = [[p EXCEPT !.given = given, !.len = len] EXCEPT !.pc = "commit"]
    \/ /\ p.pc = "body" /\ p.op = "put_blob" /\ clock' = clock + 1
       /\ \E given \in SUBSET Columns, len \in U64 :
            q = [[p EXCEPT !.given = given, !.len = len] EXCEPT !.pc = "write", !.stamp = clock + 1]
    \/ /\ p.pc = "read" /\ rows[p.key] # None
       /\ q = [p EXCEPT !.pc = "done", !.row = rows[p.key], !.before = None]

Wrote(p, q) ==
    \/ /\ p.pc = "write" /\ p.op \in Setters /\ rows[p.key] # None
       /\ q = [p EXCEPT !.pc = "read"]
       /\ clock' = clock
    \/ /\ p.pc = "write" /\ p.op = "put_blob"
       /\ q = [p EXCEPT !.pc = "read"]
       /\ clock' = clock
    \/ /\ p.pc = "write" /\ p.op = "create_container" /\ rows[p.key] = None
       /\ q = [p EXCEPT !.pc = "mkdir"]
       /\ clock' = clock
    \/ /\ p.pc = "commit"
       /\ q = [p EXCEPT !.pc = "read", !.stamp = clock + 1]
       /\ clock' = clock + 1

Move(r) ==
    \E q \in Req : /\ rows' = rows
                   /\ clock' \in {clock, clock + 1}
                   /\ req' = [req EXCEPT ![r] = q]
                   /\ Moved(req[r], q)

Statement(r) == \E q \in Req : Wrote(req[r], q) /\ Write(r, q)

Removal(r) == \E ks \in SUBSET Keys : clock' = clock /\ Remove(r, ks)

(* A request that is not idle has a key. *)
Keyed == \A r \in Requests : req[r].pc # "idle" => req[r].key \in Keys

Shape(r) == Move(r) \/ Statement(r) \/ Removal(r)

LEMMA IdleShape ==
    ASSUME TypeOK, NEW r \in Requests,
           rows' = rows, clock' \in {clock, clock + 1}, req' = [req EXCEPT ![r] = IdleReq]
    PROVE  Shape(r)
  BY IdleType DEF Shape, Move, Moved

LEMMA FreshType ==
    ASSUME NEW op \in Ops, NEW k \in Keys, NEW given \in SUBSET Columns
    PROVE  LET f == Fresh(op, k, given)
           IN  /\ f \in Req
               /\ f.op = op /\ f.key = k /\ f.row = None
               /\ ~f.applied /\ ~f.gone /\ f.lost = {}
<1>1. ~IdleReq.applied /\ ~IdleReq.gone /\ IdleReq.lost = {} /\ IdleReq.row = None
  BY DEF IdleReq
<1>2. Fresh(op, k, given) \in Req
  BY IdleType DEF Fresh, Req
<1> QED
  BY <1>1, <1>2, IdleType DEF Fresh, Req

LEMMA OpsTypes ==
    /\ {"idle", "done", "parsed", "body", "commit", "write", "mkdir", "read"} \subseteq PC
    /\ Setters \cup Uploads \cup Deletes \cup {"create_container", "get"} \subseteq Ops
    /\ Writes("create_container") \in SUBSET Columns
    /\ {} \in SUBSET Columns
<1>1. Setters \cup Uploads \cup Deletes \cup {"create_container", "get"} \subseteq Ops
  BY DEF Ops, Writers
<1> QED
  BY <1>1, ColumnsOfOps DEF PC, PendingPC

LEMMA SetShape ==
    ASSUME TypeOK, NEW r \in Requests, NEW op \in Setters, NEW k \in Keys, set(r, op, k), rows' = rows
    PROVE  Shape(r)
<1> PICK row \in get_row(k), given \in Given(op) :
      \/ row = None /\ Become(r, Answer(NotFound(k))) /\ UNCHANGED clock
      \/ /\ row # None
         /\ generate_etag
         /\ Become(r, [Fresh(op, k, given) EXCEPT !.pc = "write", !.stamp = clock', !.before = row])
  BY DEF set
<1>1. CASE Become(r, Answer(NotFound(k))) /\ UNCHANGED clock
  BY <1>1, IdleShape DEF Become, Answer
<1>2. CASE /\ row # None
           /\ generate_etag
           /\ Become(r, [Fresh(op, k, given) EXCEPT !.pc = "write", !.stamp = clock', !.before = row])
  <2> DEFINE f == Fresh(op, k, given)
             q == [f EXCEPT !.pc = "write", !.stamp = clock', !.before = row]
  <2>1. /\ row = rows[k] /\ row \in Row
        /\ clock' = clock + 1 /\ clock' \in Nat
    BY <1>2 DEF get_row, TypeOK, generate_etag
  <2>2. op \in Ops /\ op # "get" /\ given \in SUBSET Columns /\ "write" \in PC
    BY ColumnsOfOps, OpsTypes DEF Setters
  <2>0. /\ f \in Req
        /\ f.op = op /\ f.key = k /\ f.row = None
        /\ ~f.applied /\ ~f.gone /\ f.lost = {}
    BY <2>2, FreshType
  <2> HIDE DEF f
  <2>3. /\ q \in Req /\ q.pc = "write" /\ q.op = op /\ q.key = k /\ q.stamp = clock' /\ Opened(q)
    BY <2>0, <2>1, <2>2 DEF Req, Opened
  <2> HIDE DEF q
  <2>4. Moved(req[r], q)
    BY <1>2, <2>1, <2>3 DEF Moved
  <2> QED
    BY <1>2, <2>1, <2>3, <2>4 DEF Shape, Move, Become, q, f
<1> QED
  BY <1>1, <1>2

LEMMA StartShape ==
    ASSUME TypeOK, NEW r \in Requests, Start(r)
    PROVE  Shape(r)
<1> USE OpsTypes
<1>1. CASE container_put(r)
  <2> PICK k \in Containers :
        \/ set(r, "set_container_metadata", k)
        \/ set(r, "set_container_acl", k)
        \/ /\ generate_etag
           /\ Become(r, [Fresh("create_container", k, Writes("create_container")) EXCEPT
                           !.pc = "write", !.stamp = clock'])
    BY <1>1 DEF container_put
  <2>0. rows' = rows /\ k \in Keys
    BY <1>1 DEF container_put, Keys
  <2>1. CASE set(r, "set_container_metadata", k) \/ set(r, "set_container_acl", k)
    BY <2>0, <2>1, SetShape DEF Setters
  <2>2. CASE /\ generate_etag
             /\ Become(r, [Fresh("create_container", k, Writes("create_container")) EXCEPT
                             !.pc = "write", !.stamp = clock'])
    <3> DEFINE f == Fresh("create_container", k, Writes("create_container"))
               q == [f EXCEPT !.pc = "write", !.stamp = clock']
    <3>1. clock' = clock + 1 /\ clock' \in Nat
      BY <2>2 DEF TypeOK, generate_etag
    <3>0. /\ f \in Req
          /\ f.op = "create_container" /\ f.key = k /\ f.row = None
          /\ ~f.applied /\ ~f.gone /\ f.lost = {}
      BY <2>0, FreshType
    <3> HIDE DEF f
    <3>2. q \in Req /\ q.pc = "write" /\ q.op = "create_container" /\ q.stamp = clock' /\ Opened(q)
      BY <2>0, <3>0, <3>1 DEF Req, Opened
    <3> HIDE DEF q
    <3> QED
      BY <2>0, <2>2, <3>1, <3>2 DEF Shape, Move, Moved, Become, q, f
  <2> QED
    BY <2>1, <2>2
<1>2. CASE blob_put_set(r)
  BY <1>2, SetShape DEF blob_put_set, Keys, Setters
<1>3. CASE blob_put_blob(r)
  <2> PICK k \in Blobs, supported \in BOOLEAN : \E row \in get_row(Home[k]) :
         Become(r, IF ~supported THEN Answer("FeatureNotSupported")
                   ELSE IF row = None THEN Answer("ContainerNotFound")
                   ELSE [Fresh("put_blob", k, {}) EXCEPT !.pc = "body"])
    BY <1>3 DEF blob_put_blob
  <2> DEFINE f == Fresh("put_blob", k, {})
             q == [f EXCEPT !.pc = "body"]
  <2>0. rows' = rows /\ clock' = clock /\ k \in Keys
    BY <1>3 DEF blob_put_blob, Keys
  <2>3. /\ f \in Req
        /\ f.op = "put_blob" /\ f.key = k /\ f.row = None
        /\ ~f.applied /\ ~f.gone /\ f.lost = {}
    BY <2>0, FreshType DEF Uploads
  <2> HIDE DEF f
  <2>1. q \in Req /\ q.pc = "body" /\ q.op \in Uploads /\ Opened(q) /\ HoldsParsed(q)
    BY <2>0, <2>3 DEF Req, Opened, Uploads, HoldsParsed
  <2> HIDE DEF q
  <2>2. req' = [req EXCEPT ![r] = IdleReq] \/ req' = [req EXCEPT ![r] = q]
    BY DEF Become, Answer, q, f
  <2> QED
    BY <2>0, <2>1, <2>2, IdleShape DEF Shape, Move, Moved
<1>4. CASE blob_put_blocklist(r)
  <2>0. rows' = rows /\ clock' = clock
    BY <1>4 DEF blob_put_blocklist
  <2>1. CASE Become(r, Answer("InvalidXmlDocument"))
    BY <2>0, <2>1, IdleShape DEF Become, Answer
  <2>2. ASSUME NEW k \in Blobs, NEW doc \in Documents,
               Become(r, [Fresh("put_block_list", k, {}) EXCEPT
                            !.pc = "parsed", !.doc = doc,
                            !.parsed = parse_block_list_request(Events(doc))])
        PROVE  Shape(r)
    <3> DEFINE f == Fresh("put_block_list", k, {})
               q == [f EXCEPT !.pc = "parsed", !.doc = doc,
                              !.parsed = parse_block_list_request(Events(doc))]
    <3>0. k \in Keys
      BY DEF Keys
    <3>2. /\ f \in Req
          /\ f.op = "put_block_list" /\ f.key = k /\ f.row = None
          /\ ~f.applied /\ ~f.gone /\ f.lost = {}
      BY <3>0, FreshType DEF Uploads
    <3> HIDE DEF f
    <3>1. q \in Req /\ q.pc = "parsed" /\ q.op \in Uploads /\ Opened(q)
      BY <3>0, <3>2 DEF Req, Opened, Uploads
    <3>3. HoldsParsed(q)
      BY <3>2 DEF Req, HoldsParsed
    <3> HIDE DEF q
    <3> QED
      BY <2>0, <2>2, <3>1, <3>3 DEF Shape, Move, Moved, Become, q, f
  <2> QED
    BY <1>4, <2>1, <2>2 DEF blob_put_blocklist
<1>5. CASE get(r)
  <2> PICK k \in Keys : \E row \in get_row(k) :
         Become(r, IF row = None THEN Answer(NotFound(k))
                   ELSE [Fresh("get", k, {}) EXCEPT !.pc = "done", !.row = row])
    BY <1>5 DEF get
  <2> DEFINE f == Fresh("get", k, {})
             q == [f EXCEPT !.pc = "done", !.row = rows[k]]
  <2>0. rows' = rows /\ clock' = clock
    BY <1>5 DEF get
  <2>1. CASE rows[k] # None /\ req' = [req EXCEPT ![r] = q]
    <3>1. q \in Req /\ q.pc = "done" /\ q.op = "get" /\ q.key = k /\ q.row = rows[k] /\ Opened(q)
      <4>1. /\ f \in Req
            /\ f.op = "get" /\ f.key = k /\ f.row = None
            /\ ~f.applied /\ ~f.gone /\ f.lost = {}
        BY FreshType
      <4> HIDE DEF f
      <4> QED
        BY <2>1, <4>1 DEF Req, Opened, TypeOK
    <3> HIDE DEF q
    <3> QED
      BY <2>0, <2>1, <3>1 DEF Shape, Move, Moved
  <2>2. CASE req' = [req EXCEPT ![r] = IdleReq]
    BY <2>0, <2>2, IdleShape
  <2> QED
    BY <2>1, <2>2 DEF get_row, Become, Answer
<1>6. CASE delete(r)
  <2> PICK k \in Keys : \E row \in get_row(k) :
         Become(r, IF row = None THEN Answer(NotFound(k))
                   ELSE [Fresh(IF k \in Blobs THEN "delete_blob" ELSE "delete_container", k, {})
                           EXCEPT !.pc = "write"])
    BY <1>6 DEF delete
  <2> DEFINE op == IF k \in Blobs THEN "delete_blob" ELSE "delete_container"
             f == Fresh(op, k, {})
             q == [f EXCEPT !.pc = "write"]
  <2>0. rows' = rows /\ clock' = clock /\ op \in Deletes /\ op \in Ops /\ op # "get"
    BY <1>6 DEF delete, Deletes
  <2>1. req' = [req EXCEPT ![r] = q] \/ req' = [req EXCEPT ![r] = IdleReq]
    BY DEF Become, Answer
  <2> HIDE DEF op
  <2>2. q \in Req /\ q.pc = "write" /\ q.op \in Deletes /\ Opened(q)
    <3>1. /\ f \in Req
          /\ f.op = op /\ f.key = k /\ f.row = None
          /\ ~f.applied /\ ~f.gone /\ f.lost = {}
      BY <2>0, FreshType
    <3> HIDE DEF f
    <3> QED
      BY <2>0, <3>1 DEF Req, Opened
  <2> HIDE DEF q
  <2> QED
    BY <2>0, <2>1, <2>2, IdleShape DEF Shape, Move, Moved
<1> QED
  BY <1>1, <1>2, <1>3, <1>4, <1>5, <1>6 DEF Start

LEMMA StepShape ==
    ASSUME TypeOK, Keyed, NEW r \in Requests, Step(r)
    PROVE  Shape(r)
<1> DEFINE p == req[r]
<1>0. p \in Req
  BY DEF TypeOK
<1>key. p.key \in Keys
  BY DEF p, Keyed, Step, put_block_list, update_row, insert_container, create_dir, upload_check,
     upsert_blob_single_shot, commit_block_list, delete_blob, delete_container, read_back
<1>tick. clock + 1 \in Nat
  BY DEF TypeOK
<1> HIDE DEF p
<1> USE OpsTypes
<1>1. CASE put_block_list(r)
  <2> DEFINE f == Fresh("put_block_list", p.key, {})
             q == [f EXCEPT !.pc = "body"]
  <2>1. rows' = rows /\ clock' = clock
    BY <1>1 DEF put_block_list
  <2>2. req' = [req EXCEPT ![r] = IdleReq] \/ req' = [req EXCEPT ![r] = q]
    BY <1>1 DEF put_block_list, Become, Answer, p
  <2>3. CASE req' = [req EXCEPT ![r] = q]
    <3>1. /\ f \in Req
          /\ f.op = "put_block_list" /\ f.key \in Keys /\ f.row = None
          /\ ~f.applied /\ ~f.gone /\ f.lost = {}
      BY <1>key, FreshType DEF Uploads
    <3> HIDE DEF f
    <3>2. q \in Req /\ q.pc = "body" /\ q.op \in Uploads /\ Opened(q) /\ HoldsParsed(q)
      BY <2>3, <3>1 DEF Req, Opened, Uploads, HoldsParsed
    <3> HIDE DEF q
    <3> QED
      BY <2>1, <2>3, <3>2 DEF Shape, Move, Moved
  <2> QED
    BY <2>1, <2>2, <2>3, IdleShape
<1>2. CASE update_row(r)
  <2> DEFINE q == [p EXCEPT !.pc = "read"]
  <2>1. q \in Req /\ q.key = p.key
    BY <1>0 DEF Req
  <2>2. p.pc = "write" /\ p.op \in Setters /\ clock' = clock
    BY <1>2 DEF update_row, p
  <2>3. \/ rows[p.key] # None /\ Write(r, q)
        \/ rows[p.key] = None /\ req' = [req EXCEPT ![r] = q] /\ rows' = rows
    BY <1>2, <2>1 DEF update_row, Become, p
  <2> QED
    BY <2>1, <2>2, <2>3 DEF Shape, Move, Moved, Statement, Wrote, p
<1>3. CASE insert_container(r)
  <2> DEFINE q == [p EXCEPT !.pc = "mkdir"]
  <2>1. q \in Req
    BY <1>0 DEF Req
  <2>2. p.pc = "write" /\ p.op = "create_container" /\ clock' = clock
    BY <1>3 DEF insert_container, p
  <2>3. \/ rows[p.key] = None /\ Write(r, q)
        \/ req' = [req EXCEPT ![r] = IdleReq] /\ rows' = rows
    BY <1>3 DEF insert_container, Become, Answer, p
  <2> QED
    BY <2>1, <2>2, <2>3, IdleShape DEF Shape, Statement, Wrote, p
<1>4. CASE create_dir(r)
  <2> DEFINE q == [p EXCEPT !.pc = "done", !.row = written_row(p, EmptyRow)]
  <2>1. q \in Req
    BY <1>0, EmptyRowType, WrittenRow DEF Req
  <2> QED
    BY <1>4, <2>1 DEF create_dir, Become, Shape, Move, Moved, p
<1>5. CASE upload_check(r)
  <2> PICK row \in get_row(Home[p.key]), given \in Given(p.op), len \in Lengths :
         LET q == [p EXCEPT !.given = given, !.len = len] IN
         \/ Become(r, Answer("Md5Mismatch")) /\ p.op = "put_blob" /\ UNCHANGED clock
         \/ Become(r, Answer("InvalidBlockList")) /\ p.op = "put_block_list" /\ UNCHANGED clock
         \/ row = None /\ Become(r, Answer("ContainerNotFound")) /\ UNCHANGED clock
         \/ /\ row # None /\ p.op = "put_blob"
            /\ generate_etag
            /\ Become(r, [q EXCEPT !.pc = "write", !.stamp = clock'])
         \/ /\ row # None /\ p.op = "put_block_list"
            /\ Become(r, [q EXCEPT !.pc = "commit"])
            /\ UNCHANGED clock
    BY <1>5 DEF upload_check, p
  <2>1. rows' = rows /\ p.pc = "body" /\ given \in SUBSET Columns /\ len \in U64
    <3>1. p.op \in Ops
      BY <1>0 DEF Req
    <3> QED
      BY <1>5, <3>1, ColumnsOfOps DEF upload_check, p
  <2> DEFINE c == [[p EXCEPT !.given = given, !.len = len] EXCEPT !.pc = "commit"]
             w == [[p EXCEPT !.given = given, !.len = len] EXCEPT !.pc = "write", !.stamp = clock + 1]
  <2>2. CASE req' = [req EXCEPT ![r] = IdleReq] /\ clock' = clock
    BY <2>1, <2>2, IdleShape
  <2>3. CASE req' = [req EXCEPT ![r] = c] /\ clock' = clock
    <3>1. c \in Req
      BY <1>0, <2>1 DEF Req
    <3>2. Moved(p, c)
      BY <2>1 DEF Moved
    <3> HIDE DEF c
    <3> QED
      BY <2>1, <2>3, <3>1, <3>2 DEF Shape, Move, p
  <2>4. CASE req' = [req EXCEPT ![r] = w] /\ clock' = clock + 1 /\ p.op = "put_blob"
    <3>1. w \in Req
      BY <1>0, <1>tick, <2>1 DEF Req
    <3>2. Moved(p, w)
      BY <2>1, <2>4 DEF Moved
    <3> HIDE DEF w
    <3> QED
      BY <2>1, <2>4, <3>1, <3>2 DEF Shape, Move, p
  <2> QED
    BY <2>2, <2>3, <2>4 DEF Become, Answer, generate_etag
<1>6. CASE upsert_blob_single_shot(r)
  <2> DEFINE q == [p EXCEPT !.pc = "read"]
  <2>1. q \in Req
    BY <1>0 DEF Req
  <2>2. p.pc = "write" /\ p.op = "put_blob" /\ clock' = clock
    BY <1>6 DEF upsert_blob_single_shot, p
  <2>3. Write(r, q) \/ (req' = [req EXCEPT ![r] = IdleReq] /\ rows' = rows)
    BY <1>6 DEF upsert_blob_single_shot, Become, Answer, p
  <2> QED
    BY <2>1, <2>2, <2>3, IdleShape DEF Shape, Statement, Wrote, p
<1>7. CASE commit_block_list(r)
  <2> DEFINE q == [p EXCEPT !.pc = "read", !.stamp = clock + 1]
  <2>1. q \in Req
    BY <1>0, <1>tick DEF Req
  <2>2. p.pc = "commit" /\ clock' = clock + 1
    BY <1>7 DEF commit_block_list, generate_etag, p
  <2>3. Write(r, q) \/ (req' = [req EXCEPT ![r] = IdleReq] /\ rows' = rows)
    BY <1>7, <2>2 DEF commit_block_list, Become, Answer, p
  <2> QED
    BY <2>1, <2>2, <2>3, IdleShape DEF Shape, Statement, Wrote, p
<1>8. CASE delete_blob(r)
  BY <1>key, <1>8 DEF delete_blob, Shape, Removal, p
<1>9. CASE delete_container(r)
  BY <1>key, <1>9 DEF delete_container, Shape, Removal, Keys, p
<1>10. CASE read_back(r)
  <2> DEFINE q == [p EXCEPT !.pc = "done", !.row = rows[p.key], !.before = None]
  <2>1. rows' = rows /\ clock' = clock /\ p.pc = "read"
    BY <1>10 DEF read_back, p
  <2>2. \/ req' = [req EXCEPT ![r] = IdleReq]
        \/ rows[p.key] # None /\ req' = [req EXCEPT ![r] = q]
    BY <1>10 DEF read_back, Become, Answer, get_row, p
  <2>3. CASE rows[p.key] # None /\ req' = [req EXCEPT ![r] = q]
    <3>1. q \in Req
      BY <1>0, <1>key, <2>3 DEF Req, TypeOK
    <3>2. Moved(p, q)
      BY <2>1, <2>3 DEF Moved
    <3> HIDE DEF q
    <3> QED
      BY <2>1, <2>3, <3>1, <3>2 DEF Shape, Move, p
  <2> QED
    BY <2>1, <2>2, <2>3, IdleShape
<1> QED
  BY <1>1, <1>2, <1>3, <1>4, <1>5, <1>6, <1>7, <1>8, <1>9, <1>10 DEF Step

(* Every step has one of the shapes. *)
LEMMA NextShape ==
    ASSUME TypeOK, Keyed, Next
    PROVE  \E r \in Requests : Shape(r)
<1>1. PICK r \in Requests : Start(r) \/ Step(r) \/ Fail(r) \/ Drop(r)
  BY DEF Next
<1>2. CASE Fail(r) \/ Drop(r)
  BY <1>2, IdleShape DEF Fail, Drop, Become, Answer
<1> QED
  BY <1>1, <1>2, StartShape, StepShape

-------------------------------------------------------------------------------
(* The type invariant. *)

(* The fields that are not histories. *)
SameRequest(q, p) ==
    /\ q.pc = p.pc /\ q.op = p.op /\ q.key = p.key
    /\ q.stamp = p.stamp /\ q.len = p.len /\ q.given = p.given /\ q.row = p.row

(* What the statement of request r does to a request. *)
Applied(q) == [q EXCEPT !.applied = TRUE, !.gone = FALSE, !.lost = {}]
Overtaken(q, op) == [q EXCEPT !.lost = @ \cup Writes(op)]
Orphaned(q) == [q EXCEPT !.gone = TRUE]

LEMMA AppliedType ==
    ASSUME NEW q \in Req
    PROVE  /\ Applied(q) \in Req /\ SameRequest(Applied(q), q)
           /\ Applied(q).applied /\ ~Applied(q).gone /\ Applied(q).lost = {}
  BY DEF Applied, Req, SameRequest

LEMMA OvertakenType ==
    ASSUME NEW q \in Req, NEW op \in Ops
    PROVE  /\ Overtaken(q, op) \in Req /\ SameRequest(Overtaken(q, op), q)
           /\ Overtaken(q, op).applied = q.applied /\ Overtaken(q, op).gone = q.gone
           /\ Overtaken(q, op).lost = q.lost \cup Writes(op)
<1>1. Writes(op) \in SUBSET Columns
  BY ColumnsOfOps
<1> QED
  BY <1>1 DEF Overtaken, Req, SameRequest

LEMMA OrphanedType ==
    ASSUME NEW q \in Req
    PROVE  /\ Orphaned(q) \in Req /\ SameRequest(Orphaned(q), q)
           /\ Orphaned(q).applied = q.applied /\ Orphaned(q).gone /\ Orphaned(q).lost = q.lost
  BY DEF Orphaned, Req, SameRequest

(* The row a statement leaves, and what it does to each request. *)
LEMMA WriteEffect ==
    ASSUME TypeOK, NEW r \in Requests, NEW q \in Req, q.key \in Keys, Write(r, q)
    PROVE  \E old \in Row :
             /\ rows[q.key] # None => old = rows[q.key]
             /\ rows[q.key] = None => old = EmptyRow
             /\ rows' = [rows EXCEPT ![q.key] = written_row(q, old)]
             /\ req' = [s \in Requests |-> IF s = r THEN Applied(q)
                                           ELSE IF req[s].key = q.key THEN Overtaken(req[s], q.op)
                                           ELSE req[s]]
<1> DEFINE old == IF rows[q.key] = None THEN EmptyRow ELSE rows[q.key]
<1>1. old \in Row
  BY EmptyRowType DEF TypeOK
<1>2. rows' = [rows EXCEPT ![q.key] = written_row(q, old)]
  BY DEF Write
<1>3. req' = [s \in Requests |-> IF s = r THEN Applied(q)
                                 ELSE IF req[s].key = q.key THEN Overtaken(req[s], q.op)
                                 ELSE req[s]]
  BY DEF Write, Applied, Overtaken
<1> QED
  BY <1>1, <1>2, <1>3

LEMMA RemoveEffect ==
    ASSUME NEW r \in Requests, NEW ks \in SUBSET Keys, Remove(r, ks)
    PROVE  /\ rows' = [k \in Keys |-> IF k \in ks THEN None ELSE rows[k]]
           /\ req' = [s \in Requests |-> IF s = r THEN IdleReq
                                         ELSE IF req[s].key \in ks THEN Orphaned(req[s])
                                         ELSE req[s]]
  BY DEF Remove, Answer, Orphaned

(* A statement is that of the request's own operation on its own key. *)
LEMMA WroteOwn ==
    ASSUME NEW p \in Req, NEW q \in Req, Wrote(p, q)
    PROVE  /\ q.key = p.key /\ q.op = p.op /\ q.given = p.given /\ q.row = p.row
           /\ p.pc \in {"write", "commit"} /\ q.pc \in {"read", "mkdir"}
           /\ clock' \in {clock, clock + 1}
  BY DEF Wrote, Req

LEMMA IdleFields ==
    /\ IdleReq.pc = "idle" /\ IdleReq.row = None /\ IdleReq.op = "none"
    /\ ~IdleReq.applied
  BY DEF IdleReq

LEMMA MovedKeyed ==
    ASSUME NEW p \in Req, NEW q \in Req, Moved(p, q), p.pc # "idle" => p.key \in Keys
    PROVE  q.pc # "idle" => q.key \in Keys
  BY IdleFields DEF Moved, Opened, Req

LEMMA ShapeTypes ==
    ASSUME TypeOK, Keyed, NEW r \in Requests, Shape(r)
    PROVE  TypeOK' /\ Keyed'
<1>0. \A s \in Requests : req[s] \in Req
  BY DEF TypeOK
<1>1. CASE Move(r)
  <2> PICK q \in Req : /\ rows' = rows
                       /\ clock' \in {clock, clock + 1}
                       /\ req' = [req EXCEPT ![r] = q]
                       /\ Moved(req[r], q)
    BY <1>1 DEF Move
  <2>1. q.pc # "idle" => q.key \in Keys
    BY <1>0, MovedKeyed DEF Keyed
  <2> QED
    BY <2>1 DEF TypeOK, Keyed
<1>2. CASE Statement(r)
  <2> PICK q \in Req : Wrote(req[r], q) /\ Write(r, q)
    BY <1>2 DEF Statement
  <2>1. q.key \in Keys /\ q.op \in Ops /\ clock' \in {clock, clock + 1}
    BY <1>0, WroteOwn DEF Keyed, Req
  <2>2. PICK old \in Row :
             /\ rows' = [rows EXCEPT ![q.key] = written_row(q, old)]
             /\ req' = [s \in Requests |-> IF s = r THEN Applied(q)
                                           ELSE IF req[s].key = q.key THEN Overtaken(req[s], q.op)
                                           ELSE req[s]]
    BY <2>1, WriteEffect
  <2>3. req' \in [Requests -> Req] /\ Keyed'
    BY <1>0, <2>1, <2>2, AppliedType, OvertakenType DEF Keyed, SameRequest
  <2>4. rows' \in [Keys -> Row \cup {None}]
    BY <2>2, WrittenRow DEF TypeOK
  <2> QED
    BY <2>1, <2>3, <2>4 DEF TypeOK
<1>3. CASE Removal(r)
  <2> PICK ks \in SUBSET Keys : clock' = clock /\ Remove(r, ks)
    BY <1>3 DEF Removal
  <2>1. req' \in [Requests -> Req] /\ Keyed'
    BY <1>0, RemoveEffect, OrphanedType, IdleType, IdleFields DEF Keyed, SameRequest
  <2>2. rows' \in [Keys -> Row \cup {None}]
    BY RemoveEffect DEF TypeOK
  <2> QED
    BY <2>1, <2>2 DEF TypeOK
<1> QED
  BY <1>1, <1>2, <1>3 DEF Shape

-------------------------------------------------------------------------------
(* Where a request can be, and what it has done by then.  A setter whose row   *)
(* was not deleted still has the row it checked.                               *)

Placed(q, tables) ==
    /\ q.pc \in {"parsed", "body", "commit"} => q.op \in Uploads /\ ~q.applied
    /\ q.pc = "write" => /\ q.op \in Setters \cup Deletes \cup {"create_container", "put_blob"}
                         /\ ~q.applied
                         /\ q.op \in Setters /\ ~q.gone => tables[q.key] # None
    /\ q.pc = "mkdir" => q.op = "create_container" /\ q.applied
    /\ q.pc = "read" => q.op \in Setters \cup Uploads /\ (q.applied \/ q.gone)
    /\ q.pc = "done" => q.row # None /\ (q.op \in Writers => q.applied \/ q.gone)
    /\ q.pc # "done" => q.row = None /\ q.op # "get"
    /\ q.pc = "idle" => ~q.applied

Places == \A r \in Requests : Placed(req[r], rows)

LEMMA MovedPlaced ==
    ASSUME TypeOK, NEW p \in Req, NEW q \in Req, Moved(p, q), Placed(p, rows), p.pc # "idle" => p.key \in Keys
    PROVE  Placed(q, rows)
<1> USE OpsTypes DEF Placed
<1>1. CASE q = IdleReq
  BY <1>1, IdleFields
<1>2. CASE Opened(q) /\ q.pc = "write" /\ q.op \in Setters /\ rows[q.key] # None
  BY <1>2 DEF Opened, Setters
<1>3. CASE Opened(q) /\ q.pc = "write" /\ q.op = "create_container"
  BY <1>3 DEF Opened, Setters
<1>4. CASE Opened(q) /\ q.pc = "write" /\ q.op \in Deletes
  BY <1>4 DEF Opened, Setters, Deletes
<1>5. CASE Opened(q) /\ q.pc \in {"parsed", "body"} /\ q.op \in Uploads
  BY <1>5 DEF Opened, Uploads
<1>6. CASE Opened(q) /\ q.pc = "done" /\ q.op = "get" /\ q.row = rows[q.key] /\ q.row # None
  BY <1>6 DEF Writers, Setters, Uploads
<1>7. CASE /\ p.pc = "write" /\ p.op \in Setters /\ rows[p.key] = None
           /\ q = [p EXCEPT !.pc = "read"]
  BY <1>7 DEF Req, Setters
<1>8. CASE p.pc = "mkdir" /\ q = [p EXCEPT !.pc = "done", !.row = written_row(p, EmptyRow)]
  BY <1>8, EmptyRowType, WrittenRow DEF Req
<1>9. ASSUME NEW given \in SUBSET Columns, NEW len \in U64, p.pc = "body",
             q = [[p EXCEPT !.given = given, !.len = len] EXCEPT !.pc = "commit"]
      PROVE  Placed(q, rows)
  BY <1>9 DEF Req
<1>10. ASSUME NEW given \in SUBSET Columns, NEW len \in U64, p.pc = "body", p.op = "put_blob",
              q = [[p EXCEPT !.given = given, !.len = len] EXCEPT !.pc = "write", !.stamp = clock + 1]
       PROVE  Placed(q, rows)
  BY <1>10 DEF Req, Setters
<1>11. CASE /\ p.pc = "read" /\ rows[p.key] # None
            /\ q = [p EXCEPT !.pc = "done", !.row = rows[p.key], !.before = None]
  BY <1>11 DEF Req, Setters, Uploads
<1> QED
  BY <1>1, <1>2, <1>3, <1>4, <1>5, <1>6, <1>7, <1>8, <1>9, <1>10, <1>11 DEF Moved

LEMMA ShapePlaces ==
    ASSUME TypeOK, Keyed, Places, NEW r \in Requests, Shape(r)
    PROVE  Places'
<1>0. \A s \in Requests : req[s] \in Req /\ Placed(req[s], rows)
  BY DEF TypeOK, Places
<1>1. CASE Move(r)
  <2> PICK q \in Req : /\ rows' = rows
                       /\ clock' \in {clock, clock + 1}
                       /\ req' = [req EXCEPT ![r] = q]
                       /\ Moved(req[r], q)
    BY <1>1 DEF Move
  <2>1. Placed(q, rows)
    BY <1>0, MovedPlaced DEF Keyed
  <2> QED
    BY <1>0, <2>1 DEF Places, TypeOK
<1>2. CASE Statement(r)
  <2> PICK q \in Req : Wrote(req[r], q) /\ Write(r, q)
    BY <1>2 DEF Statement
  <2>1. /\ q.key = req[r].key /\ q.op = req[r].op /\ q.row = req[r].row
        /\ req[r].pc \in {"write", "commit"} /\ q.pc \in {"read", "mkdir"}
    BY <1>0, WroteOwn
  <2>2. q.key \in Keys /\ q.op \in Ops
    BY <1>0, <2>1 DEF Keyed, Req
  <2>3. PICK old \in Row :
             /\ rows' = [rows EXCEPT ![q.key] = written_row(q, old)]
             /\ req' = [s \in Requests |-> IF s = r THEN Applied(q)
                                           ELSE IF req[s].key = q.key THEN Overtaken(req[s], q.op)
                                           ELSE req[s]]
    BY <2>2, WriteEffect
  <2>4. Placed(Applied(q), rows')
    <3>1. q.pc = "mkdir" => q.op = "create_container"
      BY <1>0, <2>1 DEF Wrote, Req
    <3>2. q.pc = "read" => q.op \in Setters \cup Uploads
      BY <1>0, <2>1 DEF Wrote, Req, Placed, Uploads
    <3>3. q.row = None /\ q.op # "get"
      BY <1>0, <2>1 DEF Placed
    <3> QED
      BY <2>1, <3>1, <3>2, <3>3, AppliedType DEF Placed, SameRequest
  <2>5. \A k \in Keys : rows[k] # None => rows'[k] # None
    BY <2>3, WrittenRow DEF TypeOK
  <2>6. ASSUME NEW s \in Requests, s # r
        PROVE  Placed(req'[s], rows')
    <3>1. Placed(req[s], rows')
      BY <1>0, <2>5 DEF Placed, Keyed
    <3>2. Placed(Overtaken(req[s], q.op), rows')
      BY <1>0, <2>2, <3>1, OvertakenType DEF Placed, SameRequest
    <3> QED
      BY <2>3, <2>6, <3>1, <3>2
  <2> QED
    BY <2>3, <2>4, <2>6 DEF Places
<1>3. CASE Removal(r)
  <2> PICK ks \in SUBSET Keys : clock' = clock /\ Remove(r, ks)
    BY <1>3 DEF Removal
  <2>1. Placed(IdleReq, rows')
    BY IdleFields DEF Placed
  <2>2. ASSUME NEW s \in Requests, req[s].key \in ks
        PROVE  Placed(Orphaned(req[s]), rows')
    BY <1>0, OrphanedType DEF Placed, SameRequest
  <2>3. ASSUME NEW s \in Requests, req[s].key \notin ks
        PROVE  Placed(req[s], rows')
    BY <1>0, <2>3, RemoveEffect DEF Placed, Keyed
  <2> QED
    BY <2>1, <2>2, <2>3, RemoveEffect DEF Places
<1> QED
  BY <1>1, <1>2, <1>3 DEF Shape

-------------------------------------------------------------------------------
(* Between the parser and put_block_list nobody changes the parsed body. *)

Parsed == \A r \in Requests : HoldsParsed(req[r])

LEMMA ShapeParsed ==
    ASSUME TypeOK, Keyed, Parsed, NEW r \in Requests, Shape(r)
    PROVE  Parsed'
<1>0. \A s \in Requests : req[s] \in Req /\ HoldsParsed(req[s])
  BY DEF TypeOK, Parsed
<1>1. CASE Move(r)
  <2> PICK q \in Req : /\ req' = [req EXCEPT ![r] = q]
                       /\ Moved(req[r], q)
    BY <1>1 DEF Move
  <2>1. HoldsParsed(q)
    <3>1. q.pc = "parsed" => q # IdleReq
      BY IdleFields
    <3>2. q.pc = "parsed" => Opened(q) /\ q.pc \in {"parsed", "body"} /\ q.op \in Uploads /\ HoldsParsed(q)
      BY <1>0, <3>1 DEF Moved, Req
    <3> QED
      BY <3>2 DEF HoldsParsed
  <2> QED
    BY <1>0, <2>1 DEF Parsed, TypeOK
<1>2. CASE Statement(r)
  <2> PICK q \in Req : Wrote(req[r], q) /\ Write(r, q)
    BY <1>2 DEF Statement
  <2>1. q.pc \in {"read", "mkdir"} /\ q.key = req[r].key /\ q.op = req[r].op
        /\ req[r].pc \in {"write", "commit"}
    BY <1>0, WroteOwn
  <2>2. q.key \in Keys /\ q.op \in Ops
    BY <1>0, <2>1 DEF Keyed, Req
  <2>3. req' = [s \in Requests |-> IF s = r THEN Applied(q)
                                   ELSE IF req[s].key = q.key THEN Overtaken(req[s], q.op)
                                   ELSE req[s]]
    BY <2>2, WriteEffect
  <2>4. HoldsParsed(Applied(q))
    BY <2>1, AppliedType DEF HoldsParsed, SameRequest
  <2>5. \A s \in Requests : HoldsParsed(Overtaken(req[s], q.op))
    BY <1>0 DEF HoldsParsed, Overtaken, Req
  <2> QED
    BY <1>0, <2>3, <2>4, <2>5 DEF Parsed
<1>3. CASE Removal(r)
  <2> PICK ks \in SUBSET Keys : clock' = clock /\ Remove(r, ks)
    BY <1>3 DEF Removal
  <2>1. HoldsParsed(IdleReq)
    BY IdleFields DEF HoldsParsed
  <2>2. \A s \in Requests : HoldsParsed(Orphaned(req[s]))
    BY <1>0 DEF HoldsParsed, Orphaned, Req
  <2> QED
    BY <1>0, <2>1, <2>2, RemoveEffect DEF Parsed
<1> QED
  BY <1>1, <1>2, <1>3 DEF Shape

-------------------------------------------------------------------------------
(* What a request has written is in the row and in its answer. *)

(* The row shows the write of q: its columns, and its ETag if nobody wrote since. *)
ShowsWrite(q, row) ==
    /\ row # None
    /\ \A c \in Writes(q.op) \ q.lost : row.col[c] = Value(q, c)
    /\ q.lost = {} => row.etag = q.stamp

Kept(q, tables) ==
    /\ q.applied /\ ~q.gone => ShowsWrite(q, tables[q.key])
    /\ q.pc = "done" /\ q.op \in Writers /\ ~q.gone => ShowsWrite(q, q.row)

AllKept == \A r \in Requests : Kept(req[r], rows)

(* The statement of a request shows in the row it leaves. *)
LEMMA OwnRow ==
    ASSUME NEW q \in Req, NEW old \in Row
    PROVE  ShowsWrite(Applied(q), written_row(q, old))
<1>1. \A c \in Columns : Value(Applied(q), c) = Value(q, c)
  BY AppliedType DEF Value, SameRequest
<1>2. Writes(q.op) \in SUBSET Columns
  BY ColumnsOfOps DEF Req
<1> QED
  BY <1>1, <1>2, AppliedType, WrittenRow DEF ShowsWrite, SameRequest

(* The statement of another leaves what it does not name. *)
LEMMA OthersRow ==
    ASSUME NEW p \in Req, NEW q \in Req, q.op \in Writers, NEW old \in Row, ShowsWrite(p, old)
    PROVE  ShowsWrite(Overtaken(p, q.op), written_row(q, old))
<1> DEFINE o == Overtaken(p, q.op)
<1>1. q.op \in Ops /\ Writes(q.op) # {} /\ Writes(p.op) \in SUBSET Columns
  BY ColumnsOfOps DEF Req
<1>2. SameRequest(o, p) /\ o.lost = p.lost \cup Writes(q.op)
  BY <1>1, OvertakenType
<1>3. \A c \in Columns : Value(o, c) = Value(p, c)
  BY <1>2 DEF Value, SameRequest
<1> HIDE DEF o
<1>4. o.lost # {}
  BY <1>1, <1>2
<1>5. ASSUME NEW c \in Writes(o.op) \ o.lost
      PROVE  written_row(q, old).col[c] = Value(o, c)
  <2>1. c \in Columns /\ c \notin Writes(q.op) /\ c \in Writes(p.op) \ p.lost
    BY <1>1, <1>2 DEF SameRequest
  <2> QED
    BY <1>3, <2>1, WrittenRow DEF ShowsWrite
<1> QED
  BY <1>4, <1>5, WrittenRow DEF ShowsWrite, o

(* What others write later takes nothing from an answer. *)
LEMMA OthersAnswer ==
    ASSUME NEW p \in Req, NEW op \in Ops, NEW row, ShowsWrite(p, row)
    PROVE  ShowsWrite(Overtaken(p, op), row)
<1> DEFINE o == Overtaken(p, op)
<1>1. SameRequest(o, p) /\ o.lost = p.lost \cup Writes(op)
  BY OvertakenType
<1>2. \A c : Value(o, c) = Value(p, c)
  BY <1>1 DEF Value, SameRequest
<1> HIDE DEF o
<1> QED
  BY <1>1, <1>2 DEF ShowsWrite, SameRequest, o

(* A move that keeps what the request writes keeps what shows it. *)
LEMMA SameShows ==
    ASSUME NEW p, NEW q, NEW row,
           q.op = p.op, q.lost = p.lost, q.stamp = p.stamp, q.given = p.given, ShowsWrite(p, row)
    PROVE  ShowsWrite(q, row)
  BY DEF ShowsWrite, Value

LEMMA MovedKept ==
    ASSUME TypeOK, NEW p \in Req, NEW q \in Req, Moved(p, q), Placed(p, rows), Kept(p, rows),
           p.pc # "idle" => p.key \in Keys
    PROVE  Kept(q, rows)
<1>1. CASE q = IdleReq
  BY <1>1, IdleFields DEF Kept
<1>2. CASE Opened(q) /\ (q.pc = "done" => q.op = "get")
  BY <1>2 DEF Opened, Kept, Writers, Setters, Uploads
<1>3. CASE q = [p EXCEPT !.pc = "read"]
  <2>1. /\ q.key = p.key /\ q.op = p.op /\ q.lost = p.lost /\ q.stamp = p.stamp /\ q.given = p.given
        /\ q.applied = p.applied /\ q.gone = p.gone /\ q.pc # "done"
    BY <1>3 DEF Req
  <2> QED
    BY <2>1, SameShows DEF Kept
<1>4. CASE p.pc = "mkdir" /\ q = [p EXCEPT !.pc = "done", !.row = written_row(p, EmptyRow)]
  <2>1. /\ q.key = p.key /\ q.op = p.op /\ q.lost = p.lost /\ q.stamp = p.stamp /\ q.given = p.given
        /\ q.applied = p.applied /\ q.gone = p.gone /\ q.row = written_row(p, EmptyRow)
    BY <1>4 DEF Req
  <2>2. Writes(q.op) \in SUBSET Columns /\ (\A c : Value(q, c) = Value(p, c))
    BY <2>1, ColumnsOfOps DEF Req, Value
  <2>3. ShowsWrite(q, q.row)
    BY <2>1, <2>2, EmptyRowType, WrittenRow DEF ShowsWrite
  <2> QED
    BY <2>1, <2>3, SameShows DEF Kept
<1>5. CASE p.pc = "body" /\ q.applied = p.applied /\ q.pc # "done"
  BY <1>5 DEF Kept, Placed
<1>6. CASE /\ p.pc = "read" /\ rows[p.key] # None
           /\ q = [p EXCEPT !.pc = "done", !.row = rows[p.key], !.before = None]
  <2>1. /\ q.key = p.key /\ q.op = p.op /\ q.lost = p.lost /\ q.stamp = p.stamp /\ q.given = p.given
        /\ q.applied = p.applied /\ q.gone = p.gone /\ q.row = rows[p.key]
    BY <1>6 DEF Req
  <2>2. ~q.gone => ShowsWrite(q, rows[p.key])
    <3>1. p.pc = "read"
      BY <1>6
    <3>2. ~q.gone => p.applied /\ ~p.gone
      BY <2>1, <3>1 DEF Placed
    <3>3. ~q.gone => ShowsWrite(p, rows[p.key])
      BY <3>2 DEF Kept
    <3> QED
      BY <2>1, <3>3, SameShows
  <2> QED
    BY <2>1, <2>2 DEF Kept
<1>7. ASSUME NEW given \in SUBSET Columns, NEW len \in U64,
             \/ q = [[p EXCEPT !.given = given, !.len = len] EXCEPT !.pc = "commit"]
             \/ q = [[p EXCEPT !.given = given, !.len = len] EXCEPT !.pc = "write", !.stamp = clock + 1]
      PROVE  q.applied = p.applied /\ q.pc # "done"
  BY <1>7 DEF Req
<1> QED
  BY <1>1, <1>2, <1>3, <1>4, <1>5, <1>6, <1>7 DEF Moved

LEMMA ShapeKept ==
    ASSUME TypeOK, Keyed, Places, AllKept, NEW r \in Requests, Shape(r)
    PROVE  AllKept'
<1>0. \A s \in Requests : req[s] \in Req /\ Placed(req[s], rows) /\ Kept(req[s], rows)
  BY DEF TypeOK, Places, AllKept
<1>1. CASE Move(r)
  <2> PICK q \in Req : /\ rows' = rows
                       /\ clock' \in {clock, clock + 1}
                       /\ req' = [req EXCEPT ![r] = q]
                       /\ Moved(req[r], q)
    BY <1>1 DEF Move
  <2>1. Kept(q, rows)
    BY <1>0, MovedKept DEF Keyed
  <2> QED
    BY <1>0, <2>1 DEF AllKept, TypeOK
<1>2. CASE Statement(r)
  <2> PICK q \in Req : Wrote(req[r], q) /\ Write(r, q)
    BY <1>2 DEF Statement
  <2>1. /\ q.key = req[r].key /\ q.op = req[r].op
        /\ req[r].pc \in {"write", "commit"} /\ q.pc \in {"read", "mkdir"}
    BY <1>0, WroteOwn
  <2>2. q.key \in Keys /\ q.op \in Ops /\ q.op \in Writers
    <3>1. q.op \in Writers
      BY <1>0, <2>1 DEF Wrote, Placed, Writers, Uploads
    <3> QED
      BY <1>0, <2>1, <3>1 DEF Keyed, Req
  <2>3. PICK old \in Row :
             /\ rows[q.key] # None => old = rows[q.key]
             /\ rows' = [rows EXCEPT ![q.key] = written_row(q, old)]
             /\ req' = [s \in Requests |-> IF s = r THEN Applied(q)
                                           ELSE IF req[s].key = q.key THEN Overtaken(req[s], q.op)
                                           ELSE req[s]]
    BY <2>2, WriteEffect
  <2>4. Kept(Applied(q), rows')
    <3>1. Applied(q).key = q.key /\ Applied(q).pc # "done"
      BY <2>1, AppliedType DEF SameRequest
    <3>2. rows'[q.key] = written_row(q, old)
      BY <2>2, <2>3 DEF TypeOK
    <3> QED
      BY <3>1, <3>2, OwnRow DEF Kept
  <2>5. ASSUME NEW s \in Requests, s # r
        PROVE  Kept(req'[s], rows')
    <3> DEFINE p == req[s]
    <3>1. CASE p.key = q.key
      <4> DEFINE o == Overtaken(p, q.op)
      <4>1. /\ o.applied = p.applied /\ o.gone = p.gone
            /\ o.key = p.key /\ o.pc = p.pc /\ o.op = p.op /\ o.row = p.row
        BY <1>0, <2>2, OvertakenType DEF SameRequest
      <4>2. p.applied /\ ~p.gone => ShowsWrite(o, rows'[p.key])
        <5> SUFFICES ASSUME p.applied, ~p.gone PROVE ShowsWrite(o, rows'[p.key])
          OBVIOUS
        <5>1. ShowsWrite(p, rows[q.key]) /\ rows[q.key] # None
          BY <1>0, <3>1 DEF Kept, ShowsWrite
        <5>2. rows'[p.key] = written_row(q, old) /\ old = rows[q.key]
          BY <2>2, <2>3, <3>1, <5>1 DEF TypeOK
        <5> QED
          BY <1>0, <2>2, <5>1, <5>2, OthersRow
      <4>3. p.pc = "done" /\ p.op \in Writers /\ ~p.gone => ShowsWrite(o, p.row)
        BY <1>0, <2>2, OthersAnswer DEF Kept
      <4>4. req'[s] = o
        BY <2>3, <2>5, <3>1
      <4> HIDE DEF o, p
      <4> QED
        BY <4>1, <4>2, <4>3, <4>4 DEF Kept
    <3>2. CASE p.key # q.key
      <4>1. req'[s] = p /\ (p.key \in Keys => rows'[p.key] = rows[p.key])
        BY <2>2, <2>3, <2>5, <3>2 DEF TypeOK
      <4>2. p.applied => p.key \in Keys
        BY <1>0 DEF Placed, Keyed
      <4> QED
        BY <1>0, <4>1, <4>2 DEF Kept
    <3> QED
      BY <3>1, <3>2
  <2> QED
    BY <2>3, <2>4, <2>5 DEF AllKept
<1>3. CASE Removal(r)
  <2> PICK ks \in SUBSET Keys : clock' = clock /\ Remove(r, ks)
    BY <1>3 DEF Removal
  <2>1. Kept(IdleReq, rows')
    BY IdleFields DEF Kept
  <2>2. ASSUME NEW s \in Requests, req[s].key \in ks
        PROVE  Kept(Orphaned(req[s]), rows')
    BY <1>0, OrphanedType DEF Kept
  <2>3. ASSUME NEW s \in Requests, req[s].key \notin ks
        PROVE  Kept(req[s], rows')
    <3>1. req[s].applied => req[s].key \in Keys
      BY <1>0 DEF Placed, Keyed
    <3>2. req[s].applied => rows'[req[s].key] = rows[req[s].key]
      BY <2>3, <3>1, RemoveEffect
    <3> QED
      BY <1>0, <3>2 DEF Kept
  <2> QED
    BY <2>1, <2>2, <2>3, RemoveEffect DEF AllKept
<1> QED
  BY <1>1, <1>2, <1>3 DEF Shape

-------------------------------------------------------------------------------
(* ETags.  A stamp that has not been used yet is nobody's ETag. *)

Unused(q) == q.pc = "write" /\ q.op \in Writers

(* The row a request shows, or is about to show. *)
Shows(q) == q.pc \in {"mkdir", "done"}
Shown(q) == IF q.pc = "mkdir" THEN written_row(q, EmptyRow) ELSE q.row

(* The stamps given out are up to the clock. *)
IsPast(stamp, now) == stamp \in 0 .. now

StampsPast ==
    /\ \A k \in Keys : rows[k] # None => IsPast(rows[k].etag, clock)
    /\ \A r \in Requests : /\ Unused(req[r]) => IsPast(req[r].stamp, clock)
                           /\ Shows(req[r]) => IsPast(Shown(req[r]).etag, clock)

(* An unused stamp is in no row, in no answer, and no other request's. *)
StampsFresh ==
    \A r \in Requests :
        Unused(req[r]) =>
            /\ \A k \in Keys : rows[k] # None => rows[k].etag # req[r].stamp
            /\ \A s \in Requests : Shows(req[s]) => Shown(req[s]).etag # req[r].stamp
            /\ \A s \in Requests : Unused(req[s]) /\ s # r => req[s].stamp # req[r].stamp

(* One ETag, one row. *)
Agree(q, k, row) == q.key = k /\ Shown(q).etag = row.etag => Shown(q) = row

EtagsAgree ==
    \A r \in Requests :
        Shows(req[r]) =>
            /\ \A k \in Keys : rows[k] # None => Agree(req[r], k, rows[k])
            /\ \A s \in Requests : Shows(req[s]) => Agree(req[r], req[s].key, Shown(req[s]))

Etags == StampsPast /\ StampsFresh /\ EtagsAgree

(* A request whose histories alone change shows what it showed. *)
LEMMA SameShown ==
    ASSUME NEW p, NEW q, SameRequest(q, p)
    PROVE  /\ Unused(q) = Unused(p) /\ Shows(q) = Shows(p) /\ Shown(q) = Shown(p)
           /\ q.key = p.key /\ q.stamp = p.stamp
<1>1. written_row(q, EmptyRow) = written_row(p, EmptyRow)
  BY DEF written_row, Value, SameRequest
<1> QED
  BY <1>1 DEF Unused, Shows, Shown, SameRequest

(* A move takes a new stamp, shows the row of the moment, shows what it showed, *)
(* or none of these.                                                            *)
LEMMA MovedShown ==
    ASSUME TypeOK, NEW p \in Req, NEW q \in Req, Moved(p, q), Placed(p, rows),
           p.pc # "idle" => p.key \in Keys
    PROVE  \/ ~Unused(q) /\ ~Shows(q)
           \/ ~Shows(q) /\ q.stamp = clock + 1 /\ clock' = clock + 1
           \/ ~Unused(q) /\ q.key \in Keys /\ rows[q.key] # None /\ Shown(q) = rows[q.key]
           \/ ~Unused(q) /\ Shows(p) /\ q.key = p.key /\ Shown(q) = Shown(p)
<1> USE DEF Unused, Shows
<1>1. CASE q = IdleReq
  BY <1>1, IdleFields
<1>2. CASE q.pc = "write" /\ q.stamp = clock + 1 /\ clock' = clock + 1
  BY <1>2
<1>3. CASE q.pc = "write" /\ q.op \in Deletes
  BY <1>3 DEF Deletes, Writers, Setters, Uploads
<1>4. CASE q.pc \in {"parsed", "body", "read", "commit"}
  BY <1>4
<1>5. CASE Opened(q) /\ q.pc = "done" /\ q.op = "get" /\ q.row = rows[q.key] /\ q.row # None
  BY <1>5 DEF Opened, Shown
<1>6. CASE q.pc = "read"
  BY <1>6
<1>7. CASE p.pc = "mkdir" /\ q = [p EXCEPT !.pc = "done", !.row = written_row(p, EmptyRow)]
  <2>1. q.pc = "done" /\ q.key = p.key /\ q.row = written_row(p, EmptyRow)
    BY <1>7 DEF Req
  <2> QED
    BY <1>7, <2>1 DEF Shown
<1>8. ASSUME NEW given \in SUBSET Columns, NEW len \in U64,
             q = [[p EXCEPT !.given = given, !.len = len] EXCEPT !.pc = "commit"]
      PROVE  q.pc = "commit"
  BY <1>8 DEF Req
<1>9. ASSUME NEW given \in SUBSET Columns, NEW len \in U64,
             q = [[p EXCEPT !.given = given, !.len = len] EXCEPT !.pc = "write", !.stamp = clock + 1]
      PROVE  q.pc = "write" /\ q.stamp = clock + 1
  BY <1>9 DEF Req
<1>10. CASE /\ p.pc = "read" /\ rows[p.key] # None
            /\ q = [p EXCEPT !.pc = "done", !.row = rows[p.key], !.before = None]
  <2>1. q.pc = "done" /\ q.key = p.key /\ q.row = rows[p.key]
    BY <1>10 DEF Req
  <2> QED
    BY <1>10, <2>1 DEF Shown
<1>11. CASE q = [p EXCEPT !.pc = "read"]
  <2>1. q.pc = "read"
    BY <1>11 DEF Req
  <2> QED
    BY <2>1
<1> QED
  BY <1>1, <1>2, <1>3, <1>4, <1>5, <1>6, <1>7, <1>8, <1>9, <1>10, <1>11 DEF Moved

(* Stamps of the past stay so, and are not the next one. *)
LEMMA Ticks ==
    ASSUME TypeOK, clock' \in {clock, clock + 1}
    PROVE  /\ \A n : IsPast(n, clock) => IsPast(n, clock') /\ n # clock + 1
           /\ clock' = clock + 1 => IsPast(clock + 1, clock')
  BY DEF TypeOK, IsPast

LEMMA MoveEtags ==
    ASSUME TypeOK, Keyed, Places, Etags, NEW r \in Requests, Move(r)
    PROVE  Etags'
<1>0. \A s \in Requests : req[s] \in Req /\ Placed(req[s], rows)
  BY DEF TypeOK, Places
<1> PICK q \in Req : /\ rows' = rows
                     /\ clock' \in {clock, clock + 1}
                     /\ req' = [req EXCEPT ![r] = q]
                     /\ Moved(req[r], q)
  BY DEF Move
<1>1. \/ ~Unused(q) /\ ~Shows(q)
      \/ ~Shows(q) /\ q.stamp = clock + 1 /\ clock' = clock + 1
      \/ ~Unused(q) /\ q.key \in Keys /\ rows[q.key] # None /\ Shown(q) = rows[q.key]
      \/ ~Unused(q) /\ Shows(req[r]) /\ q.key = req[r].key /\ Shown(q) = Shown(req[r])
  BY <1>0, MovedShown DEF Keyed
<1>2. req'[r] = q /\ (\A s \in Requests : s # r => req'[s] = req[s])
  BY DEF TypeOK
<1>3. /\ \A n : IsPast(n, clock) => IsPast(n, clock') /\ n # clock + 1
      /\ clock' = clock + 1 => IsPast(clock + 1, clock')
  BY Ticks
<1>past. /\ \A k \in Keys : rows[k] # None => IsPast(rows[k].etag, clock)
         /\ \A s \in Requests : /\ Unused(req[s]) => IsPast(req[s].stamp, clock)
                                /\ Shows(req[s]) => IsPast(Shown(req[s]).etag, clock)
  BY DEF Etags, StampsPast
<1>fresh. \A s \in Requests :
            Unused(req[s]) =>
              /\ \A k \in Keys : rows[k] # None => rows[k].etag # req[s].stamp
              /\ \A t \in Requests : Shows(req[t]) => Shown(req[t]).etag # req[s].stamp
              /\ \A t \in Requests : Unused(req[t]) /\ t # s => req[t].stamp # req[s].stamp
  BY DEF Etags, StampsFresh
<1>5. StampsPast'
  <2>1. \A k \in Keys : rows'[k] # None => IsPast(rows'[k].etag, clock')
    BY <1>3, <1>past
  <2>2. \A s \in Requests : s # r => /\ Unused(req'[s]) => IsPast(req'[s].stamp, clock')
                                     /\ Shows(req'[s]) => IsPast(Shown(req'[s]).etag, clock')
    BY <1>2, <1>3, <1>past
  <2>3. Unused(q) => IsPast(q.stamp, clock')
    BY <1>1, <1>3
  <2>4. Shows(q) => IsPast(Shown(q).etag, clock')
    BY <1>1, <1>3, <1>past
  <2> QED
    BY <1>2, <2>1, <2>2, <2>3, <2>4 DEF StampsPast
<1>6. StampsFresh'
  <2>1. CASE ~Unused(q)
    <3>1. \A s \in Requests : Unused(req[s]) /\ Shows(q) => Shown(q).etag # req[s].stamp
      BY <1>1, <1>fresh, <2>1
    <3> QED
      BY <1>2, <1>fresh, <2>1, <3>1 DEF StampsFresh
  <2>2. CASE ~Shows(q) /\ q.stamp = clock + 1
    <3>1. /\ \A k \in Keys : rows[k] # None => rows[k].etag # q.stamp
          /\ \A t \in Requests : Shows(req[t]) => Shown(req[t]).etag # q.stamp
          /\ \A t \in Requests : Unused(req[t]) => req[t].stamp # q.stamp
      BY <1>3, <1>past, <2>2
    <3> QED
      BY <1>2, <1>fresh, <2>2, <3>1 DEF StampsFresh
  <2> QED
    BY <1>1, <2>1, <2>2
<1>7. EtagsAgree'
  BY <1>1, <1>2 DEF Etags, EtagsAgree, Agree
<1> QED
  BY <1>5, <1>6, <1>7 DEF Etags

LEMMA StatementEtags ==
    ASSUME TypeOK, Keyed, Places, Etags, NEW r \in Requests, Statement(r)
    PROVE  Etags'
<1>0. \A s \in Requests : req[s] \in Req /\ Placed(req[s], rows)
  BY DEF TypeOK, Places
<1> PICK q \in Req : Wrote(req[r], q) /\ Write(r, q)
  BY DEF Statement
<1>1. /\ q.key = req[r].key /\ q.op = req[r].op
      /\ req[r].pc \in {"write", "commit"} /\ q.pc \in {"read", "mkdir"}
  BY <1>0, WroteOwn
<1>2. q.key \in Keys /\ q.op \in Ops /\ q.stamp \in Nat
  BY <1>0, <1>1 DEF Keyed, Req
<1>3. PICK old \in Row :
           /\ rows[q.key] = None => old = EmptyRow
           /\ rows' = [rows EXCEPT ![q.key] = written_row(q, old)]
           /\ req' = [s \in Requests |-> IF s = r THEN Applied(q)
                                         ELSE IF req[s].key = q.key THEN Overtaken(req[s], q.op)
                                         ELSE req[s]]
  BY <1>2, WriteEffect
<1> DEFINE w == written_row(q, old)
<1>4. w.etag = q.stamp /\ w # None
  BY WrittenRow
<1>5. rows'[q.key] = w /\ (\A k \in Keys : k # q.key => rows'[k] = rows[k])
  BY <1>2, <1>3 DEF TypeOK
<1> HIDE DEF w
<1>6. \A s \in Requests : s # r =>
        /\ Unused(req'[s]) = Unused(req[s]) /\ Shows(req'[s]) = Shows(req[s])
        /\ Shown(req'[s]) = Shown(req[s])
        /\ req'[s].key = req[s].key /\ req'[s].stamp = req[s].stamp
  <2> SUFFICES ASSUME NEW s \in Requests, s # r
               PROVE  /\ Unused(req'[s]) = Unused(req[s]) /\ Shows(req'[s]) = Shows(req[s])
                      /\ Shown(req'[s]) = Shown(req[s])
                      /\ req'[s].key = req[s].key /\ req'[s].stamp = req[s].stamp
    OBVIOUS
  <2>1. CASE req'[s] = Overtaken(req[s], q.op)
    BY <1>0, <1>2, <2>1, OvertakenType, SameShown
  <2>2. CASE req'[s] = req[s]
    BY <2>2
  <2> QED
    BY <1>3, <2>1, <2>2
<1>7. /\ ~Unused(req'[r]) /\ req'[r].key = q.key
      /\ Shows(req'[r]) => Shown(req'[r]) = w
  <2>1. req'[r] = Applied(q) /\ SameRequest(Applied(q), q)
    BY <1>3, AppliedType
  <2>2. ~Unused(q)
    BY <1>1 DEF Unused
  <2>3. Shows(q) => Shown(q) = w
    <3>1. q.pc = "mkdir" => rows[q.key] = None
      BY <1>0 DEF Wrote, Req
    <3> QED
      BY <1>1, <1>3, <3>1 DEF Shows, Shown, w
  <2> QED
    BY <2>1, <2>2, <2>3, SameShown
<1>8. /\ clock' \in {clock, clock + 1}
      /\ \/ q.stamp = req[r].stamp /\ Unused(req[r])
         \/ q.stamp = clock + 1 /\ clock' = clock + 1
  BY <1>0 DEF Wrote, Req, Unused, Writers, Uploads
<1>9. /\ \A n : IsPast(n, clock) => IsPast(n, clock') /\ n # clock + 1
      /\ clock' = clock + 1 => IsPast(clock + 1, clock')
  BY <1>8, Ticks
<1>past. /\ \A k \in Keys : rows[k] # None => IsPast(rows[k].etag, clock)
         /\ \A s \in Requests : /\ Unused(req[s]) => IsPast(req[s].stamp, clock)
                                /\ Shows(req[s]) => IsPast(Shown(req[s]).etag, clock)
  BY DEF Etags, StampsPast
<1>fresh. \A s \in Requests :
            Unused(req[s]) =>
              /\ \A k \in Keys : rows[k] # None => rows[k].etag # req[s].stamp
              /\ \A t \in Requests : Shows(req[t]) => Shown(req[t]).etag # req[s].stamp
              /\ \A t \in Requests : Unused(req[t]) /\ t # s => req[t].stamp # req[s].stamp
  BY DEF Etags, StampsFresh
<1>10. /\ IsPast(q.stamp, clock')
       /\ \A s \in Requests : Shows(req[s]) => Shown(req[s]).etag # q.stamp
       /\ \A s \in Requests : Unused(req[s]) /\ s # r => req[s].stamp # q.stamp
  <2>1. CASE q.stamp = req[r].stamp /\ Unused(req[r])
    BY <1>9, <1>past, <1>fresh, <2>1
  <2>2. CASE q.stamp = clock + 1 /\ clock' = clock + 1
    BY <1>9, <1>past, <2>2
  <2> QED
    BY <1>8, <2>1, <2>2
<1>11. StampsPast'
  <2>1. \A k \in Keys : rows'[k] # None => IsPast(rows'[k].etag, clock')
    BY <1>4, <1>5, <1>9, <1>10, <1>past
  <2>2. \A s \in Requests : s # r => /\ Unused(req'[s]) => IsPast(req'[s].stamp, clock')
                                     /\ Shows(req'[s]) => IsPast(Shown(req'[s]).etag, clock')
    BY <1>6, <1>9, <1>past
  <2> QED
    BY <1>4, <1>7, <1>10, <2>1, <2>2 DEF StampsPast
<1>12. StampsFresh'
  <2> SUFFICES ASSUME NEW s \in Requests, Unused(req'[s]), s # r
               PROVE  /\ \A k \in Keys : rows'[k] # None => rows'[k].etag # req'[s].stamp
                      /\ \A t \in Requests : Shows(req'[t]) => Shown(req'[t]).etag # req'[s].stamp
                      /\ \A t \in Requests : Unused(req'[t]) /\ t # s => req'[t].stamp # req'[s].stamp
    BY <1>7 DEF StampsFresh
  <2>1. Unused(req[s]) /\ req'[s].stamp = req[s].stamp /\ req[s].stamp # q.stamp
    BY <1>6, <1>10
  <2>2. \A k \in Keys : rows'[k] # None => rows'[k].etag # req[s].stamp
    BY <1>4, <1>5, <1>fresh, <2>1
  <2>3. \A t \in Requests : Shows(req'[t]) => Shown(req'[t]).etag # req[s].stamp
    BY <1>4, <1>6, <1>7, <1>fresh, <2>1
  <2>4. \A t \in Requests : Unused(req'[t]) /\ t # s => req'[t].stamp # req[s].stamp
    BY <1>6, <1>7, <1>fresh, <2>1
  <2> QED
    BY <2>1, <2>2, <2>3, <2>4
<1>13. EtagsAgree'
  <2>0. \A s \in Requests :
          Shows(req[s]) =>
            /\ \A k \in Keys : rows[k] # None => Agree(req[s], k, rows[k])
            /\ \A t \in Requests : Shows(req[t]) => Agree(req[s], req[t].key, Shown(req[t]))
    BY DEF Etags, EtagsAgree
  <2>1. ASSUME NEW s \in Requests, Shows(req'[s]), s # r
        PROVE  /\ \A k \in Keys : rows'[k] # None => Agree(req'[s], k, rows'[k])
               /\ \A t \in Requests : Shows(req'[t]) => Agree(req'[s], req'[t].key, Shown(req'[t]))
    <3>1. Shows(req[s]) /\ Shown(req'[s]) = Shown(req[s]) /\ req'[s].key = req[s].key
          /\ Shown(req[s]).etag # q.stamp
      BY <1>6, <1>10, <2>1
    <3>2. \A k \in Keys : rows'[k] # None => Agree(req'[s], k, rows'[k])
      BY <1>4, <1>5, <2>0, <3>1 DEF Agree
    <3>3. ASSUME NEW t \in Requests, Shows(req'[t])
          PROVE  Agree(req'[s], req'[t].key, Shown(req'[t]))
      <4>1. CASE t = r
        BY <1>4, <1>7, <3>1, <3>3, <4>1 DEF Agree
      <4>2. CASE t # r
        BY <1>6, <2>0, <3>1, <3>3, <4>2 DEF Agree
      <4> QED
        BY <4>1, <4>2
    <3> QED
      BY <3>2, <3>3
  <2>2. ASSUME Shows(req'[r])
        PROVE  /\ \A k \in Keys : rows'[k] # None => Agree(req'[r], k, rows'[k])
               /\ \A t \in Requests : Shows(req'[t]) => Agree(req'[r], req'[t].key, Shown(req'[t]))
    <3>1. Shown(req'[r]) = w /\ req'[r].key = q.key /\ w.etag = q.stamp
      BY <1>4, <1>7, <2>2
    <3>2. \A k \in Keys : rows'[k] # None => Agree(req'[r], k, rows'[k])
      BY <1>5, <3>1 DEF Agree
    <3>3. \A t \in Requests : Shows(req'[t]) => Agree(req'[r], req'[t].key, Shown(req'[t]))
      BY <1>6, <1>10, <3>1 DEF Agree
    <3> QED
      BY <3>2, <3>3
  <2> QED
    BY <2>1, <2>2 DEF EtagsAgree
<1> QED
  BY <1>11, <1>12, <1>13 DEF Etags

LEMMA RemovalEtags ==
    ASSUME TypeOK, Etags, NEW r \in Requests, Removal(r)
    PROVE  Etags'
<1> PICK ks \in SUBSET Keys : clock' = clock /\ Remove(r, ks)
  BY DEF Removal
<1>0. \A s \in Requests : req[s] \in Req
  BY DEF TypeOK
<1>1. \A k \in Keys : rows'[k] # None => rows'[k] = rows[k]
  BY RemoveEffect
<1>2. ~Unused(req'[r]) /\ ~Shows(req'[r])
  BY RemoveEffect, IdleFields DEF Unused, Shows
<1>3. \A s \in Requests : s # r =>
        /\ Unused(req'[s]) = Unused(req[s]) /\ Shows(req'[s]) = Shows(req[s])
        /\ Shown(req'[s]) = Shown(req[s])
        /\ req'[s].key = req[s].key /\ req'[s].stamp = req[s].stamp
  BY <1>0, RemoveEffect, OrphanedType, SameShown
<1>4. StampsPast'
  BY <1>1, <1>2, <1>3 DEF Etags, StampsPast
<1>5. StampsFresh'
  BY <1>1, <1>2, <1>3 DEF Etags, StampsFresh
<1>6. EtagsAgree'
  BY <1>1, <1>2, <1>3 DEF Etags, EtagsAgree, Agree
<1> QED
  BY <1>4, <1>5, <1>6 DEF Etags

-------------------------------------------------------------------------------
(* The inductive invariant, and the theorems. *)

IInv == TypeOK /\ Keyed /\ Places /\ Parsed /\ AllKept /\ Etags

LEMMA InitIInv == Init => IInv
<1> SUFFICES ASSUME Init PROVE IInv
  OBVIOUS
<1>1. TypeOK /\ Keyed
  BY EmptyRowType, IdleType, IdleFields DEF Init, TypeOK, Keyed
<1>2. \A r \in Requests : req[r] = IdleReq
  BY DEF Init
<1>3. Places /\ Parsed /\ AllKept
  BY <1>2, IdleFields DEF Places, Placed, Parsed, HoldsParsed, AllKept, Kept
<1>4. \A r \in Requests : ~Unused(req[r]) /\ ~Shows(req[r])
  BY <1>2, IdleFields DEF Unused, Shows
<1>5. \A k \in Keys : rows[k] # None => IsPast(rows[k].etag, clock)
  BY DEF Init, EmptyRow, IsPast
<1>6. Etags
  BY <1>4, <1>5 DEF Etags, StampsPast, StampsFresh, EtagsAgree
<1> QED
  BY <1>1, <1>3, <1>6 DEF IInv

LEMMA NextIInv == IInv /\ [Next]_vars => IInv'
<1> SUFFICES ASSUME IInv, [Next]_vars PROVE IInv'
  OBVIOUS
<1>0. TypeOK /\ Keyed /\ Places /\ Parsed /\ AllKept /\ Etags
  BY DEF IInv
<1>1. CASE Next
  <2> PICK r \in Requests : Shape(r)
    BY <1>0, <1>1, NextShape
  <2>1. TypeOK' /\ Keyed'
    BY <1>0, ShapeTypes
  <2>2. Places' /\ Parsed' /\ AllKept'
    BY <1>0, ShapePlaces, ShapeParsed, ShapeKept
  <2>3. Etags'
    BY <1>0, MoveEtags, StatementEtags, RemovalEtags DEF Shape
  <2> QED
    BY <2>1, <2>2, <2>3 DEF IInv
<1>2. CASE UNCHANGED vars
  BY <1>2 DEF vars, IInv, TypeOK, Keyed, Places, Placed, Parsed, HoldsParsed, AllKept, Kept, Etags, StampsPast, StampsFresh,
     EtagsAgree
<1> QED
  BY <1>1, <1>2

LEMMA Invariance == Spec => []IInv
  BY InitIInv, NextIInv, PTL DEF Spec

(* The rows and the requests keep their types: lengths are u64, stamps are     *)
(* numbers, and every request is at one of the places of its handler.          *)
THEOREM TypeCorrect == Spec => []TypeOK
<1>1. IInv => TypeOK
  BY DEF IInv
<1> QED
  BY <1>1, Invariance, PTL

(* A setter or an upload that answers 200 or 201 has been applied, whatever    *)
(* ran between its check, its UPDATE and its read; or else its row was deleted *)
(* meanwhile.                                                                  *)
THEOREM SuccessIsApplied == Spec => []OkMeansApplied
<1>1. IInv => OkMeansApplied
  BY DEF IInv, Places, Placed, OkMeansApplied, Succeeded
<1> QED
  BY <1>1, Invariance, PTL

(* No number of requests on one row undoes an update of a column that none of  *)
(* them names.                                                                 *)
THEOREM UpdatesAreKept == Spec => []NoLostUpdate
<1>1. IInv => NoLostUpdate
  BY DEF IInv, AllKept, Kept, ShowsWrite, NoLostUpdate
<1> QED
  BY <1>1, Invariance, PTL

(* The row a write is answered with was read after the write: it has the       *)
(* values written, and the write's own ETag unless others wrote too.           *)
THEOREM AnswersShowWrites == Spec => []AnswerShowsOwnWrite
<1>1. IInv => AnswerShowsOwnWrite
  BY DEF IInv, AllKept, Kept, ShowsWrite, AnswerShowsOwnWrite, Succeeded
<1> QED
  BY <1>1, Invariance, PTL

(* Answers about one blob or container, and its row, are the same where their  *)
(* ETags are, as long as generate_etag does not repeat itself.                 *)
THEOREM EtagsNameRows == Spec => []EtagNamesOneRow
<1>1. IInv => EtagNamesOneRow
  <2> SUFFICES ASSUME IInv, NEW r \in Requests, NEW s \in Requests, req[r].row # None
               PROVE  /\ rows[req[r].key] # None /\ rows[req[r].key].etag = req[r].row.etag
                           => rows[req[r].key] = req[r].row
                      /\ req[s].row # None /\ req[s].key = req[r].key /\ req[s].row.etag = req[r].row.etag
                           => req[s].row = req[r].row
    BY DEF EtagNamesOneRow
  <2>1. \A t \in Requests : req[t].row # None => req[t].pc = "done" /\ req[t].key \in Keys
    BY DEF IInv, Places, Placed, Keyed
  <2>2. \A t \in Requests : req[t].row # None => Shows(req[t]) /\ Shown(req[t]) = req[t].row
    BY <2>1 DEF Shows, Shown
  <2> QED
    BY <2>1, <2>2 DEF IInv, Etags, EtagsAgree, Agree
<1> QED
  BY <1>1, Invariance, PTL

(* Get Blob serves every range of every blob exactly: the length in any row a  *)
(* request can read is a u64, and AnswersAreExact does the rest.               *)
THEOREM RangesAreExact == Spec => []RangeIsExact
<1>1. IInv => RangeIsExact
  <2> SUFFICES ASSUME IInv, NEW r \in Requests, NEW headers \in Ranges, req[r].op = "get"
               PROVE  Exact(blob_get(headers, req[r].row), range_header(headers[1], headers[2]), req[r].row.len)
    BY DEF RangeIsExact
  <2>1. req[r].row \in Row
    BY DEF IInv, TypeOK, Req, Places, Placed
  <2>2. req[r].row.len \in U64
    BY <2>1 DEF Row
  <2>3. headers[1] \in RangeHeader \cup {None} /\ headers[2] \in RangeHeader \cup {None}
    OBVIOUS
  <2>4. range_header(headers[1], headers[2]) \in RangeHeader \cup {None}
    BY <2>3 DEF range_header
  <2> QED
    BY <2>2, <2>4, AnswersAreExact DEF blob_get
<1> QED
  BY <1>1, Invariance, PTL

(* The blocks that reach put_block_list are the entries of the body, each once *)
(* and in document order, for every document: the parsed body is the parser's  *)
(* until it is used, and DocumentIsReadInOrder does the rest.                  *)
THEOREM BlocksAreInOrder == Spec => []BlocksInOrder
<1>1. IInv => BlocksInOrder
  <2> SUFFICES ASSUME IInv, NEW r \in Requests, req[r].pc = "parsed"
               PROVE  InOrder(req[r].parsed, req[r].doc)
    BY DEF BlocksInOrder
  <2> DEFINE doc == req[r].doc
  <2>1. doc \in Documents /\ req[r].parsed = parse_block_list_request(Events(doc))
    BY DEF IInv, Parsed, HoldsParsed
  <2>2. IsDocument(doc)
    BY <2>1
  <2> HIDE DEF doc
  <2>3. InOrder(parse_block_list_request(Events(doc)), doc)
    BY <2>2, DocumentIsReadInOrder
  <2> QED
    BY <2>1, <2>3 DEF doc
<1> QED
  BY <1>1, Invariance, PTL
===============================================================================
