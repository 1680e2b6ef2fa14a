------------------------- MODULE FsBackendSerialProofs ------------------------
(***************************************************************************)
(* Theorems about FsBackend when clients do not write to one blob or       *)
(* container concurrently and do not disconnect, for any number of         *)
(* containers, blobs, blocks, bodies and requests.                         *)
(***************************************************************************)
EXTENDS FsBackendProofs

(* The surroundings of these theorems.  Faults, crashes and mismatches of  *)
(* Content-MD5 may happen unless a theorem says otherwise.                 *)
Serial == Env \cap {"overlap", "cancel"} = {}

-------------------------------------------------------------------------------
(* What a handler's step can touch: nothing but its blob, or the blobs of  *)
(* its container, and nothing but its block if it is Put Block.            *)

Touches(r, b) ==
    req[r].pc \in WriterPC /\ req[r].c = Home[b] /\ req[r].b \in {b, None}

TouchesBlock(r, b, i) == Touches(r, b) /\ req[r].id \in {i, None}

AllLive == \A r \in Requests : req[r].live

SameScope(p, q) ==
    p.c = q.c /\ p.b = q.b /\ p.id = q.id /\ p.live = q.live /\ p.bad = q.bad

(* A handler that goes on keeps what it writes to. *)
LEMMA SameScopeFields ==
    ASSUME NEW q \in Request
    PROVE  /\ \A pc : SameScope([q EXCEPT !.pc = pc], q)
           /\ \A pc, x : SameScope([q EXCEPT !.pc = pc, !.comm = x], q)
           /\ \A pc, x : SameScope([q EXCEPT !.pc = pc, !.out = x], q)
           /\ \A pc, x : SameScope([q EXCEPT !.pc = pc, !.left = x], q)
           /\ \A x, y : SameScope([q EXCEPT !.refs = x, !.res = y], q)
           /\ \A x : SameScope([q EXCEPT !.out = x], q)
           /\ \A x : SameScope([q EXCEPT !.res = x], q)
  BY DEF SameScope, Request

(* The steps within a loop stay at their await. *)
LEMMA SamePC ==
    ASSUME NEW q \in Request
    PROVE  /\ \A x : [q EXCEPT !.out = x].pc = q.pc
           /\ \A x : [q EXCEPT !.res = x].pc = q.pc
  BY DEF Request

LEMMA Goes ==
    ASSUME TypeInv, AllLive, NEW r \in Requests, NEW l, Begin(r, l) \/ Continue(r, l)
    PROVE  req'[r] = l /\ \A s \in Requests \ {r} : req'[s] = req[s]
  BY DEF Begin, Continue, TypeInv, AllLive

LEMMA Ends ==
    ASSUME TypeInv, NEW r \in Requests, End(r)
    PROVE  req'[r] = IdleReq /\ \A s \in Requests \ {r} : req'[s] = req[s]
  BY DEF End, TypeInv

(* A step is a step of one request, which keeps its scope or ends. *)
StepKeepsScope(r) ==
    /\ \A s \in Requests \ {r} : req'[s] = req[s]
    /\ \/ req'[r] = IdleReq
       \/ /\ SameScope(req'[r], req[r])
          /\ req'[r].pc \in WriterPC => req[r].pc \in WriterPC

LEMMA GoesInScope ==
    ASSUME TypeInv, AllLive, NEW r \in Requests, NEW l, Continue(r, l),
           SameScope(l, req[r]), l.pc \in WriterPC => req[r].pc \in WriterPC
    PROVE  StepKeepsScope(r)
  BY Goes DEF StepKeepsScope

LEMMA EndsInScope ==
    ASSUME TypeInv, NEW r \in Requests, End(r)
    PROVE  StepKeepsScope(r)
  BY Ends DEF StepKeepsScope

LEMMA StepScope ==
    ASSUME TypeInv, AllLive, NEW r \in Requests, Step(r)
    PROVE  StepKeepsScope(r)
<1> DEFINE q == req[r]
<1>q. q \in Request
  BY Locals DEF TypeInv
<1>w. \A pc \in WriterPC : pc \notin GetBlobPC
  BY DEF WriterPC, GetBlobPC, PutBlobPC, DeleteBlobPC, PutBlockPC, PutBlockListPC, DeleteContainerPC
<1> HIDE DEF q
<1>1. CASE \E pc : Continue(r, [q EXCEPT !.pc = pc]) /\ q.pc \in WriterPC
  BY <1>1, <1>q, SameScopeFields, GoesInScope DEF q
<1>2. CASE \E pc, x : Continue(r, [q EXCEPT !.pc = pc, !.comm = x]) /\ q.pc \in WriterPC
  BY <1>2, <1>q, SameScopeFields, GoesInScope DEF q
<1>3. CASE \E pc, x : Continue(r, [q EXCEPT !.pc = pc, !.out = x]) /\ q.pc \in WriterPC
  BY <1>3, <1>q, SameScopeFields, GoesInScope DEF q
<1>4. CASE \E pc, x : Continue(r, [q EXCEPT !.pc = pc, !.left = x]) /\ q.pc \in WriterPC
  BY <1>4, <1>q, SameScopeFields, GoesInScope DEF q
<1>5. CASE \E x, y : Continue(r, [q EXCEPT !.refs = x, !.res = y])
  <2>1. PICK x, y : Continue(r, [q EXCEPT !.refs = x, !.res = y])
    BY <1>5
  <2>2. /\ SameScope([q EXCEPT !.refs = x, !.res = y], q)
        /\ [q EXCEPT !.refs = x, !.res = y].pc = q.pc
    BY <1>q DEF SameScope, Request
  <2> QED
    BY <2>1, <2>2, GoesInScope DEF q
<1>6. CASE \E x : Continue(r, [q EXCEPT !.out = x])
  BY <1>6, <1>q, SameScopeFields, SamePC, GoesInScope DEF q
<1>7. CASE \E x : Continue(r, [q EXCEPT !.res = x])
  BY <1>7, <1>q, SameScopeFields, SamePC, GoesInScope DEF q
<1>8. CASE End(r)
  BY <1>8, EndsInScope
<1>9. CASE UNCHANGED req
  BY <1>9 DEF StepKeepsScope, SameScope
<1>10. CASE \E x : Continue(r, [q EXCEPT !.pc = "gb_stream", !.out = x])
  <2>1. PICK x : Continue(r, [q EXCEPT !.pc = "gb_stream", !.out = x])
    BY <1>10
  <2>2. /\ SameScope([q EXCEPT !.pc = "gb_stream", !.out = x], q)
        /\ [q EXCEPT !.pc = "gb_stream", !.out = x].pc = "gb_stream"
    BY <1>q DEF SameScope, Request
  <2> QED
    BY <1>w, <2>1, <2>2, GoesInScope DEF q, GetBlobPC
<1> USE DEF WriterPC
<1>a. CASE put_blob_write(r) \/ put_blob_reject(r) \/ put_blob_upsert(r)
  BY <1>a, <1>1, <1>8 DEF put_blob_write, put_blob_reject, put_blob_upsert, Goto, q, PutBlobPC
<1>b. CASE get_blob_open(r) \/ get_blob_stream(r)
  BY <1>b, <1>8, <1>10 DEF get_blob_open, get_blob_stream, q
<1>c. CASE delete_blob_delete(r) \/ delete_blob_committed(r) \/ delete_blob_staged(r) \/ delete_blob_unlink(r)
  BY <1>c, <1>1, <1>8 DEF delete_blob_delete, delete_blob_committed, delete_blob_staged, delete_blob_unlink,
     Goto, q, DeleteBlobPC
<1>d. CASE put_block_write(r) \/ put_block_stage(r)
  BY <1>d, <1>1, <1>8 DEF put_block_write, put_block_stage, Goto, q, PutBlockPC
<1>e. CASE put_block_list_committed(r) \/ put_block_list_resolve(r) \/ put_block_list_check(r)
  BY <1>e, <1>2, <1>3, <1>5, <1>8
  DEF put_block_list_committed, put_block_list_resolve, put_block_list_check, q, PutBlockListPC
<1>f. CASE put_block_list_part(r) \/ put_block_list_cleanup(r)
  BY <1>f, <1>6, <1>7, <1>8 DEF put_block_list_part, put_block_list_cleanup, q
<1>g. CASE put_block_list_rename(r) \/ put_block_list_commit(r)
  BY <1>g, <1>1, <1>8 DEF put_block_list_rename, put_block_list_commit, Goto, q, PutBlockListPC
<1>h. CASE delete_container_rows(r) \/ delete_container_unlink(r)
  BY <1>h, <1>4 DEF delete_container_rows, delete_container_unlink, q, DeleteContainerPC
<1>i. CASE delete_container_rmdir(r) \/ delete_container_end(r) \/ NoContainer(r)
  BY <1>i, <1>8, <1>9 DEF delete_container_rmdir, delete_container_end, NoContainer
<1> QED
  BY <1>a, <1>b, <1>c, <1>d, <1>e, <1>f, <1>g, <1>h, <1>i DEF Step

(* A step changes nothing outside its scope. *)
StepKeepsRest(r) ==
    /\ \A b \in Blobs : ~Touches(r, b) =>
         /\ blobs'[b] = blobs[b] /\ staged'[b] = staged[b] /\ committed'[b] = committed[b]
         /\ blobFile'[b] = blobFile[b] /\ blockFile'[b] = blockFile[b]
         /\ b \in dirty' <=> b \in dirty
    /\ \A b \in Blobs, i \in BlockIds : ~TouchesBlock(r, b, i) =>
         staged'[b][i] = staged[b][i] /\ blockFile'[b][i] = blockFile[b][i]
    /\ req[r].pc \in PutBlockPC => UNCHANGED <<blobs, committed, blobFile, dirty>>
    /\ containers' \subseteq containers
    /\ \A c \in containers \ containers' : req[r].pc = "dc_tx" /\ req[r].c = c

LEMMA StepRest ==
    ASSUME TypeInv, NEW r \in Requests, Step(r)
    PROVE  StepKeepsRest(r)
<1> DEFINE q == req[r]
<1>q. q \in GoodRequest
  BY DEF TypeInv
<1>b. q.pc \in PutBlobPC \cup DeleteBlobPC \cup PutBlockPC \cup PutBlockListPC =>
        /\ q.b \in Blobs /\ q.c = Home[q.b] /\ q.pc \in WriterPC
        /\ q.pc \notin PutBlockPC => q.id = None
        /\ q.pc \in PutBlockPC => q.id \in BlockIds
  BY <1>q, Locals DEF WellFormed, BlobPC, PC, WriterPC, PutBlobPC, DeleteBlobPC, PutBlockPC,
     PutBlockListPC, DeleteContainerPC
<1>c. q.pc \in DeleteContainerPC =>
        /\ q.b = None /\ q.id = None /\ q.pc \in WriterPC /\ q.pc \notin PutBlockPC
        /\ q.left \subseteq BlobsOf(q.c)
  BY <1>q, Locals DEF WellFormed, BlobPC, PC, WriterPC, PutBlockPC, DeleteContainerPC
<1>t. /\ blobs \in [Blobs -> Content \cup {None}]
      /\ staged \in [Blobs -> [BlockIds -> Bodies \cup {None}]]
      /\ committed \in [Blobs -> Seq(CommittedBlockRow)]
      /\ blobFile \in [Blobs -> Content \cup {None}]
      /\ blockFile \in [Blobs -> [BlockIds -> Bodies \cup {None}]]
      /\ dirty \subseteq Blobs
  BY DEF TypeInv, DbTypeOK
<1> HIDE DEF q
<1>r. \A b : Touches(r, b) <=> q.pc \in WriterPC /\ q.c = Home[b] /\ q.b \in {b, None}
  BY DEF Touches, q
<1>i. \A b, i : TouchesBlock(r, b, i) <=> Touches(r, b) /\ q.id \in {i, None}
  BY DEF TouchesBlock, q
(* The shapes a step may have. *)
<1>s1. CASE UNCHANGED <<dbVars, files, dirty>>
  BY <1>s1 DEF StepKeepsRest, dbVars, files
<1>s2. CASE /\ q.pc \in PutBlobPC \cup DeleteBlobPC \cup PutBlockListPC
            /\ blobs' = blobs \/ \E x : blobs' = [blobs EXCEPT ![q.b] = x]
            /\ staged' = staged \/ staged' = [staged EXCEPT ![q.b] = NoBlocks]
            /\ committed' = committed \/ \E x : committed' = [committed EXCEPT ![q.b] = x]
            /\ blobFile' = blobFile \/ \E x : blobFile' = [blobFile EXCEPT ![q.b] = x]
            /\ blockFile' = blockFile \/ \E i : blockFile' = [blockFile EXCEPT ![q.b][i] = None]
            /\ dirty' \in {dirty, dirty \cup {q.b}, dirty \ {q.b}}
            /\ UNCHANGED containers
  <2>1. /\ \A b \in Blobs : Touches(r, b) <=> b = q.b
        /\ \A b \in Blobs, i \in BlockIds : TouchesBlock(r, b, i) <=> b = q.b
        /\ q.b \in Blobs /\ q.pc \notin PutBlockPC
    <3>1. q.pc \notin PutBlockPC
      BY <1>s2 DEF PutBlockPC, PutBlobPC, DeleteBlobPC, PutBlockListPC
    <3> QED
      BY <1>b, <1>r, <1>i, <1>s2, <3>1, NoneAssumption
  <2>2. \A b \in Blobs : b # q.b =>
          /\ blobs'[b] = blobs[b] /\ staged'[b] = staged[b] /\ committed'[b] = committed[b]
          /\ blobFile'[b] = blobFile[b] /\ blockFile'[b] = blockFile[b]
          /\ b \in dirty' <=> b \in dirty
    <3>1. \A b \in Blobs : b # q.b => blobs'[b] = blobs[b] /\ staged'[b] = staged[b]
      BY <1>t, <1>s2
    <3>2. \A b \in Blobs : b # q.b => committed'[b] = committed[b] /\ blobFile'[b] = blobFile[b]
      BY <1>t, <1>s2
    <3>3. \A b \in Blobs : b # q.b => blockFile'[b] = blockFile[b]
      BY <1>t, <1>s2
    <3>4. \A b \in Blobs : b # q.b => (b \in dirty' <=> b \in dirty)
      BY <1>s2
    <3> QED
      BY <3>1, <3>2, <3>3, <3>4
  <2>3. UNCHANGED containers
    BY <1>s2
  <2> QED
    BY <2>1, <2>2, <2>3 DEF StepKeepsRest, q
<1>s3. CASE /\ q.pc \in PutBlockPC
            /\ staged' = staged \/ staged' = [staged EXCEPT ![q.b][q.id] = q.body]
            /\ blockFile' = blockFile \/ blockFile' = [blockFile EXCEPT ![q.b][q.id] = q.body]
            /\ UNCHANGED <<containers, blobs, committed, blobFile, dirty>>
  <2>1. /\ \A b \in Blobs : Touches(r, b) <=> b = q.b
        /\ \A b \in Blobs, i \in BlockIds : TouchesBlock(r, b, i) <=> b = q.b /\ i = q.id
        /\ q.b \in Blobs /\ q.id \in BlockIds
    BY <1>b, <1>r, <1>i, <1>s3, NoneAssumption
  <2>2. \A b \in Blobs : b # q.b => staged'[b] = staged[b] /\ blockFile'[b] = blockFile[b]
    BY <1>t, <1>s3
  <2>3. \A b \in Blobs, i \in BlockIds : ~(b = q.b /\ i = q.id) =>
          staged'[b][i] = staged[b][i] /\ blockFile'[b][i] = blockFile[b][i]
    BY <1>t, <1>s3, <2>1
  <2> QED
    BY <1>s3, <2>1, <2>2, <2>3 DEF StepKeepsRest, q
<1>s4. CASE /\ q.pc \in DeleteContainerPC
            /\ \A b \in Blobs : Home[b] # q.c =>
                 /\ blobs'[b] = blobs[b] /\ staged'[b] = staged[b] /\ committed'[b] = committed[b]
                 /\ blobFile'[b] = blobFile[b] /\ blockFile'[b] = blockFile[b]
            /\ UNCHANGED dirty
            /\ UNCHANGED containers \/ (q.pc = "dc_tx" /\ containers' = containers \ {q.c})
  <2>1. /\ \A b \in Blobs : Touches(r, b) <=> Home[b] = q.c
        /\ \A b \in Blobs, i \in BlockIds : TouchesBlock(r, b, i) <=> Home[b] = q.c
        /\ q.pc \notin PutBlockPC
    BY <1>c, <1>r, <1>i, <1>s4
  <2> QED
    BY <1>s4, <2>1 DEF StepKeepsRest, q
<1> USE DEF dbVars, files, history
<1>1. CASE put_blob_write(r) \/ put_blob_reject(r) \/ put_blob_upsert(r)
  BY <1>1, <1>s2 DEF put_blob_write, put_blob_reject, put_blob_upsert, replace_blob_file, unlink_blob,
     upsert_blob, q, PutBlobPC
<1>2. CASE \/ get_blob_open(r) \/ get_blob_stream(r)
           \/ put_block_list_committed(r) \/ put_block_list_resolve(r) \/ put_block_list_check(r)
           \/ put_block_list_part(r) \/ delete_container_end(r) \/ NoContainer(r)
  BY <1>2, <1>s1 DEF get_blob_open, get_blob_stream, put_block_list_committed, put_block_list_resolve,
     put_block_list_check, put_block_list_part, delete_container_end, NoContainer
<1>3. CASE \/ delete_blob_delete(r) \/ delete_blob_committed(r)
           \/ delete_blob_staged(r) \/ delete_blob_unlink(r)
  BY <1>3, <1>s2 DEF delete_blob_delete, delete_blob_committed, delete_blob_staged, delete_blob_unlink,
     delete_blob_row, delete_committed_blocks, delete_staged_blocks, unlink_blob, q, DeleteBlobPC
<1>4. CASE put_block_write(r) \/ put_block_stage(r)
  BY <1>4, <1>s3 DEF put_block_write, put_block_stage, stage_block, q, PutBlockPC
<1>5. CASE put_block_list_rename(r) \/ put_block_list_commit(r) \/ put_block_list_cleanup(r)
  BY <1>5, <1>s2 DEF put_block_list_rename, put_block_list_commit, put_block_list_cleanup,
     replace_blob_file, commit_block_list_tx, unlink_block, q, PutBlockListPC
<1>6. CASE delete_container_rows(r)
  BY <1>6, <1>s4 DEF delete_container_rows, delete_container_tx, q, DeleteContainerPC
<1>7. CASE delete_container_unlink(r)
  <2>1. PICK b \in q.left : unlink_blob(b)
    BY <1>7 DEF delete_container_unlink, q
  <2>2. b \in Blobs /\ Home[b] = q.c
    BY <1>7, <1>c, <2>1 DEF delete_container_unlink, q, DeleteContainerPC, BlobsOf
  <2>3. \A a \in Blobs : Home[a] # q.c => blobFile'[a] = blobFile[a]
    BY <1>t, <2>1, <2>2 DEF unlink_blob
  <2> QED
    BY <1>7, <1>s4, <2>3 DEF delete_container_unlink, q, DeleteContainerPC
<1>8. CASE delete_container_rmdir(r)
  <2>1. PICK b \in BlobsOf(q.c) :
          \/ blobFile' = [blobFile EXCEPT ![b] = None] /\ UNCHANGED blockFile
          \/ \E i : blockFile' = [blockFile EXCEPT ![b][i] = None] /\ UNCHANGED blobFile
    BY <1>8 DEF delete_container_rmdir, q
  <2>2. \A a \in Blobs : Home[a] # q.c => blobFile'[a] = blobFile[a] /\ blockFile'[a] = blockFile[a]
    BY <1>t, <2>1 DEF BlobsOf
  <2> QED
    BY <1>8, <1>s4, <2>2 DEF delete_container_rmdir, q, DeleteContainerPC
<1> QED
  BY <1>1, <1>2, <1>3, <1>4, <1>5, <1>6, <1>7, <1>8 DEF Step

-------------------------------------------------------------------------------
(* Writers that do not overlap, and what each can rely on at its await.    *)

Clash(r, s) ==
    /\ req[r].pc \in WriterPC
    /\ req[s].pc \in WriterPC
    /\ req[r].c = req[s].c
    /\ \/ req[r].b = None
       \/ req[s].b = None
       \/ req[r].b = req[s].b /\ (req[r].id = None \/ req[s].id = None \/ req[r].id = req[s].id)

OneWriter == \A r, s \in Requests : r # s => ~Clash(r, s)

(* Delete Container is past its transaction. *)
EmptiedPC == {"dc_unlink", "dc_rmdir"}

ReliesOn(r) ==
    LET q == req[r] IN
    /\ q.pc \in WriterPC \ EmptiedPC => q.c \in containers
    /\ q.pc \in EmptiedPC => \A b \in BlobsOf(q.c) : blobs[b] = None /\ staged[b] = NoBlocks
    /\ q.pc \in {"pb_reject", "pb_upsert", "bl_commit"} => q.b \in dirty
    /\ q.pc \in {"pb_upsert", "bl_commit"} => blobFile[q.b] = q.out
    /\ q.pc \in {"db_committed", "db_staged", "db_unlink"} => blobs[q.b] = None
    /\ q.pc = "bk_stage" => blockFile[q.b][q.id] # None
    /\ q.pc \in {"bl_resolve", "bl_concat"} =>
         \A k \in DOMAIN q.res : q.res[k].has => staged[q.b][q.res[k].id] # None
    /\ q.pc \in {"bl_committed"} => q.res = <<>>
    /\ q.pc = "bl_concat" => \A k \in DOMAIN q.res : q.res[k].has
    /\ q.pc = "bl_cleanup" => staged[q.b] = NoBlocks

Tables == Consistent /\ StagedRowHasFile /\ StagedRowHasContainer

SerialInv == AllLive /\ OneWriter /\ (\A r \in Requests : ReliesOn(r)) /\ Tables

(* Nobody else touches what a writer writes. *)
LEMMA Apart ==
    ASSUME TypeInv, OneWriter, NEW r \in Requests, NEW s \in Requests \ {r}
    PROVE  /\ req[s].pc \in WriterPC \ (DeleteContainerPC \cup PutBlockPC) =>
                req[s].b \in Blobs /\ ~Touches(r, req[s].b)
           /\ req[s].pc \in DeleteContainerPC => \A b \in BlobsOf(req[s].c) : ~Touches(r, b)
           /\ req[s].pc \in PutBlockPC => /\ req[s].b \in Blobs /\ req[s].id \in BlockIds
                                         /\ ~TouchesBlock(r, req[s].b, req[s].id)
<1> DEFINE q == req[s]
<1>q. q \in GoodRequest
  BY DEF TypeInv
<1>n. ~Clash(r, s)
  BY DEF OneWriter
<1> HIDE DEF q
<1>b. /\ q.pc \in WriterPC \ DeleteContainerPC => q.b \in Blobs /\ q.c = Home[q.b]
      /\ q.pc \in WriterPC \ PutBlockPC => q.id = None
      /\ q.pc \in DeleteContainerPC => q.b = None /\ q.pc \in WriterPC
      /\ q.pc \in PutBlockPC => q.b \in Blobs /\ q.id \in BlockIds /\ q.c = Home[q.b] /\ q.pc \in WriterPC
  BY <1>q, Locals DEF WellFormed, BlobPC, PC, WriterPC, PutBlobPC, DeleteBlobPC, PutBlockPC,
     PutBlockListPC, DeleteContainerPC
<1>1. q.pc \in WriterPC \ (DeleteContainerPC \cup PutBlockPC) => q.b \in Blobs /\ ~Touches(r, q.b)
  BY <1>b, <1>n, <1>q DEF Clash, Touches, q
<1>2. q.pc \in DeleteContainerPC => \A b \in BlobsOf(q.c) : ~Touches(r, b)
  BY <1>b, <1>n, <1>q DEF Clash, Touches, q, BlobsOf
<1>3. q.pc \in PutBlockPC =>
        q.b \in Blobs /\ q.id \in BlockIds /\ ~TouchesBlock(r, q.b, q.id)
  BY <1>b, <1>n, <1>q DEF Clash, Touches, TouchesBlock, q
<1> QED
  BY <1>1, <1>2, <1>3 DEF q

(* Nobody else disturbs what a writer relies on. *)
LEMMA OthersRely ==
    ASSUME TypeInv, OneWriter, NEW r \in Requests, NEW s \in Requests \ {r},
           StepKeepsRest(r), req'[s] = req[s], ReliesOn(s)
    PROVE  ReliesOn(s)'
<1> DEFINE q == req[s]
<1>q. req'[s] = q
  OBVIOUS
<1>n. ~Clash(r, s)
  BY DEF OneWriter
<1> HIDE DEF q
<1>1. q.pc \in WriterPC \ (DeleteContainerPC \cup PutBlockPC) => q.b \in Blobs /\ ~Touches(r, q.b)
  BY Apart DEF q
<1>2. q.pc \in DeleteContainerPC => \A b \in BlobsOf(q.c) : ~Touches(r, b)
  BY Apart DEF q
<1>3. q.pc \in PutBlockPC =>
        q.b \in Blobs /\ q.id \in BlockIds /\ ~TouchesBlock(r, q.b, q.id)
  BY Apart DEF q
<1>4. q.pc \in WriterPC /\ q.c \in containers => q.c \in containers'
  <2>1. req[r].pc = "dc_tx" => req[r].b = None /\ req[r].pc \in WriterPC
    BY Locals DEF TypeInv, WellFormed, DeleteContainerPC, WriterPC
  <2> QED
    BY <1>n, <2>1 DEF Clash, q, StepKeepsRest
<1>k. /\ q.pc \in WriterPC \ EmptiedPC => q.c \in containers
      /\ q.pc \in EmptiedPC => \A b \in BlobsOf(q.c) : blobs[b] = None /\ staged[b] = NoBlocks
      /\ q.pc \in {"pb_reject", "pb_upsert", "bl_commit"} => q.b \in dirty
      /\ q.pc \in {"pb_upsert", "bl_commit"} => blobFile[q.b] = q.out
      /\ q.pc \in {"db_committed", "db_staged", "db_unlink"} => blobs[q.b] = None
      /\ q.pc = "bk_stage" => blockFile[q.b][q.id] # None
      /\ q.pc \in {"bl_resolve", "bl_concat"} =>
           \A k \in DOMAIN q.res : q.res[k].has => staged[q.b][q.res[k].id] # None
      /\ q.pc \in {"bl_committed"} => q.res = <<>>
      /\ q.pc = "bl_concat" => \A k \in DOMAIN q.res : q.res[k].has
      /\ q.pc = "bl_cleanup" => staged[q.b] = NoBlocks
  BY DEF ReliesOn, q
<1>5. CASE q.pc \notin WriterPC
  BY <1>5, <1>q
  DEF ReliesOn, WriterPC, EmptiedPC, PutBlobPC, DeleteBlobPC, PutBlockPC, PutBlockListPC, DeleteContainerPC
<1>6. CASE q.pc \in DeleteContainerPC
  <2>1. \A b \in BlobsOf(q.c) : blobs'[b] = blobs[b] /\ staged'[b] = staged[b]
    BY <1>2, <1>6 DEF StepKeepsRest, BlobsOf
  <2> QED
    BY <1>4, <1>6, <1>k, <1>q, <2>1
    DEF ReliesOn, WriterPC, EmptiedPC, DeleteContainerPC
<1>7. CASE q.pc \in PutBlockPC
  <2>1. blockFile'[q.b][q.id] = blockFile[q.b][q.id]
    BY <1>3, <1>7 DEF StepKeepsRest
  <2> QED
    BY <1>4, <1>7, <1>k, <1>q, <2>1 DEF ReliesOn, WriterPC, EmptiedPC, PutBlockPC
<1>8. CASE q.pc \in WriterPC \ (DeleteContainerPC \cup PutBlockPC)
  <2>1. /\ blobs'[q.b] = blobs[q.b] /\ staged'[q.b] = staged[q.b] /\ blobFile'[q.b] = blobFile[q.b]
        /\ q.b \in dirty' <=> q.b \in dirty
    BY <1>1, <1>8 DEF StepKeepsRest
  <2> QED
    BY <1>4, <1>8, <1>k, <1>q, <2>1 DEF ReliesOn, EmptiedPC, DeleteContainerPC, PutBlockPC
<1> QED
  BY <1>5, <1>6, <1>7, <1>8

(* Every request has ended or is where it was, or is past its last write.  *)
LEMMA IdleRelies ==
    ASSUME NEW r \in Requests, req'[r].pc \notin WriterPC
    PROVE  ReliesOn(r)'
  BY DEF ReliesOn, WriterPC, EmptiedPC, PutBlobPC, DeleteBlobPC, PutBlockPC, PutBlockListPC, DeleteContainerPC

LEMMA IdleIsNoWriter == IdleReq.pc \notin WriterPC /\ IdleReq.live
  BY DEF IdleReq, WriterPC, PutBlobPC, DeleteBlobPC, PutBlockPC, PutBlockListPC, DeleteContainerPC

LEMMA OneWriterKept ==
    ASSUME OneWriter, NEW r \in Requests, StepKeepsScope(r)
    PROVE  OneWriter'
<1> SUFFICES ASSUME NEW s \in Requests, NEW t \in Requests, s # t, Clash(s, t)'
             PROVE  FALSE
  BY DEF OneWriter
<1>1. \A u \in Requests : req'[u].pc \in WriterPC =>
        /\ req[u].pc \in WriterPC
        /\ req'[u].c = req[u].c /\ req'[u].b = req[u].b /\ req'[u].id = req[u].id
  BY IdleIsNoWriter DEF StepKeepsScope, SameScope
<1> QED
  BY <1>1 DEF OneWriter, Clash

LEMMA AllLiveKept ==
    ASSUME AllLive, NEW r \in Requests, StepKeepsScope(r)
    PROVE  AllLive'
  BY IdleIsNoWriter DEF AllLive, StepKeepsScope, SameScope

-------------------------------------------------------------------------------
(* Each step leaves its own request with what the next await relies on,    *)
(* and the tables in agreement with the files.                             *)

LEMMA PutBlobStepsKeepTables ==
    ASSUME TypeInv, AllLive, Tables, NEW r \in Requests, ReliesOn(r),
           put_blob_write(r) \/ put_blob_reject(r) \/ put_blob_upsert(r)
    PROVE  ReliesOn(r)' /\ Tables'
<1> DEFINE q == req[r]
<1>q. q \in GoodRequest /\ q \in Request
  BY Locals DEF TypeInv
<1>k. /\ q.pc \in PutBlobPC => q.c \in containers
      /\ q.pc \in {"pb_reject", "pb_upsert"} => q.b \in dirty
      /\ q.pc = "pb_upsert" => blobFile[q.b] = q.out
  BY DEF ReliesOn, q, WriterPC, EmptiedPC, PutBlobPC
<1>t. TypeInv /\ Tables
  OBVIOUS
<1> HIDE DEF q
<1>b. q.pc \in PutBlobPC => q.b \in Blobs
  BY <1>q, Locals DEF WellFormed, BlobPC, PC, WriterPC, PutBlobPC, DeleteContainerPC
<1> USE DEF dbVars, files, history
<1>1. CASE put_blob_write(r)
  <2> DEFINE pc == IF q.bad THEN "pb_reject" ELSE "pb_upsert"
             p == [q EXCEPT !.pc = pc]
  <2>1. /\ q.pc = "pb_write" /\ Continue(r, p) /\ q.b \in Blobs /\ q.c \in containers
        /\ blobFile' = [blobFile EXCEPT ![q.b] = q.out] /\ dirty' = dirty \cup {q.b}
        /\ UNCHANGED <<dbVars, blockFile>>
    BY <1>1, <1>b, <1>k DEF put_blob_write, replace_blob_file, Goto, q, PutBlobPC
  <2>2. p.pc \in {"pb_reject", "pb_upsert"} /\ p.c = q.c /\ p.b = q.b /\ p.out = q.out
    BY <1>q DEF Request
  <2> HIDE DEF p
  <2>3. req'[r] = p
    BY <2>1, Goes
  <2>4. ReliesOn(r)'
    BY <2>1, <2>2, <2>3 DEF ReliesOn, EmptiedPC, TypeInv
  <2> QED
    BY <2>1, <2>4 DEF Tables, Consistent, StagedRowHasFile, StagedRowHasContainer, TypeInv
<1>2. CASE put_blob_reject(r)
  <2>1. /\ q.pc = "pb_reject" /\ q.b \in dirty /\ End(r)
        /\ blobFile' = [blobFile EXCEPT ![q.b] = None] \/ UNCHANGED blobFile
        /\ UNCHANGED <<dbVars, blockFile, dirty>>
    BY <1>2, <1>k DEF put_blob_reject, unlink_blob, q
  <2>2. ReliesOn(r)'
    BY <2>1, Ends, IdleIsNoWriter, IdleRelies
  <2> QED
    BY <2>1, <2>2 DEF Tables, Consistent, StagedRowHasFile, StagedRowHasContainer, TypeInv
<1>3. CASE put_blob_upsert(r)
  <2>1. /\ q.b \in Blobs /\ blobFile[q.b] = q.out /\ End(r)
        /\ blobs' = [blobs EXCEPT ![q.b] = q.out] /\ dirty' = dirty \ {q.b}
        /\ UNCHANGED <<containers, staged, files>>
    BY <1>3, <1>b, <1>k DEF put_blob_upsert, upsert_blob, q, PutBlobPC
  <2>2. ReliesOn(r)'
    BY <2>1, Ends, IdleIsNoWriter, IdleRelies
  <2> QED
    BY <2>1, <2>2 DEF Tables, Consistent, StagedRowHasFile, StagedRowHasContainer, TypeInv, DbTypeOK
<1> QED
  BY <1>1, <1>2, <1>3

LEMMA DeleteBlobStepsKeepTables ==
    ASSUME TypeInv, AllLive, Tables, NEW r \in Requests, ReliesOn(r),
           \/ delete_blob_delete(r) \/ delete_blob_committed(r)
           \/ delete_blob_staged(r) \/ delete_blob_unlink(r)
    PROVE  ReliesOn(r)' /\ Tables'
<1> DEFINE q == req[r]
           p(pc) == [q EXCEPT !.pc = pc]
<1>q. q \in GoodRequest /\ q \in Request
  BY Locals DEF TypeInv
<1>k. /\ q.pc \in DeleteBlobPC => q.c \in containers
      /\ q.pc \in {"db_committed", "db_staged", "db_unlink"} => blobs[q.b] = None
  BY DEF ReliesOn, q, WriterPC, EmptiedPC, DeleteBlobPC
<1>t. /\ staged \in [Blobs -> [BlockIds -> Bodies \cup {None}]]
      /\ blobs \in [Blobs -> Content \cup {None}]
      /\ blobFile \in [Blobs -> Content \cup {None}]
  BY DEF TypeInv, DbTypeOK
<1> HIDE DEF q
<1>b. q.pc \in DeleteBlobPC => q.b \in Blobs
  BY <1>q, Locals DEF WellFormed, BlobPC, PC, WriterPC, DeleteBlobPC, DeleteContainerPC
<1>p. \A pc : p(pc).pc = pc /\ p(pc).c = q.c /\ p(pc).b = q.b
  BY <1>q DEF Request
<1>g. ASSUME NEW pc \in {"db_committed", "db_staged", "db_unlink"}, Continue(r, p(pc)),
             q.c \in containers', blobs'[q.b] = None
      PROVE  ReliesOn(r)'
  <2> HIDE DEF p
  <2>1. req'[r] = p(pc)
    BY <1>g, Goes
  <2> QED
    BY <1>g, <1>p, <2>1 DEF ReliesOn, EmptiedPC
<1> HIDE DEF p
<1> USE DEF dbVars, files, history
<1>1. CASE delete_blob_delete(r)
  <2>1. /\ q.b \in Blobs /\ q.c \in containers /\ Continue(r, p("db_committed"))
        /\ blobs' = [blobs EXCEPT ![q.b] = None]
        /\ UNCHANGED <<containers, staged, files, dirty>>
    BY <1>1, <1>b, <1>k DEF delete_blob_delete, delete_blob_row, Goto, q, p, DeleteBlobPC
  <2>2. blobs'[q.b] = None
    BY <1>t, <2>1
  <2>3. ReliesOn(r)'
    BY <1>g, <2>1, <2>2
  <2> QED
    BY <1>t, <2>1, <2>3 DEF Tables, Consistent, StagedRowHasFile, StagedRowHasContainer
<1>2. CASE delete_blob_committed(r)
  <2>1. /\ q.b \in Blobs /\ q.c \in containers /\ Continue(r, p("db_staged")) /\ blobs[q.b] = None
        /\ UNCHANGED <<containers, blobs, staged, files, dirty>>
    BY <1>2, <1>b, <1>k DEF delete_blob_committed, delete_committed_blocks, Goto, q, p, DeleteBlobPC
  <2>2. ReliesOn(r)'
    BY <1>g, <2>1
  <2> QED
    BY <2>1, <2>2 DEF Tables, Consistent, StagedRowHasFile, StagedRowHasContainer
<1>3. CASE delete_blob_staged(r)
  <2>1. /\ q.b \in Blobs /\ q.c \in containers /\ Continue(r, p("db_unlink")) /\ blobs[q.b] = None
        /\ UNCHANGED <<containers, blobs, files, dirty>>
        /\ staged' = [staged EXCEPT ![q.b] = NoBlocks] \/ UNCHANGED staged
    BY <1>3, <1>b, <1>k DEF delete_blob_staged, delete_staged_blocks, Goto, q, p, DeleteBlobPC
  <2>2. ReliesOn(r)'
    BY <1>g, <2>1
  <2>3. \A b \in Blobs, i \in BlockIds : staged'[b][i] # None => staged[b][i] # None
    BY <1>t, <2>1 DEF NoBlocks
  <2> QED
    BY <2>1, <2>2, <2>3 DEF Tables, Consistent, StagedRowHasFile, StagedRowHasContainer
<1>4. CASE delete_blob_unlink(r)
  <2>1. /\ q.b \in Blobs /\ blobs[q.b] = None /\ End(r)
        /\ blobFile' = [blobFile EXCEPT ![q.b] = None] \/ UNCHANGED blobFile
        /\ UNCHANGED <<dbVars, blockFile, dirty>>
    BY <1>4, <1>b, <1>k DEF delete_blob_unlink, unlink_blob, q, DeleteBlobPC
  <2>2. ReliesOn(r)'
    BY <2>1, Ends, IdleIsNoWriter, IdleRelies
  <2> QED
    BY <1>t, <2>1, <2>2 DEF Tables, Consistent, StagedRowHasFile, StagedRowHasContainer
<1> QED
  BY <1>1, <1>2, <1>3, <1>4

LEMMA PutBlockStepsKeepTables ==
    ASSUME TypeInv, AllLive, Tables, NEW r \in Requests, ReliesOn(r),
           put_block_write(r) \/ put_block_stage(r)
    PROVE  ReliesOn(r)' /\ Tables'
<1> DEFINE q == req[r]
<1>q. q \in GoodRequest /\ q \in Request
  BY Locals DEF TypeInv
<1>k. /\ q.pc \in PutBlockPC => q.c \in containers
      /\ q.pc = "bk_stage" => blockFile[q.b][q.id] # None
  BY DEF ReliesOn, q, WriterPC, EmptiedPC, PutBlockPC
<1>t. /\ staged \in [Blobs -> [BlockIds -> Bodies \cup {None}]]
      /\ blockFile \in [Blobs -> [BlockIds -> Bodies \cup {None}]]
  BY DEF TypeInv, DbTypeOK
<1> HIDE DEF q
<1>b. q.pc \in PutBlockPC => q.b \in Blobs /\ q.id \in BlockIds /\ q.body \in Bodies /\ q.c = Home[q.b]
  BY <1>q, Locals DEF WellFormed, BlobPC, PC, WriterPC, PutBlockPC, DeleteContainerPC
<1> USE DEF dbVars, files, history
<1>1. CASE put_block_write(r)
  <2> DEFINE p == [q EXCEPT !.pc = "bk_stage"]
  <2>1. /\ q.pc \in PutBlockPC /\ Continue(r, p)
        /\ blockFile' = [blockFile EXCEPT ![q.b][q.id] = q.body]
        /\ UNCHANGED <<dbVars, blobFile, dirty>>
    BY <1>1 DEF put_block_write, Goto, q, PutBlockPC
  <2>2. p.pc = "bk_stage" /\ p.c = q.c /\ p.b = q.b /\ p.id = q.id
    BY <1>q DEF Request
  <2> HIDE DEF p
  <2>3. req'[r] = p
    BY <2>1, Goes
  <2>4. blockFile'[q.b][q.id] # None
    BY <1>b, <1>t, <2>1, NoneAssumption
  <2>5. ReliesOn(r)'
    BY <1>k, <2>1, <2>2, <2>3, <2>4 DEF ReliesOn, EmptiedPC
  <2>6. \A b \in Blobs, i \in BlockIds : blockFile[b][i] # None => blockFile'[b][i] # None
    BY <1>b, <1>t, <2>1, NoneAssumption
  <2> QED
    BY <2>1, <2>5, <2>6 DEF Tables, Consistent, StagedRowHasFile, StagedRowHasContainer
<1>2. CASE put_block_stage(r)
  <2>1. /\ q.pc \in PutBlockPC /\ blockFile[q.b][q.id] # None /\ End(r)
        /\ staged' = [staged EXCEPT ![q.b][q.id] = q.body]
        /\ UNCHANGED <<containers, blobs, files, dirty>>
    BY <1>2, <1>k DEF put_block_stage, stage_block, q, PutBlockPC
  <2>2. ReliesOn(r)'
    BY <2>1, Ends, IdleIsNoWriter, IdleRelies
  <2>3. \A b \in Blobs, i \in BlockIds :
          staged'[b][i] # None => staged[b][i] # None \/ (b = q.b /\ i = q.id)
    BY <1>t, <2>1
  <2>4. StagedRowHasFile'
    BY <2>1, <2>3 DEF Tables, StagedRowHasFile
  <2>5. StagedRowHasContainer'
    BY <1>b, <1>k, <2>1, <2>3 DEF Tables, StagedRowHasContainer
  <2>6. Consistent'
    BY <2>1 DEF Tables, Consistent
  <2> QED
    BY <2>2, <2>4, <2>5, <2>6 DEF Tables
<1> QED
  BY <1>1, <1>2

LEMMA ResolvedFields ==
    ASSUME NEW res \in Seq(ResolvedBlock), NEW k \in DOMAIN res
    PROVE  res[k].id \in BlockIds /\ res[k].size \in Nat /\ res[k].has \in BOOLEAN
<1>1. res[k] \in ResolvedBlock
  BY LenProperties, ElementOfSeq
<1> QED
  BY <1>1 DEF ResolvedBlock

LEMMA ResolvedHasRow ==
    ASSUME NEW ref, NEW s, NEW m, NEW x \in resolve_block(ref, s, m)
    PROVE  x.id = ref.id /\ (x.has => s # None)
  BY DEF resolve_block

LEMMA PutBlockListStepsKeepTables ==
    ASSUME TypeInv, AllLive, Tables, NEW r \in Requests, ReliesOn(r),
           \/ put_block_list_committed(r) \/ put_block_list_resolve(r) \/ put_block_list_check(r)
           \/ put_block_list_part(r) \/ put_block_list_rename(r) \/ put_block_list_commit(r)
           \/ put_block_list_cleanup(r)
    PROVE  ReliesOn(r)' /\ Tables'
<1> DEFINE q == req[r]
           Found(res) == \A k \in DOMAIN res : res[k].has => staged[q.b][res[k].id] # None
<1>q. q \in GoodRequest /\ q \in Request
  BY Locals DEF TypeInv
<1>k. /\ q.pc \in PutBlockListPC => q.c \in containers
      /\ q.pc \in {"bl_resolve", "bl_concat"} => Found(q.res)
      /\ q.pc = "bl_committed" => q.res = <<>>
      /\ q.pc = "bl_concat" => \A k \in DOMAIN q.res : q.res[k].has
      /\ q.pc = "bl_commit" => blobFile[q.b] = q.out
      /\ q.pc = "bl_cleanup" => staged[q.b] = NoBlocks
  BY DEF ReliesOn, q, WriterPC, EmptiedPC, PutBlockListPC
<1>t. /\ staged \in [Blobs -> [BlockIds -> Bodies \cup {None}]]
      /\ blobs \in [Blobs -> Content \cup {None}]
      /\ blobFile \in [Blobs -> Content \cup {None}]
      /\ blockFile \in [Blobs -> [BlockIds -> Bodies \cup {None}]]
  BY DEF TypeInv, DbTypeOK
<1> HIDE DEF q
<1>b. q.pc \in PutBlockListPC => q.b \in Blobs
  BY <1>q, Locals DEF WellFormed, BlobPC, PC, WriterPC, PutBlockListPC, DeleteContainerPC
<1> USE DEF dbVars, files, history
<1>e. ASSUME End(r), UNCHANGED <<dbVars, files, dirty>>
      PROVE  ReliesOn(r)' /\ Tables'
  BY <1>e, Ends, IdleIsNoWriter, IdleRelies
  DEF Tables, Consistent, StagedRowHasFile, StagedRowHasContainer
<1>u. UNCHANGED <<dbVars, files, dirty>> => Tables'
  BY DEF Tables, Consistent, StagedRowHasFile, StagedRowHasContainer
<1>1. CASE put_block_list_committed(r)
  <2>1. PICK comm : Continue(r, [q EXCEPT !.pc = "bl_resolve", !.comm = comm])
    BY <1>1 DEF put_block_list_committed, q
  <2> DEFINE p == [q EXCEPT !.pc = "bl_resolve", !.comm = comm]
  <2>2. p.pc = "bl_resolve" /\ p.c = q.c /\ p.b = q.b /\ p.res = q.res
    BY <1>q DEF Request
  <2>3. q.c \in containers /\ q.res = <<>> /\ UNCHANGED <<dbVars, files, dirty>>
    BY <1>1, <1>k DEF put_block_list_committed, q, PutBlockListPC
  <2> HIDE DEF p
  <2>4. req'[r] = p
    BY <2>1, Goes DEF p
  <2>5. DOMAIN p.res = {}
    BY <2>2, <2>3
  <2>6. ReliesOn(r)'
    BY <2>2, <2>3, <2>4, <2>5 DEF ReliesOn, EmptiedPC
  <2> QED
    BY <1>u, <2>3, <2>6
<1>2. CASE put_block_list_resolve(r)
  <2> DEFINE ref == Head(q.refs)
             found == resolve_block(ref, staged[q.b][ref.id], q.comm[ref.id])
  <2>1. q.pc = "bl_resolve" /\ UNCHANGED <<dbVars, files, dirty>> /\ q.c \in containers
    BY <1>2, <1>k DEF put_block_list_resolve, q, PutBlockListPC
  <2>2. CASE End(r)
    BY <1>e, <2>1, <2>2
  <2>3. ASSUME NEW x \in found, Continue(r, [q EXCEPT !.refs = Tail(@), !.res = Append(@, x)])
        PROVE  ReliesOn(r)'
    <3> DEFINE p == [q EXCEPT !.refs = Tail(@), !.res = Append(@, x)]
    <3>1. p.pc = "bl_resolve" /\ p.c = q.c /\ p.b = q.b /\ p.res = Append(q.res, x)
      BY <1>q, <2>1 DEF Request
    <3>2. x.has => staged[q.b][x.id] # None
      BY <2>3, ResolvedHasRow
    <3> DEFINE res == Append(q.res, x)
    <3>3. /\ DOMAIN res = 1 .. Len(q.res) + 1
          /\ \A k \in 1 .. Len(q.res) : res[k] = q.res[k]
          /\ res[Len(q.res) + 1] = x
          /\ DOMAIN q.res = 1 .. Len(q.res) /\ Len(q.res) \in Nat
      <4>1. q.res \in Seq(ResolvedBlock)
        BY <1>q, Locals
      <4> QED
        BY <4>1, AppendProperties, LenProperties
    <3> HIDE DEF p, res
    <3>4. Found(q.res)
      BY <1>k, <2>1
    <3>5. Found(res)
      <4> SUFFICES ASSUME NEW k \in DOMAIN res, res[k].has
                   PROVE  staged[q.b][res[k].id] # None
        OBVIOUS
      <4>1. k \in DOMAIN q.res \/ k = Len(q.res) + 1
        BY <3>3
      <4> QED
        BY <3>2, <3>3, <3>4, <4>1
    <3>6. req'[r] = p /\ p.res = res
      BY <2>3, <3>1, Goes DEF p, res
    <3> QED
      BY <2>1, <3>1, <3>5, <3>6 DEF ReliesOn, EmptiedPC
  <2> QED
    BY <1>2, <1>u, <2>1, <2>2, <2>3 DEF put_block_list_resolve, q
<1>3. CASE put_block_list_check(r)
  <2>1. q.pc = "bl_resolve" /\ UNCHANGED <<dbVars, files, dirty>> /\ q.c \in containers
    BY <1>3, <1>k DEF put_block_list_check, q, PutBlockListPC
  <2>2. CASE End(r)
    BY <1>e, <2>1, <2>2
  <2>3. CASE /\ \A k \in DOMAIN q.res : q.res[k].has
             /\ Continue(r, [q EXCEPT !.pc = "bl_concat", !.out = <<>>])
    <3> DEFINE p == [q EXCEPT !.pc = "bl_concat", !.out = <<>>]
    <3>1. p.pc = "bl_concat" /\ p.c = q.c /\ p.b = q.b /\ p.res = q.res
      BY <1>q DEF Request
    <3> HIDE DEF p
    <3>2. req'[r] = p
      BY <2>3, Goes DEF p
    <3>3. ReliesOn(r)'
      BY <1>k, <2>1, <2>3, <3>1, <3>2 DEF ReliesOn, EmptiedPC
    <3> QED
      BY <1>u, <2>1, <3>3
  <2> QED
    BY <1>3, <2>2, <2>3 DEF put_block_list_check, q
<1>4. CASE put_block_list_part(r)
  <2>1. q.pc = "bl_concat" /\ UNCHANGED <<dbVars, files, dirty>> /\ q.c \in containers
    BY <1>4, <1>k DEF put_block_list_part, q, PutBlockListPC
  <2>2. CASE End(r)
    BY <1>e, <2>1, <2>2
  <2>3. ASSUME NEW out, Continue(r, [q EXCEPT !.out = out])
        PROVE  ReliesOn(r)'
    <3> DEFINE p == [q EXCEPT !.out = out]
    <3>1. p.pc = "bl_concat" /\ p.c = q.c /\ p.b = q.b /\ p.res = q.res
      BY <1>q, <2>1 DEF Request
    <3> HIDE DEF p
    <3>2. req'[r] = p
      BY <2>3, Goes DEF p
    <3> QED
      BY <1>k, <2>1, <3>1, <3>2 DEF ReliesOn, EmptiedPC
  <2> QED
    BY <1>4, <1>u, <2>1, <2>2, <2>3 DEF put_block_list_part, q
<1>5. CASE put_block_list_rename(r)
  <2> DEFINE p == [q EXCEPT !.pc = "bl_commit"]
  <2>1. /\ q.pc = "bl_concat" /\ Continue(r, p) /\ q.b \in Blobs /\ q.c \in containers
        /\ blobFile' = [blobFile EXCEPT ![q.b] = q.out] /\ dirty' = dirty \cup {q.b}
        /\ UNCHANGED <<dbVars, blockFile>>
    BY <1>5, <1>b, <1>k DEF put_block_list_rename, replace_blob_file, Goto, q, PutBlockListPC
  <2>2. p.pc = "bl_commit" /\ p.c = q.c /\ p.b = q.b /\ p.out = q.out
    BY <1>q DEF Request
  <2> HIDE DEF p
  <2>3. req'[r] = p
    BY <2>1, Goes
  <2>4. ReliesOn(r)'
    BY <1>t, <2>1, <2>2, <2>3 DEF ReliesOn, EmptiedPC
  <2> QED
    BY <1>t, <2>1, <2>4 DEF Tables, Consistent, StagedRowHasFile, StagedRowHasContainer
<1>6. CASE put_block_list_commit(r)
  <2> DEFINE p == [q EXCEPT !.pc = "bl_cleanup"]
  <2>1. /\ End(r) \/ Continue(r, p)
        /\ q.b \in Blobs /\ q.c \in containers /\ blobFile[q.b] = q.out
        /\ blobs' = [blobs EXCEPT ![q.b] = q.out] /\ dirty' = dirty \ {q.b}
        /\ staged' = [staged EXCEPT ![q.b] = NoBlocks]
        /\ UNCHANGED <<containers, files>>
    BY <1>6, <1>b, <1>k DEF put_block_list_commit, commit_block_list_tx, Goto, q, PutBlockListPC
  <2>2. p.pc = "bl_cleanup" /\ p.c = q.c /\ p.b = q.b
    BY <1>q DEF Request
  <2> HIDE DEF p
  <2>3. req'[r] = p \/ req'[r] = IdleReq
    BY <2>1, Goes, Ends
  <2>4. staged'[q.b] = NoBlocks
    BY <1>t, <2>1
  <2>5. ReliesOn(r)'
    <3>1. CASE req'[r] = p
      BY <2>1, <2>2, <2>4, <3>1 DEF ReliesOn, EmptiedPC
    <3>2. CASE req'[r] = IdleReq
      BY <3>2, IdleIsNoWriter, IdleRelies
    <3> QED
      BY <2>3, <3>1, <3>2
  <2>6. \A b \in Blobs, i \in BlockIds : staged'[b][i] # None => staged[b][i] # None
    BY <1>t, <2>1 DEF NoBlocks
  <2>7. Consistent'
    BY <1>t, <2>1 DEF Tables, Consistent
  <2> QED
    BY <2>1, <2>5, <2>6, <2>7 DEF Tables, StagedRowHasFile, StagedRowHasContainer
<1>7. CASE put_block_list_cleanup(r)
  <2>1. /\ q.pc = "bl_cleanup" /\ q.b \in Blobs /\ q.c \in containers /\ staged[q.b] = NoBlocks
        /\ End(r) \/ \E res : Continue(r, [q EXCEPT !.res = res])
        /\ \/ \E i : blockFile' = [blockFile EXCEPT ![q.b][i] = None]
           \/ UNCHANGED blockFile
        /\ UNCHANGED <<dbVars, blobFile, dirty>>
    BY <1>7, <1>b, <1>k DEF put_block_list_cleanup, unlink_block, q, PutBlockListPC
  <2>2. ASSUME NEW res, Continue(r, [q EXCEPT !.res = res])
        PROVE  ReliesOn(r)'
    <3> DEFINE p == [q EXCEPT !.res = res]
    <3>1. p.pc = "bl_cleanup" /\ p.c = q.c /\ p.b = q.b
      BY <1>q, <2>1 DEF Request
    <3> HIDE DEF p
    <3>2. req'[r] = p
      BY <2>2, Goes DEF p
    <3> QED
      BY <2>1, <3>1, <3>2 DEF ReliesOn, EmptiedPC
  <2>3. ReliesOn(r)'
    BY <2>1, <2>2, Ends, IdleIsNoWriter, IdleRelies
  <2>4. \A b \in Blobs : b # q.b => blockFile'[b] = blockFile[b]
    BY <1>t, <2>1
  <2>5. \A i \in BlockIds : staged[q.b][i] = None
    BY <2>1 DEF NoBlocks
  <2>6. StagedRowHasFile'
    BY <2>1, <2>4, <2>5 DEF Tables, StagedRowHasFile
  <2> QED
    BY <2>1, <2>3, <2>6 DEF Tables, Consistent, StagedRowHasContainer
<1> QED
  BY <1>1, <1>2, <1>3, <1>4, <1>5, <1>6, <1>7

LEMMA DeleteContainerStepsKeepTables ==
    ASSUME TypeInv, AllLive, Tables, NEW r \in Requests, ReliesOn(r),
           \/ delete_container_rows(r) \/ delete_container_unlink(r)
           \/ delete_container_rmdir(r) \/ delete_container_end(r)
    PROVE  ReliesOn(r)' /\ Tables'
<1> DEFINE q == req[r]
           p(pc, left) == [q EXCEPT !.pc = pc, !.left = left]
           Empty == \A b \in BlobsOf(q.c) : blobs[b] = None /\ staged[b] = NoBlocks
<1>q. q \in GoodRequest /\ q \in Request
  BY Locals DEF TypeInv
<1>k. q.pc \in EmptiedPC => Empty
  BY DEF ReliesOn, q
<1>t. /\ staged \in [Blobs -> [BlockIds -> Bodies \cup {None}]]
      /\ blobs \in [Blobs -> Content \cup {None}]
      /\ blobFile \in [Blobs -> Content \cup {None}]
      /\ blockFile \in [Blobs -> [BlockIds -> Bodies \cup {None}]]
  BY DEF TypeInv, DbTypeOK
<1> HIDE DEF q
<1>p. \A pc, left : p(pc, left).pc = pc /\ p(pc, left).c = q.c
  BY <1>q DEF Request
<1>g. ASSUME NEW pc \in EmptiedPC, NEW left, Continue(r, p(pc, left)),
             \A b \in BlobsOf(q.c) : blobs'[b] = None /\ staged'[b] = NoBlocks
      PROVE  ReliesOn(r)'
  <2> HIDE DEF p
  <2>1. req'[r] = p(pc, left)
    BY <1>g, Goes
  <2> QED
    BY <1>g, <1>p, <2>1 DEF ReliesOn, EmptiedPC
<1> HIDE DEF p
<1> USE DEF dbVars, files, history
<1>1. CASE delete_container_rows(r)
  <2> DEFINE left == {b \in BlobsOf(q.c) : blobs[b] # None}
             pc == IF left = {} THEN "dc_rmdir" ELSE "dc_unlink"
  <2>1. /\ containers' = containers \ {q.c}
        /\ blobs' = [b \in Blobs |-> IF Home[b] = q.c THEN None ELSE blobs[b]]
        /\ staged' = [b \in Blobs |-> IF Home[b] = q.c THEN NoBlocks ELSE staged[b]]
        /\ UNCHANGED <<files, dirty>>
    BY <1>1 DEF delete_container_rows, delete_container_tx, q
  <2>2. pc \in EmptiedPC /\ Continue(r, p(pc, left))
    BY <1>1 DEF delete_container_rows, q, p, EmptiedPC
  <2> HIDE DEF pc, left
  <2>3. ReliesOn(r)'
    BY <1>g, <2>1, <2>2 DEF BlobsOf
  <2>4. \A b \in Blobs, i \in BlockIds : staged'[b][i] # None => staged[b][i] # None /\ Home[b] # q.c
    BY <2>1 DEF NoBlocks
  <2> QED
    BY <2>1, <2>3, <2>4 DEF Tables, Consistent, StagedRowHasFile, StagedRowHasContainer
<1>2. CASE delete_container_unlink(r)
  <2>1. PICK b \in q.left :
          /\ unlink_blob(b)
          /\ Continue(r, [q EXCEPT !.pc = IF q.left = {b} THEN "dc_rmdir" ELSE "dc_unlink",
                                   !.left = @ \ {b}])
    BY <1>2 DEF delete_container_unlink, q
  <2> DEFINE pc == IF q.left = {b} THEN "dc_rmdir" ELSE "dc_unlink"
  <2>2. pc \in EmptiedPC /\ Continue(r, p(pc, q.left \ {b}))
    BY <2>1 DEF p, EmptiedPC
  <2> HIDE DEF pc
  <2>3. q.pc = "dc_unlink" /\ b \in BlobsOf(q.c) /\ UNCHANGED <<dbVars, blockFile, dirty>>
    BY <1>2, <1>q, <2>1, Locals DEF delete_container_unlink, q, WellFormed, DeleteContainerPC
  <2>4. Empty
    BY <1>k, <2>3 DEF EmptiedPC
  <2>5. ReliesOn(r)'
    BY <1>g, <2>2, <2>3, <2>4
  <2>6. Consistent'
    BY <1>t, <2>1, <2>3, <2>4 DEF Tables, Consistent, unlink_blob
  <2> QED
    BY <2>3, <2>5, <2>6 DEF Tables, StagedRowHasFile, StagedRowHasContainer
<1>3. CASE delete_container_rmdir(r)
  <2>1. PICK b \in BlobsOf(q.c) :
          \/ blobFile' = [blobFile EXCEPT ![b] = None] /\ UNCHANGED blockFile
          \/ \E i : blockFile' = [blockFile EXCEPT ![b][i] = None] /\ UNCHANGED blobFile
    BY <1>3 DEF delete_container_rmdir, q
  <2>2. q.pc = "dc_rmdir" /\ UNCHANGED <<dbVars, dirty, req>>
    BY <1>3 DEF delete_container_rmdir, q
  <2>3. Empty
    BY <1>k, <2>2 DEF EmptiedPC
  <2>4. ReliesOn(r)'
    BY <2>2, <2>3 DEF ReliesOn, EmptiedPC, q
  <2>5. \A a \in Blobs : a # b => blobFile'[a] = blobFile[a] /\ blockFile'[a] = blockFile[a]
    BY <1>t, <2>1
  <2>6. b \in Blobs /\ blobs[b] = None /\ \A i \in BlockIds : staged[b][i] = None
    BY <2>3 DEF BlobsOf, NoBlocks
  <2> QED
    BY <2>2, <2>4, <2>5, <2>6 DEF Tables, Consistent, StagedRowHasFile, StagedRowHasContainer
<1>4. CASE delete_container_end(r)
  <2>1. End(r) /\ UNCHANGED <<dbVars, files, dirty>>
    BY <1>4 DEF delete_container_end
  <2>2. ReliesOn(r)'
    BY <2>1, Ends, IdleIsNoWriter, IdleRelies
  <2> QED
    BY <2>1, <2>2 DEF Tables, Consistent, StagedRowHasFile, StagedRowHasContainer
<1> QED
  BY <1>1, <1>2, <1>3, <1>4

-------------------------------------------------------------------------------
(* A request that starts writes nothing yet and clashes with nobody.       *)

StartPC == {"pb_write", "db_delete", "bk_write", "bl_committed", "dc_tx"}

BeginsWriter(r) ==
    /\ req[r].pc = "idle"
    /\ \A s \in Requests \ {r} : req'[s] = req[s]
    /\ req'[r].live
    /\ req'[r].bad => "mismatch" \in Env
    /\ req'[r].refs \in BlockLists \cup {<<>>}
    /\ req'[r].pc = "bl_committed" => req'[r].refs \in BlockLists
    /\ req'[r].pc = "pb_write" => \E body \in Bodies : req'[r].out = <<body>>
    /\ req'[r].pc = "db_delete" => blobs[req'[r].b] # None
    /\ \/ req'[r].pc = "gb_open"
       \/ /\ req'[r].pc \in StartPC
          /\ req'[r].pc = "pb_write" => "put_blob" \in Ops
          /\ req'[r].c \in containers
          /\ req'[r].res = <<>>
          /\ Admit(req'[r].c, req'[r].b, req'[r].id)

LEMMA BeginShape ==
    ASSUME TypeInv, AllLive, NEW r \in Requests, NEW l, Begin(r, l), l.live,
           l.bad => "mismatch" \in Env, l.refs \in BlockLists \cup {<<>>},
           l.pc = "bl_committed" => l.refs \in BlockLists,
           l.pc = "pb_write" => "put_blob" \in Ops /\ \E body \in Bodies : l.out = <<body>>,
           l.pc = "db_delete" => blobs[l.b] # None,
           \/ l.pc = "gb_open"
           \/ l.pc \in StartPC /\ l.c \in containers /\ l.res = <<>> /\ Admit(l.c, l.b, l.id)
    PROVE  BeginsWriter(r)
<1>1. req'[r] = l /\ \A s \in Requests \ {r} : req'[s] = req[s]
  BY Goes
<1>2. req[r].pc = "idle"
  BY DEF Begin
<1> QED
  BY <1>1, <1>2 DEF BeginsWriter

LEMMA StartShape ==
    ASSUME TypeInv, AllLive, BlobRowHasContainer, NEW r \in Requests, Start(r)
    PROVE  /\ UNCHANGED <<blobs, staged, committed, files, history>>
           /\ containers \subseteq containers'
           /\ UNCHANGED req \/ BeginsWriter(r)
<1> USE DEF StartPC, dbVars
<1>1. CASE put_blob(r)
  <2>1. PICK b \in Blobs, body \in Bodies, bad \in BOOLEAN :
          /\ Home[b] \in containers
          /\ bad => "mismatch" \in Env
          /\ Admit(Home[b], b, None)
          /\ Begin(r, [IdleReq EXCEPT !.pc = "pb_write", !.c = Home[b], !.b = b,
                                      !.bad = bad, !.out = <<body>>])
    BY <1>1 DEF put_blob
  <2> DEFINE l == [IdleReq EXCEPT !.pc = "pb_write", !.c = Home[b], !.b = b,
                                  !.bad = bad, !.out = <<body>>]
  <2>2. /\ l.live /\ l.bad = bad /\ l.refs = <<>> /\ l.pc = "pb_write"
        /\ l.c = Home[b] /\ l.b = b /\ l.id = None /\ l.res = <<>> /\ l.out = <<body>>
    BY DEF IdleReq
  <2> HIDE DEF l
  <2>3. "put_blob" \in Ops
    BY <1>1 DEF put_blob
  <2>4. BeginsWriter(r)
    BY <2>1, <2>2, <2>3, BeginShape DEF l
  <2> QED
    BY <1>1, <2>4 DEF put_blob
<1>2. CASE get_blob(r)
  <2>1. PICK b \in Blobs :
          Begin(r, [IdleReq EXCEPT !.pc = "gb_open", !.c = Home[b], !.b = b, !.row = blobs[b]])
    BY <1>2 DEF get_blob
  <2> DEFINE l == [IdleReq EXCEPT !.pc = "gb_open", !.c = Home[b], !.b = b, !.row = blobs[b]]
  <2>2. /\ l.live /\ l.bad = FALSE /\ l.refs = <<>> /\ l.pc = "gb_open"
    BY DEF IdleReq
  <2> HIDE DEF l
  <2>3. BeginsWriter(r)
    BY <2>1, <2>2, BeginShape DEF l
  <2> QED
    BY <1>2, <2>3 DEF get_blob
<1>3. CASE delete_blob(r)
  <2>1. PICK b \in Blobs :
          /\ blobs[b] # None
          /\ Admit(Home[b], b, None)
          /\ Begin(r, [IdleReq EXCEPT !.pc = "db_delete", !.c = Home[b], !.b = b])
    BY <1>3 DEF delete_blob
  <2> DEFINE l == [IdleReq EXCEPT !.pc = "db_delete", !.c = Home[b], !.b = b]
  <2>2. /\ l.live /\ l.bad = FALSE /\ l.refs = <<>> /\ l.pc = "db_delete"
        /\ l.c = Home[b] /\ l.b = b /\ l.id = None /\ l.res = <<>>
    BY DEF IdleReq
  <2>3. Home[b] \in containers
    BY <2>1 DEF BlobRowHasContainer
  <2> HIDE DEF l
  <2>4. BeginsWriter(r)
    BY <2>1, <2>2, <2>3, BeginShape DEF l
  <2> QED
    BY <1>3, <2>4 DEF delete_blob
<1>4. CASE put_block(r)
  <2>1. PICK b \in Blobs, i \in BlockIds, body \in Bodies :
          /\ Home[b] \in containers
          /\ Admit(Home[b], b, i)
          /\ Begin(r, [IdleReq EXCEPT !.pc = "bk_write", !.c = Home[b], !.b = b,
                                      !.id = i, !.body = body])
    BY <1>4 DEF put_block
  <2> DEFINE l == [IdleReq EXCEPT !.pc = "bk_write", !.c = Home[b], !.b = b, !.id = i, !.body = body]
  <2>2. /\ l.live /\ l.bad = FALSE /\ l.refs = <<>> /\ l.pc = "bk_write"
        /\ l.c = Home[b] /\ l.b = b /\ l.id = i /\ l.res = <<>>
    BY DEF IdleReq
  <2> HIDE DEF l
  <2>3. BeginsWriter(r)
    BY <2>1, <2>2, BeginShape DEF l
  <2> QED
    BY <1>4, <2>3 DEF put_block
<1>5. CASE put_block_list(r)
  <2>1. PICK b \in Blobs, refs \in BlockLists :
          /\ Home[b] \in containers
          /\ Admit(Home[b], b, None)
          /\ Begin(r, [IdleReq EXCEPT !.pc = "bl_committed", !.c = Home[b], !.b = b, !.refs = refs])
    BY <1>5 DEF put_block_list
  <2> DEFINE l == [IdleReq EXCEPT !.pc = "bl_committed", !.c = Home[b], !.b = b, !.refs = refs]
  <2>2. /\ l.live /\ l.bad = FALSE /\ l.refs = refs /\ l.pc = "bl_committed"
        /\ l.c = Home[b] /\ l.b = b /\ l.id = None /\ l.res = <<>>
    BY DEF IdleReq
  <2> HIDE DEF l
  <2>3. BeginsWriter(r)
    BY <2>1, <2>2, BeginShape DEF l
  <2> QED
    BY <1>5, <2>3 DEF put_block_list
<1>6. CASE create_container(r)
  BY <1>6 DEF create_container, insert_container
<1>7. CASE delete_container(r)
  <2>1. PICK c \in containers :
          /\ Admit(c, None, None)
          /\ Begin(r, [IdleReq EXCEPT !.pc = "dc_tx", !.c = c])
    BY <1>7 DEF delete_container
  <2> DEFINE l == [IdleReq EXCEPT !.pc = "dc_tx", !.c = c]
  <2>2. /\ l.live /\ l.bad = FALSE /\ l.refs = <<>> /\ l.pc = "dc_tx"
        /\ l.c = c /\ l.b = None /\ l.id = None /\ l.res = <<>>
    BY DEF IdleReq
  <2> HIDE DEF l
  <2>3. BeginsWriter(r)
    BY <2>1, <2>2, BeginShape DEF l
  <2> QED
    BY <1>7, <2>3 DEF delete_container
<1> QED
  BY <1>1, <1>2, <1>3, <1>4, <1>5, <1>6, <1>7 DEF Start

(* Whoever was admitted does not clash with those in flight. *)
LEMMA AdmittedAlone ==
    ASSUME Serial, AllLive, OneWriter, NEW r \in Requests, BeginsWriter(r)
    PROVE  OneWriter'
<1> SUFFICES ASSUME NEW s \in Requests, NEW t \in Requests, s # t, Clash(s, t)'
             PROVE  FALSE
  BY DEF OneWriter
<1>1. \A u \in Requests \ {r} : req'[u] = req[u]
  BY DEF BeginsWriter
<1>2. s = r \/ t = r
  BY <1>1 DEF OneWriter, Clash
<1>3. PICK u \in Requests \ {r} : Clash(r, u)'
  <2>1. Clash(t, s)'
    BY DEF Clash
  <2> QED
    BY <1>2, <2>1
<1>4. req'[r].pc \in WriterPC /\ req'[r].pc # "gb_open"
  BY <1>3 DEF Clash, WriterPC, PutBlobPC, DeleteBlobPC, PutBlockPC, PutBlockListPC, DeleteContainerPC
<1>5. Admit(req'[r].c, req'[r].b, req'[r].id)
  BY <1>4 DEF BeginsWriter
<1> DEFINE c == req'[r].c
           b == req'[r].b
           i == req'[r].id
<1>6. ~Conflicts(u, c, b, i)
  BY <1>5 DEF Admit, Serial
<1> QED
  BY <1>1, <1>3, <1>6 DEF Conflicts, Clash, AllLive

LEMMA StartKeepsSerial ==
    ASSUME Serial, TypeInv, BlobRowHasContainer, SerialInv, NEW r \in Requests, Start(r)
    PROVE  SerialInv'
<1>0. AllLive /\ OneWriter /\ Tables /\ \A s \in Requests : ReliesOn(s)
  BY DEF SerialInv
<1>1. /\ UNCHANGED <<blobs, staged, committed, files, history>>
      /\ containers \subseteq containers'
      /\ UNCHANGED req \/ BeginsWriter(r)
  BY <1>0, StartShape
<1>2. AllLive'
  BY <1>0, <1>1 DEF AllLive, BeginsWriter
<1>3. OneWriter'
  <2>1. CASE UNCHANGED req
    BY <1>0, <2>1 DEF OneWriter, Clash
  <2> QED
    BY <1>0, <1>1, <2>1, AdmittedAlone
<1>4. ASSUME NEW s \in Requests, req'[s] = req[s] PROVE ReliesOn(s)'
  BY <1>0, <1>1, <1>4 DEF ReliesOn, files, history
<1>5. ASSUME BeginsWriter(r) PROVE ReliesOn(r)'
  <2>1. CASE req'[r].pc = "gb_open"
    BY <2>1 DEF ReliesOn, WriterPC, EmptiedPC, PutBlobPC, DeleteBlobPC, PutBlockPC, PutBlockListPC,
       DeleteContainerPC
  <2>2. CASE req'[r].pc \in StartPC /\ req'[r].c \in containers /\ req'[r].res = <<>>
    BY <1>1, <2>2 DEF ReliesOn, StartPC, EmptiedPC
  <2> QED
    BY <1>5, <2>1, <2>2 DEF BeginsWriter
<1>6. \A s \in Requests : ReliesOn(s)'
  BY <1>1, <1>4, <1>5 DEF BeginsWriter
<1>7. Tables'
  BY <1>0, <1>1 DEF Tables, Consistent, StagedRowHasFile, StagedRowHasContainer, files, history
<1> QED
  BY <1>2, <1>3, <1>6, <1>7 DEF SerialInv

LEMMA StepKeepsSerial ==
    ASSUME TypeInv, SerialInv, NEW r \in Requests, Step(r)
    PROVE  SerialInv'
<1>0. AllLive /\ OneWriter /\ Tables /\ \A s \in Requests : ReliesOn(s)
  BY DEF SerialInv
<1>1. StepKeepsScope(r) /\ StepKeepsRest(r)
  BY <1>0, StepScope, StepRest
<1>2. AllLive' /\ OneWriter'
  BY <1>0, <1>1, AllLiveKept, OneWriterKept
<1>3. \A s \in Requests \ {r} : ReliesOn(s)'
  BY <1>0, <1>1, OthersRely DEF StepKeepsScope
<1>e. ASSUME req'[r].pc \notin WriterPC, UNCHANGED <<dbVars, files, dirty>>
      PROVE  ReliesOn(r)' /\ Tables'
  BY <1>0, <1>e, IdleRelies
  DEF Tables, Consistent, StagedRowHasFile, StagedRowHasContainer, dbVars, files
<1>4. ASSUME get_blob_open(r) \/ get_blob_stream(r) \/ NoContainer(r)
      PROVE  ReliesOn(r)' /\ Tables'
  <2> DEFINE q == req[r]
             p(x) == [q EXCEPT !.pc = "gb_stream", !.out = x]
  <2>1. q \in Request
    BY Locals DEF TypeInv
  <2> HIDE DEF q
  <2>2. \A x : p(x).pc = "gb_stream"
    BY <2>1 DEF Request
  <2> HIDE DEF p
  <2>3. End(r) \/ \E x : Continue(r, p(x))
    BY <1>4 DEF get_blob_open, get_blob_stream, NoContainer, q, p
  <2>4. req'[r] = IdleReq \/ \E x : req'[r] = p(x)
    BY <1>0, <2>3, Goes, Ends
  <2>5. req'[r].pc \notin WriterPC
    BY <2>2, <2>4, IdleIsNoWriter
    DEF WriterPC, PutBlobPC, DeleteBlobPC, PutBlockPC, PutBlockListPC, DeleteContainerPC
  <2> QED
    BY <1>4, <1>e, <2>5 DEF get_blob_open, get_blob_stream, NoContainer, history
<1>5. ReliesOn(r)' /\ Tables'
  BY <1>0, <1>4, PutBlobStepsKeepTables, DeleteBlobStepsKeepTables, PutBlockStepsKeepTables,
     PutBlockListStepsKeepTables, DeleteContainerStepsKeepTables DEF Step
<1> QED
  BY <1>2, <1>3, <1>5 DEF SerialInv

LEMMA SerialInvInductive ==
    ASSUME Serial
    PROVE  TypeInv /\ BlobRowHasContainer /\ SerialInv /\ [Next]_vars => SerialInv'
<1> SUFFICES ASSUME TypeInv, BlobRowHasContainer, SerialInv, [Next]_vars
             PROVE  SerialInv'
  OBVIOUS
<1>0. AllLive /\ OneWriter /\ Tables /\ \A s \in Requests : ReliesOn(s)
  BY DEF SerialInv
<1>1. ASSUME NEW r \in Requests, Start(r) PROVE SerialInv'
  BY <1>1, StartKeepsSerial
<1>2. ASSUME NEW r \in Requests, Step(r) PROVE SerialInv'
  BY <1>2, StepKeepsSerial
<1>t. UNCHANGED <<dbVars, files, history>> => Tables'
  BY <1>0 DEF Tables, Consistent, StagedRowHasFile, StagedRowHasContainer, dbVars, files, history
<1>3. ASSUME NEW r \in Requests, Disturbance(r) PROVE SerialInv'
  <2>1. End(r) /\ UNCHANGED <<dbVars, files, history>>
    BY <1>0, <1>3 DEF Disturbance, Fail, Cancel, Drop, Serial, AllLive
  <2>2. StepKeepsScope(r)
    BY <2>1, EndsInScope
  <2>3. AllLive' /\ OneWriter'
    BY <1>0, <2>2, AllLiveKept, OneWriterKept
  <2>4. ReliesOn(r)'
    BY <2>1, Ends, IdleIsNoWriter, IdleRelies
  <2>5. \A s \in Requests \ {r} : ReliesOn(s)'
    <3>1. \A s \in Requests \ {r} : req'[s] = req[s]
      BY <2>1, Ends
    <3> QED
      BY <1>0, <2>1, <3>1 DEF ReliesOn, dbVars, files, history
  <2> QED
    BY <1>t, <2>1, <2>3, <2>4, <2>5 DEF SerialInv
<1>4. CASE Crash
  <2>1. \A s \in Requests : req'[s].pc \notin WriterPC /\ req'[s].live
    BY <1>4, IdleIsNoWriter DEF Crash
  <2>2. AllLive' /\ OneWriter' /\ \A s \in Requests : ReliesOn(s)'
    BY <2>1, IdleRelies DEF AllLive, OneWriter, Clash
  <2> QED
    BY <1>4, <1>t, <2>2 DEF Crash, SerialInv
<1>5. CASE UNCHANGED vars
  <2>1. Tables'
    BY <1>5, <1>t DEF vars
  <2> QED
    BY <1>0, <1>5, <2>1
    DEF SerialInv, vars, AllLive, OneWriter, Clash, ReliesOn, dbVars, files, history
<1> QED
  BY <1>1, <1>2, <1>3, <1>4, <1>5 DEF Next

LEMMA SerialInvInit == Init => SerialInv
<1> SUFFICES ASSUME Init PROVE SerialInv
  OBVIOUS
<1>1. \A s \in Requests : req[s].pc \notin WriterPC /\ req[s].live
  BY IdleIsNoWriter DEF Init
<1>2. \A s \in Requests : ReliesOn(s)
  BY <1>1
  DEF ReliesOn, WriterPC, EmptiedPC, PutBlobPC, DeleteBlobPC, PutBlockPC, PutBlockListPC, DeleteContainerPC
<1>3. Tables
  BY DEF Init, DbInit, NoBlocks, Tables, Consistent, StagedRowHasFile, StagedRowHasContainer
<1> QED
  BY <1>1, <1>2, <1>3 DEF SerialInv, AllLive, OneWriter, Clash

LEMMA SerialInvInvariant ==
    ASSUME Serial
    PROVE  Spec => []SerialInv
  BY SerialInvInit, SerialInvInductive, TypeInvInvariant, RowsHaveContainers, PTL DEF Spec

-------------------------------------------------------------------------------
(* The theorems. *)

(* When clients do not write to one blob at once, a blob's row describes    *)
(* the file at its path, whatever fails or crashes, unless an upload has    *)
(* renamed its file and not (yet) written its row.                          *)
THEOREM RowsMatchFiles ==
    ASSUME Serial
    PROVE  Spec => []Consistent
<1>1. SerialInv => Consistent
  BY DEF SerialInv, Tables
<1> QED
  BY <1>1, SerialInvInvariant, PTL

(* Then, too, Put Block, Put Block List, Delete Blob and Delete Container   *)
(* make and remove rows and files of staged blocks in an order that never   *)
(* leaves a row without its file, wherever a crash or an error cuts them.   *)
THEOREM StagedRowsHaveFiles ==
    ASSUME Serial
    PROVE  Spec => []StagedRowHasFile
<1>1. SerialInv => StagedRowHasFile
  BY DEF SerialInv, Tables
<1> QED
  BY <1>1, SerialInvInvariant, PTL

(* And no staged row is left in, or put into, a container that is gone,     *)
(* although the table has no foreign key.                                   *)
THEOREM StagedRowsHaveContainers ==
    ASSUME Serial
    PROVE  Spec => []StagedRowHasContainer
<1>1. SerialInv => StagedRowHasContainer
  BY DEF SerialInv, Tables
<1> QED
  BY <1>1, SerialInvInvariant, PTL

(* And Put Block List finds every part it has resolved when it assembles    *)
(* them, one await after another: the parts are not cleaned up under it.    *)
THEOREM PartsAreThere ==
    ASSUME Serial
    PROVE  Spec => []AssembledFromStaged
<1>1. TypeInv /\ SerialInv => AssembledFromStaged
  <2> SUFFICES ASSUME TypeInv, SerialInv, NEW r \in Requests, req[r].pc = "bl_concat",
                      NEW k \in DOMAIN req[r].res
               PROVE  /\ blockFile[req[r].b][req[r].res[k].id] # None
                      /\ staged[req[r].b][req[r].res[k].id] # None
    BY DEF AssembledFromStaged
  <2> DEFINE q == req[r]
  <2>1. q \in GoodRequest
    BY DEF TypeInv
  <2>2. staged[q.b][q.res[k].id] # None
    BY DEF SerialInv, ReliesOn
  <2> HIDE DEF q
  <2>3. q.b \in Blobs /\ q.res \in Seq(ResolvedBlock) /\ k \in DOMAIN q.res
    BY <2>1, Locals DEF q, WellFormed, BlobPC, PC, WriterPC, PutBlockListPC, DeleteContainerPC
  <2>4. q.res[k].id \in BlockIds
    BY <2>3, ResolvedFields
  <2> QED
    BY <2>2, <2>3, <2>4 DEF SerialInv, Tables, StagedRowHasFile, q
<1> QED
  BY <1>1, SerialInvInvariant, TypeInvInvariant, PTL

-------------------------------------------------------------------------------
(* When, moreover, nothing fails: what is not clean yet is in somebody's   *)
(* hands.                                                                  *)

UnsettledPC == {"pb_upsert", "bl_commit", "db_committed", "db_staged", "db_unlink"} \cup EmptiedPC

Unsettled(r, b) ==
    req[r].pc \in UnsettledPC /\ req[r].c = Home[b] /\ req[r].b \in {b, None}

Staging(r, b, i) == req[r].pc = "bk_stage" /\ req[r].b = b /\ req[r].id = i

Emptying(r, b) == req[r].pc \in EmptiedPC /\ req[r].c = Home[b]

BlobSettled(b) == blobFile[b] = blobs[b] \/ \E r \in Requests : Unsettled(r, b)

BlockSettled(b, i) ==
    staged[b][i] \in {None, blockFile[b][i]} \/ \E r \in Requests : Staging(r, b, i)

HomeSettled(b) ==
    Home[b] \in containers \/ blockFile[b] = NoBlocks \/ \E r \in Requests : Emptying(r, b)

CalmRelies(r) ==
    /\ ~req[r].bad /\ req[r].pc # "pb_reject"
    /\ req[r].pc = "bk_stage" => blockFile[req[r].b][req[r].id] = req[r].body

CalmInv ==
    /\ \A r \in Requests : CalmRelies(r)
    /\ \A b \in Blobs : BlobSettled(b) /\ HomeSettled(b) /\ \A i \in BlockIds : BlockSettled(b, i)

(* What a step of r has to show for each blob and block. *)
SettlesBlob(r, b) ==
    \/ blobFile'[b] = blobs'[b]
    \/ Unsettled(r, b)'
    \/ blobFile'[b] = blobFile[b] /\ blobs'[b] = blobs[b] /\ ~Unsettled(r, b)

SettlesBlock(r, b, i) ==
    \/ staged'[b][i] \in {None, blockFile'[b][i]}
    \/ Staging(r, b, i)'
    \/ staged'[b][i] = staged[b][i] /\ blockFile'[b][i] = blockFile[b][i] /\ ~Staging(r, b, i)

SettlesHome(r, b) ==
    \/ Home[b] \in containers' \/ blockFile'[b] = NoBlocks \/ Emptying(r, b)'
    \/ (Home[b] \in containers => Home[b] \in containers') /\ blockFile'[b] = blockFile[b] /\ ~Emptying(r, b)

Settles(r) ==
    \A b \in Blobs : SettlesBlob(r, b) /\ \A i \in BlockIds : SettlesBlock(r, b, i)

LEMMA SettledKept ==
    ASSUME CalmInv, NEW r \in Requests, \A s \in Requests \ {r} : req'[s] = req[s],
           Settles(r), \A b \in Blobs : SettlesHome(r, b), \A s \in Requests : CalmRelies(s)'
    PROVE  CalmInv'
<1>1. ASSUME NEW b \in Blobs PROVE BlobSettled(b)'
  <2>1. CASE \E s \in Requests \ {r} : Unsettled(s, b)
    BY <2>1 DEF BlobSettled, Unsettled
  <2>2. CASE \A s \in Requests \ {r} : ~Unsettled(s, b)
    BY <2>2 DEF CalmInv, BlobSettled, Settles, SettlesBlob
  <2> QED
    BY <2>1, <2>2
<1>2. ASSUME NEW b \in Blobs, NEW i \in BlockIds PROVE BlockSettled(b, i)'
  <2>1. CASE \E s \in Requests \ {r} : Staging(s, b, i)
    BY <2>1 DEF BlockSettled, Staging
  <2>2. CASE \A s \in Requests \ {r} : ~Staging(s, b, i)
    BY <2>2 DEF CalmInv, BlockSettled, Settles, SettlesBlock
  <2> QED
    BY <2>1, <2>2
<1>3. ASSUME NEW b \in Blobs PROVE HomeSettled(b)'
  <2>1. CASE \E s \in Requests \ {r} : Emptying(s, b)
    BY <2>1 DEF HomeSettled, Emptying
  <2>2. CASE \A s \in Requests \ {r} : ~Emptying(s, b)
    BY <2>2 DEF CalmInv, HomeSettled, SettlesHome
  <2> QED
    BY <2>1, <2>2
<1> QED
  BY <1>1, <1>2, <1>3 DEF CalmInv

(* Blobs a step does not touch, tables it leaves alone. *)
LEMMA UntouchedIsSettled ==
    ASSUME TypeInv, NEW r \in Requests, StepKeepsRest(r)
    PROVE  /\ \A b \in Blobs : ~Touches(r, b) =>
                SettlesBlob(r, b) /\ \A i \in BlockIds : SettlesBlock(r, b, i)
           /\ \A b \in Blobs, i \in BlockIds : ~TouchesBlock(r, b, i) => SettlesBlock(r, b, i)
           /\ UNCHANGED <<blobs, blobFile>> /\ req[r].pc \notin UnsettledPC =>
                \A b \in Blobs : SettlesBlob(r, b)
           /\ UNCHANGED <<staged, blockFile>> /\ req[r].pc # "bk_stage" =>
                \A b \in Blobs, i \in BlockIds : SettlesBlock(r, b, i)
<1>1. \A b \in Blobs : Unsettled(r, b) => Touches(r, b)
  BY DEF Unsettled, Touches, UnsettledPC, EmptiedPC, WriterPC, PutBlobPC, DeleteBlobPC, PutBlockPC,
     PutBlockListPC, DeleteContainerPC
<1>2. \A b \in Blobs : ~Touches(r, b) => SettlesBlob(r, b)
  BY <1>1 DEF StepKeepsRest, SettlesBlob
<1>3. UNCHANGED <<blobs, blobFile>> /\ req[r].pc \notin UnsettledPC => \A b \in Blobs : SettlesBlob(r, b)
  BY DEF SettlesBlob, Unsettled
<1>4. UNCHANGED <<staged, blockFile>> /\ req[r].pc # "bk_stage" =>
        \A b \in Blobs, i \in BlockIds : SettlesBlock(r, b, i)
  BY DEF SettlesBlock, Staging
<1>5. ASSUME NEW b \in Blobs, NEW i \in BlockIds, ~TouchesBlock(r, b, i)
      PROVE  SettlesBlock(r, b, i)
  <2>1. staged'[b][i] = staged[b][i] /\ blockFile'[b][i] = blockFile[b][i]
    BY <1>5 DEF StepKeepsRest
  <2>2. req[r].pc = "bk_stage" => req[r].pc \in WriterPC /\ req[r].c = Home[req[r].b]
    BY Locals DEF TypeInv, WellFormed, BlobPC, PC, WriterPC, PutBlockPC, DeleteContainerPC
  <2>3. ~Staging(r, b, i)
    BY <1>5, <2>2 DEF Staging, Touches, TouchesBlock
  <2> QED
    BY <2>1, <2>3 DEF SettlesBlock
<1> QED
  BY <1>2, <1>3, <1>4, <1>5 DEF TouchesBlock

LEMMA CalmElsewhere ==
    ASSUME NEW r \in Requests, CalmRelies(r), StepKeepsScope(r),
           req'[r].pc \notin {"pb_reject", "bk_stage"}
    PROVE  CalmRelies(r)'
<1>1. ~req'[r].bad
  BY DEF CalmRelies, StepKeepsScope, SameScope, IdleReq
<1> QED
  BY <1>1 DEF CalmRelies

LEMMA TouchesOwn ==
    ASSUME TypeInv, NEW r \in Requests, req[r].pc \in WriterPC \ DeleteContainerPC
    PROVE  /\ req[r].b \in Blobs /\ req[r].c = Home[req[r].b]
           /\ \A b \in Blobs : Touches(r, b) <=> b = req[r].b
<1>1. req[r].b \in Blobs /\ req[r].c = Home[req[r].b]
  BY Locals DEF TypeInv, WellFormed, BlobPC, PC, WriterPC, PutBlobPC, DeleteBlobPC, PutBlockPC,
     PutBlockListPC, DeleteContainerPC
<1> QED
  BY <1>1, NoneAssumption DEF Touches

LEMMA PutBlobSettles ==
    ASSUME Env = {}, TypeInv, AllLive, NEW r \in Requests, ReliesOn(r), CalmRelies(r),
           StepKeepsScope(r), StepKeepsRest(r),
           put_blob_write(r) \/ put_blob_reject(r) \/ put_blob_upsert(r)
    PROVE  CalmRelies(r)' /\ Settles(r)
<1> DEFINE q == req[r]
<1>q. q \in Request
  BY Locals DEF TypeInv
<1>k. q.pc # "pb_reject" /\ ~q.bad /\ (q.pc = "pb_upsert" => blobFile[q.b] = q.out)
  BY DEF ReliesOn, CalmRelies, q
<1>p. q.pc \in PutBlobPC /\ UNCHANGED <<staged, blockFile>>
  BY DEF put_blob_write, put_blob_reject, put_blob_upsert, upsert_blob, q, PutBlobPC, dbVars, files
<1>w. q.pc \in WriterPC \ DeleteContainerPC /\ q.pc # "bk_stage"
  BY <1>p DEF WriterPC, PutBlobPC, DeleteContainerPC
<1>b. q.b \in Blobs /\ q.c = Home[q.b] /\ \A b \in Blobs : Touches(r, b) <=> b = q.b
  BY <1>w, TouchesOwn DEF q
<1>i. \A b \in Blobs, i \in BlockIds : SettlesBlock(r, b, i)
  BY <1>p, <1>w, UntouchedIsSettled DEF q
<1>o. \A b \in Blobs : b # q.b => SettlesBlob(r, b)
  BY <1>b, UntouchedIsSettled
<1> HIDE DEF q
<1>1. CASE put_blob_write(r)
  <2> DEFINE p == [q EXCEPT !.pc = "pb_upsert"]
  <2>1. Continue(r, p)
    BY <1>1, <1>k DEF put_blob_write, Goto, q
  <2>2. p.pc = "pb_upsert" /\ p.c = q.c /\ p.b = q.b
    BY <1>q DEF Request
  <2> HIDE DEF p
  <2>3. req'[r] = p
    BY <2>1, Goes
  <2>4. \A b \in Blobs : b = q.b => SettlesBlob(r, b)
    BY <1>b, <2>2, <2>3 DEF SettlesBlob, Unsettled, UnsettledPC
  <2> QED
    BY <1>i, <1>o, <2>2, <2>3, <2>4, CalmElsewhere DEF Settles
<1>2. CASE put_blob_reject(r)
  BY <1>2, <1>k DEF put_blob_reject, q
<1>3. CASE put_blob_upsert(r)
  <2>1. /\ q.pc = "pb_upsert" /\ End(r) /\ UNCHANGED blobFile
        /\ blobs' = [blobs EXCEPT ![q.b] = q.out]
    BY <1>3 DEF put_blob_upsert, upsert_blob, q, files
  <2>2. blobFile'[q.b] = blobs'[q.b]
    BY <1>b, <1>k, <2>1 DEF TypeInv, DbTypeOK
  <2>3. CalmRelies(r)'
    <3>1. req'[r].pc = "idle"
      BY <2>1, Ends DEF IdleReq
    <3> QED
      BY <3>1, CalmElsewhere
  <2>4. \A b \in Blobs : b = q.b => SettlesBlob(r, b)
    BY <2>2 DEF SettlesBlob
  <2> QED
    BY <1>i, <1>o, <2>3, <2>4 DEF Settles
<1> QED
  BY <1>1, <1>2, <1>3

LEMMA DeleteBlobSettles ==
    ASSUME Env = {}, TypeInv, AllLive, NEW r \in Requests, ReliesOn(r), CalmRelies(r),
           StepKeepsScope(r), StepKeepsRest(r),
           \/ delete_blob_delete(r) \/ delete_blob_committed(r)
           \/ delete_blob_staged(r) \/ delete_blob_unlink(r)
    PROVE  CalmRelies(r)' /\ Settles(r)
<1> DEFINE q == req[r]
           p(pc) == [q EXCEPT !.pc = pc]
<1>q. q \in Request
  BY Locals DEF TypeInv
<1>k. q.pc \in {"db_committed", "db_staged", "db_unlink"} => blobs[q.b] = None
  BY DEF ReliesOn, q
<1>p. q.pc \in DeleteBlobPC /\ UNCHANGED blockFile
  BY DEF delete_blob_delete, delete_blob_committed, delete_blob_staged, delete_blob_unlink,
     q, DeleteBlobPC, files
<1>w. q.pc \in WriterPC \ DeleteContainerPC /\ q.pc # "bk_stage"
  BY <1>p DEF WriterPC, DeleteBlobPC, DeleteContainerPC
<1>b. q.b \in Blobs /\ q.c = Home[q.b] /\ \A b \in Blobs : Touches(r, b) <=> b = q.b
  BY <1>w, TouchesOwn DEF q
<1>t. /\ staged \in [Blobs -> [BlockIds -> Bodies \cup {None}]]
      /\ blobs \in [Blobs -> Content \cup {None}]
      /\ blobFile \in [Blobs -> Content \cup {None}]
  BY DEF TypeInv, DbTypeOK
<1>s. UNCHANGED staged \/ staged' = [staged EXCEPT ![q.b] = NoBlocks]
  BY DEF delete_blob_delete, delete_blob_committed, delete_blob_staged, delete_blob_unlink,
     delete_blob_row, delete_committed_blocks, delete_staged_blocks, q, dbVars
<1>i. \A b \in Blobs, i \in BlockIds : SettlesBlock(r, b, i)
  <2>1. CASE UNCHANGED staged
    BY <1>p, <1>w, <2>1, UntouchedIsSettled DEF q
  <2>2. CASE staged' = [staged EXCEPT ![q.b] = NoBlocks]
    <3>1. \A i \in BlockIds : staged'[q.b][i] = None
      BY <1>b, <1>t, <2>2 DEF NoBlocks
    <3>2. \A b \in Blobs, i \in BlockIds : b = q.b => SettlesBlock(r, b, i)
      BY <3>1 DEF SettlesBlock
    <3>3. \A b \in Blobs, i \in BlockIds : b # q.b => SettlesBlock(r, b, i)
      BY <1>b, UntouchedIsSettled
    <3> QED
      BY <3>2, <3>3
  <2> QED
    BY <1>s, <2>1, <2>2
<1>o. \A b \in Blobs : b # q.b => SettlesBlob(r, b)
  BY <1>b, UntouchedIsSettled
<1> HIDE DEF q
<1>g. ASSUME NEW pc \in {"db_committed", "db_staged", "db_unlink"}, Continue(r, p(pc))
      PROVE  CalmRelies(r)' /\ Settles(r)
  <2>2. p(pc).pc = pc /\ p(pc).c = q.c /\ p(pc).b = q.b
    BY <1>q DEF Request
  <2> HIDE DEF p
  <2>3. req'[r] = p(pc)
    BY <1>g, Goes
  <2>4. \A b \in Blobs : b = q.b => SettlesBlob(r, b)
    BY <1>b, <2>2, <2>3 DEF SettlesBlob, Unsettled, UnsettledPC
  <2> QED
    BY <1>i, <1>o, <2>2, <2>3, <2>4, CalmElsewhere DEF Settles
<1>1. CASE delete_blob_unlink(r)
  <2>1. q.pc = "db_unlink" /\ End(r) /\ blobFile' = [blobFile EXCEPT ![q.b] = None] /\ UNCHANGED blobs
    BY <1>1 DEF delete_blob_unlink, unlink_blob, q, dbVars
  <2>2. blobFile'[q.b] = blobs'[q.b]
    BY <1>b, <1>k, <1>t, <2>1
  <2>3. CalmRelies(r)'
    <3>1. req'[r].pc = "idle"
      BY <2>1, Ends DEF IdleReq
    <3> QED
      BY <3>1, CalmElsewhere
  <2>4. \A b \in Blobs : b = q.b => SettlesBlob(r, b)
    BY <2>2 DEF SettlesBlob
  <2> QED
    BY <1>i, <1>o, <2>3, <2>4 DEF Settles
<1>2. CASE delete_blob_delete(r) \/ delete_blob_committed(r) \/ delete_blob_staged(r)
  BY <1>2, <1>g DEF delete_blob_delete, delete_blob_committed, delete_blob_staged, Goto, q
<1> QED
  BY <1>1, <1>2

LEMMA PutBlockSettles ==
    ASSUME Env = {}, TypeInv, AllLive, NEW r \in Requests, ReliesOn(r), CalmRelies(r),
           StepKeepsScope(r), StepKeepsRest(r),
           put_block_write(r) \/ put_block_stage(r)
    PROVE  CalmRelies(r)' /\ Settles(r)
<1> DEFINE q == req[r]
<1>q. q \in GoodRequest /\ q \in Request
  BY Locals DEF TypeInv
<1>k. ~q.bad /\ (q.pc = "bk_stage" => blockFile[q.b][q.id] = q.body)
  BY DEF CalmRelies, q
<1>p. q.pc \in PutBlockPC /\ UNCHANGED <<blobs, blobFile>>
  BY DEF put_block_write, put_block_stage, stage_block, q, PutBlockPC, dbVars, files
<1>w. q.pc \in WriterPC \ DeleteContainerPC /\ q.pc \notin UnsettledPC
  BY <1>p DEF WriterPC, PutBlockPC, DeleteContainerPC, UnsettledPC, EmptiedPC
<1>b. q.b \in Blobs /\ q.c = Home[q.b] /\ \A b \in Blobs : Touches(r, b) <=> b = q.b
  BY <1>w, TouchesOwn DEF q
<1>d. q.id \in BlockIds
  BY <1>p, <1>q, Locals DEF WellFormed
<1>t. /\ staged \in [Blobs -> [BlockIds -> Bodies \cup {None}]]
      /\ blockFile \in [Blobs -> [BlockIds -> Bodies \cup {None}]]
  BY DEF TypeInv, DbTypeOK
<1>o. \A b \in Blobs : SettlesBlob(r, b)
  BY <1>p, <1>w, UntouchedIsSettled DEF q
<1>i. \A b \in Blobs, i \in BlockIds : ~(b = q.b /\ i = q.id) => SettlesBlock(r, b, i)
  <2>1. \A b \in Blobs, i \in BlockIds : TouchesBlock(r, b, i) => b = q.b /\ i = q.id
    BY <1>b, <1>d, NoneAssumption DEF TouchesBlock
  <2> QED
    BY <2>1, UntouchedIsSettled
<1> HIDE DEF q
<1>1. CASE put_block_write(r)
  <2> DEFINE p == [q EXCEPT !.pc = "bk_stage"]
  <2>1. Continue(r, p) /\ blockFile' = [blockFile EXCEPT ![q.b][q.id] = q.body]
    BY <1>1 DEF put_block_write, Goto, q
  <2>2. p.pc = "bk_stage" /\ p.b = q.b /\ p.id = q.id /\ p.body = q.body /\ p.bad = q.bad
    BY <1>q DEF Request
  <2> HIDE DEF p
  <2>3. req'[r] = p
    BY <2>1, Goes
  <2>4. \A b \in Blobs, i \in BlockIds : b = q.b /\ i = q.id => SettlesBlock(r, b, i)
    BY <2>2, <2>3 DEF SettlesBlock, Staging
  <2>5. blockFile'[q.b][q.id] = q.body
    BY <1>b, <1>d, <1>t, <2>1
  <2>6. CalmRelies(r)'
    BY <1>k, <2>2, <2>3, <2>5 DEF CalmRelies
  <2> QED
    BY <1>i, <1>o, <2>4, <2>6 DEF Settles
<1>2. CASE put_block_stage(r)
  <2>1. /\ q.pc = "bk_stage" /\ End(r) /\ UNCHANGED blockFile
        /\ staged' = [staged EXCEPT ![q.b][q.id] = q.body]
    BY <1>2 DEF put_block_stage, stage_block, q, files
  <2>2. staged'[q.b][q.id] = blockFile'[q.b][q.id]
    BY <1>b, <1>d, <1>k, <1>t, <2>1
  <2>3. CalmRelies(r)'
    <3>1. req'[r].pc = "idle"
      BY <2>1, Ends DEF IdleReq
    <3> QED
      BY <3>1, CalmElsewhere
  <2>4. \A b \in Blobs, i \in BlockIds : b = q.b /\ i = q.id => SettlesBlock(r, b, i)
    BY <2>2 DEF SettlesBlock
  <2> QED
    BY <1>i, <1>o, <2>3, <2>4 DEF Settles
<1> QED
  BY <1>1, <1>2

LEMMA PutBlockListSettles ==
    ASSUME Env = {}, TypeInv, AllLive, NEW r \in Requests, ReliesOn(r), CalmRelies(r),
           StepKeepsScope(r), StepKeepsRest(r),
           \/ put_block_list_committed(r) \/ put_block_list_resolve(r) \/ put_block_list_check(r)
           \/ put_block_list_part(r) \/ put_block_list_rename(r) \/ put_block_list_commit(r)
           \/ put_block_list_cleanup(r)
    PROVE  CalmRelies(r)' /\ Settles(r)
<1> DEFINE q == req[r]
<1>q. q \in Request
  BY Locals DEF TypeInv
<1>k. /\ q.pc = "bl_commit" => blobFile[q.b] = q.out
      /\ q.pc = "bl_cleanup" => staged[q.b] = NoBlocks
  BY DEF ReliesOn, q
<1>p. q.pc \in PutBlockListPC
  BY DEF put_block_list_committed, put_block_list_resolve, put_block_list_check, put_block_list_part,
     put_block_list_rename, put_block_list_commit, put_block_list_cleanup, q, PutBlockListPC
<1>w. /\ q.pc \in WriterPC \ DeleteContainerPC /\ q.pc # "bk_stage"
      /\ q.pc # "bl_commit" => q.pc \notin UnsettledPC
  BY <1>p DEF WriterPC, PutBlockListPC, DeleteContainerPC, UnsettledPC, EmptiedPC
<1>b. q.b \in Blobs /\ q.c = Home[q.b] /\ \A b \in Blobs : Touches(r, b) <=> b = q.b
  BY <1>w, TouchesOwn DEF q
<1>t. /\ staged \in [Blobs -> [BlockIds -> Bodies \cup {None}]]
      /\ blobs \in [Blobs -> Content \cup {None}]
      /\ blobFile \in [Blobs -> Content \cup {None}]
  BY DEF TypeInv, DbTypeOK
<1>o. \A b \in Blobs : b # q.b =>
        SettlesBlob(r, b) /\ \A i \in BlockIds : SettlesBlock(r, b, i)
  BY <1>b, UntouchedIsSettled
<1>s. UNCHANGED <<blobs, staged, blobFile, blockFile>> /\ q.pc # "bl_commit" => Settles(r)
  BY <1>w, UntouchedIsSettled DEF Settles, q
<1> HIDE DEF q
<1>c. ASSUME \/ End(r)
             \/ \E x : Continue(r, [q EXCEPT !.pc = "bl_resolve", !.comm = x])
             \/ \E x, y : Continue(r, [q EXCEPT !.refs = x, !.res = y])
             \/ Continue(r, [q EXCEPT !.pc = "bl_concat", !.out = <<>>])
             \/ \E x : Continue(r, [q EXCEPT !.out = x])
             \/ \E x : Continue(r, [q EXCEPT !.res = x])
             \/ \E pc \in {"bl_commit", "bl_cleanup"} : Continue(r, [q EXCEPT !.pc = pc])
      PROVE  CalmRelies(r)'
  <2> DEFINE l1(x) == [q EXCEPT !.pc = "bl_resolve", !.comm = x]
             l2(x, y) == [q EXCEPT !.refs = x, !.res = y]
             l3 == [q EXCEPT !.pc = "bl_concat", !.out = <<>>]
             l4(x) == [q EXCEPT !.out = x]
             l5(x) == [q EXCEPT !.res = x]
             l6(pc) == [q EXCEPT !.pc = pc]
  <2>1. /\ \A x : l1(x).pc = "bl_resolve"
        /\ \A x, y : l2(x, y).pc = q.pc
        /\ l3.pc = "bl_concat"
        /\ \A x : l4(x).pc = q.pc
        /\ \A x : l5(x).pc = q.pc
        /\ \A pc : l6(pc).pc = pc
    BY <1>q DEF Request
  <2>2. \/ End(r) \/ Continue(r, l3)
        \/ \E x : Continue(r, l1(x)) \/ Continue(r, l4(x)) \/ Continue(r, l5(x))
        \/ \E x, y : Continue(r, l2(x, y))
        \/ \E pc \in {"bl_commit", "bl_cleanup"} : Continue(r, l6(pc))
    BY <1>c
  <2> HIDE DEF l1, l2, l3, l4, l5, l6
  <2>3. \/ req'[r] = IdleReq \/ req'[r] = l3
        \/ \E x : req'[r] = l1(x) \/ req'[r] = l4(x) \/ req'[r] = l5(x)
        \/ \E x, y : req'[r] = l2(x, y)
        \/ \E pc \in {"bl_commit", "bl_cleanup"} : req'[r] = l6(pc)
    BY <2>2, Goes, Ends
  <2>4. IdleReq.pc = "idle"
    BY DEF IdleReq
  <2>5. req'[r].pc \in {"idle", "bl_resolve", "bl_concat", "bl_commit", "bl_cleanup", q.pc}
    BY <2>1, <2>3, <2>4
  <2>6. req'[r].pc \notin {"pb_reject", "bk_stage"}
    BY <1>p, <2>5 DEF PutBlockListPC
  <2> QED
    BY <2>6, CalmElsewhere
<1> USE DEF dbVars, files
<1>1. CASE put_block_list_committed(r)
  BY <1>1, <1>c, <1>s DEF put_block_list_committed, q
<1>2. CASE put_block_list_resolve(r)
  BY <1>2, <1>c, <1>s DEF put_block_list_resolve, q
<1>3. CASE put_block_list_check(r)
  BY <1>3, <1>c, <1>s DEF put_block_list_check, q
<1>4. CASE put_block_list_part(r)
  BY <1>4, <1>c, <1>s DEF put_block_list_part, q
<1>5. CASE put_block_list_rename(r)
  <2> DEFINE p == [q EXCEPT !.pc = "bl_commit"]
  <2>1. Continue(r, p) /\ UNCHANGED <<staged, blockFile>>
    BY <1>5 DEF put_block_list_rename, Goto, q
  <2>2. p.pc = "bl_commit" /\ p.c = q.c /\ p.b = q.b
    BY <1>q DEF Request
  <2>3. CalmRelies(r)'
    BY <1>c, <2>1
  <2> HIDE DEF p
  <2>4. req'[r] = p
    BY <2>1, Goes
  <2>5. \A b \in Blobs : b = q.b => SettlesBlob(r, b)
    BY <1>b, <2>2, <2>4 DEF SettlesBlob, Unsettled, UnsettledPC
  <2>6. \A b \in Blobs, i \in BlockIds : SettlesBlock(r, b, i)
    BY <1>w, <2>1, UntouchedIsSettled DEF q
  <2> QED
    BY <1>o, <2>3, <2>5, <2>6 DEF Settles
<1>6. CASE put_block_list_commit(r)
  <2>1. /\ q.pc = "bl_commit" /\ UNCHANGED blobFile
        /\ End(r) \/ Continue(r, [q EXCEPT !.pc = "bl_cleanup"])
        /\ blobs' = [blobs EXCEPT ![q.b] = q.out]
        /\ staged' = [staged EXCEPT ![q.b] = NoBlocks]
    BY <1>6 DEF put_block_list_commit, commit_block_list_tx, Goto, q
  <2>2. CalmRelies(r)'
    BY <1>c, <2>1
  <2>3. blobFile'[q.b] = blobs'[q.b] /\ \A i \in BlockIds : staged'[q.b][i] = None
    BY <1>b, <1>k, <1>t, <2>1 DEF NoBlocks
  <2>4. \A b \in Blobs : b = q.b => SettlesBlob(r, b) /\ \A i \in BlockIds : SettlesBlock(r, b, i)
    BY <2>3 DEF SettlesBlob, SettlesBlock
  <2> QED
    BY <1>o, <2>2, <2>4 DEF Settles
<1>7. CASE put_block_list_cleanup(r)
  <2>1. /\ q.pc = "bl_cleanup" /\ UNCHANGED <<blobs, staged, blobFile>>
        /\ End(r) \/ \E x : Continue(r, [q EXCEPT !.res = x])
    BY <1>7 DEF put_block_list_cleanup, q
  <2>2. CalmRelies(r)'
    BY <1>c, <2>1
  <2>3. \A i \in BlockIds : staged'[q.b][i] = None
    BY <1>k, <2>1 DEF NoBlocks
  <2>4. \A b \in Blobs, i \in BlockIds : b = q.b => SettlesBlock(r, b, i)
    BY <2>3 DEF SettlesBlock
  <2>5. \A b \in Blobs : SettlesBlob(r, b)
    BY <1>w, <2>1, UntouchedIsSettled DEF q
  <2> QED
    BY <1>o, <2>2, <2>4, <2>5 DEF Settles
<1> QED
  BY <1>1, <1>2, <1>3, <1>4, <1>5, <1>6, <1>7

LEMMA DeleteContainerSettles ==
    ASSUME Env = {}, TypeInv, AllLive, NEW r \in Requests, ReliesOn(r), CalmRelies(r),
           StepKeepsScope(r), StepKeepsRest(r),
           \/ delete_container_rows(r) \/ delete_container_unlink(r)
           \/ delete_container_rmdir(r) \/ delete_container_end(r)
    PROVE  CalmRelies(r)' /\ Settles(r) /\ \A b \in Blobs : Touches(r, b) => SettlesHome(r, b)
<1> DEFINE q == req[r]
           p(pc, left) == [q EXCEPT !.pc = pc, !.left = left]
<1>q. q \in GoodRequest /\ q \in Request
  BY Locals DEF TypeInv
<1>k. q.pc \in EmptiedPC => \A b \in BlobsOf(q.c) : blobs[b] = None /\ staged[b] = NoBlocks
  BY DEF ReliesOn, q
<1>w. q.pc \in DeleteContainerPC
  BY DEF delete_container_rows, delete_container_unlink, delete_container_rmdir, delete_container_end,
     q, DeleteContainerPC
<1>b. q.b = None /\ \A b \in Blobs : Touches(r, b) <=> b \in BlobsOf(q.c)
  BY <1>q, <1>w, Locals DEF WellFormed, Touches, q, BlobsOf, WriterPC
<1>o. \A b \in Blobs : b \notin BlobsOf(q.c) =>
        SettlesBlob(r, b) /\ \A i \in BlockIds : SettlesBlock(r, b, i)
  BY <1>b, UntouchedIsSettled
<1> HIDE DEF q
<1>g. ASSUME req'[r].pc \in EmptiedPC, req'[r].c = q.c, req'[r].b = None,
             \A b \in BlobsOf(q.c) : staged'[b] = NoBlocks
      PROVE  CalmRelies(r)' /\ Settles(r) /\ \A b \in Blobs : Touches(r, b) => SettlesHome(r, b)
  <2>1. CalmRelies(r)'
    BY <1>g, CalmElsewhere DEF EmptiedPC
  <2>2. \A b \in BlobsOf(q.c) : SettlesBlob(r, b) /\ SettlesHome(r, b)
    BY <1>g DEF SettlesBlob, SettlesHome, Unsettled, UnsettledPC, Emptying, BlobsOf
  <2>3. \A b \in BlobsOf(q.c) : \A i \in BlockIds : SettlesBlock(r, b, i)
    BY <1>g DEF SettlesBlock, NoBlocks
  <2> QED
    BY <1>b, <1>o, <2>1, <2>2, <2>3 DEF Settles
<1>p. \A pc, left : p(pc, left).pc = pc /\ p(pc, left).c = q.c /\ p(pc, left).b = q.b
  BY <1>q DEF Request
<1> HIDE DEF p
<1> USE DEF dbVars, files
<1>1. CASE delete_container_rows(r)
  <2> DEFINE left == {b \in BlobsOf(q.c) : blobs[b] # None}
             pc == IF left = {} THEN "dc_rmdir" ELSE "dc_unlink"
  <2>1. staged' = [b \in Blobs |-> IF Home[b] = q.c THEN NoBlocks ELSE staged[b]]
    BY <1>1 DEF delete_container_rows, delete_container_tx, q
  <2>2. pc \in EmptiedPC /\ Continue(r, p(pc, left))
    BY <1>1 DEF delete_container_rows, q, p, EmptiedPC
  <2> HIDE DEF pc, left
  <2>3. req'[r] = p(pc, left)
    BY <2>2, Goes
  <2>4. \A b \in BlobsOf(q.c) : staged'[b] = NoBlocks
    BY <2>1 DEF BlobsOf
  <2> QED
    BY <1>b, <1>g, <1>p, <2>2, <2>3, <2>4
<1>2. CASE delete_container_unlink(r)
  <2>1. PICK b \in q.left :
          Continue(r, [q EXCEPT !.pc = IF q.left = {b} THEN "dc_rmdir" ELSE "dc_unlink",
                                !.left = @ \ {b}])
    BY <1>2 DEF delete_container_unlink, q
  <2> DEFINE pc == IF q.left = {b} THEN "dc_rmdir" ELSE "dc_unlink"
  <2>2. pc \in EmptiedPC /\ Continue(r, p(pc, q.left \ {b}))
    BY <2>1 DEF p, EmptiedPC
  <2> HIDE DEF pc
  <2>3. req'[r] = p(pc, q.left \ {b})
    BY <2>2, Goes
  <2>4. \A a \in BlobsOf(q.c) : staged'[a] = NoBlocks
    BY <1>2, <1>k DEF delete_container_unlink, q, EmptiedPC
  <2> QED
    BY <1>b, <1>g, <1>p, <2>2, <2>3, <2>4
<1>3. CASE delete_container_rmdir(r)
  <2>1. q.pc = "dc_rmdir" /\ UNCHANGED <<staged, req>>
    BY <1>3 DEF delete_container_rmdir, q
  <2> QED
    BY <1>b, <1>g, <1>k, <2>1 DEF q, EmptiedPC
<1>4. CASE delete_container_end(r)
  <2>1. /\ q.pc = "dc_rmdir" /\ End(r) /\ UNCHANGED <<dbVars, files>>
        /\ \A b \in BlobsOf(q.c) : blobFile[b] = None /\ blockFile[b] = NoBlocks
    BY <1>4 DEF delete_container_end, q
  <2>2. req'[r].pc = "idle"
    BY <2>1, Ends DEF IdleReq
  <2>3. CalmRelies(r)'
    BY <2>2, CalmElsewhere
  <2>4. \A b \in BlobsOf(q.c) : SettlesBlob(r, b) /\ SettlesHome(r, b)
    BY <1>k, <2>1 DEF SettlesBlob, SettlesHome, EmptiedPC
  <2>5. \A b \in BlobsOf(q.c) : \A i \in BlockIds : SettlesBlock(r, b, i)
    BY <1>k, <2>1 DEF SettlesBlock, NoBlocks, EmptiedPC
  <2> QED
    BY <1>b, <1>o, <2>3, <2>4, <2>5 DEF Settles
<1> QED
  BY <1>1, <1>2, <1>3, <1>4

LEMMA StepKeepsCalm ==
    ASSUME Env = {}, TypeInv, SerialInv, CalmInv, NEW r \in Requests, Step(r)
    PROVE  CalmInv'
<1>0. /\ AllLive /\ OneWriter /\ ReliesOn(r) /\ CalmRelies(r)
      /\ StepKeepsScope(r) /\ StepKeepsRest(r)
  BY StepScope, StepRest DEF SerialInv, CalmInv
<1> DEFINE q == req[r]
<1>q. q \in GoodRequest /\ q \in Request
  BY Locals DEF TypeInv
<1>1. \A s \in Requests \ {r} : CalmRelies(s)'
  <2> SUFFICES ASSUME NEW s \in Requests \ {r} PROVE CalmRelies(s)'
    OBVIOUS
  <2>1. req'[s] = req[s] /\ CalmRelies(s)
    BY <1>0 DEF StepKeepsScope, CalmInv
  <2>2. req[s].pc = "bk_stage" => blockFile'[req[s].b][req[s].id] = blockFile[req[s].b][req[s].id]
    BY <1>0, Apart DEF PutBlockPC, StepKeepsRest
  <2> QED
    BY <2>1, <2>2 DEF CalmRelies
<1>h. ASSUME NEW b \in Blobs, ~Touches(r, b) PROVE SettlesHome(r, b)
  <2>1. q.pc \in DeleteContainerPC => q.b = None /\ q.pc \in WriterPC
    BY <1>q, Locals DEF WellFormed, WriterPC
  <2>2. ~Emptying(r, b) /\ ~(q.pc = "dc_tx" /\ q.c = Home[b])
    BY <1>h, <2>1 DEF Emptying, Touches, EmptiedPC, DeleteContainerPC
  <2> QED
    BY <1>0, <1>h, <2>2 DEF SettlesHome, StepKeepsRest
<1>t. ASSUME q.pc \notin DeleteContainerPC, NEW b \in Blobs, Touches(r, b) PROVE SettlesHome(r, b)
  <2>1. Home[b] \in containers
    BY <1>0, <1>t DEF Touches, ReliesOn, EmptiedPC, DeleteContainerPC
  <2>2. Home[b] \in containers'
    BY <1>0, <1>t, <2>1 DEF StepKeepsRest, DeleteContainerPC
  <2> QED
    BY <2>2 DEF SettlesHome
<1>2. CASE get_blob_open(r) \/ get_blob_stream(r)
  <2> DEFINE p(x) == [q EXCEPT !.pc = "gb_stream", !.out = x]
  <2>1. q.pc \in GetBlobPC /\ UNCHANGED <<blobs, staged, blobFile, blockFile>>
    BY <1>2 DEF get_blob_open, get_blob_stream, GetBlobPC, dbVars, files
  <2>2. q.pc \notin UnsettledPC /\ q.pc # "bk_stage" /\ q.pc \notin DeleteContainerPC
    BY <2>1 DEF GetBlobPC, UnsettledPC, EmptiedPC, DeleteContainerPC
  <2>3. Settles(r)
    BY <1>0, <2>1, <2>2, UntouchedIsSettled DEF Settles
  <2>4. req'[r].pc \in {"idle", "gb_stream"}
    <3> HIDE DEF q
    <3>1. \A x : p(x).pc = "gb_stream"
      BY <1>q DEF Request
    <3>2. End(r) \/ \E x : Continue(r, p(x))
      BY <1>2 DEF get_blob_open, get_blob_stream, q
    <3> HIDE DEF p
    <3>3. req'[r] = IdleReq \/ \E x : req'[r] = p(x)
      BY <1>0, <3>2, Goes, Ends
    <3> QED
      BY <3>1, <3>3 DEF IdleReq
  <2>5. CalmRelies(r)'
    BY <1>0, <2>4, CalmElsewhere
  <2> QED
    BY <1>0, <1>1, <1>h, <1>t, <2>2, <2>3, <2>5, SettledKept DEF StepKeepsScope
<1>3. CASE NoContainer(r)
  <2>1. q.pc \in {"pb_upsert", "bl_commit"} /\ Home[q.b] \notin containers
    BY <1>3 DEF NoContainer, foreign_key
  <2>2. q.c = Home[q.b]
    BY <1>q, <2>1, Locals DEF WellFormed, BlobPC, PC, WriterPC, PutBlobPC, PutBlockListPC, DeleteContainerPC
  <2>3. q.c \in containers
    BY <1>0, <2>1 DEF ReliesOn, WriterPC, EmptiedPC, PutBlobPC, PutBlockListPC
  <2> QED
    BY <2>1, <2>2, <2>3
<1>4. ASSUME CalmRelies(r)', Settles(r), q.pc \notin DeleteContainerPC PROVE CalmInv'
  BY <1>0, <1>1, <1>4, <1>h, <1>t, SettledKept DEF StepKeepsScope
<1>5. CASE put_blob_write(r) \/ put_blob_reject(r) \/ put_blob_upsert(r)
  <2>1. q.pc \notin DeleteContainerPC
    BY <1>5 DEF put_blob_write, put_blob_reject, put_blob_upsert, DeleteContainerPC
  <2> QED
    BY <1>0, <1>4, <1>5, <2>1, PutBlobSettles
<1>6. CASE \/ delete_blob_delete(r) \/ delete_blob_committed(r)
           \/ delete_blob_staged(r) \/ delete_blob_unlink(r)
  <2>1. q.pc \notin DeleteContainerPC
    BY <1>6 DEF delete_blob_delete, delete_blob_committed, delete_blob_staged, delete_blob_unlink,
       DeleteContainerPC
  <2> QED
    BY <1>0, <1>4, <1>6, <2>1, DeleteBlobSettles
<1>7. CASE put_block_write(r) \/ put_block_stage(r)
  <2>1. q.pc \notin DeleteContainerPC
    BY <1>7 DEF put_block_write, put_block_stage, DeleteContainerPC
  <2> QED
    BY <1>0, <1>4, <1>7, <2>1, PutBlockSettles
<1>8. CASE \/ put_block_list_committed(r) \/ put_block_list_resolve(r) \/ put_block_list_check(r)
           \/ put_block_list_part(r) \/ put_block_list_rename(r) \/ put_block_list_commit(r)
           \/ put_block_list_cleanup(r)
  <2>1. q.pc \notin DeleteContainerPC
    BY <1>8 DEF put_block_list_committed, put_block_list_resolve, put_block_list_check,
       put_block_list_part, put_block_list_rename, put_block_list_commit, put_block_list_cleanup,
       DeleteContainerPC
  <2> QED
    BY <1>0, <1>4, <1>8, <2>1, PutBlockListSettles
<1>9. CASE \/ delete_container_rows(r) \/ delete_container_unlink(r)
           \/ delete_container_rmdir(r) \/ delete_container_end(r)
  <2>1. CalmRelies(r)' /\ Settles(r) /\ \A b \in Blobs : Touches(r, b) => SettlesHome(r, b)
    BY <1>0, <1>9, DeleteContainerSettles
  <2> QED
    BY <1>0, <1>1, <1>h, <2>1, SettledKept DEF StepKeepsScope
<1> QED
  BY <1>2, <1>3, <1>5, <1>6, <1>7, <1>8, <1>9 DEF Step

LEMMA StartKeepsCalm ==
    ASSUME Env = {}, TypeInv, BlobRowHasContainer, SerialInv, CalmInv, NEW r \in Requests, Start(r)
    PROVE  CalmInv'
<1>1. /\ UNCHANGED <<blobs, staged, committed, files, history>>
      /\ containers \subseteq containers'
      /\ UNCHANGED req \/ BeginsWriter(r)
  BY StartShape DEF SerialInv
<1>2. CASE UNCHANGED req
  BY <1>1, <1>2
  DEF CalmInv, CalmRelies, BlobSettled, HomeSettled, BlockSettled, Unsettled, Staging, Emptying, files
<1>3. CASE BeginsWriter(r)
  <2>1. /\ req[r].pc = "idle" /\ ~req'[r].bad /\ req'[r].pc \in StartPC \cup {"gb_open"}
        /\ \A s \in Requests \ {r} : req'[s] = req[s]
    BY <1>3 DEF BeginsWriter
  <2>2. CalmRelies(r)'
    BY <2>1 DEF CalmRelies, StartPC
  <2>3. \A s \in Requests \ {r} : CalmRelies(s)'
    BY <1>1, <2>1 DEF CalmInv, CalmRelies, files
  <2>4. \A b \in Blobs : ~Unsettled(r, b) /\ ~Emptying(r, b) /\ \A i \in BlockIds : ~Staging(r, b, i)
    BY <2>1 DEF Unsettled, UnsettledPC, Emptying, EmptiedPC, Staging
  <2>5. Settles(r) /\ \A b \in Blobs : SettlesHome(r, b)
    BY <1>1, <2>4 DEF Settles, SettlesBlob, SettlesBlock, SettlesHome, files
  <2> QED
    BY <2>1, <2>2, <2>3, <2>5, SettledKept
<1> QED
  BY <1>1, <1>2, <1>3

LEMMA CalmInvInductive ==
    ASSUME Env = {}
    PROVE  TypeInv /\ BlobRowHasContainer /\ SerialInv /\ CalmInv /\ [Next]_vars => CalmInv'
<1> SUFFICES ASSUME TypeInv, BlobRowHasContainer, SerialInv, CalmInv, [Next]_vars
             PROVE  CalmInv'
  OBVIOUS
<1>1. ASSUME NEW r \in Requests, Start(r) PROVE CalmInv'
  BY <1>1, StartKeepsCalm
<1>2. ASSUME NEW r \in Requests, Step(r) PROVE CalmInv'
  BY <1>2, StepKeepsCalm
<1>3. ASSUME NEW r \in Requests, Disturbance(r) PROVE CalmInv'
  BY <1>3 DEF Disturbance, Fail, Cancel, Drop, SerialInv, AllLive
<1>4. CASE Crash
  BY <1>4 DEF Crash
<1>5. CASE UNCHANGED vars
  BY <1>5
  DEF CalmInv, CalmRelies, BlobSettled, HomeSettled, BlockSettled, Unsettled, Staging, Emptying,
      vars, dbVars, files
<1> QED
  BY <1>1, <1>2, <1>3, <1>4, <1>5 DEF Next

LEMMA CalmIsSerial == Env = {} => Serial
  BY DEF Serial

LEMMA CalmInvInvariant ==
    ASSUME Env = {}
    PROVE  Spec => []CalmInv
<1>1. Init => CalmInv
  BY DEF Init, DbInit, CalmInv, CalmRelies, BlobSettled, HomeSettled, BlockSettled, NoBlocks, IdleReq
<1> QED
  BY <1>1, CalmIsSerial, CalmInvInductive, SerialInvInvariant, TypeInvInvariant, RowsHaveContainers, PTL
  DEF Spec

(* When nothing fails and clients do not overlap, every handler cleans up:  *)
(* once the requests for it have ended a blob has a file exactly when it    *)
(* has a row, and the same content; every staged row describes its file;    *)
(* a deleted container leaves no file behind.                               *)
THEOREM QuietBlobsAreClean ==
    ASSUME Env = {}
    PROVE  Spec => []QuietIsClean
<1>1. TypeInv /\ CalmInv => QuietIsClean
  <2> SUFFICES ASSUME TypeInv, CalmInv, NEW b \in Blobs, Quiet(b)
               PROVE  /\ blobFile[b] = blobs[b]
                      /\ \A i \in BlockIds : staged[b][i] # None => blockFile[b][i] = staged[b][i]
                      /\ Home[b] \notin containers => blockFile[b] = NoBlocks
    BY DEF QuietIsClean
  <2>1. \A r \in Requests : ~Unsettled(r, b) /\ ~Emptying(r, b)
    BY DEF Quiet, Unsettled, UnsettledPC, Emptying, EmptiedPC, WriterPC, PutBlobPC, DeleteBlobPC,
       PutBlockListPC, DeleteContainerPC
  <2>2. \A r \in Requests : req[r].pc = "bk_stage" => req[r].c = Home[req[r].b] /\ req[r].pc \in WriterPC
    BY Locals DEF TypeInv, WellFormed, BlobPC, PC, WriterPC, PutBlockPC, DeleteContainerPC
  <2>3. \A r \in Requests, i \in BlockIds : ~Staging(r, b, i)
    BY <2>2 DEF Quiet, Staging
  <2> QED
    BY <2>1, <2>3 DEF CalmInv, BlobSettled, BlockSettled, HomeSettled
<1> QED
  BY <1>1, CalmInvInvariant, TypeInvInvariant, PTL

-------------------------------------------------------------------------------
(* Clients that upload by blocks only, and never ask for a committed one:   *)
(* the sizes recorded are those of the parts.                               *)

BlocksOnly ==
    /\ "put_blob" \notin Ops
    /\ \A refs \in BlockLists : \A k \in DOMAIN refs : refs[k].kind # "Committed"

SizesMatch(res, out) == \A k \in 1 .. Len(out) : res[k].size = Size[out[k]]

ListRelies(r) ==
    LET q == req[r] IN
    /\ q.pc \notin PutBlobPC
    /\ q.pc \in {"bl_committed", "bl_resolve"} => \A k \in DOMAIN q.refs : q.refs[k].kind # "Committed"
    /\ q.pc \in {"bl_resolve", "bl_concat"} =>
         \A k \in DOMAIN q.res : q.res[k].has => q.res[k].size = Size[staged[q.b][q.res[k].id]]
    /\ q.pc \in {"bl_concat", "bl_commit"} => Len(q.out) <= Len(q.res) /\ SizesMatch(q.res, q.out)
    /\ q.pc = "bl_commit" => Len(q.out) = Len(q.res)

ListInv == (\A r \in Requests : ListRelies(r)) /\ BlockListDescribesContent

(* Other handlers do not turn into uploads. *)
LEMMA OtherHandlers ==
    ASSUME TypeInv, AllLive, NEW r \in Requests, Step(r),
           req[r].pc \notin PutBlobPC \cup PutBlockListPC
    PROVE  req'[r].pc \notin PutBlobPC \cup PutBlockListPC \cup {"db_delete"}
<1> DEFINE q == req[r]
           UploadsPC == PutBlobPC \cup PutBlockListPC
           Never == UploadsPC \cup {"db_delete"}
           p(pc) == [q EXCEPT !.pc = pc]
           p1(x) == [q EXCEPT !.pc = "gb_stream", !.out = x]
           p2(pc, x) == [q EXCEPT !.pc = pc, !.left = x]
           Targets == {"db_committed", "db_staged", "db_unlink", "bk_stage", "dc_unlink", "dc_rmdir"}
<1>q. q \in Request
  BY Locals DEF TypeInv
<1>i. IdleReq.pc \notin Never /\ "gb_stream" \notin Never /\ Targets \cap Never = {}
  BY DEF IdleReq, PutBlobPC, PutBlockListPC
<1> HIDE DEF q
<1>1. /\ \A pc : p(pc).pc = pc
      /\ \A x : p1(x).pc = "gb_stream"
      /\ \A pc, x : p2(pc, x).pc = pc
  BY <1>q DEF Request
<1> HIDE DEF p, p1, p2
<1>2. ASSUME \/ End(r)
             \/ UNCHANGED req /\ q.pc = "dc_rmdir"
             \/ \E pc \in Targets : Continue(r, p(pc))
             \/ \E x : Continue(r, p1(x))
             \/ \E pc \in Targets : \E x : Continue(r, p2(pc, x))
      PROVE  req'[r].pc \notin Never
  <2>1. \/ req'[r] = IdleReq
        \/ req'[r] = q /\ q.pc \in Targets
        \/ \E pc \in Targets : req'[r] = p(pc) \/ \E x : req'[r] = p2(pc, x)
        \/ \E x : req'[r] = p1(x)
    BY <1>2, Goes, Ends DEF q
  <2> HIDE DEF Targets, Never
  <2> QED
    BY <1>1, <1>i, <2>1
<1>3. CASE \/ put_blob_write(r) \/ put_blob_reject(r) \/ put_blob_upsert(r)
           \/ put_block_list_committed(r) \/ put_block_list_resolve(r) \/ put_block_list_check(r)
           \/ put_block_list_part(r) \/ put_block_list_rename(r) \/ put_block_list_commit(r)
           \/ put_block_list_cleanup(r) \/ NoContainer(r)
  BY <1>3
  DEF put_blob_write, put_blob_reject, put_blob_upsert, put_block_list_committed, put_block_list_resolve,
      put_block_list_check, put_block_list_part, put_block_list_rename, put_block_list_commit,
      put_block_list_cleanup, NoContainer, PutBlobPC, PutBlockListPC
<1>4. CASE get_blob_open(r) \/ get_blob_stream(r)
  BY <1>2, <1>4 DEF get_blob_open, get_blob_stream, q, p1
<1>5. CASE delete_blob_delete(r) \/ delete_blob_committed(r) \/ delete_blob_staged(r) \/ delete_blob_unlink(r)
  BY <1>2, <1>5 DEF delete_blob_delete, delete_blob_committed, delete_blob_staged, delete_blob_unlink,
     Goto, q, p
<1>6. CASE put_block_write(r) \/ put_block_stage(r)
  BY <1>2, <1>6 DEF put_block_write, put_block_stage, Goto, q, p
<1>7. CASE delete_container_rows(r)
  BY <1>2, <1>7 DEF delete_container_rows, q, p2
<1>8. CASE delete_container_unlink(r)
  BY <1>2, <1>8 DEF delete_container_unlink, q, p2
<1>9. CASE delete_container_rmdir(r) \/ delete_container_end(r)
  BY <1>2, <1>9 DEF delete_container_rmdir, delete_container_end, q
<1> QED
  BY <1>3, <1>4, <1>5, <1>6, <1>7, <1>8, <1>9 DEF Step

LEMMA ResolvedSize ==
    ASSUME NEW ref, ref.kind # "Committed", NEW s, NEW m, NEW x \in resolve_block(ref, s, m)
    PROVE  x.id = ref.id /\ (x.has => x.size = Size[s])
  BY DEF resolve_block

(* The file of a staged block holds what was staged while a list is assembled. *)
LEMMA PartIsStaged ==
    ASSUME TypeInv, SerialInv, CalmInv, NEW r \in Requests, req[r].pc = "bl_concat",
           NEW i \in BlockIds, staged[req[r].b][i] # None
    PROVE  blockFile[req[r].b][i] = staged[req[r].b][i]
<1> DEFINE q == req[r]
<1>b. q.b \in Blobs /\ q.c = Home[q.b] /\ q.id = None
  BY Locals DEF TypeInv, WellFormed, BlobPC, PC, WriterPC, PutBlockPC, PutBlockListPC, DeleteContainerPC
<1>1. ASSUME NEW s \in Requests, Staging(s, q.b, i) PROVE FALSE
  <2>1. req[s].pc = "bk_stage" /\ req[s].b = q.b
    BY <1>1 DEF Staging
  <2>2. s # r
    BY <2>1
  <2>3. req[s].c = q.c
    BY <1>b, <2>1, Locals DEF TypeInv, WellFormed, BlobPC, PC, WriterPC, PutBlockPC, DeleteContainerPC
  <2>4. Clash(r, s)
    BY <1>b, <2>1, <2>3 DEF Clash, WriterPC, PutBlockPC, PutBlockListPC
  <2> QED
    BY <2>2, <2>4 DEF SerialInv, OneWriter
<1>2. BlockSettled(q.b, i)
  BY <1>b DEF CalmInv
<1> QED
  BY <1>1, <1>2 DEF BlockSettled

LEMMA PutBlockListRelies ==
    ASSUME Env = {}, TypeInv, SerialInv, CalmInv, NEW r \in Requests, ListRelies(r),
           req[r].pc \in PutBlockListPC, Step(r)
    PROVE  ListRelies(r)'
<1> DEFINE q == req[r]
           Sized(res) == \A k \in DOMAIN res : res[k].has => res[k].size = Size[staged[q.b][res[k].id]]
           Fresh(refs) == \A k \in DOMAIN refs : refs[k].kind # "Committed"
<1>q. q \in GoodRequest /\ q \in Request /\ q.refs \in Seq(BlockRef) /\ q.res \in Seq(ResolvedBlock)
  BY Locals DEF TypeInv
<1>0. AllLive /\ OneWriter /\ ReliesOn(r)
  BY DEF SerialInv
<1>k. /\ q.pc \in {"bl_committed", "bl_resolve"} => Fresh(q.refs)
      /\ q.pc \in {"bl_resolve", "bl_concat"} => Sized(q.res)
      /\ q.pc \in {"bl_concat", "bl_commit"} => Len(q.out) <= Len(q.res) /\ SizesMatch(q.res, q.out)
      /\ q.pc = "bl_commit" => Len(q.out) = Len(q.res)
  BY DEF ListRelies, q
<1>r. /\ q.pc = "bl_committed" => q.res = <<>>
      /\ q.pc = "bl_concat" => \A k \in DOMAIN q.res : q.res[k].has /\ staged[q.b][q.res[k].id] # None
  BY <1>0 DEF ReliesOn, q
<1>p. q.pc \in PutBlockListPC
  OBVIOUS
<1> HIDE DEF q
<1>b. q.b \in Blobs /\ q.c = Home[q.b] /\ q.id = None
  BY <1>p, <1>q, Locals DEF WellFormed, BlobPC, PC, WriterPC, PutBlockPC, PutBlockListPC, DeleteContainerPC
<1>e. ASSUME req'[r].pc \in {"idle", "bl_cleanup"} PROVE ListRelies(r)'
  BY <1>e DEF ListRelies, PutBlobPC
<1>i. End(r) => ListRelies(r)'
  <2> SUFFICES ASSUME End(r) PROVE ListRelies(r)'
    OBVIOUS
  <2>1. req'[r].pc = "idle"
    BY Ends DEF IdleReq
  <2> QED
    BY <1>e, <2>1
<1> USE DEF dbVars, files
<1>1. CASE put_block_list_committed(r)
  <2>1. PICK comm : Continue(r, [q EXCEPT !.pc = "bl_resolve", !.comm = comm])
    BY <1>1 DEF put_block_list_committed, q
  <2> DEFINE p == [q EXCEPT !.pc = "bl_resolve", !.comm = comm]
  <2>2. p.pc = "bl_resolve" /\ p.refs = q.refs /\ p.res = q.res
    BY <1>q DEF Request
  <2>3. Fresh(q.refs) /\ DOMAIN q.res = {}
    BY <1>1, <1>k, <1>r DEF put_block_list_committed, q
  <2> HIDE DEF p
  <2>4. req'[r] = p
    BY <1>0, <2>1, Goes DEF p
  <2> QED
    BY <2>2, <2>3, <2>4 DEF ListRelies, PutBlobPC
<1>2. CASE put_block_list_resolve(r)
  <2> DEFINE ref == Head(q.refs)
             found == resolve_block(ref, staged[q.b][ref.id], q.comm[ref.id])
  <2>1. q.pc = "bl_resolve" /\ q.refs # <<>> /\ UNCHANGED staged
    BY <1>2 DEF put_block_list_resolve, q
  <2>2. Fresh(q.refs) /\ Sized(q.res)
    BY <1>k, <2>1
  <2>3. ref.kind # "Committed" /\ Fresh(Tail(q.refs))
    <3>1. /\ ref = q.refs[1] /\ DOMAIN q.refs = 1 .. Len(q.refs)
          /\ Len(q.refs) \in Nat \ {0}
      BY <1>q, <2>1, HeadTailProperties, LenProperties, EmptySeq
    <3>2. /\ Tail(q.refs) \in Seq(BlockRef) /\ Len(Tail(q.refs)) = Len(q.refs) - 1
          /\ \A k \in 1 .. Len(Tail(q.refs)) : Tail(q.refs)[k] = q.refs[k + 1]
      BY <1>q, <2>1, HeadTailProperties
    <3>3. DOMAIN Tail(q.refs) = 1 .. Len(Tail(q.refs))
      BY <3>2, LenProperties
    <3> DEFINE t == Tail(q.refs)
    <3> HIDE DEF t
    <3>4. Fresh(t)
      BY <2>2, <3>1, <3>2, <3>3 DEF t
    <3> QED
      BY <2>2, <3>1, <3>4 DEF t
  <2>4. ASSUME NEW x \in found, Continue(r, [q EXCEPT !.refs = Tail(@), !.res = Append(@, x)])
        PROVE  ListRelies(r)'
    <3> DEFINE p == [q EXCEPT !.refs = Tail(@), !.res = Append(@, x)]
               res == Append(q.res, x)
    <3>1. p.pc = "bl_resolve" /\ p.b = q.b /\ p.refs = Tail(q.refs) /\ p.res = res
      BY <1>q, <2>1 DEF Request
    <3>2. x.has => x.size = Size[staged[q.b][x.id]]
      BY <2>3, <2>4, ResolvedSize
    <3>3. /\ DOMAIN res = 1 .. Len(q.res) + 1
          /\ \A k \in 1 .. Len(q.res) : res[k] = q.res[k]
          /\ res[Len(q.res) + 1] = x
          /\ DOMAIN q.res = 1 .. Len(q.res) /\ Len(q.res) \in Nat
      BY <1>q, AppendProperties, LenProperties
    <3> HIDE DEF p, res
    <3>4. Sized(res)
      <4> SUFFICES ASSUME NEW k \in DOMAIN res, res[k].has
                   PROVE  res[k].size = Size[staged[q.b][res[k].id]]
        OBVIOUS
      <4>1. k \in DOMAIN q.res \/ k = Len(q.res) + 1
        BY <3>3
      <4> QED
        BY <2>2, <3>2, <3>3, <4>1
    <3>5. req'[r] = p
      BY <1>0, <2>4, Goes DEF p
    <3> QED
      BY <2>1, <2>3, <3>1, <3>4, <3>5 DEF ListRelies, PutBlobPC
  <2> QED
    BY <1>2, <1>i, <2>4 DEF put_block_list_resolve, q
<1>3. CASE put_block_list_check(r)
  <2>1. q.pc = "bl_resolve" /\ UNCHANGED staged
    BY <1>3 DEF put_block_list_check, q
  <2>2. ASSUME Continue(r, [q EXCEPT !.pc = "bl_concat", !.out = <<>>]) PROVE ListRelies(r)'
    <3> DEFINE p == [q EXCEPT !.pc = "bl_concat", !.out = <<>>]
    <3>1. p.pc = "bl_concat" /\ p.b = q.b /\ p.res = q.res /\ p.out = <<>>
      BY <1>q DEF Request
    <3> HIDE DEF p
    <3>2. req'[r] = p
      BY <1>0, <2>2, Goes DEF p
    <3>3. Len(p.out) = 0 /\ Len(p.res) \in Nat
      BY <1>q, <3>1, LenProperties, EmptySeq
    <3>4. Sized(q.res)
      BY <1>k, <2>1
    <3>5. Len(p.out) <= Len(p.res) /\ SizesMatch(p.res, p.out)
      BY <3>3 DEF SizesMatch
    <3>6. p.pc = "bl_concat" /\ p.b = q.b /\ p.res = q.res
      BY <3>1
    <3> QED
      BY <2>1, <3>2, <3>4, <3>5, <3>6 DEF ListRelies, PutBlobPC
  <2> QED
    BY <1>3, <1>i, <2>2 DEF put_block_list_check, q
<1>4. CASE put_block_list_part(r)
  <2> DEFINE n == Len(q.out) + 1
             part == blockFile[q.b][q.res[n].id]
  <2>1. q.pc = "bl_concat" /\ n <= Len(q.res) /\ UNCHANGED staged
    BY <1>4 DEF put_block_list_part, q
  <2>2. q.out \in Seq(Bodies)
    BY <1>q, <2>1, Locals DEF WellFormed, Content
  <2>3. n \in DOMAIN q.res /\ Len(q.out) \in Nat /\ Len(q.res) \in Nat
    BY <1>q, <2>1, <2>2, LenProperties
  <2>4. q.res[n].id \in BlockIds
    BY <1>q, <2>3, ResolvedFields
  <2>5. q.res[n].has /\ staged[q.b][q.res[n].id] # None
    BY <1>r, <2>1, <2>3
  <2>6. part = staged[q.b][q.res[n].id]
    BY <1>b, <2>1, <2>4, <2>5, PartIsStaged DEF q
  <2>7. ASSUME Continue(r, [q EXCEPT !.out = Append(@, part)]), part # None PROVE ListRelies(r)'
    <3> DEFINE p == [q EXCEPT !.out = Append(@, part)]
               out == Append(q.out, part)
    <3>1. p.pc = "bl_concat" /\ p.b = q.b /\ p.res = q.res /\ p.out = out
      BY <1>q, <2>1 DEF Request
    <3>2. part \in Bodies
      BY <1>b, <2>4, <2>7 DEF TypeInv
    <3>3. /\ Len(out) = n
          /\ \A k \in 1 .. Len(q.out) : out[k] = q.out[k]
          /\ out[n] = part
      BY <2>2, <3>2, AppendProperties
    <3>4. Sized(q.res) /\ SizesMatch(q.res, q.out)
      BY <1>k, <2>1
    <3>5. q.res[n].size = Size[part]
      BY <2>3, <2>5, <2>6, <3>4
    <3> HIDE DEF p, out, part
    <3>6. SizesMatch(q.res, out)
      BY <2>3, <3>3, <3>4, <3>5 DEF SizesMatch
    <3>7. req'[r] = p
      BY <1>0, <2>7, Goes DEF p
    <3> QED
      BY <2>1, <3>1, <3>3, <3>4, <3>6, <3>7 DEF ListRelies, PutBlobPC
  <2> QED
    BY <1>4, <1>i, <2>7 DEF put_block_list_part, q
<1>5. CASE put_block_list_rename(r)
  <2> DEFINE p == [q EXCEPT !.pc = "bl_commit"]
  <2>1. q.pc = "bl_concat" /\ Len(q.out) = Len(q.res) /\ Continue(r, p)
    BY <1>5 DEF put_block_list_rename, Goto, q
  <2>2. p.pc = "bl_commit" /\ p.res = q.res /\ p.out = q.out
    BY <1>q DEF Request
  <2> HIDE DEF p
  <2>3. req'[r] = p
    BY <1>0, <2>1, Goes
  <2>4. Len(q.out) <= Len(q.res) /\ SizesMatch(q.res, q.out)
    BY <1>k, <2>1
  <2> QED
    BY <2>1, <2>2, <2>3, <2>4 DEF ListRelies, PutBlobPC
<1>6. CASE put_block_list_commit(r)
  <2> DEFINE p == [q EXCEPT !.pc = "bl_cleanup"]
  <2>1. End(r) \/ Continue(r, p)
    BY <1>6 DEF put_block_list_commit, Goto, q
  <2>2. p.pc = "bl_cleanup"
    BY <1>q DEF Request
  <2> HIDE DEF p
  <2>3. Continue(r, p) => req'[r].pc = "bl_cleanup"
    BY <1>0, <2>2, Goes
  <2> QED
    BY <1>e, <1>i, <2>1, <2>3
<1>7. CASE put_block_list_cleanup(r)
  <2> DEFINE p(x) == [q EXCEPT !.res = x]
  <2>1. q.pc = "bl_cleanup" /\ (End(r) \/ \E x : Continue(r, p(x)))
    BY <1>7 DEF put_block_list_cleanup, q
  <2>2. \A x : p(x).pc = "bl_cleanup"
    BY <1>q, <2>1 DEF Request
  <2> HIDE DEF p
  <2>3. (\E x : Continue(r, p(x))) => req'[r].pc = "bl_cleanup"
    BY <1>0, <2>2, Goes
  <2> QED
    BY <1>e, <1>i, <2>1, <2>3
<1>8. CASE NoContainer(r)
  BY <1>8, <1>i DEF NoContainer
<1> QED
  BY <1>1, <1>2, <1>3, <1>4, <1>5, <1>6, <1>7, <1>8, <1>p
  DEF Step, q, PutBlockListPC, put_blob_write, put_blob_reject, put_blob_upsert, get_blob_open,
      get_blob_stream, delete_blob_delete, delete_blob_committed, delete_blob_staged,
      delete_blob_unlink, put_block_write, put_block_stage, delete_container_rows,
      delete_container_unlink, delete_container_rmdir, delete_container_end

(* What a handler knows of its list is not disturbed by the others. *)
LEMMA StepKeepsListRelies ==
    ASSUME Env = {}, TypeInv, SerialInv, CalmInv, NEW r \in Requests, Step(r),
           \A s \in Requests : ListRelies(s)
    PROVE  \A s \in Requests : ListRelies(s)'
<1>0. AllLive /\ OneWriter
  BY DEF SerialInv
<1>1. StepKeepsScope(r) /\ StepKeepsRest(r)
  BY <1>0, StepScope, StepRest
<1>2. ListRelies(r)'
  <2>1. CASE req[r].pc \in PutBlockListPC
    BY <2>1, PutBlockListRelies
  <2>2. CASE req[r].pc \notin PutBlockListPC
    <3>1. req[r].pc \notin PutBlobPC
      BY DEF ListRelies
    <3>2. req'[r].pc \notin PutBlobPC \cup PutBlockListPC
      BY <1>0, <2>2, <3>1, OtherHandlers
    <3> QED
      BY <3>2 DEF ListRelies, PutBlockListPC
  <2> QED
    BY <2>1, <2>2
<1>3. ASSUME NEW s \in Requests \ {r} PROVE ListRelies(s)'
  <2> DEFINE q == req[s]
  <2>1. req'[s] = q
    BY <1>1 DEF StepKeepsScope
  <2>2. /\ q.pc \notin PutBlobPC
        /\ q.pc \in {"bl_committed", "bl_resolve"} =>
             \A k \in DOMAIN q.refs : q.refs[k].kind # "Committed"
        /\ q.pc \in {"bl_resolve", "bl_concat"} =>
             \A k \in DOMAIN q.res : q.res[k].has => q.res[k].size = Size[staged[q.b][q.res[k].id]]
        /\ q.pc \in {"bl_concat", "bl_commit"} => Len(q.out) <= Len(q.res) /\ SizesMatch(q.res, q.out)
        /\ q.pc = "bl_commit" => Len(q.out) = Len(q.res)
    BY DEF ListRelies
  <2>3. q.pc \in {"bl_resolve", "bl_concat"} => staged'[q.b] = staged[q.b]
    <3> SUFFICES ASSUME q.pc \in {"bl_resolve", "bl_concat"} PROVE staged'[q.b] = staged[q.b]
      OBVIOUS
    <3>1. q.pc \in WriterPC \ (DeleteContainerPC \cup PutBlockPC)
      BY DEF WriterPC, PutBlockListPC, DeleteContainerPC, PutBlockPC
    <3>2. q.b \in Blobs /\ ~Touches(r, q.b)
      BY <1>0, <3>1, Apart
    <3> QED
      BY <1>1, <3>2 DEF StepKeepsRest
  <2> HIDE DEF q
  <2> QED
    BY <2>1, <2>2, <2>3 DEF ListRelies
<1> QED
  BY <1>2, <1>3

(* The transaction that writes the blobs row writes its block list too,    *)
(* and a blob loses its row no later than its block list.                  *)
LEMMA StepKeepsDescription ==
    ASSUME TypeInv, SerialInv, ListInv, NEW r \in Requests, Step(r)
    PROVE  BlockListDescribesContent'
<1> DEFINE q == req[r]
           Described(rows, content) ==
             content # None =>
               /\ Len(rows) = Len(content)
               /\ \A k \in DOMAIN content : rows[k].size = Size[content[k]]
<1>q. q \in GoodRequest /\ q \in Request /\ q.res \in Seq(ResolvedBlock)
  BY Locals DEF TypeInv
<1>0. ReliesOn(r) /\ ListRelies(r)
  BY DEF SerialInv, ListInv
<1>d. \A b \in Blobs : Described(committed[b], blobs[b])
  BY DEF ListInv, BlockListDescribesContent
<1>t. blobs \in [Blobs -> Content \cup {None}] /\ committed \in [Blobs -> Seq(CommittedBlockRow)]
  BY DEF TypeInv, DbTypeOK
<1>b. q.pc \in {"db_delete", "db_committed", "bl_commit"} => q.b \in Blobs
  BY <1>q, Locals
  DEF WellFormed, BlobPC, PC, WriterPC, DeleteBlobPC, PutBlockListPC, DeleteContainerPC
<1>n. q.pc \notin PutBlobPC
  BY <1>0 DEF ListRelies
<1>s. ASSUME \A b \in Blobs : \/ blobs'[b] = None
                              \/ blobs'[b] = blobs[b] /\ committed'[b] = committed[b]
                              \/ Described(committed'[b], blobs'[b])
      PROVE  BlockListDescribesContent'
  BY <1>d, <1>s DEF BlockListDescribesContent
<1> HIDE DEF q
<1>u. CASE UNCHANGED <<blobs, committed>>
  BY <1>s, <1>u
<1> USE DEF dbVars, files, history
<1>1. CASE put_blob_write(r) \/ put_blob_reject(r) \/ put_blob_upsert(r)
  BY <1>1, <1>n DEF put_blob_write, put_blob_reject, put_blob_upsert, PutBlobPC, q
<1>2. CASE \/ get_blob_open(r) \/ get_blob_stream(r) \/ NoContainer(r)
           \/ put_block_write(r) \/ put_block_stage(r) \/ delete_blob_staged(r) \/ delete_blob_unlink(r)
  BY <1>2, <1>u
  DEF get_blob_open, get_blob_stream, NoContainer, put_block_write, put_block_stage, stage_block,
      delete_blob_staged, delete_staged_blocks, delete_blob_unlink
<1>3. CASE \/ put_block_list_committed(r) \/ put_block_list_resolve(r) \/ put_block_list_check(r)
           \/ put_block_list_part(r) \/ put_block_list_rename(r) \/ put_block_list_cleanup(r)
  BY <1>3, <1>u
  DEF put_block_list_committed, put_block_list_resolve, put_block_list_check, put_block_list_part,
      put_block_list_rename, put_block_list_cleanup
<1>4. CASE delete_container_unlink(r) \/ delete_container_rmdir(r) \/ delete_container_end(r)
  BY <1>4, <1>u DEF delete_container_unlink, delete_container_rmdir, delete_container_end
<1>5. CASE delete_container_rows(r)
  <2>1. \A b \in Blobs : blobs'[b] = None \/ (blobs'[b] = blobs[b] /\ committed'[b] = committed[b])
    BY <1>5 DEF delete_container_rows, delete_container_tx
  <2> QED
    BY <1>s, <2>1
<1>6. CASE delete_blob_delete(r)
  <2>1. blobs' = [blobs EXCEPT ![q.b] = None] /\ committed' = committed
    BY <1>6 DEF delete_blob_delete, delete_blob_row, q
  <2> QED
    BY <1>s, <1>t, <2>1
<1>7. CASE delete_blob_committed(r)
  <2>1. q.pc = "db_committed" /\ blobs' = blobs
    BY <1>7 DEF delete_blob_committed, delete_committed_blocks, q
  <2>2. committed' = committed \/ committed' = [committed EXCEPT ![q.b] = <<>>]
    BY <1>7 DEF delete_blob_committed, delete_committed_blocks, q
  <2>3. blobs[q.b] = None
    BY <1>0, <2>1 DEF ReliesOn, q
  <2>4. \A b \in Blobs : blobs'[b] = None \/ (blobs'[b] = blobs[b] /\ committed'[b] = committed[b])
    BY <1>t, <2>1, <2>2, <2>3
  <2> QED
    BY <1>s, <2>4
<1>8. CASE put_block_list_commit(r)
  <2> DEFINE rows == [k \in DOMAIN q.res |-> [id |-> q.res[k].id, size |-> q.res[k].size]]
  <2>1. /\ q.pc = "bl_commit"
        /\ blobs' = [blobs EXCEPT ![q.b] = q.out]
        /\ committed' = [committed EXCEPT ![q.b] = rows]
    BY <1>8 DEF put_block_list_commit, commit_block_list_tx, q
  <2>2. SizesMatch(q.res, q.out) /\ Len(q.out) = Len(q.res)
    BY <1>0, <2>1 DEF ListRelies, q
  <2>3. q.out \in Seq(Bodies)
    BY <1>q, <2>1, Locals DEF WellFormed, Content
  <2>4. /\ DOMAIN q.out = 1 .. Len(q.out) /\ DOMAIN q.res = 1 .. Len(q.res)
        /\ Len(q.res) \in Nat
    BY <1>q, <2>3, LenProperties
  <2>5. \A k \in DOMAIN q.res : q.res[k] \in ResolvedBlock
    BY <1>q, <2>4, ElementOfSeq
  <2>6. rows \in [1 .. Len(q.res) -> CommittedBlockRow]
    BY <2>4, <2>5 DEF CommittedBlockRow, ResolvedBlock
  <2>7. Len(rows) = Len(q.res)
    <3>1. rows \in Seq(CommittedBlockRow) /\ DOMAIN rows = 1 .. Len(q.res)
      BY <2>4, <2>6
    <3>2. DOMAIN rows = 1 .. Len(rows) /\ Len(rows) \in Nat
      BY <3>1, LenProperties
    <3> QED
      BY <2>4, <3>1, <3>2
  <2>8. \A k \in DOMAIN q.out : rows[k].size = Size[q.out[k]]
    BY <2>2, <2>4 DEF SizesMatch
  <2>9. Described(rows, q.out)
    BY <2>2, <2>7, <2>8
  <2> HIDE DEF rows, Described
  <2>10. \A b \in Blobs : \/ blobs'[b] = blobs[b] /\ committed'[b] = committed[b]
                          \/ blobs'[b] = q.out /\ committed'[b] = rows
    BY <1>t, <2>1
  <2>11. \A b \in Blobs : \/ blobs'[b] = blobs[b] /\ committed'[b] = committed[b]
                          \/ Described(committed'[b], blobs'[b])
    BY <2>9, <2>10
  <2> QED
    BY <1>s, <2>11 DEF Described
<1> QED
  BY <1>1, <1>2, <1>3, <1>4, <1>5, <1>6, <1>7, <1>8 DEF Step

LEMMA ListInvInductive ==
    ASSUME Env = {}, BlocksOnly
    PROVE  /\ TypeInv /\ BlobRowHasContainer /\ SerialInv /\ CalmInv /\ ListInv
           /\ [Next]_vars
           => ListInv'
<1> SUFFICES ASSUME TypeInv, BlobRowHasContainer, SerialInv, CalmInv, ListInv, [Next]_vars
             PROVE  ListInv'
  OBVIOUS
<1>0. \A s \in Requests : ListRelies(s)
  BY DEF ListInv
<1>1. ASSUME NEW r \in Requests, Start(r) PROVE ListInv'
  <2>1. /\ UNCHANGED <<blobs, staged, committed>>
        /\ UNCHANGED req \/ BeginsWriter(r)
    BY <1>1, StartShape DEF SerialInv
  <2>2. BlockListDescribesContent'
    BY <2>1 DEF ListInv, BlockListDescribesContent
  <2>3. ASSUME NEW s \in Requests, req'[s] = req[s] PROVE ListRelies(s)'
    BY <1>0, <2>1, <2>3 DEF ListRelies
  <2>4. ASSUME BeginsWriter(r) PROVE ListRelies(r)'
    <3>1. /\ req'[r].pc \in StartPC \cup {"gb_open"}
          /\ req'[r].pc # "pb_write"
          /\ req'[r].refs \in BlockLists \cup {<<>>}
      BY <2>4 DEF BeginsWriter, BlocksOnly, StartPC
    <3>2. \A k \in DOMAIN req'[r].refs : req'[r].refs[k].kind # "Committed"
      BY <3>1 DEF BlocksOnly
    <3> QED
      BY <3>1, <3>2 DEF ListRelies, StartPC, PutBlobPC
  <2>5. \A s \in Requests : ListRelies(s)'
    BY <2>1, <2>3, <2>4 DEF BeginsWriter
  <2> QED
    BY <2>2, <2>5 DEF ListInv
<1>2. ASSUME NEW r \in Requests, Step(r) PROVE ListInv'
  BY <1>0, <1>2, StepKeepsListRelies, StepKeepsDescription DEF ListInv
<1>3. ASSUME NEW r \in Requests, Disturbance(r) PROVE ListInv'
  BY <1>3 DEF Disturbance, Fail, Cancel, Drop, SerialInv, AllLive
<1>4. CASE Crash
  BY <1>4 DEF Crash
<1>5. CASE UNCHANGED vars
  BY <1>5 DEF ListInv, ListRelies, BlockListDescribesContent, vars, dbVars
<1> QED
  BY <1>1, <1>2, <1>3, <1>4, <1>5 DEF Next

(* When clients upload by blocks, never name a block as Committed, do not   *)
(* overlap, and nothing fails, the committed block list of every blob has   *)
(* one row per part of its content, in order, each with the size of its     *)
(* part: between put_block_list reading a staged row and opening its file   *)
(* nothing can change the one without the other.                            *)
THEOREM BlockListsDescribeContent ==
    ASSUME Env = {}, BlocksOnly
    PROVE  Spec => []BlockListDescribesContent
<1>1. Init => ListInv
  BY DEF Init, DbInit, ListInv, ListRelies, BlockListDescribesContent, IdleReq, PutBlobPC
<1>2. ListInv => BlockListDescribesContent
  BY DEF ListInv
<1> QED
  BY <1>1, <1>2, ListInvInductive, CalmIsSerial, CalmInvInvariant, SerialInvInvariant, TypeInvInvariant,
     RowsHaveContainers, PTL DEF Spec

-------------------------------------------------------------------------------
(* When nothing fails, every operation takes effect at once.  What a        *)
(* handler is about to do is what one step of the store would do now.       *)

WasCommitted(rows, i) == \E j \in DOMAIN rows : rows[j].id = i

(* How far Put Block List has come in its list. *)
Resolves(rows, res, refs, list) ==
    /\ Len(list) = Len(res) + Len(refs)
    /\ \A k \in 1 .. Len(res) :
         /\ res[k].id = list[k].id
         /\ list[k].kind = "Committed" => WasCommitted(rows, list[k].id)
    /\ \A k \in 1 .. Len(refs) : refs[k] = list[Len(res) + k]

Listed(rows, res, refs) == \E list \in BlockLists : Resolves(rows, res, refs, list)

(* The map of committed blocks has no id that was not committed. *)
Names(rows, comm) == \A i \in BlockIds : comm[i] # None => WasCommitted(rows, i)

(* The parts copied are those staged. *)
Copies(row, res, out) ==
    /\ Len(out) <= Len(res)
    /\ \A k \in 1 .. Len(out) : out[k] = row[res[k].id]

StoreRelies(r) ==
    LET q == req[r] IN
    /\ q.pc = "db_delete" => blobs[q.b] # None
    /\ q.pc \in PutBlobPC => \E body \in Bodies : q.out = <<body>>
    /\ q.pc = "bl_resolve" => Names(committed[q.b], q.comm)
    /\ q.pc \in {"bl_committed", "bl_resolve", "bl_concat", "bl_commit"} => Listed(committed[q.b], q.res, q.refs)
    /\ q.pc \in {"bl_concat", "bl_commit"} => q.refs = <<>> /\ Copies(staged[q.b], q.res, q.out)
    /\ q.pc = "bl_commit" => Len(q.out) = Len(q.res)

StoreInv == \A r \in Requests : StoreRelies(r)

LEMMA CommittedMapNames ==
    ASSUME NEW b, NEW i \in BlockIds, committed_map(b)[i] # None
    PROVE  WasCommitted(committed[b], i)
  BY DEF committed_map, WasCommitted

LEMMA ResolvedEntry ==
    ASSUME NEW ref, NEW s, NEW m, NEW x \in resolve_block(ref, s, m)
    PROVE  x.id = ref.id /\ (ref.kind = "Committed" => m # None)
  BY DEF resolve_block

(* One more entry is resolved. *)
LEMMA ResolvesNext ==
    ASSUME NEW rows, NEW res \in Seq(ResolvedBlock), NEW refs \in Seq(BlockRef), refs # <<>>,
           NEW list, Resolves(rows, res, refs, list), NEW x \in ResolvedBlock, x.id = Head(refs).id,
           Head(refs).kind = "Committed" => WasCommitted(rows, Head(refs).id)
    PROVE  Resolves(rows, Append(res, x), Tail(refs), list)
<1> DEFINE more == Append(res, x)
           rest == Tail(refs)
           m == Len(res)
           n == Len(refs)
<1>1. m \in Nat /\ n \in Nat /\ n # 0
  BY LenProperties, EmptySeq
<1>2. /\ Head(refs) = refs[1] /\ Len(rest) = n - 1
      /\ \A k \in 1 .. n - 1 : rest[k] = refs[k + 1]
  BY HeadTailProperties
<1>3. /\ Len(more) = m + 1
      /\ \A k \in 1 .. m : more[k] = res[k]
      /\ more[m + 1] = x
  BY AppendProperties
<1>4. /\ Len(list) = m + n
      /\ \A k \in 1 .. m :
           /\ res[k].id = list[k].id
           /\ list[k].kind = "Committed" => WasCommitted(rows, list[k].id)
      /\ \A k \in 1 .. n : refs[k] = list[m + k]
  BY DEF Resolves
<1> HIDE DEF more, rest, m, n
<1>5. list[m + 1] = Head(refs)
  BY <1>1, <1>2, <1>4
<1>6. Len(list) = Len(more) + Len(rest)
  BY <1>1, <1>2, <1>3, <1>4
<1>7. ASSUME NEW k \in 1 .. Len(more)
      PROVE  /\ more[k].id = list[k].id
             /\ list[k].kind = "Committed" => WasCommitted(rows, list[k].id)
  <2>1. k \in 1 .. m \/ k = m + 1
    BY <1>1, <1>3
  <2> QED
    BY <1>3, <1>4, <1>5, <2>1
<1>8. ASSUME NEW k \in 1 .. Len(rest)
      PROVE  rest[k] = list[Len(more) + k]
  <2>1. k \in 1 .. n - 1 /\ k + 1 \in 1 .. n /\ m + (k + 1) = Len(more) + k
    BY <1>1, <1>2, <1>3
  <2>2. rest[k] = refs[k + 1]
    BY <1>2, <2>1
  <2>3. refs[k + 1] = list[m + (k + 1)]
    BY <1>4, <2>1
  <2> QED
    BY <2>1, <2>2, <2>3
<1> QED
  BY <1>6, <1>7, <1>8 DEF Resolves, more, rest

(* Put Blob goes on with the body it was sent. *)
LEMMA PutBlobStores ==
    ASSUME TypeInv, SerialInv, NEW r \in Requests, StoreRelies(r), req[r].pc \in PutBlobPC, Step(r)
    PROVE  StoreRelies(r)'
<1> DEFINE q == req[r]
           p(pc) == [q EXCEPT !.pc = pc]
<1>q. q \in Request
  BY Locals DEF TypeInv
<1>0. AllLive
  BY DEF SerialInv
<1>b. q.pc \in PutBlobPC /\ \E body \in Bodies : q.out = <<body>>
  BY DEF StoreRelies
<1> HIDE DEF q
<1>p. \A pc : p(pc).pc = pc /\ p(pc).out = q.out
  BY <1>q DEF Request
<1> HIDE DEF p
<1>1. req'[r] = IdleReq \/ \E pc \in PutBlobPC : req'[r] = p(pc)
  <2>1. End(r) \/ \E pc \in PutBlobPC : Continue(r, p(pc))
    BY <1>b DEF Step, put_blob_write, put_blob_reject, put_blob_upsert, get_blob_open, get_blob_stream,
       delete_blob_delete, delete_blob_committed, delete_blob_staged, delete_blob_unlink,
       put_block_write, put_block_stage, put_block_list_committed, put_block_list_resolve,
       put_block_list_check, put_block_list_part, put_block_list_rename, put_block_list_commit,
       put_block_list_cleanup, delete_container_rows, delete_container_unlink,
       delete_container_rmdir, delete_container_end, NoContainer, Goto, PutBlobPC, q, p
  <2> QED
    BY <1>0, <2>1, Goes, Ends
<1>2. CASE req'[r] = IdleReq
  BY <1>2 DEF StoreRelies, IdleReq, PutBlobPC
<1>3. ASSUME NEW pc \in PutBlobPC, req'[r] = p(pc) PROVE StoreRelies(r)'
  <2>1. req'[r].pc \in PutBlobPC /\ \E body \in Bodies : req'[r].out = <<body>>
    BY <1>3, <1>b, <1>p
  <2> QED
    BY <2>1 DEF StoreRelies, PutBlobPC
<1> QED
  BY <1>1, <1>2, <1>3

(* Put Block List resolves its list entry by entry and copies what is staged. *)
LEMMA PutBlockListStores ==
    ASSUME Env = {}, TypeInv, SerialInv, CalmInv, NEW r \in Requests, StoreRelies(r),
           req[r].pc \in PutBlockListPC, Step(r)
    PROVE  StoreRelies(r)'
<1> DEFINE q == req[r]
<1>q. q \in GoodRequest /\ q \in Request /\ q.refs \in Seq(BlockRef) /\ q.res \in Seq(ResolvedBlock)
  BY Locals DEF TypeInv
<1>0. AllLive /\ OneWriter /\ ReliesOn(r)
  BY DEF SerialInv
<1>k. /\ q.pc = "bl_resolve" => Names(committed[q.b], q.comm)
      /\ q.pc \in {"bl_committed", "bl_resolve", "bl_concat", "bl_commit"} => Listed(committed[q.b], q.res, q.refs)
      /\ q.pc \in {"bl_concat", "bl_commit"} => q.refs = <<>> /\ Copies(staged[q.b], q.res, q.out)
  BY DEF StoreRelies, q
<1>r. q.pc = "bl_concat" => \A k \in DOMAIN q.res : staged[q.b][q.res[k].id] # None
  BY <1>0 DEF ReliesOn, q
<1>p. q.pc \in PutBlockListPC
  OBVIOUS
<1> HIDE DEF q
<1>b. q.b \in Blobs /\ q.c = Home[q.b] /\ q.id = None
  BY <1>p, <1>q, Locals DEF WellFormed, BlobPC, PC, WriterPC, PutBlockPC, PutBlockListPC, DeleteContainerPC
<1>e. ASSUME req'[r].pc \in {"idle", "bl_cleanup"} PROVE StoreRelies(r)'
  BY <1>e DEF StoreRelies, PutBlobPC
<1>i. End(r) => StoreRelies(r)'
  <2> SUFFICES ASSUME End(r) PROVE StoreRelies(r)'
    OBVIOUS
  <2>1. req'[r].pc = "idle"
    BY Ends DEF IdleReq
  <2> QED
    BY <1>e, <2>1
<1> USE DEF dbVars, files
<1>1. CASE put_block_list_committed(r)
  <2> DEFINE comm == committed_map(q.b)
             p == [q EXCEPT !.pc = "bl_resolve", !.comm = comm]
  <2>1. q.pc = "bl_committed" /\ Continue(r, p) /\ UNCHANGED <<staged, committed>>
    BY <1>1 DEF put_block_list_committed, q
  <2>2. p.pc = "bl_resolve" /\ p.b = q.b /\ p.refs = q.refs /\ p.res = q.res /\ p.comm = comm
    BY <1>q DEF Request
  <2> HIDE DEF p, comm
  <2>3. req'[r] = p
    BY <1>0, <2>1, Goes
  <2>4. Listed(committed[q.b], q.res, q.refs)
    BY <1>k, <2>1
  <2>5. Names(committed[q.b], comm)
    BY CommittedMapNames DEF Names, comm
  <2> QED
    BY <2>1, <2>2, <2>3, <2>4, <2>5 DEF StoreRelies, PutBlobPC
<1>2. CASE put_block_list_resolve(r)
  <2> DEFINE ref == Head(q.refs)
             s == staged[q.b][ref.id]
             found == resolve_block(ref, s, q.comm[ref.id])
  <2>1. q.pc = "bl_resolve" /\ q.refs # <<>> /\ UNCHANGED <<staged, committed>>
    BY <1>2 DEF put_block_list_resolve, q
  <2>2. ref.id \in BlockIds
    <3>1. ref \in BlockRef
      BY <1>q, <2>1, HeadTailProperties
    <3> HIDE DEF ref
    <3> QED
      BY <3>1 DEF BlockRef
  <2>3. s \in Bodies \cup {None} /\ q.comm[ref.id] \in Nat \cup {None}
    BY <1>b, <1>q, <2>2, Locals DEF TypeInv, DbTypeOK
  <2>4. ASSUME NEW x \in found, Continue(r, [q EXCEPT !.refs = Tail(@), !.res = Append(@, x)])
        PROVE  StoreRelies(r)'
    <3> DEFINE p == [q EXCEPT !.refs = Tail(@), !.res = Append(@, x)]
               res == Append(q.res, x)
               refs == Tail(q.refs)
    <3>1. p.pc = "bl_resolve" /\ p.b = q.b /\ p.refs = refs /\ p.res = res /\ p.comm = q.comm
      BY <1>q, <2>1 DEF Request
    <3>2. x \in ResolvedBlock
      BY <2>2, <2>3, <2>4, ResolvedType
    <3>3. x.id = ref.id /\ (ref.kind = "Committed" => q.comm[ref.id] # None)
      BY <2>4, ResolvedEntry
    <3>4. ref.kind = "Committed" => WasCommitted(committed[q.b], ref.id)
      BY <1>k, <2>1, <2>2, <3>3 DEF Names
    <3>5. PICK list \in BlockLists : Resolves(committed[q.b], q.res, q.refs, list)
      BY <1>k, <2>1 DEF Listed
    <3>6. Resolves(committed[q.b], res, refs, list)
      BY <1>q, <2>1, <3>2, <3>3, <3>4, <3>5, ResolvesNext
    <3>7. Listed(committed[q.b], res, refs)
      BY <3>6 DEF Listed
    <3> HIDE DEF p, res, refs
    <3>8. req'[r] = p
      BY <1>0, <2>4, Goes DEF p
    <3>9. Listed(committed[q.b], res, refs) /\ Names(committed[q.b], q.comm)
      BY <1>k, <2>1, <3>7 DEF res, refs
    <3> QED
      BY <2>1, <3>1, <3>8, <3>9 DEF StoreRelies, PutBlobPC
  <2> QED
    BY <1>2, <1>i, <2>4 DEF put_block_list_resolve, q
<1>3. CASE put_block_list_check(r)
  <2>1. q.pc = "bl_resolve" /\ q.refs = <<>> /\ UNCHANGED <<staged, committed>>
    BY <1>3 DEF put_block_list_check, q
  <2>2. ASSUME Continue(r, [q EXCEPT !.pc = "bl_concat", !.out = <<>>]) PROVE StoreRelies(r)'
    <3> DEFINE p == [q EXCEPT !.pc = "bl_concat", !.out = <<>>]
    <3>1. p.pc = "bl_concat" /\ p.b = q.b /\ p.res = q.res /\ p.refs = q.refs /\ p.out = <<>>
      BY <1>q DEF Request
    <3> HIDE DEF p
    <3>2. req'[r] = p
      BY <1>0, <2>2, Goes DEF p
    <3>3. Copies(staged[q.b], q.res, p.out)
      BY <1>q, <3>1, LenProperties DEF Copies
    <3>4. Listed(committed[q.b], q.res, q.refs) /\ Copies(staged[q.b], q.res, p.out)
      BY <1>k, <2>1, <3>3
    <3> QED
      BY <2>1, <3>1, <3>2, <3>4 DEF StoreRelies, PutBlobPC
  <2> QED
    BY <1>3, <1>i, <2>2 DEF put_block_list_check, q
<1>4. CASE put_block_list_part(r)
  <2> DEFINE n == Len(q.out) + 1
             part == blockFile[q.b][q.res[n].id]
  <2>1. q.pc = "bl_concat" /\ n <= Len(q.res) /\ UNCHANGED <<staged, committed>>
    BY <1>4 DEF put_block_list_part, q
  <2>2. q.out \in Seq(Bodies)
    BY <1>q, <2>1, Locals DEF WellFormed, Content
  <2>3. n \in DOMAIN q.res /\ Len(q.out) \in Nat /\ Len(q.res) \in Nat
    BY <1>q, <2>1, <2>2, LenProperties
  <2>4. q.res[n].id \in BlockIds
    BY <1>q, <2>3, ResolvedFields
  <2>5. staged[q.b][q.res[n].id] # None
    BY <1>r, <2>1, <2>3
  <2>6. part = staged[q.b][q.res[n].id]
    BY <1>b, <2>1, <2>4, <2>5, PartIsStaged DEF q
  <2>7. ASSUME Continue(r, [q EXCEPT !.out = Append(@, part)]), part # None PROVE StoreRelies(r)'
    <3> DEFINE p == [q EXCEPT !.out = Append(@, part)]
               out == Append(q.out, part)
    <3>1. p.pc = "bl_concat" /\ p.b = q.b /\ p.res = q.res /\ p.refs = q.refs /\ p.out = out
      BY <1>q, <2>1 DEF Request
    <3>2. part \in Bodies
      BY <1>b, <2>4, <2>7 DEF TypeInv
    <3>3. /\ Len(out) = n
          /\ \A k \in 1 .. Len(q.out) : out[k] = q.out[k]
          /\ out[n] = part
      BY <2>2, <3>2, AppendProperties
    <3>4. Copies(staged[q.b], q.res, q.out)
      BY <1>k, <2>1
    <3> HIDE DEF p, out, part
    <3>5. Copies(staged[q.b], q.res, out)
      <4>1. ASSUME NEW k \in 1 .. Len(out) PROVE out[k] = staged[q.b][q.res[k].id]
        <5>1. k \in 1 .. Len(q.out) \/ k = n
          BY <2>3, <3>3
        <5> QED
          BY <2>6, <3>3, <3>4, <5>1 DEF Copies
      <4> QED
        BY <2>1, <3>3, <4>1 DEF Copies
    <3>6. req'[r] = p
      BY <1>0, <2>7, Goes DEF p
    <3>7. Listed(committed[q.b], q.res, q.refs) /\ Copies(staged[q.b], q.res, out) /\ q.refs = <<>>
      BY <1>k, <2>1, <3>5
    <3> QED
      BY <2>1, <3>1, <3>6, <3>7 DEF StoreRelies, PutBlobPC
  <2> QED
    BY <1>4, <1>i, <2>7 DEF put_block_list_part, q
<1>5. CASE put_block_list_rename(r)
  <2> DEFINE p == [q EXCEPT !.pc = "bl_commit"]
  <2>1. /\ q.pc = "bl_concat" /\ Len(q.out) = Len(q.res) /\ Continue(r, p)
        /\ UNCHANGED <<staged, committed>>
    BY <1>5 DEF put_block_list_rename, Goto, q
  <2>2. p.pc = "bl_commit" /\ p.b = q.b /\ p.res = q.res /\ p.refs = q.refs /\ p.out = q.out
    BY <1>q DEF Request
  <2> HIDE DEF p
  <2>3. req'[r] = p
    BY <1>0, <2>1, Goes
  <2>4. Listed(committed[q.b], q.res, q.refs) /\ Copies(staged[q.b], q.res, q.out) /\ q.refs = <<>>
    BY <1>k, <2>1
  <2> QED
    BY <2>1, <2>2, <2>3, <2>4 DEF StoreRelies, PutBlobPC
<1>6. CASE put_block_list_commit(r)
  <2> DEFINE p == [q EXCEPT !.pc = "bl_cleanup"]
  <2>1. End(r) \/ Continue(r, p)
    BY <1>6 DEF put_block_list_commit, Goto, q
  <2>2. p.pc = "bl_cleanup"
    BY <1>q DEF Request
  <2> HIDE DEF p
  <2>3. Continue(r, p) => req'[r].pc = "bl_cleanup"
    BY <1>0, <2>2, Goes
  <2> QED
    BY <1>e, <1>i, <2>1, <2>3
<1>7. CASE put_block_list_cleanup(r)
  <2> DEFINE p(x) == [q EXCEPT !.res = x]
  <2>1. q.pc = "bl_cleanup" /\ (End(r) \/ \E x : Continue(r, p(x)))
    BY <1>7 DEF put_block_list_cleanup, q
  <2>2. \A x : p(x).pc = "bl_cleanup"
    BY <1>q, <2>1 DEF Request
  <2> HIDE DEF p
  <2>3. (\E x : Continue(r, p(x))) => req'[r].pc = "bl_cleanup"
    BY <1>0, <2>2, Goes
  <2> QED
    BY <1>e, <1>i, <2>1, <2>3
<1>8. CASE NoContainer(r)
  BY <1>8, <1>i DEF NoContainer
<1> QED
  BY <1>1, <1>2, <1>3, <1>4, <1>5, <1>6, <1>7, <1>8, <1>p
  DEF Step, q, PutBlockListPC, put_blob_write, put_blob_reject, put_blob_upsert, get_blob_open,
      get_blob_stream, delete_blob_delete, delete_blob_committed, delete_blob_staged,
      delete_blob_unlink, put_block_write, put_block_stage, delete_container_rows,
      delete_container_unlink, delete_container_rmdir, delete_container_end

(* What a handler is about to do is not disturbed by the others. *)
LEMMA StepKeepsStoreInv ==
    ASSUME Env = {}, TypeInv, SerialInv, CalmInv, StoreInv, NEW r \in Requests, Step(r)
    PROVE  StoreInv'
<1>0. AllLive /\ OneWriter /\ StoreRelies(r)
  BY DEF SerialInv, StoreInv
<1>1. StepKeepsScope(r) /\ StepKeepsRest(r)
  BY <1>0, StepScope, StepRest
<1>2. StoreRelies(r)'
  <2>1. CASE req[r].pc \in PutBlockListPC
    BY <1>0, <2>1, PutBlockListStores
  <2>2. CASE req[r].pc \in PutBlobPC
    BY <1>0, <2>2, PutBlobStores
  <2>3. CASE req[r].pc \notin PutBlobPC \cup PutBlockListPC
    <3>1. req'[r].pc \notin PutBlobPC \cup PutBlockListPC \cup {"db_delete"}
      BY <1>0, <2>3, OtherHandlers
    <3> QED
      BY <3>1 DEF StoreRelies, PutBlockListPC
  <2> QED
    BY <2>1, <2>2, <2>3
<1>3. ASSUME NEW s \in Requests \ {r} PROVE StoreRelies(s)'
  <2> DEFINE q == req[s]
             Holds == {"db_delete", "bl_committed", "bl_resolve", "bl_concat", "bl_commit"}
  <2>1. req'[s] = q
    BY <1>1 DEF StepKeepsScope
  <2>2. /\ q.pc = "db_delete" => blobs[q.b] # None
        /\ q.pc \in PutBlobPC => \E body \in Bodies : q.out = <<body>>
        /\ q.pc = "bl_resolve" => Names(committed[q.b], q.comm)
        /\ q.pc \in {"bl_committed", "bl_resolve", "bl_concat", "bl_commit"} => Listed(committed[q.b], q.res, q.refs)
        /\ q.pc \in {"bl_concat", "bl_commit"} => q.refs = <<>> /\ Copies(staged[q.b], q.res, q.out)
        /\ q.pc = "bl_commit" => Len(q.out) = Len(q.res)
    BY DEF StoreInv, StoreRelies
  <2>3. CASE q.pc \in Holds
    <3>1. q.pc \in WriterPC \ (DeleteContainerPC \cup PutBlockPC) /\ q.pc \notin PutBlobPC
      BY <2>3 DEF WriterPC, PutBlobPC, DeleteBlobPC, PutBlockListPC, DeleteContainerPC, PutBlockPC
    <3>2. q.b \in Blobs /\ ~Touches(r, q.b)
      BY <1>0, <3>1, Apart
    <3>3. blobs'[q.b] = blobs[q.b] /\ staged'[q.b] = staged[q.b] /\ committed'[q.b] = committed[q.b]
      BY <1>1, <3>2 DEF StepKeepsRest
    <3> HIDE DEF q
    <3> QED
      BY <2>1, <2>2, <3>1, <3>3 DEF StoreRelies
  <2>4. CASE q.pc \notin Holds
    <3> HIDE DEF q
    <3> QED
      BY <2>1, <2>2, <2>4 DEF StoreRelies
  <2> QED
    BY <2>3, <2>4
<1> QED
  BY <1>2, <1>3 DEF StoreInv

(* Delete Blob between its statements. *)
HalfDeleted == {"db_committed", "db_staged"}

LEMMA StepsIntoDeletion ==
    ASSUME TypeInv, AllLive, NEW r \in Requests, Step(r), req'[r].pc \in HalfDeleted
    PROVE  delete_blob_delete(r) \/ delete_blob_committed(r)
<1> DEFINE q == req[r]
           p(pc) == [q EXCEPT !.pc = pc]
           p1(pc, x) == [q EXCEPT !.pc = pc, !.out = x]
           p2(pc, x) == [q EXCEPT !.pc = pc, !.left = x]
           p3(pc, x) == [q EXCEPT !.pc = pc, !.comm = x]
           p4(x, y) == [q EXCEPT !.refs = x, !.res = y]
           p5(x) == [q EXCEPT !.out = x]
           p6(x) == [q EXCEPT !.res = x]
           Elsewhere == PC \ HalfDeleted
<1>q. q \in Request
  BY Locals DEF TypeInv
<1> HIDE DEF q
<1>1. /\ \A pc : p(pc).pc = pc
      /\ \A pc, x : p1(pc, x).pc = pc /\ p2(pc, x).pc = pc /\ p3(pc, x).pc = pc
      /\ \A x, y : p4(x, y).pc = q.pc
      /\ \A x : p5(x).pc = q.pc /\ p6(x).pc = q.pc
  BY <1>q DEF Request
<1> HIDE DEF p, p1, p2, p3, p4, p5, p6
<1>2. /\ IdleReq.pc \in Elsewhere
      /\ {"pb_reject", "pb_upsert", "gb_stream", "db_unlink", "bk_stage", "bl_resolve", "bl_concat",
          "bl_commit", "bl_cleanup", "dc_unlink", "dc_rmdir"} \subseteq Elsewhere
  BY DEF IdleReq, HalfDeleted, PC, WriterPC, PutBlobPC, GetBlobPC, DeleteBlobPC, PutBlockPC,
     PutBlockListPC, DeleteContainerPC
<1>3. ASSUME \/ End(r)
             \/ \E pc \in Elsewhere : \/ Continue(r, p(pc))
                                      \/ \E x : \/ Continue(r, p1(pc, x)) \/ Continue(r, p2(pc, x))
                                                \/ Continue(r, p3(pc, x))
             \/ q.pc \in Elsewhere /\ \/ UNCHANGED req
                                      \/ \E x, y : Continue(r, p4(x, y))
                                      \/ \E x : Continue(r, p5(x)) \/ Continue(r, p6(x))
      PROVE  FALSE
  <2>1. \/ req'[r] = IdleReq
        \/ \E pc \in Elsewhere : \/ req'[r] = p(pc)
                                 \/ \E x : req'[r] = p1(pc, x) \/ req'[r] = p2(pc, x) \/ req'[r] = p3(pc, x)
        \/ q.pc \in Elsewhere /\ \/ req'[r] = q
                                 \/ \E x, y : req'[r] = p4(x, y)
                                 \/ \E x : req'[r] = p5(x) \/ req'[r] = p6(x)
    BY <1>3, Goes, Ends DEF q
  <2> HIDE DEF Elsewhere
  <2>2. req'[r].pc \in Elsewhere
    BY <1>1, <1>2, <2>1
  <2> QED
    BY <2>2 DEF Elsewhere
<1> HIDE DEF Elsewhere
<1>4. CASE put_blob_write(r) \/ put_blob_reject(r) \/ put_blob_upsert(r) \/ NoContainer(r)
  BY <1>2, <1>3, <1>4 DEF put_blob_write, put_blob_reject, put_blob_upsert, NoContainer, Goto, q, p
<1>5. CASE get_blob_open(r) \/ get_blob_stream(r)
  BY <1>2, <1>3, <1>5 DEF get_blob_open, get_blob_stream, q, p1
<1>6. CASE delete_blob_staged(r) \/ delete_blob_unlink(r)
  BY <1>2, <1>3, <1>6 DEF delete_blob_staged, delete_blob_unlink, Goto, q, p
<1>7. CASE put_block_write(r) \/ put_block_stage(r)
  BY <1>2, <1>3, <1>7 DEF put_block_write, put_block_stage, Goto, q, p
<1>8. CASE put_block_list_committed(r)
  BY <1>2, <1>3, <1>8 DEF put_block_list_committed, q, p3
<1>9. CASE put_block_list_resolve(r)
  BY <1>2, <1>3, <1>9 DEF put_block_list_resolve, q, p4
<1>10. CASE put_block_list_check(r)
  BY <1>2, <1>3, <1>10 DEF put_block_list_check, q, p1
<1>11. CASE put_block_list_part(r) \/ put_block_list_cleanup(r)
  BY <1>2, <1>3, <1>11 DEF put_block_list_part, put_block_list_cleanup, q, p5, p6
<1>12. CASE put_block_list_rename(r) \/ put_block_list_commit(r)
  BY <1>2, <1>3, <1>12 DEF put_block_list_rename, put_block_list_commit, Goto, q, p
<1>13. CASE delete_container_rows(r)
  BY <1>2, <1>3, <1>13 DEF delete_container_rows, q, p2
<1>14. CASE delete_container_unlink(r)
  BY <1>2, <1>3, <1>14 DEF delete_container_unlink, q, p2
<1>15. CASE delete_container_rmdir(r) \/ delete_container_end(r)
  BY <1>2, <1>3, <1>15 DEF delete_container_rmdir, delete_container_end, q
<1> QED
  BY <1>4, <1>5, <1>6, <1>7, <1>8, <1>9, <1>10, <1>11, <1>12, <1>13, <1>14, <1>15 DEF Step

(* A request that does not delete leaves it to the others what is seen. *)
LEMMA SeenByOthers ==
    ASSUME NEW r \in Requests, \A s \in Requests \ {r} : req'[s] = req[s],
           req[r].pc \notin HalfDeleted, req'[r].pc \notin HalfDeleted
    PROVE  \A b : /\ Deleting(b, {"db_committed", "db_staged"})' <=> Deleting(b, {"db_committed", "db_staged"})
                  /\ Deleting(b, {"db_committed"})' <=> Deleting(b, {"db_committed"})
  BY DEF Deleting, HalfDeleted

(* Nobody deletes a blob to which another writes. *)
LEMMA NotHalfDeleted ==
    ASSUME TypeInv, OneWriter, NEW r \in Requests, req[r].pc \in {"bk_stage", "bl_commit"}
    PROVE  /\ ~Deleting(req[r].b, {"db_committed", "db_staged"})
           /\ ~Deleting(req[r].b, {"db_committed"})
<1> SUFFICES ASSUME NEW s \in Requests, req[s].pc \in HalfDeleted, req[s].b = req[r].b
             PROVE  FALSE
  BY DEF Deleting, HalfDeleted
<1>1. /\ req[r].c = Home[req[r].b] /\ req[r].pc \in WriterPC
      /\ req[s].c = Home[req[s].b] /\ req[s].pc \in WriterPC /\ req[s].id = None
  BY Locals DEF TypeInv, WellFormed, BlobPC, PC, WriterPC, DeleteBlobPC, PutBlockPC, PutBlockListPC,
     DeleteContainerPC, HalfDeleted
<1>2. r # s
  BY DEF HalfDeleted
<1> QED
  BY <1>1, <1>2 DEF OneWriter, Clash

(* What Delete Blob itself changes of what is seen. *)
LEMMA SeenDeleting ==
    ASSUME NEW r \in Requests, \A s \in Requests \ {r} : req'[s] = req[s], req'[r].b = req[r].b
    PROVE  \A b :
             /\ b # req[r].b =>
                  /\ Deleting(b, {"db_committed", "db_staged"})' <=> Deleting(b, {"db_committed", "db_staged"})
                  /\ Deleting(b, {"db_committed"})' <=> Deleting(b, {"db_committed"})
             /\ b = req[r].b =>
                  /\ req[r].pc \in HalfDeleted => Deleting(b, {"db_committed", "db_staged"})
                  /\ req'[r].pc \in HalfDeleted => Deleting(b, {"db_committed", "db_staged"})'
                  /\ req[r].pc = "db_committed" => Deleting(b, {"db_committed"})
                  /\ req'[r].pc = "db_committed" => Deleting(b, {"db_committed"})'
             /\ req[r].pc # "db_committed" /\ req'[r].pc # "db_committed" =>
                  (Deleting(b, {"db_committed"})' <=> Deleting(b, {"db_committed"}))
  BY DEF Deleting, HalfDeleted

LEMMA StutterIsUnseen ==
    ASSUME NEW r \in Requests, \A s \in Requests \ {r} : req'[s] = req[s],
           req[r].pc \notin HalfDeleted, req'[r].pc \notin HalfDeleted, UNCHANGED dbVars
    PROVE  UNCHANGED Store!storeVars
<1>1. SeenStaged' = SeenStaged
  BY SeenByOthers DEF SeenStaged, dbVars
<1>2. SeenBlocks' = SeenBlocks
  BY SeenByOthers DEF SeenBlocks, dbVars
<1> QED
  BY <1>1, <1>2 DEF Store!storeVars, dbVars

(* Every step of a handler is a step of the store, or is not seen. *)
LEMMA StepImplements ==
    ASSUME Env = {}, TypeInv, SerialInv, StoreInv, NEW r \in Requests, Step(r)
    PROVE  [Store!Next]_(Store!storeVars)
<1> DEFINE q == req[r]
           Gone(b) == Deleting(b, {"db_committed", "db_staged"})
           Unlisted(b) == Deleting(b, {"db_committed"})
           Ids(rows) == [k \in DOMAIN rows |-> rows[k].id]
<1>0. AllLive /\ OneWriter /\ ReliesOn(r) /\ StoreRelies(r)
  BY DEF SerialInv, StoreInv
<1>q. q \in GoodRequest /\ q \in Request
  BY Locals DEF TypeInv
<1>o. \A s \in Requests \ {r} : req'[s] = req[s]
  BY <1>0, StepScope DEF StepKeepsScope
<1>t. /\ blobs \in [Blobs -> Content \cup {None}]
      /\ staged \in [Blobs -> [BlockIds -> Bodies \cup {None}]]
      /\ committed \in [Blobs -> Seq(CommittedBlockRow)]
  BY DEF TypeInv, DbTypeOK
<1>s. /\ SeenStaged = [b \in Blobs |-> IF Gone(b) THEN NoBlocks ELSE staged[b]]
      /\ SeenStaged' = [b \in Blobs |-> IF Gone(b)' THEN NoBlocks ELSE staged'[b]]
      /\ SeenBlocks = [b \in Blobs |-> IF Unlisted(b) THEN <<>> ELSE Ids(committed[b])]
      /\ SeenBlocks' = [b \in Blobs |-> IF Unlisted(b)' THEN <<>> ELSE Ids(committed'[b])]
  BY DEF SeenStaged, SeenBlocks, NoBlocks
<1>b. q.pc \in WriterPC \ DeleteContainerPC =>
        /\ q.b \in Blobs /\ q.c = Home[q.b]
        /\ q.pc \in PutBlockPC => q.id \in BlockIds /\ q.body \in Bodies
  BY <1>q, Locals DEF WellFormed, BlobPC, PC, WriterPC, PutBlobPC, DeleteBlobPC, PutBlockPC,
     PutBlockListPC, DeleteContainerPC
<1>n. Store!NoBlocks = NoBlocks
  BY DEF Store!NoBlocks, NoBlocks
<1> HIDE DEF q
(* The steps of the others' kind. *)
<1>g. ASSUME q.pc \notin HalfDeleted, q.pc # "db_delete"
      PROVE  /\ req'[r].pc \notin HalfDeleted
             /\ \A b : Gone(b)' = Gone(b) /\ Unlisted(b)' = Unlisted(b)
             /\ UNCHANGED dbVars => UNCHANGED Store!storeVars
  <2>1. req'[r].pc \notin HalfDeleted
    BY <1>0, <1>g, StepsIntoDeletion DEF delete_blob_delete, delete_blob_committed, HalfDeleted, q
  <2>2. \A b : (Gone(b)' <=> Gone(b)) /\ (Unlisted(b)' <=> Unlisted(b))
    BY <1>g, <1>o, <2>1, SeenByOthers DEF q
  <2>3. \A b : Gone(b)' = Gone(b) /\ Unlisted(b)' = Unlisted(b)
    BY <2>2 DEF Deleting
  <2>4. UNCHANGED dbVars => UNCHANGED Store!storeVars
    BY <1>g, <1>o, <2>1, StutterIsUnseen DEF q
  <2> QED
    BY <2>1, <2>3, <2>4
<1> HIDE DEF Gone, Unlisted, Ids
<1>1. CASE \/ put_blob_write(r) \/ put_blob_reject(r) \/ get_blob_open(r) \/ get_blob_stream(r)
           \/ delete_blob_unlink(r) \/ put_block_write(r) \/ NoContainer(r)
           \/ put_block_list_committed(r) \/ put_block_list_resolve(r) \/ put_block_list_check(r)
           \/ put_block_list_part(r) \/ put_block_list_rename(r) \/ put_block_list_cleanup(r)
           \/ delete_container_unlink(r) \/ delete_container_rmdir(r) \/ delete_container_end(r)
  <2>1. UNCHANGED dbVars
    BY <1>1 DEF put_blob_write, put_blob_reject, get_blob_open, get_blob_stream, delete_blob_unlink,
       put_block_write, NoContainer, put_block_list_committed, put_block_list_resolve,
       put_block_list_check, put_block_list_part, put_block_list_rename, put_block_list_cleanup,
       delete_container_unlink, delete_container_rmdir, delete_container_end
  <2>2. q.pc \notin HalfDeleted /\ q.pc # "db_delete"
    BY <1>1 DEF put_blob_write, put_blob_reject, get_blob_open, get_blob_stream, delete_blob_unlink,
       put_block_write, NoContainer, put_block_list_committed, put_block_list_resolve,
       put_block_list_check, put_block_list_part, put_block_list_rename, put_block_list_cleanup,
       delete_container_unlink, delete_container_rmdir, delete_container_end, HalfDeleted, q
  <2> QED
    BY <1>g, <2>1, <2>2
<1>2. CASE put_blob_upsert(r)
  <2>1. /\ q.pc = "pb_upsert" /\ Home[q.b] \in containers
        /\ blobs' = [blobs EXCEPT ![q.b] = q.out]
        /\ UNCHANGED <<containers, staged, committed>>
    BY <1>2 DEF put_blob_upsert, foreign_key, upsert_blob, q
  <2>2. q.b \in Blobs
    BY <1>b, <2>1 DEF WriterPC, PutBlobPC, DeleteContainerPC
  <2>3. PICK body \in Bodies : q.out = <<body>>
    BY <1>0, <2>1 DEF StoreRelies, PutBlobPC, q
  <2>4. UNCHANGED <<SeenStaged, SeenBlocks>>
    BY <1>g, <1>s, <2>1 DEF HalfDeleted
  <2>5. Store!PutBlob(q.b, body)
    BY <2>1, <2>3, <2>4 DEF Store!PutBlob
  <2> QED
    BY <2>2, <2>5 DEF Store!Next
<1>3. CASE put_block_stage(r)
  <2>1. /\ q.pc = "bk_stage"
        /\ staged' = [staged EXCEPT ![q.b][q.id] = q.body]
        /\ UNCHANGED <<containers, blobs, committed>>
    BY <1>3 DEF put_block_stage, stage_block, q
  <2>2. q.b \in Blobs /\ q.c = Home[q.b] /\ q.id \in BlockIds /\ q.body \in Bodies
    BY <1>b, <2>1 DEF WriterPC, PutBlockPC, DeleteContainerPC
  <2>3. Home[q.b] \in containers
    BY <1>0, <2>1, <2>2 DEF ReliesOn, WriterPC, PutBlockPC, EmptiedPC, q
  <2>4. ~Gone(q.b)
    BY <1>0, <2>1, NotHalfDeleted DEF q, Gone
  <2>5. \A b : Gone(b)' = Gone(b) /\ Unlisted(b)' = Unlisted(b)
    BY <1>g, <2>1 DEF HalfDeleted
  <2>6. UNCHANGED SeenBlocks
    BY <1>s, <2>1, <2>5
  <2>7. SeenStaged' = [SeenStaged EXCEPT ![q.b][q.id] = q.body]
    BY <1>s, <1>t, <2>1, <2>2, <2>4, <2>5
  <2>8. Store!PutBlock(q.b, q.id, q.body)
    BY <2>1, <2>3, <2>6, <2>7 DEF Store!PutBlock
  <2> QED
    BY <2>2, <2>8 DEF Store!Next
<1>4. CASE delete_container_rows(r)
  <2>1. q.pc = "dc_tx" /\ delete_container_tx(q.c)
    BY <1>4 DEF delete_container_rows, q
  <2>2. q.c \in containers /\ q.c \in Containers
    BY <1>0, <2>1 DEF ReliesOn, WriterPC, DeleteContainerPC, EmptiedPC, q, TypeInv, DbTypeOK
  <2>3. \A b : Gone(b)' = Gone(b) /\ Unlisted(b)' = Unlisted(b)
    BY <1>g, <2>1 DEF HalfDeleted
  <2>4. /\ \A b \in Blobs : staged'[b] = IF Home[b] = q.c THEN NoBlocks ELSE staged[b]
        /\ \A b \in Blobs : committed'[b] = IF Home[b] = q.c THEN <<>> ELSE committed[b]
    BY <2>1 DEF delete_container_tx
  <2>5. SeenStaged' = [b \in Blobs |-> IF Home[b] = q.c THEN NoBlocks ELSE SeenStaged[b]]
    BY <1>s, <2>3, <2>4
  <2>6. Ids(<<>>) = <<>>
    BY DEF Ids
  <2>7. SeenBlocks' = [b \in Blobs |-> IF Home[b] = q.c THEN <<>> ELSE SeenBlocks[b]]
    BY <1>s, <2>3, <2>4, <2>6
  <2>8. Store!DeleteContainer(q.c)
    BY <1>n, <2>1, <2>2, <2>5, <2>7 DEF Store!DeleteContainer, delete_container_tx
  <2> QED
    BY <2>2, <2>8 DEF Store!Next
<1>5. CASE put_block_list_commit(r)
  <2> DEFINE rows == [k \in DOMAIN q.res |-> [id |-> q.res[k].id, size |-> q.res[k].size]]
  <2>1. /\ q.pc = "bl_commit" /\ Home[q.b] \in containers
        /\ blobs' = [blobs EXCEPT ![q.b] = q.out]
        /\ committed' = [committed EXCEPT ![q.b] = rows]
        /\ staged' = [staged EXCEPT ![q.b] = NoBlocks]
        /\ UNCHANGED containers
    BY <1>5 DEF put_block_list_commit, foreign_key, commit_block_list_tx, q
  <2>2. q.b \in Blobs /\ q.out \in Seq(Bodies) /\ q.res \in Seq(ResolvedBlock)
    BY <1>b, <1>q, <2>1, Locals DEF WriterPC, PutBlockListPC, DeleteContainerPC, WellFormed, Content
  <2>3. ~Gone(q.b) /\ ~Unlisted(q.b)
    BY <1>0, <2>1, NotHalfDeleted DEF q, Gone, Unlisted
  <2>4. \A b : Gone(b)' = Gone(b) /\ Unlisted(b)' = Unlisted(b)
    BY <1>g, <2>1 DEF HalfDeleted
  <2>5. /\ Listed(committed[q.b], q.res, <<>>) /\ Copies(staged[q.b], q.res, q.out)
        /\ Len(q.out) = Len(q.res)
    BY <1>0, <2>1 DEF StoreRelies, q
  <2>6. PICK list \in BlockLists : Resolves(committed[q.b], q.res, <<>>, list)
    BY <2>5 DEF Listed
  <2>7. /\ DOMAIN list = 1 .. Len(q.res) /\ DOMAIN q.out = 1 .. Len(q.res)
        /\ DOMAIN q.res = 1 .. Len(q.res)
    <3>1. Len(<<>>) = 0 /\ Len(list) = Len(q.res) + Len(<<>>) /\ Len(q.res) \in Nat
      BY <2>2, <2>6, LenProperties, EmptySeq DEF Resolves
    <3>2. list \in Seq(BlockRef)
      BY BlockListsAssumption
    <3>3. DOMAIN list = 1 .. Len(list) /\ DOMAIN q.out = 1 .. Len(q.out) /\ DOMAIN q.res = 1 .. Len(q.res)
      BY <2>2, <3>2, LenProperties
    <3> QED
      BY <2>5, <3>1, <3>3
  <2>8. ASSUME NEW k \in DOMAIN list
        PROVE  /\ q.res[k].id = list[k].id
               /\ q.out[k] = staged[q.b][list[k].id] /\ q.out[k] # None
               /\ list[k].kind = "Committed" => WasCommitted(committed[q.b], list[k].id)
    <3>1. /\ q.res[k].id = list[k].id
          /\ list[k].kind = "Committed" => WasCommitted(committed[q.b], list[k].id)
      BY <2>6, <2>7 DEF Resolves
    <3>2. q.out[k] = staged[q.b][q.res[k].id]
      BY <2>5, <2>7 DEF Copies
    <3>3. q.out[k] \in Bodies
      BY <2>2, <2>7, ElementOfSeq, LenProperties
    <3> QED
      BY <3>1, <3>2, <3>3, NoneAssumption
  <2>9. SeenStaged[q.b] = staged[q.b] /\ SeenBlocks[q.b] = Ids(committed[q.b])
    BY <1>s, <2>2, <2>3
  <2>10. q.out = [k \in DOMAIN list |-> SeenStaged[q.b][list[k].id]]
    <3>1. q.out = [k \in DOMAIN q.out |-> q.out[k]]
      BY <2>2
    <3> QED
      BY <2>7, <2>8, <2>9, <3>1
  <2>11. Ids(rows) = [k \in DOMAIN list |-> list[k].id]
    BY <2>7, <2>8 DEF Ids
  <2>12. \A k \in DOMAIN list :
           /\ SeenStaged[q.b][list[k].id] # None
           /\ list[k].kind = "Committed" => \E j \in DOMAIN SeenBlocks[q.b] : SeenBlocks[q.b][j] = list[k].id
    BY <2>8, <2>9 DEF WasCommitted, Ids
  <2> HIDE DEF rows
  <2>13. SeenStaged' = [SeenStaged EXCEPT ![q.b] = NoBlocks]
    BY <1>s, <1>t, <2>1, <2>4
  <2>14. SeenBlocks' = [SeenBlocks EXCEPT ![q.b] = Ids(rows)]
    BY <1>s, <1>t, <2>1, <2>3, <2>4
  <2>15. Store!PutBlockList(q.b, list)
    BY <1>n, <2>1, <2>10, <2>11, <2>12, <2>13, <2>14 DEF Store!PutBlockList
  <2> QED
    BY <2>2, <2>15 DEF Store!Next
(* Delete Blob.  Where another request is, it stays. *)
<1> DEFINE p(pc) == [q EXCEPT !.pc = pc]
<1>p. \A pc : p(pc).pc = pc /\ p(pc).b = q.b
  BY <1>q DEF Request
<1> HIDE DEF p
<1>e. Ids(<<>>) = <<>>
  BY DEF Ids
<1>6. CASE delete_blob_delete(r)
  <2>1. /\ q.pc = "db_delete" /\ Continue(r, p("db_committed"))
        /\ blobs' = [blobs EXCEPT ![q.b] = None]
        /\ UNCHANGED <<containers, staged, committed>>
    BY <1>6 DEF delete_blob_delete, delete_blob_row, Goto, q, p
  <2>2. req'[r].pc = "db_committed" /\ req'[r].b = q.b
    BY <1>0, <1>p, <2>1, Goes
  <2>3. q.b \in Blobs /\ blobs[q.b] # None
    BY <1>0, <1>b, <2>1 DEF WriterPC, DeleteBlobPC, DeleteContainerPC, StoreRelies, q
  <2>4. \A b : /\ b = q.b => Gone(b)' /\ Unlisted(b)'
               /\ b # q.b => (Gone(b)' <=> Gone(b)) /\ (Unlisted(b)' <=> Unlisted(b))
    BY <1>o, <2>1, <2>2, SeenDeleting DEF q, Gone, Unlisted, HalfDeleted
  <2>5. SeenStaged' = [SeenStaged EXCEPT ![q.b] = NoBlocks]
    BY <1>s, <2>1, <2>4
  <2>6. SeenBlocks' = [SeenBlocks EXCEPT ![q.b] = <<>>]
    BY <1>s, <2>1, <2>4
  <2>7. Store!DeleteBlob(q.b)
    BY <1>n, <2>1, <2>3, <2>5, <2>6 DEF Store!DeleteBlob
  <2> QED
    BY <2>3, <2>7 DEF Store!Next
<1>7. CASE delete_blob_committed(r)
  <2>1. /\ q.pc = "db_committed" /\ Continue(r, p("db_staged"))
        /\ committed' = [committed EXCEPT ![q.b] = <<>>]
        /\ UNCHANGED <<containers, blobs, staged>>
    BY <1>7 DEF delete_blob_committed, delete_committed_blocks, Goto, q, p
  <2>2. req'[r].pc = "db_staged" /\ req'[r].b = q.b
    BY <1>0, <1>p, <2>1, Goes
  <2>3. \A b : /\ b = q.b => Gone(b) /\ Gone(b)' /\ Unlisted(b)
               /\ b # q.b => (Gone(b)' <=> Gone(b)) /\ (Unlisted(b)' <=> Unlisted(b))
    BY <1>o, <2>1, <2>2, SeenDeleting DEF q, Gone, Unlisted, HalfDeleted
  <2>4. SeenStaged' = SeenStaged
    BY <1>s, <2>1, <2>3
  <2>5. SeenBlocks' = SeenBlocks
    <3>1. \A b \in Blobs : /\ b = q.b => committed'[b] = <<>>
                           /\ b # q.b => committed'[b] = committed[b]
      BY <1>t, <2>1
    <3> QED
      BY <1>e, <1>s, <2>3, <3>1
  <2> QED
    BY <2>1, <2>4, <2>5 DEF Store!storeVars
<1>8. CASE delete_blob_staged(r)
  <2>1. /\ q.pc = "db_staged" /\ Continue(r, p("db_unlink"))
        /\ staged' = [staged EXCEPT ![q.b] = NoBlocks]
        /\ UNCHANGED <<containers, blobs, committed>>
    BY <1>8 DEF delete_blob_staged, delete_staged_blocks, Goto, q, p
  <2>2. req'[r].pc = "db_unlink" /\ req'[r].b = q.b
    BY <1>0, <1>p, <2>1, Goes
  <2>3. \A b : /\ b = q.b => Gone(b)
               /\ b # q.b => (Gone(b)' <=> Gone(b))
               /\ Unlisted(b)' <=> Unlisted(b)
    BY <1>o, <2>1, <2>2, SeenDeleting DEF q, Gone, Unlisted, HalfDeleted
  <2>4. SeenBlocks' = SeenBlocks
    BY <1>s, <2>1, <2>3
  <2>5. SeenStaged' = SeenStaged
    <3>1. \A b \in Blobs : /\ b = q.b => staged'[b] = NoBlocks
                           /\ b # q.b => staged'[b] = staged[b]
      BY <1>t, <2>1
    <3> QED
      BY <1>s, <2>3, <3>1
  <2> QED
    BY <2>1, <2>4, <2>5 DEF Store!storeVars
<1> QED
  BY <1>1, <1>2, <1>3, <1>4, <1>5, <1>6, <1>7, <1>8 DEF Step

LEMMA StoreInvInductive ==
    ASSUME Env = {}
    PROVE  /\ TypeInv /\ BlobRowHasContainer /\ SerialInv /\ CalmInv /\ StoreInv
           /\ [Next]_vars
           => StoreInv' /\ [Store!Next]_(Store!storeVars)
<1> SUFFICES ASSUME TypeInv, BlobRowHasContainer, SerialInv, CalmInv, StoreInv, [Next]_vars
             PROVE  StoreInv' /\ [Store!Next]_(Store!storeVars)
  OBVIOUS
<1>1. ASSUME NEW r \in Requests, Start(r) PROVE StoreInv' /\ [Store!Next]_(Store!storeVars)
  <2>1. /\ UNCHANGED <<blobs, staged, committed>>
        /\ UNCHANGED req \/ BeginsWriter(r)
    BY <1>1, StartShape DEF SerialInv
  <2>2. ASSUME NEW s \in Requests, req'[s] = req[s] PROVE StoreRelies(s)'
    BY <2>1, <2>2 DEF StoreInv, StoreRelies
  <2>3. ASSUME BeginsWriter(r) PROVE StoreRelies(r)'
    <3> DEFINE l == req'[r]
    <3>1. /\ l.pc \in StartPC \cup {"gb_open"}
          /\ l.pc = "bl_committed" => l.refs \in BlockLists /\ l.res = <<>>
          /\ l.pc = "pb_write" => \E body \in Bodies : l.out = <<body>>
          /\ l.pc = "db_delete" => blobs[l.b] # None
      BY <2>3 DEF BeginsWriter
    <3> HIDE DEF l
    <3>2. l.pc = "bl_committed" => Listed(committed[l.b], l.res, l.refs)
      <4> SUFFICES ASSUME l.refs \in BlockLists, l.res = <<>> PROVE Listed(committed[l.b], l.res, l.refs)
        BY <3>1
      <4>1. l.refs \in Seq(BlockRef) /\ Len(<<>>) = 0
        BY BlockListsAssumption
      <4>2. Len(l.refs) \in Nat
        BY <4>1, LenProperties
      <4>3. Resolves(committed[l.b], <<>>, l.refs, l.refs)
        BY <4>1, <4>2 DEF Resolves
      <4> QED
        BY <4>3 DEF Listed
    <3> QED
      BY <2>1, <3>1, <3>2 DEF StoreRelies, StartPC, PutBlobPC, l
  <2>4. StoreInv'
    BY <2>1, <2>2, <2>3 DEF BeginsWriter, StoreInv
  <2>5. (\A s \in Requests \ {r} : req'[s] = req[s]) /\ req[r].pc = "idle" /\ req'[r].pc \notin HalfDeleted
    BY <1>1, <2>1 DEF BeginsWriter, StartPC, HalfDeleted, Start, put_blob, get_blob, delete_blob, put_block,
       put_block_list, create_container, delete_container, Begin
  <2>6. \A b : /\ Deleting(b, {"db_committed", "db_staged"})' <=> Deleting(b, {"db_committed", "db_staged"})
               /\ Deleting(b, {"db_committed"})' <=> Deleting(b, {"db_committed"})
    BY <2>5, SeenByOthers DEF HalfDeleted
  <2>7. UNCHANGED <<blobs, SeenStaged, SeenBlocks>>
    BY <2>1, <2>6 DEF SeenStaged, SeenBlocks
  <2>8. UNCHANGED containers \/ \E c \in Containers : c \notin containers /\ containers' = containers \cup {c}
    BY <1>1 DEF Start, put_blob, get_blob, delete_blob, put_block, put_block_list, create_container,
       delete_container, insert_container, dbVars
  <2>9. [Store!Next]_(Store!storeVars)
    BY <2>7, <2>8 DEF Store!Next, Store!CreateContainer, Store!storeVars
  <2> QED
    BY <2>4, <2>9
<1>2. ASSUME NEW r \in Requests, Step(r) PROVE StoreInv' /\ [Store!Next]_(Store!storeVars)
  BY <1>2, StepKeepsStoreInv, StepImplements
<1>3. ASSUME NEW r \in Requests, Disturbance(r) PROVE FALSE
  BY <1>3 DEF Disturbance, Fail, Cancel, Drop, SerialInv, AllLive
<1>4. ~Crash
  BY DEF Crash
<1>5. CASE UNCHANGED vars
  <2>1. StoreInv'
    BY <1>5 DEF StoreInv, StoreRelies, vars, dbVars
  <2>2. UNCHANGED Store!storeVars
    BY <1>5 DEF Store!storeVars, SeenStaged, SeenBlocks, Deleting, vars, dbVars
  <2> QED
    BY <2>1, <2>2
<1> QED
  BY <1>1, <1>2, <1>3, <1>4, <1>5 DEF Next

(* When clients do not overlap and nothing fails, the backend is a store in *)
(* which every operation takes effect at once, however many statements and  *)
(* file operations it takes and however requests interleave: Put Block List *)
(* commits the blocks staged at its commit, in the order of its list, and   *)
(* Delete Blob and Delete Container take the blocks along.                  *)
THEOREM BackendImplementsStore ==
    ASSUME Env = {}
    PROVE  Spec => ImplementsStore
<1>1. Init => StoreInv
  BY DEF Init, DbInit, StoreInv, StoreRelies, IdleReq, PutBlobPC
<1>2. Init => Store!Init
  <2> SUFFICES ASSUME Init PROVE Store!Init
    OBVIOUS
  <2>1. \A b : /\ ~Deleting(b, {"db_committed", "db_staged"})
               /\ ~Deleting(b, {"db_committed"})
    BY DEF Init, Deleting, IdleReq
  <2>2. SeenStaged = [b \in Blobs |-> NoBlocks]
    BY <2>1 DEF SeenStaged, Init, DbInit
  <2>3. SeenBlocks = [b \in Blobs |-> <<>>]
    BY <2>1 DEF SeenBlocks, Init, DbInit
  <2> QED
    BY <2>2, <2>3 DEF Store!Init, Store!NoBlocks, NoBlocks, Init, DbInit
<1> QED
  BY <1>1, <1>2, StoreInvInductive, CalmIsSerial, CalmInvInvariant, SerialInvInvariant, TypeInvInvariant,
     RowsHaveContainers, PTL DEF Spec, Store!Spec, ImplementsStore
===============================================================================
