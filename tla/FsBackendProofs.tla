---------------------------- MODULE FsBackendProofs ---------------------------
(***************************************************************************)
(* Theorems about FsBackend, for any number of containers, blobs, blocks,  *)
(* bodies and requests, and for the surroundings Env each one names.       *)
(***************************************************************************)
EXTENDS FsBackend, SequenceTheorems, TLAPS

-------------------------------------------------------------------------------
(* Type correctness needs to know, besides the types, which of a handler's *)
(* locals are set at which await.                                          *)

BlobPC == PC \ ({"idle"} \cup DeleteContainerPC)

WellFormed(q) ==
    /\ q.pc \in BlobPC => q.b \in Blobs /\ q.c = Home[q.b]
    /\ q.pc \in DeleteContainerPC => q.b = None /\ q.c \in Containers /\ q.left \subseteq BlobsOf(q.c)
    /\ q.pc \in PutBlockPC => q.id \in BlockIds /\ q.body \in Bodies
    /\ q.pc \notin PutBlockPC => q.id = None
    /\ q.pc \in PutBlobPC \cup {"bl_concat", "bl_commit"} => q.out \in Content
    /\ q.pc = "bl_cleanup" => q.res # <<>>
    /\ q.pc = "idle" => q.b = None /\ q.left = {}

GoodRequest == {q \in Request : WellFormed(q)}

TypeInv ==
    /\ DbTypeOK
    /\ blobFile \in [Blobs -> Content \cup {None}]
    /\ blockFile \in [Blobs -> [BlockIds -> Bodies \cup {None}]]
    /\ req \in [Requests -> GoodRequest]
    /\ renamed \in [Blobs -> SUBSET Content]
    /\ dirty \subseteq Blobs

LEMMA IdleIsGood == IdleReq \in GoodRequest
<1>1. IdleReq \in Request
  BY DEF IdleReq, Request, PC, NoBlocks, Content
<1>2. WellFormed(IdleReq)
  BY DEF IdleReq, WellFormed, BlobPC, PC, PutBlobPC, PutBlockPC, DeleteContainerPC
<1> QED
  BY <1>1, <1>2 DEF GoodRequest

(* A handler that moves to another await with the locals that await needs, *)
(* or ends.                                                                *)
LEMMA ContinueIsGood ==
    ASSUME req \in [Requests -> GoodRequest], NEW r \in Requests,
           NEW locals \in GoodRequest, Begin(r, locals) \/ Continue(r, locals)
    PROVE  req' \in [Requests -> GoodRequest]
  BY IdleIsGood DEF Begin, Continue

LEMMA EndIsGood ==
    ASSUME req \in [Requests -> GoodRequest], NEW r \in Requests, End(r)
    PROVE  req' \in [Requests -> GoodRequest]
  BY IdleIsGood DEF End

-------------------------------------------------------------------------------
(* The locals each await starts with. *)

LEMMA StartLocals ==
    ASSUME NEW b \in Blobs
    PROVE  /\ \A out \in Content, bad \in BOOLEAN :
                [IdleReq EXCEPT !.pc = "pb_write", !.c = Home[b], !.b = b,
                                !.bad = bad, !.out = out] \in GoodRequest
           /\ \A row \in Content :
                [IdleReq EXCEPT !.pc = "gb_open", !.c = Home[b], !.b = b,
                                !.row = row] \in GoodRequest
           /\ [IdleReq EXCEPT !.pc = "db_delete", !.c = Home[b], !.b = b] \in GoodRequest
           /\ \A i \in BlockIds, body \in Bodies :
                [IdleReq EXCEPT !.pc = "bk_write", !.c = Home[b], !.b = b,
                                !.id = i, !.body = body] \in GoodRequest
           /\ \A refs \in BlockLists :
                [IdleReq EXCEPT !.pc = "bl_committed", !.c = Home[b], !.b = b,
                                !.refs = refs] \in GoodRequest
<1>1. IdleReq \in GoodRequest /\ IdleReq.pc = "idle"
  BY IdleIsGood DEF IdleReq
<1> HIDE DEF IdleReq
<1> USE <1>1, HomeAssumption, BlockListsAssumption
    DEF GoodRequest, WellFormed, BlobPC, PC, WriterPC, PutBlobPC, GetBlobPC, DeleteBlobPC,
        PutBlockPC, PutBlockListPC, DeleteContainerPC, Request, Content
<1>2. \A out \in Content, bad \in BOOLEAN :
        [IdleReq EXCEPT !.pc = "pb_write", !.c = Home[b], !.b = b,
                        !.bad = bad, !.out = out] \in GoodRequest
  OBVIOUS
<1>3. \A row \in Content :
        [IdleReq EXCEPT !.pc = "gb_open", !.c = Home[b], !.b = b,
                        !.row = row] \in GoodRequest
  OBVIOUS
<1>4. [IdleReq EXCEPT !.pc = "db_delete", !.c = Home[b], !.b = b] \in GoodRequest
  OBVIOUS
<1>5. \A i \in BlockIds, body \in Bodies :
        [IdleReq EXCEPT !.pc = "bk_write", !.c = Home[b], !.b = b,
                        !.id = i, !.body = body] \in GoodRequest
  OBVIOUS
<1>6. \A refs \in BlockLists :
        [IdleReq EXCEPT !.pc = "bl_committed", !.c = Home[b], !.b = b,
                        !.refs = refs] \in GoodRequest
  OBVIOUS
<1> HIDE DEF GoodRequest
<1> QED
  BY <1>2, <1>3, <1>4, <1>5, <1>6

LEMMA ContainerLocals ==
    ASSUME NEW c \in Containers
    PROVE  [IdleReq EXCEPT !.pc = "dc_tx", !.c = c] \in GoodRequest
<1>1. IdleReq \in GoodRequest /\ IdleReq.pc = "idle"
  BY IdleIsGood DEF IdleReq
<1> HIDE DEF IdleReq
<1> QED
  BY <1>1
  DEF GoodRequest, WellFormed, BlobPC, PC, WriterPC, PutBlobPC, GetBlobPC, DeleteBlobPC,
      PutBlockPC, PutBlockListPC, DeleteContainerPC, Request

(* The locals a handler goes on with. *)
LEMMA StepLocals ==
    ASSUME NEW q \in GoodRequest
    PROVE  /\ q.pc = "pb_write" => \A pc \in {"pb_reject", "pb_upsert"} :
                [q EXCEPT !.pc = pc] \in GoodRequest
           /\ q.pc = "gb_open" => \A out \in Content :
                [q EXCEPT !.pc = "gb_stream", !.out = out] \in GoodRequest
           /\ q.pc = "db_delete" => [q EXCEPT !.pc = "db_committed"] \in GoodRequest
           /\ q.pc = "db_committed" => [q EXCEPT !.pc = "db_staged"] \in GoodRequest
           /\ q.pc = "db_staged" => [q EXCEPT !.pc = "db_unlink"] \in GoodRequest
           /\ q.pc = "bk_write" => [q EXCEPT !.pc = "bk_stage"] \in GoodRequest
           /\ q.pc = "bl_committed" => \A comm \in [BlockIds -> Nat \cup {None}] :
                [q EXCEPT !.pc = "bl_resolve", !.comm = comm] \in GoodRequest
           /\ q.pc = "bl_resolve" => \A refs \in Seq(BlockRef), res \in Seq(ResolvedBlock) :
                [q EXCEPT !.refs = refs, !.res = res] \in GoodRequest
           /\ q.pc = "bl_resolve" =>
                [q EXCEPT !.pc = "bl_concat", !.out = <<>>] \in GoodRequest
           /\ q.pc = "bl_concat" => \A out \in Content :
                [q EXCEPT !.out = out] \in GoodRequest
           /\ q.pc = "bl_concat" => [q EXCEPT !.pc = "bl_commit"] \in GoodRequest
           /\ q.pc = "bl_commit" /\ q.res # <<>> =>
                [q EXCEPT !.pc = "bl_cleanup"] \in GoodRequest
           /\ q.pc = "bl_cleanup" => \A res \in Seq(ResolvedBlock) \ {<<>>} :
                [q EXCEPT !.res = res] \in GoodRequest
           /\ q.pc \in DeleteContainerPC => \A pc \in DeleteContainerPC, left \in SUBSET BlobsOf(q.c) :
                [q EXCEPT !.pc = pc, !.left = left] \in GoodRequest
           /\ q.live => [q EXCEPT !.live = FALSE] \in GoodRequest
<1> USE DEF GoodRequest, WellFormed, BlobPC, PC, WriterPC, PutBlobPC, GetBlobPC, DeleteBlobPC,
        PutBlockPC, PutBlockListPC, DeleteContainerPC, Request, Content, BlobsOf
<1>1. q.pc = "pb_write" => \A pc \in {"pb_reject", "pb_upsert"} :
       [q EXCEPT !.pc = pc] \in GoodRequest
  OBVIOUS
<1>2. q.pc = "gb_open" => \A out \in Content :
       [q EXCEPT !.pc = "gb_stream", !.out = out] \in GoodRequest
  OBVIOUS
<1>3. q.pc = "db_delete" => [q EXCEPT !.pc = "db_committed"] \in GoodRequest
  OBVIOUS
<1>4. q.pc = "db_committed" => [q EXCEPT !.pc = "db_staged"] \in GoodRequest
  OBVIOUS
<1>5. q.pc = "db_staged" => [q EXCEPT !.pc = "db_unlink"] \in GoodRequest
  OBVIOUS
<1>6. q.pc = "bk_write" => [q EXCEPT !.pc = "bk_stage"] \in GoodRequest
  OBVIOUS
<1>7. q.pc = "bl_committed" => \A comm \in [BlockIds -> Nat \cup {None}] :
       [q EXCEPT !.pc = "bl_resolve", !.comm = comm] \in GoodRequest
  OBVIOUS
<1>8. q.pc = "bl_resolve" => \A refs \in Seq(BlockRef), res \in Seq(ResolvedBlock) :
       [q EXCEPT !.refs = refs, !.res = res] \in GoodRequest
  OBVIOUS
<1>9. q.pc = "bl_resolve" =>
       [q EXCEPT !.pc = "bl_concat", !.out = <<>>] \in GoodRequest
  BY EmptySeq
<1>10. q.pc = "bl_concat" => \A out \in Content :
       [q EXCEPT !.out = out] \in GoodRequest
  OBVIOUS
<1>11. q.pc = "bl_concat" => [q EXCEPT !.pc = "bl_commit"] \in GoodRequest
  OBVIOUS
<1>12. q.pc = "bl_commit" /\ q.res # <<>> =>
       [q EXCEPT !.pc = "bl_cleanup"] \in GoodRequest
  OBVIOUS
<1>13. q.pc = "bl_cleanup" => \A res \in Seq(ResolvedBlock) \ {<<>>} :
       [q EXCEPT !.res = res] \in GoodRequest
  OBVIOUS
<1>14. q.pc \in DeleteContainerPC => \A pc \in DeleteContainerPC, left \in SUBSET BlobsOf(q.c) :
       [q EXCEPT !.pc = pc, !.left = left] \in GoodRequest
  OBVIOUS
<1>15. q.live => [q EXCEPT !.live = FALSE] \in GoodRequest
  OBVIOUS
<1> HIDE DEF GoodRequest
<1> QED
  BY <1>1, <1>2, <1>3, <1>4, <1>5, <1>6, <1>7, <1>8, <1>9, <1>10, <1>11, <1>12, <1>13, <1>14, <1>15

(* What is known of a handler's locals, field by field. *)
LEMMA Locals ==
    ASSUME NEW q \in GoodRequest
    PROVE  /\ q \in Request
           /\ WellFormed(q)
           /\ q.pc \in PC
           /\ q.b \in Blobs \cup {None}
           /\ q.c \in Containers \cup {None}
           /\ q.body \in Bodies \cup {None}
           /\ q.comm \in [BlockIds -> Nat \cup {None}]
           /\ q.refs \in Seq(BlockRef)
           /\ q.res \in Seq(ResolvedBlock)
           /\ q.live \in BOOLEAN
  BY DEF GoodRequest, Request

LEMMA CommittedMapType ==
    ASSUME DbTypeOK, NEW b \in Blobs
    PROVE  committed_map(b) \in [BlockIds -> Nat \cup {None}]
<1> DEFINE rows == committed[b]
           Last(i) == {k \in DOMAIN rows : /\ rows[k].id = i
                                           /\ \A j \in DOMAIN rows : rows[j].id = i => j <= k}
           m == [i \in BlockIds |->
                   IF Last(i) = {} THEN None ELSE rows[CHOOSE k \in Last(i) : TRUE].size]
<1>1. rows \in Seq(CommittedBlockRow)
  BY DEF DbTypeOK
<1>2. \A k \in DOMAIN rows : rows[k].size \in Nat
  <2>1. rows \in [1 .. Len(rows) -> CommittedBlockRow]
    BY <1>1, LenProperties
  <2> HIDE DEF rows
  <2> QED
    BY <2>1 DEF CommittedBlockRow
<1>3. \A i \in BlockIds : Last(i) # {} => (CHOOSE k \in Last(i) : TRUE) \in DOMAIN rows
  OBVIOUS
<1>4. m \in [BlockIds -> Nat \cup {None}]
  <2> HIDE DEF rows, Last
  <2> QED
    BY <1>2, <1>3
<1> QED
  BY <1>4 DEF committed_map

-------------------------------------------------------------------------------
(* Every action keeps the types. *)

LEMMA StartKeepsTypes ==
    ASSUME TypeInv, NEW r \in Requests, Start(r)
    PROVE  TypeInv'
<1> USE DEF TypeInv
<1>1. CASE put_blob(r)
  <2>1. PICK b \in Blobs, body \in Bodies, bad \in BOOLEAN :
          Begin(r, [IdleReq EXCEPT !.pc = "pb_write", !.c = Home[b], !.b = b,
                                   !.bad = bad, !.out = <<body>>])
    BY <1>1 DEF put_blob
  <2>2. <<body>> \in Content
    BY DEF Content
  <2>3. req' \in [Requests -> GoodRequest]
    BY <2>1, <2>2, StartLocals, ContinueIsGood
  <2> QED
    BY <1>1, <2>3 DEF put_blob, dbVars, files, history, DbTypeOK
<1>2. CASE get_blob(r)
  <2>1. PICK b \in Blobs :
          /\ blobs[b] # None
          /\ Begin(r, [IdleReq EXCEPT !.pc = "gb_open", !.c = Home[b], !.b = b, !.row = blobs[b]])
    BY <1>2 DEF get_blob
  <2>2. blobs[b] \in Content
    BY <2>1 DEF DbTypeOK
  <2>3. req' \in [Requests -> GoodRequest]
    BY <2>1, <2>2, StartLocals, ContinueIsGood
  <2> QED
    BY <1>2, <2>3 DEF get_blob, dbVars, files, history, DbTypeOK
<1>3. CASE delete_blob(r)
  <2>1. PICK b \in Blobs :
          Begin(r, [IdleReq EXCEPT !.pc = "db_delete", !.c = Home[b], !.b = b])
    BY <1>3 DEF delete_blob
  <2>2. req' \in [Requests -> GoodRequest]
    BY <2>1, StartLocals, ContinueIsGood
  <2> QED
    BY <1>3, <2>2 DEF delete_blob, dbVars, files, history, DbTypeOK
<1>4. CASE put_block(r)
  <2>1. PICK b \in Blobs, i \in BlockIds, body \in Bodies :
          Begin(r, [IdleReq EXCEPT !.pc = "bk_write", !.c = Home[b], !.b = b,
                                   !.id = i, !.body = body])
    BY <1>4 DEF put_block
  <2>2. req' \in [Requests -> GoodRequest]
    BY <2>1, StartLocals, ContinueIsGood
  <2> QED
    BY <1>4, <2>2 DEF put_block, dbVars, files, history, DbTypeOK
<1>5. CASE put_block_list(r)
  <2>1. PICK b \in Blobs, refs \in BlockLists :
          Begin(r, [IdleReq EXCEPT !.pc = "bl_committed", !.c = Home[b], !.b = b, !.refs = refs])
    BY <1>5 DEF put_block_list
  <2>2. req' \in [Requests -> GoodRequest]
    BY <2>1, StartLocals, ContinueIsGood
  <2> QED
    BY <1>5, <2>2 DEF put_block_list, dbVars, files, history, DbTypeOK
<1>6. CASE create_container(r)
  BY <1>6 DEF create_container, insert_container, files, history, DbTypeOK
<1>7. CASE delete_container(r)
  <2>1. PICK c \in containers : Begin(r, [IdleReq EXCEPT !.pc = "dc_tx", !.c = c])
    BY <1>7 DEF delete_container
  <2>2. c \in Containers
    BY DEF DbTypeOK
  <2>3. req' \in [Requests -> GoodRequest]
    BY <2>1, <2>2, ContainerLocals, ContinueIsGood
  <2> QED
    BY <1>7, <2>3 DEF delete_container, dbVars, files, history, DbTypeOK
<1> QED
  BY <1>1, <1>2, <1>3, <1>4, <1>5, <1>6, <1>7 DEF Start

LEMMA BlobStepsKeepTypes ==
    ASSUME TypeInv, NEW r \in Requests,
           \/ put_blob_write(r) \/ put_blob_reject(r) \/ put_blob_upsert(r)
           \/ get_blob_open(r) \/ get_blob_stream(r)
           \/ delete_blob_delete(r) \/ delete_blob_committed(r)
           \/ delete_blob_staged(r) \/ delete_blob_unlink(r)
    PROVE  TypeInv'
<1> DEFINE q == req[r]
<1>q. q \in GoodRequest
  BY DEF TypeInv
<1> HIDE DEF q
<1> USE DEF TypeInv, DbTypeOK, dbVars, files, history
<1>1. CASE put_blob_write(r)
  <2>1. q.pc = "pb_write" /\ Goto(r, IF q.bad THEN "pb_reject" ELSE "pb_upsert")
    BY <1>1 DEF put_blob_write, q
  <2>2. req' \in [Requests -> GoodRequest]
    BY <1>q, <2>1, StepLocals, ContinueIsGood DEF Goto, q
  <2>3. q.b \in Blobs /\ q.out \in Content
    BY <1>q, <2>1, Locals DEF WellFormed, BlobPC, PC, WriterPC, PutBlobPC, DeleteContainerPC
  <2>4. /\ blobFile' = [blobFile EXCEPT ![q.b] = q.out]
        /\ renamed' = [renamed EXCEPT ![q.b] = @ \cup {q.out}]
        /\ dirty' = dirty \cup {q.b}
        /\ UNCHANGED <<dbVars, blockFile>>
    BY <1>1 DEF put_blob_write, replace_blob_file, q
  <2> QED
    BY <2>2, <2>3, <2>4
<1>2. CASE put_blob_reject(r)
  BY <1>2, EndIsGood DEF put_blob_reject, unlink_blob
<1>3. CASE put_blob_upsert(r)
  <2>1. q.pc = "pb_upsert"
    BY <1>3 DEF put_blob_upsert, q
  <2>2. q.out \in Content
    BY <1>q, <2>1, Locals DEF WellFormed, PutBlobPC
  <2>3. req' \in [Requests -> GoodRequest]
    BY <1>3, EndIsGood DEF put_blob_upsert
  <2>4. /\ blobs' = [blobs EXCEPT ![q.b] = q.out]
        /\ dirty' = dirty \ {q.b}
        /\ UNCHANGED <<containers, staged, committed, files, renamed>>
    BY <1>3 DEF put_blob_upsert, upsert_blob, q
  <2> QED
    BY <2>2, <2>3, <2>4
<1>4. CASE get_blob_open(r)
  <2>1. q.pc = "gb_open" /\ q.b \in Blobs
    BY <1>4, <1>q, Locals
    DEF get_blob_open, q, WellFormed, BlobPC, PC, GetBlobPC, DeleteContainerPC
  <2>2. req' \in [Requests -> GoodRequest]
    <3>1. CASE End(r)
      BY <3>1, EndIsGood
    <3>2. CASE /\ blobFile[q.b] # None
               /\ Continue(r, [q EXCEPT !.pc = "gb_stream", !.out = blobFile[q.b]])
      <4>1. blobFile[q.b] \in Content
        BY <2>1, <3>2
      <4> QED
        BY <1>q, <2>1, <3>2, <4>1, StepLocals, ContinueIsGood
    <3> QED
      BY <1>4, <3>1, <3>2 DEF get_blob_open, q
  <2> QED
    BY <1>4, <2>2 DEF get_blob_open
<1>5. CASE get_blob_stream(r)
  BY <1>5, EndIsGood DEF get_blob_stream
<1>6. CASE delete_blob_delete(r)
  <2>1. req' \in [Requests -> GoodRequest]
    BY <1>6, <1>q, StepLocals, ContinueIsGood DEF delete_blob_delete, Goto, q
  <2> QED
    BY <1>6, <2>1 DEF delete_blob_delete, delete_blob_row
<1>7. CASE delete_blob_committed(r)
  <2>1. req' \in [Requests -> GoodRequest]
    BY <1>7, <1>q, StepLocals, ContinueIsGood DEF delete_blob_committed, Goto, q
  <2>2. <<>> \in Seq(CommittedBlockRow)
    BY EmptySeq
  <2>3. UNCHANGED <<containers, blobs, staged, files, history>>
    BY <1>7 DEF delete_blob_committed, delete_committed_blocks
  <2>4. committed' = [committed EXCEPT ![req[r].b] = <<>>] \/ UNCHANGED committed
    BY <1>7 DEF delete_blob_committed, delete_committed_blocks
  <2> QED
    BY <2>1, <2>2, <2>3, <2>4
<1>8. CASE delete_blob_staged(r)
  <2>1. req' \in [Requests -> GoodRequest]
    BY <1>8, <1>q, StepLocals, ContinueIsGood DEF delete_blob_staged, Goto, q
  <2>2. NoBlocks \in [BlockIds -> Bodies \cup {None}]
    BY DEF NoBlocks
  <2>3. UNCHANGED <<containers, blobs, committed, files, history>>
    BY <1>8 DEF delete_blob_staged, delete_staged_blocks
  <2>4. staged' = [staged EXCEPT ![req[r].b] = NoBlocks] \/ UNCHANGED staged
    BY <1>8 DEF delete_blob_staged, delete_staged_blocks
  <2> QED
    BY <2>1, <2>2, <2>3, <2>4
<1>9. CASE delete_blob_unlink(r)
  BY <1>9, EndIsGood DEF delete_blob_unlink, unlink_blob
<1> QED
  BY <1>1, <1>2, <1>3, <1>4, <1>5, <1>6, <1>7, <1>8, <1>9

(* What an entry resolves to. *)
LEMMA ResolvedType ==
    ASSUME NEW ref, ref.id \in BlockIds, NEW s \in Bodies \cup {None}, NEW m \in Nat \cup {None}
    PROVE  \A x \in resolve_block(ref, s, m) : x \in ResolvedBlock
<1>1. ASSUME NEW x \in resolve_block(ref, s, m)
      PROVE  \/ s # None /\ x = [id |-> ref.id, size |-> Size[s], has |-> TRUE]
             \/ m # None /\ \E h \in BOOLEAN : x = [id |-> ref.id, size |-> m, has |-> h]
  BY <1>1 DEF resolve_block
<1>2. /\ s # None => Size[s] \in Nat
      /\ m # None => m \in Nat
  BY SizeAssumption
<1>3. ASSUME NEW n \in Nat, NEW h \in BOOLEAN
      PROVE  [id |-> ref.id, size |-> n, has |-> h] \in ResolvedBlock
  BY DEF ResolvedBlock
<1> QED
  BY <1>1, <1>2, <1>3, Zenon

LEMMA BlockStepsKeepTypes ==
    ASSUME TypeInv, NEW r \in Requests,
           \/ put_block_write(r) \/ put_block_stage(r)
           \/ put_block_list_committed(r) \/ put_block_list_resolve(r) \/ put_block_list_check(r)
           \/ put_block_list_part(r) \/ put_block_list_rename(r) \/ put_block_list_commit(r)
           \/ put_block_list_cleanup(r)
    PROVE  TypeInv'
<1> DEFINE q == req[r]
<1>q. q \in GoodRequest
  BY DEF TypeInv
<1> HIDE DEF q
<1>n. NoBlocks \in [BlockIds -> Bodies \cup {None}] /\ NoBlocks \in [BlockIds -> Nat \cup {None}]
  BY DEF NoBlocks
<1>b. q.pc \in PutBlockListPC => q.b \in Blobs
  BY <1>q, Locals
  DEF WellFormed, BlobPC, PC, WriterPC, PutBlockListPC, DeleteContainerPC
<1> USE DEF TypeInv, DbTypeOK, dbVars, files, history
<1>1. CASE put_block_write(r)
  <2>1. req' \in [Requests -> GoodRequest]
    BY <1>1, <1>q, StepLocals, ContinueIsGood DEF put_block_write, Goto, q
  <2>2. q.body \in Bodies \cup {None}
    BY <1>q, Locals
  <2>3. /\ blockFile' = [blockFile EXCEPT ![q.b][q.id] = q.body]
        /\ UNCHANGED <<dbVars, blobFile, history>>
    BY <1>1 DEF put_block_write, q
  <2> QED
    BY <2>1, <2>2, <2>3
<1>2. CASE put_block_stage(r)
  <2>1. req' \in [Requests -> GoodRequest]
    BY <1>2, EndIsGood DEF put_block_stage
  <2>2. q.body \in Bodies \cup {None}
    BY <1>q, Locals
  <2>3. /\ staged' = [staged EXCEPT ![q.b][q.id] = q.body]
        /\ UNCHANGED <<containers, blobs, committed, files, history>>
    BY <1>2 DEF put_block_stage, stage_block, q
  <2> QED
    BY <2>1, <2>2, <2>3
<1>3. CASE put_block_list_committed(r)
  <2>1. q.pc = "bl_committed" /\ q.b \in Blobs
    BY <1>3, <1>b DEF put_block_list_committed, q, PutBlockListPC
  <2>2. PICK comm \in {committed_map(q.b), NoBlocks} :
          Continue(r, [q EXCEPT !.pc = "bl_resolve", !.comm = comm])
    BY <1>3 DEF put_block_list_committed, q
  <2>3. comm \in [BlockIds -> Nat \cup {None}]
    BY <1>n, <2>1, <2>2, CommittedMapType
  <2>4. req' \in [Requests -> GoodRequest]
    BY <1>q, <2>1, <2>2, <2>3, StepLocals, ContinueIsGood
  <2> QED
    BY <1>3, <2>4 DEF put_block_list_committed
<1>4. CASE put_block_list_resolve(r)
  <2> DEFINE ref == Head(q.refs)
             found == resolve_block(ref, staged[q.b][ref.id], q.comm[ref.id])
  <2>1. q.pc = "bl_resolve" /\ q.refs # <<>> /\ q.b \in Blobs
    BY <1>4, <1>b DEF put_block_list_resolve, q, PutBlockListPC
  <2>2. ref \in BlockRef /\ Tail(q.refs) \in Seq(BlockRef)
    BY <1>q, <2>1, Locals, HeadTailProperties
  <2>3. \A x \in found : x \in ResolvedBlock
    <3>1. ref.id \in BlockIds
      BY <2>2 DEF BlockRef
    <3>2. /\ staged[q.b][ref.id] \in Bodies \cup {None}
          /\ q.comm[ref.id] \in Nat \cup {None}
      BY <1>q, <2>1, <3>1, Locals
    <3> QED
      BY <3>1, <3>2, ResolvedType
  <2> HIDE DEF found
  <2>4. ASSUME NEW x \in found,
               Continue(r, [q EXCEPT !.refs = Tail(@), !.res = Append(@, x)])
        PROVE  req' \in [Requests -> GoodRequest]
    <3>1. Append(q.res, x) \in Seq(ResolvedBlock)
      BY <1>q, <2>3, Locals, AppendProperties
    <3> QED
      BY <1>q, <2>1, <2>2, <2>4, <3>1, StepLocals, ContinueIsGood
  <2>5. req' \in [Requests -> GoodRequest]
    BY <1>4, <2>4, EndIsGood DEF put_block_list_resolve, q, found
  <2> QED
    BY <1>4, <2>5 DEF put_block_list_resolve
<1>5. CASE put_block_list_check(r)
  <2>1. req' \in [Requests -> GoodRequest]
    BY <1>5, <1>q, StepLocals, ContinueIsGood, EndIsGood DEF put_block_list_check, q
  <2> QED
    BY <1>5, <2>1 DEF put_block_list_check
<1>6. CASE put_block_list_part(r)
  <2> DEFINE k == Len(q.out) + 1
             part == blockFile[q.b][q.res[k].id]
  <2>1. q.pc = "bl_concat" /\ k <= Len(q.res) /\ q.b \in Blobs
    BY <1>6, <1>b DEF put_block_list_part, q, PutBlockListPC
  <2>2. q.out \in Seq(Bodies) /\ q.res \in Seq(ResolvedBlock)
    BY <1>q, <2>1, Locals DEF WellFormed, Content
  <2>3. q.res[k] \in ResolvedBlock
    BY <2>1, <2>2, ElementOfSeq, LenProperties
  <2>4. part \in Bodies \cup {None}
    BY <2>1, <2>3 DEF ResolvedBlock
  <2> HIDE DEF part
  <2>5. ASSUME part # None, Continue(r, [q EXCEPT !.out = Append(@, part)])
        PROVE  req' \in [Requests -> GoodRequest]
    <3>1. Append(q.out, part) \in Content
      BY <2>2, <2>4, <2>5, AppendProperties DEF Content
    <3> QED
      BY <1>q, <2>1, <2>5, <3>1, StepLocals, ContinueIsGood
  <2>6. req' \in [Requests -> GoodRequest]
    BY <1>6, <2>5, EndIsGood DEF put_block_list_part, q, part
  <2> QED
    BY <1>6, <2>6 DEF put_block_list_part
<1>7. CASE put_block_list_rename(r)
  <2>1. q.pc = "bl_concat" /\ q.b \in Blobs
    BY <1>7, <1>b DEF put_block_list_rename, q, PutBlockListPC
  <2>2. req' \in [Requests -> GoodRequest]
    BY <1>7, <1>q, StepLocals, ContinueIsGood DEF put_block_list_rename, Goto, q
  <2>3. q.out \in Content
    BY <1>q, <2>1, Locals DEF WellFormed
  <2>4. /\ blobFile' = [blobFile EXCEPT ![q.b] = q.out]
        /\ renamed' = [renamed EXCEPT ![q.b] = @ \cup {q.out}]
        /\ dirty' = dirty \cup {q.b}
        /\ UNCHANGED <<dbVars, blockFile>>
    BY <1>7 DEF put_block_list_rename, replace_blob_file, q
  <2> QED
    BY <2>1, <2>2, <2>3, <2>4
<1>8. CASE put_block_list_commit(r)
  <2> DEFINE rows == [k \in DOMAIN q.res |-> [id |-> q.res[k].id, size |-> q.res[k].size]]
  <2>1. q.pc = "bl_commit" /\ q.b \in Blobs
    BY <1>8, <1>b DEF put_block_list_commit, q, PutBlockListPC
  <2>2. q.out \in Content /\ q.res \in Seq(ResolvedBlock)
    BY <1>q, <2>1, Locals DEF WellFormed
  <2>3. rows \in Seq(CommittedBlockRow) /\ DOMAIN rows = 1 .. Len(q.res)
    <3>1. q.res \in [1 .. Len(q.res) -> ResolvedBlock] /\ Len(q.res) \in Nat
      BY <2>2, LenProperties
    <3>2. \A k \in 1 .. Len(q.res) :
            [id |-> q.res[k].id, size |-> q.res[k].size] \in CommittedBlockRow
      BY <3>1 DEF ResolvedBlock, CommittedBlockRow
    <3>3. rows \in [1 .. Len(q.res) -> CommittedBlockRow]
      BY <3>1, <3>2
    <3> HIDE DEF rows
    <3>4. rows \in UNION {[1 .. n -> CommittedBlockRow] : n \in Nat}
      BY <3>1, <3>3
    <3> QED
      BY <3>3, <3>4, SeqDef
  <2>4. rows # <<>> => q.res # <<>>
    BY <2>2, <2>3, EmptySeq, LenProperties
  <2> HIDE DEF rows
  <2>5. req' \in [Requests -> GoodRequest]
    BY <1>8, <1>q, <2>4, StepLocals, ContinueIsGood, EndIsGood
    DEF put_block_list_commit, Goto, q, rows
  <2>6. /\ committed' = [committed EXCEPT ![q.b] = rows]
        /\ blobs' = [blobs EXCEPT ![q.b] = q.out]
        /\ staged' = [staged EXCEPT ![q.b] = NoBlocks]
        /\ dirty' = dirty \ {q.b}
        /\ UNCHANGED <<containers, files, renamed>>
    BY <1>8 DEF put_block_list_commit, commit_block_list_tx, q, rows
  <2> QED
    BY <1>n, <2>2, <2>3, <2>5, <2>6
<1>9. CASE put_block_list_cleanup(r)
  <2>1. q.pc = "bl_cleanup" /\ q.res # <<>> /\ q.res \in Seq(ResolvedBlock)
    BY <1>9, <1>q, Locals DEF put_block_list_cleanup, q, WellFormed
  <2>2. Len(q.res) # 1 => Tail(q.res) \in Seq(ResolvedBlock) \ {<<>>}
    <3>1. Len(q.res) \in Nat \ {0}
      BY <2>1, EmptySeq
    <3>2. Tail(q.res) \in Seq(ResolvedBlock) /\ Len(Tail(q.res)) = Len(q.res) - 1
      BY <2>1, HeadTailProperties
    <3> DEFINE t == Tail(q.res)
    <3> HIDE DEF t
    <3>3. t = <<>> => Len(t) = 0
      BY EmptySeq, Zenon
    <3>4. Len(q.res) # 1 => t # <<>>
      BY <3>1, <3>2, <3>3 DEF t
    <3> QED
      BY <3>2, <3>4 DEF t
  <2>3. req' \in [Requests -> GoodRequest]
    BY <1>9, <1>q, <2>1, <2>2, StepLocals, ContinueIsGood, EndIsGood
    DEF put_block_list_cleanup, q
  <2>4. \/ blockFile' = [blockFile EXCEPT ![q.b][Head(q.res).id] = None]
        \/ UNCHANGED blockFile
    BY <1>9 DEF put_block_list_cleanup, unlink_block, q
  <2>5. UNCHANGED <<dbVars, blobFile, history>>
    BY <1>9 DEF put_block_list_cleanup
  <2>6. blockFile' \in [Blobs -> [BlockIds -> Bodies \cup {None}]]
    <3>1. \A b, i : [blockFile EXCEPT ![b][i] = None] \in [Blobs -> [BlockIds -> Bodies \cup {None}]]
      OBVIOUS
    <3>2. CASE blockFile' = [blockFile EXCEPT ![q.b][Head(q.res).id] = None]
      BY <3>1, <3>2, Zenon
    <3>3. CASE UNCHANGED blockFile
      BY <3>3
    <3> QED
      BY <2>4, <3>2, <3>3
  <2> QED
    BY <2>3, <2>5, <2>6
<1> QED
  BY <1>1, <1>2, <1>3, <1>4, <1>5, <1>6, <1>7, <1>8, <1>9

LEMMA ContainerStepsKeepTypes ==
    ASSUME TypeInv, NEW r \in Requests,
           \/ delete_container_rows(r) \/ delete_container_unlink(r)
           \/ delete_container_rmdir(r) \/ delete_container_end(r)
    PROVE  TypeInv'
<1> DEFINE q == req[r]
<1>q. q \in GoodRequest
  BY DEF TypeInv
<1> HIDE DEF q
<1> USE DEF TypeInv, DbTypeOK, dbVars, files, history
<1>1. CASE delete_container_rows(r)
  <2> DEFINE rows == {b \in BlobsOf(q.c) : blobs[b] # None}
  <2>1. q.pc = "dc_tx" /\ rows \in SUBSET BlobsOf(q.c)
    BY <1>1 DEF delete_container_rows, q
  <2> HIDE DEF rows
  <2>2. Continue(r, [q EXCEPT !.pc = IF rows = {} THEN "dc_rmdir" ELSE "dc_unlink", !.left = rows])
    BY <1>1 DEF delete_container_rows, q, rows
  <2>3. req' \in [Requests -> GoodRequest]
    BY <1>q, <2>1, <2>2, StepLocals, ContinueIsGood DEF DeleteContainerPC
  <2>4. <<>> \in Seq(CommittedBlockRow) /\ NoBlocks \in [BlockIds -> Bodies \cup {None}]
    BY EmptySeq DEF NoBlocks
  <2> QED
    BY <1>1, <2>3, <2>4 DEF delete_container_rows, delete_container_tx
<1>2. CASE delete_container_unlink(r)
  <2>1. PICK b \in q.left :
          /\ unlink_blob(b)
          /\ Continue(r, [q EXCEPT !.pc = IF q.left = {b} THEN "dc_rmdir" ELSE "dc_unlink",
                                   !.left = @ \ {b}])
    BY <1>2 DEF delete_container_unlink, q
  <2>2. q.pc = "dc_unlink" /\ q.left \ {b} \in SUBSET BlobsOf(q.c)
    BY <1>2, <1>q, Locals DEF delete_container_unlink, q, WellFormed, DeleteContainerPC
  <2>3. req' \in [Requests -> GoodRequest]
    BY <1>q, <2>1, <2>2, StepLocals, ContinueIsGood DEF DeleteContainerPC
  <2> QED
    BY <1>2, <2>1, <2>3 DEF delete_container_unlink, unlink_blob
<1>3. CASE delete_container_rmdir(r)
  <2>1. UNCHANGED <<dbVars, req, history>>
    BY <1>3 DEF delete_container_rmdir
  <2>2. PICK b \in Blobs :
          \/ blobFile' = [blobFile EXCEPT ![b] = None] /\ UNCHANGED blockFile
          \/ \E i \in BlockIds : /\ blockFile' = [blockFile EXCEPT ![b][i] = None]
                                 /\ UNCHANGED blobFile
    BY <1>3 DEF delete_container_rmdir, BlobsOf
  <2>3. blobFile' \in [Blobs -> Content \cup {None}]
    BY <2>2
  <2>4. \A i : [blockFile EXCEPT ![b][i] = None] \in [Blobs -> [BlockIds -> Bodies \cup {None}]]
    OBVIOUS
  <2>5. blockFile' \in [Blobs -> [BlockIds -> Bodies \cup {None}]]
    <3>1. ASSUME NEW i, blockFile' = [blockFile EXCEPT ![b][i] = None]
          PROVE  blockFile' \in [Blobs -> [BlockIds -> Bodies \cup {None}]]
      BY <2>4, <3>1, Zenon
    <3>2. CASE UNCHANGED blockFile
      BY <3>2
    <3> QED
      BY <2>2, <3>1, <3>2
  <2> QED
    BY <2>1, <2>3, <2>5
<1>4. CASE delete_container_end(r)
  BY <1>4, EndIsGood DEF delete_container_end
<1> QED
  BY <1>1, <1>2, <1>3, <1>4

LEMMA DisturbancesKeepTypes ==
    ASSUME TypeInv, NEW r \in Requests, NoContainer(r) \/ Disturbance(r)
    PROVE  TypeInv'
<1> USE DEF TypeInv, DbTypeOK, dbVars, files, history
<1>1. CASE NoContainer(r) \/ Fail(r) \/ Drop(r)
  BY <1>1, EndIsGood DEF NoContainer, Fail, Drop
<1>2. CASE Cancel(r)
  <2>1. req[r].live /\ req' = [req EXCEPT ![r] = [req[r] EXCEPT !.live = FALSE]]
    BY <1>2 DEF Cancel
  <2>2. [req[r] EXCEPT !.live = FALSE] \in GoodRequest
    BY <2>1, StepLocals
  <2>3. req' \in [Requests -> GoodRequest]
    BY <2>1, <2>2
  <2> QED
    BY <1>2, <2>3 DEF Cancel
<1> QED
  BY <1>1, <1>2 DEF Disturbance

LEMMA TypeInvInductive == TypeInv /\ [Next]_vars => TypeInv'
<1> SUFFICES ASSUME TypeInv, [Next]_vars
             PROVE  TypeInv'
  OBVIOUS
<1>1. ASSUME NEW r \in Requests, Start(r) PROVE TypeInv'
  BY <1>1, StartKeepsTypes
<1>2. ASSUME NEW r \in Requests, Step(r) PROVE TypeInv'
  BY <1>2, BlobStepsKeepTypes, BlockStepsKeepTypes, ContainerStepsKeepTypes,
     DisturbancesKeepTypes DEF Step
<1>3. ASSUME NEW r \in Requests, Disturbance(r) PROVE TypeInv'
  BY <1>3, DisturbancesKeepTypes
<1>4. CASE Crash
  <2>1. [s \in Requests |-> IdleReq] \in [Requests -> GoodRequest]
    BY IdleIsGood
  <2> QED
    BY <1>4, <2>1 DEF Crash, TypeInv, DbTypeOK, dbVars, files, history
<1>5. CASE UNCHANGED vars
  BY <1>5 DEF vars, TypeInv, DbTypeOK, dbVars, files, history
<1> QED
  BY <1>1, <1>2, <1>3, <1>4, <1>5 DEF Next

LEMMA TypeInvInit == Init => TypeInv
<1> SUFFICES ASSUME Init PROVE TypeInv
  OBVIOUS
<1>1. <<>> \in Seq(CommittedBlockRow) /\ NoBlocks \in [BlockIds -> Bodies \cup {None}]
  BY EmptySeq DEF NoBlocks
<1> QED
  BY <1>1, IdleIsGood DEF Init, DbInit, TypeInv, DbTypeOK

LEMMA TypeInvInvariant == Spec => []TypeInv
  BY TypeInvInit, TypeInvInductive, PTL DEF Spec

(* Tables, files and handlers' locals keep their types, whatever happens.  *)
(* In particular Put Block List never assembles from a missing part.       *)
THEOREM TypeCorrect == Spec => []TypeOK
<1>1. TypeInv => TypeOK
  BY DEF TypeInv, TypeOK, GoodRequest
<1> QED
  BY <1>1, TypeInvInvariant, PTL

-------------------------------------------------------------------------------
(* The foreign key at work. *)

(* Which actions change the rows of containers and blobs. *)
LEMMA NextRows ==
    ASSUME [Next]_vars
    PROVE  \/ UNCHANGED <<containers, blobs>>
           \/ \E r \in Requests : \/ create_container(r)
                                  \/ put_blob_upsert(r)
                                  \/ put_block_list_commit(r)
                                  \/ delete_blob_delete(r)
                                  \/ delete_container_rows(r)
  BY DEF Next, Start, Step, Disturbance, vars, dbVars,
     put_blob, get_blob, delete_blob, put_block, put_block_list, delete_container,
     put_blob_write, put_blob_reject, get_blob_open, get_blob_stream,
     delete_blob_committed, delete_committed_blocks, delete_blob_staged, delete_staged_blocks,
     delete_blob_unlink, put_block_write, put_block_stage, stage_block,
     put_block_list_committed, put_block_list_resolve, put_block_list_check,
     put_block_list_part, put_block_list_rename, put_block_list_cleanup,
     delete_container_unlink, delete_container_rmdir, delete_container_end,
     NoContainer, Fail, Cancel, Drop, Crash

(* No blobs row outlives its container, however uploads, commits and       *)
(* Delete Container interleave.                                            *)
THEOREM RowsHaveContainers == Spec => []BlobRowHasContainer
<1>1. Init => BlobRowHasContainer
  BY DEF Init, DbInit, BlobRowHasContainer
<1>2. TypeInv /\ BlobRowHasContainer /\ [Next]_vars => BlobRowHasContainer'
  <2> SUFFICES ASSUME TypeInv, BlobRowHasContainer, [Next]_vars
               PROVE  BlobRowHasContainer'
    OBVIOUS
  <2> USE DEF BlobRowHasContainer
  <2>1. CASE UNCHANGED <<containers, blobs>>
    BY <2>1
  <2>2. ASSUME NEW r \in Requests, create_container(r) PROVE BlobRowHasContainer'
    BY <2>2 DEF create_container, insert_container
  <2>3. ASSUME NEW r \in Requests, put_blob_upsert(r) PROVE BlobRowHasContainer'
    BY <2>3 DEF put_blob_upsert, upsert_blob, foreign_key, TypeInv, DbTypeOK
  <2>4. ASSUME NEW r \in Requests, put_block_list_commit(r) PROVE BlobRowHasContainer'
    BY <2>4 DEF put_block_list_commit, commit_block_list_tx, foreign_key, TypeInv, DbTypeOK
  <2>5. ASSUME NEW r \in Requests, delete_blob_delete(r) PROVE BlobRowHasContainer'
    BY <2>5 DEF delete_blob_delete, delete_blob_row, TypeInv, DbTypeOK
  <2>6. ASSUME NEW r \in Requests, delete_container_rows(r) PROVE BlobRowHasContainer'
    BY <2>6 DEF delete_container_rows, delete_container_tx
  <2> QED
    BY <2>1, <2>2, <2>3, <2>4, <2>5, <2>6, NextRows
<1> QED
  BY <1>1, <1>2, TypeInvInvariant, PTL DEF Spec

-------------------------------------------------------------------------------
(* A row, and what is about to become one, comes from an upload to the     *)
(* same blob that has reached its path.                                    *)

UploadPC == {"pb_upsert", "bl_commit"}

UploadInv ==
    /\ \A r \in Requests : req[r].pc \in UploadPC => req[r].out \in renamed[req[r].b]
    /\ RowWasWritten

(* A step that writes no row and no file, to an await that holds no upload. *)
LEMMA UploadQuietStep ==
    ASSUME TypeInv, UploadInv, NEW r \in Requests, NEW locals, locals.pc \notin UploadPC,
           Continue(r, locals), blobs' = blobs, renamed' = renamed
    PROVE  UploadInv'
<1> DEFINE l == IF req[r].live THEN locals ELSE IdleReq
<1>1. req' = [req EXCEPT ![r] = l] /\ l.pc \notin UploadPC
  BY DEF Continue, IdleReq, UploadPC
<1> HIDE DEF l
<1>2. \A s \in Requests : req'[s].pc \in UploadPC => req'[s] = req[s]
  BY <1>1 DEF TypeInv
<1> QED
  BY <1>2 DEF UploadInv, RowWasWritten

(* A request ends after unlinking the file of blob b, or leaving it. *)
LEMMA UploadUnlinkStep ==
    ASSUME TypeInv, UploadInv, NEW r \in Requests, NEW b,
           \A s \in Requests : req'[s].pc \in UploadPC => req'[s] = req[s],
           blobFile' = [blobFile EXCEPT ![b] = None] \/ UNCHANGED blobFile,
           UNCHANGED <<blobs, renamed>>
    PROVE  UploadInv'
  BY DEF TypeInv, UploadInv, RowWasWritten

(* The upload reaches the blob's path. *)
LEMMA UploadRename ==
    ASSUME TypeInv, UploadInv, NEW r \in Requests, NEW q \in Request, req[r] = q,
           q.b \in Blobs, q.out \in Content, replace_blob_file(q.b, q.out),
           NEW pc, Continue(r, [q EXCEPT !.pc = pc]), UNCHANGED blobs
    PROVE  UploadInv'
<1> DEFINE l == [q EXCEPT !.pc = pc]
<1>1. l.out = q.out /\ l.b = q.b
  BY DEF Request
<1>2. /\ q.out \in renamed'[q.b]
      /\ \A b \in Blobs : renamed[b] \subseteq renamed'[b]
  BY DEF replace_blob_file, TypeInv, UploadInv
<1>3. req'[r] = l \/ req'[r] = IdleReq
  BY DEF Continue, TypeInv
<1>4. \A s \in Requests \ {r} : req'[s] = req[s]
  BY DEF Continue, TypeInv
<1>5. \A s \in Requests : req[s].pc \in UploadPC => req[s].b \in Blobs
  BY Locals DEF TypeInv, WellFormed, UploadPC, BlobPC, PC, WriterPC, PutBlobPC, GetBlobPC,
     PutBlockListPC, DeleteContainerPC
<1> HIDE DEF l
<1>6. ASSUME NEW s \in Requests, req'[s].pc \in UploadPC
      PROVE  req'[s].out \in renamed'[req'[s].b]
  <2>1. CASE s # r
    <3>1. req'[s] = req[s]
      BY <1>4, <2>1
    <3>2. req[s].b \in Blobs /\ req[s].out \in renamed[req[s].b]
      BY <1>5, <1>6, <3>1 DEF UploadInv
    <3> QED
      BY <1>2, <3>1, <3>2
  <2>2. CASE s = r
    <3>1. IdleReq.pc \notin UploadPC
      BY DEF IdleReq, UploadPC
    <3>2. req'[s] = l
      BY <1>3, <1>6, <2>2, <3>1
    <3> QED
      BY <1>1, <1>2, <3>2
  <2> QED
    BY <2>1, <2>2
<1> QED
  BY <1>2, <1>6 DEF UploadInv, RowWasWritten

(* Its row is written. *)
LEMMA UploadRow ==
    ASSUME TypeInv, UploadInv, NEW r \in Requests, req[r].pc \in {"pb_upsert", "bl_commit"},
           blobs' = [blobs EXCEPT ![req[r].b] = req[r].out],
           End(r) \/ Continue(r, [req[r] EXCEPT !.pc = "bl_cleanup"]),
           UNCHANGED <<blobFile, renamed>>
    PROVE  UploadInv'
<1> DEFINE l == [req[r] EXCEPT !.pc = "bl_cleanup"]
<1>1. l.pc \notin UploadPC /\ IdleReq.pc \notin UploadPC
  <2>1. req[r] \in Request
    BY Locals DEF TypeInv
  <2> QED
    BY <2>1 DEF Request, UploadPC, IdleReq
<1>2. \A s \in Requests : req'[s].pc \in UploadPC => req'[s] = req[s]
  <2> HIDE DEF l
  <2>1. req'[r] = l \/ req'[r] = IdleReq
    <3>1. CASE End(r)
      BY <3>1 DEF End, TypeInv
    <3>2. CASE Continue(r, l)
      BY <3>2 DEF Continue, TypeInv
    <3> QED
      BY <3>1, <3>2 DEF l
  <2>2. \A s \in Requests \ {r} : req'[s] = req[s]
    <3>1. CASE End(r)
      BY <3>1 DEF End, TypeInv
    <3>2. CASE Continue(r, l)
      BY <3>2 DEF Continue, TypeInv
    <3> QED
      BY <3>1, <3>2 DEF l
  <2> QED
    BY <1>1, <2>1, <2>2
<1>3. req[r].out \in renamed[req[r].b]
  BY DEF UploadInv, UploadPC
<1> QED
  BY <1>2, <1>3 DEF UploadInv, RowWasWritten, TypeInv, DbTypeOK

LEMMA UploadInvInductive == TypeInv /\ UploadInv /\ [Next]_vars => UploadInv'
<1> SUFFICES ASSUME TypeInv, UploadInv, [Next]_vars
             PROVE  UploadInv'
  OBVIOUS
<1>s. ASSUME NEW r \in Requests, Start(r) PROVE UploadInv'
  <2>1. CASE create_container(r)
    BY <2>1 DEF create_container, insert_container, UploadInv, RowWasWritten, files, history
  <2>2. CASE ~create_container(r)
    <3>1. blobs' = blobs /\ renamed' = renamed
      BY <1>s, <2>2 DEF Start, put_blob, get_blob, delete_blob, put_block, put_block_list,
         delete_container, dbVars, files, history
    <3>2. req'[r].pc \notin UploadPC /\ \A s \in Requests \ {r} : req'[s] = req[s]
      <4> USE DEF UploadPC, IdleReq, Begin, TypeInv
      <4>1. CASE put_blob(r)
        BY <4>1 DEF put_blob
      <4>2. CASE get_blob(r)
        BY <4>2 DEF get_blob
      <4>3. CASE delete_blob(r)
        BY <4>3 DEF delete_blob
      <4>4. CASE put_block(r)
        BY <4>4 DEF put_block
      <4>5. CASE put_block_list(r)
        BY <4>5 DEF put_block_list
      <4>6. CASE delete_container(r)
        BY <4>6 DEF delete_container
      <4> QED
        BY <1>s, <2>2, <4>1, <4>2, <4>3, <4>4, <4>5, <4>6 DEF Start
    <3> QED
      BY <3>1, <3>2 DEF UploadInv, RowWasWritten
  <2> QED
    BY <2>1, <2>2
<1>t. ASSUME NEW r \in Requests, Step(r) PROVE UploadInv'
  <2> DEFINE q == req[r]
  <2>q. q \in Request /\ q \in GoodRequest
    BY Locals DEF TypeInv
  <2> HIDE DEF q
  <2>p. /\ \A pc : [q EXCEPT !.pc = pc].pc = pc
        /\ \A pc, x : [q EXCEPT !.pc = pc, !.comm = x].pc = pc
        /\ \A pc, x : [q EXCEPT !.pc = pc, !.out = x].pc = pc
        /\ \A pc, x : [q EXCEPT !.pc = pc, !.left = x].pc = pc
        /\ \A x, y : [q EXCEPT !.refs = x, !.res = y].pc = q.pc
        /\ \A x : [q EXCEPT !.out = x].pc = q.pc
        /\ \A x : [q EXCEPT !.res = x].pc = q.pc
    BY <2>q DEF Request
  <2>e. End(r) => \A s \in Requests : req'[s].pc \in UploadPC => req'[s] = req[s]
    BY DEF End, IdleReq, UploadPC, TypeInv
  <2> USE DEF UploadPC, dbVars, files, history
  <2>1. CASE put_blob_write(r)
    <3>1. q.b \in Blobs /\ q.out \in Content
      BY <2>1, <2>q, Locals
      DEF put_blob_write, q, WellFormed, BlobPC, PC, WriterPC, PutBlobPC, DeleteContainerPC
    <3> QED
      BY <2>1, <2>q, <3>1, UploadRename DEF put_blob_write, Goto, q, UploadPC
  <2>2. CASE put_blob_reject(r)
    BY <2>2, <2>e, UploadUnlinkStep DEF put_blob_reject, unlink_blob
  <2>3. CASE put_blob_upsert(r)
    BY <2>3, <2>q, UploadRow DEF put_blob_upsert, upsert_blob, q
  <2>4. CASE get_blob_open(r)
    <3>1. UNCHANGED <<blobs, blobFile, renamed>>
      BY <2>4 DEF get_blob_open
    <3>2. CASE End(r)
      BY <2>e, <3>1, <3>2 DEF UploadInv, RowWasWritten
    <3>3. CASE \E x : Continue(r, [q EXCEPT !.pc = "gb_stream", !.out = x])
      <4>1. PICK x : Continue(r, [q EXCEPT !.pc = "gb_stream", !.out = x])
        BY <3>3
      <4>2. [q EXCEPT !.pc = "gb_stream", !.out = x].pc \notin UploadPC
        BY <2>p
      <4> HIDE DEF UploadPC
      <4> QED
        BY <3>1, <4>1, <4>2, UploadQuietStep
    <3> QED
      BY <2>4, <3>2, <3>3 DEF get_blob_open, q
  <2>5. CASE get_blob_stream(r)
    BY <2>5, <2>e, UploadUnlinkStep DEF get_blob_stream
  <2>6. CASE delete_blob_delete(r)
    <3>1. /\ blobs' = [blobs EXCEPT ![q.b] = None]
          /\ UNCHANGED <<blobFile, renamed>>
          /\ Continue(r, [q EXCEPT !.pc = "db_committed"])
      BY <2>6 DEF delete_blob_delete, delete_blob_row, Goto, q
    <3>2. \A s \in Requests : req'[s].pc \in UploadPC => req'[s] = req[s]
      BY <2>p, <3>1 DEF Continue, IdleReq, TypeInv
    <3> QED
      BY <3>1, <3>2 DEF UploadInv, RowWasWritten, TypeInv, DbTypeOK
  <2>7. CASE delete_blob_committed(r)
    <3>1. Continue(r, [q EXCEPT !.pc = "db_staged"]) /\ blobs' = blobs /\ renamed' = renamed
      BY <2>7 DEF delete_blob_committed, delete_committed_blocks, Goto, q
    <3>2. [q EXCEPT !.pc = "db_staged"].pc \notin UploadPC
      BY <2>p
    <3> HIDE DEF UploadPC
    <3> QED
      BY <3>1, <3>2, UploadQuietStep
  <2>8. CASE delete_blob_staged(r)
    <3>1. Continue(r, [q EXCEPT !.pc = "db_unlink"]) /\ blobs' = blobs /\ renamed' = renamed
      BY <2>8 DEF delete_blob_staged, delete_staged_blocks, Goto, q
    <3>2. [q EXCEPT !.pc = "db_unlink"].pc \notin UploadPC
      BY <2>p
    <3> HIDE DEF UploadPC
    <3> QED
      BY <3>1, <3>2, UploadQuietStep
  <2>9. CASE delete_blob_unlink(r)
    BY <2>9, <2>e, UploadUnlinkStep DEF delete_blob_unlink, unlink_blob
  <2>10. CASE put_block_write(r)
    <3>1. Continue(r, [q EXCEPT !.pc = "bk_stage"]) /\ blobs' = blobs /\ renamed' = renamed
      BY <2>10 DEF put_block_write, Goto, q
    <3>2. [q EXCEPT !.pc = "bk_stage"].pc \notin UploadPC
      BY <2>p
    <3> HIDE DEF UploadPC
    <3> QED
      BY <3>1, <3>2, UploadQuietStep
  <2>11. CASE put_block_stage(r)
    <3>1. UNCHANGED <<blobs, blobFile, renamed>> /\ End(r)
      BY <2>11 DEF put_block_stage, stage_block
    <3> QED
      BY <2>e, <3>1 DEF UploadInv, RowWasWritten
  <2>12. CASE put_block_list_committed(r)
    <3>1. PICK comm : Continue(r, [q EXCEPT !.pc = "bl_resolve", !.comm = comm])
      BY <2>12 DEF put_block_list_committed, q
    <3>2. UNCHANGED <<blobs, blobFile, renamed>>
      BY <2>12 DEF put_block_list_committed
    <3>3. [q EXCEPT !.pc = "bl_resolve", !.comm = comm].pc \notin UploadPC
      BY <2>p
    <3> HIDE DEF UploadPC
    <3> QED
      BY <3>1, <3>2, <3>3, UploadQuietStep
  <2>13. CASE put_block_list_resolve(r)
    <3>1. UNCHANGED <<blobs, blobFile, renamed>> /\ q.pc = "bl_resolve"
      BY <2>13 DEF put_block_list_resolve, q
    <3>2. CASE End(r)
      BY <2>e, <3>1, <3>2 DEF UploadInv, RowWasWritten
    <3>3. CASE \E refs, res : Continue(r, [q EXCEPT !.refs = refs, !.res = res])
      <4>1. PICK refs, res : Continue(r, [q EXCEPT !.refs = refs, !.res = res])
        BY <3>3
      <4>2. [q EXCEPT !.refs = refs, !.res = res].pc \notin UploadPC
        BY <2>p, <3>1
      <4> HIDE DEF UploadPC
      <4> QED
        BY <3>1, <4>1, <4>2, UploadQuietStep
    <3> QED
      BY <2>13, <3>2, <3>3 DEF put_block_list_resolve, q
  <2>14. CASE put_block_list_check(r)
    <3>1. UNCHANGED <<blobs, blobFile, renamed>>
      BY <2>14 DEF put_block_list_check
    <3>2. CASE End(r)
      BY <2>e, <3>1, <3>2 DEF UploadInv, RowWasWritten
    <3>3. CASE Continue(r, [q EXCEPT !.pc = "bl_concat", !.out = <<>>])
      <4>1. [q EXCEPT !.pc = "bl_concat", !.out = <<>>].pc \notin UploadPC
        BY <2>p
      <4> HIDE DEF UploadPC
      <4> QED
        BY <3>1, <3>3, <4>1, UploadQuietStep
    <3> QED
      BY <2>14, <3>2, <3>3 DEF put_block_list_check, q
  <2>15. CASE put_block_list_part(r)
    <3>1. UNCHANGED <<blobs, blobFile, renamed>> /\ q.pc = "bl_concat"
      BY <2>15 DEF put_block_list_part, q
    <3>2. CASE End(r)
      BY <2>e, <3>1, <3>2 DEF UploadInv, RowWasWritten
    <3>3. CASE \E out : Continue(r, [q EXCEPT !.out = out])
      <4>1. PICK out : Continue(r, [q EXCEPT !.out = out])
        BY <3>3
      <4>2. [q EXCEPT !.out = out].pc \notin UploadPC
        BY <2>p, <3>1
      <4> HIDE DEF UploadPC
      <4> QED
        BY <3>1, <4>1, <4>2, UploadQuietStep
    <3> QED
      BY <2>15, <3>2, <3>3 DEF put_block_list_part, q
  <2>16. CASE put_block_list_rename(r)
    <3>1. q.b \in Blobs /\ q.out \in Content
      BY <2>16, <2>q, Locals
      DEF put_block_list_rename, q, WellFormed, BlobPC, PC, WriterPC, PutBlockListPC, DeleteContainerPC
    <3> QED
      BY <2>16, <2>q, <3>1, UploadRename DEF put_block_list_rename, Goto, q
  <2>17. CASE put_block_list_commit(r)
    BY <2>17, <2>q, <2>p, UploadRow DEF put_block_list_commit, commit_block_list_tx, Goto, q
  <2>18. CASE put_block_list_cleanup(r)
    <3>1. UNCHANGED <<blobs, blobFile, renamed>> /\ q.pc = "bl_cleanup"
      BY <2>18 DEF put_block_list_cleanup, q
    <3>2. CASE End(r)
      BY <2>e, <3>1, <3>2 DEF UploadInv, RowWasWritten
    <3>3. CASE \E res : Continue(r, [q EXCEPT !.res = res])
      <4>1. PICK res : Continue(r, [q EXCEPT !.res = res])
        BY <3>3
      <4>2. [q EXCEPT !.res = res].pc \notin UploadPC
        BY <2>p, <3>1
      <4> HIDE DEF UploadPC
      <4> QED
        BY <3>1, <4>1, <4>2, UploadQuietStep
    <3> QED
      BY <2>18, <3>2, <3>3 DEF put_block_list_cleanup, q
  <2>19. CASE delete_container_rows(r)
    <3>1. /\ \A b \in Blobs : blobs'[b] # None => blobs'[b] = blobs[b]
          /\ UNCHANGED <<blobFile, renamed>>
      BY <2>19 DEF delete_container_rows, delete_container_tx
    <3> DEFINE left == {b \in BlobsOf(q.c) : blobs[b] # None}
               pc == IF left = {} THEN "dc_rmdir" ELSE "dc_unlink"
    <3>2. pc \in {"dc_rmdir", "dc_unlink"} /\ Continue(r, [q EXCEPT !.pc = pc, !.left = left])
      BY <2>19 DEF delete_container_rows, q
    <3> HIDE DEF left, pc
    <3>3. \A s \in Requests : req'[s].pc \in UploadPC => req'[s] = req[s]
      BY <2>p, <3>2 DEF Continue, IdleReq, TypeInv
    <3> QED
      BY <3>1, <3>3 DEF UploadInv, RowWasWritten
  <2>20. CASE delete_container_unlink(r)
    <3>0. PICK b \in q.left :
            /\ unlink_blob(b)
            /\ Continue(r, [q EXCEPT !.pc = IF q.left = {b} THEN "dc_rmdir" ELSE "dc_unlink",
                                     !.left = @ \ {b}])
      BY <2>20 DEF delete_container_unlink, q
    <3> DEFINE left == q.left \ {b}
               pc == IF q.left = {b} THEN "dc_rmdir" ELSE "dc_unlink"
    <3>1. pc \in {"dc_rmdir", "dc_unlink"} /\ Continue(r, [q EXCEPT !.pc = pc, !.left = left])
      BY <3>0
    <3> HIDE DEF left, pc
    <3>2. \A s \in Requests : req'[s].pc \in UploadPC => req'[s] = req[s]
      BY <2>p, <3>1 DEF Continue, IdleReq, TypeInv
    <3> QED
      BY <2>20, <3>0, <3>2, UploadUnlinkStep DEF delete_container_unlink, unlink_blob
  <2>21. CASE delete_container_rmdir(r)
    BY <2>21, UploadUnlinkStep DEF delete_container_rmdir
  <2>22. CASE delete_container_end(r) \/ NoContainer(r)
    BY <2>22, <2>e, UploadUnlinkStep DEF delete_container_end, NoContainer
  <2> QED
    BY <1>t, <2>1, <2>2, <2>3, <2>4, <2>5, <2>6, <2>7, <2>8, <2>9, <2>10, <2>11, <2>12, <2>13,
       <2>14, <2>15, <2>16, <2>17, <2>18, <2>19, <2>20, <2>21, <2>22 DEF Step
<1>d. ASSUME NEW r \in Requests, Disturbance(r) PROVE UploadInv'
  <2>1. UNCHANGED <<blobs, blobFile, renamed>>
    BY <1>d DEF Disturbance, Fail, Cancel, Drop, dbVars, files, history
  <2>2. CASE End(r)
    <3>1. \A s \in Requests : req'[s].pc \in UploadPC => req'[s] = req[s]
      BY <2>2 DEF End, IdleReq, UploadPC, TypeInv
    <3> QED
      BY <2>1, <3>1 DEF UploadInv, RowWasWritten
  <2>3. CASE req' = [req EXCEPT ![r].live = FALSE]
    <3> DEFINE l == [req[r] EXCEPT !.live = FALSE]
    <3>1. req[r] \in Request
      BY Locals DEF TypeInv
    <3>2. l.pc = req[r].pc /\ l.out = req[r].out /\ l.b = req[r].b
      BY <3>1 DEF Request
    <3>3. req' = [req EXCEPT ![r] = l]
      BY <2>3
    <3> HIDE DEF l
    <3>4. req'[r] = l /\ \A s \in Requests \ {r} : req'[s] = req[s]
      BY <3>3 DEF TypeInv
    <3>5. \A s \in Requests : req'[s].pc \in UploadPC => req'[s].out \in renamed[req'[s].b]
      BY <3>2, <3>4 DEF UploadInv
    <3> QED
      BY <2>1, <3>5 DEF UploadInv, RowWasWritten
  <2> QED
    BY <1>d, <2>2, <2>3 DEF Disturbance, Fail, Cancel, Drop
<1>c. CASE Crash
  BY <1>c DEF Crash, UploadInv, RowWasWritten, IdleReq, UploadPC, dbVars, files, history
<1>u. CASE UNCHANGED vars
  BY <1>u DEF vars, UploadInv, RowWasWritten, dbVars, files, history
<1> QED
  BY <1>s, <1>t, <1>d, <1>c, <1>u DEF Next

LEMMA UploadInvInvariant == Spec => []UploadInv
<1>1. Init => UploadInv
  BY DEF Init, DbInit, UploadInv, RowWasWritten, IdleReq, UploadPC
<1> QED
  BY <1>1, TypeInvInvariant, UploadInvInductive, PTL DEF Spec

(* The database never gets ahead of the files: however requests interleave, *)
(* fail, are dropped or crash, a row describes bytes that were first made   *)
(* durable at the blob's path.                                              *)
THEOREM RowsDescribeUploads == Spec => []RowWasWritten
<1>1. UploadInv => RowWasWritten
  BY DEF UploadInv
<1> QED
  BY <1>1, UploadInvInvariant, PTL
===============================================================================
