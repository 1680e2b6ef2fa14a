-------------------------- MODULE AtomicWriteProofs ---------------------------
(***************************************************************************)
(* Theorems about AtomicWrite, for any number of writes, names and chunks. *)
(***************************************************************************)
EXTENDS AtomicWrite, TLAPS

(* The variables keep their types through every step of fs_io.rs. *)
THEOREM TypeCorrect == Spec => []TypeOK
<1>1. Init => TypeOK
  BY NoFileAssumption, OldDirsAssumption DEF Init, TypeOK, PC
<1>2. TypeOK /\ [Next]_vars => TypeOK'
  <2> SUFFICES ASSUME TypeOK, [Next]_vars
               PROVE  TypeOK'
    OBVIOUS
  <2> USE TargetAssumption, ParentAssumption, SizeAssumption DEF TypeOK, PC, data, dir, tree
  <2>1. ASSUME NEW w \in Writers, create_tmp(w) PROVE TypeOK'
    BY <2>1 DEF create_tmp
  <2>2. ASSUME NEW w \in Writers, write_chunk(w) PROVE TypeOK'
    BY <2>2 DEF write_chunk
  <2>3. ASSUME NEW w \in Writers, sync_all(w) PROVE TypeOK'
    BY <2>3 DEF sync_all
  <2>4. ASSUME NEW w \in Writers, rename(w) PROVE TypeOK'
    BY <2>4 DEF rename
  <2>5. ASSUME NEW w \in Writers, fsync_dir(w) PROVE TypeOK'
    BY <2>5 DEF fsync_dir
  <2>6. ASSUME NEW w \in Writers, fsync_dir_unopened(w) \/ return_ok(w) \/ fail(w)
        PROVE  TypeOK'
    BY <2>6 DEF fsync_dir_unopened, return_ok, fail
  <2>7. ASSUME NEW p \in Paths, remove_file_if_exists(p) PROVE TypeOK'
    BY <2>7 DEF remove_file_if_exists
  <2>8. ASSUME NEW p \in Paths, writeback_dir(p) PROVE TypeOK'
    BY <2>8 DEF writeback_dir
  <2>9. ASSUME NEW w \in Writers, writeback_data(w) PROVE TypeOK'
    BY <2>9 DEF writeback_data
  <2>10. ASSUME NEW d \in Dirs, writeback_parents(d) PROVE TypeOK'
    BY <2>10 DEF writeback_parents
  <2>11. CASE Crash
    BY <2>11 DEF Crash
  <2>12. CASE UNCHANGED vars
    BY <2>12 DEF vars
  <2> QED
    BY <2>1, <2>2, <2>3, <2>4, <2>5, <2>6, <2>7, <2>8, <2>9, <2>10, <2>11, <2>12
    DEF Next, Step, Kernel
<1> QED
  BY <1>1, <1>2, PTL DEF Spec

-------------------------------------------------------------------------------
(* Why no file is torn: the data of an inode is on disk before any entry   *)
(* can name it, and nothing writes to the inode afterwards.                *)

SyncedBeforeNamed ==
    /\ \A w \in Writers :
         /\ synced[w] <= written[w]
         /\ written[w] <= Size[w]
         /\ pc[w] \in {"synced", "renamed", "fsynced"} => synced[w] = Size[w]
    /\ \A p \in Paths :
         /\ name[p] # NoFile => synced[name[p]] = Size[name[p]]
         /\ disk[p] # NoFile => synced[disk[p]] = Size[disk[p]]

LEMMA SyncedBeforeNamedInductive ==
    TypeOK /\ SyncedBeforeNamed /\ [Next]_vars => SyncedBeforeNamed'
<1> SUFFICES ASSUME TypeOK, SyncedBeforeNamed, [Next]_vars
             PROVE  SyncedBeforeNamed'
  OBVIOUS
<1> USE TargetAssumption, SizeAssumption, NoFileAssumption
    DEF TypeOK, SyncedBeforeNamed, PC, data, dir, tree
<1>1. ASSUME NEW w \in Writers, create_tmp(w) PROVE SyncedBeforeNamed'
  BY <1>1 DEF create_tmp
<1>2. ASSUME NEW w \in Writers, write_chunk(w) PROVE SyncedBeforeNamed'
  BY <1>2 DEF write_chunk
<1>3. ASSUME NEW w \in Writers, sync_all(w) PROVE SyncedBeforeNamed'
  BY <1>3 DEF sync_all
<1>4. ASSUME NEW w \in Writers, rename(w) PROVE SyncedBeforeNamed'
  BY <1>4 DEF rename
<1>5. ASSUME NEW w \in Writers, fsync_dir(w) PROVE SyncedBeforeNamed'
  BY <1>5 DEF fsync_dir
<1>6. ASSUME NEW w \in Writers, fsync_dir_unopened(w) \/ return_ok(w) \/ fail(w)
      PROVE  SyncedBeforeNamed'
  BY <1>6 DEF fsync_dir_unopened, return_ok, fail
<1>7. ASSUME NEW p \in Paths, remove_file_if_exists(p) PROVE SyncedBeforeNamed'
  BY <1>7 DEF remove_file_if_exists
<1>8. ASSUME NEW p \in Paths, writeback_dir(p) PROVE SyncedBeforeNamed'
  BY <1>8 DEF writeback_dir
<1>9. ASSUME NEW w \in Writers, writeback_data(w) PROVE SyncedBeforeNamed'
  BY <1>9 DEF writeback_data
<1>10. ASSUME NEW d \in Dirs, writeback_parents(d) PROVE SyncedBeforeNamed'
  BY <1>10 DEF writeback_parents
<1>11. CASE Crash
  BY <1>11 DEF Crash
<1>12. CASE UNCHANGED vars
  BY <1>12 DEF vars
<1> QED
  BY <1>1, <1>2, <1>3, <1>4, <1>5, <1>6, <1>7, <1>8, <1>9, <1>10, <1>11, <1>12
  DEF Next, Step, Kernel

LEMMA SyncedBeforeNamedInvariant == Spec => []SyncedBeforeNamed
<1>1. Init => SyncedBeforeNamed
  BY SizeAssumption DEF Init, SyncedBeforeNamed
<1> QED
  BY <1>1, TypeCorrect, SyncedBeforeNamedInductive, PTL DEF Spec

(* No directory entry, in the page cache or on disk, ever names a file cut *)
(* short, whatever crashes, failures and write-backs happen in between;    *)
(* fsync_dir may even skip its work.                                       *)
THEOREM FilesAreWhole == Spec => []NoTornFile
<1>1. TypeOK /\ SyncedBeforeNamed => NoTornFile
  BY SizeAssumption DEF TypeOK, SyncedBeforeNamed, NoTornFile
<1> QED
  BY <1>1, TypeCorrect, SyncedBeforeNamedInvariant, PTL

-------------------------------------------------------------------------------
(* Why an acknowledged write is durable: the entry on disk lags the entry  *)
(* in the cache, and fsync_dir closes the gap that rename opened.  A       *)
(* directory that was on disk at the start stays there.                    *)

StampsCovered ==
    /\ \A p \in Paths : diskVer[p] <= ver[p]
    /\ \A w \in Writers :
         /\ pc[w] \in {"renamed", "fsynced"} => stamp[w] <= ver[Target[w]]
         /\ pc[w] \in {"fsynced", "done"} /\ Target[w] \notin Unopenable
              => stamp[w] <= diskVer[Target[w]]
         /\ pc[w] = "lost" => Parent[Target[w]] \notin OldDirs
    /\ OldDirs \subseteq rooted

LEMMA StampsCoveredInductive ==
    TypeOK /\ StampsCovered /\ [Next]_vars => StampsCovered'
<1> SUFFICES ASSUME TypeOK, StampsCovered, [Next]_vars
             PROVE  StampsCovered'
  OBVIOUS
<1> USE TargetAssumption, ParentAssumption DEF TypeOK, StampsCovered, PC, data, dir, tree
<1>1. ASSUME NEW w \in Writers, create_tmp(w) PROVE StampsCovered'
  BY <1>1 DEF create_tmp
<1>2. ASSUME NEW w \in Writers, write_chunk(w) PROVE StampsCovered'
  BY <1>2 DEF write_chunk
<1>3. ASSUME NEW w \in Writers, sync_all(w) PROVE StampsCovered'
  BY <1>3 DEF sync_all
<1>4. ASSUME NEW w \in Writers, rename(w) PROVE StampsCovered'
  BY <1>4 DEF rename
<1>5. ASSUME NEW w \in Writers, fsync_dir(w) PROVE StampsCovered'
  BY <1>5 DEF fsync_dir
<1>6. ASSUME NEW w \in Writers, fsync_dir_unopened(w) \/ return_ok(w) \/ fail(w)
      PROVE  StampsCovered'
  BY <1>6 DEF fsync_dir_unopened, return_ok, fail
<1>7. ASSUME NEW p \in Paths, remove_file_if_exists(p) PROVE StampsCovered'
  BY <1>7 DEF remove_file_if_exists
<1>8. ASSUME NEW p \in Paths, writeback_dir(p) PROVE StampsCovered'
  BY <1>8 DEF writeback_dir
<1>9. ASSUME NEW w \in Writers, writeback_data(w) PROVE StampsCovered'
  BY <1>9 DEF writeback_data
<1>10. ASSUME NEW d \in Dirs, writeback_parents(d) PROVE StampsCovered'
  BY <1>10 DEF writeback_parents
<1>11. CASE Crash
  BY <1>11 DEF Crash
<1>12. CASE UNCHANGED vars
  BY <1>12 DEF vars
<1> QED
  BY <1>1, <1>2, <1>3, <1>4, <1>5, <1>6, <1>7, <1>8, <1>9, <1>10, <1>11, <1>12
  DEF Next, Step, Kernel

(* A write that returned Ok is on disk in its directory, or something      *)
(* newer is, unless fsync_dir may fail to open that directory; and a crash *)
(* takes it away only with a directory create_dir_all made, whose own path *)
(* fs_io.rs does not fsync.                                                *)
THEOREM AcknowledgedWritesAreDurable == Spec => []AckedIsDurable
<1>1. Init => StampsCovered
  BY TargetAssumption, ParentAssumption DEF Init, StampsCovered
<1>2. StampsCovered => AckedIsDurable
  BY DEF StampsCovered, AckedIsDurable
<1>3. TypeOK /\ StampsCovered /\ [Next]_vars => StampsCovered'
  BY StampsCoveredInductive
<1> QED
  BY <1>1, <1>2, <1>3, TypeCorrect, PTL DEF Spec
-------------------------------------------------------------------------------
(* The refinement.  Each step of the protocol is a step of AtomicFile, or  *)
(* leaves cell, saved and status alone.                                    *)

RefInv == TypeOK /\ SyncedBeforeNamed /\ StampsCovered /\ NoTornFile

(* Both entries of a name always show whole bodies, so cell and saved are  *)
(* the directory entries themselves.                                       *)
LEMMA BodiesAreEntries ==
    ASSUME RefInv
    PROVE  /\ \A p \in Paths : BodyOf(name[p], written) = name[p]
           /\ \A p \in Paths : BodyOf(disk[p], synced) = disk[p]
  BY DEF RefInv, NoTornFile, BodyOf

(* The steps that implement no step of AtomicFile. *)
LEMMA ProtocolStutters ==
    ASSUME RefInv, RefInv', NEW w \in Writers,
           \/ create_tmp(w) \/ write_chunk(w) \/ sync_all(w)
           \/ fsync_dir_unopened(w) \/ writeback_data(w)
    PROVE  UNCHANGED Abs!absVars
<1>1. UNCHANGED <<name, disk, stamp, diskVer, rooted>>
  BY DEF create_tmp, write_chunk, sync_all, fsync_dir_unopened, writeback_data, dir, tree
<1>2. \A v \in Writers : StatusOf(v)' = StatusOf(v)
  BY <1>1 DEF RefInv, TypeOK, StatusOf, create_tmp, write_chunk, sync_all, fsync_dir_unopened,
     writeback_data
<1>3. \A p \in Paths : /\ BodyOf(name[p], written)' = name[p]
                       /\ BodyOf(disk[p], synced)' = disk[p]
  BY <1>1 DEF RefInv, NoTornFile, BodyOf
<1> QED
  BY <1>1, <1>2, <1>3, BodiesAreEntries DEF Abs!absVars

LEMMA NextRefines ==
    ASSUME RefInv, RefInv', [Next]_vars
    PROVE  [Abs!Next]_(Abs!absVars)
<1> DEFINE cellOf == [p \in Paths |-> BodyOf(name[p], written)]
           savedOf == [p \in Paths |-> BodyOf(disk[p], synced)]
           statusOf == [w \in Writers |-> StatusOf(w)]
<1>1. /\ cellOf = name /\ cellOf' = name'
      /\ savedOf = disk /\ savedOf' = disk'
  <2>1. cellOf = name /\ savedOf = disk
    BY BodiesAreEntries DEF RefInv, TypeOK
  <2>2. \A p \in Paths : /\ BodyOf(name[p], written)' = name'[p]
                         /\ BodyOf(disk[p], synced)' = disk'[p]
    BY DEF RefInv, NoTornFile, BodyOf
  <2> QED
    BY <2>1, <2>2 DEF RefInv, TypeOK
<1>2. ASSUME NEW w \in Writers,
             \/ create_tmp(w) \/ write_chunk(w) \/ sync_all(w)
             \/ fsync_dir_unopened(w) \/ writeback_data(w)
      PROVE  UNCHANGED Abs!absVars
  BY <1>2, ProtocolStutters
<1> USE TargetAssumption, ParentAssumption DEF RefInv, TypeOK, PC, tree
<1>3. ASSUME NEW w \in Writers, rename(w)
      PROVE  Abs!Replace(w)
  <2>1. StatusOf(w) = "pending" /\ StatusOf(w)' = "visible"
    BY <1>3 DEF rename, StatusOf, StampsCovered
  <2>2. \A v \in Writers \ {w} : StatusOf(v)' = StatusOf(v)
    BY <1>3 DEF rename, StatusOf
  <2>3. cellOf' = [cellOf EXCEPT ![Target[w]] = w] /\ savedOf' = savedOf
    BY <1>1, <1>3 DEF rename
  <2>4. statusOf' = [statusOf EXCEPT ![w] = "visible"]
    BY <2>1, <2>2
  <2> QED
    BY <1>3, <2>1, <2>3, <2>4 DEF Abs!Replace, rename
<1>4. ASSUME NEW p \in Paths,
             disk' = [disk EXCEPT ![p] = name[p]],
             diskVer' = [diskVer EXCEPT ![p] = ver[p]],
             UNCHANGED <<name, stamp, rooted>>,
             \A w \in Writers : \/ pc'[w] = pc[w]
                                \/ pc[w] = "renamed" /\ pc'[w] = "fsynced"
      PROVE  Abs!Save(p)
  <2>1. cellOf' = cellOf /\ savedOf' = [savedOf EXCEPT ![p] = cellOf[p]]
    BY <1>1, <1>4
  <2>2. ASSUME NEW w \in Writers
        PROVE  StatusOf(w)' = IF Target[w] = p /\ StatusOf(w) = "visible"
                              THEN "saved" ELSE StatusOf(w)
    BY <1>4, SMT DEF StatusOf, StampsCovered
  <2> QED
    BY <1>4, <2>1, <2>2 DEF Abs!Save
<1>5. ASSUME NEW w \in Writers, fsync_dir(w) PROVE Abs!Save(Target[w])
  BY <1>4, <1>5 DEF fsync_dir
<1>6. ASSUME NEW p \in Paths, writeback_dir(p) PROVE Abs!Save(p)
  BY <1>4, <1>6 DEF writeback_dir
<1>7. ASSUME NEW w \in Writers, return_ok(w) PROVE Abs!Return(w)
  <2>1. /\ StatusOf(w) = "saved" \/ (StatusOf(w) = "visible" /\ Target[w] \in Unopenable)
        /\ StatusOf(w)' = "returned"
    BY <1>7 DEF return_ok, StatusOf, StampsCovered, dir
  <2>2. \A v \in Writers \ {w} : StatusOf(v)' = StatusOf(v)
    BY <1>7 DEF return_ok, StatusOf, dir
  <2>3. cellOf' = cellOf /\ savedOf' = savedOf
    BY <1>1, <1>7 DEF return_ok, dir
  <2>4. statusOf' = [statusOf EXCEPT ![w] = "returned"]
    BY <2>1, <2>2
  <2> QED
    BY <1>7, <2>1, <2>3, <2>4 DEF Abs!Return, return_ok
<1>8. ASSUME NEW w \in Writers, fail(w) PROVE Abs!GiveUp(w)
  <2>1. StatusOf(w) \in {"pending", "visible", "saved"} /\ StatusOf(w)' = "failed"
    BY <1>8 DEF fail, StatusOf, dir
  <2>2. \A v \in Writers \ {w} : StatusOf(v)' = StatusOf(v)
    BY <1>8 DEF fail, StatusOf, dir
  <2>3. cellOf' = cellOf /\ savedOf' = savedOf
    BY <1>1, <1>8 DEF fail, dir
  <2>4. statusOf' = [statusOf EXCEPT ![w] = "failed"]
    BY <2>1, <2>2
  <2> QED
    BY <1>8, <2>1, <2>3, <2>4 DEF Abs!GiveUp, fail
<1>9. ASSUME NEW p \in Paths, remove_file_if_exists(p) PROVE Abs!Remove(p)
  <2>1. \A v \in Writers : StatusOf(v)' = StatusOf(v)
    BY <1>9 DEF remove_file_if_exists, StatusOf
  <2>2. cellOf' = [cellOf EXCEPT ![p] = NoFile] /\ savedOf' = savedOf
    BY <1>1, <1>9 DEF remove_file_if_exists
  <2> QED
    BY <1>9, <2>1, <2>2 DEF Abs!Remove, remove_file_if_exists
<1>10. ASSUME NEW d \in Dirs, writeback_parents(d) PROVE Abs!Anchor(d)
  <2>1. \A v \in Writers : StatusOf(v)' = StatusOf(v)
    BY <1>10 DEF writeback_parents, StatusOf, dir
  <2>2. cellOf' = cellOf /\ savedOf' = savedOf
    BY <1>1, <1>10 DEF writeback_parents, dir
  <2> QED
    BY <1>10, <2>1, <2>2 DEF Abs!Anchor, writeback_parents
<1>11. ASSUME Crash PROVE Abs!Crash
  <2>1. \A v \in Writers :
          /\ StatusOf(v)' \in Abs!Status
          /\ \/ StatusOf(v) \in {"returned", "pending"} /\ StatusOf(v)' = StatusOf(v)
             \/ StatusOf(v) # "returned" /\ StatusOf(v)' = "failed"
    BY <1>11 DEF Crash, StatusOf, Abs!Status
  <2>2. /\ savedOf' = [p \in Paths |-> IF Parent[p] \in rooted THEN savedOf[p] ELSE NoFile]
        /\ cellOf' = savedOf'
    BY <1>1, <1>11 DEF Crash
  <2>3. UNCHANGED rooted
    BY <1>11 DEF Crash
  <2> QED
    BY <2>1, <2>2, <2>3 DEF Abs!Crash
<1>12. ASSUME UNCHANGED vars PROVE UNCHANGED Abs!absVars
  BY <1>1, <1>12 DEF vars, Abs!absVars, StatusOf
<1> QED
  BY <1>2, <1>3, <1>5, <1>6, <1>7, <1>8, <1>9, <1>10, <1>11, <1>12
  DEF Next, Step, Kernel, Abs!Next

(* write_stream_atomic is a correct implementation of the atomic file      *)
(* write of AtomicFile: replaced in one step, durable when it returns as   *)
(* far as its directory is.                                                *)
THEOREM ProtocolImplementsAtomicFile == Spec => ImplementsAtomicFile
<1>1. Init => Abs!Init
  BY SizeAssumption DEF Init, Abs!Init, BodyOf, StatusOf
<1>2. Init => StampsCovered
  BY TargetAssumption, ParentAssumption DEF Init, StampsCovered
<1>3. TypeOK /\ StampsCovered /\ [Next]_vars => StampsCovered'
  BY StampsCoveredInductive
<1>4. RefInv /\ RefInv' /\ [Next]_vars => [Abs!Next]_(Abs!absVars)
  BY NextRefines
<1>5. RefInv <=> TypeOK /\ SyncedBeforeNamed /\ StampsCovered /\ NoTornFile
  BY DEF RefInv
<1> QED
  BY <1>1, <1>2, <1>3, <1>4, <1>5, TypeCorrect, SyncedBeforeNamedInvariant, FilesAreWhole, PTL
  DEF Spec, Abs!Spec, ImplementsAtomicFile
===============================================================================
