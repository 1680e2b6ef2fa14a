----------------------------- MODULE AtomicWrite ------------------------------
(***************************************************************************)
(* The durable write protocol of crates/blobstore-storage/src/fs_io.rs:    *)
(* stream the body into a temporary file, fsync it, rename it onto the     *)
(* final name, fsync the parent directory.  Both write_stream_atomic and   *)
(* concatenate_files_atomic follow it; they differ only in where the       *)
(* chunks come from.                                                       *)
(*                                                                         *)
(* A write and the file it creates are one and the same: writer w fills    *)
(* inode w, and a directory entry holds the inode it names.  A file's      *)
(* contents are the number of chunks that have reached it.  The page cache *)
(* and the disk are told apart: `written` and `name` are what processes    *)
(* see, `synced` and `disk` are what a crash leaves.  Temporary names are  *)
(* distinct (unique_tmp_path).                                             *)
(*                                                                         *)
(* A directory that create_dir_all has just made is reached through        *)
(* entries of its ancestors that no step of the protocol fsyncs: only the  *)
(* last directory is, for the file's own entry.  `made` are the            *)
(* directories processes see, `rooted` the ones whose whole path is on     *)
(* disk; a crash takes the others away with all their files.  The removal  *)
(* of a container's directories is a step of FsBackend; one made again     *)
(* later is a new directory in the same sense.                             *)
(***************************************************************************)
EXTENDS Integers

CONSTANTS
    Writers,       \* the writes in progress or to come
    Paths,         \* final file names
    Target,        \* the name each write replaces
    Dirs,          \* the directories of the file names
    Parent,        \* the directory of each name
    OldDirs,       \* the directories on disk, ancestors included, at the start
    Size,          \* the number of chunks of each body
    NoFile,        \* a directory entry that names no file
    Unopenable     \* the names whose directory fsync_dir may fail to open

ASSUME TargetAssumption == Target \in [Writers -> Paths]
ASSUME ParentAssumption == Parent \in [Paths -> Dirs]
ASSUME OldDirsAssumption == OldDirs \subseteq Dirs
ASSUME SizeAssumption == Size \in [Writers -> Nat]
ASSUME NoFileAssumption == NoFile \notin Writers
ASSUME UnopenableAssumption == Unopenable \subseteq Paths

VARIABLES
    pc,        \* the step each write is at
    written,   \* chunks of inode w in the page cache
    synced,    \* chunks of inode w on disk
    name,      \* the directory entry of each path
    disk,      \* the directory entry of each path, on disk
    ver,       \* how many times the entry has changed
    diskVer,   \* the changes of the entry that are on disk
    stamp,     \* the change of its target that write w made
    made,      \* the directories there are
    rooted     \* the directories that are on disk with all their ancestors

vars == <<pc, written, synced, name, disk, ver, diskVer, stamp, made, rooted>>

data == <<written, synced>>
tree == <<made, rooted>>
dir == <<name, disk, ver, diskVer, stamp>>

(* A write that is done has returned Ok; it is lost when a crash takes its *)
(* directory away afterwards.                                              *)
PC == {"start", "stream", "synced", "renamed", "fsynced", "done", "lost", "failed"}

TypeOK ==
    /\ pc \in [Writers -> PC]
    /\ written \in [Writers -> Nat]
    /\ synced \in [Writers -> Nat]
    /\ name \in [Paths -> Writers \cup {NoFile}]
    /\ disk \in [Paths -> Writers \cup {NoFile}]
    /\ ver \in [Paths -> Nat]
    /\ diskVer \in [Paths -> Nat]
    /\ stamp \in [Writers -> Nat]
    /\ made \subseteq Dirs
    /\ rooted \subseteq made

Init ==
    /\ pc = [w \in Writers |-> "start"]
    /\ written = [w \in Writers |-> 0]
    /\ synced = [w \in Writers |-> 0]
    /\ name = [p \in Paths |-> NoFile]
    /\ disk = [p \in Paths |-> NoFile]
    /\ ver = [p \in Paths |-> 0]
    /\ diskVer = [p \in Paths |-> 0]
    /\ stamp = [w \in Writers |-> 0]
    /\ made = OldDirs
    /\ rooted = OldDirs

-------------------------------------------------------------------------------
(* The steps of one write. *)

(* create_dir_all of the temporary directory and of the parent, then the   *)
(* temporary file.  The directories made are not fsynced.                  *)
create_tmp(w) ==
    /\ pc[w] = "start"
    /\ made' = made \cup {Parent[Target[w]]}
    /\ pc' = [pc EXCEPT ![w] = "stream"]
    /\ UNCHANGED <<data, dir, rooted>>

write_chunk(w) ==
    /\ pc[w] = "stream"
    /\ written[w] < Size[w]
    /\ written' = [written EXCEPT ![w] = @ + 1]
    /\ UNCHANGED <<pc, synced, dir, tree>>

(* MUTANT of sync_all: the data is left to the kernel. *)
sync_all_omitted(w) ==
    /\ pc[w] = "stream"
    /\ written[w] = Size[w]
    /\ pc' = [pc EXCEPT ![w] = "synced"]
    /\ UNCHANGED <<data, dir, tree>>

(* The body has ended: flush, then fsync of the temporary file. *)
sync_all(w) ==
    /\ pc[w] = "stream"
    /\ written[w] = Size[w]
    /\ synced' = [synced EXCEPT ![w] = written[w]]
    /\ pc' = [pc EXCEPT ![w] = "synced"]
    /\ UNCHANGED <<written, dir, tree>>

(* MUTANT of rename: the file gets its name while it is being filled. *)
rename_early(w) ==
    LET p == Target[w] IN
    /\ pc[w] \in {"stream", "synced"}
    /\ name' = [name EXCEPT ![p] = w]
    /\ ver' = [ver EXCEPT ![p] = @ + 1]
    /\ stamp' = [stamp EXCEPT ![w] = ver[p] + 1]
    /\ pc' = [pc EXCEPT ![w] = "renamed"]
    /\ UNCHANGED <<data, disk, diskVer, tree>>

rename(w) ==
    LET p == Target[w] IN
    /\ pc[w] = "synced"
    /\ name' = [name EXCEPT ![p] = w]
    /\ ver' = [ver EXCEPT ![p] = @ + 1]
    /\ stamp' = [stamp EXCEPT ![w] = ver[p] + 1]
    /\ pc' = [pc EXCEPT ![w] = "renamed"]
    /\ UNCHANGED <<data, disk, diskVer, tree>>

(* MUTANT of fsync_dir: the rename is never made durable. *)
fsync_dir_noop(w) ==
    /\ pc[w] = "renamed"
    /\ pc' = [pc EXCEPT ![w] = "fsynced"]
    /\ UNCHANGED <<data, dir, tree>>

(* The parent directory is opened and fsynced. *)
fsync_dir(w) ==
    LET p == Target[w] IN
    /\ pc[w] = "renamed"
    /\ disk' = [disk EXCEPT ![p] = name[p]]
    /\ diskVer' = [diskVer EXCEPT ![p] = ver[p]]
    /\ pc' = [pc EXCEPT ![w] = "fsynced"]
    /\ UNCHANGED <<data, name, ver, stamp, tree>>

(* The directory cannot be opened: logged at debug level, and still Ok. *)
fsync_dir_unopened(w) ==
    /\ Target[w] \in Unopenable
    /\ pc[w] = "renamed"
    /\ pc' = [pc EXCEPT ![w] = "fsynced"]
    /\ UNCHANGED <<data, dir, tree>>

(* The digest is finished and the write returns Ok. *)
return_ok(w) ==
    /\ pc[w] = "fsynced"
    /\ pc' = [pc EXCEPT ![w] = "done"]
    /\ UNCHANGED <<data, dir, tree>>

(* Any `?` of the protocol: the directories made, the temporary file or a  *)
(* rename already done stay as they are.  A caller that is dropped at an await behaves the same: *)
(* the system call in flight may still take effect before this step.       *)
fail(w) ==
    /\ pc[w] \in {"start", "stream", "synced", "renamed", "fsynced"}
    /\ made' \in IF pc[w] = "start" THEN {made, made \cup {Parent[Target[w]]}} ELSE {made}
    /\ pc' = [pc EXCEPT ![w] = "failed"]
    /\ UNCHANGED <<data, dir, rooted>>

-------------------------------------------------------------------------------
(* Other callers, the kernel and the machine. *)

(* The entry is unlinked without an fsync; a missing file is not an error. *)
remove_file_if_exists(p) ==
    /\ name[p] # NoFile
    /\ name' = [name EXCEPT ![p] = NoFile]
    /\ ver' = [ver EXCEPT ![p] = @ + 1]
    /\ UNCHANGED <<pc, data, disk, diskVer, stamp, tree>>

(* The kernel writes dirty pages and directory entries back when it likes. *)
writeback_data(w) ==
    /\ synced' = [synced EXCEPT ![w] = written[w]]
    /\ UNCHANGED <<pc, written, dir, tree>>

writeback_dir(p) ==
    /\ disk' = [disk EXCEPT ![p] = name[p]]
    /\ diskVer' = [diskVer EXCEPT ![p] = ver[p]]
    /\ UNCHANGED <<pc, data, name, ver, stamp, tree>>

(* The entries that lead to directory d reach the disk. *)
writeback_parents(d) ==
    /\ d \in made
    /\ rooted' = rooted \cup {d}
    /\ UNCHANGED <<pc, data, dir, made>>

(* The page cache is lost, and with it the directories that were not on    *)
(* disk yet and all the entries in them.  The server starts again.         *)
Crash ==
    LET stays(p) == Parent[p] \in rooted IN
    /\ written' = synced
    /\ disk' = [p \in Paths |-> IF stays(p) THEN disk[p] ELSE NoFile]
    /\ diskVer' = [p \in Paths |-> IF stays(p) THEN diskVer[p] ELSE 0]
    /\ name' = disk'
    /\ ver' = diskVer'
    /\ made' = rooted
    /\ pc' = [w \in Writers |->
                CASE pc[w] = "start" -> "start"
                  [] pc[w] \in {"done", "lost"} ->
                       IF stays(Target[w]) THEN pc[w] ELSE "lost"
                  [] OTHER -> "failed"]
    /\ UNCHANGED <<synced, stamp, rooted>>

Step(w) ==
    \/ create_tmp(w)
    \/ write_chunk(w)
    \/ sync_all(w)
    \/ rename(w)
    \/ fsync_dir(w)
    \/ fsync_dir_unopened(w)
    \/ return_ok(w)
    \/ fail(w)

Kernel ==
    \/ \E p \in Paths : remove_file_if_exists(p) \/ writeback_dir(p)
    \/ \E w \in Writers : writeback_data(w)
    \/ \E d \in Dirs : writeback_parents(d)
    \/ Crash

Next == (\E w \in Writers : Step(w)) \/ Kernel

Spec == Init /\ [][Next]_vars

-------------------------------------------------------------------------------
(* A directory entry, as a process sees it and as a crash would leave it,  *)
(* only ever names a file whose whole body is there: no reader and no      *)
(* restart finds a file cut short by write_stream_atomic or                *)
(* concatenate_files_atomic.                                               *)
NoTornFile ==
    \A p \in Paths :
        /\ name[p] # NoFile => written[name[p]] = Size[name[p]]
        /\ disk[p] # NoFile => synced[disk[p]] = Size[disk[p]]

(* When write_stream_atomic has returned Ok, its rename, or a later change *)
(* of the same name, is on disk in its directory: a crash cannot bring     *)
(* back the file it replaced.  Not so when fsync_dir may fail to open the  *)
(* directory, since the code then answers Ok all the same.  And a crash    *)
(* after the Ok takes the file away altogether only with a directory that  *)
(* create_dir_all made: never with one that was on disk before.            *)
AckedIsDurable ==
    \A w \in Writers :
        /\ pc[w] = "done" /\ Target[w] \notin Unopenable => stamp[w] <= diskVer[Target[w]]
        /\ pc[w] = "lost" => Parent[Target[w]] \notin OldDirs

-------------------------------------------------------------------------------
(* The protocol as an implementation of AtomicFile. *)

Torn == [torn |-> TRUE]

(* What the entry e holds when c counts the chunks of each inode. *)
BodyOf(e, c) == IF e = NoFile \/ c[e] = Size[e] THEN e ELSE Torn

StatusOf(w) ==
    IF pc[w] \in {"start", "stream", "synced"} THEN "pending"
    ELSE IF pc[w] \in {"done", "lost"} THEN "returned"
    ELSE IF pc[w] = "failed" THEN "failed"
    ELSE IF stamp[w] <= diskVer[Target[w]] THEN "saved"
    ELSE "visible"

Abs == INSTANCE AtomicFile WITH
    cell <- [p \in Paths |-> BodyOf(name[p], written)],
    saved <- [p \in Paths |-> BodyOf(disk[p], synced)],
    anchored <- rooted,
    status <- [w \in Writers |-> StatusOf(w)]

(* Seen through complete files and returned calls, the steps of fs_io.rs   *)
(* are the atomic replace, save and return of AtomicFile.                  *)
ImplementsAtomicFile == Abs!Spec
===============================================================================
