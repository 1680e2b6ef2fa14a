------------------------------ MODULE AtomicFile ------------------------------
(***************************************************************************)
(* What crates/blobstore-storage/src/fs_io.rs promises its callers about   *)
(* one file name, whatever temporary files and fsyncs it takes: a write    *)
(* replaces the previous file in one step or not at all, a write that has  *)
(* returned survives a crash (unless its directory cannot be opened, or is *)
(* new and not anchored yet), and a crash leaves some whole earlier file   *)
(* or none, never a mixture.                                               *)
(***************************************************************************)

CONSTANTS
    Writers,   \* the writes, each with its own body
    Paths,     \* the final file names
    Target,    \* the file name each write replaces
    Dirs,      \* the directories
    Parent,    \* the directory of each file name
    OldDirs,   \* the directories that are there from the start
    NoFile,    \* a name that has no file
    Unopenable \* the names for which success does not wait for durability

VARIABLES
    cell,      \* the body a reader of the name finds now
    saved,     \* the body it finds after a crash that leaves its directory
    anchored,  \* the directories every crash leaves
    status     \* how far each write has come

absVars == <<cell, saved, anchored, status>>

Status == {"pending", "visible", "saved", "returned", "failed"}

Init ==
    /\ cell = [p \in Paths |-> NoFile]
    /\ saved = [p \in Paths |-> NoFile]
    /\ anchored = OldDirs
    /\ status = [w \in Writers |-> "pending"]

(* The new body replaces the old one, in one step. *)
Replace(w) ==
    /\ status[w] = "pending"
    /\ cell' = [cell EXCEPT ![Target[w]] = w]
    /\ status' = [status EXCEPT ![w] = "visible"]
    /\ UNCHANGED <<saved, anchored>>

(* The file name, with all that was done to it so far, becomes durable. *)
Save(p) ==
    /\ saved' = [saved EXCEPT ![p] = cell[p]]
    /\ status' = [w \in Writers |->
                    IF Target[w] = p /\ status[w] = "visible" THEN "saved" ELSE status[w]]
    /\ UNCHANGED <<cell, anchored>>

(* A directory, and the path that leads to it, becomes durable. *)
Anchor(d) ==
    /\ anchored' = anchored \cup {d}
    /\ UNCHANGED <<cell, saved, status>>

(* Only a durable write reports success, where durability is waited for. *)
Return(w) ==
    /\ status[w] = "saved" \/ (status[w] = "visible" /\ Target[w] \in Unopenable)
    /\ status' = [status EXCEPT ![w] = "returned"]
    /\ UNCHANGED <<cell, saved, anchored>>

(* An error is reported, or the caller has gone away. *)
GiveUp(w) ==
    /\ status[w] \in {"pending", "visible", "saved"}
    /\ status' = [status EXCEPT ![w] = "failed"]
    /\ UNCHANGED <<cell, saved, anchored>>

Remove(p) ==
    /\ cell' = [cell EXCEPT ![p] = NoFile]
    /\ UNCHANGED <<saved, anchored, status>>

(* Every name has its saved body, or none if its directory is lost.  A     *)
(* write that had not begun may still come.                                *)
Crash ==
    /\ saved' = [p \in Paths |-> IF Parent[p] \in anchored THEN saved[p] ELSE NoFile]
    /\ cell' = saved'
    /\ status' \in [Writers -> Status]
    /\ \A w \in Writers :
         \/ status[w] \in {"returned", "pending"} /\ status'[w] = status[w]
         \/ status[w] # "returned" /\ status'[w] = "failed"
    /\ UNCHANGED anchored

Next ==
    \/ \E w \in Writers : Replace(w) \/ Return(w) \/ GiveUp(w)
    \/ \E p \in Paths : Save(p) \/ Remove(p)
    \/ \E d \in Dirs : Anchor(d)
    \/ Crash

Spec == Init /\ [][Next]_absVars
===============================================================================
