------------------------------ MODULE BlobStore ------------------------------
(***************************************************************************)
(* Attachments of channels, kept by content under a cap with LRU eviction: *)
(* src/channels/blobStore.ts.  Operations of one store follow each other;  *)
(* what can come between the steps of one is a crash, an error of the      *)
(* disk, and somebody who removes or damages a file.                       *)
(***************************************************************************)
EXTENDS Naturals, FiniteSets, FiniteSetsExt

CONSTANTS
    Blobs,          \* digests
    SizeOf,         \* bytes of each
    MaxBytes,       \* maxBytes, 0 for none
    MaxEntries,     \* maxEntries, 0 for none
    MaxBlobOps,     \* bound on the operations
    MaxBlobFaults   \* bound on crashes, disk errors and touched files

BlobConstants ==
    /\ IsFiniteSet(Blobs)
    /\ SizeOf \in [Blobs -> Nat \ {0}]
    /\ {MaxBytes, MaxEntries, MaxBlobOps, MaxBlobFaults} \subseteq Nat

VARIABLES
    blobFile,   \* the files named by their digests: their content and mtime
    metaFile,   \* the .meta files: MIME type and last access
    index,      \* the map of a running store
    loaded,     \* initialized
    blobOp,     \* the operation that holds the lock
    blobClock,  \* now, moved by each operation
    blobFaults, \* crashes, errors and touched files so far
    begun,      \* history: the last operation on each blob that began
    returned    \* history: the last operation on each blob that returned

blobVars == <<blobFile, metaFile, index, loaded, blobOp, blobClock, blobFaults, begun, returned>>

Mimes == {"octet-stream", "image"}
Absent == [at |-> 0]
Entry == [mime : Mimes, at : 1..MaxBlobOps]
File == [at : 1..MaxBlobOps, good : BOOLEAN]
NoOp == [op |-> "none"]

Init ==
    /\ blobFile = [b \in Blobs |-> Absent] /\ metaFile = blobFile /\ index = blobFile
    /\ loaded = FALSE
    /\ blobOp = NoOp
    /\ blobClock = 0 /\ blobFaults = 0
    /\ begun = [b \in Blobs |-> 0] /\ returned = begun

Held(f) == {b \in Blobs : f[b] # Absent}
Indexed == Held(index)
Goes(pc) == blobOp' = [blobOp EXCEPT !.pc = pc]
Returns ==
    /\ blobOp' = NoOp
    /\ returned' = [returned EXCEPT ![blobOp.blob] = blobClock]
Rejects == blobOp' = NoOp /\ UNCHANGED returned

IsOverCap(held) ==
    \/ MaxEntries > 0 /\ Cardinality(held) > MaxEntries
    \/ MaxBytes > 0 /\ MapThenSumSet(LAMBDA b : SizeOf[b], held) > MaxBytes

\* A bug: the youngest goes.
PickMostRecentlyUsed(b) ==
    \A x \in Indexed \ {blobOp.protected} : index[x].at <= index[b].at

\* pickLeastRecentlyUsed; equal times only follow from a clock that stands still.
PickLeastRecentlyUsed(b) ==
    \A x \in Indexed \ {blobOp.protected} : index[b].at <= index[x].at

-----------------------------------------------------------------------------
(* put, get and getMetadata up to their first write. *)

\* put refuses what exceeds the cap before it takes the lock.
Call(op, b) ==
    /\ blobOp = NoOp /\ blobClock < MaxBlobOps
    /\ op = "put" /\ MaxBytes > 0 => SizeOf[b] <= MaxBytes
    /\ blobClock' = blobClock + 1
    /\ begun' = [begun EXCEPT ![b] = blobClock + 1]
    /\ blobOp' = [op |-> op, blob |-> b, protected |-> "none", victim |-> b,
                  pc |-> IF loaded THEN "look" ELSE "load"]
    /\ UNCHANGED <<blobFile, metaFile, index, loaded, blobFaults, returned>>

\* initializeLocked: the files are the truth, their sidecars a help.  An entry
\* that an earlier load left without its file stays.
Load ==
    /\ blobOp # NoOp /\ blobOp.pc = "load"
    /\ index' = [b \in Blobs |->
                   CASE blobFile[b] = Absent -> index[b]
                     [] blobFile[b] # Absent /\ metaFile[b] # Absent -> metaFile[b]
                     [] OTHER -> [mime |-> "octet-stream", at |-> blobFile[b].at]]
    /\ Goes("evict")
    /\ UNCHANGED <<blobFile, metaFile, loaded, blobClock, blobFaults, begun, returned>>

\* put finds its blob, whose content is what its name says.
PutKnown ==
    /\ blobOp # NoOp /\ blobOp.op = "put" /\ blobOp.pc = "look"
    /\ index[blobOp.blob] # Absent
    /\ blobFile[blobOp.blob] # Absent /\ blobFile[blobOp.blob].good
    /\ \E m \in Mimes : index' = [index EXCEPT ![blobOp.blob] =
           [mime |-> IF @.mime = "octet-stream" THEN m ELSE @.mime, at |-> blobClock]]
    /\ Goes("touch")
    /\ UNCHANGED <<blobFile, metaFile, loaded, blobClock, blobFaults, begun, returned>>

PutNew ==
    /\ blobOp # NoOp /\ blobOp.op = "put" /\ blobOp.pc = "look"
    /\ \/ index[blobOp.blob] = Absent
       \/ blobFile[blobOp.blob] = Absent
       \/ blobFile[blobOp.blob] # Absent /\ ~blobFile[blobOp.blob].good
    /\ index' = [index EXCEPT ![blobOp.blob] = Absent]
    /\ Goes("write")
    /\ UNCHANGED <<blobFile, metaFile, loaded, blobClock, blobFaults, begun, returned>>

\* get and getMetadata do not look at the content.
Read ==
    /\ blobOp # NoOp /\ blobOp.op = "get" /\ blobOp.pc = "look"
    /\ IF index[blobOp.blob] # Absent /\ blobFile[blobOp.blob] # Absent
       THEN /\ index' = [index EXCEPT ![blobOp.blob].at = blobClock]
            /\ Goes("touch")
            /\ UNCHANGED <<metaFile, returned>>
       ELSE /\ index' = [index EXCEPT ![blobOp.blob] = Absent]
            /\ metaFile' = IF index[blobOp.blob] = Absent THEN metaFile
                           ELSE [metaFile EXCEPT ![blobOp.blob] = Absent]
            /\ Rejects
    /\ UNCHANGED <<blobFile, loaded, blobClock, blobFaults, begun>>

-----------------------------------------------------------------------------
(* Writes: each replaces a file whole (writeAtomicFile). *)

WriteBlob ==
    /\ blobOp # NoOp /\ blobOp.pc = "write"
    /\ blobFile' = [blobFile EXCEPT ![blobOp.blob] = [at |-> blobClock, good |-> TRUE]]
    /\ index' = [index EXCEPT ![blobOp.blob] = [mime |-> "image", at |-> blobClock]]
    /\ Goes("describe")
    /\ UNCHANGED <<metaFile, loaded, blobClock, blobFaults, begun, returned>>

WriteMetadata ==
    /\ blobOp # NoOp /\ blobOp.pc \in {"touch", "describe"}
    /\ metaFile' = [metaFile EXCEPT ![blobOp.blob] = index[blobOp.blob]]
    /\ IF blobOp.pc = "touch" THEN Returns
       ELSE /\ blobOp' = [blobOp EXCEPT !.pc = "evict", !.protected = blobOp.blob]
            /\ UNCHANGED returned
    /\ UNCHANGED <<blobFile, index, loaded, blobClock, blobFaults, begun>>

\* evictUntilUnderCapLocked: a victim's blob goes first, then its sidecar.
EvictBlob(b) ==
    /\ blobOp # NoOp /\ blobOp.pc = "evict" /\ IsOverCap(Indexed)
    /\ b \in Indexed \ {blobOp.protected} /\ PickLeastRecentlyUsed(b)
    /\ blobFile' = [blobFile EXCEPT ![b] = Absent]
    /\ blobOp' = [blobOp EXCEPT !.pc = "unlink", !.victim = b]
    /\ UNCHANGED <<metaFile, index, loaded, blobClock, blobFaults, begun, returned>>

EvictMetadata ==
    /\ blobOp # NoOp /\ blobOp.pc = "unlink"
    /\ metaFile' = [metaFile EXCEPT ![blobOp.victim] = Absent]
    /\ index' = [index EXCEPT ![blobOp.victim] = Absent]
    /\ Goes("evict")
    /\ UNCHANGED <<blobFile, loaded, blobClock, blobFaults, begun, returned>>

\* Under the cap: the store is loaded, or the put is done.
Evicted ==
    /\ blobOp # NoOp /\ blobOp.pc = "evict" /\ ~IsOverCap(Indexed)
    /\ loaded' = TRUE
    /\ IF loaded THEN Returns ELSE Goes("look") /\ UNCHANGED returned
    /\ UNCHANGED <<blobFile, metaFile, index, blobClock, blobFaults, begun>>

-----------------------------------------------------------------------------
(* Faults. *)

Fault == blobFaults < MaxBlobFaults /\ blobFaults' = blobFaults + 1

\* A write or an unlink fails: the operation rejects, the store goes on.
DiskError ==
    /\ Fault /\ blobOp # NoOp /\ blobOp.pc \in {"write", "touch", "describe", "evict", "unlink"}
    /\ Rejects
    /\ UNCHANGED <<blobFile, metaFile, index, loaded, blobClock, begun>>

Crash ==
    /\ Fault
    /\ loaded' = FALSE
    /\ index' = [b \in Blobs |-> Absent]
    /\ Rejects
    /\ UNCHANGED <<blobFile, metaFile, blobClock, begun>>

\* A file is removed or damaged from outside.
Touched(b) ==
    /\ Fault /\ blobFile[b] # Absent
    /\ \/ blobFile' = [blobFile EXCEPT ![b] = Absent] /\ UNCHANGED metaFile
       \/ blobFile' = [blobFile EXCEPT ![b].good = FALSE] /\ UNCHANGED metaFile
       \/ metaFile' = [metaFile EXCEPT ![b] = Absent] /\ UNCHANGED blobFile
    /\ UNCHANGED <<index, loaded, blobOp, blobClock, begun, returned>>

BlobStep ==
    \/ Load \/ PutKnown \/ PutNew \/ Read \/ WriteBlob \/ WriteMetadata
    \/ \E b \in Blobs : EvictBlob(b)
    \/ EvictMetadata \/ Evicted

Next ==
    \/ \E b \in Blobs : \/ \E op \in {"put", "get"} : Call(op, b)
                        \/ Touched(b)
    \/ BlobStep \/ DiskError \/ Crash

Spec == Init /\ [][Next]_blobVars

-----------------------------------------------------------------------------

\* Every variable has its type.
TypeOK ==
    /\ blobFile \in [Blobs -> File \cup {Absent}]
    /\ metaFile \in [Blobs -> Entry \cup {Absent}]
    /\ index \in [Blobs -> Entry \cup {Absent}]
    /\ loaded \in BOOLEAN
    /\ blobOp = NoOp \/
       /\ blobOp.op \in {"put", "get"} /\ {blobOp.blob, blobOp.victim} \subseteq Blobs
       /\ blobOp.protected \in Blobs \cup {"none"}
       /\ blobOp.pc \in {"load", "look", "write", "touch", "describe", "evict", "unlink"}
    /\ {blobClock} \cup {begun[b] : b \in Blobs} \cup {returned[b] : b \in Blobs} \subseteq 0..MaxBlobOps
    /\ blobFaults \in 0..MaxBlobFaults

\* What goes was used no later than what stays: by operations that returned,
\* against operations that began.
OldestGoes ==
    \A v, x \in Blobs :
        /\ blobFile[v] # Absent /\ blobFile'[v] = Absent /\ blobFaults' = blobFaults
        /\ blobFaults <= 1
        /\ x \in Indexed \ {v, blobOp.protected}
        => returned[v] <= begun[x]

\* Eviction takes the oldest, across a crash and a restart.  More faults than one
\* break it: a load after a sidecar went dates its blob by the file.
EvictsOldest == [][OldestGoes]_blobVars

\* Between operations of a store that met no fault, the index is the files, it
\* is under the cap, and what was used last is there.
IndexIsDisk ==
    blobOp = NoOp /\ loaded /\ blobFaults = 0 =>
        /\ \A b \in Blobs : (index[b] = Absent) = (blobFile[b] = Absent)
        /\ metaFile = index
        /\ ~IsOverCap(Indexed)
        /\ \A b \in Blobs : begun[b] = blobClock /\ returned[b] = blobClock => b \in Indexed

\* When a put or a load is done the files are under the cap, also after a fault:
\* what a crash or an error left is not forgotten.  A second fault breaks it for a
\* damaged blob, which a put takes out of the index before the write that fails:
\* the files that are whole stay under the cap.
CapIsKept ==
    [][/\ blobOp # NoOp /\ blobOp.pc = "evict"
       /\ returned' # returned \/ (~loaded /\ loaded')
       => ~IsOverCap({b \in Held(blobFile') : blobFaults <= 1 \/ blobFile'[b].good})]_blobVars
=============================================================================
