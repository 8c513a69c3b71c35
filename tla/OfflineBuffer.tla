--------------------------- MODULE OfflineBuffer ---------------------------
(***************************************************************************)
(* The offline telemetry buffer: internal/buffer/buffer.go.                *)
(*                                                                         *)
(* A Buffer is a directory of files batch_<UnixNano>.json and a counter    *)
(* currentSize of the bytes the agent believes are in it.  Every operation *)
(* runs under the Buffer's mutex, so an operation is one action; the agent *)
(* process can die in the middle of one, which is an action of its own.    *)
(*                                                                         *)
(* A file is the batch it was meant to hold and the number of bytes that   *)
(* reached the disk; it parses as JSON only if all of them did.            *)
(***************************************************************************)
EXTENDS Integers, FiniteSets, Functions

CONSTANTS
    Batches,    \* the values passed to Write
    SizeOf(_),  \* length of the JSON form of a batch
    MaxSize,    \* Config.MaxBufferSize
    Times,      \* readings of the clock that name a file
    Faults      \* the kinds of file-system failure that can happen

FaultKinds == {"walk", "write", "read", "remove"}

ASSUME SizeAssumption == \A b \in Batches : SizeOf(b) \in Nat \ {0}
ASSUME MaxSizeAssumption == MaxSize \in Nat
ASSUME TimesAssumption == Times \subseteq Nat
ASSUME FaultsAssumption == Faults \subseteq FaultKinds

VARIABLES
    files,        \* file-name timestamp |-> contents, for the files present
    currentSize,  \* Buffer.currentSize
    now,          \* the last clock reading that was used
    running       \* the process holding the Buffer is alive

bufferVars == <<files, currentSize, now, running>>

File == [batch : Batches, len : Nat]

Whole(f) == f.len = SizeOf(f.batch)

\* The bytes of a directory, each as <<file, offset>>.
Bytes(fs) == UNION {{t} \X (1 .. fs[t].len) : t \in DOMAIN fs}
DiskUse(fs) == Cardinality(Bytes(fs))

Put(t, b, len) ==
    [u \in DOMAIN files \cup {t} |->
        IF u = t THEN [batch |-> b, len |-> len] ELSE files[u]]

\* Bound: a process dies only while a clock reading is left for the next one.
RestartPossible(t) == t + 1 \in Times

-----------------------------------------------------------------------------
Init ==
    /\ files = [t \in {} |-> 0]
    /\ currentSize = 0
    /\ now \in Times /\ RestartPossible(now)
    /\ running = FALSE

(* New on an existing directory counts what is there.  If the walk fails   *)
(* the error is only logged and the count stays 0.  A new process never    *)
(* reads the clock value an earlier one used.                              *)
New ==
    /\ ~running
    /\ running' = TRUE
    /\ RestartPossible(now)
    /\ now' = now + 1
    /\ \/ currentSize' = DiskUse(files)
       \/ "walk" \in Faults /\ currentSize' = 0
    /\ UNCHANGED files

\* Mutant: the size of the new batch is left out of the check.
FullOffByBatch(b) == currentSize > MaxSize

(* Write refuses a batch that would take the count over the limit.         *)
Full(b) == currentSize + SizeOf(b) > MaxSize

(* Two Writes can read the same clock value: the clock is coarser than its *)
(* unit on some platforms, and os.WriteFile then replaces the older file.  *)
NameFor(t) == t \in Times /\ t \in {now, now + 1}

Write(b, t) ==
    /\ running /\ ~Full(b) /\ NameFor(t)
    /\ files' = Put(t, b, SizeOf(b))
    /\ currentSize' = currentSize + SizeOf(b)
    /\ now' = t
    /\ UNCHANGED running

(* os.WriteFile truncates, then writes, then may fail: what reached the    *)
(* disk stays there and is not counted.                                    *)
WriteTorn(b, t) ==
    /\ running /\ ~Full(b) /\ NameFor(t)
    /\ "write" \in Faults
    /\ \E k \in 0 .. SizeOf(b) - 1 : files' = Put(t, b, k)
    /\ now' = t
    /\ UNCHANGED <<currentSize, running>>

CrashInWrite(b, t) ==
    /\ running /\ ~Full(b) /\ NameFor(t) /\ RestartPossible(t)
    /\ \E k \in 0 .. SizeOf(b) : files' = Put(t, b, k)
    /\ now' = t
    /\ running' = FALSE
    /\ UNCHANGED currentSize

(* ReadAll returns every file it can open, torn ones too, and leaves out   *)
(* the others without an error.                                            *)
Readable(bad) ==
    /\ bad \subseteq DOMAIN files
    /\ bad # {} => "read" \in Faults

(* Clear tries every file, logs the removals that fail, and sets the count *)
(* to 0 whatever is left.                                                  *)
Removable(kept) ==
    /\ kept \subseteq DOMAIN files
    /\ kept # {} => "remove" \in Faults

Clear(kept) ==
    /\ running
    /\ Removable(kept)
    /\ files' = Restrict(files, kept)
    /\ currentSize' = 0
    /\ UNCHANGED <<now, running>>

\* Mutants: the sort is reversed; the loop does not stop at the limit.
OlderReversed(t, kept) == {u \in DOMAIN files \ kept : u > t}
PrunedWithoutLimit(kept) == DOMAIN files \ kept

(* Prune removes the oldest files, skipping those that cannot be removed,  *)
(* for as long as the count is over the limit: a file goes exactly if the  *)
(* count is still over it when every removable older one has gone.         *)
Older(t, kept) == {u \in DOMAIN files \ kept : u < t}

Pruned(kept) ==
    {t \in DOMAIN files \ kept :
        currentSize - DiskUse(Restrict(files, Older(t, kept))) > MaxSize}

Prune(kept) ==
    /\ running
    /\ Removable(kept)
    /\ files' = Restrict(files, DOMAIN files \ Pruned(kept))
    /\ currentSize' = currentSize - DiskUse(Restrict(files, Pruned(kept)))
    /\ UNCHANGED <<now, running>>

(* Clear and Prune both go through the directory oldest first.             *)
CrashInRemoval(kept) ==
    /\ running /\ RestartPossible(now)
    /\ Removable(kept)
    /\ running' = FALSE
    /\ \E t \in Times :
            files' = Restrict(files, {u \in DOMAIN files : u > t} \cup kept)
    /\ UNCHANGED <<currentSize, now>>

Crash ==
    /\ running /\ RestartPossible(now)
    /\ running' = FALSE
    /\ UNCHANGED <<files, currentSize, now>>

Next ==
    \/ New
    \/ \E b \in Batches, t \in Times :
            Write(b, t) \/ WriteTorn(b, t) \/ CrashInWrite(b, t)
    \/ \E kept \in SUBSET DOMAIN files :
            Clear(kept) \/ Prune(kept) \/ CrashInRemoval(kept)
    \/ Crash

Spec == Init /\ [][Next]_bufferVars

-----------------------------------------------------------------------------
TypeOK ==
    /\ DOMAIN files \subseteq Times
    /\ IsFiniteSet(DOMAIN files)
    /\ files \in [DOMAIN files -> File]
    /\ currentSize \in Nat
    /\ now \in Times
    /\ running \in BOOLEAN

(* The limit although things fail: while the count is not below what is on *)
(* the disk, nothing that grows the directory takes it over                *)
(* max_buffer_size, be it a torn write, a crash in the middle of one or a  *)
(* second file of the same name.                                           *)
GrowsWithinLimit ==
    [][running /\ DiskUse(files) <= currentSize /\ DiskUse(files') > DiskUse(files) =>
            DiskUse(files') <= MaxSize]_bufferVars

(* Without failing writes, removals or walks the directory never takes     *)
(* more than max_buffer_size bytes: not after a crash in the middle of a   *)
(* Write or of a Clear, not when two Writes pick the same name, and not    *)
(* after a restart (the check at buffer.go:54 uses only the count).        *)
CountedFaults == {"walk", "write", "remove"}
LimitHolds ==
    Faults \cap CountedFaults = {} => DiskUse(files) <= MaxSize

(* The reason: a live Buffer never counts fewer bytes than are on disk.    *)
NeverUndercounts ==
    (running /\ Faults \cap CountedFaults = {}) =>
        DiskUse(files) <= currentSize

(* Whatever fails, the count exceeds the limit only if it is exact (just   *)
(* after a New on a directory that outgrew the limit), which is why the    *)
(* subtraction in Prune cannot take it below zero.                         *)
OverLimitIsExact ==
    running /\ currentSize > MaxSize => currentSize = DiskUse(files)

(* Prune removes the oldest: it never keeps a file it could have removed   *)
(* that is older than one it removed, it stops as soon as the count is     *)
(* within the limit, and it gets there unless a removal failed.            *)
PruneStep(kept) ==
    LET gone == DOMAIN files \ DOMAIN files' IN
    /\ \A t \in gone, u \in DOMAIN files' \ kept : t < u
    /\ \A t \in gone : (\A u \in gone : u <= t) =>
                           currentSize' + files[t].len > MaxSize
    /\ kept = {} => currentSize' <= MaxSize

PruneRemovesOldest ==
    [][\A kept \in SUBSET DOMAIN files : Prune(kept) => PruneStep(kept)]_bufferVars
=============================================================================
