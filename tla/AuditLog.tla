------------------------------ MODULE AuditLog ------------------------------
(***************************************************************************)
(* The audit log: internal/logging/audit.go.                               *)
(*                                                                         *)
(* LogEvent appends an event to a file as one JSON line and syncs it, with *)
(* AuditLogger.mu held.  The convenience functions (LogBootstrap and the   *)
(* others) are LogEvents whose error is dropped.  The process may die, and *)
(* the machine may lose its power, at any step; the next process appends   *)
(* to the file it finds.                                                   *)
(***************************************************************************)
EXTENDS Integers, Sequences

CONSTANTS
    Events,   \* the events, each passed to one LogEvent
    MaxTime   \* bound: ticks of the clock

ASSUME MaxTimeAssumption == MaxTime \in Nat

VARIABLES
    file,   \* the pieces that the writes have left in the file
    at,     \* where the LogEvent of an event is
    stamp,  \* its AuditEvent.Timestamp
    open,   \* AuditLogger.file can be written
    up,     \* the process is alive
    now     \* the clock, which is not set back

auditVars == <<file, at, stamp, open, up, now>>

(* A write leaves a whole line, the JSON without its newline, or a part of *)
(* it.  What it left is in the cache of the system, is on the disk, or was *)
(* given up by a sync that failed and may or may not be there.             *)
Piece == [event : Events, stamp : Nat, what : {"line", "json", "part"},
          kept : {"cached", "disk", "doubtful"}]

InFlight == {"waiting", "locked", "written"}
Holding == {e \in Events : at[e] \in {"locked", "written"}}

\* LogEvent has returned nil for these.
Acked == {e \in Events : at[e] = "ok"}

Init ==
    /\ file = <<>>
    /\ at = [e \in Events |-> "new"] /\ stamp = [e \in Events |-> 0]
    /\ open = FALSE /\ up = FALSE
    /\ now = 0

\* NewAuditLogger opens the file to append, in a new process.
NewAuditLogger ==
    /\ ~up /\ up' = TRUE
    /\ open' = TRUE
    /\ UNCHANGED <<file, at, stamp, now>>

-----------------------------------------------------------------------------
(* LogEvent.                                                               *)

Goes(e, from, to) ==
    /\ up
    /\ at[e] = from /\ at' = [at EXCEPT ![e] = to]
    /\ UNCHANGED <<open, up, now>>

\* Called by one of the convenience functions, or directly.
LogEvent(e) == Goes(e, "new", "waiting") /\ UNCHANGED <<file, stamp>>

\* Mutant: LogEvent does not lock.
LockShared(e) ==
    /\ Goes(e, "waiting", "locked")
    /\ stamp' = [stamp EXCEPT ![e] = now]
    /\ UNCHANGED file

\* The event is stamped with the mutex held.
Lock(e) ==
    /\ Holding = {}
    /\ Goes(e, "waiting", "locked")
    /\ stamp' = [stamp EXCEPT ![e] = now]
    /\ UNCHANGED file

Leaves(e, what) ==
    /\ open
    /\ file' = Append(file, [event |-> e, stamp |-> stamp[e],
                             what |-> what, kept |-> "cached"])

Write(e) ==
    /\ Goes(e, "locked", "written")
    /\ Leaves(e, "line")
    /\ UNCHANGED stamp

(* The event does not marshal, or the write fails, as every write after    *)
(* Close does, or stops short: LogEvent returns the error.                 *)
WriteFails(e) ==
    /\ Goes(e, "locked", "failed")
    /\ UNCHANGED file \/ \E what \in {"json", "part"} : Leaves(e, what)
    /\ UNCHANGED stamp

\* A sync concerns what is in the cache only.
Cached(kept) ==
    file' = [i \in DOMAIN file |->
                IF file[i].kept = "cached" THEN [file[i] EXCEPT !.kept = kept]
                                           ELSE file[i]]

\* Mutant: LogEvent returns after the write.
SyncLeftOut(e) == Goes(e, "written", "ok") /\ UNCHANGED <<file, stamp>>

Sync(e) == Goes(e, "written", "ok") /\ Cached("disk") /\ UNCHANGED stamp

SyncFails(e) == Goes(e, "written", "failed") /\ Cached("doubtful") /\ UNCHANGED stamp

\* Mutant: Close does not lock.
CloseUnlocked ==
    /\ up /\ open
    /\ open' = FALSE
    /\ UNCHANGED <<file, at, stamp, up, now>>

\* Only the file is closed: a LogEvent that comes later tries to write to it.
Close ==
    /\ up /\ open /\ Holding = {}
    /\ open' = FALSE
    /\ UNCHANGED <<file, at, stamp, up, now>>

-----------------------------------------------------------------------------
(* The environment.                                                        *)

Dies ==
    /\ up /\ up' = FALSE /\ open' = FALSE
    /\ at' = [e \in Events |-> IF at[e] \in InFlight THEN "failed" ELSE at[e]]
    /\ UNCHANGED <<stamp, now>>

\* The process dies; the system keeps what it has written.
Crash ==
    /\ Dies
    /\ \/ UNCHANGED file
       \/ \E e \in Events, what \in {"line", "json", "part"} :
            at[e] = "locked" /\ Leaves(e, what)

\* What is not on the disk is lost, from some point on, or damaged.
PowerLoss ==
    /\ Dies
    /\ \E n \in 0 .. Len(file) :
        /\ \A i \in n + 1 .. Len(file) : file[i].kept # "disk"
        /\ \E damaged \in SUBSET {i \in 1 .. n : file[i].kept # "disk"} :
            file' = [i \in 1 .. n |->
                        [file[i] EXCEPT !.kept = "disk",
                                        !.what = IF i \in damaged THEN "part" ELSE @]]

Tick ==
    /\ now < MaxTime
    /\ now' = now + 1
    /\ UNCHANGED <<file, at, stamp, open, up>>

-----------------------------------------------------------------------------
Next ==
    \/ NewAuditLogger \/ Close \/ Crash \/ PowerLoss \/ Tick
    \/ \E e \in Events :
        \/ LogEvent(e) \/ Lock(e) \/ Write(e) \/ WriteFails(e)
        \/ Sync(e) \/ SyncFails(e)

Spec == Init /\ [][Next]_auditVars

-----------------------------------------------------------------------------
TypeOK ==
    /\ file \in Seq(Piece)
    /\ at \in [Events -> {"new", "ok", "failed"} \cup InFlight]
    /\ stamp \in [Events -> Nat]
    /\ open \in BOOLEAN /\ up \in BOOLEAN
    /\ now \in Nat
    /\ ~up => \A e \in Events : at[e] \notin InFlight
    /\ \A e \in Events : at[e] = "written" => open

(* "Sync to disk (important for audit logs)" (audit.go:79): an event that  *)
(* LogEvent returned nil for has its line on the disk, and keeps it: not a *)
(* crash, a loss of power, a later write that failed, a Close or another   *)
(* process takes it away.                                                  *)
AckedKept ==
    \A e \in Acked : \E i \in DOMAIN file :
        file[i].event = e /\ file[i].what = "line" /\ file[i].kept = "disk"

(* The log is in the order of its time stamps, however many callers race   *)
(* for the mutex and however often the process is started: read from the   *)
(* top it is the history of the agent.                                     *)
InOrder ==
    \A i, j \in DOMAIN file : i < j => file[i].stamp <= file[j].stamp
=============================================================================
