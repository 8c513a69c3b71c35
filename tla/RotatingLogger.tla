--------------------------- MODULE RotatingLogger ---------------------------
(***************************************************************************)
(* The logger with rotation: internal/logging/logger.go.                   *)
(*                                                                         *)
(* Goroutines log lines under Logger.mu.  A line goes to the standard      *)
(* output and then to the file; when the size that was counted reaches the *)
(* limit the numbered backups are renamed one up, the file becomes .1, a   *)
(* new one is opened and the logger logs a line of its own, through the    *)
(* same mutex.  Lines are numbered as they are logged; every line has the  *)
(* size 1.                                                                 *)
(***************************************************************************)
EXTENDS Integers, FiniteSets

CONSTANTS
    Callers,     \* goroutines that use the logger
    Levels,      \* the levels it can be set to: INFO is 1, WARNING 2
    MaxSize,     \* Logger.maxSize, in lines
    MaxBackups,  \* Logger.maxBackups
    MaxLines,    \* bound: lines logged in one behaviour
    Faults       \* what can fail

INFO == 1
Severities == 0 .. 4   \* DEBUG to FATAL

ASSUME LevelsAssumption == Levels \subseteq Severities
ASSUME SizesAssumption ==
    /\ MaxSize \in Nat \ {0} /\ MaxBackups \in Nat /\ MaxLines \in Nat
ASSUME FaultsAssumption == Faults \subseteq {"stdout", "rename", "open", "crash"}

VARIABLES
    disk,      \* the files: 0 is the log, n its backup .n, each a set of lines
    written,   \* number of the last line logged
    missed,    \* history: lines that reached no file
    replaced,  \* history: lines that a failed rename cost
    size,      \* Logger.currentSize
    uncounted, \* history: lines of the log when the last rotation could not rename it
    open,      \* Logger.file is not closed
    level,     \* Logger.level
    running,   \* there is a process with a logger
    caller     \* what each goroutine does

history == <<missed, replaced>>
counted == <<size, uncounted>>
loggerVars == <<disk, written, history, counted, open, level, running, caller>>

Init ==
    /\ disk = [n \in {} |-> {}]
    /\ written = 0 /\ missed = {} /\ replaced = {}
    /\ size = 0 /\ uncounted = {} /\ open = FALSE
    /\ level \in Levels
    /\ running = FALSE
    /\ caller = [p \in Callers |-> "idle"]

OpenLog(d) == [n \in DOMAIN d \cup {0} |-> IF n \in DOMAIN d THEN d[n] ELSE {}]

\* Mutant: a file that is already there is not measured.
NewLoggerFromZero ==
    /\ ~running
    /\ disk' = OpenLog(disk) /\ size' = 0 /\ uncounted' = {}
    /\ running' = TRUE /\ open' = TRUE
    /\ level' \in Levels
    /\ UNCHANGED <<written, history, caller>>

\* NewLogger appends to the file of an earlier process.
NewLogger ==
    /\ ~running
    /\ disk' = OpenLog(disk)
    /\ size' = Cardinality(disk'[0]) /\ uncounted' = {}
    /\ running' = TRUE /\ open' = TRUE
    /\ level' \in Levels
    /\ UNCHANGED <<written, history, caller>>

-----------------------------------------------------------------------------
(* A line of severity s is below the level, or waits for the mutex.  A     *)
(* goroutine that is stuck in log keeps the mutex.                         *)

Unlocked == \A p \in Callers : caller[p] # "stuck"

\* Mutant: the comparison is turned round.
LogsSwapped(s) == s <= level

Logs(s) == s >= level

Call(p, s) ==
    /\ running /\ caller[p] = "idle"
    /\ written < MaxLines
    /\ Logs(s)
    /\ caller' = [caller EXCEPT ![p] = "locking"]
    /\ UNCHANGED <<disk, written, history, counted, open, level, running>>

(* io.MultiWriter gives up at the first writer that fails; a closed file   *)
(* takes nothing.                                                          *)
WriteLine(reached) ==
    /\ written' = written + 1
    /\ reached = FALSE => "stdout" \in Faults \/ ~open
    /\ reached => open
    /\ missed' = IF reached THEN missed ELSE missed \cup {written'}

Written(reached) ==
    IF reached THEN [disk EXCEPT ![0] = @ \cup {written + 1}] ELSE disk

\* rotate renames the log to .1 even if no backups are to be kept.
Oldest == IF MaxBackups = 0 THEN 1 ELSE MaxBackups

\* Mutant: the log becomes the first backup number that is free, else the last.
RenamedToFree(d, last, failed) ==
    LET free == {n \in 1 .. Oldest : n \notin DOMAIN d} \cup {Oldest}
        to   == CHOOSE n \in free : \A m \in free : n <= m
    IN  IF last > 0 \/ 0 \notin DOMAIN d \/ 0 \in failed THEN d
        ELSE [n \in (DOMAIN d \ {0}) \cup {to} |-> IF n = to THEN d[0] ELSE d[n]]

\* Mutant: off by one, the oldest backup goes one up too.
RenamedOffByOne(d, last, failed) ==
    LET moved == {n \in DOMAIN d \ failed : last <= n /\ n <= Oldest}
    IN  [n \in (DOMAIN d \ moved) \cup {m + 1 : m \in moved} |->
            IF n - 1 \in moved THEN d[n - 1] ELSE d[n]]

(* The files from number last up to the oldest but one go one up, the      *)
(* highest first.  What os.Rename returns is not looked at: a file whose   *)
(* rename failed stays, and the next one is renamed over it.               *)
Moved(d, last, failed) == {n \in DOMAIN d \ failed : last <= n /\ n < Oldest}

Renamed(d, last, failed) ==
    LET moved == Moved(d, last, failed)
    IN  [n \in (DOMAIN d \ moved) \cup {m + 1 : m \in moved} |->
            IF n - 1 \in moved THEN d[n - 1] ELSE d[n]]

\* The lines that a failed rename costs; the oldest backup goes in any case.
RenamedOver(d, last, failed) ==
    LET moved == Moved(d, last, failed)
    IN  UNION {d[n] : n \in {m \in DOMAIN d \ moved : m < Oldest /\ m - 1 \in moved}}

Return(p) == caller' = [caller EXCEPT ![p] = "idle"]

Due == size + 1 >= MaxSize

Log(p, reached) ==
    /\ running /\ caller[p] = "locking" /\ Unlocked
    /\ ~Due
    /\ WriteLine(reached)
    /\ disk' = Written(reached)
    /\ size' = size + 1
    /\ Return(p)
    /\ UNCHANGED <<replaced, uncounted, open, level, running>>

\* A line that makes a rotation due, and its renames down to number last.
LogAndRename(p, reached, failed, last) ==
    /\ running /\ caller[p] = "locking" /\ Unlocked
    /\ Due
    /\ failed = {} \/ "rename" \in Faults
    /\ WriteLine(reached)
    /\ replaced' = replaced \cup RenamedOver(Written(reached), last, failed)

(* A log that could not be renamed is appended to, and counted from 0.     *)
(* After the file is open, rotate calls Info, which takes the mutex that   *)
(* log holds, unless the level leaves it out.                              *)
LogAndRotate(p, reached, failed) ==
    /\ LogAndRename(p, reached, failed, 0)
    /\ disk' = OpenLog(Renamed(Written(reached), 0, failed))
    /\ size' = 0 /\ uncounted' = disk'[0] /\ open' = TRUE
    /\ IF Logs(INFO)
       THEN caller' = [caller EXCEPT ![p] = "stuck"]
       ELSE Return(p)
    /\ UNCHANGED <<level, running>>

(* The file cannot be opened: the old one is closed, the size stays, and   *)
(* every later line rotates again.                                         *)
LogAndFailToRotate(p, reached, failed) ==
    /\ LogAndRename(p, reached, failed, 0)
    /\ "open" \in Faults
    /\ disk' = Renamed(Written(reached), 0, failed)
    /\ size' = size + 1 /\ open' = FALSE
    /\ Return(p)
    /\ UNCHANGED <<uncounted, level, running>>

SetLevel(l) ==
    /\ running /\ Unlocked
    /\ level' = l
    /\ UNCHANGED <<disk, written, history, counted, open, running, caller>>

Close ==
    /\ running /\ Unlocked
    /\ open' = FALSE
    /\ UNCHANGED <<disk, written, history, counted, level, running, caller>>

Gone ==
    /\ running' = FALSE /\ open' = FALSE /\ size' = 0 /\ uncounted' = {}
    /\ caller' = [p \in Callers |-> "idle"]
    /\ UNCHANGED level

Crash ==
    /\ running /\ "crash" \in Faults
    /\ Gone
    /\ UNCHANGED <<disk, written, history>>

\* The process dies in a rotation, after the renames down to number last.
CrashInRotation(p, reached, failed, last) ==
    /\ LogAndRename(p, reached, failed, last)
    /\ "crash" \in Faults
    /\ disk' = Renamed(Written(reached), last, failed)
    /\ Gone

Next ==
    \/ NewLogger \/ Close \/ Crash
    \/ \E l \in Levels : SetLevel(l)
    \/ \E p \in Callers, s \in Severities : Call(p, s)
    \/ \E p \in Callers, reached \in BOOLEAN :
        \/ Log(p, reached)
        \/ \E failed \in SUBSET (DOMAIN disk \ {Oldest}) :
            \/ LogAndRotate(p, reached, failed)
            \/ LogAndFailToRotate(p, reached, failed)
            \/ \E last \in 0 .. Oldest : CrashInRotation(p, reached, failed, last)

Spec == Init /\ [][Next]_loggerVars

\* A goroutine that waits for the mutex gets it in the end if it is given back.
LiveSpec ==
    /\ Spec
    /\ \A p \in Callers :
        SF_loggerVars(\E reached \in BOOLEAN :
            \/ Log(p, reached)
            \/ \E failed \in SUBSET (DOMAIN disk \ {Oldest}) :
                \/ LogAndRotate(p, reached, failed)
                \/ LogAndFailToRotate(p, reached, failed))

-----------------------------------------------------------------------------
TypeOK ==
    /\ DOMAIN disk \subseteq 0 .. Oldest
    /\ \A n \in DOMAIN disk : disk[n] \subseteq 1 .. written
    /\ written \in Nat
    /\ missed \subseteq 1 .. written /\ replaced \subseteq 1 .. written
    /\ size \in Nat /\ uncounted \subseteq 1 .. written
    /\ open \in BOOLEAN /\ running \in BOOLEAN
    /\ level \in Levels
    /\ caller \in [Callers -> {"idle", "locking", "stuck"}]

Kept == UNION {disk[n] : n \in DOMAIN disk}

(* "agent.log.1 # Previous log, agent.log.2 # Older log"                   *)
(* (docs/LOGGING.md:52-54): a higher number holds older lines only, also   *)
(* when renames failed, or a rotation was cut short or could not open its  *)
(* new file.                                                               *)
NewestFirst ==
    \A m, n \in DOMAIN disk : m < n =>
        \A x \in disk[m], y \in disk[n] : y < x

(* "Old logs beyond log_max_backups are automatically deleted"             *)
(* (docs/LOGGING.md:57), and only old ones: no line that reached a file is *)
(* deleted while an older one is kept, except with a backup whose own      *)
(* rename failed (logger.go:152) and that the next one was renamed over.   *)
(* No line is in two files.                                                *)
OnlyOldDeleted ==
    /\ \A x \in 1 .. written : x \notin Kept \cup missed \cup replaced =>
            \A y \in Kept : x < y
    /\ \A m, n \in DOMAIN disk : m # n => disk[m] \cap disk[n] = {}

(* The counted size is not below the size of the file, so that a log that  *)
(* grew over several processes is rotated too, except by the lines that    *)
(* were there when the rename of the log failed (logger.go:157), after     *)
(* which the count begins at 0 (:169).                                     *)
NeverUndercounts ==
    running /\ 0 \in DOMAIN disk => Cardinality(disk[0] \ uncounted) <= size

(* "Logs are automatically rotated when they reach the configured size"    *)
(* (docs/LOGGING.md:48), and the program goes on: a call returns.          *)
LogReturns == \A p \in Callers : caller[p] # "idle" ~> caller[p] = "idle"
=============================================================================
