------------------------------ MODULE Updater -------------------------------
(***************************************************************************)
(* The self-update of the agent: internal/updater/updater.go.              *)
(*                                                                         *)
(* PerformUpdate downloads a binary, verifies it, renames the executable   *)
(* to <path>.old, renames the download to <path> and makes it executable;  *)
(* Rollback removes <path> and renames <path>.old back.  Paths are         *)
(* numbered: 0 is the path the service manager starts, n + 1 is the path n *)
(* with ".old" behind it.  One call of the Updater is made at a time.      *)
(***************************************************************************)
EXTENDS Integers

CONSTANTS
    Versions,       \* versions of the agent
    Platforms,      \* runtime.GOOS: the systems the agent is built for
    RestartFirst,   \* a process makes no update after one, or after a rollback
    MaxCalls,       \* bound: calls of the Updater in one behaviour
    Faults          \* what can fail

ASSUME PlatformsAssumption == Platforms \subseteq {"linux", "darwin", "windows"}
ASSUME BoundsAssumption == RestartFirst \in BOOLEAN /\ MaxCalls \in Nat
ASSUME FaultsAssumption ==
    Faults \subseteq {"download", "corrupt", "backup", "swap", "undo", "chmod",
                      "remove", "restore", "crash"}

VARIABLES
    platform,   \* the system
    files,      \* the binaries on the disk, by path
    tmp,        \* the download, or NoFile
    pc,         \* where the Updater is
    exe,        \* currentExe, as the call under way read it
    version,    \* Updater.currentVersion: what the process runs
    at,         \* the path of the file that runs
    linked,     \* that file still has a path
    changed,    \* this process has installed an update or rolled one back
    calls,      \* calls so far
    before,     \* history: the binary the call under way renamed to .old
    replaced,   \* history: the version that ran when the last swap was made
    chmodFailed \* history: a chmod has failed

process == <<exe, version, at, linked, changed>>
history == <<before, replaced, chmodFailed>>
updaterVars == <<platform, files, tmp, pc, process, calls, history>>

Binary(v, whole, exec) == [ver |-> v, whole |-> whole, exec |-> exec]
NoFile == Binary("none", FALSE, FALSE)
Binaries == [ver : Versions, whole : BOOLEAN, exec : BOOLEAN]
Runnable(f) == f.whole /\ (f.exec \/ platform = "windows")

Init ==
    /\ platform \in Platforms
    /\ \E v \in Versions :
        /\ files = [p \in {0} |-> Binary(v, TRUE, TRUE)]
        /\ version = v /\ before = Binary(v, TRUE, TRUE) /\ replaced = v
    /\ tmp = NoFile
    /\ pc = "idle" /\ exe = 0
    /\ at = 0 /\ linked = TRUE
    /\ changed = FALSE /\ calls = 0
    /\ chmodFailed = FALSE

-----------------------------------------------------------------------------
(* The system.  Linux finds the executable through /proc/self/exe, which   *)
(* follows the running file when it is renamed; the others remember the    *)
(* path it was started from.  Windows lets a running file be renamed, but  *)
(* neither removed nor replaced.                                           *)

Executable == IF platform = "linux" THEN at ELSE 0

Pinned(p) == platform = "windows" /\ linked /\ at = p

Without(p) == [q \in DOMAIN files \ {p} |-> files[q]]

Movable(from, to) == from \in DOMAIN files /\ ~Pinned(to)

Move(from, to) ==
    /\ files' = [q \in (DOMAIN files \ {from}) \cup {to} |->
                    IF q = to THEN files[from] ELSE files[q]]
    /\ at' = IF linked /\ at = from THEN to ELSE at
    /\ linked' = (linked /\ at # to)

May(fault) == fault \in Faults

-----------------------------------------------------------------------------
(* PerformUpdate.  Every way out after the download removes it.            *)

Return == pc' = "idle" /\ tmp' = NoFile

Called == pc = "idle" /\ calls < MaxCalls /\ calls' = calls + 1

\* The version is the server's choice, be it the one that runs.
Download(v, whole) ==
    /\ Called /\ (RestartFirst => ~changed)
    /\ whole \/ May("corrupt")
    /\ tmp' = Binary(v, whole, FALSE)
    /\ pc' = "verify"
    /\ UNCHANGED <<platform, files, process, history>>

DownloadFails ==
    /\ Called /\ May("download")
    /\ Return
    /\ UNCHANGED <<platform, files, process, history>>

\* Mutant: what the verification returns is not looked at.
VerifyIgnored ==
    /\ pc = "verify"
    /\ pc' = "backup" /\ tmp' = tmp
    /\ exe' = Executable
    /\ UNCHANGED <<platform, files, version, at, linked, changed, calls, history>>

\* Mutant: a wrong download is removed and the update goes on without it.
VerifyGoesOn ==
    /\ pc = "verify"
    /\ pc' = "backup"
    /\ tmp' = IF tmp.whole THEN tmp ELSE NoFile
    /\ exe' = Executable
    /\ UNCHANGED <<platform, files, version, at, linked, changed, calls, history>>

(* VerifyUpdate compares the checksum; the signature is never looked at.   *)
(* InstallUpdate asks once where the executable is.                        *)
Verify ==
    /\ pc = "verify"
    /\ IF tmp.whole THEN pc' = "backup" /\ tmp' = tmp ELSE Return
    /\ exe' = IF tmp.whole THEN Executable ELSE exe
    /\ UNCHANGED <<platform, files, version, at, linked, changed, calls, history>>

Backup ==
    /\ pc = "backup"
    /\ Movable(exe, exe + 1)
    /\ Move(exe, exe + 1)
    /\ before' = files[exe]
    /\ pc' = "swap"
    /\ UNCHANGED <<platform, tmp, exe, version, changed, calls, replaced, chmodFailed>>

BackupFails ==
    /\ pc = "backup"
    /\ May("backup") \/ ~Movable(exe, exe + 1)
    /\ Return
    /\ UNCHANGED <<platform, files, process, calls, history>>

Swap ==
    /\ pc = "swap"
    /\ files' = [p \in DOMAIN files \cup {exe} |-> IF p = exe THEN tmp ELSE files[p]]
    /\ tmp' = NoFile
    /\ replaced' = version
    /\ pc' = "chmod"
    /\ UNCHANGED <<platform, process, calls, before, chmodFailed>>

\* Mutant: the backup is cleared away when the swap fails.
SwapFailsClearing ==
    /\ pc = "swap" /\ May("swap")
    /\ files' = Without(exe + 1)
    /\ Return
    /\ UNCHANGED <<platform, process, calls, history>>

\* The backup is renamed back, and that its rename may fail is not looked at.
SwapFails ==
    /\ pc = "swap" /\ May("swap")
    /\ \/ Movable(exe + 1, exe) /\ Move(exe + 1, exe)
       \/ May("undo") /\ UNCHANGED <<files, at, linked>>
    /\ Return
    /\ UNCHANGED <<platform, exe, version, changed, calls, history>>

Chmod ==
    /\ pc = "chmod"
    /\ files' = [files EXCEPT ![exe].exec = TRUE]
    /\ changed' = TRUE
    /\ Return
    /\ UNCHANGED <<platform, exe, version, at, linked, calls, history>>

\* A chmod that fails is only a warning.
ChmodFails ==
    /\ pc = "chmod" /\ platform # "windows" /\ May("chmod")
    /\ changed' = TRUE
    /\ chmodFailed' = TRUE
    /\ Return
    /\ UNCHANGED <<platform, files, exe, version, at, linked, calls, before, replaced>>

-----------------------------------------------------------------------------
(* Rollback.                                                               *)

Removable == Executable \in DOMAIN files /\ ~Pinned(Executable)

Rollback ==
    /\ Called
    /\ Executable + 1 \in DOMAIN files /\ Removable
    /\ exe' = Executable
    /\ files' = Without(Executable)
    /\ linked' = (linked /\ at # Executable)
    /\ pc' = "restore"
    /\ UNCHANGED <<platform, tmp, version, at, changed, history>>

RollbackFails ==
    /\ Called
    /\ Executable + 1 \notin DOMAIN files \/ ~Removable \/ May("remove")
    /\ UNCHANGED <<platform, files, tmp, pc, process, history>>

\* Mutant: a binary of the version that runs is put back, not the backup.
RestoreRunning ==
    /\ pc = "restore"
    /\ files' = [p \in DOMAIN files \cup {exe} |->
                    IF p = exe THEN Binary(version, TRUE, TRUE) ELSE files[p]]
    /\ pc' = "idle"
    /\ changed' = TRUE
    /\ UNCHANGED <<platform, tmp, exe, version, at, linked, calls, history>>

Restore ==
    /\ pc = "restore"
    /\ Move(exe + 1, exe)
    /\ pc' = "idle"
    /\ changed' = TRUE
    /\ UNCHANGED <<platform, tmp, exe, version, calls, history>>

RestoreFails ==
    /\ pc = "restore" /\ May("restore")
    /\ pc' = "idle"
    /\ UNCHANGED <<platform, files, tmp, process, calls, history>>

-----------------------------------------------------------------------------
(* The process ends, in the middle of a call only by a crash, and the      *)
(* service manager starts what is at the path 0, if it can.                *)
Exit ==
    /\ pc = "idle" \/ (pc # "down" /\ May("crash"))
    /\ pc' = "down"
    /\ UNCHANGED <<platform, files, tmp, process, calls, history>>

Startable == 0 \in DOMAIN files /\ Runnable(files[0])

Start ==
    /\ pc = "down" /\ Startable
    /\ pc' = "idle" /\ exe' = 0
    /\ version' = files[0].ver
    /\ at' = 0 /\ linked' = TRUE
    /\ changed' = FALSE
    /\ UNCHANGED <<platform, files, tmp, calls, history>>

Next ==
    \/ \E v \in Versions, whole \in BOOLEAN : Download(v, whole)
    \/ DownloadFails \/ Verify
    \/ Backup \/ BackupFails \/ Swap \/ SwapFails \/ Chmod \/ ChmodFails
    \/ Rollback \/ RollbackFails \/ Restore \/ RestoreFails
    \/ Exit \/ Start

Spec == Init /\ [][Next]_updaterVars

-----------------------------------------------------------------------------
TypeOK ==
    /\ platform \in Platforms
    /\ DOMAIN files \subseteq 0 .. MaxCalls
    /\ \A p \in DOMAIN files : files[p] \in Binaries
    /\ tmp \in Binaries \cup {NoFile}
    /\ pc \in {"idle", "verify", "backup", "swap", "chmod", "restore", "down"}
    /\ exe \in 0 .. MaxCalls /\ at \in 0 .. MaxCalls /\ linked \in BOOLEAN
    /\ version \in Versions /\ replaced \in Versions /\ before \in Binaries
    /\ changed \in BOOLEAN /\ calls \in 0 .. MaxCalls
    /\ chmodFailed \in BOOLEAN

(* "Verify SHA256 checksum" comes before the swap (docs/SECURITY.md:188):  *)
(* no binary that differs from its checksum gets a path an agent is        *)
(* started from or rolled back to.                                         *)
OnlyVerified == \A p \in DOMAIN files : files[p].whole

(* Whatever fails and wherever the process dies, a binary that can be run  *)
(* is left under one of the paths, unless a chmod has failed, which        *)
(* updater.go:225 only warns about.                                        *)
CopyStays == chmodFailed \/ \E p \in DOMAIN files : Runnable(files[p])

(* A swap that fails loses nothing: the binary that was renamed away is    *)
(* back, or still there as the backup (updater.go:217-219).                *)
FailureKeeps ==
    [][pc = "swap" /\ pc' = "idle" =>
        \E p \in {exe, exe + 1} \cap DOMAIN files' : files'[p] = before]_updaterVars

(* "Rollback restores the previous version" (updater.go:233): the version  *)
(* that ran when the executable was last replaced, if every process is     *)
(* restarted after an update or a rollback, before the next update.        *)
RollbackRestores ==
    [][pc = "restore" /\ files' # files => files'[exe].ver = replaced]_updaterVars
=============================================================================
