--------------------------- MODULE Updater_proofs ---------------------------
(***************************************************************************)
(* Updater for any versions and any number of calls, with every fault:     *)
(* what is installed was verified, a binary that can be run stays on the   *)
(* disk, and a failed swap loses nothing.  If every process is restarted   *)
(* before the next update, Rollback restores the version it replaced.      *)
(***************************************************************************)
EXTENDS Updater, TLAPS

(* Every call renames a file one path up at most once, after it was        *)
(* counted.                                                                *)
Bounded ==
    /\ \A p \in DOMAIN files : p \in 0 .. calls
    /\ pc \in {"verify", "backup"} =>
        /\ calls > 0 /\ at < calls
        /\ \A p \in DOMAIN files : p < calls
    /\ pc = "backup" => exe < calls
    /\ exe \in 0 .. calls /\ at \in 0 .. calls

\* The download that is there was verified before any file is touched.
Verified ==
    /\ pc \in {"verify", "backup", "swap"} => tmp \in Binaries
    /\ pc \in {"backup", "swap"} => tmp.whole

(* Where the call is, on the disk: between its two renames the executable  *)
(* has no file, and the one that runs was renamed with it or has no path.  *)
Midway ==
    /\ pc = "backup" => exe = Executable
    /\ pc \in {"swap", "chmod", "restore"} =>
        /\ exe + 1 \in DOMAIN files
        /\ platform # "linux" => exe = 0
        /\ platform = "linux" => at = IF linked THEN exe + 1 ELSE exe
        /\ linked => at # exe
    /\ pc \in {"swap", "restore"} => exe \notin DOMAIN files
    /\ pc = "swap" => files[exe + 1] = before

Usable(p) == p \in DOMAIN files /\ Runnable(files[p])

\* The file that runs is a copy of the agent, as long as it has a path.
RunningFile ==
    linked =>
        /\ at \in DOMAIN files
        /\ files[at].ver = version
        /\ chmodFailed \/ Usable(at)

(* A binary that cannot be run, left by a crash between the swap and the   *)
(* chmod, always has one that can be run behind it, and none is renamed    *)
(* over that one.                                                          *)
CopyBehind ==
    chmodFailed \/ \A p \in DOMAIN files : \E q \in DOMAIN files : q >= p /\ Usable(q)

NotOverLast ==
    pc \in {"idle", "verify", "backup"} /\ Executable \in DOMAIN files =>
        \/ chmodFailed \/ Usable(Executable)
        \/ \E q \in DOMAIN files : q >= Executable + 2 /\ Usable(q)

IInv ==
    /\ TypeOK /\ OnlyVerified /\ DOMAIN files # {}
    /\ Bounded /\ Verified /\ Midway /\ RunningFile
    /\ CopyBehind /\ NotOverLast

-----------------------------------------------------------------------------
(* With a restart after every update.                                      *)

\* There are at most two files, and the second is the version replaced.
Pair(b) == \A p \in DOMAIN files : p \in {b, b + 1}

TwoFiles ==
    /\ pc \in {"swap", "chmod", "restore"} => Pair(exe)
    /\ pc \in {"idle", "verify", "backup"} =>
        Pair(Executable) \/ (changed /\ Pair(Executable - 1))
    /\ \E b \in -1 .. MaxCalls : Pair(b)

OlderIsReplaced ==
    /\ \A p \in DOMAIN files : p + 1 \in DOMAIN files => files[p + 1].ver = replaced
    /\ pc = "restore" => files[exe + 1].ver = replaced

\* A process that has changed nothing runs the file it is about to replace.
ReplacesItself ==
    /\ pc \in {"verify", "backup", "swap", "chmod"} => ~changed
    /\ pc \in {"idle", "verify", "backup"} /\ ~changed /\ Executable \in DOMAIN files =>
        linked /\ at = Executable
    /\ pc \in {"swap", "chmod"} => linked /\ at = exe + 1

RInv == TwoFiles /\ OlderIsReplaced /\ ReplacesItself

-----------------------------------------------------------------------------
(* Lemmas on the operators of the module.                                  *)

LEMMA PathTypes ==
    ASSUME TypeOK
    PROVE  /\ DOMAIN files \subseteq Nat /\ exe \in Nat /\ at \in Nat /\ calls \in Nat
           /\ Executable \in Nat /\ MaxCalls \in Nat
BY BoundsAssumption DEF TypeOK, Executable

LEMMA Moved ==
    ASSUME NEW from \in DOMAIN files, NEW to, from # to, Move(from, to)
    PROVE  /\ DOMAIN files' = (DOMAIN files \ {from}) \cup {to}
           /\ files'[to] = files[from]
           /\ \A q \in DOMAIN files \ {from, to} : files'[q] = files[q]
           /\ at' = IF linked /\ at = from THEN to ELSE at
           /\ linked' = (linked /\ at # to)
BY DEF Move

\* A rename loses no property of the files, and the process follows its file.
LEMMA MovedFiles ==
    ASSUME IInv, NEW from \in DOMAIN files, NEW to \in Nat, from # to, Move(from, to),
           UNCHANGED <<platform, version, chmodFailed>>
    PROVE  /\ \A p \in DOMAIN files' : files'[p] \in Binaries /\ files'[p].whole
           /\ DOMAIN files' # {}
           /\ linked' \in BOOLEAN /\ at' \in Nat
           /\ RunningFile'
<1>1. /\ DOMAIN files' = (DOMAIN files \ {from}) \cup {to}
      /\ files'[to] = files[from]
      /\ \A q \in DOMAIN files \ {from, to} : files'[q] = files[q]
      /\ at' = IF linked /\ at = from THEN to ELSE at
      /\ linked' = (linked /\ at # to)
  BY Moved
<1>2. \A p \in DOMAIN files : files[p] \in Binaries /\ files[p].whole
  BY DEF IInv, TypeOK, OnlyVerified
<1>3. linked \in BOOLEAN /\ at \in Nat
  BY PathTypes DEF IInv, TypeOK
<1>4. RunningFile'
  <2> SUFFICES ASSUME linked' PROVE at' \in DOMAIN files' /\ files'[at'] = files[at]
    BY <1>1 DEF IInv, RunningFile, Usable, Runnable
  <2>1. linked /\ at # to /\ at \in DOMAIN files
    BY <1>1 DEF IInv, RunningFile
  <2> QED BY <1>1, <2>1
<1> QED BY <1>1, <1>2, <1>3, <1>4

\* A file that is still there can be run if it could before.
LEMMA StaysUsable ==
    ASSUME NEW p, NEW q \in DOMAIN files', UNCHANGED platform,
           Usable(p), files'[q] = files[p]
    PROVE  Usable(q)'
BY DEF Usable, Runnable

\* The rename of .old back: the file that is restored may not be one to run,
\* but then there is one behind it.
LEMMA MovedBack ==
    ASSUME IInv, exe + 1 \in DOMAIN files, exe \notin DOMAIN files,
           Move(exe + 1, exe), UNCHANGED <<platform, exe, chmodFailed>>
    PROVE  /\ CopyBehind'
           /\ chmodFailed' \/ Usable(exe)'
                \/ \E q \in DOMAIN files' : q >= exe + 2 /\ Usable(q)'
<1>1. exe \in Nat /\ DOMAIN files \subseteq Nat /\ exe + 1 # exe
  BY PathTypes DEF IInv
<1>2. /\ DOMAIN files' = (DOMAIN files \ {exe + 1}) \cup {exe}
      /\ files'[exe] = files[exe + 1]
      /\ \A q \in DOMAIN files \ {exe + 1, exe} : files'[q] = files[q]
  BY <1>1, Moved
<1> SUFFICES ASSUME ~chmodFailed
             PROVE  /\ \A p \in DOMAIN files' : \E q \in DOMAIN files' : q >= p /\ Usable(q)'
                    /\ Usable(exe)' \/ \E q \in DOMAIN files' : q >= exe + 2 /\ Usable(q)'
  BY DEF CopyBehind
<1>3. \A p \in DOMAIN files : \E q \in DOMAIN files : q >= p /\ Usable(q)
  BY DEF IInv, CopyBehind
<1>4. \A q \in DOMAIN files : q # exe + 1 /\ Usable(q) => q \in DOMAIN files' /\ Usable(q)'
  BY <1>2, StaysUsable
<1>5. Usable(exe + 1) => Usable(exe)'
  BY <1>2, StaysUsable
<1>6. Usable(exe)' \/ \E q \in DOMAIN files' : q >= exe + 2 /\ Usable(q)'
  <2>1. PICK q \in DOMAIN files : q >= exe + 1 /\ Usable(q)
    BY <1>3
  <2>2. CASE q = exe + 1
    BY <1>5, <2>1, <2>2
  <2>3. CASE q # exe + 1
    <3>1. q >= exe + 2
      BY <1>1, <2>1, <2>3
    <3> QED BY <1>4, <2>1, <2>3, <3>1
  <2> QED BY <2>2, <2>3
<1>7. ASSUME NEW p \in DOMAIN files' PROVE \E q \in DOMAIN files' : q >= p /\ Usable(q)'
  <2>0. p \in Nat /\ exe \in DOMAIN files'
    BY <1>1, <1>2
  <2>1. CASE p <= exe
    <3>1. \A q \in DOMAIN files' : q >= exe => q >= p
      BY <1>1, <1>2, <2>0, <2>1
    <3>2. \A q \in DOMAIN files' : q >= exe + 2 => q >= p
      BY <1>1, <1>2, <2>0, <2>1
    <3>3. CASE Usable(exe)'
      <4>1. exe \in DOMAIN files' /\ exe >= p /\ exe' = exe
        BY <1>1, <2>0, <2>1
      <4> QED BY <3>3, <4>1
    <3> QED BY <1>6, <3>2, <3>3
  <2>2. CASE ~(p <= exe)
    <3>1. p \in DOMAIN files /\ p # exe + 1
      BY <1>1, <1>2, <2>0, <2>2
    <3>2. PICK q \in DOMAIN files : q >= p /\ Usable(q)
      BY <1>3, <3>1
    <3>3. q # exe + 1
      BY <1>1, <2>0, <2>2, <3>1, <3>2
    <3> QED BY <1>4, <3>2, <3>3
  <2> QED BY <2>1, <2>2
<1> QED BY <1>6, <1>7

-----------------------------------------------------------------------------
LEMMA InvEnough == IInv => TypeOK /\ OnlyVerified /\ CopyStays
<1> SUFFICES ASSUME IInv PROVE CopyStays
  BY DEF IInv
<1>1. PICK p : p \in DOMAIN files
  BY DEF IInv
<1> QED BY <1>1 DEF IInv, CopyBehind, Usable, CopyStays

LEMMA InitInv == Init => IInv
<1> SUFFICES ASSUME Init PROVE IInv
  OBVIOUS
<1>1. PICK v \in Versions :
        /\ files = [p \in {0} |-> Binary(v, TRUE, TRUE)]
        /\ version = v /\ before = Binary(v, TRUE, TRUE) /\ replaced = v
  BY DEF Init
<1>2. /\ DOMAIN files = {0} /\ files[0] = Binary(v, TRUE, TRUE)
      /\ Binary(v, TRUE, TRUE) \in Binaries
  BY <1>1 DEF Binary, Binaries
<1>3. Usable(0) /\ files[0].whole /\ files[0].ver = v
  BY <1>2 DEF Usable, Runnable, Binary
<1>4. TypeOK
  <2>0. 0 \in 0 .. MaxCalls
    BY BoundsAssumption
  <2>1. \A p \in DOMAIN files : p \in 0 .. MaxCalls /\ files[p] \in Binaries
    BY <1>2, <2>0
  <2>2. /\ exe \in 0 .. MaxCalls /\ at \in 0 .. MaxCalls /\ calls \in 0 .. MaxCalls
        /\ version \in Versions /\ replaced \in Versions /\ before \in Binaries
    BY <1>1, <1>2, <2>0 DEF Init
  <2> QED BY <2>1, <2>2 DEF Init, TypeOK
<1>5. OnlyVerified /\ DOMAIN files # {} /\ RunningFile
  BY <1>1, <1>2, <1>3 DEF Init, OnlyVerified, RunningFile
<1>6. Bounded /\ Verified /\ Midway
  BY <1>2 DEF Init, Bounded, Verified, Midway
<1>7. Executable = 0
  BY DEF Init, Executable
<1>8. CopyBehind /\ NotOverLast
  BY <1>2, <1>3, <1>7 DEF CopyBehind, NotOverLast
<1> QED BY <1>4, <1>5, <1>6, <1>8 DEF IInv

\* A step that touches no file, and after which the call is not further on.
LEMMA FilesLeft ==
    ASSUME IInv, UNCHANGED <<platform, files, version, at, linked, chmodFailed>>
    PROVE  /\ OnlyVerified' /\ DOMAIN files' # {} /\ RunningFile' /\ CopyBehind'
           /\ Executable' = Executable
           /\ (pc' \in {"idle", "verify", "backup"} =>
                    pc \in {"idle", "verify", "backup"}) => NotOverLast'
<1>1. Executable' = Executable
  BY DEF Executable
<1>2. \A p : Usable(p)' <=> Usable(p)
  BY DEF Usable, Runnable
<1>3. OnlyVerified' /\ DOMAIN files' # {} /\ CopyBehind'
  BY <1>2 DEF IInv, OnlyVerified, CopyBehind
<1>4. RunningFile'
  BY DEF IInv, RunningFile, Usable, Runnable
<1>5. Usable(Executable)' <=> Usable(Executable)
  BY <1>1 DEF Usable, Runnable
<1>6. (pc' \in {"idle", "verify", "backup"} => pc \in {"idle", "verify", "backup"})
        => NotOverLast'
  BY <1>1, <1>2, <1>5 DEF IInv, NotOverLast
<1> QED BY <1>1, <1>3, <1>4, <1>6

LEMMA DownloadInv ==
    ASSUME IInv, NEW v \in Versions, NEW whole \in BOOLEAN, Download(v, whole)
    PROVE  IInv'
<1>1. /\ UNCHANGED <<platform, files, version, at, linked, chmodFailed>>
      /\ UNCHANGED <<exe, changed, before, replaced>>
      /\ calls' = calls + 1 /\ calls < MaxCalls /\ pc = "idle" /\ pc' = "verify"
      /\ tmp' = Binary(v, whole, FALSE)
  BY DEF Download, Called, process, history
<1>2. tmp' \in Binaries
  BY <1>1 DEF Binary, Binaries
<1>3. TypeOK'
  <2>1. calls' \in 0 .. MaxCalls
    BY <1>1, PathTypes DEF IInv
  <2> QED BY <1>1, <1>2, <2>1 DEF IInv, TypeOK
<1>4. Bounded'
  BY <1>1, PathTypes DEF IInv, Bounded
<1>5. Verified' /\ Midway'
  BY <1>1, <1>2 DEF Verified, Midway
<1> QED BY <1>1, <1>3, <1>4, <1>5, FilesLeft DEF IInv

\* The calls that return at once, with an error.
LEMMA CallFailsInv == IInv /\ (DownloadFails \/ RollbackFails) => IInv'
<1> SUFFICES ASSUME IInv, DownloadFails \/ RollbackFails PROVE IInv'
  OBVIOUS
<1>1. /\ UNCHANGED <<platform, files, version, at, linked, chmodFailed>>
      /\ UNCHANGED <<exe, changed, before, replaced>>
      /\ calls' = calls + 1 /\ calls < MaxCalls /\ pc = "idle" /\ pc' = "idle"
      /\ tmp' \in {tmp, NoFile}
  BY DEF DownloadFails, RollbackFails, Called, Return, process, history
<1>2. TypeOK'
  <2>1. calls' \in 0 .. MaxCalls
    BY <1>1, PathTypes DEF IInv
  <2> QED BY <1>1, <2>1 DEF IInv, TypeOK
<1>3. Bounded'
  BY <1>1, PathTypes DEF IInv, Bounded
<1>4. Verified' /\ Midway'
  BY <1>1 DEF Verified, Midway
<1> QED BY <1>1, <1>2, <1>3, <1>4, FilesLeft DEF IInv

LEMMA VerifyInv == IInv /\ Verify => IInv'
<1> SUFFICES ASSUME IInv, Verify PROVE IInv'
  OBVIOUS
<1>1. /\ UNCHANGED <<platform, files, version, at, linked, chmodFailed>>
      /\ UNCHANGED <<changed, before, replaced, calls>>
      /\ pc = "verify"
      /\ IF tmp.whole THEN pc' = "backup" /\ tmp' = tmp /\ exe' = Executable
         ELSE pc' = "idle" /\ tmp' = NoFile /\ exe' = exe
  BY DEF Verify, Return, history
<1>2. Executable < calls
  BY <1>1, PathTypes DEF IInv, Bounded, Executable
<1>3. exe' \in 0 .. calls
  BY <1>1, <1>2, PathTypes DEF IInv, Bounded
<1>4. TypeOK'
  <2>1. exe' \in 0 .. MaxCalls
    BY <1>3, PathTypes DEF IInv, TypeOK
  <2> QED BY <1>1, <2>1 DEF IInv, TypeOK
<1>5. Bounded'
  BY <1>1, <1>2, <1>3 DEF IInv, Bounded
<1>6. Verified'
  BY <1>1 DEF IInv, Verified
<1>7. Executable' = Executable
  BY <1>1, FilesLeft
<1>8. Midway'
  BY <1>1, <1>7 DEF Midway
<1> QED BY <1>1, <1>4, <1>5, <1>6, <1>8, FilesLeft DEF IInv

\* A call that ends, or a process, without a change on the disk.
LEMMA EndsInv ==
    ASSUME IInv, UNCHANGED <<platform, files, process, calls, history>>,
           tmp' \in {tmp, NoFile}, pc' \in {"idle", "down"}, NotOverLast'
    PROVE  IInv'
<1>1. TypeOK'
  BY DEF IInv, TypeOK, process, history
<1>2. Bounded' /\ Verified' /\ Midway'
  BY DEF IInv, Bounded, Verified, Midway, process
<1> QED BY <1>1, <1>2, FilesLeft DEF IInv, process, history

LEMMA BackupFailsInv == IInv /\ BackupFails => IInv'
<1> SUFFICES ASSUME IInv, BackupFails PROVE IInv'
  OBVIOUS
<1>1. NotOverLast'
  BY FilesLeft DEF BackupFails, process, history
<1> QED BY <1>1, EndsInv DEF BackupFails, Return

LEMMA ExitInv == IInv /\ Exit => IInv'
BY EndsInv DEF Exit, NotOverLast

\* The executable stays without a file until the next process.
LEMMA RestoreFailsInv == IInv /\ RestoreFails => IInv'
<1> SUFFICES ASSUME IInv, RestoreFails PROVE IInv'
  OBVIOUS
<1>1. UNCHANGED <<platform, files, process, calls, history>> /\ tmp' = tmp
      /\ pc = "restore" /\ pc' = "idle"
  BY DEF RestoreFails
<1>2. exe \notin DOMAIN files /\ (platform # "linux" => exe = 0)
      /\ (platform = "linux" => at = IF linked THEN exe + 1 ELSE exe)
  BY <1>1 DEF IInv, Midway
<1>3. CASE linked
  <2>1. chmodFailed \/ Usable(at)
    BY <1>3 DEF IInv, RunningFile
  <2>2. Executable' = IF platform = "linux" THEN at ELSE exe
    BY <1>1, <1>2 DEF Executable, process
  <2>3. chmodFailed' = chmodFailed /\ (Usable(at) => \A e : e = at => Usable(e)')
    BY <1>1 DEF history, Usable, Runnable
  <2>4. NotOverLast'
    BY <1>1, <1>2, <2>1, <2>2, <2>3 DEF NotOverLast
  <2> QED BY <1>1, <2>4, EndsInv
<1>4. CASE ~linked
  <2>1. Executable' = exe /\ files' = files
    BY <1>1, <1>2, <1>4 DEF Executable, process
  <2>2. NotOverLast'
    BY <1>2, <2>1 DEF NotOverLast
  <2> QED BY <1>1, <2>2, EndsInv
<1> QED BY <1>3, <1>4

LEMMA BackupInv == IInv /\ Backup => IInv'
<1> SUFFICES ASSUME IInv, Backup PROVE IInv'
  OBVIOUS
<1>1. /\ pc = "backup" /\ pc' = "swap" /\ before' = files[exe]
      /\ exe \in DOMAIN files /\ Move(exe, exe + 1)
      /\ UNCHANGED <<platform, tmp, exe, version, changed, calls, replaced, chmodFailed>>
  BY DEF Backup, Movable
<1>2. exe \in Nat /\ DOMAIN files \subseteq Nat /\ exe < calls /\ calls \in 0 .. MaxCalls
      /\ MaxCalls \in Nat /\ at \in Nat
  BY <1>1, PathTypes DEF IInv, Bounded, TypeOK
<1>3. /\ DOMAIN files' = (DOMAIN files \ {exe}) \cup {exe + 1}
      /\ files'[exe + 1] = files[exe]
      /\ \A q \in DOMAIN files \ {exe, exe + 1} : files'[q] = files[q]
      /\ at' = IF linked /\ at = exe THEN exe + 1 ELSE at
      /\ linked' = (linked /\ at # exe + 1)
  <2>1. exe # exe + 1
    BY <1>2
  <2> QED BY <1>1, <2>1, Moved, Zenon
<1>4. /\ \A p \in DOMAIN files' : files'[p] \in Binaries /\ files'[p].whole
      /\ DOMAIN files' # {} /\ linked' \in BOOLEAN /\ RunningFile'
  BY <1>1, <1>2, MovedFiles
<1>5. /\ \A p \in DOMAIN files' : p \in 0 .. calls
      /\ at' \in 0 .. calls
  BY <1>1, <1>2, <1>3 DEF IInv, Bounded
<1>6. TypeOK'
  <2>1. \A p \in DOMAIN files' : p \in 0 .. MaxCalls
    BY <1>2, <1>5
  <2>2. at' \in 0 .. MaxCalls
    BY <1>2, <1>5
  <2>3. before' \in Binaries
    BY <1>1 DEF IInv, TypeOK
  <2> QED BY <1>1, <1>4, <2>1, <2>2, <2>3 DEF IInv, TypeOK
<1>7. Bounded' /\ Verified'
  BY <1>1, <1>5 DEF IInv, Bounded, Verified
<1>8. Midway'
  <2>1. exe = Executable
    BY <1>1 DEF IInv, Midway
  <2>2. platform # "linux" => exe = 0
    BY <2>1 DEF Executable
  <2>3. platform = "linux" => at = exe
    BY <2>1 DEF Executable
  <2>4. platform = "linux" => at' = IF linked' THEN exe + 1 ELSE exe
    BY <1>2, <1>3, <2>3 DEF IInv, TypeOK
  <2>5. linked' => at' # exe
    BY <1>2, <1>3
  <2> QED BY <1>1, <1>2, <1>3, <2>2, <2>4, <2>5 DEF Midway
<1>9. CopyBehind'
  <2> SUFFICES ASSUME ~chmodFailed, NEW p \in DOMAIN files'
               PROVE  \E q \in DOMAIN files' : q >= p /\ Usable(q)'
    BY <1>1 DEF CopyBehind
  <2>1. \A q \in DOMAIN files \ {exe, exe + 1} : Usable(q) => q \in DOMAIN files' /\ Usable(q)'
    BY <1>1, <1>3, StaysUsable
  <2>2. CASE p <= exe + 1
    <3>1. CASE Usable(exe)
      <4>1. \A e : e = exe + 1 => e \in DOMAIN files' /\ Usable(e)'
        BY <1>1, <1>3, <3>1, StaysUsable
      <4> QED BY <1>2, <2>2, <4>1
    <3>2. CASE ~Usable(exe)
      <4>1. PICK q \in DOMAIN files : q >= exe + 2 /\ Usable(q)
        BY <1>1, <3>2 DEF IInv, NotOverLast, Midway
      <4>2. p \in Nat /\ q \in Nat /\ q \notin {exe, exe + 1} /\ q >= p
        BY <1>2, <1>3, <2>2, <4>1
      <4> QED BY <2>1, <4>1, <4>2
    <3> QED BY <3>1, <3>2
  <2>3. CASE ~(p <= exe + 1)
    <3>1. p \in DOMAIN files /\ p \in Nat
      BY <1>2, <1>3, <2>3
    <3>2. PICK q \in DOMAIN files : q >= p /\ Usable(q)
      BY <3>1 DEF IInv, CopyBehind
    <3>3. q \notin {exe, exe + 1}
      BY <1>2, <2>3, <3>1, <3>2
    <3> QED BY <2>1, <3>2, <3>3
  <2> QED BY <2>2, <2>3
<1>10. OnlyVerified' /\ NotOverLast'
  BY <1>1, <1>4 DEF OnlyVerified, NotOverLast
<1> QED BY <1>4, <1>6, <1>7, <1>8, <1>9, <1>10 DEF IInv

LEMMA SwapInv == IInv /\ Swap => IInv'
<1> SUFFICES ASSUME IInv, Swap PROVE IInv'
  OBVIOUS
<1>1. /\ pc = "swap" /\ pc' = "chmod" /\ tmp' = NoFile /\ replaced' = version
      /\ DOMAIN files' = DOMAIN files \cup {exe}
      /\ \A p \in DOMAIN files' : files'[p] = IF p = exe THEN tmp ELSE files[p]
      /\ UNCHANGED <<platform, exe, version, at, linked, changed, calls, before, chmodFailed>>
  BY DEF Swap, process
<1>2. /\ exe \notin DOMAIN files /\ exe + 1 \in DOMAIN files
      /\ tmp \in Binaries /\ tmp.whole /\ (linked => at # exe)
  BY <1>1 DEF IInv, Midway, Verified
<1>3. exe \in Nat /\ DOMAIN files \subseteq Nat
  BY PathTypes DEF IInv
<1>4. \A q \in DOMAIN files : q \in DOMAIN files' /\ files'[q] = files[q]
  BY <1>1, <1>2
<1>5. TypeOK'
  BY <1>1, <1>2 DEF IInv, TypeOK
<1>6. OnlyVerified' /\ DOMAIN files' # {}
  BY <1>1, <1>2 DEF IInv, OnlyVerified
<1>7. Bounded' /\ Verified'
  BY <1>1 DEF IInv, Bounded, Verified
<1>8. Midway'
  BY <1>1, <1>2 DEF IInv, Midway
<1>9. RunningFile'
  BY <1>1, <1>4 DEF IInv, RunningFile, Usable, Runnable
<1>10. CopyBehind'
  <2> SUFFICES ASSUME ~chmodFailed, NEW p \in DOMAIN files'
               PROVE  \E q \in DOMAIN files' : q >= p /\ Usable(q)'
    BY <1>1 DEF CopyBehind
  <2>1. \E q \in DOMAIN files : q >= p /\ Usable(q)
    <3>1. CASE p \in DOMAIN files
      BY <3>1 DEF IInv, CopyBehind
    <3>2. CASE p = exe
      <4>1. PICK q \in DOMAIN files : q >= exe + 1 /\ Usable(q)
        BY <1>2 DEF IInv, CopyBehind
      <4>2. q >= p
        BY <1>3, <3>2, <4>1
      <4> QED BY <4>1, <4>2
    <3> QED BY <1>1, <3>1, <3>2
  <2> QED BY <1>1, <1>4, <2>1, StaysUsable
<1>11. NotOverLast'
  BY <1>1 DEF NotOverLast
<1> QED BY <1>5, <1>6, <1>7, <1>8, <1>9, <1>10, <1>11 DEF IInv

\* The backup is renamed back, after a swap that failed or in a rollback.
LEMMA RestoredInv ==
    ASSUME IInv, pc \in {"swap", "restore"}, pc' = "idle", Move(exe + 1, exe),
           tmp' \in {tmp, NoFile}, changed' \in BOOLEAN,
           UNCHANGED <<platform, exe, version, calls, history>>
    PROVE  IInv'
<1>1. /\ exe + 1 \in DOMAIN files /\ exe \notin DOMAIN files
      /\ (platform # "linux" => exe = 0)
      /\ (platform = "linux" => at = IF linked THEN exe + 1 ELSE exe)
      /\ (linked => at # exe)
  BY DEF IInv, Midway
<1>2. /\ exe \in Nat /\ DOMAIN files \subseteq Nat /\ calls \in Nat /\ exe + 1 # exe
      /\ calls \in 0 .. MaxCalls /\ MaxCalls \in Nat
  BY PathTypes DEF IInv, TypeOK
<1>3. /\ DOMAIN files' = (DOMAIN files \ {exe + 1}) \cup {exe}
      /\ at' = IF linked /\ at = exe + 1 THEN exe ELSE at
  BY <1>1, <1>2, Moved
<1>4. /\ \A p \in DOMAIN files' : files'[p] \in Binaries /\ files'[p].whole
      /\ DOMAIN files' # {} /\ linked' \in BOOLEAN /\ RunningFile'
  BY <1>1, <1>2, MovedFiles DEF history
<1>5. /\ \A p \in DOMAIN files' : p \in 0 .. calls
      /\ at' \in 0 .. calls
  BY <1>2, <1>3 DEF IInv, Bounded
<1>6. TypeOK'
  <2>1. \A p \in DOMAIN files' : p \in 0 .. MaxCalls
    BY <1>2, <1>5
  <2>2. at' \in 0 .. MaxCalls
    BY <1>2, <1>5
  <2> QED BY <1>4, <2>1, <2>2 DEF IInv, TypeOK, history
<1>7. Bounded' /\ Verified' /\ Midway' /\ OnlyVerified'
  BY <1>4, <1>5 DEF IInv, Bounded, Verified, Midway, OnlyVerified
<1>8. /\ CopyBehind'
      /\ chmodFailed' \/ Usable(exe)'
            \/ \E q \in DOMAIN files' : q >= exe + 2 /\ Usable(q)'
  BY <1>1, MovedBack DEF history
<1>9. Executable' = exe
  BY <1>1, <1>3 DEF Executable
<1>10. NotOverLast'
  <2>1. Usable(exe)' => Usable(Executable)'
    BY <1>9 DEF Usable
  <2> QED BY <1>8, <1>9, <2>1 DEF NotOverLast
<1> QED BY <1>4, <1>6, <1>7, <1>8, <1>10 DEF IInv

LEMMA SwapFailsInv == IInv /\ SwapFails => IInv'
<1> SUFFICES ASSUME IInv, SwapFails PROVE IInv'
  OBVIOUS
<1>1. /\ pc = "swap" /\ pc' = "idle" /\ tmp' = NoFile
      /\ UNCHANGED <<platform, exe, version, changed, calls, history>>
      /\ Move(exe + 1, exe) \/ UNCHANGED <<files, at, linked>>
  BY DEF SwapFails, Return
<1>2. CASE Move(exe + 1, exe)
  BY <1>1, <1>2, RestoredInv DEF IInv, TypeOK
<1>3. CASE UNCHANGED <<files, at, linked>>
  <2>1. /\ exe \notin DOMAIN files /\ (platform # "linux" => exe = 0)
        /\ (platform = "linux" => at = IF linked THEN exe + 1 ELSE exe)
    BY <1>1 DEF IInv, Midway
  <2>2. Executable' = IF platform = "linux" /\ linked THEN at ELSE exe
    BY <1>1, <1>3, <2>1 DEF Executable
  <2>3. linked => chmodFailed \/ Usable(at)
    BY DEF IInv, RunningFile
  <2>4. Usable(at) => \A e : e = at => Usable(e)'
    BY <1>1, <1>3 DEF Usable, Runnable
  <2>5. NotOverLast'
    BY <1>1, <1>3, <2>1, <2>2, <2>3, <2>4 DEF NotOverLast, history
  <2> QED BY <1>1, <1>3, <2>5, EndsInv DEF process
<1> QED BY <1>1, <1>2, <1>3

\* The call ends with the new binary in place, executable or not.
LEMMA InstalledInv ==
    ASSUME IInv, pc = "chmod", pc' = "idle", tmp' = NoFile, changed' = TRUE,
           UNCHANGED <<platform, exe, version, at, linked, calls, before, replaced>>,
           DOMAIN files' = DOMAIN files,
           \A p \in DOMAIN files :
                files'[p] \in {files[p], [files[p] EXCEPT !.exec = TRUE]},
           chmodFailed' \in BOOLEAN, chmodFailed => chmodFailed',
           chmodFailed' \/ (exe \in DOMAIN files => files'[exe].exec)
    PROVE  IInv'
<1>1. \A p \in DOMAIN files :
        /\ files'[p] \in Binaries /\ files'[p].whole /\ files'[p].ver = files[p].ver
        /\ Usable(p) => Usable(p)'
  <2> SUFFICES ASSUME NEW p \in DOMAIN files
               PROVE  /\ files'[p] \in Binaries /\ files'[p].whole
                      /\ files'[p].ver = files[p].ver
                      /\ files[p].exec => files'[p].exec
    BY DEF Usable, Runnable
  <2>1. files[p] \in Binaries /\ files[p].whole
    BY DEF IInv, TypeOK, OnlyVerified
  <2> QED BY <2>1 DEF Binaries
<1>2. TypeOK' /\ OnlyVerified' /\ DOMAIN files' # {} /\ Bounded' /\ Verified' /\ Midway'
  BY <1>1 DEF IInv, TypeOK, OnlyVerified, Bounded, Verified, Midway
<1>3. RunningFile'
  <2>1. Usable(at) => Usable(at)'
    BY <1>1 DEF Usable
  <2> QED BY <1>1, <2>1 DEF IInv, RunningFile
<1>4. CopyBehind'
  BY <1>1 DEF IInv, CopyBehind
<1>5. NotOverLast'
  <2> SUFFICES ASSUME ~chmodFailed', Executable' \in DOMAIN files
               PROVE  Usable(Executable)'
    BY DEF NotOverLast
  <2>1. CASE Executable' = exe
    <3>1. files'[exe].exec /\ files'[exe].whole /\ exe \in DOMAIN files'
      BY <1>1, <2>1
    <3> QED BY <2>1, <3>1 DEF Usable, Runnable
  <2>2. CASE Executable' # exe
    <3>1. linked /\ Executable' = at' /\ at' = at
      BY <2>2 DEF IInv, Midway, Executable
    <3>2. Usable(at)'
      BY <1>3, <3>1 DEF RunningFile
    <3> QED BY <3>1, <3>2 DEF Usable
  <2> QED BY <2>1, <2>2
<1> QED BY <1>2, <1>3, <1>4, <1>5 DEF IInv

LEMMA ChmodInv == IInv /\ (Chmod \/ ChmodFails) => IInv'
<1> SUFFICES ASSUME IInv PROVE (Chmod => IInv') /\ (ChmodFails => IInv')
  OBVIOUS
<1>1. ASSUME Chmod PROVE IInv'
  <2>1. /\ DOMAIN files' = DOMAIN files
        /\ \A p \in DOMAIN files :
             files'[p] = IF p = exe THEN [files[p] EXCEPT !.exec = TRUE] ELSE files[p]
    BY <1>1 DEF Chmod
  <2>2. \A p \in DOMAIN files : files[p] \in Binaries
    BY DEF IInv, TypeOK
  <2>3. exe \in DOMAIN files => files'[exe].exec
    BY <2>1, <2>2 DEF Binaries
  <2>4. chmodFailed' = chmodFailed /\ chmodFailed \in BOOLEAN
    BY <1>1 DEF Chmod, history, IInv, TypeOK
  <2> QED BY <1>1, <2>1, <2>3, <2>4, InstalledInv DEF Chmod, Return, history
<1>2. ASSUME ChmodFails PROVE IInv'
  BY <1>2, InstalledInv DEF ChmodFails, Return
<1> QED BY <1>1, <1>2

LEMMA RollbackInv == IInv /\ Rollback => IInv'
<1> SUFFICES ASSUME IInv, Rollback PROVE IInv'
  OBVIOUS
<1> DEFINE E == Executable
<1>1. /\ pc = "idle" /\ pc' = "restore" /\ calls' = calls + 1 /\ calls < MaxCalls
      /\ E + 1 \in DOMAIN files /\ E \in DOMAIN files
      /\ exe' = E /\ linked' = (linked /\ at # E)
      /\ UNCHANGED <<platform, tmp, version, at, changed, before, replaced, chmodFailed>>
  BY DEF Rollback, Removable, Called, history
<1>2. DOMAIN files' = DOMAIN files \ {E} /\ \A p \in DOMAIN files' : files'[p] = files[p]
  BY DEF Rollback, Without
<1>3. E \in Nat /\ DOMAIN files \subseteq Nat /\ calls \in Nat /\ MaxCalls \in Nat
  BY PathTypes DEF IInv
<1>4. E + 1 \in DOMAIN files'
  BY <1>1, <1>2, <1>3
<1>5. E \in 0 .. calls /\ (platform # "linux" => E = 0) /\ (platform = "linux" => at = E)
  BY <1>1 DEF IInv, Bounded, Executable
<1>6. TypeOK'
  <2>1. calls' \in 0 .. MaxCalls /\ exe' \in 0 .. MaxCalls
    BY <1>1, <1>3, <1>5
  <2> QED BY <1>1, <1>2, <2>1 DEF IInv, TypeOK
<1>7. OnlyVerified' /\ DOMAIN files' # {}
  BY <1>2, <1>4 DEF IInv, OnlyVerified
<1>8. Bounded'
  BY <1>1, <1>2, <1>3, <1>5 DEF IInv, Bounded
<1>9. Verified' /\ NotOverLast'
  BY <1>1 DEF Verified, NotOverLast
<1>10. Midway'
  BY <1>1, <1>2, <1>4, <1>5 DEF Midway
<1>11. RunningFile'
  BY <1>1, <1>2 DEF IInv, RunningFile, Usable, Runnable
<1>12. CopyBehind'
  <2> SUFFICES ASSUME ~chmodFailed, NEW p \in DOMAIN files'
               PROVE  \E q \in DOMAIN files' : q >= p /\ Usable(q)'
    BY <1>1 DEF CopyBehind
  <2>1. \E q \in DOMAIN files : q # E /\ q >= p /\ Usable(q)
    <3>1. PICK q \in DOMAIN files : q >= p /\ Usable(q)
      BY <1>2 DEF IInv, CopyBehind
    <3>2. CASE q # E
      BY <3>1, <3>2
    <3>3. CASE q = E
      <4>1. PICK r \in DOMAIN files : r >= E + 1 /\ Usable(r)
        BY <1>1 DEF IInv, CopyBehind
      <4>2. r # E /\ r >= p
        BY <1>2, <1>3, <3>1, <3>3, <4>1
      <4> QED BY <4>1, <4>2
    <3> QED BY <3>2, <3>3
  <2>2. \A q \in DOMAIN files : q # E /\ Usable(q) => q \in DOMAIN files' /\ Usable(q)'
    BY <1>1, <1>2, StaysUsable
  <2> QED BY <2>1, <2>2
<1> QED BY <1>6, <1>7, <1>8, <1>9, <1>10, <1>11, <1>12 DEF IInv

LEMMA RestoreInv == IInv /\ Restore => IInv'
BY RestoredInv DEF Restore

LEMMA StartInv == IInv /\ Start => IInv'
<1> SUFFICES ASSUME IInv, Start PROVE IInv'
  OBVIOUS
<1>1. /\ pc = "down" /\ pc' = "idle" /\ exe' = 0 /\ at' = 0 /\ linked' = TRUE
      /\ 0 \in DOMAIN files /\ Runnable(files[0])
      /\ version' = files[0].ver /\ changed' = FALSE
      /\ UNCHANGED <<platform, files, tmp, calls, before, replaced, chmodFailed>>
  BY DEF Start, Startable, history
<1>2. \A p : Usable(p)' <=> Usable(p)
  BY <1>1 DEF Usable, Runnable
<1>3. Usable(0)
  BY <1>1 DEF Usable
<1>4. calls \in Nat /\ MaxCalls \in Nat /\ 0 \in 0 .. MaxCalls /\ 0 \in 0 .. calls
  BY PathTypes DEF IInv
<1>5. files[0].ver \in Versions
  BY <1>1 DEF IInv, TypeOK, Binaries
<1>6. TypeOK'
  BY <1>1, <1>4, <1>5 DEF IInv, TypeOK
<1>7. Bounded' /\ Verified' /\ Midway' /\ OnlyVerified'
  BY <1>1, <1>4 DEF IInv, Bounded, Verified, Midway, OnlyVerified
<1>8. Usable(at)' /\ Executable' = 0
  BY <1>1, <1>2, <1>3 DEF Executable, Usable
<1>9. RunningFile'
  BY <1>1, <1>8 DEF RunningFile
<1>10. CopyBehind'
  BY <1>1, <1>2 DEF IInv, CopyBehind
<1>11. NotOverLast'
  BY <1>1, <1>8 DEF NotOverLast, Usable
<1> QED BY <1>1, <1>6, <1>7, <1>9, <1>10, <1>11 DEF IInv

LEMMA NextInv == IInv /\ [Next]_updaterVars => IInv'
<1> SUFFICES ASSUME IInv, [Next]_updaterVars PROVE IInv'
  OBVIOUS
<1>1. CASE UNCHANGED updaterVars
  <2>1. UNCHANGED <<platform, files, tmp, pc, exe, version, at, linked, changed,
                    calls, before, replaced, chmodFailed>>
    BY <1>1 DEF updaterVars, process, history
  <2>2. TypeOK' /\ Bounded' /\ Verified' /\ Midway'
    BY <2>1 DEF IInv, TypeOK, Bounded, Verified, Midway, Executable
  <2> QED BY <2>1, <2>2, FilesLeft DEF IInv
<1>2. CASE Next
  BY <1>2, DownloadInv, CallFailsInv, VerifyInv, BackupInv, BackupFailsInv, SwapInv,
     SwapFailsInv, ChmodInv, RollbackInv, RestoreInv, RestoreFailsInv, ExitInv,
     StartInv DEF Next
<1> QED BY <1>1, <1>2

LEMMA UpdaterInvariant == Spec => []IInv
BY InitInv, NextInv, PTL DEF Spec

-----------------------------------------------------------------------------
(* The steps under RestartFirst.                                           *)

LEMMA InitRestart == Init => RInv
<1> SUFFICES ASSUME Init PROVE RInv
  OBVIOUS
<1>1. /\ DOMAIN files = {0} /\ Executable = 0 /\ pc = "idle" /\ linked = TRUE /\ at = 0
  BY DEF Init, Executable
<1>2. Pair(0) /\ 0 \in -1 .. MaxCalls
  BY <1>1, BoundsAssumption DEF Pair
<1> QED BY <1>1, <1>2 DEF RInv, TwoFiles, OlderIsReplaced, ReplacesItself

\* A step that touches no file and has the call go on, or end before a swap.
LEMMA QuietRestart ==
    ASSUME IInv, RInv,
           UNCHANGED <<platform, files, at, linked, changed, replaced>>,
           pc' \in {"idle", "verify", "backup", "down"},
           pc' \in {"verify", "backup"} => ~changed,
           pc' # "down" => pc \in {"idle", "verify", "backup"}
    PROVE  RInv'
<1>1. Executable' = Executable
  BY DEF Executable
<1>2. \A b : Pair(b)' <=> Pair(b)
  BY DEF Pair
<1>3. (Pair(Executable)' <=> Pair(Executable)) /\ (Pair(Executable - 1)' <=> Pair(Executable - 1))
  BY <1>1 DEF Pair
<1> QED BY <1>1, <1>2, <1>3 DEF RInv, TwoFiles, OlderIsReplaced, ReplacesItself

LEMMA BackupRestart == RestartFirst /\ IInv /\ RInv /\ Backup => RInv'
<1> SUFFICES ASSUME RestartFirst, IInv, RInv, Backup PROVE RInv'
  OBVIOUS
<1>1. /\ pc = "backup" /\ pc' = "swap" /\ exe \in DOMAIN files /\ Move(exe, exe + 1)
      /\ UNCHANGED <<platform, exe, version, changed, replaced>>
  BY DEF Backup, Movable
<1>2. exe \in Nat /\ DOMAIN files \subseteq Nat /\ exe # exe + 1
  BY PathTypes DEF IInv
<1>3. /\ DOMAIN files' = (DOMAIN files \ {exe}) \cup {exe + 1}
      /\ at' = IF linked /\ at = exe THEN exe + 1 ELSE at
      /\ linked' = (linked /\ at # exe + 1)
  BY <1>1, <1>2, Moved
<1>4. exe = Executable /\ ~changed /\ linked /\ at = exe /\ Pair(exe)
  BY <1>1 DEF IInv, Midway, RInv, ReplacesItself, TwoFiles
<1>5. DOMAIN files' = {exe + 1} /\ at' = exe + 1 /\ linked'
  BY <1>2, <1>3, <1>4 DEF Pair
<1>6. Pair(exe)' /\ exe' = exe
  BY <1>1, <1>5 DEF Pair
<1>7. \E b \in -1 .. MaxCalls : Pair(b)'
  <2>1. exe \in -1 .. MaxCalls
    BY BoundsAssumption DEF IInv, TypeOK
  <2> QED BY <1>1, <1>5, <2>1 DEF Pair
<1>8. TwoFiles'
  BY <1>1, <1>6, <1>7 DEF TwoFiles
<1>9. OlderIsReplaced'
  BY <1>1, <1>2, <1>5 DEF OlderIsReplaced
<1>10. ReplacesItself'
  BY <1>1, <1>4, <1>5 DEF ReplacesItself
<1> QED BY <1>8, <1>9, <1>10 DEF RInv

\* What is replaced is what runs, and it is behind its successor.
LEMMA SwapRestart == RestartFirst /\ IInv /\ RInv /\ Swap => RInv'
<1> SUFFICES ASSUME RestartFirst, IInv, RInv, Swap PROVE RInv'
  OBVIOUS
<1>1. /\ pc = "swap" /\ pc' = "chmod" /\ replaced' = version
      /\ DOMAIN files' = DOMAIN files \cup {exe}
      /\ \A p \in DOMAIN files' : files'[p] = IF p = exe THEN tmp ELSE files[p]
      /\ UNCHANGED <<platform, exe, version, at, linked, changed>>
  BY DEF Swap, process
<1>2. exe \in Nat /\ DOMAIN files \subseteq Nat
  BY PathTypes DEF IInv
<1>3. /\ exe \notin DOMAIN files /\ exe + 1 \in DOMAIN files /\ Pair(exe)
      /\ linked /\ at = exe + 1 /\ ~changed
  BY <1>1 DEF IInv, Midway, RInv, TwoFiles, ReplacesItself
<1>4. files[exe + 1].ver = version
  BY <1>3 DEF IInv, RunningFile
<1>5. DOMAIN files' = {exe, exe + 1} /\ files'[exe + 1].ver = replaced'
  BY <1>1, <1>2, <1>3, <1>4 DEF Pair
<1>6. Pair(exe)' /\ exe \in -1 .. MaxCalls
  BY <1>1, <1>5, BoundsAssumption DEF Pair, IInv, TypeOK
<1>7. \E b \in -1 .. MaxCalls : Pair(b)'
  BY <1>1, <1>6 DEF Pair
<1>8. TwoFiles' /\ ReplacesItself'
  BY <1>1, <1>3, <1>6, <1>7 DEF TwoFiles, ReplacesItself
<1>9. OlderIsReplaced'
  BY <1>1, <1>2, <1>5 DEF OlderIsReplaced
<1> QED BY <1>8, <1>9 DEF RInv

\* After a failed undo or restore the one file left is behind the executable.
LEMMA LeftBehindRestart ==
    ASSUME IInv, RInv, pc \in {"swap", "restore"}, pc' = "idle",
           UNCHANGED <<platform, files, at, linked, changed, replaced>>
    PROVE  RInv'
<1>1. /\ exe \in Nat /\ exe \notin DOMAIN files /\ Pair(exe)
      /\ (platform # "linux" => exe = 0)
      /\ (platform = "linux" => at = IF linked THEN exe + 1 ELSE exe)
  BY PathTypes DEF IInv, Midway, RInv, TwoFiles
<1>2. \A p \in DOMAIN files' : p = exe + 1
  BY <1>1 DEF Pair
<1>3. Executable' = IF platform = "linux" /\ linked THEN at ELSE exe
  BY <1>1 DEF Executable
<1>4. Pair(Executable)'
  BY <1>1, <1>2, <1>3 DEF Pair
<1>5. \E b \in -1 .. MaxCalls : Pair(b)'
  BY DEF RInv, TwoFiles, Pair
<1>6. TwoFiles' /\ OlderIsReplaced'
  BY <1>4, <1>5 DEF TwoFiles, OlderIsReplaced, RInv
<1>7. ReplacesItself'
  BY <1>1, <1>2, <1>3 DEF ReplacesItself
<1> QED BY <1>6, <1>7 DEF RInv

LEMMA RestoredRestart ==
    ASSUME IInv, RInv, TypeOK', pc \in {"swap", "restore"}, pc' = "idle",
           Move(exe + 1, exe), UNCHANGED <<platform, exe, replaced>>,
           changed' = (changed \/ pc = "restore")
    PROVE  RInv'
<1>1. /\ exe + 1 \in DOMAIN files /\ exe \notin DOMAIN files /\ Pair(exe)
      /\ (platform # "linux" => exe = 0)
      /\ (platform = "linux" => at = IF linked THEN exe + 1 ELSE exe)
      /\ (pc = "swap" => linked /\ at = exe + 1)
  BY DEF IInv, Midway, RInv, TwoFiles, ReplacesItself
<1>2. exe \in Nat /\ exe # exe + 1
  BY PathTypes DEF IInv
<1>3. /\ DOMAIN files' = (DOMAIN files \ {exe + 1}) \cup {exe}
      /\ at' = IF linked /\ at = exe + 1 THEN exe ELSE at
      /\ linked' = (linked /\ at # exe)
  BY <1>1, <1>2, Moved
<1>4. DOMAIN files' = {exe}
  BY <1>1, <1>2, <1>3 DEF Pair
<1>5. Executable' = exe
  BY <1>1, <1>3 DEF Executable
<1>6. Pair(Executable)'
  BY <1>4, <1>5 DEF Pair
<1>8. \E b \in -1 .. MaxCalls : Pair(b)'
  <2>1. exe \in -1 .. MaxCalls
    BY BoundsAssumption DEF IInv, TypeOK
  <2> QED BY <1>4, <2>1 DEF Pair
<1>9. TwoFiles' /\ OlderIsReplaced'
  BY <1>2, <1>4, <1>6, <1>8 DEF TwoFiles, OlderIsReplaced
<1>10. ReplacesItself'
  BY <1>1, <1>2, <1>3, <1>5 DEF ReplacesItself
<1> QED BY <1>9, <1>10 DEF RInv

LEMMA SwapFailsRestart == IInv /\ RInv /\ SwapFails => RInv'
<1> SUFFICES ASSUME IInv, RInv, SwapFails PROVE RInv'
  OBVIOUS
<1>1. TypeOK'
  BY SwapFailsInv DEF IInv
<1>2. CASE Move(exe + 1, exe)
  <2>1. changed' = (changed \/ pc = "restore")
    BY DEF SwapFails, IInv, TypeOK
  <2> QED BY <1>1, <1>2, <2>1, RestoredRestart DEF SwapFails, Return, history
<1>3. CASE UNCHANGED <<files, at, linked>>
  BY <1>3, LeftBehindRestart DEF SwapFails, Return, history
<1> QED BY <1>2, <1>3 DEF SwapFails

LEMMA InstalledRestart == IInv /\ RInv /\ (Chmod \/ ChmodFails) => RInv'
<1> SUFFICES ASSUME IInv, RInv, Chmod \/ ChmodFails PROVE RInv'
  OBVIOUS
<1>1. /\ pc = "chmod" /\ pc' = "idle" /\ changed' = TRUE
      /\ UNCHANGED <<platform, exe, at, linked, replaced>>
      /\ DOMAIN files' = DOMAIN files
  BY DEF Chmod, ChmodFails, Return, history
<1>2. \A p \in DOMAIN files : files'[p].ver = files[p].ver
  <2>1. \A p \in DOMAIN files : files[p] \in Binaries
    BY DEF IInv, TypeOK
  <2>2. \A p \in DOMAIN files :
            files'[p] \in {files[p], [files[p] EXCEPT !.exec = TRUE]}
    BY DEF Chmod, ChmodFails
  <2> QED BY <2>1, <2>2 DEF Binaries
<1>3. /\ exe \in Nat /\ Pair(exe) /\ linked /\ at = exe + 1
      /\ (platform # "linux" => exe = 0)
  BY <1>1, PathTypes DEF IInv, Midway, RInv, TwoFiles, ReplacesItself
<1>4. Executable' = IF platform = "linux" THEN exe + 1 ELSE exe
  BY <1>1, <1>3 DEF Executable
<1>5. Pair(Executable)' \/ Pair(Executable - 1)'
  <2>1. CASE platform = "linux"
    <3>1. (Executable - 1)' = exe /\ (Executable - 1)' + 1 = exe + 1
      BY <1>3, <1>4, <2>1
    <3> QED BY <1>1, <1>3, <3>1 DEF Pair
  <2>2. CASE platform # "linux"
    BY <1>1, <1>3, <1>4, <2>2 DEF Pair
  <2> QED BY <2>1, <2>2
<1>6. \E b \in -1 .. MaxCalls : Pair(b)'
  BY <1>1 DEF RInv, TwoFiles, Pair
<1>7. TwoFiles' /\ ReplacesItself'
  BY <1>1, <1>5, <1>6 DEF TwoFiles, ReplacesItself
<1>8. OlderIsReplaced'
  BY <1>1, <1>2 DEF RInv, OlderIsReplaced
<1> QED BY <1>7, <1>8 DEF RInv

\* Rollback finds a pair: what it removes, and the version that it replaced.
LEMMA RollbackRestart == IInv /\ RInv /\ Rollback => RInv'
<1> SUFFICES ASSUME IInv, RInv, Rollback PROVE RInv'
  OBVIOUS
<1> DEFINE E == Executable
<1>1. /\ pc = "idle" /\ pc' = "restore" /\ exe' = E
      /\ E + 1 \in DOMAIN files /\ E \in DOMAIN files
      /\ UNCHANGED <<platform, at, changed, replaced>>
  BY DEF Rollback, Removable, Called, history
<1>2. DOMAIN files' = DOMAIN files \ {E} /\ \A p \in DOMAIN files' : files'[p] = files[p]
  BY DEF Rollback, Without
<1>3. E \in Nat /\ DOMAIN files \subseteq Nat
  BY PathTypes DEF IInv
<1>4. Pair(E)
  <2>1. ~ Pair(E - 1)
    BY <1>1, <1>3 DEF Pair
  <2> QED BY <1>1, <2>1 DEF RInv, TwoFiles
<1>5. files[E + 1].ver = replaced
  BY <1>1 DEF RInv, OlderIsReplaced
<1>6. Pair(exe)'
  BY <1>1, <1>2, <1>4 DEF Pair
<1>7. \E b \in -1 .. MaxCalls : Pair(b)'
  BY <1>2 DEF RInv, TwoFiles, Pair
<1>8. TwoFiles' /\ ReplacesItself'
  BY <1>1, <1>6, <1>7 DEF TwoFiles, ReplacesItself
<1>9. OlderIsReplaced'
  BY <1>1, <1>2, <1>3, <1>5 DEF RInv, OlderIsReplaced
<1> QED BY <1>8, <1>9 DEF RInv

LEMMA RestoreRestart == IInv /\ RInv /\ Restore => RInv'
<1> SUFFICES ASSUME IInv, RInv, Restore PROVE RInv'
  OBVIOUS
<1>1. TypeOK'
  BY RestoreInv DEF IInv
<1> QED BY <1>1, RestoredRestart DEF Restore, history

\* A process is started on the pair of the path 0.
LEMMA StartRestart == IInv /\ RInv /\ Start => RInv'
<1> SUFFICES ASSUME IInv, RInv, Start PROVE RInv'
  OBVIOUS
<1>1. /\ pc = "down" /\ pc' = "idle" /\ exe' = 0 /\ at' = 0 /\ linked' = TRUE
      /\ 0 \in DOMAIN files /\ UNCHANGED <<files, platform, replaced>>
  BY DEF Start, Startable, history
<1>2. Executable' = 0
  BY <1>1 DEF Executable
<1>3. PICK b \in -1 .. MaxCalls : Pair(b)
  BY DEF RInv, TwoFiles
<1>4. MaxCalls \in Nat /\ DOMAIN files \subseteq Nat
  BY PathTypes DEF IInv
<1>5. \A p \in DOMAIN files : p \in {0, 1}
  BY <1>1, <1>3, <1>4 DEF Pair
<1>6. Pair(Executable)'
  BY <1>1, <1>2, <1>5 DEF Pair
<1>7. TwoFiles'
  BY <1>1, <1>3, <1>6 DEF TwoFiles, Pair
<1>8. OlderIsReplaced' /\ ReplacesItself'
  BY <1>1, <1>2 DEF RInv, OlderIsReplaced, ReplacesItself
<1> QED BY <1>7, <1>8 DEF RInv

LEMMA NextRestart ==
    ASSUME RestartFirst, IInv, RInv, [Next]_updaterVars
    PROVE  RInv'
<1>1. CASE UNCHANGED updaterVars
  <2>1. /\ UNCHANGED <<platform, files, at, linked, changed, replaced>>
        /\ pc' = pc /\ exe' = exe
    BY <1>1 DEF updaterVars, process, history
  <2>2. Executable' = Executable
    BY <2>1 DEF Executable
  <2> QED BY <2>1, <2>2 DEF RInv, TwoFiles, OlderIsReplaced, ReplacesItself, Pair
<1>2. ASSUME NEW v \in Versions, NEW whole \in BOOLEAN, Download(v, whole)
      PROVE  RInv'
  BY <1>2, QuietRestart DEF Download, Called, process, history
<1>3. CASE DownloadFails \/ RollbackFails
  BY <1>3, QuietRestart DEF DownloadFails, RollbackFails, Called, Return, process, history
<1>4. CASE Verify
  <2>1. ~changed
    BY <1>4 DEF Verify, RInv, ReplacesItself
  <2> QED BY <1>4, <2>1, QuietRestart DEF Verify, Return, history
<1>5. CASE BackupFails
  BY <1>5, QuietRestart DEF BackupFails, Return, process, history
<1>6. CASE RestoreFails
  BY <1>6, LeftBehindRestart DEF RestoreFails, process, history
<1>7. CASE Exit
  BY <1>7, QuietRestart DEF Exit, process, history
<1> QED BY <1>1, <1>2, <1>3, <1>4, <1>5, <1>6, <1>7, BackupRestart, SwapRestart,
           SwapFailsRestart, InstalledRestart, RollbackRestart, RestoreRestart,
           StartRestart DEF Next

-----------------------------------------------------------------------------
(* The variables keep their types, and no path gets more ".old" behind it  *)
(* than there were calls.                                                  *)
THEOREM TypeCorrect == Spec => []TypeOK
BY InvEnough, UpdaterInvariant, PTL

(* PerformUpdate: no binary that differs from its checksum gets a path an  *)
(* agent is started from or rolled back to.                                *)
THEOREM InstallsVerified == Spec => []OnlyVerified
BY InvEnough, UpdaterInvariant, PTL

(* InstallUpdate and Rollback, whatever fails and wherever the process     *)
(* dies, also if processes update again before they are restarted.         *)
THEOREM KeepsACopy == Spec => []CopyStays
BY InvEnough, UpdaterInvariant, PTL

(* InstallUpdate: after a swap that failed the binary that was renamed     *)
(* away is at the path of the executable or of the backup.                 *)
THEOREM SwapKeeps == Spec => FailureKeeps
<1> DEFINE Keeps == pc = "swap" /\ pc' = "idle" =>
                        \E p \in {exe, exe + 1} \cap DOMAIN files' : files'[p] = before
<1>1. IInv /\ [Next]_updaterVars => [Keeps]_updaterVars
  <2> SUFFICES ASSUME IInv, Next, pc = "swap", pc' = "idle"
               PROVE  \E p \in {exe, exe + 1} \cap DOMAIN files' : files'[p] = before
    OBVIOUS
  <2>1. exe + 1 \in DOMAIN files /\ files[exe + 1] = before
    BY DEF IInv, Midway
  <2>2. SwapFails
    BY DEF Next, Download, DownloadFails, Verify, Backup, BackupFails, Swap, Chmod,
           ChmodFails, Rollback, RollbackFails, Restore, RestoreFails, Exit, Start, Called
  <2>3. CASE Move(exe + 1, exe)
    BY <2>1, <2>3 DEF Move
  <2>4. CASE UNCHANGED files
    BY <2>1, <2>4
  <2> QED BY <2>2, <2>3, <2>4 DEF SwapFails
<1> HIDE DEF Keeps
<1>2. Spec => [][Keeps]_updaterVars
  BY <1>1, UpdaterInvariant, PTL DEF Spec
<1> QED BY <1>2 DEF Keeps, FailureKeeps

(* Rollback: what it puts back is the version that ran when the executable *)
(* was last replaced, if every process is restarted between an update or a *)
(* rollback and the next update.  (Without RestartFirst it may put back an *)
(* older one.)                                                             *)
THEOREM RollsBack == ASSUME RestartFirst PROVE Spec => RollbackRestores
<1> DEFINE Rolls == pc = "restore" /\ files' # files => files'[exe].ver = replaced
<1>1. RInv /\ IInv /\ [Next]_updaterVars => [Rolls]_updaterVars
  <2> SUFFICES ASSUME RInv, IInv, Next, pc = "restore", files' # files
               PROVE  files'[exe].ver = replaced
    OBVIOUS
  <2>1. Restore
    BY DEF Next, Download, DownloadFails, Verify, Backup, BackupFails, Swap, SwapFails,
           Chmod, ChmodFails, Rollback, RollbackFails, RestoreFails, Exit, Start, Called
  <2>2. files[exe + 1].ver = replaced
    BY DEF RInv, OlderIsReplaced
  <2> QED BY <2>1, <2>2 DEF Restore, Move
<1>2. IInv /\ RInv /\ [Next]_updaterVars => RInv'
  BY NextRestart
<1> HIDE DEF Rolls
<1>3. Spec => [][Rolls]_updaterVars
  BY <1>1, <1>2, InitRestart, UpdaterInvariant, PTL DEF Spec
<1> QED BY <1>3 DEF Rolls, RollbackRestores
=============================================================================
