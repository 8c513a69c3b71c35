----------------------- MODULE RotatingLogger_proofs -----------------------
(***************************************************************************)
(* RotatingLogger for any number of goroutines, sizes and backups, with    *)
(* every fault, failing renames included: the files stay in the order of   *)
(* their numbers, and what a rotation deletes is the oldest there is or    *)
(* what a failed rename cost.                                              *)
(***************************************************************************)
EXTENDS RotatingLogger, FiniteSetTheorems, TLAPS

(* NewestFirst and OnlyOldDeleted of any set of files d, when w lines were *)
(* logged and those of ms reached no file or were lost to failed renames:  *)
(* a rotation goes through states of the disk that no state of the         *)
(* specification has.                                                      *)
Files(d, w) ==
    /\ DOMAIN d \subseteq 0 .. Oldest
    /\ \A n \in DOMAIN d : d[n] \subseteq 1 .. w

Ordered(d) == \A m, n \in DOMAIN d : m < n => \A x \in d[m], y \in d[n] : y < x

Apart(d) == \A m, n \in DOMAIN d : m # n => d[m] \cap d[n] = {}

LostAreOld(d, w, ms) ==
    \A x \in 1 .. w :
        (x \notin ms /\ \A n \in DOMAIN d : x \notin d[n]) =>
            \A n \in DOMAIN d : \A y \in d[n] : x < y

Sound(d, w, ms) ==
    /\ w \in Nat /\ ms \subseteq 1 .. w
    /\ Files(d, w) /\ Ordered(d) /\ Apart(d) /\ LostAreOld(d, w, ms)

\* A logger whose file is open has the file, so a line that reaches it is kept.
OpenLogExists == open => 0 \in DOMAIN disk

IInv == TypeOK /\ NewestFirst /\ OnlyOldDeleted /\ NeverUndercounts /\ OpenLogExists

-----------------------------------------------------------------------------
(* Lemmas on the operators of the module.                                  *)

LEMMA OldestType == Oldest \in Nat \ {0}
BY SizesAssumption DEF Oldest

LEMMA LinesFinite ==
    ASSUME NEW w \in Nat, NEW T \in SUBSET (1 .. w)
    PROVE  IsFiniteSet(T) /\ Cardinality(T) \in Nat
<1>1. IsFiniteSet(1 .. w)
  BY FS_Interval
<1>2. IsFiniteSet(T)
  BY <1>1, FS_Subset
<1> QED BY <1>2, FS_CardinalityType

LEMMA SoundDisk ==
    TypeOK /\ NewestFirst /\ OnlyOldDeleted <=>
        /\ Sound(disk, written, missed \cup replaced)
        /\ size \in Nat /\ uncounted \subseteq 1 .. written
        /\ open \in BOOLEAN /\ running \in BOOLEAN
        /\ level \in Levels
        /\ caller \in [Callers -> {"idle", "locking", "stuck"}]
<1>1. \A x : x \notin Kept \cup missed \cup replaced <=>
                x \notin missed \cup replaced /\ \A n \in DOMAIN disk : x \notin disk[n]
  BY DEF Kept
<1>2. (\A x \in 1 .. written :
            x \notin Kept \cup missed \cup replaced => \A y \in Kept : x < y)
        <=> LostAreOld(disk, written, missed \cup replaced)
  <2>1. ASSUME NEW x
        PROVE  (\A y \in Kept : x < y) <=>
                    \A n \in DOMAIN disk : \A y \in disk[n] : x < y
    BY DEF Kept
  <2> QED BY <1>1, <2>1 DEF LostAreOld
<1> QED BY <1>2 DEF Sound, Files, Ordered, Apart, TypeOK, NewestFirst, OnlyOldDeleted

\* A line that is logged goes to the log, or to no file.
LEMMA WrittenSound ==
    ASSUME NEW rs, Sound(disk, written, missed \cup rs), OpenLogExists,
           NEW reached \in BOOLEAN, WriteLine(reached)
    PROVE  /\ Sound(Written(reached), written', missed' \cup rs)
           /\ DOMAIN Written(reached) = DOMAIN disk
           /\ 0 \in DOMAIN disk =>
                Written(reached)[0] \subseteq disk[0] \cup {written + 1}
<1>1. /\ written \in Nat /\ written' = written + 1
      /\ missed \subseteq 1 .. written /\ rs \subseteq 1 .. written
  BY DEF Sound, WriteLine
<1>2. CASE reached
  <2> DEFINE d == Written(reached)
  <2>1. /\ DOMAIN d = DOMAIN disk /\ 0 \in DOMAIN disk
        /\ d[0] = disk[0] \cup {written + 1}
        /\ \A n \in DOMAIN disk \ {0} : d[n] = disk[n]
        /\ missed' = missed
    BY <1>2 DEF Written, WriteLine, OpenLogExists
  <2> HIDE DEF d
  <2>2. /\ DOMAIN disk \subseteq 0 .. Oldest
        /\ \A n \in DOMAIN disk : disk[n] \subseteq 1 .. written
    BY DEF Sound, Files
  <2>3. Files(d, written')
    BY <1>1, <2>1, <2>2 DEF Files
  <2>4. Ordered(d)
    <3> SUFFICES ASSUME NEW m \in DOMAIN d, NEW n \in DOMAIN d, m < n,
                        NEW x \in d[m], NEW y \in d[n]
                 PROVE  y < x
      BY DEF Ordered
    <3>1. n # 0 /\ y \in disk[n] /\ y \in 1 .. written
      BY <2>1, <2>2, OldestType
    <3>2. CASE x \in disk[m]
      BY <2>1, <3>1, <3>2 DEF Sound, Ordered
    <3>3. CASE x \notin disk[m]
      BY <1>1, <2>1, <3>1, <3>3
    <3> QED BY <3>2, <3>3
  <2>5. Apart(d)
    <3>1. \A n \in DOMAIN disk : written + 1 \notin disk[n]
      BY <1>1, <2>2
    <3> QED BY <2>1, <3>1 DEF Sound, Apart
  <2>6. LostAreOld(d, written', missed' \cup rs)
    <3> SUFFICES ASSUME NEW x \in 1 .. written', x \notin missed' \cup rs,
                        \A n \in DOMAIN d : x \notin d[n],
                        NEW n \in DOMAIN d, NEW y \in d[n]
                 PROVE  x < y
      BY DEF LostAreOld
    <3>1. x # written + 1 /\ x \in 1 .. written
      BY <1>1, <2>1
    <3>2. \A k \in DOMAIN disk : x \notin disk[k]
      BY <2>1
    <3>3. CASE y \in disk[n]
      BY <2>1, <3>1, <3>2, <3>3 DEF Sound, LostAreOld
    <3>4. CASE y \notin disk[n]
      BY <1>1, <2>1, <3>1, <3>4
    <3> QED BY <3>3, <3>4
  <2>7. Sound(d, written', missed' \cup rs)
    BY <1>1, <2>1, <2>3, <2>4, <2>5, <2>6 DEF Sound
  <2> QED BY <2>1, <2>7 DEF d
<1>3. CASE ~reached
  <2>1. Written(reached) = disk /\ missed' = missed \cup {written + 1}
    BY <1>1, <1>3 DEF Written, WriteLine
  <2>2. Files(disk, written')
    BY <1>1 DEF Sound, Files
  <2>3. LostAreOld(disk, written', missed' \cup rs)
    <3> SUFFICES ASSUME NEW x \in 1 .. written', x \notin missed' \cup rs,
                        \A n \in DOMAIN disk : x \notin disk[n]
                 PROVE  \A n \in DOMAIN disk : \A y \in disk[n] : x < y
      BY DEF LostAreOld
    <3>1. x \in 1 .. written /\ x \notin missed \cup rs
      BY <1>1, <2>1
    <3> QED BY <3>1 DEF Sound, LostAreOld
  <2> QED BY <1>1, <2>1, <2>2, <2>3 DEF Sound
<1> QED BY <1>2, <1>3

\* The number that the file with number n had before those of moved went one up.
Source(moved, n) == IF n - 1 \in moved THEN n - 1 ELSE n

(* The renames keep the order of the files whichever of them fail, delete  *)
(* none but the one with the last number and those that a failed rename    *)
(* costs, and leave the log or nothing in its place.                       *)
LEMMA RenamedFiles ==
    ASSUME NEW d, DOMAIN d \subseteq 0 .. Oldest, NEW last \in 0 .. Oldest, NEW failed
    PROVE  LET r == Renamed(d, last, failed)
               moved == Moved(d, last, failed) IN
           /\ DOMAIN r \subseteq 0 .. Oldest
           /\ \A n \in DOMAIN r :
                Source(moved, n) \in DOMAIN d /\ r[n] = d[Source(moved, n)]
           /\ \A m, n \in DOMAIN r : m < n => Source(moved, m) < Source(moved, n)
           /\ \A n \in DOMAIN d \ {Oldest} :
                \/ \E k \in DOMAIN r : Source(moved, k) = n
                \/ d[n] \subseteq RenamedOver(d, last, failed)
           /\ 0 \in DOMAIN r => 0 \in DOMAIN d /\ r[0] = d[0]
<1> DEFINE r == Renamed(d, last, failed)
           moved == Moved(d, last, failed)
           over == RenamedOver(d, last, failed)
           src(n) == Source(moved, n)
<1>1. Oldest \in Nat \ {0} /\ last \in Nat /\ DOMAIN d \subseteq Nat
  BY OldestType
<1>2. /\ DOMAIN r = (DOMAIN d \ moved) \cup {m + 1 : m \in moved}
      /\ \A n \in DOMAIN r : r[n] = IF n - 1 \in moved THEN d[n - 1] ELSE d[n]
  BY DEF Renamed
<1>3. \A n : src(n) = IF n - 1 \in moved THEN n - 1 ELSE n
  BY DEF Source
<1>10. \A n \in moved : n \in DOMAIN d /\ n < Oldest
  BY DEF Moved
<1>11. \A n \in DOMAIN d \ moved : n < Oldest /\ n - 1 \in moved => d[n] \subseteq over
  BY DEF RenamedOver
<1> HIDE DEF r, src, moved, over
<1>4. \A n : n \in DOMAIN r <=>
        \/ n \in DOMAIN d /\ n \notin moved
        \/ n \in Nat /\ n - 1 \in moved
  <2>1. \A n : n \in {m + 1 : m \in moved} <=> n \in Nat /\ n - 1 \in moved
    BY <1>1, <1>10
  <2> QED BY <1>2, <2>1
<1>5. DOMAIN r \subseteq 0 .. Oldest
  BY <1>1, <1>4, <1>10
<1>6. ASSUME NEW n \in DOMAIN r PROVE src(n) \in DOMAIN d /\ r[n] = d[src(n)]
  BY <1>2, <1>3, <1>4, <1>10
<1>7. ASSUME NEW m \in DOMAIN r, NEW n \in DOMAIN r, m < n PROVE src(m) < src(n)
  <2>1. m \in Nat /\ n \in Nat
    BY <1>1, <1>5
  <2>2. n - 1 = m /\ m \in moved => m - 1 \in moved
    BY <1>4
  <2> QED BY <1>3, <1>7, <2>1, <2>2
<1>8. ASSUME NEW n \in DOMAIN d \ {Oldest}
      PROVE  (\E k \in DOMAIN r : src(k) = n) \/ d[n] \subseteq over
  <2>0. n \in Nat /\ n < Oldest
    BY <1>1
  <2>1. CASE n \in moved
    <3>1. n + 1 \in Nat /\ (n + 1) - 1 = n
      BY <2>0
    <3> QED BY <1>3, <1>4, <2>1, <3>1
  <2>2. CASE n \notin moved /\ n - 1 \notin moved
    BY <1>3, <1>4, <2>2
  <2>3. CASE n \notin moved /\ n - 1 \in moved
    BY <1>11, <2>0, <2>3
  <2> QED BY <2>1, <2>2, <2>3
<1>9. 0 \in DOMAIN r => 0 \in DOMAIN d /\ r[0] = d[0]
  <2>1. 0 - 1 \notin moved
    BY <1>1, <1>10
  <2> QED BY <1>3, <1>6, <2>1
<1> QED BY <1>5, <1>6, <1>7, <1>8, <1>9 DEF r, src, moved, over

(* A rename deletes the last file, which is the oldest, or one whose own   *)
(* rename failed.                                                          *)
LEMMA RenamedSound ==
    ASSUME NEW d, NEW w, NEW ms, Sound(d, w, ms), NEW last \in 0 .. Oldest, NEW failed
    PROVE  Sound(Renamed(d, last, failed), w, ms \cup RenamedOver(d, last, failed))
<1> DEFINE r == Renamed(d, last, failed)
           moved == Moved(d, last, failed)
           over == RenamedOver(d, last, failed)
           src(n) == Source(moved, n)
<1>1. /\ w \in Nat /\ ms \subseteq 1 .. w
      /\ DOMAIN d \subseteq 0 .. Oldest /\ Oldest \in Nat
      /\ \A n \in DOMAIN d : d[n] \subseteq 1 .. w
  BY OldestType DEF Sound, Files
<1>2. /\ DOMAIN r \subseteq 0 .. Oldest
      /\ \A n \in DOMAIN r : src(n) \in DOMAIN d /\ r[n] = d[src(n)]
      /\ \A m, n \in DOMAIN r : m < n => src(m) < src(n)
      /\ \A n \in DOMAIN d \ {Oldest} :
            (\E k \in DOMAIN r : src(k) = n) \/ d[n] \subseteq over
  BY <1>1, RenamedFiles
<1>10. over \subseteq 1 .. w
  BY <1>1 DEF RenamedOver
<1> HIDE DEF r, src, moved, over
<1>3. Files(r, w)
  BY <1>1, <1>2 DEF Files
<1>4. Ordered(r)
  BY <1>2 DEF Sound, Ordered
<1>5. Apart(r)
  <2> SUFFICES ASSUME NEW m \in DOMAIN r, NEW n \in DOMAIN r, m # n
               PROVE  r[m] \cap r[n] = {}
    BY DEF Apart
  <2>1. m < n \/ n < m
    BY <1>1, <1>2
  <2>2. src(m) \in Nat /\ src(n) \in Nat
    BY <1>1, <1>2
  <2>3. src(m) # src(n)
    BY <1>2, <2>1, <2>2
  <2> QED BY <1>2, <2>3 DEF Sound, Apart
<1>6. LostAreOld(r, w, ms \cup over)
  <2> SUFFICES ASSUME NEW x \in 1 .. w, x \notin ms \cup over,
                      \A n \in DOMAIN r : x \notin r[n],
                      NEW n \in DOMAIN r, NEW y \in r[n]
               PROVE  x < y
    BY DEF LostAreOld
  <2>1. src(n) \in DOMAIN d /\ y \in d[src(n)]
    BY <1>2
  <2>2. CASE \A k \in DOMAIN d : x \notin d[k]
    BY <2>1, <2>2 DEF Sound, LostAreOld
  <2>3. CASE \E k \in DOMAIN d : x \in d[k]
    <3>1. \A k \in DOMAIN d \ {Oldest} : x \notin d[k]
      BY <1>2
    <3>2. Oldest \in DOMAIN d /\ x \in d[Oldest]
      BY <2>3, <3>1
    <3>3. src(n) # Oldest
      BY <1>2, <3>2
    <3>4. src(n) < Oldest
      BY <1>1, <2>1, <3>3
    <3> QED BY <2>1, <3>2, <3>4 DEF Sound, Ordered
  <2> QED BY <2>2, <2>3
<1>7. Sound(r, w, ms \cup over)
  BY <1>1, <1>10, <1>3, <1>4, <1>5, <1>6 DEF Sound
<1> QED BY <1>7 DEF r, over

\* A log that is opened is the one that is there, or a new one.
LEMMA OpenedSound ==
    ASSUME NEW d, NEW w, NEW ms, Sound(d, w, ms)
    PROVE  /\ Sound(OpenLog(d), w, ms)
           /\ DOMAIN OpenLog(d) = DOMAIN d \cup {0}
           /\ OpenLog(d)[0] \subseteq 1 .. w
<1> DEFINE o == OpenLog(d)
<1>1. /\ DOMAIN o = DOMAIN d \cup {0}
      /\ \A n \in DOMAIN d : o[n] = d[n]
      /\ 0 \notin DOMAIN d => o[0] = {}
  BY DEF OpenLog
<1> HIDE DEF o
<1>2. /\ w \in Nat /\ ms \subseteq 1 .. w
      /\ DOMAIN d \subseteq 0 .. Oldest /\ 0 \in 0 .. Oldest
      /\ \A n \in DOMAIN d : d[n] \subseteq 1 .. w
  BY OldestType DEF Sound, Files
<1>3. \A n \in DOMAIN o : o[n] = {} \/ (n \in DOMAIN d /\ o[n] = d[n])
  BY <1>1
<1>4. Files(o, w)
  BY <1>1, <1>2, <1>3 DEF Files
<1>5. Ordered(o) /\ Apart(o)
  BY <1>3 DEF Sound, Ordered, Apart
<1>6. LostAreOld(o, w, ms)
  <2> SUFFICES ASSUME NEW x \in 1 .. w, x \notin ms, \A n \in DOMAIN o : x \notin o[n],
                      NEW n \in DOMAIN o, NEW y \in o[n]
               PROVE  x < y
    BY DEF LostAreOld
  <2>1. n \in DOMAIN d /\ y \in d[n]
    BY <1>3
  <2>2. \A k \in DOMAIN d : x \notin d[k]
    BY <1>1
  <2> QED BY <2>1, <2>2 DEF Sound, LostAreOld
<1>7. Sound(o, w, ms)
  BY <1>2, <1>4, <1>5, <1>6 DEF Sound
<1>8. o[0] \subseteq 1 .. w
  BY <1>1, <1>4 DEF Files
<1> QED BY <1>1, <1>7, <1>8 DEF o

-----------------------------------------------------------------------------
LEMMA InitInv == Init => IInv
<1> SUFFICES ASSUME Init PROVE IInv
  OBVIOUS
<1>1. DOMAIN disk = {}
  BY DEF Init
<1>2. Kept = {}
  BY <1>1 DEF Kept
<1> QED BY <1>1, <1>2 DEF Init, IInv, TypeOK, NewestFirst, OnlyOldDeleted,
           NeverUndercounts, OpenLogExists

\* Enough for a step that leaves the disk sound.
LEMMA SoundInv ==
    ASSUME Sound(disk, written, missed \cup replaced)', NeverUndercounts', OpenLogExists',
           size' \in Nat, uncounted' \subseteq 1 .. written',
           open' \in BOOLEAN, running' \in BOOLEAN, level' \in Levels,
           caller' \in [Callers -> {"idle", "locking", "stuck"}]
    PROVE  IInv'
<1>1. (TypeOK /\ NewestFirst /\ OnlyOldDeleted)'
  <2>1. (TypeOK /\ NewestFirst /\ OnlyOldDeleted <=>
            /\ Sound(disk, written, missed \cup replaced)
            /\ size \in Nat /\ uncounted \subseteq 1 .. written
            /\ open \in BOOLEAN /\ running \in BOOLEAN
            /\ level \in Levels
            /\ caller \in [Callers -> {"idle", "locking", "stuck"}])'
    BY SoundDisk, PTL
  <2> QED BY <2>1
<1> QED BY <1>1 DEF IInv

LEMMA InvSound ==
    ASSUME IInv
    PROVE  /\ Sound(disk, written, missed \cup replaced) /\ OpenLogExists
           /\ size \in Nat /\ uncounted \subseteq 1 .. written
           /\ open \in BOOLEAN /\ running \in BOOLEAN /\ level \in Levels
           /\ caller \in [Callers -> {"idle", "locking", "stuck"}]
BY SoundDisk DEF IInv

LEMMA NewLoggerInv == IInv /\ NewLogger => IInv'
<1> SUFFICES ASSUME IInv, NewLogger PROVE IInv'
  OBVIOUS
<1>1. /\ disk' = OpenLog(disk) /\ size' = Cardinality(disk'[0]) /\ uncounted' = {}
      /\ running' = TRUE /\ open' = TRUE /\ level' \in Levels
      /\ UNCHANGED <<written, missed, replaced, caller>>
  BY DEF NewLogger, history
<1>2. /\ Sound(disk', written', missed' \cup replaced')
      /\ 0 \in DOMAIN disk' /\ disk'[0] \subseteq 1 .. written
  BY <1>1, InvSound, OpenedSound
<1>3. size' \in Nat
  BY <1>1, <1>2, InvSound, LinesFinite DEF Sound
<1>4. NeverUndercounts' /\ OpenLogExists'
  <2>1. disk'[0] \ uncounted' = disk'[0]
    BY <1>1
  <2> QED BY <1>1, <1>2, <1>3, <2>1 DEF NeverUndercounts, OpenLogExists
<1>5. Sound(disk, written, missed \cup replaced)'
  BY <1>2
<1> QED BY <1>1, <1>3, <1>4, <1>5, InvSound, SoundInv

\* The steps that log a line find a size that is not too small.
LEMMA CountedLog ==
    ASSUME IInv, running, NEW reached \in BOOLEAN, WriteLine(reached)
    PROVE  0 \in DOMAIN disk =>
                Cardinality(Written(reached)[0] \ uncounted) <= size + 1
<1> SUFFICES ASSUME 0 \in DOMAIN disk
             PROVE  Cardinality(Written(reached)[0] \ uncounted) <= size + 1
  OBVIOUS
<1> DEFINE T == disk[0] \ uncounted
<1>1. Written(reached)[0] \ uncounted \subseteq T \cup {written + 1}
  BY InvSound, WrittenSound
<1>2. T \in SUBSET (1 .. written) /\ written \in Nat /\ size \in Nat
  BY InvSound DEF Sound, Files
<1>3. IsFiniteSet(T) /\ Cardinality(T) \in Nat /\ Cardinality(T) <= size
  BY <1>2, LinesFinite DEF IInv, NeverUndercounts
<1> HIDE DEF T
<1>4. /\ IsFiniteSet(T \cup {written + 1})
      /\ Cardinality(T \cup {written + 1}) <= size + 1
      /\ Cardinality(T \cup {written + 1}) \in Nat
  BY <1>2, <1>3, FS_AddElement
<1>5. /\ Cardinality(Written(reached)[0] \ uncounted) <= Cardinality(T \cup {written + 1})
      /\ Cardinality(Written(reached)[0] \ uncounted) \in Nat
  BY <1>1, <1>4, FS_Subset, FS_CardinalityType
<1> QED BY <1>2, <1>4, <1>5

\* A line is logged under a higher number than those in uncounted.
LEMMA UncountedLeft ==
    ASSUME IInv, NEW reached \in BOOLEAN, WriteLine(reached), uncounted' = uncounted
    PROVE  uncounted' \subseteq 1 .. written'
<1>1. written \in Nat /\ written' = written + 1 /\ uncounted \subseteq 1 .. written
  BY InvSound DEF Sound, WriteLine
<1> QED BY <1>1

LEMMA LogInv ==
    ASSUME IInv, NEW p \in Callers, NEW reached \in BOOLEAN, Log(p, reached)
    PROVE  IInv'
<1>1. /\ running /\ WriteLine(reached) /\ disk' = Written(reached)
      /\ size' = size + 1 /\ Return(p)
      /\ UNCHANGED <<replaced, uncounted, open, level, running>>
  BY DEF Log
<1>2. Sound(disk', written', missed' \cup replaced') /\ DOMAIN disk' = DOMAIN disk
  BY <1>1, InvSound, WrittenSound
<1>3. NeverUndercounts' /\ OpenLogExists'
  BY <1>1, <1>2, CountedLog, InvSound DEF NeverUndercounts, OpenLogExists
<1>4. Sound(disk, written, missed \cup replaced)'
  BY <1>2
<1>5. /\ size' \in Nat /\ open' \in BOOLEAN /\ running' \in BOOLEAN /\ level' \in Levels
      /\ caller' \in [Callers -> {"idle", "locking", "stuck"}]
  BY <1>1, InvSound DEF Return
<1> QED BY <1>1, <1>3, <1>4, <1>5, UncountedLeft, SoundInv

(* After a line and the renames down to any number the disk is sound, and  *)
(* if there is still a log it is the one that the line went to.            *)
LEMMA LogAndRenameSound ==
    ASSUME IInv, NEW p \in Callers, NEW reached \in BOOLEAN, NEW failed,
           NEW last \in 0 .. Oldest, LogAndRename(p, reached, failed, last)
    PROVE  LET r == Renamed(Written(reached), last, failed) IN
           /\ Sound(r, written', missed' \cup replaced')
           /\ 0 \in DOMAIN r =>
                Cardinality(r[0] \ uncounted) <= size + 1
<1>1. /\ running /\ WriteLine(reached)
      /\ replaced' = replaced \cup RenamedOver(Written(reached), last, failed)
  BY DEF LogAndRename
<1>2. /\ Sound(Written(reached), written', missed' \cup replaced)
      /\ DOMAIN Written(reached) = DOMAIN disk
  BY <1>1, InvSound, WrittenSound
<1>3. Sound(Renamed(Written(reached), last, failed), written',
            (missed' \cup replaced) \cup RenamedOver(Written(reached), last, failed))
  BY <1>2, RenamedSound
<1>4. missed' \cup replaced' =
        (missed' \cup replaced) \cup RenamedOver(Written(reached), last, failed)
  BY <1>1
<1>5. Sound(Renamed(Written(reached), last, failed), written', missed' \cup replaced')
  BY <1>3, <1>4
<1>6. 0 \in DOMAIN Renamed(Written(reached), last, failed) =>
        /\ 0 \in DOMAIN Written(reached)
        /\ Renamed(Written(reached), last, failed)[0] = Written(reached)[0]
  BY <1>2, RenamedFiles DEF Sound, Files
<1> QED BY <1>1, <1>2, <1>5, <1>6, CountedLog

LEMMA LogAndRotateInv ==
    ASSUME IInv, NEW p \in Callers, NEW reached \in BOOLEAN, NEW failed,
           LogAndRotate(p, reached, failed)
    PROVE  IInv'
<1>1. /\ LogAndRename(p, reached, failed, 0)
      /\ disk' = OpenLog(Renamed(Written(reached), 0, failed))
      /\ size' = 0 /\ uncounted' = disk'[0]
      /\ open' = TRUE /\ UNCHANGED <<level, running>>
  BY DEF LogAndRotate
<1>2. caller' \in [Callers -> {"idle", "locking", "stuck"}]
  BY InvSound DEF LogAndRotate, Return
<1>3. 0 \in 0 .. Oldest
  BY OldestType
<1>4. Sound(Renamed(Written(reached), 0, failed), written', missed' \cup replaced')
  BY <1>1, <1>3, LogAndRenameSound
<1>5. /\ Sound(disk', written', missed' \cup replaced')
      /\ 0 \in DOMAIN disk' /\ disk'[0] \subseteq 1 .. written'
  BY <1>1, <1>4, OpenedSound
<1>6. NeverUndercounts' /\ OpenLogExists'
  <2>1. disk'[0] \ uncounted' = {}
    BY <1>1
  <2> QED BY <1>1, <1>5, <2>1, FS_EmptySet DEF NeverUndercounts, OpenLogExists
<1>7. Sound(disk, written, missed \cup replaced)'
  BY <1>5
<1> QED BY <1>1, <1>2, <1>5, <1>6, <1>7, InvSound, SoundInv

LEMMA LogAndFailToRotateInv ==
    ASSUME IInv, NEW p \in Callers, NEW reached \in BOOLEAN, NEW failed,
           LogAndFailToRotate(p, reached, failed)
    PROVE  IInv'
<1>1. /\ LogAndRename(p, reached, failed, 0)
      /\ disk' = Renamed(Written(reached), 0, failed)
      /\ size' = size + 1 /\ open' = FALSE /\ Return(p)
      /\ UNCHANGED <<uncounted, level, running>>
  BY DEF LogAndFailToRotate
<1>2. 0 \in 0 .. Oldest /\ WriteLine(reached)
  BY <1>1, OldestType DEF LogAndRename
<1>3. /\ Sound(disk', written', missed' \cup replaced')
      /\ 0 \in DOMAIN disk' => Cardinality(disk'[0] \ uncounted) <= size + 1
  BY <1>1, <1>2, LogAndRenameSound
<1>4. NeverUndercounts' /\ OpenLogExists'
  BY <1>1, <1>3 DEF NeverUndercounts, OpenLogExists
<1>5. Sound(disk, written, missed \cup replaced)'
  BY <1>3
<1>6. size' \in Nat /\ caller' \in [Callers -> {"idle", "locking", "stuck"}]
  BY <1>1, InvSound DEF Return
<1> QED BY <1>1, <1>2, <1>4, <1>5, <1>6, InvSound, UncountedLeft, SoundInv

LEMMA CrashInRotationInv ==
    ASSUME IInv, NEW p \in Callers, NEW reached \in BOOLEAN, NEW failed,
           NEW last \in 0 .. Oldest, CrashInRotation(p, reached, failed, last)
    PROVE  IInv'
<1>1. /\ LogAndRename(p, reached, failed, last)
      /\ disk' = Renamed(Written(reached), last, failed) /\ Gone
  BY DEF CrashInRotation
<1>2. Sound(disk', written', missed' \cup replaced')
  BY <1>1, LogAndRenameSound
<1>3. Sound(disk, written, missed \cup replaced)'
  BY <1>2
<1> QED BY <1>1, <1>3, InvSound, SoundInv DEF Gone, NeverUndercounts, OpenLogExists

\* The steps that leave the files and the history as they were.
LEMMA DiskLeftInv ==
    ASSUME IInv, UNCHANGED <<disk, written, missed, replaced>>,
           UNCHANGED <<size, uncounted>> \/ ~running',
           open' => open, running' => running,
           size' \in Nat, uncounted' \subseteq 1 .. written,
           open' \in BOOLEAN, running' \in BOOLEAN, level' \in Levels,
           caller' \in [Callers -> {"idle", "locking", "stuck"}]
    PROVE  IInv'
<1>1. Sound(disk', written', missed' \cup replaced')
  BY InvSound
<1>2. Sound(disk, written, missed \cup replaced)'
  BY <1>1
<1>3. NeverUndercounts' /\ OpenLogExists'
  BY DEF IInv, NeverUndercounts, OpenLogExists
<1> QED BY <1>2, <1>3, SoundInv

LEMMA NextInv == IInv /\ [Next]_loggerVars => IInv'
<1> SUFFICES ASSUME IInv, [Next]_loggerVars PROVE IInv'
  OBVIOUS
<1> USE DEF history, counted
<1>1. CASE Close
  BY <1>1, DiskLeftInv, InvSound DEF Close
<1>2. CASE Crash
  BY <1>2, DiskLeftInv, InvSound DEF Crash, Gone
<1>3. ASSUME NEW l \in Levels, SetLevel(l) PROVE IInv'
  BY <1>3, DiskLeftInv, InvSound DEF SetLevel
<1>4. ASSUME NEW p \in Callers, NEW s \in Severities, Call(p, s) PROVE IInv'
  <2>1. caller' \in [Callers -> {"idle", "locking", "stuck"}]
    BY <1>4, InvSound DEF Call
  <2> QED BY <1>4, <2>1, DiskLeftInv, InvSound DEF Call
<1>5. CASE UNCHANGED loggerVars
  BY <1>5, DiskLeftInv, InvSound DEF loggerVars
<1> QED BY <1>1, <1>2, <1>3, <1>4, <1>5, NewLoggerInv, LogInv, LogAndRotateInv,
           LogAndFailToRotateInv, CrashInRotationInv DEF Next

-----------------------------------------------------------------------------
LEMMA LoggerInvariant == Spec => []IInv
BY InitInv, NextInv, PTL DEF Spec

(* The variables keep their types, and no rotation makes a backup with a   *)
(* number above Logger.maxBackups.                                         *)
THEOREM TypeCorrect == Spec => []TypeOK
<1>1. IInv => TypeOK
  BY DEF IInv
<1> QED BY <1>1, LoggerInvariant, PTL

(* rotate: a backup with a higher number holds older lines only, whatever  *)
(* the limits are, whichever renames fail and wherever a rotation is cut   *)
(* short.                                                                  *)
THEOREM BackupsInOrder == Spec => []NewestFirst
<1>1. IInv => NewestFirst
  BY DEF IInv
<1> QED BY <1>1, LoggerInvariant, PTL

(* rotate: what is deleted is older than every line that is kept, except   *)
(* where a rename failed: a backup that stayed behind is lost to the next  *)
(* one, whatever its age.  No line is in two files.                        *)
THEOREM DeletesOldest == Spec => []OnlyOldDeleted
<1>1. IInv => OnlyOldDeleted
  BY DEF IInv
<1> QED BY <1>1, LoggerInvariant, PTL

(* Logger.currentSize is at least the size of the file, without the lines  *)
(* that the last rotation could not move out of it.                        *)
THEOREM CountsAll == Spec => []NeverUndercounts
<1>1. IInv => NeverUndercounts
  BY DEF IInv
<1> QED BY <1>1, LoggerInvariant, PTL

-----------------------------------------------------------------------------
(* A line leaves the disk only in a rotation that finds the last backup    *)
(* there, or with a backup whose own rename fails in this rotation:        *)
(* NewLogger, Close, SetLevel, a crash or a rotation with a number free    *)
(* and without a failed rename lose nothing.                               *)
DeletesOnlyWhenFull ==
    Oldest \in DOMAIN disk \/ Kept \subseteq Kept' \cup (replaced' \ replaced)

Lines(d) == UNION {d[n] : n \in DOMAIN d}

LEMMA RenamedKeeps ==
    ASSUME NEW d, DOMAIN d \subseteq 0 .. Oldest, Oldest \notin DOMAIN d,
           NEW last \in 0 .. Oldest, NEW failed
    PROVE  Lines(d) \subseteq
                Lines(Renamed(d, last, failed)) \cup RenamedOver(d, last, failed)
<1> DEFINE r == Renamed(d, last, failed)
           over == RenamedOver(d, last, failed)
           src(n) == Source(Moved(d, last, failed), n)
<1>1. /\ \A n \in DOMAIN r : r[n] = d[src(n)]
      /\ \A n \in DOMAIN d \ {Oldest} :
            (\E k \in DOMAIN r : src(k) = n) \/ d[n] \subseteq over
  BY RenamedFiles
<1> HIDE DEF r, over, src
<1>2. Lines(d) \subseteq Lines(r) \cup over
  BY <1>1 DEF Lines
<1> QED BY <1>2 DEF r, over

LEMMA OpenedKeeps ==
    ASSUME NEW d
    PROVE  Lines(d) \subseteq Lines(OpenLog(d))
<1>1. /\ DOMAIN d \subseteq DOMAIN OpenLog(d)
      /\ \A n \in DOMAIN d : OpenLog(d)[n] = d[n]
  BY DEF OpenLog
<1> QED BY <1>1 DEF Lines

LEMMA WrittenKeeps ==
    ASSUME NEW reached \in BOOLEAN
    PROVE  /\ Lines(disk) \subseteq Lines(Written(reached))
           /\ DOMAIN Written(reached) = DOMAIN disk
<1>1. /\ DOMAIN disk = DOMAIN Written(reached)
      /\ \A n \in DOMAIN disk : disk[n] \subseteq Written(reached)[n]
  BY DEF Written
<1> QED BY <1>1 DEF Lines

\* What a failed rename cost is not on the disk again.
Gap(d, rs) == \A n \in DOMAIN d : d[n] \cap rs = {}

LEMMA RenamedGap ==
    ASSUME NEW d, DOMAIN d \subseteq 0 .. Oldest, NEW last \in 0 .. Oldest, NEW failed,
           NEW rs, Gap(d, rs), Apart(d)
    PROVE  Gap(Renamed(d, last, failed), rs \cup RenamedOver(d, last, failed))
<1> DEFINE r == Renamed(d, last, failed)
           moved == Moved(d, last, failed)
           src(n) == Source(moved, n)
<1>1. /\ DOMAIN r \subseteq 0 .. Oldest
      /\ \A n \in DOMAIN r : src(n) \in DOMAIN d /\ r[n] = d[src(n)]
  BY RenamedFiles
<1> HIDE DEF r, moved
<1>2. ASSUME NEW n \in DOMAIN r,
             NEW m \in DOMAIN d \ moved, m - 1 \in moved
      PROVE  src(n) # m
  BY <1>1, <1>2, OldestType DEF Source
<1>3. ASSUME NEW n \in DOMAIN r, NEW m \in DOMAIN d \ moved, m - 1 \in moved
      PROVE  r[n] \cap d[m] = {}
  BY <1>1, <1>2, <1>3 DEF Apart
<1>4. RenamedOver(d, last, failed) =
        UNION {d[n] : n \in {m \in DOMAIN d \ moved : m < Oldest /\ m - 1 \in moved}}
  BY DEF RenamedOver, moved
<1>5. ASSUME NEW n \in DOMAIN r
      PROVE  r[n] \cap (rs \cup RenamedOver(d, last, failed)) = {}
  BY <1>1, <1>3, <1>4, <1>5 DEF Gap
<1> QED BY <1>5 DEF Gap, r

LEMMA GapStep == IInv /\ Gap(disk, replaced) /\ [Next]_loggerVars => Gap(disk', replaced')
<1> SUFFICES ASSUME IInv, Gap(disk, replaced), [Next]_loggerVars
             PROVE  Gap(disk', replaced')
  OBVIOUS
<1>1. CASE UNCHANGED <<disk, replaced>>
  BY <1>1
<1>2. ASSUME NEW d, NEW rs, Gap(d, rs) PROVE Gap(OpenLog(d), rs)
  BY <1>2 DEF Gap, OpenLog
<1>3. CASE NewLogger
  BY <1>2, <1>3 DEF NewLogger, history
<1>4. ASSUME NEW reached \in BOOLEAN, WriteLine(reached)
      PROVE  Gap(Written(reached), replaced)
  <2>1. replaced \subseteq 1 .. written /\ written \in Nat
    BY InvSound DEF Sound
  <2>2. written + 1 \notin replaced
    BY <2>1
  <2>3. DOMAIN Written(reached) = DOMAIN disk
    BY DEF Written
  <2>4. \A n \in DOMAIN disk : Written(reached)[n] \subseteq disk[n] \cup {written + 1}
    BY DEF Written
  <2> QED BY <2>2, <2>3, <2>4 DEF Gap
<1>5. ASSUME NEW p \in Callers, NEW reached \in BOOLEAN, Log(p, reached)
      PROVE  Gap(disk', replaced')
  BY <1>4, <1>5 DEF Log
<1>6. ASSUME NEW p \in Callers, NEW reached \in BOOLEAN, NEW failed,
             NEW last \in 0 .. Oldest, LogAndRename(p, reached, failed, last)
      PROVE  Gap(Renamed(Written(reached), last, failed), replaced')
  <2>1. /\ WriteLine(reached)
        /\ replaced' = replaced \cup RenamedOver(Written(reached), last, failed)
    BY <1>6 DEF LogAndRename
  <2>2. DOMAIN Written(reached) \subseteq 0 .. Oldest /\ Apart(Written(reached))
    BY <2>1, InvSound, WrittenSound DEF Sound, Files
  <2> QED BY <1>4, <2>1, <2>2, RenamedGap
<1>7. 0 \in 0 .. Oldest
  BY OldestType
<1>8. ASSUME NEW p \in Callers, NEW reached \in BOOLEAN, NEW failed,
             LogAndRotate(p, reached, failed) \/ LogAndFailToRotate(p, reached, failed)
      PROVE  Gap(disk', replaced')
  BY <1>2, <1>6, <1>7, <1>8 DEF LogAndRotate, LogAndFailToRotate
<1>9. ASSUME NEW p \in Callers, NEW reached \in BOOLEAN, NEW failed,
             NEW last \in 0 .. Oldest, CrashInRotation(p, reached, failed, last)
      PROVE  Gap(disk', replaced')
  BY <1>6, <1>9 DEF CrashInRotation
<1> QED BY <1>1, <1>3, <1>5, <1>8, <1>9
        DEF Next, Close, Crash, SetLevel, Call, loggerVars, history

LEMMA NoneIsBack == Spec => []Gap(disk, replaced)
<1>1. Init => Gap(disk, replaced)
  BY DEF Init, Gap
<1>2. IInv /\ Gap(disk, replaced) /\ [Next]_loggerVars => Gap(disk, replaced)'
  BY GapStep DEF Gap
<1> QED BY <1>1, <1>2, LoggerInvariant, PTL DEF Spec

\* A line and the renames down to any number, with the last number free.
LEMMA LogAndRenameKeeps ==
    ASSUME IInv, Gap(disk, replaced), Oldest \notin DOMAIN disk,
           NEW p \in Callers, NEW reached \in BOOLEAN, NEW failed,
           NEW last \in 0 .. Oldest, LogAndRename(p, reached, failed, last)
    PROVE  Lines(disk) \subseteq
                Lines(Renamed(Written(reached), last, failed)) \cup (replaced' \ replaced)
<1>1. replaced' = replaced \cup RenamedOver(Written(reached), last, failed)
  BY DEF LogAndRename
<1>2. DOMAIN disk \subseteq 0 .. Oldest
  BY InvSound DEF Sound, Files
<1>3. Lines(disk) \subseteq Lines(Written(reached)) /\ DOMAIN Written(reached) = DOMAIN disk
  BY WrittenKeeps
<1>4. Lines(Written(reached)) \subseteq
        Lines(Renamed(Written(reached), last, failed))
            \cup RenamedOver(Written(reached), last, failed)
  BY <1>2, <1>3, RenamedKeeps
<1>5. Lines(disk) \cap replaced = {}
  BY DEF Gap, Lines
<1> QED BY <1>1, <1>3, <1>4, <1>5

(* rotate: a step loses lines only when the places for backups are all     *)
(* taken, or else the lines of a backup whose rename failed in that step.  *)
THEOREM DeletesLate == Spec => [][DeletesOnlyWhenFull]_loggerVars
<1>1. ASSUME IInv, Gap(disk, replaced), Next, Oldest \notin DOMAIN disk
      PROVE  Lines(disk) \subseteq Lines(disk') \cup (replaced' \ replaced)
  <2> DEFINE Keeps == Lines(disk) \subseteq Lines(disk') \cup (replaced' \ replaced)
  <2>1. 0 \in 0 .. Oldest
    BY OldestType
  <2>2. CASE UNCHANGED disk
    BY <2>2
  <2>3. CASE NewLogger
    BY <2>3, OpenedKeeps DEF NewLogger
  <2>4. ASSUME NEW p \in Callers, NEW reached \in BOOLEAN, Log(p, reached)
        PROVE  Keeps
    BY <2>4, WrittenKeeps DEF Log
  <2>5. ASSUME NEW p \in Callers, NEW reached \in BOOLEAN, NEW failed,
               LogAndRotate(p, reached, failed) \/ LogAndFailToRotate(p, reached, failed)
        PROVE  Keeps
    <3>1. Lines(Renamed(Written(reached), 0, failed)) \subseteq Lines(disk')
      BY <2>5, OpenedKeeps DEF LogAndRotate, LogAndFailToRotate
    <3>2. LogAndRename(p, reached, failed, 0)
      BY <2>5 DEF LogAndRotate, LogAndFailToRotate
    <3> QED BY <1>1, <2>1, <3>1, <3>2, LogAndRenameKeeps
  <2>6. ASSUME NEW p \in Callers, NEW reached \in BOOLEAN, NEW failed,
               NEW last \in 0 .. Oldest, CrashInRotation(p, reached, failed, last)
        PROVE  Keeps
    BY <1>1, <2>6, LogAndRenameKeeps DEF CrashInRotation
  <2> QED BY <1>1, <2>2, <2>3, <2>4, <2>5, <2>6
        DEF Next, Close, Crash, SetLevel, Call
<1>2. Kept = Lines(disk) /\ Kept' = Lines(disk')
  BY DEF Kept, Lines
<1>3. IInv /\ Gap(disk, replaced) /\ [Next]_loggerVars => [DeletesOnlyWhenFull]_loggerVars
  BY <1>1, <1>2 DEF DeletesOnlyWhenFull
<1> QED BY <1>3, LoggerInvariant, NoneIsBack, PTL DEF Spec
=============================================================================
