------------------------ MODULE OfflineBuffer_proofs ------------------------
(***************************************************************************)
(* OfflineBuffer for every batch size, limit and clock: type correctness,  *)
(* the limit on the directory when no write, removal or walk fails, what   *)
(* Prune removes, and the exactness of a count over the limit.             *)
(***************************************************************************)
EXTENDS OfflineBuffer, FiniteSetTheorems, NaturalsInduction, TLAPS

\* A directory: finitely many files, each with a length.
IsDir(fs) ==
    /\ IsFiniteSet(DOMAIN fs)
    /\ \A t \in DOMAIN fs : fs[t].len \in Nat

-----------------------------------------------------------------------------
(* The bytes of a directory are finitely many, so DiskUse is a number.     *)
LEMMA DiskUseType ==
    ASSUME NEW fs, IsDir(fs)
    PROVE  IsFiniteSet(Bytes(fs)) /\ DiskUse(fs) \in Nat
<1> DEFINE Part == [t \in DOMAIN fs |-> {t} \X (1 .. fs[t].len)]
           Parts == {{t} \X (1 .. fs[t].len) : t \in DOMAIN fs}
<1>1. Part \in Surjection(DOMAIN fs, Parts)
  BY DEF Surjection
<1>2. IsFiniteSet(Parts)
  BY <1>1, FS_Surjection DEF IsDir
<1>3. \A P \in Parts : IsFiniteSet(P)
  <2>1. TAKE P \in Parts
  <2>2. PICK t \in DOMAIN fs : P = {t} \X (1 .. fs[t].len)
    OBVIOUS
  <2>3. IsFiniteSet({t})
    BY FS_Singleton
  <2>4. fs[t].len \in Int
    BY DEF IsDir
  <2>5. IsFiniteSet(1 .. fs[t].len)
    BY <2>4, FS_Interval
  <2> QED BY <2>2, <2>3, <2>5, FS_Product
<1>4. IsFiniteSet(UNION Parts)
  BY <1>2, <1>3, FS_UNION
<1> QED BY <1>4, FS_CardinalityType DEF Bytes, DiskUse

(* Removing files frees exactly what they took.                            *)
LEMMA DiskUseSplit ==
    ASSUME NEW fs, IsDir(fs), NEW S \in SUBSET DOMAIN fs
    PROVE  /\ IsDir(Restrict(fs, S)) /\ IsDir(Restrict(fs, DOMAIN fs \ S))
           /\ DiskUse(fs) = DiskUse(Restrict(fs, S))
                              + DiskUse(Restrict(fs, DOMAIN fs \ S))
<1> DEFINE In == Restrict(fs, S)
           Out == Restrict(fs, DOMAIN fs \ S)
<1>1. IsDir(In) /\ IsDir(Out)
  BY FS_Subset DEF IsDir, Restrict
<1>2. Bytes(fs) = Bytes(In) \cup Bytes(Out)
  BY DEF Bytes, Restrict
<1>3. Bytes(In) \cap Bytes(Out) = {}
  BY DEF Bytes, Restrict
<1>4. IsFiniteSet(Bytes(In)) /\ IsFiniteSet(Bytes(Out))
  BY <1>1, DiskUseType
<1>5. Cardinality(Bytes(fs)) = Cardinality(Bytes(In)) + Cardinality(Bytes(Out))
                                  - Cardinality(Bytes(In) \cap Bytes(Out))
  BY <1>2, <1>4, FS_Union
<1>6. Cardinality(Bytes(In) \cap Bytes(Out)) = 0
  BY <1>3, FS_EmptySet
<1>7. DiskUse(In) \in Nat /\ DiskUse(Out) \in Nat
  BY <1>1, DiskUseType
<1> HIDE DEF In, Out
<1>8. DiskUse(fs) = DiskUse(In) + DiskUse(Out)
  BY <1>5, <1>6, <1>7 DEF DiskUse
<1> QED BY <1>1, <1>8 DEF In, Out

(* Writing a file adds at most its length: an older one of the same name   *)
(* gives its bytes back.                                                   *)
LEMMA DiskUsePut ==
    ASSUME IsDir(files), NEW t, NEW b, NEW len \in Nat
    PROVE  IsDir(Put(t, b, len)) /\ DiskUse(Put(t, b, len)) <= DiskUse(files) + len
<1> DEFINE New1 == {t} \X (1 .. len)
           Result == Put(t, b, len)
<1>1. IsDir(Result)
  BY FS_AddElement DEF IsDir, Put
<1>2. Bytes(Result) \subseteq Bytes(files) \cup New1
  BY DEF Bytes, Put
<1>3. IsFiniteSet({t}) /\ Cardinality({t}) = 1
  BY FS_Singleton
<1>4. IsFiniteSet(1 .. len) /\ Cardinality(1 .. len) = len
  BY FS_Interval
<1>5. IsFiniteSet(New1) /\ Cardinality(New1) = len
  <2>1. /\ IsFiniteSet({t} \X (1 .. len))
        /\ Cardinality({t} \X (1 .. len)) = Cardinality({t}) * Cardinality(1 .. len)
    BY <1>3, <1>4, FS_Product
  <2>2. Cardinality({t}) * Cardinality(1 .. len) = len
    BY <1>3, <1>4
  <2> QED BY <2>1, <2>2
<1> HIDE DEF New1, Result
<1>6. IsFiniteSet(Bytes(files)) /\ Cardinality(Bytes(files)) \in Nat
  BY DiskUseType DEF DiskUse
<1>7. /\ IsFiniteSet(Bytes(files) \cup New1)
      /\ Cardinality(Bytes(files) \cup New1)
           = Cardinality(Bytes(files)) + len - Cardinality(Bytes(files) \cap New1)
  BY <1>5, <1>6, FS_Union
<1>8. Cardinality(Bytes(files) \cap New1) \in Nat
  BY <1>5, FS_Subset, FS_CardinalityType
<1>9. Cardinality(Bytes(Result)) <= Cardinality(Bytes(files) \cup New1)
  BY <1>2, <1>7, FS_Subset
<1>10. Cardinality(Bytes(Result)) \in Nat
  BY <1>1, DiskUseType DEF DiskUse
<1>11. DiskUse(Result) <= DiskUse(files) + len
  BY <1>6, <1>7, <1>8, <1>9, <1>10 DEF DiskUse
<1> QED BY <1>1, <1>11 DEF Result

LEMMA EmptyDirUse == \A fs : DOMAIN fs = {} => DiskUse(fs) = 0
BY FS_EmptySet DEF DiskUse, Bytes

-----------------------------------------------------------------------------
(* The inductive invariant.  LimitHolds alone is not inductive: a New that *)
(* counts what is there gives NeverUndercounts, which with the check in    *)
(* Write gives LimitHolds back.  OverLimitIsExact keeps Prune from         *)
(* counting below zero.                                                    *)
IInv == TypeOK /\ OverLimitIsExact /\ LimitHolds /\ NeverUndercounts

LEMMA DirOK ==
    TypeOK => IsDir(files) /\ DiskUse(files) \in Nat
<1> SUFFICES ASSUME TypeOK PROVE IsDir(files)
  BY DiskUseType
<1> QED BY DEF TypeOK, IsDir, File

\* What Put leaves is still a directory of the right type.
LEMMA PutType ==
    ASSUME TypeOK, NEW b \in Batches, NEW t \in Times, NEW len \in Nat
    PROVE  /\ DOMAIN Put(t, b, len) \subseteq Times
           /\ IsFiniteSet(DOMAIN Put(t, b, len))
           /\ Put(t, b, len) \in [DOMAIN Put(t, b, len) -> File]
<1>1. DOMAIN Put(t, b, len) = DOMAIN files \cup {t}
  BY DEF Put
<1>2. IsFiniteSet(DOMAIN files \cup {t})
  BY FS_AddElement DEF TypeOK
<1> QED BY <1>1, <1>2 DEF Put, TypeOK, File

LEMMA RestrictType ==
    ASSUME TypeOK, NEW S \in SUBSET DOMAIN files
    PROVE  /\ DOMAIN Restrict(files, S) = S
           /\ DOMAIN Restrict(files, S) \subseteq Times
           /\ IsFiniteSet(DOMAIN Restrict(files, S))
           /\ Restrict(files, S) \in [DOMAIN Restrict(files, S) -> File]
           /\ DiskUse(Restrict(files, S)) \in Nat
           /\ DiskUse(Restrict(files, S)) <= DiskUse(files)
<1>1. /\ DOMAIN Restrict(files, S) = S
      /\ Restrict(files, S) \in [S -> File]
  BY DEF Restrict, TypeOK
<1>2. IsFiniteSet(S)
  BY FS_Subset DEF TypeOK
<1>3. IsDir(files)
  BY DirOK
<1>4. DiskUse(files) = DiskUse(Restrict(files, S))
                          + DiskUse(Restrict(files, DOMAIN files \ S))
      /\ IsDir(Restrict(files, S)) /\ IsDir(Restrict(files, DOMAIN files \ S))
  BY <1>3, DiskUseSplit
<1>5. DiskUse(Restrict(files, S)) \in Nat
      /\ DiskUse(Restrict(files, DOMAIN files \ S)) \in Nat
  BY <1>4, DiskUseType
<1> QED BY <1>1, <1>2, <1>4, <1>5 DEF TypeOK

LEMMA InitInv == Init => IInv
<1> SUFFICES ASSUME Init PROVE IInv
  OBVIOUS
<1>1. DOMAIN files = {} /\ files \in [{} -> File]
  BY DEF Init
<1>2. DiskUse(files) = 0
  BY <1>1, EmptyDirUse
<1>3. IsFiniteSet(DOMAIN files)
  BY <1>1, FS_EmptySet
<1>4. TypeOK
  BY <1>1, <1>3, Zenon DEF Init, TypeOK
<1>5. OverLimitIsExact /\ LimitHolds /\ NeverUndercounts
  BY <1>2, MaxSizeAssumption
  DEF Init, OverLimitIsExact, LimitHolds, NeverUndercounts
<1> QED BY <1>4, <1>5 DEF IInv

LEMMA NewInv == IInv /\ New => IInv'
<1> SUFFICES ASSUME IInv, New PROVE IInv'
  OBVIOUS
<1>1. files' = files /\ DiskUse(files') = DiskUse(files) /\ DiskUse(files) \in Nat
  BY DirOK DEF New, IInv
<1>2. currentSize' = DiskUse(files) \/ ("walk" \in Faults /\ currentSize' = 0)
  BY DEF New
<1>3. TypeOK'
  BY <1>1, <1>2 DEF New, IInv, TypeOK, RestartPossible
<1>4. OverLimitIsExact'
  BY <1>1, <1>2, MaxSizeAssumption DEF OverLimitIsExact
<1>5. LimitHolds' /\ NeverUndercounts'
  BY <1>1, <1>2 DEF IInv, LimitHolds, NeverUndercounts, CountedFaults
<1> QED BY <1>3, <1>4, <1>5 DEF IInv

LEMMA WriteInv ==
    ASSUME IInv, NEW b \in Batches, NEW t \in Times, Write(b, t)
    PROVE  IInv'
<1>1. SizeOf(b) \in Nat /\ currentSize \in Nat
  BY SizeAssumption DEF IInv, TypeOK
<1>2. files' = Put(t, b, SizeOf(b)) /\ currentSize' = currentSize + SizeOf(b)
      /\ currentSize' <= MaxSize
  BY <1>1, MaxSizeAssumption DEF Write, Full
<1>3. TypeOK'
  BY <1>1, <1>2, PutType DEF IInv, TypeOK, Write
<1>4. /\ DiskUse(files) \in Nat /\ DiskUse(files') \in Nat
      /\ DiskUse(files') <= DiskUse(files) + SizeOf(b)
  BY <1>1, <1>2, DirOK, DiskUsePut, DiskUseType DEF IInv
<1>5. OverLimitIsExact'
  BY <1>1, <1>2, MaxSizeAssumption DEF OverLimitIsExact
<1>6. NeverUndercounts' /\ LimitHolds'
  BY <1>1, <1>2, <1>4, MaxSizeAssumption
  DEF IInv, NeverUndercounts, LimitHolds, Write
<1> QED BY <1>3, <1>5, <1>6 DEF IInv

LEMMA WriteTornInv ==
    ASSUME IInv, NEW b \in Batches, NEW t \in Times, WriteTorn(b, t)
    PROVE  IInv'
<1>1. SizeOf(b) \in Nat \ {0} /\ currentSize \in Nat
  BY SizeAssumption DEF IInv, TypeOK
<1>2. PICK k \in 0 .. SizeOf(b) - 1 : files' = Put(t, b, k)
  BY DEF WriteTorn
<1>3. k \in Nat
  BY <1>1
<1>4. TypeOK'
  BY <1>1, <1>2, <1>3, PutType DEF IInv, TypeOK, WriteTorn
<1>5. OverLimitIsExact'
  BY <1>1, MaxSizeAssumption DEF OverLimitIsExact, WriteTorn, Full
<1>6. NeverUndercounts' /\ LimitHolds'
  BY DEF NeverUndercounts, LimitHolds, CountedFaults, WriteTorn
<1> QED BY <1>4, <1>5, <1>6 DEF IInv

LEMMA CrashInWriteInv ==
    ASSUME IInv, NEW b \in Batches, NEW t \in Times, CrashInWrite(b, t)
    PROVE  IInv'
<1>1. SizeOf(b) \in Nat \ {0} /\ currentSize \in Nat
  BY SizeAssumption DEF IInv, TypeOK
<1>2. PICK k \in 0 .. SizeOf(b) : files' = Put(t, b, k)
  BY DEF CrashInWrite
<1>3. k \in Nat /\ k <= SizeOf(b)
  BY <1>1
<1>4. TypeOK'
  BY <1>1, <1>2, <1>3, PutType DEF IInv, TypeOK, CrashInWrite
<1>5. /\ DiskUse(files) \in Nat /\ DiskUse(files') \in Nat
      /\ DiskUse(files') <= DiskUse(files) + k
  BY <1>2, <1>3, DirOK, DiskUsePut, DiskUseType DEF IInv
<1>6. currentSize + SizeOf(b) <= MaxSize
  BY <1>1, MaxSizeAssumption DEF CrashInWrite, Full
<1>7. OverLimitIsExact' /\ NeverUndercounts'
  BY DEF OverLimitIsExact, NeverUndercounts, CrashInWrite
<1>8. LimitHolds'
  BY <1>1, <1>3, <1>5, <1>6, MaxSizeAssumption
  DEF IInv, NeverUndercounts, LimitHolds, CrashInWrite
<1> QED BY <1>4, <1>7, <1>8 DEF IInv

LEMMA ClearInv ==
    ASSUME IInv, NEW kept \in SUBSET DOMAIN files, Clear(kept)
    PROVE  IInv'
<1>1. files' = Restrict(files, kept) /\ currentSize' = 0
  BY DEF Clear
<1>2. TypeOK'
  BY <1>1, RestrictType DEF IInv, TypeOK, Clear
<1>3. OverLimitIsExact'
  BY <1>1, MaxSizeAssumption DEF OverLimitIsExact
<1>4. ASSUME "remove" \notin Faults PROVE DiskUse(files') = 0
  BY <1>1, <1>4, EmptyDirUse DEF Clear, Removable, Restrict
<1>5. NeverUndercounts' /\ LimitHolds'
  BY <1>1, <1>4, MaxSizeAssumption DEF NeverUndercounts, LimitHolds, CountedFaults
<1> QED BY <1>2, <1>3, <1>5 DEF IInv

LEMMA PruneInv ==
    ASSUME IInv, NEW kept \in SUBSET DOMAIN files, Prune(kept)
    PROVE  IInv'
<1> DEFINE Gone == Restrict(files, Pruned(kept))
           Rest == Restrict(files, DOMAIN files \ Pruned(kept))
<1>1. files' = Rest /\ currentSize' = currentSize - DiskUse(Gone)
  BY DEF Prune
<1>2. Pruned(kept) \subseteq DOMAIN files
  BY DEF Pruned
<1>3. IsDir(files) /\ DiskUse(files) \in Nat
  BY DirOK DEF IInv
<1>4. DiskUse(files) = DiskUse(Gone) + DiskUse(Rest)
  BY <1>2, <1>3, DiskUseSplit
<1>5. DiskUse(Gone) \in Nat /\ DiskUse(Rest) \in Nat
  BY <1>2, RestrictType DEF IInv
<1>6. currentSize = DiskUse(files) \/ Pruned(kept) = {}
  <2>1. SUFFICES ASSUME NEW t \in Pruned(kept)
                 PROVE  currentSize > MaxSize
    BY DEF IInv, OverLimitIsExact, Prune
  <2>2. Older(t, kept) \subseteq DOMAIN files
    BY DEF Older
  <2>3. DiskUse(Restrict(files, Older(t, kept))) \in Nat
    BY <2>2, RestrictType DEF IInv
  <2> QED BY <2>1, <2>3, MaxSizeAssumption DEF Pruned, IInv, TypeOK
<1>7. Pruned(kept) = {} => DiskUse(Gone) = 0
  BY EmptyDirUse DEF Restrict
<1> HIDE DEF Gone, Rest
<1>8. \/ currentSize' = DiskUse(files')
      \/ currentSize' = currentSize /\ DiskUse(files') = DiskUse(files)
  BY <1>1, <1>3, <1>4, <1>5, <1>6, <1>7 DEF IInv, TypeOK
<1>9. currentSize' \in Nat /\ DiskUse(files') <= DiskUse(files)
  BY <1>1, <1>3, <1>4, <1>5, <1>8 DEF IInv, TypeOK
<1>10. TypeOK'
  BY <1>1, <1>2, <1>9, RestrictType DEF IInv, TypeOK, Prune, Rest
<1>11. OverLimitIsExact' /\ NeverUndercounts'
  BY <1>1, <1>3, <1>5, <1>8
  DEF IInv, OverLimitIsExact, NeverUndercounts, Prune
<1>12. LimitHolds'
  BY <1>1, <1>3, <1>5, <1>9, MaxSizeAssumption DEF IInv, LimitHolds
<1> QED BY <1>10, <1>11, <1>12 DEF IInv

LEMMA CrashInRemovalInv ==
    ASSUME IInv, NEW kept \in SUBSET DOMAIN files, CrashInRemoval(kept)
    PROVE  IInv'
<1>1. PICK t \in Times :
        files' = Restrict(files, {u \in DOMAIN files : u > t} \cup kept)
  BY DEF CrashInRemoval
<1> DEFINE S == {u \in DOMAIN files : u > t} \cup kept
<1>2. S \in SUBSET DOMAIN files /\ files' = Restrict(files, S)
  BY <1>1
<1>3. DiskUse(files') \in Nat /\ DiskUse(files) \in Nat
      /\ DiskUse(files') <= DiskUse(files)
  BY <1>2, RestrictType, DirOK DEF IInv
<1>4. TypeOK'
  BY <1>2, RestrictType DEF IInv, TypeOK, CrashInRemoval
<1>5. OverLimitIsExact' /\ NeverUndercounts'
  BY DEF OverLimitIsExact, NeverUndercounts, CrashInRemoval
<1>6. LimitHolds'
  BY <1>3, MaxSizeAssumption DEF IInv, LimitHolds
<1> QED BY <1>4, <1>5, <1>6 DEF IInv

LEMMA NextInv == IInv /\ [Next]_bufferVars => IInv'
<1> SUFFICES ASSUME IInv, [Next]_bufferVars PROVE IInv'
  OBVIOUS
<1> USE DEF Next
<1>1. CASE New
  BY <1>1, NewInv
<1>2. ASSUME NEW b \in Batches, NEW t \in Times, Write(b, t) PROVE IInv'
  BY <1>2, WriteInv
<1>3. ASSUME NEW b \in Batches, NEW t \in Times, WriteTorn(b, t) PROVE IInv'
  BY <1>3, WriteTornInv
<1>4. ASSUME NEW b \in Batches, NEW t \in Times, CrashInWrite(b, t) PROVE IInv'
  BY <1>4, CrashInWriteInv
<1>5. ASSUME NEW kept \in SUBSET DOMAIN files, Clear(kept) PROVE IInv'
  BY <1>5, ClearInv
<1>6. ASSUME NEW kept \in SUBSET DOMAIN files, Prune(kept) PROVE IInv'
  BY <1>6, PruneInv
<1>7. ASSUME NEW kept \in SUBSET DOMAIN files, CrashInRemoval(kept) PROVE IInv'
  BY <1>7, CrashInRemovalInv
<1>8. CASE Crash \/ UNCHANGED bufferVars
  <2>1. files' = files /\ currentSize' = currentSize /\ now' = now
        /\ (running' = FALSE \/ running' = running)
    BY <1>8 DEF Crash, bufferVars
  <2>2. DiskUse(files') = DiskUse(files)
    BY <2>1
  <2>3. TypeOK'
    BY <2>1 DEF IInv, TypeOK
  <2>4. OverLimitIsExact' /\ LimitHolds' /\ NeverUndercounts'
    BY <2>1, <2>2 DEF IInv, OverLimitIsExact, LimitHolds, NeverUndercounts
  <2> QED BY <2>3, <2>4 DEF IInv
<1> QED BY <1>1, <1>2, <1>3, <1>4, <1>5, <1>6, <1>7, <1>8

-----------------------------------------------------------------------------
(* The buffer always has the types the code gives it; in particular the    *)
(* byte count is never negative, whatever fails.                           *)
THEOREM TypeCorrect == Spec => []TypeOK
<1>1. IInv => TypeOK
  BY DEF IInv
<1> QED BY <1>1, InitInv, NextInv, PTL DEF Spec

(* Without counted faults the directory stays within max_buffer_size for   *)
(* every limit, batch size and clock, through crashes and restarts.        *)
THEOREM LimitCorrect == Spec => []LimitHolds
<1>1. IInv => LimitHolds
  BY DEF IInv
<1> QED BY <1>1, InitInv, NextInv, PTL DEF Spec

(* Without counted faults a live Buffer never believes it holds less than  *)
(* what is on disk.                                                        *)
THEOREM CountCorrect == Spec => []NeverUndercounts
<1>1. IInv => NeverUndercounts
  BY DEF IInv
<1> QED BY <1>1, InitInv, NextInv, PTL DEF Spec

(* A count over the limit is exact, whatever fails.                        *)
THEOREM OverLimitCorrect == Spec => []OverLimitIsExact
<1>1. IInv => OverLimitIsExact
  BY DEF IInv
<1> QED BY <1>1, InitInv, NextInv, PTL DEF Spec

-----------------------------------------------------------------------------
(* A write adds as many bytes at most as it was checked for.               *)
LEMMA PutGrows ==
    ASSUME TypeOK, NEW b \in Batches, NEW t \in Times, ~Full(b),
           NEW k \in 0 .. SizeOf(b), files' = Put(t, b, k),
           DiskUse(files) <= currentSize
    PROVE  DiskUse(files') <= MaxSize
<1>1. /\ IsDir(files) /\ DiskUse(files) \in Nat /\ currentSize \in Nat
      /\ MaxSize \in Nat /\ SizeOf(b) \in Nat
  BY DirOK, MaxSizeAssumption, SizeAssumption DEF TypeOK
<1>2. k \in Nat /\ k <= SizeOf(b)
  BY <1>1
<1>3. DiskUse(files') <= DiskUse(files) + k /\ DiskUse(files') \in Nat
  BY <1>1, <1>2, DiskUsePut, DiskUseType
<1> QED BY <1>1, <1>2, <1>3 DEF Full

\* Removing files does not grow the directory.
LEMMA RestrictShrinks ==
    ASSUME TypeOK, NEW S \in SUBSET DOMAIN files, files' = Restrict(files, S)
    PROVE  ~(DiskUse(files') > DiskUse(files))
BY RestrictType, DirOK

LEMMA NextGrows ==
    ASSUME TypeOK, [Next]_bufferVars,
           running, DiskUse(files) <= currentSize, DiskUse(files') > DiskUse(files)
    PROVE  DiskUse(files') <= MaxSize
<1>0. DiskUse(files) \in Nat
  BY DirOK
<1>1. CASE UNCHANGED files
  BY <1>0, <1>1
<1>2. ASSUME NEW b \in Batches, NEW t \in Times,
             Write(b, t) \/ WriteTorn(b, t) \/ CrashInWrite(b, t)
      PROVE  DiskUse(files') <= MaxSize
  <2>1. SizeOf(b) \in Nat \ {0} /\ ~Full(b)
    BY <1>2, SizeAssumption DEF Write, WriteTorn, CrashInWrite
  <2>2. PICK k \in 0 .. SizeOf(b) : files' = Put(t, b, k)
    <3>1. CASE Write(b, t)
      BY <2>1, <3>1 DEF Write
    <3>2. CASE WriteTorn(b, t)
      BY <2>1, <3>2 DEF WriteTorn
    <3>3. CASE CrashInWrite(b, t)
      BY <3>3 DEF CrashInWrite
    <3> QED BY <1>2, <3>1, <3>2, <3>3
  <2> QED BY <2>1, <2>2, PutGrows
<1>3. ASSUME NEW kept \in SUBSET DOMAIN files,
             Clear(kept) \/ Prune(kept) \/ CrashInRemoval(kept)
      PROVE  \E S \in SUBSET DOMAIN files : files' = Restrict(files, S)
  BY <1>3 DEF Clear, Prune, Pruned, CrashInRemoval
<1>4. CASE New \/ Crash \/ UNCHANGED bufferVars
  BY <1>1, <1>4 DEF New, Crash, bufferVars
<1> QED BY <1>2, <1>3, <1>4, RestrictShrinks DEF Next

(* Whatever fails, a step that grows the directory leaves it within        *)
(* max_buffer_size if the count was not below the bytes on disk, for every *)
(* limit, batch size and clock.                                            *)
THEOREM GrowsCorrect == Spec => GrowsWithinLimit
<1>1. TypeOK /\ [Next]_bufferVars =>
        [running /\ DiskUse(files) <= currentSize /\ DiskUse(files') > DiskUse(files) =>
            DiskUse(files') <= MaxSize]_bufferVars
  BY NextGrows
<1> QED BY <1>1, TypeCorrect, PTL DEF Spec, GrowsWithinLimit

-----------------------------------------------------------------------------
(* What Prune removes.                                                     *)
Use(S) == DiskUse(Restrict(files, S))

\* More files take no fewer bytes, and one file takes its length.
LEMMA UseGrows ==
    ASSUME TypeOK, NEW T \in SUBSET DOMAIN files, NEW S \in SUBSET T
    PROVE  Use(S) \in Nat /\ Use(T) \in Nat /\ Use(S) <= Use(T)
<1>1. Use(S) \in Nat /\ Use(T) \in Nat
  BY RestrictType DEF Use
<1>2. DOMAIN Restrict(files, T) = T /\ IsDir(Restrict(files, T))
  BY DirOK, DiskUseSplit, RestrictType
<1>3. Restrict(Restrict(files, T), S) = Restrict(files, S)
  BY DEF Restrict
<1>4. /\ DiskUse(Restrict(files, T)) =
            DiskUse(Restrict(Restrict(files, T), S))
                + DiskUse(Restrict(Restrict(files, T), T \ S))
      /\ IsDir(Restrict(Restrict(files, T), T \ S))
  BY <1>2, DiskUseSplit
<1>5. DiskUse(Restrict(Restrict(files, T), T \ S)) \in Nat
  BY <1>4, DiskUseType
<1> QED BY <1>1, <1>3, <1>4, <1>5 DEF Use

LEMMA UseOfOneMore ==
    ASSUME TypeOK, NEW S \in SUBSET DOMAIN files, NEW t \in DOMAIN files
    PROVE  Use(S \cup {t}) <= Use(S) + files[t].len
<1> DEFINE one == {t} \X (1 .. files[t].len)
           all == Bytes(Restrict(files, S \cup {t}))
           some == Bytes(Restrict(files, S))
<1>1. files[t].len \in Nat
  BY DEF TypeOK, File
<1>2. all \subseteq some \cup one
  BY DEF Bytes, Restrict
<1>3. IsFiniteSet({t}) /\ Cardinality({t}) = 1
  BY FS_Singleton
<1>4. IsFiniteSet(1 .. files[t].len) /\ Cardinality(1 .. files[t].len) = files[t].len
  BY <1>1, FS_Interval
<1>5. IsFiniteSet(one) /\ Cardinality(one) = files[t].len
  <2>1. /\ IsFiniteSet(one)
        /\ Cardinality(one) = Cardinality({t}) * Cardinality(1 .. files[t].len)
    BY <1>3, <1>4, FS_Product
  <2> QED BY <1>1, <1>3, <1>4, <2>1
<1>6. IsDir(Restrict(files, S)) /\ IsDir(Restrict(files, S \cup {t}))
  BY DirOK, DiskUseSplit
<1>7. /\ IsFiniteSet(some) /\ Cardinality(some) \in Nat
      /\ Cardinality(all) \in Nat
  BY <1>6, DiskUseType DEF DiskUse
<1> HIDE DEF one, all, some
<1>8. /\ IsFiniteSet(some \cup one)
      /\ Cardinality(some \cup one) =
            Cardinality(some) + files[t].len - Cardinality(some \cap one)
  BY <1>5, <1>7, FS_Union
<1>9. Cardinality(some \cap one) \in Nat
  BY <1>5, FS_Subset, FS_CardinalityType
<1>10. Cardinality(all) <= Cardinality(some \cup one)
  BY <1>2, <1>8, FS_Subset
<1>11. Cardinality(all) <= Cardinality(some) + files[t].len
  BY <1>1, <1>7, <1>8, <1>9, <1>10
<1> QED BY <1>11 DEF Use, DiskUse, all, some

\* A set of file names that is not empty has an oldest one.
LEMMA OldestFile ==
    ASSUME NEW I \in SUBSET Nat, I # {}
    PROVE  \E m \in I : \A n \in I : m <= n
<1> DEFINE Less == OpToRel(<, Nat)
<1>1. \A m, n \in Nat : <<m, n>> \in Less <=> m < n
  BY DEF OpToRel
<1>2. IsWellFoundedOn(Less, Nat)
  BY NatLessThanWellFounded
<1> HIDE DEF Less
<1>3. PICK m \in I : \A n \in I : ~ (<<n, m>> \in Less)
  BY <1>2, WFMin
<1>4. ASSUME NEW n \in I PROVE m <= n
  <2>1. m \in Nat /\ n \in Nat
    OBVIOUS
  <2>2. ~(n < m)
    BY <1>1, <1>3, <2>1, Zenon
  <2> QED BY <2>1, <2>2
<1> QED BY <1>4

\* What is older than a file that goes has gone before it.
LEMMA PrunedIsOld ==
    ASSUME TypeOK, NEW kept \in SUBSET DOMAIN files,
           NEW t \in Pruned(kept), NEW u \in DOMAIN files \ kept, u <= t
    PROVE  u \in Pruned(kept)
<1>1. /\ Older(u, kept) \subseteq Older(t, kept) /\ Older(t, kept) \subseteq DOMAIN files
      /\ currentSize \in Nat /\ MaxSize \in Nat
  BY TimesAssumption, MaxSizeAssumption DEF Older, Pruned, TypeOK
<1>2. /\ Use(Older(u, kept)) \in Nat /\ Use(Older(t, kept)) \in Nat
      /\ Use(Older(u, kept)) <= Use(Older(t, kept))
  BY <1>1, UseGrows
<1>3. currentSize - Use(Older(t, kept)) > MaxSize
  BY DEF Pruned, Use
<1>4. currentSize - Use(Older(u, kept)) > MaxSize
  BY <1>1, <1>2, <1>3
<1> QED BY <1>4 DEF Pruned, Use

LEMMA PruneIsOldest ==
    ASSUME IInv, NEW kept \in SUBSET DOMAIN files, Prune(kept)
    PROVE  PruneStep(kept)
<1> DEFINE gone == DOMAIN files \ DOMAIN files'
<1>1. /\ TypeOK /\ DOMAIN files \subseteq Nat /\ currentSize \in Nat /\ MaxSize \in Nat
      /\ Pruned(kept) \subseteq DOMAIN files \ kept
  BY TimesAssumption, MaxSizeAssumption DEF IInv, TypeOK, Pruned
<1>2. DOMAIN files' = DOMAIN files \ Pruned(kept) /\ gone = Pruned(kept)
      /\ currentSize' = currentSize - Use(Pruned(kept))
  BY <1>1 DEF Prune, Restrict, Use
<1>3. Use(Pruned(kept)) \in Nat
  BY <1>1, RestrictType DEF Use
<1>4. ASSUME NEW t \in Pruned(kept), NEW u \in DOMAIN files' \ kept
      PROVE  t < u
  <2>1. ~(u <= t)
    BY <1>1, <1>2, PrunedIsOld
  <2> QED BY <1>1, <1>2, <2>1
<1>5. ASSUME NEW t \in Pruned(kept), \A u \in Pruned(kept) : u <= t
      PROVE  currentSize' + files[t].len > MaxSize
  <2>1. /\ Older(t, kept) \in SUBSET DOMAIN files /\ t \in DOMAIN files
        /\ Older(t, kept) \cup {t} \in SUBSET DOMAIN files
        /\ files[t].len \in Nat
    BY <1>1 DEF Older, TypeOK, File
  <2>2. Pruned(kept) \subseteq Older(t, kept) \cup {t}
    BY <1>1, <1>5 DEF Older
  <2>3. /\ Use(Older(t, kept) \cup {t}) \in Nat
        /\ Use(Pruned(kept)) <= Use(Older(t, kept) \cup {t})
    BY <1>1, <2>1, <2>2, UseGrows
  <2>4. /\ Use(Older(t, kept) \cup {t}) <= Use(Older(t, kept)) + files[t].len
        /\ Use(Older(t, kept)) \in Nat
    BY <1>1, <2>1, UseOfOneMore, UseGrows
  <2>5. currentSize - Use(Older(t, kept)) > MaxSize
    BY DEF Pruned, Use
  <2> QED BY <1>1, <1>2, <1>3, <2>1, <2>3, <2>4, <2>5
<1>6. ASSUME kept = {} PROVE currentSize' <= MaxSize
  <2>1. CASE currentSize <= MaxSize
    BY <1>1, <1>2, <1>3, <2>1
  <2>2. CASE currentSize > MaxSize /\ Pruned(kept) = DOMAIN files
    <3>1. Restrict(files, DOMAIN files) = files
      BY <1>1 DEF Restrict, TypeOK
    <3>2. currentSize = DiskUse(files)
      BY <2>2 DEF IInv, OverLimitIsExact, Prune
    <3> QED BY <1>1, <1>2, <2>2, <3>1, <3>2 DEF Use
  <2>3. CASE Pruned(kept) # DOMAIN files
    <3>1. PICK t \in DOMAIN files \ Pruned(kept) :
            \A u \in DOMAIN files \ Pruned(kept) : t <= u
      BY <1>1, <2>3, OldestFile
    <3>2. Older(t, kept) \subseteq Pruned(kept)
      BY <1>1, <3>1 DEF Older
    <3>3. Use(Older(t, kept)) \in Nat /\ Use(Older(t, kept)) <= Use(Pruned(kept))
      BY <1>1, <3>2, UseGrows
    <3>4. ~(currentSize - Use(Older(t, kept)) > MaxSize)
      BY <1>6, <3>1 DEF Pruned, Use
    <3> QED BY <1>1, <1>2, <1>3, <3>3, <3>4
  <2> QED BY <1>1, <2>1, <2>2, <2>3
<1> QED BY <1>2, <1>4, <1>5, <1>6 DEF PruneStep

(* Prune removes from the old end, stops as soon as the count is within    *)
(* max_buffer_size, and gets there unless a removal failed: for every      *)
(* directory, limit and clock.                                             *)
THEOREM PruneCorrect == Spec => PruneRemovesOldest
<1>1. IInv => [\A kept \in SUBSET DOMAIN files :
                    Prune(kept) => PruneStep(kept)]_bufferVars
  BY PruneIsOldest
<1> QED BY <1>1, InitInv, NextInv, PTL DEF Spec, PruneRemovesOldest
=============================================================================
