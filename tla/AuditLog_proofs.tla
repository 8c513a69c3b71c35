-------------------------- MODULE AuditLog_proofs --------------------------
(***************************************************************************)
(* The audit log keeps what it acknowledged, in order, for any number of   *)
(* events and of clock readings.                                           *)
(*                                                                         *)
(* What makes the invariants inductive is the mutex: between the Lock and  *)
(* the end of a LogEvent nobody else appends, so that the event's stamp is *)
(* the latest there is, and the line it synced the last one of the file.   *)
(***************************************************************************)
EXTENDS AuditLog, TLAPS

\* The mutex has one holder at most.
Exclusive == \A e, f \in Holding : e = f

\* A LogEvent that is about to sync has its line at the end of the file.
LineAtEnd ==
    \A e \in Events : at[e] = "written" =>
        /\ Len(file) > 0
        /\ file[Len(file)].event = e
        /\ file[Len(file)].what = "line" /\ file[Len(file)].kept = "cached"

\* No time stamp is ahead of the clock, nor of the one about to be written.
StampsPast ==
    /\ \A i \in DOMAIN file : file[i].stamp <= now
    /\ \A e \in Events : at[e] = "locked" =>
        /\ stamp[e] <= now
        /\ \A i \in DOMAIN file : file[i].stamp <= stamp[e]

IInv == TypeOK /\ Exclusive /\ LineAtEnd /\ StampsPast /\ AckedKept /\ InOrder

-----------------------------------------------------------------------------
\* Appending is the only thing the steps do to the file while a process lives.
LEMMA Appended ==
    ASSUME TypeOK, NEW e \in Events, NEW what \in {"line", "json", "part"}, Leaves(e, what)
    PROVE  /\ file' \in Seq(Piece)
           /\ Len(file') = Len(file) + 1
           /\ \A i \in DOMAIN file : file'[i] = file[i]
           /\ file'[Len(file')] = [event |-> e, stamp |-> stamp[e],
                                   what |-> what, kept |-> "cached"]
           /\ open
<1> DEFINE p == [event |-> e, stamp |-> stamp[e], what |-> what, kept |-> "cached"]
<1>1. p \in Piece
  BY DEF TypeOK, Piece
<1>2. file \in Seq(Piece) /\ file' = Append(file, p) /\ open
  BY DEF TypeOK, Leaves
<1> QED BY <1>1, <1>2

(* A step that appends the event e, which it holds the mutex for, keeps    *)
(* what the invariants say of the file.                                    *)
LEMMA AppendKeepsOrder ==
    ASSUME IInv, NEW e \in Events, at[e] = "locked",
           NEW what \in {"line", "json", "part"}, Leaves(e, what), UNCHANGED now
    PROVE  /\ InOrder'
           /\ \A i \in DOMAIN file' : file'[i].stamp <= now'
           /\ \A i \in DOMAIN file' : file'[i].stamp <= stamp[e]
<1>0. TypeOK /\ StampsPast /\ InOrder
  BY DEF IInv
<1>a. /\ file' \in Seq(Piece)
      /\ Len(file') = Len(file) + 1
      /\ \A i \in DOMAIN file : file'[i] = file[i]
      /\ file'[Len(file')] = [event |-> e, stamp |-> stamp[e],
                              what |-> what, kept |-> "cached"]
  BY <1>0, Appended, Zenon
<1>1. /\ file' \in Seq(Piece)
      /\ Len(file') = Len(file) + 1
      /\ \A i \in DOMAIN file : file'[i] = file[i]
      /\ file'[Len(file')].stamp = stamp[e]
  BY <1>a
<1>b. file \in Seq(Piece) /\ stamp[e] \in Nat /\ now \in Nat
  BY <1>0 DEF TypeOK
<1>c. /\ stamp[e] <= now
      /\ \A i \in DOMAIN file : file[i].stamp <= stamp[e]
  BY <1>0 DEF StampsPast
<1>d. \A i \in DOMAIN file : file[i].stamp \in Nat
  <2>1. \A i \in DOMAIN file : file[i] \in Piece
    BY <1>b
  <2> QED BY <2>1 DEF Piece
<1>2. /\ file \in Seq(Piece) /\ stamp[e] \in Nat /\ now \in Nat
      /\ stamp[e] <= now
      /\ \A i \in DOMAIN file : file[i].stamp <= stamp[e] /\ file[i].stamp \in Nat
      /\ InOrder
  BY <1>0, <1>b, <1>c, <1>d
<1>3. \A i \in DOMAIN file' : i \in DOMAIN file \/ i = Len(file')
  BY <1>1, <1>2
<1>4. \A i \in DOMAIN file' : file'[i].stamp <= stamp[e]
  BY <1>1, <1>2, <1>3
<1>5. \A i \in DOMAIN file' : file'[i].stamp <= now'
  BY <1>1, <1>2, <1>3
<1>6. InOrder'
  <2> SUFFICES ASSUME NEW i \in DOMAIN file', NEW j \in DOMAIN file', i < j
               PROVE  file'[i].stamp <= file'[j].stamp
    BY DEF InOrder
  <2>1. i \in DOMAIN file
    BY <1>1, <1>2, <1>3
  <2>2. CASE j = Len(file')
    BY <2>2, <2>1, <1>1, <1>2
  <2>3. CASE j \in DOMAIN file
    BY <2>3, <2>1, <1>1, <1>2 DEF InOrder
  <2> QED BY <2>2, <2>3, <1>3
<1> QED BY <1>4, <1>5, <1>6

\* A piece on the disk is the same after an append.
LEMMA AppendKeepsAcked ==
    ASSUME IInv, NEW e \in Events, NEW what \in {"line", "json", "part"},
           Leaves(e, what), Acked' = Acked
    PROVE  AckedKept'
<1>0. TypeOK
  BY DEF IInv
<1>1. /\ file' \in Seq(Piece)
      /\ Len(file') = Len(file) + 1
      /\ \A i \in DOMAIN file : file'[i] = file[i]
  BY <1>0, Appended, Zenon
<1>2. \A i \in DOMAIN file : i \in DOMAIN file' /\ file'[i] = file[i]
  BY <1>0, <1>1 DEF TypeOK
<1> QED BY <1>2 DEF IInv, AckedKept

LEMMA InitInv == Init => IInv
<1> SUFFICES ASSUME Init PROVE IInv
  OBVIOUS
<1> USE DEF Init
<1>a. file \in Seq(Piece)
  OBVIOUS
<1>b. at \in [Events -> {"new", "ok", "failed"} \cup InFlight]
  BY DEF InFlight
<1>c. stamp \in [Events -> Nat] /\ now \in Nat
  OBVIOUS
<1>d. open \in BOOLEAN /\ up \in BOOLEAN
  OBVIOUS
<1>e. \A e \in Events : at[e] \notin InFlight /\ at[e] # "written"
  BY DEF InFlight
<1>1. TypeOK
  BY <1>a, <1>b, <1>c, <1>d, <1>e DEF TypeOK
<1>2. Exclusive /\ LineAtEnd /\ AckedKept
  BY <1>e DEF Exclusive, Holding, LineAtEnd, AckedKept, Acked
<1>3. StampsPast /\ InOrder
  BY DEF StampsPast, InOrder
<1> QED BY <1>1, <1>2, <1>3 DEF IInv

-----------------------------------------------------------------------------
(* The steps.                                                              *)

LEMMA NewAuditLoggerStep ==
    ASSUME IInv, NewAuditLogger PROVE IInv'
<1> USE DEF IInv, NewAuditLogger
<1>1. TypeOK'
  BY DEF TypeOK
<1>2. (Exclusive /\ LineAtEnd /\ StampsPast /\ AckedKept /\ InOrder)'
  BY DEF Exclusive, Holding, LineAtEnd, StampsPast, AckedKept, Acked, InOrder
<1> QED BY <1>1, <1>2

LEMMA LogEventStep ==
    ASSUME IInv, NEW e \in Events, LogEvent(e) PROVE IInv'
<1> USE DEF IInv, LogEvent, Goes
<1>1. TypeOK'
  BY DEF TypeOK, InFlight
<1>2. (Exclusive /\ LineAtEnd /\ AckedKept)'
  BY DEF TypeOK, Exclusive, Holding, LineAtEnd, AckedKept, Acked
<1>3. (StampsPast /\ InOrder)'
  BY DEF TypeOK, StampsPast, InOrder
<1> QED BY <1>1, <1>2, <1>3

LEMMA LockStep ==
    ASSUME IInv, NEW e \in Events, Lock(e) PROVE IInv'
<1> USE DEF IInv, Lock, Goes
<1>1. TypeOK'
  BY DEF TypeOK, InFlight
<1>2. (Exclusive /\ LineAtEnd /\ AckedKept)'
  BY DEF TypeOK, Exclusive, Holding, LineAtEnd, AckedKept, Acked
<1>3. (StampsPast /\ InOrder)'
  BY DEF TypeOK, StampsPast, InOrder
<1> QED BY <1>1, <1>2, <1>3

LEMMA CloseStep ==
    ASSUME IInv, Close PROVE IInv'
<1> USE DEF IInv, Close
<1>1. TypeOK'
  BY DEF TypeOK, Holding
<1>2. (Exclusive /\ LineAtEnd /\ StampsPast /\ AckedKept /\ InOrder)'
  BY DEF Exclusive, Holding, LineAtEnd, StampsPast, AckedKept, Acked, InOrder
<1> QED BY <1>1, <1>2

LEMMA TickStep ==
    ASSUME IInv, Tick PROVE IInv'
<1> USE DEF IInv, Tick
<1>1. TypeOK'
  BY DEF TypeOK
<1>2. (Exclusive /\ LineAtEnd /\ AckedKept /\ InOrder)'
  BY DEF Exclusive, Holding, LineAtEnd, AckedKept, Acked, InOrder
<1>3. StampsPast'
  <2>1. now \in Nat /\ now' = now + 1 /\ file \in Seq(Piece) /\ stamp \in [Events -> Nat]
    BY DEF TypeOK
  <2>2. \A i \in DOMAIN file : file[i] \in Piece
    BY <2>1
  <2>3. \A i \in DOMAIN file : file[i].stamp \in Nat
    BY <2>2 DEF Piece
  <2> QED BY <2>1, <2>3 DEF StampsPast
<1> QED BY <1>1, <1>2, <1>3

LEMMA WriteStep ==
    ASSUME IInv, NEW e \in Events, Write(e) PROVE IInv'
<1>0. /\ TypeOK /\ Exclusive
      /\ at[e] = "locked" /\ up /\ Leaves(e, "line")
      /\ at' = [at EXCEPT ![e] = "written"]
      /\ UNCHANGED <<stamp, open, up, now>>
  BY DEF IInv, Write, Goes
<1>1. /\ file' \in Seq(Piece) /\ Len(file') = Len(file) + 1
      /\ file'[Len(file')] = [event |-> e, stamp |-> stamp[e],
                              what |-> "line", kept |-> "cached"]
      /\ open
  BY <1>0, Appended, Zenon
<1>2. TypeOK'
  BY <1>0, <1>1 DEF TypeOK, InFlight
<1>3. Exclusive'
  BY <1>0 DEF TypeOK, Exclusive, Holding
<1>4. LineAtEnd'
  <2>1. \A f \in Events : at[f] = "written" => f = e
    BY <1>0 DEF Exclusive, Holding
  <2>2. \A f \in Events : at'[f] = "written" => f = e
    BY <1>0, <2>1 DEF TypeOK
  <2>3. file \in Seq(Piece)
    BY <1>0 DEF TypeOK
  <2> QED BY <1>1, <2>2, <2>3 DEF LineAtEnd
<1>5. InOrder' /\ StampsPast'
  <2>1. InOrder' /\ \A i \in DOMAIN file' : file'[i].stamp <= now'
    BY <1>0, AppendKeepsOrder, Zenon
  <2>2. \A f \in Events : at'[f] # "locked"
    BY <1>0 DEF TypeOK, Exclusive, Holding
  <2> QED BY <2>1, <2>2 DEF StampsPast
<1>6. AckedKept'
  <2>1. Acked' = Acked
    BY <1>0 DEF TypeOK, Acked
  <2> QED BY <1>0, <2>1, AppendKeepsAcked, Zenon
<1> QED BY <1>2, <1>3, <1>4, <1>5, <1>6 DEF IInv

LEMMA WriteFailsStep ==
    ASSUME IInv, NEW e \in Events, WriteFails(e) PROVE IInv'
<1>0. /\ TypeOK /\ Exclusive /\ LineAtEnd /\ StampsPast /\ AckedKept /\ InOrder
      /\ at[e] = "locked" /\ up
      /\ at' = [at EXCEPT ![e] = "failed"]
      /\ UNCHANGED <<stamp, open, up, now>>
  BY DEF IInv, WriteFails, Goes
<1>1. Holding' = {} /\ Acked' = Acked
  BY <1>0 DEF TypeOK, Exclusive, Holding, Acked
<1>2. Exclusive' /\ LineAtEnd'
  BY <1>1 DEF Exclusive, LineAtEnd, Holding
<1>3. \A f \in Events : at'[f] # "locked" /\ at'[f] # "written"
  BY <1>1 DEF Holding
<1>4. /\ at' \in [Events -> {"new", "ok", "failed"} \cup InFlight]
      /\ stamp' \in [Events -> Nat] /\ now' \in Nat
      /\ open' \in BOOLEAN /\ up' \in BOOLEAN /\ up'
  BY <1>0 DEF TypeOK
<1>5. CASE UNCHANGED file
  <2>1. TypeOK'
    BY <1>0, <1>3, <1>4, <1>5 DEF TypeOK
  <2>2. StampsPast' /\ InOrder' /\ AckedKept'
    BY <1>0, <1>1, <1>3, <1>5 DEF StampsPast, InOrder, AckedKept
  <2> QED BY <1>2, <2>1, <2>2 DEF IInv
<1>6. ASSUME NEW what \in {"json", "part"}, Leaves(e, what) PROVE IInv'
  <2>0. what \in {"line", "json", "part"}
    OBVIOUS
  <2>1. TypeOK'
    <3>1. file' \in Seq(Piece)
      BY <1>0, <1>6, <2>0, Appended, Zenon
    <3> QED BY <1>3, <1>4, <3>1 DEF TypeOK
  <2>2. AckedKept'
    BY <1>1, <1>6, <2>0, AppendKeepsAcked, Zenon
  <2>3. InOrder' /\ \A i \in DOMAIN file' : file'[i].stamp <= now'
    BY <1>0, <1>6, <2>0, AppendKeepsOrder, Zenon
  <2>4. StampsPast'
    BY <1>3, <2>3 DEF StampsPast
  <2> QED BY <1>2, <2>1, <2>2, <2>3, <2>4 DEF IInv
<1> QED BY <1>5, <1>6 DEF WriteFails

\* A sync changes no more than where the cached pieces are kept.
LEMMA CachedFile ==
    ASSUME TypeOK, NEW kept \in {"disk", "doubtful"}, Cached(kept)
    PROVE  /\ file' \in Seq(Piece)
           /\ Len(file') = Len(file)
           /\ \A i \in DOMAIN file :
                /\ file'[i].event = file[i].event
                /\ file'[i].stamp = file[i].stamp
                /\ file'[i].what = file[i].what
                /\ file'[i].kept = IF file[i].kept = "cached" THEN kept ELSE file[i].kept
<1>1. file \in Seq(Piece)
  BY DEF TypeOK
<1>2. \A i \in DOMAIN file : file[i] \in Piece
  BY <1>1
<1>3. file' = [i \in 1 .. Len(file) |->
                IF file[i].kept = "cached" THEN [file[i] EXCEPT !.kept = kept]
                                           ELSE file[i]]
  BY <1>1 DEF Cached
<1>4. \A i \in 1 .. Len(file) :
        /\ file'[i] \in Piece
        /\ file'[i].event = file[i].event
        /\ file'[i].stamp = file[i].stamp
        /\ file'[i].what = file[i].what
        /\ file'[i].kept = IF file[i].kept = "cached" THEN kept ELSE file[i].kept
  <2> SUFFICES ASSUME NEW i \in 1 .. Len(file)
               PROVE  /\ file'[i] \in Piece
                      /\ file'[i].event = file[i].event
                      /\ file'[i].stamp = file[i].stamp
                      /\ file'[i].what = file[i].what
                      /\ file'[i].kept = IF file[i].kept = "cached" THEN kept
                                                                  ELSE file[i].kept
    OBVIOUS
  <2>1. file[i] \in Piece
    BY <1>1, <1>2
  <2>2. CASE file[i].kept = "cached"
    <3>1. file'[i] = [file[i] EXCEPT !.kept = kept]
      BY <1>3, <2>2
    <3> QED BY <2>1, <2>2, <3>1 DEF Piece
  <2>3. CASE file[i].kept # "cached"
    BY <1>3, <2>1, <2>3
  <2> QED BY <2>2, <2>3
<1>5. file' \in Seq(Piece) /\ Len(file') = Len(file)
  BY <1>1, <1>3, <1>4
<1> QED BY <1>1, <1>4, <1>5

\* What both ends of a sync have in common.
LEMMA SyncKeeps ==
    ASSUME IInv, NEW e \in Events, NEW to \in {"ok", "failed"},
           NEW kept \in {"disk", "doubtful"},
           Goes(e, "written", to), Cached(kept), UNCHANGED stamp
    PROVE  TypeOK' /\ Exclusive' /\ LineAtEnd' /\ StampsPast' /\ InOrder'
<1>0. /\ TypeOK /\ Exclusive /\ StampsPast /\ InOrder
      /\ at[e] = "written" /\ up
      /\ at' = [at EXCEPT ![e] = to]
      /\ UNCHANGED <<stamp, open, up, now>>
  BY DEF IInv, Goes
<1>1. /\ file' \in Seq(Piece) /\ Len(file') = Len(file) /\ file \in Seq(Piece)
      /\ \A i \in DOMAIN file : file'[i].stamp = file[i].stamp
  <2>1. file \in Seq(Piece)
    BY <1>0 DEF TypeOK
  <2> QED BY <1>0, <2>1, CachedFile, Zenon
<1>2. \A f \in Events : at'[f] # "locked" /\ at'[f] # "written"
  BY <1>0 DEF TypeOK, Exclusive, Holding
<1>3. TypeOK'
  <2>1. /\ at' \in [Events -> {"new", "ok", "failed"} \cup InFlight]
        /\ stamp' \in [Events -> Nat] /\ now' \in Nat
        /\ open' \in BOOLEAN /\ up' \in BOOLEAN /\ up'
    BY <1>0 DEF TypeOK
  <2> QED BY <1>1, <1>2, <2>1 DEF TypeOK
<1>4. Exclusive' /\ LineAtEnd'
  BY <1>2 DEF Exclusive, LineAtEnd, Holding
<1>5. DOMAIN file' = DOMAIN file
  BY <1>1
<1>6. StampsPast' /\ InOrder'
  BY <1>0, <1>1, <1>2, <1>5 DEF StampsPast, InOrder
<1> QED BY <1>3, <1>4, <1>6

LEMMA SyncStep ==
    ASSUME IInv, NEW e \in Events, Sync(e) PROVE IInv'
<1>0. /\ TypeOK /\ LineAtEnd /\ AckedKept
      /\ Goes(e, "written", "ok") /\ Cached("disk") /\ UNCHANGED stamp
      /\ at[e] = "written" /\ at' = [at EXCEPT ![e] = "ok"]
  BY DEF IInv, Sync, Goes
<1>1. TypeOK' /\ Exclusive' /\ LineAtEnd' /\ StampsPast' /\ InOrder'
  BY <1>0, SyncKeeps
<1>2. /\ Len(file') = Len(file) /\ file \in Seq(Piece) /\ file' \in Seq(Piece)
      /\ \A i \in DOMAIN file :
            /\ file'[i].event = file[i].event /\ file'[i].what = file[i].what
            /\ file'[i].kept = IF file[i].kept = "cached" THEN "disk" ELSE file[i].kept
  <2>1. file \in Seq(Piece)
    BY <1>0 DEF TypeOK
  <2> QED BY <1>0, <2>1, CachedFile
<1>3. AckedKept'
  <2> SUFFICES ASSUME NEW f \in Events, at'[f] = "ok"
               PROVE  \E i \in DOMAIN file' :
                        /\ file'[i].event = f
                        /\ file'[i].what = "line" /\ file'[i].kept = "disk"
    BY DEF AckedKept, Acked
  <2>1. CASE f = e
    <3>1. Len(file) \in DOMAIN file /\ Len(file) \in DOMAIN file'
      BY <1>0, <1>2 DEF LineAtEnd
    <3> QED BY <1>0, <1>2, <2>1, <3>1 DEF LineAtEnd
  <2>2. CASE f # e
    <3>1. at[f] = "ok"
      BY <1>0, <2>2 DEF TypeOK
    <3>2. PICK i \in DOMAIN file : /\ file[i].event = f
                                   /\ file[i].what = "line" /\ file[i].kept = "disk"
      BY <1>0, <3>1 DEF AckedKept, Acked
    <3> QED BY <1>2, <3>2
  <2> QED BY <2>1, <2>2
<1> QED BY <1>1, <1>3 DEF IInv

LEMMA SyncFailsStep ==
    ASSUME IInv, NEW e \in Events, SyncFails(e) PROVE IInv'
<1>0. /\ TypeOK /\ AckedKept
      /\ Goes(e, "written", "failed") /\ Cached("doubtful") /\ UNCHANGED stamp
      /\ at[e] = "written" /\ at' = [at EXCEPT ![e] = "failed"]
  BY DEF IInv, SyncFails, Goes
<1>1. TypeOK' /\ Exclusive' /\ LineAtEnd' /\ StampsPast' /\ InOrder'
  BY <1>0, SyncKeeps
<1>2. /\ Len(file') = Len(file) /\ file \in Seq(Piece) /\ file' \in Seq(Piece)
      /\ \A i \in DOMAIN file :
            /\ file'[i].event = file[i].event /\ file'[i].what = file[i].what
            /\ file[i].kept = "disk" => file'[i].kept = "disk"
  <2>1. file \in Seq(Piece)
    BY <1>0 DEF TypeOK
  <2> QED BY <1>0, <2>1, CachedFile
<1>3. Acked' = Acked
  BY <1>0 DEF TypeOK, Acked
<1>4. AckedKept'
  BY <1>0, <1>2, <1>3 DEF AckedKept
<1> QED BY <1>1, <1>4 DEF IInv

\* After the end of a process no LogEvent is under way, and none is acknowledged.
LEMMA DiesKeeps ==
    ASSUME IInv, Dies, file' \in Seq(Piece)
    PROVE  /\ TypeOK' /\ Exclusive' /\ LineAtEnd' /\ Acked' = Acked
           /\ \A e \in Events : at'[e] # "locked"
<1>0. /\ TypeOK /\ up' = FALSE /\ open' = FALSE /\ UNCHANGED <<stamp, now>>
      /\ at' = [e \in Events |-> IF at[e] \in InFlight THEN "failed" ELSE at[e]]
  BY DEF IInv, Dies
<1>1. at \in [Events -> {"new", "ok", "failed"} \cup InFlight]
  BY <1>0 DEF TypeOK
<1>2. \A e \in Events : at'[e] \notin InFlight
  BY <1>0, <1>1 DEF InFlight
<1>3. \A e \in Events : at'[e] = "ok" <=> at[e] = "ok"
  BY <1>0, <1>1 DEF InFlight
<1>4. at' \in [Events -> {"new", "ok", "failed"} \cup InFlight]
  BY <1>0, <1>1 DEF InFlight
<1>5. \A e \in Events : at'[e] # "locked" /\ at'[e] # "written"
  BY <1>2 DEF InFlight
<1>6. stamp' \in [Events -> Nat] /\ now' \in Nat
  BY <1>0 DEF TypeOK
<1>7. open' \in BOOLEAN /\ up' \in BOOLEAN
  BY <1>0
<1>8. TypeOK'
  BY <1>2, <1>4, <1>5, <1>6, <1>7 DEF TypeOK
<1>9. Exclusive' /\ LineAtEnd' /\ Acked' = Acked
  BY <1>3, <1>5 DEF Exclusive, Holding, LineAtEnd, Acked
<1> QED BY <1>5, <1>8, <1>9

LEMMA CrashStep ==
    ASSUME IInv, Crash PROVE IInv'
<1>0. TypeOK /\ StampsPast /\ AckedKept /\ InOrder /\ Dies /\ UNCHANGED now
  BY DEF IInv, Crash, Dies
<1>1. CASE UNCHANGED file
  <2>1. file' \in Seq(Piece)
    BY <1>0, <1>1 DEF TypeOK
  <2>2. /\ TypeOK' /\ Exclusive' /\ LineAtEnd' /\ Acked' = Acked
        /\ \A e \in Events : at'[e] # "locked"
    BY <1>0, <2>1, DiesKeeps, Zenon
  <2>3. StampsPast' /\ InOrder' /\ AckedKept'
    BY <1>0, <1>1, <2>2 DEF StampsPast, InOrder, AckedKept
  <2> QED BY <2>2, <2>3 DEF IInv
<1>2. ASSUME NEW e \in Events, NEW what \in {"line", "json", "part"},
             at[e] = "locked", Leaves(e, what)
      PROVE  IInv'
  <2>1. file' \in Seq(Piece)
    BY <1>0, <1>2, Appended, Zenon
  <2>2. /\ TypeOK' /\ Exclusive' /\ LineAtEnd' /\ Acked' = Acked
        /\ \A f \in Events : at'[f] # "locked"
    BY <1>0, <2>1, DiesKeeps, Zenon
  <2>3. InOrder' /\ \A i \in DOMAIN file' : file'[i].stamp <= now'
    BY <1>0, <1>2, AppendKeepsOrder, Zenon
  <2>4. AckedKept'
    BY <1>2, <2>2, AppendKeepsAcked, Zenon
  <2>5. StampsPast'
    BY <2>2, <2>3 DEF StampsPast
  <2> QED BY <2>2, <2>3, <2>4, <2>5 DEF IInv
<1> QED BY <1>1, <1>2 DEF Crash

LEMMA PowerLossStep ==
    ASSUME IInv, PowerLoss PROVE IInv'
<1>0. TypeOK /\ StampsPast /\ AckedKept /\ InOrder /\ Dies /\ UNCHANGED now
  BY DEF IInv, PowerLoss, Dies
<1>1. file \in Seq(Piece) /\ \A i \in DOMAIN file : file[i] \in Piece
  BY <1>0 DEF TypeOK
<1>a. Len(file) \in Nat /\ DOMAIN file = 1 .. Len(file)
  BY <1>1
<1>b. PICK n \in 0 .. Len(file) :
        /\ \A i \in n + 1 .. Len(file) : file[i].kept # "disk"
        /\ \E damaged \in SUBSET {i \in 1 .. n : file[i].kept # "disk"} :
            file' = [i \in 1 .. n |->
                        [file[i] EXCEPT !.kept = "disk",
                                        !.what = IF i \in damaged THEN "part" ELSE @]]
  BY DEF PowerLoss
<1>2. PICK damaged \in SUBSET {i \in 1 .. n : file[i].kept # "disk"} :
            file' = [i \in 1 .. n |->
                        [file[i] EXCEPT !.kept = "disk",
                                        !.what = IF i \in damaged THEN "part" ELSE @]]
  BY <1>b
<1>3. n \in Nat /\ n <= Len(file) /\ \A i \in 1 .. n : i \in DOMAIN file
  BY <1>a
<1>4. \A i \in 1 .. n :
        /\ file'[i] \in Piece
        /\ file'[i].stamp = file[i].stamp /\ file'[i].event = file[i].event
        /\ file'[i].kept = "disk"
        /\ i \notin damaged => file'[i].what = file[i].what
  <2> SUFFICES ASSUME NEW i \in 1 .. n
               PROVE  /\ file'[i] \in Piece
                      /\ file'[i].stamp = file[i].stamp /\ file'[i].event = file[i].event
                      /\ file'[i].kept = "disk"
                      /\ i \notin damaged => file'[i].what = file[i].what
    OBVIOUS
  <2>1. file[i] \in Piece
    BY <1>1, <1>3
  <2>2. file'[i] = [file[i] EXCEPT !.kept = "disk",
                                  !.what = IF i \in damaged THEN "part" ELSE @]
    BY <1>2
  <2> QED BY <2>1, <2>2 DEF Piece
<1>5. file' \in Seq(Piece) /\ Len(file') = n /\ DOMAIN file' = 1 .. n
  <2>1. \A i \in 1 .. n : file'[i] \in Piece
    BY <1>4
  <2>2. file' = [i \in 1 .. n |-> file'[i]]
    BY <1>2
  <2> QED BY <1>3, <2>1, <2>2
<1>6. /\ TypeOK' /\ Exclusive' /\ LineAtEnd' /\ Acked' = Acked
      /\ \A e \in Events : at'[e] # "locked"
  BY <1>0, <1>5, DiesKeeps, Zenon
<1>7. StampsPast' /\ InOrder'
  BY <1>0, <1>3, <1>4, <1>5, <1>6 DEF StampsPast, InOrder
<1>8. AckedKept'
  <2> SUFFICES ASSUME NEW e \in Acked
               PROVE  \E i \in DOMAIN file' :
                        /\ file'[i].event = e
                        /\ file'[i].what = "line" /\ file'[i].kept = "disk"
    BY <1>6 DEF AckedKept
  <2>1. PICK i \in DOMAIN file : /\ file[i].event = e
                                 /\ file[i].what = "line" /\ file[i].kept = "disk"
    BY <1>0 DEF AckedKept
  <2>2. i \notin damaged
    BY <2>1
  <2>3. ~(i \in n + 1 .. Len(file))
    BY <1>b, <2>1
  <2>4. i \in 1 .. n
    BY <1>a, <1>3, <2>1, <2>3
  <2> QED BY <1>4, <1>5, <2>1, <2>2, <2>4
<1> QED BY <1>6, <1>7, <1>8 DEF IInv

-----------------------------------------------------------------------------
LEMMA NextInv ==
    ASSUME IInv, [Next]_auditVars PROVE IInv'
<1>1. CASE NewAuditLogger
  BY <1>1, NewAuditLoggerStep
<1>2. CASE Close
  BY <1>2, CloseStep
<1>3. CASE Crash
  BY <1>3, CrashStep
<1>4. CASE PowerLoss
  BY <1>4, PowerLossStep
<1>5. CASE Tick
  BY <1>5, TickStep
<1>6. CASE \E e \in Events : LogEvent(e)
  BY <1>6, LogEventStep
<1>7. CASE \E e \in Events : Lock(e)
  BY <1>7, LockStep
<1>8. CASE \E e \in Events : Write(e)
  BY <1>8, WriteStep
<1>9. CASE \E e \in Events : WriteFails(e)
  BY <1>9, WriteFailsStep
<1>10. CASE \E e \in Events : Sync(e)
  BY <1>10, SyncStep
<1>11. CASE \E e \in Events : SyncFails(e)
  BY <1>11, SyncFailsStep
<1>12. CASE UNCHANGED auditVars
  <2>1. TypeOK'
    BY <1>12 DEF auditVars, IInv, TypeOK, InFlight
  <2>2. (Exclusive /\ LineAtEnd /\ StampsPast /\ AckedKept /\ InOrder)'
    BY <1>12 DEF auditVars, IInv, Exclusive, Holding, LineAtEnd, StampsPast,
                 AckedKept, Acked, InOrder
  <2> QED BY <2>1, <2>2 DEF IInv
<1> QED
  BY <1>1, <1>2, <1>3, <1>4, <1>5, <1>6, <1>7, <1>8, <1>9, <1>10, <1>11, <1>12 DEF Next

THEOREM InvCorrect == Spec => []IInv
<1>1. IInv /\ [Next]_auditVars => IInv'
  BY NextInv
<1> QED BY InitInv, <1>1, PTL DEF Spec

\* The audit log keeps its types; no line is synced after a Close (audit.go:205).
THEOREM TypeCorrect == Spec => []TypeOK
<1>1. IInv => TypeOK
  BY DEF IInv
<1> QED BY <1>1, InvCorrect, PTL

(* An event for which LogEvent returned nil is a line on the disk          *)
(* (audit.go:79), for every number of events, crashes and losses of power. *)
THEOREM AckedCorrect == Spec => []AckedKept
<1>1. IInv => AckedKept
  BY DEF IInv
<1> QED BY <1>1, InvCorrect, PTL

\* The log is in the order of its time stamps (audit.go:58-62).
THEOREM OrderCorrect == Spec => []InOrder
<1>1. IInv => InOrder
  BY DEF IInv
<1> QED BY <1>1, InvCorrect, PTL
=============================================================================
