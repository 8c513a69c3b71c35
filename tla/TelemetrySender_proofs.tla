----------------------- MODULE TelemetrySender_proofs -----------------------
(***************************************************************************)
(* TelemetrySender for any number of collectors, points and retries: type  *)
(* correctness, and that it implements TelemetryDelivery when every buffer *)
(* file can be read back.                                                  *)
(***************************************************************************)
EXTENDS TelemetrySender, FiniteSetTheorems, SequenceTheorems, TLAPS

DiskProofs == INSTANCE OfflineBuffer_proofs WITH SizeOf <- Len

(* The assumptions of OfflineBuffer hold of the sender's batches.          *)
LEMMA BatchSizeType == \A b \in Batches : Len(b) \in Nat \ {0}
BY DEF Batches

-----------------------------------------------------------------------------
(* Disk and DiskProofs are two instances of the same definitions.          *)
LEMMA SameDiskUse == \A fs : Disk!DiskUse(fs) = DiskProofs!DiskUse(fs)
BY DEF Disk!DiskUse, Disk!Bytes, DiskProofs!DiskUse, DiskProofs!Bytes,
       Disk!Cardinality, DiskProofs!Cardinality

LEMMA SameTypeOK == Disk!TypeOK <=> DiskProofs!TypeOK
BY DEF Disk!TypeOK, DiskProofs!TypeOK, Disk!File, DiskProofs!File,
       Disk!IsFiniteSet, DiskProofs!IsFiniteSet

LEMMA SameLimit == Disk!LimitHolds <=> DiskProofs!LimitHolds
BY SameDiskUse
DEF Disk!LimitHolds, DiskProofs!LimitHolds, Disk!CountedFaults, DiskProofs!CountedFaults

LEMMA SameInit == Disk!Init <=> DiskProofs!Init
BY DEF Disk!Init, DiskProofs!Init, Disk!RestartPossible, DiskProofs!RestartPossible

LEMMA SameNew == Disk!New <=> DiskProofs!New
BY SameDiskUse
DEF Disk!New, DiskProofs!New, Disk!RestartPossible, DiskProofs!RestartPossible

LEMMA SameWrites ==
    ASSUME NEW b, NEW t
    PROVE  /\ Disk!Write(b, t) <=> DiskProofs!Write(b, t)
           /\ Disk!WriteTorn(b, t) <=> DiskProofs!WriteTorn(b, t)
           /\ Disk!CrashInWrite(b, t) <=> DiskProofs!CrashInWrite(b, t)
BY DEF Disk!Write, DiskProofs!Write, Disk!WriteTorn, DiskProofs!WriteTorn,
       Disk!CrashInWrite, DiskProofs!CrashInWrite, Disk!Full, DiskProofs!Full,
       Disk!NameFor, DiskProofs!NameFor, Disk!Put, DiskProofs!Put,
       Disk!RestartPossible, DiskProofs!RestartPossible

LEMMA SameRemovals ==
    ASSUME NEW kept
    PROVE  /\ Disk!Clear(kept) <=> DiskProofs!Clear(kept)
           /\ Disk!CrashInRemoval(kept) <=> DiskProofs!CrashInRemoval(kept)
BY DEF Disk!Clear, DiskProofs!Clear, Disk!CrashInRemoval, DiskProofs!CrashInRemoval,
       Disk!Removable, DiskProofs!Removable, Disk!Restrict, DiskProofs!Restrict,
       Disk!RestartPossible, DiskProofs!RestartPossible

LEMMA SameCrash == Disk!Crash <=> DiskProofs!Crash
BY DEF Disk!Crash, DiskProofs!Crash, Disk!RestartPossible, DiskProofs!RestartPossible

-----------------------------------------------------------------------------
(* The part of the invariant the buffer depends on: what is written is a   *)
(* batch, that is a flush that may still write has something to write.     *)
MemoryOK ==
    /\ queue \in Seq(Points)
    /\ proc \in [Procs -> {"idle", "locking", "flushing", "done"}]
    /\ mu \in Procs \cup {NoOne}
    /\ step \in Steps
    /\ attempt \in Nat
    /\ pending \subseteq DOMAIN files
    /\ cancelled \in BOOLEAN
    /\ accepted \subseteq Points /\ delivered \subseteq Points
    /\ step \in {"sending", "backoff", "buffering"} => queue # <<>>

DiskInv == DiskProofs!IInv

\* Seen by the buffer, every step is a step of the buffer or none.
LEMMA DiskStep ==
    MemoryOK /\ [Next]_senderVars => [DiskProofs!Next]_(DiskProofs!bufferVars)
<1> SUFFICES ASSUME MemoryOK, [Next]_senderVars
             PROVE  [DiskProofs!Next]_(DiskProofs!bufferVars)
  OBVIOUS
<1> USE DEF DiskProofs!Next
<1>1. CASE UNCHANGED diskVars
  BY <1>1 DEF diskVars, DiskProofs!bufferVars
<1>2. CASE NewSender
  BY <1>2, SameNew DEF NewSender
<1>3. CASE BufferWrite
  <2>1. queue \in Batches
    BY <1>3 DEF BufferWrite, Flushing, MemoryOK, Batches
  <2>2. CASE \E t \in Times : Disk!Write(queue, t) \/ Disk!WriteTorn(queue, t)
    BY <2>1, <2>2, SameWrites
  <2> QED BY <1>1, <1>3, <2>2 DEF BufferWrite
<1>4. ASSUME NEW kept \in SUBSET DOMAIN files, DrainClear(kept)
      PROVE  DiskProofs!Next
  BY <1>4, SameRemovals DEF DrainClear
<1>5. CASE Exit
  BY <1>5, SameCrash DEF Exit
<1>6. CASE Crash
  <2>1. CASE Disk!Crash
    BY <2>1, SameCrash
  <2>2. CASE Flushing("buffering") /\ \E t \in Times : Disk!CrashInWrite(queue, t)
    <3>1. queue \in Batches
      BY <2>2 DEF Flushing, MemoryOK, Batches
    <3> QED BY <2>2, <3>1, SameWrites
  <2>3. CASE \E kept \in SUBSET DOMAIN files : Disk!CrashInRemoval(kept)
    BY <2>3, SameRemovals
  <2> QED BY <1>6, <2>1, <2>2, <2>3 DEF Crash
<1>7. CASE SendStep \/ Cancel \/ LoopReturns \/ UNCHANGED senderVars
  BY <1>1, <1>7
  DEF SendStep, Cancel, LoopReturns, senderVars, Call, Send, SendNothing, TickerFlush
<1>8. CASE FlushStep
  BY <1>1, <1>3, <1>4, <1>8
  DEF FlushStep, AttemptOk, AttemptFailed, BackoffOver, BackoffCancelled, ReadAll,
      DrainSkip, DrainOk, DrainFailed
<1> QED BY <1>2, <1>5, <1>6, <1>7, <1>8 DEF Next

-----------------------------------------------------------------------------
(* What a process remembers keeps its type.                                *)
LEMMA FreshType == FreshMemory /\ MemoryOK => MemoryOK'
<1> SUFFICES ASSUME FreshMemory, MemoryOK PROVE MemoryOK'
  OBVIOUS
<1>1. <<>> \in Seq(Points)
  OBVIOUS
<1> QED BY <1>1 DEF FreshMemory, MemoryOK, Steps

LEMMA MemoryStep == Disk!TypeOK /\ MemoryOK /\ [Next]_senderVars => MemoryOK'
<1> SUFFICES ASSUME Disk!TypeOK, MemoryOK, [Next]_senderVars PROVE MemoryOK'
  OBVIOUS
<1> USE DEF MemoryOK, Steps, flushVars, diskVars
<1>1. ASSUME NEW p \in Procs, Call(p) PROVE MemoryOK'
  BY <1>1 DEF Call
<1>2. ASSUME NEW c \in Collectors, NEW x \in Points, Send(c, x) PROVE MemoryOK'
  <2>1. queue' \in Seq(Points) /\ queue' # <<>>
    BY <1>2, AppendProperties DEF Send
  <2>2. accepted' \subseteq Points /\ UNCHANGED <<diskVars, cancelled, delivered>>
    BY <1>2 DEF Send
  <2>3. c \in Procs
    BY DEF Procs
  <2>4. BeginFlush(c) \/ Return(c)
    BY <1>2 DEF Send
  <2>5. CASE BeginFlush(c)
    BY <2>1, <2>2, <2>3, <2>5 DEF BeginFlush
  <2>6. CASE Return(c)
    BY <2>1, <2>2, <2>3, <2>6 DEF Return
  <2> QED BY <2>4, <2>5, <2>6
<1>3. ASSUME NEW c \in Collectors, SendNothing(c) PROVE MemoryOK'
  BY <1>3 DEF SendNothing, Return, Procs
<1>4. CASE TickerFlush
  BY <1>4 DEF TickerFlush, BeginFlush, Return, Procs
<1>5. CASE AttemptOk
  <2>1. delivered' \subseteq Points
    BY <1>5, RangeOfSeq DEF AttemptOk
  <2>2. queue' \in Seq(Points)
    BY <1>5 DEF AttemptOk
  <2> QED BY <1>5, <2>1, <2>2 DEF AttemptOk
<1>6. ASSUME NEW taken \in BOOLEAN, AttemptFailed(taken) PROVE MemoryOK'
  <2>1. delivered' \subseteq Points
    BY <1>6, RangeOfSeq DEF AttemptFailed
  <2> QED BY <1>6, <2>1 DEF AttemptFailed, Flushing
<1>7. CASE BackoffOver \/ BackoffCancelled
  BY <1>7 DEF BackoffOver, BackoffCancelled, Flushing
<1>8. ASSUME Return(mu), mu # NoOne,
             UNCHANGED <<queue, cancelled, accepted>>, delivered' \subseteq Points
      PROVE  MemoryOK'
  BY <1>8 DEF Return
<1>9. CASE BufferWrite
  BY <1>8, <1>9 DEF BufferWrite, Flushing
<1>10. ASSUME NEW bad \in SUBSET DOMAIN files, ReadAll(bad) PROVE MemoryOK'
  <2>1. CASE DOMAIN files = bad
    BY <1>8, <1>10, <2>1 DEF ReadAll, Flushing
  <2>2. CASE DOMAIN files # bad
    BY <1>10, <2>2 DEF ReadAll
  <2> QED BY <2>1, <2>2
<1>11. ASSUME NEW t \in pending, Disk!Whole(files[t])
       PROVE  Range(files[t].batch) \subseteq Points
  <2>1. files[t].batch \in Seq(Points)
    BY DEF Disk!TypeOK, Disk!File, Batches
  <2> QED BY <2>1, RangeOfSeq
<1>12. ASSUME NEW t \in pending, DrainSkip(t) PROVE MemoryOK'
  BY <1>12 DEF DrainSkip
<1>13. ASSUME NEW t \in pending, DrainOk(t) PROVE MemoryOK'
  BY <1>11, <1>13 DEF DrainOk
<1>14. ASSUME NEW t \in pending, NEW taken \in BOOLEAN, DrainFailed(t, taken)
       PROVE  MemoryOK'
  <2>1. delivered' \subseteq Points
    BY <1>11, <1>14 DEF DrainFailed
  <2> QED BY <1>8, <1>14, <2>1 DEF DrainFailed, Flushing
<1>15. ASSUME NEW kept \in SUBSET DOMAIN files, DrainClear(kept) PROVE MemoryOK'
  BY <1>8, <1>15 DEF DrainClear, Flushing
<1>16. CASE Cancel
  BY <1>16 DEF Cancel
<1>17. CASE LoopReturns
  BY <1>17 DEF LoopReturns, Procs
<1>18. CASE NewSender \/ Exit \/ Crash
  BY <1>18, FreshType DEF NewSender, Exit, Crash
<1>19. CASE UNCHANGED senderVars
  BY <1>19 DEF senderVars
<1> HIDE DEF MemoryOK, Steps
<1>20. CASE SendStep
  BY <1>1, <1>2, <1>3, <1>4, <1>20 DEF SendStep
<1>21. CASE FlushStep
  BY <1>5, <1>6, <1>7, <1>9, <1>10, <1>12, <1>13, <1>14, <1>15, <1>21 DEF FlushStep
<1> QED BY <1>16, <1>17, <1>18, <1>19, <1>20, <1>21 DEF Next

-----------------------------------------------------------------------------
(* Why a live process loses nothing.  Only the newest file can be          *)
(* overwritten, and what it holds is still queued or was delivered; what   *)
(* Clear is about to remove was delivered.                                 *)
Held == delivered \cup Range(queue) \cup Durable(files)

HasFile(t) == t \in DOMAIN files /\ Disk!Whole(files[t])

Promise ==
    /\ \A t \in DOMAIN files : t <= now
    /\ Held \subseteq accepted
    /\ ~running => queue = <<>>
    /\ running /\ HasFile(now) =>
           Range(files[now].batch) \subseteq Range(queue) \cup delivered
    /\ step = "draining" =>
           \A t \in DOMAIN files \ pending :
               HasFile(t) => Range(files[t].batch) \subseteq delivered

LEMMA DurableMember ==
    ASSUME NEW fs, NEW x
    PROVE  x \in Durable(fs) <=>
             \E t \in DOMAIN fs : Disk!Whole(fs[t]) /\ x \in Range(fs[t].batch)
BY DEF Durable

LEMMA RangeOfAppend ==
    ASSUME NEW q \in Seq(Points), NEW x \in Points
    PROVE  Range(Append(q, x)) = Range(q) \cup {x}
<1>1. /\ Append(q, x) \in Seq(Points)
      /\ Len(Append(q, x)) = Len(q) + 1
      /\ \A i \in 1 .. Len(q) : Append(q, x)[i] = q[i]
      /\ Append(q, x)[Len(q) + 1] = x
  BY AppendProperties
<1>2. DOMAIN q = 1 .. Len(q) /\ DOMAIN Append(q, x) = 1 .. Len(q) + 1 /\ Len(q) \in Nat
  BY <1>1, LenProperties
<1> QED BY <1>1, <1>2 DEF Range

(* Writing the queue to a file replaces at most a file whose points are    *)
(* queued or delivered, so it never loses a point.                         *)
LEMMA PutKeeps ==
    ASSUME Disk!TypeOK, Promise, running, queue \in Seq(Points), NEW t \in Times, t \in {now, now + 1},
           NEW len \in 0 .. Len(queue), files' = Disk!Put(t, queue, len),
           UNCHANGED <<queue, delivered, accepted>>, now' = t
    PROVE  /\ Held' = Held
           /\ \A u \in DOMAIN files' : u <= now'
           /\ HasFile(now)' => Range(files'[now'].batch) \subseteq Range(queue')
<1>1. /\ DOMAIN files' = DOMAIN files \cup {t}
      /\ files'[t] = [batch |-> queue, len |-> len]
      /\ \A u \in DOMAIN files : u # t => files'[u] = files[u]
  BY DEF Disk!Put
<1>2. now \in Nat /\ DOMAIN files \subseteq Nat
  BY DiskAssumption DEF Disk!TypeOK
<1>3. \A u \in DOMAIN files : u <= now
  BY DEF Promise
<1>4. \A u \in DOMAIN files' : u <= now'
  BY <1>1, <1>2, <1>3
<1>5. HasFile(t) => Range(files[t].batch) \subseteq Range(queue) \cup delivered
  BY <1>2, <1>3 DEF Promise, HasFile
<1>6. Durable(files) \subseteq Durable(files') \cup Range(queue) \cup delivered
  BY <1>1, <1>5, DurableMember DEF HasFile
<1>7. Durable(files') \subseteq Durable(files) \cup Range(queue)
  BY <1>1, DurableMember
<1> QED BY <1>1, <1>4, <1>6, <1>7 DEF Held

LEMMA RestrictKeeps ==
    ASSUME NEW S \in SUBSET DOMAIN files, files' = Disk!Restrict(files, S),
           UNCHANGED <<accepted, now>>, Promise
    PROVE  /\ DOMAIN files' = S
           /\ \A u \in DOMAIN files' : files'[u] = files[u] /\ u <= now'
           /\ Durable(files') \subseteq Durable(files)
<1>1. DOMAIN files' = S /\ \A u \in S : files'[u] = files[u]
  BY DEF Disk!Restrict
<1> QED BY <1>1, DurableMember DEF Promise

-----------------------------------------------------------------------------
(* The three kinds of step the abstract specification allows after Start.  *)
AbstractStep == [Delivery!Next]_(Delivery!vars)

LEMMA LostIsNotHeld == Lost = accepted \ Held /\ Lost' = accepted' \ Held'
BY DEF Lost, Held

LEMMA StutterStep ==
    ASSUME Held' = Held, UNCHANGED <<accepted, delivered, running>>
    PROVE  AbstractStep
BY LostIsNotHeld DEF AbstractStep, Delivery!vars

LEMMA DeliverStep ==
    ASSUME running, running' = running, Held' = Held, accepted' = accepted,
           Held \subseteq accepted, accepted \subseteq Points, NEW S,
           S \subseteq Held, delivered' = delivered \cup S
    PROVE  AbstractStep
<1>1. S \in SUBSET Points /\ S \subseteq accepted \ Lost /\ Lost' = Lost
  BY LostIsNotHeld
<1>2. Delivery!Deliver(S)
  BY <1>1 DEF Delivery!Deliver
<1> QED BY <1>1, <1>2 DEF AbstractStep, Delivery!Next

LEMMA StopStep ==
    ASSUME running, running' = FALSE, Held' \subseteq Held, delivered \subseteq Held',
           UNCHANGED <<accepted, delivered>>, accepted \subseteq Points
    PROVE  AbstractStep
<1> DEFINE S == Lost' \ Lost
<1>1. Lost' = Lost \cup S /\ S \subseteq accepted \ delivered
  BY LostIsNotHeld
<1>2. S \in SUBSET Points
  BY <1>1
<1>3. Delivery!Stop(S)
  BY <1>1 DEF Delivery!Stop
<1> QED BY <1>2, <1>3 DEF AbstractStep, Delivery!Next

-----------------------------------------------------------------------------
LEMMA StartKeeps ==
    ASSUME Disk!TypeOK, MemoryOK, Promise, NewSender
    PROVE  Promise' /\ AbstractStep
<1>1. /\ files' = files /\ now' = now + 1 /\ ~running /\ running' = TRUE
      /\ queue' = <<>> /\ step' = "none" /\ UNCHANGED <<accepted, delivered>>
  BY DEF NewSender, Disk!New, FreshMemory
<1>2. queue = <<>>
  BY <1>1 DEF Promise
<1>3. Held' = Held
  BY <1>1, <1>2 DEF Held, Durable
<1>4. now \in Nat /\ DOMAIN files \subseteq Nat
  BY DiskAssumption DEF Disk!TypeOK
<1>5. \A t \in DOMAIN files' : t <= now' /\ t # now'
  BY <1>1, <1>4 DEF Promise
<1>6. Promise'
  BY <1>1, <1>3, <1>5 DEF Promise, HasFile
<1>7. Lost' = Lost
  BY <1>1, <1>3, LostIsNotHeld
<1>8. Delivery!Start
  BY <1>1, <1>7 DEF Delivery!Start
<1> QED BY <1>6, <1>8 DEF AbstractStep, Delivery!Next

LEMMA SendKeeps ==
    ASSUME MemoryOK, Promise, NEW c \in Collectors, NEW x \in Points, Send(c, x)
    PROVE  Promise' /\ AbstractStep
<1>1. /\ UNCHANGED <<files, now, running, delivered>> /\ running
      /\ accepted' = accepted \cup {x} /\ x \notin accepted
      /\ queue' = Append(queue, x) /\ step' # "draining"
  BY DEF Send, diskVars, BeginFlush, Return
<1>2. Range(queue') = Range(queue) \cup {x}
  BY <1>1, RangeOfAppend DEF MemoryOK
<1>3. Held' = Held \cup {x}
  BY <1>1, <1>2 DEF Held, Durable
<1>4. Promise'
  BY <1>1, <1>2, <1>3 DEF Promise, HasFile
<1>5. Lost' = Lost
  BY <1>1, <1>3, LostIsNotHeld DEF Promise
<1>6. Delivery!Accept(x)
  BY <1>1, <1>5 DEF Delivery!Accept
<1> QED BY <1>4, <1>6 DEF AbstractStep, Delivery!Next

\* Steps that touch neither the queue nor the disk nor the server.
LEMMA QuietKeeps ==
    ASSUME Promise,
           UNCHANGED <<files, now, running, queue, accepted, delivered>>,
           \/ step' # "draining"
           \/ UNCHANGED <<step, pending>>
           \/ pending' = DOMAIN files
    PROVE  Promise' /\ AbstractStep
<1>1. Held' = Held
  BY DEF Held, Durable
<1>2. Promise'
  BY <1>1 DEF Promise, HasFile
<1> QED BY <1>1, <1>2, StutterStep

\* Requests: what the server takes was held, and stays held if the queue is cleared.
LEMMA RequestKeeps ==
    ASSUME MemoryOK, Promise, running, NEW S,
           UNCHANGED <<files, now, running, accepted>>,
           S \subseteq Held, delivered' = delivered \cup S,
           queue' = queue \/ (queue' = <<>> /\ Range(queue) \subseteq S),
           \/ step' # "draining"
           \/ step = "draining" /\ \E t \in pending :
                 /\ pending' = pending \ {t}
                 /\ HasFile(t) => Range(files[t].batch) \subseteq delivered'
    PROVE  Promise' /\ AbstractStep
<1>1. Range(queue') \subseteq Range(queue)
      /\ Range(queue) \cup delivered \subseteq Range(queue') \cup delivered'
  BY DEF Range
<1>2. Held' = Held
  BY <1>1 DEF Held, Durable
<1>3. step' = "draining" =>
         \A t \in DOMAIN files' \ pending' :
             HasFile(t)' => Range(files'[t].batch) \subseteq delivered'
  BY DEF Promise, HasFile
<1>4. running /\ HasFile(now) =>
         Range(files[now].batch) \subseteq Range(queue') \cup delivered'
  BY <1>1 DEF Promise
<1>5. Promise'
  BY <1>2, <1>3, <1>4 DEF Promise, HasFile
<1>6. AbstractStep
  BY <1>2, DeliverStep DEF Promise, MemoryOK
<1> QED BY <1>5, <1>6

LEMMA BufferWriteKeeps ==
    ASSUME Disk!TypeOK, MemoryOK, Promise, BufferWrite
    PROVE  Promise' /\ AbstractStep
<1>1. /\ running /\ step' = "none"
      /\ UNCHANGED <<queue, accepted, delivered>>
  BY DEF BufferWrite, Flushing, Return
<1>2. CASE UNCHANGED diskVars
  BY <1>1, <1>2, QuietKeeps DEF diskVars
<1>3. ASSUME NEW t \in Times, Disk!Write(queue, t) \/ Disk!WriteTorn(queue, t)
      PROVE  Promise' /\ AbstractStep
  <2>1. Len(queue) \in Nat
    BY DEF MemoryOK
  <2>2. PICK len \in 0 .. Len(queue) : files' = Disk!Put(t, queue, len)
    BY <1>3, <2>1 DEF Disk!Write, Disk!WriteTorn
  <2>3. t \in {now, now + 1} /\ now' = t /\ running' = running
    BY <1>3 DEF Disk!Write, Disk!WriteTorn, Disk!NameFor
  <2>4. /\ Held' = Held
        /\ \A u \in DOMAIN files' : u <= now'
        /\ HasFile(now)' => Range(files'[now'].batch) \subseteq Range(queue')
    BY <1>1, <2>2, <2>3, PutKeeps DEF MemoryOK
  <2>5. Promise'
    BY <1>1, <2>3, <2>4 DEF Promise
  <2> QED BY <1>1, <2>3, <2>4, <2>5, StutterStep
<1> QED BY <1>2, <1>3 DEF BufferWrite

\* Clear runs when every file has been sent or does not parse.
LEMMA ClearKeeps ==
    ASSUME Disk!TypeOK, MemoryOK, Promise, NEW kept \in SUBSET DOMAIN files,
           DrainClear(kept)
    PROVE  Promise' /\ AbstractStep
<1>1. /\ running /\ step = "draining" /\ pending = {} /\ step' = "none"
      /\ UNCHANGED <<now, running, queue, accepted, delivered>>
      /\ files' = Disk!Restrict(files, kept)
  BY DEF DrainClear, Flushing, Return, Disk!Clear
<1>2. /\ DOMAIN files' = kept
      /\ \A u \in DOMAIN files' : files'[u] = files[u] /\ u <= now'
      /\ Durable(files') \subseteq Durable(files)
  BY <1>1, RestrictKeeps
<1>3. Durable(files) \subseteq delivered
  BY <1>1, DurableMember DEF Promise, HasFile
<1>4. Held' = Held
  BY <1>1, <1>2, <1>3 DEF Held
<1>5. Promise'
  BY <1>1, <1>2, <1>3, <1>4, DurableMember DEF Promise, HasFile
<1> QED BY <1>1, <1>4, <1>5, StutterStep

\* The end of a process leaves what was delivered and what is complete on disk.
LEMMA StopKeeps ==
    ASSUME Disk!TypeOK, MemoryOK, Promise, Exit \/ Crash
    PROVE  Promise' /\ AbstractStep
<1>1. /\ running /\ running' = FALSE /\ queue' = <<>> /\ step' = "none"
      /\ UNCHANGED <<accepted, delivered>>
  BY DEF Exit, Crash, FreshMemory, Disk!Crash, Disk!CrashInWrite, Disk!CrashInRemoval
<1>2. Durable(files') \subseteq Held /\ \A u \in DOMAIN files' : u <= now'
  <2>1. CASE Disk!Crash
    BY <2>1 DEF Disk!Crash, Promise, Held
  <2>2. ASSUME NEW t \in Times, Disk!CrashInWrite(queue, t)
        PROVE  Durable(files') \subseteq Held /\ \A u \in DOMAIN files' : u <= now'
    <3>1. /\ \E len : files' = Disk!Put(t, queue, len)
          /\ t \in {now, now + 1} /\ now' = t
      BY <2>2 DEF Disk!CrashInWrite, Disk!NameFor
    <3>2. /\ DOMAIN files' = DOMAIN files \cup {t}
          /\ files'[t].batch = queue
          /\ \A u \in DOMAIN files : u # t => files'[u] = files[u]
      BY <3>1 DEF Disk!Put
    <3>3. now \in Nat /\ DOMAIN files \subseteq Nat
      BY DiskAssumption DEF Disk!TypeOK
    <3>4. \A u \in DOMAIN files' : u <= now'
      BY <3>1, <3>2, <3>3 DEF Promise
    <3>5. Durable(files') \subseteq Durable(files) \cup Range(queue)
      BY <3>2, DurableMember
    <3> QED BY <3>4, <3>5 DEF Held
  <2>3. ASSUME NEW kept \in SUBSET DOMAIN files, Disk!CrashInRemoval(kept)
        PROVE  Durable(files') \subseteq Held /\ \A u \in DOMAIN files' : u <= now'
    <3>1. PICK t \in Times :
            files' = Disk!Restrict(files, {u \in DOMAIN files : u > t} \cup kept)
      BY <2>3 DEF Disk!CrashInRemoval
    <3>2. UNCHANGED <<accepted, now>>
      BY <1>1, <2>3 DEF Disk!CrashInRemoval
    <3> DEFINE S == {u \in DOMAIN files : u > t} \cup kept
    <3>3. S \in SUBSET DOMAIN files /\ files' = Disk!Restrict(files, S)
      BY <3>1
    <3> HIDE DEF S
    <3> QED BY <3>2, <3>3, RestrictKeeps DEF Held
  <2> QED BY <2>1, <2>2, <2>3 DEF Exit, Crash
<1>3. Held' \subseteq Held /\ delivered \subseteq Held'
  BY <1>1, <1>2 DEF Held, Range
<1>4. Promise'
  BY <1>1, <1>2, <1>3 DEF Promise
<1> QED BY <1>1, <1>3, <1>4, StopStep DEF MemoryOK

(* Every step keeps the promise, if every file can be opened.              *)
LEMMA PromiseStep ==
    ASSUME "read" \notin Faults, Disk!TypeOK, MemoryOK, Promise, [Next]_senderVars
    PROVE  Promise' /\ AbstractStep
<1> USE DEF diskVars, flushVars
<1>1. ASSUME NEW p \in Procs, Call(p) PROVE Promise' /\ AbstractStep
  BY <1>1, QuietKeeps DEF Call
<1>2. ASSUME NEW c \in Collectors, SendNothing(c) PROVE Promise' /\ AbstractStep
  BY <1>2, QuietKeeps DEF SendNothing, Return
<1>3. CASE TickerFlush
  BY <1>3, QuietKeeps DEF TickerFlush, Return, BeginFlush
<1>4. CASE AttemptOk
  <2>1. /\ running /\ step' # "draining" /\ queue' = <<>>
        /\ delivered' = delivered \cup Range(queue)
        /\ UNCHANGED <<files, now, running, accepted>>
    BY <1>4 DEF AttemptOk, Flushing
  <2> QED BY <2>1, RequestKeeps DEF Held
<1>5. ASSUME NEW taken \in BOOLEAN, AttemptFailed(taken)
      PROVE  Promise' /\ AbstractStep
  <2>1. /\ running /\ step' # "draining"
        /\ UNCHANGED <<files, now, running, accepted, queue>>
    BY <1>5 DEF AttemptFailed, Flushing
  <2>2. CASE taken
    <3>1. delivered' = delivered \cup Range(queue)
      BY <1>5, <2>2 DEF AttemptFailed
    <3> QED BY <2>1, <3>1, RequestKeeps DEF Held
  <2>3. CASE ~taken
    BY <1>5, <2>1, <2>3, QuietKeeps DEF AttemptFailed
  <2> QED BY <2>2, <2>3
<1>6. CASE BackoffOver \/ BackoffCancelled
  BY <1>6, QuietKeeps DEF BackoffOver, BackoffCancelled
<1>7. ASSUME NEW bad \in SUBSET DOMAIN files, ReadAll(bad)
      PROVE  Promise' /\ AbstractStep
  <2>1. bad = {}
    BY <1>7 DEF ReadAll, Disk!Readable
  <2>2. step' = "none" \/ pending' = DOMAIN files
    BY <1>7, <2>1 DEF ReadAll, Return
  <2> QED BY <1>7, <2>2, QuietKeeps DEF ReadAll
<1>8. ASSUME NEW t \in pending, DrainSkip(t) PROVE Promise' /\ AbstractStep
  <2>1. /\ running /\ step = "draining" /\ pending' = pending \ {t} /\ ~HasFile(t)
        /\ UNCHANGED <<files, now, running, accepted, queue>>
    BY <1>8 DEF DrainSkip, Flushing, HasFile
  <2> DEFINE S == {}
  <2>2. delivered' = delivered \cup S /\ S \subseteq Held
    BY <1>8 DEF DrainSkip
  <2> HIDE DEF S
  <2> QED BY <2>1, <2>2, RequestKeeps
<1>9. ASSUME NEW t \in pending, HasFile(t) PROVE Range(files[t].batch) \subseteq Held
  BY <1>9, DurableMember DEF Held, HasFile
<1>10. ASSUME NEW t \in pending, DrainOk(t) PROVE Promise' /\ AbstractStep
  <2>1. HasFile(t)
    BY <1>10 DEF DrainOk, HasFile, MemoryOK
  <2>2. Range(files[t].batch) \subseteq Held
    BY <1>9, <2>1
  <2>3. /\ running /\ step = "draining" /\ pending' = pending \ {t}
        /\ delivered' = delivered \cup Range(files[t].batch)
        /\ UNCHANGED <<files, now, running, accepted, queue>>
    BY <1>10 DEF DrainOk, Flushing
  <2> QED BY <2>2, <2>3, RequestKeeps
<1>11. ASSUME NEW t \in pending, NEW taken \in BOOLEAN, DrainFailed(t, taken)
       PROVE  Promise' /\ AbstractStep
  <2>1. HasFile(t) /\ running /\ step' = "none"
        /\ UNCHANGED <<files, now, running, accepted, queue>>
    BY <1>11 DEF DrainFailed, HasFile, MemoryOK, Flushing, Return
  <2>2. Range(files[t].batch) \subseteq Held
    BY <1>9, <2>1
  <2>3. CASE taken
    <3>1. delivered' = delivered \cup Range(files[t].batch)
      BY <1>11, <2>3 DEF DrainFailed
    <3> QED BY <2>1, <2>2, <3>1, RequestKeeps
  <2>4. CASE ~taken
    <3>1. delivered' = delivered
      BY <1>11, <2>4 DEF DrainFailed
    <3> QED BY <2>1, <3>1, QuietKeeps
  <2> QED BY <2>3, <2>4
<1>12. CASE Cancel \/ LoopReturns \/ UNCHANGED senderVars
  BY <1>12, QuietKeeps DEF Cancel, LoopReturns, senderVars
<1>13. CASE SendStep
  BY <1>1, <1>2, <1>3, <1>13, SendKeeps DEF SendStep
<1>14. CASE FlushStep
  BY <1>4, <1>5, <1>6, <1>7, <1>8, <1>10, <1>11, <1>14, BufferWriteKeeps, ClearKeeps
  DEF FlushStep
<1> QED BY <1>12, <1>13, <1>14, StartKeeps, StopKeeps DEF Next

-----------------------------------------------------------------------------
(* A complete file disappears only from a Clear that was reached, or died  *)
(* in, after the last of the files was sent.                               *)
ClearedStep ==
    \A t \in DOMAIN files \ DOMAIN files' :
        Disk!Whole(files[t]) => Range(files[t].batch) \subseteq delivered'

LEMMA ClearedAlways == Promise /\ [Next]_senderVars => ClearedStep
<1> SUFFICES ASSUME Promise, [Next]_senderVars, DOMAIN files \ DOMAIN files' # {}
             PROVE  ClearedStep
  BY DEF ClearedStep
<1>1. files' # files
  OBVIOUS
<1>2. ASSUME step = "draining", pending = {}, delivered' = delivered PROVE ClearedStep
  BY <1>2 DEF Promise, HasFile, ClearedStep
<1>3. ASSUME NEW t \in Times, NEW len, files' = Disk!Put(t, queue, len) PROVE FALSE
  BY <1>3 DEF Disk!Put
<1>4. CASE BufferWrite
  BY <1>1, <1>3, <1>4 DEF BufferWrite, Disk!Write, Disk!WriteTorn, diskVars
<1>5. ASSUME NEW kept \in SUBSET DOMAIN files, DrainClear(kept) PROVE ClearedStep
  BY <1>2, <1>5 DEF DrainClear, Flushing
<1>6. CASE Crash
  BY <1>1, <1>2, <1>3, <1>6 DEF Crash, Disk!Crash, Disk!CrashInWrite, FreshMemory, Flushing
<1>7. CASE NewSender \/ Exit \/ SendStep \/ Cancel \/ LoopReturns \/ UNCHANGED senderVars
  BY <1>1, <1>7
  DEF NewSender, Disk!New, Exit, Disk!Crash, SendStep, Cancel, LoopReturns, senderVars,
      diskVars, Call, Send, SendNothing, TickerFlush
<1>8. CASE FlushStep
  BY <1>1, <1>4, <1>5, <1>8
  DEF FlushStep, AttemptOk, AttemptFailed, BackoffOver, BackoffCancelled, ReadAll,
      DrainSkip, DrainOk, DrainFailed, diskVars
<1> QED BY <1>6, <1>7, <1>8 DEF Next

-----------------------------------------------------------------------------
IInv == DiskInv /\ MemoryOK

LEMMA InvTypes == IInv => TypeOK /\ Disk!TypeOK /\ Disk!LimitHolds
<1>1. DiskInv => Disk!TypeOK /\ Disk!LimitHolds
  BY SameTypeOK, SameLimit DEF DiskInv, DiskProofs!IInv
<1> QED BY <1>1 DEF IInv, MemoryOK, TypeOK

LEMMA DiskAssumptions ==
    /\ \A b \in Batches : Len(b) \in Nat \ {0}
    /\ MaxSize \in Nat /\ Times \subseteq Nat /\ Faults \subseteq DiskProofs!FaultKinds
BY BatchSizeType, DiskAssumption DEF DiskProofs!FaultKinds

LEMMA InitInv == Init => IInv
<1> SUFFICES ASSUME Init PROVE IInv
  OBVIOUS
<1>1. DiskInv
  BY SameInit, DiskAssumptions, DiskProofs!InitInv DEF Init, DiskInv
<1>2. <<>> \in Seq(Points)
  OBVIOUS
<1>3. MemoryOK
  BY <1>2 DEF Init, MemoryOK, Steps
<1> QED BY <1>1, <1>3 DEF IInv

LEMMA NextInv == IInv /\ [Next]_senderVars => IInv'
<1> SUFFICES ASSUME IInv, [Next]_senderVars PROVE IInv'
  OBVIOUS
<1>1. MemoryOK'
  BY InvTypes, MemoryStep DEF IInv
<1>2. DiskInv'
  BY DiskStep, DiskAssumptions, DiskProofs!NextInv DEF IInv, DiskInv
<1> QED BY <1>1, <1>2 DEF IInv

(* Type correctness of the sender and of the buffer it drives.             *)
THEOREM TypeCorrect == Spec => []TypeOK
BY InitInv, NextInv, InvTypes, PTL DEF Spec

(* The sender writes the whole queue again at every failed flush, the      *)
(* points already buffered included.  Whatever fails, no step of it takes  *)
(* the directory over max_buffer_size while the count is not below what is *)
(* on the disk: the queue that does not fit is not written.                *)
BufferGrowsWithinLimit ==
    [][running /\ Disk!DiskUse(files) <= currentSize
            /\ Disk!DiskUse(files') > Disk!DiskUse(files) =>
        Disk!DiskUse(files') <= MaxSize]_senderVars

(* Under this sender the directory grows within max_buffer_size from any   *)
(* count that is not too low, with every fault there is.                   *)
THEOREM GrowsCorrect == Spec => BufferGrowsWithinLimit
<1>1. ASSUME IInv, [Next]_senderVars,
             running, Disk!DiskUse(files) <= currentSize,
             Disk!DiskUse(files') > Disk!DiskUse(files)
      PROVE  Disk!DiskUse(files') <= MaxSize
  <2>1. DiskProofs!TypeOK /\ [DiskProofs!Next]_(DiskProofs!bufferVars)
    BY <1>1, DiskStep DEF IInv, DiskInv, DiskProofs!IInv
  <2>2. /\ DiskProofs!DiskUse(files) <= currentSize
        /\ DiskProofs!DiskUse(files') > DiskProofs!DiskUse(files)
    BY <1>1, SameDiskUse
  <2>3. DiskProofs!DiskUse(files') <= MaxSize
    BY <1>1, <2>1, <2>2, DiskAssumptions, DiskProofs!NextGrows
  <2> QED BY <2>3, SameDiskUse
<1>2. IInv /\ [Next]_senderVars =>
        [running /\ Disk!DiskUse(files) <= currentSize
            /\ Disk!DiskUse(files') > Disk!DiskUse(files) =>
         Disk!DiskUse(files') <= MaxSize]_senderVars
  BY <1>1
<1> QED BY <1>2, InitInv, NextInv, PTL DEF Spec, BufferGrowsWithinLimit

(* If no walk, write or removal of the buffer ever fails, the directory    *)
(* stays within max_buffer_size under this sender, through crashes and     *)
(* restarts.                                                               *)
THEOREM LimitCorrect ==
    Faults \cap {"walk", "write", "remove"} = {} =>
        (Spec => [](Disk!DiskUse(files) <= MaxSize))
<1> SUFFICES ASSUME Faults \cap {"walk", "write", "remove"} = {}
             PROVE  Spec => [](Disk!DiskUse(files) <= MaxSize)
  OBVIOUS
<1>1. IInv => Disk!DiskUse(files) <= MaxSize
  BY InvTypes DEF Disk!LimitHolds, Disk!CountedFaults
<1> QED BY <1>1, InitInv, NextInv, PTL DEF Spec

LEMMA InitPromise == Init => Delivery!Init /\ Promise
<1> SUFFICES ASSUME Init PROVE Delivery!Init /\ Promise
  OBVIOUS
<1>1. /\ DOMAIN files = {} /\ queue = <<>> /\ accepted = {} /\ delivered = {}
      /\ running = FALSE /\ step = "none"
  BY DEF Init, Disk!Init
<1>2. Held = {} /\ Lost = {}
  BY <1>1, LostIsNotHeld DEF Held, Durable, Range
<1> QED BY <1>1, <1>2 DEF Delivery!Init, Promise

LEMMA NextPromise ==
    ASSUME "read" \notin Faults
    PROVE  IInv /\ Promise /\ [Next]_senderVars =>
             Promise' /\ [Delivery!Next]_(Delivery!vars)
BY InvTypes, PromiseStep DEF IInv, AbstractStep

(* The sender implements TelemetryDelivery if every buffer file can be     *)
(* opened: outside the end of a process no point is ever lost.             *)
THEOREM DeliveryCorrect ==
    ASSUME "read" \notin Faults
    PROVE  Spec => KeepsDeliveryPromise
BY InitPromise, NextPromise, InitInv, NextInv, PTL
DEF Spec, KeepsDeliveryPromise, Delivery!Spec

(* Under the same assumption a complete buffer file is removed only after  *)
(* the server has all of it.                                               *)
THEOREM ClearedCorrect ==
    ASSUME "read" \notin Faults
    PROVE  Spec => ClearedAfterTransmission
<1>1. Promise /\ [Next]_senderVars => [ClearedStep]_senderVars
  BY ClearedAlways
<1>2. [][ClearedStep]_senderVars => ClearedAfterTransmission
  BY PTL DEF ClearedAfterTransmission, ClearedStep
<1> QED BY <1>1, <1>2, InitPromise, NextPromise, InitInv, NextInv, PTL DEF Spec
=============================================================================
