-------------------------- MODULE TelemetrySender --------------------------
(***************************************************************************)
(* The telemetry sender: internal/sender/sender.go, over the offline       *)
(* buffer of internal/buffer/buffer.go.                                    *)
(*                                                                         *)
(* Collectors call Send; the goroutine started by Start flushes on a       *)
(* ticker.  Both take Sender.mu, and whoever finds a full queue keeps it   *)
(* through every attempt and back-off of the flush.  The server may answer *)
(* an error, not be reached, or take the batch while the agent sees an     *)
(* error.  The process can die at any point and a new one starts on the    *)
(* same directory with an empty queue.                                     *)
(***************************************************************************)
EXTENDS Integers, FiniteSets, Sequences, Functions, SequencesExt

CONSTANTS
    Collectors,   \* the goroutines that call Send
    Points,       \* the data points; each is sent once by the collectors
    BatchSize,    \* Config.BatchSize
    MaxRetries,   \* attempts of sendWithRetry (5 in the code)
    MaxSize,      \* Config.MaxBufferSize, in data points
    Times,        \* readings of the clock that name a buffer file
    Faults        \* kinds of file-system failure, as in OfflineBuffer

Ticker == "ticker"
NoOne == "none"
Procs == Collectors \cup {Ticker}

ASSUME CollectorsAssumption == Ticker \notin Collectors /\ NoOne \notin Collectors
ASSUME BatchSizeAssumption == BatchSize \in Nat \ {0}
ASSUME MaxRetriesAssumption == MaxRetries \in Nat \ {0}
ASSUME DiskAssumption ==
    /\ MaxSize \in Nat
    /\ Times \subseteq Nat
    /\ Faults \subseteq {"walk", "write", "read", "remove"}

VARIABLES
    files, currentSize, now, running,  \* the OfflineBuffer and the process
    queue,      \* Sender.queue, one data point per element
    proc,       \* what each goroutine is doing
    mu,         \* the goroutine that holds Sender.mu between steps
    step,       \* where the flush under way is
    attempt,    \* failed attempts of sendWithRetry
    pending,    \* the files flushBuffer has still to send
    cancelled,  \* the context is done
    accepted, delivered  \* history: points queued, points the server has

diskVars == <<files, currentSize, now, running>>
flushVars == <<mu, step, attempt, pending>>
senderVars == <<diskVars, queue, proc, flushVars, cancelled, accepted, delivered>>

\* A batch of the buffer is the sequence of points of the queue it was made of.
Batches == Seq(Points) \ {<<>>}
Disk == INSTANCE OfflineBuffer WITH SizeOf <- Len

Steps == {"none", "sending", "backoff", "buffering", "reading", "draining"}

\* Points that a new process could still read back from the directory.
Durable(fs) == UNION {Range(fs[t].batch) : t \in {u \in DOMAIN fs : Disk!Whole(fs[u])}}

-----------------------------------------------------------------------------
Init ==
    /\ Disk!Init
    /\ queue = <<>>
    /\ proc = [p \in Procs |-> "idle"]
    /\ mu = NoOne /\ step = "none" /\ attempt = 0 /\ pending = {}
    /\ cancelled = FALSE
    /\ accepted = {} /\ delivered = {}

\* What a process keeps in memory is empty in a new one and gone with an old one.
FreshMemory ==
    /\ queue' = <<>>
    /\ proc' = [p \in Procs |-> "idle"]
    /\ mu' = NoOne /\ step' = "none" /\ attempt' = 0 /\ pending' = {}
    /\ cancelled' = FALSE
    /\ UNCHANGED <<accepted, delivered>>

\* NewSender, then Start, in a new process.
NewSender == Disk!New /\ FreshMemory

-----------------------------------------------------------------------------
(* Taking the mutex.                                                       *)

\* A collector calls Send, or the ticker's case of Start's select is chosen.
Call(p) ==
    /\ running /\ proc[p] = "idle"
    /\ p \in Collectors => accepted # Points
    /\ proc' = [proc EXCEPT ![p] = "locking"]
    /\ UNCHANGED <<diskVars, queue, flushVars, cancelled, accepted, delivered>>

BeginFlush(p) ==
    /\ mu' = p /\ step' = "sending" /\ attempt' = 0
    /\ proc' = [proc EXCEPT ![p] = "flushing"]
    /\ UNCHANGED pending

\* Returning from Send or from the loop's flush unlocks the mutex.
Return(p) ==
    /\ mu' = NoOne /\ step' = "none" /\ attempt' = 0 /\ pending' = {}
    /\ proc' = [proc EXCEPT ![p] = "idle"]

Send(c, x) ==
    /\ running /\ proc[c] = "locking" /\ mu = NoOne
    /\ x \notin accepted
    /\ accepted' = accepted \cup {x}
    /\ queue' = Append(queue, x)
    /\ IF Len(queue') >= BatchSize THEN BeginFlush(c) ELSE Return(c)
    /\ UNCHANGED <<diskVars, cancelled, delivered>>

\* Every point of the model has been sent: the call the collector began is dropped.
SendNothing(c) ==
    /\ running /\ proc[c] = "locking" /\ mu = NoOne
    /\ accepted = Points
    /\ Return(c)
    /\ UNCHANGED <<diskVars, queue, cancelled, accepted, delivered>>

\* Mutant: the ticker flushes an empty queue.
TickerFlushUnguarded ==
    /\ running /\ proc[Ticker] = "locking" /\ mu = NoOne
    /\ BeginFlush(Ticker)
    /\ UNCHANGED <<diskVars, queue, cancelled, accepted, delivered>>

TickerFlush ==
    /\ running /\ proc[Ticker] = "locking" /\ mu = NoOne
    /\ IF queue = <<>> THEN Return(Ticker) ELSE BeginFlush(Ticker)
    /\ UNCHANGED <<diskVars, queue, cancelled, accepted, delivered>>

-----------------------------------------------------------------------------
(* sendWithRetry, under the mutex.                                         *)

Flushing(s) == running /\ mu # NoOne /\ step = s

\* The server answered 200 or 201: the queue is cleared at once.
AttemptOk ==
    /\ Flushing("sending") /\ ~cancelled
    /\ delivered' = delivered \cup Range(queue)
    /\ queue' = <<>>
    /\ step' = "reading"
    /\ UNCHANGED <<diskVars, proc, mu, attempt, pending, cancelled, accepted>>

\* Mutant: a failed attempt is not counted.
AttemptFailedUncounted(taken) ==
    /\ Flushing("sending")
    /\ taken => ~cancelled
    /\ delivered' = IF taken THEN delivered \cup Range(queue) ELSE delivered
    /\ step' = "backoff"
    /\ UNCHANGED <<diskVars, queue, proc, mu, attempt, pending, cancelled, accepted>>

\* Any error; the server may have taken the batch, unless the context was
\* done and the request was never made.
AttemptFailed(taken) ==
    /\ Flushing("sending")
    /\ taken => ~cancelled
    /\ delivered' = IF taken THEN delivered \cup Range(queue) ELSE delivered
    /\ attempt' = attempt + 1
    /\ step' = IF attempt' < MaxRetries THEN "backoff" ELSE "buffering"
    /\ UNCHANGED <<diskVars, queue, proc, mu, pending, cancelled, accepted>>

BackoffOver ==
    /\ Flushing("backoff")
    /\ step' = "sending"
    /\ UNCHANGED <<diskVars, queue, proc, mu, attempt, pending, cancelled, accepted, delivered>>

BackoffCancelled ==
    /\ Flushing("backoff") /\ cancelled
    /\ step' = "buffering"
    /\ UNCHANGED <<diskVars, queue, proc, mu, attempt, pending, cancelled, accepted, delivered>>

-----------------------------------------------------------------------------
(* flush after a failure: the batch goes to the buffer, the queue stays.   *)

\* Mutant: the queue is cleared once the batch went to the buffer, or did not.
BufferWriteClearsQueue ==
    /\ Flushing("buffering")
    /\ \/ \E t \in Times :
            /\ cancelled => Disk!RestartPossible(t)
            /\ Disk!Write(queue, t) \/ Disk!WriteTorn(queue, t)
       \/ Disk!Full(queue) /\ UNCHANGED diskVars
    /\ Return(mu)
    /\ queue' = <<>>
    /\ UNCHANGED <<cancelled, accepted, delivered>>

BufferWrite ==
    /\ Flushing("buffering")
    /\ \/ \E t \in Times :
            /\ cancelled => Disk!RestartPossible(t)   \* bound, as in Cancel
            /\ Disk!Write(queue, t) \/ Disk!WriteTorn(queue, t)
       \/ Disk!Full(queue) /\ UNCHANGED diskVars
    /\ Return(mu)
    /\ UNCHANGED <<queue, cancelled, accepted, delivered>>

(* flush after a success: flushBuffer.                                     *)

\* ReadAll leaves out the files in bad; with none left nothing more is done.
ReadAll(bad) ==
    /\ Flushing("reading")
    /\ Disk!Readable(bad)
    /\ IF DOMAIN files = bad
       THEN Return(mu)
       ELSE /\ pending' = DOMAIN files \ bad
            /\ step' = "draining"
            /\ UNCHANGED <<mu, attempt, proc>>
    /\ UNCHANGED <<diskVars, queue, cancelled, accepted, delivered>>

\* The files are gone through in name order.
NextFile(t) == t \in pending /\ \A u \in pending : t <= u

\* A file that does not parse is skipped.
DrainSkip(t) ==
    /\ Flushing("draining") /\ NextFile(t)
    /\ ~Disk!Whole(files[t])
    /\ pending' = pending \ {t}
    /\ UNCHANGED <<diskVars, queue, proc, mu, step, attempt, cancelled, accepted, delivered>>

DrainOk(t) ==
    /\ Flushing("draining") /\ NextFile(t) /\ ~cancelled
    /\ Disk!Whole(files[t])
    /\ delivered' = delivered \cup Range(files[t].batch)
    /\ pending' = pending \ {t}
    /\ UNCHANGED <<diskVars, queue, proc, mu, step, attempt, cancelled, accepted>>

\* Mutant: a failed file is skipped instead of ending the drain.
DrainFailedContinues(t, taken) ==
    /\ Flushing("draining") /\ NextFile(t)
    /\ Disk!Whole(files[t])
    /\ taken => ~cancelled
    /\ delivered' = IF taken THEN delivered \cup Range(files[t].batch) ELSE delivered
    /\ pending' = pending \ {t}
    /\ UNCHANGED <<diskVars, queue, proc, mu, step, attempt, cancelled, accepted>>

\* The first failure ends flushBuffer; the files already sent stay as well.
DrainFailed(t, taken) ==
    /\ Flushing("draining") /\ NextFile(t)
    /\ Disk!Whole(files[t])
    /\ taken => ~cancelled
    /\ delivered' = IF taken THEN delivered \cup Range(files[t].batch) ELSE delivered
    /\ Return(mu)
    /\ UNCHANGED <<diskVars, queue, cancelled, accepted>>

DrainClear(kept) ==
    /\ Flushing("draining") /\ pending = {}
    /\ Disk!Clear(kept)
    /\ Return(mu)
    /\ UNCHANGED <<queue, cancelled, accepted, delivered>>

-----------------------------------------------------------------------------
(* The end of a process.                                                   *)

Cancel ==
    /\ running /\ ~cancelled
    /\ Disk!RestartPossible(now)
    /\ cancelled' = TRUE
    /\ UNCHANGED <<diskVars, queue, proc, flushVars, accepted, delivered>>

\* Start's goroutine returns; nothing flushes the queue any more.
LoopReturns ==
    /\ running /\ cancelled /\ proc[Ticker] = "idle"
    /\ proc' = [proc EXCEPT ![Ticker] = "done"]
    /\ UNCHANGED <<diskVars, queue, flushVars, cancelled, accepted, delivered>>

\* The most patient shutdown: the loop has returned and no Send is under way.
Exit ==
    /\ proc[Ticker] = "done"
    /\ \A c \in Collectors : proc[c] = "idle"
    /\ Disk!Crash
    /\ FreshMemory

Crash ==
    /\ \/ Disk!Crash
       \/ /\ Flushing("buffering")
          /\ \E t \in Times : Disk!CrashInWrite(queue, t)
       \/ /\ Flushing("draining") /\ pending = {}
          /\ \E kept \in SUBSET DOMAIN files : Disk!CrashInRemoval(kept)
    /\ FreshMemory

-----------------------------------------------------------------------------
SendStep ==
    \/ \E p \in Procs : Call(p)
    \/ \E c \in Collectors, x \in Points : Send(c, x)
    \/ \E c \in Collectors : SendNothing(c)
    \/ TickerFlush

FlushStep ==
    \/ AttemptOk
    \/ \E taken \in BOOLEAN : AttemptFailed(taken)
    \/ BackoffOver
    \/ BackoffCancelled
    \/ BufferWrite
    \/ \E bad \in SUBSET DOMAIN files : ReadAll(bad)
    \/ \E t \in pending : DrainSkip(t) \/ DrainOk(t)
    \/ \E t \in pending, taken \in BOOLEAN : DrainFailed(t, taken)
    \/ \E kept \in SUBSET DOMAIN files : DrainClear(kept)

Next == NewSender \/ SendStep \/ FlushStep \/ Cancel \/ LoopReturns \/ Exit \/ Crash

Spec == Init /\ [][Next]_senderVars

(* Liveness.  The HTTP client has a timeout and time.After fires, so a     *)
(* flush under way keeps going; a goroutine waiting for sync.Mutex is      *)
(* served after at most a millisecond of losing (its starvation mode); the *)
(* ticker fires while the loop runs.                                       *)
Progress ==
    /\ WF_senderVars(FlushStep)
    /\ \A c \in Collectors :
            SF_senderVars(SendNothing(c) \/ \E x \in Points : Send(c, x))
    /\ WF_senderVars(Call(Ticker)) /\ SF_senderVars(TickerFlush)

LiveSpec == Spec /\ Progress

(* The server is not down for ever: of the attempts made again and again,  *)
(* one succeeds.                                                           *)
ServerRecovers == SF_senderVars(AttemptOk)

-----------------------------------------------------------------------------
TypeOK ==
    /\ Disk!TypeOK
    /\ queue \in Seq(Points)
    /\ proc \in [Procs -> {"idle", "locking", "flushing", "done"}]
    /\ mu \in Procs \cup {NoOne}
    /\ step \in Steps
    /\ attempt \in Nat
    /\ pending \subseteq DOMAIN files
    /\ cancelled \in BOOLEAN
    /\ accepted \subseteq Points /\ delivered \subseteq Points

(* The sender keeps the promise of TelemetryDelivery as long as every      *)
(* buffer file can be opened: whatever the server, the cancellation, a     *)
(* full buffer, a torn file, a failed removal or a crash does, a point is  *)
(* given up only when the process holding it ends.                         *)
Lost == accepted \ (delivered \cup Range(queue) \cup Durable(files))
Delivery == INSTANCE TelemetryDelivery WITH lost <- Lost
KeepsDeliveryPromise == Delivery!Spec

(* A complete file leaves the directory only when the server has all of it *)
(* ("Cleared after successful transmission", docs/SECURITY.md:112).        *)
ClearedAfterTransmission ==
    [][\A t \in DOMAIN files \ DOMAIN files' :
           Disk!Whole(files[t]) => Range(files[t].batch) \subseteq delivered']_senderVars

(* A flush ends: no collector that calls Send waits for ever, neither for  *)
(* the mutex nor in its own flush, with the server down for good.          *)
SendReturns ==
    \A c \in Collectors :
        (proc[c] \in {"locking", "flushing"}) ~> (proc[c] = "idle")

(* With a server that comes back, every point Send took in is delivered    *)
(* unless the process is told to stop or dies first.                       *)
EventuallyDelivered ==
    ServerRecovers =>
        \A x \in Points :
            (x \in Range(queue)) ~> (x \in delivered \/ cancelled \/ ~running)
=============================================================================
