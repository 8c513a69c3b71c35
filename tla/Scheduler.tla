----------------------------- MODULE Scheduler -----------------------------
(***************************************************************************)
(* The scheduler of the collectors: internal/scheduler/scheduler.go.       *)
(*                                                                         *)
(* Start, Stop, AddCollector and RemoveCollector take Scheduler.mu, and    *)
(* come in any order.  Every collector has a goroutine, its job, that      *)
(* collects at once and then on a ticker until stopCh is closed or its     *)
(* context is done.  Stop keeps the mutex while it waits for the jobs, for *)
(* 30 seconds at most.                                                     *)
(***************************************************************************)
EXTENDS Integers, Sequences, FiniteSets, SequencesExt

CONSTANTS
    Collectors,   \* the collectors there are
    Defaults,     \* those of NewDefaultCollectors, in their order
    Hanging,      \* those whose Collect may ignore its context and not return
    MaxJobs,      \* bound: goroutines started in one behaviour
    MaxListed     \* bound: collectors in the list

ASSUME CollectorsAssumption == Defaults \in Seq(Collectors)
ASSUME HangingAssumption == Hanging \subseteq Collectors
ASSUME BoundsAssumption == MaxJobs \in Nat /\ MaxListed \in Nat

VARIABLES
    collectors,  \* Scheduler.collectors
    jobs,        \* the goroutines, in the order they were started
    running,     \* Scheduler.running
    stopClosed,  \* stopCh is closed
    wg,          \* the counter of Scheduler.wg
    stopping,    \* a Stop is waiting, with the mutex
    ctxDone,     \* the context given to Start is done
    panicked     \* the process died of a panic

schedulerVars ==
    <<collectors, jobs, running, stopClosed, wg, stopping, ctxDone, panicked>>

\* A job is in Collect, in the select of its loop, or has returned.
Job == [of : Collectors, ctx : {"agent", "background"},
        at : {"collecting", "selecting", "done"}]

Live == {j \in DOMAIN jobs : jobs[j].at # "done"}

Init ==
    /\ collectors = Defaults
    /\ jobs = <<>> /\ wg = 0
    /\ running = FALSE /\ stopClosed = FALSE /\ stopping = FALSE
    /\ ctxDone = FALSE /\ panicked = FALSE

-----------------------------------------------------------------------------
(* The calls.  Between them nobody holds the mutex.                        *)

Unlocked == ~stopping /\ ~panicked

\* Mutant: wg.Add is left to the goroutine, which may not have got there yet.
StartUncounted(cs, ctx) ==
    /\ jobs' = jobs \o [i \in DOMAIN cs |->
                            [of |-> cs[i], ctx |-> ctx, at |-> "collecting"]]
    /\ Len(jobs') <= MaxJobs
    /\ UNCHANGED wg

StartJobs(cs, ctx) ==
    /\ jobs' = jobs \o [i \in DOMAIN cs |->
                            [of |-> cs[i], ctx |-> ctx, at |-> "collecting"]]
    /\ Len(jobs') <= MaxJobs
    /\ wg' = wg + Len(cs)

\* A Start of a running scheduler changes nothing.
Start ==
    /\ Unlocked /\ ~running
    /\ running' = TRUE
    /\ StartJobs(collectors, "agent")
    /\ UNCHANGED <<collectors, stopClosed, stopping, ctxDone, panicked>>

\* Mutant: a running scheduler does not start the new collector.
AddWithoutJob(c) ==
    /\ Unlocked
    /\ collectors' = Append(collectors, c) /\ Len(collectors') <= MaxListed
    /\ StartJobs(IF running THEN <<>> ELSE <<c>>, "background")
    /\ UNCHANGED <<running, stopClosed, stopping, ctxDone, panicked>>

(* The job of a collector added to a running scheduler gets a context of   *)
(* its own that is never done.                                             *)
AddCollector(c) ==
    /\ Unlocked
    /\ collectors' = Append(collectors, c) /\ Len(collectors') <= MaxListed
    /\ StartJobs(IF running THEN <<c>> ELSE <<>>, "background")
    /\ UNCHANGED <<running, stopClosed, stopping, ctxDone, panicked>>

\* The first collector of that name leaves the list; its job goes on.
RemoveCollector(c) ==
    /\ Unlocked /\ Contains(collectors, c)
    /\ collectors' = RemoveFirst(collectors, c)
    /\ UNCHANGED <<jobs, running, stopClosed, wg, stopping, ctxDone, panicked>>

(* A Stop of a scheduler that does not run changes nothing.  stopCh is     *)
(* never made again, and closing it a second time panics.                  *)
Stop ==
    /\ Unlocked /\ running
    /\ stopClosed' = TRUE
    /\ panicked' = stopClosed
    /\ stopping' = ~stopClosed
    /\ UNCHANGED <<collectors, jobs, running, wg, ctxDone>>

StopReturns ==
    /\ stopping
    /\ stopping' = FALSE /\ running' = FALSE
    /\ UNCHANGED <<collectors, jobs, stopClosed, wg, ctxDone, panicked>>

JobsStopped == wg = 0 /\ StopReturns

\* Mutant: Stop waits for the jobs as long as it takes.
StopWaitsOn == wg = 0 /\ StopReturns

StopTimesOut == StopReturns

-----------------------------------------------------------------------------
(* The jobs.                                                               *)

Goes(j, from, to) ==
    /\ ~panicked
    /\ jobs[j].at = from
    /\ jobs' = [jobs EXCEPT ![j].at = to]
    /\ UNCHANGED <<collectors, running, stopClosed, stopping, ctxDone, panicked>>

\* Collect returns, with data that is logged or with an error.
Collected(j) == Goes(j, "collecting", "selecting") /\ UNCHANGED wg

\* Mutant: a job looks at its context only.
ToldByContext(j) == ctxDone /\ jobs[j].ctx = "agent"

Told(j) == stopClosed \/ (ctxDone /\ jobs[j].ctx = "agent")

\* A select with several ready cases takes any of them, the ticker's too.
Tick(j) == Goes(j, "selecting", "collecting") /\ UNCHANGED wg

JobReturns(j) ==
    /\ Told(j)
    /\ Goes(j, "selecting", "done")
    /\ wg' = wg - 1

Cancel ==
    /\ ~ctxDone /\ ~panicked
    /\ ctxDone' = TRUE
    /\ UNCHANGED <<collectors, jobs, running, stopClosed, wg, stopping, panicked>>

-----------------------------------------------------------------------------
Calls ==
    \/ Start \/ Stop \/ Cancel
    \/ \E c \in Collectors : AddCollector(c) \/ RemoveCollector(c)

Next ==
    \/ Calls
    \/ JobsStopped \/ StopTimesOut
    \/ \E j \in DOMAIN jobs : Collected(j) \/ Tick(j) \/ JobReturns(j)

Spec == Init /\ [][Next]_schedulerVars

(* The timer of Stop fires.  A Collect returns unless its collector hangs. *)
(* A select does not pass over a ready case for ever: it picks at random.  *)
JobFairness(j) ==
    /\ WF_schedulerVars(j \in DOMAIN jobs /\ jobs[j].of \notin Hanging /\ Collected(j))
    /\ SF_schedulerVars(j \in DOMAIN jobs /\ JobReturns(j))

LiveSpec ==
    /\ Spec
    /\ WF_schedulerVars(StopTimesOut)
    /\ \A j \in 1 .. MaxJobs : JobFairness(j)

-----------------------------------------------------------------------------
TypeOK ==
    /\ collectors \in Seq(Collectors)
    /\ jobs \in Seq(Job)
    /\ wg \in Nat
    /\ {running, stopClosed, stopping, ctxDone, panicked} \subseteq BOOLEAN

(* A running scheduler collects: each collector of the list has a job of   *)
(* its own, the ones added while it runs too, until it is told to stop.    *)
ListedCollects ==
    running /\ ~stopClosed /\ ~ctxDone =>
        \A c \in Collectors :
            Cardinality({i \in DOMAIN collectors : collectors[i] = c}) <=
            Cardinality({j \in Live : jobs[j].of = c})

(* Stop gives the mutex back although a collector hangs.                   *)
StopEnds == stopping ~> ~stopping

(* After a Stop every job returns, also one that Stop no longer waits for, *)
(* that was removed from the list or that has a context of its own; only a *)
(* collector that hangs keeps its goroutine.                               *)
JobsEnd ==
    \A j \in 1 .. MaxJobs :
        (stopClosed /\ j \in DOMAIN jobs /\ jobs[j].of \notin Hanging) ~>
            (panicked \/ j \in DOMAIN jobs \ Live)
=============================================================================
