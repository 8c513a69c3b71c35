--------------------------- MODULE AgentServices ---------------------------
(***************************************************************************)
(* The running agent and its shutdown: main and run, of cmd/agent/main.go, *)
(* composed with the scheduler, the policy engine and the health monitor.  *)
(* Steps 1 to 10 of run, AgentLifecycle, are one step here, that may fail. *)
(*                                                                         *)
(* main is in systray.Run; run, the signal handler, the monitor and every  *)
(* collector job have a goroutine each.  They share one context, cancelled *)
(* by the signal handler and by the tray's exit callback.  main waits for  *)
(* the tray only: when it returns, the process is gone with whatever the   *)
(* others were doing.                                                      *)
(***************************************************************************)
EXTENDS Integers, Sequences, FiniteSets

CONSTANTS
    Collectors, Defaults, Hanging, MaxJobs, MaxListed,  \* as in Scheduler
    Policies, Default                                   \* as in PolicyEngine

ASSUME CollectorsAssumption == Defaults \in Seq(Collectors) /\ Hanging \subseteq Collectors
ASSUME BoundsAssumption == MaxJobs \in Nat /\ MaxListed \in Nat
ASSUME DefaultAssumption == Default \notin Policies

VARIABLES
    collectors, jobs, running, stopClosed, wg, stopping, ctxDone, panicked,
    current, published, fetch, reply,
    monitor, monitorClosed, monitorPanic, intervalSet,
    at,      \* the step run is at
    signal,  \* what the signal handler has done
    tray     \* the tray loop that main is in

Sched == INSTANCE Scheduler
Policy == INSTANCE PolicyEngine
Health == INSTANCE HealthMonitor

schedulerVars == <<collectors, jobs, running, stopClosed, wg, stopping, ctxDone, panicked>>
policyVars == <<current, published, fetch, reply>>
monitorVars == <<monitor, monitorClosed, monitorPanic, intervalSet>>
mainVars == <<at, signal, tray>>
servicesVars == <<schedulerVars, policyVars, monitorVars, mainVars>>

Steps == {"starting", "failed", "policy", "firstRefresh", "health", "scheduler", "select", "refresh",
          "stop", "stopping", "stopHealth", "returned"}

Init ==
    /\ Sched!Init /\ Policy!Init /\ Health!Init
    /\ at = "starting" /\ signal = "none" /\ tray = "up"

\* The process goes on: main is in the tray loop and nobody has panicked.
Alive == tray # "gone" /\ ~panicked /\ ~monitorPanic

-----------------------------------------------------------------------------
(* run.                                                                    *)

RunGoes(from, to) ==
    /\ Alive
    /\ at = from /\ at' = to
    /\ UNCHANGED <<signal, tray>>

\* The identity is verified, or run returns an error.
StartUp ==
    /\ RunGoes("starting", "policy") \/ RunGoes("starting", "failed")
    /\ UNCHANGED <<schedulerVars, policyVars, monitorVars>>

\* The first refresh, and that of the loop's ticker.
Refresh ==
    /\ \/ RunGoes("policy", "firstRefresh")
       \/ RunGoes("select", "refresh")
    /\ Policy!Refresh
    /\ UNCHANGED <<schedulerVars, monitorVars>>

RefreshReturns ==
    /\ \/ RunGoes("firstRefresh", "health")
       \/ RunGoes("refresh", "select")
    /\ UNCHANGED <<schedulerVars, monitorVars>>

PolicyUpdated == RefreshReturns /\ Policy!Adopt

\* A refresh that failed is only logged.
RefreshFailed == RefreshReturns /\ Policy!RefreshFails

StartMonitor ==
    /\ RunGoes("health", "scheduler")
    /\ Health!Start
    /\ UNCHANGED <<schedulerVars, policyVars>>

StartScheduler ==
    /\ RunGoes("scheduler", "select")
    /\ Sched!Start
    /\ UNCHANGED <<policyVars, monitorVars>>

SeesCancel ==
    /\ ctxDone
    /\ RunGoes("select", "stop")
    /\ UNCHANGED <<schedulerVars, policyVars, monitorVars>>

StopScheduler ==
    /\ RunGoes("stop", "stopping")
    /\ Sched!Stop
    /\ UNCHANGED <<policyVars, monitorVars>>

SchedulerStopped ==
    /\ RunGoes("stopping", "stopHealth")
    /\ Sched!JobsStopped \/ Sched!StopTimesOut
    /\ UNCHANGED <<policyVars, monitorVars>>

\* Mutant: the loop goes on after the shutdown.
StopMonitorAgain ==
    /\ RunGoes("stopHealth", "stopHealth") \/ RunGoes("stopHealth", "returned")
    /\ Health!Stop
    /\ UNCHANGED <<schedulerVars, policyVars>>

StopMonitor ==
    /\ RunGoes("stopHealth", "returned")
    /\ Health!Stop
    /\ UNCHANGED <<schedulerVars, policyVars>>

Run ==
    \/ StartUp \/ Refresh \/ PolicyUpdated \/ RefreshFailed \/ StartMonitor \/ StartScheduler
    \/ SeesCancel \/ StopScheduler \/ SchedulerStopped \/ StopMonitor

-----------------------------------------------------------------------------
(* The other goroutines.                                                   *)

Cancel == IF ctxDone THEN UNCHANGED schedulerVars ELSE Sched!Cancel

\* The handler takes one signal: it cancels the context, then calls systray.Quit.
Signal ==
    /\ Alive /\ signal = "none"
    /\ signal' = "cancelled"
    /\ Cancel
    /\ UNCHANGED <<policyVars, monitorVars, at, tray>>

Quit == tray' = IF tray = "up" THEN "quitting" ELSE tray

SignalQuits ==
    /\ Alive /\ signal = "cancelled"
    /\ signal' = "quit"
    /\ Quit
    /\ UNCHANGED <<schedulerVars, policyVars, monitorVars, at>>

\* run's goroutine ends the agent after an error.
FailureQuits ==
    /\ Alive /\ at = "failed" /\ at' = "returned"
    /\ Quit
    /\ UNCHANGED <<schedulerVars, policyVars, monitorVars, signal>>

\* Quit in the tray's menu.
QuitClicked ==
    /\ Alive /\ tray = "up"
    /\ Quit
    /\ UNCHANGED <<schedulerVars, policyVars, monitorVars, at, signal>>

\* The tray loop ends and calls main's callback, which cancels.
TrayExits ==
    /\ Alive /\ tray = "quitting"
    /\ tray' = "exited"
    /\ Cancel
    /\ UNCHANGED <<policyVars, monitorVars, at, signal>>

\* Mutant: main waits for every goroutine of the agent.
MainWaitsForJobs ==
    /\ Alive /\ tray = "exited" /\ Sched!Live = {}
    /\ tray' = "gone"
    /\ UNCHANGED <<schedulerVars, policyVars, monitorVars, at, signal>>

\* systray.Run returns, main returns, and the process ends with status 0.
MainReturns ==
    /\ Alive /\ tray = "exited"
    /\ tray' = "gone"
    /\ UNCHANGED <<schedulerVars, policyVars, monitorVars, at, signal>>

ServerAnswers ==
    /\ Alive /\ Policy!Answered
    /\ UNCHANGED <<schedulerVars, monitorVars, mainVars>>

ServerPublishes ==
    /\ Alive /\ \E p \in Policies : Policy!Publish(p)
    /\ UNCHANGED <<schedulerVars, monitorVars, mainVars>>

Monitor ==
    /\ Alive
    /\ Health!NewTicker \/ Health!HeartbeatEnds \/ Health!Tick \/ Health!MonitorReturns
    /\ UNCHANGED <<schedulerVars, policyVars, mainVars>>

Job(j) ==
    /\ Alive
    /\ Sched!Collected(j) \/ Sched!Tick(j) \/ Sched!JobReturns(j)
    /\ UNCHANGED <<policyVars, monitorVars, mainVars>>

Next ==
    \/ Run \/ ServerAnswers \/ ServerPublishes \/ Monitor
    \/ \E j \in DOMAIN jobs : Job(j)
    \/ Signal \/ SignalQuits \/ FailureQuits \/ QuitClicked \/ TrayExits \/ MainReturns

Spec == Init /\ [][Next]_servicesVars

-----------------------------------------------------------------------------
\* A Collect returns, unless its collector hangs.
CollectReturns(j) ==
    /\ j \in DOMAIN jobs /\ jobs[j].at = "collecting" /\ jobs[j].of \notin Hanging
    /\ Job(j)

(* Fairness.  The HTTP client gives up after 30 seconds and Stop after     *)
(* another 30, so run always goes on; its select, the monitor's and the    *)
(* jobs' take a case that is ready again and again.  A Collect returns     *)
(* unless its collector hangs.  Nothing is assumed of the tray here.       *)
Progress ==
    /\ WF_servicesVars(Run)
    /\ SF_servicesVars(SeesCancel)
    /\ WF_servicesVars(Monitor)
    /\ SF_servicesVars(Monitor /\ monitor' = "done")
    /\ WF_servicesVars(SignalQuits) /\ WF_servicesVars(FailureQuits)
    /\ \A j \in 1 .. MaxJobs :
        /\ WF_servicesVars(CollectReturns(j))
        /\ SF_servicesVars(j \in DOMAIN jobs /\ Job(j) /\ jobs'[j].at = "done")

LiveSpec == Spec /\ Progress

\* systray.Quit ends the tray loop, and main is scheduled.
TrayWorks == WF_servicesVars(TrayExits) /\ WF_servicesVars(MainReturns)

\* Of the refreshes made again and again one is answered with a whole policy.
ServerWorks == SF_servicesVars(ServerAnswers) /\ SF_servicesVars(PolicyUpdated)

-----------------------------------------------------------------------------
TypeOK ==
    /\ Sched!TypeOK /\ Policy!TypeOK /\ Health!TypeOK
    /\ at \in Steps
    /\ signal \in {"none", "cancelled", "quit"}
    /\ tray \in {"up", "quitting", "exited", "gone"}

(* The agent never kills itself.  Both Stop methods close their channel    *)
(* unguarded, and two goroutines and the tray can each ask for the         *)
(* shutdown; run still stops each service once.  Only a configuration      *)
(* without heartbeat_interval kills the agent, every time (health.go:49).  *)
NeverPanics == intervalSet => ~panicked /\ ~monitorPanic

(* A cancelled agent winds down by itself, even if the tray never ends:    *)
(* run returns, out of a refresh that hangs and with a collector that      *)
(* hangs too, and the monitor and every other job end.  This holds for a   *)
(* cancellation before the services are started as well.                   *)
WindsDown ==
    ctxDone ~> \/ ~Alive
               \/ /\ at = "returned" /\ monitor \in {"off", "done"}
                  /\ \A j \in Sched!Live : jobs[j].of \in Hanging

(* A signal ends the process, whatever hangs, and so does a start-up that  *)
(* failed: nobody keeps main in a tray loop that can be ended.             *)
SignalEnds == TrayWorks => (signal # "none" \/ at = "failed" ~> ~Alive)

(* A policy that the server settles on becomes the agent's and stays it,   *)
(* after any number of failed refreshes and of outdated answers, the last  *)
(* of which may be adopted after the server has settled, until the         *)
(* shutdown.  That it was the agent's once before is not enough.           *)
PolicyArrives ==
    ServerWorks =>
        \A p \in Policies :
            <>[](published = p) =>
                <>[](current = p \/ ctxDone \/ at = "returned" \/ ~Alive)
=============================================================================
