--------------------------- MODULE Services_proofs ---------------------------
(***************************************************************************)
(* The whole agent, as it runs and as the service it is installed as.      *)
(*                                                                         *)
(* AgentServices, for any collectors and policies: run, its services and   *)
(* the three ways to ask for the end never get out of step, however their  *)
(* steps interleave.                                                       *)
(*                                                                         *)
(* ServiceControl, for each of the three systems: what an administrator    *)
(* removed stays removed.  The two models share no variable, as Execute    *)
(* runs none of the agent.                                                 *)
(***************************************************************************)
EXTENDS AgentServices, ServiceControl, TLAPS

SchedProofs == INSTANCE Scheduler_proofs

-----------------------------------------------------------------------------
(* The steps of run before a service is started and after it was stopped.  *)
BeforeMonitor == {"starting", "failed", "policy", "firstRefresh", "health"}
BeforeScheduler == BeforeMonitor \cup {"scheduler"}
AfterStop == {"stopping", "stopHealth", "returned"}

\* The policy engine has a request under way exactly while run is in Refresh.
FetchInStep == fetch # "idle" <=> at \in {"firstRefresh", "refresh"}

\* The monitor is started at its step, and stopped at the last one only.
MonitorInStep ==
    /\ at \in BeforeMonitor => monitor = "off"
    /\ monitorClosed => at = "returned"
    /\ at = "returned" => monitor = "off" \/ monitorClosed
    /\ monitorPanic => ~intervalSet

(* The scheduler runs from Start to the end of Stop, and stopCh is closed  *)
(* by the one Stop that run gets to.                                       *)
SchedulerInStep ==
    /\ at \in BeforeScheduler => ~running /\ jobs = <<>>
    /\ at \in {"select", "refresh", "stop", "stopping"} => running
    /\ stopping <=> at = "stopping"
    /\ stopClosed => at \in AfterStop
    /\ at \in AfterStop => stopClosed \/ jobs = <<>>
    /\ ~panicked

IInv ==
    /\ SchedProofs!IInv /\ TypeOK
    /\ FetchInStep /\ MonitorInStep /\ SchedulerInStep

-----------------------------------------------------------------------------
(* Sched and SchedProofs are two instances of the same definitions.        *)
LEMMA SameTypeOK == Sched!TypeOK <=> SchedProofs!TypeOK
BY DEF Sched!TypeOK, SchedProofs!TypeOK, Sched!Job, SchedProofs!Job

LEMMA SameInit == Sched!Init <=> SchedProofs!Init
BY DEF Sched!Init, SchedProofs!Init

LEMMA SameCalls ==
    /\ Sched!Start <=> SchedProofs!Start
    /\ Sched!Stop <=> SchedProofs!Stop
    /\ Sched!Cancel <=> SchedProofs!Cancel
    /\ Sched!JobsStopped <=> SchedProofs!JobsStopped
    /\ Sched!StopTimesOut <=> SchedProofs!StopTimesOut
BY DEF Sched!Start, SchedProofs!Start, Sched!StartJobs, SchedProofs!StartJobs,
       Sched!Stop, SchedProofs!Stop, Sched!Unlocked, SchedProofs!Unlocked,
       Sched!Cancel, SchedProofs!Cancel, Sched!JobsStopped, SchedProofs!JobsStopped,
       Sched!StopTimesOut, SchedProofs!StopTimesOut,
       Sched!StopReturns, SchedProofs!StopReturns

LEMMA SameJobs ==
    ASSUME NEW j
    PROVE  /\ Sched!Collected(j) <=> SchedProofs!Collected(j)
           /\ Sched!Tick(j) <=> SchedProofs!Tick(j)
           /\ Sched!JobReturns(j) <=> SchedProofs!JobReturns(j)
BY DEF Sched!Collected, SchedProofs!Collected, Sched!Tick, SchedProofs!Tick,
       Sched!JobReturns, SchedProofs!JobReturns, Sched!Told, SchedProofs!Told,
       Sched!Goes, SchedProofs!Goes

-----------------------------------------------------------------------------
\* What the agent does with its scheduler: it adds and removes no collector.
SchedulerUse ==
    \/ Sched!Start \/ Sched!Stop \/ Sched!Cancel
    \/ Sched!JobsStopped \/ Sched!StopTimesOut
    \/ \E j \in DOMAIN jobs : Sched!Collected(j) \/ Sched!Tick(j) \/ Sched!JobReturns(j)

LEMMA SchedulerStep == [Next]_servicesVars => [SchedulerUse]_schedulerVars
<1> SUFFICES ASSUME [Next]_servicesVars
             PROVE  SchedulerUse \/ UNCHANGED schedulerVars
  OBVIOUS
<1> USE DEF SchedulerUse
<1>1. CASE StartScheduler
  BY <1>1 DEF StartScheduler
<1>2. CASE StopScheduler
  BY <1>2 DEF StopScheduler
<1>3. CASE SchedulerStopped
  BY <1>3 DEF SchedulerStopped
<1>4. CASE Signal \/ TrayExits
  BY <1>4 DEF Signal, TrayExits, Cancel
<1>5. ASSUME NEW j \in DOMAIN jobs, Job(j) PROVE SchedulerUse
  BY <1>5 DEF Job
<1>6. CASE \/ StartUp \/ Refresh \/ PolicyUpdated \/ RefreshFailed \/ StartMonitor
           \/ SeesCancel \/ StopMonitor
  BY <1>6 DEF StartUp, Refresh, PolicyUpdated, RefreshFailed, RefreshReturns,
              StartMonitor, SeesCancel, StopMonitor
<1>7. CASE \/ ServerAnswers \/ ServerPublishes \/ Monitor
           \/ SignalQuits \/ FailureQuits \/ QuitClicked \/ MainReturns
  BY <1>7 DEF ServerAnswers, ServerPublishes, Monitor, SignalQuits, FailureQuits,
              QuitClicked, MainReturns
<1>8. CASE UNCHANGED servicesVars
  BY <1>8 DEF servicesVars
<1> QED BY <1>1, <1>2, <1>3, <1>4, <1>5, <1>6, <1>7, <1>8 DEF Next, Run

LEMMA UseIsAllowed ==
    [SchedulerUse]_schedulerVars =>
        /\ [Sched!Next]_(Sched!schedulerVars)
        /\ [SchedProofs!Next]_(SchedProofs!schedulerVars)
BY SameCalls, SameJobs
DEF SchedulerUse, Sched!Next, Sched!Calls, SchedProofs!Next, SchedProofs!Calls,
    schedulerVars, Sched!schedulerVars, SchedProofs!schedulerVars

-----------------------------------------------------------------------------
(* The rest of the invariant, one action after the other.                  *)
Others ==
    /\ Policy!TypeOK /\ Health!TypeOK
    /\ at \in Steps
    /\ signal \in {"none", "cancelled", "quit"}
    /\ tray \in {"up", "quitting", "exited", "gone"}

InStep == FetchInStep /\ MonitorInStep /\ SchedulerInStep

LEMMA InvParts == IInv <=> SchedProofs!IInv /\ Others /\ InStep
BY SameTypeOK DEF IInv, TypeOK, Others, InStep, SchedProofs!IInv

\* The steps of run that call no service.
LEMMA StartUpInStep == Others /\ InStep /\ StartUp => Others' /\ InStep'
BY DEF StartUp, RunGoes, Others, InStep, FetchInStep, MonitorInStep, SchedulerInStep,
       BeforeMonitor, BeforeScheduler, AfterStop, Steps, schedulerVars, policyVars,
       monitorVars, Policy!TypeOK, Health!TypeOK

LEMMA SeesCancelInStep == Others /\ InStep /\ SeesCancel => Others' /\ InStep'
BY DEF SeesCancel, RunGoes, Others, InStep, FetchInStep, MonitorInStep, SchedulerInStep,
       BeforeMonitor, BeforeScheduler, AfterStop, Steps, schedulerVars, policyVars,
       monitorVars, Policy!TypeOK, Health!TypeOK

\* A refresh: run is in it from its request to the answer or the failure.
LEMMA RefreshInStep == Others /\ InStep /\ Refresh => Others' /\ InStep'
BY DEF Refresh, RunGoes, Policy!Refresh, Others, InStep, FetchInStep, MonitorInStep,
       SchedulerInStep, BeforeMonitor, BeforeScheduler, AfterStop, Steps, schedulerVars,
       monitorVars, Policy!TypeOK, Health!TypeOK

LEMMA RefreshReturnsInStep ==
    Others /\ InStep /\ (PolicyUpdated \/ RefreshFailed) => Others' /\ InStep'
BY DEF PolicyUpdated, RefreshFailed, RefreshReturns, RunGoes, Policy!Adopt,
       Policy!RefreshFails, Others, InStep, FetchInStep, MonitorInStep, SchedulerInStep,
       BeforeMonitor, BeforeScheduler, AfterStop, Steps, schedulerVars, monitorVars,
       Policy!TypeOK, Health!TypeOK

LEMMA StartMonitorInStep == Others /\ InStep /\ StartMonitor => Others' /\ InStep'
BY DEF StartMonitor, RunGoes, Health!Start, Health!Goes, Others, InStep, FetchInStep,
       MonitorInStep, SchedulerInStep, BeforeMonitor, BeforeScheduler, AfterStop, Steps,
       schedulerVars, policyVars, Policy!TypeOK, Health!TypeOK

\* stopCh is still open when run gets here, and at its end nobody comes back.
LEMMA StopMonitorInStep == Others /\ InStep /\ StopMonitor => Others' /\ InStep'
BY DEF StopMonitor, RunGoes, Health!Stop, Others, InStep, FetchInStep, MonitorInStep,
       SchedulerInStep, BeforeMonitor, BeforeScheduler, AfterStop, Steps, schedulerVars,
       policyVars, Policy!TypeOK, Health!TypeOK

LEMMA StartSchedulerInStep == Others /\ InStep /\ StartScheduler => Others' /\ InStep'
BY DEF StartScheduler, RunGoes, Sched!Start, Others, InStep, FetchInStep, MonitorInStep,
       SchedulerInStep, BeforeMonitor, BeforeScheduler, AfterStop, Steps, policyVars,
       monitorVars, Policy!TypeOK, Health!TypeOK

\* run stops a scheduler whose stopCh is open.
LEMMA StopSchedulerInStep ==
    ASSUME stopClosed \in BOOLEAN, Others, InStep, StopScheduler
    PROVE  Others' /\ InStep'
<1>1. at = "stop" /\ at' = "stopping" /\ UNCHANGED <<signal, tray, policyVars, monitorVars>>
  BY DEF StopScheduler, RunGoes
<1>2. stopClosed = FALSE
  BY <1>1 DEF InStep, SchedulerInStep, AfterStop
<1>3. /\ stopClosed' = TRUE /\ stopping' = TRUE /\ panicked' = FALSE
      /\ UNCHANGED <<jobs, running>>
  BY <1>2 DEF StopScheduler, Sched!Stop
<1>4. Others'
  BY <1>1 DEF Others, Steps, policyVars, monitorVars, Policy!TypeOK, Health!TypeOK
<1> QED BY <1>1, <1>3, <1>4 DEF InStep, FetchInStep, MonitorInStep, SchedulerInStep,
    BeforeMonitor, BeforeScheduler, AfterStop, policyVars, monitorVars

LEMMA SchedulerStoppedInStep ==
    Others /\ InStep /\ SchedulerStopped => Others' /\ InStep'
BY DEF SchedulerStopped, RunGoes, Sched!JobsStopped, Sched!StopTimesOut,
       Sched!StopReturns, Others, InStep, FetchInStep, MonitorInStep, SchedulerInStep,
       BeforeMonitor, BeforeScheduler, AfterStop, Steps, policyVars, monitorVars,
       Policy!TypeOK, Health!TypeOK

\* The signal handler and the tray touch the context and the tray only.
LEMMA EndsInStep ==
    Others /\ InStep /\ (Signal \/ SignalQuits \/ QuitClicked \/ TrayExits \/ MainReturns)
        => Others' /\ InStep'
BY DEF Signal, SignalQuits, QuitClicked, TrayExits, MainReturns, Quit, Cancel,
       Sched!Cancel, Others, InStep, FetchInStep, MonitorInStep, SchedulerInStep,
       schedulerVars, policyVars, monitorVars, Policy!TypeOK, Health!TypeOK

LEMMA FailureInStep == Others /\ InStep /\ FailureQuits => Others' /\ InStep'
BY DEF FailureQuits, Quit, Others, InStep, FetchInStep, MonitorInStep, SchedulerInStep,
       BeforeMonitor, BeforeScheduler, AfterStop, Steps, schedulerVars, policyVars,
       monitorVars, Policy!TypeOK, Health!TypeOK

LEMMA ServerInStep ==
    Others /\ InStep /\ (ServerAnswers \/ ServerPublishes) => Others' /\ InStep'
BY DEF ServerAnswers, ServerPublishes, Policy!Answered, Policy!Publish, Others, InStep,
       FetchInStep, MonitorInStep, SchedulerInStep, schedulerVars, monitorVars, mainVars,
       Policy!TypeOK, Health!TypeOK

\* The only panic of the monitor is that of its ticker.
LEMMA MonitorStepInStep == Others /\ InStep /\ Monitor => Others' /\ InStep'
<1> SUFFICES ASSUME Others, InStep, Monitor PROVE Others' /\ InStep'
  OBVIOUS
<1>1. /\ UNCHANGED <<schedulerVars, policyVars, mainVars, monitorClosed, intervalSet>>
      /\ monitor # "off" /\ monitor' \in {"beating", "waiting", "done"}
      /\ monitorPanic' = monitorPanic \/ monitorPanic' = ~intervalSet
  BY DEF Monitor, Health!NewTicker, Health!HeartbeatEnds, Health!Tick,
         Health!MonitorReturns, Health!Goes
<1>2. monitorPanic \in BOOLEAN /\ intervalSet \in BOOLEAN
  BY DEF Others, Health!TypeOK
<1>3. monitorPanic' \in BOOLEAN /\ (monitorPanic' => ~intervalSet)
  <2>1. monitorPanic => ~intervalSet
    BY DEF InStep, MonitorInStep
  <2>2. CASE monitorPanic' = monitorPanic
    BY <1>2, <2>1, <2>2
  <2>3. CASE monitorPanic' = ~intervalSet
    BY <1>2, <2>3
  <2> QED BY <1>1, <2>2, <2>3
<1>4. Others'
  BY <1>1, <1>3 DEF Others, policyVars, mainVars, Policy!TypeOK, Health!TypeOK
<1> QED BY <1>1, <1>3, <1>4 DEF InStep, FetchInStep, MonitorInStep, SchedulerInStep,
    schedulerVars, policyVars, mainVars

\* A job that takes a step is one that Start started.
LEMMA JobInStep ==
    ASSUME Others, InStep, NEW j \in DOMAIN jobs, Job(j)
    PROVE  Others' /\ InStep'
<1>1. jobs # <<>>
  OBVIOUS
<1>2. UNCHANGED <<running, stopClosed, stopping, panicked>>
  BY DEF Job, Sched!Collected, Sched!Tick, Sched!JobReturns, Sched!Goes
<1>3. UNCHANGED <<policyVars, monitorVars, mainVars>>
  BY DEF Job
<1> QED BY <1>1, <1>2, <1>3 DEF Others, InStep, FetchInStep, MonitorInStep,
    SchedulerInStep, policyVars, monitorVars, mainVars, Policy!TypeOK, Health!TypeOK

-----------------------------------------------------------------------------
LEMMA InitInv == Init => IInv
<1> SUFFICES ASSUME Init PROVE IInv
  OBVIOUS
<1>1. SchedProofs!IInv
  BY SameInit, SchedProofs!InitInv, CollectorsAssumption, BoundsAssumption DEF Init
<1>2. Others /\ InStep
  BY DEF Init, Sched!Init, Policy!Init, Health!Init, Others, InStep, FetchInStep,
         MonitorInStep, SchedulerInStep, BeforeMonitor, BeforeScheduler, AfterStop, Steps,
         Policy!TypeOK, Health!TypeOK
<1> QED BY <1>1, <1>2, InvParts

LEMMA NextInv == IInv /\ [Next]_servicesVars => IInv'
<1> SUFFICES ASSUME IInv, [Next]_servicesVars PROVE IInv'
  OBVIOUS
<1>1. SchedProofs!IInv /\ Others /\ InStep /\ stopClosed \in BOOLEAN
  BY InvParts DEF SchedProofs!IInv, SchedProofs!TypeOK
<1>2. SchedProofs!IInv'
  BY <1>1, SchedulerStep, UseIsAllowed, SchedProofs!NextInv, CollectorsAssumption,
     BoundsAssumption
<1>3. Others' /\ InStep'
  <2>1. CASE Run
    BY <1>1, <2>1, StartUpInStep, SeesCancelInStep, RefreshInStep, RefreshReturnsInStep,
       StartMonitorInStep, StopMonitorInStep, StartSchedulerInStep, StopSchedulerInStep,
       SchedulerStoppedInStep DEF Run
  <2>2. CASE \E j \in DOMAIN jobs : Job(j)
    BY <1>1, <2>2, JobInStep
  <2>3. CASE UNCHANGED servicesVars
    BY <1>1, <2>3 DEF servicesVars, schedulerVars, policyVars, monitorVars, mainVars,
       Others, InStep, FetchInStep, MonitorInStep, SchedulerInStep, Policy!TypeOK,
       Health!TypeOK
  <2> QED BY <1>1, <2>1, <2>2, <2>3, EndsInStep, FailureInStep, ServerInStep,
             MonitorStepInStep DEF Next
<1>4. (SchedProofs!IInv /\ Others /\ InStep => IInv)'
  BY InvParts, PTL
<1> QED BY <1>2, <1>3, <1>4

LEMMA ServicesInvariant == Spec => []IInv
BY InitInv, NextInv, PTL DEF Spec

-----------------------------------------------------------------------------
(* The agent keeps its types, and with it the scheduler, the policy engine *)
(* and the monitor that it drives: its wait group never goes below zero,   *)
(* and a policy it adopts is one that the server published.                *)
THEOREM TypeCorrect == Spec => []TypeOK
<1>1. IInv => TypeOK
  BY DEF IInv
<1> QED BY <1>1, ServicesInvariant, PTL

(* However a signal, the tray and a failed start-up come together, no      *)
(* stopCh is closed a second time (scheduler.go:140, health.go:71): only a *)
(* missing heartbeat_interval kills the agent (health.go:49).              *)
THEOREM NoPanic == Spec => []NeverPanics
<1>1. IInv => NeverPanics
  BY DEF IInv, MonitorInStep, SchedulerInStep, NeverPanics
<1> QED BY <1>1, ServicesInvariant, PTL

(* The agent uses its scheduler as Scheduler says it may be used: what is  *)
(* proved of the scheduler by itself holds of it in the agent.             *)
THEOREM UsesScheduler == Spec => Sched!Spec
<1>1. Init => Sched!Init
  BY DEF Init
<1>2. [Next]_servicesVars => [Sched!Next]_(Sched!schedulerVars)
  BY SchedulerStep, UseIsAllowed
<1> QED BY <1>1, <1>2, PTL DEF Spec, Sched!Spec

(* Until the shutdown, each collector of the running agent has a goroutine *)
(* that collects for it, whatever the policy engine and the monitor do.    *)
THEOREM AgentCollects == Spec => []Sched!ListedCollects
<1>1. SchedProofs!IInv => Sched!ListedCollects
  BY DEF SchedProofs!IInv, SchedProofs!ListedCollects, Sched!ListedCollects,
         SchedProofs!Live, Sched!Live, SchedProofs!Cardinality, Sched!Cardinality
<1>2. IInv => Sched!ListedCollects
  BY <1>1 DEF IInv
<1> QED BY <1>2, ServicesInvariant, PTL

(* run never calls a service in a state in which the call does nothing or  *)
(* another call is under way: Start of a running scheduler, Stop of one    *)
(* that does not run and a second request for the policy are not reached,  *)
(* so no guard of the services holds run up.                               *)
CallsAreTaken ==
    /\ at \in {"policy", "select"} => fetch = "idle"
    /\ at = "health" => monitor = "off"
    /\ at = "scheduler" => Sched!Unlocked /\ ~running
    /\ at = "stop" => Sched!Unlocked /\ running /\ ~stopClosed
    /\ at = "stopping" => stopping

THEOREM RunFindsItsServices == Spec => []CallsAreTaken
<1>1. IInv => CallsAreTaken
  BY DEF IInv, FetchInStep, MonitorInStep, SchedulerInStep, BeforeMonitor,
         BeforeScheduler, AfterStop, CallsAreTaken, Sched!Unlocked
<1> QED BY <1>1, ServicesInvariant, PTL

(* When run has returned, whatever it had started was told to stop: each   *)
(* goroutine that still lives ends at its next select, also after an error *)
(* or a Stop that timed out.                                               *)
NobodyForgotten ==
    at = "returned" =>
        /\ monitor \notin {"off", "done"} => monitorClosed
        /\ \A j \in Sched!Live : Sched!Told(j)

THEOREM RunToldEverybody == Spec => []NobodyForgotten
<1>1. IInv => NobodyForgotten
  BY DEF IInv, MonitorInStep, SchedulerInStep, AfterStop, NobodyForgotten, Sched!Live,
         Sched!Told
<1> QED BY <1>1, ServicesInvariant, PTL

-----------------------------------------------------------------------------
(* ServiceControl.  A removal has taken the unit away and, but for a       *)
(* launchctl unload that failed, the manager has forgotten it; nobody can  *)
(* bring it back between the steps of the removal.                         *)
RemovedIsGone ==
    outcome = "removed" =>
        step = "idle" /\ unit = "none" /\ (known => platform = "macos")

ServiceInv ==
    /\ ServiceTypeOK
    /\ request # "none" => platform = "windows"
    /\ step \in {"reload", "load", "enable", "disable", "remove", "forget"} =>
            platform # "windows"
    /\ step = "forget" => unit = "none"
    /\ RemovedIsGone

LEMMA ServiceInitInv == ServiceInit => ServiceInv
BY DEF ServiceInit, ServiceInv, ServiceTypeOK, RemovedIsGone

LEMMA InstallInv ==
    ServiceInv /\ (InstallUnit \/ InstallUnitFails \/ ReloadNew \/ Enable \/ Load \/ InstallFails)
        => ServiceInv'
BY DEF ServiceInv, ServiceTypeOK, RemovedIsGone, InstallUnit, InstallUnitFails, ReloadNew,
       Enable, Load, InstallFails, On, Goes, Returns, Fails, Up, agentVars

\* Linux and macOS: the unit goes before the manager is told to forget it.
LEMMA UninstallInv ==
    ServiceInv /\ (StopUnit \/ Disable \/ Unload \/ Remove \/ Forget) => ServiceInv'
BY DEF ServiceInv, ServiceTypeOK, RemovedIsGone, StopUnit, Disable, Unload, Remove, Forget,
       On, Goes, Returns, agentVars

LEMMA UninstallWindowsInv ==
    ServiceInv /\ (QueryStopped \/ RequestStop \/ Delete \/ UninstallFails) => ServiceInv'
BY DEF ServiceInv, ServiceTypeOK, RemovedIsGone, QueryStopped, RequestStop, Delete,
       UninstallFails, Accepts, On, Goes, Returns, Fails, agentVars

\* The manager does not start what is neither known nor there.
LEMMA ManagerInv == ServiceInv /\ (Start \/ Stop \/ Ask \/ Reboot \/ Heal) => ServiceInv'
<1> USE DEF ServiceInv, ServiceTypeOK, RemovedIsGone, agentVars
<1>1. ServiceInv /\ Start => ServiceInv'
  BY DEF Start, AgentGoes, Up
<1>2. ServiceInv /\ Stop => ServiceInv'
  BY DEF Stop, AgentGoes
<1>3. ServiceInv /\ Ask => ServiceInv'
  BY DEF Ask, Accepts
<1>4. ServiceInv /\ Reboot => ServiceInv'
  BY DEF Reboot, Up
<1>5. ASSUME ServiceInv, Heal PROVE ServiceInv'
  <2>1. faulty' \in BOOLEAN
    BY <1>5, Zenon DEF Heal
  <2>2. UNCHANGED <<platform, unit, known, enabled, agent, request, step, outcome>>
    BY <1>5 DEF Heal
  <2> QED BY <1>5, <2>1, <2>2
<1> QED BY <1>1, <1>2, <1>3, <1>4, <1>5

LEMMA ExecuteInv == ServiceInv /\ Execute => ServiceInv'
BY DEF ServiceInv, ServiceTypeOK, RemovedIsGone, Execute, Runs, Exits, Takes, AgentGoes

LEMMA ServiceNextInv == ServiceInv /\ [ServiceNext]_serviceVars => ServiceInv'
<1>1. ServiceInv /\ UNCHANGED serviceVars => ServiceInv'
  BY DEF serviceVars, ServiceInv, ServiceTypeOK, RemovedIsGone
<1> QED BY <1>1, InstallInv, UninstallInv, UninstallWindowsInv, ManagerInv, ExecuteInv
        DEF ServiceNext, Call

LEMMA ServiceInvariant == ServiceSpec => []ServiceInv
BY ServiceInitInv, ServiceNextInv, PTL DEF ServiceSpec

(* The service's state keeps its types, and a request that the manager let *)
(* through is there only while Execute is in its loop to take it.          *)
THEOREM ServiceTypeCorrect == ServiceSpec => []ServiceTypeOK
<1>1. ServiceInv => ServiceTypeOK
  BY DEF ServiceInv
<1> QED BY <1>1, ServiceInvariant, PTL

(* An agent whose removal succeeded is not started again, by nobody and by *)
(* no reboot, but for the launchctl unload that failed unseen (linux.go:82, *)
(* darwin.go:89).                                                          *)
THEOREM StaysRemoved == ServiceSpec => RemovedStaysDown
<1>1. ServiceInv /\ [ServiceNext]_serviceVars =>
        [outcome = "removed" /\ agent = "off" =>
            agent' = "off" \/ (platform = "macos" /\ known)]_serviceVars
  <2> SUFFICES ASSUME ServiceInv, ServiceNext, outcome = "removed", agent = "off"
               PROVE  agent' = "off" \/ (platform = "macos" /\ known)
    OBVIOUS
  <2>1. step = "idle" /\ unit = "none" /\ (known => platform = "macos")
    BY DEF ServiceInv, RemovedIsGone
  <2>2. CASE Call
    BY <2>1, <2>2 DEF Call, InstallUnit, InstallUnitFails, ReloadNew, Enable, Load,
       InstallFails, StopUnit, Disable, Unload, Remove, Forget, QueryStopped, RequestStop,
       Delete, UninstallFails, On, Goes, Returns, Fails, Accepts, agentVars
  <2>3. CASE Start \/ Reboot
    BY <2>1, <2>3 DEF Start, Reboot, AgentGoes
  <2>4. CASE Stop \/ Ask \/ Execute \/ Heal
    BY <2>4 DEF Stop, Ask, Execute, Runs, Exits, Takes, Heal, AgentGoes, agentVars
  <2> QED BY <2>2, <2>3, <2>4 DEF ServiceNext
<1> QED BY <1>1, ServiceInvariant, PTL DEF ServiceSpec, RemovedStaysDown
=============================================================================
