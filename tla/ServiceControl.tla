--------------------------- MODULE ServiceControl ---------------------------
(***************************************************************************)
(* The agent as a service: internal/service/{windows,linux,darwin}.go.     *)
(*                                                                         *)
(* An administrator installs and removes the service by a sequence of      *)
(* calls to the system's service manager, each of which may fail; others   *)
(* start and stop the agent meanwhile, and the machine may be rebooted.    *)
(* On Windows the agent's Execute answers the manager's requests.          *)
(***************************************************************************)
EXTENDS Integers

CONSTANT Platforms

ASSUME PlatformsAssumption == Platforms \subseteq {"windows", "linux", "macos"}

VARIABLES
    platform,
    unit,     \* the unit file, the plist, or the manager's entry on Windows
    known,    \* the manager has loaded it
    enabled,  \* its set-up is complete: enabled, loaded, recovery actions set
    agent,    \* the agent's process, as the manager sees it
    request,  \* the request Execute has not taken yet
    step,     \* the step that the administrator's call is at
    outcome,  \* how the last install or uninstall ended
    faulty    \* calls to the manager still fail

serviceVars == <<platform, unit, known, enabled, agent, request, step, outcome, faulty>>
agentVars == <<agent, request>>

ServiceInit ==
    /\ platform \in Platforms
    /\ unit = "none" /\ known = FALSE /\ enabled = FALSE
    /\ agent = "off" /\ request = "none"
    /\ step = "idle" /\ outcome = "none" /\ faulty = TRUE

Up == IF platform = "windows" THEN "starting" ELSE "running"

-----------------------------------------------------------------------------
(* The calls of the administrator.                                         *)

Goes(from, to) ==
    /\ step = from /\ step' = to
    /\ UNCHANGED <<platform, faulty>>

On(os, from, to) == platform = os /\ Goes(from, to) /\ outcome' = "pending"

Returns(from, result) == Goes(from, "idle") /\ outcome' = result

Fails(from) == Returns(from, "failed") /\ UNCHANGED <<unit, known, enabled, agentVars>>

(* Install refuses what is there already.  A write that fails may leave a  *)
(* part of the unit.  Windows keeps the entry of a removed service until   *)
(* its process has ended.                                                  *)
InstallUnit ==
    /\ unit = "none"
    /\ \/ On("linux", "idle", "reload") /\ UNCHANGED <<known, enabled>>
       \/ On("macos", "idle", "load") /\ UNCHANGED <<known, enabled>>
       \/ /\ agent = "off"
          /\ On("windows", "idle", "recovery")
          /\ known' = TRUE /\ UNCHANGED enabled
    /\ unit' = "whole"
    /\ UNCHANGED agentVars

InstallUnitFails ==
    /\ faulty /\ unit = "none" /\ platform # "windows"
    /\ Returns("idle", "failed")
    /\ unit' \in {"none", "torn"}
    /\ UNCHANGED <<known, enabled, agentVars>>

ReloadNew ==
    /\ On("linux", "reload", "enable")
    /\ known' = TRUE
    /\ UNCHANGED <<unit, enabled, agentVars>>

\* The last step: systemctl enable, or SetRecoveryActions.
Enable ==
    /\ step \in {"enable", "recovery"}
    /\ Returns(step, "installed")
    /\ enabled' = TRUE
    /\ UNCHANGED <<unit, known, agentVars>>

\* The plist has RunAtLoad.  What is loaded already cannot be loaded.
Load ==
    /\ ~known
    /\ Returns("load", "installed")
    /\ known' = TRUE /\ enabled' = TRUE /\ agent' = Up
    /\ UNCHANGED <<unit, request>>

InstallFails ==
    \/ faulty /\ (Fails("reload") \/ Fails("enable") \/ Fails("recovery"))
    \/ (faulty \/ known) /\ Fails("load")

\* systemctl knows the service, or its running process.
StopWorks == known \/ unit = "whole" \/ agent # "off"

\* Mutant: Uninstall gives up if the service cannot be stopped.
StopUnitChecked ==
    \/ /\ StopWorks /\ On("linux", "idle", "disable")
       /\ agent' = "off"
       /\ UNCHANGED <<unit, known, enabled, request>>
    \/ ~StopWorks /\ platform = "linux" /\ Fails("idle")

\* The error of systemctl stop is not looked at.
StopUnit ==
    /\ On("linux", "idle", "disable")
    /\ agent' = "off" \/ ((faulty \/ ~StopWorks) /\ UNCHANGED agent)
    /\ UNCHANGED <<unit, known, enabled, request>>

\* Nor is that of disable, which needs the unit.
Disable ==
    /\ On("linux", "disable", "remove")
    /\ enabled' = FALSE \/ ((faulty \/ unit # "whole") /\ UNCHANGED enabled)
    /\ UNCHANGED <<unit, known, agentVars>>

\* Nor that of launchctl unload, which needs the plist.
Unload ==
    /\ On("macos", "idle", "remove")
    /\ \/ known' = FALSE /\ enabled' = FALSE /\ agent' = "off"
       \/ (faulty \/ unit # "whole") /\ UNCHANGED <<known, enabled, agent>>
    /\ UNCHANGED <<unit, request>>

\* A unit that is not there counts as removed.
Remove ==
    /\ \/ On("linux", "remove", "forget")
       \/ platform = "macos" /\ Returns("remove", "removed")
    /\ unit' = "none"
    /\ UNCHANGED <<known, enabled, agentVars>>

\* Mutant: systemd is not told.
ForgetLeftOut ==
    /\ Returns("forget", "removed")
    /\ UNCHANGED <<unit, known, enabled, agentVars>>

Forget ==
    /\ Returns("forget", "removed")
    /\ known' = FALSE
    /\ UNCHANGED <<unit, enabled, agentVars>>

\* Mutant: every status says that requests are accepted.
AcceptsAlways == agent # "off" /\ request = "none"

(* Windows: a stopped service is deleted at once; another one is asked to  *)
(* stop, if it can be asked, and is looked at for 30 seconds.              *)
Accepts == agent \in {"running", "paused"} /\ request = "none"

QueryStopped ==
    /\ agent = "off"
    /\ (unit = "whole" /\ On("windows", "idle", "delete")) \/ On("windows", "stopping", "delete")
    /\ UNCHANGED <<unit, known, enabled, agentVars>>

RequestStop ==
    /\ Accepts
    /\ On("windows", "idle", "stopping")
    /\ request' = "stop"
    /\ UNCHANGED <<unit, known, enabled, agent>>

(* A service that somebody started again goes with its process, and cannot *)
(* be deleted a second time.                                               *)
Delete ==
    /\ unit = "whole"
    /\ Returns("delete", "removed")
    /\ unit' = "none" /\ known' = FALSE /\ enabled' = FALSE
    /\ UNCHANGED agentVars

UninstallFails ==
    \/ faulty /\ Fails("forget")
    \/ (faulty \/ unit = "none") /\ Fails("delete")
    \/ faulty /\ unit # "none" /\ Fails("remove")
    \/ agent # "off" /\ Fails("stopping")

Call ==
    \/ InstallUnit \/ InstallUnitFails \/ ReloadNew \/ Enable \/ Load \/ InstallFails
    \/ StopUnit \/ Disable \/ Unload \/ Remove \/ Forget
    \/ QueryStopped \/ RequestStop \/ Delete \/ UninstallFails

-----------------------------------------------------------------------------
(* The agent under its manager.                                            *)

AgentGoes(from, to) ==
    /\ agent \in from /\ agent' = to
    /\ UNCHANGED <<platform, unit, enabled, step, outcome, faulty>>

\* systemd reads a unit it does not know when it is asked to start it.
Start ==
    /\ known \/ (platform = "linux" /\ unit # "none")
    /\ AgentGoes({"off"}, Up)
    /\ known' = TRUE
    /\ UNCHANGED request

Stop == platform # "windows" /\ AgentGoes({"running"}, "off") /\ UNCHANGED <<known, request>>

\* From the services console.
Ask ==
    /\ platform = "windows" /\ Accepts
    /\ request' \in {"stop", "pause", "continue"}
    /\ UNCHANGED <<platform, unit, known, enabled, agent, step, outcome, faulty>>

(* Execute reports each change of its state, and accepts requests only in  *)
(* its loop.  It runs nothing but this loop.                               *)
Runs == AgentGoes({"starting"}, "running") /\ UNCHANGED <<known, request>>

Takes(req, to) ==
    /\ request = req /\ request' = "none"
    /\ AgentGoes({"running", "paused"}, to)
    /\ UNCHANGED known

Exits == AgentGoes({"stopping"}, "off") /\ UNCHANGED <<known, request>>

Execute ==
    \/ Runs \/ Exits
    \/ Takes("stop", "stopping") \/ Takes("pause", "paused") \/ Takes("continue", "running")

\* At a boot the manager loads what is there and starts what is set to.
Reboot ==
    /\ faulty
    /\ step' = "idle" /\ outcome' = IF step = "idle" THEN outcome ELSE "failed"
    /\ known' = (unit = "whole")
    /\ agent' = IF unit = "whole" /\ (enabled \/ platform # "linux") THEN Up ELSE "off"
    /\ request' = "none"
    /\ UNCHANGED <<platform, unit, enabled, faulty>>

\* From here on nothing fails any more.
Heal ==
    /\ faulty /\ faulty' = FALSE
    /\ UNCHANGED <<platform, unit, known, enabled, agentVars, step, outcome>>

-----------------------------------------------------------------------------
ServiceNext == Call \/ Start \/ Stop \/ Ask \/ Execute \/ Reboot \/ Heal

ServiceSpec == ServiceInit /\ [][ServiceNext]_serviceVars

(* An administrator who was not successful tries both ways again and       *)
(* again, each call ends, Execute goes on, and not every wait for it is    *)
(* too short.                                                              *)
ServiceLiveSpec ==
    /\ ServiceSpec
    /\ WF_serviceVars(Execute) /\ WF_serviceVars(step # "idle" /\ Call)
    /\ SF_serviceVars(InstallUnit)
    /\ SF_serviceVars(StopUnit \/ Unload)
    /\ SF_serviceVars(QueryStopped) /\ SF_serviceVars(RequestStop)

-----------------------------------------------------------------------------
\* A request that the manager let through finds Execute in its loop.
ServiceTypeOK ==
    /\ platform \in Platforms
    /\ unit \in {"none", "torn", "whole"}
    /\ {known, enabled, faulty} \subseteq BOOLEAN
    /\ agent \in {"off", "starting", "running", "paused", "stopping"}
    /\ request # "none" => agent \in {"running", "paused"}
    /\ request \in {"none", "stop", "pause", "continue"}
    /\ step \in {"idle", "reload", "load", "recovery", "enable", "disable", "remove",
                 "forget", "stopping", "delete"}
    /\ outcome \in {"none", "pending", "failed", "installed", "removed"}

(* "Clean install/uninstall process" (docs/SECURITY.md:28): an agent whose *)
(* removal succeeded is not started again, not by a reboot either, though  *)
(* failed stops and disables are ignored (linux.go:82).  Where launchctl   *)
(* unload failed, launchd can start it until the next boot.                *)
RemovedStaysDown ==
    [][outcome = "removed" /\ agent = "off" =>
        agent' = "off" \/ (platform = "macos" /\ known)]_serviceVars

(* Wherever installs and uninstalls failed before, repeating the two leads *)
(* to an installed service once nothing fails any more: what a failed      *)
(* install leaves is refused by the next one (linux.go:18), but an         *)
(* uninstall takes it away.                                                *)
InstallSucceeds == ~faulty ~> outcome = "installed"
=============================================================================
