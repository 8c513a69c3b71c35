--------------------------- MODULE AgentLifecycle ---------------------------
(***************************************************************************)
(* From a start of the agent to "Agent running successfully": run of       *)
(* cmd/agent/main.go, RunBootstrap and Manager of                          *)
(* internal/identity/bootstrap.go, RetryWithBackoff of retry.go, and Load, *)
(* Save and the validations of internal/config/config.go.                  *)
(*                                                                         *)
(* The process keeps its configuration in memory and four files on disk:   *)
(* certificate, private key, CA and configuration.  It can be stopped or   *)
(* die at any step, which includes the middle of a write; the operator,    *)
(* the boot sequence or the service manager starts it again.               *)
(***************************************************************************)
EXTENDS Naturals, FiniteSets

CONSTANTS
    Ids,           \* the agent identities the server can issue
    MaxAttempts,   \* RetryConfig.MaxAttempts (10 in the code)
    Environments,  \* whether ORG_ID and INSTALL_TOKEN are set, per start
    Installs,      \* what the installation left in the configuration file
    Faults         \* what can go wrong

Absent == "absent"    \* the file does not exist
Torn == "torn"        \* the file exists and does not parse
NoId == "none"        \* no identity: empty agent_id, no reply, no key

ASSUME IdsAssumption == {Absent, Torn, NoId} \cap Ids = {}
ASSUME MaxAttemptsAssumption == MaxAttempts \in Nat \ {0}
ASSUME EnvironmentsAssumption == Environments \subseteq BOOLEAN
ASSUME InstallsAssumption == Installs \subseteq {"nothing", "edited"}
ASSUME FaultsAssumption ==
    Faults \subseteq {"stop", "crash", "read", "dir", "reply", "certs", "config"}

VARIABLES
    disk,      \* the files
    expired,   \* the certificate on disk is past its time
    pc,        \* the step run is at
    exit,      \* how the last process ended
    cfg,       \* *config.Config of the process
    agentID,   \* Manager.agentID
    again,     \* the bootstrap under way is the one of step 9
    attempt,   \* failed attempts of RetryWithBackoff
    resp,      \* the identity in the server's reply
    missing,   \* the fields that the reply lacks, named for their files
    troubles   \* history: what was missing or failed for this process

memoryVars == <<cfg, agentID, again, attempt, resp, missing>>
lifecycleVars == <<disk, expired, pc, exit, memoryVars, troubles>>

Record == [boot : BOOLEAN, id : Ids \cup {NoId}, token : BOOLEAN]
NewBootstrapConfig(env) == [boot |-> FALSE, id |-> NoId, token |-> env]

\* A configuration file that is not there, or does not parse.
NoConfig == [boot |-> FALSE, id |-> Absent, token |-> FALSE]
TornConfig == [boot |-> FALSE, id |-> Torn, token |-> FALSE]

Troubles == {"token", "read", "torn", "dir", "request", "reply", "certs", "config"}
CertFiles == {"cert", "key", "ca"}
Writing == CertFiles \cup {"config"}
PCs == {"off", "load", "validate", "check", "request", "verify", "running"} \cup Writing

-----------------------------------------------------------------------------
(* Installation leaves no configuration, or one that the operator filled   *)
(* in with org_id and install_token.                                       *)
Init ==
    /\ \E how \in Installs :
        disk = [cert |-> Absent, key |-> Absent, ca |-> Absent,
                config |-> IF how = "edited" THEN NewBootstrapConfig(TRUE)
                                             ELSE NoConfig]
    /\ expired = FALSE
    /\ pc = "off" /\ exit = "none"
    /\ cfg = NewBootstrapConfig(FALSE) /\ agentID = NoId
    /\ again = FALSE /\ attempt = 0 /\ resp = NoId /\ missing = {}
    /\ troubles = {}

\* What a process had in memory is gone when it ends.
Forget ==
    /\ cfg' = NewBootstrapConfig(FALSE) /\ agentID' = NoId
    /\ again' = FALSE /\ attempt' = 0 /\ resp' = NoId /\ missing' = {}

(* run returns an error: main logs it and calls systray.Quit, systray.Run  *)
(* returns, main returns, and the exit status is 0.                        *)
Fail(why) ==
    /\ pc' = "off" /\ exit' = "error"
    /\ troubles' = troubles \cup why
    /\ Forget

Goto(step) ==
    /\ pc' = step
    /\ UNCHANGED <<exit, troubles>>

-----------------------------------------------------------------------------
(* Starting and ending a process.                                          *)

Start ==
    /\ pc = "off"
    /\ pc' = "load" /\ exit' = "none" /\ troubles' = {}
    /\ UNCHANGED <<disk, expired, memoryVars>>

\* What the reply has for a file: one written from a missing field is empty.
Field(f) == IF f \in missing THEN IF f = "config" THEN NoId ELSE Torn ELSE resp

(* SIGTERM, Quit in the tray or a crash, at any point: a file that is being *)
(* written may be left truncated, or complete.                             *)
PartOf(f) == IF f = "config" THEN TornConfig ELSE Torn
ContentOf(f) == IF f = "config" THEN cfg ELSE Field(f)

Die(how) ==
    /\ pc # "off" /\ how \in Faults
    /\ pc' = "off" /\ exit' = how
    /\ Forget
    /\ IF pc \in Writing
       THEN \E c \in {disk[pc], PartOf(pc), ContentOf(pc)} :
                /\ disk' = [disk EXCEPT ![pc] = c]
                /\ expired' = (expired /\ disk'.cert = disk.cert)
       ELSE UNCHANGED <<disk, expired>>
    /\ UNCHANGED troubles

(* Time passes.  A certificate lasts longer than a start, and a running    *)
(* agent never looks at it again.                                          *)
Expire ==
    /\ pc = "off" /\ disk.cert \in Ids
    /\ expired' = TRUE
    /\ UNCHANGED <<disk, pc, exit, memoryVars, troubles>>

-----------------------------------------------------------------------------
(* Steps 1 to 7: the configuration.                                        *)

(* RunBootstrap, up to its first request, with the configuration it is     *)
(* given and the identity its caller's manager has read.                   *)
RunBootstrap(c, id, second) ==
    IF c.token
    THEN /\ Goto("request")
         /\ cfg' = c /\ agentID' = id
         /\ again' = second /\ attempt' = 0
         /\ UNCHANGED <<resp, missing>>
    ELSE Fail(IF second THEN {} ELSE {"token"})

LoadNothing(env) ==
    /\ pc = "load" /\ disk.config = NoConfig
    /\ RunBootstrap(NewBootstrapConfig(env), NoId, FALSE)
    /\ UNCHANGED <<disk, expired>>

\* Mutant: Load does not look at the environment.
LoadWithoutEnv(env) ==
    /\ pc = "load" /\ disk.config \in Record
    /\ cfg' = disk.config
    /\ Goto("validate")
    /\ UNCHANGED <<disk, expired, agentID, again, attempt, resp, missing>>

Load(env) ==
    /\ pc = "load" /\ disk.config \in Record
    /\ cfg' = [disk.config EXCEPT !.token = @ \/ env]
    /\ pc' = "validate"
    /\ troubles' = troubles \cup {t \in {"token"} : ~env}
    /\ UNCHANGED <<disk, expired, exit, agentID, again, attempt, resp, missing>>

LoadFails ==
    /\ pc = "load"
    /\ \/ disk.config = TornConfig /\ Fail({"torn"})
       \/ "read" \in Faults /\ Fail({"read"})
    /\ UNCHANGED <<disk, expired>>

RuntimeValid(c) == c.boot /\ c.id # NoId

ValidateRuntime ==
    /\ pc = "validate"
    /\ IF RuntimeValid(cfg) THEN Goto("check") /\ UNCHANGED memoryVars
                            ELSE Fail({})
    /\ UNCHANGED <<disk, expired>>

-----------------------------------------------------------------------------
(* The identity on disk.                                                   *)

HasIdentity == \A f \in CertFiles : disk[f] # Absent

\* tls.X509KeyPair: both parse and the key is the certificate's.
KeyPair(cert, key) == cert \in Ids /\ key = cert

Verified == KeyPair(disk.cert, disk.key)

(* The expiry check pairs the certificate with a nil key, which fails for  *)
(* every certificate, so the time is never looked at.                      *)
NeedsRebootstrap ==
    \/ ~HasIdentity
    \/ ~Verified
    \/ ~KeyPair(disk.cert, NoId)
    \/ expired

\* Mutant: the reset of Bootstrapped is saved before the bootstrap.
CheckSavesReset ==
    /\ pc = "check"
    /\ RunBootstrap([cfg EXCEPT !.boot = FALSE], NoId, TRUE)
    /\ disk' = [disk EXCEPT !.config.boot = FALSE]
    /\ UNCHANGED expired

\* Steps 8 and 9.
Check ==
    /\ pc = "check"
    /\ LET id == IF HasIdentity /\ Verified THEN disk.cert ELSE NoId IN
       IF NeedsRebootstrap
       THEN RunBootstrap([cfg EXCEPT !.boot = FALSE], id, TRUE)
       ELSE /\ Goto("verify")
            /\ agentID' = id
            /\ UNCHANGED <<cfg, again, attempt, resp, missing>>
    /\ UNCHANGED <<disk, expired>>

\* Step 10.
VerifyIdentity ==
    /\ pc = "verify"
    /\ IF Verified
       THEN /\ Goto("running")
            /\ agentID' = disk.cert
            /\ UNCHANGED <<cfg, again, attempt, resp, missing>>
       ELSE Fail({})
    /\ UNCHANGED <<disk, expired>>

\* NewManager cannot create the certificate directory.
NewManagerFails ==
    /\ "dir" \in Faults
    /\ \/ pc \in {"check", "verify"}
       \/ pc = "request" /\ attempt = 0
    /\ Fail({"dir"})
    /\ UNCHANGED <<disk, expired>>

-----------------------------------------------------------------------------
(* RunBootstrap: the requests.                                             *)

\* Identities that are nowhere to be seen: the server issues a new one.
Fresh == Ids \ ({disk[f] : f \in CertFiles} \cup {disk.config.id, cfg.id})

(* A reply that decodes is taken, whatever it lacks: one of the three PEM  *)
(* texts, agent_id, or all of them.                                        *)
Blanks == {{}} \cup IF "reply" \in Faults THEN {{f} : f \in Writing} \cup {Writing} ELSE {}

Registered(id, blank) ==
    /\ pc = "request"
    /\ id \in Fresh
    /\ resp' = id /\ missing' = blank
    /\ pc' = "cert"
    /\ troubles' = troubles \cup {t \in {"reply"} : blank # {}}
    /\ UNCHANGED <<disk, expired, exit, cfg, agentID, again, attempt>>

\* Mutants: the last attempt is missed; attempts are not counted.
RequestFailsOffByOne ==
    /\ pc = "request"
    /\ IF attempt = MaxAttempts
       THEN Fail({"request"})
       ELSE /\ attempt' = attempt + 1
            /\ UNCHANGED <<pc, exit, cfg, agentID, again, resp, missing, troubles>>
    /\ UNCHANGED <<disk, expired>>

RequestFailsUncounted ==
    /\ pc = "request"
    /\ UNCHANGED <<disk, expired, pc, exit, memoryVars>>
    /\ troubles' = {"request"} \ troubles

(* The server cannot be reached, refuses, or issues an identity whose reply *)
(* is lost.  Every kind of error is tried again.                           *)
RequestFails ==
    /\ pc = "request"
    /\ IF attempt + 1 = MaxAttempts
       THEN Fail({"request"})
       ELSE /\ attempt' = attempt + 1
            /\ troubles' = troubles \cup {"request"}
            /\ UNCHANGED <<pc, exit, cfg, agentID, again, resp, missing>>
    /\ UNCHANGED <<disk, expired>>

-----------------------------------------------------------------------------
(* saveCertificates, MarkBootstrapped and Save.                            *)

\* Mutant: the token stays.
MarkKeepingToken(c) == [c EXCEPT !.boot = TRUE, !.id = Field("config")]

MarkBootstrapped(c) == [c EXCEPT !.boot = TRUE, !.id = Field("config"), !.token = FALSE]

AfterCert(f) ==
    CASE f = "cert" -> "key" [] f = "key" -> "ca" [] f = "ca" -> "config"

WriteCert(f) ==
    /\ pc = f
    /\ disk' = [disk EXCEPT ![f] = Field(f)]
    /\ expired' = (expired /\ f # "cert")
    /\ Goto(AfterCert(f))
    /\ cfg' = IF f = "ca" THEN MarkBootstrapped(cfg) ELSE cfg
    /\ UNCHANGED <<agentID, again, attempt, resp, missing>>

\* Mutant: a failure to write the CA is ignored.
CaFailureIgnored(f) ==
    /\ pc = f /\ f = "ca" /\ "certs" \in Faults
    /\ Goto("config")
    /\ cfg' = MarkBootstrapped(cfg)
    /\ UNCHANGED <<disk, expired, agentID, again, attempt, resp, missing>>

WriteCertFails(f) ==
    /\ pc = f /\ "certs" \in Faults
    /\ \E c \in {disk[f], Torn} : disk' = [disk EXCEPT ![f] = c]
    /\ expired' = (expired /\ disk'.cert = disk.cert)
    /\ Fail({"certs"})

\* Step 9 replaces the manager by a new one, whose agentID is empty.
AfterSave ==
    /\ pc' = IF again THEN "verify" ELSE "validate"
    /\ agentID' = NoId
    /\ UNCHANGED <<cfg, again, attempt, resp, missing>>

\* Mutant: only the first bootstrap is saved.
SaveFirstOnly ==
    /\ pc = "config"
    /\ disk' = IF again THEN disk ELSE [disk EXCEPT !.config = cfg]
    /\ AfterSave
    /\ UNCHANGED <<expired, exit, troubles>>

Save ==
    /\ pc = "config"
    /\ disk' = [disk EXCEPT !.config = cfg]
    /\ AfterSave
    /\ UNCHANGED <<expired, exit, troubles>>

\* The second time the failure is only a warning.
SaveFails ==
    /\ pc = "config" /\ "config" \in Faults
    /\ \E c \in {disk.config, TornConfig} : disk' = [disk EXCEPT !.config = c]
    /\ IF again
       THEN /\ AfterSave
            /\ troubles' = troubles \cup {"config"}
            /\ UNCHANGED exit
       ELSE Fail({"config"})
    /\ UNCHANGED expired

-----------------------------------------------------------------------------
Replies == \E id \in Ids, blank \in Blanks : Registered(id, blank)

Run ==
    \/ \E env \in Environments : LoadNothing(env) \/ Load(env)
    \/ LoadFails \/ ValidateRuntime \/ Check \/ VerifyIdentity
    \/ NewManagerFails
    \/ Replies \/ RequestFails
    \/ \E f \in CertFiles : WriteCert(f) \/ WriteCertFails(f)
    \/ Save \/ SaveFails

Next == Start \/ Run \/ Expire \/ \E how \in {"stop", "crash"} : Die(how)

Spec == Init /\ [][Next]_lifecycleVars

(* Restart=on-failure and SuccessfulExit=false start the agent again after *)
(* a crash only, because every other end has exit status 0.                *)
AutoRestart == exit = "crash" /\ Start

LiveSpec == Spec /\ WF_lifecycleVars(Run) /\ WF_lifecycleVars(AutoRestart)

-----------------------------------------------------------------------------
TypeOK ==
    /\ DOMAIN disk = Writing
    /\ \A f \in CertFiles : disk[f] \in Ids \cup {Absent, Torn}
    /\ disk.config \in Record \cup {NoConfig, TornConfig}
    /\ expired \in BOOLEAN
    /\ pc \in PCs
    /\ exit \in {"none", "error", "stop", "crash"}
    /\ cfg \in Record
    /\ agentID \in Ids \cup {NoId}
    /\ again \in BOOLEAN
    /\ attempt \in 0 .. MaxAttempts - 1
    /\ resp \in Ids \cup {NoId} /\ missing \subseteq Writing
    /\ troubles \subseteq Troubles

(* A running agent is one agent: the certificate, the key, the CA and the  *)
(* agent_id it uses all come from one reply of the server, whatever failed *)
(* and wherever earlier processes died.  A CA or agent_id that this reply  *)
(* lacked is empty, and never one of an earlier reply.                     *)
RunsAsItself ==
    pc = "running" =>
        /\ cfg.boot
        /\ disk.cert = agentID /\ disk.key = agentID
        /\ disk.ca = agentID \/ (disk.ca = Torn /\ "reply" \in troubles)
        /\ cfg.id = agentID \/ (cfg.id = NoId /\ "reply" \in troubles)

(* Unless this process could not write the file, the configuration on disk *)
(* is the one it runs with (a failed Save is only a warning, main.go:127). *)
RestartsAsItself ==
    pc = "running" /\ "config" \notin troubles => disk.config = cfg

(* "Cleared from config after successful bootstrap"                        *)
(* (docs/BOOTSTRAP_QUICKSTART.md:298): a saved bootstrapped configuration  *)
(* holds no token, although the token is in memory again whenever the      *)
(* environment has it, and step 9 un-bootstraps the configuration in       *)
(* memory only.                                                            *)
TokenCleared ==
    disk.config.boot => ~disk.config.token

(* Once there is a bootstrapped configuration, only a write of the file    *)
(* that is cut short takes it away.                                        *)
BootstrapSticks ==
    [][disk.config.boot /\ ~disk'.config.boot =>
            pc = "config" /\ disk'.config = TornConfig]_lifecycleVars

(* Every start ends, in a running agent or not: the requests are bounded.  *)
Settles == pc = "load" ~> pc \in {"off", "running"}

Stranded == disk.config # NoConfig /\ ~RuntimeValid(disk.config)

(* Once every start has the token in its environment and nothing fails any *)
(* more but single requests, an attended agent runs, whatever mixture of   *)
(* old and new files the earlier processes left.  Only a configuration     *)
(* file that is not valid strands it, for ever: a truncated one, one that  *)
(* was filled in by hand, or one saved from a reply without an agent_id.   *)
(* Attended: it is started after every end, and the server takes some      *)
(* request of an endless series.                                           *)
Attended == WF_lifecycleVars(Start) /\ SF_lifecycleVars(Replies)

ComesUp ==
    Attended /\ <>[](exit \in {"none", "error"} /\ troubles \subseteq {"request", "torn"}) =>
        []<>(pc = "running") \/ <>[]Stranded

-----------------------------------------------------------------------------
(* A fresh install with the token set, a server that answers and no        *)
(* failure ends in "Agent running successfully"                            *)
(* (docs/BOOTSTRAP_QUICKSTART.md:26-33).                                   *)
FirstStartRuns == exit = "error" => troubles # {}
=============================================================================
