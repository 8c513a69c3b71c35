----------------------- MODULE AgentLifecycle_proofs ------------------------
(***************************************************************************)
(* AgentLifecycle for any number of identities and attempts, with every    *)
(* fault: an agent that runs is one identity, the one it saved, and what   *)
(* it saved holds no token.                                                *)
(***************************************************************************)
EXTENDS AgentLifecycle, TLAPS

\* The files that come before f in the order they are written.
Before(f) ==
    CASE f = "cert" -> {} [] f = "key" -> {"cert"}
      [] f = "ca" -> {"cert", "key"} [] f = "config" -> CertFiles

(* Why RunsAsItself holds: the process that runs wrote all four files, in  *)
(* this order and from one reply, because the expiry check sends every     *)
(* process through a bootstrap (KeyPair with a nil key fails).             *)
WritesInOrder ==
    /\ pc \in Writing =>
        /\ resp \in Ids
        /\ \A f \in Before(pc) : disk[f] = Field(f)
    /\ pc = "config" => cfg.boot /\ cfg.id = Field("config") /\ ~cfg.token

Checked ==
    pc \in {"verify", "running"} =>
        /\ resp \in Ids
        /\ cfg.boot /\ cfg.id = Field("config")
        /\ \A f \in CertFiles : disk[f] = Field(f)
        /\ "config" \notin troubles => disk.config = cfg

Running == pc = "running" => agentID = resp /\ disk.cert = resp /\ disk.key = resp

\* The process remembers that its reply was not whole.
Reported ==
    /\ missing # {} => "reply" \in troubles
    /\ pc = "off" => missing = {}

IInv == TypeOK /\ TokenCleared /\ WritesInOrder /\ Checked /\ Running /\ Reported

-----------------------------------------------------------------------------
LEMMA InvEnough ==
    IInv => TypeOK /\ RunsAsItself /\ RestartsAsItself /\ TokenCleared
<1> SUFFICES ASSUME IInv PROVE RunsAsItself /\ RestartsAsItself
  BY DEF IInv
<1>1. ASSUME pc = "running" PROVE RunsAsItself
  <2>1. disk.ca = Field("ca") /\ cfg.id = Field("config") /\ cfg.boot
    BY <1>1 DEF IInv, Checked, CertFiles
  <2>2. Field("ca") = resp \/ (Field("ca") = Torn /\ "reply" \in troubles)
    BY DEF Field, IInv, Reported
  <2>3. Field("config") = resp \/ (Field("config") = NoId /\ "reply" \in troubles)
    BY DEF Field, IInv, Reported
  <2> QED BY <1>1, <2>1, <2>2, <2>3 DEF IInv, Running, RunsAsItself
<1> QED BY <1>1 DEF IInv, Checked, RunsAsItself, RestartsAsItself

LEMMA ZeroAttempts == 0 \in 0 .. MaxAttempts - 1
BY MaxAttemptsAssumption

LEMMA InitInv == Init => IInv
<1> SUFFICES ASSUME Init PROVE IInv
  OBVIOUS
<1>1. NewBootstrapConfig(FALSE) \in Record /\ NewBootstrapConfig(TRUE) \in Record
  BY DEF NewBootstrapConfig, Record
<1>2. PICK c \in Record \cup {NoConfig} :
        /\ ~c.boot
        /\ disk = [cert |-> Absent, key |-> Absent, ca |-> Absent, config |-> c]
  BY <1>1 DEF Init, NewBootstrapConfig, NoConfig
<1>3. /\ DOMAIN disk = Writing /\ disk.config = c
      /\ \A f \in CertFiles : disk[f] = Absent
  BY <1>2 DEF Writing, CertFiles
<1>4. TypeOK
  <2>1. /\ expired = FALSE /\ pc = "off" /\ exit = "none" /\ troubles = {}
        /\ cfg \in Record /\ agentID = NoId
        /\ again = FALSE /\ attempt = 0 /\ resp = NoId /\ missing = {}
    BY <1>1 DEF Init
  <2> QED BY <1>3, <2>1, ZeroAttempts DEF TypeOK, PCs
<1>5. TokenCleared
  BY <1>2, <1>3 DEF TokenCleared
<1> QED BY <1>4, <1>5 DEF Init, IInv, WritesInOrder, Checked, Running, Reported, Writing, CertFiles

\* A process that ends keeps nothing in memory.
LEMMA OffInv ==
    ASSUME TypeOK', TokenCleared', pc' = "off", missing' = {}
    PROVE  IInv'
BY DEF IInv, WritesInOrder, Checked, Running, Reported, Writing, CertFiles

LEMMA ForgetType ==
    ASSUME Forget
    PROVE  cfg' \in Record /\ agentID' = NoId /\ again' = FALSE /\ attempt' = 0 /\ resp' = NoId /\ missing' = {}
BY DEF Forget, Record, NewBootstrapConfig

\* A step that ends in an error, and leaves the configuration file as it was.
LEMMA FailInv ==
    ASSUME IInv, NEW why \in SUBSET Troubles, Fail(why),
           DOMAIN disk' = Writing,
           \A f \in CertFiles : disk'[f] \in Ids \cup {Absent, Torn},
           disk'.config \in {disk.config, TornConfig},
           expired' \in BOOLEAN
    PROVE  IInv'
<1>1. TypeOK'
  <2>1. disk'.config \in Record \cup {NoConfig, TornConfig}
    BY DEF IInv, TypeOK
  <2>2. troubles' \subseteq Troubles
    BY DEF Fail, IInv, TypeOK
  <2> QED BY <2>1, <2>2, ForgetType, ZeroAttempts DEF Fail, TypeOK, PCs
<1>2. TokenCleared'
  BY DEF IInv, TokenCleared, TornConfig
<1> QED BY <1>1, <1>2, OffInv DEF Fail, Forget

\* One that leaves every file as it was.
LEMMA FailQuietly ==
    ASSUME IInv, NEW why \in SUBSET Troubles, Fail(why), UNCHANGED <<disk, expired>>
    PROVE  IInv'
<1>1. /\ DOMAIN disk' = Writing
      /\ \A f \in CertFiles : disk'[f] \in Ids \cup {Absent, Torn}
      /\ disk'.config = disk.config
      /\ expired' \in BOOLEAN
  BY DEF IInv, TypeOK
<1> QED BY <1>1, FailInv

\* A step before the first write, to a step that is not after the last one.
LEMMA EarlyInv ==
    ASSUME TypeOK', Reported', IInv, UNCHANGED disk,
           pc' \in {"load", "validate", "check", "request"}
    PROVE  IInv'
BY DEF IInv, TokenCleared, WritesInOrder, Checked, Running, Writing, CertFiles

LEMMA RunBootstrapInv ==
    ASSUME IInv, NEW c \in Record, NEW id \in Ids \cup {NoId}, NEW second \in BOOLEAN,
           RunBootstrap(c, id, second), UNCHANGED <<disk, expired>>
    PROVE  IInv'
<1>1. CASE c.token
  <2>1. TypeOK'
    BY <1>1, ZeroAttempts DEF IInv, TypeOK, RunBootstrap, Goto, PCs
  <2>2. Reported'
    BY <1>1 DEF RunBootstrap, Goto, IInv, Reported
  <2> QED BY <1>1, <2>1, <2>2, EarlyInv DEF RunBootstrap, Goto
<1>2. CASE ~c.token
  <2>1. PICK why \in SUBSET Troubles : Fail(why)
    BY <1>2 DEF RunBootstrap, Troubles
  <2> QED BY <2>1, FailQuietly
<1> QED BY <1>1, <1>2

LEMMA StartInv == IInv /\ Start => IInv'
<1> SUFFICES ASSUME IInv, Start PROVE IInv'
  OBVIOUS
<1>1. TypeOK'
  BY DEF IInv, TypeOK, Start, PCs, memoryVars
<1>2. Reported'
  BY DEF IInv, Reported, Start, memoryVars
<1> QED BY <1>1, <1>2, EarlyInv DEF Start

LEMMA LoadInv ==
    ASSUME IInv, NEW env \in Environments, LoadNothing(env) \/ Load(env)
    PROVE  IInv'
<1>0. env \in BOOLEAN
  BY EnvironmentsAssumption
<1>1. CASE LoadNothing(env)
  <2>1. NewBootstrapConfig(env) \in Record
    BY <1>0 DEF NewBootstrapConfig, Record
  <2> QED BY <1>1, <2>1, RunBootstrapInv DEF LoadNothing
<1>2. CASE Load(env)
  <2>1. cfg' \in Record
    BY <1>0, <1>2 DEF Load, Record
  <2>2. troubles' \subseteq Troubles
    BY <1>2 DEF Load, Troubles, IInv, TypeOK
  <2>3. TypeOK'
    BY <1>2, <2>1, <2>2 DEF Load, IInv, TypeOK, PCs
  <2>4. Reported'
    BY <1>2 DEF Load, IInv, Reported
  <2> QED BY <1>2, <2>3, <2>4, EarlyInv DEF Load
<1> QED BY <1>1, <1>2

LEMMA LoadFailsInv == IInv /\ LoadFails => IInv'
<1> SUFFICES ASSUME IInv, LoadFails PROVE IInv'
  OBVIOUS
<1>1. PICK why \in SUBSET Troubles : Fail(why)
  BY DEF LoadFails, Troubles
<1> QED BY <1>1, FailQuietly DEF LoadFails

LEMMA ValidateInv == IInv /\ ValidateRuntime => IInv'
<1> SUFFICES ASSUME IInv, ValidateRuntime PROVE IInv'
  OBVIOUS
<1>1. CASE RuntimeValid(cfg)
  <2>1. TypeOK'
    BY <1>1 DEF ValidateRuntime, Goto, memoryVars, IInv, TypeOK, PCs
  <2>2. Reported'
    BY <1>1 DEF ValidateRuntime, Goto, memoryVars, IInv, Reported
  <2> QED BY <1>1, <2>1, <2>2, EarlyInv DEF ValidateRuntime, Goto
<1>2. CASE ~RuntimeValid(cfg)
  BY <1>2, FailQuietly DEF ValidateRuntime
<1> QED BY <1>1, <1>2

\* The comparison with a nil key sends every process through a bootstrap.
LEMMA AlwaysAgain == NeedsRebootstrap
BY IdsAssumption DEF NeedsRebootstrap, KeyPair

LEMMA CheckInv == IInv /\ Check => IInv'
<1> SUFFICES ASSUME IInv, Check PROVE IInv'
  OBVIOUS
<1>1. PICK id \in Ids \cup {NoId} : RunBootstrap([cfg EXCEPT !.boot = FALSE], id, TRUE)
  BY AlwaysAgain DEF Check, Verified, KeyPair
<1>2. [cfg EXCEPT !.boot = FALSE] \in Record
  BY DEF IInv, TypeOK, Record
<1> QED BY <1>1, <1>2, RunBootstrapInv DEF Check

LEMMA VerifyInv == IInv /\ VerifyIdentity => IInv'
<1> SUFFICES ASSUME IInv, VerifyIdentity PROVE IInv'
  OBVIOUS
<1>1. CASE Verified
  <2>1. /\ pc = "verify" /\ pc' = "running" /\ agentID' = disk.cert
        /\ UNCHANGED <<disk, expired, cfg, again, attempt, resp, missing, exit, troubles>>
    BY <1>1 DEF VerifyIdentity, Goto
  <2>2. disk.cert = resp /\ disk.key = resp /\ resp \in Ids
    <3>1. disk.cert = Field("cert") /\ resp \in Ids
      BY <2>1 DEF IInv, Checked, CertFiles
    <3>2. disk.cert \in Ids /\ disk.key = disk.cert
      BY <1>1 DEF Verified, KeyPair
    <3> QED BY <3>1, <3>2, IdsAssumption DEF Field
  <2>3. TypeOK'
    BY <2>1, <2>2 DEF IInv, TypeOK, PCs
  <2>4. Checked' /\ Running'
    BY <2>1, <2>2 DEF IInv, Checked, Running, Field
  <2> QED BY <2>1, <2>3, <2>4
      DEF IInv, TokenCleared, WritesInOrder, Reported, Writing, CertFiles
<1>2. CASE ~Verified
  BY <1>2, FailQuietly DEF VerifyIdentity
<1> QED BY <1>1, <1>2

LEMMA NewManagerFailsInv == IInv /\ NewManagerFails => IInv'
<1>1. {"dir"} \in SUBSET Troubles
  BY DEF Troubles
<1> QED BY <1>1, FailQuietly DEF NewManagerFails

LEMMA RegisteredInv ==
    \A i \in Ids, blank \in Blanks : IInv /\ Registered(i, blank) => IInv'
<1> SUFFICES ASSUME NEW i \in Ids, NEW blank \in Blanks, IInv, Registered(i, blank)
             PROVE  IInv'
  OBVIOUS
<1>1. TypeOK'
  <2>1. missing' \subseteq Writing
    BY DEF Registered, Blanks
  <2>2. troubles' \subseteq Troubles
    BY DEF Registered, Troubles, IInv, TypeOK
  <2> QED BY <2>1, <2>2 DEF IInv, TypeOK, Registered, PCs, Writing, CertFiles
<1>2. Reported'
  BY DEF Registered, Reported
<1> QED BY <1>1, <1>2
    DEF IInv, TokenCleared, WritesInOrder, Checked, Running, Registered, Writing, CertFiles,
        Before

LEMMA RequestFailsInv == IInv /\ RequestFails => IInv'
<1> SUFFICES ASSUME IInv, RequestFails PROVE IInv'
  OBVIOUS
<1>0. {"request"} \in SUBSET Troubles
  BY DEF Troubles
<1>1. CASE attempt + 1 = MaxAttempts
  BY <1>0, <1>1, FailQuietly DEF RequestFails
<1>2. CASE attempt + 1 # MaxAttempts
  <2>1. attempt' \in 0 .. MaxAttempts - 1
    BY <1>2, MaxAttemptsAssumption DEF RequestFails, IInv, TypeOK
  <2>2. TypeOK'
    BY <1>0, <1>2, <2>1 DEF RequestFails, IInv, TypeOK
  <2>3. Reported'
    BY <1>2 DEF RequestFails, IInv, Reported
  <2> QED BY <1>2, <2>2, <2>3, EarlyInv DEF RequestFails
<1> QED BY <1>1, <1>2

-----------------------------------------------------------------------------
(* The writes.                                                             *)

LEMMA FieldType ==
    ASSUME resp \in Ids
    PROVE  /\ \A f \in CertFiles : Field(f) \in Ids \cup {Torn}
           /\ Field("config") \in Ids \cup {NoId}
BY DEF Field, CertFiles

LEMMA WriteCertInv == \A f \in CertFiles : IInv /\ WriteCert(f) => IInv'
<1> SUFFICES ASSUME NEW f \in CertFiles, IInv, WriteCert(f) PROVE IInv'
  OBVIOUS
<1>0. UNCHANGED <<resp, missing>> /\ \A g \in Writing : Field(g)' = Field(g)
  BY DEF WriteCert, Field
<1>1. /\ pc = f /\ resp \in Ids /\ Field(f) \in Ids \cup {Torn}
      /\ \A g \in Before(f) : disk[g] = Field(g)
  BY FieldType DEF IInv, WritesInOrder, WriteCert, Writing
<1>2. /\ DOMAIN disk' = Writing /\ disk'[f] = Field(f)
      /\ \A g \in Writing \ {f} : disk'[g] = disk[g]
  BY DEF WriteCert, IInv, TypeOK, Writing
<1>3. disk'.config = disk.config /\ \A g \in CertFiles : disk'[g] \in Ids \cup {Absent, Torn}
  BY <1>1, <1>2 DEF IInv, TypeOK, Writing, CertFiles
<1>4. pc' \in PCs /\ expired' \in BOOLEAN
  BY DEF WriteCert, Goto, AfterCert, CertFiles, PCs, Writing, IInv, TypeOK
<1>5. CASE f # "ca"
  <2>1. cfg' = cfg
    BY <1>5 DEF WriteCert
  <2>2. TypeOK'
    BY <1>2, <1>3, <1>4, <2>1 DEF WriteCert, Goto, IInv, TypeOK
  <2>3. WritesInOrder'
    BY <1>0, <1>1, <1>2, <1>5
    DEF WriteCert, Goto, AfterCert, WritesInOrder, Before, CertFiles, Writing
  <2> QED BY <1>3, <1>5, <2>2, <2>3
      DEF WriteCert, Goto, AfterCert, IInv, TokenCleared, Checked, Running, Reported, CertFiles
<1>6. CASE f = "ca"
  <2>1. /\ cfg' \in Record /\ cfg'.boot /\ cfg'.id = Field("config") /\ ~cfg'.token
    BY <1>1, <1>6, FieldType DEF WriteCert, MarkBootstrapped, IInv, TypeOK, Record
  <2>2. TypeOK'
    BY <1>2, <1>3, <1>4, <2>1 DEF WriteCert, Goto, IInv, TypeOK
  <2>3. WritesInOrder'
    <3>1. pc' = "config"
      BY <1>6 DEF WriteCert, Goto, AfterCert
    <3>2. \A g \in CertFiles : disk'[g] = Field(g)
      BY <1>1, <1>2, <1>6 DEF Before, CertFiles, Writing
    <3> QED BY <1>0, <1>1, <2>1, <3>1, <3>2
        DEF WritesInOrder, Before, CertFiles, Writing
  <2> QED BY <1>3, <1>6, <2>2, <2>3
      DEF WriteCert, Goto, AfterCert, IInv, TokenCleared, Checked, Running, Reported, CertFiles
<1> QED BY <1>5, <1>6

LEMMA WriteCertFailsInv == \A f \in CertFiles : IInv /\ WriteCertFails(f) => IInv'
<1> SUFFICES ASSUME NEW f \in CertFiles, IInv, WriteCertFails(f) PROVE IInv'
  OBVIOUS
<1>1. PICK c \in {disk[f], Torn} : disk' = [disk EXCEPT ![f] = c]
  BY DEF WriteCertFails
<1>2. /\ DOMAIN disk' = Writing /\ disk'.config = disk.config
      /\ \A g \in CertFiles : disk'[g] \in Ids \cup {Absent, Torn}
  BY <1>1 DEF IInv, TypeOK, Writing, CertFiles
<1>3. expired' \in BOOLEAN
  BY DEF WriteCertFails, IInv, TypeOK
<1>4. {"certs"} \in SUBSET Troubles
  BY DEF Troubles
<1> QED BY <1>2, <1>3, <1>4, FailInv DEF WriteCertFails

\* A write of the configuration file, after which the process goes on.
LEMMA ConfigWritten ==
    ASSUME IInv, pc = "config", NEW c \in {disk.config, TornConfig, cfg},
           disk' = [disk EXCEPT !.config = c],
           AfterSave, UNCHANGED <<expired, exit>>,
           troubles \subseteq troubles', troubles' \subseteq Troubles,
           again /\ "config" \notin troubles' => c = cfg
    PROVE  IInv'
<1>1. /\ DOMAIN disk' = Writing /\ disk'.config = c
      /\ \A f \in CertFiles : disk'[f] = disk[f]
  BY DEF IInv, TypeOK, Writing, CertFiles
<1>2. /\ resp \in Ids /\ cfg.boot /\ cfg.id = Field("config") /\ ~cfg.token
      /\ \A f \in CertFiles : disk[f] = Field(f)
  BY DEF IInv, WritesInOrder, Writing, Before
<1>3. TypeOK'
  BY <1>1 DEF AfterSave, IInv, TypeOK, PCs
<1>4. TokenCleared'
  BY <1>1, <1>2 DEF IInv, TokenCleared, TornConfig
<1>5. \A f \in Writing : Field(f)' = Field(f)
  BY DEF AfterSave, Field
<1>6. Reported' /\ pc' \in {"verify", "validate"}
  <2>1. missing' = {} \/ "reply" \in troubles'
    BY DEF AfterSave, IInv, Reported
  <2> QED BY <2>1 DEF AfterSave, Reported
<1>7. Checked'
  BY <1>1, <1>2, <1>5 DEF AfterSave, Checked, Writing
<1> QED BY <1>3, <1>4, <1>6, <1>7 DEF IInv, WritesInOrder, Running, Writing, CertFiles

LEMMA SaveInv == IInv /\ Save => IInv'
<1> SUFFICES ASSUME IInv, Save PROVE IInv'
  OBVIOUS
<1>1. troubles' \subseteq Troubles
  BY DEF Save, IInv, TypeOK
<1> QED BY <1>1, ConfigWritten DEF Save

LEMMA SaveFailsInv == IInv /\ SaveFails => IInv'
<1> SUFFICES ASSUME IInv, SaveFails PROVE IInv'
  OBVIOUS
<1>1. PICK c \in {disk.config, TornConfig} : disk' = [disk EXCEPT !.config = c]
  BY DEF SaveFails
<1>2. {"config"} \in SUBSET Troubles
  BY DEF Troubles
<1>3. CASE again
  <2>1. "config" \in troubles' /\ troubles' \subseteq Troubles
    BY <1>2, <1>3 DEF SaveFails, IInv, TypeOK
  <2> QED BY <1>1, <1>3, <2>1, ConfigWritten DEF SaveFails
<1>4. CASE ~again
  <2>1. /\ DOMAIN disk' = Writing /\ disk'.config \in {disk.config, TornConfig}
        /\ \A f \in CertFiles : disk'[f] \in Ids \cup {Absent, Torn}
    BY <1>1 DEF IInv, TypeOK, Writing, CertFiles
  <2>2. Fail({"config"}) /\ expired' \in BOOLEAN
    BY <1>4 DEF SaveFails, IInv, TypeOK
  <2> QED BY <1>2, <2>1, <2>2, FailInv
<1> QED BY <1>3, <1>4

-----------------------------------------------------------------------------
(* Death in the middle of a write leaves the old file, a truncated one or  *)
(* the new one.                                                            *)
LEMMA DieInv == \A how \in {"stop", "crash"} : IInv /\ Die(how) => IInv'
<1> SUFFICES ASSUME NEW how \in {"stop", "crash"}, IInv, Die(how) PROVE IInv'
  OBVIOUS
<1>1. expired' \in BOOLEAN
  BY DEF Die, IInv, TypeOK
<1>2. CASE pc \notin Writing
  <2>1. TypeOK'
    BY <1>1, <1>2, ForgetType, ZeroAttempts DEF Die, IInv, TypeOK, PCs
  <2> QED BY <1>2, <2>1, OffInv DEF Die, Forget, IInv, TokenCleared
<1>3. CASE pc \in CertFiles
  <2>1. PICK c \in {disk[pc], Torn, Field(pc)} : disk' = [disk EXCEPT ![pc] = c]
    BY <1>3 DEF Die, PartOf, ContentOf, Writing, CertFiles
  <2>2. Field(pc) \in Ids \cup {Torn}
    BY <1>3, FieldType DEF IInv, WritesInOrder, Writing
  <2>3. /\ DOMAIN disk' = Writing /\ disk'.config = disk.config
        /\ \A f \in CertFiles : disk'[f] \in Ids \cup {Absent, Torn}
    BY <1>3, <2>1, <2>2 DEF IInv, TypeOK, Writing, CertFiles
  <2>4. TypeOK'
    BY <1>1, <2>3, ForgetType, ZeroAttempts DEF Die, IInv, TypeOK, PCs
  <2> QED BY <2>3, <2>4, OffInv DEF Die, Forget, IInv, TokenCleared
<1>4. CASE pc = "config"
  <2>1. PICK c \in {disk.config, TornConfig, cfg} : disk' = [disk EXCEPT !.config = c]
    BY <1>4 DEF Die, PartOf, ContentOf, Writing
  <2>2. /\ DOMAIN disk' = Writing /\ disk'.config = c
        /\ \A f \in CertFiles : disk'[f] = disk[f]
    BY <2>1 DEF IInv, TypeOK, Writing, CertFiles
  <2>3. TypeOK'
    BY <1>1, <2>2, ForgetType, ZeroAttempts DEF Die, IInv, TypeOK, PCs
  <2>4. ~cfg.token
    BY <1>4 DEF IInv, WritesInOrder, Writing
  <2> QED BY <2>2, <2>3, <2>4, OffInv DEF Die, Forget, IInv, TokenCleared, TornConfig
<1> QED BY <1>2, <1>3, <1>4 DEF Writing

LEMMA ExpireInv == IInv /\ Expire => IInv'
<1> SUFFICES ASSUME IInv, Expire PROVE IInv'
  OBVIOUS
<1>1. TypeOK'
  BY DEF Expire, memoryVars, IInv, TypeOK
<1>2. missing' = {}
  BY DEF Expire, memoryVars, IInv, Reported
<1> QED BY <1>1, <1>2, OffInv DEF Expire, IInv, TokenCleared

LEMMA NextInv == IInv /\ [Next]_lifecycleVars => IInv'
<1> SUFFICES ASSUME IInv, [Next]_lifecycleVars PROVE IInv'
  OBVIOUS
<1>1. CASE Run
  BY <1>1, LoadInv, LoadFailsInv, ValidateInv, CheckInv, VerifyInv, NewManagerFailsInv,
     RegisteredInv, RequestFailsInv, WriteCertInv, WriteCertFailsInv, SaveInv, SaveFailsInv
  DEF Run, Replies
<1>2. CASE UNCHANGED lifecycleVars
  BY <1>2
  DEF lifecycleVars, memoryVars, IInv, TypeOK, TokenCleared, WritesInOrder, Checked, Running,
      Reported, Field
<1> QED BY <1>1, <1>2, StartInv, ExpireInv, DieInv DEF Next

-----------------------------------------------------------------------------
(* The state of the agent and its files keeps its types whatever fails.    *)
THEOREM TypeCorrect == Spec => []TypeOK
BY InitInv, NextInv, InvEnough, PTL DEF Spec

(* A running agent uses the certificate, key, CA and agent_id of one reply *)
(* of the server, whatever failed and wherever earlier processes died; the *)
(* CA and the agent_id are empty where that reply lacked them              *)
(* (VerifyIdentity, bootstrap.go:289, looks at certificate and key only).  *)
THEOREM IdentityCorrect == Spec => []RunsAsItself
BY InitInv, NextInv, InvEnough, PTL DEF Spec

(* The configuration on disk is the one the agent runs with, unless this   *)
(* process failed to save it (main.go:126-129).                            *)
THEOREM RestartCorrect == Spec => []RestartsAsItself
BY InitInv, NextInv, InvEnough, PTL DEF Spec

(* No bootstrapped configuration on disk holds the install token           *)
(* (MarkBootstrapped, config.go:140).                                      *)
THEOREM TokenCorrect == Spec => []TokenCleared
BY InitInv, NextInv, InvEnough, PTL DEF Spec

-----------------------------------------------------------------------------
ConfigStep ==
    disk.config.boot /\ ~disk'.config.boot =>
        pc = "config" /\ disk'.config = TornConfig

LEMMA ConfigKept ==
    ASSUME IInv, disk'.config = disk.config
    PROVE  ConfigStep
BY DEF ConfigStep

LEMMA ConfigStepAlways == IInv /\ [Next]_lifecycleVars => ConfigStep
<1> SUFFICES ASSUME IInv, [Next]_lifecycleVars PROVE ConfigStep
  OBVIOUS
<1>1. CASE pc = "config" /\ disk'.config \in {disk.config, TornConfig, cfg}
  BY <1>1 DEF ConfigStep, IInv, WritesInOrder
<1>2. CASE \E f \in CertFiles : WriteCert(f) \/ WriteCertFails(f)
  <2>1. PICK f \in CertFiles : \E c : disk' = [disk EXCEPT ![f] = c]
    BY <1>2 DEF WriteCert, WriteCertFails
  <2> QED BY <2>1, ConfigKept DEF IInv, TypeOK, Writing, CertFiles
<1>3. CASE Save \/ SaveFails
  <2>1. /\ pc = "config"
        /\ \E c \in {disk.config, TornConfig, cfg} : disk' = [disk EXCEPT !.config = c]
    BY <1>3 DEF Save, SaveFails
  <2> QED BY <1>1, <2>1 DEF IInv, TypeOK, Writing
<1>4. CASE \E how \in {"stop", "crash"} : Die(how)
  <2>1. CASE pc \notin Writing
    BY <1>4, <2>1, ConfigKept DEF Die
  <2>2. CASE pc \in CertFiles
    <3>1. PICK c : disk' = [disk EXCEPT ![pc] = c]
      BY <1>4, <2>2 DEF Die, Writing
    <3> QED BY <2>2, <3>1, ConfigKept DEF IInv, TypeOK, Writing, CertFiles
  <2>3. CASE pc = "config"
    <3>1. PICK c \in {disk.config, TornConfig, cfg} : disk' = [disk EXCEPT !.config = c]
      BY <1>4, <2>3 DEF Die, PartOf, ContentOf, Writing
    <3> QED BY <1>1, <2>3, <3>1 DEF IInv, TypeOK, Writing
  <2> QED BY <2>1, <2>2, <2>3 DEF Writing
<1>5. CASE UNCHANGED disk
  BY <1>5, ConfigKept
<1> QED BY <1>2, <1>3, <1>4, <1>5
    DEF Next, Start, Expire, Run, LoadNothing, Load, LoadFails, ValidateRuntime, Check,
        VerifyIdentity, NewManagerFails, Replies, Registered, RequestFails, lifecycleVars

(* A bootstrapped configuration is lost only by a write of the file that   *)
(* is cut short (config.go:94 truncates it first).                         *)
THEOREM BootstrapCorrect == Spec => BootstrapSticks
<1>1. IInv /\ [Next]_lifecycleVars => [ConfigStep]_lifecycleVars
  BY ConfigStepAlways
<1>2. [][ConfigStep]_lifecycleVars => BootstrapSticks
  BY PTL DEF BootstrapSticks, ConfigStep
<1> QED BY <1>1, <1>2, InitInv, NextInv, PTL DEF Spec
=============================================================================
