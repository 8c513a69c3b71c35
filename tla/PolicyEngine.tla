---------------------------- MODULE PolicyEngine ----------------------------
(***************************************************************************)
(* The policy engine: internal/policy/policy.go.                           *)
(*                                                                         *)
(* Refresh asks the server for the policy and, if a whole one comes back,  *)
(* makes it the current one.  One goroutine calls it, run's; the server    *)
(* may publish another policy at any time, before and after it answered.   *)
(***************************************************************************)
CONSTANTS
    Policies,  \* the policies a server can publish
    Default    \* defaultPolicy

VARIABLES
    current,    \* Engine.current
    published,  \* the policy the server has
    fetch,      \* where Refresh is
    reply       \* the policy in the server's answer

policyVars == <<current, published, fetch, reply>>

Init ==
    /\ current = Default
    /\ published \in Policies
    /\ fetch = "idle" /\ reply = Default

Publish(p) ==
    /\ published' = p
    /\ UNCHANGED <<current, fetch, reply>>

\* Refresh sends its request, without a context.
Refresh ==
    /\ fetch = "idle"
    /\ fetch' = "waiting"
    /\ UNCHANGED <<current, published, reply>>

Answered ==
    /\ fetch = "waiting"
    /\ fetch' = "answered" /\ reply' = published
    /\ UNCHANGED <<current, published>>

\* Mutant: only the default policy is replaced.
AdoptOnce ==
    /\ fetch = "answered"
    /\ current' = IF current = Default THEN reply ELSE current
    /\ fetch' = "idle" /\ reply' = Default
    /\ UNCHANGED published

Adopt ==
    /\ fetch = "answered"
    /\ current' = reply
    /\ fetch' = "idle" /\ reply' = Default
    /\ UNCHANGED published

(* No client (a certificate file that cannot be loaded), no connection, no *)
(* answer within the client's 30 seconds, another status than 200 or a     *)
(* body that does not decode: the current policy stays.                    *)
RefreshFails ==
    /\ fetch # "idle"
    /\ fetch' = "idle" /\ reply' = Default
    /\ UNCHANGED <<current, published>>

TypeOK ==
    /\ current \in Policies \cup {Default}
    /\ published \in Policies
    /\ fetch \in {"idle", "waiting", "answered"}
    /\ reply \in IF fetch = "answered" THEN Policies ELSE {Default}
=============================================================================
