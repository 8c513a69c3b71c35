------------------------- MODULE TelemetryDelivery -------------------------
(***************************************************************************)
(* What the telemetry pipeline promises its callers, without queues, files *)
(* or retries: a data point that Send took in is delivered or still held;  *)
(* only the end of the agent process can lose it, and a lost point never   *)
(* reaches the server later.                                               *)
(***************************************************************************)
CONSTANT Points

VARIABLES
    accepted,   \* the data points handed to Send
    delivered,  \* those the server has received
    lost,       \* those that can no longer be delivered
    running     \* the agent process is alive

vars == <<accepted, delivered, lost, running>>

Init ==
    /\ accepted = {} /\ delivered = {} /\ lost = {}
    /\ running = FALSE

Start ==
    /\ ~running /\ running' = TRUE
    /\ UNCHANGED <<accepted, delivered, lost>>

Accept(p) ==
    /\ running /\ p \notin accepted
    /\ accepted' = accepted \cup {p}
    /\ UNCHANGED <<delivered, lost, running>>

\* One request delivers any number of held points at once, maybe not the first time.
Deliver(S) ==
    /\ running /\ S \subseteq accepted \ lost
    /\ delivered' = delivered \cup S
    /\ UNCHANGED <<accepted, lost, running>>

\* The end of the process loses any undelivered points.
Stop(S) ==
    /\ running /\ running' = FALSE
    /\ S \subseteq accepted \ delivered
    /\ lost' = lost \cup S
    /\ UNCHANGED <<accepted, delivered>>

Next ==
    \/ Start
    \/ \E p \in Points : Accept(p)
    \/ \E S \in SUBSET Points : Deliver(S) \/ Stop(S)

Spec == Init /\ [][Next]_vars
=============================================================================
