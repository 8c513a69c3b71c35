--------------------------- MODULE HealthMonitor ---------------------------
(***************************************************************************)
(* The health monitor: internal/health/health.go.                          *)
(*                                                                         *)
(* Start has one goroutine send a heartbeat at once and then on a ticker,  *)
(* until Stop closes stopCh or the context is done.                        *)
(***************************************************************************)
VARIABLES
    monitor,         \* where the goroutine is
    monitorClosed,   \* Monitor.stopCh is closed
    monitorPanic,    \* the monitor killed the process
    intervalSet,     \* cfg.HeartbeatInterval is positive
    ctxDone          \* the context given to Start is done

monitorVars == <<monitor, monitorClosed, monitorPanic, intervalSet>>

\* A configuration file may leave heartbeat_interval out; no validation looks at it.
Init ==
    /\ monitor = "off"
    /\ monitorClosed = FALSE /\ monitorPanic = FALSE
    /\ intervalSet \in BOOLEAN

Goes(from, to) ==
    /\ monitor = from
    /\ monitor' = to
    /\ UNCHANGED <<monitorClosed, intervalSet>>

Start == Goes("off", "starting") /\ UNCHANGED monitorPanic

\* time.NewTicker panics for an interval that is not positive.
NewTicker ==
    /\ Goes("starting", "beating")
    /\ monitorPanic' = ~intervalSet

\* The request ended, within the client's 30 seconds, well or not.
HeartbeatEnds == Goes("beating", "waiting") /\ UNCHANGED monitorPanic

Tick == Goes("waiting", "beating") /\ UNCHANGED monitorPanic

MonitorReturns ==
    /\ monitorClosed \/ ctxDone
    /\ Goes("waiting", "done") /\ UNCHANGED monitorPanic

\* Closing stopCh a second time panics.
Stop ==
    /\ monitorClosed' = TRUE
    /\ monitorPanic' = monitorClosed
    /\ UNCHANGED <<monitor, intervalSet>>

TypeOK ==
    /\ monitor \in {"off", "starting", "beating", "waiting", "done"}
    /\ {monitorClosed, monitorPanic, intervalSet} \subseteq BOOLEAN
=============================================================================
