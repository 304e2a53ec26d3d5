---------------------------- MODULE SharedWindows ----------------------------
(***************************************************************************)
(* What the worker, the REST handlers and the alert engine share of the    *)
(* metrics: the rolling windows of AppState and the wall clock.            *)
(* MetricsWindow says how arrivals fill the windows, AlertEngine how they  *)
(* are read while clients edit the rules.                                  *)
(***************************************************************************)
EXTENDS RollingWindow

CONSTANTS
    Programs,
    MaxTime       \* bound

VARIABLES
    windows,      \* AppState.windows: program -> its window; the domain is what is monitored
    clock         \* Utc::now()
=============================================================================
