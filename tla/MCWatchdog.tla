---------------------------- MODULE MCWatchdog ----------------------------
(* Watchdog on small bounds: short timers, one level of recovery and sets  *)
(* of events that may happen together.                                     *)
EXTENDS Watchdog

Budget(w, x, i, r) ==
  [e \in {"warm", "extra", "intent", "bmcReset"} |->
     CASE e = "warm" -> w [] e = "extra" -> x [] e = "intent" -> i [] OTHER -> r]

Outcome(b, p) == [f \in {"bmc", "pch"} |-> IF f = "bmc" THEN b ELSE p]

Scenario(b, p, bound) == [auth |-> Outcome(b, p), bound |-> bound]

\* budgets: warm reset, extra checkpoint, update intent, reset of the BMC by itself
MCScenarios ==
  { Scenario("ok", "ok",        Budget(0, 0, 0, 0)),
    Scenario("recFailed", "ok", Budget(1, 0, 0, 0)),
    Scenario("recFailed", "ok", Budget(0, 1, 0, 0)),
    Scenario("recFailed", "ok", Budget(0, 0, 1, 0)),
    Scenario("ok", "recFailed", Budget(0, 1, 0, 1)),
    Scenario("ok", "recFailed", Budget(0, 0, 1, 0)),
    Scenario("ok", "allFailed", Budget(0, 0, 1, 1)) }

\* the BMC may restart by itself while T-1 of the PCH keeps the Nios busy
BmcRestarts == { Scenario("ok", "recFailed", Budget(0, 0, 1, 1)) }
===========================================================================
