--------------------------- MODULE MCFaultInjector ---------------------------
(* Scenarios that between them have every shape of fault, every sampler and *)
(* every kind of label.                                                     *)
EXTENDS FaultInjector

Plain == [kind |-> "pause", scoped |-> FALSE, load |-> FALSE, pressure |-> FALSE,
          peers |-> FALSE, network |-> FALSE, engine |-> FALSE, samples |-> FALSE,
          drift |-> FALSE, constraint |-> "none", duration |-> 2, label |-> "known"]

MCScenarios ==
  {[Plain EXCEPT !.network = TRUE, !.duration = 4],
   [Plain EXCEPT !.kind = "clock_skew", !.drift = TRUE, !.engine = TRUE, !.samples = TRUE,
                 !.duration = 1],
   [Plain EXCEPT !.kind = "netem", !.scoped = TRUE, !.peers = TRUE, !.constraint = "avoid",
                 !.label = "cause"],
   [Plain EXCEPT !.kind = "cgroup_io", !.load = TRUE, !.pressure = TRUE, !.constraint = "require",
                 !.duration = 4, !.label = "rest"]}
=============================================================================
