-------------------------- MODULE MCServerLifecycle --------------------------
(* Instance of ServerLifecycle for TLC: one job more than the worker has slots. *)
EXTENDS ServerLifecycle
CONSTANTS c1, c2, j1, j2, j3
TwoConnections == {c1, c2}
ThreeJobs == {j1, j2, j3}
=============================================================================
