---------------------------- MODULE MCWorkerSeam ----------------------------
(* A turn of five events: run.started, two answer deltas nobody awaits,      *)
(* run.completed and run.terminated.                                         *)
EXTENDS WorkerSeam

MCAwaited == {1, 4, 5}
=============================================================================
