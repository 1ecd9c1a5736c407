---------------------------- MODULE MCCheckBatch ----------------------------
(* All CPUs of one, half of them rounded up, two workers. *)
EXTENDS CheckBatch

MCParallelisms == {<<0, 1>>, <<1, 2>>, <<2, 1>>}
=============================================================================
