---------------------------- MODULE MCWorkerProcess ----------------------------
(* WorkerProcess for TLC: everything it needs is given in the cfg file. *)
EXTENDS WorkerProcess
=================================================================================
