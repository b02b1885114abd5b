---------------------------- MODULE MCVideoWorker ----------------------------
(* Both kinds of workers on short streams.                                 *)
EXTENDS VideoWorker
=============================================================================
