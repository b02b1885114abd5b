--------------------------- MODULE MCFrontendTasks ---------------------------
(* A batch of two inputs from urls, and a call that returns fields.        *)
EXTENDS FrontendTasks

CONSTANTS batch, single, t1, t2, t3

MCTasksOf == [c \in Calls |-> IF c = batch THEN {t1, t2} ELSE {t3}]
MCEndpoint == [c \in Calls |-> IF c = batch THEN "url" ELSE "fields"]
=============================================================================
