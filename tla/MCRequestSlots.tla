--------------------------- MODULE MCRequestSlots ---------------------------
\* RequestSlots with three threads of two processes.
EXTENDS RequestSlots, TLC

CONSTANTS c1, c2, c3, worker, scheduler

MCCallers == {c1, c2, c3}
MCProcesses == {worker, scheduler}
MCProcessOf == c1 :> worker @@ c2 :> worker @@ c3 :> scheduler
=============================================================================
