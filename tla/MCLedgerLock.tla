--------------------------- MODULE MCLedgerLock ---------------------------
(* Constant values of the TLC runs of LedgerLock. *)
EXTENDS LedgerLock, TLC

CONSTANTS p1, p2, p3, w1, w2, w3, w4

\* One supervisor at a time with two workers, the last of the two processes
\* under the pid of the first, as in a container.
MCWorkersOne == {w1, w2, w3, w4}
MCProcOfOne == (w1 :> p1) @@ (w2 :> p1) @@ (w3 :> p2) @@ (w4 :> p2)
MCSamePid == (p1 :> 1) @@ (p2 :> 1)
MCOwnPid == (p1 :> 1) @@ (p2 :> 2)

\* Two daemons at once.
MCProcOfTwo == (w1 :> p1) @@ (w2 :> p2)
=============================================================================
