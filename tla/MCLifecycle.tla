------------------------------ MODULE MCLifecycle -----------------------------
(* Instance of Lifecycle: the first reload takes key and model away, the   *)
(* second brings both back, so that requests get through it.               *)
EXTENDS Lifecycle

CONSTANTS r1, r2

MCRequests == { r1, r2 }
MCRevoked == { 1 }
MCWithdrawn == { 1 }
=============================================================================
