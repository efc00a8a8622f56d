---------------------------- MODULE MCSessionPool ----------------------------
(***************************************************************************)
(* Instance of SessionPool for TLC: three users compete for one to three   *)
(* places, and the clock runs past the longer TTL twice.  Users are not    *)
(* symmetric here, as the run checks liveness.                             *)
(***************************************************************************)
EXTENDS SessionPool

SmallTtls == 1..2

SmallCaps == 1..3
=============================================================================
