--------------------------------- MODULE MCLock ---------------------------------
(* Lock with a few clients, a file more than can be open at once, and a lease *)
(* of some ticks.                                                             *)
EXTENDS Lock
=============================================================================
