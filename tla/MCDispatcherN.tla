---------------------------- MODULE MCDispatcherN ----------------------------
(* TiaraDispatcherN for TLC: three MPs, and one tag more than MPs, so that  *)
(* the caller can wait for a free MP.                                      *)
EXTENDS TiaraDispatcherN
=============================================================================
