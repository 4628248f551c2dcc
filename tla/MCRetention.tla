---------------------------- MODULE MCRetention ----------------------------
(* An instance of retention for TLC: a namespace that is always configured and *)
(* one that comes and goes.                                                   *)
EXTENDS Retention

CONSTANTS home, group

HomeOrBoth == {{home}, {home, group}}
=============================================================================
