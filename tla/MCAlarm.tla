------------------------------- MODULE MCAlarm -------------------------------
(***************************************************************************)
(* Alarm on three threads.  timer_sleep accepts any number of ticks: one   *)
(* that is not positive and one that lasts.  There is no symmetry set: the *)
(* run checks liveness.                                                    *)
(***************************************************************************)
EXTENDS Alarm

SomeDurations == {-1, 2}
==============================================================================
