-------------------------- MODULE MCClientTimers --------------------------
(* Small instance of the web client's timers. *)
EXTENDS ClientTimers

\* Three seconds make a minute, two minutes an hour: short units make all
\* changes of unit happen within a short run.
ShortUnits == <<3, 2>>
============================================================================
