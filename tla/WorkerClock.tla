---------------------------- MODULE WorkerClock ----------------------------
(***************************************************************************)
(* time.monotonic() of one worker process, which both the rate limiter and *)
(* the key cache read.  MaxTime bounds it.                                 *)
(***************************************************************************)
EXTENDS Integers

CONSTANT MaxTime
VARIABLE clock
=============================================================================
