------------------------------ MODULE BulkJob ------------------------------
(***************************************************************************)
(* What the user of a bulk endpoint can rely on.  udd.h promises that a    *)
(* transfer which udd_ep_run accepts is answered by exactly one call of    *)
(* its callback, when it is finished or aborted; no transfer is accepted   *)
(* before that.  A finished transfer reports the bytes that were moved,    *)
(* which for an IN endpoint are all of them.                               *)
(*                                                                         *)
(* A transfer can be torn while it is set up.  Nothing is promised of its  *)
(* answer; everything is of the next transfer.                             *)
(***************************************************************************)
EXTENDS Integers

CONSTANT Sizes      \* the transfer sizes in bytes

VARIABLES dir,      \* "in" or "out"; only read here
          phase,    \* "idle", "setup", "run" or "torn"
          want,     \* size of the transfer that runs
          moved,    \* bytes of it moved so far
          calls,    \* callbacks so far
          report    \* whose the last one was, its status and size

jobVars == <<phase, want, moved, calls, report>>

JobInit ==
    /\ phase = "idle" /\ want = 0 /\ moved = 0
    /\ calls = 0 /\ report = <<"none", "none", 0>>

Accept ==
    /\ phase = "idle" /\ phase' \in {"setup", "torn"}
    /\ UNCHANGED <<want, moved, calls, report>>

Start(n) ==
    /\ phase = "setup"
    /\ phase' = "run" /\ want' = n /\ moved' = 0
    /\ UNCHANGED <<calls, report>>

\* An OUT transfer may have ended before it has begun.
StartEnded ==
    /\ phase = "setup" /\ dir = "out" /\ phase' = "idle"
    /\ calls' = calls + 1 /\ report' = <<"own", "ok", 0>>
    /\ UNCHANGED <<want, moved>>

Move ==
    /\ phase = "run"
    /\ moved' \in moved .. want
    /\ UNCHANGED <<phase, want, calls, report>>

End(status, n) ==
    /\ phase = "run"
    /\ phase' = "idle" /\ want' = 0 /\ moved' = 0
    /\ calls' = calls + 1 /\ report' = <<"own", status, n>>

Finish == (dir = "in" => moved = want) /\ End("ok", moved)

Abort == \E n \in 0 .. want : End("abort", n)

\* report' is whatever the callback, if one is called, is given.
Torn ==
    /\ \/ phase = "setup" /\ phase' = "torn"
       \/ phase = "torn" /\ phase' \in {"torn", "idle"}
    /\ calls' \in {calls, calls + 1} /\ (calls' = calls => report' = report)
    /\ UNCHANGED <<want, moved>>

JobNext ==
    \/ Accept \/ \E n \in Sizes : Start(n)
    \/ StartEnded \/ Move \/ Finish \/ Abort \/ Torn

JobSpec == JobInit /\ [][JobNext]_jobVars
============================================================================
