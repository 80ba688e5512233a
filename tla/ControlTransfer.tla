-------------------------- MODULE ControlTransfer --------------------------
(***************************************************************************)
(* What udd.h and udc.h promise of a control request, seen from outside    *)
(* the driver: a request that the firmware supports moves its payload from *)
(* the first byte to the last and succeeds; its callback runs once, after  *)
(* the host has seen the end of its status stage and before another        *)
(* request ends; only a request that is not supported fails.               *)
(***************************************************************************)
EXTENDS Integers

CONSTANTS Requests,       \* records with dir, len (wLength), size and cb
          Supported(_)    \* the firmware answers a request as the host expects

VARIABLES
    phase,      \* "idle" or "run"
    req,        \* the last request
    moved,      \* bytes of its payload the host has got, or the device has stored
    cut,        \* the host has ended the data stage early
    outcome,    \* how the last request ended
    due         \* a request with a callback has ended and the callback not run

transferVars == <<phase, req, moved, cut, outcome, due>>

Payload(r) == IF r.dir = "in" /\ r.size < r.len THEN r.size ELSE r.len

TransferInit ==
    /\ phase = "idle" /\ moved = 0 /\ cut = FALSE /\ outcome = "none" /\ due = FALSE
    /\ req = [dir |-> "out", len |-> 0, size |-> 0, cb |-> FALSE, ok |-> TRUE]

\* The next request may overtake the callback of the last one.
Ask(r) ==
    /\ phase = "idle"
    /\ phase' = "run" /\ req' = r /\ moved' = 0 /\ cut' = FALSE /\ outcome' = "none"
    /\ UNCHANGED due

Move ==
    /\ phase = "run"
    /\ moved' \in moved .. Payload(req)
    /\ UNCHANGED <<phase, req, cut, outcome, due>>

Cut ==
    /\ phase = "run" /\ req.dir = "in"
    /\ cut' = TRUE
    /\ UNCHANGED <<phase, req, moved, outcome, due>>

End(result) ==
    /\ phase = "run"
    /\ phase' = "idle" /\ outcome' = result
    /\ UNCHANGED <<req, moved, cut>>

Succeed ==
    /\ ~due /\ (cut \/ moved = Payload(req))
    /\ End("ok") /\ due' = req.cb

Fail ==
    /\ ~Supported(req) /\ ~req.cb
    /\ \E result \in {"stall", "timeout"} : End(result)
    /\ UNCHANGED due

Callback ==
    /\ due /\ due' = FALSE
    /\ UNCHANGED <<phase, req, moved, cut, outcome>>

TransferNext ==
    \/ \E r \in Requests : Ask(r)
    \/ Move \/ Cut \/ Succeed \/ Fail \/ Callback

TransferSpec == TransferInit /\ [][TransferNext]_transferVars
============================================================================
