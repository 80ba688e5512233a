---------------------------- MODULE MCStreaming ----------------------------
(***************************************************************************)
(* Streaming with three kinds of hosts, one of which each behaviour has:   *)
(* one that stops the stream and starts another, one that restarts a       *)
(* running stream, and one that halts the endpoints and reconfigures the   *)
(* device.  The second takes no packets but the first, and the main loop   *)
(* stands still with it: neither touches what SlotsAligned is about.       *)
(***************************************************************************)
EXTENDS Streaming

VARIABLE kind

mcVars == <<vars, kind>>

Kinds == {{"serve", "stop"}, {"restart_running"}, {"serve", "halt", "reconfigure"}}

MCInit == Init /\ kind \in Kinds

Does(op) == op \in kind

MCNext ==
    /\ \/ TickA \/ TickB \/ C5Step \/ UsbEnable
       \/ IF Does("serve") THEN Main ELSE UNCHANGED vars
       \/ \E f \in Frames : Sof(f) \/ ((timerOn => Does("restart_running")) /\ C5Begin(f))
       \/ \E d \in Dir : (Does("serve") \/ job[d].cb = "first") /\ DmaDone(d)
       \/ Does("stop") /\ C5Stop
       \/ Does("halt") /\ \E d \in Dir : EpSetHalt(d) \/ EpClearHalt(d)
       \/ Does("reconfigure") /\ UsbDisable
    /\ UNCHANGED kind

MCSpec == MCInit /\ [][MCNext]_mcVars

\* One session of a host that serves both endpoints and does nothing else.
LiveInit == Init /\ kind = {"serve"}
LiveSpec == LiveInit /\ [][MCNext]_mcVars /\ Fairness

\* What a raced last restart leads to is not explored: raced then stays TRUE
\* and SlotsAligned says nothing.  Nor is a dirty session that no start request
\* can follow, its host never stopping the timer.
StillOfInterest ==
    /\ Does("restart_running") /\ starts = MaxStarts /\ c5.at = "idle" => ~raced
    /\ Does("halt") /\ session = "dirty" => starts < MaxStarts /\ ~timerOn
=============================================================================
