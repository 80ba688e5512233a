-------------------------- MODULE MCAnalogOutput --------------------------
(***************************************************************************)
(* AnalogOutput with a host that either streams, writes the DAC and drives *)
(* N_SYNC, or sets up the channels without streaming and takes a pin.      *)
(***************************************************************************)
EXTENDS AnalogOutput

VARIABLE streams

MCWrites ==
    {[op |-> "start"], [op |-> "stop"], [op |-> "config"]} \cup
    {[op |-> "sync", level |-> l] : l \in BOOLEAN} \cup
    {[op |-> "mode", chan |-> c, mode |-> "DISABLED"] : c \in Channels}

MCSettings ==
    {[op |-> "link"]} \cup
    {[op |-> "mode", chan |-> c, mode |-> m] :
        c \in Channels, m \in {"DISABLED", "SVMI", "SIMV"}} \cup
    {[op |-> "command", chan |-> "A", byte |-> c] : c \in Channels} \cup
    {[op |-> "pin", chan |-> "B", pin |-> "output", level |-> l] : l \in {"0", "1", "input"}} \cup
    {[op |-> "pots", chan |-> c, wipers |-> <<"x", "y">>] : c \in {"A", "neither"}}

MCRequests == MCWrites \cup MCSettings

MCInit == Init /\ streams \in BOOLEAN

MCNext ==
    /\ Next
    /\ req' = NoReq \/ req' \in (IF streams THEN MCWrites ELSE MCSettings)
    /\ UNCHANGED streams

MCSpec == MCInit /\ [][MCNext]_<<vars, streams>>
===========================================================================
