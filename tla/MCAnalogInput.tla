-------------------------- MODULE MCAnalogInput --------------------------
(***************************************************************************)
(* One converter, the timer started and stopped at any moment, and one of  *)
(* two hosts: the first gives a slot another configuration, the second     *)
(* reads the temperature; either may take pins.                            *)
(***************************************************************************)
EXTENDS AnalogInput

VARIABLE host     \* the requests this host uses

MCConverters == {"B"}

MCTimer == {[op |-> "start"], [op |-> "stop"]}
MCPins  == {[op |-> "pin", pin |-> "CNV"], [op |-> "pin", pin |-> "B"]}
MCConfs == {[op |-> "conf", name |-> "i2_adc_conf", word |-> "v2_adc_conf"]}
MCReadings == {[op |-> "temperature", chan |-> "B"]}

MCRequests == MCTimer \cup MCPins \cup MCConfs \cup MCReadings

MCInit == Init /\ host \in {MCTimer \cup MCPins \cup MCConfs, MCTimer \cup MCPins \cup MCReadings}

MCNext == Next /\ req' \in host \cup {NoReq} /\ UNCHANGED host

MCSpec == MCInit /\ [][MCNext]_<<vars, host>> /\ SF_vars(Handler) /\ WF_vars(Pdc)
===========================================================================
