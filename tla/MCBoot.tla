------------------------------ MODULE MCBoot ------------------------------
(* Watchdog periods of six and three ticks, and the board's frequencies. *)
EXTENDS Boot, Sequences

MCFws == <<24, 40, 72, 84>>
===========================================================================
