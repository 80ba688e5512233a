--------------------------- MODULE MCFlashTable ---------------------------
(***************************************************************************)
(* A flash of two lock regions of two pages: three of program, and the     *)
(* table page, which holds a byte of calibration, the mark and the serial  *)
(* number.  The first region is locked, and the table's may be.            *)
(***************************************************************************)
EXTENDS FlashTable

CONSTANTS v, w

MCValues == {v, w}

\* The program does not change: one value stands for it.
MCInit ==
    /\ mem \in {m \in [Addresses -> Values] : \A a \in 0 .. TableBase - 1 : m[a] = v}
    /\ TableInit /\ 0 \in lock

MCSpec == MCInit /\ [][Next]_vars /\ WF_vars(Device)
===========================================================================
