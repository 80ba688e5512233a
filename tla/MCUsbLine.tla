----------------------------- MODULE MCUsbLine -----------------------------
(* Bounds for the model checker of UsbLine and UdcCore. *)
EXTENDS UsbLine

OneAddress == {1}
===========================================================================
