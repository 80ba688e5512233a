--------------------------- MODULE MCUsbControl ---------------------------
(***************************************************************************)
(* UsbControl as TLC checks it, with packets of two bytes and payloads of  *)
(* up to two packets:                                                      *)
(*   MCUsbControl         a host that completes or cuts its requests       *)
(*   MCUsbControlFaults   it also abandons requests and resets the bus     *)
(***************************************************************************)
EXTENDS UsbControl
=============================================================================
