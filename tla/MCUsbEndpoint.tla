--------------------------- MODULE MCUsbEndpoint ---------------------------
(* Bounds for the model checker of UsbEndpoint: a transfer with a short      *)
(* packet, one of two packets and one of two DMA transfers.                  *)
EXTENDS UsbEndpoint

MCSizes == {3, 6}
============================================================================
