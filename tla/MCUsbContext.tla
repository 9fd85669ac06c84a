---------------------------- MODULE MCUsbContext ----------------------------
(* Small instances of UsbContext for TLC.                                  *)
EXTENDS UsbContext
=============================================================================
