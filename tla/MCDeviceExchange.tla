------------------------- MODULE MCDeviceExchange -------------------------
(* A small instance of DeviceExchange for TLC: a plain and a guarded       *)
(* command, a device that remembers one answer and a Gateway that          *)
(* remembers few receipts.                                                 *)
EXTENDS DeviceExchange

CONSTANTS plain, guarded
=============================================================================
