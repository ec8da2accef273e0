------------------------ MODULE MCDeviceLifecycle ------------------------
(* The instance of DeviceLifecycle that the configurations give to TLC. *)
EXTENDS DeviceLifecycle
==========================================================================
