----------------------------- MODULE MCDeviceFlow -----------------------------
(* DeviceFlow with the model values of the MCDevice*.cfg files.              *)
EXTENDS DeviceFlow
===============================================================================
