-------------------------- MODULE MCDeviceRestart ---------------------------
(* An instance of DeviceRestart for TLC: values in and out of each output's   *)
(* range.                                                                     *)
EXTENDS DeviceRestart

MCValue == {0, 1, 20}
=============================================================================
