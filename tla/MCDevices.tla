----------------------------- MODULE MCDevices -----------------------------
(* Devices with monitors that TLC may exchange: nothing but equality is asked *)
(* of them.                                                                   *)
EXTENDS Devices, TLC

MonitorSymmetry == Permutations(Monitor)
=============================================================================
