-------------------------- MODULE MCDeviceHandoff --------------------------
(***************************************************************************)
(* Model values for DeviceHandoff: the devices are interchangeable, every  *)
(* definition treats them alike, and no run that uses the symmetry checks  *)
(* liveness.                                                               *)
(***************************************************************************)
EXTENDS DeviceHandoff, TLC

Symmetry == Permutations(Devices)
=============================================================================
