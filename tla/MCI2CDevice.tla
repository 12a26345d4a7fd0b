---------------------------- MODULE MCI2CDevice -----------------------------
(* Instances of I2CDevice small enough for TLC. *)
EXTENDS I2CDevice
=============================================================================
