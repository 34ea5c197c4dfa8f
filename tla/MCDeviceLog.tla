----------------------------- MODULE MCDeviceLog -----------------------------
(* Instances of DeviceLog and DeviceLogReading for TLC.                    *)
EXTENDS DeviceLogReading

WriterSymmetry == Permutations(Signers) \cup Permutations(Writers \ Signers)
=============================================================================
