----------------------------- MODULE MCHardDisk -----------------------------
(* Small instances of HardDisk for TLC.                                    *)
EXTENDS HardDisk

=============================================================================
