----------------------------- MODULE MCBitPacker ----------------------------
(* Instances of the bit packer: see the configurations.                      *)
EXTENDS BitPacker
=============================================================================
