-------------------------- MODULE MC_ChecksumPatch --------------------------
(* Model-checking instance of ChecksumPatch: three covered words and the   *)
(* values around the one's complement carry and the two zeros.             *)
EXTENDS ChecksumPatch

\* 0, 1, 0x7FFF, 0x8000, 0xFFFE, 0xFFFF
MC_Vals == {0, 1, 32767, 32768, 65534, 65535}

=============================================================================
