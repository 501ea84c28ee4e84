\* The flags egress.h passes: no BPF_F_MARK_MANGLED_0.
CONSTANTS
    N = 3
    Vals <- MC_Vals
    Mangled0 = FALSE
SPECIFICATION Spec


PROPERTY NoOpPatchKeepsChecksum
