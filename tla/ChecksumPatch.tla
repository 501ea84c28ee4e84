---------------------------- MODULE ChecksumPatch ----------------------------
(***************************************************************************)
(* The ChecksumUpdater on its own: a block of 16-bit words covered by one  *)
(* checksum, whose words are overwritten one at a time, each write         *)
(* followed by the incremental patch egress.h issues for it               *)
(* (bpf_l4_csum_replace with flags 2 on a checksum that is not offloaded,  *)
(* egress.h:70 and 192).  The patched checksum is compared with the        *)
(* reference, a checksum computed from scratch over the current words.    *)
(***************************************************************************)
EXTENDS Checksum, Sequences

CONSTANTS
    N,           \* number of covered words
    Vals,        \* values a word may hold or be overwritten with
    Mangled0     \* whether the caller passes BPF_F_MARK_MANGLED_0

ASSUME /\ N \in Nat \ {0}
       /\ Vals \subseteq Word16
       /\ Mangled0 \in BOOLEAN

VARIABLES words, check

vars == <<words, check>>

\* A UDP sender transmits a computed checksum of zero as all ones (RFC 768).
SenderChecksum(ws) ==
    IF FullChecksum(ws) = 0 THEN 65535 ELSE FullChecksum(ws)

TypeOK ==
    /\ words \in [1 .. N -> Vals]
    /\ check \in Word16

Init ==
    /\ words \in [1 .. N -> Vals]
    /\ check = SenderChecksum(words)

\* Overwrite word i with v, then patch the checksum with (old, new).
Patch(i, v) ==
    /\ words' = [words EXCEPT ![i] = v]
    /\ check' = L4Replace(check, words[i], v, FALSE, Mangled0, "NONE")

Next == \E i \in 1 .. N, v \in Vals : Patch(i, v)

Spec == Init /\ [][Next]_vars

-----------------------------------------------------------------------------
(* Properties                                                              *)

\* After any sequence of writes, each followed by its incremental patch, a
\* receiver still accepts the block: the patched checksum agrees with one
\* computed from scratch over the current words, or reads as "no checksum"
\* (0).  This is what the patches at egress.h:70 and 192 rely on.
PatchedChecksumVerifies ==
    check = 0 \/ Verifies(words \o <<check>>)

\* Spec section 8: a patch whose old and new value are equal (the words do
\* not change) leaves the checksum field bitwise unchanged.
NoOpPatchKeepsChecksum ==
    [][words' = words => check' = check]_vars

=============================================================================
