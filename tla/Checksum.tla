------------------------------ MODULE Checksum ------------------------------
(***************************************************************************)
(* Internet checksum arithmetic used by the egress filter.                 *)
(*                                                                         *)
(* egress.h never computes a checksum itself: it calls the kernel helpers  *)
(* bpf_l3_csum_replace and bpf_l4_csum_replace with the old and the new    *)
(* value of a 16-bit field (egress.h:70, 106, 192, 193).  Those helpers    *)
(* apply RFC 1624 eqn. 3, HC' = ~(~HC + ~m + m'), in 16-bit one's          *)
(* complement arithmetic (csum_replace2 / inet_proto_csum_replace2).       *)
(* Which of them touches the field depends on the skb's ip_summed mode    *)
(* and on the BPF_F_PSEUDO_HDR and BPF_F_MARK_MANGLED_0 flags, so the      *)
(* operators below take those as arguments.                                *)
(*                                                                         *)
(* A 16-bit field is held as the integer value of its two bytes in network *)
(* order.  One's complement sums do not depend on byte order (RFC 1071),   *)
(* so this equals the kernel's arithmetic on raw memory.                   *)
(***************************************************************************)
EXTENDS Naturals, SequencesExt

Word16 == 0 .. 65535

\* ~x on a 16-bit field.
Not16(x) == 65535 - x

\* Mutant of OnesAdd: the carry out of bit 15 is dropped instead of folded.
OnesAddNoCarry(a, b) == a + b

\* 16-bit one's complement addition: the carry out of bit 15 is added back
\* (csum_add followed by csum_fold's end-around carry).
OnesAdd(a, b) == IF a + b > 65535 THEN a + b - 65535 ELSE a + b

\* One's complement sum of a sequence of 16-bit words.
OnesSum(ws) == FoldLeft(OnesAdd, 0, ws)

\* Reference definition: the checksum of a sequence of words computed from
\* scratch, as the sender writes it into the header.
FullChecksum(ws) == Not16(OnesSum(ws))

\* A receiver accepts a block of words that contains its checksum iff their
\* one's complement sum is "minus zero" (all ones).
Verifies(ws) == OnesSum(ws) = 65535

\* Mutant of CsumReplace2: old and new value passed in swapped order.
CsumReplace2Swapped(check, from, to) ==
    Not16(OnesAdd(OnesAdd(Not16(check), Not16(to)), from))

(***************************************************************************)
(* csum_replace2(sum, from, to): RFC 1624 eqn. 3 as the kernel computes    *)
(* it, used by bpf_l3_csum_replace (egress.h:106) and, for a checksum that *)
(* is not offloaded, by bpf_l4_csum_replace (egress.h:70, 192, 193).       *)
(***************************************************************************)
CsumReplace2(check, from, to) ==
    Not16(OnesAdd(OnesAdd(Not16(check), Not16(from)), to))

(***************************************************************************)
(* bpf_l4_csum_replace(skb, off, from, to, flags) on the field value       *)
(* check, for an skb whose ip_summed is summed ("NONE" or "PARTIAL").     *)
(*  - BPF_F_MARK_MANGLED_0 (mangled0): a zero checksum means "no checksum" *)
(*    and is left alone, and a result of zero is written as 0xFFFF.        *)
(*  - CHECKSUM_PARTIAL: the field holds the folded pseudo-header sum that  *)
(*    the NIC completes; only a pseudo-header change (BPF_F_PSEUDO_HDR)    *)
(*    updates it, by adding ~from + to; other changes are covered by the   *)
(*    NIC and leave it untouched.                                          *)
(* egress.h passes flags 2 (size only) or BPF_F_PSEUDO_HDR | 2, never      *)
(* BPF_F_MARK_MANGLED_0.                                                   *)
(***************************************************************************)
L4Replace(check, from, to, pseudo, mangled0, summed) ==
    CASE summed = "PARTIAL" /\ pseudo ->
            OnesAdd(OnesAdd(check, Not16(from)), to)
      [] summed = "PARTIAL" -> check
      [] mangled0 /\ check = 0 -> 0
      [] mangled0 /\ CsumReplace2(check, from, to) = 0 -> 65535
      [] OTHER -> CsumReplace2(check, from, to)

=============================================================================
