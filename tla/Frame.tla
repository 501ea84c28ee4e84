------------------------------- MODULE Frame -------------------------------
(***************************************************************************)
(* The frame the egress filter works on (skb->data .. skb->data_end), the  *)
(* header fields it reads and writes, its bounds checks and the kernel     *)
(* helpers it calls to resize the frame and patch checksums.              *)
(*                                                                         *)
(* A frame is a sequence of 16-bit words; byte offset o (always even in    *)
(* this program) is word o \div 2 + 1.  A word holds the value of its two  *)
(* bytes in network order, so the field a C expression bpf_ntohs(p->x)     *)
(* reads is the word itself and bpf_htons(v) stores v % 2^16 into it.     *)
(* Header sizes and offsets are those of <linux/if_ether.h>, <linux/ip.h>, *)
(* <linux/udp.h> and types.h.                                              *)
(***************************************************************************)
EXTENDS Checksum, Integers, Sequences

ETH_HLEN    == 14        \* sizeof(struct ethhdr)
ETH_P_IP    == 2048      \* 0x0800
IPHDR_SIZE  == 20        \* sizeof(struct iphdr)
UDPHDR_SIZE == 8         \* sizeof(struct udphdr)
IPPROTO_UDP == 17
CDATA_SIZE  == 4         \* sizeof(struct turn_cdata), pad_len
MAX_MTU     == 40        \* egress.h:4, bytes the payload shift loop covers

\* helpers.h:14-15.  UDP_CSUM_OFF assumes an IPv4 header without options.
IP_CSUM_OFF  == ETH_HLEN + 10
UDP_CSUM_OFF == ETH_HLEN + IPHDR_SIZE + 6

\* TURN ChannelData header written by egress.h:184-189 (0xAABB, 0xCCDD).
CDATA_WORDS == <<43707, 52445>>

-----------------------------------------------------------------------------
(* Access                                                                  *)

ByteLen(f) == 2 * Len(f)

\* The verifier-style check "(void *)(p + 1) > data_end" fails iff a
\* header of size bytes at byte offset off does not fit in the frame.
Fits(f, off, size) == off + size <= ByteLen(f)

Get16(f, off) == f[off \div 2 + 1]
Put16(f, off, v) == [f EXCEPT ![off \div 2 + 1] = v]

\* A __u32 access (the payload shift loop, the turn_cdata store).  A load
\* past data_end is never stored: the next iteration's bounds check fails
\* first, so its value is irrelevant and taken as zero.
GetWord(f, off) ==
    IF Fits(f, off, 4) THEN <<Get16(f, off), Get16(f, off + 2)>> ELSE <<0, 0>>
PutWord(f, off, w) == Put16(Put16(f, off, w[1]), off + 2, w[2])

\* A store of the 16-bit words ws at byte offset off (a struct assignment).
PutWords(f, off, ws) ==
    [i \in DOMAIN f |-> IF i - off \div 2 \in DOMAIN ws THEN ws[i - off \div 2] ELSE f[i]]

\* n 16-bit words starting at byte offset off
Words(f, off, n) == SubSeq(f, off \div 2 + 1, off \div 2 + n)

-----------------------------------------------------------------------------
(* Header fields                                                           *)

EthProto(f) == Get16(f, 12)                              \* eth->h_proto
Ihl(f)      == (Get16(f, ETH_HLEN) \div 256) % 16        \* iph->ihl
TOT_LEN_OFF == ETH_HLEN + 2
TotLen(f)   == Get16(f, TOT_LEN_OFF)                     \* iph->tot_len
Protocol(f) == Get16(f, ETH_HLEN + 8) % 256              \* iph->protocol
Saddr(f)    == <<Get16(f, ETH_HLEN + 12), Get16(f, ETH_HLEN + 14)>>
Daddr(f)    == <<Get16(f, ETH_HLEN + 16), Get16(f, ETH_HLEN + 18)>>

\* The UDP header as the filter locates it: iph + (iph->ihl << 2).
UdpOff(f)   == ETH_HLEN + Ihl(f) * 4
UdpDest(f)  == Get16(f, UdpOff(f) + 2)                   \* udp->dest
UdpLen(f)   == Get16(f, UdpOff(f) + 4)                   \* udp->len
UdpCheck(f) == Get16(f, UdpOff(f) + 6)                   \* udp->check

\* The classification stages of egress.h:28-47, each including the ones
\* before it.
EthFits(f) == Fits(f, 0, ETH_HLEN)
IsIPv4(f)  == EthFits(f) /\ EthProto(f) = ETH_P_IP
IpFits(f)  == IsIPv4(f) /\ Fits(f, ETH_HLEN, IPHDR_SIZE)
IsUdp(f)   == IpFits(f) /\ Protocol(f) = IPPROTO_UDP
UdpFits(f) == IsUdp(f) /\ Fits(f, UdpOff(f), UDPHDR_SIZE)

\* The header fields a frame is judged by as it leaves the filter.
HeaderSummary(f) ==
    IF UdpFits(f)
    THEN [dest |-> UdpDest(f), tot |-> TotLen(f), udp |-> UdpLen(f), len |-> ByteLen(f)]
    ELSE [dest |-> 0, tot |-> 0, udp |-> 0, len |-> ByteLen(f)]

-----------------------------------------------------------------------------
(* Kernel helpers called by the filter                                     *)

\* Mutant of L3Patch: the IPv4 header checksum is not patched.
L3PatchSkipped(f, off, from, to) == f

\* bpf_l3_csum_replace(skb, off, from, to, 2); its error return (offset
\* outside the frame) is ignored by the filter, leaving the frame as is.
L3Patch(f, off, from, to) ==
    IF Fits(f, off, 2)
    THEN Put16(f, off, CsumReplace2(Get16(f, off), from, to))
    ELSE f

\* bpf_l4_csum_replace(skb, off, from, to, flags) without
\* BPF_F_MARK_MANGLED_0, for an skb whose ip_summed is summed.
L4Patch(f, off, from, to, pseudo, summed) ==
    IF Fits(f, off, 2)
    THEN Put16(f, off, L4Replace(Get16(f, off), from, to, pseudo, FALSE, summed))
    ELSE f

\* bpf_skb_change_tail(skb, len, 0) refuses a length below
\* __bpf_skb_min_len: the transport header offset, or for an offloaded
\* checksum the end of the checksum field.  The stack sets the transport
\* header right after the IPv4 header it built, iph_len bytes long.
ChangeTailMinLen(iph_len, summed) ==
    IF summed = "PARTIAL" THEN ETH_HLEN + iph_len + UDPHDR_SIZE
                          ELSE ETH_HLEN + iph_len

\* The frame after a successful bpf_skb_change_tail to len bytes: cut, or
\* extended with zero words (bpf_skb_grow_rcsum clears what it adds).
Resize(f, len) ==
    IF len <= ByteLen(f) THEN SubSeq(f, 1, len \div 2)
    ELSE f \o [i \in 1 .. (len - ByteLen(f)) \div 2 |-> 0]

-----------------------------------------------------------------------------
(* Well-formedness as a receiver checks it                                 *)

PseudoHeader(f) == Saddr(f) \o Daddr(f) \o <<IPPROTO_UDP, UdpLen(f)>>

IpChecksumOk(f) == Verifies(Words(f, ETH_HLEN, Ihl(f) * 2))

\* Without offload the UDP checksum covers pseudo-header and datagram (0
\* means "no checksum"); with CHECKSUM_PARTIAL the field must hold the
\* folded pseudo-header sum that the NIC completes.
UdpChecksumOk(f, summed) ==
    /\ Fits(f, UdpOff(f), UdpLen(f))
    /\ IF summed = "PARTIAL"
       THEN UdpCheck(f) = OnesSum(PseudoHeader(f))
       ELSE UdpCheck(f) = 0
            \/ Verifies(PseudoHeader(f) \o Words(f, UdpOff(f), UdpLen(f) \div 2))

=============================================================================
