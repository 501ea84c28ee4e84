----------------------------- MODULE MC_Frames -----------------------------
(***************************************************************************)
(* Frames for the model-checking instances: well-formed IPv4/UDP           *)
(* datagrams as the kernel's output path builds them, and frames cut short *)
(* or of another protocol, as a packet socket may send them.               *)
(***************************************************************************)
EXTENDS Frame

MonPort  == 5000
FreePort == 5001
LPort    == 6000
SPort    == 40000
AddrA    == <<2560, 5>>    \* 10.0.0.5
AddrB    == <<2560, 6>>    \* 10.0.0.6
SrcAddr  == <<2560, 1>>    \* 10.0.0.1
ETH_P_ARP == 2054
IPPROTO_TCP == 6

MC_Ports == {MonPort, FreePort}
MC_Addrs == {AddrA, AddrB}

-----------------------------------------------------------------------------
(* Frame construction                                                      *)

EthHeader(etype) == <<0, 0, 0, 0, 0, 0, etype>>

\* version 4, ihl, tos 0, tot_len, id 0, DF, ttl 64, protocol, checksum,
\* addresses, then (ihl - 5) words of NOP options.
IpHeader(ihl, tot, proto, da, check) ==
    <<(64 + ihl) * 256, tot, 0, 16384, 64 * 256 + proto, check>>
    \o SrcAddr \o da \o [i \in 1 .. (ihl - 5) * 2 |-> 257]

\* n payload words with distinct values, so a misplaced word shows.
Payload(n) == [i \in 1 .. n |-> 4096 + i]

UdpDatagram(dp, n, check) == <<SPort, dp, 8 + 2 * n, check>> \o Payload(n)

\* The UDP checksum as the stack leaves it: the folded pseudo-header sum
\* for an offloaded checksum, else the full checksum (0 sent as 0xFFFF),
\* or 0 when the socket disabled it.
UdpCsum(dp, da, n, sum, disabled) ==
    LET pseudo == SrcAddr \o da \o <<IPPROTO_UDP, 8 + 2 * n>>
        full == FullChecksum(pseudo \o UdpDatagram(dp, n, 0))
    IN CASE sum = "PARTIAL" -> OnesSum(pseudo)
         [] disabled -> 0
         [] full = 0 -> 65535
         [] OTHER -> full

Build(etype, ihl, proto, dp, da, n, sum, disabled) ==
    LET tot == ihl * 4 + 8 + 2 * n
        ipc == FullChecksum(IpHeader(ihl, tot, proto, da, 0))
    IN EthHeader(etype) \o IpHeader(ihl, tot, proto, da, ipc)
       \o UdpDatagram(dp, n, UdpCsum(dp, da, n, sum, disabled))

Input(f, sum) == [frame |-> f, summed |-> sum]

\* Well-formed UDP datagrams to the given ports, over the given options,
\* payload lengths (in 16-bit words) and checksum modes.
DatagramsTo(ports, ihls, lens, sums, disabled) ==
    { Input(Build(ETH_P_IP, ihl, IPPROTO_UDP, dp, da, n, s, disabled), s) :
        ihl \in ihls, dp \in ports, da \in MC_Addrs, n \in lens, s \in sums }

Datagrams(ihls, lens, sums, disabled) ==
    DatagramsTo(MC_Ports, ihls, lens, sums, disabled)

\* Frames the filter passes or drops while classifying them: ARP, TCP, and
\* a monitored datagram cut inside the Ethernet, IPv4 and UDP headers.
Unclassified ==
    LET d == Build(ETH_P_IP, 5, IPPROTO_UDP, MonPort, AddrA, 2, "NONE", FALSE)
    IN { Input(Build(ETH_P_ARP, 5, IPPROTO_UDP, MonPort, AddrA, 2, "NONE", FALSE), "NONE"),
         Input(Build(ETH_P_IP, 5, IPPROTO_TCP, MonPort, AddrA, 2, "NONE", FALSE), "NONE") }
       \cup { Input(SubSeq(d, 1, k), "NONE") : k \in {6, 15, 19} }

\* A datagram whose UDP length field disagrees with what it carries (from
\* a packet socket): 0 makes bpf_skb_change_tail cut the frame, 65534
\* makes the __u16 newlen of egress.h:84 wrap round to 36.
ShortClaim ==
    LET d == Build(ETH_P_IP, 5, IPPROTO_UDP, MonPort, AddrA, 2, "NONE", FALSE)
    IN { Input([d EXCEPT ![20] = len], s) : len \in {0, 65534}, s \in {"NONE", "PARTIAL"} }

=============================================================================
