----------------------------- MODULE MC_Egress -----------------------------
(***************************************************************************)
(* Model-checking instance of Egress: the frames the filter is given and  *)
(* the egress_map the control plane starts from.                           *)
(*                                                                         *)
(* One monitored port (5000) with two destination addresses, and one port *)
(* nobody monitors.  Frames are built as the kernel's IPv4/UDP output path *)
(* builds them (correct lengths and checksums, offloaded or not), and a   *)
(* few are cut short or carry a different EtherType or protocol, as a     *)
(* packet socket may send them.                                            *)
(***************************************************************************)
EXTENDS Egress, MC_Frames

RewriteOnly == [lport |-> LPort, channel_id |-> 0]
ChannelOnly == [lport |-> 0, channel_id |-> 1]
RewriteAndChannel == [lport |-> LPort, channel_id |-> 1]

\* egress_map: port 5000 -> {10.0.0.5 -> r}, port 5001 absent.
StoreWith(r) ==
    [p \in MC_Ports |->
        IF p = MonPort THEN [a \in MC_Addrs |-> IF a = AddrA THEN r ELSE NoState]
        ELSE NoMap]

-----------------------------------------------------------------------------
(* Inputs of the runs                                                      *)

\* Offloaded checksums: every flow state, channel data included.  The
\* payloads are whole 32-bit words, as the copy loop of egress.h:161-176
\* needs; egress_odd_payload runs the others.
PartialRecs == {RewriteOnly, ChannelOnly, RewriteAndChannel}
PartialStore == StoreWith(RewriteAndChannel)
InputsPartial ==
    Datagrams({5}, {0, 2}, {"PARTIAL"}, FALSE) \cup Unclassified \cup ShortClaim

\* Checksums computed in software, flows that only rewrite the port.
SoftwareRecs == {RewriteOnly, [lport |-> MonPort, channel_id |-> 0]}
SoftwareStore == StoreWith(RewriteOnly)
AllRecs == PartialRecs
ChannelStore == StoreWith(RewriteAndChannel)
InputsSoftware == Datagrams({5}, {0, 3}, {"NONE"}, FALSE)

\* Datagrams whose payload the channel-data insertion must move.
InputsPayload == Datagrams({5}, {2, 3}, {"NONE", "PARTIAL"}, FALSE)

\* Datagrams whose payload is 2 or 6 bytes long, not a multiple of 4.
InputsOddPayload == Datagrams({5}, {1, 3}, {"PARTIAL"}, FALSE)

\* Datagrams from a socket with UDP checksums turned off.
InputsNoCsum == Datagrams({5}, {2}, {"NONE"}, TRUE)

\* Datagrams with an IPv4 option word.
InputsOptions == Datagrams({6}, {2}, {"NONE"}, FALSE)

=============================================================================
