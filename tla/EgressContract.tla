--------------------------- MODULE EgressContract ---------------------------
(***************************************************************************)
(* What the egress filter promises about one frame (spec 4.4, 5, 7, 8    *)
(* and 9), with none of its steps: a truncated header drops the frame; a  *)
(* frame that is not IPv4/UDP, or whose flow has no state, passes          *)
(* unchanged; otherwise the filter takes the flow's record from the map as *)
(* it is at one instant.  A record without channel data forwards the      *)
(* frame with the port it asks for.  With channel data the frame is grown *)
(* first: a failed grow drops it (ResizeFailed); after a grow the frame   *)
(* is forwarded with the port and lengths the record asks for, and is     *)
(* dropped only when its own lengths disagree with what it carries, so a  *)
(* bounds check fails (OutOfBounds), or when its payload exceeds the copy *)
(* cap (spec 9).  The control plane may write the map at any time.  The  *)
(* forwarded frame is judged by its HeaderSummary.                        *)
(***************************************************************************)
EXTENDS Frame

CONSTANTS Ports, Addrs, Recs, NoMap, NoState

VARIABLES
    store,    \* egress_map
    input,    \* the frame as it arrived
    summed,   \* its checksum mode
    phase,    \* "pending", "decided" (record taken), "grown" or "done"
    rec,      \* the record taken, NoState before
    verdict,  \* "none", then "OK" or "SHOT"
    out       \* HeaderSummary of the frame as forwarded

avars == <<store, input, summed, phase, rec, verdict, out>>

Flow(s, f) ==
    IF s[UdpDest(f)] = NoMap THEN NoState ELSE s[UdpDest(f)][Daddr(f)]

Truncated(f) ==
    \/ ~EthFits(f)
    \/ IsIPv4(f) /\ ~IpFits(f)
    \/ IsUdp(f) /\ ~UdpFits(f)

\* Spec 4.4 steps 5 and 6b-e: the forwarded frame carries r.lport, if set,
\* and with channel data grows to the length its headers gave plus 4,
\* with tot_len and the UDP length each 4 larger.
Expected(f, r) ==
    LET pad == IF r.channel_id # 0 THEN CDATA_SIZE ELSE 0
    IN [dest |-> IF r.lport # 0 THEN r.lport ELSE UdpDest(f),
        tot  |-> (TotLen(f) + pad) % 65536,
        udp  |-> (UdpLen(f) + pad) % 65536,
        len  |-> IF pad = 0 THEN ByteLen(f) ELSE ETH_HLEN + Ihl(f) * 4 + UdpLen(f) + pad]

Init ==
    /\ phase = "pending"
    /\ rec = NoState
    /\ verdict = "none"
    /\ out = HeaderSummary(input)

Finish(v) ==
    /\ phase' = "done"
    /\ verdict' = v

Write ==
    /\ store' \in [Ports -> [Addrs -> Recs \cup {NoState}] \cup {NoMap}]
    /\ UNCHANGED <<input, summed, phase, rec, verdict, out>>

\* A header cut short: drop.  Not IPv4/UDP, or no flow state: pass.
Unmatched ==
    /\ phase = "pending"
    /\ \/ Truncated(input) /\ Finish("SHOT")
       \/ ~Truncated(input) /\ ~UdpFits(input) /\ Finish("OK")
       \/ UdpFits(input) /\ Flow(store, input) = NoState /\ Finish("OK")
    /\ UNCHANGED <<store, input, summed, rec, out>>

Decide ==
    /\ phase = "pending"
    /\ UdpFits(input)
    /\ Flow(store, input) # NoState
    /\ rec' = Flow(store, input)
    /\ phase' = "decided"
    /\ UNCHANGED <<store, input, summed, verdict, out>>

\* Spec 8: headers whose lengths agree with each other and with the frame.
Consistent(f) ==
    /\ ByteLen(f) = ETH_HLEN + TotLen(f)
    /\ TotLen(f) = Ihl(f) * 4 + UdpLen(f)
    /\ UdpLen(f) >= UDPHDR_SIZE

\* Spec 4.4 step 6i and 9: a bounds check can fail, or the payload is too
\* long for the bounded copy.
MayDropGrown(f) ==
    \/ ~Consistent(f)
    \/ UdpLen(f) - UDPHDR_SIZE > MAX_MTU

\* Spec 4.4 step 6c: the frame is grown for the ChannelData header.
Grow ==
    /\ phase = "decided"
    /\ rec.channel_id # 0
    /\ phase' = "grown"
    /\ UNCHANGED <<store, input, summed, rec, verdict, out>>

Forward ==
    /\ Finish("OK")
    /\ out' = Expected(input, rec)

Drop ==
    /\ Finish("SHOT")
    /\ out' \in [dest : Word16, tot : Word16, udp : Word16, len : Nat]

Complete ==
    /\ \/ phase = "decided" /\ rec.channel_id = 0 /\ Forward
       \/ phase = "decided" /\ rec.channel_id # 0 /\ Drop
       \/ phase = "grown" /\ Forward
       \/ phase = "grown" /\ MayDropGrown(input) /\ Drop
    /\ UNCHANGED <<store, input, summed, rec>>

Next == Write \/ Unmatched \/ Decide \/ Grow \/ Complete

\* A filter invocation runs to completion.
Spec == Init /\ [][Next]_avars /\ WF_avars(Unmatched \/ Decide \/ Grow \/ Complete)

=============================================================================
