----------------------------- MODULE AdjustRoom -----------------------------
(***************************************************************************)
(* The alternative egress filter egress_adjust_room.h.  Up to the port     *)
(* rewrite (lines 4-68) it is line for line the filter of egress.h, so it  *)
(* shares the Parse .. RewritePort steps of Egress.  The channel-data      *)
(* insertion (lines 70-139) opens the room with bpf_skb_adjust_room        *)
(* instead of bpf_skb_change_tail and a copy loop, restores the UDP header *)
(* in front of the room and issues no UDP checksum patch at all.           *)
(***************************************************************************)
EXTENDS Egress

\* bpf_skb_adjust_room(skb, len, BPF_ADJ_ROOM_NET, ...) on an IPv4 skb
\* opens len bytes at mac_len + sizeof(struct iphdr), whatever ihl says:
\* it pushes len bytes of headroom and moves the first off bytes down, so
\* the room holds a copy of the len bytes before off.
ADJ_ROOM_OFF == ETH_HLEN + IPHDR_SIZE

AdjustRoom(f, len) ==
    SubSeq(f, 1, ADJ_ROOM_OFF \div 2)
    \o SubSeq(f, (ADJ_ROOM_OFF - len) \div 2 + 1, ADJ_ROOM_OFF \div 2)
    \o SubSeq(f, ADJ_ROOM_OFF \div 2 + 1, Len(f))

\* Mutant of CdataOff: the ChannelData header is written over the UDP
\* header instead of after it.
CdataOffAtUdp(u) == u

\* cdata = (struct turn_cdata *) (udp + 1) (line 121)
CdataOff(u) == u + UDPHDR_SIZE

(***************************************************************************)
(* egress_adjust_room.h:90-130 on the frame f after the room is opened:    *)
(* fix tot_len and the IPv4 checksum, write back the UDP header udp_old    *)
(* saved before the resize (line 81, 113) at iph + iph_len, add pad_len to *)
(* its length, and write the ChannelData header after it.  The L4 patches  *)
(* of lines 133-137 are commented out.                                     *)
(***************************************************************************)
FixRoom(f, udp_old, ihl_len) ==
    LET tot_old == TotLen(f)
        tot_new == (tot_old + CDATA_SIZE) % 65536
        f1 == L3Patch(Put16(f, TOT_LEN_OFF, tot_new), IP_CSUM_OFF, tot_old, tot_new)
        u == ETH_HLEN + ihl_len
        f2 == PutWords(f1, u, udp_old)
        f3 == Put16(f2, u + 4, (udp_old[3] + CDATA_SIZE) % 65536)
    IN IF Fits(f1, u, UDPHDR_SIZE) /\ Fits(f1, CdataOff(u), CDATA_SIZE)
       THEN [verdict |-> "OK", frame |-> PutWord(f3, CdataOff(u), CDATA_WORDS)]
       ELSE [verdict |-> "SHOT", frame |-> f]

\* egress_adjust_room.h:70-139: read state->channel_id; if set, save the
\* UDP header, open the room (which may fail for memory, and then drops
\* the frame) and fix the headers.  Everything after the read is on the
\* filter's own frame, so it is one step.
InsertRoom ==
    /\ pc = "channel"
    /\ chan' = ReadState("channel_id")
    /\ LET udp_old == Words(frame, ETH_HLEN + iph_len, 4)
           r == FixRoom(AdjustRoom(frame, CDATA_SIZE), udp_old, iph_len)
       IN \/ chan' = 0 /\ Return("OK") /\ UNCHANGED frame
          \/ chan' # 0 /\ AllocMayFail /\ Return("SHOT") /\ UNCHANGED frame
          \/ chan' # 0 /\ frame' = r.frame /\ Return(r.verdict)
    /\ UNCHANGED <<summed, iph_len, dport, daddr, state, lport>>
    /\ UNCHANGED env

AdjustRoomFilter ==
    \/ Parse \/ LookupPort \/ LookupAddr \/ RewritePort \/ InsertRoom

AdjustRoomNext ==
    \/ AdjustRoomFilter
    \/ ControlPlane
    \/ Terminated

AdjustRoomSpec == Init /\ [][AdjustRoomNext]_vars

=============================================================================
