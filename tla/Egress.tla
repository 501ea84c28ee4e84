------------------------------- MODULE Egress -------------------------------
(***************************************************************************)
(* The tc egress filter egress_filter (ebpf_poc/bpf/kern/egress.h) on one  *)
(* frame, running concurrently with the control plane that writes the     *)
(* egress_map it reads (maps.h:29).                                        *)
(*                                                                         *)
(* The filter's steps are split where it reads shared state: the outer    *)
(* map lookup, the inner map lookup, the read of state->lport and the read *)
(* of state->channel_id.  Between any two of them the control plane may   *)
(* write the map.  Everything else the filter does is on its own frame.   *)
(***************************************************************************)
EXTENDS Frame, FiniteSets

CONSTANTS
    Ports,         \* outer keys of egress_map: UDP destination ports
    Addrs,         \* inner keys: destination addresses (pairs of words)
    Recs,          \* struct state values the control plane may write
    InitStore,     \* egress_map when the frame arrives
    Inputs,        \* frames the filter may be given: [frame, summed]
    AllocMayFail,  \* whether bpf_skb_change_tail may fail for lack of memory
    InPlaceUpdate, \* whether a map write reuses the element a reader holds
    MaxUpdates,    \* bound on control-plane writes in a behaviour
    NoMap,         \* outer lookup miss
    NoState        \* inner lookup miss

Rec == [lport : Word16, channel_id : Word16]
Inner == [Addrs -> Recs \cup {NoState}]
Store == [Ports -> Inner \cup {NoMap}]

ASSUME /\ Recs \subseteq Rec
       /\ InitStore \in Store
       /\ \A in \in Inputs : in.summed \in {"NONE", "PARTIAL"}
       /\ AllocMayFail \in BOOLEAN /\ InPlaceUpdate \in BOOLEAN
       /\ MaxUpdates \in Nat

VARIABLES
    frame,     \* the skb data
    summed,    \* skb->ip_summed
    pc,        \* next step of egress_filter
    verdict,   \* TC_ACT_OK / TC_ACT_SHOT once returned
    iph_len,   \* local iph_len
    dport,     \* local dport: the outer key
    daddr,     \* iph->daddr: the inner key
    state,     \* the struct state the inner lookup returned, as it was then
    lport,     \* the value of state->lport read at egress.h:62 (0 if none)
    chan,      \* the value of state->channel_id read at egress.h:73
    store,     \* egress_map
    updates,   \* control-plane writes so far
    frame0,    \* history: the frame as it arrived
    versions   \* history: the values the record of the frame's own key
               \* had from arrival until the filter read channel_id

filter == <<frame, summed, pc, verdict, iph_len, dport, daddr, state, lport, chan>>
env == <<store, updates, frame0, versions>>
vars == <<filter, env>>

\* The current record of (p, a) in egress_map.
Lookup(s, p, a) == IF s[p] = NoMap THEN NoState ELSE s[p][a]

\* The frame's own key, as the filter computes it from the arriving frame.
OwnRecord(s) ==
    IF UdpFits(frame0) THEN Lookup(s, UdpDest(frame0), Daddr(frame0)) ELSE NoState

\* Mutant of ReadState: every field read looks the record up afresh.
ReadStateRelookup(field) ==
    IF Lookup(store, dport, daddr) # NoState
    THEN Lookup(store, dport, daddr)[field]
    ELSE state[field]

\* A read of a field of *state.  The filter holds a pointer into the map.
\* A write that replaces the element (RCU) leaves the held element as it
\* was; a write that reuses it in place changes what a later read sees.
ReadState(field) ==
    IF InPlaceUpdate /\ Lookup(store, dport, daddr) # NoState
    THEN Lookup(store, dport, daddr)[field]
    ELSE state[field]

TypeOK ==
    /\ frame \in Seq(Word16)
    /\ summed \in {"NONE", "PARTIAL"}
    /\ pc \in {"parse", "lookup_port", "lookup_addr", "rewrite", "channel",
               "finish", "done"}
    /\ verdict \in {"none", "OK", "SHOT"}
    /\ iph_len \in 0 .. 60
    /\ dport \in Word16
    /\ state \in Recs \cup {NoState}
    /\ lport \in Word16 /\ chan \in Word16
    /\ store \in Store
    /\ updates \in 0 .. MaxUpdates
    /\ versions \subseteq Recs \cup {NoState}

Init ==
    /\ \E in \in Inputs : frame = in.frame /\ summed = in.summed
    /\ pc = "parse"
    /\ verdict = "none"
    /\ iph_len = 0 /\ dport = 0 /\ daddr = <<0, 0>>
    /\ state = NoState /\ lport = 0 /\ chan = 0
    /\ store = InitStore
    /\ updates = 0
    /\ frame0 = frame
    /\ versions = {OwnRecord(store)}

\* return verdict;
Return(v) ==
    /\ pc' = "done"
    /\ verdict' = v

-----------------------------------------------------------------------------
(* egress_filter                                                           *)

\* egress.h:24-49: bounds-check and classify Ethernet, IPv4 and UDP.
Parse ==
    /\ pc = "parse"
    /\ LET Stop(v) == Return(v) /\ UNCHANGED <<iph_len, dport, daddr>>
       IN \/ ~EthFits(frame) /\ Stop("SHOT")
          \/ EthFits(frame) /\ ~IsIPv4(frame) /\ Stop("OK")
          \/ IsIPv4(frame) /\ ~IpFits(frame) /\ Stop("SHOT")
          \/ IpFits(frame) /\ ~IsUdp(frame) /\ Stop("OK")
          \/ IsUdp(frame) /\ ~UdpFits(frame) /\ Stop("SHOT")
          \/ /\ UdpFits(frame)
             /\ pc' = "lookup_port"
             /\ iph_len' = Ihl(frame) * 4
             /\ dport' = UdpDest(frame)
             /\ daddr' = Daddr(frame)
             /\ UNCHANGED verdict
    /\ UNCHANGED <<frame, summed, state, lport, chan>>
    /\ UNCHANGED env

\* egress.h:51-53: the outer lookup; a miss passes the frame.
LookupPort ==
    /\ pc = "lookup_port"
    /\ \/ store[dport] = NoMap /\ Return("OK")
       \/ store[dport] # NoMap /\ pc' = "lookup_addr" /\ UNCHANGED verdict
    /\ UNCHANGED <<frame, summed, iph_len, dport, daddr, state, lport, chan>>
    /\ UNCHANGED env

\* Mutant of LookupAddr: a miss in the inner map drops the frame.
LookupAddrMissDrops ==
    /\ pc = "lookup_addr"
    /\ state' = Lookup(store, dport, daddr)
    /\ \/ state' = NoState /\ Return("SHOT")
       \/ state' # NoState /\ pc' = "rewrite" /\ UNCHANGED verdict
    /\ UNCHANGED <<frame, summed, iph_len, dport, daddr, lport, chan>>
    /\ UNCHANGED env

\* egress.h:57-59: the inner lookup by iph->daddr; a miss passes the frame.
LookupAddr ==
    /\ pc = "lookup_addr"
    /\ state' = Lookup(store, dport, daddr)
    /\ \/ state' = NoState /\ Return("OK")
       \/ state' # NoState /\ pc' = "rewrite" /\ UNCHANGED verdict
    /\ UNCHANGED <<frame, summed, iph_len, dport, daddr, lport, chan>>
    /\ UNCHANGED env

\* egress.h:61-71: if state->lport is set, write it into udp->dest and
\* patch the UDP checksum at UDP_CSUM_OFF.
RewritePort ==
    /\ pc = "rewrite"
    /\ lport' = ReadState("lport")
    /\ frame' =
         IF lport' = 0 THEN frame
         ELSE L4Patch(Put16(frame, UdpOff(frame) + 2, lport'), UDP_CSUM_OFF,
                      UdpDest(frame), lport', FALSE, summed)
    /\ pc' = "channel"
    /\ UNCHANGED <<summed, verdict, iph_len, dport, daddr, state, chan>>
    /\ UNCHANGED env

\* egress.h:73-91: if state->channel_id is set, grow the frame to the
\* length its headers give plus pad_len with bpf_skb_change_tail (a
\* __u16, so computed modulo 2^16); a failed resize drops the frame.
ChangeTail ==
    /\ pc = "channel"
    /\ chan' = ReadState("channel_id")
    /\ LET newlen == (ETH_HLEN + iph_len + UdpLen(frame) + CDATA_SIZE) % 65536
       IN \/ chan' = 0 /\ Return("OK") /\ UNCHANGED frame
          \/ /\ chan' # 0
             /\ \/ newlen < ChangeTailMinLen(iph_len, summed)
                \/ AllocMayFail
             /\ Return("SHOT") /\ UNCHANGED frame
          \/ /\ chan' # 0
             /\ newlen >= ChangeTailMinLen(iph_len, summed)
             /\ frame' = Resize(frame, newlen)
             /\ pc' = "finish" /\ UNCHANGED verdict
    /\ UNCHANGED <<summed, iph_len, dport, daddr, state, lport>>
    /\ UNCHANGED env

(***************************************************************************)
(* egress.h:161-176: the payload shift loop.  i counts bytes up to         *)
(* MAX_MTU, dst is the byte offset of the __u32 it stores to, temp the     *)
(* word it holds.  The check of src + 1 is implied by that of dst + 1      *)
(* since src = pl < dst.                                                   *)
(***************************************************************************)
RECURSIVE ShiftLoop(_, _, _, _, _)
ShiftLoop(f, i, dst, temp, pl_len) ==
    IF i >= MAX_MTU \/ i >= pl_len THEN [ok |-> TRUE, frame |-> f]
    ELSE IF ~Fits(f, dst, 4) THEN [ok |-> FALSE, frame |-> f]
    ELSE LET g == PutWord(f, dst, temp)
         IN ShiftLoop(g, i + 4, dst + 4, GetWord(g, dst + 4), pl_len)

\* temp = *dst (egress.h:159): the loop starts from the word at pl + pad_len.
ShiftPayload(f, pl, pl_len) ==
    ShiftLoop(f, 0, pl + CDATA_SIZE, GetWord(f, pl + CDATA_SIZE), pl_len)

(***************************************************************************)
(* egress.h:93-197 on the grown frame f: fix iph->tot_len and the IPv4     *)
(* checksum, fix udp->len, shift the payload, write the ChannelData header *)
(* at the start of the payload, then patch the UDP checksum for the UDP    *)
(* length and, as a pseudo-header change, for tot_len.  Every pointer is   *)
(* re-derived from skb->data and bounds-checked; a failed check drops the  *)
(* frame.                                                                  *)
(***************************************************************************)
FixChannelData(f, ihl_len, sum) ==
    LET tot_old == TotLen(f)
        tot_new == (tot_old + CDATA_SIZE) % 65536
        f1 == L3Patch(Put16(f, TOT_LEN_OFF, tot_new), IP_CSUM_OFF, tot_old, tot_new)
        u == ETH_HLEN + ihl_len
        udp_old == Get16(f1, u + 4)
        udp_new == (udp_old + CDATA_SIZE) % 65536
        f2 == Put16(f1, u + 4, udp_new)
        pl == u + UDPHDR_SIZE
        shift == ShiftPayload(f2, pl, (udp_new - UDPHDR_SIZE - CDATA_SIZE) % 65536)
        f3 == PutWord(shift.frame, pl, CDATA_WORDS)
        f4 == L4Patch(f3, UDP_CSUM_OFF, udp_old, udp_new, FALSE, sum)
        f5 == L4Patch(f4, UDP_CSUM_OFF, tot_old, tot_new, TRUE, sum)
    IN IF Fits(f1, u, UDPHDR_SIZE) /\ shift.ok /\ Fits(shift.frame, pl, CDATA_SIZE)
       THEN [verdict |-> "OK", frame |-> f5]
       ELSE [verdict |-> "SHOT", frame |-> f]

FinishChannelData ==
    /\ pc = "finish"
    /\ LET r == FixChannelData(frame, iph_len, summed)
       IN /\ frame' = r.frame
          /\ Return(r.verdict)
    /\ UNCHANGED <<summed, iph_len, dport, daddr, state, lport, chan>>
    /\ UNCHANGED env

-----------------------------------------------------------------------------
(* Control plane: bpf_map_update_elem / bpf_map_delete_elem on egress_map  *)
(* and its inner maps, from user space, unsynchronised with the filter.   *)

\* Record the new value of the frame's own record while the filter may
\* still read the record it holds.
Observe(s) ==
    versions' = IF pc \in {"parse", "lookup_port", "lookup_addr", "rewrite", "channel"}
                THEN versions \cup {OwnRecord(s)}
                ELSE versions

SetState(p, a, r) ==
    /\ updates < MaxUpdates
    /\ LET inner == IF store[p] = NoMap THEN [x \in Addrs |-> NoState] ELSE store[p]
       IN store' = [store EXCEPT ![p] = [inner EXCEPT ![a] = r]]
    /\ updates' = updates + 1
    /\ Observe(store')
    /\ UNCHANGED <<filter, frame0>>

DeleteState(p, a) ==
    /\ updates < MaxUpdates
    /\ Lookup(store, p, a) # NoState
    /\ store' = [store EXCEPT ![p][a] = NoState]
    /\ updates' = updates + 1
    /\ Observe(store')
    /\ UNCHANGED <<filter, frame0>>

-----------------------------------------------------------------------------

Filter ==
    \/ Parse \/ LookupPort \/ LookupAddr \/ RewritePort \/ ChangeTail
    \/ FinishChannelData

ControlPlane ==
    \E p \in Ports, a \in Addrs :
        \/ \E r \in Recs : SetState(p, a, r)
        \/ DeleteState(p, a)

\* The filter returns and the control plane has nothing left to do.
Terminated ==
    /\ pc = "done"
    /\ UNCHANGED vars

Next ==
    \/ Filter
    \/ ControlPlane
    \/ Terminated

\* Once attached, the kernel runs the filter to completion on every frame
\* it is given; the control plane acts when it likes, so it is not fair.
Spec == Init /\ [][Next]_vars /\ WF_vars(Filter)

-----------------------------------------------------------------------------
(* Properties                                                              *)

\* A datagram a receiver accepts: its lengths agree with the frame and
\* with each other, and both checksums verify.
WellFormed(f, s) ==
    /\ UdpFits(f)
    /\ ByteLen(f) = ETH_HLEN + TotLen(f)
    /\ TotLen(f) = Ihl(f) * 4 + UdpLen(f)
    /\ IpChecksumOk(f)
    /\ UdpChecksumOk(f, s)

\* The filter never forwards a broken datagram it was given whole: after
\* the port rewrite (egress.h:61-71) and the channel-data insertion
\* (egress.h:73-197), with their in-place writes, resize and incremental
\* checksum patches, an accepted frame still has consistent lengths and
\* checksums that verify.
ForwardedFrameWellFormed ==
    (pc = "done" /\ verdict = "OK" /\ WellFormed(frame0, summed))
        => WellFormed(frame, summed)

\* Spec 4.4 step 5: a forwarded datagram whose flow state has a local port
\* carries that port as its UDP destination (egress.h:68), however the
\* checksum patches that follow touch the frame.
DestPortRewritten ==
    (pc = "done" /\ verdict = "OK" /\ lport # 0 /\ UdpFits(frame0))
        => UdpDest(frame) = lport

\* Spec 5: a filter running while the control plane writes egress_map acts
\* on one version of its flow's record, never on a mix.  The lport and
\* channel_id it applied (egress.h:62, 73; 0 when a lookup missed) are
\* both those of one value the record of the frame's own key
\* (udp->dest, iph->daddr) had while the filter ran.
AppliedRecord(v) ==
    IF v = NoState THEN [lport |-> 0, channel_id |-> 0] ELSE v

SingleVersionApplied ==
    (pc = "done" /\ verdict = "OK" /\ UdpFits(frame0))
        => \E v \in versions :
              AppliedRecord(v) = [lport |-> lport, channel_id |-> chan]

\* The filter implements the contract of spec 4.4, 5 and 7, run to
\* completion: it decides on the record the inner lookup returns
\* (egress.h:57) and acts on that record alone; it drops the frames with
\* a header cut short and, with channel data, those it cannot grow
\* (egress.h:87-91) or, once grown, whose own lengths disagree with what
\* they carry; it forwards the rest with the port and lengths the record
\* asks for, or unchanged when the flow has no state.
\* The contract's phase: the record is taken at the inner lookup, the
\* frame is grown when bpf_skb_change_tail succeeds, and it is forwarded
\* when the filter returns.
Phase ==
    CASE pc \in {"parse", "lookup_port", "lookup_addr"} -> "pending"
      [] pc = "finish" -> "grown"
      [] pc = "done" -> "done"
      [] OTHER -> "decided"

Out == HeaderSummary(IF pc = "done" THEN frame ELSE frame0)

Contract == INSTANCE EgressContract
    WITH input <- frame0, phase <- Phase, rec <- state, out <- Out

ImplementsContract == Contract!Spec

\* Spec 8: with channel data inserted, the frame, tot_len and the UDP
\* length each grow by 4, the ChannelData header follows the UDP header,
\* and the original payload follows it unchanged.
ChannelDataFramed ==
    (pc = "done" /\ verdict = "OK" /\ chan # 0 /\ WellFormed(frame0, summed))
        => LET pl == UdpOff(frame0) + UDPHDR_SIZE
               n == (UdpLen(frame0) - UDPHDR_SIZE) \div 2
           IN /\ ByteLen(frame) = ByteLen(frame0) + CDATA_SIZE
              /\ TotLen(frame) = TotLen(frame0) + CDATA_SIZE
              /\ UdpLen(frame) = UdpLen(frame0) + CDATA_SIZE
              /\ Words(frame, pl, 2) = CDATA_WORDS
              /\ Words(frame, pl + CDATA_SIZE, n) = Words(frame0, pl, n)

=============================================================================
