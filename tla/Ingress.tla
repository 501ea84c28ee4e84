------------------------------- MODULE Ingress -------------------------------
(***************************************************************************)
(* The tc ingress filter ingress_filter (ebpf_poc/bpf/kern/ingress.h): it  *)
(* classifies a received frame as the egress filter does and matches UDP  *)
(* port 2222; a match is only logged (the shrink of lines 84-96 is         *)
(* commented out), so the filter reads no map and never changes the frame. *)
(* Its whole run is one step.                                              *)
(***************************************************************************)
EXTENDS Frame

CONSTANTS Inputs   \* frames the filter may be given

ASSUME Inputs \subseteq Seq(Word16)

MAX_IP_HDR_LEN == 60       \* ingress.h:13
INGRESS_PORT   == 2222     \* ingress.h:75

VARIABLES
    frame,     \* the skb data
    verdict,   \* TC_ACT_OK / TC_ACT_SHOT once returned
    matched    \* whether the "found ingress data" branch was reached

vars == <<frame, verdict, matched>>

TypeOK ==
    /\ frame \in Seq(Word16)
    /\ verdict \in {"none", "OK", "SHOT"}
    /\ matched \in BOOLEAN

Init ==
    /\ frame \in Inputs
    /\ verdict = "none"
    /\ matched = FALSE

\* iph_len > MAX_IP_HDR_LEN (ingress.h:60-63): iph->ihl << 2 is at most 60,
\* so this never holds.
IhlTooLong(f) == Ihl(f) * 4 > MAX_IP_HDR_LEN

\* ingress.h:25-98, return statements in program order.
Classify ==
    /\ verdict = "none"
    /\ LET Stop(v) == verdict' = v /\ UNCHANGED matched
       IN \/ ~EthFits(frame) /\ Stop("SHOT")
          \/ EthFits(frame) /\ ~IsIPv4(frame) /\ Stop("OK")
          \/ IsIPv4(frame) /\ ~IpFits(frame) /\ Stop("SHOT")
          \/ IpFits(frame) /\ IhlTooLong(frame) /\ Stop("SHOT")
          \/ IpFits(frame) /\ ~IhlTooLong(frame) /\ ~IsUdp(frame) /\ Stop("OK")
          \/ IsUdp(frame) /\ ~IhlTooLong(frame) /\ ~UdpFits(frame) /\ Stop("SHOT")
          \/ UdpFits(frame) /\ ~IhlTooLong(frame) /\ UdpDest(frame) # INGRESS_PORT
             /\ Stop("OK")
          \/ UdpFits(frame) /\ ~IhlTooLong(frame) /\ UdpDest(frame) = INGRESS_PORT
             /\ verdict' = "OK" /\ matched' = TRUE
    /\ UNCHANGED frame

\* The filter has returned; the frame goes on up the stack.
Terminated ==
    /\ verdict # "none"
    /\ UNCHANGED vars

Next == Classify \/ Terminated

Spec == Init /\ [][Next]_vars

=============================================================================
