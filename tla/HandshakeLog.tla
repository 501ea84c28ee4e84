---------------------------- MODULE HandshakeLog ----------------------------
(***************************************************************************)
(* What the handshake tracer promises its reader, with no CPUs, no         *)
(* reservations and no busy records: a bounded, lossy FIFO log.  A         *)
(* handshake that fires is appended to the log, or lost when the log holds *)
(* Capacity entries; the reader takes entries oldest first, each carrying  *)
(* keys that were read or zeroed by a failed read, never anything else;    *)
(* and every entry is eventually taken.                                    *)
(***************************************************************************)
EXTENDS Naturals, Sequences

CONSTANTS Handshakes, Capacity

VARIABLES
    fired,      \* handshakes that have happened
    lost,       \* those the log had no room for
    pending,    \* handshakes in the log, oldest first
    delivered   \* entries the reader has taken: [hs, keys]

lvars == <<fired, lost, pending, delivered>>

Init ==
    /\ fired = {}
    /\ lost = {}
    /\ pending = << >>
    /\ delivered = << >>

Fire(h) ==
    /\ h \notin fired
    /\ fired' = fired \cup {h}
    /\ \/ Len(pending) < Capacity /\ pending' = Append(pending, h) /\ UNCHANGED lost
       \/ Len(pending) = Capacity /\ lost' = lost \cup {h} /\ UNCHANGED pending
    /\ UNCHANGED delivered

Deliver ==
    /\ pending # << >>
    /\ \E k \in {"read", "zeroed"} :
          delivered' = Append(delivered, [hs |-> Head(pending), keys |-> k])
    /\ pending' = Tail(pending)
    /\ UNCHANGED <<fired, lost>>

Next == (\E h \in Handshakes : Fire(h)) \/ Deliver

Spec == Init /\ [][Next]_lvars /\ WF_lvars(Deliver)

=============================================================================
