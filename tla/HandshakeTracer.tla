--------------------------- MODULE HandshakeTracer ---------------------------
(***************************************************************************)
(* The kprobe kprobe_wg_index_hashtable_insert                             *)
(* (pkg/wg/tracer/kprobe_wg_index_hashtable_insert.c) and the ring buffer *)
(* handshakes it writes to.  The probe fires once per WireGuard handshake, *)
(* on whichever CPU inserts it, possibly on several CPUs at once; each run *)
(* reserves a record, fills it with probe reads of the handshake's keys    *)
(* and submits it.  A user-space reader consumes records in ring order     *)
(* and stops at the first record that is still reserved but not submitted  *)
(* (BPF ring buffer semantics).                                            *)
(***************************************************************************)
EXTENDS Naturals, Sequences, FiniteSets

CONSTANTS
    CPUs,        \* CPUs the probe may run on
    Handshakes,  \* handshakes whose insertion fires the probe
    Capacity     \* records that fit in the ring (max_entries / record size)

ASSUME Capacity \in Nat \ {0}

\* Contents of a record's key fields: uninitialised (reserve does not clear
\* memory), read, or zeroed by a failed bpf_probe_read_kernel.
Keys == {"garbage", "read", "zeroed"}

Record == [hs : Handshakes, busy : BOOLEAN, keys : Keys]

VARIABLES
    ring,      \* records from consumer_pos to producer_pos, oldest first
    cpu,       \* per CPU: the probe's program counter and its handshake
    fired,     \* handshakes whose insertion has fired the probe
    lost,      \* handshakes the probe dropped because the ring was full
    consumed   \* records the reader has taken, in order

vars == <<ring, cpu, fired, lost, consumed>>

Idle == [pc |-> "idle", hs |-> CHOOSE h \in Handshakes : TRUE]

TypeOK ==
    /\ ring \in Seq(Record) /\ Len(ring) <= Capacity
    /\ cpu \in [CPUs -> [pc : {"idle", "fill", "submit"}, hs : Handshakes]]
    /\ fired \subseteq Handshakes /\ lost \subseteq fired
    /\ consumed \in Seq(Record)

Init ==
    /\ ring = << >>
    /\ cpu = [c \in CPUs |-> Idle]
    /\ fired = {}
    /\ lost = {}
    /\ consumed = << >>

\* The index in the ring of the record CPU c reserved.
Slot(c) == CHOOSE i \in DOMAIN ring : ring[i].hs = cpu[c].hs

-----------------------------------------------------------------------------
(* The probe                                                               *)

\* Mutant of Reserve: the space check admits one record too many.
ReserveOffByOne(c, h) ==
    /\ cpu[c].pc = "idle"
    /\ h \notin fired
    /\ fired' = fired \cup {h}
    /\ \/ /\ Len(ring) <= Capacity
          /\ ring' = Append(ring, [hs |-> h, busy |-> TRUE, keys |-> "garbage"])
          /\ cpu' = [cpu EXCEPT ![c] = [pc |-> "fill", hs |-> h]]
          /\ UNCHANGED lost
       \/ /\ Len(ring) > Capacity
          /\ lost' = lost \cup {h}
          /\ UNCHANGED <<ring, cpu>>
    /\ UNCHANGED consumed

\* Lines 32-34: bpf_ringbuf_reserve, serialised by the ring's spinlock,
\* appends a busy record, or returns NULL when the ring is full and the
\* probe returns without a trace of the handshake.
Reserve(c, h) ==
    /\ cpu[c].pc = "idle"
    /\ h \notin fired
    /\ fired' = fired \cup {h}
    /\ \/ /\ Len(ring) < Capacity
          /\ ring' = Append(ring, [hs |-> h, busy |-> TRUE, keys |-> "garbage"])
          /\ cpu' = [cpu EXCEPT ![c] = [pc |-> "fill", hs |-> h]]
          /\ UNCHANGED lost
       \/ /\ Len(ring) = Capacity
          /\ lost' = lost \cup {h}
          /\ UNCHANGED <<ring, cpu>>
    /\ UNCHANGED consumed

\* Lines 36-47: the timestamp and the key reads.  Their return values are
\* ignored; a failed bpf_probe_read_kernel leaves its destination zeroed.
Fill(c) ==
    /\ cpu[c].pc = "fill"
    /\ \E k \in {"read", "zeroed"} :
          ring' = [ring EXCEPT ![Slot(c)].keys = k]
    /\ cpu' = [cpu EXCEPT ![c].pc = "submit"]
    /\ UNCHANGED <<fired, lost, consumed>>

\* Mutant of Submit: the record is submitted on a path that skips the
\* key reads.
SubmitBeforeFill(c) ==
    /\ cpu[c].pc \in {"fill", "submit"}
    /\ ring' = [ring EXCEPT ![Slot(c)].busy = FALSE]
    /\ cpu' = [cpu EXCEPT ![c] = Idle]
    /\ UNCHANGED <<fired, lost, consumed>>

\* Mutant of Submit: the record is released with bpf_ringbuf_discard, which
\* frees its space without handing it to the reader.
SubmitDiscard(c) ==
    /\ cpu[c].pc = "submit"
    /\ ring' = SubSeq(ring, 1, Slot(c) - 1) \o SubSeq(ring, Slot(c) + 1, Len(ring))
    /\ cpu' = [cpu EXCEPT ![c] = Idle]
    /\ UNCHANGED <<fired, lost, consumed>>

\* Lines 49-51: bpf_ringbuf_submit clears the record's busy bit.
Submit(c) ==
    /\ cpu[c].pc = "submit"
    /\ ring' = [ring EXCEPT ![Slot(c)].busy = FALSE]
    /\ cpu' = [cpu EXCEPT ![c] = Idle]
    /\ UNCHANGED <<fired, lost, consumed>>

-----------------------------------------------------------------------------
(* The reader                                                              *)

\* The user-space reader takes the oldest record once it is submitted and
\* advances consumer_pos, freeing its space.
Consume ==
    /\ ring # << >>
    /\ ~Head(ring).busy
    /\ consumed' = Append(consumed, Head(ring))
    /\ ring' = Tail(ring)
    /\ UNCHANGED <<cpu, fired, lost>>

\* Every handshake has fired and every record has been read.
Quiescent ==
    /\ fired = Handshakes
    /\ ring = << >>
    /\ \A c \in CPUs : cpu[c].pc = "idle"
    /\ UNCHANGED vars

Next ==
    \/ \E c \in CPUs, h \in Handshakes : Reserve(c, h)
    \/ \E c \in CPUs : Fill(c) \/ Submit(c)
    \/ Consume
    \/ Quiescent

\* A probe runs to completion once started (BPF programs are not
\* preempted); the reader keeps polling the ring.  Neither guarantee
\* covers when a handshake happens, so Reserve is not fair.
Fairness ==
    /\ \A c \in CPUs : WF_vars(Fill(c)) /\ WF_vars(Submit(c))
    /\ WF_vars(Consume)

Spec == Init /\ [][Next]_vars /\ Fairness

-----------------------------------------------------------------------------
(* Properties                                                              *)

\* The reader never sees a record before the probe has written the keys
\* into it: every consumed record holds keys read (or zeroed by a failed
\* read), never the uninitialised memory bpf_ringbuf_reserve hands out
\* (lines 32-49).
ConsumedRecordsFilled ==
    \A i \in DOMAIN consumed : consumed[i].keys # "garbage"

\* The probes on every CPU and the ring buffer together implement the
\* bounded lossy FIFO log HandshakeLog: a handshake is lost only when the
\* ring is full at its reservation (line 33), the reader gets the others
\* exactly once, in the order they were reserved, with keys the probe
\* wrote (lines 36-47), and eventually, however the probes' reserve, fill
\* and submit steps interleave.
Log == INSTANCE HandshakeLog
    WITH pending <- [i \in DOMAIN ring |-> ring[i].hs],
         delivered <- [i \in DOMAIN consumed |-> [hs |-> consumed[i].hs, keys |-> consumed[i].keys]]

ImplementsHandshakeLog == Log!Spec

=============================================================================
