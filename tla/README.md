# TLA+ models of the cunicu eBPF programs

This directory holds TLA+ models of the eBPF programs in `src/`: the tc
egress and ingress filters in `src/ebpf_poc/bpf/kern/`, and the WireGuard
handshake kprobe in `src/pkg/wg/tracer/`. It also holds the TLC
configurations that check them. The
filter rewrites the UDP destination port of monitored WireGuard datagrams and
inserts a TURN ChannelData header in front of their payload.

## The system

`egress_filter` (`egress.h`) runs once per outgoing frame, to completion. It
does the following, in order:

1. It bounds-checks and classifies the Ethernet, IPv4 and UDP headers
   (lines 24-49). A truncated header drops the frame. A frame that is not
   IPv4/UDP passes unchanged.
2. It looks up `egress_map` (`maps.h:29`), a hash of maps. The outer key is
   `udp->dest` and the inner key is `iph->daddr`. The value is a
   `struct state {channel_id, lport}` (`types.h:15`). A miss at either level
   passes the frame (lines 51-59).
3. If `lport != 0`, it writes `lport` into `udp->dest` and patches the UDP
   checksum with `bpf_l4_csum_replace` at `UDP_CSUM_OFF` (lines 61-71).
4. If `channel_id != 0`, it inserts channel data (lines 73-197):
   - grows the frame with `bpf_skb_change_tail` to the length the headers
     give + 4;
   - fixes `tot_len` and patches the IPv4 checksum;
   - fixes `udp->len`;
   - shifts the payload with a loop bounded by `MAX_MTU`;
   - writes the 4-byte ChannelData header;
   - patches the UDP checksum for `udp->len`, and for `tot_len` as a
     pseudo-header change.

The flow state is written by a control plane in user space, which is not in
this repository, without any synchronisation with the filter.

Three other programs sit beside `egress_filter`:

- **`egress_adjust_room.h`** is an alternative `egress_filter`, not
  included by `main.c`. It opens the 4 bytes with `bpf_skb_adjust_room` at
  the network layer and restores the UDP header in front of them.
- **`ingress_filter`** (`ingress.h`) classifies received frames the same way
  and matches UDP port 2222. It only logs: the shrink that would remove the
  ChannelData header is commented out.
- **`kprobe_wg_index_hashtable_insert`** fires on every WireGuard handshake,
  on any CPU. It reserves a record in the `handshakes` ring buffer, copies
  the handshake's keys into it with `bpf_probe_read_kernel`, and submits
  it. A user-space reader, not in this repository, drains the ring.

These three share no state with the egress filter.

Two points about the source as it stands:

- `egress.h:150` uses `pl` before its declaration at line 155, so the file
  does not compile as written. The model follows the evident intent, with
  `pl` = the end of the UDP header.
- The load `temp = *dst` at line 159 is not preceded by a bounds check.
  The model gives the load a value, and the loop's own check at line 166
  drops the frame before any store past `data_end`.

## Modules

| Module | Models | State and actions |
|---|---|---|
| `Checksum` | RFC 1624 arithmetic of `bpf_l3_csum_replace` / `bpf_l4_csum_replace` (ChecksumUpdater) | pure operators: `OnesAdd`, `CsumReplace2`, `L4Replace` with the `ip_summed` mode and the `BPF_F_PSEUDO_HDR` and `BPF_F_MARK_MANGLED_0` flags |
| `ChecksumPatch` | one checksummed block under repeated field writes, each followed by the patch egress.h issues | `words`, `check`; action `Patch(i, v)` |
| `Frame` | the frame, its header fields and bounds checks, `bpf_skb_change_tail` (HeaderCursor) | pure operators over a frame held as a sequence of 16-bit words |
| `Egress` | `egress_filter` racing the control plane on `egress_map` (EgressRewriter, FlowStateStore) | filter locals and `frame`; one action per step |
| `EgressContract` | what `egress_filter` promises about one frame, with no steps | `phase`, the record taken, the verdict and a summary of the forwarded frame; actions `Write`, `Unmatched`, `Decide`, `Grow`, `Complete` |
| `AdjustRoom` | `egress_adjust_room.h` (EgressAdjustRoomVariant) | the `Egress` state; `InsertRoom` replaces `ChangeTail` and `FinishChannelData` |
| `Ingress` | `ingress_filter` (IngressClassifier); no run checks it | `frame`, `verdict`, `matched`; one action `Classify` |
| `HandshakeTracer` | the kprobe `kprobe_wg_index_hashtable_insert` and its ring buffer (WireGuardKeyTracer) | `ring`, per-CPU `cpu`, `fired`, `lost`, `consumed`; actions `Reserve`, `Fill`, `Submit`, `Consume` |
| `HandshakeLog` | what the tracer promises its reader, with no CPUs or reservations: a bounded lossy FIFO log | `fired`, `lost`, `pending`, `delivered`; actions `Fire`, `Deliver` |
| `MC_Frames` | the frames the runs feed the filters: ports, addresses, headers, payloads, checksums | none |
| `MC_Egress`, `MC_AdjustRoom`, `MC_ChecksumPatch`, `MC_HandshakeTracer` | the model values of each run: flow records, stores, input sets, CPUs, handshakes | none |

### Egress: how steps map to code

The filter's program counter `pc` moves through these actions:

- `Parse`: lines 24-49.
- `LookupPort`: lines 51-53.
- `LookupAddr`: lines 57-59.
- `RewritePort`: lines 61-71.
- `ChangeTail`: lines 73-91.
- `FinishChannelData`: lines 93-201. It applies the pure operator
  `FixChannelData`, which contains the recursive `ShiftLoop` (lines
  161-176).

The steps are split exactly where the filter reads shared map memory. Steps
that only touch the filter's own frame are atomic, since no other actor sees
the frame.

The control plane's `SetState` and `DeleteState` may run between any two
steps, up to `MaxUpdates` times. Two map semantics are modelled:

- `InPlaceUpdate = FALSE`: an update replaces the element (RCU), so the
  pointer the filter holds keeps the old record.
- `InPlaceUpdate = TRUE`: the element is overwritten in place, so later
  reads through the held pointer see the new record.

`versions` is a history variable. It holds every value the frame's own
record had while the filter could still read it.

### Kernel behaviour and nondeterminism

- **`ip_summed`** is an input.
  - CHECKSUM_PARTIAL: the UDP field holds the folded pseudo-header sum. Only
    pseudo-header patches change it.
  - NONE: the UDP field holds the full checksum.
- **`bpf_skb_change_tail`**:
  - it refuses a length below the transport offset (+8 under PARTIAL);
  - it may fail for lack of memory (`AllocMayFail`);
  - it cuts the frame when asked for a smaller length;
  - the bytes it adds are zero (`bpf_skb_grow_rcsum` clears them).
- **Helper errors** are ignored by the code, so a patch at an offset outside
  the frame leaves the frame unchanged.
- **Integers.** `__u16` arithmetic is reduced modulo 2^16.

### EgressContract: the refinement

`Egress` defines `Contract == INSTANCE EgressContract WITH ...`. The mapping
works as follows:

- The contract's input is `frame0`.
- Its record is the filter's `state` pointer.
- Its phase is `pending` up to the inner lookup. It is `decided` from the
  port rewrite until `bpf_skb_change_tail` succeeds, `grown` after that,
  and `done` once the filter returns.
- Its output summary is the `HeaderSummary` of `frame0` until the filter
  returns, and of `frame` after.

The linearisation point is therefore `LookupAddr` (egress.h:57). The
property `ImplementsContract == Contract!Spec` is a PROPERTY of `egress_partial`, and the
violation run `egress_odd_payload` checks it as well. It states all of the following:

- a truncated header drops the frame;
- an unmatched frame passes unchanged;
- a matched frame is forwarded with the port and lengths of one record the
  map held at the moment of the inner lookup;
- the filter may drop a matched frame only when that record asks for
  channel data, and then only in two cases:
  - the grow fails (spec 7, ResizeFailed);
  - after the grow, the frame's own lengths disagree with what it carries,
    or its payload exceeds `MAX_MTU` (spec 4.4 step 6i and spec 9);
- the filter terminates.

### AdjustRoom, Ingress, HandshakeTracer

- `AdjustRoom` reuses `Parse` .. `RewritePort`, because lines 4-68 of
  `egress_adjust_room.h` are those of `egress.h`. `InsertRoom` (lines
  70-143) is one step: everything after the `channel_id` read touches only
  the filter's own frame. `AdjustRoom(f, len)` is the helper: it opens `len`
  bytes at `14 + 20`, whatever `ihl` says, and the room holds a copy of the
  bytes before it.
- `Ingress` is one step. `ingress_filter` reads no map and does not change
  the frame; the match branch only logs. No property of it is checked.
  Any statement about its verdict would restate its own parse code.
- `HandshakeTracer` runs one probe per CPU, each from reserve to submit.
  `Reserve` is serialised by the ring's lock. The reader consumes records
  oldest first and stops at a busy one. A failed `bpf_probe_read_kernel`
  leaves zeros (`keys = "zeroed"`). The probe ignores the read's result
  and still submits (`kprobe_wg_index_hashtable_insert.c:42`). `ImplementsHandshakeLog` checks that a failed read never strands a
  reserved record. A record that is reserved but not yet
  filled holds garbage.
- `HandshakeTracer` defines `Log == INSTANCE HandshakeLog WITH ...`. The
  log's `pending` is the sequence of handshakes in the ring, busy or not.
  Its `delivered` is `consumed` without the busy bit. `fired` and `lost`
  map to themselves. `Reserve` refines `Fire`, and `Consume` refines
  `Deliver`. `Fill` and `Submit` are stuttering steps of the log. The
  property `ImplementsHandshakeLog == Log!Spec` states three things:
  - a handshake is lost only when the ring is full;
  - the reader gets every other handshake exactly once, in reservation
    order, with keys the probe wrote;
  - the reader gets each of them eventually.

## Runs

| Run | Expect | Shows |
|---|---|---|
| `checksum_code` | pass | Writes followed by their incremental patches always leave a checksum a receiver accepts. N = 3 words, values around 0, 0x7FFF/0x8000 and 0xFFFF, where end-around carries happen. |
| `checksum_noop` | violation | A patch with old = new turns 0xFFFF into 0, against spec 8's round-trip property. |
| `egress_partial` | pass | Offloaded checksums; every flow state; 2 racing map writes or deletes; alloc failure; ARP, TCP and truncated frames; `udp->len` of 0 and 65534, where the `__u16` newlen wraps. A forwarded datagram is well formed (`ForwardedFrameWellFormed`). It applies one whole version of its record (`SingleVersionApplied`). The filter refines `EgressContract` (`ImplementsContract`). Payloads are 0 and 2 words, since `egress_odd_payload` shows that the others break the contract. The refinement covers the local port the record asks for. So a separate port invariant is not checked here; `egress_ip_options` checks it, where it fails. |
| `egress_software` | pass | Software checksums with port-rewrite flows, including a rewrite to the same port. A forwarded datagram is well formed (`ForwardedFrameWellFormed`). |
| `egress_payload` | violation | The payload is not moved (egress.h:159): the ChannelData header overwrites its start, and the zeros `bpf_skb_change_tail` added replace its end. |
| `egress_software_channel` | violation | Under software checksums the inserted bytes are never patched into the UDP checksum (lines 194-196 are commented out). |
| `egress_ip_options` | violation | With ihl = 6 the checksum patch at the fixed `UDP_CSUM_OFF` corrupts the rewritten port. |
| `egress_in_place` | violation | With in-place element reuse the filter can apply `lport` from one version and `channel_id` from the next. |
| `egress_no_csum` | violation | A disabled (0) UDP checksum becomes a wrong nonzero one. |
| `egress_odd_payload` | violation | A channel record and a 2- or 6-byte payload: `bpf_skb_change_tail` succeeds, then the bounds check at egress.h:166 fails for the last 4-byte store and the frame is dropped (`ImplementsContract`). Spec 8 asks for it to be forwarded 4 bytes longer. |
| `adjust_room_framing` | pass | The `adjust_room` variant (ihl 5 and 6, racing writes, resize failure) forwards channel-data datagrams with the UDP header intact and the ChannelData header after it (`ChannelDataFramed`), which `egress.h` fails. |
| `handshake_ring` | pass | Three CPUs, four handshakes, a ring of two records. The ring never holds more than its capacity (`TypeOK`). The reader only sees filled records (`ConsumedRecordsFilled`). Probes and ring implement `HandshakeLog` (`ImplementsHandshakeLog`). |

Every property of a passing run has a mutant in `PROJECT.json`. A mutant is
a plausible bug that the run catches:

- a dropped end-around carry;
- swapped patch arguments;
- a skipped IPv4 patch;
- a fresh lookup for every field read;
- a miss in the inner map that drops the frame;
- the ChannelData header written over the UDP header;
- a ring reserve that admits one record too many;
- a record submitted before it is filled;
- a record released with `bpf_ringbuf_discard` instead of submitted.

### Bounds

- **Ports and addresses.** One monitored port with two addresses (one with
  a record, one without), and one unmonitored port. This gives both miss
  levels and a hit.
- **Payloads.** 0-3 words. That is enough for the shift loop to run 0, 1
  and 2 iterations. `egress_partial` takes 0 and 2 words (whole 32-bit
  words). `egress_odd_payload` takes 1 and 3. Payload values are all distinct, so a misplaced word
  shows up.
- **Map writes.** Two writes are enough to produce a torn read: one write
  between the two field reads, plus a delete or re-write.
- **adjust_room.** ihl 5 and 6, with and without payload, both checksum
  modes, and one map write. ihl 6 is the case where the helper's fixed
  offset and the code's `iph_len` differ.
- **Tracer.** Three CPUs give every interleaving of three probes. Four
  handshakes on a two-record ring reach the full-ring case, including a
  probe that finds the ring full while two other probes still hold busy
  records.

## Fairness

- **Egress.** `Spec` has `WF_vars(Filter)`. Once the kernel starts a tc
  program on a frame, it runs the program to completion: there are no
  waits, and the only loop is bounded. The control plane and `Terminated`
  are not fair, because nothing makes the control plane act. The contract
  demands termination (`WF` on its filter steps), and `ImplementsContract`
  checks it. The safety runs are unaffected by the fairness conjunct.
- **HandshakeTracer.** `Fill(c)` and `Submit(c)` are weakly fair, because a
  kprobe runs to completion once it has started. `Consume` is weakly fair,
  because the reader polls the ring. `Reserve` is not fair, because
  handshakes happen when peers connect. Under these assumptions the log's
  `WF` on `Deliver` holds: a busy head record is filled and submitted by
  its probe's fair steps, and then the reader's fair `Consume` takes it.
  TLC checks that as part of `ImplementsHandshakeLog`.
- **AdjustRoom.** It is checked for safety only.
  `AdjustRoom` is not checked against `EgressContract`. With ihl = 6 its
  shared port-rewrite step already breaks the contract: the checksum patch
  at the fixed `UDP_CSUM_OFF` turns the rewritten port back into the
  original one. That is the defect `egress_ip_options` shows, and it
  applies to `egress_adjust_room.h:67` as well.

`Terminated` and `Quiescent` let a finished behaviour stutter, so deadlock
checking stays on.

## Not modelled

- **Logging and settings**: `debug.h`, `settings_map` and `main.c`.
  `is_debug()` returns 1 (its map read is under `#if 0`), and
  `REQUEST_ID()` only tags log lines, so no decision depends on them.
  `ingress_map` is declared but never used.
- **`bpf_helpers.h` and `bpf_tracing.h`**: per-architecture register
  macros and helper declarations, with no behaviour of their own.
- **`kernel/config.c`**: it prints struct offsets at build time.
- **Map capacity** of `egress_map`.
- **The skb `csum_start` bookkeeping of `bpf_skb_adjust_room`** under
  CHECKSUM_PARTIAL.
- **The contents of the WireGuard keys.** The model tracks only whether a
  record's keys are read, zeroed or uninitialised.

## Known gaps

- `bpf_skb_adjust_room` breaks the IPv4 header checksum when ihl > 5
  (`egress_adjust_room.h:84`). This was seen with ihl = 6 while modelling,
  but no run checks it.
- The variant leaves out the UDP checksum patches
  (`egress_adjust_room.h:133-137`, commented out).
- The `MAX_MTU` cap (`egress.h:161`) hides behind the line-159 shift bug.
- An egress flow matched through an ihl < 5 header is not checked.
- `ingress_filter` accepts ihl < 5 as well (its `MAX_IP_HDR_LEN` bound
  can never hold). No property of the ingress filter is checked.
- The kprobe stamps `ktime` after the reservation, so the reader can get
  records out of `ktime` order. The model carries no timestamps.

## Open questions

These cases are left open. Each would need a violation run of its own,
and none of them is checked:

1. A payload longer than `MAX_MTU` with a corrected shift. This would
   check the drop-on-cap rule of spec 9.
2. A header-validity property for the `adjust_room` variant.
3. Helper failures at offsets outside the frame.

Everything else in `src/` that changes state is an action of a module.
What is left out, listed under "Not modelled", is macros, declarations,
debug code, build-time configuration and the user-space control plane,
which lives outside the repository.
