------------------------- MODULE MC_HandshakeTracer -------------------------
(***************************************************************************)
(* Model-checking instance of HandshakeTracer: three CPUs, four            *)
(* handshakes and a ring of two records, so that three probes overlap, a   *)
(* busy record holds up submitted ones behind it, and a probe finds the    *)
(* ring full while the other two still hold their records.                 *)
(***************************************************************************)
EXTENDS HandshakeTracer

CONSTANTS c1, c2, c3, h1, h2, h3, h4

MC_CPUs == {c1, c2, c3}
MC_Handshakes == {h1, h2, h3, h4}

=============================================================================
