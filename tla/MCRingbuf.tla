------------------------------ MODULE MCRingbuf ------------------------------
(* Ringbuf with its inductive invariant and both of its abstractions. *)
EXTENDS RingbufInvariant, RingbufAtomic
=============================================================================
