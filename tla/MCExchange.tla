----------------------------- MODULE MCExchange -----------------------------
(* Exchange with two tabs, a stream of two events and runs of two requests. *)
EXTENDS Exchange

CONSTANTS t1, t2
=============================================================================
