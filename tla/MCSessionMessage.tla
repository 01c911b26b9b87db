-------------------------- MODULE MCSessionMessage --------------------------
(* A small instance of SessionMessage for TLC: two messages, then a length *)
(* out of range.                                                           *)
EXTENDS SessionMessage

CONSTANTS w1, w2, c1

MCWorkers == {w1, w2}
MCClosers == {c1}
MCStream == <<"len", "body", "len", "body", "bad">>
=============================================================================
