--------------------------- MODULE MCSessionSend ---------------------------
(* Small instances of SessionSend for TLC. *)
EXTENDS SessionSend

CONSTANTS s1, s2, io1, io2

MCSender == {s1}
MCSenders == {s1, s2}
MCIo == {io1}
MCIos == {io1, io2}
=============================================================================
