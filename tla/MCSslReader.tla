---------------------------- MODULE MCSslReader -----------------------------
(* SslReader with a chunk of two bytes and records of one to three: line   *)
(* ends and separators fall on, before and behind the ends of both.        *)
EXTENDS SslReader

MCSent == {"x", "CR", "LF"}
MCSep == <<"CR", "LF">>
=============================================================================
