---------------------------- MODULE MCLineReader ----------------------------
(* LineReader with a chunk of two bytes, which puts a line end, and the    *)
(* separator, on each side of a chunk's end and across it.                 *)
EXTENDS LineReader

MCSent == {"x", "CR", "LF"}
MCSep == <<"CR", "LF">>
=============================================================================
