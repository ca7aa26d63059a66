---------------------------- MODULE MCSslWriter ----------------------------
(* SslWriter with records of two bytes: the texts and lines take one, two  *)
(* and three records.                                                      *)
EXTENDS SslWriter

MCData == {"a", "b", "c", "d", "CR", "LF"}
MCTexts == {<<"a">>, <<"b", "c", "d">>}
MCLineEnd == <<"CR", "LF">>
=============================================================================
