---------------------------- MODULE MCSslStream ----------------------------
(* SslStream with records of one to three bytes, and calls that ask for    *)
(* less than a record, a whole one and more than one.                      *)
EXTENDS SslStream

MCData == {"x", "y"}
MCLengths == {1, 2, 4}
=============================================================================
