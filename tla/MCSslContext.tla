---------------------------- MODULE MCSslContext ----------------------------
(* SslContext with three threads, so that a third one can be created by a  *)
(* second that has, or has not, the objects of the first.                  *)
EXTENDS SslContext, TLC

(* Calls overlap as they please up to the first store of a stale count.    *)
(* TLC checks the state it leads to, and does not go on from there, where  *)
(* the claims about counts say nothing and the counts have no bound.       *)
NoneStale == ~miscounted

Interchangeable ==
  Permutations(Socks) \cup Permutations(Threads \ {Main})
=============================================================================
