----------------------------- MODULE MCRegistry -----------------------------
(* Registry with the constants of the runs: two or three Perl threads, two *)
(* addresses (so that a freed block is handed out again), two chains.      *)
EXTENDS Registry, TLC

(* Addresses are interchangeable, and so are the threads but the main one. *)
Interchangeable ==
  Permutations(Blocks) \cup Permutations(Threads \ {Main})
=============================================================================
