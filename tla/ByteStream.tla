----------------------------- MODULE ByteStream -----------------------------
(***************************************************************************)
(* What recv promises of one direction of a connection: the bytes that     *)
(* have arrived are given out in order; a peek shows the next ones and     *)
(* leaves them; a take gives them once.                                    *)
(***************************************************************************)
EXTENDS Naturals, Sequences

CONSTANT Data

VARIABLES
  arrived, \* every byte that has arrived
  taken,   \* how many of them have been given out for good
  given    \* what the last call gave

vars == <<arrived, taken, given>>

Init ==
  /\ arrived = <<>>
  /\ taken = 0
  /\ given = <<>>

Arrive ==
  /\ arrived' \in Seq(Data)
  /\ Len(arrived) <= Len(arrived')
  /\ SubSeq(arrived', 1, Len(arrived)) = arrived
  /\ UNCHANGED <<taken, given>>

(* The next n bytes.                                                       *)
Front(n) == SubSeq(arrived, taken + 1, taken + n)

Peek(n) ==
  /\ given' = Front(n)
  /\ UNCHANGED <<arrived, taken>>

Take(n) ==
  /\ given' = Front(n)
  /\ taken' = taken + n
  /\ UNCHANGED arrived

Nothing ==
  /\ given' = <<>>
  /\ UNCHANGED <<arrived, taken>>

Next ==
  \/ Arrive \/ Nothing
  \/ \E n \in 1 .. Len(arrived) - taken : Peek(n) \/ Take(n)

Spec == Init /\ [][Next]_vars
=============================================================================
