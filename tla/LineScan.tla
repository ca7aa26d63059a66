------------------------------ MODULE LineScan ------------------------------
(***************************************************************************)
(* What readline and read_packet make of the bytes a peek has shown them:  *)
(* how many they take next, whether they then return, and how much of      *)
(* their buffer.  The readers of plain sockets and those of SSL sockets    *)
(* are two copies of this code around different recv functions.            *)
(***************************************************************************)
EXTENDS Naturals, Sequences, FiniteSetsExt

CONSTANTS
  Chunk,    \* "len", the 1024 bytes of one peek
  Sep,      \* the separator of read_packet
  Maxima    \* the maxsize arguments; 0 is none

Bytes == {"x", "CR", "LF", "NUL"}
Unwritten == "any"

ASSUME LineScanAssumption ==
  /\ Chunk \in Nat \ {0}
  /\ Sep \in Seq(Bytes \ {"NUL"}) /\ Sep # <<>>
  /\ Maxima \subseteq Nat

(* The locals of a call.  start is where in the stream it began; length    *)
(* is *p_len, and done whether the call returns, after the next take.      *)
Calls == [method : {"readline", "read_packet"}, max : Maxima \cup {0},
          start : Nat, pos : Nat, matched : Nat, n : Nat, done : BOOLEAN,
          length : Nat]
NoCall == [method |-> "readline", max |-> 0, start |-> 0, pos |-> 0,
           matched |-> 0, n |-> 0, done |-> FALSE, length |-> 0]

CallOf(method, max, start) ==
  [NoCall EXCEPT !.method = method, !.max = max, !.start = start]
-----------------------------------------------------------------------------
(* The buffer.                                                             *)

(* Mutant: the bytes go to the start of the buffer.                        *)
PutFirst(b, pos, bytes) ==
  [k \in DOMAIN b |-> IF k \in DOMAIN bytes THEN bytes[k] ELSE b[k]]

(* b with bytes copied to offset pos, and with a NUL there.                *)
Put(b, pos, bytes) ==
  [k \in DOMAIN b |-> IF k > pos /\ k - pos \in DOMAIN bytes
                      THEN bytes[k - pos] ELSE b[k]]
Terminate(b, pos) == Put(b, pos, <<"NUL">>)

(* Renew, if the buffer does not hold len bytes.                           *)
Grown(b, len) ==
  IF Len(b) >= len THEN b
  ELSE [k \in 1 .. len |-> IF k <= Len(b) THEN b[k] ELSE Unwritten]
-----------------------------------------------------------------------------
(* Each outcome is the call c as it goes on: take n bytes, then return     *)
(* length bytes if done, or peek again.  got is what the peek has shown.   *)

(* The next take is of n bytes; then the call returns length bytes.        *)
TakeAndReturn(c, n, length) ==
  [c EXCEPT !.n = n, !.done = TRUE, !.length = length]

(* Mutant: the call peeks again also after a chunk that was not full.      *)
TakeAllAndGoOn(c, got, matched) ==
  [c EXCEPT !.n = Len(got), !.matched = matched, !.done = FALSE,
            !.length = c.pos + Len(got)]

(* No end in the chunk: take all of it, and go on if it was a full one.    *)
TakeAll(c, got, matched) ==
  [c EXCEPT !.n = Len(got), !.matched = matched,
            !.done = Len(got) < Chunk, !.length = c.pos + Len(got)]

LineEnds == {"CR", "LF", "NUL"}

(* Mutant: the last end of the chunk is taken for the first.               *)
FirstEndLast(bytes) == LET e == {k \in DOMAIN bytes : bytes[k] \in LineEnds}
                       IN IF e = {} THEN 0 ELSE Max(e)

(* The place of the first line end in bytes, or 0.                         *)
FirstEnd(bytes) == LET e == {k \in DOMAIN bytes : bytes[k] \in LineEnds}
                   IN IF e = {} THEN 0 ELSE Min(e)

(* "if( i < (size_t) r )" is always true: the byte behind the line end is  *)
(* looked at even if the peek has not written it.                          *)
SecondEnd(end, follows) ==
  CASE end = "NUL" -> {0}
    [] follows = Unwritten -> {0, 1}
    [] OTHER -> {IF {end, follows} = {"CR", "LF"} THEN 1 ELSE 0}

(* readline, with what the peek has made of the buffer.                    *)
LineOutcomes(c, got, peeked) ==
  LET i == FirstEnd(got)
      at == c.pos + i
      follows == IF at < Len(peeked) THEN peeked[at + 1] ELSE Unwritten
  IN IF i = 0 THEN {TakeAll(c, got, 0)}
     ELSE {TakeAndReturn(c, i + second, at - 1) :
             second \in SecondEnd(got[i], follows)}

(* Mutant: the search for the separator starts again with every chunk.     *)
MatchedAnew(c, bytes) ==
  LET m[k \in 0 .. Len(bytes)] ==
        IF k = 0 THEN 0
        ELSE IF m[k - 1] < Len(Sep) /\ bytes[k] = Sep[m[k - 1] + 1]
        THEN m[k - 1] + 1 ELSE 0
  IN m

(* How much of the separator is matched after each byte: a byte that does  *)
(* not fit starts the search again, and is not looked at as a first one.   *)
Matched(c, bytes) ==
  LET m[k \in 0 .. Len(bytes)] ==
        IF k = 0 THEN c.matched
        ELSE IF m[k - 1] < Len(Sep) /\ bytes[k] = Sep[m[k - 1] + 1]
        THEN m[k - 1] + 1 ELSE 0
  IN m

(* How many bytes of this chunk may be looked at.                          *)
Room(c, count) == IF c.max = 0 THEN count ELSE c.max - c.pos

(* Mutants: "i++" before the take is forgotten; the length is counted from *)
(* the start of the chunk.                                                 *)
PacketEndShort(c, k) == TakeAndReturn(c, k - 1, c.pos + k - Len(Sep))
PacketEndOfChunk(c, k) == TakeAndReturn(c, k, k - Len(Sep))

(* The separator ends at byte k of the chunk.                              *)
PacketEnd(c, k) == TakeAndReturn(c, k, c.pos + k - Len(Sep))

PacketOutcome(c, got) ==
  LET m == Matched(c, got)
      room == Room(c, Len(got))
      found == {k \in 1 .. Min({room, Len(got)}) : m[k] = Len(Sep)}
  IN IF found # {} THEN PacketEnd(c, Min(found))
     ELSE IF room < Len(got) THEN TakeAndReturn(c, room, c.pos + room)
     ELSE TakeAll(c, got, m[Len(got)])

Outcomes(c, got, peeked) ==
  IF c.method = "readline" THEN LineOutcomes(c, got, peeked)
                           ELSE {PacketOutcome(c, got)}

(* A call that is to return has put a NUL where it has stopped: at the     *)
(* line end, the last byte of the separator, the maximum, or behind a      *)
(* chunk that was not full.                                                *)
Stopped(c, peeked) ==
  IF ~c.done THEN peeked
  ELSE IF c.method = "read_packet" /\ c.length < c.pos + c.n
  THEN Terminate(peeked, c.pos + c.n - 1)
  ELSE Terminate(peeked, c.length)
=============================================================================
