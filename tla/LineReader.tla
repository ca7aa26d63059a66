----------------------------- MODULE LineReader -----------------------------
(***************************************************************************)
(* readline and read_packet: a call peeks at the next bytes of the stream, *)
(* looks for an end in them, and then takes from the kernel as many bytes  *)
(* as it has decided to use.  More bytes arrive, and the connection ends,  *)
(* at any moment, also between the peek and the take.                      *)
(*                                                                         *)
(* sock->buffer is kept from call to call, so that behind the bytes a peek *)
(* has written lie those of earlier calls, or bytes nobody has written,    *)
(* which read as anything.                                                 *)
(***************************************************************************)
EXTENDS LineScan

CONSTANTS
  MaxSent,  \* bounds the bytes the peer sends
  Sent      \* the bytes it sends

ASSUME ReaderAssumption == MaxSent \in Nat /\ Sent \subseteq Bytes

VARIABLES
  sent,     \* all that the peer has sent
  taken,    \* how much of it the process has taken from the kernel
  ended,    \* the peer has closed ("eof"), or the connection is "reset"
  buffer,   \* sock->buffer, of length sock->buffer_len
  pc,       \* "idle", or the recv the call makes next: "peek", "take"
  call,     \* which call, and its locals
  res       \* what the last call returned

vars == <<sent, taken, ended, buffer, pc, call, res>>

(* The receive queue; a reset empties it.                                  *)
Queue == IF ended = "reset" THEN <<>> ELSE SubSeq(sent, taken + 1, Len(sent))
Front(n) == SubSeq(Queue, 1, Min({n, Len(Queue)}))
-----------------------------------------------------------------------------
Init ==
  /\ sent = <<>> /\ taken = 0 /\ ended = "no"
  /\ buffer = <<>>
  /\ pc = "idle" /\ call = NoCall
  /\ res = [ok |-> TRUE, bytes |-> <<>>]

Begin(method, max) ==
  /\ pc = "idle"
  /\ pc' = "peek"
  /\ call' = CallOf(method, max, taken)
  /\ UNCHANGED <<sent, taken, ended, buffer, res>>

Return(ok, bytes) ==
  /\ pc' = "idle"
  /\ res' = [ok |-> ok, bytes |-> bytes]

(* What is in the buffer before and after the peek.                        *)
Before == Grown(buffer, call.pos + Chunk)
Peeked == Put(Before, call.pos, Front(Chunk))

(* Nothing to peek at: EWOULDBLOCK, the end of the stream or an error.     *)
(* What earlier chunks have given is returned, and the error left for the  *)
(* next call.                                                              *)
PeekNothing ==
  /\ pc = "peek" /\ Queue = <<>>
  /\ \/ /\ call.pos > 0 \/ ended = "no"
        /\ buffer' = Terminate(Before, call.pos)
        /\ Return(TRUE, SubSeq(buffer, 1, call.pos))
     \/ /\ call.pos = 0
        /\ buffer' = Before
        /\ Return(FALSE, <<>>)
  /\ UNCHANGED <<sent, taken, ended, call>>

Peek ==
  /\ pc = "peek" /\ Queue # <<>>
  /\ call' \in Outcomes(call, Front(Chunk), Peeked)
  /\ buffer' = Stopped(call', Peeked)
  /\ pc' = "take"
  /\ UNCHANGED <<sent, taken, ended, res>>

(* The recv without MSG_PEEK.  What it returns is not looked at.           *)
Take ==
  /\ pc = "take"
  /\ LET got == Front(call.n)
         b == Put(buffer, call.pos, got)
     IN /\ taken' = taken + Len(got)
        /\ \/ /\ call.done
              /\ buffer' = b
              /\ Return(TRUE, SubSeq(b, 1, call.length))
              /\ UNCHANGED call
           \/ /\ ~call.done
              /\ buffer' = b
              /\ call' = [call EXCEPT !.pos = call.length]
              /\ pc' = "peek"
              /\ UNCHANGED res
  /\ UNCHANGED <<sent, ended>>
-----------------------------------------------------------------------------
(* The peer.                                                               *)
Arrive ==
  /\ ended = "no" /\ Len(sent) < MaxSent
  /\ \E b \in Sent : sent' = Append(sent, b)
  /\ UNCHANGED <<taken, ended, buffer, pc, call, res>>

PeerEnds ==
  /\ ended = "no"
  /\ ended' \in {"eof", "reset"}
  /\ UNCHANGED <<sent, taken, buffer, pc, call, res>>

Next ==
  \/ Begin("readline", 0)
  \/ \E max \in Maxima : Begin("read_packet", max)
  \/ PeekNothing \/ Peek \/ Take
  \/ Arrive \/ PeerEnds

Spec == Init /\ [][Next]_vars
-----------------------------------------------------------------------------
TypeOK ==
  /\ sent \in Seq(Sent) /\ Len(sent) <= MaxSent
  /\ taken \in 0 .. Len(sent)
  /\ ended \in {"no", "eof", "reset"}
  /\ buffer \in Seq(Bytes \cup {Unwritten})
  /\ pc \in {"idle", "peek", "take"}
  /\ call \in Calls
  /\ res \in [ok : BOOLEAN, bytes : Seq(Bytes \cup {Unwritten})]

(* How far behind the bytes returned the call has read.                    *)
Returned == pc = "idle" /\ res.ok
Overread == SubSeq(sent, call.start + Len(res.bytes) + 1, taken)

(* A call returns the bytes of the stream from where the last call has     *)
(* stopped: none garbled by what is left in the buffer, none skipped or    *)
(* repeated between one chunk and the next, whatever arrives meanwhile.  A  *)
(* call that fails has taken nothing.                                      *)
InOrder ==
  /\ Returned =>
       res.bytes = SubSeq(sent, call.start + 1, call.start + Len(res.bytes))
  /\ pc = "idle" /\ ~res.ok => taken = call.start

(* A line has no line end in it, and what readline takes from the stream   *)
(* behind it begins with one and is at most two bytes.                     *)
LineBounded ==
  Returned /\ call.method = "readline" =>
    /\ \A k \in DOMAIN res.bytes : res.bytes[k] \notin LineEnds
    /\ Overread # <<>> => Len(Overread) <= 2 /\ Overread[1] \in LineEnds

(* read_packet returns at most maxsize bytes, and takes what it returns    *)
(* and the separator, never a byte more, and never a part of the separator *)
(* only, unless a reset has emptied the queue.                             *)
PacketExact ==
  Returned /\ call.method = "read_packet" =>
    /\ call.max > 0 => Len(res.bytes) <= call.max
    /\ ended # "reset" => Overread \in {<<>>, Sep}

(* A packet does not contain the separator, also where it was spread over  *)
(* two chunks, unless what comes before it has begun like a separator.     *)
PacketStops ==
  Returned /\ call.method = "read_packet" =>
    \A k \in 1 .. Len(res.bytes) - Len(Sep) + 1 :
      SubSeq(res.bytes, k, k + Len(Sep) - 1) = Sep =>
        k > 1 /\ \E j \in 1 .. Len(Sep) - 1 : res.bytes[k - 1] = Sep[j]

(* readline stops at CR LF, LF CR, LF, CR or NUL: what it takes behind the  *)
(* line is one of these.                                                   *)
LineStops ==
  Returned /\ call.method = "readline" =>
    Overread \in {<<>>, <<"CR", "LF">>, <<"LF", "CR">>, <<"LF">>, <<"CR">>,
                  <<"NUL">>}
=============================================================================
