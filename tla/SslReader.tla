------------------------------ MODULE SslReader -----------------------------
(***************************************************************************)
(* readline and read_packet of a Socket::Class::SSL connection: the        *)
(* readers of LineScan on top of the receiving side of SslStream.  What a  *)
(* peek shows goes to rcvbuf and stays there for the take, and for later   *)
(* calls; a peek shows no more than rcvbuf and one record.                 *)
(***************************************************************************)
EXTENDS LineScan

CONSTANTS
  MaxSent, Sent,  \* as in LineReader
  Lengths         \* the len arguments of recv

ASSUME SslReaderAssumption ==
  MaxSent \in Nat /\ Sent \subseteq Bytes /\ Lengths \subseteq Nat \ {0}

VARIABLES
  sent, cuts, partial, ended, read, recordEnd, rcvbuf, state, errors, res,
            \* the stream, as in SslStream
  buffer,   \* ud->buffer
  pc,       \* "idle", or the recv the call makes next: "peek", "take"
  call,     \* which call, and its locals
  line      \* what the call returned; "none" until it has

stream == <<sent, cuts, partial, ended, read, recordEnd, rcvbuf, state,
            errors, res>>
reader == <<buffer, pc, call, line>>
vars == <<stream, reader>>

(* No other object leaves entries in the error queue here.                 *)
S == INSTANCE SslStream WITH Data <- Sent, MaxErrors <- 0

Line(ok, bytes) == [ok |-> ok, bytes |-> bytes]
NoLine == Line("none", <<>>)

Init ==
  /\ S!Init
  /\ buffer = <<>> /\ pc = "idle" /\ call = NoCall /\ line = NoLine
-----------------------------------------------------------------------------
Begin(method, max) ==
  /\ pc = "idle"
  /\ pc' = "peek"
  /\ call' = CallOf(method, max, S!Taken)
  /\ line' = NoLine
  /\ UNCHANGED <<stream, buffer>>

Return(ok, bytes) == pc' = "idle" /\ line' = Line(ok, bytes)

Before == Grown(buffer, call.pos + Chunk)

(* The peek shows something.                                               *)
Look(got) ==
  LET peeked == Put(Before, call.pos, got)
  IN /\ call' \in Outcomes(call, got, peeked)
     /\ buffer' = Stopped(call', peeked)
     /\ pc' = "take"
     /\ UNCHANGED line

(* Mutant: an error is returned whatever earlier chunks have given.        *)
GiveNothing(ok) ==
  /\ buffer' = Before
  /\ Return(IF ok THEN "yes" ELSE "no", SubSeq(buffer, 1, call.pos))
  /\ UNCHANGED call

(* It does not.  What earlier chunks have given is returned, and an error  *)
(* left for the next call; a line that is not complete gets no NUL.        *)
GiveWhatThereIs(ok) ==
  /\ UNCHANGED call
  /\ \/ /\ ok \/ call.pos > 0
        /\ buffer' = IF ok THEN Before ELSE Terminate(Before, call.pos)
        /\ Return("yes", SubSeq(buffer, 1, call.pos))
     \/ /\ ~ok /\ call.pos = 0
        /\ buffer' = Before
        /\ Return("no", <<>>)

Peek ==
  /\ pc = "peek"
  /\ S!Recv(Chunk, TRUE)
  /\ \/ res'.bytes # <<>> /\ Look(res'.bytes)
     \/ res'.bytes = <<>> /\ GiveWhatThereIs(res'.ok)

(* Mutant: the maximum is taken as it is given.                            *)
TakeMaximum == S!Recv(IF call.n = 0 THEN call.max ELSE call.n, FALSE)

(* The recv without MSG_PEEK, of no bytes if the maximum is reached.  What *)
(* it returns is not looked at.                                            *)
TakeBytes == IF call.n = 0 THEN UNCHANGED stream ELSE S!Recv(call.n, FALSE)

Take ==
  /\ pc = "take"
  /\ TakeBytes
  /\ LET b == IF call.n = 0 THEN buffer ELSE Put(buffer, call.pos, res'.bytes)
     IN /\ buffer' = b
        /\ \/ /\ call.done
              /\ Return("yes", SubSeq(b, 1, call.length))
              /\ UNCHANGED call
           \/ /\ ~call.done
              /\ call' = [call EXCEPT !.pos = call.length]
              /\ pc' = "peek"
              /\ UNCHANGED line

(* The script's own calls of recv and read, which use the same buffer.     *)
Recv ==
  /\ pc = "idle"
  /\ \E len \in Lengths, isPeek \in BOOLEAN :
       /\ S!Recv(len, isPeek)
       /\ buffer' = Put(Grown(buffer, len), 0, res'.bytes)
  /\ call' = NoCall /\ line' = NoLine
  /\ UNCHANGED pc

Close ==
  /\ pc = "idle"
  /\ S!Close
  /\ UNCHANGED reader

(* Records arrive, and the connection ends, at any moment.  Parts of       *)
(* records, which recv does not tell from nothing, are left to SslStream.  *)
Peer ==
  /\ S!RecordArrives \/ S!PeerEnds
  /\ UNCHANGED reader

Next ==
  \/ Begin("readline", 0)
  \/ \E max \in Maxima : Begin("read_packet", max)
  \/ Peek \/ Take
  \/ Recv \/ Close \/ Peer

Spec == Init /\ [][Next]_vars
-----------------------------------------------------------------------------
TypeOK ==
  /\ S!TypeOK
  /\ buffer \in Seq(Bytes \cup {Unwritten})
  /\ pc \in {"idle", "peek", "take"}
  /\ call \in Calls
  /\ line \in [ok : {"none", "yes", "no"},
               bytes : Seq(Bytes \cup {Unwritten})]

Returned == pc = "idle" /\ line.ok = "yes"
Overread == SubSeq(sent, call.start + Len(line.bytes) + 1, S!Taken)

(* A call returns the bytes of the connection from where the last call has *)
(* stopped, be it readline, read_packet or recv: none garbled by the two   *)
(* buffers, none skipped or repeated between chunks and between records.   *)
(* A call that fails has taken nothing, also after a chunk or a record.    *)
InOrder ==
  /\ Returned =>
       line.bytes = SubSeq(sent, call.start + 1, call.start + Len(line.bytes))
  /\ pc = "idle" /\ line.ok = "no" => S!Taken = call.start

(* No byte behind the line end is lost, even if it is the last that the    *)
(* peek has shown and what lies behind it in the buffer completes a pair:  *)
(* a peek that has shown less than a chunk has left OpenSSL without bytes. *)
(* It can happen only behind the last byte of a full chunk.                *)
LineStops ==
  Returned /\ call.method = "readline" /\ (Len(line.bytes) + 1) % Chunk # 0 =>
    Overread \in {<<>>, <<"CR", "LF">>, <<"LF", "CR">>, <<"LF">>, <<"CR">>,
                  <<"NUL">>}

(* read_packet returns at most maxsize bytes, and takes what it returns    *)
(* and the separator, never a byte more, and never a part of the separator *)
(* only, also when the connection is reset between the peek and the take.  *)
PacketExact ==
  Returned /\ call.method = "read_packet" =>
    /\ call.max > 0 => Len(line.bytes) <= call.max
    /\ Overread \in {<<>>, Sep}

(* Another peek is made only when all that was shown has been taken and    *)
(* was a full chunk: the call does not wait with half a chunk in hand.     *)
PeeksOnFullChunk ==
  pc = "peek" => call.pos % Chunk = 0 /\ S!Taken = call.start + call.pos
=============================================================================
