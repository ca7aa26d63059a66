-------------------------- MODULE SslReader_proofs --------------------------
(***************************************************************************)
(* readline and read_packet of an SSL connection return the bytes of the   *)
(* connection in order and lose none behind a line or a packet, for any    *)
(* bytes, records, length of a chunk, separator and maximum.  What the     *)
(* readers decide comes from LineScan_proofs, what the connection gives    *)
(* them from SslStream_proofs.                                             *)
(***************************************************************************)
EXTENDS SslReader, LineScan_proofs

(* The connection, with what is proved of it for recv of any length.       *)
P == INSTANCE SslStream_proofs
       WITH Data <- Sent, MaxErrors <- 0, Lengths <- Nat \ {0}

(* The last peek has shown the first g bytes of rcvbuf, and less than a    *)
(* chunk only if there is nothing behind them.                             *)
Shown(g) ==
  /\ g \in 1 .. Chunk /\ g <= Len(rcvbuf)
  /\ g < Chunk => Len(rcvbuf) = g /\ S!Pending = 0

(* Behind a line of len bytes has been taken nothing, or its line end, or  *)
(* a pair of them.                                                         *)
LineEnded(s, c, len, taken) ==
  LET end == c.start + len + 1
  IN \/ taken + 1 = end
     \/ taken = end /\ s[end] \in LineEnds
     \/ taken = end + 1 /\ {s[end], s[end + 1]} = {"CR", "LF"}

Typed ==
  /\ P!IInv
  /\ buffer \in Seq(Cells)
  /\ pc \in {"idle", "peek", "take"}
  /\ CallTyped(call) /\ call.start <= S!Taken
  /\ line \in [ok : {"none", "yes", "no"}, bytes : Seq(Cells)]

Position ==
  pc # "idle" =>
    S!Taken = call.start + call.pos /\ call.pos % Chunk = 0

AtPeek == pc = "peek" => Searched(sent, call, buffer)
AtTake ==
  pc = "take" =>
    /\ Decided(sent, call, buffer)
    /\ \E g \in Nat : Shown(g) /\ Foreseen(sent, call, g)

AtReturn ==
  /\ Returned =>
       /\ Answers(sent, call, line.bytes)
       /\ call.method = "readline" /\ (Len(line.bytes) + 1) % Chunk # 0 =>
            LineEnded(sent, call, Len(line.bytes), S!Taken)
       /\ call.method = "read_packet" =>
            PacketTaken(sent, call, Len(line.bytes), S!Taken)
  /\ pc = "idle" /\ line.ok = "no" => S!Taken = call.start

IInv == Typed /\ Position /\ AtPeek /\ AtTake /\ AtReturn
-----------------------------------------------------------------------------
(* The connection.                                                         *)

LEMMA Assumed == P!SslStreamAssumption
  BY SslReaderAssumption DEF P!SslStreamAssumption

LEMMA SameQueues ==
  /\ S!Taken = P!Taken /\ S!Taken' = P!Taken'
  /\ S!Pending = P!Pending /\ S!Pending' = P!Pending'
  BY SMTT(30) DEF S!Taken, P!Taken, S!Pending, P!Pending

LEMMA SameRecv ==
  ASSUME NEW len, NEW isPeek, S!Recv(len, isPeek)
  PROVE  P!Recv(len, isPeek)
  BY DEF S!Recv, S!RecvBuffered, S!RecvRead, S!RecvWouldBlock, S!RecvFails,
         S!BufferSuffices, S!LeftInBuffer, S!FromBuffer, S!Wanted, S!Answer,
         S!Result, S!Method, S!Lesser, S!Pending, S!Delivered, S!SourceEnd,
         S!SslReadable, S!SslRead, S!Consume, S!AfterRead, S!SslStarve,
         S!WantRead, S!peer,
         P!Recv, P!RecvBuffered, P!RecvRead, P!RecvWouldBlock, P!RecvFails,
         P!BufferSuffices, P!LeftInBuffer, P!FromBuffer, P!Wanted, P!Answer,
         P!Result, P!Method, P!Lesser, P!Pending, P!Delivered, P!SourceEnd,
         P!SslReadable, P!SslRead, P!Consume, P!AfterRead, P!SslStarve,
         P!WantRead, P!peer

LEMMA SameStep ==
  ASSUME S!RecordArrives \/ S!PeerEnds \/ S!Close
  PROVE  P!RecordArrives \/ P!PeerEnds \/ P!Close
  BY DEF S!RecordArrives, S!PeerEnds, S!Close,
         P!RecordArrives, P!PeerEnds, P!Close

LEMMA Queues ==
  ASSUME P!IInv
  PROVE  /\ sent \in Seq(Bytes) /\ Len(sent) \in Nat
         /\ rcvbuf \in Seq(Sent) /\ Len(rcvbuf) \in Nat
         /\ S!Taken \in Nat /\ S!Taken + Len(rcvbuf) <= Len(sent)
         /\ S!Taken <= Len(sent)
  <1>1. /\ Len(sent) \in Nat /\ Len(rcvbuf) \in Nat /\ read \in Nat
        /\ recordEnd \in Nat /\ read <= recordEnd /\ recordEnd <= Len(sent)
        /\ P!Taken \in Nat /\ P!Taken + Len(rcvbuf) = read
        /\ rcvbuf \in Seq(Sent)
    BY Assumed, P!TakenBounds
  <1>2. sent \in Seq(Sent) /\ Sent \subseteq Bytes
    BY SslReaderAssumption DEF P!IInv, P!TypeOK
  <1>3. sent \in Seq(Bytes)
    BY <1>2
  <1> QED BY <1>1, <1>3, SameQueues

(* A recv keeps the queues in order and gives the next bytes.              *)
LEMMA Received ==
  ASSUME P!IInv, NEW len \in Nat \ {0}, NEW isPeek \in BOOLEAN,
         S!Recv(len, isPeek)
  PROVE  LET got == res'.bytes
         IN /\ P!IInv' /\ sent' = sent
            /\ got \in Seq(Bytes) /\ Len(got) \in Nat
            /\ Lies(got, S!Taken, sent)
            /\ S!Taken' = IF isPeek THEN S!Taken ELSE S!Taken + Len(got)
  <1> DEFINE got == res'.bytes
  <1>1. P!Recv(len, isPeek)
    BY SameRecv
  <1>2. P!IInv' /\ \E n \in Nat : P!Gives(isPeek, n)
    BY <1>1, Assumed, P!RecvGives
  <1>3. PICK n \in Nat : P!Gives(isPeek, n)
    BY <1>2
  <1>4. /\ P!Taken + n <= Len(sent)
        /\ got \in Seq(Sent) /\ Len(got) = n
        /\ got = SubSeq(sent, P!Taken + 1, P!Taken + n)
        /\ P!Taken' = IF isPeek THEN P!Taken ELSE P!Taken + n
    BY <1>3 DEF P!Gives
  <1>5. sent' = sent
    BY <1>1 DEF P!Recv, P!peer
  <1>6. got \in Seq(Bytes)
    BY <1>4, SslReaderAssumption
  <1> HIDE DEF got
  <1>7. Lies(got, P!Taken, sent)
    <2> DEFINE t == P!Taken
    <2>1. /\ t \in Nat /\ t + n <= Len(sent) /\ sent \in Seq(Bytes)
          /\ Len(sent) \in Nat /\ got = SubSeq(sent, t + 1, t + n)
      BY <1>4, Queues, SameQueues
    <2>2. \A k \in t + 1 .. t + n : sent[k] \in Bytes
      BY <2>1, ElementOfSeq
    <2> HIDE DEF t
    <2>3. \A k \in 1 .. n : SubSeq(sent, t + 1, t + n)[k] = sent[t + k]
      BY <2>1, <2>2, SubSeqProperties, SMT
    <2>4. Lies(got, t, sent)
      BY <1>4, <2>1, <2>3 DEF Lies
    <2> QED BY <2>4 DEF t
  <1> QED BY <1>2, <1>4, <1>5, <1>6, <1>7, SameQueues DEF got

(* What a peek has shown lies in rcvbuf, and less than a chunk only if     *)
(* there is nothing behind it.                                             *)
LEMMA PeekReceived ==
  ASSUME P!IInv, S!Recv(Chunk, TRUE)
  PROVE  LET g == Len(res'.bytes)
         IN /\ g \in 0 .. Chunk /\ g <= Len(rcvbuf')
            /\ 0 < g /\ g < Chunk => Len(rcvbuf') = g /\ S!Pending' = 0
  <1>1. Chunk \in Nat \ {0}
    BY LineScanAssumption
  <1>2. P!Recv(Chunk, TRUE)
    BY SameRecv
  <1> QED BY <1>1, <1>2, Assumed, P!PeekShows, SameQueues

(* A take of what a peek has shown.                                        *)
LEMMA TakeReceived ==
  ASSUME P!IInv, NEW n \in Nat \ {0}, S!Recv(n, FALSE), rcvbuf # <<>>,
         n <= Len(rcvbuf) \/ S!Pending = 0
  PROVE  Len(res'.bytes) = IF n < Len(rcvbuf) THEN n ELSE Len(rcvbuf)
  <1>1. P!Recv(n, FALSE)
    BY SameRecv
  <1>2. Len(res'.bytes) = P!Lesser(n, Len(rcvbuf))
    BY <1>1, Assumed, P!TakeGives, SameQueues
  <1> QED BY <1>2 DEF P!Lesser

(* The peer sends or ends, or the socket is closed: the queues lose        *)
(* nothing of what recv has, and the stream goes on.                       *)
LEMMA PeerKeeps ==
  ASSUME P!IInv, S!RecordArrives \/ S!PeerEnds \/ S!Close
  PROVE  /\ P!IInv' /\ Extends(sent, sent')
         /\ UNCHANGED <<read, recordEnd, rcvbuf>>
         /\ S!Taken' = S!Taken /\ S!Pending' = S!Pending
  <1>1. P!RecordArrives \/ P!PeerEnds \/ P!Close
    BY SameStep
  <1>2. P!IInv'
    <2>1. P!Next
      BY <1>1 DEF P!Next
    <2> QED BY <2>1, Assumed, P!Inductive
  <1>3. UNCHANGED <<read, recordEnd, rcvbuf>>
    BY <1>1 DEF P!RecordArrives, P!PeerEnds, P!Close
  <1>4. Extends(sent, sent')
    <2>1. CASE P!RecordArrives
      BY <2>1, Assumed, P!RecordExtends DEF Extends
    <2>2. CASE P!PeerEnds \/ P!Close
      <3>1. sent' = sent
        BY <2>2 DEF P!PeerEnds, P!Close
      <3>2. Len(sent) \in Nat
        BY Queues
      <3> QED BY <3>1, <3>2 DEF Extends
    <2> QED BY <1>1, <2>1, <2>2
  <1> QED BY <1>2, <1>3, <1>4 DEF S!Taken, S!Pending
-----------------------------------------------------------------------------
(* The steps.                                                              *)

LEMMA InitHolds ==
  ASSUME Init
  PROVE  IInv
  <1>1. P!IInv
    <2>1. P!Init
      BY DEF Init, S!Init, P!Init, S!Result, P!Result
    <2> QED BY <2>1, Assumed, P!Initial
  <1>2. CallTyped(call) /\ call.start = 0
    BY DEF Init, NoCall, CallTyped, IsCall
  <1>3. pc = "idle" /\ line.ok = "none"
        /\ line \in [ok : {"none", "yes", "no"}, bytes : Seq(Cells)]
    BY EmptySeq DEF Init, NoLine, Line
  <1>4. buffer \in Seq(Cells)
    BY EmptySeq DEF Init
  <1>5. Typed
    <2>1. 0 <= S!Taken
      BY <1>1, Queues
    <2> QED BY <1>1, <1>2, <1>3, <1>4, <2>1 DEF Typed
  <1> QED BY <1>3, <1>5 DEF IInv, Position, AtPeek, AtTake, AtReturn, Returned

LEMMA BeginHolds ==
  ASSUME IInv, NEW method \in {"readline", "read_packet"},
         NEW max \in Maxima \cup {0}, Begin(method, max)
  PROVE  IInv'
  <1>0. /\ Typed /\ P!IInv /\ buffer \in Seq(Cells)
    BY DEF IInv, Typed
  <1>1. /\ sent \in Seq(Bytes) /\ S!Taken \in Nat /\ S!Taken <= Len(sent)
    BY <1>0, Queues
  <1>2. /\ call' = CallOf(method, max, S!Taken)
        /\ pc' = "peek" /\ line' = NoLine /\ UNCHANGED <<stream, buffer>>
    BY DEF Begin
  <1>3. /\ UNCHANGED <<sent, read, recordEnd, rcvbuf>>
        /\ S!Taken' = S!Taken /\ P!IInv'
    BY <1>0, <1>2
    DEF stream, S!Taken, P!IInv, P!TypeOK, P!QueuesInOrder, P!Taken
  <1>4. /\ CallTyped(call') /\ call'.start = S!Taken
        /\ call'.pos = 0 /\ call'.matched = 0
    BY <1>1, <1>2, BeginTyped
  <1>5. line' \in [ok : {"none", "yes", "no"}, bytes : Seq(Cells)]
    BY <1>2, EmptySeq DEF NoLine, Line
  <1>6. Typed'
    BY <1>0, <1>1, <1>2, <1>3, <1>4, <1>5 DEF Typed
  <1>7. AtPeek'
    <2>1. Searched(sent, call', buffer)
      BY <1>0, <1>1, <1>4, BeginSearched
    <2> QED BY <1>2, <1>3, <2>1 DEF AtPeek
  <1>8. Position'
    <2>1. 0 % Chunk = 0
      BY LineScanAssumption
    <2> QED BY <1>1, <1>3, <1>4, <2>1 DEF Position
  <1> QED BY <1>2, <1>6, <1>7, <1>8 DEF IInv, AtTake, AtReturn, Returned

(* The peek shows nothing: what earlier chunks have given is returned.     *)
LEMMA NothingHolds ==
  ASSUME IInv, pc = "peek", S!Recv(Chunk, TRUE), res'.bytes = <<>>,
         GiveWhatThereIs(res'.ok)
  PROVE  IInv'
  <1>0. /\ Typed /\ P!IInv /\ buffer \in Seq(Cells) /\ CallTyped(call)
        /\ Chunk \in Nat \ {0}
    BY LineScanAssumption DEF IInv, Typed
  <1>1. /\ sent \in Seq(Bytes) /\ Len(sent) \in Nat
        /\ S!Taken \in Nat /\ S!Taken <= Len(sent)
        /\ call.start \in Nat /\ call.pos \in Nat /\ call.start <= S!Taken
        /\ call.start <= Len(sent)
    BY <1>0, Queues DEF Typed, CallTyped
  <1>2. P!IInv' /\ sent' = sent /\ S!Taken' = S!Taken
    BY <1>0, Received
  <1>3. S!Taken = call.start + call.pos /\ Searched(sent, call, buffer)
    BY DEF IInv, Position, AtPeek
  <1>4. Before \in Seq(Cells) /\ Terminate(Before, call.pos) \in Seq(Cells)
    <2>1. Before \in Seq(Cells)
      BY <1>0, <1>1, GrownCells DEF Before
    <2> QED BY <1>1, <2>1, TerminateCells
  <1>5. /\ pc' = "idle" /\ call' = call /\ buffer' \in Seq(Cells)
        /\ \/ line' = Line("yes", SubSeq(buffer, 1, call.pos))
           \/ line' = Line("no", <<>>) /\ call.pos = 0
    BY <1>4 DEF GiveWhatThereIs, Return
  <1>6. CASE line' = Line("yes", SubSeq(buffer, 1, call.pos))
    <2> DEFINE bytes == SubSeq(buffer, 1, call.pos)
    <2>1. /\ bytes \in Seq(Cells) /\ Len(bytes) = call.pos
          /\ Answers(sent, call, bytes)
      BY <1>0, <1>1, <1>3, AnswersSoFar
    <2>2. line' = Line("yes", bytes)
      BY <1>6
    <2> HIDE DEF bytes
    <2>3. line'.bytes = bytes /\ line'.ok = "yes"
          /\ line' \in [ok : {"none", "yes", "no"}, bytes : Seq(Cells)]
      BY <2>1, <2>2 DEF Line
    <2>4. Typed'
      BY <1>0, <1>1, <1>2, <1>5, <2>3 DEF Typed
    <2>5. LineEnded(sent, call, Len(bytes), S!Taken)
      BY <1>1, <1>3, <2>1 DEF LineEnded
    <2>6. PacketTaken(sent, call, Len(bytes), S!Taken)
      BY <1>3, <2>1 DEF PacketTaken
    <2>7. AtReturn'
      BY <1>2, <1>5, <2>1, <2>3, <2>5, <2>6 DEF AtReturn
    <2> QED BY <1>5, <2>4, <2>7 DEF IInv, Position, AtPeek, AtTake
  <1>7. CASE line' = Line("no", <<>>) /\ call.pos = 0
    <2>1. line'.ok = "no"
          /\ line' \in [ok : {"none", "yes", "no"}, bytes : Seq(Cells)]
      BY <1>7, EmptySeq DEF Line
    <2>2. Typed'
      BY <1>0, <1>1, <1>2, <1>5, <2>1 DEF Typed
    <2>3. S!Taken = call.start
      BY <1>1, <1>3, <1>7
    <2>4. AtReturn'
      BY <1>2, <1>5, <2>1, <2>3 DEF AtReturn, Returned
    <2> QED BY <1>5, <2>2, <2>4 DEF IInv, Position, AtPeek, AtTake
  <1> QED BY <1>5, <1>6, <1>7

(* The peek shows something.                                               *)
LEMMA LookHolds ==
  ASSUME IInv, pc = "peek", S!Recv(Chunk, TRUE), res'.bytes # <<>>,
         Look(res'.bytes)
  PROVE  IInv'
  <1> DEFINE got == res'.bytes
             peeked == Put(Grown(buffer, call.pos + Chunk), call.pos, got)
  <1>0. /\ Typed /\ P!IInv /\ buffer \in Seq(Cells) /\ CallTyped(call)
        /\ Chunk \in Nat \ {0} /\ call.start <= S!Taken
        /\ line \in [ok : {"none", "yes", "no"}, bytes : Seq(Cells)]
    BY LineScanAssumption DEF IInv, Typed
  <1>1. /\ P!IInv' /\ sent' = sent /\ S!Taken' = S!Taken
        /\ got \in Seq(Bytes) /\ Len(got) \in Nat
        /\ Lies(got, S!Taken, sent)
    BY <1>0, Received
  <1>2. /\ Len(got) \in 0 .. Chunk /\ Len(got) <= Len(rcvbuf')
        /\ 0 < Len(got) /\ Len(got) < Chunk =>
             Len(rcvbuf') = Len(got) /\ S!Pending' = 0
    BY <1>0, PeekReceived
  <1>3. Len(got) > 0
    BY <1>1, EmptySeq
  <1>4. /\ S!Taken = call.start + call.pos /\ call.pos % Chunk = 0
        /\ Searched(sent, call, buffer)
    BY DEF IInv, Position, AtPeek
  <1>5. /\ call' \in Outcomes(call, got, peeked)
        /\ buffer' = Stopped(call', peeked)
        /\ pc' = "take" /\ line' = line
    BY DEF Look, Before
  <1>6. sent \in Seq(Bytes)
    BY <1>0, Queues
  <1> HIDE DEF got
  <1>7. Lies(got, call.start + call.pos, sent) /\ Len(got) <= Chunk
    BY <1>0, <1>1, <1>2, <1>4
  <1>8. /\ CallTyped(call') /\ call'.method = call.method
        /\ call'.start = call.start /\ call'.pos = call.pos
        /\ buffer' \in Seq(Cells)
        /\ Decided(sent, call', buffer')
        /\ Foreseen(sent, call', Len(got))
    <2> DEFINE o == call'
    <2>1. o \in Outcomes(call, got, peeked) /\ buffer' = Stopped(o, peeked)
      BY <1>5
    <2> HIDE DEF o
    <2>2. /\ CallTyped(o) /\ o.method = call.method
          /\ o.start = call.start /\ o.pos = call.pos
          /\ Stopped(o, peeked) \in Seq(Cells)
          /\ Decided(sent, o, Stopped(o, peeked))
          /\ Foreseen(sent, o, Len(got))
      BY <1>0, <1>1, <1>4, <1>6, <1>7, <2>1, PeekDecides
    <2> QED BY <2>1, <2>2 DEF o
  <1> HIDE DEF peeked
  <1>9. Typed'
    BY <1>0, <1>1, <1>5, <1>8 DEF Typed
  <1>10. Position'
    BY <1>1, <1>4, <1>8 DEF Position
  <1>11. AtTake'
    <2>0. PICK g \in Nat : g = Len(got)
      BY <1>1
    <2>1. g \in 1 .. Chunk
      BY <1>0, <1>1, <1>2, <1>3, <2>0
    <2>2. Shown(g)'
      BY <1>1, <1>2, <2>0, <2>1 DEF Shown
    <2>3. Foreseen(sent', call', g) /\ Decided(sent', call', buffer')
      BY <1>1, <1>8, <2>0
    <2> QED BY <2>2, <2>3 DEF AtTake
  <1> QED BY <1>5, <1>9, <1>10, <1>11 DEF IInv, AtPeek, AtReturn, Returned

LEMMA PeekHolds ==
  ASSUME IInv, Peek
  PROVE  IInv'
  BY NothingHolds, LookHolds DEF Peek

(* What the take finds.  A byte more than the peek has shown is there only *)
(* behind a full chunk.                                                    *)
LEMMA TakeFinds ==
  ASSUME IInv, pc = "take", TakeBytes, NEW g \in Nat, Shown(g),
         Foreseen(sent, call, g),
         NEW b, b = IF call.n = 0 THEN buffer
                    ELSE Put(buffer, call.pos, res'.bytes)
  PROVE  /\ P!IInv' /\ sent' = sent
         /\ S!Taken' \in Nat /\ S!Taken' >= S!Taken
         /\ b \in Seq(Cells) /\ Decided(sent, call, b)
         /\ call.n <= g => S!Taken' = S!Taken + call.n
         /\ call.n = g + 1 /\ g < Chunk => S!Taken' = S!Taken + g
  <1> DEFINE n == call.n
             got == res'.bytes
  <1>0. /\ P!IInv /\ buffer \in Seq(Cells) /\ CallTyped(call)
        /\ n \in Nat /\ call.start \in Nat /\ call.pos \in Nat
        /\ S!Taken = call.start + call.pos
        /\ Decided(sent, call, buffer)
    BY DEF IInv, Typed, Position, AtTake, CallTyped
  <1>1. /\ sent \in Seq(Bytes) /\ S!Taken \in Nat /\ Len(rcvbuf) \in Nat
    BY <1>0, Queues
  <1>2. /\ g >= 1 /\ g <= Len(rcvbuf)
        /\ g < Chunk => Len(rcvbuf) = g /\ S!Pending = 0
        /\ g <= Chunk /\ Chunk \in Nat /\ n <= g + 1
    BY LineScanAssumption DEF Shown, Foreseen
  <1>3. CASE n = 0
    <2>1. UNCHANGED stream /\ b = buffer
      BY <1>3 DEF TakeBytes
    <2>2. P!IInv' /\ sent' = sent /\ S!Taken' = S!Taken
      BY <1>0, <2>1
      DEF stream, S!Taken, P!IInv, P!TypeOK, P!QueuesInOrder, P!Taken
    <2>3. S!Taken' = S!Taken + n /\ n # g + 1
      BY <1>1, <1>2, <1>3, <2>2
    <2> QED BY <1>0, <1>1, <2>1, <2>2, <2>3
  <1>4. CASE n # 0
    <2>1. S!Recv(n, FALSE) /\ n \in Nat \ {0}
      BY <1>0, <1>4 DEF TakeBytes
    <2>2. /\ P!IInv' /\ sent' = sent
          /\ got \in Seq(Bytes) /\ Len(got) \in Nat
          /\ Lies(got, S!Taken, sent)
          /\ S!Taken' = S!Taken + Len(got)
      BY <1>0, <2>1, Received
    <2>3. b = Put(buffer, call.pos, got)
      BY <1>4
    <2> HIDE DEF got
    <2>4. b \in Seq(Cells) /\ Decided(sent, call, b)
      BY <1>0, <1>1, <2>2, <2>3, TakeDecided
    <2>5. ASSUME n <= Len(rcvbuf) \/ S!Pending = 0
          PROVE  Len(got) = IF n < Len(rcvbuf) THEN n ELSE Len(rcvbuf)
      <3>1. rcvbuf # <<>>
        BY <1>2
      <3> QED BY <1>0, <2>1, <2>5, <3>1, TakeReceived DEF got
    <2> HIDE DEF n
    <2>6. n <= g => Len(got) = n
      BY <1>0, <1>1, <1>2, <2>5
    <2>7. n = g + 1 /\ g < Chunk => Len(got) = g
      BY <1>0, <1>1, <1>2, <2>5
    <2>8. n <= g => S!Taken' = S!Taken + n
      BY <2>2, <2>6
    <2>9. n = g + 1 /\ g < Chunk => S!Taken' = S!Taken + g
      BY <2>2, <2>7
    <2>10. S!Taken' \in Nat /\ S!Taken' >= S!Taken
      BY <1>1, <2>2
    <2> QED BY <2>2, <2>4, <2>8, <2>9, <2>10 DEF n
  <1> QED BY <1>3, <1>4

(* What has been taken behind a line when readline returns.                *)
LEMMA LineTakes ==
  ASSUME NEW s, NEW c, CallTyped(c), c.method = "readline", NEW b,
         Decided(s, c, b), NEW g \in Nat, g > 0, PairSeen(s, c, g),
         NEW taken \in Nat,
         c.n <= g => taken = c.start + c.pos + c.n,
         c.n = g + 1 =>
           taken = c.start + c.pos + g /\ c.length + 1 = c.pos + g,
         c.n <= g + 1
  PROVE  LineEnded(s, c, c.length, taken)
  <1> DEFINE end == c.start + c.length + 1
  <1>0. /\ c.start \in Nat /\ c.pos \in Nat /\ c.n \in Nat /\ c.length \in Nat
        /\ end \in Nat
    BY DEF CallTyped
  <1>1. /\ c.pos <= c.length /\ c.length <= c.pos + c.n
        /\ c.n <= c.length - c.pos + 2
        /\ c.n > c.length - c.pos => s[end] \in LineEnds
    <2>1. LineDecided(s, c)
      BY DEF Decided
    <2>2. /\ c.pos <= c.length /\ c.length <= c.pos + c.n
          /\ c.n > c.length - c.pos =>
               c.n <= c.length - c.pos + 2 /\ s[end] \in LineEnds
      BY <2>1, Zenon DEF LineDecided
    <2> HIDE DEF end
    <2> QED BY <1>0, <2>2
  <1>2. c.n = c.length - c.pos + 2 /\ c.length - c.pos + 1 # g =>
          {s[end], s[c.start + c.length + 2]} = {"CR", "LF"}
    BY DEF PairSeen
  <1>3. c.start + c.length + 2 = end + 1
    BY <1>0
  <1> HIDE DEF end
  <1>4. CASE c.n = c.length - c.pos
    <2>1. taken + 1 = end
      BY <1>0, <1>4 DEF end
    <2> QED BY <2>1 DEF LineEnded, end
  <1>5. CASE c.n = c.length - c.pos + 1 \/ c.n = g + 1
    <2>1. taken = end /\ c.n > c.length - c.pos
      BY <1>0, <1>5 DEF end
    <2> QED BY <1>1, <2>1 DEF LineEnded, end
  <1>6. CASE c.n = c.length - c.pos + 2 /\ c.n <= g
    <2>1. taken = end + 1 /\ c.length - c.pos + 1 # g
      BY <1>0, <1>6 DEF end
    <2>2. {s[end], s[end + 1]} = {"CR", "LF"}
      BY <1>2, <1>3, <1>6, <2>1
    <2> QED BY <2>1, <2>2 DEF LineEnded, end
  <1> QED BY <1>0, <1>1, <1>4, <1>5, <1>6

LEMMA TakeHolds ==
  ASSUME IInv, Take
  PROVE  IInv'
  <1> DEFINE b == IF call.n = 0 THEN buffer
                  ELSE Put(buffer, call.pos, res'.bytes)
             bytes == SubSeq(b, 1, call.length)
  <1>1. /\ pc = "take" /\ TakeBytes /\ buffer' = b
        /\ \/ /\ call.done /\ call' = call /\ pc' = "idle"
              /\ line' = Line("yes", bytes)
           \/ /\ ~call.done /\ pc' = "peek" /\ line' = line
              /\ call' = [call EXCEPT !.pos = call.length]
    BY DEF Take, Return
  <1>2. PICK g \in Nat : Shown(g) /\ Foreseen(sent, call, g)
    BY <1>1 DEF IInv, AtTake
  <1>3. /\ P!IInv' /\ sent' = sent
        /\ S!Taken' \in Nat /\ S!Taken' >= S!Taken
        /\ b \in Seq(Cells) /\ Decided(sent, call, b)
        /\ call.n <= g => S!Taken' = S!Taken + call.n
        /\ call.n = g + 1 /\ g < Chunk => S!Taken' = S!Taken + g
    BY <1>1, <1>2, TakeFinds
  <1> HIDE DEF b
  <1>4. /\ P!IInv /\ CallTyped(call) /\ call.start \in Nat
        /\ call.pos \in Nat /\ call.n \in Nat /\ call.length \in Nat
        /\ S!Taken = call.start + call.pos /\ call.pos % Chunk = 0
        /\ line \in [ok : {"none", "yes", "no"}, bytes : Seq(Cells)]
    BY <1>1 DEF IInv, Typed, Position, CallTyped
  <1>5. /\ sent \in Seq(Bytes) /\ Len(sent) \in Nat
        /\ S!Taken \in Nat /\ S!Taken <= Len(sent)
        /\ call.start <= Len(sent) /\ call.start <= S!Taken'
    BY <1>3, <1>4, Queues
  <1>6. /\ g >= 1 /\ g <= Chunk /\ Chunk \in Nat /\ call.n <= g + 1
        /\ call.n = g + 1 =>
             call.method = "readline" /\ call.length + 1 = call.pos + g
        /\ ~call.done => call.n = g /\ g = Chunk
        /\ PairSeen(sent, call, g)
    BY <1>2, LineScanAssumption DEF Shown, Foreseen
  <1>7. CASE /\ call.done /\ call' = call /\ pc' = "idle"
             /\ line' = Line("yes", bytes)
    <2>1. /\ bytes \in Seq(Cells) /\ Len(bytes) = call.length
          /\ Answers(sent, call, bytes)
      BY <1>3, <1>4, <1>5, AnswersDecided
    <2> HIDE DEF bytes
    <2>2. line'.bytes = bytes /\ line'.ok = "yes"
          /\ line' \in [ok : {"none", "yes", "no"}, bytes : Seq(Cells)]
      BY <1>7, <2>1 DEF Line
    <2>3. Typed'
      BY <1>1, <1>3, <1>4, <1>5, <1>7, <2>2 DEF Typed
    <2>4. ASSUME call.method = "readline", (call.length + 1) % Chunk # 0
          PROVE  LineEnded(sent, call, call.length, S!Taken')
      <3>1. call.n = g + 1 => g < Chunk
        <4>1. ASSUME call.n = g + 1, g = Chunk
              PROVE  (call.length + 1) % Chunk = 0
          <5>1. call.length + 1 = call.pos + Chunk
            BY <1>6, <4>1
          <5> QED BY <1>4, <5>1, FullChunk
        <4> QED BY <1>6, <2>4, <4>1
      <3> DEFINE t == S!Taken'
      <3>2. /\ t \in Nat
            /\ call.n <= g => t = call.start + call.pos + call.n
            /\ call.n = g + 1 =>
                 /\ t = call.start + call.pos + g
                 /\ call.length + 1 = call.pos + g
        BY <1>3, <1>4, <1>6, <3>1
      <3> HIDE DEF t
      <3>3. LineEnded(sent, call, call.length, t)
        BY <1>3, <1>4, <1>6, <2>4, <3>2, LineTakes
      <3> QED BY <3>3 DEF t
    <2>5. ASSUME call.method = "read_packet"
          PROVE  PacketTaken(sent, call, call.length, S!Taken')
      <3>1. call.n <= g
        BY <1>4, <1>6, <2>5
      <3>2. S!Taken' = call.start + call.pos + call.n
        BY <1>3, <1>4, <3>1
      <3> QED BY <1>3, <1>4, <2>5, <3>2, TakenDecided
    <2>6. AtReturn'
      BY <1>3, <1>7, <2>1, <2>2, <2>4, <2>5 DEF AtReturn
    <2> QED BY <1>7, <2>3, <2>6 DEF IInv, Position, AtPeek, AtTake
  <1>8. CASE /\ ~call.done /\ pc' = "peek" /\ line' = line
             /\ call' = [call EXCEPT !.pos = call.length]
    <2>1. /\ CallTyped(call') /\ call'.start = call.start
          /\ call'.pos = call.pos + call.n
          /\ Searched(sent, call', b)
      BY <1>3, <1>4, <1>8, GoesOn
    <2>2. /\ S!Taken' = call.start + call'.pos
          /\ call'.pos = call.pos + Chunk
      BY <1>3, <1>4, <1>6, <1>8, <2>1
    <2>3. call'.pos % Chunk = 0
      BY <1>4, <2>2, FullChunk
    <2>4. Typed'
      BY <1>1, <1>3, <1>4, <1>5, <1>8, <2>1 DEF Typed
    <2>5. Position' /\ AtPeek'
      BY <1>1, <1>3, <2>1, <2>2, <2>3 DEF Position, AtPeek
    <2> QED BY <1>8, <2>4, <2>5 DEF IInv, AtTake, AtReturn, Returned
  <1> QED BY <1>1, <1>7, <1>8

(* The script's own recv.                                                  *)
LEMMA RecvHolds ==
  ASSUME IInv, Recv
  PROVE  IInv'
  <1>1. PICK len \in Lengths, isPeek \in BOOLEAN :
          /\ S!Recv(len, isPeek)
          /\ buffer' = Put(Grown(buffer, len), 0, res'.bytes)
    BY DEF Recv
  <1>2. /\ pc = "idle" /\ pc' = pc /\ call' = NoCall /\ line' = NoLine
        /\ P!IInv /\ buffer \in Seq(Cells) /\ len \in Nat \ {0}
    BY SslReaderAssumption DEF Recv, IInv, Typed
  <1>3. P!IInv' /\ res'.bytes \in Seq(Cells)
    <2>1. P!IInv' /\ res'.bytes \in Seq(Bytes)
      BY <1>1, <1>2, Received
    <2> QED BY <2>1 DEF Cells
  <1>4. buffer' \in Seq(Cells)
    <2>1. Grown(buffer, len) \in Seq(Cells)
      BY <1>2, GrownCells
    <2> QED BY <1>1, <1>3, <2>1, PutCells
  <1>5. CallTyped(call') /\ call'.start = 0
    BY <1>2 DEF NoCall, CallTyped, IsCall
  <1>6. line'.ok = "none"
        /\ line' \in [ok : {"none", "yes", "no"}, bytes : Seq(Cells)]
    BY <1>2, EmptySeq DEF NoLine, Line
  <1>7. S!Taken' \in Nat
    <2>1. /\ S!Taken' = IF isPeek THEN S!Taken ELSE S!Taken + Len(res'.bytes)
          /\ Len(res'.bytes) \in Nat /\ S!Taken \in Nat
      BY <1>1, <1>2, Received, Queues
    <2> QED BY <2>1
  <1>8. Typed'
    BY <1>2, <1>3, <1>4, <1>5, <1>6, <1>7 DEF Typed
  <1> QED BY <1>2, <1>6, <1>8
          DEF IInv, Position, AtPeek, AtTake, AtReturn, Returned

(* A line that has ended so has still, when more arrives.                  *)
LEMMA LineEndedStill ==
  ASSUME NEW s \in Seq(Bytes), NEW t \in Seq(Bytes), Extends(s, t),
         NEW c, CallTyped(c), NEW len \in Nat, NEW taken \in Nat,
         taken <= Len(s), LineEnded(s, c, len, taken)
  PROVE  LineEnded(t, c, len, taken)
  <1> DEFINE end == c.start + len + 1
  <1>0. end \in Nat /\ end > 0 /\ Len(s) \in Nat /\ Len(t) \in Nat
    BY LenProperties DEF CallTyped
  <1> HIDE DEF end
  <1>1. \/ taken + 1 = end
        \/ taken = end /\ s[end] \in LineEnds
        \/ taken = end + 1 /\ {s[end], s[end + 1]} = {"CR", "LF"}
    BY DEF LineEnded, end
  <1>2. CASE taken + 1 = end
    BY <1>2 DEF LineEnded, end
  <1>3. CASE taken = end /\ s[end] \in LineEnds
    <2>1. t[end] = s[end]
      BY <1>0, <1>3 DEF Extends
    <2> QED BY <1>3, <2>1 DEF LineEnded, end
  <1>4. CASE taken = end + 1 /\ {s[end], s[end + 1]} = {"CR", "LF"}
    <2>1. t[end] = s[end] /\ t[end + 1] = s[end + 1]
      BY <1>0, <1>4 DEF Extends
    <2> QED BY <1>4, <2>1 DEF LineEnded, end
  <1> QED BY <1>1, <1>2, <1>3, <1>4

(* Records arrive, and the connection ends, at any moment, and the socket  *)
(* is closed between two calls.                                            *)
LEMMA PeerHolds ==
  ASSUME IInv, S!RecordArrives \/ S!PeerEnds \/ S!Close, UNCHANGED reader
  PROVE  IInv'
  <1>1. /\ P!IInv /\ CallTyped(call) /\ S!Taken \in Nat
        /\ S!Taken <= Len(sent) /\ sent \in Seq(Bytes)
        /\ Len(line.bytes) \in Nat
    BY Queues, LenProperties DEF IInv, Typed
  <1>2. /\ P!IInv' /\ Extends(sent, sent')
        /\ UNCHANGED <<read, recordEnd, rcvbuf>>
        /\ S!Taken' = S!Taken /\ S!Pending' = S!Pending
    BY <1>1, PeerKeeps
  <1>3. UNCHANGED <<buffer, pc, call, line>>
    BY DEF reader
  <1>4. sent' \in Seq(Bytes)
    <2>1. sent' \in Seq(Sent)
      BY <1>2 DEF P!IInv, P!TypeOK
    <2> QED BY <2>1, SslReaderAssumption
  <1>5. Typed'
    BY <1>2, <1>3 DEF IInv, Typed, CallTyped, IsCall
  <1>6. Position'
    BY <1>2, <1>3 DEF IInv, Position
  <1>7. AtPeek'
    BY <1>1, <1>2, <1>3, <1>4, SearchedKept DEF IInv, AtPeek
  <1>8. AtTake'
    <2> SUFFICES ASSUME pc = "take"
                 PROVE  /\ Decided(sent', call, buffer)
                        /\ \E g \in Nat :
                             Shown(g)' /\ Foreseen(sent', call, g)
      BY <1>3 DEF AtTake
    <2>1. PICK g \in Nat : Shown(g) /\ Foreseen(sent, call, g)
      BY DEF IInv, AtTake
    <2>2. Decided(sent', call, buffer)
      BY <1>1, <1>2, <1>4, DecidedKept DEF IInv, AtTake
    <2>3. Shown(g)'
      BY <1>2, <2>1 DEF Shown
    <2>4. Foreseen(sent', call, g)
      BY <1>1, <1>2, <1>4, <2>1, ForeseenKept
    <2> QED BY <2>2, <2>3, <2>4
  <1>9. AtReturn'
    <2>1. Answers(sent, call, line.bytes) => Answers(sent', call, line.bytes)
      BY <1>1, <1>2, <1>4, AnswersKept
    <2>2. PacketTaken(sent, call, Len(line.bytes), S!Taken)
            => PacketTaken(sent', call, Len(line.bytes), S!Taken)
      BY <1>1, <1>2, <1>4, TakenKept
    <2>3. LineEnded(sent, call, Len(line.bytes), S!Taken)
            => LineEnded(sent', call, Len(line.bytes), S!Taken)
      BY <1>1, <1>2, <1>4, LineEndedStill
    <2> QED BY <1>2, <1>3, <2>1, <2>2, <2>3 DEF IInv, AtReturn, Returned
  <1> QED BY <1>5, <1>6, <1>7, <1>8, <1>9 DEF IInv

LEMMA StillHolds ==
  ASSUME IInv, UNCHANGED vars
  PROVE  IInv'
  <1>1. UNCHANGED <<sent, cuts, partial, ended, read, recordEnd, rcvbuf, state,
                    errors, res, buffer, pc, call, line>>
    BY DEF vars, stream, reader
  <1>2. P!IInv => P!IInv'
    BY <1>1 DEF P!IInv, P!TypeOK, P!QueuesInOrder, P!Taken
  <1>3. S!Taken' = S!Taken /\ S!Pending' = S!Pending
    BY <1>1 DEF S!Taken, S!Pending
  <1>4. Typed' /\ Position'
    BY <1>1, <1>2, <1>3 DEF IInv, Typed, Position, CallTyped, IsCall
  <1>5. \A g \in Nat : Shown(g) => Shown(g)'
    BY <1>1, <1>3 DEF Shown
  <1>6. AtPeek' /\ AtTake'
    BY <1>1, <1>5 DEF IInv, AtPeek, AtTake
  <1>7. AtReturn'
    BY <1>1, <1>3 DEF IInv, AtReturn, Returned
  <1> QED BY <1>4, <1>6, <1>7 DEF IInv

LEMMA StepHolds ==
  ASSUME IInv, [Next]_vars
  PROVE  IInv'
  <1>1. CASE Begin("readline", 0)
    BY <1>1, BeginHolds
  <1>2. CASE \E max \in Maxima : Begin("read_packet", max)
    BY <1>2, BeginHolds
  <1>3. CASE Peek
    BY <1>3, PeekHolds
  <1>4. CASE Take
    BY <1>4, TakeHolds
  <1>5. CASE Recv
    BY <1>5, RecvHolds
  <1>6. CASE Close \/ Peer
    BY <1>6, PeerHolds DEF Close, Peer
  <1>7. CASE UNCHANGED vars
    BY <1>7, StillHolds
  <1> QED BY <1>1, <1>2, <1>3, <1>4, <1>5, <1>6, <1>7 DEF Next

(* The invariant on which the others rest.                                 *)
THEOREM Inductive == Spec => []IInv
  <1>1. Init => IInv
    BY InitHolds
  <1>2. IInv /\ [Next]_vars => IInv'
    BY StepHolds
  <1> QED BY <1>1, <1>2, PTL DEF Spec
-----------------------------------------------------------------------------
(* The variables hold what they should (TypeOK).                           *)
THEOREM TypeCorrect == Spec => []TypeOK
  <1>1. P!TypeOK => S!TypeOK
    BY DEF P!TypeOK, S!TypeOK, P!Methods, S!Methods
  <1>2. IInv => TypeOK
    <2> SUFFICES ASSUME IInv PROVE TypeOK
      OBVIOUS
    <2>1. S!TypeOK
      BY <1>1 DEF IInv, Typed, P!IInv
    <2>2. call \in Calls
      BY CallIsTyped DEF IInv, Typed
    <2> QED BY <2>1, <2>2 DEF IInv, Typed, TypeOK, Cells
  <1> QED BY <1>2, Inductive, PTL

(* A call returns the bytes of the connection in order from where the last *)
(* has stopped, and one that fails has taken nothing (InOrder).            *)
THEOREM ReadsInOrder == Spec => []InOrder
  <1>1. IInv => InOrder
    <2> SUFFICES ASSUME IInv PROVE InOrder
      OBVIOUS
    <2>1. sent \in Seq(Bytes) /\ CallTyped(call) /\ line.bytes \in Seq(Cells)
      BY Queues DEF IInv, Typed
    <2>2. Returned => Answers(sent, call, line.bytes)
      BY DEF IInv, AtReturn
    <2>3. pc = "idle" /\ line.ok = "no" => S!Taken = call.start
      BY DEF IInv, AtReturn
    <2> QED BY <2>1, <2>2, <2>3, AnswerInOrder DEF InOrder
  <1> QED BY <1>1, Inductive, PTL

(* The bytes behind a line that has ended.                                 *)
LEMMA LineOverread ==
  ASSUME NEW s \in Seq(Bytes), NEW c, CallTyped(c), NEW len \in Nat,
         NEW taken \in Nat, taken <= Len(s), LineEnded(s, c, len, taken)
  PROVE  SubSeq(s, c.start + len + 1, taken)
           \in {<<>>, <<"CR", "LF">>, <<"LF", "CR">>, <<"LF">>, <<"CR">>,
                <<"NUL">>}
  <1> DEFINE end == c.start + len + 1
             piece == SubSeq(s, end, taken)
  <1>0. end \in Nat /\ end > 0 /\ Len(s) \in Nat
    BY LenProperties DEF CallTyped
  <1>1. \/ taken + 1 = end
        \/ taken = end /\ s[end] \in LineEnds
        \/ taken = end + 1 /\ {s[end], s[end + 1]} = {"CR", "LF"}
    BY DEF LineEnded
  <1> HIDE DEF end
  <1>2. CASE taken + 1 = end
    <2>1. end \in Int /\ taken \in Int /\ taken < end
      BY <1>0, <1>2
    <2>2. piece = <<>>
      BY <2>1, SubSeqEmpty
    <2> QED BY <2>2 DEF end
  <1>3. ASSUME taken >= end
        PROVE  /\ piece \in Seq(Bytes) /\ Len(piece) = taken - end + 1
               /\ \A k \in 1 .. taken - end + 1 : piece[k] = s[end + k - 1]
    <2>1. \A k \in end .. taken : s[k] \in Bytes
      BY <1>0, <1>3, ElementOfSeq
    <2> QED BY <1>0, <1>3, <2>1, SubSeqProperties, SMT
  <1> HIDE DEF piece
  <1>4. CASE taken = end /\ s[end] \in LineEnds
    <2>1. /\ Len(piece) = 1 /\ piece[1] = s[end] /\ piece \in Seq(Bytes)
      BY <1>0, <1>3, <1>4
    <2>2. piece = <<s[end]>>
      BY <2>1
    <2> QED BY <1>4, <2>2 DEF LineEnds, piece, end
  <1>5. CASE taken = end + 1 /\ {s[end], s[end + 1]} = {"CR", "LF"}
    <2>1. /\ Len(piece) = 2 /\ piece[1] = s[end] /\ piece[2] = s[end + 1]
          /\ piece \in Seq(Bytes)
      BY <1>0, <1>3, <1>5
    <2>2. piece = <<s[end], s[end + 1]>>
      BY <2>1
    <2>3. \/ s[end] = "CR" /\ s[end + 1] = "LF"
          \/ s[end] = "LF" /\ s[end + 1] = "CR"
      BY <1>5
    <2> QED BY <2>2, <2>3 DEF piece, end
  <1> QED BY <1>1, <1>2, <1>4, <1>5

(* No byte behind the end of a line is lost, except behind the last byte   *)
(* of a full chunk (LineStops).                                            *)
THEOREM LinesStop == Spec => []LineStops
  <1>1. IInv => LineStops
    <2> SUFFICES ASSUME IInv, Returned, call.method = "readline",
                        (Len(line.bytes) + 1) % Chunk # 0
                 PROVE  Overread \in {<<>>, <<"CR", "LF">>, <<"LF", "CR">>,
                                      <<"LF">>, <<"CR">>, <<"NUL">>}
      BY DEF LineStops
    <2>1. /\ sent \in Seq(Bytes) /\ CallTyped(call)
          /\ S!Taken \in Nat /\ S!Taken <= Len(sent)
          /\ Len(line.bytes) \in Nat
      BY Queues, LenProperties DEF IInv, Typed
    <2>2. LineEnded(sent, call, Len(line.bytes), S!Taken)
      BY DEF IInv, AtReturn
    <2> QED BY <2>1, <2>2, LineOverread DEF Overread
  <1> QED BY <1>1, Inductive, PTL

(* read_packet returns no more than maxsize bytes, and what it has taken   *)
(* behind them is the separator or nothing (PacketExact).                  *)
THEOREM PacketsExact == Spec => []PacketExact
  <1>1. IInv => PacketExact
    <2> SUFFICES ASSUME IInv, Returned, call.method = "read_packet"
                 PROVE  /\ call.max > 0 => Len(line.bytes) <= call.max
                        /\ Overread \in {<<>>, Sep}
      BY DEF PacketExact
    <2>1. /\ sent \in Seq(Bytes) /\ CallTyped(call) /\ S!Taken \in Nat
          /\ Len(line.bytes) \in Nat
      BY Queues, LenProperties DEF IInv, Typed
    <2>2. /\ call.max > 0 => Len(line.bytes) <= call.max
          /\ PacketTaken(sent, call, Len(line.bytes), S!Taken)
      BY DEF IInv, AtReturn, Answers
    <2> QED BY <2>1, <2>2, PacketOverread DEF Overread
  <1> QED BY <1>1, Inductive, PTL

(* A call peeks again only when all that was shown has been taken and was  *)
(* a full chunk (PeeksOnFullChunk).                                        *)
THEOREM PeeksBehindChunks == Spec => []PeeksOnFullChunk
  <1>1. IInv => PeeksOnFullChunk
    BY DEF IInv, Position, PeeksOnFullChunk
  <1> QED BY <1>1, Inductive, PTL
-----------------------------------------------------------------------------
(* Each step of a reader, of recv and of the peer is a step of the         *)
(* connection, or leaves it as it is.                                      *)
LEMMA StepIsStep ==
  ASSUME IInv, [Next]_vars
  PROVE  [P!Next]_(P!vars)
  <1>1. ASSUME NEW len \in Nat \ {0}, NEW isPeek \in BOOLEAN,
               S!Recv(len, isPeek)
        PROVE  P!Next
    BY <1>1, SameRecv DEF P!Next
  <1>2. ASSUME UNCHANGED stream
        PROVE  UNCHANGED P!vars
    BY <1>2 DEF stream, P!vars
  <1>3. CASE Begin("readline", 0) \/ \E max \in Maxima :
               Begin("read_packet", max)
    BY <1>2, <1>3 DEF Begin
  <1>4. CASE Peek
    BY <1>1, <1>4, LineScanAssumption DEF Peek
  <1>5. CASE Take
    <2>1. call.n \in Nat
      BY DEF IInv, Typed, CallTyped
    <2>2. CASE call.n = 0
      BY <1>2, <1>5, <2>2 DEF Take, TakeBytes
    <2>3. CASE call.n # 0
      BY <1>1, <1>5, <2>1, <2>3 DEF Take, TakeBytes
    <2> QED BY <2>2, <2>3
  <1>6. CASE Recv
    BY <1>1, <1>6, SslReaderAssumption DEF Recv
  <1>7. CASE Close \/ Peer
    <2>1. P!RecordArrives \/ P!PeerEnds \/ P!Close
      BY <1>7, SameStep DEF Close, Peer
    <2> QED BY <2>1 DEF P!Next
  <1>8. CASE UNCHANGED vars
    BY <1>2, <1>8 DEF vars
  <1> QED BY <1>3, <1>4, <1>5, <1>6, <1>7, <1>8 DEF Next

(* The readers use the connection as a script does: also when calls of     *)
(* readline, read_packet and recv follow one another in any order, what    *)
(* they peek at and take is one byte stream, each byte once and in order.  *)
THEOREM ConnectionIsStream == Spec => P!ImplementsStream
  <1>1. Init => P!Init
    BY DEF Init, S!Init, P!Init, S!Result, P!Result
  <1>2. IInv /\ [Next]_vars => [P!Next]_(P!vars)
    BY StepIsStep
  <1>3. Spec => P!Spec
    BY <1>1, <1>2, Inductive, PTL DEF Spec, P!Spec
  <1>4. P!Spec => P!ImplementsStream
    BY Assumed, P!RecvIsStream
  <1> QED BY <1>3, <1>4
=============================================================================
