-------------------------- MODULE LineReader_proofs -------------------------
(***************************************************************************)
(* readline and read_packet return the bytes of the stream in order, a     *)
(* line ends at its line end and a packet at its separator, for any bytes, *)
(* length of a chunk, separator and maximum.                               *)
(***************************************************************************)
EXTENDS LineReader, LineScan_proofs

Typed ==
  /\ sent \in Seq(Sent) /\ Len(sent) <= MaxSent
  /\ taken \in 0 .. Len(sent)
  /\ ended \in {"no", "eof", "reset"}
  /\ buffer \in Seq(Cells)
  /\ pc \in {"idle", "peek", "take"}
  /\ res \in [ok : BOOLEAN, bytes : Seq(Cells)]
  /\ CallTyped(call) /\ call.start <= taken

(* Where a call under way is in the stream.  A reset between a peek and    *)
(* its take leaves bytes in the buffer that were never taken.              *)
Position ==
  pc # "idle" =>
    /\ taken <= call.start + call.pos
    /\ ended = "reset" \/ taken = call.start + call.pos

AtPeek == pc = "peek" => Searched(sent, call, buffer)
AtTake == pc = "take" => Decided(sent, call, buffer)

AtReturn ==
  /\ Returned =>
       /\ Answers(sent, call, res.bytes)
       /\ call.method = "readline" =>
            LineTaken(sent, call, Len(res.bytes), taken)
       /\ call.method = "read_packet" /\ ended # "reset" =>
            PacketTaken(sent, call, Len(res.bytes), taken)
  /\ pc = "idle" /\ ~res.ok => taken = call.start

IInv == Typed /\ Position /\ AtPeek /\ AtTake /\ AtReturn
-----------------------------------------------------------------------------
LEMMA SentBytes ==
  ASSUME Typed
  PROVE  /\ Len(sent) \in Nat /\ sent \in Seq(Bytes)
         /\ \A k \in 1 .. Len(sent) : sent[k] \in Bytes
         /\ taken \in Nat /\ taken <= Len(sent)
         /\ call.start \in Nat /\ call.start <= Len(sent)
  <1>1. sent \in Seq(Sent) /\ Sent \subseteq Bytes
    BY ReaderAssumption DEF Typed
  <1>2. sent \in Seq(Bytes) /\ Len(sent) \in Nat
    BY <1>1, LenProperties
  <1>3. \A k \in 1 .. Len(sent) : sent[k] \in Bytes
    BY <1>2, ElementOfSeq
  <1> QED BY <1>2, <1>3 DEF Typed, CallTyped

(* What a recv gives are the next bytes of the stream; after a reset it    *)
(* gives none.                                                             *)
LEMMA FrontGives ==
  ASSUME Typed, NEW n \in Nat
  PROVE  /\ Front(n) \in Seq(Bytes)
         /\ Len(Front(n)) \in 0 .. n
         /\ Lies(Front(n), taken, sent)
         /\ ended = "reset" => Len(Front(n)) = 0
         /\ ended # "reset" /\ taken + n <= Len(sent) => Len(Front(n)) = n
  <1>0. /\ Len(sent) \in Nat /\ \A k \in 1 .. Len(sent) : sent[k] \in Bytes
        /\ taken \in Nat /\ taken <= Len(sent)
    BY SentBytes DEF Typed
  <1> DEFINE q == Queue
             e == Min({n, Len(q)})
  <1>1. /\ q \in Seq(Bytes)
        /\ Len(q) = IF ended = "reset" THEN 0 ELSE Len(sent) - taken
        /\ \A k \in 1 .. Len(q) : q[k] = sent[taken + k]
    <2>1. CASE ended = "reset"
      <3>1. q = <<>>
        BY <2>1 DEF Queue
      <3>2. <<>> \in Seq(Bytes) /\ Len(<<>>) = 0
        BY EmptySeq
      <3> HIDE DEF q
      <3> QED BY <2>1, <3>1, <3>2
    <2>2. CASE ended # "reset"
      <3>1. q = SubSeq(sent, taken + 1, Len(sent))
        BY <2>2 DEF Queue
      <3>2. \A k \in taken + 1 .. Len(sent) : sent[k] \in Bytes
        BY <1>0
      <3> DEFINE m == Len(sent)
      <3>3. m \in Nat /\ taken + 1 \in Int /\ taken <= m
        BY <1>0
      <3> HIDE DEF q, m
      <3>4. /\ SubSeq(sent, taken + 1, m) \in Seq(Bytes)
            /\ Len(SubSeq(sent, taken + 1, m))
                 = IF taken + 1 <= m THEN m - (taken + 1) + 1 ELSE 0
            /\ \A k \in 1 .. m - (taken + 1) + 1 :
                 SubSeq(sent, taken + 1, m)[k] = sent[taken + 1 + k - 1]
        <4>1. m \in Int /\ \A k \in taken + 1 .. m : sent[k] \in Bytes
          BY <3>2, <3>3 DEF m
        <4> QED BY <3>3, <4>1, SubSeqProperties
      <3>5. Len(q) = m - taken
        BY <1>0, <3>1, <3>3, <3>4 DEF m
      <3> QED BY SMTT(60), <1>0, <2>2, <3>1, <3>3, <3>4, <3>5 DEF m
    <2> QED BY <2>1, <2>2
  <1> HIDE DEF q
  <1>2. Len(q) \in Nat
    BY <1>0, <1>1
  <1>3. e \in Nat /\ e <= n /\ e <= Len(q) /\ (e = n \/ e = Len(q))
    BY <1>2, LesserOfTwo
  <1>4. Front(n) = SubSeq(q, 1, e)
    BY DEF Front, q
  <1> HIDE DEF e
  <1>5. /\ Front(n) \in Seq(Bytes) /\ Len(Front(n)) = e
        /\ \A k \in 1 .. e : Front(n)[k] = q[k]
    <2>1. \A k \in 1 .. e : q[k] \in Bytes
      BY <1>0, <1>1, <1>2, <1>3
    <2> QED BY <1>3, <1>4, <2>1, SubSeqProperties, SMT
  <1>6. /\ \A k \in 1 .. e : k \in 1 .. Len(q)
        /\ taken + e <= Len(sent)
        /\ ended = "reset" => e = 0
        /\ ended # "reset" /\ taken + n <= Len(sent) => e = n
    BY <1>0, <1>1, <1>2, <1>3
  <1>7. \A k \in 1 .. e : Front(n)[k] = sent[taken + k]
    BY <1>1, <1>5, <1>6
  <1> QED BY <1>3, <1>5, <1>6, <1>7 DEF Lies
-----------------------------------------------------------------------------
(* The steps.                                                              *)

LEMMA InitHolds ==
  ASSUME Init
  PROVE  IInv
  <1>1. /\ sent \in Seq(Sent) /\ Len(sent) = 0 /\ taken = 0
        /\ buffer \in Seq(Cells) /\ MaxSent \in Nat
    BY EmptySeq, ReaderAssumption DEF Init
  <1>2. /\ res \in [ok : BOOLEAN, bytes : Seq(Cells)]
        /\ Len(res.bytes) = 0 /\ res.ok
    BY EmptySeq DEF Init
  <1>3. /\ CallTyped(call) /\ call.method = "readline" /\ call.start = 0
    BY DEF Init, NoCall, CallTyped, IsCall
  <1>4. pc = "idle" /\ ended = "no"
    BY DEF Init
  <1>5. Typed
    BY <1>1, <1>2, <1>3, <1>4 DEF Typed
  <1>6. /\ Answers(sent, call, res.bytes)
        /\ LineTaken(sent, call, Len(res.bytes), taken)
    BY <1>1, <1>2, <1>3 DEF Answers, Shows, NoEnd, LineTaken
  <1> QED BY <1>2, <1>3, <1>4, <1>5, <1>6
          DEF IInv, Position, AtPeek, AtTake, AtReturn

LEMMA BeginHolds ==
  ASSUME IInv, NEW method \in {"readline", "read_packet"},
         NEW max \in Maxima \cup {0}, Begin(method, max)
  PROVE  IInv'
  <1>0. /\ Typed /\ taken \in Nat /\ taken <= Len(sent)
        /\ sent \in Seq(Bytes) /\ buffer \in Seq(Cells)
    BY SentBytes DEF IInv, Typed
  <1>1. /\ call' = CallOf(method, max, taken)
        /\ pc' = "peek" /\ UNCHANGED <<sent, taken, ended, buffer, res>>
    BY DEF Begin
  <1>2. /\ CallTyped(call') /\ call'.start = taken
        /\ call'.pos = 0 /\ call'.matched = 0
    BY <1>0, <1>1, BeginTyped
  <1>3. Typed'
    BY <1>0, <1>1, <1>2 DEF Typed, CallTyped, IsCall
  <1>4. Searched(sent, call', buffer)
    BY <1>0, <1>2, BeginSearched
  <1>5. AtPeek'
    BY <1>1, <1>4 DEF AtPeek
  <1>6. Position' /\ AtTake' /\ AtReturn'
    BY <1>0, <1>1, <1>2 DEF Position, AtTake, AtReturn, Returned
  <1> QED BY <1>3, <1>5, <1>6 DEF IInv

LEMMA PeekNothingHolds ==
  ASSUME IInv, PeekNothing
  PROVE  IInv'
  <1>0. /\ Typed /\ sent \in Seq(Bytes) /\ Len(sent) \in Nat
        /\ taken \in Nat /\ taken <= Len(sent)
        /\ call.start \in Nat /\ call.start <= Len(sent)
        /\ buffer \in Seq(Cells) /\ CallTyped(call) /\ call.start <= taken
        /\ call.pos \in Nat /\ Chunk \in Nat
    BY SentBytes, LineScanAssumption DEF IInv, Typed, CallTyped
  <1>1. /\ pc = "peek" /\ pc' = "idle"
        /\ UNCHANGED <<sent, taken, ended, call>>
        /\ \/ /\ buffer' = Terminate(Before, call.pos)
              /\ res' = [ok |-> TRUE, bytes |-> SubSeq(buffer, 1, call.pos)]
           \/ /\ call.pos = 0 /\ buffer' = Before
              /\ res' = [ok |-> FALSE, bytes |-> <<>>]
    BY DEF PeekNothing, Return
  <1>2. /\ taken <= call.start + call.pos
        /\ ended = "reset" \/ taken = call.start + call.pos
        /\ Searched(sent, call, buffer)
    BY <1>1 DEF IInv, Position, AtPeek
  <1>3. Before \in Seq(Cells) /\ Terminate(Before, call.pos) \in Seq(Cells)
    <2>1. call.pos + Chunk \in Nat
      BY <1>0
    <2>2. Before \in Seq(Cells)
      BY <1>0, <2>1, GrownCells DEF Before
    <2> QED BY <1>0, <2>2, TerminateCells
  <1>4. CASE /\ buffer' = Terminate(Before, call.pos)
             /\ res' = [ok |-> TRUE, bytes |-> SubSeq(buffer, 1, call.pos)]
    <2> DEFINE bytes == SubSeq(buffer, 1, call.pos)
    <2>1. /\ bytes \in Seq(Cells) /\ Len(bytes) = call.pos
          /\ Answers(sent, call, bytes)
      BY <1>0, <1>2, AnswersSoFar
    <2>2. res' = [ok |-> TRUE, bytes |-> bytes]
      BY <1>4
    <2> HIDE DEF bytes
    <2>3. res'.bytes = bytes /\ res'.ok
          /\ res' \in [ok : BOOLEAN, bytes : Seq(Cells)]
      BY <2>1, <2>2
    <2>4. Typed'
      BY <1>0, <1>1, <1>3, <1>4, <2>3 DEF Typed, CallTyped, IsCall
    <2>5. LineTaken(sent, call, Len(bytes), taken)
      BY <1>0, <1>2, <2>1 DEF LineTaken
    <2>6. ended # "reset" => PacketTaken(sent, call, Len(bytes), taken)
      BY <1>2, <2>1 DEF PacketTaken
    <2>7. AtReturn'
      BY <1>1, <2>1, <2>3, <2>5, <2>6 DEF AtReturn
    <2> QED BY <1>1, <2>4, <2>7 DEF IInv, Position, AtPeek, AtTake
  <1>5. CASE /\ call.pos = 0 /\ buffer' = Before
             /\ res' = [ok |-> FALSE, bytes |-> <<>>]
    <2>1. res' \in [ok : BOOLEAN, bytes : Seq(Cells)] /\ ~res'.ok
      BY <1>5, EmptySeq
    <2>2. Typed'
      BY <1>0, <1>1, <1>3, <1>5, <2>1 DEF Typed, CallTyped, IsCall
    <2>3. taken = call.start
      BY <1>0, <1>2, <1>5
    <2>4. AtReturn'
      BY <1>1, <2>1, <2>3 DEF AtReturn, Returned
    <2> QED BY <1>1, <2>2, <2>4 DEF IInv, Position, AtPeek, AtTake
  <1> QED BY <1>1, <1>4, <1>5

LEMMA PeekHolds ==
  ASSUME IInv, Peek
  PROVE  IInv'
  <1> DEFINE got == Front(Chunk)
  <1>0. /\ Typed /\ sent \in Seq(Bytes) /\ CallTyped(call)
        /\ buffer \in Seq(Cells) /\ Chunk \in Nat
    BY SentBytes, LineScanAssumption DEF IInv, Typed
  <1>1. /\ pc = "peek" /\ pc' = "take"
        /\ UNCHANGED <<sent, taken, ended, res>>
        /\ taken <= call.start + call.pos
        /\ ended # "reset" /\ taken = call.start + call.pos
        /\ Searched(sent, call, buffer)
    BY DEF Peek, IInv, Position, AtPeek, Queue
  <1>2. /\ got \in Seq(Bytes) /\ Len(got) <= Chunk
        /\ Lies(got, call.start + call.pos, sent)
    <2>1. got \in Seq(Bytes) /\ Len(got) \in 0 .. Chunk
          /\ Lies(got, taken, sent)
      BY <1>0, FrontGives, ZenonT(30)
    <2> HIDE DEF got
    <2> QED BY <1>0, <1>1, <2>1
  <1>3. Peeked = Put(Grown(buffer, call.pos + Chunk), call.pos, got)
    BY DEF Peeked, Before
  <1>4. /\ call' \in Outcomes(call, got, Peeked)
        /\ buffer' = Stopped(call', Peeked)
    BY DEF Peek
  <1> HIDE DEF got
  <1>5. /\ CallTyped(call')
        /\ call'.start = call.start /\ call'.pos = call.pos
        /\ buffer' \in Seq(Cells)
        /\ Decided(sent, call', buffer')
    <2> DEFINE o == call'
               peeked == Peeked
    <2>1. /\ o \in Outcomes(call, got, peeked)
          /\ buffer' = Stopped(o, peeked)
          /\ peeked = Put(Grown(buffer, call.pos + Chunk), call.pos, got)
      BY <1>3, <1>4
    <2> HIDE DEF o, peeked
    <2>2. /\ sent \in Seq(Bytes) /\ CallTyped(call) /\ buffer \in Seq(Cells)
          /\ Searched(sent, call, buffer)
          /\ got \in Seq(Bytes) /\ Len(got) <= Chunk
          /\ Lies(got, call.start + call.pos, sent)
      BY <1>0, <1>1, <1>2
    <2>3. /\ CallTyped(o) /\ o.method = call.method
          /\ o.start = call.start /\ o.pos = call.pos
          /\ Stopped(o, peeked) \in Seq(Cells)
          /\ Decided(sent, o, Stopped(o, peeked))
          /\ Foreseen(sent, o, Len(got))
      BY <2>1, <2>2, PeekDecides
    <2> QED BY <2>1, <2>3 DEF o
  <1>6. Typed'
    BY <1>0, <1>1, <1>5 DEF Typed, CallTyped, IsCall
  <1>7. Position' /\ AtTake'
    BY <1>1, <1>5 DEF Position, AtTake
  <1> QED BY <1>1, <1>6, <1>7 DEF IInv, AtPeek, AtReturn, Returned

(* The take may find less than it asks for, after a reset only, and what   *)
(* it finds is what was peeked at.                                         *)
LEMMA TakeHolds ==
  ASSUME IInv, Take
  PROVE  IInv'
  <1> DEFINE got == Front(call.n)
             b == Put(buffer, call.pos, got)
             at == call.start + call.pos
  <1>0. /\ Typed /\ sent \in Seq(Bytes) /\ CallTyped(call)
        /\ Len(sent) \in Nat /\ taken \in Nat /\ taken <= Len(sent)
        /\ call.start \in Nat /\ call.start <= taken
        /\ call.start <= Len(sent)
        /\ call.pos \in Nat /\ call.n \in Nat /\ call.length \in Nat
        /\ buffer \in Seq(Cells) /\ at \in Nat
    BY SentBytes DEF IInv, Typed, CallTyped
  <1>1. /\ pc = "take" /\ UNCHANGED <<sent, ended>>
        /\ taken <= at
        /\ ended = "reset" \/ taken = at
        /\ Decided(sent, call, buffer)
    BY DEF Take, IInv, Position, AtTake
  <1>2. /\ got \in Seq(Bytes) /\ Len(got) \in 0 .. call.n
        /\ Lies(got, taken, sent)
        /\ ended = "reset" => Len(got) = 0
        /\ ended # "reset" /\ taken + call.n <= Len(sent)
             => Len(got) = call.n
    BY <1>0, FrontGives
  <1>3. /\ taken' = taken + Len(got)
        /\ buffer' = b
        /\ \/ /\ call.done /\ pc' = "idle" /\ UNCHANGED call
              /\ res' = [ok |-> TRUE, bytes |-> SubSeq(b, 1, call.length)]
           \/ /\ ~call.done /\ pc' = "peek" /\ UNCHANGED res
              /\ call' = [call EXCEPT !.pos = call.length]
    BY DEF Take, Return
  <1> HIDE DEF got, at
  <1>4. /\ Len(got) \in Nat /\ taken' \in Nat /\ taken' <= Len(sent)
        /\ call.start <= taken' /\ taken' <= at + call.n
    BY <1>0, <1>1, <1>2, <1>3 DEF Lies
  <1>5. b \in Seq(Cells) /\ Decided(sent, call, b)
    <2>1. CASE taken = at
      BY <1>0, <1>1, <1>2, <2>1, TakeDecided DEF at
    <2>2. CASE Len(got) = 0
      <3>1. Put(buffer, call.pos, got) = buffer
        <4>1. /\ Put(buffer, call.pos, got) \in Seq(Cells)
              /\ Len(Put(buffer, call.pos, got)) = Len(buffer)
              /\ \A k \in 1 .. Len(buffer) :
                   Put(buffer, call.pos, got)[k]
                     = IF k > call.pos /\ k - call.pos \in 1 .. Len(got)
                       THEN got[k - call.pos] ELSE buffer[k]
          <5>1. got \in Seq(Cells)
            BY <1>2 DEF Cells
          <5> QED BY ZenonT(60), <1>0, <5>1, PutCells
        <4> HIDE DEF b
        <4>2. \A k \in 1 .. Len(buffer) :
                Put(buffer, call.pos, got)[k] = buffer[k]
          BY <1>0, <2>2, <4>1
        <4> QED BY <1>0, <4>1, <4>2, SeqEqual
      <3> QED BY <1>0, <1>1, <3>1
    <2> QED BY <1>1, <1>2, <2>1, <2>2
  <1> HIDE DEF b
  <1>6. CASE /\ call.done /\ pc' = "idle" /\ UNCHANGED call
             /\ res' = [ok |-> TRUE, bytes |-> SubSeq(b, 1, call.length)]
    <2> DEFINE bytes == SubSeq(b, 1, call.length)
    <2>1. /\ bytes \in Seq(Cells) /\ Len(bytes) = call.length
          /\ Answers(sent, call, bytes)
      BY <1>0, <1>5, AnswersDecided
    <2>2. res' = [ok |-> TRUE, bytes |-> bytes]
      BY <1>6
    <2> HIDE DEF bytes
    <2>3. res'.bytes = bytes /\ res'.ok
          /\ res' \in [ok : BOOLEAN, bytes : Seq(Cells)]
      BY <2>1, <2>2
    <2>4. Typed'
      BY <1>0, <1>1, <1>3, <1>4, <1>5, <1>6, <2>3 DEF Typed
    <2>5. taken' <= call.start + call.pos + call.n
      BY <1>0, <1>4 DEF at
    <2>6. call.method = "readline" =>
            LineTaken(sent, call, call.length, taken')
      BY <1>0, <1>4, <1>5, <2>5, TakenDecided
    <2>7. call.method = "read_packet" /\ ended # "reset" =>
            PacketTaken(sent, call, call.length, taken')
      <3> SUFFICES ASSUME call.method = "read_packet", ended # "reset"
                   PROVE  PacketTaken(sent, call, call.length, taken')
        OBVIOUS
      <3>1. call.start + call.pos + call.n <= Len(sent)
        BY <1>5 DEF Decided, PacketDecided
      <3>2. taken' = call.start + call.pos + call.n
        BY <1>0, <1>1, <1>2, <1>3, <3>1 DEF at
      <3> QED BY <1>0, <1>4, <1>5, <2>5, <3>2, TakenDecided
    <2>8. AtReturn'
      BY <1>1, <1>6, <2>1, <2>3, <2>6, <2>7 DEF AtReturn
    <2> QED BY <1>6, <2>4, <2>8 DEF IInv, Position, AtPeek, AtTake
  <1>7. CASE /\ ~call.done /\ pc' = "peek" /\ UNCHANGED res
             /\ call' = [call EXCEPT !.pos = call.length]
    <2>1. /\ CallTyped(call') /\ call'.start = call.start
          /\ call'.pos = call.pos + call.n
          /\ Searched(sent, call', b)
      BY <1>0, <1>5, <1>7, GoesOn
    <2>2. Typed'
      BY <1>0, <1>1, <1>3, <1>4, <1>5, <1>7, <2>1 DEF Typed
    <2>3. ended = "reset" \/ taken' = at + call.n
      <3>1. call.length = call.pos + call.n
            /\ call.start + call.length <= Len(sent)
        BY <1>5, <1>7 DEF Decided, Shows
      <3> QED BY SMTT(30), <1>0, <1>1, <1>2, <1>3, <3>1 DEF at
    <2>4. Position'
      BY <1>0, <1>1, <1>4, <2>1, <2>3 DEF Position, at
    <2>5. AtPeek'
      BY <1>1, <1>3, <2>1 DEF AtPeek
    <2> QED BY <1>7, <2>2, <2>4, <2>5 DEF IInv, AtTake, AtReturn, Returned
  <1> QED BY <1>3, <1>6, <1>7

LEMMA ArriveHolds ==
  ASSUME IInv, Arrive
  PROVE  IInv'
  <1>0. /\ Typed /\ sent \in Seq(Bytes) /\ sent \in Seq(Sent)
        /\ Len(sent) \in Nat /\ MaxSent \in Nat
        /\ taken \in Nat /\ taken <= Len(sent) /\ CallTyped(call)
        /\ Len(res.bytes) \in Nat
    BY SentBytes, LenProperties, ReaderAssumption DEF IInv, Typed
  <1>1. PICK x \in Sent : sent' = Append(sent, x)
    BY DEF Arrive
  <1>2. /\ UNCHANGED <<taken, ended, buffer, pc, call, res>>
        /\ Len(sent) < MaxSent
    BY DEF Arrive
  <1>3. /\ sent' \in Seq(Sent) /\ Len(sent') = Len(sent) + 1
        /\ \A k \in 1 .. Len(sent) : sent'[k] = sent[k]
    BY <1>0, <1>1, AppendProperties
  <1>4. Extends(sent, sent')
    BY <1>0, <1>3 DEF Extends
  <1>5. Typed'
    BY <1>0, <1>2, <1>3 DEF Typed, CallTyped, IsCall
  <1>6. sent' \in Seq(Bytes)
    BY <1>3, ReaderAssumption
  <1>7. Position'
    BY <1>2 DEF IInv, Position
  <1>8. AtPeek'
    BY <1>0, <1>2, <1>4, <1>6, SearchedKept DEF IInv, AtPeek
  <1>9. AtTake'
    BY <1>0, <1>2, <1>4, <1>6, DecidedKept DEF IInv, AtTake
  <1>10. AtReturn'
    <2>1. Answers(sent, call, res.bytes) => Answers(sent', call, res.bytes)
      BY <1>0, <1>4, <1>6, AnswersKept
    <2>2. /\ LineTaken(sent, call, Len(res.bytes), taken)
               => LineTaken(sent', call, Len(res.bytes), taken)
          /\ PacketTaken(sent, call, Len(res.bytes), taken)
               => PacketTaken(sent', call, Len(res.bytes), taken)
      BY <1>0, <1>4, <1>6, TakenKept
    <2> QED BY <1>2, <2>1, <2>2 DEF IInv, AtReturn, Returned
  <1> QED BY <1>5, <1>7, <1>8, <1>9, <1>10 DEF IInv

LEMMA StillHolds ==
  ASSUME IInv, UNCHANGED <<sent, taken, buffer, pc, call, res>>,
         ended' = ended \/ (ended = "no" /\ ended' \in {"eof", "reset"})
  PROVE  IInv'
  BY DEF IInv, Typed, Position, AtPeek, AtTake, AtReturn, Returned

LEMMA StepHolds ==
  ASSUME IInv, [Next]_vars
  PROVE  IInv'
  <1>1. CASE Begin("readline", 0)
    BY <1>1, BeginHolds
  <1>2. CASE \E max \in Maxima : Begin("read_packet", max)
    BY <1>2, BeginHolds
  <1>3. CASE PeekNothing
    BY <1>3, PeekNothingHolds
  <1>4. CASE Peek
    BY <1>4, PeekHolds
  <1>5. CASE Take
    BY <1>5, TakeHolds
  <1>6. CASE Arrive
    BY <1>6, ArriveHolds
  <1>7. CASE PeerEnds
    BY <1>7, StillHolds DEF PeerEnds
  <1>8. CASE UNCHANGED vars
    BY <1>8, StillHolds DEF vars
  <1> QED BY <1>1, <1>2, <1>3, <1>4, <1>5, <1>6, <1>7, <1>8 DEF Next

(* The invariant on which the others rest.                                 *)
THEOREM Inductive == Spec => []IInv
  <1>1. Init => IInv
    BY InitHolds
  <1>2. IInv /\ [Next]_vars => IInv'
    BY StepHolds
  <1> QED BY <1>1, <1>2, PTL DEF Spec
-----------------------------------------------------------------------------
(* The variables hold what they should (TypeOK).                           *)
THEOREM TypeCorrect == Spec => []TypeOK
  <1>1. IInv => TypeOK
    BY CallIsTyped DEF IInv, Typed, TypeOK, Cells
  <1> QED BY <1>1, Inductive, PTL

(* A call returns the bytes of the stream in order from where the last has *)
(* stopped, and one that fails has taken nothing (InOrder).                *)
THEOREM ReadsInOrder == Spec => []InOrder
  <1>1. IInv => InOrder
    <2> SUFFICES ASSUME IInv PROVE InOrder
      OBVIOUS
    <2>1. sent \in Seq(Bytes) /\ CallTyped(call) /\ res.bytes \in Seq(Cells)
      BY SentBytes DEF IInv, Typed
    <2>2. Returned => Answers(sent, call, res.bytes)
      BY DEF IInv, AtReturn
    <2>3. pc = "idle" /\ ~res.ok => taken = call.start
      BY DEF IInv, AtReturn
    <2> QED BY <2>1, <2>2, <2>3, AnswerInOrder DEF InOrder
  <1> QED BY <1>1, Inductive, PTL

(* A line that readline returns has no line end in it, and what has been   *)
(* taken behind it begins with one and is at most two bytes (LineBounded). *)
THEOREM LinesEnd == Spec => []LineBounded
  <1>1. IInv => LineBounded
    <2> SUFFICES ASSUME IInv, Returned, call.method = "readline"
                 PROVE  /\ \A k \in DOMAIN res.bytes :
                             res.bytes[k] \notin LineEnds
                        /\ Overread # <<>> =>
                             Len(Overread) <= 2 /\ Overread[1] \in LineEnds
      BY DEF LineBounded
    <2> DEFINE b == res.bytes
               at == call.start + Len(b) + 1
    <2>0. /\ Len(sent) \in Nat /\ call.start \in Nat /\ Len(b) \in Nat
          /\ DOMAIN b = 1 .. Len(b)
          /\ taken \in Nat /\ taken <= Len(sent)
          /\ \A k \in 1 .. Len(sent) : sent[k] \in Bytes
      BY SentBytes, LenProperties DEF IInv, Typed
    <2>1. \A k \in DOMAIN b : b[k] \notin LineEnds
      BY <2>0 DEF IInv, AtReturn, Answers, Shows, NoEnd
    <2>2. CASE taken >= at
      <3>1. taken <= at + 1 /\ sent[at] \in LineEnds
        BY <2>0, <2>2 DEF IInv, AtReturn, LineTaken
      <3>2. at \in Nat /\ 1 <= at /\ \A k \in at .. taken : sent[k] \in Bytes
        BY <2>0
      <3> HIDE DEF at
      <3>3. /\ Len(SubSeq(sent, at, taken)) = taken - at + 1
            /\ \A k \in 1 .. taken - at + 1 :
                 SubSeq(sent, at, taken)[k] = sent[at + k - 1]
        BY <2>0, <2>2, <3>2, SubSeqProperties
      <3>4. SubSeq(sent, at, taken)[1] = sent[at]
        BY <2>0, <2>2, <3>2, <3>3
      <3>5. Overread = SubSeq(sent, at, taken)
        BY DEF Overread, at
      <3> QED BY <2>0, <2>1, <2>2, <3>1, <3>2, <3>3, <3>4, <3>5
    <2>3. CASE ~ (taken >= at)
      <3>1. at \in Int /\ taken < at /\ taken \in Int
        BY <2>0, <2>3
      <3> HIDE DEF at
      <3>2. SubSeq(sent, at, taken) = <<>>
        BY <3>1, SubSeqEmpty
      <3>3. Overread = SubSeq(sent, at, taken)
        BY DEF Overread, at
      <3> QED BY <2>1, <3>2, <3>3
    <2> QED BY <2>2, <2>3
  <1> QED BY <1>1, Inductive, PTL

(* read_packet returns no more than maxsize bytes, and what it has taken   *)
(* behind them is the separator or nothing (PacketExact).                  *)
THEOREM PacketsExact == Spec => []PacketExact
  <1>1. IInv => PacketExact
    <2> SUFFICES ASSUME IInv, Returned, call.method = "read_packet"
                 PROVE  /\ call.max > 0 => Len(res.bytes) <= call.max
                        /\ ended # "reset" => Overread \in {<<>>, Sep}
      BY DEF PacketExact
    <2>1. /\ sent \in Seq(Bytes) /\ CallTyped(call) /\ taken \in Nat
          /\ Len(res.bytes) \in Nat
      BY SentBytes, LenProperties DEF IInv, Typed
    <2>2. /\ call.max > 0 => Len(res.bytes) <= call.max
          /\ ended # "reset" =>
               PacketTaken(sent, call, Len(res.bytes), taken)
      BY DEF IInv, AtReturn, Answers
    <2> QED BY <2>1, <2>2, PacketOverread DEF Overread
  <1> QED BY <1>1, Inductive, PTL

(* A packet has no separator in it, also none that was spread over two     *)
(* chunks, unless the bytes before it have begun like one (PacketStops).   *)
THEOREM PacketsStop == Spec => []PacketStops
  <1>1. IInv => PacketStops
    <2>1. ASSUME IInv
          PROVE  /\ sent \in Seq(Bytes) /\ CallTyped(call)
                 /\ res.bytes \in Seq(Cells)
                 /\ Returned => Answers(sent, call, res.bytes)
      BY <2>1, SentBytes DEF IInv, Typed, AtReturn
    <2> QED BY <2>1, AnswerStops DEF PacketStops
  <1> QED BY <1>1, Inductive, PTL

(* The take, whose result nobody looks at, gives all that it asks for,     *)
(* unless a reset has emptied the queue since the peek: always in          *)
(* read_packet, and in readline between one chunk and the next.            *)
THEOREM TakesGiveAll ==
  Spec => [](pc = "take" /\ ended # "reset"
             /\ (call.method = "read_packet" \/ ~call.done)
               => Len(Front(call.n)) = call.n)
  <1>1. ASSUME IInv, pc = "take", ended # "reset",
               call.method = "read_packet" \/ ~call.done
        PROVE  Len(Front(call.n)) = call.n
    <2>1. /\ Typed /\ CallTyped(call) /\ call.n \in Nat /\ call.pos \in Nat
          /\ call.start \in Nat /\ Len(sent) \in Nat
      BY <1>1, SentBytes DEF IInv, Typed, CallTyped
    <2>2. taken = call.start + call.pos /\ Decided(sent, call, buffer)
      BY <1>1 DEF IInv, Position, AtTake
    <2>3. CASE call.method = "read_packet"
      <3>1. call.start + call.pos + call.n <= Len(sent)
        BY <2>2, <2>3 DEF Decided, PacketDecided
      <3> QED BY <1>1, <2>1, <2>2, <3>1, FrontGives
    <2>4. CASE ~call.done
      <3>1. call.length = call.pos + call.n
            /\ call.start + call.length <= Len(sent)
        BY <2>2, <2>4 DEF Decided, Shows
      <3>2. taken + call.n <= Len(sent)
        BY <2>1, <2>2, <3>1
      <3> QED BY <1>1, <2>1, <3>2, FrontGives
    <2> QED BY <1>1, <2>3, <2>4
  <1> QED BY <1>1, Inductive, PTL
=============================================================================
