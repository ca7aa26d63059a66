-------------------------- MODULE SslWriter_proofs --------------------------
(***************************************************************************)
(* For any texts, record length, addresses and interleaving of the writing *)
(* methods: a script that repeats what has not been written gets each text *)
(* to the kernel once, and a repeated write is never refused and comes to  *)
(* its end.                                                                *)
(***************************************************************************)
EXTENDS SslWriter, SequenceTheorems, TLAPS

(* A piece of a sequence is one, of the expected length.                   *)
LEMMA PieceType ==
  ASSUME NEW S, NEW s \in Seq(S), NEW a \in Nat, NEW b \in Nat,
         a <= b, b <= Len(s)
  PROVE  /\ SubSeq(s, a + 1, b) \in Seq(S)
         /\ Len(SubSeq(s, a + 1, b)) = b - a
  <1>1. \A i \in a + 1 .. b : s[i] \in S
    BY ElementOfSeq, LenProperties
  <1> QED BY <1>1, SubSeqProperties

(* The text that is owed, and the record that is pending of it.            *)
PendingIsOwed ==
  Pending => /\ owed
             /\ wnum < Len(call.text)
             /\ record.bytes = Slice(call.text, wnum, MaxRecord)
             /\ call.method = "write" => record.from = Source(call.at)

IInv ==
  /\ handed \in Seq(Data) /\ reported \in Seq(Data)
  /\ call.text \in Seq(Data) /\ (owed => call.text # <<>>)
  /\ wnum \in 0 .. Len(call.text) /\ owed \in BOOLEAN
  /\ ~Pending => wnum = 0
  /\ handed = reported \o SubSeq(call.text, 1, wnum)
  /\ PendingIsOwed

(* A slice of a text is the piece up to a later position, or the end.      *)
LEMMA SliceIsPiece ==
  ASSUME NEW text \in Seq(Data), NEW p \in Nat, p < Len(text)
  PROVE  /\ Len(Slice(text, p, MaxRecord)) \in 1 .. MaxRecord
         /\ p + Len(Slice(text, p, MaxRecord)) <= Len(text)
         /\ Slice(text, p, MaxRecord)
              = SubSeq(text, p + 1, p + Len(Slice(text, p, MaxRecord)))
         /\ Slice(text, p, MaxRecord) \in Seq(Data)
  <1> DEFINE e == Lesser(p + MaxRecord, Len(text))
  <1>1. Len(text) \in Nat /\ MaxRecord \in Nat \ {0}
    BY LenProperties, SslWriterAssumption
  <1>2. e \in Nat /\ p < e /\ e <= Len(text) /\ e <= p + MaxRecord
    BY <1>1 DEF Lesser
  <1>3. Slice(text, p, MaxRecord) = SubSeq(text, p + 1, e)
    BY DEF Slice
  <1> HIDE DEF e
  <1>4. /\ SubSeq(text, p + 1, e) \in Seq(Data)
        /\ Len(SubSeq(text, p + 1, e)) = e - p
    BY <1>1, <1>2, PieceType
  <1>5. p + Len(Slice(text, p, MaxRecord)) = e
    BY <1>2, <1>3, <1>4
  <1>6. Slice(text, p, MaxRecord)
          = SubSeq(text, p + 1, p + Len(Slice(text, p, MaxRecord)))
    BY <1>3, <1>5
  <1>7. Len(Slice(text, p, MaxRecord)) \in 1 .. MaxRecord
    BY <1>1, <1>2, <1>3, <1>4
  <1>8. p + Len(Slice(text, p, MaxRecord)) <= Len(text)
    BY <1>2, <1>5
  <1> QED BY <1>3, <1>4, <1>6, <1>7, <1>8

(* A record that is pending has bytes, and no record has none.             *)
LEMMA NewRecordPends ==
  ASSUME NEW text \in Seq(Data), NEW p \in Nat, p < Len(text), NEW from
  PROVE  [from |-> from, bytes |-> Slice(text, p, MaxRecord)] # NoRecord
  <1>1. Len(Slice(text, p, MaxRecord)) \in 1 .. MaxRecord
    BY SliceIsPiece
  <1>2. Slice(text, p, MaxRecord) # <<>>
    BY <1>1
  <1> QED BY <1>2 DEF NoRecord

(* What a call is about to write: its text is the one that is owed, if one *)
(* is, and the first record to go out is the next slice of it.             *)
Fits(text) ==
  /\ text \in Seq(Data) /\ wnum \in Nat /\ wnum < Len(text)
  /\ First(text) = Slice(text, wnum, MaxRecord)
  /\ handed = reported \o SubSeq(text, 1, wnum)
  /\ handed \in Seq(Data) /\ reported \in Seq(Data)

(* Up to where a call has come, its text has gone out.                     *)
LEMMA GoneIsPiece ==
  ASSUME NEW text, Fits(text),
         NEW p \in Nat, wnum <= p, p <= Len(text),
         p # wnum => wnum + Len(First(text)) <= p
  PROVE  /\ handed \o Gone(text, p) = reported \o SubSeq(text, 1, p)
         /\ handed \o Gone(text, p) \in Seq(Data)
  <1> DEFINE f == Len(First(text))
             done == SubSeq(text, 1, wnum)
  <1>1. /\ text \in Seq(Data) /\ Len(text) \in Nat
        /\ wnum \in Nat /\ wnum < Len(text)
        /\ handed = reported \o done /\ reported \in Seq(Data)
        /\ handed \in Seq(Data)
    BY LenProperties DEF Fits
  <1>2. /\ f \in Nat /\ wnum + f <= Len(text)
        /\ First(text) = SubSeq(text, wnum + 1, wnum + f)
    <2>1. /\ Len(Slice(text, wnum, MaxRecord)) \in 1 .. MaxRecord
          /\ wnum + Len(Slice(text, wnum, MaxRecord)) <= Len(text)
          /\ Slice(text, wnum, MaxRecord)
               = SubSeq(text, wnum + 1,
                        wnum + Len(Slice(text, wnum, MaxRecord)))
      BY <1>1, SliceIsPiece
    <2>2. First(text) = Slice(text, wnum, MaxRecord)
      BY DEF Fits
    <2> QED BY <2>1, <2>2, SslWriterAssumption
  <1>3. CASE p = wnum
    <2>1. Gone(text, p) = <<>>
      BY <1>3 DEF Gone
    <2>2. handed \o <<>> = handed
      BY <1>1, ConcatEmptySeq
    <2> QED BY <1>1, <1>3, <2>1, <2>2
  <1>4. CASE p # wnum
    <2> HIDE DEF f
    <2>1. wnum + f \in Nat /\ wnum + f <= p /\ wnum <= wnum + f
      BY <1>1, <1>2, <1>4 DEF f
    <2>2. Gone(text, p) = SubSeq(text, wnum + 1, wnum + f)
                            \o SubSeq(text, wnum + f + 1, p)
      BY <1>2, <1>4 DEF Gone, f
    <2>3. Gone(text, p) = SubSeq(text, wnum + 1, p)
      <3> DEFINE b == wnum + f
      <3>1. b \in Nat /\ wnum <= b /\ b <= p
        BY <2>1
      <3> HIDE DEF b
      <3>2. SubSeq(text, wnum + 1, b) \o SubSeq(text, b + 1, p)
              = SubSeq(text, wnum + 1, p)
        BY <1>1, <3>1, ConcatAdjacentSubSeq, LenProperties
      <3> QED BY <2>2, <3>2 DEF b
    <2>4. /\ done \in Seq(Data) /\ SubSeq(text, wnum + 1, p) \in Seq(Data)
          /\ done \o SubSeq(text, wnum + 1, p) = SubSeq(text, 1, p)
      <3>1. 0 + 1 = 1 /\ 0 \in Nat /\ 0 <= wnum
        BY <1>1
      <3>2. SubSeq(text, 0 + 1, wnum) \in Seq(Data)
        BY <1>1, <3>1, PieceType
      <3>3. SubSeq(text, wnum + 1, p) \in Seq(Data)
        BY <1>1, PieceType
      <3>4. SubSeq(text, 0 + 1, wnum) \o SubSeq(text, wnum + 1, p)
              = SubSeq(text, 0 + 1, p)
        BY <1>1, <3>1, ConcatAdjacentSubSeq, LenProperties
      <3> QED BY <3>1, <3>2, <3>3, <3>4
    <2> HIDE DEF done
    <2>5. (reported \o done) \o SubSeq(text, wnum + 1, p)
            = reported \o (done \o SubSeq(text, wnum + 1, p))
      <3> DEFINE rest == SubSeq(text, wnum + 1, p)
      <3>1. done \in Seq(Data) /\ rest \in Seq(Data) /\ reported \in Seq(Data)
        BY <1>1, <2>4
      <3> HIDE DEF rest
      <3>2. (reported \o done) \o rest = reported \o (done \o rest)
        BY SMTT(60), <3>1, ConcatAssociative
      <3> QED BY <3>2 DEF rest
    <2>6. handed \o SubSeq(text, wnum + 1, p) \in Seq(Data)
      BY <1>1, <2>4, ConcatProperties
    <2> QED BY <1>1, <2>3, <2>4, <2>5, <2>6
  <1> QED BY <1>3, <1>4

(* The stops of a call are behind its first record, if it is gone.         *)
LEMMA StopsBehindFirst ==
  ASSUME NEW text, Fits(text), NEW p \in Stops(text)
  PROVE  /\ p \in Nat /\ wnum <= p /\ p < Len(text)
         /\ p # wnum => wnum + Len(First(text)) <= p
  <1>1. wnum \in Nat /\ Len(text) \in Nat /\ MaxRecord \in Nat
    BY LenProperties, SslWriterAssumption DEF Fits
  <1>2. p \in wnum .. Len(text) - 1
    BY DEF Stops
  <1>3. ASSUME p # wnum
        PROVE  wnum + Len(First(text)) <= p
    <2>1. PICK k \in 0 .. Len(text) :
            p = wnum + Len(First(text)) + k * MaxRecord
      BY <1>3 DEF Stops
    <2>2. k * MaxRecord \in Nat
      BY <1>1, <2>1
    <2>3. Len(First(text)) \in Nat
      BY SliceIsPiece, <1>1, SslWriterAssumption DEF Fits
    <2> QED BY <1>1, <2>1, <2>2, <2>3
  <1> QED BY <1>1, <1>2, <1>3
-----------------------------------------------------------------------------
(* A call under the scripts' discipline fits what is pending.              *)
LEMMA CallFits ==
  ASSUME Repeats, IInv, NEW method, NEW at, NEW text \in Seq(Data),
         text # <<>>, Calls(method, at, text)
  PROVE  /\ Fits(text)
         /\ Pending => method = call.method /\ text = call.text
         /\ Pending /\ method = "write" => record.from = Source(at)
  <1>1. owed => /\ method = call.method /\ text = call.text
                /\ method = "write" => at = call.at
    BY DEF Calls
  <1>2. /\ Pending => owed /\ text = call.text
        /\ Pending /\ method = "write" => record.from = Source(at)
    BY <1>1 DEF IInv, PendingIsOwed
  <1>3. Len(text) \in Nat \ {0}
    BY EmptySeq
  <1>4. CASE Pending
    <2>1. /\ text = call.text /\ wnum < Len(call.text)
          /\ record.bytes = Slice(call.text, wnum, MaxRecord)
      BY <1>2, <1>4 DEF IInv, PendingIsOwed
    <2>2. wnum \in Nat /\ handed = reported \o SubSeq(text, 1, wnum)
          /\ handed \in Seq(Data) /\ reported \in Seq(Data)
      BY <1>3, <2>1 DEF IInv
    <2>3. First(text) = Slice(text, wnum, MaxRecord)
      BY <1>4, <2>1 DEF First
    <2>4. wnum < Len(text)
      BY <2>1
    <2>5. Fits(text)
      BY <2>2, <2>3, <2>4, Zenon DEF Fits
    <2> QED BY <1>1, <1>2, <2>5
  <1>5. CASE ~Pending
    <2>1. wnum = 0 /\ 0 \in Nat /\ 0 < Len(text)
      BY <1>3, <1>5 DEF IInv
    <2>2. SubSeq(text, 1, 0) = <<>> /\ SubSeq(call.text, 1, 0) = <<>>
      BY SubSeqEmpty
    <2>3. handed = reported \o SubSeq(text, 1, wnum)
      BY <2>1, <2>2 DEF IInv
    <2>4. First(text) = Slice(text, wnum, MaxRecord)
      BY <1>5 DEF First
    <2> QED BY <1>5, <2>1, <2>3, <2>4 DEF Fits, IInv
  <1> QED BY <1>1, <1>2, <1>4, <1>5

(* Every outcome of a call keeps the invariant.                            *)
LEMMA CallKeeps ==
  ASSUME Repeats, IInv, NEW method, NEW at, NEW text \in Seq(Data),
         text # <<>>, Calls(method, at, text)
  PROVE  IInv'
  <1>1. /\ Fits(text)
        /\ Pending => method = call.method /\ text = call.text
        /\ Pending /\ method = "write" => record.from = Source(at)
    BY CallFits
  <1>2. /\ call'.method = method /\ call'.at = at /\ call'.text = text
        /\ SslWrite(at, text)
    BY DEF Calls
  <1>3. /\ Len(text) \in Nat /\ wnum \in Nat /\ wnum < Len(text)
        /\ First(text) = Slice(text, wnum, MaxRecord)
        /\ handed = reported \o SubSeq(text, 1, wnum)
        /\ handed \in Seq(Data) /\ reported \in Seq(Data)
    BY <1>1, LenProperties DEF Fits
  <1>4. CASE WritesAll(at, text)
    <2>1. /\ handed' = handed \o Gone(text, Len(text))
          /\ reported' = reported \o text
          /\ owed' = FALSE /\ wnum' = 0 /\ record' = NoRecord
      BY <1>4 DEF WritesAll
    <2>2. /\ Len(Slice(text, wnum, MaxRecord)) \in 1 .. MaxRecord
          /\ wnum + Len(Slice(text, wnum, MaxRecord)) <= Len(text)
      BY <1>3, SliceIsPiece
    <2>3. /\ handed' = reported \o SubSeq(text, 1, Len(text))
          /\ handed' \in Seq(Data)
      <3> DEFINE p == Len(text)
      <3>1. /\ p \in Nat /\ wnum <= p /\ p <= Len(text)
            /\ p # wnum => wnum + Len(First(text)) <= p
        BY <1>3, <2>2
      <3>2. handed' = handed \o Gone(text, p)
        BY <2>1
      <3> HIDE DEF p
      <3>3. /\ handed \o Gone(text, p) = reported \o SubSeq(text, 1, p)
            /\ handed \o Gone(text, p) \in Seq(Data)
        BY <1>1, <3>1, GoneIsPiece
      <3> QED BY <3>2, <3>3 DEF p
    <2>4. handed' = reported'
      BY <2>1, <2>3, SubSeqFull
    <2>5. reported' \o SubSeq(text, 1, 0) = reported'
      <3>1. SubSeq(text, 1, 0) = <<>>
        BY SubSeqEmpty
      <3> QED BY <2>3, <2>4, <3>1, ConcatEmptySeq
    <2>6. ~Pending'
      BY <2>1 DEF Pending
    <2>7. handed' = reported' \o SubSeq(call'.text, 1, wnum')
      BY <1>2, <2>1, <2>4, <2>5
    <2>8. PendingIsOwed'
      BY <2>6 DEF PendingIsOwed
    <2>9. reported' \in Seq(Data)
      BY <2>3, <2>4
    <2>10. wnum' \in 0 .. Len(call'.text)
      BY <1>2, <1>3, <2>1
    <2>11. owed' => call'.text # <<>>
      BY <2>1
    <2>12. owed' \in BOOLEAN /\ (~Pending' => wnum' = 0)
      BY <2>1
    <2>13. call'.text \in Seq(Data)
      BY <1>2
    <2> QED BY <2>3, <2>7, <2>8, <2>9, <2>10, <2>11, <2>12, <2>13 DEF IInv
  <1>5. CASE WritesPart(at, text)
    <2>1. PICK p \in Stops(text) :
            handed' = handed \o Gone(text, p) /\ StopAt(at, text, p)
      BY <1>5 DEF WritesPart
    <2>2. owed' = TRUE /\ reported' = reported
      BY <1>5 DEF WritesPart, NotWritten
    <2>3. /\ p \in Nat /\ wnum <= p /\ p < Len(text) /\ p <= Len(text)
          /\ p # wnum => wnum + Len(First(text)) <= p
      BY <1>1, <1>3, StopsBehindFirst
    <2>4. /\ handed' = reported \o SubSeq(text, 1, p)
          /\ handed' \in Seq(Data)
      BY <1>1, <2>1, <2>3, GoneIsPiece
    <2>5. /\ wnum' = p
          /\ Pending' /\ record'.bytes = Slice(text, p, MaxRecord)
          /\ method = "write" => record'.from = <<at, p>>
      <3>1. wnum' = p
        BY <2>1 DEF StopAt
      <3>2. CASE Pending /\ p = wnum
        <4>1. record' = record
          BY <2>1, <3>2 DEF StopAt
        <4>2. record.bytes = Slice(text, p, MaxRecord)
          BY <1>3, <3>2 DEF First
        <4> QED BY <1>1, <3>1, <3>2, <4>1, <4>2 DEF Pending, Source
      <3>3. CASE ~(Pending /\ p = wnum)
        <4>1. record' = [from |-> <<at, p>>,
                         bytes |-> Slice(text, p, MaxRecord)]
          BY <2>1, <3>3 DEF StopAt
        <4>2. record' # NoRecord
          BY <2>3, <4>1, NewRecordPends
        <4> QED BY <3>1, <4>1, <4>2 DEF Pending
      <3> QED BY <3>2, <3>3
    <2>6. PendingIsOwed'
      BY <1>2, <2>2, <2>3, <2>5 DEF PendingIsOwed, Source, Slice
    <2> QED BY <1>2, <1>3, <2>2, <2>3, <2>4, <2>5, <2>6 DEF IInv
  <1>6. CASE Refuses(at, text) \/ HandshakeStops
    <2>1. /\ UNCHANGED <<wnum, record, handed, reported>>
          /\ owed' = TRUE
      BY <1>6 DEF Refuses, HandshakeStops, NotWritten
    <2>2. PendingIsOwed'
      <3>1. Pending' <=> Pending
        BY <2>1 DEF Pending
      <3>2. Pending => record.bytes = Slice(text, wnum, MaxRecord)
        BY <1>3 DEF First
      <3> QED BY <1>1, <1>2, <1>3, <2>1, <3>1, <3>2
          DEF PendingIsOwed, Source, Slice
    <2>3. ~Pending' => wnum' = 0
      BY <2>1 DEF IInv, Pending
    <2> QED BY <1>2, <1>3, <2>1, <2>2, <2>3 DEF IInv
  <1> QED BY <1>2, <1>4, <1>5, <1>6 DEF SslWrite

LEMMA Initial == Init => IInv
  <1> SUFFICES ASSUME Init PROVE IInv
    OBVIOUS
  <1>1. ~Pending /\ wnum = 0 /\ owed = FALSE /\ call.text = <<>>
        /\ handed = <<>> /\ reported = <<>>
    BY DEF Init, Pending
  <1>2. <<>> \in Seq(Data) /\ Len(<<>>) = 0
    BY EmptySeq
  <1>3. SubSeq(<<>>, 1, 0) = <<>>
    BY SubSeqEmpty
  <1>4. <<>> \o <<>> = <<>>
    BY <1>2, ConcatEmptySeq
  <1>5. handed = reported \o SubSeq(call.text, 1, wnum)
    BY <1>1, <1>3, <1>4
  <1>6. wnum \in 0 .. Len(call.text)
    BY <1>1, <1>2
  <1> QED BY <1>1, <1>2, <1>5, <1>6 DEF IInv, PendingIsOwed

LEMMA Inductive ==
  ASSUME Repeats, IInv, [Next]_vars
  PROVE  IInv'
  <1>1. ASSUME NEW text \in Texts, WriteLine(text)
        PROVE  IInv'
    <2>1. text \o LineEnd \in Seq(Data) /\ text \o LineEnd # <<>>
      <3>1. text \in Seq(Data) /\ text # <<>> /\ LineEnd \in Seq(Data)
        BY SslWriterAssumption
      <3>2. text \o LineEnd \in Seq(Data)
        BY <3>1, ConcatProperties
      <3>3. text \o LineEnd # <<>>
        BY <3>1, ConcatEqualIffEmpty
      <3> QED BY <3>2, <3>3
    <2>2. Calls("writeline", <<"buffer", buffer'.moves>>, text \o LineEnd)
      BY <1>1 DEF WriteLine
    <2>3. \A at : Calls("writeline", at, text \o LineEnd) => IInv'
      BY <2>1, CallKeeps
    <2> QED BY <2>2, <2>3
  <1>2. ASSUME NEW text \in Texts, NEW method, NEW at,
               Calls(method, at, text)
        PROVE  IInv'
    <2>1. text \in Seq(Data) /\ text # <<>>
      BY SslWriterAssumption
    <2> QED BY <1>2, <2>1, CallKeeps
  <1>3. ASSUME SendNothing \/ ReadLine \/ OtherCallFails \/ Break
               \/ UNCHANGED vars
        PROVE  IInv'
    <2>1. UNCHANGED <<call, owed, wnum, record, handed, reported>>
      BY <1>3
      DEF SendNothing, ReadLine, OtherCallFails, Break, vars
    <2> QED BY <2>1 DEF IInv, PendingIsOwed, Pending, Source, Slice
  <1> QED BY <1>1, <1>2, <1>3 DEF Next, Write, SslPrint

(* Each text gets to the kernel once, in the order of the calls.           *)
THEOREM TextsHandedOnce == Spec => []HandedInOrder
  <1>1. CASE Repeats
    <2>1. Init => IInv
      BY Initial
    <2>2. IInv /\ [Next]_vars => IInv'
      BY <1>1, Inductive
    <2>3. IInv => HandedInOrder
      BY DEF IInv, PendingIsOwed, HandedInOrder
    <2> QED BY <2>1, <2>2, <2>3, PTL DEF Spec
  <1>2. CASE ~Repeats
    <2>1. HandedInOrder
      BY <1>2 DEF HandedInOrder
    <2> QED BY <2>1, PTL
  <1> QED BY <1>1, <1>2

(* The record that is pending of an owed write is from where the next      *)
(* repetition has it, and no longer than what is left.                     *)
LEMMA RepeatNotBad ==
  ASSUME IInv, owed, call.method = "write"
  PROVE  ~BadRetry(call.at, call.text)
  <1> SUFFICES ASSUME Pending PROVE ~BadRetry(call.at, call.text)
    BY DEF BadRetry
  <1>1. wnum \in 0 .. Len(call.text) /\ PendingIsOwed
        /\ call.text \in Seq(Data)
    BY DEF IInv
  <1>2. /\ record.bytes = Slice(call.text, wnum, MaxRecord)
        /\ record.from = Source(call.at)
        /\ wnum \in Nat /\ wnum < Len(call.text)
    BY <1>1 DEF PendingIsOwed
  <1>3. Len(Slice(call.text, wnum, MaxRecord)) \in Nat
    BY <1>1, <1>2, SliceIsPiece, SslWriterAssumption
  <1> QED BY <1>2, <1>3 DEF BadRetry

(* A write repeated from the same scalar is taken up, never refused.       *)
THEOREM RepeatsAccepted == Spec => []RepeatFits
  <1>1. CASE Repeats
    <2>1. Init => IInv
      BY Initial
    <2>2. IInv /\ [Next]_vars => IInv'
      BY <1>1, Inductive
    <2>3. IInv => RepeatFits
      BY RepeatNotBad DEF RepeatFits
    <2> QED BY <2>1, <2>2, <2>3, PTL DEF Spec
  <1>2. CASE ~Repeats
    <2>1. RepeatFits
      BY <1>2 DEF RepeatFits
    <2> QED BY <2>1, PTL
  <1> QED BY <1>1, <1>2
-----------------------------------------------------------------------------
(* Whatever the scripts do, repeat what is owed or not: a record has from  *)
(* one byte to MaxRecord, and part of a text is gone only while the next   *)
(* record of it is pending.                                                *)
Sound ==
  /\ wnum \in Nat
  /\ wnum > 0 => Pending
  /\ Pending => Len(record.bytes) \in 1 .. MaxRecord

LEMMA TextTyped ==
  ASSUME NEW text \in Texts
  PROVE  text \in Seq(Data) /\ text \o LineEnd \in Seq(Data)
  BY SslWriterAssumption, ConcatProperties

(* What is left of a text when SSL_write stops is another sound record.    *)
LEMMA StopIsSound ==
  ASSUME TypeOK, NEW at, NEW text \in Seq(Data), NEW p \in Stops(text),
         StopAt(at, text, p)
  PROVE  Sound'
  <1>1. wnum \in Nat /\ Len(text) \in Nat
    BY LenProperties DEF TypeOK
  <1>2. p \in Nat /\ p < Len(text)
    BY <1>1 DEF Stops
  <1>3. CASE Pending /\ p = wnum
    <2>1. record' = record /\ wnum' = p
      BY <1>3 DEF StopAt
    <2> QED BY <1>2, <1>3, <2>1 DEF Sound, Pending, TypeOK
  <1>4. CASE ~(Pending /\ p = wnum)
    <2> DEFINE r == [from |-> <<at, p>>, bytes |-> Slice(text, p, MaxRecord)]
    <2>1. record' = r /\ wnum' = p
      BY <1>4 DEF StopAt
    <2>2. r # NoRecord
      BY <1>2, NewRecordPends
    <2>3. Len(r.bytes) \in 1 .. MaxRecord
      BY <1>2, SliceIsPiece
    <2> HIDE DEF r
    <2> QED BY <1>2, <2>1, <2>2, <2>3 DEF Sound, Pending
  <1> QED BY <1>3, <1>4

(* A call that does not finish takes one entry from the error queue, or    *)
(* none.                                                                   *)
LEMMA OutcomeTyped ==
  ASSUME TypeOK, NEW wantWrite, Outcome(wantWrite)
  PROVE  state' \in {"CONNECTED", "ERROR"} /\ errors' \in 0 .. MaxErrors
  BY SslWriterAssumption DEF Outcome, Left, TypeOK

(* Every outcome of a call.                                                *)
LEMMA CallTyped ==
  ASSUME TypeOK, NEW method \in Methods, NEW at, NEW text \in Seq(Data),
         NEW base \in Texts, text \in {base, base \o LineEnd},
         Calls(method, at, text),
         buffer' \in [moves : 0 .. MaxMoves, size : Nat]
  PROVE  TypeOK'
  <1>1. /\ call'.method \in Methods /\ broken' = broken
        /\ call'.text \in {base, base \o LineEnd}
        /\ SslWrite(at, text)
    BY DEF Calls
  <1>2. ASSUME owed' \in BOOLEAN, Sound', handshaking' \in BOOLEAN,
               state' \in {"CONNECTED", "ERROR"}, errors' \in 0 .. MaxErrors
        PROVE  TypeOK'
    BY <1>1, <1>2 DEF TypeOK, Sound
  <1>3. CASE WritesAll(at, text)
    <2>1. wnum' = 0 /\ ~Pending' /\ owed' = FALSE /\ handshaking' = FALSE
          /\ state' = state /\ errors' \in {0, errors}
      BY <1>3 DEF WritesAll, Left, Pending
    <2>2. Sound'
      BY <2>1 DEF Sound
    <2>3. owed' \in BOOLEAN /\ handshaking' \in BOOLEAN
      BY <2>1
    <2>4. state' \in {"CONNECTED", "ERROR"} /\ errors' \in 0 .. MaxErrors
      BY <2>1, SslWriterAssumption DEF TypeOK
    <2> QED BY <1>2, <2>2, <2>3, <2>4
  <1>4. CASE WritesPart(at, text)
    <2>1. /\ owed' = TRUE /\ handshaking' = FALSE
          /\ Outcome(~broken)
      BY <1>4 DEF WritesPart, NotWritten
    <2>2. Sound'
      BY <1>4, StopIsSound DEF WritesPart
    <2> QED BY <1>2, <2>1, <2>2, OutcomeTyped
  <1>5. CASE Refuses(at, text)
    <2>1. /\ UNCHANGED <<wnum, record, handshaking, errors>>
          /\ owed' = TRUE /\ state' = "ERROR"
      BY <1>5 DEF Refuses
    <2> QED BY <1>2, <2>1 DEF Sound, Pending, TypeOK
  <1>6. CASE HandshakeStops
    <2>1. UNCHANGED <<wnum, record, handshaking>>
      BY <1>6 DEF HandshakeStops
    <2>2. PICK wantWrite \in {FALSE, ~broken} : NotWritten(wantWrite)
      BY <1>6 DEF HandshakeStops
    <2>3. owed' = TRUE /\ Outcome(wantWrite)
      BY <2>2 DEF NotWritten
    <2>4. state' \in {"CONNECTED", "ERROR"} /\ errors' \in 0 .. MaxErrors
      BY <2>3, OutcomeTyped
    <2> QED BY <1>2, <2>1, <2>3, <2>4 DEF Sound, Pending, TypeOK
  <1> QED BY <1>1, <1>3, <1>4, <1>5, <1>6 DEF SslWrite

(* The buffer grows, and may move, MaxMoves times.                         *)
LEMMA GrownTyped ==
  ASSUME TypeOK, NEW len \in Nat, NEW b \in Grown(len)
  PROVE  b \in [moves : 0 .. MaxMoves, size : Nat]
  <1>1. buffer \in [moves : 0 .. MaxMoves, size : Nat]
    BY DEF TypeOK
  <1>2. Lesser(buffer.moves + 1, MaxMoves) \in 0 .. MaxMoves
    BY <1>1, SslWriterAssumption DEF Lesser
  <1> QED BY <1>1, <1>2 DEF Grown

LEMMA TypeInductive ==
  ASSUME TypeOK, [Next]_vars
  PROVE  TypeOK'
  <1>1. ASSUME NEW text \in Texts, WriteLine(text)
        PROVE  TypeOK'
    <2> DEFINE joined == text \o LineEnd
    <2>1. joined \in Seq(Data) /\ Len(joined) \in Nat
      BY TextTyped, LenProperties
    <2>2. /\ buffer' \in Grown(Len(joined))
          /\ Calls("writeline", <<"buffer", buffer'.moves>>, joined)
      BY <1>1 DEF WriteLine
    <2>3. buffer' \in [moves : 0 .. MaxMoves, size : Nat]
      BY <2>1, <2>2, GrownTyped
    <2>4. "writeline" \in Methods /\ joined \in {text, text \o LineEnd}
      BY DEF Methods
    <2> HIDE DEF joined
    <2> QED BY <2>1, <2>2, <2>3, <2>4, CallTyped
  <1>2. ASSUME NEW text \in Texts, NEW method \in {"write", "print"}, NEW at,
               Calls(method, at, text), UNCHANGED buffer
        PROVE  TypeOK'
    <2>1. text \in Seq(Data) /\ method \in Methods
          /\ text \in {text, text \o LineEnd}
      BY TextTyped DEF Methods
    <2>2. buffer' \in [moves : 0 .. MaxMoves, size : Nat]
      BY <1>2 DEF TypeOK
    <2> QED BY <1>2, <2>1, <2>2, CallTyped
  <1>3. CASE SendNothing
    <2>1. UNCHANGED <<buffer, call, owed, wnum, record, broken>>
      BY <1>3 DEF SendNothing
    <2>2. /\ handshaking' \in BOOLEAN
          /\ \E wantWrite \in BOOLEAN : Outcome(wantWrite)
      BY <1>3 DEF SendNothing, TypeOK
    <2>3. state' \in {"CONNECTED", "ERROR"} /\ errors' \in 0 .. MaxErrors
      BY <2>2, OutcomeTyped
    <2> QED BY <2>1, <2>2, <2>3 DEF TypeOK, Pending
  <1>4. CASE ReadLine
    <2>1. UNCHANGED <<call, owed, wnum, record, handshaking, broken, state,
                      errors>>
      BY <1>4 DEF ReadLine
    <2>2. buffer' \in [moves : 0 .. MaxMoves, size : Nat]
      BY <1>4, GrownTyped, SslWriterAssumption DEF ReadLine
    <2> QED BY <2>1, <2>2 DEF TypeOK, Pending
  <1>5. CASE OtherCallFails \/ Break \/ UNCHANGED vars
    <2>1. /\ UNCHANGED <<buffer, call, owed, wnum, record, handshaking, state>>
          /\ broken' \in BOOLEAN
      BY <1>5 DEF OtherCallFails, Break, vars, TypeOK
    <2>2. errors' \in 0 .. MaxErrors
      BY <1>5, SslWriterAssumption DEF OtherCallFails, Break, vars, TypeOK
    <2> QED BY <2>1, <2>2 DEF TypeOK, Pending
  <1> QED BY <1>1, <1>2, <1>3, <1>4, <1>5 DEF Next, Write, SslPrint

(* Every variable of the sending side stays in its range, the record that  *)
(* is pending in its size, also when scripts do not repeat their calls.    *)
THEOREM TypeCorrect == Spec => []TypeOK
  <1>1. Init => TypeOK
    <2> SUFFICES ASSUME Init PROVE TypeOK
      OBVIOUS
    <2>1. \E text \in Texts \cup {<<>>} :
            call.text \in {text, text \o LineEnd}
      BY DEF Init
    <2>2. /\ wnum \in Nat /\ (wnum > 0 => Pending)
          /\ Pending => Len(record.bytes) \in 1 .. MaxRecord
      BY DEF Init, Pending
    <2>3. buffer \in [moves : 0 .. MaxMoves, size : Nat]
      BY SslWriterAssumption DEF Init
    <2>4. call.method \in Methods /\ owed \in BOOLEAN
      BY DEF Init, Methods
    <2>5. handshaking \in BOOLEAN /\ broken \in BOOLEAN
      BY Zenon DEF Init
    <2>6. state \in {"CONNECTED", "ERROR"} /\ errors \in 0 .. MaxErrors
      BY SslWriterAssumption DEF Init
    <2> QED BY <2>1, <2>2, <2>3, <2>4, <2>5, <2>6, Zenon DEF TypeOK
  <1> QED BY <1>1, TypeInductive, PTL DEF Spec
-----------------------------------------------------------------------------
(***************************************************************************)
(* That a repeated write comes to its end.  A call that is owed is kept,   *)
(* and what has gone out of it is not taken back, until all of it has      *)
(* (OwedStep); and between two of its repetitions nothing happens that     *)
(* would stop the next one, but that the connection breaks (Again).        *)
(***************************************************************************)

Kept ==
  /\ owed' /\ reported' = reported
  /\ call'.method = call.method /\ call'.text = call.text
  /\ wnum <= wnum'
Finished ==
  ~owed' /\ reported' = reported \o call.text /\ handed' = reported'

LEMMA OwedCall ==
  ASSUME Repeats, IInv, owed, NEW method, NEW at, NEW text \in Seq(Data),
         text # <<>>, Calls(method, at, text)
  PROVE  Kept \/ Finished
  <1>1. /\ method = call.method /\ text = call.text
        /\ call'.method = method /\ call'.text = text
        /\ SslWrite(at, text)
    BY DEF Calls
  <1>2. wnum \in Nat
    BY DEF IInv
  <1>3. CASE WritesAll(at, text)
    <2>1. IInv'
      BY CallKeeps
    <2>2. owed' = FALSE /\ wnum' = 0 /\ reported' = reported \o text
      BY <1>3 DEF WritesAll
    <2>3. SubSeq(call'.text, 1, 0) = <<>>
      BY SubSeqEmpty
    <2>4. handed' = reported' \o <<>> /\ reported' \in Seq(Data)
      BY <2>1, <2>2, <2>3 DEF IInv
    <2>5. handed' = reported'
      BY <2>4, ConcatEmptySeq
    <2> QED BY <1>1, <2>2, <2>5 DEF Finished
  <1>4. CASE WritesPart(at, text)
    <2>1. PICK p \in Stops(text) : StopAt(at, text, p)
      BY <1>4 DEF WritesPart
    <2>2. wnum' = p /\ wnum <= p
      BY <1>1, <2>1, CallFits, StopsBehindFirst DEF StopAt
    <2>3. owed' /\ reported' = reported
      BY <1>4 DEF WritesPart, NotWritten
    <2> QED BY <1>1, <2>2, <2>3 DEF Kept
  <1>5. CASE Refuses(at, text) \/ HandshakeStops
    <2>1. owed' /\ wnum' = wnum /\ reported' = reported
      BY <1>5 DEF Refuses, HandshakeStops, NotWritten
    <2> QED BY <1>1, <1>2, <2>1 DEF Kept
  <1> QED BY <1>1, <1>3, <1>4, <1>5 DEF SslWrite

(* A step is a call with a text, or one that leaves what is owed alone.    *)
LEMMA CallOrNot ==
  ASSUME [Next]_vars
  PROVE  \/ \E text \in Texts, at \in Scalars :
              Calls("write", <<"scalar", at>>, text)
         \/ \E text \in Texts, at \in Heap :
              Calls("print", <<"heap", at>>, text)
         \/ \E text \in Texts :
              Calls("writeline", <<"buffer", buffer'.moves>>,
                    text \o LineEnd)
         \/ /\ UNCHANGED <<call, owed, wnum, record, handed, reported>>
            /\ broken => broken'
  BY DEF Next, Write, SslPrint, WriteLine, SendNothing, ReadLine,
     OtherCallFails, Break, vars

LEMMA LineTyped ==
  ASSUME NEW text \in Texts
  PROVE  /\ text \in Seq(Data) /\ text # <<>>
         /\ text \o LineEnd \in Seq(Data) /\ text \o LineEnd # <<>>
  <1>1. text \in Seq(Data) /\ text # <<>> /\ LineEnd \in Seq(Data)
    BY SslWriterAssumption
  <1>2. text \o LineEnd \in Seq(Data)
    BY <1>1, ConcatProperties
  <1>3. text \o LineEnd # <<>>
    BY <1>1, ConcatEqualIffEmpty
  <1> QED BY <1>1, <1>2, <1>3

LEMMA OwedStep ==
  ASSUME Repeats, IInv, [Next]_vars, owed
  PROVE  Kept \/ Finished
  <1>1. ASSUME NEW method, NEW at, NEW text \in Seq(Data), text # <<>>,
               Calls(method, at, text)
        PROVE  Kept \/ Finished
    BY <1>1, OwedCall
  <1>2. ASSUME UNCHANGED <<call, owed, wnum, record, handed, reported>>
        PROVE  Kept
    BY <1>2 DEF Kept, IInv
  <1> QED BY <1>1, <1>2, CallOrNot, LineTyped

(* A text that a call has not written whole is neither given up nor        *)
(* started again: every step keeps it and what has gone out of it, or      *)
(* ends with all of it in the kernel, behind what was reported before, and *)
(* reported once, whatever records, handshakes and errors come between.    *)
THEOREM OwedUntilWritten ==
  ASSUME Repeats PROVE Spec => [][owed => Kept \/ Finished]_vars
  <1>1. Init => IInv
    BY Initial
  <1>2. IInv /\ [Next]_vars => IInv'
    BY Inductive
  <1>3. IInv /\ [Next]_vars => [owed => Kept \/ Finished]_vars
    BY OwedStep
  <1> QED BY <1>1, <1>2, <1>3, PTL DEF Spec
-----------------------------------------------------------------------------
WriteOwed == owed /\ call.method = "write"

(* What write( at, text ) needs to finish, once the kernel takes all: the  *)
(* conjuncts of Calls and WritesAll that speak of the state before.        *)
Ready ==
  /\ call.at \in {<<"scalar", at>> : at \in Scalars} /\ call.text \in Texts
  /\ wnum <= Len(call.text)
  /\ Len(handed) + Len(call.text) <= MaxHanded + wnum
  /\ ~broken /\ ~BadRetry(call.at, call.text)

Again ==
  /\ WriteOwed =>
       call.at \in {<<"scalar", at>> : at \in Scalars} /\ call.text \in Texts
  /\ owed => Len(reported) + Len(call.text) <= MaxHanded

(* What has been handed over and not reported is of the owed text.         *)
LEMMA HandedLength ==
  ASSUME IInv
  PROVE  /\ Len(handed) = Len(reported) + wnum
         /\ Len(reported) \in Nat /\ Len(call.text) \in Nat
         /\ wnum \in Nat /\ wnum <= Len(call.text)
  <1>1. /\ reported \in Seq(Data) /\ call.text \in Seq(Data)
        /\ wnum \in 0 .. Len(call.text)
        /\ handed = reported \o SubSeq(call.text, 1, wnum)
    BY DEF IInv
  <1>2. Len(reported) \in Nat /\ Len(call.text) \in Nat /\ wnum \in Nat
        /\ wnum <= Len(call.text)
    BY <1>1, LenProperties
  <1>3. /\ SubSeq(call.text, 1, wnum) \in Seq(Data)
        /\ Len(SubSeq(call.text, 1, wnum)) = wnum
    <2>1. 0 \in Nat /\ 0 <= wnum /\ 0 + 1 = 1 /\ wnum - 0 = wnum
      BY <1>2
    <2> QED BY <1>1, <1>2, <2>1, PieceType
  <1>4. Len(handed) = Len(reported) + wnum
    BY <1>1, <1>3, ConcatProperties
  <1> QED BY <1>2, <1>4

LEMMA AgainCall ==
  ASSUME Repeats, IInv, Again, NEW method, NEW at, NEW text \in Seq(Data),
         text # <<>>, Calls(method, at, text),
         method = "write" =>
           at \in {<<"scalar", a>> : a \in Scalars} /\ text \in Texts
  PROVE  Again'
  <1>1. /\ call'.method = method /\ call'.at = at /\ call'.text = text
        /\ Len(handed) + Len(text) <= MaxHanded + wnum
    BY DEF Calls
  <1>2. ASSUME owed'
        PROVE  Len(reported') + Len(text) <= MaxHanded
    <2>1. reported' = reported
      BY <1>2 DEF Calls, SslWrite, WritesAll, WritesPart, Refuses,
         HandshakeStops, NotWritten
    <2>2. Len(text) \in Nat /\ MaxHanded \in Nat
      BY LenProperties, SslWriterAssumption
    <2> QED BY <1>1, <2>1, <2>2, HandedLength
  <1> QED BY <1>1, <1>2 DEF Again, WriteOwed

LEMMA AgainStep ==
  ASSUME Repeats, IInv, Again, [Next]_vars
  PROVE  Again'
  <1>1. ASSUME NEW text \in Texts, NEW at \in Scalars,
               Calls("write", <<"scalar", at>>, text)
        PROVE  Again'
    BY <1>1, AgainCall, LineTyped
  <1>2. ASSUME NEW text \in Texts, NEW at \in Heap,
               Calls("print", <<"heap", at>>, text)
        PROVE  Again'
    BY <1>2, AgainCall, LineTyped
  <1>3. ASSUME NEW text \in Texts,
               Calls("writeline", <<"buffer", buffer'.moves>>,
                     text \o LineEnd)
        PROVE  Again'
    <2> DEFINE line == text \o LineEnd
    <2>1. line \in Seq(Data) /\ line # <<>>
      BY LineTyped
    <2>2. Calls("writeline", <<"buffer", buffer'.moves>>, line)
      BY <1>3
    <2> HIDE DEF line
    <2> QED BY <2>1, <2>2, AgainCall
  <1>4. ASSUME UNCHANGED <<call, owed, wnum, record, handed, reported>>
        PROVE  Again'
    BY <1>4 DEF Again, WriteOwed
  <1> QED BY <1>1, <1>2, <1>3, <1>4, CallOrNot

LEMMA WriteInvariant == ASSUME Repeats PROVE Spec => [](IInv /\ Again)
  <1>1. Init => IInv /\ Again
    BY Initial DEF Init, Again, WriteOwed
  <1>2. IInv /\ Again /\ [Next]_vars => IInv' /\ Again'
    BY Inductive, AgainStep
  <1> QED BY <1>1, <1>2, PTL DEF Spec

(* While the connection lasts, a write that is owed can be repeated and    *)
(* can finish: nothing a script or the peer does in between, not even on   *)
(* other sockets of the thread, makes the repetition one that is refused.  *)
THEOREM RepeatIsReady ==
  ASSUME Repeats PROVE Spec => [](WriteOwed /\ ~broken => Ready)
  <1>1. IInv /\ Again => (WriteOwed /\ ~broken => Ready)
    BY RepeatNotBad, HandedLength, SslWriterAssumption
    DEF Again, WriteOwed, Ready
  <1> QED BY <1>1, WriteInvariant, PTL

(* A script that repeats a write gets its text written, if the kernel goes *)
(* on taking records (FairSpec).  The second hypothesis is what ENABLED    *)
(* means here: when its conditions hold, Completes can be taken.           *)
THEOREM WritesComplete ==
  ASSUME Repeats
  PROVE  FairSpec /\ [](Ready => ENABLED <<Completes>>_vars)
           => WriteCompletes
  <1> DEFINE P == WriteOwed /\ ~broken
             Q == ~owed \/ broken
             W == WriteOwed
  <1>1. IInv /\ Again /\ P /\ [Next]_vars => P' \/ Q'
    <2>1. IInv /\ P /\ [Next]_vars => Kept \/ Finished
      BY OwedStep DEF WriteOwed
    <2> QED BY <2>1 DEF WriteOwed, Kept, Finished
  <1>2. P /\ <<Completes>>_vars => Q'
    BY DEF Completes
  <1>3. IInv /\ Again => (P => Ready)
    BY RepeatNotBad, HandedLength, SslWriterAssumption
    DEF Again, WriteOwed, Ready
  <1>4. W => P \/ Q
    OBVIOUS
  <1>5. WriteCompletes <=> (W ~> Q)
    BY DEF WriteCompletes, WriteOwed
  <1> HIDE DEF P, Q, W
  <1>6. FairSpec /\ [](Ready => ENABLED <<Completes>>_vars) => (W ~> Q)
    BY <1>1, <1>2, <1>3, <1>4, WriteInvariant, PTL DEF FairSpec, Spec
  <1> QED BY <1>5, <1>6
=============================================================================
