-------------------------- MODULE SslStream_proofs --------------------------
(***************************************************************************)
(* The three queues of an SSL connection's receiving side are one byte     *)
(* stream, for any bytes, record lengths and sequence of calls.            *)
(***************************************************************************)
EXTENDS SslStream, SequenceTheorems, TLAPS

(* A piece of a sequence is one, of the expected length.                   *)
LEMMA PieceType ==
  ASSUME NEW S, NEW s \in Seq(S), NEW a \in Nat, NEW b \in Nat,
         a <= b, b <= Len(s)
  PROVE  /\ SubSeq(s, a + 1, b) \in Seq(S)
         /\ Len(SubSeq(s, a + 1, b)) = b - a
  <1>1. \A i \in a + 1 .. b : s[i] \in S
    BY ElementOfSeq, LenProperties
  <1> QED BY <1>1, SubSeqProperties

(* A piece of a piece.                                                     *)
LEMMA PieceOfPiece ==
  ASSUME NEW S, NEW s \in Seq(S), NEW a \in Nat, NEW b \in Nat,
         a <= b, b <= Len(s), NEW m \in Nat, NEW n \in Nat,
         m <= n, n <= b - a
  PROVE  SubSeq(SubSeq(s, a + 1, b), m + 1, n) = SubSeq(s, a + m + 1, a + n)
  <1> DEFINE p == SubSeq(s, a + 1, b)
  <1>1. p \in Seq(S) /\ Len(p) = b - a
    BY PieceType
  <1>2. \A i \in 1 .. b - a : p[i] = s[a + i]
    <2>1. \A i \in a + 1 .. b : s[i] \in S
      BY ElementOfSeq, LenProperties
    <2> QED BY <2>1, SubSeqProperties, SMT
  <1>3. SubSeq(p, m + 1, n) \in Seq(S) /\ Len(SubSeq(p, m + 1, n)) = n - m
    BY <1>1, PieceType
  <1>4. /\ SubSeq(s, a + m + 1, a + n) \in Seq(S)
        /\ Len(SubSeq(s, a + m + 1, a + n)) = n - m
    BY PieceType, LenProperties
  <1>5. \A i \in 1 .. n - m : SubSeq(p, m + 1, n)[i] = p[m + i]
    <2>1. \A i \in m + 1 .. n : p[i] \in S
      BY <1>1, ElementOfSeq, LenProperties
    <2> QED BY <2>1, SubSeqProperties, SMT
  <1>6. \A i \in 1 .. n - m : SubSeq(s, a + m + 1, a + n)[i] = s[a + m + i]
    <2>1. \A i \in a + m + 1 .. a + n : s[i] \in S
      BY ElementOfSeq, LenProperties
    <2> QED BY <2>1, SubSeqProperties, SMT
  <1>7. \A i \in 1 .. n - m : SubSeq(p, m + 1, n)[i]
                                = SubSeq(s, a + m + 1, a + n)[i]
    BY <1>2, <1>5, <1>6
  <1> HIDE DEF p
  <1>8. SubSeq(p, m + 1, n) = SubSeq(s, a + m + 1, a + n)
    BY <1>3, <1>4, <1>7, SeqEqual
  <1> QED BY <1>8 DEF p
-----------------------------------------------------------------------------

IInv == TypeOK /\ QueuesInOrder

(* The record SSL_read takes from ends behind read.                        *)
LEMMA SourceEndBounds ==
  ASSUME IInv, SslReadable
  PROVE  /\ SourceEnd \in cuts
         /\ SourceEnd \in Nat /\ read < SourceEnd /\ SourceEnd <= Len(sent)
  <1> USE DEF IInv, TypeOK
  <1>0. Len(sent) \in Nat
    BY LenProperties
  <1>1. CASE Pending > 0
    <2>1. recordEnd > 0 /\ recordEnd \in cuts
      BY <1>0, <1>1 DEF Pending, QueuesInOrder
    <2> QED BY <1>0, <1>1, <2>1 DEF SourceEnd, Pending
  <1>2. CASE ~ (Pending > 0)
    <2>1. read \in 0 .. Len(sent) - 1
      BY <1>0, <1>2 DEF Pending, SslReadable, Delivered
    <2>2. \E c \in cuts : c > read /\ \A d \in cuts : d > read => c <= d
      BY <2>1 DEF QueuesInOrder
    <2>3. SourceEnd = CHOOSE c \in cuts :
                        c > read /\ \A d \in cuts : d > read => c <= d
      BY <1>2 DEF SourceEnd
    <2>4. SourceEnd \in cuts /\ SourceEnd > read
      BY <2>2, <2>3, Zenon
    <2> QED BY <1>0, <2>4
  <1> QED BY <1>1, <1>2

(* SSL_read gives the next bytes of one record.                            *)
LEMMA SslReadGives ==
  ASSUME IInv, SslReadable, NEW n \in Nat \ {0}
  PROVE  /\ Len(SslRead(n)) \in 1 .. n
         /\ read + Len(SslRead(n)) <= SourceEnd
         /\ SslRead(n) = SubSeq(sent, read + 1, read + Len(SslRead(n)))
         /\ SslRead(n) \in Seq(Data)
  <1> USE DEF IInv, TypeOK
  <1>0. Len(sent) \in Nat
    BY LenProperties
  <1>1. /\ SourceEnd \in Nat /\ read < SourceEnd /\ SourceEnd <= Len(sent)
    BY SourceEndBounds
  <1> DEFINE e == Lesser(read + n, SourceEnd)
  <1>2. e \in Nat /\ read < e /\ e <= SourceEnd /\ e <= read + n
    BY <1>0, <1>1 DEF Lesser
  <1>3. SslRead(n) = SubSeq(sent, read + 1, e)
    BY DEF SslRead
  <1>4. SslRead(n) \in Seq(Data) /\ Len(SslRead(n)) = e - read
    BY SMTT(60), <1>0, <1>1, <1>2, <1>3, PieceType
  <1>5. read + Len(SslRead(n)) = e
    BY <1>2, <1>4
  <1>6. SslRead(n) = SubSeq(sent, read + 1, read + Len(SslRead(n)))
    BY <1>3, <1>5
  <1>7. Len(SslRead(n)) \in 1 .. n /\ read + Len(SslRead(n)) <= SourceEnd
    BY <1>2, <1>4, <1>5
  <1> QED BY <1>4, <1>6, <1>7

(* What a take leaves in rcvbuf.                                           *)
Rest(len) == SubSeq(rcvbuf, Len(FromBuffer(len)) + 1, Len(rcvbuf))

(* What a call copies from rcvbuf are the next bytes, and what it leaves   *)
(* there are those behind them.                                            *)
LEMMA BufferGives ==
  ASSUME IInv, NEW len \in Nat \ {0}
  PROVE  /\ Len(FromBuffer(len)) \in 0 .. len
         /\ Len(FromBuffer(len)) <= Len(rcvbuf)
         /\ Len(FromBuffer(len)) < len => Len(FromBuffer(len)) = Len(rcvbuf)
         /\ rcvbuf # <<>> => Len(FromBuffer(len)) > 0
         /\ FromBuffer(len) \in Seq(Data)
         /\ FromBuffer(len)
              = SubSeq(sent, Taken + 1, Taken + Len(FromBuffer(len)))
         /\ Rest(len) \in Seq(Data)
         /\ Rest(len)
              = SubSeq(sent, Taken + Len(FromBuffer(len)) + 1, read)
         /\ Len(Rest(len))
              = Len(rcvbuf) - Len(FromBuffer(len))
  <1> USE DEF IInv, TypeOK
  <1> DEFINE e == Lesser(Len(rcvbuf), len)
  <1>0. Len(sent) \in Nat /\ Len(rcvbuf) \in Nat
    BY LenProperties
  <1>1. e \in 0 .. len /\ e <= Len(rcvbuf) /\ (e < len => e = Len(rcvbuf))
        /\ (Len(rcvbuf) > 0 => e > 0)
    BY <1>0 DEF Lesser
  <1>2. FromBuffer(len) = SubSeq(rcvbuf, 0 + 1, e)
    BY DEF FromBuffer
  <1>3. FromBuffer(len) \in Seq(Data) /\ Len(FromBuffer(len)) = e - 0
    BY <1>0, <1>1, <1>2, PieceType
  <1>4. Len(FromBuffer(len)) = e
    BY <1>1, <1>3
  <1>5. Rest(len) = SubSeq(rcvbuf, e + 1, Len(rcvbuf))
    BY <1>4 DEF Rest
  <1> HIDE DEF e
  <1>6. /\ Rest(len) \in Seq(Data)
        /\ Len(Rest(len)) = Len(rcvbuf) - e
    <2>1. e \in Nat /\ e <= Len(rcvbuf) /\ rcvbuf \in Seq(Data)
      BY <1>0, <1>1
    <2>2. /\ SubSeq(rcvbuf, e + 1, Len(rcvbuf)) \in Seq(Data)
          /\ Len(SubSeq(rcvbuf, e + 1, Len(rcvbuf))) = Len(rcvbuf) - e
      <3> DEFINE n == Len(rcvbuf)
      <3>1. n \in Nat /\ n <= Len(rcvbuf) /\ e <= n
        BY <1>0, <2>1
      <3> HIDE DEF n
      <3>2. /\ SubSeq(rcvbuf, e + 1, n) \in Seq(Data)
            /\ Len(SubSeq(rcvbuf, e + 1, n)) = n - e
        BY <2>1, <3>1, PieceType
      <3> QED BY <3>2 DEF n
    <2> QED BY <1>5, <2>2
  <1>7. /\ Taken \in Nat /\ Taken + Len(rcvbuf) = read /\ Taken <= read
        /\ read <= Len(sent) /\ rcvbuf = SubSeq(sent, Taken + 1, read)
    BY <1>0 DEF Taken, QueuesInOrder
  <1>8. FromBuffer(len) = SubSeq(sent, Taken + 1, Taken + e)
    <2>1. SubSeq(SubSeq(sent, Taken + 1, read), 0 + 1, e)
            = SubSeq(sent, Taken + 0 + 1, Taken + e)
      BY <1>0, <1>1, <1>7, PieceOfPiece
    <2>2. Taken + 0 + 1 = Taken + 1
      BY <1>7
    <2> QED BY <1>2, <1>7, <2>1, <2>2
  <1>9. Rest(len) = SubSeq(sent, Taken + e + 1, read)
    <2> DEFINE n == Len(rcvbuf)
    <2>1. n \in Nat /\ n <= read - Taken /\ e <= n /\ e \in Nat
      BY <1>0, <1>1, <1>7
    <2> HIDE DEF n
    <2>2. SubSeq(SubSeq(sent, Taken + 1, read), e + 1, n)
            = SubSeq(sent, Taken + e + 1, Taken + n)
      BY <1>7, <2>1, PieceOfPiece
    <2>3. Taken + n = read
      BY <1>7 DEF n
    <2> QED BY <1>5, <1>7, <2>2, <2>3 DEF n
  <1>10. rcvbuf # <<>> => Len(rcvbuf) > 0
    BY EmptySeq
  <1>11. /\ FromBuffer(len)
               = SubSeq(sent, Taken + 1, Taken + Len(FromBuffer(len)))
         /\ Rest(len)
               = SubSeq(sent, Taken + Len(FromBuffer(len)) + 1, read)
    BY <1>4, <1>8, <1>9
  <1>12. /\ Len(FromBuffer(len)) \in 0 .. len
         /\ Len(FromBuffer(len)) <= Len(rcvbuf)
         /\ Len(FromBuffer(len)) < len => Len(FromBuffer(len)) = Len(rcvbuf)
         /\ rcvbuf # <<>> => Len(FromBuffer(len)) > 0
    BY <1>0, <1>1, <1>4, <1>10
  <1> QED BY <1>3, <1>4, <1>6, <1>11, <1>12
-----------------------------------------------------------------------------
(* What a recv must do to the queues, whichever of them it uses: it gives  *)
(* the next n bytes, and keeps the queues in order.                        *)
Gives(isPeek, n) ==
  /\ n \in Nat /\ Taken + n <= Len(sent)
  /\ res'.bytes \in Seq(Data) /\ Len(res'.bytes) = n
  /\ res'.bytes = SubSeq(sent, Taken + 1, Taken + n)
  /\ Taken' = IF isPeek THEN Taken ELSE Taken + n
Keeps ==
  /\ read' \in Nat /\ recordEnd' \in Nat
  /\ read' <= recordEnd' /\ recordEnd' <= Len(sent)
  /\ recordEnd' \in cuts \cup {0}
  /\ rcvbuf' \in Seq(Data) /\ Len(rcvbuf') <= read'
  /\ rcvbuf' = SubSeq(sent, Taken' + 1, read')

LEMMA KeepsInOrder ==
  ASSUME IInv, UNCHANGED peer, Keeps,
         partial' \in {"none", "kernel", "inside"},
         state' \in {"CONNECTED", "CLOSED", "ERROR"},
         errors' \in 0 .. MaxErrors,
         res' \in [method : Methods, ok : BOOLEAN, bytes : Seq(Data), n : Nat]
  PROVE  IInv'
  <1>0. Len(sent) \in Nat
    BY LenProperties DEF IInv, TypeOK
  <1>1. TypeOK'
    BY SMTT(60), <1>0 DEF IInv, TypeOK, Keeps, peer
  <1>2. QueuesInOrder'
    BY DEF IInv, QueuesInOrder, Keeps, peer
  <1> QED BY <1>1, <1>2 DEF IInv

(* What BufferGives says of the two halves of rcvbuf, as sums.             *)
LEMMA TakenBounds ==
  ASSUME IInv
  PROVE  /\ Len(sent) \in Nat /\ Len(rcvbuf) \in Nat /\ read \in Nat
         /\ recordEnd \in Nat /\ read <= recordEnd /\ recordEnd <= Len(sent)
         /\ Taken \in Nat /\ Taken + Len(rcvbuf) = read
         /\ rcvbuf = SubSeq(sent, Taken + 1, read) /\ rcvbuf \in Seq(Data)
         /\ recordEnd \in cuts \cup {0}
  <1>1. Len(sent) \in Nat /\ Len(rcvbuf) \in Nat
    BY LenProperties DEF IInv, TypeOK
  <1> QED BY <1>1 DEF IInv, TypeOK, QueuesInOrder, Taken

LEMMA RecvBufferedGives ==
  ASSUME IInv, NEW len \in Nat \ {0}, NEW isPeek \in BOOLEAN,
         RecvBuffered(len, isPeek), UNCHANGED sent
  PROVE  Keeps /\ \E n \in Nat \ {0} : Gives(isPeek, n)
  <1> DEFINE k == Len(FromBuffer(len))
  <1>1. /\ k \in Nat \ {0} /\ k <= Len(rcvbuf)
        /\ FromBuffer(len) \in Seq(Data)
        /\ FromBuffer(len) = SubSeq(sent, Taken + 1, Taken + k)
        /\ Rest(len) \in Seq(Data)
        /\ Rest(len) = SubSeq(sent, Taken + k + 1, read)
        /\ Len(Rest(len)) = Len(rcvbuf) - k
    <2>1. rcvbuf # <<>>
      BY DEF RecvBuffered, BufferSuffices
    <2>2. Len(FromBuffer(len)) \in 0 .. len /\ Len(FromBuffer(len)) > 0
      BY <2>1, BufferGives
    <2>3. k \in Nat \ {0}
      BY <2>2
    <2>4. k <= Len(rcvbuf) /\ FromBuffer(len) \in Seq(Data)
          /\ FromBuffer(len) = SubSeq(sent, Taken + 1, Taken + k)
      BY BufferGives
    <2>5. Rest(len) \in Seq(Data)
          /\ Rest(len) = SubSeq(sent, Taken + k + 1, read)
          /\ Len(Rest(len)) = Len(rcvbuf) - k
      BY BufferGives
    <2> QED BY <2>3, <2>4, <2>5
  <1>2. /\ Len(sent) \in Nat /\ Len(rcvbuf) \in Nat /\ read \in Nat
        /\ recordEnd \in Nat /\ read <= recordEnd /\ recordEnd <= Len(sent)
        /\ Taken \in Nat /\ Taken + Len(rcvbuf) = read
        /\ rcvbuf = SubSeq(sent, Taken + 1, read) /\ rcvbuf \in Seq(Data)
        /\ recordEnd \in cuts \cup {0}
    BY TakenBounds
  <1>3. /\ read' = read /\ recordEnd' = recordEnd
        /\ rcvbuf' = LeftInBuffer(len, isPeek)
        /\ res'.bytes = FromBuffer(len)
    BY DEF RecvBuffered, Answer, Result
  <1> HIDE DEF k
  <1>4. CASE isPeek
    <2>1. rcvbuf' = rcvbuf /\ Taken' = Taken
      BY <1>3, <1>4 DEF LeftInBuffer, Taken
    <2>2. Keeps
      BY <1>2, <1>3, <2>1 DEF Keeps
    <2>3. Gives(isPeek, k)
      BY <1>1, <1>2, <1>3, <1>4, <2>1 DEF Gives, k
    <2> QED BY <1>1, <2>2, <2>3
  <1>5. CASE ~isPeek
    <2>1. rcvbuf' = Rest(len)
          /\ Len(rcvbuf') = Len(rcvbuf) - k
      <3>1. rcvbuf' = Rest(len)
        BY <1>3, <1>5 DEF LeftInBuffer, Rest
      <3> QED BY <1>1, <3>1
    <2>2. Taken' = Taken + k
      <3>1. Len(rcvbuf') = Len(rcvbuf) - k /\ read' = read
        BY <1>3, <2>1
      <3>2. Taken' = read' - Len(rcvbuf')
        BY DEF Taken
      <3> QED BY <1>1, <1>2, <3>1, <3>2
    <2>3. Keeps
      <3>1. Len(rcvbuf') <= read'
        <4>1. k \in Nat /\ read' = read /\ Len(rcvbuf') = Len(rcvbuf) - k
          BY <1>1, <1>3, <2>1
        <4> QED BY <1>2, <4>1
      <3>2. rcvbuf' = SubSeq(sent, Taken' + 1, read') /\ rcvbuf' \in Seq(Data)
        BY <1>1, <1>3, <2>1, <2>2
      <3> QED BY <1>2, <1>3, <3>1, <3>2 DEF Keeps
    <2>4. Gives(isPeek, k)
      BY <1>1, <1>2, <1>3, <1>5, <2>2 DEF Gives, k
    <2> QED BY <1>1, <2>3, <2>4
  <1> QED BY <1>4, <1>5

LEMMA RecvReadGives ==
  ASSUME IInv, NEW len \in Nat \ {0}, NEW isPeek \in BOOLEAN,
         RecvRead(len, isPeek), UNCHANGED sent
  PROVE  Keeps /\ \E n \in Nat \ {0} : Gives(isPeek, n)
  <1> DEFINE k == Len(FromBuffer(len))
             bytes == SslRead(Wanted(len))
             b == Len(bytes)
  <1>1. /\ k \in 0 .. len /\ k <= Len(rcvbuf)
        /\ FromBuffer(len) \in Seq(Data)
        /\ FromBuffer(len) = SubSeq(sent, Taken + 1, Taken + k)
        /\ Rest(len) \in Seq(Data)
        /\ Rest(len) = SubSeq(sent, Taken + k + 1, read)
        /\ Len(Rest(len)) = Len(rcvbuf) - k
        /\ k < len => k = Len(rcvbuf)
    BY BufferGives
  <1>2. /\ Len(sent) \in Nat /\ Len(rcvbuf) \in Nat /\ read \in Nat
        /\ recordEnd \in Nat /\ read <= recordEnd /\ recordEnd <= Len(sent)
        /\ Taken \in Nat /\ Taken + Len(rcvbuf) = read
        /\ rcvbuf = SubSeq(sent, Taken + 1, read) /\ rcvbuf \in Seq(Data)
    BY TakenBounds
  <1>3. k < len
    <2>1. k = len => rcvbuf # <<>>
      BY <1>1, EmptySeq
    <2>2. k = len => Wanted(len) = 0
      BY <1>1 DEF Wanted
    <2> QED BY <1>1, <2>1, <2>2 DEF RecvRead, BufferSuffices
  <1>4. Wanted(len) \in Nat \ {0}
    BY <1>1, <1>3 DEF Wanted
  <1>5. /\ b \in Nat \ {0} /\ read + b <= SourceEnd
        /\ bytes = SubSeq(sent, read + 1, read + b) /\ bytes \in Seq(Data)
    <2>1. SslReadable
      BY DEF RecvRead
    <2>2. /\ Len(bytes) \in 1 .. Wanted(len)
          /\ read + Len(bytes) <= SourceEnd
          /\ bytes = SubSeq(sent, read + 1, read + Len(bytes))
          /\ bytes \in Seq(Data)
      BY <1>4, <2>1, SslReadGives
    <2> QED BY <1>4, <2>2
  <1>6. SourceEnd \in cuts /\ SourceEnd \in Nat /\ SourceEnd <= Len(sent)
    BY SourceEndBounds DEF RecvRead
  <1>7. /\ read' = read + b /\ recordEnd' = SourceEnd
        /\ rcvbuf' = AfterRead(len, isPeek, bytes)
        /\ res'.bytes = FromBuffer(len) \o bytes
    BY DEF RecvRead, Consume, Answer, Result
  <1> HIDE DEF k, bytes, b
  <1>8. k = Len(rcvbuf) /\ FromBuffer(len) = rcvbuf
    BY <1>1, <1>2, <1>3
  <1>9. /\ rcvbuf \o bytes = SubSeq(sent, Taken + 1, read + b)
        /\ rcvbuf \o bytes \in Seq(Data)
        /\ Len(rcvbuf \o bytes) = k + b
    <2>1. read + b \in Nat /\ read + b <= Len(sent) /\ Taken <= read
      BY <1>2, <1>5, <1>6
    <2>2. SubSeq(sent, Taken + 1, read) \o SubSeq(sent, read + 1, read + b)
            = SubSeq(sent, Taken + 1, read + b)
      <3> DEFINE c == read + b
      <3>1. sent \in Seq(Data) /\ c \in Nat /\ read <= c /\ c <= Len(sent)
        BY <1>2, <1>5, <2>1 DEF IInv, TypeOK
      <3> HIDE DEF c
      <3>2. SubSeq(sent, Taken + 1, read) \o SubSeq(sent, read + 1, c)
              = SubSeq(sent, Taken + 1, c)
        BY <1>2, <2>1, <3>1, ConcatAdjacentSubSeq
      <3> QED BY <3>2 DEF c
    <2>3. /\ rcvbuf \o bytes \in Seq(Data)
          /\ Len(rcvbuf \o bytes) = Len(rcvbuf) + Len(bytes)
      <3>1. rcvbuf \in Seq(Data) /\ bytes \in Seq(Data)
        BY <1>2, <1>5
      <3> QED BY ZenonT(30), <3>1, ConcatProperties
    <2> QED BY <1>2, <1>5, <1>8, <2>2, <2>3 DEF b
  <1>10. Taken + (k + b) = read + b /\ k + b \in Nat \ {0}
         /\ read + b <= Len(sent)
    BY <1>1, <1>2, <1>5, <1>6, <1>8
  <1>11. CASE isPeek
    <2>1. rcvbuf' = rcvbuf \o bytes
      BY <1>7, <1>11 DEF AfterRead
    <2>2. Taken' = Taken
      <3>1. Len(rcvbuf') = k + b /\ read' = read + b
        BY <1>7, <1>9, <2>1
      <3>2. Taken' = read' - Len(rcvbuf')
        BY DEF Taken
      <3> QED BY <1>2, <1>5, <1>8, <3>1, <3>2
    <2>3. Keeps
      <3>1. Len(rcvbuf') <= read' /\ read' \in Nat
        BY <1>2, <1>5, <1>7, <1>8, <1>9, <2>1
      <3>2. rcvbuf' = SubSeq(sent, Taken' + 1, read') /\ rcvbuf' \in Seq(Data)
        BY <1>7, <1>9, <2>1, <2>2
      <3> QED BY <1>5, <1>6, <1>7, <3>1, <3>2 DEF Keeps
    <2>4. Gives(isPeek, k + b)
      BY <1>7, <1>8, <1>9, <1>10, <1>11, <2>2 DEF Gives
    <2> QED BY <1>10, <2>3, <2>4
  <1>12. CASE ~isPeek
    <2>1. rcvbuf' = Rest(len) /\ Len(rcvbuf') = 0
      <3>1. rcvbuf' = Rest(len)
        BY <1>7, <1>12 DEF AfterRead, LeftInBuffer, Rest
      <3>2. Len(Rest(len)) = 0
        <4>1. Len(Rest(len)) = Len(rcvbuf) - k
          BY <1>1
        <4> QED BY <1>2, <1>8, <4>1
      <3> QED BY <3>1, <3>2
    <2>2. Taken' = read + b
      <3>1. Taken' = read' - Len(rcvbuf')
        BY DEF Taken
      <3> QED BY <1>2, <1>5, <1>7, <2>1, <3>1
    <2>3. rcvbuf' = SubSeq(sent, Taken' + 1, read')
      <3>1. rcvbuf' = <<>>
        BY <1>1, <2>1, EmptySeq
      <3>2. SubSeq(sent, Taken' + 1, read') = <<>>
        BY <1>2, <1>5, <1>7, <2>2, SubSeqEmpty
      <3> QED BY <3>1, <3>2
    <2>4. Keeps
      <3>1. Len(rcvbuf') <= read' /\ read' \in Nat
        BY <1>2, <1>5, <1>7, <2>1
      <3>2. rcvbuf' \in Seq(Data)
        BY <1>1, <2>1
      <3> QED BY <1>5, <1>6, <1>7, <2>3, <3>1, <3>2 DEF Keeps
    <2>5. Gives(isPeek, k + b)
      BY <1>7, <1>8, <1>9, <1>10, <1>12, <2>2 DEF Gives
    <2> QED BY <1>10, <2>4, <2>5
  <1> QED BY <1>11, <1>12

(* Without a byte from OpenSSL, rcvbuf is empty and stays empty.           *)
LEMMA RecvNothingGives ==
  ASSUME IInv, NEW len \in Nat \ {0}, NEW isPeek \in BOOLEAN,
         ~BufferSuffices(len), ~SslReadable
  PROVE  /\ rcvbuf = <<>> /\ FromBuffer(len) = <<>>
         /\ LeftInBuffer(len, isPeek) = <<>>
  <1>1. /\ FromBuffer(len) \in Seq(Data) /\ Len(FromBuffer(len)) \in Nat
        /\ Len(FromBuffer(len)) <= Len(rcvbuf)
        /\ Rest(len) \in Seq(Data)
        /\ Len(Rest(len))
             = Len(rcvbuf) - Len(FromBuffer(len))
    <2>1. Len(FromBuffer(len)) \in 0 .. len
      BY BufferGives
    <2> QED BY <2>1, BufferGives
  <1>2. Pending = 0
    BY TakenBounds DEF SslReadable, Pending
  <1>3. rcvbuf = <<>>
    BY <1>2 DEF BufferSuffices
  <1>4. Len(rcvbuf) = 0
    BY <1>3
  <1>5. FromBuffer(len) = <<>> /\ Rest(len) = <<>>
    <2>1. Len(FromBuffer(len)) = 0 /\ Len(Rest(len)) = 0
      <3>1. Len(FromBuffer(len)) = 0
        BY <1>1, <1>4
      <3>2. Len(Rest(len)) = 0 - 0
        BY <1>1, <1>4, <3>1
      <3> QED BY <3>1, <3>2
    <2> QED BY <1>1, <2>1, EmptySeq
  <1> QED BY <1>3, <1>5 DEF LeftInBuffer, Rest
-----------------------------------------------------------------------------
(* Every outcome of recv.                                                  *)
LEMMA RecvGives ==
  ASSUME IInv, NEW len \in Nat \ {0}, NEW isPeek \in BOOLEAN,
         Recv(len, isPeek)
  PROVE  /\ IInv'
         /\ \E n \in Nat : Gives(isPeek, n)
         /\ res'.bytes = <<>> => rcvbuf = <<>> /\ ~SslReadable
  <1>1. len \in Nat \ {0}
    OBVIOUS
  <1>2. UNCHANGED peer /\ UNCHANGED sent
    BY DEF Recv, peer
  <1>3. ASSUME Keeps, NEW n \in Nat \ {0}, Gives(isPeek, n),
               UNCHANGED <<state, errors>>,
               partial' \in {"none", "kernel", "inside"},
               Answer(isPeek, res'.bytes)
        PROVE  IInv' /\ res'.bytes # <<>>
    <2>1. res'.bytes \in Seq(Data) /\ Len(res'.bytes) = n
      BY <1>3 DEF Gives
    <2>2. res' \in [method : Methods, ok : BOOLEAN, bytes : Seq(Data), n : Nat]
      <3> DEFINE given == res'.bytes
      <3>1. given \in Seq(Data) /\ Len(given) \in Nat
        BY <2>1
      <3>2. res' = Result(Method(isPeek), TRUE, given, Len(given))
        BY <1>3 DEF Answer
      <3> HIDE DEF given
      <3> QED BY <3>1, <3>2 DEF Result, Method, Methods
    <2>3. IInv'
      BY <1>2, <1>3, <2>2, KeepsInOrder DEF IInv, TypeOK
    <2> QED BY <2>1, <2>3
  <1>4. CASE RecvBuffered(len, isPeek)
    <2>1. Keeps
      BY <1>1, <1>2, <1>4, RecvBufferedGives
    <2>2. PICK n \in Nat \ {0} : Gives(isPeek, n)
      BY <1>1, <1>2, <1>4, RecvBufferedGives
    <2>3. UNCHANGED <<state, errors>> /\ Answer(isPeek, res'.bytes)
          /\ partial' \in {"none", "kernel", "inside"}
      BY <1>4 DEF RecvBuffered, Answer, Result, IInv, TypeOK
    <2> QED BY <1>3, <2>1, <2>2, <2>3
  <1>5. CASE RecvRead(len, isPeek)
    <2>1. Keeps
      BY <1>1, <1>2, <1>5, RecvReadGives
    <2>2. PICK n \in Nat \ {0} : Gives(isPeek, n)
      BY <1>1, <1>2, <1>5, RecvReadGives
    <2>3. UNCHANGED <<state, errors>> /\ Answer(isPeek, res'.bytes)
          /\ partial' \in {"none", "kernel", "inside"}
      BY <1>5 DEF RecvRead, Consume, Answer, Result, IInv, TypeOK
    <2> QED BY <1>3, <2>1, <2>2, <2>3
  <1>6. CASE RecvWouldBlock(len, isPeek) \/ RecvFails(len, isPeek)
    <2>1. ~BufferSuffices(len) /\ ~SslReadable
      BY <1>6 DEF RecvWouldBlock, RecvFails
    <2>2. /\ rcvbuf = <<>> /\ FromBuffer(len) = <<>>
          /\ LeftInBuffer(len, isPeek) = <<>>
      BY <1>1, <2>1, RecvNothingGives
    <2>3. /\ rcvbuf' = <<>> /\ SslStarve
          /\ state' \in {state, "ERROR"} /\ errors' \in 0 .. errors
      <3>1. errors \in Nat
        BY SslStreamAssumption DEF IInv, TypeOK
      <3>2. CASE RecvWouldBlock(len, isPeek)
        BY <2>2, <3>1, <3>2 DEF RecvWouldBlock
      <3>3. CASE RecvFails(len, isPeek)
        BY <2>2, <3>1, <3>3 DEF RecvFails
      <3> QED BY <1>6, <3>2, <3>3
    <2>4. PICK ok \in BOOLEAN : res' = Result(Method(isPeek), ok, <<>>, 0)
      <3>1. Len(<<>>) = 0
        OBVIOUS
      <3>2. CASE RecvWouldBlock(len, isPeek)
        <4>1. res' = Result(Method(isPeek), TRUE, <<>>, Len(<<>>))
          BY <2>2, <3>2 DEF RecvWouldBlock, Answer
        <4> QED BY <3>1, <4>1
      <3>3. CASE RecvFails(len, isPeek)
        BY <3>3 DEF RecvFails
      <3> QED BY <1>6, <3>2, <3>3
    <2>5. rcvbuf' = <<>> /\ SslStarve /\ res'.bytes = <<>>
      BY <2>3, <2>4 DEF Result
    <2>6. /\ Taken \in Nat /\ Len(sent) \in Nat /\ Taken <= Len(sent)
          /\ Taken' = Taken /\ read' = read /\ Taken = read
      <3>1. Len(rcvbuf) = 0 /\ Len(rcvbuf') = 0
        BY <2>2, <2>5
      <3>2. Taken' = read' - Len(rcvbuf')
        BY DEF Taken
      <3> QED BY <2>5, <3>1, <3>2, TakenBounds DEF SslStarve
    <2>7. Gives(isPeek, 0)
      <3>1. SubSeq(sent, Taken + 1, Taken + 0) = <<>>
        BY <2>6, SubSeqEmpty
      <3> QED BY <2>5, <2>6, <3>1, EmptySeq DEF Gives
    <2>8. Keeps
      <3>1. SubSeq(sent, Taken' + 1, read') = <<>>
        BY <2>6, SubSeqEmpty
      <3>2. /\ rcvbuf' \in Seq(Data) /\ Len(rcvbuf') = 0
            /\ rcvbuf' = SubSeq(sent, Taken' + 1, read')
        BY <2>5, <3>1, EmptySeq
      <3>3. recordEnd' = recordEnd /\ read' = read
        BY <2>5 DEF SslStarve
      <3>4. /\ read \in Nat /\ recordEnd \in Nat
            /\ read <= recordEnd /\ recordEnd <= Len(sent)
            /\ recordEnd \in cuts \cup {0}
        BY TakenBounds
      <3> QED BY <3>2, <3>3, <3>4 DEF Keeps
    <2>9. res' \in [method : Methods, ok : BOOLEAN, bytes : Seq(Data), n : Nat]
      <3>1. <<>> \in Seq(Data) /\ 0 \in Nat
        BY EmptySeq
      <3> QED BY <2>4, <3>1 DEF Result, Method, Methods
    <2>10. /\ partial' \in {"none", "kernel", "inside"}
          /\ state' \in {"CONNECTED", "CLOSED", "ERROR"}
          /\ errors' \in 0 .. MaxErrors
      BY <2>3, SslStreamAssumption DEF SslStarve, IInv, TypeOK
    <2>11. IInv'
      BY <1>2, <2>8, <2>9, <2>10, KeepsInOrder
    <2> QED BY <2>1, <2>2, <2>7, <2>11
  <1> QED BY <1>4, <1>5, <1>6 DEF Recv

(* A new record goes behind what is there.                                 *)
LEMMA RecordBehind ==
  ASSUME IInv, RecordArrives
  PROVE  IInv' /\ Stream!Arrive
  <1>1. PICK n \in 1 .. MaxSent - Len(sent) :
          \E bytes \in [1 .. n -> Data] : sent' = sent \o bytes
    BY DEF RecordArrives
  <1>2. PICK bytes \in [1 .. n -> Data] : sent' = sent \o bytes
    BY <1>1
  <1>3. bytes \in Seq(Data) /\ Len(bytes) = n
    BY <1>2
  <1>4. /\ Len(sent) \in Nat /\ Len(rcvbuf) \in Nat /\ read \in Nat
        /\ recordEnd \in Nat /\ read <= recordEnd /\ recordEnd <= Len(sent)
        /\ Taken \in Nat /\ Taken + Len(rcvbuf) = read
        /\ rcvbuf = SubSeq(sent, Taken + 1, read) /\ rcvbuf \in Seq(Data)
        /\ recordEnd \in cuts \cup {0}
    BY TakenBounds
  <1>5. /\ sent' \in Seq(Data) /\ Len(sent') = Len(sent) + n
        /\ Len(sent') \in Nat /\ Len(sent) < Len(sent')
        /\ Len(sent') <= MaxSent
    <2>1. sent' \in Seq(Data) /\ Len(sent') = Len(sent) + Len(bytes)
      BY <1>2, <1>3, ConcatProperties DEF IInv, TypeOK
    <2> QED BY <1>3, <1>4, <2>1, SslStreamAssumption
  <1>6. /\ UNCHANGED <<ended, read, recordEnd, rcvbuf, state,
                       errors, res>>
        /\ cuts' = cuts \cup {Len(sent')} /\ partial' = "none"
        /\ Taken' = Taken
    BY DEF RecordArrives, Taken
  <1>7. \A a \in Nat, b \in Nat : b <= Len(sent)
          => SubSeq(sent', a + 1, b) = SubSeq(sent, a + 1, b)
    <2> SUFFICES ASSUME NEW a \in Nat, NEW b \in Nat, b <= Len(sent)
                 PROVE  SubSeq(sent', a + 1, b) = SubSeq(sent, a + 1, b)
      OBVIOUS
    <2>1. CASE a + 1 <= b
      <3>1. a + 1 \in 1 .. Len(sent) /\ b \in 1 .. Len(sent)
        BY <1>4, <2>1
      <3> QED BY <1>2, <1>3, <3>1, SubSeqOfConcat1 DEF IInv, TypeOK
    <2>2. CASE b < a + 1
      BY <2>2, SubSeqEmpty
    <2> QED BY <2>1, <2>2
  <1>8. TypeOK'
    <2>1. cuts' \subseteq 1 .. Len(sent')
      <3>1. cuts \subseteq 1 .. Len(sent)
        BY DEF IInv, TypeOK
      <3>2. /\ Len(sent') \in 1 .. Len(sent')
            /\ 1 .. Len(sent) \subseteq 1 .. Len(sent')
        BY <1>4, <1>5
      <3> QED BY <1>6, <3>1, <3>2
    <2>2. read' \in 0 .. Len(sent') /\ recordEnd' \in read' .. Len(sent')
      BY <1>4, <1>5, <1>6
    <2> QED BY <1>5, <1>6, <2>1, <2>2 DEF IInv, TypeOK
  <1>9. QueuesInOrder'
    <2>1. rcvbuf = SubSeq(sent', Taken + 1, read)
      <3>1. Taken \in Nat /\ read \in Nat /\ read <= Len(sent)
        BY <1>4
      <3>2. SubSeq(sent', Taken + 1, read) = SubSeq(sent, Taken + 1, read)
        BY <1>7, <3>1, Zenon
      <3> QED BY <1>4, <3>2
    <2>2. ASSUME NEW p \in 0 .. Len(sent') - 1
          PROVE  \E c \in cuts' : c > p /\ \A d \in cuts' : d > p => c <= d
      <3>1. cuts \subseteq 1 .. Len(sent)
        BY DEF IInv, TypeOK
      <3>2. CASE p \in 0 .. Len(sent) - 1
        <4>1. PICK c \in cuts : c > p /\ \A d \in cuts : d > p => c <= d
          BY <3>2 DEF IInv, QueuesInOrder
        <4>2. c <= Len(sent')
          BY <1>4, <1>5, <3>1, <4>1
        <4> QED BY <1>6, <4>1, <4>2
      <3>3. CASE p >= Len(sent)
        <4>1. \A d \in cuts : ~(d > p)
          BY <1>4, <3>1, <3>3
        <4>2. Len(sent') > p /\ Len(sent') <= Len(sent')
          BY <1>5
        <4> QED BY <1>6, <4>1, <4>2
      <3> QED BY <1>4, <1>5, <3>2, <3>3
    <2> QED BY <1>4, <1>6, <2>1, <2>2 DEF QueuesInOrder
  <1>10. SubSeq(sent', 1, Len(sent)) = sent
    <2>1. SubSeq(sent', 0 + 1, Len(sent)) = SubSeq(sent, 0 + 1, Len(sent))
      <3>1. 0 \in Nat /\ Len(sent) \in Nat /\ Len(sent) <= Len(sent)
        BY <1>4
      <3> QED BY <1>7, <3>1, Zenon
    <2> QED BY <2>1, SubSeqFull DEF IInv, TypeOK
  <1>11. Stream!Arrive
    BY <1>4, <1>5, <1>6, <1>10 DEF Stream!Arrive
  <1> QED BY <1>8, <1>9, <1>11 DEF IInv
(* What was there stays where it is.                                       *)
LEMMA RecordExtends ==
  ASSUME IInv, RecordArrives
  PROVE  /\ Len(sent) <= Len(sent')
         /\ \A k \in 1 .. Len(sent) : sent'[k] = sent[k]
  <1>1. PICK n \in 1 .. MaxSent - Len(sent) :
          \E bytes \in [1 .. n -> Data] : sent' = sent \o bytes
    BY DEF RecordArrives
  <1>2. PICK bytes \in [1 .. n -> Data] : sent' = sent \o bytes
    BY <1>1
  <1>3. /\ bytes \in Seq(Data) /\ sent \in Seq(Data) /\ Len(sent) \in Nat
        /\ Len(bytes) \in Nat
    BY <1>2, LenProperties DEF IInv, TypeOK
  <1> QED BY <1>2, <1>3, ConcatProperties
-----------------------------------------------------------------------------
(* What a peek shows, and what a take gives.                               *)

(* A peek that shows less than it was asked for has shown all that rcvbuf  *)
(* and the record at hand have.                                            *)
LEMMA PeekShows ==
  ASSUME IInv, NEW len \in Nat \ {0}, Recv(len, TRUE)
  PROVE  LET shown == Len(res'.bytes)
         IN /\ shown \in 0 .. len
            /\ shown <= Len(rcvbuf')
            /\ 0 < shown /\ shown < len =>
                 Len(rcvbuf') = shown /\ Pending' = 0
  <1> DEFINE k == Len(FromBuffer(len))
             shown == Len(res'.bytes)
  <1>1. /\ k \in 0 .. len /\ k <= Len(rcvbuf)
        /\ FromBuffer(len) \in Seq(Data)
        /\ k < len => k = Len(rcvbuf)
    BY BufferGives
  <1>2. /\ Len(rcvbuf) \in Nat /\ rcvbuf \in Seq(Data)
        /\ read \in Nat /\ recordEnd \in Nat /\ read <= recordEnd
    BY TakenBounds
  <1>3. LeftInBuffer(len, TRUE) = rcvbuf /\ Wanted(len) = len - k
    BY DEF LeftInBuffer, Wanted
  <1> HIDE DEF k
  <1>4. CASE RecvBuffered(len, TRUE)
    <2>1. /\ rcvbuf' = rcvbuf /\ res'.bytes = FromBuffer(len)
          /\ read' = read /\ recordEnd' = recordEnd
          /\ Wanted(len) = 0 \/ Pending = 0
      BY <1>3, <1>4 DEF RecvBuffered, BufferSuffices, Answer, Result
    <2>2. shown = k /\ Len(rcvbuf') = Len(rcvbuf) /\ Pending' = Pending
      BY <2>1 DEF k, Pending
    <2>3. k < len => Pending = 0
      BY <1>1, <1>3, <2>1
    <2> HIDE DEF shown
    <2>4. shown \in 0 .. len /\ shown <= Len(rcvbuf')
      BY <1>1, <2>2
    <2>5. shown < len => Len(rcvbuf') = shown /\ Pending' = 0
      BY <1>1, <2>2, <2>3
    <2> QED BY <2>4, <2>5 DEF shown
  <1>5. CASE RecvRead(len, TRUE)
    <2> DEFINE bytes == SslRead(Wanted(len))
    <2>1. /\ SslReadable /\ ~BufferSuffices(len)
          /\ read' = read + Len(bytes) /\ recordEnd' = SourceEnd
          /\ rcvbuf' = rcvbuf \o bytes
          /\ res'.bytes = FromBuffer(len) \o bytes
      BY <1>5 DEF RecvRead, Consume, AfterRead, Answer, Result
    <2>2. k < len
      <3>1. k = len => rcvbuf # <<>> /\ Wanted(len) = 0
        BY <1>1, <1>2, <1>3, EmptySeq
      <3> QED BY <1>1, <2>1, <3>1 DEF BufferSuffices
    <2>3. Wanted(len) \in Nat \ {0} /\ k \in Nat
      BY <1>1, <1>3, <2>2
    <2>4. /\ Len(bytes) \in 1 .. Wanted(len) /\ bytes \in Seq(Data)
          /\ read + Len(bytes) <= SourceEnd
      BY <2>1, <2>3, SslReadGives
    <2>5. Len(bytes) < Wanted(len) => read + Len(bytes) = SourceEnd
      <3>1. /\ SourceEnd \in Nat /\ read < SourceEnd
            /\ SourceEnd <= Len(sent) /\ Len(sent) \in Nat
            /\ sent \in Seq(Data)
        BY <2>1, SourceEndBounds, LenProperties DEF IInv, TypeOK
      <3> DEFINE e == Lesser(read + Wanted(len), SourceEnd)
      <3>2. /\ e \in Nat /\ read <= e /\ e <= Len(sent)
            /\ e = SourceEnd \/ e = read + Wanted(len)
        BY <1>2, <2>3, <3>1 DEF Lesser
      <3>3. bytes = SubSeq(sent, read + 1, e)
        BY DEF SslRead
      <3> HIDE DEF e, bytes
      <3>4. Len(bytes) = e - read
        BY <1>2, <3>1, <3>2, <3>3, PieceType
      <3> QED BY <1>2, <2>3, <3>2, <3>4
    <2> HIDE DEF bytes
    <2>6. /\ Len(rcvbuf') = Len(rcvbuf) + Len(bytes)
          /\ shown = k + Len(bytes)
      BY <1>1, <1>2, <2>1, <2>4, ConcatProperties DEF k
    <2> HIDE DEF shown
    <2>7. Len(bytes) \in Nat /\ Len(bytes) > 0 /\ Len(bytes) <= len - k
      BY <1>3, <2>3, <2>4
    <2>8. shown \in 0 .. len /\ shown = Len(rcvbuf')
      BY <1>1, <1>2, <2>2, <2>3, <2>6, <2>7
    <2>9. shown < len => Pending' = 0
      <3>1. shown < len => Len(bytes) < Wanted(len)
        BY <1>3, <2>3, <2>6, <2>7
      <3>2. Pending' = recordEnd' - read'
        BY DEF Pending
      <3>3. SourceEnd \in Nat
        BY <2>1, SourceEndBounds
      <3> QED BY <2>1, <2>5, <3>1, <3>2, <3>3
    <2> QED BY <2>8, <2>9 DEF shown
  <1>6. CASE RecvWouldBlock(len, TRUE) \/ RecvFails(len, TRUE)
    <2>1. ~BufferSuffices(len) /\ ~SslReadable
      BY <1>6 DEF RecvWouldBlock, RecvFails
    <2>2. FromBuffer(len) = <<>>
      BY <2>1, RecvNothingGives
    <2>3. res'.bytes = <<>>
      <3>1. CASE RecvWouldBlock(len, TRUE)
        BY <2>2, <3>1 DEF RecvWouldBlock, Answer, Result
      <3>2. CASE RecvFails(len, TRUE)
        BY <3>2 DEF RecvFails, Result
      <3> QED BY <1>6, <3>1, <3>2
    <2>4. shown = 0
      BY <2>3
    <2>5. IInv'
      BY RecvGives
    <2>6. Len(rcvbuf') \in Nat
      BY <2>5, LenProperties DEF IInv, TypeOK
    <2> QED BY <2>4, <2>6
  <1> QED BY <1>4, <1>5, <1>6 DEF Recv

(* A take from rcvbuf gives as many bytes as it was asked for, if they are *)
(* there, or if OpenSSL has no byte at hand.                               *)
LEMMA TakeGives ==
  ASSUME IInv, NEW len \in Nat \ {0}, Recv(len, FALSE), rcvbuf # <<>>,
         len <= Len(rcvbuf) \/ Pending = 0
  PROVE  Len(res'.bytes) = Lesser(len, Len(rcvbuf))
  <1> DEFINE k == Len(FromBuffer(len))
  <1>1. /\ k \in 0 .. len /\ k <= Len(rcvbuf)
        /\ k < len => k = Len(rcvbuf)
    BY BufferGives
  <1>2. Len(rcvbuf) \in Nat
    BY TakenBounds
  <1>3. BufferSuffices(len)
    BY <1>1, <1>2 DEF BufferSuffices, Wanted
  <1>4. RecvBuffered(len, FALSE)
    BY <1>3 DEF Recv, RecvRead, RecvWouldBlock, RecvFails
  <1>5. res'.bytes = FromBuffer(len)
    BY <1>4 DEF RecvBuffered, Answer, Result
  <1> QED BY <1>1, <1>2, <1>5 DEF Lesser
-----------------------------------------------------------------------------
(* What a step of the model is for the byte stream.                        *)
LEMMA Inductive ==
  ASSUME IInv, [Next]_vars
  PROVE  IInv' /\ [Stream!Next]_(Stream!vars)
  <1> DEFINE Queues == UNCHANGED <<sent, cuts, read, recordEnd, rcvbuf>>
  <1>1. ASSUME Queues
        PROVE  Taken' = Taken /\ (QueuesInOrder <=> QueuesInOrder')
    BY <1>1 DEF QueuesInOrder, Taken
  <1>2. ASSUME NEW len \in Lengths, NEW isPeek \in BOOLEAN, Recv(len, isPeek)
        PROVE  IInv' /\ [Stream!Next]_(Stream!vars)
    <2>1. IInv' /\ \E n \in Nat : Gives(isPeek, n)
      <3>1. len \in Nat \ {0}
        BY SslStreamAssumption
      <3> QED BY <1>2, <3>1, RecvGives
    <2>2. PICK n \in Nat : Gives(isPeek, n)
      BY <2>1
    <2>3. UNCHANGED sent
      BY <1>2 DEF Recv, peer
    <2>4. Taken \in Nat /\ Len(sent) \in Nat
      BY TakenBounds
    <2>5. CASE n = 0
      <3>1. res'.bytes = <<>> /\ Taken' = Taken
        <4>1. res'.bytes \in Seq(Data) /\ Len(res'.bytes) = 0
          BY <2>2, <2>5 DEF Gives
        <4>2. Taken' = Taken
          BY <2>2, <2>4, <2>5 DEF Gives
        <4> QED BY <4>1, <4>2, EmptySeq
      <3> QED BY <2>1, <2>3, <3>1 DEF Stream!Next, Stream!Nothing
    <2>6. CASE n > 0
      <3>1. n \in 1 .. Len(sent) - Taken
        BY <2>2, <2>4, <2>6 DEF Gives
      <3>2. res'.bytes = Stream!Front(n)
        BY <2>2 DEF Gives, Stream!Front
      <3>3. CASE isPeek
        BY <2>1, <2>2, <2>3, <3>1, <3>2, <3>3
        DEF Gives, Stream!Next, Stream!Peek
      <3>4. CASE ~isPeek
        BY <2>1, <2>2, <2>3, <3>1, <3>2, <3>4
        DEF Gives, Stream!Next, Stream!Take
      <3> QED BY <3>3, <3>4
    <2> QED BY <2>2, <2>5, <2>6
  <1>3. ASSUME Available \/ IsReadable
        PROVE  IInv' /\ [Stream!Next]_(Stream!vars)
    <2>1. Queues /\ UNCHANGED <<partial, ended, errors>>
          /\ state' \in {state, "ERROR"} /\ res'.bytes = <<>>
          /\ res' \in [method : Methods, ok : BOOLEAN, bytes : {<<>>},
                       n : {Pending, 0, 1}]
      <3>1. CASE Available
        BY <3>1 DEF Available, Result, Methods, peer
      <3>2. CASE IsReadable
        <4>1. PICK n \in {0, 1} :
                res' = Result("is_readable", ended # "closed", <<>>, n)
          BY <3>2 DEF IsReadable
        <4>2. Queues /\ UNCHANGED <<partial, ended, errors>>
              /\ state' \in {state, "ERROR"}
          BY <3>2 DEF IsReadable, peer
        <4> QED BY <4>1, <4>2 DEF Result, Methods
      <3> QED BY <1>3, <3>1, <3>2
    <2>2. Pending \in Nat
      BY TakenBounds DEF Pending
    <2>3. res' \in [method : Methods, ok : BOOLEAN, bytes : Seq(Data), n : Nat]
      <3>1. /\ {<<>>} \subseteq Seq(Data)
            /\ {Pending, 0, 1} \subseteq Nat
        BY <2>2, EmptySeq
      <3> QED BY <2>1, <3>1
    <2>4. TypeOK'
      BY <2>1, <2>3 DEF IInv, TypeOK
    <2> QED BY <1>1, <2>1, <2>4 DEF IInv, Stream!Next, Stream!Nothing
  <1>4. ASSUME Close \/ OtherCallFails \/ PartArrives
               \/ PeerEnds \/ UNCHANGED vars
        PROVE  IInv' /\ [Stream!Next]_(Stream!vars)
    <2>1. Queues /\ UNCHANGED res
      BY <1>4 DEF Close, OtherCallFails, PartArrives, PeerEnds,
                  vars, peer
    <2>2. /\ partial' \in {"none", "kernel", "inside"}
          /\ ended' \in {"no", "eof", "reset", "closed"}
          /\ state' \in {"CONNECTED", "CLOSED", "ERROR"}
          /\ errors' \in 0 .. MaxErrors
      <3> USE SslStreamAssumption DEF peer, IInv, TypeOK
      <3>1. CASE Close
        BY <3>1 DEF Close
      <3>3. CASE OtherCallFails
        BY <3>3 DEF OtherCallFails
      <3>4. CASE PartArrives \/ PeerEnds
        BY <3>4 DEF PartArrives, PeerEnds
      <3>5. CASE UNCHANGED vars
        BY <3>5 DEF vars
      <3> QED BY <1>4, <3>1, <3>3, <3>4, <3>5
    <2>3. TypeOK'
      BY <2>1, <2>2 DEF IInv, TypeOK
    <2> QED BY <1>1, <2>1, <2>3 DEF IInv, Stream!vars
  <1>5. ASSUME RecordArrives
        PROVE  IInv' /\ [Stream!Next]_(Stream!vars)
    BY <1>5, RecordBehind DEF Stream!Next
  <1> QED BY <1>2, <1>3, <1>4, <1>5 DEF Next

LEMMA Initial == Init => IInv /\ Stream!Init
  <1> SUFFICES ASSUME Init PROVE IInv /\ Stream!Init
    OBVIOUS
  <1>1. TypeOK
    BY SslStreamAssumption, EmptySeq DEF Init, TypeOK, Result, Methods
  <1>2. QueuesInOrder
    <2>1. Taken = 0 /\ read = 0 /\ Len(rcvbuf) = 0 /\ Len(sent) = 0
      <3>1. read = 0 /\ rcvbuf = <<>> /\ sent = <<>>
        BY DEF Init
      <3>2. Len(<<>>) = 0
        OBVIOUS
      <3>3. Len(rcvbuf) = 0 /\ Len(sent) = 0
        BY <3>1, <3>2
      <3>4. Taken = 0 - 0
        BY <3>1, <3>3, Zenon DEF Taken
      <3>5. 0 - 0 = 0
        OBVIOUS
      <3> QED BY <3>1, <3>3, <3>4, <3>5, Zenon
    <2>2. SubSeq(sent, Taken + 1, read) = <<>>
      BY <2>1, SubSeqEmpty
    <2> QED BY <2>1, <2>2 DEF Init, QueuesInOrder
  <1>3. Stream!Init
    <2>1. read = 0 /\ Len(rcvbuf) = 0 /\ sent = <<>> /\ res.bytes = <<>>
      BY DEF Init, Result
    <2> QED BY <2>1 DEF Stream!Init, Taken
  <1> QED BY <1>1, <1>2, <1>3 DEF IInv

(* Every variable of the receiving side stays in its range.                *)
THEOREM TypeCorrect == Spec => []TypeOK
  <1>1. Spec => []IInv
    BY Initial, Inductive, PTL DEF Spec
  <1>2. IInv => TypeOK
    BY DEF IInv
  <1> QED BY <1>1, <1>2, PTL

(* The three queues are always consecutive pieces of what was sent.        *)
THEOREM QueuesSound == Spec => []QueuesInOrder
  <1>1. Spec => []IInv
    BY Initial, Inductive, PTL DEF Spec
  <1>2. IInv => QueuesInOrder
    BY DEF IInv
  <1> QED BY <1>1, <1>2, PTL

(* recv of an SSL connection, with peeks, is one byte stream.              *)
THEOREM RecvIsStream == Spec => ImplementsStream
  <1>1. Init => Stream!Init
    BY Initial
  <1>2. IInv /\ [Next]_vars => [Stream!Next]_(Stream!vars)
    BY Inductive
  <1>3. Spec => []IInv
    BY Initial, Inductive, PTL DEF Spec
  <1> QED BY <1>1, <1>2, <1>3, PTL DEF Spec, ImplementsStream, Stream!Spec

(* recv says nothing is there, or fails, only when no queue has a byte.    *)
THEOREM NothingLost == Spec => NothingLeftBehind
  <1> DEFINE Left == \A len \in Lengths, isPeek \in BOOLEAN :
                       Recv(len, isPeek) /\ res'.bytes = <<>>
                         => rcvbuf = <<>> /\ ~SslReadable
  <1>1. IInv => Left
    BY RecvGives, SslStreamAssumption
  <1>2. Spec => []IInv
    BY Initial, Inductive, PTL DEF Spec
  <1>3. IInv /\ [Next]_vars => [Left]_vars
    BY <1>1
  <1> QED BY <1>2, <1>3, PTL DEF Spec, NothingLeftBehind
-----------------------------------------------------------------------------
(***************************************************************************)
(* That a script which goes on reading comes forward.                      *)
(***************************************************************************)

(* Bytes that OpenSSL or rcvbuf have and recv has not given out; and bytes *)
(* that recv can get, these or those in the kernel.                        *)
Held == Taken < recordEnd
AtHand == Held \/ Delivered

(* SSL_read never goes back to an earlier record.                          *)
LEMMA RecvForward ==
  ASSUME IInv, NEW len \in Nat \ {0}, NEW isPeek \in BOOLEAN,
         Recv(len, isPeek)
  PROVE  recordEnd <= recordEnd' /\ Taken <= Taken' /\ sent' = sent
  <1>1. PICK n \in Nat : Gives(isPeek, n)
    BY RecvGives
  <1>0. Taken \in Nat /\ read \in Nat /\ recordEnd \in Nat /\ read <= recordEnd
    BY TakenBounds
  <1>2. Taken <= Taken'
    BY <1>0, <1>1 DEF Gives
  <1>3. sent' = sent
    BY DEF Recv, peer
  <1>4. CASE RecvRead(len, isPeek)
    <2>1. SslReadable /\ recordEnd' = SourceEnd
      BY <1>4 DEF RecvRead, Consume
    <2>2. SourceEnd \in Nat /\ read < SourceEnd
      BY <2>1, SourceEndBounds
    <2>3. Pending > 0 => SourceEnd = recordEnd
      BY DEF SourceEnd
    <2>4. ~(Pending > 0) => recordEnd = read
      BY <1>0 DEF Pending
    <2> QED BY <1>0, <1>2, <1>3, <2>1, <2>2, <2>3, <2>4
  <1>5. CASE ~RecvRead(len, isPeek)
    <2>1. recordEnd' = recordEnd
      BY <1>5 DEF Recv, RecvBuffered, RecvWouldBlock, RecvFails, SslStarve
    <2> QED BY <1>0, <1>2, <1>3, <2>1
  <1> QED BY <1>2, <1>3, <1>4, <1>5

LEMMA Forward ==
  ASSUME IInv, [Next]_vars
  PROVE  /\ recordEnd <= recordEnd' /\ Taken <= Taken'
         /\ Len(sent) <= Len(sent')
  <1>1. ASSUME NEW len \in Lengths, NEW isPeek \in BOOLEAN, Recv(len, isPeek)
        PROVE  recordEnd <= recordEnd' /\ Taken <= Taken' /\ sent' = sent
    <2>1. len \in Nat \ {0}
      BY SslStreamAssumption
    <2> QED BY <1>1, <2>1, RecvForward
  <1>2. CASE RecordArrives
    <2>1. UNCHANGED <<recordEnd, read, rcvbuf>>
      BY <1>2 DEF RecordArrives
    <2>2. Taken' = Taken /\ recordEnd' = recordEnd
      BY <2>1 DEF Taken
    <2> QED BY <1>2, <2>2, RecordExtends, TakenBounds
  <1>3. CASE \/ Available \/ IsReadable \/ Close \/ OtherCallFails
             \/ PartArrives \/ PeerEnds \/ UNCHANGED vars
    <2>1. UNCHANGED <<sent, recordEnd, read, rcvbuf>>
      BY <1>3 DEF Available, IsReadable, Close, OtherCallFails, PartArrives,
         PeerEnds, vars, peer
    <2>2. Taken' = Taken /\ recordEnd' = recordEnd /\ sent' = sent
      BY <2>1 DEF Taken
    <2> QED BY <2>2, TakenBounds
  <1>4. Len(sent) \in Nat
    BY TakenBounds
  <1> QED BY <1>1, <1>2, <1>3, <1>4 DEF Next

LEMMA BoundsAfter ==
  ASSUME IInv'
  PROVE  Taken' \in Nat /\ recordEnd' \in Nat /\ Len(sent') \in Nat
  <1>1. Len(sent') \in Nat /\ Len(rcvbuf') \in Nat
    BY LenProperties DEF IInv, TypeOK
  <1>2. /\ read' \in 0 .. Len(sent') /\ recordEnd' \in read' .. Len(sent')
        /\ Len(rcvbuf') <= read'
    BY DEF IInv, TypeOK, QueuesInOrder
  <1> QED BY <1>1, <1>2 DEF Taken

(* A recv that takes does take, whatever it asks for, if there is a byte.  *)
LEMMA TakesSome ==
  ASSUME IInv, AtHand, Reads
  PROVE  Taken < Taken'
  <1>1. PICK len \in Lengths : Recv(len, FALSE)
    BY DEF Reads
  <1>2. len \in Nat \ {0} /\ FALSE \in BOOLEAN
    BY SslStreamAssumption
  <1>3. /\ \E n \in Nat : Gives(FALSE, n)
        /\ res'.bytes = <<>> => rcvbuf = <<>> /\ ~SslReadable
    BY <1>1, <1>2, RecvGives
  <1>4. PICK n \in Nat : Gives(FALSE, n)
    BY <1>3
  <1>5. ~(rcvbuf = <<>> /\ ~SslReadable)
    <2> SUFFICES ASSUME rcvbuf = <<>>, ~SslReadable PROVE FALSE
      OBVIOUS
    <2>1. Len(rcvbuf) = 0
      BY EmptySeq
    <2>2. ~(Pending > 0) /\ ~Delivered
      BY DEF SslReadable
    <2>3. Taken = read /\ recordEnd = read
      BY <2>1, <2>2, TakenBounds DEF Pending
    <2> QED BY <2>2, <2>3, TakenBounds DEF AtHand, Held
  <1>6. n # 0
    <2> SUFFICES ASSUME n = 0 PROVE FALSE
      OBVIOUS
    <2>1. res'.bytes \in Seq(Data) /\ Len(res'.bytes) = 0
      BY <1>4 DEF Gives
    <2> QED BY <1>3, <1>5, <2>1, EmptySeq
  <1> QED BY <1>4, <1>6, TakenBounds DEF Gives

LEMMA InvHolds == Spec => []IInv
  BY Initial, Inductive, PTL DEF Spec

(* What OpenSSL or rcvbuf have of a connection is given out, also when it  *)
(* is reset or closed meanwhile: while a script goes on reading there is   *)
(* no byte of it at which it stops.  (With AtHand, Reads can be taken: it  *)
(* is what the second hypothesis says, here and in the next theorem.)      *)
THEOREM HeldIsRead ==
  \A n \in Nat :
    FairSpec /\ [](AtHand => ENABLED <<Reads>>_vars)
      => ((Taken = n /\ Held) ~> Taken > n)
  <1> SUFFICES ASSUME NEW n \in Nat
               PROVE  FairSpec /\ [](AtHand => ENABLED <<Reads>>_vars)
                        => ((Taken = n /\ Held) ~> Taken > n)
    OBVIOUS
  <1> DEFINE P == Taken = n /\ Held
             Q == Taken > n
  <1>1. IInv /\ P /\ [Next]_vars => P' \/ Q'
    <2> SUFFICES ASSUME IInv, P, [Next]_vars PROVE P' \/ Q'
      OBVIOUS
    <2>1. Taken' \in Nat /\ recordEnd' \in Nat
      BY Inductive, BoundsAfter
    <2>2. recordEnd <= recordEnd' /\ Taken <= Taken'
      BY Forward
    <2>3. Taken \in Nat /\ recordEnd \in Nat
      BY TakenBounds
    <2> QED BY <2>1, <2>2, <2>3 DEF Held
  <1>2. IInv /\ P /\ <<Reads>>_vars => Q'
    <2> SUFFICES ASSUME IInv, P, Reads PROVE Q'
      OBVIOUS
    <2>1. Taken < Taken'
      BY TakesSome DEF AtHand
    <2> QED BY <2>1
  <1>3. P => AtHand
    BY DEF AtHand
  <1> HIDE DEF P, Q
  <1>4. FairSpec /\ [](AtHand => ENABLED <<Reads>>_vars) => (P ~> Q)
    BY <1>1, <1>2, <1>3, InvHolds, PTL DEF FairSpec, Spec
  <1> QED BY <1>4 DEF P, Q

Ended == ended \in {"reset", "closed"}

(* However far recv has come in what the peer has sent, it comes further,  *)
(* unless the connection is reset, or closed here: the step of which       *)
(* EverythingRead is the sum.                                              *)
THEOREM NextIsRead ==
  \A n \in Nat :
    FairSpec /\ [](AtHand => ENABLED <<Reads>>_vars)
      => ((Taken = n /\ Len(sent) > n) ~> (Taken > n \/ Ended))
  <1> SUFFICES ASSUME NEW n \in Nat
               PROVE  FairSpec /\ [](AtHand => ENABLED <<Reads>>_vars)
                        => ((Taken = n /\ Len(sent) > n)
                              ~> (Taken > n \/ Ended))
    OBVIOUS
  <1> DEFINE P == Taken = n /\ Len(sent) > n
             Q == Taken > n \/ Ended
  <1>1. IInv /\ P /\ [Next]_vars => P' \/ Q'
    <2> SUFFICES ASSUME IInv, P, [Next]_vars PROVE P' \/ Q'
      OBVIOUS
    <2>1. Taken' \in Nat /\ Len(sent') \in Nat
      BY Inductive, BoundsAfter
    <2>2. Len(sent) <= Len(sent') /\ Taken <= Taken'
      BY Forward
    <2>3. Taken \in Nat /\ Len(sent) \in Nat
      BY TakenBounds
    <2> QED BY <2>1, <2>2, <2>3
  <1>2. IInv => (P => AtHand \/ Q)
    <2> SUFFICES ASSUME IInv, P, ~Ended PROVE AtHand
      OBVIOUS
    <2>1. ended \in {"no", "eof"}
      BY DEF Ended, IInv, TypeOK
    <2> QED BY <2>1, TakenBounds DEF AtHand, Held, Delivered
  <1>3. IInv /\ P /\ AtHand /\ <<Reads>>_vars => Q'
    <2> SUFFICES ASSUME IInv, P, AtHand, Reads PROVE Q'
      OBVIOUS
    <2>1. Taken < Taken'
      BY TakesSome
    <2> QED BY <2>1
  <1> HIDE DEF P, Q
  <1>4. FairSpec /\ [](AtHand => ENABLED <<Reads>>_vars) => (P ~> Q)
    BY <1>1, <1>2, <1>3, InvHolds, PTL DEF FairSpec, Spec
  <1> QED BY <1>4 DEF P, Q
=============================================================================
