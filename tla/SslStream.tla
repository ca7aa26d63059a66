------------------------------ MODULE SslStream ------------------------------
(***************************************************************************)
(* The receiving side of a Socket::Class::SSL connection.  A byte passes   *)
(* three queues on its way: whole records in the kernel, the rest of the   *)
(* record OpenSSL has decrypted, and rcvbuf, where recv keeps what a peek  *)
(* has read from OpenSSL.  recv empties them in that order; available and  *)
(* is_readable each look into one of them.                                 *)
(*                                                                         *)
(* A position counts the bytes from the beginning of the connection.       *)
(***************************************************************************)
EXTENDS Naturals, Sequences

CONSTANTS
  Data,       \* the bytes
  MaxSent,    \* bounds what the peer sends
  Lengths,    \* the len arguments of recv
  MaxErrors   \* bounds the entries left in OpenSSL's error queue

ASSUME SslStreamAssumption ==
  /\ MaxSent \in Nat /\ MaxErrors \in Nat
  /\ Lengths \subseteq Nat \ {0}

VARIABLES
  sent,        \* what the peer has sent, in whole records
  cuts,        \* the positions at which its records end
  partial,     \* part of one more record: "none", in the "kernel", "inside"
  ended,       \* "no", closed by the peer ("eof"), "reset", or "closed" here
  read,        \* where SSL_read has got to
  recordEnd,   \* where the record in s->s3->rrec ends
  rcvbuf,      \* ud->rcvbuf up to rcvbuf_pos
  state,       \* sock->state
  errors,      \* entries in the thread's error queue
  res          \* what the last call was and returned

vars == <<sent, cuts, partial, ended, read, recordEnd, rcvbuf, state, errors,
          res>>
peer == <<sent, cuts, ended>>

Methods == {"none", "recv", "peek", "available", "is_readable"}
Result(method, ok, bytes, n) ==
  [method |-> method, ok |-> ok, bytes |-> bytes, n |-> n]

Lesser(a, b) == IF a < b THEN a ELSE b

Init ==
  /\ sent = <<>> /\ cuts = {} /\ partial = "none" /\ ended = "no"
  /\ read = 0 /\ recordEnd = 0 /\ rcvbuf = <<>>
  /\ state = "CONNECTED" /\ errors = 0
  /\ res = Result("none", TRUE, <<>>, 0)
-----------------------------------------------------------------------------
(* OpenSSL.                                                                *)

Pending == recordEnd - read

(* Whole records the kernel still has.  Close, and a "reset", drop them; a  *)
(* reset after which the kernel still gives them out is here an "eof".     *)
Delivered == recordEnd < Len(sent) /\ ended \in {"no", "eof"}

(* Where the record ends from which SSL_read takes: that of the record at  *)
(* hand, else of the next one.                                             *)
SourceEnd ==
  IF Pending > 0 THEN recordEnd
  ELSE CHOOSE c \in cuts : c > read /\ \A d \in cuts : d > read => c <= d

SslReadable == Pending > 0 \/ Delivered

(* SSL_read( ssl, , len ) when it has data: part of one record.            *)
SslRead(len) == SubSeq(sent, read + 1, Lesser(read + len, SourceEnd))

(* Mutant: the record at hand stays what it was.                           *)
ConsumeSame(bytes) ==
  /\ read' = read + Len(bytes)
  /\ UNCHANGED <<recordEnd, partial>>

Consume(bytes) ==
  /\ read' = read + Len(bytes)
  /\ recordEnd' = SourceEnd
  /\ UNCHANGED partial

(* SSL_read without data: r <= 0.  It takes what there is of the next      *)
(* record from the kernel.                                                 *)
SslStarve ==
  /\ partial' = IF partial = "kernel" THEN "inside" ELSE partial
  /\ UNCHANGED <<read, recordEnd>>

(* SSL_get_error says WANT_READ only if the thread's error queue is empty. *)
WantRead == ended = "no" /\ errors = 0
-----------------------------------------------------------------------------
(* recv: first from rcvbuf, then from OpenSSL.                             *)

FromBuffer(len) == SubSeq(rcvbuf, 1, Lesser(Len(rcvbuf), len))
Wanted(len) == len - Len(FromBuffer(len))

(* Mutant: what has been copied stays.                                     *)
LeftInBufferAll(len, isPeek) == rcvbuf

LeftInBuffer(len, isPeek) ==
  IF isPeek THEN rcvbuf
  ELSE SubSeq(rcvbuf, Len(FromBuffer(len)) + 1, Len(rcvbuf))

(* Mutant: SSL_pending is not asked.                                       *)
BufferSufficesFull(len) == rcvbuf # <<>> /\ Wanted(len) = 0

(* "if( len == 0 || !SSL_pending( ud->ssl ) )" after a copy from rcvbuf.   *)
BufferSuffices(len) == rcvbuf # <<>> /\ (Wanted(len) = 0 \/ Pending = 0)

Method(isPeek) == IF isPeek THEN "peek" ELSE "recv"
Answer(isPeek, bytes) ==
  res' = Result(Method(isPeek), TRUE, bytes, Len(bytes))

RecvBuffered(len, isPeek) ==
  /\ BufferSuffices(len)
  /\ rcvbuf' = LeftInBuffer(len, isPeek)
  /\ Answer(isPeek, FromBuffer(len))
  /\ UNCHANGED <<read, recordEnd, partial, state, errors>>

(* Mutant: a second peek writes over what the first has left.              *)
AfterReadOver(len, isPeek, bytes) ==
  IF isPeek THEN bytes ELSE LeftInBuffer(len, isPeek)

(* A peek adds what it has read to rcvbuf.                                 *)
AfterRead(len, isPeek, bytes) ==
  IF isPeek THEN rcvbuf \o bytes ELSE LeftInBuffer(len, isPeek)

RecvRead(len, isPeek) ==
  /\ ~BufferSuffices(len)
  /\ SslReadable
  /\ LET bytes == SslRead(Wanted(len))
     IN /\ Consume(bytes)
        /\ rcvbuf' = AfterRead(len, isPeek, bytes)
        /\ Answer(isPeek, FromBuffer(len) \o bytes)
  /\ UNCHANGED <<state, errors>>

(* EWOULDBLOCK is no error; neither is EINTR, with which a blocking socket *)
(* comes here too.  While it blocks, the call takes no step.               *)
RecvWouldBlock(len, isPeek) ==
  /\ ~BufferSuffices(len)
  /\ ~SslReadable /\ WantRead
  /\ SslStarve
  /\ rcvbuf' = LeftInBuffer(len, isPeek)
  /\ Answer(isPeek, FromBuffer(len))
  /\ UNCHANGED <<state, errors>>

(* Any other failure.  ERR_get_error() takes one entry from the queue.     *)
RecvFails(len, isPeek) ==
  /\ ~BufferSuffices(len)
  /\ ~SslReadable /\ ~WantRead
  /\ SslStarve
  /\ rcvbuf' = LeftInBuffer(len, isPeek)
  /\ errors' = IF errors > 0 THEN errors - 1 ELSE 0
  /\ state' = "ERROR"
  /\ res' = Result(Method(isPeek), FALSE, <<>>, 0)

Recv(len, isPeek) ==
  /\ \/ RecvBuffered(len, isPeek) \/ RecvRead(len, isPeek)
     \/ RecvWouldBlock(len, isPeek) \/ RecvFails(len, isPeek)
  /\ UNCHANGED peer
-----------------------------------------------------------------------------
(* The other calls.                                                        *)

Available ==
  /\ res' = Result("available", TRUE, <<>>, Pending)
  /\ UNCHANGED <<peer, partial, read, recordEnd, rcvbuf, state, errors>>

(* Inherited from Socket::Class: select on the descriptor.                 *)
IsReadable ==
  /\ LET readable == Delivered \/ partial = "kernel" \/ ended # "no"
         n == IF readable /\ ended # "closed" THEN 1 ELSE 0
     IN res' = Result("is_readable", ended # "closed", <<>>, n)
  /\ state' = IF ended = "closed" THEN "ERROR" ELSE state
  /\ UNCHANGED <<peer, partial, read, recordEnd, rcvbuf, errors>>

(* mod_sc_close, also inherited: ud stays as it is.                        *)
Close ==
  /\ ended' = "closed"
  /\ partial' = "none"
  /\ state' = "CLOSED"
  /\ UNCHANGED <<sent, cuts, read, recordEnd, rcvbuf, errors, res>>

(* A call on another SSL object in this thread fails: OpenSSL queues       *)
(* several entries and the library takes one.                              *)
OtherCallFails ==
  /\ errors' \in errors + 1 .. MaxErrors
  /\ UNCHANGED <<peer, partial, read, recordEnd, rcvbuf, state, res>>
-----------------------------------------------------------------------------
(* The peer.                                                               *)

RecordArrives ==
  /\ ended = "no"
  /\ \E n \in 1 .. MaxSent - Len(sent) :
       \E bytes \in [1 .. n -> Data] : sent' = sent \o bytes
  /\ cuts' = cuts \cup {Len(sent')}
  /\ partial' = "none"
  /\ UNCHANGED <<ended, read, recordEnd, rcvbuf, state, errors, res>>

PartArrives ==
  /\ ended = "no" /\ Len(sent) < MaxSent
  /\ partial = "none"
  /\ partial' = "kernel"
  /\ UNCHANGED <<peer, read, recordEnd, rcvbuf, state, errors, res>>

PeerEnds ==
  /\ ended = "no"
  /\ ended' \in {"eof", "reset"}
  /\ UNCHANGED <<sent, cuts, partial, read, recordEnd, rcvbuf, state, errors,
                 res>>

Next ==
  \/ \E len \in Lengths, isPeek \in BOOLEAN : Recv(len, isPeek)
  \/ Available \/ IsReadable \/ Close \/ OtherCallFails
  \/ RecordArrives \/ PartArrives \/ PeerEnds

Spec == Init /\ [][Next]_vars

(* A script that goes on reading: of the calls it makes, one in so many    *)
(* is a recv that takes.                                                   *)
Reads == \E len \in Lengths : Recv(len, FALSE)
FairSpec == Spec /\ WF_vars(Reads)
-----------------------------------------------------------------------------
TypeOK ==
  /\ sent \in Seq(Data) /\ Len(sent) <= MaxSent
  /\ cuts \subseteq 1 .. Len(sent)
  /\ partial \in {"none", "kernel", "inside"}
  /\ ended \in {"no", "eof", "reset", "closed"}
  /\ read \in 0 .. Len(sent) /\ recordEnd \in read .. Len(sent)
  /\ rcvbuf \in Seq(Data)
  /\ state \in {"CONNECTED", "CLOSED", "ERROR"}
  /\ errors \in 0 .. MaxErrors
  /\ res \in [method : Methods, ok : BOOLEAN, bytes : Seq(Data), n : Nat]

(* How many bytes recv has given out for good.                             *)
Taken == read - Len(rcvbuf)

(* The three queues are consecutive pieces of what the peer has sent:      *)
(* rcvbuf ends where SSL_read has got to, the record at hand ends at a     *)
(* record boundary, and behind it come whole records.                      *)
QueuesInOrder ==
  /\ Len(rcvbuf) <= read
  /\ rcvbuf = SubSeq(sent, Taken + 1, read)
  /\ recordEnd \in cuts \cup {0}
  /\ \A p \in 0 .. Len(sent) - 1 :
       \E c \in cuts : c > p /\ \A d \in cuts : d > p => c <= d

(* Through all three queues recv is one stream: a peek shows the next      *)
(* bytes and leaves them, a take gives each byte once and in order,        *)
(* however peeks and takes of any length, records, and the end of the      *)
(* connection follow one another.                                          *)
Stream == INSTANCE ByteStream
            WITH arrived <- sent, taken <- Taken, given <- res.bytes
ImplementsStream == Stream!Spec

(* recv says that there is nothing, or fails, only when none of the queues *)
(* holds a byte: no byte is lost with an error, and what a peek has shown  *)
(* can be had also after the connection is reset or closed.                *)
NothingLeftBehind ==
  [][\A len \in Lengths, isPeek \in BOOLEAN :
       Recv(len, isPeek) /\ res'.bytes = <<>> => rcvbuf = <<>> /\ ~SslReadable
    ]_vars

(* A script that goes on reading gets every byte that has come in, unless  *)
(* the connection is reset, or closed here, while it is in the kernel.     *)
EverythingRead ==
  \A k \in 1 .. MaxSent :
    Len(sent) >= k ~> Taken >= k \/ ended \in {"reset", "closed"}

(* "Returns TRUE if the socket is readable, or FALSE if it is not":        *)
(* is_readable does not return false while recv has bytes to give.         *)
UnreadIsSeen ==
  res.method = "is_readable" /\ res.ok /\ res.n = 0
    => rcvbuf = <<>> /\ Pending = 0
=============================================================================
