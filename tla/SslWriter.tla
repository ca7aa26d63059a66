------------------------------ MODULE SslWriter ------------------------------
(***************************************************************************)
(* The sending side of a Socket::Class::SSL connection.  OpenSSL cuts a    *)
(* message into records.  When the kernel does not take a record, SSL_write *)
(* says WANT_WRITE, the library returns 0 bytes, and the record stays in   *)
(* OpenSSL's buffer: the next call has to be the same call again, from the *)
(* same memory.  write and send use the memory of the script's scalar,     *)
(* writeline the socket's own buffer, which readline may move, and print   *)
(* and printf memory they allocate in every call.                          *)
(***************************************************************************)
EXTENDS Naturals, Sequences

CONSTANTS
  Data,       \* the bytes
  Texts,      \* what scripts write
  LineEnd,    \* CR LF
  MaxRecord,  \* SSL3_RT_MAX_PLAIN_LENGTH
  Chunk,      \* what readline and recv ask for
  Scalars,    \* addresses of the script's strings
  Heap,       \* addresses allocated for print
  Repeats,    \* scripts repeat a call that has not written its text
  MaxHanded,  \* bounds what is written
  MaxMoves,   \* bounds how often ud->buffer moves
  MaxErrors   \* bounds the entries left in OpenSSL's error queue

ASSUME SslWriterAssumption ==
  /\ Texts \subseteq Seq(Data) /\ LineEnd \in Seq(Data)
  /\ \A t \in Texts : t # <<>>
  /\ MaxRecord \in Nat \ {0} /\ Chunk \in Nat
  /\ Repeats \in BOOLEAN
  /\ MaxHanded \in Nat /\ MaxMoves \in Nat /\ MaxErrors \in Nat

VARIABLES
  buffer,      \* ud->buffer: how often it has moved, and ud->buffer_len
  call,        \* the last call of a writing method
  owed,        \* it has not reported its text as written
  wnum,        \* how much of its text is in records that are gone
  record,      \* the record in s->s3->wbuf, and wpend_buf
  handed,      \* the contents of all records the kernel has taken
  reported,    \* the texts of the calls that have returned their length
  handshaking, \* SSL_in_init: after starttls on a client
  broken,      \* the connection is gone
  state,       \* sock->state
  errors       \* entries in the thread's error queue

vars == <<buffer, call, owed, wnum, record, handed, reported, handshaking,
          broken, state, errors>>

Methods == {"write", "writeline", "print"}
NoRecord == [from |-> <<>>, bytes |-> <<>>]

Lesser(a, b) == IF a < b THEN a ELSE b

Init ==
  /\ buffer = [moves |-> 0, size |-> 0]
  /\ call = [method |-> "write", at |-> <<>>, text |-> <<>>]
  /\ owed = FALSE /\ wnum = 0 /\ record = NoRecord
  /\ handed = <<>> /\ reported = <<>>
  /\ handshaking \in BOOLEAN
  /\ broken = FALSE /\ state = "CONNECTED" /\ errors = 0

(* Renew: the buffer grows to len if it is smaller, and may move.          *)
Grown(len) ==
  IF buffer.size >= len THEN {buffer}
  ELSE [moves : {buffer.moves, Lesser(buffer.moves + 1, MaxMoves)},
        size : {len}]
-----------------------------------------------------------------------------
(* SSL_write( ssl, at, Len( text ) ).                                      *)

Pending == record # NoRecord

(* Mutant: a record takes all there is.                                    *)
SliceAll(text, from, n) == SubSeq(text, from + 1, Len(text))

Slice(text, from, n) == SubSeq(text, from + 1, Lesser(from + n, Len(text)))

(* Mutant: the address of the record is taken to be that of the text.      *)
SourceBase(at) == <<at, 0>>

(* &buf[tot].                                                              *)
Source(at) == <<at, wnum>>

(* ssl3_write_pending: "wpend_tot > len || wpend_buf != buf".              *)
BadRetry(at, text) ==
  /\ Pending
  /\ \/ Len(record.bytes) > Len(Slice(text, wnum, MaxRecord))
     \/ record.from # Source(at)

(* The first record that goes out: the one left from the last call, else   *)
(* the next piece of the text.                                             *)
First(text) == IF Pending THEN record.bytes ELSE Slice(text, wnum, MaxRecord)

(* Where in the text SSL_write can be when the kernel takes no more.       *)
Stops(text) ==
  {p \in wnum .. Len(text) - 1 :
     p = wnum \/ \E k \in 0 .. Len(text) :
                   p = wnum + Len(First(text)) + k * MaxRecord}

(* Mutant: what goes out is always taken from the text, from its start.    *)
GoneFromStart(text, p) == SubSeq(text, 1, p)

(* What has gone out of a call when it is at p.                            *)
Gone(text, p) ==
  IF p = wnum THEN <<>>
  ELSE First(text) \o SubSeq(text, wnum + Len(First(text)) + 1, p)

(* What SSL_get_error can find in the thread's error queue: a call that    *)
(* begins with the handshake has cleared it.                               *)
Left == IF handshaking THEN 0 ELSE errors

(* All of it gone: the call returns its length.                            *)
WritesAll(at, text) ==
  /\ ~broken /\ ~BadRetry(at, text)
  /\ handed' = handed \o Gone(text, Len(text))
  /\ reported' = reported \o text
  /\ owed' = FALSE /\ wnum' = 0 /\ record' = NoRecord
  /\ handshaking' = FALSE
  /\ errors' = Left
  /\ UNCHANGED state

(* r <= 0: WANT_WRITE, which SSL_get_error says only if the error queue is *)
(* empty, becomes 0 bytes; all else an error, of which ERR_get_error()     *)
(* takes one entry from the queue.                                         *)
Outcome(wantWrite) ==
  \/ wantWrite /\ Left = 0 /\ errors' = 0 /\ UNCHANGED state
  \/ /\ ~wantWrite \/ Left > 0
     /\ state' = "ERROR"
     /\ errors' = IF Left > 0 THEN Left - 1 ELSE 0

NotWritten(wantWrite) ==
  /\ Outcome(wantWrite)
  /\ owed' = TRUE
  /\ UNCHANGED reported

(* Mutant: wnum is left at 0.                                              *)
StopAtStart(at, text, p) ==
  /\ wnum' = 0
  /\ record' = IF Pending /\ p = wnum THEN record
               ELSE [from |-> <<at, p>>, bytes |-> Slice(text, p, MaxRecord)]

(* SSL_write at p, with the record that begins there in its buffer.        *)
StopAt(at, text, p) ==
  /\ wnum' = p
  /\ record' = IF Pending /\ p = wnum THEN record
               ELSE [from |-> <<at, p>>, bytes |-> Slice(text, p, MaxRecord)]

(* The kernel takes some records and not the next, or the connection is    *)
(* gone.                                                                   *)
WritesPart(at, text) ==
  /\ ~BadRetry(at, text) /\ ~(broken /\ handshaking)
  /\ \E p \in Stops(text) :
       /\ broken => p = wnum
       /\ handed' = handed \o Gone(text, p)
       /\ StopAt(at, text, p)
  /\ handshaking' = FALSE
  /\ NotWritten(~broken)

(* SSL_R_BAD_WRITE_RETRY: one entry more in the queue, and one taken out.  *)
Refuses(at, text) ==
  /\ BadRetry(at, text)
  /\ owed' = TRUE
  /\ state' = "ERROR"
  /\ UNCHANGED <<wnum, record, handed, reported, handshaking, errors>>

(* The handshake comes first.  To wait for the peer's part of it is        *)
(* WANT_READ, which send takes for an error.                               *)
HandshakeStops ==
  /\ handshaking
  /\ \E wantWrite \in {FALSE, ~broken} : NotWritten(wantWrite)
  /\ UNCHANGED <<wnum, record, handed, handshaking>>

SslWrite(at, text) ==
  WritesAll(at, text) \/ WritesPart(at, text) \/ Refuses(at, text)
    \/ HandshakeStops
-----------------------------------------------------------------------------
(* The writing methods.  OpenSSL leaves open what a shorter text does when *)
(* more than its length has gone out: len - tot wraps.                     *)

Calls(method, at, text) ==
  /\ Repeats /\ owed =>
       /\ method = call.method /\ text = call.text
       /\ method = "write" => at = call.at
  /\ wnum <= Len(text)
  /\ Len(handed) + Len(text) <= MaxHanded + wnum
  /\ call' = [method |-> method, at |-> at, text |-> text]
  /\ SslWrite(at, text)
  /\ UNCHANGED broken

Write(at, text) ==
  /\ Calls("write", at, text)
  /\ UNCHANGED buffer

(* The text and the line end are put together in the socket's buffer.      *)
WriteLine(text) ==
  LET line == text \o LineEnd
  IN /\ buffer' \in Grown(Len(line))
     /\ Calls("writeline", <<"buffer", buffer'.moves>>, line)

(* print and printf: what they allocate they free.                         *)
SslPrint(at, text) ==
  /\ Calls("print", at, text)
  /\ UNCHANGED buffer

(* send of an empty string: SSL_write returns 0, which is no WANT_WRITE.   *)
SendNothing ==
  /\ ~owed /\ ~Pending
  /\ \/ Outcome(FALSE) /\ handshaking' = (handshaking /\ broken)
     \/ /\ handshaking
        /\ \E wantWrite \in {FALSE, ~broken} : Outcome(wantWrite)
        /\ UNCHANGED handshaking
  /\ UNCHANGED <<buffer, call, owed, wnum, record, handed, reported, broken>>
-----------------------------------------------------------------------------
(* readline, read_packet, recv and read use the same buffer.               *)
ReadLine ==
  /\ \E b \in Grown(Chunk) : buffer' = b
  /\ UNCHANGED <<call, owed, wnum, record, handed, reported, handshaking,
                 broken, state, errors>>

OtherCallFails ==
  /\ errors' \in errors + 1 .. MaxErrors
  /\ UNCHANGED <<buffer, call, owed, wnum, record, handed, reported,
                 handshaking, broken, state>>

Break ==
  /\ ~broken /\ broken' = TRUE
  /\ UNCHANGED <<buffer, call, owed, wnum, record, handed, reported,
                 handshaking, state, errors>>

Next ==
  \/ \E text \in Texts :
       \/ WriteLine(text)
       \/ \E at \in Scalars : Write(<<"scalar", at>>, text)
       \/ \E at \in Heap : SslPrint(<<"heap", at>>, text)
  \/ SendNothing \/ ReadLine \/ OtherCallFails \/ Break

Spec == Init /\ [][Next]_vars

(* The kernel goes on taking what a script goes on writing.                *)
Completes ==
  /\ \E at \in Scalars, text \in Texts : Write(<<"scalar", at>>, text)
  /\ ~owed'
FairSpec == Spec /\ WF_vars(Completes)
-----------------------------------------------------------------------------
TypeOK ==
  /\ buffer \in [moves : 0 .. MaxMoves, size : Nat]
  /\ call.method \in Methods
  /\ \E text \in Texts \cup {<<>>} : call.text \in {text, text \o LineEnd}
  /\ owed \in BOOLEAN
  /\ wnum \in Nat
  /\ wnum > 0 => Pending
  /\ Pending => Len(record.bytes) \in 1 .. MaxRecord
  /\ handshaking \in BOOLEAN /\ broken \in BOOLEAN
  /\ state \in {"CONNECTED", "ERROR"}
  /\ errors \in 0 .. MaxErrors

(* If scripts repeat the calls that have not written their text, what the  *)
(* kernel has been given are the texts of the calls that have reported     *)
(* their length, each once, and of the call to be repeated the part before *)
(* the record that is pending, however often records, the handshake and    *)
(* errors of other connections have stopped it.                            *)
HandedInOrder ==
  Repeats =>
    /\ handed = reported \o SubSeq(call.text, 1, wnum)
    /\ Pending => owed /\ record.bytes = Slice(call.text, wnum, MaxRecord)

(* To write the same text from the same scalar again is never refused as a *)
(* bad retry, whatever other methods have been called in between.          *)
RepeatFits ==
  Repeats /\ owed /\ call.method = "write" => ~BadRetry(call.at, call.text)

(* A script that repeats a write gets its text written.                    *)
WriteCompletes == owed /\ call.method = "write" ~> ~owed \/ broken
=============================================================================
