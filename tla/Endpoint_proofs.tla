-------------------------- MODULE Endpoint_proofs ---------------------------
(* The state an Endpoint reports is that of its descriptor, and every open *)
(* descriptor is accounted for, for any number of descriptors and          *)
(* addresses, any timeout, and whatever habits scripts have, for sockets   *)
(* of AF_INET and of AF_UNIX.  Only the full queue of an AF_UNIX listener  *)
(* makes it say CONNECTED of a socket that is not.                         *)
EXTENDS Endpoint, TLAPS

Address == Addrs \cup {NoAddr, AnyAddr}

(* The kinds of socket a connect that waits may have: it has been begun,   *)
(* and nobody has fetched its error, or it has found a queue full.         *)
Attempted == {"connecting", "failed", "full"} \cup Streams

(* While connect waits the object is neither connected nor a listener.     *)
Waiting ==
  pc \in {"select", "connect"} =>
    /\ sock # NoFd /\ Conn \in Attempted
    /\ state \notin {"CONNECTED", "LISTEN"}

(* Without an object nothing is left of one.                               *)
Absent == pc = "none" => sock = NoFd /\ state = "INIT"

IInv ==
  RecordOK /\ DescriptorsAccounted /\ StateIsReal /\ Waiting /\ Absent
-----------------------------------------------------------------------------
(* A socket with one field changed is a socket.                            *)
LEMMA FieldChanged ==
  ASSUME NEW k \in Sockets, NEW c \in Conns, NEW b \in BOOLEAN,
         NEW a \in Addrs \cup {NoAddr}
  PROVE  /\ [k EXCEPT !.conn = c] \in Sockets
         /\ [k EXCEPT !.nonblk = b] \in Sockets
         /\ [k EXCEPT !.told = b] \in Sockets
         /\ [k EXCEPT !.conn = c, !.data = b] \in Sockets
         /\ [k EXCEPT !.conn = c, !.nonblk = b] \in Sockets
         /\ [k EXCEPT !.conn = c, !.peer = a] \in Sockets
         /\ [k EXCEPT !.conn = c, !.told = b] \in Sockets
         /\ [k EXCEPT !.conn = c, !.told = b, !.peer = a] \in Sockets
         /\ NewSocket \in Sockets /\ NotOpen \in Sockets
         /\ NewSocket.conn = "fresh" /\ NotOpen.conn = "closed"
<1>1. /\ [k EXCEPT !.conn = c] \in Sockets
      /\ [k EXCEPT !.nonblk = b] \in Sockets
      /\ [k EXCEPT !.told = b] \in Sockets
  BY DEF Sockets
<1>2. /\ [k EXCEPT !.conn = c, !.data = b] \in Sockets
      /\ [k EXCEPT !.conn = c, !.nonblk = b] \in Sockets
  BY DEF Sockets
<1>3. /\ [k EXCEPT !.conn = c, !.peer = a] \in Sockets
      /\ [k EXCEPT !.conn = c, !.told = b] \in Sockets
  BY DEF Sockets
<1>4. [k EXCEPT !.conn = c, !.told = b, !.peer = a] \in Sockets
  BY DEF Sockets
<1>5. /\ NewSocket \in Sockets /\ NotOpen \in Sockets
      /\ NewSocket.conn = "fresh" /\ NotOpen.conn = "closed"
  BY DEF Sockets, NewSocket, NotOpen, Conns, Streams
<1> QED BY <1>1, <1>2, <1>3, <1>4, <1>5

(* What connect(2) can return, and what it leaves.                         *)
LEMMA ConnectOutcome ==
  ASSUME NEW k \in Sockets, NEW a \in Address, NEW o \in Connecting(k, a),
         k.conn # "closed"
  PROVE  /\ o[2] \in Sockets
         /\ o[1] \in {"error", "wait", "ok"}
         /\ o[1] = "ok" => o[2].conn \in Streams
         /\ o[1] = "wait" => o[2].conn \in {"connecting", "full"}
         /\ o[1] = "error" =>
              o[2] = k \/ (k.conn \in {"failed", "spent"} /\
                           o[2].conn = "fresh")
         /\ o[1] # "error" => k.conn # "listening"
         /\ o[2].conn # "closed"
<1> DEFINE begun == [k EXCEPT !.conn = "connecting", !.peer = a]
           there == [begun EXCEPT !.conn = "established", !.told = TRUE]
           full == [k EXCEPT !.conn = "full"]
<1>1. CASE k.conn \in {"fresh", "bound", "full"}
  <2>1. \/ o = <<"error", k>>
        \/ a \in Addrs /\ o = <<"wait", begun>>
        \/ a \in Addrs /\ o = <<"ok", there>>
        \/ o = <<"wait", full>>
    BY <1>1 DEF Connecting, Streams
  <2>2. ASSUME a \in Addrs
        PROVE  /\ begun \in Sockets /\ begun.conn = "connecting"
               /\ there \in Sockets /\ there.conn = "established"
    <3>1. begun \in Sockets
      BY <2>2 DEF Sockets, Conns
    <3>2. there \in Sockets
      BY <3>1 DEF Sockets, Conns, Streams
    <3>3. begun.conn = "connecting" /\ there.conn = "established"
      BY <3>1 DEF Sockets
    <3> QED BY <3>1, <3>2, <3>3
  <2>6. full \in Sockets /\ full.conn = "full"
    BY DEF Sockets, Conns
  <2> HIDE DEF begun, there, full
  <2>3. CASE o = <<"error", k>>
    BY <1>1, <2>3
  <2>4. CASE a \in Addrs /\ o = <<"wait", begun>>
    BY <1>1, <2>2, <2>4
  <2>5. CASE a \in Addrs /\ o = <<"ok", there>>
    BY <1>1, <2>2, <2>5 DEF Streams
  <2>7. CASE o = <<"wait", full>>
    BY <1>1, <2>6, <2>7
  <2> QED BY <2>1, <2>3, <2>4, <2>5, <2>7
<1>2. CASE k.conn = "connecting"
  <2>1. o = <<"error", k>> \/ o = <<"wait", k>>
    BY <1>2 DEF Connecting, Streams
  <2> QED BY <1>2, <2>1
<1>3. CASE k.conn \in {"failed", "spent"}
  <2>1. o = <<"error", [NewSocket EXCEPT !.nonblk = k.nonblk]>>
    BY <1>3 DEF Connecting, Streams
  <2>2. /\ [NewSocket EXCEPT !.nonblk = k.nonblk] \in Sockets
        /\ [NewSocket EXCEPT !.nonblk = k.nonblk].conn = "fresh"
    BY DEF Sockets, NewSocket, Conns
  <2> QED BY <1>3, <2>1, <2>2
<1>4. CASE k.conn \in Streams \ {"reset"} /\ ~k.told
  <2>1. o = <<"ok", [k EXCEPT !.told = TRUE]>>
    BY <1>4 DEF Connecting, Streams
  <2>2. /\ [k EXCEPT !.told = TRUE] \in Sockets
        /\ [k EXCEPT !.told = TRUE].conn = k.conn
    BY DEF Sockets
  <2> QED BY <1>4, <2>1, <2>2 DEF Streams
<1>5. CASE /\ k.conn \notin {"fresh", "bound", "full", "connecting",
                           "failed", "spent"}
           /\ ~(k.conn \in Streams \ {"reset"} /\ ~k.told)
  <2>1. o = <<"error", k>>
    BY <1>5 DEF Connecting
  <2> QED BY <1>5, <2>1
<1> QED BY <1>1, <1>2, <1>3, <1>4, <1>5
-----------------------------------------------------------------------------
(* What a step may do to the descriptors, and what it then is for Conn and *)
(* for the accounts.                                                       *)
Accounts == kern \in [Fds -> Sockets] /\ DescriptorsAccounted

USE EndpointAssumption

(* A socket that is open is a descriptor; without one Conn is "closed".    *)
LEMMA OwnDescriptor ==
  ASSUME IInv
  PROVE  /\ sock \in Fds \cup {NoFd}
         /\ sock # NoFd => /\ kern[sock] \in Sockets
                           /\ Conn = kern[sock].conn
                           /\ Conn # "closed"
         /\ sock = NoFd => Conn = "closed"
         /\ Conn \in Conns
BY DEF IInv, RecordOK, DescriptorsAccounted, Own, Opened, Conn, Sockets, Conns

(* Nothing happens to them.                                                *)
LEMMA Untouched ==
  ASSUME IInv, UNCHANGED <<kern, left, others, sock>>
  PROVE  Accounts' /\ Conn' = Conn
BY DEF IInv, RecordOK, Accounts, DescriptorsAccounted, Own, Opened, Conn

(* The object's own socket changes.                                        *)
LEMMA OwnChanges ==
  ASSUME IInv, sock # NoFd, NEW s \in Sockets, s.conn # "closed",
         kern' = [kern EXCEPT ![sock] = s],
         UNCHANGED <<left, others, sock>>
  PROVE  Accounts' /\ Conn' = s.conn
<1>1. sock \in Fds /\ kern \in [Fds -> Sockets] /\ kern[sock].conn # "closed"
  BY OwnDescriptor DEF IInv, RecordOK
<1>2. kern' \in [Fds -> Sockets] /\ kern'[sock] = s
  BY <1>1
<1>3. Opened' = Opened
  BY <1>1 DEF Opened
<1>4. Conn' = s.conn
  BY <1>1, <1>2 DEF Conn
<1> QED BY <1>2, <1>3, <1>4 DEF IInv, Accounts, DescriptorsAccounted, Own

(* A new descriptor f becomes the object's, whose old one, if any, closes. *)
LEMMA Replaces ==
  ASSUME IInv, NEW f \in Fds, AfterClose[f].conn = "closed",
         NEW s \in Sockets, s.conn # "closed",
         kern' = [AfterClose EXCEPT ![f] = s],
         sock' = f, UNCHANGED <<left, others>>
  PROVE  Accounts' /\ Conn' = s.conn
<1>1. kern \in [Fds -> Sockets] /\ sock \in Fds \cup {NoFd}
  BY DEF IInv, RecordOK
<1>2. AfterClose \in [Fds -> Sockets]
  BY <1>1 DEF AfterClose, Sockets, NotOpen, NewSocket, Conns
<1>3. kern' \in [Fds -> Sockets] /\ kern'[f] = s
  BY <1>2
<1>4. Opened' = (Opened \ {sock}) \cup {f}
  BY <1>1, <1>2 DEF Opened, AfterClose, NotOpen, NewSocket
<1>5. f \notin left \cup others
  BY <1>1 DEF IInv, DescriptorsAccounted, Opened, Own, AfterClose
<1>6. Conn' = s.conn
  BY <1>3 DEF Conn
<1>7. /\ Own' = {f}
      /\ Opened = Own \cup left \cup others
      /\ Own \cap left = {} /\ Own \cap others = {}
      /\ left \cap others = {}
  BY DEF IInv, DescriptorsAccounted, Own
<1>8. Opened \ {sock} = left \cup others
  BY <1>7 DEF Own, Opened
<1>9. DescriptorsAccounted'
  BY <1>4, <1>5, <1>7, <1>8 DEF DescriptorsAccounted
<1> QED BY <1>3, <1>6, <1>9 DEF Accounts

(* The object's descriptor is closed.                                      *)
LEMMA Closes ==
  ASSUME IInv, kern' = AfterClose, sock' = NoFd, UNCHANGED <<left, others>>
  PROVE  Accounts' /\ Conn' = "closed"
<1>1. kern \in [Fds -> Sockets] /\ sock \in Fds \cup {NoFd}
  BY DEF IInv, RecordOK
<1>2. AfterClose \in [Fds -> Sockets]
  BY <1>1 DEF AfterClose, Sockets, NotOpen, NewSocket, Conns
<1>3. Opened' = Opened \ {sock}
  BY <1>1, <1>2 DEF Opened, AfterClose, NotOpen, NewSocket
<1>4. /\ Own' = {} /\ Conn' = "closed"
      /\ Opened = Own \cup left \cup others
      /\ Own \cap left = {} /\ Own \cap others = {}
      /\ left \cap others = {}
  BY DEF IInv, DescriptorsAccounted, Own, Conn
<1>5. Opened \ {sock} = left \cup others
  BY <1>4 DEF Own, Opened
<1>6. DescriptorsAccounted'
  BY <1>3, <1>4, <1>5 DEF DescriptorsAccounted
<1> QED BY <1>1, <1>2, <1>4, <1>6 DEF Accounts

(* The object goes, and its descriptor stays open.                         *)
LEMMA Abandons ==
  ASSUME IInv, sock # NoFd, NEW s \in Sockets, s.conn # "closed",
         kern' = [kern EXCEPT ![sock] = s],
         left' = left \cup {sock}, sock' = NoFd, UNCHANGED others
  PROVE  Accounts' /\ Conn' = "closed"
<1>1. sock \in Fds /\ kern \in [Fds -> Sockets] /\ kern[sock].conn # "closed"
  BY OwnDescriptor DEF IInv, RecordOK
<1>2. kern' \in [Fds -> Sockets] /\ Opened' = Opened
  BY <1>1 DEF Opened
<1> QED
  BY <1>1, <1>2 DEF IInv, Accounts, DescriptorsAccounted, Own, Conn

(* A descriptor of nobody is opened for somebody else.                     *)
LEMMA OpensOther ==
  ASSUME IInv, NEW f \in Fds \ Opened, NEW s \in Sockets,
         s.conn # "closed", kern' = [kern EXCEPT ![f] = s],
         UNCHANGED sock,
         \/ left' = left \cup {f} /\ UNCHANGED others
         \/ others' = others \cup {f} /\ UNCHANGED left
  PROVE  Accounts' /\ Conn' = Conn
<1>1. kern \in [Fds -> Sockets] /\ sock \in Fds \cup {NoFd}
  BY DEF IInv, RecordOK
<1>2. kern' \in [Fds -> Sockets] /\ Opened' = Opened \cup {f}
  BY <1>1 DEF Opened
<1>3. f \notin Own /\ f \notin left \cup others /\ f # sock
  BY DEF IInv, DescriptorsAccounted, Own
<1>4. Conn' = Conn
  BY <1>1, <1>3 DEF Conn
<1> QED
  BY <1>2, <1>3, <1>4 DEF IInv, Accounts, DescriptorsAccounted, Own
-----------------------------------------------------------------------------
(* What is left to show of a step once Accounts' and Conn' are known.      *)
Rest ==
  /\ left \in SUBSET Fds /\ others \in SUBSET Fds
  /\ sock \in Fds \cup {NoFd}
  /\ state \in States
  /\ nonBlocking \in BOOLEAN /\ errno \in BOOLEAN
  /\ timeout \in Timeouts
  /\ laddr \in Address /\ raddr \in Address /\ bare \in BOOLEAN
  /\ pc \in {"none", "idle", "select", "connect"}
  /\ new \in BOOLEAN /\ bl \in BOOLEAN
  /\ res \in {"none", "ok", "again", "fail"}
  /\ StateIsReal /\ Waiting /\ Absent

LEMMA Together == (Accounts' /\ Rest' => IInv') /\ (IInv => Accounts /\ Rest)
BY DEF Accounts, Rest, IInv, RecordOK, Address

USE DEF Rest, StateIsReal, Waiting, Absent, States, Done, Address

(* The calls that leave the descriptors alone.                             *)
LEMMA QuietStep ==
  ASSUME IInv,
         ConnectUnresolved \/ BindUnresolved \/ SetTimeout
  PROVE  IInv'
<1>1. Accounts' /\ Conn' = Conn
  BY Untouched DEF ConnectUnresolved, BindUnresolved, SetTimeout
<1>2. CASE ConnectUnresolved
  BY <1>1, <1>2, Together DEF ConnectUnresolved, SetConnectTimeout
<1>3. CASE BindUnresolved
  BY <1>1, <1>3, Together DEF BindUnresolved
<1>4. CASE SetTimeout
  BY <1>1, <1>4, Together DEF SetTimeout
<1> QED BY <1>2, <1>3, <1>4

(* A transfer on the object's own socket: data comes or goes.              *)
LEMMA TransferStep ==
  ASSUME IInv, Recv \/ RecvFrom \/ Send \/ SendTo \/ Select
  PROVE  IInv'
<1>1. Accounts' /\ Conn' = Conn
  <2>1. CASE UNCHANGED kern
    BY <2>1, Untouched DEF Recv, RecvFrom, Send, SendTo, Select, Receives,
       Sends, Good, Again, Broken
  <2>2. CASE /\ sock # NoFd
             /\ \E d \in BOOLEAN :
                  kern' = [kern EXCEPT ![sock] = [@ EXCEPT !.data = d]]
             /\ UNCHANGED <<left, others, sock>>
    <3>1. PICK d \in BOOLEAN :
                 kern' = [kern EXCEPT ![sock] = [@ EXCEPT !.data = d]]
      BY <2>2
    <3>2. /\ [kern[sock] EXCEPT !.data = d] \in Sockets
          /\ [kern[sock] EXCEPT !.data = d].conn = kern[sock].conn
      BY <2>2, OwnDescriptor DEF Sockets
    <3>3. kern' = [kern EXCEPT ![sock] = [kern[sock] EXCEPT !.data = d]]
      BY <3>1
    <3> QED BY <2>2, <3>2, <3>3, OwnChanges, OwnDescriptor
  <2> QED
    BY <2>1, <2>2 DEF Recv, RecvFrom, Send, SendTo, Select, Receives,
       Sends, Good, Again, Broken, HasData
<1>2. CASE Recv
  BY <1>1, <1>2, Together DEF Recv, Receives, Good, Again, Broken
<1>3. CASE RecvFrom
  BY <1>1, <1>3, Together DEF RecvFrom, Receives, Good, Again, Broken
<1>4. CASE Send
  BY <1>1, <1>4, Together DEF Send, Sends, Good, Again, Broken
<1>5. CASE SendTo
  BY <1>1, <1>5, Together DEF SendTo, Sends, Good, Again, Broken
<1>6. CASE Select
  BY <1>1, <1>6, Together DEF Select, Good, Broken
<1> QED BY <1>2, <1>3, <1>4, <1>5, <1>6

(* close and free.                                                         *)
LEMMA CloseStep ==
  ASSUME IInv, Close \/ Free
  PROVE  IInv'
<1>1. Accounts' /\ Conn' = "closed"
  BY Closes DEF Close, Free, NoObject
<1>2. CASE Close
  BY <1>1, <1>2, Together DEF Close
<1>3. CASE Free
  <2>1. 0 \in Timeouts
    BY DEF Timeouts
  <2> QED BY <1>1, <1>3, <2>1, Together DEF Free, NoObject
<1> QED BY <1>2, <1>3

(* listen and shutdown change what the socket is.                          *)
LEMMA ListenStep ==
  ASSUME IInv, Listen
  PROVE  IInv'
<1>1. CASE errno' = TRUE /\ Done("fail") /\ UNCHANGED <<kern, state>>
  <2>1. Accounts' /\ Conn' = Conn
    BY <1>1, Untouched DEF Listen
  <2> QED BY <2>1, <1>1, Together DEF Listen
<1>2. CASE /\ Listenable
           /\ kern' = [kern EXCEPT ![sock] = [@ EXCEPT !.conn = "listening"]]
           /\ state' = "LISTEN" /\ errno' = FALSE /\ Done("ok")
  <2>1. sock # NoFd
    BY <1>2, OwnDescriptor DEF Listenable
  <2>2. /\ [kern[sock] EXCEPT !.conn = "listening"] \in Sockets
        /\ [kern[sock] EXCEPT !.conn = "listening"].conn = "listening"
    BY <2>1, OwnDescriptor DEF Sockets, Conns
  <2>3. /\ kern' = [kern EXCEPT ![sock] =
                       [kern[sock] EXCEPT !.conn = "listening"]]
        /\ UNCHANGED <<left, others, sock>>
    BY <1>2 DEF Listen
  <2>4. Accounts' /\ Conn' = "listening"
    BY <2>1, <2>2, <2>3, OwnChanges
  <2> QED BY <1>2, <2>1, <2>4, Together DEF Listen
<1> QED BY <1>1, <1>2 DEF Listen

LEMMA ShutdownStep ==
  ASSUME IInv, Shutdown
  PROVE  IInv'
<1>1. CASE Broken
  <2>1. Accounts' /\ Conn' = Conn
    BY <1>1, Untouched DEF Shutdown, Broken
  <2> QED BY <1>1, <2>1, Together DEF Shutdown, Broken
<1>2. CASE ~Broken
  <2>1. PICK c \in ShutTo(Conn) :
               kern' = [kern EXCEPT ![sock] = [@ EXCEPT !.conn = c]]
    BY <1>2 DEF Shutdown
  <2>2. Conn # "closed" /\ sock # NoFd
    BY <2>1, OwnDescriptor DEF ShutTo
  <2>3. c \in Streams \cup {"bound", "listening", "fresh", "full"}
    BY <2>1 DEF ShutTo, Streams
  <2>4. /\ [kern[sock] EXCEPT !.conn = c] \in Sockets
        /\ [kern[sock] EXCEPT !.conn = c].conn = c /\ c # "closed"
    BY <2>2, <2>3, OwnDescriptor DEF Sockets, Conns, Streams
  <2>5. UNCHANGED <<left, others, sock>>
    BY <1>2 DEF Shutdown
  <2>6. Accounts' /\ Conn' = c
    BY <2>1, <2>2, <2>4, <2>5, OwnChanges
  <2> QED BY <1>2, <2>2, <2>6, Together DEF Shutdown
<1> QED BY <1>1, <1>2

(* accept opens a descriptor, and the object it belongs to may close it.   *)
LEMMA AcceptStep ==
  ASSUME IInv, Accept
  PROVE  IInv'
<1>1. CASE UNCHANGED <<kern, others>> /\ (Again \/ Broken)
  <2>1. Accounts' /\ Conn' = Conn
    BY <1>1, Untouched DEF Accept
  <2> QED BY <1>1, <2>1, Together DEF Accept, Again, Broken
<1>2. CASE /\ \E f \in Fds \ Opened :
                /\ kern' = [kern EXCEPT ![f] = [NewSocket EXCEPT
                              !.conn = "established", !.told = TRUE]]
                /\ others' = others \cup {f}
           /\ Done("ok") /\ UNCHANGED <<state, errno>>
  <2> DEFINE s == [NewSocket EXCEPT !.conn = "established", !.told = TRUE]
  <2>1. s \in Sockets /\ s.conn # "closed"
    BY DEF Sockets, NewSocket, Conns, Streams
  <2>2. PICK f \in Fds \ Opened : /\ kern' = [kern EXCEPT ![f] = s]
                                  /\ others' = others \cup {f}
    BY <1>2
  <2> HIDE DEF s
  <2>3. Accounts' /\ Conn' = Conn
    BY <2>1, <2>2, OpensOther DEF Accept
  <2> QED BY <1>2, <2>2, <2>3, Together DEF Accept
<1> QED BY <1>1, <1>2 DEF Accept, Again, Broken

LEMMA OtherClosedStep ==
  ASSUME IInv, OtherClosed
  PROVE  IInv'
<1>1. PICK f \in others : /\ kern' = [kern EXCEPT ![f] = NotOpen]
                         /\ others' = others \ {f}
  BY DEF OtherClosed
<1>2. /\ kern \in [Fds -> Sockets] /\ sock \in Fds \cup {NoFd}
      /\ f \in Fds /\ f # sock /\ f \notin left
  BY DEF IInv, RecordOK, DescriptorsAccounted, Own
<1>3. kern' \in [Fds -> Sockets] /\ Opened' = Opened \ {f}
  <2>1. NotOpen \in Sockets /\ NotOpen.conn = "closed"
    BY DEF NotOpen, NewSocket, Sockets, Conns
  <2> HIDE DEF NotOpen
  <2> QED BY <1>1, <1>2, <2>1 DEF Opened
<1>4. Conn' = Conn /\ Own' = Own
  BY <1>1, <1>2 DEF OtherClosed, object, Conn, Own
<1>5. DescriptorsAccounted'
  BY <1>1, <1>2, <1>3, <1>4 DEF IInv, DescriptorsAccounted, OtherClosed, Own
<1> QED
  BY <1>1, <1>3, <1>4, <1>5, Together
     DEF OtherClosed, Accounts, object, control

(* set_blocking.                                                           *)
LEMMA SetBlockingStep ==
  ASSUME IInv, SetBlocking
  PROVE  IInv'
<1>1. CASE sock = NoFd
  <2>1. Accounts' /\ Conn' = Conn
    BY <1>1, Untouched DEF SetBlocking
  <2> QED BY <1>1, <2>1, Together DEF SetBlocking
<1>2. CASE sock # NoFd
  <2>1. PICK m \in BOOLEAN :
               /\ kern' = [kern EXCEPT ![sock] = [@ EXCEPT !.nonblk = ~m]]
               /\ nonBlocking' = ~m
    BY <1>2 DEF SetBlocking
  <2>2. /\ [kern[sock] EXCEPT !.nonblk = ~m] \in Sockets
        /\ [kern[sock] EXCEPT !.nonblk = ~m].conn = Conn
        /\ Conn # "closed"
    BY <1>2, OwnDescriptor DEF Sockets
  <2>3. Accounts' /\ Conn' = Conn
    BY <1>2, <2>1, <2>2, OwnChanges DEF SetBlocking
  <2> QED BY <1>2, <2>1, <2>3, Together DEF SetBlocking
<1> QED BY <1>1, <1>2

(* The world changes the connection under the object.                      *)
LEMMA WorldStep ==
  ASSUME IInv, World
  PROVE  IInv'
<1>1. PICK c \in Streams \cup {"failed"}, d \in BOOLEAN :
        /\ Becomes(c, d)
        /\ \/ Conn = "connecting"
           \/ Conn \in Streams /\ c \in Streams
  <2>1. HasData \in BOOLEAN
    BY OwnDescriptor DEF HasData, Sockets
  <2> QED BY <2>1 DEF World, Streams
<1>2. sock # NoFd
  BY <1>1, OwnDescriptor DEF Streams
<1>3. /\ [kern[sock] EXCEPT !.conn = c, !.data = d] \in Sockets
      /\ [kern[sock] EXCEPT !.conn = c, !.data = d].conn = c
      /\ c # "closed"
  BY <1>2, OwnDescriptor DEF Sockets, Conns, Streams
<1>4. Accounts' /\ Conn' = c
  BY <1>1, <1>2, <1>3, OwnChanges DEF Becomes, object
<1> QED
  BY <1>1, <1>2, <1>4, Together DEF Becomes, object, control, Attempted,
     Streams

(* A forked child's copy of the object is destroyed.                       *)
LEMMA ForkedChildStep ==
  ASSUME IInv, ForkedChildEnds
  PROVE  IInv'
<1>1. UNCHANGED <<left, others, object, control>>
  BY DEF ForkedChildEnds
<1>2. CASE UNCHANGED kern
  <2>1. Accounts' /\ Conn' = Conn
    BY <1>1, <1>2, Untouched DEF object
  <2> QED BY <1>1, <2>1, Together DEF object, control
<1>3. CASE /\ Conn \in Streams
           /\ kern' = [kern EXCEPT ![sock] = [@ EXCEPT !.conn = "cut"]]
  <2>1. sock # NoFd
    BY <1>3, OwnDescriptor DEF Streams
  <2>2. /\ [kern[sock] EXCEPT !.conn = "cut"] \in Sockets
        /\ [kern[sock] EXCEPT !.conn = "cut"].conn = "cut"
    BY <2>1, OwnDescriptor DEF Sockets, Conns, Streams
  <2>3. Accounts' /\ Conn' = "cut"
    BY <1>1, <1>3, <2>1, <2>2, OwnChanges DEF object
  <2> QED
    BY <1>1, <1>3, <2>3, Together DEF object, control, Streams, Attempted
<1> QED BY <1>2, <1>3 DEF ForkedChildEnds

(* new: the object gets a descriptor nobody had.                           *)
LEMMA CreateStep ==
  ASSUME IInv, Create \/ CreateFail \/ FromAccept
  PROVE  IInv'
<1> DEFINE Opens(f, s) == kern' = [kern EXCEPT ![f] = s] /\ sock' = f
<1>1. sock = NoFd /\ state = "INIT" /\ kern \in [Fds -> Sockets]
  BY DEF Create, CreateFail, FromAccept, IInv, RecordOK
<1>2. AfterClose = kern
  BY <1>1 DEF AfterClose
<1>3. ASSUME NEW f \in Fds \ Opened, NEW s \in Sockets, s.conn # "closed",
             Opens(f, s), UNCHANGED <<left, others>>
      PROVE  Accounts' /\ Conn' = s.conn
  BY <1>1, <1>2, <1>3, Replaces DEF Opened
<1>4. CASE Create
  <2>1. PICK f \in Fds \ Opened, b \in BOOLEAN, t \in Timeouts,
             la \in Addrs \cup {NoAddr}, ln \in BOOLEAN,
             ra \in Addrs \cup {NoAddr} : CreateWith(f, b, t, la, ln, ra)
    BY <1>4 DEF Create
  <2> DEFINE kind == IF ln THEN "listening"
                     ELSE IF la # NoAddr THEN "bound" ELSE "fresh"
             k == [NewSocket EXCEPT !.conn = kind,
                                    !.nonblk = ra # NoAddr \/ ~b]
             st == CASE k.conn = "listening" -> "LISTEN"
                     [] k.conn = "bound" -> "BOUND" [] OTHER -> "INIT"
             bound == IF ln /\ la = NoAddr THEN AnyAddr ELSE la
  <2>2. /\ k \in Sockets /\ k.conn = kind
        /\ kind \in {"listening", "bound", "fresh"}
    BY DEF Sockets, NewSocket, Conns
  <2>3. st = CASE kind = "listening" -> "LISTEN"
               [] kind = "bound" -> "BOUND" [] OTHER -> "INIT"
    BY <2>2
  <2>4. bound \in Address
    OBVIOUS
  <2>5. CASE /\ ra = NoAddr /\ kern' = [kern EXCEPT ![f] = k]
             /\ laddr' = bound /\ bare' = FALSE /\ state' = st
             /\ nonBlocking' = ~b /\ Done("ok")
    <3>1. Accounts' /\ Conn' = kind
      BY <1>3, <2>1, <2>2, <2>5 DEF CreateWith
    <3> HIDE DEF k, st
    <3> QED
      BY <2>1, <2>2, <2>3, <2>4, <2>5, <3>1, Together DEF CreateWith
  <2>6. ASSUME NEW o \in Connecting(k, ra),
               ra # NoAddr, o[1] = "wait", kern' = [kern EXCEPT ![f] = o[2]],
               laddr' = bound, bare' = FALSE, state' = st,
               nonBlocking' = FALSE,
               pc' = "select", new' = TRUE, bl' = b, res' = "none"
        PROVE  IInv'
    <3> HIDE DEF k, st
    <3>0. ra \in Address /\ k.conn # "closed"
      BY <2>2
    <3>1. /\ o[2] \in Sockets /\ o[2].conn \in {"connecting", "full"}
          /\ kind # "listening"
      BY <2>2, <2>6, <3>0, ConnectOutcome
    <3>2. Accounts' /\ Conn' \in {"connecting", "full"}
      BY <1>3, <2>1, <2>6, <3>1 DEF CreateWith
    <3> QED
      BY <2>1, <2>2, <2>3, <2>4, <2>6, <3>1, <3>2, Together
         DEF CreateWith, Attempted
  <2>7. ASSUME NEW o \in Connecting(k, ra),
               ra # NoAddr, o[1] = "ok",
               kern' = [kern EXCEPT ![f] = [o[2] EXCEPT !.nonblk = ~b]],
               LocalName(f, bound),
               state' = "CONNECTED", nonBlocking' = ~b, Done("ok")
        PROVE  IInv'
    <3> HIDE DEF k, st
    <3>0. ra \in Address /\ k.conn # "closed"
      BY <2>2
    <3>1. o[2] \in Sockets /\ o[2].conn \in Streams
      BY <2>2, <2>7, <3>0, ConnectOutcome
    <3>2. /\ [o[2] EXCEPT !.nonblk = ~b] \in Sockets
          /\ [o[2] EXCEPT !.nonblk = ~b].conn = o[2].conn
      BY <3>1 DEF Sockets
    <3>3. Accounts' /\ Conn' = o[2].conn
      BY <1>3, <2>1, <2>7, <3>1, <3>2 DEF CreateWith, Streams
    <3> QED
      BY <2>1, <2>4, <2>7, <3>1, <3>3, Together DEF CreateWith, LocalName
  <2> QED BY <2>1, <2>5, <2>6, <2>7 DEF CreateWith
<1>5. CASE CreateFail
  <2>1. NewSocket \in Sockets /\ NewSocket.conn # "closed"
    BY DEF Sockets, NewSocket, Conns
  <2>2. PICK f \in Fds \ Opened : /\ kern' = [kern EXCEPT ![f] = NewSocket]
                                  /\ left' = left \cup {f}
    BY <1>5 DEF CreateFail
  <2>3. Accounts' /\ Conn' = Conn
    BY <1>5, <2>1, <2>2, OpensOther DEF CreateFail, object
  <2> QED BY <1>5, <2>2, <2>3, Together DEF CreateFail, object
<1>6. CASE FromAccept
  <2>1. PICK f \in Fds \ Opened, a \in Addrs \cup {NoAddr} :
          Opens(f, [NewSocket EXCEPT !.conn = "established", !.told = TRUE,
                                     !.peer = a]) /\ raddr' = a
             /\ laddr' \in Address /\ bare' = FALSE
    BY <1>6 DEF FromAccept
  <2> DEFINE s == [NewSocket EXCEPT !.conn = "established", !.told = TRUE,
                                    !.peer = a]
  <2>2. s \in Sockets /\ s.conn = "established"
    BY DEF Sockets, NewSocket, Conns, Streams
  <2>3. Accounts' /\ Conn' = "established"
    <3>1. Opens(f, s)
      BY <2>1
    <3>2. UNCHANGED <<left, others>>
      BY <1>6 DEF FromAccept
    <3>3. s.conn # "closed"
      BY <2>2
    <3> HIDE DEF s, Opens
    <3> QED BY <1>3, <2>2, <3>1, <3>2, <3>3
  <2> QED BY <1>6, <2>1, <2>3, Together DEF FromAccept, Streams
<1> QED BY <1>4, <1>5, <1>6

(* bind, on the object's descriptor or on a new one.                       *)
LEMMA BindStep ==
  ASSUME IInv, Bind \/ BindNoSocket
  PROVE  IInv'
<1>1. \A h \in Addrs \cup {NoAddr} : BindTo(h) \in Address
  BY Together DEF BindTo, Chosen
<1>2. \A h \in Addrs \cup {NoAddr} : StillBare(h) \in BOOLEAN
  BY Together DEF StillBare
<1>3. CASE BindNoSocket
  <2>1. Accounts' /\ Conn' = Conn
    BY <1>3, Untouched DEF BindNoSocket
  <2> QED BY <1>1, <1>2, <1>3, <2>1, Together DEF BindNoSocket
<1>4. CASE Bind
  <2>1. PICK h \in Addrs \cup {NoAddr},
             f \in (IF sock = NoFd THEN Fds \ Opened ELSE {sock}) :
          /\ sock' = f
          /\ \/ /\ kern' = [kern EXCEPT ![f] =
                     BoundSocket(IF sock = NoFd THEN NewSocket ELSE kern[f])]
                /\ laddr' = IF StillBare(h) THEN AnyAddr ELSE BindTo(h)
                /\ bare' = FALSE
                /\ state' = "BOUND"
                /\ errno' = FALSE
                /\ Done("ok")
             \/ /\ kern' = [kern EXCEPT ![f] =
                     IF sock = NoFd THEN NewSocket ELSE kern[f]]
                /\ laddr' = BindTo(h) /\ bare' = StillBare(h)
                /\ errno' = TRUE
                /\ Done("fail")
                /\ UNCHANGED state
    BY <1>4 DEF Bind
  <2> DEFINE k == IF sock = NoFd THEN NewSocket ELSE kern[f]
  <2>2. k \in Sockets /\ k.conn # "closed"
    BY <2>1, OwnDescriptor DEF NewSocket, Sockets, Conns
  <2>3. BoundSocket(k) \in Sockets /\ BoundSocket(k).conn # "closed"
    <3> HIDE DEF k
    <3> QED BY <2>2 DEF BoundSocket, Sockets, Conns
  <2>4. ASSUME NEW s \in Sockets, s.conn # "closed",
               kern' = [kern EXCEPT ![f] = s]
        PROVE  Accounts' /\ Conn' = s.conn
    <3>1. UNCHANGED <<left, others>> /\ sock' = f
      BY <1>4, <2>1 DEF Bind
    <3>2. CASE sock = NoFd
      <4>1. f \in Fds \ Opened /\ AfterClose = kern
        BY <2>1, <3>2 DEF AfterClose, IInv, RecordOK
      <4> QED BY <2>4, <3>1, <4>1, Replaces DEF Opened
    <3>3. CASE sock # NoFd
      BY <2>1, <2>4, <3>1, <3>3, OwnChanges
    <3> QED BY <3>2, <3>3
  <2>7. laddr' \in Address /\ bare' \in BOOLEAN
    BY <1>1, <1>2, <2>1 DEF Address
  <2>5. CASE /\ kern' = [kern EXCEPT ![f] = BoundSocket(k)]
             /\ state' = "BOUND" /\ errno' = FALSE /\ Done("ok")
    <3>1. Accounts' /\ Conn' # "closed"
      BY <2>3, <2>4, <2>5
    <3>2. f # NoFd
      BY <2>1, OwnDescriptor
    <3> HIDE DEF k
    <3> QED BY <1>4, <2>1, <2>5, <2>7, <3>1, <3>2, Together DEF Bind
  <2>6. CASE /\ kern' = [kern EXCEPT ![f] = k]
             /\ errno' = TRUE /\ Done("fail") /\ UNCHANGED state
    <3>1. Accounts' /\ Conn' = k.conn
      BY <2>2, <2>4, <2>6
    <3>2. f # NoFd /\ (sock # NoFd => k.conn = Conn)
      BY <2>1, OwnDescriptor
    <3>3. sock = NoFd => state \notin {"CONNECTED", "LISTEN", "BOUND",
                                      "SHUTDOWN"}
      BY OwnDescriptor, Together DEF Streams
    <3> HIDE DEF k
    <3> QED
      BY <1>4, <2>1, <2>6, <2>7, <3>1, <3>2, <3>3, Together DEF Bind
  <2> QED BY <2>1, <2>5, <2>6
<1> QED BY <1>3, <1>4

(* What the address of a connect, and its time limit, can be.              *)
LEMMA Arguments ==
  ASSUME IInv
  PROVE  /\ \A h \in Addrs \cup {NoAddr} : Target(h) \in Address
         /\ \A t \in Timeouts : SetConnectTimeout(t) => timeout' \in Timeouts
         /\ Remaining => timeout' \in Timeouts
         /\ 0 \in Timeouts
<1>1. raddr \in Address /\ timeout \in Timeouts
  BY Together
<1>2. \A h \in Addrs \cup {NoAddr} : Target(h) \in Address
  BY <1>1 DEF Target, Chosen
<1>3. \A t \in Timeouts : SetConnectTimeout(t) => timeout' \in Timeouts
  BY <1>1 DEF SetConnectTimeout
<1>4. Remaining => timeout' \in Timeouts
  BY <1>1 DEF Remaining, Timeouts
<1> QED BY <1>2, <1>3, <1>4 DEF Timeouts

(* A connect has succeeded on a socket that is then connected.             *)
LEMMA ConnectedStep ==
  ASSUME IInv, NEW k, NEW f, NEW a, Connected(k, f, a),
         Accounts', Conn' \in Streams \cup {"full"},
         sock' \in Fds, timeout' \in Timeouts, raddr' \in Address,
         UNCHANGED <<left, others>>
  PROVE  IInv'
<1>1. Rest
  BY Together
<1>2. /\ nonBlocking' \in BOOLEAN /\ laddr' \in Address
      /\ bare' \in BOOLEAN
  BY <1>1 DEF Connected, LocalName
<1>3. /\ state' = "CONNECTED" /\ errno' = FALSE /\ pc' = "idle"
      /\ new' = FALSE /\ bl' = TRUE /\ res' = "ok"
  BY DEF Connected
<1>4. Rest'
  BY <1>1, <1>2, <1>3
<1> QED BY <1>4, Together

(* connect, for which no socket could be opened.                           *)
LEMMA ConnectNoSocketStep ==
  ASSUME IInv, ConnectNoSocket
  PROVE  IInv'
<1>1. Accounts' /\ Conn' = "closed"
  BY Closes DEF ConnectNoSocket
<1>2. timeout' \in Timeouts /\ raddr' \in Address
  BY Arguments DEF ConnectNoSocket
<1>3. state' \in States
         /\ state' \notin {"CONNECTED", "LISTEN", "BOUND", "SHUTDOWN"}
  BY Together, OwnDescriptor
     DEF ConnectNoSocket, MustOpen, Disconnected, Streams
<1> QED BY <1>1, <1>2, <1>3, Together DEF ConnectNoSocket

(* connect, to the point where it has failed, waits or is done.            *)
LEMMA ConnectStep ==
  ASSUME IInv, Connect
  PROVE  IInv'
<1>1. PICK h \in Addrs \cup {NoAddr},
           f \in (IF MustOpen THEN {g \in Fds : AfterClose[g] = NotOpen}
                              ELSE {sock}) :
        /\ raddr' = Target(h)
        /\ sock' = f
        /\ \E o \in Connecting(Prepared(f)[f], Target(h)) :
             LET k == [Prepared(f) EXCEPT ![f] = o[2]]
             IN \/ /\ o[1] = "error"
                   /\ kern' = k
                   /\ state' = Disconnected
                   /\ errno' = TRUE
                   /\ Done("fail")
                   /\ UNCHANGED <<nonBlocking, laddr, bare>>
                \/ /\ o[1] = "wait"
                   /\ kern' = k
                   /\ state' = Disconnected
                   /\ pc' = IF o[2].nonblk THEN "select" ELSE "connect"
                   /\ res' = "none"
                   /\ UNCHANGED <<nonBlocking, laddr, bare, errno, new, bl,
                                  usage>>
                \/ o[1] = "ok" /\ Connected(k, f, Target(h))
  BY DEF Connect
<1>2. /\ timeout' \in Timeouts /\ raddr' \in Address
      /\ Target(h) \in Address /\ UNCHANGED <<left, others>>
      /\ Rest
  BY <1>1, Arguments, Together DEF Connect
<1>3. f \in Fds /\ AfterClose \in [Fds -> Sockets] /\ nonBlocking \in BOOLEAN
  <2>1. kern \in [Fds -> Sockets] /\ NotOpen \in Sockets
    BY DEF IInv, RecordOK, NotOpen, NewSocket, Sockets, Conns
  <2>2. f \in Fds
    BY <1>1, <1>2 DEF MustOpen
  <2> QED BY <1>2, <2>1, <2>2 DEF AfterClose
<1> DEFINE s0 == Prepared(f)[f]
<1>4. /\ s0 \in Sockets /\ s0.conn # "closed"
      /\ MustOpen => s0.conn = "fresh"
      /\ ~MustOpen => f = sock /\ sock # NoFd /\ s0.conn = Conn
  <2>1. CASE MustOpen
    <3>1. s0 = [NewSocket EXCEPT !.nonblk = ~nonBlocking]
      BY <1>3, <2>1 DEF Prepared
    <3> QED BY <1>3, <2>1, <3>1 DEF NewSocket, Sockets, Conns
  <2>2. CASE ~MustOpen
    <3>1. f = sock /\ sock # NoFd
      BY <1>1, <2>2 DEF MustOpen
    <3>2. kern \in [Fds -> Sockets]
      BY DEF IInv, RecordOK
    <3>3. s0 = [kern[f] EXCEPT !.nonblk = kern[f].nonblk \/ ~nonBlocking]
      <4>1. Prepared(f) = [kern EXCEPT ![f] =
              [kern[f] EXCEPT !.nonblk = kern[f].nonblk \/ ~nonBlocking]]
        BY <2>2 DEF Prepared
      <4> QED BY <1>3, <3>2, <4>1
    <3>4. /\ kern[f] \in Sockets /\ kern[f].conn = Conn
          /\ Conn # "closed" /\ kern[f].nonblk \in BOOLEAN
      BY <3>1, OwnDescriptor DEF Sockets
    <3>5. s0 \in Sockets /\ s0.conn = Conn
      BY <1>3, <3>3, <3>4 DEF Sockets
    <3> QED BY <2>2, <3>1, <3>4, <3>5
  <2> QED BY <2>1, <2>2
<1>5. ASSUME NEW s \in Sockets, s.conn # "closed",
             kern' = [Prepared(f) EXCEPT ![f] = s]
      PROVE  Accounts' /\ Conn' = s.conn
  <2>1. CASE MustOpen
    <3>1. kern' = [AfterClose EXCEPT ![f] = s]
      BY <1>3, <1>5, <2>1 DEF Prepared
    <3>2. AfterClose[f].conn = "closed"
      BY <1>1, <2>1 DEF NotOpen, NewSocket
    <3>3. f \in Fds /\ sock' = f /\ UNCHANGED <<left, others>>
      BY <1>1, <1>2, <1>3
    <3> HIDE DEF IInv
    <3> QED BY <1>5, <3>1, <3>2, <3>3, Replaces, Zenon
  <2>2. CASE ~MustOpen
    <3>1. kern \in [Fds -> Sockets]
      BY DEF IInv, RecordOK
    <3>2. kern' = [kern EXCEPT ![sock] = s]
      BY <1>4, <1>5, <2>2, <3>1 DEF Prepared
    <3> QED BY <1>1, <1>2, <1>4, <1>5, <2>2, <3>2, OwnChanges
  <2> QED BY <2>1, <2>2
<1>6. PICK o \in Connecting(s0, Target(h)) :
        LET k == [Prepared(f) EXCEPT ![f] = o[2]]
        IN \/ /\ o[1] = "error"
              /\ kern' = k
              /\ state' = Disconnected
              /\ errno' = TRUE
              /\ Done("fail")
              /\ UNCHANGED <<nonBlocking, laddr, bare>>
           \/ /\ o[1] = "wait"
              /\ kern' = k
              /\ state' = Disconnected
              /\ pc' = IF o[2].nonblk THEN "select" ELSE "connect"
              /\ res' = "none"
              /\ UNCHANGED <<nonBlocking, laddr, bare, errno, new, bl, usage>>
           \/ o[1] = "ok" /\ Connected(k, f, Target(h))
  BY <1>1
<1> HIDE DEF s0
<1>7. /\ o[2] \in Sockets
      /\ o[1] = "ok" => o[2].conn \in Streams
      /\ o[1] = "wait" => o[2].conn \in {"connecting", "full"}
      /\ o[1] = "error" =>
           o[2] = s0 \/ (s0.conn \in {"failed", "spent"} /\
                         o[2].conn = "fresh")
      /\ o[1] # "error" => s0.conn # "listening"
      /\ o[2].conn # "closed"
  BY <1>2, <1>4, ConnectOutcome
<1>8. /\ Disconnected \in States /\ Disconnected # "CONNECTED"
      /\ Disconnected = "LISTEN" => s0.conn = "listening"
  BY <1>2, <1>4, OwnDescriptor DEF Disconnected, MustOpen, Streams
<1>9. CASE /\ o[1] = "error" /\ kern' = [Prepared(f) EXCEPT ![f] = o[2]]
           /\ state' = Disconnected /\ errno' = TRUE /\ Done("fail")
           /\ UNCHANGED <<nonBlocking, laddr, bare>>
  <2>1. Accounts' /\ Conn' = o[2].conn
    BY <1>5, <1>7, <1>9
  <2>2. Disconnected = "LISTEN" => Conn' = "listening"
    BY <1>7, <1>8, <1>9, <2>1
  <2>3. Rest'
    BY <1>1, <1>2, <1>3, <1>8, <1>9, <2>2
  <2> QED BY <2>1, <2>3, Together
<1>10. CASE /\ o[1] = "wait" /\ kern' = [Prepared(f) EXCEPT ![f] = o[2]]
            /\ state' = Disconnected
            /\ pc' = (IF o[2].nonblk THEN "select" ELSE "connect")
            /\ res' = "none"
            /\ UNCHANGED <<nonBlocking, laddr, bare, errno, new, bl, usage>>
  <2>1. Accounts' /\ Conn' \in {"connecting", "full"}
    BY <1>5, <1>7, <1>10
  <2>2. Disconnected # "LISTEN"
    BY <1>7, <1>8, <1>10
  <2>3. Rest'
    BY <1>1, <1>2, <1>3, <1>8, <1>10, <2>1, <2>2 DEF Attempted
  <2> QED BY <2>1, <2>3, Together
<1>11. CASE /\ o[1] = "ok"
            /\ Connected([Prepared(f) EXCEPT ![f] = o[2]], f, Target(h))
  <2> DEFINE nb == IF new THEN ~bl ELSE nonBlocking
             s == [o[2] EXCEPT !.nonblk = nb /\ @]
  <2>1. kern' = [[Prepared(f) EXCEPT ![f] = o[2]] EXCEPT
                   ![f].nonblk = nb /\ @]
    BY <1>11 DEF Connected
  <2>2. Prepared(f) \in [Fds -> Sockets]
    <3>1. kern \in [Fds -> Sockets]
      BY DEF IInv, RecordOK
    <3>2. [NewSocket EXCEPT !.nonblk = ~nonBlocking] \in Sockets
      BY <1>3 DEF NewSocket, Sockets, Conns
    <3>3. [kern[f] EXCEPT !.nonblk = kern[f].nonblk \/ ~nonBlocking]
            \in Sockets
      BY <1>3, <3>1 DEF Sockets
    <3>4. Prepared(f) = IF MustOpen
            THEN [AfterClose EXCEPT ![f] = [NewSocket EXCEPT
                                              !.nonblk = ~nonBlocking]]
            ELSE [kern EXCEPT ![f] = [kern[f] EXCEPT
                   !.nonblk = kern[f].nonblk \/ ~nonBlocking]]
      BY DEF Prepared
    <3> QED BY <1>3, <3>1, <3>2, <3>3, <3>4
  <2>3. kern' = [Prepared(f) EXCEPT ![f] = s]
    <3> HIDE DEF nb
    <3> QED BY <1>3, <2>1, <2>2
  <2>4. s \in Sockets /\ s.conn = o[2].conn
    BY <1>2, <1>7 DEF Sockets
  <2> HIDE DEF s
  <2>5. Accounts' /\ Conn' \in Streams
    BY <1>5, <1>7, <1>11, <2>3, <2>4
  <2> QED BY <1>1, <1>2, <1>3, <1>11, <2>5, ConnectedStep
<1> QED BY <1>6, <1>9, <1>10, <1>11

(* Giving up a connect, with the object's socket replaced by s.            *)
LEMMA GiveUpStep ==
  ASSUME IInv, pc = "select", GiveUp, UNCHANGED others,
         NEW s \in Sockets, s.conn # "closed",
         kern' = [kern EXCEPT ![sock] = s]
  PROVE  IInv'
<1>1. sock # NoFd /\ Rest /\ 0 \in Timeouts
  BY Together, Arguments
<1>2. state \notin {"CONNECTED", "LISTEN"}
  BY <1>1
<1>3. CASE new /\ left' = left \cup {sock} /\ res' = "fail" /\ NoObject
  <2>1. Accounts' /\ Conn' = "closed"
    BY <1>1, <1>3, Abandons DEF NoObject
  <2> QED BY <1>1, <1>3, <2>1, Together DEF NoObject
<1>4. CASE /\ ~new /\ Remaining /\ errno' = TRUE /\ Done("fail")
           /\ UNCHANGED <<left, sock, state, nonBlocking, laddr, bare, raddr>>
  <2>1. Accounts' /\ Conn' = s.conn
    BY <1>1, <1>4, OwnChanges
  <2>2. timeout' \in Timeouts
    BY <1>4, Arguments
  <2> QED BY <1>1, <1>2, <1>4, <2>1, <2>2, Together
<1> QED BY <1>3, <1>4 DEF GiveUp

(* select ends: it has timed out, or an error or the connection is there.  *)
LEMMA SelectStep ==
  ASSUME IInv, SelectTimedOut \/ SelectReady
  PROVE  IInv'
<1>1. /\ pc = "select" /\ sock # NoFd /\ sock \in Fds
      /\ kern \in [Fds -> Sockets] /\ Conn \in Attempted
      /\ kern[sock] \in Sockets /\ kern[sock].conn = Conn /\ Conn # "closed"
  BY Together, OwnDescriptor DEF SelectTimedOut, SelectReady, IInv, RecordOK
<1>2. CASE UNCHANGED <<kern, others>> /\ GiveUp
  <2>1. kern' = [kern EXCEPT ![sock] = kern[sock]]
    BY <1>1, <1>2
  <2> QED BY <1>1, <1>2, <2>1, GiveUpStep
<1>3. CASE SelectReady /\ PendingError /\ Conn = "failed"
  <2> DEFINE s == [kern[sock] EXCEPT !.conn = "spent"]
  <2>1. s \in Sockets /\ s.conn # "closed"
    BY <1>1 DEF Sockets, Conns
  <2>2. kern' = [kern EXCEPT ![sock] = s] /\ GiveUp /\ UNCHANGED others
    BY <1>3 DEF SelectReady
  <2> HIDE DEF s
  <2> QED BY <1>1, <2>1, <2>2, GiveUpStep
<1>4. CASE SelectReady /\ ~PendingError
  <2> DEFINE nb == IF new THEN ~bl ELSE nonBlocking
             s == [kern[sock] EXCEPT !.nonblk = nb /\ kern[sock].nonblk]
  <2>1. Conn \in Streams \cup {"full"}
    BY <1>1, <1>4 DEF SelectReady, PendingError, Attempted
  <2>2. nb \in BOOLEAN
    BY Together
  <2>3. s \in Sockets /\ s.conn = Conn
    <3> HIDE DEF nb
    <3> QED BY <1>1, <2>2 DEF Sockets
  <2>4. kern' = [kern EXCEPT ![sock] = s]
    BY <1>1, <1>4 DEF SelectReady, Connected
  <2> HIDE DEF s
  <2>5. Accounts' /\ Conn' \in Streams \cup {"full"}
    BY <1>1, <1>4, <2>1, <2>3, <2>4, OwnChanges DEF SelectReady
  <2>6. timeout' \in Timeouts /\ raddr' \in Address
    BY <1>4, Arguments, Together DEF SelectReady
  <2> QED BY <1>1, <1>4, <2>5, <2>6, ConnectedStep DEF SelectReady
<1> QED BY <1>2, <1>3, <1>4 DEF SelectTimedOut, SelectReady, PendingError

(* connect(2) blocked, and returns.                                        *)
LEMMA BlockedStep ==
  ASSUME IInv, BlockedReturns
  PROVE  IInv'
<1>1. /\ pc = "connect" /\ sock # NoFd /\ sock \in Fds
      /\ kern \in [Fds -> Sockets] /\ Conn \in Attempted
      /\ kern[sock] \in Sockets /\ kern[sock].conn = Conn /\ Conn # "closed"
      /\ state \notin {"CONNECTED", "LISTEN"}
  BY Together, OwnDescriptor DEF BlockedReturns, IInv, RecordOK
<1>2. CASE Conn \in Streams
  <2> DEFINE k == [kern EXCEPT ![sock] = [@ EXCEPT !.told = TRUE]]
             nb == IF new THEN ~bl ELSE nonBlocking
             s == [kern[sock] EXCEPT !.told = TRUE,
                                     !.nonblk = nb /\ kern[sock].nonblk]
  <2>1. Connected(k, sock, raddr)
    BY <1>2 DEF BlockedReturns
  <2>2. nb \in BOOLEAN
    BY Together
  <2>3. s \in Sockets /\ s.conn = Conn
    <3> HIDE DEF nb
    <3> QED BY <1>1, <2>2 DEF Sockets
  <2>4. kern' = [kern EXCEPT ![sock] = s]
    <3>1. kern' = [k EXCEPT ![sock].nonblk = nb /\ @]
      BY <2>1 DEF Connected
    <3>2. k[sock] = [kern[sock] EXCEPT !.told = TRUE]
      BY <1>1
    <3> HIDE DEF nb
    <3> QED BY <1>1, <3>1, <3>2 DEF Sockets
  <2> HIDE DEF s
  <2>5. Accounts' /\ Conn' \in Streams
    BY <1>1, <1>2, <2>3, <2>4, OwnChanges DEF BlockedReturns
  <2>6. timeout' \in Timeouts /\ raddr' \in Address
    BY Together DEF BlockedReturns
  <2> HIDE DEF k
  <2> QED BY <1>1, <2>1, <2>5, <2>6, ConnectedStep DEF BlockedReturns
<1>3. CASE Conn \notin Streams
  <2>1. PICK s \in {kern[sock], NewSocket} : kern' = [kern EXCEPT ![sock] = s]
    BY <1>1, <1>3 DEF BlockedReturns
  <2>2. s \in Sockets /\ s.conn # "closed"
    <3>1. NewSocket \in Sockets /\ NewSocket.conn # "closed"
      BY DEF NewSocket, Sockets, Conns
    <3> QED BY <1>1, <2>1, <3>1
  <2>3. Accounts'
    BY <1>1, <2>1, <2>2, OwnChanges DEF BlockedReturns
  <2> QED BY <1>1, <1>3, <2>3, Together DEF BlockedReturns
<1> QED BY <1>2, <1>3
-----------------------------------------------------------------------------
LEMMA InitIInv == Init => IInv
<1> SUFFICES ASSUME Init PROVE IInv
  OBVIOUS
<1>1. 0 \in Timeouts
  BY DEF Timeouts
<1>2. NotOpen \in Sockets /\ NotOpen.conn = "closed"
  BY DEF NotOpen, NewSocket, Sockets, Conns
<1> HIDE DEF NotOpen
<1>3. Accounts
  BY <1>2 DEF Init, Accounts, DescriptorsAccounted, Opened, Own
<1> QED BY <1>1, <1>3 DEF Init, IInv, RecordOK, Accounts

LEMMA NextIInv == IInv /\ [Next]_vars => IInv'
<1> SUFFICES ASSUME IInv, [Next]_vars PROVE IInv'
  OBVIOUS
<1>1. CASE UNCHANGED vars
  <2>1. UNCHANGED <<kern, left, others, sock, state, nonBlocking, timeout,
                    laddr, bare, raddr, errno, pc, new, bl, res>>
    BY <1>1 DEF vars, object, control
  <2>2. Accounts' /\ Conn' = Conn
    BY <2>1, Untouched
  <2> QED BY <2>1, <2>2, Together
<1> QED
  BY <1>1, QuietStep, TransferStep, CloseStep, ListenStep, ShutdownStep,
     AcceptStep, OtherClosedStep, SetBlockingStep, WorldStep, CreateStep,
     BindStep, ForkedChildStep, ConnectNoSocketStep, ConnectStep,
     SelectStep, BlockedStep
     DEF Next

(* The names of descriptors, and the files, keep their types.              *)
LEMMA InitNames == Init => NamesOK
BY DEF Init, NamesOK

LEMMA NextNames == IInv /\ NamesOK /\ [Next]_vars => NamesOK'
<1> DEFINE Files == [Addrs -> Fds \cup {NoFd}]
           Named == [Fds -> Address]
<1> SUFFICES ASSUME IInv, NamesOK, [Next]_vars PROVE NamesOK'
  OBVIOUS
<1>1. /\ files \in Files /\ named \in Named /\ usage \in Usages
      /\ (files' \in Files /\ named' \in Named /\ UNCHANGED usage
           => NamesOK')
  BY DEF NamesOK
<1>2. /\ \A p : Without(p) \in Files /\ Cleared(p) \in Files
      /\ \A f \in Fds : \A p : With(f, p) \in Files
  BY <1>1 DEF Without, With, Cleared
<1>3. \A f \in Fds : \A a \in Address : [named EXCEPT ![f] = a] \in Named
  BY <1>1
<1> HIDE DEF Files, Named, Address
<1>4. ASSUME NEW a \in {NoAddr, AnyAddr} \cup Addrs PROVE a \in Address
  BY DEF Address
<1>5. CASE UNCHANGED <<names, usage>>
  BY <1>1, <1>5 DEF names
<1>6. CASE UNCHANGED vars
  BY <1>5, <1>6 DEF vars, control
<1>7. CASE Create
  <2>1. PICK f \in Fds, b \in BOOLEAN, t \in Timeouts,
             la \in Addrs \cup {NoAddr}, ln \in BOOLEAN,
             ra \in Addrs \cup {NoAddr} : CreateWith(f, b, t, la, ln, ra)
    BY <1>7 DEF Create
  <2>2. /\ named' = [named EXCEPT ![f] =
              IF Unix THEN IF ln /\ la = NoAddr THEN AnyAddr ELSE la
              ELSE NoAddr]
        /\ files' = (IF Unix THEN With(f, la) ELSE files)
        /\ UNCHANGED usage
    BY <2>1 DEF CreateWith
  <2> QED BY <1>1, <1>2, <1>3, <1>4, <2>2
<1>8. CASE CreateFail
  BY <1>1, <1>2, <1>3, <1>4, <1>8 DEF CreateFail
<1>9. CASE FromAccept
  <2>1. PICK f \in Fds, name \in Addrs \cup {AnyAddr} :
          /\ named' = [named EXCEPT ![f] = IF Unix THEN name ELSE NoAddr]
          /\ files' = Without(name)
          /\ UNCHANGED usage
    BY <1>9 DEF FromAccept
  <2> QED BY <1>1, <1>2, <1>3, <1>4, <2>1
<1>10. CASE Connect
  <2>1. UNCHANGED <<files, usage>>
    BY <1>10 DEF Connect, Connected
  <2>2. PICK f \in (IF MustOpen THEN {g \in Fds : AfterClose[g] = NotOpen}
                                ELSE {sock}) :
          named' = IF MustOpen THEN [named EXCEPT ![f] = NoAddr] ELSE named
    BY <1>10 DEF Connect
  <2> QED BY <1>1, <1>3, <1>4, <2>1, <2>2
<1>11. CASE SelectTimedOut \/ SelectReady \/ BlockedReturns
  BY <1>5, <1>11
     DEF SelectTimedOut, SelectReady, BlockedReturns, GiveUp, NoObject,
         Connected
<1>12. CASE BindNoSocket
  BY <1>1, <1>2, <1>12 DEF BindNoSocket
<1>13. CASE Bind
  <2>1. PICK h \in Addrs \cup {NoAddr},
             f \in (IF sock = NoFd THEN Fds \ Opened ELSE {sock}) :
          /\ \/ /\ named' = [named EXCEPT ![f] =
                     IF ~Unix THEN NoAddr
                     ELSE IF StillBare(h) THEN AnyAddr ELSE BindTo(h)]
                /\ files' \in {Cleared(BindTo(h)), With(f, BindTo(h))}
             \/ /\ named' = [named EXCEPT ![f] = IF sock = NoFd THEN NoAddr
                                                  ELSE named[f]]
                /\ files' = Cleared(BindTo(h))
          /\ UNCHANGED usage
    BY <1>13 DEF Bind, Cleared
  <2>2. f \in Fds /\ BindTo(h) \in Address /\ named[f] \in Address
    <3>1. f \in Fds
      BY <2>1, OwnDescriptor
    <3>2. laddr \in Address
      BY DEF IInv, RecordOK, Address
    <3> QED BY <1>1, <1>4, <3>1, <3>2 DEF BindTo, Chosen, Named
  <2> QED BY <1>1, <1>2, <1>3, <1>4, <2>1, <2>2
<1>14. CASE Accept
  <2>1. UNCHANGED <<files, usage>>
    BY <1>14 DEF Accept, Again, Broken
  <2>2. CASE UNCHANGED named
    BY <1>1, <2>1, <2>2
  <2>3. CASE /\ Conn = "listening"
             /\ \E f \in Fds : named' = [named EXCEPT ![f] = named[sock]]
    <3>1. sock \in Fds
      BY <2>3, OwnDescriptor
    <3>2. named[sock] \in Address
      BY <1>1, <3>1 DEF Named
    <3> QED BY <1>1, <1>3, <2>1, <2>3, <3>2
  <2> QED BY <1>14, <2>2, <2>3 DEF Accept
<1>15. CASE OtherClosed
  BY <1>1, <1>2, <1>15 DEF OtherClosed, control
<1>16. CASE Close \/ Free
  BY <1>1, <1>2, <1>16 DEF Close, Free, NoObject
<1>17. CASE ForkedChildEnds
  BY <1>1, <1>2, <1>17 DEF ForkedChildEnds, control
<1>18. CASE \/ ConnectUnresolved \/ ConnectNoSocket \/ BindUnresolved
            \/ Listen \/ SetBlocking \/ SetTimeout
  BY <1>5, <1>18
     DEF ConnectUnresolved, ConnectNoSocket, BindUnresolved, Listen,
         SetBlocking, SetTimeout
<1>19. CASE Recv \/ RecvFrom \/ Send \/ SendTo \/ Select \/ Shutdown
  BY <1>5, <1>19
     DEF Recv, RecvFrom, Send, SendTo, Select, Shutdown, Receives, Sends,
         Good, Again, Broken
<1>20. CASE World
  BY <1>5, <1>20 DEF World, Becomes, control
<1> QED
  BY <1>6, <1>7, <1>8, <1>9, <1>10, <1>11, <1>12, <1>13, <1>14, <1>15,
     <1>16, <1>17, <1>18, <1>19, <1>20 DEF Next

LEMMA Inductive == Spec => []IInv
BY InitIInv, NextIInv, PTL DEF Spec

(* Every variable keeps its type: the record holds what the struct of      *)
(* mod_sc.h can hold, and no call leaves a descriptor outside of Fds in it.*)
THEOREM TypeCorrect == Spec => []TypeOK
<1>1. IInv /\ NamesOK => TypeOK
  BY DEF IInv, TypeOK
<1>2. Init => NamesOK
  BY InitNames
<1>3. IInv /\ NamesOK /\ [Next]_vars => NamesOK'
  BY NextNames
<1> QED BY <1>1, <1>2, <1>3, Inductive, PTL DEF Spec

(* Every open descriptor belongs to exactly one object or was left open by *)
(* a new() that failed: connect and its failures, accept, close and free   *)
(* lose no other descriptor, and close none twice.                         *)
THEOREM DescriptorsKept == Spec => []DescriptorsAccounted
<1>1. IInv => DescriptorsAccounted
  BY DEF IInv
<1> QED BY <1>1, Inductive, PTL

(* state() tells the truth: after any sequence of connects that fail, time *)
(* out or succeed, of shutdowns and closes, and whatever the peer does, an *)
(* object says CONNECTED only over a connected descriptor.                 *)
THEOREM StateTold == Spec => []StateIsReal
<1>1. IInv => StateIsReal
  BY DEF IInv
<1> QED BY <1>1, Inductive, PTL
-----------------------------------------------------------------------------
(* The blocking mode and the peer.  Without reopening, O_NONBLOCK is on    *)
(* whenever the object is to be non-blocking, and while select waits.      *)
Mode ==
  ~Reopen =>
    /\ nonBlocking => sock = NoFd \/ NonBlock
    /\ pc = "select" => NonBlock
    /\ pc # "connect"
    /\ pc = "none" => ~nonBlocking
    /\ pc = "idle" /\ state = "CONNECTED" => NonBlock = nonBlocking

(* r_addr is the peer from connect(2) on.                                  *)
Begun == {"connecting"} \cup Streams
Peers ==
  usage \cap {"retry", "addresses"} = {} =>
    /\ pc = "idle" /\ state = "CONNECTED" /\ Conn \in Streams =>
         kern[sock].peer = raddr
    /\ pc \in {"select", "connect"} /\ Conn \in Begun =>
         kern[sock].peer = raddr

(* The object's socket keeps its mode and its peer.                        *)
Kept ==
  /\ UNCHANGED sock
  /\ NonBlock' = NonBlock
  /\ sock # NoFd => kern'[sock].peer = kern[sock].peer
  /\ Conn' \in Begun => Conn \in Begun

LEMMA OwnKept ==
  ASSUME IInv, sock # NoFd, NEW s \in Sockets, UNCHANGED sock,
         kern' = [kern EXCEPT ![sock] = s],
         s.nonblk = kern[sock].nonblk, s.peer = kern[sock].peer,
         s.conn \in Begun => Conn \in Begun
  PROVE  Kept
<1>1. sock \in Fds /\ kern \in [Fds -> Sockets]
  BY OwnDescriptor DEF IInv, RecordOK
<1>2. kern'[sock] = s
  BY <1>1
<1> QED BY <1>2 DEF Kept, NonBlock, Conn

LEMMA AllKept == ASSUME UNCHANGED <<kern, sock>> PROVE Kept
BY DEF Kept, NonBlock, Conn

LEMMA OtherKept ==
  ASSUME IInv, NEW f \in Fds, f # sock, NEW s,
         kern' = [kern EXCEPT ![f] = s], UNCHANGED sock
  PROVE  Kept
<1>1. kern \in [Fds -> Sockets] /\ sock \in Fds \cup {NoFd}
  BY DEF IInv, RecordOK
<1>2. sock # NoFd => kern'[sock] = kern[sock]
  BY <1>1
<1> QED BY <1>2 DEF Kept, NonBlock, Conn

(* A step that keeps the socket, and connects nothing, keeps both.         *)
LEMMA KeptStep ==
  ASSUME IInv, Mode, Peers, Kept, UNCHANGED <<nonBlocking, pc, usage>>,
         state' = "CONNECTED" => state = "CONNECTED",
         raddr' = raddr \/ "addresses" \in usage
  PROVE  Mode' /\ Peers'
<1>1. Mode'
  BY DEF Kept, Mode, Reopen
<1>2. Peers'
  <2>1. pc = "idle" /\ state = "CONNECTED" /\ Conn' \in Streams =>
          Conn \in Streams
    BY DEF Kept, Begun, IInv, Streams
  <2>2. Conn' \in Begun => sock # NoFd
    BY DEF Kept, Begun, Conn, Streams
  <2> QED BY <2>1, <2>2 DEF Kept, Peers, Begun
<1> QED BY <1>1, <1>2

(* The transfers, and what leaves the descriptor alone.                    *)
LEMMA TransferKept ==
  ASSUME IInv, Recv \/ RecvFrom \/ Send \/ SendTo \/ Select
  PROVE  Kept
<1>1. UNCHANGED sock
  BY DEF Recv, RecvFrom, Send, SendTo, Select
<1>2. CASE UNCHANGED kern
  BY <1>1, <1>2, AllKept
<1>3. ASSUME sock # NoFd, NEW d \in BOOLEAN,
             kern' = [kern EXCEPT ![sock] = [@ EXCEPT !.data = d]]
      PROVE  Kept
  <2> DEFINE s == [kern[sock] EXCEPT !.data = d]
  <2>1. /\ s \in Sockets /\ s.nonblk = kern[sock].nonblk
        /\ s.peer = kern[sock].peer /\ s.conn = Conn
    BY <1>3, OwnDescriptor DEF Sockets
  <2>2. kern' = [kern EXCEPT ![sock] = s]
    BY <1>3
  <2> HIDE DEF s
  <2> QED BY <1>1, <1>3, <2>1, <2>2, OwnKept
<1> QED
  BY <1>2, <1>3 DEF Recv, RecvFrom, Send, SendTo, Select, Receives, Sends,
     Good, Again, Broken, HasData

(* A step that changes only what the connection is.                        *)
LEMMA ConnKept ==
  ASSUME IInv, sock # NoFd, UNCHANGED sock, NEW c \in Conns,
         c \in Begun => Conn \in Begun,
         \/ kern' = [kern EXCEPT ![sock] = [@ EXCEPT !.conn = c]]
         \/ \E d \in BOOLEAN :
              kern' = [kern EXCEPT ![sock] = [@ EXCEPT !.conn = c,
                                                       !.data = d]]
  PROVE  Kept
<1>1. kern[sock] \in Sockets
  BY OwnDescriptor
<1>2. CASE kern' = [kern EXCEPT ![sock] = [@ EXCEPT !.conn = c]]
  <2> DEFINE s == [kern[sock] EXCEPT !.conn = c]
  <2>1. /\ s \in Sockets /\ s.nonblk = kern[sock].nonblk
        /\ s.peer = kern[sock].peer /\ s.conn = c
    BY <1>1 DEF Sockets
  <2>2. kern' = [kern EXCEPT ![sock] = s]
    BY <1>2
  <2> HIDE DEF s
  <2> QED BY <2>1, <2>2, OwnKept
<1>3. ASSUME NEW d \in BOOLEAN,
             kern' = [kern EXCEPT ![sock] = [@ EXCEPT !.conn = c,
                                                      !.data = d]]
      PROVE  Kept
  <2> DEFINE s == [kern[sock] EXCEPT !.conn = c, !.data = d]
  <2>1. /\ s \in Sockets /\ s.nonblk = kern[sock].nonblk
        /\ s.peer = kern[sock].peer /\ s.conn = c
    BY <1>1 DEF Sockets
  <2>2. kern' = [kern EXCEPT ![sock] = s]
    BY <1>3
  <2> HIDE DEF s
  <2> QED BY <2>1, <2>2, OwnKept
<1> QED BY <1>2, <1>3

LEMMA ChangeKept ==
  ASSUME IInv, \/ Listen \/ Shutdown \/ World \/ ForkedChildEnds
               \/ Accept \/ OtherClosed
  PROVE  Kept
<1>1. UNCHANGED sock
  BY DEF Listen, Shutdown, World, Becomes, ForkedChildEnds, Accept,
         OtherClosed, object
<1>2. CASE UNCHANGED kern
  BY <1>1, <1>2, AllKept
<1>3. CASE Listen /\ ~UNCHANGED kern
  <2>1. /\ Listenable
        /\ kern' = [kern EXCEPT ![sock] = [@ EXCEPT !.conn = "listening"]]
    BY <1>3 DEF Listen
  <2>2. sock # NoFd
    BY <2>1, OwnDescriptor DEF Listenable
  <2> QED BY <1>1, <2>1, <2>2, ConnKept DEF Conns, Begun, Streams
<1>4. CASE Shutdown /\ ~UNCHANGED kern
  <2>1. PICK c \in ShutTo(Conn) :
               kern' = [kern EXCEPT ![sock] = [@ EXCEPT !.conn = c]]
    BY <1>4 DEF Shutdown, Broken
  <2>2. sock # NoFd /\ c \in Conns /\ (c \in Begun => Conn \in Begun)
    BY <2>1, OwnDescriptor DEF ShutTo, Conns, Begun, Streams
  <2> QED BY <1>1, <2>1, <2>2, ConnKept
<1>5. CASE World
  <2>1. PICK c \in Streams \cup {"failed"}, d \in BOOLEAN :
          Becomes(c, d) /\ Conn \in Begun
    <3>1. HasData \in BOOLEAN
      BY OwnDescriptor DEF HasData, Sockets
    <3> QED BY <1>5, <3>1 DEF World, Streams, Begun
  <2>2. sock # NoFd /\ c \in Conns
    BY <2>1, OwnDescriptor DEF Conns, Begun, Streams
  <2> QED BY <1>1, <2>1, <2>2, ConnKept DEF Becomes
<1>6. CASE ForkedChildEnds /\ ~UNCHANGED kern
  <2>1. /\ Conn \in Streams
        /\ kern' = [kern EXCEPT ![sock] = [@ EXCEPT !.conn = "cut"]]
    BY <1>6 DEF ForkedChildEnds
  <2>2. sock # NoFd
    BY <2>1, OwnDescriptor DEF Streams
  <2> QED BY <1>1, <2>1, <2>2, ConnKept DEF Conns, Begun, Streams
<1>7. CASE Accept /\ ~UNCHANGED kern
  <2>1. PICK f \in Fds \ Opened :
          kern' = [kern EXCEPT ![f] = [NewSocket EXCEPT
                     !.conn = "established", !.told = TRUE]]
    BY <1>7 DEF Accept, Again, Broken
  <2>2. f # sock
    BY OwnDescriptor DEF Opened
  <2> QED BY <1>1, <2>1, <2>2, OtherKept
<1>8. CASE OtherClosed
  <2>1. PICK f \in others : kern' = [kern EXCEPT ![f] = NotOpen]
    BY <1>8 DEF OtherClosed
  <2>2. f \in Fds /\ f # sock
    BY EndpointAssumption
       DEF IInv, RecordOK, DescriptorsAccounted, Own
  <2> QED BY <1>1, <2>1, <2>2, OtherKept
<1> QED BY <1>2, <1>3, <1>4, <1>5, <1>6, <1>7, <1>8

(* The calls after which the object has the socket it had.                 *)
LEMMA KeptSteps ==
  ASSUME IInv, Mode, Peers,
         \/ Recv \/ RecvFrom \/ Send \/ SendTo \/ Select
         \/ Listen \/ Shutdown \/ World \/ ForkedChildEnds
         \/ Accept \/ OtherClosed
         \/ ConnectUnresolved \/ BindUnresolved \/ BindNoSocket \/ SetTimeout
  PROVE  Mode' /\ Peers'
<1>1. Kept
  <2>1. CASE ConnectUnresolved \/ BindUnresolved \/ BindNoSocket \/ SetTimeout
    BY <2>1, AllKept
       DEF ConnectUnresolved, BindUnresolved, BindNoSocket, SetTimeout
  <2> QED BY <2>1, TransferKept, ChangeKept
<1>2. CASE Recv \/ RecvFrom \/ Send \/ SendTo \/ Select
  BY <1>1, <1>2, KeptStep
     DEF Recv, RecvFrom, Send, SendTo, Select, Receives, Sends, Good, Again,
         Broken
<1>3. CASE Listen \/ Shutdown \/ Accept
  BY <1>1, <1>3, KeptStep DEF Listen, Shutdown, Accept, Good, Again, Broken
<1>4. CASE World \/ ForkedChildEnds \/ OtherClosed
  BY <1>1, <1>4, KeptStep
     DEF World, Becomes, ForkedChildEnds, OtherClosed, object, control
<1>5. CASE ConnectUnresolved \/ BindUnresolved \/ BindNoSocket \/ SetTimeout
  BY <1>1, <1>5, KeptStep
     DEF ConnectUnresolved, BindUnresolved, BindNoSocket, SetTimeout
<1> QED BY <1>2, <1>3, <1>4, <1>5

(* bind, which may open a socket.                                          *)
LEMMA BindKept ==
  ASSUME IInv, Mode, Peers, Bind
  PROVE  Mode' /\ Peers'
<1>1. /\ pc = "idle" /\ pc' = "idle" /\ UNCHANGED <<nonBlocking, usage>>
      /\ UNCHANGED raddr
  BY DEF Bind
<1>2. CASE sock = NoFd
  <2>1. state # "CONNECTED" /\ state' # "CONNECTED" /\ Reopen
    <3>1. state # "CONNECTED" /\ Reopen
      BY <1>2, OwnDescriptor, Together DEF Streams, Bind, MayBind
    <3> QED BY <3>1 DEF Bind
  <2>2. Reopen'
    BY <1>1, <2>1 DEF Reopen
  <2> QED BY <1>1, <2>1, <2>2 DEF Mode, Peers
<1>3. CASE sock # NoFd
  <2>1. /\ kern[sock] \in Sockets /\ Conn = kern[sock].conn
        /\ sock \in Fds /\ kern \in [Fds -> Sockets] /\ UNCHANGED sock
    BY <1>3, OwnDescriptor DEF IInv, RecordOK, Bind
  <2>2. \/ kern' = [kern EXCEPT ![sock] = BoundSocket(kern[sock])]
        \/ kern' = [kern EXCEPT ![sock] = kern[sock]]
    BY <1>3 DEF Bind
  <2>3. /\ BoundSocket(kern[sock]) \in Sockets
        /\ BoundSocket(kern[sock]).nonblk = kern[sock].nonblk
        /\ BoundSocket(kern[sock]).peer = kern[sock].peer
        /\ BoundSocket(kern[sock]).conn \in {"bound", Conn}
    BY <2>1 DEF BoundSocket, Sockets, Conns
  <2>4. Kept
    BY <1>3, <2>1, <2>2, <2>3, OwnKept DEF Begun, Streams
  <2>5. state' = "CONNECTED" => state = "CONNECTED"
    BY DEF Bind
  <2> QED BY <1>1, <2>4, <2>5, KeptStep
<1> QED BY <1>2, <1>3

(* close and free, and connect when there is no socket to be had.          *)
LEMMA CloseKept ==
  ASSUME IInv, Mode, Peers, Close \/ Free \/ ConnectNoSocket
  PROVE  Mode' /\ Peers'
<1>1. CASE Close
  BY <1>1 DEF Close, Mode, Peers, Reopen
<1>2. CASE Free
  BY <1>2 DEF Free, NoObject, Mode, Peers
<1>3. CASE ConnectNoSocket
  BY <1>3 DEF ConnectNoSocket, Disconnected, Mode, Peers, Reopen
<1> QED BY <1>1, <1>2, <1>3

LEMMA SetBlockingKept ==
  ASSUME IInv, Mode, Peers, SetBlocking
  PROVE  Mode' /\ Peers'
<1>1. CASE sock = NoFd
  <2>1. UNCHANGED <<kern, sock, nonBlocking, pc, usage, state, raddr>>
    BY <1>1 DEF SetBlocking
  <2> QED BY <2>1, AllKept, KeptStep
<1>2. CASE sock # NoFd
  <2>1. PICK m \in BOOLEAN :
               /\ kern' = [kern EXCEPT ![sock] = [@ EXCEPT !.nonblk = ~m]]
               /\ nonBlocking' = ~m
    BY <1>2 DEF SetBlocking
  <2>2. /\ sock \in Fds /\ kern \in [Fds -> Sockets]
        /\ UNCHANGED <<sock, pc, usage, state, raddr>> /\ pc = "idle"
    BY <1>2, OwnDescriptor DEF SetBlocking, IInv, RecordOK
  <2>3. kern'[sock] = [kern[sock] EXCEPT !.nonblk = ~m]
    BY <2>1, <2>2
  <2>4. /\ kern'[sock].nonblk = ~m /\ kern'[sock].peer = kern[sock].peer
        /\ kern'[sock].conn = kern[sock].conn
    BY <2>2, <2>3 DEF Sockets
  <2>5. NonBlock' = ~m /\ Conn' = Conn
    BY <1>2, <2>2, <2>4 DEF NonBlock, Conn
  <2>6. Mode'
    BY <2>1, <2>2, <2>5 DEF Mode
  <2>7. Peers'
    BY <2>2, <2>4, <2>5 DEF Peers
  <2> QED BY <2>6, <2>7
<1> QED BY <1>1, <1>2

(* A connect that waits, gives up: the object is not connected.            *)
LEMMA GiveUpKept ==
  ASSUME IInv, Mode, Peers, pc = "select", GiveUp, NonBlock' = NonBlock \/ new
  PROVE  Mode' /\ Peers'
<1>1. state # "CONNECTED"
  BY DEF IInv
<1>2. CASE new /\ NoObject
  BY <1>2 DEF NoObject, Mode, Peers
<1>3. CASE ~new /\ UNCHANGED <<sock, state, nonBlocking>> /\ Done("fail")
  BY <1>1, <1>3 DEF Mode, Peers, Reopen
<1> QED BY <1>2, <1>3 DEF GiveUp

(* A connect succeeds on a socket that has O_NONBLOCK and the right peer.  *)
LEMMA ConnectedKept ==
  ASSUME IInv, NEW k \in [Fds -> Sockets], NEW f \in Fds, NEW a,
         Connected(k, f, a), sock' = f,
         ~Reopen => k[f].nonblk,
         usage \cap {"retry", "addresses"} = {} /\ k[f].conn \in Streams =>
           k[f].peer = raddr'
  PROVE  Mode' /\ Peers'
<1> DEFINE nb == IF new THEN ~bl ELSE nonBlocking
<1>1. /\ kern' = [k EXCEPT ![f].nonblk = nb /\ @]
      /\ nonBlocking' = nb /\ pc' = "idle" /\ UNCHANGED usage
  BY DEF Connected
<1>2. nb \in BOOLEAN
  BY Together
<1> HIDE DEF nb
<1>3. kern'[f] = [k[f] EXCEPT !.nonblk = nb /\ k[f].nonblk]
  BY <1>1
<1>4. /\ kern'[f].nonblk = (nb /\ k[f].nonblk)
      /\ kern'[f].peer = k[f].peer /\ kern'[f].conn = k[f].conn
  BY <1>3 DEF Sockets
<1>5. NonBlock' = (nb /\ k[f].nonblk) /\ Conn' = k[f].conn
  BY <1>4 DEF NonBlock, Conn
<1>6. Mode'
  BY <1>1, <1>2, <1>5 DEF Mode, Reopen
<1>7. Peers'
  BY <1>1, <1>4, <1>5 DEF Peers
<1> QED BY <1>6, <1>7

LEMMA SelectKept ==
  ASSUME IInv, Mode, Peers, SelectTimedOut \/ SelectReady \/ BlockedReturns
  PROVE  Mode' /\ Peers'
<1>1. /\ pc \in {"select", "connect"} /\ sock # NoFd /\ sock \in Fds
      /\ kern \in [Fds -> Sockets] /\ Conn \in Attempted
      /\ kern[sock] \in Sockets /\ kern[sock].conn = Conn
      /\ state \notin {"CONNECTED", "LISTEN"}
  BY Together, OwnDescriptor DEF SelectTimedOut, SelectReady,
     BlockedReturns, IInv, RecordOK
<1>2. CASE GiveUp /\ pc = "select" /\ UNCHANGED kern
  <2>1. new \/ UNCHANGED sock
    BY <1>2 DEF GiveUp
  <2> QED BY <1>2, <2>1, GiveUpKept DEF NonBlock
<1>3. CASE SelectReady /\ PendingError /\ Conn = "failed"
  <2>1. /\ GiveUp /\ pc = "select"
        /\ kern' = [kern EXCEPT ![sock] = [@ EXCEPT !.conn = "spent"]]
    BY <1>3 DEF SelectReady
  <2>2. new \/ NonBlock' = NonBlock
    <3>1. kern'[sock] = [kern[sock] EXCEPT !.conn = "spent"]
      BY <1>1, <2>1
    <3>2. kern'[sock].nonblk = kern[sock].nonblk
      BY <1>1, <3>1 DEF Sockets
    <3> QED BY <1>1, <2>1, <3>2 DEF GiveUp, NonBlock
  <2> QED BY <2>1, <2>2, GiveUpKept
<1>4. CASE SelectReady /\ ~PendingError
  <2>1. /\ Connected(kern, sock, raddr) /\ UNCHANGED <<sock, raddr>>
        /\ pc = "select"
    BY <1>4 DEF SelectReady
  <2>2. ~Reopen => kern[sock].nonblk
    BY <2>1 DEF Mode, NonBlock
  <2>3. usage \cap {"retry", "addresses"} = {} /\ kern[sock].conn \in Streams
          => kern[sock].peer = raddr
    BY <1>1, <2>1 DEF Peers, Begun
  <2> QED BY <1>1, <2>1, <2>2, <2>3, ConnectedKept
<1>5. CASE BlockedReturns
  <2>0. Reopen /\ Reopen' /\ pc = "connect" /\ UNCHANGED <<sock, raddr>>
    BY <1>5 DEF BlockedReturns, Mode, Reopen, Connected
  <2>1. CASE Conn \in Streams
    <3> DEFINE s == [kern[sock] EXCEPT !.told = TRUE]
               k == [kern EXCEPT ![sock] = s]
    <3>1. Connected(k, sock, raddr)
      <4>1. Connected([kern EXCEPT ![sock] = [@ EXCEPT !.told = TRUE]], sock,
                      raddr)
        BY <1>5, <2>1 DEF BlockedReturns
      <4>2. k = [kern EXCEPT ![sock] = [@ EXCEPT !.told = TRUE]]
        OBVIOUS
      <4> QED BY <4>1, <4>2
    <3>2. /\ s \in Sockets /\ s.peer = kern[sock].peer
          /\ s.conn = kern[sock].conn
      BY <1>1 DEF Sockets
    <3> HIDE DEF s
    <3>3. k \in [Fds -> Sockets] /\ k[sock] = s
      BY <1>1, <3>2
    <3> HIDE DEF k
    <3>4. usage \cap {"retry", "addresses"} = {} /\ k[sock].conn \in Streams
            => k[sock].peer = raddr
      BY <1>1, <2>0, <3>2, <3>3 DEF Peers, Begun
    <3> QED BY <1>1, <2>0, <3>1, <3>3, <3>4, ConnectedKept
  <2>2. CASE Conn \notin Streams
    BY <1>1, <1>5, <2>0, <2>2 DEF BlockedReturns, Mode, Peers
  <2> QED BY <2>1, <2>2
<1> QED
  BY <1>2, <1>3, <1>4, <1>5 DEF SelectTimedOut, SelectReady, PendingError

(* connect(2) keeps O_NONBLOCK, and a new attempt leads to its address.    *)
LEMMA OutcomeKeeps ==
  ASSUME NEW k \in Sockets, NEW a \in Address, NEW o \in Connecting(k, a)
  PROVE  /\ o[2].nonblk = k.nonblk
         /\ k.conn \in {"fresh", "bound"} /\ o[2].conn \in Begun =>
              o[2].peer = a
<1> DEFINE begun == [k EXCEPT !.conn = "connecting", !.peer = a]
           there == [begun EXCEPT !.conn = "established", !.told = TRUE]
           full == [k EXCEPT !.conn = "full"]
           anew == [NewSocket EXCEPT !.nonblk = k.nonblk]
           told == [k EXCEPT !.told = TRUE]
<1>1. /\ begun.nonblk = k.nonblk /\ begun.peer = a
      /\ there.nonblk = k.nonblk /\ there.peer = a
      /\ full.nonblk = k.nonblk /\ full.conn = "full"
      /\ anew.nonblk = k.nonblk /\ told.nonblk = k.nonblk
  BY DEF Sockets, NewSocket
<1>2. CASE k.conn \in {"fresh", "bound", "full"}
  <2>1. o[2] \in {k, begun, there, full}
    BY <1>2 DEF Connecting, Streams
  <2> HIDE DEF begun, there, full
  <2> QED BY <1>1, <2>1 DEF Begun, Streams
<1>3. CASE k.conn \notin {"fresh", "bound", "full"}
  <2>1. o[2] \in {k, anew, told}
    BY <1>3 DEF Connecting, Streams
  <2> HIDE DEF anew, told
  <2> QED BY <1>1, <1>3, <2>1
<1> QED BY <1>2, <1>3

LEMMA ConnectKept ==
  ASSUME IInv, Mode, Peers, Connect
  PROVE  Mode' /\ Peers'
<1>1. PICK h \in Addrs \cup {NoAddr},
           f \in (IF MustOpen THEN {g \in Fds : AfterClose[g] = NotOpen}
                              ELSE {sock}) :
        /\ raddr' = Target(h)
        /\ sock' = f
        /\ \E o \in Connecting(Prepared(f)[f], Target(h)) :
             LET k == [Prepared(f) EXCEPT ![f] = o[2]]
             IN \/ /\ o[1] = "error"
                   /\ kern' = k
                   /\ state' = Disconnected
                   /\ Done("fail")
                   /\ UNCHANGED nonBlocking
                \/ /\ o[1] = "wait"
                   /\ kern' = k
                   /\ pc' = IF o[2].nonblk THEN "select" ELSE "connect"
                   /\ UNCHANGED <<nonBlocking, new, bl, usage>>
                \/ o[1] = "ok" /\ Connected(k, f, Target(h))
  BY DEF Connect
<1>2. /\ Target(h) \in Address /\ nonBlocking \in BOOLEAN /\ MayConnect
      /\ pc = "idle"
  BY Arguments, Together DEF Connect
<1> DEFINE fresh == [NewSocket EXCEPT !.nonblk = ~nonBlocking]
           again == [kern[f] EXCEPT !.nonblk = kern[f].nonblk \/ ~nonBlocking]
           s0 == Prepared(f)[f]
<1>3. /\ kern \in [Fds -> Sockets] /\ AfterClose \in [Fds -> Sockets]
      /\ f \in Fds /\ fresh \in Sockets /\ again \in Sockets
      /\ fresh.conn = "fresh" /\ again.conn = kern[f].conn
      /\ again.nonblk = (kern[f].nonblk \/ ~nonBlocking)
  <2>1. kern \in [Fds -> Sockets] /\ NotOpen \in Sockets /\ sock \in
          Fds \cup {NoFd}
    BY DEF IInv, RecordOK, NotOpen, NewSocket, Sockets, Conns
  <2>2. f \in Fds
    BY <1>1, <2>1 DEF MustOpen
  <2>3. fresh \in Sockets /\ fresh.conn = "fresh"
    BY <1>2 DEF NewSocket, Sockets, Conns
  <2>4. /\ again \in Sockets /\ again.conn = kern[f].conn
        /\ again.nonblk = (kern[f].nonblk \/ ~nonBlocking)
    BY <1>2, <2>1, <2>2 DEF Sockets
  <2> QED BY <2>1, <2>2, <2>3, <2>4 DEF AfterClose
<1>4. Prepared(f) = IF MustOpen THEN [AfterClose EXCEPT ![f] = fresh]
                                ELSE [kern EXCEPT ![f] = again]
  BY DEF Prepared
<1> HIDE DEF fresh, again
<1>5. /\ s0 = (IF MustOpen THEN fresh ELSE again) /\ s0 \in Sockets
      /\ Prepared(f) \in [Fds -> Sockets]
  BY <1>3, <1>4
<1>6. ~Reopen => s0.nonblk
  <2> SUFFICES ASSUME ~Reopen PROVE s0.nonblk
    OBVIOUS
  <2>1. sock # NoFd /\ state # "CONNECTED"
    BY <1>2 DEF MayConnect
  <2>2. ~MustOpen /\ f = sock
    BY <1>1, <2>1 DEF MustOpen
  <2>3. nonBlocking => kern[f].nonblk
    BY <2>1, <2>2 DEF Mode, NonBlock
  <2> QED BY <1>3, <1>5, <2>2, <2>3
<1>7. "retry" \notin usage => s0.conn \in {"fresh", "bound"}
  <2> SUFFICES ASSUME "retry" \notin usage, ~MustOpen
               PROVE  s0.conn \in {"fresh", "bound"}
    BY <1>3, <1>5
  <2>1. sock # NoFd /\ f = sock /\ Conn \in {"closed", "fresh", "bound"}
    BY <1>1, <1>2 DEF MayConnect, MustOpen
  <2> QED BY <1>3, <1>5, <2>1, OwnDescriptor
<1>8. PICK o \in Connecting(s0, Target(h)) :
        LET k == [Prepared(f) EXCEPT ![f] = o[2]]
        IN \/ /\ o[1] = "error"
              /\ kern' = k
              /\ state' = Disconnected
              /\ Done("fail")
              /\ UNCHANGED nonBlocking
           \/ /\ o[1] = "wait"
              /\ kern' = k
              /\ pc' = IF o[2].nonblk THEN "select" ELSE "connect"
              /\ UNCHANGED <<nonBlocking, new, bl, usage>>
           \/ o[1] = "ok" /\ Connected(k, f, Target(h))
  BY <1>1
<1> DEFINE k == [Prepared(f) EXCEPT ![f] = o[2]]
<1> HIDE DEF s0
<1>9. s0.conn # "closed"
  <2>1. ~MustOpen => s0.conn = Conn /\ sock # NoFd
    BY <1>1, <1>3, <1>5, OwnDescriptor DEF MustOpen
  <2> QED BY <1>3, <1>5, <2>1, OwnDescriptor
<1>10. /\ o[2] \in Sockets /\ o[2].nonblk = s0.nonblk
       /\ s0.conn \in {"fresh", "bound"} /\ o[2].conn \in Begun =>
            o[2].peer = Target(h)
  BY <1>2, <1>5, <1>9, ConnectOutcome, OutcomeKeeps
<1>11. k \in [Fds -> Sockets] /\ k[f] = o[2]
  BY <1>3, <1>5, <1>10
<1>12. kern' = k => /\ NonBlock' = s0.nonblk
                    /\ kern'[sock'] = o[2] /\ Conn' = o[2].conn
  <2> HIDE DEF k
  <2> SUFFICES ASSUME kern' = k
               PROVE  /\ NonBlock' = s0.nonblk
                      /\ kern'[sock'] = o[2] /\ Conn' = o[2].conn
    OBVIOUS
  <2>1. kern'[sock'] = o[2] /\ sock' # NoFd
    BY <1>1, <1>3, <1>11
  <2>2. o[2].nonblk \in BOOLEAN
    BY <1>10 DEF Sockets
  <2> QED BY <1>10, <2>1, <2>2 DEF NonBlock, Conn
<1>13. "retry" \notin usage /\ o[2].conn \in Begun => o[2].peer = raddr'
  BY <1>1, <1>7, <1>10
<1>14. CASE /\ o[1] = "error" /\ kern' = k /\ state' = Disconnected
            /\ Done("fail") /\ UNCHANGED nonBlocking
  <2>1. state' # "CONNECTED" /\ pc' = "idle" /\ UNCHANGED usage
    BY <1>14 DEF Disconnected
  <2>2. Mode'
    BY <1>6, <1>12, <1>14, <2>1 DEF Mode, Reopen
  <2>3. Peers'
    BY <2>1 DEF Peers
  <2> QED BY <2>2, <2>3
<1>15. CASE /\ o[1] = "wait" /\ kern' = k
            /\ pc' = (IF o[2].nonblk THEN "select" ELSE "connect")
            /\ UNCHANGED <<nonBlocking, new, bl, usage>>
  <2>1. Mode'
    BY <1>6, <1>10, <1>12, <1>15 DEF Mode, Reopen
  <2>2. Peers'
    BY <1>12, <1>13, <1>15 DEF Peers
  <2> QED BY <2>1, <2>2
<1>16. CASE o[1] = "ok" /\ Connected(k, f, Target(h))
  <2>1. ~Reopen => k[f].nonblk
    BY <1>6, <1>10, <1>11
  <2>2. usage \cap {"retry", "addresses"} = {} /\ k[f].conn \in Streams
          => k[f].peer = raddr'
    BY <1>11, <1>13 DEF Begun
  <2> HIDE DEF k
  <2> QED BY <1>1, <1>3, <1>11, <1>16, <2>1, <2>2, ConnectedKept
<1> QED BY <1>8, <1>14, <1>15, <1>16

LEMMA CreateKept ==
  ASSUME IInv, Mode, Peers, Create \/ CreateFail \/ FromAccept
  PROVE  Mode' /\ Peers'
<1>1. /\ sock = NoFd /\ state = "INIT" /\ pc = "none"
      /\ kern \in [Fds -> Sockets] /\ (~Reopen => ~nonBlocking)
  BY DEF Create, CreateFail, FromAccept, IInv, RecordOK, Mode
<1>2. CASE CreateFail
  BY <1>1, <1>2 DEF CreateFail, object, Mode, Peers, Reopen
<1>3. CASE FromAccept
  <2>1. PICK f \in Fds \ Opened, a \in Addrs \cup {NoAddr} :
          /\ kern' = [kern EXCEPT ![f] = [NewSocket EXCEPT
               !.conn = "established", !.told = TRUE, !.peer = a]]
          /\ sock' = f /\ raddr' = a
    BY <1>3 DEF FromAccept
  <2> DEFINE s == [NewSocket EXCEPT !.conn = "established", !.told = TRUE,
                                    !.peer = a]
  <2>2. s.nonblk = FALSE /\ s.peer = a
    BY DEF NewSocket
  <2>3. kern'[sock'] = s
    BY <1>1, <2>1
  <2> HIDE DEF s
  <2>4. NonBlock' = FALSE /\ kern'[sock'].peer = raddr'
    BY <2>1, <2>2, <2>3 DEF NonBlock
  <2>5. pc' = "idle" /\ UNCHANGED <<nonBlocking, usage>>
    BY <1>3 DEF FromAccept
  <2>6. nonBlocking \in BOOLEAN
    BY Together
  <2> QED BY <1>1, <2>4, <2>5, <2>6 DEF Mode, Peers, Reopen
<1>4. CASE Create
  <2>1. PICK f \in Fds \ Opened, b \in BOOLEAN, t \in Timeouts,
             la \in Addrs \cup {NoAddr}, ln \in BOOLEAN,
             ra \in Addrs \cup {NoAddr} : CreateWith(f, b, t, la, ln, ra)
    BY <1>4 DEF Create
  <2> DEFINE kind == IF ln THEN "listening"
                     ELSE IF la # NoAddr THEN "bound" ELSE "fresh"
             k == [NewSocket EXCEPT !.conn = kind,
                                    !.nonblk = ra # NoAddr \/ ~b]
  <2>2. /\ k \in Sockets /\ k.conn = kind /\ k.nonblk = (ra # NoAddr \/ ~b)
        /\ kind \in {"listening", "bound", "fresh"}
    BY DEF Sockets, NewSocket, Conns
  <2>3. CASE /\ ra = NoAddr /\ kern' = [kern EXCEPT ![f] = k] /\ sock' = f
             /\ nonBlocking' = ~b /\ Done("ok") /\ state' # "CONNECTED"
    <3>1. kern'[sock'] = k
      BY <1>1, <2>3
    <3> HIDE DEF k
    <3>2. NonBlock' = ~b
      BY <2>2, <2>3, <3>1 DEF NonBlock
    <3> QED BY <2>3, <3>2 DEF Mode, Peers
  <2>4. ASSUME NEW o \in Connecting(k, ra), ra # NoAddr,
               o[1] \in {"wait", "ok"}
        PROVE  /\ o[2] \in Sockets /\ o[2].nonblk
               /\ o[2].conn \in Begun => o[2].peer = ra
    <3> HIDE DEF k
    <3>1. ra \in Address /\ k.conn # "closed"
      BY <2>2
    <3>2. o[2] \in Sockets /\ k.conn # "listening"
      BY <2>2, <2>4, <3>1, ConnectOutcome
    <3>3. k.conn \in {"fresh", "bound"}
      BY <2>2, <3>2
    <3>4. o[2].nonblk = (ra # NoAddr \/ ~b)
      BY <2>2, <3>1, OutcomeKeeps
    <3>5. o[2].conn \in Begun => o[2].peer = ra
      BY <2>2, <3>1, <3>3, OutcomeKeeps
    <3> QED BY <2>4, <3>2, <3>4, <3>5
  <2>5. ASSUME NEW o \in Connecting(k, ra), ra # NoAddr, o[1] = "wait",
               kern' = [kern EXCEPT ![f] = o[2]], sock' = f, raddr' = ra,
               nonBlocking' = FALSE, pc' = "select"
        PROVE  Mode' /\ Peers'
    <3> HIDE DEF k
    <3>1. kern'[sock'] = o[2]
      BY <1>1, <2>5
    <3> QED BY <2>4, <2>5, <3>1 DEF Mode, Peers, NonBlock, Conn
  <2>6. ASSUME NEW o \in Connecting(k, ra), ra # NoAddr, o[1] = "ok",
               kern' = [kern EXCEPT ![f] = [o[2] EXCEPT !.nonblk = ~b]],
               sock' = f, raddr' = ra,
               nonBlocking' = ~b, Done("ok")
        PROVE  Mode' /\ Peers'
    <3> HIDE DEF k
    <3>1. kern'[sock'] = [o[2] EXCEPT !.nonblk = ~b]
      BY <1>1, <2>6
    <3>2. /\ kern'[sock'].nonblk = ~b /\ kern'[sock'].peer = o[2].peer
          /\ kern'[sock'].conn = o[2].conn
      BY <2>4, <2>6, <3>1 DEF Sockets
    <3>3. NonBlock' = ~b /\ Conn' = o[2].conn
      BY <2>6, <3>2 DEF NonBlock, Conn
    <3> QED BY <2>4, <2>6, <3>2, <3>3 DEF Mode, Peers, Begun
  <2> QED BY <2>1, <2>3, <2>5, <2>6 DEF CreateWith
<1> QED BY <1>2, <1>3, <1>4

LEMMA InitKept == Init => Mode /\ Peers
BY DEF Init, Mode, Peers

LEMMA NextKept == IInv /\ Mode /\ Peers /\ [Next]_vars => Mode' /\ Peers'
<1> SUFFICES ASSUME IInv, Mode, Peers, [Next]_vars PROVE Mode' /\ Peers'
  OBVIOUS
<1>1. CASE UNCHANGED vars
  <2>1. UNCHANGED <<kern, sock, state, nonBlocking, raddr, pc, usage>>
    BY <1>1 DEF vars, object, control
  <2> QED BY <2>1, AllKept, KeptStep
<1> QED
  BY <1>1, KeptSteps, BindKept, CloseKept, SetBlockingKept, SelectKept,
     ConnectKept, CreateKept DEF Next

(* get_blocking tells the mode of a connected descriptor, which connect    *)
(* has switched to O_NONBLOCK and back, after any connects that failed or  *)
(* timed out, unless the object has been used again after a close.         *)
THEOREM ModeTold == Spec => []ModeAgrees
<1>1. Mode => ModeAgrees
  BY DEF Mode, ModeAgrees
<1>2. IInv /\ Mode /\ Peers /\ [Next]_vars => Mode' /\ Peers'
  BY NextKept
<1> QED BY <1>1, <1>2, InitKept, Inductive, PTL DEF Spec

(* remote_addr() names the peer of the connection, whichever connect made  *)
(* it and however often the object was connected before.                   *)
THEOREM PeerTold == Spec => []PeerIsRemote
<1>1. Peers => PeerIsRemote
  BY DEF Peers, PeerIsRemote
<1>2. IInv /\ Mode /\ Peers /\ [Next]_vars => Mode' /\ Peers'
  BY NextKept
<1> QED BY <1>1, <1>2, InitKept, Inductive, PTL DEF Spec
-----------------------------------------------------------------------------
(* The files of AF_UNIX paths, if no other object or process removes one   *)
(* and bind is not repeated.                                               *)
Plain == Unix /\ usage \cap {"share", "fork", "rebind"} = {}
Unconnected == {"fresh", "bound", "listening", "full"}

(* What the object's own descriptor is bound to is its l_addr, and a file  *)
(* that leads nowhere is at the l_addr; an AF_UNIX connect does not wait   *)
(* but for a full queue.                                                   *)
Paths ==
  /\ pc = "none" => laddr = NoAddr
  /\ \A p \in Addrs : Stale(p) => laddr = p
  /\ sock # NoFd /\ named[sock] # NoAddr => laddr = named[sock]
  /\ Conn \in {"bound", "listening"} => named[sock] # NoAddr
  /\ Conn \in Unconnected /\ named[sock] \in Addrs =>
       files[named[sock]] = sock
  /\ Conn \notin {"connecting", "failed", "spent"}
  /\ pc # "connect" /\ (pc = "select" => Conn = "full")
  /\ state = "BOUND" => /\ laddr # NoAddr
                        /\ laddr \in Addrs => files[laddr] = sock

(* What a step starts from, and where IInv is known to lead.               *)
Before == IInv /\ IInv' /\ NamesOK /\ NamesOK' /\ Plain /\ Paths

LEMMA PlainMeans ==
  ASSUME Before
  PROVE  /\ Unix /\ "share" \notin usage /\ "fork" \notin usage
         /\ "rebind" \notin usage
BY DEF Before, Plain

(* The open descriptors are those of the object and of others.             *)
LEMMA OpenedAre ==
  ASSUME Before
  PROVE  /\ Opened = Own \cup left \cup others
         /\ Opened' = Own' \cup left' \cup others'
         /\ sock \notin left \cup others /\ sock' \notin left' \cup others'
         /\ sock \in Fds \cup {NoFd} /\ sock' \in Fds \cup {NoFd}
         /\ left \subseteq Fds /\ others \subseteq Fds
         /\ sock = NoFd => Conn = "closed"
         /\ sock' = NoFd => Conn' = "closed"
         /\ \A p \in Addrs : /\ files[p] \in Fds \cup {NoFd}
                             /\ files'[p] \in Fds \cup {NoFd}
         /\ left \cap others = {}
         /\ \A f \in Fds : f \in Opened <=> kern[f].conn # "closed"
         /\ \A f \in Fds : f \in Opened' <=> kern'[f].conn # "closed"
BY EndpointAssumption
   DEF Before, IInv, DescriptorsAccounted, RecordOK, NamesOK, Own, Opened,
       Conn

(* A step that touches no name.                                            *)
LEMMA PathsKept ==
  ASSUME Before, UNCHANGED <<named, files, laddr, sock, left, others, pc>>,
         Conn' \in {"bound", "listening"} => named[sock] # NoAddr,
         Conn' \in Unconnected => Conn \in Unconnected,
         Conn' \notin {"connecting", "failed", "spent"},
         Conn = "full" => Conn' = "full" \/ pc # "select",
         state' = "BOUND" => state = "BOUND"
  PROVE  Paths'
<1>1. Opened' = Opened
  BY OpenedAre DEF Own
<1>2. ASSUME NEW p \in Addrs, Stale(p)' PROVE Stale(p)
  BY <1>1, <1>2, OpenedAre DEF Stale
<1> QED BY <1>2 DEF Before, Paths

LEMMA ConnSet ==
  ASSUME IInv, sock # NoFd, NEW c, UNCHANGED sock,
         \/ kern' = [kern EXCEPT ![sock] = [@ EXCEPT !.conn = c]]
         \/ \E d \in BOOLEAN :
              kern' = [kern EXCEPT ![sock] = [@ EXCEPT !.conn = c,
                                                       !.data = d]]
  PROVE  Conn' = c
<1>1. sock \in Fds /\ kern \in [Fds -> Sockets]
  BY OwnDescriptor DEF IInv, RecordOK
<1>2. kern'[sock].conn = c
  BY <1>1 DEF Sockets
<1> QED BY <1>2 DEF Conn

LEMMA TransferConn ==
  ASSUME IInv, Recv \/ RecvFrom \/ Send \/ SendTo \/ Select \/ SetBlocking
  PROVE  Conn' = Conn
<1>1. UNCHANGED sock
  BY DEF Recv, RecvFrom, Send, SendTo, Select, SetBlocking
<1>2. CASE UNCHANGED kern
  BY <1>1, <1>2 DEF Conn
<1>3. ASSUME sock # NoFd, NEW d \in BOOLEAN,
             \/ kern' = [kern EXCEPT ![sock] = [@ EXCEPT !.data = d]]
             \/ kern' = [kern EXCEPT ![sock] = [@ EXCEPT !.nonblk = d]]
      PROVE  Conn' = Conn
  <2>1. sock \in Fds /\ kern \in [Fds -> Sockets]
    BY <1>3, OwnDescriptor DEF IInv, RecordOK
  <2>2. kern'[sock].conn = kern[sock].conn
    BY <1>3, <2>1 DEF Sockets
  <2> QED BY <1>1, <2>2 DEF Conn
<1>4. CASE SetBlocking /\ sock # NoFd
  <2>1. PICK m \in BOOLEAN :
               kern' = [kern EXCEPT ![sock] = [@ EXCEPT !.nonblk = ~m]]
    BY <1>4 DEF SetBlocking
  <2> QED BY <1>3, <1>4, <2>1
<1> QED
  BY <1>2, <1>3, <1>4 DEF Recv, RecvFrom, Send, SendTo, Select, Receives,
     Sends, Good, Again, Broken, HasData, SetBlocking

LEMMA PathsQuiet ==
  ASSUME Before,
         \/ Recv \/ RecvFrom \/ Send \/ SendTo \/ Select \/ SetBlocking
         \/ SetTimeout \/ Listen \/ Shutdown \/ World
  PROVE  Paths'
<1>1. /\ IInv /\ Paths /\ Unix
      /\ Conn \in {"bound", "listening"} => named[sock] # NoAddr
      /\ Conn \notin {"connecting", "failed", "spent"}
  BY DEF Before, Plain, Paths
<1>2. CASE Recv \/ RecvFrom \/ Send \/ SendTo \/ Select \/ SetBlocking
  <2>1. Conn' = Conn
    BY <1>1, <1>2, TransferConn
  <2>2. /\ UNCHANGED <<named, files, laddr, sock, left, others, pc>>
        /\ state' = "BOUND" => state = "BOUND"
    BY <1>2 DEF Recv, RecvFrom, Send, SendTo, Select, SetBlocking, Receives,
       Sends, Good, Again, Broken, names
  <2> QED BY <1>1, <2>1, <2>2, PathsKept
<1>3. CASE SetTimeout
  <2>1. /\ UNCHANGED <<named, files, laddr, sock, left, others, pc, state>>
        /\ Conn' = Conn
    BY <1>3 DEF SetTimeout, names, Conn
  <2> QED BY <1>1, <2>1, PathsKept
<1>4. CASE Listen
  <2>1. /\ UNCHANGED <<named, files, laddr, sock, left, others, pc>>
        /\ pc = "idle" /\ (state' = "BOUND" => state = "BOUND")
    BY <1>4 DEF Listen, names
  <2>2. CASE UNCHANGED kern
    <3>1. Conn' = Conn
      BY <2>1, <2>2 DEF Conn
    <3> QED BY <1>1, <2>1, <3>1, PathsKept
  <2>3. CASE /\ Listenable
             /\ kern' = [kern EXCEPT ![sock] = [@ EXCEPT !.conn = "listening"]]
    <3>1. /\ Conn \in Unconnected /\ sock # NoFd
          /\ named[sock] # NoAddr
      BY <1>1, <2>3, OwnDescriptor DEF Listenable, Unconnected
    <3>2. Conn' = "listening"
      BY <1>1, <2>1, <2>3, <3>1, ConnSet
    <3> QED BY <2>1, <3>1, <3>2, PathsKept
  <2> QED BY <1>4, <2>2, <2>3 DEF Listen
<1>5. CASE Shutdown
  <2>1. /\ UNCHANGED <<named, files, laddr, sock, left, others, pc>>
        /\ pc = "idle" /\ state' # "BOUND"
    BY <1>5 DEF Shutdown, Broken, names
  <2>2. CASE UNCHANGED kern
    <3>1. Conn' = Conn
      BY <2>1, <2>2 DEF Conn
    <3> QED BY <1>1, <2>1, <3>1, PathsKept
  <2>3. ASSUME NEW c \in ShutTo(Conn),
               kern' = [kern EXCEPT ![sock] = [@ EXCEPT !.conn = c]]
        PROVE  Paths'
    <3>1. /\ sock # NoFd
          /\ c \in {"bound", "listening"} => Conn \in {"bound", "listening"}
          /\ c \in Unconnected => Conn \in Unconnected
          /\ c \notin {"connecting", "failed", "spent"}
      BY <1>1, <2>3, OwnDescriptor DEF ShutTo, Unconnected
    <3>2. Conn' = c
      BY <1>1, <2>1, <2>3, <3>1, ConnSet
    <3> QED BY <1>1, <2>1, <3>1, <3>2, PathsKept
  <2> QED BY <1>5, <2>2, <2>3 DEF Shutdown, Broken
<1>6. CASE World
  <2>1. PICK c \in Streams, d \in BOOLEAN : Becomes(c, d) /\ Conn \in Streams
    <3>1. HasData \in BOOLEAN
      BY <1>1, OwnDescriptor DEF HasData, Sockets
    <3> QED BY <1>1, <1>6, <3>1 DEF World, Streams
  <2>2. /\ UNCHANGED <<named, files, laddr, sock, left, others, pc, state>>
        /\ kern' = [kern EXCEPT ![sock] = [@ EXCEPT !.conn = c, !.data = d]]
    BY <2>1 DEF Becomes, names, object, control
  <2>3. sock # NoFd
    BY <1>1, <2>1, OwnDescriptor DEF Streams
  <2>4. Conn' = c
    BY <1>1, <2>2, <2>3, ConnSet
  <2> QED BY <2>1, <2>2, <2>4, PathsKept DEF Streams, Unconnected
<1> QED BY <1>2, <1>3, <1>4, <1>5, <1>6

LEMMA PathsAccept ==
  ASSUME Before, Accept \/ OtherClosed
  PROVE  Paths'
<1>1. CASE Accept /\ UNCHANGED named /\ (Again \/ Broken)
  <2>1. /\ UNCHANGED <<named, files, laddr, sock, left, others, pc>>
        /\ state' = "BOUND" => state = "BOUND"
    BY <1>1 DEF Accept, Again, Broken
  <2>2. Conn' = Conn
    BY <1>1 DEF Accept, Again, Broken, Conn
  <2> QED BY <2>1, <2>2, PathsKept DEF Before, Paths
<1>2. CASE Accept /\ Conn = "listening"
           /\ \E f \in Fds \ Opened :
                /\ kern' = [kern EXCEPT ![f] = [NewSocket EXCEPT
                              !.conn = "established", !.told = TRUE]]
                /\ named' = [named EXCEPT ![f] = named[sock]]
                /\ others' = others \cup {f}
           /\ Done("ok") /\ UNCHANGED state
  <2>1. PICK f \in Fds \ Opened :
          /\ kern' = [kern EXCEPT ![f] = [NewSocket EXCEPT
                        !.conn = "established", !.told = TRUE]]
          /\ named' = [named EXCEPT ![f] = named[sock]]
          /\ others' = others \cup {f}
    BY <1>2
  <2>2. UNCHANGED <<files, laddr, sock, left, pc, state>>
    BY <1>2 DEF Accept
  <2>3. sock \in Fds /\ f # sock
    BY <1>2, OpenedAre DEF Own
  <2>4. /\ named \in [Fds -> Addrs \cup {NoAddr, AnyAddr}]
        /\ kern \in [Fds -> Sockets]
    BY DEF Before, NamesOK, IInv, RecordOK
  <2>5. named'[sock] = named[sock] /\ Conn' = Conn
    BY <2>1, <2>2, <2>3, <2>4 DEF Conn
  <2>6. ASSUME NEW p \in Addrs, Stale(p)' PROVE Stale(p)
    <3>1. files[p] # f => named'[files[p]] = named[files[p]]
      BY <2>1, <2>4, <2>6
    <3>2. Opened' = Opened \cup {f}
      BY <2>1, <2>2, OpenedAre DEF Own
    <3> QED BY <2>1, <2>2, <2>6, <3>1, <3>2, OpenedAre DEF Stale
  <2> QED BY <2>2, <2>3, <2>5, <2>6 DEF Before, Paths
<1>3. CASE OtherClosed
  <2>1. PICK f \in others :
          /\ \A p \in Addrs : named[f] = p => files[p] # sock
          /\ others' = others \ {f}
          /\ files' = Without(named[f])
    BY <1>3 DEF OtherClosed, Before, Plain
  <2>2. UNCHANGED <<named, laddr, sock, left, pc, state>>
    BY <1>3 DEF OtherClosed, object, control
  <2>3. Conn' = Conn
    <3>1. Kept
      BY <1>3, ChangeKept DEF Before
    <3>2. PICK g \in Fds : g # sock /\ kern' = [kern EXCEPT ![g] = NotOpen]
      BY <1>3, OpenedAre DEF OtherClosed
    <3>3. kern \in [Fds -> Sockets]
      BY DEF Before, IInv, RecordOK
    <3> QED BY <2>2, <3>2, <3>3, OpenedAre DEF Conn
  <2>4. Opened' = Opened \ {f}
    BY <2>1, <2>2, OpenedAre DEF Own
  <2>5. \A p \in Addrs : /\ files'[p] = IF p = named[f] THEN NoFd ELSE files[p]
                         /\ files'[p] # NoFd => p # named[f]
    BY <2>1 DEF Without
  <2>6. ASSUME NEW p \in Addrs, Stale(p)' PROVE Stale(p)
    BY <2>2, <2>4, <2>5, <2>6, OpenedAre DEF Stale
  <2>7. \A p \in Addrs : files[p] = sock => files'[p] = sock
    BY <2>1, <2>5
  <2> QED BY <2>2, <2>3, <2>6, <2>7 DEF Before, Paths
<1> QED BY <1>1, <1>2, <1>3 DEF Accept

LEMMA PathsClose ==
  ASSUME Before, Close \/ Free \/ ConnectNoSocket
  PROVE  Paths'
<1>1. /\ sock' = NoFd /\ UNCHANGED <<named, left, others>>
      /\ pc' \in {"idle", "none"}
      /\ \/ files' = Without(laddr) /\ laddr' = NoAddr
         \/ UNCHANGED <<files, laddr>> /\ pc' = "idle"
  BY DEF Close, Free, ConnectNoSocket, NoObject, Cleared, names, Before,
     Plain
<1>2. Conn' = "closed" /\ Opened' = Opened \ {sock}
  BY <1>1, OpenedAre DEF Own
<1>3. ASSUME NEW p \in Addrs, Stale(p)'
      PROVE  laddr = p /\ laddr' = laddr
  <2>1. files'[p] = files[p] /\ files[p] \in Fds
    BY <1>1, <1>3, OpenedAre DEF Stale, Without
  <2>2. Stale(p) \/ (files[p] = sock /\ named[sock] = p)
    <3>1. files[p] \notin Opened' \/ named[files[p]] # p
      BY <1>1, <1>3, <2>1, OpenedAre DEF Stale
    <3>2. files[p] \notin Opened \/ named[files[p]] # p => Stale(p)
      BY <2>1, OpenedAre, EndpointAssumption DEF Stale
    <3>3. files[p] \notin Opened' => files[p] \notin Opened \/ files[p] = sock
      BY <1>2
    <3> QED BY <3>1, <3>2, <3>3
  <2>3. p # NoAddr
    BY EndpointAssumption
  <2>4. laddr = p
    BY <2>1, <2>2, <2>3, EndpointAssumption DEF Before, Paths
  <2> QED BY <1>1, <1>3, <2>1, <2>4, OpenedAre DEF Without, Stale
<1>4. state' # "BOUND"
  BY <1>1 DEF Before, IInv
<1> QED BY <1>1, <1>2, <1>3, <1>4 DEF Before, Paths, Unconnected

LEMMA PathsBind ==
  ASSUME Before, Bind \/ BindNoSocket
  PROVE  Paths'
<1>1. NoFd \notin Fds /\ {NoAddr, AnyAddr} \cap Addrs = {}
  BY EndpointAssumption
<1>2. ASSUME NEW h \in Addrs \cup {NoAddr}, MayBind(h)
      PROVE  laddr = NoAddr \/ (sock = NoFd /\ BindTo(h) = laddr)
  <2>1. laddr # NoAddr => sock = NoFd /\ h = NoAddr
    BY <1>2, PlainMeans DEF MayBind
  <2>2. laddr # NoAddr /\ h = NoAddr => BindTo(h) = laddr
    BY PlainMeans DEF BindTo, Chosen
  <2> QED BY <2>1, <2>2
<1>3. ASSUME NEW p \in Addrs, Stale(p) PROVE laddr = p
  BY <1>3 DEF Before, Paths
<1>4. CASE BindNoSocket
  <2>1. PICK h \in Addrs \cup {NoAddr} :
          /\ MayBind(h) /\ laddr' = BindTo(h) /\ files' = Without(BindTo(h))
    BY <1>4 DEF BindNoSocket, Cleared, Before, Plain
  <2>2. /\ UNCHANGED <<named, sock, left, others, state>>
        /\ sock = NoFd /\ pc' = "idle" /\ Opened' = Opened
    BY <1>4, OpenedAre DEF BindNoSocket, Own
  <2>3. ASSUME NEW p \in Addrs, Stale(p)' PROVE FALSE
    <3>1. files'[p] = files[p] /\ p # BindTo(h)
      BY <2>1, <2>3, OpenedAre DEF Stale, Without
    <3>2. Stale(p)
      BY <2>2, <2>3, <3>1, OpenedAre DEF Stale
    <3> QED BY <1>1, <1>2, <1>3, <2>1, <3>1, <3>2
  <2>4. state' # "BOUND" /\ Conn' = "closed"
    BY <2>2, OpenedAre DEF Before, IInv
  <2> QED BY <2>2, <2>3, <2>4 DEF Before, Paths, Unconnected
<1>5. CASE Bind
  <2>1. PICK h \in Addrs \cup {NoAddr},
             f \in (IF sock = NoFd THEN Fds \ Opened ELSE {sock}) :
          LET k == IF sock = NoFd THEN NewSocket ELSE kern[f]
              name == IF sock = NoFd THEN NoAddr ELSE named[f]
              a == IF StillBare(h) THEN AnyAddr ELSE BindTo(h)
          IN /\ MayBind(h)
             /\ sock' = f
             /\ \/ /\ Bindable(k, a, name)
                   /\ kern' = [kern EXCEPT ![f] = BoundSocket(k)]
                   /\ named' = [named EXCEPT ![f] = a]
                   /\ files' = IF a = BindTo(h) THEN With(f, a)
                               ELSE Without(BindTo(h))
                   /\ laddr' = a
                   /\ state' = "BOUND"
                \/ /\ kern' = [kern EXCEPT ![f] = k]
                   /\ named' = [named EXCEPT ![f] = name]
                   /\ files' = Without(BindTo(h))
                   /\ laddr' = BindTo(h)
                   /\ UNCHANGED state
    BY <1>5 DEF Bind, Cleared, Before, Plain
  <2> DEFINE k == IF sock = NoFd THEN NewSocket ELSE kern[f]
             name == IF sock = NoFd THEN NoAddr ELSE named[f]
             a == IF StillBare(h) THEN AnyAddr ELSE BindTo(h)
  <2>2. /\ f \in Fds /\ sock' = f /\ pc' = "idle"
        /\ UNCHANGED <<left, others>>
    BY <1>5, <2>1, OpenedAre DEF Bind
  <2>3. Opened' = Opened \cup {f}
    BY <2>1, <2>2, OpenedAre DEF Own
  <2>4. /\ kern \in [Fds -> Sockets]
        /\ named \in [Fds -> Addrs \cup {NoAddr, AnyAddr}]
    BY DEF Before, IInv, RecordOK, NamesOK
  <2>5. name = NoAddr
    BY <1>2, <2>1 DEF Before, Paths
  (* What was named f before was no file's socket, but at l_addr.          *)
  <2>6. ASSUME NEW p \in Addrs, files[p] = f PROVE laddr = p
    <3>1. Stale(p)
      BY <1>1, <2>1, <2>2, <2>5, <2>6, OpenedAre DEF Stale
    <3> QED BY <1>3, <3>1
  <2>7. ASSUME NEW p \in Addrs, p # BindTo(h), files'[p] = files[p],
               Stale(p)', named'[f] # p \/ files[p] # f
        PROVE  FALSE
    <3>1. laddr # p
      BY <1>1, <1>2, <2>1, <2>7
    <3>2. files[p] # f
      BY <2>6, <3>1
    <3>3. files[p] \in Fds => named'[files[p]] = named[files[p]]
      BY <2>1, <2>4, <3>2
    <3>4. Stale(p)
      BY <2>3, <2>7, <3>2, <3>3, OpenedAre DEF Stale
    <3> QED BY <1>3, <3>1, <3>4
  <2>8. CASE /\ Bindable(k, a, name)
             /\ kern' = [kern EXCEPT ![f] = BoundSocket(k)]
             /\ named' = [named EXCEPT ![f] = a]
             /\ files' = (IF a = BindTo(h) THEN With(f, a)
                          ELSE Without(BindTo(h)))
             /\ laddr' = a
             /\ state' = "BOUND"
    <3>1. a # NoAddr /\ (a \in Addrs => a = BindTo(h))
      BY <1>1, <2>8 DEF Bindable
    <3> HIDE DEF a
    <3>2. named'[f] = a
      BY <2>2, <2>4, <2>8
    <3>3. a \in Addrs => files'[a] = f
      BY <2>8, <3>1 DEF With
    <3>4. ASSUME NEW p \in Addrs, Stale(p)' PROVE laddr' = p
      <4>1. CASE p = a
        BY <2>8, <4>1
      <4>2. CASE p # a /\ p = BindTo(h)
        <5>1. files'[p] = NoFd
          BY <2>8, <4>2 DEF Without
        <5> QED BY <3>4, <5>1 DEF Stale
      <4>3. CASE p # a /\ p # BindTo(h)
        <5>1. files'[p] = files[p]
          BY <2>8, <4>3 DEF With, Without
        <5> QED BY <2>7, <3>2, <3>4, <4>3, <5>1
      <4> QED BY <4>1, <4>2, <4>3
    <3>5. Conn' \notin {"connecting", "failed", "spent"}
      <4>1. k \in Sockets
            /\ k.conn \notin {"connecting", "failed", "spent"}
        BY <2>1, <2>4, FieldChanged, OwnDescriptor DEF Before, Paths,
           NewSocket
      <4> HIDE DEF k
      <4>2. kern'[f].conn \in {k.conn, "bound"}
        BY <2>2, <2>4, <2>8, <4>1 DEF BoundSocket, Sockets
      <4> QED BY <1>1, <2>2, <4>1, <4>2 DEF Conn
    <3> QED
      BY <2>2, <2>8, <3>1, <3>2, <3>3, <3>4, <3>5 DEF Paths
  <2>9. CASE /\ kern' = [kern EXCEPT ![f] = k]
             /\ named' = [named EXCEPT ![f] = name]
             /\ files' = Without(BindTo(h))
             /\ laddr' = BindTo(h)
             /\ UNCHANGED state
    <3>1. named'[f] = NoAddr
      BY <2>2, <2>4, <2>5, <2>9
    <3>2. ASSUME NEW p \in Addrs, Stale(p)' PROVE laddr' = p
      <4>1. CASE p = BindTo(h)
        BY <2>9, <4>1
      <4>2. CASE p # BindTo(h)
        <5>1. files'[p] = files[p]
          BY <2>9, <4>2 DEF Without
        <5> QED BY <1>1, <2>7, <3>1, <3>2, <4>2, <5>1
      <4> QED BY <4>1, <4>2
    <3>3. Conn' \in {Conn, "fresh"}
      BY <1>1, <2>1, <2>2, <2>4, <2>9, OpenedAre DEF Conn, NewSocket
    <3>4. sock # NoFd => Conn' = Conn /\ sock' = sock
      BY <1>1, <2>1, <2>2, <2>4, <2>9 DEF Conn
    <3>5. sock = NoFd => Conn' = "fresh"
      BY <1>1, <2>1, <2>2, <2>4, <2>9 DEF Conn, NewSocket
    <3>6. state' # "BOUND"
      BY <1>2, <2>1, <2>9 DEF Before, Paths, IInv
    <3>7. Conn' \notin {"bound", "listening"}
      BY <2>1, <2>5, <3>4, <3>5 DEF Before, Paths
    <3> QED
      BY <1>1, <2>2, <3>1, <3>2, <3>3, <3>6, <3>7
         DEF Before, Paths
  <2> QED BY <2>1, <2>8, <2>9
<1> QED BY <1>4, <1>5

(* connect(2) on an AF_UNIX socket is over at once, or finds a full queue. *)
LEMMA UnixOutcome ==
  ASSUME Unix, NEW k \in Sockets, NEW a \in Address,
         NEW o \in Connecting(k, a),
         k.conn \notin {"connecting", "failed", "spent"}
  PROVE  /\ o[2].conn \in {k.conn, "full"} \cup Streams
         /\ o[2].conn = "full" => k.conn \in Unconnected
         /\ o[1] = "wait" => o[2].conn = "full" /\ o[2].nonblk = TRUE
<1> DEFINE begun == [k EXCEPT !.conn = "connecting", !.peer = a]
           there == [begun EXCEPT !.conn = "established", !.told = TRUE]
           full == [k EXCEPT !.conn = "full"]
           told == [k EXCEPT !.told = TRUE]
<1>1. /\ there.conn = "established"
      /\ full.conn = "full" /\ full.nonblk = k.nonblk
      /\ told.conn = k.conn
  BY DEF Sockets
<1>2. CASE k.conn \in {"fresh", "bound", "full"}
  <2>1. \/ o = <<"error", k>>
        \/ o = <<"ok", there>>
        \/ o = <<"wait", full>> /\ k.nonblk
    BY <1>2 DEF Connecting, Streams
  <2>2. k.nonblk \in BOOLEAN
    BY DEF Sockets
  <2> HIDE DEF there, full
  <2> QED BY <1>1, <1>2, <2>1, <2>2 DEF Streams, Unconnected
<1>3. CASE k.conn \notin {"fresh", "bound", "full"}
  <2>1. o = <<"error", k>> \/ (o = <<"ok", told>> /\ k.conn \in Streams)
    BY <1>3 DEF Connecting, Streams
  <2> HIDE DEF told
  <2> QED BY <1>1, <1>3, <2>1 DEF Streams
<1> QED BY <1>2, <1>3

LEMMA PathsConnect ==
  ASSUME Before, Connect
  PROVE  Paths'
<1>0. /\ IInv /\ Paths /\ Unix /\ NoFd \notin Fds
      /\ {NoAddr, AnyAddr} \cap Addrs = {}
  BY EndpointAssumption DEF Before, Plain
<1>1. PICK h \in Addrs \cup {NoAddr},
           f \in (IF MustOpen THEN {g \in Fds : AfterClose[g] = NotOpen}
                              ELSE {sock}) :
        /\ sock' = f
        /\ named' = IF MustOpen THEN [named EXCEPT ![f] = NoAddr] ELSE named
        /\ \E o \in Connecting(Prepared(f)[f], Target(h)) :
             LET k == [Prepared(f) EXCEPT ![f] = o[2]]
             IN \/ /\ o[1] = "error"
                   /\ kern' = k
                   /\ state' = Disconnected
                   /\ Done("fail")
                   /\ UNCHANGED laddr
                \/ /\ o[1] = "wait"
                   /\ kern' = k
                   /\ state' = Disconnected
                   /\ pc' = IF o[2].nonblk THEN "select" ELSE "connect"
                   /\ UNCHANGED laddr
                \/ o[1] = "ok" /\ Connected(k, f, Target(h))
  BY ZenonT(60) DEF Connect
<1>2. /\ UNCHANGED <<left, others, files>>
      /\ Target(h) \in Address /\ nonBlocking \in BOOLEAN
  BY <1>0, Arguments, Together DEF Connect
<1>3. /\ kern \in [Fds -> Sockets]
      /\ named \in [Fds -> Addrs \cup {NoAddr, AnyAddr}]
      /\ sock \in Fds \cup {NoFd}
  BY DEF Before, IInv, RecordOK, NamesOK
<1>4. f \in Fds /\ (~MustOpen => f = sock)
  BY <1>1, <1>3 DEF MustOpen
<1>5. /\ Prepared(f)[f] \in Sockets
      /\ Prepared(f) \in [Fds -> Sockets]
      /\ MustOpen => Prepared(f)[f].conn = "fresh"
      /\ ~MustOpen => Prepared(f)[f].conn = Conn
  <2> DEFINE fresh == [NewSocket EXCEPT !.nonblk = ~nonBlocking]
             again == [kern[f] EXCEPT
                         !.nonblk = kern[f].nonblk \/ ~nonBlocking]
  <2>1. /\ fresh \in Sockets /\ fresh.conn = "fresh"
        /\ NotOpen \in Sockets
    BY <1>2 DEF NewSocket, NotOpen, Sockets, Conns
  <2>2. again \in Sockets /\ again.conn = kern[f].conn
    BY <1>2, <1>3, <1>4 DEF Sockets
  <2>3. Prepared(f) = IF MustOpen THEN [AfterClose EXCEPT ![f] = fresh]
                                  ELSE [kern EXCEPT ![f] = again]
    BY DEF Prepared
  <2>4. AfterClose \in [Fds -> Sockets]
    BY <1>3, <2>1 DEF AfterClose
  <2> HIDE DEF fresh, again
  <2>5. ~MustOpen => Conn = kern[f].conn
    BY <1>0, <1>4, OwnDescriptor
  <2> QED BY <1>3, <1>4, <2>1, <2>2, <2>3, <2>4, <2>5
<1> DEFINE s0 == Prepared(f)[f]
<1>6. PICK o \in Connecting(s0, Target(h)) :
        LET k == [Prepared(f) EXCEPT ![f] = o[2]]
        IN \/ /\ o[1] = "error"
              /\ kern' = k
              /\ state' = Disconnected
              /\ Done("fail")
              /\ UNCHANGED laddr
           \/ /\ o[1] = "wait"
              /\ kern' = k
              /\ state' = Disconnected
              /\ pc' = IF o[2].nonblk THEN "select" ELSE "connect"
              /\ UNCHANGED laddr
           \/ o[1] = "ok" /\ Connected(k, f, Target(h))
  BY <1>1
<1> HIDE DEF s0
<1>7. /\ o[2].conn \in {s0.conn, "full"} \cup Streams
      /\ o[2].conn = "full" => s0.conn \in Unconnected
      /\ o[1] = "wait" => o[2].conn = "full" /\ o[2].nonblk = TRUE
      /\ o[2] \in Sockets
  <2>1. /\ s0 \in Sockets /\ s0.conn # "closed"
        /\ s0.conn \notin {"connecting", "failed", "spent"}
    <3>1. ~MustOpen => Conn # "closed"
      BY <1>0, <1>4, OwnDescriptor
    <3> QED BY <1>0, <1>5, <3>1 DEF s0, Paths
  <2>2. Target(h) \in Address
    BY <1>2
  <2> QED BY <1>0, <2>1, <2>2, UnixOutcome, ConnectOutcome
(* What the step makes of the socket, the record and the files.            *)
<1>8. Conn' = o[2].conn
  <2> DEFINE k == [Prepared(f) EXCEPT ![f] = o[2]]
  <2>1. k \in [Fds -> Sockets] /\ k[f] = o[2]
    BY <1>4, <1>5, <1>7
  <2>2. CASE kern' = k
    BY <1>0, <1>1, <1>4, <2>1, <2>2 DEF Conn
  <2>3. CASE Connected(k, f, Target(h))
    <3> DEFINE nb == IF new THEN ~bl ELSE nonBlocking
    <3>1. kern' = [k EXCEPT ![f].nonblk = nb /\ @]
      BY <2>3 DEF Connected
    <3> HIDE DEF k, nb
    <3>2. kern'[f] = [o[2] EXCEPT !.nonblk = nb /\ o[2].nonblk]
      BY <1>4, <2>1, <3>1
    <3>3. kern'[f].conn = o[2].conn
      BY <1>7, <3>2 DEF Sockets
    <3> QED BY <1>0, <1>1, <1>4, <3>3 DEF Conn
  <2> QED BY <1>6, <2>2, <2>3
<1>9. UNCHANGED laddr
  BY <1>0, <1>6 DEF Connected, LocalName
<1>10. /\ pc' \in {"idle", "select"}
       /\ pc' = "select" => o[2].conn = "full"
  BY <1>6, <1>7 DEF Connected
<1>11. state' = "BOUND" => state = "BOUND"
  BY <1>6 DEF Connected, Disconnected
<1>12. state = "BOUND" => ~MustOpen
  BY <1>0 DEF MustOpen, IInv
<1>13. f \notin left \cup others /\ Opened' = (Opened \ {sock}) \cup {f}
  BY <1>0, <1>1, <1>2, <1>4, OpenedAre DEF Own
<1>14. /\ named'[f] = IF MustOpen THEN NoAddr ELSE named[f]
       /\ \A g \in Fds \ {f} : named'[g] = named[g]
  BY <1>1, <1>3, <1>4
<1>15. ASSUME NEW p \in Addrs, Stale(p)' PROVE laddr = p
  <2>1. files'[p] = files[p] /\ files[p] \in Fds
    BY <1>2, <1>15, OpenedAre DEF Stale
  <2>2. Stale(p)' => files[p] \notin Opened' \/ named'[files[p]] # p
    BY <2>1, OpenedAre DEF Stale
  <2>3. files[p] \notin Opened \/ named[files[p]] # p => Stale(p)
    BY <1>0, <2>1, OpenedAre DEF Stale
  <2>4. Stale(p) => laddr = p
    BY <1>0 DEF Paths
  <2>5. CASE files[p] = sock
    BY <1>0, <2>1, <2>3, <2>4, <2>5 DEF Paths
  <2>6. CASE files[p] # sock
    <3>1. CASE files[p] = f
      <4>1. f \notin Opened
        BY <1>4, <1>13, <2>6, <3>1, OpenedAre DEF Own
      <4> QED BY <2>3, <2>4, <3>1, <4>1
    <3>2. CASE files[p] # f
      <4>1. files[p] \in Opened => files[p] \in Opened'
        BY <1>13, <2>6
      <4> QED BY <1>14, <1>15, <2>1, <2>2, <2>3, <2>4, <3>2, <4>1
    <3> QED BY <3>1, <3>2
  <2> QED BY <2>5, <2>6
<1>16. /\ named'[sock'] # NoAddr => laddr' = named'[sock']
       /\ Conn' \in {"bound", "listening"} => named'[sock'] # NoAddr
       /\ Conn' \in Unconnected /\ named'[sock'] \in Addrs =>
            files'[named'[sock']] = sock'
       /\ Conn' \notin {"connecting", "failed", "spent"}
  <2>1. CASE MustOpen
    BY <1>0, <1>1, <1>5, <1>7, <1>8, <1>14, <2>1
       DEF s0, Unconnected, Streams
  <2>2. CASE ~MustOpen
    BY <1>0, <1>1, <1>2, <1>4, <1>5, <1>7, <1>8, <1>9, <1>14, <2>2
       DEF s0, Paths, Unconnected, Streams
  <2> QED BY <2>1, <2>2
<1>17. state' = "BOUND" => /\ laddr' # NoAddr
                           /\ laddr' \in Addrs => files'[laddr'] = sock'
  BY <1>0, <1>1, <1>2, <1>4, <1>9, <1>11, <1>12 DEF Paths
<1> QED
  BY <1>8, <1>9, <1>10, <1>15, <1>16, <1>17 DEF Paths

(* A connect that waits ends well: the queue was full.                     *)
LEMMA PathsSelect ==
  ASSUME Before, SelectTimedOut \/ SelectReady \/ BlockedReturns
  PROVE  Paths'
<1>1. /\ IInv /\ Paths /\ Unix /\ SelectReady
      /\ Conn = "full" /\ sock # NoFd /\ ~PendingError
  BY DEF Before, Plain, Paths, SelectTimedOut, SelectReady, BlockedReturns,
     PendingError, IInv
<1>2. /\ Connected(kern, sock, raddr)
      /\ UNCHANGED <<named, files, sock, left, others>>
  BY <1>1 DEF SelectReady, names
<1>3. UNCHANGED laddr /\ pc' = "idle" /\ state' = "CONNECTED"
  BY <1>1, <1>2 DEF Connected, LocalName
<1>4. Conn' = "full"
  <2> DEFINE nb == IF new THEN ~bl ELSE nonBlocking
  <2>1. /\ kern' = [kern EXCEPT ![sock].nonblk = nb /\ @]
        /\ sock \in Fds /\ kern \in [Fds -> Sockets]
    BY <1>1, <1>2, OwnDescriptor DEF Connected, IInv, RecordOK
  <2> HIDE DEF nb
  <2>2. kern'[sock].conn = kern[sock].conn
    BY <2>1 DEF Sockets
  <2> QED BY <1>1, <1>2, <2>2 DEF Conn
<1>5. Opened' = Opened
  BY <1>2, OpenedAre DEF Own
<1>6. ASSUME NEW p \in Addrs, Stale(p)' PROVE Stale(p)
  BY <1>2, <1>5, <1>6, OpenedAre DEF Stale
<1> QED BY <1>1, <1>2, <1>3, <1>4, <1>6 DEF Paths, Unconnected

(* new: nothing stale is left by then.                                     *)
LEMMA PathsCreate ==
  ASSUME Before, Create \/ CreateFail \/ FromAccept
  PROVE  Paths'
<1>1. /\ NoFd \notin Fds /\ {NoAddr, AnyAddr} \cap Addrs = {} /\ Unix
      /\ sock = NoFd /\ state = "INIT" /\ pc = "none" /\ laddr = NoAddr
      /\ kern \in [Fds -> Sockets]
      /\ named \in [Fds -> Addrs \cup {NoAddr, AnyAddr}]
  BY EndpointAssumption DEF Before, Plain, Create, CreateFail, FromAccept,
     IInv, RecordOK, NamesOK, Paths
<1>2. ASSUME NEW p \in Addrs PROVE ~Stale(p)
  BY <1>1 DEF Before, Paths
(* A new descriptor f, whose file, if any, is the one it is named after.   *)
<1>3. ASSUME NEW f \in Fds \ Opened, NEW a \in Address, NEW path \in Address,
             f \in Opened',
             Opened' = Opened \cup {f},
             named' = [named EXCEPT ![f] = a],
             \/ files' = Without(path)
             \/ files' = With(f, path) /\ (path \in Addrs => a = path)
      PROVE  \A p \in Addrs : ~Stale(p)'
  <2> SUFFICES ASSUME NEW p \in Addrs, Stale(p)' PROVE FALSE
    OBVIOUS
  <2>1. files[p] # f
    BY <1>1, <1>2, <1>3, OpenedAre DEF Stale
  <2>2. named'[f] = a /\ \A g \in Fds \ {f} : named'[g] = named[g]
    BY <1>1, <1>3
  <2>3. CASE files'[p] = files[p]
    <3>1. files[p] \in Fds \ {f}
      BY <2>1, <2>3, OpenedAre DEF Stale
    <3>2. files[p] \in Opened /\ named[files[p]] = p
      BY <1>1, <1>2, <3>1, OpenedAre DEF Stale
    <3>3. files[p] \in Opened' /\ named'[files[p]] = p
      BY <1>3, <2>2, <3>1, <3>2
    <3> QED BY <2>3, <3>1, <3>3, OpenedAre DEF Stale
  <2>4. CASE files'[p] # files[p]
    <3>1. files'[p] = NoFd \/ (files'[p] = f /\ a = p)
      BY <1>3, <2>4 DEF Without, With
    <3> QED BY <1>3, <2>2, <3>1, OpenedAre DEF Stale
  <2> QED BY <2>3, <2>4
<1>4. CASE CreateFail
  <2>1. PICK f \in Fds \ Opened, la \in Addrs \cup {NoAddr} :
          /\ left' = left \cup {f}
          /\ \/ files' = Without(la) /\ named' = [named EXCEPT ![f] = NoAddr]
             \/ files' = With(f, la) /\ named' = [named EXCEPT ![f] = la]
    BY <1>4 DEF CreateFail
  <2>2. UNCHANGED <<others, sock, state, laddr, pc>>
    BY <1>4 DEF CreateFail, object
  <2>3. Opened' = Opened \cup {f}
    BY <1>1, <2>1, <2>2, OpenedAre DEF Own
  <2>4. \A p \in Addrs : ~Stale(p)'
    BY <1>3, <2>1, <2>3
  <2>5. Conn' = "closed"
    BY <1>1, <2>2, OpenedAre
  <2> QED BY <1>1, <2>2, <2>4, <2>5 DEF Paths, Unconnected
<1>5. CASE FromAccept
  <2>1. PICK f \in Fds \ Opened, a \in Addrs \cup {NoAddr},
             name \in Addrs \cup {AnyAddr} :
          /\ kern' = [kern EXCEPT ![f] = [NewSocket EXCEPT
                        !.conn = "established", !.told = TRUE, !.peer = a]]
          /\ sock' = f
          /\ named' = [named EXCEPT ![f] = name]
          /\ files' = Without(name)
          /\ laddr' = name
    BY <1>1, <1>5 DEF FromAccept
  <2>2. /\ UNCHANGED <<left, others>>
        /\ pc' = "idle" /\ state' = "CONNECTED"
    BY <1>5 DEF FromAccept
  <2>3. Opened' = Opened \cup {f} /\ f \in Opened'
    BY <1>1, <2>1, <2>2, OpenedAre DEF Own
  <2>4. \A p \in Addrs : ~Stale(p)'
    BY <1>3, <2>1, <2>3
  <2>5. Conn' = "established"
    <3>1. kern'[f].conn = "established"
      BY <1>1, <2>1 DEF NewSocket
    <3> QED BY <1>1, <2>1, <3>1 DEF Conn
  <2>6. named'[f] = name
    BY <1>1, <2>1
  <2> QED BY <2>1, <2>2, <2>4, <2>5, <2>6 DEF Paths, Unconnected
<1>6. CASE Create
  <2>1. PICK f \in Fds \ Opened, b \in BOOLEAN, t \in Timeouts,
             la \in Addrs \cup {NoAddr}, ln \in BOOLEAN,
             ra \in Addrs \cup {NoAddr} : CreateWith(f, b, t, la, ln, ra)
    BY <1>6 DEF Create
  <2> DEFINE kind == IF ln THEN "listening"
                     ELSE IF la # NoAddr THEN "bound" ELSE "fresh"
             k == [NewSocket EXCEPT !.conn = kind,
                                    !.nonblk = ra # NoAddr \/ ~b]
             st == CASE k.conn = "listening" -> "LISTEN"
                     [] k.conn = "bound" -> "BOUND" [] OTHER -> "INIT"
             bound == IF ln /\ la = NoAddr THEN AnyAddr ELSE la
  <2>2. /\ k \in Sockets /\ k.conn = kind
        /\ kind \in {"listening", "bound", "fresh"}
        /\ kind = "bound" => ~ln /\ la # NoAddr
        /\ kind = "fresh" => ~ln /\ la = NoAddr
    BY DEF Sockets, NewSocket, Conns
  <2>3. st = "BOUND" => kind = "bound"
    BY <2>2
  <2>4. /\ sock' = f /\ UNCHANGED <<left, others>>
        /\ named' = [named EXCEPT ![f] = bound]
        /\ files' = With(f, la)
    BY <1>1, <2>1 DEF CreateWith
  <2>5. /\ Opened' = Opened \cup {f} /\ f \in Opened'
        /\ named'[f] = bound /\ bound \in Address
        /\ kind \in {"bound", "listening"} => bound # NoAddr
        /\ bound \in Addrs => bound = la /\ files'[bound] = f
    <3>1. Opened' = Opened \cup {f} /\ f \in Opened'
      BY <1>1, <2>4, OpenedAre DEF Own
    <3>2. named'[f] = bound
      BY <1>1, <2>4
    <3>3. bound \in Addrs => bound = la
      BY <1>1
    <3>4. bound \in Addrs => files'[bound] = f
      BY <2>4, <3>3 DEF With
    <3> QED BY <1>1, <2>2, <3>1, <3>2, <3>3, <3>4
  <2>6. \A p \in Addrs : ~Stale(p)'
    <3>1. la \in Addrs => bound = la
      BY <1>1
    <3> HIDE DEF bound
    <3> QED BY <1>3, <2>4, <2>5, <3>1
  <2>7. ASSUME NEW o \in Connecting(k, ra), ra # NoAddr
        PROVE  /\ o[2].conn \in {kind, "full"} \cup Streams
               /\ o[1] = "wait" => o[2].conn = "full"
               /\ o[2] \in Sockets
    <3> HIDE DEF k
    <3>1. /\ ra \in Address /\ k.conn # "closed"
          /\ k.conn \notin {"connecting", "failed", "spent"}
      BY <2>2
    <3>2. o[2] \in Sockets
      BY <2>2, <2>7, <3>1, ConnectOutcome
    <3>3. /\ o[2].conn \in {k.conn, "full"} \cup Streams
          /\ o[1] = "wait" => o[2].conn = "full"
      BY <1>1, <2>2, <2>7, <3>1, UnixOutcome
    <3> QED BY <2>2, <3>2, <3>3
  <2> HIDE DEF bound
  (* In each case: what the socket is, l_addr is its name.                 *)
  <2>8. ASSUME Conn' \in {kind, "full"} \cup Streams, laddr' = bound,
               pc' = "idle" \/ (pc' = "select" /\ Conn' = "full"),
               state' = "BOUND" => kind = "bound"
        PROVE  Paths'
    BY <1>1, <2>2, <2>4, <2>5, <2>6, <2>8 DEF Paths, Unconnected, Streams
  <2>9. CASE /\ ra = NoAddr /\ kern' = [kern EXCEPT ![f] = k]
             /\ laddr' = bound /\ state' = st /\ Done("ok")
    <3>1. kern'[f] = k
      BY <1>1, <2>9
    <3> HIDE DEF k, st
    <3>2. Conn' = kind
      BY <1>1, <2>2, <2>4, <3>1 DEF Conn
    <3> QED BY <2>3, <2>8, <2>9, <3>2
  <2>10. ASSUME NEW o \in Connecting(k, ra), ra # NoAddr, o[1] = "wait",
                kern' = [kern EXCEPT ![f] = o[2]], laddr' = bound,
                state' = st, pc' = "select"
         PROVE  Paths'
    <3> HIDE DEF k, st
    <3>1. Conn' = "full"
      BY <1>1, <2>4, <2>7, <2>10 DEF Conn
    <3> QED BY <2>3, <2>8, <2>10, <3>1
  <2>11. ASSUME NEW o \in Connecting(k, ra), ra # NoAddr,
                kern' = [kern EXCEPT ![f] = [o[2] EXCEPT !.nonblk = ~b]],
                laddr' = bound, state' = "CONNECTED", Done("ok")
         PROVE  Paths'
    <3> HIDE DEF k, st
    <3>1. kern'[f].conn = o[2].conn
      BY <1>1, <2>7, <2>11 DEF Sockets
    <3>2. Conn' = o[2].conn
      BY <1>1, <2>4, <3>1 DEF Conn
    <3> QED BY <2>7, <2>8, <2>11, <3>2
  <2>12. \/ /\ ra = NoAddr /\ kern' = [kern EXCEPT ![f] = k]
            /\ laddr' = bound /\ state' = st /\ Done("ok")
         \/ \E o \in Connecting(k, ra) :
              /\ ra # NoAddr /\ o[1] = "wait"
              /\ kern' = [kern EXCEPT ![f] = o[2]]
              /\ laddr' = bound /\ state' = st /\ pc' = "select"
         \/ \E o \in Connecting(k, ra) :
              /\ ra # NoAddr
              /\ kern' = [kern EXCEPT ![f] = [o[2] EXCEPT !.nonblk = ~b]]
              /\ laddr' = bound /\ state' = "CONNECTED" /\ Done("ok")
    BY <1>1, <2>1 DEF CreateWith, LocalName, bound
  <2> HIDE DEF k, st
  <2> QED BY <2>9, <2>10, <2>11, <2>12
<1> QED BY <1>4, <1>5, <1>6

LEMMA InitPaths == Init => Paths
BY EndpointAssumption DEF Init, Paths, Stale, Conn, Unconnected

LEMMA UsageFixed == Next => UNCHANGED usage
<1>1. Create => UNCHANGED usage
  BY DEF Create, CreateWith
<1>2. CreateFail \/ FromAccept => UNCHANGED usage
  BY DEF CreateFail, FromAccept
<1>3. Connect => UNCHANGED usage
  BY DEF Connect, Connected
<1>4. SelectTimedOut \/ SelectReady \/ BlockedReturns => UNCHANGED usage
  BY DEF SelectTimedOut, SelectReady, BlockedReturns, GiveUp, NoObject,
     Connected
<1>5. Bind \/ BindNoSocket \/ Listen => UNCHANGED usage
  BY DEF Bind, BindNoSocket, Listen
<1>6. Accept => UNCHANGED usage
  BY DEF Accept, Again, Broken
<1>7. Recv \/ RecvFrom \/ Send \/ SendTo \/ Select \/ Shutdown
        => UNCHANGED usage
  BY DEF Recv, RecvFrom, Send, SendTo, Select, Shutdown, Receives, Sends,
     Good, Again, Broken
<1>8. ConnectUnresolved \/ ConnectNoSocket \/ BindUnresolved
        => UNCHANGED usage
  BY DEF ConnectUnresolved, ConnectNoSocket, BindUnresolved
<1>9. Close \/ Free \/ SetBlocking \/ SetTimeout => UNCHANGED usage
  BY DEF Close, Free, NoObject, SetBlocking, SetTimeout
<1>10. OtherClosed \/ ForkedChildEnds \/ World => UNCHANGED usage
  BY DEF OtherClosed, ForkedChildEnds, World, Becomes, control
<1> QED
  BY <1>1, <1>2, <1>3, <1>4, <1>5, <1>6, <1>7, <1>8, <1>9, <1>10 DEF Next

LEMMA NextPaths ==
  /\ IInv /\ NamesOK /\ (Plain => Paths)
  /\ IInv' /\ NamesOK' /\ [Next]_vars
  => (Plain => Paths)'
<1> SUFFICES ASSUME IInv, IInv', NamesOK, NamesOK', Plain => Paths,
                    [Next]_vars, Plain'
             PROVE  Paths'
  OBVIOUS
<1>1. CASE UNCHANGED vars
  BY <1>1 DEF vars, names, object, control, Plain, Paths, Unix, Stale, Conn
<1>2. CASE Next
  <2>1. UNCHANGED usage
    BY <1>2, UsageFixed
  <2>2. Before
    BY <2>1 DEF Before, Plain, Unix
  <2>3. ~ConnectUnresolved /\ ~BindUnresolved /\ ~ForkedChildEnds
    BY <2>2, PlainMeans DEF ConnectUnresolved, BindUnresolved,
       ForkedChildEnds
  <2> QED
    BY <1>2, <2>2, <2>3, PathsQuiet, PathsAccept, PathsClose, PathsBind,
       PathsConnect, PathsSelect, PathsCreate DEF Next
<1> QED BY <1>1, <1>2

(* Clients find a bound or listening object at its path, and no file is    *)
(* left that leads nowhere but the one its object will remove, through     *)
(* every close, reconnect and failure, if no other object or process with  *)
(* the path ends and bind is not repeated.                                 *)
THEOREM PathsLead == Spec => []FileLeadsToSocket
<1>1. IInv /\ NamesOK /\ (Plain => Paths) => FileLeadsToSocket
  <2> SUFFICES ASSUME IInv, Plain, Paths,
                      state = "LISTEN", laddr \in Addrs
               PROVE  files[laddr] = sock
    BY DEF Plain, Paths, FileLeadsToSocket
  <2>1. Conn = "listening" /\ sock # NoFd
    BY OwnDescriptor DEF IInv
  <2> QED BY <2>1 DEF Paths, Unconnected
<1>2. Init => NamesOK /\ (Plain => Paths)
  BY InitNames, InitPaths
<1>3. IInv /\ NamesOK /\ [Next]_vars => NamesOK'
  BY NextNames
<1> QED BY <1>1, <1>2, <1>3, NextPaths, Inductive, PTL DEF Spec
-----------------------------------------------------------------------------
(* What goes wrong only with a queue that fills up: where no listener of   *)
(* AF_UNIX is busy, no socket is ever "full", and CONNECTED is the truth.  *)
Room == ~({"unix", "busy"} \subseteq usage)
NoneFull == \A f \in Fds : kern[f].conn # "full"

(* One socket changes, and its descriptor's owner may have been closed.    *)
LEMMA OneChanges ==
  ASSUME kern \in [Fds -> Sockets], NoneFull,
         NEW f, NEW s \in Sockets, s.conn # "full",
         \/ kern' = [kern EXCEPT ![f] = s]
         \/ kern' = [AfterClose EXCEPT ![f] = s]
         \/ kern' = AfterClose
         \/ UNCHANGED kern
  PROVE  NoneFull'
<1>1. AfterClose \in [Fds -> Sockets]
  <2>1. NotOpen \in Sockets
    BY DEF Sockets, NotOpen, NewSocket, Conns
  <2> QED BY <2>1 DEF AfterClose
<1>2. \A g \in Fds : AfterClose[g].conn # "full"
  BY DEF AfterClose, NotOpen, NewSocket, NoneFull
<1> QED BY <1>1, <1>2 DEF NoneFull

(* So may the object's own, as long as its conn does not become "full".    *)
LEMMA OwnNotFull ==
  ASSUME kern \in [Fds -> Sockets], NoneFull, NEW f,
         \/ \E d \in BOOLEAN :
              \/ kern' = [kern EXCEPT ![f] = [@ EXCEPT !.data = d]]
              \/ kern' = [kern EXCEPT ![f] = [@ EXCEPT !.nonblk = d]]
         \/ \E c \in Conns \ {"full"} :
              \/ kern' = [kern EXCEPT ![f] = [@ EXCEPT !.conn = c]]
              \/ \E d \in BOOLEAN :
                   kern' = [kern EXCEPT ![f] = [@ EXCEPT !.conn = c,
                                                         !.data = d]]
  PROVE  NoneFull'
<1>1. ASSUME NEW s, kern' = [kern EXCEPT ![f] = s],
             f \in Fds => s.conn # "full"
      PROVE  NoneFull'
  BY <1>1 DEF NoneFull
<1>2. f \in Fds => kern[f] \in Sockets /\ kern[f].conn # "full"
  BY DEF NoneFull
<1>3. ASSUME NEW d \in BOOLEAN
      PROVE  f \in Fds => /\ [kern[f] EXCEPT !.data = d].conn # "full"
                          /\ [kern[f] EXCEPT !.nonblk = d].conn # "full"
  BY <1>2 DEF Sockets
<1>4. ASSUME NEW c \in Conns \ {"full"}, NEW d \in BOOLEAN
      PROVE  f \in Fds =>
               /\ [kern[f] EXCEPT !.conn = c].conn # "full"
               /\ [kern[f] EXCEPT !.conn = c, !.data = d].conn # "full"
  BY <1>2 DEF Sockets
<1>5. ASSUME NEW d \in BOOLEAN,
             \/ kern' = [kern EXCEPT ![f] = [@ EXCEPT !.data = d]]
             \/ kern' = [kern EXCEPT ![f] = [@ EXCEPT !.nonblk = d]]
      PROVE  NoneFull'
  BY <1>1, <1>3, <1>5
<1>6. ASSUME NEW c \in Conns \ {"full"}, NEW d \in BOOLEAN,
             \/ kern' = [kern EXCEPT ![f] = [@ EXCEPT !.conn = c]]
             \/ kern' = [kern EXCEPT ![f] = [@ EXCEPT !.conn = c,
                                                      !.data = d]]
      PROVE  NoneFull'
  BY <1>1, <1>4, <1>6
<1> QED BY <1>5, <1>6

(* connect(2) leaves no "full" socket but one that was, or a busy queue's. *)
LEMMA OutcomeNotFull ==
  ASSUME NEW k \in Sockets, NEW a, NEW o \in Connecting(k, a),
         Room, k.conn # "full"
  PROVE  o[2].conn # "full" /\ o[2] \in Sockets
<1> DEFINE begun == [k EXCEPT !.conn = "connecting", !.peer = a]
           there == [begun EXCEPT !.conn = "established", !.told = TRUE]
<1>1. ~(Unix /\ "busy" \in usage)
  BY DEF Room, Unix
<1>2. CASE k.conn \in {"fresh", "bound"}
  <2>1. \/ o = <<"error", k>>
        \/ a \in Addrs /\ o = <<"wait", begun>>
        \/ a \in Addrs /\ o = <<"ok", there>>
    BY <1>1, <1>2 DEF Connecting, Streams
  <2>2. ASSUME a \in Addrs
        PROVE  /\ begun \in Sockets /\ begun.conn # "full"
               /\ there \in Sockets /\ there.conn # "full"
    <3>1. begun \in Sockets
      BY <2>2 DEF Sockets, Conns
    <3>2. there \in Sockets
      BY <3>1 DEF Sockets, Conns, Streams
    <3> QED BY <3>1, <3>2 DEF Sockets
  <2> HIDE DEF begun, there
  <2> QED BY <2>1, <2>2
<1>3. CASE k.conn = "connecting"
  <2>1. o = <<"error", k>> \/ o = <<"wait", k>>
    BY <1>3 DEF Connecting, Streams
  <2> QED BY <2>1
<1>4. CASE k.conn \in {"failed", "spent"}
  <2>1. o = <<"error", [NewSocket EXCEPT !.nonblk = k.nonblk]>>
    BY <1>4 DEF Connecting, Streams
  <2> QED BY <2>1 DEF Sockets, NewSocket, Conns
<1>5. CASE k.conn \in Streams \ {"reset"} /\ ~k.told
  <2>1. o = <<"ok", [k EXCEPT !.told = TRUE]>>
    BY <1>5 DEF Connecting, Streams
  <2> QED BY <2>1 DEF Sockets
<1>6. CASE /\ k.conn \notin {"fresh", "bound", "connecting", "failed",
                             "spent"}
           /\ ~(k.conn \in Streams \ {"reset"} /\ ~k.told)
  <2>1. o = <<"error", k>>
    BY <1>6 DEF Connecting
  <2> QED BY <2>1
<1> QED BY <1>2, <1>3, <1>4, <1>5, <1>6

(* What follows a connect that succeeded changes the blocking mode.        *)
LEMMA ConnectedNotFull ==
  ASSUME NEW k \in [Fds -> Sockets], NEW f, NEW a,
         \A g \in Fds : k[g].conn # "full",
         nonBlocking \in BOOLEAN, bl \in BOOLEAN,
         Connected(k, f, a)
  PROVE  NoneFull'
<1>1. \E nb \in BOOLEAN : kern' = [k EXCEPT ![f].nonblk = nb /\ @]
  BY DEF Connected
<1> QED BY <1>1 DEF NoneFull, Sockets

LEMMA CreateNotFull ==
  ASSUME IInv, Room, NoneFull, Create \/ CreateFail \/ FromAccept
  PROVE  NoneFull'
<1>1. kern \in [Fds -> Sockets]
  BY DEF IInv, RecordOK
<1>2. CASE Create
  <2>1. PICK f \in Fds, b \in BOOLEAN, t \in Timeouts,
             la \in Addrs \cup {NoAddr}, ln \in BOOLEAN,
             ra \in Addrs \cup {NoAddr} : CreateWith(f, b, t, la, ln, ra)
    BY <1>2 DEF Create
  <2> DEFINE k == [NewSocket EXCEPT
                     !.conn = IF ln THEN "listening"
                              ELSE IF la # NoAddr THEN "bound" ELSE "fresh",
                     !.nonblk = ra # NoAddr \/ ~b]
  <2>2. k \in Sockets /\ k.conn # "full"
    BY DEF Sockets, NewSocket, Conns
  <2> HIDE DEF k
  <2>3. \/ kern' = [kern EXCEPT ![f] = k]
        \/ \E o \in Connecting(k, ra) :
             \/ kern' = [kern EXCEPT ![f] = o[2]]
             \/ kern' = [kern EXCEPT ![f] = [o[2] EXCEPT !.nonblk = ~b]]
    BY <2>1 DEF CreateWith, k
  <2>4. ASSUME NEW o \in Connecting(k, ra)
        PROVE  /\ o[2] \in Sockets /\ o[2].conn # "full"
               /\ [o[2] EXCEPT !.nonblk = ~b] \in Sockets
               /\ [o[2] EXCEPT !.nonblk = ~b].conn # "full"
    <3>1. o[2] \in Sockets /\ o[2].conn # "full"
      BY <2>2, OutcomeNotFull
    <3> QED BY <3>1 DEF Sockets
  <2>5. ASSUME NEW s \in Sockets, s.conn # "full",
               kern' = [kern EXCEPT ![f] = s]
        PROVE  NoneFull'
    BY <1>1, <2>5, OneChanges
  <2> QED BY <2>2, <2>3, <2>4, <2>5
<1>3. CASE CreateFail
  <2>1. PICK f \in Fds : kern' = [kern EXCEPT ![f] = NewSocket]
    BY <1>3 DEF CreateFail
  <2>2. NewSocket \in Sockets /\ NewSocket.conn # "full"
    BY DEF Sockets, NewSocket, Conns
  <2> QED BY <1>1, <2>1, <2>2, OneChanges
<1>4. CASE FromAccept
  <2>1. PICK f \in Fds, a \in Addrs \cup {NoAddr} :
          kern' = [kern EXCEPT ![f] = [NewSocket EXCEPT
                     !.conn = "established", !.told = TRUE, !.peer = a]]
    BY <1>4 DEF FromAccept
  <2> DEFINE s == [NewSocket EXCEPT
                     !.conn = "established", !.told = TRUE, !.peer = a]
  <2>2. s \in Sockets /\ s.conn # "full"
    BY DEF Sockets, NewSocket, Conns, Streams
  <2> QED BY <1>1, <2>1, <2>2, OneChanges
<1> QED BY <1>2, <1>3, <1>4

LEMMA ConnectNotFull ==
  ASSUME IInv, Room, NoneFull, Connect
  PROVE  NoneFull'
<1>1. kern \in [Fds -> Sockets] /\ nonBlocking \in BOOLEAN /\ new \in BOOLEAN
      /\ bl \in BOOLEAN
  BY DEF IInv, RecordOK
<1>0. PICK h \in Addrs \cup {NoAddr},
            f \in (IF MustOpen THEN {g \in Fds : AfterClose[g] = NotOpen}
                               ELSE {sock}) :
         \E o \in Connecting(Prepared(f)[f], Target(h)) :
           \/ kern' = [Prepared(f) EXCEPT ![f] = o[2]]
           \/ Connected([Prepared(f) EXCEPT ![f] = o[2]], f, Target(h))
  BY DEF Connect
<1>2. PICK o \in Connecting(Prepared(f)[f], Target(h)) :
        \/ kern' = [Prepared(f) EXCEPT ![f] = o[2]]
        \/ Connected([Prepared(f) EXCEPT ![f] = o[2]], f, Target(h))
  BY <1>0
<1>3. f \in Fds
  BY <1>0, OwnDescriptor DEF MustOpen
<1>4. /\ AfterClose \in [Fds -> Sockets]
      /\ \A g \in Fds : AfterClose[g].conn # "full"
  BY <1>1 DEF AfterClose, Sockets, NotOpen, NewSocket, Conns, NoneFull
<1>5. /\ Prepared(f) \in [Fds -> Sockets]
      /\ \A g \in Fds : Prepared(f)[g].conn # "full"
  <2>1. CASE MustOpen
    <3>1. Prepared(f) = [AfterClose EXCEPT ![f] =
                           [NewSocket EXCEPT !.nonblk = ~nonBlocking]]
      BY <2>1 DEF Prepared
    <3>2. [NewSocket EXCEPT !.nonblk = ~nonBlocking] \in Sockets
          /\ [NewSocket EXCEPT !.nonblk = ~nonBlocking].conn # "full"
      BY DEF Sockets, NewSocket, Conns
    <3> QED BY <1>4, <3>1, <3>2
  <2>2. CASE ~MustOpen
    <3>1. Prepared(f) = [kern EXCEPT ![f] =
            [kern[f] EXCEPT !.nonblk = kern[f].nonblk \/ ~nonBlocking]]
      BY <2>2 DEF Prepared
    <3>2. kern[f] \in Sockets /\ kern[f].conn # "full"
      BY <1>1, <1>3 DEF NoneFull
    <3> DEFINE s == [kern[f] EXCEPT !.nonblk = kern[f].nonblk \/ ~nonBlocking]
    <3>3. s \in Sockets /\ s.conn # "full"
      BY <3>2 DEF Sockets
    <3> HIDE DEF s
    <3> QED BY <1>1, <3>1, <3>3 DEF NoneFull, s
  <2> QED BY <2>1, <2>2
<1> DEFINE k == [Prepared(f) EXCEPT ![f] = o[2]]
<1>6. k \in [Fds -> Sockets] /\ \A g \in Fds : k[g].conn # "full"
  <2>1. Prepared(f)[f] \in Sockets /\ Prepared(f)[f].conn # "full"
    BY <1>3, <1>5
  <2>2. o[2] \in Sockets /\ o[2].conn # "full"
    BY <2>1, OutcomeNotFull
  <2> QED BY <1>3, <1>5, <2>2
<1> HIDE DEF k
<1>7. kern' = k \/ Connected(k, f, Target(h))
  BY <1>2 DEF k
<1>8. CASE kern' = k
  BY <1>6, <1>8 DEF NoneFull
<1>9. CASE Connected(k, f, Target(h))
  BY <1>1, <1>6, <1>9, ConnectedNotFull
<1> QED BY <1>7, <1>8, <1>9

LEMMA WaitNotFull ==
  ASSUME IInv, NoneFull, SelectTimedOut \/ SelectReady \/ BlockedReturns
  PROVE  NoneFull'
<1>1. kern \in [Fds -> Sockets] /\ nonBlocking \in BOOLEAN /\ new \in BOOLEAN
      /\ bl \in BOOLEAN
  BY DEF IInv, RecordOK
<1>2. CASE UNCHANGED kern
  BY <1>2 DEF NoneFull
<1>3. CASE kern' = [kern EXCEPT ![sock] = [@ EXCEPT !.conn = "spent"]]
  BY <1>1, <1>3, OwnNotFull DEF Conns
<1>4. CASE Connected(kern, sock, raddr)
  BY <1>1, <1>4, ConnectedNotFull DEF NoneFull
<1>5. CASE Connected([kern EXCEPT ![sock] = [@ EXCEPT !.told = TRUE]], sock,
                     raddr)
  <2> DEFINE k == [kern EXCEPT ![sock] = [@ EXCEPT !.told = TRUE]]
  <2>1. k \in [Fds -> Sockets] /\ \A g \in Fds : k[g].conn # "full"
    BY <1>1 DEF NoneFull, Sockets
  <2> HIDE DEF k
  <2>2. Connected(k, sock, raddr)
    BY <1>5 DEF k
  <2> QED BY <1>1, <2>1, <2>2, ConnectedNotFull
<1>6. CASE kern' = [kern EXCEPT ![sock] = NewSocket]
  <2>1. NewSocket \in Sockets /\ NewSocket.conn # "full"
    BY DEF Sockets, NewSocket, Conns
  <2> QED BY <1>1, <1>6, <2>1, OneChanges
<1> QED
  BY <1>2, <1>3, <1>4, <1>5, <1>6
     DEF SelectTimedOut, SelectReady, BlockedReturns

LEMMA BindNotFull ==
  ASSUME IInv, NoneFull, Bind
  PROVE  NoneFull'
<1>1. kern \in [Fds -> Sockets]
  BY DEF IInv, RecordOK
<1>2. PICK f \in (IF sock = NoFd THEN Fds \ Opened ELSE {sock}) :
        LET k == IF sock = NoFd THEN NewSocket ELSE kern[f]
        IN kern' \in {[kern EXCEPT ![f] = BoundSocket(k)],
                      [kern EXCEPT ![f] = k]}
  BY DEF Bind
<1> DEFINE k == IF sock = NoFd THEN NewSocket ELSE kern[f]
<1>3. k \in Sockets /\ k.conn # "full"
  <2>1. NewSocket \in Sockets /\ NewSocket.conn # "full"
    BY DEF Sockets, NewSocket, Conns
  <2>2. sock # NoFd => kern[f] \in Sockets /\ kern[f].conn # "full"
    BY <1>1, <1>2, OwnDescriptor DEF NoneFull
  <2> QED BY <2>1, <2>2
<1> HIDE DEF k
<1>4. BoundSocket(k) \in Sockets /\ BoundSocket(k).conn # "full"
  BY <1>3 DEF BoundSocket, Sockets, Conns
<1>5. \/ kern' = [kern EXCEPT ![f] = BoundSocket(k)]
      \/ kern' = [kern EXCEPT ![f] = k]
  BY <1>2 DEF k
<1> QED BY <1>1, <1>3, <1>4, <1>5, OneChanges

LEMMA AcceptNotFull ==
  ASSUME IInv, NoneFull, Accept \/ OtherClosed
  PROVE  NoneFull'
<1>1. kern \in [Fds -> Sockets]
  BY DEF IInv, RecordOK
<1>2. CASE UNCHANGED kern
  BY <1>2 DEF NoneFull
<1> DEFINE s == [NewSocket EXCEPT !.conn = "established", !.told = TRUE]
<1>3. /\ s \in Sockets /\ s.conn # "full"
      /\ NotOpen \in Sockets /\ NotOpen.conn # "full"
  BY DEF Sockets, NewSocket, NotOpen, Conns, Streams
<1>4. ASSUME NEW f \in Fds, \/ kern' = [kern EXCEPT ![f] = s]
                            \/ kern' = [kern EXCEPT ![f] = NotOpen]
      PROVE  NoneFull'
  <2> HIDE DEF s, NotOpen
  <2> QED BY <1>1, <1>3, <1>4, OneChanges
<1>5. others \in SUBSET Fds
  BY DEF IInv, RecordOK
<1> QED
  BY <1>2, <1>4, <1>5 DEF Accept, Again, Broken, OtherClosed

(* The calls and events that change no more of kern than the socket of the *)
(* object, or close it.                                                    *)
LEMMA RestNotFull ==
  ASSUME IInv, NoneFull,
         \/ ConnectNoSocket \/ Close \/ Free
         \/ Recv \/ RecvFrom \/ Send \/ SendTo \/ Select \/ Listen
         \/ Shutdown \/ SetBlocking \/ ForkedChildEnds \/ World
  PROVE  NoneFull'
<1>1. kern \in [Fds -> Sockets]
  BY DEF IInv, RecordOK
<1>2. CASE UNCHANGED kern
  BY <1>2 DEF NoneFull
<1>3. CASE ConnectNoSocket \/ Close \/ Free
  <2>1. kern' = AfterClose
    BY <1>3 DEF ConnectNoSocket, Close, Free
  <2> QED BY <2>1 DEF NoneFull, AfterClose, NotOpen, NewSocket
<1>4. CASE \/ Recv \/ RecvFrom \/ Send \/ SendTo \/ Select \/ SetBlocking
  <2>1. \/ UNCHANGED kern
        \/ \E d \in BOOLEAN :
             \/ kern' = [kern EXCEPT ![sock] = [@ EXCEPT !.data = d]]
             \/ kern' = [kern EXCEPT ![sock] = [@ EXCEPT !.nonblk = d]]
    BY <1>4 DEF Recv, RecvFrom, Send, SendTo, Select, SetBlocking, Receives,
       Sends, Good, Again, Broken
  <2> QED BY <1>1, <1>2, <2>1, OwnNotFull
<1>5. CASE Listen \/ Shutdown \/ ForkedChildEnds
  <2>1. ShutTo(Conn) \subseteq Conns \ {"full"}
    <3>1. Conn # "full" /\ Conn \in Conns
      BY OwnDescriptor DEF NoneFull, Conns
    <3> QED BY <3>1 DEF ShutTo, Conns, Streams
  <2>2. \/ UNCHANGED kern
        \/ \E c \in {"listening", "cut"} \cup ShutTo(Conn) :
             kern' = [kern EXCEPT ![sock] = [@ EXCEPT !.conn = c]]
    BY <1>5 DEF Listen, Shutdown, Broken, ForkedChildEnds
  <2>3. {"listening", "cut"} \subseteq Conns \ {"full"}
    BY DEF Conns, Streams
  <2> QED BY <1>1, <1>2, <2>1, <2>2, <2>3, OwnNotFull
<1>6. CASE World
  <2>1. HasData \in BOOLEAN
    BY SMTT(30), OwnDescriptor DEF HasData, Sockets
  <2>2. \E c \in Streams \cup {"failed"}, d \in BOOLEAN :
          kern' = [kern EXCEPT ![sock] = [@ EXCEPT !.conn = c, !.data = d]]
    BY <1>6, <2>1 DEF World, Becomes, Streams
  <2>3. Streams \cup {"failed"} \subseteq Conns \ {"full"}
    BY DEF Conns, Streams
  <2> QED BY <1>1, <2>2, <2>3, OwnNotFull
<1> QED BY <1>3, <1>4, <1>5, <1>6

LEMMA NextNotFull ==
  IInv /\ (Room => NoneFull) /\ [Next]_vars => (Room => NoneFull)'
<1> SUFFICES ASSUME IInv, Room => NoneFull, [Next]_vars, Room'
             PROVE  NoneFull'
  OBVIOUS
<1>1. UNCHANGED usage
  BY UsageFixed DEF vars, control
<1>2. Room /\ NoneFull
  BY <1>1 DEF Room
<1>3. CASE UNCHANGED kern
  BY <1>2, <1>3 DEF NoneFull
<1>4. CASE UNCHANGED vars
  BY <1>3, <1>4 DEF vars
<1>5. CASE \/ ConnectUnresolved \/ BindUnresolved \/ BindNoSocket
           \/ SetTimeout
  BY <1>3, <1>5
     DEF ConnectUnresolved, BindUnresolved, BindNoSocket, SetTimeout
<1> QED
  BY <1>2, <1>4, <1>5, CreateNotFull, ConnectNotFull, WaitNotFull,
     BindNotFull, AcceptNotFull, RestNotFull DEF Next

(* connect and new say CONNECTED only of a socket that is connected, as    *)
(* the documentation has it, unless it is one of AF_UNIX and a listener    *)
(* may be busy: the counterexample of endpoint_unix_full is the only kind  *)
(* there is.                                                               *)
THEOREM ConnectedUnlessBusy == Spec => [](Room => ConnectedIsReal)
<1>1. Init => NoneFull
  BY DEF Init, NoneFull, NotOpen, NewSocket
<1>2. IInv /\ (Room => NoneFull) => (Room => ConnectedIsReal)
  <2> SUFFICES ASSUME IInv, NoneFull, state = "CONNECTED"
               PROVE  Conn \in Streams
    BY DEF ConnectedIsReal
  <2>1. Conn \in Streams \cup {"full"}
    BY DEF IInv, StateIsReal
  <2>2. Conn # "full"
    BY OwnDescriptor DEF NoneFull
  <2> QED BY <2>1, <2>2
<1> QED BY <1>1, <1>2, NextNotFull, Inductive, PTL DEF Spec
=============================================================================
