------------------------------ MODULE Endpoint ------------------------------
(***************************************************************************)
(* The life of one stream socket: what the methods of a Socket::Class      *)
(* object do to its record (sock, state, non_blocking, timeout, addresses, *)
(* last_errno), to its descriptor in the kernel, and what the peer does    *)
(* meanwhile.  The calls on one object do not overlap; the world changes   *)
(* between any two of them and while connect waits.                        *)
(*                                                                         *)
(* The kernel is modelled as Linux behaves.  A call that waits for data or *)
(* a client is the step at which it returns.                               *)
(***************************************************************************)
EXTENDS Integers, FiniteSets

CONSTANTS
  Fds,        \* descriptors the process can have open
  NoFd,       \* INVALID_SOCKET
  Addrs,      \* addresses a script names
  NoAddr,     \* a zeroed my_sockaddr_t, of length 0
  AnyAddr,    \* what getaddrinfo makes of no host and no port, or an
              \* address the kernel has chosen
  MaxTimeout, \* the default of 15 seconds, in ticks
  Usages      \* which of Habits scripts, and the system, may have

(* "reopen": an object whose descriptor has been closed, or that is        *)
(* connected, is connected or bound again.  "retry": so is one whose       *)
(* connect has failed.  "addresses": sendto and recvfrom are called on a   *)
(* connected stream.  "fork": the process forks, and the child ends.       *)
(* "unix": the sockets are those of AF_UNIX, else of AF_INET.  For these   *)
(* "busy": the queue of a listener may be full; "share": accepted objects  *)
(* are closed before the listener; "rebind": bind is called again on an    *)
(* object that has a name.                                                 *)
Habits == {"reopen", "retry", "addresses", "fork", "unix", "busy", "share",
           "rebind"}

ASSUME EndpointAssumption ==
  /\ NoFd \notin Fds
  /\ NoAddr # AnyAddr /\ {NoAddr, AnyAddr} \cap Addrs = {}
  /\ MaxTimeout \in Nat \ {0}
  /\ Usages \subseteq SUBSET Habits

VARIABLES
  kern,        \* per descriptor, the kernel's socket behind it
  left,        \* descriptors that failed calls of new() have left open
  others,      \* descriptors of objects that accept() has returned
  named,       \* per descriptor, the AF_UNIX name it is bound to
  files,       \* per path, the descriptor whose bind made the file there
  sock,        \* sc->sock
  state,       \* sc->state
  nonBlocking, \* sc->non_blocking
  timeout,     \* sc->timeout
  laddr,       \* sc->l_addr, as to its path or address
  bare,        \* its length is that of an AF_UNIX address without a path,
               \* whatever path lies in it
  raddr,       \* sc->r_addr
  errno,       \* sc->last_errno # 0
  pc,          \* "none": no object; "idle"; or where connect waits
  new,         \* the connect that waits is the one in mod_sc_create
  bl,          \* local "bl" of mod_sc_create
  res,         \* what the last call returned
  usage        \* the habits of this behaviour

names == <<named, files>>
object == <<sock, state, nonBlocking, timeout, laddr, bare, raddr, errno>>
control == <<pc, new, bl, res, usage>>
vars == <<kern, left, others, names, object, control>>

States == {"INIT", "BOUND", "LISTEN", "CONNECTED", "SHUTDOWN", "CLOSED",
           "ERROR"}
(* A kernel socket.  "told": connect(2) has reported that it is connected; *)
(* "failed" and "spent": the attempt failed and the error is pending, or   *)
(* has been fetched with SO_ERROR; "full": it has found the queue of an    *)
(* AF_UNIX listener full.  "shut", "eof" and "cut" are closed for writing, *)
(* for reading, and for both.                                              *)
Streams == {"established", "shut", "eof", "cut", "reset"}
Conns == {"closed", "fresh", "bound", "listening", "connecting", "failed",
          "spent", "full"} \cup Streams
Sockets == [conn : Conns, nonblk : BOOLEAN, told : BOOLEAN,
            peer : Addrs \cup {NoAddr}, data : BOOLEAN]

NewSocket == [conn |-> "fresh", nonblk |-> FALSE, told |-> FALSE,
              peer |-> NoAddr, data |-> FALSE]
NotOpen == [NewSocket EXCEPT !.conn = "closed"]

Own == {sock} \ {NoFd}
Opened == {f \in Fds : kern[f].conn # "closed"}
Conn == IF sock = NoFd THEN "closed" ELSE kern[sock].conn
NonBlock == sock # NoFd /\ kern[sock].nonblk
Timeouts == 0 .. MaxTimeout

Reopen == "reopen" \in usage
Unix == "unix" \in usage

(* The files after remove( path ), and after a bind to path has made one.  *)
Without(path) == [p \in Addrs |-> IF p = path THEN NoFd ELSE files[p]]
With(f, path) == [p \in Addrs |-> IF p = path THEN f ELSE files[p]]
-----------------------------------------------------------------------------
Init ==
  /\ kern = [f \in Fds |-> NotOpen]
  /\ left = {} /\ others = {}
  /\ sock = NoFd /\ state = "INIT" /\ nonBlocking = FALSE
  /\ timeout = 0 /\ laddr = NoAddr /\ bare = FALSE /\ raddr = NoAddr
  /\ errno = FALSE
  /\ pc = "none" /\ new = FALSE /\ bl = TRUE /\ res = "none"
  /\ named = [f \in Fds |-> NoAddr]
  /\ files = [p \in Addrs |-> NoFd]
  /\ usage \in Usages

(* The outcomes of connect(2) on socket k towards a: what it returns, and  *)
(* the socket it leaves.  "wait" is EINPROGRESS, or, on a socket without   *)
(* O_NONBLOCK, that the call blocks.  An AF_UNIX socket is connected or    *)
(* not at once: EWOULDBLOCK says that the queue of the listener is full.   *)
Connecting(k, a) ==
  LET begun == [k EXCEPT !.conn = "connecting", !.peer = a]
      there == [begun EXCEPT !.conn = "established", !.told = TRUE]
      full == [k EXCEPT !.conn = "full"]
      wait == IF ~Unix THEN {<<"wait", begun>>}
              ELSE IF "busy" \in usage /\ k.nonblk THEN {<<"wait", full>>}
              ELSE {}
  IN CASE k.conn \in {"fresh", "bound", "full"} ->
            {<<"error", k>>} \cup
            (IF a \in Addrs THEN wait \cup {<<"ok", there>>} ELSE {})
       [] k.conn = "connecting" ->
            {IF k.nonblk THEN <<"error", k>> ELSE <<"wait", k>>}
       [] k.conn \in {"failed", "spent"} ->
            {<<"error", [NewSocket EXCEPT !.nonblk = k.nonblk]>>}
       [] k.conn \in Streams \ {"reset"} /\ ~k.told ->
            {<<"ok", [k EXCEPT !.told = TRUE]>>}
       [] OTHER -> {<<"error", k>>}

(* The object is gone: Safefree.                                           *)
NoObject ==
  /\ sock' = NoFd /\ state' = "INIT" /\ nonBlocking' = FALSE
  /\ timeout' = 0 /\ laddr' = NoAddr /\ bare' = FALSE /\ raddr' = NoAddr
  /\ errno' = FALSE
  /\ pc' = "none" /\ new' = FALSE /\ bl' = TRUE /\ UNCHANGED usage

Done(r) ==
  /\ pc' = "idle" /\ new' = FALSE /\ bl' = TRUE /\ res' = r
  /\ UNCHANGED usage
-----------------------------------------------------------------------------
(* What getsockname makes of l_addr, which was la, on connected socket f:  *)
(* for AF_UNIX it leaves the path where it is, and if the socket has none  *)
(* says so by the length alone.                                            *)
LocalName(f, la) ==
  /\ laddr' \in IF Unix THEN {la} ELSE {la, AnyAddr} \ {NoAddr}
  /\ bare' = (Unix /\ named'[f] = NoAddr)

(* mod_sc_create up to its connect(2).  la: local address or NoAddr for    *)
(* none; ln: the listen option; ra: remote address or NoAddr for none.     *)
CreateWith(f, b, t, la, ln, ra) ==
  LET k == [NewSocket EXCEPT
              !.conn = IF ln THEN "listening"
                       ELSE IF la # NoAddr THEN "bound" ELSE "fresh",
              !.nonblk = ra # NoAddr \/ ~b]
      st == CASE k.conn = "listening" -> "LISTEN"
              [] k.conn = "bound" -> "BOUND"
              [] OTHER -> "INIT"
      bound == IF ln /\ la = NoAddr THEN AnyAddr ELSE la
  IN /\ sock' = f
     /\ timeout' = t
     /\ raddr' = ra
     /\ errno' = FALSE
     /\ UNCHANGED <<left, others>>
     /\ named' = [named EXCEPT ![f] = IF Unix THEN bound ELSE NoAddr]
     /\ files' = IF Unix THEN With(f, la) ELSE files
     /\ \/ /\ ra = NoAddr
           /\ kern' = [kern EXCEPT ![f] = k]
           /\ laddr' = bound /\ bare' = FALSE
           /\ state' = st
           /\ nonBlocking' = ~b
           /\ Done("ok")
        \/ \E o \in Connecting(k, ra) :
             /\ ra # NoAddr /\ o[1] = "wait"
             /\ kern' = [kern EXCEPT ![f] = o[2]]
             /\ laddr' = bound /\ bare' = FALSE
             /\ state' = st
             /\ nonBlocking' = FALSE
             /\ pc' = "select" /\ new' = TRUE /\ bl' = b /\ res' = "none"
             /\ UNCHANGED usage
        \/ \E o \in Connecting(k, ra) :
             /\ ra # NoAddr /\ o[1] = "ok"
             /\ kern' = [kern EXCEPT ![f] = [o[2] EXCEPT !.nonblk = ~b]]
             /\ LocalName(f, bound)
             /\ state' = "CONNECTED"
             /\ nonBlocking' = ~b
             /\ Done("ok")

Create ==
  /\ pc = "none"
  /\ \E f \in Fds \ Opened, b \in BOOLEAN, t \in Timeouts,
        la \in Addrs \cup {NoAddr}, ln \in BOOLEAN,
        ra \in Addrs \cup {NoAddr} :
       CreateWith(f, b, t, la, ln, ra)

(* The labels "error" and "error2" after socket() has succeeded: a name    *)
(* that does not resolve, a refused option, bind, listen or connect.  The  *)
(* file at a local path has been removed, or made anew, by then.           *)
CreateFail ==
  /\ pc = "none"
  /\ \E f \in Fds \ Opened, la \in Addrs \cup {NoAddr} :
       /\ kern' = [kern EXCEPT ![f] = NewSocket]
       /\ left' = left \cup {f}
       /\ ~Unix => la = NoAddr
       /\ \/ files' = Without(la) /\ named' = [named EXCEPT ![f] = NoAddr]
          \/ files' = With(f, la) /\ named' = [named EXCEPT ![f] = la]
  /\ res' = "fail"
  /\ UNCHANGED <<others, object, pc, new, bl, usage>>

(* The object that mod_sc_accept of some listener has made.  Its l_addr is *)
(* the listener's name, the file of which belongs to another object.       *)
FromAccept ==
  /\ pc = "none"
  /\ \E f \in Fds \ Opened, a \in Addrs \cup IF Unix THEN {NoAddr} ELSE {},
        name \in (IF Unix THEN Addrs ELSE {}) \cup {AnyAddr} :
       /\ kern' = [kern EXCEPT ![f] = [NewSocket EXCEPT
                     !.conn = "established", !.told = TRUE, !.peer = a]]
       /\ sock' = f /\ raddr' = a
       /\ named' = [named EXCEPT ![f] = IF Unix THEN name ELSE NoAddr]
       /\ files' = Without(name)
       /\ laddr' = name /\ bare' = FALSE
  /\ state' = "CONNECTED"
  /\ Done("ok")
  /\ UNCHANGED <<left, others, nonBlocking, timeout, errno>>
-----------------------------------------------------------------------------
(* mod_sc_connect.                                                         *)

MayConnect ==
  /\ ~Reopen => sock # NoFd /\ state # "CONNECTED"
  /\ "retry" \notin usage =>
       Conn \in {"closed", "fresh", "bound"} \/ state = "CONNECTED"

(* The address connect and bind use: NoAddr as an argument h stands for    *)
(* none given, and last is the one of the last call.                       *)
Chosen(h, last) ==
  IF h # NoAddr THEN h
  ELSE IF state # "CLOSED" /\ (~Unix \/ last = NoAddr) THEN AnyAddr
  ELSE last

Target(h) == Chosen(h, raddr)

(* "if( timeout > 0 )": 0 is what an omitted argument is passed as.        *)
SetConnectTimeout(t) == timeout' = IF t > 0 THEN t ELSE timeout

(* The name does not resolve: nothing but the timeout has changed.         *)
ConnectUnresolved ==
  /\ pc = "idle" /\ MayConnect /\ ~Unix
  /\ \E t \in Timeouts : SetConnectTimeout(t)
  /\ errno' = TRUE
  /\ Done("fail")
  /\ UNCHANGED <<kern, left, others, names, sock, state, nonBlocking, laddr,
                 bare, raddr>>

(* Mutant: the descriptor of a connected object is used again.             *)
MustOpenNarrow == sock = NoFd

(* The descriptor is closed first if the object is connected.              *)
MustOpen == sock = NoFd \/ state = "CONNECTED"
AfterClose == [f \in Fds |-> IF f = sock THEN NotOpen ELSE kern[f]]
Disconnected == IF state = "CONNECTED" THEN "CLOSED" ELSE state

(* socket() fails.                                                         *)
ConnectNoSocket ==
  /\ pc = "idle" /\ MayConnect /\ MustOpen
  /\ \E t \in Timeouts : SetConnectTimeout(t)
  /\ \E h \in Addrs \cup {NoAddr} : raddr' = Target(h)
  /\ kern' = AfterClose
  /\ sock' = NoFd
  /\ state' = Disconnected
  /\ errno' = TRUE
  /\ Done("fail")
  /\ UNCHANGED <<left, others, names, nonBlocking, laddr, bare>>

(* Mutant: a connected descriptor is not closed before it is replaced.     *)
PreparedLeaky(f) ==
  IF MustOpen THEN [kern EXCEPT ![f] = [NewSocket EXCEPT
                                          !.nonblk = ~nonBlocking]]
              ELSE [kern EXCEPT ![f].nonblk = @ \/ ~nonBlocking]

(* The sockets once connect(2) is about to be called on descriptor f.      *)
Prepared(f) ==
  IF MustOpen THEN [AfterClose EXCEPT ![f] = [NewSocket EXCEPT
                                                !.nonblk = ~nonBlocking]]
              ELSE [kern EXCEPT ![f].nonblk = @ \/ ~nonBlocking]

(* Mutant: the blocking mode is not restored after a successful connect.   *)
ConnectedForgetful(k, f, a) ==
  /\ kern' = k
  /\ state' = "CONNECTED" /\ errno' = FALSE
  /\ LocalName(f, laddr)
  /\ UNCHANGED nonBlocking
  /\ Done("ok")

(* What follows a connect that succeeded, in mod_sc_create and in          *)
(* mod_sc_connect: the blocking mode is restored; getsockname reads the    *)
(* local address, which was bound or which the kernel has chosen.          *)
Connected(k, f, a) ==
  LET nb == IF new THEN ~bl ELSE nonBlocking
  IN /\ kern' = [k EXCEPT ![f].nonblk = nb /\ @]
     /\ nonBlocking' = nb
     /\ state' = "CONNECTED" /\ errno' = FALSE
     /\ LocalName(f, laddr)
     /\ Done("ok")

Connect ==
  /\ pc = "idle" /\ MayConnect
  /\ \E t \in Timeouts : SetConnectTimeout(t)
  /\ UNCHANGED <<left, others, files>>
  /\ \E h \in Addrs \cup {NoAddr},
        f \in (IF MustOpen THEN {g \in Fds : AfterClose[g] = NotOpen}
                           ELSE {sock}) :
       /\ raddr' = Target(h)
       /\ sock' = f
       /\ named' = IF MustOpen THEN [named EXCEPT ![f] = NoAddr] ELSE named
       /\ \E o \in Connecting(Prepared(f)[f], Target(h)) :
            LET k == [Prepared(f) EXCEPT ![f] = o[2]]
            IN \/ /\ o[1] = "error"
                  /\ kern' = k
                  /\ state' = Disconnected
                  /\ errno' = TRUE
                  /\ Done("fail")
                  /\ UNCHANGED <<nonBlocking, laddr, bare>>
               \/ /\ o[1] = "wait"
                  /\ kern' = k
                  /\ state' = Disconnected
                  /\ pc' = IF o[2].nonblk THEN "select" ELSE "connect"
                  /\ res' = "none"
                  /\ UNCHANGED <<nonBlocking, laddr, bare, errno, new, bl,
                                 usage>>
               \/ o[1] = "ok" /\ Connected(k, f, Target(h))
-----------------------------------------------------------------------------
(* Mutant: the time waited is subtracted by hand.                          *)
RemainingDown == timeout' = timeout - 1

(* connect waits.  On Linux select leaves in sock->timeout what is left.   *)
Remaining == timeout' \in 0 .. timeout

(* A failure returns with the descriptor, the state and O_NONBLOCK as they *)
(* are; in mod_sc_create the object is freed and its descriptor is not.    *)
GiveUp ==
  \/ /\ new
     /\ left' = left \cup {sock}
     /\ res' = "fail"
     /\ NoObject
  \/ /\ ~new
     /\ Remaining
     /\ errno' = TRUE
     /\ Done("fail")
     /\ UNCHANGED <<left, sock, state, nonBlocking, laddr, bare, raddr>>

(* select times out, or is interrupted, which counts as timed out.         *)
SelectTimedOut ==
  /\ pc = "select"
  /\ Conn = "connecting"
  /\ GiveUp
  /\ UNCHANGED <<kern, others, names>>

(* Mutant: SO_ERROR is not asked for.                                      *)
PendingNone == FALSE

PendingError == Conn \in {"failed", "reset"}

SelectReady ==
  /\ pc = "select"
  /\ Conn # "connecting"
  /\ UNCHANGED <<others, names>>
  /\ \/ /\ PendingError
        /\ kern' = IF Conn = "failed"
                   THEN [kern EXCEPT ![sock] = [@ EXCEPT !.conn = "spent"]]
                   ELSE kern
        /\ GiveUp
     \/ /\ ~PendingError
        /\ Remaining
        /\ Connected(kern, sock, raddr)
        /\ UNCHANGED <<left, sock, raddr>>

(* connect(2) itself blocked, and returns.                                 *)
BlockedReturns ==
  /\ pc = "connect"
  /\ UNCHANGED <<left, others, names, sock, timeout, raddr>>
  /\ \/ /\ Conn \in Streams
        /\ Connected([kern EXCEPT ![sock] = [@ EXCEPT !.told = TRUE]], sock,
                     raddr)
     \/ /\ Conn \notin Streams
        /\ kern' = IF Conn = "connecting" THEN kern
                   ELSE [kern EXCEPT ![sock] = NewSocket]
        /\ errno' = TRUE
        /\ Done("fail")
        /\ UNCHANGED <<state, nonBlocking, laddr, bare>>
-----------------------------------------------------------------------------
(* mod_sc_bind, mod_sc_listen, mod_sc_accept.                              *)

MayBind(h) ==
  /\ ~Reopen => sock # NoFd
  /\ Unix /\ "rebind" \notin usage /\ laddr # NoAddr =>
       sock = NoFd /\ h = NoAddr

BindTo(h) == Chosen(h, laddr)

(* bind(2) is given a bare address, for which the kernel chooses a name.   *)
StillBare(h) == bare /\ h = NoAddr /\ state = "CLOSED"

BindUnresolved ==
  /\ pc = "idle" /\ MayBind(NoAddr) /\ ~Unix
  /\ errno' = TRUE
  /\ Done("fail")
  /\ UNCHANGED <<kern, left, others, names, sock, state, nonBlocking, timeout,
                 laddr, bare, raddr>>

(* For AF_UNIX what is at the path has been removed, whatever follows.     *)
Cleared(path) == IF Unix THEN Without(path) ELSE files

BindNoSocket ==
  /\ pc = "idle" /\ sock = NoFd
  /\ \E h \in Addrs \cup {NoAddr} :
       /\ MayBind(h)
       /\ laddr' = BindTo(h) /\ bare' = StillBare(h)
       /\ files' = Cleared(BindTo(h))
  /\ errno' = TRUE
  /\ Done("fail")
  /\ UNCHANGED <<kern, left, others, named, sock, state, nonBlocking, timeout,
                 raddr>>

(* bind(2) of socket k to a, and the descriptor's old name.  A connected   *)
(* AF_UNIX socket without a name can still be given one.                   *)
Bindable(k, a, name) ==
  a # NoAddr /\ IF Unix THEN name = NoAddr ELSE k.conn = "fresh"
BoundSocket(k) ==
  [k EXCEPT !.conn = IF @ \in {"fresh", "full"} THEN "bound" ELSE @]

Bind ==
  /\ pc = "idle"
  /\ UNCHANGED <<left, others, nonBlocking, timeout, raddr>>
  /\ \E h \in Addrs \cup {NoAddr},
        f \in (IF sock = NoFd THEN Fds \ Opened ELSE {sock}) :
       LET k == IF sock = NoFd THEN NewSocket ELSE kern[f]
           name == IF sock = NoFd THEN NoAddr ELSE named[f]
           a == IF StillBare(h) THEN AnyAddr ELSE BindTo(h)
       IN /\ MayBind(h)
          /\ sock' = f
          /\ \/ /\ Bindable(k, a, name)
                /\ kern' = [kern EXCEPT ![f] = BoundSocket(k)]
                /\ named' = [named EXCEPT ![f] = IF Unix THEN a ELSE NoAddr]
                /\ files' = IF Unix /\ a = BindTo(h) THEN With(f, a)
                           ELSE Cleared(BindTo(h))
                /\ laddr' = a /\ bare' = FALSE
                /\ state' = "BOUND"
                /\ errno' = FALSE
                /\ Done("ok")
             \/ /\ kern' = [kern EXCEPT ![f] = k]
                /\ named' = [named EXCEPT ![f] = name]
                /\ files' = Cleared(BindTo(h))
                /\ laddr' = BindTo(h) /\ bare' = StillBare(h)
                /\ errno' = TRUE
                /\ Done("fail")
                /\ UNCHANGED <<state>>

(* listen(2) takes an AF_UNIX socket only if it has a name.                *)
Listenable ==
  \/ Conn \in {"bound", "listening"}
  \/ ~Unix /\ Conn = "fresh"
  \/ Conn = "full" /\ named[sock] # NoAddr

Listen ==
  /\ pc = "idle"
  /\ UNCHANGED <<left, others, names, sock, nonBlocking, timeout, laddr, bare,
                 raddr>>
  /\ \/ /\ Listenable
        /\ kern' = [kern EXCEPT ![sock] = [@ EXCEPT !.conn = "listening"]]
        /\ state' = "LISTEN"
        /\ errno' = FALSE
        /\ Done("ok")
     \/ /\ errno' = TRUE
        /\ Done("fail")
        /\ UNCHANGED <<kern, state>>

(* The three ways a call on the descriptor returns: with something done,   *)
(* with EWOULDBLOCK (not an error), or with an error.                      *)
Good ==
  /\ errno' = FALSE
  /\ Done("ok")
  /\ UNCHANGED state
Again ==
  /\ NonBlock
  /\ errno' = FALSE
  /\ Done("again")
  /\ UNCHANGED <<kern, others, state>>
Broken ==
  /\ errno' = TRUE
  /\ state' = "ERROR"
  /\ Done("fail")
  /\ UNCHANGED <<kern, others>>

(* A client is waiting; nobody is; or accept(2) fails: not a listener, no  *)
(* descriptor left, a client that has gone, a signal.  On success          *)
(* last_errno of the listener keeps its value.                             *)
Accept ==
  /\ pc = "idle"
  /\ UNCHANGED <<left, files, sock, nonBlocking, timeout, laddr, bare, raddr>>
  /\ \/ /\ Conn = "listening"
        /\ \E f \in Fds \ Opened :
             /\ kern' = [kern EXCEPT ![f] = [NewSocket EXCEPT
                           !.conn = "established", !.told = TRUE]]
             /\ named' = [named EXCEPT ![f] = named[sock]]
             /\ others' = others \cup {f}
        /\ Done("ok")
        /\ UNCHANGED <<state, errno>>
     \/ Conn = "listening" /\ Again /\ UNCHANGED named
     \/ Broken /\ UNCHANGED named

(* The accepted objects live elsewhere, and are closed.  For AF_UNIX their *)
(* l_addr is the listener's name: its file goes with them.                 *)
OtherClosed ==
  /\ \E f \in others :
       /\ "share" \in usage
            \/ \A p \in Addrs : named[f] = p => files[p] # sock
       /\ kern' = [kern EXCEPT ![f] = NotOpen]
       /\ others' = others \ {f}
       /\ files' = Without(named[f])
  /\ UNCHANGED <<left, named, object, control>>
-----------------------------------------------------------------------------
(* The transfers: read, recv, available and the readers; write and send.   *)

HasData == sock # NoFd /\ kern[sock].data

(* An end of file is ECONNRESET, and an error.                             *)
Receives ==
  \/ /\ HasData
     /\ \E d \in BOOLEAN :
          kern' = [kern EXCEPT ![sock] = [@ EXCEPT !.data = d]]
     /\ Good
     /\ UNCHANGED others
  \/ ~HasData /\ Conn \in {"established", "shut"} /\ Again
  \/ Broken

(* mod_sc_recv, mod_sc_read.                                               *)
Recv ==
  /\ pc = "idle"
  /\ Receives
  /\ UNCHANGED <<left, names, sock, nonBlocking, timeout, laddr, bare, raddr>>

(* A stream has no sender address: what is copied has length 0.            *)
RecvFrom ==
  /\ pc = "idle" /\ "addresses" \in usage
  /\ Receives
  /\ raddr' = IF res' = "ok" THEN NoAddr ELSE raddr
  /\ UNCHANGED <<left, names, sock, nonBlocking, timeout, laddr, bare>>

Sends ==
  \/ Conn \in {"established", "eof"} /\ Good /\ UNCHANGED <<kern, others>>
  \/ Conn \in {"established", "eof"} /\ Again
  \/ Broken

(* mod_sc_send, Socket_write.                                              *)
Send ==
  /\ pc = "idle"
  /\ Sends
  /\ UNCHANGED <<left, names, sock, nonBlocking, timeout, laddr, bare, raddr>>

(* "remember who we send to", before it is sent.                           *)
SendTo ==
  /\ pc = "idle" /\ "addresses" \in usage
  /\ raddr' \in Addrs \cup {raddr}
  /\ Sends
  /\ UNCHANGED <<left, names, sock, nonBlocking, timeout, laddr, bare>>

(* is_readable, is_writable, select.  With no descriptor FD_SET writes     *)
(* outside of its set; what select then says is anybody's guess.           *)
Select ==
  /\ pc = "idle"
  /\ (Good /\ UNCHANGED <<kern, others>>) \/ Broken
  /\ UNCHANGED <<left, names, sock, nonBlocking, timeout, laddr, bare, raddr>>
-----------------------------------------------------------------------------
(* What shutdown(2) can make of a socket.  A TCP socket that has no        *)
(* connection refuses it, an AF_UNIX socket does not.                      *)
ShutTo(c) ==
  CASE c = "established" -> {"shut", "eof", "cut"}
    [] c \in {"shut", "eof", "cut"} -> {c, "cut"}
    [] c = "listening" -> {"bound", "listening"}
    [] c = "connecting" -> {"fresh"}
    [] c \in {"fresh", "bound", "full"} /\ Unix -> {c}
    [] OTHER -> {}

(* mod_sc_shutdown.                                                        *)
Shutdown ==
  /\ pc = "idle"
  /\ UNCHANGED <<left, names, sock, nonBlocking, timeout, laddr, bare, raddr>>
  /\ \/ /\ \E c \in ShutTo(Conn) :
             kern' = [kern EXCEPT ![sock] = [@ EXCEPT !.conn = c]]
        /\ errno' = FALSE
        /\ state' = "SHUTDOWN"
        /\ Done("ok")
        /\ UNCHANGED others
     \/ Broken

(* mod_sc_close: both addresses are zeroed, the path after it has been     *)
(* removed.                                                                *)
Close ==
  /\ pc = "idle"
  /\ kern' = AfterClose
  /\ files' = Cleared(laddr)
  /\ sock' = NoFd
  /\ state' = "CLOSED"
  /\ laddr' = NoAddr /\ bare' = FALSE /\ raddr' = NoAddr
  /\ errno' = FALSE
  /\ Done("ok")
  /\ UNCHANGED <<left, others, named, nonBlocking, timeout>>

(* Mutant: the path is removed by close only.                              *)
FreeKeepsFile ==
  /\ pc = "idle"
  /\ kern' = AfterClose
  /\ res' = "none"
  /\ NoObject
  /\ UNCHANGED <<left, others, names>>

(* free, or the last DESTROY: socket_class_free.                           *)
Free ==
  /\ pc = "idle"
  /\ kern' = AfterClose
  /\ files' = Cleared(laddr)
  /\ res' = "none"
  /\ NoObject
  /\ UNCHANGED <<left, others, named>>

(* A child that has just been forked ends: DESTROY of its copy of the      *)
(* object shuts the connection down and frees the copy.  END does nothing  *)
(* in a child.                                                             *)
ForkedChildEnds ==
  /\ pc = "idle" /\ "fork" \in usage
  /\ kern' = IF state = "CONNECTED" /\ Conn \in Streams \ {"reset"}
             THEN [kern EXCEPT ![sock] = [@ EXCEPT !.conn = "cut"]] ELSE kern
  /\ files' = Cleared(laddr)
  /\ UNCHANGED <<left, others, named, object, control>>

SetBlocking ==
  /\ pc = "idle"
  /\ UNCHANGED <<left, others, names, sock, state, timeout, laddr, bare,
                 raddr>>
  /\ \/ /\ sock # NoFd
        /\ \E m \in BOOLEAN :
             /\ kern' = [kern EXCEPT ![sock] = [@ EXCEPT !.nonblk = ~m]]
             /\ nonBlocking' = ~m
        /\ errno' = FALSE
        /\ Done("ok")
     \/ /\ sock = NoFd
        /\ errno' = TRUE
        /\ Done("fail")
        /\ UNCHANGED <<kern, nonBlocking>>

SetTimeout ==
  /\ pc = "idle"
  /\ timeout' \in Timeouts
  /\ Done("ok")
  /\ UNCHANGED <<kern, left, others, names, sock, state, nonBlocking, laddr,
                 bare, raddr, errno>>
-----------------------------------------------------------------------------
(* The world: the connection is made or refused; data arrive; the peer     *)
(* closes or resets.                                                       *)
Becomes(c, d) ==
  /\ kern' = [kern EXCEPT ![sock] = [@ EXCEPT !.conn = c, !.data = d]]
  /\ UNCHANGED <<left, others, names, object, control>>

World ==
  \/ Conn = "connecting" /\ \E c \in {"established", "failed"} :
                              Becomes(c, FALSE)
  \/ Conn \in {"established", "shut"} /\ Becomes(Conn, TRUE)
  \/ Conn \in {"established", "shut"} /\ Becomes("eof", HasData)
  \/ Conn \in {"established", "shut", "eof", "cut"} /\ Becomes("reset", FALSE)

Next ==
  \/ Create \/ CreateFail \/ FromAccept
  \/ ConnectUnresolved \/ ConnectNoSocket \/ Connect
  \/ SelectTimedOut \/ SelectReady \/ BlockedReturns
  \/ BindUnresolved \/ BindNoSocket \/ Bind \/ Listen
  \/ Accept \/ OtherClosed
  \/ Recv \/ RecvFrom \/ Send \/ SendTo \/ Select
  \/ Shutdown \/ Close \/ Free \/ SetBlocking \/ SetTimeout
  \/ ForkedChildEnds \/ World

Spec == Init /\ [][Next]_vars
-----------------------------------------------------------------------------
RecordOK ==
  /\ kern \in [Fds -> Sockets]
  /\ left \in SUBSET Fds /\ others \in SUBSET Fds
  /\ sock \in Fds \cup {NoFd}
  /\ state \in States
  /\ nonBlocking \in BOOLEAN /\ errno \in BOOLEAN
  /\ timeout \in Timeouts
  /\ laddr \in Addrs \cup {NoAddr, AnyAddr} /\ bare \in BOOLEAN
  /\ raddr \in Addrs \cup {NoAddr, AnyAddr}
  /\ pc \in {"none", "idle", "select", "connect"}
  /\ new \in BOOLEAN /\ bl \in BOOLEAN
  /\ res \in {"none", "ok", "again", "fail"}

NamesOK ==
  /\ named \in [Fds -> Addrs \cup {NoAddr, AnyAddr}]
  /\ files \in [Addrs -> Fds \cup {NoFd}]
  /\ usage \in Usages

TypeOK == RecordOK /\ NamesOK

(* Every open descriptor belongs to exactly one object, except those that  *)
(* failed calls of new() have left open: connect, which replaces the       *)
(* descriptor of a connected object, close and free lose none and close    *)
(* none twice.                                                             *)
DescriptorsAccounted ==
  /\ Opened = Own \cup left \cup others
  /\ Own \cap left = {} /\ Own \cap others = {} /\ left \cap others = {}

(* What state() says is what the descriptor is: an object is CONNECTED     *)
(* only if the kernel has made the connection, after whatever sequence of  *)
(* failed, timed out and repeated connects, unless connect(2) has found    *)
(* the queue of an AF_UNIX listener full.                                  *)
StateIsReal ==
  /\ state = "CONNECTED" => Conn \in Streams \cup {"full"}
  /\ state = "LISTEN" => Conn = "listening"
  /\ state \in {"BOUND", "SHUTDOWN"} => sock # NoFd

(* "SC_STATE_CONNECTED  Socket is connected": connect and new do not say   *)
(* so of a socket that connect(2) has not connected.                       *)
ConnectedIsReal == state = "CONNECTED" => Conn \in Streams

(* A connected object has the blocking mode that get_blocking reports,     *)
(* although connect has switched the descriptor to O_NONBLOCK and back, if *)
(* the object is not used again after its descriptor was closed.           *)
ModeAgrees ==
  ~Reopen /\ pc = "idle" /\ state = "CONNECTED" => NonBlock = nonBlocking

(* r_addr, which remote_addr() reports, is the peer of the connection,     *)
(* also when the object has been connected before, if no connect that has  *)
(* failed is repeated on its descriptor.                                   *)
PeerIsRemote ==
  /\ usage \cap {"retry", "addresses"} = {}
  /\ pc = "idle" /\ state = "CONNECTED" /\ Conn \in Streams
  => kern[sock].peer = raddr

(* A file that leads to no socket any more.                                *)
Stale(p) ==
  files[p] # NoFd
    /\ (kern[files[p]].conn = "closed" \/ named[files[p]] # p)

(* The path of an AF_UNIX socket: clients find a bound or listening object *)
(* at it, through whatever closes, reconnects and failures, and no file is *)
(* left without a socket but one that the object will yet remove; if bind  *)
(* is not repeated and no other object or process with the same l_addr     *)
(* ends before.                                                            *)
FileLeadsToSocket ==
  Unix /\ usage \cap {"share", "fork", "rebind"} = {} =>
    /\ \A p \in Addrs : Stale(p) => laddr = p
    /\ state \in {"BOUND", "LISTEN"} /\ laddr \in Addrs =>
         files[laddr] = sock
=============================================================================
