------------------------- MODULE SslContext_proofs --------------------------
(***************************************************************************)
(* The counts of the shared contexts, for any number of threads, sockets   *)
(* and contexts.                                                           *)
(***************************************************************************)
EXTENDS SslContext, FiniteSetTheorems, TLAPS

Sharing == {"new", "accept", "starttls"}

(* Those that share a context the script names.                            *)
Naming == {"new", "starttls"}

(* What a thread's call looks like where the thread is.                    *)
Shape ==
  \A t \in Threads :
    /\ pc[t] \in {"unborn", "idle"} => call[t] = NoCall
    /\ pc[t] \in Calling =>
         /\ call[t].op \in Sharing \cup {"free", "destroy"}
         /\ call[t].op \in Naming /\ call[t].use # 0 =>
              call[t].use \in objs[t]
         /\ call[t].kid = NoThread
    /\ pc[t] \in {"dec", "dec_write", "remove"} =>
         call[t].own # 0 /\ (call[t].use # 0 => call[t].op \in Naming)
    /\ pc[t] \in {"inc", "inc_write"} =>
         call[t].own = 0 /\ call[t].use # 0 /\ call[t].op \in Sharing
    /\ pc[t] \in Copying =>
         /\ call[t].op = "spawn" /\ call[t].own = 0
         /\ call[t].sock = NoSock
         /\ call[t].kid \in Threads /\ pc[call[t].kid] = "unborn"
         /\ objs[call[t].kid] \subseteq objs[t]
         /\ pc[t] # "clone_write" => call[t].use = 0

(* A socket that is to get a context has none, and is in one call only; a  *)
(* listener keeps the one it is to share.                                  *)
SockFree ==
  /\ \A t \in Threads :
       call[t].op \in Sharing =>
         call[t].sock \in Socks /\ uses[call[t].sock] = 0
  /\ \A t \in Threads :
       call[t].op = "accept" =>
         /\ call[t].on \in Socks
         /\ call[t].use # 0 /\ uses[call[t].on] = call[t].use
  /\ \A t, u \in Threads :
       t # u /\ call[t].sock = call[u].sock => call[t].sock = NoSock

(* A thread that is created has one creator; others have no objects yet.   *)
Kids ==
  /\ \A t, u \in Threads :
       t # u /\ call[t].kid = call[u].kid => call[t].kid = NoThread
  /\ \A k \in Threads :
       pc[k] = "unborn" => objs[k] = {} \/ \E t \in Threads : call[t].kid = k

LockHeld ==
  /\ \A t \in Threads : pc[t] \in {"clone", "clone_write"} <=> lock = t
  /\ lock = NoThread => todo = {}
  /\ \A t \in Threads : pc[t] = "clone_write" => call[t].use \in todo

Fresh == \A c \in Ctxs : c > counter => extra[c] = 0

(* Nobody counts on c any more, and the call that frees it is the only     *)
(* one.  A context without a count is in the hands of such a call.         *)
Unused(c) == Holders(c) = {} /\ Sharers(c) = {} /\ Givers(c) = {}
Removing(t, c) == pc[t] = "remove" /\ call[t].own = c

Spent ==
  ~miscounted =>
    /\ \A t \in Threads : \A c \in Ctxs : Removing(t, c) =>
         Unused(c) /\ \A u \in Threads \ {t} : ~Removing(u, c)
    /\ \A c \in linked : refcnt[c] = 0 =>
         \E t \in Threads : Removing(t, c)

Steady == TypeOK /\ Shape /\ SockFree /\ Kids /\ LockHeld /\ Fresh

IInv == Steady /\ LiveWhileUsed /\ Spent /\ CountExact
-----------------------------------------------------------------------------
(* Moves of the calling thread.                                            *)

Places == {"unborn", "idle"} \cup Calling \cup Copying

LEMMA NoCallFacts ==
  /\ NoCall \in Calls
  /\ NoCall.op = "none" /\ NoCall.sock = NoSock /\ NoCall.on = NoSock
  /\ NoCall.own = 0 /\ NoCall.use = 0 /\ NoCall.kid = NoThread
  BY SslContextAssumption DEF NoCall, Calls

LEMMA GivingFields ==
  ASSUME NEW op, NEW s, NEW own, NEW use
  PROVE  /\ Giving(op, s, own, use).op = op
         /\ Giving(op, s, own, use).sock = s
         /\ Giving(op, s, own, use).own = own
         /\ Giving(op, s, own, use).use = use
         /\ Giving(op, s, own, use).kid = NoThread
  BY DEF Giving, NoCall

LEMMA GivingFacts ==
  ASSUME NEW op \in Sharing \cup {"free", "destroy"},
         NEW s \in Socks \cup {NoSock},
         NEW own \in 0 .. MaxCtx, NEW use \in 0 .. MaxCtx
  PROVE  /\ Giving(op, s, own, use) \in Calls
         /\ Giving(op, s, own, use).op = op
         /\ Giving(op, s, own, use).sock = s
         /\ Giving(op, s, own, use).own = own
         /\ Giving(op, s, own, use).use = use
         /\ Giving(op, s, own, use).kid = NoThread
  BY SslContextAssumption DEF Giving, NoCall, Calls, Sharing

LEMMA EnterFacts ==
  ASSUME TypeOK, NEW t \in Threads, NEW w \in Places, NEW c \in Calls,
         Enter(t, w, c)
  PROVE  /\ pc' \in [Threads -> Places] /\ call' \in [Threads -> Calls]
         /\ pc'[t] = w /\ call'[t] = c
         /\ \A u \in Threads \ {t} : pc'[u] = pc[u] /\ call'[u] = call[u]
  BY DEF TypeOK, Enter, Places

(* A step of a call of t that is not CLONE, to w, as c.                    *)
Turn(t, w, c) ==
  /\ Enter(t, w, c)
  /\ pc[t] \in {"idle"} \cup Calling /\ w \in {"idle"} \cup Calling
  /\ c \in Calls /\ c.kid = NoThread
  /\ w = "idle" => c = NoCall
  /\ w # "idle" =>
       /\ c.op \in Sharing \cup {"free", "destroy"}
       /\ c.op \in Naming /\ c.use # 0 => c.use \in objs'[t]
  /\ w \in {"dec", "dec_write", "remove"} =>
       c.own # 0 /\ (c.use # 0 => c.op \in Naming)
  /\ w \in {"inc", "inc_write"} =>
       c.own = 0 /\ c.use # 0 /\ c.op \in Sharing
  /\ c.op \in Sharing => c.sock \in Socks /\ uses'[c.sock] = 0
  /\ c.op = "accept" =>
       c.on \in Socks /\ c.use # 0 /\ uses'[c.on] = c.use
  /\ c.sock \in {call[t].sock, NoSock} \/ ~InCall(c.sock)
  /\ \A s \in Socks : uses'[s] # uses[s] =>
       (s = call[t].sock /\ call[t].op \in Sharing) \/ ~InCall(s)
  /\ \A u \in Threads \ {t} : objs'[u] = objs[u]
  /\ UNCHANGED <<lock, todo>>

LEMMA TurnKeepsShape ==
  ASSUME Steady, NEW t \in Threads, NEW w, NEW c, Turn(t, w, c)
  PROVE  Shape'
  <1> USE SslContextAssumption DEF Steady, Calling, Copying
  <1>1. /\ pc'[t] = w /\ call'[t] = c
        /\ \A u \in Threads \ {t} : pc'[u] = pc[u] /\ call'[u] = call[u]
    BY EnterFacts DEF Turn, Places
  <1>2. \A u \in Threads \ {t} : objs'[u] = objs[u]
    BY DEF Turn
  <1>3. \A u \in Threads \ {t} :
          pc[u] \in Copying => pc'[call[u].kid] = pc[call[u].kid]
    BY <1>1 DEF Turn, Shape
  <1>4. ASSUME NEW u \in Threads \ {t}
        PROVE  Shape!(u)'
    <2>1. Shape!(u)
      BY DEF Shape
    <2>2. pc[u] \in Copying => objs'[call[u].kid] = objs[call[u].kid]
      <3>1. pc[t] # "unborn"
        BY DEF Turn
      <3> QED BY <1>2, <2>1, <3>1
    <2> QED BY <1>1, <1>2, <1>3, <2>1, <2>2
  <1>5. Shape!(t)'
    BY <1>1 DEF Turn
  <1> QED BY <1>4, <1>5 DEF Shape

LEMMA TurnKeepsSockFree ==
  ASSUME Steady, NEW t \in Threads, NEW w, NEW c, Turn(t, w, c)
  PROVE  SockFree'
  <1> USE SslContextAssumption DEF Steady, Calling, Copying
  <1>1. /\ pc'[t] = w /\ call'[t] = c
        /\ \A u \in Threads \ {t} : pc'[u] = pc[u] /\ call'[u] = call[u]
    BY EnterFacts DEF Turn, Places
  <1>2. \A u \in Threads \ {t} :
          c.sock # NoSock => call[u].sock # c.sock
    BY DEF Turn, InCall, SockFree
  <1>3. \A u \in Threads \ {t} : call[u].op \in Sharing =>
          call[u].sock # call[t].sock /\ uses'[call[u].sock] = 0
    <2> SUFFICES ASSUME NEW u \in Threads \ {t}, call[u].op \in Sharing
                 PROVE  call[u].sock # call[t].sock
                        /\ uses'[call[u].sock] = 0
      OBVIOUS
    <2>1. call[u].sock \in Socks /\ uses[call[u].sock] = 0
      BY DEF SockFree
    <2>2. call[u].sock # call[t].sock
      BY <2>1 DEF SockFree
    <2>3. InCall(call[u].sock)
      BY DEF InCall
    <2> QED BY <2>1, <2>2, <2>3 DEF Turn
  <1>4. /\ c.op \in Sharing => c.sock \in Socks /\ uses'[c.sock] = 0
        /\ c.op = "accept" =>
             c.on \in Socks /\ c.use # 0 /\ uses'[c.on] = c.use
    BY DEF Turn
  <1>5. \A u \in Threads \ {t} : call[u].op = "accept" =>
          uses'[call[u].on] = uses[call[u].on]
    <2> SUFFICES ASSUME NEW u \in Threads \ {t}, call[u].op = "accept",
                        uses'[call[u].on] # uses[call[u].on]
                 PROVE  FALSE
      OBVIOUS
    <2>1. /\ call[u].on \in Socks /\ uses[call[u].on] # 0
          /\ InCall(call[u].on)
      BY DEF SockFree, InCall
    <2>2. call[u].on = call[t].sock /\ call[t].op \in Sharing
      BY <2>1 DEF Turn
    <2> QED BY <2>1, <2>2 DEF SockFree
  <1>6. \A u \in Threads : call'[u].op \in Sharing =>
          call'[u].sock \in Socks /\ uses'[call'[u].sock] = 0
    BY <1>1, <1>3, <1>4 DEF SockFree
  <1>7. \A u \in Threads : call'[u].op = "accept" =>
          /\ call'[u].on \in Socks
          /\ call'[u].use # 0 /\ uses'[call'[u].on] = call'[u].use
    BY <1>1, <1>4, <1>5 DEF SockFree
  <1>8. \A u, v \in Threads :
          u # v /\ call'[u].sock = call'[v].sock => call'[u].sock = NoSock
    BY <1>1, <1>2, <1>3 DEF SockFree, Turn, InCall
  <1> QED BY <1>6, <1>7, <1>8 DEF SockFree

LEMMA TurnKeepsKids ==
  ASSUME Steady, NEW t \in Threads, NEW w, NEW c, Turn(t, w, c)
  PROVE  Kids'
  <1> USE SslContextAssumption DEF Steady, Calling, Copying
  <1>1. /\ pc'[t] = w /\ call'[t] = c
        /\ \A u \in Threads \ {t} : pc'[u] = pc[u] /\ call'[u] = call[u]
    BY EnterFacts DEF Turn, Places
  <1>2. call[t].kid = NoThread /\ c.kid = NoThread /\ pc'[t] # "unborn"
        /\ \A u \in Threads \ {t} : objs'[u] = objs[u]
    BY <1>1, NoCallFacts DEF Turn, Shape
  <1> QED BY <1>1, <1>2 DEF Kids

LEMMA TurnKeepsLock ==
  ASSUME Steady, NEW t \in Threads, NEW w, NEW c, Turn(t, w, c)
  PROVE  LockHeld'
  <1> USE SslContextAssumption DEF Steady, Calling, Copying
  <1>1. /\ pc'[t] = w /\ call'[t] = c
        /\ \A u \in Threads \ {t} : pc'[u] = pc[u] /\ call'[u] = call[u]
    BY EnterFacts DEF Turn, Places
  <1>2. lock' = lock /\ todo' = todo
        /\ pc[t] \in {"idle"} \cup Calling /\ w \in {"idle"} \cup Calling
    BY DEF Turn
  <1> QED BY <1>1, <1>2 DEF LockHeld

(* Each action that is not CLONE or CTX->new is such a step.               *)
LEMMA DecReadTurns ==
  ASSUME Steady, NEW t \in Threads, DecRead(t)
  PROVE  Turn(t, "dec_write", call[t])
  BY DEF DecRead, list, Turn, Steady, TypeOK, Shape, SockFree,
     Naming, Calling, Copying, Sharing

LEMMA IncReadTurns ==
  ASSUME Steady, NEW t \in Threads, IncRead(t)
  PROVE  Turn(t, "inc_write", call[t])
  BY DEF IncRead, list, Turn, Steady, TypeOK, Shape, SockFree,
     Naming, Calling, Copying, Sharing

LEMMA AfterDropTurns ==
  ASSUME Steady, NEW t \in Threads, AfterDrop(t), pc[t] \in Calling,
         call[t].own # 0,
         call[t].use # 0 => call[t].op \in Naming,
         UNCHANGED <<lock, todo, uses, objs>>
  PROVE  \/ Turn(t, "idle", NoCall)
         \/ Turn(t, "inc", [call[t] EXCEPT !.own = 0])
  <1>1. CASE call[t].use = 0
    BY <1>1, NoCallFacts DEF AfterDrop, Return, Turn, Steady, TypeOK, Calling,
       Copying, Sharing, Involved
  <1>2. CASE call[t].use # 0
    <2> DEFINE c == [call[t] EXCEPT !.own = 0]
    <2>1. /\ c \in Calls /\ c.op = call[t].op /\ c.sock = call[t].sock
          /\ c.own = 0 /\ c.use = call[t].use /\ c.kid = call[t].kid
      BY SMTT(60), SslContextAssumption DEF Steady, TypeOK, Calls
    <2>2. Enter(t, "inc", c)
      BY <1>2 DEF AfterDrop
    <2> HIDE DEF c
    <2>3. Turn(t, "inc", c)
      BY <1>2, <2>1, <2>2, NoCallFacts DEF Turn, Steady, Shape, SockFree,
         Naming, Calling, Copying, Sharing
    <2> QED BY <2>3 DEF c
  <1> QED BY <1>1, <1>2

LEMMA DecWriteTurns ==
  ASSUME Steady, NEW t \in Threads, DecWrite(t)
  PROVE  \/ Turn(t, "idle", NoCall)
         \/ Turn(t, "inc", [call[t] EXCEPT !.own = 0])
         \/ Turn(t, "remove", call[t])
  <1>1. CASE AfterDrop(t)
    BY <1>1, AfterDropTurns DEF DecWrite, list, Steady, Shape, Calling
  <1>2. CASE ~AfterDrop(t)
    <2>1. Turn(t, "remove", call[t])
      BY <1>2 DEF DecWrite, list, Turn, Steady, TypeOK, Shape, SockFree,
         Naming, Calling, Copying, Sharing
    <2> QED BY <2>1
  <1> QED BY <1>1, <1>2

LEMMA RemoveTurns ==
  ASSUME Steady, NEW t \in Threads, Remove(t)
  PROVE  \/ Turn(t, "idle", NoCall)
         \/ Turn(t, "inc", [call[t] EXCEPT !.own = 0])
  BY AfterDropTurns DEF Remove, Steady, Shape, Calling

LEMMA IncWriteTurns ==
  ASSUME Steady, NEW t \in Threads, IncWrite(t)
  PROVE  \/ Turn(t, "idle", NoCall)
         \/ Turn(t, "dec", Giving("free", call[t].sock, call[t].use, 0))
  <1>1. /\ call[t].sock \in Socks /\ uses[call[t].sock] = 0
        /\ call[t].use # 0 /\ call[t].op \in Sharing
        /\ call[t].use \in 0 .. MaxCtx
        /\ pc[t] = "inc_write" /\ UNCHANGED <<lock, todo, objs>>
    BY DEF IncWrite, IncWriteWith, list, Steady, Shape, SockFree, TypeOK,
       Calls, Calling
  <1>2. CASE /\ Enter(t, "idle", NoCall)
             /\ uses' = [uses EXCEPT ![call[t].sock] = call[t].use]
    BY <1>1, <1>2, NoCallFacts DEF Turn, Steady, TypeOK, Calling, Copying,
       Sharing, Involved
  <1>3. CASE /\ UNCHANGED uses
             /\ Enter(t, "dec", Giving("free", call[t].sock, call[t].use, 0))
    <2> DEFINE c == Giving("free", call[t].sock, call[t].use, 0)
    <2>1. /\ c \in Calls /\ c.op = "free" /\ c.sock = call[t].sock
          /\ c.own = call[t].use /\ c.use = 0 /\ c.kid = NoThread
      BY <1>1, SslContextAssumption, GivingFacts DEF Sharing
    <2>2. Enter(t, "dec", c)
      BY <1>3
    <2> HIDE DEF c
    <2>3. Turn(t, "dec", c)
      BY <1>1, <1>3, <2>1, <2>2, NoCallFacts DEF Turn, Steady, Shape,
         SockFree, Naming, Calling, Copying, Sharing
    <2> QED BY <2>3 DEF c
  <1> QED BY <1>2, <1>3 DEF IncWrite, IncWriteWith, Settle, Return

(* A call that begins.                                                     *)
LEMMA BeginTurns ==
  ASSUME Steady, NEW t \in Threads, Ready(t),
         NEW w \in {"dec", "inc"}, NEW c \in Calls, Enter(t, w, c),
         c.kid = NoThread, c.op \in Sharing \cup {"free", "destroy"},
         c.op \in Naming /\ c.use # 0 => c.use \in objs'[t],
         w = "dec" => c.own # 0 /\ (c.use # 0 => c.op \in Naming),
         w = "inc" => c.own = 0 /\ c.use # 0 /\ c.op \in Sharing,
         c.op \in Sharing => c.sock \in Socks /\ uses'[c.sock] = 0,
         c.op = "accept" =>
           c.on \in Socks /\ c.use # 0 /\ uses'[c.on] = c.use,
         c.sock = NoSock \/ ~InCall(c.sock),
         \A s \in Socks : uses'[s] # uses[s] => ~InCall(s),
         \A u \in Threads \ {t} : objs'[u] = objs[u],
         UNCHANGED <<lock, todo>>
  PROVE  Turn(t, w, c)
  BY DEF Ready, Turn, Calling, Sharing

LEMMA FreeTurns ==
  ASSUME Steady, NEW t \in Threads, NEW s \in Socks, Free(t, s)
  PROVE  Turn(t, "dec", Giving("free", s, uses[s], 0))
  <1> DEFINE c == Giving("free", s, uses[s], 0)
  <1>1. uses[s] \in 0 .. MaxCtx
    BY SslContextAssumption DEF Steady, TypeOK
  <1>2. /\ c \in Calls /\ c.op = "free" /\ c.sock = s
        /\ c.own = uses[s] /\ c.use = 0 /\ c.kid = NoThread
    BY <1>1, SslContextAssumption, GivingFacts DEF Sharing
  <1>3. /\ Enter(t, "dec", c) /\ Ready(t) /\ uses[s] # 0 /\ ~InCall(s)
        /\ uses' = [uses EXCEPT ![s] = 0] /\ UNCHANGED <<lock, todo, objs>>
    BY DEF Free, list
  <1> HIDE DEF c
  <1>4. \A r \in Socks : uses'[r] # uses[r] => r = s
    BY <1>3 DEF Steady, TypeOK
  <1>5. Turn(t, "dec", c)
    BY <1>2, <1>3, <1>4, BeginTurns DEF Sharing, Naming
  <1> QED BY <1>5 DEF c

LEMMA CtxDestroyTurns ==
  ASSUME Steady, NEW t \in Threads, NEW d \in Ctxs, CtxDestroy(t, d)
  PROVE  \/ Turn(t, "idle", NoCall)
         \/ Turn(t, "dec", Giving("destroy", NoSock, d, 0))
  <1> DEFINE c == Giving("destroy", NoSock, d, 0)
  <1>1. /\ c \in Calls /\ c.op = "destroy" /\ c.sock = NoSock
        /\ c.own = d /\ c.use = 0 /\ c.kid = NoThread
    BY SslContextAssumption, GivingFacts DEF Sharing, Ctxs
  <1>2. /\ Ready(t) /\ UNCHANGED <<lock, todo, uses>>
        /\ \A u \in Threads \ {t} : objs'[u] = objs[u]
        /\ Enter(t, "dec", c) \/ Enter(t, "idle", NoCall)
    BY DEF CtxDestroy, list, Return, Steady, TypeOK
  <1> HIDE DEF c
  <1>3. CASE Enter(t, "dec", c)
    <2>1. Turn(t, "dec", c)
      BY <1>1, <1>2, <1>3, BeginTurns DEF Sharing, Naming, Ctxs
    <2> QED BY <2>1 DEF c
  <1>4. CASE Enter(t, "idle", NoCall)
    BY <1>2, <1>4, NoCallFacts DEF Turn, Ready, Sharing, Involved, Calling
  <1> QED BY <1>2, <1>3, <1>4

LEMMA AcceptTurns ==
  ASSUME Steady, NEW t \in Threads, NEW l \in Socks, NEW s \in Socks,
         Accept(t, l, s)
  PROVE  \E c \in Calls : /\ c.op = "accept" /\ c.sock = s /\ c.own = 0
                          /\ c.use = uses[l] /\ Turn(t, "inc", c)
  <1> DEFINE g == Giving("accept", s, 0, uses[l])
             c == [g EXCEPT !.on = l]
  <1>1. uses[l] \in 0 .. MaxCtx
    BY SslContextAssumption DEF Steady, TypeOK
  <1>2. /\ g \in Calls /\ g.op = "accept" /\ g.sock = s
        /\ g.own = 0 /\ g.use = uses[l] /\ g.kid = NoThread
    BY <1>1, SslContextAssumption, GivingFacts DEF Sharing
  <1>3. /\ Enter(t, "inc", c) /\ Ready(t)
        /\ uses[l] # 0 /\ ~InCall(s) /\ uses[s] = 0
        /\ UNCHANGED <<lock, todo, uses, objs>>
    BY DEF Accept, list
  <1> HIDE DEF g
  <1>4. /\ c \in Calls /\ c.op = "accept" /\ c.sock = s
        /\ c.own = 0 /\ c.use = uses[l] /\ c.kid = NoThread
        /\ c.on = l
    BY <1>2 DEF Calls
  <1> HIDE DEF c
  <1>5. Turn(t, "inc", c)
    BY <1>3, <1>4, BeginTurns DEF Sharing, Naming
  <1> QED BY <1>4, <1>5

LEMMA StartTlsAgainTurns ==
  ASSUME Steady, NEW t \in Threads, NEW s \in Socks, StartTlsAgain(t, s)
  PROVE  \E use \in Ctxs : /\ use \in objs[t] \cap linked
           /\ Turn(t, "dec", Giving("starttls", s, uses[s], use))
  <1>1. PICK use \in Passed(t) \ {0} :
          ShareInstead(t, "starttls", s, uses[s], use)
    BY DEF StartTlsAgain
  <1> DEFINE c == Giving("starttls", s, uses[s], use)
  <1>2. /\ use \in objs[t] \cap linked /\ use \in Ctxs /\ use # 0
        /\ use \in 0 .. MaxCtx /\ uses[s] \in 0 .. MaxCtx
    BY <1>1, SslContextAssumption DEF Passed, Steady, TypeOK, Ctxs
  <1>3. /\ c \in Calls /\ c.op = "starttls" /\ c.sock = s
        /\ c.own = uses[s] /\ c.use = use /\ c.kid = NoThread
    BY <1>2, GivingFacts DEF Sharing
  <1>4. /\ Enter(t, "dec", c) /\ Ready(t) /\ uses[s] # 0 /\ ~InCall(s)
        /\ uses' = [uses EXCEPT ![s] = 0] /\ UNCHANGED <<lock, todo, objs>>
    BY <1>1 DEF StartTlsAgain, list, ShareInstead
  <1> HIDE DEF c
  <1>5. /\ \A r \in Socks : uses'[r] # uses[r] => r = s
        /\ uses'[s] = 0
    BY <1>4 DEF Steady, TypeOK
  <1>6. Turn(t, "dec", c)
    BY <1>2, <1>3, <1>4, <1>5, BeginTurns DEF Sharing, Naming
  <1> QED BY <1>2, <1>6 DEF c

(* The number of a context that is created is in no call yet.              *)
LEMMA CreateIsNew ==
  ASSUME Steady, NEW own \in Ctxs, Create(own)
  PROVE  /\ own \in 1 .. MaxCtx /\ own > counter /\ counter' = own
         /\ \A u \in Threads : own \notin Involved(u) /\ own \notin objs[u]
         /\ \A s \in Socks : uses[s] # own
         /\ own \notin linked
         /\ UNCHANGED <<lock, todo, extra, tmp>>
  BY SslContextAssumption DEF Create, Steady, TypeOK, Involved, Ctxs

LEMMA NewTurns ==
  ASSUME Steady, NEW t \in Threads, NEW s \in Socks, New(t, s)
  PROVE  \E own \in Ctxs, use \in Passed(t) :
           /\ Create(own)
           /\ \/ /\ use = 0 /\ uses' = [uses EXCEPT ![s] = own]
                 /\ Turn(t, "idle", NoCall)
              \/ /\ use = 0 /\ UNCHANGED uses
                 /\ Turn(t, "dec", Giving("free", s, own, 0))
              \/ /\ use # 0 /\ UNCHANGED uses
                 /\ Turn(t, "dec", Giving("new", s, own, use))
  <1>1. PICK own \in Ctxs, use \in Passed(t) :
          /\ Create(own)
          /\ \/ use = 0 /\ Settle(t, s, own)
             \/ use # 0 /\ UNCHANGED uses
                /\ ShareInstead(t, "new", s, own, use)
    BY DEF New
  <1>2. /\ Ready(t) /\ uses[s] = 0 /\ ~InCall(s) /\ UNCHANGED objs
    BY DEF New
  <1>3. /\ own \in 1 .. MaxCtx /\ UNCHANGED <<lock, todo>>
        /\ \A u \in Threads : own \notin Involved(u)
    BY <1>1, CreateIsNew
  <1>4. /\ use \in 0 .. MaxCtx /\ (use # 0 => use \in objs[t])
        /\ own \in 0 .. MaxCtx /\ own # 0
    BY <1>1, <1>3, SslContextAssumption DEF Passed, Steady, TypeOK, Ctxs
  <1>6. CASE use = 0 /\ uses' = [uses EXCEPT ![s] = own] /\ Return(t)
    <2>1. \A r \in Socks : uses'[r] # uses[r] => r = s
      BY <1>6 DEF Steady, TypeOK
    <2>2. Turn(t, "idle", NoCall)
      BY <1>2, <1>3, <1>6, <2>1, NoCallFacts DEF Turn, Return, Ready, Sharing,
         Involved, Calling
    <2> QED BY <1>1, <1>6, <2>2
  <1>7. CASE /\ use = 0 /\ UNCHANGED uses
             /\ Enter(t, "dec", Giving("free", s, own, 0))
    <2> DEFINE c == Giving("free", s, own, 0)
    <2>0. /\ 0 \in 0 .. MaxCtx /\ own \in 0 .. MaxCtx
          /\ s \in Socks \cup {NoSock}
          /\ "free" \in Sharing \cup {"free", "destroy"}
      BY <1>4, SslContextAssumption
    <2>1. /\ c \in Calls /\ c.op = "free" /\ c.sock = s
          /\ c.own = own /\ c.use = 0 /\ c.kid = NoThread
      BY <2>0, GivingFacts
    <2>2. Enter(t, "dec", c)
      BY <1>7
    <2> HIDE DEF c
    <2>3. Turn(t, "dec", c)
      BY <1>2, <1>3, <1>4, <1>7, <2>1, <2>2, BeginTurns DEF Sharing, Naming
    <2> QED BY <1>1, <1>7, <2>3 DEF c
  <1>8. CASE use # 0 /\ UNCHANGED uses /\ ShareInstead(t, "new", s, own, use)
    <2> DEFINE c == Giving("new", s, own, use)
    <2>0. /\ "new" \in Sharing \cup {"free", "destroy"}
          /\ s \in Socks \cup {NoSock}
      BY DEF Sharing
    <2>1. /\ c \in Calls /\ c.op = "new" /\ c.sock = s
          /\ c.own = own /\ c.use = use /\ c.kid = NoThread
      BY <1>4, <2>0, GivingFacts
    <2>2. Enter(t, "dec", c)
      BY <1>8 DEF ShareInstead
    <2> HIDE DEF c
    <2>3. Turn(t, "dec", c)
      BY <1>2, <1>3, <1>4, <1>8, <2>1, <2>2, BeginTurns DEF Sharing, Naming
    <2> QED BY <1>1, <1>8, <2>3 DEF c
  <1> QED BY <1>1, <1>6, <1>7, <1>8 DEF Settle

LEMMA StartTlsTurns ==
  ASSUME Steady, NEW t \in Threads, NEW s \in Socks, StartTls(t, s)
  PROVE  \E own \in Ctxs, use \in Passed(t) :
           /\ Create(own)
           /\ \/ /\ use = 0 /\ uses' = [uses EXCEPT ![s] = own]
                 /\ Turn(t, "idle", NoCall)
              \/ /\ use # 0 /\ UNCHANGED uses
                 /\ Turn(t, "dec", Giving("starttls", s, own, use))
  <1>1. PICK own \in Ctxs, use \in Passed(t) :
          /\ Create(own)
          /\ \/ use = 0 /\ uses' = [uses EXCEPT ![s] = own] /\ Return(t)
             \/ use # 0 /\ UNCHANGED uses
                /\ ShareInstead(t, "starttls", s, own, use)
    BY DEF StartTls
  <1>2. /\ Ready(t) /\ uses[s] = 0 /\ ~InCall(s) /\ UNCHANGED objs
    BY DEF StartTls
  <1>3. /\ own \in 1 .. MaxCtx /\ UNCHANGED <<lock, todo>>
        /\ \A u \in Threads : own \notin Involved(u)
    BY <1>1, CreateIsNew
  <1>4. /\ use \in 0 .. MaxCtx /\ (use # 0 => use \in objs[t])
        /\ own \in 0 .. MaxCtx /\ own # 0
    BY <1>1, <1>3, SslContextAssumption DEF Passed, Steady, TypeOK, Ctxs
  <1>6. CASE use = 0 /\ uses' = [uses EXCEPT ![s] = own] /\ Return(t)
    <2>1. \A r \in Socks : uses'[r] # uses[r] => r = s
      BY <1>6 DEF Steady, TypeOK
    <2>2. Turn(t, "idle", NoCall)
      BY <1>2, <1>3, <1>6, <2>1, NoCallFacts DEF Turn, Return, Ready, Sharing,
         Involved, Calling
    <2> QED BY <1>1, <1>6, <2>2
  <1>8. CASE /\ use # 0 /\ UNCHANGED uses
             /\ ShareInstead(t, "starttls", s, own, use)
    <2> DEFINE c == Giving("starttls", s, own, use)
    <2>0. /\ "starttls" \in Sharing \cup {"free", "destroy"}
          /\ s \in Socks \cup {NoSock}
      BY DEF Sharing
    <2>1. /\ c \in Calls /\ c.op = "starttls" /\ c.sock = s
          /\ c.own = own /\ c.use = use /\ c.kid = NoThread
      BY <1>4, <2>0, GivingFacts
    <2>2. Enter(t, "dec", c)
      BY <1>8 DEF ShareInstead
    <2> HIDE DEF c
    <2>3. Turn(t, "dec", c)
      BY <1>2, <1>3, <1>4, <1>8, <2>1, <2>2, BeginTurns DEF Sharing, Naming
    <2> QED BY <1>1, <1>8, <2>3 DEF c
  <1> QED BY <1>1, <1>6, <1>8

LEMMA CtxNewTurns ==
  ASSUME Steady, NEW t \in Threads, CtxNew(t)
  PROVE  \E own \in Ctxs :
           /\ Create(own) /\ UNCHANGED uses
           /\ objs' = [objs EXCEPT ![t] = objs[t] \cup {own}]
           /\ Turn(t, "idle", NoCall)
  <1>1. PICK own \in Ctxs :
           Create(own) /\ objs' = [objs EXCEPT ![t] = objs[t] \cup {own}]
    BY DEF CtxNew
  <1>2. Ready(t) /\ Return(t) /\ UNCHANGED <<uses, lock, todo>>
    BY <1>1, CreateIsNew DEF CtxNew
  <1>3. \A u \in Threads \ {t} : objs'[u] = objs[u]
    BY <1>1 DEF Steady, TypeOK
  <1>4. Turn(t, "idle", NoCall)
    BY <1>2, <1>3, NoCallFacts DEF Turn, Return, Ready, Sharing, Involved,
       Calling
  <1> QED BY <1>1, <1>2, <1>4
-----------------------------------------------------------------------------
(* Ranges.                                                                 *)

CallsTyped ==
  /\ pc \in [Threads -> Places] /\ call \in [Threads -> Calls]
  /\ \A t \in Threads : call[t].own <= counter /\ call[t].use <= counter

DataTyped ==
  /\ counter \in 0 .. MaxCtx /\ linked \subseteq 1 .. counter
  /\ refcnt \in [Ctxs -> Int] /\ extra \in [Ctxs -> Nat]
  /\ lock \in Threads \cup {NoThread} /\ todo \subseteq linked
  /\ uses \in [Socks -> 0 .. counter]
  /\ objs \in [Threads -> SUBSET (1 .. counter)]
  /\ tmp \in [Threads -> Int]
  /\ miscounted \in BOOLEAN

LEMMA TypesInTwo == TypeOK <=> CallsTyped /\ DataTyped
  BY DEF TypeOK, CallsTyped, DataTyped, Places

LEMMA EnterKeepsTypes ==
  ASSUME Steady, NEW t \in Threads, NEW w \in Places, NEW c \in Calls,
         Enter(t, w, c), DataTyped', counter <= counter',
         c.own <= counter', c.use <= counter'
  PROVE  TypeOK'
  <1>1. /\ pc' \in [Threads -> Places] /\ call' \in [Threads -> Calls]
        /\ call'[t] = c
        /\ \A u \in Threads \ {t} : call'[u] = call[u]
    BY EnterFacts DEF Steady
  <1>2. /\ counter \in Int /\ counter' \in Int
        /\ \A u \in Threads : /\ call[u].own \in Int /\ call[u].own <= counter
                              /\ call[u].use \in Int /\ call[u].use <= counter
    BY SslContextAssumption DEF Steady, TypeOK, DataTyped, Calls
  <1>3. \A u \in Threads : call'[u].own <= counter' /\ call'[u].use <= counter'
    BY <1>1, <1>2
  <1>4. CallsTyped'
    BY <1>1, <1>3 DEF CallsTyped
  <1> QED BY <1>4 DEF TypeOK, CallsTyped, DataTyped, Places

LEMMA CreateKeepsTypes ==
  ASSUME Steady, NEW own \in Ctxs, Create(own)
  PROVE  /\ counter' \in 0 .. MaxCtx /\ counter <= counter'
         /\ linked' \subseteq 1 .. counter' /\ refcnt' \in [Ctxs -> Int]
         /\ extra' \in [Ctxs -> Nat] /\ lock' \in Threads \cup {NoThread}
         /\ todo' \subseteq linked' /\ tmp' \in [Threads -> Int]
         /\ miscounted' \in BOOLEAN
         /\ 0 .. counter \subseteq 0 .. counter'
         /\ 1 .. counter \subseteq 1 .. counter'
         /\ uses \in [Socks -> 0 .. counter']
         /\ objs \in [Threads -> SUBSET (1 .. counter')]
         /\ own \in 1 .. counter'
  <1> USE SslContextAssumption DEF Create, Steady, TypeOK, Ctxs
  <1>1. /\ 0 .. counter \subseteq 0 .. counter'
        /\ 1 .. counter \subseteq 1 .. counter'
    OBVIOUS
  <1>2. /\ uses \in [Socks -> 0 .. counter']
        /\ objs \in [Threads -> SUBSET (1 .. counter')]
    BY <1>1
  <1> QED BY <1>1, <1>2

LEMMA TypeStep ==
  ASSUME Steady, [Next]_vars
  PROVE  TypeOK'
  <1> USE SslContextAssumption DEF Steady
  <1>0. /\ \A t \in Threads : /\ call[t] \in Calls /\ NoCall \in Calls
                              /\ call[t].own \in 0 .. counter
                              /\ call[t].own <= counter
                              /\ call[t].use \in 0 .. counter
                              /\ call[t].use <= counter
                              /\ call[t].sock \in Socks \cup {NoSock}
        /\ counter \in 0 .. MaxCtx /\ Ctxs = 1 .. MaxCtx
        /\ DataTyped
    BY SMTT(60), NoCallFacts, TypesInTwo DEF TypeOK, Calls, Ctxs
  <1>1. ASSUME NEW t \in Threads, DecRead(t)
        PROVE  TypeOK'
    <2>0. call[t].own \in Ctxs
      BY <1>0, <1>1 DEF DecRead, Shape
    <2>1. DataTyped'
      BY <1>1, <2>0 DEF DecRead, list, DataTyped, TypeOK
    <2>2. Enter(t, "dec_write", call[t]) /\ counter' = counter
      BY <1>1 DEF DecRead, list
    <2> QED BY <1>0, <2>1, <2>2, EnterKeepsTypes DEF Places, Calling
  <1>2. ASSUME NEW t \in Threads, DecWrite(t)
        PROVE  TypeOK'
    <2>0. call[t].own \in Ctxs
      BY <1>0, <1>2 DEF DecWrite, Shape
    <2>1. DataTyped'
      <3>1. /\ refcnt' = [refcnt EXCEPT ![call[t].own] = tmp[t] - 1]
            /\ tmp' = [tmp EXCEPT ![t] = 0]
            /\ UNCHANGED <<list, uses, objs>>
        BY <1>2 DEF DecWrite, Store
      <3>2. miscounted' \in BOOLEAN
        BY <1>2 DEF DecWrite, Store
      <3> QED BY <2>0, <3>1, <3>2 DEF list, DataTyped, TypeOK
    <2> DEFINE d == [call[t] EXCEPT !.own = 0]
    <2>2. /\ counter' = counter
          /\ Enter(t, "inc", d) \/ Enter(t, "idle", NoCall)
             \/ Enter(t, "remove", call[t])
      BY <1>2 DEF DecWrite, AfterDrop, Return, list
    <2>3. d \in Calls /\ d.own = 0 /\ d.use = call[t].use
      BY <1>0 DEF Calls
    <2> HIDE DEF d
    <2> QED BY <1>0, <2>1, <2>2, <2>3, NoCallFacts, EnterKeepsTypes
            DEF Places, Calling
  <1>3. ASSUME NEW t \in Threads, Remove(t)
        PROVE  TypeOK'
    <2>1. DataTyped'
      BY <1>0, <1>3 DEF Remove, DataTyped, LockHeld
    <2> DEFINE d == [call[t] EXCEPT !.own = 0]
    <2>2. /\ counter' = counter
          /\ Enter(t, "inc", d) \/ Enter(t, "idle", NoCall)
      BY <1>3 DEF Remove, AfterDrop, Return
    <2>3. d \in Calls /\ d.own = 0 /\ d.use = call[t].use
      BY <1>0 DEF Calls
    <2> HIDE DEF d
    <2> QED BY <1>0, <2>1, <2>2, <2>3, NoCallFacts, EnterKeepsTypes
            DEF Places, Calling
  <1>4. ASSUME NEW t \in Threads, IncRead(t)
        PROVE  TypeOK'
    <2>0. call[t].use \in Ctxs
      BY <1>0, <1>4 DEF IncRead, Shape
    <2>1. DataTyped'
      BY <1>4, <2>0 DEF IncRead, list, DataTyped, TypeOK
    <2>2. Enter(t, "inc_write", call[t]) /\ counter <= counter'
      BY <1>0, <1>4 DEF IncRead, list
    <2>3. /\ call[t] \in Calls /\ "inc_write" \in Places
          /\ call[t].own <= counter' /\ call[t].use <= counter'
      BY <1>0, <1>4 DEF IncRead, list, Places, Calling
    <2> QED BY <2>1, <2>2, <2>3, EnterKeepsTypes
  <1>5. ASSUME NEW t \in Threads, IncWrite(t)
        PROVE  TypeOK'
    <2>1. DataTyped'
      <3>1. uses' \in [Socks -> 0 .. counter]
        BY <1>0, <1>5 DEF IncWrite, IncWriteWith, Settle, DataTyped
      <3>2. call[t].use \in Ctxs
        BY <1>0, <1>5 DEF IncWrite, IncWriteWith, Shape
      <3>3. /\ refcnt' = [refcnt EXCEPT ![call[t].use] = tmp[t] + 1]
            /\ tmp' = [tmp EXCEPT ![t] = 0]
            /\ UNCHANGED <<list, objs>>
        BY <1>5 DEF IncWrite, IncWriteWith, Store
      <3>4. miscounted' \in BOOLEAN
        BY <1>5 DEF IncWrite, IncWriteWith, Store
      <3> QED BY <3>1, <3>2, <3>3, <3>4 DEF DataTyped, list, TypeOK
    <2>2. /\ counter' = counter
          /\ \/ Enter(t, "dec", Giving("free", call[t].sock, call[t].use, 0))
             \/ Enter(t, "idle", NoCall)
      BY <1>5 DEF IncWrite, IncWriteWith, Settle, Return, list
    <2> DEFINE d == Giving("free", call[t].sock, call[t].use, 0)
    <2>3. d \in Calls /\ d.own = call[t].use /\ d.use = 0
      <3>1. /\ call[t].sock \in Socks \cup {NoSock}
            /\ call[t].use \in 0 .. MaxCtx /\ 0 \in 0 .. MaxCtx
        BY <1>0
      <3> QED BY SMTT(60), <3>1, GivingFacts DEF Sharing
    <2> HIDE DEF d
    <2> QED BY <1>0, <2>1, <2>2, <2>3, NoCallFacts, EnterKeepsTypes
            DEF Places, Calling, d
  <1>6. ASSUME NEW t \in Threads, CloneLock(t)
        PROVE  TypeOK'
    <2>1. DataTyped'
      BY <1>0, <1>6 DEF CloneLock, DataTyped
    <2>2. Enter(t, "clone", call[t]) /\ counter' = counter
      BY <1>6 DEF CloneLock
    <2> QED BY <1>0, <2>1, <2>2, EnterKeepsTypes DEF Places, Copying
  <1>7. ASSUME NEW t \in Threads, CloneRead(t)
        PROVE  TypeOK'
    <2>1. PICK c \in todo : /\ tmp' = [tmp EXCEPT ![t] = refcnt[c]]
                            /\ Enter(t, "clone_write",
                                     [call[t] EXCEPT !.use = c])
      BY <1>7 DEF CloneRead
    <2>2. c \in Ctxs /\ c \in 0 .. counter /\ counter' = counter
      BY <1>0, <1>7 DEF DataTyped, CloneRead, list
    <2>3. DataTyped'
      BY <1>0, <1>7, <2>1, <2>2 DEF CloneRead, list, DataTyped
    <2> DEFINE d == [call[t] EXCEPT !.use = c]
    <2>4. d \in Calls /\ d.own = call[t].own /\ d.use = c
      BY <1>0, <2>2 DEF Calls
    <2>5. Enter(t, "clone_write", d)
      BY <2>1
    <2> HIDE DEF d
    <2> QED BY <1>0, <2>2, <2>3, <2>4, <2>5, EnterKeepsTypes
            DEF Places, Copying
  <1>8. ASSUME NEW t \in Threads, CloneWrite(t)
        PROVE  TypeOK'
    <2>0. call[t].use \in Ctxs
      BY <1>0, <1>8 DEF CloneWrite, CloneWriteOf, LockHeld, DataTyped
    <2>1. DataTyped'
      <3>1. /\ refcnt' = [refcnt EXCEPT ![call[t].use] = tmp[t] + 1]
            /\ todo' = todo \ {call[t].use}
            /\ \/ extra' = extra
               \/ extra' = [extra EXCEPT ![call[t].use] =
                                             extra[call[t].use] + 1]
            /\ tmp' = [tmp EXCEPT ![t] = 0]
            /\ UNCHANGED <<counter, linked, lock, uses, objs>>
        BY <1>8 DEF CloneWrite, CloneWriteOf, Store
      <3>2. extra' \in [Ctxs -> Nat]
        BY <2>0, <3>1 DEF TypeOK
      <3>3. refcnt' \in [Ctxs -> Int]
        BY <2>0, <3>1 DEF TypeOK
      <3>4. miscounted' \in BOOLEAN
        BY <1>8 DEF CloneWrite, CloneWriteOf, Store
      <3>5. todo' \subseteq linked' /\ tmp' \in [Threads -> Int]
        <4>1. todo \subseteq linked /\ tmp \in [Threads -> Int]
          BY <1>0 DEF DataTyped
        <4> QED BY <3>1, <4>1
      <3> QED BY <1>0, <3>1, <3>2, <3>3, <3>4, <3>5 DEF DataTyped
    <2> DEFINE d == [call[t] EXCEPT !.use = 0]
    <2>2. d \in Calls /\ d.own = call[t].own /\ d.use = 0
      BY <1>0 DEF Calls
    <2>3. Enter(t, "clone", d) /\ counter' = counter
      BY <1>8 DEF CloneWrite, CloneWriteOf
    <2> HIDE DEF d
    <2> QED BY <1>0, <2>1, <2>2, <2>3, EnterKeepsTypes DEF Places, Copying
  <1>9. ASSUME NEW t \in Threads, CloneDone(t)
        PROVE  TypeOK'
    <2>1. DataTyped'
      BY <1>0, <1>9 DEF CloneDone, DataTyped
    <2>2. CallsTyped'
      <3>1. pc' \in [Threads -> Places] /\ call' \in [Threads -> Calls]
        BY <1>0, <1>9 DEF CloneDone, TypeOK, Places
      <3>2. \A u \in Threads : call'[u] = call[u] \/ call'[u] = NoCall
        BY <1>9 DEF CloneDone, TypeOK
      <3>3. counter' = counter /\ 0 <= counter
        BY <1>0, <1>9 DEF CloneDone
      <3> QED BY <1>0, <3>1, <3>2, <3>3, NoCallFacts DEF CallsTyped
    <2> QED BY <2>1, <2>2 DEF TypeOK, CallsTyped, DataTyped, Places
  <1>10. ASSUME NEW t \in Threads, CtxNew(t)
         PROVE  TypeOK'
    <2>1. PICK own \in Ctxs : /\ Create(own) /\ UNCHANGED uses
             /\ objs' = [objs EXCEPT ![t] = objs[t] \cup {own}]
             /\ Turn(t, "idle", NoCall)
      BY <1>10, CtxNewTurns
    <2>2. DataTyped' /\ counter <= counter' /\ 0 <= counter'
      BY <2>1, CreateKeepsTypes DEF DataTyped
    <2>3. Enter(t, "idle", NoCall)
      BY <2>1 DEF Turn
    <2> QED BY <1>0, <2>2, <2>3, NoCallFacts, EnterKeepsTypes DEF Places
  <1>11. ASSUME NEW t \in Threads, NEW s \in Socks, New(t, s)
         PROVE  TypeOK'
    <2>1. PICK own \in Ctxs, use \in Passed(t) :
           /\ Create(own)
           /\ \/ /\ use = 0 /\ uses' = [uses EXCEPT ![s] = own]
                 /\ Turn(t, "idle", NoCall)
              \/ /\ use = 0 /\ UNCHANGED uses
                 /\ Turn(t, "dec", Giving("free", s, own, 0))
              \/ /\ use # 0 /\ UNCHANGED uses
                 /\ Turn(t, "dec", Giving("new", s, own, use))
      BY <1>11, NewTurns
    <2>2. objs' = objs
      BY <1>11 DEF New
    <2>3. DataTyped' /\ counter <= counter' /\ 0 <= counter' /\ own <= counter'
      BY <2>1, <2>2, CreateKeepsTypes DEF DataTyped
    <2>4. use \in 0 .. counter /\ own \in 0 .. MaxCtx /\ use <= counter'
      BY SMTT(60), <1>0, <2>3 DEF Passed, DataTyped
    <2>5. CASE Turn(t, "idle", NoCall)
      BY <1>0, <2>3, <2>5, NoCallFacts, EnterKeepsTypes DEF Turn, Places
    <2>6. CASE Turn(t, "dec", Giving("free", s, own, 0))
      <3> DEFINE d == Giving("free", s, own, 0)
      <3>1. d.own = own /\ d.use = 0
        BY GivingFields
      <3>2. d \in Calls /\ Enter(t, "dec", d)
        BY <2>6 DEF Turn
      <3> HIDE DEF d
      <3> QED BY <2>3, <3>1, <3>2, EnterKeepsTypes DEF Places, Calling
    <2>7. CASE Turn(t, "dec", Giving("new", s, own, use))
      <3> DEFINE d == Giving("new", s, own, use)
      <3>1. d.own = own /\ d.use = use
        BY GivingFields
      <3>2. d \in Calls /\ Enter(t, "dec", d)
        BY <2>7 DEF Turn
      <3> HIDE DEF d
      <3> QED BY <2>3, <2>4, <3>1, <3>2, EnterKeepsTypes DEF Places, Calling
    <2> QED BY <2>1, <2>5, <2>6, <2>7
  <1>12. ASSUME NEW t \in Threads, NEW s \in Socks, StartTls(t, s)
         PROVE  TypeOK'
    <2>1. PICK own \in Ctxs, use \in Passed(t) :
           /\ Create(own)
           /\ \/ /\ use = 0 /\ uses' = [uses EXCEPT ![s] = own]
                 /\ Turn(t, "idle", NoCall)
              \/ /\ use # 0 /\ UNCHANGED uses
                 /\ Turn(t, "dec", Giving("starttls", s, own, use))
      BY <1>12, StartTlsTurns
    <2>2. objs' = objs
      BY <1>12 DEF StartTls
    <2>3. DataTyped' /\ counter <= counter' /\ 0 <= counter' /\ own <= counter'
      BY <2>1, <2>2, CreateKeepsTypes DEF DataTyped
    <2>4. use \in 0 .. counter /\ own \in 0 .. MaxCtx /\ use <= counter'
      BY SMTT(60), <1>0, <2>3 DEF Passed, DataTyped
    <2>5. CASE Turn(t, "idle", NoCall)
      BY <1>0, <2>3, <2>5, NoCallFacts, EnterKeepsTypes DEF Turn, Places
    <2>7. CASE Turn(t, "dec", Giving("starttls", s, own, use))
      <3> DEFINE d == Giving("starttls", s, own, use)
      <3>1. d.own = own /\ d.use = use
        BY GivingFields
      <3>2. d \in Calls /\ Enter(t, "dec", d)
        BY <2>7 DEF Turn
      <3> HIDE DEF d
      <3> QED BY <2>3, <2>4, <3>1, <3>2, EnterKeepsTypes DEF Places, Calling
    <2> QED BY <2>1, <2>5, <2>7
  <1>13. ASSUME NEW t \in Threads, NEW s \in Socks, StartTlsAgain(t, s)
         PROVE  TypeOK'
    <2>1. PICK use \in Ctxs :
             /\ use \in objs[t] \cap linked
             /\ Turn(t, "dec", Giving("starttls", s, uses[s], use))
      BY <1>13, StartTlsAgainTurns
    <2> DEFINE d == Giving("starttls", s, uses[s], use)
    <2>2. uses[s] \in 0 .. counter /\ use \in 0 .. counter
      BY <1>0, <2>1 DEF DataTyped
    <2>3. d.own = uses[s] /\ d.use = use
      BY GivingFields
    <2>4. d \in Calls /\ Enter(t, "dec", d)
      BY <2>1 DEF Turn
    <2> HIDE DEF d
    <2>5. DataTyped' /\ counter' = counter
      BY <1>0, <1>13 DEF StartTlsAgain, list, DataTyped
    <2> QED BY SMTT(60), <1>0, <2>2, <2>3, <2>4, <2>5, EnterKeepsTypes
            DEF Places, Calling
  <1>14. ASSUME NEW t \in Threads, NEW s \in Socks, Free(t, s)
         PROVE  TypeOK'
    <2>1. Turn(t, "dec", Giving("free", s, uses[s], 0))
      BY <1>14, FreeTurns
    <2> DEFINE d == Giving("free", s, uses[s], 0)
    <2>2. uses[s] \in 0 .. counter
      BY <1>0 DEF DataTyped
    <2>3. d.own = uses[s] /\ d.use = 0
      BY GivingFields
    <2>4. d \in Calls /\ Enter(t, "dec", d)
      BY <2>1 DEF Turn
    <2> HIDE DEF d
    <2>5. DataTyped' /\ counter' = counter
      <3>1. /\ uses' = [uses EXCEPT ![s] = 0]
            /\ UNCHANGED <<list, refcnt, objs, tmp, miscounted>>
        BY <1>14 DEF Free
      <3> QED BY SMTT(30), <1>0, <3>1 DEF list, DataTyped
    <2> QED BY <1>0, <2>2, <2>3, <2>4, <2>5, EnterKeepsTypes
            DEF Places, Calling
  <1>15. ASSUME NEW t \in Threads, NEW l \in Socks, NEW s \in Socks,
                Accept(t, l, s)
         PROVE  TypeOK'
    <2>1. PICK d \in Calls : d.own = 0 /\ d.use = uses[l] /\ Turn(t, "inc", d)
      BY <1>15, AcceptTurns
    <2>2. uses[l] \in 0 .. counter
      BY <1>0 DEF DataTyped
    <2>3. DataTyped' /\ counter' = counter
      BY <1>0, <1>15 DEF Accept, list, DataTyped
    <2> QED BY <1>0, <2>1, <2>2, <2>3, EnterKeepsTypes
            DEF Turn, Places, Calling
  <1>16. ASSUME NEW t \in Threads, NEW c \in Ctxs, CtxDestroy(t, c)
         PROVE  TypeOK'
    <2>1. DataTyped' /\ counter' = counter
      BY <1>0, <1>16 DEF CtxDestroy, list, DataTyped
    <2>2. c \in 0 .. counter
      BY <1>0, <1>16 DEF CtxDestroy, DataTyped
    <2> DEFINE d == Giving("destroy", NoSock, c, 0)
    <2>3. d.own = c /\ d.use = 0
      BY GivingFields
    <2>4. Turn(t, "idle", NoCall) \/ Turn(t, "dec", d)
      BY <1>16, CtxDestroyTurns
    <2> HIDE DEF d
    <2>5. CASE Turn(t, "idle", NoCall)
      BY <1>0, <2>1, <2>5, NoCallFacts, EnterKeepsTypes DEF Turn, Places
    <2>6. CASE Turn(t, "dec", d)
      BY <1>0, <2>1, <2>2, <2>3, <2>6, EnterKeepsTypes DEF Turn, Places,
         Calling
    <2> QED BY <2>4, <2>5, <2>6
  <1>17. ASSUME NEW t \in Threads, NEW k \in Threads, Spawn(t, k)
         PROVE  TypeOK'
    <2>1. DataTyped' /\ counter' = counter
      BY <1>0, <1>17 DEF Spawn, list, DataTyped
    <2> DEFINE d == [NoCall EXCEPT !.op = "spawn", !.kid = k]
    <2>2. d \in Calls /\ d.own = 0 /\ d.use = 0
      BY NoCallFacts DEF Calls
    <2>3. Enter(t, "clone_lock", d)
      BY <1>17 DEF Spawn
    <2>4. counter <= counter' /\ 0 <= counter' /\ "clone_lock" \in Places
      BY <1>0, <2>1 DEF Places, Copying
    <2> HIDE DEF d
    <2> QED BY <2>1, <2>2, <2>3, <2>4, EnterKeepsTypes
  <1>18. CASE UNCHANGED vars
    <2>1. DataTyped'
      BY <1>0, <1>18 DEF vars, DataTyped
    <2>2. CallsTyped'
      BY <1>18, TypesInTwo DEF vars, CallsTyped
    <2> QED BY <2>1, <2>2 DEF TypeOK, CallsTyped, DataTyped, Places
  <1> QED BY <1>1, <1>2, <1>3, <1>4, <1>5, <1>6, <1>7, <1>8, <1>9, <1>10,
             <1>11, <1>12, <1>13, <1>14, <1>15, <1>16, <1>17, <1>18
          DEF Next, Step
-----------------------------------------------------------------------------
(* CLONE, step by step.                                                    *)

LEMMA SpawnKeeps ==
  ASSUME Steady, NEW t \in Threads, NEW k \in Threads, Spawn(t, k)
  PROVE  Shape' /\ SockFree' /\ Kids' /\ LockHeld' /\ Fresh'
  <1> USE SslContextAssumption DEF Steady, Calling, Copying
  <1> DEFINE c == [NoCall EXCEPT !.op = "spawn", !.kid = k]
  <1>1. /\ c \in Calls /\ c.op = "spawn" /\ c.kid = k /\ c.own = 0
        /\ c.use = 0 /\ c.sock = NoSock
    BY NoCallFacts DEF Calls
  <1>2. Enter(t, "clone_lock", c)
    BY DEF Spawn
  <1> HIDE DEF c
  <1>3. /\ pc'[t] = "clone_lock" /\ call'[t] = c
        /\ \A u \in Threads \ {t} : pc'[u] = pc[u] /\ call'[u] = call[u]
    BY <1>1, <1>2, EnterFacts DEF Places
  <1>4. /\ pc[t] = "idle" /\ pc[k] = "unborn" /\ k # t
        /\ \A u \in Threads : call[u].kid # k
        /\ UNCHANGED <<lock, todo, uses, extra, counter>>
        /\ \A u \in Threads \ {k} : objs'[u] = objs[u]
    BY DEF Spawn, Ready, list, TypeOK
  <1>5. Shape'
    <2>1. Shape!(t)'
      <3>1. objs'[k] = objs'[t]
        BY <1>4 DEF Spawn, TypeOK
      <3> QED BY <1>1, <1>3, <1>4, <3>1
    <2>2. ASSUME NEW u \in Threads \ {t} PROVE Shape!(u)'
      <3>1. pc[u] \in Copying => call[u].kid # t
        BY <1>4 DEF Shape
      <3>2. pc[u] \in Copying => pc'[call[u].kid] = pc[call[u].kid]
        BY <1>3, <3>1 DEF Shape
      <3>3. u = k => pc[u] = "unborn"
        BY <1>4
      <3> QED BY <1>3, <1>4, <3>2, <3>3 DEF Shape
    <2> QED BY <2>1, <2>2 DEF Shape
  <1>6. SockFree'
    BY <1>1, <1>3, <1>4 DEF SockFree, Sharing
  <1>7. Kids'
    <2>1. ASSUME NEW u \in Threads, NEW v \in Threads, u # v,
                 call'[u].kid = call'[v].kid
          PROVE  call'[u].kid = NoThread
      BY <1>1, <1>3, <1>4, <2>1 DEF Kids
    <2>2. call[t].kid = NoThread
      BY <1>4, NoCallFacts DEF Shape
    <2>3. ASSUME NEW j \in Threads, pc'[j] = "unborn"
          PROVE  objs'[j] = {} \/ \E u \in Threads : call'[u].kid = j
      <3>1. CASE j = k
        BY <1>1, <1>3, <3>1
      <3>2. CASE j # k
        <4>1. pc[j] = "unborn" /\ objs'[j] = objs[j]
          BY <1>3, <1>4, <2>3, <3>2
        <4>2. CASE objs[j] = {}
          BY <4>1, <4>2
        <4>3. CASE objs[j] # {}
          <5>1. PICK u \in Threads : call[u].kid = j
            BY <4>1, <4>3 DEF Kids
          <5>2. u # t
            BY <2>2, <5>1
          <5> QED BY <1>3, <5>1, <5>2
        <4> QED BY <4>2, <4>3
      <3> QED BY <3>1, <3>2
    <2> QED BY <2>1, <2>3 DEF Kids
  <1>8. LockHeld'
    BY <1>3, <1>4 DEF LockHeld
  <1>9. Fresh'
    BY <1>4 DEF Fresh
  <1> QED BY <1>5, <1>6, <1>7, <1>8, <1>9

LEMMA CloneLockKeeps ==
  ASSUME Steady, NEW t \in Threads, CloneLock(t)
  PROVE  Shape' /\ SockFree' /\ Kids' /\ LockHeld' /\ Fresh'
  <1> USE SslContextAssumption DEF Steady, Calling, Copying
  <1>1. /\ pc'[t] = "clone" /\ call'[t] = call[t]
        /\ \A u \in Threads : call'[u] = call[u]
        /\ \A u \in Threads \ {t} : pc'[u] = pc[u]
    <2>1. call[t] \in Calls
      BY DEF TypeOK
    <2> QED BY <2>1, EnterFacts DEF CloneLock, Places
  <1>2. /\ pc[t] = "clone_lock" /\ lock = NoThread /\ lock' = t
        /\ UNCHANGED <<uses, extra, counter, objs>>
    BY DEF CloneLock
  <1>3. Shape'
    <2>1. \A u \in Threads : pc[u] = "unborn" => pc'[u] = "unborn"
      BY <1>1, <1>2
    <2> QED BY <1>1, <1>2, <2>1 DEF Shape
  <1>4. SockFree'
    BY <1>1, <1>2 DEF SockFree
  <1>5. Kids'
    BY <1>1, <1>2 DEF Kids
  <1>6. LockHeld'
    BY <1>1, <1>2 DEF LockHeld
  <1>7. Fresh'
    BY <1>2 DEF Fresh
  <1> QED BY <1>3, <1>4, <1>5, <1>6, <1>7

LEMMA CloneReadKeeps ==
  ASSUME Steady, NEW t \in Threads, CloneRead(t)
  PROVE  Shape' /\ SockFree' /\ Kids' /\ LockHeld' /\ Fresh'
  <1> USE SslContextAssumption DEF Steady, Calling, Copying
  <1>1. PICK x \in todo : Enter(t, "clone_write", [call[t] EXCEPT !.use = x])
    BY DEF CloneRead
  <1> DEFINE c == [call[t] EXCEPT !.use = x]
  <1>2. /\ c \in Calls /\ c.op = call[t].op /\ c.kid = call[t].kid
        /\ c.own = call[t].own /\ c.use = x /\ c.sock = call[t].sock
    <2>1. call[t] \in Calls /\ x \in 0 .. MaxCtx
      BY DEF TypeOK
    <2> QED BY <2>1 DEF Calls
  <1>3. Enter(t, "clone_write", c)
    BY <1>1
  <1> HIDE DEF c
  <1>4. /\ pc'[t] = "clone_write" /\ call'[t] = c
        /\ \A u \in Threads \ {t} : pc'[u] = pc[u] /\ call'[u] = call[u]
    BY <1>2, <1>3, EnterFacts DEF Places
  <1>5. /\ pc[t] = "clone"
        /\ UNCHANGED <<lock, todo, uses, extra, counter, objs>>
    BY DEF CloneRead, list
  <1>6. Shape'
    <2>1. \A u \in Threads : pc[u] = "unborn" => pc'[u] = "unborn"
      BY <1>4, <1>5
    <2>2. Shape!(t)'
      BY <1>2, <1>4, <1>5, <2>1 DEF Shape
    <2>3. ASSUME NEW u \in Threads \ {t} PROVE Shape!(u)'
      BY <1>4, <1>5, <2>1 DEF Shape
    <2> QED BY <2>2, <2>3 DEF Shape
  <1>7. SockFree'
    <2>1. call[t].op = "spawn"
      BY <1>5 DEF Shape
    <2> QED BY <1>2, <1>4, <1>5, <2>1 DEF SockFree
  <1>8. Kids'
    BY <1>2, <1>4, <1>5 DEF Kids
  <1>9. LockHeld'
    BY <1>2, <1>4, <1>5 DEF LockHeld
  <1>10. Fresh'
    BY <1>5 DEF Fresh
  <1> QED BY <1>6, <1>7, <1>8, <1>9, <1>10

LEMMA CloneWriteKeeps ==
  ASSUME Steady, NEW t \in Threads, CloneWrite(t)
  PROVE  Shape' /\ SockFree' /\ Kids' /\ LockHeld' /\ Fresh'
  <1> USE SslContextAssumption DEF Steady, Calling, Copying
  <1> DEFINE c == [call[t] EXCEPT !.use = 0]
  <1>1. /\ c \in Calls /\ c.op = call[t].op /\ c.kid = call[t].kid
        /\ c.own = call[t].own /\ c.use = 0 /\ c.sock = call[t].sock
    <2>1. call[t] \in Calls /\ 0 \in 0 .. MaxCtx
      BY DEF TypeOK
    <2> QED BY <2>1 DEF Calls
  <1>2. Enter(t, "clone", c)
    BY DEF CloneWrite, CloneWriteOf
  <1> HIDE DEF c
  <1>3. /\ pc'[t] = "clone" /\ call'[t] = c
        /\ \A u \in Threads \ {t} : pc'[u] = pc[u] /\ call'[u] = call[u]
    BY <1>1, <1>2, EnterFacts DEF Places
  <1>4. /\ pc[t] = "clone_write"
        /\ todo' = todo \ {call[t].use}
        /\ UNCHANGED <<lock, uses, counter, objs>>
    BY DEF CloneWrite, CloneWriteOf
  <1>5. Shape'
    <2>1. \A u \in Threads : pc[u] = "unborn" => pc'[u] = "unborn"
      BY <1>3, <1>4
    <2>2. Shape!(t)'
      BY <1>1, <1>3, <1>4, <2>1 DEF Shape
    <2>3. ASSUME NEW u \in Threads \ {t} PROVE Shape!(u)'
      BY <1>3, <1>4, <2>1 DEF Shape
    <2> QED BY <2>2, <2>3 DEF Shape
  <1>6. SockFree'
    <2>1. call[t].op = "spawn"
      BY <1>4 DEF Shape
    <2> QED BY <1>1, <1>3, <1>4, <2>1 DEF SockFree
  <1>7. Kids'
    BY <1>1, <1>3, <1>4 DEF Kids
  <1>8. LockHeld'
    <2>1. /\ lock = t
          /\ \A u \in Threads \ {t} : pc[u] \notin {"clone", "clone_write"}
      BY <1>4 DEF LockHeld
    <2> QED BY <1>3, <1>4, <2>1 DEF LockHeld
  <1>9. Fresh'
    <2>1. call[t].use \in todo
      BY <1>4 DEF LockHeld
    <2>2. call[t].use \in 1 .. counter /\ counter \in Int
      <3>1. counter \in Int /\ todo \subseteq 1 .. counter
        BY DEF TypeOK
      <3> QED BY <2>1, <3>1
    <2>3. \A d \in Ctxs : d > counter => extra'[d] = extra[d]
      BY <2>2 DEF CloneWrite, CloneWriteOf, TypeOK
    <2> QED BY <1>4, <2>3 DEF Fresh
  <1> QED BY <1>5, <1>6, <1>7, <1>8, <1>9

LEMMA CloneDoneKeeps ==
  ASSUME Steady, NEW t \in Threads, CloneDone(t)
  PROVE  Shape' /\ SockFree' /\ Kids' /\ LockHeld' /\ Fresh'
  <1> USE SslContextAssumption DEF Steady, Calling, Copying
  <1> DEFINE k == call[t].kid
  <1>1. k \in Threads /\ pc[k] = "unborn" /\ pc[t] = "clone" /\ k # t
        /\ call[k] = NoCall /\ todo = {}
    BY DEF CloneDone, Shape
  <1>2. /\ pc'[t] = "idle" /\ pc'[k] = "idle" /\ call'[t] = NoCall
        /\ \A u \in Threads \ {t, k} : pc'[u] = pc[u]
        /\ \A u \in Threads \ {t} : call'[u] = call[u]
        /\ lock' = NoThread
        /\ UNCHANGED <<todo, uses, extra, counter, objs>>
    BY <1>1 DEF CloneDone, TypeOK
  <1>3. \A u \in Threads \ {t} : call[u].kid # k /\ u # NoThread
    BY <1>1 DEF Kids
  <1> HIDE DEF k
  <1>4. Shape'
    <2>1. ASSUME NEW u \in Threads \ {t, k} PROVE Shape!(u)'
      <3>1. pc[u] \in Copying =>
              call[u].kid \in Threads \ {t, k}
        BY <1>1, <1>3 DEF Shape
      <3> QED BY <1>2, <3>1 DEF Shape
    <2> QED BY <1>1, <1>2, <2>1 DEF Shape
  <1>5. SockFree'
    BY <1>1, <1>2, NoCallFacts DEF SockFree, Sharing
  <1>6. Kids'
    <2>1. k = call[t].kid
      BY DEF k
    <2> QED BY <1>1, <1>2, <1>3, <2>1, NoCallFacts DEF Kids
  <1>7. LockHeld'
    <2>1. \A u \in Threads \ {t} : pc[u] \notin {"clone", "clone_write"}
      BY <1>1 DEF LockHeld
    <2> QED BY <1>1, <1>2, <1>3, <2>1 DEF LockHeld
  <1>8. Fresh'
    BY <1>2 DEF Fresh
  <1> QED BY <1>4, <1>5, <1>6, <1>7, <1>8

LEMMA TurnKeeps ==
  ASSUME Steady, NEW t \in Threads, NEW w, NEW c, Turn(t, w, c)
  PROVE  Shape' /\ SockFree' /\ Kids' /\ LockHeld'
  BY TurnKeepsShape, TurnKeepsSockFree, TurnKeepsKids, TurnKeepsLock

LEMMA CreateKeepsFresh ==
  ASSUME Steady, NEW own \in Ctxs, Create(own)
  PROVE  Fresh'
  <1>1. counter \in Int /\ own \in Int /\ own > counter /\ counter' = own
        /\ extra' = extra
    BY CreateIsNew DEF Steady, TypeOK
  <1>2. \A c \in Ctxs : c > counter' => c > counter
    BY <1>1 DEF Ctxs
  <1> QED BY <1>1, <1>2 DEF Steady, Fresh

Rest == Shape /\ SockFree /\ Kids /\ LockHeld /\ Fresh

LEMMA SteadyStep ==
  ASSUME Steady, [Next]_vars
  PROVE  Steady'
  <1>0. TypeOK'
    BY TypeStep
  <1>1. ASSUME NEW t \in Threads, DecRead(t)
        PROVE  Rest'
    BY <1>1, DecReadTurns, TurnKeeps DEF Rest, DecRead, list, Steady, Fresh
  <1>2. ASSUME NEW t \in Threads, DecWrite(t)
        PROVE  Rest'
    BY <1>2, DecWriteTurns, TurnKeeps DEF Rest, DecWrite, list, Steady, Fresh
  <1>3. ASSUME NEW t \in Threads, Remove(t)
        PROVE  Rest'
    BY <1>3, RemoveTurns, TurnKeeps DEF Rest, Remove, Steady, Fresh
  <1>4. ASSUME NEW t \in Threads, IncRead(t)
        PROVE  Rest'
    BY <1>4, IncReadTurns, TurnKeeps DEF Rest, IncRead, list, Steady, Fresh
  <1>5. ASSUME NEW t \in Threads, IncWrite(t)
        PROVE  Rest'
    <2>1. UNCHANGED <<counter, extra>>
      BY <1>5 DEF IncWrite, IncWriteWith, list
    <2> QED BY <1>5, <2>1, IncWriteTurns, TurnKeeps DEF Rest, Steady, Fresh
  <1>6. ASSUME NEW t \in Threads, CtxNew(t)
        PROVE  Rest'
    BY <1>6, CtxNewTurns, TurnKeeps, CreateKeepsFresh DEF Rest
  <1>7. ASSUME NEW t \in Threads, NEW s \in Socks, New(t, s)
        PROVE  Rest'
    BY <1>7, NewTurns, TurnKeeps, CreateKeepsFresh DEF Rest
  <1>8. ASSUME NEW t \in Threads, NEW s \in Socks, StartTls(t, s)
        PROVE  Rest'
    BY <1>8, StartTlsTurns, TurnKeeps, CreateKeepsFresh DEF Rest
  <1>9. ASSUME NEW t \in Threads, NEW s \in Socks, StartTlsAgain(t, s)
        PROVE  Rest'
    BY <1>9, StartTlsAgainTurns, TurnKeeps
       DEF Rest, StartTlsAgain, list, Steady, Fresh
  <1>10. ASSUME NEW t \in Threads, NEW s \in Socks, Free(t, s)
         PROVE  Rest'
    BY <1>10, FreeTurns, TurnKeeps DEF Rest, Free, list, Steady, Fresh
  <1>11. ASSUME NEW t \in Threads, NEW l \in Socks, NEW s \in Socks,
                Accept(t, l, s)
         PROVE  Rest'
    BY <1>11, AcceptTurns, TurnKeeps DEF Rest, Accept, list, Steady, Fresh
  <1>12. ASSUME NEW t \in Threads, NEW c \in Ctxs, CtxDestroy(t, c)
         PROVE  Rest'
    BY <1>12, CtxDestroyTurns, TurnKeeps DEF Rest, CtxDestroy, list, Steady,
       Fresh
  <1>13. ASSUME NEW t \in Threads, NEW k \in Threads, Spawn(t, k)
         PROVE  Rest'
    BY <1>13, SpawnKeeps DEF Rest
  <1>14. ASSUME NEW t \in Threads,
                CloneLock(t) \/ CloneRead(t) \/ CloneWrite(t) \/ CloneDone(t)
         PROVE  Rest'
    BY <1>14, CloneLockKeeps, CloneReadKeeps, CloneWriteKeeps, CloneDoneKeeps
       DEF Rest
  <1>15. ASSUME UNCHANGED vars
         PROVE  Rest'
    <2> USE <1>15 DEF vars, Steady
    <2>1. Shape'
      BY DEF Shape
    <2>2. SockFree' /\ Kids'
      BY DEF SockFree, Kids
    <2>3. LockHeld' /\ Fresh'
      BY DEF LockHeld, Fresh
    <2> QED BY <2>1, <2>2, <2>3 DEF Rest
  <1>16. Rest'
    BY <1>1, <1>2, <1>3, <1>4, <1>5, <1>6, <1>7, <1>8, <1>9, <1>10, <1>11,
       <1>12, <1>13, <1>14, <1>15
    DEF Next, Step
  <1> QED BY <1>0, <1>16 DEF Steady, Rest
-----------------------------------------------------------------------------
(* Counting.  The claims hold of a state in which no stale count has been  *)
(* stored, and every step from one keeps them or stores such a count.      *)

Users(d) == Cardinality(Holders(d)) + Cardinality(Sharers(d))
              + Cardinality(Givers(d))

Counted == LiveWhileUsed /\ Spent /\ CountExact

LEMMA UsersFinite ==
  ASSUME NEW d
  PROVE  /\ IsFiniteSet(Holders(d)) /\ IsFiniteSet(Sharers(d))
         /\ IsFiniteSet(Givers(d))
         /\ Cardinality(Holders(d)) \in Nat
         /\ Cardinality(Sharers(d)) \in Nat
         /\ Cardinality(Givers(d)) \in Nat
  <1>1. /\ Holders(d) \subseteq Threads /\ Sharers(d) \subseteq Socks
        /\ Givers(d) \subseteq Threads
    BY DEF Holders, Sharers, Givers
  <1>2. /\ IsFiniteSet(Holders(d)) /\ IsFiniteSet(Sharers(d))
        /\ IsFiniteSet(Givers(d))
    BY <1>1, SslContextAssumption, FS_Subset
  <1> QED BY <1>2, FS_CardinalityType

LEMMA NoUsers ==
  ASSUME NEW d
  PROVE  Users(d) = 0 <=> Unused(d)
  <1>1. Users(d) = 0 <=>
          /\ Cardinality(Holders(d)) = 0 /\ Cardinality(Sharers(d)) = 0
          /\ Cardinality(Givers(d)) = 0
    BY UsersFinite DEF Users
  <1> QED BY <1>1, UsersFinite, FS_EmptySet DEF Unused

(* The last of the users.                                                  *)
LEMMA LastUser ==
  ASSUME NEW d, NEW t \in Givers(d), Users(d) = 1
  PROVE  Holders(d) = {} /\ Sharers(d) = {} /\ Givers(d) \ {t} = {}
  <1>1. Cardinality(Givers(d)) # 0
    BY UsersFinite, FS_EmptySet
  <1>2. /\ Cardinality(Holders(d)) = 0 /\ Cardinality(Sharers(d)) = 0
        /\ Cardinality(Givers(d)) - 1 = 0
    BY <1>1, UsersFinite DEF Users
  <1>3. /\ Cardinality(Givers(d) \ {t}) = 0
        /\ IsFiniteSet(Givers(d) \ {t})
    BY <1>2, UsersFinite, FS_RemoveElement
  <1> QED BY <1>2, <1>3, UsersFinite, FS_EmptySet

(* The count is the number of users and what CLONE has counted besides.    *)
LEMMA CountIs ==
  ASSUME IInv, ~miscounted, NEW d \in linked
  PROVE  /\ d \in Ctxs /\ d # 0
         /\ refcnt[d] = Users(d) + extra[d]
         /\ refcnt[d] \in Nat /\ Users(d) \in Nat /\ extra[d] \in Nat
  <1>1. d \in Ctxs /\ d # 0
    BY SslContextAssumption DEF IInv, Steady, TypeOK, Ctxs
  <1>2. extra[d] \in Nat
    BY <1>1 DEF IInv, Steady, TypeOK
  <1>3. refcnt[d] = Users(d) + extra[d]
    BY DEF IInv, CountExact, Users
  <1>4. Users(d) \in Nat
    BY UsersFinite DEF Users
  <1> QED BY <1>1, <1>2, <1>3, <1>4

LEMMA LinkedAre ==
  ASSUME IInv, ~miscounted
  PROVE  /\ linked \subseteq Ctxs /\ 0 \notin linked
         /\ \A u \in Threads : Involved(u) \subseteq linked
         /\ \A u \in Threads : objs[u] \subseteq linked
  BY CountIs DEF IInv, LiveWhileUsed

(* Who is being copied is not running, and who copies is waiting for the   *)
(* mutex or has it.                                                        *)
LEMMA CopierWaits ==
  ASSUME Steady, NEW u \in Threads, call[u].kid \in Threads
  PROVE  /\ pc[call[u].kid] = "unborn"
         /\ pc[u] = "clone_lock" \/ (pc[u] \in Copying /\ lock = u)
         /\ objs[call[u].kid] \subseteq objs[u]
  <1>1. pc[u] \in {"unborn", "idle"} \cup Calling \cup Copying
    BY DEF Steady, TypeOK
  <1>2. pc[u] \in Copying
    BY <1>1, NoCallFacts, SslContextAssumption DEF Steady, Shape
  <1> QED BY <1>2 DEF Steady, Shape, LockHeld, Copying

LEMMA RunningCounted ==
  ASSUME Steady, NEW u \in Threads, pc[u] # "unborn", NEW d
  PROVE  ~Uncounted(u, d)
  BY CopierWaits DEF Uncounted

(* What is about to be freed has no object, is used by no socket, and no   *)
(* call works on it but CLONE.                                             *)
LEMMA RemovedUnused ==
  ASSUME IInv, ~miscounted, NEW t \in Threads, NEW d \in Ctxs,
         Removing(t, d)
  PROVE  /\ \A u \in Threads : d \notin objs[u]
         /\ \A s \in Socks : uses[s] # d
         /\ \A u \in Threads \ {t} :
              d \in Involved(u) => pc[u] = "clone_write"
         /\ call[t].use # d
  <1>1. /\ Holders(d) = {} /\ Sharers(d) = {} /\ Givers(d) = {}
        /\ \A u \in Threads \ {t} : ~Removing(u, d)
        /\ d # 0
    BY SslContextAssumption DEF IInv, Spent, Unused, Ctxs
  <1>2. \A s \in Socks : uses[s] # d
    BY <1>1 DEF Sharers
  <1>3. ASSUME NEW u \in Threads, d \in objs[u]
        PROVE  FALSE
    <2>1. PICK v \in Threads : call[v].kid = u
      BY <1>1, <1>3 DEF Holders, Uncounted
    <2>2. /\ d \in objs[v]
          /\ pc[v] # "unborn"
      BY <1>3, <2>1, CopierWaits DEF IInv, Copying
    <2>3. ~Uncounted(v, d)
      BY <2>2, RunningCounted DEF IInv
    <2> QED BY <1>1, <2>2, <2>3 DEF Holders
  <1>4. ASSUME NEW u \in Threads, call[u].use = d, pc[u] # "clone_write"
        PROVE  FALSE
    <2>1. pc[u] \in Calling
      BY <1>1, <1>4, NoCallFacts DEF IInv, Steady, TypeOK, Shape, Copying
    <2>2. call[u].op = "accept" \/ call[u].op \in Naming
      BY <1>1, <1>4, <2>1 DEF IInv, Steady, Shape, Sharing, Naming, Calling
    <2>3. CASE call[u].op = "accept"
      BY <1>2, <1>4, <2>3 DEF IInv, Steady, SockFree
    <2>4. CASE call[u].op \in Naming
      BY <1>1, <1>3, <1>4, <2>1, <2>4 DEF IInv, Steady, Shape
    <2> QED BY <2>2, <2>3, <2>4
  <1>5. ASSUME NEW u \in Threads \ {t}, call[u].own = d
        PROVE  FALSE
    <2>1. pc[u] \in {"dec", "dec_write", "remove"}
      BY <1>1, <1>5, NoCallFacts
         DEF IInv, Steady, TypeOK, Shape, Copying, Calling
    <2> QED BY <1>1, <1>5, <2>1 DEF Givers, Removing
  <1>6. pc[t] # "clone_write"
    BY DEF Removing
  <1> QED BY <1>2, <1>3, <1>4, <1>5, <1>6 DEF Involved
-----------------------------------------------------------------------------
(* A turn does not disturb CLONE, nor the other threads' calls.            *)
LEMMA TurnKeepsUncounted ==
  ASSUME Steady, NEW t \in Threads, NEW w, NEW c, Turn(t, w, c),
         NEW k \in Threads, NEW d
  PROVE  Uncounted(k, d)' <=> Uncounted(k, d)
  <1>1. /\ call'[t].kid = NoThread /\ call[t].kid = NoThread
        /\ \A u \in Threads \ {t} : pc'[u] = pc[u] /\ call'[u] = call[u]
        /\ todo' = todo
    BY EnterFacts, NoCallFacts DEF Turn, Places, Steady, Shape
  <1> QED BY <1>1, SslContextAssumption DEF Uncounted

LEMMA TurnHolders ==
  ASSUME Steady, NEW t \in Threads, NEW w, NEW c, Turn(t, w, c), NEW d,
         d \in objs'[t] <=> d \in objs[t]
  PROVE  Holders(d)' = Holders(d)
  <1>1. \A u \in Threads : d \in objs'[u] <=> d \in objs[u]
    BY DEF Turn
  <1>2. \A u \in Threads : Uncounted(u, d)' <=> Uncounted(u, d)
    BY TurnKeepsUncounted
  <1> QED BY <1>1, <1>2 DEF Holders

LEMMA TurnGivers ==
  ASSUME Steady, NEW t \in Threads, NEW w, NEW c, Turn(t, w, c), NEW d
  PROVE  /\ w \in {"dec", "dec_write"} /\ c.own = d =>
              Givers(d)' = Givers(d) \cup {t}
         /\ ~(w \in {"dec", "dec_write"} /\ c.own = d) =>
              Givers(d)' = Givers(d) \ {t}
  <1>1. /\ pc'[t] = w /\ call'[t] = c
        /\ \A u \in Threads \ {t} : pc'[u] = pc[u] /\ call'[u] = call[u]
    BY EnterFacts DEF Turn, Places, Steady
  <1> QED BY <1>1 DEF Givers

LEMMA TurnLive ==
  ASSUME Steady, LiveWhileUsed, ~miscounted,
         NEW t \in Threads, NEW w, NEW c, Turn(t, w, c),
         linked \subseteq linked',
         \A s \in Socks : uses'[s] # 0 => uses'[s] \in linked',
         objs'[t] \subseteq linked', {c.own, c.use} \subseteq linked' \cup {0}
  PROVE  LiveWhileUsed'
  <1>1. /\ pc'[t] = w /\ call'[t] = c
        /\ \A u \in Threads \ {t} : pc'[u] = pc[u] /\ call'[u] = call[u]
    BY EnterFacts DEF Turn, Places, Steady
  <1>2. \A u \in Threads \ {t} : objs'[u] = objs[u]
    BY DEF Turn
  <1> QED BY <1>1, <1>2 DEF LiveWhileUsed, Involved

(* What is about to be freed gets no new user.                             *)
LEMMA TurnUnused ==
  ASSUME Steady, NEW t \in Threads, NEW w, NEW c, Turn(t, w, c), NEW d,
         Unused(d), d \notin objs'[t], \A s \in Socks : uses'[s] # d,
         ~(w \in {"dec", "dec_write"} /\ c.own = d)
  PROVE  Unused(d)'
  <1>1. \A u \in Threads \ {t} : objs'[u] = objs[u]
    BY DEF Turn
  <1>2. \A u \in Threads : Uncounted(u, d)' <=> Uncounted(u, d)
    BY TurnKeepsUncounted
  <1>3. Holders(d)' = {}
    BY <1>1, <1>2 DEF Unused, Holders
  <1>4. Givers(d)' = {}
    BY TurnGivers DEF Unused
  <1>5. Sharers(d)' = {}
    BY DEF Sharers
  <1> QED BY <1>3, <1>4, <1>5 DEF Unused

LEMMA TurnSpent ==
  ASSUME Steady, Spent, ~miscounted,
         NEW t \in Threads, NEW w, NEW c, Turn(t, w, c),
         \A u \in Threads \ {t}, d \in Ctxs : Removing(u, d) =>
           /\ d \notin objs'[t]
           /\ \A s \in Socks : uses'[s] # d
           /\ ~(w \in {"dec", "dec_write"} /\ c.own = d),
         w = "remove" =>
           /\ Unused(c.own)'
           /\ \A u \in Threads \ {t} : ~Removing(u, c.own),
         \A d \in linked' : refcnt'[d] = 0 =>
           \/ w = "remove" /\ c.own = d
           \/ d \in linked /\ refcnt[d] = 0 /\ ~Removing(t, d)
  PROVE  Spent'
  <1>1. /\ pc'[t] = w /\ call'[t] = c
        /\ \A u \in Threads \ {t} : pc'[u] = pc[u] /\ call'[u] = call[u]
    BY EnterFacts DEF Turn, Places, Steady
  <1>2. \A u \in Threads \ {t} : \A d : Removing(u, d)' <=> Removing(u, d)
    BY <1>1 DEF Removing
  <1>3. \A d : Removing(t, d)' <=> w = "remove" /\ c.own = d
    BY <1>1 DEF Removing
  <1>4. ASSUME NEW u \in Threads, NEW d \in Ctxs, Removing(u, d)'
        PROVE  Unused(d)' /\ \A v \in Threads \ {u} : ~Removing(v, d)'
    <2>1. CASE u = t
      BY <1>2, <1>3, <1>4, <2>1
    <2>2. CASE u # t
      <3>1. /\ Removing(u, d) /\ Unused(d)
            /\ \A v \in Threads \ {u} : ~Removing(v, d)
        BY <1>2, <1>4, <2>2 DEF Spent
      <3>2. Unused(d)'
        BY <2>2, <3>1, TurnUnused
      <3>3. ~Removing(t, d)'
        BY <1>3, <2>2, <3>1
      <3> QED BY <1>2, <3>1, <3>2, <3>3
    <2> QED BY <2>1, <2>2
  <1>5. ASSUME NEW d \in linked', refcnt'[d] = 0
        PROVE  \E u \in Threads : Removing(u, d)'
    <2>1. CASE w = "remove" /\ c.own = d
      BY <1>3, <2>1
    <2>2. CASE d \in linked /\ refcnt[d] = 0 /\ ~Removing(t, d)
      <3>1. PICK u \in Threads : Removing(u, d)
        BY <2>2 DEF Spent
      <3> QED BY <1>2, <2>2, <3>1
    <2> QED BY <1>5, <2>1, <2>2
  <1> QED BY <1>4, <1>5 DEF Spent

LEMMA TurnCount ==
  ASSUME Steady, NEW t \in Threads, NEW w, NEW c, Turn(t, w, c), NEW d,
         Holders(d)' = Holders(d), Sharers(d)' = Sharers(d),
         ~(pc[t] \in {"dec", "dec_write"} /\ call[t].own = d),
         ~(w \in {"dec", "dec_write"} /\ c.own = d)
  PROVE  Users(d)' = Users(d)
  <1>1. Givers(d)' = Givers(d) \ {t}
    BY TurnGivers
  <1>2. t \notin Givers(d)
    BY DEF Givers
  <1>3. Givers(d)' = Givers(d)
    BY <1>1, <1>2
  <1> QED BY <1>3 DEF Users

(* A step that neither takes nor gives up what others are removing.        *)
LEMMA TurnKeepsSpent ==
  ASSUME IInv, ~miscounted,
         NEW t \in Threads, NEW w, NEW c, Turn(t, w, c), pc[t] # "remove",
         objs'[t] \subseteq objs[t] \/ \E d \in Ctxs :
           objs'[t] = objs[t] \cup {d} /\ \A u \in Threads : ~Removing(u, d),
         \A s \in Socks : uses'[s] = uses[s] \/ uses'[s] = 0
           \/ \A u \in Threads \ {t} : ~Removing(u, uses'[s]),
         w \in {"dec", "dec_write"} =>
           \A u \in Threads \ {t} : ~Removing(u, c.own),
         w = "remove" =>
           /\ Unused(c.own)'
           /\ \A u \in Threads \ {t} : ~Removing(u, c.own),
         \A d \in linked' : refcnt'[d] = 0 =>
           (w = "remove" /\ c.own = d) \/ (d \in linked /\ refcnt[d] = 0)
  PROVE  Spent'
  <1>1. ASSUME NEW u \in Threads \ {t}, NEW d \in Ctxs, Removing(u, d)
        PROVE  /\ d \notin objs'[t]
               /\ \A s \in Socks : uses'[s] # d
               /\ ~(w \in {"dec", "dec_write"} /\ c.own = d)
    <2>1. d \notin objs[t] /\ d # 0 /\ \A s \in Socks : uses[s] # d
      BY <1>1, RemovedUnused, SslContextAssumption DEF Ctxs
    <2> QED BY <1>1, <2>1
  <1>2. \A d : ~Removing(t, d)
    BY DEF Removing
  <1> QED BY <1>1, <1>2, TurnSpent DEF IInv

(* A turn's own context, or the one it is to use, nobody removes.          *)
LEMMA NotRemoved ==
  ASSUME IInv, ~miscounted, NEW t \in Threads,
         pc[t] \in {"idle"} \cup Calling, NEW u \in Threads \ {t},
         NEW d \in Involved(t)
  PROVE  ~Removing(u, d)
  <1>1. d \in Ctxs /\ pc[t] # "clone_write"
    BY LinkedAre DEF Calling
  <1> QED BY <1>1, RemovedUnused

LEMMA LoadCounted ==
  ASSUME IInv, ~miscounted', NEW t \in Threads, DecRead(t) \/ IncRead(t)
  PROVE  Counted'
  <1>0. ~miscounted
    BY DEF DecRead, IncRead
  <1> DEFINE w == IF DecRead(t) THEN "dec_write" ELSE "inc_write"
  <1>1. Turn(t, w, call[t])
    BY DecReadTurns, IncReadTurns DEF IInv
  <1>2. /\ UNCHANGED <<counter, linked, extra, lock, todo, refcnt, uses, objs>>
        /\ pc[t] = IF DecRead(t) THEN "dec" ELSE "inc"
    BY DEF DecRead, IncRead, list, IInv, Steady, TypeOK
  <1>3. w \in {"dec_write", "inc_write"} /\ (w = "dec_write" <=> pc[t] = "dec")
    BY <1>2
  <1> HIDE DEF w
  <1>4. LiveWhileUsed'
    <2>1. /\ \A s \in Socks : uses'[s] # 0 => uses'[s] \in linked'
          /\ objs'[t] \subseteq linked'
          /\ {call[t].own, call[t].use} \subseteq linked' \cup {0}
      BY <1>0, <1>2 DEF IInv, LiveWhileUsed, Involved
    <2> QED BY <1>0, <1>1, <1>2, <2>1, TurnLive DEF IInv
  <1>5. Spent'
    <2>1. w = "dec_write" => \A u \in Threads \ {t} : ~Removing(u, call[t].own)
      <3>1. w = "dec_write" => call[t].own \in Involved(t)
        BY <1>3 DEF IInv, Steady, Shape, Involved
      <3> QED BY <1>0, <1>3, <3>1, NotRemoved DEF Calling
    <2> QED BY <1>0, <1>1, <1>2, <1>3, <2>1, TurnKeepsSpent
  <1>6. CountExact'
    <2>1. ASSUME NEW d
          PROVE  Users(d)' = Users(d)
      <3>1. Holders(d)' = Holders(d) /\ Sharers(d)' = Sharers(d)
        BY <1>1, <1>2, TurnHolders DEF IInv, Sharers
      <3>2. Givers(d)' = Givers(d)
        BY <1>1, <1>2, <1>3, TurnGivers DEF IInv, Givers
      <3> QED BY <3>1, <3>2 DEF Users
    <2> QED BY <1>0, <1>2, <2>1 DEF IInv, CountExact, Users
  <1> QED BY <1>4, <1>5, <1>6 DEF Counted

LEMMA DecWriteCounted ==
  ASSUME IInv, ~miscounted', NEW t \in Threads, DecWrite(t)
  PROVE  Counted'
  <1>c. ~miscounted /\ refcnt[call[t].own] = tmp[t]
    BY DEF DecWrite, Store
  <1>0. PICK x \in linked : x = call[t].own
    BY <1>c DEF DecWrite, IInv, Steady, Shape, LiveWhileUsed, Involved
  <1>1. /\ pc[t] = "dec_write" /\ x # 0 /\ x \in linked /\ t \in Givers(x)
        /\ call[t].own = x /\ x \in Involved(t)
    BY <1>0 DEF DecWrite, IInv, Steady, Shape, Givers, Involved
  <1>2. /\ x \in Ctxs /\ refcnt[x] = Users(x) + extra[x]
        /\ refcnt[x] \in Nat /\ Users(x) \in Nat /\ extra[x] \in Nat
    BY <1>c, <1>1, CountIs
  <1>3. tmp[t] = refcnt[x]
    BY <1>c, <1>1
  <1>4. /\ refcnt' = [refcnt EXCEPT ![x] = refcnt[x] - 1]
        /\ UNCHANGED <<counter, linked, extra, lock, todo, uses, objs>>
    BY <1>1, <1>3 DEF DecWrite, Store, list
  <1>5. /\ refcnt'[x] = refcnt[x] - 1
        /\ \A d \in Ctxs \ {x} : refcnt'[d] = refcnt[d]
    BY <1>2, <1>4 DEF IInv, Steady, TypeOK
  <1> DEFINE e == [call[t] EXCEPT !.own = 0]
  <1>9. e.own = 0 /\ e.use = call[t].use
    BY DEF IInv, Steady, TypeOK, Calls
  <1>10. \/ Turn(t, "idle", NoCall) /\ refcnt'[x] > 0
         \/ Turn(t, "inc", e) /\ refcnt'[x] > 0
         \/ Turn(t, "remove", call[t]) /\ refcnt'[x] <= 0
    <2>1. /\ pc'[t] \in {"idle", "inc", "remove"}
          /\ pc'[t] = "remove" <=> refcnt'[x] <= 0
      <3>1. pc \in [Threads -> Places]
        BY DEF IInv, Steady, TypeOK, Places
      <3> QED BY <1>2, <1>3, <1>5, <3>1
              DEF DecWrite, AfterDrop, Enter, Return
    <2>2. ASSUME NEW w, NEW c, Turn(t, w, c)
          PROVE  pc'[t] = w
      BY <2>2, EnterFacts DEF Turn, Places, IInv, Steady
    <2>3. refcnt'[x] \in Int
      BY <1>2, <1>5
    <2> QED BY <2>1, <2>2, <2>3, DecWriteTurns DEF IInv
  <1>11. PICK w \in {"idle", "inc", "remove"}, c \in {NoCall, e, call[t]} :
           /\ Turn(t, w, c)
           /\ w = "remove" => c = call[t] /\ refcnt'[x] <= 0
           /\ w # "remove" => refcnt'[x] > 0
           /\ c.own \in {0, x} /\ c.use \in {0, call[t].use}
    BY <1>1, <1>9, <1>10, NoCallFacts
  <1> HIDE DEF e
  <1>12. Users(x)' = Users(x) - 1
    <2>1. Holders(x)' = Holders(x) /\ Sharers(x)' = Sharers(x)
      BY <1>4, <1>11, TurnHolders DEF IInv, Sharers
    <2>2. Givers(x)' = Givers(x) \ {t}
      BY <1>11, TurnGivers DEF IInv
    <2>3. Cardinality(Givers(x) \ {t}) = Cardinality(Givers(x)) - 1
      BY <1>1, UsersFinite, FS_RemoveElement
    <2> QED BY <2>1, <2>2, <2>3, UsersFinite DEF Users
  <1>13. /\ refcnt'[x] = Users(x)' + extra'[x] /\ Users(x)' \in Nat
         /\ extra'[x] = extra[x]
    <2>1. Users(x)' \in Nat
      BY <1>1, <1>12, UsersFinite, FS_EmptySet DEF Users
    <2> QED BY <1>2, <1>4, <1>5, <1>12, <2>1
  <1>14. LiveWhileUsed'
    <2>1. {c.own, c.use} \subseteq linked' \cup {0}
      BY <1>c, <1>4, <1>11 DEF IInv, LiveWhileUsed, Involved
    <2>2. /\ \A s \in Socks : uses'[s] # 0 => uses'[s] \in linked'
          /\ objs'[t] \subseteq linked' /\ linked' = linked
      BY <1>c, <1>4 DEF IInv, LiveWhileUsed
    <2> QED BY <1>c, <1>11, <2>1, <2>2, TurnLive DEF IInv
  <1>15. Spent'
    <2>1. w = "remove" => Unused(c.own)'
      <3> SUFFICES ASSUME w = "remove"
                   PROVE  Unused(x)'
        BY <1>1, <1>11
      <3>1. Users(x) = 1
        BY <1>2, <1>5, <1>11, <1>12, <1>13
      <3>2. /\ Holders(x)' = Holders(x) /\ Sharers(x)' = Sharers(x)
            /\ Givers(x)' = Givers(x) \ {t}
        BY <1>4, <1>11, TurnHolders, TurnGivers DEF IInv, Sharers
      <3> QED BY <1>1, <3>1, <3>2, LastUser DEF Unused
    <2>2. w = "remove" => \A u \in Threads \ {t} : ~Removing(u, c.own)
      BY <1>c, <1>1, <1>11, NotRemoved DEF Calling
    <2>3. ASSUME NEW d \in linked', refcnt'[d] = 0
          PROVE  (w = "remove" /\ c.own = d) \/ (d \in linked /\ refcnt[d] = 0)
      <3>1. d \in linked /\ d \in Ctxs
        BY <1>c, <1>4, <2>3, CountIs
      <3> QED BY <1>1, <1>5, <1>11, <2>3, <3>1
    <2> QED BY <1>c, <1>1, <1>4, <1>11, <2>1, <2>2, <2>3, TurnKeepsSpent
  <1>17. CountExact'
    <2>1. ASSUME NEW d \in linked'
          PROVE  refcnt'[d] = Users(d)' + extra'[d]
      <3>1. CASE d = x
        BY <1>13, <3>1
      <3>2. CASE d # x
        <4>1. d \in linked
          BY <1>4
        <4>2. d \in Ctxs /\ refcnt[d] = Users(d) + extra[d] /\ d # 0
          BY <1>c, <4>1, CountIs
        <4>3. Holders(d)' = Holders(d) /\ Sharers(d)' = Sharers(d)
          BY <1>4, <1>11, TurnHolders DEF IInv, Sharers
        <4>4. Users(d)' = Users(d)
          BY <1>1, <1>11, <3>2, <4>2, <4>3, TurnCount DEF IInv
        <4> QED BY <1>4, <1>5, <3>2, <4>2, <4>4
      <3> QED BY <3>1, <3>2
    <2> QED BY <2>1 DEF CountExact, Users
  <1> QED BY <1>14, <1>15, <1>17 DEF Counted

LEMMA RemoveCounted ==
  ASSUME IInv, ~miscounted', NEW t \in Threads, Remove(t)
  PROVE  Counted'
  <1>c. ~miscounted
    BY DEF Remove
  <1>0. PICK x \in linked : x = call[t].own
    BY <1>c DEF Remove, IInv, Steady, Shape, LiveWhileUsed, Involved
  <1>1. /\ pc[t] = "remove" /\ call[t].own = x /\ lock = NoThread
        /\ linked' = linked \ {x} /\ Removing(t, x)
        /\ UNCHANGED <<counter, extra, lock, todo, refcnt, uses, objs, tmp>>
    BY <1>0 DEF Remove, Removing
  <1>2. x \in Ctxs /\ x # 0
    BY <1>c, CountIs
  (* Nothing is left that could touch the context: CLONE has the mutex.    *)
  <1>4. /\ \A u \in Threads : x \notin objs[u]
        /\ \A s \in Socks : uses[s] # x
        /\ call[t].use # x
    BY <1>c, <1>1, <1>2, RemovedUnused
  <1>6. \A u \in Threads \ {t} : x \notin Involved(u)
    <2>1. \A u \in Threads : pc[u] # "clone_write"
      BY <1>1, SslContextAssumption DEF IInv, Steady, LockHeld
    <2> QED BY <1>c, <1>1, <1>2, <2>1, RemovedUnused
  <1> DEFINE e == [call[t] EXCEPT !.own = 0]
  <1>8. e.own = 0 /\ e.use = call[t].use
    BY DEF IInv, Steady, TypeOK, Calls
  <1>9. PICK w \in {"idle", "inc"}, c \in {NoCall, e} :
           /\ Turn(t, w, c)
           /\ c.own = 0 /\ c.use \in {0, call[t].use}
    BY <1>8, RemoveTurns, NoCallFacts DEF IInv
  <1> HIDE DEF e
  <1>10. LiveWhileUsed'
    <2>1. /\ pc'[t] = w /\ call'[t] = c
          /\ \A u \in Threads \ {t} : call'[u] = call[u]
      BY <1>9, EnterFacts DEF Turn, Places, IInv, Steady
    <2>2. Involved(t)' \subseteq linked'
      BY <1>c, <1>1, <1>4, <1>9, <2>1 DEF IInv, LiveWhileUsed, Involved
    <2>3. \A u \in Threads \ {t} : Involved(u)' \subseteq linked'
      BY <1>c, <1>1, <1>6, <2>1 DEF IInv, LiveWhileUsed, Involved
    <2>4. /\ \A s \in Socks : uses'[s] # 0 => uses'[s] \in linked'
          /\ \A u \in Threads : objs'[u] \subseteq linked'
      BY <1>c, <1>1, <1>4 DEF IInv, LiveWhileUsed
    <2> QED BY <2>2, <2>3, <2>4 DEF LiveWhileUsed
  <1>12. Spent'
    <2>1. ASSUME NEW u \in Threads \ {t}, NEW d \in Ctxs, Removing(u, d)
          PROVE  /\ d \notin objs'[t]
                 /\ \A s \in Socks : uses'[s] # d
                 /\ ~(w \in {"dec", "dec_write"} /\ c.own = d)
      BY <1>c, <1>1, <2>1, RemovedUnused
    <2>2. \A d \in linked' : refcnt'[d] = 0 =>
            d \in linked /\ refcnt[d] = 0 /\ ~Removing(t, d)
      BY <1>1 DEF Removing
    <2> QED BY <1>c, <1>9, <2>1, <2>2, TurnSpent DEF IInv
  <1>13. CountExact'
    <2>1. ASSUME NEW d \in linked'
          PROVE  refcnt'[d] = Users(d)' + extra'[d]
      <3>1. d \in linked /\ d # x
        BY <1>1
      <3>2. d \in Ctxs /\ refcnt[d] = Users(d) + extra[d] /\ d # 0
        BY <1>c, <3>1, CountIs
      <3>3. Holders(d)' = Holders(d) /\ Sharers(d)' = Sharers(d)
        BY <1>1, <1>9, TurnHolders DEF IInv, Sharers
      <3>4. Users(d)' = Users(d)
        BY <1>1, <1>9, <3>2, <3>3, TurnCount DEF IInv
      <3> QED BY <1>1, <3>2, <3>4
    <2> QED BY <2>1 DEF CountExact, Users
  <1> QED BY <1>10, <1>12, <1>13 DEF Counted

LEMMA IncWriteCounted ==
  ASSUME IInv, ~miscounted', NEW t \in Threads, IncWrite(t)
  PROVE  Counted'
  <1>c. ~miscounted /\ refcnt[call[t].use] = tmp[t]
    BY DEF IncWrite, IncWriteWith, Store
  <1>0. PICK x \in linked : x = call[t].use
    BY <1>c DEF IncWrite, IncWriteWith, IInv, Steady, Shape, LiveWhileUsed,
       Involved
  <1>1. PICK s \in Socks : s = call[t].sock
    BY DEF IncWrite, IncWriteWith, IInv, Steady, Shape, SockFree
  <1>2. /\ pc[t] = "inc_write" /\ call[t].use = x /\ uses[s] = 0
        /\ call[t].own = 0
    BY <1>0, <1>1 DEF IncWrite, IncWriteWith, IInv, Steady, Shape, SockFree
  <1>3. /\ x \in Ctxs /\ x # 0 /\ refcnt[x] = Users(x) + extra[x]
        /\ refcnt[x] \in Nat /\ Users(x) \in Nat /\ extra[x] \in Nat
    BY <1>c, CountIs
  <1>4. tmp[t] = refcnt[x]
    BY <1>c, <1>2
  <1>5. /\ refcnt' = [refcnt EXCEPT ![x] = refcnt[x] + 1]
        /\ UNCHANGED <<counter, linked, extra, lock, todo, objs>>
    BY <1>2, <1>4 DEF IncWrite, IncWriteWith, Store, list
  <1>6. /\ refcnt'[x] = refcnt[x] + 1
        /\ \A d \in Ctxs \ {x} : refcnt'[d] = refcnt[d]
    BY <1>3, <1>5 DEF IInv, Steady, TypeOK
  <1>7. \A u \in Threads \ {t} : ~Removing(u, x)
    <2>1. x \in Involved(t)
      BY <1>2, <1>3 DEF Involved
    <2> QED BY <1>c, <1>2, <2>1, NotRemoved DEF Calling
  <1> DEFINE g == Giving("free", s, x, 0)
  <1>8. g.own = x /\ g.use = 0
    BY GivingFields
  <1>9. PICK w \in {"idle", "dec"}, c \in {NoCall, g} :
           /\ Turn(t, w, c)
           /\ w = "idle" => c.own = 0 /\ uses' = [uses EXCEPT ![s] = x]
           /\ w = "dec" => c.own = x /\ uses' = uses
           /\ c.use = 0
    <2>1. \/ Turn(t, "idle", NoCall)
          \/ Turn(t, "dec", g)
      BY <1>1, <1>2, IncWriteTurns DEF IInv
    <2>2. ASSUME NEW w, NEW c, Turn(t, w, c)
          PROVE  pc'[t] = w
      BY <2>2, EnterFacts DEF Turn, Places, IInv, Steady
    <2>3. /\ pc'[t] = "idle" => uses' = [uses EXCEPT ![s] = x]
          /\ pc'[t] = "dec" => uses' = uses
      <3>1. pc \in [Threads -> Places]
        BY DEF IInv, Steady, TypeOK, Places
      <3> QED BY <1>1, <1>2, <3>1
              DEF IncWrite, IncWriteWith, Settle, Enter, Return
    <2> HIDE DEF g
    <2>4. CASE Turn(t, "idle", NoCall)
      BY <2>2, <2>3, <2>4, NoCallFacts
    <2>5. CASE Turn(t, "dec", g)
      BY <1>8, <2>2, <2>3, <2>5
    <2> QED BY <2>1, <2>4, <2>5
  <1> HIDE DEF g
  <1>10. \A d : d \in objs'[t] <=> d \in objs[t]
    BY <1>5
  <1>11. Users(x)' = Users(x) + 1
    <2>1. Holders(x)' = Holders(x)
      BY <1>9, <1>10, TurnHolders DEF IInv
    <2>2. CASE w = "idle"
      <3>1. Sharers(x)' = Sharers(x) \cup {s} /\ s \notin Sharers(x)
        BY <1>2, <1>3, <1>9, <2>2 DEF Sharers, IInv, Steady, TypeOK
      <3>2. Givers(x)' = Givers(x)
        BY <1>2, <1>9, <2>2, TurnGivers DEF IInv, Givers
      <3>3. Cardinality(Sharers(x) \cup {s}) = Cardinality(Sharers(x)) + 1
        BY <3>1, UsersFinite, FS_AddElement
      <3> QED BY <2>1, <3>1, <3>2, <3>3, UsersFinite DEF Users
    <2>3. CASE w = "dec"
      <3>1. Sharers(x)' = Sharers(x)
        BY <1>9, <2>3 DEF Sharers
      <3>2. Givers(x)' = Givers(x) \cup {t} /\ t \notin Givers(x)
        BY <1>2, <1>9, <2>3, TurnGivers DEF IInv, Givers
      <3>3. Cardinality(Givers(x) \cup {t}) = Cardinality(Givers(x)) + 1
        BY <3>2, UsersFinite, FS_AddElement
      <3> QED BY <2>1, <3>1, <3>2, <3>3, UsersFinite DEF Users
    <2> QED BY <2>2, <2>3
  <1>12. LiveWhileUsed'
    <2>1. {c.own, c.use} \subseteq linked' \cup {0}
      BY <1>5, <1>9
    <2>2. \A r \in Socks : uses'[r] # 0 => uses'[r] \in linked'
      BY <1>c, <1>5, <1>9 DEF IInv, Steady, TypeOK, LiveWhileUsed
    <2>3. objs'[t] \subseteq linked' /\ linked' = linked
      BY <1>c, <1>5 DEF IInv, LiveWhileUsed
    <2> QED BY <1>c, <1>9, <2>1, <2>2, <2>3, TurnLive DEF IInv
  <1>14. Spent'
    <2>1. ASSUME NEW d \in linked', refcnt'[d] = 0
          PROVE  d \in linked /\ refcnt[d] = 0
      <3>1. d \in linked /\ d \in Ctxs
        BY <1>c, <1>5, CountIs
      <3>2. d # x
        BY <1>3, <1>6, <2>1
      <3> QED BY <1>6, <2>1, <3>1, <3>2
    <2>2. \A r \in Socks : uses'[r] = uses[r] \/ uses'[r] = x
      BY <1>9 DEF IInv, Steady, TypeOK
    <2> QED BY <1>c, <1>2, <1>5, <1>7, <1>9, <2>1, <2>2, TurnKeepsSpent
  <1>15. CountExact'
    <2>1. ASSUME NEW d \in linked'
          PROVE  refcnt'[d] = Users(d)' + extra'[d]
      <3>1. CASE d = x
        BY <1>3, <1>5, <1>6, <1>11, <3>1
      <3>2. CASE d # x
        <4>1. d \in linked
          BY <1>5
        <4>2. d \in Ctxs /\ refcnt[d] = Users(d) + extra[d] /\ d # 0
          BY <1>c, <4>1, CountIs
        <4>3. Holders(d)' = Holders(d)
          BY <1>9, <1>10, TurnHolders DEF IInv
        <4>4. Sharers(d)' = Sharers(d)
          BY <1>2, <1>9, <3>2, <4>2 DEF Sharers, IInv, Steady, TypeOK
        <4>5. Users(d)' = Users(d)
          BY <1>2, <1>9, <3>2, <4>2, <4>3, <4>4, TurnCount DEF IInv
        <4> QED BY <1>5, <1>6, <3>2, <4>2, <4>5
      <3> QED BY <3>1, <3>2
    <2> QED BY <2>1 DEF CountExact, Users
  <1> QED BY <1>12, <1>14, <1>15 DEF Counted

LEMMA GiveUpCounted ==
  ASSUME IInv, ~miscounted, ~miscounted', NEW t \in Threads,
         NEW c, Turn(t, "dec", c),
         Ready(t), NEW x \in linked, c.own = x,
         c.use \in linked \cup {0},
         UNCHANGED <<linked, refcnt, extra>>,
         \/ /\ UNCHANGED objs
            /\ \E s \in Socks : /\ uses[s] = x
                                /\ uses' = [uses EXCEPT ![s] = 0]
         \/ /\ UNCHANGED uses
            /\ x \in objs[t]
            /\ objs' = [objs EXCEPT ![t] = objs[t] \ {x}]
  PROVE  Counted'
  <1>1. pc[t] = "idle" /\ x \in Ctxs /\ x # 0
    BY CountIs DEF Ready
  <1>2. t \notin Givers(x) /\ Givers(x)' = Givers(x) \cup {t}
    BY <1>1, TurnGivers DEF IInv, Givers
  <1>3. Cardinality(Givers(x) \cup {t}) = Cardinality(Givers(x)) + 1
    BY <1>2, UsersFinite, FS_AddElement
  <1>4. ASSUME NEW d \in linked, d # x
        PROVE  Users(d)' = Users(d)
    <2>1. d \in objs'[t] <=> d \in objs[t]
      BY <1>4 DEF IInv, Steady, TypeOK
    <2>2. Holders(d)' = Holders(d)
      BY <2>1, TurnHolders DEF IInv
    <2>3. Sharers(d)' = Sharers(d)
      <3>1. d # 0
        BY CountIs
      <3> QED BY <1>4, <3>1 DEF Sharers, IInv, Steady, TypeOK
    <2> QED BY <1>1, <1>4, <2>2, <2>3, TurnCount DEF IInv
  <1>5. Users(x)' = Users(x)
    <2>1. CASE /\ UNCHANGED objs
               /\ \E s \in Socks : /\ uses[s] = x
                                   /\ uses' = [uses EXCEPT ![s] = 0]
      <3>1. PICK s \in Socks : uses[s] = x /\ uses' = [uses EXCEPT ![s] = 0]
        BY <2>1
      <3>2. s \in Sharers(x) /\ Sharers(x)' = Sharers(x) \ {s}
        BY <1>1, <3>1 DEF Sharers, IInv, Steady, TypeOK
      <3>3. Cardinality(Sharers(x) \ {s}) = Cardinality(Sharers(x)) - 1
        BY <3>2, UsersFinite, FS_RemoveElement
      <3>4. Holders(x)' = Holders(x)
        BY <2>1, TurnHolders DEF IInv
      <3> QED BY <1>2, <1>3, <3>2, <3>3, <3>4, UsersFinite DEF Users
    <2>2. CASE /\ UNCHANGED uses
               /\ x \in objs[t]
               /\ objs' = [objs EXCEPT ![t] = objs[t] \ {x}]
      <3>1. Sharers(x)' = Sharers(x)
        BY <2>2 DEF Sharers
      <3>2. t \in Holders(x)
        <4>1. ~Uncounted(t, x)
          BY <1>1, RunningCounted DEF IInv
        <4> QED BY <2>2, <4>1 DEF Holders
      <3>3. Holders(x)' = Holders(x) \ {t}
        <4>1. /\ x \notin objs'[t]
              /\ \A u \in Threads \ {t} : objs'[u] = objs[u]
          BY <2>2 DEF IInv, Steady, TypeOK
        <4>2. \A u \in Threads : Uncounted(u, x)' <=> Uncounted(u, x)
          BY TurnKeepsUncounted DEF IInv
        <4> QED BY <4>1, <4>2 DEF Holders
      <3>4. Cardinality(Holders(x) \ {t}) = Cardinality(Holders(x)) - 1
        BY <3>2, UsersFinite, FS_RemoveElement
      <3> QED BY <1>2, <1>3, <3>1, <3>3, <3>4, UsersFinite DEF Users
    <2> QED BY <2>1, <2>2
  <1>6. LiveWhileUsed'
    <2>1. \A r \in Socks : uses'[r] # 0 => uses'[r] \in linked'
      BY DEF IInv, Steady, TypeOK, LiveWhileUsed
    <2>2. objs'[t] \subseteq linked'
      BY DEF IInv, Steady, TypeOK, LiveWhileUsed
    <2>3. {c.own, c.use} \subseteq linked' \cup {0} /\ linked' = linked
      OBVIOUS
    <2> QED BY <2>1, <2>2, <2>3, TurnLive DEF IInv
  <1>8. Spent'
    <2>1. \A u \in Threads : ~Removing(u, x)
      BY <1>1, RemovedUnused
    <2>2. \A s \in Socks : uses'[s] = uses[s] \/ uses'[s] = 0
      BY DEF IInv, Steady, TypeOK
    <2>3. objs'[t] \subseteq objs[t]
      BY DEF IInv, Steady, TypeOK
    <2> QED BY <1>1, <2>1, <2>2, <2>3, TurnKeepsSpent
  <1>9. CountExact'
    <2>1. ASSUME NEW d \in linked'
          PROVE  refcnt'[d] = Users(d)' + extra'[d]
      <3>1. d \in linked /\ refcnt[d] = Users(d) + extra[d]
        BY CountIs
      <3>2. Users(d)' = Users(d)
        BY <1>4, <1>5, <3>1
      <3> QED BY <3>1, <3>2
    <2> QED BY <2>1 DEF CountExact, Users
  <1> QED BY <1>6, <1>8, <1>9 DEF Counted

(* Without a change of counts or users.                                    *)
LEMMA IdleCounted ==
  ASSUME IInv, ~miscounted, ~miscounted', NEW t \in Threads,
         NEW w \in {"idle", "inc"}, NEW c, Turn(t, w, c), Ready(t), c.own = 0,
         c.use \in linked \cup {0},
         UNCHANGED <<linked, refcnt, extra, uses>>,
         objs'[t] = objs[t]
  PROVE  Counted'
  <1>1. pc[t] = "idle"
    BY DEF Ready
  <1>2. LiveWhileUsed'
    <2>1. /\ \A r \in Socks : uses'[r] # 0 => uses'[r] \in linked'
          /\ objs'[t] \subseteq linked' /\ linked' = linked
          /\ {c.own, c.use} \subseteq linked' \cup {0}
      BY DEF IInv, LiveWhileUsed
    <2> QED BY <2>1, TurnLive DEF IInv
  <1>4. Spent'
    BY <1>1, TurnKeepsSpent
  <1>5. CountExact'
    <2>1. ASSUME NEW d \in linked'
          PROVE  refcnt'[d] = Users(d)' + extra'[d]
      <3>1. d \in linked /\ refcnt[d] = Users(d) + extra[d] /\ d # 0
        BY CountIs
      <3>2. Holders(d)' = Holders(d) /\ Sharers(d)' = Sharers(d)
        BY TurnHolders DEF IInv, Sharers
      <3>3. Users(d)' = Users(d)
        BY <1>1, <3>1, <3>2, TurnCount DEF IInv
      <3> QED BY <3>1, <3>3
    <2> QED BY <2>1 DEF CountExact, Users
  <1> QED BY <1>2, <1>4, <1>5 DEF Counted

(* A context is created, for an object, a socket or a call.                *)
LEMMA CreateCounted ==
  ASSUME IInv, ~miscounted, ~miscounted', NEW t \in Threads,
         NEW w \in {"idle", "dec"}, NEW c, Turn(t, w, c), Ready(t),
         NEW own \in Ctxs, Create(own),
         c.use \in linked \cup {0},
         \/ /\ w = "idle" /\ c.own = 0 /\ UNCHANGED uses
            /\ objs' = [objs EXCEPT ![t] = objs[t] \cup {own}]
         \/ /\ w = "idle" /\ c.own = 0 /\ UNCHANGED objs
            /\ \E s \in Socks : /\ uses[s] = 0
                                /\ uses' = [uses EXCEPT ![s] = own]
         \/ w = "dec" /\ c.own = own /\ UNCHANGED <<uses, objs>>
  PROVE  Counted'
  <1>1. pc[t] = "idle" /\ own # 0 /\ own \in Nat
    BY SslContextAssumption DEF Ready, Ctxs
  <1>2. /\ linked' = linked \cup {own} /\ own \notin linked
        /\ refcnt'[own] = 1
        /\ \A d \in Ctxs \ {own} : refcnt'[d] = refcnt[d]
        /\ UNCHANGED <<lock, todo, extra, tmp>>
        /\ \A u \in Threads : own \notin Involved(u) /\ own \notin objs[u]
        /\ \A s \in Socks : uses[s] # own
        /\ own > counter
    BY CreateIsNew DEF Create, IInv, Steady, TypeOK
  <1>3. extra[own] = 0
    BY <1>2 DEF IInv, Steady, Fresh
  <1>4. \A u \in Threads : ~Removing(u, own)
    BY <1>1, <1>2 DEF Removing, Involved
  <1>5. Givers(own) = {} /\ Holders(own) = {} /\ Sharers(own) = {}
    BY <1>1, <1>2 DEF Givers, Holders, Sharers, Involved
  <1>6. ASSUME NEW d \in linked
        PROVE  Users(d)' = Users(d)
    <2>1. d # own /\ d # 0
      BY <1>2, CountIs
    <2>2. Holders(d)' = Holders(d)
      <3>1. d \in objs'[t] <=> d \in objs[t]
        BY <2>1 DEF IInv, Steady, TypeOK
      <3> QED BY <3>1, TurnHolders DEF IInv
    <2>3. Sharers(d)' = Sharers(d)
      BY <2>1 DEF Sharers, IInv, Steady, TypeOK
    <2> QED BY <1>1, <2>1, <2>2, <2>3, TurnCount DEF IInv
  <1>7. Users(own)' = 1
    <2>0. \A z : Cardinality({z}) = 1
      BY FS_Singleton
    <2>1. CASE /\ w = "idle" /\ c.own = 0 /\ UNCHANGED uses
               /\ objs' = [objs EXCEPT ![t] = objs[t] \cup {own}]
      <3>1. Sharers(own)' = {}
        BY <1>5, <2>1 DEF Sharers
      <3>2. Givers(own)' = {}
        BY <1>5, <2>1, TurnGivers DEF IInv
      <3>3. Holders(own)' = {t}
        <4>1. /\ own \in objs'[t]
              /\ \A u \in Threads \ {t} : own \notin objs'[u]
          BY <1>2, <2>1 DEF IInv, Steady, TypeOK
        <4>2. ~Uncounted(t, own)
          BY <1>1, RunningCounted DEF IInv
        <4>3. ~Uncounted(t, own)'
          BY <4>2, TurnKeepsUncounted DEF IInv
        <4> QED BY <4>1, <4>3 DEF Holders
      <3>4. Cardinality({t}) = 1 /\ Cardinality({}) = 0
        BY <2>0, FS_EmptySet
      <3> QED BY <3>1, <3>2, <3>3, <3>4 DEF Users
    <2>2. CASE /\ w = "idle" /\ c.own = 0 /\ UNCHANGED objs
               /\ \E s \in Socks : /\ uses[s] = 0
                                   /\ uses' = [uses EXCEPT ![s] = own]
      <3>1. PICK s \in Socks : uses[s] = 0 /\ uses' = [uses EXCEPT ![s] = own]
        BY <2>2
      <3>2. Sharers(own)' = {s}
        BY <1>2, <3>1 DEF Sharers, IInv, Steady, TypeOK
      <3>3. Givers(own)' = {}
        BY <1>5, <2>2, TurnGivers DEF IInv
      <3>4. Holders(own)' = {}
        BY <1>5, <2>2, TurnHolders DEF IInv
      <3>5. Cardinality({s}) = 1 /\ Cardinality({}) = 0
        BY <2>0, FS_EmptySet
      <3> QED BY <3>2, <3>3, <3>4, <3>5 DEF Users
    <2>3. CASE w = "dec" /\ c.own = own /\ UNCHANGED <<uses, objs>>
      <3>1. Givers(own)' = {t}
        BY <1>5, <2>3, TurnGivers DEF IInv
      <3>2. Holders(own)' = {} /\ Sharers(own)' = {}
        BY <1>5, <2>3, TurnHolders DEF IInv, Sharers
      <3>3. Cardinality({t}) = 1 /\ Cardinality({}) = 0
        BY <2>0, FS_EmptySet
      <3> QED BY <3>1, <3>2, <3>3 DEF Users
    <2> QED BY <2>1, <2>2, <2>3
  <1>8. LiveWhileUsed'
    <2>1. \A r \in Socks : uses'[r] # 0 => uses'[r] \in linked'
      BY <1>2 DEF IInv, Steady, TypeOK, LiveWhileUsed
    <2>2. objs'[t] \subseteq linked'
      BY <1>2 DEF IInv, Steady, TypeOK, LiveWhileUsed
    <2>3. {c.own, c.use} \subseteq linked' \cup {0} /\ linked \subseteq linked'
      BY <1>2
    <2> QED BY <2>1, <2>2, <2>3, TurnLive DEF IInv
  <1>10. Spent'
    <2>1. ASSUME NEW d \in linked', refcnt'[d] = 0
          PROVE  d \in linked /\ refcnt[d] = 0
      <3>1. d \in linked /\ d # own
        BY <1>2, <2>1
      <3>2. d \in Ctxs
        BY <3>1, CountIs
      <3> QED BY <1>2, <2>1, <3>1, <3>2
    <2>2. objs'[t] \subseteq objs[t] \/ objs'[t] = objs[t] \cup {own}
      BY DEF IInv, Steady, TypeOK
    <2>3. \A s \in Socks : uses'[s] = uses[s] \/ uses'[s] = own
      BY DEF IInv, Steady, TypeOK
    <2> QED BY <1>1, <1>4, <2>1, <2>2, <2>3, TurnKeepsSpent
  <1>11. CountExact'
    <2>1. ASSUME NEW d \in linked'
          PROVE  refcnt'[d] = Users(d)' + extra'[d]
      <3>1. CASE d = own
        BY <1>2, <1>3, <1>7, <3>1
      <3>2. CASE d # own
        <4>1. d \in linked
          BY <1>2, <3>2
        <4>2. d \in Ctxs /\ refcnt[d] = Users(d) + extra[d]
          BY <4>1, CountIs
        <4> QED BY <1>2, <1>6, <3>2, <4>1, <4>2
      <3> QED BY <3>1, <3>2
    <2> QED BY <2>1 DEF CountExact, Users
  <1> QED BY <1>8, <1>10, <1>11 DEF Counted

(* A step of CLONE neither removes nor gives users to what is removed.     *)
LEMMA CopySpent ==
  ASSUME IInv, ~miscounted,
         \A u \in Threads : \A d \in Ctxs : Removing(u, d)' <=> Removing(u, d),
         \A u \in Threads : \A d \in Ctxs : Removing(u, d) =>
           /\ Holders(d)' = Holders(d) /\ Sharers(d)' = Sharers(d)
           /\ Givers(d)' = Givers(d),
         linked' = linked,
         \A d \in linked : refcnt'[d] = 0 => refcnt[d] = 0
  PROVE  Spent'
  <1>1. ASSUME NEW u \in Threads, NEW d \in Ctxs, Removing(u, d)'
        PROVE  Unused(d)' /\ \A v \in Threads \ {u} : ~Removing(v, d)'
    BY <1>1 DEF IInv, Spent, Unused
  <1>2. ASSUME NEW d \in linked', refcnt'[d] = 0
        PROVE  \E u \in Threads : Removing(u, d)'
    <2>1. d \in Ctxs
      BY LinkedAre
    <2> QED BY <1>2, <2>1 DEF IInv, Spent
  <1> QED BY <1>1, <1>2 DEF Spent

(* Other copiers than the one with the mutex have not begun, and none is   *)
(* making the same copy.                                                   *)
LEMMA OtherCopiers ==
  ASSUME Steady, NEW t \in Threads, lock \in {NoThread, t},
         NEW u \in Threads \ {t}, call[u].kid \in Threads
  PROVE  pc[u] = "clone_lock" /\ call[u].kid # call[t].kid
  <1>1. pc[u] = "clone_lock" \/ lock = u
    BY CopierWaits
  <1> QED BY <1>1, SslContextAssumption DEF Steady, Kids

LEMMA SpawnCounted ==
  ASSUME IInv, ~miscounted', NEW t \in Threads, NEW k \in Threads, Spawn(t, k)
  PROVE  Counted'
  <1>c. ~miscounted
    BY DEF Spawn
  <1> DEFINE c == [NoCall EXCEPT !.op = "spawn", !.kid = k]
  <1>1. c \in Calls /\ c.kid = k /\ c.own = 0 /\ c.use = 0
    BY NoCallFacts DEF Calls
  <1>2. Enter(t, "clone_lock", c)
    BY DEF Spawn
  <1> HIDE DEF c
  <1>3. /\ pc'[t] = "clone_lock" /\ call'[t] = c
        /\ \A u \in Threads \ {t} : pc'[u] = pc[u] /\ call'[u] = call[u]
    BY <1>1, <1>2, EnterFacts DEF IInv, Steady, Places, Copying
  <1>4. /\ pc[t] = "idle" /\ pc[k] = "unborn" /\ k # t
        /\ \A u \in Threads : call[u].kid # k
        /\ UNCHANGED <<counter, linked, extra, lock, todo, refcnt, uses, tmp>>
        /\ objs'[k] = objs[t]
        /\ \A u \in Threads \ {k} : objs'[u] = objs[u]
    BY DEF Spawn, Ready, list, IInv, Steady, TypeOK
  <1>5. call[t].kid = NoThread
    BY <1>4, NoCallFacts DEF IInv, Steady, Shape
  <1>6. objs[k] = {}
    BY <1>4 DEF IInv, Steady, Kids
  <1>7. ASSUME NEW d
        PROVE  /\ Holders(d)' = Holders(d) /\ Sharers(d)' = Sharers(d)
               /\ Givers(d)' = Givers(d)
    <2>1. Uncounted(k, d)'
      BY <1>1, <1>3 DEF Uncounted
    <2>2. \A j \in Threads \ {k} : Uncounted(j, d)' <=> Uncounted(j, d)
      BY <1>1, <1>3, <1>4, <1>5, SslContextAssumption DEF Uncounted
    <2>3. Holders(d)' = Holders(d)
      BY <1>4, <1>6, <2>1, <2>2 DEF Holders
    <2> QED BY <1>3, <1>4, <2>3 DEF Sharers, Givers
  <1>8. LiveWhileUsed'
    <2>1. \A u \in Threads : Involved(u)' \subseteq Involved(u)
      BY <1>1, <1>3 DEF Involved
    <2>2. \A u \in Threads : objs'[u] \subseteq linked
      BY <1>c, <1>4 DEF IInv, LiveWhileUsed
    <2> QED BY <1>c, <1>4, <2>1, <2>2 DEF IInv, LiveWhileUsed
  <1>10. Spent'
    <2>1. \A u \in Threads : \A d : Removing(u, d)' <=> Removing(u, d)
      BY <1>3, <1>4 DEF Removing
    <2> QED BY <1>c, <1>4, <1>7, <2>1, CopySpent
  <1>11. CountExact'
    BY <1>c, <1>4, <1>7 DEF IInv, CountExact
  <1> QED BY <1>8, <1>10, <1>11 DEF Counted

LEMMA CloneLockCounted ==
  ASSUME IInv, ~miscounted', NEW t \in Threads, CloneLock(t)
  PROVE  Counted'
  <1>c. ~miscounted
    BY DEF CloneLock
  <1>1. /\ pc'[t] = "clone" /\ call'[t] = call[t]
        /\ \A u \in Threads : call'[u] = call[u]
        /\ \A u \in Threads \ {t} : pc'[u] = pc[u]
    <2>1. call[t] \in Calls
      BY DEF IInv, Steady, TypeOK
    <2> QED BY <2>1, EnterFacts DEF IInv, Steady, CloneLock, Places, Copying
  <1>2. /\ pc[t] = "clone_lock" /\ todo' = linked /\ lock = NoThread
        /\ UNCHANGED <<linked, extra, refcnt, uses, objs>>
    BY DEF CloneLock
  <1>4. ASSUME NEW d \in linked
        PROVE  /\ Holders(d)' = Holders(d) /\ Sharers(d)' = Sharers(d)
               /\ Givers(d)' = Givers(d)
    <2>1. \A j \in Threads : Uncounted(j, d)' <=> Uncounted(j, d)
      BY <1>1, <1>2, OtherCopiers DEF IInv, Uncounted
    <2>2. Holders(d)' = Holders(d)
      BY <1>2, <2>1 DEF Holders
    <2> QED BY <1>1, <1>2, <2>2 DEF Sharers, Givers
  <1>5. LiveWhileUsed'
    BY <1>c, <1>1, <1>2 DEF IInv, LiveWhileUsed, Involved
  <1>7. Spent'
    <2>1. \A u \in Threads : \A d : Removing(u, d)' <=> Removing(u, d)
      BY <1>1, <1>2 DEF Removing
    <2>2. ASSUME NEW u \in Threads, NEW d \in Ctxs, Removing(u, d)
          PROVE  d \in linked
      <3>1. d # 0 /\ d \in Involved(u)
        BY <2>2, SslContextAssumption DEF Removing, Involved, Ctxs
      <3> QED BY <1>c, <3>1, LinkedAre
    <2> QED BY <1>c, <1>2, <1>4, <2>1, <2>2, CopySpent
  <1>8. CountExact'
    BY <1>c, <1>2, <1>4 DEF IInv, CountExact
  <1> QED BY <1>5, <1>7, <1>8 DEF Counted

LEMMA CloneReadCounted ==
  ASSUME IInv, ~miscounted', NEW t \in Threads, CloneRead(t)
  PROVE  Counted'
  <1>c. ~miscounted
    BY DEF CloneRead
  <1>1. PICK x \in todo :
           Enter(t, "clone_write", [call[t] EXCEPT !.use = x])
    BY DEF CloneRead
  <1> DEFINE c == [call[t] EXCEPT !.use = x]
  <1>2. c \in Calls /\ c.kid = call[t].kid /\ c.own = call[t].own /\ c.use = x
    <2>1. call[t] \in Calls /\ x \in 0 .. MaxCtx
      BY SslContextAssumption DEF IInv, Steady, TypeOK
    <2> QED BY <2>1 DEF Calls
  <1>3. Enter(t, "clone_write", c)
    BY <1>1
  <1> HIDE DEF c
  <1>4. /\ pc'[t] = "clone_write" /\ call'[t] = c
        /\ \A u \in Threads \ {t} : pc'[u] = pc[u] /\ call'[u] = call[u]
    BY <1>2, <1>3, EnterFacts DEF IInv, Steady, Places, Copying
  <1>5. /\ pc[t] = "clone" /\ x \in linked
        /\ UNCHANGED <<linked, extra, lock, todo, refcnt, uses, objs>>
    BY <1>1 DEF CloneRead, list, IInv, Steady, TypeOK
  <1>7. ASSUME NEW d
        PROVE  /\ Holders(d)' = Holders(d) /\ Sharers(d)' = Sharers(d)
               /\ Givers(d)' = Givers(d)
    <2>1. \A u \in Threads :
            /\ call'[u].kid = call[u].kid
            /\ pc'[u] = "clone_lock" <=> pc[u] = "clone_lock"
      BY <1>2, <1>4, <1>5
    <2>2. \A j \in Threads : Uncounted(j, d)' <=> Uncounted(j, d)
      BY <1>5, <2>1 DEF Uncounted
    <2>3. Holders(d)' = Holders(d)
      BY <1>5, <2>2 DEF Holders
    <2> QED BY <1>4, <1>5, <2>3 DEF Sharers, Givers
  <1>8. LiveWhileUsed'
    <2>1. Involved(t)' \subseteq linked
      BY <1>c, <1>2, <1>4, <1>5 DEF IInv, LiveWhileUsed, Involved
    <2>2. \A u \in Threads \ {t} : Involved(u)' = Involved(u)
      BY <1>4 DEF Involved
    <2> QED BY <1>c, <1>5, <2>1, <2>2 DEF IInv, LiveWhileUsed
  <1>10. Spent'
    <2>1. \A u \in Threads : \A d : Removing(u, d)' <=> Removing(u, d)
      BY <1>4, <1>5 DEF Removing
    <2> QED BY <1>c, <1>5, <1>7, <2>1, CopySpent
  <1>11. CountExact'
    BY <1>c, <1>5, <1>7 DEF IInv, CountExact
  <1> QED BY <1>8, <1>10, <1>11 DEF Counted

LEMMA CloneWriteCounted ==
  ASSUME IInv, ~miscounted', NEW t \in Threads, CloneWrite(t)
  PROVE  Counted'
  <1>c. ~miscounted /\ refcnt[call[t].use] = tmp[t]
    BY DEF CloneWrite, CloneWriteOf, Store
  <1>1. PICK x \in todo : x = call[t].use
    BY DEF CloneWrite, CloneWriteOf, IInv, Steady, LockHeld
  <1>2. PICK k \in Threads : k = call[t].kid
    BY DEF CloneWrite, CloneWriteOf, IInv, Steady, Shape, Copying
  <1>3. /\ pc[t] = "clone_write"
        /\ x \in linked /\ tmp[t] = refcnt[x] /\ lock = t
    BY <1>c, <1>1 DEF CloneWrite, CloneWriteOf, IInv, Steady, TypeOK, LockHeld
  <1>4. /\ refcnt' = [refcnt EXCEPT ![x] = refcnt[x] + 1]
        /\ todo' = todo \ {x}
        /\ extra' = IF x \in objs[k] THEN extra
                    ELSE [extra EXCEPT ![x] = extra[x] + 1]
        /\ UNCHANGED <<counter, linked, lock, uses, objs>>
    BY <1>1, <1>2, <1>3 DEF CloneWrite, CloneWriteOf, Store
  <1>5. /\ x \in Ctxs /\ x # 0 /\ refcnt[x] = Users(x) + extra[x]
        /\ refcnt[x] \in Nat /\ Users(x) \in Nat /\ extra[x] \in Nat
    BY <1>c, <1>3, CountIs
  <1>6. /\ refcnt'[x] = refcnt[x] + 1
        /\ extra'[x] = IF x \in objs[k] THEN extra[x] ELSE extra[x] + 1
        /\ \A d \in Ctxs \ {x} : refcnt'[d] = refcnt[d] /\ extra'[d] = extra[d]
    BY <1>4, <1>5 DEF IInv, Steady, TypeOK
  <1> DEFINE c == [call[t] EXCEPT !.use = 0]
  <1>7. c \in Calls /\ c.kid = k /\ c.own = call[t].own /\ c.use = 0
    <2>1. call[t] \in Calls /\ 0 \in 0 .. MaxCtx
      BY SslContextAssumption DEF IInv, Steady, TypeOK
    <2> QED BY <1>2, <2>1 DEF Calls
  <1>8. Enter(t, "clone", c)
    BY DEF CloneWrite, CloneWriteOf
  <1> HIDE DEF c
  <1>9. /\ pc'[t] = "clone" /\ call'[t] = c
        /\ \A u \in Threads \ {t} : pc'[u] = pc[u] /\ call'[u] = call[u]
    BY <1>7, <1>8, EnterFacts DEF IInv, Steady, Places, Copying
  <1>10. \A u \in Threads \ {t} : call[u].kid \in Threads =>
           pc[u] = "clone_lock" /\ call[u].kid # k
    BY <1>2, <1>3, OtherCopiers DEF IInv
  <1>11. \A d : Sharers(d)' = Sharers(d) /\ Givers(d)' = Givers(d)
    BY <1>3, <1>4, <1>9 DEF Sharers, Givers
  <1>12. ASSUME NEW d, d # x
         PROVE  Holders(d)' = Holders(d)
    <2>1. \A u \in Threads :
            /\ call'[u].kid = call[u].kid
            /\ pc'[u] = "clone_lock" <=> pc[u] = "clone_lock"
      BY <1>2, <1>3, <1>7, <1>9
    <2>2. d \in todo' <=> d \in todo
      BY <1>4, <1>12
    <2>3. \A j \in Threads : Uncounted(j, d)' <=> Uncounted(j, d)
      BY <2>1, <2>2 DEF Uncounted
    <2> QED BY <1>4, <2>3 DEF Holders
  <1>13. Users(x)' = IF x \in objs[k] THEN Users(x) + 1 ELSE Users(x)
    <2>1. \A j \in Threads \ {k} : Uncounted(j, x)' <=> Uncounted(j, x)
      BY <1>2, <1>7, <1>9, <1>10 DEF Uncounted
    <2>2. Uncounted(k, x)
      BY <1>1, <1>2 DEF Uncounted
    <2>3. ~Uncounted(k, x)'
      BY <1>4, <1>7, <1>9, <1>10 DEF Uncounted
    <2>4. CASE x \in objs[k]
      <3>1. Holders(x)' = Holders(x) \cup {k} /\ k \notin Holders(x)
        BY <1>4, <2>1, <2>2, <2>3, <2>4 DEF Holders
      <3>2. Cardinality(Holders(x) \cup {k}) = Cardinality(Holders(x)) + 1
        BY <3>1, UsersFinite, FS_AddElement
      <3> QED BY <1>11, <2>4, <3>1, <3>2, UsersFinite DEF Users
    <2>5. CASE x \notin objs[k]
      <3>1. Holders(x)' = Holders(x)
        BY <1>4, <2>1, <2>2, <2>3, <2>5 DEF Holders
      <3> QED BY <1>11, <2>5, <3>1 DEF Users
    <2> QED BY <2>4, <2>5
  <1>14. LiveWhileUsed'
    <2>1. \A u \in Threads : Involved(u)' \subseteq Involved(u)
      BY <1>7, <1>9 DEF Involved
    <2> QED BY <1>c, <1>4, <2>1 DEF IInv, LiveWhileUsed
  <1>16. Spent'
    <2>1. \A u \in Threads : \A d : Removing(u, d)' <=> Removing(u, d)
      BY <1>3, <1>9 DEF Removing
    <2>2. ASSUME NEW u \in Threads, NEW d \in Ctxs, Removing(u, d)
          PROVE  Holders(d)' = Holders(d)
      <3>1. CASE d = x
        <4>1. x \notin objs[k]
          BY <1>c, <2>2, <3>1, RemovedUnused
        <4>2. Holders(x)' = Holders(x)
          <5>1. \A j \in Threads \ {k} : Uncounted(j, x)' <=> Uncounted(j, x)
            BY <1>2, <1>7, <1>9, <1>10 DEF Uncounted
          <5> QED BY <1>4, <4>1, <5>1 DEF Holders
        <4> QED BY <3>1, <4>2
      <3>2. CASE d # x
        BY <1>12, <3>2
      <3> QED BY <3>1, <3>2
    <2>3. \A d \in linked : refcnt'[d] = 0 => refcnt[d] = 0
      BY <1>c, <1>5, <1>6, LinkedAre
    <2> QED BY <1>c, <1>4, <1>11, <2>1, <2>2, <2>3, CopySpent
  <1>17. CountExact'
    <2>1. ASSUME NEW d \in linked'
          PROVE  refcnt'[d] = Users(d)' + extra'[d]
      <3>1. CASE d = x
        BY <1>5, <1>6, <1>13, <3>1
      <3>2. CASE d # x
        <4>1. d \in linked
          BY <1>4
        <4>2. d \in Ctxs /\ refcnt[d] = Users(d) + extra[d]
          BY <1>c, <4>1, CountIs
        <4>3. Users(d)' = Users(d)
          BY <1>11, <1>12, <3>2 DEF Users
        <4> QED BY <1>6, <3>2, <4>2, <4>3
      <3> QED BY <3>1, <3>2
    <2> QED BY <2>1 DEF CountExact, Users
  <1> QED BY <1>14, <1>16, <1>17 DEF Counted

LEMMA CloneDoneCounted ==
  ASSUME IInv, ~miscounted', NEW t \in Threads, CloneDone(t)
  PROVE  Counted'
  <1>c. ~miscounted
    BY DEF CloneDone
  <1>1. PICK k \in Threads : k = call[t].kid
    BY DEF CloneDone, IInv, Steady, Shape, Copying
  <1>2. pc[k] = "unborn" /\ pc[t] = "clone" /\ k # t /\ todo = {}
        /\ call[t].own = 0 /\ lock = t
    BY <1>1 DEF CloneDone, IInv, Steady, Shape, LockHeld, Copying
  <1>3. /\ pc'[t] = "idle" /\ pc'[k] = "idle" /\ call'[t] = NoCall
        /\ \A u \in Threads \ {t, k} : pc'[u] = pc[u]
        /\ \A u \in Threads \ {t} : call'[u] = call[u]
        /\ UNCHANGED <<linked, todo, uses, extra, objs, refcnt>>
    BY <1>1, <1>2 DEF CloneDone, IInv, Steady, TypeOK
  <1>4. \A u \in Threads \ {t} : call[u].kid \in Threads =>
          pc[u] = "clone_lock" /\ call[u].kid # k /\ u # k
    BY <1>1, <1>2, OtherCopiers DEF IInv
  <1>5. ASSUME NEW d
        PROVE  /\ Holders(d)' = Holders(d) /\ Sharers(d)' = Sharers(d)
               /\ Givers(d)' = Givers(d)
    <2>1. \A j \in Threads : Uncounted(j, d)' <=> Uncounted(j, d)
      BY <1>1, <1>2, <1>3, <1>4, NoCallFacts, SslContextAssumption
         DEF Uncounted
    <2>2. Holders(d)' = Holders(d)
      BY <1>3, <2>1 DEF Holders
    <2>3. Givers(d)' = Givers(d)
      BY <1>2, <1>3 DEF Givers
    <2> QED BY <1>3, <2>2, <2>3 DEF Sharers
  <1>6. LiveWhileUsed'
    <2>1. \A u \in Threads : Involved(u)' \subseteq Involved(u)
      BY <1>3, NoCallFacts DEF Involved
    <2> QED BY <1>c, <1>3, <2>1 DEF IInv, LiveWhileUsed
  <1>8. Spent'
    <2>1. \A u \in Threads : \A d : Removing(u, d)' <=> Removing(u, d)
      BY <1>2, <1>3 DEF Removing
    <2> QED BY <1>c, <1>3, <1>5, <2>1, CopySpent
  <1>9. CountExact'
    BY <1>c, <1>3, <1>5 DEF IInv, CountExact
  <1> QED BY <1>6, <1>8, <1>9 DEF Counted

LEMMA CountedStep ==
  ASSUME IInv, ~miscounted', [Next]_vars
  PROVE  Counted'
  <1>c. ~miscounted
    <2>1. ASSUME NEW t \in Threads, Step(t)
          PROVE  ~miscounted
      BY <2>1 DEF Step, DecRead, DecWrite, Remove, IncRead, IncWrite,
         IncWriteWith, CloneLock, CloneRead, CloneWrite, CloneWriteOf,
         CloneDone, Store
    <2>2. ASSUME NEW t \in Threads,
                 \/ CtxNew(t)
                 \/ \E s \in Socks : New(t, s) \/ StartTls(t, s)
          PROVE  ~miscounted
      BY <2>2 DEF CtxNew, New, StartTls, Create
    <2>3. ASSUME NEW t \in Threads, NEW s \in Socks,
                 \/ StartTlsAgain(t, s) \/ Free(t, s)
                 \/ \E l \in Socks : Accept(t, l, s)
          PROVE  ~miscounted
      BY <2>3 DEF StartTlsAgain, Free, Accept
    <2>4. ASSUME NEW t \in Threads,
                 \/ \E c \in Ctxs : CtxDestroy(t, c)
                 \/ \E k \in Threads : Spawn(t, k)
          PROVE  ~miscounted
      BY <2>4 DEF CtxDestroy, Spawn
    <2>5. UNCHANGED vars => ~miscounted
      BY DEF vars
    <2> QED BY <2>1, <2>2, <2>3, <2>4, <2>5 DEF Next
  <1>1. ASSUME NEW t \in Threads, NEW s \in Socks, New(t, s)
        PROVE  Counted'
    <2>1. PICK own \in Ctxs, use \in Passed(t) :
           /\ Create(own)
           /\ \/ /\ use = 0 /\ uses' = [uses EXCEPT ![s] = own]
                 /\ Turn(t, "idle", NoCall)
              \/ /\ use = 0 /\ UNCHANGED uses
                 /\ Turn(t, "dec", Giving("free", s, own, 0))
              \/ /\ use # 0 /\ UNCHANGED uses
                 /\ Turn(t, "dec", Giving("new", s, own, use))
      BY <1>1, NewTurns DEF IInv
    <2>2. Ready(t) /\ uses[s] = 0 /\ UNCHANGED objs
      BY <1>1 DEF New
    <2>3. /\ own \in 0 .. MaxCtx /\ use \in 0 .. MaxCtx /\ 0 \in 0 .. MaxCtx
          /\ use \in linked \cup {0}
      BY <2>1, SslContextAssumption DEF Passed, IInv, Steady, TypeOK, Ctxs
    <2>4. CASE uses' = [uses EXCEPT ![s] = own] /\ Turn(t, "idle", NoCall)
      BY <1>c, <2>1, <2>2, <2>4, NoCallFacts, CreateCounted
    <2>5. CASE UNCHANGED uses /\ Turn(t, "dec", Giving("free", s, own, 0))
      <3> DEFINE g == Giving("free", s, own, 0)
      <3>1. g.own = own /\ g.use = 0
        BY GivingFields
      <3> HIDE DEF g
      <3> QED BY <1>c, <2>1, <2>2, <2>5, <3>1, CreateCounted DEF g
    <2>6. CASE UNCHANGED uses /\ Turn(t, "dec", Giving("new", s, own, use))
      <3> DEFINE g == Giving("new", s, own, use)
      <3>1. g.own = own /\ g.use = use
        BY GivingFields
      <3> HIDE DEF g
      <3> QED BY <1>c, <2>1, <2>2, <2>3, <2>6, <3>1, CreateCounted DEF g
    <2> QED BY <2>1, <2>4, <2>5, <2>6
  <1>2. ASSUME NEW t \in Threads, NEW s \in Socks, StartTls(t, s)
        PROVE  Counted'
    <2>1. PICK own \in Ctxs, use \in Passed(t) :
           /\ Create(own)
           /\ \/ /\ use = 0 /\ uses' = [uses EXCEPT ![s] = own]
                 /\ Turn(t, "idle", NoCall)
              \/ /\ use # 0 /\ UNCHANGED uses
                 /\ Turn(t, "dec", Giving("starttls", s, own, use))
      BY <1>2, StartTlsTurns DEF IInv
    <2>2. Ready(t) /\ uses[s] = 0 /\ UNCHANGED objs
      BY <1>2 DEF StartTls
    <2>3. /\ own \in 0 .. MaxCtx /\ use \in 0 .. MaxCtx
          /\ use \in linked \cup {0}
      BY <2>1, SslContextAssumption DEF Passed, IInv, Steady, TypeOK, Ctxs
    <2>4. CASE uses' = [uses EXCEPT ![s] = own] /\ Turn(t, "idle", NoCall)
      BY <1>c, <2>1, <2>2, <2>4, NoCallFacts, CreateCounted
    <2>5. CASE UNCHANGED uses
               /\ Turn(t, "dec", Giving("starttls", s, own, use))
      <3> DEFINE g == Giving("starttls", s, own, use)
      <3>1. g.own = own /\ g.use = use
        BY GivingFields
      <3> HIDE DEF g
      <3> QED BY <1>c, <2>1, <2>2, <2>3, <2>5, <3>1, CreateCounted DEF g
    <2> QED BY <2>1, <2>4, <2>5
  <1>3. ASSUME NEW t \in Threads, CtxNew(t)
        PROVE  Counted'
    <2>1. PICK own \in Ctxs :
           /\ Create(own) /\ UNCHANGED uses
           /\ objs' = [objs EXCEPT ![t] = objs[t] \cup {own}]
           /\ Turn(t, "idle", NoCall)
      BY <1>3, CtxNewTurns DEF IInv
    <2>2. Ready(t)
      BY <1>3 DEF CtxNew
    <2> QED BY <1>c, <2>1, <2>2, NoCallFacts, CreateCounted
  <1>4. ASSUME NEW t \in Threads, NEW s \in Socks, StartTlsAgain(t, s)
        PROVE  Counted'
    <2>1. PICK use \in Ctxs :
             /\ use \in objs[t] \cap linked
             /\ Turn(t, "dec", Giving("starttls", s, uses[s], use))
      BY <1>4, StartTlsAgainTurns DEF IInv
    <2>2. PICK x \in linked : x = uses[s]
      BY <1>c, <1>4 DEF StartTlsAgain, IInv, LiveWhileUsed
    <2> DEFINE g == Giving("starttls", s, x, use)
    <2>3. g.own = x /\ g.use = use
      BY GivingFields
    <2>4. Turn(t, "dec", g)
      BY <2>1, <2>2
    <2> HIDE DEF g
    <2>5. /\ Ready(t) /\ uses[s] = x /\ uses' = [uses EXCEPT ![s] = 0]
          /\ UNCHANGED <<linked, refcnt, extra, objs>>
      BY <1>4, <2>2 DEF StartTlsAgain, list
    <2> QED BY <1>c, <2>1, <2>3, <2>4, <2>5, GiveUpCounted
  <1>5. ASSUME NEW t \in Threads, NEW s \in Socks, Free(t, s)
        PROVE  Counted'
    <2>1. Turn(t, "dec", Giving("free", s, uses[s], 0))
      BY <1>5, FreeTurns DEF IInv
    <2>2. PICK x \in linked : x = uses[s]
      BY <1>c, <1>5 DEF Free, IInv, LiveWhileUsed
    <2> DEFINE g == Giving("free", s, x, 0)
    <2>3. g.own = x /\ g.use = 0
      BY GivingFields
    <2>4. Turn(t, "dec", g)
      BY <2>1, <2>2
    <2> HIDE DEF g
    <2>5. /\ Ready(t) /\ uses[s] = x /\ uses' = [uses EXCEPT ![s] = 0]
          /\ UNCHANGED <<linked, refcnt, extra, objs>>
      BY <1>5, <2>2 DEF Free, list
    <2> QED BY <1>c, <2>3, <2>4, <2>5, GiveUpCounted
  <1>6. ASSUME NEW t \in Threads, NEW l \in Socks, NEW s \in Socks,
               Accept(t, l, s)
        PROVE  Counted'
    <2>1. PICK c \in Calls : /\ c.own = 0 /\ c.use = uses[l]
                             /\ Turn(t, "inc", c)
      BY <1>6, AcceptTurns DEF IInv
    <2>2. /\ Ready(t) /\ uses[l] \in linked
          /\ UNCHANGED <<linked, refcnt, extra, uses, objs>>
      BY <1>c, <1>6 DEF Accept, list, IInv, LiveWhileUsed
    <2> QED BY <1>c, <2>1, <2>2, IdleCounted
  <1>7. ASSUME NEW t \in Threads, NEW x \in Ctxs, CtxDestroy(t, x)
        PROVE  Counted'
    <2>1. x \in linked
      BY <1>c, <1>7 DEF CtxDestroy, IInv, LiveWhileUsed
    <2> DEFINE g == Giving("destroy", NoSock, x, 0)
    <2>2. g.own = x /\ g.use = 0
      BY GivingFields
    <2>3. Turn(t, "dec", g)
      <3>1. Enter(t, "dec", g)
        BY <1>7, <2>1 DEF CtxDestroy
      <3>2. ASSUME NEW w, NEW c, Turn(t, w, c)
            PROVE  pc'[t] = w
        BY <3>2, EnterFacts DEF Turn, Places, IInv, Steady
      <3>3. pc'[t] = "dec"
        BY <3>1 DEF Enter, IInv, Steady, TypeOK
      <3>4. \/ Turn(t, "idle", NoCall)
            \/ Turn(t, "dec", g)
        BY <1>7, CtxDestroyTurns DEF IInv
      <3> HIDE DEF g
      <3> QED BY <3>2, <3>3, <3>4
    <2> HIDE DEF g
    <2>4. /\ Ready(t) /\ x \in objs[t]
          /\ objs' = [objs EXCEPT ![t] = objs[t] \ {x}]
          /\ UNCHANGED <<linked, refcnt, extra, uses>>
      BY <1>7 DEF CtxDestroy, list
    <2> QED BY <1>c, <2>1, <2>2, <2>3, <2>4, GiveUpCounted
  <1>8. ASSUME UNCHANGED vars
        PROVE  Counted'
    <2> USE <1>8 DEF vars, IInv
    <2>1. LiveWhileUsed'
      BY DEF LiveWhileUsed, Involved
    <2>2. Spent'
      BY DEF Spent, Removing, Unused, Holders, Sharers, Givers, Uncounted
    <2>3. CountExact'
      BY DEF CountExact, Holders, Sharers, Givers, Uncounted
    <2> QED BY <2>1, <2>2, <2>3 DEF Counted
  <1>9. ASSUME NEW t \in Threads, Step(t)
        PROVE  Counted'
    BY <1>9, LoadCounted, DecWriteCounted, RemoveCounted, IncWriteCounted,
       CloneLockCounted, CloneReadCounted, CloneWriteCounted, CloneDoneCounted
    DEF Step
  <1> QED BY <1>1, <1>2, <1>3, <1>4, <1>5, <1>6, <1>7, <1>8, <1>9,
             SpawnCounted DEF Next

LEMMA InitIInv == Init => IInv
  <1> SUFFICES ASSUME Init
               PROVE  IInv
    OBVIOUS
  <1> USE SslContextAssumption, NoCallFacts DEF Init
  <1>1. TypeOK
    <2>1. /\ counter \in 0 .. MaxCtx /\ linked \subseteq 1 .. counter
          /\ refcnt \in [Ctxs -> Int] /\ extra \in [Ctxs -> Nat]
          /\ lock \in Threads \cup {NoThread} /\ todo \subseteq linked
          /\ tmp \in [Threads -> Int]
      BY DEF Ctxs
    <2>3. miscounted \in BOOLEAN
      OBVIOUS
    <2>2. /\ uses \in [Socks -> 0 .. counter]
          /\ objs \in [Threads -> SUBSET (1 .. counter)]
          /\ pc \in [Threads -> {"unborn", "idle"} \cup Calling \cup Copying]
          /\ call \in [Threads -> Calls]
          /\ \A t \in Threads :
               call[t].own <= counter /\ call[t].use <= counter
      BY DEF Calling, Copying
    <2> QED BY <2>1, <2>2, <2>3 DEF TypeOK
  <1>2. Shape /\ SockFree
    BY DEF Shape, SockFree, Sharing, Calling, Copying
  <1>3. Kids /\ LockHeld /\ Fresh
    BY DEF Kids, LockHeld, Fresh
  <1>4. LiveWhileUsed
    BY DEF LiveWhileUsed, Involved
  <1>5. Spent /\ CountExact
    BY DEF Spent, CountExact, Removing
  <1> QED BY <1>1, <1>2, <1>3, <1>4, <1>5 DEF IInv, Steady

LEMMA IInvStep ==
  ASSUME IInv, [Next]_vars
  PROVE  IInv'
  <1>1. Steady'
    BY SteadyStep DEF IInv
  <1>2. LiveWhileUsed' /\ Spent' /\ CountExact'
    <2>1. CASE ~miscounted'
      BY <2>1, CountedStep DEF Counted
    <2>2. CASE miscounted'
      BY <2>2 DEF LiveWhileUsed, Spent, CountExact
    <2> QED BY <2>1, <2>2
  <1> QED BY <1>1, <1>2 DEF IInv

LEMMA IInvAlways == Spec => []IInv
  BY InitIInv, IInvStep, PTL DEF Spec
-----------------------------------------------------------------------------
(* Every variable keeps its range, however calls overlap and whatever they *)
(* store: the bookkeeping of create, use_ctx, accept, starttls, CLONE and  *)
(* the destructors never names a context that was not created.             *)
THEOREM TypeCorrect == Spec => []TypeOK
  <1>1. IInv => TypeOK
    BY DEF IInv, Steady
  <1> QED BY <1>1, IInvAlways, PTL

(* However calls overlap, as long as none has stored a stale count, a      *)
(* context's count is the number of its users, of the calls about to take  *)
(* a count away and of the threads CLONE has counted without an object.    *)
THEOREM CountsExact == Spec => []CountExact
  <1>1. IInv => CountExact
    BY DEF IInv
  <1> QED BY <1>1, IInvAlways, PTL

(* However calls overlap, as long as none has stored a stale count,        *)
(* mod_sc_ssl_ctx_destroy never frees a context that a socket, an object   *)
(* or another call still uses.                                             *)
THEOREM ContextsLive == Spec => []LiveWhileUsed
  <1>1. IInv => LiveWhileUsed
    BY DEF IInv
  <1> QED BY <1>1, IInvAlways, PTL

(* However calls overlap, as long as none has stored a stale count, a      *)
(* context without users is freed or in the hands of the call that is      *)
(* about to free it.                                                       *)
THEOREM UnusedFreed == Spec => []FreedWhenUnused
  <1>1. IInv => FreedWhenUnused
    <2> SUFFICES ASSUME IInv, ~miscounted, NEW c \in linked,
                        Holders(c) = {}, Sharers(c) = {}, Givers(c) = {},
                        extra[c] = 0
                 PROVE  \E t \in Threads : pc[t] = "remove"
                                           /\ call[t].own = c
      BY DEF FreedWhenUnused
    <2>1. Users(c) = 0
      BY FS_EmptySet DEF Users
    <2>2. refcnt[c] = 0
      BY <2>1, CountIs
    <2> QED BY <2>2 DEF IInv, Spent, Removing
  <1> QED BY <1>1, IInvAlways, PTL
=============================================================================
