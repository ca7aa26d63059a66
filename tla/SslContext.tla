----------------------------- MODULE SslContext -----------------------------
(***************************************************************************)
(* The shared contexts of Socket::Class::SSL.  A sc_ssl_ctx_t is used by   *)
(* the sockets whose userdata points to it and named by the CTX objects of *)
(* the Perl threads; refcnt is to say how many those are.  Calls change it *)
(* without the mutex that protects the list, in a load and a store; CLONE  *)
(* counts the list under the mutex.                                        *)
(*                                                                         *)
(* Calls of different threads about one context overlap as they please.    *)
(* When one stores a count that another has changed since it was loaded,   *)
(* miscounted is set.  From then on a context may be freed that is in use, *)
(* and what the program does with its memory nobody can say: the claims    *)
(* below hold up to the first such store, and the model goes on only so    *)
(* that they are not made of a system that stops.  Calls on one socket do  *)
(* not overlap here; Registry has those that do.                           *)
(***************************************************************************)
EXTENDS Integers, FiniteSets

CONSTANTS
  Threads, Main,
  Socks,      \* the sockets
  NoThread, NoSock,
  MaxCtx      \* bounds the contexts that are created

ASSUME SslContextAssumption ==
  /\ IsFiniteSet(Threads) /\ Main \in Threads /\ NoThread \notin Threads
  /\ IsFiniteSet(Socks) /\ NoSock \notin Socks
  /\ MaxCtx \in Nat

VARIABLES
  counter,  \* sc_ssl_global.counter
  linked,   \* the contexts in sc_ssl_global.ctx
  refcnt,   \* ctx->refcnt
  extra,    \* how often CLONE has counted a context for a thread that
            \* got no object of it (a history variable)
  lock,     \* who holds sc_ssl_global.thread_lock over several steps
  todo,     \* the contexts CLONE has yet to visit
  uses,     \* ud->sc_ssl_ctx, 0 for a socket without SSL or none at all
  objs,     \* the contexts a thread has CTX objects of
  pc, call, \* of each thread: where it is, in which call
  tmp,      \* the refcnt it has loaded
  miscounted  \* a store has hit a count changed since it was loaded
              \* (a history variable)

vars == <<counter, linked, refcnt, extra, lock, todo, uses, objs, pc, call,
          tmp, miscounted>>
list == <<counter, linked, extra, lock, todo>>

Ctxs == 1 .. MaxCtx
NoCall == [op |-> "none", sock |-> NoSock, on |-> NoSock, own |-> 0,
           use |-> 0, kid |-> NoThread]

Init ==
  /\ counter = 0 /\ linked = {}
  /\ refcnt = [c \in Ctxs |-> 0] /\ extra = [c \in Ctxs |-> 0]
  /\ lock = NoThread /\ todo = {}
  /\ uses = [s \in Socks |-> 0]
  /\ objs = [t \in Threads |-> {}]
  /\ pc = [t \in Threads |-> IF t = Main THEN "idle" ELSE "unborn"]
  /\ call = [t \in Threads |-> NoCall]
  /\ tmp = [t \in Threads |-> 0]
  /\ miscounted = FALSE
-----------------------------------------------------------------------------
(* Steps that calls are made of.                                           *)

InCall(s) == \E u \in Threads : s \in {call[u].sock, call[u].on}

Enter(t, where, c) ==
  /\ pc' = [pc EXCEPT ![t] = where]
  /\ call' = [call EXCEPT ![t] = c]

Return(t) == Enter(t, "idle", NoCall)

Giving(op, s, own, use) ==
  [NoCall EXCEPT !.op = op, !.sock = s, !.own = own, !.use = use]

(* Mutant: the counter is read, not advanced.                              *)
CreateSame(c) ==
  /\ lock = NoThread
  /\ c \in Ctxs /\ c = counter + 1
  /\ linked' = linked \cup {c}
  /\ refcnt' = [refcnt EXCEPT ![c] = 1]
  /\ UNCHANGED <<counter, extra, lock, todo, tmp, miscounted>>

(* mod_sc_ssl_ctx_create.                                                  *)
Create(c) ==
  /\ lock = NoThread
  /\ c \in Ctxs /\ c = counter + 1
  /\ counter' = c
  /\ linked' = linked \cup {c}
  /\ refcnt' = [refcnt EXCEPT ![c] = 1]
  /\ UNCHANGED <<extra, lock, todo, tmp, miscounted>>

(* The second half of "refcnt++" and "--refcnt": t stores what it has      *)
(* made of the count it has loaded, and is done with that.                 *)
Store(t, c, n) ==
  /\ refcnt' = [refcnt EXCEPT ![c] = n]
  /\ tmp' = [tmp EXCEPT ![t] = 0]
  /\ miscounted' = (miscounted \/ refcnt[c] # tmp[t])

(* mod_sc_ssl_ctx_destroy: "--ctx->refcnt > 0".                            *)
DecRead(t) ==
  /\ pc[t] = "dec"
  /\ tmp' = [tmp EXCEPT ![t] = refcnt[call[t].own]]
  /\ Enter(t, "dec_write", call[t])
  /\ UNCHANGED <<list, refcnt, uses, objs, miscounted>>

AfterDrop(t) ==
  IF call[t].use = 0 THEN Return(t)
  ELSE Enter(t, "inc", [call[t] EXCEPT !.own = 0])

DecWrite(t) ==
  /\ pc[t] = "dec_write"
  /\ Store(t, call[t].own, tmp[t] - 1)
  /\ \/ tmp[t] - 1 > 0 /\ AfterDrop(t)
     \/ tmp[t] - 1 <= 0 /\ Enter(t, "remove", call[t])
  /\ UNCHANGED <<list, uses, objs>>

(* remove_context and free_context; one that is not found is not freed.    *)
Remove(t) ==
  /\ pc[t] = "remove"
  /\ lock = NoThread
  /\ linked' = linked \ {call[t].own}
  /\ AfterDrop(t)
  /\ UNCHANGED <<counter, extra, lock, todo, refcnt, uses, objs, tmp,
                 miscounted>>

(* "refcnt++" of the context a call is to share.                           *)
IncRead(t) ==
  /\ pc[t] = "inc"
  /\ tmp' = [tmp EXCEPT ![t] = refcnt[call[t].use]]
  /\ Enter(t, "inc_write", call[t])
  /\ UNCHANGED <<list, refcnt, uses, objs, miscounted>>

(* The end of new and accept: the socket gets the context, or bind,        *)
(* listen, connect or the handshake fails and the socket is freed, with    *)
(* its userdata.                                                           *)
Settle(t, s, c) ==
  \/ uses' = [uses EXCEPT ![s] = c] /\ Return(t)
  \/ UNCHANGED uses /\ Enter(t, "dec", Giving("free", s, c, 0))

IncWriteWith(t, n) ==
  /\ pc[t] = "inc_write"
  /\ Store(t, call[t].use, n)
  /\ \/ call[t].op # "starttls" /\ Settle(t, call[t].sock, call[t].use)
     \/ /\ call[t].op = "starttls"
        /\ uses' = [uses EXCEPT ![call[t].sock] = call[t].use]
        /\ Return(t)
  /\ UNCHANGED <<list, objs>>

(* Mutant: accept does not count.                                          *)
IncWriteNotAccept(t) ==
  IncWriteWith(t, IF call[t].op = "accept" THEN tmp[t] ELSE tmp[t] + 1)

IncWrite(t) == IncWriteWith(t, tmp[t] + 1)
-----------------------------------------------------------------------------
(* The calls.  use is the context the script passes as use_ctx, found in   *)
(* the list by the number in its object; 0 if there is none, or one        *)
(* without an SSL_CTX, which is ignored.                                   *)

Ready(t) == pc[t] = "idle"
Passed(t) == {0} \cup (objs[t] \cap linked)

CtxNew(t) ==
  /\ Ready(t)
  /\ \E c \in Ctxs :
       /\ Create(c)
       /\ objs' = [objs EXCEPT ![t] = @ \cup {c}]
  /\ Return(t)
  /\ UNCHANGED uses

(* Mutant: the socket's own context is not given up for the shared one.    *)
ShareInsteadKept(t, op, s, own, use) ==
  Enter(t, "inc", Giving(op, s, 0, use))

(* A shared context takes the place of the socket's own.                   *)
ShareInstead(t, op, s, own, use) ==
  Enter(t, "dec", Giving(op, s, own, use))

(* mod_sc_ssl_create.                                                      *)
New(t, s) ==
  /\ Ready(t) /\ uses[s] = 0 /\ ~InCall(s)
  /\ \E own \in Ctxs, use \in Passed(t) :
       /\ Create(own)
       /\ \/ use = 0 /\ Settle(t, s, own)
          \/ use # 0 /\ UNCHANGED uses /\ ShareInstead(t, "new", s, own, use)
  /\ UNCHANGED objs

(* mod_sc_ssl_accept: the new socket shares the listener's context.        *)
Accept(t, listener, s) ==
  /\ Ready(t) /\ uses[listener] # 0 /\ ~InCall(listener)
  /\ uses[s] = 0 /\ ~InCall(s)
  /\ Enter(t, "inc", [Giving("accept", s, 0, uses[listener])
                        EXCEPT !.on = listener])
  /\ UNCHANGED <<list, refcnt, uses, objs, tmp, miscounted>>

(* mod_sc_ssl_starttls, on a socket without userdata.                      *)
StartTls(t, s) ==
  /\ Ready(t) /\ uses[s] = 0 /\ ~InCall(s)
  /\ \E own \in Ctxs, use \in Passed(t) :
       /\ Create(own)
       /\ \/ /\ use = 0
             /\ uses' = [uses EXCEPT ![s] = own]
             /\ Return(t)
          \/ /\ use # 0
             /\ UNCHANGED uses
             /\ ShareInstead(t, "starttls", s, own, use)
  /\ UNCHANGED objs

(* starttls again, or after one that has failed, with a shared context.    *)
StartTlsAgain(t, s) ==
  /\ Ready(t) /\ uses[s] # 0 /\ ~InCall(s) /\ lock = NoThread
  /\ \E use \in Passed(t) \ {0} :
       ShareInstead(t, "starttls", s, uses[s], use)
  /\ uses' = [uses EXCEPT ![s] = 0]
  /\ UNCHANGED <<list, refcnt, objs, tmp, miscounted>>

(* free_userdata, when a socket is freed.                                  *)
Free(t, s) ==
  /\ Ready(t) /\ uses[s] # 0 /\ ~InCall(s)
  /\ Enter(t, "dec", Giving("free", s, uses[s], 0))
  /\ uses' = [uses EXCEPT ![s] = 0]
  /\ UNCHANGED <<list, refcnt, objs, tmp, miscounted>>

(* CTX_DESTROY.                                                            *)
CtxDestroy(t, c) ==
  /\ Ready(t) /\ c \in objs[t] /\ lock = NoThread
  /\ objs' = [objs EXCEPT ![t] = @ \ {c}]
  /\ IF c \in linked THEN Enter(t, "dec", Giving("destroy", NoSock, c, 0))
     ELSE Return(t)
  /\ UNCHANGED <<list, refcnt, uses, tmp, miscounted>>
-----------------------------------------------------------------------------
(* threads->create copies the objects of the creating thread and then      *)
(* calls CLONE.                                                            *)
Spawn(t, k) ==
  /\ Ready(t) /\ pc[k] = "unborn"
  /\ \A u \in Threads : call[u].kid # k
  /\ objs' = [objs EXCEPT ![k] = objs[t]]
  /\ Enter(t, "clone_lock", [NoCall EXCEPT !.op = "spawn", !.kid = k])
  /\ UNCHANGED <<list, refcnt, uses, tmp, miscounted>>

CloneLock(t) ==
  /\ pc[t] = "clone_lock"
  /\ lock = NoThread
  /\ lock' = t /\ todo' = linked
  /\ Enter(t, "clone", call[t])
  /\ UNCHANGED <<counter, linked, extra, refcnt, uses, objs, tmp, miscounted>>

CloneRead(t) ==
  /\ pc[t] = "clone"
  /\ \E c \in todo :
       /\ tmp' = [tmp EXCEPT ![t] = refcnt[c]]
       /\ Enter(t, "clone_write", [call[t] EXCEPT !.use = c])
  /\ UNCHANGED <<list, refcnt, uses, objs, miscounted>>

CloneWriteOf(t, n) ==
  /\ pc[t] = "clone_write"
  /\ LET c == call[t].use
     IN /\ Store(t, c, n)
        /\ todo' = todo \ {c}
        /\ extra' = IF c \in objs[call[t].kid] THEN extra
                    ELSE [extra EXCEPT ![c] = @ + 1]
  /\ Enter(t, "clone", [call[t] EXCEPT !.use = 0])
  /\ UNCHANGED <<counter, linked, lock, uses, objs>>

(* Mutant: contexts are not counted again for the second copy.             *)
CloneWriteOnce(t) == CloneWriteOf(t, IF tmp[t] > 1 THEN tmp[t] ELSE tmp[t] + 1)

CloneWrite(t) == CloneWriteOf(t, tmp[t] + 1)

CloneDone(t) ==
  /\ pc[t] = "clone" /\ todo = {}
  /\ lock' = NoThread
  /\ pc' = [pc EXCEPT ![t] = "idle", ![call[t].kid] = "idle"]
  /\ call' = [call EXCEPT ![t] = NoCall]
  /\ UNCHANGED <<counter, linked, extra, todo, refcnt, uses, objs, tmp,
                 miscounted>>

Step(t) ==
  \/ DecRead(t) \/ DecWrite(t) \/ Remove(t) \/ IncRead(t) \/ IncWrite(t)
  \/ CloneLock(t) \/ CloneRead(t) \/ CloneWrite(t) \/ CloneDone(t)

Next ==
  \E t \in Threads :
    \/ Step(t) \/ CtxNew(t)
    \/ \E s \in Socks :
         \/ New(t, s) \/ StartTls(t, s) \/ StartTlsAgain(t, s) \/ Free(t, s)
         \/ \E listener \in Socks : Accept(t, listener, s)
    \/ \E c \in Ctxs : CtxDestroy(t, c)
    \/ \E k \in Threads : Spawn(t, k)

Spec == Init /\ [][Next]_vars
-----------------------------------------------------------------------------
Calling == {"dec", "dec_write", "remove", "inc", "inc_write"}
Copying == {"clone_lock", "clone", "clone_write"}

Calls ==
  [op : {"none", "new", "accept", "starttls", "free", "destroy", "spawn"},
   sock : Socks \cup {NoSock}, on : Socks \cup {NoSock},
   own : 0 .. MaxCtx, use : 0 .. MaxCtx, kid : Threads \cup {NoThread}]

TypeOK ==
  /\ counter \in 0 .. MaxCtx /\ linked \subseteq 1 .. counter
  /\ refcnt \in [Ctxs -> Int] /\ extra \in [Ctxs -> Nat]
  /\ lock \in Threads \cup {NoThread} /\ todo \subseteq linked
  /\ uses \in [Socks -> 0 .. counter]
  /\ objs \in [Threads -> SUBSET (1 .. counter)]
  /\ pc \in [Threads -> {"unborn", "idle"} \cup Calling \cup Copying]
  /\ call \in [Threads -> Calls]
  /\ \A t \in Threads : call[t].own <= counter /\ call[t].use <= counter
  /\ tmp \in [Threads -> Int]
  /\ miscounted \in BOOLEAN

(* CLONE has yet to count the copy of c that k gets.                       *)
Uncounted(k, c) ==
  \E t \in Threads :
    /\ call[t].kid = k
    /\ pc[t] = "clone_lock" \/ c \in todo

(* The users of c: the threads that have a CTX object of it, the sockets,  *)
(* and the calls that are about to take a count away.                      *)
Holders(c) == {t \in Threads : c \in objs[t] /\ ~Uncounted(t, c)}
Sharers(c) == {s \in Socks : uses[s] = c}
Givers(c) ==
  {t \in Threads : pc[t] \in {"dec", "dec_write"} /\ call[t].own = c}

(* The contexts a call works on.                                           *)
Involved(t) == {call[t].own, call[t].use} \ {0}

(* A count is the number of users and of the threads CLONE has counted     *)
(* without an object to give the count back, whatever create, use_ctx,     *)
(* accept, starttls, their failures, threads and destructors do in what    *)
(* order and however they overlap, until a stale count is stored.          *)
CountExact ==
  ~miscounted =>
    \A c \in linked :
      refcnt[c] = Cardinality(Holders(c)) + Cardinality(Sharers(c))
                    + Cardinality(Givers(c)) + extra[c]

(* A context is not freed while a socket or an object uses it or a call    *)
(* works on it, though calls look it up under the mutex and go on without; *)
(* until a stale count is stored.                                          *)
LiveWhileUsed ==
  ~miscounted =>
    /\ \A s \in Socks : uses[s] # 0 => uses[s] \in linked
    /\ \A t \in Threads : objs[t] \subseteq linked
    /\ \A t \in Threads : Involved(t) \subseteq linked

(* A context without users is freed, or about to be, unless CLONE has      *)
(* counted it for a thread that got no object of it; until a stale count   *)
(* is stored.                                                              *)
FreedWhenUnused ==
  ~miscounted =>
    \A c \in linked :
      Holders(c) = {} /\ Sharers(c) = {} /\ Givers(c) = {} /\ extra[c] = 0
        => \E t \in Threads : pc[t] = "remove" /\ call[t].own = c
=============================================================================
