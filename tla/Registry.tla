------------------------------ MODULE Registry ------------------------------
(***************************************************************************)
(* The registry of sockets that every Perl interpreter of the process      *)
(* shares (sc_global in socket_class.h), and the calls that enter it.      *)
(*                                                                         *)
(* A socket_class_t is a block of the C heap.  A Perl object holds only    *)
(* the number sc->id (its "_sc_" slot): each call first searches the       *)
(* cascade of chains for that number, under the one mutex, and then works  *)
(* on the pointer it found WITHOUT the mutex.  A new Perl thread starts    *)
(* with a copy of every object of its parent, and CLONE counts the copies. *)
(*                                                                         *)
(* A chain is modelled as the set of its blocks: a search is by number and *)
(* an unlink by address, so the order of a chain is never observed.        *)
(***************************************************************************)
EXTENDS Integers, FiniteSets

CONSTANTS
  Threads,      \* the Perl threads, running or not yet created
  Main,         \* the one that loaded the module, and runs END
  Blocks,       \* addresses the allocator hands out for a socket_class_t
  NoThread,     \* "the mutex is free"
  NoBlock,      \* the NULL pointer
  Buckets,      \* number of chains, SC_CASCADE + 1
  MaxLoad       \* bound on threads and sockets ever created, together

ASSUME ConstantsAssumption ==
  /\ Main \in Threads
  /\ NoThread \notin Threads
  /\ NoBlock \notin Blocks
  /\ Buckets \in Nat \ {0}
  /\ MaxLoad \in Nat

ASSUME ThreadsFinite == IsFiniteSet(Threads)

VARIABLES
  counter,    \* sc_global.counter: the number given last
  chain,      \* sc_global.socket[i]: the blocks linked in chain i
  destroyed,  \* sc_global.destroyed
  lock,       \* the thread that holds sc_global.thread_lock
  mutexUp,    \* the mutex is initialised and not yet destroyed
  heap,       \* the blocks that are allocated
  sid,        \* sc->id of a block; a freed block keeps its last contents
  refcnt,     \* sc->refcnt
  owner,      \* sc->thread_id
  doClone,    \* sc->do_clone
  handles,    \* per interpreter, the numbers its live Perl objects hold
  pc,         \* where a thread is
  op,         \* the method that searches: "use", "free" or "DESTROY"
  hnd,        \* the number the current call works on, 0 outside a call
  ptr,        \* the sc pointer of the current call
  tmp,        \* the register of a refcnt read-modify-write
  todo,       \* CLONE: linked blocks it has still to visit
  kid,        \* CLONE: the thread being created
  fault,      \* freed memory was touched or freed, or a dead mutex locked
  raced,      \* history: a socket was removed under another thread's call
  miscounted, \* history: a reference was counted wrong
  freed       \* history: the numbers free() found a socket for

shared == <<counter, chain, destroyed, lock, mutexUp>>
blocks == <<heap, sid, refcnt, owner, doClone>>
locals == <<pc, op, hnd, ptr, tmp, todo, kid>>
history == <<raced, miscounted, freed>>
vars == <<shared, blocks, handles, locals, fault, history>>

BucketIndex == 0 .. Buckets - 1
Chained == UNION {chain[i] : i \in BucketIndex}
Registered == {sid[b] : b \in Chained}

Resting == {"unborn", "idle", "done"}
InAdd == {"new_add", "new_insert"}
InClone == {"clone_lock", "clone_pick", "clone_write"}
InEnd == {"end_lock", "end_free"}

(* A call that works on a pointer to a registered socket.                  *)
Acting == {"new_bless", "use", "drop", "dec_read", "dec_write", "dec_test",
           "rem_lock", "rem_unlink"}
(* The thread is between GLOBAL_LOCK and GLOBAL_UNLOCK.                    *)
Critical == {"new_insert", "find_walk", "rem_unlink", "clone_pick",
             "clone_write", "end_free"}

PcValues == Resting \cup InAdd \cup InClone \cup InEnd \cup Acting
              \cup {"find_lock", "find_walk", "rem_free"}
Ops == {"use", "free", "DESTROY"}
-----------------------------------------------------------------------------
Init ==
  /\ counter = 0
  /\ chain = [i \in BucketIndex |-> {}]
  /\ destroyed = FALSE
  /\ lock = NoThread
  /\ mutexUp = TRUE
  /\ heap = {}
  /\ sid = [b \in Blocks |-> 0]
  /\ refcnt = [b \in Blocks |-> 0]
  /\ owner = [b \in Blocks |-> NoThread]
  /\ doClone = [b \in Blocks |-> FALSE]
  /\ handles = [t \in Threads |-> {}]
  /\ pc = [t \in Threads |-> IF t = Main THEN "idle" ELSE "unborn"]
  /\ op = [t \in Threads |-> "use"]
  /\ hnd = [t \in Threads |-> 0]
  /\ ptr = [t \in Threads |-> NoBlock]
  /\ tmp = [t \in Threads |-> 0]
  /\ todo = [t \in Threads |-> {}]
  /\ kid = [t \in Threads |-> Main]
  /\ fault = FALSE
  /\ raced = FALSE
  /\ miscounted = FALSE
  /\ freed = {}

Goto(t, l) == pc' = [pc EXCEPT ![t] = l]

(* The call returns to Perl.                                               *)
Return(t) ==
  /\ Goto(t, "idle")
  /\ op' = [op EXCEPT ![t] = "use"]
  /\ hnd' = [hnd EXCEPT ![t] = 0]
  /\ ptr' = [ptr EXCEPT ![t] = NoBlock]
  /\ tmp' = [tmp EXCEPT ![t] = 0]

(* Reading or writing a field of *ptr.  In C the access of a freed block   *)
(* has no meaning: it is recorded, and the behaviour goes on with whatever *)
(* the block holds (the crash is the behaviour that stops here).           *)
Access(t) == fault' = (fault \/ ptr[t] \notin heap)

Acquire(t, l) ==
  /\ lock = NoThread
  /\ lock' = t
  /\ Goto(t, l)

Release == lock' = NoThread

Load ==
  counter + Cardinality({u \in Threads : pc[u] \in InAdd \cup InClone})
          + Cardinality({u \in Threads : pc[u] # "unborn"})

(* Nothing in the code keeps two threads from working on one socket, or    *)
(* END from running beside them; what scripts do is not restricted here.   *)
(* Instead two history variables record the two things that go wrong for   *)
(* want of it.  "raced": a socket is unlinked while a call of another      *)
(* thread works on its pointer, or END destroys the mutex while a call     *)
(* that needs it is under way or before one begins.                        *)
Beside(t, b) == {u \in Threads \ {t} : pc[u] \in Acting /\ ptr[u] = b}
InCalls(t) == {u \in Threads \ {t} : pc[u] \notin Resting \cup {"rem_free"}}
Race(happens) == raced' = (raced \/ happens)

(* "miscounted": a new refcnt is stored over one that another thread has   *)
(* changed since it was loaded, or CLONE counts a socket of which perl     *)
(* copies no object for the new thread, or does not count one of which it  *)
(* does.                                                                   *)
Miscount(happens) == miscounted' = (miscounted \/ happens)
LostUpdate(t) == refcnt[ptr[t]] # tmp[t]
CountsWrong(t, b) == doClone[b] # (sid[b] \in handles[kid[t]])
-----------------------------------------------------------------------------
(* Socket::Class->new, and accept once its listener is found: create the   *)
(* block, register it, wrap its number in an object.                       *)

(* Newxz in mod_sc_create or mod_sc_accept.                                *)
NewAlloc(t) ==
  /\ pc[t] = "idle"
  /\ Load < MaxLoad
  /\ \E b \in Blocks \ heap :
       /\ heap' = heap \cup {b}
       /\ sid' = [sid EXCEPT ![b] = 0]
       /\ refcnt' = [refcnt EXCEPT ![b] = 0]
       /\ owner' = [owner EXCEPT ![b] = NoThread]
       /\ doClone' = [doClone EXCEPT ![b] = FALSE]
       /\ ptr' = [ptr EXCEPT ![t] = b]
  /\ Goto(t, "new_add")
  /\ Race(~mutexUp)
  /\ UNCHANGED <<shared, handles, op, hnd, tmp, todo, kid, fault, miscounted,
                 freed>>

(* Mutant: the error labels do not free the block.                         *)
NewFailKept(t) ==
  /\ pc[t] = "new_add"
  /\ Return(t)
  /\ UNCHANGED <<shared, blocks, handles, todo, kid, fault, history>>

(* The error labels of mod_sc_create: Safefree before registration.        *)
NewFail(t) ==
  /\ pc[t] = "new_add"
  /\ heap' = heap \ {ptr[t]}
  /\ Return(t)
  /\ UNCHANGED <<shared, sid, refcnt, owner, doClone, handles, todo, kid,
                 fault, history>>

NewLock(t) ==
  /\ pc[t] = "new_add"
  /\ Acquire(t, "new_insert")
  /\ fault' = (fault \/ ~mutexUp)
  /\ UNCHANGED <<counter, chain, destroyed, mutexUp, blocks, handles,
                 op, hnd, ptr, tmp, todo, kid, history>>

(* socket_class_add between GLOBAL_LOCK and GLOBAL_UNLOCK.                 *)
Register(t, id, i) ==
  /\ pc[t] = "new_insert"
  /\ counter' = id
  /\ sid' = [sid EXCEPT ![ptr[t]] = id]
  /\ refcnt' = [refcnt EXCEPT ![ptr[t]] = 1]
  /\ owner' = [owner EXCEPT ![ptr[t]] = t]
  /\ doClone' = [doClone EXCEPT ![ptr[t]] = TRUE]
  /\ chain' = [chain EXCEPT ![i] = @ \cup {ptr[t]}]
  /\ hnd' = [hnd EXCEPT ![t] = id]
  /\ Access(t)
  /\ Release
  /\ Goto(t, "new_bless")
  /\ UNCHANGED <<destroyed, mutexUp, heap, handles, op, ptr, tmp, todo, kid,
                 history>>

(* Mutants: count downwards; chain by the number before.                   *)
NewInsertDown(t) == Register(t, counter - 1, (counter + 1) % Buckets)
NewInsertWrongChain(t) == Register(t, counter + 1, counter % Buckets)

NewInsert(t) == Register(t, counter + 1, (counter + 1) % Buckets)

(* mod_sc_create_class reads sc->id, unlocked, into the new object.        *)
NewBless(t) ==
  /\ pc[t] = "new_bless"
  /\ handles' = [handles EXCEPT ![t] = @ \cup {sid[ptr[t]]}]
  /\ Access(t)
  /\ Return(t)
  /\ UNCHANGED <<shared, blocks, todo, kid, history>>

(* mod_sc_create_class finds no such package: mod_sc_destroy.              *)
NewReject(t) ==
  /\ pc[t] = "new_bless"
  /\ Access(t)
  /\ Goto(t, "rem_lock")
  /\ UNCHANGED <<shared, blocks, handles, op, hnd, ptr, tmp, todo, kid,
                 history>>
-----------------------------------------------------------------------------
(* Every other method starts with socket_class_find( this ).  DESTROY is   *)
(* called by Perl when the last reference to the object of this            *)
(* interpreter goes away: no later call of the interpreter can name it.    *)

HandlesAfter(t, m, h) ==
  IF m = "DESTROY" THEN [handles EXCEPT ![t] = @ \ {h}] ELSE handles

(* sc_global.destroyed is read before, and without, the mutex.             *)
FindRefused(t, m, h) ==
  /\ pc[t] = "idle"
  /\ h \in handles[t]
  /\ destroyed
  /\ handles' = HandlesAfter(t, m, h)
  /\ UNCHANGED <<shared, blocks, locals, fault, history>>

FindEnter(t, m, h) ==
  /\ pc[t] = "idle"
  /\ h \in handles[t]
  /\ ~destroyed
  /\ handles' = HandlesAfter(t, m, h)
  /\ op' = [op EXCEPT ![t] = m]
  /\ hnd' = [hnd EXCEPT ![t] = h]
  /\ Goto(t, "find_lock")
  /\ UNCHANGED <<shared, blocks, ptr, tmp, todo, kid, fault, history>>

FindLock(t) ==
  /\ pc[t] = "find_lock"
  /\ Acquire(t, "find_walk")
  /\ fault' = (fault \/ ~mutexUp)
  /\ UNCHANGED <<counter, chain, destroyed, mutexUp, blocks, handles,
                 op, hnd, ptr, tmp, todo, kid, history>>

(* Mutant: the walk does not compare numbers.                              *)
MatchesAny(h) == chain[h % Buckets]

Matches(h) == {b \in chain[h % Buckets] : sid[b] = h}

(* Mutant: an early return that leaves the mutex locked.                   *)
FindMissLocked(t) ==
  /\ pc[t] = "find_walk"
  /\ Matches(hnd[t]) = {}
  /\ Return(t)
  /\ UNCHANGED <<shared, blocks, handles, todo, kid, fault, history>>

FindMiss(t) ==
  /\ pc[t] = "find_walk"
  /\ Matches(hnd[t]) = {}
  /\ Release
  /\ Return(t)
  /\ UNCHANGED <<counter, chain, destroyed, mutexUp, blocks, handles, todo,
                 kid, fault, history>>

AfterFind(m) ==
  CASE m = "use" -> "use" [] m = "free" -> "rem_lock" [] OTHER -> "drop"

FindHit(t) ==
  /\ pc[t] = "find_walk"
  /\ \E b \in Matches(hnd[t]) : ptr' = [ptr EXCEPT ![t] = b]
  /\ Release
  /\ Goto(t, AfterFind(op[t]))
  /\ freed' = freed \cup (IF op[t] = "free" THEN {hnd[t]} ELSE {})
  /\ UNCHANGED <<counter, chain, destroyed, mutexUp, blocks, handles, op,
                 hnd, tmp, todo, kid, fault, raced, miscounted>>

(* The body of any method but free and DESTROY works on *sc, unlocked.     *)
UseSocket(t) ==
  /\ pc[t] = "use"
  /\ Access(t)
  /\ Return(t)
  /\ UNCHANGED <<shared, blocks, handles, todo, kid, history>>
-----------------------------------------------------------------------------
(* DESTROY: the creator's last reference ends the counting of clones; then *)
(* mod_sc_refcnt_dec, whose decrement is a plain load and store.           *)

DropFlag(t) ==
  /\ pc[t] = "drop"
  /\ doClone' = [doClone EXCEPT ![ptr[t]] = @ /\ owner[ptr[t]] # t]
  /\ Access(t)
  /\ Goto(t, "dec_read")
  /\ UNCHANGED <<shared, heap, sid, refcnt, owner, handles, op, hnd, ptr,
                 tmp, todo, kid, history>>

DecRead(t) ==
  /\ pc[t] = "dec_read"
  /\ tmp' = [tmp EXCEPT ![t] = refcnt[ptr[t]]]
  /\ Access(t)
  /\ Goto(t, "dec_write")
  /\ UNCHANGED <<shared, blocks, handles, op, hnd, ptr, todo, kid, history>>

DecWrite(t) ==
  /\ pc[t] = "dec_write"
  /\ refcnt' = [refcnt EXCEPT ![ptr[t]] = tmp[t] - 1]
  /\ Access(t)
  /\ Goto(t, "dec_test")
  /\ Miscount(LostUpdate(t))
  /\ UNCHANGED <<shared, heap, sid, owner, doClone, handles, op, hnd, ptr,
                 tmp, todo, kid, raced, freed>>

(* Mutants: "refcnt -- <= 0" tests the value before the decrement; the     *)
(* last reference but one frees.                                           *)
TestedBefore(t) == {tmp[t]}
TestedEarly(t) == {tmp[t] - 2}

(* "refcnt <= 0" tests the value just written or the field read again:     *)
(* the compiler may do either.                                             *)
Tested(t) == {tmp[t] - 1, refcnt[ptr[t]]}

DecKeep(t) ==
  /\ pc[t] = "dec_test"
  /\ \E v \in Tested(t) : v > 0
  /\ Access(t)
  /\ Return(t)
  /\ UNCHANGED <<shared, blocks, handles, todo, kid, history>>

DecLast(t) ==
  /\ pc[t] = "dec_test"
  /\ \E v \in Tested(t) : v <= 0
  /\ Access(t)
  /\ Goto(t, "rem_lock")
  /\ UNCHANGED <<shared, blocks, handles, op, hnd, ptr, tmp, todo, kid,
                 history>>
-----------------------------------------------------------------------------
(* socket_class_rem: unlink by address under the mutex, free after it.     *)

RemLock(t) ==
  /\ pc[t] = "rem_lock"
  /\ Acquire(t, "rem_unlink")
  /\ fault' = (fault \/ ptr[t] \notin heap \/ ~mutexUp)
  /\ UNCHANGED <<counter, chain, destroyed, mutexUp, blocks, handles,
                 op, hnd, ptr, tmp, todo, kid, history>>

(* Mutant: the block is freed while it stays linked.                       *)
RemUnlinkNot(t) ==
  /\ pc[t] = "rem_unlink"
  /\ Release
  /\ Goto(t, "rem_free")
  /\ Race(Beside(t, ptr[t]) # {})
  /\ UNCHANGED <<counter, chain, destroyed, mutexUp, blocks, handles, op, hnd,
                 ptr, tmp, todo, kid, fault, miscounted, freed>>

(* Mutant: the mutex is not released.                                      *)
RemUnlinkLocked(t) ==
  /\ pc[t] = "rem_unlink"
  /\ chain' = [chain EXCEPT ![sid[ptr[t]] % Buckets] = @ \ {ptr[t]}]
  /\ Goto(t, "rem_free")
  /\ Race(Beside(t, ptr[t]) # {})
  /\ UNCHANGED <<counter, destroyed, lock, mutexUp, blocks, handles, op, hnd,
                 ptr, tmp, todo, kid, fault, miscounted, freed>>

RemUnlink(t) ==
  /\ pc[t] = "rem_unlink"
  /\ chain' = [chain EXCEPT ![sid[ptr[t]] % Buckets] = @ \ {ptr[t]}]
  /\ Release
  /\ Goto(t, "rem_free")
  /\ Race(Beside(t, ptr[t]) # {})
  /\ UNCHANGED <<counter, destroyed, mutexUp, blocks, handles, op, hnd, ptr,
                 tmp, todo, kid, fault, miscounted, freed>>

(* socket_class_free.                                                      *)
RemFree(t) ==
  /\ pc[t] = "rem_free"
  /\ heap' = heap \ {ptr[t]}
  /\ Access(t)
  /\ Return(t)
  /\ UNCHANGED <<shared, sid, refcnt, owner, doClone, handles, todo, kid,
                 history>>
-----------------------------------------------------------------------------
(* threads->create: perl copies the objects of the interpreter and calls   *)
(* CLONE, all in the creating thread; then the new thread runs.            *)

Spawn(t, c) ==
  /\ pc[t] = "idle"
  /\ pc[c] = "unborn"
  /\ \A u \in Threads : pc[u] \in InClone => kid[u] # c
  /\ Load < MaxLoad
  /\ handles' = [handles EXCEPT ![c] = handles[t]]
  /\ kid' = [kid EXCEPT ![t] = c]
  /\ Goto(t, "clone_lock")
  /\ Race(~mutexUp)
  /\ UNCHANGED <<shared, blocks, op, hnd, ptr, tmp, todo, fault, miscounted,
                 freed>>

CloneLock(t) ==
  /\ pc[t] = "clone_lock"
  /\ Acquire(t, "clone_pick")
  /\ todo' = [todo EXCEPT ![t] = Chained]
  /\ fault' = (fault \/ ~mutexUp)
  /\ UNCHANGED <<counter, chain, destroyed, mutexUp, blocks, handles,
                 op, hnd, ptr, tmp, kid, history>>

(* The next socket of the walk; "if( sc->do_clone ) sc->refcnt ++" is a    *)
(* test, a load and a store like the decrement of DESTROY.                 *)
ClonePick(t) ==
  /\ pc[t] = "clone_pick"
  /\ \E b \in todo[t] :
       /\ doClone[b]
       /\ ptr' = [ptr EXCEPT ![t] = b]
       /\ tmp' = [tmp EXCEPT ![t] = refcnt[b]]
       /\ todo' = [todo EXCEPT ![t] = @ \ {b}]
       /\ fault' = (fault \/ b \notin heap)
       /\ Miscount(CountsWrong(t, b))
  /\ Goto(t, "clone_write")
  /\ UNCHANGED <<shared, blocks, handles, op, hnd, kid, raced, freed>>

CloneSkip(t) ==
  /\ pc[t] = "clone_pick"
  /\ \E b \in todo[t] :
       /\ ~doClone[b]
       /\ todo' = [todo EXCEPT ![t] = @ \ {b}]
       /\ fault' = (fault \/ b \notin heap)
       /\ Miscount(CountsWrong(t, b))
  /\ UNCHANGED <<shared, blocks, handles, pc, op, hnd, ptr, tmp, kid, raced,
                 freed>>

(* Mutant: the increment is missing.                                       *)
CloneWriteSame(t) ==
  /\ pc[t] = "clone_write"
  /\ Access(t)
  /\ Goto(t, "clone_pick")
  /\ Miscount(LostUpdate(t))
  /\ UNCHANGED <<shared, blocks, handles, op, hnd, ptr, tmp, todo, kid, raced,
                 freed>>

CloneWrite(t) ==
  /\ pc[t] = "clone_write"
  /\ refcnt' = [refcnt EXCEPT ![ptr[t]] = tmp[t] + 1]
  /\ Access(t)
  /\ Goto(t, "clone_pick")
  /\ Miscount(LostUpdate(t))
  /\ UNCHANGED <<shared, heap, sid, owner, doClone, handles, op, hnd, ptr,
                 tmp, todo, kid, raced, freed>>

CloneDone(t) ==
  /\ pc[t] = "clone_pick"
  /\ todo[t] = {}
  /\ Release
  /\ pc' = [pc EXCEPT ![t] = "idle", ![kid[t]] = "idle"]
  /\ ptr' = [ptr EXCEPT ![t] = NoBlock]
  /\ tmp' = [tmp EXCEPT ![t] = 0]
  /\ kid' = [kid EXCEPT ![t] = Main]
  /\ UNCHANGED <<counter, chain, destroyed, mutexUp, blocks, handles, op,
                 hnd, todo, fault, history>>

(* The interpreter of a finished thread is gone when DESTROY has been      *)
(* called for each of its objects.                                         *)
Exit(t) ==
  /\ t # Main
  /\ pc[t] = "idle"
  /\ handles[t] = {}
  /\ Goto(t, "done")
  /\ UNCHANGED <<shared, blocks, handles, op, hnd, ptr, tmp, todo, kid,
                 fault, history>>
-----------------------------------------------------------------------------
(* END, which perl runs once, in the main interpreter.                     *)

EndEnter ==
  /\ pc[Main] = "idle"
  /\ ~destroyed
  /\ destroyed' = TRUE
  /\ Goto(Main, "end_lock")
  /\ UNCHANGED <<counter, chain, lock, mutexUp, blocks, handles, op, hnd,
                 ptr, tmp, todo, kid, fault, history>>

EndLock ==
  /\ pc[Main] = "end_lock"
  /\ Acquire(Main, "end_free")
  /\ UNCHANGED <<counter, chain, destroyed, mutexUp, blocks, handles, op,
                 hnd, ptr, tmp, todo, kid, fault, history>>

EndFree ==
  /\ pc[Main] = "end_free"
  /\ fault' = (fault \/ ~(Chained \subseteq heap))
  /\ heap' = heap \ Chained
  /\ chain' = [i \in BucketIndex |-> {}]
  /\ Release
  /\ mutexUp' = FALSE
  /\ Goto(Main, "idle")
  /\ Race(InCalls(Main) # {})
  /\ UNCHANGED <<counter, destroyed, sid, refcnt, owner, doClone, handles,
                 op, hnd, ptr, tmp, todo, kid, miscounted, freed>>
-----------------------------------------------------------------------------
(* A step of a call that has begun.                                        *)
Continue(t) ==
  \/ NewFail(t) \/ NewLock(t) \/ NewInsert(t) \/ NewBless(t) \/ NewReject(t)
  \/ FindLock(t) \/ FindMiss(t) \/ FindHit(t) \/ UseSocket(t)
  \/ DropFlag(t) \/ DecRead(t) \/ DecWrite(t) \/ DecKeep(t) \/ DecLast(t)
  \/ RemLock(t) \/ RemUnlink(t) \/ RemFree(t)
  \/ CloneLock(t) \/ ClonePick(t) \/ CloneSkip(t) \/ CloneWrite(t)
  \/ CloneDone(t)

(* A call begins.                                                          *)
Begin(t) ==
  \/ NewAlloc(t)
  \/ \E m \in Ops : \E h \in handles[t] :
       FindRefused(t, m, h) \/ FindEnter(t, m, h)
  \/ \E c \in Threads : Spawn(t, c)
  \/ Exit(t)

End == EndEnter \/ EndLock \/ EndFree

Next == End \/ \E t \in Threads : Begin(t) \/ Continue(t)

(* The operating system runs every thread that can take a step; scripts    *)
(* need not call anything, and END is left to them too, but once begun it  *)
(* goes on.                                                                *)
Fairness ==
  /\ \A t \in Threads : WF_vars(Continue(t))
  /\ WF_vars(EndLock \/ EndFree)

Spec == Init /\ [][Next]_vars
FairSpec == Spec /\ Fairness
-----------------------------------------------------------------------------
TypeOK ==
  /\ counter \in Nat
  /\ chain \in [BucketIndex -> SUBSET Blocks]
  /\ destroyed \in BOOLEAN
  /\ lock \in Threads \cup {NoThread}
  /\ mutexUp \in BOOLEAN
  /\ heap \in SUBSET Blocks
  /\ sid \in [Blocks -> Nat]
  /\ refcnt \in [Blocks -> Int]
  /\ owner \in [Blocks -> Threads \cup {NoThread}]
  /\ doClone \in [Blocks -> BOOLEAN]
  /\ handles \in [Threads -> SUBSET Nat]
  /\ pc \in [Threads -> PcValues]
  /\ op \in [Threads -> Ops]
  /\ hnd \in [Threads -> Nat]
  /\ ptr \in [Threads -> Blocks \cup {NoBlock}]
  /\ tmp \in [Threads -> Int]
  /\ todo \in [Threads -> SUBSET Blocks]
  /\ kid \in [Threads -> Threads]
  /\ {fault, raced, miscounted} \subseteq BOOLEAN
  /\ freed \in SUBSET Nat
-----------------------------------------------------------------------------
(* A thread reads, writes or frees a block that is not allocated, or locks *)
(* the mutex END destroyed, only after a socket has been removed beside    *)
(* another thread's call, or END has run beside one: sc pointers are used  *)
(* after GLOBAL_UNLOCK in every method and freed outside it, but neither   *)
(* wrong counts, nor numbers and blocks that are used again, nor walks of  *)
(* CLONE are ever the first cause.                                         *)
NoFault == ~raced => ~fault

(* What the threaded example of Class.pod relies on: the DESTROY of one    *)
(* thread's object, found under the mutex, still works on an allocated     *)
(* block when the thread that shares the socket calls free() meanwhile.    *)
NoUseAfterFree ==
  ~destroyed =>
    \A t \in Threads :
      op[t] = "DESTROY" /\ pc[t] \in Acting => ptr[t] \in heap

(* Until such a race, every linked block is allocated, is in the chain its *)
(* number selects, and has a number that was given out and that no other   *)
(* linked block has (socket_class_add, socket_class_rem).                  *)
ChainsSound ==
  ~raced =>
    /\ Chained \subseteq heap
    /\ \A i \in BucketIndex : \A b \in chain[i] :
         /\ sid[b] \in 1 .. counter
         /\ sid[b] % Buckets = i
    /\ \A b, c \in Chained : sid[b] = sid[c] => b = c

(* Until such a race, a call works from socket_class_find on, on the       *)
(* socket its object names, still registered, even when other calls had    *)
(* freed a socket and its block was handed out again while it waited for   *)
(* the mutex.                                                              *)
CallOnItsSocket ==
  ~raced =>
    \A t \in Threads :
      pc[t] \in Acting => ptr[t] \in Chained /\ sid[ptr[t]] = hnd[t]

(* Until such a race, every allocated block is either linked or in the     *)
(* hands of exactly one thread, which is about to link or to free it:      *)
(* nothing is lost or freed twice (socket_class_add, socket_class_rem).    *)
BlocksAccounted ==
  ~raced =>
    \A b \in heap :
      LET hands == {t \in Threads : /\ pc[t] \in InAdd \cup {"rem_free"}
                                   /\ ptr[t] = b}
      IN Cardinality(hands) = (IF b \in Chained THEN 0 ELSE 1)

(* A number that has been given out is never registered again: the object  *)
(* of a freed socket stays dead, whatever address a new socket gets.       *)
NeverRevived == [][(Registered' \ Registered) \cap 1 .. counter = {}]_vars

(* While a call is under way some thread can take a step of a call: no     *)
(* path returns with the mutex held or waits for itself.                   *)
SomeCallCanStep ==
  (\E t \in Threads : pc[t] \notin Resting) =>
    ENABLED (EndLock \/ EndFree \/ \E t \in Threads : Continue(t))

(* The mutex, whoever takes it, is given back: from every state on there   *)
(* comes one in which it is free.                                          *)
MutexReleased == []<>(lock = NoThread)

Quiet == \A t \in Threads : pc[t] \in Resting
Holders(h) == {t \in Threads : h \in handles[t]}
Exact == ~raced /\ ~miscounted

(* Until a race or a miscount, the reference count of a socket is, between *)
(* calls, the number of interpreters that have an object of it, however    *)
(* the calls of several threads overlapped before: the unlocked counting   *)
(* of DESTROY and CLONE goes wrong in no other way.                        *)
RefcntExact ==
  Exact /\ Quiet =>
    \A b \in Chained : refcnt[b] = Cardinality(Holders(sid[b]))

(* Until then a socket that no interpreter has an object of any more is    *)
(* freed, also when two DESTROYs overlap and only one of them sees zero.   *)
NoLeak == Exact /\ Quiet => \A h \in Registered : Holders(h) # {}

(* CLONE and DESTROY leave no socket behind, as Class.pod says: undefining *)
(* all reference variables frees the socket, whoever created threads.      *)
NeverLeaks ==
  ~destroyed /\ Quiet => \A h \in Registered : Holders(h) # {}

(* Until then a socket lives as long as an interpreter has an object of    *)
(* it, unless somebody calls free(): no DESTROY of another takes it away.  *)
ObjectKeepsSocket ==
  Exact /\ mutexUp =>
    \A t \in Threads : handles[t] \subseteq Registered \cup freed
-----------------------------------------------------------------------------
(* Until such a race the registry implements HandleTable: a search that    *)
(* ends with the mutex released still means what it meant when the call at *)
(* last uses the pointer, and sockets are retired by one call each.        *)
Searching == {"find_lock", "find_walk"}

Table == INSTANCE HandleTable WITH
  last <- counter,
  live <- Registered,
  closed <- ~mutexUp,
  want <- [t \in Threads |-> IF pc[t] \in Searching THEN hnd[t] ELSE 0],
  held <- [t \in Threads |-> IF pc[t] \in Acting THEN sid[ptr[t]] ELSE 0],
  broken <- raced

ImplementsTable == Table!Spec
=============================================================================
