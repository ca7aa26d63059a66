-------------------------- MODULE Registry_proofs --------------------------
(***************************************************************************)
(* Proofs about Registry for any number of threads, blocks, chains and     *)
(* sockets, and for whatever calls of the threads overlap.  First type     *)
(* correctness; then the safety theorems, and that the registry implements *)
(* HandleTable, up to the first race (raced); then the reference counts,   *)
(* up to the first race or miscount; last what no race disturbs.           *)
(***************************************************************************)
EXTENDS Registry, TLAPS, FiniteSetTheorems

(* The chain a number selects exists.                                      *)
LEMMA BucketOfNumber ==
  ASSUME NEW n \in Nat PROVE n % Buckets \in BucketIndex
BY ConstantsAssumption, SMT DEF BucketIndex

(* A thread that dereferences its sc pointer has one: TypeOK alone does    *)
(* not say so, and sc->id of NULL has no type.                             *)
Pointing == Acting \cup InAdd \cup {"rem_free", "clone_write"}
PointerOK == \A t \in Threads : pc[t] \in Pointing => ptr[t] \in Blocks

USE DEF Goto, Return, Access, Acquire, Release, Race, Miscount,
        shared, blocks, locals, history, vars

(* Every step keeps every variable in its range.                           *)
LEMMA TypeInductive ==
  TypeOK /\ PointerOK /\ [Next]_vars => TypeOK' /\ PointerOK'
<1> SUFFICES ASSUME TypeOK, PointerOK, [Next]_vars
             PROVE  TypeOK' /\ PointerOK'
  OBVIOUS
<1> USE ConstantsAssumption DEF TypeOK, PointerOK, Pointing, PcValues,
        Resting, InAdd, InClone, InEnd, Acting, Ops
<1>1. CASE UNCHANGED vars
  BY <1>1
<1>2. CASE End
  <2>1. CASE EndEnter
    BY <2>1 DEF EndEnter
  <2>2. CASE EndLock
    BY <2>2 DEF EndLock
  <2>3. CASE EndFree
    BY <2>3 DEF EndFree
  <2>4. QED
    BY <1>2, <2>1, <2>2, <2>3 DEF End
<1>3. ASSUME NEW t \in Threads, Begin(t)
      PROVE  TypeOK' /\ PointerOK'
  <2>1. CASE NewAlloc(t)
    BY <2>1 DEF NewAlloc
  <2>2. ASSUME NEW m \in Ops, NEW h \in handles[t], FindRefused(t, m, h)
        PROVE  TypeOK' /\ PointerOK'
    BY <2>2 DEF FindRefused, HandlesAfter
  <2>3. ASSUME NEW m \in Ops, NEW h \in handles[t], FindEnter(t, m, h)
        PROVE  TypeOK' /\ PointerOK'
    BY <2>3 DEF FindEnter, HandlesAfter
  <2>4. ASSUME NEW c \in Threads, Spawn(t, c)
        PROVE  TypeOK' /\ PointerOK'
    BY <2>4 DEF Spawn
  <2>5. CASE Exit(t)
    BY <2>5 DEF Exit
  <2>6. QED
    BY <1>3, <2>1, <2>2, <2>3, <2>4, <2>5 DEF Begin
<1>4. ASSUME NEW t \in Threads, Continue(t)
      PROVE  TypeOK' /\ PointerOK'
  <2>1. CASE NewFail(t)
    BY <2>1 DEF NewFail
  <2>2. CASE NewLock(t)
    BY <2>2 DEF NewLock
  <2>3. CASE NewInsert(t)
    BY <2>3, BucketOfNumber DEF NewInsert, Register
  <2>4. CASE NewBless(t)
    BY <2>4 DEF NewBless
  <2>5. CASE NewReject(t)
    BY <2>5 DEF NewReject
  <2>6. CASE FindLock(t)
    BY <2>6 DEF FindLock
  <2>7. CASE FindMiss(t)
    BY <2>7 DEF FindMiss
  <2>8. CASE FindHit(t)
    BY <2>8, BucketOfNumber DEF FindHit, Matches, AfterFind
  <2>9. CASE UseSocket(t)
    BY <2>9 DEF UseSocket
  <2>10. CASE DropFlag(t)
    BY <2>10 DEF DropFlag
  <2>11. CASE DecRead(t)
    BY <2>11 DEF DecRead
  <2>12. CASE DecWrite(t)
    BY <2>12 DEF DecWrite
  <2>13. CASE DecKeep(t)
    BY <2>13 DEF DecKeep
  <2>14. CASE DecLast(t)
    BY <2>14 DEF DecLast
  <2>15. CASE RemLock(t)
    BY <2>15 DEF RemLock
  <2>16. CASE RemUnlink(t)
    BY <2>16, BucketOfNumber DEF RemUnlink
  <2>17. CASE RemFree(t)
    BY <2>17 DEF RemFree
  <2>18. CASE CloneLock(t)
    BY <2>18 DEF CloneLock, Chained
  <2>19. CASE ClonePick(t)
    BY <2>19 DEF ClonePick
  <2>20. CASE CloneSkip(t)
    BY <2>20 DEF CloneSkip
  <2>21. CASE CloneWrite(t)
    BY <2>21 DEF CloneWrite
  <2>22. CASE CloneDone(t)
    BY <2>22 DEF CloneDone
  <2>23. QED
    BY <1>4, <2>1, <2>2, <2>3, <2>4, <2>5, <2>6, <2>7, <2>8, <2>9,
       <2>10, <2>11, <2>12, <2>13, <2>14, <2>15, <2>16, <2>17, <2>18,
       <2>19, <2>20, <2>21, <2>22 DEF Continue
<1>5. QED
  BY <1>1, <1>2, <1>3, <1>4 DEF Next

LEMMA InitTyped == Init => TypeOK /\ PointerOK
<1> SUFFICES ASSUME Init PROVE TypeOK /\ PointerOK
  OBVIOUS
<1>1. pc \in [Threads -> PcValues] /\ op \in [Threads -> Ops]
  BY DEF Init, PcValues, Resting, Ops
<1>2. /\ ptr \in [Threads -> Blocks \cup {NoBlock}]
      /\ hnd \in [Threads -> Nat] /\ tmp \in [Threads -> Int]
      /\ kid \in [Threads -> Threads]
  BY ConstantsAssumption DEF Init
<1>3. /\ handles \in [Threads -> SUBSET Nat]
      /\ todo \in [Threads -> SUBSET Blocks]
      /\ chain \in [BucketIndex -> SUBSET Blocks] /\ heap \subseteq Blocks
  BY DEF Init
<1>4. /\ sid \in [Blocks -> Nat] /\ refcnt \in [Blocks -> Int]
      /\ owner \in [Blocks -> Threads \cup {NoThread}]
      /\ doClone \in [Blocks -> BOOLEAN]
  BY DEF Init
<1>5. /\ counter \in Nat /\ lock \in Threads \cup {NoThread}
      /\ {destroyed, mutexUp, fault, raced, miscounted} \subseteq BOOLEAN
      /\ freed \in SUBSET Nat
  BY DEF Init
<1>6. PointerOK
  BY DEF Init, PointerOK, Pointing, InAdd, Acting
<1>7. QED
  BY <1>6, <1>1, <1>2, <1>3, <1>4, <1>5 DEF TypeOK

(* TypeOK is an invariant of every behaviour of the registry, whatever     *)
(* scripts do: ids only count up, a chain holds blocks, a thread is at one *)
(* of the labels, and no method dereferences a NULL sc.                    *)
THEOREM TypeCorrect == Spec => [](TypeOK /\ PointerOK)
<1>1. QED
  BY InitTyped, TypeInductive, PTL DEF Spec
-----------------------------------------------------------------------------
(***************************************************************************)
(* Safety.  The pointer a search returned is used after the mutex is       *)
(* released, so that it still points to the socket is not a fact about any *)
(* one step: it takes that every removal up to now found its thread alone  *)
(* with the socket, that a block waiting to be linked or freed belongs to  *)
(* one thread, that no two linked blocks have one number, and that the     *)
(* walks of CLONE and END hold the mutex throughout.                       *)
(***************************************************************************)

LockHeld == \A t \in Threads : pc[t] \in Critical <=> lock = t

Detached == Resting \cup InAdd \cup InClone \cup InEnd
CallNumber ==
  \A t \in Threads :
    IF pc[t] \in Detached THEN hnd[t] = 0 ELSE hnd[t] \in 1 .. counter
ObjectsIssued == \A t \in Threads : handles[t] \subseteq 1 .. counter

Owning == InAdd \cup {"rem_free"}
OwnedBlock ==
  /\ \A t \in Threads : pc[t] \in Owning => ptr[t] \in heap \ Chained
  /\ \A t, u \in Threads :
       /\ t # u /\ pc[t] \in Owning /\ pc[u] \in Owning
       => ptr[t] # ptr[u]
NoOrphan ==
  \A b \in heap \ Chained : \E t \in Threads : pc[t] \in Owning /\ ptr[t] = b

CloneWalk ==
  \A t \in Threads :
    /\ pc[t] \in {"clone_pick", "clone_write"} => todo[t] \subseteq Chained
    /\ pc[t] = "clone_write" => ptr[t] \in Chained

Shutdown ==
  /\ ~mutexUp => \A t \in Threads : pc[t] \in Resting \cup {"rem_free"}
  /\ \A t \in Threads : pc[t] \in InEnd => t = Main /\ destroyed /\ mutexUp
  /\ ~mutexUp => destroyed

KidWaits ==
  \A t \in Threads : pc[t] \in InClone =>
    /\ pc[kid[t]] = "unborn"
    /\ \A u \in Threads \ {t} : pc[u] \in InClone => kid[u] # kid[t]

(* What a step of one thread may disturb without touching a block, ...     *)
SideInv ==
  /\ LockHeld /\ CallNumber /\ ObjectsIssued
  /\ KidWaits /\ Shutdown /\ NoFault
(* ... and what ties pointers, blocks and chains together.                 *)
HeapInv ==
  /\ ChainsSound /\ CallOnItsSocket /\ OwnedBlock /\ NoOrphan /\ CloneWalk

IInv == TypeOK /\ PointerOK /\ ~raced /\ SideInv /\ HeapInv
-----------------------------------------------------------------------------
(* A step that changes neither heap nor chains keeps HeapInv if the thread *)
(* that takes it owns what it owned, and any pointer it comes to work on   *)
(* points to the registered socket with the number of its call.            *)
LEMMA QuietStep ==
  ASSUME HeapInv, ~raced, NEW t \in Threads,
         UNCHANGED <<counter, chain, heap, sid>>,
         \A u \in Threads \ {t} :
           pc'[u] \in Owning \cup Acting \cup {"clone_pick", "clone_write"} =>
             /\ pc'[u] = pc[u] /\ hnd'[u] = hnd[u]
             /\ ptr'[u] = ptr[u] /\ todo'[u] = todo[u],
         \A u \in Threads : pc[u] \in Owning <=> pc'[u] \in Owning,
         pc[t] \in Owning => ptr'[t] = ptr[t],
         pc'[t] \in Acting =>
           ptr'[t] \in Chained /\ sid[ptr'[t]] = hnd'[t],
         pc'[t] \in {"clone_pick", "clone_write"}
            => todo'[t] \subseteq Chained,
         pc'[t] = "clone_write" => ptr'[t] \in Chained
  PROVE  HeapInv'
<1>1. Chained' = Chained
  BY DEF Chained
<1>2. ChainsSound'
  BY <1>1 DEF HeapInv, ChainsSound
<1>3. CallOnItsSocket'
  BY <1>1 DEF HeapInv, CallOnItsSocket
<1>4. OwnedBlock'
  BY <1>1 DEF HeapInv, OwnedBlock
<1>5. NoOrphan'
  <2>1. \A u \in Threads : pc[u] \in Owning => ptr'[u] = ptr[u]
    OBVIOUS
  <2>2. QED
    BY <1>1, <2>1 DEF HeapInv, NoOrphan
<1>6. CloneWalk'
  BY <1>1 DEF HeapInv, CloneWalk
<1>7. QED
  BY <1>2, <1>3, <1>4, <1>5, <1>6 DEF HeapInv
-----------------------------------------------------------------------------
(* The steps of socket_class_add and of new.                               *)

LEMMA NewAllocInv ==
  ASSUME IInv, TypeOK', ~raced', NEW t \in Threads, NewAlloc(t)
  PROVE  SideInv' /\ HeapInv'
<1> USE ConstantsAssumption DEF IInv, TypeOK, NewAlloc,
      Resting, InAdd, InClone, InEnd, Acting, Owning, Detached, Critical
<1>1. SideInv'
  BY DEF SideInv, HeapInv, LockHeld, CallNumber,
     ObjectsIssued, KidWaits, Shutdown, NoFault, ChainsSound, CallOnItsSocket,
     OwnedBlock, CloneWalk
<1>2. HeapInv'
  <2>1. Chained' = Chained
    BY DEF Chained
  <2>2. ChainsSound'
    <3>1. PICK b \in Blocks \ heap :
            sid' = [sid EXCEPT ![b] = 0] /\ heap' = heap \cup {b}
      OBVIOUS
    <3>2. Chained \subseteq heap /\ \A c \in Chained : sid'[c] = sid[c]
      BY <3>1 DEF HeapInv, ChainsSound, Chained
    <3>3. \A i \in BucketIndex : chain[i] \subseteq Chained
      BY DEF Chained
    <3>4. QED
      BY <2>1, <3>1, <3>2, <3>3 DEF HeapInv, ChainsSound
  <2>3. CallOnItsSocket'
    <3>1. \A u \in Threads :
            pc'[u] \in Acting => pc[u] \in Acting /\ ptr'[u] = ptr[u]
                                  /\ hnd'[u] = hnd[u]
      OBVIOUS
    <3>2. \A c \in Chained : sid'[c] = sid[c]
      BY DEF HeapInv, ChainsSound, Chained
    <3>3. QED
      BY <2>1, <3>1, <3>2 DEF HeapInv, CallOnItsSocket
  <2>4. OwnedBlock' /\ NoOrphan'
    <3>1. PICK b \in Blocks \ heap :
            /\ heap' = heap \cup {b}
            /\ ptr' = [ptr EXCEPT ![t] = b]
      OBVIOUS
    <3>2. b \notin Chained
      BY <3>1 DEF HeapInv, ChainsSound
    <3>3. \A u \in Threads \ {t} : pc[u] \in Owning => ptr[u] # b
      BY <3>1 DEF HeapInv, OwnedBlock
    <3>4. pc[t] \notin Owning
      OBVIOUS
    <3>5. OwnedBlock'
      BY <2>1, <3>1, <3>2, <3>3 DEF HeapInv, OwnedBlock
    <3>6. NoOrphan'
      BY <2>1, <3>1, <3>4 DEF HeapInv, NoOrphan
    <3>7. QED
      BY <3>5, <3>6
  <2>5. CloneWalk'
    BY <2>1 DEF HeapInv, CloneWalk
  <2>6. QED
    BY <2>2, <2>3, <2>4, <2>5 DEF HeapInv
<1>3. QED
  BY <1>1, <1>2

LEMMA NewFailInv ==
  ASSUME IInv, TypeOK', ~raced', NEW t \in Threads, NewFail(t)
  PROVE  SideInv' /\ HeapInv'
<1> USE ConstantsAssumption DEF IInv, TypeOK, NewFail,
      Resting, InAdd, InClone, InEnd, Acting, Owning, Detached, Critical
<1>1. SideInv'
  BY DEF SideInv, HeapInv, LockHeld, CallNumber,
     ObjectsIssued, KidWaits, Shutdown, NoFault, ChainsSound, CallOnItsSocket,
     OwnedBlock, CloneWalk
<1>2. HeapInv'
  <2>1. Chained' = Chained
    BY ConstantsAssumption DEF Chained
  <2>2. ChainsSound'
    BY <2>1 DEF HeapInv, SideInv, ChainsSound, OwnedBlock, CallOnItsSocket
  <2>3. CallOnItsSocket'
    BY <2>1 DEF HeapInv, SideInv, CallOnItsSocket, OwnedBlock, ChainsSound,
       CallNumber
  <2>4. OwnedBlock'
    BY <2>1 DEF HeapInv, SideInv, CallOnItsSocket, OwnedBlock, ChainsSound,
       CallNumber
  <2>5. NoOrphan'
    BY <2>1 DEF HeapInv, SideInv, NoOrphan, OwnedBlock
  <2>6. CloneWalk'
    BY <2>1 DEF HeapInv, SideInv, CloneWalk, OwnedBlock, LockHeld
  <2>7. QED
    BY <2>2, <2>3, <2>4, <2>5, <2>6 DEF HeapInv
<1>3. QED
  BY <1>1, <1>2

LEMMA NewLockInv ==
  ASSUME IInv, TypeOK', ~raced', NEW t \in Threads, NewLock(t)
  PROVE  SideInv' /\ HeapInv'
<1> USE ConstantsAssumption DEF IInv, TypeOK, NewLock,
      Resting, InAdd, InClone, InEnd, Acting, Owning, Detached, Critical
<1>1. SideInv'
  <2>1. LockHeld'
    BY DEF SideInv, LockHeld
  <2>2. CallNumber' /\ ObjectsIssued'
    BY DEF SideInv, CallNumber, ObjectsIssued
  <2>3. KidWaits'
    BY DEF SideInv, KidWaits
  <2>4. Shutdown' /\ NoFault'
    BY DEF SideInv, Shutdown, NoFault
  <2>5. QED
    BY <2>1, <2>2, <2>3, <2>4 DEF SideInv
<1>2. HeapInv'
  BY QuietStep, SMTT(30) DEF HeapInv, SideInv, KidWaits, CallOnItsSocket,
     CloneWalk, LockHeld, Shutdown
<1>3. QED
  BY <1>1, <1>2

LEMMA NewInsertInv ==
  ASSUME IInv, TypeOK', ~raced', NEW t \in Threads, NewInsert(t)
  PROVE  SideInv' /\ HeapInv'
<1> USE ConstantsAssumption DEF IInv, TypeOK, NewInsert, Register,
      Resting, InAdd, InClone, InEnd, Acting, Owning, Detached, Critical
<1>1. SideInv'
  <2>1. LockHeld' /\ Shutdown'
    BY DEF SideInv, LockHeld, Shutdown
  <2>2. CallNumber'
    <3>1. /\ \A u \in Threads : hnd[u] \in 0 .. counter
          /\ hnd' = [hnd EXCEPT ![t] = counter + 1]
          /\ counter' = counter + 1
      BY DEF SideInv, CallNumber
    <3>2. CallNumber'
      <4> SUFFICES ASSUME NEW u \in Threads
                   PROVE  IF pc'[u] \in Detached THEN hnd'[u] = 0
                                                 ELSE hnd'[u] \in 1 .. counter'
        BY DEF CallNumber
      <4>1. CASE u = t
        BY <3>1, <4>1
      <4>2. CASE u # t
        <5>1. pc'[u] = pc[u] /\ hnd'[u] = hnd[u] /\ counter \in Nat
          BY <3>1, <4>2
        <5>2. IF pc[u] \in Detached THEN hnd[u] = 0
                                    ELSE hnd[u] \in 1 .. counter
          BY DEF SideInv, CallNumber
        <5>3. hnd[u] \in 1 .. counter => hnd[u] \in 1 .. counter'
          BY <3>1, <5>1
        <5>4. QED
          BY <5>1, <5>2, <5>3
      <4>3. QED
        BY <4>1, <4>2
    <3>3. QED
      BY <3>2
  <2>3. ObjectsIssued'
    BY DEF SideInv, ObjectsIssued
  <2>4. KidWaits'
    BY DEF SideInv, KidWaits
  <2>5. NoFault'
    BY DEF SideInv, HeapInv, OwnedBlock, NoFault
  <2>6. QED
    BY <2>1, <2>2, <2>3, <2>4, <2>5 DEF SideInv
<1>2. HeapInv'
  <2>1. Chained' = Chained \cup {ptr[t]}
    BY BucketOfNumber DEF Chained
  <2>2. ChainsSound'
    <3>1. ptr[t] \in heap \ Chained
      BY DEF HeapInv, OwnedBlock
    <3>2. sid' = [sid EXCEPT ![ptr[t]] = counter + 1] /\ counter' = counter + 1
      OBVIOUS
    <3>3. Chained' \subseteq heap'
      BY <2>1, <3>1 DEF HeapInv, ChainsSound
    <3>4. \A i \in BucketIndex : \A b \in chain'[i] :
             sid'[b] \in 1 .. counter' /\ sid'[b] % Buckets = i
      <4> SUFFICES ASSUME NEW i \in BucketIndex, NEW b \in chain'[i]
                   PROVE  sid'[b] \in 1 .. counter' /\ sid'[b] % Buckets = i
        OBVIOUS
      <4>1. CASE b \in chain[i]
        <5>1. b \in Chained
          BY <4>1 DEF Chained
        <5>2. b # ptr[t] /\ sid[b] \in 1 .. counter /\ sid[b] % Buckets = i
          BY <3>1, <4>1, <5>1 DEF HeapInv, ChainsSound
        <5>3. QED
          BY <3>2, <5>2
      <4>2. CASE b \notin chain[i]
        <5>1. b = ptr[t] /\ i = (counter + 1) % Buckets
          BY <4>2, BucketOfNumber
        <5>2. QED
          BY <3>2, <5>1
      <4>3. QED
        BY <4>1, <4>2
    <3>5. \A b, c \in Chained' : sid'[b] = sid'[c] => b = c
      <4>1. \A b \in Chained : sid[b] \in 1 .. counter
        BY DEF HeapInv, ChainsSound, Chained
      <4>2. QED
        BY <2>1, <3>1, <3>2, <4>1 DEF HeapInv, ChainsSound
    <3>6. QED
      BY <3>3, <3>4, <3>5 DEF ChainsSound
  <2>3. CallOnItsSocket'
    <3>1. ptr[t] \in Blocks \ Chained /\ ptr' = ptr
      BY DEF HeapInv, OwnedBlock, PointerOK, Pointing
    <3>2. \A b \in Chained : sid'[b] = sid[b]
      BY <3>1
    <3>3. sid'[ptr[t]] = counter + 1 /\ hnd'[t] = counter + 1
      BY <3>1
    <3>4. QED
      BY <2>1, <3>1, <3>2, <3>3 DEF HeapInv, CallOnItsSocket
  <2>4. OwnedBlock'
    BY <2>1 DEF HeapInv, OwnedBlock
  <2>5. NoOrphan'
    BY <2>1 DEF HeapInv, NoOrphan
  <2>6. CloneWalk'
    BY <2>1 DEF HeapInv, CloneWalk, SideInv, LockHeld
  <2>7. QED
    BY <2>2, <2>3, <2>4, <2>5, <2>6 DEF HeapInv
<1>3. QED
  BY <1>1, <1>2

LEMMA NewBlessInv ==
  ASSUME IInv, TypeOK', ~raced', NEW t \in Threads, NewBless(t)
  PROVE  SideInv' /\ HeapInv'
<1> USE ConstantsAssumption DEF IInv, TypeOK, NewBless,
      Resting, InAdd, InClone, InEnd, Acting, Owning, Detached, Critical
<1>1. SideInv'
  <2>1. ptr[t] \in Chained /\ ptr[t] \in heap
    BY DEF HeapInv, CallOnItsSocket, ChainsSound
  <2>2. sid[ptr[t]] \in 1 .. counter
    BY <2>1 DEF HeapInv, ChainsSound, Chained
  <2>3. ObjectsIssued' /\ NoFault'
    BY <2>1, <2>2 DEF SideInv, ObjectsIssued, NoFault
  <2>4. LockHeld' /\ CallNumber' /\ KidWaits' /\ Shutdown'
    BY DEF SideInv, LockHeld, CallNumber, KidWaits, Shutdown
  <2>5. QED
    BY <2>3, <2>4 DEF SideInv
<1>2. HeapInv'
  BY QuietStep, SMTT(90) DEF HeapInv, SideInv, KidWaits, CallOnItsSocket,
     CloneWalk, LockHeld, Shutdown
<1>3. QED
  BY <1>1, <1>2

LEMMA NewRejectInv ==
  ASSUME IInv, TypeOK', ~raced', NEW t \in Threads, NewReject(t)
  PROVE  SideInv' /\ HeapInv'
<1> USE ConstantsAssumption DEF IInv, TypeOK, NewReject,
      Resting, InAdd, InClone, InEnd, Acting, Owning, Detached, Critical
<1>1. SideInv'
  BY DEF SideInv, HeapInv, LockHeld, CallNumber,
     ObjectsIssued, KidWaits, Shutdown, NoFault, ChainsSound, CallOnItsSocket,
     OwnedBlock, CloneWalk
<1>2. HeapInv'
  BY QuietStep, SMTT(90) DEF HeapInv, SideInv, KidWaits, CallOnItsSocket,
     CloneWalk, LockHeld, Shutdown
<1>3. QED
  BY <1>1, <1>2

-----------------------------------------------------------------------------
(* The steps of socket_class_find and of the methods.                      *)

LEMMA FindRefusedInv ==
  ASSUME IInv, TypeOK', ~raced', NEW t \in Threads,
         NEW m \in Ops, NEW h \in handles[t], FindRefused(t, m, h)
  PROVE  SideInv' /\ HeapInv'
<1> USE ConstantsAssumption DEF IInv, TypeOK, FindRefused, HandlesAfter,
      Resting, InAdd, InClone, InEnd, Acting, Owning, Detached, Critical
<1>1. SideInv'
  BY DEF SideInv, HeapInv, LockHeld, CallNumber,
     ObjectsIssued, KidWaits, Shutdown, NoFault, ChainsSound, CallOnItsSocket,
     OwnedBlock, CloneWalk
<1>2. HeapInv'
  BY QuietStep, SMTT(90) DEF HeapInv, SideInv, KidWaits, CallOnItsSocket,
     CloneWalk, LockHeld, Shutdown
<1>3. QED
  BY <1>1, <1>2

LEMMA FindEnterInv ==
  ASSUME IInv, TypeOK', ~raced', NEW t \in Threads,
         NEW m \in Ops, NEW h \in handles[t], FindEnter(t, m, h)
  PROVE  SideInv' /\ HeapInv'
<1> USE ConstantsAssumption DEF IInv, TypeOK, FindEnter, HandlesAfter,
      Resting, InAdd, InClone, InEnd, Acting, Owning, Detached, Critical
<1>1. SideInv'
  BY DEF SideInv, HeapInv, LockHeld, CallNumber,
     ObjectsIssued, KidWaits, Shutdown, NoFault, ChainsSound, CallOnItsSocket,
     OwnedBlock, CloneWalk
<1>2. HeapInv'
  BY QuietStep, SMTT(90) DEF HeapInv, SideInv, KidWaits, CallOnItsSocket,
     CloneWalk, LockHeld, Shutdown
<1>3. QED
  BY <1>1, <1>2

LEMMA FindLockInv ==
  ASSUME IInv, TypeOK', ~raced', NEW t \in Threads, FindLock(t)
  PROVE  SideInv' /\ HeapInv'
<1> USE ConstantsAssumption DEF IInv, TypeOK, FindLock,
      Resting, InAdd, InClone, InEnd, Acting, Owning, Detached, Critical
<1>1. SideInv'
  BY DEF SideInv, HeapInv, LockHeld, CallNumber,
     ObjectsIssued, KidWaits, Shutdown, NoFault, ChainsSound, CallOnItsSocket,
     OwnedBlock, CloneWalk
<1>2. HeapInv'
  BY QuietStep, SMTT(90) DEF HeapInv, SideInv, KidWaits, CallOnItsSocket,
     CloneWalk, LockHeld, Shutdown
<1>3. QED
  BY <1>1, <1>2

LEMMA FindMissInv ==
  ASSUME IInv, TypeOK', ~raced', NEW t \in Threads, FindMiss(t)
  PROVE  SideInv' /\ HeapInv'
<1> USE ConstantsAssumption DEF IInv, TypeOK, FindMiss,
      Resting, InAdd, InClone, InEnd, Acting, Owning, Detached, Critical
<1>1. SideInv'
  BY DEF SideInv, HeapInv, LockHeld, CallNumber,
     ObjectsIssued, KidWaits, Shutdown, NoFault, ChainsSound, CallOnItsSocket,
     OwnedBlock, CloneWalk
<1>2. HeapInv'
  BY QuietStep, SMTT(90) DEF HeapInv, SideInv, KidWaits, CallOnItsSocket,
     CloneWalk, LockHeld, Shutdown
<1>3. QED
  BY <1>1, <1>2

LEMMA FindHitInv ==
  ASSUME IInv, TypeOK', ~raced', NEW t \in Threads, FindHit(t)
  PROVE  SideInv' /\ HeapInv'
<1> USE ConstantsAssumption DEF IInv, TypeOK, FindHit, AfterFind, Matches,
      Resting, InAdd, InClone, InEnd, Acting, Owning, Detached, Critical
<1> DEFINE b == ptr'[t]
<1>0. b \in Chained /\ sid[b] = hnd[t]
  <2>1. hnd[t] % Buckets \in BucketIndex
    BY BucketOfNumber
  <2>2. QED
    BY <2>1 DEF Chained
<1>1. SideInv'
  <2>1. /\ pc' = [pc EXCEPT ![t] = AfterFind(op[t])]
        /\ AfterFind(op[t]) \in {"use", "rem_lock", "drop"}
    OBVIOUS
  <2>2. LockHeld' /\ CallNumber'
    BY DEF SideInv, LockHeld, CallNumber
  <2>3. ObjectsIssued' /\ NoFault'
    BY DEF SideInv, ObjectsIssued, NoFault
  <2>4. KidWaits'
    BY DEF SideInv, KidWaits
  <2>5. Shutdown'
    BY DEF SideInv, Shutdown
  <2>6. QED
    BY <2>2, <2>3, <2>4, <2>5 DEF SideInv
<1>2. HeapInv'
  BY <1>0, QuietStep, SMTT(90) DEF HeapInv, SideInv, KidWaits,
     CallOnItsSocket, CloneWalk, LockHeld, Shutdown
<1>3. QED
  BY <1>1, <1>2

LEMMA UseSocketInv ==
  ASSUME IInv, TypeOK', ~raced', NEW t \in Threads, UseSocket(t)
  PROVE  SideInv' /\ HeapInv'
<1> USE ConstantsAssumption DEF IInv, TypeOK, UseSocket,
      Resting, InAdd, InClone, InEnd, Acting, Owning, Detached, Critical
<1>1. SideInv'
  BY DEF SideInv, HeapInv, LockHeld, CallNumber,
     ObjectsIssued, KidWaits, Shutdown, NoFault, ChainsSound, CallOnItsSocket,
     OwnedBlock, CloneWalk
<1>2. HeapInv'
  BY QuietStep, SMTT(90) DEF HeapInv, SideInv, KidWaits, CallOnItsSocket,
     CloneWalk, LockHeld, Shutdown
<1>3. QED
  BY <1>1, <1>2

-----------------------------------------------------------------------------
(* The steps of DESTROY and mod_sc_refcnt_dec.                             *)

LEMMA DropFlagInv ==
  ASSUME IInv, TypeOK', ~raced', NEW t \in Threads, DropFlag(t)
  PROVE  SideInv' /\ HeapInv'
<1> USE ConstantsAssumption DEF IInv, TypeOK, DropFlag,
      Resting, InAdd, InClone, InEnd, Acting, Owning, Detached, Critical
<1>1. SideInv'
  BY DEF SideInv, HeapInv, LockHeld, CallNumber,
     ObjectsIssued, KidWaits, Shutdown, NoFault, ChainsSound, CallOnItsSocket,
     OwnedBlock, CloneWalk
<1>2. HeapInv'
  BY QuietStep, SMTT(90) DEF HeapInv, SideInv, KidWaits, CallOnItsSocket,
     CloneWalk, LockHeld, Shutdown
<1>3. QED
  BY <1>1, <1>2

LEMMA DecReadInv ==
  ASSUME IInv, TypeOK', ~raced', NEW t \in Threads, DecRead(t)
  PROVE  SideInv' /\ HeapInv'
<1> USE ConstantsAssumption DEF IInv, TypeOK, DecRead,
      Resting, InAdd, InClone, InEnd, Acting, Owning, Detached, Critical
<1>1. SideInv'
  BY DEF SideInv, HeapInv, LockHeld, CallNumber,
     ObjectsIssued, KidWaits, Shutdown, NoFault, ChainsSound, CallOnItsSocket,
     OwnedBlock, CloneWalk
<1>2. HeapInv'
  BY QuietStep, SMTT(90) DEF HeapInv, SideInv, KidWaits, CallOnItsSocket,
     CloneWalk, LockHeld, Shutdown
<1>3. QED
  BY <1>1, <1>2

LEMMA DecWriteInv ==
  ASSUME IInv, TypeOK', ~raced', NEW t \in Threads, DecWrite(t)
  PROVE  SideInv' /\ HeapInv'
<1> USE ConstantsAssumption DEF IInv, TypeOK, DecWrite,
      Resting, InAdd, InClone, InEnd, Acting, Owning, Detached, Critical
<1>1. SideInv'
  BY DEF SideInv, HeapInv, LockHeld, CallNumber,
     ObjectsIssued, KidWaits, Shutdown, NoFault, ChainsSound, CallOnItsSocket,
     OwnedBlock, CloneWalk
<1>2. HeapInv'
  BY QuietStep, SMTT(90) DEF HeapInv, SideInv, KidWaits, CallOnItsSocket,
     CloneWalk, LockHeld, Shutdown
<1>3. QED
  BY <1>1, <1>2

LEMMA DecKeepInv ==
  ASSUME IInv, TypeOK', ~raced', NEW t \in Threads, DecKeep(t)
  PROVE  SideInv' /\ HeapInv'
<1> USE ConstantsAssumption DEF IInv, TypeOK, DecKeep,
      Resting, InAdd, InClone, InEnd, Acting, Owning, Detached, Critical
<1>1. SideInv'
  BY DEF SideInv, HeapInv, LockHeld, CallNumber,
     ObjectsIssued, KidWaits, Shutdown, NoFault, ChainsSound, CallOnItsSocket,
     OwnedBlock, CloneWalk
<1>2. HeapInv'
  BY QuietStep, SMTT(90) DEF HeapInv, SideInv, KidWaits, CallOnItsSocket,
     CloneWalk, LockHeld, Shutdown
<1>3. QED
  BY <1>1, <1>2

LEMMA DecLastInv ==
  ASSUME IInv, TypeOK', ~raced', NEW t \in Threads, DecLast(t)
  PROVE  SideInv' /\ HeapInv'
<1> USE ConstantsAssumption DEF IInv, TypeOK, DecLast,
      Resting, InAdd, InClone, InEnd, Acting, Owning, Detached, Critical
<1>1. SideInv'
  BY DEF SideInv, HeapInv, LockHeld, CallNumber,
     ObjectsIssued, KidWaits, Shutdown, NoFault, ChainsSound, CallOnItsSocket,
     OwnedBlock, CloneWalk
<1>2. HeapInv'
  BY QuietStep, SMTT(30) DEF HeapInv, SideInv, KidWaits, CallOnItsSocket,
     CloneWalk, LockHeld, Shutdown
<1>3. QED
  BY <1>1, <1>2

-----------------------------------------------------------------------------
(* The steps of socket_class_rem.                                          *)

LEMMA RemLockInv ==
  ASSUME IInv, TypeOK', ~raced', NEW t \in Threads, RemLock(t)
  PROVE  SideInv' /\ HeapInv'
<1> USE ConstantsAssumption DEF IInv, TypeOK, RemLock,
      Resting, InAdd, InClone, InEnd, Acting, Owning, Detached, Critical
<1>1. SideInv'
  BY DEF SideInv, HeapInv, LockHeld, CallNumber,
     ObjectsIssued, KidWaits, Shutdown, NoFault, ChainsSound, CallOnItsSocket,
     OwnedBlock, CloneWalk
<1>2. HeapInv'
  BY QuietStep, SMTT(30) DEF HeapInv, SideInv, KidWaits, CallOnItsSocket,
     CloneWalk, LockHeld, Shutdown
<1>3. QED
  BY <1>1, <1>2

LEMMA RemUnlinkInv ==
  ASSUME IInv, TypeOK', ~raced', NEW t \in Threads, RemUnlink(t)
  PROVE  SideInv' /\ HeapInv'
<1> USE ConstantsAssumption DEF IInv, TypeOK, RemUnlink,
      Resting, InAdd, InClone, InEnd, Acting, Owning, Detached, Critical
<1>1. SideInv'
  BY DEF SideInv, HeapInv, LockHeld, CallNumber,
     ObjectsIssued, KidWaits, Shutdown, NoFault, ChainsSound, CallOnItsSocket,
     OwnedBlock, CloneWalk
<1>2. HeapInv'
  <2>1. Chained' = Chained \ {ptr[t]}
    BY BucketOfNumber DEF Chained, HeapInv, ChainsSound, CallOnItsSocket
  <2>0. \A u \in Threads \ {t} : pc[u] \in Acting => ptr[u] # ptr[t]
    BY DEF Beside
  <2>2. ChainsSound'
    BY <2>1 DEF HeapInv, SideInv, ChainsSound, OwnedBlock, CallOnItsSocket
  <2>3. CallOnItsSocket'
    BY <2>0, <2>1 DEF HeapInv, CallOnItsSocket
  <2>4. OwnedBlock'
    BY <2>1 DEF HeapInv, SideInv, CallOnItsSocket, OwnedBlock, ChainsSound,
       CallNumber
  <2>5. NoOrphan'
    BY <2>1 DEF HeapInv, SideInv, NoOrphan, OwnedBlock
  <2>6. CloneWalk'
    BY <2>1 DEF HeapInv, SideInv, CloneWalk, OwnedBlock, LockHeld
  <2>7. QED
    BY <2>2, <2>3, <2>4, <2>5, <2>6 DEF HeapInv
<1>3. QED
  BY <1>1, <1>2

LEMMA RemFreeInv ==
  ASSUME IInv, TypeOK', ~raced', NEW t \in Threads, RemFree(t)
  PROVE  SideInv' /\ HeapInv'
<1> USE ConstantsAssumption DEF IInv, TypeOK, RemFree,
      Resting, InAdd, InClone, InEnd, Acting, Owning, Detached, Critical
<1>1. SideInv'
  BY DEF SideInv, HeapInv, LockHeld, CallNumber,
     ObjectsIssued, KidWaits, Shutdown, NoFault, ChainsSound, CallOnItsSocket,
     OwnedBlock, CloneWalk
<1>2. HeapInv'
  <2>1. Chained' = Chained
    BY ConstantsAssumption DEF Chained
  <2>2. ChainsSound'
    BY <2>1 DEF HeapInv, SideInv, ChainsSound, OwnedBlock, CallOnItsSocket
  <2>3. CallOnItsSocket'
    BY <2>1 DEF HeapInv, SideInv, CallOnItsSocket, OwnedBlock, ChainsSound,
       CallNumber
  <2>4. OwnedBlock'
    BY <2>1 DEF HeapInv, SideInv, CallOnItsSocket, OwnedBlock, ChainsSound,
       CallNumber
  <2>5. NoOrphan'
    BY <2>1 DEF HeapInv, SideInv, NoOrphan, OwnedBlock
  <2>6. CloneWalk'
    BY <2>1 DEF HeapInv, SideInv, CloneWalk, OwnedBlock, LockHeld
  <2>7. QED
    BY <2>2, <2>3, <2>4, <2>5, <2>6 DEF HeapInv
<1>3. QED
  BY <1>1, <1>2

-----------------------------------------------------------------------------
(* The creation and the end of threads, CLONE.                             *)

LEMMA SpawnInv ==
  ASSUME IInv, TypeOK', ~raced', NEW t \in Threads,
         NEW c \in Threads, Spawn(t, c)
  PROVE  SideInv' /\ HeapInv'
<1> USE ConstantsAssumption DEF IInv, TypeOK, Spawn,
      Resting, InAdd, InClone, InEnd, Acting, Owning, Detached, Critical
<1>1. SideInv'
  BY DEF SideInv, HeapInv, LockHeld, CallNumber,
     ObjectsIssued, KidWaits, Shutdown, NoFault, ChainsSound, CallOnItsSocket,
     OwnedBlock, CloneWalk
<1>2. HeapInv'
  BY QuietStep, SMTT(30) DEF HeapInv, SideInv, KidWaits, CallOnItsSocket,
     CloneWalk, LockHeld, Shutdown
<1>3. QED
  BY <1>1, <1>2

LEMMA CloneLockInv ==
  ASSUME IInv, TypeOK', ~raced', NEW t \in Threads, CloneLock(t)
  PROVE  SideInv' /\ HeapInv'
<1> USE ConstantsAssumption DEF IInv, TypeOK, CloneLock,
      Resting, InAdd, InClone, InEnd, Acting, Owning, Detached, Critical
<1>1. SideInv'
  <2>1. LockHeld' /\ CallNumber' /\ ObjectsIssued' /\ KidWaits'
    BY DEF SideInv, LockHeld, CallNumber, ObjectsIssued, KidWaits
  <2>2. Shutdown' /\ NoFault'
    BY DEF SideInv, Shutdown, NoFault
  <2>3. QED
    BY <2>1, <2>2 DEF SideInv
<1>2. HeapInv'
  BY QuietStep, SMTT(30) DEF HeapInv, SideInv, KidWaits, CallOnItsSocket,
     CloneWalk, LockHeld, Shutdown
<1>3. QED
  BY <1>1, <1>2

LEMMA ClonePickInv ==
  ASSUME IInv, TypeOK', ~raced', NEW t \in Threads, ClonePick(t)
  PROVE  SideInv' /\ HeapInv'
<1> USE ConstantsAssumption DEF IInv, TypeOK, ClonePick,
      Resting, InAdd, InClone, InEnd, Acting, Owning, Detached, Critical
<1>1. SideInv'
  BY DEF SideInv, HeapInv, LockHeld, CallNumber,
     ObjectsIssued, KidWaits, Shutdown, NoFault, ChainsSound, CallOnItsSocket,
     OwnedBlock, CloneWalk
<1>2. HeapInv'
  BY QuietStep, SMTT(30) DEF HeapInv, SideInv, KidWaits, CallOnItsSocket,
     CloneWalk, LockHeld, Shutdown
<1>3. QED
  BY <1>1, <1>2

LEMMA CloneSkipInv ==
  ASSUME IInv, TypeOK', ~raced', NEW t \in Threads, CloneSkip(t)
  PROVE  SideInv' /\ HeapInv'
<1> USE ConstantsAssumption DEF IInv, TypeOK, CloneSkip,
      Resting, InAdd, InClone, InEnd, Acting, Owning, Detached, Critical
<1>1. SideInv'
  BY DEF SideInv, HeapInv, LockHeld, CallNumber,
     ObjectsIssued, KidWaits, Shutdown, NoFault, ChainsSound, CallOnItsSocket,
     OwnedBlock, CloneWalk
<1>2. HeapInv'
  BY QuietStep, SMTT(30) DEF HeapInv, SideInv, KidWaits, CallOnItsSocket,
     CloneWalk, LockHeld, Shutdown
<1>3. QED
  BY <1>1, <1>2

LEMMA CloneWriteInv ==
  ASSUME IInv, TypeOK', ~raced', NEW t \in Threads, CloneWrite(t)
  PROVE  SideInv' /\ HeapInv'
<1> USE ConstantsAssumption DEF IInv, TypeOK, CloneWrite,
      Resting, InAdd, InClone, InEnd, Acting, Owning, Detached, Critical
<1>1. SideInv'
  BY DEF SideInv, HeapInv, LockHeld, CallNumber,
     ObjectsIssued, KidWaits, Shutdown, NoFault, ChainsSound, CallOnItsSocket,
     OwnedBlock, CloneWalk
<1>2. HeapInv'
  <2>1. /\ pc' = [pc EXCEPT ![t] = "clone_pick"]
        /\ UNCHANGED <<counter, chain, heap, sid, hnd, ptr, todo>>
    OBVIOUS
  <2>2. todo[t] \subseteq Chained
    BY DEF HeapInv, CloneWalk
  <2>3. QED
    <3>1. /\ pc'[t] = "clone_pick" /\ pc[t] = "clone_write"
          /\ \A u \in Threads \ {t} : pc'[u] = pc[u]
      BY <2>1
    <3>2. pc[t] \notin Owning /\ pc'[t] \notin Owning /\ pc'[t] \notin Acting
      BY <3>1
    <3>3. QED
      BY <2>1, <2>2, <3>1, <3>2, QuietStep
<1>3. QED
  BY <1>1, <1>2

LEMMA CloneDoneInv ==
  ASSUME IInv, TypeOK', ~raced', NEW t \in Threads, CloneDone(t)
  PROVE  SideInv' /\ HeapInv'
<1> USE ConstantsAssumption DEF IInv, TypeOK, CloneDone,
      Resting, InAdd, InClone, InEnd, Acting, Owning, Detached, Critical
<1>1. SideInv'
  BY SMTT(60) DEF SideInv, HeapInv, LockHeld, CallNumber,
     ObjectsIssued, KidWaits, Shutdown, NoFault, ChainsSound, CallOnItsSocket,
     OwnedBlock, CloneWalk
<1>2. HeapInv'
  BY QuietStep, SMTT(30) DEF HeapInv, SideInv, KidWaits, CallOnItsSocket,
     CloneWalk, LockHeld, Shutdown
<1>3. QED
  BY <1>1, <1>2

LEMMA ExitInv ==
  ASSUME IInv, TypeOK', ~raced', NEW t \in Threads, Exit(t)
  PROVE  SideInv' /\ HeapInv'
<1> USE ConstantsAssumption DEF IInv, TypeOK, Exit,
      Resting, InAdd, InClone, InEnd, Acting, Owning, Detached, Critical
<1>1. SideInv'
  BY DEF SideInv, HeapInv, LockHeld, CallNumber,
     ObjectsIssued, KidWaits, Shutdown, NoFault, ChainsSound, CallOnItsSocket,
     OwnedBlock, CloneWalk
<1>2. HeapInv'
  BY QuietStep, SMTT(30) DEF HeapInv, SideInv, KidWaits, CallOnItsSocket,
     CloneWalk, LockHeld, Shutdown
<1>3. QED
  BY <1>1, <1>2

-----------------------------------------------------------------------------
(* END.                                                                    *)

LEMMA EndEnterInv ==
  ASSUME IInv, TypeOK', ~raced', EndEnter
  PROVE  SideInv' /\ HeapInv'
<1> USE ConstantsAssumption DEF IInv, TypeOK, EndEnter,
      Resting, InAdd, InClone, InEnd, Acting, Owning, Detached, Critical
<1>1. SideInv'
  BY DEF SideInv, HeapInv, LockHeld, CallNumber,
     ObjectsIssued, KidWaits, Shutdown, NoFault, ChainsSound, CallOnItsSocket,
     OwnedBlock, CloneWalk
<1>2. HeapInv'
  <2>1. /\ UNCHANGED <<counter, chain, heap, sid, hnd, ptr, todo>>
        /\ \A u \in Threads \ {Main} : pc'[u] = pc[u]
        /\ pc[Main] = "idle" /\ pc'[Main] = "end_lock"
    OBVIOUS
  <2>2. \A u \in Threads : pc[u] \in Owning <=> pc'[u] \in Owning
    BY <2>1
  <2>3. HeapInv /\ ~raced
    OBVIOUS
  <2> HIDE DEF IInv, TypeOK, EndEnter
  <2>4. QED
    BY <2>1, <2>2, <2>3, QuietStep
<1>3. QED
  BY <1>1, <1>2

LEMMA EndLockInv ==
  ASSUME IInv, TypeOK', ~raced', EndLock
  PROVE  SideInv' /\ HeapInv'
<1> USE ConstantsAssumption DEF IInv, TypeOK, EndLock,
      Resting, InAdd, InClone, InEnd, Acting, Owning, Detached, Critical
<1>1. SideInv'
  BY DEF SideInv, HeapInv, LockHeld, CallNumber,
     ObjectsIssued, KidWaits, Shutdown, NoFault, ChainsSound, CallOnItsSocket,
     OwnedBlock, CloneWalk
<1>2. HeapInv'
  BY QuietStep, SMTT(30) DEF HeapInv, SideInv, KidWaits, CallOnItsSocket,
     CloneWalk, LockHeld, Shutdown
<1>3. QED
  BY <1>1, <1>2

LEMMA EndFreeInv ==
  ASSUME IInv, TypeOK', ~raced', EndFree
  PROVE  SideInv' /\ HeapInv'
<1> USE ConstantsAssumption DEF IInv, TypeOK, EndFree,
      Resting, InAdd, InClone, InEnd, Acting, Owning, Detached, Critical
<1>0. \A t \in Threads : pc'[t] \in Resting \cup {"rem_free"}
  BY DEF InCalls
<1>1. SideInv'
  BY <1>0 DEF SideInv, HeapInv, LockHeld, CallNumber, ObjectsIssued, KidWaits,
     Shutdown, NoFault, ChainsSound
<1>2. HeapInv'
  <2>1. Chained' = {} /\ heap' = heap \ Chained
    BY DEF Chained
  <2>2. \A t \in Threads :
           pc'[t] \in Owning => pc[t] \in Owning /\ ptr'[t] = ptr[t]
    OBVIOUS
  <2>3. ChainsSound'
    BY <2>1 DEF ChainsSound, Chained
  <2>4. CallOnItsSocket' /\ CloneWalk'
    BY <1>0 DEF CallOnItsSocket, CloneWalk
  <2>5. OwnedBlock'
    BY <2>1, <2>2 DEF HeapInv, OwnedBlock
  <2>6. NoOrphan'
    <3>1. \A t \in Threads : pc[t] \in Owning => pc'[t] \in Owning
      OBVIOUS
    <3>2. QED
      BY <2>1, <2>2, <3>1 DEF HeapInv, NoOrphan
  <2>7. QED
    BY <2>3, <2>4, <2>5, <2>6 DEF HeapInv
<1>3. QED
  BY <1>1, <1>2

-----------------------------------------------------------------------------
LEMMA InvInit == Init => IInv
<1> SUFFICES ASSUME Init PROVE SideInv /\ HeapInv
  <2>1. Init => ~raced
    BY DEF Init
  <2>2. QED
    BY <2>1, InitTyped DEF IInv
<1>1. Chained = {}
  BY DEF Init, Chained
<1>2. \A t \in Threads : pc[t] \in Resting /\ hnd[t] = 0 /\ handles[t] = {}
  BY DEF Init, Resting
<1>3. SideInv
  BY <1>2, ConstantsAssumption DEF Init, SideInv, LockHeld, CallNumber,
     ObjectsIssued, KidWaits, Shutdown, NoFault, Critical,
     Detached, Resting, InClone, InEnd
<1>4. ChainsSound
  BY <1>1 DEF Init, ChainsSound
<1>5. CallOnItsSocket /\ OwnedBlock /\ NoOrphan /\ CloneWalk
  BY <1>1, <1>2 DEF Init, CallOnItsSocket, OwnedBlock, NoOrphan, CloneWalk,
     Owning, Acting, InAdd, Resting
<1>6. QED
  BY <1>3, <1>4, <1>5 DEF HeapInv

LEMMA InvStep ==
  ASSUME IInv, [Next]_vars, ~raced' PROVE IInv'
<1> SUFFICES SideInv' /\ HeapInv'
  BY TypeInductive DEF IInv
<1>0. TypeOK'
  BY TypeInductive DEF IInv
<1>1. CASE UNCHANGED vars
  <2>1. Chained' = Chained
    BY <1>1 DEF Chained
  <2>2. SideInv'
    BY <1>1 DEF IInv, SideInv, LockHeld, CallNumber,
       ObjectsIssued, KidWaits, Shutdown, NoFault
  <2>3. HeapInv'
    BY <1>1, <2>1 DEF IInv, HeapInv, ChainsSound, CallOnItsSocket, OwnedBlock,
       NoOrphan, CloneWalk
  <2>4. QED
    BY <2>2, <2>3
<1>2. CASE End
  BY <1>0, <1>2, EndEnterInv, EndLockInv, EndFreeInv DEF End
<1>3. ASSUME NEW t \in Threads, Begin(t)
      PROVE  SideInv' /\ HeapInv'
  BY <1>0, <1>3, NewAllocInv, FindRefusedInv, FindEnterInv, SpawnInv, ExitInv
     DEF Begin
<1>4. ASSUME NEW t \in Threads, Continue(t)
      PROVE  SideInv' /\ HeapInv'
  BY <1>0, <1>4, NewFailInv, NewLockInv, NewInsertInv, NewBlessInv,
     NewRejectInv, FindLockInv, FindMissInv, FindHitInv, UseSocketInv,
     DropFlagInv, DecReadInv, DecWriteInv, DecKeepInv, DecLastInv,
     RemLockInv, RemUnlinkInv, RemFreeInv, CloneLockInv, ClonePickInv,
     CloneSkipInv, CloneWriteInv, CloneDoneInv DEF Continue
<1>5. QED
  BY <1>1, <1>2, <1>3, <1>4 DEF Next

(* A race is not forgotten.                                                *)
LEMMA RacedStays == ASSUME raced, [Next]_vars PROVE raced'
<1>1. CASE UNCHANGED vars
  BY <1>1
<1>2. CASE End
  BY <1>2 DEF End, EndEnter, EndLock, EndFree
<1>3. ASSUME NEW t \in Threads, Begin(t) PROVE raced'
  BY <1>3 DEF Begin, NewAlloc, FindRefused, FindEnter, Spawn, Exit
<1>4. ASSUME NEW t \in Threads, Continue(t) PROVE raced'
  BY <1>4 DEF Continue, NewFail, NewLock, NewInsert, Register, NewBless,
     NewReject, FindLock, FindMiss, FindHit, UseSocket, DropFlag, DecRead,
     DecWrite, DecKeep, DecLast, RemLock, RemUnlink, RemFree, CloneLock,
     ClonePick, CloneSkip, CloneWrite, CloneDone
<1>5. QED
  BY <1>1, <1>2, <1>3, <1>4 DEF Next

(* The invariant the safety theorems follow from holds in every behaviour, *)
(* up to the first race if there is one.                                   *)
THEOREM InvCorrect == Spec => [](raced \/ IInv)
<1>1. (raced \/ IInv) /\ [Next]_vars => raced' \/ IInv'
  BY RacedStays, InvStep
<1>2. QED
  BY InvInit, <1>1, PTL DEF Spec

(* Whatever scripts do, the first access to freed memory, and the first    *)
(* use of the destroyed mutex, comes after a socket was removed beside     *)
(* another thread's call or END ran beside one.  That overlapping calls    *)
(* share pointers the mutex does not protect is not enough for it, and     *)
(* neither are reference counts gone wrong.                                *)
THEOREM MemorySafe == Spec => []NoFault
<1>1. raced \/ IInv => NoFault
  BY DEF IInv, SideInv, NoFault
<1>2. QED
  BY <1>1, InvCorrect, PTL

(* Up to the first race the chains hold allocated blocks with distinct     *)
(* numbers, each in the chain its number selects.                          *)
THEOREM RegistrySound == Spec => []ChainsSound
<1>1. raced \/ IInv => ChainsSound
  BY DEF IInv, HeapInv, ChainsSound
<1>2. QED
  BY <1>1, InvCorrect, PTL

(* Up to the first race a call works, from the search to the unlink or the *)
(* return, on the registered socket its object names, with any number of   *)
(* other calls on it at the same time.                                     *)
THEOREM NoAliasing == Spec => []CallOnItsSocket
<1>1. raced \/ IInv => CallOnItsSocket
  BY DEF IInv, HeapInv, CallOnItsSocket
<1>2. QED
  BY <1>1, InvCorrect, PTL

(* Up to the first race every allocated block is linked or in the hands of *)
(* exactly one thread.                                                     *)
THEOREM NothingLost == Spec => []BlocksAccounted
<1>1. raced => BlocksAccounted
  BY DEF BlocksAccounted
<1>2. ASSUME IInv PROVE BlocksAccounted
  <2> SUFFICES ASSUME NEW b \in heap
               PROVE  Cardinality({t \in Threads : /\ pc[t] \in Owning
                                                   /\ ptr[t] = b})
                        = (IF b \in Chained THEN 0 ELSE 1)
    BY DEF BlocksAccounted, Owning
  <2> DEFINE hands == {t \in Threads : pc[t] \in Owning /\ ptr[t] = b}
  <2>1. CASE b \in Chained
    <3>1. hands = {}
      BY <1>2, <2>1 DEF IInv, HeapInv, OwnedBlock
    <3>2. QED
      BY <2>1, <3>1, FS_EmptySet
  <2>2. CASE b \notin Chained
    <3>1. PICK t \in Threads : pc[t] \in Owning /\ ptr[t] = b
      BY <1>2, <2>2 DEF IInv, HeapInv, NoOrphan
    <3>2. hands = {t}
      BY <1>2, <3>1 DEF IInv, HeapInv, OwnedBlock
    <3>3. QED
      BY <2>2, <3>2, FS_Singleton
  <2>3. QED
    BY <2>1, <2>2
<1>3. QED
  BY <1>1, <1>2, InvCorrect, PTL
-----------------------------------------------------------------------------
(***************************************************************************)
(* The registry implements HandleTable, and a number is registered at most *)
(* once.                                                                   *)
(***************************************************************************)
Want == [t \in Threads |-> IF pc[t] \in Searching THEN hnd[t] ELSE 0]
Held == [t \in Threads |-> IF pc[t] \in Acting THEN sid[ptr[t]] ELSE 0]

(* What the invariant says in the terms of the table: a call holds the     *)
(* number its object names, and that number is live.                       *)
LEMMA HeldNumber ==
  ASSUME IInv, NEW t \in Threads
  PROVE  /\ pc[t] \in Acting => Held[t] = hnd[t] /\ hnd[t] \in Registered
         /\ pc[t] \in Acting \cup Searching => hnd[t] \in 1 .. counter
<1>1. pc[t] \in Acting => sid[ptr[t]] = hnd[t] /\ ptr[t] \in Chained
  BY DEF IInv, HeapInv, CallOnItsSocket
<1>2. pc[t] \in Acting \cup Searching => pc[t] \notin Detached
  BY DEF Acting, Searching, Detached, Resting, InAdd, InClone, InEnd
<1>3. QED
  BY <1>1, <1>2 DEF Held, Registered, IInv, SideInv, CallNumber

-----------------------------------------------------------------------------
(* How each step changes the set of registered numbers.                    *)

LEMMA SameChains ==
  ASSUME UNCHANGED <<chain, sid>> PROVE Registered' = Registered
BY DEF Registered, Chained

(* A fresh block is not linked, so what it holds is not registered.        *)
LEMMA AllocRegisters ==
  ASSUME IInv, NEW t \in Threads, NewAlloc(t)
  PROVE  Registered' = Registered /\ \A b \in Chained : sid'[b] = sid[b]
<1>1. PICK b \in Blocks \ heap : sid' = [sid EXCEPT ![b] = 0]
  BY DEF NewAlloc
<1>2. Chained' = Chained
  BY DEF NewAlloc, Chained
<1>3. b \notin Chained /\ Chained \subseteq Blocks
  BY DEF IInv, HeapInv, ChainsSound, TypeOK
<1>4. \A c \in Chained : sid'[c] = sid[c]
  BY <1>1, <1>3 DEF IInv, TypeOK
<1>5. QED
  BY <1>2, <1>4 DEF Registered

LEMMA InsertRegisters ==
  ASSUME IInv, NEW t \in Threads, NewInsert(t)
  PROVE  /\ Registered' = Registered \cup {counter + 1}
         /\ \A b \in Chained : sid'[b] = sid[b]
         /\ ptr[t] \in Blocks /\ sid'[ptr[t]] = counter + 1
<1>1. ptr[t] \in heap \ Chained
  BY DEF IInv, HeapInv, OwnedBlock, NewInsert, Register, Owning, InAdd
<1>2. sid' = [sid EXCEPT ![ptr[t]] = counter + 1] /\ ptr[t] \in Blocks
  BY <1>1 DEF NewInsert, Register, IInv, TypeOK
<1>3. Chained' = Chained \cup {ptr[t]}
  <2>1. counter + 1 \in Nat /\ chain \in [BucketIndex -> SUBSET Blocks]
    BY DEF IInv, TypeOK
  <2>2. (counter + 1) % Buckets \in BucketIndex
    BY <2>1, BucketOfNumber
  <2>3. chain' = [chain EXCEPT ![(counter + 1) % Buckets] = @ \cup {ptr[t]}]
    BY DEF NewInsert, Register
  <2>4. QED
    BY <2>1, <2>2, <2>3 DEF Chained
<1>4. sid'[ptr[t]] = counter + 1 /\ \A b \in Chained : sid'[b] = sid[b]
  BY <1>1, <1>2 DEF IInv, TypeOK
<1>5. QED
  BY <1>2, <1>3, <1>4 DEF Registered

LEMMA UnlinkChains ==
  ASSUME IInv, NEW t \in Threads, RemUnlink(t)
  PROVE  ptr[t] \in Chained /\ Chained' = Chained \ {ptr[t]}
<1>1. ptr[t] \in Chained /\ ptr[t] \in Blocks
  BY DEF IInv, HeapInv, CallOnItsSocket, RemUnlink, Acting, PointerOK,
     Pointing
<1>2. \A i \in BucketIndex :
        chain'[i] = IF i = sid[ptr[t]] % Buckets THEN chain[i] \ {ptr[t]}
                    ELSE chain[i]
  BY DEF RemUnlink, IInv, TypeOK
<1>3. \A i \in BucketIndex :
        ptr[t] \in chain[i] => i = sid[ptr[t]] % Buckets
  BY DEF IInv, HeapInv, ChainsSound
<1>4. \A i \in BucketIndex : chain'[i] = chain[i] \ {ptr[t]}
  BY <1>2, <1>3
<1>5. \A b : b \in Chained' <=> b \in Chained \ {ptr[t]}
  BY <1>4 DEF Chained
<1>6. QED
  BY <1>1, <1>5

LEMMA UnlinkRegisters ==
  ASSUME IInv, NEW t \in Threads, RemUnlink(t)
  PROVE  Registered' = Registered \ {sid[ptr[t]]}
<1>1. ptr[t] \in Chained /\ Chained' = Chained \ {ptr[t]}
  BY UnlinkChains
<1>2. \A b \in Chained : sid[b] = sid[ptr[t]] => b = ptr[t]
  BY <1>1 DEF IInv, HeapInv, ChainsSound
<1>3. sid' = sid
  BY DEF RemUnlink
<1>4. QED
  BY <1>1, <1>2, <1>3 DEF Registered

LEMMA EndRegisters ==
  ASSUME EndFree PROVE Registered' = {}
BY DEF EndFree, Registered, Chained
-----------------------------------------------------------------------------
(* The refinement.  Most steps of the registry are invisible in the table. *)

LEMMA TableInit == Init => Table!Init
<1> SUFFICES ASSUME Init PROVE Table!Init
  OBVIOUS
<1>1. Registered = {}
  BY DEF Init, Registered, Chained
<1>2. \A t \in Threads : pc[t] \notin Searching /\ pc[t] \notin Acting
  BY DEF Init, Searching, Acting
<1>3. QED
  BY <1>1, <1>2 DEF Init, Table!Init

TableSame ==
  /\ UNCHANGED <<counter, mutexUp, raced>>
  /\ Registered' = Registered /\ Want' = Want /\ Held' = Held

(* A step within a phase of a call changes neither what the call asks for  *)
(* nor what it holds.                                                      *)
LEMMA Invisible ==
  ASSUME IInv, NEW t \in Threads,
         UNCHANGED <<counter, mutexUp, raced>>,
         Registered' = Registered,
         \A b \in Chained : sid'[b] = sid[b],
         \A u \in Threads \ {t} :
           \/ pc'[u] = pc[u] /\ hnd'[u] = hnd[u] /\ ptr'[u] = ptr[u]
           \/ {pc[u], pc'[u]} \cap (Searching \cup Acting) = {},
         pc[t] \in Searching <=> pc'[t] \in Searching,
         pc[t] \in Acting <=> pc'[t] \in Acting,
         pc[t] \in Searching => hnd'[t] = hnd[t],
         pc[t] \in Acting => ptr'[t] = ptr[t]
  PROVE  TableSame
<1>1. \A u \in Threads : pc[u] \in Acting => ptr[u] \in Chained
  BY DEF IInv, HeapInv, CallOnItsSocket
<1>2. Want' = Want
  BY DEF Want
<1>3. Held' = Held
  BY <1>1 DEF Held
<1>4. QED
  BY <1>2, <1>3 DEF TableSame

(* A step that leaves registered sockets and the pointers of the others    *)
(* alone changes one entry of Want and of Held.                            *)
LEMMA OneEntry ==
  ASSUME IInv, NEW t \in Threads,
         \A b \in Chained : sid'[b] = sid[b],
         \A u \in Threads \ {t} :
           pc'[u] = pc[u] /\ hnd'[u] = hnd[u] /\ ptr'[u] = ptr[u]
  PROVE  /\ Want' = [Want EXCEPT ![t] = Want'[t]]
         /\ Held' = [Held EXCEPT ![t] = Held'[t]]
<1>1. \A u \in Threads : pc[u] \in Acting => ptr[u] \in Chained
  BY DEF IInv, HeapInv, CallOnItsSocket
<1>2. \A u \in Threads \ {t} : Want'[u] = Want[u]
  BY DEF Want
<1>3. \A u \in Threads \ {t} : Held'[u] = Held[u]
  BY <1>1 DEF Held
<1>4. QED
  BY <1>2, <1>3 DEF Want, Held

LEMMA SameIsStutter == ASSUME TableSame PROVE UNCHANGED Table!vars
BY DEF TableSame, Table!vars, Want, Held

LEMMA IssueStep ==
  ASSUME IInv, raced' = raced, NEW t \in Threads, NewInsert(t)
  PROVE  Table!Issue(t)
<1>1. /\ pc[t] = "new_insert" /\ pc' = [pc EXCEPT ![t] = "new_bless"]
      /\ counter' = counter + 1 /\ UNCHANGED <<mutexUp, ptr>>
      /\ hnd' = [hnd EXCEPT ![t] = counter + 1]
  BY DEF NewInsert, Register
<1>2. pc \in [Threads -> PcValues] /\ hnd \in [Threads -> Nat]
  BY DEF IInv, TypeOK
<1>3. mutexUp
  BY <1>1 DEF IInv, SideInv, Shutdown, Resting
<1>4. Registered' = Registered \cup {counter + 1} /\ sid'[ptr[t]] = counter + 1
  BY InsertRegisters
<1>5. Held[t] = 0 /\ Held'[t] = counter + 1 /\ Want[t] = 0 /\ Want'[t] = 0
  BY <1>1, <1>2, <1>4 DEF Held, Want, Acting, Searching
<1>6. /\ Held' = [Held EXCEPT ![t] = counter + 1]
      /\ Want' = [Want EXCEPT ![t] = 0]
  BY <1>1, <1>2, <1>5, InsertRegisters, OneEntry
<1>7. Want' = Want
  BY <1>5, <1>6 DEF Want
<1>8. QED
  BY <1>1, <1>3, <1>4, <1>5, <1>6, <1>7 DEF Table!Issue, Want, Held

LEMMA AskStep ==
  ASSUME IInv, raced' = raced, NEW t \in Threads, NEW m \in Ops,
         NEW h \in handles[t], FindEnter(t, m, h)
  PROVE  Table!Ask(t, h)
<1>1. /\ pc[t] = "idle" /\ mutexUp
      /\ pc' = [pc EXCEPT ![t] = "find_lock"]
      /\ hnd' = [hnd EXCEPT ![t] = h]
      /\ UNCHANGED <<counter, chain, sid, mutexUp, ptr>>
  BY DEF FindEnter, IInv, SideInv, Shutdown
<1>2. pc \in [Threads -> PcValues] /\ hnd \in [Threads -> Nat]
  BY DEF IInv, TypeOK
<1>3. Registered' = Registered
  BY <1>1, SameChains
<1>4. h \in 1 .. counter
  BY DEF IInv, SideInv, ObjectsIssued
<1>5. Held[t] = 0 /\ Held'[t] = 0 /\ Want[t] = 0 /\ Want'[t] = h
  BY <1>1, <1>2 DEF Held, Want, Acting, Searching
<1>6. /\ Held' = [Held EXCEPT ![t] = 0]
      /\ Want' = [Want EXCEPT ![t] = h]
  BY <1>1, <1>2, <1>5, OneEntry
<1>7. Held' = Held
  BY <1>5, <1>6 DEF Held
<1>8. QED
  BY <1>1, <1>3, <1>4, <1>5, <1>6, <1>7 DEF Table!Ask, Want, Held

LEMMA GrantStep ==
  ASSUME IInv, IInv', raced' = raced, NEW t \in Threads, FindHit(t)
  PROVE  Table!Grant(t)
<1>1. /\ pc[t] = "find_walk" /\ pc' = [pc EXCEPT ![t] = AfterFind(op[t])]
      /\ UNCHANGED <<counter, chain, sid, mutexUp, hnd>>
      /\ \E b \in Matches(hnd[t]) : ptr' = [ptr EXCEPT ![t] = b]
  BY DEF FindHit
<1>2. /\ pc \in [Threads -> PcValues] /\ pc' \in [Threads -> PcValues]
      /\ hnd \in [Threads -> Nat] /\ ptr \in [Threads -> Blocks \cup {NoBlock}]
  BY DEF IInv, TypeOK
<1>3. pc'[t] \in Acting /\ pc'[t] \notin Searching
  BY <1>1, <1>2 DEF AfterFind, Acting, Searching
<1>4. Registered' = Registered
  BY <1>1, SameChains
<1>5. sid'[ptr'[t]] = hnd[t] /\ hnd[t] \in Registered
  BY <1>1, <1>3, <1>4 DEF IInv, HeapInv, CallOnItsSocket, Registered
<1>6. Held'[t] = hnd[t] /\ Want[t] = hnd[t] /\ Want'[t] = 0
  BY <1>1, <1>3, <1>5 DEF Held, Want, Searching
<1>7. /\ Held' = [Held EXCEPT ![t] = hnd[t]]
      /\ Want' = [Want EXCEPT ![t] = 0]
  BY <1>1, <1>2, <1>6, OneEntry
<1>8. QED
  BY <1>1, <1>4, <1>5, <1>6, <1>7 DEF Table!Grant, Want, Held

(* A walk that finds nothing has looked in the only chain where the number *)
(* can be.                                                                 *)
LEMMA DenyStep ==
  ASSUME IInv, raced' = raced, NEW t \in Threads, FindMiss(t)
  PROVE  Table!Deny(t)
<1>1. /\ pc[t] = "find_walk" /\ pc' = [pc EXCEPT ![t] = "idle"]
      /\ hnd' = [hnd EXCEPT ![t] = 0] /\ ptr' = [ptr EXCEPT ![t] = NoBlock]
      /\ UNCHANGED <<counter, chain, sid, mutexUp>>
      /\ Matches(hnd[t]) = {}
  BY DEF FindMiss
<1>2. /\ pc \in [Threads -> PcValues] /\ hnd \in [Threads -> Nat]
      /\ ptr \in [Threads -> Blocks \cup {NoBlock}]
  BY DEF IInv, TypeOK
<1>3. Registered' = Registered
  BY <1>1, SameChains
<1>4. hnd[t] \in 1 .. counter
  BY <1>1, HeldNumber DEF Searching
<1>5. hnd[t] \notin Registered
  <2>1. ASSUME NEW i \in BucketIndex, NEW b \in chain[i], sid[b] = hnd[t]
        PROVE  b \in Matches(hnd[t])
    BY <2>1 DEF IInv, HeapInv, ChainsSound, Matches
  <2>2. QED
    BY <1>1, <2>1 DEF Registered, Chained
<1>6. /\ Held[t] = 0 /\ Held'[t] = 0 /\ Want'[t] = 0
      /\ Want[t] = hnd[t] /\ Want[t] # 0
  BY <1>1, <1>2, <1>4 DEF Held, Want, Searching, Acting
<1>7. /\ Held' = [Held EXCEPT ![t] = 0]
      /\ Want' = [Want EXCEPT ![t] = 0]
  BY <1>1, <1>2, <1>6, OneEntry
<1>8. Held' = Held
  BY <1>6, <1>7 DEF Held
<1>9. QED
  BY <1>1, <1>3, <1>5, <1>6, <1>7, <1>8 DEF Table!Deny, Want, Held

LEMMA LeaveStep ==
  ASSUME IInv, raced' = raced, NEW t \in Threads,
         NewBless(t) \/ UseSocket(t) \/ DecKeep(t)
  PROVE  Table!Leave(t)
<1>1. /\ pc[t] \in Acting /\ pc[t] \notin Searching
      /\ pc' = [pc EXCEPT ![t] = "idle"]
      /\ hnd' = [hnd EXCEPT ![t] = 0] /\ ptr' = [ptr EXCEPT ![t] = NoBlock]
      /\ UNCHANGED <<counter, chain, sid, mutexUp>>
  BY DEF NewBless, UseSocket, DecKeep, Acting, Searching
<1>2. /\ pc \in [Threads -> PcValues] /\ hnd \in [Threads -> Nat]
      /\ ptr \in [Threads -> Blocks \cup {NoBlock}]
  BY DEF IInv, TypeOK
<1>3. Registered' = Registered
  BY <1>1, SameChains
<1>4. Held[t] # 0
  BY <1>1, HeldNumber
<1>5. Held'[t] = 0 /\ Want[t] = 0 /\ Want'[t] = 0
  BY <1>1, <1>2 DEF Held, Want, Searching, Acting
<1>6. /\ Held' = [Held EXCEPT ![t] = 0]
      /\ Want' = [Want EXCEPT ![t] = 0]
  BY <1>1, <1>2, <1>5, OneEntry
<1>7. Want' = Want
  BY <1>5, <1>6 DEF Want
<1>8. QED
  BY <1>1, <1>3, <1>4, <1>6, <1>7 DEF Table!Leave, Want, Held

LEMMA RetireStep ==
  ASSUME IInv, raced' = raced, NEW t \in Threads, RemUnlink(t)
  PROVE  Table!Retire(t)
<1>1. /\ pc[t] = "rem_unlink" /\ pc' = [pc EXCEPT ![t] = "rem_free"]
      /\ UNCHANGED <<counter, sid, mutexUp, hnd, ptr>>
  BY DEF RemUnlink
<1>2. pc \in [Threads -> PcValues]
  BY DEF IInv, TypeOK
<1>3. Held[t] = sid[ptr[t]] /\ Held[t] \in Registered
  BY <1>1, HeldNumber DEF Held, Acting
<1>4. Registered' = Registered \ {Held[t]}
  BY <1>3, UnlinkRegisters
<1>5. Held'[t] = 0 /\ Want[t] = 0 /\ Want'[t] = 0
  BY <1>1, <1>2 DEF Held, Want, Searching, Acting
<1>6. /\ Held' = [Held EXCEPT ![t] = 0]
      /\ Want' = [Want EXCEPT ![t] = 0]
  BY <1>1, <1>2, <1>5, OneEntry
<1>7. Want' = Want
  BY <1>5, <1>6 DEF Want
<1>8. ASSUME NEW u \in Threads \ {t} PROVE Held[u] # Held[t]
  <2>1. pc[u] \in Acting => ptr[u] # ptr[t]
    <3>1. ~raced'
      BY DEF IInv
    <3>2. Beside(t, ptr[t]) = {}
      BY <3>1 DEF RemUnlink, Race
    <3>3. QED
      BY <3>2 DEF Beside
  <2>2. ptr[t] \in Chained /\ (pc[u] \in Acting => ptr[u] \in Chained)
    BY <1>1 DEF IInv, HeapInv, CallOnItsSocket, Acting
  <2>3. sid[ptr[t]] # 0
    BY <2>2 DEF IInv, HeapInv, ChainsSound, Chained
  <2>4. QED
    BY <1>3, <2>1, <2>2, <2>3 DEF Held, IInv, HeapInv, ChainsSound
<1>9. QED
  BY <1>1, <1>3, <1>4, <1>6, <1>7, <1>8 DEF Table!Retire, Want, Held

LEMMA CloseStep ==
  ASSUME IInv, IInv', raced' = raced, EndFree PROVE Table!Close
<1>1. /\ pc[Main] = "end_free" /\ pc' = [pc EXCEPT ![Main] = "idle"]
      /\ UNCHANGED <<counter, sid, hnd, ptr>> /\ ~mutexUp'
  BY DEF EndFree
<1>2. mutexUp /\ pc \in [Threads -> PcValues]
  BY <1>1, ConstantsAssumption DEF IInv, TypeOK, SideInv, Shutdown, InEnd
<1>3. Registered' = {}
  BY EndRegisters
<1>4. \A u \in Threads : /\ pc[u] \notin Searching \cup Acting
                         /\ pc'[u] \notin Searching \cup Acting
  <2>1. \A u \in Threads : pc'[u] \in Resting \cup {"rem_free"}
    BY <1>1 DEF IInv, SideInv, Shutdown
  <2>2. \A u \in Threads \ {Main} : pc[u] \in Resting \cup {"rem_free"}
    BY <1>1, <1>2, <2>1
  <2>3. QED
    BY <1>1, <2>1, <2>2 DEF Searching, Acting, Resting
<1>5. \A u \in Threads : Want[u] = 0 /\ Held[u] = 0
  BY <1>4 DEF Want, Held
<1>6. Want' = Want /\ Held' = Held
  BY <1>4 DEF Want, Held
<1>7. QED
  BY <1>1, <1>2, <1>3, <1>5, <1>6 DEF Table!Close, Want, Held
-----------------------------------------------------------------------------
(* The steps the table does not see.                                       *)
LEMMA InvisibleStep ==
  ASSUME IInv, raced' = raced, NEW t \in Threads,
         \/ NewAlloc(t) \/ NewFail(t) \/ NewLock(t) \/ NewReject(t)
         \/ FindLock(t) \/ DropFlag(t) \/ DecRead(t) \/ DecWrite(t)
         \/ DecLast(t) \/ RemLock(t) \/ RemFree(t)
         \/ CloneLock(t) \/ ClonePick(t) \/ CloneSkip(t) \/ CloneWrite(t)
         \/ Exit(t)
         \/ \E c \in Threads : Spawn(t, c)
         \/ \E m \in Ops : \E h \in handles[t] : FindRefused(t, m, h)
  PROVE  TableSame
<1> USE DEF IInv, TypeOK, Searching, Acting
<1>1. CASE NewAlloc(t)
  <2>1. Registered' = Registered /\ \A b \in Chained : sid'[b] = sid[b]
    BY <1>1, AllocRegisters
  <2>2. QED
    BY <1>1, <2>1, Invisible DEF NewAlloc
<1>2. CASE NewFail(t)
  BY <1>2, SameChains, Invisible DEF NewFail
<1>3. CASE NewLock(t)
  BY <1>3, SameChains, Invisible DEF NewLock
<1>4. CASE NewReject(t)
  BY <1>4, SameChains, Invisible DEF NewReject
<1>5. CASE FindLock(t)
  BY <1>5, SameChains, Invisible DEF FindLock
<1>6. CASE DropFlag(t)
  BY <1>6, SameChains, Invisible DEF DropFlag
<1>7. CASE DecRead(t)
  BY <1>7, SameChains, Invisible DEF DecRead
<1>8. CASE DecWrite(t)
  BY <1>8, SameChains, Invisible DEF DecWrite
<1>9. CASE DecLast(t)
  BY <1>9, SameChains, Invisible DEF DecLast
<1>10. CASE RemLock(t)
  BY <1>10, SameChains, Invisible DEF RemLock
<1>11. CASE RemFree(t)
  BY <1>11, SameChains, Invisible DEF RemFree
<1>12. CASE CloneLock(t)
  BY <1>12, SameChains, Invisible DEF CloneLock
<1>13. CASE ClonePick(t)
  BY <1>13, SameChains, Invisible DEF ClonePick
<1>14. CASE CloneSkip(t)
  BY <1>14, SameChains, Invisible DEF CloneSkip
<1>15. CASE CloneWrite(t)
  BY <1>15, SameChains, Invisible DEF CloneWrite
<1>16. CASE Exit(t)
  BY <1>16, SameChains, Invisible DEF Exit
<1>17. ASSUME NEW c \in Threads, Spawn(t, c) PROVE TableSame
  BY <1>17, SameChains, Invisible DEF Spawn
<1>18. ASSUME NEW m \in Ops, NEW h \in handles[t], FindRefused(t, m, h)
      PROVE  TableSame
  BY <1>18, SameChains, Invisible DEF FindRefused
<1>19. QED
  BY <1>1, <1>2, <1>3, <1>4, <1>5, <1>6, <1>7, <1>8, <1>9, <1>10, <1>11,
     <1>12, <1>13, <1>14, <1>15, <1>16, <1>17, <1>18

(* CLONE's last step also starts the new thread, which is in no call.      *)
LEMMA CloneDoneInvisible ==
  ASSUME IInv, raced' = raced, NEW t \in Threads, CloneDone(t)
  PROVE  TableSame
<1>1. pc[t] = "clone_pick" /\ pc[kid[t]] = "unborn" /\ kid[t] \in Threads
  BY DEF CloneDone, IInv, TypeOK, SideInv, KidWaits, InClone
<1>2. Registered' = Registered
  BY SameChains DEF CloneDone
<1>3. /\ pc' = [pc EXCEPT ![t] = "idle", ![kid[t]] = "idle"]
      /\ ptr' = [ptr EXCEPT ![t] = NoBlock]
      /\ UNCHANGED <<counter, mutexUp, hnd, sid>>
  BY DEF CloneDone, blocks
<1>4. /\ pc \in [Threads -> PcValues]
      /\ ptr \in [Threads -> Blocks \cup {NoBlock}]
  BY DEF IInv, TypeOK
<1>5. pc'[t] = "idle" /\ pc'[kid[t]] = "idle"
  BY <1>1, <1>3, <1>4
<1>6. ASSUME NEW u \in Threads \ {t}
      PROVE  \/ pc'[u] = pc[u] /\ hnd'[u] = hnd[u] /\ ptr'[u] = ptr[u]
             \/ {pc[u], pc'[u]} \cap (Searching \cup Acting) = {}
  <2>1. CASE u = kid[t]
    BY <2>1, <1>1, <1>5 DEF Searching, Acting
  <2>2. CASE u # kid[t]
    BY <2>2, <1>3, <1>4
  <2>3. QED
    BY <2>1, <2>2
<1>7. /\ pc[t] \notin Searching \cup Acting
      /\ pc'[t] \notin Searching \cup Acting
  BY <1>1, <1>5 DEF Searching, Acting
<1>8. QED
  BY <1>2, <1>3, <1>6, <1>7, Invisible

LEMMA EndInvisible ==
  ASSUME IInv, raced' = raced, EndEnter \/ EndLock PROVE TableSame
<1>1. /\ pc[Main] \in {"idle", "end_lock"}
      /\ pc'[Main] \in {"end_lock", "end_free"}
      /\ \A u \in Threads \ {Main} : pc'[u] = pc[u]
      /\ UNCHANGED <<counter, chain, sid, mutexUp, hnd, ptr>>
  BY ConstantsAssumption DEF EndEnter, EndLock, IInv, TypeOK
<1>2. Registered' = Registered
  BY <1>1, SameChains
<1>3. QED
  BY <1>1, <1>2, Invisible, ConstantsAssumption DEF Searching, Acting

LEMMA TableStep ==
  ASSUME IInv, IInv', [Next]_vars PROVE [Table!Next]_(Table!vars)
<1>0. raced' = raced
  BY DEF IInv, TypeOK
<1>1. CASE UNCHANGED vars
  <2>1. Registered' = Registered
    BY <1>1, SameChains
  <2>2. TableSame
    BY <1>1, <2>1 DEF TableSame, Want, Held
  <2>3. QED
    BY <2>2, SameIsStutter
<1>2. CASE End
  BY <1>0, <1>2, CloseStep, EndInvisible, SameIsStutter
     DEF End, Table!Next
<1>3. ASSUME NEW t \in Threads, Begin(t)
      PROVE  [Table!Next]_(Table!vars)
  <2>2. ASSUME NEW m \in Ops, NEW h \in handles[t], FindEnter(t, m, h)
        PROVE  Table!Next
    <3>1. h \in 1 .. counter
      BY DEF IInv, SideInv, ObjectsIssued
    <3>2. QED
      BY <1>0, <2>2, <3>1, AskStep DEF Table!Next
  <2>3. QED
    BY <1>0, <1>3, <2>2, InvisibleStep, SameIsStutter DEF Begin
<1>4. ASSUME NEW t \in Threads, Continue(t)
      PROVE  [Table!Next]_(Table!vars)
  <2>1. CASE NewInsert(t) \/ FindHit(t) \/ FindMiss(t) \/ RemUnlink(t)
             \/ NewBless(t) \/ UseSocket(t) \/ DecKeep(t)
    BY <1>0, <2>1, IssueStep, GrantStep, DenyStep, RetireStep, LeaveStep
       DEF Table!Next
  <2>2. CASE ~(NewInsert(t) \/ FindHit(t) \/ FindMiss(t) \/ RemUnlink(t)
               \/ NewBless(t) \/ UseSocket(t) \/ DecKeep(t))
    BY <1>0, <1>4, <2>2, InvisibleStep, CloneDoneInvisible, SameIsStutter
       DEF Continue
  <2>3. QED
    BY <2>1, <2>2
<1>5. QED
  BY <1>1, <1>2, <1>3, <1>4 DEF Next

(* The registry implements the handle table, whatever scripts do: what a   *)
(* search found stays true for the call that searched, although the mutex  *)
(* is released, until a caller breaks the table's rules by a race.         *)
THEOREM RegistryIsTable == Spec => ImplementsTable
<1>1. (raced \/ IInv) /\ [Next]_vars => [Table!Next]_(Table!vars)
  <2>1. ASSUME [Next]_vars, raced' PROVE Table!Next
    BY <2>1 DEF Table!Next, Table!Break
  <2>2. ASSUME IInv, [Next]_vars, ~raced' PROVE [Table!Next]_(Table!vars)
    BY <2>2, InvStep, TableStep
  <2>3. QED
    BY <2>1, <2>2, RacedStays
<1>2. QED
  BY TableInit, <1>1, InvCorrect, PTL DEF Spec, Table!Spec, ImplementsTable
-----------------------------------------------------------------------------
(***************************************************************************)
(* The counts.  As long as neither a race nor a miscount has happened,     *)
(* refcnt is the number of threads that use the socket: that have an       *)
(* object of it, unless CLONE has still to count it, or that are in a call *)
(* between the registration of the socket and its object, or between the   *)
(* end of the object and the decrement.  Calls overlap in every way: what  *)
(* has to be shown of each step is that it changes the users of no socket  *)
(* but as it changes the count.                                            *)
(***************************************************************************)

Leaving == {"rem_lock", "rem_unlink"}
Dropping == {"drop", "dec_read", "dec_write"}

(* A socket that new has not returned, or is about to free again.          *)
Fresh(t) == pc[t] = "new_bless" \/ (pc[t] \in Leaving /\ op[t] = "use")

(* The call has a count of socket h for which there is no object.          *)
Giving(t, h) ==
  /\ hnd[t] = h
  /\ \/ Fresh(t) \/ pc[t] \in Dropping
     \/ pc[t] \in Searching /\ op[t] = "DESTROY"

(* Thread c is being created, and CLONE has not yet counted its copy of b. *)
Awaited(c, b) ==
  \E u \in Threads :
    /\ pc[u] \in InClone /\ kid[u] = c
    /\ \/ pc[u] = "clone_lock"
       \/ b \in todo[u]
       \/ pc[u] = "clone_write" /\ ptr[u] = b

Users(b) ==
  {t \in Threads : \/ Giving(t, sid[b])
                   \/ sid[b] \in handles[t] /\ ~Awaited(t, b)}

(* DESTROY works for an object that is gone, free and the other methods    *)
(* for one that is there.                                                  *)
Calling(t) ==
  /\ pc[t] \in Dropping \cup {"dec_test"} => op[t] = "DESTROY"
  /\ pc[t] \in Detached \cup {"new_bless", "use"} => op[t] = "use"
  /\ op[t] = "DESTROY" => hnd[t] \notin handles[t]
  /\ \/ op[t] = "free"
     \/ op[t] = "use" /\ pc[t] \in Searching \cup {"use"}
     => hnd[t] \in handles[t]
  /\ op[t] = "free" /\ pc[t] \in Leaving => hnd[t] \in freed

(* Nobody else knows the number of a socket that new has not returned.     *)
Handed ==
  \A t, u \in Threads :
    Fresh(t) => /\ hnd[t] \notin handles[u]
                /\ t # u /\ Fresh(u) => hnd[t] # hnd[u]

(* The new thread has what its creator has, until it runs.                 *)
Copied ==
  \A t \in Threads : pc[t] \in InClone =>
    /\ handles[kid[t]] = handles[t]
    /\ pc[t] = "clone_write" =>
         sid[ptr[t]] \in handles[t] /\ ptr[t] \notin todo[t]

Unborn ==
  \A c \in Threads : pc[c] = "unborn" /\ handles[c] # {} =>
    \E u \in Threads : pc[u] \in InClone /\ kid[u] = c

Habits == (\A t \in Threads : Calling(t)) /\ Handed /\ Copied /\ Unborn

(* Once END has begun, a DESTROY no longer counts.                         *)
Counts ==
  \A b \in Chained :
    /\ refcnt[b] \in Nat /\ Cardinality(Users(b)) <= refcnt[b]
    /\ ~destroyed => refcnt[b] = Cardinality(Users(b))

(* A DESTROY that has seen the last reference go, or has found it gone.    *)
Last(t) == pc[t] = "dec_test" /\ tmp[t] = 1
Zero ==
  \A t \in Threads :
    /\ pc[t] = "dec_test" => tmp[t] >= 1
    /\ Last(t) \/ (pc[t] \in Leaving /\ op[t] = "DESTROY") =>
         refcnt[ptr[t]] = 0

(* A socket without users is about to be freed.                            *)
Alive ==
  \A b \in Chained : refcnt[b] = 0 =>
    \E t \in Threads : (Last(t) \/ pc[t] \in Leaving) /\ ptr[t] = b

CountInv == Habits /\ Counts /\ Zero /\ Alive /\ ObjectKeepsSocket

(* Nothing of this outlives END, which empties the chains.                 *)
Ended == destroyed /\ pc[Main] \notin InEnd => Chained = {} /\ ~mutexUp
-----------------------------------------------------------------------------
(* A set of users is finite.                                               *)
LEMMA UsersFinite ==
  ASSUME NEW b
  PROVE  IsFiniteSet(Users(b)) /\ Cardinality(Users(b)) \in Nat
<1>1. Users(b) \subseteq Threads
  BY DEF Users
<1> QED BY <1>1, ThreadsFinite, FS_Subset, FS_CardinalityType

(* A call that works on a pointer is on a linked block, with its number.   *)
LEMMA ActsOn ==
  ASSUME IInv, NEW t \in Threads, pc[t] \in Acting
  PROVE  ptr[t] \in Chained /\ sid[ptr[t]] = hnd[t] /\ ptr[t] \in Blocks
BY DEF IInv, HeapInv, CallOnItsSocket, PointerOK, Pointing

(* Two sets that differ at most in t, and agree on it.                     *)
LEMMA SameSet ==
  ASSUME NEW S, NEW T, NEW t, S \ {t} = T \ {t}, t \in S <=> t \in T
  PROVE  S = T
OBVIOUS

(* A step of thread t, which runs and creates no thread.                   *)
OwnStep(t) ==
  /\ pc[t] \notin InClone \cup {"unborn"}
  /\ pc'[t] \notin InClone \cup {"unborn"}
  /\ UNCHANGED <<kid, todo>>
  /\ \A u \in Threads \ {t} :
       /\ pc'[u] = pc[u] /\ hnd'[u] = hnd[u] /\ op'[u] = op[u]
       /\ ptr'[u] = ptr[u] /\ tmp'[u] = tmp[u] /\ handles'[u] = handles[u]

(* No running thread is awaited.                                           *)
LEMMA RunningCounts ==
  ASSUME IInv, NEW t \in Threads, pc[t] # "unborn", NEW b
  PROVE  ~Awaited(t, b)
BY DEF Awaited, IInv, SideInv, KidWaits

(* Such a step makes no other thread a user, nor ends it as one.           *)
LEMMA UsersStep ==
  ASSUME IInv, NEW t \in Threads, OwnStep(t), NEW b, sid'[b] = sid[b]
  PROVE  /\ Users(b)' \ {t} = Users(b) \ {t}
         /\ t \in Users(b) <=> Giving(t, sid[b]) \/ sid[b] \in handles[t]
         /\ t \in Users(b)' <=> Giving(t, sid[b])' \/ sid[b] \in handles'[t]
<1>1. ASSUME NEW c \in Threads PROVE Awaited(c, b)' <=> Awaited(c, b)
  BY DEF OwnStep, Awaited
<1>2. ~Awaited(t, b)
  BY RunningCounts DEF OwnStep
<1>3. \A u \in Threads \ {t} : Giving(u, sid[b])' <=> Giving(u, sid[b])
  BY DEF OwnStep, Giving, Fresh
<1>4. QED
  BY <1>1, <1>2, <1>3 DEF Users, OwnStep

LEMMA HabitsStep ==
  ASSUME IInv, Habits, NEW t \in Threads, OwnStep(t), Calling(t)', Handed',
         freed \subseteq freed', \A b \in Chained : sid'[b] = sid[b]
  PROVE  Habits'
<1>1. \A u \in Threads : Calling(u)'
  <2> SUFFICES ASSUME NEW u \in Threads \ {t} PROVE Calling(u)'
    OBVIOUS
  <2>1. Calling(u)
    BY DEF Habits
  <2>2. QED
    BY <2>1 DEF OwnStep, Calling
<1>2. Copied'
  <2> SUFFICES ASSUME NEW u \in Threads, pc'[u] \in InClone
               PROVE  /\ handles'[kid'[u]] = handles'[u]
                      /\ pc'[u] = "clone_write" =>
                           /\ sid'[ptr'[u]] \in handles'[u]
                           /\ ptr'[u] \notin todo'[u]
    BY DEF Copied
  <2>1. u # t /\ pc[u] \in InClone /\ pc'[u] = pc[u] /\ ptr'[u] = ptr[u]
        /\ handles'[u] = handles[u] /\ kid'[u] = kid[u] /\ todo'[u] = todo[u]
    BY DEF OwnStep
  <2>2. kid[u] # t /\ kid[u] \in Threads
    BY <2>1 DEF OwnStep, IInv, SideInv, KidWaits, TypeOK
  <2>3. handles'[kid[u]] = handles[kid[u]]
    BY <2>2 DEF OwnStep
  <2>4. pc[u] = "clone_write" => sid'[ptr[u]] = sid[ptr[u]]
    BY DEF IInv, HeapInv, CloneWalk
  <2>5. QED
    BY <2>1, <2>3, <2>4 DEF Habits, Copied
<1>3. Unborn'
  <2> SUFFICES ASSUME NEW c \in Threads, pc'[c] = "unborn", handles'[c] # {}
               PROVE  \E u \in Threads : pc'[u] \in InClone /\ kid'[u] = c
    BY DEF Unborn
  <2>1. c # t /\ pc[c] = "unborn" /\ handles[c] # {}
    BY DEF OwnStep
  <2>2. PICK u \in Threads : pc[u] \in InClone /\ kid[u] = c
    BY <2>1 DEF Habits, Unborn
  <2>3. u # t
    BY <2>2 DEF OwnStep
  <2>4. QED
    BY <2>2, <2>3 DEF OwnStep
<1>4. QED
  BY <1>1, <1>2, <1>3 DEF Habits

(* A step of a call that changes no count of a socket that stays, nor what *)
(* the count stands for.                                                   *)
LEMMA CallStep ==
  ASSUME IInv, IInv', Exact, CountInv, NEW t \in Threads, OwnStep(t),
         Calling(t)', Fresh(t)' => Fresh(t) /\ hnd'[t] = hnd[t],
         handles'[t] \subseteq handles[t], freed \subseteq freed',
         destroyed => destroyed', mutexUp' => mutexUp,
         \A b \in Chained : sid'[b] = sid[b], Chained' \subseteq Chained,
         \A b \in Chained' :
           /\ refcnt'[b] = refcnt[b]
           /\ Giving(t, sid[b])' \/ sid[b] \in handles'[t] =>
                Giving(t, sid[b]) \/ sid[b] \in handles[t]
           /\ ~destroyed' /\ (Giving(t, sid[b]) \/ sid[b] \in handles[t]) =>
                Giving(t, sid[b])' \/ sid[b] \in handles'[t],
         pc'[t] # "dec_test",
         pc'[t] \in Leaving /\ op'[t] = "DESTROY" => refcnt[ptr'[t]] = 0,
         Last(t) \/ pc[t] \in Leaving =>
           \/ pc'[t] \in Leaving /\ ptr'[t] = ptr[t]
           \/ ptr[t] \notin Chained',
         \A b \in Chained \ Chained' : \A u \in Threads :
           sid[b] \in handles'[u] => sid[b] \in freed'
  PROVE  CountInv'
<1>1. Habits'
  <2>1. \A u \in Threads : /\ Fresh(u)' => Fresh(u) /\ hnd'[u] = hnd[u]
                           /\ handles'[u] \subseteq handles[u]
    BY DEF OwnStep, Fresh
  <2>2. Handed'
    BY <2>1 DEF CountInv, Habits, Handed
  <2>3. QED
    BY <2>2, HabitsStep DEF CountInv
<1>2. Counts'
  <2> SUFFICES ASSUME NEW b \in Chained'
               PROVE  /\ refcnt'[b] \in Nat
                      /\ Cardinality(Users(b))' <= refcnt'[b]
                      /\ ~destroyed' => refcnt'[b] = Cardinality(Users(b))'
    BY DEF Counts
  <2>1. b \in Chained /\ sid'[b] = sid[b] /\ refcnt'[b] = refcnt[b]
    OBVIOUS
  <2>2. /\ Users(b)' \ {t} = Users(b) \ {t}
        /\ t \in Users(b) <=> Giving(t, sid[b]) \/ sid[b] \in handles[t]
        /\ t \in Users(b)' <=> Giving(t, sid[b])' \/ sid[b] \in handles'[t]
    BY <2>1, UsersStep
  <2>3. Users(b)' \subseteq Users(b)
    BY <2>2
  <2>4. ASSUME ~destroyed' PROVE Users(b)' = Users(b)
    <3>1. t \in Users(b)' <=> t \in Users(b)
      BY <2>2, <2>4
    <3>2. QED
      BY <2>2, <3>1, SameSet
  <2>5. /\ Cardinality(Users(b)') <= Cardinality(Users(b))
        /\ Cardinality(Users(b)') \in Nat /\ Cardinality(Users(b)) \in Nat
    BY <2>3, UsersFinite, FS_Subset, FS_CardinalityType
  <2>6. /\ refcnt[b] \in Nat /\ Cardinality(Users(b)) <= refcnt[b]
        /\ ~destroyed => refcnt[b] = Cardinality(Users(b))
    BY <2>1 DEF CountInv, Counts
  <2>7. Cardinality(Users(b))' = Cardinality(Users(b)')
    OBVIOUS
  <2>8. QED
    BY <2>1, <2>4, <2>5, <2>6, <2>7
<1>3. Zero'
  <2> SUFFICES ASSUME NEW u \in Threads
               PROVE  /\ pc'[u] = "dec_test" => tmp'[u] >= 1
                      /\ \/ Last(u)'
                         \/ pc'[u] \in Leaving /\ op'[u] = "DESTROY"
                         => refcnt'[ptr'[u]] = 0
    BY DEF Zero
  <2>1. pc'[u] \in Leaving \cup {"dec_test"} =>
          refcnt'[ptr'[u]] = refcnt[ptr'[u]]
    BY DEF IInv, HeapInv, CallOnItsSocket, Acting, Leaving
  <2>2. CASE u = t
    BY <2>1, <2>2 DEF Last
  <2>3. CASE u # t
    BY <2>1, <2>3 DEF OwnStep, Last, CountInv, Zero
  <2>4. QED
    BY <2>2, <2>3
<1>4. Alive'
  <2> SUFFICES ASSUME NEW b \in Chained', refcnt'[b] = 0
               PROVE  \E u \in Threads :
                        (Last(u)' \/ pc'[u] \in Leaving) /\ ptr'[u] = b
    BY DEF Alive
  <2>1. PICK u \in Threads : (Last(u) \/ pc[u] \in Leaving) /\ ptr[u] = b
    BY DEF CountInv, Alive
  <2>2. CASE u = t
    BY <2>1, <2>2
  <2>3. CASE u # t
    BY <2>1, <2>3 DEF OwnStep, Last
  <2>4. QED
    BY <2>2, <2>3
<1>5. ObjectKeepsSocket'
  <2> SUFFICES ASSUME mutexUp', NEW u \in Threads, NEW h \in handles'[u],
                      h \notin freed'
               PROVE  h \in Registered'
    BY DEF ObjectKeepsSocket
  <2>1. h \in handles[u] /\ h \notin freed
    BY DEF OwnStep
  <2>2. PICK b \in Chained : h = sid[b]
    BY <2>1 DEF CountInv, ObjectKeepsSocket, Registered
  <2>3. b \in Chained' /\ sid'[b] = h
    BY <2>2
  <2>4. QED
    BY <2>3 DEF Registered
<1>6. QED
  BY <1>1, <1>2, <1>3, <1>4, <1>5 DEF CountInv
-----------------------------------------------------------------------------
(* A step of a call that changes neither counts nor objects.               *)
LEMMA QuietCall ==
  ASSUME IInv, IInv', Exact, CountInv, NEW t \in Threads, OwnStep(t),
         UNCHANGED <<chain, sid, refcnt, handles, destroyed, mutexUp, freed>>,
         Calling(t)', Fresh(t)' => Fresh(t) /\ hnd'[t] = hnd[t],
         \A b \in Chained : Giving(t, sid[b])' <=> Giving(t, sid[b]),
         pc'[t] # "dec_test",
         pc'[t] \in Leaving /\ op'[t] = "DESTROY" => refcnt[ptr'[t]] = 0,
         Last(t) \/ pc[t] \in Leaving =>
           pc'[t] \in Leaving /\ ptr'[t] = ptr[t]
  PROVE  CountInv'
<1>1. Chained' = Chained
  BY DEF Chained
<1>2. QED
  BY <1>1, CallStep

(* What a thread does in a call, or on its way into or out of one.         *)
LEMMA PlainStepsCount ==
  ASSUME IInv, IInv', Exact, CountInv, NEW t \in Threads,
         \/ NewFail(t) \/ NewLock(t) \/ NewReject(t) \/ FindLock(t)
         \/ UseSocket(t) \/ DropFlag(t) \/ DecRead(t) \/ RemLock(t)
         \/ RemFree(t)
  PROVE  CountInv'
<1> USE DEF NewFail, NewLock, NewReject, FindLock, UseSocket, DropFlag,
            DecRead, RemLock, RemFree
<1>1. Calling(t) /\ TypeOK
  BY DEF CountInv, Habits, IInv
<1>2. OwnStep(t)
  BY <1>1 DEF OwnStep, TypeOK, InClone
<1>3. /\ UNCHANGED <<chain, sid, refcnt, handles, destroyed, mutexUp, freed>>
      /\ pc'[t] # "dec_test" /\ ~Last(t)
      /\ pc[t] \in Leaving => pc'[t] \in Leaving /\ ptr'[t] = ptr[t]
  BY <1>1 DEF TypeOK, Leaving, Last
<1>4. Calling(t)'
  BY <1>1 DEF TypeOK, Calling, Leaving, Dropping, Searching, Detached,
     Resting, InAdd, InClone, InEnd, Owning
<1>5. /\ Fresh(t)' => Fresh(t) /\ hnd'[t] = hnd[t]
      /\ \A b \in Chained : Giving(t, sid[b])' <=> Giving(t, sid[b])
  BY <1>1 DEF TypeOK, Calling, Fresh, Giving, Leaving, Dropping, Searching
<1>6. pc'[t] \in Leaving /\ op'[t] = "DESTROY" => refcnt[ptr'[t]] = 0
  BY <1>1 DEF TypeOK, Leaving, CountInv, Zero, Calling
<1>7. QED
  BY <1>2, <1>3, <1>4, <1>5, <1>6, QuietCall

(* The number of a search that misses is of no linked socket.              *)
LEMMA FindMissCount ==
  ASSUME IInv, IInv', Exact, CountInv, NEW t \in Threads, FindMiss(t)
  PROVE  CountInv'
<1>1. Calling(t) /\ TypeOK
  BY DEF CountInv, Habits, IInv
<1>2. OwnStep(t) /\ pc'[t] = "idle" /\ op'[t] = "use" /\ pc[t] = "find_walk"
  BY <1>1 DEF FindMiss, OwnStep, TypeOK, InClone
<1>3. ASSUME NEW b \in Chained PROVE sid[b] # hnd[t]
  <2>1. PICK i \in BucketIndex : b \in chain[i]
    BY DEF Chained
  <2>2. sid[b] % Buckets = i
    BY <2>1 DEF IInv, HeapInv, ChainsSound
  <2>3. QED
    BY <2>1, <2>2 DEF FindMiss, Matches
<1>4. /\ Calling(t)' /\ ~Fresh(t)'
      /\ \A b \in Chained : Giving(t, sid[b])' <=> Giving(t, sid[b])
  BY <1>1, <1>2, <1>3 DEF FindMiss, TypeOK, Calling, Fresh, Giving, Leaving,
     Dropping, Searching, Detached, Resting
<1>5. QED
  BY <1>2, <1>4, QuietCall DEF FindMiss, Leaving, Last

LEMMA FindHitCount ==
  ASSUME IInv, IInv', Exact, CountInv, NEW t \in Threads, FindHit(t)
  PROVE  CountInv'
<1>1. Calling(t) /\ TypeOK
  BY DEF CountInv, Habits, IInv
<1>2. /\ OwnStep(t) /\ pc[t] = "find_walk" /\ pc'[t] = AfterFind(op[t])
      /\ UNCHANGED <<op, hnd, handles, chain, sid, refcnt>>
      /\ UNCHANGED <<destroyed, mutexUp>>
      /\ freed' = freed \cup (IF op[t] = "free" THEN {hnd[t]} ELSE {})
  BY <1>1 DEF FindHit, AfterFind, OwnStep, TypeOK, InClone
<1>3. Calling(t)'
  BY <1>1, <1>2 DEF AfterFind, TypeOK, Ops, Calling, Leaving, Dropping,
     Searching, Detached, Resting, InAdd, InClone, InEnd
<1>4. /\ ~Fresh(t)' /\ ~(pc'[t] \in Leaving /\ op'[t] = "DESTROY")
      /\ \A b \in Chained : Giving(t, sid[b])' <=> Giving(t, sid[b])
  BY <1>1, <1>2 DEF AfterFind, TypeOK, Ops, Calling, Fresh, Giving, Leaving,
     Dropping, Searching
<1>5. Chained' = Chained
  BY <1>2 DEF Chained
<1>6. pc[t] \notin Leaving /\ ~Last(t) /\ pc'[t] # "dec_test"
  BY <1>2 DEF Leaving, Last, AfterFind
<1>7. QED
  BY <1>2, <1>3, <1>4, <1>5, <1>6, CallStep

(* A DESTROY that keeps the socket has seen another reference; one that    *)
(* goes on to free it has counted to zero, or found that another has.      *)
LEMMA DecKeepCount ==
  ASSUME IInv, IInv', Exact, CountInv, NEW t \in Threads, DecKeep(t)
  PROVE  CountInv'
<1>1. Calling(t) /\ TypeOK
  BY DEF CountInv, Habits, IInv
<1>2. OwnStep(t) /\ pc'[t] = "idle" /\ op'[t] = "use" /\ pc[t] = "dec_test"
  BY <1>1 DEF DecKeep, OwnStep, TypeOK, InClone
<1>3. ~Last(t)
  <2>1. Last(t) => refcnt[ptr[t]] = 0
    BY DEF CountInv, Zero
  <2>2. QED
    BY <2>1 DEF DecKeep, Tested, Last
<1>4. /\ Calling(t)' /\ ~Fresh(t)'
      /\ \A b \in Chained : Giving(t, sid[b])' <=> Giving(t, sid[b])
  BY <1>1, <1>2 DEF DecKeep, TypeOK, Calling, Fresh, Giving, Leaving,
     Dropping, Searching, Detached, Resting
<1>5. QED
  BY <1>2, <1>3, <1>4, QuietCall DEF DecKeep, Leaving

LEMMA DecLastCount ==
  ASSUME IInv, IInv', Exact, CountInv, NEW t \in Threads, DecLast(t)
  PROVE  CountInv'
<1>1. Calling(t) /\ TypeOK
  BY DEF CountInv, Habits, IInv
<1>2. OwnStep(t) /\ pc'[t] = "rem_lock" /\ pc[t] = "dec_test"
  BY <1>1 DEF DecLast, OwnStep, TypeOK, InClone
<1>3. refcnt[ptr[t]] = 0
  <2>1. ptr[t] \in Chained
    BY <1>2, ActsOn DEF Acting
  <2>2. refcnt[ptr[t]] \in Nat /\ tmp[t] >= 1 /\ tmp[t] \in Int
    BY <1>1, <1>2, <2>1 DEF CountInv, Counts, Zero, TypeOK
  <2>3. tmp[t] - 1 <= 0 \/ refcnt[ptr[t]] <= 0
    BY DEF DecLast, Tested
  <2>4. tmp[t] = 1 => refcnt[ptr[t]] = 0
    BY <1>2 DEF CountInv, Zero, Last
  <2>5. QED
    BY <2>2, <2>3, <2>4
<1>4. /\ Calling(t)' /\ ~Fresh(t)'
      /\ \A b \in Chained : Giving(t, sid[b])' <=> Giving(t, sid[b])
  BY <1>1, <1>2 DEF DecLast, TypeOK, Calling, Fresh, Giving, Leaving,
     Dropping, Searching, Detached, Resting, InAdd, InClone, InEnd
<1>5. QED
  BY <1>2, <1>3, <1>4, QuietCall DEF DecLast, Leaving
-----------------------------------------------------------------------------
(* The steps that begin a call, and the end of a thread.                   *)

LEMMA NewAllocCount ==
  ASSUME IInv, IInv', Exact, CountInv, NEW t \in Threads, NewAlloc(t)
  PROVE  CountInv'
<1>1. Calling(t) /\ TypeOK
  BY DEF CountInv, Habits, IInv
<1>2. OwnStep(t) /\ pc'[t] = "new_add" /\ pc[t] = "idle"
  BY <1>1 DEF NewAlloc, OwnStep, TypeOK, InClone
<1>3. Chained' = Chained
  BY DEF NewAlloc, Chained
<1>4. \A b \in Chained : sid'[b] = sid[b] /\ refcnt'[b] = refcnt[b]
  <2>1. Chained \subseteq heap
    BY DEF IInv, HeapInv, ChainsSound
  <2>2. QED
    BY <1>1, <2>1 DEF NewAlloc, TypeOK
<1>5. UNCHANGED <<op, hnd, handles, freed, destroyed, mutexUp>>
  BY DEF NewAlloc
<1>6. /\ Calling(t)' /\ ~Fresh(t)'
      /\ \A b \in Chained : Giving(t, sid[b])' <=> Giving(t, sid[b])
  BY <1>1, <1>2, <1>5 DEF Calling, Fresh, Giving, Leaving, Dropping,
     Searching, Detached, Resting, InAdd
<1>7. pc[t] \notin Leaving /\ pc'[t] \notin Leaving /\ ~Last(t)
  BY <1>2 DEF Leaving, Last
<1>8. QED
  BY <1>2, <1>3, <1>4, <1>5, <1>6, <1>7, CallStep

(* A DESTROY takes over what its object counted.                           *)
LEMMA FindEnterCount ==
  ASSUME IInv, IInv', Exact, CountInv, NEW t \in Threads,
         NEW m \in Ops, NEW h \in handles[t], FindEnter(t, m, h)
  PROVE  CountInv'
<1>1. Calling(t) /\ TypeOK
  BY DEF CountInv, Habits, IInv
<1>2. /\ OwnStep(t) /\ pc'[t] = "find_lock" /\ pc[t] = "idle"
      /\ hnd'[t] = h /\ op'[t] = m /\ op[t] = "use"
      /\ handles'[t] = IF m = "DESTROY" THEN handles[t] \ {h} ELSE handles[t]
      /\ UNCHANGED <<chain, sid, refcnt, destroyed, mutexUp, freed>>
  BY <1>1 DEF FindEnter, HandlesAfter, OwnStep, TypeOK, InClone, Calling,
     Detached, Resting
<1>3. Chained' = Chained
  BY <1>2 DEF Chained
<1>4. Calling(t)' /\ ~Fresh(t)'
  BY <1>1, <1>2 DEF Calling, Fresh, Leaving, Dropping, Searching, Detached,
     Resting, InAdd, InClone, InEnd, Ops
<1>5. \A n : /\ ~Giving(t, n)
             /\ Giving(t, n)' <=> n = h /\ m = "DESTROY"
  BY <1>2 DEF Giving, Fresh, Leaving, Dropping, Searching
<1>6. \A n : Giving(t, n)' \/ n \in handles'[t] <=>
               Giving(t, n) \/ n \in handles[t]
  BY <1>2, <1>5
<1>7. pc[t] \notin Leaving /\ pc'[t] \notin Leaving /\ ~Last(t)
  BY <1>2 DEF Leaving, Last
<1>8. \A b \in Chained :
        Giving(t, sid[b])' \/ sid[b] \in handles'[t] <=>
          Giving(t, sid[b]) \/ sid[b] \in handles[t]
  BY <1>2, <1>6 DEF Giving, Fresh
<1>9. QED
  BY <1>2, <1>3, <1>4, <1>7, <1>8, CallStep

LEMMA FindRefusedCount ==
  ASSUME IInv, IInv', Exact, CountInv, NEW t \in Threads,
         NEW m \in Ops, NEW h \in handles[t], FindRefused(t, m, h)
  PROVE  CountInv'
<1>1. Calling(t) /\ TypeOK
  BY DEF CountInv, Habits, IInv
<1>2. /\ OwnStep(t) /\ pc'[t] = "idle" /\ pc[t] = "idle" /\ op[t] = "use"
      /\ handles'[t] \subseteq handles[t] /\ destroyed
      /\ UNCHANGED <<chain, sid, refcnt, destroyed, mutexUp, freed, op, hnd>>
  BY <1>1 DEF FindRefused, HandlesAfter, OwnStep, TypeOK, InClone, Calling,
     Detached, Resting
<1>3. Chained' = Chained
  BY <1>2 DEF Chained
<1>4. /\ Calling(t)' /\ ~Fresh(t)'
      /\ \A b \in Chained : ~Giving(t, sid[b])'
  BY <1>1, <1>2 DEF Calling, Fresh, Giving, Leaving, Dropping, Searching,
     Detached, Resting
<1>5. pc[t] \notin Leaving /\ pc'[t] \notin Leaving /\ ~Last(t)
  BY <1>2 DEF Leaving, Last
<1>6. QED
  BY <1>2, <1>3, <1>4, <1>5, CallStep

LEMMA ExitCount ==
  ASSUME IInv, IInv', Exact, CountInv, NEW t \in Threads, Exit(t)
  PROVE  CountInv'
<1>1. Calling(t) /\ TypeOK
  BY DEF CountInv, Habits, IInv
<1>2. OwnStep(t) /\ pc'[t] = "done" /\ pc[t] = "idle" /\ op[t] = "use"
  BY <1>1 DEF Exit, OwnStep, TypeOK, InClone, Calling, Detached, Resting
<1>3. /\ Calling(t)' /\ ~Fresh(t)'
      /\ \A b \in Chained : Giving(t, sid[b])' <=> Giving(t, sid[b])
  BY <1>1, <1>2 DEF Exit, Calling, Fresh, Giving, Leaving, Dropping,
     Searching, Detached, Resting
<1>4. QED
  BY <1>2, <1>3, QuietCall DEF Exit, Leaving, Last
-----------------------------------------------------------------------------
(* The steps that link and unlink a socket, and make its object.           *)

(* A socket nobody uses has no object: that of a thread being created is a *)
(* copy of its creator's.                                                  *)
LEMMA UnusedIsNameless ==
  ASSUME IInv, Habits, NEW b, Users(b) = {}, NEW u \in Threads
  PROVE  sid[b] \notin handles[u]
<1> SUFFICES ASSUME sid[b] \in handles[u] PROVE FALSE
  OBVIOUS
<1>1. PICK v \in Threads : pc[v] \in InClone /\ kid[v] = u
  BY DEF Users, Awaited
<1>2. sid[b] \in handles[v] /\ ~Awaited(v, b)
  BY <1>1, RunningCounts DEF Habits, Copied, InClone
<1>3. QED
  BY <1>2 DEF Users

LEMMA RemUnlinkCount ==
  ASSUME IInv, IInv', Exact, CountInv, NEW t \in Threads, RemUnlink(t)
  PROVE  CountInv'
<1>1. Calling(t) /\ TypeOK
  BY DEF CountInv, Habits, IInv
<1>2. /\ OwnStep(t) /\ pc'[t] = "rem_free" /\ pc[t] = "rem_unlink"
      /\ UNCHANGED <<sid, refcnt, handles, destroyed, mutexUp, freed>>
      /\ UNCHANGED <<op, hnd, ptr>>
  BY <1>1 DEF RemUnlink, OwnStep, TypeOK, InClone
<1>3. ptr[t] \in Chained /\ sid[ptr[t]] = hnd[t]
  BY <1>2, ActsOn DEF Acting
<1>4. Chained' = Chained \ {ptr[t]}
  BY UnlinkChains
<1>5. ASSUME NEW u \in Threads, hnd[t] \in handles[u], hnd[t] \notin freed
      PROVE  FALSE
  <2>1. CASE op[t] = "use"
    BY <1>2, <1>5, <2>1 DEF Fresh, Leaving, CountInv, Habits, Handed
  <2>2. CASE op[t] = "free"
    BY <1>1, <1>2, <1>5, <2>2 DEF Calling, Leaving
  <2>3. CASE op[t] = "DESTROY"
    <3>1. refcnt[ptr[t]] = 0
      BY <1>2, <2>3 DEF Leaving, CountInv, Zero
    <3>2. Cardinality(Users(ptr[t])) = 0
      BY <1>3, <3>1, UsersFinite DEF CountInv, Counts
    <3>3. Users(ptr[t]) = {}
      BY <3>2, UsersFinite, FS_EmptySet
    <3>4. QED
      BY <1>3, <1>5, <3>3, UnusedIsNameless DEF CountInv
  <2>4. QED
    BY <1>1, <2>1, <2>2, <2>3 DEF TypeOK, Ops
<1>6. /\ Calling(t)' /\ ~Fresh(t)'
      /\ \A b \in Chained' : Giving(t, sid[b])' <=> Giving(t, sid[b])
  <2>1. \A b \in Chained' : sid[b] # hnd[t]
    BY <1>3, <1>4 DEF IInv, HeapInv, ChainsSound
  <2>2. QED
    BY <1>1, <1>2, <2>1 DEF Calling, Fresh, Giving, Leaving, Dropping,
       Searching, Detached, Resting, InAdd, InClone, InEnd
<1>7. pc'[t] \notin Leaving /\ ptr[t] \notin Chained'
  BY <1>2, <1>4 DEF Leaving
<1>8. \A b \in Chained \ Chained' : \A u \in Threads :
        sid[b] \in handles'[u] => sid[b] \in freed'
  BY <1>2, <1>3, <1>4, <1>5
<1>9. QED
  BY <1>2, <1>4, <1>6, <1>7, <1>8, CallStep
(* A new number is nobody's: its socket starts with one user, the call     *)
(* that will make its object.                                              *)
LEMMA NewInsertCount ==
  ASSUME IInv, IInv', Exact, CountInv, NEW t \in Threads, NewInsert(t)
  PROVE  CountInv'
<1> DEFINE c == ptr[t]
<1> PICK n \in Nat : n = counter + 1
  BY DEF IInv, TypeOK
<1>1. Calling(t) /\ TypeOK /\ c \in Blocks
  BY DEF CountInv, Habits, IInv, PointerOK, Pointing, InAdd, NewInsert,
     Register
<1>2. /\ OwnStep(t) /\ pc'[t] = "new_bless" /\ pc[t] = "new_insert"
      /\ op[t] = "use" /\ hnd'[t] = n /\ c \notin Chained
      /\ UNCHANGED <<destroyed, mutexUp, handles, op, ptr, tmp, freed>>
      /\ sid' = [sid EXCEPT ![c] = n] /\ refcnt' = [refcnt EXCEPT ![c] = 1]
  BY <1>1 DEF NewInsert, Register, OwnStep, TypeOK, InClone, Calling,
     Detached, InAdd, IInv, HeapInv, OwnedBlock, Owning
<1>3. Chained' = Chained \cup {c}
  <2>1. n \in Nat /\ n % Buckets \in BucketIndex
    BY <1>1, BucketOfNumber DEF TypeOK
  <2>2. \A i \in BucketIndex :
          chain'[i] = IF i = n % Buckets THEN chain[i] \cup {c} ELSE chain[i]
    BY <1>1, <2>1 DEF NewInsert, Register, TypeOK
  <2>3. QED
    BY <2>1, <2>2 DEF Chained
<1>4. /\ \A b \in Chained : sid'[b] = sid[b] /\ refcnt'[b] = refcnt[b]
      /\ sid'[c] = n /\ refcnt'[c] = 1
  BY <1>1, <1>2 DEF TypeOK
<1>5. \A b \in Chained : sid[b] \in 1 .. counter
  BY DEF IInv, HeapInv, ChainsSound, Chained
<1>6. \A u \in Threads : handles[u] \subseteq 1 .. counter
                         /\ hnd[u] \in 0 .. counter
  BY <1>1 DEF IInv, SideInv, ObjectsIssued, CallNumber, TypeOK
<1>7. Habits'
  <2>1. Calling(t)'
    BY <1>2 DEF Calling, Detached, Resting, InAdd, InClone, InEnd, Dropping,
       Searching, Leaving
  <2>2. Handed'
    <3>1. ASSUME NEW u \in Threads, Fresh(u)', u # t
          PROVE  Fresh(u) /\ hnd'[u] = hnd[u]
      BY <3>1, <1>2 DEF OwnStep, Fresh
    <3>2. \A u \in Threads : hnd[u] # n /\ n \notin handles[u]
      BY <1>1, <1>6 DEF TypeOK
    <3>3. QED
      BY <1>2, <3>1, <3>2 DEF CountInv, Habits, Handed
  <2>3. QED
    BY <1>2, <1>4, <2>1, <2>2, HabitsStep DEF CountInv
<1>8. Counts'
  <2>1. ASSUME NEW b \in Chained PROVE Users(b)' = Users(b)
    <3>1. ~Giving(t, sid[b]) /\ ~Giving(t, sid[b])'
      BY <1>1, <1>2, <1>5 DEF Giving, Fresh, Leaving, Dropping, Searching,
         TypeOK
    <3>2. /\ Users(b)' \ {t} = Users(b) \ {t}
          /\ t \in Users(b) <=> Giving(t, sid[b]) \/ sid[b] \in handles[t]
          /\ t \in Users(b)' <=> Giving(t, sid[b])' \/ sid[b] \in handles'[t]
      BY <1>2, <1>4, UsersStep
    <3>3. t \in Users(b)' <=> t \in Users(b)
      BY <1>2, <3>1, <3>2
    <3>4. QED
      BY <3>2, <3>3, SameSet
  <2>2. Users(c)' = {t}
    <3>1. \A u \in Threads : n \notin handles'[u]
      BY <1>1, <1>2, <1>6 DEF TypeOK
    <3>2. \A u \in Threads \ {t} : hnd'[u] # n
      BY <1>1, <1>2, <1>6 DEF OwnStep, TypeOK
    <3>3. Giving(t, n)'
      BY <1>2 DEF Giving, Fresh
    <3>4. QED
      BY <1>2, <1>4, <3>1, <3>2, <3>3 DEF Users, Giving
  <2>3. Cardinality(Users(c))' = 1
    BY <2>2, FS_Singleton
  <2>4. ASSUME NEW b \in Chained
        PROVE  Cardinality(Users(b))' = Cardinality(Users(b))
    BY <2>1
  <2>5. QED
    BY <1>2, <1>3, <1>4, <2>3, <2>4 DEF CountInv, Counts
<1>9. Zero'
  <2> SUFFICES ASSUME NEW u \in Threads
               PROVE  /\ pc'[u] = "dec_test" => tmp'[u] >= 1
                      /\ \/ Last(u)'
                         \/ pc'[u] \in Leaving /\ op'[u] = "DESTROY"
                         => refcnt'[ptr'[u]] = 0
    BY DEF Zero
  <2>1. pc'[u] \in Leaving \cup {"dec_test"} =>
          u # t /\ pc[u] = pc'[u] /\ ptr[u] \in Chained
    BY <1>2, ActsOn DEF OwnStep, Leaving, Acting
  <2>2. QED
    BY <1>2, <1>4, <2>1 DEF OwnStep, Last, CountInv, Zero
<1>10. Alive'
  <2> SUFFICES ASSUME NEW b \in Chained', refcnt'[b] = 0
               PROVE  \E u \in Threads :
                        (Last(u)' \/ pc'[u] \in Leaving) /\ ptr'[u] = b
    BY DEF Alive
  <2>1. PICK u \in Threads : (Last(u) \/ pc[u] \in Leaving) /\ ptr[u] = b
    BY <1>3, <1>4 DEF CountInv, Alive
  <2>2. u # t
    BY <1>2, <2>1 DEF Last, Leaving
  <2>3. QED
    BY <2>1, <2>2, <1>2 DEF OwnStep, Last
<1>11. ObjectKeepsSocket'
  BY <1>2, <1>3, <1>4 DEF CountInv, ObjectKeepsSocket, Registered
<1>12. QED
  BY <1>7, <1>8, <1>9, <1>10, <1>11 DEF CountInv

LEMMA NewBlessCount ==
  ASSUME IInv, IInv', Exact, CountInv, NEW t \in Threads, NewBless(t)
  PROVE  CountInv'
<1>1. Calling(t) /\ TypeOK
  BY DEF CountInv, Habits, IInv
<1>2. /\ OwnStep(t) /\ pc'[t] = "idle" /\ pc[t] = "new_bless"
      /\ op[t] = "use" /\ op'[t] = "use" /\ hnd'[t] = 0
      /\ UNCHANGED <<chain, sid, refcnt, destroyed, mutexUp, freed>>
  BY <1>1 DEF NewBless, OwnStep, TypeOK, InClone, Calling
<1>3. ptr[t] \in Chained /\ sid[ptr[t]] = hnd[t]
  BY <1>2, ActsOn DEF Acting
<1>4. handles'[t] = handles[t] \cup {hnd[t]}
  BY <1>1, <1>3 DEF NewBless, TypeOK
<1>5. Chained' = Chained /\ Registered' = Registered
  BY <1>2 DEF Chained, Registered
<1>6. Habits'
  <2>1. Calling(t)'
    BY <1>2 DEF Calling, Detached, Resting, Dropping, Searching, Leaving
  <2>2. Handed'
    <3>1. \A u \in Threads : Fresh(u)' => u # t /\ Fresh(u) /\ hnd'[u] = hnd[u]
      BY <1>2 DEF OwnStep, Fresh, Leaving
    <3>2. \A u \in Threads \ {t} : handles'[u] = handles[u]
      BY <1>2 DEF OwnStep
    <3>3. Fresh(t)
      BY <1>2 DEF Fresh
    <3>4. QED
      BY <1>4, <3>1, <3>2, <3>3 DEF CountInv, Habits, Handed
  <2>3. QED
    BY <1>2, <2>1, <2>2, HabitsStep DEF CountInv
<1>7. Counts'
  <2>1. ASSUME NEW b \in Chained PROVE Users(b)' = Users(b)
    <3>1. Giving(t, sid[b]) <=> sid[b] = hnd[t]
      BY <1>2 DEF Giving, Fresh
    <3>2. ~Giving(t, sid[b])'
      BY <1>2 DEF Giving, Fresh, Leaving, Dropping, Searching
    <3>3. /\ Users(b)' \ {t} = Users(b) \ {t}
          /\ t \in Users(b) <=> Giving(t, sid[b]) \/ sid[b] \in handles[t]
          /\ t \in Users(b)' <=> Giving(t, sid[b])' \/ sid[b] \in handles'[t]
      BY <1>2, UsersStep
    <3>4. t \in Users(b)' <=> t \in Users(b)
      BY <1>4, <3>1, <3>2, <3>3
    <3>5. QED
      BY <3>3, <3>4, SameSet
  <2>2. ASSUME NEW b \in Chained
        PROVE  Cardinality(Users(b))' = Cardinality(Users(b))
    BY <2>1
  <2>3. QED
    BY <1>2, <1>5, <2>2 DEF CountInv, Counts
<1>8. Zero' /\ Alive'
  BY <1>2, <1>5 DEF OwnStep, Last, Leaving, CountInv, Zero, Alive
<1>9. ObjectKeepsSocket'
  <2>1. \A u \in Threads \ {t} : handles'[u] = handles[u]
    BY <1>2 DEF OwnStep
  <2>2. hnd[t] \in Registered
    BY <1>3 DEF Registered
  <2>3. QED
    BY <1>2, <1>4, <1>5, <2>1, <2>2 DEF CountInv, ObjectKeepsSocket
<1>10. QED
  BY <1>6, <1>7, <1>8, <1>9 DEF CountInv

(* The decrement, unless another thread has changed the count since it was *)
(* loaded, takes away the user that the DESTROY was.                       *)
LEMMA DecWriteCount ==
  ASSUME IInv, IInv', Exact, ~miscounted', CountInv,
         NEW t \in Threads, DecWrite(t)
  PROVE  CountInv'
<1> DEFINE c == ptr[t]
<1>1. Calling(t) /\ TypeOK
  BY DEF CountInv, Habits, IInv
<1>2. /\ OwnStep(t) /\ pc'[t] = "dec_test" /\ pc[t] = "dec_write"
      /\ op[t] = "DESTROY"
      /\ UNCHANGED <<chain, sid, handles, destroyed, mutexUp, freed>>
      /\ UNCHANGED <<op, hnd, ptr, tmp>>
      /\ tmp[t] = refcnt[c] /\ refcnt' = [refcnt EXCEPT ![c] = tmp[t] - 1]
  BY <1>1 DEF DecWrite, OwnStep, TypeOK, InClone, Calling, Dropping,
     LostUpdate
<1>3. c \in Chained /\ sid[c] = hnd[t] /\ c \in Blocks
  BY <1>2, ActsOn DEF Acting
<1>4. Chained' = Chained /\ Registered' = Registered
  BY <1>2 DEF Chained, Registered
<1>5. /\ refcnt'[c] = refcnt[c] - 1
      /\ \A b \in Chained \ {c} : refcnt'[b] = refcnt[b]
  BY <1>1, <1>2, <1>3 DEF TypeOK
<1>6. Users(c)' = Users(c) \ {t} /\ t \in Users(c)
  <2>1. Giving(t, sid[c]) /\ ~Giving(t, sid[c])'
    BY <1>2, <1>3 DEF Giving, Dropping, Fresh, Leaving, Searching
  <2>2. sid[c] \notin handles'[t]
    BY <1>1, <1>2, <1>3 DEF Calling
  <2>3. /\ Users(c)' \ {t} = Users(c) \ {t}
        /\ t \in Users(c) <=> Giving(t, sid[c]) \/ sid[c] \in handles[t]
        /\ t \in Users(c)' <=> Giving(t, sid[c])' \/ sid[c] \in handles'[t]
    BY <1>2, UsersStep
  <2>4. t \in Users(c) /\ t \notin Users(c)'
    BY <2>1, <2>2, <2>3
  <2>5. QED
    BY <2>3, <2>4
<1>7. /\ Cardinality(Users(c))' = Cardinality(Users(c)) - 1
      /\ Cardinality(Users(c)) \in Nat \ {0}
      /\ Cardinality(Users(c))' \in Nat
  <2>1. Cardinality(Users(c)') = Cardinality(Users(c)) - 1
    BY <1>6, UsersFinite, FS_RemoveElement
  <2>2. Users(c) # {}
    BY <1>6
  <2>3. Cardinality(Users(c)) \in Nat /\ Cardinality(Users(c)) # 0
    BY <2>2, UsersFinite, FS_EmptySet
  <2>4. QED
    BY <2>1, <2>3
<1>8. refcnt[c] \in Nat \ {0}
  BY <1>3, <1>7 DEF CountInv, Counts
<1>9. Habits'
  <2>1. Calling(t)' /\ ~Fresh(t)'
    BY <1>1, <1>2 DEF Calling, Fresh, Leaving, Dropping, Detached, Resting,
       InAdd, InClone, InEnd, Searching
  <2>2. Handed'
    BY <1>2, <2>1 DEF OwnStep, Fresh, CountInv, Habits, Handed
  <2>3. QED
    BY <1>2, <2>1, <2>2, HabitsStep DEF CountInv
<1>10. Counts'
  <2>1. ASSUME NEW b \in Chained \ {c} PROVE Users(b)' = Users(b)
    <3>1. sid[b] # hnd[t]
      BY <1>3 DEF IInv, HeapInv, ChainsSound
    <3>2. ~Giving(t, sid[b]) /\ ~Giving(t, sid[b])'
      BY <1>2, <3>1 DEF Giving
    <3>3. /\ Users(b)' \ {t} = Users(b) \ {t}
          /\ t \in Users(b) <=> Giving(t, sid[b]) \/ sid[b] \in handles[t]
          /\ t \in Users(b)' <=> Giving(t, sid[b])' \/ sid[b] \in handles'[t]
      BY <1>2, UsersStep
    <3>4. t \in Users(b)' <=> t \in Users(b)
      BY <1>2, <3>2, <3>3
    <3>5. QED
      BY <3>3, <3>4, SameSet
  <2>2. ASSUME NEW b \in Chained \ {c}
        PROVE  Cardinality(Users(b))' = Cardinality(Users(b))
    BY <2>1
  <2>3. ASSUME NEW b \in Chained
        PROVE  /\ refcnt[b] \in Nat /\ Cardinality(Users(b)) <= refcnt[b]
               /\ ~destroyed => refcnt[b] = Cardinality(Users(b))
    BY DEF CountInv, Counts
  <2>4. /\ refcnt'[c] \in Nat /\ Cardinality(Users(c))' <= refcnt'[c]
        /\ ~destroyed => refcnt'[c] = Cardinality(Users(c))'
    BY <1>3, <1>5, <1>7, <1>8, <2>3
  <2>5. ASSUME NEW b \in Chained, b # c
        PROVE  /\ refcnt'[b] \in Nat /\ Cardinality(Users(b))' <= refcnt'[b]
               /\ ~destroyed => refcnt'[b] = Cardinality(Users(b))'
    BY <1>5, <2>2, <2>3, <2>5
  <2>6. QED
    BY <1>2, <1>4, <2>4, <2>5 DEF Counts
<1>11. Zero'
  <2> SUFFICES ASSUME NEW u \in Threads
               PROVE  /\ pc'[u] = "dec_test" => tmp'[u] >= 1
                      /\ \/ Last(u)'
                         \/ pc'[u] \in Leaving /\ op'[u] = "DESTROY"
                         => refcnt'[ptr'[u]] = 0
    BY DEF Zero
  <2>1. CASE u = t
    BY <1>2, <1>5, <1>8, <2>1 DEF Last, Leaving
  <2>2. CASE u # t
    <3>1. pc[u] = pc'[u] /\ (pc[u] \in Leaving \cup {"dec_test"} =>
                               ptr[u] \in Chained)
      BY <1>2, <2>2, ActsOn DEF OwnStep, Leaving, Acting
    <3>2. Last(u) \/ (pc[u] \in Leaving /\ op[u] = "DESTROY") => ptr[u] # c
      BY <1>8 DEF CountInv, Zero
    <3>3. QED
      BY <1>2, <1>5, <2>2, <3>1, <3>2 DEF OwnStep, Last, CountInv, Zero
  <2>3. QED
    BY <2>1, <2>2
<1>12. Alive'
  <2> SUFFICES ASSUME NEW b \in Chained', refcnt'[b] = 0
               PROVE  \E u \in Threads :
                        (Last(u)' \/ pc'[u] \in Leaving) /\ ptr'[u] = b
    BY DEF Alive
  <2>1. CASE b = c
    BY <1>2, <1>5, <1>8, <2>1 DEF Last
  <2>2. CASE b # c
    <3>1. PICK u \in Threads : (Last(u) \/ pc[u] \in Leaving) /\ ptr[u] = b
      BY <1>4, <1>5, <2>2 DEF CountInv, Alive
    <3>2. QED
      BY <1>2, <2>2, <3>1 DEF OwnStep, Last
  <2>3. QED
    BY <2>1, <2>2
<1>13. ObjectKeepsSocket'
  BY <1>2, <1>4 DEF CountInv, ObjectKeepsSocket
<1>14. QED
  BY <1>9, <1>10, <1>11, <1>12, <1>13 DEF CountInv
-----------------------------------------------------------------------------
(* The steps of CLONE, which count one more user at a time.                *)

(* The thread t is creating has still to be counted for b.                 *)
Pending(t, b) ==
  \/ pc[t] = "clone_lock"
  \/ b \in todo[t]
  \/ pc[t] = "clone_write" /\ ptr[t] = b

(* A step of thread t within CLONE.                                        *)
CloneStep(t) ==
  /\ pc[t] \in InClone /\ pc'[t] \in InClone
  /\ UNCHANGED <<chain, sid, handles, op, hnd, kid>>
  /\ UNCHANGED <<destroyed, mutexUp, freed>>
  /\ \A u \in Threads \ {t} :
       /\ pc'[u] = pc[u] /\ ptr'[u] = ptr[u]
       /\ tmp'[u] = tmp[u] /\ todo'[u] = todo[u]

(* A thread has one creator: the one whose CLONE has to count its copy.    *)
LEMMA OneCreator ==
  ASSUME IInv, NEW t \in Threads, pc[t] \in InClone, NEW b
  PROVE  /\ kid[t] \in Threads /\ pc[kid[t]] = "unborn"
         /\ Awaited(kid[t], b) <=> Pending(t, b)
<1>1. /\ kid[t] \in Threads /\ pc[kid[t]] = "unborn"
      /\ \A u \in Threads \ {t} : pc[u] \in InClone => kid[u] # kid[t]
  BY DEF IInv, TypeOK, SideInv, KidWaits
<1>2. QED
  BY <1>1 DEF Awaited, Pending

LEMMA CloneUsers ==
  ASSUME IInv, IInv', NEW t \in Threads, CloneStep(t), NEW b
  PROVE  /\ Users(b)' \ {kid[t]} = Users(b) \ {kid[t]}
         /\ kid[t] \in Users(b) <=>
              sid[b] \in handles[kid[t]] /\ ~Pending(t, b)
         /\ kid[t] \in Users(b)' <=>
              sid[b] \in handles[kid[t]] /\ ~Pending(t, b)'
<1> DEFINE k == kid[t]
<1>1. /\ k \in Threads /\ pc[k] = "unborn" /\ k # t
      /\ Awaited(k, b) <=> Pending(t, b)
  BY OneCreator DEF CloneStep, InClone
<1>2. Awaited(k, b)' <=> Pending(t, b)'
  <2>1. pc'[t] \in InClone /\ kid' = kid
    BY DEF CloneStep
  <2>2. \A u \in Threads \ {t} : pc'[u] \in InClone => kid'[u] # kid'[t]
    BY <2>1 DEF IInv, SideInv, KidWaits
  <2>3. QED
    BY <2>1, <2>2 DEF Awaited, Pending
<1>3. ASSUME NEW u \in Threads, u # k
      PROVE  Awaited(u, b)' <=> Awaited(u, b)
  BY <1>3 DEF CloneStep, Awaited
<1>4. \A u \in Threads : Giving(u, sid[b])' <=> Giving(u, sid[b])
  BY DEF CloneStep, Giving, Fresh, InClone, Leaving, Dropping, Searching
<1>5. ~Giving(k, sid[b]) /\ UNCHANGED <<handles, sid, kid>>
  BY <1>1 DEF Giving, Fresh, Leaving, Dropping, Searching, CloneStep
<1>6. QED
  BY <1>1, <1>2, <1>3, <1>4, <1>5 DEF Users

LEMMA CloneHabits ==
  ASSUME IInv, Habits, NEW t \in Threads, CloneStep(t),
         pc'[t] = "clone_write" =>
           sid[ptr'[t]] \in handles[t] /\ ptr'[t] \notin todo'[t]
  PROVE  Habits'
<1>1. \A u \in Threads : Calling(u)'
  <2> SUFFICES ASSUME NEW u \in Threads PROVE Calling(u)'
    OBVIOUS
  <2>1. Calling(u)
    BY DEF Habits
  <2>2. CASE u = t
    BY <2>1, <2>2 DEF CloneStep, Calling, InClone, Leaving, Dropping,
       Searching, Detached
  <2>3. CASE u # t
    BY <2>1, <2>3 DEF CloneStep, Calling
  <2>4. QED
    BY <2>2, <2>3
<1>2. Handed'
  <2>1. \A u \in Threads : Fresh(u)' => Fresh(u)
    BY DEF CloneStep, Fresh, InClone, Leaving
  <2>2. QED
    BY <2>1 DEF CloneStep, Habits, Handed
<1>3. Copied'
  BY DEF CloneStep, Habits, Copied
<1>4. Unborn'
  BY DEF CloneStep, Habits, Unborn, InClone
<1>5. QED
  BY <1>1, <1>2, <1>3, <1>4 DEF Habits

(* The steps that count nothing.                                           *)
LEMMA CloneQuiet ==
  ASSUME IInv, IInv', Exact, CountInv, NEW t \in Threads, CloneStep(t),
         refcnt' = refcnt,
         pc'[t] = "clone_write" =>
           sid[ptr'[t]] \in handles[t] /\ ptr'[t] \notin todo'[t],
         \A b \in Chained : sid[b] \in handles[kid[t]] =>
           (Pending(t, b)' <=> Pending(t, b))
  PROVE  CountInv'
<1>1. Habits'
  BY CloneHabits DEF CountInv
<1>2. Chained' = Chained /\ Registered' = Registered
  BY DEF CloneStep, Chained, Registered
<1>3. Counts'
  <2>1. ASSUME NEW b \in Chained PROVE Users(b)' = Users(b)
    <3>1. /\ Users(b)' \ {kid[t]} = Users(b) \ {kid[t]}
          /\ kid[t] \in Users(b) <=>
               sid[b] \in handles[kid[t]] /\ ~Pending(t, b)
          /\ kid[t] \in Users(b)' <=>
               sid[b] \in handles[kid[t]] /\ ~Pending(t, b)'
      BY CloneUsers
    <3>2. kid[t] \in Users(b)' <=> kid[t] \in Users(b)
      BY <3>1
    <3>3. QED
      BY <3>1, <3>2, SameSet
  <2>2. ASSUME NEW b \in Chained
        PROVE  Cardinality(Users(b))' = Cardinality(Users(b))
    BY <2>1
  <2>3. QED
    BY <1>2, <2>2 DEF CloneStep, CountInv, Counts
<1>4. Zero' /\ Alive'
  BY <1>2 DEF CloneStep, InClone, Leaving, Last, CountInv, Zero, Alive
<1>5. ObjectKeepsSocket'
  BY <1>2 DEF CloneStep, CountInv, ObjectKeepsSocket
<1>6. QED
  BY <1>1, <1>3, <1>4, <1>5 DEF CountInv

LEMMA CloneLockCount ==
  ASSUME IInv, IInv', Exact, CountInv, NEW t \in Threads, CloneLock(t)
  PROVE  CountInv'
<1>1. /\ CloneStep(t) /\ refcnt' = refcnt /\ pc[t] = "clone_lock"
      /\ pc'[t] = "clone_pick" /\ todo'[t] = Chained
  BY DEF IInv, TypeOK, CloneLock, CloneStep, InClone
<1>2. \A b \in Chained : Pending(t, b)' <=> Pending(t, b)
  BY <1>1 DEF Pending
<1>3. QED
  BY <1>1, <1>2, CloneQuiet

LEMMA ClonePickCount ==
  ASSUME IInv, IInv', Exact, ~miscounted', CountInv,
         NEW t \in Threads, ClonePick(t)
  PROVE  CountInv'
<1>1. PICK c \in todo[t] : /\ doClone[c] /\ ptr' = [ptr EXCEPT ![t] = c]
                           /\ todo' = [todo EXCEPT ![t] = @ \ {c}]
                           /\ ~CountsWrong(t, c)
  BY DEF ClonePick
<1>2. /\ CloneStep(t) /\ refcnt' = refcnt /\ pc[t] = "clone_pick"
      /\ pc'[t] = "clone_write" /\ ptr'[t] = c /\ todo'[t] = todo[t] \ {c}
  BY <1>1 DEF IInv, TypeOK, ClonePick, CloneStep, InClone
<1>3. c \in Chained
  BY <1>2 DEF IInv, HeapInv, CloneWalk
<1>4. sid[c] \in handles[t]
  <2>1. doClone[c] \in BOOLEAN
    BY <1>3 DEF IInv, TypeOK, HeapInv, ChainsSound
  <2>2. sid[c] \in handles[kid[t]]
    BY <1>1, <2>1 DEF CountsWrong
  <2>3. QED
    BY <1>2, <2>2 DEF CountInv, Habits, Copied, InClone
<1>5. \A b \in Chained : Pending(t, b)' <=> Pending(t, b)
  BY <1>2 DEF Pending
<1>6. QED
  BY <1>2, <1>4, <1>5, CloneQuiet

LEMMA CloneSkipCount ==
  ASSUME IInv, IInv', Exact, ~miscounted', CountInv,
         NEW t \in Threads, CloneSkip(t)
  PROVE  CountInv'
<1>1. PICK c \in todo[t] : /\ ~doClone[c] /\ ~CountsWrong(t, c)
                           /\ todo' = [todo EXCEPT ![t] = @ \ {c}]
  BY DEF CloneSkip
<1>2. /\ CloneStep(t) /\ refcnt' = refcnt /\ pc[t] = "clone_pick"
      /\ pc'[t] = "clone_pick" /\ todo'[t] = todo[t] \ {c}
  BY <1>1 DEF IInv, TypeOK, CloneSkip, CloneStep, InClone
<1>3. sid[c] \notin handles[kid[t]]
  BY <1>1 DEF CountsWrong
<1>4. \A b \in Chained : sid[b] \in handles[kid[t]] =>
        (Pending(t, b)' <=> Pending(t, b))
  BY <1>2, <1>3 DEF Pending
<1>5. QED
  BY <1>2, <1>4, CloneQuiet

(* The increment, unless another thread has changed the count since it was *)
(* loaded, counts the new thread's copy; the creator's own object keeps    *)
(* the socket from being given up before.                                  *)
LEMMA CloneWriteCount ==
  ASSUME IInv, IInv', Exact, ~miscounted', CountInv,
         NEW t \in Threads, CloneWrite(t)
  PROVE  CountInv'
<1> PICK c : c = ptr[t]
  OBVIOUS
<1> PICK k : k = kid[t]
  OBVIOUS
<1>1. /\ CloneStep(t) /\ pc[t] = "clone_write" /\ pc'[t] = "clone_pick"
      /\ UNCHANGED <<ptr, tmp, todo>> /\ tmp[t] = refcnt[c]
      /\ refcnt' = [refcnt EXCEPT ![c] = tmp[t] + 1]
  BY DEF IInv, TypeOK, CloneWrite, CloneStep, InClone, LostUpdate
<1>2. c \in Chained /\ c \in Blocks
  BY <1>1 DEF IInv, HeapInv, CloneWalk, PointerOK, Pointing
<1>3. /\ refcnt'[c] = refcnt[c] + 1
      /\ \A b \in Chained \ {c} : refcnt'[b] = refcnt[b]
  BY <1>1, <1>2 DEF IInv, TypeOK
<1>4. /\ sid[c] \in handles[t] /\ sid[c] \in handles[k]
      /\ c \notin todo[t]
  BY <1>1 DEF CountInv, Habits, Copied, InClone
<1>5. Chained' = Chained /\ Registered' = Registered
  BY <1>1 DEF CloneStep, Chained, Registered
<1>6. Habits'
  BY <1>1, CloneHabits DEF CountInv
<1>7. ASSUME NEW b
      PROVE  /\ Users(b)' \ {k} = Users(b) \ {k}
             /\ k \in Users(b) <=> sid[b] \in handles[k] /\ ~Pending(t, b)
             /\ k \in Users(b)' <=> sid[b] \in handles[k] /\ ~Pending(t, b)'
  BY <1>1, CloneUsers
<1>8. Users(c)' = Users(c) \cup {k} /\ k \notin Users(c)
  <2>1. Pending(t, c) /\ ~Pending(t, c)'
    BY <1>1, <1>4 DEF Pending
  <2>2. k \notin Users(c) /\ k \in Users(c)'
    BY <1>4, <1>7, <2>1
  <2>3. QED
    BY <1>7, <2>2
<1>9. Cardinality(Users(c)') = Cardinality(Users(c)) + 1
  BY <1>8, UsersFinite, FS_AddElement
<1>10. refcnt[c] \in Nat \ {0}
  <2>1. ~Awaited(t, c)
    BY <1>1, RunningCounts
  <2>2. t \in Users(c)
    BY <1>4, <2>1 DEF Users
  <2>3. Cardinality(Users(c)) # 0
    BY <2>2, UsersFinite, FS_EmptySet
  <2>4. QED
    BY <1>2, <2>3, UsersFinite DEF CountInv, Counts
<1>11. Counts'
  <2>1. ASSUME NEW b \in Chained, b # c PROVE Users(b)' = Users(b)
    <3>1. Pending(t, b)' <=> Pending(t, b)
      BY <1>1, <2>1 DEF Pending
    <3>2. k \in Users(b)' <=> k \in Users(b)
      BY <1>7, <3>1
    <3>3. QED
      BY <1>7, <3>2, SameSet
  <2>2. ASSUME NEW b \in Chained
        PROVE  /\ refcnt[b] \in Nat /\ Cardinality(Users(b)) <= refcnt[b]
               /\ ~destroyed => refcnt[b] = Cardinality(Users(b))
               /\ Cardinality(Users(b)) \in Nat
    BY UsersFinite DEF CountInv, Counts
  <2>3. /\ refcnt'[c] \in Nat /\ Cardinality(Users(c)') <= refcnt'[c]
        /\ ~destroyed => refcnt'[c] = Cardinality(Users(c)')
    BY <1>2, <1>3, <1>9, <2>2
  <2>4. ASSUME NEW b \in Chained, b # c
        PROVE  /\ refcnt'[b] \in Nat /\ Cardinality(Users(b)') <= refcnt'[b]
               /\ ~destroyed => refcnt'[b] = Cardinality(Users(b)')
    BY <1>3, <2>1, <2>2, <2>4
  <2>5. destroyed' = destroyed
    BY <1>1 DEF CloneStep
  <2>6. QED
    BY <1>5, <2>3, <2>4, <2>5 DEF Counts
<1>12. Zero'
  <2> SUFFICES ASSUME NEW u \in Threads
               PROVE  /\ pc'[u] = "dec_test" => tmp'[u] >= 1
                      /\ \/ Last(u)'
                         \/ pc'[u] \in Leaving /\ op'[u] = "DESTROY"
                         => refcnt'[ptr'[u]] = 0
    BY DEF Zero
  <2>1. pc'[u] \in Leaving \cup {"dec_test"} =>
          u # t /\ pc[u] = pc'[u] /\ ptr[u] \in Chained
    BY <1>1, ActsOn DEF CloneStep, Leaving, Acting
  <2>2. Last(u) \/ (pc[u] \in Leaving /\ op[u] = "DESTROY") => ptr[u] # c
    BY <1>10 DEF CountInv, Zero
  <2>3. QED
    BY <1>1, <1>3, <2>1, <2>2 DEF CloneStep, Last, CountInv, Zero
<1>13. Alive'
  <2> SUFFICES ASSUME NEW b \in Chained', refcnt'[b] = 0
               PROVE  \E u \in Threads :
                        (Last(u)' \/ pc'[u] \in Leaving) /\ ptr'[u] = b
    BY DEF Alive
  <2>1. b # c /\ b \in Chained /\ refcnt[b] = 0
    BY <1>3, <1>5, <1>10
  <2>2. PICK u \in Threads : (Last(u) \/ pc[u] \in Leaving) /\ ptr[u] = b
    BY <2>1 DEF CountInv, Alive
  <2>3. u # t
    BY <1>1, <2>2 DEF Last, Leaving
  <2>4. QED
    BY <1>1, <2>2, <2>3 DEF CloneStep, Last
<1>14. ObjectKeepsSocket'
  BY <1>1, <1>5 DEF CloneStep, CountInv, ObjectKeepsSocket
<1>15. QED
  BY <1>6, <1>11, <1>12, <1>13, <1>14 DEF CountInv
-----------------------------------------------------------------------------
(* The beginning and the end of a thread's creation.                       *)

LEMMA SpawnCount ==
  ASSUME IInv, IInv', Exact, CountInv,
         NEW t \in Threads, NEW c \in Threads, Spawn(t, c)
  PROVE  CountInv'
<1>1. /\ pc[t] = "idle" /\ pc[c] = "unborn" /\ t # c
      /\ pc' = [pc EXCEPT ![t] = "clone_lock"] /\ pc'[t] = "clone_lock"
      /\ kid'[t] = c /\ handles'[c] = handles[t]
      /\ \A u \in Threads \ {t} : pc'[u] = pc[u] /\ kid'[u] = kid[u]
      /\ \A u \in Threads \ {c} : handles'[u] = handles[u]
      /\ UNCHANGED <<shared, blocks, op, hnd, ptr, tmp, todo, freed>>
  BY DEF IInv, TypeOK, Spawn
<1>2. \A u \in Threads : pc[u] \in InClone => u # t /\ kid[u] # c
  BY <1>1 DEF Spawn, InClone
<1>3. handles[c] = {}
  BY <1>1, <1>2 DEF CountInv, Habits, Unborn
<1>4. Chained' = Chained /\ Registered' = Registered
  BY <1>1 DEF Chained, Registered
<1>5. Habits'
  <2>1. \A u \in Threads : Calling(u)'
    <3> SUFFICES ASSUME NEW u \in Threads PROVE Calling(u)'
      OBVIOUS
    <3>1. Calling(u)
      BY DEF CountInv, Habits
    <3>2. CASE u = t
      BY <1>1, <3>1, <3>2 DEF Calling, InClone, Leaving, Dropping, Searching,
         Detached, Resting
    <3>3. CASE u = c
      BY <1>1, <3>1, <3>3 DEF Calling, Leaving, Dropping, Searching,
         Detached, Resting
    <3>4. CASE u # t /\ u # c
      BY <1>1, <3>1, <3>4 DEF Calling
    <3>5. QED
      BY <3>2, <3>3, <3>4
  <2>2. Handed'
    <3>1. \A u \in Threads : Fresh(u)' => Fresh(u)
      BY <1>1 DEF Fresh, Leaving
    <3>2. \A u \in Threads : handles'[u] = handles[u]
                             \/ handles'[u] = handles[t]
      BY <1>1
    <3>3. QED
      BY <1>1, <3>1, <3>2 DEF CountInv, Habits, Handed
  <2>3. Copied'
    <3> SUFFICES ASSUME NEW u \in Threads, pc'[u] \in InClone
                 PROVE  /\ handles'[kid'[u]] = handles'[u]
                        /\ pc'[u] = "clone_write" =>
                             /\ sid'[ptr'[u]] \in handles'[u]
                             /\ ptr'[u] \notin todo'[u]
      BY DEF Copied
    <3>1. CASE u = t
      BY <1>1, <3>1
    <3>2. CASE u # t
      <4>1. pc[u] \in InClone /\ u # c /\ kid[u] # c /\ kid[u] \in Threads
        BY <1>1, <1>2, <3>2 DEF InClone, IInv, TypeOK
      <4>2. QED
        BY <1>1, <3>2, <4>1 DEF CountInv, Habits, Copied
    <3>3. QED
      BY <3>1, <3>2
  <2>4. Unborn'
    <3> SUFFICES ASSUME NEW d \in Threads, pc'[d] = "unborn",
                        handles'[d] # {}
                 PROVE  \E u \in Threads : pc'[u] \in InClone /\ kid'[u] = d
      BY DEF Unborn
    <3>1. CASE d = c
      BY <1>1, <3>1 DEF InClone
    <3>2. CASE d # c
      <4>1. pc[d] = "unborn" /\ handles[d] # {}
        BY <1>1, <3>2
      <4>2. PICK u \in Threads : pc[u] \in InClone /\ kid[u] = d
        BY <4>1 DEF CountInv, Habits, Unborn
      <4>3. QED
        BY <1>1, <1>2, <4>2
    <3>3. QED
      BY <3>1, <3>2
  <2>5. QED
    BY <2>1, <2>2, <2>3, <2>4 DEF Habits
<1>6. Counts'
  <2>1. ASSUME NEW b \in Chained PROVE Users(b)' = Users(b)
    <3>1. \A u \in Threads : Giving(u, sid[b])' <=> Giving(u, sid[b])
      BY <1>1 DEF Giving, Fresh, Leaving, Dropping, Searching
    <3>2. ASSUME NEW u \in Threads, u # c
          PROVE  Awaited(u, b)' <=> Awaited(u, b)
      BY <1>1, <1>2, <3>2 DEF Awaited
    <3>3. Awaited(c, b)'
      BY <1>1 DEF Awaited, InClone
    <3>4. \A u \in Threads : u \in Users(b)' <=> u \in Users(b)
      BY <1>1, <1>3, <3>1, <3>2, <3>3 DEF Users
    <3>5. QED
      BY <3>4 DEF Users
  <2>2. ASSUME NEW b \in Chained
        PROVE  Cardinality(Users(b))' = Cardinality(Users(b))
    BY <2>1
  <2>3. QED
    BY <1>1, <1>4, <2>2 DEF CountInv, Counts
<1>7. Zero' /\ Alive'
  BY <1>1, <1>4 DEF Leaving, Last, CountInv, Zero, Alive
<1>8. ObjectKeepsSocket'
  <2>1. \A u \in Threads : handles'[u] = handles[u]
                           \/ handles'[u] = handles[t]
    BY <1>1
  <2>2. QED
    BY <1>1, <1>4, <2>1 DEF CountInv, ObjectKeepsSocket
<1>9. QED
  BY <1>5, <1>6, <1>7, <1>8 DEF CountInv

(* At its end CLONE has nothing left to count.                             *)
LEMMA CloneDoneCount ==
  ASSUME IInv, IInv', Exact, CountInv, NEW t \in Threads, CloneDone(t)
  PROVE  CountInv'
<1> PICK k : k = kid[t]
  OBVIOUS
<1>1. /\ pc[t] = "clone_pick" /\ todo[t] = {} /\ k \in Threads /\ k # t
      /\ pc[k] = "unborn" /\ pc'[t] = "idle" /\ pc'[k] = "idle"
      /\ \A u \in Threads \ {t} :
           ptr'[u] = ptr[u] /\ tmp'[u] = tmp[u] /\ kid'[u] = kid[u]
      /\ \A u \in Threads \ {t, k} : pc'[u] = pc[u]
      /\ UNCHANGED <<chain, destroyed, mutexUp, blocks, handles, op, hnd,
                     todo, freed>>
  <2>1. k \in Threads /\ pc[k] = "unborn" /\ pc[t] = "clone_pick"
    BY OneCreator DEF CloneDone, InClone
  <2>2. QED
    BY <2>1 DEF IInv, TypeOK, CloneDone
<1>2. \A u \in Threads \ {t} : pc[u] \in InClone => kid[u] # k /\ u # k
  BY <1>1 DEF IInv, SideInv, KidWaits, InClone
<1>3. Chained' = Chained /\ Registered' = Registered
  BY <1>1 DEF Chained, Registered
<1>4. Habits'
  <2>1. \A u \in Threads : Calling(u)'
    <3> SUFFICES ASSUME NEW u \in Threads PROVE Calling(u)'
      OBVIOUS
    <3>1. Calling(u)
      BY DEF CountInv, Habits
    <3>2. CASE u = t \/ u = k
      BY <1>1, <3>1, <3>2 DEF Calling, InClone, Leaving, Dropping, Searching,
         Detached, Resting
    <3>3. CASE u # t /\ u # k
      BY <1>1, <3>1, <3>3 DEF Calling
    <3>4. QED
      BY <3>2, <3>3
  <2>2. Handed'
    <3>1. \A u \in Threads : Fresh(u)' => Fresh(u)
      BY <1>1 DEF Fresh, Leaving
    <3>2. QED
      BY <1>1, <3>1 DEF CountInv, Habits, Handed
  <2>3. Copied'
    <3>1. \A u \in Threads : pc'[u] \in InClone => u # t /\ u # k
      BY <1>1 DEF InClone
    <3>2. QED
      BY <1>1, <3>1 DEF CountInv, Habits, Copied
  <2>4. Unborn'
    <3> SUFFICES ASSUME NEW d \in Threads, pc'[d] = "unborn",
                        handles'[d] # {}
                 PROVE  \E u \in Threads : pc'[u] \in InClone /\ kid'[u] = d
      BY DEF Unborn
    <3>1. d # k /\ d # t /\ pc[d] = "unborn" /\ handles[d] # {}
      BY <1>1
    <3>2. PICK u \in Threads : pc[u] \in InClone /\ kid[u] = d
      BY <3>1 DEF CountInv, Habits, Unborn
    <3>3. u # t /\ u # k
      BY <1>1, <3>1, <3>2 DEF InClone
    <3>4. QED
      BY <1>1, <3>2, <3>3
  <2>5. QED
    BY <2>1, <2>2, <2>3, <2>4 DEF Habits
<1>5. Counts'
  <2>1. ASSUME NEW b \in Chained PROVE Users(b)' = Users(b)
    <3>1. \A u \in Threads : Giving(u, sid[b])' <=> Giving(u, sid[b])
      <4>1. \A u \in Threads : Fresh(u)' <=> Fresh(u)
        BY <1>1 DEF Fresh, Leaving
      <4>2. \A u \in Threads : pc[u] \in Dropping <=> pc'[u] \in Dropping
        BY <1>1 DEF Dropping
      <4>3. \A u \in Threads : pc[u] \in Searching <=> pc'[u] \in Searching
        BY <1>1 DEF Searching
      <4>4. QED
        BY <1>1, <4>1, <4>2, <4>3 DEF Giving
    <3>2. ASSUME NEW u \in Threads PROVE Awaited(u, b)' <=> Awaited(u, b)
      <4>1. \A v \in Threads : pc'[v] \in InClone =>
              /\ v # t /\ v # k /\ pc[v] = pc'[v] /\ kid'[v] = kid[v]
              /\ ptr'[v] = ptr[v] /\ todo'[v] = todo[v]
        BY <1>1 DEF InClone
      <4>2. \A v \in Threads \ {t} : pc[v] \in InClone =>
              /\ pc[v] = pc'[v] /\ kid'[v] = kid[v]
              /\ ptr'[v] = ptr[v] /\ todo'[v] = todo[v]
        BY <1>1, <1>2
      <4>3. ~Pending(t, b)
        BY <1>1 DEF Pending
      <4>4. QED
        BY <4>1, <4>2, <4>3 DEF Awaited, Pending
    <3>3. QED
      BY <1>1, <3>1, <3>2 DEF Users
  <2>2. ASSUME NEW b \in Chained
        PROVE  Cardinality(Users(b))' = Cardinality(Users(b))
    BY <2>1
  <2>3. QED
    BY <1>1, <1>3, <2>2 DEF CountInv, Counts
<1>6. Zero' /\ Alive'
  <2>1. \A u \in Threads :
          pc[u] \in Leaving \cup {"dec_test"} \/
          pc'[u] \in Leaving \cup {"dec_test"}
            => u # t /\ pc'[u] = pc[u]
    BY <1>1 DEF Leaving
  <2>2. QED
    BY <1>1, <1>3, <2>1 DEF Last, CountInv, Zero, Alive
<1>7. ObjectKeepsSocket'
  BY <1>1, <1>3 DEF CountInv, ObjectKeepsSocket
<1>8. QED
  BY <1>4, <1>5, <1>6, <1>7 DEF CountInv
-----------------------------------------------------------------------------
(* END, which empties the chains when no call is under way.                *)

LEMMA EndBeginsCount ==
  ASSUME IInv, IInv', Exact, CountInv, EndEnter \/ EndLock
  PROVE  CountInv'
<1>1. Main \in Threads /\ Calling(Main) /\ TypeOK
  BY ConstantsAssumption DEF CountInv, Habits, IInv
<1>2. /\ OwnStep(Main) /\ pc[Main] \in {"idle", "end_lock"}
      /\ pc'[Main] \in InEnd /\ (destroyed => destroyed')
      /\ UNCHANGED <<chain, blocks, handles, op, hnd, ptr, tmp, mutexUp,
                     freed>>
  BY <1>1 DEF EndEnter, EndLock, OwnStep, TypeOK, InClone, InEnd
<1>3. Chained' = Chained
  BY <1>2 DEF Chained
<1>4. /\ Calling(Main)' /\ ~Fresh(Main)'
      /\ \A b \in Chained : Giving(Main, sid[b])' <=> Giving(Main, sid[b])
  BY <1>1, <1>2 DEF Calling, Fresh, Giving, Leaving, Dropping, Searching,
     Detached, Resting, InEnd
<1>5. /\ pc[Main] \notin Leaving /\ pc'[Main] \notin Leaving \cup {"dec_test"}
      /\ ~Last(Main)
  BY <1>2 DEF Leaving, Last, InEnd
<1>6. QED
  BY <1>1, <1>2, <1>3, <1>4, <1>5, CallStep

LEMMA EndFreeCount ==
  ASSUME IInv, IInv', Exact, CountInv, EndFree
  PROVE  CountInv'
<1>1. Main \in Threads /\ Calling(Main) /\ TypeOK
  BY ConstantsAssumption DEF CountInv, Habits, IInv
<1>2. /\ OwnStep(Main) /\ pc[Main] = "end_free" /\ pc'[Main] = "idle"
      /\ UNCHANGED <<sid, handles, op, hnd, ptr, tmp, freed>> /\ ~mutexUp'
  BY <1>1 DEF EndFree, OwnStep, TypeOK, InClone
<1>3. Chained' = {}
  BY DEF EndFree, Chained
<1>4. Habits'
  <2>1. Calling(Main)' /\ ~Fresh(Main)'
    BY <1>1, <1>2 DEF Calling, Fresh, Leaving, Dropping, Searching, Detached,
       Resting, InEnd
  <2>2. Handed'
    BY <1>2, <2>1 DEF OwnStep, Fresh, CountInv, Habits, Handed
  <2>3. QED
    BY <1>1, <1>2, <2>1, <2>2, HabitsStep DEF CountInv
<1>5. \A u \in Threads : pc'[u] \notin Leaving \cup {"dec_test"}
  BY <1>2 DEF IInv, SideInv, Shutdown, Resting, Leaving
<1>6. Counts' /\ Zero' /\ Alive' /\ ObjectKeepsSocket'
  BY <1>2, <1>3, <1>5 DEF Counts, Zero, Alive, Last, ObjectKeepsSocket
<1>7. QED
  BY <1>4, <1>6 DEF CountInv

LEMMA CountStep ==
  ASSUME IInv, IInv', Exact, ~miscounted', CountInv, [Next]_vars
  PROVE  CountInv'
<1>1. CASE UNCHANGED vars
  <2>1. Chained' = Chained /\ Registered' = Registered
    BY <1>1 DEF Chained, Registered
  <2>2. QED
    BY <1>1, <2>1 DEF CountInv, Habits, Calling, Handed, Copied, Unborn,
       Counts, Zero, Alive, ObjectKeepsSocket, Fresh, Last, Users, Giving,
       Awaited
<1>2. CASE End
  BY <1>2, EndBeginsCount, EndFreeCount DEF End
<1>3. ASSUME NEW t \in Threads, Begin(t) PROVE CountInv'
  BY <1>3, NewAllocCount, FindRefusedCount, FindEnterCount, SpawnCount,
     ExitCount DEF Begin
<1>4. ASSUME NEW t \in Threads, Continue(t) PROVE CountInv'
  BY <1>4, PlainStepsCount, NewInsertCount, NewBlessCount, FindMissCount,
     FindHitCount, DecWriteCount, DecKeepCount, DecLastCount,
     RemUnlinkCount, CloneLockCount, ClonePickCount, CloneSkipCount,
     CloneWriteCount, CloneDoneCount DEF Continue
<1>5. QED
  BY <1>1, <1>2, <1>3, <1>4 DEF Next

(* A miscount is not forgotten either.                                     *)
LEMMA MiscountedStays == ASSUME miscounted, [Next]_vars PROVE miscounted'
<1>1. CASE UNCHANGED vars
  BY <1>1
<1>2. CASE End
  BY <1>2 DEF End, EndEnter, EndLock, EndFree
<1>3. ASSUME NEW t \in Threads, Begin(t) PROVE miscounted'
  BY <1>3 DEF Begin, NewAlloc, FindRefused, FindEnter, Spawn, Exit
<1>4. ASSUME NEW t \in Threads, Continue(t) PROVE miscounted'
  BY <1>4 DEF Continue, NewFail, NewLock, NewInsert, Register, NewBless,
     NewReject, FindLock, FindMiss, FindHit, UseSocket, DropFlag, DecRead,
     DecWrite, DecKeep, DecLast, RemLock, RemUnlink, RemFree, CloneLock,
     ClonePick, CloneSkip, CloneWrite, CloneDone
<1>5. QED
  BY <1>1, <1>2, <1>3, <1>4 DEF Next
(* After END the chains are empty, and stay so.                            *)
LEMMA EndedStep ==
  ASSUME IInv, Ended, [Next]_vars
  PROVE  Ended'
<1> SUFFICES ASSUME destroyed', pc'[Main] \notin InEnd
             PROVE  Chained' = {} /\ ~mutexUp'
  BY DEF Ended
<1>1. CASE UNCHANGED vars
  BY <1>1 DEF Ended, Chained
<1>2. CASE End
  <2>1. ~EndEnter /\ ~EndLock
    <3>1. pc \in [Threads -> PcValues] /\ Main \in Threads
      BY ConstantsAssumption DEF IInv, TypeOK
    <3>2. QED
      BY <3>1 DEF EndEnter, EndLock, InEnd
  <2>2. ASSUME EndFree PROVE Chained' = {} /\ ~mutexUp'
    <3>1. \A i \in BucketIndex : chain'[i] = {}
      BY <2>2 DEF EndFree
    <3>2. QED
      BY <2>2, <3>1 DEF EndFree, Chained
  <2>3. QED
    BY <1>2, <2>1, <2>2 DEF End
<1>3. ASSUME NEW t \in Threads, Begin(t)
      PROVE  Chained' = {} /\ ~mutexUp'
  <2>1. /\ UNCHANGED <<destroyed, chain, mutexUp>> /\ pc[t] = "idle"
        /\ pc' = pc \/ \E l : pc' = [pc EXCEPT ![t] = l]
    BY <1>3 DEF Begin, NewAlloc, FindRefused, FindEnter, Spawn, Exit
  <2>2. pc[Main] \in InEnd => pc'[Main] = pc[Main]
    <3>1. pc \in [Threads -> PcValues] /\ Main \in Threads
      BY ConstantsAssumption DEF IInv, TypeOK
    <3>2. QED
      BY <2>1, <3>1 DEF InEnd
  <2>3. QED
    BY <2>1, <2>2 DEF Ended, Chained
<1>4. ASSUME NEW t \in Threads, Continue(t)
      PROVE  Chained' = {} /\ ~mutexUp'
  <2> USE DEF NewFail, NewLock, NewInsert, Register, NewBless,
        NewReject, FindLock, FindMiss, FindHit, UseSocket, DropFlag,
        DecRead, DecWrite, DecKeep, DecLast, RemLock, RemUnlink, RemFree,
        CloneLock, ClonePick, CloneSkip, CloneWrite, CloneDone
  <2>1. /\ pc[t] \notin Resting \cup InEnd
        /\ UNCHANGED <<destroyed, mutexUp>>
    BY <1>4 DEF Continue, Resting, InEnd
  <2>2. CASE pc[Main] \in InEnd
    <3>1. Main \in Threads /\ Main # t /\ pc[Main] # "unborn"
      BY <2>1, <2>2, ConstantsAssumption DEF InEnd
    <3>2. pc[t] \in InClone => kid[t] # Main
      BY <3>1 DEF IInv, SideInv, KidWaits
    <3>3. CASE CloneDone(t)
      BY <2>2, <3>1, <3>2, <3>3 DEF IInv, TypeOK, InClone
    <3>4. CASE ~CloneDone(t)
      <4>1. \E l : pc' = [pc EXCEPT ![t] = l] \/ pc' = pc
        BY <1>4, <3>4 DEF Continue
      <4>2. QED
        BY <2>2, <3>1, <4>1 DEF IInv, TypeOK
    <3>5. QED
      BY <3>3, <3>4
  <2>3. CASE pc[Main] \notin InEnd
    <3>1. Chained = {} /\ ~mutexUp
      BY <2>1, <2>3 DEF Ended
    <3>2. pc[t] = "rem_free"
      BY <2>1, <3>1 DEF IInv, SideInv, Shutdown
    <3>3. chain' = chain
      BY <1>4, <3>2 DEF Continue
    <3>4. QED
      BY <2>1, <3>1, <3>3 DEF Chained
  <2>4. QED
    BY <2>2, <2>3
<1>5. QED
  BY <1>1, <1>2, <1>3, <1>4 DEF Next

LEMMA CountInit == Init => CountInv /\ Ended
<1> SUFFICES ASSUME Init PROVE CountInv /\ Ended
  OBVIOUS
<1>1. Chained = {} /\ ~destroyed
  BY DEF Init, Chained
<1>2. \A t \in Threads : pc[t] \in {"idle", "unborn"} /\ handles[t] = {}
                         /\ op[t] = "use"
  BY DEF Init
<1>3. Habits
  BY <1>2 DEF Habits, Calling, Handed, Copied, Unborn, Fresh, InClone,
     Leaving, Dropping, Searching
<1>4. Counts /\ Zero /\ Alive /\ ObjectKeepsSocket /\ Ended
  BY <1>1, <1>2 DEF Counts, Zero, Alive, ObjectKeepsSocket, Ended, Last,
     Leaving
<1>5. QED
  BY <1>3, <1>4 DEF CountInv

(* Whatever scripts do, the counts are right up to the first race or       *)
(* miscount, and END leaves nothing registered: what the three theorems    *)
(* below rest on.                                                          *)
THEOREM CountsCorrect == Spec => [](Exact => IInv /\ CountInv /\ Ended)
<1> DEFINE Good == Exact => IInv /\ CountInv /\ Ended
<1>1. Good /\ [Next]_vars => Good'
  <2> SUFFICES ASSUME Good, [Next]_vars, Exact'
               PROVE  IInv' /\ CountInv' /\ Ended'
    OBVIOUS
  <2>1. Exact
    BY RacedStays, MiscountedStays DEF Exact
  <2>2. IInv'
    BY <2>1, InvStep DEF Exact
  <2>3. QED
    BY <2>1, <2>2, CountStep, EndedStep DEF Exact
<1>2. Init => Good
  BY InvInit, CountInit
<1>3. QED
  BY <1>1, <1>2, PTL DEF Spec

(* Between calls, who uses a socket is who has an object of it.            *)
LEMMA QuietUsers ==
  ASSUME IInv, CountInv, Ended, Quiet, NEW b \in Chained
  PROVE  refcnt[b] = Cardinality(Holders(sid[b])) /\ refcnt[b] # 0
<1>1. \A t \in Threads :
        pc[t] \notin InEnd \cup InClone \cup Leaving \cup {"dec_test"}
  BY DEF Quiet, Resting, InEnd, InClone, Leaving
<1>2. ~destroyed
  BY <1>1, ConstantsAssumption DEF Ended
<1>3. \A t \in Threads : ~Giving(t, sid[b]) /\ ~Awaited(t, b)
  BY <1>1 DEF Quiet, Giving, Fresh, Dropping, Searching, Awaited, Resting
<1>4. Users(b) = Holders(sid[b])
  BY <1>3 DEF Users, Holders
<1>5. QED
  BY <1>1, <1>2, <1>4 DEF CountInv, Counts, Alive, Last

(* Up to the first race or miscount the reference count of a socket is,    *)
(* between calls, the number of interpreters that have an object of it,    *)
(* however DESTROY and CLONE overlapped before.                            *)
THEOREM RefcntCounts == Spec => []RefcntExact
<1>1. (Exact => IInv /\ CountInv /\ Ended) => RefcntExact
  BY QuietUsers DEF RefcntExact
<1>2. QED
  BY <1>1, CountsCorrect, PTL

(* Up to then a socket that no interpreter has an object of any more is    *)
(* freed by the time the calls have returned.                              *)
THEOREM NoSocketLeaks == Spec => []NoLeak
<1>1. ASSUME Exact => IInv /\ CountInv /\ Ended PROVE NoLeak
  <2> SUFFICES ASSUME Exact, Quiet, NEW b \in Chained
               PROVE  Holders(sid[b]) # {}
    BY DEF NoLeak, Registered
  <2>1. Cardinality(Holders(sid[b])) # 0
    BY <1>1, QuietUsers
  <2>2. QED
    BY <2>1, FS_EmptySet
<1>2. QED
  BY <1>1, CountsCorrect, PTL

(* Up to then a socket lives as long as an interpreter has an object of    *)
(* it, unless free() was called for it.                                    *)
THEOREM SocketsKept == Spec => []ObjectKeepsSocket
<1>1. (Exact => IInv /\ CountInv /\ Ended) => ObjectKeepsSocket
  BY DEF CountInv, ObjectKeepsSocket
<1>2. QED
  BY <1>1, CountsCorrect, PTL
-----------------------------------------------------------------------------
(***************************************************************************)
(* What no race disturbs: objects may be of sockets that are gone, and     *)
(* calls may work on freed blocks.  The mutex still excludes, every call   *)
(* still comes to its end, and a number is still given once.               *)
(***************************************************************************)

EndInMain == \A t \in Threads : pc[t] \in InEnd => t = Main
Sections == LockHeld /\ KidWaits /\ EndInMain

(* Entering and leaving a locked section goes with the mutex, and the      *)
(* thread that CLONE is called for is not in one.                          *)
LEMMA SectionsStep ==
  TypeOK /\ Sections /\ [Next]_vars => Sections'
<1> SUFFICES ASSUME TypeOK, Sections, [Next]_vars
             PROVE  Sections'
  OBVIOUS
<1> USE ConstantsAssumption DEF TypeOK, Sections, LockHeld, KidWaits,
        EndInMain, Resting, InAdd, InClone, InEnd, Critical
<1>1. CASE UNCHANGED vars
  BY <1>1
<1>2. CASE End
  BY <1>2 DEF End, EndEnter, EndLock, EndFree
<1>3. ASSUME NEW t \in Threads, Begin(t)
      PROVE  Sections'
  <2>1. CASE NewAlloc(t)
    BY <2>1 DEF NewAlloc
  <2>2. ASSUME NEW m \in Ops, NEW h \in handles[t],
               FindRefused(t, m, h) \/ FindEnter(t, m, h)
        PROVE  Sections'
    BY <2>2 DEF FindRefused, FindEnter
  <2>3. ASSUME NEW c \in Threads, Spawn(t, c)
        PROVE  Sections'
    BY <2>3 DEF Spawn
  <2>4. CASE Exit(t)
    BY <2>4 DEF Exit
  <2> QED BY <1>3, <2>1, <2>2, <2>3, <2>4 DEF Begin
<1>4. ASSUME NEW t \in Threads, Continue(t)
      PROVE  Sections'
  <2>1. CASE NewFail(t) \/ NewLock(t) \/ NewBless(t) \/ NewReject(t)
    <3>1. ASSUME NewFail(t) PROVE Sections'
      BY <3>1 DEF NewFail
    <3>2. ASSUME NewLock(t) PROVE Sections'
      BY <3>2 DEF NewLock
    <3>3. ASSUME NewBless(t) PROVE Sections'
      BY <3>3 DEF NewBless
    <3>4. ASSUME NewReject(t) PROVE Sections'
      BY <3>4 DEF NewReject
    <3>5. QED
      BY <2>1, <3>1, <3>2, <3>3, <3>4
  <2>2. CASE FindLock(t) \/ FindMiss(t) \/ UseSocket(t)
    BY SMTT(30), <2>2 DEF FindLock, FindMiss, UseSocket
  <2>3. CASE FindHit(t)
    BY <2>3 DEF FindHit, AfterFind
  <2>4. CASE DropFlag(t) \/ DecRead(t) \/ DecWrite(t) \/ DecKeep(t)
               \/ DecLast(t)
    BY <2>4 DEF DropFlag, DecRead, DecWrite, DecKeep, DecLast
  <2>5. CASE RemLock(t) \/ RemUnlink(t) \/ RemFree(t)
    BY <2>5 DEF RemLock, RemUnlink, RemFree
  <2>6. CASE CloneLock(t) \/ ClonePick(t) \/ CloneSkip(t) \/ CloneWrite(t)
    BY <2>6 DEF CloneLock, ClonePick, CloneSkip, CloneWrite
  <2>7. CASE CloneDone(t)
    BY <2>7 DEF CloneDone
  <2>8. CASE NewInsert(t)
    BY <2>8 DEF NewInsert, Register
  <2> QED
    BY <1>4, <2>1, <2>2, <2>3, <2>4, <2>5, <2>6, <2>7, <2>8 DEF Continue
<1> QED BY <1>1, <1>2, <1>3, <1>4 DEF Next

LEMMA SectionsHold == Spec => [](TypeOK /\ Sections)
<1>1. Init => Sections
  BY ConstantsAssumption DEF Init, Sections, LockHeld, KidWaits, EndInMain,
     InClone, InEnd, Critical
<1> QED BY <1>1, SectionsStep, TypeCorrect, PTL DEF Spec

(* The mutex excludes: a thread is between GLOBAL_LOCK and GLOBAL_UNLOCK   *)
(* exactly while it holds it, so no two are.  No return of a search, of    *)
(* new, of CLONE or of END leaves it locked.                               *)
THEOREM MutexExcludes ==
  Spec => [](\A t, u \in Threads :
               /\ lock = t <=> pc[t] \in Critical
               /\ {pc[t], pc[u]} \subseteq Critical => t = u)
<1>1. TypeOK /\ Sections =>
        \A t, u \in Threads :
          /\ lock = t <=> pc[t] \in Critical
          /\ {pc[t], pc[u]} \subseteq Critical => t = u
  BY DEF Sections, LockHeld
<1> QED BY <1>1, SectionsHold, PTL

(* Where a call waits for the mutex; every other step of a call has no     *)
(* guard but its place.                                                    *)
Waiting == {"new_add", "find_lock", "rem_lock", "clone_lock", "end_lock"}
GoesOn(t) == pc[t] \notin Resting /\ (pc[t] \in Waiting => lock = NoThread)

(* While a call is under way the mutex is free or one of the calls is in   *)
(* its locked section: somebody does not wait.  (SomeCallCanStep says it   *)
(* with ENABLED.)                                                          *)
THEOREM NoDeadlock ==
  Spec => []((\E t \in Threads : pc[t] \notin Resting)
               => \E t \in Threads : GoesOn(t))
<1>1. TypeOK /\ Sections =>
        ((\E t \in Threads : pc[t] \notin Resting)
           => \E t \in Threads : GoesOn(t))
  <2> SUFFICES ASSUME TypeOK, Sections,
                      NEW t \in Threads, pc[t] \notin Resting
               PROVE  \E u \in Threads : GoesOn(u)
    OBVIOUS
  <2>1. CASE lock = NoThread
    BY <2>1 DEF GoesOn
  <2>2. CASE lock \in Threads
    <3>1. pc[lock] \in Critical
      BY <2>2 DEF Sections, LockHeld
    <3>2. GoesOn(lock)
      BY <3>1 DEF GoesOn, Critical, Waiting, Resting
    <3> QED BY <2>2, <3>2
  <2> QED BY <2>1, <2>2 DEF TypeOK
<1> QED BY <1>1, SectionsHold, PTL
-----------------------------------------------------------------------------
(* How many steps of a call are at most before it at a place, but for the  *)
(* walk of CLONE: a search, the decrement of DESTROY, the unlinking.       *)
Ahead(l) ==
  CASE l \in {"new_add", "find_lock", "clone_lock", "end_lock"} -> 9
    [] l \in {"new_insert", "find_walk", "clone_pick", "clone_write",
              "end_free"} -> 8
    [] l \in {"new_bless", "drop"} -> 7
    [] l = "dec_read" -> 6
    [] l = "dec_write" -> 5
    [] l = "dec_test" -> 4
    [] l = "rem_lock" -> 3
    [] l = "rem_unlink" -> 2
    [] l \in {"rem_free", "use"} -> 1
    [] OTHER -> 0

InWalk == {"clone_pick", "clone_write"}

(* What a step may do to a call of thread t that is under way: leave it    *)
(* where it is, bring it nearer to its end, or, in the walk of CLONE,      *)
(* strike a socket off the list, or end the increment of one.              *)
Advances(t) ==
  \/ pc'[t] = pc[t] /\ todo'[t] = todo[t]
  \/ Ahead(pc'[t]) < Ahead(pc[t])
  \/ /\ pc[t] = "clone_pick" /\ pc'[t] \in InWalk
     /\ \E b \in todo[t] : todo'[t] = todo[t] \ {b}
  \/ pc[t] = "clone_write" /\ pc'[t] = "clone_pick" /\ todo'[t] = todo[t]

LEMMA AdvanceStep ==
  ASSUME TypeOK, Sections, [Next]_vars, NEW t \in Threads,
         pc[t] \notin Resting
  PROVE  Advances(t)
<1> USE DEF TypeOK, Resting, Advances, Ahead, InWalk
<1>1. CASE UNCHANGED vars
  BY <1>1
<1>2. CASE End
  BY <1>2, ConstantsAssumption DEF End, EndEnter, EndLock, EndFree
<1>3. ASSUME NEW u \in Threads, Begin(u)
      PROVE  Advances(t)
  <2>1. pc'[t] = pc[t] /\ todo' = todo
    BY <1>3 DEF Begin, NewAlloc, FindRefused, FindEnter, Spawn, Exit
  <2> QED BY <2>1
<1>4. ASSUME NEW u \in Threads, Continue(u), u # t
      PROVE  Advances(t)
  <2>1. CASE CloneDone(u)
    <3>1. kid[u] # t
      BY <2>1 DEF CloneDone, InClone, Sections, KidWaits
    <3> QED BY <1>4, <2>1, <3>1 DEF CloneDone
  <2>2. CASE ~CloneDone(u)
    BY <1>4, <2>2 DEF Continue, NewFail, NewLock, NewInsert, Register,
       NewBless, NewReject, FindLock, FindMiss, FindHit, UseSocket, DropFlag,
       DecRead, DecWrite, DecKeep, DecLast, RemLock, RemUnlink, RemFree,
       CloneLock, ClonePick, CloneSkip, CloneWrite
  <2> QED BY <2>1, <2>2
<1>5. CASE Continue(t)
  <2>1. CASE NewFail(t) \/ NewLock(t) \/ NewInsert(t) \/ NewBless(t)
               \/ NewReject(t)
    BY <2>1 DEF NewFail, NewLock, NewInsert, Register, NewBless, NewReject
  <2>2. CASE FindLock(t) \/ FindMiss(t) \/ UseSocket(t)
    BY <2>2 DEF FindLock, FindMiss, UseSocket
  <2>3. CASE FindHit(t)
    BY <2>3 DEF FindHit, AfterFind
  <2>4. CASE DropFlag(t) \/ DecRead(t) \/ DecWrite(t) \/ DecKeep(t)
               \/ DecLast(t)
    BY <2>4 DEF DropFlag, DecRead, DecWrite, DecKeep, DecLast
  <2>5. CASE RemLock(t) \/ RemUnlink(t) \/ RemFree(t)
    BY <2>5 DEF RemLock, RemUnlink, RemFree
  <2>6. CASE CloneLock(t) \/ CloneWrite(t)
    BY <2>6 DEF CloneLock, CloneWrite
  <2>7. CASE ClonePick(t) \/ CloneSkip(t)
    BY <2>7 DEF ClonePick, CloneSkip
  <2>8. CASE CloneDone(t)
    BY <2>8 DEF CloneDone, Sections, KidWaits, InClone
  <2> QED BY <1>5, <2>1, <2>2, <2>3, <2>4, <2>5, <2>6, <2>7, <2>8
         DEF Continue
<1> QED BY <1>1, <1>2, <1>3, <1>4, <1>5 DEF Next

(* No call turns back or goes round: from the search to the return, each   *)
(* of its steps brings it nearer to its end, and no step of another thread *)
(* throws it back.  The only loop, the walk of CLONE, visits each socket   *)
(* that was linked when it began once.                                     *)
THEOREM CallsEnd ==
  Spec => [][\A t \in Threads : pc[t] \notin Resting => Advances(t)]_vars
<1>1. TypeOK /\ Sections /\ [Next]_vars
        => [\A t \in Threads : pc[t] \notin Resting => Advances(t)]_vars
  BY AdvanceStep
<1> QED BY <1>1, SectionsHold, PTL DEF Spec
-----------------------------------------------------------------------------
(* The steps of the calls of a thread, and what weak fairness says of them *)
(* of a thread in a locked section, where no step waits: if it keeps the   *)
(* mutex for ever, it takes steps again and again.                         *)
Steps(t) == Continue(t) \/ (t = Main /\ (EndLock \/ EndFree))
Proceeds(t) == []<>(lock # t) \/ []<><<Steps(t)>>_vars

(* The holder of the mutex stays where it is until it steps.               *)
LEMMA HolderStays ==
  ASSUME TypeOK, Sections, [Next]_vars, NEW t \in Threads, lock = t
  PROVE  \/ Steps(t)
         \/ pc'[t] = pc[t] /\ todo'[t] = todo[t] /\ lock' = lock
<1> USE DEF TypeOK, Sections, LockHeld, Steps
<1>0. pc[t] \in Critical /\ pc[t] \notin Resting
  BY DEF Critical, Resting
<1>1. CASE UNCHANGED vars
  BY <1>1
<1>2. CASE End
  <2>1. CASE EndEnter
    BY <1>0, <2>1 DEF EndEnter, Resting
  <2>2. CASE EndLock \/ EndFree
    <3>1. lock = NoThread \/ lock = Main
      BY <2>2, ConstantsAssumption DEF EndLock, EndFree, Critical
    <3>2. t = Main
      BY <3>1, ConstantsAssumption
    <3> QED BY <2>2, <3>2
  <2> QED BY <1>2, <2>1, <2>2 DEF End
<1>3. ASSUME NEW u \in Threads, Begin(u)
      PROVE  pc'[t] = pc[t] /\ todo'[t] = todo[t] /\ lock' = lock
  BY <1>0, <1>3 DEF Begin, NewAlloc, FindRefused, FindEnter, Spawn, Exit,
     Resting
<1>4. ASSUME NEW u \in Threads, Continue(u), u # t
      PROVE  pc'[t] = pc[t] /\ todo'[t] = todo[t] /\ lock' = lock
  <2>1. pc[u] \notin Critical /\ lock # NoThread
    BY <1>4, ConstantsAssumption
  <2> QED
    BY <1>4, <2>1 DEF Continue, NewFail, NewLock, NewInsert, Register,
       NewBless, NewReject, FindLock, FindMiss, FindHit, UseSocket, DropFlag,
       DecRead, DecWrite, DecKeep, DecLast, RemLock, RemUnlink, RemFree,
       CloneLock, ClonePick, CloneSkip, CloneWrite, CloneDone, Critical
<1> QED BY <1>1, <1>2, <1>3, <1>4 DEF Next

(* What the next step of the holder does.                                  *)
LEMMA HolderSteps ==
  ASSUME TypeOK, Sections, NEW t \in Threads, lock = t, Steps(t)
  PROVE  \/ lock' # t
         \/ pc[t] = "clone_write" /\ pc'[t] = "clone_pick" /\ lock' = t
              /\ todo'[t] = todo[t]
         \/ pc[t] = "clone_pick" /\ lock' = t
              /\ \E b \in todo[t] : todo'[t] = todo[t] \ {b}
<1> USE ConstantsAssumption DEF TypeOK, Sections, LockHeld
<1>1. pc[t] \in Critical
  OBVIOUS
<1>2. CASE Continue(t)
  BY <1>1, <1>2 DEF Continue, NewFail, NewLock, NewInsert, Register, NewBless,
     NewReject, FindLock, FindMiss, FindHit, UseSocket, DropFlag, DecRead,
     DecWrite, DecKeep, DecLast, RemLock, RemUnlink, RemFree, CloneLock,
     ClonePick, CloneSkip, CloneWrite, CloneDone, Critical
<1>3. CASE EndLock \/ EndFree
  BY <1>1, <1>3 DEF EndLock, EndFree
<1> QED BY <1>2, <1>3 DEF Steps

(* A thread that takes the mutex gives it back at its next step, ...       *)
THEOREM HolderReleases ==
  \A t \in Threads :
    Spec /\ Proceeds(t)
      => ((lock = t /\ pc[t] \notin InWalk) ~> (lock # t))
<1> SUFFICES ASSUME NEW t \in Threads
             PROVE  Spec /\ Proceeds(t)
                      => ((lock = t /\ pc[t] \notin InWalk) ~> (lock # t))
  OBVIOUS
<1> DEFINE P == lock = t /\ pc[t] \notin InWalk
           Q == lock # t
           A == Steps(t)
<1>1. TypeOK /\ Sections /\ P /\ [Next]_vars => P' \/ Q'
  BY HolderStays, HolderSteps DEF InWalk
<1>2. TypeOK /\ Sections /\ P /\ <<A>>_vars => Q'
  BY HolderSteps DEF InWalk
<1>3. P => ~Q
  OBVIOUS
<1>4. Proceeds(t) <=> ([]<>Q \/ []<><<A>>_vars)
  BY DEF Proceeds
<1> HIDE DEF P, Q, A
<1>5. Spec /\ Proceeds(t) => (P ~> Q)
  BY <1>1, <1>2, <1>3, <1>4, SectionsHold, PTL DEF Spec
<1> QED BY <1>5 DEF P, Q

(* ... but in the walk of CLONE, where it first comes to a state with      *)
(* fewer sockets before it: with the last of them it gives the mutex back. *)
THEOREM WalkShrinks ==
  \A t \in Threads, S \in SUBSET Blocks :
    Spec /\ Proceeds(t)
      => ((lock = t /\ pc[t] \in InWalk /\ todo[t] = S)
            ~> (lock # t \/ \E b \in S : todo[t] = S \ {b}))
<1> SUFFICES ASSUME NEW t \in Threads, NEW S \in SUBSET Blocks
             PROVE  Spec /\ Proceeds(t)
                      => ((lock = t /\ pc[t] \in InWalk /\ todo[t] = S)
                            ~> (lock # t \/ \E b \in S : todo[t] = S \ {b}))
  OBVIOUS
<1> DEFINE P == lock = t /\ pc[t] \in InWalk /\ todo[t] = S
           Write == lock = t /\ pc[t] = "clone_write" /\ todo[t] = S
           Pick == lock = t /\ pc[t] = "clone_pick" /\ todo[t] = S
           Out == lock # t
           Q == lock # t \/ \E b \in S : todo[t] = S \ {b}
           A == Steps(t)
<1>1. TypeOK /\ Sections /\ Write /\ [Next]_vars => Write' \/ Pick' \/ Q'
  BY HolderStays, HolderSteps
<1>2. TypeOK /\ Sections /\ Write /\ <<A>>_vars => Pick' \/ Q'
  BY HolderSteps
<1>3. TypeOK /\ Sections /\ Pick /\ [Next]_vars => Pick' \/ Q'
  BY HolderStays, HolderSteps
<1>4. TypeOK /\ Sections /\ Pick /\ <<A>>_vars => Q'
  BY HolderSteps
<1>5. (P <=> Write \/ Pick) /\ (Out => Q)
  BY DEF InWalk
<1>6. Proceeds(t) <=> ([]<>Out \/ []<><<A>>_vars)
  BY DEF Proceeds
<1> HIDE DEF P, Write, Pick, Out, Q, A
<1>7. Spec /\ Proceeds(t) => (P ~> Q)
  BY <1>1, <1>2, <1>3, <1>4, <1>5, <1>6, SectionsHold, PTL DEF Spec
<1> QED BY <1>7 DEF P, Q
-----------------------------------------------------------------------------
(* A step registers nothing but the number after the last one given out,   *)
(* even where a thread that works on a freed block links it twice, or      *)
(* wipes, with a new allocation, the number of one that is still linked.   *)
LEMMA RegisteredStep ==
  ASSUME TypeOK, PointerOK, [Next]_vars
  PROVE  Registered' \subseteq Registered \cup {0, counter + 1}
<1>1. CASE UNCHANGED vars
  BY <1>1, SameChains
<1>2. CASE End
  <2>1. CASE EndEnter \/ EndLock
    BY <2>1, SameChains DEF EndEnter, EndLock
  <2> QED
    BY <1>2, <2>1, EndRegisters DEF End
<1>3. ASSUME NEW t \in Threads, Begin(t)
      PROVE  Registered' \subseteq Registered \cup {0, counter + 1}
  <2>1. CASE NewAlloc(t)
    <3>1. PICK b \in Blocks : sid' = [sid EXCEPT ![b] = 0]
      BY <2>1 DEF NewAlloc
    <3>2. Chained' = Chained /\ Chained \subseteq Blocks
      BY <2>1 DEF NewAlloc, Chained, TypeOK
    <3>3. \A c \in Chained : sid'[c] \in {0, sid[c]}
      BY <3>1, <3>2 DEF TypeOK
    <3> QED BY <3>2, <3>3 DEF Registered
  <2>2. CASE ~NewAlloc(t)
    BY <1>3, <2>2, SameChains
       DEF Begin, FindRefused, FindEnter, Spawn, Exit
  <2> QED
    BY <2>1, <2>2
<1>4. ASSUME NEW t \in Threads, Continue(t)
      PROVE  Registered' \subseteq Registered \cup {0, counter + 1}
  <2>1. CASE NewInsert(t)
    <3>1. ptr[t] \in Blocks
      BY <2>1 DEF NewInsert, Register, PointerOK, Pointing, InAdd
    <3>2. Chained' \subseteq Chained \cup {ptr[t]} /\ Chained \subseteq Blocks
      BY <2>1, <3>1 DEF NewInsert, Register, Chained, TypeOK
    <3>3. sid' = [sid EXCEPT ![ptr[t]] = counter + 1]
      BY <2>1 DEF NewInsert, Register
    <3>4. \A b \in Chained' : IF b = ptr[t]
                             THEN sid'[b] = counter + 1
                             ELSE b \in Chained /\ sid'[b] = sid[b]
      BY <3>1, <3>2, <3>3 DEF TypeOK
    <3> QED BY <3>4 DEF Registered
  <2>2. CASE RemUnlink(t)
    <3>1. Chained' \subseteq Chained /\ sid' = sid
      BY <2>2 DEF RemUnlink, Chained, TypeOK
    <3> QED BY <3>1 DEF Registered
  <2>3. CASE ~NewInsert(t) /\ ~RemUnlink(t)
    BY <1>4, <2>3, SameChains
       DEF Continue, NewFail, NewLock, NewBless, NewReject, FindLock, FindMiss,
           FindHit, UseSocket, DropFlag, DecRead, DecWrite, DecKeep, DecLast,
           RemLock, RemFree, CloneLock, ClonePick, CloneSkip, CloneWrite,
           CloneDone
  <2> QED
    BY <2>1, <2>2, <2>3
<1> QED
  BY <1>1, <1>2, <1>3, <1>4 DEF Next

(* A number that has been given out is never registered again, whatever    *)
(* scripts do: an object of a freed socket, if it names a socket at all,   *)
(* never comes to name a later one.                                        *)
THEOREM NumbersNotReused == Spec => NeverRevived
<1>1. TypeOK /\ PointerOK /\ [Next]_vars
        => [(Registered' \ Registered) \cap 1 .. counter = {}]_vars
  BY RegisteredStep DEF TypeOK
<1> QED
  BY <1>1, TypeCorrect, PTL DEF Spec, NeverRevived
=============================================================================
