---------------------------- MODULE HandleTable ----------------------------
(***************************************************************************)
(* What the socket registry promises its callers, without blocks, chains,  *)
(* reference counts or a mutex: numbers are issued once, a call that names *)
(* a live number gets hold of that socket and of no other, and one that    *)
(* names a retired number gets nothing.  Any number of calls may hold one  *)
(* socket, but only a call that is alone with it may retire it, and the    *)
(* table may be closed only while nobody asks or holds: a caller that does *)
(* otherwise breaks the table, which then promises nothing any more.       *)
(***************************************************************************)
EXTENDS Naturals

CONSTANT Threads

VARIABLES
  last,   \* the number issued last
  live,   \* the numbers of the sockets that exist
  closed, \* nothing is asked for or issued any more
  want,   \* the number a thread asks for, 0 if none
  held,   \* the number a thread's call holds, 0 if none
  broken  \* the callers broke the rules

vars == <<last, live, closed, want, held, broken>>

Init ==
  /\ last = 0
  /\ live = {}
  /\ closed = FALSE
  /\ want = [t \in Threads |-> 0]
  /\ held = [t \in Threads |-> 0]
  /\ broken = FALSE

Issue(t) ==
  /\ ~closed
  /\ held[t] = 0
  /\ last' = last + 1
  /\ live' = live \cup {last + 1}
  /\ held' = [held EXCEPT ![t] = last + 1]
  /\ UNCHANGED <<closed, want, broken>>

Ask(t, h) ==
  /\ ~closed
  /\ want[t] = 0 /\ held[t] = 0
  /\ want' = [want EXCEPT ![t] = h]
  /\ UNCHANGED <<last, live, closed, held, broken>>

Grant(t) ==
  /\ want[t] \in live
  /\ want' = [want EXCEPT ![t] = 0]
  /\ held' = [held EXCEPT ![t] = want[t]]
  /\ UNCHANGED <<last, live, closed, broken>>

Deny(t) ==
  /\ want[t] # 0 /\ want[t] \notin live
  /\ want' = [want EXCEPT ![t] = 0]
  /\ UNCHANGED <<last, live, closed, held, broken>>

Leave(t) ==
  /\ held[t] # 0
  /\ held' = [held EXCEPT ![t] = 0]
  /\ UNCHANGED <<last, live, closed, want, broken>>

Retire(t) ==
  /\ held[t] \in live
  /\ \A u \in Threads \ {t} : held[u] # held[t]
  /\ live' = live \ {held[t]}
  /\ held' = [held EXCEPT ![t] = 0]
  /\ UNCHANGED <<last, closed, want, broken>>

Close ==
  /\ ~closed
  /\ \A t \in Threads : want[t] = 0 /\ held[t] = 0
  /\ closed' = TRUE
  /\ live' = {}
  /\ UNCHANGED <<last, want, held, broken>>

Break == broken'

Next ==
  \/ \E t \in Threads :
       \/ Issue(t) \/ Grant(t) \/ Deny(t) \/ Leave(t) \/ Retire(t)
       \/ \E h \in 1 .. last : Ask(t, h)
  \/ Close \/ Break

Spec == Init /\ [][Next]_vars
=============================================================================
