--------------------------- MODULE LineScan_proofs --------------------------
(***************************************************************************)
(* What the readers' buffer holds and what their searches decide, for any  *)
(* bytes, length of a chunk, separator and maximum: the lemmas on which    *)
(* the proofs about plain and about SSL sockets rest.                      *)
(***************************************************************************)
EXTENDS LineScan, SequenceTheorems, WellFoundedInduction, TLAPS

Cells == Bytes \cup {Unwritten}

(* How the maximum bounds a packet.                                        *)
Bounded(c) == c.method = "read_packet" /\ c.max > 0 => c.pos <= c.max
LengthBounded(c) ==
  c.method = "read_packet" /\ c.max > 0 => c.length <= c.max

IsCall(c) ==
  c = [method |-> c.method, max |-> c.max, start |-> c.start, pos |-> c.pos,
       matched |-> c.matched, n |-> c.n, done |-> c.done,
       length |-> c.length]

CallTyped(c) ==
  /\ IsCall(c)
  /\ c.method \in {"readline", "read_packet"} /\ c.max \in Maxima \cup {0}
  /\ c.start \in Nat /\ c.pos \in Nat /\ c.matched \in Nat
  /\ c.n \in Nat /\ c.done \in BOOLEAN /\ c.length \in Nat

LEMMA CallIsTyped ==
  ASSUME NEW c, CallTyped(c)
  PROVE  c \in Calls /\ c.max \in Nat
  <1>1. c.max \in Nat
    <2>1. \A max \in Maxima \cup {0} : max \in Nat
      BY LineScanAssumption
    <2> QED BY <2>1, Zenon DEF CallTyped
  <1>2. [method |-> c.method, max |-> c.max, start |-> c.start,
         pos |-> c.pos, matched |-> c.matched, n |-> c.n, done |-> c.done,
         length |-> c.length] \in Calls
    BY DEF CallTyped, Calls
  <1> QED BY <1>1, <1>2 DEF CallTyped, IsCall

LEMMA BeginTyped ==
  ASSUME NEW method \in {"readline", "read_packet"},
         NEW max \in Maxima \cup {0}, NEW start \in Nat,
         NEW c, c = CallOf(method, max, start)
  PROVE  /\ CallTyped(c) /\ c.method = method /\ c.max = max
         /\ c.start = start /\ c.pos = 0 /\ c.matched = 0
  BY DEF CallTyped, IsCall, CallOf, NoCall
-----------------------------------------------------------------------------
(* The helpers.                                                            *)

LEMMA Minimum ==
  ASSUME NEW S \in SUBSET Nat, S # {}
  PROVE  Min(S) \in S /\ \A y \in S : Min(S) <= y
  <1>1. PICK x \in S : \A y \in S : ~ (<<y, x>> \in OpToRel(<, Nat))
    BY NatLessThanWellFounded, WFMin
  <1>2. \A y \in S : x <= y
    <2> TAKE y \in S
    <2>1. ~ (y < x)
      BY <1>1, Zenon DEF OpToRel
    <2> QED BY <2>1
  <1>3. \E z \in S : \A y \in S : z <= y
    BY <1>2
  <1>4. Min(S) = CHOOSE z \in S : \A y \in S : z <= y
    BY DEF Min
  <1> QED BY <1>3, <1>4, Zenon

LEMMA LesserOfTwo ==
  ASSUME NEW x \in Nat, NEW y \in Nat
  PROVE  /\ Min({x, y}) \in Nat
         /\ Min({x, y}) <= x /\ Min({x, y}) <= y
         /\ Min({x, y}) = x \/ Min({x, y}) = y
  <1>1. {x, y} \in SUBSET Nat /\ {x, y} # {}
    OBVIOUS
  <1> QED BY <1>1, Minimum

(* Copying changes only the cells it covers.                               *)
LEMMA PutCells ==
  ASSUME NEW b \in Seq(Cells), NEW p \in Nat, NEW bytes \in Seq(Cells)
  PROVE  /\ Put(b, p, bytes) \in Seq(Cells)
         /\ Len(Put(b, p, bytes)) = Len(b)
         /\ \A k \in 1 .. Len(b) :
              Put(b, p, bytes)[k] = IF k > p /\ k - p \in 1 .. Len(bytes)
                                    THEN bytes[k - p] ELSE b[k]
  <1>1. /\ Len(b) \in Nat /\ DOMAIN b = 1 .. Len(b)
        /\ DOMAIN bytes = 1 .. Len(bytes)
    BY LenProperties
  <1>2. \A k \in 1 .. Len(b) : b[k] \in Cells
    BY ElementOfSeq
  <1>3. \A k \in 1 .. Len(bytes) : bytes[k] \in Cells
    BY ElementOfSeq
  <1>4. Put(b, p, bytes) = [k \in 1 .. Len(b) |->
          IF k > p /\ k - p \in 1 .. Len(bytes) THEN bytes[k - p] ELSE b[k]]
    BY <1>1 DEF Put
  <1>5. Put(b, p, bytes) \in [1 .. Len(b) -> Cells]
    BY <1>2, <1>3, <1>4
  <1>6. Put(b, p, bytes) \in Seq(Cells) /\ Len(Put(b, p, bytes)) = Len(b)
    BY <1>1, <1>5
  <1> QED BY <1>4, <1>6

LEMMA TerminateCells ==
  ASSUME NEW b \in Seq(Cells), NEW p \in Nat
  PROVE  /\ Terminate(b, p) \in Seq(Cells)
         /\ Len(Terminate(b, p)) = Len(b)
         /\ \A k \in 1 .. Len(b) : k # p + 1 => Terminate(b, p)[k] = b[k]
  <1>1. <<"NUL">> \in Seq(Cells) /\ Len(<<"NUL">>) = 1
    BY DEF Cells, Bytes
  <1> DEFINE nul == <<"NUL">>
  <1>2. nul \in Seq(Cells) /\ Len(nul) = 1
    BY <1>1
  <1>3. Terminate(b, p) = Put(b, p, nul)
    BY DEF Terminate
  <1> HIDE DEF nul
  <1>4. Len(b) \in Nat
    BY LenProperties
  <1> QED BY <1>2, <1>3, <1>4, PutCells

LEMMA GrownCells ==
  ASSUME NEW b \in Seq(Cells), NEW len \in Nat
  PROVE  /\ Grown(b, len) \in Seq(Cells)
         /\ Len(Grown(b, len)) \in Nat
         /\ Len(Grown(b, len)) >= len
         /\ Len(Grown(b, len)) >= Len(b)
         /\ \A k \in 1 .. Len(b) : Grown(b, len)[k] = b[k]
  <1>0. Len(b) \in Nat
    BY LenProperties
  <1>1. CASE Len(b) >= len
    BY <1>0, <1>1 DEF Grown
  <1>2. CASE ~ (Len(b) >= len)
    <2> DEFINE g == [k \in 1 .. len |-> IF k <= Len(b) THEN b[k]
                                        ELSE Unwritten]
    <2>1. Grown(b, len) = g
      BY <1>2 DEF Grown
    <2>2. \A k \in 1 .. Len(b) : b[k] \in Cells
      BY ElementOfSeq
    <2>3. \A k \in 1 .. len : k <= Len(b) => k \in 1 .. Len(b)
      BY <1>0
    <2>4. g \in [1 .. len -> Cells]
      BY <2>2, <2>3 DEF Cells
    <2>5. g \in Seq(Cells) /\ Len(g) = len
      BY <2>4
    <2>6. \A k \in 1 .. Len(b) : k \in 1 .. len
      BY <1>0, <1>2
    <2>7. \A k \in 1 .. Len(b) : g[k] = b[k]
      BY <1>0, <2>6
    <2> HIDE DEF g
    <2> QED BY <1>0, <1>2, <2>1, <2>5, <2>7
  <1> QED BY <1>1, <1>2

(* bytes are those behind position p of the sequence b.                    *)
Lies(bytes, p, b) ==
  /\ p + Len(bytes) <= Len(b)
  /\ \A k \in 1 .. Len(bytes) : bytes[k] = b[p + k]

(* The first n bytes of b are those of the stream s behind position start. *)
Shows(s, b, start, n) ==
  /\ n <= Len(b) /\ start + n <= Len(s)
  /\ \A k \in 1 .. n : b[k] = s[start + k]

(* No line end among the n bytes of the stream behind position start.      *)
NoEnd(s, start, n) == \A k \in 1 .. n : s[start + k] \notin LineEnds

(* What is returned of a buffer that shows the stream.                     *)
LEMMA ReturnedShows ==
  ASSUME NEW s \in Seq(Bytes), NEW b \in Seq(Cells), NEW start \in Nat,
         NEW n \in Int, start <= Len(s), Shows(s, b, start, n)
  PROVE  /\ SubSeq(b, 1, n) \in Seq(Cells)
         /\ Len(SubSeq(b, 1, n)) = IF n > 0 THEN n ELSE 0
         /\ Shows(s, SubSeq(b, 1, n), start, Len(SubSeq(b, 1, n)))
  <1>0. Len(b) \in Nat /\ Len(s) \in Nat
    BY LenProperties
  <1>1. CASE n > 0
    <2>1. \A k \in 1 .. n : b[k] \in Cells
      BY <1>0, ElementOfSeq DEF Shows
    <2>2. /\ SubSeq(b, 1, n) \in Seq(Cells)
          /\ Len(SubSeq(b, 1, n)) = n
          /\ \A k \in 1 .. n : SubSeq(b, 1, n)[k] = b[k]
      BY <1>1, <2>1, SubSeqProperties, SMT
    <2> QED BY <1>0, <1>1, <2>2 DEF Shows
  <1>2. CASE ~ (n > 0)
    <2>1. SubSeq(b, 1, n) = <<>>
      BY <1>2, SubSeqEmpty
    <2>2. <<>> \in Seq(Cells) /\ Len(<<>>) = 0
      BY EmptySeq
    <2> QED BY <1>0, <1>2, <2>1, <2>2 DEF Shows
  <1> QED BY <1>1, <1>2

(* A chunk put behind what the buffer shows makes it show more.            *)
LEMMA PutShows ==
  ASSUME NEW s, NEW b \in Seq(Cells), NEW start \in Nat, NEW p \in Nat,
         NEW bytes \in Seq(Bytes), NEW n \in Int,
         start + n <= Len(s), n <= Len(b),
         \A k \in 1 .. n : k <= p \/ k - p > Len(bytes)
                             => b[k] = s[start + k],
         \A k \in 1 .. Len(bytes) : bytes[k] = s[start + p + k]
  PROVE  Shows(s, Put(b, p, bytes), start, n)
  <1>0. Len(b) \in Nat /\ Len(bytes) \in Nat /\ bytes \in Seq(Cells)
    BY LenProperties DEF Cells
  <1>1. /\ Len(Put(b, p, bytes)) = Len(b)
        /\ \A k \in 1 .. Len(b) :
             Put(b, p, bytes)[k] = IF k > p /\ k - p \in 1 .. Len(bytes)
                                   THEN bytes[k - p] ELSE b[k]
    BY <1>0, PutCells
  <1>2. ASSUME NEW k \in 1 .. n
        PROVE  Put(b, p, bytes)[k] = s[start + k]
    <2>1. k \in 1 .. Len(b)
      BY <1>0
    <2>2. CASE k > p /\ k - p \in 1 .. Len(bytes)
      <3>1. bytes[k - p] = s[start + p + (k - p)]
        BY <2>2
      <3>2. start + p + (k - p) = start + k
        OBVIOUS
      <3> QED BY <1>1, <2>1, <2>2, <3>1, <3>2
    <2>3. CASE ~ (k > p /\ k - p \in 1 .. Len(bytes))
      <3>1. k <= p \/ k - p > Len(bytes)
        BY <1>0, <2>3
      <3> QED BY <1>1, <2>1, <2>3, <3>1
    <2> QED BY <2>2, <2>3
  <1> QED BY <1>1, <1>2 DEF Shows

(* The NUL lies behind what is shown.                                      *)
LEMMA TerminateShows ==
  ASSUME NEW s, NEW b \in Seq(Cells), NEW start \in Nat, NEW p \in Nat,
         NEW n \in Int, n <= p, Shows(s, b, start, n)
  PROVE  Shows(s, Terminate(b, p), start, n)
  <1>0. Len(b) \in Nat
    BY LenProperties
  <1>1. \A k \in 1 .. n : k \in 1 .. Len(b) /\ k # p + 1
    BY <1>0 DEF Shows
  <1> QED BY <1>0, <1>1, TerminateCells DEF Shows
-----------------------------------------------------------------------------
(* The search for the separator.                                           *)

(* How much is matched after a byte, if v bytes were before it.            *)
Follow(v, byte) == IF v < Len(Sep) /\ byte = Sep[v + 1] THEN v + 1 ELSE 0

LEMMA SepLength == Len(Sep) \in Nat /\ Len(Sep) > 0
  BY LineScanAssumption, LenProperties, EmptySeq

(* There is a function as Matched is written: else let k be the first      *)
(* place up to which there is none.                                        *)
LEMMA MatchedSteps ==
  ASSUME NEW c, NEW bytes \in Seq(Bytes)
  PROVE  /\ Matched(c, bytes)[0] = c.matched
         /\ \A k \in 1 .. Len(bytes) :
              Matched(c, bytes)[k]
                = Follow(Matched(c, bytes)[k - 1], bytes[k])
  <1> DEFINE n == Len(bytes)
             Value(f, i) == IF i = 0 THEN c.matched
                            ELSE Follow(f[i - 1], bytes[i])
             Solves(f, k) == f = [i \in 0 .. k |-> Value(f, i)]
             unsolved == {k \in 0 .. n : ~ \E f : Solves(f, k)}
  <1>1. n \in Nat
    BY LenProperties
  <1> HIDE DEF n
  <1>2. unsolved = {}
    <2> SUFFICES ASSUME unsolved # {} PROVE FALSE
      OBVIOUS
    <2> DEFINE k == Min(unsolved)
    <2>0. unsolved \in SUBSET Nat
      BY <1>1
    <2>1. k \in unsolved /\ \A j \in unsolved : k <= j
      BY <2>0, Minimum
    <2>2. k \in 0 .. n /\ ~ \E f : Solves(f, k)
      BY <2>1
    <2>3. \A j \in 0 .. n : j < k => \E f : Solves(f, j)
      <3> SUFFICES ASSUME NEW j \in 0 .. n, j < k PROVE \E f : Solves(f, j)
        OBVIOUS
      <3> HIDE DEF k, unsolved, Solves
      <3>1. j \notin unsolved
        BY <1>1, <2>1, <2>2
      <3> QED BY <3>1 DEF unsolved
    <2> HIDE DEF k, unsolved
    <2>4. CASE k = 0
      <3> DEFINE f == [i \in 0 .. 0 |-> c.matched]
      <3>1. f = [i \in 0 .. 0 |-> Value(f, i)]
        OBVIOUS
      <3>2. Solves(f, 0)
        BY <3>1
      <3> QED BY <2>2, <2>4, <3>2
    <2>5. CASE k > 0
      <3>1. k \in Nat /\ k - 1 \in 0 .. n /\ k - 1 < k
        BY <1>1, <2>2, <2>5
      <3>2. PICK f : Solves(f, k - 1)
        BY <2>3, <3>1
      <3> DEFINE g == [i \in 0 .. k |-> IF i < k THEN f[i]
                                        ELSE Value(f, i)]
      <3>3. ASSUME NEW i \in 0 .. k
            PROVE  g[i] = Value(g, i)
        <4>1. CASE i = k
          <5>1. g[i] = Value(f, i)
            BY <4>1
          <5>2. g[i - 1] = f[i - 1]
            BY <3>1, <4>1, <2>5
          <5> HIDE DEF g
          <5> QED BY <5>1, <5>2
        <4>2. CASE i < k
          <5>1. i \in 0 .. k - 1
            BY <3>1, <4>2
          <5>2. f[i] = Value(f, i)
            <6> HIDE DEF Value
            <6> QED BY <3>2, <5>1
          <5>3. g[i] = f[i]
            BY <4>2
          <5>4. i # 0 => g[i - 1] = f[i - 1]
            BY <3>1, <4>2
          <5> HIDE DEF g
          <5> QED BY <5>2, <5>3, <5>4
        <4> QED BY <3>1, <4>1, <4>2
      <3>4. g = [i \in 0 .. k |-> g[i]]
        OBVIOUS
      <3> HIDE DEF g, Value
      <3>5. [i \in 0 .. k |-> g[i]] = [i \in 0 .. k |-> Value(g, i)]
        BY <3>3
      <3>6. Solves(g, k)
        BY <3>4, <3>5
      <3> QED BY <2>2, <3>6
    <2> QED BY <1>1, <2>2, <2>4, <2>5
  <1>3. \E f : Solves(f, n)
    <2>1. n \in 0 .. n
      BY <1>1
    <2> QED BY <1>2, <2>1
  <1>4. Matched(c, bytes) = CHOOSE f : Solves(f, n)
    BY DEF Matched, Follow, n
  <1> DEFINE m == Matched(c, bytes)
  <1>5. Solves(m, n)
    <2> HIDE DEF Solves
    <2> QED BY <1>3, <1>4, Zenon
  <1> HIDE DEF m
  <1>6. \A k \in 0 .. n : m[k] = Value(m, k)
    <2> HIDE DEF Value
    <2> QED BY <1>5
  <1>7. m[0] = c.matched
    BY <1>1, <1>6
  <1>8. ASSUME NEW k \in 1 .. n
        PROVE  m[k] = Follow(m[k - 1], bytes[k])
    <2>1. k \in 0 .. n /\ k # 0
      BY <1>1
    <2> QED BY <1>6, <2>1
  <1> QED BY <1>7, <1>8 DEF m, n

(* f is how much is matched, byte by byte, of the n bytes of the stream s  *)
(* behind position start: the search as if it were made in one piece.      *)
Run(s, start, n, f) ==
  /\ f[0] = 0
  /\ \A i \in 1 .. n : f[i] = Follow(f[i - 1], s[start + i])

(* The separator has not been found among them, and its first v bytes are  *)
(* matched at their end; or it has been found there, and not before.       *)
SearchedTo(s, start, n, v) ==
  \E f : /\ Run(s, start, n, f) /\ f[n] = v
         /\ \A i \in 0 .. n : f[i] < Len(Sep)
FoundAt(s, start, n) ==
  \E f : /\ Run(s, start, n, f) /\ f[n] = Len(Sep)
         /\ \A i \in 0 .. n - 1 : f[i] < Len(Sep)

(* A run has the last f[i] bytes right.                                    *)
LEMMA RunMatches ==
  ASSUME NEW s, NEW start \in Nat, NEW n \in Nat, NEW f, Run(s, start, n, f),
         NEW i \in 0 .. n
  PROVE  /\ f[i] \in 0 .. i /\ f[i] <= Len(Sep)
         /\ \A j \in 1 .. f[i] : s[start + i - f[i] + j] = Sep[j]
  <1> DEFINE Fits(k) == /\ f[k] \in 0 .. k /\ f[k] <= Len(Sep)
                        /\ \A j \in 1 .. f[k] :
                             s[start + k - f[k] + j] = Sep[j]
             unfit == {k \in 0 .. n : ~Fits(k)}
  <1>1. unfit = {}
    <2> SUFFICES ASSUME unfit # {} PROVE FALSE
      OBVIOUS
    <2> DEFINE k == Min(unfit)
    <2>1. k \in unfit /\ \A y \in unfit : k <= y
      <3>1. unfit \in SUBSET Nat
        OBVIOUS
      <3> QED BY <3>1, Minimum
    <2> HIDE DEF k
    <2>2. k \in 0 .. n /\ ~Fits(k)
      BY <2>1
    <2>3. CASE k = 0
      BY <2>2, <2>3, SepLength DEF Run
    <2>4. CASE k > 0
      <3>1. k - 1 \in 0 .. n /\ k \in 1 .. n /\ k \in Nat
        BY <2>2, <2>4
      <3>2. Fits(k - 1)
        <4> HIDE DEF Fits
        <4>1. k - 1 \notin unfit
          <5> HIDE DEF unfit
          <5> QED BY <2>1, <3>1
        <4> QED BY <3>1, <4>1
      <3> DEFINE v == f[k - 1]
      <3>3. /\ v \in 0 .. k - 1 /\ v <= Len(Sep)
            /\ \A j \in 1 .. v : s[start + (k - 1) - v + j] = Sep[j]
        BY <3>2
      <3>4. f[k] = Follow(v, s[start + k])
        BY <3>1 DEF Run
      <3> HIDE DEF v
      <3>5. CASE v < Len(Sep) /\ s[start + k] = Sep[v + 1]
        <4>1. f[k] = v + 1
          BY <3>4, <3>5 DEF Follow
        <4>2. ASSUME NEW j \in 1 .. v + 1
              PROVE  s[start + k - (v + 1) + j] = Sep[j]
          <5>1. CASE j = v + 1
            <6>1. start + k - (v + 1) + j = start + k
              BY <3>1, <3>3, <5>1
            <6> QED BY <3>5, <5>1, <6>1
          <5>2. CASE j \in 1 .. v
            <6>1. start + k - (v + 1) + j = start + (k - 1) - v + j
              BY <3>1, <3>3
            <6> QED BY <3>3, <5>2, <6>1
          <5> QED BY <3>3, <5>1, <5>2
        <4>3. Fits(k)
          BY <3>1, <3>3, <3>5, <4>1, <4>2, SepLength
        <4> QED BY <2>2, <4>3
      <3>6. CASE ~ (v < Len(Sep) /\ s[start + k] = Sep[v + 1])
        <4>1. f[k] = 0
          BY <3>4, <3>6 DEF Follow
        <4>2. Fits(k)
          BY <3>1, <4>1, SepLength
        <4> QED BY <2>2, <4>2
      <3> QED BY <3>5, <3>6
    <2> QED BY <2>2, <2>3, <2>4
  <1>2. i \notin unfit
    <2> HIDE DEF unfit
    <2> QED BY <1>1
  <1> QED BY <1>2

(* The search through one more chunk carries on the run.                   *)
LEMMA RunJoins ==
  ASSUME NEW s, NEW start \in Nat, NEW p \in Nat, NEW c,
         SearchedTo(s, start, p, c.matched),
         NEW got \in Seq(Bytes), NEW j \in 0 .. Len(got),
         Lies(got, start + p, s),
         \A k \in 1 .. j - 1 : Matched(c, got)[k] # Len(Sep)
  PROVE  /\ Matched(c, got)[j] \in Nat /\ Matched(c, got)[j] <= Len(Sep)
         /\ j > 0 /\ Matched(c, got)[j] = Len(Sep) =>
              FoundAt(s, start, p + j)
         /\ j = 0 \/ Matched(c, got)[j] # Len(Sep) =>
              SearchedTo(s, start, p + j, Matched(c, got)[j])
  <1> DEFINE m == Matched(c, got)
             L == Len(Sep)
  <1>0. Len(got) \in Nat /\ L \in Nat /\ L > 0
    BY LenProperties, SepLength
  <1>1. PICK f : /\ Run(s, start, p, f) /\ f[p] = c.matched
                 /\ \A i \in 0 .. p : f[i] < L
    BY DEF SearchedTo
  <1>2. /\ m[0] = c.matched
        /\ \A k \in 1 .. Len(got) : m[k] = Follow(m[k - 1], got[k])
    BY MatchedSteps
  <1> HIDE DEF m, L
  <1> DEFINE g == [i \in 0 .. p + j |-> IF i <= p THEN f[i] ELSE m[i - p]]
  <1>3. /\ \A i \in 0 .. p : g[i] = f[i]
        /\ \A i \in p .. p + j : g[i] = m[i - p]
    <2>1. \A i \in 0 .. p : g[i] = f[i]
      OBVIOUS
    <2>2. ASSUME NEW i \in p .. p + j PROVE g[i] = m[i - p]
      <3>1. CASE i = p
        <4>1. g[p] = f[p]
          BY <2>1
        <4> HIDE DEF g
        <4> QED BY <1>1, <1>2, <3>1, <4>1
      <3>2. CASE i > p
        BY <3>2
      <3> QED BY <3>1, <3>2
    <2> QED BY <2>1, <2>2
  <1> HIDE DEF g
  <1>4. Run(s, start, p + j, g)
    <2>1. g[0] = 0
      BY <1>1, <1>3 DEF Run
    <2>2. ASSUME NEW i \in 1 .. p + j
          PROVE  g[i] = Follow(g[i - 1], s[start + i])
      <3>1. CASE i <= p
        <4>1. i \in 0 .. p /\ i - 1 \in 0 .. p /\ i \in 1 .. p
          BY <3>1
        <4> QED BY <1>1, <1>3, <4>1 DEF Run
      <3>2. CASE i > p
        <4>1. /\ i \in p .. p + j /\ i - 1 \in p .. p + j
              /\ i - p \in 1 .. Len(got) /\ i - 1 - p = i - p - 1
              /\ start + p + (i - p) = start + i
          BY <1>0, <3>2
        <4>2. m[i - p] = Follow(m[i - p - 1], got[i - p])
          BY <1>2, <4>1
        <4>3. got[i - p] = s[start + i]
          BY <4>1 DEF Lies
        <4>4. g[i] = m[i - p] /\ g[i - 1] = m[i - 1 - p]
          BY <1>3, <4>1
        <4> QED BY <4>1, <4>2, <4>3, <4>4
      <3> QED BY <3>1, <3>2
    <2> QED BY <2>1, <2>2 DEF Run
  <1>5. \A i \in 0 .. p + j : g[i] \in Nat /\ g[i] <= L
    <2> DEFINE n == p + j
    <2>1. n \in Nat /\ Run(s, start, n, g)
      BY <1>0, <1>4
    <2> HIDE DEF n
    <2>2. \A i \in 0 .. n : g[i] \in 0 .. i /\ g[i] <= L
      BY <2>1, RunMatches DEF L
    <2> QED BY <2>1, <2>2 DEF n
  <1>6. g[p + j] = m[j]
    BY <1>3
  <1>7. \A i \in 0 .. p + j - 1 : g[i] < L
    <2> TAKE i \in 0 .. p + j - 1
    <2>1. CASE i <= p
      <3>1. i \in 0 .. p
        BY <2>1
      <3> QED BY <1>1, <1>3, <3>1
    <2>2. CASE i > p
      <3>1. i - p \in 1 .. j - 1 /\ i \in p .. p + j /\ i \in 0 .. p + j
        BY <2>2
      <3>2. g[i] = m[i - p] /\ m[i - p] # L
        BY <1>3, <3>1 DEF m, L
      <3> QED BY <1>0, <1>5, <3>1, <3>2
    <2> QED BY <2>1, <2>2
  <1>8. m[j] \in Nat /\ m[j] <= L
    BY <1>5, <1>6
  <1>9. j > 0 /\ m[j] = L => FoundAt(s, start, p + j)
    BY <1>4, <1>6, <1>7 DEF FoundAt, L
  <1>10. j = 0 \/ m[j] # L => SearchedTo(s, start, p + j, m[j])
    <2> SUFFICES ASSUME j = 0 \/ m[j] # L
                 PROVE  SearchedTo(s, start, p + j, m[j])
      OBVIOUS
    <2>1. m[j] < L
      BY <1>0, <1>1, <1>2, <1>8
    <2>2. ASSUME NEW i \in 0 .. p + j PROVE g[i] < L
      <3>1. CASE i = p + j
        BY <1>6, <2>1, <3>1
      <3>2. CASE i \in 0 .. p + j - 1
        BY <1>7, <3>2
      <3> QED BY <1>0, <3>1, <3>2
    <2> QED BY <1>4, <1>6, <2>2 DEF SearchedTo, L
  <1> QED BY <1>8, <1>9, <1>10 DEF m, L

(* Where the separator has been found, it is there, and what comes before  *)
(* it has been searched.                                                   *)
LEMMA FoundIsThere ==
  ASSUME NEW s, NEW start \in Nat, NEW n \in Nat, FoundAt(s, start, n)
  PROVE  /\ n - Len(Sep) \in Nat
         /\ \A j \in 1 .. Len(Sep) : s[start + (n - Len(Sep)) + j] = Sep[j]
         /\ \E v : SearchedTo(s, start, n - Len(Sep), v)
  <1> DEFINE L == Len(Sep)
  <1>0. L \in Nat /\ L > 0
    BY SepLength
  <1>1. PICK f : /\ Run(s, start, n, f) /\ f[n] = L
                 /\ \A i \in 0 .. n - 1 : f[i] < L
    BY DEF FoundAt
  <1>2. n \in 0 .. n
    OBVIOUS
  <1>3. L \in 0 .. n /\ \A j \in 1 .. L : s[start + n - L + j] = Sep[j]
    <2> HIDE DEF L
    <2> QED BY <1>1, <1>2, RunMatches
  <1> HIDE DEF L
  <1>4. n - L \in Nat /\ \A j \in 1 .. L : start + (n - L) + j
                                            = start + n - L + j
    BY <1>3
  <1>5. Run(s, start, n - L, f)
    <2>1. \A i \in 1 .. n - L : i \in 1 .. n
      BY <1>0, <1>4
    <2> QED BY <1>1, <2>1 DEF Run
  <1>6. \A i \in 0 .. n - L : f[i] < L
    <2>1. \A i \in 0 .. n - L : i \in 0 .. n - 1
      BY <1>0, <1>4
    <2> QED BY <1>1, <2>1
  <1>7. SearchedTo(s, start, n - L, f[n - L])
    BY <1>5, <1>6 DEF SearchedTo, L
  <1> QED BY <1>3, <1>4, <1>7 DEF L

(* A separator which the search has passed over was not looked at from its *)
(* first byte: the bytes before it had been taken for the beginning of one.*)
LEMMA PassedOver ==
  ASSUME NEW s, NEW start \in Nat, NEW n \in Nat, NEW v,
         SearchedTo(s, start, n, v), NEW k \in 1 .. n - Len(Sep) + 1,
         Lies(Sep, start + k - 1, s)
  PROVE  k > 1 /\ \E j \in 1 .. Len(Sep) - 1 : s[start + k - 1] = Sep[j]
  <1> DEFINE L == Len(Sep)
  <1>0. L \in Nat /\ L > 0
    BY SepLength
  <1>1. PICK f : Run(s, start, n, f) /\ \A i \in 0 .. n : f[i] < L
    BY DEF SearchedTo
  <1> HIDE DEF L
  <1>2. k - 1 \in 0 .. n /\ k - 1 + L \in 0 .. n /\ k \in Nat
    BY <1>0 DEF L
  <1>3. CASE f[k - 1] = 0
    <2> DEFINE off == {i \in 0 .. L : f[k - 1 + i] # i}
               i == Min(off)
    <2>1. L \in off
      BY <1>0, <1>1, <1>2
    <2>2. off \in SUBSET Nat
      BY <1>0
    <2>3. i \in off /\ \A y \in off : i <= y
      BY <2>1, <2>2, Minimum
    <2> HIDE DEF i
    <2>4. i \in 0 .. L /\ f[k - 1 + i] # i
      BY <2>3
    <2>5. i > 0
      BY <1>2, <1>3, <2>4
    <2>6. i - 1 \in 0 .. L /\ i \in 1 .. L
      BY <1>0, <2>4, <2>5
    <2>7. f[k - 1 + (i - 1)] = i - 1
      <3>1. i - 1 \notin off
        <4> HIDE DEF off
        <4> QED BY <2>3, <2>6
      <3> QED BY <2>6, <3>1
    <2>8. /\ k - 1 + i \in 1 .. n /\ k - 1 + i - 1 = k - 1 + (i - 1)
          /\ start + (k - 1 + i) = start + k - 1 + i
      BY <1>0, <1>2, <2>6
    <2>9. f[k - 1 + i] = Follow(i - 1, s[start + k - 1 + i])
      <3> DEFINE x == k - 1 + i
      <3>1. x \in 1 .. n
        BY <2>8
      <3> HIDE DEF x
      <3>2. f[x] = Follow(f[x - 1], s[start + x])
        BY <1>1, <3>1 DEF Run
      <3>3. x - 1 = k - 1 + (i - 1) /\ start + x = start + k - 1 + i
        BY <1>0, <1>2, <2>6 DEF x
      <3>4. f[x] = Follow(i - 1, s[start + k - 1 + i])
        BY <2>7, <3>2, <3>3, Zenon
      <3> QED BY <3>4 DEF x
    <2>10. s[start + k - 1 + i] = Sep[i] /\ i - 1 < L /\ i - 1 + 1 = i
      BY <1>0, <2>6 DEF L, Lies
    <2>11. f[k - 1 + i] = i
      BY <2>9, <2>10 DEF Follow, L
    <2> QED BY <2>4, <2>11
  <1>4. CASE f[k - 1] # 0
    <2>1. k - 1 \in 1 .. n
      BY <1>1, <1>2, <1>4 DEF Run
    <2>2. f[k - 1] \in 0 .. k - 1 /\ f[k - 1] < L
      BY <1>1, <1>2, RunMatches
    <2>3. f[k - 1] = Follow(f[k - 2], s[start + (k - 1)])
      <3>1. k - 1 - 1 = k - 2
        BY <1>2
      <3> QED BY <1>1, <2>1, <3>1 DEF Run
    <2>4. s[start + (k - 1)] = Sep[f[k - 2] + 1] /\ f[k - 1] = f[k - 2] + 1
      BY <1>4, <2>3 DEF Follow
    <2>5. start + (k - 1) = start + k - 1
      BY <1>2
    <2>6. s[start + k - 1] = Sep[f[k - 1]] /\ f[k - 1] \in 1 .. L - 1
      BY <1>0, <1>2, <1>4, <2>2, <2>4, <2>5
    <2>7. k > 1
      BY <1>2, <2>1
    <2> QED BY <2>6, <2>7, Zenon DEF L
  <1> QED BY <1>3, <1>4

LEMMA SearchBegins ==
  ASSUME NEW s, NEW start \in Nat
  PROVE  SearchedTo(s, start, 0, 0)
  <1> DEFINE f == [i \in {0} |-> 0]
  <1>1. f[0] = 0
    OBVIOUS
  <1> HIDE DEF f
  <1>2. Run(s, start, 0, f) /\ \A i \in 0 .. 0 : f[i] < Len(Sep)
    BY <1>1, SepLength DEF Run
  <1> QED BY <1>1, <1>2 DEF SearchedTo

(* The search looks only at the bytes it has come to.                      *)
LEMMA SearchedStill ==
  ASSUME NEW s, NEW t, NEW start \in Nat, NEW n \in Nat, NEW v,
         SearchedTo(s, start, n, v),
         \A i \in 1 .. n : t[start + i] = s[start + i]
  PROVE  SearchedTo(t, start, n, v)
  <1>1. PICK f : /\ Run(s, start, n, f) /\ f[n] = v
                 /\ \A i \in 0 .. n : f[i] < Len(Sep)
    BY DEF SearchedTo
  <1>2. Run(t, start, n, f)
    BY <1>1 DEF Run
  <1> QED BY <1>1, <1>2 DEF SearchedTo
-----------------------------------------------------------------------------
(* What a search may decide about the bytes got that a peek has shown.     *)
Sensible(c, got, o) ==
  /\ IsCall(o)
  /\ o.method = c.method /\ o.max = c.max /\ o.start = c.start
  /\ o.pos = c.pos
  /\ o.matched \in Nat /\ o.n \in Nat /\ o.done \in BOOLEAN
  /\ o.length \in Int /\ o.length <= c.pos + Len(got)
  /\ ~o.done => /\ o.length = c.pos + o.n
                /\ o.n = Len(got) /\ Len(got) >= Chunk

(* readline takes the line and one end, or a second if the two are a pair; *)
(* behind the last byte shown it cannot know that.                         *)
LineChosen(c, got, o) ==
  LET line == o.length - c.pos
  IN /\ line \in Nat /\ o.n \in line .. line + 2
     /\ \A k \in 1 .. line : got[k] \notin LineEnds
     /\ o.n > line => line + 1 <= Len(got) /\ got[line + 1] \in LineEnds
     /\ o.n = line + 2 => \/ line + 1 = Len(got)
                          \/ {got[line + 1], got[line + 2]} = {"CR", "LF"}

(* read_packet takes what it returns, or the separator too.                *)
PacketChosen(s, c, got, o) ==
  /\ LengthBounded(o) /\ o.n <= Len(got)
  /\ \/ /\ o.length = c.pos + o.n
        /\ \E v : SearchedTo(s, c.start, o.length, v)
                    /\ (o.done \/ v = o.matched)
     \/ /\ o.done /\ o.length + Len(Sep) = c.pos + o.n
        /\ FoundAt(s, c.start, c.pos + o.n)

LEMMA TakeAllIs ==
  ASSUME NEW c, IsCall(c), NEW got, NEW matched,
         NEW o, o = TakeAll(c, got, matched)
  PROVE  /\ IsCall(o)
         /\ o.method = c.method /\ o.max = c.max /\ o.start = c.start
         /\ o.pos = c.pos /\ o.n = Len(got) /\ o.length = c.pos + Len(got)
         /\ o.done = (Len(got) < Chunk) /\ o.matched = matched
         /\ o.done \in BOOLEAN /\ (o.done <=> Len(got) < Chunk)
  <1>1. /\ IsCall(o)
        /\ o.method = c.method /\ o.max = c.max /\ o.start = c.start
        /\ o.pos = c.pos /\ o.n = Len(got) /\ o.length = c.pos + Len(got)
        /\ o.done = (Len(got) < Chunk) /\ o.matched = matched
    BY DEF IsCall, TakeAll
  <1>2. (Len(got) < Chunk) \in BOOLEAN
    OBVIOUS
  <1>3. o.done \in BOOLEAN /\ (o.done <=> Len(got) < Chunk)
    BY <1>1, <1>2, Zenon
  <1> QED BY <1>1, <1>3

LEMMA TakeAllSensible ==
  ASSUME NEW c, IsCall(c), c.pos \in Nat, NEW got \in Seq(Bytes),
         NEW matched \in Nat, NEW o, o = TakeAll(c, got, matched)
  PROVE  Sensible(c, got, o)
  <1>1. Len(got) \in Nat /\ Chunk \in Nat
    BY LenProperties, LineScanAssumption
  <1>2. /\ IsCall(o)
        /\ o.method = c.method /\ o.max = c.max /\ o.start = c.start
        /\ o.pos = c.pos /\ o.n = Len(got) /\ o.length = c.pos + Len(got)
        /\ o.done \in BOOLEAN /\ (o.done <=> Len(got) < Chunk)
        /\ o.matched = matched
    BY TakeAllIs
  <1> QED BY <1>1, <1>2 DEF Sensible

LEMMA TakeAndReturnIs ==
  ASSUME NEW c, IsCall(c), NEW n, NEW length,
         NEW o, o = TakeAndReturn(c, n, length)
  PROVE  /\ IsCall(o)
         /\ o.method = c.method /\ o.max = c.max /\ o.start = c.start
         /\ o.pos = c.pos /\ o.n = n /\ o.length = length
         /\ o.done \in BOOLEAN /\ o.done /\ o.matched = c.matched
  BY DEF IsCall, TakeAndReturn

LEMMA LineSensible ==
  ASSUME NEW c, IsCall(c), c.pos \in Nat, c.matched \in Nat,
         NEW got \in Seq(Bytes), NEW peeked, Len(peeked) \in Nat,
         Lies(got, c.pos, peeked),
         NEW o \in LineOutcomes(c, got, peeked)
  PROVE  Sensible(c, got, o) /\ LineChosen(c, got, o)
  <1> DEFINE ends == {k \in DOMAIN got : got[k] \in LineEnds}
             i == FirstEnd(got)
  <1>1. Len(got) \in Nat /\ DOMAIN got = 1 .. Len(got)
    BY LenProperties
  <1>2. ends \in SUBSET Nat
    BY <1>1
  <1>3. i = IF ends = {} THEN 0 ELSE Min(ends)
    BY DEF FirstEnd
  <1>4. CASE ends = {}
    <2>1. \A k \in 1 .. Len(got) : got[k] \notin LineEnds
      BY <1>1, <1>4
    <2>2. i = 0
      BY <1>3, <1>4
    <2>3. o = TakeAll(c, got, 0)
      BY <2>2 DEF LineOutcomes
    <2>4. Sensible(c, got, o)
      BY <2>3, TakeAllSensible
    <2>5. o.n = Len(got) /\ o.length = c.pos + Len(got)
      BY <2>3, TakeAllIs
    <2>6. o.length - c.pos = Len(got)
      BY <1>1, <2>5
    <2>7. LineChosen(c, got, o)
      BY <1>1, <2>1, <2>5, <2>6 DEF LineChosen
    <2> QED BY <2>4, <2>7
  <1>5. CASE ends # {}
    <2>1. i \in ends /\ \A k \in ends : i <= k
      BY <1>2, <1>3, <1>5, Minimum
    <2>2. i \in 1 .. Len(got) /\ got[i] \in LineEnds
      BY <1>1, <2>1
    <2>3. \A k \in 1 .. i - 1 : got[k] \notin LineEnds
      <3> SUFFICES ASSUME NEW k \in 1 .. i - 1, got[k] \in LineEnds
                   PROVE  FALSE
        OBVIOUS
      <3>1. k \in ends /\ k < i
        BY <1>1, <2>2
      <3> QED BY <2>1, <2>2, <3>1
    <2> DEFINE at == c.pos + i
               follows == IF at < Len(peeked) THEN peeked[at + 1]
                          ELSE Unwritten
    <2>0. i \in Nat /\ i > 0 /\ i <= Len(got) /\ Len(got) \in Nat
          /\ c.pos \in Nat
      BY <1>1, <2>2
    <2>4. PICK second \in SecondEnd(got[i], follows) :
            o = TakeAndReturn(c, i + second, at - 1)
      BY <2>2 DEF LineOutcomes
    <2> HIDE DEF i, ends
    <2>5. i < Len(got) => follows = got[i + 1] /\ follows \in Bytes
      <3> SUFFICES ASSUME i < Len(got) PROVE follows = got[i + 1]
                                             /\ got[i + 1] \in Bytes
        BY Zenon
      <3>1. at < Len(peeked) /\ at + 1 = c.pos + (i + 1)
            /\ i + 1 \in 1 .. Len(got)
        BY SMTT(30), <1>1, <2>2 DEF Lies
      <3>2. got[i + 1] \in Bytes
        BY <3>1, ElementOfSeq
      <3>3. got[i + 1] = peeked[at + 1]
        BY <3>1 DEF Lies
      <3> QED BY <3>1, <3>2, <3>3
    <2> HIDE DEF follows
    <2>6. /\ second \in {0, 1}
          /\ second = 1 /\ follows # Unwritten =>
               {got[i], follows} = {"CR", "LF"}
      <3> DEFINE end == got[i]
                 pair == {end, follows} = {"CR", "LF"}
      <3>1. SecondEnd(end, follows)
              = CASE end = "NUL" -> {0}
                  [] follows = Unwritten -> {0, 1}
                  [] OTHER -> {IF pair THEN 1 ELSE 0}
        BY DEF SecondEnd
      <3>2. second \in SecondEnd(end, follows)
        OBVIOUS
      <3> HIDE DEF pair, end
      <3>3. second \in {0, 1} /\ (second = 1 /\ follows # Unwritten => pair)
        BY <3>1, <3>2
      <3> QED BY <3>3 DEF pair, end
    <2>7. second = 1 => i = Len(got) \/ {got[i], got[i + 1]} = {"CR", "LF"}
      <3> SUFFICES ASSUME second = 1, i # Len(got)
                   PROVE  {got[i], got[i + 1]} = {"CR", "LF"}
        OBVIOUS
      <3>1. i < Len(got)
        BY <2>0
      <3>2. follows = got[i + 1] /\ follows # Unwritten
        BY <2>5, <3>1 DEF Bytes, Unwritten
      <3> QED BY <2>6, <3>2, Zenon
    <2>8. /\ IsCall(o)
          /\ o.method = c.method /\ o.max = c.max /\ o.start = c.start
          /\ o.pos = c.pos /\ o.n = i + second /\ o.done \in BOOLEAN /\ o.done
          /\ o.length = at - 1 /\ o.matched = c.matched
      BY <2>4, TakeAndReturnIs
    <2>9. Sensible(c, got, o)
      BY <1>1, <2>2, <2>6, <2>8 DEF Sensible
    <2>10. LineChosen(c, got, o)
      <3> DEFINE line == o.length - c.pos
      <3>0. line = i - 1
        BY <2>0, <2>8
      <3> HIDE DEF line
      <3>1. /\ line + 1 = i /\ line + 2 = i + 1
            /\ line \in Nat /\ o.n \in line .. line + 2
            /\ o.n = line + 2 => second = 1
        BY <2>0, <2>6, <2>8, <3>0
      <3>2. \A k \in 1 .. line : got[k] \notin LineEnds
        BY <2>3, <3>0
      <3>3. line + 1 <= Len(got) /\ got[line + 1] \in LineEnds
        BY <1>1, <2>2, <3>1
      <3>4. o.n = line + 2 => \/ line + 1 = Len(got)
                             \/ {got[line + 1], got[line + 2]} = {"CR", "LF"}
        BY <2>7, <3>1, Zenon
      <3> QED BY <3>1, <3>2, <3>3, <3>4, Zenon DEF LineChosen, line
    <2> QED BY <2>9, <2>10
  <1> QED BY <1>4, <1>5

(* read_packet takes no more than it has been shown, and no more than the  *)
(* maximum leaves.                                                         *)
LEMMA PacketSensible ==
  ASSUME NEW s, NEW c, IsCall(c), c.start \in Nat, c.pos \in Nat,
         c.matched \in Nat, c.max \in Nat, c.method = "read_packet",
         Bounded(c), SearchedTo(s, c.start, c.pos, c.matched),
         NEW got \in Seq(Bytes), Lies(got, c.start + c.pos, s),
         NEW o, o = PacketOutcome(c, got)
  PROVE  Sensible(c, got, o) /\ PacketChosen(s, c, got, o)
  <1> DEFINE room == Room(c, Len(got))
             m == Matched(c, got)
             least == Min({room, Len(got)})
             found == {k \in 1 .. least : m[k] = Len(Sep)}
  <1>0. Len(got) \in Nat /\ Len(Sep) \in Nat \ {0}
    BY LenProperties, SepLength
  <1>1. room \in Nat /\ (c.max > 0 => c.pos + room <= c.max)
    BY <1>0 DEF Room, Bounded
  <1>2. o = IF found # {} THEN PacketEnd(c, Min(found))
            ELSE IF room < Len(got) THEN TakeAndReturn(c, room, c.pos + room)
            ELSE TakeAll(c, got, m[Len(got)])
    BY DEF PacketOutcome
  <1>3. /\ least \in Nat /\ least <= room /\ least <= Len(got)
        /\ least = room \/ least = Len(got)
    <2> HIDE DEF room
    <2> QED BY <1>0, <1>1, LesserOfTwo
  <1> HIDE DEF least, room
  <1>4. found \in SUBSET Nat /\ \A k \in found : k \in 1 .. least
    BY <1>3
  <1>5. \A j \in 0 .. Len(got) :
          (\A k \in 1 .. j - 1 : m[k] # Len(Sep)) =>
            /\ m[j] \in Nat
            /\ j > 0 /\ m[j] = Len(Sep) => FoundAt(s, c.start, c.pos + j)
            /\ j = 0 \/ m[j] # Len(Sep) =>
                 SearchedTo(s, c.start, c.pos + j, m[j])
    BY RunJoins
  <1> HIDE DEF m
  <1>6. CASE found # {}
    <2> DEFINE k == Min(found)
    <2>1. k \in found /\ \A y \in found : k <= y
      BY <1>4, <1>6, Minimum
    <2> HIDE DEF k
    <2>2. k \in 1 .. least /\ k \in Nat /\ m[k] = Len(Sep)
      BY <1>3, <2>1
    <2>3. \A y \in 1 .. k - 1 : m[y] # Len(Sep)
      <3> SUFFICES ASSUME NEW y \in 1 .. k - 1, m[y] = Len(Sep) PROVE FALSE
        OBVIOUS
      <3>1. y \in found /\ y < k
        BY <1>3, <2>2
      <3> HIDE DEF found
      <3> QED BY <2>1, <2>2, <3>1
    <2> HIDE DEF found
    <2>4. k \in 0 .. Len(got) /\ k > 0 /\ k <= room
      BY <1>0, <1>1, <1>3, <2>2
    <2>5. FoundAt(s, c.start, c.pos + k)
      BY <1>5, <2>2, <2>3, <2>4
    <2>6. o = TakeAndReturn(c, k, c.pos + k - Len(Sep))
      BY <1>2, <1>6 DEF PacketEnd, k
    <2>7. /\ IsCall(o)
          /\ o.method = c.method /\ o.max = c.max /\ o.start = c.start
          /\ o.pos = c.pos /\ o.n = k /\ o.done \in BOOLEAN /\ o.done
          /\ o.length = c.pos + k - Len(Sep) /\ o.matched = c.matched
      BY <2>6, TakeAndReturnIs
    <2>8. Sensible(c, got, o)
      BY <1>0, <2>2, <2>4, <2>7 DEF Sensible
    <2>9. o.length + Len(Sep) = c.pos + o.n
      BY <1>0, <2>2, <2>7
    <2>10. LengthBounded(o)
      BY <1>0, <1>1, <2>2, <2>4, <2>7 DEF LengthBounded
    <2> QED BY <1>0, <2>4, <2>5, <2>7, <2>8, <2>9, <2>10 DEF PacketChosen
  <1>7. CASE found = {}
    <2>1. \A k \in 1 .. least : m[k] # Len(Sep)
      BY <1>7
    <2> HIDE DEF found
    <2>2. least \in 0 .. Len(got) /\ \A k \in 1 .. least - 1 : m[k] # Len(Sep)
      BY <1>0, <1>3, <2>1
    <2>3. least = 0 \/ m[least] # Len(Sep)
      BY <1>3, <2>1
    <2>4. m[least] \in Nat /\ SearchedTo(s, c.start, c.pos + least, m[least])
      BY <1>5, <2>2, <2>3
    <2>5. CASE room < Len(got)
      <3>1. o = TakeAndReturn(c, room, c.pos + room) /\ least = room
        BY <1>0, <1>1, <1>2, <1>3, <1>7, <2>5
      <3>2. /\ IsCall(o)
            /\ o.method = c.method /\ o.max = c.max /\ o.start = c.start
            /\ o.pos = c.pos /\ o.n = room /\ o.done \in BOOLEAN /\ o.done
            /\ o.length = c.pos + room /\ o.matched = c.matched
        BY <3>1, TakeAndReturnIs
      <3>3. Sensible(c, got, o) /\ LengthBounded(o) /\ o.n <= Len(got)
        BY <1>0, <1>1, <2>5, <3>2 DEF Sensible, LengthBounded
      <3>4. SearchedTo(s, c.start, o.length, m[least])
        BY <2>4, <3>1, <3>2
      <3>5. o.length = c.pos + o.n
        BY <3>2
      <3> QED BY <3>2, <3>3, <3>4, <3>5, Zenon DEF PacketChosen
    <2>6. CASE ~ (room < Len(got))
      <3>1. o = TakeAll(c, got, m[least]) /\ least = Len(got)
        BY <1>0, <1>1, <1>2, <1>3, <1>7, <2>6
      <3>2. Sensible(c, got, o)
        BY <2>4, <3>1, TakeAllSensible
      <3>3. /\ o.n = Len(got) /\ o.length = c.pos + Len(got)
            /\ o.max = c.max /\ o.matched = m[least]
        BY <3>1, TakeAllIs
      <3>4. LengthBounded(o) /\ o.n <= Len(got) /\ o.length = c.pos + o.n
        BY <1>0, <1>1, <2>6, <3>3 DEF LengthBounded
      <3>5. SearchedTo(s, c.start, o.length, o.matched)
        BY <2>4, <3>1, <3>3
      <3> QED BY <3>2, <3>4, <3>5, Zenon DEF PacketChosen
    <2> QED BY <2>5, <2>6
  <1> QED BY <1>6, <1>7
-----------------------------------------------------------------------------
(* A call on its way.  s is the stream, b the buffer.                      *)

(* Before a peek: what has been taken is in the buffer, without an end.    *)
Searched(s, c, b) ==
  /\ Shows(s, b, c.start, c.pos)
  /\ Bounded(c)
  /\ c.method = "readline" => NoEnd(s, c.start, c.pos)
  /\ c.method = "read_packet" => SearchedTo(s, c.start, c.pos, c.matched)

LineDecided(s, c) ==
  /\ c.pos <= c.length /\ c.length <= c.pos + c.n
  /\ NoEnd(s, c.start, c.length)
  /\ c.n > c.length - c.pos =>
       /\ c.n <= c.length - c.pos + 2
       /\ c.start + c.length + 1 <= Len(s)
       /\ s[c.start + c.length + 1] \in LineEnds

(* The separator is what lies behind position p.                           *)
SepBehind(s, p) == Lies(Sep, p, s)

PacketDecided(s, c) ==
  /\ c.start + c.pos + c.n <= Len(s)
  /\ \E v : SearchedTo(s, c.start, c.length, v) /\ (c.done \/ v = c.matched)
  /\ \/ c.length = c.pos + c.n
     \/ /\ c.done /\ c.length + Len(Sep) = c.pos + c.n
        /\ SepBehind(s, c.start + c.length)

(* Before a take: what it is for.  Its bytes lie in the buffer already,    *)
(* before the NUL.                                                         *)
Decided(s, c, b) ==
  /\ Shows(s, b, c.start, c.length)
  /\ LengthBounded(c)
  /\ ~c.done => c.length = c.pos + c.n
  /\ c.method = "readline" => LineDecided(s, c)
  /\ c.method = "read_packet" => PacketDecided(s, c)

(* The call returns bytes.                                                 *)
Answers(s, c, bytes) ==
  /\ Shows(s, bytes, c.start, Len(bytes))
  /\ c.method = "readline" => NoEnd(s, c.start, Len(bytes))
  /\ c.method = "read_packet" =>
       /\ \E v : SearchedTo(s, c.start, Len(bytes), v)
       /\ c.max > 0 => Len(bytes) <= c.max

(* What has been taken by then, with len bytes returned.                   *)
LineTaken(s, c, len, taken) ==
  taken > c.start + len =>
    /\ taken <= c.start + len + 2
    /\ s[c.start + len + 1] \in LineEnds
PacketTaken(s, c, len, taken) ==
  \/ taken = c.start + len
  \/ taken = c.start + len + Len(Sep) /\ SepBehind(s, c.start + len)

(* If readline takes two bytes behind the line, and g bytes were shown, it *)
(* has seen that they are a pair, or it has seen only the first.           *)
PairSeen(s, c, g) ==
  LET line == c.length - c.pos
  IN c.method = "readline" /\ c.n = line + 2 /\ line + 1 # g =>
       /\ c.start + c.length + 2 <= Len(s)
       /\ {s[c.start + c.length + 1], s[c.start + c.length + 2]}
            = {"CR", "LF"}

(* The next take is of what the peek has shown, or of one byte more, which *)
(* the search has found in the buffer behind it; and the call peeks again  *)
(* only behind a full chunk.                                               *)
Foreseen(s, c, g) ==
  /\ c.n <= g + 1
  /\ c.n = g + 1 => c.method = "readline" /\ c.length + 1 = c.pos + g
  /\ ~c.done => c.n = g /\ g >= Chunk
  /\ PairSeen(s, c, g)
-----------------------------------------------------------------------------
LEMMA BeginSearched ==
  ASSUME NEW s \in Seq(Bytes), NEW b \in Seq(Cells), NEW c, CallTyped(c),
         c.start <= Len(s), c.pos = 0, c.matched = 0
  PROVE  Searched(s, c, b)
  <1>1. Len(b) \in Nat /\ Len(s) \in Nat /\ c.start \in Nat /\ c.max \in Nat
    BY LenProperties, CallIsTyped DEF CallTyped
  <1>2. SearchedTo(s, c.start, 0, 0)
    BY <1>1, SearchBegins
  <1> QED BY <1>1, <1>2 DEF Searched, Shows, NoEnd, Bounded

(* What the peek has made of the buffer.                                   *)
LEMMA PeekedShows ==
  ASSUME NEW s \in Seq(Bytes), NEW c, CallTyped(c), NEW b \in Seq(Cells),
         Searched(s, c, b), NEW got \in Seq(Bytes), Len(got) <= Chunk,
         Lies(got, c.start + c.pos, s),
         NEW peeked, peeked = Put(Grown(b, c.pos + Chunk), c.pos, got)
  PROVE  /\ peeked \in Seq(Cells) /\ Len(peeked) \in Nat
         /\ Shows(s, peeked, c.start, c.pos + Len(got))
         /\ Lies(got, c.pos, peeked)
  <1> DEFINE start == c.start
             pos == c.pos
             g == Len(got)
             before == Grown(b, pos + Chunk)
  <1>0. /\ start \in Nat /\ pos \in Nat /\ Chunk \in Nat
        /\ g \in Nat /\ Len(b) \in Nat /\ Len(s) \in Nat
    BY LenProperties, LineScanAssumption DEF CallTyped
  <1>1. Shows(s, b, start, pos)
    BY DEF Searched
  <1>2. start + pos + g <= Len(s) /\ g <= Chunk
        /\ \A k \in 1 .. g : got[k] = s[start + pos + k]
    BY DEF Lies
  <1>3. got \in Seq(Cells)
    BY DEF Cells
  <1> HIDE DEF start, pos, g
  <1>4. /\ before \in Seq(Cells) /\ Len(before) \in Nat
        /\ Len(before) >= pos + Chunk
        /\ \A k \in 1 .. Len(b) : before[k] = b[k]
    <2>1. pos + Chunk \in Nat
      BY <1>0
    <2> QED BY <2>1, GrownCells
  <1>5. peeked = Put(before, pos, got)
    BY DEF pos
  <1> HIDE DEF before
  <1>6. /\ peeked \in Seq(Cells) /\ Len(peeked) = Len(before)
        /\ \A k \in 1 .. Len(before) :
             peeked[k] = IF k > pos /\ k - pos \in 1 .. Len(got)
                         THEN got[k - pos] ELSE before[k]
    BY <1>0, <1>3, <1>4, <1>5, PutCells
  <1>7. \A k \in 1 .. pos : before[k] = s[start + k]
    BY <1>0, <1>1, <1>4 DEF Shows
  <1>8. Shows(s, peeked, start, pos + g)
    <2> DEFINE n == pos + g
    <2>1. n \in Int /\ start + n <= Len(s) /\ n <= Len(before)
      BY <1>0, <1>2, <1>4
    <2>2. \A k \in 1 .. n : k <= pos \/ k - pos > Len(got)
                              => before[k] = s[start + k]
      BY <1>0, <1>7 DEF g
    <2>3. \A k \in 1 .. Len(got) : got[k] = s[start + pos + k]
      BY <1>2 DEF g
    <2> HIDE DEF n
    <2>4. Shows(s, Put(before, pos, got), start, n)
      BY <1>0, <1>4, <2>1, <2>2, <2>3, PutShows
    <2> QED BY <1>5, <2>4 DEF n
  <1>9. Lies(got, pos, peeked)
    <2>1. pos + g <= Len(peeked)
      BY <1>0, <1>2, <1>4, <1>6
    <2>2. ASSUME NEW k \in 1 .. g PROVE got[k] = peeked[pos + k]
      <3> DEFINE x == pos + k
      <3>1. x \in 1 .. Len(before) /\ x > pos /\ x - pos = k
            /\ k \in 1 .. Len(got)
        BY <1>0, <1>4, <1>6, <2>1 DEF g
      <3> HIDE DEF x
      <3>2. peeked[x] = got[k]
        BY <1>6, <3>1
      <3> QED BY <3>2 DEF x
    <2> QED BY <2>1, <2>2 DEF Lies, g
  <1> QED BY <1>4, <1>6, <1>8, <1>9 DEF start, pos, g

(* A NUL where the call has stopped changes nothing before that.           *)
LEMMA StoppedShows ==
  ASSUME NEW s \in Seq(Bytes), NEW peeked \in Seq(Cells),
         NEW o, CallTyped(o),
         NEW m \in Nat, Shows(s, peeked, o.start, m), o.length <= m
  PROVE  /\ Stopped(o, peeked) \in Seq(Cells)
         /\ Shows(s, Stopped(o, peeked), o.start, o.length)
  <1> DEFINE l == o.length
             start == o.start
             at == o.pos + o.n
  <1>0. /\ l \in Nat /\ start \in Nat /\ at \in Nat /\ o.done \in BOOLEAN
        /\ Len(peeked) \in Nat
    BY LenProperties DEF CallTyped
  <1>1. Shows(s, peeked, start, l)
    <2>1. l <= m /\ Shows(s, peeked, start, m)
      OBVIOUS
    <2> HIDE DEF l, start
    <2> DEFINE t == Len(s)
    <2>2. /\ m <= Len(peeked) /\ start + m <= t
          /\ \A k \in 1 .. m : peeked[k] = s[start + k]
      BY <2>1 DEF Shows
    <2>3. l <= Len(peeked) /\ \A k \in 1 .. l : k \in 1 .. m
      BY <1>0, <2>1, <2>2
    <2>4. start + l <= t
      BY <1>0, <2>1, <2>2, LenProperties
    <2> QED BY <2>2, <2>3, <2>4 DEF Shows
  <1> HIDE DEF l, start, at
  <1>2. CASE ~o.done
    BY <1>1, <1>2 DEF l, start, Stopped
  <1>3. CASE o.done /\ o.method = "read_packet" /\ l < at
    <2>1. at - 1 \in Nat /\ l <= at - 1 /\ l \in Int
      BY <1>0, <1>3
    <2>2. Stopped(o, peeked) = Terminate(peeked, at - 1)
      <3>1. o.done /\ o.method = "read_packet" /\ o.length < o.pos + o.n
        BY <1>3 DEF l, at
      <3>2. Stopped(o, peeked) = Terminate(peeked, o.pos + o.n - 1)
        BY <3>1 DEF Stopped
      <3>3. o.pos + o.n - 1 = at - 1
        BY DEF at, CallTyped
      <3> QED BY <3>2, <3>3, Zenon
    <2> DEFINE p == at - 1
    <2> HIDE DEF p
    <2>3. Terminate(peeked, p) \in Seq(Cells)
          /\ Shows(s, Terminate(peeked, p), start, l)
      BY <1>0, <1>1, <2>1, TerminateCells, TerminateShows DEF p
    <2> QED BY <2>2, <2>3 DEF l, start, p
  <1>4. CASE o.done /\ ~ (o.method = "read_packet" /\ l < at)
    <2>1. Stopped(o, peeked) = Terminate(peeked, l)
      BY <1>4 DEF Stopped, l, at
    <2>2. l <= l /\ l \in Int
      BY <1>0
    <2>3. Terminate(peeked, l) \in Seq(Cells)
          /\ Shows(s, Terminate(peeked, l), start, l)
      BY <1>0, <1>1, <2>2, TerminateCells, TerminateShows
    <2> QED BY <2>1, <2>3 DEF l, start
  <1> QED BY <1>2, <1>3, <1>4

(* What the search decides about the bytes shown and those before them.    *)
LEMMA PeekDecides ==
  ASSUME NEW s \in Seq(Bytes), NEW c, CallTyped(c), NEW b \in Seq(Cells),
         Searched(s, c, b), NEW got \in Seq(Bytes), Len(got) <= Chunk,
         Lies(got, c.start + c.pos, s),
         NEW peeked, peeked = Put(Grown(b, c.pos + Chunk), c.pos, got),
         NEW o \in Outcomes(c, got, peeked)
  PROVE  /\ CallTyped(o)
         /\ o.method = c.method /\ o.start = c.start /\ o.pos = c.pos
         /\ Stopped(o, peeked) \in Seq(Cells)
         /\ Decided(s, o, Stopped(o, peeked))
         /\ Foreseen(s, o, Len(got))
  <1> DEFINE start == c.start
             pos == c.pos
             g == Len(got)
  <1>0. /\ IsCall(c) /\ c.method \in {"readline", "read_packet"}
        /\ start \in Nat /\ pos \in Nat /\ c.matched \in Nat /\ c.max \in Nat
        /\ g \in Nat /\ Len(s) \in Nat
    BY LenProperties, CallIsTyped DEF CallTyped
  <1>1. /\ peeked \in Seq(Cells) /\ Len(peeked) \in Nat
        /\ Shows(s, peeked, start, pos + g)
        /\ Lies(got, pos, peeked)
    BY PeekedShows
  <1>2. /\ Sensible(c, got, o)
        /\ c.method = "readline" => LineChosen(c, got, o)
        /\ c.method = "read_packet" => PacketChosen(s, c, got, o)
    <2>1. CASE c.method = "readline"
      <3>1. o \in LineOutcomes(c, got, peeked)
        BY <2>1 DEF Outcomes
      <3>2. Sensible(c, got, o) /\ LineChosen(c, got, o)
        BY <1>0, <1>1, <3>1, LineSensible
      <3> QED BY <2>1, <3>2
    <2>2. CASE c.method = "read_packet"
      <3>1. o = PacketOutcome(c, got)
        BY <2>2 DEF Outcomes
      <3>2. Bounded(c) /\ SearchedTo(s, c.start, c.pos, c.matched)
        BY <2>2 DEF Searched
      <3>3. Sensible(c, got, o) /\ PacketChosen(s, c, got, o)
        BY <1>0, <2>2, <3>1, <3>2, PacketSensible
      <3> QED BY <2>2, <3>3
    <2> QED BY <1>0, <2>1, <2>2
  <1>3. /\ IsCall(o)
        /\ o.method = c.method /\ o.max = c.max /\ o.start = start
        /\ o.pos = pos
        /\ o.matched \in Nat /\ o.n \in Nat /\ o.done \in BOOLEAN
        /\ o.length \in Int /\ o.length <= pos + g
        /\ ~o.done => o.length = pos + o.n /\ o.n = g /\ g >= Chunk
    BY <1>2 DEF Sensible
  <1>4. \A k \in 1 .. g : k \in Nat /\ got[k] = s[start + pos + k]
    BY DEF Lies
  <1>5. start + pos + g <= Len(s)
    BY DEF Lies
  <1> HIDE DEF start, pos, g
  <1>6. CASE c.method = "readline"
    <2> DEFINE line == o.length - pos
    <2>0. o.length = pos + line
      BY <1>0, <1>3
    <2>1. /\ line \in Nat /\ o.n \in line .. line + 2
          /\ \A k \in 1 .. line : got[k] \notin LineEnds
          /\ o.n > line => line + 1 <= g /\ got[line + 1] \in LineEnds
          /\ o.n = line + 2 => \/ line + 1 = g
                               \/ {got[line + 1], got[line + 2]}
                                    = {"CR", "LF"}
      BY <1>2, <1>6 DEF LineChosen, pos, g
    <2> HIDE DEF line
    <2>2. o.length = pos + line /\ o.length \in Nat /\ line <= g
      BY <1>0, <1>3, <2>0, <2>1
    <2>3. CallTyped(o)
      BY <1>0, <1>3, <2>2 DEF CallTyped
    <2>4. NoEnd(s, start, o.length)
      <3> SUFFICES ASSUME NEW k \in 1 .. pos + line
                   PROVE  s[start + k] \notin LineEnds
        BY <2>2 DEF NoEnd
      <3>1. CASE k <= pos
        BY <1>0, <1>6, <3>1 DEF Searched, NoEnd, start, pos
      <3>2. CASE k > pos
        <4> DEFINE i == k - pos
        <4>1. i \in 1 .. line /\ i \in 1 .. g /\ start + pos + i = start + k
          BY <1>0, <2>1, <2>2, <3>2
        <4> HIDE DEF i
        <4>2. got[i] = s[start + k]
          BY <1>4, <4>1
        <4> QED BY <2>1, <4>1, <4>2
      <3> QED BY <1>0, <2>1, <3>1, <3>2
    <2>5. ASSUME o.n > line
          PROVE  /\ start + o.length + 1 <= Len(s)
                 /\ s[start + o.length + 1] = got[line + 1]
                 /\ got[line + 1] \in LineEnds /\ line + 1 <= g
      <3> DEFINE i == line + 1
      <3>1. i \in 1 .. g /\ got[i] \in LineEnds
        BY <1>0, <2>1, <2>5
      <3>2. start + pos + i = start + o.length + 1
            /\ start + o.length + 1 <= Len(s)
        BY <1>0, <1>5, <2>1, <2>2, <3>1
      <3> HIDE DEF i
      <3>3. got[i] = s[start + o.length + 1]
        BY <1>4, <3>1, <3>2
      <3> QED BY <1>0, <3>1, <3>2, <3>3 DEF i
    <2>6. LineDecided(s, o)
      <3>1. /\ o.length - o.pos = line /\ o.pos <= o.length
            /\ o.length <= o.pos + o.n
        BY <1>0, <1>3, <2>1, <2>2
      <3>2. o.n > line => o.n <= line + 2
        BY <2>1
      <3> QED BY <1>3, <2>4, <2>5, <3>1, <3>2 DEF LineDecided
    <2>7. PairSeen(s, o, g)
      <3> SUFFICES ASSUME o.n = line + 2, line + 1 # g
                   PROVE  /\ start + o.length + 2 <= Len(s)
                          /\ {s[start + o.length + 1],
                              s[start + o.length + 2]} = {"CR", "LF"}
        BY <1>3 DEF PairSeen, line
      <3>1. o.n > line
        BY <2>1
      <3> DEFINE i == line + 2
      <3>2. i \in 1 .. g
        BY <1>0, <2>1, <2>5, <3>1
      <3>3. start + pos + i = start + o.length + 2
            /\ start + o.length + 2 <= Len(s)
        BY <1>0, <1>5, <2>1, <2>2, <3>2
      <3>4. {got[line + 1], got[i]} = {"CR", "LF"}
        BY <2>1
      <3> HIDE DEF i
      <3>5. got[i] = s[start + o.length + 2]
        BY <1>4, <3>2, <3>3
      <3>6. s[start + o.length + 1] = got[line + 1]
        BY <2>5, <3>1
      <3> QED BY <3>3, <3>4, <3>5, <3>6, Zenon
    <2>8. LengthBounded(o)
      BY <1>3, <1>6 DEF LengthBounded
    <2>9. o.n <= g + 1 /\ (o.n = g + 1 => o.length + 1 = pos + g)
      BY <1>0, <2>1, <2>2, <2>5
    <2>10. /\ Stopped(o, peeked) \in Seq(Cells)
           /\ Shows(s, Stopped(o, peeked), o.start, o.length)
      <3>1. pos + g \in Nat
        BY <1>0
      <3> QED BY <1>1, <1>3, <2>3, <3>1, StoppedShows
    <2>11. Decided(s, o, Stopped(o, peeked))
      BY <1>3, <1>6, <2>6, <2>8, <2>10 DEF Decided
    <2>12. Foreseen(s, o, g)
      BY <1>3, <1>6, <2>7, <2>9 DEF Foreseen
    <2> QED BY <1>3, <1>6, <2>3, <2>10, <2>11, <2>12 DEF start, pos, g
  <1>7. CASE c.method = "read_packet"
    <2>1. /\ LengthBounded(o) /\ o.n <= g
          /\ \/ /\ o.length = pos + o.n
                /\ \E v : SearchedTo(s, start, o.length, v)
                            /\ (o.done \/ v = o.matched)
             \/ /\ o.done /\ o.length + Len(Sep) = pos + o.n
                /\ FoundAt(s, start, pos + o.n)
      BY <1>2, <1>7 DEF PacketChosen, start, pos, g
    <2>2. /\ o.length \in Nat
          /\ \E v : SearchedTo(s, start, o.length, v)
                      /\ (o.done \/ v = o.matched)
          /\ \/ o.length = pos + o.n
             \/ /\ o.done /\ o.length + Len(Sep) = pos + o.n
                /\ SepBehind(s, start + o.length)
      <3>1. CASE /\ o.length = pos + o.n
                 /\ \E v : SearchedTo(s, start, o.length, v)
                             /\ (o.done \/ v = o.matched)
        BY <1>0, <1>3, <3>1
      <3>2. CASE /\ o.done /\ o.length + Len(Sep) = pos + o.n
                 /\ FoundAt(s, start, pos + o.n)
        <4> DEFINE n == pos + o.n
        <4>1. n \in Nat /\ FoundAt(s, start, n) /\ n <= pos + g
          <5>1. o.n <= g
            BY <2>1
          <5>2. o.n \in Nat /\ pos \in Nat /\ g \in Nat
            BY <1>0, <1>3
          <5>3. FoundAt(s, start, n)
            BY <3>2
          <5>4. n \in Nat /\ n <= pos + g
            BY <5>1, <5>2
          <5> QED BY <5>3, <5>4
        <4>2. n - Len(Sep) = o.length
          BY <1>3, <4>1, <3>2, SepLength
        <4> HIDE DEF n
        <4>3. /\ o.length \in Nat
              /\ \A j \in 1 .. Len(Sep) : s[start + o.length + j] = Sep[j]
              /\ \E v : SearchedTo(s, start, o.length, v)
          BY SMTT(30), <1>0, <4>1, <4>2, FoundIsThere
        <4>4. start + o.length + Len(Sep) <= Len(s)
          BY SMTT(30), <1>0, <1>5, <4>1, <4>2, <4>3, SepLength
        <4>5. SepBehind(s, start + o.length)
          BY <4>3, <4>4 DEF SepBehind, Lies
        <4> QED BY <3>2, <4>3, <4>5
      <3> QED BY <2>1, <3>1, <3>2
    <2>3. CallTyped(o)
      BY <1>0, <1>3, <2>2 DEF CallTyped
    <2>4. PacketDecided(s, o)
      <3>1. start + pos + o.n <= Len(s)
        BY <1>0, <1>3, <1>5, <2>1
      <3> QED BY <1>3, <2>2, <3>1 DEF PacketDecided
    <2>5. /\ Stopped(o, peeked) \in Seq(Cells)
          /\ Shows(s, Stopped(o, peeked), o.start, o.length)
      <3>1. pos + g \in Nat
        BY <1>0
      <3> QED BY <1>1, <1>3, <2>3, <3>1, StoppedShows
    <2>6. Decided(s, o, Stopped(o, peeked))
      BY <1>3, <1>7, <2>1, <2>4, <2>5 DEF Decided
    <2>7. PairSeen(s, o, g)
      BY <1>3, <1>7 DEF PairSeen
    <2>8. o.n <= g + 1 /\ o.n # g + 1
      BY <1>0, <1>3, <2>1
    <2>9. Foreseen(s, o, g)
      BY <1>3, <2>7, <2>8 DEF Foreseen
    <2> QED BY <1>3, <2>3, <2>5, <2>6, <2>9 DEF start, pos, g
  <1> QED BY <1>0, <1>6, <1>7

(* The take puts bytes of the stream where they lie already.               *)
LEMMA TakeDecided ==
  ASSUME NEW s \in Seq(Bytes), NEW c, CallTyped(c), NEW b \in Seq(Cells),
         Decided(s, c, b), NEW bytes \in Seq(Bytes),
         Lies(bytes, c.start + c.pos, s)
  PROVE  /\ Put(b, c.pos, bytes) \in Seq(Cells)
         /\ Decided(s, c, Put(b, c.pos, bytes))
  <1> DEFINE start == c.start
             pos == c.pos
             length == c.length
  <1>0. /\ start \in Nat /\ pos \in Nat /\ length \in Nat
        /\ bytes \in Seq(Cells)
    BY DEF CallTyped, Cells
  <1>1. /\ length <= Len(b) /\ start + length <= Len(s)
        /\ \A k \in 1 .. length : b[k] = s[start + k]
    BY DEF Decided, Shows
  <1>2. \A k \in 1 .. Len(bytes) : bytes[k] = s[start + pos + k]
    BY DEF Lies
  <1> HIDE DEF start, pos, length
  <1>3. Shows(s, Put(b, pos, bytes), start, length)
    <2>1. \A k \in 1 .. length : k <= pos \/ k - pos > Len(bytes)
                                   => b[k] = s[start + k]
      BY <1>1
    <2>2. length \in Int /\ start + length <= Len(s) /\ length <= Len(b)
      BY <1>0, <1>1
    <2> QED BY <1>0, <1>2, <2>1, <2>2, PutShows
  <1>4. Put(b, pos, bytes) \in Seq(Cells)
    BY <1>0, PutCells
  <1> QED BY <1>3, <1>4 DEF Decided, start, pos, length

(* The call peeks again.                                                   *)
LEMMA GoesOn ==
  ASSUME NEW s, NEW c, CallTyped(c), NEW b, Decided(s, c, b), ~c.done,
         NEW o, o = [c EXCEPT !.pos = c.length]
  PROVE  /\ CallTyped(o) /\ o.method = c.method /\ o.start = c.start
         /\ o.pos = c.pos + c.n
         /\ Searched(s, o, b)
  <1>1. /\ CallTyped(o) /\ o.method = c.method /\ o.start = c.start
        /\ o.pos = c.length /\ o.matched = c.matched /\ o.max = c.max
    BY DEF CallTyped, IsCall
  <1>2. c.length = c.pos + c.n
    BY DEF Decided
  <1>3. Bounded(o)
    BY <1>1 DEF Decided, LengthBounded, Bounded
  <1>4. o.method = "readline" => NoEnd(s, o.start, o.pos)
    BY <1>1 DEF Decided, LineDecided
  <1>5. o.method = "read_packet" => SearchedTo(s, o.start, o.pos, o.matched)
    BY <1>1 DEF Decided, PacketDecided
  <1> QED BY <1>1, <1>2, <1>3, <1>4, <1>5 DEF Decided, Searched

(* It returns instead.                                                     *)
LEMMA AnswersDecided ==
  ASSUME NEW s \in Seq(Bytes), NEW c, CallTyped(c), c.start <= Len(s),
         NEW b \in Seq(Cells), Decided(s, c, b),
         NEW bytes, bytes = SubSeq(b, 1, c.length)
  PROVE  /\ bytes \in Seq(Cells) /\ Len(bytes) = c.length
         /\ Answers(s, c, bytes)
  <1>1. c.length \in Nat /\ c.start \in Nat
    BY DEF CallTyped
  <1>2. /\ bytes \in Seq(Cells)
        /\ Len(bytes) = IF c.length > 0 THEN c.length ELSE 0
        /\ Shows(s, bytes, c.start, Len(bytes))
    BY <1>1, ReturnedShows DEF Decided
  <1>3. Len(bytes) = c.length
    BY <1>1, <1>2
  <1>4. c.method = "readline" => NoEnd(s, c.start, Len(bytes))
    BY <1>3 DEF Decided, LineDecided
  <1>5. c.method = "read_packet" =>
          /\ \E v : SearchedTo(s, c.start, Len(bytes), v)
          /\ c.max > 0 => Len(bytes) <= c.max
    BY <1>3 DEF Decided, PacketDecided, LengthBounded
  <1> QED BY <1>2, <1>3, <1>4, <1>5 DEF Answers

(* What has been taken by then.                                            *)
LEMMA TakenDecided ==
  ASSUME NEW s, NEW c, CallTyped(c), NEW b, Decided(s, c, b),
         NEW taken \in Nat, taken <= c.start + c.pos + c.n
  PROVE  /\ c.method = "readline" => LineTaken(s, c, c.length, taken)
         /\ c.method = "read_packet" /\ taken = c.start + c.pos + c.n =>
              PacketTaken(s, c, c.length, taken)
  <1> DEFINE start == c.start
             pos == c.pos
             n == c.n
             length == c.length
  <1>0. start \in Nat /\ pos \in Nat /\ n \in Nat /\ length \in Nat
    BY DEF CallTyped
  <1>1. ASSUME c.method = "readline" PROVE LineTaken(s, c, c.length, taken)
    <2>1. /\ pos <= length
          /\ n > length - pos => n <= length - pos + 2
                                 /\ s[start + length + 1] \in LineEnds
      BY <1>1 DEF Decided, LineDecided
    <2>2. taken <= start + pos + n
      OBVIOUS
    <2> SUFFICES ASSUME taken > start + length
                 PROVE  taken <= start + length + 2
                        /\ s[start + length + 1] \in LineEnds
      BY DEF LineTaken
    <2> HIDE DEF start, pos, n, length
    <2>3. n > length - pos
      BY <1>0, <2>1, <2>2
    <2>4. taken <= start + length + 2
      BY <1>0, <2>1, <2>2, <2>3
    <2> QED BY <2>1, <2>3, <2>4
  <1>2. ASSUME c.method = "read_packet", taken = start + pos + n
        PROVE  PacketTaken(s, c, c.length, taken)
    <2>1. \/ length = pos + n
          \/ length + Len(Sep) = pos + n /\ SepBehind(s, start + length)
      BY <1>2 DEF Decided, PacketDecided
    <2> HIDE DEF start, pos, n, length
    <2>2. \/ taken = start + length
          \/ taken = start + length + Len(Sep)
             /\ SepBehind(s, start + length)
      BY <1>0, <1>2, <2>1, SepLength
    <2> QED BY <2>2 DEF PacketTaken, start, length
  <1> QED BY <1>1, <1>2

(* It returns because a peek has shown nothing.                            *)
LEMMA AnswersSoFar ==
  ASSUME NEW s \in Seq(Bytes), NEW c, CallTyped(c), c.start <= Len(s),
         NEW b \in Seq(Cells), Searched(s, c, b),
         NEW bytes, bytes = SubSeq(b, 1, c.pos)
  PROVE  /\ bytes \in Seq(Cells) /\ Len(bytes) = c.pos
         /\ Answers(s, c, bytes)
  <1>1. c.pos \in Nat /\ c.start \in Nat
    BY DEF CallTyped
  <1>2. /\ bytes \in Seq(Cells)
        /\ Len(bytes) = IF c.pos > 0 THEN c.pos ELSE 0
        /\ Shows(s, bytes, c.start, Len(bytes))
    BY <1>1, ReturnedShows DEF Searched
  <1>3. Len(bytes) = c.pos
    BY <1>1, <1>2
  <1> QED BY <1>2, <1>3 DEF Answers, Searched, Bounded

(* The places at which a full chunk ends.                                  *)
LEMMA FullChunk ==
  ASSUME NEW p \in Nat, p % Chunk = 0
  PROVE  (p + Chunk) % Chunk = 0
  <1> DEFINE q == p \div Chunk
  <1>1. Chunk \in Nat \ {0}
    BY LineScanAssumption
  <1>2. q \in Nat /\ p = q * Chunk
    BY <1>1
  <1> HIDE DEF q
  <1>3. q + 1 \in Nat /\ (q + 1) * Chunk = p + Chunk
    BY <1>1, <1>2
  <1>4. ((q + 1) * Chunk) % Chunk = 0
    <2>1. \A m \in Nat : (m * Chunk) % Chunk = 0
      BY <1>1
    <2> QED BY <1>3, <2>1
  <1> QED BY <1>3, <1>4
-----------------------------------------------------------------------------
(* What arrives lies behind all that these speak of.                       *)
Extends(s, t) == Len(s) <= Len(t) /\ \A k \in 1 .. Len(s) : t[k] = s[k]

LEMMA ShowsStill ==
  ASSUME NEW s \in Seq(Bytes), NEW t \in Seq(Bytes), Extends(s, t),
         NEW b, NEW start \in Nat, NEW n \in Nat, Shows(s, b, start, n)
  PROVE  /\ Shows(t, b, start, n)
         /\ NoEnd(s, start, n) => NoEnd(t, start, n)
         /\ \A v : SearchedTo(s, start, n, v) => SearchedTo(t, start, n, v)
  <1>1. Len(s) \in Nat /\ Len(t) \in Nat /\ Len(s) <= Len(t)
    BY LenProperties DEF Extends
  <1>2. \A k \in 1 .. n : start + k \in 1 .. Len(s)
    BY <1>1 DEF Shows
  <1>3. \A k \in 1 .. n : t[start + k] = s[start + k]
    BY <1>2 DEF Extends
  <1>4. Shows(t, b, start, n)
    <2>1. start + n <= Len(t)
      BY <1>1 DEF Shows
    <2>2. n <= Len(b) /\ \A k \in 1 .. n : b[k] = s[start + k]
      BY DEF Shows
    <2> QED BY <1>3, <2>1, <2>2 DEF Shows
  <1>5. NoEnd(s, start, n) => NoEnd(t, start, n)
    BY <1>3 DEF NoEnd
  <1>6. \A v : SearchedTo(s, start, n, v) => SearchedTo(t, start, n, v)
    BY <1>3, SearchedStill
  <1> QED BY <1>4, <1>5, <1>6

LEMMA LiesStill ==
  ASSUME NEW s \in Seq(Bytes), NEW t \in Seq(Bytes), Extends(s, t),
         NEW bytes, Len(bytes) \in Nat, NEW p \in Nat, Lies(bytes, p, s)
  PROVE  Lies(bytes, p, t)
  <1>1. Len(s) \in Nat /\ Len(t) \in Nat /\ Len(s) <= Len(t)
    BY LenProperties DEF Extends
  <1>2. \A k \in 1 .. Len(bytes) : p + k \in 1 .. Len(s)
    BY <1>1 DEF Lies
  <1>3. \A k \in 1 .. Len(bytes) : t[p + k] = s[p + k]
    BY <1>2 DEF Extends
  <1>4. p + Len(bytes) <= Len(t)
    BY <1>1 DEF Lies
  <1>5. \A k \in 1 .. Len(bytes) : bytes[k] = s[p + k]
    BY DEF Lies
  <1> QED BY <1>3, <1>4, <1>5 DEF Lies

LEMMA SearchedKept ==
  ASSUME NEW s \in Seq(Bytes), NEW t \in Seq(Bytes), Extends(s, t),
         NEW c, CallTyped(c), NEW b, Searched(s, c, b)
  PROVE  Searched(t, c, b)
  <1>1. c.start \in Nat /\ c.pos \in Nat
    BY DEF CallTyped
  <1> QED BY <1>1, ShowsStill DEF Searched

LEMMA DecidedKept ==
  ASSUME NEW s \in Seq(Bytes), NEW t \in Seq(Bytes), Extends(s, t),
         NEW c, CallTyped(c), NEW b, Decided(s, c, b)
  PROVE  Decided(t, c, b)
  <1>0. /\ c.start \in Nat /\ c.pos \in Nat /\ c.n \in Nat
        /\ c.length \in Nat /\ Len(s) \in Nat /\ Len(t) \in Nat
        /\ Len(s) <= Len(t)
    BY LenProperties DEF CallTyped, Extends
  <1>1. Shows(s, b, c.start, c.length)
    BY DEF Decided
  <1>2. /\ Shows(t, b, c.start, c.length)
        /\ NoEnd(s, c.start, c.length) => NoEnd(t, c.start, c.length)
        /\ \A v : SearchedTo(s, c.start, c.length, v)
                    => SearchedTo(t, c.start, c.length, v)
    BY <1>0, <1>1, ShowsStill
  <1>3. ASSUME LineDecided(s, c) PROVE LineDecided(t, c)
    <2> DEFINE at == c.start + c.length + 1
    <2>1. at <= Len(s) => at <= Len(t) /\ t[at] = s[at]
      <3>1. at \in Nat /\ at > 0
        BY <1>0
      <3> HIDE DEF at
      <3> QED BY <1>0, <3>1 DEF Extends
    <2> QED BY <1>2, <1>3, <2>1 DEF LineDecided
  <1>4. ASSUME PacketDecided(s, c) PROVE PacketDecided(t, c)
    <2>1. c.start + c.pos + c.n <= Len(t)
      BY <1>0, <1>4 DEF PacketDecided
    <2>2. SepBehind(s, c.start + c.length) => SepBehind(t, c.start + c.length)
      <3> DEFINE p == c.start + c.length
      <3>1. p \in Nat
        BY <1>0
      <3> HIDE DEF p
      <3>2. SepBehind(s, p) => SepBehind(t, p)
        BY <3>1, SepLength, LiesStill DEF SepBehind
      <3> QED BY <3>2 DEF p
    <2>3. \E v : SearchedTo(t, c.start, c.length, v)
                   /\ (c.done \/ v = c.matched)
      BY <1>2, <1>4 DEF PacketDecided
    <2> QED BY <1>4, <2>1, <2>2, <2>3 DEF PacketDecided
  <1> QED BY <1>2, <1>3, <1>4 DEF Decided

LEMMA ForeseenKept ==
  ASSUME NEW s \in Seq(Bytes), NEW t \in Seq(Bytes), Extends(s, t),
         NEW c, CallTyped(c), NEW g, Foreseen(s, c, g)
  PROVE  Foreseen(t, c, g)
  <1> DEFINE end == c.start + c.length + 1
             next == c.start + c.length + 2
  <1>0. /\ Len(s) \in Nat /\ Len(t) \in Nat /\ end \in Nat /\ next \in Nat
        /\ next = end + 1 /\ end > 0
    BY LenProperties DEF CallTyped
  <1> HIDE DEF end, next
  <1>1. ASSUME next <= Len(s), {s[end], s[next]} = {"CR", "LF"}
        PROVE  next <= Len(t) /\ {t[end], t[next]} = {"CR", "LF"}
    <2>1. end \in 1 .. Len(s) /\ next \in 1 .. Len(s) /\ next <= Len(t)
      BY <1>0, <1>1 DEF Extends
    <2>2. t[end] = s[end] /\ t[next] = s[next]
      BY <2>1 DEF Extends
    <2> QED BY <1>1, <2>1, <2>2
  <1>2. PairSeen(s, c, g) => PairSeen(t, c, g)
    BY <1>1 DEF PairSeen, end, next
  <1> QED BY <1>2 DEF Foreseen

LEMMA AnswersKept ==
  ASSUME NEW s \in Seq(Bytes), NEW t \in Seq(Bytes), Extends(s, t),
         NEW c, CallTyped(c), NEW bytes, Len(bytes) \in Nat,
         Answers(s, c, bytes)
  PROVE  Answers(t, c, bytes)
  <1>1. c.start \in Nat /\ Shows(s, bytes, c.start, Len(bytes))
    BY DEF CallTyped, Answers
  <1>2. /\ Shows(t, bytes, c.start, Len(bytes))
        /\ NoEnd(s, c.start, Len(bytes)) => NoEnd(t, c.start, Len(bytes))
        /\ \A v : SearchedTo(s, c.start, Len(bytes), v)
                    => SearchedTo(t, c.start, Len(bytes), v)
    BY <1>1, ShowsStill
  <1> QED BY <1>2 DEF Answers

LEMMA TakenKept ==
  ASSUME NEW s \in Seq(Bytes), NEW t \in Seq(Bytes), Extends(s, t),
         NEW c, CallTyped(c), NEW len \in Nat, NEW taken \in Nat,
         taken <= Len(s)
  PROVE  /\ LineTaken(s, c, len, taken) => LineTaken(t, c, len, taken)
         /\ PacketTaken(s, c, len, taken) => PacketTaken(t, c, len, taken)
  <1> DEFINE p == c.start + len
  <1>0. p \in Nat /\ Len(s) \in Nat
    BY LenProperties DEF CallTyped
  <1> HIDE DEF p
  <1>1. taken > p => t[p + 1] = s[p + 1]
    BY <1>0 DEF Extends
  <1>2. SepBehind(s, p) => SepBehind(t, p)
    BY <1>0, SepLength, LiesStill DEF SepBehind
  <1> QED BY <1>1, <1>2 DEF LineTaken, PacketTaken, p
-----------------------------------------------------------------------------
(* What this says of the answer.                                           *)

LEMMA LiesIs ==
  ASSUME NEW s \in Seq(Bytes), NEW bytes \in Seq(Cells), NEW p \in Nat,
         Lies(bytes, p, s)
  PROVE  bytes = SubSeq(s, p + 1, p + Len(bytes))
  <1> DEFINE n == Len(bytes)
             piece == SubSeq(s, p + 1, p + n)
  <1>0. n \in Nat /\ Len(s) \in Nat
    BY LenProperties
  <1>1. p + n <= Len(s) /\ \A k \in 1 .. n : bytes[k] = s[p + k]
    BY DEF Lies
  <1> HIDE DEF n
  <1>2. \A k \in p + 1 .. p + n : s[k] \in Cells
    <2> TAKE k \in p + 1 .. p + n
    <2>1. k \in 1 .. Len(s)
      BY <1>0, <1>1
    <2> QED BY <2>1, ElementOfSeq DEF Cells
  <1>3. /\ piece \in Seq(Cells) /\ Len(piece) = n
        /\ \A k \in 1 .. n : piece[k] = s[p + k]
    <2> DEFINE a == p + 1
               b == p + n
    <2>0. a \in Int /\ b \in Int /\ \A k \in a .. b : s[k] \in Cells
      BY <1>0, <1>2
    <2> HIDE DEF a, b
    <2>1. /\ SubSeq(s, a, b) \in Seq(Cells)
          /\ Len(SubSeq(s, a, b)) = IF a <= b THEN b - a + 1 ELSE 0
          /\ \A k \in 1 .. b - a + 1 : SubSeq(s, a, b)[k] = s[a + k - 1]
      BY <2>0, SubSeqProperties
    <2>2. piece = SubSeq(s, a, b)
      BY DEF a, b
    <2> HIDE DEF piece
    <2>3. /\ b - a + 1 = n /\ (a <= b <=> n > 0)
          /\ \A k \in 1 .. n : a + k - 1 = p + k
      BY <1>0 DEF a, b
    <2> QED BY SMTT(30), <1>0, <2>1, <2>2, <2>3
  <1> HIDE DEF piece
  <1>4. bytes = piece
    BY <1>1, <1>3, SeqEqual DEF n
  <1> QED BY <1>4 DEF piece, n

LEMMA AnswerInOrder ==
  ASSUME NEW s \in Seq(Bytes), NEW c, CallTyped(c),
         NEW bytes \in Seq(Cells), Answers(s, c, bytes)
  PROVE  bytes = SubSeq(s, c.start + 1, c.start + Len(bytes))
  <1>1. Lies(bytes, c.start, s)
    BY DEF Answers, Shows, Lies
  <1>2. c.start \in Nat
    BY DEF CallTyped
  <1> QED BY <1>1, <1>2, LiesIs

LEMMA PacketOverread ==
  ASSUME NEW s \in Seq(Bytes), NEW c, CallTyped(c), NEW len \in Nat,
         NEW taken \in Nat, PacketTaken(s, c, len, taken)
  PROVE  SubSeq(s, c.start + len + 1, taken) \in {<<>>, Sep}
  <1> DEFINE p == c.start + len
  <1>1. p \in Nat
    BY DEF CallTyped
  <1>2. taken = p \/ (taken = p + Len(Sep) /\ Lies(Sep, p, s))
    BY DEF PacketTaken, SepBehind
  <1> HIDE DEF p
  <1>3. CASE taken = p
    <2>1. SubSeq(s, p + 1, taken) = <<>>
      BY <1>1, <1>3, SubSeqEmpty
    <2> QED BY <2>1 DEF p
  <1>4. CASE taken = p + Len(Sep) /\ Lies(Sep, p, s)
    <2>1. Sep \in Seq(Cells)
      <3>1. Sep \in Seq(Bytes \ {"NUL"}) /\ Bytes \ {"NUL"} \subseteq Cells
        BY LineScanAssumption DEF Cells
      <3> QED BY <3>1, LenProperties, ElementOfSeq
    <2>2. Sep = SubSeq(s, p + 1, taken)
      BY <1>1, <1>4, <2>1, LiesIs
    <2> QED BY <2>2 DEF p
  <1> QED BY <1>2, <1>3, <1>4

LEMMA AnswerStops ==
  ASSUME NEW s \in Seq(Bytes), NEW c, CallTyped(c), c.method = "read_packet",
         NEW bytes \in Seq(Cells), Answers(s, c, bytes),
         NEW k \in 1 .. Len(bytes) - Len(Sep) + 1,
         SubSeq(bytes, k, k + Len(Sep) - 1) = Sep
  PROVE  k > 1 /\ \E j \in 1 .. Len(Sep) - 1 : bytes[k - 1] = Sep[j]
  <1> DEFINE n == Len(bytes)
             start == c.start
             L == Len(Sep)
  <1>0. /\ n \in Nat /\ start \in Nat /\ L \in Nat /\ L > 0
        /\ Len(s) \in Nat
    BY LenProperties, SepLength DEF CallTyped
  <1>1. /\ start + n <= Len(s)
        /\ \A i \in 1 .. n : bytes[i] = s[start + i]
        /\ \E v : SearchedTo(s, start, n, v)
    BY DEF Answers, Shows
  <1>2. k \in Nat /\ k > 0 /\ k + L - 1 <= n /\ k \in Int /\ k + L - 1 \in Int
    BY <1>0
  <1>3. \A j \in 1 .. L : Sep[j] = bytes[k + j - 1]
    <2> DEFINE to == k + L - 1
               piece == SubSeq(bytes, k, to)
    <2>1. piece = Sep
      OBVIOUS
    <2>2. \A i \in k .. to : bytes[i] \in Cells
      <3> TAKE i \in k .. to
      <3>1. i \in 1 .. Len(bytes)
        BY <1>0, <1>2
      <3> QED BY <3>1, ElementOfSeq
    <2>3. to \in Int /\ to - k + 1 = L
      BY <1>0, <1>2
    <2> HIDE DEF to
    <2>4. \A j \in 1 .. to - k + 1 : piece[j] = bytes[k + j - 1]
      BY <1>2, <2>2, <2>3, SubSeqProperties
    <2> HIDE DEF piece
    <2> QED BY <2>1, <2>3, <2>4
  <1> HIDE DEF n, start, L
  <1>4. \A j \in 1 .. L : s[start + k - 1 + j] = Sep[j]
    <2> TAKE j \in 1 .. L
    <2> DEFINE i == k + j - 1
    <2>1. i \in 1 .. n /\ start + i = start + k - 1 + j
      BY <1>0, <1>2
    <2>2. Sep[j] = bytes[i]
      BY <1>3
    <2> HIDE DEF i
    <2>3. bytes[i] = s[start + i]
      BY <1>1, <2>1
    <2> QED BY <2>1, <2>2, <2>3
  <1>5. k \in 1 .. n - L + 1
    BY <1>0, <1>2
  <1>6. k > 1 /\ \E j \in 1 .. L - 1 : s[start + k - 1] = Sep[j]
    <2>1. PICK v : SearchedTo(s, start, n, v)
      BY <1>1
    <2>2. k \in 1 .. n - Len(Sep) + 1
      BY <1>5 DEF L
    <2>3. Lies(Sep, start + k - 1, s)
      <3>1. start + k - 1 + L <= Len(s)
        BY <1>0, <1>1, <1>2
      <3> QED BY <1>4, <3>1 DEF Lies, L
    <2>4. k > 1 /\ \E j \in 1 .. Len(Sep) - 1 : s[start + k - 1] = Sep[j]
      BY <1>0, <2>1, <2>2, <2>3, PassedOver
    <2> QED BY <2>4 DEF L
  <1>7. bytes[k - 1] = s[start + k - 1]
    <2> DEFINE i == k - 1
    <2>1. i \in 1 .. n /\ start + i = start + k - 1
      BY <1>0, <1>2, <1>5, <1>6
    <2> HIDE DEF i
    <2>2. bytes[i] = s[start + i]
      BY <1>1, <2>1
    <2> QED BY <2>1, <2>2 DEF i
  <1> QED BY <1>6, <1>7 DEF L
=============================================================================
