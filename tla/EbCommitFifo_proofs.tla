------------------------ MODULE EbCommitFifo_proofs ------------------------
(***************************************************************************)
(* Proofs about EbCommitFifo: the indices never cross, what the reader     *)
(* sees is the entry it is entitled to, and the FIFO keeps the promise of  *)
(* CommitQueue, for memories of every size.  The second part is about      *)
(* EbMasterCore: a receiver of its packets reads what was asked for.       *)
(***************************************************************************)
EXTENDS EbCommitFifo, EbMasterCore, SequenceTheorems, TLAPS

----------------------------------------------------------------------------
\* Arithmetic around the turn

LEMMA IndexRange ==
  ASSUME NEW i \in Index
  PROVE  Inc(i) \in Index /\ Turned(i) \in Index /\ Cell(i) \in Cells
BY FifoAssumption DEF Index, Cells, Inc, Turned, Cell

LEMMA AheadRange ==
  ASSUME NEW i \in Index, NEW j \in Index
  PROVE  Ahead(i, j) \in 0 .. 2 * Size - 1 /\ Ahead(i, j) \in Nat
BY FifoAssumption DEF Index, Ahead

LEMMA AheadZero ==
  ASSUME NEW i \in Index, NEW j \in Index
  PROVE  Ahead(i, j) = 0 <=> i = j
BY FifoAssumption DEF Index, Ahead

LEMMA TurnedIsFull ==
  ASSUME NEW i \in Index, NEW j \in Index
  PROVE  Turned(i) = j <=> Ahead(i, j) = Size
BY FifoAssumption DEF Index, Ahead, Turned

LEMMA ReadGoesOn ==
  ASSUME NEW i \in Index, NEW j \in Index, Ahead(i, j) # 0
  PROVE  Ahead(i, Inc(j)) = Ahead(i, j) - 1
BY FifoAssumption DEF Index, Ahead, Inc

LEMMA WriteGoesOn ==
  ASSUME NEW i \in Index, NEW j \in Index, Ahead(i, j) < 2 * Size - 1
  PROVE  Ahead(Inc(i), j) = Ahead(i, j) + 1
BY FifoAssumption DEF Index, Ahead, Inc

LEMMA CellsDiffer ==
  ASSUME NEW i \in Index, NEW j \in Index, Ahead(i, j) # 0, Ahead(i, j) < Size
  PROVE  Cell(i) # Cell(j)
BY FifoAssumption DEF Index, Ahead, Cell

\* Full may stay up for a period after an abort, but it is never missing.
IInv ==
  /\ TypeOK
  /\ IndicesInOrder
  /\ ~full => Ahead(w, r) < Size
  /\ ShowAhead

THEOREM Initially == Init => IInv
<1> SUFFICES ASSUME Init PROVE IInv
  OBVIOUS
<1>1. 0 \in Index
  BY FifoAssumption DEF Index
<1>2. TypeOK
  BY <1>1 DEF Init, TypeOK
<1>3. Ahead(e, r) = 0 /\ Ahead(w, r) = 0
  BY DEF Init, Ahead
<1> QED
  BY <1>2, <1>3, FifoAssumption DEF Init, IInv, IndicesInOrder, ShowAhead

\* One clock period keeps the order of the indices.
LEMMA ClockKeepsOrder ==
  ASSUME IInv,
         NEW push \in BOOLEAN, NEW word \in Word, NEW commit \in BOOLEAN,
         NEW abort \in BOOLEAN, NEW pop \in BOOLEAN,
         Clock(push, word, commit, abort, pop)
  PROVE  /\ NextWrite(push) \in Index /\ NextRead(pop) \in Index
         /\ Ahead(e, NextRead(pop)) = Ahead(e, r) - (IF pop THEN 1 ELSE 0)
         /\ Ahead(w, NextRead(pop)) = Ahead(w, r) - (IF pop THEN 1 ELSE 0)
         /\ Ahead(NextWrite(push), NextRead(pop))
              = Ahead(w, NextRead(pop)) + (IF push THEN 1 ELSE 0)
         /\ Ahead(e, NextRead(pop)) <= Ahead(w, NextRead(pop))
         /\ Ahead(NextWrite(push), NextRead(pop)) <= Size
         /\ push => Ahead(w, NextRead(pop)) < Size
<1> USE FifoAssumption
<1>1. r \in Index /\ e \in Index /\ w \in Index
  BY DEF IInv, TypeOK
<1>2. /\ Ahead(e, r) <= Ahead(w, r) /\ Ahead(w, r) <= Size
      /\ push => Ahead(w, r) < Size
      /\ pop => Ahead(e, r) # 0
  BY <1>1, AheadZero DEF IInv, IndicesInOrder, ShowAhead, Clock
<1>3. NextRead(pop) \in Index /\ NextWrite(push) \in Index
  BY <1>1, IndexRange DEF NextRead, NextWrite
<1>4. /\ Ahead(e, r) \in Nat /\ Ahead(w, r) \in Nat
      /\ Ahead(w, NextRead(pop)) \in Nat
  BY <1>1, <1>3, AheadRange
<1>5. /\ Ahead(e, NextRead(pop)) = Ahead(e, r) - (IF pop THEN 1 ELSE 0)
      /\ Ahead(w, NextRead(pop)) = Ahead(w, r) - (IF pop THEN 1 ELSE 0)
  <2>1. CASE pop
    <3>1. NextRead(pop) = Inc(r)
      BY <2>1 DEF NextRead
    <3>2. Ahead(e, r) # 0 /\ Ahead(w, r) # 0
      BY <2>1, <1>2, <1>4
    <3> QED
      BY <2>1, <3>1, <3>2, <1>1, ReadGoesOn
  <2>2. CASE ~pop
    BY <2>2, <1>4 DEF NextRead
  <2> QED
    BY <2>1, <2>2
<1>6. Ahead(NextWrite(push), NextRead(pop))
        = Ahead(w, NextRead(pop)) + (IF push THEN 1 ELSE 0)
  <2>1. CASE push
    <3>1. NextWrite(push) = Inc(w)
      BY <2>1 DEF NextWrite
    <3>2. Ahead(w, NextRead(pop)) < 2 * Size - 1
      BY <2>1, <1>2, <1>4, <1>5
    <3> QED
      BY <2>1, <3>1, <3>2, <1>1, <1>3, WriteGoesOn
  <2>2. CASE ~push
    BY <2>2, <1>4 DEF NextWrite
  <2> QED
    BY <2>1, <2>2
<1> QED
  BY <1>2, <1>3, <1>4, <1>5, <1>6

LEMMA StepKeepsOrder ==
  ASSUME IInv,
         NEW push \in BOOLEAN, NEW word \in Word, NEW commit \in BOOLEAN,
         NEW abort \in BOOLEAN, NEW pop \in BOOLEAN,
         Clock(push, word, commit, abort, pop)
  PROVE  IInv'
<1> USE FifoAssumption
<1> DEFINE nr == NextRead(pop)
           nw == NextWrite(push)
<1>1. r \in Index /\ e \in Index /\ w \in Index /\ ram \in [Cells -> Word]
  BY DEF IInv, TypeOK
<1>2. /\ nw \in Index /\ nr \in Index
      /\ Ahead(nw, nr) = Ahead(w, nr) + (IF push THEN 1 ELSE 0)
      /\ Ahead(e, nr) <= Ahead(w, nr)
      /\ Ahead(nw, nr) <= Size
      /\ push => Ahead(w, nr) < Size
  BY ClockKeepsOrder
<1>3. /\ Ahead(e, nr) \in Nat /\ Ahead(w, nr) \in Nat /\ Ahead(nw, nr) \in Nat
  BY <1>1, <1>2, AheadRange
<1>4. /\ r' = nr /\ e' = (IF commit THEN nw ELSE e)
      /\ w' = (IF abort THEN e ELSE nw) /\ ~(commit /\ abort)
      /\ full' = (Turned(nw) = nr) /\ empty' = (e = nr)
  BY DEF Clock, Rewind, SetFull, SetEmpty
<1>5. TypeOK'
  <2>1. ram' \in [Cells -> Word]
    BY <1>1 DEF Clock, Store
  <2>2. dat' \in Word
    <3>1. ram[Cell(nr)] \in Word
      BY <1>1, <1>2, IndexRange
    <3> QED
      BY <3>1 DEF Clock, Shown
  <2> QED
    BY <2>1, <2>2, <1>1, <1>2, <1>4 DEF TypeOK
<1>6. IndicesInOrder'
  <2>1. Ahead(e', r') <= Ahead(w', r') /\ Ahead(w', r') <= Size
    BY <1>2, <1>3, <1>4
  <2> QED
    BY <2>1 DEF IndicesInOrder, Ahead
<1>7. ~full' => Ahead(w', r') < Size
  <2>1. ~full' => Ahead(nw, nr) # Size
    BY <1>2, <1>4, TurnedIsFull
  <2> QED
    BY <2>1, <1>2, <1>3, <1>4
<1>8. ASSUME ~empty'
      PROVE  r' # e' /\ dat' = ram'[Cell(r')]
  <2>1. Ahead(e, nr) # 0
    <3>1. e # nr
      BY <1>8, <1>4, Zenon
    <3> QED
      BY <3>1, <1>1, <1>2, AheadZero
  <2>2. Ahead(nw, nr) # 0
    BY <2>1, <1>2, <1>3
  <2>3. r' # e'
    BY <2>1, <2>2, <1>1, <1>2, <1>4, AheadZero
  <2>4. push => Cell(w) # Cell(nr)
    <3>1. push => Ahead(w, nr) # 0 /\ Ahead(w, nr) < Size
      BY <2>1, <1>2, <1>3
    <3> QED
      BY <3>1, <1>1, <1>2, CellsDiffer
  <2>5. dat' = ram[Cell(nr)]
    BY <2>4 DEF Clock, Shown
  <2>6. ram'[Cell(nr)] = ram[Cell(nr)]
    <3>1. Cell(nr) \in Cells
      BY <1>2, IndexRange
    <3> QED
      BY <2>4, <3>1, <1>1 DEF Clock, Store
  <2> QED
    BY <2>3, <2>5, <2>6, <1>4
<1> QED
  BY <1>5, <1>6, <1>7, <1>8 DEF IInv, ShowAhead, Ahead, Cell

THEOREM Step == IInv /\ [Next]_vars => IInv'
<1> SUFFICES ASSUME IInv, [Next]_vars PROVE IInv'
  OBVIOUS
<1>1. ASSUME NEW push \in BOOLEAN, NEW word \in Word, NEW commit \in BOOLEAN,
             NEW abort \in BOOLEAN, NEW pop \in BOOLEAN,
             Clock(push, word, commit, abort, pop)
      PROVE  IInv'
  BY <1>1, StepKeepsOrder
<1>2. CASE UNCHANGED vars
  BY <1>2 DEF vars, IInv, TypeOK, IndicesInOrder, ShowAhead, Ahead, Cell
<1> QED
  BY <1>1, <1>2 DEF Next

THEOREM Invariance == Spec => []IInv
BY Initially, Step, PTL DEF Spec

\* The indices of the commit FIFO stay in order around the turn, for every size:
\* committed entries lie before drafted ones and both fit the memory, although
\* an abort moves the write index back and leaves w_full_o as it was.
THEOREM IndicesStayInOrder == Spec => []IndicesInOrder
<1>1. IInv => IndicesInOrder
  BY DEF IInv
<1> QED
  BY <1>1, Invariance, PTL

\* Whenever r_empty_o is 0 the output is the committed entry at the read index, in
\* spite of the register in the memory.
THEOREM OutputIsShownAhead == Spec => []ShowAhead
<1>1. IInv => ShowAhead
  BY DEF IInv
<1> QED
  BY <1>1, Invariance, PTL

----------------------------------------------------------------------------
\* The n entries of memory m from index i on.  Entries(i, j) is such a segment.

Memory == [Cells -> Word]
Segment(m, i, n) == [k \in 1..n |-> m[Cell(Forward(i, k - 1))]]

LEMMA ForwardRange ==
  ASSUME NEW i \in Index, NEW n \in 0 .. 2 * Size - 1
  PROVE  Forward(i, n) \in Index /\ Cell(Forward(i, n)) \in Cells
BY FifoAssumption DEF Index, Cells, Forward, Cell

LEMMA ForwardAhead ==
  ASSUME NEW i \in Index, NEW j \in Index
  PROVE  Forward(i, Ahead(j, i)) = j
BY FifoAssumption DEF Index, Forward, Ahead

LEMMA ForwardAgain ==
  ASSUME NEW i \in Index, NEW a \in 0 .. Size, NEW b \in 0 .. Size, a + b < 2 * Size
  PROVE  Forward(Forward(i, a), b) = Forward(i, a + b)
BY FifoAssumption DEF Index, Forward

LEMMA ForwardInc ==
  ASSUME NEW i \in Index, NEW n \in 0 .. Size - 1
  PROVE  Forward(Inc(i), n) = Forward(i, n + 1)
BY FifoAssumption DEF Index, Forward, Inc

LEMMA SegmentIsSeq ==
  ASSUME NEW m \in Memory, NEW i \in Index, NEW n \in 0 .. Size
  PROVE  /\ Segment(m, i, n) \in Seq(Word)
         /\ Len(Segment(m, i, n)) = n
         /\ \A k \in 1..n : Segment(m, i, n)[k] = m[Cell(Forward(i, k - 1))]
<1>1. \A k \in 1..n : m[Cell(Forward(i, k - 1))] \in Word
  <2> SUFFICES ASSUME NEW k \in 1..n PROVE m[Cell(Forward(i, k - 1))] \in Word
    OBVIOUS
  <2>1. k - 1 \in 0 .. 2 * Size - 1
    BY FifoAssumption
  <2> QED
    BY <2>1, ForwardRange DEF Memory
<1>2. n \in Nat
  BY FifoAssumption
<1>3. Segment(m, i, n) \in [1..n -> Word]
  BY <1>1 DEF Segment
<1>4. Segment(m, i, n) \in Seq(Word)
  BY <1>2, <1>3, SeqDef
<1>5. Len(Segment(m, i, n)) = n
  BY <1>2, <1>3, <1>4, LenProperties
<1> QED
  BY <1>4, <1>5 DEF Segment

LEMMA SegmentTail ==
  ASSUME NEW m \in Memory, NEW i \in Index, NEW n \in 1 .. Size
  PROVE  /\ Segment(m, i, n) # <<>>
         /\ Tail(Segment(m, i, n)) = Segment(m, Inc(i), n - 1)
<1> USE FifoAssumption
<1> DEFINE s == Segment(m, i, n)
           t == Segment(m, Inc(i), n - 1)
<1>1. /\ s \in Seq(Word) /\ Len(s) = n
      /\ \A k \in 1..n : s[k] = m[Cell(Forward(i, k - 1))]
  BY SegmentIsSeq
<1>2. /\ t \in Seq(Word) /\ Len(t) = n - 1
      /\ \A k \in 1..n-1 : t[k] = m[Cell(Forward(Inc(i), k - 1))]
  <2>1. Inc(i) \in Index /\ n - 1 \in 0 .. Size
    BY IndexRange
  <2> QED
    BY <2>1, SegmentIsSeq
<1>3. s # <<>>
  BY <1>1, EmptySeq
<1>4. /\ Tail(s) \in Seq(Word) /\ Len(Tail(s)) = n - 1
      /\ \A k \in 1..n-1 : Tail(s)[k] = s[k + 1]
  BY <1>1, <1>3, HeadTailProperties
<1>5. \A k \in 1..n-1 : Tail(s)[k] = t[k]
  <2> SUFFICES ASSUME NEW k \in 1..n-1 PROVE Tail(s)[k] = t[k]
    OBVIOUS
  <2>1. Forward(Inc(i), k - 1) = Forward(i, k)
    BY ForwardInc
  <2>2. k + 1 \in 1..n /\ (k + 1) - 1 = k
    OBVIOUS
  <2> QED
    BY <2>1, <2>2, <1>1, <1>2, <1>4, SMTT(30)
<1> HIDE DEF s, t
<1>6. Tail(s) = t
  BY <1>2, <1>4, <1>5, SeqEqual
<1> QED
  BY <1>3, <1>6 DEF s, t

LEMMA SegmentsJoin ==
  ASSUME NEW m \in Memory, NEW i \in Index, NEW a \in 0 .. Size, NEW b \in 0 .. Size,
         a + b <= Size
  PROVE  Segment(m, i, a) \o Segment(m, Forward(i, a), b) = Segment(m, i, a + b)
<1> USE FifoAssumption
<1> DEFINE s == Segment(m, i, a)
           t == Segment(m, Forward(i, a), b)
           u == Segment(m, i, a + b)
<1>1. /\ s \in Seq(Word) /\ Len(s) = a
      /\ \A k \in 1..a : s[k] = m[Cell(Forward(i, k - 1))]
  BY SegmentIsSeq
<1>2. /\ t \in Seq(Word) /\ Len(t) = b
      /\ \A k \in 1..b : t[k] = m[Cell(Forward(Forward(i, a), k - 1))]
  <2>1. Forward(i, a) \in Index
    BY ForwardRange
  <2> QED
    BY <2>1, SegmentIsSeq
<1>3. /\ u \in Seq(Word) /\ Len(u) = a + b
      /\ \A k \in 1..a+b : u[k] = m[Cell(Forward(i, k - 1))]
  BY a + b \in 0 .. Size, SegmentIsSeq
<1> HIDE DEF s, t, u
<1>4. /\ s \o t \in Seq(Word) /\ Len(s \o t) = a + b
      /\ \A k \in 1..a+b : (s \o t)[k] = IF k <= a THEN s[k] ELSE t[k - a]
  BY <1>1, <1>2, ConcatProperties, ZenonT(40)
<1>5. \A k \in 1..a+b : (s \o t)[k] = u[k]
  <2> SUFFICES ASSUME NEW k \in 1..a+b PROVE (s \o t)[k] = u[k]
    OBVIOUS
  <2>0. k \in Int /\ a \in Int
    OBVIOUS
  <2>1. ASSUME k <= a PROVE (s \o t)[k] = u[k]
    <3>1. k \in 1..a
      BY <2>1, <2>0
    <3>2. (s \o t)[k] = s[k]
      BY <2>1, <1>4
    <3> QED
      BY <3>1, <3>2, <1>1, <1>3
  <2>2. ASSUME k > a PROVE (s \o t)[k] = u[k]
    <3>1. k - a \in 1..b
      BY <2>2
    <3>2. Forward(Forward(i, a), (k - a) - 1) = Forward(i, k - 1)
      <4>1. (k - a) - 1 \in 0 .. Size /\ a + ((k - a) - 1) = k - 1 /\ k - 1 < 2 * Size
        BY <2>2
      <4> QED
        BY <4>1, ForwardAgain
    <3>3. (s \o t)[k] = t[k - a]
      <4>1. ~(k <= a)
        BY <2>2, <2>0
      <4> QED
        BY <4>1, <1>4
    <3> QED
      BY <3>1, <3>2, <3>3, <1>2, <1>3
  <2>3. k <= a \/ k > a
    BY <2>0
  <2> QED
    BY <2>1, <2>2, <2>3, Zenon
<1>6. s \o t = u
  BY <1>3, <1>4, <1>5, SeqEqual
<1> QED
  BY <1>6 DEF s, t, u

\* A word written behind a segment leaves the segment alone ...
LEMMA SegmentKept ==
  ASSUME NEW m \in Memory, NEW i \in Index, NEW j \in Index, NEW v \in Word,
         Ahead(j, i) < Size, NEW n \in 0 .. Ahead(j, i)
  PROVE  Segment([m EXCEPT ![Cell(j)] = v], i, n) = Segment(m, i, n)
<1> USE FifoAssumption
<1> DEFINE m1 == [m EXCEPT ![Cell(j)] = v]
<1>1. Cell(j) \in Cells /\ Ahead(j, i) \in Nat
  BY IndexRange, AheadRange
<1>2. \A c \in Cells : c # Cell(j) => m1[c] = m[c]
  BY <1>1 DEF Memory
<1>3. \A k \in 1..n : m1[Cell(Forward(i, k - 1))] = m[Cell(Forward(i, k - 1))]
  <2> SUFFICES ASSUME NEW k \in 1..n
               PROVE  m1[Cell(Forward(i, k - 1))] = m[Cell(Forward(i, k - 1))]
    OBVIOUS
  <2>1. k - 1 \in 0 .. 2 * Size - 1 /\ k - 1 < Ahead(j, i)
    BY <1>1
  <2>2. Cell(Forward(i, k - 1)) # Cell(j)
    BY <2>1 DEF Index, Ahead, Forward, Cell
  <2> QED
    BY <2>1, <2>2, <1>2, ForwardRange
<1> QED
  BY <1>3 DEF Segment

\* ... and extends it.
LEMMA SegmentWritten ==
  ASSUME NEW m \in Memory, NEW i \in Index, NEW j \in Index, NEW v \in Word,
         Ahead(j, i) < Size
  PROVE  Segment([m EXCEPT ![Cell(j)] = v], i, Ahead(j, i) + 1)
           = Segment(m, i, Ahead(j, i)) \o <<v>>
<1> USE FifoAssumption
<1> DEFINE m1 == [m EXCEPT ![Cell(j)] = v]
           n  == Ahead(j, i)
<1>1. m1 \in Memory /\ Cell(j) \in Cells /\ n \in Nat
  BY IndexRange, AheadRange DEF Memory
<1>2. m1[Cell(j)] = v
  BY <1>1 DEF Memory
<1>3. Segment(m1, i, n) = Segment(m, i, n)
  BY <1>1, SegmentKept
<1> HIDE DEF m1
<1>4. Segment(m1, j, 1) = <<v>>
  <2>1. Forward(j, 0) = j
    BY DEF Forward, Index
  <2>2. /\ Segment(m1, j, 1) \in Seq(Word) /\ Len(Segment(m1, j, 1)) = 1
        /\ \A k \in 1..1 : Segment(m1, j, 1)[k] = m1[Cell(Forward(j, k - 1))]
    <3>1. 1 \in 0 .. Size
      OBVIOUS
    <3> QED
      BY <3>1, <1>1, SegmentIsSeq
  <2>3. Segment(m1, j, 1)[1] = v
    BY <2>1, <2>2, <1>2
  <2>4. <<v>> \in Seq(Word) /\ Len(<<v>>) = 1 /\ <<v>>[1] = v
    OBVIOUS
  <2>5. \A k \in 1 .. Len(Segment(m1, j, 1)) : Segment(m1, j, 1)[k] = <<v>>[k]
    BY <2>2, <2>3, <2>4
  <2> QED
    BY <2>2, <2>4, <2>5, SeqEqual
<1>5. Segment(m1, i, n + 1) = Segment(m1, i, n) \o Segment(m1, Forward(i, n), 1)
  <2>1. n \in 0 .. Size /\ 1 \in 0 .. Size /\ n + 1 <= Size
    BY <1>1
  <2> HIDE DEF n
  <2> QED
    BY <2>1, <1>1, SegmentsJoin
<1>6. Forward(i, n) = j
  BY ForwardAhead
<1> QED
  BY <1>3, <1>4, <1>5, <1>6 DEF m1

LEMMA SegmentEmpty ==
  ASSUME NEW m, NEW i
  PROVE  Segment(m, i, 0) = <<>>
BY DEF Segment

LEMMA AheadSplits ==
  ASSUME NEW i \in Index, NEW j \in Index, NEW k \in Index,
         Ahead(j, i) <= Ahead(k, i)
  PROVE  Ahead(k, j) = Ahead(k, i) - Ahead(j, i)
BY FifoAssumption DEF Index, Ahead

----------------------------------------------------------------------------
\* Every clock period is a step of the queue of drafts.

LEMMA ClockKeepsPromise ==
  ASSUME IInv,
         NEW push \in BOOLEAN, NEW word \in Word, NEW commit \in BOOLEAN,
         NEW abort \in BOOLEAN, NEW pop \in BOOLEAN,
         Clock(push, word, commit, abort, pop)
  PROVE  Promise!Step(IF push THEN <<word>> ELSE <<>>, commit, abort, pop)
<1> USE FifoAssumption
<1> DEFINE nr == NextRead(pop)
           nw == NextWrite(push)
           words == IF push THEN <<word>> ELSE <<>>
           P == Segment(ram, r, Ahead(e, r))
           D == Segment(ram, e, Ahead(w, e))
           rest == IF pop THEN Tail(P) ELSE P
           whole == D \o words
<1>1. r \in Index /\ e \in Index /\ w \in Index /\ ram \in Memory
  BY DEF IInv, TypeOK, Memory
<1>2. /\ nw \in Index /\ nr \in Index
      /\ Ahead(e, nr) = Ahead(e, r) - (IF pop THEN 1 ELSE 0)
      /\ Ahead(nw, nr) = Ahead(w, nr) + (IF push THEN 1 ELSE 0)
      /\ Ahead(e, nr) <= Ahead(w, nr)
      /\ Ahead(nw, nr) <= Size
      /\ push => Ahead(w, nr) < Size
  BY ClockKeepsOrder
<1>3. /\ Ahead(e, nr) \in Nat /\ Ahead(w, nr) \in Nat /\ Ahead(nw, nr) \in Nat
      /\ Ahead(e, r) \in Nat /\ Ahead(w, r) \in Nat
  BY <1>1, <1>2, AheadRange
<1>4. /\ pop => Ahead(e, nr) = Ahead(e, r) - 1
      /\ push => Ahead(nw, nr) = Ahead(w, nr) + 1 /\ Ahead(w, nr) < Size
      /\ Ahead(w, nr) <= Ahead(nw, nr)
  BY <1>2, <1>3
<1>5. Ahead(e, r) <= Size
  BY <1>1, <1>3 DEF IInv, IndicesInOrder
<1>6. /\ r' = nr /\ e' = (IF commit THEN nw ELSE e)
      /\ w' = (IF abort THEN e ELSE nw) /\ ~(commit /\ abort)
      /\ ram' = (IF push THEN [ram EXCEPT ![Cell(w)] = word] ELSE ram)
  BY DEF Clock, Rewind, Store
<1>7. Ahead(w, e) = Ahead(w, nr) - Ahead(e, nr)
  BY <1>1, <1>2, AheadSplits
<1>8. Ahead(nw, e) = Ahead(nw, nr) - Ahead(e, nr)
  <2>1. Ahead(e, nr) <= Ahead(nw, nr)
    BY <1>2, <1>3
  <2> QED
    BY <2>1, <1>1, <1>2, AheadSplits
<1>9. ram' \in Memory
  <2>1. Cell(w) \in Cells
    BY <1>1, IndexRange
  <2> QED
    BY <2>1, <1>1, <1>6 DEF Memory
<1>10. (pop => P # <<>>) /\ rest = Segment(ram, nr, Ahead(e, nr))
  <2>1. CASE pop
    <3>0. Ahead(e, nr) = Ahead(e, r) - 1
      BY <2>1, <1>4, Zenon
    <3>1. Ahead(e, r) \in 1 .. Size
      BY <3>0, <1>3, <1>5
    <3>2. nr = Inc(r) /\ Ahead(e, nr) = Ahead(e, r) - 1
      BY <2>1, <3>0, Zenon DEF NextRead
    <3>3. /\ Segment(ram, r, Ahead(e, r)) # <<>>
          /\ Tail(Segment(ram, r, Ahead(e, r))) = Segment(ram, Inc(r), Ahead(e, r) - 1)
      BY <3>1, <1>1, SegmentTail
    <3> QED
      BY <2>1, <3>2, <3>3
  <2>2. CASE ~pop
    BY <2>2 DEF NextRead
  <2> QED
    BY <2>1, <2>2
<1>11. Segment(ram', nr, Ahead(e, nr)) = Segment(ram, nr, Ahead(e, nr))
  <2>1. CASE push
    <3>1. Ahead(e, nr) \in 0 .. Ahead(w, nr)
      BY <1>2, <1>3
    <3>2. Ahead(w, nr) < Size /\ nr \in Index
      BY <2>1, <1>4, <1>2
    <3>3. ram' = [ram EXCEPT ![Cell(w)] = word]
      BY <2>1, <1>6
    <3> HIDE DEF nr
    <3>4. Segment([ram EXCEPT ![Cell(w)] = word], nr, Ahead(e, nr))
            = Segment(ram, nr, Ahead(e, nr))
      BY <3>1, <3>2, <1>1, SegmentKept
    <3> QED
      BY <3>3, <3>4
  <2>2. CASE ~push
    BY <2>2, <1>6
  <2> QED
    BY <2>1, <2>2
<1>12. whole = Segment(ram', e, Ahead(nw, e))
  <2>1. CASE push
    <3>0. Ahead(nw, nr) = Ahead(w, nr) + 1 /\ Ahead(w, nr) < Size
      BY <2>1, <1>4, Zenon
    <3>1. Ahead(w, e) < Size /\ Ahead(nw, e) = Ahead(w, e) + 1
      BY <3>0, <1>3, <1>7, <1>8
    <3>2. Segment([ram EXCEPT ![Cell(w)] = word], e, Ahead(w, e) + 1)
            = Segment(ram, e, Ahead(w, e)) \o <<word>>
      BY <3>1, <1>1, SegmentWritten
    <3> QED
      BY <2>1, <3>1, <3>2, <1>6
  <2>2. CASE ~push
    <3>1. Ahead(w, e) \in 0 .. Size
      BY <1>2, <1>3, <1>7
    <3>2. D \in Seq(Word)
      BY <3>1, <1>1, SegmentIsSeq
    <3>3. D \o <<>> = D
      <4> HIDE DEF D
      <4> QED
        BY <3>2, ConcatEmptySeq
    <3>4. nw = w /\ ram' = ram
      BY <2>2, <1>6 DEF NextWrite
    <3> QED
      BY <2>2, <3>3, <3>4
  <2> QED
    BY <2>1, <2>2
<1>13. rest \o whole = Segment(ram', nr, Ahead(nw, nr))
  <2>1. Forward(nr, Ahead(e, nr)) = e
    BY <1>1, <1>2, ForwardAhead
  <2>2. /\ Ahead(e, nr) \in 0 .. Size /\ Ahead(nw, e) \in 0 .. Size
        /\ Ahead(e, nr) + Ahead(nw, e) = Ahead(nw, nr)
    BY <1>2, <1>3, <1>8
  <2>3. Segment(ram', nr, Ahead(e, nr)) \o Segment(ram', Forward(nr, Ahead(e, nr)), Ahead(nw, e))
          = Segment(ram', nr, Ahead(e, nr) + Ahead(nw, e))
    BY <2>2, <1>2, <1>9, SegmentsJoin
  <2> QED
    BY <2>1, <2>2, <2>3, <1>10, <1>11, <1>12
<1>14. Entries(r, e) = P /\ Entries(e, w) = D
  BY DEF Entries, Segment
<1>15. /\ Entries(r, e)' = Segment(ram', r', Ahead(e', r'))
       /\ Entries(e, w)' = Segment(ram', e', Ahead(w', e'))
  BY DEF Entries, Segment, Ahead, Cell, Forward
<1>16. Entries(r, e)' = IF commit THEN rest \o whole ELSE rest
  <2>1. CASE commit
    <3>1. e' = nw /\ r' = nr
      BY <2>1, <1>6
    <3> QED
      BY <2>1, <3>1, <1>13, <1>15
  <2>2. CASE ~commit
    <3>1. e' = e /\ r' = nr
      BY <2>2, <1>6
    <3> QED
      BY <2>2, <3>1, <1>10, <1>11, <1>15
  <2> QED
    BY <2>1, <2>2
<1>17. Entries(e, w)' = IF commit \/ abort THEN <<>> ELSE whole
  <2>1. CASE commit \/ abort
    <3>1. e' = w' /\ e' \in Index
      BY <2>1, <1>1, <1>2, <1>6
    <3>2. Ahead(w', e') = 0
      BY <3>1, AheadZero
    <3> QED
      BY <2>1, <3>2, <1>15, SegmentEmpty
  <2>2. CASE ~commit /\ ~abort
    <3>1. e' = e /\ w' = nw
      BY <2>2, <1>6
    <3> QED
      BY <2>2, <3>1, <1>12, <1>15
  <2> QED
    BY <2>1, <2>2
<1> HIDE DEF P, D
<1> QED
  BY <1>10, <1>14, <1>16, <1>17 DEF Promise!Step

\* The commit FIFO of the Ethernet side implements the queue of published
\* drafts, for every memory size: pushes, commits, aborts and pops of one period
\* take effect together, and no entry is lost, repeated or shown early.
THEOREM FifoKeepsPromise == Spec => KeepsPromise
<1>1. Init => Promise!Init
  <2> SUFFICES ASSUME Init PROVE Promise!Init
    OBVIOUS
  <2>1. Ahead(e, r) = 0 /\ Ahead(w, e) = 0
    BY DEF Init, Ahead
  <2> QED
    BY <2>1 DEF Promise!Init, Entries
<1>2. IInv /\ [Next]_vars => [Promise!Next]_<<Entries(r, e), Entries(e, w)>>
  <2> SUFFICES ASSUME IInv, [Next]_vars
               PROVE  [Promise!Next]_<<Entries(r, e), Entries(e, w)>>
    OBVIOUS
  <2>1. ASSUME NEW push \in BOOLEAN, NEW word \in Word, NEW commit \in BOOLEAN,
               NEW abort \in BOOLEAN, NEW pop \in BOOLEAN,
               Clock(push, word, commit, abort, pop)
        PROVE  Promise!Next
    <3>1. Promise!Step(IF push THEN <<word>> ELSE <<>>, commit, abort, pop)
      BY <2>1, ClockKeepsPromise
    <3>2. (IF push THEN <<word>> ELSE <<>>) \in {<<>>} \cup {<<x>> : x \in Word}
      OBVIOUS
    <3>3. ~(commit /\ abort)
      BY <2>1 DEF Clock
    <3> QED
      BY <3>1, <3>2, <3>3 DEF Promise!Next
  <2>2. CASE UNCHANGED vars
    BY <2>2 DEF vars, Entries, Ahead, Cell, Forward
  <2> QED
    BY <2>1, <2>2 DEF Next
<1> QED
  BY <1>1, <1>2, Invariance, PTL DEF Spec, KeepsPromise, Promise!Spec

----------------------------------------------------------------------------
\* A queue from which at most its first entry goes and which gets at most one

Bit(p) == IF p THEN 1 ELSE 0

(* new is old without its first n entries and with add behind it.          *)
Shifts(old, new, n, add) ==
  /\ Len(new) = Len(old) - n + Len(add)
  /\ \A i \in 1..Len(old)-n : new[i] = old[i+n]
  /\ Len(add) = 1 => new[Len(old)-n+1] = add[1]

LEMMA Shifting ==
  ASSUME NEW S, NEW old \in Seq(S), NEW p \in BOOLEAN, p => old # <<>>,
         NEW add \in Seq(S), Len(add) <= 1,
         NEW new, new = (IF p THEN Tail(old) ELSE old) \o add
  PROVE  new \in Seq(S) /\ Shifts(old, new, Bit(p), add)
<1> DEFINE rest == IF p THEN Tail(old) ELSE old
<1>1. /\ rest \in Seq(S)
      /\ Len(rest) = Len(old) - Bit(p)
      /\ \A i \in 1..Len(rest) : rest[i] = old[i+Bit(p)]
  <2>1. CASE p
    BY <2>1 DEF Bit
  <2>2. CASE ~p
    BY <2>2 DEF Bit
  <2> QED
    BY <2>1, <2>2
<1> HIDE DEF rest
<1>2. new = rest \o add
  BY DEF rest
<1>3. new \in Seq(S) /\ Len(new) = Len(rest) + Len(add)
  BY <1>1, <1>2
<1>4. \A i \in 1..Len(rest) : new[i] = rest[i]
  BY <1>1, <1>2
<1>5. ASSUME Len(add) = 1 PROVE new[Len(rest)+1] = add[1]
  <2> DEFINE n == Len(rest) + 1
  <2>1. n \in 1..Len(rest)+Len(add) /\ n > Len(rest) /\ n - Len(rest) = 1
    BY <1>1, <1>5
  <2> HIDE DEF n
  <2>2. new[n] = add[n - Len(rest)]
    BY <1>1, <1>2, <2>1
  <2> QED
    BY <2>1, <2>2 DEF n
<1> QED
  BY <1>1, <1>3, <1>4, <1>5 DEF Shifts, Bit

LEMMA ZeroOrOne ==
  ASSUME NEW n \in {0, 1}
  PROVE  n \in Nat /\ n <= 1 /\ n >= 0
OBVIOUS

LEMMA JoinIs ==
  ASSUME NEW S, NEW s \in Seq(S), NEW t \in Seq(S)
  PROVE  /\ s \o t \in Seq(S) /\ Len(s \o t) = Len(s) + Len(t)
         /\ \A i \in 1..Len(s) : (s \o t)[i] = s[i]
OBVIOUS

LEMMA OneEntry ==
  ASSUME NEW S, NEW s \in S
  PROVE  /\ <<s>> \in Seq(S) /\ Len(<<s>>) = 1 /\ <<s>>[1] = s /\ <<s>> # <<>>
         /\ <<s>> \o <<>> = <<s>> /\ <<>> \o <<s>> = <<s>>
OBVIOUS

LEMMA WhenIs ==
  ASSUME NEW S, NEW s \in S, NEW p \in BOOLEAN
  PROVE  /\ When(p, s) \in Seq(S) /\ Len(When(p, s)) = Bit(p)
         /\ p => When(p, s) # <<>> /\ When(p, s)[1] = s
         /\ ~p => When(p, s) = <<>>
BY DEF When, Bit

(* A queue that has room for what is pushed loses nothing.                 *)
LEMMA Queueing ==
  ASSUME NEW S, NEW old \in Seq(S), NEW p \in BOOLEAN, p => old # <<>>,
         NEW add \in Seq(S), Len(add) <= 1, NEW depth \in Nat,
         add # <<>> => Len(old) < depth,
         NEW new, new = Queue(old, add, p, depth)
  PROVE  new \in Seq(S) /\ Shifts(old, new, Bit(p), add)
<1>1. new = (IF p THEN Tail(old) ELSE old) \o add
  <2>1. CASE Len(old) < depth
    BY <2>1 DEF Queue
  <2>2. CASE add = <<>>
    BY <2>2 DEF Queue
  <2> QED
    BY <2>1, <2>2
<1> QED
  BY <1>1, Shifting

LEMMA QueueTypes ==
  ASSUME NEW S, NEW old \in Seq(S), NEW p \in BOOLEAN, p => old # <<>>,
         NEW add \in Seq(S), Len(add) <= 1, NEW depth \in Nat, Len(old) <= depth,
         NEW new, new = Queue(old, add, p, depth)
  PROVE  new \in Seq(S) /\ Len(new) <= depth
<1> DEFINE more == IF Len(old) < depth THEN add ELSE <<>>
<1>1. /\ more \in Seq(S) /\ Len(more) <= 1
      /\ Len(old) = depth => Len(more) = 0
      /\ more # <<>> => Len(old) < depth
  OBVIOUS
<1>2. new = (IF p THEN Tail(old) ELSE old) \o more
  BY DEF Queue
<1> HIDE DEF more
<1>3. new \in Seq(S) /\ Shifts(old, new, Bit(p), more)
  BY <1>1, <1>2, Shifting
<1> QED
  BY <1>1, <1>3 DEF Shifts, Bit

----------------------------------------------------------------------------
\* Where the operations are between the two ways

Served == Careful /\ Patient /\ Consecutive /\ Uniform /\ OpDepth <= CountMod

(* What is not told yet.                                                   *)
Left == IF told # <<>> THEN Tail(owed) ELSE owed

(* The records that are complete, and the one being collected, with what   *)
(* is counted: the end of its cycle is in it when it is popped.            *)
Completed == recFifo \o When(gen.state = "WACK", recOut)
Collecting == gen.state \in {"WRITE", "READ", "WAIT", "OUTP"}
Current == [flags |-> [header EXCEPT !.drop = (Collecting /\ header.drop /\ ~gen.pop)],
            wr |-> counts.wr, rd |-> counts.rd]
OpsOf(rec)  == rec.wr + rec.rd
SizeOf(rec) == OpsOf(rec) + (IF rec.flags.drop THEN 1 ELSE 0)

(* Of the first record, the operations that are out.                       *)
Done == CASE framer.state = "WRITE" -> Rec.wr - 2 - framer.ops
          [] framer.state = "RA"    -> Rec.wr
          [] framer.state = "READ"  -> Rec.wr + Rec.rd - 2 - framer.ops
          [] framer.state = "LOAD"  -> Rec.wr + Rec.rd
          [] OTHER                  -> 0

(* A record says of the entries of a list behind `at' what they are: first *)
(* its writes, then its reads, then the end of the cycle.                  *)
SaysWrites(list, rec, at) ==
  \A k \in 1..Len(list) : at < k /\ k <= at + rec.wr =>
    /\ list[k].cyc /\ list[k].op.we
    /\ list[k].op.adr = rec.flags.adrWr /\ list[k].op.sel = rec.flags.sel
Follows(rec, new, old) ==
  IF rec.flags.rdFifo THEN new = old ELSE Increments(new, old)
SaysReads(list, rec, at) ==
  \A k \in 1..Len(list) : at + rec.wr < k /\ k <= at + rec.wr + rec.rd =>
    /\ list[k].cyc /\ ~list[k].op.we /\ list[k].op.sel = rec.flags.sel
    /\ k = at + rec.wr + 1 => list[k].op.dat = rec.flags.adrRd
    /\ k > at + rec.wr + 1 /\ k > 1 => Follows(rec, list[k].op.dat, list[k-1].op.dat)
SaysEnd(list, rec, at) ==
  rec.flags.drop =>
    \A k \in 1..Len(list) : k = at + rec.wr + rec.rd + 1 => list[k] = End
Says(list, rec, at) ==
  /\ rec.wr # 0 => rec.flags.wrFifo
  /\ SaysWrites(list, rec, at) /\ SaysReads(list, rec, at) /\ SaysEnd(list, rec, at)

(* The complete records say what comes next, one behind the other, as far  *)
(* as entry `at'; cut is where each begins.                                *)
Chained(cut, at) ==
  /\ cut \in [1..Len(Completed)+1 -> Int]
  /\ cut[1] = 0 - Done /\ cut[Len(Completed)+1] = at
  /\ \A i \in 1..Len(Completed) :
       /\ OpsOf(Completed[i]) > 0
       /\ cut[i+1] = cut[i] + SizeOf(Completed[i])
       /\ 0 <= cut[i+1] /\ cut[i+1] <= at
       /\ Says(Left, Completed[i], cut[i])

(* Behind them is what the record being collected has, and behind that     *)
(* what the generator has not seen.                                        *)
Held(at) ==
  /\ at \in Nat
  /\ Len(Left) = at + SizeOf(Current) + Len(genFifo)
  /\ \A i \in 1..Len(genFifo) : Left[at + SizeOf(Current) + i] = genFifo[i]
  /\ Says(Left, Current, at)

----------------------------------------------------------------------------
\* What the generator knows in each of its states

Front == genFifo[1]
Taken(at) == Left[at + OpsOf(Current)]
Is(st) == gen.state = st \/ (gen.state = "WAIT" /\ gen.next = st)

GenOrderly ==
  /\ gen.state \in {"START", "WACK"} => counts.wr = 0 /\ counts.rd = 0
  /\ gen.state # "WAIT" => ~gen.pop
  /\ gen.state = "WAIT" => gen.next \in {"WRITE", "READ", "OUTP"}
  /\ gen.state = "START" /\ genFifo # <<>> => Front.cyc
  /\ gen.pop => genFifo # <<>> /\ (Front.cyc <=> gen.next # "OUTP")

GenWrites ==
  Is("WRITE") =>
    /\ counts.rd = 0 /\ ~header.rdFifo /\ ~header.drop
    /\ IF counts.wr = 0 /\ ~gen.pop
       THEN /\ genFifo # <<>> /\ Front.cyc /\ Front.op.we
            /\ Front.op.adr = header.adrWr /\ Front.op.sel = header.sel
            /\ gen.mode = "UNKNOWN" /\ ~header.wrFifo
            /\ gen.state = "WRITE" => prev.adr = Front.op.adr
       ELSE /\ gen.mode = "WR_FIFO" /\ header.wrFifo
            /\ gen.state = "WRITE" => prev.adr = header.adrWr
            /\ gen.state = "WAIT" =>
                 gen.pop /\ Front.op.we /\ Front.op.adr = header.adrWr /\ Front.op.sel = header.sel

GenReads(at) ==
  Is("READ") =>
    /\ ~header.drop
    /\ counts.rd = 0 =>
         /\ genFifo # <<>> /\ Front.cyc /\ ~Front.op.we
         /\ Front.op.dat = header.adrRd /\ Front.op.sel = header.sel
    /\ counts.rd # 0 =>
         /\ gen.state = "WAIT" => gen.pop
         /\ gen.pop => Follows(Current, Front.op.dat, Taken(at).op.dat)
    /\ gen.pop => ~Front.op.we /\ Front.op.sel = header.sel
    /\ counts.wr # 0 => gen.mode = "WR_FIFO" /\ ~header.rdFifo
    /\ counts.wr = 0 /\ counts.rd = 0 /\ ~gen.pop =>
         gen.mode = "UNKNOWN" /\ (gen.state = "READ" => prev.dat = Front.op.dat)
    /\ counts.wr = 0 /\ (counts.rd # 0 \/ gen.pop) =>
         gen.mode = "RD_FIFO" /\ header.rdFifo
    /\ counts.wr = 0 /\ counts.rd # 0 /\ gen.state = "READ" =>
         prev.dat = Taken(at).op.dat

GenEnds ==
  /\ Is("OUTP") => OpsOf(Current) > 0
  /\ gen.state = "WAIT" /\ gen.next = "OUTP" => (header.drop <=> gen.pop)
  /\ \/ Is("OUTP") /\ ~header.drop
     \/ gen.state = "WACK" /\ ~recOut.flags.drop
     => genFifo # <<>> /\ Front.cyc

----------------------------------------------------------------------------
\* What the local master keeps to

Open(list) ==
  IF asked = <<>> THEN list = <<>> \/ list[Len(list)] = End
  ELSE /\ cycIn /\ list # <<>> /\ list[Len(list)].cyc
       /\ asked[1].op = list[Len(list)].op
       /\ \A m \in 1..Len(list) :
            list[m].op.we /\ (\A k \in m..Len(list) : list[k].cyc) => asked[1].wrote

(* Two entries that follow each other: no cycle is empty, byte enables are *)
(* those of the cycle, and reads behind a write are consecutive.           *)
Behind(list, k) ==
  /\ list[k].cyc \/ list[k+1].cyc
  /\ list[k].cyc /\ list[k+1].cyc =>
       /\ list[k].op.sel = list[k+1].op.sel
       /\ ~list[k].op.we /\ ~list[k+1].op.we
          /\ (\E m \in 1..k : list[m].op.we /\ \A j \in m..k : list[j].cyc)
          => Increments(list[k+1].op.dat, list[k].op.dat)

Cycles(at) ==
  /\ Open(Left)
  /\ asked # <<>> => Len(Left) > at
  /\ \A k \in 1..Len(Left)-1 : Behind(Left, k)
  /\ \A k \in 1..Len(Left) : Left[k].cyc \/ Left[k] = End

----------------------------------------------------------------------------
\* The framer, and the words

FramerOrderly ==
  /\ framer.state \in {"EB", "REC", "WA", "WRITE", "RA", "READ", "LOAD"} => recFifo # <<>>
  /\ framer.state \in {"WA", "WRITE"} => Rec.wr # 0
  /\ framer.state \in {"RA", "READ"} => Rec.rd # 0
  /\ framer.state = "WRITE" =>
       -1 <= framer.ops /\ framer.ops <= Rec.wr - 2 /\ base = Rec.flags.adrWr
  /\ framer.state = "READ" =>
       -1 <= framer.ops /\ framer.ops <= Rec.rd - 2 /\ base = Left[1].op.dat
  /\ ~framer.send

WordOf(op) == IF op.we THEN op.dat ELSE op.adr

(* The words of the operations are in the FIFO in their order, at place,   *)
(* and nothing else but a flush; that is behind the words it has to send.  *)
Placed(place) ==
  /\ place \in [1..Len(Left) -> Int]
  /\ \A k \in 1..Len(Left) : Left[k].cyc =>
       /\ 1 <= place[k] /\ place[k] <= Len(opFifo) /\ ~opFifo[place[k]].send
       /\ opFifo[place[k]].word = WordOf(Left[k].op)
  /\ \A i, j \in 1..Len(Left) : i < j /\ Left[i].cyc /\ Left[j].cyc => place[i] < place[j]
  /\ \A i, j \in 1..Len(Left) : i < j /\ (\A k \in i..j : Left[k].cyc) =>
       place[j] - place[i] >= j - i
  /\ \A n \in 1..Len(opFifo) : ~opFifo[n].send =>
       \E k \in 1..Len(Left) : Left[k].cyc /\ place[k] = n
  /\ \A n \in 1..Len(opFifo) : opFifo[n].send =>
       /\ flush # 0
       /\ \A k \in 1..Len(Left) : Left[k].cyc => (place[k] < n <=> k < flush)
  /\ \A m, n \in 1..Len(opFifo) : opFifo[m].send /\ opFifo[n].send => m = n

FlushOrderly ==
  /\ flush <= Len(Left) + 1
  /\ flush > 1 => Left[flush - 1] = End
  /\ flush = 1 => framer.state \in {"NEXT", "SEND"}
  /\ flush # 0 => \/ flush = 1 /\ framer.state = "SEND"
                  \/ \E n \in 1..Len(opFifo) : opFifo[n].send

Going(cut, at, place) ==
  /\ Chained(cut, at) /\ Held(at)
  /\ GenOrderly /\ GenWrites /\ GenReads(at) /\ GenEnds
  /\ Cycles(at) /\ FramerOrderly
  /\ Placed(place) /\ FlushOrderly

(* A record of as many operations as op_fifo has room for has counters of  *)
(* 0: it is never written, and op_fifo stays full.                         *)
Jammed ==
  /\ Len(opFifo) = OpDepth /\ ~framer.send
  /\ \A n \in 1..OpDepth : ~opFifo[n].send
  /\ \A i \in 1..Len(genFifo) : ~genFifo[i].cyc
  /\ counts.wr = 0 /\ counts.rd = 0
  /\ gen.state # "WAIT" => ~gen.pop
  /\ gen.state = "WAIT" => gen.next \in {"WRITE", "READ", "OUTP"}
  /\ gen.state = "WACK" => OpsOf(recOut) = 0
  /\ \A i \in 1..Len(recFifo) : OpsOf(recFifo[i]) = 0 \/ (i = 1 /\ framer.state = "LOAD")
  /\ framer.state \notin {"WA", "WRITE", "RA", "READ"}
  /\ framer.state = "LOAD" => recFifo # <<>> /\ (Rec.flags.drop => Left # <<>> /\ Left[1] = End)

MasterInv ==
  /\ MasterTypeOK
  /\ RecordsSayWhatWasAsked
  /\ Jammed \/ \E cut, place : \E at \in Nat : Going(cut, at, place)

----------------------------------------------------------------------------
\* Records and lists

Words == [word : 0..AdrMod-1, send : BOOLEAN]

LEMMA SizeIs ==
  ASSUME NEW rec \in Records
  PROVE  /\ OpsOf(rec) \in Nat /\ SizeOf(rec) \in Nat
         /\ OpsOf(rec) = rec.wr + rec.rd
         /\ SizeOf(rec) = OpsOf(rec) + Bit(rec.flags.drop)
         /\ SizeOf(rec) = IF rec.flags.drop THEN rec.wr + rec.rd + 1 ELSE rec.wr + rec.rd
         /\ rec.wr \in Nat /\ rec.rd \in Nat /\ rec.flags \in Flags
         /\ rec.wr < CountMod /\ rec.rd < CountMod
         /\ rec.flags.drop \in BOOLEAN
BY MasterAssumption DEF Records, Flags, OpsOf, SizeOf, Bit

(* What a record says of a list stays true when the list moves on.         *)
LEMMA SaysMoves ==
  ASSUME NEW old \in Seq(FifoEntries), NEW new \in Seq(FifoEntries),
         NEW n \in {0, 1}, NEW add, Len(add) \in Nat, Shifts(old, new, n, add),
         NEW rec \in Records, NEW at \in Int, at + SizeOf(rec) <= Len(old),
         Says(old, rec, at)
  PROVE  Says(new, rec, at - n)
<1> DEFINE size == SizeOf(rec)
           lo == Len(old)
           ln == Len(new)
           wr == rec.wr
           rd == rec.rd
<1>1. /\ n \in Nat /\ lo \in Nat /\ ln \in Nat /\ size \in Nat /\ wr \in Nat /\ rd \in Nat
      /\ wr + rd <= size /\ at + size <= lo /\ at \in Int
      /\ rec.flags.drop => size = wr + rd + 1
  BY SizeIs DEF OpsOf, Bit
<1>2. ln >= lo - n /\ \A k \in 1..lo-n : new[k] = old[k+n]
  BY DEF Shifts
<1> HIDE DEF size, lo, ln, wr, rd
<1>3. ASSUME NEW k \in 1..ln, k + n <= at + size
      PROVE  k + n \in 1..lo /\ new[k] = old[k+n]
  <2>1. k \in 1..lo-n /\ k + n \in 1..lo
    BY <1>1, <1>2, <1>3
  <2> QED
    BY <1>2, <2>1
<1>4. rec.wr # 0 => rec.flags.wrFifo
  BY DEF Says
<1>5. SaysWrites(new, rec, at - n)
  <2> SUFFICES ASSUME NEW k \in 1..ln, at - n < k, k <= at - n + wr
               PROVE  /\ new[k].cyc /\ new[k].op.we
                      /\ new[k].op.adr = rec.flags.adrWr /\ new[k].op.sel = rec.flags.sel
    BY DEF SaysWrites, ln, wr
  <2>1. k + n <= at + size /\ at < k + n /\ k + n <= at + wr
    BY <1>1
  <2>2. k + n \in 1..lo /\ new[k] = old[k+n]
    BY <1>3, <2>1
  <2> QED
    BY <2>1, <2>2 DEF Says, SaysWrites, wr, lo
<1>6. SaysReads(new, rec, at - n)
  <2> SUFFICES ASSUME NEW k \in 1..ln, at - n + wr < k, k <= at - n + wr + rd
               PROVE  /\ new[k].cyc /\ ~new[k].op.we /\ new[k].op.sel = rec.flags.sel
                      /\ k = at - n + wr + 1 => new[k].op.dat = rec.flags.adrRd
                      /\ k > at - n + wr + 1 /\ k > 1 => Follows(rec, new[k].op.dat, new[k-1].op.dat)
    BY DEF SaysReads, ln, wr, rd
  <2> DEFINE j == k + n
  <2>1. /\ k + n <= at + size /\ at + wr < k + n /\ k + n <= at + wr + rd
        /\ k = at - n + wr + 1 <=> k + n = at + wr + 1
        /\ k > at - n + wr + 1 <=> k + n > at + wr + 1
    BY <1>1
  <2>2. j \in 1..lo /\ new[k] = old[j]
    BY <1>3, <2>1
  <2>3. /\ old[j].cyc /\ ~old[j].op.we /\ old[j].op.sel = rec.flags.sel
        /\ j = at + wr + 1 => old[j].op.dat = rec.flags.adrRd
        /\ j > at + wr + 1 /\ j > 1 => Follows(rec, old[j].op.dat, old[j-1].op.dat)
    <3> HIDE DEF j
    <3>1. at + wr < j /\ j <= at + wr + rd
      BY <2>1 DEF j
    <3> QED
      BY <2>2, <3>1 DEF Says, SaysReads, lo, wr, rd
  <2>4. ASSUME k > at - n + wr + 1, k > 1
        PROVE  Follows(rec, new[k].op.dat, new[k-1].op.dat)
    <3>1. k - 1 \in 1..ln /\ (k - 1) + n <= at + size /\ (k - 1) + n = j - 1 /\ j > 1
      BY <1>1, <2>1, <2>4
    <3>2. new[k-1] = old[j-1]
      BY <1>3, <3>1
    <3> QED
      BY <2>1, <2>2, <2>3, <2>4, <3>1, <3>2
  <2> QED
    BY <2>1, <2>2, <2>3, <2>4
<1>7. SaysEnd(new, rec, at - n)
  <2> SUFFICES ASSUME rec.flags.drop, NEW k \in 1..ln, k = at - n + wr + rd + 1
               PROVE  new[k] = End
    BY DEF SaysEnd, ln, wr, rd
  <2>1. k + n <= at + size /\ k + n = at + wr + rd + 1
    BY <1>1
  <2>2. k + n \in 1..lo /\ new[k] = old[k+n]
    BY <1>3, <2>1
  <2> QED
    BY <2>1, <2>2 DEF Says, SaysEnd, lo, wr, rd
<1> QED
  BY <1>4, <1>5, <1>6, <1>7 DEF Says

(* A record that says no more, in the same words, is as true.              *)
LEMMA SaysSame ==
  ASSUME NEW list \in Seq(FifoEntries), NEW rec \in Records, NEW rec2 \in Records,
         NEW at \in Int, Says(list, rec, at),
         rec2.wr = rec.wr, rec2.rd = rec.rd, rec2.flags.drop => rec.flags.drop,
         rec.wr # 0 \/ rec.rd # 0 => rec2.flags.sel = rec.flags.sel,
         rec.wr # 0 => rec2.flags.adrWr = rec.flags.adrWr /\ rec2.flags.wrFifo,
         rec.rd # 0 => /\ rec2.flags.adrRd = rec.flags.adrRd
                       /\ rec2.flags.rdFifo = rec.flags.rdFifo
  PROVE  Says(list, rec2, at)
<1>1. rec.wr \in Nat /\ rec.rd \in Nat
  BY SizeIs
<1>2. SaysWrites(list, rec2, at)
  BY <1>1 DEF Says, SaysWrites
<1>3. SaysReads(list, rec2, at)
  <2> SUFFICES ASSUME NEW k \in 1..Len(list), at + rec.wr < k, k <= at + rec.wr + rec.rd
               PROVE  /\ list[k].cyc /\ ~list[k].op.we /\ list[k].op.sel = rec2.flags.sel
                      /\ k = at + rec.wr + 1 => list[k].op.dat = rec2.flags.adrRd
                      /\ k > at + rec.wr + 1 /\ k > 1 =>
                           Follows(rec2, list[k].op.dat, list[k-1].op.dat)
    BY DEF SaysReads
  <2>1. rec.rd # 0
    BY <1>1
  <2>2. /\ list[k].cyc /\ ~list[k].op.we /\ list[k].op.sel = rec.flags.sel
        /\ k = at + rec.wr + 1 => list[k].op.dat = rec.flags.adrRd
        /\ k > at + rec.wr + 1 /\ k > 1 => Follows(rec, list[k].op.dat, list[k-1].op.dat)
    BY DEF Says, SaysReads
  <2> QED
    BY <2>1, <2>2 DEF Follows
<1>4. SaysEnd(list, rec2, at)
  BY DEF Says, SaysEnd
<1> QED
  BY <1>1, <1>2, <1>3, <1>4 DEF Says

(* A record takes the entry behind what it has: a write, a read, the end.  *)
LEMMA SaysWriteMore ==
  ASSUME NEW list \in Seq(FifoEntries), NEW rec \in Records, NEW rec2,
         NEW at \in Nat, Says(list, rec, at), ~rec.flags.drop,
         NEW k \in 1..Len(list), k = at + rec.wr + rec.rd + 1,
         rec2.wr = rec.wr + 1, rec2.rd = rec.rd, rec2.flags = rec.flags,
         rec.rd = 0, rec.flags.wrFifo, list[k].cyc, list[k].op.we,
         list[k].op.adr = rec.flags.adrWr, list[k].op.sel = rec.flags.sel
  PROVE  Says(list, rec2, at)
<1>1. rec.wr \in Nat /\ at \in Nat /\ Len(list) \in Nat
  BY SizeIs
<1>2. SaysWrites(list, rec2, at)
  <2> SUFFICES ASSUME NEW i \in 1..Len(list), at < i, i <= at + (rec.wr + 1)
               PROVE  /\ list[i].cyc /\ list[i].op.we
                      /\ list[i].op.adr = rec.flags.adrWr /\ list[i].op.sel = rec.flags.sel
    BY DEF SaysWrites
  <2>1. i <= at + rec.wr \/ i = k
    BY <1>1
  <2> QED
    BY <2>1 DEF Says, SaysWrites
<1>3. SaysReads(list, rec2, at)
  BY <1>1 DEF SaysReads
<1>4. SaysEnd(list, rec2, at)
  BY DEF SaysEnd
<1> QED
  BY <1>2, <1>3, <1>4 DEF Says

LEMMA SaysReadMore ==
  ASSUME NEW list \in Seq(FifoEntries), NEW rec \in Records, NEW rec2,
         NEW at \in Nat, Says(list, rec, at), ~rec.flags.drop,
         NEW k \in 1..Len(list), k = at + rec.wr + rec.rd + 1,
         rec2.wr = rec.wr, rec2.rd = rec.rd + 1, rec2.flags = rec.flags,
         list[k].cyc, ~list[k].op.we, list[k].op.sel = rec.flags.sel,
         rec.rd = 0 => list[k].op.dat = rec.flags.adrRd,
         rec.rd # 0 => Follows(rec, list[k].op.dat, list[k-1].op.dat)
  PROVE  Says(list, rec2, at)
<1>1. rec.wr \in Nat /\ rec.rd \in Nat /\ at \in Nat /\ Len(list) \in Nat
  BY SizeIs
<1>2. SaysWrites(list, rec2, at)
  BY DEF Says, SaysWrites
<1>3. SaysReads(list, rec2, at)
  <2> SUFFICES ASSUME NEW i \in 1..Len(list), at + rec.wr < i, i <= at + rec.wr + (rec.rd + 1)
               PROVE  /\ list[i].cyc /\ ~list[i].op.we /\ list[i].op.sel = rec.flags.sel
                      /\ i = at + rec.wr + 1 => list[i].op.dat = rec.flags.adrRd
                      /\ i > at + rec.wr + 1 /\ i > 1 =>
                           Follows(rec, list[i].op.dat, list[i-1].op.dat)
    BY DEF SaysReads, Follows
  <2>1. CASE i <= at + rec.wr + rec.rd
    BY <2>1 DEF Says, SaysReads
  <2>2. CASE i = k
    <3>1. i = at + rec.wr + 1 <=> rec.rd = 0
      BY <1>1, <2>2
    <3> QED
      BY <1>1, <2>2, <3>1
  <2> QED
    BY <1>1, <2>1, <2>2
<1>4. SaysEnd(list, rec2, at)
  BY DEF SaysEnd
<1> QED
  BY <1>2, <1>3, <1>4 DEF Says

LEMMA SaysEndToo ==
  ASSUME NEW list \in Seq(FifoEntries), NEW rec \in Records, NEW rec2,
         NEW at \in Nat, Says(list, rec, at),
         NEW k \in 1..Len(list), k = at + rec.wr + rec.rd + 1, list[k] = End,
         rec2.wr = rec.wr, rec2.rd = rec.rd, rec2.flags.sel = rec.flags.sel,
         rec2.flags.adrWr = rec.flags.adrWr, rec2.flags.adrRd = rec.flags.adrRd,
         rec2.flags.wrFifo = rec.flags.wrFifo, rec2.flags.rdFifo = rec.flags.rdFifo
  PROVE  Says(list, rec2, at)
<1>1. SaysWrites(list, rec2, at)
  BY DEF Says, SaysWrites
<1>2. SaysReads(list, rec2, at)
  BY DEF Says, SaysReads, Follows
<1>3. SaysEnd(list, rec2, at)
  BY SizeIs DEF SaysEnd
<1> QED
  BY <1>1, <1>2, <1>3 DEF Says

(* A list goes on as a queue behind the places at and size.                *)
GoesOn(list, at, size, queue) ==
  /\ Len(list) = at + size + Len(queue)
  /\ \A i \in 1..Len(queue) : list[at + size + i] = queue[i]

(* What lies behind the record being collected is what the generator has   *)
(* not seen, before and after entries move on.                             *)
LEMMA HeldMoves ==
  ASSUME NEW old \in Seq(FifoEntries), NEW new \in Seq(FifoEntries),
         NEW fifo \in Seq(FifoEntries), NEW fifo2 \in Seq(FifoEntries),
         NEW n \in Nat, NEW m \in Nat, n <= 1, m <= 1, NEW add, Len(add) \in Nat, Len(add) <= 1,
         Shifts(old, new, n, add), Shifts(fifo, fifo2, m, add), m <= Len(fifo),
         NEW at \in Nat, n <= at, NEW size \in Nat, GoesOn(old, at, size, fifo)
  PROVE  GoesOn(new, at - n, size + m, fifo2)
<1> DEFINE la == Len(add)
           lf == Len(fifo)
           lg == Len(fifo2)
           lo == Len(old)
           ln == Len(new)
<1>1. /\ n \in Nat /\ m \in Nat /\ la \in Nat /\ la <= 1 /\ lf \in Nat /\ lg \in Nat
      /\ lo \in Nat /\ ln \in Nat
      /\ lo = at + size + lf /\ m <= lf
  <2>1. n \in Nat /\ m \in Nat
    OBVIOUS
  <2>2. Len(add) \in Nat /\ Len(add) <= 1
    BY ZeroOrOne
  <2> QED
    BY <2>1, <2>2 DEF GoesOn
<1>2. /\ ln = lo - n + la /\ lg = lf - m + la
      /\ \A i \in 1..lo-n : new[i] = old[i+n]
      /\ \A i \in 1..lf-m : fifo2[i] = fifo[i+m]
      /\ la = 1 => new[lo-n+1] = add[1] /\ fifo2[lf-m+1] = add[1]
  BY DEF Shifts
<1>3. \A i \in 1..lf : old[at + size + i] = fifo[i]
  BY DEF GoesOn
<1> HIDE DEF la, lf, lg, lo, ln
<1>4. ln = at - n + (size + m) + lg
  BY <1>1, <1>2
<1>5. ASSUME NEW i \in 1..lg
      PROVE  new[at - n + (size + m) + i] = fifo2[i]
  <2>1. CASE i <= lf - m
    <3> DEFINE k == at - n + (size + m) + i
               j == i + m
    <3>1. k \in 1..lo-n /\ k + n = at + size + j /\ j \in 1..lf /\ i \in 1..lf-m
      BY <1>1, <1>2, <2>1
    <3> HIDE DEF k, j
    <3>2. new[k] = old[at + size + j]
      BY <1>2, <3>1
    <3>3. old[at + size + j] = fifo[j] /\ fifo2[i] = fifo[i+m]
      BY <1>2, <1>3, <3>1
    <3> QED
      BY <3>2, <3>3 DEF k, j
  <2>2. CASE i > lf - m
    <3>1. la = 1 /\ i = lf - m + 1 /\ at - n + (size + m) + i = lo - n + 1
      BY <1>1, <1>2, <2>2
    <3> QED
      BY <1>2, <3>1
  <2> QED
    BY <1>1, <2>1, <2>2
<1> QED
  BY <1>4, <1>5 DEF ln, lg, GoesOn

----------------------------------------------------------------------------
\* What a clock period brings

LEMMA EndIs == End \in FifoEntries /\ End.cyc = FALSE
BY MasterAssumption DEF End, FifoEntries, OpShape

LEMMA OperationIs ==
  ASSUME NEW op \in OpShape
  PROVE  /\ Operation(op) \in FifoEntries /\ Operation(op).cyc = TRUE
         /\ Operation(op).op = op /\ Operation(op) # End
BY DEF Operation, FifoEntries, End

LEMMA EntryIs ==
  ASSUME NEW s \in FifoEntries
  PROVE  /\ s.cyc \in BOOLEAN /\ s.op \in OpShape /\ s.op.we \in BOOLEAN
         /\ s.op.adr \in 0..AdrMod-1 /\ s.op.dat \in 0..AdrMod-1 /\ s.op.sel \in 0..15
         /\ s.cyc => s = Operation(s.op)
         /\ s.op = [we |-> s.op.we, adr |-> s.op.adr, dat |-> s.op.dat, sel |-> s.op.sel]
BY DEF FifoEntries, OpShape, Operation

Added(in) == When(Accepted(in), Operation(in.op)) \o When(Falls(in), End)
OpAdded(in) == When(Accepted(in) \/ QueueSend(in),
                    [word |-> IF in.op.we THEN in.op.dat ELSE in.op.adr,
                     send |-> SendRequest(in)])

LEMMA InputIs ==
  ASSUME Served, MasterTypeOK, NEW in \in Inputs, Conforms(in), Considerate(in)
  PROVE  /\ in.cyc \in BOOLEAN /\ in.stb \in BOOLEAN /\ in.send \in BOOLEAN /\ in.stall \in BOOLEAN
         /\ in.op \in OpShape /\ in.op.we \in BOOLEAN
         /\ Accepted(in) \in BOOLEAN /\ Falls(in) \in BOOLEAN
         /\ TxPush(in) \in BOOLEAN /\ SendRequest(in) \in BOOLEAN /\ QueueSend(in) \in BOOLEAN
         /\ Accepted(in) => /\ in.stb /\ in.cyc /\ ~Falls(in) /\ ~in.send
                            /\ Len(genFifo) < GenDepth /\ Len(opFifo) < OpDepth
         /\ Falls(in) => /\ ~in.cyc /\ cycIn /\ asked # <<>> /\ Len(genFifo) < GenDepth
         /\ in.send => /\ ~in.cyc /\ flush = 0 /\ TxCyc /\ Len(opFifo) < OpDepth
         /\ Accepted(in) /\ asked # <<>> => in.op.sel = asked[1].op.sel
         /\ Accepted(in) /\ asked # <<>> /\ ~in.op.we /\ asked[1].wrote /\ ~asked[1].op.we =>
              Increments(in.op.dat, asked[1].op.dat)
<1>1. /\ in.cyc \in BOOLEAN /\ in.stb \in BOOLEAN /\ in.send \in BOOLEAN /\ in.stall \in BOOLEAN
      /\ in.op \in Ops
  BY DEF Inputs
<1>2. in.op \in OpShape /\ in.op.we \in BOOLEAN
  BY <1>1, MasterAssumption DEF OpShape
<1>3. /\ GenDepth \in Nat /\ OpDepth \in Nat /\ Len(genFifo) \in Nat /\ Len(opFifo) \in Nat
      /\ Len(genFifo) <= GenDepth /\ Len(opFifo) <= OpDepth /\ framer.send \in BOOLEAN
      /\ cycIn \in BOOLEAN
  <2>1. GenDepth \in Nat /\ OpDepth \in Nat
    BY MasterAssumption
  <2>2. framer.send \in BOOLEAN
    BY DEF MasterTypeOK
  <2> QED
    BY <2>1, <2>2 DEF MasterTypeOK
<1>4. /\ Accepted(in) \in BOOLEAN /\ Falls(in) \in BOOLEAN /\ TxPush(in) \in BOOLEAN
      /\ SendRequest(in) \in BOOLEAN /\ QueueSend(in) \in BOOLEAN
  BY <1>1, <1>3 DEF Accepted, Falls, TxPush, SendRequest, QueueSend
<1>5. Falls(in) => /\ ~in.cyc /\ cycIn /\ asked # <<>> /\ Len(genFifo) < GenDepth
  BY DEF Conforms, Considerate, Served, Falls
<1>6. in.send => /\ ~in.cyc /\ flush = 0 /\ TxCyc /\ Len(opFifo) < OpDepth
  BY DEF Conforms, Considerate, Served
<1>7. Accepted(in) => /\ in.stb /\ in.cyc /\ ~Falls(in) /\ ~in.send
                      /\ Len(genFifo) < GenDepth /\ Len(opFifo) < OpDepth
  BY <1>3, <1>6 DEF Accepted, SlaveStall, Conforms, Falls
<1>8. /\ Accepted(in) /\ asked # <<>> => in.op.sel = asked[1].op.sel
      /\ Accepted(in) /\ asked # <<>> /\ ~in.op.we /\ asked[1].wrote /\ ~asked[1].op.we =>
              Increments(in.op.dat, asked[1].op.dat)
  BY <1>7 DEF Considerate, Served
<1> QED
  BY <1>1, <1>2, <1>4, <1>5, <1>6, <1>7, <1>8

LEMMA AddedIs ==
  ASSUME Served, MasterTypeOK, NEW in \in Inputs, Conforms(in), Considerate(in)
  PROVE  /\ Added(in) \in Seq(FifoEntries)
         /\ Len(Added(in)) = Bit(Accepted(in) \/ Falls(in)) /\ Len(Added(in)) \in {0, 1}
         /\ Accepted(in) => Added(in) = <<Operation(in.op)>> /\ Added(in)[1] = Operation(in.op)
         /\ Falls(in) => Added(in) = <<End>> /\ Added(in)[1] = End
         /\ ~Accepted(in) /\ ~Falls(in) => Added(in) = <<>>
         /\ OpAdded(in) \in Seq(Words)
         /\ Len(OpAdded(in)) = Bit(Accepted(in) \/ QueueSend(in)) /\ Len(OpAdded(in)) \in {0, 1}
         /\ Accepted(in) \/ QueueSend(in) =>
              OpAdded(in)[1].word = WordOf(in.op) /\ OpAdded(in)[1].send = SendRequest(in)
         /\ ~Accepted(in) /\ ~QueueSend(in) => OpAdded(in) = <<>>
<1> DEFINE word == [word |-> IF in.op.we THEN in.op.dat ELSE in.op.adr, send |-> SendRequest(in)]
<1>1. /\ in.op \in OpShape /\ Accepted(in) \in BOOLEAN /\ Falls(in) \in BOOLEAN
      /\ SendRequest(in) \in BOOLEAN /\ QueueSend(in) \in BOOLEAN
      /\ ~(Accepted(in) /\ Falls(in))
  BY InputIs
<1>2. Operation(in.op) \in FifoEntries /\ End \in FifoEntries
  BY <1>1, OperationIs, EndIs
<1>3. /\ word \in Words /\ word.word = WordOf(in.op) /\ word.send = SendRequest(in)
  BY <1>1, MasterAssumption DEF Words, OpShape, WordOf
<1> HIDE DEF word
<1>4. OpAdded(in) = When(Accepted(in) \/ QueueSend(in), word)
  BY DEF OpAdded, word
<1>5. (Accepted(in) \/ QueueSend(in)) \in BOOLEAN
  BY <1>1
<1>6. /\ OpAdded(in) \in Seq(Words)
      /\ Len(OpAdded(in)) = Bit(Accepted(in) \/ QueueSend(in))
      /\ Accepted(in) \/ QueueSend(in) => OpAdded(in)[1] = word
      /\ ~Accepted(in) /\ ~QueueSend(in) => OpAdded(in) = <<>>
  BY <1>3, <1>4, <1>5, WhenIs
<1>7. Bit(Accepted(in) \/ QueueSend(in)) \in {0, 1} /\ Bit(Accepted(in) \/ Falls(in)) \in {0, 1}
  BY DEF Bit
<1>8. CASE Accepted(in)
  <2>1. Added(in) = <<Operation(in.op)>>
    BY <1>1, <1>8 DEF Added, When
  <2> QED
    BY <1>1, <1>2, <1>3, <1>6, <1>7, <1>8, <2>1, OneEntry DEF Bit
<1>9. CASE Falls(in)
  <2>1. Added(in) = <<End>>
    BY <1>1, <1>9 DEF Added, When
  <2> QED
    BY <1>1, <1>2, <1>3, <1>6, <1>7, <1>9, <2>1, OneEntry DEF Bit
<1>10. CASE ~Accepted(in) /\ ~Falls(in)
  <2>1. Added(in) = <<>>
    BY <1>1, <1>10 DEF Added, When
  <2> QED
    BY <1>1, <1>2, <1>3, <1>6, <1>7, <1>10, <2>1 DEF Bit
<1> QED
  BY <1>8, <1>9, <1>10

(* The FIFOs lose nothing.                                                 *)
LEMMA FifosMove ==
  ASSUME Served, MasterTypeOK, NEW in \in Inputs, MasterClock(in), ~framer.send
  PROVE  /\ genFifo' \in Seq(FifoEntries) /\ Len(genFifo') <= GenDepth
         /\ Shifts(genFifo, genFifo', Bit(GenPop), Added(in))
         /\ GenPop \in BOOLEAN /\ GenPop => genFifo # <<>>
         /\ opFifo' \in Seq(Words) /\ Len(opFifo') <= OpDepth
         /\ Shifts(opFifo, opFifo', Bit(OpPop(in)), OpAdded(in))
         /\ OpPop(in) \in BOOLEAN /\ OpPop(in) => opFifo # <<>>
<1>1. Conforms(in) /\ Considerate(in)
  BY DEF MasterClock
<1>2. /\ GenDepth \in Nat /\ OpDepth \in Nat /\ genFifo \in Seq(FifoEntries) /\ opFifo \in Seq(Words)
      /\ Len(genFifo) <= GenDepth /\ Len(opFifo) <= OpDepth /\ gen.pop \in BOOLEAN
  BY MasterAssumption DEF MasterTypeOK, Words
<1>3. GenPop \in BOOLEAN /\ (GenPop => genFifo # <<>>)
  BY <1>2 DEF GenPop
<1>4. OpPop(in) \in BOOLEAN /\ (OpPop(in) => opFifo # <<>>)
  BY DEF OpPop
<1>5. /\ Added(in) \in Seq(FifoEntries) /\ Len(Added(in)) <= 1
      /\ Added(in) # <<>> => Len(genFifo) < GenDepth
  BY <1>1, AddedIs, InputIs, ZeroOrOne
<1>6. /\ OpAdded(in) \in Seq(Words) /\ Len(OpAdded(in)) <= 1
      /\ OpAdded(in) # <<>> => Len(opFifo) < OpDepth
  BY <1>1, AddedIs, InputIs, ZeroOrOne DEF QueueSend, SendRequest
<1>7. genFifo' = Queue(genFifo, Added(in), GenPop, GenDepth)
  BY DEF MasterClock, RecordGen, Added
<1>8. opFifo' = Queue(opFifo, OpAdded(in), OpPop(in), OpDepth)
  BY DEF MasterClock, Framer, OpFifo, OpAdded
<1>9. /\ genFifo' \in Seq(FifoEntries) /\ Len(genFifo') <= GenDepth
      /\ Shifts(genFifo, genFifo', Bit(GenPop), Added(in))
  BY <1>2, <1>3, <1>5, <1>7, Queueing, QueueTypes
<1>10. /\ opFifo' \in Seq(Words) /\ Len(opFifo') <= OpDepth
       /\ Shifts(opFifo, opFifo', Bit(OpPop(in)), OpAdded(in))
  BY <1>2, <1>4, <1>6, <1>8, Queueing, QueueTypes
<1> QED
  BY <1>3, <1>4, <1>9, <1>10

LEMMA LeftMoves ==
  ASSUME Served, MasterTypeOK, NEW in \in Inputs, MasterClock(in),
         told # <<>> => owed # <<>>, told' # <<>> => Left # <<>>
  PROVE  /\ Left \in Seq(FifoEntries) /\ Left' \in Seq(FifoEntries) /\ owed' \in Seq(FifoEntries)
         /\ Shifts(Left, Left', Bit(told' # <<>>), Added(in))
         /\ told' # <<>> => owed' # <<>> /\ owed'[1] = Left[1]
         /\ Len(Left') = Len(owed') - Bit(told' # <<>>)
<1>1. Conforms(in) /\ Considerate(in)
  BY DEF MasterClock
<1>2. owed \in Seq(FifoEntries)
  BY DEF MasterTypeOK
<1>3. Left \in Seq(FifoEntries)
  BY <1>2 DEF Left
<1>4. Added(in) \in Seq(FifoEntries) /\ Len(Added(in)) <= 1
  BY <1>1, AddedIs, ZeroOrOne
<1>5. owed' = Left \o Added(in)
  <2>1. When(Accepted(in), Operation(in.op)) \in Seq(FifoEntries) /\ When(Falls(in), End) \in Seq(FifoEntries)
    BY <1>1, InputIs, OperationIs, EndIs, WhenIs
  <2>2. owed' = (Left \o When(Accepted(in), Operation(in.op))) \o When(Falls(in), End)
    BY DEF MasterClock, Ghosts, Left
  <2> QED
    BY <1>3, <2>1, <2>2 DEF Added
<1>6. owed' \in Seq(FifoEntries)
  BY <1>3, <1>4, <1>5
<1> DEFINE goes == told' # <<>>
           rest == IF goes THEN Tail(Left) ELSE Left
<1>7. goes => Left # <<>>
  OBVIOUS
<1>8. Left' = rest \o Added(in)
  <2>1. Left' = IF goes THEN Tail(owed') ELSE owed'
    BY DEF Left
  <2>2. CASE goes
    <3>1. Left # <<>>
      BY <2>2
    <3> QED
      BY <1>3, <1>4, <1>5, <2>1, <2>2, <3>1
  <2>3. CASE ~goes
    BY <1>5, <2>1, <2>3
  <2> QED
    BY <2>2, <2>3
<1>9. goes \in BOOLEAN
  OBVIOUS
<1>10. Left' \in Seq(FifoEntries) /\ Shifts(Left, Left', Bit(goes), Added(in))
  BY <1>3, <1>4, <1>7, <1>8, <1>9, Shifting
<1>11. goes => owed' # <<>> /\ owed'[1] = Left[1]
  <2> SUFFICES ASSUME goes PROVE owed' # <<>> /\ owed'[1] = Left[1]
    OBVIOUS
  <2>1. Left # <<>>
    BY <1>7
  <2> QED
    BY <1>3, <1>4, <1>5, <2>1
<1>12. Len(Left') = Len(owed') - Bit(goes)
  <2>1. Len(owed') = Len(Left) + Len(Added(in))
    BY <1>3, <1>4, <1>5
  <2>2. Len(Left') = Len(Left) - Bit(goes) + Len(Added(in))
    BY <1>10 DEF Shifts
  <2>3. Len(Left) \in Nat /\ Len(Added(in)) \in Nat /\ Bit(goes) \in Nat
    BY <1>3, <1>4 DEF Bit
  <2> QED
    BY <2>1, <2>2, <2>3
<1> QED
  BY <1>3, <1>6, <1>10, <1>11, <1>12

----------------------------------------------------------------------------
\* Types

Modes == {"UNKNOWN", "WR_FIFO", "WR_NORM", "WR_SPLIT", "RD_FIFO", "RD_NORM", "RD_SPLIT"}
Gens == [state : GenStates, next : GenStates, pop : BOOLEAN, mode : Modes]
States == Talking \cup {"INIT", "IDLE", "LOAD", "NEXT", "SEND"}
HasRecord == framer.state \in {"WA", "WRITE", "RA", "READ", "LOAD"} => recFifo # <<>>

LEMMA ModIs ==
  ASSUME NEW x \in Int, NEW y \in Nat \ {0}
  PROVE  x % y \in 0..y-1
OBVIOUS

LEMMA ModSmall ==
  ASSUME NEW x \in Nat, NEW y \in Nat, x < y
  PROVE  x % y = x
OBVIOUS

LEMMA ToldIs ==
  ASSUME NEW in \in Inputs, MasterClock(in)
  PROVE  /\ told' = Reading(in)
         /\ Len(told') = Bit(told' # <<>>)
         /\ told' # <<>> <=> \/ framer.state \in {"WRITE", "READ"} /\ TxPush(in)
                             \/ framer.state = "LOAD" /\ Rec.flags.drop
<1>1. told' = Reading(in)
  BY DEF MasterClock, Ghosts
<1>2. CASE framer.state = "WRITE" /\ TxPush(in)
  BY <1>1, <1>2 DEF Reading, Bit
<1>3. CASE framer.state = "READ" /\ TxPush(in)
  BY <1>1, <1>3 DEF Reading, Bit
<1>4. CASE framer.state = "LOAD" /\ Rec.flags.drop
  BY <1>1, <1>4 DEF Reading, Bit
<1>5. CASE /\ ~(framer.state \in {"WRITE", "READ"} /\ TxPush(in))
           /\ ~(framer.state = "LOAD" /\ Rec.flags.drop)
  <2>1. told' = <<>>
    BY <1>1, <1>5 DEF Reading
  <2> QED
    BY <1>1, <1>5, <2>1 DEF Bit
<1> QED
  BY <1>2, <1>3, <1>4, <1>5

LEMMA RecIs ==
  ASSUME MasterTypeOK, recFifo # <<>>
  PROVE  Rec \in Records /\ Rec.flags \in Flags /\ Rec.wr \in Nat /\ Rec.rd \in Nat
<1>1. recFifo \in Seq(Records)
  BY DEF MasterTypeOK
<1>2. Rec \in Records
  BY <1>1 DEF Rec
<1> QED
  BY <1>2, SizeIs

LEMMA FrontIs ==
  ASSUME MasterTypeOK, genFifo # <<>>
  PROVE  /\ Front \in FifoEntries /\ Front.cyc \in BOOLEAN
         /\ Front.op \in OpShape /\ Front.op.we \in BOOLEAN
         /\ Front.op.adr \in 0..AdrMod-1 /\ Front.op.dat \in 0..AdrMod-1 /\ Front.op.sel \in 0..15
         /\ Len(genFifo) \in Nat /\ Len(genFifo) >= 1
<1>1. genFifo \in Seq(FifoEntries)
  BY DEF MasterTypeOK
<1>2. Front \in FifoEntries
  BY <1>1 DEF Front
<1>3. Len(genFifo) \in Nat /\ Len(genFifo) >= 1
  BY <1>1
<1> QED
  BY <1>2, <1>3, EntryIs

CurrentFacts ==
  /\ Current \in Records
  /\ Current.wr = counts.wr /\ Current.rd = counts.rd
  /\ Current.flags.drop = (Collecting /\ header.drop /\ ~gen.pop)
  /\ Current.flags.sel = header.sel /\ Current.flags.adrWr = header.adrWr
  /\ Current.flags.adrRd = header.adrRd /\ Current.flags.wrFifo = header.wrFifo
  /\ Current.flags.rdFifo = header.rdFifo
  /\ OpsOf(Current) = counts.wr + counts.rd
  /\ counts.wr \in Nat /\ counts.rd \in Nat
  /\ counts.wr < CountMod /\ counts.rd < CountMod
  /\ SizeOf(Current) \in Nat /\ OpsOf(Current) \in Nat
  /\ SizeOf(Current) = OpsOf(Current) + Bit(Collecting /\ header.drop /\ ~gen.pop)

LEMMA CurrentIs ==
  ASSUME MasterTypeOK
  PROVE  CurrentFacts
<1>1. header \in Flags /\ gen.pop \in BOOLEAN
  BY DEF MasterTypeOK
<1>2. counts.wr \in 0..CountMod-1 /\ counts.rd \in 0..CountMod-1
  BY DEF MasterTypeOK
<1>3. (Collecting /\ header.drop /\ ~gen.pop) \in BOOLEAN
  BY <1>1 DEF Collecting, Flags
<1>4. /\ Current \in Records
      /\ Current.wr = counts.wr /\ Current.rd = counts.rd
      /\ Current.flags.drop = (Collecting /\ header.drop /\ ~gen.pop)
      /\ Current.flags.sel = header.sel /\ Current.flags.adrWr = header.adrWr
      /\ Current.flags.adrRd = header.adrRd /\ Current.flags.wrFifo = header.wrFifo
      /\ Current.flags.rdFifo = header.rdFifo
  BY <1>1, <1>2, <1>3 DEF Current, Records, Flags
<1>5. /\ SizeOf(Current) \in Nat /\ OpsOf(Current) \in Nat
      /\ SizeOf(Current) = OpsOf(Current) + Bit(Current.flags.drop)
      /\ OpsOf(Current) = Current.wr + Current.rd
  BY <1>4, SizeIs
<1> QED
  BY <1>2, <1>4, <1>5, MasterAssumption DEF CurrentFacts

LEMMA CurrentIsNext == MasterTypeOK' => CurrentFacts'
<1>1. MasterTypeOK => CurrentFacts
  BY CurrentIs
<1> QED
  BY <1>1, PTL

LEMMA GenTypes ==
  ASSUME MasterTypeOK, NEW in \in Inputs, MasterClock(in)
  PROVE  /\ cycIn' \in BOOLEAN /\ gen' \in Gens
         /\ prev' \in [adr : 0..AdrMod-1, dat : 0..AdrMod-1]
         /\ header' \in Flags /\ recOut' \in Records
         /\ counts' \in [wr : 0..CountMod-1, rd : 0..CountMod-1]
<1>1. /\ gen \in Gens /\ header \in Flags /\ recOut \in Records
      /\ counts \in [wr : 0..CountMod-1, rd : 0..CountMod-1]
      /\ prev \in [adr : 0..AdrMod-1, dat : 0..AdrMod-1]
  BY DEF MasterTypeOK, Gens, Modes
<1>2. CountMod \in Nat \ {0} /\ AdrMod \in Nat \ {0}
  BY MasterAssumption
<1>3. cycIn' \in BOOLEAN
  BY DEF MasterClock, RecordGen, Inputs
<1>4. prev' \in [adr : 0..AdrMod-1, dat : 0..AdrMod-1]
  <2>1. CASE genFifo = <<>>
    BY <1>1, <2>1 DEF MasterClock, RecordGen, Registers
  <2>2. CASE genFifo # <<>>
    BY <2>2, FrontIs DEF MasterClock, RecordGen, Registers, Front
  <2> QED
    BY <2>1, <2>2
<1>5. recOut' \in Records
  BY <1>1 DEF MasterClock, RecordGen, Registers, Records
<1>6. counts' \in [wr : 0..CountMod-1, rd : 0..CountMod-1]
  <2>1. (counts.wr + 1) % CountMod \in 0..CountMod-1 /\ (counts.rd + 1) % CountMod \in 0..CountMod-1
    <3>1. counts.wr + 1 \in Int /\ counts.rd + 1 \in Int
      BY <1>1, <1>2
    <3> QED
      BY <1>2, <3>1, ModIs
  <2>2. 0 \in 0..CountMod-1
    BY <1>2
  <2> QED
    BY <1>1, <2>1, <2>2 DEF MasterClock, RecordGen, Registers
<1>7. /\ \A st \in GenStates : Go(st) \in Gens /\ WaitAndGo(st) \in Gens /\ PopAndGo(st) \in Gens
      /\ \A op, g : g \in Gens => Unless(op, g) \in Gens
      /\ \A g, md : g \in Gens /\ md \in Modes => [g EXCEPT !.mode = md] \in Gens
  BY <1>1 DEF Go, WaitAndGo, PopAndGo, Unless, Gens, GenStates
<1>8. \A same, incr : Mode(same, incr, WriteModes) \in Modes /\ Mode(same, incr, ReadModes) \in Modes
  BY <1>1 DEF Mode, WriteModes, ReadModes, Modes, Gens
<1>9. {"START", "WRITE", "READ", "OUTP", "WAIT", "WACK"} \subseteq GenStates /\ gen.state \in GenStates
      /\ gen.next \in GenStates /\ "UNKNOWN" \in Modes /\ "WR_SPLIT" \in Modes /\ "RD_SPLIT" \in Modes
      /\ "WR_FIFO" \in Modes
  BY <1>1 DEF GenStates, Gens, Modes
<1>10. CASE Start
  <2>1. CASE genFifo # <<>> /\ genFifo[1].cyc
    <3>1. Front.op.adr \in 0..AdrMod-1 /\ Front.op.dat \in 0..AdrMod-1 /\ Front.op.sel \in 0..15
      BY <2>1, FrontIs
    <3>2. header' \in Flags
      BY <1>1, <1>10, <2>1, <3>1 DEF Start, Flags, NoFlags, Front
    <3>3. gen' \in Gens
      <4> HIDE DEF Gens, Modes
      <4> QED
        BY <1>7, <1>9, <1>10, <2>1 DEF Start
    <3> QED
      BY <1>3, <1>4, <1>5, <1>6, <3>2, <3>3
  <2>2. CASE ~(genFifo # <<>> /\ genFifo[1].cyc)
    <3>1. header' \in Flags
      <4>1. header' = [NoFlags EXCEPT !.adrWr = header.adrWr, !.adrRd = header.adrRd]
        BY <1>10, <2>2 DEF Start
      <4>2. header.adrWr \in 0..AdrMod-1 /\ header.adrRd \in 0..AdrMod-1
        BY <1>1 DEF Flags
      <4>3. header' = [wrFifo |-> FALSE, rdFifo |-> FALSE, sel |-> 0, drop |-> FALSE,
                       adrWr |-> header.adrWr, adrRd |-> header.adrRd]
        BY <4>1 DEF NoFlags
      <4> QED
        BY <4>2, <4>3 DEF Flags
    <3>2. gen' \in Gens
      BY <1>7, <1>9, <1>10, <2>2 DEF Start
    <3> QED
      BY <1>3, <1>4, <1>5, <1>6, <3>1, <3>2
  <2> QED
    BY <2>1, <2>2
<1>11. CASE Collect
  <2>1. CASE genFifo = <<>>
    BY <1>1, <1>3, <1>4, <1>5, <1>6, <1>7, <1>9, <1>11, <2>1 DEF Collect
  <2>2. CASE genFifo # <<>> /\ LastOfCycle
    <3>1. header' \in Flags
      BY <1>1, <2>2 DEF LastOfCycle, Flags
    <3>2. gen' \in Gens
      BY <1>7, <1>9, <2>2 DEF LastOfCycle
    <3> QED
      BY <1>3, <1>4, <1>5, <1>6, <3>1, <3>2
  <2>3. ASSUME genFifo # <<>>, WriteOp(Front.op) PROVE header' \in Flags /\ gen' \in Gens
    <3>1. header' \in Flags
      BY <1>1, <2>3 DEF WriteOp, Flags
    <3>2. \A md \in Modes : [PopAndGo("WRITE") EXCEPT !.mode = md] \in Gens
      BY <1>7, <1>9
    <3>3. [WaitAndGo("OUTP") EXCEPT !.mode = "WR_SPLIT"] \in Gens
      BY <1>7, <1>9
    <3>4. PICK md \in Modes, ft \in BOOLEAN :
            gen' = Unless(Front.op, IF ft THEN [PopAndGo("WRITE") EXCEPT !.mode = md]
                                    ELSE [WaitAndGo("OUTP") EXCEPT !.mode = "WR_SPLIT"])
      <4> DEFINE op == Front.op
                 mode == Mode(op.adr = prev.adr, Increments(op.adr, prev.adr), WriteModes)
                 fits == (mode = "WR_FIFO" /\ op.adr = prev.adr)
                         \/ (mode = "WR_NORM" /\ Increments(op.adr, prev.adr))
      <4>1. mode \in Modes /\ fits \in BOOLEAN
        BY <1>8
      <4>2. gen' = Unless(op, IF fits THEN [PopAndGo("WRITE") EXCEPT !.mode = mode]
                              ELSE [WaitAndGo("OUTP") EXCEPT !.mode = "WR_SPLIT"])
        BY <2>3 DEF WriteOp
      <4> HIDE DEF mode, fits
      <4> QED
        BY <4>1, <4>2
    <3> QED
      BY <1>7, <3>1, <3>2, <3>3, <3>4
  <2>4. ASSUME genFifo # <<>>, FirstRead(Front.op) PROVE header' \in Flags /\ gen' \in Gens
    <3>1. Front.op.dat \in 0..AdrMod-1
      BY <2>4, FrontIs
    <3>2. header' \in Flags
      BY <1>1, <2>4, <3>1 DEF FirstRead, Flags
    <3> QED
      BY <1>7, <1>9, <2>4, <3>2 DEF FirstRead
  <2>5. ASSUME genFifo # <<>>, ReadOp(Front.op) PROVE header' \in Flags /\ gen' \in Gens
    <3>1. header' \in Flags
      BY <1>1, <2>5 DEF ReadOp, Flags
    <3>2. \A md \in Modes : [PopAndGo("READ") EXCEPT !.mode = md] \in Gens
      BY <1>7, <1>9
    <3>3. [Go("OUTP") EXCEPT !.mode = "RD_SPLIT"] \in Gens
      BY <1>7, <1>9
    <3>4. PICK md \in Modes, ft \in BOOLEAN :
            gen' = Unless(Front.op, IF ft THEN [PopAndGo("READ") EXCEPT !.mode = md]
                                    ELSE [Go("OUTP") EXCEPT !.mode = "RD_SPLIT"])
      <4> DEFINE op == Front.op
                 mode == Mode(op.dat = prev.dat, Increments(op.dat, prev.dat), ReadModes)
                 fits == /\ mode = "RD_FIFO" => op.dat = prev.dat
                         /\ mode = "RD_NORM" => Increments(op.dat, prev.dat)
                         /\ mode # "RD_SPLIT"
      <4>1. mode \in Modes /\ fits \in BOOLEAN
        BY <1>8
      <4>2. gen' = Unless(op, IF fits THEN [PopAndGo("READ") EXCEPT !.mode = mode]
                              ELSE [Go("OUTP") EXCEPT !.mode = "RD_SPLIT"])
        BY <2>5 DEF ReadOp
      <4> HIDE DEF mode, fits
      <4> QED
        BY <4>1, <4>2
    <3> QED
      BY <1>7, <3>1, <3>2, <3>3, <3>4
  <2>6. ASSUME WriteAfterRead(Front.op) PROVE header' \in Flags /\ gen' \in Gens
    BY <1>1, <1>7, <1>9, <2>6 DEF WriteAfterRead
  <2>7. CASE genFifo # <<>> /\ ~LastOfCycle
    <3>1. \/ WriteOp(Front.op) \/ FirstRead(Front.op) \/ ReadOp(Front.op) \/ WriteAfterRead(Front.op)
      BY <1>11, <2>7 DEF Collect, Front
    <3> QED
      BY <1>3, <1>4, <1>5, <1>6, <2>3, <2>4, <2>5, <2>6, <2>7, <3>1
  <2> QED
    BY <2>1, <2>2, <2>7
<1>12. CASE Deliver
  BY <1>1, <1>3, <1>4, <1>5, <1>6, <1>7, <1>9, <1>12 DEF Deliver
<1> QED
  BY <1>10, <1>11, <1>12 DEF MasterClock, RecordGen

LEMMA FramerTypes ==
  ASSUME MasterTypeOK, HasRecord, NEW in \in Inputs, MasterClock(in)
  PROVE  /\ framer' \in [state : States, ops : Int, count : Nat, send : BOOLEAN]
         /\ base' \in 0..AdrMod-1
         /\ recFifo' \in Seq(Records) /\ Len(recFifo') <= RecDepth
<1>1. framer \in [state : States, ops : Int, count : Nat, send : BOOLEAN]
  BY DEF MasterTypeOK, States
<1>2. recFifo \in Seq(Records) /\ Len(recFifo) <= RecDepth /\ recOut \in Records /\ base \in 0..AdrMod-1
  BY DEF MasterTypeOK
<1>3. recFifo # <<>> => /\ Rec \in Records /\ Rec.flags \in Flags /\ Rec.wr \in Nat /\ Rec.rd \in Nat
                        /\ RecWords \in Nat
  BY RecIs DEF RecWords
<1>4. /\ framer'.state = NextState(in) /\ framer'.ops = NextOps(in) /\ framer'.count = NextCount(in)
      /\ framer'.send = (SendRequest(in) /\ Len(opFifo) = OpDepth)
      /\ framer' = [state |-> NextState(in), ops |-> NextOps(in), count |-> NextCount(in),
                    send |-> SendRequest(in) /\ Len(opFifo) = OpDepth]
  BY DEF MasterClock, Framer
<1>5. NextState(in) \in States
  BY <1>1 DEF NextState, States, Talking, Body, AfterRecord
<1>6. NextOps(in) \in Int
  <2>1. CASE framer.state \in {"WA", "RA"}
    <3>1. recFifo # <<>> /\ Rec.wr - 2 \in Int /\ Rec.rd - 2 \in Int
      BY <1>3, <2>1 DEF HasRecord
    <3> QED
      BY <1>1, <2>1, <3>1 DEF NextOps
  <2>2. CASE framer.state \notin {"WA", "RA"}
    BY <1>1, <2>2 DEF NextOps
  <2> QED
    BY <2>1, <2>2
<1>7. NextCount(in) \in Nat
  <2>1. CASE recFifo # <<>>
    BY <1>1, <1>3, <2>1 DEF NextCount
  <2>2. CASE recFifo = <<>>
    BY <1>1, <2>2 DEF NextCount, HasRecord
  <2> QED
    BY <2>1, <2>2
<1>8. base' \in 0..AdrMod-1
  <2>1. framer.state \in {"WA", "RA"} => Rec.flags.adrWr \in 0..AdrMod-1 /\ Rec.flags.adrRd \in 0..AdrMod-1
    BY <1>3 DEF HasRecord, Flags
  <2>2. (base + 1) % AdrMod \in 0..AdrMod-1
    <3>1. base + 1 \in Int /\ AdrMod \in Nat \ {0}
      BY <1>2, MasterAssumption
    <3> QED
      BY <3>1, ModIs
  <2> QED
    BY <1>2, <2>1, <2>2 DEF MasterClock, Ghosts
<1>9. recFifo' \in Seq(Records) /\ Len(recFifo') <= RecDepth
  <2>1. recFifo' = Queue(recFifo, When(gen.state = "WACK", recOut), framer.state = "LOAD", RecDepth)
    BY DEF MasterClock, Framer, RecFifo
  <2>2. (gen.state = "WACK") \in BOOLEAN /\ (framer.state = "LOAD") \in BOOLEAN
    OBVIOUS
  <2>3. When(gen.state = "WACK", recOut) \in Seq(Records) /\ Len(When(gen.state = "WACK", recOut)) <= 1
    <3> DEFINE p == gen.state = "WACK"
    <3>1. p \in BOOLEAN
      OBVIOUS
    <3> HIDE DEF p
    <3>2. When(p, recOut) \in Seq(Records) /\ Len(When(p, recOut)) = Bit(p)
      BY <1>2, <3>1, WhenIs
    <3>3. Bit(p) <= 1
      BY DEF Bit
    <3> QED
      BY <3>2, <3>3 DEF p
  <2>4. framer.state = "LOAD" => recFifo # <<>>
    BY DEF HasRecord
  <2>5. RecDepth \in Nat
    BY MasterAssumption
  <2> QED
    BY <1>2, <2>1, <2>2, <2>3, <2>4, <2>5, QueueTypes
<1> QED
  BY <1>4, <1>5, <1>6, <1>7, <1>8, <1>9

LEMMA TypesKept ==
  ASSUME Served, MasterTypeOK, HasRecord, ~framer.send, NEW in \in Inputs, MasterClock(in),
         told # <<>> => owed # <<>>, told' # <<>> => Left # <<>>
  PROVE  /\ MasterTypeOK' /\ ~framer'.send
         /\ told' # <<>> => owed' # <<>>
<1>1. Conforms(in) /\ Considerate(in)
  BY DEF MasterClock
<1>2. /\ cycIn' \in BOOLEAN /\ gen' \in Gens
      /\ prev' \in [adr : 0..AdrMod-1, dat : 0..AdrMod-1]
      /\ header' \in Flags /\ recOut' \in Records
      /\ counts' \in [wr : 0..CountMod-1, rd : 0..CountMod-1]
  BY GenTypes
<1>3. /\ genFifo' \in Seq(FifoEntries) /\ Len(genFifo') <= GenDepth
      /\ opFifo' \in Seq(Words) /\ Len(opFifo') <= OpDepth
  BY FifosMove
<1>4. /\ framer' \in [state : States, ops : Int, count : Nat, send : BOOLEAN]
      /\ base' \in 0..AdrMod-1
      /\ recFifo' \in Seq(Records) /\ Len(recFifo') <= RecDepth
  BY FramerTypes
<1>5. ~framer'.send
  BY <1>1, InputIs DEF MasterClock, Framer, SendRequest
<1>6. /\ owed' \in Seq(FifoEntries)
      /\ told' # <<>> => owed' # <<>>
      /\ Len(told') = Bit(told' # <<>>)
  BY LeftMoves, ToldIs
<1>7. flush' \in Nat
  <2>1. flush \in Nat
    BY DEF MasterTypeOK
  <2> DEFINE lo == Len(owed')
             lt == Len(told')
  <2>2. lo \in Nat /\ (lt = 0 \/ (lt = 1 /\ lo >= 1))
    BY <1>6 DEF Bit
  <2> HIDE DEF lo, lt
  <2>3. lo - lt + 1 \in Nat
    BY <2>2
  <2>4. flush' = CASE in.send -> lo - lt + 1
                  [] flush = 1 /\ framer.state = "SEND" -> 0
                  [] flush > 1 /\ told' # <<>> -> flush - 1
                  [] OTHER -> flush
    BY DEF MasterClock, Ghosts, lo, lt
  <2>5. CASE in.send
    <3>1. flush = 0
      BY <1>1, <2>5, InputIs
    <3> QED
      BY <2>3, <2>4, <2>5, <3>1
  <2>6. CASE ~in.send
    BY <2>1, <2>4, <2>6
  <2> QED
    BY <2>5, <2>6
<1>8. asked' \in Seq([op : OpShape, wrote : BOOLEAN])
  <2> DEFINE R == [op : OpShape, wrote : BOOLEAN]
  <2>1. asked \in Seq(R)
    BY DEF MasterTypeOK
  <2>2. in.op \in OpShape /\ in.op.we \in BOOLEAN
    BY <1>1, InputIs
  <2>3. [op |-> in.op, wrote |-> in.op.we \/ (asked # <<>> /\ asked[1].wrote)] \in R
    <3>1. asked # <<>> => asked[1] \in R
      <4> HIDE DEF R
      <4> QED
        BY <2>1
    <3> QED
      BY <2>2, <3>1
  <2>4. asked' = IF ~in.cyc THEN <<>>
                 ELSE IF ~Accepted(in) THEN asked
                 ELSE <<[op |-> in.op, wrote |-> in.op.we \/ (asked # <<>> /\ asked[1].wrote)]>>
    BY DEF MasterClock, Ghosts
  <2> HIDE DEF R
  <2>5. asked' \in Seq(R)
    BY <2>1, <2>3, <2>4, OneEntry
  <2> QED
    BY <2>5 DEF R
<1> QED
  BY <1>2, <1>3, <1>4, <1>5, <1>6, <1>7, <1>8 DEF MasterTypeOK, Gens, Modes, Words, States

----------------------------------------------------------------------------
\* What the framer puts out is what is next

LEMMA CompletedIs ==
  ASSUME MasterTypeOK
  PROVE  /\ Completed \in Seq(Records)
         /\ Len(Completed) = Len(recFifo) + Bit(gen.state = "WACK")
         /\ \A i \in 1..Len(recFifo) : Completed[i] = recFifo[i]
         /\ gen.state = "WACK" => Completed[Len(recFifo)+1] = recOut
         /\ recFifo \in Seq(Records) /\ Len(recFifo) \in Nat
         /\ recFifo # <<>> => Completed # <<>> /\ Completed[1] = Rec /\ Len(recFifo) >= 1
<1>1. recFifo \in Seq(Records) /\ recOut \in Records /\ Len(recFifo) \in Nat
  BY DEF MasterTypeOK
<1> DEFINE p == gen.state = "WACK"
           last == When(p, recOut)
<1>2. p \in BOOLEAN
  OBVIOUS
<1>3. Completed = recFifo \o last
  BY DEF Completed
<1> HIDE DEF p
<1>4. /\ last \in Seq(Records) /\ Len(last) = Bit(p) /\ (p => last[1] = recOut)
  BY <1>1, <1>2, WhenIs
<1> HIDE DEF last
<1>5. /\ Completed \in Seq(Records) /\ Len(Completed) = Len(recFifo) + Bit(p)
      /\ \A i \in 1..Len(recFifo) : Completed[i] = recFifo[i]
  <2>1. /\ Completed \in Seq(Records) /\ Len(Completed) = Len(recFifo) + Len(last)
        /\ \A i \in 1..Len(recFifo) : Completed[i] = recFifo[i]
    BY <1>1, <1>3, <1>4, JoinIs
  <2> QED
    BY <1>4, <2>1
<1>6. ASSUME p PROVE Completed[Len(recFifo)+1] = recOut
  <2> DEFINE n == Len(recFifo) + 1
  <2>1. n \in 1..Len(recFifo)+Len(last) /\ n > Len(recFifo) /\ n - Len(recFifo) = 1
    BY <1>1, <1>4, <1>6 DEF Bit
  <2> HIDE DEF n
  <2>2. Completed[n] = last[n - Len(recFifo)]
    BY <1>1, <1>3, <1>4, <2>1
  <2> QED
    BY <1>4, <1>6, <2>1, <2>2 DEF n
<1>7. ASSUME recFifo # <<>> PROVE Completed # <<>> /\ Completed[1] = Rec /\ Len(recFifo) >= 1
  <2>1. Len(recFifo) >= 1
    BY <1>1, <1>7
  <2> QED
    BY <1>1, <1>5, <2>1 DEF Rec, Bit
<1> QED
  BY <1>1, <1>5, <1>6, <1>7 DEF p

LEMMA SaysOps ==
  ASSUME NEW list \in Seq(FifoEntries), NEW rec \in Records, NEW at \in Int, Says(list, rec, at),
         NEW k \in 1..Len(list), at < k, k <= at + OpsOf(rec)
  PROVE  list[k].cyc
<1>1. rec.wr \in Nat /\ rec.rd \in Nat /\ OpsOf(rec) = rec.wr + rec.rd
  BY SizeIs
<1>2. CASE k <= at + rec.wr
  BY <1>2 DEF Says, SaysWrites
<1>3. CASE k > at + rec.wr
  BY <1>1, <1>3 DEF Says, SaysReads
<1> QED
  BY <1>1, <1>2, <1>3

(* The first record, of which Done operations are out.                     *)
LEMMA FirstRecord ==
  ASSUME MasterTypeOK, Left \in Seq(FifoEntries), NEW cut, NEW at \in Nat, NEW place,
         Going(cut, at, place), recFifo # <<>>
  PROVE  /\ Rec \in Records /\ Rec.wr \in Nat /\ Rec.rd \in Nat
         /\ Done \in Int /\ Says(Left, Rec, 0 - Done)
         /\ 0 < OpsOf(Rec) /\ OpsOf(Rec) = Rec.wr + Rec.rd
         /\ 0 <= SizeOf(Rec) - Done /\ SizeOf(Rec) - Done <= at
         /\ SizeOf(Rec) = OpsOf(Rec) + Bit(Rec.flags.drop) /\ Rec.flags.drop \in BOOLEAN
         /\ at <= Len(Left) /\ Len(Left) \in Nat
         /\ 0 <= Done /\ Done <= OpsOf(Rec)
         /\ framer.state # "LOAD" => Done < OpsOf(Rec)
<1>1. /\ Completed[1] = Rec /\ Completed \in Seq(Records) /\ Completed # <<>> /\ Len(Completed) \in Nat
  BY CompletedIs
<1>2. 1 \in 1..Len(Completed)
  BY <1>1
<1>3. cut \in [1..Len(Completed)+1 -> Int] /\ cut[1] = 0 - Done
  BY DEF Going, Chained
<1>4. /\ OpsOf(Completed[1]) > 0 /\ cut[1+1] = cut[1] + SizeOf(Completed[1])
      /\ 0 <= cut[1+1] /\ cut[1+1] <= at /\ Says(Left, Completed[1], cut[1])
  BY <1>2 DEF Going, Chained
<1>5. /\ Rec \in Records /\ OpsOf(Rec) \in Nat /\ SizeOf(Rec) \in Nat /\ OpsOf(Rec) = Rec.wr + Rec.rd
      /\ SizeOf(Rec) = OpsOf(Rec) + Bit(Rec.flags.drop) /\ Rec.wr \in Nat /\ Rec.rd \in Nat
      /\ Rec.flags.drop \in BOOLEAN
  BY RecIs, SizeIs
<1>6. framer.ops \in Int
  BY DEF MasterTypeOK
<1>7. /\ Done \in Int /\ 0 <= Done /\ Done <= OpsOf(Rec)
      /\ framer.state # "LOAD" => Done < OpsOf(Rec)
  <2> DEFINE ops == framer.ops
             wr == Rec.wr
             rd == Rec.rd
             all == OpsOf(Rec)
             done == Done
  <2>1. /\ framer.state = "WRITE" => -1 <= ops /\ ops <= wr - 2 /\ wr # 0
        /\ framer.state = "READ" => -1 <= ops /\ ops <= rd - 2 /\ rd # 0
        /\ framer.state = "RA" => rd # 0
    BY DEF Going, FramerOrderly
  <2>2. done = CASE framer.state = "WRITE" -> wr - 2 - ops
          [] framer.state = "RA"    -> wr
          [] framer.state = "READ"  -> wr + rd - 2 - ops
          [] framer.state = "LOAD"  -> wr + rd
          [] OTHER                  -> 0
    BY DEF Done
  <2>3. ops \in Int /\ wr \in Nat /\ rd \in Nat /\ all = wr + rd /\ all > 0
    BY <1>1, <1>4, <1>5, <1>6
  <2> HIDE DEF ops, wr, rd, all, done
  <2>4. /\ done \in Int /\ 0 <= done /\ done <= all
        /\ framer.state # "LOAD" => done < all
    <3>1. CASE framer.state = "WRITE"
      <4>1. done = wr - 2 - ops
        BY <2>2, <3>1
      <4> QED
        BY <2>1, <2>3, <3>1, <4>1
    <3>2. CASE framer.state = "RA"
      <4>1. done = wr
        BY <2>2, <3>2
      <4> QED
        BY <2>1, <2>3, <3>2, <4>1
    <3>3. CASE framer.state = "READ"
      <4>1. done = wr + rd - 2 - ops
        BY <2>2, <3>3
      <4> QED
        BY <2>1, <2>3, <3>3, <4>1
    <3>4. CASE framer.state = "LOAD"
      <4>1. done = all
        BY <2>2, <2>3, <3>4
      <4> QED
        BY <2>3, <3>4, <4>1
    <3>5. CASE framer.state \notin {"WRITE", "RA", "READ", "LOAD"}
      <4>1. done = 0
        BY <2>2, <3>5
      <4> QED
        BY <2>3, <4>1
    <3> QED
      BY <3>1, <3>2, <3>3, <3>4, <3>5
  <2> QED
    BY <2>4 DEF all, done
<1>8. at <= Len(Left) /\ Len(Left) \in Nat
  <2>1. Len(Left) = at + SizeOf(Current) + Len(genFifo) /\ Len(genFifo) \in Nat
    BY DEF Going, Held, MasterTypeOK
  <2>2. SizeOf(Current) \in Nat
    BY CurrentIs DEF CurrentFacts
  <2> QED
    BY <2>1, <2>2
<1>9. SizeOf(Rec) - Done = cut[1+1]
  <2>1. cut[1+1] = 0 - Done + SizeOf(Rec)
    BY <1>1, <1>3, <1>4
  <2> QED
    BY <1>5, <1>7, <2>1
<1> QED
  BY <1>1, <1>3, <1>4, <1>5, <1>7, <1>8, <1>9

(* Outside s_LOAD the next entry is an operation.                          *)
LEMMA NotAnEnd ==
  ASSUME MasterTypeOK, Left \in Seq(FifoEntries), NEW cut, NEW at \in Nat, NEW place,
         Going(cut, at, place), framer.state # "LOAD", Left # <<>>
  PROVE  Left[1].cyc
<1>1. 1 \in 1..Len(Left) /\ Len(Left) \in Nat
  OBVIOUS
<1>2. CASE recFifo # <<>>
  <2>1. /\ Rec \in Records /\ Done \in Int /\ Says(Left, Rec, 0 - Done)
        /\ Done < OpsOf(Rec) /\ 0 <= Done
    BY <1>2, FirstRecord
  <2>2. OpsOf(Rec) \in Nat
    BY <2>1, SizeIs
  <2>3. 0 - Done < 1 /\ 1 <= 0 - Done + OpsOf(Rec) /\ 0 - Done \in Int
    BY <2>1, <2>2
  <2> QED
    BY <1>1, <2>1, <2>3, SaysOps
<1>3. CASE recFifo = <<>>
  <2>1. Done = 0
    BY <1>3 DEF Going, FramerOrderly, Done
  <2>2. Len(recFifo) = 0
    BY <1>3
  <2>3. cut[1] = 0
    <3>1. cut[1] = 0 - Done
      BY DEF Going, Chained
    <3> QED
      BY <2>1, <3>1
  <2>4. CASE gen.state = "WACK"
    <3> DEFINE rec == Completed[1]
    <3>1. Len(Completed) = 1 /\ rec \in Records
      <4>1. Completed \in Seq(Records) /\ Len(Completed) = Len(recFifo) + Bit(gen.state = "WACK")
        BY CompletedIs
      <4>2. Len(Completed) = 1
        BY <2>2, <2>4, <4>1 DEF Bit
      <4>3. rec \in Records
        <5>1. 1 \in 1..Len(Completed)
          BY <4>2
        <5> QED
          BY <4>1, <5>1
      <4> QED
        BY <4>2, <4>3
    <3> HIDE DEF rec
    <3>2. OpsOf(rec) > 0 /\ Says(Left, rec, 0)
      BY <2>3, <3>1 DEF Going, Chained, rec
    <3>3. OpsOf(rec) \in Nat
      BY <3>1, SizeIs
    <3>4. 0 < 1 /\ 1 <= 0 + OpsOf(rec)
      BY <3>2, <3>3
    <3> QED
      BY <1>1, <3>1, <3>2, <3>4, SaysOps
  <2>5. CASE gen.state # "WACK"
    <3>1. at = 0
      <4>1. Len(Completed) = 0
        BY <2>2, <2>5, CompletedIs DEF Bit
      <4> QED
        BY <2>3, <4>1 DEF Going, Chained
    <3>2. /\ Current \in Records /\ OpsOf(Current) \in Nat
          /\ OpsOf(Current) = counts.wr + counts.rd /\ counts.wr \in Nat /\ counts.rd \in Nat
          /\ SizeOf(Current) = OpsOf(Current) + Bit(Collecting /\ header.drop /\ ~gen.pop)
      BY CurrentIs DEF CurrentFacts
    <3>3. CASE OpsOf(Current) > 0
      <4>1. Says(Left, Current, 0)
        BY <3>1 DEF Going, Held
      <4>2. 0 < 1 /\ 1 <= 0 + OpsOf(Current)
        BY <3>2, <3>3
      <4> QED
        BY <1>1, <3>2, <4>1, <4>2, SaysOps
    <3>4. CASE OpsOf(Current) = 0
      <4>1. counts.wr = 0 /\ counts.rd = 0
        BY <3>2, <3>4
      <4>2. gen.state \in GenStates /\ gen.pop \in BOOLEAN
        BY DEF MasterTypeOK
      <4>3. ~Is("OUTP")
        BY <3>4 DEF Going, GenEnds
      <4>4. ~(Collecting /\ header.drop /\ ~gen.pop)
        BY <4>2, <4>3 DEF Going, GenOrderly, GenWrites, GenReads, Collecting, Is
      <4>5. SizeOf(Current) = 0
        BY <3>2, <3>4, <4>4 DEF Bit
      <4>6. Len(Left) = Len(genFifo) /\ \A i \in 1..Len(genFifo) : Left[i] = genFifo[i]
        <5>1. Len(Left) = 0 + 0 + Len(genFifo) /\ \A i \in 1..Len(genFifo) : Left[0 + 0 + i] = genFifo[i]
          BY <3>1, <4>5 DEF Going, Held
        <5>2. Len(genFifo) \in Nat
          BY DEF MasterTypeOK
        <5> QED
          BY <5>1, <5>2
      <4>7. Left[1] = Front /\ genFifo # <<>>
        BY <1>1, <4>6 DEF Front
      <4>8. Front.cyc
        BY <2>5, <4>1, <4>2, <4>3, <4>7 DEF Going, GenOrderly, GenWrites, GenReads, Is, GenStates
      <4> QED
        BY <4>7, <4>8
    <3> QED
      BY <3>2, <3>3, <3>4
  <2> QED
    BY <2>4, <2>5
<1> QED
  BY <1>2, <1>3

LEMMA PlacesAre ==
  ASSUME Left \in Seq(FifoEntries), NEW place, Placed(place), NEW k \in 1..Len(Left), Left[k].cyc
  PROVE  /\ place[k] \in 1..Len(opFifo) /\ place[k] \in Int /\ ~opFifo[place[k]].send
         /\ opFifo[place[k]].word = WordOf(Left[k].op)
<1>1. place[k] \in Int
  BY DEF Placed
<1>2. /\ 1 <= place[k] /\ place[k] <= Len(opFifo) /\ ~opFifo[place[k]].send
      /\ opFifo[place[k]].word = WordOf(Left[k].op)
  BY DEF Placed
<1> QED
  BY <1>1, <1>2

(* The word of the next operation is at the front of op_fifo.              *)
LEMMA FrontIsNext ==
  ASSUME MasterTypeOK, Left \in Seq(FifoEntries), NEW place, Placed(place),
         flush # 1, Left # <<>>, Left[1].cyc
  PROVE  /\ opFifo # <<>> /\ ~opFifo[1].send /\ place[1] = 1 /\ ~SendNow
         /\ FrontWord = WordOf(Left[1].op)
<1>1. 1 \in 1..Len(Left) /\ Len(Left) \in Nat
  OBVIOUS
<1>2. opFifo \in Seq(Words) /\ Len(opFifo) \in Nat /\ flush \in Nat
  BY DEF MasterTypeOK, Words
<1>3. place[1] \in 1..Len(opFifo) /\ place[1] \in Int
  BY <1>1, PlacesAre
<1>4. 1 \in 1..Len(opFifo) /\ opFifo # <<>>
  BY <1>2, <1>3
<1>5. ~opFifo[1].send
  <2> SUFFICES ASSUME opFifo[1].send PROVE FALSE
    OBVIOUS
  <2>1. flush # 0 /\ (place[1] < 1 <=> 1 < flush)
    BY <1>1, <1>4 DEF Placed
  <2> QED
    BY <1>2, <1>3, <2>1
<1>6. PICK k \in 1..Len(Left) : Left[k].cyc /\ place[k] = 1
  BY <1>4, <1>5 DEF Placed
<1>7. k = 1
  <2> SUFFICES ASSUME 1 < k PROVE FALSE
    BY <1>1
  <2>1. place[1] < place[k]
    BY <1>1, <1>6 DEF Placed
  <2> QED
    BY <1>3, <1>6, <2>1
<1>8. opFifo[1].word = WordOf(Left[1].op)
  BY <1>1, <1>6, <1>7, PlacesAre
<1> QED
  BY <1>4, <1>5, <1>6, <1>7, <1>8 DEF SendNow, FrontWord

LEMMA ToldIsNext ==
  ASSUME MasterTypeOK, Left \in Seq(FifoEntries), NEW cut, NEW at \in Nat, NEW place,
         Going(cut, at, place), NEW in \in Inputs, MasterClock(in), told' # <<>>
  PROVE  Left # <<>> /\ told'[1] = Left[1] /\ at >= 1
<1>1. told' = Reading(in)
  BY ToldIs
<1>2. recFifo # <<>>
  BY ToldIs DEF Going, FramerOrderly
<1>3. /\ Rec \in Records /\ Rec.wr \in Nat /\ Rec.rd \in Nat
      /\ Done \in Int /\ Says(Left, Rec, 0 - Done)
      /\ 0 < OpsOf(Rec) /\ OpsOf(Rec) = Rec.wr + Rec.rd
      /\ SizeOf(Rec) - Done <= at
      /\ SizeOf(Rec) = OpsOf(Rec) + Bit(Rec.flags.drop) /\ Rec.flags.drop \in BOOLEAN
      /\ at <= Len(Left) /\ Len(Left) \in Nat
      /\ framer.state # "LOAD" => Done < OpsOf(Rec)
  BY <1>2, FirstRecord
<1>4. framer.ops \in Int
  BY DEF MasterTypeOK
<1>5. ASSUME Done < SizeOf(Rec) PROVE Left # <<>> /\ 1 \in 1..Len(Left) /\ at >= 1
  <2>1. at >= 1
    BY <1>3, <1>5 DEF Bit
  <2> QED
    BY <1>3, <2>1
<1>6. CASE framer.state \in {"WRITE", "READ"}
  <2>1. Done < SizeOf(Rec)
    BY <1>3, <1>6 DEF Bit
  <2>2. Left # <<>> /\ 1 \in 1..Len(Left) /\ at >= 1
    BY <1>5, <2>1
  <2>3. Left[1].cyc /\ flush # 1
    BY <1>6, <2>2, NotAnEnd DEF Going, FramerOrderly, FlushOrderly
  <2>4. FrontWord = WordOf(Left[1].op)
    BY <2>2, <2>3, FrontIsNext DEF Going
  <2>5. Left[1] \in FifoEntries
    BY <2>2
  <2>6. /\ Left[1] = Operation(Left[1].op)
        /\ Left[1].op = [we |-> Left[1].op.we, adr |-> Left[1].op.adr,
                         dat |-> Left[1].op.dat, sel |-> Left[1].op.sel]
    BY <2>3, <2>5, EntryIs
  <2> DEFINE ops == framer.ops
             wr == Rec.wr
             rd == Rec.rd
             done == Done
  <2>7. CASE framer.state = "WRITE"
    <3>1. /\ -1 <= ops /\ ops <= wr - 2 /\ base = Rec.flags.adrWr /\ done = wr - 2 - ops
      BY <2>7 DEF Going, FramerOrderly, Done
    <3> HIDE DEF ops, wr, rd, done
    <3>2. 0 - done < 1 /\ 1 <= 0 - done + wr
      BY <1>3, <1>4, <3>1 DEF ops, wr
    <3>3. /\ Left[1].op.we /\ Left[1].op.adr = Rec.flags.adrWr /\ Left[1].op.sel = Rec.flags.sel
      BY <1>3, <2>2, <3>2 DEF Says, SaysWrites, wr, done
    <3>4. FrontWord = Left[1].op.dat
      BY <2>4, <3>3 DEF WordOf
    <3>5. told' = <<Operation([we |-> TRUE, adr |-> base, dat |-> FrontWord, sel |-> Rec.flags.sel])>>
      BY <1>1, <2>7, ToldIs DEF Reading
    <3>6. [we |-> TRUE, adr |-> base, dat |-> FrontWord, sel |-> Rec.flags.sel] = Left[1].op
      <4>1. Left[1].op.we = TRUE
        BY <2>5, <3>3, EntryIs
      <4> QED
        BY <2>6, <3>1, <3>3, <3>4, <4>1
    <3> QED
      BY <2>2, <2>6, <3>5, <3>6
  <2>8. CASE framer.state = "READ"
    <3>1. /\ -1 <= ops /\ ops <= rd - 2 /\ base = Left[1].op.dat /\ done = wr + rd - 2 - ops
      BY <2>8 DEF Going, FramerOrderly, Done
    <3> HIDE DEF ops, wr, rd, done
    <3>2. 0 - done + wr < 1 /\ 1 <= 0 - done + wr + rd
      <4>1. ops \in Int /\ wr \in Nat /\ rd \in Nat
        BY <1>3, <1>4 DEF ops, wr, rd
      <4> QED
        BY <3>1, <4>1
    <3>3. ~Left[1].op.we /\ Left[1].op.sel = Rec.flags.sel
      BY <1>3, <2>2, <3>2 DEF Says, SaysReads, wr, rd, done
    <3>4. FrontWord = Left[1].op.adr
      BY <2>4, <3>3 DEF WordOf
    <3>5. told' = <<Operation([we |-> FALSE, adr |-> FrontWord, dat |-> base, sel |-> Rec.flags.sel])>>
      BY <1>1, <2>8, ToldIs DEF Reading
    <3>6. [we |-> FALSE, adr |-> FrontWord, dat |-> base, sel |-> Rec.flags.sel] = Left[1].op
      <4>1. Left[1].op.we = FALSE
        BY <2>5, <3>3, EntryIs
      <4> QED
        BY <2>6, <3>1, <3>3, <3>4, <4>1
    <3> QED
      BY <2>2, <2>6, <3>5, <3>6
  <2> QED
    BY <1>6, <2>7, <2>8
<1>7. CASE framer.state = "LOAD" /\ Rec.flags.drop
  <2>1. Done = Rec.wr + Rec.rd
    BY <1>7 DEF Done
  <2>2. SizeOf(Rec) = OpsOf(Rec) + 1
    BY <1>3, <1>7 DEF Bit
  <2>3. Left # <<>> /\ 1 \in 1..Len(Left) /\ at >= 1
    BY <1>3, <1>5, <2>1, <2>2
  <2>4. 1 = 0 - Done + Rec.wr + Rec.rd + 1
    BY <1>3, <2>1
  <2>5. Left[1] = End
    BY <1>3, <1>7, <2>3, <2>4 DEF Says, SaysEnd
  <2>6. told' = <<End>>
    BY <1>1, <1>7 DEF Reading
  <2> QED
    BY <2>3, <2>5, <2>6
<1> QED
  BY <1>6, <1>7, ToldIs

----------------------------------------------------------------------------
\* The record generator in one period

GenGoes(at) == Held(at) /\ GenOrderly /\ GenWrites /\ GenReads(at) /\ GenEnds

(* A period, before which the invariant holds; b is what becomes of `at'   *)
(* when an entry is told.                                                  *)
Stepping(in, cut, at, place, b) ==
  /\ Served /\ MasterTypeOK /\ MasterTypeOK'
  /\ MasterClock(in) /\ Going(cut, at, place)
  /\ Left \in Seq(FifoEntries) /\ Left' \in Seq(FifoEntries)
  /\ Shifts(Left, Left', Bit(told' # <<>>), Added(in))
  /\ b = at - Bit(told' # <<>>)

(* The operation that is popped makes a counter come round to 0.           *)
Wraps == gen.pop /\ Front.cyc /\ IF Front.op.we THEN counts.wr = CountMod - 1
                                 ELSE counts.rd = CountMod - 1

LEMMA HeldOn ==
  ASSUME NEW in \in Inputs, NEW cut, NEW at \in Nat, NEW place, NEW b \in Nat,
         Stepping(in, cut, at, place, b)
  PROVE  /\ GenPop = gen.pop /\ gen.pop \in BOOLEAN
         /\ Len(Left') = b + (SizeOf(Current) + Bit(gen.pop)) + Len(genFifo')
         /\ \A i \in 1..Len(genFifo') :
              Left'[b + (SizeOf(Current) + Bit(gen.pop)) + i] = genFifo'[i]
         /\ Says(Left', Current, b)
         /\ genFifo # <<>> => /\ b + SizeOf(Current) + 1 \in 1..Len(Left')
                              /\ Left'[b + SizeOf(Current) + 1] = Front
         /\ genFifo # <<>> /\ ~gen.pop => genFifo' # <<>> /\ Front' = Front
         /\ OpsOf(Current) > 0 => /\ Left'[b + OpsOf(Current)] = Taken(at)
                                  /\ b + OpsOf(Current) \in 1..Len(Left')
         /\ genFifo = <<>> /\ SizeOf(Current) = 0 /\ genFifo' # <<>> => Front'.cyc
<1> DEFINE goes == told' # <<>>
           n == Bit(goes)
           m == Bit(gen.pop)
           la == Len(Added(in))
           size == SizeOf(Current)
           ops == OpsOf(Current)
<1>1. /\ Served /\ MasterTypeOK /\ MasterClock(in) /\ Going(cut, at, place)
      /\ Left \in Seq(FifoEntries) /\ Left' \in Seq(FifoEntries)
      /\ Shifts(Left, Left', n, Added(in)) /\ b = at - n
  BY DEF Stepping
<1>2. genFifo \in Seq(FifoEntries) /\ Len(genFifo) \in Nat /\ gen.pop \in BOOLEAN
  BY <1>1 DEF MasterTypeOK
<1>3. GenPop = gen.pop
  BY <1>1, <1>2 DEF Going, GenOrderly, GenPop
<1>4. ~framer.send /\ Conforms(in) /\ Considerate(in)
  BY <1>1 DEF Going, FramerOrderly, MasterClock
<1>5. genFifo' \in Seq(FifoEntries) /\ Shifts(genFifo, genFifo', m, Added(in))
  BY <1>1, <1>3, <1>4, FifosMove
<1>6. n \in {0, 1} /\ m \in {0, 1} /\ n \in Nat /\ m \in Nat
  BY DEF Bit
<1>7. la \in {0, 1} /\ la \in Nat
  BY <1>1, <1>4, AddedIs, ZeroOrOne
<1>8. /\ size \in Nat /\ ops \in Nat /\ ops <= size /\ Current \in Records
  BY <1>1, CurrentIs, SizeIs DEF Bit, CurrentFacts
<1>9. /\ Len(Left) = at + size + Len(genFifo)
      /\ \A i \in 1..Len(genFifo) : Left[at + size + i] = genFifo[i]
      /\ Says(Left, Current, at)
  BY <1>1 DEF Going, Held
<1>10. m <= Len(genFifo)
  <2>1. gen.pop => genFifo # <<>>
    BY <1>1 DEF Going, GenOrderly
  <2> QED
    BY <1>2, <2>1 DEF Bit
<1>11. n <= at
  BY <1>1, <1>6
<1> HIDE DEF n, m, la, size, ops
<1>12. /\ Len(Left') = b + (size + m) + Len(genFifo')
       /\ \A i \in 1..Len(genFifo') : Left'[b + (size + m) + i] = genFifo'[i]
  <2>1. Len(Added(in)) \in Nat /\ Len(Added(in)) <= 1 /\ n <= 1 /\ m <= 1
    BY <1>6, <1>7, ZeroOrOne DEF la
  <2>2. GoesOn(Left, at, size, genFifo)
    BY <1>9 DEF GoesOn
  <2>3. GoesOn(Left', at - n, size + m, genFifo')
    BY <1>1, <1>2, <1>5, <1>6, <1>8, <1>10, <1>11, <2>1, <2>2, HeldMoves
  <2> QED
    BY <1>1, <2>3 DEF GoesOn
<1>13. Says(Left', Current, b)
  <2>1. at + SizeOf(Current) <= Len(Left) /\ at \in Int
    BY <1>2, <1>8, <1>9 DEF size
  <2>2. Len(Added(in)) \in Nat
    BY <1>7 DEF la
  <2>3. Says(Left', Current, at - n)
    BY <1>1, <1>6, <1>8, <1>9, <2>1, <2>2, SaysMoves
  <2> QED
    BY <1>1, <2>3
<1>14. \A i \in 1..Len(Left)-n : Left'[i] = Left[i+n]
  BY <1>1 DEF Shifts
<1> DEFINE ll == Len(Left)
           lm == Len(Left')
           lf == Len(genFifo)
           lg == Len(genFifo')
<1>15. /\ ll \in Nat /\ lm \in Nat /\ lf \in Nat /\ lg \in Nat
       /\ ll = at + size + lf /\ lm = b + (size + m) + lg /\ lm = ll - n + la /\ lg = lf - m + la
  BY <1>1, <1>2, <1>5, <1>9, <1>12 DEF Shifts, la
<1>16. \A i \in 1..ll-n : Left'[i] = Left[i+n]
  BY <1>14
<1> HIDE DEF ll, lm, lf, lg
<1>17. ASSUME genFifo # <<>>
       PROVE  b + size + 1 \in 1..lm /\ Left'[b + size + 1] = Front
  <2>1. lf >= 1
    BY <1>2, <1>17 DEF lf
  <2>2. b + size + 1 \in 1..ll-n /\ b + size + 1 + n = at + size + 1 /\ b + size + 1 \in 1..lm
    BY <1>1, <1>6, <1>7, <1>8, <1>15, <2>1
  <2>3. Left[at + size + 1] = genFifo[1]
    BY <1>9, <1>15, <2>1 DEF lf
  <2> QED
    BY <1>16, <2>2, <2>3 DEF Front
<1>18. ASSUME genFifo # <<>>, ~gen.pop
       PROVE  genFifo' # <<>> /\ Front' = Front
  <2>1. lf >= 1
    BY <1>2, <1>18 DEF lf
  <2>2. m = 0
    BY <1>18 DEF m, Bit
  <2>3. lg >= 1 /\ 1 \in 1..lf-m
    BY <1>7, <1>15, <2>1, <2>2
  <2>4. genFifo'[1] = genFifo[1]
    <3>1. genFifo'[1] = genFifo[1+m]
      BY <1>5, <2>3 DEF Shifts, lf
    <3> QED
      BY <2>2, <3>1
  <2> QED
    BY <1>5, <2>3, <2>4 DEF Front, lg
<1>19. ASSUME ops > 0
       PROVE  Left'[b + ops] = Taken(at) /\ b + ops \in 1..lm
  <2>1. b + ops \in 1..ll-n /\ b + ops + n = at + ops /\ b + ops \in 1..lm
    BY <1>1, <1>6, <1>7, <1>8, <1>15, <1>19
  <2> QED
    BY <1>16, <2>1 DEF Taken, ops
<1>20. ASSUME genFifo = <<>>, size = 0, genFifo' # <<>>
       PROVE  Front'.cyc
  <2>1. lf = 0 /\ ll = at /\ lg >= 1
    BY <1>1, <1>5, <1>8, <1>15, <1>20 DEF lf, lg
  <2>2. m = 0
    BY <1>6, <1>10, <2>1 DEF lf
  <2>3. la = 1 /\ lf - m + 1 = 1
    BY <1>7, <1>15, <2>1, <2>2
  <2>4. genFifo'[1] = Added(in)[1]
    <3>1. genFifo'[lf - m + 1] = Added(in)[1]
      BY <1>5, <2>3 DEF Shifts, la, lf
    <3> QED
      BY <2>3, <3>1
  <2>5. ~Falls(in)
    <3> SUFFICES ASSUME Falls(in) PROVE FALSE
      OBVIOUS
    <3>1. asked # <<>>
      BY <1>1, <1>4, InputIs
    <3>2. Len(Left) > at
      BY <1>1, <3>1 DEF Going, Cycles
    <3> QED
      BY <1>15, <2>1, <3>2 DEF ll
  <2>6. Accepted(in)
    <3>1. la = Bit(Accepted(in) \/ Falls(in))
      BY <1>1, <1>4, AddedIs DEF la
    <3> QED
      BY <2>3, <2>5, <3>1 DEF Bit
  <2>7. Added(in)[1] = Operation(in.op)
    BY <1>1, <1>4, <2>6, AddedIs
  <2> QED
    BY <2>4, <2>7 DEF Front, Operation
<1> QED
  BY <1>2, <1>3, <1>12, <1>13, <1>17, <1>18, <1>19, <1>20 DEF m, size, ops, lm

(* The first operation behind a record in which there are some already.    *)
LEMMA BehindRecord ==
  ASSUME MasterTypeOK, Left \in Seq(FifoEntries), NEW cut, NEW at \in Nat, NEW place,
         Going(cut, at, place), SizeOf(Current) = OpsOf(Current), OpsOf(Current) > 0,
         genFifo # <<>>, Front.cyc
  PROVE  /\ Front.op.sel = header.sel
         /\ counts.wr # 0 /\ counts.rd # 0 /\ ~Front.op.we =>
              Increments(Front.op.dat, Taken(at).op.dat)
<1> DEFINE ops == OpsOf(Current)
           ll == Len(Left)
           lf == Len(genFifo)
           k == at + ops
           wr == counts.wr
           rd == counts.rd
<1>1. /\ ops \in Nat /\ Current \in Records /\ Current.flags.sel = header.sel
      /\ ops = wr + rd /\ wr \in Nat /\ rd \in Nat
      /\ Current.wr = wr /\ Current.rd = rd
  BY CurrentIs DEF CurrentFacts
<1>2. /\ ll = at + ops + lf /\ Left[at + ops + 1] = Front /\ Says(Left, Current, at)
      /\ lf >= 1 /\ lf \in Nat /\ ll \in Nat
  <2>1. lf \in Nat /\ lf >= 1
    BY FrontIs
  <2> QED
    BY <2>1 DEF Going, Held, Front
<1> HIDE DEF ops, ll, lf, wr, rd
<1>3. /\ k \in 1..ll /\ k \in 1..ll-1 /\ at < k /\ k <= at + ops
  BY <1>1, <1>2 DEF ops
<1>4. Behind(Left, k)
  BY <1>3 DEF Going, Cycles, ll
<1>5. Left[k].cyc
  BY <1>1, <1>2, <1>3, SaysOps DEF ops, ll
<1>6. Left[k].op.sel = header.sel
  <2>1. CASE k <= at + wr
    BY <1>1, <1>2, <1>3, <2>1 DEF Says, SaysWrites, ll
  <2>2. CASE k > at + wr
    BY <1>1, <1>2, <1>3, <2>2 DEF Says, SaysReads, ll
  <2> QED
    BY <1>1, <1>3, <2>1, <2>2
<1>7. Left[k+1] = Front
  BY <1>2
<1>8. Left[k].op.sel = Front.op.sel
  BY <1>4, <1>5, <1>7 DEF Behind
<1>9. ASSUME wr # 0, rd # 0, ~Front.op.we
      PROVE  Increments(Front.op.dat, Taken(at).op.dat)
  <2>1. k > at + wr
    BY <1>1, <1>9
  <2>2. ~Left[k].op.we
    <3>1. at + Current.wr < k /\ k <= at + Current.wr + Current.rd
      BY <1>1, <1>3, <2>1
    <3> QED
      BY <1>2, <1>3, <3>1 DEF Says, SaysReads, ll
  <2>3. at + 1 \in 1..ll /\ at + 1 \in 1..k /\ at < at + 1 /\ at + 1 <= at + wr
    <3>1. wr >= 1 /\ at + 1 <= at + wr /\ at + wr <= k /\ k <= ll
      BY <1>1, <1>2, <1>3, <1>9
    <3>2. at + 1 \in Nat /\ k \in Nat /\ at + 1 <= k
      BY <1>1, <3>1
    <3> QED
      BY <1>2, <3>1, <3>2
  <2>4. Left[at+1].op.we
    BY <1>1, <1>2, <2>3 DEF Says, SaysWrites, ll
  <2>5. \A j \in at+1..k : Left[j].cyc
    <3> SUFFICES ASSUME NEW j \in at+1..k PROVE Left[j].cyc
      OBVIOUS
    <3>1. j \in 1..ll /\ at < j /\ j <= at + ops
      BY <1>1, <1>2, <1>3
    <3> QED
      BY <1>1, <1>2, <3>1, SaysOps DEF ops, ll
  <2>6. Increments(Left[k+1].op.dat, Left[k].op.dat)
    BY <1>4, <1>5, <1>7, <1>9, <2>2, <2>3, <2>4, <2>5 DEF Behind
  <2> QED
    BY <1>7, <2>6 DEF Taken, ops
<1> QED
  BY <1>6, <1>8, <1>9 DEF wr, rd

LEMMA RegistersAre ==
  ASSUME NEW in \in Inputs, MasterClock(in)
  PROVE  /\ genFifo # <<>> => prev' = [adr |-> Front.op.adr, dat |-> Front.op.dat]
         /\ genFifo = <<>> => prev' = prev
         /\ gen.state # "OUTP" => recOut' = recOut
         /\ gen.state # "OUTP" /\ ~GenPop => counts' = counts
         /\ gen.state # "OUTP" /\ ~Front.cyc => counts' = counts
         /\ gen.state # "OUTP" /\ GenPop /\ Front.cyc /\ Front.op.we =>
              counts' = [counts EXCEPT !.wr = (counts.wr + 1) % CountMod]
         /\ gen.state # "OUTP" /\ GenPop /\ Front.cyc /\ ~Front.op.we =>
              counts' = [counts EXCEPT !.rd = (counts.rd + 1) % CountMod]
         /\ gen.state = "OUTP" => counts'.wr = 0 /\ counts'.rd = 0
         /\ gen.state = "OUTP" => recOut' = [flags |-> header, wr |-> counts.wr, rd |-> counts.rd]
         /\ gen.state = "START" => Start
         /\ gen.state \in {"WRITE", "READ"} => Collect
         /\ gen.state \in {"WAIT", "OUTP", "WACK"} => Deliver
<1>1. Registers /\ (Start \/ Collect \/ Deliver)
  BY DEF MasterClock, RecordGen
<1>2. /\ gen.state = "START" => Start
      /\ gen.state \in {"WRITE", "READ"} => Collect
      /\ gen.state \in {"WAIT", "OUTP", "WACK"} => Deliver
  BY <1>1 DEF Start, Collect, Deliver
<1> QED
  BY <1>1, <1>2 DEF Registers, Front

(* Nothing is popped, and the record says of what it has what it said.     *)
LEMMA HeldSame ==
  ASSUME NEW in \in Inputs, NEW cut, NEW at \in Nat, NEW place, NEW b \in Nat,
         Stepping(in, cut, at, place, b),
         ~gen.pop, counts' = counts, ~Current.flags.drop,
         ~(Collecting' /\ header'.drop /\ ~gen'.pop),
         counts.wr # 0 \/ counts.rd # 0 => header'.sel = header.sel,
         counts.wr # 0 => header'.adrWr = header.adrWr /\ header'.wrFifo,
         counts.rd # 0 => header'.adrRd = header.adrRd /\ header'.rdFifo = header.rdFifo
  PROVE  Held(b)' /\ OpsOf(Current)' = OpsOf(Current)
<1>1. MasterTypeOK /\ MasterTypeOK' /\ Left' \in Seq(FifoEntries)
  BY DEF Stepping
<1>2. /\ Current \in Records
      /\ Current.wr = counts.wr /\ Current.rd = counts.rd
      /\ Current.flags.sel = header.sel /\ Current.flags.adrWr = header.adrWr
      /\ Current.flags.adrRd = header.adrRd /\ Current.flags.rdFifo = header.rdFifo
      /\ OpsOf(Current) = counts.wr + counts.rd /\ OpsOf(Current) \in Nat
  BY <1>1, CurrentIs DEF CurrentFacts
<1>3. /\ Current' \in Records
      /\ Current'.wr = counts.wr /\ Current'.rd = counts.rd
      /\ Current'.flags.drop = (Collecting' /\ header'.drop /\ ~gen'.pop)
      /\ Current'.flags.sel = header'.sel /\ Current'.flags.adrWr = header'.adrWr
      /\ Current'.flags.adrRd = header'.adrRd /\ Current'.flags.wrFifo = header'.wrFifo
      /\ Current'.flags.rdFifo = header'.rdFifo
      /\ OpsOf(Current)' = counts.wr + counts.rd
      /\ SizeOf(Current)' = OpsOf(Current)' + Bit(Collecting' /\ header'.drop /\ ~gen'.pop)
  <2>2. /\ Current' \in Records
        /\ Current'.wr = counts'.wr /\ Current'.rd = counts'.rd
        /\ Current'.flags.drop = (Collecting' /\ header'.drop /\ ~gen'.pop)
        /\ Current'.flags.sel = header'.sel /\ Current'.flags.adrWr = header'.adrWr
        /\ Current'.flags.adrRd = header'.adrRd /\ Current'.flags.wrFifo = header'.wrFifo
        /\ Current'.flags.rdFifo = header'.rdFifo
        /\ OpsOf(Current)' = counts'.wr + counts'.rd
        /\ SizeOf(Current)' = OpsOf(Current)' + Bit(Collecting' /\ header'.drop /\ ~gen'.pop)
    BY <1>1, CurrentIsNext DEF CurrentFacts
  <2> QED
    BY <2>2
<1>4. SizeOf(Current) = OpsOf(Current) /\ SizeOf(Current)' = OpsOf(Current)
  BY <1>2, <1>3, SizeIs DEF Bit
<1>5. /\ Len(Left') = b + (SizeOf(Current) + Bit(gen.pop)) + Len(genFifo')
      /\ \A i \in 1..Len(genFifo') : Left'[b + (SizeOf(Current) + Bit(gen.pop)) + i] = genFifo'[i]
      /\ Says(Left', Current, b)
  BY HeldOn
<1>6. SizeOf(Current) + Bit(gen.pop) = SizeOf(Current)'
  BY <1>2, <1>4 DEF Bit
<1>7. Says(Left', Current', b)
  <2> DEFINE rec == Current
             rec2 == Current'
             list == Left'
  <2>1. /\ list \in Seq(FifoEntries) /\ rec \in Records /\ rec2 \in Records /\ b \in Int
        /\ Says(list, rec, b)
        /\ rec2.wr = rec.wr /\ rec2.rd = rec.rd /\ ~rec2.flags.drop
        /\ rec.wr # 0 \/ rec.rd # 0 => rec2.flags.sel = rec.flags.sel
        /\ rec.wr # 0 => rec2.flags.adrWr = rec.flags.adrWr /\ rec2.flags.wrFifo
        /\ rec.rd # 0 => /\ rec2.flags.adrRd = rec.flags.adrRd
                         /\ rec2.flags.rdFifo = rec.flags.rdFifo
    <3>1. ~rec2.flags.drop
      BY <1>3
    <3>2. Says(list, rec, b) /\ b \in Int
      BY <1>5
    <3> QED
      BY <1>1, <1>2, <1>3, <3>1, <3>2
  <2> HIDE DEF rec, rec2, list
  <2>2. Says(list, rec2, b)
    BY <2>1, SaysSame
  <2> QED
    BY <2>2 DEF rec2, list
<1> QED
  BY <1>2, <1>3, <1>5, <1>6, <1>7 DEF Held

(* What is popped goes into the record.                                    *)
LEMMA HeldMore ==
  ASSUME NEW in \in Inputs, NEW cut, NEW at \in Nat, NEW place, NEW b \in Nat,
         Stepping(in, cut, at, place, b), gen.state = "WAIT", gen.pop, ~Wraps
  PROVE  /\ Held(b)'
         /\ gen'.state = gen.next /\ gen'.mode = gen.mode /\ ~gen'.pop /\ header' = header
         /\ Front.cyc => OpsOf(Current)' = OpsOf(Current) + 1
         /\ ~Front.cyc => counts' = counts /\ OpsOf(Current)' = OpsOf(Current)
         /\ Front.cyc /\ Front.op.we => counts'.wr = counts.wr + 1 /\ counts'.rd = counts.rd
         /\ Front.cyc /\ ~Front.op.we => counts'.wr = counts.wr /\ counts'.rd = counts.rd + 1
         /\ Taken(b)' = Left'[b + OpsOf(Current)']
<1> DEFINE list == Left'
           rec == Current
           ops == OpsOf(Current)
           k == b + ops + 1
           new == Current'
<1>1. /\ MasterTypeOK /\ MasterTypeOK' /\ list \in Seq(FifoEntries) /\ Going(cut, at, place)
      /\ MasterClock(in)
  BY DEF Stepping
<1>2. /\ Current \in Records /\ Current.wr = counts.wr /\ Current.rd = counts.rd
      /\ Current.flags.drop = (Collecting /\ header.drop /\ ~gen.pop)
      /\ Current.flags.sel = header.sel /\ Current.flags.adrWr = header.adrWr
      /\ Current.flags.adrRd = header.adrRd /\ Current.flags.wrFifo = header.wrFifo
      /\ Current.flags.rdFifo = header.rdFifo
      /\ ops = counts.wr + counts.rd /\ counts.wr \in Nat /\ counts.rd \in Nat
      /\ counts.wr < CountMod /\ counts.rd < CountMod /\ ops \in Nat
      /\ SizeOf(Current) = ops + Bit(Collecting /\ header.drop /\ ~gen.pop)
  BY <1>1, CurrentIs DEF CurrentFacts
<1>3. ~Current.flags.drop /\ SizeOf(Current) = ops
  <2>1. ~Current.flags.drop
    BY <1>2
  <2> QED
    BY <1>2, <2>1, SizeIs DEF Bit
<1>4. /\ GenPop /\ Len(list) = b + (SizeOf(Current) + Bit(gen.pop)) + Len(genFifo')
      /\ \A i \in 1..Len(genFifo') : list[b + (SizeOf(Current) + Bit(gen.pop)) + i] = genFifo'[i]
      /\ Says(list, Current, b)
      /\ genFifo # <<>> => b + SizeOf(Current) + 1 \in 1..Len(list) /\ list[b + SizeOf(Current) + 1] = Front
      /\ ops > 0 => list[b + ops] = Taken(at)
  BY HeldOn
<1>5. genFifo # <<>> /\ (Front.cyc <=> gen.next # "OUTP") /\ gen.next \in {"WRITE", "READ", "OUTP"}
  BY <1>1 DEF Going, GenOrderly
<1>6. k \in 1..Len(list) /\ list[k] = Front
  BY <1>3, <1>4, <1>5
<1>7. Len(list) = b + (ops + 1) + Len(genFifo')
      /\ \A i \in 1..Len(genFifo') : list[b + (ops + 1) + i] = genFifo'[i]
  BY <1>2, <1>3, <1>4 DEF Bit
<1>8. /\ gen'.state = gen.next /\ gen'.mode = gen.mode /\ gen'.pop = FALSE /\ header' = header
  BY <1>1, RegistersAre DEF Deliver, Go, MasterTypeOK
<1>9. Taken(b)' = list[b + OpsOf(Current)']
  BY DEF Taken
<1>10. header.drop \in BOOLEAN /\ header \in Flags /\ Collecting' /\ CountMod \in Nat
       /\ Front.cyc \in BOOLEAN /\ Front.op.we \in BOOLEAN
  BY <1>1, <1>5, <1>8, FrontIs, MasterAssumption DEF MasterTypeOK, Flags, Collecting
<1>11. /\ new = [flags |-> [header EXCEPT !.drop = header.drop], wr |-> counts'.wr, rd |-> counts'.rd]
       /\ Current = [flags |-> [header EXCEPT !.drop = FALSE], wr |-> counts.wr, rd |-> counts.rd]
       /\ SizeOf(new) = OpsOf(new) + Bit(header.drop) /\ OpsOf(new) = counts'.wr + counts'.rd
  <2>1. (Collecting' /\ header'.drop /\ ~gen'.pop) = header.drop
    BY <1>8, <1>10
  <2>2. new = [flags |-> [header' EXCEPT !.drop = (Collecting' /\ header'.drop /\ ~gen'.pop)],
               wr |-> counts'.wr, rd |-> counts'.rd]
    BY DEF Current
  <2>3. (Collecting /\ header.drop /\ ~gen.pop) = FALSE
    OBVIOUS
  <2>4. Current = [flags |-> [header EXCEPT !.drop = FALSE], wr |-> counts.wr, rd |-> counts.rd]
    BY <2>3 DEF Current
  <2>5. SizeOf(new) = OpsOf(new) + Bit(header.drop) /\ OpsOf(new) = counts'.wr + counts'.rd
    BY <1>1, <2>1, CurrentIsNext DEF CurrentFacts
  <2> QED
    BY <1>8, <2>1, <2>2, <2>4, <2>5
<1> HIDE DEF list, rec, new, ops
<1>12. b \in Int /\ b + ops + 1 = b + Current.wr + Current.rd + 1 /\ k = b + Current.wr + Current.rd + 1
  BY <1>2
<1>13. CASE Front.cyc /\ Front.op.we
  <2>1. gen.next = "WRITE"
    BY <1>1, <1>5, <1>13 DEF Going, GenReads, Is
  <2>2. /\ Front.op.adr = header.adrWr /\ Front.op.sel = header.sel
        /\ header.wrFifo /\ counts.rd = 0 /\ ~header.drop
    BY <1>1, <2>1 DEF Going, GenWrites, Is
  <2>3. counts'.wr = counts.wr + 1 /\ counts'.rd = counts.rd
    <3>1. counts' = [counts EXCEPT !.wr = (counts.wr + 1) % CountMod]
      BY <1>1, <1>4, <1>13, RegistersAre
    <3>2. counts.wr # CountMod - 1
      BY <1>13 DEF Wraps
    <3>3. (counts.wr + 1) % CountMod = counts.wr + 1
      <4>1. counts.wr + 1 \in Nat /\ counts.wr + 1 < CountMod
        BY <1>2, <1>10, <3>2
      <4> QED
        BY <1>10, <4>1, ModSmall
    <3> QED
      BY <1>1, <3>1, <3>3 DEF MasterTypeOK
  <2>4. new.flags = Current.flags /\ new.wr = Current.wr + 1 /\ new.rd = Current.rd
    <3>1. header.drop = FALSE
      BY <1>10, <2>2
    <3> QED
      BY <1>2, <1>11, <2>3, <3>1
  <2>5. Says(list, new, b)
    <3>1. /\ k \in 1..Len(list) /\ k = b + Current.wr + Current.rd + 1
          /\ list[k].cyc /\ list[k].op.we /\ Current.rd = 0 /\ Current.flags.wrFifo
          /\ list[k].op.adr = Current.flags.adrWr /\ list[k].op.sel = Current.flags.sel
      BY <1>2, <1>6, <1>12, <1>13, <2>2
    <3>2. Current \in Records /\ ~Current.flags.drop /\ Says(list, Current, b)
      BY <1>2, <1>3, <1>4
    <3> HIDE DEF k
    <3> QED
      BY <1>1, <2>4, <3>1, <3>2, SaysWriteMore
  <2>6. OpsOf(new) = ops + 1 /\ SizeOf(new) = ops + 1
    BY <1>2, <1>11, <2>2, <2>3 DEF Bit
  <2>7. Held(b)'
    BY <1>7, <2>5, <2>6 DEF Held, list, new
  <2> QED
    BY <1>8, <1>9, <1>13, <2>3, <2>6, <2>7 DEF new, list, ops
<1>14. CASE Front.cyc /\ ~Front.op.we
  <2>1. gen.next = "READ"
    BY <1>1, <1>5, <1>14 DEF Going, GenWrites, Is
  <2>2. /\ Front.op.sel = header.sel /\ ~header.drop
        /\ counts.rd = 0 => Front.op.dat = header.adrRd
        /\ counts.rd # 0 => Follows(Current, Front.op.dat, Taken(at).op.dat)
    BY <1>1, <2>1 DEF Going, GenReads, Is
  <2>3. counts'.wr = counts.wr /\ counts'.rd = counts.rd + 1
    <3>1. counts' = [counts EXCEPT !.rd = (counts.rd + 1) % CountMod]
      BY <1>1, <1>4, <1>14, RegistersAre
    <3>2. counts.rd # CountMod - 1
      BY <1>14 DEF Wraps
    <3>3. (counts.rd + 1) % CountMod = counts.rd + 1
      <4>1. counts.rd + 1 \in Nat /\ counts.rd + 1 < CountMod
        BY <1>2, <1>10, <3>2
      <4> QED
        BY <1>10, <4>1, ModSmall
    <3> QED
      BY <1>1, <3>1, <3>3 DEF MasterTypeOK
  <2>4. new.flags = Current.flags /\ new.wr = Current.wr /\ new.rd = Current.rd + 1
    <3>1. header.drop = FALSE
      BY <1>10, <2>2
    <3> QED
      BY <1>2, <1>11, <2>3, <3>1
  <2>5. counts.rd # 0 => list[k-1] = Taken(at)
    <3>1. k - 1 = b + ops /\ (counts.rd # 0 => ops > 0)
      BY <1>2
    <3> QED
      BY <1>4, <3>1
  <2>6. Says(list, new, b)
    <3>1. /\ k \in 1..Len(list) /\ k = b + Current.wr + Current.rd + 1
          /\ list[k].cyc /\ ~list[k].op.we /\ list[k].op.sel = Current.flags.sel
      BY <1>2, <1>6, <1>12, <1>14, <2>2
    <3>2. /\ Current.rd = 0 => list[k].op.dat = Current.flags.adrRd
          /\ Current.rd # 0 => Follows(Current, list[k].op.dat, list[k-1].op.dat)
      BY <1>2, <1>6, <1>12, <2>2, <2>5
    <3>3. Current \in Records /\ ~Current.flags.drop /\ Says(list, Current, b)
      BY <1>2, <1>3, <1>4
    <3> HIDE DEF k
    <3> QED
      BY <1>1, <2>4, <3>1, <3>2, <3>3, SaysReadMore
  <2>7. OpsOf(new) = ops + 1 /\ SizeOf(new) = ops + 1
    BY <1>2, <1>11, <2>2, <2>3 DEF Bit
  <2>8. Held(b)'
    BY <1>7, <2>6, <2>7 DEF Held, list, new
  <2> QED
    BY <1>8, <1>9, <1>14, <2>3, <2>7, <2>8 DEF new, list, ops
<1>15. CASE ~Front.cyc
  <2>1. gen.next = "OUTP" /\ header.drop
    BY <1>1, <1>5, <1>15 DEF Going, GenEnds
  <2>2. Front = End
    <3>1. Left[at + SizeOf(Current) + 1] = Front /\ at + SizeOf(Current) + 1 \in 1..Len(Left)
      <4>1. Len(genFifo) \in Nat /\ Len(genFifo) >= 1
        BY <1>1, <1>5, FrontIs
      <4>2. 1 \in 1..Len(genFifo) /\ SizeOf(Current) \in Nat
        BY <1>2, <1>3, <4>1
      <4>3. Len(Left) = at + SizeOf(Current) + Len(genFifo) /\ Left[at + SizeOf(Current) + 1] = genFifo[1]
        BY <1>1, <4>2 DEF Going, Held
      <4> QED
        BY <4>1, <4>2, <4>3 DEF Front
    <3> QED
      BY <1>1, <1>15, <3>1 DEF Going, Cycles
  <2>3. counts' = counts
    BY <1>1, <1>15, RegistersAre
  <2>4. /\ new.wr = Current.wr /\ new.rd = Current.rd /\ new.flags.sel = Current.flags.sel
        /\ new.flags.adrWr = Current.flags.adrWr /\ new.flags.adrRd = Current.flags.adrRd
        /\ new.flags.wrFifo = Current.flags.wrFifo /\ new.flags.rdFifo = Current.flags.rdFifo
    BY <1>10, <1>11, <2>3 DEF Flags
  <2>5. Says(list, new, b)
    <3>1. k \in 1..Len(list) /\ k = b + Current.wr + Current.rd + 1 /\ list[k] = End
      BY <1>2, <1>6, <1>12, <2>2
    <3>2. Current \in Records /\ Says(list, Current, b)
      BY <1>2, <1>3, <1>4
    <3> HIDE DEF k
    <3> QED
      BY <1>1, <2>4, <3>1, <3>2, SaysEndToo
  <2>6. OpsOf(new) = ops /\ SizeOf(new) = ops + 1
    BY <1>2, <1>11, <2>1, <2>3 DEF Bit
  <2>7. Held(b)'
    BY <1>7, <2>5, <2>6 DEF Held, list, new
  <2> QED
    BY <1>8, <1>9, <1>15, <2>3, <2>6, <2>7 DEF new, list, ops
<1> QED
  BY <1>10, <1>13, <1>14, <1>15

LEMMA GenStart ==
  ASSUME NEW in \in Inputs, NEW cut, NEW at \in Nat, NEW place, NEW b \in Nat,
         Stepping(in, cut, at, place, b), gen.state = "START"
  PROVE  GenGoes(b)' /\ recOut' = recOut /\ SizeOf(Current)' = 0
<1>1. MasterTypeOK /\ MasterTypeOK' /\ MasterClock(in) /\ Going(cut, at, place)
  BY DEF Stepping
<1>2. counts.wr = 0 /\ counts.rd = 0 /\ ~gen.pop /\ ~GenPop /\ (genFifo # <<>> => Front.cyc)
  BY <1>1 DEF Going, GenOrderly, GenPop
<1>3. counts' = counts /\ recOut' = recOut /\ Start
  BY <1>1, <1>2, RegistersAre
<1>4. gen \in Gens /\ header \in Flags
  BY <1>1 DEF MasterTypeOK, Gens, Modes
<1>5. ~Current.flags.drop
  BY <1>1, CurrentIs DEF CurrentFacts, Collecting
<1>6. ~header'.drop /\ ~header'.wrFifo /\ ~header'.rdFifo /\ ~gen'.pop /\ gen'.mode = "UNKNOWN"
  BY <1>3, <1>4 DEF Start, NoFlags, WaitAndGo, Go, Gens
<1>7. Held(b)' /\ OpsOf(Current)' = OpsOf(Current)
  BY <1>2, <1>3, <1>5, <1>6, HeldSame
<1>8. SizeOf(Current)' = 0
  <2>1. OpsOf(Current) = 0
    BY <1>1, <1>2, CurrentIs DEF CurrentFacts
  <2>2. SizeOf(Current)' = OpsOf(Current)' + Bit(Collecting' /\ header'.drop /\ ~gen'.pop)
    BY <1>1, CurrentIsNext DEF CurrentFacts
  <2> QED
    BY <1>6, <1>7, <2>1, <2>2 DEF Bit
<1>9. CASE genFifo # <<>>
  <2>1. Front' = Front /\ genFifo' # <<>> /\ Front.cyc
    BY <1>2, <1>9, HeldOn
  <2>2. /\ gen'.state = "WAIT" /\ gen'.next = (IF Front.op.we THEN "WRITE" ELSE "READ")
        /\ header'.sel = Front.op.sel
        /\ Front.op.we => header'.adrWr = Front.op.adr
        /\ ~Front.op.we => header'.adrRd = Front.op.dat
    BY <1>3, <1>4, <1>9, <2>1 DEF Start, NoFlags, WaitAndGo, Gens, Front
  <2>3. GenOrderly'
    BY <1>6, <2>1, <2>2 DEF GenOrderly
  <2>4. GenWrites'
    BY <1>2, <1>3, <1>6, <2>1, <2>2 DEF GenWrites, Is
  <2>5. GenReads(b)'
    BY <1>2, <1>3, <1>6, <2>1, <2>2 DEF GenReads, Is
  <2>6. GenEnds'
    BY <2>2 DEF GenEnds, Is
  <2> QED
    BY <1>3, <1>7, <1>8, <2>3, <2>4, <2>5, <2>6 DEF GenGoes
<1>10. CASE genFifo = <<>>
  <2>1. gen'.state = "START"
    BY <1>3, <1>4, <1>10 DEF Start, Go, Gens
  <2>2. SizeOf(Current) = 0
    <3>1. OpsOf(Current) = 0
      BY <1>1, <1>2, CurrentIs DEF CurrentFacts
    <3>2. Current \in Records
      BY <1>1, CurrentIs DEF CurrentFacts
    <3> QED
      BY <1>5, <3>1, <3>2, SizeIs DEF Bit
  <2>3. genFifo' # <<>> => Front'.cyc
    BY <1>10, <2>2, HeldOn
  <2>4. GenOrderly'
    BY <1>2, <1>3, <1>6, <2>1, <2>3 DEF GenOrderly
  <2>5. GenWrites' /\ GenReads(b)' /\ GenEnds'
    BY <2>1 DEF GenWrites, GenReads, GenEnds, Is
  <2> QED
    BY <1>3, <1>7, <1>8, <2>4, <2>5 DEF GenGoes
<1> QED
  BY <1>9, <1>10

(* An operation that is looked at does not differ in its byte enables.     *)
LEMMA SelFits ==
  ASSUME NEW cut, NEW at \in Nat, NEW place, MasterTypeOK, Left \in Seq(FifoEntries),
         Going(cut, at, place), gen.state \in {"WRITE", "READ"}, genFifo # <<>>, Front.cyc
  PROVE  /\ Front.op.sel = header.sel
         /\ counts.wr # 0 /\ counts.rd # 0 /\ ~Front.op.we =>
              Increments(Front.op.dat, Taken(at).op.dat)
<1>1. ~gen.pop /\ ~header.drop
  BY DEF Going, GenOrderly, GenWrites, GenReads, Is
<1>2. /\ OpsOf(Current) \in Nat /\ OpsOf(Current) = counts.wr + counts.rd
      /\ SizeOf(Current) = OpsOf(Current) + Bit(Collecting /\ header.drop /\ ~gen.pop)
      /\ counts.wr \in Nat /\ counts.rd \in Nat
  BY CurrentIs DEF CurrentFacts
<1>3. SizeOf(Current) = OpsOf(Current)
  BY <1>1, <1>2 DEF Bit
<1>4. CASE OpsOf(Current) > 0
  BY <1>3, <1>4, BehindRecord
<1>5. CASE OpsOf(Current) = 0
  <2>1. counts.wr = 0 /\ counts.rd = 0
    BY <1>2, <1>5
  <2> QED
    BY <1>1, <2>1 DEF Going, GenWrites, GenReads, Is
<1> QED
  BY <1>2, <1>4, <1>5

(* The end of the cycle, or an empty FIFO.                                 *)
LEMMA GenWaits ==
  ASSUME NEW in \in Inputs, NEW cut, NEW at \in Nat, NEW place, NEW b \in Nat,
         Stepping(in, cut, at, place, b), gen.state \in {"WRITE", "READ"},
         genFifo = <<>> \/ ~Front.cyc
  PROVE  GenGoes(b)' /\ recOut' = recOut
<1>1. /\ MasterTypeOK /\ MasterTypeOK' /\ MasterClock(in) /\ Going(cut, at, place)
      /\ Left \in Seq(FifoEntries)
  BY DEF Stepping
<1>2. ~gen.pop /\ ~GenPop /\ ~header.drop
  BY <1>1 DEF Going, GenOrderly, GenWrites, GenReads, Is, GenPop
<1>3. counts' = counts /\ recOut' = recOut /\ Collect
  BY <1>1, <1>2, RegistersAre
<1>4. gen \in Gens /\ header \in Flags /\ counts.wr \in Nat /\ counts.rd \in Nat
  BY <1>1, MasterAssumption DEF MasterTypeOK, Gens, Modes
<1>5. ~Current.flags.drop
  BY <1>1, <1>2, CurrentIs DEF CurrentFacts
<1>6. counts.wr # 0 => header.wrFifo
  <2>1. Says(Left, Current, at) /\ Current.wr = counts.wr /\ Current.flags.wrFifo = header.wrFifo
    BY <1>1, CurrentIs DEF Going, Held, CurrentFacts
  <2> QED
    BY <2>1 DEF Says
<1>7. CASE genFifo = <<>>
  <2>1. gen' = Go(gen.state) /\ header' = header /\ prev' = prev
    BY <1>1, <1>3, <1>7, RegistersAre DEF Collect
  <2>2. gen'.state = gen.state /\ ~gen'.pop /\ gen'.mode = gen.mode
    BY <1>4, <2>1 DEF Go, Gens
  <2>3. Held(b)' /\ OpsOf(Current)' = OpsOf(Current)
    BY <1>2, <1>3, <1>5, <1>6, <2>1, HeldSame
  <2>4. GenOrderly'
    BY <1>1, <2>2 DEF GenOrderly
  <2>5. GenWrites'
    BY <1>1, <1>2, <1>3, <1>7, <2>1, <2>2 DEF Going, GenWrites, Is
  <2>6. GenReads(b)'
    <3>1. gen.state = "READ" => counts.rd # 0
      BY <1>1, <1>7 DEF Going, GenReads, Is
    <3>2. gen.state = "READ" => Taken(b)' = Taken(at)
      <4>1. counts.rd # 0 => OpsOf(Current) > 0
        BY <1>1, <1>4, CurrentIs DEF CurrentFacts
      <4>2. OpsOf(Current) > 0 => Left'[b + OpsOf(Current)] = Taken(at)
        BY HeldOn
      <4>3. Taken(b)' = Left'[b + OpsOf(Current)']
        BY DEF Taken
      <4> QED
        BY <2>3, <3>1, <4>1, <4>2, <4>3
    <3> QED
      BY <1>1, <1>2, <1>3, <2>1, <2>2, <3>1, <3>2 DEF Going, GenReads, Is
  <2>7. GenEnds'
    BY <2>2 DEF GenEnds, Is
  <2> QED
    BY <1>3, <2>3, <2>4, <2>5, <2>6, <2>7 DEF GenGoes
<1>8. CASE genFifo # <<>> /\ ~Front.cyc
  <2>1. LastOfCycle
    BY <1>3, <1>8 DEF Collect, Front
  <2>2. /\ gen'.state = "WAIT" /\ gen'.next = "OUTP" /\ gen'.pop
        /\ header'.drop /\ header'.sel = header.sel /\ header'.adrWr = header.adrWr
        /\ header'.adrRd = header.adrRd /\ header'.wrFifo = header.wrFifo
        /\ header'.rdFifo = header.rdFifo
    BY <1>4, <2>1 DEF LastOfCycle, PopAndGo, Gens, Flags
  <2>3. Held(b)' /\ OpsOf(Current)' = OpsOf(Current)
    BY <1>2, <1>3, <1>5, <1>6, <2>2, HeldSame
  <2>4. Front' = Front /\ genFifo' # <<>>
    BY <1>2, <1>8, HeldOn
  <2>5. GenOrderly'
    BY <1>8, <2>2, <2>4 DEF GenOrderly
  <2>6. GenWrites' /\ GenReads(b)'
    BY <2>2 DEF GenWrites, GenReads, Is
  <2>7. OpsOf(Current) > 0
    <3>1. counts.wr # 0 \/ counts.rd # 0
      BY <1>1, <1>2, <1>8 DEF Going, GenWrites, GenReads, Is
    <3> QED
      BY <1>1, <1>4, <3>1, CurrentIs DEF CurrentFacts
  <2>8. GenEnds'
    BY <2>2, <2>3, <2>7 DEF GenEnds, Is
  <2> QED
    BY <1>3, <2>3, <2>5, <2>6, <2>8 DEF GenGoes
<1> QED
  BY <1>7, <1>8

LEMMA GenWriting ==
  ASSUME NEW in \in Inputs, NEW cut, NEW at \in Nat, NEW place, NEW b \in Nat,
         Stepping(in, cut, at, place, b), gen.state = "WRITE", genFifo # <<>>, Front.cyc
  PROVE  GenGoes(b)' /\ recOut' = recOut
<1>1. /\ MasterTypeOK /\ MasterTypeOK' /\ MasterClock(in) /\ Going(cut, at, place)
      /\ Left \in Seq(FifoEntries)
  BY DEF Stepping
<1>2. /\ ~gen.pop /\ ~GenPop /\ ~header.drop /\ counts.rd = 0 /\ ~header.rdFifo
      /\ counts.wr = 0 => /\ Front.op.we /\ Front.op.adr = header.adrWr
                          /\ gen.mode = "UNKNOWN" /\ ~header.wrFifo /\ prev.adr = Front.op.adr
      /\ counts.wr # 0 => gen.mode = "WR_FIFO" /\ header.wrFifo /\ prev.adr = header.adrWr
  BY <1>1 DEF Going, GenOrderly, GenWrites, Is, GenPop
<1>3. counts' = counts /\ recOut' = recOut /\ Collect
  BY <1>1, <1>2, RegistersAre
<1>4. gen \in Gens /\ header \in Flags /\ counts.wr \in Nat /\ counts.rd \in Nat
  BY <1>1, MasterAssumption DEF MasterTypeOK, Gens, Modes
<1>5. ~Current.flags.drop
  BY <1>1, <1>2, CurrentIs DEF CurrentFacts
<1>6. Front.op.sel = header.sel
  BY <1>1, SelFits
<1>7. Front' = Front /\ genFifo' # <<>>
  BY <1>2, HeldOn
<1>8. OpsOf(Current) = counts.wr + counts.rd
  BY <1>1, CurrentIs DEF CurrentFacts
<1>9. CASE Front.op.we
  <2> DEFINE same == Front.op.adr = prev.adr
             incr == Increments(Front.op.adr, prev.adr)
             mode == Mode(same, incr, WriteModes)
             fits == (mode = "WR_FIFO" /\ same) \/ (mode = "WR_NORM" /\ incr)
  <2>1. /\ header' = [header EXCEPT !.wrFifo = @ \/ mode = "WR_FIFO"]
        /\ gen' = IF fits THEN [PopAndGo("WRITE") EXCEPT !.mode = mode]
                  ELSE [WaitAndGo("OUTP") EXCEPT !.mode = "WR_SPLIT"]
    <3>1. WriteOp(Front.op)
      BY <1>3, <1>9 DEF Collect, Front
    <3> QED
      BY <1>6, <3>1 DEF WriteOp, Unless
  <2>2. mode = "WR_FIFO" /\ (counts.wr = 0 => same)
    <3>1. CASE counts.wr = 0
      BY <1>2, <3>1 DEF Mode, WriteModes
    <3>2. CASE counts.wr # 0
      BY <1>2, <3>2 DEF Mode
    <3> QED
      BY <3>1, <3>2
  <2>3. fits <=> same
    BY <2>2
  <2> HIDE DEF mode, fits, incr
  <2>4. /\ header'.wrFifo /\ header'.drop = header.drop /\ header'.sel = header.sel
        /\ header'.adrWr = header.adrWr /\ header'.adrRd = header.adrRd
        /\ header'.rdFifo = header.rdFifo
    BY <1>4, <2>1, <2>2 DEF Flags
  <2>5. CASE same
    <3>1. gen'.state = "WAIT" /\ gen'.next = "WRITE" /\ gen'.pop /\ gen'.mode = "WR_FIFO"
      BY <1>4, <2>1, <2>2, <2>3, <2>5 DEF PopAndGo, Gens
    <3>2. Held(b)' /\ OpsOf(Current)' = OpsOf(Current)
      BY <1>2, <1>3, <1>5, <2>4, <3>1, HeldSame
    <3>3. GenOrderly'
      BY <1>7, <3>1 DEF GenOrderly
    <3>4. Front.op.adr = header.adrWr
      BY <1>2, <2>5
    <3>5. GenWrites'
      BY <1>2, <1>3, <1>6, <1>7, <1>9, <2>4, <3>1, <3>4 DEF GenWrites, Is
    <3>6. GenReads(b)' /\ GenEnds'
      BY <3>1 DEF GenReads, GenEnds, Is
    <3> QED
      BY <1>3, <3>2, <3>3, <3>5, <3>6 DEF GenGoes
  <2>6. CASE ~same
    <3>1. gen'.state = "WAIT" /\ gen'.next = "OUTP" /\ ~gen'.pop
      BY <1>4, <2>1, <2>2, <2>3, <2>6 DEF WaitAndGo, Gens
    <3>2. Held(b)' /\ OpsOf(Current)' = OpsOf(Current)
      BY <1>2, <1>3, <1>5, <2>4, <3>1, HeldSame
    <3>3. GenOrderly'
      BY <1>7, <3>1 DEF GenOrderly
    <3>4. GenWrites' /\ GenReads(b)'
      BY <3>1 DEF GenWrites, GenReads, Is
    <3>5. OpsOf(Current)' > 0
      BY <1>2, <1>4, <1>8, <2>2, <2>6, <3>2
    <3>6. GenEnds'
      BY <1>2, <1>7, <2>4, <3>1, <3>5 DEF GenEnds, Is
    <3> QED
      BY <1>3, <3>2, <3>3, <3>4, <3>6 DEF GenGoes
  <2> QED
    BY <2>5, <2>6
<1>10. CASE ~Front.op.we
  <2>1. FirstRead(Front.op)
    BY <1>3, <1>10 DEF Collect, Front
  <2>2. header' = [header EXCEPT !.adrRd = Front.op.dat] /\ gen' = Go("READ")
    BY <1>6, <2>1 DEF FirstRead, Unless
  <2>3. /\ header'.drop = header.drop /\ header'.sel = header.sel
        /\ header'.adrWr = header.adrWr /\ header'.adrRd = Front.op.dat
        /\ header'.rdFifo = header.rdFifo /\ header'.wrFifo = header.wrFifo
        /\ gen'.state = "READ" /\ ~gen'.pop /\ gen'.mode = gen.mode
    BY <1>4, <2>2 DEF Go, Gens, Flags
  <2>4. counts.wr # 0
    BY <1>2, <1>10
  <2>5. Held(b)' /\ OpsOf(Current)' = OpsOf(Current)
    BY <1>2, <1>3, <1>5, <2>3, HeldSame
  <2>6. GenOrderly'
    BY <2>3 DEF GenOrderly
  <2>7. GenWrites' /\ GenEnds'
    BY <2>3 DEF GenWrites, GenEnds, Is
  <2>8. GenReads(b)'
    BY <1>2, <1>3, <1>6, <1>7, <1>10, <2>3, <2>4 DEF GenReads, Is
  <2> QED
    BY <1>3, <2>5, <2>6, <2>7, <2>8 DEF GenGoes
<1> QED
  BY <1>9, <1>10

LEMMA GenReading ==
  ASSUME NEW in \in Inputs, NEW cut, NEW at \in Nat, NEW place, NEW b \in Nat,
         Stepping(in, cut, at, place, b), gen.state = "READ", genFifo # <<>>, Front.cyc
  PROVE  GenGoes(b)' /\ recOut' = recOut
<1>1. /\ MasterTypeOK /\ MasterTypeOK' /\ MasterClock(in) /\ Going(cut, at, place)
      /\ Left \in Seq(FifoEntries)
  BY DEF Stepping
<1>2. /\ ~gen.pop /\ ~GenPop /\ ~header.drop
      /\ counts.rd = 0 => ~Front.op.we /\ Front.op.dat = header.adrRd
      /\ counts.wr # 0 => gen.mode = "WR_FIFO" /\ ~header.rdFifo
      /\ counts.wr = 0 /\ counts.rd = 0 => gen.mode = "UNKNOWN" /\ prev.dat = Front.op.dat
      /\ counts.wr = 0 /\ counts.rd # 0 =>
           gen.mode = "RD_FIFO" /\ header.rdFifo /\ prev.dat = Taken(at).op.dat
  BY <1>1 DEF Going, GenOrderly, GenReads, Is, GenPop
<1>3. counts' = counts /\ recOut' = recOut /\ Collect
  BY <1>1, <1>2, RegistersAre
<1>4. gen \in Gens /\ header \in Flags /\ counts.wr \in Nat /\ counts.rd \in Nat
  BY <1>1, MasterAssumption DEF MasterTypeOK, Gens, Modes
<1>5. ~Current.flags.drop
  BY <1>1, <1>2, CurrentIs DEF CurrentFacts
<1>6. /\ Front.op.sel = header.sel
      /\ counts.wr # 0 /\ counts.rd # 0 /\ ~Front.op.we =>
              Increments(Front.op.dat, Taken(at).op.dat)
  BY <1>1, SelFits
<1>7. Front' = Front /\ genFifo' # <<>>
  BY <1>2, HeldOn
<1>8. OpsOf(Current) = counts.wr + counts.rd
  BY <1>1, CurrentIs DEF CurrentFacts
<1>9. counts.wr # 0 => header.wrFifo
  <2>1. Says(Left, Current, at) /\ Current.wr = counts.wr /\ Current.flags.wrFifo = header.wrFifo
    BY <1>1, CurrentIs DEF Going, Held, CurrentFacts
  <2> QED
    BY <2>1 DEF Says
<1>10. CASE ~Front.op.we
  <2> DEFINE same == Front.op.dat = prev.dat
             incr == Increments(Front.op.dat, prev.dat)
             mode == Mode(same, incr, ReadModes)
             fits == /\ mode = "RD_FIFO" => same
                     /\ mode = "RD_NORM" => incr
                     /\ mode # "RD_SPLIT"
  <2>1. /\ header' = [header EXCEPT !.rdFifo = @ \/ mode = "RD_FIFO"]
        /\ gen' = IF fits THEN [PopAndGo("READ") EXCEPT !.mode = mode]
                  ELSE [Go("OUTP") EXCEPT !.mode = "RD_SPLIT"]
    <3>1. ReadOp(Front.op)
      BY <1>3, <1>10 DEF Collect, Front
    <3> QED
      BY <1>6, <3>1 DEF ReadOp, Unless
  <2>2. /\ counts.wr # 0 => mode = "WR_FIFO"
        /\ counts.wr = 0 => mode = "RD_FIFO"
        /\ counts.wr = 0 /\ counts.rd = 0 => same
    <3>1. CASE counts.wr # 0
      BY <1>2, <3>1 DEF Mode
    <3>2. CASE counts.wr = 0 /\ counts.rd = 0
      BY <1>2, <3>2 DEF Mode, ReadModes
    <3>3. CASE counts.wr = 0 /\ counts.rd # 0
      BY <1>2, <3>3 DEF Mode
    <3> QED
      BY <3>1, <3>2, <3>3
  <2>3. fits <=> (counts.wr # 0 \/ same)
    BY <2>2
  <2> HIDE DEF mode, fits, incr
  <2>4. /\ header'.rdFifo = (header.rdFifo \/ counts.wr = 0)
        /\ header'.drop = header.drop /\ header'.sel = header.sel
        /\ header'.adrWr = header.adrWr /\ header'.adrRd = header.adrRd
        /\ header'.wrFifo = header.wrFifo
    <3>1. (mode = "RD_FIFO") <=> (counts.wr = 0)
      BY <2>2
    <3> QED
      BY <1>4, <2>1, <3>1 DEF Flags
  <2>5. counts.rd # 0 => header'.rdFifo = header.rdFifo
    BY <1>2, <1>4, <2>4 DEF Flags
  <2>6. ASSUME gen'.pop \/ gen'.state = "OUTP"
        PROVE  Held(b)' /\ OpsOf(Current)' = OpsOf(Current)
    BY <1>2, <1>3, <1>5, <1>9, <2>4, <2>5, HeldSame
  <2>7. CASE counts.wr # 0 \/ same
    <3>1. gen'.state = "WAIT" /\ gen'.next = "READ" /\ gen'.pop /\ gen'.mode = mode
      BY <1>4, <2>1, <2>3, <2>7 DEF PopAndGo, Gens
    <3>2. Held(b)' /\ OpsOf(Current)' = OpsOf(Current)
      BY <2>6, <3>1
    <3>3. GenOrderly'
      BY <1>7, <3>1 DEF GenOrderly
    <3>5. counts.rd # 0 => Follows(Current', Front.op.dat, Taken(b)'.op.dat)
      <4> SUFFICES ASSUME counts.rd # 0 PROVE Follows(Current', Front.op.dat, Taken(b)'.op.dat)
        OBVIOUS
      <4>1. Taken(b)' = Taken(at)
        <5>1. OpsOf(Current) > 0
          BY <1>4, <1>8
        <5>2. Left'[b + OpsOf(Current)] = Taken(at)
          BY <5>1, HeldOn
        <5> QED
          BY <3>2, <5>2 DEF Taken
      <4>2. Current'.flags.rdFifo = header'.rdFifo
        BY <1>1, CurrentIsNext DEF CurrentFacts
      <4>3. CASE counts.wr # 0
        <5>1. ~header'.rdFifo /\ Increments(Front.op.dat, Taken(at).op.dat)
          BY <1>2, <1>6, <1>10, <2>5, <4>3
        <5> QED
          BY <4>1, <4>2, <5>1 DEF Follows
      <4>4. CASE counts.wr = 0
        <5>1. header'.rdFifo /\ Front.op.dat = Taken(at).op.dat
          BY <1>2, <2>4, <2>7, <4>4
        <5> QED
          BY <4>1, <4>2, <5>1 DEF Follows
      <4> QED
        BY <4>3, <4>4
    <3>6. GenReads(b)'
      BY <1>2, <1>3, <1>6, <1>7, <1>10, <2>2, <2>4, <3>1, <3>5 DEF GenReads, Is
    <3>7. GenWrites' /\ GenEnds'
      BY <3>1 DEF GenWrites, GenEnds, Is
    <3> QED
      BY <1>3, <3>2, <3>3, <3>6, <3>7 DEF GenGoes
  <2>8. CASE counts.wr = 0 /\ ~same
    <3>1. gen'.state = "OUTP" /\ ~gen'.pop
      BY <1>4, <2>1, <2>3, <2>8 DEF Go, Gens
    <3>2. Held(b)' /\ OpsOf(Current)' = OpsOf(Current)
      BY <2>6, <3>1
    <3>3. GenOrderly' /\ GenWrites' /\ GenReads(b)'
      BY <3>1 DEF GenOrderly, GenWrites, GenReads, Is
    <3>4. OpsOf(Current)' > 0
      BY <1>4, <1>8, <2>2, <2>8, <3>2
    <3>5. GenEnds'
      BY <1>2, <1>7, <2>4, <3>1, <3>4 DEF GenEnds, Is
    <3> QED
      BY <1>3, <3>2, <3>3, <3>5 DEF GenGoes
  <2> QED
    BY <2>7, <2>8
<1>11. CASE Front.op.we
  <2>1. WriteAfterRead(Front.op)
    BY <1>3, <1>11 DEF Collect, Front
  <2>2. header' = header /\ gen' = Go("OUTP")
    BY <1>6, <2>1 DEF WriteAfterRead, Unless
  <2>3. gen'.state = "OUTP" /\ ~gen'.pop
    BY <1>4, <2>2 DEF Go, Gens
  <2>4. Held(b)' /\ OpsOf(Current)' = OpsOf(Current)
    BY <1>2, <1>3, <1>5, <1>9, <2>2, <2>3, HeldSame
  <2>5. GenOrderly' /\ GenWrites' /\ GenReads(b)'
    BY <2>3 DEF GenOrderly, GenWrites, GenReads, Is
  <2>6. OpsOf(Current)' > 0
    BY <1>2, <1>4, <1>8, <1>11, <2>4
  <2>7. GenEnds'
    BY <1>2, <1>7, <2>2, <2>3, <2>6 DEF GenEnds, Is
  <2> QED
    BY <1>3, <2>4, <2>5, <2>7 DEF GenGoes
<1> QED
  BY <1>10, <1>11

LEMMA GenWait ==
  ASSUME NEW in \in Inputs, NEW cut, NEW at \in Nat, NEW place, NEW b \in Nat,
         Stepping(in, cut, at, place, b), gen.state = "WAIT", ~Wraps
  PROVE  GenGoes(b)' /\ recOut' = recOut
<1>1. /\ MasterTypeOK /\ MasterTypeOK' /\ MasterClock(in) /\ Going(cut, at, place)
      /\ Left \in Seq(FifoEntries)
  BY DEF Stepping
<1>2. recOut' = recOut /\ Deliver
  BY <1>1, RegistersAre
<1>3. /\ gen \in Gens /\ header \in Flags /\ counts.wr \in Nat /\ counts.rd \in Nat
      /\ OpsOf(Current) = counts.wr + counts.rd
  BY <1>1, CurrentIs DEF MasterTypeOK, Gens, Modes, CurrentFacts
<1>4. gen.next \in {"WRITE", "READ", "OUTP"}
  BY <1>1 DEF Going, GenOrderly
<1>5. /\ gen'.state = gen.next /\ ~gen'.pop /\ gen'.mode = gen.mode /\ header' = header
  BY <1>2, <1>3 DEF Deliver, Go, Gens
<1>6. genFifo # <<>> => prev'.adr = Front.op.adr /\ prev'.dat = Front.op.dat
  BY <1>1, RegistersAre
<1>7. CASE gen.pop
  <2>1. /\ Held(b)'
        /\ Front.cyc => OpsOf(Current)' = OpsOf(Current) + 1
        /\ ~Front.cyc => counts' = counts /\ OpsOf(Current)' = OpsOf(Current)
        /\ Front.cyc /\ Front.op.we => counts'.wr = counts.wr + 1 /\ counts'.rd = counts.rd
        /\ Front.cyc /\ ~Front.op.we => counts'.wr = counts.wr /\ counts'.rd = counts.rd + 1
        /\ Taken(b)' = Left'[b + OpsOf(Current)']
    BY <1>7, HeldMore
  <2>2. genFifo # <<>> /\ (Front.cyc <=> gen.next # "OUTP")
    BY <1>1, <1>7 DEF Going, GenOrderly
  <2>3. CASE gen.next = "WRITE"
    <3>1. /\ Front.op.we /\ Front.op.adr = header.adrWr /\ gen.mode = "WR_FIFO"
          /\ header.wrFifo /\ counts.rd = 0 /\ ~header.rdFifo /\ ~header.drop
      BY <1>1, <1>7, <2>3 DEF Going, GenWrites, Is
    <3>2. counts'.wr = counts.wr + 1 /\ counts'.rd = 0 /\ counts'.wr # 0
      BY <1>3, <2>1, <2>2, <2>3, <3>1
    <3>3. GenWrites'
      BY <1>5, <1>6, <2>2, <2>3, <3>1, <3>2 DEF GenWrites, Is
    <3>4. GenOrderly' /\ GenReads(b)' /\ GenEnds'
      BY <1>5, <2>3 DEF GenOrderly, GenReads, GenEnds, Is
    <3> QED
      BY <1>2, <2>1, <3>3, <3>4 DEF GenGoes
  <2>4. CASE gen.next = "READ"
    <3>1. /\ ~Front.op.we /\ ~header.drop
          /\ counts.wr # 0 => gen.mode = "WR_FIFO" /\ ~header.rdFifo
          /\ counts.wr = 0 => gen.mode = "RD_FIFO" /\ header.rdFifo
      BY <1>1, <1>7, <2>4 DEF Going, GenReads, Is
    <3>2. counts'.wr = counts.wr /\ counts'.rd = counts.rd + 1 /\ counts'.rd # 0
      BY <1>3, <2>1, <2>2, <2>4, <3>1
    <3>3. Taken(b)' = Front
      <4>1. Collecting /\ SizeOf(Current) = OpsOf(Current) + Bit(Collecting /\ header.drop /\ ~gen.pop)
        BY <1>1, CurrentIs DEF CurrentFacts, Collecting
      <4>2. SizeOf(Current) = OpsOf(Current) /\ OpsOf(Current) \in Nat
        BY <1>3, <1>7, <4>1 DEF Bit
      <4>3. Left'[b + SizeOf(Current) + 1] = Front
        BY <2>2, HeldOn
      <4>4. b + OpsOf(Current)' = b + SizeOf(Current) + 1
        BY <2>1, <2>2, <2>4, <4>2
      <4> QED
        BY <2>1, <4>3, <4>4
    <3>4. GenReads(b)'
      BY <1>5, <1>6, <2>2, <2>4, <3>1, <3>2, <3>3 DEF GenReads, Is
    <3>5. GenOrderly' /\ GenWrites' /\ GenEnds'
      BY <1>5, <2>4 DEF GenOrderly, GenWrites, GenEnds, Is
    <3> QED
      BY <1>2, <2>1, <3>4, <3>5 DEF GenGoes
  <2>5. CASE gen.next = "OUTP"
    <3>1. OpsOf(Current) > 0 /\ header.drop
      BY <1>1, <1>7, <2>5 DEF Going, GenEnds, Is
    <3>2. OpsOf(Current)' > 0
      BY <2>1, <2>2, <2>5, <3>1
    <3>3. GenEnds'
      BY <1>5, <2>5, <3>1, <3>2 DEF GenEnds, Is
    <3>4. GenOrderly' /\ GenWrites' /\ GenReads(b)'
      BY <1>5, <2>5 DEF GenOrderly, GenWrites, GenReads, Is
    <3> QED
      BY <1>2, <2>1, <3>3, <3>4 DEF GenGoes
  <2> QED
    BY <1>4, <2>3, <2>4, <2>5
<1>8. CASE ~gen.pop
  <2>1. counts' = counts
    BY <1>1, <1>8, RegistersAre DEF GenPop
  <2>2. ~header.drop
    BY <1>1, <1>4, <1>8 DEF Going, GenWrites, GenReads, GenEnds, Is
  <2>3. counts.wr # 0 => header.wrFifo
    <3>1. Says(Left, Current, at) /\ Current.wr = counts.wr /\ Current.flags.wrFifo = header.wrFifo
      BY <1>1, CurrentIs DEF Going, Held, CurrentFacts
    <3> QED
      BY <3>1 DEF Says
  <2>4. Held(b)' /\ OpsOf(Current)' = OpsOf(Current)
    <3>1. ~Current.flags.drop
      BY <1>1, <2>2, CurrentIs DEF CurrentFacts
    <3> QED
      BY <1>5, <1>8, <2>1, <2>2, <2>3, <3>1, HeldSame
  <2>5. /\ genFifo # <<>> /\ Front.cyc
        /\ gen.next = "WRITE" => counts.wr = 0
        /\ gen.next = "READ" => counts.rd = 0
    BY <1>1, <1>4, <1>8, <2>2 DEF Going, GenWrites, GenReads, GenEnds, Is
  <2>6. genFifo' # <<>> /\ Front' = Front
    BY <1>8, <2>5, HeldOn
  <2>7. CASE gen.next = "WRITE"
    <3>1. GenWrites'
      BY <1>1, <1>5, <1>6, <1>8, <2>1, <2>5, <2>6, <2>7 DEF Going, GenWrites, Is
    <3>2. GenOrderly' /\ GenReads(b)' /\ GenEnds'
      BY <1>5, <2>7 DEF GenOrderly, GenReads, GenEnds, Is
    <3> QED
      BY <1>2, <2>4, <3>1, <3>2 DEF GenGoes
  <2>8. CASE gen.next = "READ"
    <3>1. GenReads(b)'
      BY <1>1, <1>5, <1>6, <1>8, <2>1, <2>5, <2>6, <2>8 DEF Going, GenReads, Is
    <3>2. GenOrderly' /\ GenWrites' /\ GenEnds'
      BY <1>5, <2>8 DEF GenOrderly, GenWrites, GenEnds, Is
    <3> QED
      BY <1>2, <2>4, <3>1, <3>2 DEF GenGoes
  <2>9. CASE gen.next = "OUTP"
    <3>1. OpsOf(Current) > 0
      BY <1>1, <2>9 DEF Going, GenEnds, Is
    <3>2. GenEnds'
      BY <1>5, <2>4, <2>5, <2>6, <2>9, <3>1 DEF GenEnds, Is
    <3>3. GenOrderly' /\ GenWrites' /\ GenReads(b)'
      BY <1>5, <2>9 DEF GenOrderly, GenWrites, GenReads, Is
    <3> QED
      BY <1>2, <2>4, <3>2, <3>3 DEF GenGoes
  <2> QED
    BY <1>4, <2>7, <2>8, <2>9
<1> QED
  BY <1>3, <1>7, <1>8 DEF Gens

(* The record is handed over, with all that it has.                        *)
LEMMA GenOutp ==
  ASSUME NEW in \in Inputs, NEW cut, NEW at \in Nat, NEW place, NEW b \in Nat,
         Stepping(in, cut, at, place, b), gen.state = "OUTP",
         NEW b2 \in Nat, b2 = b + SizeOf(Current)
  PROVE  /\ GenGoes(b2)' /\ gen'.state = "WACK"
         /\ recOut' = Current /\ recOut' \in Records /\ Says(Left', recOut', b)
         /\ OpsOf(recOut') > 0 /\ SizeOf(recOut') = SizeOf(Current) /\ SizeOf(Current)' = 0
<1>1. /\ MasterTypeOK /\ MasterTypeOK' /\ MasterClock(in) /\ Going(cut, at, place)
      /\ Left \in Seq(FifoEntries)
  BY DEF Stepping
<1>2. ~gen.pop /\ ~GenPop /\ OpsOf(Current) > 0 /\ (~header.drop => genFifo # <<>> /\ Front.cyc)
  BY <1>1 DEF Going, GenOrderly, GenEnds, Is, GenPop
<1>3. /\ recOut' = [flags |-> header, wr |-> counts.wr, rd |-> counts.rd] /\ Deliver
      /\ counts'.wr = 0 /\ counts'.rd = 0
  BY <1>1, RegistersAre
<1>4. gen \in Gens /\ header \in Flags
  BY <1>1 DEF MasterTypeOK, Gens, Modes
<1>5. gen'.state = "WACK" /\ ~gen'.pop /\ header' = header
  BY <1>3, <1>4 DEF Deliver, Go, Gens
<1>6. recOut' = Current
  <2>1. (Collecting /\ header.drop /\ ~gen.pop) = header.drop
    BY <1>2, <1>4 DEF Collecting, Flags
  <2> QED
    BY <1>3, <1>4, <2>1 DEF Current, Flags
<1>7. /\ Len(Left') = b + (SizeOf(Current) + Bit(gen.pop)) + Len(genFifo')
      /\ \A i \in 1..Len(genFifo') : Left'[b + (SizeOf(Current) + Bit(gen.pop)) + i] = genFifo'[i]
      /\ Says(Left', Current, b)
  BY HeldOn
<1>8. Current \in Records /\ SizeOf(Current) \in Nat
  BY <1>1, CurrentIs DEF CurrentFacts
<1>9. /\ Current' \in Records /\ Current'.wr = 0 /\ Current'.rd = 0 /\ ~Current'.flags.drop
      /\ SizeOf(Current)' = 0
  <2>1. ~Collecting'
    BY <1>5 DEF Collecting
  <2>2. /\ Current' \in Records /\ Current'.wr = counts'.wr /\ Current'.rd = counts'.rd
        /\ Current'.flags.drop = (Collecting' /\ header'.drop /\ ~gen'.pop)
        /\ OpsOf(Current)' = counts'.wr + counts'.rd
        /\ SizeOf(Current)' = OpsOf(Current)' + Bit(Collecting' /\ header'.drop /\ ~gen'.pop)
    BY <1>1, CurrentIsNext DEF CurrentFacts
  <2>3. ~(Collecting' /\ header'.drop /\ ~gen'.pop)
    BY <2>1
  <2>4. ~Current'.flags.drop
    BY <2>2, <2>3
  <2>5. OpsOf(Current)' = 0 /\ SizeOf(Current)' = OpsOf(Current)'
    BY <1>3, <2>2, <2>3 DEF Bit
  <2> QED
    BY <1>3, <2>2, <2>4, <2>5
<1>10. Says(Left', Current', b2)
  <2> DEFINE rec == Current'
             list == Left'
  <2>1. rec.wr = 0 /\ rec.rd = 0 /\ ~rec.flags.drop
    BY <1>9
  <2>2. list \in Seq(FifoEntries)
    BY DEF Stepping
  <2> HIDE DEF rec, list
  <2>3. Says(list, rec, b2)
    BY <2>1, <2>2 DEF Says, SaysWrites, SaysReads, SaysEnd
  <2> QED
    BY <2>3 DEF rec, list
<1>11. Held(b2)'
  <2>1. b2 = b + (SizeOf(Current) + Bit(gen.pop)) /\ b2 = b2 + SizeOf(Current)'
    BY <1>2, <1>8, <1>9 DEF Bit
  <2> QED
    BY <1>7, <1>10, <2>1 DEF Held
<1>12. GenOrderly'
  BY <1>3, <1>5 DEF GenOrderly
<1>13. GenWrites' /\ GenReads(b2)'
  BY <1>5 DEF GenWrites, GenReads, Is
<1>14. GenEnds'
  <2>1. ~header.drop => genFifo' # <<>> /\ Front' = Front /\ Front.cyc
    BY <1>2, HeldOn
  <2>2. recOut'.flags = header
    BY <1>3
  <2> QED
    BY <1>5, <2>1, <2>2 DEF GenEnds, Is
<1>15. OpsOf(recOut') > 0 /\ SizeOf(recOut') = SizeOf(Current)
  BY <1>2, <1>6
<1> QED
  BY <1>5, <1>6, <1>7, <1>8, <1>9, <1>11, <1>12, <1>13, <1>14, <1>15 DEF GenGoes

(* The record that waits for room; it ends where what is collected begins. *)
LEMMA LastRecord ==
  ASSUME MasterTypeOK, Left \in Seq(FifoEntries), NEW cut, NEW at \in Nat, NEW place,
         Going(cut, at, place), gen.state = "WACK", recOut.flags.drop
  PROVE  at \in 1..Len(Left) /\ Left[at] = End
<1> DEFINE n == Len(recFifo) + 1
           from == cut[n]
           size == SizeOf(recOut)
<1>1. /\ Len(recFifo) \in Nat /\ Len(Completed) = n /\ Completed[n] = recOut
      /\ recFifo \in Seq(Records)
  <2>1. Bit(gen.state = "WACK") = 1
    BY DEF Bit
  <2> QED
    BY <2>1, CompletedIs
<1>2. recOut \in Records
  BY DEF MasterTypeOK
<1>3. /\ cut[n+1] = from + size /\ cut[n+1] = at /\ Says(Left, recOut, from)
      /\ OpsOf(recOut) > 0 /\ cut[1] = 0 - Done
  BY <1>1 DEF Going, Chained
<1>4. cut \in [1..n+1 -> Int]
  BY <1>1 DEF Going, Chained
<1>5. from \in Int /\ from >= 0
  <2>1. n \in 1..n+1
    BY <1>1
  <2>2. from \in Int
    BY <1>4, <2>1
  <2>3. CASE recFifo = <<>>
    <3>1. Done = 0
      BY <2>3 DEF Going, FramerOrderly, Done
    <3>2. n = 1
      BY <2>3
    <3> QED
      BY <1>3, <2>2, <3>1, <3>2
  <2>4. CASE recFifo # <<>>
    <3> DEFINE m == Len(recFifo)
    <3>1. m \in 1..Len(Completed) /\ m + 1 = n
      BY <1>1, <2>4
    <3>2. 0 <= cut[m+1]
      BY <3>1 DEF Going, Chained
    <3> QED
      BY <2>2, <3>1, <3>2
  <2> QED
    BY <2>3, <2>4
<1>6. size = recOut.wr + recOut.rd + 1 /\ recOut.wr \in Nat /\ recOut.rd \in Nat
  BY <1>2, SizeIs
<1>7. /\ Len(Left) \in Nat /\ at <= Len(Left)
  <2>1. /\ Len(Left) = at + SizeOf(Current) + Len(genFifo) /\ SizeOf(Current) \in Nat
        /\ Len(genFifo) \in Nat
    BY CurrentIs DEF Going, Held, CurrentFacts, MasterTypeOK
  <2> QED
    BY <2>1
<1> HIDE DEF n, from, size
<1>8. at = from + recOut.wr + recOut.rd + 1 /\ at >= 1
  BY <1>3, <1>5, <1>6
<1>9. at \in 1..Len(Left)
  BY <1>7, <1>8
<1> QED
  BY <1>3, <1>8, <1>9 DEF Says, SaysEnd

LEMMA GenWack ==
  ASSUME NEW in \in Inputs, NEW cut, NEW at \in Nat, NEW place, NEW b \in Nat,
         Stepping(in, cut, at, place, b), gen.state = "WACK"
  PROVE  /\ GenGoes(b)' /\ recOut' = recOut /\ SizeOf(Current)' = 0
         /\ gen'.state = IF RecAck THEN "START" ELSE "WACK"
<1>1. /\ MasterTypeOK /\ MasterTypeOK' /\ MasterClock(in) /\ Going(cut, at, place)
      /\ Left \in Seq(FifoEntries)
  BY DEF Stepping
<1>2. counts.wr = 0 /\ counts.rd = 0 /\ ~gen.pop /\ ~GenPop
  BY <1>1 DEF Going, GenOrderly, GenPop
<1>3. counts' = counts /\ recOut' = recOut /\ Deliver
  BY <1>1, <1>2, RegistersAre
<1>4. gen \in Gens /\ header \in Flags
  BY <1>1 DEF MasterTypeOK, Gens, Modes
<1>5. /\ gen'.state = (IF RecAck THEN "START" ELSE "WACK") /\ ~gen'.pop /\ header' = header
  BY <1>3, <1>4 DEF Deliver, Go, Gens
<1>6. ~Collecting /\ ~Collecting'
  BY <1>5 DEF Collecting
<1>7. ~Current.flags.drop /\ SizeOf(Current) = 0
  <2>1. ~Current.flags.drop
    BY <1>1, <1>6, CurrentIs DEF CurrentFacts
  <2>2. OpsOf(Current) = 0 /\ Current \in Records
    BY <1>1, <1>2, CurrentIs DEF CurrentFacts
  <2> QED
    BY <2>1, <2>2, SizeIs DEF Bit
<1>8. Held(b)' /\ OpsOf(Current)' = OpsOf(Current)
  BY <1>2, <1>3, <1>6, <1>7, HeldSame
<1>9. SizeOf(Current)' = 0
  <2>1. OpsOf(Current) = 0
    BY <1>1, <1>2, CurrentIs DEF CurrentFacts
  <2>2. SizeOf(Current)' = OpsOf(Current)' + Bit(Collecting' /\ header'.drop /\ ~gen'.pop)
    BY <1>1, CurrentIsNext DEF CurrentFacts
  <2> QED
    BY <1>6, <1>8, <2>1, <2>2 DEF Bit
<1>10. genFifo' # <<>> => Front'.cyc
  <2>1. CASE genFifo = <<>>
    BY <1>7, <2>1, HeldOn
  <2>2. CASE genFifo # <<>>
    <3>1. Front' = Front
      BY <1>2, <2>2, HeldOn
    <3>2. CASE ~recOut.flags.drop
      BY <1>1, <3>1, <3>2 DEF Going, GenEnds
    <3>3. CASE recOut.flags.drop
      <4>1. at \in 1..Len(Left) /\ Left[at] = End
        BY <1>1, <3>3, LastRecord
      <4>2. Len(Left) = at + 0 + Len(genFifo) /\ Left[at + 0 + 1] = Front /\ Len(genFifo) >= 1
            /\ Len(genFifo) \in Nat
        <5>1. Len(genFifo) >= 1 /\ Len(genFifo) \in Nat
          BY <1>1, <2>2, FrontIs
        <5> QED
          BY <1>1, <1>7, <5>1 DEF Going, Held, Front
      <4>3. at \in 1..Len(Left)-1 /\ Left[at+1] = Front
        BY <4>1, <4>2
      <4>4. Behind(Left, at)
        BY <1>1, <4>3 DEF Going, Cycles
      <4> QED
        BY <3>1, <4>1, <4>3, <4>4, EndIs DEF Behind
    <3> QED
      BY <3>2, <3>3
  <2> QED
    BY <2>1, <2>2
<1>11. GenOrderly'
  BY <1>2, <1>3, <1>5, <1>10 DEF GenOrderly
<1>12. GenWrites' /\ GenReads(b)'
  BY <1>5 DEF GenWrites, GenReads, Is
<1>13. GenEnds'
  <2>1. ~recOut.flags.drop => genFifo # <<>>
    BY <1>1 DEF Going, GenEnds
  <2>2. genFifo # <<>> => genFifo' # <<>>
    BY <1>2, HeldOn
  <2> QED
    BY <1>3, <1>5, <1>10, <2>1, <2>2 DEF GenEnds, Is
<1> QED
  BY <1>3, <1>5, <1>8, <1>9, <1>11, <1>12, <1>13 DEF GenGoes

(* Where the generator goes, unless it hands a record over.                *)
Quiet == {g \in Gens : /\ g.state # "WACK"
                       /\ g.state # "WAIT" => ~g.pop
                       /\ g.state = "WAIT" => g.next \in {"WRITE", "READ", "OUTP"}}

LEMMA GenNext ==
  ASSUME MasterTypeOK, gen.state = "WAIT" => gen.next \in {"WRITE", "READ", "OUTP"},
         NEW in \in Inputs, MasterClock(in)
  PROVE  /\ gen.state \notin {"OUTP", "WACK"} => gen' \in Quiet
         /\ gen.state = "OUTP" => gen'.state = "WACK" /\ ~gen'.pop
         /\ gen.state = "WACK" =>
              gen'.state = (IF RecAck THEN "START" ELSE "WACK") /\ ~gen'.pop
<1> DEFINE N == Quiet
<1>1. gen \in Gens
  BY DEF MasterTypeOK, Gens, Modes
<1>2. /\ gen.state = "START" => Start
      /\ gen.state \in {"WRITE", "READ"} => Collect
      /\ gen.state \in {"WAIT", "OUTP", "WACK"} => Deliver
  BY RegistersAre
<1>3. ASSUME gen.state = "START" PROVE gen' \in N
  BY <1>1, <1>2, <1>3 DEF Start, WaitAndGo, Go, Gens, GenStates, Modes, Quiet
<1>4. ASSUME gen.state \in {"WRITE", "READ"} PROVE gen' \in N
  <2>1. /\ Go("READ") \in N /\ Go("OUTP") \in N /\ PopAndGo("READ") \in N /\ PopAndGo("WRITE") \in N
        /\ PopAndGo("OUTP") \in N /\ WaitAndGo("OUTP") \in N /\ Go(gen.state) \in N
    BY <1>1, <1>4 DEF Go, PopAndGo, WaitAndGo, Gens, GenStates, Quiet
  <2>2. \A g \in N : \A op : Unless(op, g) \in N
    BY DEF Quiet, Unless, Gens, GenStates
  <2>3. \A g \in N : \A m \in Modes : [g EXCEPT !.mode = m] \in N
    BY DEF Gens, Quiet
  <2>4. ASSUME WriteOp(Front.op) PROVE gen' \in N
    <3> DEFINE same == Front.op.adr = prev.adr
               incr == Increments(Front.op.adr, prev.adr)
               mode == Mode(same, incr, WriteModes)
               fits == (mode = "WR_FIFO" /\ same) \/ (mode = "WR_NORM" /\ incr)
    <3>1. gen' = Unless(Front.op, IF fits THEN [PopAndGo("WRITE") EXCEPT !.mode = mode]
                               ELSE [WaitAndGo("OUTP") EXCEPT !.mode = "WR_SPLIT"])
      BY <2>4 DEF WriteOp
    <3>2. mode \in Modes /\ "WR_SPLIT" \in Modes
      BY <1>1 DEF Mode, WriteModes, Modes, Gens
    <3> HIDE DEF N, mode, fits
    <3>3. [PopAndGo("WRITE") EXCEPT !.mode = mode] \in N /\ [WaitAndGo("OUTP") EXCEPT !.mode = "WR_SPLIT"] \in N
      BY <2>1, <2>3, <3>2
    <3> QED
      BY <2>2, <3>1, <3>3
  <2>5. ASSUME ReadOp(Front.op) PROVE gen' \in N
    <3> DEFINE same == Front.op.dat = prev.dat
               incr == Increments(Front.op.dat, prev.dat)
               mode == Mode(same, incr, ReadModes)
               fits == /\ mode = "RD_FIFO" => same
                       /\ mode = "RD_NORM" => incr
                       /\ mode # "RD_SPLIT"
    <3>1. gen' = Unless(Front.op, IF fits THEN [PopAndGo("READ") EXCEPT !.mode = mode]
                               ELSE [Go("OUTP") EXCEPT !.mode = "RD_SPLIT"])
      BY <2>5 DEF ReadOp
    <3>2. mode \in Modes /\ "RD_SPLIT" \in Modes
      BY <1>1 DEF Mode, ReadModes, Modes, Gens
    <3> HIDE DEF N, mode, fits
    <3>3. [PopAndGo("READ") EXCEPT !.mode = mode] \in N /\ [Go("OUTP") EXCEPT !.mode = "RD_SPLIT"] \in N
      BY <2>1, <2>3, <3>2
    <3> QED
      BY <2>2, <3>1, <3>3
  <2>6. \/ gen' = Go(gen.state) \/ LastOfCycle
        \/ WriteOp(Front.op) \/ FirstRead(Front.op) \/ ReadOp(Front.op) \/ WriteAfterRead(Front.op)
    BY <1>2, <1>4 DEF Collect, Front
  <2> HIDE DEF N
  <2> QED
    BY <2>1, <2>2, <2>4, <2>5, <2>6 DEF LastOfCycle, FirstRead, WriteAfterRead
<1>5. CASE gen.state \in {"WAIT", "OUTP", "WACK"}
  BY <1>1, <1>2, <1>5 DEF Deliver, Go, Gens, GenStates, Quiet
<1> QED
  BY <1>1, <1>3, <1>4, <1>5 DEF Gens, GenStates

(* Only s_OUTP hands a record over, and it waits for room.                 *)
LEMMA HandsOver ==
  ASSUME MasterTypeOK, GenOrderly, NEW in \in Inputs, MasterClock(in)
  PROVE  gen'.state = "WACK" <=> gen.state = "OUTP" \/ (gen.state = "WACK" /\ ~RecAck)
BY GenNext DEF GenOrderly, Quiet

LEMMA RecordsMove ==
  ASSUME MasterTypeOK, HasRecord, NEW in \in Inputs, MasterClock(in)
  PROVE  /\ recFifo' \in Seq(Records)
         /\ Shifts(recFifo, recFifo', Bit(framer.state = "LOAD"), When(gen.state = "WACK" /\ RecAck, recOut))
         /\ recFifo # <<>> /\ framer.state # "LOAD" => recFifo' # <<>> /\ Rec' = Rec
<1> DEFINE p == framer.state = "LOAD"
           wk == gen.state = "WACK"
           a == gen.state = "WACK" /\ RecAck
           add == When(a, recOut)
<1>1. recFifo \in Seq(Records) /\ recOut \in Records
  BY DEF MasterTypeOK
<1>2. recFifo' = (IF p THEN Tail(recFifo) ELSE recFifo) \o (IF Len(recFifo) < RecDepth THEN When(wk, recOut) ELSE <<>>)
  BY DEF MasterClock, Framer, RecFifo, Queue
<1>3. (IF Len(recFifo) < RecDepth THEN When(wk, recOut) ELSE <<>>) = add
  BY DEF When, RecAck
<1>4. p \in BOOLEAN /\ a \in BOOLEAN /\ (p => recFifo # <<>>)
  BY DEF HasRecord
<1>5. recFifo' = (IF p THEN Tail(recFifo) ELSE recFifo) \o add
  BY <1>2, <1>3
<1> HIDE DEF a, add, p
<1>6. add \in Seq(Records) /\ Len(add) <= 1
  <2>1. add \in Seq(Records) /\ Len(add) = Bit(a)
    BY <1>1, <1>4, WhenIs DEF add
  <2> QED
    BY <2>1 DEF Bit
<1>7. recFifo' \in Seq(Records) /\ Shifts(recFifo, recFifo', Bit(p), add)
  BY <1>1, <1>4, <1>5, <1>6, Shifting
<1>8. ASSUME recFifo # <<>>, ~p PROVE recFifo' # <<>> /\ Rec' = Rec
  <2>1. Len(recFifo) >= 1 /\ Len(recFifo) \in Nat /\ Len(add) \in Nat
    BY <1>1, <1>6, <1>8
  <2>2. Bit(p) = 0
    BY <1>8 DEF Bit
  <2>3. Len(recFifo') = Len(recFifo) + Len(add) /\ recFifo'[1] = recFifo[1]
    BY <1>7, <2>1, <2>2 DEF Shifts
  <2>4. recFifo' # <<>>
    BY <1>7, <2>1, <2>3
  <2> QED
    BY <2>3, <2>4 DEF Rec
<1> QED
  BY <1>7, <1>8 DEF p, add, a

CompletedFacts ==
  /\ Completed \in Seq(Records)
  /\ Len(Completed) = Len(recFifo) + Bit(gen.state = "WACK")
  /\ \A i \in 1..Len(recFifo) : Completed[i] = recFifo[i]
  /\ gen.state = "WACK" => Completed[Len(recFifo)+1] = recOut

LEMMA CompletedIsNext == MasterTypeOK' => CompletedFacts'
<1>1. MasterTypeOK => CompletedFacts
  BY CompletedIs DEF CompletedFacts
<1> QED
  BY <1>1, PTL

(* A record that is written goes, and one that is handed over comes.       *)
LEMMA CompletedMoves ==
  ASSUME MasterTypeOK, MasterTypeOK', HasRecord, GenOrderly, NEW in \in Inputs, MasterClock(in)
  PROVE  /\ Completed \in Seq(Records) /\ Completed' \in Seq(Records)
         /\ Shifts(Completed, Completed', Bit(framer.state = "LOAD"), When(gen.state = "OUTP", recOut'))
<1> DEFINE n == Bit(framer.state = "LOAD")
           out == gen.state = "OUTP"
           wack == gen.state = "WACK"
           wack2 == gen'.state = "WACK"
           add == When(wack /\ RecAck, recOut)
           more == When(out, recOut')
           lr == Len(recFifo)
           lr2 == Len(recFifo')
           lc == Len(Completed)
           lc2 == Len(Completed')
<1>1. /\ Completed \in Seq(Records) /\ lc = lr + Bit(wack) /\ lr \in Nat
      /\ \A i \in 1..lr : Completed[i] = recFifo[i]
      /\ wack => Completed[lr+1] = recOut
  BY CompletedIs
<1>2. /\ Completed' \in Seq(Records) /\ lc2 = lr2 + Bit(wack2)
      /\ \A i \in 1..lr2 : Completed'[i] = recFifo'[i]
      /\ wack2 => Completed'[lr2+1] = recOut'
  BY CompletedIsNext DEF CompletedFacts
<1>3. recOut \in Records /\ recOut' \in Records
  BY DEF MasterTypeOK
<1>4. /\ add \in Seq(Records) /\ Len(add) = Bit(wack /\ RecAck)
      /\ wack /\ RecAck => add[1] = recOut
  <2> DEFINE a == wack /\ RecAck
  <2>1. a \in BOOLEAN
    OBVIOUS
  <2> HIDE DEF a
  <2>2. When(a, recOut) \in Seq(Records) /\ Len(When(a, recOut)) = Bit(a) /\ (a => When(a, recOut)[1] = recOut)
    BY <1>3, <2>1, WhenIs
  <2> QED
    BY <2>2 DEF a
<1>5. /\ more \in Seq(Records) /\ Len(more) = Bit(out) /\ (out => more[1] = recOut')
      /\ Len(more) = 1 => out
  <2>1. out \in BOOLEAN
    OBVIOUS
  <2>2. Bit(out) = 1 => out
    BY DEF Bit
  <2> HIDE DEF out
  <2> QED
    BY <1>3, <2>1, <2>2, WhenIs
<1>6. /\ recFifo' \in Seq(Records) /\ Shifts(recFifo, recFifo', n, add)
  BY RecordsMove
<1>7. n \in Nat /\ n <= 1 /\ (n = 1 => lr >= 1)
  <2>1. framer.state = "LOAD" => lr >= 1
    <3>1. framer.state = "LOAD" => recFifo # <<>>
      BY DEF HasRecord
    <3>2. recFifo \in Seq(Records)
      BY DEF MasterTypeOK
    <3> QED
      BY <3>1, <3>2
  <2> QED
    BY <2>1 DEF Bit
<1>8. wack2 <=> out \/ (wack /\ ~RecAck)
  BY HandsOver
<1>9. ~out => recOut' = recOut
  BY RegistersAre
<1>10. ~(out /\ wack)
  OBVIOUS
<1> HIDE DEF add, more
<1>11. /\ lr2 = lr - n + Len(add)
       /\ \A i \in 1..lr-n : recFifo'[i] = recFifo[i+n]
       /\ Len(add) = 1 => recFifo'[lr-n+1] = add[1]
  BY <1>6 DEF Shifts
<1> HIDE DEF n, out, wack, wack2, lr, lr2, lc, lc2
<1>12. lc2 = lc - n + Len(more)
  <2>1. CASE out
    BY <1>1, <1>2, <1>4, <1>5, <1>7, <1>8, <1>10, <1>11, <2>1 DEF Bit
  <2>2. CASE wack /\ RecAck
    BY <1>1, <1>2, <1>4, <1>5, <1>7, <1>8, <1>10, <1>11, <2>2 DEF Bit
  <2>3. CASE wack /\ ~RecAck
    BY <1>1, <1>2, <1>4, <1>5, <1>7, <1>8, <1>10, <1>11, <2>3 DEF Bit
  <2>4. CASE ~wack /\ ~out
    BY <1>1, <1>2, <1>4, <1>5, <1>7, <1>8, <1>11, <2>4 DEF Bit
  <2> QED
    BY <2>1, <2>2, <2>3, <2>4
<1>13. ASSUME NEW i \in 1..lc-n PROVE Completed'[i] = Completed[i+n]
  <2>1. CASE i + n <= lr
    <3>1. i \in 1..lr-n /\ i + n \in 1..lr /\ i \in 1..lr2
      BY <1>1, <1>4, <1>7, <1>11, <2>1 DEF Bit
    <3> QED
      BY <1>1, <1>2, <1>11, <3>1
  <2>2. CASE i + n > lr
    <3>1. wack /\ i + n = lr + 1 /\ i = lr - n + 1 /\ i \in Nat /\ i >= 1
      BY <1>1, <1>7, <2>2 DEF Bit
    <3>2. CASE RecAck
      <4>1. Len(add) = 1 /\ i \in 1..lr2
        BY <1>1, <1>4, <1>7, <1>11, <3>1, <3>2 DEF Bit
      <4> QED
        BY <1>1, <1>2, <1>4, <1>11, <3>1, <3>2, <4>1
    <3>3. CASE ~RecAck
      <4>1. wack2 /\ lr2 = lr - n /\ ~out
        BY <1>1, <1>4, <1>7, <1>8, <1>10, <1>11, <3>1, <3>3 DEF Bit
      <4> QED
        BY <1>1, <1>2, <1>9, <3>1, <4>1
    <3> QED
      BY <3>2, <3>3
  <2> QED
    BY <1>1, <1>7, <2>1, <2>2
<1>14. ASSUME Len(more) = 1 PROVE Completed'[lc-n+1] = more[1]
  <2>3. out
    BY <1>5, <1>14
  <2>1. out /\ ~wack /\ wack2
    BY <1>8, <1>10, <2>3
  <2>2. lc = lr /\ lr2 = lr - n
    BY <1>1, <1>4, <1>7, <1>11, <2>1 DEF Bit
  <2> QED
    BY <1>2, <1>5, <2>1, <2>2
<1> QED
  BY <1>1, <1>2, <1>12, <1>13, <1>14 DEF Shifts, n, out, lc, lc2, more

----------------------------------------------------------------------------
\* The framer in one period

(* What is out of the first record, and that a receiver stands where the   *)
(* record says.                                                            *)
LEMMA FramerMoves ==
  ASSUME NEW in \in Inputs, NEW cut, NEW at \in Nat, NEW place, NEW b \in Nat,
         Stepping(in, cut, at, place, b)
  PROVE  /\ FramerOrderly'
         /\ framer.state = "LOAD" => Done' = 0 /\ framer'.state = "NEXT"
         /\ framer.state # "LOAD" => Done' = Done + Bit(told' # <<>>)
<1> DEFINE st == framer.state
           st2 == framer'.state
           ops == framer.ops
           ops2 == framer'.ops
           wr == Rec.wr
           rd == Rec.rd
<1>1. /\ MasterTypeOK /\ MasterTypeOK' /\ MasterClock(in) /\ Going(cut, at, place)
      /\ Left \in Seq(FifoEntries) /\ Left' \in Seq(FifoEntries) /\ FramerOrderly
      /\ Shifts(Left, Left', Bit(told' # <<>>), Added(in))
  BY DEF Stepping, Going
<1>2. HasRecord /\ ~framer.send
  BY <1>1 DEF FramerOrderly, HasRecord
<1>3. ~framer'.send
  <2>1. ~SendRequest(in) \/ Len(opFifo) < OpDepth
    BY <1>1, <1>2, InputIs DEF MasterClock, SendRequest, Stepping
  <2>2. framer'.send = (SendRequest(in) /\ Len(opFifo) = OpDepth)
    BY <1>1 DEF MasterClock, Framer
  <2>3. Len(opFifo) \in Nat /\ OpDepth \in Nat
    BY <1>1, MasterAssumption DEF MasterTypeOK
  <2>4. ~(SendRequest(in) /\ Len(opFifo) = OpDepth)
    BY <2>1, <2>3
  <2> QED
    BY <2>2, <2>4
<1>4. st2 = NextState(in) /\ ops2 = NextOps(in)
  BY <1>1 DEF MasterClock, Framer
<1>5. st \in States /\ ops \in Int /\ in.stall \in BOOLEAN
  BY <1>1 DEF MasterTypeOK, States, Inputs
<1>6. recFifo # <<>> /\ st # "LOAD" => recFifo' # <<>> /\ Rec' = Rec
  BY <1>1, <1>2, RecordsMove
<1>7. recFifo # <<>> =>
        /\ Rec \in Records /\ wr \in Nat /\ rd \in Nat /\ wr + rd > 0
        /\ Says(Left, Rec, 0 - Done) /\ Done \in Int /\ 0 <= Done
        /\ Len(Left) \in Nat /\ Done < wr + rd + Len(Left) + 1
        /\ st # "LOAD" => Len(Left) >= 1
  <2> SUFFICES ASSUME recFifo # <<>>
               PROVE  /\ Rec \in Records /\ wr \in Nat /\ rd \in Nat /\ wr + rd > 0
                      /\ Says(Left, Rec, 0 - Done) /\ Done \in Int /\ 0 <= Done
                      /\ Len(Left) \in Nat /\ Done < wr + rd + Len(Left) + 1
                      /\ st # "LOAD" => Len(Left) >= 1
    OBVIOUS
  <2>1. /\ Rec \in Records /\ Rec.wr \in Nat /\ Rec.rd \in Nat
        /\ Done \in Int /\ Says(Left, Rec, 0 - Done)
        /\ 0 < OpsOf(Rec) /\ OpsOf(Rec) = Rec.wr + Rec.rd
        /\ SizeOf(Rec) - Done <= at
        /\ SizeOf(Rec) = OpsOf(Rec) + Bit(Rec.flags.drop)
        /\ at <= Len(Left) /\ Len(Left) \in Nat
        /\ 0 <= Done /\ Done <= OpsOf(Rec)
        /\ st # "LOAD" => Done < OpsOf(Rec)
    BY <1>1, FirstRecord
  <2>2. Bit(Rec.flags.drop) \in Nat
    BY DEF Bit
  <2> QED
    BY <2>1, <2>2
<1>18. recFifo # <<>> => wr \in Nat /\ rd \in Nat
  BY <1>7
<1>19. ops \in Int
  BY <1>5
<1>8. /\ told' # <<>> <=> \/ st \in {"WRITE", "READ"} /\ ~in.stall
                          \/ st = "LOAD" /\ Rec.flags.drop
  BY <1>1, ToldIs DEF TxPush, Talking
<1>9. base' = CASE st = "WA"    -> Rec.flags.adrWr
                [] st = "RA"    -> Rec.flags.adrRd
                [] st = "WRITE" /\ TxPush(in) /\ ~Rec.flags.wrFifo -> (base + 1) % AdrMod
                [] st = "READ" /\ TxPush(in) /\ ~Rec.flags.rdFifo -> (base + 1) % AdrMod
                [] OTHER -> base
  BY <1>1 DEF MasterClock, Ghosts
<1>10. Done' = CASE st2 = "WRITE" -> Rec'.wr - 2 - ops2
                 [] st2 = "RA"    -> Rec'.wr
                 [] st2 = "READ"  -> Rec'.wr + Rec'.rd - 2 - ops2
                 [] st2 = "LOAD"  -> Rec'.wr + Rec'.rd
                 [] OTHER         -> 0
  BY DEF Done
<1>11. CASE st \in {"INIT", "IDLE", "SEND", "NEXT"}
  <2>1. /\ st2 \in {"IDLE", "EB", "REC", "SEND", "NEXT"}
        /\ st2 \in {"EB", "REC"} => recFifo # <<>>
    BY <1>4, <1>11 DEF NextState, AfterRecord, Talking
  <2>2. Done = 0 /\ Bit(told' # <<>>) = 0 /\ Done' = 0
    BY <1>8, <1>10, <1>11, <2>1 DEF Done, Bit
  <2>3. FramerOrderly'
    BY <1>3, <1>6, <1>11, <2>1 DEF FramerOrderly
  <2> QED
    BY <1>11, <2>2, <2>3
<1>12. CASE st \in {"EB", "REC"}
  <2>1. recFifo # <<>> /\ recFifo' # <<>> /\ Rec' = Rec
    BY <1>1, <1>6, <1>12 DEF FramerOrderly
  <2>2. /\ st2 \in {"EB", "REC", "WA", "RA"}
        /\ st2 = "WA" => wr # 0
        /\ st2 = "RA" => wr = 0 /\ rd # 0
    BY <1>4, <1>7, <1>12, <2>1 DEF NextState, Body, Talking
  <2>3. Done = 0 /\ Bit(told' # <<>>) = 0 /\ Done' = 0
    BY <1>8, <1>10, <1>12, <2>1, <2>2 DEF Done, Bit
  <2>4. FramerOrderly'
    BY <1>3, <2>1, <2>2 DEF FramerOrderly
  <2> QED
    BY <1>12, <2>3, <2>4
<1>13. CASE st = "WA"
  <2>1. recFifo # <<>> /\ recFifo' # <<>> /\ Rec' = Rec /\ wr # 0
    BY <1>1, <1>6, <1>13 DEF FramerOrderly
  <2>2. st2 = IF in.stall THEN "WA" ELSE "WRITE"
    BY <1>4, <1>5, <1>13 DEF NextState, Talking
  <2>3. ~in.stall => ops2 = wr - 2
    BY <1>4, <1>5, <1>13 DEF NextOps, TxPush, Talking
  <2>4. base' = Rec.flags.adrWr
    BY <1>9, <1>13
  <2>5. Done = 0 /\ Bit(told' # <<>>) = 0
    BY <1>8, <1>13 DEF Done, Bit
  <2>6. Done' = 0
    <3>1. CASE in.stall
      BY <1>10, <2>2, <3>1
    <3>2. CASE ~in.stall
      <4>1. Done' = wr - 2 - (wr - 2)
        BY <1>10, <2>1, <2>2, <2>3, <3>2
      <4> QED
        BY <1>7, <2>1, <4>1
    <3> QED
      BY <3>1, <3>2
  <2>7. ~in.stall => -1 <= ops2 /\ ops2 <= wr - 2
    BY <1>7, <2>1, <2>3
  <2>8. FramerOrderly'
    BY <1>3, <2>1, <2>2, <2>4, <2>7 DEF FramerOrderly
  <2> QED
    BY <1>13, <2>5, <2>6, <2>8
<1>14. CASE st = "WRITE"
  <2>1. /\ recFifo # <<>> /\ recFifo' # <<>> /\ Rec' = Rec /\ wr # 0
        /\ -1 <= ops /\ ops <= wr - 2 /\ base = Rec.flags.adrWr
    BY <1>1, <1>6, <1>14 DEF FramerOrderly
  <2>2. base' = base
    <3>1. Rec.flags.wrFifo
      BY <1>7, <2>1 DEF Says
    <3> QED
      BY <1>9, <1>14, <3>1
  <2>3. Done = wr - 2 - ops
    BY <1>14 DEF Done
  <2>4. CASE in.stall
    <3>1. st2 = "WRITE" /\ ops2 = ops /\ Bit(told' # <<>>) = 0
      <4>1. st2 = "WRITE"
        BY <1>4, <1>14, <2>4 DEF NextState, Talking
      <4>2. ~TxPush(in)
        BY <2>4 DEF TxPush
      <4>3. ops2 = ops
        BY <1>4, <1>14, <4>2 DEF NextOps
      <4>4. Bit(told' # <<>>) = 0
        BY <1>8, <1>14, <2>4 DEF Bit
      <4> QED
        BY <4>1, <4>3, <4>4
    <3>2. Done' = Done
      BY <1>10, <2>1, <2>3, <3>1
    <3>3. FramerOrderly'
      BY <1>3, <2>1, <2>2, <3>1 DEF FramerOrderly
    <3> QED
      BY <1>7, <1>14, <2>1, <3>1, <3>2, <3>3
  <2>5. CASE ~in.stall
    <3>1. /\ st2 = IF ops >= 0 THEN "WRITE" ELSE IF rd # 0 THEN "RA" ELSE "LOAD"
          /\ ops2 = ops - 1 /\ Bit(told' # <<>>) = 1
      <4>1. LastWord <=> ~(ops >= 0)
        BY <1>5 DEF LastWord
      <4> QED
        <5>1. st2 = IF ops >= 0 THEN "WRITE" ELSE IF rd # 0 THEN "RA" ELSE "LOAD"
          BY <1>4, <1>14, <2>5, <4>1 DEF NextState
        <5>2. TxPush(in)
          BY <1>14, <2>5 DEF TxPush, Talking
        <5>3. ops2 = ops - 1
          BY <1>4, <1>14, <5>2 DEF NextOps
        <5>4. Bit(told' # <<>>) = 1
          BY <1>8, <1>14, <2>5 DEF Bit
        <5> QED
          BY <5>1, <5>3, <5>4
    <3>2. Done' = wr - 1 - ops
      <4>1. CASE ops >= 0
        <5>1. Done' = wr - 2 - (ops - 1)
          BY <1>10, <2>1, <3>1, <4>1
        <5> QED
          BY <1>18, <1>19, <2>1, <5>1
      <4>2. CASE ~(ops >= 0) /\ rd # 0
        <5>1. Done' = wr /\ ops = -1
          BY <1>5, <1>10, <2>1, <3>1, <4>2
        <5> QED
          BY <1>7, <2>1, <5>1
      <4>3. CASE ~(ops >= 0) /\ rd = 0
        <5>1. Done' = wr + rd /\ ops = -1
          BY <1>5, <1>10, <2>1, <3>1, <4>3
        <5> QED
          BY <1>7, <2>1, <4>3, <5>1
      <4> QED
        BY <4>1, <4>2, <4>3
    <3>6. wr \in Int /\ rd \in Int /\ ops \in Int /\ -1 <= ops /\ ops <= wr - 2
      BY <1>5, <1>7, <2>1
    <3>7. st2 = "WRITE" => ops >= 0 /\ ops2 = ops - 1
      BY <3>1
    <3>3. Done' = Done + 1
      <4> HIDE DEF wr, rd, ops
      <4> QED
        BY <2>3, <3>2, <3>6
    <3>4. st2 = "WRITE" => -1 <= ops2 /\ ops2 <= wr - 2
      <4> HIDE DEF wr, rd, ops, ops2, st2
      <4> QED
        BY <3>6, <3>7
    <3>5. FramerOrderly'
      BY <1>3, <2>1, <2>2, <3>1, <3>4 DEF FramerOrderly
    <3> QED
      BY <1>14, <3>1, <3>3, <3>5
  <2> QED
    BY <1>5, <2>4, <2>5
<1>15. CASE st = "RA"
  <2>1. recFifo # <<>> /\ recFifo' # <<>> /\ Rec' = Rec /\ rd # 0
    BY <1>1, <1>6, <1>15 DEF FramerOrderly
  <2>2. st2 = IF in.stall THEN "RA" ELSE "READ"
    BY <1>4, <1>5, <1>15 DEF NextState, Talking
  <2>3. ~in.stall => ops2 = rd - 2
    BY <1>4, <1>5, <1>15 DEF NextOps, TxPush, Talking
  <2>4. Done = wr /\ Bit(told' # <<>>) = 0
    BY <1>8, <1>15 DEF Done, Bit
  <2>5. base' = Left'[1].op.dat
    <3>1. Left'[1] = Left[1] /\ 1 \in 1..Len(Left)
      BY <1>1, <1>7, <1>15, <2>1, <2>4 DEF Shifts
    <3>2. Left[1].op.dat = Rec.flags.adrRd
      <4>1. 0 - Done + Rec.wr < 1 /\ 1 <= 0 - Done + Rec.wr + Rec.rd /\ 1 = 0 - Done + Rec.wr + 1
        BY <1>7, <2>1, <2>4
      <4>2. SaysReads(Left, Rec, 0 - Done)
        BY <1>7, <2>1 DEF Says
      <4> QED
        BY <3>1, <4>1, <4>2 DEF SaysReads
    <3>3. base' = Rec.flags.adrRd
      BY <1>9, <1>15
    <3> QED
      BY <3>1, <3>2, <3>3
  <2>6. Done' = wr
    <3>1. CASE in.stall
      BY <1>10, <2>1, <2>2, <3>1
    <3>2. CASE ~in.stall
      <4>1. Done' = wr + rd - 2 - (rd - 2)
        BY <1>10, <2>1, <2>2, <2>3, <3>2
      <4> QED
        BY <1>7, <2>1, <4>1
    <3> QED
      BY <3>1, <3>2
  <2>7. ~in.stall => -1 <= ops2 /\ ops2 <= rd - 2
    BY <1>7, <2>1, <2>3
  <2>8. FramerOrderly'
    BY <1>3, <2>1, <2>2, <2>5, <2>7 DEF FramerOrderly
  <2> QED
    BY <1>7, <1>15, <2>1, <2>4, <2>6, <2>8
<1>16. CASE st = "READ"
  <2>1. /\ recFifo # <<>> /\ recFifo' # <<>> /\ Rec' = Rec /\ rd # 0
        /\ -1 <= ops /\ ops <= rd - 2 /\ base = Left[1].op.dat
    BY <1>1, <1>6, <1>16 DEF FramerOrderly
  <2>2. Done = wr + rd - 2 - ops
    BY <1>16 DEF Done
  <2>5. wr \in Nat /\ rd \in Nat /\ ops \in Int /\ Len(Left) \in Nat
    BY <1>5, <1>7, <2>1
  <2>3. CASE in.stall
    <3>1. st2 = "READ" /\ ops2 = ops /\ Bit(told' # <<>>) = 0 /\ base' = base
      <4>1. st2 = "READ"
        BY <1>4, <1>16, <2>3 DEF NextState, Talking
      <4>2. ~TxPush(in)
        BY <2>3 DEF TxPush
      <4>3. ops2 = ops
        BY <1>4, <1>16, <4>2 DEF NextOps
      <4>4. Bit(told' # <<>>) = 0
        BY <1>8, <1>16, <2>3 DEF Bit
      <4>5. base' = base
        BY <1>9, <1>16, <4>2
      <4> QED
        BY <4>1, <4>3, <4>4, <4>5
    <3>2. Done' = Done
      BY <1>10, <2>1, <2>2, <3>1
    <3>3. Left'[1] = Left[1]
      <4>1. Shifts(Left, Left', 0, Added(in))
        BY <1>1, <3>1
      <4>2. Len(Left) \in Nat /\ Len(Left) >= 1
        BY <1>7, <1>16, <2>1
      <4>3. 1 \in 1..Len(Left) - 0 /\ 1 + 0 = 1
        BY <4>2
      <4> QED
        BY <4>1, <4>3 DEF Shifts
    <3>4. FramerOrderly'
      BY <1>3, <2>1, <3>1, <3>3 DEF FramerOrderly
    <3> QED
      BY <1>7, <1>16, <2>1, <3>1, <3>2, <3>4
  <2>4. CASE ~in.stall
    <3>1. /\ st2 = IF ops >= 0 THEN "READ" ELSE "LOAD"
          /\ ops2 = ops - 1 /\ Bit(told' # <<>>) = 1 /\ TxPush(in)
      <4>1. LastWord <=> ~(ops >= 0)
        BY <1>5 DEF LastWord
      <4> QED
        <5>1. st2 = IF ops >= 0 THEN "READ" ELSE "LOAD"
          BY <1>4, <1>16, <2>4, <4>1 DEF NextState
        <5>2. TxPush(in)
          BY <1>16, <2>4 DEF TxPush, Talking
        <5>3. ops2 = ops - 1
          BY <1>4, <1>16, <5>2 DEF NextOps
        <5>4. Bit(told' # <<>>) = 1
          BY <1>8, <1>16, <2>4 DEF Bit
        <5> QED
          BY <5>1, <5>2, <5>3, <5>4
    <3>2. Done' = wr + rd - 1 - ops
      <4>1. CASE ops >= 0
        <5>1. Done' = wr + rd - 2 - (ops - 1)
          BY <1>10, <2>1, <3>1, <4>1
        <5> QED
          BY <1>18, <1>19, <2>1, <5>1
      <4>2. CASE ~(ops >= 0)
        <5>1. Done' = wr + rd /\ ops = -1
          BY <1>5, <1>10, <2>1, <3>1, <4>2
        <5> QED
          BY <1>7, <2>1, <5>1
      <4> QED
        BY <4>1, <4>2
    <3>3. Done' = Done + 1
      <4> DEFINE done == Done
                 done2 == Done'
      <4>1. done = wr + rd - 2 - ops /\ done2 = wr + rd - 1 - ops
        BY <2>2, <3>2
      <4> HIDE DEF done, done2, wr, rd, ops
      <4>2. done2 = done + 1
        BY <2>5, <4>1
      <4> QED
        BY <4>2 DEF done, done2
    <3>4. ASSUME ops >= 0 PROVE base' = Left'[1].op.dat
      <4>1. 2 \in 1..Len(Left)
        <5>1. at <= Len(Left) /\ SizeOf(Rec) - Done <= at /\ SizeOf(Rec) = OpsOf(Rec) + Bit(Rec.flags.drop)
              /\ OpsOf(Rec) = wr + rd
          BY <1>1, <2>1, FirstRecord
        <5>2. Bit(Rec.flags.drop) \in Nat
          BY DEF Bit
        <5>3. 2 <= Len(Left)
          <6> DEFINE done == Done
                     size == SizeOf(Rec)
                     drop == Bit(Rec.flags.drop)
                     ll == Len(Left)
          <6>1. /\ done = wr + rd - 2 - ops /\ size - done <= ll /\ size = wr + rd + drop
                /\ drop \in Nat /\ size \in Nat /\ done \in Int
            <7>1. size = wr + rd + drop /\ size - done <= at /\ at <= ll
              BY <5>1
            <7>2. drop \in Nat /\ done = wr + rd - 2 - ops
              BY <2>2, <5>2
            <7>3. at \in Nat
              OBVIOUS
            <7> HIDE DEF done, size, drop, ll, wr, rd, ops
            <7>4. size \in Nat /\ done \in Int
              BY <2>5, <7>1, <7>2
            <7> QED
              BY <2>5, <7>1, <7>2, <7>3, <7>4 DEF ll
          <6> HIDE DEF done, size, drop, ll, wr, rd, ops
          <6>2. 2 <= ll
            BY <2>5, <3>4, <6>1 DEF ll
          <6> QED
            BY <6>2 DEF ll
        <5> QED
          BY <1>7, <2>1, <5>3
      <4>2. Left'[1] = Left[2]
        <5>1. 1 \in 1..Len(Left)-1 /\ 1 + 1 = 2
          BY <2>5, <4>1
        <5>2. Shifts(Left, Left', 1, Added(in))
          BY <1>1, <3>1
        <5> QED
          BY <5>1, <5>2 DEF Shifts
      <4>3. /\ 0 - Done + wr < 2 /\ 2 <= 0 - Done + wr + rd /\ 2 > 0 - Done + wr + 1
        <5> DEFINE done == Done
        <5>1. done = wr + rd - 2 - ops
          BY <2>2
        <5> HIDE DEF done, wr, rd, ops
        <5>2. /\ 0 - done + wr < 2 /\ 2 <= 0 - done + wr + rd /\ 2 > 0 - done + wr + 1
          <6>1. ops <= rd - 2
            BY <2>1 DEF ops, rd
          <6> QED
            BY <2>5, <3>4, <5>1, <6>1
        <5> QED
          BY <5>2 DEF done
      <4>4. SaysReads(Left, Rec, 0 - Done)
        BY <1>7, <2>1 DEF Says
      <4>5. Follows(Rec, Left[2].op.dat, Left[2-1].op.dat)
        BY <4>1, <4>3, <4>4 DEF SaysReads
      <4>6. 2 - 1 = 1
        OBVIOUS
      <4>7. CASE Rec.flags.rdFifo
        <5>1. base' = base
          BY <1>9, <1>16, <4>7
        <5> QED
          BY <2>1, <4>2, <4>5, <4>6, <4>7, <5>1 DEF Follows
      <4>8. CASE ~Rec.flags.rdFifo
        <5>1. base' = (base + 1) % AdrMod
          BY <1>9, <1>16, <3>1, <4>8
        <5> QED
          BY <2>1, <4>2, <4>5, <4>6, <4>8, <5>1 DEF Follows, Increments
      <4> QED
        BY <4>7, <4>8
    <3>5. st2 = "READ" => -1 <= ops2 /\ ops2 <= rd - 2
      BY <1>18, <1>19, <2>1, <3>1
    <3>6. FramerOrderly'
      BY <1>3, <1>5, <2>1, <3>1, <3>4, <3>5 DEF FramerOrderly
    <3> QED
      BY <1>16, <3>1, <3>3, <3>6
  <2> QED
    BY <1>5, <2>3, <2>4
<1>17. CASE st = "LOAD"
  <2>1. st2 = "NEXT"
    BY <1>4, <1>17 DEF NextState, Talking
  <2>2. Done' = 0
    BY <1>10, <2>1
  <2>3. FramerOrderly'
    BY <1>3, <2>1 DEF FramerOrderly
  <2> QED
    BY <1>17, <2>1, <2>2, <2>3
<1> QED
  BY <1>5, <1>11, <1>12, <1>13, <1>14, <1>15, <1>16, <1>17 DEF States, Talking

(* A chain of records loses its first and gets another at its end.         *)
LEMMA ChainMoves ==
  ASSUME NEW in \in Inputs, NEW cut, NEW at \in Nat, NEW place, NEW b \in Nat,
         Stepping(in, cut, at, place, b),
         NEW b2 \in Nat, b2 = IF gen.state = "OUTP" THEN b + SizeOf(Current) ELSE b,
         gen.state = "OUTP" => /\ Says(Left', recOut', b) /\ OpsOf(recOut') > 0
                               /\ SizeOf(recOut') = SizeOf(Current)
  PROVE  \E c : Chained(c, b2)'
<1> DEFINE n == Bit(framer.state = "LOAD")
           d == Bit(told' # <<>>)
           m == Bit(gen.state = "OUTP")
           nc == Len(Completed)
           nc2 == Len(Completed')
           more == When(gen.state = "OUTP", recOut')
<1> SUFFICES ASSUME NEW c, c = [i \in 1..nc2+1 |-> IF i + n <= nc + 1 THEN cut[i+n] - d ELSE b2]
             PROVE  Chained(c, b2)'
  OBVIOUS
<1>1. /\ MasterTypeOK /\ MasterTypeOK' /\ MasterClock(in) /\ Going(cut, at, place)
      /\ Left \in Seq(FifoEntries) /\ Left' \in Seq(FifoEntries) /\ b = at - d
      /\ Shifts(Left, Left', d, Added(in)) /\ Served /\ Conforms(in) /\ Considerate(in)
  BY DEF Stepping, MasterClock
<1>2. HasRecord /\ GenOrderly
  BY <1>1 DEF Going, FramerOrderly, HasRecord
<1>3. /\ Completed \in Seq(Records) /\ Completed' \in Seq(Records)
      /\ Shifts(Completed, Completed', n, more)
  BY <1>1, <1>2, CompletedMoves
<1>4. Len(more) = m /\ (m = 1 => more[1] = recOut') /\ (m = 0 \/ m = 1) /\ (m = 1 <=> gen.state = "OUTP")
  <2> DEFINE p == gen.state = "OUTP"
  <2>1. p \in BOOLEAN /\ recOut' \in Records
    BY <1>1 DEF MasterTypeOK
  <2>2. (Bit(p) = 0 \/ Bit(p) = 1) /\ (Bit(p) = 1 <=> p)
    BY DEF Bit
  <2> HIDE DEF p
  <2>3. Len(When(p, recOut')) = Bit(p) /\ (p => When(p, recOut')[1] = recOut')
    BY <2>1, WhenIs
  <2> QED
    BY <2>2, <2>3 DEF p
<1>5. /\ nc2 = nc - n + m /\ nc \in Nat /\ nc2 \in Nat
      /\ \A i \in 1..nc-n : Completed'[i] = Completed[i+n]
      /\ m = 1 => Completed'[nc-n+1] = recOut'
  <2>1. nc \in Nat /\ nc2 \in Nat
    BY <1>3
  <2> QED
    BY <1>3, <1>4, <2>1 DEF Shifts
<1>6. /\ cut \in [1..nc+1 -> Int] /\ cut[1] = 0 - Done /\ cut[nc+1] = at
      /\ \A i \in 1..nc : /\ OpsOf(Completed[i]) > 0
                          /\ cut[i+1] = cut[i] + SizeOf(Completed[i])
                          /\ 0 <= cut[i+1] /\ cut[i+1] <= at
                          /\ Says(Left, Completed[i], cut[i])
  BY <1>1 DEF Going, Chained
<1>7. /\ (n = 0 \/ n = 1) /\ (n = 1 <=> framer.state = "LOAD")
      /\ (d = 0 \/ d = 1) /\ (d = 1 <=> told' # <<>>)
  BY DEF Bit
<1>8. framer.state = "LOAD" \/ told' # <<>> => recFifo # <<>>
  BY <1>1, <1>2, ToldIs DEF HasRecord
<1>9. recFifo # <<>> => nc >= 1 /\ Completed[1] = Rec
  <2>1. recFifo # <<>> => Completed # <<>> /\ Completed[1] = Rec
    BY <1>1, CompletedIs
  <2> QED
    BY <1>3, <2>1
<1>10. recFifo # <<>> =>
         /\ Done \in Int /\ SizeOf(Rec) = OpsOf(Rec) + Bit(Rec.flags.drop) /\ OpsOf(Rec) \in Nat
         /\ framer.state # "LOAD" => Done < OpsOf(Rec)
         /\ OpsOf(Rec) = Rec.wr + Rec.rd
  <2>1. recFifo # <<>> => Rec \in Records
    BY <1>1, FirstRecord
  <2> QED
    BY <1>1, <2>1, FirstRecord, SizeIs
<1>11. /\ FramerOrderly'
       /\ framer.state = "LOAD" => Done' = 0 /\ framer'.state = "NEXT"
       /\ framer.state # "LOAD" => Done' = Done + d
  BY FramerMoves
<1>12. at <= Len(Left) /\ Len(Left) \in Nat
  <2>1. Len(Left) = at + SizeOf(Current) + Len(genFifo) /\ Len(genFifo) \in Nat
    BY <1>1 DEF Going, Held, MasterTypeOK
  <2>2. SizeOf(Current) \in Nat
    BY <1>1, CurrentIs DEF CurrentFacts
  <2> QED
    BY <2>1, <2>2
<1>13. \A j \in 1..nc : Completed[j] \in Records /\ OpsOf(Completed[j]) \in Nat /\ SizeOf(Completed[j]) \in Nat
                        /\ SizeOf(Completed[j]) >= OpsOf(Completed[j])
  <2> SUFFICES ASSUME NEW j \in 1..nc
               PROVE  Completed[j] \in Records /\ OpsOf(Completed[j]) \in Nat /\ SizeOf(Completed[j]) \in Nat
                      /\ SizeOf(Completed[j]) >= OpsOf(Completed[j])
    OBVIOUS
  <2>1. Completed[j] \in Records
    BY <1>3
  <2> QED
    BY <2>1, SizeIs DEF Bit
<1>14. Len(Added(in)) \in Nat
  BY <1>1, AddedIs
<1>15. /\ Chained(c, b2)' <=>
            /\ c \in [1..nc2+1 -> Int]
            /\ c[1] = 0 - Done' /\ c[nc2+1] = b2
            /\ \A i \in 1..nc2 :
                 /\ OpsOf(Completed'[i]) > 0
                 /\ c[i+1] = c[i] + SizeOf(Completed'[i])
                 /\ 0 <= c[i+1] /\ c[i+1] <= b2
                 /\ Says(Left', Completed'[i], c[i])
  BY DEF Chained, OpsOf, SizeOf, Says, SaysWrites, SaysReads, SaysEnd, Follows, Increments
<1>16. /\ \A i \in 1..nc2+1 : i + n <= nc + 1 => c[i] = cut[i+n] - d
       /\ \A i \in 1..nc2+1 : i + n > nc + 1 => c[i] = b2
  <2> HIDE DEF n, d, nc, nc2
  <2> SUFFICES ASSUME NEW i \in 1..nc2+1
               PROVE  (i + n <= nc + 1 => c[i] = cut[i+n] - d) /\ (i + n > nc + 1 => c[i] = b2)
    OBVIOUS
  <2>1. i + n > nc + 1 => ~(i + n <= nc + 1)
    BY <1>5, <1>7
  <2> QED
    BY <2>1
<1>17. framer.state = "LOAD" => d = Bit(Rec.flags.drop)
  BY <1>1, ToldIs DEF Bit
<1>18. framer.state = "LOAD" => Done = OpsOf(Rec)
  BY <1>8, <1>10 DEF Done
<1>19. recFifo # <<>> => Bit(Rec.flags.drop) \in Nat
  BY DEF Bit
<1>20. \A j \in 1..nc+1 : cut[j] \in Int
  <2> HIDE DEF nc
  <2> QED
    BY <1>6
<1> DEFINE done == Done
           done2 == Done'
           all == OpsOf(Rec)
           size == SizeOf(Rec)
           drop == Bit(Rec.flags.drop)
<1> HIDE DEF n, d, m, nc, nc2, more, done, done2, all, size, drop
<1>21. c[1] = 0 - done2
  <2>1. 1 \in 1..nc2+1
    BY <1>5
  <2>2. CASE n = 0
    <3>1. c[1] = cut[1] - d
      <4>1. 1 + n <= nc + 1 /\ 1 + n = 1
        BY <1>5, <2>2
      <4> QED
        BY <1>16, <2>1, <4>1
    <3>2. cut[1] \in Int /\ cut[1] = 0 - done
      <4>1. 1 \in 1..nc+1
        BY <1>5
      <4> QED
        BY <1>6, <1>20, <4>1 DEF done
    <3>3. done2 = done + d
      BY <1>7, <1>11, <2>2 DEF done, done2
    <3>4. done \in Int
      <4>1. CASE recFifo # <<>>
        BY <1>10, <4>1 DEF done
      <4>2. CASE recFifo = <<>>
        <5>1. Done = 0
          BY <1>1, <4>2 DEF Going, FramerOrderly, Done
        <5> QED
          BY <5>1 DEF done
      <4> QED
        BY <4>1, <4>2
    <3> QED
      BY <1>7, <3>1, <3>2, <3>3, <3>4
  <2>3. CASE n = 1
    <3>1. recFifo # <<>> /\ nc >= 1
      BY <1>7, <1>8, <1>9, <2>3
    <3>2. c[1] = cut[2] - d
      <4>1. 1 + n <= nc + 1 /\ 1 + n = 2
        BY <1>5, <2>3, <3>1
      <4> QED
        BY <1>16, <2>1, <4>1
    <3>3. cut[2] = cut[1] + size /\ cut[1] = 0 - done
      <4>1. 1 \in 1..nc /\ 1 + 1 = 2
        BY <1>5, <3>1
      <4>2. cut[1+1] = cut[1] + SizeOf(Completed[1])
        BY <1>6, <4>1
      <4> QED
        BY <1>6, <1>9, <3>1, <4>1, <4>2 DEF size, done
    <3>4. /\ done = all /\ size = all + drop /\ d = drop /\ done2 = 0 /\ all \in Nat
      BY <1>7, <1>8, <1>10, <1>11, <1>17, <1>18, <2>3 DEF done, done2, all, size, drop
    <3> QED
      BY <1>7, <3>2, <3>3, <3>4
  <2> QED
    BY <1>7, <2>2, <2>3
<1>22. \A j \in 1..nc : j >= 1 + n => cut[j+1] >= d
  <2> SUFFICES ASSUME NEW j \in 1..nc, j >= 1 + n PROVE cut[j+1] >= d
    OBVIOUS
  <2>1. 0 <= cut[j+1] /\ cut[j+1] = cut[j] + SizeOf(Completed[j]) /\ OpsOf(Completed[j]) > 0
        /\ cut[j] \in Int /\ cut[j+1] \in Int
    <3>1. j \in 1..nc+1 /\ j + 1 \in 1..nc+1
      BY <1>5
    <3> QED
      BY <1>6, <1>20, <3>1
  <2>2. SizeOf(Completed[j]) \in Nat /\ SizeOf(Completed[j]) >= 1
    <3> DEFINE x == OpsOf(Completed[j])
               y == SizeOf(Completed[j])
    <3>1. x \in Nat /\ y \in Nat /\ y >= x /\ x > 0
      BY <1>13, <2>1
    <3> HIDE DEF x, y
    <3>2. y \in Nat /\ y >= 1
      BY <3>1
    <3> QED
      BY <3>2 DEF y
  <2>3. CASE j > 1
    <3>1. j - 1 \in 1..nc /\ (j - 1) + 1 = j
      BY <1>5, <2>3
    <3>2. 0 <= cut[(j-1)+1]
      BY <1>6, <3>1
    <3> QED
      BY <1>7, <2>1, <2>2, <3>1, <3>2
  <2>4. CASE j = 1 /\ d = 1
    <3>1. n = 0 /\ recFifo # <<>> /\ framer.state # "LOAD"
      BY <1>7, <1>8, <2>4
    <3>2. done \in Int /\ done < all /\ size = all + drop /\ all \in Nat /\ drop \in Nat
      BY <1>10, <1>19, <3>1 DEF done, all, size, drop
    <3>3. cut[j+1] = (0 - done) + size
      BY <1>6, <1>9, <2>1, <2>4, <3>1 DEF done, size
    <3> QED
      BY <2>4, <3>2, <3>3
  <2>5. CASE d = 0
    BY <2>1, <2>5
  <2> QED
    BY <1>7, <2>3, <2>4, <2>5
<1>23. nc - n \in Nat /\ nc - n <= nc
  <2>1. n = 1 => nc >= 1
    BY <1>7, <1>8, <1>9
  <2> QED
    BY <1>5, <1>7, <2>1
<1>24. c \in [1..nc2+1 -> Int]
  <2> SUFFICES ASSUME NEW i \in 1..nc2+1
               PROVE  (IF i + n <= nc + 1 THEN cut[i+n] - d ELSE b2) \in Int
    OBVIOUS
  <2>1. CASE i + n <= nc + 1
    <3>1. i + n \in 1..nc+1
      BY <1>5, <1>7, <2>1
    <3>2. cut[i+n] \in Int
      BY <1>20, <3>1
    <3> QED
      BY <1>7, <2>1, <3>2
  <2> QED
    BY <2>1
<1>25. c[nc-n+1] = b
  <2>1. nc-n+1 \in 1..nc2+1 /\ (nc-n+1) + n = nc + 1
    BY <1>4, <1>5, <1>7, <1>23
  <2>2. c[nc-n+1] = cut[(nc-n+1)+n] - d
    <3>1. (nc-n+1) + n <= nc + 1
      BY <1>5, <2>1
    <3> QED
      BY <1>16, <2>1, <3>1
  <2> QED
    BY <1>1, <1>6, <2>1, <2>2
<1>26. b2 \in Nat /\ b <= b2 /\ b \in Nat /\ (m = 0 => b2 = b)
  <2>1. SizeOf(Current) \in Nat
    BY <1>1, CurrentIs DEF CurrentFacts
  <2> QED
    BY <1>4, <2>1
<1>27. c[nc2+1] = b2
  <2>1. CASE m = 0
    BY <1>5, <1>23, <1>25, <1>26, <2>1
  <2>2. CASE m = 1
    <3>1. nc2+1 \in 1..nc2+1 /\ (nc2+1) + n > nc + 1
      BY <1>5, <1>7, <2>2
    <3> QED
      BY <1>16, <3>1
  <2> QED
    BY <1>4, <2>1, <2>2
<1>28. ASSUME NEW i \in 1..nc2
       PROVE  /\ OpsOf(Completed'[i]) > 0
              /\ c[i+1] = c[i] + SizeOf(Completed'[i])
              /\ 0 <= c[i+1] /\ c[i+1] <= b2
              /\ Says(Left', Completed'[i], c[i])
  <2>1. CASE i <= nc - n
    <3> DEFINE j == i + n
    <3>1. /\ i \in 1..nc-n /\ j \in 1..nc /\ j >= 1 + n /\ i \in 1..nc2+1 /\ i + 1 \in 1..nc2+1
          /\ i + n <= nc + 1 /\ (i+1) + n <= nc + 1 /\ (i+1) + n = j + 1 /\ j \in 1..nc+1 /\ j+1 \in 1..nc+1
      BY <1>5, <1>7, <1>23, <2>1
    <3>2. Completed'[i] = Completed[j]
      BY <1>5, <3>1
    <3>3. c[i] = cut[j] - d /\ c[i+1] = cut[j+1] - d
      BY <1>16, <3>1
    <3>4. /\ OpsOf(Completed[j]) > 0 /\ cut[j+1] = cut[j] + SizeOf(Completed[j])
          /\ cut[j+1] <= at /\ Says(Left, Completed[j], cut[j])
          /\ cut[j] \in Int /\ cut[j+1] \in Int /\ cut[j+1] >= d
          /\ Completed[j] \in Records /\ SizeOf(Completed[j]) \in Nat
      BY <1>6, <1>13, <1>20, <1>22, <3>1
    <3> HIDE DEF j
    <3>5. Says(Left', Completed[j], cut[j] - d)
      <4> DEFINE old == Left
                 new == Left'
                 add == Added(in)
                 rec == Completed[j]
                 from == cut[j]
      <4>1. /\ old \in Seq(FifoEntries) /\ new \in Seq(FifoEntries) /\ d \in {0, 1} /\ Len(add) \in Nat
            /\ Shifts(old, new, d, add) /\ rec \in Records /\ from \in Int
            /\ Says(old, rec, from)
        BY <1>1, <1>7, <1>14, <3>4
      <4>2. from + SizeOf(rec) <= Len(old)
        BY <1>12, <3>4
      <4> HIDE DEF old, new, add, rec, from
      <4>3. Says(new, rec, from - d)
        BY <4>1, <4>2, SaysMoves
      <4> QED
        BY <4>3 DEF new, rec, from
    <3>6. 0 <= c[i+1] /\ c[i+1] <= b2 /\ c[i+1] = c[i] + SizeOf(Completed[j])
      <4> DEFINE x == cut[j]
                 y == cut[j+1]
                 z == SizeOf(Completed[j])
      <4>1. /\ x \in Int /\ y \in Int /\ z \in Nat /\ y = x + z /\ y <= at /\ y >= d
            /\ c[i] = x - d /\ c[i+1] = y - d
        BY <3>3, <3>4
      <4>2. at \in Nat /\ b = at - d /\ b <= b2 /\ d \in Nat
        BY <1>1, <1>7, <1>26
      <4> HIDE DEF x, y, z
      <4>3. 0 <= c[i+1] /\ c[i+1] <= b2
        BY <1>26, <4>1, <4>2
      <4>4. c[i+1] = c[i] + z
        BY <4>1, <4>2
      <4> QED
        BY <4>3, <4>4 DEF z
    <3> QED
      BY <3>2, <3>3, <3>4, <3>5, <3>6
  <2>2. CASE i > nc - n
    <3>1. m = 1 /\ i = nc - n + 1 /\ i + 1 = nc2 + 1
      BY <1>4, <1>5, <1>23, <2>2
    <3>2. Completed'[i] = recOut' /\ c[i] = b /\ c[i+1] = b2
      BY <1>5, <1>25, <1>27, <3>1
    <3>3. OpsOf(recOut') > 0 /\ Says(Left', recOut', b) /\ b2 = b + SizeOf(recOut')
      BY <1>4, <3>1
    <3> QED
      BY <1>26, <3>2, <3>3
  <2> QED
    BY <1>5, <1>23, <2>1, <2>2
<1> QED
  BY <1>15, <1>21, <1>24, <1>27, <1>28 DEF done2, nc2

----------------------------------------------------------------------------
\* The local master in one period

(* Entries of a list that loses its first n and gets `add' behind it.      *)
Shifted(old, new, n, add) ==
  /\ Len(old) \in Nat /\ Len(new) \in Nat /\ n <= Len(old)
  /\ Len(new) = Len(old) - n + Len(add)
  /\ \A i \in 1..Len(new) : i + n <= Len(old) => i + n \in 1..Len(old) /\ new[i] = old[i+n]
  /\ \A i \in 1..Len(new) : i + n > Len(old) => i = Len(new) /\ Len(add) = 1 /\ new[i] = add[1]

LEMMA ShiftedIs ==
  ASSUME NEW S, NEW old \in Seq(S), NEW new \in Seq(S),
         NEW n \in Nat, n <= 1, NEW add, Len(add) = 0 \/ Len(add) = 1, n = 1 => old # <<>>,
         Shifts(old, new, n, add)
  PROVE  Shifted(old, new, n, add)
<1> DEFINE lo == Len(old)
           ln == Len(new)
<1>1. lo \in Nat /\ ln \in Nat /\ ln = lo - n + Len(add)
  BY DEF Shifts
<1>2. n <= lo
  <2>1. n = 1 => lo >= 1
    OBVIOUS
  <2> QED
    BY <1>1, <2>1
<1>3. /\ \A i \in 1..lo-n : new[i] = old[i+n]
      /\ Len(add) = 1 => new[lo-n+1] = add[1]
  BY DEF Shifts
<1> HIDE DEF lo, ln
<1>4. ASSUME NEW i \in 1..ln, i + n <= lo PROVE i + n \in 1..lo /\ new[i] = old[i+n]
  <2>1. i \in 1..lo-n /\ i + n \in 1..lo
    BY <1>1, <1>2, <1>4
  <2> QED
    BY <1>3, <2>1
<1>5. ASSUME NEW i \in 1..ln, i + n > lo PROVE i = ln /\ Len(add) = 1 /\ new[i] = add[1]
  <2> DEFINE la == Len(add)
  <2>1. la = 0 \/ la = 1
    OBVIOUS
  <2>2. ln = lo - n + la
    BY <1>1
  <2> HIDE DEF la
  <2>3. i = ln /\ la = 1 /\ i = lo - n + 1
    BY <1>1, <1>2, <1>5, <2>1, <2>2
  <2> QED
    BY <1>3, <2>3 DEF la
<1> QED
  BY <1>1, <1>2, <1>4, <1>5 DEF Shifted, lo, ln

(* What a step does to the entries that are left.                          *)
LEMMA LeftIs ==
  ASSUME NEW in \in Inputs, NEW cut, NEW at \in Nat, NEW place, NEW b \in Nat,
         Stepping(in, cut, at, place, b), NEW d, d = Bit(told' # <<>>)
  PROVE  /\ d \in Nat /\ d <= 1 /\ d <= at /\ b = at - d /\ at <= Len(Left)
         /\ Len(Left) \in Nat /\ Len(Left') \in Nat /\ d <= Len(Left)
         /\ Len(Left') = Len(Left) - d + Len(Added(in))
         /\ Len(Added(in)) = Bit(Accepted(in) \/ Falls(in))
         /\ (d = 1 <=> told' # <<>>)
         /\ \A i \in 1..Len(Left') : i + d <= Len(Left) => i + d \in 1..Len(Left) /\ Left'[i] = Left[i+d]
         /\ \A i \in 1..Len(Left') : i + d > Len(Left) =>
               i = Len(Left') /\ Left'[i] = Added(in)[1] /\ (Accepted(in) \/ Falls(in))
<1>1. /\ MasterTypeOK /\ MasterTypeOK' /\ MasterClock(in) /\ Going(cut, at, place)
      /\ Left \in Seq(FifoEntries) /\ Left' \in Seq(FifoEntries) /\ b = at - d
      /\ Shifts(Left, Left', d, Added(in)) /\ Served /\ Conforms(in) /\ Considerate(in)
  BY DEF Stepping, MasterClock
<1>2. d \in Nat /\ d <= 1 /\ (d = 1 <=> told' # <<>>)
  BY DEF Bit
<1>3. Len(Added(in)) = Bit(Accepted(in) \/ Falls(in)) /\ (Len(Added(in)) = 0 \/ Len(Added(in)) = 1)
  BY <1>1, AddedIs
<1>4. Bit(Accepted(in) \/ Falls(in)) = 1 => Accepted(in) \/ Falls(in)
  BY DEF Bit
<1>5. told' # <<>> => Left # <<>> /\ at >= 1
  BY <1>1, ToldIsNext
<1>6. at <= Len(Left)
  <2>1. Len(Left) = at + SizeOf(Current) + Len(genFifo) /\ Len(genFifo) \in Nat
    BY <1>1 DEF Going, Held, MasterTypeOK
  <2>2. SizeOf(Current) \in Nat
    BY <1>1, CurrentIs DEF CurrentFacts
  <2> QED
    BY <2>1, <2>2
<1> DEFINE old == Left
           new == Left'
           add == Added(in)
<1>7. old \in Seq(FifoEntries) /\ new \in Seq(FifoEntries) /\ Shifts(old, new, d, add)
      /\ (Len(add) = 0 \/ Len(add) = 1) /\ (d = 1 => old # <<>>)
  BY <1>1, <1>2, <1>3, <1>5
<1>8. d <= at
  BY <1>2, <1>5
<1> HIDE DEF old, new, add
<1>9. Shifted(old, new, d, add)
  BY <1>2, <1>7, ShiftedIs
<1> QED
  BY <1>1, <1>2, <1>3, <1>4, <1>6, <1>8, <1>9 DEF Shifted, old, new, add

LEMMA OpenGoes ==
  ASSUME NEW in \in Inputs, NEW cut, NEW at \in Nat, NEW place, NEW b \in Nat,
         Stepping(in, cut, at, place, b)
  PROVE  Open(Left)'
<1> DEFINE d == Bit(told' # <<>>)
           lo == Len(Left)
           ln == Len(Left')
           old == Left
           new == Left'
           add == Added(in)
<1>1. /\ MasterTypeOK /\ MasterClock(in) /\ Going(cut, at, place) /\ Open(Left)
      /\ Left \in Seq(FifoEntries) /\ Left' \in Seq(FifoEntries)
      /\ Served /\ Conforms(in) /\ Considerate(in)
      /\ asked # <<>> => Len(Left) > at
  BY DEF Stepping, MasterClock, Going, Cycles
<1>2. /\ d \in Nat /\ d <= 1 /\ d <= at
      /\ lo \in Nat /\ ln \in Nat /\ d <= lo
      /\ ln = lo - d + Len(add)
      /\ Len(add) = Bit(Accepted(in) \/ Falls(in))
      /\ \A i \in 1..ln : i + d <= lo => i + d \in 1..lo /\ new[i] = old[i+d]
      /\ \A i \in 1..ln : i + d > lo =>
            i = ln /\ new[i] = add[1] /\ (Accepted(in) \/ Falls(in))
  BY LeftIs
<1>3. /\ in.op \in OpShape /\ in.op.we \in BOOLEAN /\ in.cyc \in BOOLEAN
      /\ Accepted(in) => in.cyc /\ ~Falls(in)
      /\ Falls(in) => ~in.cyc /\ cycIn
      /\ Accepted(in) \in BOOLEAN /\ Falls(in) \in BOOLEAN
  BY <1>1, InputIs
<1>4. /\ Accepted(in) => add[1] = Operation(in.op)
      /\ Falls(in) => add[1] = End
  BY <1>1, AddedIs
<1>5. /\ cycIn' = in.cyc
      /\ asked' = IF ~in.cyc THEN <<>> 
                ELSE IF ~Accepted(in) THEN asked
                ELSE <<[op |-> in.op, wrote |-> in.op.we \/ (asked # <<>> /\ asked[1].wrote)]>>
  BY <1>1 DEF MasterClock, RecordGen, Ghosts
<1>6. new = <<>> <=> ln = 0
  BY <1>1
<1>7. old = <<>> <=> lo = 0
  BY <1>1
<1>8. Open(Left)' <=>
        IF asked' = <<>> THEN new = <<>> \/ new[ln] = End
        ELSE /\ cycIn' /\ new # <<>> /\ new[ln].cyc
             /\ asked'[1].op = new[ln].op
             /\ \A m \in 1..ln :
                  new[m].op.we /\ (\A k \in m..ln : new[k].cyc) => asked'[1].wrote
  BY DEF Open
<1>9. IF asked = <<>> THEN old = <<>> \/ old[lo] = End
      ELSE /\ cycIn /\ old # <<>> /\ old[lo].cyc
           /\ asked[1].op = old[lo].op
           /\ \A m \in 1..lo :
                old[m].op.we /\ (\A k \in m..lo : old[k].cyc) => asked[1].wrote
  BY <1>1 DEF Open
<1> HIDE DEF d, lo, ln, old, new, add
<1>10. ASSUME ~Accepted(in), ~Falls(in)
       PROVE  ln = lo - d /\ (ln # 0 => new[ln] = old[lo] /\ ln \in 1..ln)
  <2>1. Len(add) = 0
    BY <1>2, <1>10 DEF Bit
  <2>2. ln = lo - d
    BY <1>2, <2>1
  <2>3. ASSUME ln # 0 PROVE new[ln] = old[lo] /\ ln \in 1..ln
    <3>1. ln \in 1..ln /\ ln + d <= lo /\ ln + d = lo
      BY <1>2, <2>2, <2>3
    <3> QED
      BY <1>2, <3>1
  <2> QED
    BY <2>2, <2>3
<1>11. ASSUME Accepted(in) \/ Falls(in)
       PROVE  ln = lo - d + 1 /\ ln \in 1..ln /\ new[ln] = add[1]
  <2>1. Len(add) = 1
    BY <1>2, <1>11 DEF Bit
  <2>2. ln = lo - d + 1
    BY <1>2, <2>1
  <2>3. ln \in 1..ln /\ ln + d > lo
    BY <1>2, <2>2
  <2> QED
    BY <1>2, <2>2, <2>3
<1>12. CASE ~in.cyc
  <2>1. asked' = <<>> /\ ~Accepted(in)
    BY <1>3, <1>5, <1>12
  <2>2. CASE Falls(in)
    BY <1>4, <1>8, <1>11, <2>1, <2>2
  <2>3. CASE ~Falls(in)
    <3>1. asked = <<>>
      BY <1>9, <1>12, <2>3 DEF Falls
    <3>2. ln = lo - d /\ (ln # 0 => new[ln] = old[lo] /\ ln \in 1..ln)
      BY <1>10, <2>1, <2>3
    <3>3. ln # 0 => old # <<>>
      BY <1>2, <1>7, <3>2
    <3> QED
      BY <1>6, <1>8, <1>9, <2>1, <3>1, <3>2, <3>3
  <2> QED
    BY <2>2, <2>3
<1>13. CASE in.cyc /\ ~Accepted(in)
  <2>1. asked' = asked /\ ~Falls(in) /\ cycIn'
    BY <1>3, <1>5, <1>13
  <2>2. ln = lo - d /\ (ln # 0 => new[ln] = old[lo] /\ ln \in 1..ln)
    BY <1>10, <1>13, <2>1
  <2>3. CASE asked = <<>>
    BY <1>2, <1>6, <1>7, <1>8, <1>9, <2>1, <2>2, <2>3
  <2>4. CASE asked # <<>>
    <3>1. ln # 0
      BY <1>1, <1>2, <2>2, <2>4 DEF lo
    <3>2. ASSUME NEW m \in 1..ln, new[m].op.we, \A k \in m..ln : new[k].cyc
          PROVE  asked[1].wrote
      <4>1. m + d \in 1..lo /\ new[m] = old[m+d]
        <5>1. m + d <= lo
          BY <1>2, <2>2
        <5> QED
          BY <1>2, <5>1
      <4>2. \A k \in m+d..lo : old[k].cyc
        <5> SUFFICES ASSUME NEW k \in m+d..lo PROVE old[k].cyc
          OBVIOUS
        <5>1. k - d \in m..ln /\ k - d \in 1..ln /\ (k - d) + d = k /\ (k - d) + d <= lo
          BY <1>2, <2>2
        <5>2. new[k-d] = old[(k-d)+d]
          BY <1>2, <5>1
        <5> QED
          BY <3>2, <5>1, <5>2
      <4> QED
        BY <1>9, <2>4, <3>2, <4>1, <4>2
    <3> QED
      BY <1>6, <1>8, <1>9, <2>1, <2>2, <2>4, <3>1, <3>2
  <2> QED
    BY <2>3, <2>4
<1>14. CASE in.cyc /\ Accepted(in)
  <2>1. /\ asked' # <<>> /\ asked'[1].op = in.op
        /\ asked'[1].wrote = (in.op.we \/ (asked # <<>> /\ asked[1].wrote)) /\ cycIn'
    BY <1>5, <1>14
  <2>2. ln = lo - d + 1 /\ ln \in 1..ln /\ new[ln] = Operation(in.op)
    BY <1>4, <1>11, <1>14
  <2>3. new[ln].cyc /\ new[ln].op = in.op
    BY <1>3, <2>2, OperationIs
  <2>4. ASSUME NEW m \in 1..ln, new[m].op.we, \A k \in m..ln : new[k].cyc
        PROVE  in.op.we \/ (asked # <<>> /\ asked[1].wrote)
    <3>1. CASE m = ln
      BY <2>3, <2>4, <3>1
    <3>2. CASE m # ln
      <4>1. m + d \in 1..lo /\ new[m] = old[m+d]
        <5>1. m + d <= lo
          BY <1>2, <2>2, <3>2
        <5> QED
          BY <1>2, <5>1
      <4>2. \A k \in m+d..lo : old[k].cyc
        <5> SUFFICES ASSUME NEW k \in m+d..lo PROVE old[k].cyc
          OBVIOUS
        <5>1. k - d \in m..ln /\ k - d \in 1..ln /\ (k - d) + d = k /\ (k - d) + d <= lo
          BY <1>2, <2>2
        <5>2. new[k-d] = old[(k-d)+d]
          BY <1>2, <5>1
        <5> QED
          BY <2>4, <5>1, <5>2
      <4>3. old[lo].cyc /\ old # <<>>
        <5>1. lo \in m+d..lo
          BY <1>2, <4>1
        <5>2. lo # 0
          BY <1>2, <4>1
        <5> QED
          BY <1>7, <4>2, <5>1, <5>2
      <4>4. asked # <<>>
        BY <1>9, <4>3, EndIs
      <4> QED
        BY <1>9, <2>4, <4>1, <4>2, <4>4
    <3> QED
      BY <3>1, <3>2
  <2>5. new # <<>>
    BY <1>2, <1>6, <2>2
  <2> QED
    BY <1>8, <2>1, <2>3, <2>4, <2>5
<1> QED
  BY <1>3, <1>12, <1>13, <1>14

LEMMA BehindGoes ==
  ASSUME NEW in \in Inputs, NEW cut, NEW at \in Nat, NEW place, NEW b \in Nat,
         Stepping(in, cut, at, place, b)
  PROVE  /\ \A k \in 1..Len(Left')-1 : Behind(Left', k)
         /\ \A k \in 1..Len(Left') : Left'[k].cyc \/ Left'[k] = End
<1> DEFINE d == Bit(told' # <<>>)
           lo == Len(Left)
           ln == Len(Left')
           old == Left
           new == Left'
           add == Added(in)
<1>1. /\ MasterTypeOK /\ MasterClock(in) /\ Going(cut, at, place) /\ Open(Left)
      /\ Left \in Seq(FifoEntries) /\ Left' \in Seq(FifoEntries)
      /\ Served /\ Conforms(in) /\ Considerate(in)
  BY DEF Stepping, MasterClock, Going, Cycles
<1>2. /\ d \in Nat /\ d <= 1
      /\ lo \in Nat /\ ln \in Nat /\ d <= lo
      /\ \A i \in 1..ln : i + d <= lo => i + d \in 1..lo /\ new[i] = old[i+d]
      /\ \A i \in 1..ln : i + d > lo =>
            i = ln /\ new[i] = add[1] /\ (Accepted(in) \/ Falls(in))
  BY LeftIs
<1>3. /\ in.op \in OpShape /\ in.op.we \in BOOLEAN /\ in.cyc \in BOOLEAN
      /\ Accepted(in) => in.cyc /\ ~Falls(in)
      /\ Falls(in) => ~in.cyc /\ cycIn /\ asked # <<>>
      /\ Accepted(in) /\ asked # <<>> => in.op.sel = asked[1].op.sel
      /\ Accepted(in) /\ asked # <<>> /\ ~in.op.we /\ asked[1].wrote /\ ~asked[1].op.we =>
           Increments(in.op.dat, asked[1].op.dat)
  BY <1>1, InputIs
<1>4. /\ Accepted(in) => add[1] = Operation(in.op)
      /\ Falls(in) => add[1] = End
  BY <1>1, AddedIs
<1>5. /\ \A k \in 1..lo-1 : Behind(old, k)
      /\ \A k \in 1..lo : old[k].cyc \/ old[k] = End
  BY <1>1 DEF Going, Cycles
<1>6. IF asked = <<>> THEN old = <<>> \/ old[lo] = End
      ELSE /\ cycIn /\ old # <<>> /\ old[lo].cyc
           /\ asked[1].op = old[lo].op
           /\ \A m \in 1..lo :
                old[m].op.we /\ (\A k \in m..lo : old[k].cyc) => asked[1].wrote
  BY <1>1 DEF Open
<1>7. old = <<>> <=> lo = 0
  BY <1>1
<1>8. /\ Operation(in.op).cyc /\ Operation(in.op).op = in.op /\ ~End.cyc
  BY <1>3, OperationIs, EndIs
<1> HIDE DEF d, lo, ln, old, new, add
<1>9. ASSUME NEW k \in 1..ln-1 PROVE Behind(new, k)
  <2>1. k \in 1..ln /\ k + 1 \in 1..ln /\ k # ln
    BY <1>2
  <2>2. k + d <= lo /\ k + d \in 1..lo /\ new[k] = old[k+d]
    BY <1>2, <2>1
  <2>3. \A m \in 1..k : m + d \in 1..k+d /\ m + d \in 1..lo /\ new[m] = old[m+d]
    <3> SUFFICES ASSUME NEW m \in 1..k PROVE m + d \in 1..k+d /\ m + d \in 1..lo /\ new[m] = old[m+d]
      OBVIOUS
    <3>1. m \in 1..ln /\ m + d <= lo /\ m + d \in 1..k+d
      BY <1>2, <2>1, <2>2
    <3> QED
      BY <1>2, <3>1
  <2>4. ASSUME NEW m \in 1..k, new[m].op.we, \A j \in m..k : new[j].cyc
        PROVE  m + d \in 1..k+d /\ m + d \in 1..lo /\ old[m+d].op.we /\ \A j \in m+d..k+d : old[j].cyc
    <3>1. m + d \in 1..k+d /\ m + d \in 1..lo /\ old[m+d].op.we
      BY <2>3, <2>4
    <3>2. ASSUME NEW j \in m+d..k+d PROVE old[j].cyc
      <4>1. j - d \in m..k /\ j - d \in 1..k /\ (j - d) + d = j
        BY <1>2, <2>1
      <4>2. new[j-d] = old[(j-d)+d] /\ new[j-d].cyc
        BY <2>3, <2>4, <4>1
      <4> QED
        BY <4>1, <4>2
    <3> QED
      BY <3>1, <3>2
  <2>5. CASE k + d < lo
    <3>1. new[k+1] = old[k+d+1]
      <4>1. (k+1) + d <= lo /\ (k+1) + d = k+d+1
        BY <1>2, <2>5
      <4> QED
        BY <1>2, <2>1, <4>1
    <3>2. Behind(old, k+d)
      <4>1. k + d \in 1..lo-1
        BY <1>2, <2>2, <2>5
      <4> QED
        BY <1>5, <4>1
    <3> DEFINE B1 == \E m \in 1..k : new[m].op.we /\ \A j \in m..k : new[j].cyc
               B2 == \E m \in 1..k+d : old[m].op.we /\ \A j \in m..k+d : old[j].cyc
    <3>3. B1 => B2
      BY <2>4
    <3> HIDE DEF B1, B2
    <3>4. /\ old[k+d].cyc \/ old[k+d+1].cyc
          /\ old[k+d].cyc /\ old[k+d+1].cyc =>
               /\ old[k+d].op.sel = old[k+d+1].op.sel
               /\ ~old[k+d].op.we /\ ~old[k+d+1].op.we /\ B2
                  => Increments(old[k+d+1].op.dat, old[k+d].op.dat)
      BY <3>2 DEF Behind, B2
    <3>5. /\ new[k].cyc \/ new[k+1].cyc
          /\ new[k].cyc /\ new[k+1].cyc =>
               /\ new[k].op.sel = new[k+1].op.sel
               /\ ~new[k].op.we /\ ~new[k+1].op.we /\ B1
                  => Increments(new[k+1].op.dat, new[k].op.dat)
      BY <2>2, <3>1, <3>3, <3>4
    <3> QED
      BY <3>5 DEF Behind, B1
  <2>6. CASE k + d = lo
    <3>1. new[k] = old[lo] /\ new[k+1] = add[1] /\ (Accepted(in) \/ Falls(in)) /\ old # <<>>
      <4>1. (k+1) + d > lo
        BY <1>2, <2>6
      <4> QED
        BY <1>2, <1>7, <2>1, <2>2, <2>6, <4>1
    <3>2. CASE Falls(in)
      <4>1. new[k].cyc /\ ~new[k+1].cyc
        BY <1>3, <1>4, <1>6, <1>8, <3>1, <3>2
      <4> QED
        BY <4>1 DEF Behind
    <3>3. CASE Accepted(in)
      <4>1. new[k+1].cyc /\ new[k+1].op = in.op
        BY <1>4, <1>8, <3>1, <3>3
      <4>2. ASSUME new[k].cyc PROVE asked # <<>> /\ asked[1].op = new[k].op
        BY <1>6, <1>8, <3>1, <4>2
      <4>3. ASSUME new[k].cyc, ~new[k].op.we, ~new[k+1].op.we,
                   NEW m \in 1..k, new[m].op.we, \A j \in m..k : new[j].cyc
            PROVE  Increments(new[k+1].op.dat, new[k].op.dat)
        <5>1. m + d \in 1..lo /\ old[m+d].op.we /\ \A j \in m+d..lo : old[j].cyc
          BY <2>4, <2>6, <4>3
        <5>2. asked # <<>> /\ asked[1].op = new[k].op
          BY <4>2, <4>3
        <5>3. asked[1].wrote
          BY <1>6, <5>1, <5>2
        <5> QED
          BY <1>3, <3>3, <4>1, <4>3, <5>2, <5>3
      <4>4. new[k].cyc => new[k].op.sel = new[k+1].op.sel
        BY <1>3, <3>3, <4>1, <4>2
      <4> QED
        BY <4>1, <4>3, <4>4 DEF Behind
    <3> QED
      BY <3>1, <3>2, <3>3
  <2> QED
    BY <1>2, <2>2, <2>5, <2>6
<1>10. ASSUME NEW k \in 1..ln PROVE new[k].cyc \/ new[k] = End
  <2>1. CASE k + d <= lo
    BY <1>2, <1>5, <2>1
  <2>2. CASE k + d > lo
    BY <1>2, <1>4, <1>8, <2>2
  <2> QED
    BY <1>2, <2>1, <2>2
<1> QED
  BY <1>9, <1>10 DEF ln, new

LEMMA CyclesGo ==
  ASSUME NEW in \in Inputs, NEW cut, NEW at \in Nat, NEW place, NEW b \in Nat,
         Stepping(in, cut, at, place, b),
         NEW b2 \in Nat, b2 = IF gen.state = "OUTP" THEN b + SizeOf(Current) ELSE b,
         Held(b2)',
         gen.state = "OUTP" => /\ Says(Left', recOut', b) /\ recOut' = Current
                               /\ SizeOf(Current)' = 0
  PROVE  Cycles(b2)'
<1> DEFINE d == Bit(told' # <<>>)
<1>1. /\ MasterTypeOK /\ MasterTypeOK' /\ MasterClock(in) /\ Going(cut, at, place) /\ Open(Left)
      /\ Left \in Seq(FifoEntries) /\ Left' \in Seq(FifoEntries)
      /\ Served /\ Conforms(in) /\ Considerate(in)
      /\ asked # <<>> => Len(Left) > at
  BY DEF Stepping, MasterClock, Going, Cycles
<1>2. /\ d \in Nat /\ d <= 1 /\ b = at - d /\ at <= Len(Left)
      /\ Len(Left) \in Nat /\ Len(Left') \in Nat
      /\ Len(Left') = Len(Left) - d + Len(Added(in))
      /\ Len(Added(in)) = Bit(Accepted(in) \/ Falls(in))
  BY LeftIs
<1>3. Open(Left)'
  BY OpenGoes
<1>4. ASSUME asked' # <<>> PROVE Len(Left') > b2
  <2>1. CASE gen.state # "OUTP"
    <3>1. asked # <<>> \/ Accepted(in)
      BY <1>1, <1>4 DEF MasterClock, Ghosts
    <3>2. Accepted(in) => Len(Added(in)) = 1
      BY <1>2 DEF Bit
    <3>3. Len(Added(in)) \in Nat
      BY <1>2 DEF Bit
    <3> DEFINE ln == Len(Left')
               lo == Len(Left)
               la == Len(Added(in))
    <3>4. ln = lo - d + la /\ (lo > at \/ la = 1) /\ la \in Nat /\ b2 = at - d
      BY <1>1, <1>2, <2>1, <3>1, <3>2, <3>3
    <3> HIDE DEF ln, lo, la, d
    <3>5. ln > b2
      BY <1>2, <3>4 DEF lo
    <3> QED
      BY <3>5 DEF ln
  <2>2. CASE gen.state = "OUTP"
    <3>1. Len(Left') = b2 + Len(genFifo') /\ Len(genFifo') \in Nat
      <4>1. Len(Left') = b2 + SizeOf(Current)' + Len(genFifo')
        BY DEF Held
      <4>2. Len(genFifo') \in Nat
        BY <1>1 DEF MasterTypeOK
      <4> QED
        BY <2>2, <4>1, <4>2
    <3>2. ~gen.pop /\ (~header.drop => genFifo # <<>>)
      BY <1>1, <2>2 DEF Going, GenOrderly, GenEnds, Is
    <3>3. CASE ~header.drop
      <4>1. genFifo' # <<>>
        BY <3>2, <3>3, HeldOn
      <4>2. Len(genFifo') > 0
        BY <1>1, <3>1, <4>1 DEF MasterTypeOK
      <4> QED
        BY <3>1, <4>2
    <3>4. CASE header.drop
      <4>1. Current \in Records /\ Current.flags.drop
        <5>1. Current.flags.drop = (Collecting /\ header.drop /\ ~gen.pop) /\ Current \in Records
          BY <1>1, CurrentIs DEF CurrentFacts
        <5>2. Collecting /\ header.drop /\ ~gen.pop
          BY <2>2, <3>2, <3>4 DEF Collecting
        <5> QED
          BY <5>1, <5>2
      <4>2. SizeOf(Current) = Current.wr + Current.rd + 1 /\ Current.wr \in Nat /\ Current.rd \in Nat
        BY <4>1, SizeIs
      <4>3. b2 = b + Current.wr + Current.rd + 1 /\ b2 >= 1
        BY <2>2, <4>2
      <4>4. Len(Left') >= b2
        BY <3>1
      <4>5. b2 \in 1..Len(Left')
        BY <1>2, <4>3, <4>4
      <4>6. Left'[b2] = End
        BY <2>2, <4>1, <4>3, <4>5 DEF Says, SaysEnd
      <4>7. Left'[Len(Left')].cyc
        BY <1>3, <1>4 DEF Open
      <4>8. Len(Left') # b2
        BY <4>6, <4>7, EndIs
      <4> QED
        BY <1>2, <4>4, <4>8
    <3> QED
      BY <3>3, <3>4
  <2> QED
    BY <2>1, <2>2
<1>5. /\ \A k \in 1..Len(Left')-1 : Behind(Left', k)
      /\ \A k \in 1..Len(Left') : Left'[k].cyc \/ Left'[k] = End
  BY BehindGoes
<1>6. Cycles(b2)' <=>
        /\ Open(Left)'
        /\ asked' # <<>> => Len(Left') > b2
        /\ \A k \in 1..Len(Left')-1 : Behind(Left', k)
        /\ \A k \in 1..Len(Left') : Left'[k].cyc \/ Left'[k] = End
  BY DEF Cycles, Behind, Increments
<1> QED
  BY <1>3, <1>4, <1>5, <1>6

----------------------------------------------------------------------------
\* The words in one period

(* What a step does to the words that wait.                                *)
LEMMA WordsAre ==
  ASSUME NEW in \in Inputs, NEW cut, NEW at \in Nat, NEW place, NEW b \in Nat,
         Stepping(in, cut, at, place, b), NEW p, p = Bit(OpPop(in))
  PROVE  /\ p \in Nat /\ p <= 1 /\ (p = 1 <=> OpPop(in)) /\ p <= Len(opFifo)
         /\ Len(opFifo) \in Nat /\ Len(opFifo') \in Nat
         /\ Len(opFifo') = Len(opFifo) - p + Bit(Accepted(in) \/ in.send)
         /\ \A n \in 1..Len(opFifo') : n + p <= Len(opFifo) =>
               n + p \in 1..Len(opFifo) /\ opFifo'[n] = opFifo[n+p]
         /\ \A n \in 1..Len(opFifo') : n + p > Len(opFifo) =>
               /\ n = Len(opFifo') /\ (Accepted(in) \/ in.send)
               /\ opFifo'[n].send = in.send /\ opFifo'[n].word = WordOf(in.op)
         /\ opFifo \in Seq(Words) /\ opFifo' \in Seq(Words)
         /\ Accepted(in) => ~in.send
         /\ in.send \in BOOLEAN
<1>1. /\ MasterTypeOK /\ MasterTypeOK' /\ MasterClock(in) /\ Going(cut, at, place)
      /\ Served /\ Conforms(in) /\ Considerate(in) /\ ~framer.send
  BY DEF Stepping, MasterClock, Going, FramerOrderly
<1>2. p \in Nat /\ p <= 1 /\ (p = 1 <=> OpPop(in))
  BY DEF Bit
<1>3. /\ in.send \in BOOLEAN /\ (Accepted(in) => ~in.send) /\ Accepted(in) \in BOOLEAN
      /\ in.send => TxCyc
  BY <1>1, InputIs
<1>4. SendRequest(in) = in.send /\ (QueueSend(in) <=> in.send)
  <2>1. (framer.send \/ in.send) = in.send
    BY <1>1, <1>3
  <2>2. in.send => framer.state # "IDLE"
    BY <1>3 DEF TxCyc, Talking
  <2> QED
    BY <2>1, <2>2 DEF SendRequest, QueueSend
<1>5. /\ Len(OpAdded(in)) = Bit(Accepted(in) \/ QueueSend(in))
      /\ Accepted(in) \/ QueueSend(in) =>
               OpAdded(in)[1].word = WordOf(in.op) /\ OpAdded(in)[1].send = SendRequest(in)
      /\ (Len(OpAdded(in)) = 0 \/ Len(OpAdded(in)) = 1)
  BY <1>1, AddedIs
<1>6. Bit(Accepted(in) \/ QueueSend(in)) = Bit(Accepted(in) \/ in.send)
      /\ (Bit(Accepted(in) \/ in.send) = 1 => Accepted(in) \/ in.send)
  BY <1>4 DEF Bit
<1>7. /\ opFifo' \in Seq(Words) /\ Shifts(opFifo, opFifo', p, OpAdded(in))
      /\ OpPop(in) => opFifo # <<>>
  BY <1>1, FifosMove
<1>8. opFifo \in Seq(Words)
  BY <1>1 DEF MasterTypeOK, Words
<1> DEFINE old == opFifo
           new == opFifo'
           add == OpAdded(in)
<1>9. old \in Seq(Words) /\ new \in Seq(Words) /\ Shifts(old, new, p, add)
      /\ (Len(add) = 0 \/ Len(add) = 1) /\ (p = 1 => old # <<>>)
  BY <1>2, <1>5, <1>7, <1>8
<1> HIDE DEF old, new, add
<1>10. Shifted(old, new, p, add)
  BY <1>2, <1>9, ShiftedIs
<1> QED
  <2>1. /\ p \in Nat /\ p <= 1 /\ (p = 1 <=> OpPop(in)) /\ p <= Len(opFifo)
        /\ Len(opFifo) \in Nat /\ Len(opFifo') \in Nat
        /\ Len(opFifo') = Len(opFifo) - p + Len(add)
        /\ \A n \in 1..Len(opFifo') : n + p <= Len(opFifo) =>
              n + p \in 1..Len(opFifo) /\ opFifo'[n] = opFifo[n+p]
        /\ \A n \in 1..Len(opFifo') : n + p > Len(opFifo) =>
              n = Len(opFifo') /\ Len(add) = 1 /\ opFifo'[n] = add[1]
    BY <1>2, <1>10 DEF Shifted, old, new
  <2> QED
    BY <1>2, <1>3, <1>4, <1>5, <1>6, <1>7, <1>8, <2>1 DEF old, new, add

(* A flush is at the front just when all that it has to send is told.      *)
LEMMA SendAtFront ==
  ASSUME MasterTypeOK, Left \in Seq(FifoEntries), NEW cut, NEW at \in Nat, NEW place,
         Going(cut, at, place), framer.state # "LOAD",
         NEW n \in 1..Len(opFifo), opFifo[n].send
  PROVE  n = 1 <=> flush = 1
<1>1. /\ Len(opFifo) \in Nat /\ flush \in Nat /\ Len(Left) \in Nat
  <2>1. Len(opFifo) \in Nat
    BY DEF MasterTypeOK
  <2>2. flush \in Nat
    BY DEF MasterTypeOK
  <2>3. Len(Left) \in Nat
    OBVIOUS
  <2> QED
    BY <2>1, <2>2, <2>3
<1>2. /\ Placed(place) /\ flush # 0 /\ flush <= Len(Left) + 1
      /\ \A k \in 1..Len(Left) : Left[k].cyc => (place[k] < n <=> k < flush)
  BY DEF Going, FlushOrderly, Placed
<1>3. ASSUME n = 1 PROVE flush = 1
  <2> SUFFICES ASSUME flush > 1 PROVE FALSE
    BY <1>1, <1>2
  <2>1. 1 \in 1..Len(Left) /\ Left # <<>>
    BY <1>1, <1>2
  <2>2. Left[1].cyc
    BY <2>1, NotAnEnd
  <2>3. place[1] \in 1..Len(opFifo)
    BY <1>2, <2>1, <2>2, PlacesAre
  <2>4. place[1] < n
    BY <1>2, <2>1, <2>2
  <2> QED
    BY <1>1, <1>3, <2>3, <2>4
<1>4. ASSUME flush = 1 PROVE n = 1
  <2> SUFFICES ASSUME n # 1 PROVE FALSE
    OBVIOUS
  <2>1. 1 \in 1..Len(opFifo) /\ 1 < n
    BY <1>1
  <2>2. ~opFifo[1].send
    BY <1>2, <2>1 DEF Placed
  <2>3. PICK k \in 1..Len(Left) : Left[k].cyc /\ place[k] = 1
    BY <1>2, <2>1, <2>2 DEF Placed
  <2>4. k < 1
    BY <1>2, <1>4, <2>1, <2>3
  <2> QED
    BY <1>1, <2>4
<1> QED
  BY <1>3, <1>4

(* What is popped is what is told, or a flush.                             *)
LEMMA PopIs ==
  ASSUME NEW in \in Inputs, NEW cut, NEW at \in Nat, NEW place, NEW b \in Nat,
         Stepping(in, cut, at, place, b)
  PROVE  /\ told' # <<>> => Left # <<>>
         /\ told' # <<>> /\ OpPop(in) =>
              framer.state \in {"WRITE", "READ"} /\ Left[1].cyc /\ place[1] = 1
         /\ told' # <<>> /\ ~OpPop(in) => framer.state = "LOAD" /\ Left[1] = End
         /\ OpPop(in) /\ told' = <<>> =>
              framer.state \in {"NEXT", "SEND"} /\ opFifo[1].send /\ flush = 1
         /\ framer.state \in {"NEXT", "SEND"} => told' = <<>> /\ (OpPop(in) <=> SendNow)
<1>1. /\ MasterTypeOK /\ MasterTypeOK' /\ MasterClock(in) /\ Going(cut, at, place)
      /\ Left \in Seq(FifoEntries) /\ Placed(place)
  BY DEF Stepping, Going
<1>2. /\ told' # <<>> <=> \/ framer.state \in {"WRITE", "READ"} /\ TxPush(in)
                          \/ framer.state = "LOAD" /\ Rec.flags.drop
      /\ told' = Reading(in)
  BY <1>1, ToldIs
<1>3. told' # <<>> => Left # <<>> /\ told'[1] = Left[1]
  BY <1>1, ToldIsNext
<1>4. ASSUME framer.state \in {"WRITE", "READ"}
      PROVE  /\ Left # <<>> /\ Left[1].cyc /\ place[1] = 1
             /\ OpPop(in) <=> TxPush(in)
  <2>1. recFifo # <<>>
    BY <1>1, <1>4 DEF Going, FramerOrderly
  <2>2. Left # <<>>
    <3>1. /\ SizeOf(Rec) - Done <= at /\ SizeOf(Rec) = OpsOf(Rec) + Bit(Rec.flags.drop)
          /\ Done < OpsOf(Rec) /\ OpsOf(Rec) = Rec.wr + Rec.rd /\ Rec.wr \in Nat /\ Rec.rd \in Nat
          /\ Done \in Int /\ at <= Len(Left) /\ Len(Left) \in Nat
      BY <1>1, <1>4, <2>1, FirstRecord
    <3>2. Bit(Rec.flags.drop) \in Nat
      BY DEF Bit
    <3> DEFINE done == Done
               all == OpsOf(Rec)
               size == SizeOf(Rec)
               drop == Bit(Rec.flags.drop)
               ll == Len(Left)
    <3>3. size - done <= at /\ size = all + drop /\ done < all /\ all \in Nat /\ done \in Int
          /\ at <= ll /\ ll \in Nat /\ drop \in Nat
      BY <3>1, <3>2
    <3> HIDE DEF done, all, size, drop, ll
    <3>4. ll > 0
      BY <3>3
    <3> QED
      BY <1>1, <3>4 DEF ll
  <2>3. Left[1].cyc
    BY <1>1, <1>4, <2>2, NotAnEnd
  <2>4. flush # 1
    BY <1>1, <1>4 DEF Going, FlushOrderly
  <2>5. opFifo # <<>> /\ place[1] = 1 /\ ~SendNow
    BY <1>1, <2>2, <2>3, <2>4, FrontIsNext
  <2> QED
    BY <1>4, <2>2, <2>3, <2>5 DEF OpPop
<1>5. ASSUME framer.state \in {"NEXT", "SEND"}
      PROVE  told' = <<>> /\ (OpPop(in) <=> SendNow) /\ (SendNow => opFifo[1].send /\ flush = 1)
  <2>1. told' = <<>>
    BY <1>2, <1>5
  <2>2. OpPop(in) <=> SendNow
    BY <1>5 DEF OpPop, SendNow
  <2>3. ASSUME SendNow PROVE opFifo[1].send /\ flush = 1
    <3>1. opFifo # <<>> /\ opFifo[1].send
      BY <2>3 DEF SendNow
    <3>2. 1 \in 1..Len(opFifo)
      BY <1>1, <3>1 DEF MasterTypeOK
    <3> QED
      BY <1>1, <1>5, <3>1, <3>2, SendAtFront
  <2> QED
    BY <2>1, <2>2, <2>3
<1>6. OpPop(in) => framer.state \in {"WRITE", "READ", "NEXT", "SEND"}
  BY DEF OpPop
<1>7. ASSUME told' # <<>>, ~OpPop(in) PROVE framer.state = "LOAD" /\ Left[1] = End
  <2>1. framer.state = "LOAD" /\ Rec.flags.drop
    BY <1>2, <1>4, <1>7
  <2>2. told' = <<End>>
    BY <1>2, <2>1 DEF Reading
  <2> QED
    BY <1>3, <1>7, <2>1, <2>2
<1>8. ASSUME told' # <<>>, OpPop(in)
      PROVE  framer.state \in {"WRITE", "READ"} /\ Left[1].cyc /\ place[1] = 1
  BY <1>2, <1>4, <1>6, <1>8
<1>9. ASSUME told' = <<>>, OpPop(in)
      PROVE  framer.state \in {"NEXT", "SEND"} /\ opFifo[1].send /\ flush = 1
  BY <1>2, <1>4, <1>5, <1>6, <1>9
<1> QED
  BY <1>3, <1>5, <1>7, <1>8, <1>9

LEMMA FlushMoves ==
  ASSUME NEW in \in Inputs, NEW cut, NEW at \in Nat, NEW place, NEW b \in Nat,
         Stepping(in, cut, at, place, b), told # <<>> => owed # <<>>,
         NEW d, d = Bit(told' # <<>>)
  PROVE  /\ in.send => flush = 0 /\ flush' = Len(Left') + 1 /\ ~in.cyc /\ TxCyc
         /\ ~in.send /\ flush = 0 => flush' = 0
         /\ ~in.send /\ flush = 1 => d = 0 /\ flush' = IF framer.state = "SEND" THEN 0 ELSE 1
         /\ ~in.send /\ flush > 1 => flush' = flush - d
         /\ flush \in Nat
<1>1. /\ MasterTypeOK /\ MasterTypeOK' /\ MasterClock(in) /\ Going(cut, at, place)
      /\ Served /\ Conforms(in) /\ Considerate(in)
  BY DEF Stepping, MasterClock
<1>2. told' # <<>> => Left # <<>>
  BY PopIs
<1>3. Len(Left') = Len(owed') - d /\ owed' \in Seq(FifoEntries) /\ Left' \in Seq(FifoEntries)
  BY <1>1, <1>2, LeftMoves
<1>4. Len(told') = d /\ (d = 0 \/ d = 1) /\ (d = 1 <=> told' # <<>>)
  <2>1. (d = 0 \/ d = 1) /\ (d = 1 <=> told' # <<>>)
    BY DEF Bit
  <2> QED
    BY <1>1, <2>1, ToldIs
<1>5. flush' = CASE in.send -> Len(owed') - Len(told') + 1
                 [] flush = 1 /\ framer.state = "SEND" -> 0
                 [] flush > 1 /\ told' # <<>> -> flush - 1
                 [] OTHER -> flush
  BY <1>1 DEF MasterClock, Ghosts
<1>6. in.send => flush = 0 /\ ~in.cyc /\ TxCyc
  BY <1>1, InputIs
<1>7. flush \in Nat
  BY <1>1 DEF MasterTypeOK
<1>8. ASSUME in.send PROVE flush' = Len(Left') + 1
  <2>1. flush' = Len(owed') - Len(told') + 1
    BY <1>5, <1>6, <1>8
  <2> QED
    BY <1>3, <1>4, <2>1
<1>9. flush = 1 => framer.state \in {"NEXT", "SEND"}
  BY <1>1 DEF Going, FlushOrderly
<1>10. flush = 1 => d = 0
  BY <1>4, <1>9, PopIs
<1>11. ASSUME ~in.send, flush = 0 PROVE flush' = 0
  BY <1>5, <1>11
<1>12. ASSUME ~in.send, flush = 1 PROVE flush' = IF framer.state = "SEND" THEN 0 ELSE 1
  BY <1>4, <1>5, <1>10, <1>12
<1>13. ASSUME ~in.send, flush > 1 PROVE flush' = flush - d
  <2>1. flush # 1
    BY <1>7, <1>13
  <2> QED
    BY <1>4, <1>5, <1>7, <1>13, <2>1
<1> QED
  BY <1>6, <1>7, <1>8, <1>10, <1>11, <1>12, <1>13

(* The words of what is left stay in their order behind one another.       *)
LEMMA PlacesMove ==
  ASSUME NEW in \in Inputs, NEW cut, NEW at \in Nat, NEW place, NEW b \in Nat,
         Stepping(in, cut, at, place, b), told # <<>> => owed # <<>>
  PROVE  \E c : Placed(c)'
<1> DEFINE d == Bit(told' # <<>>)
           p == Bit(OpPop(in))
           lo == Len(Left)
           ln == Len(Left')
           wo == Len(opFifo)
           wn == Len(opFifo')
           old == Left
           new == Left'
           was == opFifo
           now == opFifo'
           fl == flush
           fl2 == flush'
           acc == Accepted(in)
<1> SUFFICES ASSUME NEW c, c = [k \in 1..ln |-> IF k + d <= lo THEN place[k+d] - p ELSE wo - p + 1]
             PROVE  Placed(c)'
  OBVIOUS
<1>1. /\ MasterTypeOK /\ MasterTypeOK' /\ MasterClock(in) /\ Going(cut, at, place)
      /\ old \in Seq(FifoEntries) /\ new \in Seq(FifoEntries)
      /\ Served /\ Conforms(in) /\ Considerate(in) /\ Placed(place) /\ FlushOrderly
  BY DEF Stepping, MasterClock, Going
<1>2. /\ d \in Nat /\ d <= 1 /\ (d = 1 <=> told' # <<>>)
      /\ lo \in Nat /\ ln \in Nat /\ d <= lo
      /\ ln = lo - d + Bit(acc \/ Falls(in))
      /\ \A i \in 1..ln : i + d <= lo => i + d \in 1..lo /\ new[i] = old[i+d]
      /\ \A i \in 1..ln : i + d > lo =>
            i = ln /\ new[i] = Added(in)[1] /\ (acc \/ Falls(in))
  BY LeftIs
<1>3. /\ p \in Nat /\ p <= 1 /\ (p = 1 <=> OpPop(in)) /\ p <= wo
      /\ wo \in Nat /\ wn \in Nat
      /\ wn = wo - p + Bit(acc \/ in.send)
      /\ \A n \in 1..wn : n + p <= wo => n + p \in 1..wo /\ now[n] = was[n+p]
      /\ \A n \in 1..wn : n + p > wo =>
            /\ n = wn /\ (acc \/ in.send)
            /\ now[n].send = in.send /\ now[n].word = WordOf(in.op)
      /\ acc => ~in.send
      /\ in.send \in BOOLEAN
  BY WordsAre
<1>4. /\ acc => Added(in)[1] = Operation(in.op) /\ Operation(in.op).cyc /\ Operation(in.op).op = in.op
      /\ Falls(in) => Added(in)[1] = End /\ ~End.cyc /\ ~acc
  <2>1. in.op \in OpShape /\ (acc => ~Falls(in))
    BY <1>1, InputIs
  <2> QED
    BY <1>1, <2>1, AddedIs, OperationIs, EndIs
<1>5. /\ told' # <<>> => Left # <<>>
      /\ told' # <<>> /\ OpPop(in) =>
           framer.state \in {"WRITE", "READ"} /\ Left[1].cyc /\ place[1] = 1
      /\ told' # <<>> /\ ~OpPop(in) => framer.state = "LOAD" /\ Left[1] = End
      /\ OpPop(in) /\ told' = <<>> =>
           framer.state \in {"NEXT", "SEND"} /\ opFifo[1].send /\ flush = 1
      /\ framer.state \in {"NEXT", "SEND"} => told' = <<>> /\ (OpPop(in) <=> SendNow)
  BY PopIs
<1>6. /\ in.send => fl = 0 /\ fl2 = ln + 1
      /\ ~in.send /\ fl = 0 => fl2 = 0
      /\ ~in.send /\ fl = 1 => d = 0 /\ fl2 = IF framer.state = "SEND" THEN 0 ELSE 1
      /\ ~in.send /\ fl > 1 => fl2 = fl - d
      /\ fl \in Nat
  BY FlushMoves
<1>7. \A k \in 1..lo : old[k].cyc => /\ place[k] \in 1..wo /\ place[k] \in Int /\ ~was[place[k]].send
                                    /\ was[place[k]].word = WordOf(old[k].op)
  BY <1>1, PlacesAre
<1>8. /\ place \in [1..lo -> Int]
      /\ \A i, j \in 1..lo : i < j /\ old[i].cyc /\ old[j].cyc => place[i] < place[j]
      /\ \A i, j \in 1..lo : i < j /\ (\A k \in i..j : old[k].cyc) => place[j] - place[i] >= j - i
      /\ \A n \in 1..wo : ~was[n].send => \E k \in 1..lo : old[k].cyc /\ place[k] = n
      /\ \A n \in 1..wo : was[n].send =>
           /\ fl # 0
           /\ \A k \in 1..lo : old[k].cyc => (place[k] < n <=> k < fl)
      /\ \A m, n \in 1..wo : was[m].send /\ was[n].send => m = n
  BY <1>1 DEF Placed
<1>9. fl <= lo + 1
  BY <1>1 DEF FlushOrderly
<1>10. Placed(c)' <=>
        /\ c \in [1..ln -> Int]
        /\ \A k \in 1..ln : new[k].cyc =>
             /\ 1 <= c[k] /\ c[k] <= wn /\ ~now[c[k]].send
             /\ now[c[k]].word = WordOf(new[k].op)
        /\ \A i, j \in 1..ln : i < j /\ new[i].cyc /\ new[j].cyc => c[i] < c[j]
        /\ \A i, j \in 1..ln : i < j /\ (\A k \in i..j : new[k].cyc) => c[j] - c[i] >= j - i
        /\ \A n \in 1..wn : ~now[n].send => \E k \in 1..ln : new[k].cyc /\ c[k] = n
        /\ \A n \in 1..wn : now[n].send =>
             /\ fl2 # 0
             /\ \A k \in 1..ln : new[k].cyc => (c[k] < n <=> k < fl2)
        /\ \A m, n \in 1..wn : now[m].send /\ now[n].send => m = n
  BY DEF Placed, WordOf
<1>11. \A n \in 1..wo : was[n].send /\ framer.state # "LOAD" => (n = 1 <=> fl = 1)
  BY <1>1, SendAtFront
<1>12. wo # 0 => was # <<>>
  BY DEF MasterTypeOK
<1>13. SendNow <=> was # <<>> /\ was[1].send
  BY DEF SendNow
<1>14. acc \in BOOLEAN /\ Falls(in) \in BOOLEAN
  BY <1>1, InputIs
<1> HIDE DEF d, p, lo, ln, wo, wn, old, new, was, now, fl, fl2, acc
<1>15. /\ (acc => Bit(acc \/ Falls(in)) = 1 /\ Bit(acc \/ in.send) = 1)
       /\ (in.send => Bit(acc \/ in.send) = 1)
       /\ Bit(acc \/ Falls(in)) \in Nat /\ Bit(acc \/ in.send) \in Nat
  BY DEF Bit
<1>16. /\ \A k \in 1..ln : k + d <= lo => c[k] = place[k+d] - p
       /\ \A k \in 1..ln : k + d > lo => c[k] = wo - p + 1
  <2> SUFFICES ASSUME NEW k \in 1..ln
               PROVE  (k + d <= lo => c[k] = place[k+d] - p) /\ (k + d > lo => c[k] = wo - p + 1)
    OBVIOUS
  <2>1. k + d > lo => ~(k + d <= lo)
    BY <1>2
  <2> QED
    BY <2>1
<1>17. c \in [1..ln -> Int]
  <2> SUFFICES ASSUME NEW k \in 1..ln
               PROVE  (IF k + d <= lo THEN place[k+d] - p ELSE wo - p + 1) \in Int
    OBVIOUS
  <2>1. CASE k + d <= lo
    <3>1. k + d \in 1..lo
      BY <1>2, <2>1
    <3>2. place[k+d] \in Int
      BY <1>8, <3>1
    <3> QED
      BY <1>3, <2>1, <3>2
  <2>2. CASE ~(k + d <= lo)
    BY <1>3, <2>2
  <2> QED
    BY <2>1, <2>2
(* An operation that was there.                                            *)
<1>18. ASSUME NEW k \in 1..ln, new[k].cyc, k + d <= lo
       PROVE  /\ k + d \in 1..lo /\ new[k] = old[k+d] /\ old[k+d].cyc
              /\ place[k+d] \in 1..wo /\ place[k+d] \in Int
              /\ c[k] \in 1..wn /\ c[k] + p = place[k+d] /\ c[k] + p <= wo
              /\ now[c[k]] = was[place[k+d]]
  <2>1. k + d \in 1..lo /\ new[k] = old[k+d] /\ old[k+d].cyc
    BY <1>2, <1>18
  <2>2. place[k+d] \in 1..wo /\ place[k+d] \in Int /\ ~was[place[k+d]].send
    BY <1>7, <2>1
  <2>3. c[k] + p = place[k+d] /\ c[k] \in Int
    <3>1. c[k] = place[k+d] - p
      BY <1>16, <1>18
    <3> QED
      BY <1>3, <2>2, <3>1
  <2>4. p = 1 => place[k+d] # 1
    <3> SUFFICES ASSUME p = 1, place[k+d] = 1 PROVE FALSE
      OBVIOUS
    <3>1. CASE d = 1
      <4>1. place[1] = 1 /\ old[1].cyc
        BY <1>2, <1>3, <1>5, <3>1 DEF old
      <4>2. 1 \in 1..lo /\ 1 < k + d
        BY <1>2, <2>1, <3>1
      <4>3. place[1] < place[k+d]
        BY <1>8, <2>1, <4>1, <4>2
      <4> QED
        BY <2>2, <4>1, <4>3
    <3>2. CASE d = 0
      <4>1. was[1].send
        BY <1>2, <1>3, <1>5, <3>2 DEF was
      <4> QED
        BY <2>2, <4>1
    <3> QED
      BY <1>2, <3>1, <3>2
  <2>5. c[k] \in 1..wn /\ c[k] + p <= wo
    <3> DEFINE x == place[k+d]
               y == c[k]
    <3>1. x \in 1..wo /\ x \in Int /\ y \in Int /\ y + p = x /\ (p = 1 => x # 1)
      BY <2>2, <2>3, <2>4
    <3> HIDE DEF x, y
    <3>2. wn >= wo - p
      BY <1>3, <1>15
    <3>3. y \in 1..wn /\ y + p <= wo
      BY <1>3, <3>1, <3>2
    <3> QED
      BY <3>3 DEF y
  <2>6. now[c[k]] = was[place[k+d]]
    BY <1>3, <2>3, <2>5
  <2> QED
    BY <2>1, <2>2, <2>3, <2>5, <2>6
(* One that comes.                                                         *)
<1>19. ASSUME NEW k \in 1..ln, new[k].cyc, k + d > lo
       PROVE  /\ acc /\ k = ln /\ ln = lo - d + 1 /\ wn = wo - p + 1 /\ c[k] = wn
              /\ wn \in 1..wn /\ ~now[wn].send /\ now[wn].word = WordOf(in.op) /\ new[k].op = in.op
  <2>1. k = ln /\ new[k] = Added(in)[1] /\ (acc \/ Falls(in))
    BY <1>2, <1>19
  <2>2. acc
    BY <1>4, <1>19, <2>1
  <2>3. ln = lo - d + 1 /\ wn = wo - p + 1
    BY <1>2, <1>3, <1>15, <2>2
  <2>4. c[k] = wn
    BY <1>16, <1>19, <2>3
  <2>5. wn \in 1..wn /\ wn + p > wo
    BY <1>3, <2>3
  <2> QED
    BY <1>3, <1>4, <2>1, <2>2, <2>3, <2>4, <2>5
<1>20. ASSUME NEW k \in 1..ln, new[k].cyc
       PROVE  /\ c[k] \in 1..wn /\ 1 <= c[k] /\ c[k] <= wn /\ ~now[c[k]].send
              /\ now[c[k]].word = WordOf(new[k].op)
  <2>1. CASE k + d <= lo
    <3>1. /\ k + d \in 1..lo /\ new[k] = old[k+d] /\ old[k+d].cyc
          /\ c[k] \in 1..wn /\ now[c[k]] = was[place[k+d]]
      BY <1>18, <1>20, <2>1
    <3>2. ~was[place[k+d]].send /\ was[place[k+d]].word = WordOf(old[k+d].op)
      BY <1>7, <3>1
    <3>3. 1 <= c[k] /\ c[k] <= wn
      BY <1>3, <3>1
    <3>4. ~now[c[k]].send
      BY <3>1, <3>2
    <3>5. now[c[k]].word = WordOf(new[k].op)
      BY <3>1, <3>2
    <3> QED
      BY <3>1, <3>3, <3>4, <3>5
  <2>2. CASE k + d > lo
    <3>1. /\ c[k] = wn /\ wn \in 1..wn /\ ~now[wn].send
          /\ now[wn].word = WordOf(in.op) /\ new[k].op = in.op
      BY <1>19, <1>20, <2>2
    <3>2. 1 <= wn /\ wn <= wn
      BY <1>3, <3>1
    <3> QED
      BY <3>1, <3>2
  <2> QED
    BY <1>2, <2>1, <2>2
<1>21. ASSUME NEW i \in 1..ln, NEW j \in 1..ln, i < j, new[i].cyc, new[j].cyc PROVE c[i] < c[j]
  <2>1. i + d <= lo
    BY <1>2, <1>19, <1>21
  <2>2. CASE j + d <= lo
    <3>1. place[i+d] < place[j+d]
      <4>1. i + d < j + d
        BY <1>2, <1>21
      <4> QED
        BY <1>8, <1>18, <1>21, <2>1, <2>2, <4>1
    <3>2. /\ c[i] + p = place[i+d] /\ place[i+d] \in Int /\ c[i] \in 1..wn
      BY <1>18, <1>21, <2>1
    <3>3. /\ c[j] + p = place[j+d] /\ place[j+d] \in Int /\ c[j] \in 1..wn
      BY <1>18, <1>21, <2>2
    <3> DEFINE ca == c[i]
               cb == c[j]
    <3>4. ca + p < cb + p
      BY <3>1, <3>2, <3>3
    <3>5. ca \in Int /\ cb \in Int
      BY <3>2, <3>3
    <3> HIDE DEF ca, cb
    <3>6. ca < cb
      BY <1>3, <3>4, <3>5
    <3> QED
      BY <3>6 DEF ca, cb
  <2>3. CASE j + d > lo
    <3>1. c[j] = wn /\ wn = wo - p + 1
      BY <1>19, <1>21, <2>3
    <3>2. c[i] \in 1..wn /\ c[i] + p <= wo
      BY <1>18, <1>21, <2>1
    <3> QED
      BY <1>3, <3>1, <3>2
  <2> QED
    BY <1>2, <2>2, <2>3
<1>22. ASSUME NEW i \in 1..ln, NEW j \in 1..ln, i < j, \A k \in i..j : new[k].cyc
       PROVE  c[j] - c[i] >= j - i
  <2>1. i \in i..j /\ j \in i..j
    BY <1>2, <1>22
  <2>2. new[i].cyc /\ new[j].cyc
    BY <1>22, <2>1
  <2>3. i + d <= lo
    BY <1>2, <1>19, <1>22, <2>2
  <2>4. \A m \in 1..lo : i + d <= m /\ m <= j + d => old[m].cyc
    <3> SUFFICES ASSUME NEW m \in 1..lo, i + d <= m, m <= j + d PROVE old[m].cyc
      OBVIOUS
    <3>1. m - d \in i..j /\ m - d \in 1..ln /\ (m - d) + d = m /\ (m - d) + d <= lo
      BY <1>2, <1>22
    <3>2. new[m-d].cyc /\ new[m-d] = old[(m-d)+d]
      BY <1>2, <1>22, <3>1
    <3> QED
      BY <3>1, <3>2
  <2>5. ASSUME NEW m \in 1..lo, i + d < m, m <= j + d PROVE place[m] - place[i+d] >= m - (i + d)
    <3>1. i + d \in 1..lo
      BY <1>2, <2>3
    <3>2. \A k \in i+d..m : old[k].cyc
      <4> SUFFICES ASSUME NEW k \in i+d..m PROVE old[k].cyc
        OBVIOUS
      <4>1. k \in 1..lo /\ i + d <= k /\ k <= j + d
        BY <1>2, <2>5, <3>1
      <4> QED
        BY <2>4, <4>1
    <3> QED
      BY <1>8, <2>5, <3>1, <3>2
  <2>6. CASE j + d <= lo
    <3>1. j + d \in 1..lo /\ i + d < j + d /\ j + d <= j + d
      BY <1>2, <1>22, <2>6
    <3>2. place[j+d] - place[i+d] >= (j + d) - (i + d)
      BY <2>5, <3>1
    <3>3. /\ c[i] + p = place[i+d] /\ c[j] + p = place[j+d] /\ c[i] \in 1..wn /\ c[j] \in 1..wn
      BY <1>18, <2>2, <2>3, <2>6
    <3> DEFINE ca == c[i]
               cb == c[j]
    <3>4. (cb + p) - (ca + p) >= (j + d) - (i + d)
      BY <3>2, <3>3
    <3>5. ca \in Int /\ cb \in Int /\ i \in Int /\ j \in Int
      BY <3>3
    <3> HIDE DEF ca, cb
    <3>6. cb - ca >= j - i
      BY <1>2, <1>3, <3>4, <3>5
    <3> QED
      BY <3>6 DEF ca, cb
  <2>7. CASE j + d > lo
    <3>1. c[j] = wn /\ wn = wo - p + 1 /\ j = ln /\ ln = lo - d + 1
      BY <1>19, <2>2, <2>7
    <3>2. /\ c[i] + p = place[i+d] /\ c[i] \in 1..wn /\ place[i+d] \in 1..wo /\ i + d \in 1..lo
      BY <1>18, <2>2, <2>3
    <3>3. wo - place[i+d] >= lo - (i + d)
      <4>3. place[i+d] \in Int /\ place[i+d] <= wo /\ i + d \in Int
        BY <1>3, <3>2
      <4>1. CASE i + d = lo
        <5> DEFINE ca == place[i+d]
                   k == i + d
        <5>1. ca \in Int /\ ca <= wo /\ k = lo
          BY <4>1, <4>3
        <5> HIDE DEF ca, k
        <5>2. wo - ca >= lo - k
          BY <1>2, <1>3, <5>1
        <5> QED
          BY <5>2 DEF ca, k
      <4>2. CASE i + d < lo
        <5>1. lo \in 1..lo /\ lo <= j + d
          BY <1>2, <2>7, <4>2
        <5>2. place[lo] - place[i+d] >= lo - (i + d)
          BY <2>5, <4>2, <5>1
        <5>3. old[lo].cyc
          <6>1. i + d <= lo
            BY <1>2, <4>2, <4>3
          <6> QED
            BY <2>4, <5>1, <6>1
        <5>4. place[lo] \in 1..wo /\ place[lo] \in Int
          BY <1>7, <5>1, <5>3
        <5> DEFINE ca == place[i+d]
                   cb == place[lo]
                   k == i + d
        <5>5. ca \in Int /\ cb \in Int /\ cb <= wo /\ k \in Int /\ cb - ca >= lo - k
          BY <4>3, <5>2, <5>4
        <5> HIDE DEF ca, cb, k
        <5>6. wo - ca >= lo - k
          BY <1>2, <1>3, <5>5
        <5> QED
          BY <5>6 DEF ca, k
      <4> QED
        BY <1>2, <2>3, <4>1, <4>2
    <3> DEFINE x == place[i+d]
               y == c[i]
               z == c[j]
    <3>4. /\ y + p = x /\ x \in Nat /\ y \in Nat /\ z = wo - p + 1 /\ wo - x >= lo - (i + d)
          /\ j = lo - d + 1
      <4>1. x \in 1..wo /\ y \in 1..wn /\ y + p = x
        BY <3>2
      <4>2. z = wo - p + 1 /\ j = lo - d + 1
        BY <3>1
      <4>3. wo - x >= lo - (i + d)
        BY <3>3
      <4> HIDE DEF x, y, z
      <4>4. x \in Nat /\ y \in Nat
        BY <1>3, <4>1
      <4> QED
        BY <4>1, <4>2, <4>3, <4>4
    <3> HIDE DEF x, y, z
    <3>5. lo \in Int /\ wo \in Int /\ p \in Int /\ d \in Int /\ i \in Int /\ j \in Int
      BY <1>2, <1>3
    <3>6. z - y = wo - x + 1
      BY <3>4, <3>5
    <3>7. j - i = lo - (i + d) + 1
      BY <3>4, <3>5
    <3>8. z - y >= j - i
      BY <3>4, <3>5, <3>6, <3>7
    <3> QED
      BY <3>8 DEF y, z
  <2> QED
    BY <1>2, <2>6, <2>7
(* A word that waits.                                                      *)
<1>23. ASSUME NEW n \in 1..wn, ~now[n].send PROVE \E k \in 1..ln : new[k].cyc /\ c[k] = n
  <2>1. CASE n + p <= wo
    <3>1. n + p \in 1..wo /\ now[n] = was[n+p]
      BY <1>3, <2>1
    <3>2. PICK m \in 1..lo : old[m].cyc /\ place[m] = n + p
      BY <1>8, <1>23, <3>1
    <3>3. m > d
      <4> SUFFICES ASSUME d = 1, m = 1 PROVE FALSE
        BY <1>2
      <4>1. OpPop(in) /\ place[1] = 1
        BY <1>2, <1>4, <1>5, <3>2, EndIs DEF old
      <4> QED
        BY <1>3, <3>2, <4>1
    <3>4. m - d \in 1..ln /\ (m - d) + d = m /\ (m - d) + d <= lo
      BY <1>2, <1>15, <3>3
    <3>5. new[m-d].cyc /\ c[m-d] = place[m] - p
      BY <1>2, <1>16, <3>2, <3>4
    <3>6. c[m-d] = n
      BY <1>3, <3>2, <3>5
    <3> QED
      BY <3>4, <3>5, <3>6
  <2>2. CASE n + p > wo
    <3>1. n = wn /\ ~in.send /\ (acc \/ in.send)
      BY <1>3, <1>23, <2>2
    <3>2. acc /\ ln = lo - d + 1 /\ wn = wo - p + 1
      BY <1>2, <1>3, <1>15, <3>1
    <3>3. ln \in 1..ln /\ ln + d > lo
      BY <1>2, <3>2
    <3>4. new[ln].cyc /\ c[ln] = wn
      BY <1>2, <1>4, <1>16, <3>2, <3>3
    <3> QED
      BY <3>1, <3>3, <3>4
  <2> QED
    BY <1>3, <2>1, <2>2
(* A flush that waits.                                                     *)
<1>24. ASSUME NEW n \in 1..wn, now[n].send, n + p <= wo
       PROVE  /\ n + p \in 1..wo /\ was[n+p].send /\ fl # 0 /\ ~in.send
              /\ ~(fl = 1 /\ framer.state = "SEND") /\ fl2 = fl - d /\ fl2 # 0
  <2>1. n + p \in 1..wo /\ was[n+p].send
    BY <1>3, <1>24
  <2>2. fl # 0 /\ ~in.send
    BY <1>6, <1>8, <2>1
  <2>3. ~(fl = 1 /\ framer.state = "SEND")
    <3> SUFFICES ASSUME fl = 1, framer.state = "SEND" PROVE FALSE
      OBVIOUS
    <3>1. n + p = 1
      BY <1>11, <2>1
    <3>2. was # <<>> /\ was[1].send
      BY <1>3, <1>12, <2>1, <3>1
    <3>3. p = 1
      BY <1>3, <1>5, <1>13, <3>2
    <3> QED
      BY <1>3, <3>1, <3>3
  <2>4. fl2 = fl - d /\ fl2 # 0
    <3>1. CASE fl = 1
      BY <1>6, <2>2, <2>3, <3>1
    <3>2. CASE fl > 1
      BY <1>2, <1>6, <2>2, <3>2
    <3> QED
      BY <1>6, <2>2, <3>1, <3>2
  <2> QED
    BY <2>1, <2>2, <2>3, <2>4
<1>25. ASSUME NEW n \in 1..wn, now[n].send, n + p > wo
       PROVE  n = wn /\ in.send /\ fl = 0 /\ fl2 = ln + 1 /\ ~acc /\ wn = wo - p + 1
  BY <1>3, <1>6, <1>15, <1>25
<1>26. ASSUME NEW n \in 1..wn, now[n].send
       PROVE  /\ fl2 # 0
              /\ \A k \in 1..ln : new[k].cyc => (c[k] < n <=> k < fl2)
  <2>1. CASE n + p <= wo
    <3>1. /\ n + p \in 1..wo /\ was[n+p].send /\ fl # 0 /\ ~in.send
          /\ fl2 = fl - d /\ fl2 # 0
      BY <1>24, <1>26, <2>1
    <3>2. ASSUME NEW k \in 1..ln, new[k].cyc PROVE c[k] < n <=> k < fl2
      <4>1. CASE k + d <= lo
        <5>1. place[k+d] < n + p <=> k + d < fl
          BY <1>8, <1>18, <3>1, <3>2, <4>1
        <5>2. c[k] + p = place[k+d] /\ c[k] \in 1..wn
          BY <1>18, <3>2, <4>1
        <5>3. c[k] < n <=> place[k+d] < n + p
          BY <1>3, <5>2
        <5>4. k < fl2 <=> k + d < fl
          BY <1>2, <1>6, <3>1
        <5> QED
          BY <5>1, <5>3, <5>4
      <4>2. CASE k + d > lo
        <5>1. k = ln /\ ln = lo - d + 1 /\ wn = wo - p + 1 /\ c[k] = wn
          BY <1>19, <3>2, <4>2
        <5>2. ~(c[k] < n)
          BY <1>3, <5>1
        <5>3. ~(k < fl2)
          BY <1>2, <1>6, <1>9, <3>1, <5>1
        <5> QED
          BY <5>2, <5>3
      <4> QED
        BY <1>2, <4>1, <4>2
    <3> QED
      BY <3>1, <3>2
  <2>2. CASE n + p > wo
    <3>1. n = wn /\ in.send /\ fl2 = ln + 1 /\ ~acc /\ wn = wo - p + 1
      BY <1>25, <1>26, <2>2
    <3>2. ASSUME NEW k \in 1..ln, new[k].cyc PROVE c[k] < n /\ k < fl2
      <4>1. k + d <= lo
        BY <1>2, <1>19, <3>1, <3>2
      <4>2. c[k] + p <= wo /\ c[k] \in 1..wn
        BY <1>18, <3>2, <4>1
      <4>3. c[k] < n
        <5> DEFINE ca == c[k]
        <5>1. ca + p <= wo /\ ca \in Int /\ n = wo - p + 1
          BY <3>1, <4>2
        <5> HIDE DEF ca
        <5>2. ca < n
          BY <1>3, <5>1
        <5> QED
          BY <5>2 DEF ca
      <4>4. k < fl2
        BY <1>2, <3>1
      <4> QED
        BY <4>3, <4>4
    <3>3. fl2 # 0
      BY <1>2, <3>1
    <3> QED
      BY <3>2, <3>3
  <2> QED
    BY <1>3, <2>1, <2>2
<1>27. ASSUME NEW m \in 1..wn, NEW n \in 1..wn, now[m].send, now[n].send PROVE m = n
  <2>1. CASE m + p <= wo /\ n + p <= wo
    <3>1. m + p = n + p
      BY <1>8, <1>24, <1>27, <2>1
    <3> QED
      BY <1>3, <3>1
  <2>2. CASE m + p > wo /\ n + p > wo
    BY <1>25, <1>27, <2>2
  <2>3. CASE m + p <= wo /\ n + p > wo
    BY <1>24, <1>25, <1>27, <2>3
  <2>4. CASE m + p > wo /\ n + p <= wo
    BY <1>24, <1>25, <1>27, <2>4
  <2> QED
    BY <1>3, <2>1, <2>2, <2>3, <2>4
<1> QED
  BY <1>10, <1>17, <1>20, <1>21, <1>22, <1>23, <1>26, <1>27

LEMMA AfterNext ==
  ASSUME NEW in \in Inputs, MasterClock(in), framer.state = "NEXT"
  PROVE  /\ SendNow => framer'.state = "SEND"
         /\ recFifo = <<>> => framer'.state \in {"NEXT", "SEND"}
<1>1. framer'.state = NextState(in)
  BY DEF MasterClock, Framer
<1>2. NextState(in) = AfterRecord
  BY DEF NextState, Talking
<1> QED
  BY <1>1, <1>2 DEF AfterRecord

(* A flush stays behind the end of a cycle, and is seen when it has come   *)
(* to the front.                                                           *)
LEMMA FlushGoes ==
  ASSUME NEW in \in Inputs, NEW cut, NEW at \in Nat, NEW place, NEW b \in Nat,
         Stepping(in, cut, at, place, b), told # <<>> => owed # <<>>
  PROVE  FlushOrderly'
<1> DEFINE d == Bit(told' # <<>>)
           p == Bit(OpPop(in))
           lo == Len(Left)
           ln == Len(Left')
           wo == Len(opFifo)
           wn == Len(opFifo')
           fl == flush
           fl2 == flush'
<1>1. /\ MasterTypeOK /\ MasterTypeOK' /\ MasterClock(in) /\ Going(cut, at, place)
      /\ Left \in Seq(FifoEntries) /\ Left' \in Seq(FifoEntries)
      /\ Placed(place) /\ FlushOrderly /\ Open(Left) /\ FramerOrderly
  BY DEF Stepping, MasterClock, Going, Cycles
<1>2. /\ d \in Nat /\ d <= 1 /\ (d = 1 <=> told' # <<>>)
      /\ lo \in Nat /\ ln \in Nat /\ d <= lo
      /\ ln = lo - d + Bit(Accepted(in) \/ Falls(in))
      /\ \A i \in 1..ln : i + d <= lo => i + d \in 1..lo /\ Left'[i] = Left[i+d]
  BY LeftIs
<1>3. /\ p \in Nat /\ p <= 1 /\ (p = 1 <=> OpPop(in)) /\ p <= wo
      /\ wo \in Nat /\ wn \in Nat
      /\ wn = wo - p + Bit(Accepted(in) \/ in.send)
      /\ \A n \in 1..wn : n + p <= wo => n + p \in 1..wo /\ opFifo'[n] = opFifo[n+p]
      /\ \A n \in 1..wn : n + p > wo => n = wn /\ opFifo'[n].send = in.send
  BY WordsAre
<1>4. /\ told' # <<>> /\ OpPop(in) => Left # <<>> /\ Left[1].cyc /\ place[1] = 1
      /\ told' # <<>> /\ ~OpPop(in) => framer.state = "LOAD" /\ Left[1] = End
      /\ OpPop(in) /\ told' = <<>> => framer.state \in {"NEXT", "SEND"} /\ fl = 1
      /\ framer.state \in {"NEXT", "SEND"} => told' = <<>> /\ (OpPop(in) <=> SendNow)
  BY PopIs
<1>5. /\ in.send => fl = 0 /\ fl2 = ln + 1 /\ ~in.cyc /\ TxCyc
      /\ ~in.send /\ fl = 0 => fl2 = 0
      /\ ~in.send /\ fl = 1 => d = 0 /\ fl2 = IF framer.state = "SEND" THEN 0 ELSE 1
      /\ ~in.send /\ fl > 1 => fl2 = fl - d
      /\ fl \in Nat
  BY FlushMoves
<1>6. Bit(Accepted(in) \/ Falls(in)) \in Nat /\ Bit(Accepted(in) \/ in.send) \in Nat
      /\ (Falls(in) => Bit(Accepted(in) \/ Falls(in)) = 1)
      /\ (in.send => Bit(Accepted(in) \/ in.send) = 1)
  BY DEF Bit
<1>7. framer.state = "LOAD" => framer'.state = "NEXT"
  BY FramerMoves
<1>8. /\ fl <= lo + 1
      /\ fl > 1 => Left[fl - 1] = End
      /\ fl = 1 => framer.state \in {"NEXT", "SEND"}
      /\ fl # 0 => \/ fl = 1 /\ framer.state = "SEND"
                   \/ \E n \in 1..wo : opFifo[n].send
  BY <1>1 DEF FlushOrderly
<1>9. FlushOrderly' <=>
        /\ fl2 <= ln + 1
        /\ fl2 > 1 => Left'[fl2 - 1] = End
        /\ fl2 = 1 => framer'.state \in {"NEXT", "SEND"}
        /\ fl2 # 0 => \/ fl2 = 1 /\ framer'.state = "SEND"
                      \/ \E n \in 1..wn : opFifo'[n].send
  BY DEF FlushOrderly
<1>10. (ln = 0 <=> Left' = <<>>) /\ (lo = 0 <=> Left = <<>>)
  BY <1>1
<1>11. ASSUME in.send, recFifo # <<>>, framer.state # "LOAD" PROVE ln # 0
  <2>1. /\ SizeOf(Rec) - Done <= at /\ SizeOf(Rec) = OpsOf(Rec) + Bit(Rec.flags.drop)
        /\ Done < OpsOf(Rec) /\ OpsOf(Rec) = Rec.wr + Rec.rd /\ Rec.wr \in Nat /\ Rec.rd \in Nat
        /\ Done \in Int /\ at <= Len(Left) /\ Len(Left) \in Nat
    BY <1>1, <1>11, FirstRecord
  <2>2. Bit(Rec.flags.drop) \in Nat
    BY DEF Bit
  <2>3. lo > 0
    <3> DEFINE done == Done
               all == OpsOf(Rec)
               size == SizeOf(Rec)
               drop == Bit(Rec.flags.drop)
    <3>1. /\ size - done <= at /\ size = all + drop /\ done < all /\ all \in Nat /\ done \in Int
          /\ at <= lo /\ lo \in Nat /\ drop \in Nat
      BY <2>1, <2>2
    <3> HIDE DEF done, all, size, drop, lo
    <3> QED
      BY <3>1
  <2>4. Left # <<>> /\ Left[1].cyc
    BY <1>1, <1>10, <1>11, <2>3, NotAnEnd
  <2> SUFFICES ASSUME ln = 0 PROVE FALSE
    OBVIOUS
  <2>5. ~Falls(in) /\ lo = 1
    <3> HIDE DEF d, lo, ln
    <3>1. Bit(Accepted(in) \/ Falls(in)) # 1
      BY <1>2, <1>6, <2>3
    <3> QED
      BY <1>2, <1>6, <2>3, <3>1
  <2>6. Left[lo].cyc
    BY <2>4, <2>5
  <2>7. asked = <<>> => Left[lo] = End
    BY <1>1, <2>4 DEF Open
  <2>8. asked # <<>> => cycIn
    BY <1>1 DEF Open
  <2> QED
    BY <1>5, <1>11, <2>5, <2>6, <2>7, <2>8, EndIs DEF Falls
<1>12. ASSUME in.send, recFifo = <<>> PROVE framer.state = "NEXT"
  BY <1>1, <1>5, <1>12 DEF FramerOrderly, TxCyc, Talking
<1>13. Open(Left)'
  BY OpenGoes
<1>14. ~in.cyc => asked' = <<>>
  BY <1>1 DEF MasterClock, Ghosts
<1>15. in.send => ln = 0 \/ Left'[ln] = End
  BY <1>5, <1>10, <1>13, <1>14 DEF Open
<1> HIDE DEF d, p, lo, ln, wo, wn, fl, fl2
<1>16. fl2 <= ln + 1
  <2>1. CASE in.send \/ fl = 0 \/ fl = 1
    BY <1>2, <1>5, <2>1
  <2>2. CASE ~in.send /\ fl > 1
    BY <1>2, <1>5, <1>6, <1>8, <2>2
  <2> QED
    BY <1>5, <2>1, <2>2
<1>17. ASSUME fl2 > 1 PROVE Left'[fl2 - 1] = End
  <2>1. CASE in.send
    <3>1. fl2 - 1 = ln /\ ln # 0
      BY <1>2, <1>5, <1>17, <2>1
    <3> QED
      BY <1>15, <2>1, <3>1
  <2>2. CASE ~in.send
    <3>1. fl > 1 /\ fl2 = fl - d
      BY <1>5, <1>17, <2>2
    <3>2. fl2 - 1 \in 1..ln /\ (fl2 - 1) + d <= lo /\ (fl2 - 1) + d = fl - 1
      BY <1>2, <1>5, <1>6, <1>8, <1>17, <3>1
    <3> QED
      BY <1>2, <1>8, <3>1, <3>2
  <2> QED
    BY <2>1, <2>2
<1>18. ASSUME fl2 = 1 PROVE framer'.state \in {"NEXT", "SEND"}
  <2>1. CASE in.send
    <3>1. ln = 0
      BY <1>2, <1>5, <1>18, <2>1
    <3>2. CASE framer.state = "LOAD"
      BY <1>7, <3>2
    <3>3. CASE framer.state # "LOAD"
      <4>1. recFifo = <<>> /\ framer.state = "NEXT"
        BY <1>11, <1>12, <2>1, <3>1, <3>3
      <4> QED
        BY <1>1, <4>1, AfterNext
    <3> QED
      BY <3>2, <3>3
  <2>2. CASE ~in.send /\ fl = 1
    <3>1. framer.state = "NEXT"
      BY <1>5, <1>8, <1>18, <2>2
    <3>2. PICK n \in 1..wo : opFifo[n].send
      BY <1>8, <2>2, <3>1
    <3>3. n = 1
      BY <1>1, <2>2, <3>1, <3>2, SendAtFront DEF fl, wo
    <3>4. SendNow
      BY <1>3, <3>2, <3>3 DEF SendNow, wo
    <3> QED
      BY <1>1, <3>1, <3>4, AfterNext
  <2>3. CASE ~in.send /\ fl > 1
    <3>1. fl = 2 /\ d = 1
      BY <1>2, <1>5, <1>18, <2>3
    <3>2. Left[1] = End
      BY <1>8, <3>1
    <3> QED
      BY <1>2, <1>4, <1>7, <3>1, <3>2, EndIs
  <2> QED
    BY <1>5, <1>18, <2>1, <2>2, <2>3
<1>19. ASSUME fl2 # 0
       PROVE  \/ fl2 = 1 /\ framer'.state = "SEND"
              \/ \E n \in 1..wn : opFifo'[n].send
  <2>1. CASE in.send
    <3>1. wn \in 1..wn /\ wn + p > wo
      BY <1>3, <1>6, <2>1
    <3>2. opFifo'[wn].send
      BY <1>3, <2>1, <3>1
    <3> QED
      BY <3>1, <3>2
  <2>2. CASE ~in.send
    <3>1. fl # 0 /\ ~(fl = 1 /\ framer.state = "SEND")
      BY <1>5, <1>19, <2>2
    <3>2. PICK n \in 1..wo : opFifo[n].send
      BY <1>8, <3>1
    <3>3. CASE n > p
      <4>1. n - p \in 1..wn /\ (n - p) + p = n /\ n <= wo
        BY <1>3, <1>6, <3>3
      <4>2. opFifo'[n - p] = opFifo[n]
        BY <1>3, <4>1
      <4> QED
        BY <3>2, <4>1, <4>2
    <3>4. CASE ~(n > p)
      <4>1. n = 1 /\ OpPop(in) /\ opFifo[1].send
        BY <1>3, <3>2, <3>4
      <4>2. told' = <<>>
        <5> SUFFICES ASSUME told' # <<>> PROVE FALSE
          OBVIOUS
        <5>1. Left # <<>> /\ Left[1].cyc /\ place[1] = 1
          BY <1>4, <4>1
        <5>2. 1 \in 1..Len(Left)
          BY <1>1, <5>1
        <5> QED
          BY <1>1, <4>1, <5>1, <5>2, PlacesAre
      <4>3. framer.state = "NEXT" /\ fl = 1 /\ SendNow
        BY <1>4, <3>1, <4>1, <4>2
      <4>4. framer'.state = "SEND"
        BY <1>1, <4>3, AfterNext
      <4> QED
        BY <1>5, <2>2, <4>3, <4>4
    <3> QED
      BY <3>3, <3>4
  <2> QED
    BY <2>1, <2>2
<1> QED
  BY <1>9, <1>16, <1>17, <1>18, <1>19

----------------------------------------------------------------------------
\* One period

LEMMA GoingHasTypes ==
  ASSUME MasterTypeOK, told # <<>> => owed # <<>>
  PROVE  Left \in Seq(FifoEntries)
<1>1. owed \in Seq(FifoEntries)
  BY DEF MasterTypeOK
<1>2. CASE told # <<>>
  <2>1. owed # <<>>
    BY <1>2
  <2>2. Tail(owed) \in Seq(FifoEntries)
    BY <1>1, <2>1
  <2> QED
    BY <1>2, <2>2 DEF Left
<1>3. CASE ~(told # <<>>)
  BY <1>1, <1>3 DEF Left
<1> QED
  BY <1>2, <1>3

LEMMA Begins ==
  ASSUME Served, MasterTypeOK, told # <<>> => owed # <<>>, NEW in \in Inputs, MasterClock(in),
         NEW cut, NEW at \in Nat, NEW place, Going(cut, at, place)
  PROVE  /\ at - Bit(told' # <<>>) \in Nat
         /\ Stepping(in, cut, at, place, at - Bit(told' # <<>>))
         /\ MasterTypeOK'
         /\ told' # <<>> => owed' # <<>> /\ Head(owed') = Head(told')
<1>1. Left \in Seq(FifoEntries)
  BY GoingHasTypes
<1>2. told' # <<>> => Left # <<>> /\ told'[1] = Left[1] /\ at >= 1
  BY <1>1, ToldIsNext
<1>3. HasRecord /\ ~framer.send
  BY DEF Going, FramerOrderly, HasRecord
<1>4. MasterTypeOK'
  BY <1>2, <1>3, TypesKept
<1>5. /\ Left' \in Seq(FifoEntries) /\ Shifts(Left, Left', Bit(told' # <<>>), Added(in))
      /\ told' # <<>> => owed' # <<>> /\ owed'[1] = Left[1]
  BY <1>2, LeftMoves
<1>6. at - Bit(told' # <<>>) \in Nat
  BY <1>2 DEF Bit
<1>7. told' # <<>> => Head(owed') = owed'[1] /\ Head(told') = told'[1]
  OBVIOUS
<1> QED
  BY <1>1, <1>2, <1>4, <1>5, <1>6, <1>7 DEF Stepping

LEMMA GenDone ==
  ASSUME NEW in \in Inputs, NEW cut, NEW at \in Nat, NEW place, NEW b \in Nat,
         Stepping(in, cut, at, place, b), ~Wraps,
         NEW b2 \in Nat, b2 = IF gen.state = "OUTP" THEN b + SizeOf(Current) ELSE b
  PROVE  /\ GenGoes(b2)'
         /\ gen.state = "OUTP" =>
              /\ Says(Left', recOut', b) /\ OpsOf(recOut') > 0 /\ SizeOf(recOut') = SizeOf(Current)
              /\ recOut' = Current /\ SizeOf(Current)' = 0
<1>1. gen.state \in GenStates
  BY DEF Stepping, MasterTypeOK
<1>2. CASE gen.state = "OUTP"
  <2>1. b2 = b + SizeOf(Current)
    BY <1>2
  <2> QED
    BY <1>2, <2>1, GenOutp
<1>3. CASE gen.state # "OUTP"
  <2>1. b2 = b
    BY <1>3
  <2>2. CASE gen.state = "START"
    BY <2>1, <2>2, GenStart
  <2>3. CASE gen.state = "WAIT"
    BY <2>1, <2>3, GenWait
  <2>4. CASE gen.state = "WACK"
    BY <2>1, <2>4, GenWack
  <2>5. CASE gen.state \in {"WRITE", "READ"} /\ (genFifo = <<>> \/ ~Front.cyc)
    BY <2>1, <2>5, GenWaits
  <2>6. CASE gen.state = "WRITE" /\ genFifo # <<>> /\ Front.cyc
    BY <2>1, <2>6, GenWriting
  <2>7. CASE gen.state = "READ" /\ genFifo # <<>> /\ Front.cyc
    BY <2>1, <2>7, GenReading
  <2> QED
    BY <1>1, <1>3, <2>2, <2>3, <2>4, <2>5, <2>6, <2>7 DEF GenStates
<1> QED
  BY <1>2, <1>3

(* The two ways stay joined.                                               *)
LEMMA KeepsGoing ==
  ASSUME NEW in \in Inputs, NEW cut, NEW at \in Nat, NEW place, NEW b \in Nat,
         Stepping(in, cut, at, place, b), told # <<>> => owed # <<>>, ~Wraps
  PROVE  (\E c, p : \E n \in Nat : Going(c, n, p))'
<1> DEFINE b2 == IF gen.state = "OUTP" THEN b + SizeOf(Current) ELSE b
<1>1. MasterTypeOK
  BY DEF Stepping
<1>2. b2 \in Nat
  BY <1>1, CurrentIs, SizeIs DEF CurrentFacts
<1>3. PICK n \in Nat : n = b2
  BY <1>2
<1> HIDE DEF b2
<1>4. n = IF gen.state = "OUTP" THEN b + SizeOf(Current) ELSE b
  BY <1>3 DEF b2
<1>5. /\ GenGoes(n)'
      /\ gen.state = "OUTP" =>
           /\ Says(Left', recOut', b) /\ OpsOf(recOut') > 0 /\ SizeOf(recOut') = SizeOf(Current)
           /\ recOut' = Current /\ SizeOf(Current)' = 0
  BY <1>4, GenDone
<1>6. PICK c : Chained(c, n)'
  BY <1>4, <1>5, ChainMoves
<1>7. Held(n)'
  BY <1>5 DEF GenGoes
<1>8. Cycles(n)'
  BY <1>4, <1>5, <1>7, CyclesGo
<1>9. FramerOrderly'
  BY FramerMoves
<1>10. PICK p : Placed(p)'
  BY PlacesMove
<1>11. FlushOrderly'
  BY FlushGoes
<1>12. Going(c, n, p)'
  BY <1>5, <1>6, <1>8, <1>9, <1>10, <1>11 DEF GenGoes, Going
<1> QED
  BY <1>12

----------------------------------------------------------------------------
\* A counter that comes round: op_fifo is full of the operations of one record

LEMMA Filled ==
  ASSUME NEW m \in Nat, m # 0, NEW len \in Nat, len <= m,
         NEW pos, \A i \in 1..m : pos[i] \in 1..len,
         \A i, j \in 1..m : i < j => pos[j] - pos[i] >= j - i
  PROVE  len = m /\ \A i \in 1..m : pos[i] = i
<1> DEFINE first == pos[1]
           last == pos[m]
<1>1. 1 \in 1..m /\ m \in 1..m
  OBVIOUS
<1>2. first \in 1..len /\ last \in 1..len
  BY <1>1
<1>3. m > 1 => last - first >= m - 1
  BY <1>1
<1>4. ASSUME NEW i \in 1..m
      PROVE  /\ pos[i] \in 1..len
             /\ i > 1 => pos[i] - first >= i - 1
             /\ i < m => last - pos[i] >= m - i
             /\ i = 1 => pos[i] = first
             /\ i = m => pos[i] = last
  BY <1>1
<1> HIDE DEF first, last
<1>5. len = m /\ first = 1 /\ last = m
  <2>1. CASE m = 1
    BY <1>2, <2>1
  <2>2. CASE m > 1
    BY <1>2, <1>3, <2>2
  <2> QED
    BY <2>1, <2>2
<1>6. ASSUME NEW i \in 1..m PROVE pos[i] = i
  <2> DEFINE x == pos[i]
  <2>1. /\ x \in 1..len /\ (i > 1 => x - first >= i - 1) /\ (i < m => last - x >= m - i)
        /\ (i = 1 => x = first) /\ (i = m => x = last)
    BY <1>4
  <2> HIDE DEF x
  <2>2. x = i
    BY <1>5, <2>1
  <2> QED
    BY <2>2 DEF x
<1> QED
  BY <1>5, <1>6

LEMMA WrapFills ==
  ASSUME Served, MasterTypeOK, Left \in Seq(FifoEntries), NEW cut, NEW at \in Nat, NEW place,
         Going(cut, at, place), Wraps
  PROVE  /\ Len(opFifo) = OpDepth
         /\ \A n \in 1..OpDepth : ~opFifo[n].send
         /\ \A k \in 1..Len(Left) : Left[k].cyc => at < k /\ k <= at + SizeOf(Current) + 1
         /\ gen.state = "WAIT" /\ gen.next \in {"WRITE", "READ", "OUTP"} /\ gen.pop
         /\ genFifo # <<>> /\ Front.cyc
         /\ IF Front.op.we THEN counts.wr = CountMod - 1 /\ counts.rd = 0
            ELSE counts.rd = CountMod - 1 /\ counts.wr = 0
<1>1. /\ gen.pop /\ Front.cyc /\ genFifo # <<>> /\ gen.state = "WAIT"
      /\ gen.next \in {"WRITE", "READ", "OUTP"}
  BY DEF Wraps, Going, GenOrderly
<1>2. /\ Current \in Records /\ SizeOf(Current) = OpsOf(Current)
      /\ OpsOf(Current) = counts.wr + counts.rd /\ OpsOf(Current) \in Nat
      /\ counts.wr \in 0..CountMod-1 /\ counts.rd \in 0..CountMod-1
  <2>1. Current \in Records
    BY CurrentIs DEF CurrentFacts
  <2>2. Current.flags.drop = FALSE
    BY <1>1, CurrentIs DEF CurrentFacts, Current
  <2>3. Current.wr = counts.wr /\ Current.rd = counts.rd
    BY DEF Current
  <2>4. counts.wr \in 0..CountMod-1 /\ counts.rd \in 0..CountMod-1
    BY DEF MasterTypeOK
  <2> QED
    BY <2>1, <2>2, <2>3, <2>4, SizeIs DEF Bit
<1> DEFINE m == OpsOf(Current) + 1
           pos == [j \in 1..m |-> place[at+j]]
           len == Len(opFifo)
           ll == Len(Left)
<1>3. /\ m \in Nat /\ m # 0 /\ len \in Nat /\ len <= OpDepth /\ OpDepth <= CountMod
      /\ CountMod \in Nat /\ CountMod # 0 /\ OpDepth \in Nat
      /\ m = counts.wr + counts.rd + 1 /\ ll \in Nat
  <2>1. opFifo \in Seq(Words) /\ Len(opFifo) <= OpDepth /\ OpDepth <= CountMod
    BY DEF MasterTypeOK, Served, Words
  <2>2. CountMod \in Nat /\ CountMod # 0 /\ OpDepth \in Nat
    BY MasterAssumption
  <2>3. ll \in Nat /\ len \in Nat
    BY <2>1
  <2>4. m = counts.wr + counts.rd + 1
    BY <1>2
  <2>5. m \in Nat /\ m # 0
    BY <1>2, <2>2, <2>4
  <2> QED
    BY <2>1, <2>2, <2>3, <2>4, <2>5
<1>4. IF Front.op.we THEN counts.wr = CountMod - 1 ELSE counts.rd = CountMod - 1
  BY DEF Wraps
<1>5. CountMod <= m
  BY <1>2, <1>3, <1>4
<1>6. /\ ll = at + SizeOf(Current) + Len(genFifo) /\ Len(genFifo) \in Nat /\ Len(genFifo) >= 1
      /\ Left[at + SizeOf(Current) + 1] = Front
      /\ Says(Left, Current, at)
  <2>1. Len(genFifo) \in Nat /\ Len(genFifo) >= 1
    BY <1>1, FrontIs
  <2>2. 1 \in 1..Len(genFifo)
    BY <2>1
  <2> QED
    BY <2>1, <2>2 DEF Going, Held, Front
<1>7. ASSUME NEW k \in 1..ll, at < k, k <= at + m PROVE Left[k].cyc
  <2>1. CASE k = at + m
    <3>1. at + SizeOf(Current) + 1 = at + m
      BY <1>2
    <3> QED
      BY <1>1, <1>6, <2>1, <3>1
  <2>2. CASE k # at + m
    <3>1. k <= at + OpsOf(Current)
      <4> HIDE DEF ll
      <4> QED
        BY <1>2, <1>3, <1>7, <2>2
    <3> QED
      BY <1>2, <1>6, <1>7, <3>1, SaysOps
  <2> QED
    BY <2>1, <2>2
<1>8. at + m <= ll
  BY <1>2, <1>6
<1>9. Placed(place)
  BY DEF Going
<1>10. /\ \A k \in 1..ll : Left[k].cyc => place[k] \in 1..len /\ place[k] \in Int /\ ~opFifo[place[k]].send
       /\ \A i, j \in 1..ll : i < j /\ Left[i].cyc /\ Left[j].cyc => place[i] < place[j]
       /\ \A i, j \in 1..ll : i < j /\ (\A k \in i..j : Left[k].cyc) => place[j] - place[i] >= j - i
  <2>1. \A k \in 1..ll : Left[k].cyc => place[k] \in 1..len /\ place[k] \in Int /\ ~opFifo[place[k]].send
    BY <1>9, PlacesAre
  <2> QED
    BY <1>9, <2>1 DEF Placed
<1> HIDE DEF m, len, ll
<1>11. ASSUME NEW j \in 1..m
       PROVE  at + j \in 1..ll /\ Left[at+j].cyc /\ pos[j] = place[at+j] /\ pos[j] \in 1..len
              /\ ~opFifo[pos[j]].send
  <2>1. at + j \in 1..ll /\ at < at + j /\ at + j <= at + m
    BY <1>3, <1>8
  <2>2. Left[at+j].cyc
    BY <1>7, <2>1
  <2>3. pos[j] = place[at+j]
    OBVIOUS
  <2> QED
    BY <1>10, <2>1, <2>2, <2>3
<1>12. ASSUME NEW i \in 1..m, NEW j \in 1..m, i < j PROVE pos[j] - pos[i] >= j - i
  <2>1. at + i \in 1..ll /\ at + j \in 1..ll /\ at + i < at + j
    BY <1>3, <1>11, <1>12
  <2>2. \A k \in at+i..at+j : Left[k].cyc
    <3> SUFFICES ASSUME NEW k \in at+i..at+j PROVE Left[k].cyc
      OBVIOUS
    <3>1. k \in 1..ll /\ at < k /\ k <= at + m
      BY <1>3, <2>1
    <3> QED
      BY <1>7, <3>1
  <2>3. place[at+j] - place[at+i] >= (at + j) - (at + i)
    BY <1>10, <2>1, <2>2
  <2>4. (at + j) - (at + i) = j - i
    OBVIOUS
  <2> QED
    BY <1>11, <2>3, <2>4
<1>13. len <= m
  BY <1>3, <1>5
<1> HIDE DEF pos
<1>14. len = m /\ \A i \in 1..m : pos[i] = i
  <2>1. \A i \in 1..m : pos[i] \in 1..len
    BY <1>11
  <2>2. \A i, j \in 1..m : i < j => pos[j] - pos[i] >= j - i
    BY <1>12
  <2>3. m \in Nat /\ m # 0 /\ len \in Nat
    BY <1>3
  <2> QED
    BY <1>13, <2>1, <2>2, <2>3, Filled
<1>15. len = OpDepth /\ m = CountMod /\ m = OpDepth
  BY <1>3, <1>5, <1>14
<1>16. \A n \in 1..OpDepth : ~opFifo[n].send
  BY <1>11, <1>14, <1>15
<1>17. ASSUME NEW k \in 1..ll, Left[k].cyc PROVE at < k /\ k <= at + SizeOf(Current) + 1
  <2>1. place[k] \in 1..len
    BY <1>10, <1>17
  <2>2. 1 \in 1..m /\ m \in 1..m
    BY <1>3
  <2>3. /\ at + 1 \in 1..ll /\ Left[at+1].cyc /\ place[at+1] = 1
        /\ at + m \in 1..ll /\ Left[at+m].cyc /\ place[at+m] = len
    BY <1>11, <1>14, <2>2
  <2>4. ~(k < at + 1)
    <3> SUFFICES ASSUME k < at + 1 PROVE FALSE
      OBVIOUS
    <3>1. place[k] < place[at+1]
      BY <1>10, <1>17, <2>3
    <3> QED
      BY <1>3, <2>1, <2>3, <3>1
  <2>5. ~(at + m < k)
    <3> SUFFICES ASSUME at + m < k PROVE FALSE
      OBVIOUS
    <3>1. place[at+m] < place[k]
      BY <1>10, <1>17, <2>3
    <3> QED
      BY <1>3, <2>1, <2>3, <3>1
  <2> QED
    BY <1>2, <1>3, <2>4, <2>5 DEF m
<1>18. IF Front.op.we THEN counts.wr = CountMod - 1 /\ counts.rd = 0
       ELSE counts.rd = CountMod - 1 /\ counts.wr = 0
  BY <1>2, <1>3, <1>4, <1>15
<1> QED
  BY <1>1, <1>15, <1>16, <1>17, <1>18 DEF len, ll

(* Nothing is accepted, and no word leaves.                                *)
LEMMA Stalls ==
  ASSUME Served, MasterTypeOK, NEW in \in Inputs, MasterClock(in), ~framer.send,
         Len(opFifo) = OpDepth, \A n \in 1..OpDepth : ~opFifo[n].send,
         framer.state \notin {"WRITE", "READ"}
  PROVE  ~Accepted(in) /\ ~in.send /\ opFifo' = opFifo /\ ~framer'.send
<1>1. Conforms(in) /\ Considerate(in)
  BY DEF MasterClock
<1>2. ~Accepted(in)
  BY DEF Accepted, SlaveStall
<1>3. OpDepth \in Nat /\ OpDepth # 0 /\ opFifo \in Seq(Words)
  BY MasterAssumption DEF MasterTypeOK, Words
<1>4. ~in.send
  BY <1>1, <1>3, InputIs
<1>5. ~SendNow
  BY <1>3 DEF SendNow
<1>6. ~OpPop(in)
  BY <1>5 DEF OpPop
<1>7. OpAdded(in) = <<>>
  BY <1>1, <1>2, <1>4, AddedIs DEF QueueSend, SendRequest
<1>8. opFifo' = Queue(opFifo, OpAdded(in), OpPop(in), OpDepth)
  BY DEF MasterClock, Framer, OpFifo, OpAdded
<1>9. opFifo' = opFifo
  <2>1. opFifo' = opFifo \o <<>>
    BY <1>6, <1>7, <1>8 DEF Queue
  <2> QED
    BY <1>3, <2>1
<1>10. ~framer'.send
  BY <1>4 DEF MasterClock, Framer, SendRequest
<1> QED
  BY <1>2, <1>4, <1>9, <1>10

LEMMA Jams ==
  ASSUME Served, MasterTypeOK, MasterTypeOK', NEW in \in Inputs, MasterClock(in), ~framer.send,
         Len(opFifo) = OpDepth, \A n \in 1..OpDepth : ~opFifo[n].send,
         \A i \in 1..Len(genFifo) : genFifo[i].cyc => i = 1 /\ GenPop,
         counts'.wr = 0, counts'.rd = 0,
         gen.state = "WAIT" => gen.next \in {"WRITE", "READ", "OUTP"},
         gen.state = "OUTP" => counts.wr = 0 /\ counts.rd = 0,
         gen.state = "WACK" => OpsOf(recOut) = 0,
         \A i \in 1..Len(recFifo) : OpsOf(recFifo[i]) = 0 \/ (i = 1 /\ framer.state = "LOAD"),
         framer.state \notin {"WA", "WRITE", "RA", "READ"},
         framer.state = "LOAD" => recFifo # <<>>
  PROVE  Jammed'
<1>1. ~Accepted(in) /\ opFifo' = opFifo /\ ~framer'.send /\ Conforms(in) /\ Considerate(in)
  BY Stalls DEF MasterClock
<1>2. \A i \in 1..Len(genFifo') : ~genFifo'[i].cyc
  <2> DEFINE p == Bit(GenPop)
  <2>1. /\ genFifo \in Seq(FifoEntries) /\ genFifo' \in Seq(FifoEntries)
        /\ Shifts(genFifo, genFifo', p, Added(in)) /\ (GenPop => genFifo # <<>>)
    BY FifosMove DEF MasterTypeOK
  <2>2. p \in Nat /\ p <= 1 /\ (p = 1 <=> GenPop)
    BY DEF Bit
  <2>3. /\ Len(Added(in)) = 0 \/ Len(Added(in)) = 1
        /\ Len(Added(in)) = 1 => Added(in)[1] = End
    BY <1>1, AddedIs
  <2> HIDE DEF p
  <2>4. Shifted(genFifo, genFifo', p, Added(in))
    BY <2>1, <2>2, <2>3, ShiftedIs
  <2> SUFFICES ASSUME NEW i \in 1..Len(genFifo') PROVE ~genFifo'[i].cyc
    OBVIOUS
  <2>5. CASE i + p <= Len(genFifo)
    <3>1. i + p \in 1..Len(genFifo) /\ genFifo'[i] = genFifo[i+p]
      BY <2>4, <2>5 DEF Shifted
    <3>2. GenPop => i + p # 1
      BY <2>2
    <3> QED
      BY <3>1, <3>2
  <2>6. CASE ~(i + p <= Len(genFifo))
    <3>1. genFifo'[i] = Added(in)[1] /\ Len(Added(in)) = 1
      <4>1. i + p > Len(genFifo) /\ Len(genFifo) \in Nat
        BY <2>2, <2>4, <2>6 DEF Shifted
      <4> QED
        BY <2>4, <4>1 DEF Shifted
    <3> QED
      BY <2>3, <3>1, EndIs
  <2> QED
    BY <2>5, <2>6
<1>3. /\ gen'.state # "WAIT" => ~gen'.pop
      /\ gen'.state = "WAIT" => gen'.next \in {"WRITE", "READ", "OUTP"}
      /\ gen'.state = "WACK" => gen.state \in {"OUTP", "WACK"}
  BY GenNext DEF Quiet, MasterTypeOK, GenStates
<1>4. gen'.state = "WACK" => OpsOf(recOut)' = 0
  <2>1. gen.state = "OUTP" => recOut'.wr = 0 /\ recOut'.rd = 0
    BY RegistersAre
  <2>2. gen.state = "WACK" => OpsOf(recOut') = OpsOf(recOut)
    BY RegistersAre
  <2> QED
    BY <1>3, <2>1, <2>2 DEF OpsOf
<1>5. \A i \in 1..Len(recFifo') : OpsOf(recFifo'[i]) = 0
  <2> DEFINE p == Bit(framer.state = "LOAD")
             put == When(gen.state = "WACK" /\ RecAck, recOut)
  <2>1. recFifo \in Seq(Records) /\ recFifo' \in Seq(Records) /\ Shifts(recFifo, recFifo', p, put)
    <3>1. HasRecord
      BY DEF HasRecord
    <3> QED
      BY <3>1, RecordsMove DEF MasterTypeOK
  <2>2. p \in Nat /\ p <= 1 /\ (p = 1 <=> framer.state = "LOAD")
    BY DEF Bit
  <2>3. /\ Len(put) = 0 \/ Len(put) = 1
        /\ Len(put) = 1 => put[1] = recOut /\ gen.state = "WACK"
    <3>1. CASE gen.state = "WACK" /\ RecAck
      BY <3>1 DEF When
    <3>2. CASE ~(gen.state = "WACK" /\ RecAck)
      BY <3>2 DEF When
    <3> QED
      BY <3>1, <3>2
  <2> HIDE DEF p, put
  <2>4. Shifted(recFifo, recFifo', p, put)
    BY <2>1, <2>2, <2>3, ShiftedIs
  <2> SUFFICES ASSUME NEW i \in 1..Len(recFifo') PROVE OpsOf(recFifo'[i]) = 0
    OBVIOUS
  <2>5. CASE i + p <= Len(recFifo)
    <3>1. i + p \in 1..Len(recFifo) /\ recFifo'[i] = recFifo[i+p]
      BY <2>4, <2>5 DEF Shifted
    <3>2. framer.state = "LOAD" => i + p # 1
      BY <2>2
    <3> QED
      BY <3>1, <3>2
  <2>6. CASE ~(i + p <= Len(recFifo))
    <3>1. recFifo'[i] = put[1] /\ Len(put) = 1
      <4>1. i + p > Len(recFifo) /\ Len(recFifo) \in Nat
        BY <2>2, <2>4, <2>6 DEF Shifted
      <4> QED
        BY <2>4, <4>1 DEF Shifted
    <3> QED
      BY <2>3, <3>1
  <2> QED
    BY <2>5, <2>6
<1>6. framer'.state \notin {"WA", "WRITE", "RA", "READ", "LOAD"}
  <2>1. framer'.state = NextState(in)
    BY DEF MasterClock, Framer
  <2>2. framer.state \in {"INIT", "IDLE", "EB", "REC", "LOAD", "NEXT", "SEND"}
    BY DEF MasterTypeOK, Talking
  <2>3. framer.state = "REC" /\ recFifo # <<>> => Body = "NEXT"
    <3> SUFFICES ASSUME framer.state = "REC", recFifo # <<>> PROVE Body = "NEXT"
      OBVIOUS
    <3>1. recFifo \in Seq(Records) /\ 1 \in 1..Len(recFifo)
      BY DEF MasterTypeOK
    <3>2. OpsOf(Rec) = 0 /\ Rec.wr \in Nat /\ Rec.rd \in Nat
      BY <3>1, RecIs DEF Rec
    <3>3. Rec.wr = 0 /\ Rec.rd = 0
      BY <3>2 DEF OpsOf
    <3> QED
      BY <3>3 DEF Body
  <2>4. AfterRecord \in {"SEND", "REC", "NEXT"}
    BY DEF AfterRecord
  <2>5. NextState(in) \in {"IDLE", "EB", "REC", "NEXT", "SEND"}
    BY <2>2, <2>3, <2>4 DEF NextState, Talking
  <2> QED
    BY <2>1, <2>5
<1> QED
  BY <1>1, <1>2, <1>3, <1>4, <1>5, <1>6 DEF Jammed

LEMMA WrapJams ==
  ASSUME Served, MasterTypeOK, told # <<>> => owed # <<>>, NEW in \in Inputs, MasterClock(in),
         NEW cut, NEW at \in Nat, NEW place, Going(cut, at, place), Wraps
  PROVE  Jammed'
<1>1. Left \in Seq(FifoEntries) /\ MasterTypeOK'
  BY GoingHasTypes, Begins
<1>2. /\ Len(opFifo) = OpDepth
      /\ \A n \in 1..OpDepth : ~opFifo[n].send
      /\ \A k \in 1..Len(Left) : Left[k].cyc => at < k /\ k <= at + SizeOf(Current) + 1
      /\ gen.state = "WAIT" /\ gen.next \in {"WRITE", "READ", "OUTP"} /\ gen.pop
      /\ genFifo # <<>> /\ Front.cyc
      /\ IF Front.op.we THEN counts.wr = CountMod - 1 /\ counts.rd = 0
         ELSE counts.rd = CountMod - 1 /\ counts.wr = 0
  BY <1>1, WrapFills
<1>3. Len(Left) \in Nat /\ Len(genFifo) \in Nat /\ CountMod \in Nat /\ CountMod # 0
  <2>1. Len(Left) \in Nat
    BY <1>1
  <2>2. Len(genFifo) \in Nat
    BY DEF MasterTypeOK
  <2>3. CountMod \in Nat /\ CountMod # 0
    BY MasterAssumption
  <2> QED
    BY <2>1, <2>2, <2>3
<1>4. counts'.wr = 0 /\ counts'.rd = 0
  <2>1. (CountMod - 1 + 1) % CountMod = 0
    BY <1>3
  <2>2. counts \in [wr : 0..CountMod-1, rd : 0..CountMod-1] /\ GenPop
    BY <1>2 DEF MasterTypeOK, GenPop
  <2>3. /\ Front.op.we => counts' = [counts EXCEPT !.wr = (counts.wr + 1) % CountMod]
        /\ ~Front.op.we => counts' = [counts EXCEPT !.rd = (counts.rd + 1) % CountMod]
    BY <1>2, <2>2, RegistersAre
  <2>4. CASE Front.op.we
    BY <1>2, <2>1, <2>2, <2>3, <2>4
  <2>5. CASE ~Front.op.we
    BY <1>2, <2>1, <2>2, <2>3, <2>5
  <2> QED
    BY <2>4, <2>5
<1>5. ASSUME NEW i \in 1..Len(genFifo), genFifo[i].cyc PROVE i = 1 /\ GenPop
  <2> DEFINE size == SizeOf(Current)
  <2>1. /\ size \in Nat /\ Len(Left) = at + size + Len(genFifo)
        /\ Left[at + size + i] = genFifo[i]
    BY CurrentIs, SizeIs DEF CurrentFacts, Going, Held
  <2> HIDE DEF size
  <2>2. at + size + i \in 1..Len(Left)
    BY <1>3, <2>1
  <2>3. at + size + i <= at + size + 1
    BY <1>2, <1>5, <2>1, <2>2 DEF size
  <2>4. i = 1
    BY <1>3, <2>1, <2>3
  <2> QED
    BY <1>2, <2>4 DEF GenPop
<1>6. ASSUME recFifo # <<>> PROVE framer.state = "LOAD"
  <2> SUFFICES ASSUME framer.state # "LOAD" PROVE FALSE
    OBVIOUS
  <2>1. /\ SizeOf(Rec) - Done <= at /\ SizeOf(Rec) = OpsOf(Rec) + Bit(Rec.flags.drop)
        /\ Done < OpsOf(Rec) /\ OpsOf(Rec) = Rec.wr + Rec.rd /\ Rec.wr \in Nat /\ Rec.rd \in Nat
        /\ Done \in Int /\ at <= Len(Left)
    BY <1>1, <1>6, FirstRecord
  <2>2. Bit(Rec.flags.drop) \in Nat
    BY DEF Bit
  <2>3. at >= 1
    <3> DEFINE done == Done
               all == OpsOf(Rec)
               size == SizeOf(Rec)
               drop == Bit(Rec.flags.drop)
    <3>1. /\ size - done <= at /\ size = all + drop /\ done < all /\ all \in Nat /\ done \in Int
          /\ drop \in Nat
      BY <2>1, <2>2
    <3> HIDE DEF done, all, size, drop
    <3> QED
      BY <3>1
  <2>4. 1 \in 1..Len(Left) /\ Left # <<>>
    BY <1>3, <2>1, <2>3
  <2>5. Left[1].cyc
    BY <1>1, <2>4, NotAnEnd
  <2> QED
    BY <1>2, <2>3, <2>4, <2>5
<1>7. ASSUME NEW i \in 1..Len(recFifo), i # 1 PROVE FALSE
  <2>1. /\ Len(Completed) \in Nat /\ i \in 1..Len(Completed) /\ i - 1 \in 1..Len(Completed)
        /\ Completed[i] \in Records
    <3>1. /\ Completed \in Seq(Records) /\ Len(Completed) = Len(recFifo) + Bit(gen.state = "WACK")
          /\ Len(recFifo) \in Nat
      BY CompletedIs
    <3>2. Len(Completed) = Len(recFifo)
      BY <1>2, <3>1 DEF Bit
    <3> QED
      BY <1>7, <3>1, <3>2
  <2>2. /\ OpsOf(Completed[i]) > 0 /\ cut[i+1] = cut[i] + SizeOf(Completed[i]) /\ cut[i+1] <= at
        /\ Says(Left, Completed[i], cut[i]) /\ 0 <= cut[(i-1)+1]
        /\ cut[i] \in Int /\ cut[i+1] \in Int
    <3>1. /\ cut \in [1..Len(Completed)+1 -> Int]
          /\ \A j \in 1..Len(Completed) :
               /\ OpsOf(Completed[j]) > 0
               /\ cut[j+1] = cut[j] + SizeOf(Completed[j])
               /\ 0 <= cut[j+1] /\ cut[j+1] <= at
               /\ Says(Left, Completed[j], cut[j])
      BY DEF Going, Chained
    <3>2. i \in 1..Len(Completed)+1 /\ i + 1 \in 1..Len(Completed)+1
      BY <2>1
    <3>3. cut[i] \in Int /\ cut[i+1] \in Int
      BY <3>1, <3>2
    <3>4. 0 <= cut[(i-1)+1]
      BY <2>1, <3>1
    <3> QED
      BY <2>1, <3>1, <3>3, <3>4
  <2>3. /\ OpsOf(Completed[i]) \in Nat /\ SizeOf(Completed[i]) \in Nat
        /\ OpsOf(Completed[i]) <= SizeOf(Completed[i])
    BY <2>1, SizeIs
  <2>4. at <= Len(Left)
    <3>1. Len(Left) = at + SizeOf(Current) + Len(genFifo) /\ SizeOf(Current) \in Nat
      BY CurrentIs, SizeIs DEF CurrentFacts, Going, Held
    <3> QED
      BY <1>3, <3>1
  <2> DEFINE k == cut[i] + 1
  <2>5. (i - 1) + 1 = i
    BY <1>7
  <2>6. k \in 1..Len(Left) /\ cut[i] < k /\ k <= cut[i] + OpsOf(Completed[i]) /\ k <= at
    <3> DEFINE x == cut[i]
               y == cut[i+1]
               ops == OpsOf(Completed[i])
               size == SizeOf(Completed[i])
    <3>1. /\ x \in Int /\ 0 <= x /\ y = x + size /\ y <= at /\ ops > 0 /\ ops <= size
          /\ ops \in Nat /\ size \in Nat /\ k = x + 1
      BY <2>2, <2>3, <2>5
    <3> HIDE DEF x, y, ops, size, k
    <3>2. k \in 1..Len(Left) /\ x < k /\ k <= x + ops /\ k <= at
      BY <1>3, <2>4, <3>1
    <3> QED
      BY <3>2 DEF x, ops
  <2> HIDE DEF k
  <2>7. Left[k].cyc
    BY <1>1, <2>1, <2>2, <2>6, SaysOps
  <2> QED
    BY <1>2, <1>3, <2>6, <2>7
<1>8. \A i \in 1..Len(recFifo) : i = 1 /\ framer.state = "LOAD"
  <2>1. Len(recFifo) # 0 => recFifo # <<>>
    OBVIOUS
  <2>2. Len(recFifo) \in Nat
    BY DEF MasterTypeOK
  <2> QED
    BY <1>6, <1>7, <2>1, <2>2
<1>9. /\ framer.state \in {"WA", "WRITE", "RA", "READ", "LOAD"} => recFifo # <<>>
      /\ ~framer.send
  BY DEF Going, FramerOrderly
<1>10. framer.state \notin {"WA", "WRITE", "RA", "READ"}
  BY <1>6, <1>9
<1>11. gen.state # "OUTP" /\ gen.state # "WACK"
  BY <1>2
<1> QED
  BY <1>1, <1>2, <1>4, <1>5, <1>8, <1>9, <1>10, <1>11, Jams

LEMMA JamStays ==
  ASSUME Served, MasterTypeOK, told # <<>> => owed # <<>>, NEW in \in Inputs, MasterClock(in),
         Jammed
  PROVE  /\ MasterTypeOK' /\ Jammed'
         /\ told' # <<>> => owed' # <<>> /\ Head(owed') = Head(told')
<1>1. HasRecord /\ ~framer.send
  BY DEF Jammed, HasRecord
<1>2. told' # <<>> => framer.state = "LOAD" /\ Rec.flags.drop
  BY ToldIs DEF Jammed
<1>3. told' # <<>> => Left # <<>> /\ Left[1] = End
  BY <1>2 DEF Jammed
<1>4. told' # <<>> => told' = <<End>>
  BY <1>2, ToldIs DEF Reading
<1>5. MasterTypeOK'
  BY <1>1, <1>3, TypesKept
<1>6. told' # <<>> => owed' # <<>> /\ owed'[1] = Left[1]
  BY <1>3, LeftMoves
<1>7. told' # <<>> => owed' # <<>> /\ Head(owed') = Head(told')
  BY <1>3, <1>4, <1>6
<1>8. counts'.wr = 0 /\ counts'.rd = 0
  <2>1. gen.state = "OUTP" => counts'.wr = 0 /\ counts'.rd = 0
    BY RegistersAre
  <2>2. gen.state # "OUTP" => counts' = counts
    <3>1. GenPop => ~Front.cyc
      <4> SUFFICES ASSUME GenPop PROVE ~Front.cyc
        OBVIOUS
      <4>1. genFifo # <<>> /\ genFifo \in Seq(FifoEntries)
        BY DEF GenPop, MasterTypeOK
      <4>2. 1 \in 1..Len(genFifo)
        BY <4>1
      <4> QED
        BY <4>2 DEF Jammed, Front
    <3> QED
      BY <3>1, RegistersAre
  <2> QED
    BY <2>1, <2>2 DEF Jammed
<1>9. \A i \in 1..Len(genFifo) : genFifo[i].cyc => i = 1 /\ GenPop
  BY DEF Jammed
<1> QED
  BY <1>1, <1>5, <1>7, <1>8, <1>9, Jams DEF Jammed

----------------------------------------------------------------------------
\* The invariant

LEMMA MasterBegins ==
  ASSUME MasterInit
  PROVE  MasterInv
<1> DEFINE cut == [i \in 1..1 |-> 0]
           place == [k \in 1..0 |-> 0]
<1>1. /\ told = <<>> /\ owed = <<>> /\ asked = <<>> /\ flush = 0 /\ base = 0 /\ cycIn = FALSE
      /\ genFifo = <<>> /\ opFifo = <<>> /\ recFifo = <<>>
      /\ gen.state = "START" /\ gen.next = "START" /\ gen.pop = FALSE /\ gen.mode = "UNKNOWN"
      /\ counts.wr = 0 /\ counts.rd = 0 /\ header = NoFlags
      /\ framer.state = "INIT" /\ framer.send = FALSE
  BY DEF MasterInit
<1>2. Left = <<>> /\ Len(Left) = 0
  BY <1>1 DEF Left
<1>3. Completed = <<>> /\ Len(Completed) = 0
  BY <1>1 DEF Completed, When
<1>4. SizeOf(Current) = 0 /\ Current.wr = 0 /\ Current.rd = 0 /\ Current.flags.drop = FALSE
  <2>1. Current = [flags |-> [NoFlags EXCEPT !.drop = FALSE], wr |-> 0, rd |-> 0]
    BY <1>1 DEF Current, Collecting
  <2>2. [NoFlags EXCEPT !.drop = FALSE].drop = FALSE
    BY DEF NoFlags
  <2>3. Current.wr = 0 /\ Current.rd = 0 /\ Current.flags.drop = FALSE
    BY <2>1, <2>2
  <2> QED
    BY <2>3 DEF SizeOf, OpsOf
<1>5. Done = 0
  BY <1>1 DEF Done
<1>6. Chained(cut, 0)
  BY <1>3, <1>5 DEF Chained
<1>7. Held(0)
  BY <1>1, <1>2, <1>4 DEF Held, Says, SaysWrites, SaysReads, SaysEnd
<1>8. GenOrderly /\ GenWrites /\ GenReads(0) /\ GenEnds
  BY <1>1 DEF GenOrderly, GenWrites, GenReads, GenEnds, Is
<1>9. Cycles(0)
  BY <1>1, <1>2 DEF Cycles, Open
<1>10. FramerOrderly
  BY <1>1 DEF FramerOrderly
<1>11. Placed(place) /\ FlushOrderly
  BY <1>1, <1>2 DEF Placed, FlushOrderly
<1>12. Going(cut, 0, place)
  BY <1>6, <1>7, <1>8, <1>9, <1>10, <1>11 DEF Going
<1>13. \E c, p : \E n \in Nat : Going(c, n, p)
  BY <1>12
<1>14. MasterTypeOK
  <2>1. 0 \in 0..AdrMod-1 /\ 0 \in 0..CountMod-1 /\ 0 <= GenDepth /\ 0 <= OpDepth /\ 0 <= RecDepth
    BY MasterAssumption
  <2>2. NoFlags \in Flags
    BY <2>1 DEF NoFlags, Flags
  <2>3. recOut \in Records /\ header \in Flags
    BY <2>1, <2>2 DEF MasterInit, Records
  <2>4. /\ gen \in [state : GenStates, next : GenStates, pop : BOOLEAN,
                   mode : {"UNKNOWN", "WR_FIFO", "WR_NORM", "WR_SPLIT",
                           "RD_FIFO", "RD_NORM", "RD_SPLIT"}]
        /\ framer \in [state : Talking \cup {"INIT", "IDLE", "LOAD", "NEXT", "SEND"},
                      ops : Int, count : Nat, send : BOOLEAN]
    BY DEF MasterInit, GenStates
  <2>5. /\ prev \in [adr : 0..AdrMod-1, dat : 0..AdrMod-1]
        /\ counts \in [wr : 0..CountMod-1, rd : 0..CountMod-1]
        /\ base \in 0..AdrMod-1 /\ flush \in Nat /\ cycIn \in BOOLEAN
    BY <2>1 DEF MasterInit
  <2>6. /\ genFifo \in Seq(FifoEntries) /\ Len(genFifo) <= GenDepth
        /\ opFifo \in Seq([word : 0..AdrMod-1, send : BOOLEAN]) /\ Len(opFifo) <= OpDepth
        /\ recFifo \in Seq(Records) /\ Len(recFifo) <= RecDepth
        /\ asked \in Seq([op : OpShape, wrote : BOOLEAN]) /\ owed \in Seq(FifoEntries)
    BY <1>1, <2>1
  <2> QED
    BY <2>3, <2>4, <2>5, <2>6 DEF MasterTypeOK
<1> QED
  BY <1>1, <1>13, <1>14 DEF MasterInv, RecordsSayWhatWasAsked

LEMMA MasterKeeps ==
  ASSUME Served, MasterInv, NEW in \in Inputs, MasterClock(in)
  PROVE  MasterInv'
<1>1. MasterTypeOK /\ (told # <<>> => owed # <<>>)
  BY DEF MasterInv, RecordsSayWhatWasAsked
<1>2. CASE Jammed
  BY <1>1, <1>2, JamStays DEF MasterInv, RecordsSayWhatWasAsked
<1>3. ASSUME NEW cut, NEW place, NEW at \in Nat, Going(cut, at, place)
      PROVE  MasterInv'
  <2>1. /\ at - Bit(told' # <<>>) \in Nat
        /\ Stepping(in, cut, at, place, at - Bit(told' # <<>>))
        /\ MasterTypeOK'
        /\ told' # <<>> => owed' # <<>> /\ Head(owed') = Head(told')
    BY <1>1, <1>3, Begins
  <2>2. CASE Wraps
    <3>1. Jammed'
      BY <1>1, <1>3, <2>2, WrapJams
    <3> QED
      BY <2>1, <3>1 DEF MasterInv, RecordsSayWhatWasAsked
  <2>3. CASE ~Wraps
    <3>1. PICK b \in Nat : b = at - Bit(told' # <<>>)
      BY <2>1
    <3>2. Stepping(in, cut, at, place, b)
      BY <2>1, <3>1
    <3>3. (\E c, p : \E n \in Nat : Going(c, n, p))'
      BY <1>1, <2>3, <3>2, KeepsGoing
    <3>4. (Jammed \/ \E c, p : \E n \in Nat : Going(c, n, p))'
      BY <3>3
    <3> QED
      BY <2>1, <3>4 DEF MasterInv, RecordsSayWhatWasAsked
  <2> QED
    BY <2>2, <2>3
<1> QED
  BY <1>2, <1>3 DEF MasterInv

LEMMA MasterRests == MasterInv /\ UNCHANGED masterVars => MasterInv'
<1> SUFFICES ASSUME MasterInv, UNCHANGED masterVars PROVE MasterInv'
  OBVIOUS
<1>1. /\ cycIn' = cycIn /\ gen' = gen /\ prev' = prev /\ header' = header /\ counts' = counts
      /\ recOut' = recOut /\ genFifo' = genFifo /\ opFifo' = opFifo /\ recFifo' = recFifo
      /\ framer' = framer /\ base' = base /\ asked' = asked /\ owed' = owed /\ told' = told
      /\ flush' = flush
  BY DEF masterVars, genVars, framerVars, ghostVars
<1>2. /\ Left' = Left /\ Completed' = Completed /\ Current' = Current /\ Rec' = Rec /\ Front' = Front
      /\ Done' = Done
  BY <1>1 DEF Left, Completed, Current, Collecting, Rec, Front, Done
<1>3. MasterTypeOK' /\ RecordsSayWhatWasAsked'
  BY <1>1 DEF MasterInv, MasterTypeOK, RecordsSayWhatWasAsked
<1>4. ASSUME Jammed PROVE Jammed'
  BY <1>1, <1>2, <1>4 DEF Jammed
<1>5. ASSUME NEW c, NEW n \in Nat, NEW p, Going(c, n, p) PROVE Going(c, n, p)'
  <2>1. Chained(c, n)'
    BY <1>2, <1>5 DEF Going, Chained
  <2>2. Held(n)'
    BY <1>1, <1>2, <1>5 DEF Going, Held
  <2>3. GenOrderly' /\ GenEnds'
    BY <1>1, <1>2, <1>5 DEF Going, GenOrderly, GenEnds, Is
  <2>4. GenWrites'
    BY <1>1, <1>2, <1>5 DEF Going, GenWrites, Is
  <2>5. GenReads(n)'
    BY <1>1, <1>2, <1>5 DEF Going, GenReads, Is, Taken
  <2>6. Cycles(n)'
    BY <1>1, <1>2, <1>5 DEF Going, Cycles, Open
  <2>7. FramerOrderly'
    BY <1>1, <1>2, <1>5 DEF Going, FramerOrderly
  <2>8. Placed(p)' /\ FlushOrderly'
    BY <1>1, <1>2, <1>5 DEF Going, Placed, FlushOrderly
  <2> QED
    BY <2>1, <2>2, <2>3, <2>4, <2>5, <2>6, <2>7, <2>8 DEF Going
<1>6. CASE Jammed
  BY <1>3, <1>4, <1>6 DEF MasterInv
<1>7. ASSUME NEW c, NEW p, NEW n \in Nat, Going(c, n, p) PROVE MasterInv'
  <2>1. Going(c, n, p)'
    BY <1>5, <1>7
  <2>2. (\E c2, p2 : \E n2 \in Nat : Going(c2, n2, p2))'
    BY <2>1
  <2> QED
    BY <1>3, <2>2 DEF MasterInv
<1> QED
  BY <1>6, <1>7 DEF MasterInv

LEMMA MasterInvariant ==
  ASSUME Served
  PROVE  MasterSpec => []MasterInv
<1>1. MasterInit => MasterInv
  BY MasterBegins
<1>2. MasterInv /\ [MasterNext]_masterVars => MasterInv'
  <2> SUFFICES ASSUME MasterInv, [MasterNext]_masterVars PROVE MasterInv'
    OBVIOUS
  <2>1. CASE MasterNext
    BY <2>1, MasterKeeps DEF MasterNext
  <2>2. CASE UNCHANGED masterVars
    BY <2>2, MasterRests
  <2> QED
    BY <2>1, <2>2
<1> QED
  BY <1>1, <1>2, PTL DEF MasterSpec

(* What a master that is served well sends says what it was asked: the     *)
(* receiver's operations (eb_framer, s_WRITE and s_READ, with the headers  *)
(* of eb_record_gen) are those of the local bus, in their order, each with *)
(* its own address, and a cycle ends where it ended.                       *)
THEOREM PacketsSayWhatWasAsked ==
  ASSUME Served
  PROVE  MasterSpec => []RecordsSayWhatWasAsked
<1>1. MasterSpec => []MasterInv
  BY MasterInvariant
<1>2. MasterInv => RecordsSayWhatWasAsked
  BY DEF MasterInv
<1> QED
  BY <1>1, <1>2, PTL

(* No FIFO of eb_record_gen or eb_framer ever holds more than it has room  *)
(* for, and every register keeps to its width.                             *)
THEOREM MasterTypeCorrect ==
  ASSUME Served
  PROVE  MasterSpec => []MasterTypeOK
<1>1. MasterSpec => []MasterInv
  BY MasterInvariant
<1>2. MasterInv => MasterTypeOK
  BY DEF MasterInv
<1> QED
  BY <1>1, <1>2, PTL
=============================================================================
