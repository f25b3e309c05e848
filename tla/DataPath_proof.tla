--------------------------- MODULE DataPath_proof ---------------------------
(***************************************************************************)
(* Proofs about the path of a memory operation.  First its queue: type     *)
(* correctness, and that the shift register implements the queue of        *)
(* QueueFifo under the mapping q <- Queued.  Then the stage, the memory    *)
(* management unit and the memory together: every operation completes as   *)
(* the program order and the page tables define (CompletesInOrder), the    *)
(* data cache is flushed in order (FlushInOrder), and no store is lost     *)
(* (StoresArrive), for all page tables, programs, depths and sizes.        *)
(***************************************************************************)
EXTENDS DataPath, FiniteSetTheorems, TLAPS

----------------------------------------------------------------------------
(***************************************************************************)
(* The queue.  The type invariant is all the invariant that the refinement *)
(* needs: mem[i] beyond wcnt may hold anything.                            *)
(***************************************************************************)
\* the first n words of the shift register f
SeqOf(n, f) == [i \in 1 .. n |-> f[i - 1]]

\* The words are a sequence of wcnt words of Data (core/queue.h:47-50, r.wcnt and r.mem).
LEMMA SeqOfType ==
    ASSUME NEW n \in 0 .. Depth, NEW f \in [Places -> Data]
    PROVE  /\ SeqOf(n, f) \in Seq(Data) /\ Len(SeqOf(n, f)) = n
           /\ \A i \in 1 .. n : SeqOf(n, f)[i] = f[i - 1]
<1>1. n \in Nat /\ \A i \in 1 .. n : i - 1 \in Places /\ f[i - 1] \in Data
  BY QueueAssumption DEF Places
<1>2. SeqOf(n, f) \in Seq(Data)
  BY <1>1 DEF SeqOf
<1> QED
  BY <1>1, <1>2 DEF SeqOf

\* The mapped queue before and after a clock.
LEMMA WordsType ==
    ASSUME TypeOK, TypeOK'
    PROVE  /\ wcnt \in 0 .. Depth /\ wcnt' \in 0 .. Depth
           /\ Queued \in Seq(Data) /\ Len(Queued) = wcnt
           /\ \A i \in 1 .. wcnt : Queued[i] = mem[i - 1]
           /\ Queued' \in Seq(Data) /\ Len(Queued') = wcnt'
           /\ \A i \in 1 .. wcnt' : Queued'[i] = mem'[i - 1]
<1>1. Queued = SeqOf(wcnt, mem) /\ Queued' = SeqOf(wcnt', mem')
  BY DEF Queued, SeqOf
<1>2. /\ wcnt \in 0 .. Depth /\ mem \in [Places -> Data]
      /\ wcnt' \in 0 .. Depth /\ mem' \in [Places -> Data]
  BY DEF TypeOK
<1>3. /\ SeqOf(wcnt, mem) \in Seq(Data) /\ Len(SeqOf(wcnt, mem)) = wcnt
      /\ \A i \in 1 .. wcnt : SeqOf(wcnt, mem)[i] = mem[i - 1]
  BY <1>2, SeqOfType
<1>4. /\ SeqOf(wcnt', mem') \in Seq(Data) /\ Len(SeqOf(wcnt', mem')) = wcnt'
      /\ \A i \in 1 .. wcnt' : SeqOf(wcnt', mem')[i] = mem'[i - 1]
  BY <1>2, SeqOfType
<1> QED
  BY <1>1, <1>2, <1>3, <1>4

\* What is left of a sequence without its first word.
LEMMA TailType ==
    ASSUME NEW t \in Seq(Data), Len(t) # 0
    PROVE  /\ Tail(t) \in Seq(Data) /\ Len(Tail(t)) = Len(t) - 1
           /\ \A i \in 1 .. Len(t) - 1 : Tail(t)[i] = t[i + 1]
OBVIOUS

\* A sequence with a word more.
LEMMA AppendType ==
    ASSUME NEW t \in Seq(Data), NEW x \in Data, NEW n \in Nat, Len(t) = n
    PROVE  /\ Append(t, x) \in Seq(Data) /\ Len(Append(t, x)) = n + 1 /\ Append(t, x) # << >>
           /\ \A i \in 1 .. n + 1 : Append(t, x)[i] = IF i = n + 1 THEN x ELSE t[i]
<1>1. Append(t, x) \in Seq(Data) /\ Len(Append(t, x)) = n + 1
  OBVIOUS
<1>2. \A i \in 1 .. n : Append(t, x)[i] = t[i]
  OBVIOUS
<1>3. Append(t, x)[n + 1] = x
  OBVIOUS
<1>4. Append(t, x) # << >>
  BY <1>1
<1> QED BY <1>1, <1>2, <1>3, <1>4

\* Two sequences are equal when they have one length and the same words.
LEMMA SeqEqual ==
    ASSUME NEW t \in Seq(Data), NEW v \in Seq(Data), Len(t) = Len(v),
           \A i \in 1 .. Len(t) : t[i] = v[i]
    PROVE  t = v
OBVIOUS

\* Each clock keeps the registers in their ranges (core/queue.h:112-131).
LEMMA TypeStep ==
    ASSUME TypeOK, [Next]_vars
    PROVE  TypeOK'
<1> USE QueueAssumption
<1>1. Shifted \in [Places -> Data]
  BY DEF TypeOK, Shifted, Places
<1>2. ASSUME NEW re \in BOOLEAN, NEW we \in BOOLEAN, NEW x \in Data, Clock(re, we, x)
      PROVE  TypeOK'
  <2>1. got' \in Data \cup {None}
    BY <1>2 DEF TypeOK, Clock, Rdata, Places
  <2>2. CASE WriteRead(x)
    BY <1>1, <1>2, <2>1, <2>2 DEF TypeOK, WriteRead, Places
  <2>3. CASE Write(x)
    BY <1>2, <2>1, <2>3 DEF TypeOK, Write, Places
  <2>4. CASE Read
    BY <1>1, <1>2, <2>1, <2>4 DEF TypeOK, Read, Places
  <2>5. CASE UNCHANGED <<wcnt, mem>>
    BY <1>2, <2>1, <2>5 DEF TypeOK
  <2> QED
    BY <1>2, <2>2, <2>3, <2>4, <2>5 DEF Clock
<1>3. CASE UNCHANGED vars
  BY <1>3 DEF TypeOK, vars
<1> QED
  BY <1>2, <1>3 DEF Next

\* The count never leaves the shift register and the words stay words, for every
\* depth and width of the queue (core/queue.h:88-151).
THEOREM TypeCorrect == Spec => []TypeOK
<1>1. Init => TypeOK
  BY QueueAssumption DEF Init, TypeOK
<1>2. TypeOK /\ [Next]_vars => TypeOK'
  BY TypeStep
<1> QED
  BY <1>1, <1>2, PTL DEF Spec

\* A clock with i_re and i_we (core/queue.h:112-119): the oldest word leaves and the new
\* one is the last; on an empty queue the new word passes through.
LEMMA WriteReadTakes ==
    ASSUME TypeOK, TypeOK', NEW x \in Data, WriteRead(x), got' = Rdata(x)
    PROVE  Fifo!FifoTake(TRUE, x)
<1> DEFINE all == Append(Queued, x)
<1> USE QueueAssumption
<1>1. /\ wcnt' = wcnt /\ wcnt \in 0 .. Depth
      /\ Queued \in Seq(Data) /\ Len(Queued) = wcnt
      /\ \A i \in 1 .. wcnt : Queued[i] = mem[i - 1]
      /\ Queued' \in Seq(Data) /\ Len(Queued') = wcnt
      /\ \A i \in 1 .. wcnt : Queued'[i] = mem'[i - 1]
  BY WordsType DEF WriteRead
<1>2. /\ all \in Seq(Data) /\ Len(all) = wcnt + 1 /\ all # <<>>
      /\ \A i \in 1 .. wcnt + 1 : all[i] = IF i = wcnt + 1 THEN x ELSE Queued[i]
  <2>1. wcnt \in Nat
    BY <1>1
  <2> QED BY <1>1, <2>1, AppendType
<1>3. Head(all) = Rdata(x)
  BY <1>1, <1>2 DEF Rdata
<1> HIDE DEF all
<1>4. /\ Tail(all) \in Seq(Data) /\ Len(Tail(all)) = wcnt
      /\ \A i \in 1 .. wcnt : Tail(all)[i] = all[i + 1]
  BY <1>1, <1>2, TailType
<1>5. ASSUME NEW i \in 1 .. wcnt
      PROVE  Tail(all)[i] = Queued'[i]
  <2>1. mem'[i - 1] = IF i = wcnt THEN x ELSE mem[i]
    BY <1>1 DEF WriteRead, Shifted, TypeOK, Places
  <2>2. Tail(all)[i] = IF i = wcnt THEN x ELSE Queued[i + 1]
    BY <1>1, <1>2, <1>4
  <2>3. i # wcnt => Queued[i + 1] = mem[(i + 1) - 1] /\ (i + 1) - 1 = i
    BY <1>1
  <2>4. Queued'[i] = mem'[i - 1]
    BY <1>1
  <2> QED
    BY <2>1, <2>2, <2>3, <2>4
<1>6. Tail(all) = Queued'
  BY <1>1, <1>4, <1>5, SeqEqual
<1> QED
  BY <1>2, <1>3, <1>6 DEF Fifo!FifoTake, Fifo!Offered, all

\* A clock with i_we only (core/queue.h:120-124): the word is appended unless all places
\* are taken.
LEMMA WriteKeeps ==
    ASSUME TypeOK, TypeOK', NEW x \in Data, Write(x), got' = None
    PROVE  Fifo!FifoKeep(TRUE, x)
<1> USE QueueAssumption
<1>1. /\ Queued \in Seq(Data) /\ Len(Queued) = wcnt /\ wcnt \in 0 .. Depth
      /\ \A i \in 1 .. wcnt : Queued[i] = mem[i - 1]
      /\ Queued' \in Seq(Data) /\ Len(Queued') = wcnt'
      /\ \A i \in 1 .. wcnt' : Queued'[i] = mem'[i - 1]
  BY WordsType
<1>2. CASE wcnt = Depth
  <2>1. Queued' = Queued
    BY <1>2 DEF Write, Queued
  <2>2. ~(Len(Queued) < Depth)
    BY <1>1, <1>2
  <2> QED
    BY <2>1, <2>2 DEF Fifo!FifoKeep
<1>3. CASE wcnt < Depth
  <2>1. wcnt' = wcnt + 1 /\ mem' = [mem EXCEPT ![wcnt] = x]
    BY <1>3 DEF Write
  <2>2. /\ Append(Queued, x) \in Seq(Data) /\ Len(Append(Queued, x)) = wcnt + 1
        /\ \A i \in 1 .. wcnt + 1 :
              Append(Queued, x)[i] = IF i = wcnt + 1 THEN x ELSE Queued[i]
    <3>1. wcnt \in Nat
      BY <1>1
    <3> QED BY <1>1, <3>1, AppendType
  <2>3. ASSUME NEW i \in 1 .. wcnt + 1
        PROVE  Queued'[i] = Append(Queued, x)[i]
    <3>1. mem'[i - 1] = IF i = wcnt + 1 THEN x ELSE mem[i - 1]
      BY <1>1, <1>3, <2>1 DEF TypeOK, Places
    <3> QED
      BY <1>1, <2>1, <2>2, <3>1
  <2>4. Queued' = Append(Queued, x)
    BY <1>1, <2>1, <2>2, <2>3, SeqEqual
  <2>5. Len(Queued) < Depth
    BY <1>1, <1>3
  <2> QED
    BY <2>4, <2>5 DEF Fifo!FifoKeep, Fifo!Offered
<1>4. wcnt = Depth \/ wcnt < Depth
  BY <1>1
<1> QED
  BY <1>2, <1>3, <1>4

\* A clock with i_re only (core/queue.h:125-131): the oldest word leaves.
LEMMA ReadTakes ==
    ASSUME TypeOK, TypeOK', NEW x \in Data, Read, wcnt # 0, got' = Rdata(x)
    PROVE  Fifo!FifoTake(FALSE, x)
<1> USE QueueAssumption
<1>1. /\ Queued \in Seq(Data) /\ Len(Queued) = wcnt /\ wcnt \in 1 .. Depth
      /\ \A i \in 1 .. wcnt : Queued[i] = mem[i - 1]
      /\ Queued' \in Seq(Data) /\ Len(Queued') = wcnt - 1
      /\ \A i \in 1 .. wcnt - 1 : Queued'[i] = mem'[i - 1]
  BY WordsType DEF Read
<1>2. Queued # <<>> /\ Head(Queued) = Rdata(x)
  BY <1>1 DEF Rdata
<1>3. /\ Tail(Queued) \in Seq(Data) /\ Len(Tail(Queued)) = wcnt - 1
      /\ \A i \in 1 .. wcnt - 1 : Tail(Queued)[i] = Queued[i + 1]
  BY <1>1, TailType
<1>4. ASSUME NEW i \in 1 .. wcnt - 1
      PROVE  Tail(Queued)[i] = Queued'[i]
  <2>1. mem'[i - 1] = mem[i]
    BY <1>1 DEF Read, Shifted, TypeOK, Places
  <2> QED
    BY <1>1, <1>3, <2>1
<1>5. Tail(Queued) = Queued'
  BY <1>1, <1>3, <1>4, SeqEqual
<1> QED
  BY <1>2, <1>5 DEF Fifo!FifoTake, Fifo!Offered

\* Every clock of the shift register is a clock of the first-in first-out queue.
LEMMA ClockRefines ==
    ASSUME TypeOK, TypeOK', NEW re \in BOOLEAN, NEW we \in BOOLEAN, NEW x \in Data,
           Clock(re, we, x)
    PROVE  Fifo!FifoNext
<1> USE QueueAssumption
<1>1. CASE re /\ we
  <2>1. WriteRead(x) /\ got' = Rdata(x)
    BY <1>1 DEF Clock, Nempty
  <2> QED
    BY <2>1, WriteReadTakes DEF Fifo!FifoNext
<1>2. CASE ~re /\ we
  <2>1. Write(x) /\ got' = None
    BY <1>2 DEF Clock
  <2> QED
    BY <2>1, WriteKeeps DEF Fifo!FifoNext
<1>3. CASE re /\ ~we /\ wcnt # 0
  <2>1. Read /\ got' = Rdata(x)
    BY <1>3 DEF Clock, Nempty
  <2> QED
    BY <1>3, <2>1, ReadTakes DEF Fifo!FifoNext
<1>4. CASE ~we /\ (re => wcnt = 0)
  <2>1. got' = None /\ wcnt' = wcnt /\ (wcnt = 0 \/ mem' = mem)
    BY <1>4 DEF Clock, Nempty, Read
  <2>2. Queued' = Queued
    BY <2>1 DEF Queued, TypeOK
  <2>3. Fifo!FifoKeep(FALSE, x)
    BY <2>1, <2>2 DEF Fifo!FifoKeep, Fifo!Offered
  <2> QED
    BY <2>3 DEF Fifo!FifoNext
<1> QED
  BY <1>1, <1>2, <1>3, <1>4

\* For every depth, every set of words and every sequence of inputs, the shift register
\* of core/queue.h behaves as a first-in first-out queue of DEPTH words.
THEOREM ImplementsFifo == Spec => IsFifo
<1>1. Init => Fifo!FifoInit
  <2>1. Init => Queued = <<>>
    BY DEF Init, Queued
  <2> QED
    BY <2>1 DEF Init, Fifo!FifoInit
<1>2. TypeOK /\ TypeOK' /\ [Next]_vars => [Fifo!FifoNext]_<<Queued, got>>
  <2> SUFFICES ASSUME TypeOK, TypeOK', [Next]_vars
               PROVE  [Fifo!FifoNext]_<<Queued, got>>
    OBVIOUS
  <2>1. CASE Next
    BY <2>1, ClockRefines DEF Next
  <2>2. CASE UNCHANGED vars
    BY <2>2 DEF vars, Queued
  <2> QED
    BY <2>1, <2>2
<1> QED
  BY <1>1, <1>2, TypeCorrect, PTL DEF Spec, IsFifo, Fifo!FifoSpec

\* One clock of the registers, for a word that is written only to a place that is free:
\* the words keep their order, and one that is read leaves at the front.
LEMMA QueueClock ==
    ASSUME TypeOK, NEW re \in BOOLEAN, NEW we \in BOOLEAN, NEW x \in Data, Clock(re, we, x),
           we => wcnt < Depth - 1,
           NEW n, n = (IF we THEN wcnt + 1 ELSE wcnt),
           NEW k, k = (IF re /\ n # 0 THEN 1 ELSE 0)
    PROVE  /\ TypeOK' /\ wcnt' = n - k
           /\ \A i \in 1 .. n - k : mem'[i - 1] = IF i + k <= wcnt THEN mem[i + k - 1] ELSE x
<1> USE QueueAssumption
<1>1. TypeOK'
  <2>1. Next
    BY DEF Next
  <2> QED BY <2>1, TypeStep
<1>2. wcnt \in 0 .. Depth /\ mem \in [Places -> Data] /\ Depth \in Nat /\ Depth # 0
  BY DEF TypeOK
<1>3. CASE re /\ we
  <2>1. /\ wcnt' = wcnt /\ n = wcnt + 1 /\ k = 1 /\ wcnt < Depth - 1
        /\ mem' = IF wcnt = 0 THEN Shifted ELSE [Shifted EXCEPT ![wcnt - 1] = x]
    BY <1>2, <1>3 DEF Clock, WriteRead
  <2>2. ASSUME NEW i \in 1 .. wcnt
        PROVE  mem'[i - 1] = IF i = wcnt THEN x ELSE mem[i]
    BY <1>2, <2>1 DEF Shifted, Places
  <2> QED BY <1>1, <1>2, <2>1, <2>2
<1>4. CASE ~re /\ we
  <2>1. k = 0 /\ n = wcnt + 1 /\ wcnt' = wcnt + 1 /\ mem' = [mem EXCEPT ![wcnt] = x] /\ wcnt < Depth - 1
    BY <1>2, <1>4 DEF Clock, Write
  <2>2. ASSUME NEW i \in 1 .. wcnt + 1
        PROVE  mem'[i - 1] = IF i <= wcnt THEN mem[i - 1] ELSE x
    BY <1>2, <2>1 DEF Places
  <2> QED BY <1>1, <1>2, <2>1, <2>2
<1>5. CASE re /\ ~we
  <2>1. /\ n = wcnt /\ wcnt' = (IF wcnt = 0 THEN 0 ELSE wcnt - 1) /\ mem' = Shifted
        /\ k = (IF wcnt = 0 THEN 0 ELSE 1)
    BY <1>2, <1>5 DEF Clock, Read
  <2>2. ASSUME wcnt # 0, NEW i \in 1 .. wcnt - 1
        PROVE  mem'[i - 1] = mem[i]
    BY <1>2, <2>1, <2>2 DEF Shifted, Places
  <2> QED BY <1>1, <1>2, <2>1, <2>2
<1>6. CASE ~re /\ ~we
  BY <1>1, <1>2, <1>6 DEF Clock
<1> QED BY <1>3, <1>4, <1>5, <1>6

----------------------------------------------------------------------------
(***************************************************************************)
(* The way through the page tables.                                        *)
(***************************************************************************)

\* A set of numbers below a bound has a largest one: if not, the numbers that it reaches
\* are one to one with those but 0.
LEMMA Largest ==
    ASSUME NEW n \in Nat, NEW T \in SUBSET (0 .. n), T # {}
    PROVE  \E x \in T : \A y \in T : y <= x
<1> SUFFICES ASSUME \A x \in T : \E y \in T : x < y
             PROVE  FALSE
  OBVIOUS
<1> DEFINE C == {x \in 0 .. n : \E y \in T : x <= y}
           up == [x \in C |-> x + 1]
<1>1. 0 \in C
  <2>1. PICK y \in T : TRUE
    OBVIOUS
  <2> QED BY <2>1
<1>2. \A x \in C : x + 1 \in C \ {0}
  <2> SUFFICES ASSUME NEW x \in C PROVE x + 1 \in C \ {0}
    OBVIOUS
  <2>1. PICK y \in T : x <= y
    OBVIOUS
  <2>2. PICK z \in T : y < z
    OBVIOUS
  <2>3. x \in Nat /\ y \in Nat /\ z \in 0 .. n
    OBVIOUS
  <2>4. x + 1 <= z /\ x + 1 \in 0 .. n
    BY <2>1, <2>2, <2>3
  <2> QED BY <2>3, <2>4
<1>3. IsFiniteSet(C)
  <2>1. C \in SUBSET (0 .. n) /\ IsFiniteSet(0 .. n)
    BY FS_Interval
  <2> QED BY <2>1, FS_Subset
<1>4. Cardinality(C) \in Nat /\ IsFiniteSet(C \ {0}) /\ Cardinality(C \ {0}) = Cardinality(C) - 1
  BY <1>1, <1>3, FS_CardinalityType, FS_RemoveElement
<1>5. up \in [C -> C \ {0}]
  BY <1>2
<1>6. \A x, y \in C : x # y => up[x] # up[y]
  OBVIOUS
<1> HIDE DEF C, up
<1>7. Cardinality(C \ {0}) < Cardinality(C)
  BY <1>4
<1>8. \E x, y \in C : x # y /\ up[x] = up[y]
  BY <1>3, <1>4, <1>5, <1>7, FS_PigeonHole
<1> QED BY <1>6, <1>8

\* A set of levels that holds the highest one, and with one the next lower one, holds all.
LEMMA Descend ==
    ASSUME NEW G \in SUBSET M!Sizes, Levels - 1 \in G,
           \A p \in M!Sizes : p # Levels - 1 /\ p + 1 \in G => p \in G
    PROVE  G = M!Sizes
<1>1. Levels \in Nat \ {0} /\ M!Sizes = 0 .. Levels - 1
  BY DataAssumption DEF M!Sizes
<1> DEFINE T == M!Sizes \ G
<1> SUFFICES ASSUME T # {} PROVE FALSE
  OBVIOUS
<1>2. T \in SUBSET (0 .. Levels - 1) /\ Levels - 1 \in Nat
  BY <1>1
<1>3. PICK x \in T : \A y \in T : y <= x
  BY <1>2, Largest
<1>4. x \in M!Sizes /\ x \notin G /\ x # Levels - 1
  OBVIOUS
<1>5. x + 1 \in M!Sizes
  BY <1>1, <1>4
<1>6. x + 1 \in G
  <2> SUFFICES ASSUME x + 1 \notin G PROVE FALSE
    OBVIOUS
  <2>1. x + 1 <= x
    BY <1>3, <1>5
  <2> QED BY <1>1, <1>4, <2>1
<1> QED BY <1>4, <1>6

\* the step at level p, when s are the steps
StepOn(t, va, s, p) == IF p = Levels - 1 THEN t[Root][va[Levels - 1]] ELSE StepTo(t, va, s[p + 1], p)

\* The steps are what the recursion of Steps defines (HandleResp of mmu.cpp goes down level by level).
LEMMA StepsUnfold ==
    ASSUME NEW t, NEW va
    PROVE  /\ DOMAIN Steps(t, va) = M!Sizes
           /\ \A p \in M!Sizes : Steps(t, va)[p] = StepOn(t, va, Steps(t, va), p)
<1>1. Levels \in Nat \ {0} /\ M!Sizes = 0 .. Levels - 1
  BY DataAssumption DEF M!Sizes
<1> DEFINE To(n) == n .. Levels - 1
           Part(n, f) == f = [p \in To(n) |-> StepOn(t, va, f, p)]
           G == {n \in M!Sizes : \E f : Part(n, f)}
<1>2. Levels - 1 \in G
  <2> DEFINE f == [p \in To(Levels - 1) |-> t[Root][va[Levels - 1]]]
  <2>1. \A p \in To(Levels - 1) : p = Levels - 1
    BY <1>1
  <2>2. f = [p \in To(Levels - 1) |-> StepOn(t, va, f, p)]
    BY <2>1 DEF StepOn
  <2> HIDE DEF f
  <2>3. Levels - 1 \in M!Sizes
    BY <1>1
  <2> QED BY <2>2, <2>3
<1>3. ASSUME NEW n \in M!Sizes, n # Levels - 1, n + 1 \in G
      PROVE  n \in G
  <2>1. PICK f : Part(n + 1, f)
    BY <1>3
  <2> DEFINE x == StepTo(t, va, f[n + 1], n)
             h == [p \in To(n) |-> IF p = n THEN x ELSE f[p]]
  <2>2. DOMAIN f = To(n + 1) /\ \A p \in To(n + 1) : f[p] = StepOn(t, va, f, p)
    BY <2>1
  <2>3. ASSUME NEW p \in To(n)
        PROVE  h[p] = StepOn(t, va, h, p)
    <3>1. CASE p = n
      <4>1. n + 1 \in To(n) /\ n + 1 # n /\ n \in To(n)
        BY <1>1, <1>3
      <4>2. h[n + 1] = f[n + 1] /\ h[p] = x
        BY <3>1, <4>1
      <4> QED BY <1>3, <3>1, <4>2 DEF StepOn
    <3>2. CASE p # n
      <4>1. p \in To(n + 1) /\ h[p] = f[p] /\ f[p] = StepOn(t, va, f, p)
        BY <1>1, <1>3, <2>2, <3>2
      <4>2. p # Levels - 1 => p + 1 \in To(n) /\ p + 1 # n
        BY <1>1, <1>3, <4>1
      <4>3. p # Levels - 1 => h[p + 1] = f[p + 1]
        BY <4>2
      <4> QED BY <4>1, <4>3 DEF StepOn
    <3> QED BY <3>1, <3>2
  <2>4. h = [p \in To(n) |-> StepOn(t, va, h, p)]
    BY <2>3
  <2> HIDE DEF h
  <2> QED BY <2>4
<1>4. G = M!Sizes
  <2> HIDE DEF G
  <2>1. G \in SUBSET M!Sizes
    BY DEF G
  <2> QED BY <1>2, <1>3, <2>1, Descend
<1>5. PICK g : g = [p \in M!Sizes |-> StepOn(t, va, g, p)]
  <2>1. 0 \in G /\ To(0) = M!Sizes
    BY <1>1, <1>4
  <2> QED BY <2>1
<1> DEFINE P(f) == f = [p \in M!Sizes |-> IF p = Levels - 1 THEN t[Root][va[p]]
                                          ELSE StepTo(t, va, f[p + 1], p)]
<1>6. P(g)
  BY <1>5 DEF StepOn
<1> HIDE DEF G
<1>7. P(CHOOSE f : P(f))
  BY <1>6
<1>8. Steps(t, va) = CHOOSE f : P(f)
  BY DEF Steps
<1>9. P(Steps(t, va))
  BY <1>7, <1>8
<1> QED BY <1>9 DEF StepOn

\* Every step is an entry of the tables, and a pointer leads to a table.
LEMMA StepsType ==
    ASSUME NEW t, IsTables(t), NEW va \in M!Page, NEW p \in M!Sizes
    PROVE  Steps(t, va)[p] \in Entries /\ (Points(Steps(t, va)[p]) => Steps(t, va)[p].ppn \in DOMAIN t)
<1> DEFINE S == Steps(t, va)
           G == {n \in M!Sizes : S[n] \in Entries /\ (Points(S[n]) => S[n].ppn \in DOMAIN t)}
<1>1. Levels \in Nat \ {0} /\ M!Sizes = 0 .. Levels - 1
  BY DataAssumption DEF M!Sizes
<1>2. ASSUME NEW g \in DOMAIN t, NEW n \in M!Sizes
      PROVE  t[g][va[n]] \in Entries /\ (Points(t[g][va[n]]) => t[g][va[n]].ppn \in DOMAIN t)
  BY DEF IsTables, M!Page, Digits
<1>3. Levels - 1 \in G
  <2>1. Levels - 1 \in M!Sizes
    BY <1>1
  <2>2. S[Levels - 1] = t[Root][va[Levels - 1]]
    BY <2>1, StepsUnfold DEF StepOn
  <2>3. Root \in DOMAIN t
    BY DEF IsTables
  <2> HIDE DEF S
  <2> QED BY <1>2, <2>1, <2>2, <2>3
<1>4. ASSUME NEW n \in M!Sizes, n # Levels - 1, n + 1 \in G
      PROVE  n \in G
  <2>1. S[n] = StepTo(t, va, S[n + 1], n)
    BY <1>4, StepsUnfold DEF StepOn
  <2>2. S[n + 1] \in Entries /\ (Points(S[n + 1]) => S[n + 1].ppn \in DOMAIN t)
    BY <1>4
  <2> HIDE DEF S
  <2>3. CASE Points(S[n + 1])
    BY <1>2, <2>1, <2>2, <2>3 DEF StepTo
  <2>4. CASE ~Points(S[n + 1])
    BY <1>2, <2>1, <2>2, <2>4 DEF StepTo
  <2> QED BY <2>3, <2>4
<1>5. G = M!Sizes
  <2> HIDE DEF G
  <2>1. G \in SUBSET M!Sizes
    BY DEF G
  <2> QED BY <1>3, <1>4, <2>1, Descend
<1> QED BY <1>5

\* p is the highest level with a leaf
TopLeaf(t, va, p) ==
    /\ p \in M!Sizes /\ IsLeaf(Steps(t, va)[p])
    /\ \A q \in M!Sizes : q > p => ~IsLeaf(Steps(t, va)[q])

\* The leaf is the highest one, if there is one.
LEMMA LeafIs ==
    ASSUME NEW t, NEW va, NEW p, TopLeaf(t, va, p)
    PROVE  Leaf(t, va) = [size |-> p, pte |-> Steps(t, va)[p]]
<1> DEFINE s == Steps(t, va)
           sizes == {q \in M!Sizes : IsLeaf(s[q])}
           best == CHOOSE x \in sizes : \A y \in sizes : y <= x
<1>1. M!Sizes \subseteq Int
  BY DataAssumption DEF M!Sizes
<1>2. p \in sizes /\ \A y \in sizes : y <= p
  BY <1>1 DEF TopLeaf
<1>3. best \in sizes /\ \A y \in sizes : y <= best
  BY <1>2
<1>4. best = p
  <2>1. best <= p /\ p <= best /\ best \in Int /\ p \in Int
    BY <1>1, <1>2, <1>3
  <2> QED BY <2>1
<1>5. Leaf(t, va) = [size |-> best, pte |-> s[best]]
  BY <1>2 DEF Leaf
<1> QED BY <1>4, <1>5

LEMMA LeafHas ==
    ASSUME NEW t, NEW va
    PROVE  (\E p \in M!Sizes : TopLeaf(t, va, p)) \/ (Leaf(t, va) = None /\ \A q \in M!Sizes : ~IsLeaf(Steps(t, va)[q]))
<1> DEFINE s == Steps(t, va)
           sizes == {q \in M!Sizes : IsLeaf(s[q])}
<1>1. Levels - 1 \in Nat /\ M!Sizes = 0 .. Levels - 1
  BY DataAssumption DEF M!Sizes
<1>2. CASE sizes = {}
  BY <1>2 DEF Leaf
<1>3. CASE sizes # {}
  <2>1. PICK x \in sizes : \A y \in sizes : y <= x
    BY <1>1, <1>3, Largest
  <2>2. \A q \in M!Sizes : q > x => ~IsLeaf(s[q])
    BY <1>1, <2>1
  <2> QED BY <2>1, <2>2 DEF TopLeaf
<1> QED BY <1>2, <1>3

\* A translation is a size and an entry with a leaf, or there is none.
LEMMA LeafType ==
    ASSUME NEW t, IsTables(t), NEW va \in M!Page
    PROVE  /\ Leaf(t, va) \in {None} \cup [size : M!Sizes, pte : Entries]
           /\ Leaf(t, va) # None =>
                 /\ Leaf(t, va).size \in M!Sizes /\ Leaf(t, va).pte \in Entries
                 /\ Leaf(t, va).pte.ppn \in M!Page /\ Leaf(t, va).pte.flags \in SUBSET M!PteFlags
                 /\ TopLeaf(t, va, Leaf(t, va).size)
                 /\ Leaf(t, va) = [size |-> Leaf(t, va).size, pte |-> Leaf(t, va).pte]
<1>1. CASE \E p \in M!Sizes : TopLeaf(t, va, p)
  <2>1. PICK p \in M!Sizes : TopLeaf(t, va, p)
    BY <1>1
  <2>2. Leaf(t, va) = [size |-> p, pte |-> Steps(t, va)[p]] /\ Steps(t, va)[p] \in Entries
    BY <2>1, LeafIs, StepsType
  <2> QED BY <2>1, <2>2 DEF Entries
<1>2. CASE Leaf(t, va) = None
  BY <1>2
<1> QED BY <1>1, <1>2, LeafHas

\* A pointer that leads nowhere, or an invalid entry, ends the way without a leaf.
LEMMA NoLeaf ==
    ASSUME NEW t, NEW va, NEW p \in M!Sizes,
           \A q \in M!Sizes : q > p => Points(Steps(t, va)[q]),
           ~IsLeaf(Steps(t, va)[p]), p = 0 \/ ~Points(Steps(t, va)[p])
    PROVE  Leaf(t, va) = None
<1> DEFINE S == Steps(t, va)
           G == {n \in M!Sizes : n >= p \/ S[n] = S[p]}
<1>1. Levels \in Nat \ {0} /\ M!Sizes = 0 .. Levels - 1
  BY DataAssumption DEF M!Sizes
<1>2. Levels - 1 \in G
  BY <1>1
<1>3. ASSUME NEW n \in M!Sizes, n # Levels - 1, n + 1 \in G
      PROVE  n \in G
  <2>1. CASE n >= p
    BY <2>1
  <2>2. CASE n < p
    <3>1. S[n + 1] = S[p]
      BY <1>1, <1>3, <2>2
    <3>2. ~Points(S[p])
      BY <1>1, <2>2
    <3>3. S[n] = StepTo(t, va, S[n + 1], n)
      BY <1>3, StepsUnfold DEF StepOn
    <3>4. S[n] = S[p]
      BY <3>1, <3>2, <3>3 DEF StepTo
    <3> QED BY <3>4
  <2> QED BY <1>1, <2>1, <2>2
<1>4. G = M!Sizes
  <2> HIDE DEF G
  <2>1. G \in SUBSET M!Sizes
    BY DEF G
  <2> QED BY <1>2, <1>3, <2>1, Descend
<1>5. ASSUME NEW n \in M!Sizes
      PROVE  ~IsLeaf(S[n])
  <2>1. n >= p \/ S[n] = S[p]
    BY <1>4
  <2>2. n > p => ~IsLeaf(S[n])
    BY DEF Points
  <2>3. n = p \/ n > p \/ S[n] = S[p]
    BY <1>1, <2>1
  <2> QED BY <2>2, <2>3
<1> QED BY <1>5, LeafHas DEF TopLeaf

\* Pages that agree above a level have the same steps down to it.
LEMMA SameSteps ==
    ASSUME NEW t, NEW va, NEW vb, NEW p \in M!Sizes, M!SamePage(p, va, vb)
    PROVE  \A q \in M!Sizes : q >= p => Steps(t, va)[q] = Steps(t, vb)[q]
<1> DEFINE A == Steps(t, va)
           B == Steps(t, vb)
           G == {n \in M!Sizes : n >= p => A[n] = B[n]}
<1>1. Levels \in Nat \ {0} /\ M!Sizes = 0 .. Levels - 1
  BY DataAssumption DEF M!Sizes
<1>2. \A q \in M!Sizes : q >= p => va[q] = vb[q]
  BY <1>1 DEF M!SamePage
<1>3. Levels - 1 \in G
  <2>1. Levels - 1 \in M!Sizes /\ Levels - 1 >= p
    BY <1>1
  <2>2. A[Levels - 1] = t[Root][va[Levels - 1]] /\ B[Levels - 1] = t[Root][vb[Levels - 1]]
    BY <2>1, StepsUnfold DEF StepOn
  <2> HIDE DEF A, B
  <2> QED BY <1>2, <2>1, <2>2
<1>4. ASSUME NEW n \in M!Sizes, n # Levels - 1, n + 1 \in G
      PROVE  n \in G
  <2>1. A[n] = StepTo(t, va, A[n + 1], n) /\ B[n] = StepTo(t, vb, B[n + 1], n)
    BY <1>4, StepsUnfold DEF StepOn
  <2>2. n >= p => A[n + 1] = B[n + 1] /\ va[n] = vb[n]
    BY <1>1, <1>2, <1>4
  <2> HIDE DEF A, B
  <2>3. n >= p => A[n] = B[n]
    BY <2>1, <2>2 DEF StepTo
  <2> QED BY <2>3
<1>5. G = M!Sizes
  <2> HIDE DEF G
  <2>1. G \in SUBSET M!Sizes
    BY DEF G
  <2> QED BY <1>3, <1>4, <2>1, Descend
<1> QED BY <1>5

\* The addresses of a page have one translation.
LEMMA SameLeaf ==
    ASSUME NEW t, NEW va, NEW vb, Leaf(t, va) # None, TopLeaf(t, va, Leaf(t, va).size),
           M!SamePage(Leaf(t, va).size, va, vb)
    PROVE  Leaf(t, vb) = Leaf(t, va)
<1> DEFINE p == Leaf(t, va).size
<1>1. p \in M!Sizes /\ M!SamePage(p, va, vb)
  BY DEF TopLeaf
<1>5. TopLeaf(t, va, p)
  OBVIOUS
<1> HIDE DEF p
<1>2. \A q \in M!Sizes : q >= p => Steps(t, va)[q] = Steps(t, vb)[q]
  BY <1>1, SameSteps
<1>6. M!Sizes \subseteq Int
  BY DataAssumption DEF M!Sizes
<1>3. TopLeaf(t, vb, p) /\ Steps(t, va)[p] = Steps(t, vb)[p]
  BY <1>1, <1>2, <1>5, <1>6 DEF TopLeaf
<1>4. /\ Leaf(t, va) = [size |-> p, pte |-> Steps(t, va)[p]]
      /\ Leaf(t, vb) = [size |-> p, pte |-> Steps(t, vb)[p]]
  BY <1>3, <1>5, LeafIs
<1> QED BY <1>3, <1>4

LEMMA SamePageLaws ==
    ASSUME NEW p, NEW x, NEW y, NEW z
    PROVE  /\ M!SamePage(p, x, x)
           /\ M!SamePage(p, x, y) => M!SamePage(p, y, x)
           /\ M!SamePage(p, x, y) /\ M!SamePage(p, y, z) => M!SamePage(p, x, z)
BY DEF M!SamePage

----------------------------------------------------------------------------
(***************************************************************************)
(* The inductive invariant.  t is the page tables of the moment, w the     *)
(* workload, r the registers of the memory management unit.                *)
(***************************************************************************)
Current == load.tables[version]

\* the last page is a translation, and some operation may access it
LastRight(t, w, r) ==
    LET l == Leaf(t, r.last_va)
    IN  /\ l # None
        /\ l.size = r.last_page_size /\ l.pte.flags = r.last_permission
        /\ \A q \in M!Sizes : q >= l.size => r.last_pa[q] = l.pte.ppn[q]
        /\ \E k \in Translated(w) : ~Refused(t, k) /\ M!SamePage(l.size, k.page, r.last_va)

\* an entry of the translation buffer is the translation of a page of size s that may
\* be accessed
GoodEntry(t, w, s, e) ==
    /\ e.size = s
    /\ \E k \in Translated(w) : ~Refused(t, k) /\ e.va = k.page
    /\ Leaf(t, e.va) = [size |-> e.size, pte |-> [flags |-> e.flags, ppn |-> e.pa]]

\* no change of the page tables is being made known
Settled == fence = "none" /\ ~u.req_flush

InFlight == a.valid \/ a.state # "Idle"
Ahead == IF InFlight THEN 1 ELSE 0

\* the operations that did not complete: the one in flight and those in the queue
AccessInv ==
    /\ a.valid => a.state = "Idle" /\ a.job # None /\ a.job.op = "flush"
    /\ a.state # "Idle" => a.job # None /\ a.job.op # "flush"
    /\ Len(pend) = Ahead + wcnt
    /\ InFlight => pend[1].j = a.job
    /\ \A i \in 1 .. wcnt : pend[Ahead + i].j = mem[i - 1]

\* how an operation ends
Outcome(t, w, j) ==
    IF j.op = "flush" THEN "flush"
    ELSE IF Refused(t, j) THEN "page_fault" ELSE IF Target(t, j) \in w.faulty THEN "fault" ELSE "ok"

\* what is right for them is what the page tables of the moment define
RightInv == \A i \in 1 .. Len(pend) : pend[i].outcome = Outcome(Current, load, pend[i].j)

\* The memory management unit: it waits for an operation, for the response of a direct
\* access, or it translates.
Resting == u.state \in {"Idle", "FlushTlb"}
Chained == u.state \in {"WaitRespNoMmu", "WaitRespLast"}
Looking == ~Resting /\ ~Chained

\* the way to the page of j leads to level p
OnTheWay(t, j, p) == \A q \in M!Sizes : q > p => Points(Steps(t, j.page)[q])

BusyInv ==
    /\ a.state = "WaitResponse" <=> ~Resting
    /\ ~Resting => Settled
    /\ bus # None <=> u.state \in {"WaitRespNoMmu", "WaitRespLast", "WaitResp"}

\* the operation in flight has reached the data
Sent == \/ a.state = "Hold" \/ Chained \/ u.state = "AcceptCore"
        \/ u.state = "WaitResp" /\ u.tlb_hit

ChainInv ==
    Chained => /\ bus.at = M!DataAt(Target(Current, a.job))
               /\ bus.write = (a.job.op = "store")
               /\ ~Refused(Current, a.job)
               /\ u.state = "WaitRespNoMmu" => ~u.last_mmu_ena
               /\ u.state = "WaitRespLast" =>
                     u.last_va = a.job.page /\ u.last_mmu_ena /\ LastRight(Current, load, u)

LookInv ==
    Looking => /\ a.job.ena /\ u.last_mmu_ena /\ u.last_va = a.job.page
               /\ u.req = [page |-> a.job.page, write |-> a.job.op = "store", wdata |-> a.job.wdata]
               /\ u.ex_page_fault => u.state = "AcceptCore"
               /\ u.state = "CheckTlb" =>
                     ~u.tlb_hit /\ (rdata = None \/ GoodEntry(Current, load, u.last_page_size, rdata))
               /\ u.state = "WaitResp" =>
                     bus.at = u.req_pa /\ bus.write = (u.tlb_hit /\ a.job.op = "store")

\* the walk reads the entry of its level
WalkInv ==
    /\ u.state \in {"CacheReq", "WaitResp"} /\ ~u.tlb_hit =>
          /\ u.req_pa.page \in DOMAIN Current
          /\ u.req_pa.entry = a.job.page[u.tlb_page_size]
          /\ Current[u.req_pa.page][u.req_pa.entry] = Steps(Current, a.job.page)[u.tlb_page_size]
          /\ OnTheWay(Current, a.job, u.tlb_page_size)
    /\ u.state = "HandleResp" =>
          /\ ~u.tlb_hit /\ u.resp # None /\ ~u.resp.fault
          /\ u.resp.pte = Steps(Current, a.job.page)[u.tlb_page_size]
          /\ OnTheWay(Current, a.job, u.tlb_page_size)

\* the translation is found, or there is none
FoundInv ==
    /\ u.state = "UpdateTlb" \/ (u.state \in {"CacheReq", "WaitResp"} /\ u.tlb_hit) =>
          /\ LastRight(Current, load, u) /\ ~Refused(Current, a.job)
          /\ u.req_pa = M!DataAt(Target(Current, a.job))
    /\ u.state = "UpdateTlb" =>
          u.tlb_wdata # None /\ GoodEntry(Current, load, u.last_page_size, u.tlb_wdata)
    /\ u.state = "AcceptCore" =>
          /\ u.resp # None
          /\ u.ex_page_fault <=> Refused(Current, a.job)
          /\ ~u.ex_page_fault =>
                /\ LastRight(Current, load, u)
                /\ u.resp.fault = (Target(Current, a.job) \in load.faulty)
                /\ pend[1].outcome = "ok" /\ a.job.op = "load" => u.resp.data = pend[1].data

\* the last page between two operations: a translation, or a page nobody uses
LastInv ==
    /\ u.last_page_size \in LastSizes(load)
    /\ u.state = "Idle" /\ Settled /\ u.last_mmu_ena =>
          \/ LastRight(Current, load, u)
          \/ \A k \in Translated(load) : ~M!SamePage(u.last_page_size, k.page, u.last_va)

HoldInv ==
    a.state = "Hold" =>
        (pend[1].outcome = "ok" /\ a.job.op = "load" => a.hold = pend[1].data)

\* the translation buffer: what a change of the tables has not reached is cleared
Clearing == fence = "none" /\ (u.state = "FlushTlb" \/ u.req_flush)
TlbInv ==
    /\ Settled /\ u.state # "FlushTlb" =>
          \A i \in 0 .. NTlb - 1 : tlb[i] = None \/ GoodEntry(Current, load, u.last_page_size, tlb[i])
    /\ u.state = "FlushTlb" => u.tlb_wdata = None
    /\ u.tlb_flush_adr + u.tlb_flush_cnt = NTlb - 1
    /\ Clearing => \A i \in 0 .. NTlb - 1 : i < u.tlb_flush_adr => tlb[i] = None

\* a change of the tables and its fence meet no operation
FenceInv == fence # "none" => Quiet

\* What the operations still have to do: the stores of ps that are not sent, in order.
Effective(e) == e.j.op = "store" /\ e.outcome = "ok"
Waiting(ps, sent, i) == Effective(ps[i]) /\ ~(sent /\ i = 1)
Place(t, e) == Target(t, e.j)
\* x is what page p holds before operation i of ps
Holding(t, ps, sent, dat, i, p, x) ==
    \/ x = dat[p] /\ \A k \in 1 .. i - 1 : ~(Waiting(ps, sent, k) /\ Place(t, ps[k]) = p)
    \/ \E k \in 1 .. i - 1 :
          /\ Waiting(ps, sent, k) /\ Place(t, ps[k]) = p /\ x = ps[k].j.wdata
          /\ \A m \in k + 1 .. i - 1 : ~(Waiting(ps, sent, m) /\ Place(t, ps[m]) = p)
OrderInv(t, ps, sent, dat, dn) ==
    /\ \A i \in 1 .. Len(ps) : ps[i].j.op = "load" /\ ps[i].outcome = "ok" =>
          Holding(t, ps, sent, dat, i, Place(t, ps[i]), ps[i].data)
    /\ \A p \in M!Page : Holding(t, ps, sent, dat, Len(ps) + 1, p, dn[p])

StoreInv == OrderInv(Current, pend, Sent, data, done)

Requests == [page : M!Page, write : BOOLEAN, wdata : Values]
Addresses == [page : M!Page, entry : Digits \cup {None}]
Answers == [data : Values, pte : Entries \cup {None}, fault : BOOLEAN]
TlbEntries == [va : M!Page, pa : M!Page, size : M!Sizes, flags : SUBSET M!PteFlags]
Registers ==
    [state : M!MmuStates, req : {None} \cup Requests, req_pa : Addresses,
     req_flush : BOOLEAN, last_mmu_ena : BOOLEAN, last_va : M!Page, last_pa : M!Page,
     last_permission : SUBSET M!PteFlags, last_page_size : M!Sizes,
     resp : {None} \cup Answers, ex_page_fault : BOOLEAN, tlb_hit : BOOLEAN,
     tlb_page_size : M!Sizes, tlb_wdata : {None} \cup TlbEntries,
     tlb_flush_cnt : 0 .. NTlb - 1, tlb_flush_adr : 0 .. NTlb - 1]
Pending(w) == [j : w.jobs, outcome : {"flush", "page_fault", "fault", "ok"}, data : Values]

AccessTypes ==
    /\ TypeOK
    /\ load \in Workloads /\ version \in 1 .. Len(load.tables)
    /\ a \in [state : AccessStates, valid : BOOLEAN, job : {None} \cup load.jobs,
              hold : {None} \cup Values]
    /\ pend \in Seq(Pending(load))
    /\ fence \in {"none", "due", "pulse"}
    /\ done \in [M!Page -> Values]

MmuTypes ==
    /\ u \in Registers /\ data \in [M!Page -> Values]
    /\ tlb \in [0 .. NTlb - 1 -> {None} \cup TlbEntries] /\ rdata \in {None} \cup TlbEntries
    /\ bus \in {None} \cup [at : Addresses, write : BOOLEAN, resp : BOOLEAN]

Judged == judged \in {"good", "none"}

PathInv ==
    /\ AccessTypes /\ MmuTypes /\ AccessInv /\ RightInv /\ FenceInv
    /\ BusyInv /\ ChainInv /\ LookInv /\ WalkInv /\ FoundInv /\ LastInv /\ HoldInv /\ TlbInv
    /\ StoreInv /\ Judged

----------------------------------------------------------------------------
(***************************************************************************)
(* The order of the stores: an operation is issued, is sent, completes.    *)
(***************************************************************************)

\* What a page holds before operation i is seen from the operations before i only.
LEMMA HoldingSame ==
    ASSUME NEW t, NEW ps, NEW qs, NEW sp, NEW sq, NEW dat, NEW i \in Nat, NEW p, NEW x,
           \A k \in 1 .. i - 1 : Waiting(ps, sp, k) <=> Waiting(qs, sq, k),
           \A k \in 1 .. i - 1 : Waiting(ps, sp, k) => ps[k] = qs[k],
           Holding(t, ps, sp, dat, i, p, x)
    PROVE  Holding(t, qs, sq, dat, i, p, x)
<1>1. CASE x = dat[p] /\ \A k \in 1 .. i - 1 : ~(Waiting(ps, sp, k) /\ Place(t, ps[k]) = p)
  <2>1. \A k \in 1 .. i - 1 : ~(Waiting(qs, sq, k) /\ Place(t, qs[k]) = p)
    BY <1>1
  <2> QED BY <1>1, <2>1 DEF Holding
<1>2. CASE \E k \in 1 .. i - 1 :
              /\ Waiting(ps, sp, k) /\ Place(t, ps[k]) = p /\ x = ps[k].j.wdata
              /\ \A m \in k + 1 .. i - 1 : ~(Waiting(ps, sp, m) /\ Place(t, ps[m]) = p)
  <2>1. PICK k \in 1 .. i - 1 :
              /\ Waiting(ps, sp, k) /\ Place(t, ps[k]) = p /\ x = ps[k].j.wdata
              /\ \A m \in k + 1 .. i - 1 : ~(Waiting(ps, sp, m) /\ Place(t, ps[m]) = p)
    BY <1>2
  <2>2. Waiting(qs, sq, k) /\ Place(t, qs[k]) = p /\ x = qs[k].j.wdata
    BY <2>1
  <2>3. ASSUME NEW m \in k + 1 .. i - 1
        PROVE  ~(Waiting(qs, sq, m) /\ Place(t, qs[m]) = p)
    <3>1. m \in 1 .. i - 1
      OBVIOUS
    <3>2. ~(Waiting(ps, sp, m) /\ Place(t, ps[m]) = p)
      BY <2>1
    <3> QED BY <3>1, <3>2
  <2> QED BY <2>2, <2>3 DEF Holding
<1> QED BY <1>1, <1>2 DEF Holding

\* Whether an operation that stores nothing is sent does not matter.
LEMMA OrderSent ==
    ASSUME NEW t, NEW ps, NEW sp, NEW sq, NEW dat, NEW dn, Len(ps) \in Nat,
           Len(ps) # 0 => ~Effective(ps[1]),
           OrderInv(t, ps, sp, dat, dn)
    PROVE  OrderInv(t, ps, sq, dat, dn)
<1>1. \A k \in 1 .. Len(ps) : Waiting(ps, sp, k) <=> Waiting(ps, sq, k)
  BY DEF Waiting
<1>2. ASSUME NEW i \in 1 .. Len(ps) + 1, NEW p, NEW x, Holding(t, ps, sp, dat, i, p, x)
      PROVE  Holding(t, ps, sq, dat, i, p, x)
  <2>1. i \in Nat /\ \A k \in 1 .. i - 1 : k \in 1 .. Len(ps)
    OBVIOUS
  <2>2. \A k \in 1 .. i - 1 : Waiting(ps, sp, k) <=> Waiting(ps, sq, k)
    BY <1>1, <2>1
  <2> QED BY <1>2, <2>1, <2>2, HoldingSame
<1>3. Len(ps) + 1 \in 1 .. Len(ps) + 1 /\ \A i \in 1 .. Len(ps) : i \in 1 .. Len(ps) + 1
  OBVIOUS
<1> QED BY <1>2, <1>3 DEF OrderInv

\* operation e is issued behind ps: then it is qs, and dn becomes dm
IssueOf(t, ps, sent, dn, e, qs, dm) ==
    /\ Len(ps) \in Nat /\ Len(qs) = Len(ps) + 1 /\ \A i \in 1 .. Len(ps) : qs[i] = ps[i]
    /\ qs[Len(ps) + 1] = e /\ (e.outcome = "ok" => Place(t, e) \in M!Page)
    /\ e.j.op = "load" /\ e.outcome = "ok" => e.data = dn[Place(t, e)]
    /\ \A p \in M!Page : dm[p] = IF Effective(e) /\ Place(t, e) = p THEN e.j.wdata ELSE dn[p]
    /\ Len(ps) = 0 => sent = FALSE

\* An operation is issued: a load finds what the last store before it leaves.
LEMMA OrderIssue ==
    ASSUME NEW t, NEW ps, NEW sent, NEW dat, NEW dn, NEW e, NEW qs, NEW dm,
           IssueOf(t, ps, sent, dn, e, qs, dm), OrderInv(t, ps, sent, dat, dn)
    PROVE  OrderInv(t, qs, sent, dat, dm)
<1> USE DEF IssueOf
<1> DEFINE n == Len(ps)
<1>1. \A k \in 1 .. n : (Waiting(ps, sent, k) <=> Waiting(qs, sent, k)) /\ ps[k] = qs[k]
  BY DEF Waiting
<1>2. ASSUME NEW i \in 1 .. n + 1, NEW p, NEW x, Holding(t, ps, sent, dat, i, p, x)
      PROVE  Holding(t, qs, sent, dat, i, p, x)
  <2>1. i \in Nat /\ \A k \in 1 .. i - 1 : k \in 1 .. n
    OBVIOUS
  <2>2. \A k \in 1 .. i - 1 : (Waiting(ps, sent, k) <=> Waiting(qs, sent, k)) /\ ps[k] = qs[k]
    BY <1>1, <2>1
  <2> QED BY <1>2, <2>1, <2>2, HoldingSame
<1>3. n + 1 \in 1 .. n + 1 /\ \A i \in 1 .. n : i \in 1 .. n + 1
  OBVIOUS
<1>4. ASSUME NEW i \in 1 .. n + 1, qs[i].j.op = "load", qs[i].outcome = "ok"
      PROVE  Holding(t, qs, sent, dat, i, Place(t, qs[i]), qs[i].data)
  <2>1. CASE i = n + 1
    <3>1. qs[i].data = dn[Place(t, e)] /\ qs[i] = e
      BY <1>4, <2>1
    <3>2. Holding(t, ps, sent, dat, n + 1, Place(t, e), dn[Place(t, e)])
      BY <1>4, <3>1 DEF OrderInv
    <3> QED BY <1>2, <1>3, <2>1, <3>1, <3>2
  <2>2. CASE i # n + 1
    <3>1. i \in 1 .. n /\ qs[i] = ps[i]
      BY <2>2
    <3>2. Holding(t, ps, sent, dat, i, Place(t, ps[i]), ps[i].data)
      BY <1>4, <3>1 DEF OrderInv
    <3> QED BY <1>2, <3>1, <3>2
  <2> QED BY <2>1, <2>2
<1>5. ASSUME NEW p \in M!Page
      PROVE  Holding(t, qs, sent, dat, n + 2, p, dm[p])
  <2>1. Holding(t, ps, sent, dat, n + 1, p, dn[p])
    BY DEF OrderInv
  <2>2. Holding(t, qs, sent, dat, n + 1, p, dn[p])
    BY <1>2, <1>3, <2>1
  <2>3. Waiting(qs, sent, n + 1) <=> Effective(e)
    BY DEF Waiting
  <2>4. n \in Nat /\ n + 1 \in 1 .. (n + 2) - 1
    OBVIOUS
  <2>5. CASE Effective(e) /\ Place(t, e) = p
    <3>1. dm[p] = e.j.wdata
      BY <2>5 DEF Effective
    <3>2. Waiting(qs, sent, n + 1) /\ Place(t, qs[n + 1]) = p /\ dm[p] = qs[n + 1].j.wdata
      BY <2>3, <2>5, <3>1
    <3>3. \A m \in (n + 1) + 1 .. (n + 2) - 1 : FALSE
      BY <2>4
    <3> QED BY <2>4, <3>2, <3>3 DEF Holding
  <2>6. CASE ~(Effective(e) /\ Place(t, e) = p)
    <3>1. dm[p] = dn[p]
      BY <2>6
    <3>2. ~(Waiting(qs, sent, n + 1) /\ Place(t, qs[n + 1]) = p)
      BY <2>3, <2>6
    <3>3. \A k \in 1 .. (n + 2) - 1 : k \in 1 .. (n + 1) - 1 \/ k = n + 1
      BY <2>4
    <3>4. CASE dn[p] = dat[p] /\ \A k \in 1 .. (n + 1) - 1 : ~(Waiting(qs, sent, k) /\ Place(t, qs[k]) = p)
      <4>1. \A k \in 1 .. (n + 2) - 1 : ~(Waiting(qs, sent, k) /\ Place(t, qs[k]) = p)
        BY <3>2, <3>3, <3>4
      <4> QED BY <3>1, <3>4, <4>1 DEF Holding
    <3>5. CASE \E k \in 1 .. (n + 1) - 1 :
              /\ Waiting(qs, sent, k) /\ Place(t, qs[k]) = p /\ dn[p] = qs[k].j.wdata
              /\ \A m \in k + 1 .. (n + 1) - 1 : ~(Waiting(qs, sent, m) /\ Place(t, qs[m]) = p)
      <4>1. PICK k \in 1 .. (n + 1) - 1 :
              /\ Waiting(qs, sent, k) /\ Place(t, qs[k]) = p /\ dn[p] = qs[k].j.wdata
              /\ \A m \in k + 1 .. (n + 1) - 1 : ~(Waiting(qs, sent, m) /\ Place(t, qs[m]) = p)
        BY <3>5
      <4>2. k \in 1 .. (n + 2) - 1 /\ \A m \in k + 1 .. (n + 2) - 1 : m \in k + 1 .. (n + 1) - 1 \/ m = n + 1
        BY <2>4
      <4>3. \A m \in k + 1 .. (n + 2) - 1 : ~(Waiting(qs, sent, m) /\ Place(t, qs[m]) = p)
        BY <3>2, <4>1, <4>2
      <4> QED BY <3>1, <4>1, <4>2, <4>3 DEF Holding
    <3> QED BY <2>2, <3>4, <3>5 DEF Holding
  <2> QED BY <2>5, <2>6
<1>6. Len(qs) = n + 1 /\ Len(qs) + 1 = n + 2
  OBVIOUS
<1> QED BY <1>4, <1>5, <1>6 DEF OrderInv

\* The operation in flight completes after it was sent.
LEMMA OrderComplete ==
    ASSUME NEW t, NEW ps, NEW dat, NEW dn, Len(ps) \in Nat \ {0},
           NEW qs, Len(qs) = Len(ps) - 1, \A i \in 1 .. Len(ps) - 1 : qs[i] = ps[i + 1],
           OrderInv(t, ps, TRUE, dat, dn)
    PROVE  OrderInv(t, qs, FALSE, dat, dn)
<1> DEFINE n == Len(ps)
<1>1. ASSUME NEW k \in 1 .. n
      PROVE  /\ k = 1 => ~Waiting(ps, TRUE, k)
             /\ k # 1 => (Waiting(ps, TRUE, k) <=> Waiting(qs, FALSE, k - 1)) /\ ps[k] = qs[k - 1]
  <2>1. k # 1 => k - 1 \in 1 .. n - 1 /\ (k - 1) + 1 = k
    OBVIOUS
  <2>2. k # 1 => qs[k - 1] = ps[k]
    BY <2>1
  <2> QED BY <2>2 DEF Waiting
<1>2. ASSUME NEW i \in 2 .. n + 1, NEW p, NEW x, Holding(t, ps, TRUE, dat, i, p, x)
      PROVE  Holding(t, qs, FALSE, dat, i - 1, p, x)
  <2>1. CASE x = dat[p] /\ \A k \in 1 .. i - 1 : ~(Waiting(ps, TRUE, k) /\ Place(t, ps[k]) = p)
    <3>1. ASSUME NEW k \in 1 .. (i - 1) - 1
          PROVE  ~(Waiting(qs, FALSE, k) /\ Place(t, qs[k]) = p)
      <4>1. k + 1 \in 1 .. i - 1 /\ k + 1 \in 1 .. n /\ k + 1 # 1 /\ (k + 1) - 1 = k
        OBVIOUS
      <4>2. ~(Waiting(ps, TRUE, k + 1) /\ Place(t, ps[k + 1]) = p)
        BY <2>1, <4>1
      <4> QED BY <1>1, <4>1, <4>2
    <3> QED BY <2>1, <3>1 DEF Holding
  <2>2. CASE \E k \in 1 .. i - 1 :
              /\ Waiting(ps, TRUE, k) /\ Place(t, ps[k]) = p /\ x = ps[k].j.wdata
              /\ \A m \in k + 1 .. i - 1 : ~(Waiting(ps, TRUE, m) /\ Place(t, ps[m]) = p)
    <3>1. PICK k \in 1 .. i - 1 :
              /\ Waiting(ps, TRUE, k) /\ Place(t, ps[k]) = p /\ x = ps[k].j.wdata
              /\ \A m \in k + 1 .. i - 1 : ~(Waiting(ps, TRUE, m) /\ Place(t, ps[m]) = p)
      BY <2>2
    <3>2. k \in 1 .. n
      OBVIOUS
    <3>3. k # 1 /\ Waiting(qs, FALSE, k - 1) /\ Place(t, qs[k - 1]) = p /\ x = qs[k - 1].j.wdata
      BY <1>1, <3>1, <3>2
    <3>4. ASSUME NEW m \in (k - 1) + 1 .. (i - 1) - 1
          PROVE  ~(Waiting(qs, FALSE, m) /\ Place(t, qs[m]) = p)
      <4>1. m + 1 \in k + 1 .. i - 1 /\ m + 1 \in 1 .. n /\ m + 1 # 1 /\ (m + 1) - 1 = m
        OBVIOUS
      <4>2. ~(Waiting(ps, TRUE, m + 1) /\ Place(t, ps[m + 1]) = p)
        BY <3>1, <4>1
      <4> QED BY <1>1, <4>1, <4>2
    <3>5. k - 1 \in 1 .. (i - 1) - 1
      BY <3>3
    <3> QED BY <3>3, <3>4, <3>5 DEF Holding
  <2> QED BY <1>2, <2>1, <2>2 DEF Holding
<1>3. ASSUME NEW i \in 1 .. n - 1, qs[i].j.op = "load", qs[i].outcome = "ok"
      PROVE  Holding(t, qs, FALSE, dat, i, Place(t, qs[i]), qs[i].data)
  <2>1. i + 1 \in 1 .. n /\ i + 1 \in 2 .. n + 1 /\ (i + 1) - 1 = i /\ qs[i] = ps[i + 1]
    OBVIOUS
  <2>2. Holding(t, ps, TRUE, dat, i + 1, Place(t, ps[i + 1]), ps[i + 1].data)
    BY <1>3, <2>1 DEF OrderInv
  <2> QED BY <1>2, <2>1, <2>2
<1>4. ASSUME NEW p \in M!Page
      PROVE  Holding(t, qs, FALSE, dat, n, p, dn[p])
  <2>1. Holding(t, ps, TRUE, dat, n + 1, p, dn[p])
    BY DEF OrderInv
  <2>2. n + 1 \in 2 .. n + 1 /\ (n + 1) - 1 = n
    OBVIOUS
  <2> QED BY <1>2, <2>1, <2>2
<1>5. Len(qs) = n - 1 /\ Len(qs) + 1 = n
  OBVIOUS
<1> QED BY <1>3, <1>4, <1>5 DEF OrderInv

\* The operation in flight is sent: a store reaches the memory.
LEMMA OrderSend ==
    ASSUME NEW t, NEW ps, NEW dat, NEW dn, Len(ps) \in Nat \ {0}, DOMAIN dat = M!Page,
           NEW dau, dau = (IF Effective(ps[1]) THEN [dat EXCEPT ![Place(t, ps[1])] = ps[1].j.wdata] ELSE dat),
           \A i \in 1 .. Len(ps) : ps[i].outcome = "ok" => Place(t, ps[i]) \in M!Page,
           OrderInv(t, ps, FALSE, dat, dn)
    PROVE  OrderInv(t, ps, TRUE, dau, dn)
<1> DEFINE n == Len(ps)
<1>1. \A k \in 1 .. n : (Waiting(ps, TRUE, k) <=> Waiting(ps, FALSE, k) /\ k # 1) /\ (Waiting(ps, FALSE, k) <=> Effective(ps[k]))
  BY DEF Waiting
<1>2. ASSUME NEW i \in 1 .. n + 1, NEW p \in M!Page, NEW x, Holding(t, ps, FALSE, dat, i, p, x),
             i = 1 => ~Effective(ps[1])
      PROVE  Holding(t, ps, TRUE, dau, i, p, x)
  <2>0. n \in Nat \ {0} /\ \A k \in 1 .. i - 1 : k \in 1 .. n
    OBVIOUS
  <2>1. CASE x = dat[p] /\ \A k \in 1 .. i - 1 : ~(Waiting(ps, FALSE, k) /\ Place(t, ps[k]) = p)
    <3>1. \A k \in 1 .. i - 1 : ~(Waiting(ps, TRUE, k) /\ Place(t, ps[k]) = p)
      BY <1>1, <2>0, <2>1
    <3>2. ~(Effective(ps[1]) /\ Place(t, ps[1]) = p)
      <4>1. i # 1 => 1 \in 1 .. i - 1 /\ 1 \in 1 .. n
        BY <2>0
      <4> QED BY <1>1, <1>2, <2>1, <4>1
    <3>3. dau[p] = dat[p]
      BY <3>2
    <3> QED BY <2>1, <3>1, <3>3 DEF Holding
  <2>2. CASE \E k \in 1 .. i - 1 :
              /\ Waiting(ps, FALSE, k) /\ Place(t, ps[k]) = p /\ x = ps[k].j.wdata
              /\ \A m \in k + 1 .. i - 1 : ~(Waiting(ps, FALSE, m) /\ Place(t, ps[m]) = p)
    <3>1. PICK k \in 1 .. i - 1 :
              /\ Waiting(ps, FALSE, k) /\ Place(t, ps[k]) = p /\ x = ps[k].j.wdata
              /\ \A m \in k + 1 .. i - 1 : ~(Waiting(ps, FALSE, m) /\ Place(t, ps[m]) = p)
      BY <2>2
    <3>2. \A m \in k + 1 .. i - 1 : m \in 1 .. i - 1 /\ m \in 1 .. n /\ m # 1
      BY <2>0
    <3>3. \A m \in k + 1 .. i - 1 : ~(Waiting(ps, TRUE, m) /\ Place(t, ps[m]) = p)
      BY <1>1, <3>1, <3>2
    <3>4. CASE k = 1
      <4>1. Effective(ps[1])
        BY <1>1, <2>0, <3>1, <3>4
      <4>2. x = dau[p]
        BY <3>1, <3>4, <4>1
      <4>3. \A m \in 1 .. i - 1 : m = 1 \/ m \in k + 1 .. i - 1
        BY <3>4
      <4>4. ~Waiting(ps, TRUE, 1)
        BY DEF Waiting
      <4>5. \A m \in 1 .. i - 1 : ~(Waiting(ps, TRUE, m) /\ Place(t, ps[m]) = p)
        BY <3>3, <4>3, <4>4
      <4> QED BY <4>2, <4>5 DEF Holding
    <3>5. CASE k # 1
      <4>1. Waiting(ps, TRUE, k)
        BY <1>1, <2>0, <3>1, <3>5
      <4> QED BY <3>1, <3>3, <4>1 DEF Holding
    <3> QED BY <3>4, <3>5
  <2> QED BY <1>2, <2>1, <2>2 DEF Holding
<1>3. ASSUME NEW i \in 1 .. n, ps[i].j.op = "load", ps[i].outcome = "ok"
      PROVE  Holding(t, ps, TRUE, dau, i, Place(t, ps[i]), ps[i].data)
  <2>1. i \in 1 .. n + 1
    OBVIOUS
  <2>2. Holding(t, ps, FALSE, dat, i, Place(t, ps[i]), ps[i].data)
    BY <1>3 DEF OrderInv
  <2>3. i = 1 => ~Effective(ps[1])
    BY <1>3 DEF Effective
  <2>4. Place(t, ps[i]) \in M!Page
    BY <1>3
  <2> QED BY <1>2, <2>1, <2>2, <2>3, <2>4
<1>4. ASSUME NEW p \in M!Page
      PROVE  Holding(t, ps, TRUE, dau, n + 1, p, dn[p])
  <2>1. Holding(t, ps, FALSE, dat, n + 1, p, dn[p])
    BY DEF OrderInv
  <2>2. n + 1 \in 1 .. n + 1 /\ n + 1 # 1
    OBVIOUS
  <2> QED BY <1>2, <2>1, <2>2
<1> QED BY <1>3, <1>4 DEF OrderInv

\* A load that comes next finds its data in the memory.
LEMMA OrderFirst ==
    ASSUME NEW t, NEW ps, NEW sent, NEW dat, NEW dn, Len(ps) \in Nat \ {0},
           OrderInv(t, ps, sent, dat, dn), ps[1].j.op = "load", ps[1].outcome = "ok"
    PROVE  ps[1].data = dat[Place(t, ps[1])]
<1>1. 1 \in 1 .. Len(ps)
  OBVIOUS
<1>2. Holding(t, ps, sent, dat, 1, Place(t, ps[1]), ps[1].data)
  BY <1>1 DEF OrderInv
<1>3. \A k \in 1 .. 1 - 1 : FALSE
  OBVIOUS
<1> QED BY <1>2, <1>3 DEF Holding

\* When no operation is in flight the memory holds everything.
LEMMA OrderEmpty ==
    ASSUME NEW t, NEW ps, NEW sent, NEW dat, NEW dn, Len(ps) = 0
    PROVE  OrderInv(t, ps, sent, dat, dn) <=> \A p \in M!Page : dn[p] = dat[p]
<1>1. \A k \in 1 .. (0 + 1) - 1 : FALSE
  OBVIOUS
<1>2. \A i \in 1 .. 0 : FALSE
  OBVIOUS
<1> QED BY <1>1, <1>2 DEF OrderInv, Holding

----------------------------------------------------------------------------
(***************************************************************************)
(* What a clock does: the values inside DataClock under names.             *)
(***************************************************************************)
We(e) == e.job # None /\ ~(wcnt >= Depth - 1)
Q(e) == IF Nempty(We(e)) THEN Rdata(e.job) ELSE None
Ans == IF bus # None /\ bus.resp THEN Answer ELSE None
Rsp == M!CoreResp(u, Ans)
Ain(e) == [resp |-> Rsp, wb_ready |-> e.wb, ready |-> FALSE]
Off(e) == Offered(a, Q(e), Ain(e))
Req(e) == IF Off(e) = None THEN None
          ELSE [page |-> Off(e).page, write |-> Off(e).op = "store", wdata |-> Off(e).wdata]
Min(e) == [req |-> Req(e), ena |-> MmuEna(a, Q(e)), mem_ready |-> FALSE,
           fence |-> fence = "pulse", mem |-> Ans, tlb |-> rdata]
Taken(e) == Ans # None /\ M!MemRespReady(u, Min(e))
Ready(e) == e.ready /\ (bus = None \/ Taken(e))
Uin(e) == [Min(e) EXCEPT !.mem_ready = Ready(e)]
In(e) == [Ain(e) EXCEPT !.ready = M!CoreReqReady(u, Uin(e))]
Mreq(e) == M!MemReq(u, Uin(e))
Re(e) == QueueRe(a, Ain(e))
Done(e) == Completes(a, Ain(e))
Issued(e) == IF We(e) THEN Append(pend, Right(e.job)) ELSE pend
Early(e) == /\ Flushd(a, Q(e), Ain(e))
            /\ LET i == IF Done(e) THEN 2 ELSE 1
               IN  i > Len(Issued(e)) \/ Issued(e)[i].outcome # "flush"

Step(e) == e \in Env /\ (e.remap => e.job = None) /\ DataClock(e)

LEMMA ClockIs ==
    ASSUME NEW e, DataClock(e)
    PROVE  /\ Clock(Re(e), We(e), IF e.job = None THEN NoWord ELSE e.job)
           /\ a' = AccessNext(a, Q(e), In(e))
           /\ u' = M!MmuNext(u, Uin(e))
           /\ tlb' = M!TlbNext(u, tlb)
           /\ rdata' = M!TlbRead(u, tlb, rdata, IF Off(e) = None THEN M!Top ELSE Off(e).page)
           /\ bus' = IF Mreq(e) # None /\ Ready(e)
                     THEN [at |-> Mreq(e).at, write |-> Mreq(e).write, resp |-> FALSE]
                     ELSE IF Taken(e) \/ bus = None THEN None
                     ELSE [bus EXCEPT !.resp = @ \/ e.answer]
           /\ data' = IF Mreq(e) # None /\ Ready(e) /\ Mreq(e).write
                         /\ Mreq(e).at.page \notin load.faulty
                      THEN [data EXCEPT ![Mreq(e).at.page] = Mreq(e).wdata] ELSE data
           /\ done' = IF We(e) THEN Applied(e.job) ELSE done
           /\ pend' = IF Done(e) /\ pend # << >> THEN Tail(Issued(e)) ELSE Issued(e)
           /\ judged' =
                IF Early(e) THEN "early flush"
                ELSE IF Done(e) /\ pend = << >> THEN "unasked"
                ELSE IF a.state = "WaitResponse" /\ Rsp # None /\ OutcomeOf(Rsp) # pend[1].outcome
                THEN "wrong outcome"
                ELSE IF /\ Finishes(a, Ain(e)) /\ pend[1].outcome = "ok" /\ pend[1].j.op = "load"
                        /\ WbData(a, Ain(e)) # pend[1].data
                THEN "wrong data"
                ELSE IF Done(e) THEN "good" ELSE "none"
           /\ version' = IF e.remap THEN version + 1 ELSE version
           /\ fence' = IF e.remap THEN "due" ELSE IF e.fence THEN "pulse" ELSE
                       IF fence = "pulse" THEN "none" ELSE fence
           /\ load' = load
BY DEF DataClock, We, Q, Ans, Rsp, Ain, Off, Req, Min, Taken, Ready, Uin, In, Mreq, Re, Done,
       Issued, Early

\* what the environment may do
LEMMA EnvFacts ==
    ASSUME NEW e \in Env
    PROVE  /\ e.job # None => fence = "none" /\ wcnt < Depth - 1 /\ e.job \in load.jobs
           /\ e.answer \in BOOLEAN /\ e.ready \in BOOLEAN /\ e.wb \in BOOLEAN
           /\ e.remap \in BOOLEAN /\ e.fence \in BOOLEAN
           /\ e.remap => Quiet /\ fence = "none" /\ version < Len(load.tables)
           /\ e.fence => fence = "due"
<1> DEFINE J == {None} \cup IF fence = "none" /\ wcnt < Depth - 1 THEN load.jobs ELSE {}
           A == IF bus # None /\ ~bus.resp THEN BOOLEAN ELSE {FALSE}
           R == IF u.state \in {"CacheReq", "Idle", "WaitRespNoMmu", "WaitRespLast"}
                THEN BOOLEAN ELSE {FALSE}
           W == IF a.state \in {"Hold", "WaitResponse"} THEN BOOLEAN ELSE {TRUE}
           C == IF Quiet /\ fence = "none" /\ version <= MaxRemaps /\ version < Len(load.tables)
                THEN BOOLEAN ELSE {FALSE}
           F == IF fence = "due" THEN BOOLEAN ELSE {FALSE}
<1>1. e \in [job : J, answer : A, ready : R, wb : W, remap : C, fence : F]
  BY DEF Env
<1> HIDE DEF J, A, R, W, C, F
<1>2. e.job \in J /\ e.answer \in A /\ e.ready \in R /\ e.wb \in W /\ e.remap \in C /\ e.fence \in F
  BY <1>1
<1>3. e.job # None => fence = "none" /\ wcnt < Depth - 1 /\ e.job \in load.jobs
  BY <1>2 DEF J
<1>4. e.answer \in BOOLEAN /\ e.ready \in BOOLEAN /\ e.wb \in BOOLEAN
  BY <1>2 DEF A, R, W
<1>5. e.remap \in BOOLEAN /\ (e.remap => Quiet /\ fence = "none" /\ version < Len(load.tables))
  BY <1>2 DEF C
<1>6. e.fence \in BOOLEAN /\ (e.fence => fence = "due")
  BY <1>2 DEF F
<1> QED BY <1>3, <1>4, <1>5, <1>6

\* The workload: its operations and the page tables of the moment.
LEMMA LoadFacts ==
    ASSUME load \in Workloads, version \in 1 .. Len(load.tables)
    PROVE  /\ IsTables(Current) /\ load.jobs \subseteq Jobs /\ load.jobs \subseteq Data
           /\ None \notin load.jobs /\ Len(load.tables) \in Nat
BY DataAssumption, NoneAssumption DEF Current

LEMMA JobFields ==
    ASSUME NEW j \in Jobs
    PROVE  /\ j # None /\ j.op \in {"load", "store", "flush"} /\ j.page \in M!Page
           /\ j.wdata \in Values /\ j.ena \in BOOLEAN /\ j.debug \in BOOLEAN
BY NoneAssumption DEF Jobs

\* An operation that is not refused has a place in the memory.
LEMMA TargetType ==
    ASSUME NEW t, IsTables(t), NEW j \in Jobs, ~Refused(t, j)
    PROVE  /\ Target(t, j) \in M!Page
           /\ j.ena => Leaf(t, j.page) # None
<1>1. CASE ~j.ena
  BY <1>1, JobFields DEF Target
<1>2. CASE j.ena
  <2> DEFINE l == Leaf(t, j.page)
  <2>1. l # None
    BY <1>2 DEF Refused
  <2>2. j.page \in M!Page
    BY JobFields
  <2>3. l.pte.ppn \in M!Page
    BY <2>1, <2>2, LeafType
  <2> HIDE DEF l
  <2>4. M!Within(l.size, l.pte.ppn, j.page) \in M!Page
    BY <2>2, <2>3 DEF M!Within, M!Page
  <2> QED BY <1>2, <2>1, <2>4 DEF Target, l
<1> QED BY <1>1, <1>2

\* What is right for an operation that is issued, and what it stores.
LEMMA RightFacts ==
    ASSUME AccessTypes, NEW j \in load.jobs
    PROVE  /\ Right(j) \in Pending(load) /\ Right(j).j = j
           /\ Right(j).outcome = Outcome(Current, load, j)
           /\ Right(j).outcome = "ok" => Place(Current, Right(j)) \in M!Page
           /\ j.op = "load" /\ Right(j).outcome = "ok" => Right(j).data = done[Place(Current, Right(j))]
           /\ Applied(j) = IF Effective(Right(j))
                           THEN [done EXCEPT ![Place(Current, Right(j))] = Right(j).j.wdata] ELSE done
           /\ Applied(j) \in [M!Page -> Values]
<1> DEFINE T == Target(Current, j)
           b == Outcome(Current, load, j)
           d == IF b = "ok" /\ j.op = "load" THEN done[T] ELSE 0
<1>1. IsTables(Current) /\ j \in Jobs /\ 0 \in Values /\ done \in [M!Page -> Values]
  BY LoadFacts, DataAssumption DEF AccessTypes
<1>2. Right(j) = [j |-> j, outcome |-> b, data |-> d]
  BY DEF Right, Outcome, Current
<1>3. b = "ok" => T \in M!Page
  BY <1>1, TargetType DEF Outcome
<1>4. b \in {"flush", "page_fault", "fault", "ok"}
  BY DEF Outcome
<1>5. d \in Values
  BY <1>1, <1>3
<1> HIDE DEF b, d
<1>6. Right(j) \in Pending(load) /\ Right(j).j = j /\ Right(j).outcome = b /\ Right(j).data = d
  BY <1>2, <1>4, <1>5 DEF Pending
<1>7. Place(Current, Right(j)) = T
  BY <1>6 DEF Place
<1>8. j.op = "load" /\ Right(j).outcome = "ok" => Right(j).data = done[T]
  BY <1>6 DEF d
<1>9. Applied(j) = IF Effective(Right(j)) THEN [done EXCEPT ![T] = Right(j).j.wdata] ELSE done
  BY <1>6 DEF Applied, Effective, Current
<1>10. Applied(j) \in [M!Page -> Values]
  <2>1. j.wdata \in Values
    BY <1>1, JobFields
  <2> QED BY <1>1, <1>6, <1>9, <2>1
<1> QED BY <1>3, <1>6, <1>7, <1>8, <1>9, <1>10 DEF b

----------------------------------------------------------------------------
(***************************************************************************)
(* The memory access stage and its queue.                                  *)
(***************************************************************************)

\* the registers of the stage after a clock
LEMMA AccessFields ==
    ASSUME AccessTypes, NEW q, NEW in, NEW b, b = AccessNext(a, q, in)
    PROVE  /\ QueueRe(a, in) /\ q = None => b.state = "Idle" /\ ~b.valid /\ b.job = a.job
           /\ QueueRe(a, in) /\ q # None =>
                 /\ b.job = q /\ b.valid = (q.op = "flush")
                 /\ b.state = IF q.op = "flush" THEN "Idle"
                              ELSE IF in.ready THEN "WaitResponse" ELSE "WaitReqAccept"
           /\ ~QueueRe(a, in) =>
                 /\ b.job = a.job /\ ~b.valid
                 /\ b.state = IF a.state = "WaitReqAccept" /\ in.ready THEN "WaitResponse"
                              ELSE IF a.state = "WaitResponse" /\ in.resp # None THEN "Hold"
                              ELSE a.state
           /\ b.hold = IF ~QueueRe(a, in) /\ a.state = "WaitResponse" /\ in.resp # None
                       THEN in.resp.data ELSE a.hold
           /\ (in.resp # None => in.resp.data \in Values) /\ q \in {None} \cup load.jobs =>
                 b \in [state : AccessStates, valid : BOOLEAN, job : {None} \cup load.jobs,
                        hold : {None} \cup Values]
<1> DEFINE AT == [state : AccessStates, valid : BOOLEAN, job : {None} \cup load.jobs,
                  hold : {None} \cup Values]
<1>1. a \in AT
  BY DEF AccessTypes
<1>2. CASE QueueRe(a, in) /\ q = None
  <2>1. b = [[a EXCEPT !.valid = FALSE] EXCEPT !.state = "Idle"]
    BY <1>2 DEF AccessNext
  <2> QED BY <1>1, <1>2, <2>1 DEF AccessStates
<1>3. CASE QueueRe(a, in) /\ q # None
  <2>1. b = Take([a EXCEPT !.valid = FALSE], q, in)
    BY <1>3 DEF AccessNext
  <2> QED BY <1>1, <1>3, <2>1 DEF AccessStates, Take
<1>4. CASE ~QueueRe(a, in) /\ a.state = "WaitReqAccept" /\ in.ready
  <2>1. b = [[a EXCEPT !.valid = FALSE] EXCEPT !.state = "WaitResponse"]
    BY <1>4 DEF AccessNext
  <2> QED BY <1>1, <1>4, <2>1 DEF AccessStates
<1>5. CASE ~QueueRe(a, in) /\ ~(a.state = "WaitReqAccept" /\ in.ready)
           /\ a.state = "WaitResponse" /\ in.resp # None
  <2>1. b = [[a EXCEPT !.valid = FALSE] EXCEPT !.state = "Hold", !.hold = in.resp.data]
    BY <1>5 DEF AccessNext
  <2> QED BY <1>1, <1>5, <2>1 DEF AccessStates
<1>6. CASE ~QueueRe(a, in) /\ ~(a.state = "WaitReqAccept" /\ in.ready)
           /\ ~(a.state = "WaitResponse" /\ in.resp # None)
  <2>1. b = [a EXCEPT !.valid = FALSE]
    BY <1>6 DEF AccessNext
  <2> QED BY <1>1, <1>6, <2>1 DEF AccessStates
<1> QED BY <1>2, <1>3, <1>4, <1>5, <1>6

\* An operation completes exactly when one is in flight and the next word is read.
LEMMA DoneReads ==
    ASSUME AccessInv, a.state \in AccessStates, NEW e
    PROVE  /\ Done(e) <=> Re(e) /\ InFlight
           /\ Re(e) <=> a.state = "Idle" \/ Finishes(a, Ain(e))
           /\ Finishes(a, Ain(e)) => a.state \in {"WaitResponse", "Hold"}
BY DEF Done, Re, Completes, QueueRe, Finishes, InFlight, AccessInv, AccessStates

\* the words of the queue and the one that is written, with its number
WordAt(e, i) == IF i <= wcnt THEN mem[i - 1] ELSE e.job
Words(e) == IF We(e) THEN wcnt + 1 ELSE wcnt

\* The operations in the queue are the ones that did not complete but for the one in flight.
LEMMA IssuedFacts ==
    ASSUME AccessTypes, AccessInv, RightInv, NEW e, e \in Env
    PROVE  /\ We(e) <=> e.job # None
           /\ wcnt \in Nat /\ Words(e) \in Nat
           /\ Issued(e) \in Seq(Pending(load)) /\ Len(Issued(e)) = Ahead + Words(e)
           /\ \A i \in 1 .. Len(pend) : Issued(e)[i] = pend[i]
           /\ We(e) => Issued(e)[Len(pend) + 1] = Right(e.job)
           /\ \A i \in 1 .. Words(e) : Issued(e)[Ahead + i].j = WordAt(e, i)
           /\ \A i \in 1 .. Len(Issued(e)) :
                 Issued(e)[i].outcome = Outcome(Current, load, Issued(e)[i].j)
           /\ Q(e) = IF Words(e) = 0 THEN None ELSE WordAt(e, 1)
           /\ Q(e) # None <=> Words(e) # 0
           /\ Q(e) \in {None} \cup load.jobs
<1>1. We(e) <=> e.job # None
  <2>1. wcnt \in Int /\ Depth \in Int
    BY QueueAssumption DEF AccessTypes, TypeOK
  <2> QED BY <2>1, EnvFacts DEF We
<1>2. wcnt \in Nat /\ Words(e) \in Nat /\ Ahead \in {0, 1} /\ Len(pend) = Ahead + wcnt
      /\ pend \in Seq(Pending(load)) /\ (We(e) => Words(e) = wcnt + 1) /\ (~We(e) => Words(e) = wcnt)
  BY QueueAssumption DEF AccessTypes, TypeOK, Words, AccessInv, Ahead
<1>3. We(e) => e.job \in load.jobs /\ Right(e.job) \in Pending(load) /\ Right(e.job).j = e.job
               /\ Right(e.job).outcome = Outcome(Current, load, e.job)
  BY <1>1, EnvFacts, RightFacts
<1>4. /\ Issued(e) \in Seq(Pending(load)) /\ Len(Issued(e)) = Ahead + Words(e)
      /\ \A i \in 1 .. Len(pend) : Issued(e)[i] = pend[i]
      /\ We(e) => Issued(e)[Len(pend) + 1] = Right(e.job)
  BY <1>2, <1>3 DEF Issued
<1>5. ASSUME NEW i \in 1 .. Words(e)
      PROVE  Issued(e)[Ahead + i].j = WordAt(e, i)
  <2>1. CASE i <= wcnt
    <3>1. Ahead + i \in 1 .. Len(pend) /\ i \in 1 .. wcnt
      BY <1>2, <2>1
    <3> QED BY <1>4, <2>1, <3>1 DEF AccessInv, WordAt
  <2>2. CASE ~(i <= wcnt)
    <3>1. We(e) /\ Ahead + i = Len(pend) + 1
      BY <1>2, <2>2
    <3> QED BY <1>3, <1>4, <2>2, <3>1 DEF WordAt
  <2> QED BY <2>1, <2>2
<1>6. ASSUME NEW i \in 1 .. Len(Issued(e))
      PROVE  Issued(e)[i].outcome = Outcome(Current, load, Issued(e)[i].j)
  <2>1. i \in 1 .. Len(pend) \/ (We(e) /\ i = Len(pend) + 1)
    BY <1>2, <1>4
  <2> QED BY <1>3, <1>4, <2>1 DEF RightInv
<1>7. None \notin load.jobs
  BY LoadFacts DEF AccessTypes
<1>8. Words(e) # 0 => WordAt(e, 1) \in load.jobs
  <2>1. Words(e) # 0 => 1 \in 1 .. Words(e) /\ Ahead + 1 \in 1 .. Len(Issued(e))
    BY <1>2, <1>4
  <2>2. Words(e) # 0 => Issued(e)[Ahead + 1] \in Pending(load)
    BY <1>4, <2>1
  <2> QED BY <1>5, <2>1, <2>2 DEF Pending
<1>9. Q(e) = IF Words(e) = 0 THEN None ELSE WordAt(e, 1)
  BY <1>2 DEF Q, Nempty, Rdata, Words, WordAt
<1> QED BY <1>1, <1>2, <1>4, <1>5, <1>6, <1>7, <1>8, <1>9

\* The operations that did not complete after a clock.
LEMMA PendNext ==
    ASSUME AccessTypes, AccessInv, RightInv, NEW e, Step(e)
    PROVE  /\ ~Done(e) => pend' = Issued(e)
           /\ Done(e) => /\ pend' = Tail(Issued(e)) /\ Len(pend) # 0
                         /\ Len(pend') = Len(Issued(e)) - 1 /\ Len(Issued(e)) # 0
                         /\ \A i \in 1 .. Len(Issued(e)) - 1 : pend'[i] = Issued(e)[i + 1]
           /\ pend' \in Seq(Pending(load)) /\ pend \in Seq(Pending(load))
           /\ \A i \in 1 .. Len(pend') : pend'[i].outcome = Outcome(Current, load, pend'[i].j)
<1>1. DataClock(e) /\ e \in Env
  BY DEF Step
<1>2. pend' = IF Done(e) /\ pend # << >> THEN Tail(Issued(e)) ELSE Issued(e)
  BY <1>1, ClockIs
<1>3. /\ Issued(e) \in Seq(Pending(load)) /\ Len(Issued(e)) = Ahead + Words(e) /\ Words(e) \in Nat
      /\ \A i \in 1 .. Len(Issued(e)) :
                 Issued(e)[i].outcome = Outcome(Current, load, Issued(e)[i].j)
  BY <1>1, IssuedFacts
<1>4. pend \in Seq(Pending(load)) /\ Len(pend) = Ahead + wcnt /\ wcnt \in Nat
  BY QueueAssumption DEF AccessTypes, AccessInv, TypeOK
<1>5. CASE ~Done(e)
  BY <1>2, <1>3, <1>4, <1>5
<1>6. CASE Done(e)
  <2>1. Ahead = 1
    BY <1>6, DoneReads DEF Ahead, AccessTypes
  <2>2. Len(pend) # 0 /\ Len(Issued(e)) # 0
    BY <1>3, <1>4, <2>1
  <2>3. pend # << >>
    BY <1>4, <2>2
  <2>4. pend' = Tail(Issued(e))
    BY <1>2, <1>6, <2>3
  <2> DEFINE s == Issued(e)
  <2> HIDE DEF s
  <2>5. /\ Tail(s) \in Seq(Pending(load)) /\ Len(Tail(s)) = Len(s) - 1
        /\ \A i \in 1 .. Len(s) - 1 : Tail(s)[i] = s[i + 1]
    BY <1>3, <2>2 DEF s
  <2>6. ASSUME NEW i \in 1 .. Len(pend')
        PROVE  pend'[i].outcome = Outcome(Current, load, pend'[i].j)
    <3>1. i \in 1 .. Len(s) - 1 /\ i + 1 \in 1 .. Len(s) /\ pend'[i] = s[i + 1]
      BY <1>3, <2>2, <2>4, <2>5 DEF s
    <3> QED BY <1>3, <3>1 DEF s
  <2> QED BY <1>4, <1>6, <2>2, <2>4, <2>5, <2>6 DEF s
<1> QED BY <1>5, <1>6

\* After a clock the operation in flight is the head of the queue, or the one before, or none.
LEMMA FlightNext ==
    ASSUME AccessTypes, AccessInv, RightInv, NEW e, Step(e)
    PROVE  /\ Re(e) /\ Q(e) = None => ~InFlight'
           /\ Re(e) /\ Q(e) # None => InFlight' /\ a'.job = Q(e)
           /\ ~Re(e) => InFlight /\ InFlight' /\ a'.job = a.job
           /\ a'.valid => a'.state = "Idle" /\ a'.job # None /\ a'.job.op = "flush"
           /\ a'.state # "Idle" => a'.job # None /\ a'.job.op # "flush"
<1>1. a' = AccessNext(a, Q(e), In(e)) /\ e \in Env
  BY ClockIs DEF Step
<1>2. Re(e) <=> QueueRe(a, In(e))
  BY DEF Re, In, Ain, QueueRe, Finishes, Holds
<1>3. a.state \in AccessStates
  BY DEF AccessTypes
<1>4. a.state = "Idle" => Re(e)
  BY <1>3, DoneReads
<1>5. CASE Re(e) /\ Q(e) = None
  <2>1. a'.state = "Idle" /\ ~a'.valid
    BY <1>1, <1>2, <1>5, AccessFields
  <2> QED BY <1>5, <2>1 DEF InFlight
<1>6. CASE Re(e) /\ Q(e) # None
  <2>1. /\ a'.job = Q(e) /\ a'.valid = (Q(e).op = "flush")
        /\ a'.state = IF Q(e).op = "flush" THEN "Idle"
                      ELSE IF In(e).ready THEN "WaitResponse" ELSE "WaitReqAccept"
    BY <1>1, <1>2, <1>6, AccessFields
  <2> QED BY <1>6, <2>1 DEF InFlight
<1>7. CASE ~Re(e)
  <2>1. a.state # "Idle" /\ a.job # None /\ a.job.op # "flush"
    BY <1>4, <1>7 DEF AccessInv
  <2>2. /\ a'.job = a.job /\ ~a'.valid
        /\ a'.state = IF a.state = "WaitReqAccept" /\ In(e).ready THEN "WaitResponse"
                      ELSE IF a.state = "WaitResponse" /\ In(e).resp # None THEN "Hold"
                      ELSE a.state
    BY <1>1, <1>2, <1>7, AccessFields
  <2> QED BY <1>7, <2>1, <2>2 DEF InFlight
<1> QED BY <1>5, <1>6, <1>7

\* The words that are left after a clock.
LEMMA WordsNext ==
    ASSUME AccessTypes, AccessInv, RightInv, NEW e, Step(e),
           NEW k, k = (IF Re(e) /\ Words(e) # 0 THEN 1 ELSE 0)
    PROVE  /\ TypeOK' /\ wcnt' = Words(e) - k
           /\ \A i \in 1 .. Words(e) - k : mem'[i - 1] = WordAt(e, i + k)
<1>1. DataClock(e) /\ e \in Env
  BY DEF Step
<1> DEFINE x == IF e.job = None THEN NoWord ELSE e.job
<1>2. Clock(Re(e), We(e), x)
  BY <1>1, ClockIs
<1>3. TypeOK /\ wcnt \in Nat /\ (We(e) <=> e.job # None) /\ load.jobs \subseteq Data
  BY <1>1, IssuedFacts, LoadFacts DEF AccessTypes
<1>4. x \in Data
  <2>1. mem[0] \in Data
    BY <1>3, QueueAssumption DEF TypeOK, Places
  <2>2. NoWord \in Data
    BY <2>1 DEF NoWord
  <2> QED BY <1>1, <1>3, <2>2, EnvFacts
<1>5. We(e) => wcnt < Depth - 1 /\ x = e.job
  BY <1>1, <1>3, EnvFacts
<1>6. Re(e) \in BOOLEAN /\ We(e) \in BOOLEAN
  BY DEF Re, QueueRe, Finishes, We
<1>7. Words(e) = (IF We(e) THEN wcnt + 1 ELSE wcnt)
  BY DEF Words
<1> HIDE DEF x
<1>8. /\ TypeOK' /\ wcnt' = Words(e) - k
      /\ \A i \in 1 .. Words(e) - k : mem'[i - 1] = IF i + k <= wcnt THEN mem[i + k - 1] ELSE x
  BY <1>2, <1>3, <1>4, <1>5, <1>6, <1>7, QueueClock
<1>9. ASSUME NEW i \in 1 .. Words(e) - k
      PROVE  mem'[i - 1] = WordAt(e, i + k)
  <2>1. mem'[i - 1] = IF i + k <= wcnt THEN mem[i + k - 1] ELSE x
    BY <1>8
  <2>2. ~We(e) => i + k <= wcnt
    BY <1>3, <1>7
  <2> QED BY <1>5, <2>1, <2>2 DEF WordAt
<1> QED BY <1>8, <1>9

\* The queue and the operation in flight stay the operations that did not complete.
LEMMA AccessKeeps ==
    ASSUME AccessTypes, AccessInv, RightInv, NEW e, Step(e)
    PROVE  AccessInv' /\ TypeOK'
<1>1. e \in Env /\ a.state \in AccessStates
  BY DEF Step, AccessTypes
<1>2. /\ wcnt \in Nat /\ Words(e) \in Nat /\ Ahead \in {0, 1}
      /\ Len(Issued(e)) = Ahead + Words(e)
      /\ \A i \in 1 .. Words(e) : Issued(e)[Ahead + i].j = WordAt(e, i)
      /\ Q(e) = IF Words(e) = 0 THEN None ELSE WordAt(e, 1)
      /\ Q(e) # None <=> Words(e) # 0
      /\ \A i \in 1 .. Len(pend) : Issued(e)[i] = pend[i]
      /\ Len(pend) = Ahead + wcnt
  BY <1>1, IssuedFacts DEF Ahead, AccessInv
<1> DEFINE k == IF Re(e) /\ Words(e) # 0 THEN 1 ELSE 0
<1>3. /\ TypeOK' /\ wcnt' = Words(e) - k
      /\ \A i \in 1 .. Words(e) - k : mem'[i - 1] = WordAt(e, i + k)
  BY WordsNext
<1>4. /\ Re(e) /\ Q(e) = None => ~InFlight'
      /\ Re(e) /\ Q(e) # None => InFlight' /\ a'.job = Q(e)
      /\ ~Re(e) => InFlight /\ InFlight' /\ a'.job = a.job
      /\ a'.valid => a'.state = "Idle" /\ a'.job # None /\ a'.job.op = "flush"
      /\ a'.state # "Idle" => a'.job # None /\ a'.job.op # "flush"
  BY FlightNext
<1>5. Done(e) <=> Re(e) /\ InFlight
  BY <1>1, DoneReads
<1>6. /\ ~Done(e) => pend' = Issued(e)
      /\ Done(e) => /\ Len(pend') = Len(Issued(e)) - 1
                    /\ \A i \in 1 .. Len(Issued(e)) - 1 : pend'[i] = Issued(e)[i + 1]
  BY PendNext
<1>7. Ahead = (IF InFlight THEN 1 ELSE 0) /\ Ahead' = (IF InFlight' THEN 1 ELSE 0)
  BY DEF Ahead
<1>8. CASE Re(e) /\ Q(e) = None
  <2>1. Words(e) = 0 /\ wcnt' = 0 /\ Ahead' = 0
    BY <1>2, <1>3, <1>4, <1>7, <1>8
  <2>2. Len(pend') = 0
    BY <1>2, <1>5, <1>6, <1>7, <1>8, <2>1
  <2>3. \A i \in 1 .. wcnt' : FALSE
    BY <2>1
  <2> QED BY <1>3, <1>4, <1>8, <2>1, <2>2, <2>3 DEF AccessInv
<1>9. CASE Re(e) /\ Q(e) # None
  <2>1. /\ Words(e) # 0 /\ wcnt' = Words(e) - 1 /\ Ahead' = 1 /\ 1 \in 1 .. Words(e)
        /\ \A i \in 1 .. Words(e) - 1 : mem'[i - 1] = WordAt(e, i + 1)
    BY <1>2, <1>3, <1>4, <1>7, <1>9
  <2>2. Len(pend') = Words(e)
    BY <1>2, <1>5, <1>6, <1>7, <1>9, <2>1
  <2>3. ASSUME NEW i \in 1 .. Words(e)
        PROVE  pend'[i] = Issued(e)[Ahead + i]
    <3>1. CASE InFlight
      <4>1. i \in 1 .. Len(Issued(e)) - 1 /\ Ahead + i = i + 1
        BY <1>2, <1>7, <3>1
      <4> QED BY <1>5, <1>6, <1>9, <3>1, <4>1
    <3>2. CASE ~InFlight
      <4>1. Ahead + i = i
        BY <1>7, <3>2
      <4> QED BY <1>5, <1>6, <3>2, <4>1
    <3> QED BY <3>1, <3>2
  <2>4. pend'[1].j = a'.job
    BY <1>2, <1>4, <1>9, <2>1, <2>3
  <2>5. ASSUME NEW i \in 1 .. wcnt'
        PROVE  pend'[Ahead' + i].j = mem'[i - 1]
    <3>1. i \in 1 .. Words(e) - 1 /\ i + 1 \in 1 .. Words(e) /\ Ahead' + i = i + 1
      BY <1>2, <2>1
    <3> QED BY <1>2, <2>1, <2>3, <3>1
  <2> QED BY <1>2, <1>3, <1>4, <1>9, <2>1, <2>2, <2>4, <2>5 DEF AccessInv
<1>10. CASE ~Re(e)
  <2>1. wcnt' = Words(e) /\ Ahead = 1 /\ Ahead' = 1 /\ pend' = Issued(e) /\ a'.job = a.job
    BY <1>2, <1>3, <1>4, <1>5, <1>6, <1>7, <1>10
  <2>2. pend'[1].j = a'.job
    <3>1. 1 \in 1 .. Len(pend)
      BY <1>2, <2>1
    <3> QED BY <1>2, <1>4, <1>10, <2>1, <3>1 DEF AccessInv
  <2>3. ASSUME NEW i \in 1 .. wcnt'
        PROVE  pend'[Ahead' + i].j = mem'[i - 1]
    <3>1. i \in 1 .. Words(e) /\ mem'[i - 1] = WordAt(e, i + 0) /\ i + 0 = i
      BY <1>2, <1>3, <1>10, <2>1
    <3> QED BY <1>2, <2>1, <3>1
  <2> QED BY <1>2, <1>3, <1>4, <1>10, <2>1, <2>2, <2>3 DEF AccessInv
<1> QED BY <1>8, <1>9, <1>10

\* The flush is told when it is the next operation (o_flushd).
LEMMA NotEarly ==
    ASSUME AccessTypes, AccessInv, RightInv, NEW e, e \in Env
    PROVE  ~Early(e)
<1> SUFFICES ASSUME Early(e) PROVE FALSE
  OBVIOUS
<1>1. Q(e) # None /\ Q(e).op = "flush" /\ Re(e)
  BY DEF Early, Flushd, Re
<1>2. /\ Words(e) \in Nat /\ Len(Issued(e)) = Ahead + Words(e) /\ Ahead \in {0, 1}
      /\ \A i \in 1 .. Words(e) : Issued(e)[Ahead + i].j = WordAt(e, i)
      /\ \A i \in 1 .. Len(Issued(e)) :
            Issued(e)[i].outcome = Outcome(Current, load, Issued(e)[i].j)
      /\ Q(e) = WordAt(e, 1) /\ Words(e) # 0
  BY <1>1, IssuedFacts DEF Ahead
<1>3. Ahead + 1 = IF Done(e) THEN 2 ELSE 1
  BY <1>1, DoneReads DEF AccessTypes, Ahead
<1>4. 1 \in 1 .. Words(e) /\ Ahead + 1 \in 1 .. Len(Issued(e))
  BY <1>2
<1>5. Issued(e)[Ahead + 1].j = Q(e)
  BY <1>2, <1>4
<1>6. Issued(e)[Ahead + 1].outcome = "flush"
  BY <1>1, <1>2, <1>4, <1>5 DEF Outcome
<1>7. ~(Ahead + 1 > Len(Issued(e)))
  BY <1>2
<1> QED BY <1>3, <1>6, <1>7 DEF Early

\* A change of the page tables meets no operation.
LEMMA FenceKeeps ==
    ASSUME AccessTypes, AccessInv, RightInv, FenceInv, NEW e, Step(e)
    PROVE  /\ FenceInv'
           /\ e.remap => Quiet /\ pend' = << >> /\ fence' = "due"
           /\ ~e.remap => Current' = Current
           /\ load' = load
<1>1. DataClock(e) /\ e \in Env /\ (e.remap => e.job = None) /\ wcnt \in Nat
  BY QueueAssumption DEF Step, AccessTypes, TypeOK
<1>2. /\ load' = load /\ version' = (IF e.remap THEN version + 1 ELSE version)
      /\ fence' = (IF e.remap THEN "due" ELSE IF e.fence THEN "pulse" ELSE
                   IF fence = "pulse" THEN "none" ELSE fence)
  BY <1>1, ClockIs
<1>3. e.remap => Quiet /\ e.job = None
  BY <1>1, EnvFacts
<1>4. fence' # "none" => Quiet /\ e.job = None
  <2>1. fence' # "none" => e.remap \/ fence # "none"
    BY <1>1, <1>2, EnvFacts
  <2>2. fence # "none" => Quiet /\ e.job = None
    BY <1>1, EnvFacts DEF FenceInv
  <2> QED BY <1>3, <2>1, <2>2
<1>5. ASSUME Quiet, e.job = None
      PROVE  Quiet'
  <2>1. ~We(e) /\ Words(e) = 0 /\ Q(e) = None /\ Issued(e) = pend
    BY <1>5 DEF We, Words, Quiet, Q, Nempty, Issued
  <2>2. Re(e) /\ ~Done(e)
    BY <1>5, DoneReads DEF Quiet, AccessTypes, InFlight
  <2>3. ~InFlight' /\ pend' = pend
    BY <2>1, <2>2, FlightNext, PendNext
  <2>4. wcnt' = 0
    BY <2>1, WordsNext
  <2> QED BY <1>5, <2>3, <2>4 DEF Quiet, InFlight
<1> QED BY <1>2, <1>3, <1>4, <1>5 DEF FenceInv, Quiet, Current

\* The types of the stage, and what is right, are kept.
LEMMA RightKeeps ==
    ASSUME AccessTypes, AccessInv, RightInv, FenceInv, NEW e, Step(e),
           Rsp # None => Rsp.data \in Values
    PROVE  AccessTypes' /\ RightInv'
<1>1. DataClock(e) /\ e \in Env
  BY DEF Step
<1>2. /\ load' = load /\ version' = (IF e.remap THEN version + 1 ELSE version)
      /\ fence' = (IF e.remap THEN "due" ELSE IF e.fence THEN "pulse" ELSE
                   IF fence = "pulse" THEN "none" ELSE fence)
      /\ done' = IF We(e) THEN Applied(e.job) ELSE done
      /\ a' = AccessNext(a, Q(e), In(e))
  BY <1>1, ClockIs
<1>3. version' \in 1 .. Len(load'.tables) /\ fence' \in {"none", "due", "pulse"}
  <2>1. Len(load.tables) \in Nat /\ version \in 1 .. Len(load.tables)
    BY LoadFacts DEF AccessTypes
  <2> QED BY <1>1, <1>2, <2>1, EnvFacts DEF AccessTypes
<1>4. done' \in [M!Page -> Values]
  <2>1. We(e) => e.job \in load.jobs
    BY <1>1, EnvFacts DEF We
  <2> QED BY <1>2, <2>1, RightFacts DEF AccessTypes
<1>5. a' \in [state : AccessStates, valid : BOOLEAN, job : {None} \cup load.jobs,
              hold : {None} \cup Values]
  <2>1. In(e).resp = Rsp
    BY DEF In, Ain
  <2>2. Q(e) \in {None} \cup load.jobs
    BY <1>1, IssuedFacts
  <2> QED BY <1>2, <2>1, <2>2, AccessFields
<1>6. /\ pend' \in Seq(Pending(load))
      /\ \A i \in 1 .. Len(pend') : pend'[i].outcome = Outcome(Current, load, pend'[i].j)
  BY PendNext
<1>7. RightInv'
  <2>1. CASE e.remap
    <3>1. Len(pend') = 0
      BY <2>1, FenceKeeps
    <3>2. \A i \in 1 .. Len(pend') : FALSE
      BY <3>1
    <3> QED BY <3>2 DEF RightInv
  <2>2. CASE ~e.remap
    <3>1. Current' = Current
      BY <2>2, FenceKeeps
    <3> QED BY <1>2, <1>6, <3>1 DEF RightInv
  <2> QED BY <2>1, <2>2
<1>8. TypeOK'
  BY AccessKeeps
<1>9. load' \in Workloads
  BY <1>2 DEF AccessTypes
<1>10. Pending(load') = Pending(load)
  BY <1>2
<1> QED BY <1>2, <1>3, <1>4, <1>5, <1>6, <1>7, <1>8, <1>9, <1>10 DEF AccessTypes

----------------------------------------------------------------------------
(***************************************************************************)
(* The shortcuts of the memory management unit.                            *)
(***************************************************************************)
AllRegular == \A w \in Workloads : Regular(w)

\* An operation is refused when the entry is invalid or forbids it.
LEMMA RefusedIs ==
    ASSUME NEW t, IsTables(t), NEW j \in Jobs, j.ena, j.op # "flush", Leaf(t, j.page) # None
    PROVE  /\ Refused(t, j) <=> \/ "V" \notin Leaf(t, j.page).pte.flags
                                \/ M!Forbids(Leaf(t, j.page).pte.flags, j.op = "store")
           /\ Target(t, j) = M!Within(Leaf(t, j.page).size, Leaf(t, j.page).pte.ppn, j.page)
<1>1. Target(t, j) = M!Within(Leaf(t, j.page).size, Leaf(t, j.page).pte.ppn, j.page)
  BY DEF Target
<1>2. CASE j.op = "store"
  BY <1>1, <1>2 DEF Refused, M!Forbids
<1>3. CASE j.op # "store"
  BY <1>1, <1>3 DEF Refused, M!Forbids
<1> QED BY <1>2, <1>3

\* The tables of a workload that the shortcuts are right for.
LEMMA RegularNow ==
    ASSUME AllRegular, AccessTypes
    PROVE  /\ OneSize(load, Current) /\ OnePermission(load, Current) /\ Readable(load, Current)
           /\ Identity(load, Current) /\ TopUnused(load, Current)
BY DEF AllRegular, Regular, AccessTypes, Current

\* A page of the size of the last page: what lies below the size does not matter.
LEMMA WithinSame ==
    ASSUME NEW s, NEW x, NEW y, NEW va, \A q \in M!Sizes : q >= s => x[q] = y[q], s \in M!Sizes
    PROVE  M!Within(s, x, va) = M!Within(s, y, va)
<1>1. M!Sizes \subseteq Int
  BY DataAssumption DEF M!Sizes
<1> QED BY <1>1 DEF M!Within

\* What LastRight says of the entry.
LEMMA LastFacts ==
    ASSUME AccessTypes, NEW r, r.last_va \in M!Page, LastRight(Current, load, r)
    PROVE  LET l == Leaf(Current, r.last_va)
           IN  /\ l # None /\ l.size = r.last_page_size /\ l.pte.flags = r.last_permission
               /\ l.size \in M!Sizes /\ TopLeaf(Current, r.last_va, l.size)
               /\ \A va : M!Within(r.last_page_size, r.last_pa, va) = M!Within(l.size, l.pte.ppn, va)
<1> DEFINE l == Leaf(Current, r.last_va)
<1>1. /\ l # None /\ l.size = r.last_page_size /\ l.pte.flags = r.last_permission
      /\ \A q \in M!Sizes : q >= l.size => r.last_pa[q] = l.pte.ppn[q]
  BY DEF LastRight
<1>2. l.size \in M!Sizes /\ TopLeaf(Current, r.last_va, l.size)
  BY <1>1, LeafType, LoadFacts DEF AccessTypes
<1> HIDE DEF l
<1>3. \A va : M!Within(r.last_page_size, r.last_pa, va) = M!Within(l.size, l.pte.ppn, va)
  BY <1>1, <1>2, WithinSame
<1> QED BY <1>1, <1>2, <1>3 DEF l

\* A request to the last page may be sent without a look at the tables: translated
\* operations by OnePermission, others by Identity (Idle and WaitRespLast of mmu.cpp).
LEMMA LastAccess ==
    ASSUME AllRegular, AccessTypes, NEW r, r.last_va \in M!Page, LastRight(Current, load, r),
           NEW j \in load.jobs, j.op # "flush", M!SamePage(r.last_page_size, j.page, r.last_va)
    PROVE  /\ ~Refused(Current, j)
           /\ Target(Current, j) = M!Within(r.last_page_size, r.last_pa, j.page)
           /\ ~M!Forbids(r.last_permission, j.op = "store")
           /\ Leaf(Current, j.page) = Leaf(Current, r.last_va)
<1> DEFINE l == Leaf(Current, r.last_va)
<1>1. /\ l # None /\ l.size = r.last_page_size /\ l.pte.flags = r.last_permission
      /\ l.size \in M!Sizes /\ TopLeaf(Current, r.last_va, l.size)
      /\ M!Within(r.last_page_size, r.last_pa, j.page) = M!Within(l.size, l.pte.ppn, j.page)
  BY LastFacts
<1>2. IsTables(Current) /\ j \in Jobs /\ load.jobs \subseteq Jobs
  BY LoadFacts DEF AccessTypes
<1>3. PICK k \in Translated(load) : ~Refused(Current, k) /\ M!SamePage(l.size, k.page, r.last_va)
  BY DEF LastRight
<1>4. k \in Jobs /\ k.ena /\ k.op # "flush"
  BY <1>2 DEF Translated
<1>5. M!SamePage(l.size, r.last_va, j.page) /\ M!SamePage(l.size, r.last_va, k.page)
      /\ M!SamePage(l.size, k.page, j.page) /\ M!SamePage(l.size, j.page, k.page)
  BY <1>1, <1>3, SamePageLaws
<1>6. Leaf(Current, j.page) = l /\ Leaf(Current, k.page) = l
  BY <1>1, <1>5, SameLeaf
<1> HIDE DEF l
<1>7. CASE j.ena
  <2>1. j \in Translated(load)
    BY <1>7 DEF Translated
  <2>2. ~Refused(Current, j)
    BY <1>1, <1>3, <1>5, <1>6, <2>1, RegularNow DEF OnePermission
  <2>3. ~M!Forbids(l.pte.flags, j.op = "store") /\ Target(Current, j) = M!Within(l.size, l.pte.ppn, j.page)
    BY <1>1, <1>2, <1>6, <1>7, <2>2, RefusedIs
  <2> QED BY <1>1, <1>6, <2>2, <2>3 DEF l
<1>8. CASE ~j.ena
  <2>1. j \in Untranslated(load)
    BY <1>8 DEF Untranslated
  <2>2. M!Within(l.size, l.pte.ppn, j.page) = j.page /\ ~M!Forbids(l.pte.flags, j.op = "store")
    BY <1>1, <1>3, <1>5, <1>6, <2>1, RegularNow DEF Identity
  <2>3. ~Refused(Current, j) /\ Target(Current, j) = j.page
    BY <1>8 DEF Refused, Target
  <2> QED BY <1>1, <1>6, <2>2, <2>3 DEF l
<1> QED BY <1>7, <1>8

\* The last page stays what it is when it is met again at another address.
LEMMA LastMoves ==
    ASSUME NEW t, NEW w, NEW r, NEW s, LastRight(t, w, r),
           Leaf(t, s.last_va) = Leaf(t, r.last_va),
           M!SamePage(r.last_page_size, s.last_va, r.last_va),
           s.last_page_size = r.last_page_size, s.last_pa = r.last_pa,
           s.last_permission = r.last_permission
    PROVE  LastRight(t, w, s)
<1> DEFINE l == Leaf(t, r.last_va)
<1>1. PICK k \in Translated(w) : ~Refused(t, k) /\ M!SamePage(l.size, k.page, r.last_va)
  BY DEF LastRight
<1>2. l.size = r.last_page_size
  BY DEF LastRight
<1>3. M!SamePage(l.size, k.page, s.last_va)
  BY <1>1, <1>2, SamePageLaws
<1> QED BY <1>1, <1>3 DEF LastRight

\* The last page is the one of an operation that is not refused.
LEMMA LastOf ==
    ASSUME NEW t, IsTables(t), NEW w, NEW r, NEW j \in Translated(w), ~Refused(t, j), j \in Jobs,
           r.last_va = j.page,
           Leaf(t, j.page).size = r.last_page_size, Leaf(t, j.page).pte.flags = r.last_permission,
           \A q \in M!Sizes : q >= r.last_page_size => r.last_pa[q] = Leaf(t, j.page).pte.ppn[q]
    PROVE  LastRight(t, w, r)
<1>1. Leaf(t, j.page) # None
  BY TargetType DEF Translated
<1>2. M!SamePage(r.last_page_size, j.page, r.last_va)
  BY SamePageLaws
<1> QED BY <1>1, <1>2 DEF LastRight

----------------------------------------------------------------------------
(***************************************************************************)
(* What the stage and the unit see of each other in a clock.               *)
(***************************************************************************)
LEMMA UinFields ==
    ASSUME NEW e
    PROVE  /\ Uin(e).req = Req(e) /\ Uin(e).ena = MmuEna(a, Q(e)) /\ Uin(e).mem_ready = Ready(e)
           /\ Uin(e).fence = (fence = "pulse") /\ Uin(e).mem = Ans /\ Uin(e).tlb = rdata
           /\ In(e).ready = M!CoreReqReady(u, Uin(e)) /\ In(e).resp = Rsp
BY DEF Uin, Min, In, Ain

\* The operation that is offered is the one in flight after the clock.
LEMMA OffNext ==
    ASSUME AccessTypes, AccessInv, RightInv, NEW e, Step(e)
    PROVE  /\ Off(e) # None =>
                 /\ Off(e) \in load.jobs /\ Off(e) \in Jobs /\ Off(e).op # "flush"
                 /\ a'.job = Off(e) /\ InFlight' /\ MmuEna(a, Q(e)) = Off(e).ena
                 /\ a'.state = IF In(e).ready THEN "WaitResponse" ELSE "WaitReqAccept"
                 /\ Req(e) = [page |-> Off(e).page, write |-> Off(e).op = "store", wdata |-> Off(e).wdata]
                 /\ Req(e) \in Requests /\ Req(e) # None
                 /\ Re(e) \/ a.state = "WaitReqAccept"
           /\ Off(e) = None =>
                 /\ Req(e) = None
                 /\ \/ Re(e) /\ a'.state = "Idle"
                    \/ /\ ~Re(e) /\ ~Done(e) /\ a.state = "WaitResponse"
                       /\ a'.state = IF Rsp # None THEN "Hold" ELSE "WaitResponse"
                       /\ a'.job = a.job /\ (Rsp # None => a'.hold = Rsp.data)
                    \/ /\ ~Re(e) /\ ~Done(e) /\ a.state = "Hold" /\ a'.state = "Hold"
                       /\ a'.job = a.job /\ a'.hold = a.hold
<1>1. a' = AccessNext(a, Q(e), In(e)) /\ e \in Env
  BY ClockIs DEF Step
<1>2. Re(e) <=> QueueRe(a, In(e))
  BY DEF Re, In, Ain, QueueRe, Finishes, Holds
<1>3. a.state \in AccessStates /\ a.job \in {None} \cup load.jobs
  BY DEF AccessTypes
<1>4. Q(e) \in {None} \cup load.jobs /\ load.jobs \subseteq Jobs /\ None \notin load.jobs
  BY <1>1, IssuedFacts, LoadFacts DEF AccessTypes
<1>5. Done(e) => Re(e)
  BY <1>3, DoneReads
<1>6. Off(e) = (IF a.state = "WaitReqAccept" THEN a.job
                ELSE IF Q(e) # None /\ Q(e).op # "flush" /\ Re(e) THEN Q(e) ELSE None)
  BY DEF Off, Offered, Re
<1>7. CASE a.state = "WaitReqAccept"
  <2>1. ~Re(e) /\ a.job # None /\ a.job.op # "flush"
    BY <1>7, DoneReads DEF AccessInv, AccessTypes
  <2>2. a'.job = a.job /\ a'.state = (IF In(e).ready THEN "WaitResponse" ELSE "WaitReqAccept")
    BY <1>1, <1>2, <1>7, <2>1, AccessFields
  <2>3. Off(e) = a.job /\ Off(e) \in Jobs
    BY <1>3, <1>4, <1>6, <1>7, <2>1
  <2>4. Req(e) = [page |-> Off(e).page, write |-> Off(e).op = "store", wdata |-> Off(e).wdata]
    BY <2>1, <2>3 DEF Req
  <2>5. Off(e).page \in M!Page /\ Off(e).wdata \in Values
    BY <2>3, JobFields
  <2>6. Req(e) \in Requests /\ None \notin Requests
    BY <2>4, <2>5, NoneAssumption DEF Requests
  <2>7. InFlight' /\ MmuEna(a, Q(e)) = Off(e).ena
    BY <1>7, <2>2, <2>3 DEF InFlight, MmuEna
  <2> QED BY <1>3, <1>7, <2>1, <2>2, <2>3, <2>4, <2>6, <2>7
<1>8. CASE a.state # "WaitReqAccept" /\ Q(e) # None /\ Q(e).op # "flush" /\ Re(e)
  <2>1. a'.job = Q(e) /\ a'.state = (IF In(e).ready THEN "WaitResponse" ELSE "WaitReqAccept")
    BY <1>1, <1>2, <1>8, AccessFields
  <2>2. Off(e) = Q(e) /\ Off(e) \in Jobs /\ Off(e) \in load.jobs
    BY <1>4, <1>6, <1>8
  <2>3. Req(e) = [page |-> Off(e).page, write |-> Off(e).op = "store", wdata |-> Off(e).wdata]
    BY <1>8, <2>2 DEF Req
  <2>4. Off(e).page \in M!Page /\ Off(e).wdata \in Values /\ Off(e).ena \in BOOLEAN
    BY <2>2, JobFields
  <2>5. Req(e) \in Requests /\ None \notin Requests
    BY <2>3, <2>4, NoneAssumption DEF Requests
  <2>6. InFlight' /\ MmuEna(a, Q(e)) = Off(e).ena
    BY <1>8, <2>1, <2>2, <2>4 DEF InFlight, MmuEna
  <2> QED BY <1>8, <2>1, <2>2, <2>3, <2>5, <2>6
<1>9. CASE a.state # "WaitReqAccept" /\ ~(Q(e) # None /\ Q(e).op # "flush" /\ Re(e))
  <2>1. Off(e) = None /\ Req(e) = None
    BY <1>6, <1>9 DEF Req
  <2>2. CASE Re(e)
    <3>1. a'.state = "Idle"
      BY <1>1, <1>2, <1>9, <2>2, AccessFields
    <3> QED BY <2>1, <2>2, <3>1
  <2>3. CASE ~Re(e)
    <3>1. a.state \in {"WaitResponse", "Hold"} /\ ~Done(e)
      BY <1>3, <1>5, <1>9, <2>3, DoneReads DEF AccessStates
    <3>2. In(e).resp = Rsp
      BY UinFields
    <3>3. /\ a'.job = a.job
          /\ a'.state = IF a.state = "WaitResponse" /\ Rsp # None THEN "Hold" ELSE a.state
          /\ a'.hold = IF a.state = "WaitResponse" /\ Rsp # None THEN Rsp.data ELSE a.hold
      BY <1>1, <1>2, <1>9, <2>3, <3>2, AccessFields
    <3> QED BY <2>1, <2>3, <3>1, <3>3
  <2> QED BY <2>2, <2>3
<1> QED BY <1>7, <1>8, <1>9

\* The head of the operations that did not complete.
LEMMA HeadNext ==
    ASSUME AccessTypes, AccessInv, RightInv, NEW e, Step(e)
    PROVE  /\ InFlight => Len(pend) \in Nat \ {0} /\ pend[1].j = a.job
                          /\ pend[1].outcome = Outcome(Current, load, a.job)
           /\ InFlight' => Len(pend') \in Nat \ {0} /\ pend'[1].j = a'.job
                           /\ pend'[1].outcome = Outcome(Current, load, a'.job)
           /\ InFlight /\ ~Done(e) => pend'[1] = pend[1]
<1>1. AccessInv' /\ TypeOK'
  BY AccessKeeps
<1>2. wcnt \in Nat /\ wcnt' \in Nat
  BY <1>1, QueueAssumption DEF AccessTypes, TypeOK
<1>3. InFlight => Len(pend) \in Nat \ {0} /\ pend[1].j = a.job
  BY <1>2 DEF AccessInv, Ahead
<1>4. InFlight' => Len(pend') \in Nat \ {0} /\ pend'[1].j = a'.job
  <2>1. Len(pend') = Ahead' + wcnt' /\ (InFlight' => pend'[1].j = a'.job)
    BY <1>1 DEF AccessInv
  <2> SUFFICES ASSUME InFlight' PROVE Len(pend') \in Nat \ {0} /\ pend'[1].j = a'.job
    OBVIOUS
  <2>2. Ahead' = 1
    BY DEF Ahead
  <2>3. Len(pend') = 1 + wcnt'
    BY <2>1, <2>2
  <2>4. Len(pend') \in Nat \ {0}
    <3>1. PICK n \in Nat : n = wcnt'
      BY <1>2
    <3>2. Len(pend') = 1 + n
      BY <2>3, <3>1, Zenon
    <3>3. 1 + n \in Nat \ {0}
      OBVIOUS
    <3> QED BY <3>2, <3>3, Zenon
  <2> QED BY <2>1, <2>4
<1>5. InFlight => pend[1].outcome = Outcome(Current, load, a.job)
  <2>1. InFlight => 1 \in 1 .. Len(pend)
    BY <1>3
  <2> QED BY <1>3, <2>1 DEF RightInv
<1>6. InFlight' => pend'[1].outcome = Outcome(Current, load, a'.job)
  <2>1. InFlight' => 1 \in 1 .. Len(pend')
    BY <1>4
  <2> QED BY <1>4, <2>1, PendNext
<1>7. InFlight /\ ~Done(e) => pend'[1] = pend[1]
  <2>1. InFlight => 1 \in 1 .. Len(pend)
    BY <1>3
  <2>2. e \in Env
    BY DEF Step
  <2> QED BY <2>1, <2>2, IssuedFacts, PendNext
<1> QED BY <1>3, <1>4, <1>5, <1>6, <1>7

\* While an operation is in flight or offered the tables stand.
LEMMA Calm ==
    ASSUME AccessTypes, AccessInv, RightInv, FenceInv, NEW e, Step(e), InFlight \/ Off(e) # None
    PROVE  fence = "none" /\ fence' = "none" /\ ~e.remap /\ Current' = Current /\ load' = load
<1>1. DataClock(e) /\ e \in Env /\ (e.remap => e.job = None)
  BY DEF Step
<1>2. ~(Quiet /\ e.job = None)
  <2> SUFFICES ASSUME Quiet, e.job = None PROVE FALSE
    OBVIOUS
  <2>1. ~We(e) /\ Q(e) = None /\ ~InFlight
    BY DEF We, Quiet, Q, Nempty, InFlight
  <2>2. Off(e) = None
    BY <2>1 DEF Off, Offered, Quiet
  <2> QED BY <2>1, <2>2
<1>3. fence = "none"
  BY <1>1, <1>2, EnvFacts DEF FenceInv
<1>4. ~e.remap
  BY <1>1, <1>2, EnvFacts
<1>5. fence' = "none"
  BY <1>1, <1>3, <1>4, ClockIs, EnvFacts
<1> QED BY <1>3, <1>4, <1>5, FenceKeeps

----------------------------------------------------------------------------
(***************************************************************************)
(* The order of the stores in a clock.                                     *)
(***************************************************************************)
LEMMA IssueKeeps ==
    ASSUME AccessTypes, AccessInv, RightInv, BusyInv, StoreInv, NEW e, Step(e)
    PROVE  /\ OrderInv(Current, Issued(e), Sent, data, done')
           /\ \A i \in 1 .. Len(pend') : pend'[i].outcome = "ok" => Place(Current, pend'[i]) \in M!Page
<1>1. DataClock(e) /\ e \in Env
  BY DEF Step
<1>2. /\ (We(e) <=> e.job # None) /\ wcnt \in Nat
      /\ Issued(e) \in Seq(Pending(load)) /\ Len(Issued(e)) = Ahead + Words(e)
      /\ \A i \in 1 .. Len(pend) : Issued(e)[i] = pend[i]
      /\ We(e) => Issued(e)[Len(pend) + 1] = Right(e.job)
  BY <1>1, IssuedFacts
<1>3. Len(pend) = Ahead + wcnt /\ Ahead \in {0, 1}
  BY DEF AccessInv, Ahead
<1>4. done' = IF We(e) THEN Applied(e.job) ELSE done
  BY <1>1, ClockIs
<1>5. ASSUME We(e)
      PROVE  OrderInv(Current, Issued(e), Sent, data, done')
  <2>1. e.job \in load.jobs
    BY <1>1, <1>2, <1>5, EnvFacts
  <2> DEFINE x == Right(e.job)
  <2>2. /\ x.outcome = "ok" => Place(Current, x) \in M!Page
        /\ x.j.op = "load" /\ x.outcome = "ok" => x.data = done[Place(Current, x)]
        /\ done' = IF Effective(x) THEN [done EXCEPT ![Place(Current, x)] = x.j.wdata] ELSE done
    BY <1>4, <1>5, <2>1, RightFacts
  <2>3. DOMAIN done = M!Page
    BY DEF AccessTypes
  <2>4. Len(pend) = 0 => Sent = FALSE
    BY <1>2, <1>3 DEF Ahead, InFlight, Sent, BusyInv, Resting, Chained
  <2>5. Len(pend) \in Nat /\ Len(Issued(e)) = Len(pend) + 1 /\ Issued(e)[Len(pend) + 1] = x
    BY <1>2, <1>3, <1>5 DEF Words
  <2>6. OrderInv(Current, pend, Sent, data, done)
    BY DEF StoreInv
  <2>7. \A i \in 1 .. Len(pend) : Issued(e)[i] = pend[i]
    BY <1>2
  <2> HIDE DEF x
  <2>8. \A p \in M!Page : done'[p] = IF Effective(x) /\ Place(Current, x) = p THEN x.j.wdata ELSE done[p]
    <3>1. Effective(x) => x.outcome = "ok"
      BY DEF Effective
    <3> QED BY <2>2, <2>3, <3>1
  <2>9. OrderInv(Current, Issued(e), Sent, data, done')
    <3>1. IssueOf(Current, pend, Sent, done, x, Issued(e), done')
      BY <2>2, <2>4, <2>5, <2>7, <2>8 DEF IssueOf
    <3> QED BY <2>6, <3>1, OrderIssue
  <2> QED BY <2>9
<1>6. ASSUME ~We(e)
      PROVE  OrderInv(Current, Issued(e), Sent, data, done')
  <2>1. Issued(e) = pend /\ done' = done
    BY <1>4, <1>6 DEF Issued
  <2>2. OrderInv(Current, pend, Sent, data, done)
    BY DEF StoreInv
  <2> QED BY <2>1, <2>2
<1>7. ASSUME NEW i \in 1 .. Len(pend'), pend'[i].outcome = "ok"
      PROVE  Place(Current, pend'[i]) \in M!Page
  <2>1. pend'[i] \in Pending(load) /\ pend'[i].outcome = Outcome(Current, load, pend'[i].j)
    BY PendNext
  <2>2. pend'[i].j \in Jobs /\ IsTables(Current)
    BY <2>1, LoadFacts DEF Pending, AccessTypes
  <2>3. ~Refused(Current, pend'[i].j)
    BY <1>7, <2>1 DEF Outcome
  <2> QED BY <2>2, <2>3, TargetType DEF Place
<1> QED BY <1>5, <1>6, <1>7

\* What a clock does to the stores: the operation in flight completes, and the next is sent.
LEMMA StoreNext ==
    ASSUME AccessTypes, AccessInv, RightInv, FenceInv, BusyInv, StoreInv, NEW e, Step(e),
           Done(e) => Sent \/ ~Effective(pend[1]),
           NEW s \in BOOLEAN, s <=> Sent /\ ~Done(e), data \in [M!Page -> Values],
           \/ data' = data /\ ((Sent' <=> s) \/ (Len(pend') # 0 => ~Effective(pend'[1])))
           \/ /\ ~s /\ Sent' /\ Len(pend') # 0
              /\ data' = IF Effective(pend'[1])
                         THEN [data EXCEPT ![Place(Current, pend'[1])] = pend'[1].j.wdata] ELSE data
    PROVE  StoreInv'
<1>1. e \in Env /\ Sent \in BOOLEAN /\ Sent' \in BOOLEAN
  BY DEF Step, Sent, Chained
<1>2. OrderInv(Current, Issued(e), Sent, data, done')
  BY IssueKeeps
<1>3. Len(pend') \in Nat /\ Len(Issued(e)) \in Nat /\ Len(pend) \in Nat
  <2>1. Issued(e) \in Seq(Pending(load)) /\ pend' \in Seq(Pending(load)) /\ pend \in Seq(Pending(load))
    BY <1>1, IssuedFacts, PendNext
  <2> QED BY <2>1
<1>4. OrderInv(Current, pend', s, data, done')
  <2>1. CASE ~Done(e)
    <3>1. pend' = Issued(e) /\ s = Sent
      BY <1>1, <2>1, PendNext
    <3> QED BY <1>2, <3>1
  <2>2. CASE Done(e)
    <3>1. /\ Len(pend') = Len(Issued(e)) - 1 /\ Len(Issued(e)) # 0 /\ Len(pend) # 0
          /\ \A i \in 1 .. Len(Issued(e)) - 1 : pend'[i] = Issued(e)[i + 1]
      BY <2>2, PendNext
    <3>2. Issued(e)[1] = pend[1]
      <4>1. 1 \in 1 .. Len(pend)
        BY <1>3, <3>1
      <4> QED BY <1>1, <4>1, IssuedFacts
    <3>3. OrderInv(Current, Issued(e), TRUE, data, done')
      <4>1. CASE Sent
        <5>1. Sent = TRUE
          BY <1>1, <4>1
        <5> QED BY <1>2, <5>1
      <4>2. CASE ~Effective(pend[1])
        BY <1>2, <1>3, <3>2, <4>2, OrderSent
      <4> QED BY <2>2, <4>1, <4>2
    <3>4. s = FALSE
      BY <2>2
    <3> QED BY <1>3, <3>1, <3>3, <3>4, OrderComplete
  <2> QED BY <2>1, <2>2
<1>5. OrderInv(Current, pend', Sent', data', done')
  <2>1. CASE data' = data /\ (Sent' <=> s)
    <3>1. Sent' = s
      BY <1>1, <2>1
    <3> QED BY <1>4, <2>1, <3>1
  <2>2. CASE data' = data /\ (Len(pend') # 0 => ~Effective(pend'[1]))
    BY <1>3, <1>4, <2>2, OrderSent
  <2>3. CASE /\ ~s /\ Sent' /\ Len(pend') # 0
             /\ data' = IF Effective(pend'[1])
                        THEN [data EXCEPT ![Place(Current, pend'[1])] = pend'[1].j.wdata] ELSE data
    <3>1. s = FALSE /\ Sent' = TRUE /\ DOMAIN data = M!Page
      BY <1>1, <2>3
    <3>2. \A i \in 1 .. Len(pend') : pend'[i].outcome = "ok" => Place(Current, pend'[i]) \in M!Page
      BY IssueKeeps
    <3> QED BY <1>3, <1>4, <2>3, <3>1, <3>2, OrderSend
  <2> QED BY <2>1, <2>2, <2>3
<1>6. CASE e.remap
  <2>1. Len(pend') = 0
    BY <1>6, FenceKeeps
  <2>2. \A p \in M!Page : done'[p] = data'[p]
    BY <1>5, <2>1, OrderEmpty
  <2>3. OrderInv(Current', pend', Sent', data', done')
    BY <2>1, <2>2, OrderEmpty
  <2> QED BY <2>3 DEF StoreInv
<1>7. CASE ~e.remap
  <2>1. Current' = Current
    BY <1>7, FenceKeeps
  <2> QED BY <1>5, <2>1 DEF StoreInv
<1> QED BY <1>6, <1>7

----------------------------------------------------------------------------
(***************************************************************************)
(* The memory management unit, state by state.                             *)
(***************************************************************************)
Known(e) == PathInv /\ Step(e) /\ AllRegular

MmuPart == /\ MmuTypes /\ BusyInv /\ ChainInv /\ LookInv /\ WalkInv /\ FoundInv /\ LastInv
           /\ HoldInv /\ TlbInv /\ StoreInv

LEMMA KnownFacts ==
    ASSUME NEW e, Known(e)
    PROVE  /\ AccessTypes /\ MmuTypes /\ AccessInv /\ RightInv /\ FenceInv /\ MmuPart /\ Judged
           /\ AllRegular /\ Step(e) /\ e \in Env /\ DataClock(e)
           /\ IsTables(Current) /\ load.jobs \subseteq Jobs /\ u \in Registers
           /\ a.state \in AccessStates /\ u.state \in M!MmuStates
           /\ Levels \in Nat \ {0} /\ NTlb \in Nat \ {0}
BY LoadFacts, DataAssumption DEF Known, PathInv, MmuPart, Step, AccessTypes, MmuTypes, Registers

WithFence(n) == IF fence = "pulse"
                THEN [n EXCEPT !.req_flush = TRUE, !.tlb_flush_cnt = NTlb - 1, !.tlb_flush_adr = 0]
                ELSE n

\* the next registers, by state
LEMMA NextBy ==
    ASSUME NEW e, Step(e)
    PROVE  /\ u.state = "Idle" => u' = WithFence(M!Idle_Next(u, Uin(e)))
           /\ u.state = "WaitRespNoMmu" => u' = WithFence(M!WaitRespNoMmu_Next(u, Uin(e)))
           /\ u.state = "WaitRespLast" => u' = WithFence(M!WaitRespLast_Next(u, Uin(e)))
           /\ u.state = "CheckTlb" => u' = WithFence(M!CheckTlb_Next(u, Uin(e)))
           /\ u.state = "CacheReq" =>
                 u' = WithFence(IF Ready(e) THEN [u EXCEPT !.state = "WaitResp"] ELSE u)
           /\ u.state = "WaitResp" => u' = WithFence(M!WaitResp_Next(u, Uin(e)))
           /\ u.state = "HandleResp" => u' = WithFence(M!HandleResp_Next(u))
           /\ u.state = "UpdateTlb" => u' = WithFence([u EXCEPT !.state = "CacheReq", !.tlb_hit = TRUE])
           /\ u.state = "AcceptCore" => u' = WithFence(M!AcceptCore_Next(u))
           /\ u.state = "FlushTlb" => u' = WithFence(M!FlushTlb_Next(u))
<1>1. u' = M!MmuNext(u, Uin(e)) /\ Uin(e).fence = (fence = "pulse") /\ Uin(e).mem_ready = Ready(e)
  BY ClockIs, UinFields DEF Step
<1> DEFINE in == Uin(e)
<1>2. u' = M!MmuNext(u, in) /\ in.fence = (fence = "pulse") /\ in.mem_ready = Ready(e)
  BY <1>1
<1> HIDE DEF in
<1>3. u.state = "Idle" => u' = WithFence(M!Idle_Next(u, in))
  BY <1>2 DEF M!MmuNext, WithFence
<1>4. u.state = "WaitRespNoMmu" => u' = WithFence(M!WaitRespNoMmu_Next(u, in))
  BY <1>2 DEF M!MmuNext, WithFence
<1>5. u.state = "WaitRespLast" => u' = WithFence(M!WaitRespLast_Next(u, in))
  BY <1>2 DEF M!MmuNext, WithFence
<1>6. u.state = "CheckTlb" => u' = WithFence(M!CheckTlb_Next(u, in))
  BY <1>2 DEF M!MmuNext, WithFence
<1>7. u.state = "CacheReq" =>
                 u' = WithFence(IF Ready(e) THEN [u EXCEPT !.state = "WaitResp"] ELSE u)
  BY <1>2 DEF M!MmuNext, WithFence
<1>8. u.state = "WaitResp" => u' = WithFence(M!WaitResp_Next(u, in))
  BY <1>2 DEF M!MmuNext, WithFence
<1>9. u.state = "HandleResp" => u' = WithFence(M!HandleResp_Next(u))
  BY <1>2 DEF M!MmuNext, WithFence
<1>10. u.state = "UpdateTlb" => u' = WithFence([u EXCEPT !.state = "CacheReq", !.tlb_hit = TRUE])
  BY <1>2 DEF M!MmuNext, WithFence
<1>11. u.state = "AcceptCore" => u' = WithFence(M!AcceptCore_Next(u))
  BY <1>2 DEF M!MmuNext, WithFence
<1>12. u.state = "FlushTlb" => u' = WithFence(M!FlushTlb_Next(u))
  BY <1>2 DEF M!MmuNext, WithFence
<1> QED BY <1>3, <1>4, <1>5, <1>6, <1>7, <1>8, <1>9, <1>10, <1>11, <1>12 DEF in

\* what an answer of the memory says
LEMMA AnswerIs ==
    ASSUME NEW e, Known(e)
    PROVE  /\ bus = None => Ans = None
           /\ Ans # None /\ (Chained \/ (u.state = "WaitResp" /\ u.tlb_hit)) =>
                 /\ Ans \in Answers /\ Ans.data = data[Target(Current, a.job)]
                 /\ Ans.fault = (Target(Current, a.job) \in load.faulty)
           /\ Ans # None /\ u.state = "WaitResp" /\ ~u.tlb_hit =>
                 /\ Ans \in Answers /\ ~Ans.fault
                 /\ Ans.pte = Steps(Current, a.job.page)[u.tlb_page_size]
<1> USE KnownFacts
<1>1. /\ data \in [M!Page -> Values] /\ 0 \in Values /\ None \notin Digits
      /\ bus \in {None} \cup [at : Addresses, write : BOOLEAN, resp : BOOLEAN]
  BY DataAssumption, NoneAssumption DEF MmuTypes
<1>2. bus = None => Ans = None
  BY DEF Ans
<1>3. ASSUME Ans # None
      PROVE  bus # None /\ Ans = Answer /\ bus.at \in Addresses
  BY <1>1, <1>3 DEF Ans
<1>4. ASSUME Ans # None, Chained \/ (u.state = "WaitResp" /\ u.tlb_hit)
      PROVE  /\ Ans \in Answers /\ Ans.data = data[Target(Current, a.job)]
             /\ Ans.fault = (Target(Current, a.job) \in load.faulty)
  <2>1. bus.at = M!DataAt(Target(Current, a.job))
    BY <1>4 DEF MmuPart, ChainInv, FoundInv, LookInv, Looking, Resting, Chained
  <2>2. bus.at.entry = None /\ bus.at.page = Target(Current, a.job)
    BY <2>1 DEF M!DataAt
  <2>3. bus.at.page \in M!Page
    BY <1>3, <1>4 DEF Addresses
  <2>4. Ans = [data |-> data[bus.at.page], pte |-> None, fault |-> bus.at.page \in load.faulty]
    BY <1>3, <1>4, <2>2 DEF Answer
  <2>5. data[bus.at.page] \in Values
    BY <1>1, <2>3
  <2>6. Ans \in Answers
    BY <2>4, <2>5 DEF Answers
  <2> QED BY <2>2, <2>4, <2>6
<1>5. ASSUME Ans # None, u.state = "WaitResp", ~u.tlb_hit
      PROVE  /\ Ans \in Answers /\ ~Ans.fault
             /\ Ans.pte = Steps(Current, a.job.page)[u.tlb_page_size]
  <2>1. /\ bus.at = u.req_pa /\ u.req_pa.entry = a.job.page[u.tlb_page_size]
        /\ Current[u.req_pa.page][u.req_pa.entry] = Steps(Current, a.job.page)[u.tlb_page_size]
        /\ a.state = "WaitResponse"
    BY <1>5 DEF MmuPart, WalkInv, LookInv, BusyInv, Looking, Resting, Chained
  <2>2. a.job \in Jobs
    BY <2>1 DEF AccessTypes, AccessInv
  <2>3. a.job.page \in M!Page /\ u.tlb_page_size \in M!Sizes
    BY <2>2, JobFields DEF Registers
  <2>4. bus.at.entry # None
    BY <1>1, <2>1, <2>3 DEF M!Page, Digits
  <2>5. Ans = [data |-> 0, pte |-> Current[bus.at.page][bus.at.entry], fault |-> FALSE]
    BY <1>3, <1>5, <2>4 DEF Answer, Current
  <2>6. Current[bus.at.page][bus.at.entry] \in Entries
    BY <2>1, <2>3, StepsType
  <2>7. Ans \in Answers
    BY <1>1, <2>5, <2>6 DEF Answers
  <2> QED BY <2>1, <2>5, <2>7
<1> QED BY <1>2, <1>4, <1>5

\* the response to the stage
LEMMA ResponseIs ==
    ASSUME NEW e, Known(e)
    PROVE  /\ bus = None /\ u.state # "AcceptCore" => Rsp = None
           /\ u.state = "WaitResp" => Rsp = None
           /\ Chained => Rsp = IF Ans = None THEN None
                               ELSE [data |-> Ans.data, fault |-> Ans.fault, page_fault |-> FALSE]
           /\ u.state = "AcceptCore" =>
                 Rsp = [data |-> u.resp.data, fault |-> u.resp.fault, page_fault |-> u.ex_page_fault]
           /\ Rsp # None => a.state = "WaitResponse" /\ Rsp.data \in Values
<1> USE KnownFacts
<1>1. bus = None => Ans = None
  BY AnswerIs
<1>2. bus = None /\ u.state # "AcceptCore" => Rsp = None
  BY <1>1 DEF Rsp, M!CoreResp
<1>3. u.state = "WaitResp" => Rsp = None
  BY DEF Rsp, M!CoreResp
<1>4. Chained => Rsp = IF Ans = None THEN None
                       ELSE [data |-> Ans.data, fault |-> Ans.fault, page_fault |-> FALSE]
  BY DEF Rsp, M!CoreResp, Chained
<1>5. u.state = "AcceptCore" =>
         Rsp = [data |-> u.resp.data, fault |-> u.resp.fault, page_fault |-> u.ex_page_fault]
  BY DEF Rsp, M!CoreResp
<1>6. Rsp # None => Chained \/ u.state = "AcceptCore"
  BY DEF Rsp, M!CoreResp, Chained
<1>7. Chained \/ u.state = "AcceptCore" => a.state = "WaitResponse"
  BY DEF MmuPart, BusyInv, Resting, Chained
<1>8. ASSUME Chained, Rsp # None
      PROVE  Rsp.data \in Values
  <2>1. Ans # None /\ Ans \in Answers /\ Rsp.data = Ans.data
    BY <1>4, <1>8, AnswerIs
  <2> QED BY <2>1 DEF Answers
<1>9. ASSUME u.state = "AcceptCore"
      PROVE  Rsp.data \in Values
  <2>1. u.resp \in Answers /\ Rsp.data = u.resp.data
    BY <1>5, <1>9 DEF MmuPart, FoundInv, Registers
  <2> QED BY <2>1 DEF Answers
<1> QED BY <1>2, <1>3, <1>4, <1>5, <1>6, <1>7, <1>8, <1>9

\* an operation that completes has reached the data or does not reach it
LEMMA DoneSent ==
    ASSUME NEW e, Known(e), Done(e)
    PROVE  /\ Sent \/ ~Effective(pend[1])
           /\ Finishes(a, Ain(e)) => Sent /\ (Chained \/ u.state = "AcceptCore" \/ a.state = "Hold")
<1> USE KnownFacts
<1>1. InFlight
  BY DoneReads
<1>2. pend[1].outcome = Outcome(Current, load, a.job)
  BY <1>1, HeadNext
<1>3. CASE a.valid
  <2>1. pend[1].outcome = "flush" /\ a.state = "Idle"
    BY <1>2, <1>3 DEF AccessInv, Outcome
  <2> QED BY <2>1, DoneReads DEF Effective
<1>4. CASE ~a.valid
  <2>1. Finishes(a, Ain(e))
    BY <1>4 DEF Done, Completes
  <2>2. CASE a.state = "Hold"
    BY <2>2 DEF Sent
  <2>3. CASE a.state # "Hold"
    <3>1. a.state = "WaitResponse" /\ Rsp # None
      BY <2>1, <2>3 DEF Finishes, Ain
    <3>2. Chained \/ u.state = "AcceptCore"
      BY <3>1 DEF Rsp, M!CoreResp, Chained
    <3> QED BY <3>2 DEF Sent
  <2> QED BY <2>2, <2>3
<1> QED BY <1>3, <1>4

\* a load finds its data in the memory
LEMMA LoadFinds ==
    ASSUME NEW e, Known(e), InFlight, pend[1].outcome = "ok", a.job.op = "load"
    PROVE  pend[1].data = data[Target(Current, a.job)]
<1> USE KnownFacts
<1>1. Len(pend) \in Nat \ {0} /\ pend[1].j = a.job
  BY HeadNext
<1>2. OrderInv(Current, pend, Sent, data, done)
  BY DEF MmuPart, StoreInv
<1>3. pend[1].data = data[Place(Current, pend[1])]
  BY <1>1, <1>2, OrderFirst
<1> QED BY <1>1, <1>3 DEF Place

\* A response is what is right for the operation in flight.
LEMMA ResponseRight ==
    ASSUME NEW e, Known(e), Rsp # None
    PROVE  /\ OutcomeOf(Rsp) = pend[1].outcome
           /\ pend[1].outcome = "ok" /\ a.job.op = "load" => Rsp.data = pend[1].data
<1> USE KnownFacts
<1>1. a.state = "WaitResponse" /\ InFlight /\ a.job.op # "flush"
  BY ResponseIs DEF InFlight, AccessInv
<1>2. pend[1].outcome = IF Refused(Current, a.job) THEN "page_fault"
                        ELSE IF Target(Current, a.job) \in load.faulty THEN "fault" ELSE "ok"
  BY <1>1, HeadNext DEF Outcome
<1>3. CASE Chained
  <2>1. /\ Ans # None /\ Rsp = [data |-> Ans.data, fault |-> Ans.fault, page_fault |-> FALSE]
        /\ Ans.data = data[Target(Current, a.job)]
        /\ Ans.fault = (Target(Current, a.job) \in load.faulty)
    BY <1>3, ResponseIs, AnswerIs
  <2>2. ~Refused(Current, a.job)
    BY <1>3 DEF MmuPart, ChainInv
  <2>3. OutcomeOf(Rsp) = pend[1].outcome
    BY <1>2, <2>1, <2>2 DEF OutcomeOf
  <2>4. pend[1].outcome = "ok" /\ a.job.op = "load" => Rsp.data = pend[1].data
    BY <1>1, <2>1, LoadFinds
  <2> QED BY <2>3, <2>4
<1>4. CASE ~Chained
  <2>1. u.state = "AcceptCore"
    BY <1>4 DEF Rsp, M!CoreResp, Chained
  <2>2. /\ Rsp = [data |-> u.resp.data, fault |-> u.resp.fault, page_fault |-> u.ex_page_fault]
        /\ u.ex_page_fault <=> Refused(Current, a.job)
        /\ ~u.ex_page_fault =>
              /\ u.resp.fault = (Target(Current, a.job) \in load.faulty)
              /\ pend[1].outcome = "ok" /\ a.job.op = "load" => u.resp.data = pend[1].data
    BY <2>1, ResponseIs DEF MmuPart, FoundInv
  <2> QED BY <1>2, <2>2 DEF OutcomeOf
<1> QED BY <1>3, <1>4

\* Every judgement is a good one.
LEMMA JudgedKeeps ==
    ASSUME NEW e, Known(e)
    PROVE  Judged'
<1> USE KnownFacts
<1>1. ~Early(e)
  BY NotEarly
<1>2. ~(Done(e) /\ pend = << >>)
  <2>1. Done(e) => InFlight
    BY DoneReads
  <2>2. InFlight => Len(pend) # 0
    BY HeadNext
  <2> QED BY <2>1, <2>2
<1>3. ~(a.state = "WaitResponse" /\ Rsp # None /\ OutcomeOf(Rsp) # pend[1].outcome)
  BY ResponseRight
<1>4. ~(/\ Finishes(a, Ain(e)) /\ pend[1].outcome = "ok" /\ pend[1].j.op = "load"
        /\ WbData(a, Ain(e)) # pend[1].data)
  <2> SUFFICES ASSUME Finishes(a, Ain(e)), pend[1].outcome = "ok", pend[1].j.op = "load"
               PROVE  WbData(a, Ain(e)) = pend[1].data
    OBVIOUS
  <2>1. a.state \in {"WaitResponse", "Hold"} /\ InFlight /\ pend[1].j = a.job
    BY DoneReads, HeadNext DEF InFlight
  <2>2. CASE a.state = "Hold"
    <3>1. a.hold = pend[1].data
      BY <2>1, <2>2 DEF MmuPart, HoldInv
    <3> QED BY <2>2, <3>1 DEF WbData
  <2>3. CASE a.state # "Hold"
    <3>1. Rsp # None /\ WbData(a, Ain(e)) = Rsp.data
      BY <2>1, <2>3 DEF Finishes, WbData, Ain
    <3> QED BY <2>1, <3>1, ResponseRight
  <2> QED BY <2>2, <2>3
<1> QED BY <1>1, <1>2, <1>3, <1>4, ClockIs DEF Judged

----------------------------------------------------------------------------
(***************************************************************************)
(* Between two operations: Idle and FlushTlb.                              *)
(***************************************************************************)
LEMMA RestFacts ==
    ASSUME NEW e, Known(e), Resting
    PROVE  /\ bus = None /\ Ans = None /\ Rsp = None /\ ~Taken(e) /\ Ready(e) = e.ready
           /\ a.state \in {"Idle", "WaitReqAccept", "Hold"}
           /\ Sent <=> a.state = "Hold"
           /\ Done(e) <=> Re(e) /\ InFlight
<1> USE KnownFacts
<1>1. bus = None /\ a.state # "WaitResponse"
  BY DEF MmuPart, BusyInv, Resting
<1>2. Ans = None /\ Rsp = None
  BY <1>1, AnswerIs, ResponseIs DEF Resting
<1>3. e.ready \in BOOLEAN
  BY EnvFacts
<1>4. ~Taken(e) /\ Ready(e) = e.ready
  BY <1>1, <1>2, <1>3 DEF Taken, Ready
<1> QED BY <1>1, <1>2, <1>4, DoneReads DEF AccessStates, Sent, Resting, Chained

\* The unit does not take a request.
LEMMA RestKeeps ==
    ASSUME NEW e, Known(e), Resting, u'.state \in {"Idle", "FlushTlb"},
           Off(e) # None => ~In(e).ready, Mreq(e) = None \/ ~Ready(e)
    PROVE  /\ bus' = None /\ data' = data
           /\ BusyInv' /\ ChainInv' /\ LookInv' /\ WalkInv' /\ FoundInv' /\ HoldInv' /\ StoreInv'
<1> USE KnownFacts
<1>1. /\ bus = None /\ Rsp = None /\ ~Taken(e) /\ a.state \in {"Idle", "WaitReqAccept", "Hold"}
      /\ Sent <=> a.state = "Hold"
      /\ Done(e) <=> Re(e) /\ InFlight
  BY RestFacts
<1>2. bus' = None /\ data' = data
  BY <1>1, ClockIs
<1>3. /\ a'.state \in {"Idle", "WaitReqAccept", "Hold"}
      /\ a'.state = "Hold" => ~Re(e) /\ ~Done(e) /\ a.state = "Hold" /\ a'.job = a.job /\ a'.hold = a.hold
      /\ a.state = "Hold" /\ ~Re(e) => a'.state = "Hold"
  <2>1. CASE Off(e) # None
    <3>1. a'.state = "WaitReqAccept" /\ (Re(e) \/ a.state = "WaitReqAccept")
      BY <2>1, OffNext
    <3> QED BY <1>1, <3>1
  <2>2. CASE Off(e) = None
    BY <1>1, <2>2, OffNext
  <2> QED BY <2>1, <2>2
<1>4. BusyInv' /\ ChainInv' /\ LookInv' /\ WalkInv' /\ FoundInv'
  BY <1>2, <1>3 DEF BusyInv, ChainInv, LookInv, WalkInv, FoundInv, Resting, Chained, Looking
<1>5. HoldInv'
  <2> SUFFICES ASSUME a'.state = "Hold" PROVE HoldInv'
    BY DEF HoldInv
  <2>1. a.state = "Hold" /\ ~Done(e) /\ a'.job = a.job /\ a'.hold = a.hold
    BY <1>3
  <2>2. pend'[1] = pend[1]
    BY <2>1, HeadNext DEF InFlight
  <2> QED BY <2>1, <2>2 DEF HoldInv, MmuPart
<1>6. Sent' <=> a'.state = "Hold"
  BY DEF Sent, Chained
<1>7. Sent' <=> Sent /\ ~Done(e)
  <2>1. a.state = "Hold" => InFlight
    BY DEF InFlight
  <2> QED BY <1>1, <1>3, <1>6, <2>1
<1>8. StoreInv'
  <2>1. Done(e) => Sent \/ ~Effective(pend[1])
    BY DoneSent
  <2>2. data \in [M!Page -> Values] /\ BusyInv /\ StoreInv
    BY DEF MmuTypes, MmuPart
  <2> DEFINE s == Sent /\ ~Done(e)
  <2>3. s \in BOOLEAN /\ (s <=> Sent /\ ~Done(e)) /\ (Sent' <=> s)
    BY <1>7
  <2> HIDE DEF s
  <2> QED BY <1>2, <2>1, <2>2, <2>3, StoreNext
<1> QED BY <1>2, <1>4, <1>5, <1>8

LEMMA FenceFields ==
    ASSUME NEW r \in Registers, NEW n, n = WithFence(r), NTlb \in Nat \ {0}
    PROVE  /\ n \in Registers /\ n.state = r.state /\ n.req = r.req /\ n.req_pa = r.req_pa
           /\ n.last_mmu_ena = r.last_mmu_ena /\ n.last_va = r.last_va /\ n.last_pa = r.last_pa
           /\ n.last_permission = r.last_permission /\ n.last_page_size = r.last_page_size
           /\ n.resp = r.resp /\ n.ex_page_fault = r.ex_page_fault /\ n.tlb_hit = r.tlb_hit
           /\ n.tlb_page_size = r.tlb_page_size /\ n.tlb_wdata = r.tlb_wdata
           /\ fence # "pulse" => n = r
           /\ fence = "pulse" => n.req_flush /\ n.tlb_flush_cnt = NTlb - 1 /\ n.tlb_flush_adr = 0
<1>1. CASE fence = "pulse"
  <2>1. n = [r EXCEPT !.req_flush = TRUE, !.tlb_flush_cnt = NTlb - 1, !.tlb_flush_adr = 0]
    BY <1>1 DEF WithFence
  <2>2. NTlb - 1 \in 0 .. NTlb - 1 /\ 0 \in 0 .. NTlb - 1
    OBVIOUS
  <2> QED BY <1>1, <2>1, <2>2 DEF Registers
<1>2. CASE fence # "pulse"
  BY <1>2 DEF WithFence
<1> QED BY <1>1, <1>2

\* the translation buffer and its output
LEMMA TlbStep ==
    ASSUME NEW e, Known(e)
    PROVE  /\ tlb' \in [0 .. NTlb - 1 -> {None} \cup TlbEntries] /\ rdata' \in {None} \cup TlbEntries
           /\ u.state \notin {"UpdateTlb", "FlushTlb"} => tlb' = tlb
           /\ u.state = "FlushTlb" => tlb' = [tlb EXCEPT ![u.tlb_flush_adr] = u.tlb_wdata]
           /\ u.state = "UpdateTlb" =>
                 \E i \in 0 .. NTlb - 1 : tlb' = [tlb EXCEPT ![i] = u.tlb_wdata]
           /\ u.state = "Idle" => \E i \in 0 .. NTlb - 1 : rdata' = tlb[i]
<1> USE KnownFacts
<1>1. /\ tlb \in [0 .. NTlb - 1 -> {None} \cup TlbEntries] /\ rdata \in {None} \cup TlbEntries
      /\ u.tlb_wdata \in {None} \cup TlbEntries /\ u.tlb_flush_adr \in 0 .. NTlb - 1
      /\ u.last_page_size \in M!Sizes /\ u.last_va \in M!Page
  BY DEF MmuTypes, Registers
<1> DEFINE page == IF Off(e) = None THEN M!Top ELSE Off(e).page
<1>2. tlb' = M!TlbNext(u, tlb) /\ rdata' = M!TlbRead(u, tlb, rdata, page)
  BY ClockIs
<1>3. page \in M!Page
  <2>1. M!Top \in M!Page
    BY DataAssumption DEF M!Top, M!Page
  <2>2. Off(e) # None => Off(e).page \in M!Page
    BY OffNext, JobFields
  <2> QED BY <2>1, <2>2
<1> HIDE DEF page
<1>4. ASSUME NEW va \in M!Page
      PROVE  M!TlbIndex(u, va) \in 0 .. NTlb - 1
  <2>1. va[u.last_page_size] \in 0 .. NDigits - 1
    BY <1>1 DEF M!Page
  <2>2. PICK x \in Nat : x = va[u.last_page_size]
    BY <2>1
  <2>3. x % NTlb \in 0 .. NTlb - 1
    OBVIOUS
  <2> QED BY <2>2, <2>3 DEF M!TlbIndex
<1>5. PICK i \in 0 .. NTlb - 1 : i = M!TlbIndex(u, page)
  BY <1>3, <1>4
<1>6. PICK k \in 0 .. NTlb - 1 : k = M!TlbIndex(u, u.last_va)
  BY <1>1, <1>4
<1>7. u.state \notin {"UpdateTlb", "FlushTlb"} => tlb' = tlb /\ rdata' = tlb[i]
  BY <1>2, <1>5 DEF M!TlbNext, M!TlbRead, M!TlbWrites
<1>8. u.state = "FlushTlb" => tlb' = [tlb EXCEPT ![u.tlb_flush_adr] = u.tlb_wdata] /\ rdata' = rdata
  BY <1>2 DEF M!TlbNext, M!TlbRead, M!TlbWrites
<1>9. u.state = "UpdateTlb" => tlb' = [tlb EXCEPT ![k] = u.tlb_wdata] /\ rdata' = rdata
  BY <1>2, <1>6 DEF M!TlbNext, M!TlbRead, M!TlbWrites
<1>10. u.state \notin {"UpdateTlb", "FlushTlb"} \/ u.state = "FlushTlb" \/ u.state = "UpdateTlb"
  OBVIOUS
<1>11. rdata' \in {None} \cup TlbEntries
  BY <1>1, <1>7, <1>8, <1>9, <1>10
<1>12. tlb' \in [0 .. NTlb - 1 -> {None} \cup TlbEntries]
  BY <1>1, <1>7, <1>8, <1>9, <1>10
<1> QED BY <1>7, <1>8, <1>9, <1>11, <1>12

\* The registers that Idle prepares from the request.
LEMMA IdleAsked ==
    ASSUME NEW e, Known(e), u.state = "Idle"
    PROVE  \E r \in Registers :
              /\ r.state = "Idle" /\ r.req_flush = u.req_flush /\ ~r.tlb_hit /\ ~r.ex_page_fault
              /\ r.last_page_size = u.last_page_size /\ r.last_pa = u.last_pa
              /\ r.last_permission = u.last_permission
              /\ r.tlb_flush_cnt = u.tlb_flush_cnt /\ r.tlb_flush_adr = u.tlb_flush_adr
              /\ Off(e) = None => r.last_mmu_ena = u.last_mmu_ena /\ r.last_va = u.last_va
              /\ Off(e) # None => /\ r.last_mmu_ena = Off(e).ena /\ r.last_va = Off(e).page
                                  /\ r.req = Req(e)
              /\ u' = WithFence(
                   IF u.req_flush
                   THEN [r EXCEPT !.req_flush = FALSE, !.tlb_wdata = None, !.state = "FlushTlb"]
                   ELSE IF M!Direct(u, Uin(e))
                   THEN IF Off(e) # None /\ e.ready
                        THEN [r EXCEPT !.state = IF Off(e).ena THEN "WaitRespLast" ELSE "WaitRespNoMmu"]
                        ELSE r
                   ELSE IF Off(e) # None THEN [r EXCEPT !.state = "CheckTlb"] ELSE r)
<1> USE KnownFacts
<1>1. u' = WithFence(M!Idle_Next(u, Uin(e)))
  BY NextBy
<1> DEFINE in == Uin(e)
           x == IF u.resp = None THEN None ELSE [u.resp EXCEPT !.fault = FALSE]
           fresh == [u EXCEPT !.tlb_hit = FALSE, !.ex_page_fault = FALSE, !.resp = x]
           r == IF in.req = None THEN fresh
                ELSE [fresh EXCEPT !.last_mmu_ena = in.ena, !.last_va = in.req.page, !.req = in.req]
<1>2. x \in {None} \cup Answers
  <2>1. u.resp \in {None} \cup Answers
    BY DEF Registers
  <2> QED BY <2>1 DEF Answers
<1>3. /\ in.req = Req(e) /\ in.ena = MmuEna(a, Q(e)) /\ in.mem_ready = e.ready
      /\ Off(e) = None => Req(e) = None
      /\ Off(e) # None => /\ Req(e) # None /\ in.ena = Off(e).ena /\ Req(e).page = Off(e).page
                          /\ Req(e) \in Requests /\ Off(e).page \in M!Page /\ Off(e).ena \in BOOLEAN
  BY UinFields, OffNext, RestFacts, JobFields DEF Resting
<1>4. M!Idle_Next(u, in) =
        (IF u.req_flush
         THEN [r EXCEPT !.req_flush = FALSE, !.tlb_wdata = None, !.state = "FlushTlb"]
         ELSE IF M!Direct(u, in)
         THEN IF in.req # None /\ in.mem_ready
              THEN [r EXCEPT !.state = IF in.ena THEN "WaitRespLast" ELSE "WaitRespNoMmu"]
              ELSE r
         ELSE IF in.req # None THEN [r EXCEPT !.state = "CheckTlb"] ELSE r)
  BY DEF M!Idle_Next
<1> HIDE DEF x, in
<1>5. fresh \in Registers /\ fresh.state = "Idle" /\ fresh.req_flush = u.req_flush /\ ~fresh.tlb_hit /\ ~fresh.ex_page_fault
      /\ fresh.last_page_size = u.last_page_size /\ fresh.last_pa = u.last_pa
      /\ fresh.last_permission = u.last_permission
      /\ fresh.tlb_flush_cnt = u.tlb_flush_cnt /\ fresh.tlb_flush_adr = u.tlb_flush_adr
      /\ fresh.last_mmu_ena = u.last_mmu_ena /\ fresh.last_va = u.last_va
  BY <1>2 DEF Registers
<1> HIDE DEF fresh
<1>6. CASE Off(e) = None
  <2>1. r = fresh
    BY <1>3, <1>6
  <2> HIDE DEF r
  <2>2. M!Idle_Next(u, in) =
        (IF u.req_flush
         THEN [r EXCEPT !.req_flush = FALSE, !.tlb_wdata = None, !.state = "FlushTlb"]
         ELSE IF M!Direct(u, in)
         THEN IF Off(e) # None /\ e.ready
              THEN [r EXCEPT !.state = IF Off(e).ena THEN "WaitRespLast" ELSE "WaitRespNoMmu"]
              ELSE r
         ELSE IF Off(e) # None THEN [r EXCEPT !.state = "CheckTlb"] ELSE r)
    BY <1>3, <1>4, <1>6
  <2> QED BY <1>1, <1>5, <1>6, <2>1, <2>2 DEF in
<1>7. CASE Off(e) # None
  <2>1. r = [fresh EXCEPT !.last_mmu_ena = Off(e).ena, !.last_va = Off(e).page, !.req = Req(e)]
    BY <1>3, <1>7
  <2> HIDE DEF r
  <2>4. Off(e).ena \in BOOLEAN /\ Off(e).page \in M!Page /\ Req(e) \in {None} \cup Requests
    BY <1>3, <1>7
  <2>2. /\ r \in Registers /\ r.state = "Idle" /\ r.req_flush = u.req_flush /\ ~r.tlb_hit /\ ~r.ex_page_fault
        /\ r.last_page_size = u.last_page_size /\ r.last_pa = u.last_pa
        /\ r.last_permission = u.last_permission
        /\ r.tlb_flush_cnt = u.tlb_flush_cnt /\ r.tlb_flush_adr = u.tlb_flush_adr
        /\ r.last_mmu_ena = Off(e).ena /\ r.last_va = Off(e).page /\ r.req = Req(e)
    BY <1>5, <2>1, <2>4 DEF Registers
  <2>3. M!Idle_Next(u, in) =
        (IF u.req_flush
         THEN [r EXCEPT !.req_flush = FALSE, !.tlb_wdata = None, !.state = "FlushTlb"]
         ELSE IF M!Direct(u, in)
         THEN IF Off(e) # None /\ e.ready
              THEN [r EXCEPT !.state = IF Off(e).ena THEN "WaitRespLast" ELSE "WaitRespNoMmu"]
              ELSE r
         ELSE IF Off(e) # None THEN [r EXCEPT !.state = "CheckTlb"] ELSE r)
    BY <1>3, <1>4, <1>7
  <2> QED BY <1>1, <1>7, <2>2, <2>3 DEF in
<1> QED BY <1>6, <1>7

\* A change of the tables, or its fence, that ends in a settled state was none.
LEMMA SettledNext ==
    ASSUME NEW e, Known(e), fence' = "none", fence # "pulse"
    PROVE  fence = "none" /\ Current' = Current /\ load' = load
<1> USE KnownFacts
<1>1. fence' = (IF e.remap THEN "due" ELSE IF e.fence THEN "pulse" ELSE
                IF fence = "pulse" THEN "none" ELSE fence)
  BY ClockIs
<1>2. ~e.remap /\ fence = "none"
  BY <1>1
<1> QED BY <1>2, FenceKeeps

\* Idle lets a translated request through: it is one to the last page.
LEMMA DirectFacts ==
    ASSUME NEW e, Known(e), u.state = "Idle", M!Direct(u, Uin(e)), Off(e) # None
    PROVE  /\ ~u.req_flush /\ fence = "none"
           /\ Off(e).ena => /\ LastRight(Current, load, u) /\ u.last_mmu_ena
                            /\ M!SamePage(u.last_page_size, Off(e).page, u.last_va)
<1> USE KnownFacts
<1>1. /\ Uin(e).req = Req(e) /\ Uin(e).ena = Off(e).ena /\ Req(e).page = Off(e).page
      /\ Off(e) \in load.jobs /\ Off(e).op # "flush"
  BY UinFields, OffNext
<1>2. ~u.req_flush /\ fence = "none"
  BY Calm DEF M!Direct
<1>3. ASSUME Off(e).ena
      PROVE  /\ LastRight(Current, load, u) /\ u.last_mmu_ena
             /\ M!SamePage(u.last_page_size, Off(e).page, u.last_va)
  <2>1. u.last_mmu_ena /\ M!SamePage(u.last_page_size, Off(e).page, u.last_va)
    BY <1>1, <1>3 DEF M!Direct, M!DirectLast, M!LastValid
  <2>2. Off(e) \in Translated(load)
    BY <1>1, <1>3 DEF Translated
  <2> QED BY <1>2, <2>1, <2>2 DEF MmuPart, LastInv, Settled
<1> QED BY <1>2, <1>3

\* Idle takes no request.
LEMMA IdleRests ==
    ASSUME NEW e, Known(e), u.state = "Idle",
           \/ u.req_flush \/ Off(e) = None \/ (M!Direct(u, Uin(e)) /\ ~e.ready)
    PROVE  MmuPart'
<1> USE KnownFacts
<1>1. Resting
  BY DEF Resting
<1>2. PICK r \in Registers :
              /\ r.state = "Idle" /\ r.req_flush = u.req_flush /\ ~r.tlb_hit /\ ~r.ex_page_fault
              /\ r.last_page_size = u.last_page_size /\ r.last_pa = u.last_pa
              /\ r.last_permission = u.last_permission
              /\ r.tlb_flush_cnt = u.tlb_flush_cnt /\ r.tlb_flush_adr = u.tlb_flush_adr
              /\ Off(e) = None => r.last_mmu_ena = u.last_mmu_ena /\ r.last_va = u.last_va
              /\ Off(e) # None => /\ r.last_mmu_ena = Off(e).ena /\ r.last_va = Off(e).page
                                  /\ r.req = Req(e)
              /\ u' = WithFence(
                   IF u.req_flush
                   THEN [r EXCEPT !.req_flush = FALSE, !.tlb_wdata = None, !.state = "FlushTlb"]
                   ELSE IF M!Direct(u, Uin(e))
                   THEN IF Off(e) # None /\ e.ready
                        THEN [r EXCEPT !.state = IF Off(e).ena THEN "WaitRespLast" ELSE "WaitRespNoMmu"]
                        ELSE r
                   ELSE IF Off(e) # None THEN [r EXCEPT !.state = "CheckTlb"] ELSE r)
  BY IdleAsked
<1> DEFINE x == IF u.req_flush
                THEN [r EXCEPT !.req_flush = FALSE, !.tlb_wdata = None, !.state = "FlushTlb"] ELSE r
<1>3. u' = WithFence(x)
  BY <1>2 DEF M!Direct
<1>4. /\ x \in Registers /\ x.last_page_size = u.last_page_size /\ x.last_pa = u.last_pa
      /\ x.last_permission = u.last_permission /\ x.last_va = r.last_va /\ x.last_mmu_ena = r.last_mmu_ena
      /\ x.tlb_flush_cnt = u.tlb_flush_cnt /\ x.tlb_flush_adr = u.tlb_flush_adr
      /\ u.req_flush => x.state = "FlushTlb" /\ x.tlb_wdata = None /\ ~x.req_flush
      /\ ~u.req_flush => x.state = "Idle" /\ ~x.req_flush
  BY <1>2 DEF Registers, M!MmuStates
<1> HIDE DEF x
<1>5. /\ u' \in Registers /\ u'.state = x.state /\ u'.last_page_size = u.last_page_size
      /\ u'.last_pa = u.last_pa /\ u'.last_permission = u.last_permission /\ u'.last_va = r.last_va
      /\ u'.last_mmu_ena = r.last_mmu_ena /\ u'.tlb_wdata = x.tlb_wdata
      /\ fence # "pulse" => u' = x
      /\ fence = "pulse" => u'.req_flush /\ u'.tlb_flush_cnt = NTlb - 1 /\ u'.tlb_flush_adr = 0
  BY <1>3, <1>4, FenceFields
<1>6. u'.state \in {"Idle", "FlushTlb"}
  BY <1>4, <1>5
<1>7. /\ Uin(e).req = Req(e) /\ Uin(e).mem_ready = e.ready /\ Ready(e) = e.ready
      /\ In(e).ready = M!CoreReqReady(u, Uin(e))
      /\ Off(e) = None => Req(e) = None
  BY <1>1, UinFields, RestFacts, OffNext
<1>8. Off(e) # None => ~In(e).ready
  BY <1>7 DEF M!CoreReqReady, M!Connected, M!Chains, M!Direct
<1>9. Mreq(e) = None \/ ~Ready(e)
  BY <1>7 DEF Mreq, M!MemReq, M!Connected, M!Chains, M!Direct
<1>10. /\ bus' = None /\ data' = data
       /\ BusyInv' /\ ChainInv' /\ LookInv' /\ WalkInv' /\ FoundInv' /\ HoldInv' /\ StoreInv'
  BY <1>1, <1>6, <1>8, <1>9, RestKeeps
<1>11. MmuTypes'
  <2>1. data \in [M!Page -> Values]
    BY DEF MmuTypes
  <2> QED BY <1>5, <1>10, <2>1, TlbStep DEF MmuTypes
<1>12. tlb' = tlb
  BY TlbStep
<1>13. /\ u.last_page_size \in LastSizes(load) /\ u.tlb_flush_adr + u.tlb_flush_cnt = NTlb - 1
       /\ Settled => \A i \in 0 .. NTlb - 1 : tlb[i] = None \/ GoodEntry(Current, load, u.last_page_size, tlb[i])
       /\ Clearing => \A i \in 0 .. NTlb - 1 : i < u.tlb_flush_adr => tlb[i] = None
  BY DEF MmuPart, LastInv, TlbInv
<1>14. ASSUME Settled', u'.state = "Idle"
       PROVE  Settled /\ Current' = Current /\ load' = load
  <2>1. fence' = "none" /\ ~u'.req_flush
    BY <1>14 DEF Settled
  <2>2. fence # "pulse"
    BY <1>5, <2>1
  <2>3. fence = "none" /\ Current' = Current /\ load' = load
    BY <2>1, <2>2, SettledNext
  <2>4. ~u.req_flush
    BY <1>4, <1>5, <1>14
  <2> QED BY <2>3, <2>4 DEF Settled
<1>15. LastInv'
  <2>1. load' = load
    BY ClockIs
  <2>2. ASSUME u'.state = "Idle", Settled', u'.last_mmu_ena
        PROVE  \/ LastRight(Current, load, u')
               \/ \A k \in Translated(load) : ~M!SamePage(u'.last_page_size, k.page, u'.last_va)
    <3>1. Settled
      BY <1>14, <2>2
    <3>2. CASE Off(e) = None
      <4>1. u'.last_va = u.last_va /\ u.last_mmu_ena
        BY <1>2, <1>5, <2>2, <3>2
      <4>2. LastRight(Current, load, u) => LastRight(Current, load, u')
        BY <1>5, <4>1, LastMoves, SamePageLaws
      <4> QED BY <1>5, <3>1, <4>1, <4>2 DEF MmuPart, LastInv
    <3>3. CASE Off(e) # None
      <4>1. M!Direct(u, Uin(e)) /\ Off(e).ena /\ u'.last_va = Off(e).page
        BY <1>2, <1>5, <2>2, <3>1, <3>3 DEF Settled
      <4>2. LastRight(Current, load, u) /\ M!SamePage(u.last_page_size, Off(e).page, u.last_va)
        BY <3>3, <4>1, DirectFacts
      <4>3. u.last_va \in M!Page /\ Off(e) \in load.jobs /\ Off(e).op # "flush"
        BY <3>3, OffNext DEF Registers
      <4>4. Leaf(Current, Off(e).page) = Leaf(Current, u.last_va)
        BY <4>2, <4>3, LastAccess
      <4> QED BY <1>5, <4>1, <4>2, <4>4, LastMoves
    <3> QED BY <3>2, <3>3
  <2>3. Settled' /\ u'.state = "Idle" => Current' = Current
    BY <1>14
  <2> QED BY <1>5, <1>13, <2>1, <2>2, <2>3 DEF LastInv
<1>16. TlbInv'
  <2>1. ASSUME Settled', u'.state # "FlushTlb", NEW i \in 0 .. NTlb - 1
        PROVE  tlb'[i] = None \/ GoodEntry(Current', load', u'.last_page_size, tlb'[i])
    BY <1>5, <1>6, <1>12, <1>13, <1>14, <2>1
  <2>2. u'.state = "FlushTlb" => u'.tlb_wdata = None
    BY <1>4, <1>5
  <2>3. u'.tlb_flush_adr + u'.tlb_flush_cnt = NTlb - 1
    <3>1. CASE fence = "pulse"
      <4>1. 0 + (NTlb - 1) = NTlb - 1
        OBVIOUS
      <4> QED BY <1>5, <3>1, <4>1
    <3>2. CASE fence # "pulse"
      BY <1>4, <1>5, <1>13, <3>2
    <3> QED BY <3>1, <3>2
  <2>4. ASSUME Clearing', NEW i \in 0 .. NTlb - 1, i < u'.tlb_flush_adr
        PROVE  tlb'[i] = None
    <3>1. fence # "pulse"
      BY <1>5, <2>4
    <3>2. fence' = "none" /\ (u'.state = "FlushTlb" \/ u'.req_flush)
      BY <2>4 DEF Clearing
    <3>3. fence = "none" /\ u.req_flush
      BY <1>4, <1>5, <3>1, <3>2, SettledNext
    <3>4. Clearing /\ u'.tlb_flush_adr = u.tlb_flush_adr
      BY <1>4, <1>5, <3>1, <3>3 DEF Clearing
    <3> QED BY <1>12, <1>13, <2>4, <3>4
  <2> QED BY <2>1, <2>2, <2>3, <2>4 DEF TlbInv
<1> QED BY <1>10, <1>11, <1>15, <1>16 DEF MmuPart

\* the two counters of FlushTlb
LEMMA CountStep ==
    ASSUME NEW n \in Nat \ {0}, NEW c \in 0 .. n - 1, NEW d \in 0 .. n - 1, d + c = n - 1
    PROVE  /\ c # 0 => c - 1 \in 0 .. n - 1 /\ (d + 1) % n = d + 1 /\ d + 1 \in 0 .. n - 1
           /\ c = 0 => d = n - 1
           /\ (d + 1) + (c - 1) = n - 1
OBVIOUS

\* FlushTlb clears one entry in a clock.
LEMMA FlushRests ==
    ASSUME NEW e, Known(e), u.state = "FlushTlb"
    PROVE  MmuPart'
<1> USE KnownFacts
<1>1. Resting
  BY DEF Resting
<1>2. u' = WithFence(M!FlushTlb_Next(u))
  BY NextBy
<1> DEFINE c == u.tlb_flush_cnt
           d == u.tlb_flush_adr
           x == M!FlushTlb_Next(u)
<1>3. /\ c \in 0 .. NTlb - 1 /\ d \in 0 .. NTlb - 1 /\ d + c = NTlb - 1
      /\ u.tlb_wdata = None /\ tlb' = [tlb EXCEPT ![d] = None]
      /\ u.last_page_size \in LastSizes(load)
      /\ tlb \in [0 .. NTlb - 1 -> {None} \cup TlbEntries]
      /\ fence = "none" => \A i \in 0 .. NTlb - 1 : i < d => tlb[i] = None
  BY TlbStep DEF Registers, MmuPart, MmuTypes, TlbInv, LastInv, Clearing
<1>4. M!Top \in M!Page
  BY DataAssumption DEF M!Top, M!Page
<1>5. /\ c # 0 => c - 1 \in 0 .. NTlb - 1 /\ (d + 1) % NTlb = d + 1 /\ d + 1 \in 0 .. NTlb - 1
      /\ c = 0 => d = NTlb - 1
      /\ (d + 1) + (c - 1) = NTlb - 1
  BY <1>3, CountStep
<1>6. x = IF c = 0 THEN [u EXCEPT !.last_va = M!Top, !.last_pa = M!Top, !.last_mmu_ena = FALSE, !.state = "Idle"]
          ELSE [u EXCEPT !.last_va = M!Top, !.last_pa = M!Top, !.last_mmu_ena = FALSE,
                         !.tlb_flush_cnt = c - 1, !.tlb_flush_adr = d + 1]
  BY <1>5 DEF M!FlushTlb_Next, Registers
<1> HIDE DEF c, d, x
<1>7. /\ x \in Registers /\ x.last_page_size = u.last_page_size /\ ~x.last_mmu_ena
      /\ x.req_flush = u.req_flush /\ x.tlb_wdata = None
      /\ c = 0 => x.state = "Idle" /\ x.tlb_flush_adr = d /\ x.tlb_flush_cnt = c
      /\ c # 0 => x.state = "FlushTlb" /\ x.tlb_flush_adr = d + 1 /\ x.tlb_flush_cnt = c - 1
  <2>1. CASE c = 0
    BY <1>3, <1>4, <1>6, <2>1 DEF Registers, M!MmuStates, c, d
  <2>2. CASE c # 0
    BY <1>3, <1>4, <1>5, <1>6, <2>2 DEF Registers, M!MmuStates
  <2> QED BY <2>1, <2>2
<1>8. /\ u' \in Registers /\ u'.state = x.state /\ u'.last_page_size = u.last_page_size
      /\ ~u'.last_mmu_ena /\ u'.tlb_wdata = None
      /\ fence # "pulse" => u' = x
      /\ fence = "pulse" => u'.req_flush /\ u'.tlb_flush_cnt = NTlb - 1 /\ u'.tlb_flush_adr = 0
  BY <1>2, <1>7, FenceFields DEF x
<1>9. u'.state \in {"Idle", "FlushTlb"}
  BY <1>7, <1>8
<1>10. ~In(e).ready
  BY UinFields DEF M!CoreReqReady, M!Connected, M!Chains
<1>11. Mreq(e) = None
  BY DEF Mreq, M!MemReq, M!Connected, M!Chains
<1>12. /\ bus' = None /\ data' = data
       /\ BusyInv' /\ ChainInv' /\ LookInv' /\ WalkInv' /\ FoundInv' /\ HoldInv' /\ StoreInv'
  BY <1>1, <1>9, <1>10, <1>11, RestKeeps
<1>13. MmuTypes'
  <2>1. data \in [M!Page -> Values]
    BY DEF MmuTypes
  <2> QED BY <1>8, <1>12, <2>1, TlbStep DEF MmuTypes
<1>14. LastInv'
  <2>1. load' = load
    BY ClockIs
  <2> QED BY <1>3, <1>8, <2>1 DEF LastInv
<1>15. TlbInv'
  <2>1. ASSUME fence # "pulse", fence' = "none", NEW i \in 0 .. NTlb - 1, i <= d
        PROVE  tlb'[i] = None
    <3>1. fence = "none"
      BY <2>1, SettledNext
    <3>2. i = d \/ i < d
      BY <1>3, <2>1
    <3> QED BY <1>3, <3>1, <3>2
  <2>2. ASSUME Settled', u'.state # "FlushTlb", NEW i \in 0 .. NTlb - 1
        PROVE  tlb'[i] = None \/ GoodEntry(Current', load', u'.last_page_size, tlb'[i])
    <3>1. fence' = "none" /\ fence # "pulse"
      BY <1>8, <2>2 DEF Settled
    <3>2. i <= d
      BY <1>3, <1>5, <1>7, <1>8, <2>2
    <3> QED BY <2>1, <3>1, <3>2
  <2>3. u'.tlb_flush_adr + u'.tlb_flush_cnt = NTlb - 1
    <3>1. CASE fence = "pulse"
      <4>1. 0 + (NTlb - 1) = NTlb - 1
        OBVIOUS
      <4> QED BY <1>8, <3>1, <4>1
    <3>2. CASE fence # "pulse"
      BY <1>3, <1>5, <1>7, <1>8, <3>2
    <3> QED BY <3>1, <3>2
  <2>4. ASSUME Clearing', NEW i \in 0 .. NTlb - 1, i < u'.tlb_flush_adr
        PROVE  tlb'[i] = None
    <3>1. fence # "pulse" /\ fence' = "none"
      BY <1>8, <2>4 DEF Clearing
    <3>2. u'.tlb_flush_adr \in {d, d + 1}
      BY <1>7, <1>8, <3>1
    <3>3. i <= d
      BY <1>3, <2>4, <3>2
    <3> QED BY <2>1, <3>1, <3>3
  <2> QED BY <1>8, <2>2, <2>3, <2>4 DEF TlbInv
<1> QED BY <1>12, <1>13, <1>14, <1>15 DEF MmuPart

----------------------------------------------------------------------------
(***************************************************************************)
(* A request reaches the memory directly.                                  *)
(***************************************************************************)
\* the operation that is offered has not been sent
LEMMA OffFresh ==
    ASSUME NEW e, Known(e), Off(e) # None
    PROVE  ~(Sent /\ ~Done(e))
<1> USE KnownFacts
<1>1. CASE Re(e)
  <2>1. InFlight => Done(e)
    BY <1>1, DoneReads
  <2>2. ~InFlight => ~Sent
    BY DEF InFlight, Sent, MmuPart, BusyInv, Resting, Chained
  <2> QED BY <2>1, <2>2
<1>2. CASE a.state = "WaitReqAccept"
  BY <1>2 DEF Sent, MmuPart, BusyInv, Resting, Chained
<1> QED BY <1>1, <1>2, OffNext

\* The data of the memory after the operation j at the head is sent.
LEMMA SentData ==
    ASSUME NEW e, Known(e), NEW j \in load.jobs, j \in Jobs, j.op # "flush", ~Refused(Current, j),
           Mreq(e) = [at |-> M!DataAt(Target(Current, j)), write |-> j.op = "store", wdata |-> j.wdata],
           Ready(e), InFlight', a'.job = j, ~(Sent /\ ~Done(e)), Sent'
    PROVE  /\ bus' = [at |-> M!DataAt(Target(Current, j)), write |-> j.op = "store", resp |-> FALSE]
           /\ bus' # None /\ bus' \in [at : Addresses, write : BOOLEAN, resp : BOOLEAN]
           /\ data' \in [M!Page -> Values] /\ StoreInv'
<1> USE KnownFacts
<1> DEFINE T == Target(Current, j)
<1>1. T \in M!Page /\ j.wdata \in Values /\ data \in [M!Page -> Values]
  BY TargetType, JobFields DEF MmuTypes
<1>2. Mreq(e).at = M!DataAt(T) /\ Mreq(e).write = (j.op = "store") /\ Mreq(e).wdata = j.wdata
  OBVIOUS
<1>3. Mreq(e) # None
  <2>1. M!DataAt(T) \in Addresses
    BY <1>1 DEF M!DataAt, Addresses
  <2>2. Mreq(e) \in [at : Addresses, write : BOOLEAN, wdata : Values]
    BY <1>1, <2>1
  <2> QED BY <2>2, NoneAssumption DEF Addresses
<1>4. bus' = [at |-> M!DataAt(T), write |-> j.op = "store", resp |-> FALSE]
  BY <1>2, <1>3, ClockIs
<1>5. bus' \in [at : Addresses, write : BOOLEAN, resp : BOOLEAN]
  BY <1>1, <1>4 DEF M!DataAt, Addresses
<1>6. None \notin [at : Addresses, write : BOOLEAN, resp : BOOLEAN]
  BY NoneAssumption DEF Addresses
<1>7. data' = IF j.op = "store" /\ T \notin load.faulty THEN [data EXCEPT ![T] = j.wdata] ELSE data
  <2>1. M!DataAt(T).page = T
    BY DEF M!DataAt
  <2>2. data' = IF Mreq(e) # None /\ Ready(e) /\ Mreq(e).write /\ Mreq(e).at.page \notin load.faulty
                THEN [data EXCEPT ![Mreq(e).at.page] = Mreq(e).wdata] ELSE data
    BY ClockIs
  <2>3. Mreq(e).at.page = T
    BY <1>2, <2>1
  <2> HIDE DEF T
  <2>4. Mreq(e).write <=> j.op = "store"
    BY <1>2
  <2>5. CASE j.op = "store" /\ T \notin load.faulty
    BY <1>2, <1>3, <2>2, <2>3, <2>4, <2>5
  <2>6. CASE ~(j.op = "store" /\ T \notin load.faulty)
    BY <2>2, <2>3, <2>4, <2>6
  <2> QED BY <2>5, <2>6
<1>8. Len(pend') \in Nat \ {0} /\ pend'[1].j = j /\ pend'[1].outcome = Outcome(Current, load, j)
  BY HeadNext
<1>9. Effective(pend'[1]) <=> j.op = "store" /\ T \notin load.faulty
  BY <1>8 DEF Effective, Outcome
<1>10. data' = IF Effective(pend'[1])
               THEN [data EXCEPT ![Place(Current, pend'[1])] = pend'[1].j.wdata] ELSE data
  BY <1>7, <1>8, <1>9 DEF Place
<1>11. StoreInv'
  <2>1. Done(e) => Sent \/ ~Effective(pend[1])
    BY DoneSent
  <2> DEFINE s == FALSE
  <2>2. s \in BOOLEAN /\ (s <=> Sent /\ ~Done(e)) /\ ~s
    OBVIOUS
  <2>3. Len(pend') # 0 /\ BusyInv /\ StoreInv
    BY <1>8 DEF MmuPart
  <2> HIDE DEF s
  <2> QED BY <1>1, <1>10, <2>1, <2>2, <2>3, StoreNext
<1>12. data' \in [M!Page -> Values]
  BY <1>1, <1>7
<1> QED BY <1>4, <1>5, <1>6, <1>11, <1>12

\* The translation buffer is left as it is, or gets a good entry.
LEMMA TlbKeeps ==
    ASSUME NEW e, Known(e), fence = "none", fence' = "none", ~u'.req_flush, u'.state # "FlushTlb",
           u'.tlb_flush_adr = u.tlb_flush_adr, u'.tlb_flush_cnt = u.tlb_flush_cnt,
           \A i \in 0 .. NTlb - 1 :
               tlb'[i] = None \/ GoodEntry(Current, load, u'.last_page_size, tlb'[i]),
           Current' = Current
    PROVE  TlbInv'
<1> USE KnownFacts
<1>1. u.tlb_flush_adr + u.tlb_flush_cnt = NTlb - 1 /\ load' = load
  BY ClockIs DEF MmuPart, TlbInv
<1>2. ~Clearing'
  BY DEF Clearing
<1> QED BY <1>1, <1>2 DEF TlbInv

\* The entries are good for the page size that stays.
LEMMA TlbSame ==
    ASSUME NEW e, Known(e), Settled, u.state \notin {"FlushTlb", "UpdateTlb"},
           u'.last_page_size = u.last_page_size
    PROVE  \A i \in 0 .. NTlb - 1 :
               tlb'[i] = None \/ GoodEntry(Current, load, u'.last_page_size, tlb'[i])
<1> USE KnownFacts
<1>1. tlb' = tlb
  BY TlbStep
<1>2. TlbInv
  BY DEF MmuPart
<1>3. \A i \in 0 .. NTlb - 1 : tlb[i] = None \/ GoodEntry(Current, load, u.last_page_size, tlb[i])
  BY <1>2 DEF TlbInv
<1> QED BY <1>1, <1>3

\* A direct access is sent.
LEMMA SendKeeps ==
    ASSUME NEW e, Known(e), Off(e) # None, In(e).ready, Ready(e), ~Refused(Current, Off(e)),
           Mreq(e) = [at |-> M!DataAt(Target(Current, Off(e))), write |-> Off(e).op = "store",
                      wdata |-> Off(e).wdata],
           u.state \in {"Idle", "WaitRespNoMmu", "WaitRespLast"}, Settled,
           u' \in Registers, u'.state \in {"WaitRespNoMmu", "WaitRespLast"}, ~u'.req_flush,
           u'.last_page_size = u.last_page_size,
           u'.tlb_flush_adr = u.tlb_flush_adr, u'.tlb_flush_cnt = u.tlb_flush_cnt,
           u'.state = "WaitRespNoMmu" => ~u'.last_mmu_ena,
           u'.state = "WaitRespLast" =>
               u'.last_va = Off(e).page /\ u'.last_mmu_ena /\ LastRight(Current, load, u')
    PROVE  MmuPart'
<1> USE KnownFacts
<1>1. fence = "none" /\ fence' = "none" /\ Current' = Current /\ load' = load
  BY Calm
<1>2. /\ Off(e) \in load.jobs /\ Off(e) \in Jobs /\ Off(e).op # "flush" /\ a'.job = Off(e) /\ InFlight'
      /\ a'.state = "WaitResponse"
  BY OffNext
<1>3. ~(Sent /\ ~Done(e)) /\ Sent'
  BY OffFresh DEF Sent, Chained
<1>4. /\ bus' = [at |-> M!DataAt(Target(Current, Off(e))), write |-> Off(e).op = "store", resp |-> FALSE]
      /\ bus' # None /\ bus' \in [at : Addresses, write : BOOLEAN, resp : BOOLEAN]
      /\ data' \in [M!Page -> Values] /\ StoreInv'
  BY <1>2, <1>3, SentData
<1>5. MmuTypes'
  BY <1>4, TlbStep DEF MmuTypes
<1>6. BusyInv'
  BY <1>1, <1>2, <1>4 DEF BusyInv, Resting, Settled
<1>7. ChainInv'
  BY <1>1, <1>2, <1>4 DEF ChainInv
<1>8. LookInv' /\ WalkInv' /\ FoundInv' /\ HoldInv'
  BY <1>2 DEF LookInv, WalkInv, FoundInv, HoldInv, Looking, Chained
<1>9. LastInv'
  BY <1>1 DEF LastInv, MmuPart
<1>10. TlbInv'
  BY <1>1, TlbKeeps, TlbSame
<1> QED BY <1>4, <1>5, <1>6, <1>7, <1>8, <1>9, <1>10 DEF MmuPart

\* Idle sends a request: translation is off, or the page is the last one.
LEMMA IdleSends ==
    ASSUME NEW e, Known(e), u.state = "Idle", Off(e) # None, M!Direct(u, Uin(e)), e.ready
    PROVE  MmuPart'
<1> USE KnownFacts
<1>1. ~u.req_flush /\ fence = "none" /\ Settled
  BY DirectFacts DEF Settled
<1>2. PICK r \in Registers :
              /\ r.state = "Idle" /\ r.req_flush = u.req_flush
              /\ r.last_page_size = u.last_page_size /\ r.last_pa = u.last_pa
              /\ r.last_permission = u.last_permission
              /\ r.tlb_flush_cnt = u.tlb_flush_cnt /\ r.tlb_flush_adr = u.tlb_flush_adr
              /\ r.last_mmu_ena = Off(e).ena /\ r.last_va = Off(e).page
              /\ u' = WithFence(
                        [r EXCEPT !.state = IF Off(e).ena THEN "WaitRespLast" ELSE "WaitRespNoMmu"])
  BY <1>1, IdleAsked
<1>3. u' = [r EXCEPT !.state = IF Off(e).ena THEN "WaitRespLast" ELSE "WaitRespNoMmu"]
  BY <1>1, <1>2 DEF WithFence
<1>4. /\ u' \in Registers /\ u'.state = (IF Off(e).ena THEN "WaitRespLast" ELSE "WaitRespNoMmu")
      /\ ~u'.req_flush /\ u'.last_page_size = u.last_page_size /\ u'.last_pa = u.last_pa
      /\ u'.last_permission = u.last_permission
      /\ u'.tlb_flush_cnt = u.tlb_flush_cnt /\ u'.tlb_flush_adr = u.tlb_flush_adr
      /\ u'.last_mmu_ena = Off(e).ena /\ u'.last_va = Off(e).page
  BY <1>1, <1>2, <1>3 DEF Registers, M!MmuStates
<1>5. /\ Off(e) \in load.jobs /\ Off(e) \in Jobs /\ Off(e).op # "flush"
      /\ Req(e) # None /\ Req(e).page = Off(e).page /\ Req(e).write = (Off(e).op = "store")
      /\ Req(e).wdata = Off(e).wdata /\ Off(e).ena \in BOOLEAN /\ Off(e).page \in M!Page
  BY OffNext, JobFields
<1>6. /\ Uin(e).req = Req(e) /\ Uin(e).ena = Off(e).ena /\ Uin(e).mem_ready = Ready(e)
      /\ Ready(e) /\ In(e).ready = M!CoreReqReady(u, Uin(e))
  BY UinFields, OffNext, RestFacts DEF Resting
<1>7. M!Connected(u, Uin(e)) /\ In(e).ready
  BY <1>6 DEF M!Connected, M!CoreReqReady
<1>8. Off(e).ena => /\ LastRight(Current, load, u)
                    /\ M!SamePage(u.last_page_size, Off(e).page, u.last_va)
  BY DirectFacts
<1>9. u.last_va \in M!Page
  BY DEF Registers
<1>10. ~Refused(Current, Off(e)) /\ Target(Current, Off(e)) =
          (IF Off(e).ena THEN M!Within(u.last_page_size, u.last_pa, Off(e).page) ELSE Off(e).page)
  <2>1. CASE Off(e).ena
    BY <1>5, <1>8, <1>9, <2>1, LastAccess
  <2>2. CASE ~Off(e).ena
    BY <2>2 DEF Refused, Target
  <2> QED BY <1>5, <2>1, <2>2
<1>11. Mreq(e) = [at |-> M!DataAt(Target(Current, Off(e))), write |-> Off(e).op = "store",
                  wdata |-> Off(e).wdata]
  BY <1>5, <1>6, <1>7, <1>10 DEF Mreq, M!MemReq, M!LastPaReq
<1>12. u'.state = "WaitRespLast" =>
          u'.last_va = Off(e).page /\ u'.last_mmu_ena /\ LastRight(Current, load, u')
  <2> SUFFICES ASSUME Off(e).ena
               PROVE  LastRight(Current, load, u')
    BY <1>4
  <2>1. Leaf(Current, Off(e).page) = Leaf(Current, u.last_va)
    BY <1>5, <1>8, <1>9, LastAccess
  <2> QED BY <1>4, <1>8, <2>1, LastMoves
<1>13. u'.state = "WaitRespNoMmu" => ~u'.last_mmu_ena
  BY <1>4
<1>14. u'.state \in {"WaitRespNoMmu", "WaitRespLast"}
  BY <1>4
<1> QED BY <1>1, <1>4, <1>6, <1>7, <1>10, <1>11, <1>12, <1>13, <1>14, SendKeeps

\* A clock in which nothing is sent.
LEMMA Unsent ==
    ASSUME NEW e, Known(e), data' = data, Sent' <=> Sent /\ ~Done(e)
    PROVE  StoreInv' /\ data' \in [M!Page -> Values]
<1> USE KnownFacts
<1>1. Done(e) => Sent \/ ~Effective(pend[1])
  BY DoneSent
<1>2. data \in [M!Page -> Values] /\ BusyInv /\ StoreInv
  BY DEF MmuTypes, MmuPart
<1> DEFINE s == Sent /\ ~Done(e)
<1>3. s \in BOOLEAN /\ (s <=> Sent /\ ~Done(e)) /\ (Sent' <=> s)
  OBVIOUS
<1> HIDE DEF s
<1> QED BY <1>1, <1>2, <1>3, StoreNext

\* Idle takes a request of another page: the translation buffer is asked.
LEMMA IdleLooks ==
    ASSUME NEW e, Known(e), u.state = "Idle", Off(e) # None, ~u.req_flush, ~M!Direct(u, Uin(e))
    PROVE  MmuPart'
<1> USE KnownFacts
<1>1. fence = "none" /\ fence' = "none" /\ Current' = Current /\ load' = load /\ Settled
  BY Calm DEF Settled
<1>2. PICK r \in Registers :
              /\ r.state = "Idle" /\ r.req_flush = u.req_flush /\ ~r.tlb_hit /\ ~r.ex_page_fault
              /\ r.last_page_size = u.last_page_size
              /\ r.tlb_flush_cnt = u.tlb_flush_cnt /\ r.tlb_flush_adr = u.tlb_flush_adr
              /\ r.last_mmu_ena = Off(e).ena /\ r.last_va = Off(e).page /\ r.req = Req(e)
              /\ u' = WithFence([r EXCEPT !.state = "CheckTlb"])
  BY IdleAsked
<1>3. u' = [r EXCEPT !.state = "CheckTlb"]
  BY <1>1, <1>2 DEF WithFence
<1>4. /\ u' \in Registers /\ u'.state = "CheckTlb" /\ ~u'.req_flush /\ ~u'.tlb_hit /\ ~u'.ex_page_fault
      /\ u'.last_page_size = u.last_page_size
      /\ u'.tlb_flush_cnt = u.tlb_flush_cnt /\ u'.tlb_flush_adr = u.tlb_flush_adr
      /\ u'.last_mmu_ena = Off(e).ena /\ u'.last_va = Off(e).page /\ u'.req = Req(e)
  BY <1>2, <1>3 DEF Registers, M!MmuStates
<1>5. /\ Uin(e).ena = Off(e).ena /\ Off(e).ena \in BOOLEAN
      /\ In(e).ready = M!CoreReqReady(u, Uin(e)) /\ bus = None /\ ~Taken(e)
      /\ Req(e) = [page |-> Off(e).page, write |-> Off(e).op = "store", wdata |-> Off(e).wdata]
  BY UinFields, OffNext, RestFacts, JobFields DEF Resting
<1>6. Off(e).ena
  BY <1>5 DEF M!Direct
<1>7. In(e).ready /\ ~M!Connected(u, Uin(e))
  BY <1>5 DEF M!CoreReqReady, M!Connected, M!Chains
<1>8. Mreq(e) = None
  BY <1>7 DEF Mreq, M!MemReq
<1>9. bus' = None /\ data' = data
  BY <1>5, <1>8, ClockIs
<1>10. a'.job = Off(e) /\ a'.state = "WaitResponse"
  BY <1>7, OffNext
<1>11. StoreInv' /\ data' \in [M!Page -> Values]
  <2>1. ~(Sent /\ ~Done(e)) /\ ~Sent'
    BY <1>4, <1>10, OffFresh DEF Sent, Chained
  <2> QED BY <1>9, <2>1, Unsent
<1>12. MmuTypes'
  BY <1>4, <1>9, <1>11, TlbStep DEF MmuTypes
<1>13. BusyInv' /\ ChainInv' /\ WalkInv' /\ FoundInv' /\ HoldInv'
  BY <1>1, <1>4, <1>9, <1>10
     DEF BusyInv, ChainInv, WalkInv, FoundInv, HoldInv, Resting, Chained, Settled
<1>14. rdata' = None \/ GoodEntry(Current, load, u.last_page_size, rdata')
  <2>1. PICK i \in 0 .. NTlb - 1 : rdata' = tlb[i]
    BY TlbStep
  <2> QED BY <1>1, <2>1 DEF MmuPart, TlbInv
<1>15. LookInv'
  BY <1>1, <1>4, <1>5, <1>6, <1>10, <1>14 DEF LookInv
<1>16. LastInv'
  BY <1>1, <1>4 DEF LastInv, MmuPart
<1>17. TlbInv'
  BY <1>1, <1>4, TlbKeeps, TlbSame
<1> QED BY <1>11, <1>12, <1>13, <1>15, <1>16, <1>17 DEF MmuPart

----------------------------------------------------------------------------
(***************************************************************************)
(* An operation is with the unit.                                          *)
(***************************************************************************)
LEMMA BusyFacts ==
    ASSUME NEW e, Known(e), ~Resting
    PROVE  /\ a.state = "WaitResponse" /\ InFlight /\ a.job \in load.jobs /\ a.job \in Jobs
           /\ a.job.op # "flush" /\ a.job.page \in M!Page /\ a.job.ena \in BOOLEAN
           /\ Settled /\ fence = "none" /\ fence' = "none" /\ ~u.req_flush
           /\ Current' = Current /\ load' = load
           /\ \A n : WithFence(n) = n
           /\ bus # None <=> Chained \/ u.state = "WaitResp"
           /\ Rsp = None => /\ Off(e) = None /\ Req(e) = None /\ ~Done(e) /\ pend'[1] = pend[1]
                            /\ a'.state = "WaitResponse" /\ a'.job = a.job
<1> USE KnownFacts
<1>1. a.state = "WaitResponse" /\ Settled /\ (bus # None <=> Chained \/ u.state = "WaitResp")
  BY DEF MmuPart, BusyInv, Chained
<1>2. InFlight /\ a.job \in load.jobs /\ a.job \in Jobs /\ a.job.op # "flush"
  BY <1>1 DEF InFlight, AccessInv, AccessTypes
<1>3. a.job.page \in M!Page /\ a.job.ena \in BOOLEAN
  BY <1>2, JobFields
<1>4. fence = "none" /\ fence' = "none" /\ Current' = Current /\ load' = load
  BY <1>2, Calm
<1>5. \A n : WithFence(n) = n
  BY <1>4 DEF WithFence
<1>6. ASSUME Rsp = None
      PROVE  /\ Off(e) = None /\ Req(e) = None /\ ~Done(e) /\ pend'[1] = pend[1]
             /\ a'.state = "WaitResponse" /\ a'.job = a.job
  <2>1. ~Finishes(a, Ain(e))
    BY <1>1, <1>6 DEF Finishes, Ain
  <2>2. ~Re(e) /\ ~Done(e)
    BY <1>1, <2>1, DoneReads
  <2>3. Off(e) = None
    BY <1>1, <2>2, OffNext
  <2> QED BY <1>1, <1>2, <1>6, <2>2, <2>3, OffNext, HeadNext
<1> QED BY <1>1, <1>2, <1>3, <1>4, <1>5, <1>6 DEF Settled

\* The response goes to the stage, and the unit returns to Idle.
LEMMA EndsIdle ==
    ASSUME NEW e, Known(e), ~Resting, Rsp # None, Sent, u.state \notin {"UpdateTlb", "FlushTlb"},
           u' \in Registers, u'.state = "Idle", ~u'.req_flush,
           u'.last_page_size = u.last_page_size,
           u'.tlb_flush_adr = u.tlb_flush_adr, u'.tlb_flush_cnt = u.tlb_flush_cnt,
           Off(e) # None => ~In(e).ready, Mreq(e) = None \/ ~Ready(e), bus = None \/ Taken(e),
           u'.last_mmu_ena =>
               \/ LastRight(Current, load, u')
               \/ \A k \in Translated(load) : ~M!SamePage(u'.last_page_size, k.page, u'.last_va)
    PROVE  MmuPart'
<1> USE KnownFacts
<1>1. /\ a.state = "WaitResponse" /\ InFlight /\ a.job.op # "flush" /\ Settled
      /\ fence = "none" /\ fence' = "none" /\ Current' = Current /\ load' = load
  BY BusyFacts
<1>2. bus' = None /\ data' = data
  BY ClockIs
<1>3. /\ a'.state \in {"Idle", "WaitReqAccept", "Hold"}
      /\ a'.state = "Hold" <=> ~Done(e)
      /\ a'.state = "Hold" => a'.job = a.job /\ a'.hold = Rsp.data
  <2>1. Re(e) <=> Done(e)
    BY <1>1, DoneReads
  <2>2. CASE Off(e) # None
    <3>1. a'.state = "WaitReqAccept" /\ Re(e)
      BY <1>1, <2>2, OffNext
    <3> QED BY <2>1, <3>1
  <2>3. CASE Off(e) = None
    BY <1>1, <2>1, <2>3, OffNext
  <2> QED BY <2>2, <2>3
<1>4. StoreInv' /\ data' \in [M!Page -> Values]
  <2>1. Sent' <=> a'.state = "Hold"
    BY DEF Sent, Chained
  <2> QED BY <1>2, <1>3, <2>1, Unsent
<1>5. MmuTypes'
  BY <1>2, <1>4, TlbStep DEF MmuTypes
<1>6. BusyInv' /\ ChainInv' /\ LookInv' /\ WalkInv' /\ FoundInv'
  BY <1>2, <1>3 DEF BusyInv, ChainInv, LookInv, WalkInv, FoundInv, Resting, Chained, Looking
<1>7. HoldInv'
  <2> SUFFICES ASSUME a'.state = "Hold" PROVE HoldInv'
    BY DEF HoldInv
  <2>1. pend'[1] = pend[1] /\ a'.job = a.job /\ a'.hold = Rsp.data
    BY <1>1, <1>3, HeadNext
  <2>2. pend[1].outcome = "ok" /\ a.job.op = "load" => Rsp.data = pend[1].data
    BY ResponseRight
  <2> QED BY <2>1, <2>2 DEF HoldInv
<1>8. LastInv'
  BY <1>1 DEF LastInv, MmuPart
<1>9. TlbInv'
  BY <1>1, TlbKeeps, TlbSame
<1> QED BY <1>4, <1>5, <1>6, <1>7, <1>8, <1>9 DEF MmuPart

\* The response of a direct access has not come.
LEMMA ChainWaits ==
    ASSUME NEW e, Known(e), Chained, Ans = None
    PROVE  MmuPart'
<1> USE KnownFacts
<1>1. ~Resting /\ Rsp = None
  BY ResponseIs DEF Chained, Resting
<1>2. /\ a.state = "WaitResponse" /\ a.job.op # "flush" /\ Settled
      /\ fence = "none" /\ fence' = "none" /\ ~u.req_flush /\ Current' = Current /\ load' = load
      /\ bus # None /\ Off(e) = None /\ Req(e) = None /\ ~Done(e) /\ pend'[1] = pend[1]
      /\ a'.state = "WaitResponse" /\ a'.job = a.job
  BY <1>1, BusyFacts
<1>3. Uin(e).mem = None /\ Uin(e).req = None
  BY <1>2, UinFields
<1>4. u' = u
  <2>1. u.state = "WaitRespNoMmu" => u' = M!WaitRespNoMmu_Next(u, Uin(e))
    BY <1>1, NextBy, BusyFacts
  <2>2. u.state = "WaitRespLast" => u' = M!WaitRespLast_Next(u, Uin(e))
    BY <1>1, NextBy, BusyFacts
  <2> QED BY <1>3, <2>1, <2>2 DEF Chained, M!WaitRespNoMmu_Next, M!WaitRespLast_Next
<1>5. Mreq(e) = None
  BY <1>3 DEF Mreq, M!MemReq, Chained
<1>6. ~Taken(e)
  BY DEF Taken
<1>7. bus' = [bus EXCEPT !.resp = @ \/ e.answer] /\ data' = data
  BY <1>2, <1>5, <1>6, ClockIs
<1>8. /\ bus' \in [at : Addresses, write : BOOLEAN, resp : BOOLEAN] /\ bus' # None
      /\ bus'.at = bus.at /\ bus'.write = bus.write
  <2>1. bus \in [at : Addresses, write : BOOLEAN, resp : BOOLEAN]
    BY <1>2 DEF MmuTypes
  <2>2. e.answer \in BOOLEAN
    BY EnvFacts
  <2>3. None \notin [at : Addresses, write : BOOLEAN, resp : BOOLEAN]
    BY NoneAssumption DEF Addresses
  <2> QED BY <1>7, <2>1, <2>2, <2>3
<1>9. StoreInv' /\ data' \in [M!Page -> Values]
  <2>1. Sent /\ Sent'
    BY <1>4 DEF Sent, Chained
  <2> QED BY <1>2, <1>7, <2>1, Unsent
<1>10. MmuTypes'
  BY <1>4, <1>8, <1>9, TlbStep DEF MmuTypes
<1>11. BusyInv' /\ LookInv' /\ WalkInv' /\ FoundInv' /\ HoldInv'
  BY <1>2, <1>4, <1>8
     DEF BusyInv, LookInv, WalkInv, FoundInv, HoldInv, Resting, Chained, Looking, Settled
<1>12. ChainInv'
  <2>1. ChainInv
    BY DEF MmuPart
  <2> QED BY <1>2, <1>4, <1>8, <2>1 DEF ChainInv, Chained, LastRight
<1>13. LastInv'
  BY <1>2, <1>4 DEF LastInv, MmuPart, Chained
<1>14. TlbInv'
  <2>1. u.state \notin {"FlushTlb", "UpdateTlb"}
    BY DEF Chained
  <2> QED BY <1>2, <1>4, <2>1, TlbKeeps, TlbSame
<1> QED BY <1>9, <1>10, <1>11, <1>12, <1>13, <1>14 DEF MmuPart

\* The response of a direct access, and no request goes with it.
LEMMA ChainEnds ==
    ASSUME NEW e, Known(e), Chained, Ans # None,
           ~(M!Chains(u, Uin(e)) /\ Ready(e) /\ Off(e) # None)
    PROVE  MmuPart'
<1> USE KnownFacts
<1>1. ~Resting /\ Rsp # None
  <2>1. Rsp = [data |-> Ans.data, fault |-> Ans.fault, page_fault |-> FALSE]
    BY ResponseIs
  <2>2. Ans.data \in Values /\ Ans.fault \in BOOLEAN
    BY AnswerIs DEF Answers
  <2>3. Rsp \in [data : Values, fault : BOOLEAN, page_fault : BOOLEAN]
    BY <2>1, <2>2
  <2> QED BY <2>3, NoneAssumption DEF Chained, Resting
<1>2. ~u.req_flush /\ Sent
  BY <1>1, BusyFacts DEF Sent
<1>3. /\ Uin(e).mem = Ans /\ Uin(e).req = Req(e) /\ Uin(e).mem_ready = Ready(e)
      /\ In(e).ready = M!CoreReqReady(u, Uin(e)) /\ (Req(e) = None <=> Off(e) = None)
  BY UinFields, OffNext
<1>4. u.state = "WaitRespLast" => (M!Chains(u, Uin(e)) => Off(e) # None)
  BY <1>3 DEF M!Chains, M!LastValid
<1>5. u' = [u EXCEPT !.state = "Idle"]
  <2>1. u.state = "WaitRespNoMmu" => u' = M!WaitRespNoMmu_Next(u, Uin(e))
    BY <1>1, NextBy, BusyFacts
  <2>2. u.state = "WaitRespLast" => u' = M!WaitRespLast_Next(u, Uin(e))
    BY <1>1, NextBy, BusyFacts
  <2> QED BY <1>3, <1>4, <2>1, <2>2 DEF Chained, M!WaitRespNoMmu_Next, M!WaitRespLast_Next
<1>6. /\ u' \in Registers /\ u'.state = "Idle" /\ ~u'.req_flush
      /\ u'.last_page_size = u.last_page_size /\ u'.last_va = u.last_va /\ u'.last_pa = u.last_pa
      /\ u'.last_permission = u.last_permission /\ u'.last_mmu_ena = u.last_mmu_ena
      /\ u'.tlb_flush_adr = u.tlb_flush_adr /\ u'.tlb_flush_cnt = u.tlb_flush_cnt
  BY <1>2, <1>5 DEF Registers, M!MmuStates
<1>7. Off(e) # None => ~In(e).ready
  BY <1>3 DEF M!CoreReqReady, M!Connected, Chained
<1>8. Mreq(e) = None \/ ~Ready(e)
  BY <1>3 DEF Mreq, M!MemReq, M!Connected, Chained
<1>9. Taken(e)
  BY DEF Taken, M!MemRespReady, Chained
<1>10. u'.last_mmu_ena => LastRight(Current, load, u')
  BY <1>6 DEF MmuPart, ChainInv, Chained, LastRight
<1>11. u.state \notin {"UpdateTlb", "FlushTlb"}
  BY DEF Chained
<1> QED BY <1>1, <1>2, <1>6, <1>7, <1>8, <1>9, <1>10, <1>11, EndsIdle

\* The next request is sent in the clock of the response.
LEMMA ChainSends ==
    ASSUME NEW e, Known(e), Chained, Ans # None, M!Chains(u, Uin(e)), Ready(e), Off(e) # None
    PROVE  MmuPart'
<1> USE KnownFacts
<1>1. ~Resting
  BY DEF Chained, Resting
<1>2. ~u.req_flush /\ Settled
  BY <1>1, BusyFacts
<1>3. /\ Off(e) \in load.jobs /\ Off(e) \in Jobs /\ Off(e).op # "flush"
      /\ Req(e) # None /\ Req(e).page = Off(e).page /\ Req(e).write = (Off(e).op = "store")
      /\ Req(e).wdata = Off(e).wdata /\ Off(e).ena \in BOOLEAN /\ Off(e).page \in M!Page
      /\ Req(e) \in Requests
  BY OffNext, JobFields
<1>4. /\ Uin(e).mem = Ans /\ Uin(e).req = Req(e) /\ Uin(e).ena = Off(e).ena
      /\ Uin(e).mem_ready = Ready(e) /\ In(e).ready = M!CoreReqReady(u, Uin(e))
  BY UinFields, OffNext
<1>5. M!Connected(u, Uin(e)) /\ In(e).ready
  BY <1>4 DEF M!Connected, M!CoreReqReady
<1>6. CASE u.state = "WaitRespNoMmu"
  <2>1. u' = u
    BY <1>1, <1>3, <1>4, <1>6, NextBy, BusyFacts DEF M!WaitRespNoMmu_Next
  <2>2. ~Off(e).ena
    BY <1>4, <1>6 DEF M!Chains
  <2>3. ~Refused(Current, Off(e)) /\ Target(Current, Off(e)) = Off(e).page
    BY <2>2 DEF Refused, Target
  <2>4. Mreq(e) = [at |-> M!DataAt(Target(Current, Off(e))), write |-> Off(e).op = "store",
                   wdata |-> Off(e).wdata]
    BY <1>3, <1>4, <1>5, <1>6, <2>3 DEF Mreq, M!MemReq
  <2>5. ~u.last_mmu_ena
    BY <1>6 DEF MmuPart, ChainInv, Chained
  <2> QED BY <1>2, <1>5, <1>6, <2>1, <2>3, <2>4, <2>5, SendKeeps
<1>7. CASE u.state = "WaitRespLast"
  <2>1. M!SamePage(u.last_page_size, Off(e).page, u.last_va)
    BY <1>3, <1>4, <1>7 DEF M!Chains, M!LastValid
  <2>2. LastRight(Current, load, u) /\ u.last_mmu_ena /\ u.last_va \in M!Page
    BY <1>7 DEF MmuPart, ChainInv, Chained, Registers
  <2>3. /\ ~Refused(Current, Off(e))
        /\ Target(Current, Off(e)) = M!Within(u.last_page_size, u.last_pa, Off(e).page)
        /\ ~M!Forbids(u.last_permission, Off(e).op = "store")
        /\ Leaf(Current, Off(e).page) = Leaf(Current, u.last_va)
    BY <1>3, <2>1, <2>2, LastAccess
  <2>4. Mreq(e) = [at |-> M!DataAt(Target(Current, Off(e))), write |-> Off(e).op = "store",
                   wdata |-> Off(e).wdata]
    BY <1>3, <1>4, <1>5, <1>7, <2>3 DEF Mreq, M!MemReq, M!LastPaReq
  <2>5. u' = [u EXCEPT !.last_va = Off(e).page, !.req = Req(e)]
    <3>1. u' = M!WaitRespLast_Next(u, Uin(e))
      BY <1>1, <1>7, NextBy, BusyFacts
    <3>2. ~M!Forbids(u.last_permission, Req(e).write)
      BY <1>3, <2>3
    <3> QED BY <1>3, <1>4, <3>1, <3>2 DEF M!WaitRespLast_Next
  <2>6. /\ u' \in Registers /\ u'.state = "WaitRespLast" /\ ~u'.req_flush
        /\ u'.last_page_size = u.last_page_size /\ u'.last_pa = u.last_pa
        /\ u'.last_permission = u.last_permission /\ u'.last_mmu_ena /\ u'.last_va = Off(e).page
        /\ u'.tlb_flush_adr = u.tlb_flush_adr /\ u'.tlb_flush_cnt = u.tlb_flush_cnt
    BY <1>2, <1>3, <1>7, <2>2, <2>5 DEF Registers
  <2>7. LastRight(Current, load, u')
    BY <2>1, <2>2, <2>3, <2>6, LastMoves
  <2> QED BY <1>2, <1>5, <1>7, <2>3, <2>4, <2>6, <2>7, SendKeeps
<1> QED BY <1>6, <1>7 DEF Chained

----------------------------------------------------------------------------
(***************************************************************************)
(* The unit translates.                                                    *)
(***************************************************************************)
\* what all steps of a translation have in common
Goes(e) ==
    /\ u' \in Registers
    /\ u'.state \in {"CacheReq", "WaitResp", "HandleResp", "UpdateTlb", "AcceptCore"}
    /\ u'.req = u.req /\ u'.req_flush = u.req_flush /\ u'.last_mmu_ena = u.last_mmu_ena
    /\ u'.last_va = u.last_va
    /\ u'.tlb_flush_adr = u.tlb_flush_adr /\ u'.tlb_flush_cnt = u.tlb_flush_cnt
    /\ u'.ex_page_fault => u'.state = "AcceptCore"
    /\ u'.last_page_size \in LastSizes(load)
    /\ \A i \in 0 .. NTlb - 1 :
          tlb'[i] = None \/ GoodEntry(Current, load, u'.last_page_size, tlb'[i])
    /\ bus' \in {None} \cup [at : Addresses, write : BOOLEAN, resp : BOOLEAN]
    /\ bus' # None <=> u'.state = "WaitResp"
    /\ u'.state = "WaitResp" =>
          bus'.at = u'.req_pa /\ bus'.write = (u'.tlb_hit /\ a.job.op = "store")
    /\ data' \in [M!Page -> Values] /\ StoreInv'

LEMMA LookFacts ==
    ASSUME NEW e, Known(e), Looking
    PROVE  /\ ~Resting /\ ~Chained
           /\ a.job.ena /\ u.last_mmu_ena /\ u.last_va = a.job.page
           /\ u.req = [page |-> a.job.page, write |-> a.job.op = "store", wdata |-> a.job.wdata]
           /\ a.job \in Translated(load) /\ a.job \in load.jobs /\ a.job \in Jobs
           /\ a.job.op # "flush" /\ a.job.page \in M!Page
           /\ InFlight /\ a.state = "WaitResponse" /\ Settled /\ ~u.req_flush
           /\ fence = "none" /\ fence' = "none"
           /\ Current' = Current /\ load' = load
           /\ u.state # "AcceptCore" =>
                 /\ Rsp = None /\ Off(e) = None /\ ~Done(e) /\ pend'[1] = pend[1]
                 /\ ~u.ex_page_fault /\ a'.state = "WaitResponse" /\ a'.job = a.job
                 /\ Uin(e).req = None
           /\ ~M!Connected(u, Uin(e)) /\ ~In(e).ready
<1> USE KnownFacts
<1>1. ~Resting /\ ~Chained /\ LookInv
  BY DEF Looking, MmuPart
<1>2. /\ InFlight /\ a.state = "WaitResponse" /\ Settled /\ ~u.req_flush
      /\ a.job \in load.jobs /\ a.job \in Jobs /\ a.job.op # "flush" /\ a.job.page \in M!Page
      /\ fence = "none" /\ fence' = "none" /\ Current' = Current /\ load' = load
  BY <1>1, BusyFacts
<1>3. /\ a.job.ena /\ u.last_mmu_ena /\ u.last_va = a.job.page
      /\ u.req = [page |-> a.job.page, write |-> a.job.op = "store", wdata |-> a.job.wdata]
      /\ u.ex_page_fault => u.state = "AcceptCore"
  BY <1>1 DEF LookInv
<1>4. a.job \in Translated(load)
  BY <1>2, <1>3 DEF Translated
<1>5. u.state # "AcceptCore" =>
         /\ Rsp = None /\ Off(e) = None /\ ~Done(e) /\ pend'[1] = pend[1]
         /\ a'.state = "WaitResponse" /\ a'.job = a.job
         /\ Uin(e).req = None
  <2> SUFFICES ASSUME u.state # "AcceptCore"
               PROVE  /\ Rsp = None /\ Off(e) = None /\ ~Done(e) /\ pend'[1] = pend[1]
                      /\ a'.state = "WaitResponse" /\ a'.job = a.job
                      /\ Uin(e).req = None
    OBVIOUS
  <2>1. Rsp = None
    BY <1>1 DEF Rsp, M!CoreResp, Chained
  <2> QED BY <1>1, <2>1, BusyFacts, UinFields
<1>6. ~M!Connected(u, Uin(e)) /\ ~In(e).ready
  BY <1>1, UinFields DEF M!Connected, M!Chains, M!CoreReqReady, Resting, Chained
<1> QED BY <1>1, <1>2, <1>3, <1>4, <1>5, <1>6

LEMMA LookKeeps ==
    ASSUME NEW e, Known(e), Looking, u.state # "AcceptCore", Goes(e), WalkInv', FoundInv'
    PROVE  MmuPart'
<1> USE KnownFacts
<1> USE DEF Goes
<1>1. /\ a.job.ena /\ u.last_mmu_ena /\ u.last_va = a.job.page
      /\ u.req = [page |-> a.job.page, write |-> a.job.op = "store", wdata |-> a.job.wdata]
      /\ Settled /\ ~u.req_flush
      /\ fence = "none" /\ fence' = "none" /\ Current' = Current /\ load' = load
      /\ a'.state = "WaitResponse" /\ a'.job = a.job
  BY LookFacts
<1>2. MmuTypes'
  BY TlbStep DEF MmuTypes
<1>3. BusyInv' /\ ChainInv' /\ HoldInv'
  BY <1>1 DEF BusyInv, ChainInv, HoldInv, Resting, Chained, Settled
<1>4. LookInv'
  BY <1>1 DEF LookInv
<1>5. LastInv'
  BY <1>1 DEF LastInv
<1>6. TlbInv'
  BY <1>1, TlbKeeps
<1> QED BY <1>2, <1>3, <1>4, <1>5, <1>6 DEF MmuPart

\* The operation in flight hits a good entry.
LEMMA HitFacts ==
    ASSUME NEW e, Known(e), Looking, NEW x,
           GoodEntry(Current, load, u.last_page_size, x),
           M!SamePage(x.size, a.job.page, x.va)
    PROVE  /\ ~Refused(Current, a.job)
           /\ Leaf(Current, a.job.page) = [size |-> x.size, pte |-> [flags |-> x.flags, ppn |-> x.pa]]
           /\ Target(Current, a.job) = M!Within(x.size, x.pa, a.job.page)
<1> USE KnownFacts
<1> DEFINE l == Leaf(Current, x.va)
<1>1. PICK k \in Translated(load) : ~Refused(Current, k) /\ x.va = k.page
  BY DEF GoodEntry
<1>2. /\ a.job \in Translated(load) /\ a.job \in Jobs /\ a.job.ena /\ a.job.op # "flush"
      /\ k \in Jobs /\ k.ena
  BY LookFacts DEF Translated
<1>3. k.page \in M!Page
  BY <1>2, JobFields
<1>4. l # None /\ l = [size |-> x.size, pte |-> [flags |-> x.flags, ppn |-> x.pa]]
  BY <1>1, <1>2, TargetType DEF GoodEntry
<1>5. TopLeaf(Current, x.va, l.size) /\ l.size = x.size /\ l.pte.ppn = x.pa
  BY <1>1, <1>3, <1>4, LeafType
<1>6. M!SamePage(x.size, x.va, a.job.page) /\ M!SamePage(x.size, a.job.page, x.va)
  BY SamePageLaws
<1>7. Leaf(Current, a.job.page) = l
  BY <1>4, <1>5, <1>6, SameLeaf
<1> HIDE DEF l
<1>8. ~Refused(Current, a.job)
  <2>1. OnePermission(load, Current) /\ Leaf(Current, k.page) = l /\ M!SamePage(l.size, k.page, a.job.page)
    BY <1>1, <1>5, <1>6, RegularNow DEF l
  <2> QED BY <1>1, <1>2, <1>4, <2>1 DEF OnePermission
<1>9. Target(Current, a.job) = M!Within(x.size, x.pa, a.job.page)
  BY <1>2, <1>4, <1>5, <1>7, RefusedIs
<1> QED BY <1>4, <1>7, <1>8, <1>9

\* the memory is not asked
LEMMA NotAsked ==
    ASSUME NEW e, Known(e), Looking, u.state \notin {"AcceptCore", "CacheReq"}
    PROVE  /\ data' = data /\ Mreq(e) = None
           /\ bus = None => bus' = None
<1> USE KnownFacts
<1>1. Mreq(e) = None
  BY LookFacts DEF Mreq, M!MemReq
<1> QED BY <1>1, ClockIs

\* CheckTlb: a hit is the translation, a miss starts the walk at the root.
LEMMA CheckTlbKeeps ==
    ASSUME NEW e, Known(e), u.state = "CheckTlb"
    PROVE  MmuPart'
<1> USE KnownFacts
<1>1. Looking
  BY DEF Looking, Resting, Chained
<1>2. /\ ~u.ex_page_fault /\ u.last_va = a.job.page /\ a.job \in Translated(load) /\ a.job \in Jobs
      /\ a.job.page \in M!Page /\ Settled /\ Current' = Current /\ load' = load
      /\ a'.state = "WaitResponse" /\ a'.job = a.job /\ ~Done(e) /\ pend'[1] = pend[1]
  BY <1>1, LookFacts
<1>3. bus' = None /\ data' = data
  <2>1. bus = None
    BY <1>1, BusyFacts, LookFacts
  <2> QED BY <1>1, <2>1, NotAsked
<1>4. u' = M!CheckTlb_Next(u, Uin(e)) /\ Uin(e).tlb = rdata
  BY <1>1, NextBy, UinFields, BusyFacts, LookFacts
<1>5. ~u.tlb_hit /\ (rdata = None \/ GoodEntry(Current, load, u.last_page_size, rdata))
  BY <1>1 DEF MmuPart, LookInv
<1>6. u'.state = "CacheReq" => StoreInv' /\ data' \in [M!Page -> Values]
  <2> SUFFICES ASSUME u'.state = "CacheReq" PROVE StoreInv' /\ data' \in [M!Page -> Values]
    OBVIOUS
  <2>1. ~Sent
    BY <1>1, LookFacts DEF Sent, Chained
  <2>2. ~Sent'
    BY <1>2 DEF Sent, Chained
  <2> QED BY <1>3, <2>1, <2>2, Unsent
<1>7. u.last_page_size \in LastSizes(load)
  BY DEF MmuPart, LastInv
<1>8. CASE M!TlbHit(u, Uin(e))
  <2>1. /\ rdata # None /\ M!SamePage(rdata.size, a.job.page, rdata.va)
        /\ rdata \in TlbEntries
    BY <1>2, <1>4, <1>8 DEF M!TlbHit, MmuTypes
  <2>2. GoodEntry(Current, load, u.last_page_size, rdata) /\ rdata.size = u.last_page_size
    BY <1>5, <2>1 DEF GoodEntry
  <2>3. /\ ~Refused(Current, a.job)
        /\ Leaf(Current, a.job.page) = [size |-> rdata.size, pte |-> [flags |-> rdata.flags, ppn |-> rdata.pa]]
        /\ Target(Current, a.job) = M!Within(rdata.size, rdata.pa, a.job.page)
    BY <1>1, <2>1, <2>2, HitFacts
  <2>4. Target(Current, a.job) \in M!Page /\ IsTables(Current)
    BY <1>2, <2>3, TargetType
  <2>5. M!DataAt(Target(Current, a.job)) \in Addresses
    BY <2>4 DEF M!DataAt, Addresses
  <2>6. u' = [u EXCEPT !.tlb_hit = TRUE, !.state = "CacheReq",
                       !.last_pa = rdata.pa, !.last_permission = rdata.flags,
                       !.req_pa = M!DataAt(Target(Current, a.job))]
    BY <1>2, <1>4, <1>8, <2>3 DEF M!CheckTlb_Next
  <2>7. rdata.pa \in M!Page /\ rdata.flags \in SUBSET M!PteFlags
    BY <2>1 DEF TlbEntries
  <2> DEFINE A == M!DataAt(Target(Current, a.job))
  <2> HIDE DEF A
  <2>8. u' = [u EXCEPT !.tlb_hit = TRUE, !.state = "CacheReq",
                       !.last_pa = rdata.pa, !.last_permission = rdata.flags, !.req_pa = A] /\ A \in Addresses
    BY <2>5, <2>6 DEF A
  <2>9. /\ u' \in Registers /\ u'.state = "CacheReq" /\ u'.tlb_hit /\ u'.req_pa = A
        /\ u'.last_pa = rdata.pa /\ u'.last_permission = rdata.flags
        /\ u'.req = u.req /\ u'.req_flush = u.req_flush /\ u'.last_mmu_ena = u.last_mmu_ena
        /\ u'.last_va = u.last_va /\ u'.last_page_size = u.last_page_size
        /\ u'.ex_page_fault = u.ex_page_fault
        /\ u'.tlb_flush_adr = u.tlb_flush_adr /\ u'.tlb_flush_cnt = u.tlb_flush_cnt
    BY <2>7, <2>8 DEF Registers, M!MmuStates
  <2>10. Goes(e)
    BY <1>1, <1>2, <1>3, <1>6, <1>7, <2>9, TlbSame DEF Goes
  <2>11. WalkInv'
    BY <2>9 DEF WalkInv
  <2>12. LastRight(Current, load, u')
    BY <1>2, <2>2, <2>3, <2>4, <2>9, LastOf
  <2>13. FoundInv'
    BY <1>2, <2>3, <2>9, <2>12 DEF FoundInv, A
  <2> QED BY <1>1, <2>10, <2>11, <2>13, LookKeeps
<1>9. CASE ~M!TlbHit(u, Uin(e))
  <2> DEFINE A == M!PteAt(Root, a.job.page, Levels - 1)
  <2>1. u' = [u EXCEPT !.tlb_page_size = Levels - 1, !.state = "CacheReq", !.req_pa = A]
    BY <1>2, <1>4, <1>9 DEF M!CheckTlb_Next
  <2>2. Levels - 1 \in M!Sizes /\ \A q \in M!Sizes : ~(q > Levels - 1)
    BY DEF M!Sizes
  <2>3. Root \in DOMAIN Current /\ Root \in M!Page
    BY DataAssumption DEF IsTables
  <2>4. Current[Root][a.job.page[Levels - 1]] = Steps(Current, a.job.page)[Levels - 1]
    BY <2>2, StepsUnfold DEF StepOn
  <2>5. A \in Addresses /\ A.page = Root /\ A.entry = a.job.page[Levels - 1]
    BY <1>2, <2>2, <2>3 DEF M!PteAt, Addresses, M!Page, Digits
  <2> HIDE DEF A
  <2>6. /\ u' \in Registers /\ u'.state = "CacheReq" /\ u'.tlb_hit = u.tlb_hit /\ u'.req_pa = A
        /\ u'.tlb_page_size = Levels - 1
        /\ u'.req = u.req /\ u'.req_flush = u.req_flush /\ u'.last_mmu_ena = u.last_mmu_ena
        /\ u'.last_va = u.last_va /\ u'.last_page_size = u.last_page_size
        /\ u'.ex_page_fault = u.ex_page_fault
        /\ u'.tlb_flush_adr = u.tlb_flush_adr /\ u'.tlb_flush_cnt = u.tlb_flush_cnt
    BY <2>1, <2>2, <2>5 DEF Registers, M!MmuStates
  <2>7. Goes(e)
    BY <1>1, <1>2, <1>3, <1>6, <1>7, <2>6, TlbSame DEF Goes
  <2>8. WalkInv'
    BY <1>2, <2>2, <2>3, <2>4, <2>5, <2>6 DEF WalkInv, OnTheWay
  <2>9. FoundInv'
    BY <1>5, <2>6 DEF FoundInv
  <2> QED BY <1>1, <2>7, <2>8, <2>9, LookKeeps
<1> QED BY <1>8, <1>9

\* CacheReq: the request goes to the memory when it takes it; with a translation it is sent.
LEMMA CacheReqKeeps ==
    ASSUME NEW e, Known(e), u.state = "CacheReq"
    PROVE  MmuPart'
<1> USE KnownFacts
<1>1. Looking
  BY DEF Looking, Resting, Chained
<1>2. /\ ~u.ex_page_fault /\ u.last_va = a.job.page /\ a.job \in load.jobs /\ a.job \in Jobs
      /\ a.job.op # "flush" /\ u.last_page_size \in LastSizes(load)
      /\ u.req = [page |-> a.job.page, write |-> a.job.op = "store", wdata |-> a.job.wdata]
      /\ Settled /\ Current' = Current /\ load' = load
      /\ a'.state = "WaitResponse" /\ a'.job = a.job /\ ~Done(e) /\ pend'[1] = pend[1]
  BY <1>1, LookFacts DEF MmuPart, LastInv
<1>3. bus = None /\ ~Sent
  BY <1>1, BusyFacts, LookFacts DEF Sent, Chained
<1>4. /\ u' = IF Ready(e) THEN [u EXCEPT !.state = "WaitResp"] ELSE u
      /\ Mreq(e) = [at |-> u.req_pa, write |-> u.tlb_hit /\ u.req.write, wdata |-> u.req.wdata]
  BY <1>1, NextBy, BusyFacts, LookFacts DEF Mreq, M!MemReq
<1>5. /\ u' \in Registers /\ u'.state = (IF Ready(e) THEN "WaitResp" ELSE "CacheReq")
      /\ u'.tlb_hit = u.tlb_hit /\ u'.req_pa = u.req_pa /\ u'.tlb_page_size = u.tlb_page_size
      /\ u'.req = u.req /\ u'.req_flush = u.req_flush /\ u'.last_mmu_ena = u.last_mmu_ena
      /\ u'.last_va = u.last_va /\ u'.last_pa = u.last_pa /\ u'.last_page_size = u.last_page_size
      /\ u'.last_permission = u.last_permission
      /\ u'.ex_page_fault = u.ex_page_fault
      /\ u'.tlb_flush_adr = u.tlb_flush_adr /\ u'.tlb_flush_cnt = u.tlb_flush_cnt
  <2>1. CASE Ready(e)
    BY <1>4, <2>1 DEF Registers, M!MmuStates
  <2>2. CASE ~Ready(e)
    BY <1>4, <2>2
  <2> QED BY <2>1, <2>2
<1>6. WalkInv'
  <2>1. WalkInv
    BY DEF MmuPart
  <2> QED BY <1>2, <1>5, <2>1 DEF WalkInv, OnTheWay
<1>7. u.tlb_hit => /\ LastRight(Current, load, u) /\ ~Refused(Current, a.job)
                   /\ u.req_pa = M!DataAt(Target(Current, a.job))
  BY DEF MmuPart, FoundInv
<1>8. FoundInv'
  <2>1. u.tlb_hit => LastRight(Current, load, u')
    BY <1>5, <1>7 DEF LastRight
  <2> QED BY <1>2, <1>5, <1>7, <2>1 DEF FoundInv
<1>9. u.req.write = (a.job.op = "store") /\ u.req.wdata = a.job.wdata /\ u.tlb_hit \in BOOLEAN
      /\ u.req_pa \in Addresses /\ a.job.wdata \in Values
  BY <1>2, JobFields DEF Registers
<1>10. CASE ~Ready(e)
  <2>1. bus' = None /\ data' = data
    BY <1>3, <1>10, ClockIs
  <2>2. ~Sent'
    BY <1>2, <1>5, <1>10 DEF Sent, Chained
  <2>3. StoreInv' /\ data' \in [M!Page -> Values]
    BY <1>3, <2>1, <2>2, Unsent
  <2>4. Goes(e)
    BY <1>1, <1>2, <1>5, <1>10, <2>1, <2>3, TlbSame DEF Goes
  <2> QED BY <1>1, <1>6, <1>8, <2>4, LookKeeps
<1>11. CASE Ready(e) /\ u.tlb_hit
  <2>1. Mreq(e) = [at |-> M!DataAt(Target(Current, a.job)), write |-> a.job.op = "store", wdata |-> a.job.wdata]
    BY <1>4, <1>7, <1>9, <1>11
  <2>2. InFlight' /\ Sent' /\ ~(Sent /\ ~Done(e))
    BY <1>2, <1>3, <1>5, <1>11 DEF InFlight, Sent
  <2>3. /\ bus' = [at |-> M!DataAt(Target(Current, a.job)), write |-> a.job.op = "store", resp |-> FALSE]
        /\ bus' # None /\ bus' \in [at : Addresses, write : BOOLEAN, resp : BOOLEAN]
        /\ data' \in [M!Page -> Values] /\ StoreInv'
    BY <1>2, <1>7, <1>11, <2>1, <2>2, SentData
  <2>4. bus'.at = u.req_pa /\ bus'.write = (a.job.op = "store")
    BY <1>7, <1>11, <2>3
  <2>5. Goes(e)
    BY <1>1, <1>2, <1>5, <1>11, <2>3, <2>4, TlbSame DEF Goes
  <2> QED BY <1>1, <1>6, <1>8, <2>5, LookKeeps
<1>12. CASE Ready(e) /\ ~u.tlb_hit
  <2>1. Mreq(e) = [at |-> u.req_pa, write |-> FALSE, wdata |-> a.job.wdata]
    BY <1>4, <1>9, <1>12
  <2>2. Mreq(e) # None
    <3>1. Mreq(e) \in [at : Addresses, write : BOOLEAN, wdata : Values]
      BY <1>9, <2>1
    <3> QED BY <3>1, NoneAssumption DEF Addresses
  <2>3. bus' = [at |-> u.req_pa, write |-> FALSE, resp |-> FALSE] /\ data' = data
    <3>1. Mreq(e).at = u.req_pa /\ Mreq(e).write = FALSE
      BY <2>1
    <3> QED BY <1>12, <2>2, <3>1, ClockIs
  <2>4. bus' \in [at : Addresses, write : BOOLEAN, resp : BOOLEAN] /\ bus' # None
    <3>1. bus' \in [at : Addresses, write : BOOLEAN, resp : BOOLEAN]
      BY <1>9, <2>3
    <3> QED BY <3>1, NoneAssumption DEF Addresses
  <2>5. ~Sent'
    BY <1>2, <1>5, <1>12 DEF Sent, Chained
  <2>6. StoreInv' /\ data' \in [M!Page -> Values]
    BY <1>3, <2>3, <2>5, Unsent
  <2>7. bus'.at = u'.req_pa /\ bus'.write = (u'.tlb_hit /\ a.job.op = "store")
    BY <1>5, <1>12, <2>3
  <2>8. Goes(e)
    BY <1>1, <1>2, <1>5, <1>12, <2>4, <2>6, <2>7, TlbSame DEF Goes
  <2> QED BY <1>1, <1>6, <1>8, <2>8, LookKeeps
<1> QED BY <1>10, <1>11, <1>12

\* WaitResp: the answer is the entry of the level, or the data.
LEMMA WaitRespKeeps ==
    ASSUME NEW e, Known(e), u.state = "WaitResp"
    PROVE  MmuPart'
<1> USE KnownFacts
<1>1. Looking
  BY DEF Looking, Resting, Chained
<1>2. /\ ~u.ex_page_fault /\ u.last_page_size \in LastSizes(load) /\ InFlight
      /\ Settled /\ Current' = Current /\ load' = load
      /\ a'.state = "WaitResponse" /\ a'.job = a.job /\ ~Done(e) /\ pend'[1] = pend[1]
      /\ bus.at = u.req_pa /\ bus.write = (u.tlb_hit /\ a.job.op = "store")
  BY <1>1, LookFacts DEF MmuPart, LastInv, LookInv
<1>3. bus # None /\ bus \in [at : Addresses, write : BOOLEAN, resp : BOOLEAN]
  BY <1>1, BusyFacts, LookFacts DEF MmuTypes
<1>4. u' = M!WaitResp_Next(u, Uin(e)) /\ Uin(e).mem = Ans /\ data' = data /\ Mreq(e) = None
  BY <1>1, NextBy, UinFields, BusyFacts, LookFacts, NotAsked
<1>5. u.tlb_hit => /\ LastRight(Current, load, u) /\ ~Refused(Current, a.job)
                   /\ u.req_pa = M!DataAt(Target(Current, a.job))
  BY DEF MmuPart, FoundInv
<1>6. WalkInv
  BY DEF MmuPart
<1>7. CASE Ans = None
  <2>1. u' = u
    BY <1>4, <1>7 DEF M!WaitResp_Next
  <2>2. bus' = [bus EXCEPT !.resp = @ \/ e.answer]
    BY <1>3, <1>4, <1>7, ClockIs DEF Taken
  <2>3. /\ bus' \in [at : Addresses, write : BOOLEAN, resp : BOOLEAN] /\ bus' # None
        /\ bus'.at = bus.at /\ bus'.write = bus.write
    <3>1. e.answer \in BOOLEAN
      BY EnvFacts
    <3>2. None \notin [at : Addresses, write : BOOLEAN, resp : BOOLEAN]
      BY NoneAssumption DEF Addresses
    <3> QED BY <1>3, <2>2, <3>1, <3>2
  <2>4. Sent' <=> Sent
    BY <1>1, <1>2, <2>1, LookFacts DEF Sent, Chained
  <2>5. StoreInv' /\ data' \in [M!Page -> Values]
    BY <1>2, <1>4, <2>4, Unsent
  <2>6. Goes(e)
    BY <1>1, <1>2, <2>1, <2>3, <2>5, TlbSame DEF Goes
  <2>7. WalkInv'
    BY <1>2, <1>6, <2>1 DEF WalkInv, OnTheWay
  <2>8. FoundInv'
    <3>1. u.tlb_hit => LastRight(Current, load, u')
      BY <1>5, <2>1 DEF LastRight
    <3> QED BY <1>2, <1>5, <2>1, <3>1 DEF FoundInv
  <2> QED BY <1>1, <2>6, <2>7, <2>8, LookKeeps
<1>8. CASE Ans # None
  <2>1. Ans \in Answers
    BY <1>8, AnswerIs
  <2>2. bus' = None
    BY <1>4, <1>8, ClockIs DEF Taken, M!MemRespReady
  <2>3. u' = [u EXCEPT !.resp = Ans, !.state = IF u.tlb_hit \/ Ans.fault THEN "AcceptCore" ELSE "HandleResp"]
    BY <1>4, <1>8 DEF M!WaitResp_Next
  <2>4. ~u.tlb_hit => ~Ans.fault
    BY <1>8, AnswerIs
  <2>5. /\ u' \in Registers /\ u'.state = (IF u.tlb_hit THEN "AcceptCore" ELSE "HandleResp")
        /\ u'.resp = Ans
        /\ u'.tlb_hit = u.tlb_hit /\ u'.req_pa = u.req_pa /\ u'.tlb_page_size = u.tlb_page_size
        /\ u'.req = u.req /\ u'.req_flush = u.req_flush /\ u'.last_mmu_ena = u.last_mmu_ena
        /\ u'.last_va = u.last_va /\ u'.last_pa = u.last_pa /\ u'.last_page_size = u.last_page_size
        /\ u'.last_permission = u.last_permission
        /\ u'.ex_page_fault = u.ex_page_fault
        /\ u'.tlb_flush_adr = u.tlb_flush_adr /\ u'.tlb_flush_cnt = u.tlb_flush_cnt
    <3>1. CASE u.tlb_hit
      BY <2>1, <2>3, <3>1 DEF Registers, M!MmuStates
    <3>2. CASE ~u.tlb_hit
      BY <2>1, <2>3, <2>4, <3>2 DEF Registers, M!MmuStates
    <3> QED BY <3>1, <3>2
  <2>6. Sent' <=> Sent
    BY <1>1, <1>2, <2>5, LookFacts DEF Sent, Chained
  <2>7. StoreInv' /\ data' \in [M!Page -> Values]
    BY <1>2, <1>4, <2>6, Unsent
  <2>8. Goes(e)
    BY <1>1, <1>2, <2>2, <2>5, <2>7, TlbSame DEF Goes
  <2>9. WalkInv'
    <3> SUFFICES ASSUME ~u.tlb_hit PROVE WalkInv'
      BY <2>5 DEF WalkInv
    <3>1. Ans.pte = Steps(Current, a.job.page)[u.tlb_page_size] /\ ~Ans.fault
      BY <1>8, AnswerIs
    <3> QED BY <1>2, <1>6, <1>8, <2>5, <3>1 DEF WalkInv, OnTheWay
  <2>10. FoundInv'
    <3> SUFFICES ASSUME u.tlb_hit PROVE FoundInv'
      BY <2>5 DEF FoundInv
    <3>1. LastRight(Current, load, u')
      BY <1>5, <2>5 DEF LastRight
    <3>2. Ans.data = data[Target(Current, a.job)] /\ Ans.fault = (Target(Current, a.job) \in load.faulty)
      BY <1>8, AnswerIs
    <3>3. pend[1].outcome = "ok" /\ a.job.op = "load" => Ans.data = pend[1].data
      BY <1>2, <3>2, LoadFinds
    <3> QED BY <1>2, <1>5, <1>8, <2>5, <3>1, <3>2, <3>3 DEF FoundInv
  <2> QED BY <1>1, <2>8, <2>9, <2>10, LookKeeps
<1> QED BY <1>7, <1>8

\* HandleResp: what the entry of the level means.
LEMMA EntryFacts ==
    ASSUME NEW e, Known(e), u.state = "HandleResp"
    PROVE  LET pte == u.resp.pte
               p == u.tlb_page_size
               l == Leaf(Current, a.job.page)
           IN  /\ p \in M!Sizes /\ pte \in Entries /\ pte = Steps(Current, a.job.page)[p]
               /\ pte.flags \in SUBSET M!PteFlags /\ pte.ppn \in M!Page
               /\ "V" \notin pte.flags \/ ("R" \notin pte.flags /\ "W" \in pte.flags)
                     => Refused(Current, a.job)
               /\ ~IsLeaf(pte) /\ p = 0 => Refused(Current, a.job)
               /\ Points(pte) => pte.ppn \in DOMAIN Current
               /\ IsLeaf(pte) => l # None /\ l = [size |-> p, pte |-> pte]
               /\ IsLeaf(pte) /\ "V" \in pte.flags =>
                     /\ Refused(Current, a.job) <=> M!Forbids(pte.flags, u.req.write)
                     /\ Target(Current, a.job) = M!Within(p, pte.ppn, a.job.page)
<1> USE KnownFacts
<1>1. Looking
  BY DEF Looking, Resting, Chained
<1> DEFINE pte == u.resp.pte
           p == u.tlb_page_size
           l == Leaf(Current, a.job.page)
<1>2. /\ p \in M!Sizes /\ pte = Steps(Current, a.job.page)[p]
      /\ \A q \in M!Sizes : q > p => Points(Steps(Current, a.job.page)[q])
  BY DEF Registers, MmuPart, WalkInv, OnTheWay
<1>3. /\ a.job \in Translated(load) /\ a.job \in Jobs /\ a.job.page \in M!Page /\ a.job.ena
      /\ a.job.op # "flush" /\ u.req.write = (a.job.op = "store")
  BY <1>1, LookFacts
<1>4. pte \in Entries /\ (Points(pte) => pte.ppn \in DOMAIN Current)
  BY <1>2, <1>3, StepsType
<1> HIDE DEF pte, p
<1>5. pte.flags \in SUBSET M!PteFlags /\ pte.ppn \in M!Page
  BY <1>4 DEF Entries
<1>6. ASSUME IsLeaf(pte)
      PROVE  l # None /\ l = [size |-> p, pte |-> pte]
  <2>1. TopLeaf(Current, a.job.page, p)
    BY <1>2, <1>6 DEF TopLeaf, Points
  <2>2. l = [size |-> p, pte |-> pte]
    BY <1>2, <2>1, LeafIs
  <2>3. l \in [size : M!Sizes, pte : Entries]
    BY <1>2, <1>4, <2>2
  <2> QED BY <2>2, <2>3, NoneAssumption DEF Entries
<1>7. ASSUME ~IsLeaf(pte), p = 0 \/ ~Points(pte)
      PROVE  Refused(Current, a.job)
  <2>1. l = None
    BY <1>2, <1>7, NoLeaf
  <2> QED BY <1>3, <2>1 DEF Refused
<1>8. ASSUME IsLeaf(pte)
      PROVE  /\ Refused(Current, a.job) <=> "V" \notin pte.flags \/ M!Forbids(pte.flags, u.req.write)
             /\ Target(Current, a.job) = M!Within(p, pte.ppn, a.job.page)
  <2>1. l # None /\ l.size = p /\ l.pte = pte
    BY <1>6, <1>8
  <2> QED BY <1>3, <2>1, RefusedIs
<1>9. "V" \notin pte.flags => Refused(Current, a.job)
  BY <1>7, <1>8 DEF Points
<1>10. ~("R" \notin pte.flags /\ "W" \in pte.flags)
  <2> SUFFICES ASSUME "R" \notin pte.flags, "W" \in pte.flags PROVE FALSE
    OBVIOUS
  <2>1. IsLeaf(pte)
    BY DEF IsLeaf
  <2>2. l # None /\ l.pte = pte
    BY <1>6, <2>1
  <2> QED BY <1>3, <2>2, RegularNow DEF Readable
<1> QED BY <1>2, <1>4, <1>5, <1>6, <1>7, <1>8, <1>9, <1>10 DEF pte, p

\* the memory and the order of the stores in the steps that leave both alone
LEMMA InnerStep ==
    ASSUME NEW e, Known(e), u.state \in {"HandleResp", "UpdateTlb"},
           u'.state \in {"CacheReq", "UpdateTlb", "AcceptCore"},
           u'.state = "AcceptCore" => ~Effective(pend[1])
    PROVE  /\ bus' = None /\ data' \in [M!Page -> Values] /\ StoreInv'
<1> USE KnownFacts
<1>1. Looking
  BY DEF Looking, Resting, Chained
<1>2. /\ a.state = "WaitResponse" /\ a'.state = "WaitResponse" /\ ~Done(e) /\ pend'[1] = pend[1]
  BY <1>1, LookFacts
<1>3. bus' = None /\ data' = data
  <2>1. bus = None
    BY <1>1, BusyFacts, LookFacts
  <2> QED BY <1>1, <2>1, NotAsked
<1>4. ~Sent
  BY <1>2 DEF Sent, Chained
<1>5. data \in [M!Page -> Values] /\ BusyInv /\ StoreInv
  BY DEF MmuTypes, MmuPart
<1>6. StoreInv'
  <2>1. CASE u'.state # "AcceptCore"
    <3>1. ~Sent'
      BY <1>2, <2>1 DEF Sent, Chained
    <3> QED BY <1>3, <1>4, <3>1, Unsent
  <2>2. CASE u'.state = "AcceptCore"
    <3>1. Done(e) => Sent \/ ~Effective(pend[1])
      BY DoneSent
    <3> DEFINE s == FALSE
    <3>2. s \in BOOLEAN /\ (s <=> Sent /\ ~Done(e))
      BY <1>4
    <3>3. ~Effective(pend'[1])
      BY <1>2, <2>2
    <3> HIDE DEF s
    <3> QED BY <1>3, <1>5, <3>1, <3>2, <3>3, StoreNext
  <2> QED BY <2>1, <2>2
<1> QED BY <1>3, <1>5, <1>6

\* an operation that is refused stores nothing
LEMMA RefusedStops ==
    ASSUME NEW e, Known(e), InFlight, Refused(Current, a.job)
    PROVE  ~Effective(pend[1])
BY KnownFacts, HeadNext DEF Effective, Outcome

\* HandleResp: the entry ends the way, leads on, or is the translation.
LEMMA HandleRespKeeps ==
    ASSUME NEW e, Known(e), u.state = "HandleResp"
    PROVE  MmuPart'
<1> USE KnownFacts
<1>1. Looking
  BY DEF Looking, Resting, Chained
<1> DEFINE pte == u.resp.pte
           p == u.tlb_page_size
           J == a.job
<1>2. /\ ~u.ex_page_fault /\ u.last_va = J.page /\ J \in Translated(load) /\ J \in Jobs
      /\ J.page \in M!Page /\ J.ena /\ Settled /\ Current' = Current /\ load' = load /\ InFlight
      /\ a'.state = "WaitResponse" /\ a'.job = J /\ ~Done(e) /\ pend'[1] = pend[1]
      /\ u.last_page_size \in LastSizes(load) /\ u.resp # None /\ ~u.tlb_hit
  BY <1>1, LookFacts DEF MmuPart, LastInv, WalkInv
<1>3. /\ p \in M!Sizes /\ pte \in Entries /\ pte = Steps(Current, J.page)[p]
      /\ pte.flags \in SUBSET M!PteFlags /\ pte.ppn \in M!Page
      /\ "V" \notin pte.flags \/ ("R" \notin pte.flags /\ "W" \in pte.flags) => Refused(Current, J)
      /\ ~IsLeaf(pte) /\ p = 0 => Refused(Current, J)
      /\ Points(pte) => pte.ppn \in DOMAIN Current
      /\ IsLeaf(pte) => Leaf(Current, J.page) # None /\ Leaf(Current, J.page) = [size |-> p, pte |-> pte]
      /\ IsLeaf(pte) /\ "V" \in pte.flags =>
            /\ Refused(Current, J) <=> M!Forbids(pte.flags, u.req.write)
            /\ Target(Current, J) = M!Within(p, pte.ppn, J.page)
  BY EntryFacts
<1>4. u' = M!HandleResp_Next(u)
  BY <1>1, NextBy, BusyFacts, LookFacts
<1>5. ASSUME Refused(Current, J), u' = [u EXCEPT !.ex_page_fault = TRUE, !.state = "AcceptCore"]
      PROVE  MmuPart'
  <2>1. /\ u' \in Registers /\ u'.state = "AcceptCore" /\ u'.ex_page_fault /\ u'.resp = u.resp
        /\ u'.req = u.req /\ u'.req_flush = u.req_flush /\ u'.last_mmu_ena = u.last_mmu_ena
        /\ u'.last_va = u.last_va /\ u'.last_page_size = u.last_page_size
        /\ u'.tlb_flush_adr = u.tlb_flush_adr /\ u'.tlb_flush_cnt = u.tlb_flush_cnt
    BY <1>5 DEF Registers, M!MmuStates
  <2>2. bus' = None /\ data' \in [M!Page -> Values] /\ StoreInv'
    BY <1>2, <1>5, <2>1, InnerStep, RefusedStops
  <2>3. Goes(e)
    BY <1>1, <1>2, <2>1, <2>2, TlbSame DEF Goes
  <2>4. WalkInv' /\ FoundInv'
    BY <1>2, <1>5, <2>1 DEF WalkInv, FoundInv
  <2> QED BY <1>1, <2>3, <2>4, LookKeeps
<1> DEFINE bad == "V" \notin pte.flags \/ ("R" \notin pte.flags /\ "W" \in pte.flags)
<1>6. CASE bad
  <2>1. u' = [u EXCEPT !.ex_page_fault = TRUE, !.state = "AcceptCore"]
    BY <1>4, <1>6 DEF M!HandleResp_Next
  <2> QED BY <1>3, <1>5, <1>6, <2>1
<1>7. CASE ~bad /\ ~IsLeaf(pte) /\ p = 0
  <2>1. u' = [u EXCEPT !.ex_page_fault = TRUE, !.state = "AcceptCore"]
    BY <1>4, <1>7 DEF M!HandleResp_Next, IsLeaf
  <2> QED BY <1>3, <1>5, <1>7, <2>1
<1>8. CASE ~bad /\ ~IsLeaf(pte) /\ p # 0
  <2> DEFINE A == M!PteAt(pte.ppn, J.page, p - 1)
  <2>1. u' = [u EXCEPT !.state = "CacheReq", !.tlb_page_size = p - 1, !.req_pa = A]
    BY <1>2, <1>4, <1>8 DEF M!HandleResp_Next, IsLeaf
  <2>2. /\ p - 1 \in M!Sizes /\ p - 1 # Levels - 1 /\ (p - 1) + 1 = p
        /\ \A q \in M!Sizes : q > p - 1 => q = p \/ q > p
    BY <1>3, <1>8 DEF M!Sizes
  <2>3. Points(pte) /\ pte.ppn \in DOMAIN Current
    BY <1>3, <1>8 DEF Points
  <2>4. Current[pte.ppn][J.page[p - 1]] = Steps(Current, J.page)[p - 1]
    <3>1. Steps(Current, J.page)[p - 1] = StepTo(Current, J.page, Steps(Current, J.page)[p], p - 1)
      BY <2>2, StepsUnfold DEF StepOn
    <3> QED BY <1>3, <2>3, <3>1 DEF StepTo
  <2>5. A \in Addresses /\ A.page = pte.ppn /\ A.entry = J.page[p - 1]
    BY <1>2, <1>3, <2>2 DEF M!PteAt, Addresses, M!Page, Digits
  <2>6. OnTheWay(Current, J, p - 1)
    <3>1. OnTheWay(Current, J, p)
      BY DEF MmuPart, WalkInv
    <3> QED BY <1>3, <2>2, <2>3, <3>1 DEF OnTheWay
  <2> HIDE DEF A, J
  <2>7. /\ u' \in Registers /\ u'.state = "CacheReq" /\ u'.tlb_hit = u.tlb_hit /\ u'.req_pa = A
        /\ u'.tlb_page_size = p - 1
        /\ u'.req = u.req /\ u'.req_flush = u.req_flush /\ u'.last_mmu_ena = u.last_mmu_ena
        /\ u'.last_va = u.last_va /\ u'.last_page_size = u.last_page_size
        /\ u'.ex_page_fault = u.ex_page_fault
        /\ u'.tlb_flush_adr = u.tlb_flush_adr /\ u'.tlb_flush_cnt = u.tlb_flush_cnt
    BY <2>1, <2>2, <2>5 DEF Registers, M!MmuStates
  <2>8. bus' = None /\ data' \in [M!Page -> Values] /\ StoreInv'
    BY <2>7, InnerStep
  <2>9. Goes(e)
    BY <1>1, <1>2, <2>7, <2>8, TlbSame DEF Goes
  <2>10. WalkInv'
    BY <1>2, <2>3, <2>4, <2>5, <2>6, <2>7 DEF WalkInv
  <2>11. FoundInv'
    BY <1>2, <2>7 DEF FoundInv
  <2> QED BY <1>1, <2>9, <2>10, <2>11, LookKeeps
<1>9. CASE ~bad /\ IsLeaf(pte)
  <2> DEFINE A == M!DataAt(M!Within(p, pte.ppn, J.page))
             B == M!Within(p, pte.ppn, [q \in M!Sizes |-> 0])
             E == [va |-> J.page, pa |-> pte.ppn, size |-> p, flags |-> pte.flags]
             F == M!Forbids(pte.flags, u.req.write)
  <2>1. u' = [(IF F THEN [u EXCEPT !.ex_page_fault = TRUE, !.state = "AcceptCore"]
               ELSE [u EXCEPT !.state = "UpdateTlb"])
              EXCEPT !.last_permission = pte.flags, !.last_page_size = p,
                     !.tlb_wdata = E, !.req_pa = A, !.last_pa = B]
    BY <1>2, <1>4, <1>9 DEF M!HandleResp_Next, IsLeaf
  <2>2. B \in M!Page /\ \A q \in M!Sizes : q >= p => B[q] = pte.ppn[q]
    BY <1>3, DataAssumption DEF M!Within, M!Page, M!Sizes
  <2>3. M!Within(p, pte.ppn, J.page) \in M!Page
    BY <1>2, <1>3 DEF M!Within, M!Page
  <2>4. A \in Addresses
    BY <2>3 DEF M!DataAt, Addresses
  <2>5. E \in TlbEntries
    BY <1>2, <1>3 DEF TlbEntries
  <2>6. F <=> Refused(Current, J)
    BY <1>3, <1>9
  <2>7. A = M!DataAt(Target(Current, J))
    BY <1>3, <1>9
  <2>8. E.va = J.page /\ E.pa = pte.ppn /\ E.size = p /\ E.flags = pte.flags
    OBVIOUS
  <2> HIDE DEF A, B, E, F, J
  <2>9. /\ u' \in Registers /\ u'.state = (IF F THEN "AcceptCore" ELSE "UpdateTlb")
        /\ (u'.ex_page_fault <=> F)
        /\ u'.req_pa = A /\ u'.last_pa = B /\ u'.tlb_wdata = E /\ u'.last_page_size = p
        /\ u'.last_permission = pte.flags /\ u'.resp = u.resp /\ u'.tlb_hit = u.tlb_hit
        /\ u'.req = u.req /\ u'.req_flush = u.req_flush /\ u'.last_mmu_ena = u.last_mmu_ena
        /\ u'.last_va = u.last_va
        /\ u'.tlb_flush_adr = u.tlb_flush_adr /\ u'.tlb_flush_cnt = u.tlb_flush_cnt
    <3>1. CASE F
      BY <1>3, <2>1, <2>2, <2>4, <2>5, <3>1 DEF Registers, M!MmuStates
    <3>2. CASE ~F
      BY <1>2, <1>3, <2>1, <2>2, <2>4, <2>5, <3>2 DEF Registers, M!MmuStates
    <3> QED BY <3>1, <3>2
  <2>10. bus' = None /\ data' \in [M!Page -> Values] /\ StoreInv'
    BY <1>2, <2>6, <2>9, InnerStep, RefusedStops DEF J
  <2>11. Leaf(Current, J.page) # None /\ Leaf(Current, J.page).size = p /\ Leaf(Current, J.page).pte = pte
    BY <1>3, <1>9
  <2>12. p \in LastSizes(load)
    <3>1. version \in 1 .. Len(load.tables) /\ Current = load.tables[version]
      BY DEF AccessTypes, Current
    <3> QED BY <1>2, <1>3, <2>11, <3>1 DEF LastSizes
  <2>13. \A i \in 0 .. NTlb - 1 :
             tlb'[i] = None \/ GoodEntry(Current, load, u'.last_page_size, tlb'[i])
    <3>1. ASSUME NEW x, GoodEntry(Current, load, u.last_page_size, x)
          PROVE  GoodEntry(Current, load, p, x)
      <4>1. PICK k \in Translated(load) : ~Refused(Current, k) /\ x.va = k.page
        BY <3>1 DEF GoodEntry
      <4>2. k \in Jobs /\ k.ena
        BY DEF Translated
      <4>3. Leaf(Current, k.page) # None /\ Leaf(Current, k.page).size = x.size
        BY <3>1, <4>1, <4>2, TargetType DEF GoodEntry
      <4>4. OneSize(load, Current)
        BY RegularNow
      <4>5. x.size = p
        BY <1>2, <2>11, <4>3, <4>4 DEF OneSize
      <4> QED BY <3>1, <4>5 DEF GoodEntry
    <3>2. tlb' = tlb
      BY TlbStep
    <3>3. TlbInv
      BY DEF MmuPart
    <3>4. \A i \in 0 .. NTlb - 1 : tlb[i] = None \/ GoodEntry(Current, load, u.last_page_size, tlb[i])
      BY <1>2, <3>3 DEF TlbInv
    <3> QED BY <2>9, <3>1, <3>2, <3>4
  <2>14. Goes(e)
    BY <1>2, <2>9, <2>10, <2>12, <2>13 DEF Goes
  <2>15. WalkInv'
    BY <1>2, <2>9 DEF WalkInv
  <2>16. ASSUME ~F
         PROVE  LastRight(Current, load, u') /\ GoodEntry(Current, load, p, E) /\ E # None
    <3>1. LastRight(Current, load, u')
      BY <1>2, <2>2, <2>6, <2>9, <2>11, <2>16, LastOf
    <3>2. pte = [flags |-> pte.flags, ppn |-> pte.ppn]
      BY <1>3 DEF Entries
    <3>3. GoodEntry(Current, load, p, E)
      BY <1>2, <1>3, <1>9, <2>6, <2>8, <2>16, <3>2 DEF GoodEntry
    <3>4. E # None
      BY <2>5, NoneAssumption DEF TlbEntries
    <3> QED BY <3>1, <3>3, <3>4
  <2>17. FoundInv'
    <3>1. CASE F
      BY <1>2, <2>6, <2>9, <3>1 DEF FoundInv, J
    <3>2. CASE ~F
      BY <1>2, <2>6, <2>7, <2>9, <2>16, <3>2 DEF FoundInv, J
    <3> QED BY <3>1, <3>2
  <2> QED BY <1>1, <2>14, <2>15, <2>17, LookKeeps
<1> QED BY <1>6, <1>7, <1>8, <1>9

\* UpdateTlb: the translation goes to the buffer.
LEMMA UpdateTlbKeeps ==
    ASSUME NEW e, Known(e), u.state = "UpdateTlb"
    PROVE  MmuPart'
<1> USE KnownFacts
<1>1. Looking
  BY DEF Looking, Resting, Chained
<1>2. /\ ~u.ex_page_fault /\ Settled /\ Current' = Current /\ load' = load
      /\ a'.job = a.job /\ u.last_page_size \in LastSizes(load)
  BY <1>1, LookFacts DEF MmuPart, LastInv
<1>3. u' = [u EXCEPT !.state = "CacheReq", !.tlb_hit = TRUE]
  BY <1>1, NextBy, BusyFacts, LookFacts
<1>4. /\ u' \in Registers /\ u'.state = "CacheReq" /\ u'.tlb_hit /\ u'.req_pa = u.req_pa
      /\ u'.req = u.req /\ u'.req_flush = u.req_flush /\ u'.last_mmu_ena = u.last_mmu_ena
      /\ u'.last_va = u.last_va /\ u'.last_pa = u.last_pa /\ u'.last_page_size = u.last_page_size
      /\ u'.last_permission = u.last_permission /\ u'.ex_page_fault = u.ex_page_fault
      /\ u'.tlb_flush_adr = u.tlb_flush_adr /\ u'.tlb_flush_cnt = u.tlb_flush_cnt
  BY <1>3 DEF Registers, M!MmuStates
<1>5. bus' = None /\ data' \in [M!Page -> Values] /\ StoreInv'
  BY <1>4, InnerStep
<1>6. /\ LastRight(Current, load, u) /\ ~Refused(Current, a.job)
      /\ u.req_pa = M!DataAt(Target(Current, a.job))
      /\ GoodEntry(Current, load, u.last_page_size, u.tlb_wdata)
  BY DEF MmuPart, FoundInv
<1>7. \A i \in 0 .. NTlb - 1 :
          tlb'[i] = None \/ GoodEntry(Current, load, u'.last_page_size, tlb'[i])
  <2>1. PICK i \in 0 .. NTlb - 1 : tlb' = [tlb EXCEPT ![i] = u.tlb_wdata]
    BY TlbStep
  <2>2. TlbInv /\ tlb \in [0 .. NTlb - 1 -> {None} \cup TlbEntries]
    BY DEF MmuPart, MmuTypes
  <2>3. \A k \in 0 .. NTlb - 1 : tlb[k] = None \/ GoodEntry(Current, load, u.last_page_size, tlb[k])
    BY <1>2, <2>2 DEF TlbInv
  <2>4. \A k \in 0 .. NTlb - 1 : tlb'[k] = u.tlb_wdata \/ tlb'[k] = tlb[k]
    BY <2>1, <2>2
  <2> QED BY <1>4, <1>6, <2>3, <2>4
<1>8. Goes(e)
  BY <1>1, <1>2, <1>4, <1>5, <1>7 DEF Goes
<1>9. WalkInv'
  BY <1>4 DEF WalkInv
<1>10. FoundInv'
  <2>1. LastRight(Current, load, u')
    BY <1>4, <1>6 DEF LastRight
  <2> QED BY <1>2, <1>4, <1>6, <2>1 DEF FoundInv
<1> QED BY <1>1, <1>8, <1>9, <1>10, LookKeeps

\* AcceptCore: the response; after a page fault the last page is one that nobody uses.
LEMMA AcceptCoreKeeps ==
    ASSUME NEW e, Known(e), u.state = "AcceptCore"
    PROVE  MmuPart'
<1> USE KnownFacts
<1>1. Looking
  BY DEF Looking, Resting, Chained
<1>2. /\ ~Resting /\ ~Chained /\ Settled /\ ~u.req_flush /\ a.job \in Translated(load)
      /\ ~M!Connected(u, Uin(e)) /\ ~In(e).ready
      /\ u.last_page_size \in LastSizes(load)
  BY <1>1, LookFacts DEF MmuPart, LastInv
<1>3. u' = M!AcceptCore_Next(u) /\ bus = None
  BY <1>2, NextBy, BusyFacts
<1>4. Mreq(e) = None
  BY <1>2 DEF Mreq, M!MemReq
<1>5. M!Top \in M!Page
  BY DataAssumption DEF M!Top, M!Page
<1>6. /\ u' \in Registers /\ u'.state = "Idle" /\ ~u'.req_flush
      /\ u'.last_page_size = u.last_page_size /\ u'.last_permission = u.last_permission
      /\ u'.last_mmu_ena = u.last_mmu_ena
      /\ u'.tlb_flush_adr = u.tlb_flush_adr /\ u'.tlb_flush_cnt = u.tlb_flush_cnt
      /\ u.ex_page_fault => u'.last_va = M!Top
      /\ ~u.ex_page_fault => u'.last_va = u.last_va /\ u'.last_pa = u.last_pa
  BY <1>2, <1>3, <1>5 DEF M!AcceptCore_Next, Registers, M!MmuStates
<1>7. Sent
  BY DEF Sent
<1>8. Rsp # None
  <2>1. Rsp = [data |-> u.resp.data, fault |-> u.resp.fault, page_fault |-> u.ex_page_fault]
    BY ResponseIs
  <2>2. u.resp \in Answers /\ u.ex_page_fault \in BOOLEAN
    BY DEF MmuPart, FoundInv, Registers
  <2>3. Rsp \in [data : Values, fault : BOOLEAN, page_fault : BOOLEAN]
    BY <2>1, <2>2 DEF Answers
  <2> QED BY <2>3, NoneAssumption
<1>9. CASE u.ex_page_fault
  <2>1. Refused(Current, a.job)
    BY <1>9 DEF MmuPart, FoundInv
  <2>2. \A k \in Translated(load) : ~M!SamePage(u.last_page_size, k.page, M!Top)
    BY <1>2, <2>1, RegularNow DEF TopUnused
  <2> QED BY <1>2, <1>3, <1>4, <1>6, <1>7, <1>8, <1>9, <2>2, EndsIdle
<1>10. CASE ~u.ex_page_fault
  <2>1. LastRight(Current, load, u)
    BY <1>10 DEF MmuPart, FoundInv
  <2>2. LastRight(Current, load, u')
    BY <1>6, <1>10, <2>1 DEF LastRight
  <2> QED BY <1>2, <1>3, <1>4, <1>6, <1>7, <1>8, <2>2, EndsIdle
<1> QED BY <1>9, <1>10

----------------------------------------------------------------------------
(***************************************************************************)
(* The theorems.                                                           *)
(***************************************************************************)
\* Every clock keeps the invariant.
LEMMA StepKeeps ==
    ASSUME NEW e, Known(e)
    PROVE  PathInv'
<1> USE KnownFacts
<1>1. u.state = "Idle" => MmuPart'
  <2>1. u.req_flush \/ Off(e) = None \/ (M!Direct(u, Uin(e)) /\ ~e.ready)
        \/ (Off(e) # None /\ M!Direct(u, Uin(e)) /\ e.ready)
        \/ (Off(e) # None /\ ~u.req_flush /\ ~M!Direct(u, Uin(e)))
    OBVIOUS
  <2> QED BY <2>1, IdleRests, IdleSends, IdleLooks
<1>2. Chained => MmuPart'
  BY ChainWaits, ChainEnds, ChainSends
<1>3. MmuPart'
  BY <1>1, <1>2, FlushRests, CheckTlbKeeps, CacheReqKeeps, WaitRespKeeps, HandleRespKeeps,
     UpdateTlbKeeps, AcceptCoreKeeps DEF Chained, M!MmuStates
<1>4. AccessTypes' /\ RightInv'
  BY RightKeeps, ResponseIs
<1>5. AccessInv' /\ FenceInv'
  BY AccessKeeps, FenceKeeps
<1>6. Judged'
  BY JudgedKeeps
<1> QED BY <1>3, <1>4, <1>5, <1>6 DEF PathInv, MmuPart

\* A behaviour starts in the invariant.
LEMMA StartsRight ==
    ASSUME DataInit
    PROVE  PathInv
<1> USE DEF DataInit
<1>1. /\ Levels \in Nat \ {0} /\ NDigits \in Nat \ {0} /\ NTlb \in Nat \ {0} /\ Root \in M!Page
      /\ 0 \in Values /\ Depth \in Nat \ {0} /\ Len(load.tables) \in Nat \ {0}
  BY DataAssumption, QueueAssumption
<1>2. NoWord \in Data
  BY DataAssumption DEF NoWord
<1>3. pend = << >> /\ Len(pend) = 0 /\ wcnt = 0 /\ fence = "none" /\ bus = None
  OBVIOUS
<1>4. AccessTypes
  <2>1. TypeOK
    BY <1>1, <1>2 DEF TypeOK, Places
  <2>2. a \in [state : AccessStates, valid : BOOLEAN, job : {None} \cup load.jobs,
               hold : {None} \cup Values]
    BY DEF AccessReset, AccessStates
  <2>3. pend \in Seq(Pending(load)) /\ done \in [M!Page -> Values] /\ version \in 1 .. Len(load.tables)
    BY <1>1
  <2> QED BY <2>1, <2>2, <2>3 DEF AccessTypes
<1>5. MmuTypes
  <2>1. M!Top \in M!Page /\ 0 \in M!Sizes
    BY <1>1 DEF M!Top, M!Page, M!Sizes
  <2>2. M!DataAt(Root) \in Addresses
    BY <1>1 DEF M!DataAt, Addresses
  <2>3. u \in Registers
    BY <1>1, <2>1, <2>2 DEF M!MmuReset, Registers, M!MmuStates
  <2> QED BY <1>1, <2>3 DEF MmuTypes
<1>6. a.state = "Idle" /\ ~a.valid /\ u.state = "FlushTlb" /\ u.tlb_wdata = None
      /\ u.tlb_flush_cnt = NTlb - 1 /\ u.tlb_flush_adr = 0 /\ u.last_page_size = 0
  BY DEF AccessReset, M!MmuReset
<1>7. AccessInv /\ RightInv /\ FenceInv
  <2>1. Ahead = 0 /\ ~InFlight
    BY <1>6 DEF Ahead, InFlight
  <2> QED BY <1>3, <1>6, <2>1 DEF AccessInv, RightInv, FenceInv
<1>8. BusyInv /\ ChainInv /\ LookInv /\ WalkInv /\ FoundInv /\ HoldInv
  BY <1>3, <1>6 DEF BusyInv, ChainInv, LookInv, WalkInv, FoundInv, HoldInv, Resting, Chained, Looking
<1>9. LastInv
  <2>1. 0 \in M!Sizes
    BY <1>1 DEF M!Sizes
  <2> QED BY <1>6, <2>1 DEF LastInv, LastSizes
<1>10. TlbInv
  <2>1. 0 + (NTlb - 1) = NTlb - 1 /\ \A i \in 0 .. NTlb - 1 : ~(i < 0)
    BY <1>1
  <2> QED BY <1>6, <2>1 DEF TlbInv
<1>11. StoreInv /\ Judged
  <2>1. \A p \in M!Page : done[p] = data[p]
    OBVIOUS
  <2> QED BY <1>3, <2>1, OrderEmpty DEF StoreInv, Judged
<1> QED BY <1>4, <1>5, <1>7, <1>8, <1>9, <1>10, <1>11 DEF PathInv

\* A step that changes nothing keeps it.
LEMMA StutterKeeps ==
    ASSUME PathInv, UNCHANGED dvars
    PROVE  PathInv'
<1> USE DEF PathInv
<1>1. /\ wcnt' = wcnt /\ mem' = mem /\ got' = got /\ a' = a /\ u' = u /\ tlb' = tlb /\ rdata' = rdata
      /\ load' = load /\ bus' = bus /\ data' = data /\ version' = version /\ fence' = fence
      /\ done' = done /\ pend' = pend /\ judged' = judged
  BY DEF dvars, envvars
<1>2. Current' = Current /\ (Sent' <=> Sent)
  BY <1>1 DEF Current, Sent, Chained
<1>3. AccessTypes' /\ MmuTypes' /\ FenceInv' /\ Judged'
  BY <1>1 DEF AccessTypes, TypeOK, MmuTypes, FenceInv, Quiet, Judged
<1>4. AccessInv' /\ RightInv'
  BY <1>1, <1>2 DEF AccessInv, RightInv, Ahead, InFlight
<1>5. BusyInv' /\ ChainInv' /\ LookInv' /\ WalkInv'
  BY <1>1, <1>2 DEF BusyInv, ChainInv, LookInv, WalkInv, Resting, Chained, Looking, Settled
<1>6. FoundInv' /\ LastInv' /\ HoldInv' /\ TlbInv'
  BY <1>1, <1>2 DEF FoundInv, LastInv, HoldInv, TlbInv, Clearing, Settled
<1>7. StoreInv'
  <2>1. Sent' = Sent
    BY <1>2 DEF Sent, Chained
  <2> QED BY <1>1, <1>2, <2>1 DEF StoreInv
<1> QED BY <1>3, <1>4, <1>5, <1>6, <1>7

\* Page tables that the shortcuts of mmu.cpp are right for: every reachable state satisfies
\* the invariant, for every program, depth of the queue and of the tables, and size of the
\* translation buffer.
THEOREM PathInvariant ==
    ASSUME AllRegular
    PROVE  DataSpec => []PathInv
<1>1. DataInit => PathInv
  BY StartsRight
<1>2. PathInv /\ [DataNext]_dvars => PathInv'
  <2> SUFFICES ASSUME PathInv, [DataNext]_dvars
               PROVE  PathInv'
    OBVIOUS
  <2>1. CASE UNCHANGED dvars
    BY <2>1, StutterKeeps
  <2>2. CASE DataNext
    <3>1. PICK e \in Env : (e.remap => e.job = None) /\ DataClock(e)
      BY <2>2 DEF DataNext
    <3>2. Known(e)
      BY <3>1 DEF Known, Step
    <3> QED BY <3>2, StepKeeps
  <2> QED BY <2>1, <2>2
<1> QED BY <1>1, <1>2, PTL DEF DataSpec

\* Every operation completes with what the program order and the page tables define
\* (WaitResponse and Hold of memaccess.cpp behind all states of mmu.cpp).
THEOREM PathCompletesInOrder ==
    ASSUME AllRegular
    PROVE  DataSpec => []CompletesInOrder
<1>1. PathInv => CompletesInOrder
  BY DEF PathInv, Judged, CompletesInOrder
<1> QED BY <1>1, PathInvariant, PTL

\* The data cache is told to flush between the operations before the flush and those behind
\* it (o_flushd of memaccess.cpp).
THEOREM PathFlushInOrder ==
    ASSUME AllRegular
    PROVE  DataSpec => []FlushInOrder
<1>1. PathInv => FlushInOrder
  BY DEF PathInv, Judged, FlushInOrder
<1> QED BY <1>1, PathInvariant, PTL

\* No store is lost, doubled or misdirected (CacheReq, Idle and the Wait states of mmu.cpp).
THEOREM PathStoresArrive ==
    ASSUME AllRegular
    PROVE  DataSpec => []StoresArrive
<1>1. PathInv => StoresArrive
  <2> SUFFICES ASSUME PathInv PROVE StoresArrive
    OBVIOUS
  <2> USE DEF PathInv
  <2>1. wcnt \in 0 .. Depth /\ Depth \in Nat /\ Ahead \in {0, 1} /\ Len(pend) = Ahead + wcnt
    BY QueueAssumption DEF AccessTypes, TypeOK, AccessInv, Ahead
  <2>2. Len(pend) <= Depth + 1
    BY <2>1
  <2>3. DataTypeOK
    BY <2>2 DEF DataTypeOK, AccessTypes, MmuTypes, Registers
  <2>4. Quiet => data = done
    <3> SUFFICES ASSUME Quiet PROVE data = done
      OBVIOUS
    <3>1. Len(pend) = 0
      BY DEF Quiet
    <3>2. \A p \in M!Page : done[p] = data[p]
      BY <3>1, OrderEmpty DEF StoreInv
    <3> QED BY <3>2 DEF AccessTypes, MmuTypes
  <2> QED BY <2>3, <2>4 DEF StoresArrive
<1> QED BY <1>1, PathInvariant, PTL

\* the workload of a run is one of the parameter, and stays what it is
Loaded == load \in Workloads

\* In the path, too, the shift register is the queue of QueueFifo, whatever the tables.
THEOREM PathImplementsFifo == DataSpec => IsFifo
<1>1. DataInit => Init /\ Loaded
  <2>1. NoWord \in Data
    BY DataAssumption DEF NoWord
  <2> QED BY <2>1 DEF DataInit, Init, Loaded
<1>2. ASSUME Loaded, [DataNext]_dvars
      PROVE  Loaded' /\ [Next]_vars
  <2> USE <1>2 DEF Loaded
  <2>1. CASE UNCHANGED dvars
    BY <2>1 DEF dvars, envvars, vars
  <2>2. CASE DataNext
    <3>1. PICK e \in Env : DataClock(e)
      BY <2>2 DEF DataNext
    <3> DEFINE x == IF e.job = None THEN NoWord ELSE e.job
    <3>2. load' = load /\ Clock(Re(e), We(e), x)
      BY <3>1, ClockIs
    <3>3. x \in Data
      BY DataAssumption, EnvFacts DEF NoWord
    <3>4. Re(e) \in BOOLEAN /\ We(e) \in BOOLEAN
      BY DEF Re, QueueRe, We
    <3> HIDE DEF x
    <3>5. Next
      BY <3>2, <3>3, <3>4 DEF Next
    <3> QED BY <3>2, <3>5
  <2> QED BY <2>1, <2>2, <1>2
<1>3. Loaded /\ [DataNext]_dvars => Loaded'
  BY <1>2
<1>4. Loaded /\ [DataNext]_dvars => [Next]_vars
  BY <1>2
<1>5. DataInit => Init
  BY <1>1
<1>6. DataInit => Loaded
  BY <1>1
<1>7. DataSpec => []Loaded
  BY <1>3, <1>6, PTL DEF DataSpec
<1>8. DataSpec => Spec
  BY <1>4, <1>5, <1>7, PTL DEF DataSpec, Spec
<1> QED BY <1>8, ImplementsFifo, PTL
=============================================================================
