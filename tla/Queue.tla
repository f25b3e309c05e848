------------------------------- MODULE Queue -------------------------------
(***************************************************************************)
(* Request queue of CacheTop and MemAccess: sc/rtl/riverlib/core/queue.h.  *)
(* The words lie in a shift register; wcnt counts them.  The output is     *)
(* combinational, so a word that is written to the empty queue and read in *)
(* the same clock never enters the shift register.                         *)
(***************************************************************************)
EXTENDS Integers, Sequences

CONSTANTS
    Depth,      \* DEPTH = 2^abits
    Data,       \* values of dbits bits
    None        \* no word is taken in a clock

\* at least one place, and None is not a word
ASSUME QueueAssumption == Depth \in Nat \ {0} /\ None \notin Data

VARIABLES
    wcnt, mem,  \* the registers
    got         \* the word taken from o_rdata in the last clock, or None

vars == <<wcnt, mem, got>>

Places == 0 .. Depth - 1

\* only wcnt is reset; mem holds anything
Init == wcnt = 0 /\ mem \in [Places -> Data] /\ got = None

\* the words one place further, the last place unchanged
Shifted == [i \in Places |-> IF i + 1 \in Places THEN mem[i + 1] ELSE mem[i]]

\* o_nempty and o_rdata see a word on its way in
Nempty(we) == we \/ wcnt # 0
Rdata(x) == IF wcnt = 0 THEN x ELSE mem[0]

\* i_re and i_we: the word goes behind the last one after the shift
WriteRead(x) ==
    /\ mem' = IF wcnt = 0 THEN Shifted ELSE [Shifted EXCEPT ![wcnt - 1] = x]
    /\ wcnt' = wcnt

\* i_we only: nothing changes when all places are taken
Write(x) ==
    IF wcnt = Depth THEN UNCHANGED <<wcnt, mem>>
    ELSE mem' = [mem EXCEPT ![wcnt] = x] /\ wcnt' = wcnt + 1

\* the words stay where they are
Read_NotShifted == wcnt' = (IF wcnt = 0 THEN 0 ELSE wcnt - 1) /\ UNCHANGED mem

\* i_re only
Read ==
    /\ wcnt' = IF wcnt = 0 THEN 0 ELSE wcnt - 1
    /\ mem' = Shifted

Clock(re, we, x) ==
    /\ got' = IF re /\ Nempty(we) THEN Rdata(x) ELSE None
    /\ \/ re /\ we /\ WriteRead(x)
       \/ ~re /\ we /\ Write(x)
       \/ re /\ ~we /\ Read
       \/ ~re /\ ~we /\ UNCHANGED <<wcnt, mem>>

Next == \E re, we \in BOOLEAN, x \in Data : Clock(re, we, x)

Spec == Init /\ [][Next]_vars

----------------------------------------------------------------------------
\* Type invariant: the count stays within the shift register.
TypeOK ==
    /\ wcnt \in 0 .. Depth
    /\ mem \in [Places -> Data]
    /\ got \in Data \cup {None}

\* the words in the shift register, the oldest first
Queued == [i \in 1 .. wcnt |-> mem[i - 1]]

Fifo == INSTANCE QueueFifo WITH q <- Queued

\* The shift register implements the queue: the words come out once each and
\* in the order in which they went in, a word that is written and read in one
\* clock included, and a word offered to the full queue changes nothing
\* (core/queue.h:96-137).
IsFifo == Fifo!FifoSpec
============================================================================
