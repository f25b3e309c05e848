---------------------------- MODULE TagMemNWay -----------------------------
(***************************************************************************)
(* Set-associative tag and data memory of the L1 data cache and of the L2  *)
(* cache: sc/rtl/riverlib/cache/tagmemnway.h, with the way memories of     *)
(* tagmem.h and the replacement table of lrunway.h.                        *)
(*                                                                         *)
(* The memories are synchronous: what is on the output belongs to the      *)
(* address registered one clock ago, and a write in a clock goes to the    *)
(* set addressed in that clock but to the way selected by the previous     *)
(* one.  A bus address is abstracted to the record                         *)
(*     [tag, set, word, way]                                               *)
(* where word is the 64-bit word of the line and way stands for the low    *)
(* byte-offset bits that select a way under direct access.                 *)
(***************************************************************************)
EXTENDS Integers, FiniteSets

CONSTANTS
    Ways,       \* NWAYS = 1 << waybits
    NSets,      \* lines per way = 1 << ibits
    Tags,       \* tag part of an address
    Words,      \* 64-bit words of a line
    Values      \* contents of a word; 0 is the reset value

ASSUME NWayAssumption == Ways \in Nat \ {0} /\ NSets \in Nat \ {0}
ASSUME DataAssumption == 0 \in Tags /\ 0 \in Words /\ 0 \in Values

Sets == 0 .. NSets - 1
Way  == 0 .. Ways - 1
Flags == {"VALID", "DIRTY", "SHARED", "RESERVED"}
Line == [Words -> Values]
Addr == [tag : Tags, set : Sets, word : Words, way : Way]
Entry == [tag : Tags, flags : SUBSET Flags, data : Line]

ZeroLine == [w \in Words |-> 0]
ZeroAddr == [tag |-> 0, set |-> 0, word |-> 0, way |-> 0]

VARIABLES
    ram,    \* tag0, tagsnoop0 and data0 of every way: [Sets -> [Way -> Entry]]
    lru,    \* rows of lru0
    rd      \* the registers: address and controls of the previous clock

tagvars == <<ram, lru, rd>>

Lru0 == INSTANCE LruNWay WITH mem <- lru, radr <- rd.addr.set

ReadRegisters == [addr : Addr, direct : BOOLEAN, invalidate : BOOLEAN,
                  re : BOOLEAN, snoop : Addr]

TagTypeOK ==
    /\ ram \in [Sets -> [Way -> Entry]]
    /\ lru \in [Sets -> [Way -> Way]]
    /\ rd \in ReadRegisters

TagInit ==
    /\ ram = [s \in Sets |-> [w \in Way |->
                [tag |-> 0, flags |-> {}, data |-> ZeroLine]]]
    /\ lru = [s \in Sets |-> [w \in Way |-> 0]]
    /\ rd = [addr |-> ZeroAddr, direct |-> FALSE, invalidate |-> FALSE,
             re |-> FALSE, snoop |-> ZeroAddr]

----------------------------------------------------------------------------
\* Outputs for the address of the previous clock

WayHit(w) == /\ ram[rd.addr.set][w].tag = rd.addr.tag
             /\ "VALID" \in ram[rd.addr.set][w].flags

\* the highest way that hits wins the loop of the source
HitIdx ==
    IF rd.direct THEN rd.addr.way
    ELSE IF \E w \in Way : WayHit(w)
         THEN CHOOSE w \in Way : WayHit(w) /\ \A x \in Way : WayHit(x) => x <= w
         ELSE Lru0!Lru

Hit == WayHit(HitIdx)
Out == ram[rd.addr.set][HitIdx]
RAddr == [tag |-> Out.tag, set |-> rd.addr.set, word |-> 0, way |-> 0]

SnoopWays == {w \in Way : /\ ram[rd.snoop.set][w].tag = rd.snoop.tag
                          /\ "VALID" \in ram[rd.snoop.set][w].flags}

\* flags of the line addressed by the snoop port one clock ago, {} without hit
SnoopFlags ==
    IF SnoopWays = {} THEN {}
    ELSE LET w == CHOOSE w \in SnoopWays : \A x \in SnoopWays : x <= w
         IN  ram[rd.snoop.set][w].flags

----------------------------------------------------------------------------
(***************************************************************************)
(* One clock.  c is a record of the control inputs and the write data:     *)
(*   direct, invalidate, re, we : BOOLEAN;  addr, snoop : Addr;            *)
(*   wdata : Line;  wstrb : SUBSET Words;  wflags : SUBSET Flags           *)
(* A pending invalidation overrides strobes and flags and, on a hit,       *)
(* writes without i_we.                                                    *)
(***************************************************************************)
WayWe(we) == we \/ (rd.invalidate /\ Hit)

\* while a way is written the snoop port of the tags is not available
SnoopReady(we) == ~WayWe(we)

Written(c) ==
    LET strb == IF rd.invalidate THEN Words ELSE c.wstrb
    IN  [tag   |-> c.addr.tag,
         flags |-> IF rd.invalidate THEN {} ELSE c.wflags,
         data  |-> [w \in Words |-> IF w \in strb THEN c.wdata[w]
                                    ELSE ram[c.addr.set][HitIdx].data[w]]]

TagClock(c) ==
    /\ ram' = IF WayWe(c.we) /\ (rd.invalidate \/ c.wstrb # {})
              THEN [ram EXCEPT ![c.addr.set][HitIdx] = Written(c)]
              ELSE ram
    /\ rd' = [addr |-> c.addr, direct |-> c.direct, invalidate |-> c.invalidate,
              re |-> c.re, snoop |-> c.snoop]
    /\ Lru0!TableClock(rd.direct, c.we \/ (Hit /\ rd.re), Hit /\ rd.invalidate,
                  c.addr.set, HitIdx)
============================================================================
