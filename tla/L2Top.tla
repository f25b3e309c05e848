------------------------------- MODULE L2Top -------------------------------
(***************************************************************************)
(* The second level of the memory: sc/rtl/riverlib/l2cache/l2_top.cpp,     *)
(* the destination port and the L2 cache clock by clock, between L1 caches *)
(* and the memory.  Of an L1 cache there is what the port sees: it asks    *)
(* for a line to read or to own, gives an owned line back, and answers a   *)
(* snoop of a line it owns with its newest contents, at once (how it does  *)
(* that is the subject of CoherentL1).  The memory takes one request at a  *)
(* time and answers after any number of clocks; the path to it is the      *)
(* subject of BusSystem.                                                   *)
(***************************************************************************)
EXTENDS L2CacheLru

CONSTANTS
    Slots,      \* L1 caches at the port
    Uncached,   \* tags that are accessed without the caches
    Faulty,     \* tags at which every access of the memory fails
    Workloads   \* each the lines used, those written with values, the slots,
                \* the slots that own lines, and whether there are flushes

ASSUME L2Assumption ==
    /\ Slots # {} /\ Slots \subseteq Nat /\ None \notin Slots /\ Uncached \subseteq Tags /\ Faulty \subseteq Tags
    /\ Workloads \subseteq [lines : SUBSET (Tags \X Sets), marked : SUBSET (Tags \X Sets),
                            slots : SUBSET Slots, owners : SUBSET Slots,
                            flushes : BOOLEAN]

\* no address, no line, no request and no answer: distinct from every one
ASSUME NoneAssumption ==
    /\ None \notin Addr \cup Line
    /\ None \notin [addr : Addr, cached : BOOLEAN, unique : BOOLEAN, instr : {FALSE},
                   data : Line \cup {None}]
    /\ None \notin [type : ReqTypes, addr : Addr, wdata : Line \cup {None}]
    /\ None \notin [type : ReqTypes, wdata : Line, strb : {Words}]
    /\ None \notin [type : MemTypes, addr : Addr, data : Line, strb : {Words}]
    /\ None \notin [data : Line, fault : BOOLEAN] \cup {"unasked", "misled", "stale"}

Places == Tags \X Sets
At(a) == <<a.tag, a.set>>

VARIABLES
    d,      \* the registers of the port
    adr,    \* address of the last request, which the port goes on to show
    mem,    \* the memory: [Places -> Line]
    bus,    \* request taken by the memory and not answered, or None
    owner,  \* the slot that may change a line without asking, or None
    newest, \* the contents a reader of a line has to see
    load,   \* the workload of this behaviour
    spared, \* no flush was requested since the last answer
    told,   \* judgement on the answer of the last clock, or None
    clk     \* tells clocks apart in which nothing else changes

state == <<l2vars, d, adr, mem, bus, owner, newest, load, spared, told>>
vars == <<state, clk>>

Port == INSTANCE L2Destination WITH Addrs <- Addr, Lines <- Line

Init ==
    /\ L2Init /\ Port!DstInit
    /\ adr = ZeroAddr
    /\ mem = [p \in Places |-> ZeroLine] /\ newest = mem
    /\ bus = None /\ owner = [p \in Places |-> None]
    /\ load \in Workloads /\ spared = TRUE /\ told = None /\ clk = FALSE

----------------------------------------------------------------------------
(***************************************************************************)
(* The L1 caches.  A cache asks for a line it does not own, claims a line  *)
(* nobody owns and of which it has a copy, and writes back a line it owns. *)
(***************************************************************************)
\* an uncached access writes one word, in the low bytes of the line (dcache_lru.cpp)
Contents(p) ==
    IF p \notin load.marked THEN {ZeroLine}
    ELSE IF p[1] \in Uncached THEN {x \in Line : \A w \in Words \ {0} : x[w] = 0}
    ELSE Line

Quiet == [ar |-> None, aw |-> None, ac_ready |-> TRUE, cr_valid |-> TRUE,
          cr_resp |-> FALSE, cd |-> None]

Request(p, unique, data) ==
    [addr |-> [tag |-> p[1], set |-> p[2], word |-> 0, way |-> 0],
     cached |-> p[1] \notin Uncached, unique |-> unique, instr |-> FALSE, data |-> data]

Read(p, unique) == [Quiet EXCEPT !.ar = Request(p, unique, None)]
Write(p, unique, data) == [Quiet EXCEPT !.aw = Request(p, unique, data)]

Wishes(i) ==
    {Quiet} \cup
    UNION {IF p[1] \in Uncached
           THEN {Read(p, FALSE)} \cup {Write(p, FALSE, x) : x \in Contents(p)}
           ELSE IF owner[p] = i THEN {Write(p, FALSE, newest[p])}
           ELSE {Read(p, FALSE)} \cup
                IF i \notin load.owners THEN {}
                ELSE {Read(p, TRUE)} \cup
                     IF owner[p] # None \/ p[1] \in Faulty THEN {}
                     ELSE {Write(p, TRUE, x) : x \in Contents(p)} : p \in load.lines}

\* one slot has a wish when the port looks; the owner of a line answers snoops
L1os ==
    IF d.state = "Idle"
    THEN UNION {{[j \in Slots |-> IF j = i THEN w ELSE Quiet] : w \in Wishes(i)} : i \in load.slots}
    ELSE {[j \in Slots |-> IF owner[At(d.addr)] = j
                           THEN [Quiet EXCEPT !.cr_resp = TRUE, !.cd = newest[At(d.addr)]]
                           ELSE Quiet]}

----------------------------------------------------------------------------
(***************************************************************************)
(* The memory.                                                             *)
(***************************************************************************)
Answer ==
    [data  |-> IF bus.type \in {"ReadShared", "ReadMakeUnique", "ReadNoSnoop"}
               THEN mem[At(bus.addr)] ELSE ZeroLine,
     fault |-> bus.addr.tag \in Faulty]

Memory(in) ==
    /\ bus' = IF r.mem_valid /\ in.mem_ready
              THEN [type |-> r.mem_type, addr |-> r.mem_addr, data |-> r.line_o,
                    strb |-> r.mem_strb]
              ELSE IF in.mem # None THEN None ELSE bus
    /\ mem' = IF in.mem # None /\ bus.type \in {"WriteBack", "WriteNoSnoop"}
                 /\ bus.addr.tag \notin Faulty
              THEN [mem EXCEPT ![At(bus.addr)] =
                       [w \in Words |-> IF w \in bus.strb THEN bus.data[w] ELSE @[w]]]
              ELSE mem

----------------------------------------------------------------------------
(***************************************************************************)
(* What an answer of the L2 cache means to the slot that asked: x are the  *)
(* contents the owner of a line gives it at once.                          *)
(***************************************************************************)
Judge(resp) ==
    LET p == At(d.addr)
        got == Port!R(d.srcid, resp)
    IN  IF d.state \notin {"ReadMem", "WriteMem"} THEN "unasked"
        ELSE IF resp.fault # (p[1] \in Faulty) THEN "misled"
        ELSE IF d.state = "ReadMem" /\ ~resp.fault /\ got.data # newest[p] THEN "stale"
        ELSE "good"

Served(resp, x) ==
    LET p == At(d.addr)
        unique == "UNIQUE" \in d.type
        done == resp # None /\ d.state \in {"ReadMem", "WriteMem"} /\ ~resp.fault
    IN  /\ told' = IF resp = None THEN None ELSE Judge(resp)
        /\ owner' = IF ~done THEN owner
                    ELSE [owner EXCEPT ![p] = IF unique THEN d.srcid ELSE None]
        /\ newest' = IF ~done \/ (d.state = "ReadMem" /\ ~unique) THEN newest
                     ELSE [newest EXCEPT ![p] = IF d.state = "ReadMem" THEN x ELSE d.wdata]

\* the port puts a new address on its bus one clock early
BusAddr_Early(l1o) ==
    LET i == Port!SrcId(l1o) IN
    IF d.state = "Idle" /\ i # None
    THEN IF l1o[i].aw # None THEN l1o[i].aw.addr ELSE l1o[i].ar.addr
    ELSE IF d.addr # None THEN d.addr ELSE adr

\* o_req_addr: the register req_addr of the port keeps the last address
BusAddr(l1o) == IF d.addr # None THEN d.addr ELSE adr

Step(l1o, in, x) ==
    /\ L2Clock(in)
    /\ Port!DstClock(l1o, L2ReqReady(in), L2Resp(in))
    /\ Memory(in)
    /\ Served(L2Resp(in), x)
    /\ adr' = BusAddr(l1o)
    /\ spared' = (L2Resp(in) # None \/ (spared /\ ~in.flush))
    /\ UNCHANGED load
    /\ clk' = (UNCHANGED state /\ ~clk)

Input(l1o, flush, ready, answer) ==
    [req |-> IF Port!L2Req = None THEN None
             ELSE [type |-> d.type,
                   wdata |-> IF d.wdata = None THEN ZeroLine ELSE d.wdata,
                   strb |-> Words],
     addr |-> BusAddr(l1o), flush |-> flush, mem_ready |-> ready,
     mem |-> IF answer THEN Answer ELSE None]

(***************************************************************************)
(* The end of a flush of a data cache requests one of the L2 cache         *)
(* (river_top.cpp, o_flush_l2), which takes long: at most one between two  *)
(* answers.                                                                *)
(***************************************************************************)
Next ==
    \E l1o \in L1os,
       flush \in (IF load.flushes /\ spared THEN BOOLEAN ELSE {FALSE}),
       ready \in (IF r.mem_valid THEN BOOLEAN ELSE {FALSE}),
       answer \in (IF bus = None THEN {FALSE} ELSE BOOLEAN),
       x \in (IF d.state = "ReadMem" /\ "UNIQUE" \in d.type
              THEN Contents(At(d.addr)) ELSE {ZeroLine}) :
          Step(l1o, Input(l1o, flush, ready, answer), x)

\* the memory takes and answers requests
MemoryFair == []<>(~r.mem_valid) /\ []<>(bus = None)

\* the clock runs
Spec == Init /\ [][Next]_vars /\ []<><<TRUE>>_vars /\ MemoryFair

----------------------------------------------------------------------------
\* Properties

TypeOK ==
    /\ L2TypeOK /\ Port!DstTypeOK /\ adr \in Addr
    /\ mem \in [Places -> Line] /\ newest \in [Places -> Line]
    /\ owner \in [Places -> Slots \cup {None}]

(***************************************************************************)
(* Every answer of the L2 cache belongs to the request of the port, and a  *)
(* read returns the newest contents of its line, whoever wrote them last   *)
(* and wherever they are: in an L1 cache, in the L2 cache, dirty or clean, *)
(* or in the memory (State_CheckHit .. State_WriteBus).                    *)
(***************************************************************************)
L2ReadsNewest == TypeOK /\ told \notin {"unasked", "misled", "stale"}

(***************************************************************************)
(* Between two requests every valid line of the L2 cache is the only one   *)
(* with its address, holds the newest contents, and is owned by no L1      *)
(* cache: the invalidation of a line given away, which takes effect in the *)
(* clock after the answer and in the set the port addresses by then, has   *)
(* met that line.                                                          *)
(***************************************************************************)
L2HoldsNewest ==
    d.state = "Idle" /\ r.state = "Idle" /\ ~rd.invalidate =>
       \A s \in Sets, w \in Way :
          LET p == <<ram[s][w].tag, s>> IN
          "VALID" \in ram[s][w].flags =>
             /\ owner[p] = None /\ ram[s][w].data = newest[p]
             /\ \A x \in Way \ {w} : "VALID" \in ram[s][x].flags => ram[s][x].tag # p[1]

(***************************************************************************)
(* When o_flush_end is raised, the memory holds the newest contents of     *)
(* every line no L1 cache owns.                                            *)
(***************************************************************************)
L2FlushedToMemory == FlushEnd => \A p \in Places : owner[p] = None => mem[p] = newest[p]

(***************************************************************************)
(* Every request of an L1 cache is answered, with refills, displaced lines *)
(* and flushes in between.                                                 *)
(***************************************************************************)
L2RequestAnswered == (d.state # "Idle") ~> (d.state = "Idle")
============================================================================
