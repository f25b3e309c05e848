----------------------------- MODULE FetchPath -----------------------------
(***************************************************************************)
(* The path of an instruction: the fetch stage, the L1 instruction cache   *)
(* and the memory behind it, in which code changes; the fence of the CSR   *)
(* unit flushes the cache and then the pipeline.  With translation off the *)
(* MMU between fetch stage and cache connects them directly (mmu.cpp).     *)
(***************************************************************************)
EXTENDS ICacheLru, FiniteSets

CONSTANTS
    NoPc,       \* the address ~0
    Buffer,     \* address and contents of the program buffer
    MaxChanges, \* bound: how often the code in memory changes
    Workloads   \* each a record of
                \*   pcs : addresses the branch predictor asks for
                \*   uncached, refused, faulty : lines that are not cached, that
                \*     the protection unit refuses, or the bus answers with an error
                \*   changing : lines whose code changes
                \*   fences : kinds of fence; halts : the debugger may halt and
                \*     run the program buffer

NLines == 2 * NSets * NTags
Lines == 0 .. NLines - 1
Num(a) == (a.tag * NSets + a.set) * 2 + a.odd
Nxt(n) == (n + 1) % NLines

Versions == 0 .. MaxChanges
PcSet == [tag : Tags, set : Sets, odd : {0, 1}, word : Words, way : {0}]

ASSUME FetchAssumption ==
    /\ MaxChanges \in Nat
    /\ NWords >= 4      \* a line holds the 16 bytes of an uncached access
    /\ NoPc \notin PcSet
    /\ Workloads \subseteq
          [pcs : SUBSET PcSet, uncached : SUBSET Lines, refused : SUBSET Lines,
           faulty : SUBSET Lines, changing : SUBSET Lines,
           fences : SUBSET {"pipe", "all", "line"}, halts : BOOLEAN]

\* word w of line n in version v, distinct from Blank and Ones
Code(n, w, v) == 2 + (n * NWords + w) * (MaxChanges + 1) + v

ASSUME ValuesAssumption ==
    /\ 0 \in Values /\ 1 \in Values
    /\ \A n \in Lines, w \in Words, v \in Versions : Code(n, w, v) \in Values

\* no line, address, request or answer: distinct from every one
ASSUME NoneAssumption ==
    /\ None \notin Lines /\ None \notin LineAddrs
    /\ None \notin {"pipe", "all", "line"}
    /\ None \notin [addr : LineAddrs]
    /\ None \notin [addr : LineAddrs, ok : [own : SUBSET Versions, nxt : SUBSET Versions]]
    /\ None \notin [all : BOOLEAN, addr : LineAddrs]
    /\ None \notin [data : Contents, fault : BOOLEAN]
    /\ None \notin [data : Values \X Values, addr : LineAddrs, fault : BOOLEAN]

VARIABLES
    load,   \* the workload of this behaviour
    f,      \* registers of the fetch stage
    mem,    \* version of the code in every line
    changes,
    bus,    \* request of the cache that is not answered yet, or None
    asked,  \* fetch taken by the cache and not answered yet, or None
    fresh,  \* versions a line had since the last flush of it
    fence,  \* "none"; "flushi": the pulse to the cache; "end": the pipeline
    heard,  \* an instruction arrived since the last fence
    halted, \* the debugger wants the program buffer executed
    judged, \* judgement on the answer of the last clock
    clk     \* toggles with every clock

INSTANCE InstrFetch

envvars == <<load, mem, changes, bus, asked, fresh, fence, heard, halted, judged, clk>>
vars == <<ivars, f, envvars>>

WordAt(n, w) == IF w < NWords THEN Code(n, w, mem[n])
                ELSE Code(Nxt(n), w - NWords, mem[Nxt(n)])

Init ==
    /\ IInit /\ FInit /\ load \in Workloads
    /\ mem = [n \in Lines |-> 0] /\ changes = 0
    /\ bus = None /\ asked = None /\ fresh = [n \in Lines |-> {0}]
    /\ fence = "none" /\ heard = FALSE /\ halted = FALSE /\ judged = "none"
    /\ clk = FALSE

\* the line a fence of one line names
Flushed == [ZeroAddr EXCEPT !.odd = 1]

(***************************************************************************)
(* What icache_lru.cpp relies on.  The protection unit is asked about the  *)
(* line of the fetch, also when the next line is the one that is loaded;   *)
(* and a flush under way looks at the kind of the last request: one of a   *)
(* line ends the sweep over all lines.                                     *)
(***************************************************************************)
NextAllowed(w) ==
    \A p, q \in w.pcs : Overlay(p) /\ Num(p) \notin w.refused \cup w.uncached
                           /\ Num(q) = Nxt(Num(p)) => Num(q) \notin w.refused
BothKinds(w) == {"all", "line"} \subseteq w.fences
SweepKept(w) == BothKinds(w) => w.changing \subseteq {Num(Flushed)}

\* the flush under way is of the kind of the last request
Tracked == ~r.req_flush \/ ~BothKinds(load)

----------------------------------------------------------------------------
\* the memory: a line, or 16 bytes from an 8-byte boundary
Answer ==
    LET n == Num(bus.addr)
    IN  [data  |-> [w \in Words |-> WordAt(n, bus.addr.word + w)],
         fault |-> n \in load.faulty]

\* the address bus shows ~0 while the fetch stage has no address
OnBus == IF f.req_addr # NoPc THEN f.req_addr
         ELSE [tag |-> NTags - 1, set |-> NSets - 1, odd |-> 1, word |-> NWords - 1, way |-> 0]

\* judgement on an answer to the fetch that was asked
Judge(rsp) ==
    LET n == Num(asked.addr)
        w == asked.addr.word
        own == {Code(n, w, v) : v \in asked.ok.own}
        nxt == IF w + 1 < NWords THEN {Code(n, w + 1, v) : v \in asked.ok.own}
               ELSE {Code(Nxt(n), 0, v) : v \in asked.ok.nxt}
    IN  IF rsp.fault
        THEN IF n \in load.refused \cup load.faulty \/ (Overlay(asked.addr) /\ Nxt(n) \in load.faulty)
             THEN "fault" ELSE "groundless"
        ELSE IF n \in load.refused \cup load.faulty THEN "unprotected"
        ELSE IF rsp.data[1] \in own /\ rsp.data[2] \in nxt THEN "good" ELSE "stale"

(***************************************************************************)
(* One clock: e chooses what the environment does.                         *)
(*   e.change : None or the line whose code changes; e.answer, e.ready :   *)
(*   the memory answers, takes a request; e.fence : None or the start of a *)
(*   fence; e.bp_pc; e.halt.                                               *)
(***************************************************************************)
Clock(e) ==
    LET in  == [req |-> IF f.req_valid THEN f.req_addr ELSE None,
                resp_ready |-> f.resp_ready,
                flush |-> IF fence \in {"flushi", "line"}
                          THEN [all |-> fence = "flushi", addr |-> Flushed] ELSE None,
                pmp_x |-> Num(r.req_addr) \notin load.refused,
                cached |-> Num(r.req_addr) \notin load.uncached,
                mem_ready |-> e.ready,
                mem |-> IF e.answer THEN Answer ELSE None]
        ready == ReqReady(in)
        rsp == Resp(in)
        taken == ready /\ f.req_valid
        ended == rsp # None /\ f.resp_ready
        fin == [bp_pc |-> e.bp_pc, progbuf_ena |-> halted, flush |-> fence = "end",
                ready |-> ready, mem |-> rsp]
        freshMem == [mem EXCEPT ![IF e.change = None THEN 0 ELSE e.change] =
                        IF e.change = None THEN @ ELSE changes + 1]
        grown == [n \in Lines |-> fresh[n] \cup {freshMem[n]}]
    IN  /\ IClock(in, OnBus)
        /\ f' = FetchNext(fin)
        /\ mem' = freshMem
        /\ changes' = IF e.change = None THEN changes ELSE changes + 1
        /\ bus' = IF r.req_mem_valid /\ e.ready THEN [addr |-> r.mem_addr]
                  ELSE IF e.answer THEN None ELSE bus
        /\ fresh' = [n \in Lines |->
                        IF fence = "flushi" \/ (fence = "line" /\ n = Num(Flushed))
                        THEN {freshMem[n]} ELSE grown[n]]
        /\ asked' = IF taken
                    THEN [addr |-> f.req_addr,
                          ok |-> [own |-> grown[Num(f.req_addr)],
                                  nxt |-> grown[Nxt(Num(f.req_addr))]]]
                    ELSE IF ended \/ asked = None THEN None
                    ELSE [asked EXCEPT
                            !.ok.own = @ \cup {freshMem[Num(asked.addr)]},
                            !.ok.nxt = @ \cup {freshMem[Nxt(Num(asked.addr))]}]
        /\ judged' = IF ~ended THEN "none"
                     ELSE IF asked = None THEN "unasked"
                     ELSE IF f.state # "WaitResp" THEN "lost" ELSE Judge(rsp)
        /\ heard' = ((heard \/ ended) /\ fence = "none" /\ e.fence = None)
        /\ fence' = IF fence \in {"flushi", "line"} THEN "end"
                    ELSE IF e.fence = "pipe" THEN "end"
                    ELSE IF e.fence = "all" THEN "flushi"
                    ELSE IF e.fence = "line" THEN "line" ELSE "none"
        /\ halted' = IF f.progbuf_ena THEN e.halt ELSE halted \/ e.halt
        /\ clk' = ~clk /\ UNCHANGED load

(***************************************************************************)
(* What the environment may do: a fence, and a halt, is executed when an   *)
(* instruction arrived after the last one.                                 *)
(***************************************************************************)
LatchesPc == f.state # "WaitResp" \/ Resp([resp_ready |-> f.resp_ready]) # None

Env ==
    [change : {None} \cup IF changes < MaxChanges THEN load.changing ELSE {},
     answer : IF bus # None /\ r.state = "WaitResp" THEN BOOLEAN ELSE {FALSE},
     ready : IF r.req_mem_valid /\ bus = None THEN BOOLEAN ELSE {FALSE},
     fence : {None} \cup IF heard /\ fence = "none" /\ ~halted THEN load.fences ELSE {},
     halt : IF load.halts /\ (heard \/ halted) /\ fence = "none" THEN BOOLEAN ELSE {FALSE},
     bp_pc : IF LatchesPc THEN load.pcs ELSE {CHOOSE p \in load.pcs : TRUE}]

Next == \E e \in Env : ~(e.halt /\ e.fence # None) /\ Clock(e)
Fairness ==
    /\ WF_clk(clk' = ~clk)
    /\ []<>(~(r.req_mem_valid /\ bus = None)) /\ []<>(bus = None)
Spec == Init /\ [][Next]_vars
LiveSpec == Spec /\ Fairness

TypeOK ==
    /\ LineTypeOK /\ r \in Registers
    /\ f.state \in FetchStates /\ f.req_addr \in load.pcs \cup {NoPc}
    /\ mem \in [Lines -> 0 .. MaxChanges]
    /\ bus = None \/ bus.addr \in LineAddrs
    /\ asked = None \/ asked.addr \in load.pcs
    /\ fence \in {"none", "flushi", "line", "end"}

(***************************************************************************)
(* An instruction handed to the decoder is the code of its address, across *)
(* line boundaries, replacements and refills: never older than the last    *)
(* fence before the fetch.  A fetch fails exactly when the protection unit *)
(* or the bus refuses one of its lines (CheckHit, TranslateAddress and     *)
(* CheckResp of icache_lru.cpp).                                           *)
(***************************************************************************)
FetchReturnsCode ==
    /\ TypeOK
    /\ judged \notin {"stale", "unasked", "lost", "groundless", "unprotected"}

(***************************************************************************)
(* The cache is empty when a flush of all lines ends (State_FlushCheck),   *)
(* unless a flush of the other kind was asked for meanwhile.               *)
(***************************************************************************)
FlushEmpties ==
    [][(r.state = "FlushCheck" /\ r'.state = "Idle" /\ r.req_flush_all /\ Tracked)
       => \A s \in Sets, w \in 0 .. Ways - 1 :
             "VALID" \notin ram0'[s][w].flags \cup ram1'[s][w].flags]_vars

(***************************************************************************)
(* The fetch stage keeps receiving instructions unless the debugger halts: *)
(* a flush of the pipeline drops a request, never the one being awaited    *)
(* (i_flush_pipeline in fetch.cpp).                                        *)
(***************************************************************************)
KeepsFetching == []<>(judged # "none" \/ halted)

(***************************************************************************)
(* The program buffer is executed when the debugger asks for it (Idle of   *)
(* fetch.cpp).                                                             *)
(***************************************************************************)
BufferExecuted == halted ~> f.progbuf_ena

(***************************************************************************)
(* The internal copy of the address equals the address of the answer: "the *)
(* same as memory response but internal" (fetch.h:71).                     *)
(***************************************************************************)
ShadowIsResponse == [][judged' # "none" => f.mem_resp_shadow = r.req_addr]_vars
============================================================================
