----------------------------- MODULE CoherentL1 ----------------------------
(***************************************************************************)
(* Two cores behind the L2 cache (riverlib/workgroup.cpp with cpu_num = 2  *)
(* and l2cache_ena = 1): for each core the data cache and the bus bridge,  *)
(* the destination port of the L2 cache, and the L2 cache with the memory  *)
(* behind it.  All registers take one step per clock; the combinational    *)
(* signals between the blocks are the operators of a clock below.          *)
(*                                                                         *)
(* The instruction caches are idle, so the request queue of CacheTop is    *)
(* empty and passes a request of the data cache through.  The L2 cache is  *)
(* reduced to what it answers and keeps (l2cache_lru.cpp): a request takes *)
(* any number of clocks and may displace any other line.                   *)
(***************************************************************************)
EXTENDS Integers, FiniteSets

CONSTANTS
    Ways, NSets, Tags, Words, Values, None,
    Workloads       \* each the cores that store and the values they store

ASSUME CoherentAssumption ==
    Workloads \subseteq [writers : SUBSET {0, 1}, values : SUBSET Values]

Cores == {0, 1}

VARIABLES
    r0, ram0, lru0, rd0, r1, ram1, lru1, rd1,   \* the data caches
    a0, s0, a1, s1,                             \* the bridges
    d,                                          \* the L2 destination port
    l2req,      \* request the L2 cache has taken and not answered, or None
    l2,         \* lines the L2 cache holds: [Places -> Line or None]
    mem,        \* the memory behind it: [Places -> Line]
    cpu,        \* per core: request taken by the cache and not answered
    load,       \* the workload of this behaviour
    told,       \* the cores answered in the last clock
    last,       \* per core: the last value it stored, per place and word
    clk         \* toggles with every clock

D0 == INSTANCE DCacheLru WITH r <- r0, ram <- ram0, lru <- lru0, rd <- rd0,
          Uncached <- {}, NoAccess <- {}, CoherenceEna <- TRUE
D1 == INSTANCE DCacheLru WITH r <- r1, ram <- ram1, lru <- lru1, rd <- rd1,
          Uncached <- {}, NoAccess <- {}, CoherenceEna <- TRUE

Line == [Words -> Values]
Addr == D0!Addr
MemRequests == [type : D0!MemTypes, addr : Addr, data : Line \cup {None}]

A0 == INSTANCE RiverAmba WITH a <- a0, s <- s0, Requests <- MemRequests,
          Addrs <- Addr, Lines <- Line, CoherenceEna <- TRUE
A1 == INSTANCE RiverAmba WITH a <- a1, s <- s1, Requests <- MemRequests,
          Addrs <- Addr, Lines <- Line, CoherenceEna <- TRUE
Dst == INSTANCE L2Destination WITH Slots <- Cores, Addrs <- Addr, Lines <- Line

dcachevars == <<r0, ram0, lru0, rd0, r1, ram1, lru1, rd1>>
busvars == <<a0, s0, a1, s1, d, l2req, l2, mem>>
vars == <<dcachevars, busvars, cpu, load, told, last, clk>>

Places == Tags \X D0!Sets
At(x) == <<x.tag, x.set>>

Init ==
    /\ D0!DInit /\ D1!DInit /\ A0!AmbaInit /\ A1!AmbaInit /\ Dst!DstInit
    /\ l2req = None
    /\ l2 = [p \in Places |-> None]
    /\ mem = [p \in Places |-> [w \in Words |-> 0]]
    /\ cpu = [c \in Cores |-> None]
    /\ told = {} /\ clk = FALSE /\ load \in Workloads
    /\ last = [c \in Cores |-> [p \in Places |-> [w \in Words |-> None]]]

----------------------------------------------------------------------------
(***************************************************************************)
(* The L2 cache and the memory.  Serving a request may displace lines,     *)
(* which are written to the memory.  A unique request takes the line out   *)
(* of the L2 cache; its data, if it has any, is not kept.  A request that  *)
(* hits may be answered in the next clock (State_CheckHit); one that       *)
(* misses takes at least the clocks of the states it goes through.         *)
(***************************************************************************)
Held(p) == IF l2[p] # None THEN l2[p] ELSE mem[p]

MinClocks(q, hit) ==
    IF hit \/ {"WRITE", "UNIQUE"} \subseteq q.type THEN 0
    ELSE IF "WRITE" \in q.type THEN 4   \* TranslateAddress .. CheckResp
    ELSE 6                              \* .. SetupReadAdr, CheckHit

L2Takes(gone) ==
    /\ l2req = None /\ Dst!L2Req # None
    /\ l2' = [p \in Places |-> IF p \in gone THEN None ELSE l2[p]]
    /\ mem' = [p \in Places |-> IF p \in gone THEN l2[p] ELSE mem[p]]
    /\ l2req' = [req |-> Dst!L2Req,
                 least |-> MinClocks(Dst!L2Req, l2'[At(d.addr)] # None)]

L2Answer ==
    [data |-> IF "WRITE" \in l2req.req.type THEN [w \in Words |-> 0]
              ELSE Held(At(l2req.req.addr)),
     fault |-> FALSE]

L2Answers ==
    /\ l2req # None /\ l2req.least = 0
    /\ l2req' = None
    /\ l2' = [l2 EXCEPT ![At(l2req.req.addr)] =
                 IF "UNIQUE" \in l2req.req.type THEN None
                 ELSE IF "WRITE" \in l2req.req.type THEN l2req.req.wdata
                 ELSE Held(At(l2req.req.addr))]
    /\ UNCHANGED mem

L2Waits ==
    /\ l2req' = IF l2req = None \/ l2req.least = 0 THEN l2req
                ELSE [l2req EXCEPT !.least = @ - 1]
    /\ UNCHANGED <<l2, mem>>

(***************************************************************************)
(* Signals between the blocks.  What leaves the cores for the bus depends  *)
(* on registers only.                                                      *)
(***************************************************************************)
Pick(c, x, y) == IF c = 0 THEN x ELSE y

BusRequest(q) ==
    IF q = None THEN None
    ELSE [addr |-> q.addr, cached |-> A0!Cached(q.type),
          unique |-> A0!Unique(q.type), instr |-> FALSE, data |-> q.data]

\* resp_snoop_*_o of the data cache
SnoopResp(c) ==
    Pick(c, IF D0!SnoopRespValid THEN [flags |-> D0!SnoopFlags, data |-> D0!Out.data] ELSE None,
            IF D1!SnoopRespValid THEN [flags |-> D1!SnoopFlags, data |-> D1!Out.data] ELSE None)

\* o_msto of the bridges
L1o ==
    [c \in Cores |->
        [ar |-> BusRequest(Pick(c, A0!Ar, A1!Ar)),
         aw |-> BusRequest(Pick(c, A0!Aw, A1!Aw)),
         ac_ready |-> Pick(c, A0!AcReady, A1!AcReady),
         cr_valid |-> Pick(c, A0!CrValid(Dst!Ac(c)), A1!CrValid(Dst!Ac(c))),
         cr_resp |-> Pick(c, A0!CrResp(SnoopResp(c)), A1!CrResp(SnoopResp(c))),
         cd |-> Pick(c, A0!Cd(SnoopResp(c)), A1!Cd(SnoopResp(c)))]]

\* i_msti of the bridge of core c; resp is the answer of the L2 cache
Msti(c, l1o, resp) ==
    [ar_ready |-> Dst!ArReady(l1o, c),
     aw_ready |-> Dst!AwReady(l1o, c), w_ready |-> Dst!AwReady(l1o, c),
     r |-> Dst!R(c, resp), b |-> Dst!B(c, resp), ac |-> Dst!Ac(c),
     cr_ready |-> Dst!CrReady(c), cd_ready |-> Dst!CdReady(c)]

\* req_mem_*_o of the caches
MemReq(reg) == IF reg.mem_valid
               THEN [type |-> reg.mem_type, addr |-> reg.mem_addr, data |-> reg.line_o]
               ELSE None

(***************************************************************************)
(* The inputs of the data cache; in = [req, addr, flush] comes from the    *)
(* core.  CacheTop takes a request of the data cache in any clock          *)
(* (w_data_req_ready = 1).                                                 *)
(***************************************************************************)
DIn(c, in, msti) ==
    [req |-> in.req, addr |-> in.addr, flush |-> in.flush,
     mem_ready |-> TRUE,
     mem |-> Pick(c, A0!MemResp(msti), A1!MemResp(msti)),
     snoop |-> Pick(c, A0!SnoopReq(msti.ac), A1!SnoopReq(msti.ac))]

----------------------------------------------------------------------------
(***************************************************************************)
(* The cores: one request outstanding; the next one may be on the bus in   *)
(* the clock of the answer.                                                *)
(***************************************************************************)
CoreTypes(c) == {{}} \cup (IF c \in load.writers THEN {{"Store"}} ELSE {})
CoreIns(c) ==
    LET reg == Pick(c, r0, r1)
        ins(reqs, addrs) ==
            [req : reqs, addr : addrs, flush : {FALSE}]
        reqs == UNION {[type : {t}, wdata : IF "Store" \in t THEN load.values ELSE {0}] :
                          t \in CoreTypes(c)}
        here == D0!LineAddr(reg.req_addr)
    IN  ins({None}, IF reg.state = "CheckHit" THEN {here, D0!ZeroAddr} ELSE {here})
        \cup IF reg.state \in {"Idle", "CheckHit"}
             THEN ins(reqs, [tag : Tags, set : D0!Sets, word : Words, way : {0}])
             ELSE {}

\* the request of core c after a clock that takes and answers as told
CpuNext(c, in, takes, rsp) ==
    IF in.req # None /\ takes
    THEN [type |-> in.req.type, addr |-> in.addr, wdata |-> in.req.wdata]
    ELSE IF rsp # None THEN None ELSE cpu[c]

LastNext(c, rsp) ==
    IF cpu[c] # None /\ rsp # None /\ "Store" \in cpu[c].type
    THEN [last[c] EXCEPT ![At(cpu[c].addr)][cpu[c].addr.word] = cpu[c].wdata]
    ELSE last[c]

Clock(in0, in1, ready, resp) ==
    LET l1o == L1o
        m0 == Msti(0, l1o, resp)    m1 == Msti(1, l1o, resp)
        i0 == DIn(0, in0, m0)       i1 == DIn(1, in1, m1)
        p0 == D0!Resp(i0)           p1 == D1!Resp(i1)
    IN  /\ in0.req # None => cpu[0] = None \/ p0 # None
        /\ in1.req # None => cpu[1] = None \/ p1 # None
        /\ cpu' = [c \in Cores |->
                     Pick(c, CpuNext(0, in0, D0!ReqReady(i0), p0),
                             CpuNext(1, in1, D1!ReqReady(i1), p1))]
        /\ told' = {c \in Cores : Pick(c, p0, p1) # None}
        /\ last' = [c \in Cores |-> Pick(c, LastNext(0, p0), LastNext(1, p1))]
        /\ clk' = ~clk /\ UNCHANGED load
        /\ D0!Clock(i0) /\ D1!Clock(i1)
        /\ A0!AmbaClock(MemReq(r0), m0, D0!SnoopReqReady(i0), SnoopResp(0))
        /\ A1!AmbaClock(MemReq(r1), m1, D1!SnoopReqReady(i1), SnoopResp(1))
        /\ Dst!DstClock(l1o, ready, resp)

\* a clock in which the L2 cache takes a request, answers one, or does neither
Take == \E in0 \in CoreIns(0), in1 \in CoreIns(1) :
            /\ \E gone \in SUBSET {p \in Places : l2[p] # None} : L2Takes(gone)
            /\ Clock(in0, in1, TRUE, None)

Reply == \E in0 \in CoreIns(0), in1 \in CoreIns(1) :
            L2Answers /\ Clock(in0, in1, FALSE, L2Answer)

Wait == \E in0 \in CoreIns(0), in1 \in CoreIns(1) :
            L2Waits /\ Clock(in0, in1, FALSE, None)

Next == Take \/ Reply \/ Wait

Spec == Init /\ [][Next]_vars

(***************************************************************************)
(* The clock runs, and the L2 cache neither refuses nor delays a request   *)
(* for ever.                                                               *)
(***************************************************************************)
Fairness == /\ WF_clk(clk' = ~clk)
            /\ []<>(Dst!L2Req = None) /\ []<>(l2req = None)

FairSpec == Spec /\ Fairness

----------------------------------------------------------------------------
(***************************************************************************)
(* The properties.                                                         *)
(***************************************************************************)

\* Type invariant: every block keeps its registers in their ranges.
TypeOK ==
    /\ D0!DTypeOK /\ D1!DTypeOK /\ A0!AmbaTypeOK /\ A1!AmbaTypeOK /\ Dst!DstTypeOK
    /\ l2 \in [Places -> Line \cup {None}] /\ mem \in [Places -> Line]
    /\ l2req = None \/ l2req.least \in 0 .. 6

\* The port and the bridges agree on who is served: a bridge waits for a
\* response (state r or b of river_amba.cpp) exactly while l2_dst.cpp has it
\* as srcid, and a bridge that waits on the R channel is served by a read
\* state of the port, on the B channel by a write state.  A read that was
\* answered by a snoop becomes a write towards the L2 cache on the way.
ServedByPort ==
    /\ TypeOK
    /\ \A c \in Cores :
        LET bridge == Pick(c, a0, a1).state
        IN  /\ bridge \in {"r", "b"} <=> d.srcid = c
            /\ d.srcid = c /\ d.state \in {"CacheReadReq", "ReadMem"} => bridge = "r"
            /\ d.srcid = c /\ d.state \in {"CacheWriteReq", "WriteMem"} => bridge = "b"

\* Every request of both cores for one and the same line is answered, with
\* snoops, upgrades and refills of the two caches in any order: nobody waits
\* for a snoop of a cache that itself waits for the port.
RequestAnswered == \A c \in Cores : (cpu[c] # None) ~> (c \in told)

\* no request is under way anywhere
AtRest ==
    /\ \A c \in Cores : cpu[c] = None
    /\ r0.state = "Idle" /\ r1.state = "Idle"
    /\ a0.state = "idle" /\ a1.state = "idle" /\ s0.state = "idle" /\ s1.state = "idle"
    /\ d.state = "Idle"

\* the copies of a line in the data cache of core 0
OwnCopies(p) == {e \in {ram0[p[2]][w] : w \in D0!Way} : "VALID" \in e.flags /\ e.tag = p[1]}


\* The second half of a snoop reads a line that the port is waiting for:
\* river_amba.cpp:413 sets the data transfer bit of the CR response "will be
\* Data transfer" before the bridge asks the data cache for the line.
SnoopedDataIsAwaited ==
    \A c \in Cores :
        Pick(c, s0, s1).cache_access => d.state \in {"snoop_cr", "snoop_cd"}

\* The data cache takes the response in the clock in which it comes: "L1 is
\* always ready" (l2_dst.cpp:248, 259).
L1IsReady ==
    [][\A c \in Cores :
          Pick(c, a0, a1).state \in {"r", "b"} /\ Pick(c, a0', a1').state = "idle"
          => Pick(c, r0, r1).state \in {"WaitResp", "WriteBus"}]_vars

\* A line that is made unique by a write request is still in the cache when
\* the request is answered: "Make line: 'shared' -> 'unique' using write
\* request" (dcache_lru.cpp:400).
UpgradeKeepsLine ==
    [][\A c \in Cores :
          LET reg == Pick(c, r0, r1)
              set == Pick(c, ram0, ram1)[reg.req_addr.set]
          IN  reg.write_share /\ ~Pick(c, r0', r1').write_share
              => \E w \in D0!Way : /\ set[w].tag = reg.req_addr.tag
                                   /\ "VALID" \in set[w].flags]_vars
============================================================================
