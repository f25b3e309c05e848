----------------------------- MODULE DCacheMem -----------------------------
(***************************************************************************)
(* The L1 data cache of one core between its two neighbours: the memory    *)
(* access stage, which has one request outstanding (memaccess.cpp), and    *)
(* the memory behind the bus, which takes one request at a time and        *)
(* answers after any number of clocks.  Neither neighbour is modelled      *)
(* beyond what the cache sees of it.                                       *)
(***************************************************************************)
EXTENDS DCacheLru

CONSTANTS
    Faulty,     \* tags at which the bus answers with an error
    Workloads   \* each the request types of a core, the values it stores, its tags

ASSUME EnvAssumption ==
    /\ Faulty \subseteq Tags
    /\ Workloads \subseteq [types : SUBSET MemopTypes, values : SUBSET Values,
                         tags : SUBSET Tags]

\* no request and no answer: distinct from every one, and from every judgement
ASSUME NoneAssumption ==
    /\ None \notin [type : MemopTypes, addr : Addr, wdata : Values]
    /\ None \notin [data : Values \cup {0, 1}, fault : BOOLEAN]
    /\ None \notin {"stale", "unasked", "unlinked"}

Places == Tags \X Sets
At(a) == <<a.tag, a.set>>

VARIABLES
    mem,    \* the memory behind the bus: [Places -> Line]
    bus,    \* request taken by the bus and not answered yet, or None
    cpu,    \* request taken by the cache and not answered yet, or None
    load,   \* the workload of this behaviour
    resp,   \* judgement on the answer of the last clock, or None
    golden, \* what the core stored: the value every load has to return
    linked, \* places the core has an unbroken reservation for
    clk     \* tells clocks apart in which nothing else changes

state == <<dvars, mem, bus, cpu, load, resp, golden, linked>>
vars == <<state, clk>>

Init ==
    /\ DInit
    /\ mem = [p \in Places |-> ZeroLine]
    /\ golden = mem
    /\ bus = None /\ cpu = None /\ resp = None
    /\ linked = {} /\ clk = FALSE
    /\ load \in Workloads

(***************************************************************************)
(* The memory.                                                             *)
(***************************************************************************)
Answer ==
    [data  |-> IF bus.type \in {"ReadShared", "ReadMakeUnique"} THEN mem[At(bus.addr)]
               ELSE IF bus.type = "ReadNoSnoop"
               THEN ZeroExtended(mem[At(bus.addr)][bus.addr.word])
               ELSE ZeroLine,
     fault |-> bus.addr.tag \in Faulty]

Bus(in) ==
    /\ in.mem_ready => bus = None
    /\ in.mem # None => bus # None /\ in.mem = Answer
    /\ bus' = IF r.mem_valid /\ in.mem_ready
              THEN [type |-> r.mem_type, addr |-> r.mem_addr, data |-> r.line_o]
              ELSE IF in.mem # None THEN None ELSE bus
    /\ mem' = IF in.mem = None \/ bus.addr.tag \in Faulty THEN mem
              ELSE IF bus.type = "WriteNoSnoop"
              THEN [mem EXCEPT ![At(bus.addr)][bus.addr.word] = bus.data[0]]
              ELSE IF bus.type \in {"WriteBack", "WriteLineUnique"}
              THEN [mem EXCEPT ![At(bus.addr)] = bus.data]
              ELSE mem

\* a store, or a store conditional that reports success
Stored(rsp) == "Store" \in cpu.type /\ ~rsp.fault
               /\ ("Release" \in cpu.type => rsp.data = 0)

(***************************************************************************)
(* Judgement on an answer: "unasked" without an outstanding request,       *)
(* "stale" for a load that does not return the last stored value,          *)
(* "unlinked" for a store conditional that succeeds without a reservation. *)
(***************************************************************************)
Judge(rsp) ==
    IF cpu = None THEN "unasked"
    ELSE IF "Store" \notin cpu.type /\ ~rsp.fault
            /\ rsp.data # golden[At(cpu.addr)][cpu.addr.word] THEN "stale"
    ELSE IF Stored(rsp) /\ "Release" \in cpu.type /\ At(cpu.addr) \notin linked
         THEN "unlinked"
    ELSE "good"

(***************************************************************************)
(* The core: a new request may be on the bus in the clock of the answer to *)
(* the previous one.                                                       *)
(***************************************************************************)
Core(in) ==
    LET rsp == Resp(in) IN
    /\ in.req # None => (cpu = None \/ rsp # None) /\ in.req.type \in load.types
    /\ cpu' = IF in.req # None /\ ReqReady(in)
              THEN [type |-> in.req.type, addr |-> in.addr, wdata |-> in.req.wdata]
              ELSE IF rsp # None THEN None ELSE cpu
    /\ resp' = IF rsp = None THEN None ELSE Judge(rsp)
    /\ golden' = IF rsp # None /\ cpu # None /\ Stored(rsp)
                 THEN [golden EXCEPT ![At(cpu.addr)][cpu.addr.word] = cpu.wdata]
                 ELSE golden
    /\ linked' = IF rsp = None \/ cpu = None THEN linked
                 ELSE IF "Store" \in cpu.type THEN linked \ {At(cpu.addr)}
                 ELSE IF "Reserve" \in cpu.type /\ ~rsp.fault
                 THEN linked \cup {At(cpu.addr)} ELSE linked

Step(in) == /\ Core(in) /\ Bus(in) /\ Clock(in) /\ UNCHANGED load
            /\ clk' = (UNCHANGED state /\ ~clk)

(***************************************************************************)
(* Inputs.  Stores carry any value; without a request the address bus      *)
(* shows the line of the last request or address zero.  An input the       *)
(* machine does not look at in its present state is held at one value: the *)
(* step would be the same with any other.                                  *)
(***************************************************************************)
CoreReqs ==
    UNION {[type : {t}, wdata : IF "Store" \in t THEN load.values ELSE {0}] :
              t \in load.types}
CoreAddrs == [tag : load.tags, set : Sets, word : Words, way : {0}]
Listens == r.state \in {"Idle", "CheckHit"}

Ins ==
    LET ins(reqs, addrs) ==
            [req : reqs, addr : addrs,
             flush : IF r.req_flush THEN {FALSE} ELSE BOOLEAN,
             mem_ready : IF r.mem_valid THEN BOOLEAN ELSE {FALSE},
             mem : IF bus = None THEN {None} ELSE {None, Answer},
             snoop : {None}]
    IN  ins({None}, {ZeroAddr, LineAddr(r.req_addr)})
        \cup IF Listens THEN ins(CoreReqs, CoreAddrs) ELSE {}

Next == \E in \in Ins : Step(in)

(***************************************************************************)
(* The clock runs, and the bus neither refuses nor delays a request for    *)
(* ever.                                                                   *)
(***************************************************************************)
Fairness == /\ []<><<TRUE>>_vars
            /\ []<>(~r.mem_valid) /\ []<>(bus = None)

Spec == Init /\ [][Next]_vars
FairSpec == Spec /\ Fairness

----------------------------------------------------------------------------
\* Properties

TypeOK ==
    /\ DTypeOK
    /\ mem \in [Places -> Line] /\ golden \in [Places -> Line]
    /\ linked \subseteq Places

(***************************************************************************)
(* Every answer belongs to a request, and a load answered without fault    *)
(* returns the value of the last store the core was told is done, through  *)
(* hits, refills, displaced dirty lines, flushes and uncached accesses     *)
(* (State_CheckHit .. State_WriteBus).                                     *)
(***************************************************************************)
LoadReturnsLastStore == resp \notin {"stale", "unasked"}

(***************************************************************************)
(* A valid line that is not dirty has the contents of the memory: it may   *)
(* be dropped without a write back.                                        *)
(***************************************************************************)
CleanMatchesMemory ==
    /\ TypeOK
    /\ \A s \in Sets, w \in Way :
          "VALID" \in ram[s][w].flags /\ "DIRTY" \notin ram[s][w].flags
          => ram[s][w].data = mem[<<ram[s][w].tag, s>>]

(***************************************************************************)
(* When o_flush_end is raised, no store is left in the cache: the memory   *)
(* holds everything the core has stored.                                   *)
(***************************************************************************)
FlushedToMemory == FlushEnd => mem = golden

(***************************************************************************)
(* While a write is queued or on the bus the data cache keeps showing the  *)
(* line it was asked with: the queue of CacheTop keeps path, type and      *)
(* address of a request only, and its data is read from the cache when the *)
(* request leaves the queue (cache_top.cpp, o_req_mem_data).               *)
(***************************************************************************)
WriteDataStable ==
    bus # None /\ bus.type \in {"WriteBack", "WriteLineUnique", "WriteNoSnoop"}
    => r.line_o = bus.data

(***************************************************************************)
(* A store conditional succeeds only under a reservation of this core that *)
(* no store has ended since.                                               *)
(***************************************************************************)
ReleaseNeedsReserve == resp # "unlinked"

(***************************************************************************)
(* Every request the cache has taken is answered, except a store           *)
(* conditional that misses: that one ends in State_Idle without an answer  *)
(* (dcache_lru.cpp:429), and the core waits for ever.                      *)
(***************************************************************************)
RequestAnswered ==
    (cpu # None /\ "Release" \notin cpu.type) ~> (resp # None)

(***************************************************************************)
(* What the comments of dcache_lru.cpp say of the two atomic instructions; *)
(* the code does neither.                                                  *)
(***************************************************************************)

(***************************************************************************)
(* "Load with reserve": the line is rewritten only so that its flags can   *)
(* be modified ("flags will be modified only if wstrb != 0"); the data of  *)
(* the line stays as it is.                                                *)
(***************************************************************************)
ReserveKeepsData ==
    [][r.state = "CheckHit" /\ Hit /\ ~IsStore /\ IsReserve =>
          \A s \in Sets, w \in Way : ram'[s][w].data = ram[s][w].data]_vars

(***************************************************************************)
(* A store conditional that misses returns an error to the core ("return   *)
(* error. Cannot store into unreserved cache line").                       *)
(***************************************************************************)
ReleaseAnswered ==
    (cpu # None /\ "Release" \in cpu.type) ~> (resp # None)
============================================================================
