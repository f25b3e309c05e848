----------------------------- MODULE BusSystem -----------------------------
(***************************************************************************)
(* The system bus with its masters and slaves, clock by clock: the path of *)
(* an L2 cache to the bus (L2Serdes) at every master port of the           *)
(* interconnect (AxiCtrl), the adapter AxiSlv in front of every device and *)
(* in front of nothing, for the accesses outside of the memory map.        *)
(*                                                                         *)
(* riscv_soc.cpp connects one of the two master ports of bus0 and leaves   *)
(* the other to a DMA master; here both are in use.                        *)
(*                                                                         *)
(* A device is a memory (axi_sram.h: always ready, the word of the last    *)
(* address is always valid) or a slow one that takes a request when it has *)
(* none and answers after any number of clocks.  The L2 cache of a master  *)
(* has one request at a time, in a line of its own in every device.        *)
(***************************************************************************)
EXTENDS AxiCtrl

CONSTANTS
    Beats, Values,
    Workloads   \* each a record of
                \*   patterns : lines that are written, with their strobes
                \*   slow : devices that are not memories; accessed by single words
                \*   targets : the slaves the masters access, NS for outside of the map
                \*   masters, writers : the masters in use, and those that write

Patterns == [data : [0 .. Beats - 1 -> Values], strb : [0 .. Beats - 1 -> BOOLEAN]]

ASSUME SystemAssumption ==
    /\ Beats \in Nat \ {0} /\ 0 \in Values
    /\ Workloads \subseteq [patterns : SUBSET Patterns, slow : SUBSET (Slaves \ {NS}),
                            targets : SUBSET Slaves, masters : SUBSET Masters,
                            writers : SUBSET Masters]

Words == NM * Beats     \* a line for every master

S == INSTANCE AxiSlv WITH PageWords <- Words, MaxLen <- Beats - 1, Ids <- Masters
Z == INSTANCE L2Serdes

\* no request, no response: none of the values that may stand in its place
ASSUME NoneAssumption ==
    /\ None \notin [write : BOOLEAN, slv : Slaves, addr : 0 .. Words - 1, len : Z!Beat,
                    data : Z!Lines, strb : Z!Strobes, incr : {TRUE}, id : Masters]
    /\ None \notin [data : Values, strb : BOOLEAN, last : BOOLEAN]
    /\ None \notin [id : Masters \cup {None}, data : Values, last : BOOLEAN, err : BOOLEAN]
    /\ None \notin [id : Masters \cup {None}, err : BOOLEAN]
    /\ None \notin [data : Values, err : BOOLEAN]
    /\ None \notin [data : Z!Lines \cup {None}, err : BOOLEAN]
    /\ None \notin {"unasked", "misled", "stale", "good"} /\ None \notin 0 .. Words - 1

VARIABLES
    k,      \* locks of the interconnect
    slv,    \* adapters: [Slaves -> S!SlvRegisters]
    ser,    \* masters: [Masters -> Z!SerdesRegisters]
    job,    \* request on the memory port of each L2 cache, or None
    wait,   \* request taken by the adapter of the master, or None
    mem,    \* contents of the devices: [Slaves \ {NS} -> [0 .. Words - 1 -> Values]]
    rd,     \* address register of a memory, or pending address of a slow device
    golden, \* per master: its own line in every device, as it was written
    told,   \* per master: judgement on the response of the last clock, or None
    load,   \* the workload of this behaviour
    clk     \* level of the clock after this cycle: it changes in every step

vars == <<k, slv, ser, job, wait, mem, rd, golden, told, load, clk>>

Devices == Slaves \ {NS}

Init ==
    /\ load \in Workloads
    /\ k = BusReset
    /\ slv = [s \in Slaves |-> S!SlvReset]
    /\ ser = [m \in Masters |-> Z!SerdesReset]
    /\ job = [m \in Masters |-> None] /\ wait = job
    /\ mem = [s \in Devices |-> [a \in 0 .. Words - 1 |-> 0]]
    /\ rd = [s \in Devices |-> IF s \in load.slow THEN None ELSE 0]
    /\ golden = [m \in Masters |-> [s \in Devices |-> [i \in Z!Beat |-> 0]]]
    /\ told = [m \in Masters |-> None]
    /\ clk = FALSE

----------------------------------------------------------------------------
(***************************************************************************)
(* Devices.  late is the set of slow devices that answer in this clock.    *)
(***************************************************************************)
Ready(s) == s \notin load.slow \/ rd[s] = None
Resp(s, late) ==
    IF s = NS THEN [data |-> 0, err |-> TRUE]
    ELSE IF s \notin load.slow THEN [data |-> mem[s][rd[s]], err |-> FALSE]
    ELSE IF s \in late THEN [data |-> mem[s][rd[s]], err |-> FALSE]
    ELSE None

\* the memory macro writes whenever req_write is high, a slow device when
\* it takes the request
MemNext(s) ==
    LET x == slv[s]
    IN  IF /\ x.req_write /\ x.req_wstrb
           /\ s \in load.slow => x.req_valid /\ Ready(s)
        THEN [mem[s] EXCEPT ![x.req_addr] = x.req_wdata] ELSE mem[s]

RdNext(s, late) ==
    IF s \notin load.slow THEN slv[s].req_addr
    ELSE IF slv[s].req_valid /\ Ready(s) THEN slv[s].req_addr
    ELSE IF s \in late THEN None ELSE rd[s]

----------------------------------------------------------------------------
(***************************************************************************)
(* Requests of the L2 cache of master m: to read a word, or the line of a  *)
(* memory, or to write one, as one of the patterns says.                   *)
(***************************************************************************)
Jobs(l, m) ==
    {[write |-> p # None, slv |-> s, addr |-> m * Beats, len |-> n,
      data |-> IF p = None THEN [i \in Z!Beat |-> 0] ELSE p.data,
      strb |-> [i \in Z!Beat |-> p # None /\ i <= n /\ p.strb[i]],
      incr |-> TRUE, id |-> m] :
        p \in {None} \cup IF m \in l.writers THEN l.patterns ELSE {},
        s \in l.targets, n \in {0, Beats - 1}}

Requests == [l \in Workloads |-> [m \in Masters |->
    {None} \cup {q \in Jobs(l, m) : m \in l.masters /\ (q.slv \in l.slow => q.len = 0)}]]
Asked == [l \in Workloads |->
    {f \in [Masters -> UNION {Requests[l][m] : m \in Masters}] :
        \A m \in Masters : f[m] \in Requests[l][m]}]
AtRest(m) == job[m] = None /\ wait[m] = None

----------------------------------------------------------------------------
(***************************************************************************)
(* One clock.  The answers on R and B come from the registers of the       *)
(* slaves; they decide which masters ask for a new address, and those      *)
(* which of them is heard.                                                 *)
(***************************************************************************)
Judge(m, rsp) ==
    IF wait[m] = None THEN "unasked"
    ELSE IF rsp.err # (wait[m].slv = NS) THEN "misled"
    ELSE IF rsp.data # None /\ wait[m].slv # NS
            /\ \E i \in 0 .. wait[m].len : rsp.data[i] # golden[m][wait[m].slv][i]
    THEN "stale"
    ELSE "good"

Written(q, line) == [i \in Z!Beat |-> IF i <= q.len /\ q.strb[i] THEN q.data[i] ELSE line[i]]

Clock(late) ==
    LET ready(s) == s = NS \/ Ready(s)
        rr == IF k.r_m = NM THEN None ELSE S!SlvROut(slv[k.r_s])
        bb == IF k.b_m = NM THEN None ELSE S!SlvBOut(slv[k.b_s], Resp(k.b_s, late))
        r_of == [m \in Masters |-> IF m = k.r_m THEN rr ELSE None]
        b_of == [m \in Masters |-> IF m = k.b_m THEN bb ELSE None]
        ar == [m \in Masters |-> Z!ArOut(ser[m], job[m], r_of[m], b_of[m])]
        aw == [m \in Masters |-> Z!AwOut(ser[m], job[m], r_of[m], b_of[m])]
        w == IF k.w_m = NM THEN None ELSE Z!WOut(ser[k.w_m])
        \* r_ready and b_ready are high at every master, low at index NM
        r_fire == rr # None /\ rr.last
        b_fire == bb # None
        w_ok == S!SlvWReady(slv[k.w_s], ready(k.w_s))
        w_fire == w # None /\ w.last /\ w_ok
        w_open == ~WBusy(k, w_fire, b_fire)     r_open == ~RBusy(k, r_fire)
        aw_m == Chosen(aw)      aw_s == Target(aw)
        ar_m == Chosen(ar)      ar_s == Target(ar)
        aw_in(s) == IF w_open /\ aw_m # NM /\ s = aw_s THEN aw[aw_m] ELSE None
        ar_in(s) == IF r_open /\ ar_m # NM /\ s = ar_s THEN ar[ar_m] ELSE None
        aw_ok == S!SlvAwReady(slv[aw_s])
        ar_ok == S!SlvArReady(slv[ar_s], aw_in(ar_s))
        b_open == ~BBusy(k, b_fire)
        si(s) == [aw |-> aw_in(s), ar |-> ar_in(s),
                  w |-> IF w # None /\ b_open /\ s = k.w_s THEN w ELSE None,
                  b_ready |-> s = k.b_s /\ k.b_m # NM,
                  r_ready |-> s = k.r_s /\ k.r_m # NM]
        ar_of(m) == m = ar_m /\ ar_ok /\ r_open
        aw_of(m) == m = aw_m /\ aw_ok /\ w_open
        w_of(m) == m = k.w_m /\ w_ok /\ b_open
        taken == [m \in Masters |-> Z!ReqTaken(ser[m], job[m], r_of[m], b_of[m], ar_of(m), aw_of(m))]
        rsp == [m \in Masters |-> Z!Response(ser[m], r_of[m], b_of[m])]
    IN  /\ clk' = ~clk /\ UNCHANGED load
        /\ slv' = [s \in Slaves |-> S!SlvNext(slv[s], si(s), ready(s), Resp(s, late))]
        /\ ser' = [m \in Masters |-> Z!SerdesNext(ser[m], job[m], r_of[m], b_of[m],
                                                  ar_of(m), aw_of(m), w_of(m))]
        /\ k' = BLocks(WLocks(RLocks(k, ar_m # NM /\ ar_ok, ar_m, ar_s, r_fire),
                              aw_m # NM /\ aw_ok, aw_m, aw_s, w_fire, b_fire),
                       k, w_fire, b_fire)
        /\ mem' = [s \in Devices |-> MemNext(s)]
        /\ rd' = [s \in Devices |-> RdNext(s, late)]
        /\ wait' = [m \in Masters |-> IF taken[m] THEN job[m]
                                      ELSE IF rsp[m] # None THEN None ELSE wait[m]]
        /\ told' = [m \in Masters |-> IF rsp[m] = None THEN None ELSE Judge(m, rsp[m])]
        /\ golden' = [m \in Masters |->
              IF rsp[m] # None /\ wait[m] # None /\ wait[m].write /\ wait[m].slv # NS
              THEN [golden[m] EXCEPT ![wait[m].slv] = Written(wait[m], @)]
              ELSE golden[m]]
        \* the L2 cache keeps its request until it is taken, and may have a new
        \* one behind the response to the previous one
        /\ job' \in {[m \in Masters |-> IF AtRest(m) THEN new[m]
                                       ELSE IF taken[m] THEN None ELSE job[m]] :
                     new \in {f \in Asked[load] : \A m \in Masters : AtRest(m) \/ f[m] = None}}

Next == \E late \in SUBSET {s \in load.slow : rd[s] # None} : Clock(late)

\* the clock runs and every slow device answers in the end
Fairness == WF_clk(clk' = ~clk) /\ \A s \in Slaves \ {NS} : []<>(s \in load.slow => rd[s] = None)

Spec == Init /\ [][Next]_vars /\ Fairness

----------------------------------------------------------------------------
TypeOK ==
    /\ k \in Locks /\ clk \in BOOLEAN
    /\ slv \in [Slaves -> S!SlvRegisters]
    /\ ser \in [Masters -> Z!SerdesRegisters]
    /\ \A m \in Masters : {job[m], wait[m]} \subseteq Requests[load][m]
    /\ mem \in [Devices -> [0 .. Words - 1 -> Values]]
    /\ \A s \in Devices : rd[s] \in 0 .. Words - 1 \/ (s \in load.slow /\ rd[s] = None)
    /\ golden \in [Masters -> [Devices -> Z!Lines]]
    /\ told \in [Masters -> {None, "unasked", "misled", "stale", "good"}]

(***************************************************************************)
(* The separate locks of the R, W and B channels never disagree with the   *)
(* adapters: what an adapter answers, reads or takes belongs to the master *)
(* at the lock, and that master waits for this slave.                      *)
(***************************************************************************)
RoutedToRequester ==
    /\ TypeOK
    /\ \A s \in Devices :
           /\ slv[s].state \in {"addr_r", "data_r", "out_r"} =>
                 k.r_s = s /\ k.r_m = slv[s].req_id /\ ~wait[k.r_m].write /\ wait[k.r_m].slv = s
           /\ slv[s].state = "w" \/ (slv[s].state = "burst_w" /\ slv[s].req_len > 0) =>
                 k.w_s = s /\ k.w_m = slv[s].req_id /\ wait[k.w_m].write /\ wait[k.w_m].slv = s
           /\ slv[s].state = "b" =>
                 k.b_s = s /\ k.b_m = slv[s].req_id /\ wait[k.b_m].write /\ wait[k.b_m].slv = s

(***************************************************************************)
(* A master that gets a response waits for one, and a read gives the words *)
(* that the master itself wrote last to that line, through bursts, strobes *)
(* and any delay, whatever the other masters write at the same time; an    *)
(* error is reported for an access outside of the memory map, and only     *)
(* then (comb of axictrl_bus0.cpp and axi_slv.cpp).                        *)
(***************************************************************************)
ReadsOwnLine == \A m \in Masters : told[m] \notin {"unasked", "stale", "misled"}

(***************************************************************************)
(* Every request is answered, if the masters with a higher index, which    *)
(* win the arbitration, are all at rest again and again.                   *)
(***************************************************************************)
RequestAnswered ==
    \A m \in Masters :
        []<>(\A n \in m + 1 .. NM - 1 : AtRest(n)) => (job[m] # None ~> told[m] # None)

(***************************************************************************)
(* An access outside of the memory map is answered, by the slave in front  *)
(* of nothing, so that the master can raise its fault.                     *)
(***************************************************************************)
UnmappedAnswered ==
    \A m \in Masters : (wait[m] # None /\ wait[m].slv = NS) ~> told[m] # None
============================================================================
