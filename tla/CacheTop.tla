------------------------------ MODULE CacheTop -----------------------------
(***************************************************************************)
(* The two L1 caches of a core share one bus port through a queue:         *)
(* sc/rtl/riverlib/cache/cache_top.cpp.  The queue holds path, type and    *)
(* address of a request; strobes and data of a write are those the data    *)
(* cache shows when the request leaves the queue.  Each cache is what the  *)
(* top level sees of it: a request that stays valid until it is ready      *)
(* (State_WaitGrant), then one answer (State_WaitResp), and write data     *)
(* that do not change in between (WriteDataStable of DCacheMem).           *)
(***************************************************************************)
EXTENDS Integers

CONSTANTS
    Depth,      \* places of the queue
    Addrs,      \* addresses
    Values,     \* write data
    None

Request == [path : {"ctrl", "data"}, type : {"read", "write"}, addr : Addrs]
Port == [st : {"idle", "valid", "wait"}, type : {"read", "write"}, addr : Addrs]

VARIABLES
    i, d,           \* memory ports of the instruction and the data cache
    wdata,          \* d.req_mem_wdata: the line register of the data cache
    wcnt, mem, got, \* the queue; got is the request taken by the bus
    bus,            \* request on the bus, with its data, or None
    sent,           \* write data of the request of the data cache when it was made
    judged,         \* judgement on the answer of the last clock
    clk

vars == <<i, d, wdata, wcnt, mem, got, bus, sent, judged, clk>>

Queue0 == INSTANCE Queue WITH Data <- Request

AnyAddr == CHOOSE a \in Addrs : TRUE
AnyValue == CHOOSE v \in Values : TRUE
AnyRequest == [path |-> "ctrl", type |-> "read", addr |-> AnyAddr]

Init ==
    /\ i = [st |-> "idle", type |-> "read", addr |-> AnyAddr]
    /\ d = [st |-> "idle", type |-> "read", addr |-> AnyAddr]
    /\ wdata = AnyValue /\ sent = AnyValue
    /\ wcnt = 0 /\ mem = [p \in 0 .. Depth - 1 |-> AnyRequest] /\ got = None
    /\ bus = None /\ judged = "none" /\ clk = FALSE

----------------------------------------------------------------------------
IValid == i.st = "valid"
DValid == d.st = "valid"

QueueWe == IValid \/ DValid

\* the request of the instruction cache goes first
QueueBus_CtrlFirst ==
    IF IValid THEN [path |-> "ctrl", type |-> i.type, addr |-> i.addr]
    ELSE [path |-> "data", type |-> d.type, addr |-> d.addr]

QueueBus ==
    IF DValid THEN [path |-> "data", type |-> d.type, addr |-> d.addr]
    ELSE [path |-> "ctrl", type |-> i.type, addr |-> i.addr]

DataReqReady == TRUE

\* a request is taken in every clock
CtrlReqReady_Always == TRUE

CtrlReqReady == ~DValid

RespTo == bus.path

\* a cache: from valid to wait when ready, to idle with its answer, and a
\* new request at any time
PortNext(p, ready, answered, new) ==
    IF p.st = "valid" THEN IF ready THEN [p EXCEPT !.st = "wait"] ELSE p
    ELSE IF p.st = "wait" THEN IF answered THEN [p EXCEPT !.st = "idle"] ELSE p
    ELSE IF new = None THEN p
    ELSE [st |-> "valid", type |-> new.type, addr |-> new.addr]

\* the port that waits for this answer
Judge == LET p == IF RespTo = "ctrl" THEN i ELSE d
         IN  IF p.st # "wait" \/ p.addr # bus.addr \/ p.type # bus.type THEN "wrong"
             ELSE IF bus.type = "write" /\ bus.data # sent THEN "other data"
             ELSE "good"

(***************************************************************************)
(* One clock: the bus takes a request (re), answers one (answer); new      *)
(* requests ni and nd of the caches, with write data v.                    *)
(***************************************************************************)
Clock(re, answer, ni, nd, v) ==
    LET x == QueueBus
        out == Queue0!Rdata(x)
    IN  /\ Queue0!Clock(re, QueueWe, x)
        /\ i' = PortNext(i, CtrlReqReady, answer /\ RespTo = "ctrl", ni)
        /\ d' = PortNext(d, DataReqReady, answer /\ RespTo = "data", nd)
        /\ wdata' = IF d.st = "idle" THEN v ELSE wdata
        /\ sent' = IF d.st = "idle" /\ nd # None THEN v ELSE sent
        /\ bus' = IF re /\ Queue0!Nempty(QueueWe)
                  THEN [path |-> out.path, type |-> out.type, addr |-> out.addr,
                        data |-> wdata]
                  ELSE IF answer THEN None ELSE bus
        /\ judged' = IF answer THEN Judge ELSE "none"
        /\ clk' = ~clk

Requests(p, types) ==
    {None} \cup IF p.st = "idle" THEN [type : types, addr : Addrs] ELSE {}

Next ==
    \E re \in (IF bus = None THEN BOOLEAN ELSE {FALSE}),
       answer \in (IF bus = None THEN {FALSE} ELSE BOOLEAN),
       ni \in Requests(i, {"read"}), nd \in Requests(d, {"read", "write"}),
       v \in (IF d.st = "idle" THEN Values ELSE {AnyValue}) :
          Clock(re, answer, ni, nd, v)

\* the bus takes and answers requests
BusFair == []<>(bus # None \/ (~QueueWe /\ wcnt = 0)) /\ []<>(bus = None)

\* the clock runs
Spec == Init /\ [][Next]_vars /\ []<><<TRUE>>_vars /\ BusFair

----------------------------------------------------------------------------
\* Type invariant, with the most requests the queue ever holds: one of each
\* cache, fewer than it has places (cache_top.cpp does not look at its full
\* signal).
TypeOK ==
    /\ i \in Port /\ d \in Port /\ wdata \in Values /\ sent \in Values
    /\ wcnt \in 0 .. 2 /\ 2 <= Depth
    /\ bus = None \/ [path |-> bus.path, type |-> bus.type, addr |-> bus.addr] \in Request

(***************************************************************************)
(* An answer reaches the cache that made the request, and that cache is    *)
(* waiting for it (the multiplexer on i_resp_mem_path); a write has left   *)
(* with the data it was requested with, although only path, type and       *)
(* address are queued (o_req_mem_data = d.req_mem_wdata).                  *)
(***************************************************************************)
AnswerReachesRequester == TypeOK /\ judged \notin {"wrong", "other data"}

(***************************************************************************)
(* Every request of each cache is answered: none is lost when both caches  *)
(* ask in the same clock (w_ctrl_req_ready, w_data_req_ready).             *)
(***************************************************************************)
CachesAnswered == (IValid ~> i.st = "idle") /\ (DValid ~> d.st = "idle")
============================================================================
