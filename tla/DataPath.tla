------------------------------ MODULE DataPath ------------------------------
(***************************************************************************)
(* The path of a memory operation: the queue and the state machine of the  *)
(* memory access stage, the memory management unit with its translation    *)
(* buffer, and the memory behind the data cache, which holds the page      *)
(* tables.  Software changes the page tables and then executes a fence.    *)
(***************************************************************************)
EXTENDS Queue

CONSTANTS
    Levels, NDigits, NTlb, Root,   \* see Mmu
    Values,     \* contents of a page
    MaxRemaps,  \* bound: how often the page tables change
    Workloads   \* each a record of
                \*   jobs : the operations the program issues
                \*   tables : versions of the page tables, each a function of
                \*      tables (pages) and digits to [flags, ppn]
                \*   faulty : pages the bus answers with an error
                \*   readonly : pages no entry of the tables permits to store to

VARIABLES
    load,       \* the workload of this behaviour
    a,          \* registers of the memory access stage
    u,          \* registers of the memory management unit
    tlb, rdata, \* the translation buffer and its output register
    bus,        \* request taken by the data cache, or None; resp: it is answered
    data,       \* contents of the pages
    version,    \* of the page tables
    fence,      \* "none"; "due": the tables changed; "pulse": i_fence
    done,       \* data with every issued operation applied in program order
    pend,       \* the issued operations that did not complete: what is right
    judged,     \* judgement on what the last clock showed
    clk         \* toggles with a clock that changes nothing else

INSTANCE MemAccess
M == INSTANCE Mmu

Digits == 0 .. NDigits - 1

Jobs == [op : {"load", "store", "flush"}, rd : Nat, page : M!Page, wdata : Values,
         ena : BOOLEAN, debug : BOOLEAN]

\* an entry of a page table: a leaf, or a pointer to the next table
Entries == [flags : SUBSET M!PteFlags, ppn : M!Page]
IsLeaf(pte) == {"R", "W", "X"} \cap pte.flags # {}
Points(pte) == ~IsLeaf(pte) /\ "V" \in pte.flags

\* page tables: the root is one, and a pointer leads to one
IsTables(t) ==
    /\ t \in [DOMAIN t -> [Digits -> Entries]] /\ DOMAIN t \subseteq M!Page
    /\ Root \in DOMAIN t
    /\ \A p \in DOMAIN t, x \in Digits : Points(t[p][x]) => t[p][x].ppn \in DOMAIN t

ASSUME DataAssumption ==
    /\ Levels \in Nat \ {0} /\ NDigits \in Nat \ {0} /\ NTlb \in Nat \ {0}
    /\ Root \in M!Page /\ MaxRemaps \in Nat /\ 0 \in Values /\ Data # {}
    /\ \A w \in Workloads :
          /\ w.jobs \subseteq Data \cap Jobs /\ w.faulty \cup w.readonly \subseteq M!Page
          /\ Len(w.tables) \in Nat \ {0}
          /\ \A v \in 1 .. Len(w.tables) : IsTables(w.tables[v])

\* no digit, operation, request or answer, translation: distinct from every one
ASSUME NoneAssumption ==
    /\ None \notin Digits /\ None \notin Jobs
    /\ None \notin [page : M!Page, write : BOOLEAN, wdata : Values]
    /\ None \notin [at : [page : M!Page, entry : Digits \cup {None}], write : BOOLEAN,
                    wdata : Values]
    /\ None \notin [at : [page : M!Page, entry : Digits \cup {None}], write : BOOLEAN,
                    resp : BOOLEAN]
    /\ None \notin [data : Values, pte : Entries \cup {None}, fault : BOOLEAN]
    /\ None \notin [data : Values, fault : BOOLEAN, page_fault : BOOLEAN]
    /\ None \notin [size : M!Sizes, pte : Entries]
    /\ None \notin [va : M!Page, pa : M!Page, size : M!Sizes, flags : SUBSET M!PteFlags]

envvars == <<load, bus, data, version, fence, done, pend, judged, clk>>
dvars == <<wcnt, mem, got, a, u, tlb, rdata, envvars>>

NoWord == CHOOSE x \in Data : TRUE

DataInit ==
    /\ wcnt = 0 /\ mem = [i \in Places |-> NoWord] /\ got = None
    /\ load \in Workloads
    /\ a = AccessReset /\ u = M!MmuReset
    /\ tlb = [i \in 0 .. NTlb - 1 |-> None] /\ rdata = None
    /\ bus = None /\ data = [p \in M!Page |-> 0] /\ version = 1 /\ fence = "none"
    /\ done = data /\ pend = << >> /\ judged = "none" /\ clk = FALSE

----------------------------------------------------------------------------
(***************************************************************************)
(* What is right: the translation the page tables define, by the first     *)
(* leaf on the way from the root.                                          *)
(***************************************************************************)
\* a leaf and an invalid entry end the way
StepTo(t, va, pte, p) == IF Points(pte) THEN t[pte.ppn][va[p]] ELSE pte

Steps(t, va) == LET tab[p \in M!Sizes] == IF p = Levels - 1 THEN t[Root][va[p]]
                                          ELSE StepTo(t, va, tab[p + 1], p)
                IN  tab
\* the leaf entry of va and the size of its page
Leaf(t, va) == LET s == Steps(t, va)
                   sizes == {p \in M!Sizes : IsLeaf(s[p])}
               IN  IF sizes = {} THEN None
                   ELSE LET p == CHOOSE p \in sizes : \A q \in sizes : q <= p
                        IN  [size |-> p, pte |-> s[p]]

Refused(t, j) == j.ena /\ LET l == Leaf(t, j.page)
                          IN  \/ l = None
                              \/ ~({"V", "A"} \cup (IF j.op = "store" THEN {"W", "D"} ELSE {"R"})
                                     \subseteq l.pte.flags)
Target(t, j) == IF ~j.ena THEN j.page
                ELSE LET l == Leaf(t, j.page) IN M!Within(l.size, l.pte.ppn, j.page)

Right(j) ==
    LET t == load.tables[version]
    IN  IF j.op = "flush" THEN [j |-> j, outcome |-> "flush", data |-> 0]
        ELSE IF Refused(t, j) THEN [j |-> j, outcome |-> "page_fault", data |-> 0]
        ELSE IF Target(t, j) \in load.faulty THEN [j |-> j, outcome |-> "fault", data |-> 0]
        ELSE [j |-> j, outcome |-> "ok",
              data |-> IF j.op = "load" THEN done[Target(t, j)] ELSE 0]

Applied(j) ==
    IF j.op = "store" /\ Right(j).outcome = "ok"
    THEN [done EXCEPT ![Target(load.tables[version], j)] = j.wdata] ELSE done

OutcomeOf(rsp) == IF rsp.page_fault THEN "page_fault" ELSE IF rsp.fault THEN "fault" ELSE "ok"

(***************************************************************************)
(* What the shortcuts of mmu.cpp rely on.  The last page and the           *)
(* translation buffer answer without a look at permissions, and a hit      *)
(* leaves the page size as it was; an entry that may be written but not    *)
(* read is refused; a chained request of the last page is translated also  *)
(* when translation is off; and after a page fault the last page is the    *)
(* one of the address ~0.                                                  *)
(***************************************************************************)
Translated(w) == {j \in w.jobs : j.ena /\ j.op # "flush"}
Untranslated(w) == {j \in w.jobs : ~j.ena /\ j.op # "flush"}

OneSize(w, t) ==
    \A j, k \in Translated(w) : LET l == Leaf(t, j.page)
                                    m == Leaf(t, k.page)
                                IN  l # None /\ m # None => l.size = m.size
OnePermission(w, t) ==
    \A j, k \in Translated(w) : LET l == Leaf(t, j.page)
                                IN  l # None /\ M!SamePage(l.size, j.page, k.page)
                                       => (Refused(t, j) <=> Refused(t, k))
Readable(w, t) ==
    \A j \in Translated(w) : LET l == Leaf(t, j.page)
                             IN  l # None /\ "W" \in l.pte.flags => "R" \in l.pte.flags
Identity(w, t) ==
    \A j \in Untranslated(w), k \in Translated(w) :
        LET l == Leaf(t, k.page)
        IN  l # None /\ ~Refused(t, k) /\ M!SamePage(l.size, j.page, k.page)
               => /\ M!Within(l.size, l.pte.ppn, j.page) = j.page
                  /\ ~M!Forbids(l.pte.flags, j.op = "store")

\* sizes that the last page has
LastSizes(w) ==
    {s \in M!Sizes : \/ s = 0
                     \/ \E v \in 1 .. Len(w.tables), j \in Translated(w) :
                           LET l == Leaf(w.tables[v], j.page) IN l # None /\ l.size = s}
TopUnused(w, t) ==
    (\E j \in Translated(w) : Refused(t, j))
       => \A k \in Translated(w), s \in LastSizes(w) : ~M!SamePage(s, k.page, M!Top)

Regular(w) ==
    \A v \in 1 .. Len(w.tables) :
        LET t == w.tables[v]
        IN  OneSize(w, t) /\ OnePermission(w, t) /\ Readable(w, t) /\ Identity(w, t)
            /\ TopUnused(w, t)

----------------------------------------------------------------------------
\* the memory: an entry of a page table or the data of a page
Answer ==
    IF bus.at.entry # None
    THEN [data |-> 0, pte |-> load.tables[version][bus.at.page][bus.at.entry], fault |-> FALSE]
    ELSE [data |-> data[bus.at.page], pte |-> None, fault |-> bus.at.page \in load.faulty]

(***************************************************************************)
(* One clock: e chooses what the environment does.  e.job : None or an     *)
(* operation of the execute stage; e.answer, e.ready : the data cache has  *)
(* its answer, takes a request; e.wb : i_wb_ready; e.remap : software     *)
(* changes the page tables; e.fence : it executes the fence.               *)
(***************************************************************************)
DataClock(e) ==
    LET full == wcnt >= Depth - 1
        we == e.job # None /\ ~full
        q == IF Nempty(we) THEN Rdata(e.job) ELSE None
        ans == IF bus # None /\ bus.resp THEN Answer ELSE None
        rsp == M!CoreResp(u, ans)
        ain == [resp |-> rsp, wb_ready |-> e.wb, ready |-> FALSE]
        off == Offered(a, q, ain)
        min == [req |-> IF off = None THEN None
                        ELSE [page |-> off.page, write |-> off.op = "store", wdata |-> off.wdata],
                ena |-> MmuEna(a, q), mem_ready |-> FALSE, fence |-> fence = "pulse",
                mem |-> ans, tlb |-> rdata]
        taken == ans # None /\ M!MemRespReady(u, min)
        ready == e.ready /\ (bus = None \/ taken)
        uin == [min EXCEPT !.mem_ready = ready]
        in == [ain EXCEPT !.ready = M!CoreReqReady(u, uin)]
        mreq == M!MemReq(u, uin)
        head == pend[1]
        completes == Completes(a, ain)
        issued == IF we THEN Append(pend, Right(e.job)) ELSE pend
        early == /\ Flushd(a, q, ain)
                 /\ LET i == IF completes THEN 2 ELSE 1
                    IN  i > Len(issued) \/ issued[i].outcome # "flush"
    IN  /\ Clock(QueueRe(a, ain), we, IF e.job = None THEN NoWord ELSE e.job)
        /\ a' = AccessNext(a, q, in)
        /\ u' = M!MmuNext(u, uin)
        /\ tlb' = M!TlbNext(u, tlb)
        /\ rdata' = M!TlbRead(u, tlb, rdata, IF off = None THEN M!Top ELSE off.page)
        /\ bus' = IF mreq # None /\ ready
                  THEN [at |-> mreq.at, write |-> mreq.write, resp |-> FALSE]
                  ELSE IF taken \/ bus = None THEN None ELSE [bus EXCEPT !.resp = @ \/ e.answer]
        /\ data' = IF mreq # None /\ ready /\ mreq.write /\ mreq.at.page \notin load.faulty
                   THEN [data EXCEPT ![mreq.at.page] = mreq.wdata] ELSE data
        /\ done' = IF we THEN Applied(e.job) ELSE done
        /\ pend' = IF completes /\ pend # << >> THEN Tail(issued) ELSE issued
        /\ judged' =
             IF early THEN "early flush"
             ELSE IF completes /\ pend = << >> THEN "unasked"
             ELSE IF a.state = "WaitResponse" /\ rsp # None /\ OutcomeOf(rsp) # head.outcome
             THEN "wrong outcome"
             ELSE IF /\ Finishes(a, ain) /\ head.outcome = "ok" /\ head.j.op = "load"
                     /\ WbData(a, ain) # head.data
             THEN "wrong data"
             ELSE IF completes THEN "good" ELSE "none"
        /\ version' = IF e.remap THEN version + 1 ELSE version
        /\ fence' = IF e.remap THEN "due" ELSE IF e.fence THEN "pulse" ELSE
                    IF fence = "pulse" THEN "none" ELSE fence
        /\ clk' = (UNCHANGED <<wcnt, mem, got, a, u, tlb, rdata, bus, data, version, fence, done,
                               pend, judged>> /\ ~clk)
        /\ UNCHANGED load

\* nothing is in flight
Quiet == pend = << >> /\ wcnt = 0 /\ ~a.valid /\ a.state = "Idle"

(***************************************************************************)
(* What the environment may do.  The page tables change, and the fence is  *)
(* executed, while no operation is in flight; the next operation follows   *)
(* the fence.                                                              *)
(***************************************************************************)
Env ==
    [job : {None} \cup IF fence = "none" /\ wcnt < Depth - 1 THEN load.jobs ELSE {},
     answer : IF bus # None /\ ~bus.resp THEN BOOLEAN ELSE {FALSE},
     ready : IF u.state \in {"CacheReq", "Idle", "WaitRespNoMmu", "WaitRespLast"}
             THEN BOOLEAN ELSE {FALSE},
     wb : IF a.state \in {"Hold", "WaitResponse"} THEN BOOLEAN ELSE {TRUE},
     remap : IF Quiet /\ fence = "none" /\ version <= MaxRemaps /\ version < Len(load.tables)
             THEN BOOLEAN ELSE {FALSE},
     fence : IF fence = "due" THEN BOOLEAN ELSE {FALSE}]

\* a request is offered to the data cache that has none
Refuses == /\ bus = None
           /\ u.state = "CacheReq" \/ (u.state = "Idle" /\ a.state = "WaitReqAccept")

DataNext == \E e \in Env : (e.remap => e.job = None) /\ DataClock(e)
DataSpec == DataInit /\ [][DataNext]_dvars

(***************************************************************************)
(* Every clock comes; the data cache does not refuse, or leave unanswered, *)
(* for ever; the write-back stage is ready again and again.                *)
(***************************************************************************)
Fairness ==
    /\ []<><<TRUE>>_dvars
    /\ []<>~Refuses /\ []<>(bus = None \/ bus.resp) /\ []<>(a.state # "Hold")
FairDataSpec == DataSpec /\ Fairness

DataTypeOK ==
    /\ TypeOK
    /\ a.state \in AccessStates /\ u.state \in M!MmuStates
    /\ data \in [M!Page -> Values] /\ done \in [M!Page -> Values]
    /\ u.tlb_flush_cnt \in 0 .. NTlb - 1 /\ u.tlb_flush_adr \in 0 .. NTlb - 1
    /\ Len(pend) <= Depth + 1

(***************************************************************************)
(* Every operation completes with what the program order and the page      *)
(* tables define, however translations are cached (last page, translation  *)
(* buffer), operations are chained behind a response, and results wait for *)
(* the write-back stage (WaitResponse and Hold of memaccess.cpp; Idle,     *)
(* WaitRespLast, CheckTlb and FlushTlb of mmu.cpp).                        *)
(***************************************************************************)
CompletesInOrder == judged \notin {"wrong outcome", "wrong data", "unasked"}

(***************************************************************************)
(* The data cache is told to flush when every earlier operation has its    *)
(* response and before any later one is sent (o_flushd in memaccess.cpp).  *)
(***************************************************************************)
FlushInOrder == judged # "early flush"

(***************************************************************************)
(* When nothing is in flight the memory holds what the program order       *)
(* leaves in it: no store is lost, doubled or misdirected on its way       *)
(* through the queue and the translation (CacheReq and WaitRespLast of     *)
(* mmu.cpp).                                                               *)
(***************************************************************************)
StoresArrive == DataTypeOK /\ (Quiet => data = done)

(***************************************************************************)
(* Nothing is stored in a page that no entry permits to store to: "New     *)
(* request to the same page has not permission" (mmu.cpp:520).             *)
(***************************************************************************)
StoresPermitted == \A p \in load.readonly : data[p] = 0

(***************************************************************************)
(* Every operation completes (o_valid): no chain of walks, flushes of the  *)
(* translation buffer and holds keeps the pipeline waiting.                *)
(***************************************************************************)
OperationCompletes == pend # << >> ~> judged # "none"
============================================================================
