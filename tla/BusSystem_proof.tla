-------------------------- MODULE BusSystem_proof --------------------------
(***************************************************************************)
(* Proofs about the system bus, for every number of masters, devices and   *)
(* beats, every workload and every delay of the slow devices.              *)
(*                                                                         *)
(* The inductive invariant is BusInv.  MasterInv ties the registers of a   *)
(* serializer to the request its L2 cache waits with, and to the lock it   *)
(* holds.  ReadLock, WriteLock and RespLock say, of the master and the     *)
(* slave at a lock, how far the adapter is ahead of the serializer: which  *)
(* beat is on its way.  SlaveInv says that an adapter which is busy is at  *)
(* a lock.  MemInv says which words of a line a write has stored already.  *)
(*                                                                         *)
(* A clock is cut into its wires (ClockWires, MasterWires), then into what *)
(* each end sees: ...Master for the serializers, Read..., Write... and     *)
(* Resp... for the adapter at a lock; ...Step puts both ends together.     *)
(***************************************************************************)
EXTENDS BusSystem, FiniteSetTheorems, TLAPS

\* beats of the request of master m that its serializer has sent or received
Moved(m) == wait[m].len - ser[m].req_len

\* a master, by the state of its bus adapter
MasterInv(m) ==
    LET z == ser[m]     q == wait[m]
    IN  /\ job[m] = None \/ q = None
        /\ z.amba = "idle" <=> q = None
        /\ z.state = "Read" <=> z.amba = "reading"
        /\ z.state = "Write" <=> z.amba = "writing"
        /\ z.amba = "reading" =>
             /\ ~q.write /\ z.req_len <= q.len /\ z.rmux = Moved(m)
             /\ q.slv # NS =>
                  /\ k.r_m = m /\ k.r_s = q.slv
                  /\ \A i \in Z!Beat : i < Moved(m) => z.line[i] = golden[m][q.slv][i]
        /\ z.amba = "writing" =>
             /\ q.write /\ z.req_len <= q.len
             /\ \A i \in Z!Beat : i + Moved(m) \in Z!Beat =>
                  /\ z.line[i] = q.data[i + Moved(m)]
                  /\ z.wstrb[i] = q.strb[i + Moved(m)]
             /\ q.slv # NS => k.w_m = m /\ k.w_s = q.slv
        /\ z.amba = "wack" =>
             /\ q.write /\ z.b_wait
             /\ q.slv # NS => k.b_m = m /\ k.b_s = q.slv

\* the adapter x of slave s reads for master m
Reads(x, m, s) ==
    LET q == wait[m]
        \* beat that the device is answering in state data_r
        n == IF x.resp_valid THEN Moved(m) + 1 ELSE Moved(m)
    IN  /\ x.state \in {"addr_r", "data_r", "out_r"}
        /\ x.req_id = m /\ x.req_incr
        /\ x.state = "addr_r" =>
             /\ Moved(m) = 0 /\ x.req_valid /\ ~x.resp_valid /\ ~x.resp_last
             /\ x.req_addr = q.addr /\ x.req_len = q.len /\ (x.req_last_a <=> q.len = 0)
        /\ x.state = "data_r" =>
             /\ x.req_done /\ ~x.resp_last /\ (~x.resp_valid => Moved(m) = 0)
             /\ n <= q.len
             /\ x.req_last_r <=> n = q.len
             /\ x.req_valid <=> n < q.len
             /\ n < q.len => /\ x.req_addr = q.addr + n + 1 /\ x.req_len = q.len - n - 1
                             /\ x.req_last_a <=> n + 1 = q.len
             /\ s # NS => rd[s] = q.addr + n
        /\ x.state = "out_r" => x.resp_valid /\ x.resp_last /\ Moved(m) = q.len
        /\ x.resp_valid =>
             /\ x.resp_err <=> s = NS
             /\ s # NS => x.resp_rdata = golden[m][s][Moved(m)]

\* the adapter x holds the beat of request q that it writes next
Holds(x, q) ==
    /\ x.state = "burst_w" /\ x.req_valid /\ x.req_len <= q.len
    /\ x.req_addr = q.addr + (q.len - x.req_len)
    /\ x.req_wdata = q.data[q.len - x.req_len]
    /\ x.req_wstrb = q.strb[q.len - x.req_len]

\* the locks, with the adapter at each of them
ReadLock ==
    IF k.r_m = NM THEN k.r_s = NS
    ELSE /\ ser[k.r_m].amba = "reading" /\ wait[k.r_m].slv = k.r_s
         /\ Reads(slv[k.r_s], k.r_m, k.r_s)
WriteLock ==
    IF k.w_m = NM THEN k.w_s = NS
    ELSE /\ ser[k.w_m].amba = "writing" /\ wait[k.w_m].slv = k.w_s
         /\ k.w_s # NS =>
              LET x == slv[k.w_s]   q == wait[k.w_m]
              IN  /\ x.req_id = k.w_m /\ x.req_incr
                  /\ \/ /\ x.state = "w" /\ Moved(k.w_m) = 0
                        /\ x.req_addr = q.addr /\ x.req_len = q.len
                     \/ Holds(x, q) /\ x.req_len = ser[k.w_m].req_len + 1 /\ k.b_s = NS
RespLock ==
    IF k.b_m = NM THEN k.b_s = NS
    ELSE /\ ser[k.b_m].amba = "wack" /\ wait[k.b_m].slv = k.b_s
         /\ k.b_s # NS =>
              /\ slv[k.b_s].req_id = k.b_m
              /\ \/ Holds(slv[k.b_s], wait[k.b_m]) /\ slv[k.b_s].req_len = 0
                 \/ slv[k.b_s].state = "b"

\* the adapter of device s works for the master at a lock
SlaveInv(s) ==
    /\ slv[s].state \in {"addr_r", "data_r", "out_r"} => k.r_s = s
    /\ slv[s].state = "w" => k.w_s = s
    /\ slv[s].state = "burst_w" => k.w_s = s \/ k.b_s = s
    /\ slv[s].state = "b" => k.b_s = s
    /\ slv[s].req_write <=> slv[s].state = "burst_w"

\* word i of the line of m in device s is written, before m has the response
Stored(m, s, i) ==
    /\ wait[m] # None /\ wait[m].write /\ wait[m].slv = s
    /\ \/ slv[s].state = "b"
       \/ slv[s].state = "burst_w" /\ i < wait[m].len - slv[s].req_len

MemInv ==
    \A m \in Masters, s \in Devices, i \in Z!Beat :
        mem[s][m * Beats + i] =
            IF Stored(m, s, i) THEN Written(wait[m], golden[m][s])[i] ELSE golden[m][s][i]

BusInv ==
    /\ TypeOK
    /\ \A m \in Masters : MasterInv(m)
    /\ ReadLock /\ WriteLock /\ RespLock
    /\ \A s \in Devices : SlaveInv(s)
    /\ MemInv /\ ReadsOwnLine

----------------------------------------------------------------------------
(***************************************************************************)
(* The wires of one clock, named as in Clock of BusSystem.                 *)
(***************************************************************************)
ReadyTo(s) == s = NS \/ Ready(s)
RR == IF k.r_m = NM THEN None ELSE S!SlvROut(slv[k.r_s])
BB(late) == IF k.b_m = NM THEN None ELSE S!SlvBOut(slv[k.b_s], Resp(k.b_s, late))
ROf(m) == IF m = k.r_m THEN RR ELSE None
BOf(late, m) == IF m = k.b_m THEN BB(late) ELSE None
Ar(late) == [m \in Masters |-> Z!ArOut(ser[m], job[m], [n \in Masters |-> ROf(n)][m],
                                       [n \in Masters |-> BOf(late, n)][m])]
Aw(late) == [m \in Masters |-> Z!AwOut(ser[m], job[m], [n \in Masters |-> ROf(n)][m],
                                       [n \in Masters |-> BOf(late, n)][m])]
WW == IF k.w_m = NM THEN None ELSE Z!WOut(ser[k.w_m])
RFire == RR # None /\ RR.last
BFire(late) == BB(late) # None
WOk == S!SlvWReady(slv[k.w_s], ReadyTo(k.w_s))
WFire == WW # None /\ WW.last /\ WOk
WOpen(late) == ~WBusy(k, WFire, BFire(late))
ROpen == ~RBusy(k, RFire)
BOpen(late) == ~BBusy(k, BFire(late))
AwM(late) == Chosen(Aw(late))
AwS(late) == Target(Aw(late))
ArM(late) == Chosen(Ar(late))
ArS(late) == Target(Ar(late))
AwIn(late, s) ==
    IF WOpen(late) /\ AwM(late) # NM /\ s = AwS(late) THEN Aw(late)[AwM(late)] ELSE None
ArIn(late, s) ==
    IF ROpen /\ ArM(late) # NM /\ s = ArS(late) THEN Ar(late)[ArM(late)] ELSE None
AwOk(late) == S!SlvAwReady(slv[AwS(late)])
ArOk(late) == S!SlvArReady(slv[ArS(late)], AwIn(late, ArS(late)))
Si(late, s) ==
    [aw |-> AwIn(late, s), ar |-> ArIn(late, s),
     w |-> IF WW # None /\ BOpen(late) /\ s = k.w_s THEN WW ELSE None,
     b_ready |-> s = k.b_s /\ k.b_m # NM,
     r_ready |-> s = k.r_s /\ k.r_m # NM]
TakesR(late, m) == m = ArM(late) /\ ArOk(late) /\ ROpen
TakesW(late, m) == m = AwM(late) /\ AwOk(late) /\ WOpen(late)
Sends(late, m) == m = k.w_m /\ WOk /\ BOpen(late)
Taken(late, m) == Z!ReqTaken(ser[m], job[m], ROf(m), BOf(late, m), TakesR(late, m), TakesW(late, m))
Rsp(late, m) == Z!Response(ser[m], ROf(m), BOf(late, m))

\* Clock says what its wires say (comb of axictrl_bus0.cpp).
LEMMA ClockWires ==
    ASSUME NEW late, Clock(late)
    PROVE  /\ load' = load
           /\ slv' = [s \in Slaves |-> S!SlvNext(slv[s], Si(late, s), ReadyTo(s), Resp(s, late))]
           /\ mem' = [s \in Devices |-> MemNext(s)]
           /\ rd' = [s \in Devices |-> RdNext(s, late)]
           /\ k' = BLocks(WLocks(RLocks(k, ArM(late) # NM /\ ArOk(late), ArM(late), ArS(late),
                                       RFire),
                                AwM(late) # NM /\ AwOk(late), AwM(late), AwS(late), WFire,
                                BFire(late)),
                         k, WFire, BFire(late))
           /\ clk' = ~clk
  BY DEF Clock, ReadyTo, RR, BB, ROf, BOf, Ar, Aw, WW, RFire, BFire, WOk, WFire, WOpen, ROpen,
     BOpen, AwM, AwS, ArM, ArS, AwIn, ArIn, AwOk, ArOk, Si

\* The same for one master.
LEMMA MasterWires ==
    ASSUME NEW late, Clock(late), NEW m \in Masters
    PROVE  /\ DOMAIN ser' = Masters /\ DOMAIN wait' = Masters
           /\ DOMAIN told' = Masters /\ DOMAIN golden' = Masters
           /\ ser'[m] = Z!SerdesNext(ser[m], job[m], ROf(m), BOf(late, m), TakesR(late, m),
                                    TakesW(late, m), Sends(late, m))
           /\ wait'[m] = IF Taken(late, m) THEN job[m]
                        ELSE IF Rsp(late, m) # None THEN None ELSE wait[m]
           /\ told'[m] = IF Rsp(late, m) = None THEN None ELSE Judge(m, Rsp(late, m))
           /\ golden'[m] =
                IF Rsp(late, m) # None /\ wait[m] # None /\ wait[m].write /\ wait[m].slv # NS
                THEN [golden[m] EXCEPT ![wait[m].slv] = Written(wait[m], @)] ELSE golden[m]
  BY DEF Clock, ReadyTo, RR, BB, ROf, BOf, Ar, Aw, WW, RFire, BFire, WOk, WFire, WOpen, ROpen,
     BOpen, AwM, AwS, ArM, ArS, AwIn, ArIn, AwOk, ArOk, Si, TakesR, TakesW, Sends, Taken, Rsp

\* The L2 caches at rest may ask for something new.
LEMMA JobWires ==
    ASSUME NEW late, Clock(late)
    PROVE  \E new \in Asked[load] :
              /\ \A m \in Masters : AtRest(m) \/ new[m] = None
              /\ job' = [m \in Masters |-> IF AtRest(m) THEN new[m]
                                          ELSE IF Taken(late, m) THEN None ELSE job[m]]
<1> DEFINE Taking(m) == Z!ReqTaken(ser[m], job[m], [n \in Masters |-> ROf(n)][m],
                                  [n \in Masters |-> BOf(late, n)][m],
                                  TakesR(late, m), TakesW(late, m))
<1>1. job' \in {[m \in Masters |-> IF AtRest(m) THEN new[m]
                                   ELSE IF [n \in Masters |-> Taking(n)][m] THEN None ELSE job[m]] :
                new \in {f \in Asked[load] : \A m \in Masters : AtRest(m) \/ f[m] = None}}
  BY DEF Clock, ReadyTo, RR, BB, ROf, BOf, Ar, Aw, WW, RFire, BFire, WOk, WFire, WOpen, ROpen,
     BOpen, AwM, AwS, ArM, ArS, AwIn, ArIn, AwOk, ArOk, Si, TakesR, TakesW, Sends, Taken, Rsp
<1>2. \A m \in Masters : [n \in Masters |-> Taking(n)][m] = Taken(late, m)
  BY DEF Taken
<1> HIDE DEF Taking
<1>3. PICK new \in Asked[load] :
         /\ \A m \in Masters : AtRest(m) \/ new[m] = None
         /\ job' = [m \in Masters |-> IF AtRest(m) THEN new[m]
                                     ELSE IF [n \in Masters |-> Taking(n)][m] THEN None ELSE job[m]]
  BY <1>1
<1> QED BY <1>2, <1>3

----------------------------------------------------------------------------
(***************************************************************************)
(* Addresses and requests.                                                 *)
(***************************************************************************)
Asks == [write : BOOLEAN, slv : Slaves, addr : 0 .. Words - 1, len : Z!Beat,
         data : Z!Lines, strb : Z!Strobes, incr : {TRUE}, id : Masters]

\* the sizes, and a product of a number of masters by the length of a line
LEMMA Sizes ==
    /\ NM \in Nat \ {0} /\ NS \in Nat \ {0} /\ Beats \in Nat \ {0} /\ 0 \in Values
    /\ Words \in Nat \ {0} /\ NM \notin Masters /\ NS \in Slaves /\ NS \notin Devices
    /\ Z!Beat = 0 .. Beats - 1
<1>1. \A a, b \in Nat \ {0} : a * b \in Nat \ {0}
  OBVIOUS
<1> QED BY <1>1, BusAssumption, SystemAssumption DEF Words, Masters, Slaves, Devices, Z!Beat

\* A line that is not the last ends where another begins.
LEMMA LineAhead ==
    ASSUME NEW n \in Nat, NEW m \in 0 .. n - 1, NEW b \in Nat
    PROVE  m * b \in Nat /\ n * b \in Nat /\ m * b + b <= n * b
<1> DEFINE d == n - m - 1
<1>1. d \in Nat /\ n = d + m + 1
  OBVIOUS
<1>2. d * b \in Nat /\ m * b \in Nat
  BY <1>1
<1> HIDE DEF d
<1>3. (d + m + 1) * b = d * b + m * b + b
  BY <1>1
<1> QED BY <1>1, <1>2, <1>3

\* Every word of the line of a master is in the page of a device.
LEMMA LinePlaces ==
    ASSUME NEW m \in Masters, NEW i \in Z!Beat
    PROVE  m * Beats \in Nat /\ m * Beats + i \in 0 .. Words - 1
<1>1. m * Beats \in Nat /\ NM * Beats \in Nat /\ m * Beats + Beats <= NM * Beats
  BY Sizes, LineAhead DEF Masters
<1> QED BY <1>1, Sizes DEF Words

\* The lines of two masters do not overlap.
LEMMA LinesApart ==
    ASSUME NEW m \in Masters, NEW n \in Masters, NEW i \in Z!Beat, NEW j \in Z!Beat,
           m * Beats + i = n * Beats + j
    PROVE  m = n /\ i = j
<1>1. ASSUME NEW x \in Masters, NEW y \in Masters, x < y
      PROVE  x * Beats \in Nat /\ y * Beats \in Nat /\ x * Beats + Beats <= y * Beats
  BY <1>1, Sizes, LineAhead DEF Masters
<1>2. m = n
  <2>1. m \in Nat /\ n \in Nat
    BY DEF Masters
  <2>2. m * Beats \in Nat /\ n * Beats \in Nat
    BY LinePlaces
  <2>3. CASE m < n
    BY <1>1, <2>2, <2>3, Sizes
  <2>4. CASE n < m
    BY <1>1, <2>2, <2>4, Sizes
  <2> QED BY <2>1, <2>3, <2>4
<1>3. m * Beats \in Nat
  BY LinePlaces
<1> QED BY <1>2, <1>3, Sizes

\* What the requests of a master are.
LEMMA RequestFacts ==
    ASSUME NEW l \in Workloads, NEW m \in Masters, NEW q \in Requests[l][m], q # None
    PROVE  /\ q \in Asks /\ q.id = m /\ q.addr = m * Beats /\ q.incr
           /\ q.slv \in l.slow => q.len = 0
           /\ \A i \in Z!Beat : q.strb[i] => i <= q.len
<1>1. q \in Jobs(l, m) /\ (q.slv \in l.slow => q.len = 0)
  BY DEF Requests
<1>2. PICK p \in {None} \cup IF m \in l.writers THEN l.patterns ELSE {},
           s \in l.targets, n \in {0, Beats - 1} :
        q = [write |-> p # None, slv |-> s, addr |-> m * Beats, len |-> n,
             data |-> IF p = None THEN [i \in Z!Beat |-> 0] ELSE p.data,
             strb |-> [i \in Z!Beat |-> p # None /\ i <= n /\ p.strb[i]],
             incr |-> TRUE, id |-> m]
  BY <1>1, SMTT(30) DEF Jobs
<1>3. s \in Slaves /\ l.patterns \subseteq Patterns
  BY SystemAssumption
<1>4. 0 \in Z!Beat /\ n \in Z!Beat
  BY Sizes
<1>5. m * Beats \in 0 .. Words - 1
  BY <1>4, LinePlaces
<1>6. (IF p = None THEN [i \in Z!Beat |-> 0] ELSE p.data) \in Z!Lines
  <2>1. CASE p = None
    BY <2>1, Sizes DEF Z!Lines
  <2>2. CASE p # None
    BY <1>3, <2>2 DEF Patterns, Z!Lines, Z!Beat
  <2> QED BY <2>1, <2>2
<1>7. [i \in Z!Beat |-> p # None /\ i <= n /\ p.strb[i]] \in Z!Strobes
  BY <1>3 DEF Patterns, Z!Strobes, Z!Beat
<1>8. q \in Asks
  BY <1>2, <1>3, <1>4, <1>5, <1>6, <1>7 DEF Asks
<1> QED BY <1>1, <1>2, <1>8

----------------------------------------------------------------------------
(***************************************************************************)
(* Arbitration: the last master in the loop is a master that asks.         *)
(***************************************************************************)

\* A set of numbers below a bound has a largest one: if not, the numbers that it reaches
\* are one to one with those but 0.
LEMMA Largest ==
    ASSUME NEW n \in Nat, NEW T \in SUBSET (0 .. n), T # {}
    PROVE  \E x \in T : \A y \in T : y <= x
<1> SUFFICES ASSUME \A x \in T : \E y \in T : x < y
             PROVE  FALSE
  OBVIOUS
<1> DEFINE C == {x \in 0 .. n : \E y \in T : x <= y}
           up == [x \in C |-> x + 1]
<1>1. 0 \in C
  <2>1. PICK y \in T : TRUE
    OBVIOUS
  <2> QED BY <2>1
<1>2. \A x \in C : x + 1 \in C \ {0}
  <2> SUFFICES ASSUME NEW x \in C PROVE x + 1 \in C \ {0}
    OBVIOUS
  <2>1. PICK y \in T : x <= y
    OBVIOUS
  <2>2. PICK z \in T : y < z
    OBVIOUS
  <2>3. x \in Nat /\ y \in Nat /\ z \in 0 .. n
    OBVIOUS
  <2>4. x + 1 <= z /\ x + 1 \in 0 .. n
    BY <2>1, <2>2, <2>3
  <2> QED BY <2>3, <2>4
<1>3. IsFiniteSet(C)
  <2>1. C \in SUBSET (0 .. n) /\ IsFiniteSet(0 .. n)
    BY FS_Interval
  <2> QED BY <2>1, FS_Subset
<1>4. Cardinality(C) \in Nat /\ IsFiniteSet(C \ {0}) /\ Cardinality(C \ {0}) = Cardinality(C) - 1
  BY <1>1, <1>3, FS_CardinalityType, FS_RemoveElement
<1>5. up \in [C -> C \ {0}]
  BY <1>2
<1>6. \A x, y \in C : x # y => up[x] # up[y]
  OBVIOUS
<1> HIDE DEF C, up
<1>7. Cardinality(C \ {0}) < Cardinality(C)
  BY <1>4
<1>8. \E x, y \in C : x # y /\ up[x] = up[y]
  BY <1>3, <1>4, <1>5, <1>7, FS_PigeonHole
<1> QED BY <1>6, <1>8

\* The master that is heard asks, and for the slave that is heard.
LEMMA ChosenFacts ==
    ASSUME NEW q, Chosen(q) # NM
    PROVE  Chosen(q) \in Masters /\ q[Chosen(q)] # None /\ Target(q) = q[Chosen(q)].slv
<1> DEFINE asking == {m \in Masters : q[m] # None}
<1>1. asking # {}
  BY DEF Chosen
<1>2. Chosen(q) = CHOOSE m \in asking : \A n \in asking : n <= m
  BY <1>1 DEF Chosen
<1>3. \E m \in asking : \A n \in asking : n <= m
  <2>1. NM - 1 \in Nat /\ asking \in SUBSET (0 .. NM - 1)
    BY Sizes DEF Masters
  <2> HIDE DEF asking
  <2> QED BY <1>1, <2>1, Largest
<1>4. Chosen(q) \in asking
  BY <1>2, <1>3
<1> QED BY <1>4 DEF Target

----------------------------------------------------------------------------
(***************************************************************************)
(* What the masters ask for.                                               *)
(***************************************************************************)
TypeInv == TypeOK /\ load \in Workloads

\* what is known of the request q of master m
IsAsk(q, m) ==
    /\ q \in Asks /\ q.id = m /\ q.addr = m * Beats /\ q.incr
    /\ q.slv \in load.slow => q.len = 0
    /\ \A i \in Z!Beat : q.strb[i] => i <= q.len

\* A request that waits, or was taken, is one of the requests of its master.
LEMMA AskFacts ==
    ASSUME TypeInv, NEW m \in Masters
    PROVE  /\ job[m] # None => IsAsk(job[m], m)
           /\ wait[m] # None => IsAsk(wait[m], m)
           /\ ser[m] \in Z!SerdesRegisters
<1>1. load \in Workloads /\ job[m] \in Requests[load][m] /\ wait[m] \in Requests[load][m]
      /\ ser[m] \in Z!SerdesRegisters
  BY DEF TypeInv, TypeOK
<1>2. job[m] # None => IsAsk(job[m], m)
  BY <1>1, RequestFacts DEF IsAsk
<1>3. wait[m] # None => IsAsk(wait[m], m)
  BY <1>1, RequestFacts DEF IsAsk
<1> QED BY <1>1, <1>2, <1>3

\* A master asks on the address channels exactly when it has a request that is not taken.
LEMMA Asking ==
    ASSUME TypeInv, NEW m \in Masters, MasterInv(m), NEW late
    PROVE  /\ Ar(late)[m] = IF job[m] # None /\ ~job[m].write THEN job[m] ELSE None
           /\ Aw(late)[m] = IF job[m] # None /\ job[m].write THEN job[m] ELSE None
           /\ job[m] # None => wait[m] = None
           /\ Z!ArOut(ser[m], job[m], ROf(m), BOf(late, m)) = Ar(late)[m]
           /\ Z!AwOut(ser[m], job[m], ROf(m), BOf(late, m)) = Aw(late)[m]
<1>1. job[m] # None => wait[m] = None /\ ser[m].amba = "idle"
  BY DEF MasterInv
<1>2. /\ Z!ArOut(ser[m], job[m], ROf(m), BOf(late, m)) = Ar(late)[m]
      /\ Z!AwOut(ser[m], job[m], ROf(m), BOf(late, m)) = Aw(late)[m]
  BY DEF Ar, Aw
<1>3. /\ Z!ArOut(ser[m], job[m], ROf(m), BOf(late, m))
            = IF job[m] # None /\ ~job[m].write THEN job[m] ELSE None
      /\ Z!AwOut(ser[m], job[m], ROf(m), BOf(late, m))
            = IF job[m] # None /\ job[m].write THEN job[m] ELSE None
  BY <1>1 DEF Z!ArOut, Z!AwOut, Z!NextReady
<1> QED BY <1>1, <1>2, <1>3

----------------------------------------------------------------------------
(***************************************************************************)
(* Answers of the devices and of the adapters.                             *)
(***************************************************************************)

\* slow devices that may answer
Lates == SUBSET {s \in load.slow : rd[s] # None}

\* An error is the answer outside of the memory map only; a memory answers in every clock.
LEMMA DeviceAnswers ==
    ASSUME TypeInv, NEW late \in Lates, NEW s \in Slaves
    PROVE  /\ Resp(s, late) # None => Resp(s, late) \in [data : Values, err : BOOLEAN]
           /\ Resp(s, late) # None => (Resp(s, late).err <=> s = NS)
           /\ s # NS /\ Resp(s, late) # None => /\ Resp(s, late).data = mem[s][rd[s]]
                                                /\ rd[s] \in 0 .. Words - 1
           /\ s \notin load.slow => Resp(s, late) # None /\ ReadyTo(s)
           /\ s \in load.slow => (Resp(s, late) # None <=> s \in late)
           /\ s \in late => s \in load.slow /\ rd[s] # None
           /\ load.slow \subseteq Devices
<1>1. load.slow \subseteq Devices /\ load \in Workloads
  BY SystemAssumption DEF TypeInv, Devices
<1>2. /\ s \in late => s \in load.slow /\ rd[s] # None
      /\ s # NS => s \in Devices
  BY DEF Lates, Devices
<1>3. s # NS => /\ rd[s] \in 0 .. Words - 1 \/ (s \in load.slow /\ rd[s] = None)
                /\ mem[s] \in [0 .. Words - 1 -> Values]
  BY <1>2 DEF TypeInv, TypeOK
<1>4. CASE s = NS
  <2>1. Resp(s, late) = [data |-> 0, err |-> TRUE] /\ s \notin load.slow
    BY <1>1, <1>4, Sizes DEF Resp
  <2>2. Resp(s, late) \in [data : Values, err : BOOLEAN]
    BY <2>1, Sizes
  <2>3. Resp(s, late) # None
    BY <2>2, NoneAssumption
  <2>4. Resp(s, late).err <=> s = NS
    BY <1>4, <2>1
  <2> QED BY <1>1, <1>2, <1>4, <2>1, <2>2, <2>3, <2>4 DEF ReadyTo
<1>5. CASE s # NS /\ (s \notin load.slow \/ s \in late)
  <2>1. rd[s] \in 0 .. Words - 1
    BY <1>2, <1>3, <1>5
  <2>2. Resp(s, late) = [data |-> mem[s][rd[s]], err |-> FALSE] /\ mem[s][rd[s]] \in Values
    BY <1>3, <1>5, <2>1 DEF Resp
  <2>3. Resp(s, late) \in [data : Values, err : BOOLEAN]
    BY <2>2
  <2>4. Resp(s, late) # None
    BY <2>3, NoneAssumption
  <2>5. Resp(s, late).err = FALSE /\ Resp(s, late).data = mem[s][rd[s]]
    BY <2>2
  <2>6. s \notin load.slow => ReadyTo(s)
    BY DEF ReadyTo, Ready
  <2>7. Resp(s, late).err <=> s = NS
    BY <1>5, <2>5
  <2>8. s \in load.slow => s \in late
    BY <1>5
  <2> QED BY <1>1, <1>2, <2>1, <2>3, <2>4, <2>5, <2>6, <2>7, <2>8
<1>6. CASE s \in load.slow /\ s \notin late
  BY <1>1, <1>6 DEF Resp, Devices
<1> QED BY <1>4, <1>5, <1>6

\* what stands on the R channel
LEMMA ReadAnswer ==
    ASSUME TypeInv
    PROVE  /\ k.r_m = NM => RR = None
           /\ k.r_m # NM => (RR # None <=> slv[k.r_s].resp_valid)
           /\ RR # None =>
                LET x == slv[k.r_s]
                IN  /\ RR.data = x.resp_rdata /\ RR.data \in Values
                    /\ RR.err = x.resp_err /\ RR.err \in BOOLEAN
                    /\ RR.last = x.resp_last /\ RR.last \in BOOLEAN
<1>1. slv[k.r_s] \in S!SlvRegisters
  BY DEF TypeInv, TypeOK, Locks
<1>2. CASE k.r_m # NM /\ slv[k.r_s].resp_valid
  <2> DEFINE x == slv[k.r_s]
  <2>1. RR = [id |-> x.req_id, data |-> x.resp_rdata, last |-> x.resp_last, err |-> x.resp_err]
    BY <1>2 DEF RR, S!SlvROut
  <2>2. /\ x.req_id \in Masters \cup {None} /\ x.resp_rdata \in Values
        /\ x.resp_last \in BOOLEAN /\ x.resp_err \in BOOLEAN
    BY <1>1 DEF S!SlvRegisters
  <2> HIDE DEF x
  <2>3. RR \in [id : Masters \cup {None}, data : Values, last : BOOLEAN, err : BOOLEAN]
    BY <2>1, <2>2
  <2>4. RR # None
    BY <2>3, NoneAssumption
  <2> QED BY <1>2, <2>1, <2>2, <2>4 DEF x
<1>3. CASE ~(k.r_m # NM /\ slv[k.r_s].resp_valid)
  BY <1>3 DEF RR, S!SlvROut
<1> QED BY <1>2, <1>3

\* what stands on the B channel
LEMMA WriteAnswer ==
    ASSUME TypeInv, NEW late \in Lates
    PROVE  /\ BB(late) # None <=> /\ k.b_m # NM /\ slv[k.b_s].state = "b"
                                  /\ Resp(k.b_s, late) # None
           /\ BB(late) # None => (BB(late).err <=> k.b_s = NS) /\ BB(late).err \in BOOLEAN
<1>1. k.b_s \in Slaves /\ slv[k.b_s] \in S!SlvRegisters
  BY DEF TypeInv, TypeOK, Locks
<1>2. CASE k.b_m # NM /\ slv[k.b_s].state = "b" /\ Resp(k.b_s, late) # None
  <2> DEFINE p == Resp(k.b_s, late)
             x == slv[k.b_s]
  <2>1. p \in [data : Values, err : BOOLEAN] /\ (p.err <=> k.b_s = NS)
    BY <1>1, <1>2, DeviceAnswers
  <2>2. x.req_id \in Masters \cup {None}
    BY <1>1 DEF S!SlvRegisters
  <2>3. BB(late) = [id |-> x.req_id, err |-> p.err]
    BY <1>2 DEF BB, S!SlvBOut
  <2> HIDE DEF p, x
  <2>4. BB(late) \in [id : Masters \cup {None}, err : BOOLEAN]
    BY <2>1, <2>2, <2>3
  <2>5. BB(late) # None
    BY <2>4, NoneAssumption
  <2> QED BY <1>2, <2>1, <2>3, <2>5
<1>3. CASE ~(k.b_m # NM /\ slv[k.b_s].state = "b" /\ Resp(k.b_s, late) # None)
  BY <1>3 DEF BB, S!SlvBOut
<1> QED BY <1>2, <1>3

----------------------------------------------------------------------------
(***************************************************************************)
(* Addresses that are taken.                                               *)
(***************************************************************************)
GrantR(late) == ArM(late) # NM /\ ArOk(late) /\ ROpen
GrantW(late) == AwM(late) # NM /\ AwOk(late) /\ WOpen(late)

\* A request that is taken meets an adapter that is idle, and no other master's is taken.
LEMMA GrantFacts ==
    ASSUME TypeInv, \A m \in Masters : MasterInv(m), NEW late
    PROVE  /\ GrantR(late) =>
                LET m == ArM(late)   s == ArS(late)
                IN  /\ m \in Masters /\ job[m] # None /\ ~job[m].write /\ wait[m] = None
                    /\ s \in Slaves /\ s = job[m].slv /\ slv[s].state = "Idle"
                    /\ Si(late, s).ar = job[m] /\ Si(late, s).aw = None
           /\ GrantW(late) =>
                LET m == AwM(late)   s == AwS(late)
                IN  /\ m \in Masters /\ job[m] # None /\ job[m].write /\ wait[m] = None
                    /\ s \in Slaves /\ s = job[m].slv /\ slv[s].state = "Idle"
                    /\ Si(late, s).aw = job[m]
           /\ \A s \in Slaves : slv[s].state = "Idle" =>
                /\ Si(late, s).aw # None => GrantW(late) /\ s = AwS(late)
                /\ Si(late, s).aw = None /\ Si(late, s).ar # None => GrantR(late) /\ s = ArS(late)
           /\ \A m \in Masters :
                /\ TakesR(late, m) <=> GrantR(late) /\ m = ArM(late)
                /\ TakesW(late, m) <=> GrantW(late) /\ m = AwM(late)
                /\ Taken(late, m) <=> \/ GrantR(late) /\ m = ArM(late)
                                      \/ GrantW(late) /\ m = AwM(late)
<1>1. ArM(late) # NM =>
         LET m == ArM(late)
         IN  m \in Masters /\ Ar(late)[m] # None /\ ArS(late) = Ar(late)[m].slv
  BY ChosenFacts DEF ArM, ArS
<1>2. AwM(late) # NM =>
         LET m == AwM(late)
         IN  m \in Masters /\ Aw(late)[m] # None /\ AwS(late) = Aw(late)[m].slv
  BY ChosenFacts DEF AwM, AwS
<1>3. \A m \in Masters :
        /\ Ar(late)[m] = IF job[m] # None /\ ~job[m].write THEN job[m] ELSE None
        /\ Aw(late)[m] = IF job[m] # None /\ job[m].write THEN job[m] ELSE None
        /\ job[m] # None => wait[m] = None /\ job[m].slv \in Slaves
        /\ Z!ArOut(ser[m], job[m], ROf(m), BOf(late, m)) = Ar(late)[m]
        /\ Z!AwOut(ser[m], job[m], ROf(m), BOf(late, m)) = Aw(late)[m]
  <2> TAKE m \in Masters
  <2>1. job[m] # None => job[m].slv \in Slaves
    BY AskFacts DEF IsAsk, Asks
  <2>2. MasterInv(m)
    OBVIOUS
  <2> QED BY <2>1, <2>2, Asking
<1>4. /\ ArM(late) # NM =>
           LET m == ArM(late)
           IN  /\ m \in Masters /\ job[m] # None /\ ~job[m].write /\ wait[m] = None
               /\ Ar(late)[m] = job[m] /\ ArS(late) = job[m].slv /\ ArS(late) \in Slaves
      /\ AwM(late) # NM =>
           LET m == AwM(late)
           IN  /\ m \in Masters /\ job[m] # None /\ job[m].write /\ wait[m] = None
               /\ Aw(late)[m] = job[m] /\ AwS(late) = job[m].slv /\ AwS(late) \in Slaves
  BY <1>1, <1>2, <1>3
<1>5. GrantR(late) => /\ slv[ArS(late)].state = "Idle"
                      /\ Si(late, ArS(late)).ar = job[ArM(late)] /\ Si(late, ArS(late)).aw = None
  BY <1>4 DEF GrantR, ArOk, S!SlvArReady, Si, ArIn
<1>6. GrantW(late) => slv[AwS(late)].state = "Idle" /\ Si(late, AwS(late)).aw = job[AwM(late)]
  BY <1>4 DEF GrantW, AwOk, S!SlvAwReady, Si, AwIn
<1>7. ASSUME NEW s \in Slaves, slv[s].state = "Idle"
      PROVE  /\ Si(late, s).aw # None => GrantW(late) /\ s = AwS(late)
             /\ Si(late, s).aw = None /\ Si(late, s).ar # None => GrantR(late) /\ s = ArS(late)
  BY <1>7 DEF Si, AwIn, ArIn, GrantW, GrantR, AwOk, ArOk, S!SlvAwReady, S!SlvArReady
<1>8. ASSUME NEW m \in Masters
      PROVE  /\ TakesR(late, m) <=> GrantR(late) /\ m = ArM(late)
             /\ TakesW(late, m) <=> GrantW(late) /\ m = AwM(late)
             /\ Taken(late, m) <=> \/ GrantR(late) /\ m = ArM(late)
                                   \/ GrantW(late) /\ m = AwM(late)
  <2>1. m # NM
    BY Sizes
  <2>2. /\ TakesR(late, m) <=> GrantR(late) /\ m = ArM(late)
        /\ TakesW(late, m) <=> GrantW(late) /\ m = AwM(late)
    BY <2>1 DEF TakesR, TakesW, GrantR, GrantW
  <2>3. /\ m = ArM(late) => Ar(late)[m] # None
        /\ m = AwM(late) => Aw(late)[m] # None
    BY <1>1, <1>2, <2>1
  <2> QED BY <1>3, <2>2, <2>3 DEF Taken, Z!ReqTaken
<1> QED BY <1>4, <1>5, <1>6, <1>7, <1>8 DEF GrantR, GrantW

----------------------------------------------------------------------------
(***************************************************************************)
(* One clock of a master, by the state of its bus adapter (l2serdes.cpp,   *)
(* l2_amba.cpp).                                                           *)
(***************************************************************************)
AllMasters == \A m \in Masters : MasterInv(m)

\* nothing happens to the request and to the response of master m
Unheard(m) == wait'[m] = wait[m] /\ told'[m] = None /\ golden'[m] = golden[m]

\* the fields of the serializer that a request uses
SameBeats(m) ==
    /\ ser'[m].state = ser[m].state /\ ser'[m].amba = ser[m].amba
    /\ ser'[m].req_len = ser[m].req_len /\ ser'[m].rmux = ser[m].rmux
    /\ ser'[m].line = ser[m].line /\ ser'[m].wstrb = ser[m].wstrb

\* A master at rest begins exactly when its request is taken.
LEMMA IdleMaster ==
    ASSUME TypeInv, AllMasters, NEW late \in Lates, Clock(late), NEW m \in Masters,
           wait[m] = None
    PROVE  /\ told'[m] = None /\ golden'[m] = golden[m]
           /\ GrantR(late) /\ m = ArM(late) =>
                /\ wait'[m] = job[m]
                /\ ser'[m].amba = "reading" /\ ser'[m].state = "Read" /\ ser'[m].rmux = 0
                /\ ser'[m].req_len = job[m].len
           /\ GrantW(late) /\ m = AwM(late) =>
                /\ wait'[m] = job[m]
                /\ ser'[m].amba = "writing" /\ ser'[m].state = "Write"
                /\ ser'[m].line = job[m].data /\ ser'[m].wstrb = job[m].strb
                /\ ser'[m].req_len = job[m].len
           /\ ~(GrantR(late) /\ m = ArM(late)) /\ ~(GrantW(late) /\ m = AwM(late)) =>
                wait'[m] = None /\ ser'[m].amba = "idle" /\ ser'[m].state = "Idle"
<1> DEFINE z == ser[m]
           ar == Z!ArOut(z, job[m], ROf(m), BOf(late, m))
           aw == Z!AwOut(z, job[m], ROf(m), BOf(late, m))
           tr == TakesR(late, m)
           tw == TakesW(late, m)
           y == [z EXCEPT !.amba = Z!Amba(z, job[m], ROf(m), BOf(late, m), tr, tw, Sends(late, m)),
                          !.b_wait = Z!LastW(z, Sends(late, m)) \/ (@ /\ BOf(late, m) = None)]
<1>1. z \in Z!SerdesRegisters /\ z.amba = "idle" /\ z.state = "Idle"
  BY AskFacts DEF AllMasters, MasterInv, Z!SerdesRegisters
<1>2. Z!NextReady(z, ROf(m), BOf(late, m)) /\ ~Z!LastR(z, ROf(m)) /\ ~Z!LastW(z, Sends(late, m))
      /\ Rsp(late, m) = None
  BY <1>1 DEF Z!NextReady, Z!LastR, Z!LastW, Rsp, Z!Response
<1>3. /\ ar = IF job[m] # None /\ ~job[m].write THEN job[m] ELSE None
      /\ aw = IF job[m] # None /\ job[m].write THEN job[m] ELSE None
  BY Asking DEF AllMasters
<1>4. /\ tr <=> GrantR(late) /\ m = ArM(late)
      /\ tw <=> GrantW(late) /\ m = AwM(late)
      /\ Taken(late, m) <=> tr \/ tw
      /\ tr => job[m] # None /\ ~job[m].write
      /\ tw => job[m] # None /\ job[m].write
  BY GrantFacts DEF AllMasters
<1>5. /\ ser'[m] = Z!SerdesNext(z, job[m], ROf(m), BOf(late, m), tr, tw, Sends(late, m))
      /\ wait'[m] = IF Taken(late, m) THEN job[m] ELSE IF Rsp(late, m) # None THEN None ELSE wait[m]
      /\ told'[m] = None /\ golden'[m] = golden[m]
  BY <1>2, MasterWires
<1>6. ser'[m] = Z!Begins(z, y, job[m], ROf(m), BOf(late, m), tr, tw)
  BY <1>1, <1>2, <1>5 DEF Z!SerdesNext, Z!Transfer
<1> HIDE DEF tr, tw, ar, aw
<1>7. y.amba = IF tr THEN "reading" ELSE IF tw THEN "writing" ELSE "idle"
  BY <1>1, <1>2, <1>3, <1>4 DEF Z!Amba, ar, aw, Z!SerdesRegisters
<1>8. CASE tr
  <2>1. ser'[m] = [y EXCEPT !.state = "Read", !.rmux = 0, !.req_len = job[m].len]
    BY <1>3, <1>4, <1>6, <1>8 DEF Z!Begins, ar
  <2>2. /\ ser'[m].amba = y.amba /\ ser'[m].state = "Read" /\ ser'[m].rmux = 0
        /\ ser'[m].req_len = job[m].len
    BY <1>1, <2>1 DEF Z!SerdesRegisters
  <2>3. ~tw
    BY <1>4, <1>8
  <2> QED BY <1>4, <1>5, <1>7, <1>8, <2>2, <2>3
<1>9. CASE ~tr /\ tw
  <2>1. ser'[m] = [y EXCEPT !.state = "Write", !.line = job[m].data, !.wstrb = job[m].strb,
                            !.req_len = job[m].len]
    BY <1>3, <1>4, <1>6, <1>9 DEF Z!Begins, ar, aw
  <2>2. /\ ser'[m].amba = y.amba /\ ser'[m].state = "Write" /\ ser'[m].line = job[m].data
        /\ ser'[m].wstrb = job[m].strb /\ ser'[m].req_len = job[m].len
    BY <1>1, <2>1 DEF Z!SerdesRegisters
  <2> QED BY <1>4, <1>5, <1>7, <1>9, <2>2
<1>10. CASE ~tr /\ ~tw
  <2>1. ser'[m] = [y EXCEPT !.state = "Idle", !.req_len = 0]
    BY <1>6, <1>10 DEF Z!Begins
  <2>2. ser'[m].amba = y.amba /\ ser'[m].state = "Idle"
    BY <1>1, <2>1 DEF Z!SerdesRegisters
  <2>3. wait'[m] = None
    BY <1>2, <1>4, <1>5, <1>10
  <2> QED BY <1>4, <1>5, <1>7, <1>10, <2>2, <2>3
<1> QED BY <1>8, <1>9, <1>10

\* a master that waits hears nothing on its address channels
LEMMA BusyMaster ==
    ASSUME TypeInv, AllMasters, NEW late \in Lates, Clock(late), NEW m \in Masters,
           wait[m] # None
    PROVE  /\ job[m] = None /\ ~TakesR(late, m) /\ ~TakesW(late, m) /\ ~Taken(late, m)
           /\ Z!ArOut(ser[m], job[m], ROf(m), BOf(late, m)) = None
           /\ Z!AwOut(ser[m], job[m], ROf(m), BOf(late, m)) = None
           /\ ser[m] \in Z!SerdesRegisters /\ ser[m].amba # "idle"
           /\ m # ArM(late) \/ ~GrantR(late)
           /\ m # AwM(late) \/ ~GrantW(late)
<1>1. job[m] = None /\ ser[m] \in Z!SerdesRegisters /\ ser[m].amba # "idle"
  BY AskFacts DEF AllMasters, MasterInv
<1>2. /\ Z!ArOut(ser[m], job[m], ROf(m), BOf(late, m)) = None
      /\ Z!AwOut(ser[m], job[m], ROf(m), BOf(late, m)) = None
  BY <1>1 DEF Z!ArOut, Z!AwOut
<1>3. ~(GrantR(late) /\ m = ArM(late)) /\ ~(GrantW(late) /\ m = AwM(late))
  BY GrantFacts DEF AllMasters
<1>4. ~TakesR(late, m) /\ ~TakesW(late, m) /\ ~Taken(late, m)
  BY <1>3, GrantFacts DEF AllMasters
<1> QED BY <1>1, <1>2, <1>3, <1>4

\* A line with one more word is a line.
LEMMA LineTypes ==
    ASSUME NEW z \in Z!SerdesRegisters, NEW a, a.data \in Values
    PROVE  Z!LineO(z, a) \in Z!Lines
  BY DEF Z!LineO, Z!Lines, Z!SerdesRegisters

\* A master that reads puts every word that it hears into its line.
LEMMA ReadingMaster ==
    ASSUME TypeInv, AllMasters, NEW late \in Lates, Clock(late), NEW m \in Masters,
           ser[m].amba = "reading"
    PROVE  /\ ROf(m) = None => Unheard(m) /\ SameBeats(m)
           /\ ROf(m) # None /\ ser[m].req_len # 0 =>
                /\ Unheard(m)
                /\ ser'[m].amba = "reading" /\ ser'[m].state = "Read"
                /\ ser'[m].req_len = ser[m].req_len - 1
                /\ ser'[m].line = Z!LineO(ser[m], ROf(m))
                /\ ser'[m].rmux = IF ser[m].rmux = Beats THEN Beats ELSE ser[m].rmux + 1
           /\ ROf(m) # None /\ ser[m].req_len = 0 =>
                /\ wait'[m] = None /\ golden'[m] = golden[m]
                /\ told'[m] = Judge(m, [data |-> Z!LineO(ser[m], ROf(m)), err |-> ROf(m).err])
                /\ ser'[m].amba = "idle" /\ ser'[m].state = "Idle"
<1> DEFINE z == ser[m]
           a == ROf(m)
           b == BOf(late, m)
           se == Sends(late, m)
           y == [Z!Transfer(z, a, se) EXCEPT
                   !.amba = Z!Amba(z, job[m], a, b, FALSE, FALSE, se),
                   !.b_wait = Z!LastW(z, se) \/ (@ /\ b = None)]
<1>1. wait[m] # None /\ ~wait[m].write /\ z.state = "Read"
  BY DEF AllMasters, MasterInv
<1>2. /\ z \in Z!SerdesRegisters /\ ~Taken(late, m)
      /\ TakesR(late, m) = FALSE /\ TakesW(late, m) = FALSE
      /\ Z!ArOut(z, job[m], a, b) = None /\ Z!AwOut(z, job[m], a, b) = None
  <2>1. ~TakesR(late, m) /\ ~TakesW(late, m)
    BY <1>1, BusyMaster
  <2>2. TakesR(late, m) \in BOOLEAN /\ TakesW(late, m) \in BOOLEAN
    BY DEF TakesR, TakesW
  <2> QED BY <1>1, <2>1, <2>2, BusyMaster
<1>3. /\ ser'[m] = Z!SerdesNext(z, job[m], a, b, FALSE, FALSE, se)
      /\ wait'[m] = IF Rsp(late, m) # None THEN None ELSE wait[m]
      /\ told'[m] = IF Rsp(late, m) = None THEN None ELSE Judge(m, Rsp(late, m))
      /\ golden'[m] = golden[m]
  BY <1>1, <1>2, MasterWires
<1>4. ~Z!LastW(z, se) /\ (Z!LastR(z, a) <=> a # None /\ z.req_len = 0)
  BY <1>1 DEF Z!LastW, Z!LastR
<1>5. Z!Amba(z, job[m], a, b, FALSE, FALSE, se) = IF Z!LastR(z, a) THEN "idle" ELSE "reading"
  BY <1>2 DEF Z!Amba, Z!NextReady
<1>6. Rsp(late, m) = IF Z!LastR(z, a) THEN [data |-> Z!LineO(z, a), err |-> a.err] ELSE None
  BY DEF Rsp, Z!Response
<1>7. a # None => a.data \in Values /\ a.err \in BOOLEAN
  BY ReadAnswer DEF ROf
<1> HIDE DEF a, b, se
<1>8. CASE a = None
  <2>1. ser'[m] = y /\ Z!Transfer(z, a, se) = z
    BY <1>1, <1>3, <1>4, <1>8 DEF Z!SerdesNext, Z!Transfer
  <2>2. PICK e : ser'[m] = [z EXCEPT !.amba = "reading", !.b_wait = e]
    BY <1>4, <1>5, <1>8, <2>1
  <2>3. SameBeats(m)
    BY <1>2, <2>2 DEF Z!SerdesRegisters, SameBeats
  <2> QED BY <1>3, <1>4, <1>6, <1>8, <2>3 DEF a, Unheard
<1>9. CASE a # None /\ z.req_len # 0
  <2>1. /\ ser'[m] = y
        /\ Z!Transfer(z, a, se) =
             [z EXCEPT !.line = Z!LineO(z, a), !.rmux = IF @ = Beats THEN @ ELSE @ + 1,
                       !.req_len = IF @ = 0 THEN 0 ELSE @ - 1]
    BY <1>1, <1>3, <1>4, <1>9 DEF Z!SerdesNext, Z!Transfer
  <2>2. /\ ser'[m].amba = "reading" /\ ser'[m].state = "Read"
        /\ ser'[m].req_len = ser[m].req_len - 1
        /\ ser'[m].line = Z!LineO(ser[m], a)
        /\ ser'[m].rmux = IF ser[m].rmux = Beats THEN Beats ELSE ser[m].rmux + 1
    BY <1>1, <1>2, <1>4, <1>5, <1>9, <2>1 DEF Z!SerdesRegisters
  <2> QED BY <1>3, <1>4, <1>6, <1>9, <2>2 DEF a, Unheard
<1>10. CASE a # None /\ z.req_len = 0
  <2>1. [data |-> Z!LineO(z, a), err |-> a.err] # None
    <3>1. [data |-> Z!LineO(z, a), err |-> a.err] \in [data : Z!Lines \cup {None}, err : BOOLEAN]
      BY <1>2, <1>7, <1>10, LineTypes
    <3> QED BY <3>1, NoneAssumption
  <2>2. ser'[m] = [y EXCEPT !.state = "Idle", !.req_len = 0]
    BY <1>3, <1>4, <1>10 DEF Z!SerdesNext, Z!Begins
  <2>3. ser'[m].amba = "idle" /\ ser'[m].state = "Idle"
    BY <1>2, <1>4, <1>5, <1>10, <2>2 DEF Z!SerdesRegisters, Z!Transfer
  <2> QED BY <1>3, <1>4, <1>6, <1>10, <2>1, <2>3 DEF a
<1> QED BY <1>8, <1>9, <1>10 DEF a

\* A master that writes goes on to its next word when the last one is taken.
LEMMA WritingMaster ==
    ASSUME TypeInv, AllMasters, NEW late \in Lates, Clock(late), NEW m \in Masters,
           ser[m].amba = "writing"
    PROVE  /\ Unheard(m)
           /\ ~Sends(late, m) => SameBeats(m)
           /\ Sends(late, m) /\ ser[m].req_len # 0 =>
                /\ ser'[m].amba = "writing" /\ ser'[m].state = "Write"
                /\ ser'[m].req_len = ser[m].req_len - 1
                /\ ser'[m].line = Z!Shifted(ser[m].line, 0)
                /\ ser'[m].wstrb = Z!Shifted(ser[m].wstrb, FALSE)
           /\ Sends(late, m) /\ ser[m].req_len = 0 =>
                ser'[m].amba = "wack" /\ ser'[m].state = "Idle" /\ ser'[m].b_wait
<1> DEFINE z == ser[m]
           a == ROf(m)
           b == BOf(late, m)
           se == Sends(late, m)
           y == [Z!Transfer(z, a, se) EXCEPT
                   !.amba = Z!Amba(z, job[m], a, b, FALSE, FALSE, se),
                   !.b_wait = Z!LastW(z, se) \/ (@ /\ b = None)]
<1>1. wait[m] # None /\ z.state = "Write"
  BY DEF AllMasters, MasterInv
<1>2. /\ z \in Z!SerdesRegisters /\ ~Taken(late, m)
      /\ TakesR(late, m) = FALSE /\ TakesW(late, m) = FALSE
      /\ Z!ArOut(z, job[m], a, b) = None /\ Z!AwOut(z, job[m], a, b) = None
  <2>1. ~TakesR(late, m) /\ ~TakesW(late, m)
    BY <1>1, BusyMaster
  <2>2. TakesR(late, m) \in BOOLEAN /\ TakesW(late, m) \in BOOLEAN
    BY DEF TakesR, TakesW
  <2> QED BY <1>1, <2>1, <2>2, BusyMaster
<1>3. Rsp(late, m) = None
  BY DEF Rsp, Z!Response
<1>4. ser'[m] = Z!SerdesNext(z, job[m], a, b, FALSE, FALSE, se) /\ Unheard(m)
  BY <1>1, <1>2, <1>3, MasterWires DEF Unheard
<1>5. ~Z!LastR(z, a) /\ (Z!LastW(z, se) <=> se /\ z.req_len = 0)
  BY <1>1 DEF Z!LastW, Z!LastR
<1>6. Z!Amba(z, job[m], a, b, FALSE, FALSE, se) = IF Z!LastW(z, se) THEN "wack" ELSE "writing"
  BY <1>2 DEF Z!Amba, Z!NextReady
<1> HIDE DEF a, b, se
<1>7. CASE ~se
  <2>1. ser'[m] = y /\ Z!Transfer(z, a, se) = z
    BY <1>1, <1>4, <1>5, <1>7 DEF Z!SerdesNext, Z!Transfer
  <2>2. PICK e : ser'[m] = [z EXCEPT !.amba = "writing", !.b_wait = e]
    BY <1>5, <1>6, <1>7, <2>1
  <2>3. SameBeats(m)
    BY <1>2, <2>2 DEF Z!SerdesRegisters, SameBeats
  <2> QED BY <1>4, <1>7, <2>3 DEF se
<1>8. CASE se /\ z.req_len # 0
  <2>1. /\ ser'[m] = y
        /\ Z!Transfer(z, a, se) =
             [z EXCEPT !.line = Z!Shifted(@, 0), !.wstrb = Z!Shifted(@, FALSE),
                       !.req_len = IF @ = 0 THEN 0 ELSE @ - 1]
    BY <1>1, <1>4, <1>5, <1>8 DEF Z!SerdesNext, Z!Transfer
  <2>2. /\ ser'[m].amba = "writing" /\ ser'[m].state = "Write"
        /\ ser'[m].req_len = ser[m].req_len - 1
        /\ ser'[m].line = Z!Shifted(ser[m].line, 0)
        /\ ser'[m].wstrb = Z!Shifted(ser[m].wstrb, FALSE)
    BY <1>1, <1>2, <1>5, <1>6, <1>8, <2>1 DEF Z!SerdesRegisters
  <2> QED BY <1>4, <1>8, <2>2 DEF se
<1>9. CASE se /\ z.req_len = 0
  <2>1. ser'[m] = [y EXCEPT !.state = "Idle", !.req_len = 0]
    BY <1>4, <1>5, <1>9 DEF Z!SerdesNext, Z!Begins
  <2>2. ser'[m].amba = "wack" /\ ser'[m].state = "Idle" /\ ser'[m].b_wait
    BY <1>1, <1>2, <1>5, <1>6, <1>9, <2>1 DEF Z!SerdesRegisters, Z!Transfer
  <2> QED BY <1>4, <1>9, <2>2 DEF se
<1> QED BY <1>7, <1>8, <1>9 DEF se

\* A master that has sent its words waits for the answer.
LEMMA WaitingMaster ==
    ASSUME TypeInv, AllMasters, NEW late \in Lates, Clock(late), NEW m \in Masters,
           ser[m].amba = "wack"
    PROVE  /\ BOf(late, m) = None =>
                Unheard(m) /\ ser'[m].amba = "wack" /\ ser'[m].state = "Idle" /\ ser'[m].b_wait
           /\ BOf(late, m) # None =>
                /\ wait'[m] = None
                /\ told'[m] = Judge(m, [data |-> None, err |-> BOf(late, m).err])
                /\ golden'[m] = IF wait[m].slv # NS
                                THEN [golden[m] EXCEPT ![wait[m].slv] = Written(wait[m], @)]
                                ELSE golden[m]
                /\ ser'[m].amba = "idle" /\ ser'[m].state = "Idle"
<1> DEFINE z == ser[m]
           a == ROf(m)
           b == BOf(late, m)
           se == Sends(late, m)
           y == [Z!Transfer(z, a, se) EXCEPT
                   !.amba = Z!Amba(z, job[m], a, b, FALSE, FALSE, se),
                   !.b_wait = Z!LastW(z, se) \/ (@ /\ b = None)]
<1>1. wait[m] # None /\ wait[m].write /\ z.state = "Idle" /\ z.b_wait
  BY AskFacts DEF AllMasters, MasterInv, Z!SerdesRegisters
<1>2. /\ z \in Z!SerdesRegisters /\ ~Taken(late, m)
      /\ TakesR(late, m) = FALSE /\ TakesW(late, m) = FALSE
      /\ Z!ArOut(z, job[m], a, b) = None /\ Z!AwOut(z, job[m], a, b) = None
  <2>1. ~TakesR(late, m) /\ ~TakesW(late, m)
    BY <1>1, BusyMaster
  <2>2. TakesR(late, m) \in BOOLEAN /\ TakesW(late, m) \in BOOLEAN
    BY DEF TakesR, TakesW
  <2> QED BY <1>1, <2>1, <2>2, BusyMaster
<1>3. /\ ser'[m] = Z!SerdesNext(z, job[m], a, b, FALSE, FALSE, se)
      /\ wait'[m] = IF Rsp(late, m) # None THEN None ELSE wait[m]
      /\ told'[m] = IF Rsp(late, m) = None THEN None ELSE Judge(m, Rsp(late, m))
      /\ golden'[m] = IF Rsp(late, m) # None /\ wait[m].slv # NS
                      THEN [golden[m] EXCEPT ![wait[m].slv] = Written(wait[m], @)] ELSE golden[m]
  BY <1>1, <1>2, MasterWires
<1>4. ~Z!LastW(z, se) /\ ~Z!LastR(z, a) /\ (Z!BValid(z, b) <=> b # None)
  BY <1>1 DEF Z!LastW, Z!LastR, Z!BValid
<1>5. Z!Amba(z, job[m], a, b, FALSE, FALSE, se) = IF b # None THEN "idle" ELSE "wack"
  BY <1>2, <1>4 DEF Z!Amba, Z!NextReady
<1>6. Rsp(late, m) = IF b # None THEN [data |-> None, err |-> b.err] ELSE None
  BY <1>4 DEF Rsp, Z!Response
<1>7. b # None => [data |-> None, err |-> b.err] # None
  <2>1. b # None => b.err \in BOOLEAN
    BY WriteAnswer DEF BOf
  <2>2. b # None => [data |-> None, err |-> b.err] \in [data : Z!Lines \cup {None}, err : BOOLEAN]
    BY <2>1
  <2> QED BY <2>2, NoneAssumption
<1> HIDE DEF a, b, se
<1>8. ser'[m] = [y EXCEPT !.state = "Idle", !.req_len = 0] /\ Z!Transfer(z, a, se) = z
  BY <1>1, <1>3, <1>4 DEF Z!SerdesNext, Z!Begins, Z!Transfer
<1>9. /\ ser'[m].amba = IF b # None THEN "idle" ELSE "wack"
      /\ ser'[m].state = "Idle" /\ (b = None => ser'[m].b_wait)
  BY <1>1, <1>2, <1>4, <1>5, <1>8 DEF Z!SerdesRegisters
<1>10. CASE b = None
  BY <1>3, <1>6, <1>9, <1>10 DEF b, Unheard
<1>11. CASE b # None
  BY <1>3, <1>6, <1>7, <1>9, <1>11 DEF b
<1> QED BY <1>10, <1>11 DEF b

----------------------------------------------------------------------------
(***************************************************************************)
(* One clock of the locks (axictrl_bus0.cpp).                              *)
(***************************************************************************)
LastSent(late) == WFire /\ BOpen(late)

\* A channel is open without a lock, or in the clock in which it is given back.
LEMMA OpenFacts ==
    ASSUME NEW late
    PROVE  /\ ROpen <=> k.r_s = NS \/ RFire
           /\ BOpen(late) <=> k.b_s = NS \/ BFire(late)
           /\ WOpen(late) <=> (k.w_s = NS \/ WFire) /\ BOpen(late)
  BY DEF ROpen, BOpen, WOpen, RBusy, BBusy, WBusy

\* a master, or none
Owners == 0 .. NM

\* The set of the locks, with its parts named.
LEMMA LockFields ==
    Locks = [r_m : Owners, r_s : Slaves, w_m : Owners, w_s : Slaves, b_m : Owners, b_s : Slaves]
  BY DEF Locks, Owners

\* The master and the slave that are heard are a master and a slave, or none.
LEMMA HeardTypes ==
    ASSUME TypeInv, AllMasters, NEW late
    PROVE  /\ ArM(late) \in 0 .. NM /\ ArS(late) \in Slaves
           /\ AwM(late) \in 0 .. NM /\ AwS(late) \in Slaves
<1>1. ASSUME NEW m \in Masters
      PROVE  /\ Ar(late)[m] # None => Ar(late)[m].slv \in Slaves
             /\ Aw(late)[m] # None => Aw(late)[m].slv \in Slaves
  <2>1. job[m] # None => job[m].slv \in Slaves
    BY AskFacts DEF IsAsk, Asks
  <2> QED BY <2>1, Asking DEF AllMasters
<1>2. /\ ArM(late) # NM => ArM(late) \in Masters /\ ArS(late) = Ar(late)[ArM(late)].slv
                           /\ Ar(late)[ArM(late)] # None
      /\ AwM(late) # NM => AwM(late) \in Masters /\ AwS(late) = Aw(late)[AwM(late)].slv
                           /\ Aw(late)[AwM(late)] # None
  BY ChosenFacts DEF ArM, AwM, ArS, AwS
<1>3. /\ ArM(late) = NM => ArS(late) = NS
      /\ AwM(late) = NM => AwS(late) = NS
  BY DEF ArM, AwM, ArS, AwS, Target
<1> QED BY <1>1, <1>2, <1>3, Sizes DEF Masters

\* What each of the locks is after a clock.
LEMMA LockStep ==
    ASSUME TypeInv, AllMasters, NEW late, Clock(late)
    PROVE  /\ k' \in Locks
           /\ GrantR(late) => k'.r_m = ArM(late) /\ k'.r_s = ArS(late)
           /\ ~GrantR(late) /\ RFire => k'.r_m = NM /\ k'.r_s = NS
           /\ ~GrantR(late) /\ ~RFire => k'.r_m = k.r_m /\ k'.r_s = k.r_s
           /\ GrantW(late) => k'.w_m = AwM(late) /\ k'.w_s = AwS(late)
           /\ ~GrantW(late) /\ LastSent(late) => k'.w_m = NM /\ k'.w_s = NS
           /\ ~GrantW(late) /\ ~LastSent(late) => k'.w_m = k.w_m /\ k'.w_s = k.w_s
           /\ LastSent(late) => k'.b_m = k.w_m /\ k'.b_s = k.w_s
           /\ ~LastSent(late) /\ BFire(late) => k'.b_m = NM /\ k'.b_s = NS
           /\ ~LastSent(late) /\ ~BFire(late) => k'.b_m = k.b_m /\ k'.b_s = k.b_s
<1> DEFINE rn == ArM(late) # NM /\ ArOk(late)
           wn == AwM(late) # NM /\ AwOk(late)
           kr == RLocks(k, rn, ArM(late), ArS(late), RFire)
           kw == WLocks(kr, wn, AwM(late), AwS(late), WFire, BFire(late))
<1>1. /\ k \in Locks
      /\ RFire \in BOOLEAN /\ WFire \in BOOLEAN /\ BFire(late) \in BOOLEAN
      /\ rn \in BOOLEAN /\ wn \in BOOLEAN
      /\ ArM(late) \in Owners /\ ArS(late) \in Slaves
      /\ AwM(late) \in Owners /\ AwS(late) \in Slaves
      /\ NM \in Owners /\ NS \in Slaves /\ k.w_m \in Owners /\ k.w_s \in Slaves
  BY HeardTypes, Sizes DEF Locks, Owners, TypeInv, TypeOK, RFire, WFire, BFire
<1>2. k' = BLocks(kw, k, WFire, BFire(late))
  BY ClockWires
<1>a. /\ GrantR(late) <=> rn /\ ~RBusy(k, RFire)
      /\ GrantW(late) <=> wn /\ ~WBusy(k, WFire, BFire(late))
      /\ LastSent(late) <=> WFire /\ ~BBusy(k, BFire(late))
  BY DEF GrantR, ROpen, GrantW, WOpen, LastSent, BOpen
<1> HIDE DEF rn, wn
<1>3. /\ kr \in Locks
      /\ GrantR(late) => kr.r_m = ArM(late) /\ kr.r_s = ArS(late)
      /\ ~GrantR(late) /\ RFire => kr.r_m = NM /\ kr.r_s = NS
      /\ ~GrantR(late) /\ ~RFire => kr.r_m = k.r_m /\ kr.r_s = k.r_s
      /\ kr.w_m = k.w_m /\ kr.w_s = k.w_s /\ kr.b_m = k.b_m /\ kr.b_s = k.b_s
  <2>1. CASE GrantR(late)
    <3>1. kr = [k EXCEPT !.r_m = ArM(late), !.r_s = ArS(late)]
      BY <1>1, <1>a, <2>1 DEF RLocks
    <3> HIDE DEF kr
    <3> QED BY <1>1, <1>a, <2>1, <3>1, LockFields
  <2>2. CASE ~GrantR(late) /\ RFire
    <3>1. kr = [k EXCEPT !.r_m = NM, !.r_s = NS]
      BY <1>1, <1>a, <2>2 DEF RLocks
    <3> HIDE DEF kr
    <3> QED BY <1>1, <1>a, <2>2, <3>1, LockFields
  <2>3. CASE ~GrantR(late) /\ ~RFire
    <3>1. kr = k
      BY <1>1, <1>a, <2>3 DEF RLocks
    <3> HIDE DEF kr
    <3> QED BY <1>1, <1>a, <2>3, <3>1
  <2> QED BY <2>1, <2>2, <2>3
<1> HIDE DEF kr
<1>4. /\ WBusy(kr, WFire, BFire(late)) <=> WBusy(k, WFire, BFire(late))
      /\ BBusy(kr, BFire(late)) <=> BBusy(k, BFire(late))
  BY <1>3 DEF WBusy, BBusy
<1>5. /\ kw \in Locks
      /\ GrantW(late) => kw.w_m = AwM(late) /\ kw.w_s = AwS(late)
      /\ ~GrantW(late) /\ LastSent(late) => kw.w_m = NM /\ kw.w_s = NS
      /\ ~GrantW(late) /\ ~LastSent(late) => kw.w_m = kr.w_m /\ kw.w_s = kr.w_s
      /\ kw.r_m = kr.r_m /\ kw.r_s = kr.r_s /\ kw.b_m = kr.b_m /\ kw.b_s = kr.b_s
  <2>1. CASE GrantW(late)
    <3>1. kw = [kr EXCEPT !.w_m = AwM(late), !.w_s = AwS(late)]
      BY <1>1, <1>3, <1>a, <1>4, <2>1 DEF WLocks
    <3> HIDE DEF kw
    <3> QED BY <1>1, <1>3, <1>a, <1>4, <2>1, <3>1, LockFields
  <2>2. CASE ~GrantW(late) /\ LastSent(late)
    <3>1. kw = [kr EXCEPT !.w_m = NM, !.w_s = NS]
      BY <1>1, <1>3, <1>a, <1>4, <2>2 DEF WLocks
    <3> HIDE DEF kw
    <3> QED BY <1>1, <1>3, <1>a, <1>4, <2>2, <3>1, LockFields
  <2>3. CASE ~GrantW(late) /\ ~LastSent(late)
    <3>1. kw = kr
      BY <1>1, <1>3, <1>a, <1>4, <2>3 DEF WLocks
    <3> HIDE DEF kw
    <3> QED BY <1>1, <1>3, <1>a, <1>4, <2>3, <3>1
  <2> QED BY <2>1, <2>2, <2>3
<1> HIDE DEF kw
<1>6. /\ k' \in Locks
      /\ LastSent(late) => k'.b_m = k.w_m /\ k'.b_s = k.w_s
      /\ ~LastSent(late) /\ BFire(late) => k'.b_m = NM /\ k'.b_s = NS
      /\ ~LastSent(late) /\ ~BFire(late) => k'.b_m = kw.b_m /\ k'.b_s = kw.b_s
      /\ k'.r_m = kw.r_m /\ k'.r_s = kw.r_s /\ k'.w_m = kw.w_m /\ k'.w_s = kw.w_s
  <2>1. CASE LastSent(late)
    <3>1. k' = [kw EXCEPT !.b_m = k.w_m, !.b_s = k.w_s]
      BY <1>1, <1>2, <1>5, <1>a, <2>1 DEF BLocks
    <3> QED BY <1>1, <1>2, <1>5, <1>a, <2>1, <3>1, LockFields
  <2>2. CASE ~LastSent(late) /\ BFire(late)
    <3>1. k' = [kw EXCEPT !.b_m = NM, !.b_s = NS]
      BY <1>1, <1>2, <1>5, <1>a, <2>2 DEF BLocks
    <3> QED BY <1>1, <1>2, <1>5, <1>a, <2>2, <3>1, LockFields
  <2>3. CASE ~LastSent(late) /\ ~BFire(late)
    <3>1. k' = kw
      BY <1>1, <1>2, <1>5, <1>a, <2>3 DEF BLocks
    <3> QED BY <1>1, <1>2, <1>5, <1>a, <2>3, <3>1
  <2> QED BY <2>1, <2>2, <2>3
<1> QED BY <1>3, <1>5, <1>6

\* The master at the lock of the W channel always offers a word.
LEMMA WriteWord ==
    ASSUME TypeInv, AllMasters, WriteLock, NEW late
    PROVE  /\ k.w_m # NM =>
                /\ k.w_m \in Masters /\ ser[k.w_m].amba = "writing" /\ ser[k.w_m].state = "Write"
                /\ wait[k.w_m] # None /\ wait[k.w_m].write /\ wait[k.w_m].slv = k.w_s
                /\ WW # None /\ WW.data = ser[k.w_m].line[0] /\ WW.strb = ser[k.w_m].wstrb[0]
                /\ WW.last <=> ser[k.w_m].req_len = 0
                /\ WW \in [data : Values, strb : BOOLEAN, last : BOOLEAN]
                /\ Sends(late, k.w_m) <=> WOk /\ BOpen(late)
                /\ LastSent(late) <=> Sends(late, k.w_m) /\ ser[k.w_m].req_len = 0
           /\ k.w_m = NM => WW = None /\ ~WFire /\ ~LastSent(late) /\ k.w_s = NS
           /\ \A m \in Masters : m # k.w_m => ~Sends(late, m)
<1>1. k.w_m \in 0 .. NM
  BY DEF TypeInv, TypeOK, Locks
<1>2. \A m \in Masters : m # k.w_m => ~Sends(late, m)
  BY DEF Sends
<1>3. k.w_m = NM => WW = None /\ ~WFire /\ ~LastSent(late) /\ k.w_s = NS
  BY DEF WW, WFire, LastSent, WriteLock
<1>4. ASSUME k.w_m # NM
      PROVE  /\ k.w_m \in Masters /\ ser[k.w_m].amba = "writing" /\ ser[k.w_m].state = "Write"
             /\ wait[k.w_m] # None /\ wait[k.w_m].write /\ wait[k.w_m].slv = k.w_s
             /\ WW # None /\ WW.data = ser[k.w_m].line[0] /\ WW.strb = ser[k.w_m].wstrb[0]
             /\ WW.last <=> ser[k.w_m].req_len = 0
             /\ WW \in [data : Values, strb : BOOLEAN, last : BOOLEAN]
             /\ Sends(late, k.w_m) <=> WOk /\ BOpen(late)
             /\ LastSent(late) <=> Sends(late, k.w_m) /\ ser[k.w_m].req_len = 0
  <2> DEFINE m == k.w_m
             z == ser[m]
  <2>1. m \in Masters
    BY <1>1, <1>4, Sizes DEF Masters
  <2>2. z.amba = "writing" /\ wait[m].slv = k.w_s
    BY <1>4 DEF WriteLock
  <2>3. z.state = "Write" /\ wait[m] # None /\ wait[m].write
    BY <2>1, <2>2 DEF AllMasters, MasterInv
  <2>4. z.line \in Z!Lines /\ z.wstrb \in Z!Strobes /\ 0 \in Z!Beat
    BY <2>1, AskFacts, Sizes DEF Z!SerdesRegisters
  <2>5. WW = [data |-> z.line[0], strb |-> z.wstrb[0], last |-> z.req_len = 0]
    BY <1>4, <2>3 DEF WW, Z!WOut
  <2>6. WW \in [data : Values, strb : BOOLEAN, last : BOOLEAN]
    BY <2>4, <2>5 DEF Z!Lines, Z!Strobes
  <2>7. WW # None
    BY <2>6, NoneAssumption
  <2>8. WW.data = z.line[0] /\ WW.strb = z.wstrb[0] /\ (WW.last <=> z.req_len = 0)
    BY <2>5
  <2>9. Sends(late, m) <=> WOk /\ BOpen(late)
    BY DEF Sends
  <2>10. LastSent(late) <=> Sends(late, m) /\ z.req_len = 0
    BY <2>7, <2>8, <2>9 DEF LastSent, WFire
  <2> QED BY <2>1, <2>2, <2>3, <2>6, <2>7, <2>8, <2>9, <2>10
<1> QED BY <1>2, <1>3, <1>4

----------------------------------------------------------------------------
(***************************************************************************)
(* Types of the registers of an adapter (axi_slv.h).                       *)
(***************************************************************************)
Page == 0 .. Words - 1
Lens == 0 .. Beats - 1

\* The set of the registers of an adapter, with its parts named.
LEMMA SlvFields ==
    S!SlvRegisters =
      [state : S!SlvStates, req_valid : BOOLEAN, req_addr : Page,
       req_write : BOOLEAN, req_wdata : Values, req_wstrb : BOOLEAN,
       req_len : Lens, req_id : Masters \cup {None}, req_incr : BOOLEAN,
       req_last_a : BOOLEAN, req_last_r : BOOLEAN, req_done : BOOLEAN,
       resp_valid : BOOLEAN, resp_last : BOOLEAN, resp_rdata : Values,
       resp_err : BOOLEAN]
  BY DEF S!SlvRegisters, Page, Lens

\* The address and the length of the next beat stay in their ranges.
LEMMA NextPlaces ==
    ASSUME NEW x \in S!SlvRegisters
    PROVE  S!AddrNext(x) \in Page /\ S!LenNext(x) \in Lens
<1>1. x.req_addr \in Page /\ x.req_len \in Lens
  BY SlvFields
<1>2. \A a \in Nat, n \in Nat \ {0} : a % n \in 0 .. n - 1
  OBVIOUS
<1>3. (x.req_addr + 1) % Words \in Page
  <2>1. x.req_addr + 1 \in Nat /\ Words \in Nat \ {0}
    BY <1>1, Sizes DEF Page
  <2>2. (x.req_addr + 1) % Words \in 0 .. Words - 1
    BY <1>2, <2>1
  <2> QED BY <2>2 DEF Page
<1>4. x.req_len # 0 => x.req_len - 1 \in Lens
  BY <1>1, Sizes DEF Lens
<1> QED BY <1>1, <1>3, <1>4 DEF S!AddrNext, S!LenNext

\* Inside of a line the next word is the next address.
LEMMA NextWord ==
    ASSUME NEW x, NEW n \in Nat, NEW a \in Nat, a + n < Words, n > 0,
           x.req_addr = a, x.req_len = n, x.req_incr
    PROVE  S!AddrNext(x) = a + 1 /\ S!LenNext(x) = n - 1
<1>1. \A i, j \in Nat : i < j => i % j = i
  OBVIOUS
<1>2. a + 1 \in Nat /\ Words \in Nat /\ a + 1 < Words
  BY Sizes
<1>3. (a + 1) % Words = a + 1
  BY <1>1, <1>2
<1> QED BY <1>3 DEF S!AddrNext, S!LenNext

\* inputs of an adapter
Inputs(si) ==
    /\ si.aw # None => /\ si.aw.addr \in Page /\ si.aw.len \in Lens
                       /\ si.aw.id \in Masters /\ si.aw.incr \in BOOLEAN
    /\ si.ar # None => /\ si.ar.addr \in Page /\ si.ar.len \in Lens
                       /\ si.ar.id \in Masters /\ si.ar.incr \in BOOLEAN
    /\ si.w # None => si.w.data \in Values /\ si.w.strb \in BOOLEAN
    /\ si.r_ready \in BOOLEAN

\* The registers keep their types when an adapter begins,
LEMMA SlvIdleType ==
    ASSUME NEW x \in S!SlvRegisters, NEW si, Inputs(si)
    PROVE  S!SlvIdle(x, si) \in S!SlvRegisters
<1> DEFINE y == [x EXCEPT !.req_done = FALSE, !.req_valid = FALSE, !.req_write = FALSE,
                          !.resp_valid = FALSE, !.resp_last = FALSE, !.resp_err = FALSE]
<1>1. y \in S!SlvRegisters
  BY SlvFields
<1>2. S!SlvIdle(x, si) =
        IF si.aw # None
        THEN IF si.w # None
             THEN [S!Started(y, si.aw) EXCEPT !.state = "burst_w", !.req_valid = TRUE,
                      !.req_write = TRUE, !.req_wdata = si.w.data,
                      !.req_wstrb = si.w.strb, !.req_last_a = si.aw.len = 0]
             ELSE [S!Started(y, si.aw) EXCEPT !.state = "w"]
        ELSE IF si.ar # None
        THEN [S!Started(y, si.ar) EXCEPT !.state = "addr_r", !.req_valid = TRUE,
                 !.req_last_a = si.ar.len = 0]
        ELSE y
  BY DEF S!SlvIdle
<1> HIDE DEF y
<1>3. ASSUME NEW a, a.addr \in Page, a.len \in Lens, a.id \in Masters, a.incr \in BOOLEAN
      PROVE  S!Started(y, a) \in S!SlvRegisters
  BY <1>1, <1>3, SlvFields DEF S!Started
<1>4. CASE si.aw # None /\ si.w # None
  <2>1. S!Started(y, si.aw) \in S!SlvRegisters
    BY <1>3, <1>4 DEF Inputs
  <2>2. "burst_w" \in S!SlvStates /\ si.w.data \in Values /\ si.w.strb \in BOOLEAN
        /\ (si.aw.len = 0) \in BOOLEAN
    BY <1>4 DEF S!SlvStates, Inputs
  <2>3. [S!Started(y, si.aw) EXCEPT !.state = "burst_w", !.req_valid = TRUE,
             !.req_write = TRUE, !.req_wdata = si.w.data,
             !.req_wstrb = si.w.strb, !.req_last_a = si.aw.len = 0] \in S!SlvRegisters
    BY <2>1, <2>2, SlvFields, ZenonT(60)
  <2> QED BY <1>2, <1>4, <2>3
<1>5. CASE si.aw # None /\ si.w = None
  <2>1. S!Started(y, si.aw) \in S!SlvRegisters
    BY <1>3, <1>5 DEF Inputs
  <2>2. "w" \in S!SlvStates
    BY DEF S!SlvStates
  <2>3. [S!Started(y, si.aw) EXCEPT !.state = "w"] \in S!SlvRegisters
    BY <2>1, <2>2, SlvFields, ZenonT(60)
  <2> QED BY <1>2, <1>5, <2>3
<1>6. CASE si.aw = None /\ si.ar # None
  <2>1. S!Started(y, si.ar) \in S!SlvRegisters
    BY <1>3, <1>6 DEF Inputs
  <2>2. "addr_r" \in S!SlvStates /\ (si.ar.len = 0) \in BOOLEAN
    BY DEF S!SlvStates
  <2>3. [S!Started(y, si.ar) EXCEPT !.state = "addr_r", !.req_valid = TRUE,
             !.req_last_a = si.ar.len = 0] \in S!SlvRegisters
    BY <2>1, <2>2, SlvFields, ZenonT(60)
  <2> QED BY <1>2, <1>6, <2>3
<1> QED BY <1>1, <1>2, <1>4, <1>5, <1>6

\* when it takes words,
LEMMA SlvWriteType ==
    ASSUME NEW x \in S!SlvRegisters, NEW si, Inputs(si), NEW ready
    PROVE  /\ S!SlvW(x, si) \in S!SlvRegisters
           /\ S!SlvBurstW(x, si, ready) \in S!SlvRegisters
<1>1. S!SlvW(x, si) \in S!SlvRegisters
  <2>1. "burst_w" \in S!SlvStates
    BY DEF S!SlvStates
  <2> QED BY <2>1, SlvFields, ZenonT(60) DEF S!SlvW, Inputs
<1> DEFINE y == IF si.w # None
                THEN [x EXCEPT !.req_valid = TRUE, !.req_wdata = si.w.data,
                               !.req_wstrb = si.w.strb]
                ELSE IF ready THEN [x EXCEPT !.req_valid = FALSE] ELSE x
<1>2. y \in S!SlvRegisters /\ y.req_len = x.req_len
  BY SlvFields DEF Inputs
<1>3. S!SlvBurstW(x, si, ready) =
        IF ~(x.req_valid /\ ready) THEN y
        ELSE IF x.req_len # 0
        THEN [y EXCEPT !.req_done = TRUE, !.req_addr = S!AddrNext(x),
                       !.req_last_a = S!LenNext(x) = 0, !.req_len = @ - 1]
        ELSE [y EXCEPT !.req_done = TRUE, !.req_addr = S!AddrNext(x),
                       !.req_last_a = FALSE, !.req_write = FALSE, !.state = "b"]
  BY DEF S!SlvBurstW
<1> HIDE DEF y
<1>4. S!AddrNext(x) \in Page /\ (x.req_len # 0 => x.req_len - 1 \in Lens)
  BY NextPlaces DEF S!LenNext
<1>5. ASSUME ~(x.req_valid /\ ready)
      PROVE  S!SlvBurstW(x, si, ready) \in S!SlvRegisters
  BY <1>2, <1>3, <1>5
<1>6. ASSUME x.req_valid /\ ready /\ x.req_len # 0
      PROVE  S!SlvBurstW(x, si, ready) \in S!SlvRegisters
  <2>1. S!SlvBurstW(x, si, ready) =
          [y EXCEPT !.req_done = TRUE, !.req_addr = S!AddrNext(x),
                    !.req_last_a = S!LenNext(x) = 0, !.req_len = y.req_len - 1]
    BY <1>3, <1>6
  <2>2. y.req_len - 1 \in Lens
    BY <1>2, <1>4, <1>6
  <2> QED BY <1>2, <1>4, <2>1, <2>2, SlvFields
<1>7. ASSUME x.req_valid /\ ready /\ x.req_len = 0
      PROVE  S!SlvBurstW(x, si, ready) \in S!SlvRegisters
  <2>1. "b" \in S!SlvStates
    BY DEF S!SlvStates
  <2> QED BY <1>2, <1>3, <1>4, <1>7, <2>1, SlvFields, ZenonT(60)
<1>8. S!SlvBurstW(x, si, ready) \in S!SlvRegisters
  BY <1>5, <1>6, <1>7
<1> QED BY <1>1, <1>8

\* when it reads or answers,
LEMMA SlvReadType ==
    ASSUME NEW x \in S!SlvRegisters, NEW si, Inputs(si), NEW ready,
           NEW resp, resp # None => resp.data \in Values /\ resp.err \in BOOLEAN
    PROVE  /\ S!SlvAddrR(x, ready) \in S!SlvRegisters
           /\ S!SlvDataR(x, si, ready, resp) \in S!SlvRegisters
           /\ S!SlvOutR(x, si) \in S!SlvRegisters
           /\ S!SlvB(x, si, resp) \in S!SlvRegisters
<1>1. S!AddrNext(x) \in Page /\ S!LenNext(x) \in Lens /\ x.req_last_a \in BOOLEAN
      /\ x.req_last_r \in BOOLEAN
  BY NextPlaces, SlvFields
<1>2. ASSUME NEW y \in S!SlvRegisters, NEW more \in BOOLEAN
      PROVE  S!Advanced(x, y, more) \in S!SlvRegisters
  <2>1. (S!LenNext(x) = 0) \in BOOLEAN
    OBVIOUS
  <2> QED BY <1>1, <1>2, <2>1, SlvFields, ZenonT(60) DEF S!Advanced
<1>3. S!SlvAddrR(x, ready) \in S!SlvRegisters
  <2>1. CASE ready
    <3>1. S!Advanced(x, x, x.req_len # 0) \in S!SlvRegisters
      BY <1>2
    <3> QED BY <2>1, <3>1, SlvFields DEF S!SlvAddrR, S!SlvStates
  <2> QED BY <2>1 DEF S!SlvAddrR
<1> DEFINE y == IF resp # None /\ x.req_done
                THEN [x EXCEPT !.req_done = FALSE, !.resp_valid = TRUE,
                               !.resp_last = x.req_last_r, !.resp_rdata = resp.data,
                               !.resp_err = resp.err,
                               !.state = IF x.req_last_r THEN "out_r" ELSE @]
                ELSE IF si.r_ready THEN [x EXCEPT !.resp_valid = FALSE] ELSE x
<1>4. y \in S!SlvRegisters
  <2>1. "out_r" \in S!SlvStates /\ x.state \in S!SlvStates
    BY SlvFields DEF S!SlvStates
  <2>2. (IF x.req_last_r THEN "out_r" ELSE x.state) \in S!SlvStates
    BY <2>1
  <2>3. CASE resp # None /\ x.req_done
    <3> DEFINE t == IF x.req_last_r THEN "out_r" ELSE x.state
    <3>1. y = [x EXCEPT !.req_done = FALSE, !.resp_valid = TRUE,
                        !.resp_last = x.req_last_r, !.resp_rdata = resp.data,
                        !.resp_err = resp.err, !.state = t]
      BY <2>3
    <3> HIDE DEF t, y
    <3>2. t \in S!SlvStates
      BY <2>2 DEF t
    <3> QED BY <1>1, <2>3, <3>1, <3>2, SlvFields, ZenonT(60)
  <2>4. CASE ~(resp # None /\ x.req_done)
    BY <2>4, SlvFields, ZenonT(60)
  <2> QED BY <2>3, <2>4
<1>5. S!SlvDataR(x, si, ready, resp) =
        IF x.req_valid /\ ready THEN S!Advanced(x, y, ~x.req_last_a /\ si.r_ready)
        ELSE [y EXCEPT !.req_valid = ~x.req_last_r /\ si.r_ready]
  BY DEF S!SlvDataR
<1> HIDE DEF y
<1>6. S!SlvDataR(x, si, ready, resp) \in S!SlvRegisters
  <2>1. (~x.req_last_a /\ si.r_ready) \in BOOLEAN /\ (~x.req_last_r /\ si.r_ready) \in BOOLEAN
    OBVIOUS
  <2>2. [y EXCEPT !.req_valid = ~x.req_last_r /\ si.r_ready] \in S!SlvRegisters
    BY <1>4, <2>1, SlvFields
  <2> QED BY <1>2, <1>4, <1>5, <2>1, <2>2
<1>7. S!SlvOutR(x, si) \in S!SlvRegisters /\ S!SlvB(x, si, resp) \in S!SlvRegisters
  BY SlvFields DEF S!SlvOutR, S!SlvB, S!SlvStates
<1> QED BY <1>3, <1>6, <1>7

\* and so in every state.
LEMMA SlvType ==
    ASSUME NEW x \in S!SlvRegisters, NEW si, Inputs(si), NEW ready,
           NEW resp, resp # None => resp.data \in Values /\ resp.err \in BOOLEAN
    PROVE  S!SlvNext(x, si, ready, resp) \in S!SlvRegisters
<1>1. x.state \in S!SlvStates
  BY SlvFields
<1> QED BY <1>1, SlvIdleType, SlvWriteType, SlvReadType DEF S!SlvNext, S!SlvStates

----------------------------------------------------------------------------
(***************************************************************************)
(* Types of the registers of a master.                                     *)
(***************************************************************************)
SerStates == {"Idle", "Read", "Write"}
AmbaStates == {"idle", "reading", "writing", "wack"}
Places == 0 .. Beats

\* The set of the registers of a serializer, with its parts named.
LEMMA SerFields ==
    Z!SerdesRegisters =
      [amba : AmbaStates, state : SerStates, req_len : Z!Beat, b_wait : BOOLEAN,
       line : Z!Lines, wstrb : Z!Strobes, rmux : Places]
  BY DEF Z!SerdesRegisters, SerStates, AmbaStates, Places

\* A line that is shifted is a line.
LEMMA ShiftedTypes ==
    /\ \A f \in Z!Lines : Z!Shifted(f, 0) \in Z!Lines
    /\ \A f \in Z!Strobes : Z!Shifted(f, FALSE) \in Z!Strobes
<1>1. \A f \in Z!Lines : Z!Shifted(f, 0) \in Z!Lines
  BY Sizes DEF Z!Lines, Z!Shifted
<1>2. \A f \in Z!Strobes : Z!Shifted(f, FALSE) \in Z!Strobes
  BY DEF Z!Strobes, Z!Shifted
<1> QED BY <1>1, <1>2

\* The registers of a serializer keep their types.
LEMMA SerType ==
    ASSUME NEW z \in Z!SerdesRegisters, NEW q,
           q # None => q.len \in Z!Beat /\ q.data \in Z!Lines /\ q.strb \in Z!Strobes,
           NEW r, r # None => r.data \in Values, NEW b,
           NEW tr \in BOOLEAN, NEW tw \in BOOLEAN, NEW se \in BOOLEAN
    PROVE  Z!SerdesNext(z, q, r, b, tr, tw, se) \in Z!SerdesRegisters
<1> DEFINE t == Z!Transfer(z, r, se)
           am == Z!Amba(z, q, r, b, tr, tw, se)
           bw == Z!LastW(z, se) \/ (z.b_wait /\ b = None)
           y == [t EXCEPT !.amba = am, !.b_wait = bw]
<1>1. z.req_len \in Z!Beat /\ z.rmux \in Places /\ z.line \in Z!Lines /\ z.wstrb \in Z!Strobes
      /\ z.amba \in AmbaStates /\ z.b_wait \in BOOLEAN
  BY SerFields
<1>2. t \in Z!SerdesRegisters /\ t.b_wait = z.b_wait
  <2> DEFINE l == IF z.req_len = 0 THEN 0 ELSE z.req_len - 1
             u == IF z.rmux = Beats THEN z.rmux ELSE z.rmux + 1
  <2>1. l \in Z!Beat /\ u \in Places
    BY <1>1, Sizes DEF Places
  <2>2. CASE z.state = "Read" /\ r # None
    <3>1. t = [z EXCEPT !.line = Z!LineO(z, r), !.rmux = u, !.req_len = l]
      BY <2>2 DEF Z!Transfer
    <3>2. Z!LineO(z, r) \in Z!Lines
      BY <2>2, LineTypes
    <3> HIDE DEF t, l, u
    <3>3. t \in Z!SerdesRegisters
      BY <2>1, <3>1, <3>2, SerFields, ZenonT(60)
    <3> QED BY <3>1, <3>3, SerFields
  <2>3. CASE ~(z.state = "Read" /\ r # None) /\ z.state = "Write" /\ se
    <3>1. t = [z EXCEPT !.line = Z!Shifted(z.line, 0), !.wstrb = Z!Shifted(z.wstrb, FALSE),
                        !.req_len = l]
      BY <2>3 DEF Z!Transfer
    <3>2. Z!Shifted(z.line, 0) \in Z!Lines /\ Z!Shifted(z.wstrb, FALSE) \in Z!Strobes
      BY <1>1, ShiftedTypes
    <3> HIDE DEF t, l, u
    <3>3. t \in Z!SerdesRegisters
      BY <2>1, <3>1, <3>2, SerFields, ZenonT(60)
    <3> QED BY <3>1, <3>3, SerFields
  <2>4. CASE ~(z.state = "Read" /\ r # None) /\ ~(z.state = "Write" /\ se)
    BY <2>4 DEF Z!Transfer
  <2> QED BY <2>2, <2>3, <2>4
<1>3. am \in AmbaStates
  BY <1>1 DEF Z!Amba, AmbaStates
<1>4. Z!SerdesNext(z, q, r, b, tr, tw, se) =
        IF z.state = "Idle" \/ Z!LastR(z, r) \/ Z!LastW(z, se)
        THEN Z!Begins(z, y, q, r, b, tr, tw) ELSE y
  <2>1. y = [t EXCEPT !.amba = am, !.b_wait = Z!LastW(z, se) \/ (@ /\ b = None)]
    BY <1>2
  <2> QED BY <2>1 DEF Z!SerdesNext
<1>5. bw \in BOOLEAN
  OBVIOUS
<1> HIDE DEF t, am, bw
<1>6. y \in Z!SerdesRegisters
  BY <1>2, <1>3, <1>5, SerFields, ZenonT(60)
<1> HIDE DEF y
<1>7. Z!Begins(z, y, q, r, b, tr, tw) \in Z!SerdesRegisters
  <2>1. "Read" \in SerStates /\ "Write" \in SerStates /\ "Idle" \in SerStates
        /\ 0 \in Places /\ 0 \in Z!Beat
    BY Sizes DEF SerStates, Places
  <2>2. /\ Z!ArOut(z, q, r, b) # None => q # None
        /\ Z!AwOut(z, q, r, b) # None => q # None
    BY DEF Z!ArOut, Z!AwOut
  <2>3. [y EXCEPT !.state = "Idle", !.req_len = 0] \in Z!SerdesRegisters
    BY <1>6, <2>1, SerFields, ZenonT(60)
  <2>4. q # None => [y EXCEPT !.state = "Read", !.rmux = 0, !.req_len = q.len] \in Z!SerdesRegisters
    BY <1>6, <2>1, SerFields, ZenonT(60)
  <2>5. q # None => [y EXCEPT !.state = "Write", !.line = q.data, !.wstrb = q.strb,
                             !.req_len = q.len] \in Z!SerdesRegisters
    BY <1>6, <2>1, SerFields, ZenonT(60)
  <2> QED BY <2>2, <2>3, <2>4, <2>5 DEF Z!Begins
<1> QED BY <1>4, <1>6, <1>7

----------------------------------------------------------------------------
(***************************************************************************)
(* Types are kept.                                                         *)
(***************************************************************************)
LEMMA SiInputs ==
    ASSUME TypeInv, AllMasters, WriteLock, NEW late, NEW s \in Slaves
    PROVE  Inputs(Si(late, s))
<1>1. ASSUME NEW m \in Masters, job[m] # None
      PROVE  /\ job[m].addr \in Page /\ job[m].len \in Lens
             /\ job[m].id \in Masters /\ job[m].incr \in BOOLEAN
  BY <1>1, AskFacts, Sizes DEF IsAsk, Asks, Page, Lens
<1>2. /\ ArM(late) # NM => ArM(late) \in Masters /\ Ar(late)[ArM(late)] # None
      /\ AwM(late) # NM => AwM(late) \in Masters /\ Aw(late)[AwM(late)] # None
  BY ChosenFacts DEF ArM, AwM
<1>3. \A m \in Masters : /\ Ar(late)[m] # None => Ar(late)[m] = job[m]
                         /\ Aw(late)[m] # None => Aw(late)[m] = job[m]
  BY Asking DEF AllMasters
<1>4. Si(late, s).ar # None => /\ Si(late, s).ar.addr \in Page /\ Si(late, s).ar.len \in Lens
                               /\ Si(late, s).ar.id \in Masters /\ Si(late, s).ar.incr \in BOOLEAN
  BY <1>1, <1>2, <1>3 DEF Si, ArIn
<1>5. Si(late, s).aw # None => /\ Si(late, s).aw.addr \in Page /\ Si(late, s).aw.len \in Lens
                               /\ Si(late, s).aw.id \in Masters /\ Si(late, s).aw.incr \in BOOLEAN
  BY <1>1, <1>2, <1>3 DEF Si, AwIn
<1>6. WW # None => WW.data \in Values /\ WW.strb \in BOOLEAN
  BY WriteWord
<1>7. Si(late, s).w # None => Si(late, s).w.data \in Values /\ Si(late, s).w.strb \in BOOLEAN
  BY <1>6 DEF Si
<1>8. Si(late, s).r_ready \in BOOLEAN
  BY DEF Si
<1> QED BY <1>4, <1>5, <1>7, <1>8 DEF Inputs

\* The registers of all adapters keep their types.
LEMMA SlvTypeStep ==
    ASSUME TypeInv, AllMasters, WriteLock, NEW late \in Lates, Clock(late)
    PROVE  slv' \in [Slaves -> S!SlvRegisters]
<1>1. \A s \in Slaves : S!SlvNext(slv[s], Si(late, s), ReadyTo(s), Resp(s, late)) \in S!SlvRegisters
  <2> TAKE s \in Slaves
  <2>1. Resp(s, late) # None => Resp(s, late).data \in Values /\ Resp(s, late).err \in BOOLEAN
    BY DeviceAnswers
  <2>2. slv[s] \in S!SlvRegisters
    BY DEF TypeInv, TypeOK
  <2> QED BY <2>1, <2>2, SiInputs, SlvType
<1> QED BY <1>1, ClockWires

\* The registers of all serializers keep their types.
LEMMA SerTypeStep ==
    ASSUME TypeInv, NEW late \in Lates, Clock(late)
    PROVE  ser' \in [Masters -> Z!SerdesRegisters]
<1>1. ASSUME NEW m \in Masters
      PROVE  ser'[m] \in Z!SerdesRegisters
  <2>1. job[m] # None => /\ job[m].len \in Z!Beat /\ job[m].data \in Z!Lines
                         /\ job[m].strb \in Z!Strobes
    BY AskFacts DEF IsAsk, Asks
  <2>2. ser[m] \in Z!SerdesRegisters
    BY AskFacts
  <2>3. ROf(m) # None => ROf(m).data \in Values
    BY ReadAnswer DEF ROf
  <2>4. TakesR(late, m) \in BOOLEAN /\ TakesW(late, m) \in BOOLEAN /\ Sends(late, m) \in BOOLEAN
    BY DEF TakesR, TakesW, Sends
  <2>5. ser'[m] = Z!SerdesNext(ser[m], job[m], ROf(m), BOf(late, m), TakesR(late, m),
                               TakesW(late, m), Sends(late, m))
    BY MasterWires
  <2> QED BY <2>1, <2>2, <2>3, <2>4, <2>5, SerType
<1>2. ser' = [m \in Masters |-> ser'[m]]
  BY DEF Clock
<1> QED BY <1>1, <1>2

----------------------------------------------------------------------------
(***************************************************************************)
(* The read track: the adapter at the lock of the R channel.               *)
(***************************************************************************)

\* beat that the device answers next to master m, by the adapter x
Coming(x, m) == IF x.resp_valid THEN Moved(m) + 1 ELSE Moved(m)

\* What is known at the lock of the R channel.
LEMMA ReadFacts ==
    ASSUME TypeInv, AllMasters, ReadLock, NEW m, NEW s, k.r_m = m, k.r_s = s, m # NM,
           NEW late \in Lates
    PROVE  /\ m \in Masters /\ s \in Slaves /\ slv[s] \in S!SlvRegisters
           /\ ser[m].amba = "reading" /\ ser[m] \in Z!SerdesRegisters
           /\ wait[m] # None /\ IsAsk(wait[m], m) /\ ~wait[m].write /\ wait[m].slv = s
           /\ Reads(slv[s], m, s)
           /\ Moved(m) \in Nat /\ wait[m].len \in Nat /\ wait[m].len = Moved(m) + ser[m].req_len
           /\ ser[m].req_len \in Nat /\ wait[m].addr \in Nat
           /\ wait[m].len < Beats /\ wait[m].addr + wait[m].len < Words
           /\ s \in load.slow => wait[m].len = 0
           /\ ROf(m) = RR
           /\ RR # None <=> slv[s].resp_valid
           /\ RR # None => RR.data = slv[s].resp_rdata /\ RR.err = slv[s].resp_err
           /\ RFire <=> slv[s].state = "out_r"
           /\ Si(late, s).r_ready
<1>1. m \in Masters /\ s \in Slaves /\ slv[s] \in S!SlvRegisters
  <2>1. k.r_m \in 0 .. NM /\ k.r_s \in Slaves /\ slv \in [Slaves -> S!SlvRegisters]
    BY DEF TypeInv, TypeOK, Locks
  <2>2. m \in 0 .. NM /\ s \in Slaves
    BY <2>1
  <2>3. m \in Masters
    BY <2>2, Sizes DEF Masters
  <2> QED BY <2>1, <2>2, <2>3
<1>2. ser[m].amba = "reading" /\ wait[m].slv = s /\ Reads(slv[s], m, s)
  BY DEF ReadLock
<1>3. wait[m] # None /\ ~wait[m].write /\ ser[m].req_len <= wait[m].len
  BY <1>1, <1>2 DEF AllMasters, MasterInv
<1>4. IsAsk(wait[m], m) /\ ser[m] \in Z!SerdesRegisters
  BY <1>1, <1>3, AskFacts
<1>5. ser[m].req_len \in Z!Beat /\ wait[m].len \in Z!Beat /\ wait[m].addr = m * Beats
  BY <1>4, SerFields DEF IsAsk, Asks
<1>6. wait[m].addr \in Nat /\ wait[m].addr + wait[m].len < Words
  BY <1>1, <1>5, LinePlaces, Sizes
<1>7. /\ Moved(m) \in Nat /\ wait[m].len \in Nat /\ wait[m].len = Moved(m) + ser[m].req_len
      /\ ser[m].req_len \in Nat /\ wait[m].len < Beats
  BY <1>3, <1>5, Sizes DEF Moved
<1>8. s \in load.slow => wait[m].len = 0
  BY <1>2, <1>4 DEF IsAsk
<1>9. ROf(m) = RR /\ Si(late, s).r_ready
  BY DEF ROf, Si
<1>10. /\ RR # None <=> slv[s].resp_valid
       /\ RR # None => /\ RR.data = slv[s].resp_rdata /\ RR.err = slv[s].resp_err
                       /\ RR.last = slv[s].resp_last
  BY ReadAnswer
<1>11. RFire <=> slv[s].state = "out_r"
  BY <1>2, <1>10 DEF RFire, Reads
<1> QED BY <1>1, <1>2, <1>3, <1>4, <1>6, <1>7, <1>8, <1>9, <1>10, <1>11

\* The slave is not busy with a read of nobody.
LEMMA ReadAtNS ==
    ASSUME ReadLock, NEW s \in Devices, k.r_s = s
    PROVE  k.r_m # NM
  BY Sizes DEF ReadLock

\* What the device answers to the adapter is the word of the master.
LEMMA ReadWord ==
    ASSUME TypeInv, AllMasters, ReadLock, MemInv, NEW m, NEW s, k.r_m = m, k.r_s = s, m # NM,
           NEW late \in Lates, slv[s].state = "data_r", Resp(s, late) # None
    PROVE  /\ Resp(s, late).err <=> s = NS
           /\ s # NS => Resp(s, late).data = golden[m][s][Coming(slv[s], m)]
<1> DEFINE n == Coming(slv[s], m)
<1>1. m \in Masters /\ s \in Slaves /\ Reads(slv[s], m, s) /\ wait[m].addr = m * Beats
      /\ ~wait[m].write /\ wait[m].len < Beats /\ Moved(m) \in Nat /\ wait[m].len \in Nat
  BY ReadFacts DEF IsAsk
<1>2. n \in Nat /\ n <= wait[m].len /\ (s # NS => rd[s] = wait[m].addr + n)
  BY <1>1 DEF Coming, Reads
<1>3. n \in Z!Beat
  BY <1>1, <1>2, Sizes
<1>4. /\ Resp(s, late).err <=> s = NS
      /\ s # NS => Resp(s, late).data = mem[s][rd[s]]
  BY <1>1, DeviceAnswers
<1> HIDE DEF n
<1>5. s # NS => mem[s][m * Beats + n] = golden[m][s][n]
  <2> SUFFICES ASSUME s # NS PROVE mem[s][m * Beats + n] = golden[m][s][n]
    OBVIOUS
  <2>1. s \in Devices /\ ~Stored(m, s, n)
    BY <1>1 DEF Devices, Stored
  <2> QED BY <1>1, <1>3, <2>1 DEF MemInv
<1>6. s # NS => Resp(s, late).data = golden[m][s][n]
  BY <1>1, <1>2, <1>4, <1>5
<1> QED BY <1>4, <1>6 DEF n

\* One clock of the adapter that reads, in each of its states.
LEMMA ReadStart ==
    ASSUME TypeInv, AllMasters, NEW late \in Lates, Clock(late), GrantR(late),
           NEW m, NEW s, m = ArM(late), s = ArS(late)
    PROVE  /\ Reads(slv[s], m, s)' /\ wait'[m].slv = s /\ ser'[m].amba = "reading"
           /\ m \in Masters /\ wait'[m] = job[m]
<1>1. /\ m \in Masters /\ job[m] # None /\ ~job[m].write /\ wait[m] = None
      /\ s \in Slaves /\ s = job[m].slv /\ slv[s].state = "Idle"
      /\ Si(late, s).ar = job[m] /\ Si(late, s).aw = None
  BY GrantFacts DEF AllMasters
<1>2. wait'[m] = job[m] /\ ser'[m].amba = "reading" /\ ser'[m].req_len = job[m].len
  BY <1>1, IdleMaster
<1>3. IsAsk(job[m], m) /\ job[m].len \in Nat
  <2>1. IsAsk(job[m], m)
    BY <1>1, AskFacts
  <2>2. job[m].len \in Z!Beat
    BY <2>1 DEF IsAsk, Asks
  <2> QED BY <2>1, <2>2, Sizes
<1>4. slv[s] \in S!SlvRegisters
  BY <1>1 DEF TypeInv, TypeOK
<1> DEFINE x == slv[s]
           q == job[m]
           y == [x EXCEPT !.req_done = FALSE, !.req_valid = FALSE, !.req_write = FALSE,
                          !.resp_valid = FALSE, !.resp_last = FALSE, !.resp_err = FALSE]
<1>5. slv'[s] = [S!Started(y, q) EXCEPT !.state = "addr_r", !.req_valid = TRUE,
                                         !.req_last_a = q.len = 0]
  <2>1. slv'[s] = S!SlvNext(x, Si(late, s), ReadyTo(s), Resp(s, late))
    BY <1>1, ClockWires
  <2>2. slv'[s] = S!SlvIdle(x, Si(late, s))
    BY <1>1, <2>1 DEF S!SlvNext
  <2> QED BY <1>1, <2>2 DEF S!SlvIdle
<1>6. S!Started(y, q) = [y EXCEPT !.req_addr = q.addr, !.req_len = q.len, !.req_id = q.id,
                                  !.req_incr = q.incr]
  BY DEF S!Started
<1>7. y \in S!SlvRegisters /\ ~y.resp_valid /\ ~y.resp_last
  BY <1>4, SlvFields
<1> DEFINE c == q.len = 0
<1> HIDE DEF y, c
<1>8. /\ slv'[s].state = "addr_r" /\ slv'[s].req_valid /\ (slv'[s].req_last_a <=> c)
      /\ slv'[s].req_addr = q.addr /\ slv'[s].req_len = q.len /\ slv'[s].req_id = q.id
      /\ slv'[s].req_incr = q.incr
      /\ ~slv'[s].resp_valid /\ ~slv'[s].resp_last
  <2>1. slv'[s] = [S!Started(y, q) EXCEPT !.state = "addr_r", !.req_valid = TRUE, !.req_last_a = c]
    BY <1>5 DEF c
  <2>2. slv'[s] = [y EXCEPT !.req_addr = q.addr, !.req_len = q.len, !.req_id = q.id,
                            !.req_incr = q.incr, !.state = "addr_r", !.req_valid = TRUE,
                            !.req_last_a = c]
    BY <1>6, <2>1
  <2> QED BY <1>7, <2>2, SlvFields
<1>9. Moved(m)' = 0
  BY <1>2, <1>3 DEF Moved
<1>10. Reads(slv[s], m, s)'
  BY <1>2, <1>3, <1>8, <1>9 DEF Reads, IsAsk, c
<1> QED BY <1>1, <1>2, <1>10

\* The device takes the address, or not yet.
LEMMA ReadAddr ==
    ASSUME TypeInv, AllMasters, ReadLock, NEW m, NEW s, k.r_m = m, k.r_s = s, m # NM,
           NEW late \in Lates, Clock(late), slv[s].state = "addr_r"
    PROVE  /\ Reads(slv[s], m, s)' /\ Unheard(m) /\ SameBeats(m) /\ RR = None
           /\ slv'[s].state \in {"addr_r", "data_r"}
<1> DEFINE x == slv[s]
           q == wait[m]
<1>1. /\ m \in Masters /\ s \in Slaves /\ x \in S!SlvRegisters /\ ser[m].amba = "reading"
      /\ Reads(x, m, s) /\ Moved(m) = 0 /\ q.len \in Nat /\ q.addr \in Nat
      /\ q.addr + q.len < Words /\ RR = None /\ ROf(m) = None
      /\ s \in load.slow => q.len = 0
  BY ReadFacts DEF Reads
<1>2. /\ x.req_id = m /\ x.req_incr /\ x.req_valid /\ ~x.resp_valid /\ ~x.resp_last
      /\ x.req_addr = q.addr /\ x.req_len = q.len /\ (x.req_last_a <=> q.len = 0)
  BY <1>1 DEF Reads
<1>3. Unheard(m) /\ SameBeats(m)
  BY <1>1, ReadingMaster
<1>4. Moved(m)' = 0
  BY <1>1, <1>3 DEF Moved, Unheard, SameBeats
<1>5. slv'[s] = S!SlvAddrR(x, ReadyTo(s))
  BY <1>1, ClockWires DEF S!SlvNext
<1>6. CASE ~ReadyTo(s)
  <2>1. slv'[s] = x
    BY <1>5, <1>6 DEF S!SlvAddrR
  <2>2. wait'[m] = q
    BY <1>3 DEF Unheard
  <2>3. Reads(slv[s], m, s)'
    BY <1>2, <1>4, <2>1, <2>2 DEF Reads
  <2> QED BY <1>1, <1>3, <2>1, <2>3
<1>7. CASE ReadyTo(s)
  <2>1. slv'[s] = [S!Advanced(x, x, x.req_len # 0) EXCEPT !.state = "data_r"]
    BY <1>5, <1>7 DEF S!SlvAddrR
  <2> DEFINE a == S!AddrNext(x)
             l == S!LenNext(x)
             c == l = 0
             e == x.req_len # 0
  <2>2. slv'[s] = [x EXCEPT !.req_addr = a, !.req_len = l, !.req_last_a = c,
                            !.req_last_r = x.req_last_a, !.req_valid = e, !.req_done = TRUE,
                            !.state = "data_r"]
    BY <1>1, <2>1 DEF S!Advanced
  <2>3. /\ q.len > 0 => a = q.addr + 1
        /\ q.len > 0 => l = q.len - 1
        /\ q.len > 0 => (c <=> q.len = 1)
        /\ e <=> q.len > 0
    <3>1. q.len > 0 => a = q.addr + 1 /\ l = q.len - 1
      BY <1>1, <1>2, NextWord
    <3> HIDE DEF a, l
    <3> QED BY <1>1, <1>2, <3>1
  <2> HIDE DEF a, l, c, e
  <2>4. /\ slv'[s].state = "data_r" /\ slv'[s].req_done /\ slv'[s].req_addr = a
        /\ slv'[s].req_len = l /\ (slv'[s].req_last_a <=> c)
        /\ (slv'[s].req_last_r <=> q.len = 0) /\ (slv'[s].req_valid <=> e)
        /\ slv'[s].req_id = m /\ slv'[s].req_incr
        /\ ~slv'[s].resp_valid /\ ~slv'[s].resp_last
    BY <1>1, <1>2, <2>2, SlvFields
  <2>5. s # NS => rd'[s] = q.addr + 0
    BY <1>1, <1>2, <1>7, ClockWires DEF RdNext, ReadyTo, Devices
  <2>6. wait'[m] = q
    BY <1>3 DEF Unheard
  <2>7. Reads(slv[s], m, s)'
    BY <1>1, <1>4, <2>3, <2>4, <2>5, <2>6 DEF Reads
  <2> QED BY <1>1, <1>3, <2>4, <2>7
<1> QED BY <1>6, <1>7

\* The master counts a word in the clock in which the adapter shows it.
LEMMA ReadCounts ==
    ASSUME TypeInv, AllMasters, ReadLock, NEW m, NEW s, k.r_m = m, k.r_s = s, m # NM,
           NEW late \in Lates, Clock(late), slv[s].state = "data_r"
    PROVE  /\ Moved(m)' = Coming(slv[s], m) /\ Unheard(m)
           /\ ser'[m].amba = "reading"
<1>1. /\ m \in Masters /\ ser[m].amba = "reading" /\ Reads(slv[s], m, s) /\ ROf(m) = RR
      /\ RR # None <=> slv[s].resp_valid
      /\ Moved(m) \in Nat /\ wait[m].len \in Nat /\ wait[m].len = Moved(m) + ser[m].req_len
      /\ ser[m].req_len \in Nat
  BY ReadFacts
<1>2. slv[s].resp_valid => Moved(m) + 1 <= wait[m].len
  BY <1>1 DEF Reads
<1>3. CASE slv[s].resp_valid
  <2>1. ser[m].req_len # 0
    BY <1>1, <1>2, <1>3
  <2>2. Unheard(m) /\ ser'[m].amba = "reading" /\ ser'[m].req_len = ser[m].req_len - 1
    BY <1>1, <1>3, <2>1, ReadingMaster
  <2> QED BY <1>1, <1>3, <2>2 DEF Moved, Unheard, Coming
<1>4. CASE ~slv[s].resp_valid
  <2>1. Unheard(m) /\ SameBeats(m)
    BY <1>1, <1>4, ReadingMaster
  <2> QED BY <1>1, <1>4, <2>1 DEF Moved, Unheard, Coming, SameBeats
<1> QED BY <1>3, <1>4

\* The device does not answer yet.
LEMMA ReadDataSilent ==
    ASSUME TypeInv, AllMasters, ReadLock, NEW m, NEW s, k.r_m = m, k.r_s = s, m # NM,
           NEW late \in Lates, Clock(late), slv[s].state = "data_r", Resp(s, late) = None
    PROVE  Reads(slv[s], m, s)' /\ slv'[s].state = "data_r"
<1> DEFINE x == slv[s]
           q == wait[m]
<1>1. /\ m \in Masters /\ s \in Slaves /\ x \in S!SlvRegisters
      /\ Reads(x, m, s) /\ Moved(m) \in Nat /\ (s \in load.slow => q.len = 0)
      /\ Si(late, s).r_ready
  BY ReadFacts
<1>2. s \in load.slow /\ s \notin late /\ s # NS
  BY <1>1, DeviceAnswers DEF Devices
<1>3. q.len = 0 /\ ~x.resp_valid /\ Moved(m) = 0 /\ x.req_last_r /\ ~x.req_valid
      /\ x.req_id = m /\ x.req_incr /\ x.req_done /\ ~x.resp_last /\ rd[s] = q.addr + 0
  BY <1>1, <1>2 DEF Reads
<1>4. Moved(m)' = 0 /\ wait'[m] = q
  BY <1>3, ReadCounts DEF Coming, Unheard
<1>5. slv'[s] = S!SlvDataR(x, Si(late, s), ReadyTo(s), Resp(s, late))
  BY <1>1, ClockWires DEF S!SlvNext
<1>6. slv'[s] = [[x EXCEPT !.resp_valid = FALSE]
                    EXCEPT !.req_valid = ~x.req_last_r /\ Si(late, s).r_ready]
  BY <1>1, <1>3, <1>5 DEF S!SlvDataR
<1>7. /\ slv'[s].state = "data_r" /\ slv'[s].req_done /\ slv'[s].req_last_r
      /\ ~slv'[s].req_valid /\ slv'[s].req_id = m /\ slv'[s].req_incr
      /\ ~slv'[s].resp_valid /\ ~slv'[s].resp_last
  BY <1>1, <1>3, <1>6, SlvFields
<1>8. rd'[s] = q.addr + 0
  BY <1>1, <1>2, <1>3, ClockWires DEF RdNext, Devices
<1>9. Reads(slv[s], m, s)'
  BY <1>1, <1>3, <1>4, <1>7, <1>8 DEF Reads
<1> QED BY <1>7, <1>9

\* The device answers with the last word.
LEMMA ReadDataLast ==
    ASSUME TypeInv, AllMasters, ReadLock, MemInv, NEW m, NEW s, k.r_m = m, k.r_s = s, m # NM,
           NEW late \in Lates, Clock(late), slv[s].state = "data_r", Resp(s, late) # None,
           Coming(slv[s], m) = wait[m].len
    PROVE  Reads(slv[s], m, s)' /\ slv'[s].state = "out_r"
<1> DEFINE x == slv[s]
           q == wait[m]
           n == Coming(x, m)
           p == Resp(s, late)
<1>1. /\ m \in Masters /\ s \in Slaves /\ x \in S!SlvRegisters
      /\ Reads(x, m, s) /\ Moved(m) \in Nat /\ q.len \in Nat /\ Si(late, s).r_ready
  BY ReadFacts
<1>2. /\ x.req_last_r /\ ~x.req_valid /\ x.req_id = m /\ x.req_incr /\ x.req_done
  BY <1>1 DEF Reads, Coming
<1>3. Moved(m)' = q.len /\ wait'[m] = q /\ golden'[m] = golden[m]
  BY ReadCounts DEF Unheard
<1>4. (p.err <=> s = NS) /\ (s # NS => p.data = golden[m][s][q.len])
      /\ p.data \in Values /\ p.err \in BOOLEAN
  BY <1>1, ReadWord, DeviceAnswers
<1>5. slv'[s] = S!SlvDataR(x, Si(late, s), ReadyTo(s), p)
  BY <1>1, ClockWires DEF S!SlvNext
<1> HIDE DEF p
<1>6. slv'[s] = [[x EXCEPT !.req_done = FALSE, !.resp_valid = TRUE, !.resp_last = x.req_last_r,
                           !.resp_rdata = p.data, !.resp_err = p.err, !.state = "out_r"]
                   EXCEPT !.req_valid = ~x.req_last_r /\ Si(late, s).r_ready]
  BY <1>1, <1>2, <1>5 DEF S!SlvDataR, p
<1>7. /\ slv'[s].state = "out_r" /\ slv'[s].req_id = m /\ slv'[s].req_incr
      /\ slv'[s].resp_valid /\ slv'[s].resp_last
      /\ slv'[s].resp_rdata = p.data /\ slv'[s].resp_err = p.err
  BY <1>1, <1>2, <1>6, SlvFields
<1>8. Reads(slv[s], m, s)'
  BY <1>1, <1>3, <1>4, <1>7 DEF Reads
<1> QED BY <1>7, <1>8

\* The device answers with a word that is not the last.
LEMMA ReadDataMore ==
    ASSUME TypeInv, AllMasters, ReadLock, MemInv, NEW m, NEW s, k.r_m = m, k.r_s = s, m # NM,
           NEW late \in Lates, Clock(late), slv[s].state = "data_r", Resp(s, late) # None,
           Coming(slv[s], m) # wait[m].len
    PROVE  Reads(slv[s], m, s)' /\ slv'[s].state = "data_r"
<1> DEFINE x == slv[s]
           q == wait[m]
           n == Coming(x, m)
           p == Resp(s, late)
<1>1. /\ m \in Masters /\ s \in Slaves /\ x \in S!SlvRegisters
      /\ Reads(x, m, s) /\ Moved(m) \in Nat /\ q.len \in Nat /\ Si(late, s).r_ready
      /\ q.addr \in Nat /\ q.addr + q.len < Words /\ (s \in load.slow => q.len = 0)
  BY ReadFacts
<1>2. n \in Nat /\ n < q.len /\ s \notin load.slow /\ ReadyTo(s)
  <2>1. n \in Nat /\ n < q.len
    BY <1>1 DEF Reads, Coming
  <2>2. s \notin load.slow
    BY <1>1, <2>1
  <2> QED BY <1>1, <2>1, <2>2, DeviceAnswers
<1>3. /\ ~x.req_last_r /\ x.req_valid /\ x.req_id = m /\ x.req_incr /\ x.req_done
      /\ x.req_addr = q.addr + n + 1 /\ x.req_len = q.len - n - 1
      /\ x.req_last_a <=> n + 1 = q.len
  BY <1>1, <1>2 DEF Reads, Coming
<1>4. Moved(m)' = n /\ wait'[m] = q /\ golden'[m] = golden[m]
  BY ReadCounts DEF Unheard
<1>5. (p.err <=> s = NS) /\ (s # NS => p.data = golden[m][s][n])
      /\ p.data \in Values /\ p.err \in BOOLEAN
  BY <1>1, ReadWord, DeviceAnswers
<1>6. slv'[s] = S!SlvDataR(x, Si(late, s), ReadyTo(s), p)
  BY <1>1, ClockWires DEF S!SlvNext
<1> DEFINE y == [x EXCEPT !.req_done = FALSE, !.resp_valid = TRUE, !.resp_last = x.req_last_r,
                          !.resp_rdata = p.data, !.resp_err = p.err, !.state = "data_r"]
           more == ~x.req_last_a /\ Si(late, s).r_ready
           a == S!AddrNext(x)
           l == S!LenNext(x)
           c == l = 0
<1>7. slv'[s] = S!Advanced(x, y, more)
  BY <1>1, <1>2, <1>3, <1>6 DEF S!SlvDataR
<1>8. /\ more <=> n + 1 < q.len
      /\ n + 1 < q.len => /\ a = q.addr + n + 2 /\ l = q.len - n - 2
                          /\ c <=> n + 2 = q.len
  <2>1. more <=> n + 1 < q.len
    BY <1>1, <1>2, <1>3
  <2>2. ASSUME n + 1 < q.len
        PROVE  a = q.addr + n + 2 /\ l = q.len - n - 2
    <3>1. q.len - n - 1 \in Nat /\ q.addr + n + 1 \in Nat /\ q.len - n - 1 > 0
          /\ (q.addr + n + 1) + (q.len - n - 1) < Words
      BY <1>1, <1>2, <2>2
    <3>2. a = (q.addr + n + 1) + 1 /\ l = (q.len - n - 1) - 1
      BY <1>3, <3>1, NextWord
    <3> HIDE DEF a, l, n
    <3> QED BY <1>1, <1>2, <3>2
  <2> HIDE DEF more, a, l, n
  <2> QED BY <1>1, <1>2, <2>1, <2>2
<1>9. slv'[s] = [y EXCEPT !.req_addr = a, !.req_len = l, !.req_last_a = c,
                          !.req_last_r = x.req_last_a, !.req_valid = more, !.req_done = TRUE]
  BY <1>7 DEF S!Advanced
<1>10. s # NS => rd'[s] = q.addr + (n + 1)
  <2>1. s # NS => rd'[s] = q.addr + n + 1
    BY <1>1, <1>2, <1>3, ClockWires DEF RdNext, Devices
  <2> HIDE DEF n
  <2> QED BY <1>1, <1>2, <2>1
<1> HIDE DEF p, more, a, l, c, n
<1>11. /\ slv'[s].state = "data_r" /\ slv'[s].req_done /\ slv'[s].req_addr = a
       /\ slv'[s].req_len = l /\ (slv'[s].req_last_a <=> c)
       /\ (slv'[s].req_last_r <=> n + 1 = q.len) /\ (slv'[s].req_valid <=> more)
       /\ slv'[s].req_id = m /\ slv'[s].req_incr
       /\ slv'[s].resp_valid /\ ~slv'[s].resp_last
       /\ slv'[s].resp_rdata = p.data /\ slv'[s].resp_err = p.err
  BY <1>1, <1>3, <1>9, SlvFields
<1>12. Reads(slv[s], m, s)'
  <2> HIDE DEF q
  <2> QED BY <1>1, <1>2, <1>4, <1>5, <1>8, <1>10, <1>11 DEF Reads
<1> QED BY <1>11, <1>12

\* The lock of the R channel is given away, given back or kept, with the adapter it goes with.
LEMMA ReadLockStep ==
    ASSUME TypeInv, AllMasters, ReadLock, MemInv, NEW late \in Lates, Clock(late)
    PROVE  ReadLock'
<1>1. CASE GrantR(late)
  <2>1. PICK m, s : m = ArM(late) /\ s = ArS(late)
    OBVIOUS
  <2>2. k'.r_m = m /\ k'.r_s = s
    BY <1>1, <2>1, LockStep
  <2>3. /\ Reads(slv[s], m, s)' /\ wait'[m].slv = s /\ ser'[m].amba = "reading" /\ m \in Masters
    BY <1>1, <2>1, ReadStart
  <2>4. m # NM
    BY <2>3, Sizes
  <2> QED BY <2>2, <2>3, <2>4 DEF ReadLock, Reads, Moved
<1>2. CASE ~GrantR(late) /\ RFire
  <2>1. k'.r_m = NM /\ k'.r_s = NS
    BY <1>2, LockStep
  <2> QED BY <2>1 DEF ReadLock
<1>3. CASE ~GrantR(late) /\ ~RFire /\ k.r_m = NM
  <2>1. k'.r_m = NM /\ k'.r_s = NS
    BY <1>3, LockStep DEF ReadLock
  <2> QED BY <2>1 DEF ReadLock
<1>4. CASE ~GrantR(late) /\ ~RFire /\ k.r_m # NM
  <2>1. PICK m, s : m = k.r_m /\ s = k.r_s
    OBVIOUS
  <2>2. k'.r_m = m /\ k'.r_s = s /\ m # NM
    BY <1>4, <2>1, LockStep
  <2>3. slv[s].state \in {"addr_r", "data_r"} /\ wait[m].slv = s /\ ser[m].amba = "reading"
    BY <1>4, <2>1, <2>2, ReadFacts DEF Reads
  <2>4. Reads(slv[s], m, s)' /\ wait'[m] = wait[m] /\ ser'[m].amba = "reading"
    <3>1. CASE slv[s].state = "addr_r"
      BY <2>1, <2>2, <2>3, <3>1, ReadAddr DEF Unheard, SameBeats
    <3>2. CASE slv[s].state = "data_r"
      <4>1. Reads(slv[s], m, s)'
        BY <2>1, <2>2, <3>2, ReadDataSilent, ReadDataLast, ReadDataMore
      <4> QED BY <2>1, <2>2, <3>2, <4>1, ReadCounts DEF Unheard
    <3> QED BY <2>3, <3>1, <3>2
  <2> QED BY <2>2, <2>3, <2>4 DEF ReadLock, Reads, Moved
<1> QED BY <1>1, <1>2, <1>3, <1>4

\* A master that waits asks for nothing.
LEMMA WaitingJob ==
    ASSUME TypeInv, AllMasters, NEW late \in Lates, Clock(late), NEW m \in Masters, wait[m] # None
    PROVE  job'[m] = None
<1>1. job[m] = None /\ ~Taken(late, m)
  BY BusyMaster
<1>2. PICK new \in Asked[load] :
         /\ \A n \in Masters : AtRest(n) \/ new[n] = None
         /\ job' = [n \in Masters |-> IF AtRest(n) THEN new[n]
                                     ELSE IF Taken(late, n) THEN None ELSE job[n]]
  BY JobWires
<1> QED BY <1>1, <1>2 DEF AtRest

\* A master that reads has the words so far as it wrote them, and is told so at the end.
LEMMA ReadingStep ==
    ASSUME TypeInv, AllMasters, ReadLock, NEW late \in Lates, Clock(late),
           NEW m \in Masters, ser[m].amba = "reading"
    PROVE  MasterInv(m)' /\ told'[m] \in {None, "good"} /\ golden'[m] = golden[m]
<1> DEFINE z == ser[m]
           q == wait[m]
<1>1. /\ q # None /\ ~q.write /\ z.req_len <= q.len /\ z.rmux = Moved(m) /\ z.state = "Read"
      /\ q.slv # NS => /\ k.r_m = m /\ k.r_s = q.slv
                       /\ \A i \in Z!Beat : i < Moved(m) => z.line[i] = golden[m][q.slv][i]
  BY DEF AllMasters, MasterInv
<1>2. job'[m] = None
  BY <1>1, WaitingJob
<1>3. IsAsk(q, m) /\ z \in Z!SerdesRegisters /\ q.len \in Z!Beat /\ z.req_len \in Z!Beat
      /\ q.slv \in Slaves
  <2>1. IsAsk(q, m) /\ z \in Z!SerdesRegisters
    BY <1>1, AskFacts
  <2> QED BY <2>1, SerFields DEF IsAsk, Asks
<1>4. q.len \in Nat /\ q.len < Beats /\ z.req_len \in Nat /\ Moved(m) \in Nat
      /\ q.len = Moved(m) + z.req_len
  BY <1>1, <1>3, Sizes DEF Moved
<1>5. q.slv # NS /\ ~RFire => k'.r_m = m /\ k'.r_s = q.slv
  <2>1. q.slv # NS /\ ~RFire => ~GrantR(late)
    BY <1>1, OpenFacts DEF GrantR
  <2> QED BY <1>1, <2>1, LockStep
<1>6. CASE ROf(m) = None
  <2>1. Unheard(m) /\ SameBeats(m)
    BY <1>6, ReadingMaster
  <2>2. q.slv # NS => k'.r_m = m /\ k'.r_s = q.slv
    BY <1>1, <1>5, <1>6 DEF RFire, ROf
  <2>3. MasterInv(m)'
    BY <1>1, <1>2, <2>1, <2>2 DEF MasterInv, Unheard, SameBeats, Moved
  <2> QED BY <2>1, <2>3 DEF Unheard
<1>7. CASE ROf(m) # None
  <2>1. PICK s : s = k.r_s
    OBVIOUS
  <2>2. k.r_m = m /\ m # NM /\ RR # None /\ ROf(m) = RR
    BY <1>7, Sizes DEF ROf
  <2>3. /\ Reads(slv[s], m, s) /\ q.slv = s /\ s \in Slaves
        /\ slv[s].resp_valid /\ RR.data = slv[s].resp_rdata /\ RR.err = slv[s].resp_err
        /\ RFire <=> slv[s].state = "out_r"
    BY <2>1, <2>2, ReadFacts
  <2>4. /\ RR.err <=> s = NS
        /\ s # NS => RR.data = golden[m][s][Moved(m)]
        /\ slv[s].state = "out_r" <=> z.req_len = 0
    BY <1>4, <2>3 DEF Reads
  <2>5. Moved(m) \in Z!Beat /\ z.rmux # Beats
    BY <1>1, <1>4, Sizes
  <2>6. /\ \A i \in Z!Beat : Z!LineO(z, RR)[i] = IF i = Moved(m) THEN RR.data ELSE z.line[i]
    BY <1>1 DEF Z!LineO
  <2>7. s # NS => \A i \in Z!Beat : i < Moved(m) + 1 => Z!LineO(z, RR)[i] = golden[m][s][i]
    BY <1>1, <1>4, <2>3, <2>4, <2>6, Sizes
  <2>8. CASE z.req_len # 0
    <3>1. /\ Unheard(m) /\ ser'[m].amba = "reading" /\ ser'[m].state = "Read"
          /\ ser'[m].req_len = z.req_len - 1 /\ ser'[m].line = Z!LineO(z, RR)
          /\ ser'[m].rmux = z.rmux + 1
      BY <1>7, <2>2, <2>5, <2>8, ReadingMaster
    <3>2. Moved(m)' = Moved(m) + 1
      BY <1>4, <3>1 DEF Moved, Unheard
    <3>3. q.slv # NS => k'.r_m = m /\ k'.r_s = q.slv
      BY <1>5, <2>3, <2>4, <2>8
    <3>4. ser'[m].req_len <= q.len
      BY <1>4, <3>1
    <3>5. MasterInv(m)'
      BY <1>1, <1>2, <2>3, <2>7, <3>1, <3>2, <3>3, <3>4 DEF MasterInv, Unheard
    <3> QED BY <3>1, <3>5 DEF Unheard
  <2>9. CASE z.req_len = 0
    <3> DEFINE rsp == [data |-> Z!LineO(z, RR), err |-> RR.err]
    <3>1. /\ wait'[m] = None /\ golden'[m] = golden[m] /\ told'[m] = Judge(m, rsp)
          /\ ser'[m].amba = "idle" /\ ser'[m].state = "Idle"
      BY <1>7, <2>2, <2>9, ReadingMaster
    <3>2. MasterInv(m)'
      BY <1>2, <3>1 DEF MasterInv
    <3>3. rsp.data = Z!LineO(z, RR) /\ rsp.err = RR.err
      OBVIOUS
    <3> HIDE DEF rsp
    <3>4. ~(q.slv # NS /\ \E i \in 0 .. q.len : rsp.data[i] # golden[m][q.slv][i])
      <4> SUFFICES ASSUME q.slv # NS, NEW i \in 0 .. q.len
                   PROVE  rsp.data[i] = golden[m][q.slv][i]
        OBVIOUS
      <4>1. i \in Z!Beat /\ i < Moved(m) + 1
        BY <1>4, <2>9, Sizes
      <4> QED BY <2>3, <2>7, <3>3, <4>1
    <3>5. ~(rsp.err # (q.slv = NS))
      <4>1. RR.err \in BOOLEAN
        BY <2>2, ReadAnswer
      <4> QED BY <2>3, <2>4, <3>3, <4>1
    <3>6. Judge(m, rsp) = "good"
      BY <1>1, <3>4, <3>5 DEF Judge
    <3> QED BY <3>1, <3>2, <3>6
  <2> QED BY <2>8, <2>9
<1> QED BY <1>6, <1>7

----------------------------------------------------------------------------
(***************************************************************************)
(* The write track: the adapter at the lock of the W channel.              *)
(***************************************************************************)
LEMMA WriteFacts ==
    ASSUME TypeInv, AllMasters, NEW m \in Masters, ser[m].amba = "writing"
    PROVE  /\ ser[m] \in Z!SerdesRegisters /\ ser[m].state = "Write" /\ m # NM
           /\ wait[m] # None /\ IsAsk(wait[m], m) /\ wait[m].write /\ wait[m].slv \in Slaves
           /\ Moved(m) \in Nat /\ wait[m].len \in Nat /\ wait[m].len = Moved(m) + ser[m].req_len
           /\ ser[m].req_len \in Nat /\ wait[m].addr \in Nat /\ Moved(m) \in Z!Beat
           /\ wait[m].len < Beats /\ wait[m].addr + wait[m].len < Words
           /\ wait[m].slv \in load.slow => wait[m].len = 0
           /\ \A i \in Z!Beat : i + Moved(m) \in Z!Beat =>
                /\ ser[m].line[i] = wait[m].data[i + Moved(m)]
                /\ ser[m].wstrb[i] = wait[m].strb[i + Moved(m)]
           /\ ser[m].line[0] = wait[m].data[Moved(m)] /\ ser[m].wstrb[0] = wait[m].strb[Moved(m)]
           /\ wait[m].slv # NS => k.w_m = m /\ k.w_s = wait[m].slv
<1>1. /\ wait[m] # None /\ wait[m].write /\ ser[m].req_len <= wait[m].len /\ ser[m].state = "Write"
      /\ \A i \in Z!Beat : i + Moved(m) \in Z!Beat =>
           /\ ser[m].line[i] = wait[m].data[i + Moved(m)]
           /\ ser[m].wstrb[i] = wait[m].strb[i + Moved(m)]
      /\ wait[m].slv # NS => k.w_m = m /\ k.w_s = wait[m].slv
  BY DEF AllMasters, MasterInv
<1>2. IsAsk(wait[m], m) /\ ser[m] \in Z!SerdesRegisters
  BY <1>1, AskFacts
<1>3. ser[m].req_len \in Z!Beat /\ wait[m].len \in Z!Beat /\ wait[m].addr = m * Beats
      /\ wait[m].slv \in Slaves /\ (wait[m].slv \in load.slow => wait[m].len = 0)
  BY <1>2, SerFields DEF IsAsk, Asks
<1>4. wait[m].addr \in Nat /\ wait[m].addr + wait[m].len < Words
  BY <1>3, LinePlaces, Sizes
<1>5. /\ Moved(m) \in Nat /\ wait[m].len \in Nat /\ wait[m].len = Moved(m) + ser[m].req_len
      /\ ser[m].req_len \in Nat /\ wait[m].len < Beats /\ Moved(m) \in Z!Beat
  BY <1>1, <1>3, Sizes DEF Moved
<1>6. 0 \in Z!Beat /\ 0 + Moved(m) = Moved(m) /\ m # NM
  BY <1>5, Sizes
<1>7. ser[m].line[0] = wait[m].data[Moved(m)] /\ ser[m].wstrb[0] = wait[m].strb[Moved(m)]
  BY <1>1, <1>5, <1>6
<1> QED BY <1>1, <1>2, <1>3, <1>4, <1>5, <1>6, <1>7

\* The adapter begins with the request that is taken.
LEMMA WriteStart ==
    ASSUME TypeInv, AllMasters, WriteLock, NEW late \in Lates, Clock(late), GrantW(late),
           NEW m, NEW s, m = AwM(late), s = AwS(late)
    PROVE  /\ m \in Masters /\ wait'[m] = job[m] /\ ser'[m].amba = "writing" /\ wait'[m].slv = s
           /\ Moved(m)' = 0 /\ s \in Slaves
           /\ s # NS => /\ slv'[s].state = "w" /\ ~slv'[s].req_write /\ slv'[s].req_id = m
                        /\ slv'[s].req_incr /\ slv'[s].req_addr = job[m].addr
                        /\ slv'[s].req_len = job[m].len
<1>1. /\ m \in Masters /\ job[m] # None /\ job[m].write /\ wait[m] = None
      /\ s \in Slaves /\ s = job[m].slv /\ slv[s].state = "Idle"
      /\ Si(late, s).aw = job[m]
  BY GrantFacts DEF AllMasters
<1>2. wait'[m] = job[m] /\ ser'[m].amba = "writing" /\ ser'[m].req_len = job[m].len
  BY <1>1, IdleMaster
<1>3. IsAsk(job[m], m) /\ job[m].len \in Nat
  <2>1. IsAsk(job[m], m)
    BY <1>1, AskFacts
  <2>2. job[m].len \in Z!Beat
    BY <2>1 DEF IsAsk, Asks
  <2> QED BY <2>1, <2>2, Sizes
<1>4. slv[s] \in S!SlvRegisters
  BY <1>1 DEF TypeInv, TypeOK
<1>5. s # NS => Si(late, s).w = None
  <2>1. s # NS => s # k.w_s
    BY <1>1 DEF WriteLock, Holds
  <2> QED BY <2>1 DEF Si
<1> DEFINE x == slv[s]
           q == job[m]
           y == [x EXCEPT !.req_done = FALSE, !.req_valid = FALSE, !.req_write = FALSE,
                          !.resp_valid = FALSE, !.resp_last = FALSE, !.resp_err = FALSE]
<1>6. s # NS => slv'[s] = [S!Started(y, q) EXCEPT !.state = "w"]
  <2>1. slv'[s] = S!SlvNext(x, Si(late, s), ReadyTo(s), Resp(s, late))
    BY <1>1, ClockWires
  <2>2. slv'[s] = S!SlvIdle(x, Si(late, s))
    BY <1>1, <2>1 DEF S!SlvNext
  <2> QED BY <1>1, <1>5, <2>2 DEF S!SlvIdle
<1>7. y \in S!SlvRegisters /\ ~y.req_write
  BY <1>4, SlvFields
<1> HIDE DEF y
<1>8. s # NS => slv'[s] = [y EXCEPT !.req_addr = q.addr, !.req_len = q.len, !.req_id = q.id,
                                    !.req_incr = q.incr, !.state = "w"]
  BY <1>6 DEF S!Started
<1>9. s # NS => /\ slv'[s].state = "w" /\ ~slv'[s].req_write /\ slv'[s].req_id = q.id
                /\ slv'[s].req_incr = q.incr /\ slv'[s].req_addr = q.addr
                /\ slv'[s].req_len = q.len
  BY <1>7, <1>8, SlvFields
<1>10. Moved(m)' = 0
  BY <1>2, <1>3 DEF Moved
<1> QED BY <1>1, <1>2, <1>3, <1>9, <1>10 DEF IsAsk

AllSlaves == \A s \in Devices : SlaveInv(s)

\* The adapter of a device takes the word that its master sends.
LEMMA WriteTakes ==
    ASSUME TypeInv, AllMasters, AllSlaves, WriteLock, NEW m, NEW s,
           k.w_m = m, k.w_s = s, m # NM, s # NS,
           NEW late \in Lates, Clock(late)
    PROVE  /\ ~Sends(late, m) => slv'[s] = slv[s] /\ slv[s].state = "w"
           /\ Sends(late, m) =>
                /\ Holds(slv'[s], wait[m]) /\ slv'[s].req_len = ser[m].req_len
                /\ slv'[s].req_id = m /\ slv'[s].req_incr /\ slv'[s].req_write
           /\ slv[s].state = "burst_w" => ReadyTo(s)
<1> DEFINE x == slv[s]
           q == wait[m]
           w == Si(late, s).w
<1>1. /\ m \in Masters /\ ser[m].amba = "writing" /\ q.slv = s
      /\ WW # None /\ WW.data = ser[m].line[0] /\ WW.strb = ser[m].wstrb[0]
      /\ Sends(late, m) <=> WOk /\ BOpen(late)
  BY WriteWord
<1>2. /\ s \in Slaves /\ Moved(m) \in Nat /\ q.len \in Nat /\ q.len = Moved(m) + ser[m].req_len
      /\ ser[m].req_len \in Nat /\ q.addr \in Nat /\ q.addr + q.len < Words
      /\ s \in load.slow => q.len = 0
      /\ WW.data = q.data[Moved(m)] /\ WW.strb = q.strb[Moved(m)]
  BY <1>1, WriteFacts
<1>3. x \in S!SlvRegisters
  BY <1>2 DEF TypeInv, TypeOK
<1>4. /\ x.req_id = m /\ x.req_incr
      /\ \/ /\ x.state = "w" /\ Moved(m) = 0 /\ x.req_addr = q.addr /\ x.req_len = q.len
         \/ Holds(x, q) /\ x.req_len = ser[m].req_len + 1 /\ k.b_s = NS
  BY DEF WriteLock
<1>5. w = IF BOpen(late) THEN WW ELSE None
  BY <1>1 DEF Si
<1>6. slv'[s] = S!SlvNext(x, Si(late, s), ReadyTo(s), Resp(s, late))
  BY <1>2, ClockWires
<1> HIDE DEF w
<1>7. CASE x.state = "w"
  <2>1. WOk /\ (Sends(late, m) <=> BOpen(late))
    BY <1>1, <1>7 DEF WOk, S!SlvWReady
  <2>2. slv'[s] = S!SlvW(x, Si(late, s))
    BY <1>6, <1>7 DEF S!SlvNext
  <2>3. CASE ~BOpen(late)
    BY <1>5, <1>7, <2>1, <2>2, <2>3 DEF S!SlvW, w
  <2>4. CASE BOpen(late)
    <3> DEFINE c == S!LenNext(x) = 0
    <3>1. slv'[s] = [x EXCEPT !.req_wdata = WW.data, !.req_wstrb = WW.strb, !.req_valid = TRUE,
                              !.req_write = TRUE, !.req_last_a = c, !.state = "burst_w"]
      BY <1>1, <1>5, <2>2, <2>4 DEF S!SlvW, w
    <3> HIDE DEF c
    <3>2. /\ slv'[s].state = "burst_w" /\ slv'[s].req_valid /\ slv'[s].req_write
          /\ slv'[s].req_wdata = WW.data /\ slv'[s].req_wstrb = WW.strb
          /\ slv'[s].req_addr = x.req_addr /\ slv'[s].req_len = x.req_len
          /\ slv'[s].req_id = x.req_id /\ slv'[s].req_incr = x.req_incr
      BY <1>3, <3>1, SlvFields
    <3>3. Moved(m) = 0 /\ x.req_addr = q.addr /\ x.req_len = q.len /\ ser[m].req_len = q.len
      BY <1>2, <1>4, <1>7 DEF Holds
    <3>4. q.len - q.len = 0 /\ q.addr + 0 = q.addr
      BY <1>2
    <3>5. Holds(slv'[s], q)
      BY <1>2, <3>2, <3>3, <3>4 DEF Holds
    <3> QED BY <1>4, <1>7, <2>1, <2>4, <3>2, <3>3, <3>5
  <2> QED BY <2>3, <2>4
<1>8. CASE x.state # "w"
  <2>1. Holds(x, q) /\ x.req_len = ser[m].req_len + 1 /\ k.b_s = NS
    BY <1>4, <1>8
  <2>2. /\ x.state = "burst_w" /\ x.req_valid /\ x.req_len <= q.len
        /\ x.req_addr = q.addr + (q.len - x.req_len)
    BY <2>1 DEF Holds
  <2>3. q.len # 0 /\ ReadyTo(s)
    <3>1. q.len # 0
      BY <1>2, <2>1, <2>2
    <3> QED BY <1>2, <3>1, DeviceAnswers
  <2>4. BOpen(late) /\ WOk /\ Sends(late, m)
    BY <1>1, <2>1, <2>2, <2>3, OpenFacts DEF WOk, S!SlvWReady
  <2> DEFINE a == S!AddrNext(x)
             l == x.req_len - 1
             c == S!LenNext(x) = 0
             y == [x EXCEPT !.req_valid = TRUE, !.req_wdata = WW.data, !.req_wstrb = WW.strb]
  <2>5. slv'[s] = [y EXCEPT !.req_done = TRUE, !.req_addr = a, !.req_last_a = c, !.req_len = l]
    <3>1. slv'[s] = S!SlvBurstW(x, Si(late, s), ReadyTo(s))
      BY <1>6, <2>2 DEF S!SlvNext
    <3>2. x.req_len # 0 /\ y.req_len = x.req_len
      BY <1>2, <1>3, <2>1, SlvFields
    <3>3. slv'[s] = [y EXCEPT !.req_done = TRUE, !.req_addr = a, !.req_last_a = c,
                              !.req_len = @ - 1]
      BY <1>1, <1>5, <2>2, <2>3, <2>4, <3>1, <3>2 DEF S!SlvBurstW, w
    <3> QED BY <3>2, <3>3
  <2>6. slv'[s] = [x EXCEPT !.req_valid = TRUE, !.req_wdata = WW.data, !.req_wstrb = WW.strb,
                            !.req_done = TRUE, !.req_addr = a, !.req_last_a = c, !.req_len = l]
    BY <2>5
  <2>7. a = q.addr + Moved(m) /\ l = ser[m].req_len /\ q.len - l = Moved(m) /\ l <= q.len
    <3>1. x.req_len \in Nat /\ q.addr + (q.len - x.req_len) \in Nat /\ x.req_len > 0
          /\ (q.addr + (q.len - x.req_len)) + x.req_len < Words
      BY <1>2, <2>1, <2>2
    <3>2. a = (q.addr + (q.len - x.req_len)) + 1
      BY <1>4, <2>2, <3>1, NextWord
    <3> HIDE DEF a
    <3> QED BY <1>2, <2>1, <3>2
  <2>8. x.req_write
    BY <1>2, <2>2 DEF AllSlaves, SlaveInv, Devices
  <2> HIDE DEF a, l, c, y
  <2>9. /\ slv'[s].state = "burst_w" /\ slv'[s].req_valid
        /\ slv'[s].req_wdata = WW.data /\ slv'[s].req_wstrb = WW.strb
        /\ slv'[s].req_addr = a /\ slv'[s].req_len = l
        /\ slv'[s].req_id = x.req_id /\ slv'[s].req_incr = x.req_incr
        /\ slv'[s].req_write = x.req_write
    BY <1>3, <2>2, <2>6, SlvFields
  <2>10. Holds(slv'[s], q)
    BY <1>2, <2>7, <2>9 DEF Holds
  <2> QED BY <1>4, <2>3, <2>4, <2>7, <2>8, <2>9, <2>10
<1> QED BY <1>7, <1>8

\* The lock of the W channel is given away, given back or kept.
LEMMA WriteLockStep ==
    ASSUME TypeInv, AllMasters, AllSlaves, WriteLock, NEW late \in Lates, Clock(late)
    PROVE  WriteLock'
<1>1. CASE GrantW(late)
  <2>1. PICK m, s : m = AwM(late) /\ s = AwS(late)
    OBVIOUS
  <2>2. k'.w_m = m /\ k'.w_s = s
    BY <1>1, <2>1, LockStep
  <2>3. /\ m \in Masters /\ wait'[m] = job[m] /\ ser'[m].amba = "writing" /\ wait'[m].slv = s
        /\ Moved(m)' = 0
        /\ s # NS => /\ slv'[s].state = "w" /\ slv'[s].req_id = m /\ slv'[s].req_incr
                     /\ slv'[s].req_addr = job[m].addr /\ slv'[s].req_len = job[m].len
    BY <1>1, <2>1, WriteStart
  <2>4. m # NM
    BY <2>3, Sizes
  <2> QED BY <2>2, <2>3, <2>4 DEF WriteLock, Moved
<1>2. CASE ~GrantW(late) /\ LastSent(late)
  <2>1. k'.w_m = NM /\ k'.w_s = NS
    BY <1>2, LockStep
  <2> QED BY <2>1 DEF WriteLock
<1>3. CASE ~GrantW(late) /\ ~LastSent(late) /\ k.w_m = NM
  <2>1. k'.w_m = NM /\ k'.w_s = NS
    BY <1>3, LockStep DEF WriteLock
  <2> QED BY <2>1 DEF WriteLock
<1>4. CASE ~GrantW(late) /\ ~LastSent(late) /\ k.w_m # NM
  <2>1. PICK m, s : m = k.w_m /\ s = k.w_s
    OBVIOUS
  <2>2. k'.w_m = m /\ k'.w_s = s /\ m # NM
    BY <1>4, <2>1, LockStep
  <2>3. /\ m \in Masters /\ ser[m].amba = "writing" /\ wait[m].slv = s
        /\ LastSent(late) <=> Sends(late, m) /\ ser[m].req_len = 0
        /\ Sends(late, m) => BOpen(late)
    BY <1>4, <2>1, WriteWord
  <2>4. wait'[m] = wait[m]
    BY <2>3, WritingMaster DEF Unheard
  <2>5. CASE ~Sends(late, m)
    <3>1. ser'[m].amba = "writing" /\ ser'[m].req_len = ser[m].req_len
      BY <2>3, <2>5, WritingMaster DEF SameBeats
    <3>2. s # NS => slv'[s] = slv[s] /\ slv[s].state = "w"
      BY <2>1, <2>2, <2>5, WriteTakes
    <3>3. s # NS => /\ slv[s].req_id = m /\ slv[s].req_incr /\ Moved(m) = 0
                    /\ slv[s].req_addr = wait[m].addr /\ slv[s].req_len = wait[m].len
      BY <2>1, <2>2, <3>2 DEF WriteLock, Holds
    <3>4. Moved(m)' = Moved(m)
      BY <2>4, <3>1 DEF Moved
    <3> QED BY <2>2, <2>3, <2>4, <3>1, <3>2, <3>3, <3>4 DEF WriteLock, Moved
  <2>6. CASE Sends(late, m)
    <3>1. ser[m].req_len # 0 /\ ~LastSent(late)
      BY <1>4, <2>3, <2>6
    <3>2. ser'[m].amba = "writing" /\ ser'[m].req_len = ser[m].req_len - 1
      BY <2>3, <2>6, <3>1, WritingMaster
    <3>3. s # NS => /\ Holds(slv'[s], wait[m]) /\ slv'[s].req_len = ser[m].req_len
                    /\ slv'[s].req_id = m /\ slv'[s].req_incr
      BY <2>1, <2>2, <2>6, WriteTakes
    <3>4. k'.b_s = NS
      BY <2>3, <2>6, <3>1, OpenFacts, LockStep
    <3>5. ser[m].req_len = ser'[m].req_len + 1
      BY <2>3, <3>2, WriteFacts
    <3> QED BY <2>2, <2>3, <2>4, <3>2, <3>3, <3>4, <3>5 DEF WriteLock, Holds
  <2> QED BY <2>5, <2>6
<1> QED BY <1>1, <1>2, <1>3, <1>4

\* A master that writes has its words left in order.
LEMMA WritingStep ==
    ASSUME TypeInv, AllMasters, WriteLock, NEW late \in Lates, Clock(late),
           NEW m \in Masters, ser[m].amba = "writing"
    PROVE  MasterInv(m)' /\ told'[m] = None /\ golden'[m] = golden[m]
<1> DEFINE z == ser[m]
           q == wait[m]
<1>1. /\ z \in Z!SerdesRegisters /\ z.state = "Write" /\ q # None /\ q.write
      /\ Moved(m) \in Nat /\ q.len \in Nat /\ q.len = Moved(m) + z.req_len /\ z.req_len \in Nat
      /\ q.len < Beats
      /\ \A i \in Z!Beat : i + Moved(m) \in Z!Beat =>
           /\ z.line[i] = q.data[i + Moved(m)] /\ z.wstrb[i] = q.strb[i + Moved(m)]
      /\ q.slv # NS => k.w_m = m /\ k.w_s = q.slv
  BY WriteFacts
<1>2. Unheard(m) /\ job'[m] = None
  BY <1>1, WritingMaster, WaitingJob
<1>3. q.slv # NS => (LastSent(late) <=> Sends(late, m) /\ z.req_len = 0)
  BY <1>1, WriteWord, Sizes
<1>4. q.slv # NS /\ ~LastSent(late) => k'.w_m = m /\ k'.w_s = q.slv
  <2>1. q.slv # NS /\ ~LastSent(late) => ~GrantW(late)
    BY <1>1, OpenFacts DEF GrantW, LastSent
  <2> QED BY <1>1, <2>1, LockStep
<1>5. CASE ~Sends(late, m)
  <2>1. SameBeats(m)
    BY <1>5, WritingMaster
  <2>2. Moved(m)' = Moved(m)
    BY <1>2, <2>1 DEF Moved, Unheard, SameBeats
  <2>3. MasterInv(m)'
    BY <1>1, <1>2, <1>3, <1>4, <1>5, <2>1, <2>2 DEF MasterInv, Unheard, SameBeats
  <2> QED BY <1>2, <2>3 DEF Unheard
<1>6. CASE Sends(late, m) /\ z.req_len # 0
  <2>1. /\ ser'[m].amba = "writing" /\ ser'[m].state = "Write"
        /\ ser'[m].req_len = z.req_len - 1
        /\ ser'[m].line = Z!Shifted(z.line, 0) /\ ser'[m].wstrb = Z!Shifted(z.wstrb, FALSE)
    BY <1>6, WritingMaster
  <2>2. Moved(m)' = Moved(m) + 1
    BY <1>1, <1>2, <2>1 DEF Moved, Unheard
  <2>3. ASSUME NEW i \in Z!Beat, i + (Moved(m) + 1) \in Z!Beat
        PROVE  /\ ser'[m].line[i] = q.data[i + (Moved(m) + 1)]
               /\ ser'[m].wstrb[i] = q.strb[i + (Moved(m) + 1)]
    <3>1. i + 1 \in Z!Beat /\ (i + 1) + Moved(m) = i + (Moved(m) + 1)
      BY <1>1, <2>3, Sizes
    <3>2. ser'[m].line[i] = z.line[i + 1] /\ ser'[m].wstrb[i] = z.wstrb[i + 1]
      BY <2>1, <3>1 DEF Z!Shifted
    <3> QED BY <1>1, <2>3, <3>1, <3>2
  <2>4. ser'[m].req_len <= q.len
    BY <1>1, <2>1
  <2>5. wait'[m] = q /\ (q.slv # NS => k'.w_m = m /\ k'.w_s = q.slv)
    BY <1>2, <1>3, <1>4, <1>6 DEF Unheard
  <2>6. \A i \in Z!Beat : i + Moved(m)' \in Z!Beat =>
          /\ ser'[m].line[i] = wait'[m].data[i + Moved(m)']
          /\ ser'[m].wstrb[i] = wait'[m].strb[i + Moved(m)']
    BY <2>2, <2>3, <2>5
  <2>7. MasterInv(m)'
    <3> HIDE DEF q, z
    <3> QED BY <1>1, <1>2, <2>1, <2>4, <2>5, <2>6 DEF MasterInv
  <2> QED BY <1>2, <2>7 DEF Unheard
<1>7. CASE Sends(late, m) /\ z.req_len = 0
  <2>1. ser'[m].amba = "wack" /\ ser'[m].state = "Idle" /\ ser'[m].b_wait
    BY <1>7, WritingMaster
  <2>2. q.slv # NS => k'.b_m = m /\ k'.b_s = q.slv
    BY <1>1, <1>3, <1>7, LockStep
  <2>3. MasterInv(m)'
    BY <1>1, <1>2, <2>1, <2>2 DEF MasterInv, Unheard
  <2> QED BY <1>2, <2>3 DEF Unheard
<1> QED BY <1>5, <1>6, <1>7

----------------------------------------------------------------------------
(***************************************************************************)
(* The adapter at the lock of the B channel.                               *)
(***************************************************************************)
LEMMA RespFacts ==
    ASSUME TypeInv, AllMasters, RespLock, NEW m, NEW s, k.b_m = m, k.b_s = s, m # NM,
           NEW late \in Lates
    PROVE  /\ m \in Masters /\ s \in Slaves /\ slv[s] \in S!SlvRegisters
           /\ ser[m].amba = "wack" /\ wait[m].slv = s
           /\ wait[m] # None /\ wait[m].write /\ IsAsk(wait[m], m)
           /\ BOf(late, m) = BB(late) /\ Si(late, s).b_ready
           /\ BFire(late) <=> slv[s].state = "b" /\ Resp(s, late) # None
           /\ s # NS /\ ~BFire(late) => Si(late, s).w = None
<1>1. m \in Masters /\ s \in Slaves /\ slv[s] \in S!SlvRegisters
  <2>1. k.b_m \in 0 .. NM /\ k.b_s \in Slaves /\ slv \in [Slaves -> S!SlvRegisters]
    BY DEF TypeInv, TypeOK, Locks
  <2>2. m \in 0 .. NM /\ s \in Slaves
    BY <2>1
  <2>3. m \in Masters
    BY <2>2, Sizes DEF Masters
  <2> QED BY <2>1, <2>2, <2>3
<1>2. ser[m].amba = "wack" /\ wait[m].slv = s
  BY DEF RespLock
<1>3. wait[m] # None /\ wait[m].write
  BY <1>1, <1>2 DEF AllMasters, MasterInv
<1>4. IsAsk(wait[m], m)
  BY <1>1, <1>3, AskFacts
<1>5. BOf(late, m) = BB(late) /\ Si(late, s).b_ready
  BY DEF BOf, Si
<1>6. BFire(late) <=> slv[s].state = "b" /\ Resp(s, late) # None
  BY WriteAnswer DEF BFire
<1>7. s # NS /\ ~BFire(late) => Si(late, s).w = None
  BY OpenFacts DEF Si
<1> QED BY <1>1, <1>2, <1>3, <1>4, <1>5, <1>6, <1>7

\* The adapter writes the last word, and waits for the answer of the device.
LEMMA RespTakes ==
    ASSUME TypeInv, AllMasters, RespLock, NEW m, NEW s, k.b_m = m, k.b_s = s, m # NM, s # NS,
           NEW late \in Lates, Clock(late)
    PROVE  /\ slv[s].state \in {"burst_w", "b"}
           /\ slv[s].state = "burst_w" => ~BFire(late)
           /\ slv[s].state = "burst_w" /\ ~ReadyTo(s) => slv'[s] = slv[s]
           /\ slv[s].state = "burst_w" /\ ReadyTo(s) =>
                slv'[s].state = "b" /\ slv'[s].req_id = m /\ ~slv'[s].req_write
           /\ slv[s].state = "b" /\ ~BFire(late) => slv'[s] = slv[s]
           /\ slv[s].state = "b" /\ BFire(late) =>
                slv'[s].state = "Idle" /\ slv'[s].req_write = slv[s].req_write
<1> DEFINE x == slv[s]
<1>1. /\ m \in Masters /\ s \in Slaves /\ x \in S!SlvRegisters /\ Si(late, s).b_ready
      /\ BFire(late) <=> x.state = "b" /\ Resp(s, late) # None
      /\ ~BFire(late) => Si(late, s).w = None
  BY RespFacts
<1>2. x.req_id = m /\ ((Holds(x, wait[m]) /\ x.req_len = 0) \/ x.state = "b")
  BY DEF RespLock
<1>3. slv'[s] = S!SlvNext(x, Si(late, s), ReadyTo(s), Resp(s, late))
  BY <1>1, ClockWires
<1>4. CASE x.state = "b"
  <2>1. slv'[s] = IF BFire(late) THEN [x EXCEPT !.req_done = FALSE, !.state = "Idle"] ELSE x
    BY <1>1, <1>3, <1>4 DEF S!SlvNext, S!SlvB
  <2>2. BFire(late) => slv'[s].state = "Idle" /\ slv'[s].req_write = slv[s].req_write
    BY <1>1, <2>1, SlvFields
  <2> QED BY <1>4, <2>1, <2>2
<1>5. CASE x.state # "b"
  <2>1. /\ x.state = "burst_w" /\ x.req_valid /\ x.req_len = 0 /\ ~BFire(late)
        /\ Si(late, s).w = None
    BY <1>1, <1>2, <1>5 DEF Holds
  <2>2. slv'[s] = S!SlvBurstW(x, Si(late, s), ReadyTo(s))
    BY <1>3, <2>1 DEF S!SlvNext
  <2>3. ~ReadyTo(s) => slv'[s] = x
    BY <2>1, <2>2 DEF S!SlvBurstW
  <2>4. ASSUME ReadyTo(s)
        PROVE  slv'[s].state = "b" /\ slv'[s].req_id = m /\ ~slv'[s].req_write
    <3> DEFINE a == S!AddrNext(x)
    <3>1. slv'[s] = [x EXCEPT !.req_valid = FALSE, !.req_done = TRUE, !.req_addr = a,
                              !.req_last_a = FALSE, !.req_write = FALSE, !.state = "b"]
      BY <2>1, <2>2, <2>4 DEF S!SlvBurstW
    <3> HIDE DEF a
    <3> QED BY <1>1, <1>2, <3>1, SlvFields
  <2> QED BY <2>1, <2>3, <2>4
<1> QED BY <1>4, <1>5

\* The lock of the B channel follows the last word of the W channel.
LEMMA RespLockStep ==
    ASSUME TypeInv, AllMasters, AllSlaves, WriteLock, RespLock, NEW late \in Lates, Clock(late)
    PROVE  RespLock'
<1>1. CASE LastSent(late)
  <2>1. PICK m, s : m = k.w_m /\ s = k.w_s
    OBVIOUS
  <2>2. k'.b_m = m /\ k'.b_s = s
    BY <1>1, <2>1, LockStep
  <2>3. /\ m # NM /\ m \in Masters /\ ser[m].amba = "writing" /\ wait[m].slv = s
        /\ Sends(late, m) /\ ser[m].req_len = 0
    BY <1>1, <2>1, WriteWord
  <2>4. ser'[m].amba = "wack" /\ wait'[m] = wait[m]
    BY <2>3, WritingMaster DEF Unheard
  <2>5. s # NS => Holds(slv'[s], wait[m]) /\ slv'[s].req_len = 0 /\ slv'[s].req_id = m
    BY <2>1, <2>3, WriteTakes
  <2> QED BY <2>2, <2>3, <2>4, <2>5 DEF RespLock, Holds
<1>2. CASE ~LastSent(late) /\ BFire(late)
  <2>1. k'.b_m = NM /\ k'.b_s = NS
    BY <1>2, LockStep
  <2> QED BY <2>1 DEF RespLock
<1>3. CASE ~LastSent(late) /\ ~BFire(late) /\ k.b_m = NM
  <2>1. k'.b_m = NM /\ k'.b_s = NS
    BY <1>3, LockStep DEF RespLock
  <2> QED BY <2>1 DEF RespLock
<1>4. CASE ~LastSent(late) /\ ~BFire(late) /\ k.b_m # NM
  <2>1. PICK m, s : m = k.b_m /\ s = k.b_s
    OBVIOUS
  <2>2. k'.b_m = m /\ k'.b_s = s /\ m # NM
    BY <1>4, <2>1, LockStep
  <2>3. m \in Masters /\ ser[m].amba = "wack" /\ wait[m].slv = s /\ BOf(late, m) = None
    BY <1>4, <2>1, <2>2, RespFacts DEF BFire
  <2>4. ser'[m].amba = "wack" /\ wait'[m] = wait[m]
    BY <2>3, WaitingMaster DEF Unheard
  <2>5. s # NS => /\ slv'[s].req_id = m
                  /\ \/ Holds(slv'[s], wait[m]) /\ slv'[s].req_len = 0
                     \/ slv'[s].state = "b"
    <3> SUFFICES ASSUME s # NS
                 PROVE  /\ slv'[s].req_id = m
                        /\ \/ Holds(slv'[s], wait[m]) /\ slv'[s].req_len = 0
                           \/ slv'[s].state = "b"
      OBVIOUS
    <3>1. slv[s].req_id = m /\ ((Holds(slv[s], wait[m]) /\ slv[s].req_len = 0) \/ slv[s].state = "b")
      BY <2>1, <2>2 DEF RespLock
    <3>2. slv'[s] = slv[s] \/ (slv'[s].state = "b" /\ slv'[s].req_id = m)
      BY <1>4, <2>1, <2>2, RespTakes
    <3> QED BY <3>1, <3>2
  <2> QED BY <2>2, <2>3, <2>4, <2>5 DEF RespLock, Holds
<1> QED BY <1>1, <1>2, <1>3, <1>4

\* A master that waits is answered by the slave it wrote to.
LEMMA WaitingStep ==
    ASSUME TypeInv, AllMasters, RespLock, NEW late \in Lates, Clock(late),
           NEW m \in Masters, ser[m].amba = "wack"
    PROVE  MasterInv(m)' /\ told'[m] \in {None, "good"}
<1> DEFINE q == wait[m]
<1>1. /\ q # None /\ q.write /\ ser[m].b_wait
      /\ q.slv # NS => k.b_m = m /\ k.b_s = q.slv
  BY AskFacts DEF AllMasters, MasterInv
<1>2. job'[m] = None
  BY <1>1, WaitingJob
<1>3. CASE BOf(late, m) = None
  <2>1. Unheard(m) /\ ser'[m].amba = "wack" /\ ser'[m].state = "Idle" /\ ser'[m].b_wait
    BY <1>3, WaitingMaster
  <2>2. q.slv # NS => ~BFire(late)
    BY <1>1, <1>3 DEF BOf, BFire
  <2>3. q.slv # NS => ~LastSent(late)
    BY <1>1, <2>2, OpenFacts DEF LastSent
  <2>4. q.slv # NS => k'.b_m = m /\ k'.b_s = q.slv
    BY <1>1, <2>2, <2>3, LockStep
  <2>5. MasterInv(m)'
    BY <1>1, <1>2, <2>1, <2>4 DEF MasterInv, Unheard
  <2> QED BY <2>1, <2>5 DEF Unheard
<1>4. CASE BOf(late, m) # None
  <2> DEFINE rsp == [data |-> None, err |-> BOf(late, m).err]
  <2>1. /\ wait'[m] = None /\ told'[m] = Judge(m, rsp)
        /\ ser'[m].amba = "idle" /\ ser'[m].state = "Idle"
    BY <1>4, WaitingMaster
  <2>2. MasterInv(m)'
    BY <1>2, <2>1 DEF MasterInv
  <2>3. k.b_m = m /\ BOf(late, m) = BB(late) /\ m # NM
    BY <1>4, Sizes DEF BOf
  <2>4. k.b_s = q.slv
    BY <2>3 DEF RespLock
  <2>5. (BB(late).err <=> q.slv = NS) /\ BB(late).err \in BOOLEAN
    BY <1>4, <2>3, <2>4, WriteAnswer
  <2>6. rsp.data = None /\ rsp.err = BB(late).err
    BY <2>3
  <2> HIDE DEF rsp
  <2>7. Judge(m, rsp) = "good"
    BY <1>1, <2>5, <2>6 DEF Judge
  <2> QED BY <2>1, <2>2, <2>7
<1> QED BY <1>3, <1>4

----------------------------------------------------------------------------
(***************************************************************************)
(* All masters, and all adapters, after a clock.                           *)
(***************************************************************************)
LEMMA IdleStep ==
    ASSUME TypeInv, AllMasters, NEW late \in Lates, Clock(late), NEW m \in Masters,
           ser[m].amba = "idle"
    PROVE  MasterInv(m)' /\ told'[m] = None /\ golden'[m] = golden[m]
<1>1. wait[m] = None
  BY DEF AllMasters, MasterInv
<1>2. PICK new \in Asked[load] :
         /\ \A n \in Masters : AtRest(n) \/ new[n] = None
         /\ job' = [n \in Masters |-> IF AtRest(n) THEN new[n]
                                     ELSE IF Taken(late, n) THEN None ELSE job[n]]
  BY JobWires
<1>3. /\ Taken(late, m) <=> (GrantR(late) /\ m = ArM(late)) \/ (GrantW(late) /\ m = AwM(late))
      /\ Taken(late, m) => job[m] # None
      /\ GrantR(late) /\ m = ArM(late) => ~job[m].write
      /\ GrantW(late) /\ m = AwM(late) => job[m].write
  BY GrantFacts DEF AllMasters
<1>4. Taken(late, m) => job'[m] = None
  BY <1>2, <1>3 DEF AtRest
<1>5. job[m] # None => IsAsk(job[m], m) /\ job[m].len \in Nat /\ job[m].len < Beats
  <2> SUFFICES ASSUME job[m] # None
               PROVE  IsAsk(job[m], m) /\ job[m].len \in Nat /\ job[m].len < Beats
    OBVIOUS
  <2>1. IsAsk(job[m], m)
    BY AskFacts
  <2>2. job[m].len \in Z!Beat
    BY <2>1 DEF IsAsk, Asks
  <2> QED BY <2>1, <2>2, Sizes
<1>6. told'[m] = None /\ golden'[m] = golden[m]
  BY <1>1, IdleMaster
<1>7. CASE GrantR(late) /\ m = ArM(late)
  <2>1. /\ wait'[m] = job[m] /\ ser'[m].amba = "reading" /\ ser'[m].state = "Read"
        /\ ser'[m].rmux = 0 /\ ser'[m].req_len = job[m].len
    BY <1>1, <1>7, IdleMaster
  <2>2. Moved(m)' = 0
    BY <1>3, <1>5, <1>7, <2>1 DEF Moved
  <2>3. k'.r_m = m /\ k'.r_s = job[m].slv
    BY <1>7, LockStep, GrantFacts DEF AllMasters
  <2>4. \A i \in Z!Beat : ~(i < 0)
    BY Sizes
  <2>5. MasterInv(m)'
    BY <1>3, <1>4, <1>5, <1>7, <2>1, <2>2, <2>3, <2>4 DEF MasterInv
  <2> QED BY <1>6, <2>5
<1>8. CASE GrantW(late) /\ m = AwM(late)
  <2>1. /\ wait'[m] = job[m] /\ ser'[m].amba = "writing" /\ ser'[m].state = "Write"
        /\ ser'[m].line = job[m].data /\ ser'[m].wstrb = job[m].strb
        /\ ser'[m].req_len = job[m].len
    BY <1>1, <1>8, IdleMaster
  <2>2. Moved(m)' = 0
    BY <1>3, <1>5, <1>8, <2>1 DEF Moved
  <2>3. k'.w_m = m /\ k'.w_s = job[m].slv
    BY <1>8, LockStep, GrantFacts DEF AllMasters
  <2>4. \A i \in Z!Beat : i + 0 = i
    BY Sizes
  <2>5. MasterInv(m)'
    BY <1>3, <1>4, <1>5, <1>8, <2>1, <2>2, <2>3, <2>4 DEF MasterInv
  <2> QED BY <1>6, <2>5
<1>9. CASE ~Taken(late, m)
  <2>1. wait'[m] = None /\ ser'[m].amba = "idle" /\ ser'[m].state = "Idle"
    BY <1>1, <1>3, <1>9, IdleMaster
  <2>2. MasterInv(m)'
    BY <2>1 DEF MasterInv
  <2> QED BY <1>6, <2>2
<1> QED BY <1>3, <1>7, <1>8, <1>9

\* What is known of a master is kept, and no answer is a wrong one.
LEMMA MastersStep ==
    ASSUME TypeInv, AllMasters, ReadLock, WriteLock, RespLock, NEW late \in Lates, Clock(late),
           NEW m \in Masters
    PROVE  MasterInv(m)' /\ told'[m] \in {None, "good"}
<1>1. ser[m].amba \in AmbaStates
  BY AskFacts, SerFields
<1> QED BY <1>1, IdleStep, ReadingStep, WritingStep, WaitingStep DEF AmbaStates

\* An adapter that is idle, and what it may begin with.
LEMMA IdleSlave ==
    ASSUME TypeInv, AllMasters, AllSlaves, WriteLock, NEW late \in Lates, Clock(late),
           NEW s \in Devices, slv[s].state = "Idle"
    PROVE  /\ ~slv'[s].req_write /\ slv'[s].state \in {"Idle", "addr_r", "w"}
           /\ slv'[s].state = "addr_r" => GrantR(late) /\ s = ArS(late)
           /\ slv'[s].state = "w" => GrantW(late) /\ s = AwS(late)
<1> DEFINE x == slv[s]
           si == Si(late, s)
           y == [x EXCEPT !.req_done = FALSE, !.req_valid = FALSE, !.req_write = FALSE,
                          !.resp_valid = FALSE, !.resp_last = FALSE, !.resp_err = FALSE]
<1>1. s \in Slaves /\ s # NS /\ x \in S!SlvRegisters
  BY DEF Devices, TypeInv, TypeOK
<1>2. slv'[s] = S!SlvIdle(x, si)
  BY <1>1, ClockWires DEF S!SlvNext
<1>3. si.w = None
  <2>1. s # k.w_s
    BY <1>1 DEF WriteLock, Holds
  <2> QED BY <2>1 DEF Si
<1>4. /\ si.aw # None => GrantW(late) /\ s = AwS(late)
      /\ si.aw = None /\ si.ar # None => GrantR(late) /\ s = ArS(late)
  BY <1>1, GrantFacts DEF AllMasters
<1>5. y \in S!SlvRegisters /\ y.state = "Idle" /\ ~y.req_write
  BY <1>1, SlvFields
<1>6. slv'[s] = IF si.aw # None THEN [S!Started(y, si.aw) EXCEPT !.state = "w"]
                ELSE IF si.ar # None
                THEN [S!Started(y, si.ar) EXCEPT !.state = "addr_r", !.req_valid = TRUE,
                          !.req_last_a = si.ar.len = 0]
                ELSE y
  BY <1>2, <1>3 DEF S!SlvIdle
<1> HIDE DEF y, si
<1>7. CASE si.aw # None
  <2>1. slv'[s] = [y EXCEPT !.req_addr = si.aw.addr, !.req_len = si.aw.len, !.req_id = si.aw.id,
                            !.req_incr = si.aw.incr, !.state = "w"]
    BY <1>6, <1>7 DEF S!Started
  <2>2. slv'[s].state = "w" /\ ~slv'[s].req_write
    BY <1>5, <2>1, SlvFields
  <2> QED BY <1>4, <1>7, <2>2
<1>8. CASE si.aw = None /\ si.ar # None
  <2> DEFINE c == si.ar.len = 0
  <2>1. slv'[s] = [y EXCEPT !.req_addr = si.ar.addr, !.req_len = si.ar.len, !.req_id = si.ar.id,
                            !.req_incr = si.ar.incr, !.state = "addr_r", !.req_valid = TRUE,
                            !.req_last_a = c]
    BY <1>6, <1>8 DEF S!Started
  <2> HIDE DEF c
  <2>2. slv'[s].state = "addr_r" /\ ~slv'[s].req_write
    BY <1>5, <2>1, SlvFields
  <2> QED BY <1>4, <1>8, <2>2
<1>9. CASE si.aw = None /\ si.ar = None
  BY <1>5, <1>6, <1>9
<1> QED BY <1>7, <1>8, <1>9

\* An adapter that reads does not write.
LEMMA ReadSlave ==
    ASSUME TypeInv, NEW late \in Lates, Clock(late), NEW s \in Devices,
           slv[s].state \in {"addr_r", "data_r", "out_r"}
    PROVE  /\ slv'[s].req_write = slv[s].req_write
           /\ slv'[s].state \in {"Idle", "addr_r", "data_r", "out_r"}
           /\ slv[s].state = "out_r" /\ Si(late, s).r_ready => slv'[s].state = "Idle"
<1> DEFINE x == slv[s]
           si == Si(late, s)
           p == Resp(s, late)
<1>1. s \in Slaves /\ x \in S!SlvRegisters
  BY DEF Devices, TypeInv, TypeOK
<1>2. slv'[s] = S!SlvNext(x, si, ReadyTo(s), p)
  BY <1>1, ClockWires
<1> HIDE DEF si, p
<1>3. ASSUME NEW y \in S!SlvRegisters, NEW more
      PROVE  /\ S!Advanced(x, y, more).req_write = y.req_write
             /\ S!Advanced(x, y, more).state = y.state
             /\ S!Advanced(x, x, more).req_write = x.req_write
             /\ [S!Advanced(x, x, more) EXCEPT !.state = "data_r"].req_write = x.req_write
             /\ [S!Advanced(x, x, more) EXCEPT !.state = "data_r"].state = "data_r"
  BY <1>1, <1>3, SlvFields DEF S!Advanced
<1>4. CASE x.state = "addr_r"
  <2>1. slv'[s] = IF ReadyTo(s)
                  THEN [S!Advanced(x, x, x.req_len # 0) EXCEPT !.state = "data_r"] ELSE x
    BY <1>2, <1>4 DEF S!SlvNext, S!SlvAddrR
  <2> QED BY <1>1, <1>3, <1>4, <2>1
<1>5. CASE x.state = "data_r"
  <2> DEFINE t == IF x.req_last_r THEN "out_r" ELSE x.state
             y1 == [x EXCEPT !.req_done = FALSE, !.resp_valid = TRUE,
                             !.resp_last = x.req_last_r, !.resp_rdata = p.data,
                             !.resp_err = p.err, !.state = t]
             y2 == [x EXCEPT !.resp_valid = FALSE]
             y == IF p # None /\ x.req_done THEN y1 ELSE IF si.r_ready THEN y2 ELSE x
             more == ~x.req_last_a /\ si.r_ready
             e == ~x.req_last_r /\ si.r_ready
  <2>1. slv'[s] = IF x.req_valid /\ ReadyTo(s) THEN S!Advanced(x, y, more)
                  ELSE [y EXCEPT !.req_valid = e]
    BY <1>2, <1>5 DEF S!SlvNext, S!SlvDataR
  <2>2. t \in {"data_r", "out_r"}
    BY <1>5
  <2> HIDE DEF t
  <2>3. y1.req_write = x.req_write /\ y1.state = t
    BY <1>1, SlvFields
  <2>4. y2.req_write = x.req_write /\ y2.state = x.state
    BY <1>1, SlvFields
  <2>7. p # None => y1 \in S!SlvRegisters
    <3>1. p # None => p.data \in Values /\ p.err \in BOOLEAN
      BY <1>1, DeviceAnswers DEF p
    <3>2. t \in S!SlvStates /\ x.req_last_r \in BOOLEAN
      BY <1>1, <2>2, SlvFields DEF S!SlvStates
    <3> QED BY <1>1, <3>1, <3>2, SlvFields, ZenonT(60)
  <2>8. y2 \in S!SlvRegisters
    BY <1>1, SlvFields, ZenonT(60)
  <2> HIDE DEF y1, y2
  <2>9. y \in S!SlvRegisters
    BY <1>1, <2>7, <2>8
  <2>5. y.req_write = x.req_write /\ y.state \in {"data_r", "out_r"}
    BY <1>5, <2>2, <2>3, <2>4
  <2>6. /\ S!Advanced(x, y, more).req_write = y.req_write
        /\ S!Advanced(x, y, more).state = y.state
    BY <1>3, <2>9
  <2> HIDE DEF y, more, e
  <2>10. [y EXCEPT !.req_valid = e].req_write = y.req_write
         /\ [y EXCEPT !.req_valid = e].state = y.state
    BY <2>9, SlvFields
  <2> QED BY <1>5, <2>1, <2>5, <2>6, <2>10
<1>6. CASE x.state = "out_r"
  <2>1. slv'[s] = IF si.r_ready
                  THEN [x EXCEPT !.req_last_a = FALSE, !.req_last_r = FALSE, !.resp_last = FALSE,
                                 !.resp_valid = FALSE, !.state = "Idle"]
                  ELSE x
    BY <1>2, <1>6 DEF S!SlvNext, S!SlvOutR
  <2> QED BY <1>1, <1>6, <2>1, SlvFields DEF si
<1> QED BY <1>4, <1>5, <1>6

\* What is known of an adapter is kept.
LEMMA SlavesStep ==
    ASSUME TypeInv, AllMasters, AllSlaves, ReadLock, WriteLock, RespLock,
           NEW late \in Lates, Clock(late), NEW s \in Devices
    PROVE  SlaveInv(s)'
<1>1. s \in Slaves /\ s # NS /\ slv[s].state \in S!SlvStates /\ SlaveInv(s)
  <2>1. s \in Slaves /\ slv[s] \in S!SlvRegisters
    BY DEF Devices, TypeInv, TypeOK
  <2> QED BY <2>1, SlvFields DEF AllSlaves, Devices
<1>2. CASE slv[s].state = "Idle"
  <2>1. /\ ~slv'[s].req_write /\ slv'[s].state \in {"Idle", "addr_r", "w"}
        /\ slv'[s].state = "addr_r" => GrantR(late) /\ s = ArS(late)
        /\ slv'[s].state = "w" => GrantW(late) /\ s = AwS(late)
    BY <1>2, IdleSlave
  <2> QED BY <2>1, LockStep DEF SlaveInv
<1>3. CASE slv[s].state \in {"addr_r", "data_r", "out_r"}
  <2>1. k.r_s = s /\ ~slv[s].req_write
    BY <1>1, <1>3 DEF SlaveInv
  <2>2. k.r_m # NM
    BY <2>1, ReadAtNS
  <2>3. Si(late, s).r_ready /\ (RFire <=> slv[s].state = "out_r")
    BY <2>1, <2>2, ReadFacts
  <2>4. /\ ~slv'[s].req_write /\ slv'[s].state \in {"Idle", "addr_r", "data_r", "out_r"}
        /\ RFire => slv'[s].state = "Idle"
    <3>1. /\ slv'[s].req_write = slv[s].req_write
          /\ slv'[s].state \in {"Idle", "addr_r", "data_r", "out_r"}
          /\ slv[s].state = "out_r" /\ Si(late, s).r_ready => slv'[s].state = "Idle"
      BY <1>3, ReadSlave
    <3> QED BY <2>1, <2>3, <3>1
  <2>5. ~RFire => k'.r_s = s
    <3>1. ~RFire => ~GrantR(late)
      BY <1>1, <2>1, OpenFacts DEF GrantR
    <3> QED BY <2>1, <3>1, LockStep
  <2> QED BY <2>4, <2>5 DEF SlaveInv
<1>4. CASE k.w_s = s
  <2>1. k.w_m # NM
    BY <1>1, <1>4 DEF WriteLock
  <2>2. /\ ~Sends(late, k.w_m) => slv'[s] = slv[s] /\ slv[s].state = "w"
        /\ Sends(late, k.w_m) => slv'[s].state = "burst_w" /\ slv'[s].req_write
    BY <1>1, <1>4, <2>1, WriteTakes DEF Holds
  <2>3. LastSent(late) => Sends(late, k.w_m)
    BY <2>1, WriteWord
  <2>4. ~LastSent(late) => k'.w_s = s
    <3>1. ~LastSent(late) => ~GrantW(late)
      BY <1>1, <1>4, OpenFacts DEF GrantW, LastSent
    <3> QED BY <1>4, <3>1, LockStep
  <2>5. LastSent(late) => k'.b_s = s
    BY <1>4, LockStep
  <2>6. slv[s].state = "w" => ~slv[s].req_write
    BY <1>1 DEF SlaveInv
  <2>7. CASE Sends(late, k.w_m)
    BY <2>2, <2>4, <2>5, <2>7 DEF SlaveInv
  <2>8. CASE ~Sends(late, k.w_m)
    BY <2>2, <2>3, <2>4, <2>6, <2>8 DEF SlaveInv
  <2> QED BY <2>7, <2>8
<1>5. CASE k.b_s = s /\ k.w_s # s
  <2>1. k.b_m # NM
    BY <1>1, <1>5 DEF RespLock
  <2>2. /\ slv[s].state \in {"burst_w", "b"}
        /\ slv[s].state = "burst_w" => ~BFire(late)
        /\ slv[s].state = "burst_w" /\ ~ReadyTo(s) => slv'[s] = slv[s]
        /\ slv[s].state = "burst_w" /\ ReadyTo(s) => slv'[s].state = "b" /\ ~slv'[s].req_write
        /\ slv[s].state = "b" /\ ~BFire(late) => slv'[s] = slv[s]
        /\ slv[s].state = "b" /\ BFire(late) =>
             slv'[s].state = "Idle" /\ slv'[s].req_write = slv[s].req_write
    BY <1>1, <1>5, <2>1, RespTakes
  <2>3. slv[s].req_write <=> slv[s].state = "burst_w"
    BY <1>1 DEF SlaveInv
  <2>4. ~BFire(late) => k'.b_s = s
    <3>1. ~BFire(late) => ~LastSent(late)
      BY <1>1, <1>5, OpenFacts DEF LastSent
    <3> QED BY <1>5, <3>1, LockStep
  <2>5. CASE slv'[s] = slv[s] /\ ~BFire(late)
    BY <2>2, <2>3, <2>4, <2>5 DEF SlaveInv
  <2>6. CASE slv'[s].state = "b" /\ ~slv'[s].req_write /\ ~BFire(late)
    BY <2>4, <2>6 DEF SlaveInv
  <2>7. CASE slv'[s].state = "Idle" /\ ~slv'[s].req_write
    BY <2>7 DEF SlaveInv
  <2> QED BY <2>2, <2>3, <2>5, <2>6, <2>7
<1>6. slv[s].state \in {"w", "burst_w", "b"} => k.w_s = s \/ k.b_s = s
  BY <1>1 DEF SlaveInv
<1> QED BY <1>1, <1>2, <1>3, <1>4, <1>5, <1>6 DEF S!SlvStates

----------------------------------------------------------------------------
(***************************************************************************)
(* The contents of the devices.                                            *)
(***************************************************************************)
LEMMA WordWritten ==
    ASSUME TypeInv, NEW late \in Lates, Clock(late), NEW s \in Devices, NEW m \in Masters,
           NEW q, IsAsk(q, m), Holds(slv[s], q), slv[s].req_write, ReadyTo(s),
           NEW j \in Z!Beat, j = q.len - slv[s].req_len, NEW n \in Masters, NEW i \in Z!Beat
    PROVE  mem'[s][n * Beats + i] = IF n = m /\ i = j /\ q.strb[j] THEN q.data[j]
                                    ELSE mem[s][n * Beats + i]
<1>1. mem[s] \in [0 .. Words - 1 -> Values]
  BY DEF TypeInv, TypeOK
<1>2. /\ slv[s].req_addr = m * Beats + j /\ slv[s].req_wdata = q.data[j] /\ slv[s].req_valid
      /\ slv[s].req_wstrb = q.strb[j]
  BY DEF Holds, IsAsk
<1>3. mem'[s] = IF q.strb[j] THEN [mem[s] EXCEPT ![m * Beats + j] = q.data[j]] ELSE mem[s]
  <2>1. mem'[s] = MemNext(s)
    BY ClockWires
  <2>2. s \in load.slow => Ready(s)
    BY Sizes DEF ReadyTo, Devices
  <2> QED BY <1>2, <2>1, <2>2 DEF MemNext
<1>4. n * Beats + i \in 0 .. Words - 1 /\ m * Beats + j \in 0 .. Words - 1
  BY LinePlaces
<1>5. n * Beats + i = m * Beats + j <=> n = m /\ i = j
  BY LinesApart
<1> DEFINE a == n * Beats + i
           b == m * Beats + j
<1> HIDE DEF a, b
<1>6. mem'[s][a] = IF a = b /\ q.strb[j] THEN q.data[j] ELSE mem[s][a]
  BY <1>1, <1>3, <1>4 DEF a, b
<1> QED BY <1>5, <1>6 DEF a, b

\* A device keeps its words when nothing is written, or when it takes no request.
LEMMA NotWritten ==
    ASSUME NEW late \in Lates, Clock(late), NEW s \in Devices, ~slv[s].req_write \/ ~ReadyTo(s)
    PROVE  mem'[s] = mem[s]
<1>1. mem'[s] = MemNext(s)
  BY ClockWires
<1>2. ~ReadyTo(s) => s \in load.slow /\ ~Ready(s)
  BY DEF ReadyTo, Ready
<1> QED BY <1>1, <1>2 DEF MemNext

\* A device is written by the master at a lock, a word of its own line.
LEMMA OthersKept ==
    ASSUME TypeInv, AllMasters, AllSlaves, WriteLock, RespLock, NEW late \in Lates, Clock(late),
           NEW s \in Devices, NEW n \in Masters, NEW i \in Z!Beat,
           ~(wait[n] # None /\ wait[n].write /\ wait[n].slv = s)
    PROVE  mem'[s][n * Beats + i] = mem[s][n * Beats + i]
<1>1. CASE ~slv[s].req_write \/ ~ReadyTo(s)
  BY <1>1, NotWritten
<1>2. CASE slv[s].req_write /\ ReadyTo(s)
  <2>1. slv[s].state = "burst_w" /\ (k.w_s = s \/ k.b_s = s) /\ s # NS
    BY <1>2 DEF AllSlaves, SlaveInv, Devices
  <2>2. PICK m \in Masters : /\ wait[m] # None /\ wait[m].write /\ wait[m].slv = s
                             /\ IsAsk(wait[m], m) /\ Holds(slv[s], wait[m])
    <3>1. CASE k.w_s = s
      <4>1. k.w_m # NM
        BY <2>1, <3>1 DEF WriteLock
      <4>2. k.w_m \in Masters /\ wait[k.w_m] # None /\ wait[k.w_m].write /\ wait[k.w_m].slv = s
        BY <3>1, <4>1, WriteWord
      <4>3. Holds(slv[s], wait[k.w_m])
        BY <2>1, <3>1, <4>1 DEF WriteLock
      <4> QED BY <4>2, <4>3, AskFacts
    <3>2. CASE k.b_s = s
      <4>1. k.b_m # NM
        BY <2>1, <3>2 DEF RespLock
      <4>2. /\ k.b_m \in Masters /\ wait[k.b_m] # None /\ wait[k.b_m].write /\ wait[k.b_m].slv = s
            /\ IsAsk(wait[k.b_m], k.b_m)
        BY <3>2, <4>1, RespFacts
      <4>3. Holds(slv[s], wait[k.b_m])
        BY <2>1, <3>2, <4>1 DEF RespLock
      <4> QED BY <4>2, <4>3
    <3> QED BY <2>1, <3>1, <3>2
  <2>3. wait[m].len - slv[s].req_len \in Z!Beat
    <3>1. slv[s].req_len \in Lens /\ wait[m].len \in Z!Beat /\ slv[s].req_len <= wait[m].len
      BY <2>2, SlvFields DEF TypeInv, TypeOK, Devices, Holds, IsAsk, Asks
    <3> QED BY <3>1, Sizes DEF Lens
  <2>4. n # m
    BY <2>2
  <2> QED BY <1>2, <2>2, <2>3, <2>4, WordWritten
<1> QED BY <1>1, <1>2

\* word i of the line of m in device s is as MemInv says
MemAt(m, s, i) ==
    mem[s][m * Beats + i] =
        IF Stored(m, s, i) THEN Written(wait[m], golden[m][s])[i] ELSE golden[m][s][i]

\* The line of a master that does not write to the device.
LEMMA MemOther ==
    ASSUME TypeInv, AllMasters, AllSlaves, ReadLock, WriteLock, RespLock,
           NEW late \in Lates, Clock(late),
           NEW m \in Masters, NEW s \in Devices, NEW i \in Z!Beat, MemAt(m, s, i),
           ~(wait[m] # None /\ wait[m].write /\ wait[m].slv = s)
    PROVE  MemAt(m, s, i)'
<1>1. mem'[s][m * Beats + i] = mem[s][m * Beats + i]
  BY OthersKept
<1>2. ~Stored(m, s, i)
  BY DEF Stored
<1>3. golden'[m][s] = golden[m][s]
  <2>1. ser[m].amba \in AmbaStates
    BY AskFacts, SerFields
  <2>2. CASE ser[m].amba = "wack"
    <3>1. wait[m] # None /\ wait[m].write /\ wait[m].slv # s
      BY <2>2 DEF AllMasters, MasterInv
    <3>2. \/ golden'[m] = golden[m]
          \/ golden'[m] = [golden[m] EXCEPT ![wait[m].slv] = Written(wait[m], @)]
      BY <2>2, WaitingMaster DEF Unheard
    <3>3. golden[m] \in [Devices -> Z!Lines]
      BY DEF TypeInv, TypeOK
    <3> QED BY <3>1, <3>2, <3>3
  <2> QED BY <2>1, <2>2, IdleStep, ReadingStep, WritingStep DEF AmbaStates
<1>4. ~Stored(m, s, i)'
  <2>1. CASE wait[m] # None
    <3>1. wait'[m] \in {None, wait[m]}
      BY <2>1, MasterWires, BusyMaster
    <3> QED BY <2>1, <3>1 DEF Stored
  <2>2. CASE wait[m] = None /\ GrantR(late) /\ m = ArM(late)
    <3>1. wait'[m] = job[m] /\ ~job[m].write
      BY <2>2, IdleMaster, GrantFacts DEF AllMasters
    <3> QED BY <3>1 DEF Stored
  <2>3. CASE wait[m] = None /\ GrantW(late) /\ m = AwM(late)
    <3>1. wait'[m].slv = s => slv'[s].state = "w"
      BY <2>3, WriteStart, Sizes
    <3> QED BY <3>1 DEF Stored
  <2>4. CASE /\ wait[m] = None /\ ~(GrantR(late) /\ m = ArM(late))
             /\ ~(GrantW(late) /\ m = AwM(late))
    <3>1. wait'[m] = None
      BY <2>4, IdleMaster
    <3> QED BY <3>1 DEF Stored
  <2> QED BY <2>1, <2>2, <2>3, <2>4
<1> QED BY <1>1, <1>2, <1>3, <1>4 DEF MemAt

\* The line of a master that sends words to the device.
LEMMA MemWriting ==
    ASSUME TypeInv, AllMasters, AllSlaves, WriteLock, NEW late \in Lates, Clock(late),
           NEW m \in Masters, NEW s \in Devices, NEW i \in Z!Beat, MemAt(m, s, i),
           ser[m].amba = "writing", wait[m].slv = s
    PROVE  MemAt(m, s, i)'
<1> DEFINE q == wait[m]
<1>1. /\ s # NS /\ k.w_m = m /\ k.w_s = s /\ m # NM /\ q # None /\ q.write
      /\ IsAsk(q, m) /\ Moved(m) \in Z!Beat /\ q.len \in Nat /\ q.len < Beats
      /\ q.len = Moved(m) + ser[m].req_len /\ ser[m].req_len \in Nat /\ Moved(m) \in Nat
  BY WriteFacts DEF Devices
<1>2. wait'[m] = q /\ golden'[m] = golden[m]
  BY WritingMaster DEF Unheard
<1>3. /\ ~Sends(late, m) => slv'[s] = slv[s] /\ slv[s].state = "w"
      /\ Sends(late, m) => Holds(slv'[s], q) /\ slv'[s].req_len = ser[m].req_len
      /\ slv[s].state = "burst_w" => ReadyTo(s)
  BY <1>1, WriteTakes
<1>4. \/ slv[s].state = "w"
      \/ Holds(slv[s], q) /\ slv[s].req_len = ser[m].req_len + 1
  BY <1>1 DEF WriteLock
<1>5. slv[s].req_write <=> slv[s].state = "burst_w"
  BY DEF AllSlaves, SlaveInv
<1>6. CASE slv[s].state = "w"
  <2>1. mem'[s] = mem[s]
    BY <1>5, <1>6, NotWritten
  <2>2. ~Stored(m, s, i)
    BY <1>6 DEF Stored
  <2>3. ~Stored(m, s, i)'
    <3>1. CASE ~Sends(late, m)
      BY <1>3, <1>6, <3>1 DEF Stored
    <3>2. CASE Sends(late, m)
      <4>1. slv'[s].state = "burst_w" /\ slv'[s].req_len = ser[m].req_len /\ Moved(m) = 0
        BY <1>1, <1>3, <1>6, <3>2 DEF Holds, WriteLock
      <4>2. q.len - slv'[s].req_len = 0
        BY <1>1, <4>1
      <4>3. ~(i < 0)
        BY Sizes
      <4> QED BY <1>2, <4>1, <4>2, <4>3 DEF Stored
    <3> QED BY <3>1, <3>2
  <2> QED BY <1>2, <2>1, <2>2, <2>3 DEF MemAt
<1>7. CASE Holds(slv[s], q) /\ slv[s].req_len = ser[m].req_len + 1
  <2> DEFINE j == q.len - slv[s].req_len
  <2>1. slv[s].state = "burst_w" /\ slv[s].req_write /\ ReadyTo(s) /\ Sends(late, m)
    BY <1>3, <1>5, <1>7 DEF Holds
  <2>2. j \in Z!Beat /\ j + 1 = Moved(m) /\ j \in Nat
    <3> DEFINE r == ser[m].req_len
               o == Moved(m)
    <3>1. slv[s].req_len <= q.len
      BY <1>7 DEF Holds
    <3>2. j = o + r - (r + 1) /\ r \in Nat /\ o \in Nat /\ r + 1 <= o + r /\ o + r < Beats
      BY <1>1, <1>7, <3>1
    <3> HIDE DEF r, o, j
    <3>3. j \in Nat /\ j + 1 = o /\ j < Beats
      BY <3>2, Sizes
    <3>4. j \in 0 .. Beats - 1
      BY <3>3, Sizes
    <3> QED BY <3>3, <3>4, Sizes DEF o
  <2>3. mem'[s][m * Beats + i] = IF i = j /\ q.strb[j] THEN q.data[j] ELSE mem[s][m * Beats + i]
    <3> HIDE DEF q
    <3> QED BY <1>1, <1>7, <2>1, <2>2, WordWritten
  <2>4. slv'[s].state = "burst_w" /\ q.len - slv'[s].req_len = Moved(m)
    BY <1>1, <1>3, <2>1 DEF Holds
  <2>5. Stored(m, s, i) <=> i < j
    BY <1>1, <2>1 DEF Stored
  <2>6. Stored(m, s, i)' <=> i < Moved(m)
    BY <1>1, <1>2, <2>4 DEF Stored
  <2>7. i < Moved(m) <=> i < j \/ i = j
    BY <2>2, Sizes
  <2>8. Written(q, golden[m][s])[i] = IF i <= q.len /\ q.strb[i] THEN q.data[i] ELSE golden[m][s][i]
    BY DEF Written
  <2>9. i = j => i <= q.len /\ ~(i < j)
    BY <1>1, <2>2
  <2> HIDE DEF q, j
  <2> QED BY <1>2, <2>3, <2>5, <2>6, <2>7, <2>8, <2>9 DEF MemAt, q
<1> QED BY <1>4, <1>6, <1>7

\* The line of a master that waits for the answer to its write.
LEMMA MemWaiting ==
    ASSUME TypeInv, AllMasters, AllSlaves, RespLock, NEW late \in Lates, Clock(late),
           NEW m \in Masters, NEW s \in Devices, NEW i \in Z!Beat, MemAt(m, s, i),
           ser[m].amba = "wack", wait[m].slv = s
    PROVE  MemAt(m, s, i)'
<1> DEFINE q == wait[m]
<1>1. s # NS /\ k.b_m = m /\ k.b_s = s /\ m # NM
  BY Sizes DEF AllMasters, MasterInv, Devices
<1>2. /\ q # None /\ q.write /\ IsAsk(q, m) /\ BOf(late, m) = BB(late)
      /\ BFire(late) <=> slv[s].state = "b" /\ Resp(s, late) # None
  BY <1>1, RespFacts
<1>3. /\ slv[s].state = "burst_w" => ~BFire(late)
      /\ slv[s].state = "burst_w" /\ ~ReadyTo(s) => slv'[s] = slv[s]
      /\ slv[s].state = "burst_w" /\ ReadyTo(s) => slv'[s].state = "b"
      /\ slv[s].state = "b" /\ ~BFire(late) => slv'[s] = slv[s]
  BY <1>1, RespTakes
<1>4. (Holds(slv[s], q) /\ slv[s].req_len = 0) \/ slv[s].state = "b"
  BY <1>1 DEF RespLock
<1>5. slv[s].req_write <=> slv[s].state = "burst_w"
  BY DEF AllSlaves, SlaveInv
<1>6. ~BFire(late) => wait'[m] = q /\ golden'[m] = golden[m]
  BY <1>2, WaitingMaster DEF BFire, Unheard
<1>7. q.len \in Z!Beat
  BY <1>2 DEF IsAsk, Asks
<1>8. CASE slv[s].state = "b"
  <2>1. mem'[s] = mem[s] /\ Stored(m, s, i)
    BY <1>2, <1>5, <1>8, NotWritten DEF Stored
  <2>2. CASE ~BFire(late)
    BY <1>3, <1>6, <1>8, <2>1, <2>2 DEF MemAt, Stored
  <2>3. CASE BFire(late)
    <3>1. /\ wait'[m] = None
          /\ golden'[m] = [golden[m] EXCEPT ![s] = Written(q, golden[m][s])]
      <4>1. BOf(late, m) # None /\ q.slv # NS /\ q.slv = s
        BY <1>1, <1>2, <2>3 DEF BFire
      <4>2. /\ wait'[m] = None
            /\ golden'[m] = [golden[m] EXCEPT ![q.slv] = Written(q, @)]
        BY <4>1, WaitingMaster
      <4> QED BY <4>1, <4>2
    <3>2. golden[m] \in [Devices -> Z!Lines]
      BY DEF TypeInv, TypeOK
    <3>3. golden'[m][s] = Written(q, golden[m][s]) /\ ~Stored(m, s, i)'
      BY <3>1, <3>2 DEF Stored
    <3> QED BY <2>1, <3>3 DEF MemAt
  <2> QED BY <2>2, <2>3
<1>9. CASE Holds(slv[s], q) /\ slv[s].req_len = 0
  <2>1. slv[s].state = "burst_w" /\ slv[s].req_write /\ wait'[m] = q /\ golden'[m] = golden[m]
    BY <1>3, <1>5, <1>6, <1>9 DEF Holds
  <2>2. q.len - slv[s].req_len = q.len
    BY <1>7, <1>9, Sizes
  <2>3. Stored(m, s, i) <=> i < q.len
    BY <1>2, <2>1, <2>2 DEF Stored
  <2>4. CASE ~ReadyTo(s)
    <3>1. mem'[s] = mem[s] /\ slv'[s] = slv[s]
      BY <1>3, <2>1, <2>4, NotWritten
    <3> QED BY <2>1, <3>1 DEF MemAt, Stored
  <2>5. CASE ReadyTo(s)
    <3>1. Stored(m, s, i)'
      BY <1>2, <1>3, <2>1, <2>5 DEF Stored
    <3>2. mem'[s][m * Beats + i] =
            IF i = q.len /\ q.strb[q.len] THEN q.data[q.len] ELSE mem[s][m * Beats + i]
      <4> HIDE DEF q
      <4> QED BY <1>2, <1>7, <1>9, <2>1, <2>2, <2>5, WordWritten
    <3>3. Written(q, golden[m][s])[i] =
            IF i <= q.len /\ q.strb[i] THEN q.data[i] ELSE golden[m][s][i]
      BY DEF Written
    <3>4. q.strb[i] => i <= q.len
      BY <1>2 DEF IsAsk
    <3>5. i < q.len => i # q.len /\ i <= q.len
      BY <1>7, Sizes
    <3>6. i <= q.len => i < q.len \/ i = q.len
      BY <1>7, Sizes
    <3> HIDE DEF q
    <3> QED BY <2>1, <2>3, <3>1, <3>2, <3>3, <3>4, <3>5, <3>6 DEF MemAt, q
  <2> QED BY <2>4, <2>5
<1> QED BY <1>4, <1>8, <1>9

\* A line holds the words of the write up to the beat that is on its way.
LEMMA MemStep ==
    ASSUME TypeInv, AllMasters, AllSlaves, ReadLock, WriteLock, RespLock, MemInv,
           NEW late \in Lates, Clock(late)
    PROVE  MemInv'
<1>1. ASSUME NEW m \in Masters, NEW s \in Devices, NEW i \in Z!Beat
      PROVE  MemAt(m, s, i)'
  <2>1. MemAt(m, s, i)
    BY DEF MemInv, MemAt
  <2>2. ser[m].amba \in AmbaStates
    BY AskFacts, SerFields
  <2>3. CASE wait[m] # None /\ wait[m].write /\ wait[m].slv = s
    <3>1. ser[m].amba = "writing" \/ ser[m].amba = "wack"
      BY <2>2, <2>3 DEF AllMasters, MasterInv, AmbaStates
    <3> QED BY <2>1, <2>3, <3>1, MemWriting, MemWaiting
  <2> QED BY <2>1, <2>3, MemOther
<1> QED BY <1>1 DEF MemInv, MemAt

----------------------------------------------------------------------------
(***************************************************************************)
(* The types, and the invariant.                                           *)
(***************************************************************************)
LEMMA TypeStep ==
    ASSUME TypeInv, AllMasters, ReadLock, WriteLock, RespLock, NEW late \in Lates, Clock(late)
    PROVE  TypeInv'
<1>1. load' = load /\ clk' = ~clk
  BY ClockWires
<1>2. k' \in Locks
  BY LockStep
<1>3. slv' \in [Slaves -> S!SlvRegisters] /\ ser' \in [Masters -> Z!SerdesRegisters]
  BY SlvTypeStep, SerTypeStep
<1>4. ASSUME NEW m \in Masters PROVE {job'[m], wait'[m]} \subseteq Requests[load][m]
  <2>1. {job[m], wait[m], None} \subseteq Requests[load][m]
    BY DEF TypeInv, TypeOK, Requests
  <2>2. PICK new \in Asked[load] :
          job' = [n \in Masters |-> IF AtRest(n) THEN new[n]
                                   ELSE IF Taken(late, n) THEN None ELSE job[n]]
    BY JobWires
  <2>3. new[m] \in Requests[load][m]
    BY <2>2 DEF Asked, TypeInv
  <2>4. job'[m] \in Requests[load][m]
    BY <2>1, <2>2, <2>3
  <2>5. wait'[m] \in Requests[load][m]
    BY <2>1, MasterWires
  <2> QED BY <2>4, <2>5
<1>5. ASSUME NEW s \in Devices
      PROVE  /\ mem'[s] \in [0 .. Words - 1 -> Values]
             /\ rd'[s] \in 0 .. Words - 1 \/ (s \in load'.slow /\ rd'[s] = None)
  <2>1. /\ mem[s] \in [0 .. Words - 1 -> Values]
        /\ rd[s] \in 0 .. Words - 1 \/ (s \in load.slow /\ rd[s] = None)
        /\ slv[s] \in S!SlvRegisters
    BY DEF TypeInv, TypeOK, Devices
  <2>2. slv[s].req_addr \in 0 .. Words - 1 /\ slv[s].req_wdata \in Values
    BY <2>1, SlvFields DEF Page
  <2>3. mem'[s] = MemNext(s) /\ rd'[s] = RdNext(s, late)
    BY ClockWires
  <2>4. MemNext(s) \in [0 .. Words - 1 -> Values]
    BY <2>1, <2>2 DEF MemNext
  <2>5. s \in late => s \in load.slow
    BY DEF Lates
  <2> QED BY <1>1, <2>1, <2>2, <2>3, <2>4, <2>5 DEF RdNext
<1>6. /\ mem' \in [Devices -> [0 .. Words - 1 -> Values]]
      /\ \A s \in Devices : rd'[s] \in 0 .. Words - 1 \/ (s \in load'.slow /\ rd'[s] = None)
  <2>1. mem' = [s \in Devices |-> mem'[s]]
    BY ClockWires
  <2> QED BY <1>5, <2>1
<1>7. ASSUME NEW m \in Masters PROVE golden'[m] \in [Devices -> Z!Lines]
  <2>1. golden[m] \in [Devices -> Z!Lines]
    BY DEF TypeInv, TypeOK
  <2>2. CASE wait[m] = None
    BY <2>1, <2>2, MasterWires
  <2>3. CASE wait[m] # None
    <3> DEFINE q == wait[m]
    <3>1. q.data \in Z!Lines
      BY <2>3, AskFacts DEF IsAsk, Asks
    <3>2. ASSUME NEW line \in Z!Lines PROVE Written(q, line) \in Z!Lines
      BY <3>1, <3>2 DEF Written, Z!Lines
    <3>3. /\ DOMAIN golden[m] = Devices
          /\ golden'[m] \in {golden[m], [golden[m] EXCEPT ![q.slv] = Written(q, @)]}
      BY <2>1, MasterWires
    <3>4. q.slv \in Devices => golden[m][q.slv] \in Z!Lines
      BY <2>1
    <3> HIDE DEF q
    <3> QED BY <2>1, <3>2, <3>3, <3>4
  <2> QED BY <2>2, <2>3
<1>8. golden' \in [Masters -> [Devices -> Z!Lines]]
  <2>1. golden' = [m \in Masters |-> golden'[m]]
    BY DEF Clock
  <2> QED BY <1>7, <2>1
<1>9. told' \in [Masters -> {None, "unasked", "misled", "stale", "good"}]
  <2>1. told' = [m \in Masters |-> told'[m]]
    BY DEF Clock
  <2>2. \A m \in Masters : told'[m] \in {None, "good"}
    BY MastersStep
  <2> QED BY <2>1, <2>2
<1>10. clk' \in BOOLEAN /\ load' \in Workloads
  BY <1>1 DEF TypeInv, TypeOK
<1> QED BY <1>1, <1>2, <1>3, <1>4, <1>6, <1>8, <1>9, <1>10 DEF TypeInv, TypeOK

\* the inductive invariant
IInv == BusInv /\ load \in Workloads

\* The reset state.
LEMMA InvInit == Init => IInv
<1> SUFFICES ASSUME Init PROVE IInv
  OBVIOUS
<1>1. /\ load \in Workloads /\ k = BusReset /\ clk = FALSE
      /\ slv = [s \in Slaves |-> S!SlvReset] /\ ser = [m \in Masters |-> Z!SerdesReset]
      /\ job = [m \in Masters |-> None] /\ wait = [m \in Masters |-> None]
      /\ told = [m \in Masters |-> None]
      /\ mem = [s \in Devices |-> [a \in 0 .. Words - 1 |-> 0]]
      /\ golden = [m \in Masters |-> [s \in Devices |-> [i \in Z!Beat |-> 0]]]
  BY DEF Init
<1>2. S!SlvReset \in S!SlvRegisters /\ S!SlvReset.state = "Idle" /\ ~S!SlvReset.req_write
  <2>1. 0 \in Page /\ 0 \in Lens /\ 0 \in Values /\ "Idle" \in S!SlvStates
    BY Sizes DEF Page, Lens, S!SlvStates
  <2> QED BY <2>1, SlvFields DEF S!SlvReset
<1>3. /\ Z!SerdesReset \in Z!SerdesRegisters
      /\ Z!SerdesReset.amba = "idle" /\ Z!SerdesReset.state = "Idle"
  <2>1. 0 \in Z!Beat /\ 0 \in Values /\ Beats \in Places
    BY Sizes DEF Places
  <2>2. [i \in Z!Beat |-> 0] \in Z!Lines /\ [i \in Z!Beat |-> FALSE] \in Z!Strobes
    BY <2>1 DEF Z!Lines, Z!Strobes
  <2>3. "idle" \in AmbaStates /\ "Idle" \in SerStates /\ FALSE \in BOOLEAN
    BY DEF AmbaStates, SerStates
  <2> QED BY <2>1, <2>2, <2>3, SerFields DEF Z!SerdesReset
<1>4. k \in Locks
  <2>1. NM \in Owners /\ NS \in Slaves
    BY Sizes DEF Owners
  <2> QED BY <1>1, <2>1, LockFields DEF BusReset
<1>5. \A m \in Masters : None \in Requests[load][m]
  BY <1>1 DEF Requests
<1>6. \A s \in Devices : rd[s] \in 0 .. Words - 1 \/ (s \in load.slow /\ rd[s] = None)
  <2>1. 0 \in 0 .. Words - 1
    BY Sizes
  <2> QED BY <2>1 DEF Init
<1>7. /\ mem \in [Devices -> [0 .. Words - 1 -> Values]]
      /\ golden \in [Masters -> [Devices -> Z!Lines]]
  BY <1>1, Sizes DEF Z!Lines
<1>8. TypeOK
  BY <1>1, <1>2, <1>3, <1>4, <1>5, <1>6, <1>7 DEF TypeOK
<1>9. \A m \in Masters : MasterInv(m)
  BY <1>1, <1>3 DEF MasterInv
<1>10. ReadLock /\ WriteLock /\ RespLock
  BY <1>1 DEF ReadLock, WriteLock, RespLock, BusReset
<1>11. \A s \in Devices : SlaveInv(s)
  BY <1>1, <1>2 DEF SlaveInv, Devices
<1>12. MemInv
  <2>1. \A m \in Masters, i \in Z!Beat : m * Beats + i \in 0 .. Words - 1
    BY LinePlaces
  <2> QED BY <1>1, <2>1 DEF MemInv, Stored
<1>13. ReadsOwnLine
  BY <1>1, NoneAssumption DEF ReadsOwnLine
<1> QED BY <1>1, <1>8, <1>9, <1>10, <1>11, <1>12, <1>13 DEF IInv, BusInv

\* Every clock keeps the invariant.
LEMMA InvNext == IInv /\ [Next]_vars => IInv'
<1> SUFFICES ASSUME IInv, [Next]_vars PROVE IInv'
  OBVIOUS
<1>1. /\ TypeInv /\ AllMasters /\ AllSlaves /\ ReadLock /\ WriteLock /\ RespLock /\ MemInv
      /\ ReadsOwnLine
  BY DEF IInv, BusInv, TypeInv, AllMasters, AllSlaves
<1>2. CASE Next
  <2>1. PICK late \in Lates : Clock(late)
    BY <1>2 DEF Next, Lates
  <2>2. TypeInv'
    BY <1>1, <2>1, TypeStep
  <2>3. \A m \in Masters : MasterInv(m)' /\ told'[m] \in {None, "good"}
    BY <1>1, <2>1, MastersStep
  <2>4. ReadLock' /\ WriteLock' /\ RespLock'
    BY <1>1, <2>1, ReadLockStep, WriteLockStep, RespLockStep
  <2>5. \A s \in Devices : SlaveInv(s)'
    BY <1>1, <2>1, SlavesStep
  <2>6. MemInv'
    BY <1>1, <2>1, MemStep
  <2>7. ReadsOwnLine'
    BY <2>3, NoneAssumption DEF ReadsOwnLine
  <2> QED BY <2>2, <2>3, <2>4, <2>5, <2>6, <2>7 DEF IInv, BusInv, TypeInv
<1>3. CASE UNCHANGED vars
  <2>1. TypeInv'
    BY <1>1, <1>3 DEF vars, TypeInv, TypeOK
  <2>2. \A m \in Masters : MasterInv(m)'
    BY <1>1, <1>3 DEF vars, AllMasters, MasterInv, Moved
  <2>3. ReadLock' /\ WriteLock' /\ RespLock'
    BY <1>1, <1>3 DEF vars, ReadLock, WriteLock, RespLock, Moved, Reads, Holds
  <2>4. \A s \in Devices : SlaveInv(s)'
    BY <1>1, <1>3 DEF vars, AllSlaves, SlaveInv
  <2>5. MemInv' /\ ReadsOwnLine'
    BY <1>1, <1>3 DEF vars, MemInv, Stored, ReadsOwnLine
  <2> QED BY <2>1, <2>2, <2>3, <2>4, <2>5 DEF IInv, BusInv, TypeInv
<1> QED BY <1>2, <1>3

\* An adapter that is busy works for the master at a lock, which waits for it.
LEMMA InvRouted == IInv => RoutedToRequester
<1> SUFFICES ASSUME IInv PROVE RoutedToRequester
  OBVIOUS
<1>1. /\ TypeInv /\ AllMasters /\ AllSlaves /\ ReadLock /\ WriteLock /\ RespLock /\ TypeOK
  BY DEF IInv, BusInv, TypeInv, AllMasters, AllSlaves
<1>2. /\ k.r_m # NM => k.r_m \in Masters /\ ser[k.r_m].amba = "reading"
      /\ k.w_m # NM => k.w_m \in Masters /\ ser[k.w_m].amba = "writing"
      /\ k.b_m # NM => k.b_m \in Masters /\ ser[k.b_m].amba = "wack"
  <2>1. k.r_m \in Owners /\ k.w_m \in Owners /\ k.b_m \in Owners
    BY <1>1, LockFields DEF TypeOK
  <2>2. \A n \in Owners : n # NM => n \in Masters
    BY Sizes DEF Owners, Masters
  <2> QED BY <1>1, <2>1, <2>2 DEF ReadLock, WriteLock, RespLock
<1>3. ASSUME NEW s \in Devices, slv[s].state \in {"addr_r", "data_r", "out_r"}
      PROVE  k.r_s = s /\ k.r_m = slv[s].req_id /\ ~wait[k.r_m].write /\ wait[k.r_m].slv = s
  <2>1. k.r_s = s
    BY <1>1, <1>3 DEF AllSlaves, SlaveInv
  <2>2. k.r_m # NM
    BY <1>1, <2>1, ReadAtNS
  <2>3. slv[s].req_id = k.r_m /\ wait[k.r_m].slv = s
    BY <1>1, <2>1, <2>2 DEF ReadLock, Reads
  <2>4. ~wait[k.r_m].write
    BY <1>1, <1>2, <2>2 DEF AllMasters, MasterInv
  <2> QED BY <2>1, <2>3, <2>4
<1>4. ASSUME NEW s \in Devices, k.w_s = s
      PROVE  k.w_m = slv[s].req_id /\ wait[k.w_m].write /\ wait[k.w_m].slv = s
  <2>1. k.w_m # NM /\ s # NS
    BY <1>1, <1>4 DEF WriteLock, Devices
  <2>2. slv[s].req_id = k.w_m /\ wait[k.w_m].slv = s
    BY <1>1, <1>4, <2>1 DEF WriteLock
  <2>3. wait[k.w_m].write
    BY <1>1, <1>2, <2>1 DEF AllMasters, MasterInv
  <2> QED BY <2>2, <2>3
<1>5. ASSUME NEW s \in Devices, k.b_s = s
      PROVE  /\ k.b_m = slv[s].req_id /\ wait[k.b_m].write /\ wait[k.b_m].slv = s
             /\ slv[s].state = "burst_w" => slv[s].req_len = 0
             /\ slv[s].state # "w"
  <2>1. k.b_m # NM /\ s # NS
    BY <1>1, <1>5 DEF RespLock, Devices
  <2>2. /\ slv[s].req_id = k.b_m /\ wait[k.b_m].slv = s
        /\ slv[s].state = "burst_w" => slv[s].req_len = 0
        /\ slv[s].state # "w"
    BY <1>1, <1>5, <2>1 DEF RespLock, Holds
  <2>3. wait[k.b_m].write
    BY <1>1, <1>2, <2>1 DEF AllMasters, MasterInv
  <2> QED BY <2>2, <2>3
<1>6. ASSUME NEW s \in Devices,
             slv[s].state = "w" \/ (slv[s].state = "burst_w" /\ slv[s].req_len > 0)
      PROVE  k.w_s = s
  <2>1. k.w_s = s \/ k.b_s = s
    BY <1>1, <1>6 DEF AllSlaves, SlaveInv
  <2> QED BY <1>5, <1>6, <2>1
<1>7. \A s \in Devices : slv[s].state = "b" => k.b_s = s
  BY <1>1 DEF AllSlaves, SlaveInv
<1> QED BY <1>1, <1>3, <1>4, <1>5, <1>6, <1>7 DEF RoutedToRequester

----------------------------------------------------------------------------
\* The invariant holds in every reachable state.
LEMMA InvAlways == Spec => []IInv
<1>1. Init => IInv
  BY InvInit
<1>2. IInv /\ [Next]_vars => IInv'
  BY InvNext
<1> QED BY <1>1, <1>2, PTL DEF Spec

(***************************************************************************)
(* Whatever the number of masters, of devices and of beats, and whatever   *)
(* the delays of the slow devices: the separate locks of the R, W and B    *)
(* channels (comb of axictrl_bus0.cpp) never disagree with the adapters    *)
(* (axi_slv.cpp), so that what an adapter reads, takes or answers belongs  *)
(* to the master at the lock, which waits for this slave.                  *)
(***************************************************************************)
THEOREM BusRouted == Spec => []RoutedToRequester
<1>1. IInv => RoutedToRequester
  BY InvRouted
<1> QED BY <1>1, InvAlways, PTL

(***************************************************************************)
(* A master gets no response that it does not wait for; what it reads of   *)
(* its own line is what it wrote there last, after the line was cut into   *)
(* the beats of a burst and put together again (l2serdes.cpp, l2_amba.cpp) *)
(* and whatever the other masters do at the same time; an access is an     *)
(* error exactly when it is outside of the memory map.                     *)
(***************************************************************************)
THEOREM BusReadsOwnLine == Spec => []ReadsOwnLine
<1>1. IInv => ReadsOwnLine
  BY DEF IInv, BusInv
<1> QED BY <1>1, InvAlways, PTL
============================================================================
