-------------------------- MODULE DCacheMem_proof --------------------------
(***************************************************************************)
(* Proofs about the L1 data cache between its core and its memory, for     *)
(* every number of ways, sets, tags, words and values.                     *)
(*                                                                         *)
(* The control invariant ControlInv says what the states of the machine    *)
(* mean: which request is on the bus, what the tag memory shows, whose     *)
(* answer is awaited.  It is inductive: every state of comb() has a lemma  *)
(* ..Effect, which says what its clock does to the registers, the tag      *)
(* memory and the neighbours, and a lemma ..Control, which derives from it *)
(* that the clock keeps the invariant.                                     *)
(***************************************************************************)
EXTENDS DCacheMem, TLAPS

(***************************************************************************)
(* One clock of the N-way tag memory: what the lookup shows, and which     *)
(* entry a write changes (tagmemnway.h).                                   *)
(***************************************************************************)
\* way w of set s, and the place of the memory its line belongs to
Valid(s, w) == "VALID" \in ram[s][w].flags
Place(s, w) == <<ram[s][w].tag, s>>

\* a line is in one way of its set only
NoAlias ==
    \A s \in Sets : \A w, x \in Way :
       Valid(s, w) /\ Valid(s, x) /\ ram[s][w].tag = ram[s][x].tag => w = x

\* line controls of a clock
LineControls == [direct : BOOLEAN, invalidate : BOOLEAN, re : BOOLEAN, we : BOOLEAN,
                 addr : Addr, wdata : Line, wstrb : SUBSET Words, wflags : SUBSET Flags,
                 snoop : Addr]

\* Numbers of ways and sets: there is a first way and a first set.
LEMMA Bounds ==
    /\ Ways \in Nat /\ NSets \in Nat /\ 0 \in Way /\ 0 \in Sets
    /\ Way \subseteq Int /\ Sets \subseteq Int
  BY NWayAssumption DEF Way, Sets

\* The reset values are an address and a line.
LEMMA Zeros == ZeroAddr \in Addr /\ ZeroLine \in Line
  BY Bounds, DataAssumption DEF ZeroAddr, Addr, ZeroLine, Line

\* A row of the replacement table stays a row (lrunway.h).
LEMMA RowTypes ==
    ASSUME NEW row \in [Way -> Way], NEW w \in Way
    PROVE  Lru0!RowUp(row, w) \in [Way -> Way] /\ Lru0!RowDown(row, w) \in [Way -> Way]
           /\ Lru0!RowInit \in [Way -> Way]
<1>1. Lru0!RowUp(row, w) \in [Way -> Way]
  BY NWayAssumption, SMTT(60) DEF Lru0!RowUp, Lru0!Way, Way
<1>2. Lru0!RowDown(row, w) \in [Way -> Way]
  BY NWayAssumption, SMTT(60) DEF Lru0!RowDown, Lru0!Way, Way
<1>3. Lru0!RowInit \in [Way -> Way]
  BY DEF Lru0!RowInit, Lru0!Way, Way
<1> QED BY <1>1, <1>2, <1>3

(***************************************************************************)
(* The lookup shows one way: the one addressed under direct access, the    *)
(* hitting one if there is any, and the one to displace otherwise          *)
(* (tagmemnway.h).                                                         *)
(***************************************************************************)
LEMMA HitState ==
    TagTypeOK /\ NoAlias => /\ HitIdx \in Way /\ rd.addr.set \in Sets
                            /\ rd.direct => HitIdx = rd.addr.way
                            /\ ~rd.direct => \A w \in Way : WayHit(w) => w = HitIdx /\ Hit
                            /\ ~rd.direct /\ ~Hit => HitIdx = lru[rd.addr.set][0]
<1> SUFFICES ASSUME TagTypeOK, NoAlias
             PROVE  /\ HitIdx \in Way /\ rd.addr.set \in Sets
                    /\ rd.direct => HitIdx = rd.addr.way
                    /\ ~rd.direct => \A w \in Way : WayHit(w) => w = HitIdx /\ Hit
                    /\ ~rd.direct /\ ~Hit => HitIdx = lru[rd.addr.set][0]
  OBVIOUS
<1>1. rd.addr.set \in Sets /\ rd.addr.way \in Way /\ 0 \in Way
  BY Bounds DEF TagTypeOK, ReadRegisters, Addr
<1>2. lru[rd.addr.set][0] \in Way
  BY <1>1 DEF TagTypeOK
<1>3. CASE rd.direct
  BY <1>1, <1>3 DEF HitIdx
<1>4. ASSUME ~rd.direct, NEW u \in Way, WayHit(u) PROVE HitIdx = u
  <2>1. \A x \in Way : WayHit(x) => x = u
    BY <1>1, <1>4 DEF NoAlias, WayHit, Valid, TagTypeOK, Entry
  <2>2. u <= u
    BY DEF Way
  <2>3. \E w \in Way : WayHit(w) /\ \A x \in Way : WayHit(x) => x <= w
    BY <1>4, <2>1, <2>2
  <2>4. HitIdx = CHOOSE w \in Way : WayHit(w) /\ \A x \in Way : WayHit(x) => x <= w
    BY <1>4 DEF HitIdx
  <2> QED BY <2>1, <2>3, <2>4
<1>5. CASE ~rd.direct /\ ~\E w \in Way : WayHit(w)
  BY <1>1, <1>2, <1>5 DEF HitIdx, Lru0!Lru
<1> QED BY <1>1, <1>3, <1>4, <1>5 DEF Hit

\* HitState of the next state.
LEMMA HitNext ==
    TagTypeOK' /\ NoAlias' => /\ HitIdx' \in Way /\ rd'.addr.set \in Sets
                              /\ rd'.direct => HitIdx' = rd'.addr.way
                              /\ ~rd'.direct => \A w \in Way : WayHit(w)' => w = HitIdx' /\ Hit'
                              /\ ~rd'.direct /\ ~Hit' => HitIdx' = lru'[rd'.addr.set][0]
<1>1. (TagTypeOK /\ NoAlias => /\ HitIdx \in Way /\ rd.addr.set \in Sets
                               /\ rd.direct => HitIdx = rd.addr.way
                               /\ ~rd.direct => \A w \in Way : WayHit(w) => w = HitIdx /\ Hit
                               /\ ~rd.direct /\ ~Hit => HitIdx = lru[rd.addr.set][0])'
  BY HitState, PTL
<1> QED BY <1>1

\* the same lookup in the same memory has the same result
LEMMA SameLookup ==
    ASSUME TagTypeOK, NoAlias, TagTypeOK', ram' = ram, ~rd.direct, ~rd'.direct, rd'.addr = rd.addr
    PROVE  /\ NoAlias' /\ (Hit' <=> Hit) /\ HitIdx' \in Way
           /\ Hit \/ lru' = lru => HitIdx' = HitIdx
<1>1. NoAlias'
  BY DEF NoAlias, Valid
<1>2. \A w \in Way : WayHit(w)' <=> WayHit(w)
  BY DEF WayHit
<1>3. Hit' <=> Hit
  BY <1>1, <1>2, HitState, HitNext DEF Hit
<1> QED BY <1>1, <1>2, <1>3, HitState, HitNext DEF Hit

\* the entry at (s0, w0) becomes e, every other one stays
Rewritten(s0, w0, e) ==
    \A s \in Sets, w \in Way : ram'[s][w] = IF s = s0 /\ w = w0 THEN e ELSE ram[s][w]

\* what a clock with the line controls c does to the tag memory
TagEffect(c) ==
    /\ TagTypeOK'
    /\ rd'.addr = c.addr /\ rd'.direct = c.direct /\ rd'.invalidate = c.invalidate
    /\ rd'.re = c.re
    /\ ~c.we /\ ~(rd.invalidate /\ Hit) => ram' = ram
    /\ ~c.we /\ ~rd.direct /\ ~(Hit /\ rd.re) /\ ~rd.invalidate => lru' = lru
    /\ rd.invalidate /\ (c.we \/ Hit) =>
          \E v \in Line : Rewritten(c.addr.set, HitIdx, [tag |-> c.addr.tag, flags |-> {}, data |-> v])
    /\ c.we /\ ~rd.invalidate /\ c.wstrb # {} =>
          Rewritten(c.addr.set, HitIdx,
                    [tag |-> c.addr.tag, flags |-> c.wflags,
                     data |-> [w \in Words |-> IF w \in c.wstrb THEN c.wdata[w]
                                              ELSE ram[c.addr.set][HitIdx].data[w]]])

\* One clock of the tag memory, reduced to what the proofs use of it.
LEMMA TagFacts ==
    ASSUME TagTypeOK, NoAlias, NEW c \in LineControls, TagClock(c)
    PROVE  TagEffect(c)
<1>0. HitIdx \in Way
  BY HitState
<1>b. c.addr.set \in Sets /\ rd.addr.set \in Sets /\ c.addr.tag \in Tags
  BY DEF LineControls, Addr, TagTypeOK, ReadRegisters
<1>1. Written(c) \in Entry
  BY <1>0, <1>b DEF Written, Entry, TagTypeOK, LineControls, Line
<1>2. ram' \in [Sets -> [Way -> Entry]]
  BY <1>0, <1>1, <1>b DEF TagClock, TagTypeOK
<1>3. lru' \in [Sets -> [Way -> Way]]
  <2> DEFINE row == lru[rd.addr.set]
  <2>1. row \in [Way -> Way]
    BY <1>b DEF TagTypeOK
  <2>2. Lru0!RowUp(row, HitIdx) \in [Way -> Way] /\ Lru0!RowDown(row, HitIdx) \in [Way -> Way]
           /\ Lru0!RowInit \in [Way -> Way]
    BY <2>1, <1>0, RowTypes
  <2> QED BY <2>2, <1>b DEF TagClock, TagTypeOK, Lru0!TableClock
<1>4. rd' = [addr |-> c.addr, direct |-> c.direct, invalidate |-> c.invalidate,
              re |-> c.re, snoop |-> c.snoop]
  BY DEF TagClock
<1>5. rd' \in ReadRegisters
  BY <1>4 DEF ReadRegisters, LineControls
<1>6. ~c.we /\ ~(rd.invalidate /\ Hit) => ram' = ram
  BY DEF TagClock, WayWe
<1>7. ~c.we /\ ~rd.direct /\ ~(Hit /\ rd.re) /\ ~rd.invalidate => lru' = lru
  BY DEF TagClock, Lru0!TableClock
<1>8. (c.we \/ (rd.invalidate /\ Hit)) /\ (rd.invalidate \/ c.wstrb # {})
         => Rewritten(c.addr.set, HitIdx, Written(c))
  BY <1>0, <1>b DEF TagClock, WayWe, TagTypeOK, Rewritten
<1>9. ASSUME rd.invalidate, c.we \/ Hit
      PROVE  \E v \in Line : Rewritten(c.addr.set, HitIdx, [tag |-> c.addr.tag, flags |-> {}, data |-> v])
  <2>1. Written(c) = [tag |-> c.addr.tag, flags |-> {}, data |-> Written(c).data]
    BY <1>9 DEF Written
  <2>2. Written(c).data \in Line
    BY <1>1 DEF Entry
  <2> QED BY <1>8, <1>9, <2>1, <2>2
<1>10. ~rd.invalidate => Written(c) = [tag |-> c.addr.tag, flags |-> c.wflags,
            data |-> [w \in Words |-> IF w \in c.wstrb THEN c.wdata[w]
                                     ELSE ram[c.addr.set][HitIdx].data[w]]]
  BY DEF Written
<1>11. c.we \in BOOLEAN
  BY DEF LineControls
<1> QED BY <1>2, <1>3, <1>4, <1>5, <1>6, <1>7, <1>8, <1>9, <1>10, <1>11 DEF TagTypeOK, TagEffect

----------------------------------------------------------------------------
\* requests for a line of the cache, and the marks of a write that is not the core's
Fetches == {"ReadShared", "ReadMakeUnique"}
Writes == r.write_share \/ r.write_flush \/ r.write_first

\* a request of the core is being served
Serving ==
    /\ r.state \in {"CheckHit", "TranslateAddress", "WaitGrant", "WaitResp", "CheckResp",
                    "SetupReadAdr", "WriteBus"}
    /\ ~r.write_flush /\ ~r.write_share

\* a line is on its way to the cache
Refilling ==
    /\ r.state \in {"WaitGrant", "WaitResp", "CheckResp"} /\ ~Writes /\ ~r.load_fault
    /\ r.mem_type \in Fetches
\* a word is on its way past it
Bypassing ==
    /\ r.state \in {"WaitGrant", "WaitResp", "CheckResp", "WriteBus"} /\ ~Writes /\ ~r.load_fault
    /\ r.mem_type \notin Fetches

\* in which states the marks of the machine are up; a flush sweeps the whole cache
FlagsInv ==
    /\ r.state \notin {"SnoopSetupAddr", "SnoopReadData"}
    /\ r.mem_valid <=> r.state = "WaitGrant"
    /\ r.write_flush => r.state \in {"WaitGrant", "WriteBus", "FlushAddr"}
    /\ r.write_first => r.state \in {"WaitGrant", "WriteBus"} /\ ~r.write_flush
    /\ r.write_share => /\ r.state \in {"TranslateAddress", "WaitGrant", "WriteBus"}
                        /\ ~r.write_flush /\ ~r.write_first
    /\ r.load_fault => r.state \notin {"WaitGrant", "WaitResp", "WriteBus"} \/ r.write_flush \/ r.write_share
    /\ r.state \in {"FlushAddr", "FlushCheck"} \/ r.write_flush => r.req_flush_all
    /\ r.req_flush /\ r.state # "Reset" => r.req_flush_all

\* type and address of a memory request fit the request of the core it serves
TypeInv ==
    /\ r.state \in {"WaitGrant", "WriteBus"} =>
          /\ r.write_share => r.mem_type = "WriteLineUnique"
          /\ r.write_flush \/ r.write_first => r.mem_type = "WriteBack"
    /\ r.state = "WriteBus" /\ ~Writes => r.mem_type = "WriteNoSnoop"
    /\ r.state = "WaitGrant" /\ ~Writes =>
          r.mem_type \in Fetches \cup {IF IsStore THEN "WriteNoSnoop" ELSE "ReadNoSnoop"}
    /\ r.state = "WaitResp" \/ (r.state = "CheckResp" /\ ~r.load_fault) =>
          r.mem_type \in Fetches \cup {"ReadNoSnoop"}
    /\ Refilling => r.mem_addr = LineAddr(r.req_addr) /\ r.req_addr.tag \notin Uncached \cup NoAccess
    /\ r.write_first => r.req_addr.tag \notin Uncached \cup NoAccess
    /\ Refilling /\ r.state = "CheckResp" => r.req_addr.tag \notin Faulty
    /\ Bypassing => r.mem_addr = r.req_addr /\ r.req_addr.tag \in Uncached
    /\ Bypassing /\ r.mem_type = "WriteNoSnoop" => r.state # "CheckResp" /\ IsStore
    /\ Bypassing /\ r.mem_type = "ReadNoSnoop" => ~IsStore

\* the tag memory shows the line asked for, or under a sweep the position reached
PortInv ==
    /\ rd.invalidate <=> r.state \in {"FlushCheck", "ResetWrite"}
    /\ r.state \in {"FlushCheck", "ResetWrite"} => rd.direct /\ rd.addr = r.req_addr
    /\ Serving \/ r.write_share =>
          ~rd.direct /\ rd.addr = r.req_addr

\* what the bus has taken is still in the registers (o_req_mem_data is read late)
BusInv ==
    bus # None => /\ r.state \in {"WaitResp", "WriteBus"}
                  /\ bus = [type |-> r.mem_type, addr |-> r.mem_addr, data |-> r.line_o]

\* the registers hold the request the core waits for; a store conditional goes no further than the hit
CpuInv ==
    /\ load \in Workloads
    /\ cpu = None \/ cpu \in [type : MemopTypes, addr : Addr, wdata : Values]
    /\ Serving => /\ cpu = [type |-> r.req_type, addr |-> r.req_addr, wdata |-> r.req_wdata]
                  /\ cpu # None
                  /\ r.state # "CheckHit" => ~(IsStore /\ IsRelease)

\* only lines that may be cached are
CachedTags ==
    \A s \in Sets, w \in Way : Valid(s, w) => ram[s][w].tag \notin Uncached \cup NoAccess \cup Faulty

\* a refill follows a miss, an upgrade a hit, and what is written back is the victim
LookupInv ==
    /\ r.write_share /\ r.state = "TranslateAddress" => Hit
    /\ Serving /\ r.state \notin {"CheckHit", "SetupReadAdr"} => ~Hit
    /\ r.state \in {"WaitGrant", "WriteBus"} =>
          /\ r.write_first => At(r.mem_addr) = Place(rd.addr.set, HitIdx)
          /\ Writes => r.mem_addr.tag \notin Faulty

WayInv == NoAlias /\ CachedTags /\ LookupInv

\* a reserved line is one the core has an unbroken reservation for, or is about to get
LinkInv ==
    \A s \in Sets, w \in Way : Valid(s, w) /\ "RESERVED" \in ram[s][w].flags =>
       \/ Place(s, w) \in linked
       \/ /\ r.state \in {"SetupReadAdr", "CheckHit"} /\ IsReserve /\ ~IsStore
          /\ Place(s, w) = At(r.req_addr)

\* the inductive invariant
ControlInv ==
    /\ TypeOK /\ FlagsInv /\ TypeInv /\ PortInv /\ BusInv /\ CpuInv /\ WayInv /\ LinkInv

----------------------------------------------------------------------------
\* line controls of a clock
Controls == [direct : BOOLEAN, invalidate : BOOLEAN, re : BOOLEAN, we : BOOLEAN,
             addr : Addr, wdata : Line, wstrb : SUBSET Words, wflags : SUBSET Flags]

\* The lookup shows one way, the hitting one if there is any (tagmemnway.h).
LEMMA HitFacts ==
    ASSUME TagTypeOK, NoAlias
    PROVE  /\ HitIdx \in Way
           /\ rd.direct => HitIdx = rd.addr.way
           /\ ~rd.direct => \A w \in Way : WayHit(w) => w = HitIdx /\ Hit
           /\ ~rd.direct /\ ~Hit => HitIdx = lru[rd.addr.set][0]
  BY HitState

\* The same for the line controls of the data cache, which come without a snoop address.
LEMMA TagClockFacts ==
    ASSUME TagTypeOK, NoAlias, NEW c \in Controls, NEW sn \in Addr,
           TagClock([direct |-> c.direct, invalidate |-> c.invalidate,
                 re |-> c.re, we |-> c.we, addr |-> c.addr,
                 wdata |-> c.wdata, wstrb |-> c.wstrb, wflags |-> c.wflags,
                 snoop |-> sn])
    PROVE  TagEffect(c)
<1> DEFINE k == [direct |-> c.direct, invalidate |-> c.invalidate,
                 re |-> c.re, we |-> c.we, addr |-> c.addr,
                 wdata |-> c.wdata, wstrb |-> c.wstrb, wflags |-> c.wflags,
                 snoop |-> sn]
<1>1. /\ k.direct = c.direct /\ k.invalidate = c.invalidate /\ k.re = c.re /\ k.we = c.we
      /\ k.addr = c.addr /\ k.wdata = c.wdata /\ k.wstrb = c.wstrb /\ k.wflags = c.wflags
  OBVIOUS
<1>2. k \in LineControls
  BY DEF Controls, LineControls
<1>3. TagEffect(k)
  BY <1>2, TagFacts
<1> QED BY <1>1, <1>3 DEF TagEffect

\* the registers v computed by the machine are the next ones; those that are
\* not read in State_Idle are left open there
Taken(v) ==
    /\ r' \in Registers
    /\ r'.state = v.state /\ r'.req_addr = v.req_addr /\ r'.mem_valid = v.mem_valid
    /\ r'.load_fault = v.load_fault /\ r'.write_first = v.write_first
    /\ r'.write_flush = v.write_flush /\ r'.write_share = v.write_share
    /\ r'.req_flush = v.req_flush /\ r'.req_flush_all = v.req_flush_all
    /\ r'.flush_cnt = v.flush_cnt /\ r'.line_i = v.line_i
    /\ v.state # "Idle" =>
          /\ r'.req_type = v.req_type /\ r'.req_wdata = v.req_wdata
          /\ r'.mem_type = v.mem_type /\ r'.mem_addr = v.mem_addr
          /\ r'.line_o = v.line_o

\* One clock of the registers (the tail of comb()), snoops aside.
LEMMA ClockedFacts ==
    ASSUME TagTypeOK, NoAlias, NEW v \in Registers, NEW c \in Controls, NEW in,
           in.snoop = None, Clocked(in, v, c)
    PROVE  /\ Taken(v)
           /\ TagClock([direct |-> c.direct, invalidate |-> c.invalidate,
                 re |-> c.re, we |-> c.we, addr |-> c.addr,
                 wdata |-> c.wdata, wstrb |-> c.wstrb, wflags |-> c.wflags,
                 snoop |-> ZeroAddr])
<1>1. 0 \in Values /\ {} \in MemopTypes /\ ZeroAddr \in Addr /\ ZeroLine \in Line
  BY Bounds, DataAssumption DEF MemopTypes, ZeroAddr, Addr, ZeroLine, Line
<1>2. Rested(v) \in Registers
  <2>1. "ReadNoSnoop" \in MemTypes /\ "flags" \in SnoopTypes
    BY DEF MemTypes, SnoopTypes
  <2>2. CASE v.state # "Idle"
    BY <2>2 DEF Rested
  <2>3. CASE v.state = "Idle"
    <3>1. Rested(v) = [v EXCEPT !.req_type = {}, !.req_wdata = 0, !.mem_type = "ReadNoSnoop",
                   !.mem_addr = ZeroAddr, !.line_o = ZeroLine, !.snoop_type = "flags"]
      BY <2>3 DEF Rested
    <3> HIDE DEF MemTypes, SnoopTypes, ZeroAddr, ZeroLine, Line, Addr
    <3> QED BY <1>1, <2>1, <3>1, ZenonT(60) DEF Registers
  <2> QED BY <2>2, <2>3
<1>3. r' = [Rested(v) EXCEPT !.snoop_flags_valid = FALSE]
  BY DEF Clocked
<1>4. r' \in Registers
  BY <1>2, <1>3, ZenonT(60) DEF Registers
<1>5. /\ r'.state = v.state /\ r'.req_addr = v.req_addr /\ r'.mem_valid = v.mem_valid
      /\ r'.load_fault = v.load_fault /\ r'.write_first = v.write_first
      /\ r'.write_flush = v.write_flush /\ r'.write_share = v.write_share
      /\ r'.req_flush = v.req_flush /\ r'.req_flush_all = v.req_flush_all
      /\ r'.flush_cnt = v.flush_cnt /\ r'.line_i = v.line_i
  BY <1>3 DEF Rested, Registers
<1>6. v.state # "Idle" =>
                 /\ r'.req_type = v.req_type /\ r'.req_wdata = v.req_wdata
                 /\ r'.mem_type = v.mem_type /\ r'.mem_addr = v.mem_addr
                 /\ r'.line_o = v.line_o
  BY <1>3 DEF Rested, Registers
<1> QED BY <1>4, <1>5, <1>6 DEF Clocked, Taken

\* The inputs of a clock are typed, and the memory answers only what it was asked.
LEMMA InFacts ==
    ASSUME TypeOK, BusInv, CpuInv, NEW in \in Ins
    PROVE  /\ in.snoop = None /\ in.addr \in Addr
           /\ in.flush \in BOOLEAN /\ in.mem_ready \in BOOLEAN
           /\ in.mem_ready => r.mem_valid
           /\ in.mem # None => in.mem = Answer /\ bus # None /\ in.mem \in Replies
           /\ in.req # None => in.req \in Requests /\ Listens
<1>1. load.types \subseteq MemopTypes /\ load.values \subseteq Values /\ load.tags \subseteq Tags
  BY EnvAssumption DEF CpuInv
<1>2. CoreReqs \subseteq Requests
  BY <1>1, DataAssumption DEF CoreReqs, Requests
<1>3. CoreAddrs \subseteq Addr
  BY <1>1, Bounds DEF CoreAddrs, Addr
<1>4. ZeroAddr \in Addr /\ LineAddr(r.req_addr) \in Addr
  BY Bounds, DataAssumption DEF ZeroAddr, Addr, LineAddr, TypeOK, DTypeOK, Registers
<1>5. bus # None => Answer \in Replies
  <2> SUFFICES ASSUME bus # None PROVE Answer \in Replies
    OBVIOUS
  <2>1. bus.addr \in Addr /\ bus.addr = r.mem_addr
    BY DEF BusInv, TypeOK, DTypeOK, Registers
  <2>2. At(bus.addr) \in Places /\ bus.addr.word \in Words
    BY <2>1 DEF At, Places, Addr
  <2>3. mem[At(bus.addr)] \in Line
    BY <2>2 DEF TypeOK
  <2>4. ZeroExtended(mem[At(bus.addr)][bus.addr.word]) \in Line /\ ZeroLine \in Line
    BY <2>2, <2>3, DataAssumption DEF ZeroExtended, ZeroLine, Line
  <2> HIDE DEF Line
  <2> QED BY <2>3, <2>4 DEF Answer, Replies
<1>6. /\ in.snoop = None /\ in.flush \in BOOLEAN /\ in.mem_ready \in BOOLEAN
      /\ in.mem_ready => r.mem_valid
      /\ in.mem # None => in.mem = Answer /\ bus # None
      /\ in.addr \in {ZeroAddr, LineAddr(r.req_addr)} \cup CoreAddrs
      /\ in.req # None => in.req \in CoreReqs /\ Listens
  BY DEF Ins
<1> QED BY <1>2, <1>3, <1>4, <1>5, <1>6

----------------------------------------------------------------------------
\* groups of registers that a clock leaves alone
ReqKept(v) == /\ v.req_addr = r.req_addr /\ v.req_type = r.req_type
              /\ v.req_wdata = r.req_wdata
MemKept(v) == v.mem_type = r.mem_type /\ v.mem_addr = r.mem_addr /\ v.line_o = r.line_o
WritesKept(v) == /\ v.write_first = r.write_first /\ v.write_flush = r.write_flush
                 /\ v.write_share = r.write_share
FlushLatched(in, v) == /\ v.req_flush <=> (in.flush \/ r.req_flush)
                       /\ v.req_flush_all <=> (in.flush \/ r.req_flush_all)
LineKept(v) == v.load_fault = r.load_fault /\ v.line_i = r.line_i
Latching(in, v) ==
    /\ ReqKept(v) /\ MemKept(v) /\ WritesKept(v) /\ FlushLatched(in, v) /\ LineKept(v)
    /\ v.state = r.state /\ v.mem_valid = r.mem_valid /\ v.flush_cnt = r.flush_cnt

PortRests == /\ ~rd'.direct /\ ~rd'.invalidate /\ ~rd'.re /\ rd'.addr = r.req_addr
             /\ TagTypeOK'
RamKept ==
    /\ ram' = ram
    /\ ~rd.direct /\ ~(Hit /\ rd.re) => lru' = lru
CoreWaits == cpu' = cpu /\ resp' = None /\ golden' = golden /\ linked' = linked
BusWaits == bus' = bus /\ mem' = mem

\* i_flush_valid is latched without touching another register.
LEMMA LatchedFacts ==
    ASSUME r \in Registers, NEW in, in.flush \in BOOLEAN
    PROVE  Latched(in) \in Registers /\ Latching(in, Latched(in))
<1> USE DEF Latching, ReqKept, MemKept, WritesKept, FlushLatched, LineKept
<1>1. CASE in.flush
  <2>1. Latched(in) = [r EXCEPT !.req_flush = TRUE, !.req_flush_all = TRUE]
    BY <1>1 DEF Latched
  <2> QED BY <1>1, <2>1, ZenonT(60) DEF Registers
<1>2. CASE ~in.flush
  <2>1. Latched(in) = r
    BY <1>2 DEF Latched
  <2> QED BY <1>2, <2>1
<1> QED BY <1>1, <1>2

\* Line controls at rest are typed.
LEMMA ControlTypes ==
    ASSUME r \in Registers
    PROVE  NoLineAccess \in Controls
  BY DEF NoLineAccess, Controls, Registers

\* States and conditions under which o_resp_valid is low.
LEMMA QuietResp ==
    ASSUME NEW in,
           \/ r.state \notin {"CheckHit", "CheckResp", "WriteBus"}
           \/ r.state = "CheckHit" /\ ~Hit
           \/ r.state = "CheckResp" /\ ~r.load_fault /\ CachedType(r.mem_type) /\ ~IsStore
           \/ r.state = "WriteBus" /\ (in.mem = None \/ Writes)
    PROVE  Resp(in) = None
  BY DEF Resp, Writes

\* Without an answer and without an accepted request the core waits.
LEMMA QuietCore ==
    ASSUME NEW in, Core(in), Resp(in) = None, in.req = None \/ ~ReqReady(in)
    PROVE  CoreWaits
  BY DEF Core, CoreWaits

\* what a step knows of the registers and the inputs, whatever its state
LEMMA StepFacts ==
    ASSUME ControlInv, NEW in \in Ins, Step(in)
    PROVE  /\ Latched(in) \in Registers /\ Latching(in, Latched(in))
           /\ r \in Registers /\ TagTypeOK /\ NoAlias
           /\ r.state \notin {"WaitResp", "WriteBus"} => in.mem = None /\ mem' = mem
           /\ r.state # "WaitGrant" /\ in.mem = None => BusWaits
           /\ r.state \notin {"Idle", "CheckHit", "CheckResp", "WriteBus"} => CoreWaits
           /\ rd.invalidate => r.state \in {"FlushCheck", "ResetWrite"}
           /\ load' = load
<1>1. r \in Registers /\ TagTypeOK /\ NoAlias /\ BusInv /\ FlagsInv /\ TypeOK /\ CpuInv
  BY DEF ControlInv, TypeOK, DTypeOK, WayInv
<1>2. in.flush \in BOOLEAN /\ (in.mem_ready => r.mem_valid) /\ (in.mem # None => bus # None)
  BY <1>1, InFacts
<1>3. r.state \notin {"WaitResp", "WriteBus"} => in.mem = None /\ mem' = mem
  BY <1>1, <1>2 DEF BusInv, Step, Bus
<1>4. r.state # "WaitGrant" /\ in.mem = None => BusWaits
  BY <1>1, <1>2 DEF FlagsInv, Step, Bus, BusWaits
<1>5. r.state \notin {"Idle", "CheckHit", "CheckResp", "WriteBus"} => CoreWaits
  BY QuietResp, QuietCore DEF Step, ReqReady, ReadyNow
<1>6. Latched(in) \in Registers /\ Latching(in, Latched(in))
  BY <1>1, <1>2, LatchedFacts
<1> QED BY <1>1, <1>3, <1>4, <1>5, <1>6 DEF Step, ControlInv, PortInv

\* One clock with line controls c: the registers and the tag memory.
LEMMA LineClock ==
    ASSUME ControlInv, NEW in \in Ins, NEW v \in Registers, NEW c \in Controls,
           Clocked(in, v, c)
    PROVE  Taken(v) /\ TagEffect(c)
<1>1. TagTypeOK /\ NoAlias /\ in.snoop = None
  BY InFacts DEF ControlInv, TypeOK, DTypeOK, WayInv
<1>2. ZeroAddr \in Addr
  BY Bounds, DataAssumption DEF ZeroAddr, Addr
<1> QED BY <1>1, <1>2, ClockedFacts, TagClockFacts

\* a clock in which the machine leaves the tag memory alone
LEMMA PlainClock ==
    ASSUME ControlInv, NEW in \in Ins, NEW v \in Registers,
           Clocked(in, v, NoLineAccess), ~rd.invalidate
    PROVE  Taken(v) /\ PortRests /\ RamKept
<1>1. NoLineAccess \in Controls
  BY ControlTypes DEF ControlInv, TypeOK, DTypeOK
<1>2. /\ NoLineAccess.direct = FALSE /\ NoLineAccess.invalidate = FALSE /\ NoLineAccess.re = FALSE
      /\ NoLineAccess.we = FALSE /\ NoLineAccess.addr = r.req_addr
  BY DEF NoLineAccess
<1> HIDE DEF NoLineAccess
<1> QED BY <1>1, <1>2, LineClock DEF PortRests, RamKept, TagEffect

\* WaitGrant: the request is on the bus, or still waits for it
WaitGrantDone(in, v) ==
    /\ Taken(v) /\ PortRests /\ RamKept /\ CoreWaits /\ mem' = mem
    /\ ReqKept(v) /\ MemKept(v) /\ WritesKept(v) /\ FlushLatched(in, v) /\ LineKept(v)
    /\ v.flush_cnt = r.flush_cnt
    /\ \/ /\ v.state = "WaitGrant" /\ v.mem_valid /\ bus' = bus
       \/ /\ ~v.mem_valid
          /\ v.state = IF Writes \/ (IsStore /\ ~CachedType(r.mem_type))
                        THEN "WriteBus" ELSE "WaitResp"
          /\ bus' = [type |-> r.mem_type, addr |-> r.mem_addr, data |-> r.line_o]

\* the action implies it
LEMMA WaitGrantEffect ==
    ASSUME ControlInv, NEW in \in Ins, Step(in), WaitGrant(in)
    PROVE  \E v \in Registers : WaitGrantDone(in, v)
<1> USE DEF WaitGrantDone
<1> DEFINE y == Latched(in)
           st == IF Writes \/ (IsStore /\ ~CachedType(r.mem_type)) THEN "WriteBus" ELSE "WaitResp"
           v == IF in.mem_ready THEN [y EXCEPT !.mem_valid = FALSE, !.state = st] ELSE y
<1>1. y \in Registers /\ Latching(in, y) /\ ~rd.invalidate /\ r.state = "WaitGrant" /\ r.mem_valid
  BY StepFacts DEF WaitGrant, ControlInv, FlagsInv
<1>2. Clocked(in, v, NoLineAccess) /\ st \in States
  BY DEF WaitGrant, Writes, States
<1>3. CoreWaits /\ mem' = mem
      /\ bus' = IF in.mem_ready THEN [type |-> r.mem_type, addr |-> r.mem_addr, data |-> r.line_o]
                ELSE bus
  BY <1>1, StepFacts DEF Step, Bus
<1> HIDE DEF y, st
<1>4. /\ v \in Registers /\ ReqKept(v) /\ MemKept(v) /\ WritesKept(v) /\ FlushLatched(in, v) /\ LineKept(v)
      /\ v.flush_cnt = r.flush_cnt
      /\ IF in.mem_ready THEN ~v.mem_valid /\ v.state = st
         ELSE v.state = "WaitGrant" /\ v.mem_valid
  <2> USE <1>1, <1>2 DEF Latching, ReqKept, MemKept, WritesKept, FlushLatched, LineKept
  <2>1. CASE in.mem_ready
    BY <2>1, ZenonT(60) DEF Registers
  <2>2. CASE ~in.mem_ready
    BY <2>2
  <2> QED BY <2>1, <2>2
<1> HIDE DEF v
<1>5. Taken(v) /\ PortRests /\ RamKept
  BY <1>1, <1>2, <1>4, PlainClock
<1> QED BY <1>3, <1>4, <1>5 DEF st

\* CheckMiss: to the access checks, or nowhere for a store conditional
CheckMissDone(in, v) ==
    /\ Taken(v) /\ PortRests /\ RamKept /\ CoreWaits /\ BusWaits
    /\ ReqKept(v) /\ MemKept(v) /\ WritesKept(v) /\ FlushLatched(in, v) /\ LineKept(v)
    /\ v.mem_valid = r.mem_valid
    /\ v.state = IF IsStore /\ IsRelease THEN "Idle" ELSE "TranslateAddress"

\* the action implies it
LEMMA CheckMissEffect ==
    ASSUME ControlInv, NEW in \in Ins, Step(in), CheckMiss(in)
    PROVE  \E v \in Registers : CheckMissDone(in, v)
<1> USE DEF CheckMissDone
<1> DEFINE y == Latched(in)
           st == IF IsStore /\ IsRelease THEN "Idle" ELSE "TranslateAddress"
           v == [y EXCEPT !.state = st]
<1>1. y \in Registers /\ Latching(in, y) /\ ~rd.invalidate /\ BusWaits
  BY StepFacts DEF CheckMiss
<1>2. Clocked(in, v, NoLineAccess) /\ st \in States
  BY DEF CheckMiss, States
<1>3. CoreWaits
  BY QuietResp, QuietCore DEF CheckMiss, Step, ReqReady, ReadyNow
<1> HIDE DEF y, st
<1>4. /\ v \in Registers /\ ReqKept(v) /\ MemKept(v) /\ WritesKept(v) /\ FlushLatched(in, v) /\ LineKept(v)
      /\ v.mem_valid = r.mem_valid /\ v.state = st
  BY <1>1, <1>2 DEF Registers, Latching, ReqKept, MemKept, WritesKept, FlushLatched, LineKept
<1> HIDE DEF v
<1>5. Taken(v) /\ PortRests /\ RamKept
  BY <1>1, <1>2, <1>4, PlainClock
<1> QED BY <1>1, <1>3, <1>4, <1>5 DEF st

\* TranslateFault: the access is refused
TranslateFaultDone(in, v) ==
    /\ Taken(v) /\ PortRests /\ RamKept /\ CoreWaits /\ BusWaits
    /\ ReqKept(v) /\ MemKept(v) /\ WritesKept(v) /\ FlushLatched(in, v)
    /\ v.mem_valid = r.mem_valid /\ v.load_fault /\ v.state = "CheckResp"

\* the action implies it
LEMMA TranslateFaultEffect ==
    ASSUME ControlInv, NEW in \in Ins, Step(in), TranslateFault(in)
    PROVE  \E v \in Registers : TranslateFaultDone(in, v)
<1> USE DEF TranslateFaultDone
<1> DEFINE y == Latched(in)
           v == [y EXCEPT !.load_fault = TRUE, !.line_i = ZeroLine, !.state = "CheckResp"]
<1>1. y \in Registers /\ Latching(in, y) /\ ~rd.invalidate /\ BusWaits /\ CoreWaits
  BY StepFacts DEF TranslateFault
<1>2. Clocked(in, v, NoLineAccess) /\ ZeroLine \in Line /\ "CheckResp" \in States
  BY DataAssumption DEF TranslateFault, ZeroLine, Line, States
<1> HIDE DEF y
<1>4. /\ v \in Registers /\ ReqKept(v) /\ MemKept(v) /\ WritesKept(v) /\ FlushLatched(in, v)
      /\ v.mem_valid = r.mem_valid /\ v.load_fault /\ v.state = "CheckResp"
  BY <1>1, <1>2 DEF Registers, Latching, ReqKept, MemKept, WritesKept, FlushLatched
<1> HIDE DEF v
<1> QED BY <1>1, <1>2, <1>4, PlainClock

\* TranslateCached: a request for the bus is made, and Out.data kept for it
TranslateCachedDone(in, v) ==
    /\ Taken(v) /\ PortRests /\ RamKept /\ CoreWaits /\ BusWaits
    /\ ReqKept(v) /\ FlushLatched(in, v)
    /\ v.write_flush = r.write_flush /\ v.write_share = r.write_share
    /\ v.mem_valid /\ ~v.load_fault /\ v.state = "WaitGrant"
    /\ v.mem_type = CachedRequest.type /\ v.mem_addr = CachedRequest.addr
    /\ v.write_first <=> (r.write_first \/ CachedRequest.first)
    /\ v.line_o = Out.data

\* the action implies it
LEMMA TranslateCachedEffect ==
    ASSUME ControlInv, NEW in \in Ins, Step(in), TranslateCached(in)
    PROVE  \E v \in Registers : TranslateCachedDone(in, v)
<1> USE DEF TranslateCachedDone
<1> DEFINE y == Latched(in)
           k == CachedRequest
           wf == y.write_first \/ k.first
           v == [y EXCEPT !.mem_valid = TRUE, !.load_fault = FALSE,
                        !.mem_type = k.type, !.mem_addr = k.addr,
                        !.write_first = wf,
                        !.line_o = Out.data, !.line_i = ZeroLine,
                        !.state = "WaitGrant"]
<1>1. y \in Registers /\ Latching(in, y) /\ ~rd.invalidate /\ BusWaits /\ CoreWaits
      /\ r \in Registers
  BY StepFacts DEF TranslateCached
<1>2. Clocked(in, v, NoLineAccess) /\ ZeroLine \in Line /\ "WaitGrant" \in States
  BY DataAssumption DEF TranslateCached, ZeroLine, Line, States
<1>3. HitIdx \in Way /\ rd.addr.set \in Sets
  BY StepFacts, HitFacts DEF TagTypeOK, ReadRegisters, Addr
<1>4. Out \in Entry
  BY <1>3, StepFacts DEF Out, TagTypeOK
<1>5. Out.data \in Line /\ RAddr \in Addr /\ LineAddr(r.req_addr) \in Addr
  BY <1>1, <1>3, <1>4, Bounds, DataAssumption DEF Entry, RAddr, Addr, LineAddr, Registers
<1>6. k.type \in MemTypes /\ k.addr \in Addr /\ k.first \in BOOLEAN
  <2>1. CASE r.write_share
    BY <1>5, <2>1 DEF CachedRequest, MemTypes
  <2>2. CASE ~r.write_share /\ {"VALID", "DIRTY"} \subseteq Out.flags
    BY <1>5, <2>2 DEF CachedRequest, MemTypes
  <2>3. CASE ~r.write_share /\ ~({"VALID", "DIRTY"} \subseteq Out.flags)
    BY <1>5, <2>3 DEF CachedRequest, MemTypes
  <2> QED BY <2>1, <2>2, <2>3
<1>8. wf \in BOOLEAN /\ (wf <=> (r.write_first \/ k.first))
  BY <1>1, <1>6 DEF Latching, WritesKept
<1> HIDE DEF y, k, wf
<1>7. /\ v \in Registers /\ ReqKept(v) /\ FlushLatched(in, v)
      /\ v.write_flush = r.write_flush /\ v.write_share = r.write_share
      /\ v.mem_valid /\ ~v.load_fault /\ v.state = "WaitGrant"
      /\ v.mem_type = k.type /\ v.mem_addr = k.addr
      /\ v.write_first = wf
      /\ v.line_o = Out.data
  <2>1. v \in Registers
    BY <1>1, <1>2, <1>5, <1>6, <1>8, ZenonT(60) DEF Registers
  <2>2. ReqKept(v) /\ FlushLatched(in, v)
    BY <1>1 DEF Registers, Latching, ReqKept, FlushLatched
  <2>3. /\ v.write_flush = r.write_flush /\ v.write_share = r.write_share
        /\ v.mem_valid /\ ~v.load_fault /\ v.state = "WaitGrant"
        /\ v.mem_type = k.type /\ v.mem_addr = k.addr
        /\ v.write_first = wf
        /\ v.line_o = Out.data
    BY <1>1 DEF Registers, Latching, WritesKept
  <2> QED BY <2>1, <2>2, <2>3
<1> HIDE DEF v
<1> QED BY <1>1, <1>2, <1>7, <1>8, PlainClock DEF k

\* TranslateUncached: one word is asked for, or given away
TranslateUncachedDone(in, v) ==
    /\ Taken(v) /\ PortRests /\ RamKept /\ CoreWaits /\ BusWaits
    /\ ReqKept(v) /\ WritesKept(v) /\ FlushLatched(in, v)
    /\ v.mem_valid /\ ~v.load_fault /\ v.state = "WaitGrant"
    /\ v.mem_type = IF IsStore THEN "WriteNoSnoop" ELSE "ReadNoSnoop"
    /\ v.mem_addr = r.req_addr /\ v.line_o[0] = r.req_wdata

\* the action implies it
LEMMA TranslateUncachedEffect ==
    ASSUME ControlInv, NEW in \in Ins, Step(in), TranslateUncached(in)
    PROVE  \E v \in Registers : TranslateUncachedDone(in, v)
<1> USE DEF TranslateUncachedDone
<1> DEFINE y == Latched(in)
           k == IF IsStore THEN "WriteNoSnoop" ELSE "ReadNoSnoop"
           z == ZeroExtended(r.req_wdata)
           v == [y EXCEPT !.mem_valid = TRUE, !.load_fault = FALSE,
                        !.mem_type = k, !.mem_addr = r.req_addr,
                        !.line_o = z, !.line_i = ZeroLine,
                        !.state = "WaitGrant"]
<1>1. y \in Registers /\ Latching(in, y) /\ ~rd.invalidate /\ BusWaits /\ CoreWaits
      /\ r \in Registers
  BY StepFacts DEF TranslateUncached
<1>2. Clocked(in, v, NoLineAccess) /\ ZeroLine \in Line /\ "WaitGrant" \in States
      /\ k \in MemTypes
  BY DataAssumption DEF TranslateUncached, ZeroLine, Line, States, MemTypes
<1>3. r.req_wdata \in Values /\ r.req_addr \in Addr
  BY <1>1 DEF Registers
<1>4. z \in Line /\ z[0] = r.req_wdata
  BY <1>3, DataAssumption DEF ZeroExtended, Line
<1> HIDE DEF y, k, z
<1>7. /\ v \in Registers /\ ReqKept(v) /\ WritesKept(v) /\ FlushLatched(in, v)
      /\ v.mem_valid /\ ~v.load_fault /\ v.state = "WaitGrant"
      /\ v.mem_type = k /\ v.mem_addr = r.req_addr
      /\ v.line_o = z
  BY <1>1, <1>2, <1>3, <1>4, ZenonT(60)
    DEF Registers, Latching, ReqKept, WritesKept, FlushLatched
<1> HIDE DEF v
<1> QED BY <1>1, <1>2, <1>4, <1>7, PlainClock DEF k

\* WaitResp: the line or the word is there, or still awaited
WaitRespDone(in, v) ==
    /\ Taken(v) /\ PortRests /\ RamKept /\ CoreWaits
    /\ ReqKept(v) /\ MemKept(v) /\ WritesKept(v) /\ FlushLatched(in, v)
    /\ v.mem_valid = r.mem_valid
    /\ \/ BusWaits /\ v.state = "WaitResp" /\ LineKept(v)
       \/ /\ in.mem # None /\ bus # None /\ in.mem = Answer /\ bus' = None
          /\ v.state = "CheckResp" /\ v.line_i = in.mem.data
          /\ v.load_fault <=> (r.load_fault \/ in.mem.fault)

\* the action implies it
LEMMA WaitRespEffect ==
    ASSUME ControlInv, NEW in \in Ins, Step(in), WaitResp(in)
    PROVE  \E v \in Registers : WaitRespDone(in, v)
<1> USE DEF WaitRespDone
<1> DEFINE y == Latched(in)
           v == IF in.mem = None THEN y
                ELSE [y EXCEPT !.line_i = in.mem.data, !.load_fault = @ \/ in.mem.fault,
                               !.state = "CheckResp"]
<1>1. y \in Registers /\ Latching(in, y) /\ ~rd.invalidate /\ CoreWaits
      /\ r \in Registers /\ r.state = "WaitResp" /\ ~r.mem_valid
      /\ (in.mem = None => BusWaits)
  BY StepFacts DEF WaitResp, ControlInv, FlagsInv
<1>2. in.snoop = None /\ (in.mem # None => in.mem = Answer /\ bus # None /\ in.mem \in Replies)
  BY InFacts DEF ControlInv
<1>3. Clocked(in, v, NoLineAccess) /\ "CheckResp" \in States
  BY <1>2 DEF WaitResp, SnoopData, States
<1>4. in.mem # None => in.mem.data \in Line /\ in.mem.fault \in BOOLEAN /\ bus' = None
  BY <1>1, <1>2 DEF Replies, Step, Bus
<1> HIDE DEF y
<1>5. /\ v \in Registers /\ ReqKept(v) /\ MemKept(v) /\ WritesKept(v) /\ FlushLatched(in, v)
      /\ v.mem_valid = r.mem_valid
      /\ IF in.mem = None THEN v.state = "WaitResp" /\ LineKept(v)
         ELSE /\ v.state = "CheckResp" /\ v.line_i = in.mem.data
              /\ v.load_fault <=> (r.load_fault \/ in.mem.fault)
  <2> USE <1>1, <1>3, <1>4 DEF Latching, ReqKept, MemKept, WritesKept, FlushLatched, LineKept
  <2>1. CASE in.mem # None
    BY <2>1, ZenonT(60) DEF Registers
  <2>2. CASE in.mem = None
    BY <2>2
  <2> QED BY <2>1, <2>2
<1> HIDE DEF v
<1>6. Taken(v) /\ PortRests /\ RamKept
  BY <1>1, <1>3, <1>5, PlainClock
<1> QED BY <1>1, <1>2, <1>4, <1>5, <1>6

\* SetupReadAdr: the refilled line is looked up again
SetupReadAdrDone(in, v) ==
    /\ Taken(v) /\ PortRests /\ RamKept /\ CoreWaits /\ BusWaits
    /\ ReqKept(v) /\ MemKept(v) /\ WritesKept(v) /\ FlushLatched(in, v) /\ LineKept(v)
    /\ v.mem_valid = r.mem_valid /\ v.state = "CheckHit"

\* the action implies it
LEMMA SetupReadAdrEffect ==
    ASSUME ControlInv, NEW in \in Ins, Step(in), SetupReadAdr(in)
    PROVE  \E v \in Registers : SetupReadAdrDone(in, v)
<1> USE DEF SetupReadAdrDone
<1> DEFINE y == Latched(in)
           v == [y EXCEPT !.state = "CheckHit"]
<1>1. y \in Registers /\ Latching(in, y) /\ ~rd.invalidate /\ BusWaits /\ CoreWaits
  BY StepFacts DEF SetupReadAdr
<1>2. Clocked(in, v, NoLineAccess) /\ "CheckHit" \in States
  BY DEF SetupReadAdr, States
<1> HIDE DEF y
<1>4. /\ v \in Registers /\ ReqKept(v) /\ MemKept(v) /\ WritesKept(v) /\ FlushLatched(in, v) /\ LineKept(v)
      /\ v.mem_valid = r.mem_valid /\ v.state = "CheckHit"
  BY <1>1, <1>2 DEF Registers, Latching, ReqKept, MemKept, WritesKept, FlushLatched, LineKept
<1> HIDE DEF v
<1> QED BY <1>1, <1>2, <1>4, PlainClock

\* what the memory does with the request of the registers, and what it answers
MemWritten ==
    mem' = IF r.mem_addr.tag \in Faulty THEN mem
           ELSE IF r.mem_type = "WriteNoSnoop"
           THEN [mem EXCEPT ![At(r.mem_addr)][r.mem_addr.word] = r.line_o[0]]
           ELSE IF r.mem_type \in {"WriteBack", "WriteLineUnique"}
           THEN [mem EXCEPT ![At(r.mem_addr)] = r.line_o]
           ELSE mem
MemRead ==
    IF r.mem_type \in Fetches THEN mem[At(r.mem_addr)]
    ELSE IF r.mem_type = "ReadNoSnoop" THEN ZeroExtended(mem[At(r.mem_addr)][r.mem_addr.word])
    ELSE ZeroLine

\* The memory answers what the registers show: the request is still theirs.
LEMMA BusAnswer ==
    ASSUME ControlInv, NEW in \in Ins, Step(in), in.mem # None
    PROVE  /\ r.state \in {"WaitResp", "WriteBus"} /\ ~r.mem_valid
           /\ bus' = None /\ MemWritten
           /\ in.mem.data = MemRead /\ in.mem.data \in Line
           /\ in.mem.fault <=> r.mem_addr.tag \in Faulty
           /\ in.mem.fault \in BOOLEAN
<1>1. in.mem = Answer /\ bus # None /\ in.mem \in Replies
  BY InFacts DEF ControlInv
<1>2. /\ r.state \in {"WaitResp", "WriteBus"}
      /\ bus = [type |-> r.mem_type, addr |-> r.mem_addr, data |-> r.line_o]
  BY <1>1 DEF ControlInv, BusInv
<1>3. ~r.mem_valid
  BY <1>2 DEF ControlInv, FlagsInv
<1>4. bus.type = r.mem_type /\ bus.addr = r.mem_addr /\ bus.data = r.line_o
  BY <1>2
<1>5. bus' = None
  BY <1>3 DEF Step, Bus
<1>6. MemWritten
  BY <1>4 DEF Step, Bus, MemWritten
<1>7. in.mem.data = MemRead /\ (in.mem.fault <=> r.mem_addr.tag \in Faulty)
  <2>1. Answer = [data |-> MemRead, fault |-> r.mem_addr.tag \in Faulty]
    BY <1>4, Zenon DEF Answer, MemRead, Fetches
  <2>2. in.mem.data = MemRead
    BY <1>1, <2>1
  <2>3. in.mem.fault = (r.mem_addr.tag \in Faulty)
    BY <1>1, <2>1
  <2> QED BY <2>2, <2>3
<1> QED BY <1>1, <1>2, <1>3, <1>5, <1>6, <1>7 DEF Replies

\* the core is given the answer rsp
Answered(rsp) ==
    /\ resp' = Judge(rsp)
    /\ golden' = IF cpu # None /\ Stored(rsp)
                 THEN [golden EXCEPT ![At(cpu.addr)][cpu.addr.word] = cpu.wdata]
                 ELSE golden
    /\ linked' = IF cpu = None THEN linked
                 ELSE IF "Store" \in cpu.type THEN linked \ {At(cpu.addr)}
                 ELSE IF "Reserve" \in cpu.type /\ ~rsp.fault
                 THEN linked \cup {At(cpu.addr)} ELSE linked

\* An answer ends the request of the core, unless the next one is accepted with it.
LEMMA AnsweredCore ==
    ASSUME NEW in, Core(in), NEW rsp \in [data : Values \cup {0, 1}, fault : BOOLEAN], Resp(in) = rsp
    PROVE  /\ Answered(rsp)
           /\ in.req = None \/ ~ReqReady(in) => cpu' = None
<1>1. Resp(in) # None
  BY NoneAssumption
<1> QED BY <1>1 DEF Core, Answered

\* WriteBus: the write is acknowledged, or its answer still awaited
WriteBusDone(in, v) ==
    /\ Taken(v) /\ PortRests /\ RamKept
    /\ ReqKept(v) /\ FlushLatched(in, v) /\ LineKept(v)
    /\ v.write_flush = r.write_flush
    /\ \/ /\ BusWaits /\ CoreWaits /\ MemKept(v) /\ WritesKept(v)
          /\ v.state = "WriteBus" /\ v.mem_valid = r.mem_valid /\ v.flush_cnt = r.flush_cnt
       \/ /\ MemWritten /\ bus' = None /\ CoreWaits
          /\ r.write_share /\ v.state = "Idle" /\ ~v.write_share /\ ~v.mem_valid
          /\ v.write_first = r.write_first
       \/ /\ MemWritten /\ bus' = None /\ CoreWaits /\ MemKept(v) /\ WritesKept(v)
          /\ ~r.write_share /\ r.write_flush /\ v.state = "FlushAddr" /\ ~v.mem_valid
          /\ v.flush_cnt = r.flush_cnt
       \/ /\ MemWritten /\ bus' = None /\ CoreWaits
          /\ ~r.write_share /\ ~r.write_flush /\ r.write_first
          /\ v.state = "WaitGrant" /\ v.mem_valid /\ ~v.write_share /\ ~v.write_first
          /\ v.mem_addr = LineAddr(r.req_addr) /\ v.line_o = r.line_o
          /\ v.mem_type = IF IsStore THEN "ReadMakeUnique" ELSE "ReadShared"
       \/ /\ MemWritten /\ bus' = None /\ cpu' = None /\ ~Writes /\ WritesKept(v)
          /\ v.state = "Idle" /\ ~v.mem_valid
          /\ Answered([data |-> 0, fault |-> r.mem_addr.tag \in Faulty])

\* the action implies it
LEMMA WriteBusEffect ==
    ASSUME ControlInv, NEW in \in Ins, Step(in), WriteBus(in)
    PROVE  \E v \in Registers : WriteBusDone(in, v)
<1> USE DEF WriteBusDone
<1> DEFINE y == Latched(in)
           k == IF IsStore THEN "ReadMakeUnique" ELSE "ReadShared"
           v == IF in.mem = None THEN y ELSE
                IF r.write_share THEN [y EXCEPT !.write_share = FALSE, !.state = "Idle"]
                ELSE IF r.write_flush THEN [y EXCEPT !.state = "FlushAddr"]
                ELSE IF r.write_first
                THEN [y EXCEPT !.mem_addr = LineAddr(r.req_addr), !.mem_valid = TRUE,
                               !.write_first = FALSE, !.mem_type = k, !.state = "WaitGrant"]
                ELSE [y EXCEPT !.state = "Idle"]
<1>1. y \in Registers /\ Latching(in, y) /\ ~rd.invalidate
      /\ r \in Registers /\ r.state = "WriteBus" /\ ~r.mem_valid
      /\ (in.mem = None => BusWaits)
  BY StepFacts DEF WriteBus, ControlInv, FlagsInv
<1>2. in.snoop = None /\ in.req = None
  BY <1>1, InFacts DEF ControlInv, Listens
<1>3. Clocked(in, v, NoLineAccess) /\ k \in MemTypes /\ {"Idle", "FlushAddr", "WaitGrant"} \subseteq States
  BY <1>2 DEF WriteBus, SnoopData, States, MemTypes, WriteDone
<1>4. in.mem = None \/ Writes => CoreWaits
  BY <1>1, <1>2, QuietResp, QuietCore DEF Step
<1>5. in.mem # None => bus' = None /\ MemWritten
  BY BusAnswer
<1>6. in.mem # None /\ ~Writes => cpu' = None /\ Answered([data |-> 0, fault |-> r.mem_addr.tag \in Faulty])
  <2> SUFFICES ASSUME in.mem # None, ~Writes
               PROVE  cpu' = None /\ Answered([data |-> 0, fault |-> r.mem_addr.tag \in Faulty])
    OBVIOUS
  <2>1. in.mem.fault = (r.mem_addr.tag \in Faulty)
    BY BusAnswer
  <2>2. Resp(in) = [data |-> 0, fault |-> r.mem_addr.tag \in Faulty]
    BY <1>1, <2>1 DEF Resp, Writes
  <2>3. [data |-> 0, fault |-> r.mem_addr.tag \in Faulty] \in [data : Values \cup {0, 1}, fault : BOOLEAN]
    BY DataAssumption
  <2> QED BY <1>2, <2>2, <2>3, AnsweredCore DEF Step
<1>7. LineAddr(r.req_addr) \in Addr
  BY <1>1, Bounds, DataAssumption DEF LineAddr, Registers, Addr
<1> HIDE DEF y, k
<1>8. CASE in.mem = None
  <2>1. v \in Registers /\ Latching(in, v)
    BY <1>1, <1>8
  <2> HIDE DEF v
  <2>2. Taken(v) /\ PortRests /\ RamKept
    BY <1>1, <1>3, <2>1, PlainClock
  <2> QED BY <1>1, <1>4, <1>8, <2>1, <2>2 DEF Latching, WritesKept
<1>9. CASE in.mem # None /\ r.write_share
  <2>1. v \in Registers /\ ReqKept(v) /\ FlushLatched(in, v) /\ LineKept(v)
        /\ v.state = "Idle" /\ ~v.write_share /\ ~v.mem_valid
        /\ v.write_first = r.write_first /\ v.write_flush = r.write_flush
    BY <1>1, <1>3, <1>9, ZenonT(60)
      DEF Latching, Registers, ReqKept, FlushLatched, LineKept, WritesKept
  <2> HIDE DEF v
  <2>2. Taken(v) /\ PortRests /\ RamKept
    BY <1>1, <1>3, <2>1, PlainClock
  <2> QED BY <1>4, <1>5, <1>9, <2>1, <2>2 DEF Writes
<1>10. CASE in.mem # None /\ ~r.write_share /\ r.write_flush
  <2>1. v \in Registers /\ ReqKept(v) /\ FlushLatched(in, v) /\ LineKept(v) /\ MemKept(v)
        /\ v.state = "FlushAddr" /\ ~v.mem_valid /\ WritesKept(v) /\ v.flush_cnt = r.flush_cnt
    BY <1>1, <1>3, <1>10, ZenonT(60)
      DEF Latching, Registers, ReqKept, FlushLatched, LineKept, WritesKept, MemKept
  <2> HIDE DEF v
  <2>2. Taken(v) /\ PortRests /\ RamKept
    BY <1>1, <1>3, <2>1, PlainClock
  <2> QED BY <1>4, <1>5, <1>10, <2>1, <2>2 DEF Writes, WritesKept
<1>11. CASE in.mem # None /\ ~r.write_share /\ ~r.write_flush /\ r.write_first
  <2>1. v \in Registers /\ ReqKept(v) /\ FlushLatched(in, v) /\ LineKept(v)
        /\ v.state = "WaitGrant" /\ v.mem_valid /\ ~v.write_share /\ ~v.write_first
        /\ v.write_flush = r.write_flush
        /\ v.mem_addr = LineAddr(r.req_addr) /\ v.line_o = r.line_o /\ v.mem_type = k
    BY <1>1, <1>3, <1>7, <1>11, ZenonT(60)
      DEF Latching, Registers, ReqKept, FlushLatched, LineKept, WritesKept, MemKept
  <2> HIDE DEF v
  <2>2. Taken(v) /\ PortRests /\ RamKept
    BY <1>1, <1>3, <2>1, PlainClock
  <2> QED BY <1>4, <1>5, <1>11, <2>1, <2>2 DEF Writes, k
<1>12. CASE in.mem # None /\ ~Writes
  <2>1. v \in Registers /\ ReqKept(v) /\ FlushLatched(in, v) /\ LineKept(v)
        /\ v.state = "Idle" /\ ~v.mem_valid /\ WritesKept(v)
    BY <1>1, <1>3, <1>12 DEF Latching, Registers, ReqKept, FlushLatched, LineKept, WritesKept, Writes
  <2> HIDE DEF v
  <2>2. Taken(v) /\ PortRests /\ RamKept
    BY <1>1, <1>3, <2>1, PlainClock
  <2> QED BY <1>5, <1>6, <1>12, <2>1, <2>2 DEF WritesKept
<1> QED BY <1>8, <1>9, <1>10, <1>11, <1>12 DEF Writes

\* CheckRespDirect: the word, or the refusal, goes to the core
CheckRespDirectDone(in, v) ==
    /\ Taken(v) /\ PortRests /\ RamKept /\ BusWaits
    /\ ReqKept(v) /\ WritesKept(v) /\ FlushLatched(in, v) /\ LineKept(v)
    /\ v.mem_valid = r.mem_valid /\ v.state = "Idle"
    /\ cpu' = None /\ Answered([data |-> r.line_i[0], fault |-> r.load_fault])

\* the action implies it
LEMMA CheckRespDirectEffect ==
    ASSUME ControlInv, NEW in \in Ins, Step(in), CheckRespDirect(in)
    PROVE  \E v \in Registers : CheckRespDirectDone(in, v)
<1> USE DEF CheckRespDirectDone
<1> DEFINE y == Latched(in)
           v == [y EXCEPT !.state = "Idle"]
<1>1. y \in Registers /\ Latching(in, y) /\ ~rd.invalidate /\ BusWaits /\ r \in Registers
      /\ r.state = "CheckResp"
  BY StepFacts DEF CheckRespDirect
<1>2. Clocked(in, v, NoLineAccess) /\ "Idle" \in States
  BY DEF CheckRespDirect, States
<1>3. cpu' = None /\ Answered([data |-> r.line_i[0], fault |-> r.load_fault])
  <2>1. in.req = None
    BY <1>1, InFacts DEF ControlInv, Listens
  <2>2. Resp(in) = [data |-> r.line_i[0], fault |-> r.load_fault]
    BY <1>1 DEF Resp, CheckRespDirect
  <2>3. [data |-> r.line_i[0], fault |-> r.load_fault] \in [data : Values \cup {0, 1}, fault : BOOLEAN]
    BY <1>1, DataAssumption DEF Registers, Line
  <2> QED BY <2>1, <2>2, <2>3, AnsweredCore DEF Step
<1> HIDE DEF y
<1>4. /\ v \in Registers /\ ReqKept(v) /\ WritesKept(v) /\ FlushLatched(in, v) /\ LineKept(v)
      /\ v.mem_valid = r.mem_valid /\ v.state = "Idle"
  BY <1>1, <1>2 DEF Registers, Latching, ReqKept, WritesKept, FlushLatched, LineKept
<1> HIDE DEF v
<1> QED BY <1>1, <1>2, <1>3, <1>4, PlainClock

\* the next position of the sweep is an address
LEMMA NextAddr == ASSUME r \in Registers PROVE AddrDirectNext \in Addr
<1>1. r.req_addr \in Addr /\ r.req_addr.way \in Way /\ r.req_addr.set \in Sets
  BY DEF Registers, Addr
<1>2. (r.req_addr.set + 1) % NSets \in Sets
  BY <1>1, NWayAssumption DEF Sets
<1>3. r.req_addr.way # Ways - 1 => r.req_addr.way + 1 \in Way
  BY <1>1, NWayAssumption DEF Way
<1>4. 0 \in Way /\ 0 \in Words
  BY Bounds, DataAssumption
<1> DEFINE s == (r.req_addr.set + 1) % NSets
           u == r.req_addr.way + 1
           a == r.req_addr
<1>5. CASE a.way = Ways - 1
  <2>1. AddrDirectNext = [a EXCEPT !.way = 0, !.word = 0, !.set = s]
    BY <1>5 DEF AddrDirectNext
  <2> HIDE DEF s, a
  <2> QED BY <1>1, <1>2, <1>4, <2>1 DEF Addr, s, a
<1>6. CASE a.way # Ways - 1
  <2>1. AddrDirectNext = [a EXCEPT !.way = u]
    BY <1>6 DEF AddrDirectNext
  <2> QED BY <1>1, <1>3, <1>6, <2>1 DEF Addr
<1> QED BY <1>5, <1>6

\* FlushAddr: the position of the sweep is given to the tag memory
FlushAddrDone(in, v) ==
    /\ Taken(v) /\ CoreWaits /\ BusWaits /\ ram' = ram /\ TagTypeOK'
    /\ rd'.direct /\ rd'.invalidate /\ rd'.addr = r.req_addr
    /\ ReqKept(v) /\ MemKept(v) /\ FlushLatched(in, v)
    /\ v.write_first = r.write_first /\ v.write_share = r.write_share /\ ~v.write_flush
    /\ v.load_fault = r.load_fault /\ v.mem_valid = r.mem_valid /\ v.state = "FlushCheck"
    /\ v.flush_cnt = r.flush_cnt

\* the action implies it
LEMMA FlushAddrEffect ==
    ASSUME ControlInv, NEW in \in Ins, Step(in), FlushAddr(in)
    PROVE  \E v \in Registers : FlushAddrDone(in, v)
<1> USE DEF FlushAddrDone
<1> DEFINE y == Latched(in)
           v == [y EXCEPT !.write_flush = FALSE, !.line_i = ZeroLine, !.state = "FlushCheck"]
           c == [NoLineAccess EXCEPT !.direct = r.req_flush_all, !.invalidate = TRUE]
<1>1. y \in Registers /\ Latching(in, y) /\ ~rd.invalidate /\ BusWaits /\ CoreWaits
      /\ r.req_flush_all = TRUE /\ r \in Registers
  BY StepFacts DEF FlushAddr, ControlInv, FlagsInv, Registers
<1>2. Clocked(in, v, c) /\ "FlushCheck" \in States /\ ZeroLine \in Line
  BY DataAssumption DEF FlushAddr, States, ZeroLine, Line
<1> HIDE DEF y
<1>3. /\ v \in Registers /\ ReqKept(v) /\ MemKept(v) /\ FlushLatched(in, v)
      /\ v.write_first = r.write_first /\ v.write_share = r.write_share /\ ~v.write_flush
      /\ v.load_fault = r.load_fault /\ v.mem_valid = r.mem_valid /\ v.state = "FlushCheck"
      /\ v.flush_cnt = r.flush_cnt
  BY <1>1, <1>2, ZenonT(60)
    DEF Registers, Latching, ReqKept, MemKept, WritesKept, FlushLatched, LineKept
<1>4. c \in Controls /\ c.direct /\ c.invalidate /\ ~c.we /\ c.addr = r.req_addr
  BY <1>1, ControlTypes DEF Controls, NoLineAccess
<1> HIDE DEF v, c
<1>5. Taken(v) /\ TagEffect(c)
  BY <1>2, <1>3, <1>4, LineClock
<1> QED BY <1>1, <1>3, <1>4, <1>5 DEF TagEffect

\* Reset: the same for the sweep after reset
ResetDone(in, v) ==
    /\ Taken(v) /\ CoreWaits /\ BusWaits /\ ram' = ram /\ TagTypeOK'
    /\ rd'.direct /\ rd'.invalidate /\ rd'.addr = r.req_addr
    /\ ReqKept(v) /\ MemKept(v) /\ WritesKept(v) /\ LineKept(v)
    /\ v.req_flush => in.flush \/ r.req_flush
    /\ r.req_flush => ~v.req_flush
    /\ v.req_flush_all <=> (in.flush \/ r.req_flush_all)
    /\ v.mem_valid = r.mem_valid /\ v.state = "ResetWrite"

\* the action implies it
LEMMA ResetEffect ==
    ASSUME ControlInv, NEW in \in Ins, Step(in), Reset(in)
    PROVE  \E v \in Registers : ResetDone(in, v)
<1> USE DEF ResetDone
<1> DEFINE y == Latched(in)
           f == IF r.req_flush THEN FALSE ELSE y.req_flush
           n == IF r.req_flush THEN FLUSH_ALL_VALUE ELSE y.flush_cnt
           v == [y EXCEPT !.req_flush = f, !.flush_cnt = n, !.state = "ResetWrite"]
           c == [NoLineAccess EXCEPT !.direct = TRUE, !.invalidate = TRUE]
<1>1. y \in Registers /\ Latching(in, y) /\ ~rd.invalidate /\ BusWaits /\ CoreWaits
      /\ r \in Registers
  BY StepFacts DEF Reset
<1>2. Clocked(in, v, c) /\ "ResetWrite" \in States
  BY DEF Reset, States
<1>3. FLUSH_ALL_VALUE \in 0 .. FLUSH_ALL_VALUE
  <2>1. NSets * Ways \in Nat /\ NSets * Ways >= 1
    BY NWayAssumption, SMT
  <2> QED BY <2>1 DEF FLUSH_ALL_VALUE
<1>4. /\ f \in BOOLEAN /\ n \in 0 .. FLUSH_ALL_VALUE
      /\ (f => in.flush \/ r.req_flush) /\ (r.req_flush => ~f)
  BY <1>1, <1>3 DEF Registers, Latching, FlushLatched
<1> HIDE DEF y, f, n
<1>5. /\ v \in Registers /\ ReqKept(v) /\ MemKept(v) /\ WritesKept(v) /\ LineKept(v)
      /\ v.req_flush = f /\ (v.req_flush_all <=> (in.flush \/ r.req_flush_all))
      /\ v.mem_valid = r.mem_valid /\ v.state = "ResetWrite"
  BY <1>1, <1>2, <1>4, ZenonT(60)
  DEF Registers, Latching, ReqKept, MemKept, WritesKept, FlushLatched, LineKept
<1>6. c \in Controls /\ c.direct /\ c.invalidate /\ ~c.we /\ c.addr = r.req_addr
  BY <1>1, ControlTypes DEF Controls, NoLineAccess
<1> HIDE DEF v, c
<1>7. Taken(v) /\ TagEffect(c)
  BY <1>2, <1>5, <1>6, LineClock
<1> QED BY <1>1, <1>4, <1>5, <1>6, <1>7 DEF TagEffect

\* the line at the position of the sweep is dropped
Dropped == \E d \in Line : Rewritten(r.req_addr.set, r.req_addr.way,
                                     [tag |-> r.req_addr.tag, flags |-> {}, data |-> d])

\* ResetWrite: the line at the position of the sweep is dropped
ResetWriteDone(in, v) ==
    /\ Taken(v) /\ CoreWaits /\ BusWaits /\ TagTypeOK' /\ Dropped
    /\ ~rd'.invalidate
    /\ WritesKept(v) /\ LineKept(v) /\ FlushLatched(in, v) /\ MemKept(v)
    /\ v.mem_valid = r.mem_valid /\ v.state \in {"Idle", "Reset"}
    /\ v.req_type = r.req_type

\* the action implies it
LEMMA ResetWriteEffect ==
    ASSUME ControlInv, NEW in \in Ins, Step(in), ResetWrite(in)
    PROVE  \E v \in Registers : ResetWriteDone(in, v)
<1> USE DEF ResetWriteDone
<1> DEFINE y == Latched(in)
           v == IF r.flush_cnt = 0 THEN [y EXCEPT !.state = "Idle"]
                ELSE [y EXCEPT !.flush_cnt = @ - 1, !.req_addr = AddrDirectNext, !.state = "Reset"]
           c == [NoLineAccess EXCEPT !.direct = TRUE, !.we = TRUE]
<1>1. y \in Registers /\ Latching(in, y) /\ BusWaits /\ CoreWaits
      /\ r \in Registers /\ rd.invalidate /\ rd.direct /\ rd.addr = r.req_addr /\ TagTypeOK /\ NoAlias
  BY StepFacts DEF ResetWrite, ControlInv, PortInv
<1>2. Clocked(in, v, c) /\ {"Idle", "Reset"} \subseteq States
  BY DEF ResetWrite, States
<1>3. AddrDirectNext \in Addr
  BY <1>1, NextAddr
<1>4. r.flush_cnt # 0 => y.flush_cnt - 1 \in 0 .. FLUSH_ALL_VALUE
  <2>1. NSets * Ways \in Nat /\ NSets * Ways >= 1
    BY NWayAssumption, SMT
  <2>2. y.flush_cnt = r.flush_cnt /\ r.flush_cnt \in 0 .. FLUSH_ALL_VALUE
    BY <1>1 DEF Latching, Registers
  <2> QED BY <2>1, <2>2 DEF FLUSH_ALL_VALUE
<1> HIDE DEF y
<1>5. /\ v \in Registers /\ WritesKept(v) /\ LineKept(v) /\ FlushLatched(in, v) /\ MemKept(v)
      /\ v.mem_valid = r.mem_valid /\ v.state \in {"Idle", "Reset"} /\ v.req_type = r.req_type
  <2> USE <1>1, <1>2, <1>3, <1>4 DEF Latching, ReqKept, MemKept, WritesKept, FlushLatched, LineKept
  <2>1. CASE r.flush_cnt = 0
    BY <2>1 DEF Registers
  <2>2. CASE r.flush_cnt # 0
    BY <2>2 DEF Registers
  <2> QED BY <2>1, <2>2
<1>6. c \in Controls /\ ~c.invalidate /\ c.we /\ c.addr = r.req_addr
  BY <1>1, ControlTypes DEF Controls, NoLineAccess
<1> HIDE DEF v, c
<1>7. Taken(v) /\ TagEffect(c)
  BY <1>2, <1>5, <1>6, LineClock
<1>8. HitIdx = r.req_addr.way
  BY <1>1, HitFacts
<1> QED BY <1>1, <1>5, <1>6, <1>7, <1>8 DEF TagEffect, Dropped

\* FlushCheck: the line is dropped; a dirty one goes to the memory first
FlushCheckDone(in, v) ==
    /\ Taken(v) /\ CoreWaits /\ BusWaits /\ TagTypeOK' /\ Dropped
    /\ ~rd'.invalidate
    /\ FlushLatched(in, v) /\ LineKept(v)
    /\ v.write_first = r.write_first /\ v.write_share = r.write_share
    /\ v.req_addr = IF r.flush_cnt = 0 THEN r.req_addr ELSE AddrDirectNext
    /\ v.flush_cnt = IF r.flush_cnt = 0 THEN 0 ELSE r.flush_cnt - 1
    /\ IF FlushDirty
       THEN /\ v.write_flush /\ v.mem_valid /\ v.mem_type = "WriteBack"
            /\ v.mem_addr = RAddr /\ v.line_o = Out.data /\ v.state = "WaitGrant"
       ELSE /\ v.write_flush = r.write_flush /\ v.mem_valid = r.mem_valid
            /\ v.state = IF FlushEnd THEN "Idle" ELSE "FlushAddr"

\* the action implies it
LEMMA FlushCheckEffect ==
    ASSUME ControlInv, NEW in \in Ins, Step(in), FlushCheck(in)
    PROVE  \E v \in Registers : FlushCheckDone(in, v)
<1> USE DEF FlushCheckDone
<1> DEFINE y == Latched(in)
           n == IF r.flush_cnt = 0 THEN 0 ELSE r.flush_cnt - 1
           a == IF r.flush_cnt = 0 THEN r.req_addr ELSE AddrDirectNext
           o == Out.data
           z == [y EXCEPT !.line_o = o, !.flush_cnt = n, !.req_addr = a]
           st == IF FlushEnd THEN "Idle" ELSE "FlushAddr"
           v == IF FlushDirty
                THEN [z EXCEPT !.write_flush = TRUE, !.mem_addr = RAddr,
                               !.mem_valid = TRUE, !.mem_type = "WriteBack",
                               !.state = "WaitGrant"]
                ELSE [z EXCEPT !.state = st]
           c == [NoLineAccess EXCEPT !.direct = r.req_flush_all, !.we = r.req_flush_all]
<1>1. y \in Registers /\ Latching(in, y) /\ BusWaits /\ CoreWaits
      /\ r \in Registers /\ rd.invalidate /\ rd.direct /\ rd.addr = r.req_addr /\ TagTypeOK /\ NoAlias
      /\ r.req_flush_all = TRUE
  BY StepFacts DEF FlushCheck, ControlInv, PortInv, FlagsInv, Registers
<1>2. y.flush_cnt = r.flush_cnt /\ y.req_addr = r.req_addr
  BY <1>1 DEF Latching, ReqKept
<1>3. Clocked(in, v, c) /\ st \in States /\ "WaitGrant" \in States /\ "WriteBack" \in MemTypes
  BY <1>2 DEF FlushCheck, States, MemTypes
<1>4. a \in Addr /\ n \in 0 .. FLUSH_ALL_VALUE
  <2>1. NSets * Ways \in Nat /\ NSets * Ways >= 1
    BY NWayAssumption, SMT
  <2>2. r.flush_cnt \in 0 .. FLUSH_ALL_VALUE /\ r.req_addr \in Addr /\ AddrDirectNext \in Addr
    BY <1>1, NextAddr DEF Registers
  <2>3. n \in 0 .. FLUSH_ALL_VALUE
    BY <2>1, <2>2 DEF FLUSH_ALL_VALUE
  <2> QED BY <2>2, <2>3
<1>5. HitIdx \in Way /\ rd.addr.set \in Sets /\ HitIdx = r.req_addr.way
  BY <1>1, HitFacts DEF TagTypeOK, ReadRegisters, Addr
<1>6. Out \in Entry
  BY <1>5, <1>1 DEF Out, TagTypeOK
<1>7. o \in Line /\ RAddr \in Addr
  BY <1>5, <1>6, Bounds, DataAssumption DEF Entry, RAddr, Addr
<1> HIDE DEF y, n, a, o, st
<1>8. /\ z \in Registers /\ FlushLatched(in, z) /\ LineKept(z) /\ WritesKept(z)
      /\ z.req_addr = a /\ z.flush_cnt = n /\ z.line_o = o /\ z.mem_valid = r.mem_valid
  BY <1>1, <1>4, <1>7 DEF Registers, Latching, FlushLatched, LineKept, WritesKept
<1> HIDE DEF z
<1>9. /\ v \in Registers /\ FlushLatched(in, v) /\ LineKept(v)
      /\ v.write_first = r.write_first /\ v.write_share = r.write_share
      /\ v.req_addr = a /\ v.flush_cnt = n
      /\ IF FlushDirty
         THEN /\ v.write_flush /\ v.mem_valid /\ v.mem_type = "WriteBack"
              /\ v.mem_addr = RAddr /\ v.line_o = o /\ v.state = "WaitGrant"
         ELSE /\ v.write_flush = r.write_flush /\ v.mem_valid = r.mem_valid /\ v.state = st
  <2>1. CASE FlushDirty
    BY <1>3, <1>7, <1>8, <2>1 DEF Registers, FlushLatched, LineKept, WritesKept
  <2>2. CASE ~FlushDirty
    BY <1>3, <1>8, <2>2 DEF Registers, FlushLatched, LineKept, WritesKept
  <2> QED BY <2>1, <2>2
<1>10. c \in Controls /\ ~c.invalidate /\ c.we /\ c.addr = r.req_addr
  BY <1>1, ControlTypes DEF Controls, NoLineAccess
<1> HIDE DEF v, c
<1>11. Taken(v) /\ TagEffect(c)
  BY <1>3, <1>9, <1>10, LineClock
<1>12. TagTypeOK' /\ Dropped /\ ~rd'.invalidate
  BY <1>1, <1>5, <1>10, <1>11 DEF TagEffect, Dropped
<1> QED BY <1>1, <1>9, <1>11, <1>12 DEF a, n, o, st

\* the line that was looked up is replaced
Replaced(flags, data) ==
    Rewritten(r.req_addr.set, HitIdx, [tag |-> r.req_addr.tag, flags |-> flags, data |-> data])

\* a write of a whole line
LEMMA WholeLine ==
    ASSUME r \in Registers, ~rd.invalidate, NEW f \in SUBSET Flags, NEW d \in Line,
           TagEffect(WriteLine(f, d, Words))
    PROVE  PortRests /\ Replaced(f, d)
<1> DEFINE c == WriteLine(f, d, Words)
<1>1. c \in Controls /\ ~c.direct /\ ~c.invalidate /\ ~c.re /\ c.we /\ c.addr = r.req_addr
      /\ c.wstrb = Words /\ c.wdata = d /\ c.wflags = f
  BY ControlTypes DEF Controls, WriteLine, NoLineAccess
<1>2. Words # {}
  BY DataAssumption
<1> HIDE DEF c
<1>3. TagEffect(c)
  BY DEF c
<1>4. Rewritten(r.req_addr.set, HitIdx,
                    [tag |-> r.req_addr.tag, flags |-> f,
                     data |-> [w \in Words |-> IF w \in Words THEN d[w]
                                              ELSE ram[r.req_addr.set][HitIdx].data[w]]])
  BY <1>1, <1>2, <1>3 DEF TagEffect
<1>5. [w \in Words |-> IF w \in Words THEN d[w] ELSE ram[r.req_addr.set][HitIdx].data[w]] = d
  BY DEF Line
<1> QED BY <1>1, <1>3, <1>4, <1>5 DEF TagEffect, PortRests, Replaced

\* the controls of a write of a line
LEMMA WriteLineType ==
    ASSUME r \in Registers, NEW f \in SUBSET Flags, NEW d \in Line, NEW strb \in SUBSET Words
    PROVE  WriteLine(f, d, strb) \in Controls
  BY ControlTypes DEF WriteLine, Controls

\* A line stays a line when a word of it is stored.
LEMMA ModifiedType ==
    ASSUME r \in Registers, NEW d \in Line
    PROVE  Modified(d) \in Line
  BY DEF Registers, Addr, Modified, Line

\* CheckRespFill: the line is there; a store is merged into it
CheckRespFillDone(in, v) ==
    /\ Taken(v) /\ PortRests /\ BusWaits
    /\ WritesKept(v) /\ FlushLatched(in, v) /\ LineKept(v)
    /\ v.mem_valid = r.mem_valid /\ v.req_addr = r.req_addr
    /\ IF IsStore
       THEN /\ v.state = "Idle" /\ Replaced({"VALID", "DIRTY"}, Modified(r.line_i))
            /\ cpu' = None /\ Answered([data |-> 0, fault |-> FALSE])
       ELSE /\ v.state = "SetupReadAdr" /\ ReqKept(v) /\ CoreWaits
            /\ Replaced({"VALID", "SHARED"} \cup
                        (IF IsReserve THEN {"RESERVED"} ELSE {}), r.line_i)

\* the action implies it
LEMMA CheckRespFillEffect ==
    ASSUME ControlInv, NEW in \in Ins, Step(in), CheckRespFill(in)
    PROVE  \E v \in Registers : CheckRespFillDone(in, v)
<1> USE DEF CheckRespFillDone
<1> DEFINE y == Latched(in)
           t == y.req_type \ {"Store"}
           v == IF IsStore THEN [y EXCEPT !.req_type = t, !.state = "Idle"]
                ELSE [y EXCEPT !.state = "SetupReadAdr"]
           f == IF IsStore THEN {"VALID", "DIRTY"}
                ELSE {"VALID", "SHARED"} \cup (IF IsReserve THEN {"RESERVED"} ELSE {})
           d == IF IsStore THEN Modified(r.line_i) ELSE r.line_i
           c == WriteLine(f, d, Words)
<1>1. y \in Registers /\ Latching(in, y) /\ BusWaits /\ ~rd.invalidate /\ r \in Registers
      /\ r.state = "CheckResp" /\ ~r.load_fault /\ CachedType(r.mem_type)
  BY StepFacts DEF CheckRespFill
<1>2. Clocked(in, v, c) /\ {"Idle", "SetupReadAdr"} \subseteq States
  BY DEF CheckRespFill, States, StoreFlags
<1>3. f \in SUBSET Flags /\ d \in Line /\ t \in MemopTypes
  <2>1. r.line_i \in Line /\ Modified(r.line_i) \in Line
    BY <1>1, ModifiedType DEF Registers
  <2>2. f \in SUBSET Flags
    BY DEF Flags
  <2>3. t \in MemopTypes
    BY <1>1 DEF Registers, MemopTypes
  <2> QED BY <2>1, <2>2, <2>3
<1>4. in.req = None
  BY <1>1, InFacts DEF ControlInv, Listens
<1>5. IsStore => cpu' = None /\ Answered([data |-> 0, fault |-> FALSE])
  <2>1. [data |-> 0, fault |-> FALSE] \in [data : Values \cup {0, 1}, fault : BOOLEAN]
    BY DataAssumption
  <2>2. IsStore => Resp(in) = [data |-> 0, fault |-> FALSE]
    BY <1>1 DEF Resp
  <2> QED BY <1>4, <2>1, <2>2, AnsweredCore DEF Step
<1>6. ~IsStore => CoreWaits
  BY <1>1, <1>4, QuietResp, QuietCore DEF Step
<1> HIDE DEF y, f, d, t
<1>7. /\ v \in Registers /\ WritesKept(v) /\ FlushLatched(in, v) /\ LineKept(v)
      /\ v.mem_valid = r.mem_valid /\ v.req_addr = r.req_addr
      /\ IsStore => v.state = "Idle"
      /\ ~IsStore => v.state = "SetupReadAdr" /\ ReqKept(v)
  <2> USE <1>1, <1>2, <1>3 DEF Latching, ReqKept, WritesKept, FlushLatched, LineKept
  <2>1. CASE IsStore
    BY <2>1 DEF Registers
  <2>2. CASE ~IsStore
    BY <2>2 DEF Registers
  <2> QED BY <2>1, <2>2
<1>8. c \in Controls
  BY <1>1, <1>3, WriteLineType
<1> HIDE DEF v
<1>9. Taken(v) /\ TagEffect(c)
  BY <1>2, <1>7, <1>8, LineClock
<1>10. PortRests /\ Replaced(f, d)
  BY <1>1, <1>3, <1>9, WholeLine
<1> QED BY <1>1, <1>5, <1>6, <1>7, <1>9, <1>10 DEF f, d

\* the entry that was looked up
LEMMA OutFacts ==
    ASSUME TagTypeOK, NoAlias
    PROVE  /\ Out \in Entry /\ Out.flags \in SUBSET Flags /\ Out.data \in Line /\ Out.tag \in Tags
           /\ HitIdx \in Way /\ rd.addr.set \in Sets
<1>1. HitIdx \in Way /\ rd.addr.set \in Sets
  BY HitFacts DEF TagTypeOK, ReadRegisters, Addr
<1>2. Out \in Entry
  BY <1>1 DEF TagTypeOK, Out
<1> QED BY <1>1, <1>2 DEF Entry

\* CheckHitReserve: the line is marked, and one word extended over it
CheckHitReserveDone(in, v) ==
    /\ Taken(v) /\ PortRests /\ BusWaits
    /\ WritesKept(v) /\ FlushLatched(in, v) /\ LineKept(v)
    /\ v.mem_valid = r.mem_valid /\ v.req_addr = r.req_addr /\ v.state = "Idle"
    /\ Replaced(Out.flags \cup {"RESERVED"}, ZeroExtended(CachedData))
    /\ cpu' = None /\ Answered([data |-> CachedData, fault |-> FALSE])

\* the action implies it
LEMMA CheckHitReserveEffect ==
    ASSUME ControlInv, NEW in \in Ins, Step(in), CheckHitReserve(in)
    PROVE  \E v \in Registers : CheckHitReserveDone(in, v)
<1> USE DEF CheckHitReserveDone
<1> DEFINE y == Latched(in)
           v == [y EXCEPT !.state = "Idle"]
           f == Out.flags \cup {"RESERVED"}
           d == ZeroExtended(CachedData)
           c == WriteLine(f, d, Words)
<1>1. y \in Registers /\ Latching(in, y) /\ BusWaits /\ ~rd.invalidate /\ r \in Registers
      /\ r.state = "CheckHit" /\ Hit /\ ~IsStore /\ IsReserve /\ TagTypeOK /\ NoAlias
  BY StepFacts DEF CheckHitReserve
<1>2. Clocked(in, v, c) /\ "Idle" \in States
  BY DEF CheckHitReserve, States
<1>3. CachedData \in Values
  BY <1>1, OutFacts DEF CachedData, Registers, Addr, Line
<1>4. f \in SUBSET Flags /\ d \in Line
  <2>1. f \in SUBSET Flags
    BY <1>1, OutFacts DEF Flags
  <2>2. d \in Line
    BY <1>3, DataAssumption DEF ZeroExtended, Line
  <2> QED BY <2>1, <2>2
<1>5. cpu' = None /\ Answered([data |-> CachedData, fault |-> FALSE])
  <2>1. [data |-> CachedData, fault |-> FALSE] \in [data : Values \cup {0, 1}, fault : BOOLEAN]
    BY <1>3
  <2>2. Resp(in) = [data |-> CachedData, fault |-> FALSE]
    BY <1>1 DEF Resp
  <2>3. ~ReqReady(in)
    BY <1>1 DEF ReqReady, ReadyNow
  <2> QED BY <2>1, <2>2, <2>3, AnsweredCore DEF Step
<1> HIDE DEF y, f, d
<1>6. /\ v \in Registers /\ WritesKept(v) /\ FlushLatched(in, v) /\ LineKept(v)
      /\ v.mem_valid = r.mem_valid /\ v.req_addr = r.req_addr /\ v.state = "Idle"
  BY <1>1, <1>2 DEF Registers, Latching, ReqKept, WritesKept, FlushLatched, LineKept
<1>7. c \in Controls
  BY <1>1, <1>4, WriteLineType
<1> HIDE DEF v
<1>8. Taken(v) /\ TagEffect(c)
  BY <1>2, <1>6, <1>7, LineClock
<1>9. PortRests /\ Replaced(f, d)
  BY <1>1, <1>4, <1>8, WholeLine
<1> QED BY <1>1, <1>5, <1>6, <1>8, <1>9 DEF f, d

\* v_ready_next: the registers v and controls k behind the tail of comb()
Accepts(in, v, k) ==
    \/ /\ r.req_flush /\ v.state = "FlushAddr" /\ v.req_addr = ZeroAddr /\ ~v.req_flush
       /\ v.flush_cnt = FLUSH_ALL_VALUE /\ k.addr = r.req_addr /\ ~k.re
    \/ /\ ~r.req_flush /\ in.req # None /\ v.state = "CheckHit" /\ v.req_addr = in.addr
       /\ v.req_type = in.req.type /\ v.req_wdata = in.req.wdata
       /\ v.req_flush = in.flush /\ k.addr = in.addr /\ k.re
    \/ /\ ~r.req_flush /\ in.req = None /\ v.state = "Idle" /\ v.req_addr = r.req_addr
       /\ v.req_flush = in.flush /\ k.addr = in.addr /\ ~k.re

\* v_ready_next: what is accepted at the end of a request.
LEMMA ReadyNextEffect ==
    ASSUME ControlInv, NEW in \in Ins, Step(in), r.state \in {"Idle", "CheckHit"},
           NEW u \in Registers, u.state = "Idle", u.req_addr = r.req_addr, FlushLatched(in, u),
           NEW c \in Controls, ~c.direct, ~c.invalidate, ~c.re, c.addr = r.req_addr,
           ReadyNext(in, u, c)
    PROVE  \E v \in Registers, k \in Controls :
           /\ Taken(v) /\ TagEffect(k) /\ Accepts(in, v, k)
           /\ v.req_flush_all <=> (in.flush \/ r.req_flush_all)
           /\ v.mem_valid = u.mem_valid /\ v.load_fault = u.load_fault
           /\ v.write_first = u.write_first /\ v.write_flush = u.write_flush
           /\ v.write_share = u.write_share
           /\ k.we = c.we /\ k.wstrb = c.wstrb /\ k.wdata = c.wdata /\ k.wflags = c.wflags
           /\ ~k.direct /\ ~k.invalidate
<1>1. /\ in.snoop = None /\ in.addr \in Addr /\ in.flush \in BOOLEAN
      /\ (in.req # None => in.req \in Requests) /\ r \in Registers
  BY InFacts DEF ControlInv, TypeOK, DTypeOK
<1>2. r.req_flush => r.req_flush_all
  BY DEF ControlInv, FlagsInv
<1>3. "FlushAddr" \in States /\ "CheckHit" \in States /\ ZeroAddr \in Addr /\ ZeroLine \in Line
  BY Bounds, DataAssumption DEF States, ZeroAddr, Addr, ZeroLine, Line
<1>4. CASE r.req_flush
  <2> DEFINE v == [u EXCEPT !.req_addr = ZeroAddr, !.req_flush = FALSE, !.line_i = ZeroLine,
                            !.flush_cnt = FLUSH_ALL_VALUE, !.state = "FlushAddr"]
  <2>1. Clocked(in, v, c)
    BY <1>1, <1>2, <1>4 DEF ReadyNext, SnoopData
  <2>2. FLUSH_ALL_VALUE \in 0 .. FLUSH_ALL_VALUE
    <3>1. NSets * Ways \in Nat /\ NSets * Ways >= 1
      BY NWayAssumption, SMT
    <3> QED BY <3>1 DEF FLUSH_ALL_VALUE
  <2>3. v \in Registers
    BY <1>3, <2>2 DEF Registers
  <2>4. /\ v.req_addr = ZeroAddr /\ ~v.req_flush /\ v.flush_cnt = FLUSH_ALL_VALUE
        /\ v.state = "FlushAddr" /\ (v.req_flush_all <=> (in.flush \/ r.req_flush_all))
        /\ v.mem_valid = u.mem_valid /\ v.load_fault = u.load_fault
        /\ v.write_first = u.write_first /\ v.write_flush = u.write_flush
        /\ v.write_share = u.write_share
    BY DEF Registers, FlushLatched
  <2> HIDE DEF v
  <2>5. Taken(v) /\ TagEffect(c)
    BY <2>1, <2>3, LineClock
  <2>6. Accepts(in, v, c)
    BY <1>4, <2>4 DEF Accepts
  <2> QED BY <2>3, <2>4, <2>5, <2>6
<1>5. CASE ~r.req_flush
  <2> DEFINE q == in.req
             v == IF q = None THEN u
                  ELSE [u EXCEPT !.req_addr = in.addr, !.req_wdata = q.wdata,
                                 !.req_type = q.type, !.state = "CheckHit"]
             re == in.req # None
             k == [c EXCEPT !.re = re, !.addr = in.addr]
  <2>1. Clocked(in, v, k)
    BY <1>1, <1>5 DEF ReadyNext, SnoopData
  <2>2. q # None => q.wdata \in Values /\ q.type \in MemopTypes
    BY <1>1 DEF Requests
  <2>3. u.req_flush = in.flush
    BY <1>1, <1>5 DEF FlushLatched, Registers
  <2>4. re \in BOOLEAN
    OBVIOUS
  <2> HIDE DEF re
  <2>5. k \in Controls /\ k.re = re /\ k.addr = in.addr /\ ~k.direct /\ ~k.invalidate
        /\ k.we = c.we /\ k.wstrb = c.wstrb /\ k.wdata = c.wdata /\ k.wflags = c.wflags
    BY <1>1, <2>4 DEF Controls
  <2> HIDE DEF k, q
  <2>6. v \in Registers
    <3>1. CASE q = None
      BY <3>1
    <3>2. CASE q # None
      BY <1>1, <1>3, <2>2, <3>2 DEF Registers
    <3> QED BY <3>1, <3>2
  <2>7. /\ (v.req_flush_all <=> (in.flush \/ r.req_flush_all))
        /\ v.mem_valid = u.mem_valid /\ v.load_fault = u.load_fault
        /\ v.write_first = u.write_first /\ v.write_flush = u.write_flush
        /\ v.write_share = u.write_share /\ v.req_flush = in.flush
        /\ q = None => v.state = "Idle" /\ v.req_addr = r.req_addr
        /\ q # None => /\ v.state = "CheckHit" /\ v.req_addr = in.addr
                       /\ v.req_type = q.type /\ v.req_wdata = q.wdata
    <3>1. CASE q = None
      BY <2>3, <3>1 DEF FlushLatched
    <3>2. CASE q # None
      BY <2>3, <3>2 DEF FlushLatched, Registers
    <3> QED BY <3>1, <3>2
  <2> HIDE DEF v
  <2>8. Taken(v) /\ TagEffect(k)
    BY <2>1, <2>5, <2>6, LineClock
  <2>9. Accepts(in, v, k)
    BY <1>5, <2>5, <2>7 DEF Accepts, re, q
  <2> QED BY <2>5, <2>6, <2>7, <2>8, <2>9
<1> QED BY <1>4, <1>5

\* the request taken from the core, or rest
CpuNext(in, rest) ==
    cpu' = IF in.req # None /\ ~r.req_flush
           THEN [type |-> in.req.type, addr |-> in.addr, wdata |-> in.req.wdata] ELSE rest

\* the port of the tag memory shows what was accepted
PortTakes(in, v) ==
    /\ TagTypeOK' /\ ~rd'.direct /\ ~rd'.invalidate
    /\ \E k \in Controls : Accepts(in, v, k) /\ rd'.addr = k.addr

\* Idle: the next request is taken, a flush begun, or nothing
IdleDone(in, v) ==
    /\ Taken(v) /\ PortTakes(in, v) /\ ram' = ram /\ BusWaits
    /\ v.req_flush_all <=> (in.flush \/ r.req_flush_all)
    /\ v.mem_valid = r.mem_valid /\ ~v.load_fault /\ WritesKept(v)
    /\ CpuNext(in, cpu) /\ resp' = None /\ golden' = golden /\ linked' = linked

\* the action implies it
LEMMA IdleEffect ==
    ASSUME ControlInv, NEW in \in Ins, Step(in), Idle(in)
    PROVE  \E v \in Registers : IdleDone(in, v)
<1> USE DEF IdleDone
<1> DEFINE y == Latched(in)
           u == [y EXCEPT !.load_fault = FALSE]
<1>1. y \in Registers /\ Latching(in, y) /\ BusWaits /\ ~rd.invalidate /\ r \in Registers
      /\ r.state = "Idle"
  BY StepFacts DEF Idle
<1>2. ReadyNext(in, u, NoLineAccess)
  BY DEF Idle
<1> HIDE DEF y
<1>3. /\ u \in Registers /\ u.state = "Idle" /\ u.req_addr = r.req_addr /\ FlushLatched(in, u)
      /\ u.mem_valid = r.mem_valid /\ ~u.load_fault /\ WritesKept(u)
  BY <1>1 DEF Registers, Latching, FlushLatched, WritesKept, ReqKept
<1>4. /\ NoLineAccess \in Controls /\ ~NoLineAccess.direct /\ ~NoLineAccess.invalidate
      /\ ~NoLineAccess.re /\ NoLineAccess.addr = r.req_addr /\ ~NoLineAccess.we
  BY <1>1, ControlTypes DEF NoLineAccess
<1> HIDE DEF u, NoLineAccess
<1>5. PICK v \in Registers, k \in Controls :
           /\ Taken(v) /\ TagEffect(k) /\ Accepts(in, v, k)
           /\ v.req_flush_all <=> (in.flush \/ r.req_flush_all)
           /\ v.mem_valid = u.mem_valid /\ v.load_fault = u.load_fault
           /\ v.write_first = u.write_first /\ v.write_flush = u.write_flush
           /\ v.write_share = u.write_share
           /\ k.we = NoLineAccess.we /\ ~k.direct /\ ~k.invalidate
  BY <1>1, <1>2, <1>3, <1>4, ReadyNextEffect
<1>6. PortTakes(in, v) /\ ram' = ram
  BY <1>1, <1>4, <1>5 DEF TagEffect, PortTakes
<1>7. CpuNext(in, cpu) /\ resp' = None /\ golden' = golden /\ linked' = linked
  <2>1. Resp(in) = None
    BY <1>1, QuietResp
  <2>2. ReqReady(in) <=> ~r.req_flush
    BY <1>1, InFacts DEF ReqReady, ReadyNow, SnoopData, ControlInv
  <2> QED BY <2>1, <2>2 DEF Step, Core, CpuNext
<1> QED BY <1>1, <1>3, <1>5, <1>6, <1>7 DEF WritesKept

\* CheckHitLoad: the word goes to the core, which may have the next request ready
CheckHitLoadDone(in, v) ==
    /\ Taken(v) /\ PortTakes(in, v) /\ ram' = ram /\ BusWaits
    /\ v.req_flush_all <=> (in.flush \/ r.req_flush_all)
    /\ v.mem_valid = r.mem_valid /\ v.load_fault = r.load_fault /\ WritesKept(v)
    /\ CpuNext(in, None) /\ Answered([data |-> CachedData, fault |-> FALSE])

\* the action implies it
LEMMA CheckHitLoadEffect ==
    ASSUME ControlInv, NEW in \in Ins, Step(in), CheckHitLoad(in)
    PROVE  \E v \in Registers : CheckHitLoadDone(in, v)
<1> USE DEF CheckHitLoadDone
<1> DEFINE y == Latched(in)
           u == [y EXCEPT !.state = "Idle"]
<1>1. y \in Registers /\ Latching(in, y) /\ BusWaits /\ ~rd.invalidate /\ r \in Registers
      /\ r.state = "CheckHit" /\ Hit /\ ~IsStore /\ ~IsReserve /\ TagTypeOK /\ NoAlias
  BY StepFacts DEF CheckHitLoad
<1>2. ReadyNext(in, u, NoLineAccess) /\ "Idle" \in States
  BY DEF CheckHitLoad, States
<1> HIDE DEF y
<1>3. /\ u \in Registers /\ u.state = "Idle" /\ u.req_addr = r.req_addr /\ FlushLatched(in, u)
      /\ u.mem_valid = r.mem_valid /\ u.load_fault = r.load_fault /\ WritesKept(u)
  BY <1>1, <1>2 DEF Registers, Latching, FlushLatched, WritesKept, ReqKept, LineKept
<1>4. /\ NoLineAccess \in Controls /\ ~NoLineAccess.direct /\ ~NoLineAccess.invalidate
      /\ ~NoLineAccess.re /\ NoLineAccess.addr = r.req_addr /\ ~NoLineAccess.we
  BY <1>1, ControlTypes DEF NoLineAccess
<1> HIDE DEF u, NoLineAccess
<1>5. PICK v \in Registers, k \in Controls :
           /\ Taken(v) /\ TagEffect(k) /\ Accepts(in, v, k)
           /\ v.req_flush_all <=> (in.flush \/ r.req_flush_all)
           /\ v.mem_valid = u.mem_valid /\ v.load_fault = u.load_fault
           /\ v.write_first = u.write_first /\ v.write_flush = u.write_flush
           /\ v.write_share = u.write_share
           /\ k.we = NoLineAccess.we /\ ~k.direct /\ ~k.invalidate
  BY <1>1, <1>2, <1>3, <1>4, ReadyNextEffect
<1>6. PortTakes(in, v) /\ ram' = ram
  BY <1>1, <1>4, <1>5 DEF TagEffect, PortTakes
<1>7. CpuNext(in, None) /\ Answered([data |-> CachedData, fault |-> FALSE])
  <2>1. Resp(in) = [data |-> CachedData, fault |-> FALSE]
    BY <1>1 DEF Resp
  <2>2. ReqReady(in) <=> ~r.req_flush
    BY <1>1, InFacts DEF ReqReady, ReadyNow, SnoopData, ControlInv
  <2>3. CachedData \in Values
    BY <1>1, OutFacts DEF CachedData, Registers, Addr, Line
  <2>4. [data |-> CachedData, fault |-> FALSE] \in [data : Values \cup {0, 1}, fault : BOOLEAN]
    BY <2>3
  <2>5. Resp(in) # None
    BY <2>1, <2>4, NoneAssumption
  <2>6. Answered([data |-> CachedData, fault |-> FALSE])
    BY <2>1, <2>4, AnsweredCore DEF Step
  <2> QED BY <2>2, <2>5, <2>6 DEF Step, Core, CpuNext
<1> QED BY <1>1, <1>3, <1>5, <1>6, <1>7 DEF WritesKept

\* CheckHitStore: the four ways a store ends that hits
CheckHitStoreDone(in, v) ==
    /\ Taken(v) /\ BusWaits
    /\ v.req_flush_all <=> (in.flush \/ r.req_flush_all)
    /\ v.mem_valid = r.mem_valid /\ v.load_fault = r.load_fault
    /\ v.write_first = r.write_first /\ v.write_flush = r.write_flush
    /\ \/ /\ ReleaseFails /\ PortRests /\ ram' = ram /\ FlushLatched(in, v)
          /\ v.state = "Idle" /\ v.write_share = r.write_share
          /\ cpu' = None /\ Answered([data |-> 1, fault |-> FALSE])
       \/ /\ ~ReleaseFails /\ Replaced({"VALID", "DIRTY"}, Modified(Out.data))
          /\ \E x \in Values \cup {0, 1} :
                Answered([data |-> x, fault |-> FALSE]) /\ (IsRelease => x = 0)
          /\ \/ /\ PortRests /\ FlushLatched(in, v) /\ cpu' = None
                /\ \/ /\ v.write_share /\ v.state = "TranslateAddress"
                      /\ v.req_addr = r.req_addr
                   \/ v.write_share = r.write_share /\ v.state = "Idle"
             \/ PortTakes(in, v) /\ CpuNext(in, None) /\ v.write_share = r.write_share

\* the action implies it
LEMMA CheckHitStoreEffect ==
    ASSUME ControlInv, NEW in \in Ins, Step(in), CheckHitStore(in)
    PROVE  \E v \in Registers : CheckHitStoreDone(in, v)
<1> USE DEF CheckHitStoreDone
<1> DEFINE y == Latched(in)
           t == y.req_type \ {"Store"}
           u == [y EXCEPT !.req_type = t, !.state = "Idle"]
           m == Modified(Out.data)
           strb == {r.req_addr.word}
           f == {"VALID", "DIRTY"}
           c == WriteLine(f, m, strb)
           x == IF IsRelease THEN (IF ReleaseFails THEN 1 ELSE 0) ELSE CachedData
           rsp == [data |-> x, fault |-> FALSE]
           shared == CoherenceEna /\ "SHARED" \in Out.flags
<1>1. y \in Registers /\ Latching(in, y) /\ BusWaits /\ ~rd.invalidate /\ r \in Registers
      /\ r.state = "CheckHit" /\ Hit /\ IsStore /\ TagTypeOK /\ NoAlias
  BY StepFacts DEF CheckHitStore
<1>2. rd.addr = r.req_addr
  BY <1>1 DEF ControlInv, PortInv, Serving, FlagsInv
<1>3. IF ReleaseFails THEN Clocked(in, u, NoLineAccess)
      ELSE IF shared THEN Clocked(in, [u EXCEPT !.write_share = TRUE, !.state = "TranslateAddress"], c)
      ELSE IF SameLine(r.req_addr, in.addr) THEN ReadyNext(in, u, c)
      ELSE Clocked(in, u, c)
  BY DEF CheckHitStore, StoreFlags
<1>4. m \in Line /\ f \in SUBSET Flags /\ strb \in SUBSET Words /\ strb # {} /\ t \in MemopTypes
      /\ {"Idle", "TranslateAddress"} \subseteq States
  <2>1. Out.data \in Line
    BY <1>1, OutFacts
  <2>2. m \in Line
    BY <1>1, <2>1, ModifiedType
  <2>3. r.req_addr.word \in Words
    BY <1>1 DEF Registers, Addr
  <2>4. t \in MemopTypes
    BY <1>1 DEF Registers, MemopTypes
  <2> QED BY <2>2, <2>3, <2>4 DEF Flags, States
<1>5. x \in Values \cup {0, 1}
  <2>1. CachedData \in Values
    BY <1>1, OutFacts DEF CachedData, Registers, Addr, Line
  <2> QED BY <2>1
<1>6. Answered(rsp) /\ (~ReqReady(in) => cpu' = None)
  <2>1. Resp(in) = rsp
    BY <1>1 DEF Resp
  <2>2. rsp \in [data : Values \cup {0, 1}, fault : BOOLEAN]
    BY <1>5
  <2> HIDE DEF rsp
  <2> QED BY <2>1, <2>2, AnsweredCore DEF Step
<1>7. ReqReady(in) <=> ~ReleaseFails /\ ~shared /\ SameLine(r.req_addr, in.addr) /\ ~r.req_flush
  BY <1>1, InFacts DEF ReqReady, ReadyNow, SnoopData, ControlInv
<1>8. (ReleaseFails => x = 1) /\ (~ReleaseFails /\ IsRelease => x = 0)
  BY DEF ReleaseFails
<1>9. [w \in Words |-> IF w \in strb THEN m[w] ELSE ram[r.req_addr.set][HitIdx].data[w]] = m
  <2>1. Out = ram[r.req_addr.set][HitIdx] /\ Out.data \in Line
    BY <1>1, <1>2, OutFacts DEF Out
  <2>2. \A w \in Words : w # r.req_addr.word => m[w] = Out.data[w]
    BY <2>1 DEF Modified, Line
  <2> QED BY <1>4, <2>1, <2>2 DEF Line
<1>10. /\ c \in Controls /\ ~c.direct /\ ~c.invalidate /\ ~c.re /\ c.addr = r.req_addr /\ c.we
       /\ c.wstrb = strb /\ c.wdata = m /\ c.wflags = f
  BY <1>1, <1>4, ControlTypes DEF WriteLine, Controls, NoLineAccess
<1> HIDE DEF y, t, m, strb, f, c, x
<1>11. /\ u \in Registers /\ u.state = "Idle" /\ u.req_addr = r.req_addr /\ FlushLatched(in, u)
       /\ u.mem_valid = r.mem_valid /\ u.load_fault = r.load_fault /\ WritesKept(u)
  BY <1>1, <1>4 DEF Registers, Latching, FlushLatched, WritesKept, ReqKept, LineKept
<1> HIDE DEF u
<1>12. CASE ReleaseFails
  <2>1. Taken(u) /\ PortRests /\ RamKept
    BY <1>1, <1>3, <1>11, <1>12, PlainClock
  <2> QED BY <1>1, <1>6, <1>7, <1>8, <1>11, <1>12, <2>1 DEF RamKept, WritesKept, FlushLatched
<1>13. ASSUME TagEffect(c) PROVE PortRests /\ Replaced({"VALID", "DIRTY"}, Modified(Out.data))
  <2>1. Rewritten(r.req_addr.set, HitIdx, [tag |-> r.req_addr.tag, flags |-> f, data |-> m])
    BY <1>1, <1>4, <1>9, <1>10, <1>13 DEF TagEffect
  <2> QED BY <1>10, <1>13, <2>1 DEF TagEffect, PortRests, Replaced, f, m
<1>14. CASE ~ReleaseFails /\ shared
  <2> DEFINE v == [u EXCEPT !.write_share = TRUE, !.state = "TranslateAddress"]
  <2>1. Clocked(in, v, c)
    BY <1>3, <1>14
  <2>2. /\ v \in Registers /\ FlushLatched(in, v) /\ v.write_share /\ v.state = "TranslateAddress"
        /\ v.req_addr = r.req_addr /\ v.mem_valid = r.mem_valid /\ v.load_fault = r.load_fault
        /\ v.write_first = r.write_first /\ v.write_flush = r.write_flush
    BY <1>4, <1>11 DEF Registers, FlushLatched, WritesKept
  <2> HIDE DEF v
  <2>3. Taken(v) /\ TagEffect(c)
    BY <1>10, <2>1, <2>2, LineClock
  <2> QED BY <1>1, <1>5, <1>6, <1>7, <1>8, <1>13, <1>14, <2>2, <2>3 DEF FlushLatched
<1>15. CASE ~ReleaseFails /\ ~shared /\ ~SameLine(r.req_addr, in.addr)
  <2>1. Clocked(in, u, c)
    BY <1>3, <1>15
  <2>2. Taken(u) /\ TagEffect(c)
    BY <1>10, <1>11, <2>1, LineClock
  <2> QED BY <1>1, <1>5, <1>6, <1>7, <1>8, <1>11, <1>13, <1>15, <2>2 DEF FlushLatched, WritesKept
<1>16. CASE ~ReleaseFails /\ ~shared /\ SameLine(r.req_addr, in.addr)
  <2>1. ReadyNext(in, u, c)
    BY <1>3, <1>16
  <2>2. PICK v \in Registers, k \in Controls :
           /\ Taken(v) /\ TagEffect(k) /\ Accepts(in, v, k)
           /\ v.req_flush_all <=> (in.flush \/ r.req_flush_all)
           /\ v.mem_valid = u.mem_valid /\ v.load_fault = u.load_fault
           /\ v.write_first = u.write_first /\ v.write_flush = u.write_flush
           /\ v.write_share = u.write_share
           /\ k.we = c.we /\ k.wstrb = c.wstrb /\ k.wdata = c.wdata /\ k.wflags = c.wflags
           /\ ~k.direct /\ ~k.invalidate
    BY <1>1, <1>10, <1>11, <2>1, ReadyNextEffect, ZenonT(60)
  <2>3. k.addr.set = r.req_addr.set /\ k.addr.tag = r.req_addr.tag
    BY <1>16, <2>2 DEF Accepts, SameLine
  <2>4. Rewritten(r.req_addr.set, HitIdx, [tag |-> r.req_addr.tag, flags |-> f, data |-> m])
    BY <1>1, <1>4, <1>9, <1>10, <2>2, <2>3 DEF TagEffect
  <2>5. Replaced({"VALID", "DIRTY"}, Modified(Out.data)) /\ PortTakes(in, v)
    BY <2>2, <2>4 DEF TagEffect, PortTakes, Replaced, f, m
  <2>6. CpuNext(in, None)
    <3>1. Resp(in) # None
      <4>1. Resp(in) = rsp
        BY <1>1 DEF Resp, x
      <4>2. rsp \in [data : Values \cup {0, 1}, fault : BOOLEAN]
        BY <1>5
      <4> QED BY <4>1, <4>2, NoneAssumption
    <3> QED BY <1>7, <1>16, <3>1 DEF Step, Core, CpuNext
  <2> QED BY <1>1, <1>5, <1>6, <1>8, <1>11, <1>16, <2>2, <2>5, <2>6 DEF WritesKept
<1> QED BY <1>12, <1>14, <1>15, <1>16

----------------------------------------------------------------------------
\* Memory, record of the stores and reservations keep their types.
LEMMA MemoryTypes ==
    ASSUME ControlInv, NEW in \in Ins, Step(in)
    PROVE  /\ mem' \in [Places -> Line] /\ golden' \in [Places -> Line] /\ linked' \subseteq Places
           /\ load' \in Workloads
<1>1. TypeOK /\ CpuInv /\ BusInv /\ r \in Registers
  BY DEF ControlInv, TypeOK, DTypeOK
<1>2. mem' \in [Places -> Line]
  <2>1. r.mem_addr \in Addr /\ At(r.mem_addr) \in Places /\ r.mem_addr.word \in Words /\ r.line_o \in Line
    BY <1>1 DEF Registers, Addr, At, Places
  <2>2. r.line_o[0] \in Values
    BY <2>1, DataAssumption DEF Line
  <2>3. mem[At(r.mem_addr)] \in Line
    BY <1>1, <2>1 DEF TypeOK
  <2>4. [mem[At(r.mem_addr)] EXCEPT ![r.mem_addr.word] = r.line_o[0]] \in Line
    BY <2>1, <2>2, <2>3 DEF Line
  <2>5. in.mem = None => mem' = mem
    BY DEF Step, Bus
  <2>6. in.mem # None => MemWritten
    BY BusAnswer
  <2>7. mem \in [Places -> Line]
    BY <1>1 DEF TypeOK
  <2>8. [mem EXCEPT ![At(r.mem_addr)][r.mem_addr.word] = r.line_o[0]] \in [Places -> Line]
    BY <2>1, <2>4, <2>7
  <2>9. [mem EXCEPT ![At(r.mem_addr)] = r.line_o] \in [Places -> Line]
    BY <2>1, <2>7
  <2> QED BY <2>5, <2>6, <2>7, <2>8, <2>9 DEF MemWritten
<1>3. golden' \in [Places -> Line] /\ linked' \subseteq Places
  <2>1. CASE cpu = None
    BY <1>1, <2>1 DEF TypeOK, Step, Core
  <2>2. CASE cpu # None
    <3>1. cpu.addr \in Addr /\ cpu.wdata \in Values
      BY <1>1, <2>2 DEF CpuInv
    <3>2. At(cpu.addr) \in Places /\ cpu.addr.word \in Words
      BY <3>1 DEF Addr, At, Places
    <3>3. golden[At(cpu.addr)] \in Line /\ golden \in [Places -> Line]
      BY <1>1, <3>2 DEF TypeOK
    <3>4. [golden[At(cpu.addr)] EXCEPT ![cpu.addr.word] = cpu.wdata] \in Line
      BY <3>1, <3>2, <3>3 DEF Line
    <3>5. [golden EXCEPT ![At(cpu.addr)][cpu.addr.word] = cpu.wdata] \in [Places -> Line]
      BY <3>2, <3>3, <3>4
    <3>6. golden' \in [Places -> Line]
      BY <3>3, <3>5 DEF Step, Core
    <3>7. linked' \subseteq Places
      BY <1>1, <3>2 DEF TypeOK, Step, Core
    <3> QED BY <3>6, <3>7
  <2> QED BY <2>1, <2>2
<1> QED BY <1>1, <1>2, <1>3 DEF CpuInv, Step

\* A clock that does not write the tag memory keeps its tags in order.
LEMMA RamSame ==
    ASSUME ControlInv, ram' = ram
    PROVE  /\ NoAlias' /\ CachedTags'
           /\ \A x \in Sets, w \in Way : (Valid(x, w)' <=> Valid(x, w)) /\ Place(x, w)' = Place(x, w)
<1>1. \A x \in Sets, w \in Way : (Valid(x, w)' <=> Valid(x, w)) /\ Place(x, w)' = Place(x, w)
                                /\ ram'[x][w] = ram[x][w]
  BY DEF Valid, Place
<1>2. NoAlias'
  BY <1>1 DEF ControlInv, WayInv, NoAlias
<1>3. CachedTags'
  BY <1>1 DEF ControlInv, WayInv, CachedTags
<1> QED BY <1>1, <1>2, <1>3

\* while a request is served the lookup shows the same way in every clock
LEMMA LookupKept ==
    ASSUME ControlInv, Serving \/ r.write_share, PortRests, RamKept
    PROVE  /\ ~rd.direct /\ rd.addr = r.req_addr /\ rd'.addr = rd.addr
           /\ (Hit' <=> Hit) /\ HitIdx' = HitIdx
           /\ HitIdx \in Way /\ rd.addr.set \in Sets
<1>1. /\ TagTypeOK /\ NoAlias /\ TagTypeOK' /\ ram' = ram /\ ~rd.direct /\ ~rd'.direct
      /\ rd.addr = r.req_addr /\ rd'.addr = rd.addr
  BY DEF ControlInv, PortInv, TypeOK, DTypeOK, WayInv, PortRests, RamKept
<1>2. Hit \/ lru' = lru
  BY <1>1 DEF RamKept
<1> QED BY <1>1, <1>2, SameLookup, HitState

\* after a miss no valid line is at the address that was looked up
LEMMA MissPlaces ==
    ASSUME ControlInv, ~rd.direct, ~Hit
    PROVE  \A x \in Sets, w \in Way : Valid(x, w) => Place(x, w) # At(rd.addr)
<1>1. \A w \in Way : ~WayHit(w)
  BY HitState DEF ControlInv, TypeOK, DTypeOK, WayInv
<1> QED BY <1>1 DEF WayHit, Valid, Place, At

\* after a hit the line is valid, and of an address that may be cached
LEMMA HitTags ==
    ASSUME ControlInv, Hit
    PROVE  /\ HitIdx \in Way /\ rd.addr.set \in Sets
           /\ Valid(rd.addr.set, HitIdx) /\ Out.tag = rd.addr.tag
           /\ Place(rd.addr.set, HitIdx) = At(rd.addr)
           /\ rd.addr.tag \notin Uncached \cup NoAccess \cup Faulty
<1>1. HitIdx \in Way /\ rd.addr.set \in Sets
  BY HitState DEF ControlInv, TypeOK, DTypeOK, WayInv
<1>2. Valid(rd.addr.set, HitIdx) /\ Out.tag = rd.addr.tag /\ Place(rd.addr.set, HitIdx) = At(rd.addr)
  BY DEF Hit, WayHit, Valid, Out, Place, At
<1> QED BY <1>1, <1>2 DEF ControlInv, WayInv, CachedTags, Out

\* The address of a line and of a word of it is the same place.
LEMMA LineAddrFacts ==
    ASSUME NEW a \in Addr
    PROVE  LineAddr(a).tag = a.tag /\ LineAddr(a).set = a.set /\ At(LineAddr(a)) = At(a)
  BY DEF LineAddr, Addr, At

\* the three requests of a cached access
LEMMA CachedRequestFacts ==
    \/ /\ r.write_share /\ CachedRequest.type = "WriteLineUnique" /\ CachedRequest.addr = RAddr
       /\ ~CachedRequest.first
    \/ /\ ~r.write_share /\ {"VALID", "DIRTY"} \subseteq Out.flags
       /\ CachedRequest.type = "WriteBack" /\ CachedRequest.addr = RAddr /\ CachedRequest.first
    \/ /\ ~r.write_share /\ ~({"VALID", "DIRTY"} \subseteq Out.flags)
       /\ CachedRequest.type = IF IsStore THEN "ReadMakeUnique" ELSE "ReadShared"
       /\ CachedRequest.addr = LineAddr(r.req_addr) /\ ~CachedRequest.first
<1>1. CASE r.write_share
  BY <1>1 DEF CachedRequest
<1>2. CASE ~r.write_share /\ {"VALID", "DIRTY"} \subseteq Out.flags
  BY <1>2 DEF CachedRequest
<1>3. CASE ~r.write_share /\ ~({"VALID", "DIRTY"} \subseteq Out.flags)
  BY <1>3 DEF CachedRequest
<1> QED BY <1>1, <1>2, <1>3

\* State_WaitGrant: the bus holds what the registers show.
LEMMA WaitGrantControl ==
    ASSUME ControlInv, NEW in \in Ins, Step(in), WaitGrant(in)
    PROVE  ControlInv'
<1>1. PICK v \in Registers : WaitGrantDone(in, v)
  BY WaitGrantEffect
<1> USE DEF WaitGrantDone
<1>2. r.state = "WaitGrant" /\ TypeOK'
  BY <1>1, MemoryTypes DEF WaitGrant, TypeOK, DTypeOK, Taken, PortRests
<1> USE <1>1, <1>2 DEF Taken, ReqKept, MemKept, WritesKept, FlushLatched, LineKept, Writes
<1>3. FlagsInv'
  BY DEF ControlInv, FlagsInv
<1>4. TypeInv'
  BY DEF ControlInv, FlagsInv, TypeInv, Refilling, Bypassing, Fetches, CachedType, IsStore
<1>5. PortInv'
  BY DEF ControlInv, FlagsInv, PortInv, Serving, PortRests
<1>6. BusInv'
  BY DEF ControlInv, FlagsInv, BusInv, BusWaits
<1>7. CpuInv'
  BY MemoryTypes DEF ControlInv, FlagsInv, CpuInv, CoreWaits, Serving, IsStore, IsRelease
<1>8. NoAlias' /\ CachedTags'
      /\ \A x \in Sets, w \in Way : (Valid(x, w)' <=> Valid(x, w)) /\ Place(x, w)' = Place(x, w)
  BY RamSame DEF RamKept
<1>9. LookupInv'
  BY LookupKept, <1>8 DEF ControlInv, WayInv, LookupInv, FlagsInv, Serving
<1>10. LinkInv'
  BY <1>8 DEF ControlInv, LinkInv, CoreWaits, RamKept, IsReserve, IsStore
<1> QED BY <1>2, <1>3, <1>4, <1>5, <1>6, <1>7, <1>8, <1>9, <1>10 DEF ControlInv, WayInv

\* State_CheckHit, miss: a store conditional goes no further.
LEMMA CheckMissControl ==
    ASSUME ControlInv, NEW in \in Ins, Step(in), CheckMiss(in)
    PROVE  ControlInv'
<1>1. PICK v \in Registers : CheckMissDone(in, v)
  BY CheckMissEffect
<1> USE DEF CheckMissDone
<1>2. r.state = "CheckHit" /\ ~Hit /\ TypeOK'
  BY <1>1, MemoryTypes DEF CheckMiss, TypeOK, DTypeOK, Taken, PortRests
<1> USE <1>1, <1>2 DEF Taken, ReqKept, MemKept, WritesKept, FlushLatched, LineKept, Writes
<1>3. FlagsInv'
  BY DEF ControlInv, FlagsInv
<1>4. TypeInv'
  BY DEF ControlInv, FlagsInv, TypeInv, Refilling, Bypassing, Fetches, CachedType, IsStore
<1>5. PortInv'
  BY DEF ControlInv, FlagsInv, PortInv, Serving, PortRests
<1>6. BusInv'
  BY DEF ControlInv, FlagsInv, BusInv, BusWaits
<1>7. CpuInv'
  BY MemoryTypes DEF ControlInv, FlagsInv, CpuInv, CoreWaits, Serving, IsStore, IsRelease
<1>8. NoAlias' /\ CachedTags'
      /\ \A x \in Sets, w \in Way : (Valid(x, w)' <=> Valid(x, w)) /\ Place(x, w)' = Place(x, w)
  BY RamSame DEF RamKept
<1>9. LookupInv'
  BY LookupKept, <1>8 DEF ControlInv, WayInv, LookupInv, FlagsInv, Serving
<1>10. LinkInv'
  <2>1. \A x \in Sets, w \in Way : Valid(x, w) => Place(x, w) # At(r.req_addr)
    BY MissPlaces DEF ControlInv, PortInv, Serving, FlagsInv
  <2> QED BY <1>8, <2>1 DEF ControlInv, LinkInv, CoreWaits, RamKept, IsReserve, IsStore
<1> QED BY <1>2, <1>3, <1>4, <1>5, <1>6, <1>7, <1>8, <1>9, <1>10 DEF ControlInv, WayInv

\* State_TranslateAddress, refused: nothing is on its way.
LEMMA TranslateFaultControl ==
    ASSUME ControlInv, NEW in \in Ins, Step(in), TranslateFault(in)
    PROVE  ControlInv'
<1>1. PICK v \in Registers : TranslateFaultDone(in, v)
  BY TranslateFaultEffect
<1> USE DEF TranslateFaultDone
<1>2. r.state = "TranslateAddress" /\ r.req_addr.tag \in NoAccess /\ TypeOK'
  BY <1>1, MemoryTypes DEF TranslateFault, TypeOK, DTypeOK, Taken, PortRests
<1> USE <1>1, <1>2 DEF Taken, ReqKept, MemKept, WritesKept, FlushLatched, LineKept, Writes
<1>a. ~r.write_share
  BY HitTags DEF ControlInv, WayInv, LookupInv, PortInv
<1>3. FlagsInv'
  BY <1>a DEF ControlInv, FlagsInv
<1>4. TypeInv'
  BY DEF ControlInv, FlagsInv, TypeInv, Refilling, Bypassing, Fetches, CachedType, IsStore
<1>5. PortInv'
  BY DEF ControlInv, FlagsInv, PortInv, Serving, PortRests
<1>6. BusInv'
  BY DEF ControlInv, FlagsInv, BusInv, BusWaits
<1>7. CpuInv'
  BY MemoryTypes DEF ControlInv, FlagsInv, CpuInv, CoreWaits, Serving, IsStore, IsRelease
<1>8. NoAlias' /\ CachedTags'
      /\ \A x \in Sets, w \in Way : (Valid(x, w)' <=> Valid(x, w)) /\ Place(x, w)' = Place(x, w)
  BY RamSame DEF RamKept
<1>9. LookupInv'
  BY LookupKept, <1>8 DEF ControlInv, WayInv, LookupInv, FlagsInv, Serving
<1>10. LinkInv'
  BY <1>8 DEF ControlInv, LinkInv, CoreWaits, RamKept, IsReserve, IsStore
<1> QED BY <1>2, <1>3, <1>4, <1>5, <1>6, <1>7, <1>8, <1>9, <1>10 DEF ControlInv, WayInv

\* State_TranslateAddress, uncached: such a tag never hits.
LEMMA TranslateUncachedControl ==
    ASSUME ControlInv, NEW in \in Ins, Step(in), TranslateUncached(in)
    PROVE  ControlInv'
<1>1. PICK v \in Registers : TranslateUncachedDone(in, v)
  BY TranslateUncachedEffect
<1> USE DEF TranslateUncachedDone
<1>2. r.state = "TranslateAddress" /\ r.req_addr.tag \in Uncached \ NoAccess /\ TypeOK'
  BY <1>1, MemoryTypes DEF TranslateUncached, TypeOK, DTypeOK, Taken, PortRests
<1> USE <1>1, <1>2 DEF Taken, ReqKept, MemKept, WritesKept, FlushLatched, LineKept, Writes
<1>a. ~r.write_share
  BY HitTags DEF ControlInv, WayInv, LookupInv, PortInv
<1>3. FlagsInv'
  BY <1>a DEF ControlInv, FlagsInv
<1>4. TypeInv'
  BY <1>a DEF ControlInv, FlagsInv, TypeInv, Refilling, Bypassing, Fetches, CachedType, IsStore
<1>5. PortInv'
  BY DEF ControlInv, FlagsInv, PortInv, Serving, PortRests
<1>6. BusInv'
  BY DEF ControlInv, FlagsInv, BusInv, BusWaits
<1>7. CpuInv'
  BY MemoryTypes DEF ControlInv, FlagsInv, CpuInv, CoreWaits, Serving, IsStore, IsRelease
<1>8. NoAlias' /\ CachedTags'
      /\ \A x \in Sets, w \in Way : (Valid(x, w)' <=> Valid(x, w)) /\ Place(x, w)' = Place(x, w)
  BY RamSame DEF RamKept
<1>9. LookupInv'
  BY <1>a, LookupKept, <1>8 DEF ControlInv, WayInv, LookupInv, FlagsInv, Serving
<1>10. LinkInv'
  BY <1>8 DEF ControlInv, LinkInv, CoreWaits, RamKept, IsReserve, IsStore
<1> QED BY <1>2, <1>3, <1>4, <1>5, <1>6, <1>7, <1>8, <1>9, <1>10 DEF ControlInv, WayInv

\* State_WaitResp: the answer is that of the request.
LEMMA WaitRespControl ==
    ASSUME ControlInv, NEW in \in Ins, Step(in), WaitResp(in)
    PROVE  ControlInv'
<1>1. PICK v \in Registers : WaitRespDone(in, v)
  BY WaitRespEffect
<1> USE DEF WaitRespDone
<1>2. r.state = "WaitResp" /\ TypeOK'
  BY <1>1, MemoryTypes DEF WaitResp, TypeOK, DTypeOK, Taken, PortRests
<1> USE <1>1, <1>2 DEF Taken, ReqKept, MemKept, WritesKept, FlushLatched, LineKept, Writes
<1>3. FlagsInv'
  BY DEF ControlInv, FlagsInv
<1>a. r.req_addr \in Addr
  BY DEF ControlInv, TypeOK, DTypeOK, Registers
<1>4. TypeInv'
  BY <1>a, BusAnswer, LineAddrFacts DEF ControlInv, FlagsInv, TypeInv, Refilling, Bypassing, Fetches, CachedType, IsStore
<1>5. PortInv'
  BY DEF ControlInv, FlagsInv, PortInv, Serving, PortRests
<1>6. BusInv'
  BY DEF ControlInv, FlagsInv, BusInv, BusWaits
<1>7. CpuInv'
  BY MemoryTypes DEF ControlInv, FlagsInv, CpuInv, CoreWaits, Serving, IsStore, IsRelease
<1>8. NoAlias' /\ CachedTags'
      /\ \A x \in Sets, w \in Way : (Valid(x, w)' <=> Valid(x, w)) /\ Place(x, w)' = Place(x, w)
  BY RamSame DEF RamKept
<1>9. LookupInv'
  BY LookupKept, <1>8 DEF ControlInv, WayInv, LookupInv, FlagsInv, Serving
<1>10. LinkInv'
  BY <1>8 DEF ControlInv, LinkInv, CoreWaits, RamKept, IsReserve, IsStore
<1> QED BY <1>2, <1>3, <1>4, <1>5, <1>6, <1>7, <1>8, <1>9, <1>10 DEF ControlInv, WayInv

\* State_SetupReadAdr: the refilled line is looked up again.
LEMMA SetupReadAdrControl ==
    ASSUME ControlInv, NEW in \in Ins, Step(in), SetupReadAdr(in)
    PROVE  ControlInv'
<1>1. PICK v \in Registers : SetupReadAdrDone(in, v)
  BY SetupReadAdrEffect
<1> USE DEF SetupReadAdrDone
<1>2. r.state = "SetupReadAdr" /\ TypeOK'
  BY <1>1, MemoryTypes DEF SetupReadAdr, TypeOK, DTypeOK, Taken, PortRests
<1> USE <1>1, <1>2 DEF Taken, ReqKept, MemKept, WritesKept, FlushLatched, LineKept, Writes
<1>3. FlagsInv'
  BY DEF ControlInv, FlagsInv
<1>4. TypeInv'
  BY DEF ControlInv, FlagsInv, TypeInv, Refilling, Bypassing, Fetches, CachedType, IsStore
<1>5. PortInv'
  BY DEF ControlInv, FlagsInv, PortInv, Serving, PortRests
<1>6. BusInv'
  BY DEF ControlInv, FlagsInv, BusInv, BusWaits
<1>7. CpuInv'
  BY MemoryTypes DEF ControlInv, FlagsInv, CpuInv, CoreWaits, Serving, IsStore, IsRelease
<1>8. NoAlias' /\ CachedTags'
      /\ \A x \in Sets, w \in Way : (Valid(x, w)' <=> Valid(x, w)) /\ Place(x, w)' = Place(x, w)
  BY RamSame DEF RamKept
<1>9. LookupInv'
  BY LookupKept, <1>8 DEF ControlInv, WayInv, LookupInv, FlagsInv, Serving
<1>10. LinkInv'
  BY <1>8 DEF ControlInv, LinkInv, CoreWaits, RamKept, IsReserve, IsStore
<1> QED BY <1>2, <1>3, <1>4, <1>5, <1>6, <1>7, <1>8, <1>9, <1>10 DEF ControlInv, WayInv

\* State_CheckResp without a line: the request ends.
LEMMA CheckRespDirectControl ==
    ASSUME ControlInv, NEW in \in Ins, Step(in), CheckRespDirect(in)
    PROVE  ControlInv'
<1>1. PICK v \in Registers : CheckRespDirectDone(in, v)
  BY CheckRespDirectEffect
<1> USE DEF CheckRespDirectDone
<1>2. r.state = "CheckResp" /\ (r.load_fault \/ ~CachedType(r.mem_type)) /\ TypeOK'
  BY <1>1, MemoryTypes DEF CheckRespDirect, TypeOK, DTypeOK, Taken, PortRests
<1> USE <1>1, <1>2 DEF Taken, ReqKept, MemKept, WritesKept, FlushLatched, LineKept, Writes
<1>3. FlagsInv'
  BY DEF ControlInv, FlagsInv
<1>4. TypeInv'
  BY DEF ControlInv, FlagsInv, TypeInv, Refilling, Bypassing, Fetches, CachedType, IsStore
<1>5. PortInv'
  BY DEF ControlInv, FlagsInv, PortInv, Serving, PortRests
<1>6. BusInv'
  BY DEF ControlInv, FlagsInv, BusInv, BusWaits
<1>7. CpuInv'
  BY MemoryTypes DEF ControlInv, FlagsInv, CpuInv, CoreWaits, Serving, IsStore, IsRelease
<1>8. NoAlias' /\ CachedTags'
      /\ \A x \in Sets, w \in Way : (Valid(x, w)' <=> Valid(x, w)) /\ Place(x, w)' = Place(x, w)
  BY RamSame DEF RamKept
<1>9. LookupInv'
  BY LookupKept, <1>8 DEF ControlInv, WayInv, LookupInv, FlagsInv, Serving
<1>10. LinkInv'
  <2>1. \A x \in Sets, w \in Way : Valid(x, w) => Place(x, w) # At(r.req_addr)
    BY MissPlaces DEF ControlInv, PortInv, Serving, FlagsInv, WayInv, LookupInv
  <2>2. cpu # None /\ cpu.addr = r.req_addr
    BY SMTT(60) DEF ControlInv, CpuInv, Serving, FlagsInv
  <2> QED BY <1>8, <2>1, <2>2 DEF Answered,  ControlInv, LinkInv, CoreWaits, RamKept, IsReserve, IsStore
<1> QED BY <1>2, <1>3, <1>4, <1>5, <1>6, <1>7, <1>8, <1>9, <1>10 DEF ControlInv, WayInv

\* State_WriteBus: what follows a write depends on why it was made.
LEMMA WriteBusControl ==
    ASSUME ControlInv, NEW in \in Ins, Step(in), WriteBus(in)
    PROVE  ControlInv'
<1>1. PICK v \in Registers : WriteBusDone(in, v)
  BY WriteBusEffect
<1> USE DEF WriteBusDone
<1>2. r.state = "WriteBus" /\ TypeOK'
  BY <1>1, MemoryTypes DEF WriteBus, TypeOK, DTypeOK, Taken, PortRests
<1> USE <1>1, <1>2 DEF Taken, ReqKept, MemKept, WritesKept, FlushLatched, LineKept, Writes
<1>3. FlagsInv'
  BY DEF ControlInv, FlagsInv
<1>4. TypeInv'
  BY DEF ControlInv, FlagsInv, TypeInv, Refilling, Bypassing, Fetches, CachedType, IsStore
<1>5. PortInv'
  BY DEF ControlInv, FlagsInv, PortInv, Serving, PortRests
<1>6. BusInv'
  BY DEF ControlInv, FlagsInv, BusInv, BusWaits
<1>7. CpuInv'
  BY MemoryTypes DEF ControlInv, FlagsInv, CpuInv, CoreWaits, Serving, IsStore, IsRelease
<1>8. NoAlias' /\ CachedTags'
      /\ \A x \in Sets, w \in Way : (Valid(x, w)' <=> Valid(x, w)) /\ Place(x, w)' = Place(x, w)
  BY RamSame DEF RamKept
<1>9. LookupInv'
  BY LookupKept, <1>8 DEF ControlInv, WayInv, LookupInv, FlagsInv, Serving
<1>10. LinkInv'
  <2>1. ~Writes => \A x \in Sets, w \in Way : Valid(x, w) => Place(x, w) # At(r.req_addr)
    BY MissPlaces DEF ControlInv, PortInv, Serving, FlagsInv, WayInv, LookupInv
  <2>2. ~Writes => cpu # None /\ cpu.addr = r.req_addr
    BY DEF ControlInv, CpuInv, Serving, FlagsInv
  <2> QED BY <1>8, <2>1, <2>2 DEF Answered,  ControlInv, LinkInv, CoreWaits, RamKept, IsReserve, IsStore
<1> QED BY <1>2, <1>3, <1>4, <1>5, <1>6, <1>7, <1>8, <1>9, <1>10 DEF ControlInv, WayInv

\* State_TranslateAddress, cached: the request fits the line shown.
LEMMA TranslateCachedControl ==
    ASSUME ControlInv, NEW in \in Ins, Step(in), TranslateCached(in)
    PROVE  ControlInv'
<1>1. PICK v \in Registers : TranslateCachedDone(in, v)
  BY TranslateCachedEffect
<1> USE DEF TranslateCachedDone
<1>2. r.state = "TranslateAddress" /\ r.req_addr.tag \notin NoAccess \cup Uncached /\ TypeOK'
  BY <1>1, MemoryTypes DEF TranslateCached, TypeOK, DTypeOK, Taken, PortRests
<1> USE <1>1, <1>2 DEF Taken, ReqKept, MemKept, WritesKept, FlushLatched, LineKept, Writes
<1>3. FlagsInv'
  BY CachedRequestFacts DEF ControlInv, FlagsInv
<1>4. TypeInv'
  BY CachedRequestFacts DEF ControlInv, FlagsInv, TypeInv, Refilling, Bypassing, Fetches, CachedType, IsStore
<1>5. PortInv'
  BY DEF ControlInv, FlagsInv, PortInv, Serving, PortRests
<1>6. BusInv'
  BY DEF ControlInv, FlagsInv, BusInv, BusWaits
<1>7. CpuInv'
  BY MemoryTypes DEF ControlInv, FlagsInv, CpuInv, CoreWaits, Serving, IsStore, IsRelease
<1>8. NoAlias' /\ CachedTags'
      /\ \A x \in Sets, w \in Way : (Valid(x, w)' <=> Valid(x, w)) /\ Place(x, w)' = Place(x, w)
  BY RamSame DEF RamKept
<1>9. LookupInv'
  <2>1. RAddr.tag = Out.tag /\ At(RAddr) = Place(rd.addr.set, HitIdx)
    BY DEF RAddr, Out, At, Place
  <2>2. HitIdx \in Way /\ rd.addr.set \in Sets /\ rd'.addr = rd.addr /\ HitIdx' = HitIdx /\ (Hit' <=> Hit)
    BY LookupKept DEF ControlInv, FlagsInv, Serving
  <2>3. "VALID" \in Out.flags => Out.tag \notin Faulty
    BY <2>2 DEF ControlInv, WayInv, CachedTags, Valid, Out
  <2>4. r.write_share => Out.tag \notin Faulty
    BY HitTags DEF ControlInv, WayInv, LookupInv
  <2> QED BY <1>8, <2>1, <2>2, <2>3, <2>4, CachedRequestFacts DEF ControlInv, WayInv, LookupInv, FlagsInv, Serving
<1>10. LinkInv'
  BY <1>8 DEF ControlInv, LinkInv, CoreWaits, RamKept, IsReserve, IsStore
<1> QED BY <1>2, <1>3, <1>4, <1>5, <1>6, <1>7, <1>8, <1>9, <1>10 DEF ControlInv, WayInv

\* dropping a line leaves the other ones alone
LEMMA DroppedFacts ==
    ASSUME ControlInv, Dropped, r.req_addr.set \in Sets, r.req_addr.way \in Way
    PROVE  /\ NoAlias' /\ CachedTags'
           /\ "VALID" \notin ram'[r.req_addr.set][r.req_addr.way].flags
           /\ \A x \in Sets, w \in Way :
                 /\ x # r.req_addr.set \/ w # r.req_addr.way => ram'[x][w] = ram[x][w]
                 /\ Valid(x, w)' => Valid(x, w) /\ ram'[x][w] = ram[x][w] /\ Place(x, w)' = Place(x, w)
<1>1. PICK d \in Line : Rewritten(r.req_addr.set, r.req_addr.way,
                                  [tag |-> r.req_addr.tag, flags |-> {}, data |-> d])
  BY DEF Dropped
<1>2. "VALID" \notin ram'[r.req_addr.set][r.req_addr.way].flags
  BY <1>1 DEF Rewritten, Valid
<1>3. \A x \in Sets, w \in Way : x # r.req_addr.set \/ w # r.req_addr.way => ram'[x][w] = ram[x][w]
  BY <1>1 DEF Rewritten
<1>4. \A x \in Sets, w \in Way :
         Valid(x, w)' => Valid(x, w) /\ ram'[x][w] = ram[x][w] /\ Place(x, w)' = Place(x, w)
  BY <1>2, <1>3 DEF Valid, Place
<1>5. NoAlias'
  BY <1>4 DEF NoAlias, ControlInv, WayInv
<1>6. CachedTags'
  BY <1>4 DEF CachedTags, ControlInv, WayInv
<1> QED BY <1>2, <1>3, <1>4, <1>5, <1>6

\* the line that was looked up becomes one with flags f and data d
OneLine(f, d) ==
    /\ HitIdx \in Way /\ r.req_addr.set \in Sets
    /\ ram'[r.req_addr.set][HitIdx] = [tag |-> r.req_addr.tag, flags |-> f, data |-> d]
    /\ \A x \in Sets, w \in Way : x = r.req_addr.set /\ w = HitIdx =>
          Valid(x, w)' /\ Place(x, w)' = At(r.req_addr)
    /\ \A x \in Sets, w \in Way : x # r.req_addr.set \/ w # HitIdx =>
          /\ ram'[x][w] = ram[x][w] /\ (Valid(x, w)' <=> Valid(x, w))
          /\ Place(x, w)' = Place(x, w)
          /\ Valid(x, w) => Place(x, w) # At(r.req_addr)

\* a line is written where the lookup found it, or where it found none
LEMMA ReplacedFacts ==
    ASSUME ControlInv, ~rd.direct, rd.addr = r.req_addr, NEW f, NEW d, "VALID" \in f,
           r.req_addr.tag \notin Uncached \cup NoAccess \cup Faulty, Replaced(f, d)
    PROVE  NoAlias' /\ CachedTags' /\ OneLine(f, d)
<1>1. HitIdx \in Way /\ r.req_addr.set \in Sets /\ \A w \in Way : WayHit(w) => w = HitIdx
  BY HitState DEF ControlInv, TypeOK, DTypeOK, WayInv
<1>2. ram'[r.req_addr.set][HitIdx] = [tag |-> r.req_addr.tag, flags |-> f, data |-> d]
  BY <1>1 DEF Replaced, Rewritten
<1>3. \A x \in Sets, w \in Way : x = r.req_addr.set /\ w = HitIdx =>
         Valid(x, w)' /\ Place(x, w)' = At(r.req_addr)
  BY <1>2 DEF Valid, Place, At
<1>4. \A x \in Sets, w \in Way : x # r.req_addr.set \/ w # HitIdx => ram'[x][w] = ram[x][w]
  BY <1>1 DEF Replaced, Rewritten
<1>5. \A x \in Sets, w \in Way : x # r.req_addr.set \/ w # HitIdx =>
                 /\ ram'[x][w] = ram[x][w] /\ (Valid(x, w)' <=> Valid(x, w))
                 /\ Place(x, w)' = Place(x, w)
                 /\ Valid(x, w) => Place(x, w) # At(r.req_addr)
  BY <1>1, <1>4 DEF Valid, Place, At, WayHit
<1>6. NoAlias'
  <2> SUFFICES ASSUME NEW x \in Sets, NEW w \in Way, NEW z \in Way, Valid(x, w)', Valid(x, z)',
                      ram'[x][w].tag = ram'[x][z].tag
               PROVE  w = z
    BY DEF NoAlias
  <2>1. CASE x # r.req_addr.set
    BY <1>5, <2>1 DEF ControlInv, WayInv, NoAlias
  <2>2. CASE x = r.req_addr.set /\ w # HitIdx /\ z # HitIdx
    BY <1>5, <2>2 DEF ControlInv, WayInv, NoAlias
  <2>3. CASE x = r.req_addr.set /\ w = HitIdx /\ z # HitIdx
    BY <1>2, <1>5, <2>3 DEF Place, At
  <2>4. CASE x = r.req_addr.set /\ w # HitIdx /\ z = HitIdx
    BY <1>2, <1>5, <2>4 DEF Place, At
  <2> QED BY <2>1, <2>2, <2>3, <2>4
<1>7. CachedTags'
  BY <1>2, <1>5 DEF CachedTags, ControlInv, WayInv
<1> QED BY <1>1, <1>2, <1>3, <1>5, <1>6, <1>7 DEF OneLine

\* State_FlushAddr: the sweep looks at its next position.
LEMMA FlushAddrControl ==
    ASSUME ControlInv, NEW in \in Ins, Step(in), FlushAddr(in)
    PROVE  ControlInv'
<1>1. PICK v \in Registers : FlushAddrDone(in, v)
  BY FlushAddrEffect
<1> USE DEF FlushAddrDone
<1>2. r.state = "FlushAddr" /\ TypeOK'
  BY <1>1, MemoryTypes DEF FlushAddr, TypeOK, DTypeOK, Taken, PortRests, PortTakes
<1> USE <1>1, <1>2 DEF Taken, ReqKept, MemKept, WritesKept, FlushLatched, LineKept, Writes
<1>3. FlagsInv'
  BY DEF ControlInv, FlagsInv
<1>4. TypeInv'
  BY DEF ControlInv, FlagsInv, TypeInv, Refilling, Bypassing, Fetches, CachedType, IsStore
<1>5. PortInv'
  BY DEF ControlInv, FlagsInv, PortInv, Serving, PortRests, PortTakes, Accepts
<1>6. BusInv'
  BY DEF ControlInv, FlagsInv, BusInv, BusWaits
<1>7. CpuInv'
  BY MemoryTypes DEF ControlInv, FlagsInv, CpuInv, CoreWaits, CpuNext, Accepts, PortTakes, Serving, IsStore, IsRelease
<1>8. NoAlias' /\ CachedTags'
      /\ \A x \in Sets, w \in Way : (Valid(x, w)' <=> Valid(x, w)) /\ Place(x, w)' = Place(x, w)
  BY RamSame DEF RamKept
<1>9. LookupInv'
  BY <1>8 DEF ControlInv, WayInv, LookupInv, FlagsInv, Serving
<1>10. LinkInv'
  BY <1>8 DEF ControlInv, LinkInv, CoreWaits, RamKept, IsReserve, IsStore
<1> QED BY <1>2, <1>3, <1>4, <1>5, <1>6, <1>7, <1>8, <1>9, <1>10 DEF ControlInv, WayInv

\* State_Reset: the sweep of the reset looks at its next position.
LEMMA ResetControl ==
    ASSUME ControlInv, NEW in \in Ins, Step(in), Reset(in)
    PROVE  ControlInv'
<1>1. PICK v \in Registers : ResetDone(in, v)
  BY ResetEffect
<1> USE DEF ResetDone
<1>2. r.state = "Reset" /\ TypeOK'
  BY <1>1, MemoryTypes DEF Reset, TypeOK, DTypeOK, Taken, PortRests, PortTakes
<1> USE <1>1, <1>2 DEF Taken, ReqKept, MemKept, WritesKept, FlushLatched, LineKept, Writes
<1>3. FlagsInv'
  BY DEF ControlInv, FlagsInv
<1>4. TypeInv'
  BY DEF ControlInv, FlagsInv, TypeInv, Refilling, Bypassing, Fetches, CachedType, IsStore
<1>5. PortInv'
  BY DEF ControlInv, FlagsInv, PortInv, Serving, PortRests, PortTakes, Accepts
<1>6. BusInv'
  BY DEF ControlInv, FlagsInv, BusInv, BusWaits
<1>7. CpuInv'
  BY MemoryTypes DEF ControlInv, FlagsInv, CpuInv, CoreWaits, CpuNext, Accepts, PortTakes, Serving, IsStore, IsRelease
<1>8. NoAlias' /\ CachedTags'
      /\ \A x \in Sets, w \in Way : (Valid(x, w)' <=> Valid(x, w)) /\ Place(x, w)' = Place(x, w)
  BY RamSame DEF RamKept
<1>9. LookupInv'
  BY <1>8 DEF ControlInv, WayInv, LookupInv, FlagsInv, Serving
<1>10. LinkInv'
  BY <1>8 DEF ControlInv, LinkInv, CoreWaits, RamKept, IsReserve, IsStore
<1> QED BY <1>2, <1>3, <1>4, <1>5, <1>6, <1>7, <1>8, <1>9, <1>10 DEF ControlInv, WayInv

\* State_ResetWrite: the line at that position is dropped.
LEMMA ResetWriteControl ==
    ASSUME ControlInv, NEW in \in Ins, Step(in), ResetWrite(in)
    PROVE  ControlInv'
<1>1. PICK v \in Registers : ResetWriteDone(in, v)
  BY ResetWriteEffect
<1> USE DEF ResetWriteDone
<1>2. r.state = "ResetWrite" /\ TypeOK'
  BY <1>1, MemoryTypes DEF ResetWrite, TypeOK, DTypeOK, Taken, PortRests, PortTakes
<1> USE <1>1, <1>2 DEF Taken, ReqKept, MemKept, WritesKept, FlushLatched, LineKept, Writes
<1>3. FlagsInv'
  BY DEF ControlInv, FlagsInv
<1>4. TypeInv'
  BY DEF ControlInv, FlagsInv, TypeInv, Refilling, Bypassing, Fetches, CachedType, IsStore
<1>5. PortInv'
  BY DEF ControlInv, FlagsInv, PortInv, Serving, PortRests, PortTakes, Accepts
<1>6. BusInv'
  BY DEF ControlInv, FlagsInv, BusInv, BusWaits
<1>7. CpuInv'
  BY MemoryTypes DEF ControlInv, FlagsInv, CpuInv, CoreWaits, CpuNext, Accepts, PortTakes, Serving, IsStore, IsRelease
<1>8. /\ NoAlias' /\ CachedTags'
      /\ \A x \in Sets, w \in Way :
            Valid(x, w)' => Valid(x, w) /\ ram'[x][w] = ram[x][w] /\ Place(x, w)' = Place(x, w)
  BY DroppedFacts DEF ControlInv, TypeOK, DTypeOK, Registers, Addr
<1>9. LookupInv'
  BY <1>8 DEF ControlInv, WayInv, LookupInv, FlagsInv, Serving
<1>10. LinkInv'
  BY <1>8 DEF ControlInv, LinkInv, CoreWaits, RamKept, IsReserve, IsStore
<1> QED BY <1>2, <1>3, <1>4, <1>5, <1>6, <1>7, <1>8, <1>9, <1>10 DEF ControlInv, WayInv

\* State_FlushCheck: the line is dropped, a dirty one written back.
LEMMA FlushCheckControl ==
    ASSUME ControlInv, NEW in \in Ins, Step(in), FlushCheck(in)
    PROVE  ControlInv'
<1>1. PICK v \in Registers : FlushCheckDone(in, v)
  BY FlushCheckEffect
<1> USE DEF FlushCheckDone
<1>2. r.state = "FlushCheck" /\ TypeOK'
  BY <1>1, MemoryTypes DEF FlushCheck, TypeOK, DTypeOK, Taken, PortRests, PortTakes
<1> USE <1>1, <1>2 DEF Taken, ReqKept, MemKept, WritesKept, FlushLatched, LineKept, Writes
<1>3. FlagsInv'
  BY DEF ControlInv, FlagsInv
<1>4. TypeInv'
  BY DEF ControlInv, FlagsInv, TypeInv, Refilling, Bypassing, Fetches, CachedType, IsStore
<1>5. PortInv'
  BY DEF ControlInv, FlagsInv, PortInv, Serving, PortRests, PortTakes, Accepts
<1>6. BusInv'
  BY DEF ControlInv, FlagsInv, BusInv, BusWaits
<1>7. CpuInv'
  BY MemoryTypes DEF ControlInv, FlagsInv, CpuInv, CoreWaits, CpuNext, Accepts, PortTakes, Serving, IsStore, IsRelease
<1>8. /\ NoAlias' /\ CachedTags'
      /\ \A x \in Sets, w \in Way :
            Valid(x, w)' => Valid(x, w) /\ ram'[x][w] = ram[x][w] /\ Place(x, w)' = Place(x, w)
  BY DroppedFacts DEF ControlInv, TypeOK, DTypeOK, Registers, Addr
<1>9. LookupInv'
  <2>1. FlushDirty => RAddr.tag \notin Faulty
    BY HitState DEF ControlInv, WayInv, CachedTags, FlushDirty, Out, RAddr, Valid, TypeOK, DTypeOK
  <2> QED BY <2>1 DEF ControlInv, WayInv, LookupInv, FlagsInv, Serving
<1>10. LinkInv'
  BY <1>8 DEF ControlInv, LinkInv, CoreWaits, RamKept, IsReserve, IsStore
<1> QED BY <1>2, <1>3, <1>4, <1>5, <1>6, <1>7, <1>8, <1>9, <1>10 DEF ControlInv, WayInv

\* State_CheckHit, load with reserve: the reservation is the core's.
LEMMA CheckHitReserveControl ==
    ASSUME ControlInv, NEW in \in Ins, Step(in), CheckHitReserve(in)
    PROVE  ControlInv'
<1>1. PICK v \in Registers : CheckHitReserveDone(in, v)
  BY CheckHitReserveEffect
<1> USE DEF CheckHitReserveDone
<1>2. r.state = "CheckHit" /\ Hit /\ ~IsStore /\ IsReserve /\ TypeOK'
  BY <1>1, MemoryTypes DEF CheckHitReserve, TypeOK, DTypeOK, Taken, PortRests, PortTakes
<1> USE <1>1, <1>2 DEF Taken, ReqKept, MemKept, WritesKept, FlushLatched, LineKept, Writes
<1>a. ~rd.direct /\ rd.addr = r.req_addr
  BY DEF ControlInv, FlagsInv, PortInv, Serving
<1>b. cpu # None /\ cpu.addr = r.req_addr /\ cpu.type = r.req_type
  BY DEF ControlInv, FlagsInv, CpuInv, Serving
<1>3. FlagsInv'
  BY DEF ControlInv, FlagsInv
<1>4. TypeInv'
  BY DEF ControlInv, FlagsInv, TypeInv, Refilling, Bypassing, Fetches, CachedType, IsStore
<1>5. PortInv'
  BY DEF ControlInv, FlagsInv, PortInv, Serving, PortRests, PortTakes, Accepts
<1>6. BusInv'
  BY DEF ControlInv, FlagsInv, BusInv, BusWaits
<1>7. CpuInv'
  BY MemoryTypes DEF ControlInv, FlagsInv, CpuInv, CoreWaits, CpuNext, Accepts, PortTakes, Serving, IsStore, IsRelease
<1>8. NoAlias' /\ CachedTags' /\ OneLine(Out.flags \cup {"RESERVED"}, ZeroExtended(CachedData))
  <2>1. r.req_addr.tag \notin Uncached \cup NoAccess \cup Faulty /\ "VALID" \in Out.flags
    BY <1>a, HitTags DEF Valid, Out
  <2> QED BY <1>a, <2>1, ReplacedFacts
<1>9. LookupInv'
  BY <1>8 DEF ControlInv, WayInv, LookupInv, FlagsInv, Serving
<1>10. LinkInv'
  BY <1>8, <1>b DEF ControlInv, LinkInv, OneLine, Answered, IsReserve, IsStore
<1> QED BY <1>2, <1>3, <1>4, <1>5, <1>6, <1>7, <1>8, <1>9, <1>10 DEF ControlInv, WayInv

\* State_CheckResp: the line is filled where the lookup found none.
LEMMA CheckRespFillControl ==
    ASSUME ControlInv, NEW in \in Ins, Step(in), CheckRespFill(in)
    PROVE  ControlInv'
<1>1. PICK v \in Registers : CheckRespFillDone(in, v)
  BY CheckRespFillEffect
<1> USE DEF CheckRespFillDone
<1>2. r.state = "CheckResp" /\ ~r.load_fault /\ CachedType(r.mem_type) /\ TypeOK'
  BY <1>1, MemoryTypes DEF CheckRespFill, TypeOK, DTypeOK, Taken, PortRests, PortTakes
<1> USE <1>1, <1>2 DEF Taken, ReqKept, MemKept, WritesKept, FlushLatched, LineKept, Writes
<1>a. ~rd.direct /\ rd.addr = r.req_addr
  BY DEF ControlInv, FlagsInv, PortInv, Serving
<1>b. cpu # None /\ cpu.addr = r.req_addr /\ cpu.type = r.req_type
  BY DEF ControlInv, FlagsInv, CpuInv, Serving
<1> DEFINE f == IF IsStore THEN {"VALID", "DIRTY"}
                ELSE {"VALID", "SHARED"} \cup (IF IsReserve THEN {"RESERVED"} ELSE {})
           d == IF IsStore THEN Modified(r.line_i) ELSE r.line_i
<1>3. FlagsInv'
  BY DEF ControlInv, FlagsInv
<1>4. TypeInv'
  BY DEF ControlInv, FlagsInv, TypeInv, Refilling, Bypassing, Fetches, CachedType, IsStore
<1>5. PortInv'
  BY DEF ControlInv, FlagsInv, PortInv, Serving, PortRests, PortTakes, Accepts
<1>6. BusInv'
  BY DEF ControlInv, FlagsInv, BusInv, BusWaits
<1>7. CpuInv'
  BY MemoryTypes DEF ControlInv, FlagsInv, CpuInv, CoreWaits, CpuNext, Accepts, PortTakes, Serving, IsStore, IsRelease
<1>8. NoAlias' /\ CachedTags' /\ OneLine(f, d)
  <2>1. r.req_addr.tag \notin Uncached \cup NoAccess \cup Faulty
    BY DEF ControlInv, FlagsInv, TypeInv, Refilling, CachedType, Fetches
  <2>2. Replaced(f, d) /\ "VALID" \in f
    OBVIOUS
  <2> HIDE DEF f, d
  <2> QED BY <1>a, <2>1, <2>2, ReplacedFacts
<1>9. LookupInv'
  BY <1>8 DEF ControlInv, WayInv, LookupInv, FlagsInv, Serving
<1>10. LinkInv'
  BY <1>8, <1>b DEF ControlInv, LinkInv, OneLine, Answered, CoreWaits, IsReserve, IsStore
<1> QED BY <1>2, <1>3, <1>4, <1>5, <1>6, <1>7, <1>8, <1>9, <1>10 DEF ControlInv, WayInv
\* State_Idle: a request is taken, or a flush begun.
LEMMA IdleControl ==
    ASSUME ControlInv, NEW in \in Ins, Step(in), Idle(in)
    PROVE  ControlInv'
<1>1. PICK v \in Registers : IdleDone(in, v)
  BY IdleEffect
<1> USE DEF IdleDone
<1>2. r.state = "Idle" /\ TypeOK'
  BY <1>1, MemoryTypes DEF Idle, TypeOK, DTypeOK, Taken, PortRests, PortTakes
<1> USE <1>1, <1>2 DEF Taken, ReqKept, MemKept, WritesKept, FlushLatched, LineKept, Writes
<1>r. in.req # None =>
         /\ [type |-> in.req.type, addr |-> in.addr, wdata |-> in.req.wdata]
               \in [type : MemopTypes, addr : Addr, wdata : Values]
         /\ [type |-> in.req.type, addr |-> in.addr, wdata |-> in.req.wdata] # None
  <2>1. in.addr \in Addr /\ (in.req # None => in.req \in Requests)
    BY InFacts DEF ControlInv
  <2>2. in.req # None => in.req.type \in MemopTypes /\ in.req.wdata \in Values
    BY <2>1 DEF Requests
  <2> QED BY <2>1, <2>2, NoneAssumption
<1>3. FlagsInv'
  BY DEF ControlInv, FlagsInv, PortTakes, Accepts
<1>4. TypeInv'
  BY DEF ControlInv, FlagsInv, TypeInv, Refilling, Bypassing, Fetches, CachedType, IsStore, PortTakes, Accepts
<1>5. PortInv'
  BY DEF ControlInv, FlagsInv, PortInv, Serving, PortRests, PortTakes, Accepts
<1>6. BusInv'
  BY DEF ControlInv, FlagsInv, BusInv, BusWaits, PortTakes, Accepts
<1>7. CpuInv'
  BY <1>r, MemoryTypes DEF ControlInv, FlagsInv, CpuInv, CoreWaits, CpuNext, Accepts, PortTakes, Serving, IsStore, IsRelease
<1>8. NoAlias' /\ CachedTags'
      /\ \A x \in Sets, w \in Way : (Valid(x, w)' <=> Valid(x, w)) /\ Place(x, w)' = Place(x, w)
  BY RamSame DEF RamKept
<1>9. LookupInv'
  BY <1>8 DEF ControlInv, WayInv, LookupInv, FlagsInv, Serving, PortTakes, Accepts
<1>10. LinkInv'
  BY <1>8 DEF ControlInv, LinkInv, CoreWaits, RamKept, IsReserve, IsStore, PortTakes, Accepts
<1> QED BY <1>2, <1>3, <1>4, <1>5, <1>6, <1>7, <1>8, <1>9, <1>10 DEF ControlInv, WayInv

\* State_CheckHit, load: the next request may be taken with the answer.
LEMMA CheckHitLoadControl ==
    ASSUME ControlInv, NEW in \in Ins, Step(in), CheckHitLoad(in)
    PROVE  ControlInv'
<1>1. PICK v \in Registers : CheckHitLoadDone(in, v)
  BY CheckHitLoadEffect
<1> USE DEF CheckHitLoadDone
<1>2. r.state = "CheckHit" /\ Hit /\ ~IsStore /\ ~IsReserve /\ TypeOK'
  BY <1>1, MemoryTypes DEF CheckHitLoad, TypeOK, DTypeOK, Taken, PortRests, PortTakes
<1> USE <1>1, <1>2 DEF Taken, ReqKept, MemKept, WritesKept, FlushLatched, LineKept, Writes
<1>r. in.req # None =>
         /\ [type |-> in.req.type, addr |-> in.addr, wdata |-> in.req.wdata]
               \in [type : MemopTypes, addr : Addr, wdata : Values]
         /\ [type |-> in.req.type, addr |-> in.addr, wdata |-> in.req.wdata] # None
  <2>1. in.addr \in Addr /\ (in.req # None => in.req \in Requests)
    BY InFacts DEF ControlInv
  <2>2. in.req # None => in.req.type \in MemopTypes /\ in.req.wdata \in Values
    BY <2>1 DEF Requests
  <2> QED BY <2>1, <2>2, NoneAssumption
<1>b. cpu # None /\ cpu.addr = r.req_addr /\ cpu.type = r.req_type
  BY DEF ControlInv, FlagsInv, CpuInv, Serving
<1>3. FlagsInv'
  BY DEF ControlInv, FlagsInv, PortTakes, Accepts
<1>4. TypeInv'
  BY DEF ControlInv, FlagsInv, TypeInv, Refilling, Bypassing, Fetches, CachedType, IsStore, PortTakes, Accepts
<1>5. PortInv'
  BY DEF ControlInv, FlagsInv, PortInv, Serving, PortRests, PortTakes, Accepts
<1>6. BusInv'
  BY DEF ControlInv, FlagsInv, BusInv, BusWaits, PortTakes, Accepts
<1>7. CpuInv'
  BY <1>r, MemoryTypes DEF ControlInv, FlagsInv, CpuInv, CoreWaits, CpuNext, Accepts, PortTakes, Serving, IsStore, IsRelease
<1>8. NoAlias' /\ CachedTags'
      /\ \A x \in Sets, w \in Way : (Valid(x, w)' <=> Valid(x, w)) /\ Place(x, w)' = Place(x, w)
  BY RamSame DEF RamKept
<1>9. LookupInv'
  BY <1>8 DEF ControlInv, WayInv, LookupInv, FlagsInv, Serving, PortTakes, Accepts
<1>10. LinkInv'
  BY <1>8, <1>b DEF ControlInv, LinkInv, CoreWaits, RamKept, IsReserve, IsStore, PortTakes, Accepts, Answered
<1> QED BY <1>2, <1>3, <1>4, <1>5, <1>6, <1>7, <1>8, <1>9, <1>10 DEF ControlInv, WayInv

\* State_CheckHit, store: the line is dirty, its reservation gone.
LEMMA CheckHitStoreControl ==
    ASSUME ControlInv, NEW in \in Ins, Step(in), CheckHitStore(in)
    PROVE  ControlInv'
<1>1. PICK v \in Registers : CheckHitStoreDone(in, v)
  BY CheckHitStoreEffect
<1> USE DEF CheckHitStoreDone
<1>2. r.state = "CheckHit" /\ Hit /\ IsStore /\ TypeOK'
  BY <1>1, MemoryTypes DEF CheckHitStore, TypeOK, DTypeOK, Taken, PortRests, PortTakes
<1>a. ~rd.direct /\ rd.addr = r.req_addr /\ r.req_addr.tag \notin Uncached \cup NoAccess \cup Faulty
      /\ "VALID" \in Out.flags
  BY <1>2, HitTags DEF ControlInv, FlagsInv, PortInv, Serving, Out, Valid
<1>b. cpu # None /\ cpu.addr = r.req_addr /\ cpu.type = r.req_type
  BY <1>2 DEF ControlInv, FlagsInv, CpuInv, Serving
<1>r. in.req # None =>
         /\ [type |-> in.req.type, addr |-> in.addr, wdata |-> in.req.wdata]
               \in [type : MemopTypes, addr : Addr, wdata : Values]
         /\ [type |-> in.req.type, addr |-> in.addr, wdata |-> in.req.wdata] # None
  <2>1. in.addr \in Addr /\ (in.req # None => in.req \in Requests)
    BY InFacts DEF ControlInv
  <2>2. in.req # None => in.req.type \in MemopTypes /\ in.req.wdata \in Values
    BY <2>1 DEF Requests
  <2> QED BY <2>1, <2>2, NoneAssumption
<1>f. ~r.write_share /\ ~r.write_flush /\ ~r.write_first
  BY <1>2 DEF ControlInv, FlagsInv
<1>c. v.state \in {"Idle", "TranslateAddress", "FlushAddr", "CheckHit"}
      /\ (v.state = "TranslateAddress" <=> v.write_share)
      /\ (v.state = "TranslateAddress" => PortRests /\ v.req_addr = r.req_addr)
      /\ (v.state = "CheckHit" => PortTakes(in, v) /\ CpuNext(in, None))
      /\ (PortRests \/ PortTakes(in, v))
      /\ (cpu' = None \/ CpuNext(in, None))
      /\ (v.req_flush => in.flush \/ r.req_flush)
      /\ (v.state # "CheckHit" \/ (PortTakes(in, v) /\ CpuNext(in, None)))
  BY <1>1, <1>f DEF PortTakes, Accepts, FlushLatched
<1>d. linked' = linked \ {At(r.req_addr)}
  <2>1. \/ Answered([data |-> 1, fault |-> FALSE])
        \/ \E x \in Values \cup {0, 1} : Answered([data |-> x, fault |-> FALSE])
    BY <1>1, Zenon
  <2>2. ASSUME NEW rsp, Answered(rsp) PROVE linked' = linked \ {At(r.req_addr)}
    BY <1>2, <1>b, <2>2 DEF Answered, IsStore
  <2> QED BY <2>1, <2>2
<1> USE <1>2, <1>f, <1>c DEF Taken, Writes
<1>3. FlagsInv'
  BY <1>1 DEF ControlInv, FlagsInv, PortTakes, Accepts
<1>4. TypeInv'
  BY <1>1 DEF TypeInv, Refilling, Bypassing
<1>5. PortInv'
  BY <1>1 DEF ControlInv, FlagsInv, PortInv, Serving, PortRests, PortTakes, Accepts
<1>6. BusInv'
  BY <1>1 DEF ControlInv, FlagsInv, BusInv, BusWaits
<1>7. CpuInv'
  BY <1>1, <1>r, MemoryTypes DEF ControlInv, CpuInv, CpuNext, Accepts, PortTakes, Serving
<1>8. \/ ram' = ram /\ ReleaseFails /\ ~v.write_share
      \/ Replaced({"VALID", "DIRTY"}, Modified(Out.data))
  BY <1>1
<1>9. CASE ram' = ram /\ ReleaseFails /\ ~v.write_share
  <2>1. NoAlias' /\ CachedTags'
        /\ \A x \in Sets, w \in Way : (Valid(x, w)' <=> Valid(x, w)) /\ Place(x, w)' = Place(x, w)
    BY <1>9, RamSame
  <2>2. LookupInv'
    BY <1>1, <1>9 DEF LookupInv, Serving
  <2>4. \A x \in Sets, w \in Way :
           Valid(x, w) /\ Place(x, w) = At(r.req_addr) => "RESERVED" \notin ram[x][w].flags
    <3>1. \A w \in Way : WayHit(w) => w = HitIdx
      BY <1>a, HitState DEF ControlInv, TypeOK, DTypeOK, WayInv
    <3> QED BY <1>a, <1>9, <3>1 DEF ReleaseFails, Out, Valid, Place, At, WayHit
  <2>5. LinkInv'
    BY <1>d, <1>9, <2>1, <2>4 DEF ControlInv, LinkInv
  <2> QED BY <1>3, <1>4, <1>5, <1>6, <1>7, <2>1, <2>2, <2>5 DEF ControlInv, WayInv
<1>10. CASE Replaced({"VALID", "DIRTY"}, Modified(Out.data))
  <2> DEFINE f == {"VALID", "DIRTY"}
             d == Modified(Out.data)
  <2>1. NoAlias' /\ CachedTags' /\ OneLine(f, d)
    BY <1>a, <1>10, ReplacedFacts
  <2>2. v.state = "TranslateAddress" => Hit'
    <3> SUFFICES ASSUME v.state = "TranslateAddress" PROVE Hit'
      OBVIOUS
    <3>1. PortRests
      OBVIOUS
    <3>2. PICK w \in Way : w = HitIdx /\ ram'[r.req_addr.set][w].tag = r.req_addr.tag
                          /\ "VALID" \in ram'[r.req_addr.set][w].flags
      BY <2>1 DEF OneLine
    <3>3. WayHit(w)'
      BY <3>1, <3>2 DEF WayHit, PortRests
    <3> QED BY <2>1, <3>1, <3>3, HitNext DEF PortRests
  <2>3. LookupInv'
    BY <1>1, <2>2 DEF LookupInv, Serving
  <2>5. LinkInv'
    BY <1>d, <2>1 DEF OneLine, ControlInv, LinkInv
  <2> QED BY <1>3, <1>4, <1>5, <1>6, <1>7, <2>1, <2>3, <2>5 DEF ControlInv, WayInv
<1> QED BY <1>8, <1>9, <1>10
----------------------------------------------------------------------------
(***************************************************************************)
(* Reset establishes the invariant: DCacheLru_r_reset and the reset of the *)
(* memories leave no valid line, no request and no write on the way.       *)
(***************************************************************************)
LEMMA ControlInit == Init => ControlInv
<1> SUFFICES ASSUME Init PROVE ControlInv
  OBVIOUS
<1>0. 0 \in 0 .. FLUSH_ALL_VALUE
  <2>1. NSets * Ways \in Nat \ {0}
    BY NWayAssumption
  <2> QED BY <2>1 DEF FLUSH_ALL_VALUE
<1>1. /\ ZeroAddr \in Addr /\ ZeroLine \in Line /\ {} \in MemopTypes /\ 0 \in Values
      /\ 0 \in 0 .. FLUSH_ALL_VALUE
  BY <1>0, Bounds, DataAssumption DEF ZeroAddr, Addr, ZeroLine, Line, MemopTypes
<1>2. /\ r.state = "Reset" /\ ~r.mem_valid /\ ~r.write_first /\ ~r.write_flush /\ ~r.write_share
      /\ ~r.load_fault /\ r.req_flush /\ ~r.req_flush_all
      /\ ~rd.invalidate /\ cpu = None /\ bus = None /\ load \in Workloads /\ linked = {}
  BY DEF Init, DInit, TagInit
<1>3. r \in Registers
  <2> HIDE DEF ZeroAddr, ZeroLine, Line, Addr, MemopTypes, FLUSH_ALL_VALUE
  <2> QED BY <1>1 DEF Init, DInit, Registers, States, MemTypes, SnoopTypes
<1>4. TagTypeOK
  <2>1. rd \in ReadRegisters
    BY <1>1 DEF Init, DInit, TagInit, ReadRegisters
  <2>2. [tag |-> 0, flags |-> {}, data |-> ZeroLine] \in Entry
    BY <1>1, DataAssumption DEF Entry
  <2>3. ram \in [Sets -> [Way -> Entry]]
    BY <2>2 DEF Init, DInit, TagInit
  <2>4. lru \in [Sets -> [Way -> Way]]
    BY Bounds DEF Init, DInit, TagInit
  <2> QED BY <2>1, <2>3, <2>4 DEF TagTypeOK
<1>5. TypeOK
  BY <1>1, <1>2, <1>3, <1>4 DEF TypeOK, DTypeOK, Init
<1>6. \A s \in Sets, w \in Way : ~Valid(s, w)
  BY DEF Init, DInit, TagInit, Valid
<1>7. FlagsInv /\ TypeInv /\ PortInv /\ BusInv /\ CpuInv
  BY <1>2 DEF FlagsInv, TypeInv, PortInv, BusInv, CpuInv, Serving, Refilling, Bypassing, Writes
<1>8. WayInv /\ LinkInv
  BY <1>2, <1>6 DEF WayInv, NoAlias, CachedTags, LookupInv, LinkInv, Serving
<1> QED BY <1>5, <1>7, <1>8 DEF ControlInv

(***************************************************************************)
(* Every clock keeps the invariant: one case per state of comb().  The two *)
(* snoop states are not reached, since this core has no neighbour.         *)
(***************************************************************************)
LEMMA ControlStep == ControlInv /\ [Next]_vars => ControlInv'
<1> SUFFICES ASSUME ControlInv, [Next]_vars PROVE ControlInv'
  OBVIOUS
<1>1. ASSUME NEW in \in Ins, Step(in) PROVE ControlInv'
  <2>1. r.state \notin {"SnoopSetupAddr", "SnoopReadData"}
    BY DEF ControlInv, FlagsInv
  <2>2. \/ Idle(in) \/ CheckHitStore(in) \/ CheckHitReserve(in) \/ CheckHitLoad(in)
        \/ CheckMiss(in) \/ TranslateFault(in) \/ TranslateCached(in)
        \/ TranslateUncached(in) \/ WaitGrant(in) \/ WaitResp(in)
        \/ CheckRespDirect(in) \/ CheckRespFill(in) \/ SetupReadAdr(in)
        \/ WriteBus(in) \/ FlushAddr(in) \/ FlushCheck(in) \/ Reset(in)
        \/ ResetWrite(in)
    BY <1>1, <2>1 DEF Step, Clock, SnoopSetupAddr, SnoopReadData
  <2>3. CASE Idle(in)
    BY <1>1, <2>3, IdleControl
  <2>4. CASE CheckHitStore(in)
    BY <1>1, <2>4, CheckHitStoreControl
  <2>5. CASE CheckHitReserve(in)
    BY <1>1, <2>5, CheckHitReserveControl
  <2>6. CASE CheckHitLoad(in)
    BY <1>1, <2>6, CheckHitLoadControl
  <2>7. CASE CheckMiss(in)
    BY <1>1, <2>7, CheckMissControl
  <2>8. CASE TranslateFault(in)
    BY <1>1, <2>8, TranslateFaultControl
  <2>9. CASE TranslateCached(in)
    BY <1>1, <2>9, TranslateCachedControl
  <2>10. CASE TranslateUncached(in)
    BY <1>1, <2>10, TranslateUncachedControl
  <2>11. CASE WaitGrant(in)
    BY <1>1, <2>11, WaitGrantControl
  <2>12. CASE WaitResp(in)
    BY <1>1, <2>12, WaitRespControl
  <2>13. CASE CheckRespDirect(in)
    BY <1>1, <2>13, CheckRespDirectControl
  <2>14. CASE CheckRespFill(in)
    BY <1>1, <2>14, CheckRespFillControl
  <2>15. CASE SetupReadAdr(in)
    BY <1>1, <2>15, SetupReadAdrControl
  <2>16. CASE WriteBus(in)
    BY <1>1, <2>16, WriteBusControl
  <2>17. CASE FlushAddr(in)
    BY <1>1, <2>17, FlushAddrControl
  <2>18. CASE FlushCheck(in)
    BY <1>1, <2>18, FlushCheckControl
  <2>19. CASE Reset(in)
    BY <1>1, <2>19, ResetControl
  <2>20. CASE ResetWrite(in)
    BY <1>1, <2>20, ResetWriteControl
  <2> QED BY <2>2, <2>3, <2>4, <2>5, <2>6, <2>7, <2>8, <2>9, <2>10, <2>11, <2>12, <2>13,
             <2>14, <2>15, <2>16, <2>17, <2>18, <2>19, <2>20
<1>2. CASE UNCHANGED vars
  <2>1. /\ r' = r /\ ram' = ram /\ lru' = lru /\ rd' = rd /\ mem' = mem /\ bus' = bus
        /\ cpu' = cpu /\ load' = load /\ golden' = golden /\ linked' = linked
    BY <1>2 DEF vars, state, dvars
  <2> USE <2>1
  <2>2. TypeOK' /\ FlagsInv' /\ TypeInv' /\ PortInv' /\ BusInv' /\ CpuInv'
    BY DEF ControlInv, TypeOK, DTypeOK, TagTypeOK, FlagsInv, TypeInv, PortInv, BusInv, CpuInv,
           Writes, Serving, Refilling, Bypassing, IsStore, IsRelease
  <2>3. NoAlias' /\ CachedTags' /\ LinkInv'
    BY DEF ControlInv, WayInv, NoAlias, CachedTags, LinkInv, Valid, Place, IsReserve, IsStore
  <2>4. (Hit' <=> Hit) /\ HitIdx' = HitIdx
    BY DEF Hit, HitIdx, WayHit, Lru0!Lru
  <2>5. LookupInv'
    BY <2>4 DEF ControlInv, WayInv, LookupInv, Serving, Writes, Place
  <2> QED BY <2>2, <2>3, <2>5 DEF ControlInv, WayInv
<1> QED BY <1>1, <1>2 DEF Next

(***************************************************************************)
(* In every reachable state of the data cache the control invariant holds. *)
(***************************************************************************)
THEOREM ControlAlways == Spec => []ControlInv
  BY ControlInit, ControlStep, PTL DEF Spec

(***************************************************************************)
(* Type correctness of registers, tag memory, memory and reservations.     *)
(***************************************************************************)
THEOREM TypeCorrect == Spec => []TypeOK
<1>1. ControlInv => TypeOK
  BY DEF ControlInv
<1> QED BY <1>1, ControlAlways, PTL

(***************************************************************************)
(* The line shown to the queue of CacheTop does not change while the write *)
(* it belongs to is on the bus (o_req_mem_data of dcache_lru.cpp).         *)
(***************************************************************************)
THEOREM WriteDataHeld == Spec => []WriteDataStable
<1>1. ControlInv => WriteDataStable
  BY DEF ControlInv, BusInv, WriteDataStable
<1> QED BY <1>1, ControlAlways, PTL

(***************************************************************************)
(* The answer of a clock (o_resp_valid) goes to the request taken last, is *)
(* given in three states of the machine only, and a store conditional that *)
(* it reports done had its reservation.                                    *)
(***************************************************************************)
LEMMA AnswerFacts ==
    ASSUME ControlInv, NEW in \in Ins, Step(in), Resp(in) # None
    PROVE  /\ cpu # None /\ resp' = Judge(Resp(in)) /\ Judge(Resp(in)) \notin {"unasked", "unlinked"}
           /\ cpu = [type |-> r.req_type, addr |-> r.req_addr, wdata |-> r.req_wdata]
<1>1. \/ r.state = "CheckHit" /\ Hit
      \/ r.state = "CheckResp"
      \/ r.state = "WriteBus" /\ ~Writes
  BY DEF Resp, Writes
<1>2. Serving
  BY <1>1 DEF ControlInv, FlagsInv, Serving, Writes
<1>3. /\ cpu = [type |-> r.req_type, addr |-> r.req_addr, wdata |-> r.req_wdata]
      /\ cpu # None /\ (r.state # "CheckHit" => ~(IsStore /\ IsRelease))
      /\ rd.addr = r.req_addr /\ ~rd.direct
  BY <1>2 DEF ControlInv, CpuInv, PortInv
<1>4. resp' = Judge(Resp(in))
  BY DEF Step, Core
<1>5. Judge(Resp(in)) # "unasked"
  BY <1>3 DEF Judge
<1>6. ASSUME Judge(Resp(in)) = "unlinked" PROVE FALSE
  <2>1. Stored(Resp(in)) /\ "Release" \in cpu.type /\ At(cpu.addr) \notin linked
    BY <1>6 DEF Judge
  <2>2. IsStore /\ IsRelease /\ Resp(in).data = 0 /\ At(r.req_addr) \notin linked
    BY <1>3, <2>1 DEF Stored, IsStore, IsRelease
  <2>3. r.state = "CheckHit" /\ Hit
    BY <1>1, <1>3, <2>2
  <2>4. ~ReleaseFails
    BY <2>2, <2>3 DEF Resp
  <2>5. "RESERVED" \in Out.flags
    BY <2>2, <2>4 DEF ReleaseFails
  <2>6. /\ HitIdx \in Way /\ rd.addr.set \in Sets
        /\ Valid(rd.addr.set, HitIdx) /\ Place(rd.addr.set, HitIdx) = At(rd.addr)
    BY <2>3, HitTags
  <2> QED BY <1>3, <2>2, <2>5, <2>6 DEF ControlInv, LinkInv, Out
<1> QED BY <1>3, <1>4, <1>5, <1>6

(***************************************************************************)
(* A store conditional reports success only under a reservation that no    *)
(* store of the core has ended (State_CheckHit, ISFLAG_RESERVED), whatever *)
(* refills, evictions and flushes come between.                            *)
(***************************************************************************)
THEOREM ReleaseReserved == Spec => []ReleaseNeedsReserve
<1>1. Init => ReleaseNeedsReserve
  BY NoneAssumption DEF Init, ReleaseNeedsReserve
<1>2. ControlInv /\ ReleaseNeedsReserve /\ [Next]_vars => ReleaseNeedsReserve'
  <2>1. ASSUME ControlInv, NEW in \in Ins, Step(in) PROVE ReleaseNeedsReserve'
    <3>1. CASE Resp(in) = None
      BY <2>1, <3>1, NoneAssumption DEF ReleaseNeedsReserve, Step, Core
    <3>2. CASE Resp(in) # None
      BY <2>1, <3>2, AnswerFacts DEF ReleaseNeedsReserve
    <3> QED BY <3>1, <3>2
  <2>2. ASSUME ReleaseNeedsReserve, UNCHANGED vars PROVE ReleaseNeedsReserve'
    BY <2>2 DEF vars, state, ReleaseNeedsReserve
  <2> QED BY <2>1, <2>2 DEF Next
<1> QED BY <1>1, <1>2, ControlAlways, PTL DEF Spec

(***************************************************************************)
(* What the data cache makes of its data: proofs that loads, evictions and *)
(* flushes lose no store, for every size of the cache.                     *)
(*                                                                         *)
(* DataInv says for every line where its newest contents are: in the       *)
(* cache, in the memory or on the way there; SweepInv says that a flush    *)
(* leaves nothing behind the position it has reached.  Both rest on the    *)
(* control invariant.                                                      *)
(***************************************************************************)
\* the cache has a line of place p
Held(p) == \E w \in Way : Valid(p[2], w) /\ ram[p[2]][w].tag = p[1]

\* a line dropped by the sweep of a flush is on its way to the memory
Leaving == r.write_flush /\ r.state \in {"WaitGrant", "WriteBus"}

\* a line of the cache is as new as the core knows it
LinesNewest == \A s \in Sets, w \in Way : Valid(s, w) => ram[s][w].data = golden[Place(s, w)]

\* a clean one is in the memory, too
CleanLines ==
    \A s \in Sets, w \in Way : Valid(s, w) /\ "DIRTY" \notin ram[s][w].flags
                                 => ram[s][w].data = mem[Place(s, w)]

\* what is not in the cache is newest in the memory, or on its way there
MemNewest ==
    \A p \in Places : mem[p] = golden[p] \/ Held(p) \/ (Leaving /\ p = At(r.mem_addr))

\* the line, or word, being written is the newest
WriteNewest ==
    /\ r.state \in {"WaitGrant", "WriteBus"} /\ Writes => r.line_o = golden[At(r.mem_addr)]
    /\ Bypassing /\ r.mem_type = "WriteNoSnoop" => r.line_o[0] = r.req_wdata

\* the line a refill will displace is safe in the memory
VictimSaved ==
    Refilling /\ Valid(rd.addr.set, HitIdx) =>
       mem[Place(rd.addr.set, HitIdx)] = golden[Place(rd.addr.set, HitIdx)]

\* the line, or word, read from the bus is the newest
AnswerNewest ==
    /\ Refilling /\ r.state = "CheckResp" => r.line_i = golden[At(r.req_addr)]
    /\ Bypassing /\ r.state = "CheckResp" =>
          r.line_i[0] = golden[At(r.req_addr)][r.req_addr.word]

\* during the reset the cache is empty
ResetEmpty ==
    r.state \in {"Reset", "ResetWrite"} => \A s \in Sets, w \in Way : ~Valid(s, w)

DataInv ==
    /\ LinesNewest /\ CleanLines /\ MemNewest /\ WriteNewest /\ VictimSaved /\ AnswerNewest
    /\ ResetEmpty

\* the sweep visits (s, w) before address a
Before(s, w, a) == s < a.set \/ (s = a.set /\ w < a.way)

\* a flush in progress: its counter fits its position, and what is behind is empty
SweepInv ==
    r.state \in {"FlushAddr", "FlushCheck"} \/ Leaving =>
       /\ r.flush_cnt = (NSets - 1 - r.req_addr.set) * Ways + (Ways - 1 - r.req_addr.way)
       /\ \A s \in Sets, w \in Way : Before(s, w, r.req_addr) => ~Valid(s, w)

----------------------------------------------------------------------------
\* Facts that every clock uses

(***************************************************************************)
(* A clock that writes neither the cache nor the memory nor the record of  *)
(* the stores leaves every line as new as it was.                          *)
(***************************************************************************)
LEMMA SameData ==
    ASSUME DataInv, ram' = ram, mem' = mem, golden' = golden,
           Leaving => Leaving' /\ r'.mem_addr = r.mem_addr
    PROVE  LinesNewest' /\ CleanLines' /\ MemNewest'
<1>1. \A s \in Sets, w \in Way : (Valid(s, w)' <=> Valid(s, w)) /\ Place(s, w)' = Place(s, w)
  BY DEF Valid, Place
<1>2. LinesNewest' /\ CleanLines'
  BY <1>1 DEF DataInv, LinesNewest, CleanLines
<1>3. \A p \in Places : Held(p) => Held(p)'
  BY DEF Held, Valid
<1>4. MemNewest'
  BY <1>3 DEF DataInv, MemNewest, At
<1> QED BY <1>2, <1>4

(***************************************************************************)
(* In these states of the machine nothing is on its way to the bus, to the *)
(* cache or past it.                                                       *)
(***************************************************************************)
LEMMA NothingOnTheWay ==
    ASSUME r'.state \in {"Idle", "CheckHit", "TranslateAddress", "SetupReadAdr", "FlushAddr",
                         "FlushCheck"}
    PROVE  WriteNewest' /\ VictimSaved' /\ AnswerNewest' /\ ResetEmpty' /\ ~Leaving'
  BY DEF WriteNewest, VictimSaved, AnswerNewest, ResetEmpty, Leaving, Refilling, Bypassing

(***************************************************************************)
(* Addresses of requests are places of the memory.                         *)
(***************************************************************************)
LEMMA PlaceFacts ==
    ASSUME ControlInv
    PROVE  /\ At(r.req_addr) \in Places /\ At(r.mem_addr) \in Places
           /\ r.req_addr \in Addr /\ r.mem_addr \in Addr /\ r.req_addr.word \in Words
           /\ \A s \in Sets, w \in Way : Place(s, w) \in Places /\ ram[s][w].data \in Line
<1>1. r.req_addr \in Addr /\ r.mem_addr \in Addr /\ ram \in [Sets -> [Way -> Entry]]
  BY DEF ControlInv, TypeOK, DTypeOK, TagTypeOK, Registers
<1> QED BY <1>1 DEF At, Places, Place, Addr, Entry

(***************************************************************************)
(* A line the lookup does not find (State_CheckHit, no hit) is newest in   *)
(* the memory.                                                             *)
(***************************************************************************)
LEMMA MissNewest ==
    ASSUME ControlInv, DataInv, Serving, ~Hit
    PROVE  mem[At(r.req_addr)] = golden[At(r.req_addr)]
<1>1. ~rd.direct /\ rd.addr = r.req_addr /\ ~Leaving
  BY DEF ControlInv, PortInv, Serving, Leaving
<1>2. r.req_addr.set \in Sets
  BY PlaceFacts DEF Addr
<1>3. ~Held(At(r.req_addr))
  BY <1>1, <1>2, MissPlaces DEF Held, Place, At
<1> QED BY <1>1, <1>3, PlaceFacts DEF DataInv, MemNewest

(***************************************************************************)
(* Lines of uncached tags are never in the cache: they are newest in the   *)
(* memory.                                                                 *)
(***************************************************************************)
LEMMA UncachedNewest ==
    ASSUME ControlInv, DataInv, Serving, r.req_addr.tag \in Uncached
    PROVE  mem[At(r.req_addr)] = golden[At(r.req_addr)]
<1>1. ~Leaving
  BY DEF Serving, Leaving
<1>2. r.req_addr.set \in Sets
  BY PlaceFacts DEF Addr
<1>3. ~Held(At(r.req_addr))
  BY <1>2 DEF Held, At, ControlInv, WayInv, CachedTags
<1> QED BY <1>1, <1>3, PlaceFacts DEF DataInv, MemNewest

----------------------------------------------------------------------------
\* One lemma per state of the machine: its clock keeps DataInv

\* State_WaitGrant: the line shown to the bus does not change.
LEMMA WaitGrantData ==
    ASSUME ControlInv, DataInv, NEW in \in Ins, Step(in), WaitGrant(in)
    PROVE  DataInv'
<1>1. PICK v \in Registers : WaitGrantDone(in, v)
  BY WaitGrantEffect
<1>2. r.state = "WaitGrant"
  BY DEF WaitGrant
<1> USE <1>1, <1>2 DEF WaitGrantDone, Taken, ReqKept, MemKept, WritesKept, LineKept, CoreWaits, RamKept
<1>3. LinesNewest' /\ CleanLines' /\ MemNewest'
  <2>1. Leaving => Leaving' /\ r'.mem_addr = r.mem_addr
    BY DEF Leaving, Writes
  <2> QED BY <2>1, SameData
<1>4. WriteNewest'
  BY DEF DataInv, WriteNewest, Writes, Bypassing, At
<1>5. VictimSaved'
  <2> SUFFICES ASSUME Refilling' PROVE VictimSaved'
    BY DEF VictimSaved
  <2>1. Refilling /\ Serving
    BY DEF Refilling, Serving, Writes
  <2>2. rd'.addr = rd.addr /\ HitIdx' = HitIdx /\ mem' = mem /\ golden' = golden
    BY <2>1, LookupKept
  <2> QED BY <2>1, <2>2 DEF DataInv, VictimSaved, Valid, Place
<1>6. AnswerNewest' /\ ResetEmpty'
  BY DEF AnswerNewest, ResetEmpty
<1> QED BY <1>3, <1>4, <1>5, <1>6 DEF DataInv

\* State_CheckHit, miss: nothing is written.
LEMMA CheckMissData ==
    ASSUME ControlInv, DataInv, NEW in \in Ins, Step(in), CheckMiss(in)
    PROVE  DataInv'
<1>1. PICK v \in Registers : CheckMissDone(in, v)
  BY CheckMissEffect
<1>2. r.state = "CheckHit" /\ r'.state \in {"Idle", "TranslateAddress"}
  BY <1>1 DEF CheckMiss, CheckMissDone, Taken
<1>3. ram' = ram /\ mem' = mem /\ golden' = golden /\ ~Leaving
  BY <1>1, <1>2 DEF CheckMissDone, RamKept, BusWaits, CoreWaits, Leaving
<1> QED BY <1>2, <1>3, SameData, NothingOnTheWay DEF DataInv

\* State_TranslateAddress, refused: nothing is written.
LEMMA TranslateFaultData ==
    ASSUME ControlInv, DataInv, NEW in \in Ins, Step(in), TranslateFault(in)
    PROVE  DataInv'
<1>1. PICK v \in Registers : TranslateFaultDone(in, v)
  BY TranslateFaultEffect
<1>2. r.state = "TranslateAddress" /\ r'.state = "CheckResp" /\ r'.load_fault
  BY <1>1 DEF TranslateFault, TranslateFaultDone, Taken
<1>3. ram' = ram /\ mem' = mem /\ golden' = golden /\ ~Leaving
  BY <1>1, <1>2 DEF TranslateFaultDone, RamKept, BusWaits, CoreWaits, Leaving
<1>4. WriteNewest' /\ VictimSaved' /\ AnswerNewest' /\ ResetEmpty'
  BY <1>2 DEF WriteNewest, VictimSaved, AnswerNewest, ResetEmpty, Refilling, Bypassing
<1> QED BY <1>3, <1>4, SameData DEF DataInv

\* State_TranslateAddress, uncached: the word goes past the cache.
LEMMA TranslateUncachedData ==
    ASSUME ControlInv, DataInv, NEW in \in Ins, Step(in), TranslateUncached(in)
    PROVE  DataInv'
<1>1. PICK v \in Registers : TranslateUncachedDone(in, v)
  BY TranslateUncachedEffect
<1>2. r.state = "TranslateAddress" /\ r.req_addr.tag \in Uncached
  BY DEF TranslateUncached
<1>3. ~r.write_share /\ ~r.write_flush /\ ~r.write_first
  <2>1. ASSUME r.write_share PROVE FALSE
    <3>1. Hit /\ rd.addr = r.req_addr
      BY <1>2, <2>1 DEF ControlInv, WayInv, LookupInv, PortInv
    <3> QED BY <1>2, <3>1, HitTags
  <2> QED BY <1>2, <2>1 DEF ControlInv, FlagsInv
<1>4. ram' = ram /\ mem' = mem /\ golden' = golden /\ ~Leaving
  BY <1>1, <1>2 DEF TranslateUncachedDone, RamKept, BusWaits, CoreWaits, Leaving
<1> USE <1>1, <1>2, <1>3 DEF TranslateUncachedDone, Taken, ReqKept, WritesKept
<1>5. ~Writes' /\ ~Refilling'
  BY DEF Writes, Refilling, Fetches
<1>6. WriteNewest'
  BY <1>5 DEF WriteNewest
<1>7. VictimSaved' /\ AnswerNewest' /\ ResetEmpty'
  BY <1>5 DEF VictimSaved, AnswerNewest, ResetEmpty
<1> QED BY <1>4, <1>6, <1>7, SameData DEF DataInv

\* State_TranslateAddress, cached: a dirty victim is written back first.
LEMMA TranslateCachedData ==
    ASSUME ControlInv, DataInv, NEW in \in Ins, Step(in), TranslateCached(in)
    PROVE  DataInv'
<1>1. PICK v \in Registers : TranslateCachedDone(in, v)
  BY TranslateCachedEffect
<1>2. r.state = "TranslateAddress" /\ ~r.write_flush /\ ~r.write_first
  BY DEF TranslateCached, ControlInv, FlagsInv
<1>3. ram' = ram /\ mem' = mem /\ golden' = golden /\ ~Leaving
  BY <1>1, <1>2 DEF TranslateCachedDone, RamKept, BusWaits, CoreWaits, Leaving
<1>4. LinesNewest' /\ CleanLines' /\ MemNewest'
  BY <1>3, SameData
<1>5. /\ HitIdx \in Way /\ rd.addr.set \in Sets /\ rd'.addr = rd.addr /\ HitIdx' = HitIdx
  <2>1. Serving \/ r.write_share
    BY <1>2 DEF Serving
  <2> QED BY <1>1, <2>1, LookupKept DEF TranslateCachedDone
<1>6. At(RAddr) = Place(rd.addr.set, HitIdx) /\ Out = ram[rd.addr.set][HitIdx]
  BY DEF At, RAddr, Place, Out
<1>7. r.write_share => Valid(rd.addr.set, HitIdx)
  BY <1>2, HitTags DEF ControlInv, WayInv, LookupInv
<1> USE <1>1, <1>2 DEF TranslateCachedDone, Taken
<1>8. WriteNewest'
  <2>1. ASSUME Writes' PROVE r'.line_o = golden'[At(r'.mem_addr)]
    <3>1. CachedRequest.addr = RAddr /\ Valid(rd.addr.set, HitIdx)
      BY <1>6, <1>7, <2>1, CachedRequestFacts DEF Writes, Valid
    <3>2. Out.data = golden[At(RAddr)]
      BY <1>5, <1>6, <3>1 DEF DataInv, LinesNewest
    <3> QED BY <1>3, <3>1, <3>2 DEF At
  <2>2. r'.mem_type # "WriteNoSnoop"
    BY CachedRequestFacts
  <2> QED BY <2>1, <2>2 DEF WriteNewest
<1>9. VictimSaved'
  <2> SUFFICES ASSUME Refilling', Valid(rd.addr.set, HitIdx)
               PROVE  mem[Place(rd.addr.set, HitIdx)] = golden[Place(rd.addr.set, HitIdx)]
    BY <1>3, <1>5 DEF VictimSaved, Valid, Place
  <2>1. ~({"VALID", "DIRTY"} \subseteq Out.flags)
    BY CachedRequestFacts DEF Refilling, Writes
  <2>2. "DIRTY" \notin Out.flags
    BY <1>6, <2>1 DEF Valid
  <2> QED BY <1>5, <1>6, <2>2 DEF DataInv, LinesNewest, CleanLines
<1>10. AnswerNewest' /\ ResetEmpty'
  BY DEF AnswerNewest, ResetEmpty
<1> QED BY <1>4, <1>8, <1>9, <1>10 DEF DataInv

\* State_WaitResp: the memory answers with the newest line.
LEMMA WaitRespData ==
    ASSUME ControlInv, DataInv, NEW in \in Ins, Step(in), WaitResp(in)
    PROVE  DataInv'
<1>1. PICK v \in Registers : WaitRespDone(in, v)
  BY WaitRespEffect
<1>2. r.state = "WaitResp" /\ ~Writes /\ Serving
  BY DEF WaitResp, ControlInv, FlagsInv, Writes, Serving
<1>3. ~Hit
  BY <1>2 DEF ControlInv, WayInv, LookupInv
<1>m. mem' = mem
  <2>1. CASE in.mem = None
    BY <1>1, <2>1 DEF WaitRespDone, BusWaits
  <2>2. CASE in.mem # None
    <3>1. r.mem_type \in Fetches \cup {"ReadNoSnoop"}
      BY <1>2 DEF ControlInv, TypeInv
    <3> QED BY <2>2, <3>1, BusAnswer DEF MemWritten, Fetches
  <2> QED BY <2>1, <2>2
<1>4. ram' = ram /\ golden' = golden /\ ~Leaving
  BY <1>1, <1>2 DEF WaitRespDone, RamKept, CoreWaits, Leaving, Serving
<1>5. LinesNewest' /\ CleanLines' /\ MemNewest'
  BY <1>4, <1>m, SameData
<1> USE <1>1, <1>2 DEF WaitRespDone, Taken, ReqKept, MemKept, WritesKept
<1>6. ~Writes' /\ (Refilling' => Refilling) /\ (Bypassing' => Bypassing)
  BY DEF Writes, Refilling, Bypassing, LineKept
<1>7. WriteNewest'
  <2>1. Bypassing' /\ r'.mem_type = "WriteNoSnoop" => FALSE
    BY DEF ControlInv, TypeInv, Fetches
  <2> QED BY <1>6, <2>1 DEF WriteNewest
<1>8. VictimSaved'
  <2>1. rd'.addr = rd.addr /\ HitIdx' = HitIdx
    BY LookupKept
  <2> QED BY <1>4, <1>m, <1>6, <2>1 DEF DataInv, VictimSaved, Valid, Place
<1>9. ASSUME r'.state = "CheckResp" PROVE r'.line_i = MemRead
  BY <1>9, BusAnswer
<1>10. AnswerNewest'
  <2>1. ASSUME Refilling', r'.state = "CheckResp" PROVE r'.line_i = golden'[At(r'.req_addr)]
    <3>1. r'.line_i = mem[At(r.req_addr)]
      BY <1>6, <1>9, <2>1, LineAddrFacts, PlaceFacts DEF MemRead, Refilling, ControlInv, TypeInv
    <3> QED BY <1>3, <1>4, <3>1, MissNewest DEF At
  <2>2. ASSUME Bypassing', r'.state = "CheckResp"
        PROVE  r'.line_i[0] = golden'[At(r'.req_addr)][r'.req_addr.word]
    <3>1. r.mem_type = "ReadNoSnoop" /\ r.mem_addr = r.req_addr /\ r.req_addr.tag \in Uncached
      BY <1>6, <2>2 DEF ControlInv, TypeInv, Bypassing, Fetches
    <3>2. r'.line_i[0] = mem[At(r.req_addr)][r.req_addr.word]
      BY <1>9, <2>2, <3>1, DataAssumption DEF MemRead, Fetches, ZeroExtended
    <3> QED BY <1>4, <3>1, <3>2, UncachedNewest DEF At
  <2> QED BY <2>1, <2>2 DEF AnswerNewest
<1>11. ResetEmpty'
  BY DEF ResetEmpty
<1> QED BY <1>5, <1>7, <1>8, <1>10, <1>11 DEF DataInv

(***************************************************************************)
(* What an answer does to the record of the stores: a store reported done  *)
(* is recorded, a load, a fault and a failed store conditional are not.    *)
(***************************************************************************)
LEMMA StoresRecorded ==
    ASSUME ControlInv, Serving, NEW rsp, Answered(rsp)
    PROVE  /\ ~IsStore \/ rsp.fault \/ (IsRelease /\ rsp.data # 0) => golden' = golden
           /\ IsStore /\ ~rsp.fault /\ (IsRelease => rsp.data = 0) =>
                 golden' = [golden EXCEPT ![At(r.req_addr)][r.req_addr.word] = r.req_wdata]
<1>1. cpu = [type |-> r.req_type, addr |-> r.req_addr, wdata |-> r.req_wdata] /\ cpu # None
  BY DEF ControlInv, CpuInv
<1> QED BY <1>1 DEF Answered, Stored, IsStore, IsRelease

(***************************************************************************)
(* A store recorded in a line: the words of that line alone.               *)
(***************************************************************************)
LEMMA RecordFacts ==
    ASSUME ControlInv, NEW d \in Line, golden[At(r.req_addr)] = d,
           golden' = [golden EXCEPT ![At(r.req_addr)][r.req_addr.word] = r.req_wdata]
    PROVE  /\ golden'[At(r.req_addr)] = Modified(d)
           /\ \A p \in Places : p # At(r.req_addr) => golden'[p] = golden[p]
<1>1. golden \in [Places -> Line] /\ At(r.req_addr) \in Places
  BY PlaceFacts DEF ControlInv, TypeOK
<1>2. golden'[At(r.req_addr)] = [golden[At(r.req_addr)] EXCEPT ![r.req_addr.word] = r.req_wdata]
  BY <1>1
<1> QED BY <1>1, <1>2 DEF Modified

\* State_SetupReadAdr writes nothing.
LEMMA SetupReadAdrData ==
    ASSUME ControlInv, DataInv, NEW in \in Ins, Step(in), SetupReadAdr(in)
    PROVE  DataInv'
<1>1. PICK v \in Registers : SetupReadAdrDone(in, v)
  BY SetupReadAdrEffect
<1>2. r.state = "SetupReadAdr" /\ r'.state = "CheckHit"
  BY <1>1 DEF SetupReadAdr, SetupReadAdrDone, Taken
<1>3. ram' = ram /\ mem' = mem /\ golden' = golden /\ ~Leaving
  BY <1>1, <1>2 DEF SetupReadAdrDone, RamKept, BusWaits, CoreWaits, Leaving
<1> QED BY <1>2, <1>3, SameData, NothingOnTheWay DEF DataInv

\* State_FlushAddr writes nothing.
LEMMA FlushAddrData ==
    ASSUME ControlInv, DataInv, NEW in \in Ins, Step(in), FlushAddr(in)
    PROVE  DataInv'
<1>1. PICK v \in Registers : FlushAddrDone(in, v)
  BY FlushAddrEffect
<1>2. r.state = "FlushAddr" /\ r'.state = "FlushCheck"
  BY <1>1 DEF FlushAddr, FlushAddrDone, Taken
<1>3. ram' = ram /\ mem' = mem /\ golden' = golden /\ ~Leaving
  BY <1>1, <1>2 DEF FlushAddrDone, BusWaits, CoreWaits, Leaving
<1> QED BY <1>2, <1>3, SameData, NothingOnTheWay DEF DataInv

\* State_Reset: the cache is empty during the reset.
LEMMA ResetData ==
    ASSUME ControlInv, DataInv, NEW in \in Ins, Step(in), Reset(in)
    PROVE  DataInv'
<1>1. PICK v \in Registers : ResetDone(in, v)
  BY ResetEffect
<1>2. r.state = "Reset" /\ r'.state = "ResetWrite"
  BY <1>1 DEF Reset, ResetDone, Taken
<1>3. ram' = ram /\ mem' = mem /\ golden' = golden /\ ~Leaving
  BY <1>1, <1>2 DEF ResetDone, BusWaits, CoreWaits, Leaving
<1>4. WriteNewest' /\ VictimSaved' /\ AnswerNewest'
  BY <1>2 DEF WriteNewest, VictimSaved, AnswerNewest, Refilling, Bypassing
<1>5. ResetEmpty'
  BY <1>2, <1>3 DEF DataInv, ResetEmpty, Valid
<1> QED BY <1>3, <1>4, <1>5, SameData DEF DataInv

\* State_Idle writes nothing.
LEMMA IdleData ==
    ASSUME ControlInv, DataInv, NEW in \in Ins, Step(in), Idle(in)
    PROVE  DataInv'
<1>1. PICK v \in Registers : IdleDone(in, v)
  BY IdleEffect
<1>2. r.state = "Idle" /\ r'.state \in {"Idle", "CheckHit", "FlushAddr"}
  BY <1>1 DEF Idle, IdleDone, Taken, PortTakes, Accepts
<1>3. ram' = ram /\ mem' = mem /\ golden' = golden /\ ~Leaving
  BY <1>1, <1>2 DEF IdleDone, BusWaits, Leaving
<1> QED BY <1>2, <1>3, SameData, NothingOnTheWay DEF DataInv

\* State_CheckHit, load: the answer is not a store.
LEMMA CheckHitLoadData ==
    ASSUME ControlInv, DataInv, NEW in \in Ins, Step(in), CheckHitLoad(in)
    PROVE  DataInv'
<1>1. PICK v \in Registers : CheckHitLoadDone(in, v)
  BY CheckHitLoadEffect
<1>2. r.state = "CheckHit" /\ ~IsStore /\ r'.state \in {"Idle", "CheckHit", "FlushAddr"}
  BY <1>1 DEF CheckHitLoad, CheckHitLoadDone, Taken, PortTakes, Accepts
<1>3. Serving
  BY <1>2 DEF Serving, ControlInv, FlagsInv
<1>4. ram' = ram /\ mem' = mem /\ golden' = golden /\ ~Leaving
  BY <1>1, <1>2, <1>3, StoresRecorded DEF CheckHitLoadDone, BusWaits, Leaving
<1> QED BY <1>2, <1>4, SameData, NothingOnTheWay DEF DataInv

\* State_CheckResp without a line: a fault is not a store done.
LEMMA CheckRespDirectData ==
    ASSUME ControlInv, DataInv, NEW in \in Ins, Step(in), CheckRespDirect(in)
    PROVE  DataInv'
<1>1. PICK v \in Registers : CheckRespDirectDone(in, v)
  BY CheckRespDirectEffect
<1>2. r.state = "CheckResp" /\ (r.load_fault \/ ~CachedType(r.mem_type)) /\ r'.state = "Idle"
  BY <1>1 DEF CheckRespDirect, CheckRespDirectDone, Taken
<1>3. Serving /\ ~Writes
  BY <1>2 DEF Serving, ControlInv, FlagsInv, Writes
<1>4. ~IsStore \/ r.load_fault
  BY <1>2, <1>3 DEF ControlInv, TypeInv, Bypassing, Fetches, CachedType
<1>5. golden' = golden
  <2> DEFINE rsp == [data |-> r.line_i[0], fault |-> r.load_fault]
  <2>1. Answered(rsp) /\ rsp.fault = r.load_fault
    BY <1>1 DEF CheckRespDirectDone
  <2> HIDE DEF rsp
  <2> QED BY <1>3, <1>4, <2>1, StoresRecorded
<1>6. ram' = ram /\ mem' = mem /\ ~Leaving
  BY <1>1, <1>2 DEF CheckRespDirectDone, RamKept, BusWaits, Leaving
<1> QED BY <1>2, <1>5, <1>6, SameData, NothingOnTheWay DEF DataInv

\* State_ResetWrite: what it drops was empty.
LEMMA ResetWriteData ==
    ASSUME ControlInv, DataInv, NEW in \in Ins, Step(in), ResetWrite(in)
    PROVE  DataInv'
<1>1. PICK v \in Registers : ResetWriteDone(in, v)
  BY ResetWriteEffect
<1>2. r.state = "ResetWrite" /\ r'.state \in {"Idle", "Reset"}
  BY <1>1 DEF ResetWrite, ResetWriteDone, Taken
<1>3. mem' = mem /\ golden' = golden /\ ~Leaving /\ Dropped
  BY <1>1, <1>2 DEF ResetWriteDone, BusWaits, CoreWaits, Leaving
<1>4. \A s \in Sets, w \in Way : ~Valid(s, w) /\ ~Valid(s, w)'
  <2>1. r.req_addr.set \in Sets /\ r.req_addr.way \in Way
    BY PlaceFacts DEF Addr
  <2> QED BY <1>2, <1>3, <2>1, DroppedFacts DEF DataInv, ResetEmpty
<1>5. LinesNewest' /\ CleanLines' /\ ResetEmpty'
  BY <1>4 DEF LinesNewest, CleanLines, ResetEmpty
<1>6. MemNewest'
  <2>1. \A p \in Places : ~Held(p)
    BY <1>4 DEF Held, Places
  <2> QED BY <1>3, <2>1 DEF DataInv, MemNewest
<1>7. WriteNewest' /\ VictimSaved' /\ AnswerNewest'
  BY <1>2 DEF WriteNewest, VictimSaved, AnswerNewest, Refilling, Bypassing
<1> QED BY <1>5, <1>6, <1>7 DEF DataInv

\* State_FlushCheck: a dropped line is in the memory or on its way there.
LEMMA FlushCheckData ==
    ASSUME ControlInv, DataInv, NEW in \in Ins, Step(in), FlushCheck(in)
    PROVE  DataInv'
<1>1. PICK v \in Registers : FlushCheckDone(in, v)
  BY FlushCheckEffect
<1>2. r.state = "FlushCheck" /\ rd.direct /\ rd.addr = r.req_addr
  BY DEF FlushCheck, ControlInv, PortInv
<1>3. mem' = mem /\ golden' = golden /\ ~Leaving /\ Dropped
  BY <1>1, <1>2 DEF FlushCheckDone, BusWaits, CoreWaits, Leaving
<1> DEFINE s0 == r.req_addr.set
           w0 == r.req_addr.way
<1>4. s0 \in Sets /\ w0 \in Way /\ HitIdx = w0 /\ Out = ram[s0][w0] /\ At(RAddr) = Place(s0, w0)
  <2>1. s0 \in Sets /\ w0 \in Way
    BY PlaceFacts DEF Addr
  <2>2. HitIdx = w0
    BY <1>2 DEF HitIdx
  <2> QED BY <1>2, <2>1, <2>2 DEF Out, RAddr, At, Place
<1>5. \A s \in Sets, w \in Way :
         /\ s # s0 \/ w # w0 => ram'[s][w] = ram[s][w]
         /\ Valid(s, w)' => Valid(s, w) /\ ram'[s][w] = ram[s][w] /\ Place(s, w)' = Place(s, w)
  BY <1>3, <1>4, DroppedFacts
<1> HIDE DEF s0, w0
<1>6. LinesNewest' /\ CleanLines'
  BY <1>3, <1>5 DEF DataInv, LinesNewest, CleanLines
<1>7. \A p \in Places : Held(p) /\ p # Place(s0, w0) => Held(p)'
  <2> SUFFICES ASSUME NEW p \in Places, Held(p), p # Place(s0, w0) PROVE Held(p)'
    OBVIOUS
  <2>1. PICK w \in Way : Valid(p[2], w) /\ ram[p[2]][w].tag = p[1]
    BY DEF Held
  <2>2. p[2] \in Sets /\ p = <<p[1], p[2]>>
    BY DEF Places
  <2>3. p[2] # s0 \/ w # w0
    BY <2>1, <2>2 DEF Place
  <2> QED BY <1>5, <2>1, <2>2, <2>3 DEF Held, Valid
<1> USE <1>1 DEF FlushCheckDone, Taken
<1>8. CASE FlushDirty
  <2>1. /\ r'.state = "WaitGrant" /\ r'.write_flush /\ r'.mem_addr = RAddr /\ r'.mem_type = "WriteBack"
        /\ r'.line_o = Out.data
    BY <1>8
  <2>2. Valid(s0, w0)
    BY <1>4, <1>8 DEF FlushDirty, Valid
  <2>3. MemNewest'
    BY <1>3, <1>4, <1>7, <2>1 DEF DataInv, MemNewest, Leaving, At
  <2>4. WriteNewest'
    <3>1. Out.data = golden[At(RAddr)]
      BY <1>4, <2>2 DEF DataInv, LinesNewest
    <3> QED BY <1>3, <2>1, <3>1 DEF WriteNewest, At
  <2>5. VictimSaved' /\ AnswerNewest' /\ ResetEmpty'
    BY <2>1 DEF VictimSaved, AnswerNewest, ResetEmpty, Refilling, Bypassing, Writes
  <2> QED BY <1>6, <2>3, <2>4, <2>5 DEF DataInv
<1>9. CASE ~FlushDirty
  <2>1. r'.state \in {"Idle", "FlushAddr"}
    BY <1>9
  <2>2. Valid(s0, w0) => mem[Place(s0, w0)] = golden[Place(s0, w0)]
    BY <1>4, <1>9 DEF DataInv, LinesNewest, CleanLines, FlushDirty, Valid
  <2>3. MemNewest'
    <3>1. ~Valid(s0, w0) => \A p \in Places : Held(p) => Held(p)'
      <4> SUFFICES ASSUME ~Valid(s0, w0), NEW p \in Places, Held(p) PROVE Held(p)'
        OBVIOUS
      <4>1. PICK w \in Way : Valid(p[2], w) /\ ram[p[2]][w].tag = p[1]
        BY DEF Held
      <4>2. p[2] \in Sets
        BY DEF Places
      <4> QED BY <1>5, <4>1, <4>2 DEF Held, Valid
    <3> QED BY <1>3, <1>7, <2>2, <3>1 DEF DataInv, MemNewest
  <2> QED BY <1>6, <2>1, <2>3, NothingOnTheWay DEF DataInv
<1> QED BY <1>8, <1>9

(***************************************************************************)
(* A line that arrived on the bus (State_WriteBus: upgrade, write back of  *)
(* a displaced line or of the sweep) makes the memory as new as the cache. *)
(***************************************************************************)
LEMMA LineArrives ==
    ASSUME ControlInv, DataInv, r.state = "WriteBus", Writes, MemWritten, ram' = ram, golden' = golden
    PROVE  LinesNewest' /\ CleanLines' /\ MemNewest' /\ mem'[At(r.mem_addr)] = golden[At(r.mem_addr)]
<1>1. r.mem_type \in {"WriteBack", "WriteLineUnique"} /\ r.mem_addr.tag \notin Faulty
  BY DEF ControlInv, TypeInv, WayInv, LookupInv, Writes
<1>2. mem \in [Places -> Line] /\ At(r.mem_addr) \in Places /\ r.line_o = golden[At(r.mem_addr)]
  BY PlaceFacts DEF ControlInv, TypeOK, DataInv, WriteNewest
<1>3. /\ mem'[At(r.mem_addr)] = golden[At(r.mem_addr)]
      /\ \A p \in Places : p # At(r.mem_addr) => mem'[p] = mem[p]
  BY <1>1, <1>2 DEF MemWritten
<1>4. \A s \in Sets, w \in Way : /\ Valid(s, w)' <=> Valid(s, w)
                                 /\ Place(s, w)' = Place(s, w) /\ Place(s, w) \in Places
  BY PlaceFacts DEF Valid, Place
<1>5. LinesNewest'
  BY <1>4 DEF DataInv, LinesNewest
<1>6. CleanLines'
  BY <1>3, <1>4 DEF DataInv, LinesNewest, CleanLines
<1>7. MemNewest'
  <2>1. \A p \in Places : Held(p) => Held(p)'
    BY DEF Held, Valid
  <2> QED BY <1>3, <2>1 DEF DataInv, MemNewest
<1> QED BY <1>3, <1>5, <1>6, <1>7

\* State_WriteBus: the memory gets the newest line, or the word stored.
LEMMA WriteBusData ==
    ASSUME ControlInv, DataInv, NEW in \in Ins, Step(in), WriteBus(in)
    PROVE  DataInv'
<1>1. PICK v \in Registers : WriteBusDone(in, v)
  BY WriteBusEffect
<1>2. r.state = "WriteBus" /\ ram' = ram
  BY <1>1 DEF WriteBus, WriteBusDone, RamKept
<1> USE <1>2 DEF Taken, ReqKept, WritesKept, LineKept
<1>3. CASE BusWaits /\ v.state = "WriteBus"
  <2>1. /\ mem' = mem /\ golden' = golden /\ MemKept(v) /\ WritesKept(v) /\ r'.state = "WriteBus"
    BY <1>1, <1>3 DEF WriteBusDone, BusWaits, CoreWaits
  <2>2. LinesNewest' /\ CleanLines' /\ MemNewest'
    <3>1. Leaving => Leaving' /\ r'.mem_addr = r.mem_addr
      BY <1>1, <2>1 DEF WriteBusDone, Leaving, MemKept
    <3> QED BY <2>1, <3>1, SameData
  <2>3. WriteNewest'
    BY <1>1, <2>1 DEF WriteBusDone, DataInv, WriteNewest, Writes, Bypassing, At, MemKept
  <2>4. VictimSaved' /\ AnswerNewest' /\ ResetEmpty'
    BY <2>1 DEF VictimSaved, AnswerNewest, ResetEmpty, Refilling
  <2> QED BY <2>2, <2>3, <2>4 DEF DataInv
<1>4. CASE MemWritten /\ Writes /\ golden' = golden /\ v.state \in {"Idle", "FlushAddr"}
  <2>1. r'.state \in {"Idle", "FlushAddr"}
    BY <1>1, <1>4 DEF WriteBusDone
  <2> QED BY <1>4, <2>1, LineArrives, NothingOnTheWay DEF DataInv
<1>5. CASE /\ MemWritten /\ Writes /\ golden' = golden /\ v.state = "WaitGrant"
           /\ ~r.write_share /\ ~r.write_flush /\ r.write_first
  <2>1. LinesNewest' /\ CleanLines' /\ MemNewest' /\ mem'[At(r.mem_addr)] = golden[At(r.mem_addr)]
    BY <1>5, LineArrives
  <2>2. ~Writes' /\ r'.mem_type \in Fetches /\ r'.state = "WaitGrant"
    BY <1>1, <1>5 DEF WriteBusDone, Writes, Fetches
  <2>3. WriteNewest' /\ AnswerNewest' /\ ResetEmpty'
    BY <2>2 DEF WriteNewest, AnswerNewest, ResetEmpty, Bypassing
  <2>4. VictimSaved'
    <3>1. rd'.addr = rd.addr /\ HitIdx' = HitIdx
      <4>1. Serving
        BY <1>5 DEF Serving
      <4> QED BY <1>1, <4>1, LookupKept DEF WriteBusDone
    <3>2. At(r.mem_addr) = Place(rd.addr.set, HitIdx)
      BY <1>5 DEF ControlInv, WayInv, LookupInv
    <3> QED BY <1>5, <2>1, <3>1, <3>2 DEF VictimSaved, Place
  <2> QED BY <2>1, <2>3, <2>4 DEF DataInv
<1>6. CASE MemWritten /\ ~Writes /\ v.state = "Idle"
  <2> DEFINE p0 == At(r.req_addr)
             rsp == [data |-> 0, fault |-> r.mem_addr.tag \in Faulty]
  <2>1. Serving /\ Bypassing /\ r.mem_type = "WriteNoSnoop"
    BY <1>6 DEF Serving, Bypassing, ControlInv, FlagsInv, TypeInv, Writes, Fetches
  <2>2. /\ r.mem_addr = r.req_addr /\ r.req_addr.tag \in Uncached /\ IsStore
        /\ r.line_o[0] = r.req_wdata
    BY <2>1 DEF ControlInv, TypeInv, DataInv, WriteNewest
  <2>3. Answered(rsp) /\ rsp.data = 0 /\ rsp.fault = (r.req_addr.tag \in Faulty)
    BY <1>1, <1>6, <2>2 DEF WriteBusDone, Writes, BusWaits
  <2> HIDE DEF rsp
  <2>4. mem[p0] = golden[p0] /\ p0 \in Places /\ mem \in [Places -> Line] /\ golden \in [Places -> Line]
    BY <2>1, <2>2, UncachedNewest, PlaceFacts DEF ControlInv, TypeOK
  <2>5. \/ mem' = mem /\ golden' = golden
        \/ /\ mem' = [mem EXCEPT ![p0][r.req_addr.word] = r.req_wdata]
           /\ golden' = [golden EXCEPT ![p0][r.req_addr.word] = r.req_wdata]
    BY <1>6, <2>1, <2>2, <2>3, StoresRecorded DEF MemWritten
  <2>6. mem'[p0] = golden'[p0] /\ \A p \in Places : p # p0 => mem'[p] = mem[p] /\ golden'[p] = golden[p]
    BY <2>4, <2>5
  <2>7. \A s \in Sets, w \in Way : /\ Valid(s, w)' <=> Valid(s, w)
                                   /\ Place(s, w)' = Place(s, w) /\ Place(s, w) \in Places
                                   /\ Valid(s, w) => Place(s, w) # p0
    BY <2>2, PlaceFacts DEF Valid, Place, At, ControlInv, WayInv, CachedTags
  <2>8. LinesNewest' /\ CleanLines'
    BY <2>6, <2>7 DEF DataInv, LinesNewest, CleanLines
  <2>9. MemNewest'
    <3>1. \A p \in Places : Held(p) => Held(p)'
      BY DEF Held, Valid
    <3> QED BY <1>6, <2>6, <3>1 DEF DataInv, MemNewest, Leaving, Writes
  <2>10. r'.state = "Idle"
    BY <1>1, <1>6 DEF WriteBusDone
  <2> QED BY <2>8, <2>9, <2>10, NothingOnTheWay DEF DataInv
<1>7. \/ BusWaits /\ v.state = "WriteBus"
      \/ MemWritten /\ Writes /\ golden' = golden /\ v.state \in {"Idle", "FlushAddr"}
      \/ /\ MemWritten /\ Writes /\ golden' = golden /\ v.state = "WaitGrant"
         /\ ~r.write_share /\ ~r.write_flush /\ r.write_first
      \/ MemWritten /\ ~Writes /\ v.state = "Idle"
  BY <1>1 DEF WriteBusDone, Writes, CoreWaits
<1> QED BY <1>3, <1>4, <1>5, <1>6, <1>7

(***************************************************************************)
(* A line written into the cache (line_we_i): it holds what the core last  *)
(* stored, it is dirty unless the memory has it, and the line it displaces *)
(* is safe in the memory.                                                  *)
(***************************************************************************)
LEMMA LineFills ==
    ASSUME ControlInv, DataInv, NEW f, NEW d, OneLine(f, d), mem' = mem, ~Leaving,
           golden'[At(r.req_addr)] = d,
           \A p \in Places : p # At(r.req_addr) => golden'[p] = golden[p],
           "DIRTY" \in f \/ mem[At(r.req_addr)] = d,
           Valid(r.req_addr.set, HitIdx) =>
              \/ Place(r.req_addr.set, HitIdx) = At(r.req_addr)
              \/ mem[Place(r.req_addr.set, HitIdx)] = golden[Place(r.req_addr.set, HitIdx)]
    PROVE  LinesNewest' /\ CleanLines' /\ MemNewest'
<1> DEFINE p0 == At(r.req_addr)
<1>0. PICK s0 \in Sets, w0 \in Way : s0 = r.req_addr.set /\ w0 = HitIdx
  BY DEF OneLine
<1>1. /\ s0 \in Sets /\ w0 \in Way
      /\ ram'[s0][w0].flags = f /\ ram'[s0][w0].data = d /\ ram'[s0][w0].tag = p0[1] /\ s0 = p0[2]
      /\ Valid(s0, w0)' /\ Place(s0, w0)' = p0
  BY <1>0 DEF OneLine, At
<1>2. \A x \in Sets, w \in Way : x # s0 \/ w # w0 =>
          /\ ram'[x][w] = ram[x][w] /\ (Valid(x, w)' <=> Valid(x, w))
          /\ Place(x, w)' = Place(x, w)
          /\ Valid(x, w) => Place(x, w) # p0
  BY <1>0 DEF OneLine
<1>3. \A x \in Sets, w \in Way : Place(x, w) \in Places
  BY PlaceFacts
<1>h. "DIRTY" \in f \/ mem[p0] = d
  OBVIOUS
<1>g. golden'[p0] = d /\ \A p \in Places : p # p0 => golden'[p] = golden[p]
  OBVIOUS
<1>v. Valid(s0, w0) => Place(s0, w0) = p0 \/ mem[Place(s0, w0)] = golden[Place(s0, w0)]
  BY <1>0
<1> HIDE DEF p0
<1>4. LinesNewest'
  <2> SUFFICES ASSUME NEW x \in Sets, NEW w \in Way, Valid(x, w)'
               PROVE  ram'[x][w].data = golden'[Place(x, w)']
    BY DEF LinesNewest
  <2>1. CASE x = s0 /\ w = w0
    BY <1>1, <1>g, <2>1
  <2>2. CASE x # s0 \/ w # w0
    BY <1>2, <1>3, <1>g, <2>2 DEF DataInv, LinesNewest
  <2> QED BY <2>1, <2>2
<1>5. CleanLines'
  <2> SUFFICES ASSUME NEW x \in Sets, NEW w \in Way, Valid(x, w)', "DIRTY" \notin ram'[x][w].flags
               PROVE  ram'[x][w].data = mem'[Place(x, w)']
    BY DEF CleanLines
  <2>1. CASE x = s0 /\ w = w0
    BY <1>1, <1>h, <2>1
  <2>2. CASE x # s0 \/ w # w0
    BY <1>2, <2>2 DEF DataInv, CleanLines
  <2> QED BY <2>1, <2>2
<1>6. MemNewest'
  <2> SUFFICES ASSUME NEW p \in Places PROVE mem'[p] = golden'[p] \/ Held(p)'
    BY DEF MemNewest
  <2>1. CASE p = p0
    BY <1>1, <2>1 DEF Held, Valid
  <2>2. CASE p # p0 /\ ~Held(p)
    BY <1>g, <2>2 DEF DataInv, MemNewest
  <2>3. CASE p # p0 /\ Held(p)
    <3>1. PICK w \in Way : Valid(p[2], w) /\ ram[p[2]][w].tag = p[1]
      BY <2>3 DEF Held
    <3>2. p[2] \in Sets /\ p = <<p[1], p[2]>> /\ Place(p[2], w) = p
      BY <3>1 DEF Places, Place
    <3>3. CASE p[2] = s0 /\ w = w0
      BY <1>v, <1>g, <2>3, <3>1, <3>2, <3>3
    <3>4. CASE p[2] # s0 \/ w # w0
      BY <1>2, <3>1, <3>2, <3>4 DEF Held
    <3> QED BY <3>3, <3>4
  <2> QED BY <2>1, <2>2, <2>3
<1> QED BY <1>4, <1>5, <1>6

(***************************************************************************)
(* What a hit of the served request says: the line found is the one asked  *)
(* for and holds what the core last stored.                                *)
(***************************************************************************)
LEMMA HitNewest ==
    ASSUME ControlInv, DataInv, r.state = "CheckHit", Hit
    PROVE  /\ Serving /\ ~Leaving /\ ~rd.direct /\ rd.addr = r.req_addr
           /\ HitIdx \in Way /\ r.req_addr.set \in Sets
           /\ r.req_addr.tag \notin Uncached \cup NoAccess \cup Faulty
           /\ Out = ram[r.req_addr.set][HitIdx] /\ Valid(r.req_addr.set, HitIdx)
           /\ Place(r.req_addr.set, HitIdx) = At(r.req_addr)
           /\ Out.data = golden[At(r.req_addr)] /\ Out.data \in Line
<1>1. Serving /\ ~Leaving
  BY DEF Serving, Leaving, ControlInv, FlagsInv
<1>2. ~rd.direct /\ rd.addr = r.req_addr
  BY <1>1 DEF ControlInv, PortInv
<1>3. /\ HitIdx \in Way /\ r.req_addr.set \in Sets /\ Valid(r.req_addr.set, HitIdx)
      /\ Place(r.req_addr.set, HitIdx) = At(r.req_addr)
      /\ r.req_addr.tag \notin Uncached \cup NoAccess \cup Faulty
  BY <1>2, HitTags
<1>4. Out = ram[r.req_addr.set][HitIdx]
  BY <1>2 DEF Out
<1>5. Out.data \in Line
  BY <1>3, <1>4, PlaceFacts
<1> QED BY <1>1, <1>2, <1>3, <1>4, <1>5 DEF DataInv, LinesNewest

\* State_CheckHit, store: line and record of the stores change alike.
LEMMA CheckHitStoreData ==
    ASSUME ControlInv, DataInv, NEW in \in Ins, Step(in), CheckHitStore(in)
    PROVE  DataInv'
<1>1. PICK v \in Registers : CheckHitStoreDone(in, v)
  BY CheckHitStoreEffect
<1>2. r.state = "CheckHit" /\ Hit /\ IsStore
  BY DEF CheckHitStore
<1>3. r'.state \in {"Idle", "TranslateAddress", "FlushAddr", "CheckHit"} /\ mem' = mem
  BY <1>1 DEF CheckHitStoreDone, Taken, PortTakes, Accepts, BusWaits
<1>4. CASE ReleaseFails /\ ram' = ram /\ Answered([data |-> 1, fault |-> FALSE])
  <2>1. golden' = golden
    <3> DEFINE rsp == [data |-> 1, fault |-> FALSE]
    <3>1. Answered(rsp) /\ rsp.data # 0
      BY <1>4
    <3> HIDE DEF rsp
    <3> QED BY <1>2, <1>4, <3>1, HitNewest, StoresRecorded DEF ReleaseFails
  <2> QED BY <1>2, <1>3, <1>4, <2>1, HitNewest, SameData, NothingOnTheWay DEF DataInv
<1>5. ASSUME NEW x, Answered([data |-> x, fault |-> FALSE]), IsRelease => x = 0,
             Replaced({"VALID", "DIRTY"}, Modified(Out.data))
      PROVE  DataInv'
  <2> DEFINE rsp == [data |-> x, fault |-> FALSE]
             f == {"VALID", "DIRTY"}
             d == Modified(Out.data)
  <2>1. Answered(rsp) /\ ~rsp.fault /\ rsp.data = x
    BY <1>5
  <2> HIDE DEF rsp
  <2>2. golden' = [golden EXCEPT ![At(r.req_addr)][r.req_addr.word] = r.req_wdata]
    BY <1>2, <1>5, <2>1, HitNewest, StoresRecorded
  <2>3. golden'[At(r.req_addr)] = d /\ \A p \in Places : p # At(r.req_addr) => golden'[p] = golden[p]
    BY <1>2, <2>2, HitNewest, RecordFacts
  <2>4. "VALID" \in f /\ "DIRTY" \in f /\ Replaced(f, d)
    BY <1>5
  <2> HIDE DEF f, d
  <2>5. OneLine(f, d)
    BY <1>2, <2>4, HitNewest, ReplacedFacts
  <2>6. LinesNewest' /\ CleanLines' /\ MemNewest'
    BY <1>2, <1>3, <2>3, <2>4, <2>5, HitNewest, LineFills
  <2> QED BY <1>3, <2>6, NothingOnTheWay DEF DataInv
<1> QED BY <1>1, <1>4, <1>5 DEF CheckHitStoreDone

\* State_CheckResp: the refilled line is the newest, stored into or not.
LEMMA CheckRespFillData ==
    ASSUME ControlInv, DataInv, NEW in \in Ins, Step(in), CheckRespFill(in)
    PROVE  DataInv'
<1>1. PICK v \in Registers : CheckRespFillDone(in, v)
  BY CheckRespFillEffect
<1>2. r.state = "CheckResp" /\ ~r.load_fault /\ CachedType(r.mem_type)
  BY DEF CheckRespFill
<1>3. Refilling /\ Serving /\ ~Leaving
  BY <1>2 DEF ControlInv, FlagsInv, TypeInv, Refilling, Serving, Leaving, Writes, CachedType
<1>4. /\ r.req_addr.tag \notin Uncached \cup NoAccess \cup Faulty
      /\ ~rd.direct /\ rd.addr = r.req_addr /\ ~Hit
  BY <1>2, <1>3 DEF ControlInv, TypeInv, PortInv, WayInv, LookupInv
<1>5. /\ r.line_i = golden[At(r.req_addr)] /\ mem[At(r.req_addr)] = r.line_i /\ r.line_i \in Line
      /\ Valid(r.req_addr.set, HitIdx) =>
            mem[Place(r.req_addr.set, HitIdx)] = golden[Place(r.req_addr.set, HitIdx)]
  BY <1>2, <1>3, <1>4, MissNewest
     DEF DataInv, AnswerNewest, VictimSaved, ControlInv, TypeOK, DTypeOK, Registers
<1>6. mem' = mem /\ r'.state \in {"Idle", "SetupReadAdr"}
  BY <1>1 DEF CheckRespFillDone, Taken, BusWaits
<1>7. CASE IsStore
  <2> DEFINE rsp == [data |-> 0, fault |-> FALSE]
             f == {"VALID", "DIRTY"}
             d == Modified(r.line_i)
  <2>1. Answered(rsp) /\ ~rsp.fault /\ rsp.data = 0
    BY <1>1, <1>7 DEF CheckRespFillDone
  <2> HIDE DEF rsp
  <2>2. golden' = [golden EXCEPT ![At(r.req_addr)][r.req_addr.word] = r.req_wdata]
    BY <1>3, <1>7, <2>1, StoresRecorded
  <2>3. golden'[At(r.req_addr)] = d /\ \A p \in Places : p # At(r.req_addr) => golden'[p] = golden[p]
    BY <1>5, <2>2, RecordFacts
  <2>4. "VALID" \in f /\ "DIRTY" \in f /\ Replaced(f, d)
    BY <1>1, <1>7 DEF CheckRespFillDone
  <2> HIDE DEF f, d
  <2>5. OneLine(f, d)
    BY <1>4, <2>4, ReplacedFacts
  <2>6. LinesNewest' /\ CleanLines' /\ MemNewest'
    BY <1>3, <1>5, <1>6, <2>3, <2>4, <2>5, LineFills
  <2> QED BY <1>6, <2>6, NothingOnTheWay DEF DataInv
<1>8. CASE ~IsStore
  <2> DEFINE f == {"VALID", "SHARED"} \cup (IF IsReserve THEN {"RESERVED"} ELSE {})
             d == r.line_i
  <2>1. "VALID" \in f /\ Replaced(f, d) /\ golden' = golden
    BY <1>1, <1>8 DEF CheckRespFillDone, CoreWaits
  <2> HIDE DEF f
  <2>2. OneLine(f, d)
    BY <1>4, <2>1, ReplacedFacts
  <2>3. LinesNewest' /\ CleanLines' /\ MemNewest'
    BY <1>3, <1>5, <1>6, <2>1, <2>2, LineFills
  <2> QED BY <1>6, <2>3, NothingOnTheWay DEF DataInv
<1> QED BY <1>7, <1>8

(***************************************************************************)
(* The load with reserve (State_CheckHit, MemopType_Reserve) rewrites the  *)
(* line it found; it keeps the invariant if the line keeps its data.       *)
(***************************************************************************)
LEMMA CheckHitReserveData ==
    ASSUME ControlInv, DataInv, NEW in \in Ins, Step(in), CheckHitReserve(in),
           \A s \in Sets, w \in Way : ram'[s][w].data = ram[s][w].data
    PROVE  DataInv'
<1>1. PICK v \in Registers : CheckHitReserveDone(in, v)
  BY CheckHitReserveEffect
<1>2. r.state = "CheckHit" /\ Hit /\ ~IsStore
  BY DEF CheckHitReserve
<1>3. r'.state = "Idle" /\ mem' = mem
  BY <1>1 DEF CheckHitReserveDone, Taken, BusWaits
<1>4. golden' = golden
  BY <1>1, <1>2, HitNewest, StoresRecorded DEF CheckHitReserveDone
<1> DEFINE f == Out.flags \cup {"RESERVED"}
           d == ZeroExtended(CachedData)
<1>5. "VALID" \in f /\ Replaced(f, d) /\ ("DIRTY" \in f <=> "DIRTY" \in Out.flags)
  BY <1>1, <1>2, HitNewest DEF CheckHitReserveDone, Valid
<1> HIDE DEF f, d
<1>6. OneLine(f, d)
  BY <1>2, <1>5, HitNewest, ReplacedFacts
<1>7. d = Out.data
  BY <1>2, <1>6, HitNewest DEF OneLine
<1>8. "DIRTY" \in f \/ mem[At(r.req_addr)] = d
  BY <1>2, <1>5, <1>7, HitNewest DEF DataInv, CleanLines
<1>9. LinesNewest' /\ CleanLines' /\ MemNewest'
  BY <1>2, <1>3, <1>4, <1>6, <1>7, <1>8, HitNewest, LineFills
<1> QED BY <1>3, <1>9, NothingOnTheWay DEF DataInv

----------------------------------------------------------------------------
\* The sweep of a flush

(***************************************************************************)
(* Numbers of the sweep: its counter starts with the last position and is  *)
(* zero there (FLUSH_ALL_VALUE of dcache_lru.cpp).                         *)
(***************************************************************************)
LEMMA SweepNumbers ==
    /\ FLUSH_ALL_VALUE = (NSets - 1 - 0) * Ways + (Ways - 1 - 0)
    /\ \A s \in Sets, w \in Way :
          /\ (NSets - 1 - s) * Ways + (Ways - 1 - w) = 0 => s = NSets - 1 /\ w = Ways - 1
          /\ w = Ways - 1 /\ s < NSets - 1 =>
                (NSets - 1 - s) * Ways + (Ways - 1 - w) - 1 = (NSets - 1 - (s + 1)) * Ways + (Ways - 1 - 0)
          /\ w = Ways - 1 /\ s = NSets - 1 => (NSets - 1 - s) * Ways + (Ways - 1 - w) = 0
<1>1. Ways \in Nat \ {0} /\ NSets \in Nat \ {0}
  BY NWayAssumption
<1>2. FLUSH_ALL_VALUE = (NSets - 1 - 0) * Ways + (Ways - 1 - 0)
  BY <1>1 DEF FLUSH_ALL_VALUE
<1>3. ASSUME NEW s \in Sets, NEW w \in Way
      PROVE  /\ (NSets - 1 - s) * Ways + (Ways - 1 - w) = 0 => s = NSets - 1 /\ w = Ways - 1
             /\ w = Ways - 1 /\ s < NSets - 1 =>
                   (NSets - 1 - s) * Ways + (Ways - 1 - w) - 1
                      = (NSets - 1 - (s + 1)) * Ways + (Ways - 1 - 0)
             /\ w = Ways - 1 /\ s = NSets - 1 => (NSets - 1 - s) * Ways + (Ways - 1 - w) = 0
  <2>1. PICK n \in Nat : n = NSets - 1 - s
    BY <1>1 DEF Sets
  <2>2. Ways - 1 - w \in Nat /\ w \in Int /\ s \in Int /\ n * Ways \in Nat
    BY <1>1 DEF Way, Sets
  <2>3. n # 0 => n * Ways = (n - 1) * Ways + Ways /\ (n - 1) * Ways \in Nat
    BY <1>1
  <2>4. 0 * Ways = 0
    BY <1>1
  <2>5. NSets - 1 - (s + 1) = n - 1 /\ (n = 0 <=> s = NSets - 1)
    BY <1>1, <2>1, <2>2
  <2>6. (NSets - 1 - s) * Ways = n * Ways /\ (NSets - 1 - (s + 1)) * Ways = (n - 1) * Ways
    BY <2>1, <2>5
  <2> QED BY <1>1, <2>2, <2>3, <2>4, <2>5, <2>6
<1> QED BY <1>2, <1>3

(***************************************************************************)
(* The next position of the sweep (vb_addr_direct_next): nothing lies      *)
(* between it and the present one, and the counter goes with it.           *)
(***************************************************************************)
LEMMA SweepAdvances ==
    ASSUME r \in Registers, r.flush_cnt # 0,
           r.flush_cnt = (NSets - 1 - r.req_addr.set) * Ways + (Ways - 1 - r.req_addr.way)
    PROVE  /\ r.flush_cnt - 1 = (NSets - 1 - AddrDirectNext.set) * Ways + (Ways - 1 - AddrDirectNext.way)
           /\ \A s \in Sets, w \in Way : Before(s, w, AddrDirectNext) =>
                 Before(s, w, r.req_addr) \/ (s = r.req_addr.set /\ w = r.req_addr.way)
<1>1. PICK s0 \in Sets, w0 \in Way : s0 = r.req_addr.set /\ w0 = r.req_addr.way
  BY DEF Registers, Addr
<1>2. /\ Ways \in Nat \ {0} /\ NSets \in Nat \ {0} /\ s0 \in Int /\ w0 \in Int
      /\ \A s \in Sets : s \in Int /\ 0 <= s /\ s <= NSets - 1
      /\ \A w \in Way : w \in Int /\ 0 <= w /\ w <= Ways - 1
  BY NWayAssumption DEF Sets, Way
<1>3. r.flush_cnt = (NSets - 1 - s0) * Ways + (Ways - 1 - w0) /\ r.req_addr \in Addr
  BY <1>1 DEF Registers
<1>4. CASE w0 = Ways - 1
  <2>1. s0 # NSets - 1
    BY <1>3, <1>4, SweepNumbers
  <2>2. s0 < NSets - 1 /\ (s0 + 1) % NSets = s0 + 1
    <3>1. s0 \in Nat /\ s0 < NSets - 1
      BY <1>2, <2>1
    <3> QED BY <1>2, <3>1
  <2>3. AddrDirectNext.set = s0 + 1 /\ AddrDirectNext.way = 0
    BY <1>1, <1>3, <1>4, <2>2 DEF AddrDirectNext, Addr
  <2>4. r.flush_cnt - 1 = (NSets - 1 - (s0 + 1)) * Ways + (Ways - 1 - 0)
    <3>1. (NSets - 1 - s0) * Ways + (Ways - 1 - w0) - 1 = (NSets - 1 - (s0 + 1)) * Ways + (Ways - 1 - 0)
      BY <1>4, <2>2, SweepNumbers
    <3>2. PICK n \in Int : n = (NSets - 1 - s0) * Ways
      BY <1>2
    <3> QED BY <1>2, <1>3, <3>1, <3>2
  <2>5. \A s \in Sets, w \in Way : s < s0 + 1 \/ (s = s0 + 1 /\ w < 0) =>
           s < s0 \/ (s = s0 /\ w < w0) \/ (s = s0 /\ w = w0)
    BY <1>2, <1>4
  <2> QED BY <1>1, <2>3, <2>4, <2>5 DEF Before
<1>5. CASE w0 # Ways - 1
  <2>1. AddrDirectNext.set = s0 /\ AddrDirectNext.way = w0 + 1
    BY <1>1, <1>3, <1>5 DEF AddrDirectNext, Addr
  <2>2. r.flush_cnt - 1 = (NSets - 1 - s0) * Ways + (Ways - 1 - (w0 + 1))
    <3>1. PICK n \in Int : n = (NSets - 1 - s0) * Ways
      BY <1>2
    <3> QED BY <1>2, <1>3, <3>1
  <2>3. \A s \in Sets, w \in Way : s < s0 \/ (s = s0 /\ w < w0 + 1) =>
           s < s0 \/ (s = s0 /\ w < w0) \/ (s = s0 /\ w = w0)
    BY <1>2
  <2> QED BY <1>1, <2>1, <2>2, <2>3 DEF Before
<1> QED BY <1>4, <1>5

(***************************************************************************)
(* Every clock keeps the sweep complete: what it has passed stays empty.   *)
(***************************************************************************)
LEMMA SweepStep ==
    ASSUME ControlInv, SweepInv, NEW in \in Ins, Step(in)
    PROVE  SweepInv'
<1> DEFINE Sweeping == r.state \in {"FlushAddr", "FlushCheck"} \/ Leaving
<1>0. r \in Registers /\ FlagsInv
  BY DEF ControlInv, TypeOK, DTypeOK
<1>1. ASSUME ~Sweeping' PROVE SweepInv'
  BY <1>1 DEF SweepInv
<1>2. ASSUME Sweeping, r'.req_addr = r.req_addr, r'.flush_cnt = r.flush_cnt, ram' = ram PROVE SweepInv'
  BY <1>2 DEF SweepInv, Before, Valid
<1>3. ASSUME r'.req_addr = ZeroAddr, r'.flush_cnt = FLUSH_ALL_VALUE PROVE SweepInv'
  <2>1. \A s \in Sets, w \in Way : ~Before(s, w, r'.req_addr)
    BY <1>3, NWayAssumption DEF Before, ZeroAddr, Sets, Way
  <2>2. r'.flush_cnt = (NSets - 1 - r'.req_addr.set) * Ways + (Ways - 1 - r'.req_addr.way)
    BY <1>3, SweepNumbers DEF ZeroAddr
  <2> QED BY <2>1, <2>2 DEF SweepInv, Before
<1>4. ASSUME NEW v \in Registers, Taken(v), PortTakes(in, v) PROVE SweepInv'
  BY <1>1, <1>3, <1>4 DEF Taken, PortTakes, Accepts, Leaving
<1>5. ASSUME r'.state \notin {"FlushAddr", "FlushCheck", "WaitGrant", "WriteBus"} PROVE SweepInv'
  BY <1>1, <1>5 DEF Leaving
<1>6. ASSUME ~r'.write_flush, r'.state \in {"WaitGrant", "WriteBus", "WaitResp"} PROVE SweepInv'
  BY <1>1, <1>6 DEF Leaving
<1> USE DEF Taken
<1>7. CASE Idle(in)
  BY <1>4, <1>7, IdleEffect DEF IdleDone
<1>8. CASE CheckHitStore(in)
  BY <1>4, <1>5, <1>8, CheckHitStoreEffect DEF CheckHitStoreDone
<1>9. CASE CheckHitReserve(in)
  BY <1>5, <1>9, CheckHitReserveEffect DEF CheckHitReserveDone
<1>10. CASE CheckHitLoad(in)
  BY <1>4, <1>10, CheckHitLoadEffect DEF CheckHitLoadDone
<1>11. CASE CheckMiss(in)
  BY <1>5, <1>11, CheckMissEffect DEF CheckMissDone
<1>12. CASE TranslateFault(in)
  BY <1>5, <1>12, TranslateFaultEffect DEF TranslateFaultDone
<1>13. CASE TranslateCached(in)
  BY <1>0, <1>6, <1>13, TranslateCachedEffect DEF TranslateCachedDone, TranslateCached, FlagsInv
<1>14. CASE TranslateUncached(in)
  BY <1>0, <1>6, <1>14, TranslateUncachedEffect
     DEF TranslateUncachedDone, TranslateUncached, FlagsInv, WritesKept
<1>15. CASE WaitGrant(in)
  BY <1>2, <1>6, <1>15, WaitGrantEffect, ZenonT(60)
     DEF WaitGrantDone, WaitGrant, Leaving, ReqKept, WritesKept, RamKept, Writes
<1>16. CASE WaitResp(in)
  BY <1>5, <1>16, WaitRespEffect DEF WaitRespDone
<1>17. CASE CheckRespDirect(in)
  BY <1>5, <1>17, CheckRespDirectEffect DEF CheckRespDirectDone
<1>18. CASE CheckRespFill(in)
  BY <1>5, <1>18, CheckRespFillEffect DEF CheckRespFillDone
<1>19. CASE SetupReadAdr(in)
  BY <1>5, <1>19, SetupReadAdrEffect DEF SetupReadAdrDone
<1>20. CASE WriteBus(in)
  <2>1. PICK v \in Registers : WriteBusDone(in, v)
    BY <1>20, WriteBusEffect
  <2>2. CASE r.write_flush /\ v.flush_cnt = r.flush_cnt
    BY <1>2, <1>20, <2>1, <2>2 DEF WriteBusDone, WriteBus, Leaving, ReqKept, RamKept
  <2>3. CASE ~r.write_flush
    BY <1>5, <1>6, <2>1, <2>3 DEF WriteBusDone, ReqKept
  <2>4. CASE v.state = "Idle"
    BY <1>5, <2>1, <2>4 DEF WriteBusDone
  <2> QED BY <2>1, <2>2, <2>3, <2>4 DEF WriteBusDone, Writes
<1>21. CASE FlushAddr(in)
  BY <1>2, <1>21, FlushAddrEffect DEF FlushAddrDone, FlushAddr, ReqKept
<1>22. CASE FlushCheck(in)
  <2>1. PICK v \in Registers : FlushCheckDone(in, v)
    BY <1>22, FlushCheckEffect
  <2>2. r.state = "FlushCheck" /\ r.req_addr.set \in Sets /\ r.req_addr.way \in Way
    BY <1>22, PlaceFacts DEF FlushCheck, Addr
  <2>3. /\ "VALID" \notin ram'[r.req_addr.set][r.req_addr.way].flags
        /\ \A s \in Sets, w \in Way : Valid(s, w)' => Valid(s, w)
    BY <2>1, <2>2, DroppedFacts DEF FlushCheckDone
  <2>4. /\ r.flush_cnt = (NSets - 1 - r.req_addr.set) * Ways + (Ways - 1 - r.req_addr.way)
        /\ \A s \in Sets, w \in Way : Before(s, w, r.req_addr) => ~Valid(s, w)
    BY <2>2 DEF SweepInv
  <2>5. CASE r.flush_cnt = 0
    <3>1. r'.flush_cnt = r.flush_cnt /\ r'.req_addr = r.req_addr
      BY <2>1, <2>5 DEF FlushCheckDone
    <3> QED BY <2>3, <2>4, <3>1 DEF SweepInv, Before
  <2>6. CASE r.flush_cnt # 0
    <3>1. r'.flush_cnt = r.flush_cnt - 1 /\ r'.req_addr = AddrDirectNext
      BY <2>1, <2>6 DEF FlushCheckDone
    <3>2. \A s \in Sets, w \in Way : Before(s, w, AddrDirectNext) => ~Valid(s, w)'
      BY <1>0, <2>3, <2>4, <2>6, SweepAdvances DEF Valid
    <3>3. r'.flush_cnt = (NSets - 1 - r'.req_addr.set) * Ways + (Ways - 1 - r'.req_addr.way)
      BY <1>0, <2>4, <2>6, <3>1, SweepAdvances
    <3> QED BY <3>1, <3>2, <3>3 DEF SweepInv, Before
  <2> QED BY <2>5, <2>6
<1>23. CASE Reset(in)
  BY <1>5, <1>23, ResetEffect DEF ResetDone
<1>24. CASE ResetWrite(in)
  BY <1>5, <1>24, ResetWriteEffect DEF ResetWriteDone
<1>25. r.state \notin {"SnoopSetupAddr", "SnoopReadData"}
  BY <1>0 DEF FlagsInv
<1> QED BY <1>7, <1>8, <1>9, <1>10, <1>11, <1>12, <1>13, <1>14, <1>15, <1>16, <1>17, <1>18, <1>19,
           <1>20, <1>21, <1>22, <1>23, <1>24, <1>25 DEF Step, Clock, SnoopSetupAddr, SnoopReadData

----------------------------------------------------------------------------
\* The theorems

\* After reset the cache is empty and the memory as the core knows it.
LEMMA DataInit == Init => DataInv /\ SweepInv
<1> SUFFICES ASSUME Init PROVE DataInv /\ SweepInv
  OBVIOUS
<1>1. \A s \in Sets, w \in Way : ~Valid(s, w)
  BY DEF Init, DInit, TagInit, Valid
<1>2. r.state = "Reset" /\ mem = golden
  BY DEF Init, DInit
<1>3. LinesNewest /\ CleanLines /\ MemNewest /\ ResetEmpty
  BY <1>1, <1>2 DEF LinesNewest, CleanLines, MemNewest, ResetEmpty
<1>4. WriteNewest /\ VictimSaved /\ AnswerNewest /\ SweepInv
  BY <1>2 DEF WriteNewest, VictimSaved, AnswerNewest, Refilling, Bypassing, SweepInv, Leaving
<1> QED BY <1>3, <1>4 DEF DataInv

(***************************************************************************)
(* Every clock keeps the data invariant, if a load with reserve that finds *)
(* its line leaves the data of all lines alone.                            *)
(***************************************************************************)
LEMMA DataStep ==
    ASSUME ControlInv, DataInv, NEW in \in Ins, Step(in),
           r.state = "CheckHit" /\ Hit /\ ~IsStore /\ IsReserve =>
              \A s \in Sets, w \in Way : ram'[s][w].data = ram[s][w].data
    PROVE  DataInv'
<1>1. r.state \notin {"SnoopSetupAddr", "SnoopReadData"}
  BY DEF ControlInv, FlagsInv
<1>2. CASE Idle(in)
  BY <1>2, IdleData
<1>3. CASE CheckHitStore(in)
  BY <1>3, CheckHitStoreData
<1>4. CASE CheckHitReserve(in)
  BY <1>4, CheckHitReserveData DEF CheckHitReserve
<1>5. CASE CheckHitLoad(in)
  BY <1>5, CheckHitLoadData
<1>6. CASE CheckMiss(in)
  BY <1>6, CheckMissData
<1>7. CASE TranslateFault(in)
  BY <1>7, TranslateFaultData
<1>8. CASE TranslateCached(in)
  BY <1>8, TranslateCachedData
<1>9. CASE TranslateUncached(in)
  BY <1>9, TranslateUncachedData
<1>10. CASE WaitGrant(in)
  BY <1>10, WaitGrantData
<1>11. CASE WaitResp(in)
  BY <1>11, WaitRespData
<1>12. CASE CheckRespDirect(in)
  BY <1>12, CheckRespDirectData
<1>13. CASE CheckRespFill(in)
  BY <1>13, CheckRespFillData
<1>14. CASE SetupReadAdr(in)
  BY <1>14, SetupReadAdrData
<1>15. CASE WriteBus(in)
  BY <1>15, WriteBusData
<1>16. CASE FlushAddr(in)
  BY <1>16, FlushAddrData
<1>17. CASE FlushCheck(in)
  BY <1>17, FlushCheckData
<1>18. CASE Reset(in)
  BY <1>18, ResetData
<1>19. CASE ResetWrite(in)
  BY <1>19, ResetWriteData
<1> QED BY <1>1, <1>2, <1>3, <1>4, <1>5, <1>6, <1>7, <1>8, <1>9, <1>10, <1>11, <1>12, <1>13, <1>14,
           <1>15, <1>16, <1>17, <1>18, <1>19 DEF Step, Clock, SnoopSetupAddr, SnoopReadData

(***************************************************************************)
(* A load answered without fault gets the word last stored: on a hit from  *)
(* the line, past the cache from the memory.                               *)
(***************************************************************************)
LEMMA LoadNewest ==
    ASSUME ControlInv, DataInv, NEW in \in Ins, Step(in), Resp(in) # None
    PROVE  Judge(Resp(in)) # "stale"
<1>1. cpu = [type |-> r.req_type, addr |-> r.req_addr, wdata |-> r.req_wdata]
  BY AnswerFacts
<1>2. SUFFICES ASSUME ~IsStore, ~Resp(in).fault
               PROVE  Resp(in).data = golden[At(r.req_addr)][r.req_addr.word]
  BY <1>1 DEF Judge, IsStore
<1>3. CASE r.state = "CheckHit" /\ Hit
  <2>1. Resp(in).data = Out.data[r.req_addr.word]
    BY <1>2, <1>3 DEF Resp, CachedData
  <2> QED BY <1>3, <2>1, HitNewest
<1>4. CASE r.state = "CheckResp"
  <2>1. ~Writes
    BY <1>4 DEF ControlInv, FlagsInv, Writes
  <2>2. r.load_fault \/ ~CachedType(r.mem_type)
    BY <1>2, <1>4 DEF Resp
  <2>3. Resp(in) = [data |-> r.line_i[0], fault |-> r.load_fault]
    BY <1>4, <2>2 DEF Resp
  <2>4. ~r.load_fault /\ r.mem_type = "ReadNoSnoop"
    BY <1>2, <1>4, <2>2, <2>3 DEF CachedType, ControlInv, TypeInv, Fetches
  <2>5. Bypassing
    BY <1>4, <2>1, <2>4 DEF Bypassing, Fetches
  <2> QED BY <1>4, <2>3, <2>5 DEF DataInv, AnswerNewest
<1>5. CASE r.state = "WriteBus" /\ ~Writes
  <2>1. Bypassing /\ r.mem_type = "WriteNoSnoop"
    BY <1>5 DEF ControlInv, FlagsInv, TypeInv, Bypassing, Fetches, Writes
  <2> QED BY <1>2, <2>1 DEF ControlInv, TypeInv
<1>6. \/ r.state = "CheckHit" /\ Hit
      \/ r.state = "CheckResp"
      \/ r.state = "WriteBus" /\ ~Writes
  BY DEF Resp, Writes
<1> QED BY <1>3, <1>4, <1>5, <1>6

(***************************************************************************)
(* Everything the theorems below rest on.                                  *)
(***************************************************************************)
CacheInv == ControlInv /\ DataInv /\ SweepInv /\ LoadReturnsLastStore

(***************************************************************************)
(* Every clock keeps all of it, a stutter included.                        *)
(***************************************************************************)
LEMMA CacheStep ==
    ASSUME CacheInv, [Next]_vars,
           [r.state = "CheckHit" /\ Hit /\ ~IsStore /\ IsReserve =>
              \A s \in Sets, w \in Way : ram'[s][w].data = ram[s][w].data]_vars
    PROVE  CacheInv'
<1>1. CASE UNCHANGED vars
  <2>1. /\ r' = r /\ ram' = ram /\ lru' = lru /\ rd' = rd /\ mem' = mem /\ golden' = golden
        /\ resp' = resp
    BY <1>1 DEF vars, state, dvars
  <2>2. ControlInv'
    BY ControlStep DEF CacheInv
  <2>3. HitIdx' = HitIdx
    BY <2>1 DEF HitIdx, WayHit, Lru0!Lru
  <2>4. LinesNewest' /\ CleanLines' /\ MemNewest' /\ ResetEmpty'
    BY <2>1 DEF CacheInv, DataInv, LinesNewest, CleanLines, MemNewest, ResetEmpty, Valid, Place,
                Held, Leaving, At
  <2>5. WriteNewest' /\ VictimSaved' /\ AnswerNewest'
    BY <2>1, <2>3 DEF CacheInv, DataInv, WriteNewest, VictimSaved, AnswerNewest, Writes, Refilling,
                      Bypassing, Valid, Place, At
  <2>6. SweepInv' /\ LoadReturnsLastStore'
    BY <2>1 DEF CacheInv, SweepInv, Leaving, Before, Valid, LoadReturnsLastStore
  <2> QED BY <2>2, <2>4, <2>5, <2>6 DEF CacheInv, DataInv
<1>2. CASE ~UNCHANGED vars
  <2>1. PICK in \in Ins : Step(in)
    BY <1>2 DEF Next
  <2>2. ControlInv' /\ SweepInv'
    BY <2>1, ControlStep, SweepStep DEF CacheInv
  <2>3. DataInv'
    BY <1>2, <2>1, DataStep DEF CacheInv
  <2>4. LoadReturnsLastStore'
    <3>1. CASE Resp(in) = None
      BY <2>1, <3>1, NoneAssumption DEF LoadReturnsLastStore, Step, Core
    <3>2. CASE Resp(in) # None
      BY <2>1, <3>2, AnswerFacts, LoadNewest DEF CacheInv, LoadReturnsLastStore
    <3> QED BY <3>1, <3>2
  <2> QED BY <2>2, <2>3, <2>4 DEF CacheInv
<1> QED BY <1>1, <1>2

\* The whole invariant holds in every reachable state.
LEMMA CacheAlways == Spec /\ ReserveKeepsData => []CacheInv
<1>1. Init => CacheInv
  <2>1. Init => LoadReturnsLastStore
    BY NoneAssumption DEF Init, LoadReturnsLastStore
  <2> QED BY <2>1, ControlInit, DataInit DEF CacheInv
<1>2. CacheInv /\ [Next]_vars
      /\ [r.state = "CheckHit" /\ Hit /\ ~IsStore /\ IsReserve =>
            \A s \in Sets, w \in Way : ram'[s][w].data = ram[s][w].data]_vars => CacheInv'
  BY CacheStep
<1> QED BY <1>1, <1>2, PTL DEF Spec, ReserveKeepsData

(***************************************************************************)
(* Every load answered without fault returns the last value stored, and no *)
(* answer comes unasked (o_resp_valid, o_resp_data), as long as a load     *)
(* with reserve leaves the data of the line alone, which is what the       *)
(* comment in State_CheckHit says it does.                                 *)
(***************************************************************************)
THEOREM LoadsSafe == Spec /\ ReserveKeepsData => []LoadReturnsLastStore
<1>1. CacheInv => LoadReturnsLastStore
  BY DEF CacheInv
<1> QED BY <1>1, CacheAlways, PTL

(***************************************************************************)
(* Under the same hypothesis a valid line that is not dirty equals the     *)
(* memory, so that State_TranslateAddress may displace it without a write  *)
(* back.                                                                   *)
(***************************************************************************)
THEOREM CleanSafe == Spec /\ ReserveKeepsData => []CleanMatchesMemory
<1>1. CacheInv => CleanMatchesMemory
  BY DEF CacheInv, ControlInv, DataInv, CleanLines, CleanMatchesMemory, Valid, Place
<1> QED BY <1>1, CacheAlways, PTL

(***************************************************************************)
(* Under the same hypothesis o_flush_end is raised only when the memory    *)
(* holds everything the core has stored: no line is left behind by the     *)
(* sweep.                                                                  *)
(***************************************************************************)
THEOREM FlushSafe == Spec /\ ReserveKeepsData => []FlushedToMemory
<1>1. CacheInv => FlushedToMemory
  <2> SUFFICES ASSUME CacheInv, FlushEnd PROVE mem = golden
    BY DEF FlushedToMemory
  <2> USE DEF CacheInv
  <2>1. r.state = "FlushCheck" /\ ~FlushDirty /\ r.flush_cnt = 0 /\ ~Leaving
    BY DEF FlushEnd, Leaving
  <2>2. PICK s0 \in Sets, w0 \in Way : s0 = r.req_addr.set /\ w0 = r.req_addr.way
    BY PlaceFacts DEF Addr
  <2>3. s0 = NSets - 1 /\ w0 = Ways - 1
    BY <2>1, <2>2, SweepNumbers DEF SweepInv
  <2>4. \A s \in Sets, w \in Way : Valid(s, w) => s = s0 /\ w = w0
    <3>1. \A s \in Sets, w \in Way : Before(s, w, r.req_addr) \/ (s = s0 /\ w = w0)
      BY <2>2, <2>3, NWayAssumption DEF Before, Sets, Way
    <3> QED BY <2>1, <3>1 DEF SweepInv
  <2>5. Out = ram[s0][w0]
    BY <2>1, <2>2 DEF ControlInv, PortInv, Out, HitIdx
  <2>6. Valid(s0, w0) => mem[Place(s0, w0)] = golden[Place(s0, w0)]
    BY <2>1, <2>5 DEF DataInv, LinesNewest, CleanLines, FlushDirty, Valid
  <2>7. \A p \in Places : mem[p] = golden[p]
    <3> SUFFICES ASSUME NEW p \in Places, Held(p) PROVE mem[p] = golden[p]
      BY <2>1 DEF DataInv, MemNewest
    <3>1. PICK w \in Way : Valid(p[2], w) /\ ram[p[2]][w].tag = p[1]
      BY DEF Held
    <3>2. p[2] \in Sets /\ p = Place(p[2], w)
      BY <3>1 DEF Places, Place
    <3> QED BY <2>4, <2>6, <3>1, <3>2
  <2>8. mem \in [Places -> Line] /\ golden \in [Places -> Line]
    BY DEF ControlInv, TypeOK
  <2> QED BY <2>7, <2>8
<1> QED BY <1>1, CacheAlways, PTL

----------------------------------------------------------------------------
\* Workloads under which the load with reserve is harmless

\* no core sends a load with reserve
NoReserve == \A l \in Workloads : \A t \in l.types : "Reserve" \notin t

\* the cache serves only requests the workload has
TypesServed == cpu # None => cpu.type \in load.types

(***************************************************************************)
(* The hypothesis holds where a line is one 64-bit word, or where no core  *)
(* sends a load with reserve: the rewrite of State_CheckHit then keeps the *)
(* line.                                                                   *)
(***************************************************************************)
THEOREM ReserveHarmless == (Words = {0} \/ NoReserve) => (Spec => ReserveKeepsData)
<1> SUFFICES ASSUME Words = {0} \/ NoReserve PROVE Spec => ReserveKeepsData
  OBVIOUS
<1>1. Init => ControlInv /\ TypesServed
  BY ControlInit DEF Init, TypesServed
<1>2. ControlInv /\ TypesServed /\ [Next]_vars => (ControlInv /\ TypesServed)'
  <2>1. ASSUME ControlInv, TypesServed, NEW in \in Ins, Step(in) PROVE TypesServed'
    BY <2>1 DEF TypesServed, Step, Core
  <2>2. ASSUME TypesServed, UNCHANGED vars PROVE TypesServed'
    BY <2>2 DEF TypesServed, vars, state
  <2> QED BY <2>1, <2>2, ControlStep DEF Next
<1>3. ControlInv /\ TypesServed /\ [Next]_vars =>
        [r.state = "CheckHit" /\ Hit /\ ~IsStore /\ IsReserve =>
           \A s \in Sets, w \in Way : ram'[s][w].data = ram[s][w].data]_vars
  <2> SUFFICES ASSUME ControlInv, TypesServed, NEW in \in Ins, Step(in),
                      r.state = "CheckHit", Hit, ~IsStore, IsReserve
               PROVE  \A s \in Sets, w \in Way : ram'[s][w].data = ram[s][w].data
    BY DEF Next
  <2>1. Serving
    BY DEF Serving, ControlInv, FlagsInv
  <2>2. Words = {0}
    BY <2>1 DEF NoReserve, TypesServed, ControlInv, CpuInv, IsReserve
  <2>3. CheckHitReserve(in)
    BY DEF Step, Clock, Idle, CheckHitStore, CheckHitLoad, CheckMiss, TranslateFault, TranslateCached,
           TranslateUncached, WaitGrant, WaitResp, CheckRespDirect, CheckRespFill, SetupReadAdr,
           WriteBus, FlushAddr, FlushCheck, Reset, ResetWrite, SnoopSetupAddr, SnoopReadData
  <2>4. PICK v \in Registers : CheckHitReserveDone(in, v)
    BY <2>3, CheckHitReserveEffect
  <2>5. r.req_addr.word = 0 /\ rd.addr = r.req_addr /\ HitIdx \in Way /\ r.req_addr.set \in Sets
        /\ ram[r.req_addr.set][HitIdx].data \in Line /\ Out = ram[r.req_addr.set][HitIdx]
    BY <2>1, <2>2, PlaceFacts, HitTags DEF ControlInv, PortInv, Out
  <2>6. ZeroExtended(CachedData) = ram[r.req_addr.set][HitIdx].data
    BY <2>2, <2>5 DEF ZeroExtended, CachedData, Line
  <2> QED BY <2>4, <2>5, <2>6 DEF CheckHitReserveDone, Replaced, Rewritten
<1> QED BY <1>1, <1>2, <1>3, PTL DEF Spec, ReserveKeepsData
============================================================================
