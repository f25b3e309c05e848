---------------------------- MODULE Ports_proof ----------------------------
(***************************************************************************)
(* Proofs about the L2 cache between its masters and the memory, for every *)
(* number of slots, ways, sets, tags, words and values, and, in the last   *)
(* part, about the bus port that the L1 caches of a core share.            *)
(*                                                                         *)
(* The inductive invariant is L2Inv == ControlInv /\ DataInv /\ SweepInv.  *)
(* ControlInv says what the states of the port and of the cache mean:      *)
(* whose request is being served, what is on the bus, what the tag memory  *)
(* shows.  DataInv says for every place of the memory where its newest     *)
(* contents are: in a line, in the memory, or on the way between the two.  *)
(* SweepInv says that the sweep of a flush leaves nothing behind it.       *)
(*                                                                         *)
(* Every state of comb() has a lemma ..Effect, which says what its clock   *)
(* does to the registers, the tag memory and the memory side; the lemmas   *)
(* ..Keeps derive from it that the clock keeps the parts of the invariant. *)
(***************************************************************************)
EXTENDS Ports, TLAPS

(***************************************************************************)
(* One clock of the N-way tag memory: what the lookup shows, and which     *)
(* entry a write changes (tagmemnway.h).                                   *)
(***************************************************************************)
\* way w of set s, and the place of the memory its line belongs to
Valid(s, w) == "VALID" \in ram[s][w].flags
Place(s, w) == <<ram[s][w].tag, s>>

\* a line is in one way of its set only
NoAlias ==
    \A s \in Sets : \A w, x \in Way :
       Valid(s, w) /\ Valid(s, x) /\ ram[s][w].tag = ram[s][x].tag => w = x

\* line controls of a clock
LineControls == [direct : BOOLEAN, invalidate : BOOLEAN, re : BOOLEAN, we : BOOLEAN,
                 addr : Addr, wdata : Line, wstrb : SUBSET Words, wflags : SUBSET Flags,
                 snoop : Addr]

\* Numbers of ways and sets: there is a first way and a first set.
LEMMA Bounds ==
    /\ Ways \in Nat /\ NSets \in Nat /\ 0 \in Way /\ 0 \in Sets
    /\ Way \subseteq Int /\ Sets \subseteq Int
  BY NWayAssumption DEF Way, Sets

\* The reset values are an address and a line.
LEMMA Zeros == ZeroAddr \in Addr /\ ZeroLine \in Line
  BY Bounds, DataAssumption DEF ZeroAddr, Addr, ZeroLine, Line

\* A row of the replacement table stays a row (lrunway.h).
LEMMA RowTypes ==
    ASSUME NEW row \in [Way -> Way], NEW w \in Way
    PROVE  Lru0!RowUp(row, w) \in [Way -> Way] /\ Lru0!RowDown(row, w) \in [Way -> Way]
           /\ Lru0!RowInit \in [Way -> Way]
<1>1. Lru0!RowUp(row, w) \in [Way -> Way]
  BY NWayAssumption, SMTT(60) DEF Lru0!RowUp, Lru0!Way, Way
<1>2. Lru0!RowDown(row, w) \in [Way -> Way]
  BY NWayAssumption, SMTT(60) DEF Lru0!RowDown, Lru0!Way, Way
<1>3. Lru0!RowInit \in [Way -> Way]
  BY DEF Lru0!RowInit, Lru0!Way, Way
<1> QED BY <1>1, <1>2, <1>3

(***************************************************************************)
(* The lookup shows one way: the one addressed under direct access, the    *)
(* hitting one if there is any, and the one to displace otherwise          *)
(* (tagmemnway.h).                                                         *)
(***************************************************************************)
LEMMA HitState ==
    TagTypeOK /\ NoAlias => /\ HitIdx \in Way /\ rd.addr.set \in Sets
                            /\ rd.direct => HitIdx = rd.addr.way
                            /\ ~rd.direct => \A w \in Way : WayHit(w) => w = HitIdx /\ Hit
                            /\ ~rd.direct /\ ~Hit => HitIdx = lru[rd.addr.set][0]
<1> SUFFICES ASSUME TagTypeOK, NoAlias
             PROVE  /\ HitIdx \in Way /\ rd.addr.set \in Sets
                    /\ rd.direct => HitIdx = rd.addr.way
                    /\ ~rd.direct => \A w \in Way : WayHit(w) => w = HitIdx /\ Hit
                    /\ ~rd.direct /\ ~Hit => HitIdx = lru[rd.addr.set][0]
  OBVIOUS
<1>1. rd.addr.set \in Sets /\ rd.addr.way \in Way /\ 0 \in Way
  BY Bounds DEF TagTypeOK, ReadRegisters, Addr
<1>2. lru[rd.addr.set][0] \in Way
  BY <1>1 DEF TagTypeOK
<1>3. CASE rd.direct
  BY <1>1, <1>3 DEF HitIdx
<1>4. ASSUME ~rd.direct, NEW u \in Way, WayHit(u) PROVE HitIdx = u
  <2>1. \A x \in Way : WayHit(x) => x = u
    BY <1>1, <1>4 DEF NoAlias, WayHit, Valid, TagTypeOK, Entry
  <2>2. u <= u
    BY DEF Way
  <2>3. \E w \in Way : WayHit(w) /\ \A x \in Way : WayHit(x) => x <= w
    BY <1>4, <2>1, <2>2
  <2>4. HitIdx = CHOOSE w \in Way : WayHit(w) /\ \A x \in Way : WayHit(x) => x <= w
    BY <1>4 DEF HitIdx
  <2> QED BY <2>1, <2>3, <2>4
<1>5. CASE ~rd.direct /\ ~\E w \in Way : WayHit(w)
  BY <1>1, <1>2, <1>5 DEF HitIdx, Lru0!Lru
<1> QED BY <1>1, <1>3, <1>4, <1>5 DEF Hit

\* HitState of the next state.
LEMMA HitNext ==
    TagTypeOK' /\ NoAlias' => /\ HitIdx' \in Way /\ rd'.addr.set \in Sets
                              /\ rd'.direct => HitIdx' = rd'.addr.way
                              /\ ~rd'.direct => \A w \in Way : WayHit(w)' => w = HitIdx' /\ Hit'
                              /\ ~rd'.direct /\ ~Hit' => HitIdx' = lru'[rd'.addr.set][0]
<1>1. (TagTypeOK /\ NoAlias => /\ HitIdx \in Way /\ rd.addr.set \in Sets
                               /\ rd.direct => HitIdx = rd.addr.way
                               /\ ~rd.direct => \A w \in Way : WayHit(w) => w = HitIdx /\ Hit
                               /\ ~rd.direct /\ ~Hit => HitIdx = lru[rd.addr.set][0])'
  BY HitState, PTL
<1> QED BY <1>1

\* the same lookup in the same memory has the same result
LEMMA SameLookup ==
    ASSUME TagTypeOK, NoAlias, TagTypeOK', ram' = ram, ~rd.direct, ~rd'.direct, rd'.addr = rd.addr
    PROVE  /\ NoAlias' /\ (Hit' <=> Hit) /\ HitIdx' \in Way
           /\ Hit \/ lru' = lru => HitIdx' = HitIdx
<1>1. NoAlias'
  BY DEF NoAlias, Valid
<1>2. \A w \in Way : WayHit(w)' <=> WayHit(w)
  BY DEF WayHit
<1>3. Hit' <=> Hit
  BY <1>1, <1>2, HitState, HitNext DEF Hit
<1> QED BY <1>1, <1>2, <1>3, HitState, HitNext DEF Hit

\* the entry at (s0, w0) becomes e, every other one stays
Rewritten(s0, w0, e) ==
    \A s \in Sets, w \in Way : ram'[s][w] = IF s = s0 /\ w = w0 THEN e ELSE ram[s][w]

\* what a clock with the line controls c does to the tag memory
TagEffect(c) ==
    /\ TagTypeOK'
    /\ rd'.addr = c.addr /\ rd'.direct = c.direct /\ rd'.invalidate = c.invalidate
    /\ rd'.re = c.re
    /\ ~c.we /\ ~(rd.invalidate /\ Hit) => ram' = ram
    /\ ~c.we /\ ~rd.direct /\ ~(Hit /\ rd.re) /\ ~rd.invalidate => lru' = lru
    /\ rd.invalidate /\ (c.we \/ Hit) =>
          \E v \in Line : Rewritten(c.addr.set, HitIdx, [tag |-> c.addr.tag, flags |-> {}, data |-> v])
    /\ c.we /\ ~rd.invalidate /\ c.wstrb # {} =>
          Rewritten(c.addr.set, HitIdx,
                    [tag |-> c.addr.tag, flags |-> c.wflags,
                     data |-> [w \in Words |-> IF w \in c.wstrb THEN c.wdata[w]
                                              ELSE ram[c.addr.set][HitIdx].data[w]]])

\* One clock of the tag memory, reduced to what the proofs use of it.
LEMMA TagFacts ==
    ASSUME TagTypeOK, NoAlias, NEW c \in LineControls, TagClock(c)
    PROVE  TagEffect(c)
<1>0. HitIdx \in Way
  BY HitState
<1>b. c.addr.set \in Sets /\ rd.addr.set \in Sets /\ c.addr.tag \in Tags
  BY DEF LineControls, Addr, TagTypeOK, ReadRegisters
<1>1. Written(c) \in Entry
  BY <1>0, <1>b DEF Written, Entry, TagTypeOK, LineControls, Line
<1>2. ram' \in [Sets -> [Way -> Entry]]
  BY <1>0, <1>1, <1>b DEF TagClock, TagTypeOK
<1>3. lru' \in [Sets -> [Way -> Way]]
  <2> DEFINE row == lru[rd.addr.set]
  <2>1. row \in [Way -> Way]
    BY <1>b DEF TagTypeOK
  <2>2. Lru0!RowUp(row, HitIdx) \in [Way -> Way] /\ Lru0!RowDown(row, HitIdx) \in [Way -> Way]
           /\ Lru0!RowInit \in [Way -> Way]
    BY <2>1, <1>0, RowTypes
  <2> QED BY <2>2, <1>b DEF TagClock, TagTypeOK, Lru0!TableClock
<1>4. rd' = [addr |-> c.addr, direct |-> c.direct, invalidate |-> c.invalidate,
              re |-> c.re, snoop |-> c.snoop]
  BY DEF TagClock
<1>5. rd' \in ReadRegisters
  BY <1>4 DEF ReadRegisters, LineControls
<1>6. ~c.we /\ ~(rd.invalidate /\ Hit) => ram' = ram
  BY DEF TagClock, WayWe
<1>7. ~c.we /\ ~rd.direct /\ ~(Hit /\ rd.re) /\ ~rd.invalidate => lru' = lru
  BY DEF TagClock, Lru0!TableClock
<1>8. (c.we \/ (rd.invalidate /\ Hit)) /\ (rd.invalidate \/ c.wstrb # {})
         => Rewritten(c.addr.set, HitIdx, Written(c))
  BY <1>0, <1>b DEF TagClock, WayWe, TagTypeOK, Rewritten
<1>9. ASSUME rd.invalidate, c.we \/ Hit
      PROVE  \E v \in Line : Rewritten(c.addr.set, HitIdx, [tag |-> c.addr.tag, flags |-> {}, data |-> v])
  <2>1. Written(c) = [tag |-> c.addr.tag, flags |-> {}, data |-> Written(c).data]
    BY <1>9 DEF Written
  <2>2. Written(c).data \in Line
    BY <1>1 DEF Entry
  <2> QED BY <1>8, <1>9, <2>1, <2>2
<1>10. ~rd.invalidate => Written(c) = [tag |-> c.addr.tag, flags |-> c.wflags,
            data |-> [w \in Words |-> IF w \in c.wstrb THEN c.wdata[w]
                                     ELSE ram[c.addr.set][HitIdx].data[w]]]
  BY DEF Written
<1>11. c.we \in BOOLEAN
  BY DEF LineControls
<1> QED BY <1>2, <1>3, <1>4, <1>5, <1>6, <1>7, <1>8, <1>9, <1>10, <1>11 DEF TagTypeOK, TagEffect

----------------------------------------------------------------------------
\* marks of a write of a line to the memory
Writes == r.write_first \/ r.write_flush

\* a request of the port is being served
Serving ==
    /\ r.state \in {"CheckHit", "TranslateAddress", "WaitGrant", "WaitResp", "CheckResp",
                    "SetupReadAdr", "WriteBus"}
    /\ ~r.write_flush

\* a line was given away in the last clock, and is dropped in this one
Giving == rd.invalidate /\ r.state = "Idle"

\* a line dropped by a flush is on its way to the memory
Leaving == r.write_flush /\ r.state \in {"WaitGrant", "WriteBus"}

\* the memory is asked for what the request of the port needs
Asking == Serving /\ ~r.write_first /\ r.state \in {"WaitGrant", "WaitResp", "CheckResp", "WriteBus"}

----------------------------------------------------------------------------
\* The port: what its registers say of the owner and the contents of the line

\* of the request, whatever its state
RequestInv ==
    LET p == At(d.addr) IN
    d.state # "Idle" =>
       /\ d.srcid \in Slots /\ d.addr \in Addr
       /\ "CACHED" \in d.type <=> d.addr.tag \notin Uncached
       /\ "UNIQUE" \in d.type => "CACHED" \in d.type

\* a write: of a line its owner gives back, of one that nobody owns, or of a word
WriteInv ==
    LET p == At(d.addr) IN
    d.state # "Idle" /\ "WRITE" \in d.type /\ "SNOOP" \notin d.type =>
       /\ d.state \in {"snoop_ac", "snoop_cr", "CacheWriteReq", "WriteMem"}
       /\ d.wdata \in Line
       /\ "UNIQUE" \in d.type => owner[p] = None /\ d.addr.tag \notin Faulty
       /\ "UNIQUE" \notin d.type => d.state \in {"CacheWriteReq", "WriteMem"}
       /\ "UNIQUE" \notin d.type /\ "CACHED" \in d.type =>
             owner[p] = d.srcid /\ d.wdata = newest[p]
       /\ "CACHED" \notin d.type => \A w \in Words \ {0} : d.wdata[w] = 0

\* a read: of a line that nobody owns, or that its owner has given in the snoop
ReadInv ==
    LET p == At(d.addr) IN
    d.state # "Idle" /\ ("WRITE" \notin d.type \/ "SNOOP" \in d.type) =>
       /\ d.state \in {"snoop_ac", "snoop_cr", "snoop_cd", "CacheReadReq", "ReadMem"}
       /\ owner[p] # d.srcid
       /\ d.state \in {"CacheReadReq", "ReadMem"} =>
             ("SNOOP" \in d.type <=> owner[p] # None)
       /\ "SNOOP" \in d.type => /\ {"WRITE", "CACHED"} \subseteq d.type
                                /\ d.state \in {"CacheReadReq", "ReadMem"}
                                /\ d.wdata = newest[p]
       /\ "SNOOP" \notin d.type => d.wdata = None

\* the snoop asks everyone else, and awaits the owner's data
SnoopInv ==
    /\ d.state \in {"snoop_ac", "snoop_cr", "snoop_cd"} => "CACHED" \in d.type
    /\ d.state = "snoop_ac" => d.ac_valid = Slots \ {d.srcid} /\ d.cr_ready = {} /\ d.cd_ready = {}
    /\ d.state = "snoop_cr" => d.cr_ready = Slots \ {d.srcid} /\ d.cd_ready = {}
    /\ d.state = "snoop_cd" => owner[At(d.addr)] # None /\ d.cd_ready = {owner[At(d.addr)]}

OwnerInv == \A p \in Places : owner[p] # None => p[1] \notin Uncached \cup Faulty

DstInv ==
    /\ d.state = "Idle" => d = Port!DstReset
    /\ RequestInv /\ WriteInv /\ ReadInv /\ SnoopInv /\ OwnerInv

----------------------------------------------------------------------------
\* The controller

FlagsInv ==
    /\ r.mem_valid <=> r.state = "WaitGrant"
    /\ r.write_flush => r.state \in {"WaitGrant", "WriteBus", "FlushAddr"}
    /\ r.write_first => r.state \in {"WaitGrant", "WriteBus"} /\ ~r.write_flush
    /\ r.fault => r.state = "CheckResp"
    /\ r.state \in {"FlushAddr", "FlushCheck"} \/ r.write_flush => r.req_flush_all
    /\ r.req_flush /\ r.state # "Reset" => r.req_flush_all

\* the port waits while its request is served, and the registers hold that request
ServeInv ==
    /\ Serving <=> d.state \in {"ReadMem", "WriteMem"}
    /\ Serving => /\ r.req_addr = d.addr /\ r.req_type = d.type /\ r.req_strb = Words
                  /\ r.req_wdata = IF d.wdata = None THEN ZeroLine ELSE d.wdata
                  /\ r.state # "CheckHit" => ~MissIsDone
                  /\ r.write_first => IsCached

\* what is asked of the memory
MemInv ==
    /\ Writes /\ r.state \in {"WaitGrant", "WriteBus"} =>
          r.mem_type = "WriteBack" /\ r.mem_addr.tag \notin Faulty /\ r.mem_strb = Words
    /\ Asking =>
          /\ At(r.mem_addr) = At(r.req_addr) /\ r.mem_strb = Words
          /\ r.mem_type = IF IsCached THEN ReadType
                          ELSE IF IsWrite THEN "WriteNoSnoop" ELSE "ReadNoSnoop"
          /\ r.state = "WriteBus" => IsWrite /\ ~IsCached
          /\ r.state \in {"WaitResp", "CheckResp"} => ~(IsWrite /\ ~IsCached)
          /\ r.state = "CheckResp" => (r.fault <=> r.req_addr.tag \in Faulty)
          /\ IsWrite /\ ~IsCached => r.line_o = r.req_wdata

BusInv ==
    bus # None => /\ r.state \in {"WaitResp", "WriteBus"}
                  /\ bus = [type |-> r.mem_type, addr |-> r.mem_addr, data |-> r.line_o,
                            strb |-> r.mem_strb]

\* the tag memory shows the line asked for, or under a sweep the position reached
PortInv ==
    /\ rd.invalidate => r.state \in {"Idle", "FlushCheck", "ResetWrite"}
    /\ r.state \in {"FlushCheck", "ResetWrite"} =>
          rd.invalidate /\ rd.direct /\ rd.addr = r.req_addr
    /\ Serving => ~rd.direct /\ rd.addr = r.req_addr
    /\ Giving => /\ ~rd.direct /\ rd.addr = r.req_addr /\ adr = r.req_addr /\ Hit
                 /\ d.state = "Idle" /\ owner[At(r.req_addr)] # None

CachedTags ==
    \A s \in Sets, w \in Way : Valid(s, w) => ram[s][w].tag \notin Uncached \cup Faulty

LookupInv == Serving /\ r.state \notin {"CheckHit", "SetupReadAdr"} => ~Hit

ControlInv ==
    /\ TypeOK /\ load \in Workloads /\ DstInv /\ FlagsInv /\ ServeInv /\ MemInv /\ BusInv /\ PortInv
    /\ NoAlias /\ CachedTags /\ LookupInv

----------------------------------------------------------------------------
\* The data

\* the cache has a line of place p
Held(p) == \E w \in Way : Valid(p[2], w) /\ ram[p[2]][w].tag = p[1]

\* the line is given away
Given(s, w) == Giving /\ Place(s, w) = At(rd.addr)

LinesNewest ==
    \A s \in Sets, w \in Way : Valid(s, w) /\ ~Given(s, w) =>
       /\ owner[Place(s, w)] = None /\ ram[s][w].data = newest[Place(s, w)]
       /\ "DIRTY" \notin ram[s][w].flags => mem[Place(s, w)] = newest[Place(s, w)]

MemNewest ==
    \A p \in Places : owner[p] = None =>
       mem[p] = newest[p] \/ Held(p) \/ (Leaving /\ p = At(r.mem_addr))

WriteNewest ==
    Writes /\ r.state \in {"WaitGrant", "WriteBus"} =>
       owner[At(r.mem_addr)] = None /\ r.line_o = newest[At(r.mem_addr)]

VictimSaved ==
    Serving /\ IsCached /\ r.state \in {"WaitGrant", "WaitResp", "CheckResp", "WriteBus"}
            /\ Valid(rd.addr.set, HitIdx) =>
       IF r.write_first THEN Place(rd.addr.set, HitIdx) = At(r.mem_addr)
       ELSE mem[Place(rd.addr.set, HitIdx)] = newest[Place(rd.addr.set, HitIdx)]

AnswerNewest ==
    Asking /\ r.state = "CheckResp" /\ ~IsWrite => r.line_i = newest[At(r.req_addr)]

ResetEmpty ==
    r.state \in {"Reset", "ResetWrite"} => \A s \in Sets, w \in Way : ~Valid(s, w)

ToldInv == told \notin {"unasked", "misled", "stale"}

DataInv ==
    /\ LinesNewest /\ MemNewest /\ WriteNewest /\ VictimSaved /\ AnswerNewest /\ ResetEmpty
    /\ ToldInv

\* the sweep visits (s, w) before address a
Before(s, w, a) == s < a.set \/ (s = a.set /\ w < a.way)

\* a flush in progress: its counter fits its position, and what is behind is empty
SweepInv ==
    r.state \in {"FlushAddr", "FlushCheck"} \/ Leaving =>
       /\ r.flush_cnt = (NSets - 1 - r.req_addr.set) * Ways + (Ways - 1 - r.req_addr.way)
       /\ \A s \in Sets, w \in Way : Before(s, w, r.req_addr) => ~Valid(s, w)

\* the inductive invariant
L2Inv == ControlInv /\ DataInv /\ SweepInv

----------------------------------------------------------------------------
\* The port without an answer of the L2 cache

\* a place of the memory is a tag and a set, and the address of a request is one
LEMMA PlaceOf ==
    ASSUME NEW a \in Addr
    PROVE  At(a) \in Places /\ At(a)[1] = a.tag /\ At(a)[2] = a.set /\ a.tag \in Tags /\ a.set \in Sets
  BY DEF At, Places, Addr

\* q is a request for the line of place p
Requested(q, p) ==
    /\ q # None /\ q.addr \in Addr /\ At(q.addr) = p /\ q.addr.tag = p[1]
    /\ q.cached <=> p[1] \notin Uncached
    /\ ~q.instr

\* reads and writes that a cache may wish for
ReadWish(i, w, p) ==
    /\ Requested(w.ar, p) /\ w.aw = None /\ owner[p] # i
    /\ w.ar.unique => p[1] \notin Uncached
WriteWish(i, w, p) ==
    /\ w.ar = None /\ Requested(w.aw, p) /\ w.aw.data \in Line
    /\ \/ p[1] \in Uncached /\ ~w.aw.unique /\ \A k \in Words \ {0} : w.aw.data[k] = 0
       \/ p[1] \notin Uncached /\ ~w.aw.unique /\ owner[p] = i /\ w.aw.data = newest[p]
       \/ p[1] \notin Uncached \cup Faulty /\ w.aw.unique /\ owner[p] = None

\* A request is not the absence of one.
LEMMA RequestFacts ==
    ASSUME NEW p \in Places, NEW x \in Line \cup {None}
    PROVE  /\ Requested(Request(p, FALSE, x), p) /\ ~Request(p, FALSE, x).unique
           /\ Requested(Request(p, TRUE, x), p) /\ Request(p, TRUE, x).unique
           /\ Request(p, FALSE, x).data = x /\ Request(p, TRUE, x).data = x
<1> DEFINE a == [tag |-> p[1], set |-> p[2], word |-> 0, way |-> 0]
<1>1. p[1] \in Tags /\ p[2] \in Sets /\ p = <<p[1], p[2]>>
  BY DEF Places
<1>2. a \in Addr /\ At(a) = p /\ a.tag = p[1]
  BY <1>1, Bounds, DataAssumption DEF Addr, At
<1> DEFINE k == p[1] \notin Uncached
           q(u) == [addr |-> a, cached |-> k, unique |-> u, instr |-> FALSE, data |-> x]
<1>3. Request(p, FALSE, x) = q(FALSE) /\ Request(p, TRUE, x) = q(TRUE)
  BY DEF Request
<1>4. k \in BOOLEAN /\ (k <=> p[1] \notin Uncached)
  OBVIOUS
<1> HIDE DEF a, k
<1>5. q(FALSE) # None /\ q(TRUE) # None
  <2>1. /\ q(FALSE) \in [addr : Addr, cached : BOOLEAN, unique : BOOLEAN, instr : {FALSE},
                         data : Line \cup {None}]
        /\ q(TRUE) \in [addr : Addr, cached : BOOLEAN, unique : BOOLEAN, instr : {FALSE},
                        data : Line \cup {None}]
    <3> HIDE DEF Line, Addr
    <3> QED BY <1>2, <1>4
  <2> QED BY <2>1, NoneAssumption
<1>6. \A u \in {FALSE, TRUE} : /\ q(u).addr = a /\ q(u).unique = u /\ q(u).instr = FALSE
                               /\ q(u).data = x /\ q(u).cached = k
  OBVIOUS
<1>7. q(FALSE).unique = FALSE /\ q(TRUE).unique = TRUE
  OBVIOUS
<1> HIDE DEF q
<1>8. Requested(q(FALSE), p) /\ Requested(q(TRUE), p)
  BY <1>2, <1>4, <1>5, <1>6 DEF Requested
<1> QED BY <1>3, <1>6, <1>7, <1>8

\* What a cache asks of the port is a read or a write it may ask for.
LEMMA WishFacts ==
    ASSUME TypeOK, OwnerInv, load \in Workloads, NEW i \in load.slots, NEW w \in Wishes(i)
    PROVE  /\ i \in Slots
           /\ w = Quiet \/ \E p \in Places : ReadWish(i, w, p) \/ WriteWish(i, w, p)
<1>1. load.slots \subseteq Slots /\ load.lines \subseteq Places
  BY L2Assumption DEF Places
<1>2. i \in Slots /\ i # None
  BY <1>1, L2Assumption
<1>3. ASSUME NEW p \in Places PROVE Contents(p) \subseteq Line /\ newest[p] \in Line
  BY Zeros DEF Contents, TypeOK
<1>4. SUFFICES ASSUME w # Quiet PROVE \E p \in Places : ReadWish(i, w, p) \/ WriteWish(i, w, p)
  BY <1>2
<1>5. PICK p \in Places : w \in
         IF p[1] \in Uncached
         THEN {Read(p, FALSE)} \cup {Write(p, FALSE, x) : x \in Contents(p)}
         ELSE IF owner[p] = i THEN {Write(p, FALSE, newest[p])}
         ELSE {Read(p, FALSE)} \cup
              IF i \notin load.owners THEN {}
              ELSE {Read(p, TRUE)} \cup
                   IF owner[p] # None \/ p[1] \in Faulty THEN {}
                   ELSE {Write(p, TRUE, x) : x \in Contents(p)}
  BY <1>1, <1>4 DEF Wishes
<1> SUFFICES ReadWish(i, w, p) \/ WriteWish(i, w, p)
  OBVIOUS
<1>r. /\ Read(p, FALSE).ar = Request(p, FALSE, None) /\ Read(p, FALSE).aw = None
      /\ Read(p, TRUE).ar = Request(p, TRUE, None) /\ Read(p, TRUE).aw = None
      /\ \A x : /\ Write(p, FALSE, x).ar = None /\ Write(p, FALSE, x).aw = Request(p, FALSE, x)
                /\ Write(p, TRUE, x).ar = None /\ Write(p, TRUE, x).aw = Request(p, TRUE, x)
  BY DEF Read, Write, Quiet
<1>n. None \in Line \cup {None}
  OBVIOUS
<1>f. ASSUME NEW x \in Line \cup {None}
      PROVE  /\ Requested(Request(p, FALSE, x), p) /\ ~Request(p, FALSE, x).unique
             /\ Requested(Request(p, TRUE, x), p) /\ Request(p, TRUE, x).unique
             /\ Request(p, FALSE, x).data = x /\ Request(p, TRUE, x).data = x
  BY RequestFacts, <1>f, Zenon
<1>7. CASE p[1] \in Uncached /\ w = Read(p, FALSE)
  <2>1. owner[p] # i
    BY <1>2, <1>7 DEF OwnerInv
  <2>2. w.ar = Request(p, FALSE, None) /\ w.aw = None
    BY <1>r, <1>7
  <2>3. Requested(w.ar, p) /\ ~w.ar.unique
    BY <1>f, <1>n, <2>2
  <2> QED BY <2>1, <2>2, <2>3 DEF ReadWish
<1>8. ASSUME p[1] \in Uncached, NEW x \in Contents(p), w = Write(p, FALSE, x) PROVE WriteWish(i, w, p)
  <2>1. x \in Line /\ x \in Line \cup {None} /\ \A k \in Words \ {0} : x[k] = 0
    BY <1>3, <1>8 DEF Contents, ZeroLine
  <2>2. w.ar = None /\ w.aw = Request(p, FALSE, x)
    BY <1>r, <1>8
  <2>3. Requested(w.aw, p) /\ ~w.aw.unique /\ w.aw.data = x
    BY <1>f, <2>1, <2>2, Zenon
  <2> QED BY <1>8, <2>1, <2>2, <2>3 DEF WriteWish
<1>9. CASE p[1] \notin Uncached /\ owner[p] = i /\ w = Write(p, FALSE, newest[p])
  <2>1. newest[p] \in Line /\ newest[p] \in Line \cup {None}
    BY <1>3
  <2>2. w.ar = None /\ w.aw = Request(p, FALSE, newest[p])
    BY <1>r, <1>9
  <2>3. Requested(w.aw, p) /\ ~w.aw.unique /\ w.aw.data = newest[p]
    BY <1>f, <2>1, <2>2, Zenon
  <2> QED BY <1>9, <2>1, <2>2, <2>3 DEF WriteWish
<1>10. CASE p[1] \notin Uncached /\ owner[p] # i /\ (w = Read(p, FALSE) \/ w = Read(p, TRUE))
  <2>2. (w.ar = Request(p, FALSE, None) \/ w.ar = Request(p, TRUE, None)) /\ w.aw = None
    BY <1>r, <1>10
  <2>3. Requested(w.ar, p)
    BY <1>f, <1>n, <2>2
  <2> QED BY <1>10, <2>2, <2>3 DEF ReadWish
<1>11. ASSUME p[1] \notin Uncached \cup Faulty, owner[p] = None, NEW x \in Contents(p), w = Write(p, TRUE, x)
       PROVE  WriteWish(i, w, p)
  <2>1. x \in Line /\ x \in Line \cup {None}
    BY <1>3, <1>11
  <2>2. w.ar = None /\ w.aw = Request(p, TRUE, x)
    BY <1>r, <1>11
  <2>3. Requested(w.aw, p) /\ w.aw.unique /\ w.aw.data = x
    BY <1>f, <2>1, <2>2, Zenon
  <2> QED BY <1>11, <2>1, <2>2, <2>3 DEF WriteWish
<1>12. CASE p[1] \in Uncached
  BY <1>5, <1>7, <1>8, <1>12
<1>13. CASE p[1] \notin Uncached /\ owner[p] = i
  BY <1>5, <1>9, <1>13
<1>14. CASE p[1] \notin Uncached /\ owner[p] # i
  <2>1. CASE i \notin load.owners
    BY <1>5, <1>10, <1>14, <2>1
  <2>2. CASE i \in load.owners
    BY <1>5, <1>10, <1>11, <1>14, <2>2
  <2> QED BY <2>1, <2>2
<1> QED BY <1>12, <1>13, <1>14

\* One slot at most has a wish, which the port then takes (vb_srcid).
LEMMA SourceFacts ==
    ASSUME NEW i \in Slots, NEW w, NEW l1o, l1o = [j \in Slots |-> IF j = i THEN w ELSE Quiet]
    PROVE  /\ l1o[i] = w
           /\ Port!Writing(l1o) = IF w.aw # None THEN {i} ELSE {}
           /\ Port!Reading(l1o) = IF w.ar # None THEN {i} ELSE {}
           /\ w.aw # None \/ w.ar # None => Port!SrcId(l1o) = i
<1>1. Quiet.aw = None /\ Quiet.ar = None
  BY DEF Quiet
<1>2. Port!Writing(l1o) = IF w.aw # None THEN {i} ELSE {}
  BY <1>1 DEF Port!Writing
<1>3. Port!Reading(l1o) = IF w.ar # None THEN {i} ELSE {}
  BY <1>1 DEF Port!Reading
<1>4. Port!Lowest({i}) = i
  <2>1. i <= i
    BY L2Assumption
  <2>2. \A k \in {i} : k = i
    OBVIOUS
  <2> QED BY <2>1, <2>2 DEF Port!Lowest
<1> QED BY <1>2, <1>3, <1>4 DEF Port!SrcId

\* The reset values of the port are registers of it.
LEMMA ResetType == Port!DstReset \in [state : {"Idle", "CacheReadReq", "CacheWriteReq", "ReadMem",
                    "WriteMem", "snoop_ac", "snoop_cr", "snoop_cd"},
           srcid : Slots \cup {None}, addr : Addr \cup {None},
           type : ReqTypes, wdata : Line \cup {None},
           ac_valid : SUBSET Slots, cr_ready : SUBSET Slots,
           cd_ready : SUBSET Slots]
<1> HIDE DEF Addr, Line
<1> QED BY DEF Port!DstReset, ReqTypes

\* l2_dst.cpp, State_Idle: a write is taken.
LEMMA PortWrite ==
    ASSUME TypeOK, DstInv, NEW i \in Slots, NEW p \in Places,
           NEW w, WriteWish(i, w, p), NEW l1o, l1o = [j \in Slots |-> IF j = i THEN w ELSE Quiet],
           Port!IdleWrite(l1o), owner' = owner, newest' = newest
    PROVE  Port!DstTypeOK' /\ DstInv' /\ d'.state \notin {"Idle", "ReadMem", "WriteMem"}
<1> DEFINE q == w.aw
           u == q.unique
           x == q.data
           t == {"WRITE"} \cup (IF q.cached THEN {"CACHED"} ELSE {})
                          \cup (IF u THEN {"UNIQUE"} ELSE {})
           s == IF u THEN "snoop_ac" ELSE "CacheWriteReq"
           a == IF u THEN Slots \ {i} ELSE {}
<1>1. /\ q # None /\ q.addr \in Addr /\ At(q.addr) = p /\ q.addr.tag = p[1]
      /\ (q.cached <=> p[1] \notin Uncached) /\ x \in Line
  BY DEF WriteWish, Requested
<1>2. u => q.cached
  BY <1>1, SMTT(30) DEF WriteWish
<1>3. Port!SrcId(l1o) = i /\ l1o[i].aw = q /\ d = Port!DstReset
  BY <1>1, SourceFacts DEF WriteWish, DstInv, Port!IdleWrite
<1>4. d' = [state |-> s, srcid |-> i, addr |-> q.addr, type |-> t, wdata |-> x,
            ac_valid |-> a, cr_ready |-> {}, cd_ready |-> {}]
  <2>1. CASE u
    BY <1>1, <1>2, <1>3, <2>1, ZenonT(60) DEF Port!IdleWrite, Port!DstReset
  <2>2. CASE ~u
    BY <1>1, <1>2, <1>3, <2>2, ZenonT(60) DEF Port!IdleWrite, Port!DstReset
  <2> QED BY <2>1, <2>2
<1>5. /\ t \in ReqTypes /\ "WRITE" \in t /\ "SNOOP" \notin t
      /\ ("CACHED" \in t <=> p[1] \notin Uncached) /\ ("UNIQUE" \in t <=> u)
  BY <1>1 DEF ReqTypes
<1>6. /\ s \in {"snoop_ac", "CacheWriteReq"} /\ (s = "snoop_ac" <=> u)
      /\ (u => a = Slots \ {i}) /\ a \in SUBSET Slots
  OBVIOUS
<1> HIDE DEF t, s, a
<1>7. /\ d'.state = s /\ d'.srcid = i /\ d'.addr = q.addr /\ d'.type = t /\ d'.wdata = x
      /\ d'.ac_valid = a /\ d'.cr_ready = {} /\ d'.cd_ready = {}
  BY <1>4
<1>8. Port!DstTypeOK'
  <2>1. s \in {"Idle", "CacheReadReq", "CacheWriteReq", "ReadMem",
                    "WriteMem", "snoop_ac", "snoop_cr", "snoop_cd"}
    BY <1>6
  <2>2. t \in Port!ReqTypes
    BY <1>5 DEF ReqTypes, Port!ReqTypes
  <2> HIDE DEF Addr, Line
  <2> QED BY <1>1, <1>4, <1>6, <2>1, <2>2 DEF Port!DstTypeOK
<1>9. RequestInv'
  BY <1>1, <1>2, <1>5, <1>7 DEF RequestInv
<1>10. WriteInv'
  BY <1>1, <1>5, <1>6, <1>7 DEF WriteInv, WriteWish
<1>11. ReadInv'
  BY <1>5, <1>7 DEF ReadInv
<1>12. SnoopInv'
  BY <1>1, <1>2, <1>5, <1>6, <1>7 DEF SnoopInv
<1>13. OwnerInv'
  BY DEF OwnerInv, DstInv
<1> QED BY <1>6, <1>7, <1>8, <1>9, <1>10, <1>11, <1>12, <1>13 DEF DstInv

\* l2_dst.cpp, State_Idle: a read is taken.
LEMMA PortRead ==
    ASSUME TypeOK, DstInv, NEW i \in Slots, NEW p \in Places,
           NEW w, ReadWish(i, w, p), NEW l1o, l1o = [j \in Slots |-> IF j = i THEN w ELSE Quiet],
           Port!IdleRead(l1o), owner' = owner, newest' = newest
    PROVE  Port!DstTypeOK' /\ DstInv' /\ d'.state \notin {"Idle", "ReadMem", "WriteMem"}
<1> DEFINE q == w.ar
           u == q.unique
           t == (IF q.cached THEN {"CACHED"} ELSE {}) \cup (IF u THEN {"UNIQUE"} ELSE {})
           s == IF q.cached THEN "snoop_ac" ELSE "CacheReadReq"
           a == IF q.cached THEN Slots \ {i} ELSE {}
<1>1. /\ q # None /\ q.addr \in Addr /\ At(q.addr) = p /\ q.addr.tag = p[1]
      /\ (q.cached <=> p[1] \notin Uncached) /\ ~q.instr
  BY DEF ReadWish, Requested
<1>2. u => q.cached
  BY <1>1 DEF ReadWish
<1>3. Port!SrcId(l1o) = i /\ l1o[i].ar = q /\ d = Port!DstReset
  BY <1>1, SourceFacts DEF ReadWish, DstInv, Port!IdleRead
<1>4. d' = [state |-> s, srcid |-> i, addr |-> q.addr, type |-> t, wdata |-> None,
            ac_valid |-> a, cr_ready |-> {}, cd_ready |-> {}]
  <2>1. CASE u
    BY <1>1, <1>2, <1>3, <2>1, ZenonT(60) DEF Port!IdleRead, Port!DstReset
  <2>2. CASE ~u
    BY <1>1, <1>2, <1>3, <2>2, ZenonT(60) DEF Port!IdleRead, Port!DstReset
  <2> QED BY <2>1, <2>2
<1>5. /\ t \in ReqTypes /\ "WRITE" \notin t /\ "SNOOP" \notin t
      /\ ("CACHED" \in t <=> p[1] \notin Uncached) /\ ("UNIQUE" \in t <=> u)
  BY <1>1 DEF ReqTypes
<1>6. /\ s \in {"snoop_ac", "CacheReadReq"} /\ (s = "snoop_ac" <=> q.cached)
      /\ (q.cached => a = Slots \ {i}) /\ a \in SUBSET Slots
  OBVIOUS
<1> HIDE DEF t, s, a
<1>7. /\ d'.state = s /\ d'.srcid = i /\ d'.addr = q.addr /\ d'.type = t /\ d'.wdata = None
      /\ d'.ac_valid = a /\ d'.cr_ready = {} /\ d'.cd_ready = {}
  BY <1>4
<1>8. Port!DstTypeOK'
  <2>1. s \in {"Idle", "CacheReadReq", "CacheWriteReq", "ReadMem",
                    "WriteMem", "snoop_ac", "snoop_cr", "snoop_cd"}
    BY <1>6
  <2>2. t \in Port!ReqTypes
    BY <1>5 DEF ReqTypes, Port!ReqTypes
  <2> HIDE DEF Addr, Line
  <2> QED BY <1>1, <1>4, <1>6, <2>1, <2>2 DEF Port!DstTypeOK
<1>9. RequestInv'
  BY <1>1, <1>2, <1>5, <1>7 DEF RequestInv
<1>10. WriteInv'
  BY <1>5, <1>7 DEF WriteInv
<1>11. ReadInv'
  <2>1. ~q.cached => owner[p] = None
    BY <1>1 DEF OwnerInv, DstInv
  <2> QED BY <1>1, <1>5, <1>6, <1>7, <2>1 DEF ReadInv, ReadWish
<1>12. SnoopInv'
  BY <1>1, <1>2, <1>5, <1>6, <1>7 DEF SnoopInv
<1>13. OwnerInv'
  BY DEF OwnerInv, DstInv
<1> QED BY <1>6, <1>7, <1>8, <1>9, <1>10, <1>11, <1>12, <1>13 DEF DstInv

\* what a snoop says: the owner of the line answers, with its newest contents
Snooped(l1o) ==
    \A j \in Slots :
       /\ l1o[j].ac_ready /\ l1o[j].cr_valid
       /\ l1o[j].cr_resp <=> owner[At(d.addr)] = j
       /\ owner[At(d.addr)] = j => l1o[j].cd = newest[At(d.addr)]

\* l2_dst.cpp, snoop_ac: every slot is asked in the same clock.
LEMMA PortSnoopAc ==
    ASSUME TypeOK, DstInv, NEW l1o, Snooped(l1o), Port!SnoopAc(l1o),
           owner' = owner, newest' = newest
    PROVE  Port!DstTypeOK' /\ DstInv' /\ d'.state \notin {"Idle", "ReadMem", "WriteMem"}
<1>1. /\ d.state = "snoop_ac" /\ d.ac_valid = Slots \ {d.srcid} /\ d.cr_ready = {} /\ d.cd_ready = {}
      /\ Port!DstTypeOK
  BY DEF Port!SnoopAc, DstInv, SnoopInv, TypeOK
<1>2. {i \in d.ac_valid : l1o[i].ac_ready} = d.ac_valid
  BY <1>1 DEF Snooped
<1>3. d' = [d EXCEPT !.ac_valid = {}, !.cr_ready = Slots \ {d.srcid}, !.state = "snoop_cr"]
  BY <1>1, <1>2 DEF Port!SnoopAc
<1>4. /\ d'.state = "snoop_cr" /\ d'.srcid = d.srcid /\ d'.addr = d.addr /\ d'.type = d.type
      /\ d'.wdata = d.wdata /\ d'.cr_ready = Slots \ {d.srcid} /\ d'.cd_ready = {}
  BY <1>1, <1>3 DEF Port!DstTypeOK
<1>5. Port!DstTypeOK'
  <2> HIDE DEF Addr, Line
  <2> QED BY <1>1, <1>3 DEF Port!DstTypeOK
<1> USE <1>1, <1>4 DEF DstInv
<1>6. RequestInv' /\ OwnerInv'
  BY DEF RequestInv, OwnerInv
<1>7. WriteInv'
  BY DEF WriteInv
<1>8. ReadInv'
  BY DEF ReadInv
<1>9. SnoopInv'
  BY DEF SnoopInv
<1> QED BY <1>5, <1>6, <1>7, <1>8, <1>9

\* l2_dst.cpp, snoop_cr: the owner of the line says that it has newer data.
LEMMA PortSnoopCr ==
    ASSUME TypeOK, DstInv, NEW l1o, Snooped(l1o), Port!SnoopCr(l1o),
           owner' = owner, newest' = newest
    PROVE  Port!DstTypeOK' /\ DstInv' /\ d'.state \notin {"Idle", "ReadMem", "WriteMem"}
<1> DEFINE p == At(d.addr)
           told1 == {i \in d.cr_ready : l1o[i].cr_valid}
           wait == d.cd_ready \cup {i \in told1 : l1o[i].cr_resp}
           s == IF wait # {} THEN "snoop_cd" ELSE Port!AfterSnoop
<1>1. /\ d.state = "snoop_cr" /\ d.cr_ready = Slots \ {d.srcid} /\ d.cd_ready = {}
      /\ Port!DstTypeOK /\ d.srcid \in Slots
  BY DEF Port!SnoopCr, DstInv, SnoopInv, RequestInv, TypeOK
<1>2. told1 = d.cr_ready
  BY <1>1 DEF Snooped
<1>3. d' = [d EXCEPT !.cr_ready = d.cr_ready \ told1, !.cd_ready = wait, !.state = s]
  BY <1>1, <1>2 DEF Port!SnoopCr
<1>4. p \in Places /\ owner[p] \in Slots \cup {None} /\ owner[p] # d.srcid
  <2>1. p \in Places
    BY <1>1, PlaceOf DEF DstInv, RequestInv
  <2>2. owner[p] # d.srcid
    BY <1>1, L2Assumption DEF DstInv, WriteInv, ReadInv
  <2> QED BY <2>1, <2>2 DEF TypeOK
<1>5. wait = IF owner[p] = None THEN {} ELSE {owner[p]}
  <2>1. \A j \in Slots : l1o[j].cr_resp <=> owner[p] = j
    BY DEF Snooped
  <2> QED BY <1>1, <1>2, <1>4, <2>1, L2Assumption
<1>6. s = IF owner[p] # None THEN "snoop_cd"
          ELSE IF "WRITE" \in d.type THEN "CacheWriteReq" ELSE "CacheReadReq"
  BY <1>5 DEF Port!AfterSnoop
<1> HIDE DEF s, wait
<1>7. /\ d'.state = s /\ d'.srcid = d.srcid /\ d'.addr = d.addr /\ d'.type = d.type
      /\ d'.wdata = d.wdata /\ d'.cd_ready = wait
  BY <1>1, <1>3 DEF Port!DstTypeOK
<1>8. Port!DstTypeOK'
  <2>1. d.cr_ready \ told1 \in SUBSET Slots /\ wait \in SUBSET Slots
    BY <1>1, <1>4, <1>5
  <2> HIDE DEF Addr, Line, told1
  <2> QED BY <1>1, <1>3, <1>6, <2>1, ZenonT(60) DEF Port!DstTypeOK
<1> HIDE DEF told1, p
<1>a. p = At(d.addr)
  BY DEF p
<1>b. s \in {"snoop_cd", "CacheWriteReq", "CacheReadReq"}
  BY <1>6
<1>9. RequestInv' /\ OwnerInv'
  BY <1>1, <1>7 DEF RequestInv, OwnerInv, DstInv
<1>10. WriteInv'
  BY <1>1, <1>6, <1>7, <1>a DEF WriteInv, DstInv
<1>11. ReadInv'
  BY <1>1, <1>6, <1>7, <1>a DEF ReadInv, DstInv
<1>12. SnoopInv'
  BY <1>1, <1>5, <1>6, <1>7, <1>a DEF SnoopInv, DstInv
<1> QED BY <1>7, <1>8, <1>9, <1>10, <1>11, <1>12, <1>b DEF DstInv

\* l2_dst.cpp, snoop_cd: the owner gives the line.
LEMMA PortSnoopCd ==
    ASSUME TypeOK, DstInv, NEW l1o, Snooped(l1o), Port!SnoopCd(l1o),
           owner' = owner, newest' = newest
    PROVE  Port!DstTypeOK' /\ DstInv' /\ d'.state \notin {"Idle", "ReadMem", "WriteMem"}
<1> DEFINE p == At(d.addr)
           o == owner[p]
           t == d.type \cup {"WRITE", "SNOOP"}
<1>1. /\ d.state = "snoop_cd" /\ o # None /\ d.cd_ready = {o}
      /\ Port!DstTypeOK /\ d.srcid \in Slots /\ p \in Places
  BY PlaceOf DEF Port!SnoopCd, DstInv, SnoopInv, RequestInv, TypeOK
<1>2. /\ "WRITE" \notin d.type /\ "SNOOP" \notin d.type /\ "CACHED" \in d.type
      /\ o # d.srcid
  BY <1>1 DEF DstInv, WriteInv, ReadInv, SnoopInv
<1>3. o \in Slots /\ newest[p] \in Line /\ newest[p] # None
  BY <1>1, NoneAssumption DEF TypeOK
<1>4. l1o[o].cd = newest[p]
  BY <1>3 DEF Snooped
<1>5. {i \in d.cd_ready : l1o[i].cd # None} = {o}
  BY <1>1, <1>3, <1>4
<1>6. (CHOOSE i \in {o} : \A j \in {o} : j <= i) = o
  <2>1. o \in Nat
    BY <1>3, L2Assumption
  <2> HIDE DEF o
  <2>2. o <= o
    BY <2>1
  <2> QED BY <2>2
<1>7. d' = [d EXCEPT !.cd_ready = {}, !.wdata = newest[p], !.type = t, !.state = "CacheReadReq"]
  <2> DEFINE given == {i \in d.cd_ready : l1o[i].cd # None}
  <2>1. given = {o} /\ d.cd_ready = given /\ given # {} /\ d.cd_ready \ given = {}
    BY <1>1, <1>5
  <2>2. l1o[CHOOSE i \in given : \A j \in given : j <= i].cd = newest[p]
    BY <1>4, <1>6, <2>1, ZenonT(60)
  <2>3. Port!AfterSnoop = "CacheReadReq"
    BY <1>2 DEF Port!AfterSnoop
  <2>4. d' = [d EXCEPT !.cd_ready = @ \ given,
                    !.wdata = IF given = {} THEN @
                              ELSE l1o[CHOOSE i \in given : \A j \in given : j <= i].cd,
                    !.type = IF d.cd_ready = given THEN @ \cup {"WRITE", "SNOOP"} ELSE @,
                    !.state = IF d.cd_ready = given THEN Port!AfterSnoop ELSE @]
    BY DEF Port!SnoopCd
  <2> HIDE DEF given, o, p
  <2> QED BY <2>1, <2>2, <2>3, <2>4 DEF t
<1>8. /\ t \in ReqTypes /\ "WRITE" \in t /\ "SNOOP" \in t /\ "CACHED" \in t
      /\ ("UNIQUE" \in t <=> "UNIQUE" \in d.type)
  BY <1>1, <1>2 DEF ReqTypes, Port!DstTypeOK, Port!ReqTypes
<1> HIDE DEF t
<1>9. /\ d'.state = "CacheReadReq" /\ d'.srcid = d.srcid /\ d'.addr = d.addr /\ d'.type = t
      /\ d'.wdata = newest[p]
  BY <1>1, <1>7 DEF Port!DstTypeOK
<1>10. Port!DstTypeOK'
  <2>1. t \in Port!ReqTypes
    BY <1>8 DEF ReqTypes, Port!ReqTypes
  <2> HIDE DEF Addr, Line, p
  <2> QED BY <1>1, <1>3, <1>7, <2>1 DEF Port!DstTypeOK
<1> HIDE DEF p
<1>a. p = At(d.addr)
  BY DEF p
<1>11. RequestInv' /\ OwnerInv'
  BY <1>1, <1>2, <1>8, <1>9 DEF RequestInv, OwnerInv, DstInv
<1>12. WriteInv'
  BY <1>8, <1>9 DEF WriteInv
<1>13. ReadInv'
  BY <1>1, <1>2, <1>8, <1>9, <1>a DEF ReadInv
<1>14. SnoopInv'
  BY <1>9 DEF SnoopInv
<1> QED BY <1>9, <1>10, <1>11, <1>12, <1>13, <1>14 DEF DstInv

\* l2_dst.cpp, CacheReadReq and CacheWriteReq: the request is offered to the L2 cache.
LEMMA PortOffers ==
    ASSUME TypeOK, DstInv, NEW ready, Port!CacheReq(ready), owner' = owner, newest' = newest
    PROVE  /\ Port!DstTypeOK' /\ DstInv' /\ d.state \in {"CacheReadReq", "CacheWriteReq"}
           /\ d'.addr = d.addr /\ d'.type = d.type /\ d'.wdata = d.wdata
           /\ d'.state \in IF ready THEN {"ReadMem", "WriteMem"} ELSE {"CacheReadReq", "CacheWriteReq"}
<1> DEFINE s == IF ~ready THEN d.state ELSE IF d.state = "CacheReadReq" THEN "ReadMem" ELSE "WriteMem"
<1>1. d.state \in {"CacheReadReq", "CacheWriteReq"} /\ Port!DstTypeOK
  BY DEF Port!CacheReq, TypeOK
<1>2. d' = [d EXCEPT !.state = s]
  BY <1>1 DEF Port!CacheReq, Port!DstTypeOK
<1>3. /\ s \in IF ready THEN {"ReadMem", "WriteMem"} ELSE {"CacheReadReq", "CacheWriteReq"}
      /\ d.state = "CacheReadReq" => s \in {"CacheReadReq", "ReadMem"}
      /\ d.state = "CacheWriteReq" => s \in {"CacheWriteReq", "WriteMem"}
  BY <1>1
<1> HIDE DEF s
<1>4. /\ d'.state = s /\ d'.srcid = d.srcid /\ d'.addr = d.addr /\ d'.type = d.type
      /\ d'.wdata = d.wdata
  BY <1>1, <1>2 DEF Port!DstTypeOK
<1>5. Port!DstTypeOK'
  <2> HIDE DEF Addr, Line
  <2> QED BY <1>1, <1>2, <1>3 DEF Port!DstTypeOK
<1> USE <1>1, <1>3, <1>4 DEF DstInv
<1>6. RequestInv' /\ OwnerInv'
  BY DEF RequestInv, OwnerInv
<1>7. WriteInv'
  BY DEF WriteInv, ReadInv
<1>8. ReadInv'
  BY DEF ReadInv, WriteInv
<1>9. SnoopInv'
  BY DEF SnoopInv
<1> QED BY <1>5, <1>6, <1>7, <1>8, <1>9

\* A clock of the port while the L2 cache does not serve its request.
LEMMA PortFree ==
    ASSUME TypeOK, DstInv, load \in Workloads, NEW l1o \in L1os, NEW ready, NEW resp,
           Port!DstClock(l1o, ready, resp), d.state \notin {"ReadMem", "WriteMem"},
           owner' = owner, newest' = newest
    PROVE  /\ Port!DstTypeOK' /\ DstInv'
           /\ d'.state \in {"ReadMem", "WriteMem"} <=> ready /\ d.state \in {"CacheReadReq", "CacheWriteReq"}
           /\ d.state \in {"CacheReadReq", "CacheWriteReq"} =>
                 d'.addr = d.addr /\ d'.type = d.type /\ d'.wdata = d.wdata
<1>1. CASE d.state = "Idle"
  <2>0. PICK i \in load.slots : \E w \in Wishes(i) : l1o = [j \in Slots |-> IF j = i THEN w ELSE Quiet]
    BY <1>1 DEF L1os
  <2>1. PICK w \in Wishes(i) : l1o = [j \in Slots |-> IF j = i THEN w ELSE Quiet]
    BY <2>0
  <2>2. i \in Slots /\ (w = Quiet \/ \E p \in Places : ReadWish(i, w, p) \/ WriteWish(i, w, p))
    BY WishFacts DEF DstInv
  <2>3. Port!IdleWrite(l1o) \/ Port!IdleRead(l1o) \/ Port!IdleWait(l1o)
    BY <1>1 DEF Port!DstClock, Port!CacheReq, Port!Mem, Port!SnoopAc, Port!SnoopCr, Port!SnoopCd
  <2>4. CASE Port!IdleWait(l1o)
    <3>1. d' = d
      BY <2>4 DEF Port!IdleWait
    <3>2. Port!DstTypeOK'
      BY <3>1 DEF TypeOK, Port!DstTypeOK
    <3>3. DstInv'
      BY <3>1 DEF DstInv, RequestInv, WriteInv, ReadInv, SnoopInv, OwnerInv
    <3> QED BY <1>1, <3>1, <3>2, <3>3
  <2>5. Port!Writing(l1o) = (IF w.aw # None THEN {i} ELSE {})
        /\ Port!Reading(l1o) = (IF w.ar # None THEN {i} ELSE {})
    BY <2>1, <2>2, SourceFacts, SMTT(60)
  <2>6. CASE Port!IdleWrite(l1o)
    <3>1. w.aw # None
      BY <2>5, <2>6 DEF Port!IdleWrite
    <3>2. PICK p \in Places : WriteWish(i, w, p)
      BY <2>2, <3>1 DEF Quiet, ReadWish
    <3> QED BY <1>1, <2>1, <2>2, <2>6, <3>2, PortWrite
  <2>7. CASE Port!IdleRead(l1o)
    <3>1. w.ar # None
      BY <2>5, <2>7 DEF Port!IdleRead
    <3>2. PICK p \in Places : ReadWish(i, w, p)
      BY <2>2, <3>1 DEF Quiet, WriteWish
    <3> QED BY <1>1, <2>1, <2>2, <2>7, <3>2, PortRead
  <2> QED BY <2>3, <2>4, <2>6, <2>7
<1>2. CASE d.state # "Idle"
  <2>1. l1o = [j \in Slots |-> IF owner[At(d.addr)] = j
                           THEN [Quiet EXCEPT !.cr_resp = TRUE, !.cd = newest[At(d.addr)]]
                           ELSE Quiet]
    BY <1>2 DEF L1os
  <2>2. Snooped(l1o)
    BY <2>1 DEF Snooped, Quiet
  <2>3. Port!CacheReq(ready) \/ Port!SnoopAc(l1o) \/ Port!SnoopCr(l1o) \/ Port!SnoopCd(l1o)
    BY <1>2 DEF Port!DstClock, Port!IdleWrite, Port!IdleRead, Port!IdleWait, Port!Mem
  <2>4. CASE Port!CacheReq(ready)
    BY <2>4, PortOffers, SMTT(30)
  <2>5. CASE Port!SnoopAc(l1o)
    BY <2>2, <2>5, PortSnoopAc, ZenonT(60) DEF Port!SnoopAc
  <2>6. CASE Port!SnoopCr(l1o)
    BY <2>2, <2>6, PortSnoopCr, ZenonT(60) DEF Port!SnoopCr
  <2>7. CASE Port!SnoopCd(l1o)
    BY <2>2, <2>7, PortSnoopCd DEF Port!SnoopCd
  <2> QED BY <2>3, <2>4, <2>5, <2>6, <2>7
<1> QED BY <1>1, <1>2

----------------------------------------------------------------------------
\* The parts of a clock

\* the inputs of a clock
Inputs(in) ==
    /\ in.flush \in BOOLEAN /\ in.mem_ready \in BOOLEAN /\ (in.mem_ready => r.mem_valid)
    /\ in.mem # None => bus # None /\ in.mem = Answer
    /\ in.addr = IF d.addr # None THEN d.addr ELSE adr
    /\ in.req = IF d.state \notin {"CacheReadReq", "CacheWriteReq"} THEN None
                ELSE [type |-> d.type, wdata |-> IF d.wdata = None THEN ZeroLine ELSE d.wdata,
                      strb |-> Words]

\* Every step of the specification is a clock with such inputs.
LEMMA StepInputs ==
    ASSUME TypeOK, load \in Workloads, Next, DstInv
    PROVE  \E in : \E l1o \in L1os, x \in Line : Inputs(in) /\ Step(l1o, in, x)
<1>1. PICK l1o \in L1os,
           flush \in (IF load.flushes /\ spared THEN BOOLEAN ELSE {FALSE}),
           ready \in (IF r.mem_valid THEN BOOLEAN ELSE {FALSE}),
           answer \in (IF bus = None THEN {FALSE} ELSE BOOLEAN),
           x \in (IF d.state = "ReadMem" /\ "UNIQUE" \in d.type
                  THEN Contents(At(d.addr)) ELSE {ZeroLine}) :
              Step(l1o, Input(l1o, flush, ready, answer), x)
  BY DEF Next
<1> DEFINE in == Input(l1o, flush, ready, answer)
<1>2. x \in Line
  BY Zeros DEF Contents
<1>3. flush \in BOOLEAN /\ ready \in BOOLEAN /\ (ready => r.mem_valid) /\ (answer => bus # None)
  OBVIOUS
<1>4. Port!L2Req = None <=> d.state \notin {"CacheReadReq", "CacheWriteReq"}
  <2>1. CASE d.state \in {"CacheReadReq", "CacheWriteReq"}
    <3>1. d.type \in ReqTypes /\ d.addr \in Addr /\ d.wdata \in Line \cup {None}
      BY <2>1 DEF TypeOK, Port!DstTypeOK, Port!ReqTypes, ReqTypes, DstInv, RequestInv
    <3>2. [type |-> d.type, addr |-> d.addr, wdata |-> d.wdata]
             \in [type : ReqTypes, addr : Addr, wdata : Line \cup {None}]
      BY <3>1, Zenon
    <3> QED BY <2>1, <3>2, NoneAssumption DEF Port!L2Req
  <2>2. CASE d.state \notin {"CacheReadReq", "CacheWriteReq"}
    BY <2>2 DEF Port!L2Req
  <2> QED BY <2>1, <2>2
<1>5. /\ in.flush = flush /\ in.mem_ready = ready /\ in.mem = (IF answer THEN Answer ELSE None)
      /\ in.addr = (IF d.addr # None THEN d.addr ELSE adr)
      /\ in.req = IF d.state \notin {"CacheReadReq", "CacheWriteReq"} THEN None
                ELSE [type |-> d.type, wdata |-> IF d.wdata = None THEN ZeroLine ELSE d.wdata,
                      strb |-> Words]
  BY <1>4 DEF Input, BusAddr
<1> HIDE DEF in
<1>6. Inputs(in)
  BY <1>3, <1>5 DEF Inputs
<1>7. Step(l1o, in, x)
  BY <1>1 DEF in
<1> QED BY <1>2, <1>6, <1>7

\* groups of registers that a clock leaves alone
ReqKept(v) == /\ v.req_addr = r.req_addr /\ v.req_type = r.req_type
              /\ v.req_wdata = r.req_wdata /\ v.req_strb = r.req_strb
MemKept(v) == /\ v.mem_type = r.mem_type /\ v.mem_addr = r.mem_addr /\ v.mem_strb = r.mem_strb
              /\ v.line_o = r.line_o
WritesKept(v) == v.write_first = r.write_first /\ v.write_flush = r.write_flush
FlushLatched(in, v) == /\ v.req_flush <=> (in.flush \/ r.req_flush)
                       /\ v.req_flush_all <=> (in.flush \/ r.req_flush_all)
LineKept(v) == v.fault = r.fault /\ v.line_i = r.line_i
Latching(in, v) ==
    /\ ReqKept(v) /\ MemKept(v) /\ WritesKept(v) /\ FlushLatched(in, v) /\ LineKept(v)
    /\ v.state = r.state /\ v.mem_valid = r.mem_valid /\ v.flush_cnt = r.flush_cnt

\* i_flush_valid is latched without touching another register.
LEMMA LatchedFacts ==
    ASSUME r \in Registers, NEW in, in.flush \in BOOLEAN
    PROVE  Latched(in) \in Registers /\ Latching(in, Latched(in))
<1> USE DEF Latching, ReqKept, MemKept, WritesKept, FlushLatched, LineKept
<1>1. CASE in.flush
  <2>1. Latched(in) = [r EXCEPT !.req_flush = TRUE, !.req_flush_all = TRUE]
    BY <1>1 DEF Latched
  <2> QED BY <1>1, <2>1, ZenonT(60) DEF Registers
<1>2. CASE ~in.flush
  <2>1. Latched(in) = r
    BY <1>2 DEF Latched
  <2> QED BY <1>2, <2>1
<1> QED BY <1>1, <1>2

\* The memory waits,
BusWaits == bus' = bus /\ mem' = mem
\* or it answers the request in the registers (and has taken a line that was written)
BusAnswers(in) ==
    /\ bus' = None
    /\ in.mem.fault <=> r.mem_addr.tag \in Faulty
    /\ r.state = "WaitResp" => in.mem.data = mem[At(r.mem_addr)] /\ mem' = mem
    /\ r.state = "WriteBus" =>
          mem' = IF r.mem_addr.tag \in Faulty THEN mem ELSE [mem EXCEPT ![At(r.mem_addr)] = r.line_o]

\* the port waits for the L2 cache,
PortWaits == d' = d /\ owner' = owner /\ newest' = newest /\ told' = None
\* goes on by itself,
PortMoves(in) ==
    /\ Port!DstTypeOK' /\ DstInv' /\ owner' = owner /\ newest' = newest /\ told' = None
    /\ d'.state \in {"ReadMem", "WriteMem"} <=> L2ReqReady(in) /\ in.req # None
    /\ in.req # None =>
          /\ d'.addr = d.addr /\ d'.type = d.type /\ d'.wdata = d.wdata
          /\ in.addr = d.addr /\ in.req.type = d.type /\ in.req.strb = Words
          /\ in.req.wdata = IF d.wdata = None THEN ZeroLine ELSE d.wdata
          /\ d.state # "Idle"
\* or gets an answer, as judged by told
PortAnswered(resp, x) ==
    /\ d' = Port!DstReset /\ told' = Judge(resp)
    /\ owner' = IF resp.fault THEN owner
                ELSE [owner EXCEPT ![At(r.req_addr)] = IF IsUnique THEN d.srcid ELSE None]
    /\ newest' = IF resp.fault \/ (d.state = "ReadMem" /\ ~IsUnique) THEN newest
                 ELSE [newest EXCEPT ![At(r.req_addr)] = IF d.state = "ReadMem" THEN x ELSE d.wdata]

\* What the memory does in a clock.
LEMMA BusFacts ==
    ASSUME ControlInv, NEW in, Inputs(in), Memory(in)
    PROVE  /\ r.state \notin {"WaitResp", "WriteBus"} => in.mem = None
           /\ r.state # "WaitGrant" /\ in.mem = None => BusWaits
           /\ in.mem # None => BusAnswers(in)
<1>1. BusInv /\ FlagsInv /\ MemInv /\ r \in Registers /\ mem \in [Places -> Line]
  BY DEF ControlInv, TypeOK, L2TypeOK
<1>2. r.state \notin {"WaitResp", "WriteBus"} => in.mem = None
  BY <1>1 DEF BusInv, Inputs
<1>3. r.state # "WaitGrant" /\ in.mem = None => BusWaits
  BY <1>1 DEF FlagsInv, Memory, BusWaits, Inputs
<1>4. ASSUME in.mem # None PROVE BusAnswers(in)
  <2>1. /\ r.state \in {"WaitResp", "WriteBus"} /\ ~r.mem_valid /\ in.mem = Answer
        /\ bus = [type |-> r.mem_type, addr |-> r.mem_addr, data |-> r.line_o, strb |-> r.mem_strb]
    BY <1>1, <1>4 DEF BusInv, FlagsInv, Inputs
  <2>2. bus.type = r.mem_type /\ bus.addr = r.mem_addr /\ bus.data = r.line_o /\ bus.strb = r.mem_strb
    BY <2>1
  <2>3. bus' = None
    BY <1>4, <2>1 DEF Memory
  <2>4. /\ in.mem.data = IF r.mem_type \in {"ReadShared", "ReadMakeUnique", "ReadNoSnoop"}
                         THEN mem[At(r.mem_addr)] ELSE ZeroLine
        /\ in.mem.fault <=> r.mem_addr.tag \in Faulty
    <3>1. Answer.data = IF bus.type \in {"ReadShared", "ReadMakeUnique", "ReadNoSnoop"}
                        THEN mem[At(bus.addr)] ELSE ZeroLine
      BY DEF Answer
    <3>2. Answer.fault <=> bus.addr.tag \in Faulty
      BY DEF Answer
    <3> QED BY <2>1, <2>2, <3>1, <3>2
  <2>5. CASE r.state = "WaitResp"
    <3>1. r.mem_type \in {"ReadShared", "ReadMakeUnique", "ReadNoSnoop"}
      BY <1>1, <2>5 DEF MemInv, FlagsInv, Asking, Serving, ReadType
    <3>2. mem' = mem
      BY <2>2, <3>1 DEF Memory
    <3> QED BY <2>3, <2>4, <2>5, <3>1, <3>2 DEF BusAnswers
  <2>6. CASE r.state = "WriteBus"
    <3>1. r.mem_type \in {"WriteBack", "WriteNoSnoop"} /\ r.mem_strb = Words
      BY <1>1, <2>6 DEF MemInv, FlagsInv, Asking, Serving, Writes
    <3> DEFINE new == [w \in Words |-> IF w \in r.mem_strb THEN r.line_o[w] ELSE mem[At(r.mem_addr)][w]]
    <3>2. new = r.line_o
      BY <1>1, <3>1 DEF Registers, Line
    <3>3. At(r.mem_addr) \in Places
      BY <1>1, PlaceOf DEF Registers
    <3>4. mem' = IF r.mem_addr.tag \in Faulty THEN mem ELSE [mem EXCEPT ![At(r.mem_addr)] = new]
      BY <1>1, <1>4, <2>2, <3>1, <3>3 DEF Memory
    <3> HIDE DEF new
    <3> QED BY <2>3, <2>4, <2>6, <3>2, <3>4 DEF BusAnswers
  <2> QED BY <2>1, <2>5, <2>6
<1> QED BY <1>2, <1>3, <1>4

\* What the port does in a clock.
LEMMA PortFacts ==
    ASSUME ControlInv, NEW l1o \in L1os, NEW in, NEW x, Inputs(in), Step(l1o, in, x)
    PROVE  /\ adr' = in.addr /\ in.addr \in Addr /\ load' = load
           /\ Serving => in.addr = r.req_addr /\ in.req = None
           /\ ~Serving => L2Resp(in) = None /\ PortMoves(in)
           /\ Serving /\ L2Resp(in) = None => PortWaits
           /\ L2Resp(in) # None => Serving /\ PortAnswered(L2Resp(in), x)
<1>1. /\ TypeOK /\ DstInv /\ ServeInv /\ FlagsInv /\ load \in Workloads
      /\ r \in Registers /\ Port!DstTypeOK
  BY DEF ControlInv, TypeOK, L2TypeOK
<1>2. adr' = in.addr /\ in.addr \in Addr /\ load' = load
  BY <1>1 DEF Step, Inputs, BusAddr, TypeOK, Port!DstTypeOK
<1>3. Serving => in.addr = r.req_addr /\ in.req = None
  <2>1. Serving => d.addr = r.req_addr /\ d.state \in {"ReadMem", "WriteMem"} /\ d.addr # None
    BY <1>1, NoneAssumption DEF ServeInv, Registers
  <2> QED BY <2>1 DEF Inputs
<1>4. ~Serving => L2Resp(in) = None
  BY <1>1 DEF Serving, L2Resp, FlagsInv
<1>5. Port!DstClock(l1o, L2ReqReady(in), L2Resp(in)) /\ Served(L2Resp(in), x)
  BY DEF Step
<1>6. ASSUME ~Serving PROVE PortMoves(in)
  <2>1. d.state \notin {"ReadMem", "WriteMem"}
    BY <1>1, <1>6 DEF ServeInv
  <2>2. owner' = owner /\ newest' = newest /\ told' = None
    BY <1>4, <1>5, <1>6 DEF Served
  <2>3. /\ Port!DstTypeOK' /\ DstInv'
        /\ d'.state \in {"ReadMem", "WriteMem"}
              <=> L2ReqReady(in) /\ d.state \in {"CacheReadReq", "CacheWriteReq"}
        /\ d.state \in {"CacheReadReq", "CacheWriteReq"} =>
              d'.addr = d.addr /\ d'.type = d.type /\ d'.wdata = d.wdata
    BY <1>1, <1>5, <2>1, <2>2, PortFree
  <2>4. in.req # None <=> d.state \in {"CacheReadReq", "CacheWriteReq"}
    <3>1. CASE d.state \in {"CacheReadReq", "CacheWriteReq"}
      <4> DEFINE wd == IF d.wdata = None THEN ZeroLine ELSE d.wdata
      <4>1. d.type \in ReqTypes /\ wd \in Line
        BY <1>1, Zeros DEF Port!DstTypeOK, Port!ReqTypes, ReqTypes
      <4>2. in.req = [type |-> d.type, wdata |-> wd, strb |-> Words]
        BY <3>1 DEF Inputs
      <4> HIDE DEF wd
      <4>3. [type |-> d.type, wdata |-> wd, strb |-> Words]
               \in [type : ReqTypes, wdata : Line, strb : {Words}]
        BY <4>1, Zenon
      <4> QED BY <3>1, <4>2, <4>3, NoneAssumption
    <3>2. CASE d.state \notin {"CacheReadReq", "CacheWriteReq"}
      BY <3>2 DEF Inputs
    <3> QED BY <3>1, <3>2
  <2>5. in.req # None =>
          /\ in.addr = d.addr /\ in.req.type = d.type /\ in.req.strb = Words
          /\ in.req.wdata = IF d.wdata = None THEN ZeroLine ELSE d.wdata
          /\ d.state # "Idle"
    <3>1. in.req # None => d.addr # None
      BY <1>1, <2>4, NoneAssumption DEF DstInv, RequestInv
    <3> QED BY <2>4, <3>1 DEF Inputs
  <2> QED BY <2>2, <2>3, <2>4, <2>5 DEF PortMoves
<1>7. ASSUME Serving, L2Resp(in) = None PROVE PortWaits
  <2>1. d.state \in {"ReadMem", "WriteMem"}
    BY <1>1, <1>7 DEF ServeInv
  <2> QED BY <1>5, <1>7, <2>1 DEF Served, PortWaits, Port!DstClock, Port!IdleWrite, Port!IdleRead,
             Port!IdleWait, Port!CacheReq, Port!Mem, Port!SnoopAc, Port!SnoopCr, Port!SnoopCd
<1>8. ASSUME L2Resp(in) # None PROVE Serving /\ PortAnswered(L2Resp(in), x)
  <2>1. Serving /\ d.state \in {"ReadMem", "WriteMem"} /\ d.addr = r.req_addr /\ d.type = r.req_type
    BY <1>1, <1>4, <1>8 DEF ServeInv
  <2>2. d' = Port!DstReset
    BY <1>5, <1>8, <2>1 DEF Port!DstClock, Port!IdleWrite, Port!IdleRead,
             Port!IdleWait, Port!CacheReq, Port!Mem, Port!SnoopAc, Port!SnoopCr, Port!SnoopCd
  <2> QED BY <1>5, <1>8, <2>1, <2>2 DEF Served, PortAnswered, IsUnique
<1> QED BY <1>2, <1>3, <1>4, <1>6, <1>7, <1>8

----------------------------------------------------------------------------
\* The registers v computed by the machine are the next ones; those that are
\* not read in State_Idle are left open there
Taken(v) ==
    /\ r' \in Registers
    /\ r'.state = v.state /\ r'.req_addr = v.req_addr /\ r'.mem_valid = v.mem_valid
    /\ r'.write_first = v.write_first /\ r'.write_flush = v.write_flush
    /\ r'.req_flush = v.req_flush /\ r'.req_flush_all = v.req_flush_all
    /\ r'.flush_cnt = v.flush_cnt
    /\ v.state = "Idle" => ~r'.fault
    /\ v.state # "Idle" =>
          /\ r'.req_type = v.req_type /\ r'.req_wdata = v.req_wdata /\ r'.req_strb = v.req_strb
          /\ r'.mem_type = v.mem_type /\ r'.mem_addr = v.mem_addr /\ r'.mem_strb = v.mem_strb
          /\ r'.fault = v.fault /\ r'.line_i = v.line_i /\ r'.line_o = v.line_o

\* the lookup of the address of the request, with the tag memory left alone
PortRests == /\ ~rd'.direct /\ ~rd'.invalidate /\ ~rd'.re /\ rd'.addr = r.req_addr
             /\ TagTypeOK'
RamKept ==
    /\ ram' = ram
    /\ ~rd.direct /\ ~(Hit /\ rd.re) => lru' = lru

\* Registers with the values of the reset in those of a request are registers.
LEMMA RestTypes ==
    ASSUME NEW v \in Registers
    PROVE  [v EXCEPT !.req_type = {}, !.req_wdata = ZeroLine, !.req_strb = {},
                     !.mem_type = "ReadNoSnoop", !.mem_addr = ZeroAddr, !.mem_strb = {},
                     !.fault = FALSE, !.line_i = ZeroLine, !.line_o = ZeroLine] \in Registers
<1>1. {} \in ReqTypes /\ "ReadNoSnoop" \in MemTypes /\ {} \in SUBSET Words
  BY DEF ReqTypes, MemTypes
<1> HIDE DEF MemTypes, ReqTypes, ZeroAddr, ZeroLine, Line, Addr, States
<1> QED BY <1>1, Zeros DEF Registers

\* One clock with line controls c: the registers and the tag memory.
LEMMA LineClock ==
    ASSUME ControlInv, NEW v \in Registers, NEW c \in LineControls, Clocked(v, c)
    PROVE  Taken(v) /\ TagEffect(c)
<1>1. TagTypeOK /\ NoAlias
  BY DEF ControlInv, TypeOK, L2TypeOK
<1>2. TagEffect(c)
  BY <1>1, TagFacts DEF Clocked
<1>3. r' = Rested(v)
  BY DEF Clocked
<1>4. ASSUME v.state # "Idle" PROVE Taken(v)
  BY <1>3, <1>4 DEF Rested, Taken
<1>5. ASSUME v.state = "Idle" PROVE Taken(v)
  <2>1. Rested(v) = [v EXCEPT !.req_type = {}, !.req_wdata = ZeroLine, !.req_strb = {},
                   !.mem_type = "ReadNoSnoop", !.mem_addr = ZeroAddr,
                   !.mem_strb = {}, !.fault = FALSE, !.line_i = ZeroLine,
                   !.line_o = ZeroLine]
    BY <1>5 DEF Rested
  <2>2. Rested(v) \in Registers
    BY <1>5, RestTypes DEF Rested
  <2>3. /\ Rested(v).state = v.state /\ Rested(v).req_addr = v.req_addr
        /\ Rested(v).mem_valid = v.mem_valid
        /\ Rested(v).write_first = v.write_first /\ Rested(v).write_flush = v.write_flush
        /\ Rested(v).req_flush = v.req_flush /\ Rested(v).req_flush_all = v.req_flush_all
        /\ Rested(v).flush_cnt = v.flush_cnt /\ Rested(v).fault = FALSE
    BY <2>1 DEF Registers
  <2> QED BY <1>3, <1>5, <2>2, <2>3 DEF Taken
<1> QED BY <1>2, <1>4, <1>5

\* Line controls at rest are typed.
LEMMA ControlTypes ==
    ASSUME r \in Registers
    PROVE  /\ NoLineAccess \in LineControls
           /\ NoLineAccess.direct = FALSE /\ NoLineAccess.invalidate = FALSE /\ NoLineAccess.re = FALSE
           /\ NoLineAccess.we = FALSE /\ NoLineAccess.addr = r.req_addr
  BY Zeros DEF NoLineAccess, LineControls, Registers

\* a clock in which the machine leaves the tag memory alone
LEMMA PlainClock ==
    ASSUME ControlInv, NEW v \in Registers, Clocked(v, NoLineAccess), ~rd.invalidate
    PROVE  Taken(v) /\ PortRests /\ RamKept
<1>1. /\ NoLineAccess \in LineControls
      /\ NoLineAccess.direct = FALSE /\ NoLineAccess.invalidate = FALSE /\ NoLineAccess.re = FALSE
      /\ NoLineAccess.we = FALSE /\ NoLineAccess.addr = r.req_addr
  BY ControlTypes DEF ControlInv, TypeOK, L2TypeOK
<1> HIDE DEF NoLineAccess
<1> QED BY <1>1, LineClock DEF PortRests, RamKept, TagEffect

\* what a step knows, whatever the state of the machine
Clock(in) ==
    /\ Inputs(in) /\ L2Clock(in)
    /\ Latched(in) \in Registers /\ Latching(in, Latched(in))
    /\ adr' = in.addr /\ in.addr \in Addr /\ load' = load
    /\ r.state \notin {"WaitResp", "WriteBus"} => in.mem = None
    /\ r.state # "WaitGrant" /\ in.mem = None => BusWaits
    /\ in.mem = None => mem' = mem
    /\ in.mem # None => BusAnswers(in)
    /\ bus' = IF r.mem_valid /\ in.mem_ready
              THEN [type |-> r.mem_type, addr |-> r.mem_addr, data |-> r.line_o, strb |-> r.mem_strb]
              ELSE IF in.mem # None THEN None ELSE bus
    /\ Serving => in.addr = r.req_addr /\ in.req = None
    /\ ~Serving => L2Resp(in) = None /\ PortMoves(in)
    /\ Serving /\ L2Resp(in) = None => PortWaits
    /\ L2Resp(in) # None => Serving /\ \E x \in Line : PortAnswered(L2Resp(in), x)

\* every step is such a clock
LEMMA StepClock ==
    ASSUME ControlInv, Next
    PROVE  \E in : Clock(in)
<1>1. TypeOK /\ load \in Workloads /\ DstInv /\ r \in Registers
  BY DEF ControlInv, TypeOK, L2TypeOK
<1>2. PICK in : \E l1o \in L1os, x \in Line : Inputs(in) /\ Step(l1o, in, x)
  BY <1>1, StepInputs
<1>3. PICK l1o \in L1os : \E x \in Line : Inputs(in) /\ Step(l1o, in, x)
  BY <1>2
<1>4. PICK x \in Line : Inputs(in) /\ Step(l1o, in, x)
  BY <1>3
<1>5. L2Clock(in) /\ Memory(in)
  BY <1>4 DEF Step
<1>6. Latched(in) \in Registers /\ Latching(in, Latched(in))
  BY <1>1, <1>4, LatchedFacts DEF Inputs
<1>7. /\ r.state \notin {"WaitResp", "WriteBus"} => in.mem = None
      /\ r.state # "WaitGrant" /\ in.mem = None => BusWaits
      /\ in.mem # None => BusAnswers(in)
  BY <1>4, <1>5, BusFacts
<1>8. /\ adr' = in.addr /\ in.addr \in Addr /\ load' = load
      /\ Serving => in.addr = r.req_addr /\ in.req = None
      /\ ~Serving => L2Resp(in) = None /\ PortMoves(in)
      /\ Serving /\ L2Resp(in) = None => PortWaits
      /\ L2Resp(in) # None => Serving /\ PortAnswered(L2Resp(in), x)
  BY <1>4, PortFacts
<1> QED BY <1>4, <1>5, <1>6, <1>7, <1>8 DEF Clock, Memory

----------------------------------------------------------------------------
\* One lemma per state of the machine: what its clock does

\* States and conditions under which o_resp_valid is low.
LEMMA QuietResp ==
    ASSUME NEW in,
           \/ r.state \notin {"CheckHit", "CheckResp", "WriteBus"}
           \/ r.state = "CheckHit" /\ ~Hit /\ ~MissIsDone /\ ~MissIsSnooped
           \/ r.state = "CheckResp" /\ ~Direct /\ ~IsWrite
           \/ r.state = "WriteBus" /\ (in.mem = None \/ Writes)
    PROVE  L2Resp(in) = None
  BY DEF L2Resp, Writes

\* CheckHit without hit: on to the memory
MissGoDone(in) ==
    /\ r' \in Registers /\ PortRests /\ RamKept /\ PortWaits /\ BusWaits
    /\ ReqKept(r') /\ MemKept(r') /\ WritesKept(r') /\ FlushLatched(in, r') /\ LineKept(r')
    /\ r'.mem_valid = r.mem_valid /\ r'.state = "TranslateAddress"

\* the action implies it
LEMMA MissGoEffect ==
    ASSUME ControlInv, NEW in, Clock(in), Miss(in), ~MissIsDone, ~MissIsSnooped
    PROVE  MissGoDone(in)
<1> DEFINE y == Latched(in)
           v == [y EXCEPT !.state = "TranslateAddress"]
<1>1. /\ y \in Registers /\ Latching(in, y) /\ ~rd.invalidate /\ BusWaits /\ r.state = "CheckHit"
      /\ PortWaits
  BY QuietResp DEF Clock, Miss, ControlInv, PortInv, FlagsInv, Serving
<1>2. Clocked(v, NoLineAccess) /\ "TranslateAddress" \in States
  BY DEF Miss, States
<1> HIDE DEF y
<1>3. /\ v \in Registers /\ ReqKept(v) /\ MemKept(v) /\ WritesKept(v) /\ FlushLatched(in, v) /\ LineKept(v)
      /\ v.mem_valid = r.mem_valid /\ v.state = "TranslateAddress"
  BY <1>1, <1>2 DEF Registers, Latching, ReqKept, MemKept, WritesKept, FlushLatched, LineKept
<1> HIDE DEF v
<1>4. Taken(v) /\ PortRests /\ RamKept
  BY <1>1, <1>2, <1>3, PlainClock
<1> QED BY <1>1, <1>3, <1>4 DEF MissGoDone, Taken, ReqKept, MemKept, WritesKept, FlushLatched, LineKept

\* the machine goes back to State_Idle
Rests(in) ==
    /\ r' \in Registers /\ r'.state = "Idle" /\ ~r'.fault /\ r'.req_addr = r.req_addr
    /\ r'.mem_valid = r.mem_valid /\ WritesKept(r') /\ FlushLatched(in, r')

\* CheckHit without hit: nothing is needed from the memory
LEMMA MissDoneEffect ==
    ASSUME ControlInv, NEW in, Clock(in), Miss(in), MissIsDone
    PROVE  /\ Rests(in) /\ PortRests /\ RamKept /\ BusWaits
           /\ L2Resp(in) = [data |-> ZeroLine, fault |-> FALSE]
<1> DEFINE y == Latched(in)
           v == [y EXCEPT !.state = "Idle"]
<1>1. y \in Registers /\ Latching(in, y) /\ ~rd.invalidate /\ BusWaits /\ r.state = "CheckHit" /\ ~Hit
  BY DEF Clock, Miss, ControlInv, PortInv
<1>2. Clocked(v, NoLineAccess) /\ "Idle" \in States
  BY DEF Miss, States
<1> HIDE DEF y
<1>3. /\ v \in Registers /\ WritesKept(v) /\ FlushLatched(in, v) /\ v.req_addr = r.req_addr
      /\ v.mem_valid = r.mem_valid /\ v.state = "Idle"
  BY <1>1, <1>2 DEF Registers, Latching, ReqKept, WritesKept, FlushLatched
<1> HIDE DEF v
<1>4. Taken(v) /\ PortRests /\ RamKept
  BY <1>1, <1>2, <1>3, PlainClock
<1>5. L2Resp(in) = [data |-> ZeroLine, fault |-> FALSE]
  BY <1>1 DEF L2Resp
<1> QED BY <1>1, <1>3, <1>4, <1>5 DEF Rests, Taken, WritesKept, FlushLatched

\* the line looked up is a line, and so is the one a write makes of it
LEMMA OutFacts ==
    ASSUME ControlInv
    PROVE  /\ HitIdx \in Way /\ rd.addr.set \in Sets
           /\ Out = ram[rd.addr.set][HitIdx] /\ Out \in Entry /\ RAddr \in Addr
           /\ At(RAddr) = Place(rd.addr.set, HitIdx)
<1>1. HitIdx \in Way /\ rd.addr.set \in Sets /\ ram \in [Sets -> [Way -> Entry]]
  BY HitState DEF ControlInv, TypeOK, L2TypeOK, TagTypeOK
<1>2. Out = ram[rd.addr.set][HitIdx] /\ Out \in Entry
  BY <1>1 DEF Out
<1>3. RAddr \in Addr /\ At(RAddr) = Place(rd.addr.set, HitIdx)
  BY <1>1, <1>2, Bounds, DataAssumption DEF RAddr, Addr, Entry, At, Place, Out
<1> QED BY <1>1, <1>2, <1>3

\* TranslateAddress: the memory is asked for the line, or first given the displaced one
TranslateDone(in) ==
    /\ r' \in Registers /\ PortRests /\ RamKept /\ PortWaits /\ BusWaits
    /\ ReqKept(r') /\ FlushLatched(in, r')
    /\ r'.mem_valid /\ ~r'.fault /\ r'.state = "WaitGrant" /\ r'.write_flush = r.write_flush
    /\ IF ~IsCached
       THEN /\ r'.write_first = r.write_first /\ r'.mem_addr = r.req_addr /\ r'.mem_strb = r.req_strb
            /\ r'.mem_type = IF IsWrite THEN "WriteNoSnoop" ELSE "ReadNoSnoop"
            /\ r'.line_o = [w \in Words |-> IF w = 0 THEN r.req_wdata[0] ELSE 0]
       ELSE /\ r'.write_first <=> r.write_first \/ Offload
            /\ r'.mem_addr = IF Offload THEN RAddr ELSE LineAddr(r.req_addr)
            /\ r'.mem_type = IF Offload THEN "WriteBack" ELSE ReadType
            /\ r'.mem_strb = Words /\ r'.line_o = Out.data

\* the action implies it
LEMMA TranslateEffect ==
    ASSUME ControlInv, NEW in, Clock(in), TranslateAddress(in)
    PROVE  TranslateDone(in)
<1> DEFINE y == Latched(in)
           word == [w \in Words |-> IF w = 0 THEN r.req_wdata[0] ELSE 0]
           a == IF ~IsCached THEN r.req_addr ELSE IF Offload THEN RAddr ELSE LineAddr(r.req_addr)
           t == IF ~IsCached THEN IF IsWrite THEN "WriteNoSnoop" ELSE "ReadNoSnoop"
                ELSE IF Offload THEN "WriteBack" ELSE ReadType
           b == IF ~IsCached THEN r.req_strb ELSE Words
           l == IF ~IsCached THEN word ELSE Out.data
           f == IF ~IsCached THEN r.write_first ELSE r.write_first \/ Offload
           v == [y EXCEPT !.mem_valid = TRUE, !.line_i = ZeroLine, !.fault = FALSE,
                          !.state = "WaitGrant", !.mem_addr = a, !.mem_strb = b,
                          !.mem_type = t, !.write_first = f, !.line_o = l]
<1>1. /\ y \in Registers /\ Latching(in, y) /\ ~rd.invalidate /\ BusWaits /\ r.state = "TranslateAddress"
      /\ PortWaits /\ r \in Registers
  BY QuietResp DEF Clock, TranslateAddress, ControlInv, PortInv, FlagsInv, Serving, TypeOK, L2TypeOK
<1>2. y.write_first = r.write_first /\ y.write_flush = r.write_flush
  BY <1>1 DEF Latching, WritesKept
<1>3. Clocked(v, NoLineAccess)
  <2> DEFINE z == [y EXCEPT !.mem_valid = TRUE, !.line_i = ZeroLine, !.fault = FALSE, !.state = "WaitGrant"]
  <2>1. Clocked(IF ~IsCached
                   THEN [z EXCEPT !.mem_addr = r.req_addr, !.mem_strb = r.req_strb,
                            !.mem_type = IF IsWrite THEN "WriteNoSnoop" ELSE "ReadNoSnoop",
                            !.line_o = word]
                   ELSE [z EXCEPT !.mem_addr = IF Offload THEN RAddr ELSE LineAddr(r.req_addr),
                            !.mem_type = IF Offload THEN "WriteBack" ELSE ReadType,
                            !.write_first = @ \/ Offload,
                            !.mem_strb = Words, !.line_o = Out.data],
                   NoLineAccess)
    BY DEF TranslateAddress
  <2>2. y.write_first \in BOOLEAN
    BY <1>1 DEF Registers
  <2> HIDE DEF y, word
  <2>3. CASE ~IsCached
    <3>1. v = [z EXCEPT !.mem_addr = r.req_addr, !.mem_strb = r.req_strb,
                            !.mem_type = IF IsWrite THEN "WriteNoSnoop" ELSE "ReadNoSnoop",
                            !.line_o = word]
      BY <1>1, <1>2, <2>3, ZenonT(60) DEF Registers
    <3> QED BY <2>1, <2>3, <3>1
  <2>4. CASE IsCached
    <3>1. v = [z EXCEPT !.mem_addr = IF Offload THEN RAddr ELSE LineAddr(r.req_addr),
                            !.mem_type = IF Offload THEN "WriteBack" ELSE ReadType,
                            !.write_first = @ \/ Offload,
                            !.mem_strb = Words, !.line_o = Out.data]
      BY <1>1, <1>2, <2>2, <2>4, ZenonT(60) DEF Registers
    <3> QED BY <2>1, <2>4, <3>1
  <2> QED BY <2>3, <2>4
<1>4. "WaitGrant" \in States /\ ZeroLine \in Line /\ word \in Line /\ a \in Addr /\ t \in MemTypes
      /\ b \in SUBSET Words /\ l \in Line /\ f \in BOOLEAN
  <2>1. word \in Line
    BY <1>1, DataAssumption DEF Registers, Line
  <2>2. r.req_addr \in Addr /\ LineAddr(r.req_addr) \in Addr /\ RAddr \in Addr
    BY <1>1, Bounds, DataAssumption, OutFacts DEF Registers, LineAddr, Addr
  <2>3. Out.data \in Line
    BY OutFacts DEF Entry
  <2>4. r.req_strb \in SUBSET Words /\ r.write_first \in BOOLEAN
    BY <1>1 DEF Registers
  <2> HIDE DEF word, Line, Addr
  <2> QED BY <2>1, <2>2, <2>3, <2>4, Zeros DEF States, MemTypes, ReadType
<1> HIDE DEF y, a, t, b, l, f
<1>5. v \in Registers
  <2> HIDE DEF Line, Addr, States, MemTypes, ReqTypes
  <2> QED BY <1>1, <1>4 DEF Registers
<1>6. /\ ReqKept(v) /\ FlushLatched(in, v) /\ v.write_flush = r.write_flush
      /\ v.mem_valid /\ ~v.fault /\ v.state = "WaitGrant" /\ v.mem_addr = a /\ v.mem_strb = b
      /\ v.mem_type = t /\ v.write_first = f /\ v.line_o = l
  BY <1>1, <1>2 DEF Registers, Latching, ReqKept, FlushLatched
<1> HIDE DEF v
<1>7. Taken(v) /\ PortRests /\ RamKept
  BY <1>1, <1>3, <1>5, PlainClock
<1>8. /\ r' \in Registers /\ ReqKept(r') /\ FlushLatched(in, r') /\ r'.write_flush = r.write_flush
      /\ r'.mem_valid /\ ~r'.fault /\ r'.state = "WaitGrant" /\ r'.mem_addr = a /\ r'.mem_strb = b
      /\ r'.mem_type = t /\ r'.write_first = f /\ r'.line_o = l
  BY <1>6, <1>7 DEF Taken, ReqKept, FlushLatched
<1> QED BY <1>1, <1>7, <1>8 DEF TranslateDone, a, t, b, l, f

\* what is on its way to or from the memory goes on
OnTheWay(in) ==
    /\ r' \in Registers /\ PortRests /\ RamKept
    /\ ReqKept(r') /\ MemKept(r') /\ WritesKept(r') /\ FlushLatched(in, r')
    /\ r'.flush_cnt = r.flush_cnt

\* WaitGrant: the memory takes the request, or not yet
WaitGrantDone(in) ==
    /\ OnTheWay(in) /\ LineKept(r') /\ mem' = mem
    /\ IF in.mem_ready
       THEN /\ ~r'.mem_valid
            /\ r'.state = IF r.write_flush \/ r.write_first \/ (IsWrite /\ ~IsCached)
                          THEN "WriteBus" ELSE "WaitResp"
            /\ bus' = [type |-> r.mem_type, addr |-> r.mem_addr, data |-> r.line_o, strb |-> r.mem_strb]
       ELSE r'.mem_valid /\ r'.state = "WaitGrant" /\ bus' = bus

\* the action implies it
LEMMA WaitGrantEffect ==
    ASSUME ControlInv, NEW in, Clock(in), WaitGrant(in)
    PROVE  WaitGrantDone(in)
<1> DEFINE y == Latched(in)
           s == IF r.write_flush \/ r.write_first \/ (IsWrite /\ ~IsCached) THEN "WriteBus" ELSE "WaitResp"
           v == IF ~in.mem_ready THEN y ELSE [y EXCEPT !.mem_valid = FALSE, !.state = s]
<1>1. /\ y \in Registers /\ Latching(in, y) /\ ~rd.invalidate /\ r.state = "WaitGrant"
      /\ mem' = mem /\ r.mem_valid /\ in.mem = None
  BY DEF Clock, WaitGrant, ControlInv, PortInv, FlagsInv
<1>2. Clocked(v, NoLineAccess) /\ s \in States
  BY DEF WaitGrant, States
<1>b. bus' = IF in.mem_ready
             THEN [type |-> r.mem_type, addr |-> r.mem_addr, data |-> r.line_o, strb |-> r.mem_strb]
             ELSE bus
  BY <1>1 DEF Clock
<1> HIDE DEF y, s
<1>3. /\ v \in Registers /\ ReqKept(v) /\ MemKept(v) /\ WritesKept(v) /\ FlushLatched(in, v) /\ LineKept(v)
      /\ v.flush_cnt = r.flush_cnt
  BY <1>1, <1>2 DEF Registers, Latching, ReqKept, MemKept, WritesKept, FlushLatched, LineKept
<1>4. /\ in.mem_ready => v.state = s /\ ~v.mem_valid
      /\ ~in.mem_ready => v.state = "WaitGrant" /\ v.mem_valid
  BY <1>1 DEF Registers, Latching
<1>5. s # "Idle"
  BY DEF s
<1> HIDE DEF v
<1>6. Taken(v) /\ PortRests /\ RamKept
  BY <1>1, <1>2, <1>3, PlainClock
<1>7. OnTheWay(in) /\ LineKept(r')
  BY <1>3, <1>4, <1>5, <1>6 DEF OnTheWay, Taken, ReqKept, MemKept, WritesKept, FlushLatched, LineKept
<1> QED BY <1>1, <1>4, <1>6, <1>7, <1>b DEF WaitGrantDone, Taken, s

\* WaitResp: the answer of the memory is kept, or awaited
WaitRespDone(in) ==
    /\ OnTheWay(in) /\ r'.mem_valid = r.mem_valid /\ mem' = mem
    /\ IF in.mem = None
       THEN LineKept(r') /\ r'.state = "WaitResp" /\ bus' = bus
       ELSE /\ r'.line_i = mem[At(r.mem_addr)] /\ r'.state = "CheckResp" /\ bus' = None
            /\ r'.fault <=> r.mem_addr.tag \in Faulty

\* the action implies it
LEMMA WaitRespEffect ==
    ASSUME ControlInv, NEW in, Clock(in), WaitResp(in)
    PROVE  WaitRespDone(in)
<1> DEFINE y == Latched(in)
           l == in.mem.data
           f == y.fault \/ in.mem.fault
           v == IF in.mem = None THEN y ELSE [y EXCEPT !.line_i = l, !.fault = f, !.state = "CheckResp"]
<1>1. /\ y \in Registers /\ Latching(in, y) /\ ~rd.invalidate /\ r.state = "WaitResp"
      /\ ~r.fault /\ r \in Registers /\ mem \in [Places -> Line]
  BY DEF Clock, WaitResp, ControlInv, PortInv, FlagsInv, TypeOK, L2TypeOK
<1>2. Clocked(v, NoLineAccess) /\ "CheckResp" \in States
  BY DEF WaitResp, States
<1>b. /\ in.mem = None => bus' = bus /\ mem' = mem
      /\ in.mem # None => /\ bus' = None /\ l = mem[At(r.mem_addr)] /\ mem' = mem
                          /\ in.mem.fault <=> r.mem_addr.tag \in Faulty
  BY <1>1 DEF Clock, BusWaits, BusAnswers
<1>a. At(r.mem_addr) \in Places
  BY <1>1, PlaceOf DEF Registers
<1>c. in.mem # None => l \in Line
  BY <1>1, <1>a, <1>b
<1>d. f \in BOOLEAN /\ y.fault = FALSE
  BY <1>1, <1>b DEF Latching, LineKept, Registers
<1>f. in.mem # None => (f <=> r.mem_addr.tag \in Faulty)
  BY <1>b, <1>d
<1> HIDE DEF y, l, f
<1>3. /\ v \in Registers /\ ReqKept(v) /\ MemKept(v) /\ WritesKept(v) /\ FlushLatched(in, v)
      /\ v.flush_cnt = r.flush_cnt /\ v.mem_valid = r.mem_valid
  <2> HIDE DEF Line
  <2> QED BY <1>1, <1>2, <1>c, <1>d, ZenonT(60)
    DEF Registers, Latching, ReqKept, MemKept, WritesKept, FlushLatched
<1>4. /\ in.mem = None => LineKept(v) /\ v.state = "WaitResp"
      /\ in.mem # None => v.line_i = l /\ v.fault = f /\ v.state = "CheckResp"
  BY <1>1 DEF Registers, Latching, LineKept
<1> HIDE DEF v
<1>6. Taken(v) /\ PortRests /\ RamKept
  BY <1>1, <1>2, <1>3, PlainClock
<1>7. OnTheWay(in) /\ r'.mem_valid = r.mem_valid
  BY <1>3, <1>4, <1>6 DEF OnTheWay, Taken, ReqKept, MemKept, WritesKept, FlushLatched
<1>8. CASE in.mem = None
  BY <1>4, <1>6, <1>7, <1>8, <1>b DEF WaitRespDone, Taken, LineKept
<1>9. CASE in.mem # None
  BY <1>4, <1>6, <1>7, <1>9, <1>b, <1>f DEF WaitRespDone, Taken
<1> QED BY <1>8, <1>9

\* SetupReadAdr: the lookup is done once more
SetupReadAdrDone(in) ==
    /\ OnTheWay(in) /\ LineKept(r') /\ PortWaits /\ BusWaits
    /\ r'.mem_valid = r.mem_valid /\ r'.state = "CheckHit"

\* the action implies it
LEMMA SetupReadAdrEffect ==
    ASSUME ControlInv, NEW in, Clock(in), SetupReadAdr(in)
    PROVE  SetupReadAdrDone(in)
<1> DEFINE y == Latched(in)
           v == [y EXCEPT !.state = "CheckHit"]
<1>1. /\ y \in Registers /\ Latching(in, y) /\ ~rd.invalidate /\ r.state = "SetupReadAdr"
      /\ BusWaits /\ PortWaits
  BY QuietResp DEF Clock, SetupReadAdr, ControlInv, PortInv, FlagsInv, Serving
<1>2. Clocked(v, NoLineAccess) /\ "CheckHit" \in States
  BY DEF SetupReadAdr, States
<1> HIDE DEF y
<1>3. /\ v \in Registers /\ ReqKept(v) /\ MemKept(v) /\ WritesKept(v) /\ FlushLatched(in, v) /\ LineKept(v)
      /\ v.flush_cnt = r.flush_cnt /\ v.mem_valid = r.mem_valid /\ v.state = "CheckHit"
  BY <1>1, <1>2 DEF Registers, Latching, ReqKept, MemKept, WritesKept, FlushLatched, LineKept
<1> HIDE DEF v
<1>6. Taken(v) /\ PortRests /\ RamKept
  BY <1>1, <1>2, <1>3, PlainClock
<1> QED BY <1>1, <1>3, <1>6 DEF SetupReadAdrDone, OnTheWay, Taken, ReqKept, MemKept, WritesKept,
                                FlushLatched, LineKept

\* WriteBus: a write is awaited, or acknowledged
WriteBusDone(in) ==
    /\ r' \in Registers /\ PortRests /\ RamKept
    /\ r'.req_addr = r.req_addr /\ FlushLatched(in, r') /\ r'.write_flush = r.write_flush
    /\ r'.flush_cnt = r.flush_cnt /\ ~r'.fault
    /\ IF in.mem = None
       THEN OnTheWay(in) /\ ~r'.mem_valid /\ r'.state = "WriteBus" /\ BusWaits
       ELSE /\ bus' = None
            /\ mem' = IF r.mem_addr.tag \in Faulty THEN mem ELSE [mem EXCEPT ![At(r.mem_addr)] = r.line_o]
            /\ ~r'.write_first
            /\ IF r.write_flush THEN r'.state = "FlushAddr" /\ ~r'.mem_valid
               ELSE IF r.write_first
               THEN /\ r'.state = "WaitGrant" /\ r'.mem_valid /\ ReqKept(r')
                    /\ r'.mem_addr = LineAddr(r.req_addr) /\ r'.mem_type = ReadType
                    /\ r'.mem_strb = r.mem_strb /\ r'.line_o = r.line_o
               ELSE r'.state = "Idle" /\ ~r'.mem_valid

\* the action implies it
LEMMA WriteBusEffect ==
    ASSUME ControlInv, NEW in, Clock(in), WriteBus(in)
    PROVE  WriteBusDone(in)
<1> DEFINE y == Latched(in)
           m == WriteDone = "WaitGrant"
           a == LineAddr(r.req_addr)
           s == WriteDone
           t == ReadType
           v == IF in.mem = None THEN y
                ELSE IF r.write_first /\ ~r.write_flush
                THEN [y EXCEPT !.mem_addr = a, !.mem_valid = m, !.write_first = FALSE,
                               !.mem_type = t, !.state = s]
                ELSE [y EXCEPT !.state = s]
<1>1. /\ y \in Registers /\ Latching(in, y) /\ ~rd.invalidate /\ r.state = "WriteBus"
      /\ ~r.fault /\ ~r.mem_valid /\ r \in Registers /\ (r.write_first => ~r.write_flush)
  BY DEF Clock, WriteBus, ControlInv, PortInv, FlagsInv, TypeOK, L2TypeOK
<1>2. /\ Clocked(v, NoLineAccess) /\ s \in States /\ t \in MemTypes /\ a \in Addr /\ m \in BOOLEAN
      /\ s = (IF r.write_flush THEN "FlushAddr" ELSE IF r.write_first THEN "WaitGrant" ELSE "Idle")
      /\ (m <=> s = "WaitGrant")
  <2>1. Clocked(v, NoLineAccess)
    BY DEF WriteBus
  <2>2. a \in Addr
    BY <1>1, Bounds, DataAssumption DEF Registers, LineAddr, Addr
  <2>3. s \in States /\ t \in MemTypes
    BY DEF WriteDone, States, ReadType, MemTypes
  <2> QED BY <2>1, <2>2, <2>3 DEF WriteDone
<1>b. /\ in.mem = None => BusWaits
      /\ in.mem # None =>
            /\ bus' = None
            /\ mem' = IF r.mem_addr.tag \in Faulty THEN mem ELSE [mem EXCEPT ![At(r.mem_addr)] = r.line_o]
  BY <1>1 DEF Clock, BusAnswers
<1>c. a = LineAddr(r.req_addr) /\ t = ReadType
  OBVIOUS
<1> HIDE DEF y, m, a, s, t
<1>3. v \in Registers
  <2> HIDE DEF Line, Addr, States, MemTypes, ReqTypes
  <2> QED BY <1>1, <1>2, ZenonT(60) DEF Registers
<1>4. /\ ReqKept(v) /\ FlushLatched(in, v) /\ v.write_flush = r.write_flush
      /\ v.flush_cnt = r.flush_cnt /\ v.fault = FALSE
  BY <1>1 DEF Registers, Latching, ReqKept, MemKept, WritesKept, FlushLatched, LineKept
<1>5. in.mem = None => /\ MemKept(v) /\ WritesKept(v) /\ v.mem_valid = FALSE /\ v.state = "WriteBus"
  BY <1>1 DEF Registers, Latching, MemKept, WritesKept
<1>6. in.mem # None /\ r.write_first =>
         /\ v.state = s /\ v.mem_valid = m /\ v.mem_addr = a /\ v.mem_type = t /\ v.write_first = FALSE
         /\ v.mem_strb = r.mem_strb /\ v.line_o = r.line_o
  BY <1>1 DEF Registers, Latching, MemKept
<1>7. in.mem # None /\ ~r.write_first =>
         /\ v.state = s /\ v.mem_valid = FALSE /\ v.write_first = FALSE
  BY <1>1 DEF Registers, Latching, WritesKept
<1> HIDE DEF v
<1>8. Taken(v) /\ PortRests /\ RamKept
  BY <1>1, <1>2, <1>3, PlainClock
<1>9. /\ r' \in Registers /\ PortRests /\ RamKept
      /\ r'.req_addr = r.req_addr /\ FlushLatched(in, r') /\ r'.write_flush = r.write_flush
      /\ r'.flush_cnt = r.flush_cnt /\ ~r'.fault
  BY <1>4, <1>8 DEF Taken, ReqKept, FlushLatched
<1>10. CASE in.mem = None
  <2>1. OnTheWay(in) /\ ~r'.mem_valid /\ r'.state = "WriteBus"
    BY <1>4, <1>5, <1>8, <1>9, <1>10 DEF OnTheWay, Taken, ReqKept, MemKept, WritesKept
  <2> QED BY <1>9, <1>10, <1>b, <2>1 DEF WriteBusDone
<1>11. CASE in.mem # None /\ r.write_first
  <2>1. s = "WaitGrant" /\ v.state = "WaitGrant" /\ v.mem_valid
    BY <1>1, <1>2, <1>6, <1>11
  <2>2. /\ r'.state = "WaitGrant" /\ r'.mem_valid /\ ReqKept(r')
        /\ r'.mem_addr = LineAddr(r.req_addr) /\ r'.mem_type = ReadType
        /\ r'.mem_strb = r.mem_strb /\ r'.line_o = r.line_o /\ ~r'.write_first
    BY <1>4, <1>6, <1>8, <1>11, <1>c, <2>1 DEF Taken, ReqKept
  <2> QED BY <1>1, <1>9, <1>11, <1>b, <2>2 DEF WriteBusDone
<1>12. CASE in.mem # None /\ ~r.write_first
  <2>1. r'.state = (IF r.write_flush THEN "FlushAddr" ELSE "Idle") /\ ~r'.mem_valid /\ ~r'.write_first
    BY <1>2, <1>7, <1>8, <1>12 DEF Taken
  <2> QED BY <1>9, <1>12, <1>b, <2>1 DEF WriteBusDone
<1> QED BY <1>10, <1>11, <1>12

\* the next position of the sweep is an address
LEMMA NextAddr == ASSUME r \in Registers PROVE AddrDirectNext \in Addr
<1>1. r.req_addr \in Addr /\ r.req_addr.way \in Way /\ r.req_addr.set \in Sets
  BY DEF Registers, Addr
<1>2. (r.req_addr.set + 1) % NSets \in Sets
  BY <1>1, NWayAssumption DEF Sets
<1>3. r.req_addr.way # Ways - 1 => r.req_addr.way + 1 \in Way
  BY <1>1, NWayAssumption DEF Way
<1>4. 0 \in Way /\ 0 \in Words
  BY Bounds, DataAssumption
<1> DEFINE s == (r.req_addr.set + 1) % NSets
           u == r.req_addr.way + 1
           a == r.req_addr
<1>5. CASE a.way = Ways - 1
  <2>1. AddrDirectNext = [a EXCEPT !.way = 0, !.word = 0, !.set = s]
    BY <1>5 DEF AddrDirectNext
  <2> HIDE DEF s, a
  <2> QED BY <1>1, <1>2, <1>4, <2>1 DEF Addr, s, a
<1>6. CASE a.way # Ways - 1
  <2>1. AddrDirectNext = [a EXCEPT !.way = u]
    BY <1>6 DEF AddrDirectNext
  <2> QED BY <1>1, <1>3, <1>6, <2>1 DEF Addr
<1> QED BY <1>5, <1>6

\* FlushAddr: the position of the sweep is given to the tag memory
FlushAddrDone(in) ==
    /\ r' \in Registers /\ PortMoves(in) /\ BusWaits /\ ram' = ram /\ TagTypeOK'
    /\ rd'.direct /\ rd'.invalidate /\ rd'.addr = r.req_addr
    /\ ReqKept(r') /\ MemKept(r') /\ FlushLatched(in, r') /\ r'.flush_cnt = r.flush_cnt
    /\ r'.write_first = r.write_first /\ ~r'.write_flush /\ r'.fault = r.fault
    /\ r'.mem_valid = r.mem_valid /\ r'.state = "FlushCheck"

\* the action implies it
LEMMA FlushAddrEffect ==
    ASSUME ControlInv, NEW in, Clock(in), FlushAddr(in)
    PROVE  FlushAddrDone(in)
<1> DEFINE y == Latched(in)
           v == [y EXCEPT !.write_flush = FALSE, !.line_i = ZeroLine, !.state = "FlushCheck"]
           c == [NoLineAccess EXCEPT !.direct = r.req_flush_all, !.invalidate = TRUE]
<1>1. /\ y \in Registers /\ Latching(in, y) /\ ~rd.invalidate /\ BusWaits /\ PortMoves(in)
      /\ r.req_flush_all = TRUE /\ r \in Registers
  BY DEF Clock, FlushAddr, ControlInv, PortInv, FlagsInv, Serving, Registers, TypeOK, L2TypeOK
<1>2. Clocked(v, c) /\ "FlushCheck" \in States /\ ZeroLine \in Line
  BY Zeros DEF FlushAddr, States
<1> HIDE DEF y
<1>3. /\ v \in Registers /\ ReqKept(v) /\ MemKept(v) /\ FlushLatched(in, v)
      /\ v.write_first = r.write_first /\ ~v.write_flush /\ v.fault = r.fault
      /\ v.mem_valid = r.mem_valid /\ v.state = "FlushCheck" /\ v.flush_cnt = r.flush_cnt
  BY <1>1, <1>2 DEF Registers, Latching, ReqKept, MemKept, WritesKept, FlushLatched, LineKept
<1>4. c \in LineControls /\ c.direct /\ c.invalidate /\ ~c.we /\ c.addr = r.req_addr
  BY <1>1, ControlTypes DEF LineControls, NoLineAccess
<1> HIDE DEF v, c
<1>5. Taken(v) /\ TagEffect(c)
  BY <1>2, <1>3, <1>4, LineClock
<1>6. /\ r' \in Registers /\ ReqKept(r') /\ MemKept(r') /\ FlushLatched(in, r')
      /\ r'.write_first = r.write_first /\ ~r'.write_flush /\ r'.fault = r.fault
      /\ r'.mem_valid = r.mem_valid /\ r'.state = "FlushCheck" /\ r'.flush_cnt = r.flush_cnt
  BY <1>3, <1>5 DEF Taken, ReqKept, MemKept, FlushLatched
<1> QED BY <1>1, <1>4, <1>5, <1>6 DEF FlushAddrDone, TagEffect

\* Reset: the same for the sweep after reset
ResetDone(in) ==
    /\ r' \in Registers /\ PortMoves(in) /\ BusWaits /\ ram' = ram /\ TagTypeOK'
    /\ rd'.direct /\ rd'.invalidate /\ rd'.addr = r.req_addr
    /\ ReqKept(r') /\ MemKept(r') /\ WritesKept(r') /\ LineKept(r')
    /\ r'.req_flush => in.flush \/ r.req_flush
    /\ r.req_flush => ~r'.req_flush
    /\ r'.req_flush_all <=> (in.flush \/ r.req_flush_all)
    /\ r'.mem_valid = r.mem_valid /\ r'.state = "ResetWrite"

\* the action implies it
LEMMA ResetEffect ==
    ASSUME ControlInv, NEW in, Clock(in), Reset(in)
    PROVE  ResetDone(in)
<1> DEFINE y == Latched(in)
           f == IF r.req_flush THEN FALSE ELSE y.req_flush
           n == IF r.req_flush THEN FLUSH_ALL_VALUE ELSE y.flush_cnt
           v == [y EXCEPT !.req_flush = f, !.flush_cnt = n, !.state = "ResetWrite"]
           c == [NoLineAccess EXCEPT !.direct = TRUE, !.invalidate = TRUE]
<1>1. y \in Registers /\ Latching(in, y) /\ ~rd.invalidate /\ BusWaits /\ PortMoves(in) /\ r \in Registers
  BY DEF Clock, Reset, ControlInv, PortInv, Serving, TypeOK, L2TypeOK
<1>2. Clocked(v, c) /\ "ResetWrite" \in States
  BY DEF Reset, States
<1>3. f \in BOOLEAN /\ n \in 0 .. FLUSH_ALL_VALUE /\ (r.req_flush => ~f)
      /\ (f => in.flush \/ r.req_flush)
  <2>1. NSets * Ways \in Nat /\ NSets * Ways >= 1
    BY NWayAssumption, SMT
  <2>2. FLUSH_ALL_VALUE \in 0 .. FLUSH_ALL_VALUE
    BY <2>1 DEF FLUSH_ALL_VALUE
  <2> QED BY <1>1, <2>2 DEF Registers, Latching, FlushLatched
<1> HIDE DEF y, f, n
<1>4. /\ v \in Registers /\ ReqKept(v) /\ MemKept(v) /\ WritesKept(v) /\ LineKept(v)
      /\ v.req_flush = f /\ (v.req_flush_all <=> (in.flush \/ r.req_flush_all))
      /\ v.mem_valid = r.mem_valid /\ v.state = "ResetWrite"
  BY <1>1, <1>2, <1>3 DEF Registers, Latching, ReqKept, MemKept, WritesKept, FlushLatched, LineKept
<1>5. c \in LineControls /\ c.direct /\ c.invalidate /\ ~c.we /\ c.addr = r.req_addr
  BY <1>1, ControlTypes DEF LineControls, NoLineAccess
<1> HIDE DEF v, c
<1>6. Taken(v) /\ TagEffect(c)
  BY <1>2, <1>4, <1>5, LineClock
<1>7. /\ r' \in Registers /\ ReqKept(r') /\ MemKept(r') /\ WritesKept(r') /\ LineKept(r')
      /\ r'.req_flush = f /\ (r'.req_flush_all <=> (in.flush \/ r.req_flush_all))
      /\ r'.mem_valid = r.mem_valid /\ r'.state = "ResetWrite"
  BY <1>4, <1>6 DEF Taken, ReqKept, MemKept, WritesKept, LineKept
<1> QED BY <1>1, <1>3, <1>5, <1>6, <1>7 DEF ResetDone, TagEffect

\* the line at the position of the sweep is dropped
Dropped == \E l \in Line : Rewritten(r.req_addr.set, r.req_addr.way,
                                     [tag |-> r.req_addr.tag, flags |-> {}, data |-> l])

\* ResetWrite: the line is made invalid, and the sweep goes on
ResetWriteDone(in) ==
    /\ r' \in Registers /\ PortMoves(in) /\ BusWaits /\ Dropped /\ TagTypeOK' /\ ~rd'.invalidate
    /\ WritesKept(r') /\ FlushLatched(in, r')
    /\ r.fault \/ ~r'.fault
    /\ r'.mem_valid = r.mem_valid /\ r'.state \in {"Idle", "Reset"}

\* the action implies it
LEMMA ResetWriteEffect ==
    ASSUME ControlInv, NEW in, Clock(in), ResetWrite(in)
    PROVE  ResetWriteDone(in)
<1> DEFINE y == Latched(in)
           n == y.flush_cnt - 1
           a == AddrDirectNext
           v == IF r.flush_cnt = 0 THEN [y EXCEPT !.state = "Idle"]
                ELSE [y EXCEPT !.flush_cnt = n, !.req_addr = a, !.state = "Reset"]
           c == [NoLineAccess EXCEPT !.direct = TRUE, !.we = TRUE]
<1>1. /\ y \in Registers /\ Latching(in, y) /\ BusWaits /\ PortMoves(in)
      /\ r \in Registers /\ rd.invalidate /\ rd.direct /\ rd.addr = r.req_addr /\ TagTypeOK /\ NoAlias
  BY DEF Clock, ResetWrite, ControlInv, PortInv, Serving, TypeOK, L2TypeOK
<1>2. Clocked(v, c) /\ {"Idle", "Reset"} \subseteq States
  BY DEF ResetWrite, States
<1>3. a \in Addr
  BY <1>1, NextAddr
<1>4. r.flush_cnt # 0 => n \in 0 .. FLUSH_ALL_VALUE
  <2>1. NSets * Ways \in Nat /\ NSets * Ways >= 1
    BY NWayAssumption, SMT
  <2>2. y.flush_cnt = r.flush_cnt /\ r.flush_cnt \in 0 .. FLUSH_ALL_VALUE
    BY <1>1 DEF Latching, Registers
  <2> QED BY <2>1, <2>2 DEF FLUSH_ALL_VALUE
<1> HIDE DEF y, n, a
<1>5. /\ v \in Registers /\ WritesKept(v) /\ LineKept(v) /\ FlushLatched(in, v)
      /\ v.mem_valid = r.mem_valid /\ v.state \in {"Idle", "Reset"}
  <2> USE <1>1, <1>2, <1>3, <1>4 DEF Latching, ReqKept, MemKept, WritesKept, FlushLatched, LineKept
  <2>1. CASE r.flush_cnt = 0
    BY <2>1 DEF Registers
  <2>2. CASE r.flush_cnt # 0
    BY <2>2 DEF Registers
  <2> QED BY <2>1, <2>2
<1>6. c \in LineControls /\ ~c.invalidate /\ c.we /\ c.addr = r.req_addr
  BY <1>1, ControlTypes DEF LineControls, NoLineAccess
<1> HIDE DEF v, c
<1>7. Taken(v) /\ TagEffect(c)
  BY <1>2, <1>5, <1>6, LineClock
<1>8. HitIdx = r.req_addr.way
  BY <1>1, HitState
<1>9. Dropped /\ TagTypeOK' /\ ~rd'.invalidate
  BY <1>1, <1>6, <1>7, <1>8 DEF TagEffect, Dropped
<1>10. /\ r' \in Registers /\ WritesKept(r') /\ FlushLatched(in, r') /\ (r.fault \/ ~r'.fault)
       /\ r'.mem_valid = r.mem_valid /\ r'.state \in {"Idle", "Reset"}
  BY <1>5, <1>7 DEF Taken, WritesKept, FlushLatched, LineKept
<1> QED BY <1>1, <1>9, <1>10 DEF ResetWriteDone

\* FlushCheck: the line is dropped; a dirty one goes to the memory first
FlushCheckDone(in) ==
    /\ r' \in Registers /\ PortMoves(in) /\ BusWaits /\ TagTypeOK' /\ Dropped /\ ~rd'.invalidate
    /\ FlushLatched(in, r') /\ r'.write_first = r.write_first /\ (r.fault \/ ~r'.fault)
    /\ r'.req_addr = IF r.flush_cnt = 0 THEN r.req_addr ELSE AddrDirectNext
    /\ r'.flush_cnt = IF r.flush_cnt = 0 THEN 0 ELSE r.flush_cnt - 1
    /\ IF Offload
       THEN /\ r'.write_flush /\ r'.mem_valid /\ r'.mem_type = "WriteBack" /\ r'.mem_strb = Words
            /\ r'.mem_addr = RAddr /\ r'.line_o = Out.data /\ r'.state = "WaitGrant"
       ELSE /\ r'.write_flush = r.write_flush /\ r'.mem_valid = r.mem_valid
            /\ r'.state = IF FlushEnd THEN "Idle" ELSE "FlushAddr"

\* the action implies it
LEMMA FlushCheckEffect ==
    ASSUME ControlInv, NEW in, Clock(in), FlushCheck(in)
    PROVE  FlushCheckDone(in)
<1> DEFINE y == Latched(in)
           n == IF r.flush_cnt = 0 THEN 0 ELSE r.flush_cnt - 1
           a == IF r.flush_cnt = 0 THEN r.req_addr ELSE AddrDirectNext
           o == Out.data
           ra == RAddr
           z == [y EXCEPT !.line_o = o, !.flush_cnt = n, !.req_addr = a]
           st == IF FlushEnd THEN "Idle" ELSE "FlushAddr"
           v == IF Offload
                THEN [z EXCEPT !.write_flush = TRUE, !.mem_addr = ra,
                               !.mem_valid = TRUE, !.mem_type = "WriteBack",
                               !.mem_strb = Words, !.state = "WaitGrant"]
                ELSE [z EXCEPT !.state = st]
           c == [NoLineAccess EXCEPT !.direct = r.req_flush_all, !.we = r.req_flush_all]
<1>1. /\ y \in Registers /\ Latching(in, y) /\ BusWaits /\ PortMoves(in)
      /\ r \in Registers /\ rd.invalidate /\ rd.direct /\ rd.addr = r.req_addr /\ TagTypeOK /\ NoAlias
      /\ r.req_flush_all = TRUE
  BY DEF Clock, FlushCheck, ControlInv, PortInv, FlagsInv, Serving, Registers, TypeOK, L2TypeOK
<1>2. y.flush_cnt = r.flush_cnt /\ y.req_addr = r.req_addr
  BY <1>1 DEF Latching, ReqKept
<1>3. Clocked(v, c) /\ st \in States /\ "WaitGrant" \in States /\ "WriteBack" \in MemTypes
      /\ Words \in SUBSET Words
  BY <1>2 DEF FlushCheck, States, MemTypes
<1>4. a \in Addr /\ n \in 0 .. FLUSH_ALL_VALUE
  <2>1. NSets * Ways \in Nat /\ NSets * Ways >= 1
    BY NWayAssumption, SMT
  <2>2. r.flush_cnt \in 0 .. FLUSH_ALL_VALUE /\ r.req_addr \in Addr /\ AddrDirectNext \in Addr
    BY <1>1, NextAddr DEF Registers
  <2>3. n \in 0 .. FLUSH_ALL_VALUE
    BY <2>1, <2>2 DEF FLUSH_ALL_VALUE
  <2> QED BY <2>2, <2>3
<1>5. HitIdx = r.req_addr.way
  BY <1>1, HitState
<1>7. o \in Line /\ ra \in Addr
  BY OutFacts DEF Entry
<1> HIDE DEF y, n, a, o, ra, st
<1>8. /\ z \in Registers /\ FlushLatched(in, z) /\ LineKept(z) /\ WritesKept(z)
      /\ z.req_addr = a /\ z.flush_cnt = n /\ z.line_o = o /\ z.mem_valid = r.mem_valid
  BY <1>1, <1>4, <1>7 DEF Registers, Latching, FlushLatched, LineKept, WritesKept
<1> HIDE DEF z
<1>9. /\ v \in Registers /\ FlushLatched(in, v) /\ LineKept(v)
      /\ v.write_first = r.write_first
      /\ v.req_addr = a /\ v.flush_cnt = n
      /\ IF Offload
         THEN /\ v.write_flush /\ v.mem_valid /\ v.mem_type = "WriteBack" /\ v.mem_strb = Words
              /\ v.mem_addr = ra /\ v.line_o = o /\ v.state = "WaitGrant"
         ELSE /\ v.write_flush = r.write_flush /\ v.mem_valid = r.mem_valid /\ v.state = st
  <2>1. CASE Offload
    BY <1>3, <1>7, <1>8, <2>1 DEF Registers, FlushLatched, LineKept, WritesKept
  <2>2. CASE ~Offload
    BY <1>3, <1>8, <2>2 DEF Registers, FlushLatched, LineKept, WritesKept
  <2> QED BY <2>1, <2>2
<1>10. c \in LineControls /\ ~c.invalidate /\ c.we /\ c.addr = r.req_addr
  BY <1>1, ControlTypes DEF LineControls, NoLineAccess
<1> HIDE DEF v, c
<1>11. Taken(v) /\ TagEffect(c)
  BY <1>3, <1>9, <1>10, LineClock
<1>12. TagTypeOK' /\ Dropped /\ ~rd'.invalidate
  BY <1>1, <1>5, <1>10, <1>11 DEF TagEffect, Dropped
<1>13. /\ r' \in Registers /\ FlushLatched(in, r') /\ r'.write_first = r.write_first /\ (r.fault \/ ~r'.fault)
       /\ r'.req_addr = a /\ r'.flush_cnt = n
  BY <1>9, <1>11 DEF Taken, FlushLatched, LineKept
<1>14. IF Offload
       THEN /\ r'.write_flush /\ r'.mem_valid /\ r'.mem_type = "WriteBack" /\ r'.mem_strb = Words
            /\ r'.mem_addr = ra /\ r'.line_o = o /\ r'.state = "WaitGrant"
       ELSE /\ r'.write_flush = r.write_flush /\ r'.mem_valid = r.mem_valid /\ r'.state = st
  BY <1>9, <1>11 DEF Taken
<1> QED BY <1>1, <1>12, <1>13, <1>14 DEF FlushCheckDone, a, n, o, ra, st

\* the line that was looked up is replaced
Replaced(flags, data) ==
    Rewritten(r.req_addr.set, HitIdx, [tag |-> r.req_addr.tag, flags |-> flags, data |-> data])

\* a write of a whole line
LEMMA WholeLine ==
    ASSUME r \in Registers, ~rd.invalidate, NEW f \in SUBSET Flags, NEW l \in Line,
           TagEffect(WriteLine(f, l, Words))
    PROVE  PortRests /\ Replaced(f, l)
<1> DEFINE c == WriteLine(f, l, Words)
<1>1. c \in LineControls /\ ~c.direct /\ ~c.invalidate /\ ~c.re /\ c.we /\ c.addr = r.req_addr
      /\ c.wstrb = Words /\ c.wdata = l /\ c.wflags = f
  BY ControlTypes DEF LineControls, WriteLine, NoLineAccess
<1>2. Words # {}
  BY DataAssumption
<1> HIDE DEF c
<1>3. TagEffect(c)
  BY DEF c
<1>4. Rewritten(r.req_addr.set, HitIdx,
                    [tag |-> r.req_addr.tag, flags |-> f,
                     data |-> [w \in Words |-> IF w \in Words THEN l[w]
                                              ELSE ram[r.req_addr.set][HitIdx].data[w]]])
  BY <1>1, <1>2, <1>3 DEF TagEffect
<1>5. [w \in Words |-> IF w \in Words THEN l[w] ELSE ram[r.req_addr.set][HitIdx].data[w]] = l
  BY DEF Line
<1> QED BY <1>1, <1>3, <1>4, <1>5 DEF TagEffect, PortRests, Replaced

\* CheckResp without a line to fill: the answer goes on
LEMMA DirectEffect ==
    ASSUME ControlInv, NEW in, Clock(in), CheckResp(in), Direct
    PROVE  /\ Rests(in) /\ PortRests /\ RamKept /\ BusWaits
           /\ L2Resp(in) = [data |-> r.line_i, fault |-> r.fault]
<1> DEFINE y == Latched(in)
           v == [y EXCEPT !.state = "Idle"]
<1>1. y \in Registers /\ Latching(in, y) /\ ~rd.invalidate /\ BusWaits /\ r.state = "CheckResp"
  BY DEF Clock, CheckResp, ControlInv, PortInv
<1>2. Clocked(v, NoLineAccess) /\ "Idle" \in States
  BY DEF CheckResp, States
<1> HIDE DEF y
<1>3. /\ v \in Registers /\ WritesKept(v) /\ FlushLatched(in, v) /\ v.req_addr = r.req_addr
      /\ v.mem_valid = r.mem_valid /\ v.state = "Idle"
  BY <1>1, <1>2 DEF Registers, Latching, ReqKept, WritesKept, FlushLatched
<1> HIDE DEF v
<1>4. Taken(v) /\ PortRests /\ RamKept
  BY <1>1, <1>2, <1>3, PlainClock
<1>5. L2Resp(in) = [data |-> r.line_i, fault |-> r.fault]
  BY <1>1 DEF L2Resp
<1> QED BY <1>1, <1>3, <1>4, <1>5 DEF Rests, Taken, WritesKept, FlushLatched

\* CheckResp with a line: it is filled, a write merged into it
FillDone(in) ==
    /\ PortRests /\ BusWaits
    /\ IF IsWrite
       THEN /\ Rests(in) /\ Replaced({"VALID", "DIRTY"}, Modified(r.line_i))
            /\ L2Resp(in) = [data |-> ZeroLine, fault |-> FALSE]
       ELSE /\ r' \in Registers /\ r'.state = "SetupReadAdr" /\ ReqKept(r') /\ WritesKept(r')
            /\ FlushLatched(in, r') /\ ~r'.fault /\ r'.mem_valid = r.mem_valid /\ PortWaits
            /\ Replaced({"VALID"}, r.line_i)

\* the action implies it
LEMMA FillEffect ==
    ASSUME ControlInv, NEW in, Clock(in), CheckResp(in), ~Direct
    PROVE  FillDone(in)
<1> DEFINE y == Latched(in)
           t == y.req_type \ {"WRITE"}
           l == Modified(r.line_i)
           v == IF IsWrite THEN [y EXCEPT !.req_type = t, !.state = "Idle"]
                ELSE [y EXCEPT !.state = "SetupReadAdr"]
           c == IF IsWrite THEN WriteLine({"VALID", "DIRTY"}, l, Words)
                ELSE WriteLine({"VALID"}, r.line_i, Words)
<1>1. /\ y \in Registers /\ Latching(in, y) /\ BusWaits /\ ~rd.invalidate /\ r \in Registers
      /\ r.state = "CheckResp" /\ ~r.fault
  BY DEF Clock, CheckResp, ControlInv, PortInv, TypeOK, L2TypeOK, Direct
<1>2. Clocked(v, c) /\ {"Idle", "SetupReadAdr"} \subseteq States
  BY DEF CheckResp, States
<1>3. /\ l \in Line /\ t \in ReqTypes /\ r.line_i \in Line
      /\ {"VALID", "DIRTY"} \in SUBSET Flags /\ {"VALID"} \in SUBSET Flags
  <2>1. r.line_i \in Line /\ r.req_wdata \in Line
    BY <1>1 DEF Registers
  <2>2. l \in Line
    BY <2>1, SMTT(60) DEF Line, Modified
  <2>3. t \in ReqTypes
    BY <1>1 DEF Registers, ReqTypes
  <2> QED BY <2>1, <2>2, <2>3 DEF Flags
<1>4. IsWrite => L2Resp(in) = [data |-> ZeroLine, fault |-> FALSE]
  BY <1>1 DEF L2Resp
<1>5. ~IsWrite => PortWaits
  BY <1>1, QuietResp DEF Clock, ControlInv, FlagsInv, Serving
<1> HIDE DEF y, l, t
<1>6. /\ v \in Registers /\ WritesKept(v) /\ FlushLatched(in, v) /\ LineKept(v)
      /\ v.mem_valid = r.mem_valid /\ v.req_addr = r.req_addr
      /\ IsWrite => v.state = "Idle"
      /\ ~IsWrite => v.state = "SetupReadAdr" /\ ReqKept(v)
  <2> USE <1>1, <1>2, <1>3 DEF Latching, ReqKept, WritesKept, FlushLatched, LineKept
  <2>1. CASE IsWrite
    BY <2>1 DEF Registers
  <2>2. CASE ~IsWrite
    BY <2>2 DEF Registers
  <2> QED BY <2>1, <2>2
<1>7. /\ WriteLine({"VALID", "DIRTY"}, l, Words) \in LineControls
      /\ WriteLine({"VALID"}, r.line_i, Words) \in LineControls
  <2>1. ASSUME NEW f \in SUBSET Flags, NEW m \in Line PROVE WriteLine(f, m, Words) \in LineControls
    BY <1>1, ControlTypes DEF WriteLine, LineControls
  <2> QED BY <1>3, <2>1
<1> HIDE DEF v
<1>8. Taken(v) /\ TagEffect(c)
  BY <1>2, <1>6, <1>7, LineClock
<1>9. PortRests /\ IF IsWrite THEN Replaced({"VALID", "DIRTY"}, l) ELSE Replaced({"VALID"}, r.line_i)
  <2>1. CASE IsWrite
    BY <1>1, <1>3, <1>8, <2>1, WholeLine
  <2>2. CASE ~IsWrite
    BY <1>1, <1>3, <1>8, <2>2, WholeLine
  <2> QED BY <2>1, <2>2
<1>10. CASE IsWrite
  BY <1>1, <1>4, <1>6, <1>8, <1>9, <1>10 DEF FillDone, Rests, Taken, WritesKept, FlushLatched, l
<1>11. CASE ~IsWrite
  BY <1>1, <1>5, <1>6, <1>8, <1>9, <1>11 DEF FillDone, Taken, WritesKept, ReqKept, FlushLatched, LineKept
<1> QED BY <1>10, <1>11

\* CheckHit: the line is given away, and dropped in the next clock
HitGiveAwayDone(in) ==
    /\ Rests(in) /\ BusWaits /\ ram' = ram /\ TagTypeOK'
    /\ ~rd'.direct /\ rd'.invalidate /\ rd'.addr = r.req_addr
    /\ L2Resp(in) = [data |-> Out.data, fault |-> FALSE]

\* the action implies it
LEMMA HitGiveAwayEffect ==
    ASSUME ControlInv, NEW in, Clock(in), HitGiveAway(in)
    PROVE  HitGiveAwayDone(in)
<1> DEFINE y == Latched(in)
           v == [y EXCEPT !.state = "Idle"]
           c == [NoLineAccess EXCEPT !.invalidate = TRUE]
<1>1. /\ y \in Registers /\ Latching(in, y) /\ ~rd.invalidate /\ BusWaits /\ r.state = "CheckHit" /\ Hit
      /\ r \in Registers /\ r.fault = FALSE
  BY DEF Clock, HitGiveAway, ControlInv, PortInv, FlagsInv, TypeOK, L2TypeOK, Registers
<1>2. Clocked(v, c) /\ "Idle" \in States
  BY DEF HitGiveAway, States
<1> HIDE DEF y
<1>3. /\ v \in Registers /\ WritesKept(v) /\ FlushLatched(in, v) /\ v.req_addr = r.req_addr
      /\ v.mem_valid = r.mem_valid /\ v.state = "Idle"
  BY <1>1, <1>2 DEF Registers, Latching, ReqKept, WritesKept, FlushLatched
<1>4. c \in LineControls /\ ~c.direct /\ c.invalidate /\ ~c.we /\ c.addr = r.req_addr
  BY <1>1, ControlTypes DEF LineControls, NoLineAccess
<1> HIDE DEF v, c
<1>5. Taken(v) /\ TagEffect(c)
  BY <1>2, <1>3, <1>4, LineClock
<1>6. L2Resp(in) = [data |-> Out.data, fault |-> r.fault]
  BY <1>1 DEF L2Resp
<1>7. ram' = ram /\ TagTypeOK' /\ ~rd'.direct /\ rd'.invalidate /\ rd'.addr = r.req_addr
  BY <1>1, <1>4, <1>5 DEF TagEffect
<1>8. Rests(in)
  BY <1>3, <1>5 DEF Rests, Taken, WritesKept, FlushLatched
<1> QED BY <1>1, <1>6, <1>7, <1>8 DEF HitGiveAwayDone

\* a flush is begun, the request of the port is taken, or nothing happens
Accepted(in) ==
    /\ r' \in Registers /\ ~r'.fault /\ r'.mem_valid = r.mem_valid /\ WritesKept(r')
    /\ r'.req_flush_all <=> (in.flush \/ r.req_flush_all)
    /\ TagTypeOK' /\ ~rd'.direct /\ ~rd'.invalidate
    /\ IF r.req_flush
       THEN /\ r'.state = "FlushAddr" /\ r'.req_addr = ZeroAddr /\ r'.flush_cnt = FLUSH_ALL_VALUE
            /\ ~r'.req_flush /\ rd'.addr = r.req_addr
       ELSE /\ r'.req_flush <=> in.flush
            /\ rd'.addr = in.addr
            /\ IF in.req = None
               THEN r'.state = "Idle" /\ r'.req_addr = r.req_addr
               ELSE /\ r'.state = "CheckHit" /\ r'.req_addr = in.addr /\ r'.req_type = in.req.type
                    /\ r'.req_wdata = in.req.wdata /\ r'.req_strb = in.req.strb

\* the line given away in the clock before is dropped, if there is one
GivenDropped ==
    /\ ~(rd.invalidate /\ Hit) => ram' = ram
    /\ rd.invalidate /\ Hit =>
          \E l \in Line : Rewritten(rd'.addr.set, HitIdx,
                                    [tag |-> rd'.addr.tag, flags |-> {}, data |-> l])

\* the tail of comb() with v_ready_next
LEMMA ReadyNextEffect ==
    ASSUME ControlInv, NEW in, Clock(in), r.state \in {"Idle", "CheckHit"},
           NEW u \in Registers, u.state = "Idle", u.fault = r.fault, Latching(in, [u EXCEPT !.state = r.state]),
           ReadyNext(in, u, NoLineAccess)
    PROVE  Accepted(in) /\ GivenDropped /\ BusWaits
<1>1. /\ in.addr \in Addr /\ in.flush \in BOOLEAN /\ r \in Registers /\ Inputs(in) /\ BusWaits
      /\ ~r.fault /\ (r.req_flush => r.req_flush_all) /\ Port!DstTypeOK /\ r.fault = FALSE
  BY DEF Clock, Inputs, ControlInv, FlagsInv, TypeOK, L2TypeOK, Registers
<1>2. /\ u.req_addr = r.req_addr /\ FlushLatched(in, u) /\ WritesKept(u) /\ u.mem_valid = r.mem_valid
      /\ u.fault = FALSE
  BY <1>1 DEF Latching, ReqKept, FlushLatched, WritesKept, Registers
<1>3. "FlushAddr" \in States /\ "CheckHit" \in States /\ ZeroAddr \in Addr /\ ZeroLine \in Line
  BY Zeros DEF States
<1>4. /\ NoLineAccess \in LineControls /\ ~NoLineAccess.direct /\ ~NoLineAccess.invalidate
      /\ ~NoLineAccess.re /\ NoLineAccess.addr = r.req_addr /\ ~NoLineAccess.we
  BY <1>1, ControlTypes
<1>5. CASE r.req_flush
  <2> DEFINE v == [u EXCEPT !.req_addr = ZeroAddr, !.req_flush = FALSE, !.line_i = ZeroLine,
                            !.flush_cnt = FLUSH_ALL_VALUE, !.state = "FlushAddr"]
  <2>1. Clocked(v, NoLineAccess)
    BY <1>1, <1>5 DEF ReadyNext, Takes
  <2>2. FLUSH_ALL_VALUE \in 0 .. FLUSH_ALL_VALUE
    <3>1. NSets * Ways \in Nat /\ NSets * Ways >= 1
      BY NWayAssumption, SMT
    <3> QED BY <3>1 DEF FLUSH_ALL_VALUE
  <2>3. v \in Registers
    BY <1>3, <2>2 DEF Registers
  <2>4. /\ v.req_addr = ZeroAddr /\ ~v.req_flush /\ v.flush_cnt = FLUSH_ALL_VALUE
        /\ v.state = "FlushAddr" /\ (v.req_flush_all <=> (in.flush \/ r.req_flush_all))
        /\ v.mem_valid = r.mem_valid /\ ~v.fault /\ WritesKept(v)
    BY <1>2 DEF Registers, FlushLatched, WritesKept
  <2> HIDE DEF v, NoLineAccess
  <2>5. Taken(v) /\ TagEffect(NoLineAccess)
    BY <1>4, <2>1, <2>3, LineClock
  <2>6. Accepted(in)
    BY <1>4, <1>5, <2>4, <2>5 DEF Accepted, Taken, TagEffect, WritesKept
  <2>7. GivenDropped
    BY <1>4, <2>5 DEF GivenDropped, TagEffect
  <2> QED BY <1>1, <2>6, <2>7
<1>6. CASE ~r.req_flush
  <2> DEFINE q == in.req
             v == IF q = None THEN u
                  ELSE [u EXCEPT !.req_addr = in.addr, !.req_wdata = q.wdata, !.req_strb = q.strb,
                                 !.req_type = q.type, !.fault = FALSE, !.state = "CheckHit"]
             re == in.req # None
             k == [NoLineAccess EXCEPT !.re = re, !.addr = in.addr]
  <2>1. Clocked(v, k)
    BY <1>6 DEF ReadyNext, Takes
  <2>2. q # None => q.wdata \in Line /\ q.type \in ReqTypes /\ q.strb \in SUBSET Words
    <3>1. d.type \in ReqTypes /\ (IF d.wdata = None THEN ZeroLine ELSE d.wdata) \in Line
      BY <1>1, <1>3 DEF Port!DstTypeOK, Port!ReqTypes, ReqTypes
    <3> QED BY <1>1, <3>1 DEF Inputs
  <2>3. u.req_flush <=> in.flush
    BY <1>1, <1>2, <1>6 DEF FlushLatched, Registers
  <2>4. re \in BOOLEAN
    OBVIOUS
  <2> HIDE DEF re
  <2>5. k \in LineControls /\ k.addr = in.addr /\ ~k.direct /\ ~k.invalidate /\ ~k.we
    BY <1>1, <1>4, <2>4 DEF LineControls
  <2> HIDE DEF k, q
  <2>6. v \in Registers
    <3>1. CASE q = None
      BY <3>1
    <3>2. CASE q # None
      BY <1>1, <1>3, <2>2, <3>2 DEF Registers
    <3> QED BY <3>1, <3>2
  <2>7. /\ (v.req_flush_all <=> (in.flush \/ r.req_flush_all))
        /\ v.mem_valid = r.mem_valid /\ v.fault = FALSE /\ WritesKept(v)
        /\ v.req_flush <=> in.flush
        /\ q = None => v.state = "Idle" /\ v.req_addr = r.req_addr
        /\ q # None => /\ v.state = "CheckHit" /\ v.req_addr = in.addr
                       /\ v.req_type = q.type /\ v.req_wdata = q.wdata /\ v.req_strb = q.strb
    <3>1. CASE q = None
      BY <1>2, <2>3, <3>1 DEF FlushLatched, WritesKept
    <3>2. CASE q # None
      BY <1>2, <2>3, <3>2 DEF FlushLatched, WritesKept, Registers
    <3> QED BY <3>1, <3>2
  <2> HIDE DEF v
  <2>8. Taken(v) /\ TagEffect(k)
    BY <2>1, <2>5, <2>6, LineClock
  <2>9. q = in.req
    BY DEF q
  <2>10. /\ r' \in Registers /\ ~r'.fault /\ r'.mem_valid = r.mem_valid /\ WritesKept(r')
         /\ r'.req_flush_all <=> (in.flush \/ r.req_flush_all)
         /\ r'.req_flush <=> in.flush
    <3>1. ~r'.fault
      BY <2>7, <2>8 DEF Taken
    <3> QED BY <2>7, <2>8, <3>1 DEF Taken, WritesKept
  <2>11. IF in.req = None
         THEN r'.state = "Idle" /\ r'.req_addr = r.req_addr
         ELSE /\ r'.state = "CheckHit" /\ r'.req_addr = in.addr /\ r'.req_type = in.req.type
              /\ r'.req_wdata = in.req.wdata /\ r'.req_strb = in.req.strb
    BY <2>7, <2>8, <2>9 DEF Taken
  <2>12. TagTypeOK' /\ ~rd'.direct /\ ~rd'.invalidate /\ rd'.addr = in.addr
    BY <2>5, <2>8 DEF TagEffect
  <2>13. Accepted(in)
    BY <1>6, <2>10, <2>11, <2>12 DEF Accepted
  <2>14. GivenDropped
    BY <2>5, <2>8 DEF GivenDropped, TagEffect
  <2> QED BY <1>1, <2>13, <2>14
<1> QED BY <1>5, <1>6

\* Idle, as said
LEMMA IdleEffect ==
    ASSUME ControlInv, NEW in, Clock(in), Idle(in)
    PROVE  Accepted(in) /\ GivenDropped /\ BusWaits /\ PortMoves(in)
<1> DEFINE y == Latched(in)
<1>1. /\ y \in Registers /\ Latching(in, y) /\ r.state = "Idle" /\ PortMoves(in)
      /\ ReadyNext(in, y, NoLineAccess)
  BY DEF Clock, Idle, Serving
<1> HIDE DEF y
<1>2. y.state = "Idle" /\ y.fault = r.fault /\ [y EXCEPT !.state = r.state] = y
  BY <1>1 DEF Latching, LineKept, Registers
<1>3. Latching(in, [y EXCEPT !.state = r.state])
  BY <1>1, <1>2
<1> QED BY <1>1, <1>2, <1>3, ReadyNextEffect

\* CheckHit, a read: the line is shown, and the next request awaited
LEMMA HitReadEffect ==
    ASSUME ControlInv, NEW in, Clock(in), HitRead(in)
    PROVE  /\ Accepted(in) /\ ram' = ram /\ BusWaits
           /\ L2Resp(in) = [data |-> Out.data, fault |-> FALSE]
<1> DEFINE y == Latched(in)
           u == [y EXCEPT !.state = "Idle"]
<1>1. /\ y \in Registers /\ Latching(in, y) /\ r.state = "CheckHit" /\ ~rd.invalidate /\ Hit
      /\ ReadyNext(in, u, NoLineAccess) /\ "Idle" \in States /\ r.fault = FALSE
  BY DEF Clock, HitRead, States, ControlInv, PortInv, FlagsInv, Registers, TypeOK, L2TypeOK
<1>6. L2Resp(in) = [data |-> Out.data, fault |-> r.fault]
  BY <1>1 DEF L2Resp
<1> HIDE DEF y
<1>2. u \in Registers /\ u.state = "Idle" /\ u.fault = r.fault /\ [u EXCEPT !.state = r.state] = y
  BY <1>1 DEF Latching, LineKept, Registers
<1>3. Latching(in, [u EXCEPT !.state = r.state])
  BY <1>1, <1>2
<1> HIDE DEF u
<1>4. Accepted(in) /\ GivenDropped /\ BusWaits
  BY <1>1, <1>2, <1>3, ReadyNextEffect
<1> QED BY <1>1, <1>4, <1>6 DEF GivenDropped

----------------------------------------------------------------------------
\* What the proofs of the invariant use of every clock

\* The request that is served is the one the port waits for.
LEMMA ServeFacts ==
    ASSUME ControlInv, Serving
    PROVE  /\ d.addr = r.req_addr /\ d.type = r.req_type /\ d.srcid \in Slots
           /\ r.req_addr \in Addr /\ At(r.req_addr) \in Places /\ At(r.req_addr)[1] = r.req_addr.tag
           /\ d.state \in {"ReadMem", "WriteMem"}
           /\ d.state = "WriteMem" <=> IsWrite /\ "SNOOP" \notin r.req_type
           /\ "SNOOP" \in r.req_type => IsWrite /\ IsCached
           /\ IsCached <=> r.req_addr.tag \notin Uncached
           /\ IsUnique => IsCached
           /\ r.req_strb = Words /\ r.req_wdata \in Line
<1>1. /\ DstInv /\ ServeInv /\ r \in Registers
  BY DEF ControlInv, TypeOK, L2TypeOK
<1>2. /\ d.addr = r.req_addr /\ d.type = r.req_type /\ r.req_strb = Words
      /\ d.state \in {"ReadMem", "WriteMem"} /\ r.req_addr \in Addr /\ r.req_wdata \in Line
  BY <1>1 DEF ServeInv, Registers
<1>3. At(r.req_addr) \in Places /\ At(r.req_addr)[1] = r.req_addr.tag
  BY <1>2, PlaceOf
<1>4. d.srcid \in Slots /\ (IsCached <=> r.req_addr.tag \notin Uncached) /\ (IsUnique => IsCached)
  BY <1>1, <1>2 DEF DstInv, RequestInv, IsCached, IsUnique
<1>5. /\ d.state = "WriteMem" <=> IsWrite /\ "SNOOP" \notin r.req_type
      /\ "SNOOP" \in r.req_type => IsWrite /\ IsCached
  BY <1>1, <1>2 DEF DstInv, WriteInv, ReadInv, IsWrite, IsCached
<1> QED BY <1>2, <1>3, <1>4, <1>5

\* What the port knows of the line it asks for.
LEMMA OwnerFacts ==
    ASSUME ControlInv, Serving
    PROVE  /\ d.state = "WriteMem" => d.wdata = r.req_wdata
           /\ d.state = "WriteMem" /\ IsUnique => /\ owner[At(r.req_addr)] = None
                                                  /\ r.req_addr.tag \notin Faulty
           /\ IsWrite /\ IsCached /\ ~IsUnique => /\ owner[At(r.req_addr)] # None
                                                  /\ r.req_wdata = newest[At(r.req_addr)]
           /\ d.state = "ReadMem" /\ IsWrite => /\ owner[At(r.req_addr)] # None
                                                /\ "SNOOP" \in d.type
                                                /\ d.wdata = newest[At(r.req_addr)]
           /\ ~IsWrite => owner[At(r.req_addr)] = None /\ "SNOOP" \notin d.type
           /\ ~IsCached => owner[At(r.req_addr)] = None
           /\ ~IsCached /\ IsWrite => \A w \in Words \ {0} : r.req_wdata[w] = 0
           /\ owner[At(r.req_addr)] # None => r.req_addr.tag \notin Faulty
<1> DEFINE p == At(r.req_addr)
<1>1. DstInv /\ ServeInv /\ newest[p] \in Line /\ p \in Places /\ p[1] = r.req_addr.tag
  BY ServeFacts DEF ControlInv, TypeOK
<1>2. /\ d.addr = r.req_addr /\ d.type = r.req_type /\ d.srcid \in Slots /\ None \notin Slots
      /\ d.state \in {"ReadMem", "WriteMem"} /\ p = At(d.addr)
      /\ (d.state = "WriteMem" <=> IsWrite /\ "SNOOP" \notin r.req_type)
  BY ServeFacts, L2Assumption
<1>3. owner[p] # None => p[1] \notin Uncached \cup Faulty
  BY <1>1 DEF DstInv, OwnerInv
<1>4. newest[p] # None /\ None \notin Line
  BY <1>1, NoneAssumption
<1> HIDE DEF p
<1>5. d.state = "WriteMem" =>
         /\ d.wdata = r.req_wdata
         /\ IsUnique => owner[p] = None /\ r.req_addr.tag \notin Faulty
         /\ IsCached /\ ~IsUnique => owner[p] = d.srcid /\ r.req_wdata = newest[p]
         /\ ~IsCached => \A w \in Words \ {0} : r.req_wdata[w] = 0
  BY <1>1, <1>2, <1>4 DEF DstInv, WriteInv, ServeInv, IsWrite, IsCached, IsUnique
<1>6. d.state = "ReadMem" =>
         /\ "SNOOP" \in d.type <=> owner[p] # None
         /\ IsWrite <=> "SNOOP" \in d.type
         /\ "SNOOP" \in d.type => IsCached /\ d.wdata = newest[p] /\ r.req_wdata = newest[p]
  BY <1>1, <1>2, <1>4 DEF DstInv, ReadInv, ServeInv, IsWrite, IsCached
<1>7. ~IsCached => owner[p] = None
  BY <1>1, <1>3, ServeFacts
<1> QED BY <1>1, <1>2, <1>3, <1>5, <1>6, <1>7 DEF p

\* What the port does in a clock without answer.
LEMMA PortQuiet ==
    ASSUME ControlInv, NEW in, Clock(in), L2Resp(in) = None
    PROVE  /\ Port!DstTypeOK' /\ DstInv' /\ owner' = owner /\ newest' = newest /\ ToldInv'
           /\ Serving => d' = d
           /\ ~Serving => PortMoves(in)
<1>1. CASE Serving
  <2>1. d' = d /\ owner' = owner /\ newest' = newest /\ told' = None
    BY <1>1 DEF Clock, PortWaits
  <2>2. Port!DstTypeOK'
    BY <2>1 DEF ControlInv, TypeOK, Port!DstTypeOK
  <2>3. DstInv'
    BY <2>1 DEF ControlInv, DstInv, RequestInv, WriteInv, ReadInv, SnoopInv, OwnerInv
  <2> QED BY <1>1, <2>1, <2>2, <2>3, NoneAssumption DEF ToldInv
<1>2. CASE ~Serving
  BY <1>2, NoneAssumption DEF Clock, PortMoves, ToldInv
<1> QED BY <1>1, <1>2

\* What an answer without error, and with the newest contents, does to the port.
LEMMA PortServed ==
    ASSUME ControlInv, NEW in, Clock(in), NEW resp \in [data : Line, fault : BOOLEAN], L2Resp(in) = resp,
           resp.fault <=> r.req_addr.tag \in Faulty,
           ~IsWrite /\ ~resp.fault => resp.data = newest[At(r.req_addr)]
    PROVE  /\ Serving /\ Port!DstTypeOK' /\ DstInv' /\ ToldInv' /\ d'.state = "Idle"
           /\ newest' \in [Places -> Line] /\ owner' \in [Places -> Slots \cup {None}]
           /\ \A p \in Places : p # At(r.req_addr) => owner'[p] = owner[p] /\ newest'[p] = newest[p]
           /\ resp.fault => owner' = owner /\ newest' = newest
           /\ ~resp.fault => owner'[At(r.req_addr)] = IF IsUnique THEN d.srcid ELSE None
           /\ ~resp.fault /\ ~IsUnique /\ d.state = "ReadMem" => newest' = newest
           /\ ~resp.fault /\ d.state = "WriteMem" => newest'[At(r.req_addr)] = r.req_wdata
<1> DEFINE p == At(r.req_addr)
<1>1. resp # None
  BY NoneAssumption
<1>2. Serving
  BY <1>1 DEF Clock
<1>3. PICK x \in Line : PortAnswered(resp, x)
  BY <1>1 DEF Clock
<1>4. /\ d.addr = r.req_addr /\ d.type = r.req_type /\ d.srcid \in Slots /\ p \in Places
      /\ p[1] = r.req_addr.tag /\ d.state \in {"ReadMem", "WriteMem"}
      /\ r.req_wdata \in Line /\ (IsCached <=> r.req_addr.tag \notin Uncached) /\ (IsUnique => IsCached)
  BY <1>2, ServeFacts
<1>5. /\ d.state = "WriteMem" => d.wdata = r.req_wdata
      /\ d.state = "ReadMem" /\ IsWrite => "SNOOP" \in d.type /\ d.wdata = newest[p]
      /\ ~IsWrite => "SNOOP" \notin d.type
  BY <1>2, OwnerFacts
<1>6. newest \in [Places -> Line] /\ owner \in [Places -> Slots \cup {None}] /\ DstInv
  BY DEF ControlInv, TypeOK
<1>7. ToldInv'
  <2>1. told' = Judge(resp)
    BY <1>3 DEF PortAnswered
  <2>2. d.state = "ReadMem" /\ ~resp.fault => Port!R(d.srcid, resp).data = newest[p]
    BY <1>1, <1>5 DEF Port!R
  <2>3. Judge(resp) = "good"
    BY <1>4, <2>2 DEF Judge
  <2> QED BY <2>1, <2>3 DEF ToldInv
<1>8. d' = Port!DstReset
  BY <1>3 DEF PortAnswered
<1> DEFINE u == IF IsUnique THEN d.srcid ELSE None
           y == IF d.state = "ReadMem" THEN x ELSE d.wdata
<1>9. u \in Slots \cup {None} /\ y \in Line
  BY <1>4, <1>5
<1>10. /\ owner' = IF resp.fault THEN owner ELSE [owner EXCEPT ![p] = u]
       /\ newest' = IF resp.fault \/ (d.state = "ReadMem" /\ ~IsUnique) THEN newest
                    ELSE [newest EXCEPT ![p] = y]
  BY <1>3 DEF PortAnswered
<1>u. u = IF IsUnique THEN d.srcid ELSE None
  OBVIOUS
<1>y. d.state = "WriteMem" => y = r.req_wdata
  BY <1>5
<1> HIDE DEF u, y, p
<1>11. newest' \in [Places -> Line] /\ owner' \in [Places -> Slots \cup {None}]
  <2> HIDE DEF Line, Places
  <2> QED BY <1>4, <1>6, <1>9, <1>10
<1>12. /\ \A q \in Places : q # p => owner'[q] = owner[q] /\ newest'[q] = newest[q]
       /\ resp.fault => owner' = owner /\ newest' = newest
       /\ ~resp.fault => owner'[p] = u
       /\ ~resp.fault /\ ~IsUnique /\ d.state = "ReadMem" => newest' = newest
       /\ ~resp.fault /\ d.state = "WriteMem" => newest'[p] = y
  <2> HIDE DEF Line, Places
  <2> QED BY <1>4, <1>6, <1>10
<1>13. Port!DstTypeOK'
  BY <1>8, ResetType DEF Port!DstTypeOK, Port!ReqTypes, ReqTypes
<1>14. OwnerInv'
  <2>1. \A q \in Places : owner[q] # None => q[1] \notin Uncached \cup Faulty
    BY <1>6 DEF DstInv, OwnerInv
  <2>2. ~resp.fault /\ owner'[p] # None => p[1] \notin Uncached \cup Faulty
    BY <1>4, <1>12, <1>u
  <2>3. \A q \in Places : owner'[q] # None => q[1] \notin Uncached \cup Faulty
    BY <1>12, <2>1, <2>2
  <2> QED BY <2>3 DEF OwnerInv
<1>15. d'.state = "Idle"
  BY <1>8 DEF Port!DstReset
<1>16. DstInv'
  <2>1. Port!DstReset' = Port!DstReset
    BY DEF Port!DstReset
  <2> QED BY <1>8, <1>14, <1>15, <2>1 DEF DstInv, RequestInv, WriteInv, ReadInv, SnoopInv
<1> QED BY <1>2, <1>7, <1>11, <1>12, <1>13, <1>15, <1>16, <1>u, <1>y DEF p

----------------------------------------------------------------------------
\* What is common to the steps: the same cache, a line that comes, a line that goes

\* The memory stays a memory.
LEMMA MemoryType ==
    ASSUME ControlInv, NEW in, Clock(in)
    PROVE  mem' \in [Places -> Line]
<1>1. CASE in.mem = None
  BY <1>1 DEF Clock, ControlInv, TypeOK
<1>2. CASE in.mem # None
  <2>1. r.state \in {"WaitResp", "WriteBus"} /\ BusAnswers(in)
    BY <1>2 DEF Clock
  <2>2. mem \in [Places -> Line] /\ r.line_o \in Line
    BY DEF ControlInv, TypeOK, L2TypeOK, Registers
  <2> QED BY <2>1, <2>2 DEF BusAnswers
<1> QED BY <1>1, <1>2

\* The type invariant of the next state, from its parts.
LEMMA TypesKept ==
    ASSUME ControlInv, NEW in, Clock(in), r' \in Registers, TagTypeOK', Port!DstTypeOK',
           newest' \in [Places -> Line], owner' \in [Places -> Slots \cup {None}]
    PROVE  TypeOK' /\ load' \in Workloads
<1>1. adr' \in Addr /\ load' = load /\ load \in Workloads
  BY DEF Clock, ControlInv
<1>2. mem' \in [Places -> Line]
  BY MemoryType
<1> QED BY <1>1, <1>2 DEF TypeOK, L2TypeOK

\* An unchanged cache has the same lines.
LEMMA RamSame ==
    ASSUME NoAlias, CachedTags, ram' = ram
    PROVE  NoAlias' /\ CachedTags'
  BY DEF NoAlias, CachedTags, Valid

(***************************************************************************)
(* While a request is served and the cache is left alone, the lookup       *)
(* shows the same way: the line to displace that was looked at in          *)
(* TranslateAddress is the one that is overwritten in CheckResp.           *)
(***************************************************************************)
LEMMA LookupKept ==
    ASSUME ControlInv, Serving, PortRests, RamKept
    PROVE  /\ NoAlias' /\ CachedTags' /\ TagTypeOK' /\ (Hit' <=> Hit)
           /\ rd'.addr = rd.addr /\ rd.addr = r.req_addr /\ ~rd'.direct /\ ~rd'.invalidate
           /\ ~Hit => HitIdx' = HitIdx
<1>1. ~rd.direct /\ rd.addr = r.req_addr /\ TagTypeOK /\ NoAlias /\ CachedTags
  BY DEF ControlInv, PortInv, TypeOK, L2TypeOK
<1>2. TagTypeOK' /\ ram' = ram /\ ~rd'.direct /\ rd'.addr = rd.addr /\ ~rd'.invalidate
  BY <1>1 DEF PortRests, RamKept
<1>3. ~Hit => lru' = lru
  BY <1>1 DEF RamKept
<1> QED BY <1>1, <1>2, <1>3, SameLookup, RamSame

\* Without a hit the cache has no line of the place that was looked up.
LEMMA MissPlaces ==
    ASSUME ControlInv, Serving, ~Hit
    PROVE  /\ \A s \in Sets, w \in Way : Valid(s, w) => Place(s, w) # At(r.req_addr)
           /\ ~Held(At(r.req_addr))
<1>1. ~rd.direct /\ rd.addr = r.req_addr /\ TagTypeOK /\ NoAlias
  BY DEF ControlInv, PortInv, TypeOK, L2TypeOK
<1>2. \A w \in Way : ~WayHit(w)
  BY <1>1, HitState
<1>3. \A w \in Way : Valid(r.req_addr.set, w) => ram[r.req_addr.set][w].tag # r.req_addr.tag
  BY <1>1, <1>2 DEF WayHit, Valid
<1>4. \A s \in Sets, w \in Way : Valid(s, w) => Place(s, w) # At(r.req_addr)
  BY <1>3 DEF Place, At
<1>5. ~Held(At(r.req_addr))
  BY <1>3 DEF Held, At
<1> QED BY <1>4, <1>5

\* While a request is served no line is being given away or swept.
LEMMA ServingPlain ==
    ASSUME ControlInv, Serving
    PROVE  /\ ~rd.invalidate /\ ~rd.direct /\ rd.addr = r.req_addr /\ ~Giving /\ ~Leaving
           /\ ~r.write_flush /\ r.state # "Idle"
  BY DEF ControlInv, PortInv, Serving, Giving, Leaving

\* The same cache, memory and contents: the lines stay as new as they were.
LEMMA SameData ==
    ASSUME LinesNewest, MemNewest, ram' = ram, mem' = mem, owner' = owner, newest' = newest,
           ~Giving, Leaving => Leaving' /\ r'.mem_addr = r.mem_addr
    PROVE  LinesNewest' /\ MemNewest'
<1>1. LinesNewest'
  BY DEF LinesNewest, Valid, Place, Given
<1>2. MemNewest'
  BY DEF MemNewest, Held, Valid
<1> QED BY <1>1, <1>2

\* what the tail of an answered or swept clock finds: no request in the cache
NoRequest ==
    /\ r'.state \in {"Idle", "FlushAddr", "FlushCheck", "Reset", "ResetWrite"}
    /\ bus' = None /\ d'.state \notin {"ReadMem", "WriteMem"}

\* Then nothing is required of the registers of a request.
LEMMA NothingServed ==
    ASSUME NoRequest
    PROVE  /\ ServeInv' /\ MemInv' /\ BusInv' /\ LookupInv'
           /\ WriteNewest' /\ VictimSaved' /\ AnswerNewest'
<1>1. ~Serving' /\ ~Asking'
  BY DEF NoRequest, Serving, Asking
<1>2. ServeInv'
  BY <1>1 DEF NoRequest, ServeInv
<1>3. MemInv'
  BY <1>1 DEF NoRequest, MemInv
<1>4. BusInv'
  BY DEF NoRequest, BusInv
<1>5. LookupInv' /\ VictimSaved' /\ AnswerNewest'
  BY <1>1 DEF LookupInv, VictimSaved, AnswerNewest
<1>6. WriteNewest'
  BY DEF NoRequest, WriteNewest
<1> QED BY <1>2, <1>3, <1>4, <1>5, <1>6

\* The same in State_Idle, where no write is marked, either.
LEMMA AtRest ==
    ASSUME NoRequest, r'.state = "Idle", ~r'.mem_valid, ~r'.write_first, ~r'.write_flush, ~r'.fault,
           r'.req_flush => r'.req_flush_all
    PROVE  /\ FlagsInv' /\ ServeInv' /\ MemInv' /\ BusInv' /\ LookupInv'
           /\ WriteNewest' /\ VictimSaved' /\ AnswerNewest' /\ ResetEmpty' /\ SweepInv'
           /\ ~rd'.invalidate => PortInv'
<1>1. FlagsInv'
  BY DEF FlagsInv
<1>2. ResetEmpty' /\ SweepInv'
  BY DEF ResetEmpty, SweepInv, Leaving
<1>3. ~Serving'
  BY DEF Serving
<1>4. ~rd'.invalidate => PortInv'
  BY <1>3 DEF PortInv, Giving
<1> QED BY <1>1, <1>2, <1>4, NothingServed

\* Outside of WaitResp and WriteBus the memory has no request to answer.
LEMMA NoBus ==
    ASSUME ControlInv, r.state \notin {"WaitResp", "WriteBus"}
    PROVE  bus = None
  BY DEF ControlInv, BusInv

----------------------------------------------------------------------------
\* The steps: a request on its way

\* registers and lookup that stay while the request goes on
StillServed ==
    /\ TypeOK' /\ load' \in Workloads /\ DstInv' /\ ServeInv' /\ PortInv' /\ NoAlias' /\ CachedTags'
    /\ ToldInv' /\ ResetEmpty' /\ SweepInv' /\ Serving'
    /\ owner' = owner /\ newest' = newest /\ d' = d /\ ram' = ram /\ rd'.addr = rd.addr
    /\ rd.addr = r.req_addr /\ r'.req_addr = r.req_addr /\ r'.req_type = r.req_type
    /\ (Hit' <=> Hit) /\ (~Hit => HitIdx' = HitIdx) /\ ~Giving /\ ~Leaving

LEMMA ServedOn ==
    ASSUME ControlInv, DataInv, NEW in, Clock(in), Serving, L2Resp(in) = None,
           r' \in Registers, PortRests, RamKept, ReqKept(r'), ~r'.write_flush,
           r'.state \in {"CheckHit", "TranslateAddress", "WaitGrant", "WaitResp", "CheckResp",
                         "SetupReadAdr", "WriteBus"},
           r'.state # "CheckHit" => ~MissIsDone, r'.write_first => IsCached
    PROVE  StillServed
<1>1. /\ NoAlias' /\ CachedTags' /\ TagTypeOK' /\ (Hit' <=> Hit) /\ rd'.addr = rd.addr
      /\ rd.addr = r.req_addr /\ ~rd'.direct /\ ~rd'.invalidate /\ (~Hit => HitIdx' = HitIdx)
  BY LookupKept
<1>2. Port!DstTypeOK' /\ DstInv' /\ owner' = owner /\ newest' = newest /\ ToldInv' /\ d' = d
  BY PortQuiet
<1>3. ram' = ram
  BY DEF RamKept
<1>4. TypeOK' /\ load' \in Workloads
  <2>1. newest' \in [Places -> Line] /\ owner' \in [Places -> Slots \cup {None}]
    BY <1>2 DEF ControlInv, TypeOK
  <2> QED BY <1>1, <1>2, <2>1, TypesKept
<1>5. Serving'
  BY DEF Serving
<1>6. r'.req_addr = r.req_addr /\ r'.req_type = r.req_type /\ r'.req_strb = r.req_strb
         /\ r'.req_wdata = r.req_wdata
  BY DEF ReqKept
<1>7. (MissIsDone' <=> MissIsDone) /\ (IsCached' <=> IsCached)
  BY <1>6 DEF MissIsDone, IsWrite, IsUnique, IsCached
<1>8. ServeInv'
  <2>1. /\ r.req_addr = d.addr /\ r.req_type = d.type /\ r.req_strb = Words
        /\ r.req_wdata = IF d.wdata = None THEN ZeroLine ELSE d.wdata
        /\ d.state \in {"ReadMem", "WriteMem"}
    BY DEF ControlInv, ServeInv
  <2> QED BY <1>2, <1>5, <1>6, <1>7, <2>1 DEF ServeInv
<1>9. PortInv'
  BY <1>1, <1>6 DEF PortInv, Giving
<1>10. ResetEmpty' /\ SweepInv'
  BY DEF ResetEmpty, SweepInv, Leaving
<1>11. ~Giving /\ ~Leaving
  BY ServingPlain
<1> QED BY <1>1, <1>2, <1>3, <1>4, <1>5, <1>6, <1>8, <1>9, <1>10, <1>11 DEF StillServed

(***************************************************************************)
(* A request on its way preserves the invariant when it finds the lines,   *)
(* the memory, the request to the memory and the line to displace in       *)
(* order.                                                                  *)
(***************************************************************************)
LEMMA StillServedInv ==
    ASSUME StillServed, FlagsInv', MemInv', BusInv', LookupInv', LinesNewest', MemNewest',
           WriteNewest', VictimSaved', AnswerNewest'
    PROVE  L2Inv'
  BY DEF StillServed, L2Inv, ControlInv, DataInv

\* CheckHit without hit: the memory will be asked.
LEMMA MissGoKeeps ==
    ASSUME L2Inv, NEW in, Clock(in), Miss(in), ~MissIsDone, ~MissIsSnooped
    PROVE  L2Inv'
<1>0. ControlInv /\ DataInv
  BY DEF L2Inv
<1>1. MissGoDone(in)
  BY <1>0, MissGoEffect
<1>2. r.state = "CheckHit" /\ ~Hit
  BY DEF Miss
<1>3. Serving /\ ~Writes /\ ~r.mem_valid /\ ~r.fault
  BY <1>0, <1>2 DEF Serving, Writes, ControlInv, FlagsInv
<1>4. StillServed
  <2>1. L2Resp(in) = None
    BY <1>2, QuietResp
  <2> QED BY <1>0, <1>1, <1>3, <2>1, ServedOn DEF MissGoDone, WritesKept, Writes
<1>5. r'.state = "TranslateAddress" /\ ~r'.mem_valid /\ ~r'.write_first /\ ~r'.write_flush /\ ~r'.fault
  BY <1>1, <1>3 DEF MissGoDone, WritesKept, LineKept, Writes
<1>6. FlagsInv'
  BY <1>0, <1>1, <1>2, <1>5 DEF MissGoDone, FlushLatched, FlagsInv, ControlInv
<1>7. bus' = None
  BY <1>0, <1>1, <1>2, NoBus DEF MissGoDone, BusWaits
<1>8. MemInv' /\ BusInv' /\ WriteNewest' /\ VictimSaved' /\ AnswerNewest'
  BY <1>5, <1>7 DEF MemInv, BusInv, WriteNewest, VictimSaved, AnswerNewest, Asking
<1>9. LookupInv'
  BY <1>2, <1>4 DEF LookupInv, StillServed
<1>10. LinesNewest' /\ MemNewest'
  <2>1. mem' = mem
    BY <1>1 DEF MissGoDone, BusWaits
  <2> QED BY <1>0, <1>4, <2>1, SameData DEF StillServed, DataInv
<1> QED BY <1>4, <1>6, <1>8, <1>9, <1>10, StillServedInv

\* TranslateAddress: the line to displace is written first if it is dirty.
LEMMA TranslateKeeps ==
    ASSUME L2Inv, NEW in, Clock(in), TranslateAddress(in)
    PROVE  L2Inv'
<1>0. ControlInv /\ DataInv
  BY DEF L2Inv
<1>1. TranslateDone(in)
  BY <1>0, TranslateEffect
<1>2. r.state = "TranslateAddress"
  BY DEF TranslateAddress
<1>3. ~r.write_first /\ ~r.write_flush
  BY <1>0, <1>2 DEF ControlInv, FlagsInv
<1>4. Serving /\ ~Hit /\ ~MissIsDone
  BY <1>0, <1>2, <1>3 DEF Serving, ControlInv, LookupInv, ServeInv
<1>5. StillServed
  <2>1. L2Resp(in) = None
    BY <1>2, QuietResp
  <2>2. r'.write_first => IsCached
    BY <1>1, <1>3 DEF TranslateDone
  <2> QED BY <1>0, <1>1, <1>3, <1>4, <2>1, <2>2, ServedOn DEF TranslateDone
<1>6. r'.state = "WaitGrant" /\ r'.mem_valid /\ ~r'.write_flush /\ ~r'.fault /\ bus' = None /\ mem' = mem
  BY <1>0, <1>1, <1>2, <1>3, NoBus DEF TranslateDone, BusWaits
<1>7. FlagsInv'
  BY <1>0, <1>1, <1>2, <1>6 DEF TranslateDone, FlushLatched, FlagsInv, ControlInv
<1>8. BusInv' /\ AnswerNewest'
  BY <1>6 DEF BusInv, AnswerNewest
<1>9. LookupInv'
  BY <1>4, <1>5 DEF LookupInv, StillServed
<1>10. LinesNewest' /\ MemNewest'
  BY <1>0, <1>5, <1>6, SameData DEF StillServed, DataInv
<1>11. (IsCached' <=> IsCached) /\ (IsWrite' <=> IsWrite) /\ ReadType' = ReadType
  BY <1>5 DEF StillServed, IsCached, IsWrite, ReadType
<1>12. /\ HitIdx \in Way /\ rd.addr.set \in Sets /\ Out = ram[rd.addr.set][HitIdx] /\ Out \in Entry
       /\ At(RAddr) = Place(rd.addr.set, HitIdx) /\ RAddr.tag = Out.tag
  BY <1>0, OutFacts DEF RAddr
<1>13. Valid(rd.addr.set, HitIdx) =>
          /\ owner[Place(rd.addr.set, HitIdx)] = None
          /\ Out.data = newest[Place(rd.addr.set, HitIdx)]
          /\ "DIRTY" \notin Out.flags => mem[Place(rd.addr.set, HitIdx)] = newest[Place(rd.addr.set, HitIdx)]
          /\ Out.tag \notin Faulty
  BY <1>0, <1>5, <1>12 DEF StillServed, DataInv, LinesNewest, Given, ControlInv, CachedTags
<1>14. Offload => Valid(rd.addr.set, HitIdx)
  BY <1>12 DEF Offload, Valid
<1>16. r'.write_first <=> IsCached /\ Offload
  BY <1>1, <1>3 DEF TranslateDone
<1>17. r'.write_first => /\ r'.mem_addr = RAddr /\ r'.mem_type = "WriteBack" /\ r'.mem_strb = Words
                         /\ r'.line_o = Out.data
  BY <1>1, <1>16 DEF TranslateDone
<1>18. At(LineAddr(r.req_addr)) = At(r.req_addr)
  BY DEF At, LineAddr
<1>19. MemInv'
  <2>1. Writes' /\ r'.state \in {"WaitGrant", "WriteBus"} =>
           r'.mem_type = "WriteBack" /\ r'.mem_addr.tag \notin Faulty /\ r'.mem_strb = Words
    BY <1>6, <1>12, <1>13, <1>14, <1>16, <1>17 DEF Writes
  <2>2. ASSUME ~r'.write_first, IsCached
        PROVE  r'.mem_addr = LineAddr(r.req_addr) /\ r'.mem_strb = Words /\ r'.mem_type = ReadType
    BY <1>1, <1>16, <2>2 DEF TranslateDone
  <2>3. ASSUME ~IsCached
        PROVE  /\ r'.mem_addr = r.req_addr /\ r'.mem_strb = Words
               /\ r'.mem_type = IF IsWrite THEN "WriteNoSnoop" ELSE "ReadNoSnoop"
               /\ IsWrite => r'.line_o = r.req_wdata
    <3>1. r.req_strb = Words /\ (IsWrite => \A w \in Words \ {0} : r.req_wdata[w] = 0)
             /\ r.req_wdata \in [Words -> Values]
      BY <1>0, <1>4, <2>3, ServeFacts, OwnerFacts DEF Line
    <3>2. IsWrite => r.req_wdata = [w \in Words |-> IF w = 0 THEN r.req_wdata[0] ELSE 0]
      BY <3>1
    <3> QED BY <1>1, <2>3, <3>1, <3>2 DEF TranslateDone
  <2>4. Asking' => ~r'.write_first
    BY DEF Asking
  <2>5. r'.req_wdata = r.req_wdata
    BY <1>1 DEF TranslateDone, ReqKept
  <2> QED BY <1>5, <1>6, <1>11, <1>18, <2>1, <2>2, <2>3, <2>4, <2>5 DEF MemInv, StillServed
<1>20. WriteNewest'
  <2>1. Writes' => r'.write_first
    BY <1>6 DEF Writes
  <2> QED BY <1>5, <1>12, <1>13, <1>14, <1>16, <1>17, <2>1 DEF WriteNewest, StillServed
<1>21. VictimSaved'
  <2>1. Valid(rd.addr.set, HitIdx)' <=> Valid(rd.addr.set, HitIdx)
    BY <1>4, <1>5 DEF Valid, StillServed
  <2>2. Place(rd.addr.set, HitIdx)' = Place(rd.addr.set, HitIdx)
    BY <1>4, <1>5 DEF Place, StillServed
  <2>3. Valid(rd.addr.set, HitIdx) /\ ~Offload => "DIRTY" \notin Out.flags
    BY <1>12 DEF Valid, Offload
  <2>4. ASSUME Valid(rd.addr.set, HitIdx), IsCached
        PROVE  IF r'.write_first THEN Place(rd.addr.set, HitIdx) = At(r'.mem_addr)
               ELSE mem[Place(rd.addr.set, HitIdx)] = newest[Place(rd.addr.set, HitIdx)]
    BY <1>12, <1>13, <1>16, <1>17, <2>3, <2>4
  <2> QED BY <1>5, <1>6, <1>11, <2>1, <2>2, <2>4 DEF VictimSaved, StillServed
<1> QED BY <1>5, <1>7, <1>8, <1>9, <1>10, <1>19, <1>20, <1>21, StillServedInv

\* While the memory is asked and answers, what was found out before stays true.
LEMMA Passing ==
    ASSUME ControlInv, DataInv, StillServed, MemKept(r'), WritesKept(r'), mem' = mem, Serving,
           r.state \in {"WaitGrant", "WaitResp", "WriteBus"}
    PROVE  LookupInv' /\ LinesNewest' /\ MemNewest' /\ WriteNewest' /\ VictimSaved'
<1>1. ~Hit
  BY DEF ControlInv, LookupInv
<1>2. LookupInv'
  BY <1>1 DEF LookupInv, StillServed
<1>3. LinesNewest' /\ MemNewest'
  BY SameData DEF StillServed, DataInv
<1>4. /\ r'.mem_addr = r.mem_addr /\ r'.line_o = r.line_o
      /\ r'.write_first = r.write_first /\ r'.write_flush = r.write_flush
  BY DEF MemKept, WritesKept
<1>5. Writes => r.state \in {"WaitGrant", "WriteBus"}
  BY DEF ControlInv, FlagsInv, Serving, Writes
<1>6. WriteNewest'
  BY <1>4, <1>5 DEF StillServed, WriteNewest, Writes, DataInv
<1>7. VictimSaved'
  <2>1. Valid(rd.addr.set, HitIdx)' <=> Valid(rd.addr.set, HitIdx)
    BY <1>1 DEF Valid, StillServed
  <2>2. Place(rd.addr.set, HitIdx)' = Place(rd.addr.set, HitIdx)
    BY <1>1 DEF Place, StillServed
  <2>3. IsCached' <=> IsCached
    BY DEF IsCached, StillServed
  <2> QED BY <1>4, <2>1, <2>2, <2>3 DEF VictimSaved, StillServed, DataInv
<1> QED BY <1>2, <1>3, <1>6, <1>7

\* WaitGrant while a request is served.
LEMMA WaitGrantKeeps ==
    ASSUME L2Inv, NEW in, Clock(in), WaitGrant(in), Serving
    PROVE  L2Inv'
<1>0. ControlInv /\ DataInv
  BY DEF L2Inv
<1>1. WaitGrantDone(in)
  BY <1>0, WaitGrantEffect
<1>2. r.state = "WaitGrant"
  BY DEF WaitGrant
<1>3. r.mem_valid /\ ~r.write_flush /\ ~r.fault /\ ~MissIsDone /\ (r.write_first => IsCached)
  BY <1>0, <1>2 DEF Serving, ControlInv, FlagsInv, ServeInv
<1>4. r'.state \in {"WaitGrant", "WriteBus", "WaitResp"}
  BY <1>1 DEF WaitGrantDone
<1>5. /\ MemKept(r') /\ WritesKept(r') /\ FlushLatched(in, r') /\ ReqKept(r') /\ LineKept(r')
      /\ r' \in Registers /\ PortRests /\ RamKept /\ mem' = mem
  BY <1>1 DEF WaitGrantDone, OnTheWay
<1>6. StillServed
  <2>1. L2Resp(in) = None
    BY <1>2, QuietResp
  <2>2. ~r'.write_flush /\ (r'.write_first => IsCached)
    BY <1>3, <1>5 DEF WritesKept
  <2> QED BY <1>0, <1>3, <1>4, <1>5, <2>1, <2>2, ServedOn
<1>7. LookupInv' /\ LinesNewest' /\ MemNewest' /\ WriteNewest' /\ VictimSaved'
  BY <1>0, <1>2, <1>5, <1>6, Passing
<1>8. /\ r'.mem_addr = r.mem_addr /\ r'.line_o = r.line_o /\ r'.mem_type = r.mem_type
      /\ r'.mem_strb = r.mem_strb /\ r'.req_wdata = r.req_wdata /\ r'.fault = r.fault
      /\ r'.write_first = r.write_first /\ r'.write_flush = r.write_flush
      /\ r'.req_addr = r.req_addr /\ r'.req_type = r.req_type
  BY <1>5 DEF MemKept, WritesKept, ReqKept, LineKept
<1>9. \/ in.mem_ready /\ ~r'.mem_valid /\ r'.state = "WriteBus"
           /\ (r.write_first \/ (IsWrite /\ ~IsCached))
      \/ in.mem_ready /\ ~r'.mem_valid /\ r'.state = "WaitResp"
           /\ ~r.write_first /\ ~(IsWrite /\ ~IsCached)
      \/ ~in.mem_ready /\ r'.mem_valid /\ r'.state = "WaitGrant"
  BY <1>1, <1>3 DEF WaitGrantDone
<1>10. FlagsInv'
  <2>1. r'.write_first => r'.state \in {"WaitGrant", "WriteBus"} /\ ~r'.write_flush
    BY <1>3, <1>8, <1>9
  <2> QED BY <1>0, <1>2, <1>3, <1>5, <1>8, <1>9, <2>1 DEF FlagsInv, ControlInv, FlushLatched
<1>11. BusInv'
  <2>1. CASE in.mem_ready
    BY <1>1, <1>8, <1>9, <2>1 DEF WaitGrantDone, BusInv
  <2>2. CASE ~in.mem_ready
    BY <1>0, <1>1, <1>2, <2>2, NoBus DEF WaitGrantDone, BusInv
  <2> QED BY <2>1, <2>2
<1>12. (IsCached' <=> IsCached) /\ (IsWrite' <=> IsWrite) /\ ReadType' = ReadType
          /\ At(r'.mem_addr) = At(r.mem_addr) /\ At(r'.req_addr) = At(r.req_addr)
  BY <1>8 DEF IsCached, IsWrite, ReadType
<1>13. MemInv'
  <2>1. Writes' <=> Writes
    BY <1>8 DEF Writes
  <2>2. Asking' => Asking
    BY <1>2, <1>8, <1>9 DEF Asking, Serving
  <2>3. Asking' => ~r'.write_first
    BY DEF Asking
  <2> QED BY <1>0, <1>2, <1>8, <1>9, <1>12, <2>1, <2>2, <2>3 DEF MemInv, ControlInv
<1>14. AnswerNewest'
  BY <1>4 DEF AnswerNewest
<1> QED BY <1>6, <1>7, <1>10, <1>11, <1>13, <1>14, StillServedInv

\* WaitResp: the contents that come are the newest, since no cache has the line.
LEMMA WaitRespKeeps ==
    ASSUME L2Inv, NEW in, Clock(in), WaitResp(in)
    PROVE  L2Inv'
<1>0. ControlInv /\ DataInv
  BY DEF L2Inv
<1>1. WaitRespDone(in)
  BY <1>0, WaitRespEffect
<1>2. r.state = "WaitResp"
  BY DEF WaitResp
<1>3. ~r.mem_valid /\ ~r.write_flush /\ ~r.write_first /\ ~r.fault
  BY <1>0, <1>2 DEF ControlInv, FlagsInv
<1>4. Serving /\ ~MissIsDone /\ Asking
  BY <1>0, <1>2, <1>3 DEF Serving, ControlInv, ServeInv, Asking
<1>5. /\ MemKept(r') /\ WritesKept(r') /\ FlushLatched(in, r') /\ ReqKept(r') /\ mem' = mem
      /\ r' \in Registers /\ PortRests /\ RamKept /\ r'.state \in {"WaitResp", "CheckResp"}
  BY <1>1 DEF WaitRespDone, OnTheWay
<1>6. StillServed
  <2>1. L2Resp(in) = None
    BY <1>2, QuietResp
  <2>2. ~r'.write_flush /\ (r'.write_first => IsCached)
    BY <1>3, <1>5 DEF WritesKept
  <2> QED BY <1>0, <1>4, <1>5, <2>1, <2>2, ServedOn
<1>7. LookupInv' /\ LinesNewest' /\ MemNewest' /\ WriteNewest' /\ VictimSaved'
  BY <1>0, <1>2, <1>4, <1>5, <1>6, Passing
<1>8. /\ r'.mem_addr = r.mem_addr /\ r'.line_o = r.line_o /\ r'.mem_type = r.mem_type
      /\ r'.mem_strb = r.mem_strb /\ r'.req_wdata = r.req_wdata
      /\ ~r'.write_first /\ ~r'.write_flush
      /\ r'.req_addr = r.req_addr /\ r'.req_type = r.req_type
  BY <1>3, <1>5 DEF MemKept, WritesKept, ReqKept
<1>9. r'.state = "WaitResp" => in.mem = None /\ ~r'.fault /\ bus' = bus
  BY <1>1, <1>3 DEF WaitRespDone, LineKept
<1>10. r'.state = "CheckResp" =>
          /\ (r'.fault <=> r.mem_addr.tag \in Faulty) /\ bus' = None
          /\ r'.line_i = mem[At(r.mem_addr)]
  BY <1>1 DEF WaitRespDone
<1>11. FlagsInv'
  <2>1. ~r'.mem_valid
    BY <1>1, <1>3 DEF WaitRespDone
  <2> QED BY <1>0, <1>2, <1>5, <1>8, <1>9, <2>1 DEF FlagsInv, ControlInv, FlushLatched
<1>12. BusInv'
  BY <1>0, <1>5, <1>8, <1>9, <1>10 DEF BusInv, ControlInv
<1>13. (IsCached' <=> IsCached) /\ (IsWrite' <=> IsWrite) /\ ReadType' = ReadType
          /\ At(r'.mem_addr) = At(r.mem_addr) /\ At(r'.req_addr) = At(r.req_addr)
  BY <1>8 DEF IsCached, IsWrite, ReadType
<1>14. /\ At(r.mem_addr) = At(r.req_addr) /\ r.mem_addr.tag = r.req_addr.tag
       /\ r.mem_strb = Words /\ ~(IsWrite /\ ~IsCached)
       /\ r.mem_type = IF IsCached THEN ReadType ELSE "ReadNoSnoop"
  <2>1. At(r.mem_addr) = At(r.req_addr)
    BY <1>0, <1>4 DEF ControlInv, MemInv
  <2> QED BY <1>0, <1>2, <1>4, <2>1 DEF ControlInv, MemInv, At
<1>15. MemInv'
  BY <1>5, <1>8, <1>10, <1>13, <1>14 DEF MemInv, Writes
<1>16. AnswerNewest'
  <2>1. SUFFICES ASSUME r'.state = "CheckResp", ~IsWrite
                 PROVE  r'.line_i = newest[At(r.req_addr)]
    BY <1>6, <1>13 DEF AnswerNewest, StillServed
  <2>2. owner[At(r.req_addr)] = None /\ At(r.req_addr) \in Places
    BY <1>0, <1>4, <2>1, ServeFacts, OwnerFacts
  <2>3. ~Held(At(r.req_addr))
    <3>1. ~Hit
      BY <1>0, <1>2, <1>4 DEF ControlInv, LookupInv
    <3> QED BY <1>0, <1>4, <3>1, MissPlaces
  <2>4. ~Leaving
    BY <1>6 DEF StillServed
  <2> QED BY <1>0, <1>10, <1>14, <2>1, <2>2, <2>3, <2>4 DEF DataInv, MemNewest
<1> QED BY <1>6, <1>7, <1>11, <1>12, <1>15, <1>16, StillServedInv

\* SetupReadAdr: the line that was filled is looked up again.
LEMMA SetupReadAdrKeeps ==
    ASSUME L2Inv, NEW in, Clock(in), SetupReadAdr(in)
    PROVE  L2Inv'
<1>0. ControlInv /\ DataInv
  BY DEF L2Inv
<1>1. SetupReadAdrDone(in)
  BY <1>0, SetupReadAdrEffect
<1>2. r.state = "SetupReadAdr"
  BY DEF SetupReadAdr
<1>3. ~r.mem_valid /\ ~r.write_flush /\ ~r.write_first /\ ~r.fault
  BY <1>0, <1>2 DEF ControlInv, FlagsInv
<1>4. Serving
  BY <1>2, <1>3 DEF Serving
<1>5. /\ r' \in Registers /\ PortRests /\ RamKept /\ FlushLatched(in, r') /\ ReqKept(r')
      /\ r'.state = "CheckHit" /\ ~r'.mem_valid /\ ~r'.write_first /\ ~r'.write_flush /\ ~r'.fault
      /\ mem' = mem /\ bus' = bus
  BY <1>1, <1>3 DEF SetupReadAdrDone, OnTheWay, WritesKept, LineKept, BusWaits
<1>6. StillServed
  <2>1. L2Resp(in) = None
    BY <1>2, QuietResp
  <2> QED BY <1>0, <1>4, <1>5, <2>1, ServedOn
<1>7. FlagsInv'
  BY <1>0, <1>2, <1>5 DEF FlagsInv, ControlInv, FlushLatched
<1>8. bus' = None
  BY <1>0, <1>2, <1>5, NoBus
<1>9. MemInv' /\ BusInv' /\ WriteNewest' /\ VictimSaved' /\ AnswerNewest' /\ LookupInv'
  BY <1>5, <1>8 DEF MemInv, BusInv, WriteNewest, VictimSaved, AnswerNewest, Asking, LookupInv
<1>10. LinesNewest' /\ MemNewest'
  BY <1>0, <1>5, <1>6, SameData DEF StillServed, DataInv
<1> QED BY <1>6, <1>7, <1>9, <1>10, StillServedInv

(***************************************************************************)
(* The memory takes a line that was written back: it holds the newest      *)
(* contents of that line, and nothing else changes.                        *)
(***************************************************************************)
LEMMA LineStored ==
    ASSUME DataInv, ControlInv, NEW p \in Places, ram' = ram, owner' = owner, newest' = newest, ~Giving,
           mem' = [mem EXCEPT ![p] = newest[p]], Leaving => p = At(r.mem_addr)
    PROVE  LinesNewest' /\ MemNewest'
<1>1. mem \in [Places -> Line]
  BY DEF ControlInv, TypeOK
<1>2. mem'[p] = newest[p] /\ \A q \in Places : mem[q] = newest[q] => mem'[q] = newest[q]
  BY <1>1
<1>3. \A s \in Sets, w \in Way : Place(s, w) \in Places
  BY DEF ControlInv, TypeOK, L2TypeOK, TagTypeOK, Entry, Place, Places
<1>4. LinesNewest'
  BY <1>2, <1>3 DEF DataInv, LinesNewest, Valid, Place, Given
<1>5. MemNewest'
  BY <1>2 DEF DataInv, MemNewest, Held, Valid
<1> QED BY <1>4, <1>5

\* WriteBus while the memory has not answered.
LEMMA WriteBusWaits ==
    ASSUME L2Inv, NEW in, Clock(in), WriteBus(in), Serving, in.mem = None
    PROVE  L2Inv'
<1>0. ControlInv /\ DataInv
  BY DEF L2Inv
<1>1. WriteBusDone(in)
  BY <1>0, WriteBusEffect
<1>2. r.state = "WriteBus"
  BY DEF WriteBus
<1>3. ~r.mem_valid /\ ~r.write_flush /\ ~r.fault /\ ~MissIsDone /\ (r.write_first => IsCached)
  BY <1>0, <1>2 DEF Serving, ControlInv, FlagsInv, ServeInv
<1>4. /\ MemKept(r') /\ WritesKept(r') /\ FlushLatched(in, r') /\ ReqKept(r')
      /\ r' \in Registers /\ PortRests /\ RamKept /\ mem' = mem /\ bus' = bus
      /\ r'.state = "WriteBus" /\ ~r'.mem_valid /\ ~r'.fault
  BY <1>1 DEF WriteBusDone, OnTheWay, BusWaits
<1>5. /\ r'.mem_addr = r.mem_addr /\ r'.line_o = r.line_o /\ r'.mem_type = r.mem_type
      /\ r'.mem_strb = r.mem_strb /\ r'.req_wdata = r.req_wdata
      /\ r'.write_first = r.write_first /\ r'.write_flush = r.write_flush
      /\ r'.req_addr = r.req_addr /\ r'.req_type = r.req_type
  BY <1>4 DEF MemKept, WritesKept, ReqKept
<1>6. StillServed
  <2>1. L2Resp(in) = None
    BY <1>2, QuietResp
  <2>2. ~r'.write_flush /\ (r'.write_first => IsCached)
    BY <1>3, <1>5
  <2> QED BY <1>0, <1>3, <1>4, <2>1, <2>2, ServedOn
<1>7. LookupInv' /\ LinesNewest' /\ MemNewest' /\ WriteNewest' /\ VictimSaved'
  BY <1>0, <1>2, <1>4, <1>6, Passing
<1>8. FlagsInv'
  BY <1>0, <1>2, <1>3, <1>4, <1>5 DEF FlagsInv, ControlInv, FlushLatched
<1>9. BusInv'
  BY <1>0, <1>2, <1>4, <1>5 DEF BusInv, ControlInv
<1>10. (IsCached' <=> IsCached) /\ (IsWrite' <=> IsWrite) /\ ReadType' = ReadType
          /\ At(r'.mem_addr) = At(r.mem_addr) /\ At(r'.req_addr) = At(r.req_addr)
          /\ (Writes' <=> Writes) /\ (Asking' <=> Asking)
  BY <1>2, <1>4, <1>5 DEF IsCached, IsWrite, ReadType, Writes, Asking, Serving
<1>11. MemInv'
  BY <1>0, <1>2, <1>4, <1>5, <1>10 DEF MemInv, ControlInv
<1>12. AnswerNewest'
  BY <1>4 DEF AnswerNewest
<1> QED BY <1>6, <1>7, <1>8, <1>9, <1>11, <1>12, StillServedInv

\* WriteBus: the displaced line is in the memory, now the line is asked for.
LEMMA VictimWritten ==
    ASSUME L2Inv, NEW in, Clock(in), WriteBus(in), Serving, in.mem # None, r.write_first
    PROVE  L2Inv'
<1>0. ControlInv /\ DataInv
  BY DEF L2Inv
<1>1. WriteBusDone(in)
  BY <1>0, WriteBusEffect
<1>2. r.state = "WriteBus"
  BY DEF WriteBus
<1>3. ~r.mem_valid /\ ~r.write_flush /\ ~r.fault /\ ~MissIsDone /\ Writes
  BY <1>0, <1>2 DEF Serving, ControlInv, FlagsInv, ServeInv, Writes
<1>4. /\ r' \in Registers /\ PortRests /\ RamKept /\ ReqKept(r') /\ FlushLatched(in, r')
      /\ bus' = None /\ ~r'.write_first /\ ~r'.write_flush /\ ~r'.fault
      /\ r'.state = "WaitGrant" /\ r'.mem_valid
      /\ r'.mem_addr = LineAddr(r.req_addr) /\ r'.mem_type = ReadType
      /\ r'.mem_strb = r.mem_strb /\ r'.line_o = r.line_o
  BY <1>1, <1>3 DEF WriteBusDone
<1>5. r'.req_addr = r.req_addr /\ r'.req_type = r.req_type
  BY <1>4 DEF ReqKept
<1>6. StillServed
  <2>1. L2Resp(in) = None
    BY <1>2, <1>3, QuietResp
  <2> QED BY <1>0, <1>3, <1>4, <2>1, ServedOn
<1>7. At(r.mem_addr) \in Places
  BY <1>0, PlaceOf DEF ControlInv, TypeOK, L2TypeOK, Registers
<1>8. /\ r.mem_addr.tag \notin Faulty /\ r.mem_strb = Words
      /\ r.line_o = newest[At(r.mem_addr)]
  BY <1>0, <1>2, <1>3 DEF ControlInv, MemInv, DataInv, WriteNewest
<1>9. mem' = [mem EXCEPT ![At(r.mem_addr)] = newest[At(r.mem_addr)]]
  BY <1>1, <1>8 DEF WriteBusDone
<1>10. LinesNewest' /\ MemNewest'
  BY <1>0, <1>6, <1>7, <1>9, LineStored DEF StillServed
<1>11. FlagsInv'
  BY <1>0, <1>2, <1>4 DEF FlagsInv, ControlInv, FlushLatched
<1>12. BusInv' /\ AnswerNewest' /\ WriteNewest'
  BY <1>4 DEF BusInv, AnswerNewest, WriteNewest, Writes
<1>13. (IsCached' <=> IsCached) /\ (IsWrite' <=> IsWrite) /\ ReadType' = ReadType
          /\ At(r'.mem_addr) = At(r.req_addr) /\ At(r'.req_addr) = At(r.req_addr)
  BY <1>4, <1>5 DEF IsCached, IsWrite, ReadType, At, LineAddr
<1>14. IsCached
  BY <1>0 DEF ControlInv, ServeInv
<1>15. MemInv'
  BY <1>4, <1>8, <1>13, <1>14 DEF MemInv, Writes
<1>16. ~Hit
  BY <1>0, <1>2 DEF ControlInv, LookupInv
<1>17. LookupInv'
  BY <1>6, <1>16 DEF LookupInv, StillServed
<1>18. VictimSaved'
  <2>1. Valid(rd.addr.set, HitIdx)' <=> Valid(rd.addr.set, HitIdx)
    BY <1>6, <1>16 DEF Valid, StillServed
  <2>2. Place(rd.addr.set, HitIdx)' = Place(rd.addr.set, HitIdx)
    BY <1>6, <1>16 DEF Place, StillServed
  <2>3. Valid(rd.addr.set, HitIdx) => Place(rd.addr.set, HitIdx) = At(r.mem_addr)
    BY <1>0, <1>2, <1>14 DEF DataInv, VictimSaved
  <2>4. mem \in [Places -> Line]
    BY <1>0 DEF ControlInv, TypeOK
  <2>5. Valid(rd.addr.set, HitIdx) => mem'[Place(rd.addr.set, HitIdx)] = newest[Place(rd.addr.set, HitIdx)]
    BY <1>7, <1>9, <2>3, <2>4
  <2> QED BY <1>4, <1>6, <2>1, <2>2, <2>5 DEF VictimSaved, StillServed
<1> QED BY <1>6, <1>10, <1>11, <1>12, <1>15, <1>17, <1>18, StillServedInv

----------------------------------------------------------------------------
\* The steps: a request that is answered

\* what holds once it is answered, wherever the line is then
AnswerDone ==
    /\ TypeOK' /\ load' \in Workloads /\ DstInv' /\ ToldInv'
    /\ FlagsInv' /\ ServeInv' /\ MemInv' /\ BusInv' /\ LookupInv'
    /\ WriteNewest' /\ VictimSaved' /\ AnswerNewest' /\ ResetEmpty' /\ SweepInv'
    /\ ~rd'.invalidate => PortInv'

LEMMA AnswerKeeps ==
    ASSUME ControlInv, NEW in, Clock(in), NEW resp \in [data : Line, fault : BOOLEAN], L2Resp(in) = resp,
           resp.fault <=> r.req_addr.tag \in Faulty,
           ~IsWrite /\ ~resp.fault => resp.data = newest[At(r.req_addr)],
           Rests(in), TagTypeOK', bus' = None, ~r.mem_valid, ~r.write_first, ~r.write_flush,
           r.state # "Reset"
    PROVE  AnswerDone
<1>1. /\ Port!DstTypeOK' /\ DstInv' /\ ToldInv' /\ d'.state = "Idle"
      /\ newest' \in [Places -> Line] /\ owner' \in [Places -> Slots \cup {None}]
  BY PortServed
<1>2. /\ r' \in Registers /\ r'.state = "Idle" /\ ~r'.fault /\ ~r'.mem_valid
      /\ ~r'.write_first /\ ~r'.write_flush /\ FlushLatched(in, r')
  BY DEF Rests, WritesKept
<1>3. TypeOK' /\ load' \in Workloads
  BY <1>1, <1>2, TypesKept
<1>4. r'.req_flush => r'.req_flush_all
  BY <1>2 DEF FlushLatched, ControlInv, FlagsInv
<1>5. NoRequest
  BY <1>1, <1>2 DEF NoRequest
<1>6. /\ FlagsInv' /\ ServeInv' /\ MemInv' /\ BusInv' /\ LookupInv'
      /\ WriteNewest' /\ VictimSaved' /\ AnswerNewest' /\ ResetEmpty' /\ SweepInv'
      /\ ~rd'.invalidate => PortInv'
  BY <1>2, <1>4, <1>5, AtRest
<1> QED BY <1>1, <1>3, <1>6 DEF AnswerDone

\* An answer preserves the invariant when it leaves the lines in order.
LEMMA AnswerInv ==
    ASSUME AnswerDone, PortInv', NoAlias', CachedTags', LinesNewest', MemNewest'
    PROVE  L2Inv'
  BY DEF AnswerDone, L2Inv, ControlInv, DataInv

(***************************************************************************)
(* The request was for a line the cache does not have: the lines of the    *)
(* cache are as new as before, and the memory has the newest contents      *)
(* unless an L1 cache owns the line now.                                   *)
(***************************************************************************)
LEMMA PlaceAnswered ==
    ASSUME ControlInv, DataInv, Serving, ~Hit, ram' = ram,
           \A q \in Places : q # At(r.req_addr) =>
              owner'[q] = owner[q] /\ newest'[q] = newest[q] /\ mem'[q] = mem[q],
           owner'[At(r.req_addr)] = None => mem'[At(r.req_addr)] = newest'[At(r.req_addr)]
    PROVE  LinesNewest' /\ MemNewest'
<1>1. \A s \in Sets, w \in Way : Valid(s, w) => Place(s, w) # At(r.req_addr)
  BY MissPlaces
<1>2. ~Giving /\ ~Leaving
  BY ServingPlain
<1>3. \A s \in Sets, w \in Way : Place(s, w) \in Places
  BY DEF ControlInv, TypeOK, L2TypeOK, TagTypeOK, Entry, Place, Places
<1>4. LinesNewest'
  BY <1>1, <1>2, <1>3 DEF DataInv, LinesNewest, Valid, Place, Given
<1>5. MemNewest'
  BY <1>2 DEF DataInv, MemNewest, Held, Valid
<1> QED BY <1>4, <1>5

\* Owners are slots, and no slot is None.
LEMMA SlotFacts == \A i \in Slots : i # None
  BY L2Assumption

\* CheckHit without hit: a line is claimed, or taken over from its owner.
LEMMA MissDoneKeeps ==
    ASSUME L2Inv, NEW in, Clock(in), Miss(in), MissIsDone
    PROVE  L2Inv'
<1>0. ControlInv /\ DataInv
  BY DEF L2Inv
<1>1. /\ Rests(in) /\ PortRests /\ RamKept /\ BusWaits
      /\ L2Resp(in) = [data |-> ZeroLine, fault |-> FALSE]
  BY <1>0, MissDoneEffect
<1>2. r.state = "CheckHit" /\ ~Hit /\ IsWrite /\ IsUnique
  BY DEF Miss, MissIsDone
<1>3. Serving /\ ~r.mem_valid /\ ~r.write_first /\ ~r.write_flush
  BY <1>0, <1>2 DEF Serving, ControlInv, FlagsInv
<1>4. r.req_addr.tag \notin Faulty /\ d.srcid \in Slots /\ At(r.req_addr) \in Places
  BY <1>0, <1>2, <1>3, ServeFacts, OwnerFacts
<1> DEFINE resp == [data |-> ZeroLine, fault |-> FALSE]
<1>5. /\ resp \in [data : Line, fault : BOOLEAN] /\ L2Resp(in) = resp
      /\ (resp.fault <=> r.req_addr.tag \in Faulty)
      /\ (~IsWrite /\ ~resp.fault => resp.data = newest[At(r.req_addr)]) /\ ~resp.fault
  BY <1>1, <1>2, <1>4, Zeros
<1> HIDE DEF resp
<1>6. bus' = None /\ mem' = mem
  BY <1>0, <1>1, <1>2, NoBus DEF BusWaits
<1>7. ram' = ram /\ TagTypeOK' /\ ~rd'.invalidate
  BY <1>1 DEF PortRests, RamKept
<1>8. AnswerDone
  BY <1>0, <1>1, <1>2, <1>3, <1>5, <1>6, <1>7, AnswerKeeps
<1>9. /\ \A p \in Places : p # At(r.req_addr) => owner'[p] = owner[p] /\ newest'[p] = newest[p]
      /\ owner'[At(r.req_addr)] = d.srcid
  BY <1>0, <1>2, <1>5, PortServed
<1>10. LinesNewest' /\ MemNewest'
  BY <1>0, <1>2, <1>3, <1>4, <1>6, <1>7, <1>9, PlaceAnswered, SlotFacts
<1>11. NoAlias' /\ CachedTags' /\ PortInv'
  BY <1>0, <1>7, <1>8, RamSame DEF ControlInv, AnswerDone
<1> QED BY <1>8, <1>10, <1>11, AnswerInv

\* CheckResp with a fault, or of an uncached read.
LEMMA DirectKeeps ==
    ASSUME L2Inv, NEW in, Clock(in), CheckResp(in), Direct
    PROVE  L2Inv'
<1>0. ControlInv /\ DataInv
  BY DEF L2Inv
<1>1. /\ Rests(in) /\ PortRests /\ RamKept /\ BusWaits
      /\ L2Resp(in) = [data |-> r.line_i, fault |-> r.fault]
  BY <1>0, DirectEffect
<1>2. r.state = "CheckResp"
  BY DEF CheckResp
<1>3. Serving /\ ~r.mem_valid /\ ~r.write_first /\ ~r.write_flush /\ ~Hit /\ Asking
  BY <1>0, <1>2 DEF Serving, ControlInv, FlagsInv, LookupInv, Asking
<1>4. /\ (r.fault <=> r.req_addr.tag \in Faulty) /\ ~(IsWrite /\ ~IsCached)
      /\ (~r.fault => ~IsCached) /\ (~IsWrite => r.line_i = newest[At(r.req_addr)])
  <2>1. r.mem_type = IF IsCached THEN ReadType ELSE IF IsWrite THEN "WriteNoSnoop" ELSE "ReadNoSnoop"
    BY <1>0, <1>2, <1>3 DEF ControlInv, MemInv
  <2>2. ~r.fault => ~IsCached
    BY <2>1 DEF Direct, CachedType, ReadType
  <2> QED BY <1>0, <1>2, <1>3, <2>2 DEF ControlInv, MemInv, DataInv, AnswerNewest
<1> DEFINE resp == [data |-> r.line_i, fault |-> r.fault]
<1>5. /\ resp \in [data : Line, fault : BOOLEAN] /\ L2Resp(in) = resp
      /\ (resp.fault <=> r.fault) /\ (~IsWrite /\ ~resp.fault => resp.data = newest[At(r.req_addr)])
  <2>1. r.line_i \in Line /\ r.fault \in BOOLEAN
    BY <1>0 DEF ControlInv, TypeOK, L2TypeOK, Registers
  <2> QED BY <1>1, <1>4, <2>1
<1> HIDE DEF resp
<1>6. bus' = None /\ mem' = mem
  BY <1>0, <1>1, <1>2, NoBus DEF BusWaits
<1>7. ram' = ram /\ TagTypeOK' /\ ~rd'.invalidate
  BY <1>1 DEF PortRests, RamKept
<1>8. AnswerDone
  BY <1>0, <1>1, <1>2, <1>3, <1>4, <1>5, <1>6, <1>7, AnswerKeeps
<1>9. /\ \A p \in Places : p # At(r.req_addr) => owner'[p] = owner[p] /\ newest'[p] = newest[p]
      /\ resp.fault => owner' = owner /\ newest' = newest
      /\ ~resp.fault /\ ~IsUnique /\ d.state = "ReadMem" => newest' = newest
  BY <1>0, <1>4, <1>5, PortServed
<1>10. LinesNewest' /\ MemNewest'
  <2>1. CASE resp.fault
    <3>1. ~Giving /\ ~Leaving
      BY <1>0, <1>3, ServingPlain
    <3> QED BY <1>0, <1>6, <1>7, <1>9, <2>1, <3>1, SameData DEF DataInv
  <2>2. CASE ~resp.fault
    <3>1. ~IsCached /\ ~IsWrite /\ ~IsUnique /\ d.state = "ReadMem"
      BY <1>0, <1>3, <1>4, <1>5, <2>2, ServeFacts
    <3>2. newest' = newest
      BY <1>9, <2>2, <3>1
    <3>3. owner[At(r.req_addr)] = None /\ At(r.req_addr) \in Places
      BY <1>0, <1>3, <3>1, OwnerFacts, ServeFacts
    <3>4. mem[At(r.req_addr)] = newest[At(r.req_addr)]
      <4>1. ~Leaving /\ ~Held(At(r.req_addr))
        BY <1>0, <1>3, ServingPlain, MissPlaces
      <4> QED BY <1>0, <3>3, <4>1 DEF DataInv, MemNewest
    <3> QED BY <1>0, <1>3, <1>6, <1>7, <1>9, <3>2, <3>4, PlaceAnswered
  <2> QED BY <2>1, <2>2
<1>11. NoAlias' /\ CachedTags' /\ PortInv'
  BY <1>0, <1>7, <1>8, RamSame DEF ControlInv, AnswerDone
<1> QED BY <1>8, <1>10, <1>11, AnswerInv

\* WriteBus: the memory has taken an uncached word, or refused it.
LEMMA WordWritten ==
    ASSUME L2Inv, NEW in, Clock(in), WriteBus(in), Serving, in.mem # None, ~r.write_first
    PROVE  L2Inv'
<1>0. ControlInv /\ DataInv
  BY DEF L2Inv
<1>1. WriteBusDone(in)
  BY <1>0, WriteBusEffect
<1>2. r.state = "WriteBus"
  BY DEF WriteBus
<1>3. ~r.mem_valid /\ ~r.write_flush /\ ~Hit /\ Asking
  BY <1>0, <1>2 DEF Serving, ControlInv, FlagsInv, LookupInv, Asking
<1>4. /\ IsWrite /\ ~IsCached /\ At(r.mem_addr) = At(r.req_addr) /\ r.line_o = r.req_wdata
      /\ r.mem_addr.tag = r.req_addr.tag
  <2>1. At(r.mem_addr) = At(r.req_addr)
    BY <1>0, <1>3 DEF ControlInv, MemInv
  <2> QED BY <1>0, <1>2, <1>3, <2>1 DEF ControlInv, MemInv, At
<1>5. /\ At(r.req_addr) \in Places /\ d.state = "WriteMem" /\ ~IsUnique /\ r.req_wdata \in Line
      /\ owner[At(r.req_addr)] = None
  <2>1. "SNOOP" \notin r.req_type
    BY <1>0, <1>3, <1>4, ServeFacts
  <2> QED BY <1>0, <1>3, <1>4, <2>1, ServeFacts, OwnerFacts
<1> DEFINE resp == [data |-> ZeroLine, fault |-> in.mem.fault]
<1>6. /\ resp \in [data : Line, fault : BOOLEAN] /\ L2Resp(in) = resp
      /\ (resp.fault <=> r.req_addr.tag \in Faulty)
  <2>1. BusAnswers(in) /\ in.mem = Answer
    BY DEF Clock, Inputs
  <2>2. in.mem.fault \in BOOLEAN
    BY <2>1 DEF Answer
  <2>3. L2Resp(in) = resp
    BY <1>2, <1>3 DEF L2Resp
  <2>4. in.mem.fault <=> r.req_addr.tag \in Faulty
    BY <1>4, <2>1 DEF BusAnswers
  <2> QED BY <2>2, <2>3, <2>4, Zeros
<1> HIDE DEF resp
<1>7. /\ Rests(in) /\ PortRests /\ RamKept /\ bus' = None
      /\ mem' = IF r.mem_addr.tag \in Faulty THEN mem ELSE [mem EXCEPT ![At(r.mem_addr)] = r.line_o]
  <2>1. r.mem_valid \in BOOLEAN /\ r.write_first \in BOOLEAN /\ r'.mem_valid \in BOOLEAN /\ r'.write_first \in BOOLEAN
    BY <1>0, <1>1 DEF ControlInv, TypeOK, L2TypeOK, Registers, WriteBusDone
  <2> QED BY <1>1, <1>3, <2>1 DEF WriteBusDone, Rests, WritesKept
<1>8. ram' = ram /\ TagTypeOK' /\ ~rd'.invalidate
  BY <1>7 DEF PortRests, RamKept
<1>9. AnswerDone
  BY <1>0, <1>2, <1>3, <1>4, <1>6, <1>7, <1>8, AnswerKeeps
<1>10. /\ \A p \in Places : p # At(r.req_addr) => owner'[p] = owner[p] /\ newest'[p] = newest[p]
       /\ resp.fault => owner' = owner /\ newest' = newest
       /\ ~resp.fault => newest'[At(r.req_addr)] = r.req_wdata
  BY <1>0, <1>4, <1>5, <1>6, PortServed
<1>11. LinesNewest' /\ MemNewest'
  <2>1. CASE resp.fault
    <3>1. ~Giving /\ ~Leaving
      BY <1>0, <1>3, ServingPlain
    <3>2. mem' = mem
      BY <1>4, <1>6, <1>7, <2>1
    <3> QED BY <1>0, <1>8, <1>10, <2>1, <3>1, <3>2, SameData DEF DataInv
  <2>2. CASE ~resp.fault
    <3>1. mem' = [mem EXCEPT ![At(r.req_addr)] = r.req_wdata] /\ mem \in [Places -> Line]
      BY <1>0, <1>4, <1>6, <1>7, <2>2 DEF ControlInv, TypeOK
    <3>2. /\ mem'[At(r.req_addr)] = newest'[At(r.req_addr)]
          /\ \A q \in Places : q # At(r.req_addr) => mem'[q] = mem[q]
      BY <1>5, <1>10, <2>2, <3>1
    <3> QED BY <1>0, <1>3, <1>8, <1>10, <3>2, PlaceAnswered
  <2> QED BY <2>1, <2>2
<1>12. NoAlias' /\ CachedTags' /\ PortInv'
  BY <1>0, <1>8, <1>9, RamSame DEF ControlInv, AnswerDone
<1> QED BY <1>9, <1>11, <1>12, AnswerInv

(***************************************************************************)
(* The line that hits is the line asked for, it is the newest, and no L1   *)
(* cache owns it.                                                          *)
(***************************************************************************)
LEMMA HitFacts ==
    ASSUME ControlInv, DataInv, Serving, r.state = "CheckHit", Hit
    PROVE  /\ HitIdx \in Way /\ r.req_addr.set \in Sets /\ rd.addr = r.req_addr
           /\ Valid(r.req_addr.set, HitIdx) /\ Place(r.req_addr.set, HitIdx) = At(r.req_addr)
           /\ Out = ram[r.req_addr.set][HitIdx] /\ Out.data \in Line
           /\ Out.data = newest[At(r.req_addr)] /\ owner[At(r.req_addr)] = None
           /\ r.req_addr.tag \notin Uncached \cup Faulty /\ IsCached
           /\ IsWrite => IsUnique
           /\ "SNOOP" \notin r.req_type
<1>1. /\ HitIdx \in Way /\ rd.addr.set \in Sets /\ Out = ram[rd.addr.set][HitIdx] /\ Out \in Entry
      /\ rd.addr = r.req_addr /\ ~Giving
  BY OutFacts, ServingPlain
<1>2. Valid(r.req_addr.set, HitIdx) /\ ram[r.req_addr.set][HitIdx].tag = r.req_addr.tag
  BY <1>1 DEF Hit, WayHit, Valid
<1>3. Place(r.req_addr.set, HitIdx) = At(r.req_addr)
  BY <1>2 DEF Place, At
<1>4. Out.data = newest[At(r.req_addr)] /\ owner[At(r.req_addr)] = None
  BY <1>1, <1>2, <1>3 DEF DataInv, LinesNewest, Given
<1>5. r.req_addr.tag \notin Uncached \cup Faulty
  BY <1>1, <1>2 DEF ControlInv, CachedTags
<1>6. IsCached
  BY <1>5, ServeFacts
<1>7. IsWrite => IsUnique
  BY <1>4, <1>6, OwnerFacts
<1>8. "SNOOP" \notin r.req_type
  <2>1. ASSUME "SNOOP" \in r.req_type PROVE FALSE
    <3>1. IsWrite /\ d.state = "ReadMem"
      BY <2>1, ServeFacts
    <3> QED BY <1>4, <3>1, OwnerFacts
  <2> QED BY <2>1
<1> QED BY <1>1, <1>2, <1>3, <1>4, <1>5, <1>6, <1>7, <1>8 DEF Entry

(***************************************************************************)
(* CheckHit with a hit and a unique request: the line is given away.  It   *)
(* stays in the cache for one more clock, in which nothing is looked up.   *)
(***************************************************************************)
LEMMA HitGiveAwayKeeps ==
    ASSUME L2Inv, NEW in, Clock(in), HitGiveAway(in)
    PROVE  L2Inv'
<1>0. ControlInv /\ DataInv
  BY DEF L2Inv
<1>1. HitGiveAwayDone(in)
  BY <1>0, HitGiveAwayEffect
<1>2. r.state = "CheckHit" /\ Hit /\ (~IsCached \/ IsUnique)
  BY DEF HitGiveAway
<1>3. Serving /\ ~r.mem_valid /\ ~r.write_first /\ ~r.write_flush
  BY <1>0, <1>2 DEF Serving, ControlInv, FlagsInv
<1>4. /\ HitIdx \in Way /\ r.req_addr.set \in Sets /\ rd.addr = r.req_addr
      /\ Valid(r.req_addr.set, HitIdx) /\ Place(r.req_addr.set, HitIdx) = At(r.req_addr)
      /\ Out.data \in Line /\ Out.data = newest[At(r.req_addr)]
      /\ r.req_addr.tag \notin Uncached \cup Faulty /\ IsCached
  BY <1>0, <1>2, <1>3, HitFacts
<1>5. IsUnique /\ d.srcid \in Slots /\ d.srcid # None /\ At(r.req_addr) \in Places /\ r.req_addr \in Addr
  BY <1>0, <1>2, <1>3, <1>4, ServeFacts, SlotFacts
<1> DEFINE resp == [data |-> Out.data, fault |-> FALSE]
<1>6. /\ resp \in [data : Line, fault : BOOLEAN] /\ L2Resp(in) = resp
      /\ (resp.fault <=> r.req_addr.tag \in Faulty) /\ ~resp.fault
      /\ (~IsWrite /\ ~resp.fault => resp.data = newest[At(r.req_addr)])
  BY <1>1, <1>4 DEF HitGiveAwayDone
<1> HIDE DEF resp
<1>7. /\ Rests(in) /\ ram' = ram /\ TagTypeOK' /\ bus' = None /\ mem' = mem
      /\ ~rd'.direct /\ rd'.invalidate /\ rd'.addr = r.req_addr /\ r'.state = "Idle"
      /\ r'.req_addr = r.req_addr
  BY <1>0, <1>1, <1>2, NoBus DEF HitGiveAwayDone, BusWaits, Rests
<1>8. AnswerDone
  BY <1>0, <1>2, <1>3, <1>6, <1>7, AnswerKeeps
<1>9. /\ \A p \in Places : p # At(r.req_addr) => owner'[p] = owner[p] /\ newest'[p] = newest[p]
      /\ owner'[At(r.req_addr)] = d.srcid /\ d'.state = "Idle"
  BY <1>0, <1>5, <1>6, PortServed
<1>10. NoAlias' /\ CachedTags'
  BY <1>0, <1>7, RamSame DEF ControlInv
<1>11. Hit'
  <2>1. \A w \in Way : WayHit(w)' <=> WayHit(w)
    BY <1>4, <1>7 DEF WayHit
  <2>2. WayHit(HitIdx)
    BY <1>2 DEF Hit
  <2> QED BY <1>4, <1>7, <1>10, <2>1, <2>2, HitNext
<1>12. PortInv'
  <2>1. adr' = r.req_addr
    BY <1>3 DEF Clock
  <2>2. ~Serving'
    BY <1>7 DEF Serving
  <2> QED BY <1>5, <1>7, <1>9, <1>11, <2>1, <2>2 DEF PortInv, Giving
<1>13. \A s \in Sets, w \in Way : Place(s, w) \in Places
  BY <1>0 DEF ControlInv, TypeOK, L2TypeOK, TagTypeOK, Entry, Place, Places
<1>14. LinesNewest'
  <2>1. Giving'
    BY <1>7 DEF Giving
  <2>2. \A s \in Sets, w \in Way : Valid(s, w)' /\ ~Given(s, w)' =>
           Valid(s, w) /\ Place(s, w)' = Place(s, w) /\ Place(s, w) # At(r.req_addr)
    BY <1>7, <2>1 DEF Valid, Place, Given
  <2>3. ~Giving
    BY <1>0, <1>3, ServingPlain
  <2> QED BY <1>0, <1>7, <1>9, <1>13, <2>2, <2>3 DEF DataInv, LinesNewest, Given
<1>15. MemNewest'
  <2>1. ~Leaving
    BY <1>0, <1>3, ServingPlain
  <2> QED BY <1>0, <1>5, <1>7, <1>9, <2>1 DEF DataInv, MemNewest, Held, Valid
<1> QED BY <1>8, <1>10, <1>12, <1>14, <1>15, AnswerInv

(***************************************************************************)
(* A line arrives in the place of the displaced one: it is the only one    *)
(* with its address, and what was displaced is in the memory.              *)
(***************************************************************************)
LEMMA LineArrives ==
    ASSUME ControlInv, DataInv, Serving, ~Hit, IsCached, r.state = "CheckResp", TagTypeOK',
           NEW f \in SUBSET Flags, NEW x \in Line, Replaced(f, x), "VALID" \in f,
           mem' = mem, newest' = newest, r.req_addr.tag \notin Faulty,
           \A q \in Places : q # At(r.req_addr) => owner'[q] = owner[q],
           owner'[At(r.req_addr)] = None, x = newest[At(r.req_addr)],
           "DIRTY" \in f \/ mem[At(r.req_addr)] = x
    PROVE  NoAlias' /\ CachedTags' /\ LinesNewest' /\ MemNewest'
<1> DEFINE s0 == r.req_addr.set
           t0 == r.req_addr.tag
<1>1. /\ HitIdx \in Way /\ s0 \in Sets /\ rd.addr = r.req_addr /\ ~Giving /\ ~Leaving
      /\ At(r.req_addr) = <<t0, s0>> /\ At(r.req_addr) \in Places /\ t0 \notin Uncached
  <2>1. HitIdx \in Way /\ rd.addr = r.req_addr /\ ~Giving /\ ~Leaving
    BY OutFacts, ServingPlain
  <2>2. r.req_addr \in Addr /\ At(r.req_addr) \in Places /\ t0 \notin Uncached
    BY ServeFacts
  <2> QED BY <2>1, <2>2, PlaceOf DEF At
<1>2. \A s \in Sets, w \in Way :
         ram'[s][w] = IF s = s0 /\ w = HitIdx THEN [tag |-> t0, flags |-> f, data |-> x]
                      ELSE ram[s][w]
  BY DEF Replaced, Rewritten
<1>3. /\ ram'[s0][HitIdx].tag = t0 /\ ram'[s0][HitIdx].flags = f /\ ram'[s0][HitIdx].data = x
      /\ \A s \in Sets, w \in Way : ~(s = s0 /\ w = HitIdx) => ram'[s][w] = ram[s][w]
  BY <1>1, <1>2
<1> HIDE DEF s0, t0
<1>4. \A s \in Sets, w \in Way : Valid(s, w) => ~(s = s0 /\ ram[s][w].tag = t0)
  <2>1. \A s \in Sets, w \in Way : Valid(s, w) => Place(s, w) # At(r.req_addr)
    BY MissPlaces
  <2> QED BY <1>1, <2>1 DEF Place
<1>5. NoAlias'
  <2>1. NoAlias
    BY DEF ControlInv
  <2> QED BY <1>1, <1>3, <1>4, <2>1 DEF NoAlias, Valid
<1>6. CachedTags'
  <2>1. CachedTags /\ t0 \notin Uncached \cup Faulty
    BY <1>1 DEF ControlInv, t0
  <2> QED BY <1>3, <2>1 DEF CachedTags, Valid
<1>7. \A s \in Sets, w \in Way : Place(s, w) \in Places
  BY DEF ControlInv, TypeOK, L2TypeOK, TagTypeOK, Entry, Place, Places
<1>8. LinesNewest'
  <2>1. SUFFICES ASSUME NEW s \in Sets, NEW w \in Way, Valid(s, w)'
                 PROVE  /\ owner'[Place(s, w)'] = None /\ ram'[s][w].data = newest[Place(s, w)']
                        /\ "DIRTY" \notin ram'[s][w].flags => mem[Place(s, w)'] = newest[Place(s, w)']
    BY DEF LinesNewest
  <2>2. CASE s = s0 /\ w = HitIdx
    <3>1. Place(s, w)' = At(r.req_addr)
      BY <1>1, <1>3, <2>2 DEF Place
    <3> QED BY <1>3, <2>2, <3>1
  <2>3. CASE ~(s = s0 /\ w = HitIdx)
    <3>1. ram'[s][w] = ram[s][w]
      BY <1>3, <2>3
    <3>2. Valid(s, w) /\ Place(s, w)' = Place(s, w) /\ Place(s, w) # At(r.req_addr)
      BY <1>1, <1>4, <2>1, <3>1 DEF Valid, Place
    <3>3. Place(s, w) \in Places
      BY <1>7
    <3> QED BY <1>1, <3>1, <3>2, <3>3 DEF DataInv, LinesNewest, Given
  <2> QED BY <2>2, <2>3
<1>9. MemNewest'
  <2>1. SUFFICES ASSUME NEW q \in Places, owner'[q] = None, mem[q] # newest[q]
                 PROVE  Held(q)'
    BY DEF MemNewest
  <2>2. CASE q = At(r.req_addr)
    <3>1. q[2] = s0 /\ q[1] = t0
      BY <1>1, <2>2
    <3> QED BY <1>1, <1>3, <3>1 DEF Held, Valid
  <2>3. CASE q # At(r.req_addr)
    <3>1. PICK w \in Way : Valid(q[2], w) /\ ram[q[2]][w].tag = q[1]
      BY <1>1, <2>1, <2>3 DEF DataInv, MemNewest, Held
    <3>2. q[2] \in Sets /\ q = <<q[1], q[2]>>
      BY DEF Places
    <3>3. ~(q[2] = s0 /\ w = HitIdx)
      <4>1. ASSUME q[2] = s0, w = HitIdx PROVE FALSE
        <5>1. Valid(rd.addr.set, HitIdx) /\ Place(rd.addr.set, HitIdx) = q
          BY <1>1, <3>1, <3>2, <4>1 DEF Place, s0
        <5>2. ~r.write_first
          BY DEF ControlInv, FlagsInv
        <5> QED BY <2>1, <5>1, <5>2 DEF DataInv, VictimSaved
      <4> QED BY <4>1
    <3> QED BY <1>3, <3>1, <3>2, <3>3 DEF Held, Valid
  <2> QED BY <2>2, <2>3
<1> QED BY <1>5, <1>6, <1>8, <1>9

\* The whole of the line is written.
LEMMA WholeModified ==
    ASSUME ControlInv, Serving
    PROVE  Modified(r.line_i) = r.req_wdata
<1>1. r.req_strb = Words /\ r.req_wdata \in Line
  BY ServeFacts
<1> QED BY <1>1 DEF Modified, Line

\* what CheckResp with contents for a line starts from
LEMMA FillFacts ==
    ASSUME ControlInv, r.state = "CheckResp", ~Direct
    PROVE  /\ Serving /\ Asking /\ ~Hit /\ ~r.mem_valid /\ ~r.write_first /\ ~r.write_flush
           /\ IsCached /\ r.req_addr.tag \notin Faulty /\ ~r.fault /\ ~MissIsDone
           /\ r.req_addr.set \in Sets /\ HitIdx \in Way /\ At(r.req_addr) \in Places
<1>1. Serving /\ Asking /\ ~Hit /\ ~r.mem_valid /\ ~r.write_first /\ ~r.write_flush /\ ~MissIsDone
  BY DEF Serving, Asking, ControlInv, FlagsInv, LookupInv, ServeInv
<1>2. ~r.fault /\ r.req_addr.tag \notin Faulty
  BY <1>1 DEF Direct, ControlInv, MemInv
<1>3. r.mem_type = IF IsCached THEN ReadType ELSE IF IsWrite THEN "WriteNoSnoop" ELSE "ReadNoSnoop"
  BY <1>1 DEF ControlInv, MemInv
<1>4. IsCached
  BY <1>3 DEF Direct, CachedType
<1>5. r.req_addr \in Addr /\ HitIdx \in Way
  BY OutFacts DEF ControlInv, TypeOK, L2TypeOK, Registers
<1> QED BY <1>1, <1>2, <1>4, <1>5, PlaceOf

\* CheckResp of a write: the line of the L1 cache is kept, dirty.
LEMMA FillWriteKeeps ==
    ASSUME L2Inv, NEW in, Clock(in), CheckResp(in), ~Direct, IsWrite
    PROVE  L2Inv'
<1>0. ControlInv /\ DataInv
  BY DEF L2Inv
<1>1. r.state = "CheckResp"
  BY DEF CheckResp
<1>2. /\ Serving /\ Asking /\ ~Hit /\ ~r.mem_valid /\ ~r.write_first /\ ~r.write_flush
      /\ IsCached /\ r.req_addr.tag \notin Faulty /\ ~IsUnique /\ At(r.req_addr) \in Places
  BY <1>0, <1>1, FillFacts DEF MissIsDone
<1>3. /\ PortRests /\ BusWaits /\ Rests(in) /\ Replaced({"VALID", "DIRTY"}, r.req_wdata)
      /\ L2Resp(in) = [data |-> ZeroLine, fault |-> FALSE]
  <2>1. FillDone(in)
    BY <1>0, FillEffect
  <2> QED BY <1>0, <1>2, <2>1, WholeModified DEF FillDone
<1> DEFINE resp == [data |-> ZeroLine, fault |-> FALSE]
<1>4. /\ resp \in [data : Line, fault : BOOLEAN] /\ L2Resp(in) = resp /\ ~resp.fault
  BY <1>3, Zeros
<1> HIDE DEF resp
<1>5. bus' = None /\ mem' = mem /\ TagTypeOK' /\ ~rd'.invalidate
  BY <1>0, <1>1, <1>3, NoBus DEF BusWaits, PortRests
<1>6. AnswerDone
  BY <1>0, <1>1, <1>2, <1>3, <1>4, <1>5, AnswerKeeps
<1>7. /\ r.req_wdata = newest[At(r.req_addr)] /\ r.req_wdata \in Line
      /\ d.state \in {"ReadMem", "WriteMem"}
  BY <1>0, <1>2, OwnerFacts, ServeFacts
<1>8. /\ \A p \in Places : p # At(r.req_addr) => owner'[p] = owner[p] /\ newest'[p] = newest[p]
      /\ owner'[At(r.req_addr)] = None /\ newest' \in [Places -> Line]
      /\ d.state = "ReadMem" => newest' = newest
      /\ d.state = "WriteMem" => newest'[At(r.req_addr)] = r.req_wdata
  BY <1>0, <1>2, <1>4, PortServed
<1>9. newest' = newest
  <2>1. newest \in [Places -> Line]
    BY <1>0 DEF ControlInv, TypeOK
  <2>2. \A p \in Places : newest'[p] = newest[p]
    BY <1>7, <1>8
  <2> QED BY <1>8, <2>1, <2>2
<1>10. NoAlias' /\ CachedTags' /\ LinesNewest' /\ MemNewest'
  <2>1. {"VALID", "DIRTY"} \in SUBSET Flags
    BY DEF Flags
  <2> QED BY <1>0, <1>1, <1>2, <1>3, <1>5, <1>7, <1>8, <1>9, <2>1, LineArrives
<1>11. PortInv'
  BY <1>5, <1>6 DEF AnswerDone
<1> QED BY <1>6, <1>10, <1>11, AnswerInv

\* CheckResp of a read: the line is kept, clean, and then looked up.
LEMMA FillReadKeeps ==
    ASSUME L2Inv, NEW in, Clock(in), CheckResp(in), ~Direct, ~IsWrite
    PROVE  L2Inv'
<1>0. ControlInv /\ DataInv
  BY DEF L2Inv
<1>1. r.state = "CheckResp"
  BY DEF CheckResp
<1>2. /\ Serving /\ Asking /\ ~Hit /\ ~r.mem_valid /\ ~r.write_first /\ ~r.write_flush
      /\ IsCached /\ r.req_addr.tag \notin Faulty /\ ~MissIsDone /\ At(r.req_addr) \in Places
  BY <1>0, <1>1, FillFacts
<1>3. /\ PortRests /\ BusWaits /\ PortWaits /\ r' \in Registers /\ r'.state = "SetupReadAdr"
      /\ ReqKept(r') /\ WritesKept(r') /\ FlushLatched(in, r') /\ ~r'.fault /\ r'.mem_valid = r.mem_valid
      /\ Replaced({"VALID"}, r.line_i)
  <2>1. FillDone(in)
    BY <1>0, FillEffect
  <2> QED BY <2>1 DEF FillDone
<1>4. /\ bus' = None /\ mem' = mem /\ TagTypeOK' /\ ~rd'.invalidate /\ ~rd'.direct
      /\ rd'.addr = r.req_addr /\ ~r'.mem_valid /\ ~r'.write_first /\ ~r'.write_flush
  BY <1>0, <1>1, <1>2, <1>3, NoBus DEF BusWaits, PortRests, WritesKept
<1>5. /\ r.line_i = newest[At(r.req_addr)] /\ owner[At(r.req_addr)] = None /\ r.line_i \in Line
      /\ mem[At(r.req_addr)] = newest[At(r.req_addr)]
  <2>1. owner[At(r.req_addr)] = None
    BY <1>0, <1>2, OwnerFacts
  <2>2. ~Held(At(r.req_addr)) /\ ~Leaving
    BY <1>0, <1>2, MissPlaces, ServingPlain
  <2> QED BY <1>0, <1>1, <1>2, <2>1, <2>2
          DEF DataInv, MemNewest, AnswerNewest, ControlInv, TypeOK, L2TypeOK, Registers
<1>6. Port!DstTypeOK' /\ DstInv' /\ owner' = owner /\ newest' = newest /\ ToldInv' /\ d' = d
  <2>1. L2Resp(in) = None
    BY <1>1, QuietResp
  <2> QED BY <1>0, <1>2, <2>1, PortQuiet
<1>7. TypeOK' /\ load' \in Workloads
  <2>1. newest' \in [Places -> Line] /\ owner' \in [Places -> Slots \cup {None}]
    BY <1>0, <1>6 DEF ControlInv, TypeOK
  <2> QED BY <1>0, <1>3, <1>4, <1>6, <2>1, TypesKept
<1>8. NoAlias' /\ CachedTags' /\ LinesNewest' /\ MemNewest'
  <2>1. {"VALID"} \in SUBSET Flags
    BY DEF Flags
  <2> QED BY <1>0, <1>1, <1>2, <1>3, <1>4, <1>5, <1>6, <2>1, LineArrives
<1>9. /\ r'.req_addr = r.req_addr /\ r'.req_type = r.req_type /\ r'.req_strb = r.req_strb
      /\ r'.req_wdata = r.req_wdata
  BY <1>3 DEF ReqKept
<1>10. ServeInv'
  <2>1. /\ r.req_addr = d.addr /\ r.req_type = d.type /\ r.req_strb = Words
        /\ r.req_wdata = IF d.wdata = None THEN ZeroLine ELSE d.wdata
        /\ d.state \in {"ReadMem", "WriteMem"}
    BY <1>0, <1>2 DEF ControlInv, ServeInv
  <2>2. ~MissIsDone'
    BY <1>2, <1>9 DEF MissIsDone, IsWrite, IsUnique
  <2>3. Serving'
    BY <1>3, <1>4 DEF Serving
  <2> QED BY <1>4, <1>6, <1>9, <2>1, <2>2, <2>3 DEF ServeInv
<1>11. FlagsInv'
  BY <1>0, <1>1, <1>3, <1>4 DEF FlagsInv, ControlInv, FlushLatched
<1>12. PortInv'
  BY <1>3, <1>4, <1>9 DEF PortInv, Giving
<1>13. MemInv' /\ BusInv' /\ LookupInv' /\ WriteNewest' /\ VictimSaved' /\ AnswerNewest'
          /\ ResetEmpty' /\ SweepInv'
  BY <1>3, <1>4 DEF MemInv, BusInv, LookupInv, WriteNewest, VictimSaved, AnswerNewest, ResetEmpty,
                    SweepInv, Leaving, Asking
<1> QED BY <1>6, <1>7, <1>8, <1>10, <1>11, <1>12, <1>13 DEF L2Inv, ControlInv, DataInv

----------------------------------------------------------------------------
\* The steps: idle, and the tail of comb()

\* A flush of all lines counts down from the first position, and ends at the last one.
LEMMA SweepNumbers ==
    /\ FLUSH_ALL_VALUE = (NSets - 1 - 0) * Ways + (Ways - 1 - 0)
    /\ \A s \in Sets, w \in Way :
          /\ (NSets - 1 - s) * Ways + (Ways - 1 - w) = 0 => s = NSets - 1 /\ w = Ways - 1
          /\ w = Ways - 1 /\ s < NSets - 1 =>
                (NSets - 1 - s) * Ways + (Ways - 1 - w) - 1 = (NSets - 1 - (s + 1)) * Ways + (Ways - 1 - 0)
          /\ w = Ways - 1 /\ s = NSets - 1 => (NSets - 1 - s) * Ways + (Ways - 1 - w) = 0
<1>1. Ways \in Nat \ {0} /\ NSets \in Nat \ {0}
  BY NWayAssumption
<1>2. FLUSH_ALL_VALUE = (NSets - 1 - 0) * Ways + (Ways - 1 - 0)
  BY <1>1 DEF FLUSH_ALL_VALUE
<1>3. ASSUME NEW s \in Sets, NEW w \in Way
      PROVE  /\ (NSets - 1 - s) * Ways + (Ways - 1 - w) = 0 => s = NSets - 1 /\ w = Ways - 1
             /\ w = Ways - 1 /\ s < NSets - 1 =>
                   (NSets - 1 - s) * Ways + (Ways - 1 - w) - 1
                      = (NSets - 1 - (s + 1)) * Ways + (Ways - 1 - 0)
             /\ w = Ways - 1 /\ s = NSets - 1 => (NSets - 1 - s) * Ways + (Ways - 1 - w) = 0
  <2>1. PICK n \in Nat : n = NSets - 1 - s
    BY <1>1 DEF Sets
  <2>2. Ways - 1 - w \in Nat /\ w \in Int /\ s \in Int /\ n * Ways \in Nat
    BY <1>1 DEF Way, Sets
  <2>3. n # 0 => n * Ways = (n - 1) * Ways + Ways /\ (n - 1) * Ways \in Nat
    BY <1>1
  <2>4. 0 * Ways = 0
    BY <1>1
  <2>5. NSets - 1 - (s + 1) = n - 1 /\ (n = 0 <=> s = NSets - 1)
    BY <1>1, <2>1, <2>2
  <2>6. (NSets - 1 - s) * Ways = n * Ways /\ (NSets - 1 - (s + 1)) * Ways = (n - 1) * Ways
    BY <2>1, <2>5
  <2> QED BY <1>1, <2>2, <2>3, <2>4, <2>5, <2>6
<1> QED BY <1>2, <1>3

\* A clock that accepts a flush or a request, or nothing.
LEMMA AcceptedKeeps ==
    ASSUME ControlInv, NEW in, Accepted(in), bus' = None, ~r.mem_valid, ~r.write_first, ~r.write_flush,
           r.req_flush => r.req_flush_all,
           \/ in.req = None /\ d'.state \notin {"ReadMem", "WriteMem"}
           \/ PortMoves(in) /\ r.state = "Idle"
    PROVE  /\ FlagsInv' /\ ServeInv' /\ MemInv' /\ BusInv' /\ PortInv' /\ LookupInv'
           /\ WriteNewest' /\ VictimSaved' /\ AnswerNewest' /\ ResetEmpty' /\ SweepInv'
<1>1. /\ ~r'.fault /\ ~r'.mem_valid /\ ~r'.write_first /\ ~r'.write_flush
      /\ (r'.req_flush_all <=> (in.flush \/ r.req_flush_all)) /\ ~rd'.direct /\ ~rd'.invalidate
  BY DEF Accepted, WritesKept
<1>2. CASE r.req_flush
  <2>1. /\ r'.state = "FlushAddr" /\ r'.req_addr = ZeroAddr /\ r'.flush_cnt = FLUSH_ALL_VALUE
        /\ ~r'.req_flush
    BY <1>2 DEF Accepted
  <2>2. d'.state \notin {"ReadMem", "WriteMem"}
    BY <1>2 DEF PortMoves, L2ReqReady, Takes
  <2>3. NoRequest
    BY <2>1, <2>2 DEF NoRequest
  <2>4. ServeInv' /\ MemInv' /\ BusInv' /\ LookupInv' /\ WriteNewest' /\ VictimSaved' /\ AnswerNewest'
    BY <2>3, NothingServed
  <2>5. FlagsInv'
    BY <1>1, <1>2, <2>1 DEF FlagsInv
  <2>6. PortInv' /\ ResetEmpty'
    BY <1>1, <2>1 DEF PortInv, Giving, Serving, ResetEmpty
  <2>7. SweepInv'
    <3>1. r'.req_addr.set = 0 /\ r'.req_addr.way = 0
      BY <2>1 DEF ZeroAddr
    <3>2. \A s \in Sets, w \in Way : ~(s < 0) /\ ~(w < 0)
      BY DEF Sets, Way
    <3>3. \A s \in Sets, w \in Way : ~Before(s, w, r'.req_addr)
      BY <3>1, <3>2 DEF Before
    <3> QED BY <2>1, <3>1, <3>3, SweepNumbers DEF SweepInv
  <2> QED BY <2>4, <2>5, <2>6, <2>7
<1>3. CASE ~r.req_flush /\ in.req = None
  <2>1. r'.state = "Idle" /\ (r'.req_flush <=> in.flush)
    BY <1>3 DEF Accepted
  <2>2. d'.state \notin {"ReadMem", "WriteMem"}
    BY <1>3 DEF PortMoves
  <2>3. NoRequest
    BY <2>1, <2>2 DEF NoRequest
  <2> QED BY <1>1, <2>1, <2>3, AtRest
<1>4. CASE ~r.req_flush /\ in.req # None
  <2>1. PortMoves(in) /\ r.state = "Idle"
    BY <1>4
  <2>2. /\ r'.state = "CheckHit" /\ r'.req_addr = in.addr /\ r'.req_type = in.req.type
        /\ r'.req_wdata = in.req.wdata /\ r'.req_strb = in.req.strb /\ rd'.addr = in.addr
        /\ (r'.req_flush <=> in.flush)
    BY <1>4 DEF Accepted
  <2>3. d'.state \in {"ReadMem", "WriteMem"}
    BY <1>4, <2>1 DEF PortMoves, L2ReqReady, Takes
  <2>4. /\ d'.addr = in.addr /\ d'.type = in.req.type /\ in.req.strb = Words
        /\ in.req.wdata = IF d'.wdata = None THEN ZeroLine ELSE d'.wdata
    BY <1>4, <2>1 DEF PortMoves
  <2>5. ServeInv'
    BY <1>1, <2>2, <2>3, <2>4 DEF ServeInv, Serving
  <2>6. FlagsInv'
    BY <1>1, <2>2 DEF FlagsInv
  <2>7. PortInv'
    BY <1>1, <2>2 DEF PortInv, Giving
  <2> QED BY <1>1, <2>2, <2>5, <2>6, <2>7
          DEF MemInv, BusInv, LookupInv, WriteNewest, VictimSaved, AnswerNewest, ResetEmpty,
              SweepInv, Leaving, Asking
<1> QED BY <1>2, <1>3, <1>4

\* CheckHit of a read with a hit: the line is shown, and the next request may be taken.
LEMMA HitReadKeeps ==
    ASSUME L2Inv, NEW in, Clock(in), HitRead(in)
    PROVE  L2Inv'
<1>0. ControlInv /\ DataInv
  BY DEF L2Inv
<1>1. /\ Accepted(in) /\ ram' = ram /\ BusWaits
      /\ L2Resp(in) = [data |-> Out.data, fault |-> FALSE]
  BY <1>0, HitReadEffect
<1>2. r.state = "CheckHit" /\ Hit /\ ~IsUnique /\ ~IsWrite
  BY DEF HitRead
<1>3. Serving /\ ~r.mem_valid /\ ~r.write_first /\ ~r.write_flush
  BY <1>0, <1>2 DEF Serving, ControlInv, FlagsInv
<1>4. /\ Out.data \in Line /\ Out.data = newest[At(r.req_addr)] /\ owner[At(r.req_addr)] = None
      /\ r.req_addr.tag \notin Uncached \cup Faulty /\ IsCached /\ "SNOOP" \notin r.req_type
  BY <1>0, <1>2, <1>3, HitFacts
<1> DEFINE resp == [data |-> Out.data, fault |-> FALSE]
<1>5. /\ resp \in [data : Line, fault : BOOLEAN] /\ L2Resp(in) = resp
      /\ (resp.fault <=> r.req_addr.tag \in Faulty) /\ ~resp.fault
      /\ (~IsWrite /\ ~resp.fault => resp.data = newest[At(r.req_addr)])
  BY <1>1, <1>4
<1> HIDE DEF resp
<1>6. d.state = "ReadMem" /\ At(r.req_addr) \in Places
  BY <1>0, <1>2, <1>3, ServeFacts
<1>7. /\ Port!DstTypeOK' /\ DstInv' /\ ToldInv' /\ d'.state = "Idle"
      /\ newest' \in [Places -> Line] /\ owner' \in [Places -> Slots \cup {None}]
      /\ \A p \in Places : p # At(r.req_addr) => owner'[p] = owner[p]
      /\ owner'[At(r.req_addr)] = None /\ newest' = newest
  BY <1>0, <1>2, <1>5, <1>6, PortServed
<1>8. owner' = owner
  <2>1. owner \in [Places -> Slots \cup {None}]
    BY <1>0 DEF ControlInv, TypeOK
  <2>2. \A p \in Places : owner'[p] = owner[p]
    BY <1>4, <1>7
  <2> QED BY <1>7, <2>1, <2>2
<1>9. bus' = None /\ mem' = mem /\ in.req = None
  BY <1>0, <1>1, <1>2, <1>3, NoBus DEF BusWaits, Clock
<1>10. r' \in Registers /\ TagTypeOK'
  BY <1>1 DEF Accepted
<1>11. TypeOK' /\ load' \in Workloads
  BY <1>0, <1>7, <1>10, TypesKept
<1>12. /\ FlagsInv' /\ ServeInv' /\ MemInv' /\ BusInv' /\ PortInv' /\ LookupInv'
       /\ WriteNewest' /\ VictimSaved' /\ AnswerNewest' /\ ResetEmpty' /\ SweepInv'
  <2>1. r.req_flush => r.req_flush_all
    BY <1>0, <1>2 DEF ControlInv, FlagsInv
  <2> QED BY <1>0, <1>1, <1>3, <1>7, <1>9, <2>1, AcceptedKeeps
<1>13. NoAlias' /\ CachedTags'
  BY <1>0, <1>1, RamSame DEF ControlInv
<1>14. LinesNewest' /\ MemNewest'
  <2>1. ~Giving /\ ~Leaving
    BY <1>0, <1>3, ServingPlain
  <2> QED BY <1>0, <1>1, <1>7, <1>8, <1>9, <2>1, SameData DEF DataInv
<1> QED BY <1>7, <1>11, <1>12, <1>13, <1>14 DEF L2Inv, ControlInv, DataInv

\* A line that is made invalid leaves the others as they are.
LEMMA DroppedFacts ==
    ASSUME NoAlias, CachedTags, TagTypeOK, NEW s0 \in Sets, NEW w0 \in Way, NEW e, e.flags = {},
           Rewritten(s0, w0, e)
    PROVE  /\ NoAlias' /\ CachedTags'
           /\ \A s \in Sets, w \in Way : Valid(s, w)' <=> Valid(s, w) /\ ~(s = s0 /\ w = w0)
           /\ \A s \in Sets, w \in Way : Valid(s, w)' => ram'[s][w] = ram[s][w]
<1>1. \A s \in Sets, w \in Way : ram'[s][w] = IF s = s0 /\ w = w0 THEN e ELSE ram[s][w]
  BY DEF Rewritten
<1>2. \A s \in Sets, w \in Way : Valid(s, w)' <=> Valid(s, w) /\ ~(s = s0 /\ w = w0)
  BY <1>1 DEF Valid
<1>3. \A s \in Sets, w \in Way : Valid(s, w)' => ram'[s][w] = ram[s][w]
  BY <1>1, <1>2
<1>4. NoAlias'
  BY <1>2, <1>3 DEF NoAlias
<1>5. CachedTags'
  BY <1>2, <1>3 DEF CachedTags
<1> QED BY <1>2, <1>3, <1>4, <1>5

(***************************************************************************)
(* Idle: in the clock after a line was given away, the port still shows    *)
(* its address, so the line that is made invalid is that line.             *)
(***************************************************************************)
LEMMA IdleKeeps ==
    ASSUME L2Inv, NEW in, Clock(in), Idle(in)
    PROVE  L2Inv'
<1>0. ControlInv /\ DataInv
  BY DEF L2Inv
<1>1. Accepted(in) /\ GivenDropped /\ BusWaits /\ PortMoves(in)
  BY <1>0, IdleEffect
<1>2. r.state = "Idle" /\ ~r.mem_valid /\ ~r.write_first /\ ~r.write_flush /\ ~Leaving
         /\ (r.req_flush => r.req_flush_all)
  BY <1>0 DEF Idle, ControlInv, FlagsInv, Leaving
<1>3. bus' = None /\ mem' = mem
  BY <1>0, <1>1, <1>2, NoBus DEF BusWaits
<1>4. /\ Port!DstTypeOK' /\ DstInv' /\ owner' = owner /\ newest' = newest /\ ToldInv'
  BY <1>1, NoneAssumption DEF PortMoves, ToldInv
<1>5. r' \in Registers /\ TagTypeOK'
  BY <1>1 DEF Accepted
<1>6. TypeOK' /\ load' \in Workloads
  <2>1. newest' \in [Places -> Line] /\ owner' \in [Places -> Slots \cup {None}]
    BY <1>0, <1>4 DEF ControlInv, TypeOK
  <2> QED BY <1>0, <1>4, <1>5, <2>1, TypesKept
<1>7. /\ FlagsInv' /\ ServeInv' /\ MemInv' /\ BusInv' /\ PortInv' /\ LookupInv'
      /\ WriteNewest' /\ VictimSaved' /\ AnswerNewest' /\ ResetEmpty' /\ SweepInv'
  BY <1>0, <1>1, <1>2, <1>3, AcceptedKeeps
<1>8. ~Giving' /\ ~Leaving'
  BY <1>1, <1>2 DEF Accepted, Giving, Leaving, WritesKept
<1>9. NoAlias' /\ CachedTags' /\ LinesNewest' /\ MemNewest'
  <2>1. CASE ~rd.invalidate
    <3>1. ram' = ram /\ ~Giving
      BY <1>1, <2>1 DEF GivenDropped, Giving
    <3> QED BY <1>0, <1>2, <1>3, <1>4, <3>1, RamSame, SameData DEF DataInv, ControlInv
  <2>2. CASE rd.invalidate
    <3>1. /\ Giving /\ Hit /\ ~rd.direct /\ rd.addr = r.req_addr /\ adr = r.req_addr
          /\ d.state = "Idle" /\ owner[At(r.req_addr)] # None
      BY <1>0, <1>2, <2>2 DEF ControlInv, PortInv, Giving
    <3>2. in.addr = r.req_addr
      BY <1>0, <3>1 DEF Clock, Inputs, ControlInv, DstInv, Port!DstReset
    <3>3. rd'.addr = r.req_addr
      BY <1>1, <3>2 DEF Accepted
    <3>4. PICK l \in Line : Rewritten(r.req_addr.set, HitIdx,
                                      [tag |-> r.req_addr.tag, flags |-> {}, data |-> l])
      BY <1>1, <2>2, <3>1, <3>3 DEF GivenDropped
    <3>5. /\ HitIdx \in Way /\ r.req_addr.set \in Sets /\ TagTypeOK /\ NoAlias /\ CachedTags
      BY <1>0, <3>1, OutFacts DEF ControlInv, TypeOK, L2TypeOK
    <3>6. /\ NoAlias' /\ CachedTags'
          /\ \A s \in Sets, w \in Way : Valid(s, w)' <=> Valid(s, w) /\ ~(s = r.req_addr.set /\ w = HitIdx)
          /\ \A s \in Sets, w \in Way : Valid(s, w)' => ram'[s][w] = ram[s][w]
      <4> DEFINE e == [tag |-> r.req_addr.tag, flags |-> {}, data |-> l]
      <4>1. e.flags = {} /\ Rewritten(r.req_addr.set, HitIdx, e)
        BY <3>4
      <4> HIDE DEF e
      <4> QED BY <3>5, <4>1, DroppedFacts
    <3>7. Valid(r.req_addr.set, HitIdx) /\ ram[r.req_addr.set][HitIdx].tag = r.req_addr.tag
      BY <3>1 DEF Hit, WayHit, Valid
    <3>8. \A s \in Sets, w \in Way : Valid(s, w)' => Place(s, w)' = Place(s, w) /\ Place(s, w) # At(rd.addr)
      BY <3>1, <3>5, <3>6, <3>7 DEF Place, At, NoAlias
    <3>9. LinesNewest'
      BY <1>0, <1>3, <1>4, <3>6, <3>8 DEF DataInv, LinesNewest, Given
    <3>10. MemNewest'
      <4>1. ASSUME NEW q \in Places, owner[q] = None, Held(q) PROVE Held(q)'
        <5>1. PICK w \in Way : Valid(q[2], w) /\ ram[q[2]][w].tag = q[1]
          BY <4>1 DEF Held
        <5>2. q[2] \in Sets /\ q = <<q[1], q[2]>>
          BY DEF Places
        <5>3. q # At(r.req_addr)
          BY <3>1, <4>1
        <5>4. ~(q[2] = r.req_addr.set /\ w = HitIdx)
          BY <3>7, <5>1, <5>2, <5>3 DEF At
        <5> QED BY <3>6, <5>1, <5>2, <5>4 DEF Held
      <4> QED BY <1>0, <1>2, <1>3, <1>4, <4>1 DEF DataInv, MemNewest
    <3> QED BY <3>6, <3>9, <3>10
  <2> QED BY <2>1, <2>2
<1> QED BY <1>4, <1>6, <1>7, <1>9 DEF L2Inv, ControlInv, DataInv

----------------------------------------------------------------------------
\* The steps: the sweeps of a reset and of a flush

\* Meanwhile the port goes on by itself, but its request is not taken.
LEMMA SweepPort ==
    ASSUME ControlInv, NEW in, Clock(in), ~Serving, r.state \notin {"Idle", "CheckHit"},
           r' \in Registers, TagTypeOK'
    PROVE  /\ TypeOK' /\ load' \in Workloads /\ DstInv' /\ ToldInv'
           /\ owner' = owner /\ newest' = newest /\ d'.state \notin {"ReadMem", "WriteMem"}
<1>1. PortMoves(in)
  BY DEF Clock
<1>2. Port!DstTypeOK' /\ DstInv' /\ owner' = owner /\ newest' = newest /\ ToldInv'
  BY <1>1, NoneAssumption DEF PortMoves, ToldInv
<1>3. d'.state \notin {"ReadMem", "WriteMem"}
  BY <1>1 DEF PortMoves, L2ReqReady
<1>4. newest' \in [Places -> Line] /\ owner' \in [Places -> Slots \cup {None}]
  BY <1>2 DEF ControlInv, TypeOK
<1>5. TypeOK' /\ load' \in Workloads
  BY <1>2, <1>4, TypesKept
<1> QED BY <1>2, <1>3, <1>5

\* A step of a sweep preserves the invariant when it leaves the lines in order.
LEMMA SweepInvKept ==
    ASSUME TypeOK', load' \in Workloads, DstInv', ToldInv', NoRequest, FlagsInv', PortInv',
           NoAlias', CachedTags', LinesNewest', MemNewest', ResetEmpty', SweepInv'
    PROVE  L2Inv'
  BY NothingServed DEF L2Inv, ControlInv, DataInv

\* Reset: the next position is addressed.
LEMMA ResetKeeps ==
    ASSUME L2Inv, NEW in, Clock(in), Reset(in)
    PROVE  L2Inv'
<1>0. ControlInv /\ DataInv
  BY DEF L2Inv
<1>1. ResetDone(in)
  BY <1>0, ResetEffect
<1>2. r.state = "Reset" /\ ~Serving /\ ~Giving /\ ~Leaving
  BY DEF Reset, Serving, Giving, Leaving
<1>3. ~r.mem_valid /\ ~r.write_first /\ ~r.write_flush /\ ~r.fault
  BY <1>0, <1>2 DEF ControlInv, FlagsInv
<1>4. /\ r' \in Registers /\ TagTypeOK' /\ ram' = ram /\ mem' = mem /\ bus' = None
      /\ rd'.direct /\ rd'.invalidate /\ rd'.addr = r'.req_addr /\ r'.state = "ResetWrite"
      /\ ~r'.mem_valid /\ ~r'.write_first /\ ~r'.write_flush /\ ~r'.fault
      /\ (r'.req_flush => in.flush \/ r.req_flush) /\ (r.req_flush => ~r'.req_flush)
      /\ (r'.req_flush_all <=> (in.flush \/ r.req_flush_all))
  BY <1>0, <1>1, <1>2, <1>3, NoBus DEF ResetDone, BusWaits, ReqKept, WritesKept, LineKept
<1>5. /\ TypeOK' /\ load' \in Workloads /\ DstInv' /\ ToldInv' /\ owner' = owner /\ newest' = newest
      /\ d'.state \notin {"ReadMem", "WriteMem"}
  BY <1>0, <1>2, <1>4, SweepPort
<1>6. NoRequest
  BY <1>4, <1>5 DEF NoRequest
<1>7. FlagsInv'
  BY <1>4 DEF FlagsInv
<1>8. PortInv'
  BY <1>4 DEF PortInv, Giving, Serving
<1>9. NoAlias' /\ CachedTags'
  BY <1>0, <1>4, RamSame DEF ControlInv
<1>10. LinesNewest' /\ MemNewest'
  BY <1>0, <1>2, <1>4, <1>5, SameData DEF DataInv
<1>11. ResetEmpty'
  BY <1>0, <1>2, <1>4 DEF DataInv, ResetEmpty, Valid
<1>12. SweepInv'
  BY <1>4 DEF SweepInv, Leaving
<1> QED BY <1>5, <1>6, <1>7, <1>8, <1>9, <1>10, <1>11, <1>12, SweepInvKept

\* Dropped, as DroppedFacts says it.
LEMMA SweptFacts ==
    ASSUME ControlInv, Dropped
    PROVE  /\ r.req_addr.set \in Sets /\ r.req_addr.way \in Way /\ NoAlias' /\ CachedTags'
           /\ \A s \in Sets, w \in Way :
                 Valid(s, w)' <=> Valid(s, w) /\ ~(s = r.req_addr.set /\ w = r.req_addr.way)
           /\ \A s \in Sets, w \in Way : Valid(s, w)' => ram'[s][w] = ram[s][w]
<1>1. PICK l \in Line : Rewritten(r.req_addr.set, r.req_addr.way,
                                  [tag |-> r.req_addr.tag, flags |-> {}, data |-> l])
  BY DEF Dropped
<1> DEFINE e == [tag |-> r.req_addr.tag, flags |-> {}, data |-> l]
<1>2. e.flags = {} /\ Rewritten(r.req_addr.set, r.req_addr.way, e)
  BY <1>1
<1> HIDE DEF e
<1>3. r.req_addr.set \in Sets /\ r.req_addr.way \in Way /\ NoAlias /\ CachedTags /\ TagTypeOK
  BY DEF ControlInv, TypeOK, L2TypeOK, Registers, Addr
<1> QED BY <1>2, <1>3, DroppedFacts

\* ResetWrite: the position is made invalid.
LEMMA ResetWriteKeeps ==
    ASSUME L2Inv, NEW in, Clock(in), ResetWrite(in)
    PROVE  L2Inv'
<1>0. ControlInv /\ DataInv
  BY DEF L2Inv
<1>1. ResetWriteDone(in)
  BY <1>0, ResetWriteEffect
<1>2. r.state = "ResetWrite" /\ ~Serving /\ ~Leaving
  BY DEF ResetWrite, Serving, Leaving
<1>3. ~r.mem_valid /\ ~r.write_first /\ ~r.write_flush /\ ~r.fault /\ (r.req_flush => r.req_flush_all)
  BY <1>0, <1>2 DEF ControlInv, FlagsInv
<1>4. /\ r' \in Registers /\ TagTypeOK' /\ Dropped /\ mem' = mem /\ bus' = None
      /\ ~rd'.invalidate /\ r'.state \in {"Idle", "Reset"}
      /\ ~r'.mem_valid /\ ~r'.write_first /\ ~r'.write_flush /\ ~r'.fault /\ FlushLatched(in, r')
  BY <1>0, <1>1, <1>2, <1>3, NoBus DEF ResetWriteDone, BusWaits, WritesKept
<1>5. /\ TypeOK' /\ load' \in Workloads /\ DstInv' /\ ToldInv' /\ owner' = owner /\ newest' = newest
      /\ d'.state \notin {"ReadMem", "WriteMem"}
  BY <1>0, <1>2, <1>4, SweepPort
<1>6. NoRequest
  BY <1>4, <1>5 DEF NoRequest
<1>7. FlagsInv'
  BY <1>3, <1>4 DEF FlagsInv, FlushLatched
<1>8. PortInv'
  BY <1>4 DEF PortInv, Giving, Serving
<1>9. NoAlias' /\ CachedTags' /\ \A s \in Sets, w \in Way : Valid(s, w)' => Valid(s, w)
  BY <1>0, <1>4, SweptFacts
<1>10. \A s \in Sets, w \in Way : ~Valid(s, w) /\ ~Valid(s, w)'
  BY <1>0, <1>2, <1>9 DEF DataInv, ResetEmpty
<1>11. LinesNewest' /\ ResetEmpty'
  BY <1>10 DEF LinesNewest, ResetEmpty
<1>12. MemNewest'
  <2>1. \A q \in Places : ~Held(q)
    BY <1>10 DEF Held, Places
  <2> QED BY <1>0, <1>2, <1>4, <1>5, <2>1 DEF DataInv, MemNewest
<1>13. SweepInv'
  BY <1>4 DEF SweepInv, Leaving
<1> QED BY <1>5, <1>6, <1>7, <1>8, <1>9, <1>11, <1>12, <1>13, SweepInvKept

\* FlushAddr: the next position is addressed.
LEMMA FlushAddrKeeps ==
    ASSUME L2Inv, NEW in, Clock(in), FlushAddr(in)
    PROVE  L2Inv'
<1>0. ControlInv /\ DataInv /\ SweepInv
  BY DEF L2Inv
<1>1. FlushAddrDone(in)
  BY <1>0, FlushAddrEffect
<1>2. r.state = "FlushAddr" /\ ~Serving /\ ~Giving /\ ~Leaving
  BY DEF FlushAddr, Serving, Giving, Leaving
<1>3. ~r.mem_valid /\ ~r.write_first /\ ~r.fault /\ r.req_flush_all
  BY <1>0, <1>2 DEF ControlInv, FlagsInv
<1>4. /\ r' \in Registers /\ TagTypeOK' /\ ram' = ram /\ mem' = mem /\ bus' = None
      /\ rd'.direct /\ rd'.invalidate /\ rd'.addr = r'.req_addr /\ r'.state = "FlushCheck"
      /\ ~r'.mem_valid /\ ~r'.write_first /\ ~r'.write_flush /\ ~r'.fault /\ FlushLatched(in, r')
      /\ r'.req_addr = r.req_addr /\ r'.flush_cnt = r.flush_cnt
  BY <1>0, <1>1, <1>2, <1>3, NoBus DEF FlushAddrDone, BusWaits, ReqKept
<1>5. /\ TypeOK' /\ load' \in Workloads /\ DstInv' /\ ToldInv' /\ owner' = owner /\ newest' = newest
      /\ d'.state \notin {"ReadMem", "WriteMem"}
  BY <1>0, <1>2, <1>4, SweepPort
<1>6. NoRequest
  BY <1>4, <1>5 DEF NoRequest
<1>7. FlagsInv'
  BY <1>3, <1>4 DEF FlagsInv, FlushLatched
<1>8. PortInv'
  BY <1>4 DEF PortInv, Giving, Serving
<1>9. NoAlias' /\ CachedTags'
  BY <1>0, <1>4, RamSame DEF ControlInv
<1>10. LinesNewest' /\ MemNewest'
  BY <1>0, <1>2, <1>4, <1>5, SameData DEF DataInv
<1>11. ResetEmpty'
  BY <1>4 DEF ResetEmpty
<1>12. SweepInv'
  BY <1>0, <1>2, <1>4 DEF SweepInv, Valid
<1> QED BY <1>5, <1>6, <1>7, <1>8, <1>9, <1>10, <1>11, <1>12, SweepInvKept

(***************************************************************************)
(* The next position of the sweep (vb_addr_direct_next): nothing lies      *)
(* between it and the present one, and the counter goes with it.           *)
(***************************************************************************)
LEMMA SweepAdvances ==
    ASSUME r \in Registers, r.flush_cnt # 0,
           r.flush_cnt = (NSets - 1 - r.req_addr.set) * Ways + (Ways - 1 - r.req_addr.way)
    PROVE  /\ r.flush_cnt - 1 = (NSets - 1 - AddrDirectNext.set) * Ways + (Ways - 1 - AddrDirectNext.way)
           /\ \A s \in Sets, w \in Way : Before(s, w, AddrDirectNext) =>
                 Before(s, w, r.req_addr) \/ (s = r.req_addr.set /\ w = r.req_addr.way)
<1>1. PICK s0 \in Sets, w0 \in Way : s0 = r.req_addr.set /\ w0 = r.req_addr.way
  BY DEF Registers, Addr
<1>2. /\ Ways \in Nat \ {0} /\ NSets \in Nat \ {0} /\ s0 \in Int /\ w0 \in Int
      /\ \A s \in Sets : s \in Int /\ 0 <= s /\ s <= NSets - 1
      /\ \A w \in Way : w \in Int /\ 0 <= w /\ w <= Ways - 1
  BY NWayAssumption DEF Sets, Way
<1>3. r.flush_cnt = (NSets - 1 - s0) * Ways + (Ways - 1 - w0) /\ r.req_addr \in Addr
  BY <1>1 DEF Registers
<1>4. CASE w0 = Ways - 1
  <2>1. s0 # NSets - 1
    BY <1>3, <1>4, SweepNumbers
  <2>2. s0 < NSets - 1 /\ (s0 + 1) % NSets = s0 + 1
    <3>1. s0 \in Nat /\ s0 < NSets - 1
      BY <1>2, <2>1
    <3> QED BY <1>2, <3>1
  <2>3. AddrDirectNext.set = s0 + 1 /\ AddrDirectNext.way = 0
    BY <1>1, <1>3, <1>4, <2>2 DEF AddrDirectNext, Addr
  <2>4. r.flush_cnt - 1 = (NSets - 1 - (s0 + 1)) * Ways + (Ways - 1 - 0)
    <3>1. (NSets - 1 - s0) * Ways + (Ways - 1 - w0) - 1 = (NSets - 1 - (s0 + 1)) * Ways + (Ways - 1 - 0)
      BY <1>4, <2>2, SweepNumbers
    <3>2. PICK n \in Int : n = (NSets - 1 - s0) * Ways
      BY <1>2
    <3> QED BY <1>2, <1>3, <3>1, <3>2
  <2>5. \A s \in Sets, w \in Way : s < s0 + 1 \/ (s = s0 + 1 /\ w < 0) =>
           s < s0 \/ (s = s0 /\ w < w0) \/ (s = s0 /\ w = w0)
    BY <1>2, <1>4
  <2> QED BY <1>1, <2>3, <2>4, <2>5 DEF Before
<1>5. CASE w0 # Ways - 1
  <2>1. AddrDirectNext.set = s0 /\ AddrDirectNext.way = w0 + 1
    BY <1>1, <1>3, <1>5 DEF AddrDirectNext, Addr
  <2>2. r.flush_cnt - 1 = (NSets - 1 - s0) * Ways + (Ways - 1 - (w0 + 1))
    <3>1. PICK n \in Int : n = (NSets - 1 - s0) * Ways
      BY <1>2
    <3> QED BY <1>2, <1>3, <3>1
  <2>3. \A s \in Sets, w \in Way : s < s0 \/ (s = s0 /\ w < w0 + 1) =>
           s < s0 \/ (s = s0 /\ w < w0) \/ (s = s0 /\ w = w0)
    <3>1. \A w \in Way : w < w0 + 1 => w < w0 \/ w = w0
      BY <1>2
    <3> QED BY <3>1
  <2> QED BY <1>1, <2>1, <2>2, <2>3 DEF Before
<1> QED BY <1>4, <1>5

\* In a step of the flush the outputs are those of its position.
LEMMA SweepOut ==
    ASSUME ControlInv, r.state = "FlushCheck"
    PROVE  /\ HitIdx = r.req_addr.way /\ rd.addr = r.req_addr
           /\ r.req_addr.set \in Sets /\ r.req_addr.way \in Way
           /\ Out = ram[r.req_addr.set][r.req_addr.way] /\ Out \in Entry
           /\ At(RAddr) = Place(r.req_addr.set, r.req_addr.way) /\ RAddr.tag = Out.tag
<1>1. rd.direct /\ rd.addr = r.req_addr
  BY DEF ControlInv, PortInv
<1>2. HitIdx = r.req_addr.way
  BY <1>1 DEF HitIdx
<1> QED BY <1>1, <1>2, OutFacts DEF RAddr

(***************************************************************************)
(* While a line dropped by a flush is on its way to the memory, nothing is *)
(* required of the registers of a request, either.                         *)
(***************************************************************************)
LEMMA LeavingInvKept ==
    ASSUME TypeOK', load' \in Workloads, DstInv', ToldInv', d'.state \notin {"ReadMem", "WriteMem"},
           r'.state \in {"WaitGrant", "WriteBus"}, r'.mem_valid <=> r'.state = "WaitGrant",
           r'.write_flush, ~r'.write_first, ~r'.fault, r'.req_flush_all, ~rd'.invalidate,
           r'.mem_type = "WriteBack", r'.mem_addr.tag \notin Faulty, r'.mem_strb = Words,
           BusInv', NoAlias', CachedTags', LinesNewest', MemNewest', WriteNewest', SweepInv'
    PROVE  L2Inv'
<1>1. ~Serving' /\ ~Asking'
  BY DEF Serving, Asking
<1>2. FlagsInv' /\ PortInv'
  BY <1>1 DEF FlagsInv, PortInv, Giving
<1>3. ServeInv' /\ MemInv' /\ LookupInv' /\ VictimSaved' /\ AnswerNewest' /\ ResetEmpty'
  BY <1>1 DEF ServeInv, MemInv, LookupInv, VictimSaved, AnswerNewest, ResetEmpty
<1> QED BY <1>2, <1>3 DEF L2Inv, ControlInv, DataInv

(***************************************************************************)
(* FlushCheck: the line at the position is dropped; if it was dirty its    *)
(* newest contents are on their way to the memory from then on.            *)
(***************************************************************************)
LEMMA FlushCheckKeeps ==
    ASSUME L2Inv, NEW in, Clock(in), FlushCheck(in)
    PROVE  L2Inv'
<1>0. ControlInv /\ DataInv /\ SweepInv
  BY DEF L2Inv
<1>1. FlushCheckDone(in)
  BY <1>0, FlushCheckEffect
<1>2. r.state = "FlushCheck" /\ ~Serving /\ ~Giving /\ ~Leaving
  BY DEF FlushCheck, Serving, Giving, Leaving
<1>3. ~r.mem_valid /\ ~r.write_first /\ ~r.write_flush /\ ~r.fault /\ r.req_flush_all
  BY <1>0, <1>2 DEF ControlInv, FlagsInv
<1>4. /\ r' \in Registers /\ TagTypeOK' /\ Dropped /\ mem' = mem /\ bus' = None /\ ~rd'.invalidate
      /\ ~r'.write_first /\ ~r'.fault /\ FlushLatched(in, r') /\ r'.req_flush_all
      /\ r'.req_addr = IF r.flush_cnt = 0 THEN r.req_addr ELSE AddrDirectNext
      /\ r'.flush_cnt = IF r.flush_cnt = 0 THEN 0 ELSE r.flush_cnt - 1
  BY <1>0, <1>1, <1>2, <1>3, NoBus DEF FlushCheckDone, BusWaits, FlushLatched
<1>5. /\ TypeOK' /\ load' \in Workloads /\ DstInv' /\ ToldInv' /\ owner' = owner /\ newest' = newest
      /\ d'.state \notin {"ReadMem", "WriteMem"}
  BY <1>0, <1>2, <1>4, SweepPort
<1> DEFINE s0 == r.req_addr.set
           w0 == r.req_addr.way
<1>6. /\ s0 \in Sets /\ w0 \in Way /\ Out = ram[s0][w0] /\ Out \in Entry
      /\ At(RAddr) = Place(s0, w0) /\ RAddr.tag = Out.tag
  BY <1>0, <1>2, SweepOut
<1>7. /\ NoAlias' /\ CachedTags'
      /\ \A s \in Sets, w \in Way : Valid(s, w)' <=> Valid(s, w) /\ ~(s = s0 /\ w = w0)
      /\ \A s \in Sets, w \in Way : Valid(s, w)' => ram'[s][w] = ram[s][w]
  BY <1>0, <1>4, SweptFacts
<1>8. \A s \in Sets, w \in Way : Before(s, w, r'.req_addr) => ~Valid(s, w)'
  <2>1. CASE r.flush_cnt = 0
    BY <1>0, <1>2, <1>4, <1>7, <2>1 DEF SweepInv
  <2>2. CASE r.flush_cnt # 0
    <3>1. \A s \in Sets, w \in Way : Before(s, w, AddrDirectNext) =>
             Before(s, w, r.req_addr) \/ (s = s0 /\ w = w0)
      BY <1>0, <1>2, <2>2, SweepAdvances DEF SweepInv, ControlInv, TypeOK, L2TypeOK
    <3> QED BY <1>0, <1>2, <1>4, <1>7, <2>2, <3>1 DEF SweepInv
  <2> QED BY <2>1, <2>2
<1>9. r'.flush_cnt = (NSets - 1 - r'.req_addr.set) * Ways + (Ways - 1 - r'.req_addr.way)
  <2>1. CASE r.flush_cnt = 0
    <3>1. r'.flush_cnt = r.flush_cnt /\ r'.req_addr = r.req_addr
      BY <1>4, <2>1
    <3> QED BY <1>0, <1>2, <3>1 DEF SweepInv
  <2>2. CASE r.flush_cnt # 0
    <3>1. r'.flush_cnt = r.flush_cnt - 1 /\ r'.req_addr = AddrDirectNext
      BY <1>4, <2>2
    <3>2. r.flush_cnt - 1 = (NSets - 1 - AddrDirectNext.set) * Ways + (Ways - 1 - AddrDirectNext.way)
      BY <1>0, <1>2, <2>2, SweepAdvances DEF SweepInv, ControlInv, TypeOK, L2TypeOK
    <3> QED BY <3>1, <3>2
  <2> QED BY <2>1, <2>2
<1>10. SweepInv'
  BY <1>8, <1>9 DEF SweepInv
<1>11. Valid(s0, w0) =>
          /\ owner[Place(s0, w0)] = None /\ Out.data = newest[Place(s0, w0)] /\ Out.tag \notin Faulty
          /\ ~Offload => mem[Place(s0, w0)] = newest[Place(s0, w0)]
  BY <1>0, <1>2, <1>6 DEF DataInv, LinesNewest, Given, ControlInv, CachedTags, Offload, Valid
<1>12. LinesNewest'
  BY <1>0, <1>2, <1>4, <1>5, <1>7 DEF DataInv, LinesNewest, Given, Place
<1>13. ASSUME NEW q \in Places, owner[q] = None, mem[q] # newest[q], ~Held(q)'
       PROVE  Valid(s0, w0) /\ q = Place(s0, w0) /\ Offload
  <2>1. PICK w \in Way : Valid(q[2], w) /\ ram[q[2]][w].tag = q[1]
    BY <1>0, <1>2, <1>13 DEF DataInv, MemNewest, Held
  <2>2. q[2] \in Sets /\ q = <<q[1], q[2]>>
    BY DEF Places
  <2>3. q[2] = s0 /\ w = w0
    BY <1>7, <1>13, <2>1, <2>2 DEF Held
  <2>4. Valid(s0, w0) /\ q = Place(s0, w0)
    BY <2>1, <2>2, <2>3 DEF Place
  <2> QED BY <1>11, <1>13, <2>4
<1>14. CASE Offload
  <2>1. /\ r'.write_flush /\ r'.mem_valid /\ r'.mem_type = "WriteBack" /\ r'.mem_strb = Words
        /\ r'.mem_addr = RAddr /\ r'.line_o = Out.data /\ r'.state = "WaitGrant"
    BY <1>1, <1>14 DEF FlushCheckDone
  <2>2. Valid(s0, w0)
    BY <1>6, <1>14 DEF Offload, Valid
  <2>3. Leaving' /\ At(r'.mem_addr) = Place(s0, w0)
    BY <1>6, <2>1 DEF Leaving
  <2>4. MemNewest'
    BY <1>4, <1>5, <1>13, <2>3 DEF MemNewest
  <2>5. WriteNewest'
    BY <1>5, <1>11, <2>1, <2>2, <2>3 DEF WriteNewest
  <2>6. BusInv'
    BY <1>4 DEF BusInv
  <2>7. r'.mem_addr.tag \notin Faulty
    BY <1>6, <1>11, <2>1, <2>2
  <2> QED BY <1>4, <1>5, <1>7, <1>10, <1>12, <2>1, <2>4, <2>5, <2>6, <2>7, LeavingInvKept
<1>15. CASE ~Offload
  <2>1. ~r'.write_flush /\ ~r'.mem_valid /\ r'.state \in {"Idle", "FlushAddr"}
    BY <1>1, <1>3, <1>15 DEF FlushCheckDone
  <2>2. NoRequest
    BY <1>4, <1>5, <2>1 DEF NoRequest
  <2>3. FlagsInv'
    BY <1>4, <2>1 DEF FlagsInv
  <2>4. PortInv' /\ ResetEmpty'
    BY <1>4, <2>1 DEF PortInv, Giving, Serving, ResetEmpty
  <2>5. MemNewest'
    BY <1>4, <1>5, <1>13, <1>15 DEF MemNewest
  <2> QED BY <1>5, <1>7, <1>10, <1>12, <2>2, <2>3, <2>4, <2>5, SweepInvKept
<1> QED BY <1>14, <1>15

\* what stays while a dropped line is on its way
LEMMA LeavingPlain ==
    ASSUME ControlInv, DataInv, Leaving
    PROVE  /\ ~Serving /\ ~Giving /\ r.write_flush /\ ~r.write_first /\ ~r.fault /\ r.req_flush_all
           /\ ~rd.invalidate /\ r.mem_type = "WriteBack" /\ r.mem_addr.tag \notin Faulty
           /\ r.mem_strb = Words /\ owner[At(r.mem_addr)] = None
           /\ r.line_o = newest[At(r.mem_addr)] /\ At(r.mem_addr) \in Places
<1>1. /\ r.write_flush /\ r.state \in {"WaitGrant", "WriteBus"} /\ ~Serving /\ ~Giving /\ Writes
  BY DEF Leaving, Serving, Giving, Writes
<1>2. ~r.write_first /\ ~r.fault /\ r.req_flush_all /\ ~rd.invalidate
  BY <1>1 DEF ControlInv, FlagsInv, PortInv
<1>3. r.mem_type = "WriteBack" /\ r.mem_addr.tag \notin Faulty /\ r.mem_strb = Words
  BY <1>1 DEF ControlInv, MemInv
<1>4. owner[At(r.mem_addr)] = None /\ r.line_o = newest[At(r.mem_addr)]
  BY <1>1 DEF DataInv, WriteNewest
<1>5. At(r.mem_addr) \in Places
  BY PlaceOf DEF ControlInv, TypeOK, L2TypeOK, Registers
<1> QED BY <1>1, <1>2, <1>3, <1>4, <1>5

\* A dropped line waits for the memory.
LEMMA LeavingWaits ==
    ASSUME L2Inv, NEW in, Clock(in), Leaving, OnTheWay(in), mem' = mem, BusInv', ~r'.fault,
           r'.state \in {"WaitGrant", "WriteBus"}, r'.mem_valid <=> r'.state = "WaitGrant"
    PROVE  L2Inv'
<1>0. ControlInv /\ DataInv /\ SweepInv
  BY DEF L2Inv
<1>1. /\ ~Serving /\ ~Giving /\ r.write_flush /\ ~r.write_first /\ r.req_flush_all
      /\ r.mem_type = "WriteBack" /\ r.mem_addr.tag \notin Faulty /\ r.mem_strb = Words
      /\ r.state \notin {"Idle", "CheckHit"}
  BY <1>0, LeavingPlain DEF Leaving
<1>2. /\ r' \in Registers /\ TagTypeOK' /\ ram' = ram /\ ~rd'.invalidate /\ FlushLatched(in, r')
      /\ r'.mem_addr = r.mem_addr /\ r'.line_o = r.line_o /\ r'.mem_type = r.mem_type
      /\ r'.mem_strb = r.mem_strb /\ r'.write_first = r.write_first /\ r'.write_flush = r.write_flush
      /\ r'.req_addr = r.req_addr /\ r'.flush_cnt = r.flush_cnt
  BY DEF OnTheWay, PortRests, RamKept, MemKept, WritesKept, ReqKept
<1>3. /\ TypeOK' /\ load' \in Workloads /\ DstInv' /\ ToldInv' /\ owner' = owner /\ newest' = newest
      /\ d'.state \notin {"ReadMem", "WriteMem"}
  BY <1>0, <1>1, <1>2, SweepPort
<1>4. Leaving'
  BY <1>1, <1>2 DEF Leaving
<1>5. NoAlias' /\ CachedTags' /\ LinesNewest' /\ MemNewest'
  BY <1>0, <1>1, <1>2, <1>3, <1>4, RamSame, SameData DEF ControlInv, DataInv
<1>6. WriteNewest'
  BY <1>0, <1>1, <1>2, <1>3, LeavingPlain DEF WriteNewest
<1>7. SweepInv'
  BY <1>0, <1>2 DEF SweepInv, Valid
<1>8. r'.req_flush_all
  BY <1>1, <1>2 DEF FlushLatched
<1> QED BY <1>1, <1>2, <1>3, <1>5, <1>6, <1>7, <1>8, LeavingInvKept

\* A dropped line that has come to the memory.
LEMMA LeavingStored ==
    ASSUME L2Inv, NEW in, Clock(in), WriteBus(in), Leaving, in.mem # None
    PROVE  L2Inv'
<1>0. ControlInv /\ DataInv /\ SweepInv
  BY DEF L2Inv
<1>1. WriteBusDone(in)
  BY <1>0, WriteBusEffect
<1>2. /\ ~Serving /\ ~Giving /\ r.write_flush /\ r.req_flush_all /\ r.mem_addr.tag \notin Faulty
      /\ r.line_o = newest[At(r.mem_addr)] /\ At(r.mem_addr) \in Places /\ r.state = "WriteBus"
  BY <1>0, LeavingPlain DEF WriteBus
<1>3. /\ r' \in Registers /\ TagTypeOK' /\ ram' = ram /\ ~rd'.invalidate /\ FlushLatched(in, r')
      /\ r'.req_addr = r.req_addr /\ r'.flush_cnt = r.flush_cnt /\ r'.state = "FlushAddr"
      /\ ~r'.mem_valid /\ ~r'.write_first /\ ~r'.fault /\ bus' = None
      /\ mem' = [mem EXCEPT ![At(r.mem_addr)] = newest[At(r.mem_addr)]]
  BY <1>1, <1>2 DEF WriteBusDone, PortRests, RamKept
<1>4. /\ TypeOK' /\ load' \in Workloads /\ DstInv' /\ ToldInv' /\ owner' = owner /\ newest' = newest
      /\ d'.state \notin {"ReadMem", "WriteMem"}
  BY <1>0, <1>2, <1>3, SweepPort
<1>5. NoRequest
  BY <1>3, <1>4 DEF NoRequest
<1>6. LinesNewest' /\ MemNewest'
  BY <1>0, <1>2, <1>3, <1>4, LineStored
<1>7. NoAlias' /\ CachedTags'
  BY <1>0, <1>3, RamSame DEF ControlInv
<1>8. FlagsInv'
  BY <1>2, <1>3 DEF FlagsInv, FlushLatched
<1>9. PortInv' /\ ResetEmpty'
  BY <1>3 DEF PortInv, Giving, Serving, ResetEmpty
<1>10. SweepInv'
  BY <1>0, <1>3 DEF SweepInv, Valid
<1> QED BY <1>4, <1>5, <1>6, <1>7, <1>8, <1>9, <1>10, SweepInvKept

\* A dropped line in WaitGrant, and in WriteBus before the memory answers.
LEMMA LeavingKeeps ==
    ASSUME L2Inv, NEW in, Clock(in), WaitGrant(in) \/ WriteBus(in), Leaving
    PROVE  L2Inv'
<1>0. ControlInv /\ DataInv
  BY DEF L2Inv
<1>1. r.write_flush /\ ~r.fault
  BY <1>0, LeavingPlain
<1>2. CASE WaitGrant(in)
  <2>1. WaitGrantDone(in) /\ r.state = "WaitGrant" /\ bus = None
    BY <1>0, <1>2, WaitGrantEffect, NoBus DEF WaitGrant
  <2>2. /\ OnTheWay(in) /\ mem' = mem /\ ~r'.fault
        /\ r'.mem_type = r.mem_type /\ r'.mem_addr = r.mem_addr /\ r'.mem_strb = r.mem_strb
        /\ r'.line_o = r.line_o
    BY <1>1, <2>1 DEF WaitGrantDone, LineKept, OnTheWay, MemKept
  <2>3. \/ /\ r'.state = "WriteBus" /\ ~r'.mem_valid
           /\ bus' = [type |-> r.mem_type, addr |-> r.mem_addr, data |-> r.line_o, strb |-> r.mem_strb]
        \/ r'.state = "WaitGrant" /\ r'.mem_valid /\ bus' = None
    BY <1>1, <2>1 DEF WaitGrantDone
  <2>4. BusInv'
    BY <2>2, <2>3 DEF BusInv
  <2> QED BY <2>2, <2>3, <2>4, LeavingWaits
<1>3. CASE WriteBus(in) /\ in.mem = None
  <2>1. WriteBusDone(in) /\ r.state = "WriteBus"
    BY <1>0, <1>3, WriteBusEffect DEF WriteBus
  <2>2. /\ OnTheWay(in) /\ mem' = mem /\ ~r'.fault /\ r'.state = "WriteBus" /\ ~r'.mem_valid /\ bus' = bus
        /\ r'.mem_type = r.mem_type /\ r'.mem_addr = r.mem_addr /\ r'.mem_strb = r.mem_strb
        /\ r'.line_o = r.line_o
    BY <1>3, <2>1 DEF WriteBusDone, OnTheWay, MemKept, BusWaits
  <2>3. BusInv'
    BY <1>0, <2>1, <2>2 DEF BusInv, ControlInv
  <2> QED BY <2>2, <2>3, LeavingWaits
<1>4. CASE WriteBus(in) /\ in.mem # None
  BY <1>4, LeavingStored
<1> QED BY <1>2, <1>3, <1>4

----------------------------------------------------------------------------
\* The invariant

\* Every clock preserves it.
LEMMA ClockKeeps ==
    ASSUME L2Inv, NEW in, Clock(in)
    PROVE  L2Inv'
<1>0. ControlInv /\ DataInv
  BY DEF L2Inv
<1>1. CASE Idle(in)
  BY <1>1, IdleKeeps
<1>2. CASE HitGiveAway(in)
  BY <1>2, HitGiveAwayKeeps
<1>3. CASE HitWrite(in)
  <2>1. Serving /\ r.state = "CheckHit" /\ Hit /\ IsWrite /\ ~IsUnique
    BY <1>0, <1>3 DEF HitWrite, Serving, ControlInv, FlagsInv
  <2> QED BY <1>0, <2>1, HitFacts
<1>4. CASE HitRead(in)
  BY <1>4, HitReadKeeps
<1>5. CASE Miss(in)
  <2>1. CASE MissIsDone
    BY <1>5, <2>1, MissDoneKeeps
  <2>2. CASE ~MissIsDone
    <3>1. Serving
      BY <1>0, <1>5 DEF Miss, Serving, ControlInv, FlagsInv
    <3>2. ~MissIsSnooped
      BY <1>0, <3>1, ServeFacts DEF MissIsSnooped
    <3> QED BY <1>5, <2>2, <3>2, MissGoKeeps
  <2> QED BY <2>1, <2>2
<1>6. CASE TranslateAddress(in)
  BY <1>6, TranslateKeeps
<1>7. CASE WaitGrant(in)
  <2>1. CASE Leaving
    BY <1>7, <2>1, LeavingKeeps
  <2>2. CASE ~Leaving
    <3>1. Serving
      BY <1>7, <2>2 DEF WaitGrant, Leaving, Serving
    <3> QED BY <1>7, <3>1, WaitGrantKeeps
  <2> QED BY <2>1, <2>2
<1>8. CASE WaitResp(in)
  BY <1>8, WaitRespKeeps
<1>9. CASE CheckResp(in)
  <2>1. CASE Direct
    BY <1>9, <2>1, DirectKeeps
  <2>2. CASE ~Direct /\ IsWrite
    BY <1>9, <2>2, FillWriteKeeps
  <2>3. CASE ~Direct /\ ~IsWrite
    BY <1>9, <2>3, FillReadKeeps
  <2> QED BY <2>1, <2>2, <2>3
<1>10. CASE SetupReadAdr(in)
  BY <1>10, SetupReadAdrKeeps
<1>11. CASE WriteBus(in)
  <2>1. CASE Leaving
    BY <1>11, <2>1, LeavingKeeps
  <2>2. CASE ~Leaving
    <3>1. Serving
      BY <1>11, <2>2 DEF WriteBus, Leaving, Serving
    <3> QED BY <1>11, <3>1, WriteBusWaits, VictimWritten, WordWritten
  <2> QED BY <2>1, <2>2
<1>12. CASE FlushAddr(in)
  BY <1>12, FlushAddrKeeps
<1>13. CASE FlushCheck(in)
  BY <1>13, FlushCheckKeeps
<1>14. CASE Reset(in)
  BY <1>14, ResetKeeps
<1>15. CASE ResetWrite(in)
  BY <1>15, ResetWriteKeeps
<1> QED BY <1>1, <1>2, <1>3, <1>4, <1>5, <1>6, <1>7, <1>8, <1>9, <1>10, <1>11, <1>12, <1>13,
           <1>14, <1>15 DEF Clock, L2Clock

\* It holds out of reset: the cache and the port are empty.
LEMMA InitInv == Init => L2Inv
<1> SUFFICES ASSUME Init PROVE L2Inv
  OBVIOUS
<1>1. /\ ram = [s \in Sets |-> [w \in Way |-> [tag |-> 0, flags |-> {}, data |-> ZeroLine]]]
      /\ lru = [s \in Sets |-> [w \in Way |-> 0]]
      /\ rd = [addr |-> ZeroAddr, direct |-> FALSE, invalidate |-> FALSE, re |-> FALSE,
               snoop |-> ZeroAddr]
      /\ d = Port!DstReset /\ adr = ZeroAddr /\ mem = [p \in Places |-> ZeroLine] /\ newest = mem
      /\ bus = None /\ owner = [p \in Places |-> None] /\ load \in Workloads /\ told = None
  BY DEF Init, L2Init, TagInit, Port!DstInit
<1>2. /\ r.state = "Reset" /\ ~r.mem_valid /\ ~r.write_flush /\ ~r.write_first /\ ~r.fault
      /\ r.flush_cnt = 0
  BY DEF Init, L2Init
<1>3. ZeroAddr \in Addr /\ ZeroLine \in Line /\ 0 \in Tags /\ 0 \in Way
  BY Zeros, Bounds, DataAssumption
<1>4. TagTypeOK
  <2>1. [tag |-> 0, flags |-> {}, data |-> ZeroLine] \in Entry
    BY <1>3 DEF Entry
  <2>2. rd \in ReadRegisters
    BY <1>1, <1>3 DEF ReadRegisters
  <2> QED BY <1>1, <1>3, <2>1, <2>2 DEF TagTypeOK
<1>5. r \in Registers
  <2>1. 0 \in 0 .. FLUSH_ALL_VALUE
    <3>1. NSets * Ways \in Nat \ {0}
      BY NWayAssumption
    <3> QED BY <3>1 DEF FLUSH_ALL_VALUE
  <2>2. "Reset" \in States /\ "ReadNoSnoop" \in MemTypes /\ {} \in ReqTypes /\ {} \in SUBSET Words
    BY DEF States, MemTypes, ReqTypes
  <2> HIDE DEF ZeroAddr, ZeroLine
  <2> QED BY <1>3, <2>1, <2>2 DEF Init, L2Init, Registers
<1>6. TypeOK
  <2>1. Port!DstTypeOK
    BY <1>1, ResetType DEF Port!DstTypeOK, Port!ReqTypes, ReqTypes
  <2> QED BY <1>1, <1>3, <1>4, <1>5, <2>1 DEF TypeOK, L2TypeOK
<1>7. d.state = "Idle" /\ d = Port!DstReset
  BY <1>1 DEF Port!DstReset
<1>8. DstInv
  BY <1>1, <1>7 DEF DstInv, RequestInv, WriteInv, ReadInv, SnoopInv, OwnerInv
<1>9. ~Serving /\ ~Asking /\ ~Giving /\ ~Leaving /\ \A s \in Sets, w \in Way : ~Valid(s, w)
  BY <1>1, <1>2 DEF Serving, Asking, Giving, Leaving, Valid
<1>10. FlagsInv /\ ServeInv /\ MemInv /\ BusInv /\ PortInv /\ LookupInv
  BY <1>1, <1>2, <1>7, <1>9 DEF FlagsInv, ServeInv, MemInv, BusInv, PortInv, LookupInv, Writes
<1>11. NoAlias /\ CachedTags
  BY <1>9 DEF NoAlias, CachedTags
<1>12. LinesNewest /\ MemNewest /\ WriteNewest /\ VictimSaved /\ AnswerNewest /\ ResetEmpty
  BY <1>1, <1>2, <1>9 DEF LinesNewest, MemNewest, WriteNewest, VictimSaved, AnswerNewest, ResetEmpty
<1>13. ToldInv
  BY <1>1, NoneAssumption DEF ToldInv
<1>14. SweepInv
  BY <1>2, <1>9 DEF SweepInv
<1> QED BY <1>1, <1>6, <1>8, <1>10, <1>11, <1>12, <1>13, <1>14 DEF L2Inv, ControlInv, DataInv

\* A step in which nothing changes preserves it.
LEMMA StutterKeeps == L2Inv /\ UNCHANGED vars => L2Inv'
<1> SUFFICES ASSUME L2Inv, UNCHANGED vars PROVE L2Inv'
  OBVIOUS
<1>1. /\ r' = r /\ ram' = ram /\ lru' = lru /\ rd' = rd /\ d' = d /\ adr' = adr /\ mem' = mem
      /\ bus' = bus /\ owner' = owner /\ newest' = newest /\ load' = load /\ told' = told
  BY DEF vars, state, l2vars
<1>0. ControlInv /\ DataInv /\ SweepInv
  BY DEF L2Inv
<1>2. TypeOK' /\ load' \in Workloads
  <2>1. TagTypeOK' /\ r' \in Registers
    BY <1>0, <1>1 DEF ControlInv, TypeOK, L2TypeOK, TagTypeOK
  <2>2. Port!DstTypeOK'
    BY <1>0, <1>1 DEF ControlInv, TypeOK, Port!DstTypeOK
  <2> QED BY <1>0, <1>1, <2>1, <2>2 DEF ControlInv, TypeOK, L2TypeOK
<1>3. DstInv'
  <2>1. RequestInv' /\ SnoopInv' /\ OwnerInv'
    BY <1>0, <1>1 DEF ControlInv, DstInv, RequestInv, SnoopInv, OwnerInv
  <2>2. WriteInv' /\ ReadInv'
    BY <1>0, <1>1 DEF ControlInv, DstInv, WriteInv, ReadInv
  <2> QED BY <1>0, <1>1, <2>1, <2>2 DEF ControlInv, DstInv, Port!DstReset
<1>4. /\ (Serving' <=> Serving) /\ (Asking' <=> Asking) /\ (Giving' <=> Giving)
      /\ (Leaving' <=> Leaving) /\ (Writes' <=> Writes)
  BY <1>1 DEF Serving, Asking, Giving, Leaving, Writes
<1>5. /\ (IsWrite' <=> IsWrite) /\ (IsCached' <=> IsCached) /\ (IsUnique' <=> IsUnique)
      /\ (MissIsDone' <=> MissIsDone) /\ ReadType' = ReadType
  BY <1>1 DEF IsWrite, IsCached, IsUnique, MissIsDone, ReadType
<1>6. HitIdx' = HitIdx /\ (Hit' <=> Hit)
  BY <1>1 DEF HitIdx, Hit, WayHit, Lru0!Lru
<1>7. /\ \A s, w : (Valid(s, w)' <=> Valid(s, w)) /\ Place(s, w)' = Place(s, w)
                    /\ (Given(s, w)' <=> Given(s, w))
      /\ \A p : Held(p)' <=> Held(p)
  BY <1>1, <1>4 DEF Valid, Place, Given, Held
<1>8. FlagsInv' /\ ServeInv' /\ MemInv' /\ BusInv'
  BY <1>0, <1>1, <1>4, <1>5 DEF ControlInv, FlagsInv, ServeInv, MemInv, BusInv
<1>9. PortInv' /\ LookupInv' /\ NoAlias' /\ CachedTags'
  BY <1>0, <1>1, <1>4, <1>6, <1>7 DEF ControlInv, PortInv, LookupInv, NoAlias, CachedTags
<1>10. LinesNewest' /\ MemNewest' /\ WriteNewest'
  BY <1>0, <1>1, <1>4, <1>7 DEF DataInv, LinesNewest, MemNewest, WriteNewest
<1>11. VictimSaved'
  <2>1. /\ (Valid(rd.addr.set, HitIdx)' <=> Valid(rd.addr.set, HitIdx))
        /\ Place(rd.addr.set, HitIdx)' = Place(rd.addr.set, HitIdx)
    BY <1>1, <1>6 DEF Valid, Place
  <2> QED BY <1>0, <1>1, <1>4, <1>5, <2>1 DEF DataInv, VictimSaved
<1>12. AnswerNewest' /\ ResetEmpty' /\ ToldInv'
  BY <1>0, <1>1, <1>4, <1>5, <1>7 DEF DataInv, AnswerNewest, ResetEmpty, ToldInv
<1>13. SweepInv'
  BY <1>0, <1>1, <1>4, <1>7 DEF SweepInv
<1> QED BY <1>2, <1>3, <1>8, <1>9, <1>10, <1>11, <1>12, <1>13 DEF L2Inv, ControlInv, DataInv

(***************************************************************************)
(* The controller, the port, the memory and the owners of the lines fit    *)
(* each other in every state (l2cache_lru.cpp, l2_dst.cpp).                *)
(***************************************************************************)
THEOREM L2Invariant == Spec => []L2Inv
<1>1. L2Inv /\ [Next]_vars => L2Inv'
  <2>1. ASSUME L2Inv, Next PROVE L2Inv'
    <3>1. ControlInv
      BY <2>1 DEF L2Inv
    <3>2. PICK in : Clock(in)
      BY <2>1, <3>1, StepClock
    <3> QED BY <2>1, <3>2, ClockKeeps
  <2> QED BY <2>1, StutterKeeps
<1> QED BY InitInv, <1>1, PTL DEF Spec

(***************************************************************************)
(* Every answer belongs to the request of the port, a fault is told        *)
(* exactly of an access that failed, and a read returns the newest         *)
(* contents of its line wherever they are (State_CheckHit ..               *)
(* State_WriteBus).                                                        *)
(***************************************************************************)
THEOREM ReadsNewest == Spec => []L2ReadsNewest
<1>1. L2Inv => L2ReadsNewest
  BY DEF L2Inv, ControlInv, DataInv, ToldInv, L2ReadsNewest
<1> QED BY L2Invariant, <1>1, PTL

(***************************************************************************)
(* Between two requests every valid line is the only one with its address, *)
(* holds the newest contents and is owned by no L1 cache: the invalidation *)
(* of a line given away has met that line.                                 *)
(***************************************************************************)
THEOREM HoldsNewest == Spec => []L2HoldsNewest
<1>1. L2Inv => L2HoldsNewest
  <2> SUFFICES ASSUME L2Inv, ~rd.invalidate, NEW s \in Sets, NEW w \in Way, "VALID" \in ram[s][w].flags
               PROVE  /\ owner[<<ram[s][w].tag, s>>] = None
                      /\ ram[s][w].data = newest[<<ram[s][w].tag, s>>]
                      /\ \A x \in Way \ {w} : "VALID" \in ram[s][x].flags => ram[s][x].tag # ram[s][w].tag
    BY DEF L2HoldsNewest
  <2>1. ~Given(s, w) /\ Valid(s, w)
    BY DEF Given, Giving, Valid
  <2>2. owner[Place(s, w)] = None /\ ram[s][w].data = newest[Place(s, w)]
    BY <2>1 DEF L2Inv, DataInv, LinesNewest
  <2>3. \A x \in Way \ {w} : "VALID" \in ram[s][x].flags => ram[s][x].tag # ram[s][w].tag
    BY <2>1 DEF L2Inv, ControlInv, NoAlias, Valid
  <2> QED BY <2>2, <2>3 DEF Place
<1> QED BY L2Invariant, <1>1, PTL

(***************************************************************************)
(* When o_flush_end is raised, the memory holds the newest contents of     *)
(* every line that no L1 cache owns, whatever was requested, displaced or  *)
(* written back while the sweep was on its way.                            *)
(***************************************************************************)
THEOREM FlushedToMemory == Spec => []L2FlushedToMemory
<1>1. L2Inv => L2FlushedToMemory
  <2> SUFFICES ASSUME L2Inv, FlushEnd, NEW p \in Places, owner[p] = None
               PROVE  mem[p] = newest[p]
    BY DEF L2FlushedToMemory
  <2>0. ControlInv /\ DataInv /\ SweepInv
    BY DEF L2Inv
  <2>1. r.state = "FlushCheck" /\ ~Offload /\ r.flush_cnt = 0 /\ ~Giving /\ ~Leaving
    BY DEF FlushEnd, Giving, Leaving
  <2>2. /\ r.req_addr.set \in Sets /\ r.req_addr.way \in Way
        /\ Out = ram[r.req_addr.set][r.req_addr.way]
    BY <2>0, <2>1, SweepOut
  <2>3. r.req_addr.set = NSets - 1 /\ r.req_addr.way = Ways - 1
    BY <2>0, <2>1, <2>2, SweepNumbers DEF SweepInv
  <2>4. \A s \in Sets, w \in Way : Valid(s, w) => s = NSets - 1 /\ w = Ways - 1
    <3>1. \A s \in Sets, w \in Way : s < NSets - 1 \/ (s = NSets - 1 /\ w < Ways - 1)
                                        \/ (s = NSets - 1 /\ w = Ways - 1)
      BY NWayAssumption DEF Sets, Way
    <3> QED BY <2>0, <2>1, <2>3, <3>1 DEF SweepInv, Before
  <2>5. ASSUME Held(p) PROVE mem[p] = newest[p]
    <3>1. PICK w \in Way : Valid(p[2], w) /\ ram[p[2]][w].tag = p[1]
      BY <2>5 DEF Held
    <3>2. p[2] \in Sets /\ p = <<p[1], p[2]>>
      BY DEF Places
    <3>3. p[2] = r.req_addr.set /\ w = r.req_addr.way
      BY <2>3, <2>4, <3>1, <3>2
    <3>4. "DIRTY" \notin ram[p[2]][w].flags
      BY <2>1, <2>2, <3>1, <3>3 DEF Offload, Valid
    <3>5. Place(p[2], w) = p
      BY <3>1, <3>2 DEF Place
    <3> QED BY <2>0, <2>1, <3>1, <3>2, <3>4, <3>5 DEF DataInv, LinesNewest, Given
  <2> QED BY <2>0, <2>1, <2>5 DEF DataInv, MemNewest
<1> QED BY L2Invariant, <1>1, PTL

----------------------------------------------------------------------------
(***************************************************************************)
(* The bus port of a core (cache_top.cpp), for a queue of any length of    *)
(* two or more.  A request is in the queue or on the bus exactly while its *)
(* cache waits for it, so there is at most one of each cache, the queue    *)
(* never overflows, and a cache that waits shows the data it asked with.   *)
(***************************************************************************)
\* of the ports pi and pd, that of the cache of request rq waits for its answer
TopWaits(pi, pd, rq) ==
    LET p == IF rq.path = "ctrl" THEN pi ELSE pd
    IN  p.st = "wait" /\ p.type = rq.type /\ p.addr = rq.addr

TopQueueInv ==
    /\ cwcnt \in 0 .. 2
    /\ cqueued \in [0 .. Depth - 1 -> Top!Request]
    /\ \A p, q \in 0 .. cwcnt - 1 : cqueued[p].path = cqueued[q].path => p = q

TopOwnInv == \A p \in 0 .. cwcnt - 1 : TopWaits(ci, cd, cqueued[p])

TopBusInv ==
    \/ cbus = None
    \/ /\ cbus \in TopRequest
       /\ TopWaits(ci, cd, cbus)
       /\ \A p \in 0 .. cwcnt - 1 : cqueued[p].path # cbus.path
       /\ cbus.type = "write" => cbus.data = csent

TopPortInv ==
    /\ ci \in Top!Port /\ cd \in Top!Port
    /\ ci.type = "read"
    /\ cwdata \in TopValues /\ csent \in TopValues
    /\ cd.st # "idle" => cwdata = csent
    /\ cjudged \in {"none", "good"}

\* a request of the cache with this path is in the queue or on the bus
TopOpen(path) ==
    \/ cbus # None /\ cbus.path = path
    \/ \E p \in 0 .. cwcnt - 1 : cqueued[p].path = path

TopOpenInv ==
    /\ ci.st = "wait" => TopOpen("ctrl")
    /\ cd.st = "wait" => TopOpen("data")

TopInv == TopQueueInv /\ TopOwnInv /\ TopBusInv /\ TopPortInv /\ TopOpenInv

----------------------------------------------------------------------------
(***************************************************************************)
(* What one clock does to the queue (core/queue.h): a word in it           *)
(* afterwards was in it before or is the word that came in, the words are  *)
(* still of different caches, and the word on the output is gone; no other *)
(* word is.                                                                *)
(***************************************************************************)
LEMMA TopQueueMoves ==
  ASSUME TopQueueInv,
         NEW re \in BOOLEAN, NEW we \in BOOLEAN, NEW x \in Top!Request,
         we => cwcnt # 2,
         we => \A p \in 0 .. cwcnt - 1 : cqueued[p].path # x.path,
         Top!Queue0!Clock(re, we, x)
  PROVE  /\ TopQueueInv'
         /\ \A p \in 0 .. cwcnt' - 1 :
               \/ we /\ cqueued'[p] = x
               \/ \E q \in 0 .. cwcnt - 1 : cqueued'[p] = cqueued[q]
         /\ re /\ Top!Queue0!Nempty(we) =>
               /\ \/ we /\ Top!Queue0!Rdata(x) = x
                  \/ \E q \in 0 .. cwcnt - 1 : Top!Queue0!Rdata(x) = cqueued[q]
               /\ \A p \in 0 .. cwcnt' - 1 : cqueued'[p].path # Top!Queue0!Rdata(x).path
         /\ we => \/ \E p \in 0 .. cwcnt' - 1 : cqueued'[p] = x
                  \/ re /\ Top!Queue0!Rdata(x) = x
         /\ \A q \in 0 .. cwcnt - 1 :
               \/ \E p \in 0 .. cwcnt' - 1 : cqueued'[p] = cqueued[q]
               \/ re /\ Top!Queue0!Rdata(x) = cqueued[q]
PROOF
  <1>. USE DEF Top!Queue0!Nempty, Top!Queue0!Rdata, Top!Queue0!Places
  <1>1. /\ Depth \in Nat /\ Depth >= 2 /\ cwcnt \in 0 .. 2
        /\ cqueued \in [0 .. Depth - 1 -> Top!Request]
        /\ \A p, q \in 0 .. cwcnt - 1 : cqueued[p].path = cqueued[q].path => p = q
    BY PortsAssumption DEF TopQueueInv
  <1>2. CASE re /\ we
    <2>1. cwcnt' = cwcnt /\ cwcnt \in 0 .. 1
      BY <1>1, <1>2 DEF Top!Queue0!Clock, Top!Queue0!WriteRead
    <2>2. CASE cwcnt = 0
      <3>1. cqueued' = Top!Queue0!Shifted
        BY <1>2, <2>2 DEF Top!Queue0!Clock, Top!Queue0!WriteRead
      <3>2. cqueued' \in [0 .. Depth - 1 -> Top!Request]
        BY <1>1, <3>1 DEF Top!Queue0!Shifted
      <3>3. QED
        BY <1>1, <1>2, <2>1, <2>2, <3>2 DEF TopQueueInv
    <2>3. CASE cwcnt = 1
      <3>1. cqueued' = [Top!Queue0!Shifted EXCEPT ![0] = x]
        BY <1>2, <2>3 DEF Top!Queue0!Clock, Top!Queue0!WriteRead
      <3>2. Top!Queue0!Shifted \in [0 .. Depth - 1 -> Top!Request]
        BY <1>1 DEF Top!Queue0!Shifted
      <3>3. cqueued' \in [0 .. Depth - 1 -> Top!Request] /\ cqueued'[0] = x
        BY <1>1, <3>1, <3>2
      <3>4. QED
        BY <1>1, <1>2, <2>1, <2>3, <3>3 DEF TopQueueInv
    <2>4. QED
      BY <2>1, <2>2, <2>3
  <1>3. CASE ~re /\ we
    <2>1. cwcnt \in 0 .. 1 /\ cwcnt # Depth
      BY <1>1, <1>3
    <2>2. cwcnt' = cwcnt + 1 /\ cqueued' = [cqueued EXCEPT ![cwcnt] = x]
      BY <1>3, <2>1 DEF Top!Queue0!Clock, Top!Queue0!Write
    <2>3. cqueued' \in [0 .. Depth - 1 -> Top!Request] /\ cqueued'[cwcnt] = x
      BY <1>1, <2>1, <2>2
    <2>4. \A p \in 0 .. cwcnt - 1 : cqueued'[p] = cqueued[p]
      BY <1>1, <2>1, <2>2
    <2>5. QED
      BY <1>1, <1>3, <2>1, <2>2, <2>3, <2>4 DEF TopQueueInv
  <1>4. CASE re /\ ~we
    <2>1. cwcnt' = (IF cwcnt = 0 THEN 0 ELSE cwcnt - 1) /\ cqueued' = Top!Queue0!Shifted
      BY <1>4 DEF Top!Queue0!Clock, Top!Queue0!Read
    <2>2. cqueued' \in [0 .. Depth - 1 -> Top!Request]
      BY <1>1, <2>1 DEF Top!Queue0!Shifted
    <2>3. \A p \in 0 .. cwcnt' - 1 : p + 1 \in 0 .. cwcnt - 1 /\ cqueued'[p] = cqueued[p + 1]
      BY <1>1, <2>1 DEF Top!Queue0!Shifted
    <2>4. \A q \in 0 .. cwcnt - 1 :
              q = 0 \/ (q - 1 \in 0 .. cwcnt' - 1 /\ cqueued'[q - 1] = cqueued[q])
      BY <1>1, <2>1, <2>3
    <2>5. QED
      BY <1>1, <1>4, <2>1, <2>2, <2>3, <2>4 DEF TopQueueInv
  <1>5. CASE ~re /\ ~we
    <2>1. cwcnt' = cwcnt /\ cqueued' = cqueued
      BY <1>5 DEF Top!Queue0!Clock
    <2>2. QED
      BY <1>1, <1>5, <2>1 DEF TopQueueInv
  <1>6. QED
    BY <1>2, <1>3, <1>4, <1>5

----------------------------------------------------------------------------
\* the inputs of a clock are those that Next allows
TopInputs(re, answer, ni, nd, v) ==
    /\ re \in BOOLEAN /\ (re => cbus = None)
    /\ answer \in BOOLEAN /\ (answer => cbus # None)
    /\ ni \in Top!Requests(ci, {"read"}) /\ nd \in Top!Requests(cd, {"read", "write"})
    /\ cd.st = "idle" => v \in TopValues

\* The ports stay ports, the instruction cache only reads, and the data of a
\* request do not change while it is open.
LEMMA TopPortsKeep ==
  ASSUME TopPortInv, TopBusInv,
         NEW re, NEW answer, NEW ni, NEW nd, NEW v,
         TopInputs(re, answer, ni, nd, v), Top!Clock(re, answer, ni, nd, v)
  PROVE  TopPortInv'
PROOF
  <1>1. ci' \in Top!Port /\ ci'.type = "read"
    BY DEF TopPortInv, Top!Clock, Top!PortNext, Top!Port, TopInputs,
           Top!Requests
  <1>2. cd' \in Top!Port
    BY DEF TopPortInv, Top!Clock, Top!PortNext, Top!Port, TopInputs,
           Top!Requests
  <1>3. /\ cwdata' \in TopValues /\ csent' \in TopValues
        /\ cd'.st # "idle" => cwdata' = csent'
    <2>1. CASE cd.st = "idle"
      BY <2>1 DEF TopPortInv, Top!Clock, Top!PortNext, Top!Port, TopInputs,
                  Top!Requests
    <2>2. CASE cd.st # "idle"
      BY <2>2 DEF TopPortInv, Top!Clock, Top!PortNext, Top!Port, TopInputs,
                  Top!Requests
    <2>3. QED
      BY <2>1, <2>2
  <1>4. cjudged' \in {"none", "good"}
    <2>1. CASE ~answer
      BY <2>1 DEF Top!Clock
    <2>2. CASE answer
      <3>1. Top!Judge = "good"
        BY <2>2 DEF TopInputs, TopBusInv, TopWaits, Top!Judge, Top!RespTo
      <3>2. QED
        BY <2>2, <3>1 DEF Top!Clock
    <2>3. QED
      BY <2>1, <2>2 DEF TopInputs
  <1>5. QED
    BY <1>1, <1>2, <1>3, <1>4 DEF TopPortInv

\* A cache that waits goes on waiting, unless its own request is answered.
LEMMA TopWaitsOn ==
  ASSUME TopPortInv, NEW rq, rq.path \in {"ctrl", "data"},
         NEW re, NEW answer, NEW ni, NEW nd, NEW v,
         Top!Clock(re, answer, ni, nd, v),
         TopWaits(ci, cd, rq), answer => cbus.path # rq.path
  PROVE  TopWaits(ci', cd', rq)
PROOF
  BY DEF TopPortInv, Top!Clock, Top!PortNext, Top!Port, TopWaits, Top!RespTo

\* The cache whose request goes into the queue waits from then on; no
\* request of it was in the queue or on the bus.
LEMMA TopEnters ==
  ASSUME TopPortInv, TopOwnInv, TopBusInv, Top!QueueWe,
         NEW re, NEW answer, NEW ni, NEW nd, NEW v,
         Top!Clock(re, answer, ni, nd, v)
  PROVE  /\ TopWaits(ci', cd', Top!QueueBus)
         /\ \A p \in 0 .. cwcnt - 1 : cqueued[p].path # Top!QueueBus.path
         /\ cbus # None => cbus.path # Top!QueueBus.path
         /\ Top!QueueBus.type = "write" => cd.st = "valid" /\ Top!QueueBus.path = "data"
PROOF
  <1>. USE DEF Top!QueueWe, Top!IValid, Top!DValid, Top!QueueBus
  <1>1. CASE Top!DValid
    <2>1. TopWaits(ci', cd', Top!QueueBus)
      BY <1>1 DEF TopPortInv, Top!Clock, Top!PortNext, Top!Port, TopWaits,
                  Top!DataReqReady
    <2>2. QED
      BY <1>1, <2>1 DEF TopOwnInv, TopBusInv, TopWaits
  <1>2. CASE ~Top!DValid
    <2>1. TopWaits(ci', cd', Top!QueueBus)
      BY <1>2 DEF TopPortInv, Top!Clock, Top!PortNext, Top!Port, TopWaits,
                  Top!CtrlReqReady
    <2>2. QED
      BY <1>2, <2>1 DEF TopOwnInv, TopBusInv, TopWaits, TopPortInv, TopRequest,
                        TopQueueInv, Top!Request
  <1>3. QED
    BY <1>1, <1>2

----------------------------------------------------------------------------
\* The word on the input of the queue is a request.
LEMMA TopInputType == TopPortInv => Top!QueueBus \in Top!Request
PROOF
  BY DEF TopPortInv, Top!QueueBus, Top!Request, Top!Port

\* A cache that waits after a clock waited before it, and was not answered, or
\* its request has gone into the queue.
LEMMA TopWhyWaits ==
  ASSUME TopPortInv, NEW path \in {"ctrl", "data"},
         NEW re, NEW answer, NEW ni, NEW nd, NEW v,
         TopInputs(re, answer, ni, nd, v), Top!Clock(re, answer, ni, nd, v),
         (IF path = "ctrl" THEN ci' ELSE cd').st = "wait"
  PROVE  \/ Top!QueueWe /\ Top!QueueBus.path = path
         \/ /\ (IF path = "ctrl" THEN ci ELSE cd).st = "wait"
            /\ answer => cbus.path # path
PROOF
  <1>. USE DEF TopPortInv, Top!Clock, Top!PortNext, Top!Port, TopInputs,
               Top!Requests, Top!RespTo, Top!QueueWe, Top!QueueBus, Top!IValid,
               Top!DValid
  <1>1. CASE path = "ctrl"
    BY <1>1 DEF Top!CtrlReqReady
  <1>2. CASE path = "data"
    BY <1>2 DEF Top!DataReqReady
  <1>3. QED
    BY <1>1, <1>2

\* Every clock keeps the invariant.
LEMMA TopClockKeeps ==
  ASSUME TopInv,
         NEW re, NEW answer, NEW ni, NEW nd, NEW v,
         TopInputs(re, answer, ni, nd, v), Top!Clock(re, answer, ni, nd, v)
  PROVE  TopInv'
PROOF
  <1>. DEFINE x == Top!QueueBus
              out == Top!Queue0!Rdata(x)
              taken == re /\ Top!Queue0!Nempty(Top!QueueWe)
  <1>1. /\ TopQueueInv /\ TopOwnInv /\ TopBusInv /\ TopPortInv /\ TopOpenInv
        /\ re \in BOOLEAN /\ Top!QueueWe \in BOOLEAN /\ x \in Top!Request
        /\ Top!Queue0!Clock(re, Top!QueueWe, x)
    BY TopInputType DEF TopInv, TopInputs, Top!Clock, Top!QueueWe, Top!IValid,
                        Top!DValid
  <1>2. Top!QueueWe => /\ TopWaits(ci', cd', x)
                       /\ \A p \in 0 .. cwcnt - 1 : cqueued[p].path # x.path
                       /\ cbus # None => cbus.path # x.path
                       /\ x.type = "write" => cd.st = "valid" /\ x.path = "data"
    BY <1>1, TopEnters
  <1>3. \A p \in 0 .. cwcnt - 1 : cqueued[p] \in Top!Request
    BY <1>1, PortsAssumption DEF TopQueueInv
  <1>4. Top!QueueWe => cwcnt # 2
    <2>1. SUFFICES ASSUME Top!QueueWe, cwcnt = 2  PROVE FALSE
      OBVIOUS
    <2>2. /\ 0 \in 0 .. cwcnt - 1 /\ 1 \in 0 .. cwcnt - 1
          /\ cqueued[0].path # x.path /\ cqueued[1].path # x.path
          /\ cqueued[0].path # cqueued[1].path
      BY <1>1, <1>2, <2>1 DEF TopQueueInv
    <2>3. /\ cqueued[0].path \in {"ctrl", "data"} /\ cqueued[1].path \in {"ctrl", "data"}
          /\ x.path \in {"ctrl", "data"}
      BY <1>1, <1>3, <2>2 DEF Top!Request
    <2>4. QED
      BY <2>2, <2>3
  <1>5. /\ TopQueueInv'
        /\ \A p \in 0 .. cwcnt' - 1 :
              \/ Top!QueueWe /\ cqueued'[p] = x
              \/ \E q \in 0 .. cwcnt - 1 : cqueued'[p] = cqueued[q]
        /\ taken =>
              /\ \/ Top!QueueWe /\ out = x
                 \/ \E q \in 0 .. cwcnt - 1 : out = cqueued[q]
              /\ \A p \in 0 .. cwcnt' - 1 : cqueued'[p].path # out.path
        /\ Top!QueueWe => \/ \E p \in 0 .. cwcnt' - 1 : cqueued'[p] = x
                          \/ re /\ out = x
        /\ \A q \in 0 .. cwcnt - 1 :
              \/ \E p \in 0 .. cwcnt' - 1 : cqueued'[p] = cqueued[q]
              \/ re /\ out = cqueued[q]
    <2>. HIDE DEF x
    <2>1. QED
      BY <1>1, <1>2, <1>4, TopQueueMoves
  \* the requests that were in the queue are still waited for
  <1>6. \A q \in 0 .. cwcnt - 1 :
           /\ TopWaits(ci', cd', cqueued[q])
           /\ cbus # None => cbus.path # cqueued[q].path
           /\ cqueued[q].type = "write" =>
                 cqueued[q].path = "data" /\ cd.st = "wait"
    <2>1. SUFFICES ASSUME NEW q \in 0 .. cwcnt - 1
                   PROVE  /\ TopWaits(ci', cd', cqueued[q])
                          /\ cbus # None => cbus.path # cqueued[q].path
                          /\ cqueued[q].type = "write" =>
                                cqueued[q].path = "data" /\ cd.st = "wait"
      OBVIOUS
    <2>2. /\ cqueued[q].path \in {"ctrl", "data"} /\ TopWaits(ci, cd, cqueued[q])
          /\ cbus # None => cbus.path # cqueued[q].path
      BY <1>1, <1>3 DEF Top!Request, TopOwnInv, TopBusInv
    <2>3. answer => cbus.path # cqueued[q].path
      BY <2>2 DEF TopInputs
    <2>4. TopWaits(ci', cd', cqueued[q])
      BY <1>1, <2>2, <2>3, TopWaitsOn
    <2>5. cqueued[q].type = "write" => cqueued[q].path = "data" /\ cd.st = "wait"
      BY <1>1, <2>2 DEF TopWaits, TopPortInv
    <2>6. QED
      BY <2>2, <2>4, <2>5
  <1>7. TopOwnInv'
    <2>1. SUFFICES ASSUME NEW p \in 0 .. cwcnt' - 1
                   PROVE  TopWaits(ci', cd', cqueued'[p])
      BY DEF TopOwnInv
    <2>2. CASE Top!QueueWe /\ cqueued'[p] = x
      BY <1>2, <2>2
    <2>3. CASE \E q \in 0 .. cwcnt - 1 : cqueued'[p] = cqueued[q]
      BY <1>6, <2>3
    <2>4. QED
      BY <1>5, <2>2, <2>3
  <1>8. TopBusInv'
    <2>1. CASE taken
      <3>1. /\ out \in Top!Request /\ TopWaits(ci', cd', out)
            /\ out.type = "write" => cd.st # "idle"
            /\ \A p \in 0 .. cwcnt' - 1 : cqueued'[p].path # out.path
        <4>1. CASE Top!QueueWe /\ out = x
          <5>. HIDE DEF x, out
          <5>1. QED
            BY <1>1, <1>2, <1>5, <2>1, <4>1
        <4>2. CASE \E q \in 0 .. cwcnt - 1 : out = cqueued[q]
          <5>. HIDE DEF x, out
          <5>1. QED
            BY <1>3, <1>5, <1>6, <2>1, <4>2
        <4>3. QED
          BY <1>5, <2>1, <4>1, <4>2
      <3>2. cbus' = [path |-> out.path, type |-> out.type, addr |-> out.addr,
                    data |-> cwdata]
        BY <2>1 DEF Top!Clock
      <3>3. out.type = "write" => cwdata = csent'
        BY <1>1, <3>1 DEF TopPortInv, Top!Clock
      <3>. HIDE DEF out
      <3>4. /\ cbus' \in TopRequest /\ TopWaits(ci', cd', cbus')
            /\ cbus'.path = out.path
            /\ cbus'.type = "write" => cbus'.data = csent'
        BY <1>1, <3>1, <3>2, <3>3 DEF TopPortInv, TopRequest, Top!Request,
                                      TopWaits
      <3>5. QED
        BY <3>1, <3>4 DEF TopBusInv
    <2>2. CASE ~taken /\ answer
      <3>1. cbus' = None
        BY <2>2 DEF Top!Clock
      <3>2. QED
        BY <3>1 DEF TopBusInv
    <2>3. CASE ~taken /\ ~answer
      <3>1. cbus' = cbus
        BY <2>3 DEF Top!Clock
      <3>2. CASE cbus = None
        BY <3>1, <3>2 DEF TopBusInv
      <3>3. CASE cbus # None
        <4>1. /\ cbus \in TopRequest /\ TopWaits(ci, cd, cbus)
              /\ \A p \in 0 .. cwcnt - 1 : cqueued[p].path # cbus.path
              /\ cbus.type = "write" => cbus.data = csent
          BY <1>1, <3>3 DEF TopBusInv
        <4>2. TopWaits(ci', cd', cbus)
          BY <1>1, <2>3, <4>1, TopWaitsOn DEF TopRequest
        <4>3. \A p \in 0 .. cwcnt' - 1 : cqueued'[p].path # cbus.path
          BY <1>2, <1>5, <1>6, <3>3
        <4>4. cbus.type = "write" => cd.st = "wait"
          BY <1>1, <4>1 DEF TopWaits, TopPortInv, TopRequest
        <4>5. cbus.type = "write" => cbus.data = csent'
          BY <4>1, <4>4 DEF Top!Clock
        <4>6. QED
          BY <3>1, <4>1, <4>2, <4>3, <4>5 DEF TopBusInv
      <3>4. QED
        BY <3>2, <3>3
    <2>4. QED
      BY <2>1, <2>2, <2>3 DEF TopInputs
  <1>9. TopPortInv'
    BY <1>1, TopPortsKeep
  <1>10. TopOpenInv'
    <2>1. taken => cbus' # None /\ cbus'.path = out.path
      <3>1. SUFFICES ASSUME taken  PROVE cbus' # None /\ cbus'.path = out.path
        OBVIOUS
      <3>2. cbus' = [path |-> out.path, type |-> out.type, addr |-> out.addr,
                    data |-> cwdata]
        BY <3>1 DEF Top!Clock
      <3>3. out \in Top!Request
        <4>. HIDE DEF x, out
        <4>1. QED
          BY <1>1, <1>3, <1>5, <3>1
      <3>. HIDE DEF out
      <3>4. cbus' \in TopRequest
        BY <1>1, <3>2, <3>3 DEF TopPortInv, TopRequest, Top!Request
      <3>5. QED
        BY <3>2, <3>4, PortsAssumption
    <2>2. re /\ cwcnt # 0 => taken
      BY DEF Top!Queue0!Nempty
    <2>3. ASSUME NEW path \in {"ctrl", "data"}, Top!QueueWe, x.path = path
          PROVE  TopOpen(path)'
      <3>1. CASE \E p \in 0 .. cwcnt' - 1 : cqueued'[p] = x
        BY <2>3, <3>1 DEF TopOpen
      <3>2. CASE re /\ out = x
        <4>1. taken
          BY <2>3, <3>2 DEF Top!Queue0!Nempty
        <4>2. QED
          BY <2>1, <2>3, <3>2, <4>1 DEF TopOpen
      <3>3. QED
        BY <1>5, <2>3, <3>1, <3>2
    <2>4. ASSUME NEW path \in {"ctrl", "data"}, TopOpen(path), answer => cbus.path # path
          PROVE  TopOpen(path)'
      <3>1. CASE cbus # None /\ cbus.path = path
        <4>1. ~answer /\ ~re
          BY <2>4, <3>1 DEF TopInputs
        <4>2. cbus' = cbus
          BY <4>1 DEF Top!Clock
        <4>3. QED
          BY <3>1, <4>2 DEF TopOpen
      <3>2. ASSUME NEW q \in 0 .. cwcnt - 1, cqueued[q].path = path
            PROVE  TopOpen(path)'
        <4>1. CASE \E p \in 0 .. cwcnt' - 1 : cqueued'[p] = cqueued[q]
          BY <3>2, <4>1 DEF TopOpen
        <4>2. CASE re /\ out = cqueued[q]
          <5>1. cwcnt # 0
            BY <1>1, <3>2 DEF TopQueueInv
          <5>2. QED
            BY <2>1, <2>2, <3>2, <4>2, <5>1 DEF TopOpen
        <4>3. QED
          BY <1>5, <3>2, <4>1, <4>2
      <3>3. QED
        BY <2>4, <3>1, <3>2 DEF TopOpen
    <2>5. ci'.st = "wait" => TopOpen("ctrl")'
      BY <1>1, <2>3, <2>4, TopWhyWaits DEF TopOpenInv
    <2>6. cd'.st = "wait" => TopOpen("data")'
      BY <1>1, <2>3, <2>4, TopWhyWaits DEF TopOpenInv
    <2>7. QED
      BY <2>5, <2>6 DEF TopOpenInv
  <1>11. QED
    BY <1>5, <1>7, <1>8, <1>9, <1>10 DEF TopInv

\* Reset meets the invariant: the queue is empty and both caches are idle.
LEMMA TopInit == ASSUME Top!Init  PROVE TopInv
PROOF
  <1>1. Top!AnyAddr \in TopAddrs /\ Top!AnyValue \in TopValues
    BY PortsAssumption DEF Top!AnyAddr, Top!AnyValue
  <1>2. TopPortInv
    BY <1>1 DEF Top!Init, TopPortInv, Top!Port
  <1>3. TopQueueInv
    <2>1. Top!AnyRequest \in Top!Request
      BY <1>1 DEF Top!AnyRequest, Top!Request
    <2>. HIDE DEF Top!AnyRequest
    <2>2. QED
      BY <2>1 DEF Top!Init, TopQueueInv
  <1>4. TopOwnInv /\ TopBusInv /\ TopOpenInv
    BY DEF Top!Init, TopOwnInv, TopBusInv, TopOpenInv
  <1>5. QED
    BY <1>2, <1>3, <1>4 DEF TopInv

(***************************************************************************)
(* The invariant holds in every state of the two levels (cache_top.cpp).   *)
(***************************************************************************)
THEOREM TopAlways == PortsSpec => []TopInv
PROOF
  <1>1. PortsInit => TopInv
    BY TopInit DEF PortsInit
  <1>2. TopInv /\ [CacheTopStep \/ L2TopStep]_pvars => TopInv'
    <2>1. SUFFICES ASSUME TopInv, [CacheTopStep \/ L2TopStep]_pvars  PROVE TopInv'
      OBVIOUS
    <2>2. CASE CacheTopStep
      <3>1. PICK re, answer, ni, nd, v :
              TopInputs(re, answer, ni, nd, v) /\ Top!Clock(re, answer, ni, nd, v)
        BY <2>2 DEF CacheTopStep, Top!Next, TopInputs
      <3>2. QED
        BY <2>1, <3>1, TopClockKeeps
    <2>3. CASE UNCHANGED cvars
      BY <2>1, <2>3 DEF cvars, TopInv, TopQueueInv, TopOwnInv, TopBusInv,
                        TopPortInv, TopOpenInv, TopOpen
    <2>4. QED
      BY <2>1, <2>2, <2>3 DEF L2TopStep, pvars
  <1>3. QED
    BY <1>1, <1>2, PTL DEF PortsSpec

(***************************************************************************)
(* An answer of the bus reaches the cache that made the request, which     *)
(* waits for it, and a write left with the data it was requested with: the *)
(* queue of cache_top.cpp holds neither, and its full signal is not looked *)
(* at.                                                                     *)
(***************************************************************************)
THEOREM Reaches == PortsSpec => []AnswerReachesRequester
PROOF
  <1>1. TopInv => AnswerReachesRequester
    BY PortsAssumption DEF TopInv, TopQueueInv, TopBusInv, TopPortInv,
                           TopRequest, AnswerReachesRequester,
                           Top!AnswerReachesRequester, Top!TypeOK, Top!Request
  <1>2. QED
    BY <1>1, TopAlways, PTL

(***************************************************************************)
(* A request is never lost: a cache that waits has its request in the      *)
(* queue or on the bus, also when both caches asked in one clock           *)
(* (w_ctrl_req_ready).                                                     *)
(***************************************************************************)
THEOREM NoneLost == PortsSpec => []TopOpenInv
PROOF
  <1>1. TopInv => TopOpenInv
    BY DEF TopInv
  <1>2. QED
    BY <1>1, TopAlways, PTL
=============================================================================
