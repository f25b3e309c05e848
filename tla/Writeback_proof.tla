--------------------------- MODULE Writeback_proof --------------------------
(***************************************************************************)
(* Proofs that the tags of the registers keep the program order, for every *)
(* number of tags and registers, every depth of the queue and every        *)
(* program, as long as fewer writes of a register overtake a load of it    *)
(* than the tags can tell apart (Sizes).                                   *)
(*                                                                         *)
(* The lag of a load is the number of writes of its register issued after  *)
(* it, and the age of a register that of the write it holds.  The loads of *)
(* a register are under way in the order of their lags (OrderInv), and the *)
(* writes a register has yet to see are all under way (CoverInv): so the   *)
(* tag of a load that ends follows that of its register exactly when it is *)
(* the next one of these writes.                                           *)
(***************************************************************************)
EXTENDS Writeback, LruNWay, TLAPS

\* tags count the writes that overtake a load without coming around
Sizes == MaxOver + 1 < NTags

Tags == 0 .. NTags - 1
Instructions == [op : {"alu", "multi", "csr", "load", "store", "amo"}, rd : Regs, rs : Regs]
Jobs == [op : {"load", "store"}, rd : Regs, tag : Tags, val : Values,
         ena : {FALSE}, debug : {FALSE}]
ExecRegisters ==
    [state : ExecStates, amo : {"WaitMemAccess", "Read", "Modify", "Write"},
     tagcnt : [Regs -> Tags], reg_write : BOOLEAN, reg_waddr : Regs, reg_wtag : Tags,
     res : Values, memop_valid : BOOLEAN, memop : {"load", "store"}, memop_val : Values,
     waddr : Regs, radr2 : Regs, rdata1_amo : Values, rdata2_amo : Values, sum : Values]

TypeInv ==
    /\ load \in Workloads /\ ins \in Instructions \cup {None}
    /\ x \in ExecRegisters /\ q \in Seq(Jobs)
    /\ a \in [state : AccessStates, valid : BOOLEAN, job : Jobs \cup {None},
              hold : Values \cup {None}]
    /\ a.state # "Idle" => a.job # None
    /\ a.state = "Hold" => WritesReg(a.job) /\ a.hold = a.job.val
    /\ bank \in [Regs -> [val : Values, tag : Tags]]
    /\ arch \in [Regs -> Values] /\ want \in Values

\* the execute stage gives away one result or one operation at a time
ExecInv ==
    /\ x.reg_write => x.state \in {"Idle", "CsrWrite"} /\ ~x.memop_valid
    /\ x.state \in {"WaitMulti", "Csr", "CsrWrite"} => ~x.memop_valid
    /\ x.state = "Amo" /\ x.amo = "Write" => ~(x.memop_valid /\ x.memop = "load")

----------------------------------------------------------------------------
\* how many writes were issued after the one with tag t, c being the last
Dist(c, t) == (c - t) % NTags
Lag(c, j) == Dist(c[j.rd], j.tag)
Age(w) == Dist(x.tagcnt[w], bank[w].tag)

\* j was issued before k, if both load the same register
Before(c, j, k) ==
    j.op = "load" /\ k.op = "load" /\ j.rd = k.rd /\ j.rd # 0 => Lag(c, j) > Lag(c, k)

\* what is under way is in the order of the program
InOrder(c, s) == \A i, k \in 1 .. Len(s) : i < k => Before(c, s[i], s[k])
OrderInv ==
    /\ InOrder(x.tagcnt, q)
    /\ a.state # "Idle" => \A i \in 1 .. Len(q) : Before(x.tagcnt, a.job, q[i])
    /\ x.memop_valid => \A i \in 1 .. Len(q) : Before(x.tagcnt, q[i], Job)
    /\ a.state # "Idle" /\ x.memop_valid => Before(x.tagcnt, a.job, Job)

\* a result of several clocks for register w is under way: its write is not yet counted
Slow(w) == x.state \in {"WaitMulti", "Csr"} /\ x.waddr = w
\* the result is written to register w in this clock
Arrives(w) == x.reg_write /\ x.reg_waddr = w

\* few enough writes overtake each load
BoundInv ==
    \A j \in Pending : j.rd # 0 =>
       /\ Lag(x.tagcnt, j) <= MaxOver
       /\ Slow(j.rd) \/ (x.state = "Idle" /\ ins # None /\ ins.rd = j.rd)
             => Lag(x.tagcnt, j) < MaxOver

\* the writes a register has yet to see are under way
CoverInv ==
    \A w \in Regs \ {0} : \A n \in 0 .. Age(w) - 1 :
       (n = 0 /\ Arrives(w)) \/ \E j \in Pending : j.rd = w /\ Lag(x.tagcnt, j) = n

\* the last write of a register has the value of the program
ValueInv ==
    \A w \in Regs \ {0} :
       /\ ~Slow(w) /\ Age(w) = 0 => bank[w].val = arch[w]
       /\ ~Slow(w) => \A j \in Pending : j.rd = w /\ Lag(x.tagcnt, j) = 0 => j.val = arch[w]
       /\ Slow(w) => x.res = arch[w]
       /\ Arrives(w) => x.res = arch[w] /\ x.reg_wtag = x.tagcnt[w]

\* register 0 stays 0
ZeroInv ==
    /\ x.tagcnt[0] = 0 /\ bank[0] = [val |-> 0, tag |-> 0] /\ arch[0] = 0
    /\ x.reg_write => x.reg_waddr # 0

WritebackInv == TypeInv /\ ExecInv /\ OrderInv /\ BoundInv /\ CoverInv /\ ValueInv /\ ZeroInv

----------------------------------------------------------------------------
\* Tags count modulo NTags.

LEMMA TagBounds == NTags \in Nat /\ NTags > 3 /\ 0 \in Tags /\ MaxOver \in Nat /\ QDepth >= 2
  BY WritebackAssumption DEF Tags

\* The distance of two tags, and the tag after a tag.
LEMMA DistFacts ==
    ASSUME NEW c \in Tags, NEW t \in Tags
    PROVE  /\ Dist(c, t) = IF c >= t THEN c - t ELSE c - t + NTags
           /\ Dist(c, t) \in 0 .. NTags - 1
           /\ ((c + 1) % NTags) = IF c = NTags - 1 THEN 0 ELSE c + 1
           /\ ((c + 1) % NTags) \in Tags
<1>1. /\ NTags \in Nat /\ NTags > 3 /\ c \in Int /\ t \in Int
      /\ 0 <= c /\ c < NTags /\ 0 <= t /\ t < NTags
  BY TagBounds DEF Tags
<1>2. ASSUME NEW n \in Int, 0 <= n, n < NTags PROVE (n % NTags) = n
  BY <1>1, <1>2
<1>3. ASSUME NEW n \in Int, - NTags <= n, n < 0 PROVE (n % NTags) = n + NTags
  BY <1>1, <1>3
<1>4. Dist(c, t) = IF c >= t THEN c - t ELSE c - t + NTags
  BY <1>1, <1>2, <1>3 DEF Dist
<1>5. ((c + 1) % NTags) = IF c = NTags - 1 THEN 0 ELSE c + 1
  <2>1. CASE c = NTags - 1
    BY <1>1, <2>1
  <2>2. CASE c # NTags - 1
    BY <1>1, <1>2, <2>2
  <2> QED BY <2>1, <2>2
<1> QED BY <1>1, <1>4, <1>5 DEF Tags

\* One more write, and the next of the writes under way.
LEMMA DistSteps ==
    ASSUME NEW c \in Tags, NEW t \in Tags, NEW u \in Tags
    PROVE  /\ Dist(c, t) < NTags - 1 => Dist((c + 1) % NTags, t) = Dist(c, t) + 1
           /\ Dist(c, c) = 0 /\ (Dist(c, t) = 0 => c = t)
           /\ Dist(c, t) > 0 /\ Dist(c, u) = Dist(c, t) - 1 => ((t + 1) % NTags) = u
           /\ ((t + 1) % NTags) = u /\ Dist(c, u) < NTags - 1 => Dist(c, t) = Dist(c, u) + 1
<1>1. NTags \in Nat /\ NTags > 3
  BY TagBounds
<1>2. ((c + 1) % NTags) \in Tags /\ ((c + 1) % NTags) = IF c = NTags - 1 THEN 0 ELSE c + 1
  BY DistFacts
<1>3. ((t + 1) % NTags) = IF t = NTags - 1 THEN 0 ELSE t + 1
  BY DistFacts
<1>4. Dist((c + 1) % NTags, t) = IF ((c + 1) % NTags) >= t THEN ((c + 1) % NTags) - t
                                 ELSE ((c + 1) % NTags) - t + NTags
  BY <1>2, DistFacts
<1>5. /\ Dist(c, t) = IF c >= t THEN c - t ELSE c - t + NTags
      /\ Dist(c, u) = IF c >= u THEN c - u ELSE c - u + NTags
      /\ Dist(c, c) = IF c >= c THEN c - c ELSE c - c + NTags
  BY DistFacts
<1>6. Dist(c, t) < NTags - 1 => Dist((c + 1) % NTags, t) = Dist(c, t) + 1
  BY <1>1, <1>2, <1>4, <1>5 DEF Tags
<1>7. Dist(c, c) = 0 /\ (Dist(c, t) = 0 => c = t)
  BY <1>1, <1>5 DEF Tags
<1>8. Dist(c, t) > 0 /\ Dist(c, u) = Dist(c, t) - 1 => ((t + 1) % NTags) = u
  BY <1>1, <1>3, <1>5 DEF Tags
<1>9. ((t + 1) % NTags) = u /\ Dist(c, u) < NTags - 1 => Dist(c, t) = Dist(c, u) + 1
  BY <1>1, <1>3, <1>5, SMTT(30) DEF Tags
<1> QED BY <1>6, <1>7, <1>8, <1>9

\* A sum of register contents is a register content.
LEMMA AddType == ASSUME NEW v \in Nat, NEW w \in Nat PROVE Add(v, w) \in Values
<1>1. PICK n \in 1 .. 8 : Values = 0 .. n - 1
  BY WritebackAssumption
<1> DEFINE m == CHOOSE k \in 1 .. 8 : Values = 0 .. k - 1
<1>2. m \in 1 .. 8 /\ Values = 0 .. m - 1
  BY <1>1
<1> HIDE DEF m
<1>3. ((v + w) % m) \in 0 .. m - 1
  BY <1>2
<1> QED BY <1>2, <1>3 DEF Add, m

LEMMA ZeroValue == 0 \in Values /\ 0 \in Regs /\ Values \subseteq Nat
  BY WritebackAssumption, SMTT(30)

----------------------------------------------------------------------------
\* The inputs of the stages in a clock, as Clock(e) composes them.
Value == IF ins = None THEN 0 ELSE Add(arch[ins.rd], 1)
Ready == Len(q) < QDepth - 1
Queued == IF x.memop_valid /\ Ready THEN Append(q, Job) ELSE q
Front == IF Queued = << >> THEN None ELSE Head(Queued)
AccessIn(e) == [resp |-> IF e.answer THEN [data |-> a.job.val] ELSE None,
                wb_ready |-> ~x.reg_write, ready |-> e.ready]
ExecIn(e) ==
    [ins |-> ins, val |-> Value, done |-> e.done, mem |-> AccessIn(e).resp,
     memop_ready |-> Ready, memop_idle |-> Queued = << >> /\ a.state = "Idle",
     tag |-> IF ins = None THEN 0 ELSE bank[ins.rs].tag, rdata2 |-> bank[x.radr2].val]

\* the operation in the memory access stage ends in this clock
Ends(e) == a.state # "Idle" /\ QueueRe(a, AccessIn(e))

\* One clock, with these names.
LEMMA ClockFacts ==
    ASSUME NEW e \in Env, Clock(e)
    PROVE  /\ x' = ExecNext(x, ExecIn(e))
           /\ q' = IF QueueRe(a, AccessIn(e)) /\ Queued # << >> THEN Tail(Queued) ELSE Queued
           /\ a' = AccessNext(a, Front, AccessIn(e))
           /\ bank' = BankNext(bank, x, Written(AccessIn(e)))
           /\ took' = Latches(x, ExecIn(e))
           /\ arch' = IF took' /\ ins.rd # 0 /\ ins.op # "store"
                      THEN [arch EXCEPT ![ins.rd] = Value] ELSE arch
           /\ want' = IF took' /\ ins.op = "amo" THEN Add(Value, arch[ins.rs])
                      ELSE IF took' THEN 0 ELSE want
           /\ ins' = IF took' \/ ins = None THEN e.ins ELSE ins
           /\ load' = load
           /\ e.answer => a.state = "WaitResponse"
           /\ e.answer \in BOOLEAN /\ e.ready \in BOOLEAN /\ e.done \in BOOLEAN
           /\ e.ins \in {None} \cup load
  BY DEF Clock, Env, Value, Ready, Queued, Front, AccessIn, ExecIn

\* Operations, values and instructions are of their types.
LEMMA InTypes ==
    ASSUME TypeInv
    PROVE  /\ Job \in Jobs /\ Job.op = x.memop /\ Job.rd = x.reg_waddr /\ Job.tag = x.reg_wtag
           /\ Job.val = x.memop_val
           /\ Value \in Values /\ Queued \in Seq(Jobs)
           /\ Front # None => Queued # << >> /\ Front = Head(Queued) /\ Front \in Jobs
           /\ Queued # << >> => Front # None
<1>1. Job \in Jobs /\ Job.op = x.memop /\ Job.rd = x.reg_waddr /\ Job.tag = x.reg_wtag
           /\ Job.val = x.memop_val
  BY DEF TypeInv, Job, Jobs, ExecRegisters
<1>2. Value \in Values
  BY ZeroValue, AddType DEF Value, TypeInv, Instructions
<1>3. Queued \in Seq(Jobs)
  <2> HIDE DEF Jobs, Job
  <2> QED BY <1>1 DEF Queued, TypeInv
<1>4. Queued # << >> => Head(Queued) \in Jobs
  BY <1>3
<1>5. None \notin Jobs
  BY NoneAssumption DEF Jobs, Tags
<1> QED BY <1>1, <1>2, <1>3, <1>4, <1>5 DEF Front

----------------------------------------------------------------------------
(***************************************************************************)
(* What a clock does to the memory access stage and its queue              *)
(* (memaccess.cpp).                                                        *)
(***************************************************************************)
LEMMA AccessEffect ==
    ASSUME TypeInv, NEW e \in Env, Clock(e)
    PROVE  /\ a.state = "Idle" \/ Ends(e) =>
                IF Queued = << >> THEN q' = << >> /\ a'.state = "Idle" /\ a'.job = a.job
                ELSE /\ q' = Tail(Queued) /\ a'.job = Head(Queued) /\ a'.job \in Jobs
                     /\ a'.state \in {"WaitReqAccept", "WaitResponse"}
           /\ ~(a.state = "Idle" \/ Ends(e)) =>
                /\ q' = Queued /\ a'.job = a.job
                /\ a'.state \in {"WaitReqAccept", "WaitResponse", "Hold"}
                /\ a'.state = "Hold" => WritesReg(a.job) /\ a'.hold = a.job.val
           /\ Ends(e) => a.state \in {"WaitResponse", "Hold"}
<1>1. /\ q' = IF QueueRe(a, AccessIn(e)) /\ Queued # << >> THEN Tail(Queued) ELSE Queued
      /\ a' = AccessNext(a, Front, AccessIn(e)) /\ e.answer \in BOOLEAN
  BY ClockFacts
<1>2. QueueRe(a, AccessIn(e)) <=> a.state = "Idle" \/ Ends(e)
  BY DEF Ends, QueueRe
<1>3. Front = (IF Queued = << >> THEN None ELSE Head(Queued)) /\ (Queued # << >> => Front # None)
  BY InTypes DEF Front
<1>4. Queued # << >> => Front \in Jobs /\ Front.op # "flush"
  BY InTypes DEF Jobs
<1>5. CASE a.state = "Idle" \/ Ends(e)
  <2>1. CASE Queued = << >>
    <3>1. a'.state = "Idle" /\ a'.job = a.job
      BY <1>1, <1>2, <1>3, <1>5, <2>1 DEF AccessNext
    <3> QED BY <1>1, <1>5, <2>1, <3>1 DEF Ends, QueueRe, Finishes
  <2>2. CASE Queued # << >>
    <3>1. a' = Take([a EXCEPT !.valid = FALSE], Front, AccessIn(e))
      BY <1>1, <1>2, <1>3, <1>5, <2>2 DEF AccessNext
    <3>2. a'.job = Front /\ a'.state \in {"WaitReqAccept", "WaitResponse"}
      BY <1>4, <2>2, <3>1 DEF Take
    <3> QED BY <1>1, <1>2, <1>3, <1>4, <1>5, <2>2, <3>2 DEF Ends, QueueRe, Finishes
  <2> QED BY <2>1, <2>2
<1>6. CASE ~(a.state = "Idle" \/ Ends(e))
  <2>1. a.state \in {"WaitReqAccept", "WaitResponse", "Hold"}
    BY <1>6 DEF TypeInv, AccessStates
  <2>2. CASE a.state = "WaitReqAccept"
    BY <1>1, <1>2, <1>6, <2>2 DEF AccessNext, TypeInv
  <2>3. CASE a.state = "WaitResponse"
    <3>1. AccessIn(e).resp = (IF e.answer THEN [data |-> a.job.val] ELSE None)
      BY DEF AccessIn
    <3>2. AccessIn(e).resp # None => WritesReg(a.job) /\ AccessIn(e).resp.data = a.job.val
      <4>1. ~Finishes(a, AccessIn(e))
        BY <1>2, <1>6 DEF QueueRe
      <4> QED BY <2>3, <3>1, <4>1 DEF Finishes, Holds
    <3> QED BY <1>1, <1>2, <1>6, <2>3, <3>2 DEF AccessNext, TypeInv
  <2>4. CASE a.state = "Hold"
    BY <1>1, <1>2, <1>6, <2>4 DEF AccessNext, TypeInv
  <2> QED BY <1>6, <2>1, <2>2, <2>3, <2>4
<1>7. Ends(e) => a.state \in {"WaitResponse", "Hold"}
  BY DEF Ends, QueueRe, Finishes
<1> QED BY <1>5, <1>6, <1>7

\* An operation is held only when the result of the execute stage goes first.
LEMMA HoldFacts ==
    ASSUME TypeInv, NEW e \in Env, Clock(e)
    PROVE  /\ Ends(e) => (a.state = "WaitResponse" /\ e.answer) \/ a.state = "Hold"
           /\ a'.state = "Hold" => (a.state = "Hold" /\ ~Ends(e)) \/ x.reg_write
<1>1. Ends(e) => (a.state = "WaitResponse" /\ e.answer) \/ a.state = "Hold"
  BY DEF Ends, QueueRe, Finishes, AccessIn
<1>2. CASE a.state = "Idle" \/ Ends(e)
  BY <1>1, <1>2, AccessEffect
<1>3. CASE ~(a.state = "Idle" \/ Ends(e)) /\ a.state # "Hold" /\ ~x.reg_write
  <2>1. AccessIn(e).wb_ready /\ ~QueueRe(a, AccessIn(e)) /\ a' = AccessNext(a, Front, AccessIn(e))
    BY <1>3, ClockFacts DEF AccessIn, Ends
  <2>2. a'.state # "Hold"
    BY <1>3, <2>1 DEF AccessNext, QueueRe, Finishes, Holds, TypeInv
  <2> QED BY <1>1, <2>2
<1> QED BY <1>1, <1>2, <1>3

(***************************************************************************)
(* What a clock does to a register (regibank.cpp): the result of the       *)
(* execute stage arrives, the load that ends is the next write, or it is   *)
(* left as it is.                                                          *)
(***************************************************************************)
NextWrite(e, w) ==
    /\ ~x.reg_write /\ Ends(e) /\ a.job.op = "load" /\ a.job.rd = w
    /\ ((bank[w].tag + 1) % NTags) = a.job.tag

LEMMA BankEffect ==
    ASSUME TypeInv, ZeroInv, NEW e \in Env, Clock(e), NEW w \in Regs
    PROVE  /\ w = 0 => bank'[w] = bank[w]
           /\ Arrives(w) => bank'[w] = [val |-> x.res, tag |-> x.reg_wtag]
           /\ w # 0 /\ NextWrite(e, w) => bank'[w] = [val |-> a.job.val, tag |-> a.job.tag]
           /\ ~Arrives(w) /\ ~NextWrite(e, w) => bank'[w] = bank[w]
           /\ x.reg_write /\ Ends(e) => a.job.op # "load" \/ a.job.rd = 0
           /\ bank' \in [Regs -> [val : Values, tag : Tags]]
<1> DEFINE wb == Written(AccessIn(e))
<1>1. bank' = BankNext(bank, x, wb)
  BY ClockFacts
<1>2. e.answer \in BOOLEAN /\ (a.state # "Idle" => a.job \in Jobs)
  BY ClockFacts DEF TypeInv
<1>3. /\ AccessIn(e).resp = (IF e.answer THEN [data |-> a.job.val] ELSE None)
      /\ AccessIn(e).wb_ready = ~x.reg_write
  BY DEF AccessIn
<1>4. a.state # "Idle" => /\ [data |-> a.job.val] # None
                          /\ [rd |-> a.job.rd, tag |-> a.job.tag, data |-> a.job.val] # None
                          /\ ~a.job.debug
  <2> SUFFICES ASSUME a.state # "Idle"
               PROVE  /\ [data |-> a.job.val] # None
                      /\ [rd |-> a.job.rd, tag |-> a.job.tag, data |-> a.job.val] # None
                      /\ ~a.job.debug
    OBVIOUS
  <2>1. a.job.val \in Values /\ a.job.rd \in Regs /\ a.job.tag \in Tags /\ ~a.job.debug
    BY <1>2 DEF Jobs
  <2>2. [data |-> a.job.val] \in [data : Values]
    BY <2>1
  <2>3. [rd |-> a.job.rd, tag |-> a.job.tag, data |-> a.job.val]
           \in [rd : Regs, tag : 0 .. NTags - 1, data : Values]
    BY <2>1 DEF Tags
  <2> QED BY <2>1, <2>2, <2>3, NoneAssumption
<1>5. Ends(e) => a.state # "Idle" /\ Finishes(a, AccessIn(e))
  BY DEF Ends, QueueRe
<1>6. x.reg_write /\ Ends(e) => a.job.op # "load" \/ a.job.rd = 0
  BY <1>3, <1>4, <1>5 DEF Finishes, Holds, WritesReg, TypeInv
<1>7. ~x.reg_write /\ Ends(e) /\ WritesReg(a.job)
         => wb = [rd |-> a.job.rd, tag |-> a.job.tag, data |-> a.job.val] /\ wb # None
  BY <1>3, <1>4, <1>5 DEF Finishes, Written, WbData, TypeInv
<1>8. ~x.reg_write /\ wb # None => Ends(e) /\ WritesReg(a.job)
  BY <1>3, <1>4 DEF Ends, QueueRe, Finishes, Written, Holds
<1> HIDE DEF wb
<1>9. CASE x.reg_write
  <2>1. bank' = [bank EXCEPT ![x.reg_waddr] = [val |-> x.res, tag |-> x.reg_wtag]]
    BY <1>1, <1>9 DEF BankNext
  <2>2. x.reg_waddr \in Regs \ {0} /\ x.res \in Values /\ x.reg_wtag \in Tags
    BY <1>9 DEF ZeroInv, TypeInv, ExecRegisters
  <2> QED BY <1>6, <1>9, <2>1, <2>2 DEF Arrives, NextWrite, TypeInv
<1>10. CASE ~x.reg_write /\ Ends(e) /\ WritesReg(a.job)
                         /\ ((bank[a.job.rd].tag + 1) % NTags) = a.job.tag
  <2>1. a.job.rd \in Regs \ {0} /\ a.job.val \in Values /\ a.job.tag \in Tags
    BY <1>2, <1>5, <1>10 DEF WritesReg, Jobs
  <2>2. wb # None /\ wb.rd = a.job.rd /\ wb.tag = a.job.tag /\ wb.data = a.job.val
    BY <1>7, <1>10
  <2>3. bank' = [bank EXCEPT ![a.job.rd] = [val |-> a.job.val, tag |-> a.job.tag]]
    BY <1>1, <1>10, <2>1, <2>2 DEF BankNext
  <2> QED BY <1>10, <2>1, <2>3 DEF Arrives, NextWrite, TypeInv, WritesReg
<1>11. CASE ~x.reg_write /\ ~(/\ Ends(e) /\ WritesReg(a.job)
                              /\ ((bank[a.job.rd].tag + 1) % NTags) = a.job.tag)
  <2>1. bank' = bank
    <3>1. CASE wb = None
      BY <1>1, <1>11, <3>1 DEF BankNext
    <3>2. CASE wb # None
      <4>1. Ends(e) /\ WritesReg(a.job) /\ wb.rd = a.job.rd /\ wb.tag = a.job.tag
        BY <1>7, <1>8, <1>11, <3>2
      <4> QED BY <1>1, <1>11, <4>1 DEF BankNext
    <3> QED BY <3>1, <3>2
  <2> QED BY <1>11, <2>1 DEF Arrives, NextWrite, TypeInv, WritesReg
<1> QED BY <1>9, <1>10, <1>11

----------------------------------------------------------------------------
(***************************************************************************)
(* What a clock does to the registers of the execute stage (execute.cpp):  *)
(* it issues a result or a load for register w, or neither.                *)
(***************************************************************************)
Counted(w) == IF w = 0 THEN x.tagcnt ELSE [x.tagcnt EXCEPT ![w] = (x.tagcnt[w] + 1) % NTags]

IssuesResult(w) ==
    /\ w # 0 /\ x'.tagcnt = Counted(w)
    /\ x'.reg_write /\ x'.reg_waddr = w /\ x'.reg_wtag = x'.tagcnt[w]
    /\ ~x'.memop_valid /\ ~(x.memop_valid /\ ~Ready)
IssuesLoad(w) ==
    /\ x'.tagcnt = Counted(w)
    /\ ~x'.reg_write /\ x'.reg_waddr = w /\ (w # 0 => x'.reg_wtag = x'.tagcnt[w])
    /\ x'.memop_valid /\ x'.memop = "load" /\ ~(x.memop_valid /\ ~Ready)
IssuesNone ==
    /\ x'.tagcnt = x.tagcnt /\ ~x'.reg_write
    /\ x'.memop_valid /\ x'.memop = "load" <=> x.memop_valid /\ x.memop = "load" /\ ~Ready
    /\ x'.memop_valid /\ x'.memop = "load" => /\ x'.reg_waddr = x.reg_waddr
                                              /\ x'.reg_wtag = x.reg_wtag
                                              /\ x'.memop_val = x.memop_val

\* what can happen in a clock
AluIssued == /\ took' /\ ins.op = "alu" /\ x'.state = "Idle"
             /\ IF ins.rd = 0 THEN IssuesNone ELSE IssuesResult(ins.rd) /\ x'.res = Value
SlowIssued == /\ took' /\ ins.op \in {"multi", "csr"} /\ IssuesNone /\ ~x'.memop_valid
              /\ x'.state \in {"WaitMulti", "Csr"} /\ x'.waddr = ins.rd /\ x'.res = Value
LoadIssued == /\ took' /\ ins.op \in {"load", "amo"} /\ IssuesLoad(ins.rd) /\ x'.memop_val = Value
              /\ x'.state \in {"Idle", "WaitMemAcces", "Amo"}
              /\ x'.state = "Amo" => ins.op = "amo" /\ x'.amo \in {"WaitMemAccess", "Read"}
              /\ x'.radr2 = ins.rs
StoreIssued == took' /\ ins.op = "store" /\ IssuesNone /\ x'.state \in {"Idle", "WaitMemAcces"}
ResultDone == /\ ~took' /\ x.state \in {"WaitMulti", "Csr"} /\ x'.state \in {"Idle", "CsrWrite"}
              /\ IF x.waddr = 0 THEN IssuesNone ELSE IssuesResult(x.waddr) /\ x'.res = x.res
              /\ ~x'.memop_valid
NoneIssued == /\ ~took' /\ IssuesNone /\ x'.waddr = x.waddr /\ x'.res = x.res
              /\ x.state \in {"WaitMulti", "Csr"} <=> x'.state \in {"WaitMulti", "Csr"}
              /\ x'.state \in {"WaitMulti", "Csr", "CsrWrite"} => ~x'.memop_valid
              /\ x'.state = "Amo" /\ x'.amo = "Write" => ~(x'.memop_valid /\ x'.memop = "load")
              /\ x'.state \in {x.state, "Idle"}

\* the registers before the state machine sets them
Cleared(e) ==
    [x EXCEPT !.reg_write = FALSE, !.memop_valid = @ /\ ~ExecIn(e).memop_ready,
              !.rdata1_amo = IF ExecIn(e).mem = None THEN 0 ELSE ExecIn(e).mem.data,
              !.sum = Add(x.rdata1_amo, x.rdata2_amo)]

Same(y, z) ==
    /\ y.tagcnt = z.tagcnt /\ y.reg_waddr = z.reg_waddr /\ y.reg_wtag = z.reg_wtag
    /\ y.memop = z.memop /\ y.memop_val = z.memop_val

LEMMA ClearedFacts ==
    ASSUME TypeInv, NEW e \in Env, Clock(e)
    PROVE  LET y == Cleared(e) IN
           /\ y \in ExecRegisters /\ Same(y, x)
           /\ ~y.reg_write /\ (y.memop_valid <=> x.memop_valid /\ ~Ready)
           /\ y.state = x.state /\ y.amo = x.amo /\ y.res = x.res
           /\ y.waddr = x.waddr /\ y.radr2 = x.radr2 /\ y.rdata2_amo = x.rdata2_amo
           /\ y.sum = Add(x.rdata1_amo, x.rdata2_amo)
           /\ y.rdata1_amo = IF e.answer THEN a.job.val ELSE 0
<1>1. ExecIn(e).memop_ready = Ready /\ Ready \in BOOLEAN
  BY DEF ExecIn, Ready
<1>2. ExecIn(e).mem = IF e.answer THEN [data |-> a.job.val] ELSE None
  BY DEF ExecIn, AccessIn
<1>3. e.answer \in BOOLEAN /\ (e.answer => a.job.val \in Values)
  BY ClockFacts DEF TypeInv, Jobs
<1>4. e.answer => [data |-> a.job.val] # None
  BY <1>3, NoneAssumption
<1> DEFINE d == IF ExecIn(e).mem = None THEN 0 ELSE ExecIn(e).mem.data
           s == Add(x.rdata1_amo, x.rdata2_amo)
<1>5. d = (IF e.answer THEN a.job.val ELSE 0) /\ d \in Values
  BY <1>2, <1>3, <1>4, ZeroValue
<1>6. s \in Values
  BY AddType, ZeroValue DEF TypeInv, ExecRegisters
<1> HIDE DEF d, s
<1>7. Cleared(e) = [x EXCEPT !.reg_write = FALSE, !.memop_valid = @ /\ ~Ready,
                             !.rdata1_amo = d, !.sum = s]
  BY <1>1 DEF Cleared, d, s
<1>8. x \in ExecRegisters /\ (x.memop_valid /\ ~Ready) \in BOOLEAN
  BY <1>1 DEF TypeInv, ExecRegisters
<1>9. Cleared(e) \in ExecRegisters
  BY <1>5, <1>6, <1>7, <1>8, ZenonT(60) DEF ExecRegisters
<1> QED BY <1>5, <1>7, <1>8, <1>9, ZenonT(60) DEF ExecRegisters, Same, s

\* The helpers that tag a write of register w.
LEMMA RegEnaFacts ==
    ASSUME NEW y \in ExecRegisters, NEW w \in Regs \ {0}
    PROVE  /\ RegEna(y, w) \in ExecRegisters
           /\ RegEna(y, w) = [y EXCEPT !.tagcnt = [y.tagcnt EXCEPT ![w] = (y.tagcnt[w] + 1) % NTags],
                                       !.reg_waddr = w, !.reg_wtag = (y.tagcnt[w] + 1) % NTags,
                                       !.reg_write = TRUE]
<1> DEFINE t == (y.tagcnt[w] + 1) % NTags
<1>1. t \in Tags
  BY DistFacts DEF ExecRegisters
<1>2. RegEna(y, w) = [y EXCEPT !.tagcnt = [y.tagcnt EXCEPT ![w] = t],
                               !.reg_waddr = w, !.reg_wtag = t, !.reg_write = TRUE]
  BY DEF RegEna, Tagged, NextTag, ExecRegisters
<1> HIDE DEF t
<1>3. [y.tagcnt EXCEPT ![w] = t] \in [Regs -> Tags]
  BY <1>1 DEF ExecRegisters
<1>4. RegEna(y, w) \in ExecRegisters
  BY <1>1, <1>2, <1>3, ZenonT(60) DEF ExecRegisters
<1> QED BY <1>2, <1>4 DEF t

LoadTags(y, w) == [y.tagcnt EXCEPT ![w] = IF w = 0 THEN 0 ELSE (y.tagcnt[w] + 1) % NTags]

LEMMA LoadEnaFacts ==
    ASSUME NEW y \in ExecRegisters, NEW w \in Regs, NEW v \in Values
    PROVE  /\ MemopEna(y, "load", w, v) \in ExecRegisters
           /\ MemopEna(y, "load", w, v) =
                [y EXCEPT !.tagcnt = LoadTags(y, w), !.reg_waddr = w, !.reg_wtag = (y.tagcnt[w] + 1) % NTags,
                          !.memop_valid = TRUE, !.memop = "load", !.memop_val = v]
<1> DEFINE t == (y.tagcnt[w] + 1) % NTags
           c == LoadTags(y, w)
<1>1. t \in Tags
  BY DistFacts DEF ExecRegisters
<1>5. c = [y.tagcnt EXCEPT ![w] = IF w = 0 THEN 0 ELSE t]
  BY DEF LoadTags
<1>2. MemopEna(y, "load", w, v) =
        [y EXCEPT !.tagcnt = c, !.reg_waddr = w, !.reg_wtag = t,
                  !.memop_valid = TRUE, !.memop = "load", !.memop_val = v]
  BY <1>5 DEF MemopEna, Tagged, NextTag, ExecRegisters
<1> HIDE DEF t
<1>3. c \in [Regs -> Tags]
  BY <1>1, <1>5, TagBounds DEF ExecRegisters
<1> HIDE DEF c
<1>4. MemopEna(y, "load", w, v) \in ExecRegisters
  BY <1>1, <1>2, <1>3, ZenonT(120) DEF ExecRegisters
<1> QED BY <1>2, <1>4 DEF t, c

LEMMA StoreEnaFacts ==
    ASSUME NEW y \in ExecRegisters, NEW w \in Regs, NEW v \in Values
    PROVE  /\ MemopEna(y, "store", w, v) \in ExecRegisters
           /\ MemopEna(y, "store", w, v) =
                [y EXCEPT !.memop_valid = TRUE, !.memop = "store", !.memop_val = v]
<1>1. MemopEna(y, "store", w, v) =
            [y EXCEPT !.memop_valid = TRUE, !.memop = "store", !.memop_val = v]
  BY DEF MemopEna
<1> QED BY <1>1, ZenonT(60) DEF ExecRegisters

\* What an instruction that is taken does.
LEMMA IssueEffect ==
    ASSUME TypeInv, ExecInv, ZeroInv, NEW e \in Env, Clock(e), took'
    PROVE  /\ x' \in ExecRegisters
           /\ AluIssued \/ SlowIssued \/ LoadIssued \/ StoreIssued
<1> DEFINE y == Cleared(e)
           n == [y EXCEPT !.waddr = ins.rd, !.radr2 = ins.rs]
<1>1. /\ x.state = "Idle" /\ ins # None /\ ~(x.memop_valid /\ ~Ready)
      /\ x' = ExecNext(x, ExecIn(e))
  BY ClockFacts DEF Latches, ExecIn
<1>2. ins \in Instructions /\ ins.rd \in Regs /\ ins.rs \in Regs /\ Value \in Values
  BY <1>1, InTypes DEF TypeInv, Instructions
<1>3. /\ y \in ExecRegisters /\ Same(y, x) /\ ~y.reg_write /\ ~y.memop_valid /\ y.state = "Idle"
  BY <1>1, ClearedFacts
<1>4. x' = Issue(y, ExecIn(e))
  <2>1. Latches(x, ExecIn(e))
    BY ClockFacts
  <2> QED BY <1>1, <2>1 DEF ExecNext, Cleared
<1> HIDE DEF y
<1>5. /\ n \in ExecRegisters /\ Same(n, x) /\ ~n.reg_write /\ ~n.memop_valid /\ n.state = "Idle"
      /\ n.waddr = ins.rd /\ n.radr2 = ins.rs
  BY <1>2, <1>3 DEF ExecRegisters, Same
<1> HIDE DEF n
<1>6. ExecIn(e).ins = ins /\ ExecIn(e).val = Value /\ ExecIn(e).memop_ready = Ready
  BY DEF ExecIn
<1>7. Counted(0) = x.tagcnt /\ [x.tagcnt EXCEPT ![0] = 0] = x.tagcnt
  BY ZeroValue DEF Counted, ZeroInv, TypeInv, ExecRegisters
<1>8. n.tagcnt = x.tagcnt
  BY <1>5 DEF Same
<1>9. CASE ins.op = "alu"
  <2> DEFINE z == RegEna(n, ins.rd)
  <2>1. x' = [z EXCEPT !.res = Value]
    BY <1>4, <1>6, <1>9 DEF Issue, n
  <2>2. CASE ins.rd = 0
    <3>1. z = n
      BY <2>2 DEF RegEna
    <3> HIDE DEF z
    <3>2. x' \in ExecRegisters
      BY <1>2, <1>5, <2>1, <3>1 DEF ExecRegisters
    <3>3. AluIssued
      BY <1>1, <1>5, <1>9, <2>1, <2>2, <3>1 DEF AluIssued, IssuesNone, Same, ExecRegisters
    <3> QED BY <3>2, <3>3
  <2>3. CASE ins.rd # 0
    <3> DEFINE t == (n.tagcnt[ins.rd] + 1) % NTags
               c == [n.tagcnt EXCEPT ![ins.rd] = t]
    <3>1. z = [n EXCEPT !.tagcnt = c, !.reg_waddr = ins.rd, !.reg_wtag = t, !.reg_write = TRUE]
             /\ z \in ExecRegisters
      BY <1>2, <1>5, <2>3, RegEnaFacts
    <3>2. c = Counted(ins.rd) /\ c[ins.rd] = t
      BY <1>2, <1>5, <1>8, <2>3 DEF Counted, ExecRegisters
    <3> HIDE DEF z, t, c
    <3>3. x' \in ExecRegisters
      BY <1>2, <2>1, <3>1, ZenonT(60) DEF ExecRegisters
    <3>4. AluIssued
      BY <1>1, <1>5, <1>9, <2>1, <2>3, <3>1, <3>2 DEF AluIssued, IssuesResult, ExecRegisters
    <3> QED BY <3>3, <3>4
  <2> QED BY <2>2, <2>3
<1>10. CASE ins.op \in {"multi", "csr"}
  <2>1. PICK st \in {"WaitMulti", "Csr"} : x' = [n EXCEPT !.state = st, !.res = Value]
    BY <1>4, <1>6, <1>10 DEF Issue, n
  <2>2. x' \in ExecRegisters
    BY <1>2, <1>5, <2>1 DEF ExecRegisters, ExecStates
  <2> QED BY <1>1, <1>5, <1>10, <2>1, <2>2 DEF SlowIssued, IssuesNone, Same, ExecRegisters
<1>11. CASE ins.op \in {"load", "amo"}
  <2> DEFINE z == MemopEna(n, "load", ins.rd, Value)
             t == (n.tagcnt[ins.rd] + 1) % NTags
             c == LoadTags(n, ins.rd)
  <2>1. z = [n EXCEPT !.tagcnt = c, !.reg_waddr = ins.rd, !.reg_wtag = t,
                      !.memop_valid = TRUE, !.memop = "load", !.memop_val = Value]
           /\ z \in ExecRegisters
    BY <1>2, <1>5, LoadEnaFacts
  <2>2. c = Counted(ins.rd) /\ (ins.rd # 0 => c[ins.rd] = t)
    BY <1>2, <1>5, <1>7, <1>8 DEF Counted, LoadTags, ExecRegisters
  <2>3. \/ \E st \in {"Idle", "WaitMemAcces"} : x' = [z EXCEPT !.state = st]
        \/ /\ ins.op = "amo"
           /\ \E am \in {"Read", "WaitMemAccess"} : x' = [z EXCEPT !.state = "Amo", !.amo = am]
    BY <1>4, <1>6, <1>11 DEF Issue, n
  <2> HIDE DEF z, t, c
  <2>6. z \in ExecRegisters
    BY <2>1
  <2>4. /\ x' \in ExecRegisters /\ x'.state \in {"Idle", "WaitMemAcces", "Amo"}
        /\ x'.state = "Amo" => ins.op = "amo" /\ x'.amo \in {"WaitMemAccess", "Read"}
        /\ x'.tagcnt = z.tagcnt /\ x'.reg_write = z.reg_write /\ x'.reg_waddr = z.reg_waddr
        /\ x'.reg_wtag = z.reg_wtag /\ x'.memop_valid = z.memop_valid /\ x'.memop = z.memop
        /\ x'.memop_val = z.memop_val /\ x'.radr2 = z.radr2
    <3>1. CASE \E st \in {"Idle", "WaitMemAcces"} : x' = [z EXCEPT !.state = st]
      BY <2>6, <3>1 DEF ExecRegisters, ExecStates
    <3>2. CASE /\ ins.op = "amo"
               /\ \E am \in {"Read", "WaitMemAccess"} :
                     x' = [z EXCEPT !.state = "Amo", !.amo = am]
      BY <2>6, <3>2, ZenonT(60) DEF ExecRegisters, ExecStates
    <3> QED BY <2>3, <3>1, <3>2
  <2>5. /\ z.tagcnt = c /\ z.reg_write = n.reg_write /\ z.reg_waddr = ins.rd /\ z.reg_wtag = t
        /\ z.memop_valid /\ z.memop = "load" /\ z.memop_val = Value /\ z.radr2 = ins.rs
    BY <1>5, <2>1 DEF ExecRegisters
  <2> QED BY <1>1, <1>5, <1>11, <2>2, <2>4, <2>5 DEF LoadIssued, IssuesLoad
<1>12. CASE ins.op = "store"
  <2> DEFINE z == MemopEna(n, "store", ins.rd, Value)
  <2>1. z = [n EXCEPT !.memop_valid = TRUE, !.memop = "store", !.memop_val = Value]
           /\ z \in ExecRegisters
    BY <1>2, <1>5, StoreEnaFacts
  <2>2. PICK st \in {"Idle", "WaitMemAcces"} : x' = [z EXCEPT !.state = st]
    BY <1>4, <1>6, <1>12 DEF Issue, n
  <2> HIDE DEF z
  <2>3. x' \in ExecRegisters
    BY <2>1, <2>2, ZenonT(60) DEF ExecRegisters, ExecStates
  <2> QED BY <1>1, <1>5, <1>8, <1>12, <2>1, <2>2, <2>3 DEF StoreIssued, IssuesNone, ExecRegisters
<1> QED BY <1>2, <1>9, <1>10, <1>11, <1>12 DEF Instructions
\* What a clock without a new instruction does.
LEMMA QuietEffect ==
    ASSUME TypeInv, ExecInv, ZeroInv, NEW e \in Env, Clock(e), ~took'
    PROVE  /\ x' \in ExecRegisters
           /\ ResultDone \/ NoneIssued
<1> DEFINE y == Cleared(e)
<1>1. x' = ExecNext(x, ExecIn(e)) /\ ~Latches(x, ExecIn(e)) /\ x.state \in ExecStates
  BY ClockFacts DEF TypeInv, ExecRegisters
<1>2. /\ y \in ExecRegisters /\ Same(y, x) /\ ~y.reg_write
      /\ (y.memop_valid <=> x.memop_valid /\ ~Ready)
      /\ y.state = x.state /\ y.amo = x.amo /\ y.res = x.res /\ y.waddr = x.waddr
  BY ClearedFacts
<1>3. /\ x' = IF x.state = "Idle" THEN y
              ELSE IF x.state = "WaitMemAcces"
              THEN IF ExecIn(e).memop_ready THEN [y EXCEPT !.state = "Idle"] ELSE y
              ELSE IF x.state = "WaitMulti"
              THEN IF e.done THEN [RegEna(y, x.waddr) EXCEPT !.state = "Idle"] ELSE y
              ELSE IF x.state = "Csr"
              THEN IF e.done THEN [RegEna(y, x.waddr) EXCEPT !.state = "CsrWrite"] ELSE y
              ELSE IF x.state = "CsrWrite"
              THEN IF e.done THEN [y EXCEPT !.state = "Idle"] ELSE y
              ELSE Amo(x, y, ExecIn(e))
  <2>1. ExecIn(e).done = e.done
    BY DEF ExecIn
  <2> QED BY <1>1, <2>1 DEF ExecNext, Cleared, ExecStates
<1>4. /\ ExecIn(e).memop_ready = Ready
      /\ ExecIn(e).memop_idle = (Queued = << >> /\ a.state = "Idle")
      /\ ExecIn(e).rdata2 \in Values
  BY DEF ExecIn, TypeInv, ExecRegisters
<1>5. x \in ExecRegisters /\ q \in Seq(Jobs)
  BY DEF TypeInv
<1>6. Queued = << >> => ~x.memop_valid
  <2>1. ASSUME x.memop_valid PROVE Queued # << >>
    <3>1. CASE Ready
      <4>1. Queued = Append(q, Job) /\ Job \in Jobs
        BY <2>1, <3>1, InTypes DEF Queued
      <4> HIDE DEF Jobs, Job
      <4> QED BY <1>5, <4>1
    <3>2. CASE ~Ready
      <4>1. Len(q) >= QDepth - 1 /\ QDepth \in Nat /\ QDepth >= 2
        BY <1>5, <3>2, WritebackAssumption, TagBounds DEF Ready
      <4>2. q # << >> /\ Queued = q
        BY <1>5, <3>2, <4>1 DEF Queued
      <4> QED BY <4>2
    <3> QED BY <3>1, <3>2
  <2> QED BY <2>1
<1> HIDE DEF y
<1>7. CASE x' = y /\ ~(x.state = "Amo" /\ x.amo = "Write")
  <2>1. NoneIssued
    BY <1>2, <1>7 DEF NoneIssued, IssuesNone, Same, ExecInv
  <2> QED BY <1>2, <1>7, <2>1
<1>8. CASE x.state \in {"WaitMemAcces", "CsrWrite"} /\ x' = [y EXCEPT !.state = "Idle"]
  <2>1. x' \in ExecRegisters
    BY <1>2, <1>8 DEF ExecRegisters, ExecStates
  <2>2. NoneIssued
    BY <1>2, <1>8 DEF NoneIssued, IssuesNone, Same, ExecInv, ExecRegisters
  <2> QED BY <2>1, <2>2
<1>9. CASE /\ x.state \in {"WaitMulti", "Csr"}
           /\ \E st \in {"Idle", "CsrWrite"} : x' = [RegEna(y, x.waddr) EXCEPT !.state = st]
  <2>1. PICK st \in {"Idle", "CsrWrite"} : x' = [RegEna(y, x.waddr) EXCEPT !.state = st]
    BY <1>9
  <2>2. ~x.memop_valid /\ ~y.memop_valid /\ x.waddr \in Regs
    BY <1>2, <1>5, <1>9 DEF ExecInv, ExecRegisters
  <2>3. CASE x.waddr = 0
    <3>1. x' = [y EXCEPT !.state = st]
      BY <2>1, <2>3 DEF RegEna
    <3>2. x' \in ExecRegisters
      BY <1>2, <3>1 DEF ExecRegisters, ExecStates
    <3>3. ResultDone
      BY <1>2, <1>9, <2>2, <2>3, <3>1 DEF ResultDone, IssuesNone, Same, ExecRegisters
    <3> QED BY <3>2, <3>3
  <2>4. CASE x.waddr # 0
    <3> DEFINE z == RegEna(y, x.waddr)
               t == (y.tagcnt[x.waddr] + 1) % NTags
               c == [y.tagcnt EXCEPT ![x.waddr] = t]
    <3>1. z = [y EXCEPT !.tagcnt = c, !.reg_waddr = x.waddr, !.reg_wtag = t, !.reg_write = TRUE]
             /\ z \in ExecRegisters
      BY <1>2, <2>2, <2>4, RegEnaFacts
    <3>2. c = Counted(x.waddr) /\ c[x.waddr] = t
      BY <1>2, <2>2, <2>4 DEF Counted, ExecRegisters, Same
    <3>3. x' = [z EXCEPT !.state = st]
      BY <2>1
    <3> HIDE DEF z, t, c
    <3>4. x' \in ExecRegisters
      BY <3>1, <3>3, ZenonT(60) DEF ExecRegisters, ExecStates
    <3>5. ResultDone
      BY <1>2, <1>9, <2>2, <2>4, <3>1, <3>2, <3>3, ZenonT(60)
        DEF ResultDone, IssuesResult, ExecRegisters
    <3> QED BY <3>4, <3>5
  <2> QED BY <2>3, <2>4
<1>10. CASE x.state = "Amo"
  <2>1. x' = Amo(x, y, ExecIn(e))
    BY <1>3, <1>10
  <2>2. x.amo \in {"WaitMemAccess", "Read", "Modify", "Write"}
    BY <1>5 DEF ExecRegisters
  <2>3. CASE x.amo = "WaitMemAccess"
    <3>1. x' = IF Ready THEN [y EXCEPT !.amo = "Read"] ELSE y
      BY <1>4, <2>1, <2>3 DEF Amo
    <3>2. x' \in ExecRegisters
      BY <1>2, <3>1 DEF ExecRegisters
    <3> QED BY <1>2, <1>10, <2>3, <3>1, <3>2 DEF NoneIssued, IssuesNone, Same, ExecRegisters
  <2>4. CASE x.amo = "Read"
    <3> DEFINE r == ExecIn(e).rdata2
    <3>1. x' = [y EXCEPT !.rdata2_amo = r, !.amo = "Modify"] /\ r \in Values
      BY <1>4, <2>1, <2>4 DEF Amo
    <3> HIDE DEF r
    <3>2. x' \in ExecRegisters
      BY <1>2, <3>1 DEF ExecRegisters
    <3> QED BY <1>2, <1>10, <3>1, <3>2 DEF NoneIssued, IssuesNone, Same, ExecRegisters
  <2>5. CASE x.amo = "Modify"
    <3>1. x' = y \/ (Queued = << >> /\ x' = [y EXCEPT !.amo = "Write"])
      BY <1>4, <2>1, <2>5 DEF Amo
    <3>2. x' \in ExecRegisters
      BY <1>2, <3>1 DEF ExecRegisters
    <3> QED BY <1>2, <1>6, <1>10, <2>5, <3>1, <3>2 DEF NoneIssued, IssuesNone, Same, ExecRegisters
  <2>6. CASE x.amo = "Write"
    <3> DEFINE z == MemopEna(y, "store", 0, x.sum)
    <3>1. z = [y EXCEPT !.memop_valid = TRUE, !.memop = "store", !.memop_val = x.sum]
             /\ z \in ExecRegisters
      <4>1. x.sum \in Values
        BY <1>5 DEF ExecRegisters
      <4> QED BY <1>2, <4>1, StoreEnaFacts, ZeroValue
    <3>2. x' = [z EXCEPT !.state = IF Ready THEN "Idle" ELSE @,
                         !.amo = IF Ready THEN "WaitMemAccess" ELSE @]
      BY <1>4, <2>1, <2>6 DEF Amo
    <3> HIDE DEF z
    <3>3. x' = z \/ x' = [z EXCEPT !.state = "Idle", !.amo = "WaitMemAccess"]
      BY <3>1, <3>2 DEF ExecRegisters
    <3>5. /\ z.tagcnt = y.tagcnt /\ ~z.reg_write /\ z.waddr = y.waddr /\ z.res = y.res
          /\ z.memop = "store" /\ z.state = y.state
      BY <1>2, <3>1 DEF ExecRegisters
    <3>7. z \in ExecRegisters
      BY <3>1
    <3>4. CASE x' = [z EXCEPT !.state = "Idle", !.amo = "WaitMemAccess"]
      <4>1. x' \in ExecRegisters
        BY <3>7, <3>4 DEF ExecRegisters, ExecStates
      <4>2. /\ x'.tagcnt = z.tagcnt /\ x'.reg_write = z.reg_write /\ x'.waddr = z.waddr
            /\ x'.res = z.res /\ x'.memop = z.memop /\ x'.state = "Idle"
        BY <3>7, <3>4 DEF ExecRegisters
      <4> QED BY <1>2, <1>10, <2>6, <3>5, <4>1, <4>2 DEF NoneIssued, IssuesNone, Same, ExecInv
    <3>6. CASE x' = z
      BY <1>2, <1>10, <2>6, <3>5, <3>6, <3>7 DEF NoneIssued, IssuesNone, Same, ExecInv
    <3> QED BY <3>3, <3>4, <3>6
  <2> QED BY <2>2, <2>3, <2>4, <2>5, <2>6
<1>11. CASE x.state # "Amo"
  BY <1>1, <1>3, <1>7, <1>8, <1>9, <1>11 DEF ExecStates
<1> QED BY <1>10, <1>11

----------------------------------------------------------------------------
(***************************************************************************)
(* Types, and what the execute stage gives away, after a clock.            *)
(***************************************************************************)
LEMMA AccessType ==
    ASSUME TypeInv, NEW e \in Env, Clock(e)
    PROVE  a' \in [state : AccessStates, valid : BOOLEAN, job : Jobs \cup {None},
                   hold : Values \cup {None}]
<1> DEFINE T == [state : AccessStates, valid : BOOLEAN, job : Jobs \cup {None},
                 hold : Values \cup {None}]
           n == [a EXCEPT !.valid = FALSE]
<1>1. a' = AccessNext(a, Front, AccessIn(e)) /\ e.answer \in BOOLEAN
  BY ClockFacts
<1>2. Front = None \/ Front \in Jobs
  BY InTypes
<1>3. n \in T /\ a \in T /\ (a.state # "Idle" => a.job \in Jobs)
  <2>1. a \in T /\ (a.state # "Idle" => a.job # None)
    BY DEF TypeInv
  <2> HIDE DEF Jobs
  <2> QED BY <2>1
<1>4. AccessIn(e).resp # None => AccessIn(e).resp = [data |-> a.job.val]
  BY DEF AccessIn
<1> HIDE DEF n
<1>5. \/ a' = Take(n, Front, AccessIn(e)) /\ Front # None
      \/ \E s \in {"Idle", "WaitResponse"} : a' = [n EXCEPT !.state = s]
      \/ /\ a.state = "WaitResponse" /\ AccessIn(e).resp # None
         /\ a' = [n EXCEPT !.state = "Hold", !.hold = AccessIn(e).resp.data]
      \/ a' = n
  BY <1>1 DEF AccessNext, n
<1>6. CASE a' = Take(n, Front, AccessIn(e)) /\ Front # None
  <2>1. Front \in Jobs /\ (Front.op = "flush") \in BOOLEAN /\ Front.op # "flush"
    BY <1>2, <1>6 DEF Jobs
  <2>2. PICK s \in {"WaitResponse", "WaitReqAccept"} :
           a' = [n EXCEPT !.job = Front, !.valid = FALSE, !.state = s]
    BY <1>6, <2>1 DEF Take
  <2> HIDE DEF Jobs
  <2> QED BY <1>3, <2>1, <2>2 DEF AccessStates
<1>7. CASE \E s \in {"Idle", "WaitResponse"} : a' = [n EXCEPT !.state = s]
  <2> HIDE DEF Jobs
  <2> QED BY <1>3, <1>7 DEF AccessStates
<1>8. CASE /\ a.state = "WaitResponse" /\ AccessIn(e).resp # None
           /\ a' = [n EXCEPT !.state = "Hold", !.hold = AccessIn(e).resp.data]
  <2> DEFINE v == AccessIn(e).resp.data
  <2>1. v \in Values
    BY <1>3, <1>4, <1>8 DEF Jobs
  <2> HIDE DEF Jobs, v
  <2> QED BY <1>3, <1>8, <2>1 DEF AccessStates, v
<1> QED BY <1>3, <1>5, <1>6, <1>7, <1>8

LEMMA TypeNext ==
    ASSUME TypeInv, ExecInv, ZeroInv, NEW e \in Env, Clock(e)
    PROVE  TypeInv' /\ ExecInv' /\ ZeroInv'
<1> USE ClockFacts
<1>1. load' \in Workloads /\ ins' \in Instructions \cup {None}
  <2>1. load \in Workloads /\ load' = load /\ load \subseteq Instructions
    BY WritebackAssumption DEF TypeInv, Instructions
  <2> QED BY <2>1 DEF TypeInv
<1>2. x' \in ExecRegisters
  BY IssueEffect, QuietEffect
<1>3. q' \in Seq(Jobs)
  <2>1. Queued \in Seq(Jobs)
    BY InTypes
  <2> HIDE DEF Jobs
  <2> QED BY <2>1
<1>4. a' \in [state : AccessStates, valid : BOOLEAN, job : Jobs \cup {None},
              hold : Values \cup {None}]
  BY AccessType
<1>5. /\ a'.state # "Idle" => a'.job # None
      /\ a'.state = "Hold" => WritesReg(a'.job) /\ a'.hold = a'.job.val
  <2>1. None \notin Jobs
    BY NoneAssumption DEF Jobs, Tags
  <2> HIDE DEF Jobs
  <2>2. CASE a.state = "Idle" \/ Ends(e)
    BY <2>1, <2>2, AccessEffect
  <2>3. CASE ~(a.state = "Idle" \/ Ends(e))
    <3>1. a'.job = a.job /\ a.job # None
      BY <2>3, AccessEffect DEF TypeInv
    <3>2. a'.state = "Hold" => WritesReg(a.job) /\ a'.hold = a.job.val
      BY <2>3, AccessEffect
    <3> QED BY <3>1, <3>2
  <2> QED BY <2>2, <2>3
<1>6. bank' \in [Regs -> [val : Values, tag : Tags]] /\ bank'[0] = bank[0]
  BY BankEffect, ZeroValue
<1>7. /\ Value \in Values /\ took' \in BOOLEAN
      /\ took' => ins # None /\ ins \in Instructions
  BY InTypes DEF Latches, ExecIn, TypeInv
<1>8. arch' \in [Regs -> Values] /\ arch'[0] = arch[0]
  <2>1. arch \in [Regs -> Values]
    BY DEF TypeInv
  <2>2. took' => ins.rd \in Regs
    BY <1>7 DEF Instructions
  <2> HIDE DEF Value
  <2> QED BY <1>7, <2>1, <2>2, ZeroValue
<1>9. want' \in Values
  <2>1. CASE took' /\ ins.op = "amo"
    <3>1. arch[ins.rs] \in Values
      BY <1>7, <2>1 DEF TypeInv, Instructions
    <3>2. Value \in Nat /\ arch[ins.rs] \in Nat
      BY <1>7, <3>1, ZeroValue
    <3> QED BY <2>1, <3>2, AddType
  <2>2. CASE ~(took' /\ ins.op = "amo")
    BY <2>2, ZeroValue DEF TypeInv
  <2> QED BY <2>1, <2>2
<1>10. TypeInv'
  BY <1>1, <1>2, <1>3, <1>4, <1>5, <1>6, <1>8, <1>9 DEF TypeInv
<1>11. ExecInv' /\ (x'.reg_write => x'.reg_waddr # 0)
  <2>1. AluIssued \/ SlowIssued \/ LoadIssued \/ StoreIssued \/ ResultDone \/ NoneIssued
    BY IssueEffect, QuietEffect
  <2> QED BY <2>1 DEF ExecInv, AluIssued, SlowIssued, LoadIssued, StoreIssued, ResultDone,
                      NoneIssued, IssuesNone, IssuesResult, IssuesLoad
<1>12. x'.tagcnt[0] = x.tagcnt[0]
  <2>1. AluIssued \/ SlowIssued \/ LoadIssued \/ StoreIssued \/ ResultDone \/ NoneIssued
    BY IssueEffect, QuietEffect
  <2>2. x'.tagcnt = x.tagcnt \/ \E w \in Regs : x'.tagcnt = Counted(w)
    <3>1. ins # None => ins.rd \in Regs
      BY DEF TypeInv, Instructions
    <3>2. x.waddr \in Regs
      BY DEF TypeInv, ExecRegisters
    <3>3. took' => ins.rd \in Regs
      BY <1>7, <3>1
    <3> QED BY <2>1, <3>2, <3>3
            DEF AluIssued, SlowIssued, LoadIssued, StoreIssued, ResultDone, NoneIssued,
                IssuesNone, IssuesResult, IssuesLoad
  <2> QED BY <2>2, ZeroValue DEF Counted, TypeInv, ExecRegisters
<1>13. ZeroInv'
  BY <1>6, <1>8, <1>11, <1>12 DEF ZeroInv
<1> QED BY <1>10, <1>11, <1>13

----------------------------------------------------------------------------
(***************************************************************************)
(* Operations under way after a clock.                                     *)
(***************************************************************************)
LEMMA PendingDef ==
    \A j : j \in Pending <=> /\ j.op = "load"
                             /\ \/ \E i \in 1 .. Len(q) : j = q[i]
                                \/ a.state # "Idle" /\ j = a.job
                                \/ x.memop_valid /\ j = Job
BY DEF Pending

LEMMA PendingType == ASSUME TypeInv PROVE Pending \subseteq Jobs
<1> SUFFICES ASSUME NEW j \in Pending PROVE j \in Jobs
  OBVIOUS
<1>1. Job \in Jobs /\ q \in Seq(Jobs) /\ (a.state # "Idle" => a.job \in Jobs)
  <2>1. a.job \in Jobs \cup {None} /\ q \in Seq(Jobs) /\ (a.state # "Idle" => a.job # None)
    BY DEF TypeInv
  <2> QED BY <2>1, InTypes
<1> HIDE DEF Jobs, Job
<1> QED BY <1>1, PendingDef

\* What a clock keeps of the operation that is not yet in the queue.
LEMMA JobKept ==
    ASSUME TypeInv, ExecInv, ZeroInv, NEW e \in Env, Clock(e)
    PROVE  /\ x'.memop_valid /\ x'.memop = "load"
                => (x.memop_valid /\ ~Ready /\ Job' = Job) \/ LoadIssued
           /\ x.memop_valid /\ x.memop = "load" /\ ~Ready
                => x'.memop_valid /\ x'.memop = "load" /\ Job' = Job
           /\ LoadIssued => /\ x'.memop_valid /\ x'.memop = "load"
                            /\ ~(x.memop_valid /\ ~Ready)
<1>1. AluIssued \/ SlowIssued \/ LoadIssued \/ StoreIssued \/ ResultDone \/ NoneIssued
  BY IssueEffect, QuietEffect, ClockFacts DEF Latches
<1>2. /\ Job = [op |-> x.memop, rd |-> x.reg_waddr, tag |-> x.reg_wtag, val |-> x.memop_val,
                ena |-> FALSE, debug |-> FALSE]
      /\ Job' = [op |-> x'.memop, rd |-> x'.reg_waddr, tag |-> x'.reg_wtag,
                 val |-> x'.memop_val, ena |-> FALSE, debug |-> FALSE]
  BY DEF Job
<1>3. IssuesNone => /\ x'.memop_valid /\ x'.memop = "load"
                          <=> x.memop_valid /\ x.memop = "load" /\ ~Ready
                    /\ x'.memop_valid /\ x'.memop = "load" => Job' = Job
  BY <1>2 DEF IssuesNone
<1> HIDE DEF Job
<1>4. LoadIssued => /\ x'.memop_valid /\ x'.memop = "load" /\ ~(x.memop_valid /\ ~Ready)
  BY DEF LoadIssued, IssuesLoad
<1>5. (\E w : IssuesResult(w)) => ~x'.memop_valid /\ ~(x.memop_valid /\ ~Ready)
  BY DEF IssuesResult
<1>6. LoadIssued \/ IssuesNone \/ \E w : IssuesResult(w)
  BY <1>1 DEF AluIssued, SlowIssued, StoreIssued, ResultDone, NoneIssued
<1> QED BY <1>3, <1>4, <1>5, <1>6

LEMMA Moved ==
    ASSUME TypeInv, ExecInv, ZeroInv, NEW e \in Env, Clock(e)
    PROVE  /\ \A j \in Pending' : j \in Pending \/ (LoadIssued /\ j = Job')
           /\ \A j \in Pending : j \in Pending' \/ (Ends(e) /\ j = a.job)
           /\ LoadIssued => Job' \in Pending'
           /\ \A j : /\ j.op = "load"
                    /\ \/ \E i \in 1 .. Len(q') : j = q'[i]
                       \/ a'.state # "Idle" /\ j = a'.job
                    => j \in Pending
<1>1. \A j : j \in Pending' <=> /\ j.op = "load"
                                /\ \/ \E i \in 1 .. Len(q') : j = q'[i]
                                   \/ a'.state # "Idle" /\ j = a'.job
                                   \/ x'.memop_valid /\ j = Job'
  BY DEF Pending
<1>2. Job \in Jobs /\ Job.op = x.memop /\ Job'.op = x'.memop /\ q \in Seq(Jobs)
  BY InTypes DEF TypeInv, Job
<1> DEFINE InQueued(j) == \E i \in 1 .. Len(Queued) : j = Queued[i]
<1> HIDE DEF Jobs, Job
<1>3. Queued \in Seq(Jobs)
  BY InTypes
<1>4. \A j : InQueued(j) <=> \/ \E i \in 1 .. Len(q) : j = q[i]
                             \/ x.memop_valid /\ Ready /\ j = Job
  <2>1. CASE x.memop_valid /\ Ready
    <3>1. /\ Len(Queued) = Len(q) + 1 /\ Queued[Len(q) + 1] = Job
          /\ \A i \in 1 .. Len(q) : Queued[i] = q[i]
      BY <1>2, <2>1 DEF Queued
    <3>2. Len(q) \in Nat
      BY <1>2
    <3> QED BY <2>1, <3>1, <3>2
  <2>2. CASE ~(x.memop_valid /\ Ready)
    BY <2>2 DEF Queued
  <2> QED BY <2>1, <2>2
<1>5. \A j : \/ \E i \in 1 .. Len(q') : j = q'[i]
             \/ a'.state # "Idle" /\ j = a'.job
             <=> InQueued(j) \/ (a.state # "Idle" /\ ~Ends(e) /\ j = a.job)
  <2>1. CASE a.state = "Idle" \/ Ends(e)
    <3>1. CASE Queued = << >>
      BY <2>1, <3>1, AccessEffect
    <3>2. CASE Queued # << >>
      <4>1. q' = Tail(Queued) /\ a'.job = Head(Queued) /\ a'.state # "Idle"
        BY <2>1, <3>2, AccessEffect
      <4>2. /\ Len(Queued) \in Nat \ {0} /\ Len(q') = Len(Queued) - 1 /\ a'.job = Queued[1]
            /\ \A i \in 1 .. Len(q') : q'[i] = Queued[i + 1]
        BY <1>3, <3>2, <4>1
      <4>3. ASSUME NEW j PROVE (\E i \in 1 .. Len(q') : j = q'[i]) \/ j = a'.job <=> InQueued(j)
        <5>1. ASSUME NEW i \in 1 .. Len(q') PROVE InQueued(q'[i])
          BY <4>2, i + 1 \in 1 .. Len(Queued)
        <5>2. InQueued(a'.job)
          BY <4>2, 1 \in 1 .. Len(Queued)
        <5>3. ASSUME NEW i \in 1 .. Len(Queued), i # 1
              PROVE  \E k \in 1 .. Len(q') : Queued[i] = q'[k]
          <6>1. i - 1 \in 1 .. Len(q') /\ (i - 1) + 1 = i
            BY <4>2, <5>3
          <6>2. q'[i - 1] = Queued[i]
            BY <4>2, <6>1
          <6> QED BY <6>1, <6>2
        <5> QED BY <4>2, <5>1, <5>2, <5>3, ZenonT(60)
      <4> HIDE DEF InQueued
      <4> QED BY <2>1, <4>1, <4>3
    <3> QED BY <3>1, <3>2
  <2>2. CASE ~(a.state = "Idle" \/ Ends(e))
    BY <2>2, AccessEffect
  <2> QED BY <2>1, <2>2
<1> HIDE DEF InQueued
<1>6. \A j \in Pending' : j \in Pending \/ (LoadIssued /\ j = Job')
  <2> SUFFICES ASSUME NEW j \in Pending' PROVE j \in Pending \/ (LoadIssued /\ j = Job')
    OBVIOUS
  <2>1. CASE InQueued(j) \/ (a.state # "Idle" /\ j = a.job)
    BY <1>1, <1>4, <2>1, PendingDef
  <2>2. CASE x'.memop_valid /\ j = Job'
    BY <1>1, <1>2, <2>2, PendingDef, JobKept
  <2> QED BY <1>1, <1>5, <2>1, <2>2
<1>7. \A j \in Pending : j \in Pending' \/ (Ends(e) /\ j = a.job)
  <2> SUFFICES ASSUME NEW j \in Pending PROVE j \in Pending' \/ (Ends(e) /\ j = a.job)
    OBVIOUS
  <2>1. CASE InQueued(j) \/ (a.state # "Idle" /\ j = a.job)
    BY <1>1, <1>5, <2>1, PendingDef
  <2>2. CASE x.memop_valid /\ ~Ready /\ j = Job
    BY <1>1, <1>2, <2>2, PendingDef, JobKept
  <2> QED BY <1>4, <2>1, <2>2, PendingDef
<1>8. LoadIssued => Job' \in Pending'
  BY <1>1, <1>2, JobKept
<1>9. \A j : /\ j.op = "load"
            /\ \/ \E i \in 1 .. Len(q') : j = q'[i]
               \/ a'.state # "Idle" /\ j = a'.job
            => j \in Pending
  BY <1>4, <1>5, PendingDef
<1> QED BY <1>6, <1>7, <1>8, <1>9

\* The operations that stay under way stay in their order.
LEMMA OrderMoved ==
    ASSUME TypeInv, OrderInv, NEW e \in Env, Clock(e)
    PROVE  /\ InOrder(x.tagcnt, q')
           /\ a'.state # "Idle" => \A i \in 1 .. Len(q') : Before(x.tagcnt, a'.job, q'[i])
           /\ x.memop_valid /\ ~Ready =>
                /\ \A i \in 1 .. Len(q') : Before(x.tagcnt, q'[i], Job)
                /\ a'.state # "Idle" => Before(x.tagcnt, a'.job, Job)
<1> DEFINE B(j, k) == Before(x.tagcnt, j, k)
<1>1. /\ \A i, k \in 1 .. Len(q) : i < k => B(q[i], q[k])
      /\ a.state # "Idle" => \A i \in 1 .. Len(q) : B(a.job, q[i])
      /\ x.memop_valid => \A i \in 1 .. Len(q) : B(q[i], Job)
      /\ a.state # "Idle" /\ x.memop_valid => B(a.job, Job)
  BY DEF OrderInv, InOrder
<1>2. Job \in Jobs /\ q \in Seq(Jobs) /\ Queued \in Seq(Jobs)
  BY InTypes DEF TypeInv
<1> HIDE DEF B, Jobs, Job
<1>3. /\ \A i, k \in 1 .. Len(Queued) : i < k => B(Queued[i], Queued[k])
      /\ a.state # "Idle" => \A i \in 1 .. Len(Queued) : B(a.job, Queued[i])
      /\ x.memop_valid /\ ~Ready => Queued = q
  <2>1. CASE x.memop_valid /\ Ready
    <3>1. /\ Len(Queued) = Len(q) + 1 /\ Queued[Len(q) + 1] = Job /\ Len(q) \in Nat
          /\ \A i \in 1 .. Len(q) : Queued[i] = q[i]
      BY <1>2, <2>1 DEF Queued
    <3>2. \A i \in 1 .. Len(Queued) : i \in 1 .. Len(q) \/ i = Len(q) + 1
      BY <3>1
    <3>3. ASSUME NEW i \in 1 .. Len(Queued), NEW k \in 1 .. Len(Queued), i < k
          PROVE  B(Queued[i], Queued[k])
      <4>1. i \in 1 .. Len(q) /\ Queued[i] = q[i]
        BY <3>1, <3>3
      <4> QED BY <1>1, <2>1, <3>1, <3>2, <3>3, <4>1
    <3>4. ASSUME a.state # "Idle", NEW i \in 1 .. Len(Queued) PROVE B(a.job, Queued[i])
      BY <1>1, <2>1, <3>1, <3>2, <3>4
    <3> QED BY <2>1, <3>3, <3>4
  <2>2. CASE ~(x.memop_valid /\ Ready)
    BY <1>1, <2>2 DEF Queued
  <2> QED BY <2>1, <2>2
<1>4. /\ \A i, k \in 1 .. Len(q') : i < k => B(q'[i], q'[k])
      /\ a'.state # "Idle" => \A i \in 1 .. Len(q') : B(a'.job, q'[i])
  <2>1. CASE a.state = "Idle" \/ Ends(e)
    <3>1. CASE Queued = << >>
      BY <2>1, <3>1, AccessEffect
    <3>2. CASE Queued # << >>
      <4>1. q' = Tail(Queued) /\ a'.job = Head(Queued)
        BY <2>1, <3>2, AccessEffect
      <4>2. /\ Len(Queued) \in Nat \ {0} /\ Len(q') = Len(Queued) - 1 /\ a'.job = Queued[1]
            /\ \A i \in 1 .. Len(q') : q'[i] = Queued[i + 1] /\ i + 1 \in 1 .. Len(Queued)
        BY <1>2, <3>2, <4>1
      <4>3. ASSUME NEW i \in 1 .. Len(q'), NEW k \in 1 .. Len(q'), i < k PROVE B(q'[i], q'[k])
        BY <1>3, <4>2, <4>3, i + 1 < k + 1
      <4>4. ASSUME NEW i \in 1 .. Len(q') PROVE B(a'.job, q'[i])
        BY <1>3, <4>2, 1 \in 1 .. Len(Queued), 1 < i + 1
      <4> QED BY <4>3, <4>4
    <3> QED BY <3>1, <3>2
  <2>2. CASE ~(a.state = "Idle" \/ Ends(e))
    BY <1>3, <2>2, AccessEffect
  <2> QED BY <2>1, <2>2
<1>5. ASSUME x.memop_valid, ~Ready
      PROVE  /\ \A i \in 1 .. Len(q') : B(q'[i], Job)
             /\ a'.state # "Idle" => B(a'.job, Job)
  <2>1. Queued = q
    BY <1>3, <1>5
  <2>2. CASE a.state = "Idle" \/ Ends(e)
    <3>1. CASE q = << >>
      BY <2>1, <2>2, <3>1, AccessEffect
    <3>2. CASE q # << >>
      <4>1. q' = Tail(q) /\ a'.job = Head(q)
        BY <2>1, <2>2, <3>2, AccessEffect
      <4>2. /\ Len(q) \in Nat \ {0} /\ Len(q') = Len(q) - 1 /\ a'.job = q[1]
            /\ \A i \in 1 .. Len(q') : q'[i] = q[i + 1] /\ i + 1 \in 1 .. Len(q)
        BY <1>2, <3>2, <4>1
      <4> QED BY <1>1, <1>5, <4>2, 1 \in 1 .. Len(q)
    <3> QED BY <3>1, <3>2
  <2>3. CASE ~(a.state = "Idle" \/ Ends(e))
    BY <1>1, <1>5, <2>1, <2>3, AccessEffect
  <2> QED BY <2>2, <2>3
<1> QED BY <1>4, <1>5 DEF B, InOrder

\* The operation in the memory access stage is the oldest.
LEMMA Oldest ==
    ASSUME TypeInv, OrderInv, a.state # "Idle", a.job.op = "load", a.job.rd # 0,
           NEW j \in Pending, j.rd = a.job.rd
    PROVE  j = a.job \/ Lag(x.tagcnt, j) < Lag(x.tagcnt, a.job)
<1>1. j.op = "load" /\ (\/ \E i \in 1 .. Len(q) : j = q[i]
                        \/ j = a.job
                        \/ x.memop_valid /\ j = Job)
  BY PendingDef
<1>2. j = a.job \/ Before(x.tagcnt, a.job, j)
  BY <1>1 DEF OrderInv
<1>3. Lag(x.tagcnt, j) \in Int /\ Lag(x.tagcnt, a.job) \in Int
  <2>1. j.tag \in Tags /\ x.tagcnt[j.rd] \in Tags /\ a.job.tag \in Tags
    BY PendingType DEF TypeInv, Jobs, ExecRegisters
  <2>2. /\ Dist(x.tagcnt[j.rd], j.tag) \in 0 .. NTags - 1
        /\ Dist(x.tagcnt[j.rd], a.job.tag) \in 0 .. NTags - 1
    BY <2>1, DistFacts
  <2> QED BY <2>2, TagBounds DEF Lag
<1> QED BY <1>1, <1>2, <1>3 DEF Before

----------------------------------------------------------------------------
(***************************************************************************)
(* Registers after a clock, by the count of writes before the clock.       *)
(***************************************************************************)
LEMMA LagFacts ==
    ASSUME TypeInv, NEW j \in Pending
    PROVE  /\ j.op = "load" /\ j.rd \in Regs /\ j.tag \in Tags /\ x.tagcnt[j.rd] \in Tags
           /\ Lag(x.tagcnt, j) = Dist(x.tagcnt[j.rd], j.tag)
           /\ Lag(x.tagcnt, j) \in 0 .. NTags - 1
<1>1. j.op = "load" /\ j.rd \in Regs /\ j.tag \in Tags
  BY PendingType, PendingDef DEF Jobs
<1>2. x.tagcnt[j.rd] \in Tags
  BY <1>1 DEF TypeInv, ExecRegisters
<1> QED BY <1>1, <1>2, DistFacts DEF Lag

MidAge(w) == Dist(x.tagcnt[w], bank'[w].tag)

LEMMA BankKept ==
    ASSUME TypeInv, ExecInv, ZeroInv, OrderInv, BoundInv, CoverInv, ValueInv, Sizes,
           NEW e \in Env, Clock(e), NEW w \in Regs \ {0}
    PROVE  /\ \A n \in 0 .. MidAge(w) - 1 :
                 \E j \in Pending \cap Pending' : j.rd = w /\ Lag(x.tagcnt, j) = n
           /\ MidAge(w) \in Nat
           /\ ~Slow(w) /\ MidAge(w) = 0 => bank'[w].val = arch[w]
<1> DEFINE c == x.tagcnt[w]
           J == {j \in Pending : j.rd = w}
<1>1. /\ c \in Tags /\ bank[w].tag \in Tags /\ bank'[w].tag \in Tags
      /\ NTags \in Nat /\ NTags > 3 /\ MaxOver \in Nat /\ MaxOver < NTags - 1
  <2>1. bank' \in [Regs -> [val : Values, tag : Tags]]
    BY BankEffect
  <2> QED BY <2>1, TagBounds DEF TypeInv, ExecRegisters, Sizes
<1>2. Age(w) \in 0 .. NTags - 1 /\ MidAge(w) \in 0 .. NTags - 1
  BY <1>1, DistFacts DEF Age, MidAge
<1>3. \A j \in J : /\ Lag(x.tagcnt, j) = Dist(c, j.tag) /\ j.tag \in Tags
                   /\ Lag(x.tagcnt, j) \in 0 .. MaxOver /\ j.op = "load"
  <2> SUFFICES ASSUME NEW j \in Pending, j.rd = w
               PROVE  /\ Lag(x.tagcnt, j) = Dist(c, j.tag) /\ j.tag \in Tags
                      /\ Lag(x.tagcnt, j) \in 0 .. MaxOver /\ j.op = "load"
    OBVIOUS
  <2>1. Lag(x.tagcnt, j) <= MaxOver
    BY DEF BoundInv
  <2>2. /\ Lag(x.tagcnt, j) = Dist(c, j.tag) /\ j.tag \in Tags /\ j.op = "load"
        /\ Lag(x.tagcnt, j) \in 0 .. NTags - 1
    BY LagFacts
  <2> QED BY <1>1, <2>1, <2>2
<1>4. \A n \in 0 .. Age(w) - 1 : (n = 0 /\ Arrives(w)) \/ \E j \in J : Lag(x.tagcnt, j) = n
  BY DEF CoverInv
<1>5. \A j \in J : j \in Pending' \/ (Ends(e) /\ j = a.job)
  BY Moved
<1>6. Ends(e) => a.state # "Idle"
  BY DEF Ends
<1>7. Ends(e) /\ a.job \in J => \A j \in J : j = a.job \/ Lag(x.tagcnt, j) < Lag(x.tagcnt, a.job)
  BY <1>3, <1>6, Oldest
<1> HIDE DEF J, c
<1>8. CASE Arrives(w)
  <2>1. bank'[w] = [val |-> x.res, tag |-> x.reg_wtag]
    BY <1>8, BankEffect
  <2>2. x.reg_wtag = c /\ x.res = arch[w]
    BY <1>8 DEF ValueInv, c
  <2>3. MidAge(w) = 0
    BY <1>1, <2>1, <2>2, DistSteps DEF MidAge, c
  <2> QED BY <2>1, <2>2, <2>3
<1>9. CASE NextWrite(e, w)
  <2>1. a.job \in J /\ ~Arrives(w) /\ ((bank[w].tag + 1) % NTags) = a.job.tag
    BY <1>9, <1>6, PendingDef DEF NextWrite, J, Arrives
  <2>2. bank'[w] = [val |-> a.job.val, tag |-> a.job.tag]
    BY <1>9, BankEffect
  <2>3. MidAge(w) = Lag(x.tagcnt, a.job)
    BY <1>3, <2>1, <2>2 DEF MidAge, c
  <2>4. Age(w) = MidAge(w) + 1
    BY <1>1, <1>3, <2>1, <2>3, DistSteps DEF Age, c
  <2>5. ASSUME NEW n \in 0 .. MidAge(w) - 1
        PROVE  \E j \in Pending \cap Pending' : j.rd = w /\ Lag(x.tagcnt, j) = n
    <3>1. PICK j \in J : Lag(x.tagcnt, j) = n
      BY <1>2, <1>4, <2>1, <2>4
    <3>2. j # a.job
      BY <1>2, <2>3, <2>4, <3>1
    <3> QED BY <1>5, <3>1, <3>2 DEF J
  <2>6. ~Slow(w) /\ MidAge(w) = 0 => a.job.val = arch[w]
    BY <2>1, <2>3 DEF ValueInv, J
  <2> QED BY <1>2, <2>2, <2>5, <2>6
<1>10. CASE ~Arrives(w) /\ ~NextWrite(e, w)
  <2>1. bank'[w] = bank[w]
    BY <1>10, BankEffect
  <2>2. MidAge(w) = Age(w)
    BY <2>1 DEF MidAge, Age
  <2>3. ASSUME NEW n \in 0 .. MidAge(w) - 1
        PROVE  \E j \in Pending \cap Pending' : j.rd = w /\ Lag(x.tagcnt, j) = n
    <3>1. PICK j \in J : Lag(x.tagcnt, j) = n
      BY <1>4, <1>10, <2>2
    <3>2. ASSUME Ends(e), j = a.job PROVE FALSE
      <4>1. Lag(x.tagcnt, a.job) = Age(w) - 1
        <5>1. PICK k \in J : Lag(x.tagcnt, k) = Age(w) - 1
          BY <1>2, <1>4, <1>10, <2>2
        <5> QED BY <1>2, <1>3, <1>7, <2>2, <3>1, <3>2, <5>1
      <4>2. ((bank[w].tag + 1) % NTags) = a.job.tag
        BY <1>1, <1>2, <1>3, <3>1, <3>2, <4>1, DistSteps DEF Age, c
      <4>3. ~x.reg_write
        BY <1>3, <3>1, <3>2, BankEffect DEF J
      <4> QED BY <1>3, <1>10, <3>1, <3>2, <4>2, <4>3 DEF NextWrite, J
    <3> QED BY <1>5, <3>1, <3>2 DEF J
  <2>4. ~Slow(w) /\ MidAge(w) = 0 => bank[w].val = arch[w]
    BY <2>2 DEF ValueInv
  <2> QED BY <1>2, <2>1, <2>3, <2>4
<1> QED BY <1>8, <1>9, <1>10

----------------------------------------------------------------------------
(***************************************************************************)
(* What a clock issues for register w: a load, a result, or neither.       *)
(***************************************************************************)
OneMore(w) == x'.tagcnt[w] = (x.tagcnt[w] + 1) % NTags
Chosen(w) == Slow(w) \/ (x.state = "Idle" /\ ins # None /\ ins.rd = w)

NewLoad(w) == /\ LoadIssued /\ OneMore(w) /\ Chosen(w) /\ ~Slow(w)' /\ ~Arrives(w)'
              /\ Job'.rd = w /\ Job'.tag = x'.tagcnt[w] /\ Job'.val = arch'[w]
NewResult(w) == /\ ~LoadIssued /\ OneMore(w) /\ Chosen(w) /\ ~Slow(w)' /\ Arrives(w)'
                /\ x'.res = arch'[w] /\ x'.reg_wtag = x'.tagcnt[w]
NewNone(w) == /\ x'.tagcnt[w] = x.tagcnt[w] /\ ~Arrives(w)'
              /\ LoadIssued => Job'.rd # w
              /\ Slow(w)' => Chosen(w) /\ x'.res = arch'[w]
              /\ ~Slow(w)' => ~Slow(w) /\ arch'[w] = arch[w]

LEMMA IssueCases ==
    ASSUME TypeInv, ExecInv, ZeroInv, ValueInv, NEW e \in Env, Clock(e), NEW w \in Regs \ {0}
    PROVE  NewLoad(w) \/ NewResult(w) \/ NewNone(w)
<1>1. /\ x'.state \in {"WaitMulti", "Csr"} /\ x'.waddr = w <=> Slow(w)'
      /\ x'.reg_write /\ x'.reg_waddr = w <=> Arrives(w)'
  BY DEF Slow, Arrives
<1>2. Job'.rd = x'.reg_waddr /\ Job'.tag = x'.reg_wtag /\ Job'.val = x'.memop_val
  BY DEF Job
<1>3. took' => /\ ins # None /\ x.state = "Idle" /\ ins \in Instructions /\ ins.rd \in Regs
               /\ ~Slow(w)
  BY ClockFacts DEF Latches, ExecIn, TypeInv, Instructions, Slow
<1>4. /\ arch' = IF took' /\ ins.rd # 0 /\ ins.op # "store"
                 THEN [arch EXCEPT ![ins.rd] = Value] ELSE arch
      /\ arch \in [Regs -> Values] /\ took' \in BOOLEAN
  BY ClockFacts DEF TypeInv, Latches
<1>5. /\ took' /\ ins.op # "store" /\ ins.rd = w => arch'[w] = Value
      /\ ~(took' /\ ins.op # "store" /\ ins.rd = w) => arch'[w] = arch[w]
  <2> HIDE DEF Value
  <2> QED BY <1>3, <1>4
<1>6. \A v \in Regs : Counted(v)[w] = IF v = w THEN (x.tagcnt[w] + 1) % NTags ELSE x.tagcnt[w]
  BY DEF Counted, TypeInv, ExecRegisters
<1>7. x.waddr \in Regs
  BY DEF TypeInv, ExecRegisters
<1> HIDE DEF Job, Value
<1>8. CASE AluIssued
  <2>1. took' /\ ins.op = "alu" /\ x'.state = "Idle"
    BY <1>8 DEF AluIssued
  <2>2. ~Slow(w)'
    BY <1>1, <2>1
  <2>3. ~LoadIssued
    BY <2>1 DEF LoadIssued
  <2>4. CASE ins.rd = 0
    <3>1. IssuesNone
      BY <1>8, <2>4 DEF AluIssued
    <3> QED BY <1>1, <1>3, <1>5, <2>1, <2>2, <2>3, <2>4, <3>1 DEF IssuesNone, NewNone
  <2>5. CASE ins.rd = w
    <3>1. IssuesResult(w) /\ x'.res = Value
      BY <1>8, <2>5 DEF AluIssued
    <3>2. OneMore(w) /\ Arrives(w)' /\ x'.reg_wtag = x'.tagcnt[w]
      BY <1>1, <1>6, <3>1 DEF IssuesResult, OneMore
    <3> QED BY <1>3, <1>5, <2>1, <2>2, <2>3, <2>5, <3>1, <3>2 DEF NewResult, Chosen
  <2>6. CASE ins.rd # 0 /\ ins.rd # w
    <3>1. IssuesResult(ins.rd)
      BY <1>8, <2>6 DEF AluIssued
    <3> QED BY <1>1, <1>3, <1>5, <1>6, <2>1, <2>2, <2>3, <2>6, <3>1 DEF IssuesResult, NewNone
  <2> QED BY <2>4, <2>5, <2>6
<1>9. CASE SlowIssued
  <2>1. /\ took' /\ ins.op \in {"multi", "csr"} /\ IssuesNone
        /\ x'.state \in {"WaitMulti", "Csr"} /\ x'.waddr = ins.rd /\ x'.res = Value
    BY <1>9 DEF SlowIssued
  <2> QED BY <1>1, <1>3, <1>5, <2>1 DEF IssuesNone, NewNone, LoadIssued, Chosen
<1>10. CASE LoadIssued
  <2>1. /\ took' /\ ins.op \in {"load", "amo"} /\ IssuesLoad(ins.rd) /\ x'.memop_val = Value
        /\ x'.state \notin {"WaitMulti", "Csr"}
    BY <1>10 DEF LoadIssued
  <2>2. ~Slow(w)' /\ ~Arrives(w)'
    BY <1>1, <2>1 DEF IssuesLoad
  <2>3. CASE ins.rd = w
    <3>1. OneMore(w) /\ x'.reg_waddr = w /\ x'.reg_wtag = x'.tagcnt[w]
      BY <1>6, <2>1, <2>3 DEF IssuesLoad, OneMore
    <3> QED BY <1>2, <1>3, <1>5, <1>10, <2>1, <2>2, <2>3, <3>1 DEF NewLoad, Chosen
  <2>4. CASE ins.rd # w
    BY <1>2, <1>3, <1>5, <1>6, <2>1, <2>2, <2>4 DEF NewNone, IssuesLoad
  <2> QED BY <2>3, <2>4
<1>11. CASE StoreIssued
  <2>1. took' /\ ins.op = "store" /\ IssuesNone /\ x'.state \notin {"WaitMulti", "Csr"}
    BY <1>11 DEF StoreIssued
  <2> QED BY <1>1, <1>3, <1>5, <2>1 DEF IssuesNone, NewNone, LoadIssued
<1>12. CASE ResultDone
  <2>1. ~took' /\ x.state \in {"WaitMulti", "Csr"} /\ x'.state \in {"Idle", "CsrWrite"}
    BY <1>12 DEF ResultDone
  <2>2. ~Slow(w)' /\ ~LoadIssued /\ arch'[w] = arch[w]
    BY <1>1, <1>5, <2>1 DEF LoadIssued
  <2>3. CASE x.waddr = 0
    <3>1. IssuesNone /\ ~Slow(w)
      BY <1>12, <2>3 DEF ResultDone, Slow
    <3> QED BY <1>1, <2>2, <3>1 DEF IssuesNone, NewNone
  <2>4. CASE x.waddr = w
    <3>1. IssuesResult(w) /\ x'.res = x.res
      BY <1>12, <2>4 DEF ResultDone
    <3>2. OneMore(w) /\ Arrives(w)' /\ x'.reg_wtag = x'.tagcnt[w]
      BY <1>1, <1>6, <3>1 DEF IssuesResult, OneMore
    <3>3. Slow(w) /\ x.res = arch[w]
      BY <2>1, <2>4 DEF Slow, ValueInv
    <3> QED BY <2>2, <3>1, <3>2, <3>3 DEF NewResult, Chosen
  <2>5. CASE x.waddr # 0 /\ x.waddr # w
    <3>1. IssuesResult(x.waddr) /\ ~Slow(w)
      BY <1>12, <2>5 DEF ResultDone, Slow
    <3> QED BY <1>1, <1>6, <1>7, <2>2, <2>5, <3>1 DEF IssuesResult, NewNone
  <2> QED BY <2>3, <2>4, <2>5
<1>13. CASE NoneIssued
  <2>1. /\ ~took' /\ IssuesNone /\ x'.waddr = x.waddr /\ x'.res = x.res
        /\ x.state \in {"WaitMulti", "Csr"} <=> x'.state \in {"WaitMulti", "Csr"}
    BY <1>13 DEF NoneIssued
  <2>2. (Slow(w)' <=> Slow(w)) /\ arch'[w] = arch[w] /\ ~LoadIssued
    BY <1>1, <1>5, <2>1 DEF Slow, LoadIssued
  <2>3. Slow(w) => x.res = arch[w]
    BY DEF ValueInv
  <2> QED BY <1>1, <2>1, <2>2, <2>3 DEF IssuesNone, NewNone, Chosen
<1> QED BY <1>8, <1>9, <1>10, <1>11, <1>12, <1>13, IssueEffect, QuietEffect

----------------------------------------------------------------------------
(***************************************************************************)
(* The parts of the invariant after a clock.                               *)
(***************************************************************************)
LEMMA LagMoves ==
    ASSUME TypeInv, BoundInv, Sizes, NEW j \in Pending, j.rd # 0
    PROVE  /\ x'.tagcnt[j.rd] = x.tagcnt[j.rd] => Lag(x'.tagcnt, j) = Lag(x.tagcnt, j)
           /\ OneMore(j.rd) /\ Chosen(j.rd) => /\ Lag(x'.tagcnt, j) = Lag(x.tagcnt, j) + 1
                                               /\ Lag(x'.tagcnt, j) <= MaxOver
<1>1. /\ j.tag \in Tags /\ x.tagcnt[j.rd] \in Tags
      /\ Lag(x.tagcnt, j) = Dist(x.tagcnt[j.rd], j.tag) /\ Lag(x.tagcnt, j) \in 0 .. NTags - 1
  BY LagFacts
<1>2. Lag(x'.tagcnt, j) = Dist(x'.tagcnt[j.rd], j.tag)
  BY DEF Lag
<1>3. Chosen(j.rd) => Lag(x.tagcnt, j) < MaxOver
  BY DEF BoundInv, Chosen
<1>4. NTags \in Nat /\ MaxOver \in Nat /\ MaxOver < NTags - 1
  BY TagBounds DEF Sizes
<1>5. Dist(x.tagcnt[j.rd], j.tag) < NTags - 1
         => Dist((x.tagcnt[j.rd] + 1) % NTags, j.tag) = Dist(x.tagcnt[j.rd], j.tag) + 1
  BY <1>1, DistSteps
<1> QED BY <1>1, <1>2, <1>3, <1>4, <1>5 DEF OneMore

LEMMA OrderNext ==
    ASSUME TypeInv, ExecInv, ZeroInv, OrderInv, BoundInv, ValueInv, Sizes,
           NEW e \in Env, Clock(e)
    PROVE  OrderInv'
<1> DEFINE B(j, k) == Before(x.tagcnt, j, k)
           C(j, k) == Before(x'.tagcnt, j, k)
<1>1. \A w \in Regs \ {0} : \/ x'.tagcnt[w] = x.tagcnt[w] /\ (LoadIssued => Job'.rd # w)
                            \/ OneMore(w) /\ Chosen(w)
  BY IssueCases DEF NewLoad, NewResult, NewNone
<1>2. \A j \in Pending : j.op = "load" /\ j.rd \in Regs /\ Lag(x.tagcnt, j) \in Nat
  BY LagFacts, TagBounds
<1>3. ASSUME NEW j \in Pending, NEW k \in Pending, B(j, k) PROVE C(j, k)
  <2> SUFFICES ASSUME j.rd = k.rd, j.rd # 0 PROVE Lag(x'.tagcnt, j) > Lag(x'.tagcnt, k)
    BY DEF Before
  <2>1. Lag(x.tagcnt, j) > Lag(x.tagcnt, k)
    BY <1>2, <1>3 DEF Before
  <2>2. x'.tagcnt[j.rd] = x.tagcnt[j.rd] \/ (OneMore(j.rd) /\ Chosen(j.rd))
    BY <1>1, <1>2
  <2> QED BY <1>2, <2>1, <2>2, LagMoves
<1>4. \A j, k : j.op # "load" \/ k.op # "load" => C(j, k)
  BY DEF Before
<1>5. ASSUME LoadIssued, NEW j \in Pending PROVE C(j, Job')
  <2> SUFFICES ASSUME j.rd = Job'.rd, j.rd # 0
               PROVE  Lag(x'.tagcnt, j) > Lag(x'.tagcnt, Job')
    BY DEF Before
  <2>1. j.rd \in Regs \ {0} /\ Lag(x.tagcnt, j) \in Nat
    BY <1>2
  <2>2. NewLoad(j.rd)
    BY <1>5, <2>1, IssueCases DEF NewResult, NewNone
  <2>3. Lag(x'.tagcnt, j) = Lag(x.tagcnt, j) + 1
    BY <2>2, LagMoves DEF NewLoad
  <2>4. Lag(x'.tagcnt, Job') = Dist(x'.tagcnt[j.rd], x'.tagcnt[j.rd])
    BY <2>2 DEF NewLoad, Lag
  <2>5. x'.tagcnt[j.rd] \in Tags
    BY <2>1, TypeNext DEF TypeInv, ExecRegisters
  <2>6. Lag(x'.tagcnt, Job') = 0
    BY <2>4, <2>5, DistSteps
  <2> QED BY <2>1, <2>3, <2>6
<1>6. \A j, k : B(j, k) /\ (j.op = "load" => j \in Pending) /\ (k.op = "load" => k \in Pending)
                => C(j, k)
  BY <1>3, <1>4
<1>7. /\ \A i \in 1 .. Len(q') : q'[i].op = "load" => q'[i] \in Pending
      /\ a'.state # "Idle" /\ a'.job.op = "load" => a'.job \in Pending
      /\ x.memop_valid /\ Job.op = "load" => Job \in Pending
  <2> HIDE DEF B, C, Job
  <2> QED BY Moved, PendingDef
<1>8. Job'.op = x'.memop
  BY DEF Job
<1>9. /\ \A i, k \in 1 .. Len(q') : i < k => B(q'[i], q'[k])
      /\ a'.state # "Idle" => \A i \in 1 .. Len(q') : B(a'.job, q'[i])
      /\ x.memop_valid /\ ~Ready =>
           /\ \A i \in 1 .. Len(q') : B(q'[i], Job)
           /\ a'.state # "Idle" => B(a'.job, Job)
  BY OrderMoved DEF InOrder
<1> HIDE DEF B, C, Job
<1>10. \A i, k \in 1 .. Len(q') : i < k => C(q'[i], q'[k])
  BY <1>6, <1>7, <1>9
<1>11. a'.state # "Idle" => \A i \in 1 .. Len(q') : C(a'.job, q'[i])
  BY <1>6, <1>7, <1>9
<1>12. ASSUME x'.memop_valid
       PROVE  /\ \A i \in 1 .. Len(q') : C(q'[i], Job')
              /\ a'.state # "Idle" => C(a'.job, Job')
  <2>1. CASE x'.memop # "load"
    BY <1>4, <1>8, <2>1
  <2>2. CASE LoadIssued
    BY <1>4, <1>5, <1>7, <2>2
  <2>3. CASE x.memop_valid /\ ~Ready /\ Job' = Job
    BY <1>6, <1>7, <1>9, <2>3
  <2> QED BY <1>12, <2>1, <2>2, <2>3, JobKept
<1> QED BY <1>10, <1>11, <1>12 DEF OrderInv, InOrder, C

LEMMA BoundNext ==
    ASSUME TypeInv, ExecInv, ZeroInv, BoundInv, ValueInv, Sizes, NEW e \in Env, Clock(e),
           ins' # None => (\A n \in Overtaken(ins.rd) : n < MaxOver)'
    PROVE  BoundInv'
<1> SUFFICES ASSUME NEW j \in Pending', j.rd # 0
             PROVE  /\ Lag(x'.tagcnt, j) <= MaxOver
                    /\ Slow(j.rd)' \/ (x'.state = "Idle" /\ ins' # None /\ ins'.rd = j.rd)
                         => Lag(x'.tagcnt, j) < MaxOver
  BY DEF BoundInv
<1>1. TypeInv' /\ MaxOver \in Nat /\ NTags \in Nat
  BY TypeNext, TagBounds
<1>2. j.rd \in Regs \ {0} /\ j.tag \in Tags /\ x'.tagcnt[j.rd] \in Tags
  <2>1. (Pending \subseteq Jobs)'
    BY <1>1, PendingType, PTL
  <2> QED BY <1>1, <2>1 DEF Jobs, TypeInv, ExecRegisters
<1>3. Lag(x'.tagcnt, j) <= MaxOver
  <2>1. CASE j \in Pending
    <3>1. Lag(x.tagcnt, j) <= MaxOver
      BY <2>1 DEF BoundInv
    <3> QED BY <1>2, <2>1, <3>1, IssueCases, LagMoves DEF NewLoad, NewResult, NewNone
  <2>2. CASE LoadIssued /\ j = Job'
    <3>1. NewLoad(j.rd)
      BY <1>2, <2>2, IssueCases DEF NewResult, NewNone
    <3>2. Lag(x'.tagcnt, j) = 0
      BY <1>2, <2>2, <3>1, DistSteps DEF NewLoad, Lag
    <3> QED BY <1>1, <3>2
  <2> QED BY <2>1, <2>2, Moved
<1>4. ASSUME Slow(j.rd)' PROVE Lag(x'.tagcnt, j) < MaxOver
  <2>1. NewNone(j.rd)
    BY <1>2, <1>4, IssueCases DEF NewLoad, NewResult
  <2>2. j \in Pending
    BY <2>1, Moved DEF NewNone
  <2>3. Chosen(j.rd) /\ Lag(x'.tagcnt, j) = Lag(x.tagcnt, j)
    BY <1>4, <2>1, <2>2, LagMoves DEF NewNone
  <2> QED BY <2>2, <2>3 DEF BoundInv, Chosen
<1>5. ASSUME x'.state = "Idle", ins' # None, ins'.rd = j.rd PROVE Lag(x'.tagcnt, j) < MaxOver
  <2>1. \A n \in {((x'.tagcnt[j.rd] + 0) - i.tag) % NTags : i \in {k \in Pending' : k.rd = j.rd}} :
           n < MaxOver
    BY <1>5 DEF Overtaken
  <2>2. ((x'.tagcnt[j.rd] + 0) - j.tag) % NTags < MaxOver
    BY <2>1
  <2>3. x'.tagcnt[j.rd] + 0 = x'.tagcnt[j.rd]
    BY <1>2 DEF Tags
  <2> QED BY <2>2, <2>3 DEF Lag, Dist
<1> QED BY <1>3, <1>4, <1>5

LEMMA CoverNext ==
    ASSUME TypeInv, ExecInv, ZeroInv, OrderInv, BoundInv, CoverInv, ValueInv, Sizes,
           NEW e \in Env, Clock(e)
    PROVE  CoverInv' /\ ValueInv'
<1> SUFFICES ASSUME NEW w \in Regs \ {0}
             PROVE  /\ \A n \in 0 .. Age(w)' - 1 :
                          \/ n = 0 /\ Arrives(w)'
                          \/ \E j \in Pending' : j.rd = w /\ Lag(x'.tagcnt, j) = n
                    /\ ~Slow(w)' /\ Age(w)' = 0 => bank'[w].val = arch'[w]
                    /\ ~Slow(w)' => \A j \in Pending' :
                                       j.rd = w /\ Lag(x'.tagcnt, j) = 0 => j.val = arch'[w]
                    /\ Slow(w)' => x'.res = arch'[w]
                    /\ Arrives(w)' => x'.res = arch'[w] /\ x'.reg_wtag = x'.tagcnt[w]
  BY DEF CoverInv, ValueInv
<1>1. /\ x.tagcnt[w] \in Tags /\ x'.tagcnt[w] \in Tags /\ bank'[w].tag \in Tags
      /\ MaxOver \in Nat /\ MaxOver < NTags - 1 /\ NTags \in Nat
  BY TypeNext, TagBounds DEF TypeInv, ExecRegisters, Sizes
<1>2. Age(w)' = Dist(x'.tagcnt[w], bank'[w].tag)
  BY DEF Age
<1>3. /\ \A n \in 0 .. MidAge(w) - 1 :
             \E j \in Pending \cap Pending' : j.rd = w /\ Lag(x.tagcnt, j) = n
      /\ MidAge(w) \in Nat
      /\ ~Slow(w) /\ MidAge(w) = 0 => bank'[w].val = arch[w]
  BY BankKept
<1>4. \A j \in Pending : j.rd = w => Lag(x.tagcnt, j) \in Nat
  BY LagFacts, TagBounds
<1>5. CASE NewNone(w)
  <2>1. Age(w)' = MidAge(w)
    BY <1>2, <1>5 DEF NewNone, MidAge
  <2>2. \A j \in Pending : j.rd = w => Lag(x'.tagcnt, j) = Lag(x.tagcnt, j)
    BY <1>5, LagMoves DEF NewNone
  <2>3. \A j \in Pending' : j.rd = w => j \in Pending
    BY <1>5, Moved DEF NewNone
  <2>4. ~Slow(w) => \A j \in Pending : j.rd = w /\ Lag(x.tagcnt, j) = 0 => j.val = arch[w]
    BY DEF ValueInv
  <2> QED BY <1>3, <1>5, <2>1, <2>2, <2>3, <2>4 DEF NewNone
<1>6. CASE OneMore(w) /\ Chosen(w) /\ ~Slow(w)'
  <2>1. MidAge(w) <= MaxOver
    <3>1. CASE MidAge(w) = 0
      BY <1>1, <3>1
    <3>2. CASE MidAge(w) # 0
      <4>1. PICK j \in Pending : j.rd = w /\ Lag(x.tagcnt, j) = MidAge(w) - 1
        BY <1>3, <3>2
      <4>2. Lag(x.tagcnt, j) < MaxOver
        BY <1>6, <4>1 DEF BoundInv, Chosen
      <4> QED BY <1>1, <1>3, <4>1, <4>2
    <3> QED BY <3>1, <3>2
  <2>2. Age(w)' = MidAge(w) + 1
    BY <1>1, <1>2, <1>3, <1>6, <2>1, DistSteps DEF MidAge, OneMore
  <2>3. \A j \in Pending : j.rd = w => Lag(x'.tagcnt, j) = Lag(x.tagcnt, j) + 1
    BY <1>6, LagMoves
  <2>4. ASSUME NEW n \in 1 .. Age(w)' - 1
        PROVE  \E j \in Pending' : j.rd = w /\ Lag(x'.tagcnt, j) = n
    <3>1. PICK j \in Pending \cap Pending' : j.rd = w /\ Lag(x.tagcnt, j) = n - 1
      BY <1>3, <2>2
    <3> QED BY <2>3, <3>1
  <2>5. \A j \in Pending : j.rd = w => Lag(x'.tagcnt, j) # 0
    BY <1>4, <2>3
  <2>6. CASE NewResult(w)
    BY <1>3, <2>2, <2>4, <2>5, <2>6, Moved DEF NewResult
  <2>7. CASE NewLoad(w)
    <3>1. Lag(x'.tagcnt, Job') = 0
      BY <1>1, <2>7, DistSteps DEF NewLoad, Lag
    <3>2. Job' \in Pending' /\ \A j \in Pending' : j \in Pending \/ j = Job'
      BY <2>7, Moved DEF NewLoad
    <3> HIDE DEF Job
    <3> QED BY <1>3, <2>2, <2>4, <2>5, <2>7, <3>1, <3>2 DEF NewLoad
  <2> QED BY <1>5, <2>6, <2>7, IssueCases
<1> QED BY <1>5, <1>6, IssueCases DEF NewLoad, NewResult

----------------------------------------------------------------------------
LEMMA InvInit == ASSUME Init PROVE WritebackInv
<1>1. load \in Workloads /\ ins = None /\ want = 0
  BY DEF Init
<1>2. /\ x = ExecReset /\ q = << >> /\ a = AccessReset
      /\ bank = [w \in Regs |-> [val |-> 0, tag |-> 0]] /\ arch = [w \in Regs |-> 0]
  BY DEF Init
<1>3. 0 \in Values /\ 0 \in Regs /\ 0 \in Tags
  BY ZeroValue, TagBounds
<1>4. x \in ExecRegisters
  BY <1>2, <1>3 DEF ExecReset, ExecRegisters, ExecStates
<1>5. a \in [state : AccessStates, valid : BOOLEAN, job : Jobs \cup {None},
             hold : Values \cup {None}]
  BY <1>2 DEF AccessReset, AccessStates
<1>6. TypeInv
  <2> HIDE DEF Jobs
  <2>1. q \in Seq(Jobs) /\ a.state = "Idle"
    BY <1>2 DEF AccessReset
  <2> QED BY <1>1, <1>2, <1>3, <1>4, <1>5, <2>1 DEF TypeInv
<1>7. /\ x.state = "Idle" /\ ~x.memop_valid /\ ~x.reg_write /\ x.tagcnt = [w \in Regs |-> 0]
      /\ a.state = "Idle" /\ Len(q) = 0
  BY <1>2 DEF ExecReset, AccessReset
<1>8. Pending = {}
  BY <1>7, PendingDef
<1>9. \A w \in Regs : Age(w) = 0 /\ ~Slow(w) /\ ~Arrives(w) /\ bank[w].val = arch[w]
  <2>1. Dist(0, 0) = 0
    BY <1>3, DistSteps
  <2> QED BY <1>2, <1>7, <2>1 DEF Age, Slow, Arrives
<1>10. ExecInv /\ OrderInv /\ ZeroInv
  BY <1>2, <1>3, <1>7 DEF ExecInv, OrderInv, InOrder, ZeroInv
<1>11. BoundInv /\ CoverInv /\ ValueInv
  BY <1>8, <1>9 DEF BoundInv, CoverInv, ValueInv
<1> QED BY <1>6, <1>10, <1>11 DEF WritebackInv

LEMMA InvNext == ASSUME Sizes, WritebackInv, [Next]_wvars PROVE WritebackInv'
<1>1. CASE Next
  <2>1. PICK e \in Env : Clock(e) /\ (ins' # None => (\A n \in Overtaken(ins.rd) : n < MaxOver)')
    BY <1>1 DEF Next
  <2> QED BY <2>1, TypeNext, OrderNext, BoundNext, CoverNext DEF WritebackInv
<1>2. CASE UNCHANGED wvars
  <2>1. /\ load' = load /\ x' = x /\ q' = q /\ a' = a /\ bank' = bank /\ ins' = ins
        /\ arch' = arch /\ want' = want
    BY <1>2 DEF wvars
  <2>2. Job' = Job /\ Pending' = Pending
    BY <2>1 DEF Job, Pending
  <2>3. \A w : /\ Slow(w)' <=> Slow(w)
               /\ Arrives(w)' <=> Arrives(w)
               /\ Age(w)' = Age(w)
    BY <2>1 DEF Slow, Arrives, Age
  <2>4. TypeInv' /\ ExecInv' /\ ZeroInv'
    BY <2>1 DEF WritebackInv, TypeInv, ExecInv, ZeroInv
  <2>5. OrderInv' /\ BoundInv' /\ CoverInv' /\ ValueInv'
    BY <2>1, <2>2, <2>3 DEF WritebackInv, OrderInv, BoundInv, CoverInv, ValueInv
  <2> QED BY <2>4, <2>5 DEF WritebackInv
<1> QED BY <1>1, <1>2

(***************************************************************************)
(* The tags of the registers and of the loads under way are in the order   *)
(* of the program in every reachable state (execute.cpp, memaccess.cpp and *)
(* regibank.cpp together).                                                 *)
(***************************************************************************)
THEOREM TagsInOrder == Sizes => (Spec => []WritebackInv)
<1> SUFFICES ASSUME Sizes PROVE Spec => []WritebackInv
  OBVIOUS
<1>1. Init => WritebackInv
  BY InvInit
<1>2. WritebackInv /\ [Next]_wvars => WritebackInv'
  BY InvNext
<1> QED BY <1>1, <1>2, PTL DEF Spec

\* A register whose tag is that of its last write has the value of the program.
LEMMA UpToDate ==
    ASSUME WritebackInv, NEW w \in Regs, ~Slow(w), bank[w].tag = x.tagcnt[w]
    PROVE  bank[w].val = arch[w]
<1>1. CASE w = 0
  BY <1>1 DEF WritebackInv, ZeroInv
<1>2. CASE w # 0
  <2>1. x.tagcnt[w] \in Tags
    BY DEF WritebackInv, TypeInv, ExecRegisters
  <2>2. Age(w) = 0
    BY <2>1, DistSteps DEF Age
  <2> QED BY <1>2, <2>2 DEF WritebackInv, ValueInv
<1> QED BY <1>1, <1>2

(***************************************************************************)
(* An instruction is taken with the value its operand has in program       *)
(* order, for every number of tags, registers and queue entries and every  *)
(* program (w_hazard1 and w_hazard2 of execute.cpp).                       *)
(***************************************************************************)
THEOREM OperandsAreNewest == Sizes => (Spec => OperandsInOrder)
<1>1. ASSUME WritebackInv, Next, took' PROVE bank[ins.rs].val = arch[ins.rs]
  <2>1. PICK e \in Env : Clock(e)
    BY <1>1 DEF Next
  <2>2. /\ x.state = "Idle" /\ ins # None /\ bank[ins.rs].tag = x.tagcnt[ins.rs]
    BY <1>1, <2>1, ClockFacts DEF Latches, Hazard, ExecIn
  <2>3. ins.rs \in Regs /\ ~Slow(ins.rs)
    BY <1>1, <2>2 DEF WritebackInv, TypeInv, Instructions, Slow
  <2> QED BY <1>1, <2>2, <2>3, UpToDate
<1>2. WritebackInv /\ [Next]_wvars => [took' => bank[ins.rs].val = arch[ins.rs]]_wvars
  BY <1>1
<1> QED BY <1>2, TagsInOrder, PTL DEF Spec, OperandsInOrder

(***************************************************************************)
(* When nothing is under way every register holds its last write and its   *)
(* tag: no load that was overtaken overwrites it and none is lost          *)
(* (Processor::comb, proc.cpp:988).                                        *)
(***************************************************************************)
THEOREM RegistersSettle == Sizes => (Spec => []SettlesToLast)
<1>1. ASSUME WritebackInv, x.state = "Idle", Pending = {}, ~x.reg_write, NEW w \in Regs
      PROVE  bank[w] = [val |-> arch[w], tag |-> x.tagcnt[w]]
  <2>1. /\ ~Slow(w) /\ ~Arrives(w) /\ bank[w].tag \in Tags /\ x.tagcnt[w] \in Tags
        /\ bank[w] = [val |-> bank[w].val, tag |-> bank[w].tag]
    BY <1>1 DEF Slow, Arrives, WritebackInv, TypeInv, ExecRegisters
  <2>2. bank[w].tag = x.tagcnt[w]
    <3>1. CASE w = 0
      BY <1>1, <3>1 DEF WritebackInv, ZeroInv
    <3>2. CASE w # 0
      <4>1. Age(w) \in 0 .. NTags - 1 /\ NTags \in Nat
        BY <2>1, DistFacts, TagBounds DEF Age
      <4>2. \A n \in 0 .. Age(w) - 1 : FALSE
        BY <1>1, <2>1, <3>2 DEF WritebackInv, CoverInv
      <4>3. Age(w) = 0
        BY <4>1, <4>2, 0 \in 0 .. Age(w) - 1 \/ Age(w) <= 0
      <4> QED BY <2>1, <4>3, DistSteps DEF Age
    <3> QED BY <3>1, <3>2
  <2>3. bank[w].val = arch[w]
    BY <1>1, <2>1, <2>2, UpToDate
  <2> QED BY <2>1, <2>2, <2>3
<1>2. WritebackInv => SettlesToLast
  BY <1>1 DEF SettlesToLast
<1> QED BY <1>2, TagsInOrder, PTL
----------------------------------------------------------------------------
(***************************************************************************)
(* An atomic operation.  Its load is the newest operation under way until  *)
(* it ends; its value is then there for one clock, in which the execute    *)
(* stage adds it to the operand it has read.                               *)
(***************************************************************************)
Busy == x.memop_valid \/ q # << >> \/ a.state # "Idle"
Newest == IF x.memop_valid THEN Job ELSE IF q # << >> THEN q[Len(q)] ELSE a.job

\* no write of the operand is under way but that of the atomic operation itself
OperandKept ==
    \/ x.radr2 = 0
    \/ bank[x.radr2].tag = x.tagcnt[x.radr2]
    \/ Newest.rd = x.radr2 /\ ((bank[x.radr2].tag + 1) % NTags) = x.tagcnt[x.radr2]

AmoInv ==
    x.state = "Amo" =>
       /\ x.amo = "WaitMemAccess" => /\ x.memop_valid /\ OperandKept /\ Job.op = "load"
                                     /\ Job.rd # 0 => Job.tag = x.tagcnt[Job.rd]
       /\ x.amo \in {"WaitMemAccess", "Read"} =>
             Busy /\ Add(Newest.val, bank[x.radr2].val) = want
       /\ x.amo = "Modify" =>
             IF Busy THEN Add(Newest.val, x.rdata2_amo) = want
             ELSE Add(x.rdata1_amo, x.rdata2_amo) = want
       /\ x.amo = "Write" => ~x.memop_valid /\ q = << >> /\ x.sum = want
       /\ a.state = "Hold" => x.memop_valid \/ q # << >>

\* What a clock of an atomic operation does to the registers of the execute stage.
LEMMA AmoEffect ==
    ASSUME TypeInv, ExecInv, NEW e \in Env, Clock(e), x.state = "Amo"
    PROVE  /\ ~took' /\ want' = want /\ ~x.reg_write /\ x'.tagcnt = x.tagcnt
           /\ x'.radr2 = x.radr2
           /\ x'.rdata1_amo = (IF e.answer THEN a.job.val ELSE 0)
           /\ x'.sum = Add(x.rdata1_amo, x.rdata2_amo)
           /\ x.amo # "Write" => /\ x'.state = "Amo"
                                 /\ x'.memop_valid <=> x.memop_valid /\ ~Ready
                                 /\ Same(x', x)
           /\ x.amo = "WaitMemAccess" => x'.amo = IF Ready THEN "Read" ELSE "WaitMemAccess"
           /\ x.amo = "Read" => x'.amo = "Modify" /\ x'.rdata2_amo = bank[x.radr2].val
           /\ x.amo = "Modify" =>
                /\ x'.amo = IF Queued = << >> /\ a.state = "Idle" THEN "Write" ELSE "Modify"
                /\ x'.rdata2_amo = x.rdata2_amo
           /\ x.amo = "Write" /\ Ready => x'.state = "Idle" /\ x'.memop_val = x.sum
<1> DEFINE y == Cleared(e)
           r == bank[x.radr2].val
<1>1. x' = ExecNext(x, ExecIn(e)) /\ took' = Latches(x, ExecIn(e))
  BY ClockFacts
<1>2. ~took' /\ want' = want /\ ~x.reg_write
  BY <1>1, ClockFacts DEF Latches, ExecInv
<1>3. x' = Amo(x, y, ExecIn(e))
  BY <1>1 DEF ExecNext, Cleared
<1>4. /\ y \in ExecRegisters /\ Same(y, x) /\ (y.memop_valid <=> x.memop_valid /\ ~Ready)
      /\ y.state = "Amo" /\ y.amo = x.amo /\ y.radr2 = x.radr2 /\ y.rdata2_amo = x.rdata2_amo
      /\ y.sum = Add(x.rdata1_amo, x.rdata2_amo)
      /\ y.rdata1_amo = IF e.answer THEN a.job.val ELSE 0
  BY ClearedFacts
<1>5. /\ ExecIn(e).memop_ready = Ready /\ ExecIn(e).rdata2 = r
      /\ ExecIn(e).memop_idle = (Queued = << >> /\ a.state = "Idle")
  BY DEF ExecIn
<1>6. x \in ExecRegisters /\ x.amo \in {"WaitMemAccess", "Read", "Modify", "Write"}
  BY DEF TypeInv, ExecRegisters
<1> HIDE DEF y, r
<1>7. CASE x.amo = "WaitMemAccess"
  <2>1. x' = IF Ready THEN [y EXCEPT !.amo = "Read"] ELSE y
    BY <1>3, <1>5, <1>7 DEF Amo
  <2> QED BY <1>2, <1>4, <1>7, <2>1 DEF Same, ExecRegisters
<1>8. CASE x.amo = "Read"
  <2>1. x' = [y EXCEPT !.rdata2_amo = r, !.amo = "Modify"]
    BY <1>3, <1>5, <1>8 DEF Amo
  <2> QED BY <1>2, <1>4, <1>8, <2>1 DEF Same, ExecRegisters, r
<1>9. CASE x.amo = "Modify"
  <2>1. x' = IF Queued = << >> /\ a.state = "Idle" THEN [y EXCEPT !.amo = "Write"] ELSE y
    BY <1>3, <1>5, <1>9 DEF Amo
  <2> QED BY <1>2, <1>4, <1>9, <2>1 DEF Same, ExecRegisters
<1>10. CASE x.amo = "Write"
  <2> DEFINE z == MemopEna(y, "store", 0, x.sum)
  <2>1. z = [y EXCEPT !.memop_valid = TRUE, !.memop = "store", !.memop_val = x.sum]
           /\ z \in ExecRegisters
    <3>1. x.sum \in Values
      BY <1>6 DEF ExecRegisters
    <3> QED BY <1>4, <3>1, StoreEnaFacts, ZeroValue
  <2>2. x' = [z EXCEPT !.state = IF Ready THEN "Idle" ELSE @,
                       !.amo = IF Ready THEN "WaitMemAccess" ELSE @]
    BY <1>3, <1>5, <1>10 DEF Amo
  <2> HIDE DEF z
  <2>3. /\ x'.tagcnt = z.tagcnt /\ x'.radr2 = z.radr2 /\ x'.rdata1_amo = z.rdata1_amo
        /\ x'.sum = z.sum /\ x'.memop_val = z.memop_val /\ (Ready => x'.state = "Idle")
    BY <2>1, <2>2 DEF ExecRegisters
  <2>4. /\ z.tagcnt = y.tagcnt /\ z.radr2 = y.radr2 /\ z.rdata1_amo = y.rdata1_amo
        /\ z.sum = y.sum /\ z.memop_val = x.sum
    BY <1>4, <2>1 DEF ExecRegisters
  <2> QED BY <1>2, <1>4, <1>10, <2>3, <2>4 DEF Same
<1> QED BY <1>6, <1>7, <1>8, <1>9, <1>10

\* The newest operation under way stays the newest until it ends.
LEMMA NewestMoves ==
    ASSUME TypeInv, NEW e \in Env, Clock(e), Same(x', x),
           x'.memop_valid <=> x.memop_valid /\ ~Ready
    PROVE  /\ Busy => \/ Busy' /\ Newest' = Newest
                      \/ /\ ~Busy' /\ Ends(e) /\ Newest = a.job
                         /\ ~x.memop_valid /\ q = << >>
           /\ ~Busy => ~Busy'
           /\ Queued = << >> <=> ~x.memop_valid /\ q = << >>
           /\ Queued # << >> => x'.memop_valid \/ q' # << >> \/ a'.state # "Hold"
<1>1. /\ Newest = IF x.memop_valid THEN Job ELSE IF q # << >> THEN q[Len(q)] ELSE a.job
      /\ Newest' = IF x'.memop_valid THEN Job' ELSE IF q' # << >> THEN q'[Len(q')] ELSE a'.job
      /\ Busy <=> x.memop_valid \/ q # << >> \/ a.state # "Idle"
      /\ Busy' <=> x'.memop_valid \/ q' # << >> \/ a'.state # "Idle"
  BY DEF Newest, Busy
<1>2. Job' = Job
  BY DEF Same, Job
<1>3. Job \in Jobs /\ q \in Seq(Jobs) /\ Queued \in Seq(Jobs)
  BY InTypes DEF TypeInv
<1> HIDE DEF Jobs, Job, Newest, Busy
<1>4. /\ x.memop_valid /\ Ready => Queued = Append(q, Job)
      /\ ~(x.memop_valid /\ Ready) => Queued = q
  BY DEF Queued
<1>5. x.memop_valid /\ ~Ready => q # << >>
  <2>1. x.memop_valid /\ ~Ready => Len(q) >= QDepth - 1 /\ Len(q) \in Nat
    BY <1>3, WritebackAssumption DEF Ready
  <2> QED BY <2>1, TagBounds, WritebackAssumption
<1>6. Queued = << >> <=> ~x.memop_valid /\ q = << >>
  BY <1>3, <1>4, <1>5
<1>7. Queued # << >> /\ ~(x.memop_valid /\ ~Ready) => Newest = Queued[Len(Queued)]
  BY <1>1, <1>3, <1>4
<1>8. CASE a.state = "Idle" \/ Ends(e)
  <2>1. CASE Queued = << >>
    <3>1. q' = << >> /\ a'.state = "Idle" /\ ~x'.memop_valid
      BY <1>6, <1>8, <2>1, AccessEffect
    <3>2. Ends(e) => a.state # "Idle"
      BY DEF Ends
    <3> QED BY <1>1, <1>6, <1>8, <2>1, <3>1, <3>2
  <2>2. CASE Queued # << >>
    <3>1. /\ q' = Tail(Queued) /\ a'.job = Queued[1] /\ a'.state # "Idle" /\ a'.state # "Hold"
      BY <1>8, <2>2, AccessEffect
    <3>2. Busy /\ Busy'
      BY <1>1, <1>6, <2>2, <3>1
    <3>3. CASE x'.memop_valid
      BY <1>1, <1>2, <1>6, <2>2, <3>1, <3>2, <3>3
    <3>4. CASE ~x'.memop_valid
      <4>1. Newest = Queued[Len(Queued)]
        BY <1>7, <2>2, <3>4
      <4>2. Newest' = Queued[Len(Queued)]
        <5>1. CASE q' = << >>
          <6>1. Len(Queued) = 1
            <7>1. Len(q') = Len(Queued) - 1 /\ Len(Queued) \in Nat
              BY <1>3, <2>2, <3>1
            <7>2. Len(q') = 0
              BY <5>1
            <7> QED BY <7>1, <7>2
          <6> QED BY <1>1, <3>1, <3>4, <5>1, <6>1
        <5>2. CASE q' # << >>
          <6>1. q'[Len(q')] = Queued[Len(Queued)]
            BY <1>3, <2>2, <3>1, <5>2
          <6> QED BY <1>1, <3>4, <5>2, <6>1
        <5> QED BY <5>1, <5>2
      <4> QED BY <1>6, <2>2, <3>1, <3>2, <4>1, <4>2
    <3> QED BY <3>3, <3>4
  <2> QED BY <2>1, <2>2
<1>9. CASE ~(a.state = "Idle" \/ Ends(e))
  <2>1. q' = Queued /\ a'.job = a.job /\ a'.state # "Idle"
    BY <1>9, AccessEffect
  <2>2. Newest' = Newest
    <3>1. CASE x'.memop_valid
      BY <1>1, <1>2, <3>1
    <3>2. CASE ~x'.memop_valid
      BY <1>1, <1>6, <1>7, <2>1, <3>2
    <3> QED BY <3>1, <3>2
  <2> QED BY <1>1, <1>6, <1>9, <2>1, <2>2
<1> QED BY <1>8, <1>9

\* No load is the next write of a register that has its last write.
LEMMA NotNext ==
    ASSUME TypeInv, BoundInv, Sizes, NEW e \in Env, NEW w \in Regs \ {0},
           bank[w].tag = x.tagcnt[w], NextWrite(e, w)
    PROVE  FALSE
<1> DEFINE c == x.tagcnt[w]
<1>1. /\ a.state # "Idle" /\ a.job.op = "load" /\ a.job.rd = w
      /\ ((c + 1) % NTags) = a.job.tag
  BY DEF NextWrite, Ends
<1>2. a.job \in Pending
  BY <1>1, PendingDef
<1>3. /\ Lag(x.tagcnt, a.job) = Dist(c, a.job.tag) /\ a.job.tag \in Tags /\ c \in Tags
      /\ Lag(x.tagcnt, a.job) \in 0 .. NTags - 1
  BY <1>1, <1>2, LagFacts
<1>4. Lag(x.tagcnt, a.job) < NTags - 1
  <2>1. Lag(x.tagcnt, a.job) <= MaxOver
    BY <1>1, <1>2 DEF BoundInv
  <2> QED BY <1>3, <2>1, TagBounds DEF Sizes
<1>5. Dist(c, c) = Dist(c, a.job.tag) + 1 /\ Dist(c, c) = 0
  BY <1>1, <1>3, <1>4, DistSteps
<1> QED BY <1>3, <1>5, TagBounds

\* The operand of the atomic operation is read as it was when it was taken.
LEMMA OperandStays ==
    ASSUME WritebackInv, Sizes, NEW e \in Env, Clock(e), AmoInv,
           x.state = "Amo", x.amo = "WaitMemAccess"
    PROVE  bank'[x.radr2] = bank[x.radr2]
<1> DEFINE r == x.radr2
           c == x.tagcnt[x.radr2]
<1>1. /\ TypeInv /\ ZeroInv /\ ExecInv /\ OrderInv /\ BoundInv
      /\ r \in Regs /\ c \in Tags /\ bank[r].tag \in Tags
  BY DEF WritebackInv, TypeInv, ExecRegisters
<1>2. ~Arrives(r)
  BY <1>1 DEF ExecInv, Arrives
<1>3. CASE r = 0
  BY <1>1, <1>3, BankEffect
<1>4. CASE r # 0
  <2>1. ASSUME NextWrite(e, r) PROVE FALSE
    <3>1. /\ a.state # "Idle" /\ a.job.op = "load" /\ a.job.rd = r
          /\ ((bank[r].tag + 1) % NTags) = a.job.tag
      BY <2>1 DEF NextWrite, Ends
    <3>2. a.job \in Pending
      BY <3>1, PendingDef
    <3>3. /\ Lag(x.tagcnt, a.job) = Dist(c, a.job.tag) /\ a.job.tag \in Tags
          /\ Lag(x.tagcnt, a.job) \in 0 .. NTags - 1
      BY <1>1, <3>1, <3>2, LagFacts
    <3>5. bank[r].tag # c
      BY <1>1, <1>4, <2>1, NotNext
    <3>6. CASE Newest.rd = r /\ ((bank[r].tag + 1) % NTags) = c
      <4>1. /\ x.memop_valid /\ Newest = Job /\ Job.op = "load"
            /\ Job.rd # 0 => Job.tag = x.tagcnt[Job.rd]
        BY DEF AmoInv, Newest
      <4>2. Job.rd = r /\ Job.tag = c /\ a.job.tag = c
        BY <1>4, <3>1, <3>6, <4>1
      <4>3. Lag(x.tagcnt, a.job) > Lag(x.tagcnt, Job)
        BY <1>1, <1>4, <3>1, <4>1, <4>2 DEF OrderInv, Before
      <4>4. Lag(x.tagcnt, Job) = Dist(c, c)
        BY <4>2 DEF Lag
      <4>5. Lag(x.tagcnt, a.job) = Dist(c, c)
        BY <3>3, <4>2
      <4> QED BY <3>3, <4>3, <4>4, <4>5
    <3> QED BY <1>4, <3>5, <3>6 DEF AmoInv, OperandKept
  <2> QED BY <1>1, <1>2, <2>1, BankEffect
<1> QED BY <1>3, <1>4

LEMMA AmoNext ==
    ASSUME WritebackInv, Sizes, NEW e \in Env, Clock(e), AmoInv
    PROVE  AmoInv'
<1> SUFFICES ASSUME x'.state = "Amo" PROVE AmoInv'
  BY DEF AmoInv
<1>1. TypeInv /\ ZeroInv /\ ExecInv /\ OrderInv /\ BoundInv /\ ValueInv /\ CoverInv
  BY DEF WritebackInv
<1>2. CASE took'
  <2>1. LoadIssued
    BY <1>1, <1>2, IssueEffect DEF AluIssued, SlowIssued, StoreIssued
  <2>2. /\ ins.op = "amo" /\ x'.amo \in {"WaitMemAccess", "Read"} /\ x'.radr2 = ins.rs
        /\ x'.memop_valid /\ x'.memop = "load" /\ x'.memop_val = Value
        /\ x'.tagcnt = Counted(ins.rd) /\ x'.reg_waddr = ins.rd
        /\ ins.rd # 0 => x'.reg_wtag = x'.tagcnt[ins.rd]
    BY <2>1 DEF LoadIssued, IssuesLoad
  <2>3. Busy' /\ Newest' = Job'
    BY <2>2 DEF Busy, Newest
  <2>4. /\ Job'.op = "load" /\ Job'.rd = ins.rd /\ Job'.val = Value
        /\ Job'.tag = x'.reg_wtag
    BY <2>2 DEF Job
  <2>5. /\ x.state = "Idle" /\ ins.rs \in Regs /\ ins.rd \in Regs
        /\ bank[ins.rs].tag = x.tagcnt[ins.rs]
    BY <1>1, <1>2, ClockFacts DEF Latches, Hazard, ExecIn, TypeInv, Instructions
  <2>6. want' = Add(Value, arch[ins.rs])
    BY <1>2, <2>2, ClockFacts
  <2>7. bank'[ins.rs].val = arch[ins.rs] /\ (ins.rs # 0 => bank'[ins.rs].tag = x.tagcnt[ins.rs])
    <3>1. ~Slow(ins.rs)
      BY <2>5 DEF Slow
    <3>2. bank[ins.rs].val = arch[ins.rs]
      BY <2>5, <3>1, UpToDate
    <3>3. CASE Arrives(ins.rs) /\ ins.rs # 0
      BY <1>1, <2>5, <3>3, BankEffect DEF ValueInv
    <3>4. CASE ~Arrives(ins.rs) /\ ins.rs # 0
      <4>1. ~NextWrite(e, ins.rs)
        BY <1>1, <2>5, <3>4, NotNext
      <4> QED BY <1>1, <2>5, <3>2, <3>4, <4>1, BankEffect
    <3>5. CASE ins.rs = 0
      BY <1>1, <2>5, <3>2, <3>5, BankEffect
    <3> QED BY <3>3, <3>4, <3>5
  <2>8. OperandKept'
    <3>1. OperandKept' <=> \/ x'.radr2 = 0
                           \/ bank'[x'.radr2].tag = x'.tagcnt[x'.radr2]
                           \/ /\ Newest'.rd = x'.radr2
                              /\ ((bank'[x'.radr2].tag + 1) % NTags) = x'.tagcnt[x'.radr2]
      BY DEF OperandKept
    <3>2. x'.tagcnt[ins.rs] = IF ins.rd = ins.rs /\ ins.rs # 0 THEN (x.tagcnt[ins.rs] + 1) % NTags
                              ELSE x.tagcnt[ins.rs]
      BY <1>1, <2>2, <2>5 DEF Counted, TypeInv, ExecRegisters
    <3> QED BY <2>2, <2>3, <2>4, <2>7, <3>1, <3>2
  <2> HIDE DEF Job, Value
  <2> QED BY <2>2, <2>3, <2>4, <2>6, <2>7, <2>8 DEF AmoInv
<1>3. CASE ~took'
  <2>1. x.state = "Amo" /\ x.amo \in {"WaitMemAccess", "Read", "Modify", "Write"}
    BY <1>1, <1>3, QuietEffect DEF ResultDone, NoneIssued, TypeInv, ExecRegisters
  <2>2. x.amo # "Write"
    <3>1. x.amo = "Write" => q = << >>
      BY <2>1 DEF AmoInv
    <3>2. x.amo = "Write" => Ready
      BY <3>1, TagBounds, WritebackAssumption DEF Ready
    <3> QED BY <1>1, <2>1, <3>2, AmoEffect
  <2>3. /\ want' = want /\ ~x.reg_write /\ x'.tagcnt = x.tagcnt /\ x'.radr2 = x.radr2
        /\ x'.rdata1_amo = (IF e.answer THEN a.job.val ELSE 0)
        /\ x'.sum = Add(x.rdata1_amo, x.rdata2_amo)
        /\ x'.memop_valid <=> x.memop_valid /\ ~Ready
        /\ Same(x', x)
    BY <1>1, <2>1, <2>2, AmoEffect
  <2>4. /\ Busy => \/ Busy' /\ Newest' = Newest
                   \/ ~Busy' /\ Ends(e) /\ Newest = a.job /\ ~x.memop_valid /\ q = << >>
        /\ ~Busy => ~Busy'
        /\ Queued = << >> <=> ~x.memop_valid /\ q = << >>
        /\ Queued # << >> => x'.memop_valid \/ q' # << >> \/ a'.state # "Hold"
    BY <1>1, <2>3, NewestMoves
  <2>5. a.state = "Hold" => x.memop_valid \/ q # << >>
    BY <2>1 DEF AmoInv
  <2>6. a'.state = "Hold" => x'.memop_valid \/ q' # << >>
    BY <1>1, <2>3, <2>4, <2>5, HoldFacts
  <2>7. ~Busy' /\ Busy => e.answer /\ Newest = a.job
    BY <1>1, <2>4, <2>5, HoldFacts
  <2>8. CASE x.amo = "WaitMemAccess"
    <3>1. x'.amo = IF Ready THEN "Read" ELSE "WaitMemAccess"
      BY <1>1, <2>1, <2>8, AmoEffect
    <3>2. /\ Busy /\ Add(Newest.val, bank[x.radr2].val) = want
          /\ x.memop_valid /\ OperandKept /\ Job.op = "load"
          /\ Job.rd # 0 => Job.tag = x.tagcnt[Job.rd]
      BY <2>1, <2>8 DEF AmoInv
    <3>3. bank'[x.radr2] = bank[x.radr2]
      BY <2>1, <2>8, OperandStays
    <3>4. Busy' /\ Newest' = Newest
      BY <2>4, <3>2
    <3>5. Job' = Job
      BY <2>3 DEF Same, Job
    <3>6. OperandKept'
      <4>1. OperandKept' <=> \/ x'.radr2 = 0
                             \/ bank'[x'.radr2].tag = x'.tagcnt[x'.radr2]
                             \/ /\ Newest'.rd = x'.radr2
                                /\ ((bank'[x'.radr2].tag + 1) % NTags) = x'.tagcnt[x'.radr2]
        BY DEF OperandKept
      <4> QED BY <2>3, <3>2, <3>3, <3>4, <4>1 DEF OperandKept
    <3> HIDE DEF Job, Newest, Busy, OperandKept
    <3> QED BY <2>3, <2>6, <3>1, <3>2, <3>3, <3>4, <3>5, <3>6 DEF AmoInv
  <2>9. CASE x.amo = "Read"
    <3>1. x'.amo = "Modify" /\ x'.rdata2_amo = bank[x.radr2].val
      BY <1>1, <2>1, <2>9, AmoEffect
    <3>2. Busy /\ Add(Newest.val, bank[x.radr2].val) = want
      BY <2>1, <2>9 DEF AmoInv
    <3> HIDE DEF Newest, Busy
    <3>3. IF Busy' THEN Add(Newest'.val, x'.rdata2_amo) = want'
          ELSE Add(x'.rdata1_amo, x'.rdata2_amo) = want'
      BY <2>3, <2>4, <2>7, <3>1, <3>2
    <3> QED BY <2>6, <3>1, <3>3 DEF AmoInv
  <2>10. CASE x.amo = "Modify"
    <3>1. /\ x'.amo = IF Queued = << >> /\ a.state = "Idle" THEN "Write" ELSE "Modify"
          /\ x'.rdata2_amo = x.rdata2_amo
      BY <1>1, <2>1, <2>10, AmoEffect
    <3>2. IF Busy THEN Add(Newest.val, x.rdata2_amo) = want
          ELSE Add(x.rdata1_amo, x.rdata2_amo) = want
      BY <2>1, <2>10 DEF AmoInv
    <3>3. Busy <=> Queued # << >> \/ a.state # "Idle"
      BY <2>4 DEF Busy
    <3>4. Busy' <=> x'.memop_valid \/ q' # << >> \/ a'.state # "Idle"
      BY DEF Busy
    <3> HIDE DEF Newest, Busy
    <3>5. CASE Busy
      <4>1. IF Busy' THEN Add(Newest'.val, x'.rdata2_amo) = want'
            ELSE Add(x'.rdata1_amo, x'.rdata2_amo) = want'
        BY <2>3, <2>4, <2>7, <3>1, <3>2, <3>5
      <4> QED BY <2>6, <3>1, <3>3, <3>5, <4>1 DEF AmoInv
    <3>6. CASE ~Busy
      <4>1. x'.amo = "Write" /\ x'.sum = want' /\ ~x'.memop_valid /\ q' = << >>
        BY <2>3, <2>4, <3>1, <3>2, <3>3, <3>4, <3>6
      <4> QED BY <2>6, <4>1 DEF AmoInv
    <3> QED BY <3>5, <3>6
  <2> QED BY <2>1, <2>2, <2>8, <2>9, <2>10
<1> QED BY <1>2, <1>3, ClockFacts DEF Latches

(***************************************************************************)
(* An atomic operation stores the sum of what it loaded and of its operand *)
(* in program order, for every number of registers and queue entries and   *)
(* every program (State_Amo of execute.cpp, with the load in memaccess.cpp *)
(* and the operand in regibank.cpp).                                       *)
(***************************************************************************)
THEOREM AmoStoresSum == Sizes => (Spec => AmoStores)
<1> SUFFICES ASSUME Sizes PROVE Spec => AmoStores
  OBVIOUS
<1>1. Init => AmoInv
  BY DEF Init, ExecReset, AmoInv
<1>2. WritebackInv /\ AmoInv /\ [Next]_wvars => AmoInv'
  <2>1. ASSUME WritebackInv, AmoInv, Next PROVE AmoInv'
    BY <2>1, AmoNext DEF Next
  <2>2. ASSUME AmoInv, UNCHANGED wvars PROVE AmoInv'
    <3>1. /\ x' = x /\ q' = q /\ a' = a /\ bank' = bank /\ want' = want
      BY <2>2 DEF wvars
    <3>2. Job' = Job
      BY <3>1 DEF Job
    <3>3. Newest' = Newest /\ (Busy' <=> Busy)
      BY <3>1, <3>2 DEF Newest, Busy
    <3> QED BY <2>2, <3>1, <3>2, <3>3 DEF AmoInv, OperandKept
  <2> QED BY <2>1, <2>2
<1>3. ASSUME WritebackInv, AmoInv, Next, x.state = "Amo", x'.state = "Idle"
      PROVE  x'.memop_val = want
  <2>1. PICK e \in Env : Clock(e)
    BY <1>3 DEF Next
  <2>2. TypeInv /\ ExecInv
    BY <1>3 DEF WritebackInv
  <2>3. x.amo = "Write"
    BY <1>3, <2>1, <2>2, AmoEffect
  <2>4. q = << >> /\ x.sum = want
    BY <1>3, <2>3 DEF AmoInv
  <2>5. Ready
    BY <2>4, TagBounds, WritebackAssumption DEF Ready
  <2> QED BY <1>3, <2>1, <2>2, <2>3, <2>4, <2>5, AmoEffect
<1>4. WritebackInv /\ AmoInv /\ [Next]_wvars
         => [x.state = "Amo" /\ x'.state = "Idle" => x'.memop_val = want]_wvars
  BY <1>3
<1> QED BY <1>1, <1>2, <1>4, TagsInOrder, PTL DEF Spec, AmoStores

----------------------------------------------------------------------------
(***************************************************************************)
(* The replacement table of the caches (LruNWay), for every number of ways *)
(* and sets.                                                               *)
(***************************************************************************)

(***************************************************************************)
(* RowUp and RowDown map rows to rows.                                     *)
(***************************************************************************)
LEMMA RowTypes ==
    ASSUME NEW row \in Row, NEW w \in Way
    PROVE  RowUp(row, w) \in Row /\ RowDown(row, w) \in Row /\ RowInit \in Row
  BY WaysAssumption DEF RowUp, RowDown, RowInit, Row, Way

(***************************************************************************)
(* The registers keep their types: every row holds way numbers only.       *)
(***************************************************************************)
THEOREM TableTypeCorrect == TableSpec => []TypeOK
<1>1. TableInit => TypeOK
  BY WaysAssumption DEF TableInit, TypeOK, Row, Way
<1>2. TypeOK /\ [TableNext]_vars => TypeOK'
  <2> SUFFICES ASSUME TypeOK, [TableNext]_vars PROVE TypeOK'
    OBVIOUS
  <2>1. CASE TableNext
    <3>1. PICK init \in BOOLEAN, up \in BOOLEAN, down \in BOOLEAN, raddr \in Sets, lru \in Way :
               TableClock(init, up, down, raddr, lru)
      BY <2>1 DEF TableNext
    <3>2. RowUp(mem[radr], lru) \in Row /\ RowDown(mem[radr], lru) \in Row /\ RowInit \in Row
      BY RowTypes DEF TypeOK
    <3>3. QED BY <3>1, <3>2 DEF TableClock, TypeOK
  <2>2. CASE UNCHANGED vars
    BY <2>2 DEF TypeOK, vars
  <2>3. QED BY <2>1, <2>2
<1>3. QED BY <1>1, <1>2, PTL DEF TableSpec

(***************************************************************************)
(* Moving a way to the top of a row without repetition creates none: the   *)
(* shifted part skips exactly the entry that held the way.                 *)
(***************************************************************************)
LEMMA UpPermutes ==
    ASSUME NEW row \in Row, NEW w \in Way, IsPermutation(row)
    PROVE  IsPermutation(RowUp(row, w))
<1> DEFINE new == RowUp(row, w)
           Shifted(i) == \A j \in i + 1 .. Ways - 2 : row[j] # w
<1>1. CASE row[Ways - 1] = w
  BY <1>1 DEF RowUp
<1>2. CASE row[Ways - 1] # w
  <2>1. \A i \in Way : new[i] = IF i = Ways - 1 THEN w
                                ELSE IF Shifted(i) THEN row[i + 1] ELSE row[i]
    BY <1>2 DEF RowUp
  <2> SUFFICES ASSUME NEW i \in Way, NEW j \in Way, i < j PROVE new[i] # new[j]
    BY DEF IsPermutation, Way
  <2>2. i \in Int /\ j \in Int /\ i + 1 \in Way /\ i # Ways - 1
    BY WaysAssumption DEF Way
  <2>3. CASE j = Ways - 1
    <3>1. CASE Shifted(i)
      <4>1. row[i + 1] # w
        BY <1>2, <2>2, <2>3, <3>1, WaysAssumption DEF Way
      <4>2. QED BY <2>1, <2>2, <2>3, <3>1, <4>1
    <3>2. CASE ~Shifted(i)
      <4>1. PICK k \in i + 1 .. Ways - 2 : row[k] = w
        BY <3>2
      <4>2. k \in Way /\ k # i
        BY <2>2, WaysAssumption DEF Way
      <4>3. row[i] # w
        BY <4>1, <4>2 DEF IsPermutation
      <4>4. QED BY <2>1, <2>2, <2>3, <3>2, <4>3
    <3>3. QED BY <3>1, <3>2
  <2>4. CASE j # Ways - 1
    <3>1. j + 1 \in Way
      BY <2>4, WaysAssumption DEF Way
    <3>2. Shifted(i) => Shifted(j)
      BY <2>2
    <3>3. CASE Shifted(i)
      BY <2>1, <2>2, <2>4, <3>1, <3>2, <3>3 DEF IsPermutation
    <3>4. CASE ~Shifted(i) /\ ~Shifted(j)
      BY <2>1, <2>2, <2>4, <3>4 DEF IsPermutation
    <3>5. CASE ~Shifted(i) /\ Shifted(j)
      BY <2>1, <2>2, <2>4, <3>1, <3>5 DEF IsPermutation
    <3>6. QED BY <3>3, <3>4, <3>5
  <2>5. QED BY <2>3, <2>4
<1>3. QED BY <1>1, <1>2

(***************************************************************************)
(* The mirror image: moving a way to the bottom.                           *)
(***************************************************************************)
LEMMA DownPermutes ==
    ASSUME NEW row \in Row, NEW w \in Way, IsPermutation(row)
    PROVE  IsPermutation(RowDown(row, w))
<1> DEFINE new == RowDown(row, w)
           Shifted(i) == \A j \in 1 .. i - 1 : row[j] # w
<1>0. 0 \in Way
  BY WaysAssumption DEF Way
<1>1. CASE row[0] = w
  BY <1>1 DEF RowDown
<1>2. CASE row[0] # w
  <2>1. \A i \in Way : new[i] = IF i = 0 THEN w
                                ELSE IF Shifted(i) THEN row[i - 1] ELSE row[i]
    BY <1>2 DEF RowDown
  <2> SUFFICES ASSUME NEW i \in Way, NEW j \in Way, i < j PROVE new[i] # new[j]
    BY DEF IsPermutation, Way
  <2>2. i \in Int /\ j \in Int /\ j - 1 \in Way /\ j # 0
    BY WaysAssumption DEF Way
  <2>3. CASE i = 0
    <3>1. CASE Shifted(j)
      <4>1. row[j - 1] # w
        BY <1>2, <2>2, <2>3, <3>1, WaysAssumption DEF Way
      <4>2. QED BY <2>1, <2>2, <2>3, <3>1, <4>1
    <3>2. CASE ~Shifted(j)
      <4>1. PICK k \in 1 .. j - 1 : row[k] = w
        BY <3>2
      <4>2. k \in Way /\ k # j
        BY <2>2, WaysAssumption DEF Way
      <4>3. row[j] # w
        BY <4>1, <4>2 DEF IsPermutation
      <4>4. QED BY <2>1, <2>2, <2>3, <3>2, <4>3
    <3>3. QED BY <3>1, <3>2
  <2>4. CASE i # 0
    <3>1. i - 1 \in Way
      BY <2>4, WaysAssumption DEF Way
    <3>2. Shifted(j) => Shifted(i)
      BY <2>2
    <3>3. CASE Shifted(j)
      BY <2>1, <2>2, <2>4, <3>1, <3>2, <3>3 DEF IsPermutation
    <3>4. CASE ~Shifted(j) /\ ~Shifted(i)
      BY <2>1, <2>2, <2>4, <3>4 DEF IsPermutation
    <3>5. CASE ~Shifted(j) /\ Shifted(i)
      BY <2>1, <2>2, <2>4, <3>1, <3>5 DEF IsPermutation
    <3>6. QED BY <3>3, <3>4, <3>5
  <2>5. QED BY <2>3, <2>4
<1>3. QED BY <1>1, <1>2

(***************************************************************************)
(* No sequence of updates of lrunway.h loses a way from a complete row.    *)
(***************************************************************************)
THEOREM PermutationStable == TableSpec => StaysPermutation
<1>1. TypeOK /\ [TableNext]_vars =>
        [\A s \in Sets : IsPermutation(mem[s]) => IsPermutation(mem'[s])]_vars
  <2> SUFFICES ASSUME TypeOK, TableNext, NEW s \in Sets, IsPermutation(mem[s])
               PROVE  IsPermutation(mem'[s])
    OBVIOUS
  <2>1. PICK init \in BOOLEAN, up \in BOOLEAN, down \in BOOLEAN, raddr \in Sets, lru \in Way :
             TableClock(init, up, down, raddr, lru)
    BY DEF TableNext
  <2>2. IsPermutation(RowInit)
    BY DEF IsPermutation, RowInit
  <2>3. mem[s] \in Row
    BY DEF TypeOK
  <2>4. IsPermutation(RowUp(mem[s], lru)) /\ IsPermutation(RowDown(mem[s], lru))
    BY <2>3, UpPermutes, DownPermutes
  <2>5. mem'[s] \in {mem[s], RowInit, RowUp(mem[s], lru), RowDown(mem[s], lru)}
    BY <2>1 DEF TableClock, TypeOK
  <2>6. QED BY <2>2, <2>4, <2>5
<1>2. QED BY <1>1, TableTypeCorrect, PTL DEF TableSpec, StaysPermutation

=============================================================================
