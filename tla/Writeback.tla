----------------------------- MODULE Writeback -----------------------------
(***************************************************************************)
(* Results that arrive out of order: the execute stage, the memory access  *)
(* stage behind its queue, and the register bank that both write.  A load  *)
(* takes as long as the data cache needs, later instructions go on         *)
(* meanwhile, and the tags of the registers keep the program order.        *)
(***************************************************************************)
EXTENDS Execute, Sequences

CONSTANTS
    QDepth,     \* DEPTH of the queue of the memory access stage
    MaxOver,    \* bound: writes issued for a register after a load of it that
                \* is still under way
    Workloads   \* sets of instructions the program is made of

ASSUME WritebackAssumption ==
    /\ NTags \in Nat /\ QDepth \in Nat \ {0, 1} /\ MaxOver \in Nat
    /\ 0 \in Regs /\ \E n \in 1 .. 8 : Values = 0 .. n - 1
    /\ QDepth + 1 < NTags   \* so the loads under way have different tags
    /\ \A l \in Workloads :
          l \subseteq [op : {"alu", "multi", "csr", "load", "store", "amo"}, rd : Regs, rs : Regs]

\* no instruction, no operation, no answer and no result: distinct from every one
ASSUME NoneAssumption ==
    /\ None \notin [op : {"alu", "multi", "csr", "load", "store", "amo"}, rd : Regs, rs : Regs]
    /\ None \notin [op : {"load", "store"}, rd : Regs, tag : 0 .. NTags - 1, val : Values,
                    ena : {FALSE}, debug : {FALSE}]
    /\ None \notin [data : Values]
    /\ None \notin [rd : Regs, tag : 0 .. NTags - 1, data : Values]

VARIABLES
    load,       \* the workload of this behaviour
    x,          \* registers of the execute stage
    q,          \* its queue, which implements QueueFifo
    a,          \* registers of the memory access stage
    bank,       \* the registers and their tags
    ins,        \* the decoded instruction, or None
    arch,       \* contents of the registers in program order
    want,       \* what the amo under way stores
    took,       \* the instruction was taken in the last clock
    answered,   \* the data cache answered in the last clock
    clk         \* toggles with a clock that changes nothing else

INSTANCE MemAccess

wvars == <<load, x, q, a, bank, ins, arch, want, took, answered, clk>>

Init ==
    /\ load \in Workloads
    /\ x = ExecReset /\ q = << >> /\ a = AccessReset
    /\ bank = [w \in Regs |-> [val |-> 0, tag |-> 0]]
    /\ arch = [w \in Regs |-> 0] /\ ins = None /\ want = 0
    /\ took = FALSE /\ answered = FALSE /\ clk = FALSE

----------------------------------------------------------------------------
Job == [op |-> x.memop, rd |-> x.reg_waddr, tag |-> x.reg_wtag, val |-> x.memop_val,
        ena |-> FALSE, debug |-> FALSE]

\* what the memory access stage writes to the register bank: o_wb_*
Written(in) ==
    IF (a.state = "Hold" \/ (a.state = "WaitResponse" /\ in.resp # None)) /\ WritesReg(a.job)
    THEN [rd |-> a.job.rd, tag |-> a.job.tag, data |-> WbData(a, in)]
    ELSE None

\* the loads under way
Pending == {j \in {q[i] : i \in 1 .. Len(q)} \cup (IF a.state = "Idle" THEN {} ELSE {a.job})
                  \cup (IF x.memop_valid THEN {Job} ELSE {}) : j.op = "load"}

\* how many later instructions write the register of each load of w under way
Overtaken(w) ==
    LET last == x.tagcnt[w] + (IF x.state \in {"WaitMulti", "Csr"} /\ x.waddr = w THEN 1 ELSE 0)
    IN  {(last - j.tag) % NTags : j \in {i \in Pending : i.rd = w}}

(***************************************************************************)
(* One clock.  e.answer : the data cache answers the operation in flight;  *)
(* e.ready : it takes a request; e.done : the multi-clock unit or the CSR  *)
(* bus is ready; e.ins : the instruction the decoder offers next.  A write *)
(* of a register has the next of Values, so it differs from the writes     *)
(* before it.                                                              *)
(***************************************************************************)
Clock(e) ==
    LET val == IF ins = None THEN 0 ELSE Add(arch[ins.rd], 1)
        memop_ready == Len(q) < QDepth - 1
        we == x.memop_valid /\ memop_ready
        s == IF we THEN Append(q, Job) ELSE q
        head == IF s = << >> THEN None ELSE Head(s)
        ain == [resp |-> IF e.answer THEN [data |-> a.job.val] ELSE None,
                wb_ready |-> ~x.reg_write, ready |-> e.ready]
        xin == [ins |-> ins, val |-> val, done |-> e.done, mem |-> ain.resp,
                memop_ready |-> memop_ready, memop_idle |-> s = << >> /\ a.state = "Idle",
                tag |-> IF ins = None THEN 0 ELSE bank[ins.rs].tag,
                rdata2 |-> bank[x.radr2].val]
    IN  /\ x' = ExecNext(x, xin)
        /\ q' = IF QueueRe(a, ain) /\ s # << >> THEN Tail(s) ELSE s
        /\ a' = AccessNext(a, head, ain)
        /\ bank' = BankNext(bank, x, Written(ain))
        /\ took' = Latches(x, xin)
        /\ arch' = IF took' /\ ins.rd # 0 /\ ins.op # "store"
                   THEN [arch EXCEPT ![ins.rd] = val] ELSE arch
        /\ want' = IF took' /\ ins.op = "amo" THEN Add(val, arch[ins.rs])
                   ELSE IF took' THEN 0 ELSE want
        /\ ins' = IF took' \/ ins = None THEN e.ins ELSE ins
        /\ answered' = e.answer
        /\ clk' = (UNCHANGED <<x, q, a, bank, ins, arch, want, took, answered>> /\ ~clk)
        /\ UNCHANGED load

Env ==
    [answer : IF a.state = "WaitResponse" THEN BOOLEAN ELSE {FALSE},
     ready : IF a.state = "WaitReqAccept" \/ q # << >> \/ x.memop_valid THEN BOOLEAN ELSE {FALSE},
     done : IF x.state \in {"WaitMulti", "Csr", "CsrWrite"} THEN BOOLEAN ELSE {FALSE},
     ins : {None} \cup IF ins = None \/ x.state = "Idle" THEN load ELSE {}]

Next == \E e \in Env :
           /\ Clock(e)
           /\ ins' # None => (\A n \in Overtaken(ins.rd) : n < MaxOver)'
Spec == Init /\ [][Next]_wvars

(***************************************************************************)
(* Every clock comes; the data cache takes requests and answers them; the  *)
(* multiplier, the divider and the CSR bus end what they are given.        *)
(***************************************************************************)
Fairness ==
    /\ []<><<TRUE>>_wvars
    /\ []<>(a.state # "WaitReqAccept") /\ []<>(a.state # "WaitResponse" \/ answered)
    /\ []<>(x.state \notin {"WaitMulti", "Csr", "CsrWrite"})
FairSpec == Spec /\ Fairness

----------------------------------------------------------------------------
(***************************************************************************)
(* An instruction is taken with the value its operand has in program       *)
(* order, whatever loads are under way, are overtaken or are held back by  *)
(* the write-back stage (w_hazard1, w_hazard2 of execute.cpp).             *)
(***************************************************************************)
OperandsInOrder == [][took' => bank[ins.rs].val = arch[ins.rs]]_wvars

(***************************************************************************)
(* When nothing is under way every register has the last value the program *)
(* gave it and the tag the execute stage expects: "Cannot write loaded     *)
(* from memory value if it was overwritten" (proc.cpp:988).                *)
(***************************************************************************)
SettlesToLast ==
    x.state = "Idle" /\ Pending = {} /\ ~x.reg_write =>
        \A w \in Regs : bank[w] = [val |-> arch[w], tag |-> x.tagcnt[w]]

(***************************************************************************)
(* An atomic operation stores the sum of the value it loaded and of its    *)
(* operand in program order, although both pass through registers that     *)
(* other results use (State_Amo of execute.cpp).                           *)
(***************************************************************************)
AmoStores == [][x.state = "Amo" /\ x'.state = "Idle" => x'.memop_val = want]_wvars

(***************************************************************************)
(* No instruction waits for ever for an operand or for the queue of the    *)
(* memory access stage (hazards and i_memop_ready of execute.cpp).         *)
(***************************************************************************)
NeverStuck == []<>(took \/ ins = None)
============================================================================
