------------------------------ MODULE Execute ------------------------------
(***************************************************************************)
(* Issue of instructions and the register tags of the execute stage:       *)
(* sc/rtl/riverlib/core/execute.cpp and .h.                                *)
(*                                                                         *)
(* An instruction is [op, rd, rs]: op "alu" (a result in one clock),       *)
(* "multi" (multiplier, divider), "csr", "load", "store" or "amo"; rs is   *)
(* the operand whose tag is checked (the second one of an amo).  Each      *)
(* write of a register has a tag; tagcnt holds the tag of the last write   *)
(* that was issued, the register bank that of the last one that arrived.   *)
(***************************************************************************)
EXTENDS Integers

CONSTANTS
    NTags,      \* 2^CFG_REG_TAG_WIDTH
    Regs,       \* register numbers, 0 among them
    Values,     \* 0 .. n - 1: contents of a register
    None        \* no instruction

ExecStates == {"Idle", "WaitMemAcces", "WaitMulti", "Csr", "CsrWrite", "Amo"}
AmoStates == {"WaitMemAccess", "Read", "Modify", "Write"}

Add(v, w) == (v + w) % (CHOOSE n \in 1 .. 8 : Values = 0 .. n - 1)

ExecReset == [state |-> "Idle", amo |-> "WaitMemAccess", tagcnt |-> [w \in Regs |-> 0],
              reg_write |-> FALSE, reg_waddr |-> 0, reg_wtag |-> 0, res |-> 0,
              memop_valid |-> FALSE, memop |-> "load", memop_val |-> 0,
              waddr |-> 0, radr2 |-> 0,
              rdata1_amo |-> 0, rdata2_amo |-> 0, sum |-> 0]

(***************************************************************************)
(* x : the registers;  in : inputs                                         *)
(*   ins : the decoded instruction or None;  val : the result of an        *)
(*   instruction that is issued, or the value memory holds for a load;     *)
(*   tag, rdata2 : what the register bank reads;  memop_ready, memop_idle; *)
(*   done : the unit or the CSR bus answers;  mem : None or [data].        *)
(***************************************************************************)
\* the operand of a store is not checked
Hazard_NotOfStores(x, in) == in.ins.op # "store" /\ x.tagcnt[in.ins.rs] # in.tag
Hazard(x, in) == x.tagcnt[in.ins.rs] # in.tag

\* the operands of the offered instruction are taken
Latches(x, in) ==
    /\ x.state = "Idle" /\ in.ins # None
    /\ ~(x.memop_valid /\ ~in.memop_ready)
    /\ ~Hazard(x, in)

NextTag(x, w) == (x.tagcnt[w] + 1) % NTags
\* register 0 is tagged as the others are
Tagged_Zero(x, w) ==
    [x EXCEPT !.tagcnt[w] = NextTag(x, w), !.reg_waddr = w, !.reg_wtag = NextTag(x, w)]
\* the tag of register 0 stays 0
Tagged(x, w) ==
    [x EXCEPT !.tagcnt[w] = IF w = 0 THEN 0 ELSE NextTag(x, w),
              !.reg_waddr = w, !.reg_wtag = NextTag(x, w)]

\* v_reg_ena: the result is written to the register bank in the next clock
RegEna(x, w) == IF w = 0 THEN x ELSE [Tagged(x, w) EXCEPT !.reg_write = TRUE]

\* v_memop_ena: only an operation that reads memory has a tag
MemopEna(x, op, w, v) ==
    [(IF op = "load" THEN Tagged(x, w) ELSE x)
     EXCEPT !.memop_valid = TRUE, !.memop = op, !.memop_val = v]

Issue(x, in) ==
    LET i == in.ins
        n == [x EXCEPT !.waddr = i.rd, !.radr2 = i.rs]
    IN  CASE i.op = "alu" -> [RegEna(n, i.rd) EXCEPT !.res = in.val]
          [] i.op = "multi" -> [n EXCEPT !.state = "WaitMulti", !.res = in.val]
          [] i.op = "csr" -> [n EXCEPT !.state = "Csr", !.res = in.val]
          [] i.op \in {"load", "store"} ->
               [MemopEna(n, i.op, i.rd, in.val)
                EXCEPT !.state = IF in.memop_ready THEN "Idle" ELSE "WaitMemAcces"]
          [] i.op = "amo" ->
               [MemopEna(n, "load", i.rd, in.val)
                EXCEPT !.state = "Amo",
                       !.amo = IF in.memop_ready THEN "Read" ELSE "WaitMemAccess"]

\* the value is written back before the load of it has ended
Amo_NotIdle(x, n, in) ==
    CASE x.amo = "WaitMemAccess" -> IF in.memop_ready THEN [n EXCEPT !.amo = "Read"] ELSE n
      [] x.amo = "Read" -> [n EXCEPT !.rdata2_amo = in.rdata2, !.amo = "Modify"]
      [] x.amo = "Modify" -> [n EXCEPT !.amo = "Write"]
      [] x.amo = "Write" ->
           IF in.memop_ready
           THEN [MemopEna(n, "store", 0, x.sum) EXCEPT !.state = "Idle", !.amo = "WaitMemAccess"]
           ELSE n

Amo(x, n, in) ==
    CASE x.amo = "WaitMemAccess" -> IF in.memop_ready THEN [n EXCEPT !.amo = "Read"] ELSE n
      [] x.amo = "Read" -> [n EXCEPT !.rdata2_amo = in.rdata2, !.amo = "Modify"]
      [] x.amo = "Modify" -> IF in.memop_idle THEN [n EXCEPT !.amo = "Write"] ELSE n
      [] x.amo = "Write" ->
           [MemopEna(n, "store", 0, x.sum)
            EXCEPT !.state = IF in.memop_ready THEN "Idle" ELSE @,
                   !.amo = IF in.memop_ready THEN "WaitMemAccess" ELSE @]

\* the adder works in every clock on the operands of the amo; the value of the
\* memory is there for one clock
ExecNext(x, in) ==
    LET n == [x EXCEPT !.reg_write = FALSE,
                       !.memop_valid = @ /\ ~in.memop_ready,
                       !.rdata1_amo = IF in.mem = None THEN 0 ELSE in.mem.data,
                       !.sum = Add(x.rdata1_amo, x.rdata2_amo)]
    IN  CASE x.state = "Idle" -> IF Latches(x, in) THEN Issue(n, in) ELSE n
          [] x.state = "WaitMemAcces" ->
               IF in.memop_ready THEN [n EXCEPT !.state = "Idle"] ELSE n
          [] x.state = "WaitMulti" ->
               IF in.done THEN [RegEna(n, x.waddr) EXCEPT !.state = "Idle"] ELSE n
          [] x.state = "Csr" ->
               IF in.done THEN [RegEna(n, x.waddr) EXCEPT !.state = "CsrWrite"] ELSE n
          [] x.state = "CsrWrite" -> IF in.done THEN [n EXCEPT !.state = "Idle"] ELSE n
          [] x.state = "Amo" -> Amo(x, n, in)

----------------------------------------------------------------------------
(***************************************************************************)
(* The register bank (regibank.cpp) with the choice of its writer          *)
(* (Processor::comb): the result of the execute stage goes first, a loaded *)
(* value is written when its tag follows the tag of the register.          *)
(***************************************************************************)
\* a loaded value is always written
Bank_NotInOrder(bank, x, wb) ==
    IF x.reg_write
    THEN [bank EXCEPT ![x.reg_waddr] = [val |-> x.res, tag |-> x.reg_wtag]]
    ELSE IF wb # None /\ wb.rd # 0
    THEN [bank EXCEPT ![wb.rd] = [val |-> wb.data, tag |-> wb.tag]]
    ELSE bank

BankNext(bank, x, wb) ==
    IF x.reg_write
    THEN [bank EXCEPT ![x.reg_waddr] = [val |-> x.res, tag |-> x.reg_wtag]]
    ELSE IF wb # None /\ wb.rd # 0 /\ (bank[wb.rd].tag + 1) % NTags = wb.tag
    THEN [bank EXCEPT ![wb.rd] = [val |-> wb.data, tag |-> wb.tag]]
    ELSE bank
============================================================================
