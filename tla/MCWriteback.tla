---------------------------- MODULE MCWriteback ----------------------------
(***************************************************************************)
(* Programs over two registers besides x0.                                 *)
(***************************************************************************)
EXTENDS Writeback

I(op, rd, rs) == [op |-> op, rd |-> rd, rs |-> rs]

\* one-clock results that overtake loads of the same register
Overtaking == {I("load", 1, 0), I("alu", 1, 0), I("alu", 0, 1), I("store", 0, 1)}
\* the slow units, and results that are thrown away
Slow == {I("load", 1, 0), I("multi", 1, 1), I("csr", 1, 0), I("alu", 0, 1), I("load", 0, 0)}
\* atomic operations among loads, on one and on two registers
Atomic == {I("amo", 1, 1), I("amo", 1, 2), I("load", 2, 0)}

MCWorkloads == {Overtaking, Slow, Atomic}
MCOvertaking == {Overtaking}
============================================================================
