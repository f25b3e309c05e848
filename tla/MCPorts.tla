------------------------------ MODULE MCPorts ------------------------------
\* The workloads of the L2 cache for the run of Ports.
EXTENDS Ports

(***************************************************************************)
(* Three lines for the two ways of a set; two caches that own lines of     *)
(* different sets; flushes with dirty lines in two sets, and in both ways  *)
(* of a set; lines the memory refuses (tag 3) and lines that are not       *)
(* cached (tag 4).                                                         *)
(***************************************************************************)
Load(lines, marked, slots, flushes) ==
    [lines |-> lines, marked |-> marked, slots |-> slots, owners |-> slots,
     flushes |-> flushes]
MCWorkloads ==
    {Load({<<0, 0>>, <<1, 0>>, <<2, 0>>}, {<<0, 0>>}, {0}, FALSE),
     Load({<<0, 0>>, <<0, 1>>}, {<<0, 0>>}, {0, 1}, FALSE),
     Load({<<0, 0>>, <<0, 1>>}, {<<0, 1>>}, {0}, TRUE),
     Load({<<0, 0>>, <<1, 0>>}, {<<1, 0>>}, {0}, TRUE),
     Load({<<0, 0>>, <<3, 0>>, <<4, 0>>}, {<<0, 0>>, <<4, 0>>}, {0}, FALSE)}
============================================================================
