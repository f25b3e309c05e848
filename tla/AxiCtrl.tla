------------------------------ MODULE AxiCtrl ------------------------------
(***************************************************************************)
(* The system bus interconnect: sc/rtl/ambalib/axictrl_bus0.cpp and .h.    *)
(*                                                                         *)
(* Its registers k say which master and which slave own the R, the W and   *)
(* the B channel.  The index NM stands for "no master"; the index NS       *)
(* stands for "no slave" and is, at the same time, the slave that answers  *)
(* accesses outside of the memory map.                                     *)
(*                                                                         *)
(* The operators take the registers and the channel signals of one clock.  *)
(***************************************************************************)
EXTENDS Integers

CONSTANTS NM, NS, None

ASSUME BusAssumption == NM \in Nat \ {0} /\ NS \in Nat \ {0}

Masters == 0 .. NM - 1
Slaves == 0 .. NS           \* with the default slave xdef0

Locks == [r_m : 0 .. NM, r_s : Slaves, w_m : 0 .. NM, w_s : Slaves,
          b_m : 0 .. NM, b_s : Slaves]

BusReset == [r_m |-> NM, r_s |-> NS, w_m |-> NM, w_s |-> NS, b_m |-> NM, b_s |-> NS]

(***************************************************************************)
(* The master that is heard: the last one in the loop over the masters.    *)
(* q[m] is the address of master m on one of the address channels, None    *)
(* without a request.  The slave is the part q.slv of the address, as      *)
(* CFG_BUS0_MAP resolves it (NS outside of the map, and without a master). *)
(***************************************************************************)
Chosen(q) ==
    LET asking == {m \in Masters : q[m] # None}
    IN  IF asking = {} THEN NM ELSE CHOOSE m \in asking : \A n \in asking : n <= m
Target(q) == IF Chosen(q) = NM THEN NS ELSE q[Chosen(q)].slv

(***************************************************************************)
(* Busy channels.  r, b: what the slave at the lock answers on R and B;    *)
(* w_last: the master at the lock sends its last word and it is taken.     *)
(***************************************************************************)
RBusy(k, r_fire) == k.r_s # NS /\ ~r_fire
BBusy(k, b_fire) == k.b_s # NS /\ ~b_fire
WBusy(k, w_fire, b_fire) == \/ k.w_s # NS /\ ~w_fire
                            \/ k.b_s # NS /\ ~b_fire

\* the locks after a clock
\* a new address replaces the lock while data is still expected
RLocks_Anytime(k, ar_fire, ar_m, ar_s, r_fire) ==
    IF ar_fire THEN [k EXCEPT !.r_m = ar_m, !.r_s = ar_s]
    ELSE IF r_fire THEN [k EXCEPT !.r_m = NM, !.r_s = NS] ELSE k
RLocks(k, ar_fire, ar_m, ar_s, r_fire) ==
    IF ar_fire /\ ~RBusy(k, r_fire) THEN [k EXCEPT !.r_m = ar_m, !.r_s = ar_s]
    ELSE IF r_fire THEN [k EXCEPT !.r_m = NM, !.r_s = NS] ELSE k

WLocks(k, aw_fire, aw_m, aw_s, w_fire, b_fire) ==
    IF aw_fire /\ ~WBusy(k, w_fire, b_fire) THEN [k EXCEPT !.w_m = aw_m, !.w_s = aw_s]
    ELSE IF w_fire /\ ~BBusy(k, b_fire) THEN [k EXCEPT !.w_m = NM, !.w_s = NS] ELSE k

BLocks(k, old, w_fire, b_fire) ==
    IF w_fire /\ ~BBusy(old, b_fire) THEN [k EXCEPT !.b_m = old.w_m, !.b_s = old.w_s]
    ELSE IF b_fire THEN [k EXCEPT !.b_m = NM, !.b_s = NS] ELSE k
============================================================================
