---------------------------- MODULE MCDataPath ----------------------------
(***************************************************************************)
(* Two levels of tables and three digits.  The data of a program lie in    *)
(* pages whose upper digit is 0 or 1, the tables in pages with 2.          *)
(***************************************************************************)
EXTENDS DataPath, TLC

P(d1, d0) == (0 :> d0) @@ (1 :> d1)
Op(op, ena, page, v, debug) ==
    [op |-> op, rd |-> 1, page |-> page, wdata |-> v, ena |-> ena, debug |-> debug]
Flush == Op("flush", FALSE, P(0, 0), 0, FALSE)

Entry(flags, ppn) == [flags |-> flags, ppn |-> ppn]
Full == {"V", "R", "W", "A", "D"}
Bad == Entry({}, P(0, 0))
Empty == [d \in 0 .. 2 |-> Bad]
MCRoot == P(2, 0)
Table(root, t0, t2) ==
    (P(2, 0) :> root @@ P(2, 1) :> t0 @@ P(2, 2) :> t2)
Ptr(ppn) == Entry({"V"}, ppn)

\* 4 KB pages: 00 -> 11, 01 -> 10, 20 -> 00; then 00 and 01 change places
Small(x, y) == Table([d \in 0 .. 2 |-> IF d = 0 THEN Ptr(P(2, 1)) ELSE IF d = 2 THEN Ptr(P(2, 2)) ELSE Bad],
                     [d \in 0 .. 2 |-> IF d = 0 THEN Entry(Full, x) ELSE IF d = 1 THEN Entry(Full, y) ELSE Bad],
                     [d \in 0 .. 2 |-> IF d = 0 THEN Entry(Full, P(0, 0)) ELSE Bad])
SmallPages ==
    [jobs |-> {Op("load", TRUE, P(0, 0), 0, FALSE), Op("store", TRUE, P(0, 1), 1, FALSE),
               Op("load", TRUE, P(2, 0), 0, TRUE)},
     tables |-> <<Small(P(1, 1), P(1, 0)), Small(P(1, 0), P(1, 1))>>,
     faulty |-> {}, readonly |-> {}]

\* large pages: 0x -> 1x, 2x -> 0x; physical accesses in between
Large == Table([d \in 0 .. 2 |-> IF d = 0 THEN Entry(Full, P(1, 0)) ELSE IF d = 2 THEN Entry(Full, P(0, 0)) ELSE Bad],
               Empty, Empty)
LargePages ==
    [jobs |-> {Op("load", TRUE, P(0, 0), 0, FALSE), Op("store", TRUE, P(0, 1), 1, FALSE),
               Op("load", TRUE, P(2, 1), 0, FALSE), Op("store", FALSE, P(1, 0), 1, FALSE)},
     tables |-> <<Large>>, faulty |-> {P(0, 1)}, readonly |-> {}]

\* refusals: a walk that ends in no leaf, a read only page that is only stored
\* to; and flushes of the data cache
Refusing ==
    [jobs |-> {Op("load", TRUE, P(0, 0), 0, FALSE), Op("store", TRUE, P(0, 2), 1, FALSE),
               Op("load", TRUE, P(2, 0), 0, FALSE), Flush},
     tables |-> <<Table([d \in 0 .. 2 |-> IF d = 0 THEN Ptr(P(2, 1)) ELSE IF d = 2 THEN Ptr(P(2, 2)) ELSE Bad],
                        [d \in 0 .. 2 |-> IF d = 0 THEN Entry(Full, P(1, 1))
                                         ELSE Entry({"V", "R", "A"}, P(1, 0))],
                        [d \in 0 .. 2 |-> Ptr(P(2, 1))])>>,
     faulty |-> {}, readonly |-> {P(1, 0)}]

\* a read only page that is loaded from and stored to
ReadOnly ==
    [jobs |-> {Op("load", TRUE, P(0, 0), 0, FALSE), Op("store", TRUE, P(0, 0), 1, FALSE)},
     tables |-> <<Table([d \in 0 .. 2 |-> Ptr(P(2, 1))],
                        [d \in 0 .. 2 |-> Entry({"V", "R", "A"}, P(1, 0))], Empty)>>,
     faulty |-> {}, readonly |-> {P(1, 0)}]

\* a page that is loaded from with translation and stored to without
Mixed ==
    [jobs |-> {Op("load", TRUE, P(0, 0), 0, FALSE), Op("store", FALSE, P(0, 0), 1, FALSE)},
     tables |-> <<Large>>, faulty |-> {}, readonly |-> {}]

MCWorkloads == {SmallPages, LargePages, Refusing}
MCReadOnly == {ReadOnly}
MCMixed == {Mixed}
MCData == UNION {w.jobs : w \in MCWorkloads \cup MCReadOnly \cup MCMixed}

\* the shortcuts of the code are right for the workloads of the run, and not for those of
\* the deviations
ASSUME MCRegular == /\ \A w \in MCWorkloads : Regular(w)
                    /\ ~\E w \in MCReadOnly \cup MCMixed : Regular(w)
============================================================================
