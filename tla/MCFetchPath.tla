---------------------------- MODULE MCFetchPath ----------------------------
EXTENDS FetchPath
At(n, w) == [tag |-> n \div (2 * NSets), set |-> (n \div 2) % NSets, odd |-> n % 2,
             word |-> w, way |-> 0]
Plain == [pcs |-> {At(0, 3), At(1, 3)}, uncached |-> {}, refused |-> {}, faulty |-> {},
          changing |-> {}, fences |-> {}, halts |-> FALSE]
\* fetches across line boundaries while code changes, with fences
Patched == [Plain EXCEPT !.changing = {1}, !.fences = {"all", "line"}]
\* three lines of one set in two ways, and lines that are refused in parts
Refusing == [Plain EXCEPT !.uncached = {0}, !.refused = {3}, !.faulty = {2}, !.pcs =
              {At(0, 1), At(0, 3), At(1, 2), At(1, 3), At(2, 0), At(3, 3), At(5, 3)}]
\* the debugger halts; the last line wraps to the first
Debugged == [Plain EXCEPT !.pcs = {At(0, 3), At(5, 3)}, !.fences = {"pipe", "all"},
                          !.halts = TRUE]
MCWorkloads == {Patched, Refusing, Debugged}
MCRefusing == {Refusing}
MCFenced == {[Plain EXCEPT !.fences = {"pipe", "all"}]}
\* line 5 changes, and a flush of line 1 may end the sweep before it
MCSwept == {[Plain EXCEPT !.pcs = {At(0, 3), At(5, 1)}, !.changing = {5},
                          !.fences = {"all", "line"}]}
\* line 1 is refused, but the fetch before it runs into it
MCNextRefused == {[Plain EXCEPT !.pcs = {At(0, 3), At(1, 1)}, !.refused = {1}]}
MCValues == 0 .. 200

\* The hypothesis of the theorems about the code, in the workloads of the run.
ASSUME MCCareful == \A w \in MCWorkloads : NextAllowed(w) /\ SweepKept(w)
============================================================================
