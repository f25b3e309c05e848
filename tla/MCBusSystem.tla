---------------------------- MODULE MCBusSystem ----------------------------
EXTENDS BusSystem
\* two lines that differ in every word, the second without its first word
Stripes == {[data |-> [i \in Z!Beat |-> (i + n) % 2],
             strb |-> [i \in Z!Beat |-> i >= n]] : n \in {0, 1}}
Blank == {[data |-> [i \in Z!Beat |-> 0], strb |-> [i \in Z!Beat |-> TRUE]]}
\* one master writes what the other reads beside
Lines == [patterns |-> Stripes, slow |-> {}, targets |-> {0}, masters |-> {0, 1},
          writers |-> {0}]
\* two masters, a memory and a slow device
Routes == [patterns |-> Blank, slow |-> {1}, targets |-> {0, 1}, masters |-> {0, 1},
           writers |-> {0, 1}]
\* one master that also leaves the memory map
Gaps == [patterns |-> Blank, slow |-> {1}, targets |-> {0, 1, 2}, masters |-> {0},
         writers |-> {0}]
MCWorkloads == {Lines, Routes, Gaps}
\* two masters that leave the memory map
MCBothGaps == {[Gaps EXCEPT !.masters = {0, 1}, !.writers = {}]}
============================================================================
