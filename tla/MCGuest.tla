------------------------------- MODULE MCGuest -------------------------------
EXTENDS Guest

\* The imports of every program: a call, proc_exit, poll_oneoff.
write == 0
exit  == 1
sleep == 2

Program(bodies, table, exported, start, main) ==
  [imports |-> 3, exit |-> exit, body |-> [f \in 3..(2 + Len(bodies)) |-> bodies[f - 2]],
   table |-> table, exported |-> exported, start |-> start, main |-> main,
   names |-> [f \in 3..(2 + Len(bodies)) |-> f]]

\* A loop of imports and calls around a leaf with a loop of its own.
Direct == Program(
  << << Op("loop", 1), Op("call", write), Op("call", 4), Op("br", 1),
        Op("bulk", 2), Op("bulk", 0), Op("return_call", exit) >>,
     << Op("loop", 2), Op("bulk", 4), Op("br", 2) >> >>,
  << >>, << >>, None, 3)

\* Two functions that tail-call each other for ever, through a table and
\* directly, and imports reached only as values.
Tailing == Program(
  << << Op("call_indirect", 2), Op("return_call", 4) >>,
     << Op("call_ref", sleep), Op("return_call_indirect", 1) >> >>,
  << 3, write >>, << sleep, write >>, None, 4)

\* A start function that tail-calls an import, sleeps and exits; recursion; an
\* import tail-called through the table.
Starting == Program(
  << << Op("call", write), Op("call", sleep), Op("loop", 3), Op("br", 3),
        Op("call_ref", exit) >>,
     << Op("loop", 4), Op("call", 5), Op("br", 4), Op("return_call_indirect", 1) >>,
     << Op("call", 4), Op("return_call", write) >> >>,
  << exit, write >>, << write >>, 3, 4)

\* A cycle that no direct call and no import closes.
Cycle == Program(
  << << Op("return_call_indirect", 1) >>, << Op("return_call_ref", 3) >> >>,
  << 4 >>, << >>, None, 3)

\* A start function that returns right after an import.
Short == Program(
  << << Op("call", write) >>, << Op("call", sleep), Op("call", exit) >> >>, << >>, << >>, 3, 4)

\* Every pair of short functions over calls of all kinds.
Calls ==
  { Op("call", write), Op("return_call", sleep), Op("call", 4), Op("return_call", 3),
    Op("call_indirect", 1), Op("return_call_indirect", 2), Op("return_call_ref", 4),
    Op("call_ref", exit), Op("bulk", 7) }
Small == { Program(<< <<i, j>>, <<k>> >>, << write, 4 >>, << exit, write >>, None, 3) :
             i \in Calls, j \in Calls, k \in Calls }

MCPrograms == {Direct, Tailing, Starting, Cycle, Short} \cup Small
=============================================================================
