------------------------------- MODULE MCMemory -------------------------------
(***************************************************************************)
(* Memory for TLC: the constants are given in the cfg files.  Which number *)
(* a physical page has matters to nothing, but differs between histories   *)
(* of allocation; TLC compares states by Shape, which has for every page   *)
(* of a process its rights, contents and count, and who shares it.  The    *)
(* membership has TLC evaluate all of m before it stores a state.          *)
(***************************************************************************)
EXTENDS Memory

Sharers(t, v) ==
  {<<u, w>> \in Tasks \X Pages : Present(m, t, v) /\ m.pte[u][w].frame = m.pte[t][v].frame}

Count(f) == IF f = None THEN 0 ELSE m.map[f]

Shape ==
  << [t \in Tasks |-> [v \in Pages |->
        LET e == m.pte[t][v] IN
          <<e.write, e.shared, e.readonly, View[t][v], Count(e.frame), Sharers(t, v)>>]],
     [t \in Tasks |-> [r \in 1 .. 2 |-> Count(m.pde[t][r])]],
     m.free, m.kernel_map, m.panic, live, pc, vmap, brk, own,
     m \in Mem >>
=============================================================================
