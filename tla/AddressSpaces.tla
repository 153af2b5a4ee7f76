---------------------------- MODULE AddressSpaces ----------------------------
(***************************************************************************)
(* What fork with copy on write promises: every process has a memory of    *)
(* its own.  A store changes one page of the process that stores, and of   *)
(* another process only what both have mapped with MAP_SHARED; mapping and *)
(* unmapping change nobody else and keep the contents of the other pages;  *)
(* a fork starts the child with what the parent sees, an exit leaves       *)
(* nothing behind.  The promise lasts until the kernel panics.             *)
(***************************************************************************)
CONSTANTS Procs, Addrs, Unmapped

VARIABLES
  view,       \* view[p][a]: what p reads at page a, or Unmapped
  shared,     \* shared[p]: the pages p has mapped with MAP_SHARED
  alive,      \* the processes between fork and exit
  up          \* whether the kernel has not panicked

Blank == [a \in Addrs |-> Unmapped]

Start ==
  /\ view = [p \in Procs |-> Blank]
  /\ shared = [p \in Procs |-> {}]
  /\ \E p \in Procs : alive = {p}
  /\ up = TRUE

StoreBy(p) ==
  \E a \in Addrs :
    /\ view[p][a] # Unmapped
    /\ \A q \in Procs, b \in Addrs :
         view'[q][b] # view[q][b] =>
           b = a /\ (q = p \/ a \in shared[p] \cap shared[q])
    /\ UNCHANGED <<shared, alive>>

RemapBy(p) ==
  /\ \A q \in Procs \ {p} : view'[q] = view[q] /\ shared'[q] = shared[q]
  /\ \A a \in Addrs : view[p][a] = view'[p][a] \/ Unmapped \in {view[p][a], view'[p][a]}
  /\ UNCHANGED alive

ExitBy(p) ==
  /\ view' = [view EXCEPT ![p] = Blank]
  /\ shared' = [shared EXCEPT ![p] = {}]
  /\ alive' = alive \ {p}

ForkOf(p, q) ==
  /\ q \notin alive /\ view[q] = Blank
  /\ view' = [view EXCEPT ![q] = view[p]]
  /\ shared' = [shared EXCEPT ![q] = shared[p]]
  /\ alive' = alive \cup {q}

Step ==
  up /\ (~ up' \/ \E p \in alive : \/ StoreBy(p) \/ RemapBy(p) \/ ExitBy(p)
                                  \/ \E q \in Procs : ForkOf(p, q))

Private == Start /\ [][Step]_<<view, shared, alive, up>>
=============================================================================
