-------------------------------- MODULE Memory --------------------------------
(***************************************************************************)
(* User memory (kernel/memory.c) and what fork, exit, waitpid (task.c) and *)
(* execve (execve.c) do with it: reference counts of physical pages, page  *)
(* tables, copy on write, brk, mmap, and the kernel pages that belong to a *)
(* process.  The temporary mappings of kmap are pointers that no action    *)
(* outlives and are left out.                                              *)
(*                                                                         *)
(* System calls and the page fault handler run with interrupts off and do  *)
(* not sleep, except where execve reads the file and where sys_exit gives  *)
(* back inodes and files: each is one action, execve is one per read, and  *)
(* sys_exit is one up to its first sleep.  A store that faults is two: the *)
(* handler, and the store when the instruction is run again.               *)
(*                                                                         *)
(* The operators on page tables take and return the record m, so that they *)
(* compose the way the calls of the code do.                               *)
(***************************************************************************)
EXTENDS Integers, FiniteSets, FiniteSetsExt

CONSTANTS
  NTask,        \* process slots 1 .. NTask, 1 is init
  NFrame,       \* physical pages above KERNEL_MEM_SIZE
  NKpage,       \* pages of kernel_map
  NMmap,        \* pages of the mmap area
  Values,       \* contents of a page
  Fresh,        \* contents a page may have before anybody stored to it
  Modes,        \* who stores: "user", "kernel" (a system call into a buffer)
  Calls,        \* the system calls that programs make
  MmapKinds,    \* protection and sharing that programs ask of mmap
  FixedMmap,    \* programs also call mmap with an address of their own
  Unmapped

ASSUME MemoryAssumption ==
  /\ {NTask, NFrame, NKpage, NMmap} \subseteq Nat \ {0}
  /\ NKpage >= 3
  /\ 0 \in Values /\ Fresh \subseteq Values /\ Unmapped \notin Values
  /\ MmapKinds \subseteq {"ro-private", "rw-private", "ro-shared", "rw-shared"}
  /\ Modes \subseteq {"user", "kernel"} /\ FixedMmap \in BOOLEAN

Tasks == 1 .. NTask
Frames == 1 .. NFrame
None == 0       \* no page

(***************************************************************************)
(* The layout of a process, in pages: text at USER_EXEC_ADDR, data, heap,  *)
(* the stack, and from USER_MMAP_ADDR on the mmap area.  A page table (one *)
(* page directory entry) serves a region; the mmap area reaches up to the  *)
(* stack, and here they share one.                                         *)
(***************************************************************************)
Text == 0
Data == 1
Heap == 2
Stack == 3
MmapPages == 4 .. 3 + NMmap
Pages == 0 .. 3 + NMmap
Region(v) == IF v <= Heap THEN 1 ELSE 2

VARIABLES
  m,        \* map: mem_map, free: free_pages, data: page contents,
            \* pde, pte: page tables, kernel_map: the kernel
            \* pages in use, panic
  live,     \* "free", "live", "dead" (not yet waited for), or "exiting":
            \* asleep in sys_exit, its memory given back
  pc,       \* "user", or where execve is: "args", "header", "text", "data"
  vmap,     \* task->vmap: the pages of the mmap area that are taken
  brk,      \* task->brk, in pages; task->end is Heap
  own       \* own[t]: kernel pages of t: pcb, pde, bits

vars == <<m, live, pc, vmap, brk, own>>

NoPte == [frame |-> None, write |-> FALSE, shared |-> FALSE, readonly |-> FALSE]
NoPages == [pcb |-> None, pde |-> None, bits |-> None]

Init ==
  /\ m = [map |-> [f \in Frames |-> 0], free |-> NFrame,
          data |-> [f \in Frames |-> 0],
          pde |-> [t \in Tasks |-> [r \in 1 .. 2 |-> None]],
          pte |-> [t \in Tasks |-> [v \in Pages |-> NoPte]],
          kernel_map |-> 1 .. 3, panic |-> "none"]
  /\ live = [t \in Tasks |-> IF t = 1 THEN "live" ELSE "free"]
  /\ pc = [t \in Tasks |-> IF t = 1 THEN "args" ELSE "user"]
  /\ vmap = [t \in Tasks |-> {}]
  /\ brk = [t \in Tasks |-> 0]
  /\ own = [t \in Tasks |-> IF t = 1 THEN [pcb |-> 1, pde |-> 2, bits |-> 3] ELSE NoPages]

-----------------------------------------------------------------------------
(* Physical pages. *)

Panic(x, why) == [x EXCEPT !.panic = IF @ = "none" THEN why ELSE @]

\* The lowest free physical page, the one get_user_page takes.
FreeFrame(x) ==
  LET F == {f \in Frames : x.map[f] = 0} IN IF F = {} THEN None ELSE Min(F)

get_user_page(x) ==
  LET f == FreeFrame(x) IN
    IF f = None THEN Panic(x, "oom")
    ELSE [x EXCEPT !.map[f] = 1, !.free = @ - 1]

\* A page that nobody uses any more keeps its bytes; the next owner finds
\* them there, which link_user_page shows as an arbitrary value.
put_user_page(x, f) ==
  IF x.map[f] = 1
  THEN [x EXCEPT !.map[f] = 0, !.free = @ + 1, !.data[f] = 0]
  ELSE [x EXCEPT !.map[f] = @ - 1]

-----------------------------------------------------------------------------
(* Kernel pages.                                                           *)

\* bitmap_scan of kernel_map: the first run of count free pages.
Runs(x, count) ==
  {i \in 1 .. NKpage + 1 - count : (i .. i + count - 1) \cap x.kernel_map = {}}

alloc_kpage(x, count) ==
  IF Runs(x, count) = {} THEN Panic(x, "kpage")
  ELSE LET i == Min(Runs(x, count)) IN [x EXCEPT !.kernel_map = @ \cup (i .. i + count - 1)]

\* The page that alloc_kpage(x, 1) returns.
NewKpage(x) == IF Runs(x, 1) = {} THEN None ELSE Min(Runs(x, 1))

free_kpage(x, p) == [x EXCEPT !.kernel_map = @ \ {p}]

-----------------------------------------------------------------------------
(* Page tables.                                                            *)

\* The page table of v, created where there is none.
get_pte(x, t, v) ==
  IF x.pde[t][Region(v)] # None THEN x
  ELSE [get_user_page(x) EXCEPT !.pde[t][Region(v)] = FreeFrame(x)]

Present(x, t, v) == x.pte[t][v].frame # None

\* new: what the page happens to hold.
link_user_page(x, t, v, new) ==
  LET y == get_pte(x, t, v)
      f == FreeFrame(y)
  IN IF Present(y, t, v) THEN y
     ELSE IF f = None THEN Panic(y, "oom")
     ELSE [get_user_page(y) EXCEPT
            !.pte[t][v] = [NoPte EXCEPT !.frame = f, !.write = TRUE],
            !.data[f] = new]

\* The entries of V go, and put_user_page is called for those that were
\* present: a page that loses all its references so is free.
DropPages(x, t, V) ==
  LET Gone == [f \in Frames |-> Cardinality({v \in V : x.pte[t][v].frame = f})]
      Unused == {f \in Frames : Gone[f] > 0 /\ x.map[f] = Gone[f]}
  IN [x EXCEPT
       !.map = [f \in Frames |-> @[f] - Gone[f]],
       !.free = @ + Cardinality(Unused),
       !.data = [f \in Frames |-> IF f \in Unused THEN 0 ELSE @[f]],
       !.pte[t] = [v \in Pages |-> IF v \in V THEN NoPte ELSE @[v]]]

unlink_user_page(x, t, v) == DropPages(get_pte(x, t, v), t, {v})

CowEntryWritable(e) == e

\* copy_pte: one region of t for the child u, both without the right to
\* write unless the page is shared.
CowEntry(e) == [e EXCEPT !.write = e.write /\ e.shared]

CopyRegion(x, t, u, r) ==
  LET new == FreeFrame(x)
      V == {v \in Pages : Region(v) = r /\ Present(x, t, v)}
      Cow == [v \in Pages |-> CowEntry(x.pte[t][v])]
  IN IF x.pde[t][r] = None THEN x
     ELSE IF new = None THEN Panic(x, "oom")
     ELSE [get_user_page(x) EXCEPT
            !.pde[u][r] = new,
            !.map = [f \in Frames |-> @[f] + Cardinality({v \in V : x.pte[t][v].frame = f})],
            !.pte[t] = [v \in Pages |-> IF v \in V THEN Cow[v] ELSE @[v]],
            !.pte[u] = [v \in Pages |-> IF v \in V THEN Cow[v] ELSE @[v]]]

copy_pte(x, t, u) ==
  CopyRegion(CopyRegion(x, t, u, 1), t, u, 2)

FreeRegion(x, t, r) ==
  LET f == x.pde[t][r]
      V == {v \in Pages : Region(v) = r}
  IN IF f = None THEN x
     ELSE [put_user_page(DropPages(x, t, V), f) EXCEPT !.pde[t][r] = None]

free_pte(x, t) == FreeRegion(FreeRegion(x, t, 1), t, 2)

-----------------------------------------------------------------------------
(* Programs.                                                               *)

Running(t) == m.panic = "none" /\ live[t] = "live" /\ pc[t] = "user"

ExitOfKeepsBits(x, t) ==
  /\ m' = free_kpage(free_pte(x, t), own[t].pde)
  /\ \E s \in {"dead", "exiting"} : live' = [live EXCEPT ![t] = s]
  /\ own' = [own EXCEPT ![t].pde = None, ![t].bits = None]
  /\ vmap' = [vmap EXCEPT ![t] = {}]
  /\ brk' = [brk EXCEPT ![t] = 0]
  /\ UNCHANGED pc

\* sys_exit: the page tables, the page directory and the bits of vmap go,
\* the PCB waits for waitpid.  iput and sys_close, which follow, may sleep,
\* and then the task is no zombie: task_wakeup makes it READY again.  init
\* must not exit.
ExitOf(x, t) ==
  IF t = 1
  THEN m' = Panic(x, "init") /\ UNCHANGED <<live, pc, vmap, brk, own>>
  ELSE /\ m' = free_kpage(free_kpage(free_pte(x, t), own[t].pde), own[t].bits)
       /\ \E s \in {"dead", "exiting"} : live' = [live EXCEPT ![t] = s]
       /\ own' = [own EXCEPT ![t].pde = None, ![t].bits = None]
       /\ vmap' = [vmap EXCEPT ![t] = {}]
       /\ brk' = [brk EXCEPT ![t] = 0]
       /\ UNCHANGED pc

\* The task that slept in sys_exit is switched to: its page directory is free
\* or somebody else's by now, and if it gets back to user mode it faults and
\* sys_exit frees the same pages again.  The model ends here.
ExitResumes(t) ==
  /\ m.panic = "none" /\ live[t] = "exiting"
  /\ m' = Panic(m, "exit_resumed")
  /\ UNCHANGED <<live, pc, vmap, brk, own>>

Exit(t) == "exit" \in Calls /\ Running(t) /\ ExitOf(m, t)

\* sys_waitpid of some task, for the dead child u.
Wait(t, u) ==
  /\ Running(t) /\ live[u] = "dead"
  /\ m' = free_kpage(m, own[u].pcb)
  /\ live' = [live EXCEPT ![u] = "free"]
  /\ own' = [own EXCEPT ![u] = NoPages]
  /\ UNCHANGED <<pc, vmap, brk>>

FreeSlots == {u \in Tasks : live[u] = "free"}

Fork(t) ==
  /\ "fork" \in Calls /\ Running(t)
  /\ IF FreeSlots = {}
     THEN m' = Panic(m, "tasks") /\ UNCHANGED <<live, pc, vmap, brk, own>>
     ELSE LET u == Min(FreeSlots)
              x == alloc_kpage(m, 1)                      \* PCB
              y == alloc_kpage(x, 1)                      \* copy_pde
              z == copy_pte(y, t, u)
          IN /\ m' = alloc_kpage(z, 1)                    \* vmap->bits
             /\ own' = [own EXCEPT ![u] = [pcb |-> NewKpage(m), pde |-> NewKpage(x),
                                           bits |-> NewKpage(z)]]
             /\ live' = [live EXCEPT ![u] = "live"]
             /\ pc' = [pc EXCEPT ![u] = "user"]
             /\ vmap' = [vmap EXCEPT ![u] = vmap[t]]
             /\ brk' = [brk EXCEPT ![u] = brk[t]]

\* A store of the program, or of the kernel into a buffer of the program:
\* enable_page sets PG and not WP, so the kernel's stores ignore the right
\* to write.
Store(t, v, new, mode) ==
  /\ Running(t) /\ Present(m, t, v)
  /\ m.pte[t][v].write \/ mode = "kernel"
  /\ m' = [m EXCEPT !.data[m.pte[t][v].frame] = new]
  /\ UNCHANGED <<live, pc, vmap, brk, own>>

CowCopyNoCount(x, t, v) ==
  LET new == FreeFrame(x) IN
    IF new = None THEN Panic(x, "oom")
    ELSE [get_user_page(x) EXCEPT
           !.pte[t][v] = [NoPte EXCEPT !.frame = new, !.write = TRUE],
           !.data[new] = x.data[x.pte[t][v].frame]]

\* The copy that page_fault makes.
CowCopy(x, t, v) ==
  LET old == x.pte[t][v].frame
      new == FreeFrame(x)
      y == [get_user_page([x EXCEPT !.map[old] = @ - 1]) EXCEPT
             !.pte[t][v] = [NoPte EXCEPT !.frame = new, !.write = TRUE],
             !.data[new] = x.data[old]]
  IN IF new = None THEN Panic(x, "oom") ELSE y

CowReuse(x, t, v) == [x EXCEPT !.pte[t][v].write = TRUE]

CowBreakAnyone(x, t, v) == CowReuse(x, t, v)

\* What page_fault does about a page without the right to write.
CowBreak(x, t, v) ==
  LET n == x.map[x.pte[t][v].frame] IN
    IF n = 1 THEN CowReuse(x, t, v)
    ELSE IF n = 2 THEN CowCopy(x, t, v)
    ELSE Panic(x, "cow")

\* page_fault on a store to a page that is there.
WriteFault(t, v) ==
  LET e == m.pte[t][v]
  IN /\ Running(t) /\ e.frame # None /\ ~ e.write
     /\ IF e.shared
        THEN m' = Panic(m, "shared") /\ UNCHANGED <<live, pc, vmap, brk, own>>
        ELSE IF e.readonly
        THEN ExitOf(m, t)
        ELSE /\ m' = CowBreak(m, t, v)
             /\ UNCHANGED <<live, pc, vmap, brk, own>>

\* page_fault on a page that is not there: only the stack grows.
MissingFault(t, v, new) ==
  /\ Running(t) /\ ~ Present(m, t, v)
  /\ IF v = Stack
     THEN /\ m' = link_user_page(m, t, v, new)
          /\ UNCHANGED <<live, pc, vmap, brk, own>>
     ELSE ExitOf(m, t)

\* sys_brk; the heap ends where the mmap area begins.
BrkLimit == 4

Brk(t, b) ==
  /\ "brk" \in Calls /\ Running(t)
  /\ b < BrkLimit /\ b >= Heap
  /\ b - brk[t] <= m.free
  /\ m' = IF brk[t] > b THEN unlink_user_page(m, t, Heap) ELSE m
  /\ brk' = [brk EXCEPT ![t] = b]
  /\ UNCHANGED <<live, pc, vmap, own>>

\* Where an mmap of count pages goes: bitmap_scan of task->vmap, or the
\* address the program asks for.
MmapAt(t, count) ==
  LET Fits == {v \in MmapPages : v + count - 1 \in MmapPages}
      Gaps == {v \in Fits : (v .. v + count - 1) \cap vmap[t] = {}}
  IN IF FixedMmap THEN Fits ELSE IF Gaps = {} THEN {None} ELSE {Min(Gaps)}

Writable == {"rw-private", "rw-shared"}

MmapPage(x, t, v, kind, new) ==
  LET y == link_user_page(x, t, v, new)
  IN [y EXCEPT !.pte[t][v].write = kind \in Writable,
               !.pte[t][v].readonly = kind \notin Writable,
               !.pte[t][v].shared = @ \/ kind \in {"ro-shared", "rw-shared"}]

\* The loop of sys_mmap over the count pages from a on.
MmapLoop(t, a, count, kind, new) ==
  LET Linked[i \in 0 .. count] ==
        IF i = 0 THEN m
        ELSE MmapPage(Linked[i - 1], t, a + i - 1, kind, new)
  IN  Linked[count]

Mmap(t, count, kind, new) ==
  /\ "mmap" \in Calls /\ Running(t)
  /\ \E a \in MmapAt(t, count) :
       IF a = None
       THEN m' = Panic(m, "vmap") /\ UNCHANGED <<live, pc, vmap, brk, own>>
       ELSE /\ m' = MmapLoop(t, a, count, kind, new)
            /\ vmap' = [vmap EXCEPT ![t] = @ \cup (a .. a + count - 1)]
            /\ UNCHANGED <<live, pc, brk, own>>

\* The first unlink_user_page creates the page table where there is none.
Munmap(t, a, count) ==
  LET V == a .. a + count - 1
      x == DropPages(get_pte(m, t, a), t, V)
  IN /\ "mmap" \in Calls /\ Running(t)
     /\ m' = IF V \subseteq vmap[t] THEN x ELSE Panic(x, "munmap")
     /\ vmap' = [vmap EXCEPT ![t] = @ \ V]
     /\ UNCHANGED <<live, pc, brk, own>>

-----------------------------------------------------------------------------
(* execve.                                                                 *)

\* The arguments go to kernel pages (four and one), the old image goes.
Execve(t) ==
  /\ "execve" \in Calls /\ Running(t)
  /\ m' = [free_pte(m, t) EXCEPT !.panic = alloc_kpage(alloc_kpage(m, 4), 1).panic]
  /\ pc' = [pc EXCEPT ![t] = "args"]
  /\ UNCHANGED <<live, vmap, brk, own>>

InExec(t, at) == m.panic = "none" /\ live[t] = "live" /\ pc[t] = at

\* The copy of the arguments faults the new stack in.
CopyArgs(t, new) ==
  /\ InExec(t, "args")
  /\ m' = link_user_page(m, t, Stack, new)
  /\ pc' = [pc EXCEPT ![t] = "header"]
  /\ UNCHANGED <<live, vmap, brk, own>>

\* load_elf reads the header to USER_EXEC_ADDR and sleeps meanwhile.
ReadHeader(t, new) ==
  /\ InExec(t, "header")
  /\ m' = link_user_page(m, t, Text, new)
  /\ pc' = [pc EXCEPT ![t] = "text"]
  /\ UNCHANGED <<live, vmap, brk, own>>

\* The header is no ELF header: execve returns to an image that is gone.
BadHeader(t) ==
  /\ InExec(t, "text")
  /\ IF t = 1 THEN m' = Panic(m, "init") /\ UNCHANGED pc
     ELSE UNCHANGED m /\ pc' = [pc EXCEPT ![t] = "user"]
  /\ UNCHANGED <<live, vmap, brk, own>>

LoadText(t, new) ==
  LET x == link_user_page(m, t, Text, new) IN
    /\ InExec(t, "text")
    /\ m' = [x EXCEPT !.data[x.pte[t][Text].frame] = new,
                      !.pte[t][Text].write = FALSE,
                      !.pte[t][Text].readonly = TRUE]
    /\ pc' = [pc EXCEPT ![t] = "data"]
    /\ UNCHANGED <<live, vmap, brk, own>>

LoadData(t, new) ==
  /\ InExec(t, "data")
  /\ m' = link_user_page(m, t, Data, new)
  /\ brk' = [brk EXCEPT ![t] = Heap]
  /\ pc' = [pc EXCEPT ![t] = "user"]
  /\ UNCHANGED <<live, vmap, own>>

-----------------------------------------------------------------------------

Next ==
  \E t \in Tasks :
    \/ Exit(t) \/ ExitResumes(t) \/ Fork(t) \/ Execve(t) \/ BadHeader(t)
    \/ \E u \in Tasks : Wait(t, u)
    \/ \E v \in Pages : WriteFault(t, v)
    \/ \E v \in Pages, new \in Values, mode \in Modes : Store(t, v, new, mode)
    \/ \E v \in Pages, new \in Fresh : MissingFault(t, v, new)
    \/ \E b \in 0 .. BrkLimit : Brk(t, b)
    \/ \E n \in 1 .. NMmap, kind \in MmapKinds, new \in Fresh :
         Mmap(t, n, kind, new)
    \/ \E n \in 1 .. NMmap : \E a \in {v \in MmapPages : v + n - 1 \in MmapPages} :
         Munmap(t, a, n)
    \/ \E new \in Fresh :
         CopyArgs(t, new) \/ ReadHeader(t, new) \/ LoadText(t, new) \/ LoadData(t, new)

Spec == Init /\ [][Next]_vars

-----------------------------------------------------------------------------

Pte == [frame : 0 .. NFrame, write : BOOLEAN, shared : BOOLEAN, readonly : BOOLEAN]

\* The assertions and panics of memory.c, task.c and execve.c, and the return
\* of a task that slept in sys_exit.
Reasons == {"none", "oom", "kpage", "tasks", "init", "cow", "shared", "vmap", "munmap",
            "exit_resumed"}

Mem == [map : [Frames -> Nat], free : Int, data : [Frames -> Values],
        pde : [Tasks -> [1 .. 2 -> 0 .. NFrame]], pte : [Tasks -> [Pages -> Pte]],
        kernel_map : SUBSET (1 .. NKpage), panic : Reasons]

TypeOK ==
  /\ m \in Mem
  /\ live \in [Tasks -> {"free", "live", "dead", "exiting"}]
  /\ pc \in [Tasks -> {"user", "args", "header", "text", "data"}]
  /\ vmap \in [Tasks -> SUBSET MmapPages] /\ brk \in [Tasks -> 0 .. BrkLimit - 1]
  /\ own \in [Tasks -> [pcb : 0 .. NKpage, pde : 0 .. NKpage, bits : 0 .. NKpage]]

(***************************************************************************)
(* mem_map[i] is the number of page table entries and page directory       *)
(* entries that point at page i, over all processes, and free_pages is the *)
(* number of pages nobody points at: fork, exit, execve, munmap and the    *)
(* fault handler neither lose a page nor free one that is mapped.          *)
(***************************************************************************)
References(f) ==
  Cardinality({s \in Tasks \X Pages : m.pte[s[1]][s[2]].frame = f})
  + Cardinality({s \in Tasks \X (1 .. 2) : m.pde[s[1]][s[2]] = f})

MapCounts ==
  m.panic = "none" =>
    /\ \A f \in Frames : m.map[f] = References(f)
    /\ m.free = Cardinality({f \in Frames : m.map[f] = 0})

(***************************************************************************)
(* A page that a program can write without a fault is its own, unless it   *)
(* was mapped with MAP_SHARED: no store gets around copy on write.  And no *)
(* page of a program is the page table of another.                         *)
(***************************************************************************)
WritableIsPrivate ==
  m.panic = "none" =>
    \A t \in Tasks, v \in Pages :
      /\ m.pte[t][v].write /\ ~ m.pte[t][v].shared => m.map[m.pte[t][v].frame] = 1
      /\ Present(m, t, v) => \A u \in Tasks, r \in 1 .. 2 : m.pde[u][r] # m.pte[t][v].frame

(***************************************************************************)
(* The assertion of page_fault, that a page to be copied has two users,    *)
(* never stops the kernel.  A parent that forks twice refutes it.          *)
(***************************************************************************)
CowAssertHolds == m.panic # "cow"

(***************************************************************************)
(* Every page taken from kernel_map is the PCB, the page directory or the  *)
(* bitmap of exactly one process: exit and waitpid together give back what *)
(* fork took, and nothing twice.  It is so until a task that slept in      *)
(* sys_exit is switched to again (ExitResumes): that one may give its page *)
(* directory and bitmap back a second time.                                *)
(***************************************************************************)
KernelPagesOwned ==
  LET Slots == Tasks \X {"pcb", "pde", "bits"}
      Used == {s \in Slots : own[s[1]][s[2]] # None}
  IN m.panic = "none" =>
       /\ m.kernel_map = {own[s[1]][s[2]] : s \in Used}
       /\ Cardinality(m.kernel_map) = Cardinality(Used)

(***************************************************************************)
(* Processes have memories of their own (module AddressSpaces).            *)
(***************************************************************************)
View == [t \in Tasks |-> [v \in Pages |->
          IF Present(m, t, v) THEN m.data[m.pte[t][v].frame] ELSE Unmapped]]

SharedPages == [t \in Tasks |-> {v \in Pages : m.pte[t][v].shared}]

Alive == {t \in Tasks : live[t] = "live"}

Up == m.panic = "none"

AS == INSTANCE AddressSpaces WITH
        Procs <- Tasks, Addrs <- Pages, view <- View, shared <- SharedPages,
        alive <- Alive, up <- Up

Isolated == AS!Private
=============================================================================
