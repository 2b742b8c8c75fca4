--------------------------- MODULE PrivateMemory ---------------------------
(***************************************************************************)
(* What the kernel promises of user memory: every process has pages of its *)
(* own.  A new page reads as zero, a store is seen by the process that     *)
(* owns the page and by no other, and a duplicate starts as a copy of its  *)
(* parent.  VirtualMemory, which shares frames between processes, is shown *)
(* to implement this specification.                                        *)
(***************************************************************************)
CONSTANTS Proc, Page, Value,
          Zero,      \* what a cleared page reads as
          Unmapped,  \* no page
          Image      \* the pages of a program when it starts

VARIABLE mem         \* mem[p][v] is what page v of process p holds

NoPages == [v \in Page |-> Unmapped]

MemInit == mem = [p \in Proc |-> NoPages]

MapPage(p, v) ==
  /\ mem[p][v] = Unmapped
  /\ mem' = [mem EXCEPT ![p][v] = Zero]

UnmapPage(p, v) ==
  /\ mem[p][v] # Unmapped
  /\ mem' = [mem EXCEPT ![p][v] = Unmapped]

StorePage(p, v, x) ==
  /\ mem[p][v] # Unmapped
  /\ mem' = [mem EXCEPT ![p][v] = x]

CopyPage(s, u, p, v) ==
  /\ mem[s][u] # Unmapped /\ mem[p][v] # Unmapped
  /\ mem' = [mem EXCEPT ![p][v] = mem[s][u]]

Start(p) ==
  /\ mem[p] = NoPages
  /\ mem' = [mem EXCEPT ![p] = Image]

Duplicate(p, c) ==
  /\ mem[c] = NoPages
  /\ mem' = [mem EXCEPT ![c] = mem[p]]

Vanish(p) == mem' = [mem EXCEPT ![p] = NoPages]

MemNext ==
  \E p \in Proc :
    \/ \E v \in Page : MapPage(p, v) \/ UnmapPage(p, v) \/ \E x \in Value : StorePage(p, v, x)
    \/ \E s \in Proc, u, v \in Page : CopyPage(s, u, p, v)
    \/ Start(p)
    \/ \E c \in Proc : Duplicate(p, c)
    \/ Vanish(p)

MemSpec == MemInit /\ [][MemNext]_mem
=============================================================================
