----------------------- MODULE ProcessManagerLemmas -----------------------
(***************************************************************************)
(* Each operation of the process manager preserves its consistency.        *)
(*                                                                         *)
(* Inside an operation one process p is off all lists: it left the CPU or  *)
(* was terminated, and Settle() has not put it back yet.  Consistent(q, P) *)
(* says that q is well formed as far as the processes of P are concerned;  *)
(* Sound(q) is the invariant between operations.                           *)
(***************************************************************************)
EXTENDS ProcessManagerEffects

\* What the counts need of Cardinality().  SchedulerProofs proves it of the
\* finite sets Thread and Proc; here it is part of the consistency, so that
\* these lemmas do not depend on the theory of finite sets.
CountingLaws ==
  /\ Cardinality({}) = 0
  /\ \A L \in SUBSET (Thread \union Proc) :
       /\ Cardinality(L) \in Nat
       /\ \A x \in Thread \union Proc :
            x \notin L => Cardinality(L \union {x}) = Cardinality(L) + 1
       /\ \A S \in SUBSET L : Cardinality(L \ S) = Cardinality(L) - Cardinality(S)

Consistent(q, P) ==
  /\ CountingLaws
  /\ q \in ProcessManagers
  /\ \A p \in P : Placed(q, p)
  /\ OneRunning(q)
  /\ Deferrals(q)
  /\ Counted(q)
  /\ KernelReady(q)

Sound(q) == Consistent(q, Proc) /\ AllAwakable(q)

\* Process p is off the lists, exists, and is not on the CPU.
Loose(q, p) ==
  /\ Consistent(q, Proc \ {p})
  /\ \A t \in Thread : q.tstate[t] = "sleeping" /\ q.owner[t] # p => Awakable(q, t)
  /\ q.place[p] \notin {"none", "buried"}
  /\ \A t \in Thread : t = q.running => q.owner[t] # p

Blocked(q, p) ==
  In(q, p, "ready") \union In(q, p, "interrupted") \union In(q, p, "sleeping")

\* One element.
LEMMA CountingOne ==
  ASSUME CountingLaws, NEW x \in Thread \union Proc
  PROVE  Cardinality({x}) = 1
<1>1. {} \in SUBSET Thread /\ {} \union {x} = {x} /\ x \notin {}  BY Zenon
<1> QED  BY <1>1 DEF CountingLaws

\* A user thread does not belong to the kernel process.
LEMMA UserProcess ==
  ASSUME NEW q, Sound(q), q.running \in Thread \ {KernelThread}
  PROVE  Running(q) \in Proc \ {Kernel}
BY Zenon DEF Sound, Consistent, OneRunning, KernelReady, Running, ProcessManagers

\* The counts stay exact when no thread and no process is born or reaped.
LEMMA SameCounts ==
  ASSUME NEW q, NEW r, Counted(q),
         r.tlive = q.tlive, r.plive = q.plive,
         \A t \in Thread : r.tstate[t] \in {"none", "reaped"}
                             <=> q.tstate[t] \in {"none", "reaped"},
         \A p \in Proc : r.place[p] \in {"none", "buried"}
                             <=> q.place[p] \in {"none", "buried"}
  PROVE  Counted(r)
<1>1. LiveThreads(r) = LiveThreads(q)  BY Zenon DEF LiveThreads
<1>2. LiveProcs(r) = LiveProcs(q)  BY Zenon DEF LiveProcs
<1> QED  BY <1>1, <1>2, Zenon DEF Counted

\* A process none of whose threads moved stays well placed.
LEMMA PlacedFrame ==
  ASSUME NEW q, NEW r, NEW p \in Proc, Placed(q, p),
         r.place[p] = q.place[p], r.owner = q.owner,
         \A t \in Thread : q.owner[t] = p => /\ r.tstate[t] = q.tstate[t]
                                             /\ t = r.running <=> t = q.running
  PROVE  Placed(r, p)
<1>1. \A s : In(r, p, s) = In(q, p, s)  BY Zenon DEF In
<1> QED  BY <1>1, Zenon DEF Placed

\* The same when the threads of p that count for its place are the same.
LEMMA PlacedSame ==
  ASSUME NEW q, NEW r, NEW p \in Proc, Placed(q, p),
         r.place[p] = q.place[p],
         In(r, p, "ready") = In(q, p, "ready"),
         In(r, p, "sleeping") = In(q, p, "sleeping"),
         In(r, p, "interrupted") = In(q, p, "interrupted"),
         In(r, p, "zombie") = In(q, p, "zombie"),
         (\E t \in Thread : t = r.running /\ r.owner[t] = p)
           <=> \E t \in Thread : t = q.running /\ q.owner[t] = p
  PROVE  Placed(r, p)
BY Zenon DEF Placed

\* The process of the running thread is well placed whatever its other
\* threads do.
LEMMA PlacedRunning ==
  ASSUME NEW r, NEW p \in Proc, r.place[p] = "running",
         NEW t \in Thread, t = r.running, r.owner[t] = p
  PROVE  Placed(r, p)
BY Zenon DEF Placed

\* A process with a ready thread that is on the ready list is well placed.
LEMMA PlacedReady ==
  ASSUME NEW r, NEW p \in Proc, r.place[p] = "ready", In(r, p, "ready") # {},
         \A t \in Thread : t = r.running => r.owner[t] # p
  PROVE  Placed(r, p)
BY Zenon DEF Placed

\* An operation that puts the loose process p back on a list it belongs to,
\* and moves no thread of another process, restores consistency.
LEMMA SettleInto ==
  ASSUME NEW q, NEW p \in Proc, Loose(q, p),
         NEW r \in ProcessManagers, Placed(r, p),
         r.running = q.running, SameThreads(r, q),
         \A x \in Proc \ {p} : r.place[x] = q.place[x],
         r.place[p] \in {"ready", "suspended", "interrupted", "zombie"},
         r.place[p] = "zombie" =>
           q.running \in Thread \ {KernelThread} \/ \A t \in q.deferred : q.owner[t] # p,
         r.place[p] = "interrupted" => In(r, p, "sleeping") = {},
         \A t \in Thread :
           \/ r.tstate[t] = q.tstate[t]
           \/ /\ q.owner[t] = p
              /\ q.tstate[t] = "interrupted" /\ r.tstate[t] = "ready"
  PROVE  Sound(r)
<1> USE DEF Loose, Consistent, SameThreads
<1>1. q \in ProcessManagers /\ q.owner \in [Thread -> Proc]
  BY Zenon DEF ProcessManagers
<1>2. \A x \in Proc : Placed(r, x)
  <2>1. ASSUME NEW x \in Proc \ {p}  PROVE Placed(r, x)
    BY <2>1, PlacedFrame
  <2> QED  BY <2>1, Zenon
<1>3. OneRunning(r)
  BY DEF OneRunning
<1>4. Deferrals(r)
  BY <1>1, NoThreadAssumption DEF Deferrals, ProcessManagers
<1>5. Counted(r)
  <2>1. \A x \in Proc : r.place[x] \in {"none", "buried"} <=> q.place[x] \in {"none", "buried"}
    BY Zenon
  <2>2. \A t \in Thread : r.tstate[t] \in {"none", "reaped"} <=> q.tstate[t] \in {"none", "reaped"}
    BY Zenon
  <2> QED  BY <2>1, <2>2, SameCounts, Zenon
<1>6. KernelReady(r)
  BY KernelAssumption DEF KernelReady
<1>7. AllAwakable(r)
  <2> SUFFICES ASSUME NEW t \in Thread, r.tstate[t] = "sleeping"  PROVE Awakable(r, t)
    BY Zenon DEF AllAwakable
  <2>1. CASE q.owner[t] # p
    BY <1>1, <2>1 DEF Awakable
  <2>2. CASE q.owner[t] = p
    <3>1. t \in In(r, p, "sleeping")  BY <2>2, Zenon DEF In
    <3> QED  BY <2>2, <3>1, Zenon DEF Awakable, Placed
  <2> QED  BY <2>1, <2>2, Zenon
<1> QED  BY <1>2, <1>3, <1>4, <1>5, <1>6, <1>7, Zenon DEF Sound

\* Settle() puts the process it was called for back on a list.
LEMMA SettleSound ==
  ASSUME NEW q, NEW p \in Proc, NEW s \in Statuses, Loose(q, p),
         Blocked(q, p) # {} \/ In(q, p, "zombie") # {},
         \/ Blocked(q, p) # {}
         \/ q.running \in Thread \ {KernelThread}
         \/ \A t \in q.deferred : q.owner[t] # p,
         NEW r \in Settle(q, p, s)
  PROVE  Sound(r) /\ r.running = q.running
<1>0. /\ q \in ProcessManagers /\ q.owner \in [Thread -> Proc]
      /\ \A t \in Thread : t = q.running => q.owner[t] # p
  BY Zenon DEF Loose, Consistent, ProcessManagers
<1>1. {"ready", "suspended", "zombie"} \subseteq Places /\ "ready" \in ThreadStates
  BY Zenon DEF Places, ThreadStates
<1>2. ASSUME NEW l \in {"ready", "suspended"}, r = Put(q, p, l),
             l = "ready" => In(q, p, "ready") # {},
             l = "suspended" => /\ In(q, p, "ready") = {} /\ In(q, p, "interrupted") = {}
                                /\ In(q, p, "sleeping") # {}
      PROVE  Sound(r) /\ r.running = q.running
  <2>1. PutOn(r, q, p, l)
    BY <1>0, <1>1, <1>2, PutFacts, Zenon
  <2>2. \A x : In(r, p, x) = In(q, p, x)  BY <2>1, Zenon DEF In, SameThreads, PutOn
  <2>3. Placed(r, p)
    BY <1>0, <1>2, <2>1, <2>2, Zenon DEF Placed, SameThreads, PutOn
  <2> QED  BY <1>2, <2>1, <2>3, SettleInto DEF PutOn
<1>3. CASE In(q, p, "ready") # {}
  BY <1>2, <1>3, Zenon DEF Settle
<1>4. CASE In(q, p, "ready") = {} /\ In(q, p, "interrupted") # {}
  <2>1. PICK u \in In(q, p, "interrupted") : r = Resume(q, u)  BY <1>4, Zenon DEF Settle
  <2>2. u \in Thread /\ q.owner[u] = p /\ q.tstate[u] = "interrupted"  BY <2>1, Zenon DEF In
  <2>3. PICK m : m = Move(q, {u}, "ready")  BY Zenon
  <2>4. Moved(m, q, {u}, "ready")
    <3>1. {u} \in SUBSET Thread  BY <2>2, Zenon
    <3> QED  BY <1>0, <1>1, <2>3, <3>1, MoveFacts, Zenon
  <2>5. r = Put(m, p, "ready")  BY <2>1, <2>2, <2>3, Zenon DEF Resume
  <2>6. PutOn(r, m, p, "ready")
    <3>1. m \in ProcessManagers  BY <2>4, Zenon DEF Moved
    <3> QED  BY <1>1, <2>5, <3>1, PutFacts, Zenon
  <2>7. /\ r \in ProcessManagers /\ SameThreads(r, q) /\ r.running = q.running
        /\ r.place[p] = "ready" /\ \A x \in Proc \ {p} : r.place[x] = q.place[x]
        /\ \A t \in Thread : r.tstate[t] = IF t = u THEN "ready" ELSE q.tstate[t]
    BY <2>4, <2>6, Zenon DEF SameThreads, Moved, PutOn
  <2>8. u \in In(r, p, "ready")
    BY <2>2, <2>7, Zenon DEF In, SameThreads
  <2>9. Placed(r, p)
    BY <1>0, <2>7, <2>8, Zenon DEF Placed, SameThreads
  <2> QED  BY <2>2, <2>7, <2>9, SettleInto
<1>5. CASE /\ In(q, p, "ready") = {} /\ In(q, p, "interrupted") = {}
           /\ In(q, p, "sleeping") # {}
  BY <1>2, <1>5, Zenon DEF Settle
<1>6. CASE Blocked(q, p) = {}
  <2>1. PICK m : m = Put(q, p, "zombie")  BY Zenon
  <2>2. PICK e : e = IF q.pending[p] = "none" THEN s ELSE q.pending[p]  BY Zenon
  <2>3. r = [m EXCEPT !.status[p] = e, !.pending[p] = "none"]
    BY <1>6, <2>1, <2>2, Zenon DEF Settle, Blocked
  <2>4. PutOn(m, q, p, "zombie")
    BY <1>0, <1>1, <2>1, PutFacts, Zenon
  <2>5. e \in Statuses \union {"none"}
    BY <1>0, <2>2, Zenon DEF ProcessManagers
  <2>6. PICK st, pe : st = [m.status EXCEPT ![p] = e] /\ pe = [m.pending EXCEPT ![p] = "none"]
    BY Zenon
  <2>7. /\ m \in ProcessManagers
        /\ st \in [Proc -> Statuses \union {"none"}]
        /\ pe \in [Proc -> Statuses \union {"none"}]
    BY <2>4, <2>5, <2>6, Zenon DEF ProcessManagers, PutOn
  <2>8. r = [m EXCEPT !.status = st, !.pending = pe]
    BY <2>3, <2>6, <2>7, Zenon DEF ProcessManagers
  <2>9. r \in ProcessManagers
    BY <2>7, <2>8, Zenon DEF ProcessManagers
  <2>10. \A f \in {"place", "running", "owner", "deferred", "tstate", "tlive", "plive"} : r[f] = m[f]
    BY <2>7, <2>8, Zenon DEF ProcessManagers
  <2>11. SameThreads(r, q) /\ r.tstate = q.tstate /\ r.running = q.running
         /\ r.place[p] = "zombie" /\ \A x \in Proc \ {p} : r.place[x] = q.place[x]
    BY <2>4, <2>10, Zenon DEF SameThreads, PutOn
  <2>12. \A x : In(r, p, x) = In(q, p, x)  BY <2>11, Zenon DEF In, SameThreads
  <2>13. Placed(r, p)
    BY <1>0, <1>6, <2>11, <2>12, Zenon DEF Placed, Blocked, SameThreads
  <2> QED  BY <1>6, <2>9, <2>11, <2>13, SettleInto, Zenon
<1> QED  BY <1>3, <1>4, <1>5, <1>6, Zenon DEF Blocked

\* Killing a loose process leaves it loose, with a thread left to settle it.
LEMMA KillLoose ==
  ASSUME NEW q, NEW p \in Proc \ {Kernel}, Loose(q, p),
         Blocked(q, p) # {} \/ In(q, p, "zombie") # {}
  PROVE  LET k == Kill(q, p)
         IN  /\ Loose(k, p)
             /\ Blocked(k, p) # {} \/ In(k, p, "zombie") # {}
             /\ k.running = q.running /\ k.deferred = q.deferred /\ k.owner = q.owner
<1>1. PICK k : k = Kill(q, p)  BY Zenon
<1>2. q \in ProcessManagers /\ q.owner \in [Thread -> Proc]
  BY Zenon DEF Loose, Consistent, ProcessManagers
<1>3. KilledIn(k, q, p)  BY <1>1, <1>2, KillFacts, Zenon
<1> USE DEF KilledIn, SameThreads
<1>4. \A x \in Proc \ {p} : Placed(k, x)
  <2>1. ASSUME NEW x \in Proc \ {p}  PROVE Placed(k, x)
    <3>1. Placed(q, x)  BY Zenon DEF Loose, Consistent
    <3> QED  BY <1>3, <3>1, PlacedFrame
  <2> QED  BY <2>1, Zenon
<1>5. OneRunning(k)
  BY <1>3, Zenon DEF OneRunning, Loose, Consistent
<1>6. Deferrals(k)
  BY <1>3 DEF Deferrals, Loose, Consistent, ProcessManagers
<1>7. Counted(k)
  <2>1. \A t \in Thread : k.tstate[t] \in {"none", "reaped"} <=> q.tstate[t] \in {"none", "reaped"}
    BY <1>3, Zenon
  <2> QED  BY <1>3, <2>1, SameCounts, Zenon DEF Loose, Consistent
<1>8. KernelReady(k)
  BY <1>3, KernelAssumption, Zenon DEF KernelReady, Loose, Consistent
<1>9. Loose(k, p)
  BY <1>3, <1>4, <1>5, <1>6, <1>7, <1>8 DEF Loose, Consistent, Awakable
<1>10. Blocked(k, p) # {} \/ In(k, p, "zombie") # {}
  BY <1>3 DEF Blocked, In
<1> QED  BY <1>1, <1>3, <1>9, <1>10, Zenon

\* The process whose thread left the CPU is loose.  (The kernel's thread only
\* leaves it to become ready.)
LEMMA LeaveLoose ==
  ASSUME NEW pm, Sound(pm), pm.running \in Thread,
         NEW s \in {"ready", "sleeping", "zombie", "deferred"},
         pm.running = KernelThread => s = "ready",
         NEW r, LeftFor(r, pm, s),
         \A t \in pm.deferred : pm.place[pm.owner[t]] # "zombie"
  PROVE  Loose(r, Running(pm)) /\ Running(pm) \in Proc
<1>1. PICK p : p = Running(pm)  BY Zenon
<1>2. /\ CountingLaws /\ pm \in ProcessManagers /\ pm.owner \in [Thread -> Proc]
      /\ pm.owner[pm.running] = p /\ p \in Proc
      /\ \A x \in Proc : Placed(pm, x)
      /\ OneRunning(pm) /\ Deferrals(pm) /\ Counted(pm) /\ KernelReady(pm)
      /\ AllAwakable(pm)
  BY <1>1, Zenon DEF Sound, Consistent, ProcessManagers, Running
<1>3. pm.place[p] = "running"  BY <1>2, Zenon DEF Placed
<1> USE DEF LeftFor, SameThreads
<1>4. \A x \in Proc \ {p} : Placed(r, x)
  <2>1. ASSUME NEW x \in Proc \ {p}  PROVE Placed(r, x)
    BY <1>2, NoThreadAssumption, PlacedFrame
  <2> QED  BY <2>1, Zenon
<1>5. OneRunning(r)
  BY <1>2, NoThreadAssumption DEF OneRunning
<1>6. Deferrals(r)
  <2>1. \A t \in pm.deferred : pm.tstate[t] = "deferred" /\ t # pm.running
    BY <1>2, Zenon DEF Deferrals, OneRunning, ProcessManagers
  <2> QED  BY <1>2, <2>1 DEF Deferrals, ProcessManagers
<1>7. Counted(r)
  <2>1. \A t \in Thread : r.tstate[t] \in {"none", "reaped"} <=> pm.tstate[t] \in {"none", "reaped"}
    BY <1>2, Zenon DEF OneRunning
  <2> QED  BY <1>2, <2>1, SameCounts, Zenon
<1>8. KernelReady(r)
  BY <1>2, KernelAssumption, Zenon DEF KernelReady, OneRunning
<1>9. \A t \in Thread : r.tstate[t] = "sleeping" /\ r.owner[t] # p => Awakable(r, t)
  BY <1>2, Zenon DEF AllAwakable, Awakable
<1> QED  BY <1>1, <1>2, <1>3, <1>4, <1>5, <1>6, <1>7, <1>8, <1>9, NoThreadAssumption, Zenon DEF Loose, Consistent

\* Whatever is dispatched, the result is consistent and has a running thread.
LEMMA DispatchSound ==
  ASSUME NEW q, Sound(q), q.running = NoThread, NEW r \in Dispatch(q)
  PROVE  Sound(r) /\ r.running \in Thread
<1>1. PICK u \in Earliest(q) : r = Run(q, u)  BY Zenon DEF Dispatch
<1>2. PICK p : p = q.owner[u]  BY Zenon
<1>3. /\ q \in ProcessManagers /\ q.owner \in [Thread -> Proc]
      /\ u \in Thread /\ q.tstate[u] = "ready" /\ q.place[p] = "ready" /\ p \in Proc
      /\ \A x \in Proc : Placed(q, x)
      /\ OneRunning(q) /\ Deferrals(q) /\ Counted(q) /\ KernelReady(q) /\ AllAwakable(q)
  BY <1>2, Zenon DEF Sound, Consistent, ProcessManagers, Earliest, ReadyThreads
<1>4. PICK m : m = Move(q, {u}, "running")  BY Zenon
<1>5. Moved(m, q, {u}, "running")
  <2>1. {u} \in SUBSET Thread /\ "running" \in ThreadStates  BY <1>3, Zenon DEF ThreadStates
  <2> QED  BY <1>3, <1>4, <2>1, MoveFacts, Zenon
<1>6. PICK n : n = Put(m, p, "running")  BY Zenon
<1>7. PutOn(n, m, p, "running")
  <2>1. m \in ProcessManagers /\ "running" \in Places  BY <1>5, Zenon DEF Moved, Places
  <2> QED  BY <1>3, <1>6, <2>1, PutFacts, Zenon
<1>8. r = [n EXCEPT !.running = u, !.intr = q.reason[u]]
  BY <1>1, <1>2, <1>4, <1>6, Zenon DEF Run
<1>9. n \in ProcessManagers /\ q.reason[u] \in Reasons
  BY <1>3, <1>7, Zenon DEF PutOn, ProcessManagers
<1>10. r \in ProcessManagers /\ r.running = u
  BY <1>3, <1>8, <1>9, Zenon DEF ProcessManagers
<1>11. \A f \in {"place", "owner", "deferred", "tstate", "tlive", "plive"} : r[f] = n[f]
  BY <1>8, <1>9, Zenon DEF ProcessManagers
<1>12. /\ SameThreads(r, q)
       /\ r.place[p] = "running" /\ \A x \in Proc \ {p} : r.place[x] = q.place[x]
       /\ \A t \in Thread : r.tstate[t] = IF t = u THEN "running" ELSE q.tstate[t]
  BY <1>5, <1>7, <1>11 DEF Moved, PutOn, SameThreads
<1> USE DEF SameThreads
<1>13. \A x \in Proc : Placed(r, x)
  <2>1. ASSUME NEW x \in Proc \ {p}  PROVE Placed(r, x)
    BY <1>2, <1>3, <1>10, <1>12, NoThreadAssumption, PlacedFrame
  <2>2. Placed(r, p)
    BY <1>2, <1>3, <1>10, <1>12, Zenon DEF Placed, In
  <2> QED  BY <2>1, <2>2, Zenon
<1>14. OneRunning(r)
  BY <1>3, <1>10, <1>12, NoThreadAssumption, Zenon DEF OneRunning
<1>15. Deferrals(r)
  <2>1. \A t \in q.deferred : t \in Thread /\ q.tstate[t] = "deferred"
    BY <1>3, Zenon DEF Deferrals, ProcessManagers
  <2> QED  BY <1>3, <1>12, <2>1 DEF Deferrals
<1>16. Counted(r)
  <2>1. \A t \in Thread : r.tstate[t] \in {"none", "reaped"} <=> q.tstate[t] \in {"none", "reaped"}
    BY <1>3, <1>12, Zenon
  <2>2. \A x \in Proc : r.place[x] \in {"none", "buried"} <=> q.place[x] \in {"none", "buried"}
    BY <1>3, <1>12, Zenon
  <2> QED  BY <1>3, <1>12, <2>1, <2>2, SameCounts, Zenon
<1>17. KernelReady(r)
  BY <1>3, <1>12, KernelAssumption, Zenon DEF KernelReady
<1>18. AllAwakable(r)
  BY <1>3, <1>12 DEF AllAwakable, Awakable
<1> QED  BY <1>3, <1>10, <1>13, <1>14, <1>15, <1>16, <1>17, <1>18, Zenon DEF Sound, Consistent

(***************************************************************************)
(* Reaping threads, and the counters.                                      *)
(***************************************************************************)

\* r is q with the threads of S reaped and counted.
Reaped(r, q, S) ==
  /\ r \in ProcessManagers
  /\ \A t \in Thread : r.tstate[t] = IF t \in S THEN "reaped" ELSE q.tstate[t]
  /\ r.owner = q.owner /\ r.deferred = q.deferred /\ r.running = q.running
  /\ r.place = q.place /\ r.pending = q.pending
  /\ Counted(r)

\* Reaping live threads keeps the thread count exact.
LEMMA ReapFacts ==
  ASSUME CountingLaws, NEW q \in ProcessManagers, NEW S \in SUBSET Thread, Counted(q),
         \A t \in S : q.tstate[t] \notin {"none", "reaped"}
  PROVE  Reaped(Reap(q, S), q, S)
<1>1. PICK m : m = Move(q, S, "reaped")  BY Zenon
<1>2. Moved(m, q, S, "reaped")
  <2>1. "reaped" \in ThreadStates  BY Zenon DEF ThreadStates
  <2> QED  BY <1>1, <2>1, MoveFacts, Zenon
<1>3. PICK L : L = LiveThreads(q)  BY Zenon
<1>4. L \in SUBSET Thread /\ S \in SUBSET L  BY <1>3, Zenon DEF LiveThreads
<1>5. /\ Cardinality(S) \in Nat /\ Cardinality(L) \in Nat
      /\ Cardinality(L \ S) = Cardinality(L) - Cardinality(S)
      /\ Cardinality(L \ S) \in Nat
  <2>1. L \ S \in SUBSET Thread  BY <1>4, Zenon
  <2> QED  BY <1>4, <2>1, Zenon DEF CountingLaws
<1>6. PICK c, d : c = m.tlive - Cardinality(S) /\ d = m.detached \ S  BY Zenon
<1>7. PICK r : r = [m EXCEPT !.tlive = c, !.detached = d]  BY Zenon
<1>8. m \in ProcessManagers /\ c = Cardinality(L \ S) /\ c \in Nat /\ d \in SUBSET Thread
  BY <1>2, <1>3, <1>5, <1>6 DEF Moved, SameThreads, Counted, ProcessManagers
<1>9. r \in ProcessManagers /\ r.tlive = c
  BY <1>7, <1>8, Zenon DEF ProcessManagers
<1>10. \A f \in {"tstate", "place", "owner", "deferred", "running", "pending", "plive"} : r[f] = m[f]
  BY <1>7, <1>8, Zenon DEF ProcessManagers
<1>11. \A t \in Thread : r.tstate[t] = IF t \in S THEN "reaped" ELSE q.tstate[t]
  BY <1>2, <1>10, Zenon DEF Moved
<1>12. LiveThreads(r) = L \ S
  BY <1>3, <1>11, Zenon DEF LiveThreads
<1>13. LiveProcs(r) = LiveProcs(q) /\ r.plive = q.plive
  BY <1>2, <1>10, Zenon DEF LiveProcs, Moved, SameThreads
<1>14. Counted(r)
  BY <1>3, <1>5, <1>8, <1>9, <1>12, <1>13, BoundAssumption DEF Counted
<1>15. r = Reap(q, S)
  BY <1>1, <1>6, <1>7, <1>8, Zenon DEF Reap, ProcessManagers
<1> QED  BY <1>2, <1>9, <1>10, <1>11, <1>14, <1>15, Zenon DEF Reaped, Moved, SameThreads

\* reap_deferred() empties the deferred list, whose threads all still have
\* their process, and changes no process.
LEMMA ReapDeferredSound ==
  ASSUME NEW q, Sound(q)
  PROVE  LET r == ReapDeferred(q)
         IN  /\ Sound(r) /\ r.deferred = {}
             /\ r.running = q.running /\ r.place = q.place /\ r.owner = q.owner
             /\ \A t \in Thread :
                  r.tstate[t] = IF t \in q.deferred THEN "reaped" ELSE q.tstate[t]
<1>1. PICK D : D = q.deferred  BY Zenon
<1>2. /\ CountingLaws /\ q \in ProcessManagers /\ q.owner \in [Thread -> Proc] /\ D \in SUBSET Thread
      /\ \A x \in Proc : Placed(q, x)
      /\ OneRunning(q) /\ Deferrals(q) /\ Counted(q) /\ KernelReady(q) /\ AllAwakable(q)
  BY <1>1, Zenon DEF Sound, Consistent, ProcessManagers
<1>3. \A t \in D : q.tstate[t] = "deferred" /\ q.place[q.owner[t]] # "buried"
  BY <1>1, <1>2, Zenon DEF Deferrals
<1>4. {t \in D : q.place[q.owner[t]] # "buried"} = D
  BY <1>3, Zenon
<1>5. PICK m : m = Reap(q, D)  BY Zenon
<1>6. Reaped(m, q, D)
  BY <1>2, <1>3, <1>5, ReapFacts, Zenon
<1>7. PICK r : r = [m EXCEPT !.deferred = {}]  BY Zenon
<1>8. r = ReapDeferred(q)
  BY <1>1, <1>4, <1>5, <1>7, Zenon DEF ReapDeferred
<1>9. r \in ProcessManagers /\ r.deferred = {}
  BY <1>6, <1>7, Zenon DEF Reaped, ProcessManagers
<1>10. \A f \in {"tstate", "place", "owner", "running", "plive", "tlive"} : r[f] = m[f]
  BY <1>6, <1>7, Zenon DEF Reaped, ProcessManagers
<1>11. /\ \A t \in Thread : r.tstate[t] = IF t \in D THEN "reaped" ELSE q.tstate[t]
       /\ r.running = q.running /\ r.place = q.place /\ r.owner = q.owner
  BY <1>6, <1>10, Zenon DEF Reaped
<1>12. \A x \in Proc : Placed(r, x)
  <2>1. ASSUME NEW x \in Proc, NEW s \in {"ready", "interrupted", "sleeping", "zombie"}
        PROVE  In(r, x, s) = In(q, x, s)
    BY <1>2, <1>3, <1>11, Zenon DEF In
  <2> SUFFICES ASSUME NEW x \in Proc  PROVE Placed(r, x)
    BY Zenon
  <2>2. /\ Placed(q, x) /\ r.place[x] = q.place[x]
        /\ r.running = q.running /\ r.owner = q.owner
    BY <1>2, <1>11, Zenon
  <2> QED  BY <2>1, <2>2, PlacedSame, Zenon
<1>13. OneRunning(r)
  BY <1>2, <1>3, <1>11, Zenon DEF OneRunning
<1>14. Counted(r)
  <2>1. Counted(m) /\ r.tlive = m.tlive /\ r.plive = m.plive
        /\ r.tstate = m.tstate /\ r.place = m.place
    BY <1>6, <1>10, Zenon DEF Reaped
  <2> QED  BY <2>1, SameCounts, Zenon
<1>15. KernelReady(r)
  BY <1>2, <1>3, <1>11, KernelAssumption, Zenon DEF KernelReady
<1>16. AllAwakable(r)
  BY <1>2, <1>11, Zenon DEF AllAwakable, Awakable
<1>17. Sound(r)
  BY <1>9, <1>12, <1>13, <1>14, <1>15, <1>16, Zenon DEF Sound, Consistent, Deferrals
<1> QED  BY <1>1, <1>8, <1>9, <1>11, <1>17, Zenon

(***************************************************************************)
(* The operations that switch threads.  They start with an empty deferred  *)
(* list, because their callers reap it first.                              *)
(***************************************************************************)

Switchable(q) == Sound(q) /\ q.deferred = {} /\ q.running \in Thread

\* do_sleep() of a user thread.
LEMMA DoSleepSound ==
  ASSUME NEW q, Switchable(q), q.running # KernelThread, NEW a \in Alarms,
         NEW r \in DoSleep(q, a)
  PROVE  Sound(r) /\ r.running \in Thread
<1>1. PICK t, p : t = q.running /\ p = Running(q)  BY Zenon
<1>2. /\ q \in ProcessManagers /\ Sound(q) /\ t \in Thread /\ q.owner[t] = p /\ p \in Proc
      /\ q.running \in Thread
  BY <1>1, Zenon DEF Switchable, Sound, Consistent, Running, ProcessManagers
<1>3. PICK m : m = Leave(q, "sleeping")  BY Zenon
<1>4. LeftFor(m, q, "sleeping")
  <2>1. "sleeping" \in ThreadStates  BY Zenon DEF ThreadStates
  <2> QED  BY <1>2, <1>3, <2>1, LeaveFacts, Zenon
<1>5. PICK f : f = [m.alarm EXCEPT ![t] = a]  BY Zenon
<1>6. PICK n : n = [m EXCEPT !.alarm = f]  BY Zenon
<1>7. m \in ProcessManagers /\ f \in [Thread -> Alarms]
  BY <1>4, <1>5, Zenon DEF LeftFor, ProcessManagers
<1>8. n \in ProcessManagers
  BY <1>6, <1>7, Zenon DEF ProcessManagers
<1>9. \A g \in {"tstate", "place", "owner", "deferred", "running", "pending", "plive", "tlive", "detached"} :
        n[g] = m[g]
  BY <1>6, <1>7, Zenon DEF ProcessManagers
<1>10. LeftFor(n, q, "sleeping")
  BY <1>4, <1>8, <1>9, Zenon DEF LeftFor, SameThreads
<1>11. Loose(n, p)
  BY <1>1, <1>2, <1>10, LeaveLoose, Zenon DEF Switchable
<1>12. t \in In(n, p, "sleeping")
  BY <1>1, <1>2, <1>10, Zenon DEF LeftFor, SameThreads, In
<1>13. PICK s \in Settle(n, p, "ok") : r \in Dispatch(s)
  <2>1. n = [m EXCEPT !.alarm[t] = a]
    BY <1>5, <1>6, <1>7, Zenon DEF ProcessManagers
  <2> QED  BY <1>1, <1>3, <2>1, Zenon DEF DoSleep
<1>14. Sound(s) /\ s.running = n.running
  <2>1. Blocked(n, p) # {} /\ "ok" \in Statuses  BY <1>12, Zenon DEF Blocked, Statuses
  <2> QED  BY <1>2, <1>11, <1>13, <2>1, SettleSound
<1> QED  BY <1>10, <1>13, <1>14, DispatchSound, Zenon DEF LeftFor

\* do_exit() of a user thread: every thread of the process is on its way out.
LEMMA DoExitSound ==
  ASSUME NEW q, Switchable(q), q.running # KernelThread, NEW e \in Statuses,
         NEW r \in DoExit(q, e)
  PROVE  Sound(r) /\ r.running \in Thread
<1>1. PICK t, p : t = q.running /\ p = Running(q)  BY Zenon
<1>2. /\ q \in ProcessManagers /\ Sound(q) /\ t \in Thread /\ q.owner[t] = p
      /\ p \in Proc \ {Kernel} /\ q.running \in Thread
  BY <1>1, UserProcess, Zenon DEF Switchable, Sound, Consistent, Running, ProcessManagers
<1>3. PICK m : m = Leave(q, "zombie")  BY Zenon
<1>4. LeftFor(m, q, "zombie")
  <2>1. "zombie" \in ThreadStates  BY Zenon DEF ThreadStates
  <2> QED  BY <1>2, <1>3, <2>1, LeaveFacts, Zenon
<1>5. PICK f : f = [m.pending EXCEPT ![p] = IF @ = "none" THEN e ELSE @]  BY Zenon
<1>6. PICK n : n = [m EXCEPT !.pending = f]  BY Zenon
<1>7. m \in ProcessManagers /\ f \in [Proc -> Statuses \union {"none"}]
  BY <1>2, <1>4, <1>5, Zenon DEF LeftFor, ProcessManagers
<1>8. n \in ProcessManagers
  BY <1>6, <1>7, Zenon DEF ProcessManagers
<1>9. \A g \in {"tstate", "place", "owner", "deferred", "running", "plive", "tlive"} : n[g] = m[g]
  BY <1>6, <1>7, Zenon DEF ProcessManagers
<1>10. Loose(m, p)
  BY <1>1, <1>2, <1>4, LeaveLoose, Zenon DEF Switchable
<1>11. Loose(n, p) /\ n.deferred = {} /\ n.running = NoThread /\ t \in In(n, p, "zombie")
  <2>1. Consistent(n, Proc \ {p})
    <3>1. \A x \in Proc \ {p} : Placed(n, x)
      BY <1>9, <1>10, PlacedFrame DEF Loose, Consistent
    <3>2. Counted(n)
      BY <1>9, <1>10, SameCounts, Zenon DEF Loose, Consistent
    <3> QED  BY <1>8, <1>9, <1>10, <3>1, <3>2
             DEF Loose, Consistent, OneRunning, Deferrals, KernelReady
  <2>2. Loose(n, p)
    BY <1>9, <1>10, <2>1 DEF Loose, Awakable
  <2> QED  BY <1>1, <1>2, <1>4, <1>9, <2>2, Zenon DEF LeftFor, SameThreads, In, Switchable
<1>12. PICK k : k = Kill(n, p)  BY Zenon
<1>13. /\ Loose(k, p) /\ k.running = NoThread /\ k.deferred = {}
       /\ Blocked(k, p) # {} \/ In(k, p, "zombie") # {}
  BY <1>2, <1>11, <1>12, KillLoose, Zenon
<1>14. PICK s \in Settle(k, p, e) : r \in Dispatch(s)
  <2>1. n = [m EXCEPT !.pending[p] = IF @ = "none" THEN e ELSE @]
    BY <1>2, <1>5, <1>6, <1>7, Zenon DEF ProcessManagers
  <2> QED  BY <1>1, <1>3, <1>12, <2>1, Zenon DEF DoExit
<1>15. Sound(s) /\ s.running = NoThread
  BY <1>2, <1>13, <1>14, SettleSound
<1> QED  BY <1>14, <1>15, DispatchSound, Zenon

\* do_exit_thread(): the reaping of a detached thread is deferred only while
\* its process has another thread to run.
LEMMA DoExitThreadSound ==
  ASSUME NEW q, Switchable(q), q.running # KernelThread, NEW e \in Statuses,
         NEW r \in DoExitThread(q, e)
  PROVE  Sound(r) /\ r.running \in Thread
<1>1. PICK t, p : t = q.running /\ p = Running(q)  BY Zenon
<1>2. /\ q \in ProcessManagers /\ Sound(q) /\ t \in Thread /\ q.owner[t] = p
      /\ p \in Proc \ {Kernel} /\ q.running \in Thread /\ q.tstate[t] = "running"
  BY <1>1, UserProcess, Zenon DEF Switchable, Sound, Consistent, Running, ProcessManagers, OneRunning
<1>3. {"zombie", "deferred"} \subseteq ThreadStates  BY Zenon DEF ThreadStates
<1>4. CASE t \in q.detached /\ Blocked(q, p) # {}
  <2>1. PICK m : m = Leave(q, "deferred")  BY Zenon
  <2>2. LeftFor(m, q, "deferred")  BY <1>2, <1>3, <2>1, LeaveFacts, Zenon
  <2>3. Loose(m, p)  BY <1>1, <1>2, <2>2, LeaveLoose, Zenon DEF Switchable
  <2>4. PICK n : n = [m EXCEPT !.deferred = m.deferred \union {t}]  BY Zenon
  <2>5. m \in ProcessManagers /\ m.deferred = {}
    BY <2>2, Zenon DEF LeftFor, SameThreads, Switchable
  <2>6. n \in ProcessManagers /\ n.deferred = {t}
    BY <1>2, <2>4, <2>5 DEF ProcessManagers
  <2>7. \A g \in {"tstate", "place", "owner", "running", "plive", "tlive"} : n[g] = m[g]
    BY <2>4, <2>5, Zenon DEF ProcessManagers
  <2>8. n.tstate[t] = "deferred" /\ n.owner[t] = p /\ n.place[p] = "running" /\ n.running = NoThread
    <3>1. q.place[p] = "running"
      BY <1>1, <1>2, Zenon DEF Sound, Consistent, Placed
    <3> QED  BY <1>1, <1>2, <2>2, <2>7, <3>1, Zenon DEF LeftFor, SameThreads
  <2>9. Consistent(n, Proc \ {p})
    <3>1. \A x \in Proc \ {p} : Placed(n, x)
      BY <2>3, <2>7, PlacedFrame DEF Loose, Consistent
    <3>2. Counted(n)
      BY <2>3, <2>7, SameCounts, Zenon DEF Loose, Consistent
    <3>3. Deferrals(n)
      BY <2>6, <2>8, Zenon DEF Deferrals
    <3> QED  BY <2>3, <2>6, <2>7, <3>1, <3>2, <3>3, Zenon DEF Loose, Consistent, OneRunning, KernelReady
  <2>10. Loose(n, p)
    BY <2>3, <2>7, <2>9, Zenon DEF Loose, Awakable
  <2>11. Blocked(n, p) # {}
    <3>1. PICK u \in Thread : q.owner[u] = p /\ q.tstate[u] \in {"ready", "interrupted", "sleeping"}
      BY <1>4, Zenon DEF Blocked, In
    <3>2. n.owner[u] = p /\ n.tstate[u] = q.tstate[u]
      BY <1>1, <1>2, <2>2, <2>7, <3>1, Zenon DEF LeftFor, SameThreads
    <3> QED  BY <3>1, <3>2, Zenon DEF Blocked, In
  <2>12. PICK s \in Settle(n, p, e) : r \in Dispatch(s)
    BY <1>1, <1>4, <2>1, <2>4, Zenon DEF DoExitThread, Blocked
  <2>13. Sound(s) /\ s.running = NoThread
    BY <1>2, <2>8, <2>10, <2>11, <2>12, SettleSound, Zenon
  <2> QED  BY <2>12, <2>13, DispatchSound, Zenon
<1>5. CASE ~(t \in q.detached /\ Blocked(q, p) # {})
  <2>1. PICK n : n = Leave(q, "zombie")  BY Zenon
  <2>2. LeftFor(n, q, "zombie")  BY <1>2, <1>3, <2>1, LeaveFacts, Zenon
  <2>3. Loose(n, p)  BY <1>1, <1>2, <2>2, LeaveLoose, Zenon DEF Switchable
  <2>4. n.deferred = {} /\ n.running = NoThread /\ t \in In(n, p, "zombie")
    BY <1>1, <1>2, <2>2, Zenon DEF LeftFor, SameThreads, In, Switchable
  <2>5. PICK s \in Settle(n, p, e) : r \in Dispatch(s)
    BY <1>1, <1>5, <2>1, Zenon DEF DoExitThread, Blocked
  <2>6. Sound(s) /\ s.running = NoThread
    BY <1>2, <2>3, <2>4, <2>5, SettleSound
  <2> QED  BY <2>5, <2>6, DispatchSound, Zenon
<1> QED  BY <1>4, <1>5, Zenon

\* A process that is on no CPU and has a thread may be taken off its list.
LEMMA OffList ==
  ASSUME NEW q, Sound(q), NEW p \in Proc, q.place[p] \in {"ready", "suspended"}
  PROVE  Loose(q, p) /\ Blocked(q, p) # {}
<1>1. \A x \in Proc : Placed(q, x)  BY Zenon DEF Sound, Consistent
<1>2. \A t \in Thread : t = q.running => q.owner[t] # p  BY <1>1, Zenon DEF Placed
<1>3. Blocked(q, p) # {}  BY <1>1, Zenon DEF Placed, Blocked
<1> QED  BY <1>1, <1>2, <1>3, Zenon DEF Sound, Consistent, Loose, AllAwakable

\* terminate() of another process by a user thread.
LEMMA TerminateSound ==
  ASSUME NEW q, Sound(q), q.running \in Thread \ {KernelThread},
         NEW p \in Proc, Terminable(q, p), NEW r \in Terminate(q, p)
  PROVE  Sound(r) /\ r.running = q.running
<1>1. p \in Proc \ {Kernel} /\ q.place[p] \in {"ready", "suspended"}
  BY Zenon DEF Terminable
<1>2. Loose(q, p) /\ Blocked(q, p) # {}  BY <1>1, OffList, Zenon
<1>3. PICK k : k = Kill(q, p)  BY Zenon
<1>4. /\ Loose(k, p) /\ k.running = q.running
      /\ Blocked(k, p) # {} \/ In(k, p, "zombie") # {}
  BY <1>1, <1>2, <1>3, KillLoose, Zenon
<1>5. CASE q.place[p] = "ready"
  <2>1. r \in Settle(k, p, "interrupted") /\ "interrupted" \in Statuses
    BY <1>3, <1>5, Zenon DEF Terminate, Statuses
  <2> QED  BY <1>4, <2>1, SettleSound
<1>6. CASE q.place[p] = "suspended"
  <2>1. r = Put(k, p, "interrupted")  BY <1>3, <1>6, Zenon DEF Terminate
  <2>2. PutOn(r, k, p, "interrupted")
    <3>1. k \in ProcessManagers /\ "interrupted" \in Places
      BY <1>4, Zenon DEF Loose, Consistent, Places
    <3> QED  BY <2>1, <3>1, PutFacts, Zenon
  <2>3. KilledIn(k, q, p)
    BY <1>3, KillFacts, Zenon DEF Sound, Consistent
  <2>4. In(q, p, "ready") = {} /\ In(q, p, "sleeping") # {}
    BY <1>6, Zenon DEF Sound, Consistent, Placed
  <2>5. In(r, p, "ready") = {} /\ In(r, p, "sleeping") = {} /\ In(r, p, "interrupted") # {}
    <3>1. /\ \A t \in Thread : q.owner[t] = p => q.tstate[t] # "ready"
          /\ \E t \in Thread : q.owner[t] = p /\ q.tstate[t] = "sleeping"
      BY <2>4, Zenon DEF In
    <3>2. r.owner = q.owner /\ r.tstate = k.tstate
      BY <2>2, <2>3, Zenon DEF PutOn, KilledIn, SameThreads
    <3>3. /\ \A t \in Thread : r.owner[t] = p => r.tstate[t] \notin {"ready", "sleeping"}
          /\ \E t \in Thread : r.owner[t] = p /\ r.tstate[t] = "interrupted"
      BY <2>3, <3>1, <3>2, Zenon DEF KilledIn
    <3> QED  BY <3>3, Zenon DEF In
  <2>6. Placed(r, p)
    BY <1>4, <2>2, <2>5, Zenon DEF Placed, PutOn, SameThreads, Loose
  <2> QED  BY <1>4, <2>2, <2>5, <2>6, SettleInto, Zenon DEF PutOn
<1> QED  BY <1>1, <1>5, <1>6, Zenon

\* check_alarm() interrupts sleepers of suspended processes, which then are
\* in the interrupted list, possibly with threads that still sleep.
LEMMA CheckAlarmConsistent ==
  ASSUME NEW q, Sound(q), q.running = NoThread, q.deferred = {}
  PROVE  LET c == CheckAlarm(q)
         IN  Consistent(c, Proc) /\ c.running = NoThread /\ c.deferred = {}
<1>1. PICK E : E = Expired(q)  BY Zenon
<1>2. /\ CountingLaws /\ q \in ProcessManagers /\ q.owner \in [Thread -> Proc]
      /\ \A x \in Proc : Placed(q, x)
      /\ OneRunning(q) /\ Counted(q) /\ KernelReady(q)
  BY Zenon DEF Sound, Consistent, ProcessManagers
<1>3. /\ E \in SUBSET Thread
      /\ \A t \in E : q.tstate[t] = "sleeping" /\ q.place[q.owner[t]] = "suspended"
  BY <1>1, Zenon DEF Expired
<1>4. PICK m : m = Interrupt(q, E, "timedout")  BY Zenon
<1>5. Moved(m, q, E, "interrupted")
  <2>1. "timedout" \in Reasons  BY Zenon DEF Reasons
  <2> QED  BY <1>2, <1>3, <1>4, <2>1, InterruptFacts, Zenon
<1>6. PICK f : f = [p \in Proc |-> IF \E t \in E : q.owner[t] = p THEN "interrupted" ELSE q.place[p]]
  BY Zenon
<1>7. PICK c : c = [m EXCEPT !.place = f]  BY Zenon
<1>8. m \in ProcessManagers /\ f \in [Proc -> Places]
  BY <1>2, <1>5, <1>6, Zenon DEF Moved, ProcessManagers, Places
<1>9. c \in ProcessManagers /\ c.place = f
  BY <1>7, <1>8, Zenon DEF ProcessManagers
<1>10. \A g \in {"tstate", "owner", "deferred", "running", "plive", "tlive"} : c[g] = m[g]
  BY <1>7, <1>8, Zenon DEF ProcessManagers
<1>11. /\ \A t \in Thread : c.tstate[t] = IF t \in E THEN "interrupted" ELSE q.tstate[t]
       /\ \A p \in Proc : c.place[p] = IF \E t \in E : q.owner[t] = p THEN "interrupted" ELSE q.place[p]
       /\ SameThreads(c, q) /\ c.running = NoThread /\ c.deferred = {}
  BY <1>5, <1>6, <1>9, <1>10 DEF Moved, SameThreads
<1> USE DEF SameThreads
<1>12. \A x \in Proc : Placed(c, x)
  <2>1. ASSUME NEW x \in Proc, \A t \in E : q.owner[t] # x  PROVE Placed(c, x)
    BY <1>2, <1>11, <2>1, PlacedFrame
  <2>2. ASSUME NEW x \in Proc, NEW u \in E, q.owner[u] = x  PROVE Placed(c, x)
    <3>1. c.place[x] = "interrupted" /\ q.place[x] = "suspended" /\ u \in Thread
      BY <1>3, <1>11, <2>2, Zenon
    <3>2. u \in In(c, x, "interrupted")
      BY <1>11, <2>2, <3>1, Zenon DEF In
    <3>3. In(c, x, "ready") = {}
      <4>1. In(q, x, "ready") = {}  BY <1>2, <3>1, Zenon DEF Placed
      <4> QED  BY <1>11, <4>1 DEF In
    <3>4. \A t \in Thread : t # c.running  BY <1>11, NoThreadAssumption
    <3> QED  BY <3>1, <3>2, <3>3, <3>4, Zenon DEF Placed
  <2> QED  BY <2>1, <2>2, Zenon
<1>13. OneRunning(c)
  BY <1>2, <1>3, <1>11 DEF OneRunning
<1>14. Counted(c)
  <2>1. \A t \in Thread : c.tstate[t] \in {"none", "reaped"} <=> q.tstate[t] \in {"none", "reaped"}
    BY <1>3, <1>11, Zenon
  <2>2. \A x \in Proc : c.place[x] \in {"none", "buried"} <=> q.place[x] \in {"none", "buried"}
    BY <1>3, <1>11, Zenon
  <2> QED  BY <1>2, <1>11, <2>1, <2>2, SameCounts, Zenon
<1>15. KernelReady(c)
  BY <1>2, <1>3, <1>11, KernelAssumption DEF KernelReady
<1>16. Deferrals(c)
  BY <1>11, Zenon DEF Deferrals
<1>17. c = CheckAlarm(q)
  BY <1>1, <1>4, <1>6, <1>7, Zenon DEF CheckAlarm
<1> QED  BY <1>2, <1>9, <1>11, <1>12, <1>13, <1>14, <1>15, <1>16, <1>17, Zenon DEF Consistent

\* Resuming every interrupted process empties the interrupted list, so no
\* sleeping thread is left in it.
LEMMA DrainSound ==
  ASSUME NEW q, Consistent(q, Proc), q.running = NoThread, q.deferred = {},
         NEW R \in Resumable(q)
  PROVE  Sound(Drain(q, R)) /\ Drain(q, R).running = NoThread
<1>2. /\ q \in ProcessManagers /\ q.owner \in [Thread -> Proc]
      /\ \A x \in Proc : Placed(q, x)
      /\ OneRunning(q) /\ Counted(q) /\ KernelReady(q)
  BY Zenon DEF Consistent, ProcessManagers
<1>3. /\ R \in SUBSET Thread
      /\ \A t \in R : q.tstate[t] = "interrupted" /\ q.place[q.owner[t]] = "interrupted"
      /\ \A p \in Proc : q.place[p] = "interrupted" => \E t \in R : q.owner[t] = p
  BY Zenon DEF Resumable
<1>4. PICK m : m = Move(q, R, "ready")  BY Zenon
<1>5. Moved(m, q, R, "ready")
  <2>1. "ready" \in ThreadStates  BY Zenon DEF ThreadStates
  <2> QED  BY <1>2, <1>3, <1>4, <2>1, MoveFacts, Zenon
<1>6. PICK f : f = [p \in Proc |-> IF \E t \in R : q.owner[t] = p THEN "ready" ELSE q.place[p]]
  BY Zenon
<1>7. PICK c : c = [m EXCEPT !.place = f]  BY Zenon
<1>8. m \in ProcessManagers /\ f \in [Proc -> Places]
  BY <1>2, <1>5, <1>6, Zenon DEF Moved, ProcessManagers, Places
<1>9. c \in ProcessManagers /\ c.place = f
  BY <1>7, <1>8, Zenon DEF ProcessManagers
<1>10. \A g \in {"tstate", "owner", "deferred", "running", "plive", "tlive"} : c[g] = m[g]
  BY <1>7, <1>8, Zenon DEF ProcessManagers
<1>11. /\ \A t \in Thread : c.tstate[t] = IF t \in R THEN "ready" ELSE q.tstate[t]
       /\ \A p \in Proc : c.place[p] = IF q.place[p] = "interrupted" THEN "ready" ELSE q.place[p]
       /\ SameThreads(c, q) /\ c.running = NoThread /\ c.deferred = {}
  BY <1>3, <1>5, <1>6, <1>9, <1>10 DEF Moved, SameThreads
<1> USE DEF SameThreads
<1>12. \A x \in Proc : Placed(c, x)
  <2>1. ASSUME NEW x \in Proc, q.place[x] # "interrupted"  PROVE Placed(c, x)
    BY <1>2, <1>3, <1>11, <2>1, PlacedFrame
  <2>2. ASSUME NEW x \in Proc, q.place[x] = "interrupted"  PROVE Placed(c, x)
    <3>1. PICK u \in R : q.owner[u] = x  BY <1>3, <2>2, Zenon
    <3>2. c.place[x] = "ready" /\ u \in In(c, x, "ready")
      BY <1>3, <1>11, <2>2, <3>1, Zenon DEF In
    <3>3. \A t \in Thread : t # c.running  BY <1>11, NoThreadAssumption, Zenon
    <3> QED  BY <3>2, <3>3, Zenon DEF Placed
  <2> QED  BY <2>1, <2>2, Zenon
<1>13. OneRunning(c)
  BY <1>2, <1>3, <1>11 DEF OneRunning
<1>14. Counted(c)
  <2>1. \A t \in Thread : c.tstate[t] \in {"none", "reaped"} <=> q.tstate[t] \in {"none", "reaped"}
    BY <1>3, <1>11, Zenon
  <2>2. \A x \in Proc : c.place[x] \in {"none", "buried"} <=> q.place[x] \in {"none", "buried"}
    BY <1>11, Zenon
  <2> QED  BY <1>2, <1>11, <2>1, <2>2, SameCounts, Zenon
<1>15. KernelReady(c)
  BY <1>2, <1>3, <1>11, KernelAssumption DEF KernelReady
<1>16. AllAwakable(c)
  <2> SUFFICES ASSUME NEW t \in Thread, c.tstate[t] = "sleeping"  PROVE Awakable(c, t)
    BY Zenon DEF AllAwakable
  <2>1. PICK x \in Proc : x = c.owner[t]  BY <1>2, <1>11, Zenon
  <2>2. t \in In(c, x, "sleeping") /\ Placed(c, x) /\ c.place[x] # "interrupted"
    BY <1>11, <1>12, <2>1, Zenon DEF In
  <2>3. c.place[x] \in Places  BY <1>9, <2>1, Zenon DEF ProcessManagers
  <2> QED  BY <2>1, <2>2, <2>3, Zenon DEF Placed, Awakable, Places
<1>17. Deferrals(c)
  BY <1>11, Zenon DEF Deferrals
<1>18. c = Drain(q, R)
  BY <1>4, <1>6, <1>7, Zenon DEF Drain
<1> QED  BY <1>9, <1>11, <1>12, <1>13, <1>14, <1>15, <1>16, <1>17, <1>18, Zenon DEF Sound, Consistent

\* schedule(): the running process goes to the ready list, sleepers whose
\* alarm is due are interrupted, and every interrupted process is resumed.
LEMMA ScheduleSound ==
  ASSUME NEW q, Switchable(q), NEW r \in Schedule(q)
  PROVE  Sound(r) /\ r.running \in Thread
<1>1. PICK t, p : t = q.running /\ p = Running(q)  BY Zenon
<1>2. /\ q \in ProcessManagers /\ Sound(q) /\ t \in Thread /\ q.owner[t] = p /\ p \in Proc
      /\ q.running \in Thread
  BY <1>1, Zenon DEF Switchable, Sound, Consistent, Running, ProcessManagers
<1>3. PICK m : m = Leave(q, "ready")  BY Zenon
<1>4. LeftFor(m, q, "ready")
  <2>1. "ready" \in ThreadStates  BY Zenon DEF ThreadStates
  <2> QED  BY <1>2, <1>3, <2>1, LeaveFacts, Zenon
<1>5. Loose(m, p)  BY <1>1, <1>2, <1>4, LeaveLoose, Zenon DEF Switchable
<1>6. PICK n : n = Put(m, p, "ready")  BY Zenon
<1>7. PutOn(n, m, p, "ready")
  <2>1. m \in ProcessManagers /\ "ready" \in Places  BY <1>4, Zenon DEF LeftFor, Places
  <2> QED  BY <1>2, <1>6, <2>1, PutFacts, Zenon
<1>8. Sound(n) /\ n.running = NoThread /\ n.deferred = {}
  <2>1. t \in In(n, p, "ready")
    BY <1>1, <1>2, <1>4, <1>7, Zenon DEF In, LeftFor, PutOn, SameThreads
  <2>2. Placed(n, p)
    BY <1>5, <1>7, <2>1, Zenon DEF Placed, PutOn, SameThreads, Loose
  <2>3. Sound(n)
    BY <1>2, <1>5, <1>7, <2>2, SettleInto, Zenon DEF PutOn
  <2> QED  BY <1>4, <1>7, <2>3, Zenon DEF PutOn, LeftFor, SameThreads, Switchable
<1>9. PICK c : c = CheckAlarm(n)  BY Zenon
<1>10. Consistent(c, Proc) /\ c.running = NoThread /\ c.deferred = {}
  BY <1>8, <1>9, CheckAlarmConsistent, Zenon
<1>11. PICK R \in Resumable(c) : r \in Dispatch(Drain(c, R))
  BY <1>1, <1>3, <1>6, <1>9, Zenon DEF Schedule
<1>12. Sound(Drain(c, R)) /\ Drain(c, R).running = NoThread
  BY <1>10, <1>11, DrainSound, Zenon
<1> QED  BY <1>11, <1>12, DispatchSound, Zenon

(***************************************************************************)
(* The operations that do not switch.                                      *)
(***************************************************************************)

\* Waking threads up moves each of them and its process to the ready list.
LEMMA WakeupSound ==
  ASSUME NEW q, Sound(q), NEW S \in SUBSET Thread
  PROVE  Sound(Wakeup(q, S)) /\ Wakeup(q, S).running = q.running
<1>1. PICK W : W = {t \in S : Awakable(q, t)}  BY Zenon
<1>2. /\ q \in ProcessManagers /\ q.owner \in [Thread -> Proc]
      /\ \A x \in Proc : Placed(q, x)
      /\ OneRunning(q) /\ Deferrals(q) /\ Counted(q) /\ KernelReady(q) /\ AllAwakable(q)
  BY Zenon DEF Sound, Consistent, ProcessManagers
<1>3. /\ W \in SUBSET Thread
      /\ \A t \in W : /\ q.tstate[t] = "sleeping"
                      /\ q.place[q.owner[t]] \in {"running", "suspended", "ready"}
  BY <1>1, Zenon DEF Awakable
<1>4. PICK m : m = Move(q, W, "ready")  BY Zenon
<1>5. Moved(m, q, W, "ready")
  <2>1. "ready" \in ThreadStates  BY Zenon DEF ThreadStates
  <2> QED  BY <1>2, <1>3, <1>4, <2>1, MoveFacts, Zenon
<1>6. PICK f : f = [p \in Proc |-> IF q.place[p] = "suspended" /\ \E t \in W : q.owner[t] = p
                                   THEN "ready" ELSE q.place[p]]
  BY Zenon
<1>7. PICK c : c = [m EXCEPT !.place = f]  BY Zenon
<1>8. m \in ProcessManagers /\ f \in [Proc -> Places]
  BY <1>2, <1>5, <1>6, Zenon DEF Moved, ProcessManagers, Places
<1>9. c \in ProcessManagers /\ c.place = f
  BY <1>7, <1>8, Zenon DEF ProcessManagers
<1>10. \A g \in {"tstate", "owner", "deferred", "running", "plive", "tlive"} : c[g] = m[g]
  BY <1>7, <1>8, Zenon DEF ProcessManagers
<1>11. /\ \A t \in Thread : c.tstate[t] = IF t \in W THEN "ready" ELSE q.tstate[t]
       /\ \A p \in Proc : c.place[p] = IF q.place[p] = "suspended" /\ \E t \in W : q.owner[t] = p
                                       THEN "ready" ELSE q.place[p]
       /\ SameThreads(c, q) /\ c.running = q.running
  BY <1>5, <1>6, <1>9, <1>10 DEF Moved, SameThreads
<1> USE DEF SameThreads
<1>12. \A x \in Proc : Placed(c, x)
  <2>1. ASSUME NEW x \in Proc, \A t \in W : q.owner[t] # x  PROVE Placed(c, x)
    BY <1>2, <1>11, <2>1, PlacedFrame
  <2>2. ASSUME NEW x \in Proc, NEW u \in W, q.owner[u] = x  PROVE Placed(c, x)
    <3>1. /\ q.place[x] \in {"running", "suspended", "ready"} /\ u \in Thread
          /\ c.place[x] = IF q.place[x] = "running" THEN "running" ELSE "ready"
      BY <1>3, <1>11, <2>2
    <3>2. u \in In(c, x, "ready")
      BY <1>11, <2>2, <3>1, Zenon DEF In
    <3>3. Placed(q, x)  BY <1>2, Zenon
    <3> QED  BY <1>11, <3>1, <3>2, <3>3, Zenon DEF Placed
  <2> QED  BY <2>1, <2>2, Zenon
<1>13. OneRunning(c)
  BY <1>2, <1>3, <1>11 DEF OneRunning
<1>14. Counted(c)
  <2>1. \A t \in Thread : c.tstate[t] \in {"none", "reaped"} <=> q.tstate[t] \in {"none", "reaped"}
    BY <1>3, <1>11, Zenon
  <2>2. \A x \in Proc : c.place[x] \in {"none", "buried"} <=> q.place[x] \in {"none", "buried"}
    BY <1>11, Zenon
  <2> QED  BY <1>2, <1>11, <2>1, <2>2, SameCounts, Zenon
<1>15. KernelReady(c)
  BY <1>2, <1>3, <1>11, KernelAssumption DEF KernelReady
<1>16. AllAwakable(c)
  BY <1>2, <1>11 DEF AllAwakable, Awakable
<1>17. Deferrals(c)
  <2>1. \A t \in q.deferred : t \in Thread /\ q.tstate[t] = "deferred" /\ q.owner[t] \in Proc
    BY <1>2, Zenon DEF Deferrals, ProcessManagers
  <2> QED  BY <1>2, <1>3, <1>11, <2>1 DEF Deferrals
<1>18. c = Wakeup(q, S)
  BY <1>1, <1>4, <1>6, <1>7, Zenon DEF Wakeup
<1> QED  BY <1>9, <1>11, <1>12, <1>13, <1>14, <1>15, <1>16, <1>17, <1>18, Zenon DEF Sound, Consistent

\* A joined or a detached zombie of the running process is reaped.
LEMMA ReapSound ==
  ASSUME NEW q, Sound(q), NEW u \in Thread, q.tstate[u] = "zombie",
         q.running \in Thread, q.owner[u] = Running(q)
  PROVE  Sound(Reap(q, {u})) /\ Reap(q, {u}).running = q.running
<1>1. /\ CountingLaws /\ q \in ProcessManagers /\ q.owner \in [Thread -> Proc]
      /\ \A x \in Proc : Placed(q, x)
      /\ OneRunning(q) /\ Deferrals(q) /\ Counted(q) /\ KernelReady(q) /\ AllAwakable(q)
  BY Zenon DEF Sound, Consistent, ProcessManagers
<1>2. PICK r : r = Reap(q, {u})  BY Zenon
<1>3. Reaped(r, q, {u})
  <2>1. {u} \in SUBSET Thread /\ \A t \in {u} : q.tstate[t] \notin {"none", "reaped"}
    BY Zenon
  <2> QED  BY <1>1, <1>2, <2>1, ReapFacts, Zenon
<1> USE DEF Reaped
<1>4. q.place[q.owner[u]] = "running"
  BY <1>1, Zenon DEF Placed, Running
<1>5. \A x \in Proc : Placed(r, x)
  <2>1. ASSUME NEW x \in Proc, x # q.owner[u]  PROVE Placed(r, x)
    BY <1>1, <1>3, <2>1, PlacedFrame
  <2>2. Placed(r, q.owner[u])
    <3>1. PICK x \in Proc : x = q.owner[u]  BY <1>1, Zenon
    <3>2. r.place[x] = "running" /\ r.running \in Thread /\ r.owner[r.running] = x
      BY <1>3, <1>4, <3>1, Zenon DEF Running
    <3> QED  BY <3>1, <3>2, PlacedRunning, Zenon
  <2> QED  BY <2>1, <2>2, Zenon
<1>6. OneRunning(r)
  BY <1>1, <1>3, Zenon DEF OneRunning
<1>7. Deferrals(r)
  <2>1. \A t \in q.deferred : t \in Thread /\ q.tstate[t] = "deferred"
    BY <1>1, Zenon DEF Deferrals, ProcessManagers
  <2> QED  BY <1>1, <1>3, <2>1, Zenon DEF Deferrals
<1>8. KernelReady(r)
  BY <1>1, <1>3, KernelAssumption, Zenon DEF KernelReady
<1>9. AllAwakable(r)
  BY <1>1, <1>3, Zenon DEF AllAwakable, Awakable
<1> QED  BY <1>2, <1>3, <1>5, <1>6, <1>7, <1>8, <1>9, Zenon DEF Sound, Consistent

\* Harvesting a zombie process while the kernel runs.
LEMMA HarvestSound ==
  ASSUME NEW q, Sound(q), q.running = KernelThread,
         NEW p \in Proc, q.place[p] = "zombie"
  PROVE  Sound(HarvestZombie(q, p)) /\ HarvestZombie(q, p).running = q.running
<1>1. /\ CountingLaws /\ q \in ProcessManagers /\ q.owner \in [Thread -> Proc]
      /\ \A x \in Proc : Placed(q, x)
      /\ OneRunning(q) /\ Deferrals(q) /\ Counted(q) /\ KernelReady(q) /\ AllAwakable(q)
  BY Zenon DEF Sound, Consistent, ProcessManagers
<1>2. PICK Z : Z = In(q, p, "zombie")  BY Zenon
<1>3. /\ Z \in SUBSET Thread
      /\ \A t \in Z : q.tstate[t] = "zombie" /\ q.owner[t] = p
  BY <1>2, Zenon DEF In
<1>4. PICK m : m = Reap(q, Z)  BY Zenon
<1>5. Reaped(m, q, Z)
  BY <1>1, <1>3, <1>4, ReapFacts, Zenon
<1>6. PICK n : n = Put(m, p, "buried")  BY Zenon
<1>7. PutOn(n, m, p, "buried")
  <2>1. m \in ProcessManagers /\ "buried" \in Places  BY <1>5, Zenon DEF Reaped, Places
  <2> QED  BY <1>6, <2>1, PutFacts, Zenon
<1>8. PICK r : r = [n EXCEPT !.plive = n.plive - 1]  BY Zenon
<1>9. PICK L : L = LiveProcs(q)  BY Zenon
<1>10. /\ L \in SUBSET Proc /\ p \in L
       /\ Cardinality(L) \in Nat /\ Cardinality(L \ {p}) \in Nat
       /\ Cardinality(L \ {p}) = Cardinality(L) - 1
  <2>1. L \in SUBSET Proc /\ p \in L  BY <1>9, Zenon DEF LiveProcs
  <2>2. {p} \in SUBSET L /\ L \ {p} \in SUBSET Proc  BY <2>1, Zenon
  <2>3. Cardinality({p}) = 1  BY <1>1, CountingOne, Zenon
  <2>4. CountingLaws  BY <1>1, Zenon
  <2> QED  BY <2>1, <2>2, <2>3, <2>4, Zenon DEF CountingLaws
<1>11. n \in ProcessManagers /\ n.plive = Cardinality(L) /\ Cardinality(L) <= MaxProcesses
  BY <1>5, <1>7, <1>9, <1>1, Zenon DEF PutOn, SameThreads, Reaped, Counted, LiveProcs
<1>12. r \in ProcessManagers /\ r.plive = Cardinality(L \ {p})
  BY <1>8, <1>10, <1>11, Zenon DEF ProcessManagers
<1>13. \A g \in {"tstate", "owner", "deferred", "running", "place", "tlive"} : r[g] = n[g]
  BY <1>8, <1>11, Zenon DEF ProcessManagers
<1>14. /\ \A t \in Thread : r.tstate[t] = IF t \in Z THEN "reaped" ELSE q.tstate[t]
       /\ r.place[p] = "buried" /\ \A x \in Proc \ {p} : r.place[x] = q.place[x]
       /\ r.owner = q.owner /\ r.deferred = q.deferred /\ r.running = q.running
       /\ r.tlive = m.tlive /\ r.tstate = m.tstate
  BY <1>5, <1>7, <1>13, Zenon DEF PutOn, SameThreads, Reaped
<1>15. \A x \in Proc : Placed(r, x)
  <2>1. ASSUME NEW x \in Proc \ {p}  PROVE Placed(r, x)
    BY <1>1, <1>3, <1>14, PlacedFrame
  <2>2. Placed(r, p)
    <3>1. /\ In(r, p, "zombie") = {}
          /\ In(r, p, "ready") = In(q, p, "ready")
          /\ In(r, p, "sleeping") = In(q, p, "sleeping")
          /\ In(r, p, "interrupted") = In(q, p, "interrupted")
      BY <1>2, <1>3, <1>14 DEF In
    <3>2. Placed(q, p)  BY <1>1, Zenon
    <3> QED  BY <1>14, <3>1, <3>2, Zenon DEF Placed
  <2> QED  BY <2>1, <2>2, Zenon
<1>16. OneRunning(r)
  BY <1>1, <1>3, <1>14 DEF OneRunning
<1>17. Deferrals(r)
  <2>1. \A t \in q.deferred : /\ t \in Thread /\ q.tstate[t] = "deferred"
                              /\ q.owner[t] \in Proc \ {p} /\ t \notin Z
    BY <1>1, <1>3 DEF Deferrals, ProcessManagers
  <2> QED  BY <1>1, <1>14, <2>1 DEF Deferrals
<1>18. Counted(r)
  <2>1. LiveProcs(r) = L \ {p}
    BY <1>9, <1>14, Zenon DEF LiveProcs
  <2>2. LiveThreads(r) = LiveThreads(m)
    BY <1>14, Zenon DEF LiveThreads
  <2>3. Counted(m)  BY <1>5, Zenon DEF Reaped
  <2> QED  BY <1>10, <1>11, <1>12, <1>14, <2>1, <2>2, <2>3, BoundAssumption DEF Counted
<1>19. KernelReady(r)
  BY <1>1, <1>3, <1>14, KernelAssumption, Zenon DEF KernelReady
<1>20. AllAwakable(r)
  BY <1>1, <1>3, <1>14 DEF AllAwakable, Awakable
<1>21. r = HarvestZombie(q, p)
  BY <1>2, <1>4, <1>6, <1>8, <1>11, Zenon DEF HarvestZombie, ProcessManagers
<1> QED  BY <1>12, <1>14, <1>15, <1>16, <1>17, <1>18, <1>19, <1>20, <1>21, Zenon DEF Sound, Consistent

\* r is q with the new thread u, ready, in process p.
Born(r, q, u, p) ==
  /\ r \in ProcessManagers
  /\ \A t \in Thread : r.tstate[t] = IF t = u THEN "ready" ELSE q.tstate[t]
  /\ \A t \in Thread : r.owner[t] = IF t = u THEN p ELSE q.owner[t]
  /\ r.deferred = q.deferred /\ r.running = q.running
  /\ r.place = q.place /\ r.plive = q.plive
  /\ r.tlive = Cardinality(LiveThreads(r)) /\ r.tlive <= MaxThreads

\* create_thread() below the limit on threads.
LEMMA CreateThreadFacts ==
  ASSUME CountingLaws, NEW q \in ProcessManagers, Counted(q), NEW u \in Thread, NEW p \in Proc,
         q.tstate[u] = "none", q.tlive < MaxThreads
  PROVE  Born(CreateThread(q, u, p), q, u, p)
<1>1. PICK o : o = [q.owner EXCEPT ![u] = p]  BY Zenon
<1>2. PICK l : l = [q EXCEPT !.owner = o]  BY Zenon
<1>3. l \in ProcessManagers /\ l.owner = o
  BY <1>1, <1>2, Zenon DEF ProcessManagers
<1>4. \A g \in {"tstate", "deferred", "running", "place", "plive", "tlive"} : l[g] = q[g]
  BY <1>2, Zenon DEF ProcessManagers
<1>5. PICK m : m = Move(l, {u}, "ready")  BY Zenon
<1>6. Moved(m, l, {u}, "ready")
  <2>1. {u} \in SUBSET Thread /\ "ready" \in ThreadStates  BY Zenon DEF ThreadStates
  <2> QED  BY <1>3, <1>5, <2>1, MoveFacts, Zenon
<1>7. PICK c, r : c = m.tlive + 1 /\ r = [m EXCEPT !.tlive = c]  BY Zenon
<1>8. PICK L : L = LiveThreads(q)  BY Zenon
<1>9. /\ L \in SUBSET Thread /\ u \notin L /\ Cardinality(L) \in Nat
      /\ Cardinality(L \union {u}) = Cardinality(L) + 1
  <2>1. L \in SUBSET Thread /\ u \notin L  BY <1>8, Zenon DEF LiveThreads
  <2> QED  BY <2>1, Zenon DEF CountingLaws
<1>10. m \in ProcessManagers /\ m.tlive = Cardinality(L) /\ Cardinality(L) < MaxThreads
  BY <1>4, <1>6, <1>8, Zenon DEF Moved, SameThreads, Counted
<1>11. r \in ProcessManagers /\ r.tlive = Cardinality(L) + 1
  <2>1. c = Cardinality(L) + 1 /\ c \in Nat  BY <1>7, <1>9, <1>10
  <2>2. r \in ProcessManagers /\ r.tlive = c  BY <1>7, <1>10, <2>1, Zenon DEF ProcessManagers
  <2> QED  BY <2>1, <2>2, Zenon
<1>12. \A g \in {"tstate", "owner", "deferred", "running", "place", "plive"} : r[g] = m[g]
  BY <1>7, <1>10, Zenon DEF ProcessManagers
<1>13. /\ \A t \in Thread : r.tstate[t] = IF t = u THEN "ready" ELSE q.tstate[t]
       /\ r.owner = o /\ r.deferred = q.deferred /\ r.running = q.running
       /\ r.place = q.place /\ r.plive = q.plive
  BY <1>3, <1>4, <1>6, <1>12, Zenon DEF Moved, SameThreads
<1>14. \A t \in Thread : o[t] = IF t = u THEN p ELSE q.owner[t]
  BY <1>1, Zenon DEF ProcessManagers
<1>15. LiveThreads(r) = L \union {u}
  BY <1>8, <1>13, Zenon DEF LiveThreads
<1>16. r = CreateThread(q, u, p)
  <2>1. l = [q EXCEPT !.owner[u] = p]  BY <1>1, <1>2, Zenon DEF ProcessManagers
  <2> QED  BY <1>5, <1>7, <1>10, <2>1, Zenon DEF CreateThread, ProcessManagers
<1>17. r.tlive = Cardinality(LiveThreads(r)) /\ r.tlive <= MaxThreads
  BY <1>9, <1>10, <1>11, <1>15, BoundAssumption
<1>18. Born(r, q, u, p)
  BY <1>11, <1>13, <1>14, <1>17, Zenon DEF Born
<1> QED  BY <1>16, <1>18, Zenon

\* The running process gets another thread.
LEMMA CreateThreadSound ==
  ASSUME NEW q, Sound(q), q.running \in Thread \ {KernelThread}, NEW u \in Thread,
         q.tstate[u] = "none", q.tlive < MaxThreads
  PROVE  LET r == CreateThread(q, u, Running(q))
         IN  Sound(r) /\ r.running = q.running
<1>1. PICK p : p = Running(q)  BY Zenon
<1>2. /\ CountingLaws /\ q \in ProcessManagers /\ q.owner \in [Thread -> Proc]
      /\ p \in Proc \ {Kernel} /\ q.owner[q.running] = p /\ q.running \in Thread
      /\ \A x \in Proc : Placed(q, x)
      /\ OneRunning(q) /\ Deferrals(q) /\ Counted(q) /\ KernelReady(q) /\ AllAwakable(q)
  BY <1>1, UserProcess, Zenon DEF Sound, Consistent, ProcessManagers, Running
<1>3. PICK r : r = CreateThread(q, u, p)  BY Zenon
<1>4. Born(r, q, u, p)  BY <1>2, <1>3, CreateThreadFacts, Zenon
<1>5. q.running # u /\ q.place[p] = "running"
  BY <1>2, Zenon DEF OneRunning, Placed
<1>6. /\ \A t \in Thread : r.tstate[t] = IF t = u THEN "ready" ELSE q.tstate[t]
      /\ \A t \in Thread : r.owner[t] = IF t = u THEN p ELSE q.owner[t]
      /\ r.running = q.running /\ r.place = q.place
  BY <1>4, Zenon DEF Born
<1>7. \A x \in Proc : Placed(r, x)
  <2>1. ASSUME NEW x \in Proc \ {p}  PROVE Placed(r, x)
    <3>1. ASSUME NEW s \in {"ready", "interrupted", "sleeping", "zombie"}
          PROVE  In(r, x, s) = In(q, x, s)
      BY <1>6, <3>1, Zenon DEF In
    <3>2. Placed(q, x) /\ r.place[x] = q.place[x]  BY <1>2, <1>6, Zenon
    <3>3. (\E t \in Thread : t = r.running /\ r.owner[t] = x)
            <=> \E t \in Thread : t = q.running /\ q.owner[t] = x
      BY <1>6, <1>5, Zenon
    <3> QED  BY <3>1, <3>2, <3>3, PlacedSame, Zenon
  <2>2. Placed(r, p)
    <3>1. r.place[p] = "running" /\ r.running \in Thread /\ r.owner[r.running] = p
      BY <1>2, <1>6, <1>5, Zenon
    <3> QED  BY <1>2, <3>1, PlacedRunning, Zenon
  <2> QED  BY <2>1, <2>2, Zenon
<1>8. OneRunning(r)
  BY <1>2, <1>6, <1>5 DEF OneRunning
<1>9. Deferrals(r)
  <2>1. \A t \in q.deferred : t \in Thread /\ q.tstate[t] = "deferred" /\ t # u
    BY <1>2, Zenon DEF Deferrals, ProcessManagers
  <2> QED  BY <1>2, <1>4, <1>6, <2>1 DEF Deferrals, Born
<1>10. Counted(r)
  BY <1>2, <1>4, Zenon DEF Counted, LiveProcs, Born
<1>11. KernelReady(r)
  BY <1>2, <1>6, KernelAssumption, Zenon DEF KernelReady
<1>12. AllAwakable(r)
  BY <1>2, <1>6, Zenon DEF AllAwakable, Awakable
<1> QED  BY <1>1, <1>3, <1>4, <1>7, <1>8, <1>9, <1>10, <1>11, <1>12, Zenon DEF Sound, Consistent, Born

\* A new process is ready, with one ready thread.
LEMMA CreateProcessSound ==
  ASSUME NEW q, Sound(q), NEW u \in Thread, NEW p \in Proc,
         q.tstate[u] = "none", q.place[p] = "none",
         q.tlive < MaxThreads, q.plive < MaxProcesses
  PROVE  Sound(CreateProcess(q, p, u)) /\ CreateProcess(q, p, u).running = q.running
<1>1. /\ CountingLaws /\ q \in ProcessManagers /\ q.owner \in [Thread -> Proc]
      /\ \A x \in Proc : Placed(q, x)
      /\ OneRunning(q) /\ Deferrals(q) /\ Counted(q) /\ KernelReady(q) /\ AllAwakable(q)
  BY Zenon DEF Sound, Consistent, ProcessManagers
<1>2. PICK m : m = CreateThread(q, u, p)  BY Zenon
<1>3. Born(m, q, u, p)  BY <1>1, <1>2, CreateThreadFacts, Zenon
<1>4. PICK n : n = Put(m, p, "ready")  BY Zenon
<1>5. PutOn(n, m, p, "ready")
  <2>1. m \in ProcessManagers /\ "ready" \in Places  BY <1>3, Zenon DEF Born, Places
  <2> QED  BY <1>4, <2>1, PutFacts, Zenon
<1>6. PICK r : r = [n EXCEPT !.plive = n.plive + 1]  BY Zenon
<1>7. PICK L : L = LiveProcs(q)  BY Zenon
<1>8. /\ p \notin L /\ Cardinality(L) \in Nat
      /\ Cardinality(L \union {p}) = Cardinality(L) + 1
  <2>1. L \in SUBSET Proc /\ p \notin L  BY <1>7, Zenon DEF LiveProcs
  <2>2. CountingLaws  BY <1>1, Zenon
  <2> QED  BY <2>1, <2>2, Zenon DEF CountingLaws
<1>9. n \in ProcessManagers /\ n.plive = Cardinality(L) /\ Cardinality(L) < MaxProcesses
  BY <1>1, <1>3, <1>5, <1>7, Zenon DEF PutOn, Born, SameThreads, Counted
<1>10. r \in ProcessManagers /\ r.plive = Cardinality(L) + 1
  BY <1>6, <1>8, <1>9 DEF ProcessManagers
<1>11. \A g \in {"tstate", "owner", "deferred", "running", "place", "tlive"} : r[g] = n[g]
  BY <1>6, <1>9, Zenon DEF ProcessManagers
<1>12. /\ \A t \in Thread : r.tstate[t] = IF t = u THEN "ready" ELSE q.tstate[t]
       /\ \A t \in Thread : r.owner[t] = IF t = u THEN p ELSE q.owner[t]
       /\ r.place[p] = "ready" /\ \A x \in Proc \ {p} : r.place[x] = q.place[x]
       /\ r.deferred = q.deferred /\ r.running = q.running
       /\ r.tstate = m.tstate /\ r.tlive = m.tlive
  BY <1>3, <1>5, <1>11 DEF PutOn, SameThreads, Born
<1>13. u # q.running /\ p # Kernel /\ u # KernelThread
  <2>1. q.place[Kernel] \in {"ready", "running"}
    <3>1. KernelThread \in In(q, Kernel, "ready") \/ KernelThread = q.running
      BY <1>1, KernelAssumption, Zenon DEF KernelReady, In, OneRunning
    <3> QED  BY <1>1, <3>1, KernelAssumption, Zenon DEF Placed, KernelReady
  <2> QED  BY <1>1, <2>1, KernelAssumption, Zenon DEF OneRunning, KernelReady
<1>14. \A x \in Proc : Placed(r, x)
  <2>1. ASSUME NEW x \in Proc \ {p}  PROVE Placed(r, x)
    <3>1. ASSUME NEW s \in {"ready", "interrupted", "sleeping", "zombie"}
          PROVE  In(r, x, s) = In(q, x, s)
      BY <1>12, <3>1, Zenon DEF In
    <3>2. Placed(q, x) /\ r.place[x] = q.place[x]  BY <1>1, <1>12, Zenon
    <3>3. (\E t \in Thread : t = r.running /\ r.owner[t] = x)
            <=> \E t \in Thread : t = q.running /\ q.owner[t] = x
      BY <1>12, <1>13, Zenon
    <3> QED  BY <3>1, <3>2, <3>3, PlacedSame, Zenon
  <2>2. Placed(r, p)
    <3>1. u \in In(r, p, "ready")  BY <1>12, Zenon DEF In
    <3>2. \A t \in Thread : t = q.running => q.owner[t] # p
      <4>1. Placed(q, p)  BY <1>1, Zenon
      <4> QED  BY <4>1, Zenon DEF Placed
    <3>3. \A t \in Thread : t = r.running => r.owner[t] # p
      BY <1>12, <1>13, <3>2, Zenon
    <3>4. r.place[p] = "ready"  BY <1>12, Zenon
    <3> QED  BY <3>1, <3>3, <3>4, PlacedReady, Zenon
  <2> QED  BY <2>1, <2>2, Zenon
<1>15. OneRunning(r)
  <2>1. \A t \in Thread : q.tstate[t] = "running" <=> t = q.running
    BY <1>1, Zenon DEF OneRunning
  <2> QED  BY <1>12, <1>13, <2>1 DEF OneRunning
<1>16. Deferrals(r)
  <2>1. \A t \in q.deferred : /\ t \in Thread /\ q.tstate[t] = "deferred" /\ t # u
                              /\ q.owner[t] \in Proc \ {p}
    BY <1>1 DEF Deferrals, ProcessManagers
  <2> QED  BY <1>1, <1>12, <2>1 DEF Deferrals
<1>17. Counted(r)
  <2>1. LiveProcs(r) = L \union {p}
    BY <1>7, <1>12, Zenon DEF LiveProcs
  <2>2. r.tlive = Cardinality(LiveThreads(r)) /\ r.tlive <= MaxThreads
    BY <1>3, <1>12, Zenon DEF Born, LiveThreads
  <2> QED  BY <1>8, <1>9, <1>10, <2>1, <2>2, BoundAssumption DEF Counted
<1>18. KernelReady(r)
  BY <1>1, <1>12, <1>13, KernelAssumption, Zenon DEF KernelReady
<1>19. AllAwakable(r)
  BY <1>1, <1>12 DEF AllAwakable, Awakable
<1>20. r = CreateProcess(q, p, u)
  BY <1>2, <1>4, <1>6, <1>9, Zenon DEF CreateProcess, ProcessManagers
<1> QED  BY <1>10, <1>12, <1>14, <1>15, <1>16, <1>17, <1>18, <1>19, <1>20, Zenon DEF Sound, Consistent

\* The state the kernel boots in.
LEMMA NewSound ==
  ASSUME CountingLaws
  PROVE  Sound(New) /\ New.running \in Thread
<1>1. PICK n : n = New  BY Zenon
<1>2. n \in ProcessManagers
  BY <1>1, KernelAssumption, Zenon DEF New, ProcessManagers, Places, ThreadStates, Reasons, Alarms, Statuses
<1>3. n.running = KernelThread /\ n.deferred = {} /\ n.tlive = 1 /\ n.plive = 1
  BY <1>1, Zenon DEF New
<1>4. n.place = [p \in Proc |-> IF p = Kernel THEN "running" ELSE "none"]
  BY <1>1, Zenon DEF New
<1>5. n.tstate = [t \in Thread |-> IF t = KernelThread THEN "running" ELSE "none"]
  BY <1>1, Zenon DEF New
<1>6. n.owner = [t \in Thread |-> Kernel]
  BY <1>1, Zenon DEF New
<1>7. /\ \A p \in Proc : n.place[p] = IF p = Kernel THEN "running" ELSE "none"
      /\ \A t \in Thread : n.tstate[t] = IF t = KernelThread THEN "running" ELSE "none"
      /\ \A t \in Thread : n.owner[t] = Kernel
  BY <1>4, <1>5, <1>6, Zenon
<1>8. LiveThreads(n) = {KernelThread} /\ LiveProcs(n) = {Kernel}
  BY <1>7, KernelAssumption, Zenon DEF LiveThreads, LiveProcs
<1>9. Counted(n)
  <2>1. Cardinality({KernelThread}) = 1 /\ Cardinality({Kernel}) = 1  BY CountingOne, KernelAssumption, Zenon
  <2> QED  BY <1>3, <1>8, <2>1, BoundAssumption DEF Counted
<1>10. \A p \in Proc : Placed(n, p)
  BY <1>3, <1>7, KernelAssumption DEF Placed, In
<1>11. OneRunning(n) /\ Deferrals(n)
  BY <1>3, <1>7, Zenon DEF OneRunning, Deferrals
<1>12. KernelReady(n) /\ AllAwakable(n)
  BY <1>7, KernelAssumption, Zenon DEF KernelReady, AllAwakable
<1> QED  BY <1>1, <1>2, <1>3, <1>9, <1>10, <1>11, <1>12, KernelAssumption, Zenon DEF Sound, Consistent

=============================================================================
