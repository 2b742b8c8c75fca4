----------------------------- MODULE Scheduler -----------------------------
(***************************************************************************)
(* The kernel calls that create, schedule, join and terminate threads and  *)
(* processes, the timer, and the kernel's own loop, over the process       *)
(* manager.  A step is what the CPU does between two switches: a kernel    *)
(* call of the running thread up to where it returns or blocks, the rest   *)
(* of a kernel call of a thread that was switched back in, a timer tick,   *)
(* or one iteration of the kernel's loop.                                  *)
(*                                                                         *)
(*   pm       the process manager                                          *)
(*   pc       where each thread continues when it is switched in: in user  *)
(*            mode, or inside the kernel call it blocked in                *)
(*   joining  the thread a thread in pc "join" waits for                   *)
(*   joiners  the queue of each thread's join condition variable           *)
(*   phase    boot, up, down (the init daemon was harvested), or lost      *)
(*            (the CPU still executes a thread that the process manager    *)
(*            switched away from; the model stops there)                   *)
(*   doomed   the processes that called exit() or were terminated          *)
(***************************************************************************)
EXTENDS ProcessManager

CONSTANTS Initd,    \* ProcessIdentifier::INITD
          Calls     \* the kernel calls that the programs make

ASSUME InitdAssumption == Initd \in Proc \ {Kernel}
ASSUME CallsAssumption ==
  Calls \subseteq {"create", "duplicate", "sleep", "exit", "exit_thread",
                   "terminate", "join", "detach"}

VARIABLES pm, pc, joining, joiners, phase, doomed

vars == <<pm, pc, joining, joiners, phase, doomed>>

TypeOK ==
  /\ pm \in ProcessManagers
  /\ pc \in [Thread -> {"user", "sleep", "join"}]
  /\ joining \in [Thread -> Thread \union {NoThread}]
  /\ joiners \in [Thread -> SUBSET Thread]
  /\ phase \in {"boot", "up", "down", "lost"}
  /\ doomed \in SUBSET Proc

Init ==
  /\ pm = New
  /\ pc = [t \in Thread |-> "user"]
  /\ joining = [t \in Thread |-> NoThread]
  /\ joiners = [t \in Thread |-> {}]
  /\ phase = "boot"
  /\ doomed = {}

\* Thread t runs in user mode, so it may enter the kernel.
InUser(t) ==
  phase = "up" /\ pm.running = t /\ t # KernelThread /\ pc[t] = "user"

\* Thread t was switched in inside the kernel call it blocked in.
Resuming(t) ==
  phase = "up" /\ pm.running = t /\ pc[t] # "user"

KernelRunning == pm.running = KernelThread

(***************************************************************************)
(* Creation.                                                               *)
(***************************************************************************)

\* kmain spawns the servers before the kernel enters its loop; the first one
\* is the init daemon.
Spawn(p, t) ==
  /\ phase = "boot"
  /\ p = Initd \/ pm.place[Initd] # "none"
  /\ pm.place[p] = "none" /\ pm.tstate[t] = "none"
  /\ pm.plive < MaxProcesses /\ pm.tlive < MaxThreads
  /\ pm' = CreateProcess(pm, p, t)
  /\ UNCHANGED <<pc, joining, joiners, phase, doomed>>

Boot ==
  /\ phase = "boot"
  /\ pm.place[Initd] # "none"
  /\ phase' = "up"
  /\ UNCHANGED <<pm, pc, joining, joiners, doomed>>

Create(t, u) ==
  /\ "create" \in Calls /\ InUser(t)
  /\ pm.tstate[u] = "none"
  /\ pm.tlive < MaxThreads
  /\ pm' = CreateThread(pm, u, Running(pm))
  /\ UNCHANGED <<pc, joining, joiners, phase, doomed>>

Duplicate(t, p, u) ==
  /\ "duplicate" \in Calls /\ InUser(t)
  /\ pm.place[p] = "none" /\ pm.tstate[u] = "none"
  /\ pm.plive < MaxProcesses /\ pm.tlive < MaxThreads
  /\ pm' = CreateProcess(pm, p, u)
  /\ UNCHANGED <<pc, joining, joiners, phase, doomed>>

(***************************************************************************)
(* Giving up the CPU.                                                      *)
(***************************************************************************)

\* The timer interrupted user mode with no quantum left, or the thread called
\* yield(): it continues in user mode when it runs again.
GiveUp(t) ==
  /\ InUser(t)
  /\ pm' \in Schedule(ReapDeferred(pm))
  /\ UNCHANGED <<pc, joining, joiners, phase, doomed>>

SleepCall(t) ==
  /\ "sleep" \in Calls /\ InUser(t)
  /\ pm' \in DoSleep(ReapDeferred(pm), "set")
  /\ pc' = [pc EXCEPT ![t] = "sleep"]
  /\ UNCHANGED <<joining, joiners, phase, doomed>>

\* Time passes: the alarm of a sleeping thread falls due.
AlarmDue(t) ==
  /\ phase = "up"
  /\ pm.alarm[t] = "set"
  /\ pm' = [pm EXCEPT !.alarm[t] = "due"]
  /\ UNCHANGED <<pc, joining, joiners, phase, doomed>>

(***************************************************************************)
(* Leaving.                                                                *)
(***************************************************************************)

\* ProcessManager::exit() on thread t, from whatever state q of the process
\* manager the kernel call has reached.
Exit(t, q, s) ==
  /\ pm' \in DoExit(ReapDeferred(q), s)
  /\ doomed' = doomed \union {pm.owner[t]}

ExitCall(t, s) ==
  /\ "exit" \in Calls /\ InUser(t)
  /\ Exit(t, pm, s)
  /\ UNCHANGED <<pc, joining, joiners, phase>>

ExitThreadCall_Bug(t, s) == \* a detached thread does not notify its joiners
  /\ "exit_thread" \in Calls /\ InUser(t)
  /\ \E q \in DoExitThread(ReapDeferred(pm), s) :
       pm' = IF t \in pm.detached THEN q ELSE Wakeup(q, joiners[t])
  /\ joiners' = [joiners EXCEPT ![t] = {}]
  /\ UNCHANGED <<pc, joining, phase, doomed>>

\* exit_thread(): the manager switches to the next thread, then the joiners
\* are notified.  When there are joiners and none of them could be woken, the
\* error is returned to the caller before the CPU is switched.
ExitThreadCall(t, s) ==
  /\ "exit_thread" \in Calls /\ InUser(t)
  /\ \E q \in DoExitThread(ReapDeferred(pm), s) :
       /\ pm' = Wakeup(q, joiners[t])
       /\ phase' = IF joiners[t] # {} /\ \A u \in joiners[t] : ~Awakable(q, u)
                   THEN "lost" ELSE "up"
  /\ joiners' = [joiners EXCEPT ![t] = {}]
  /\ UNCHANGED <<pc, joining, doomed>>

TerminateCall(t, p) ==
  /\ "terminate" \in Calls /\ InUser(t)
  /\ Terminable(pm, p)
  /\ pm' \in Terminate(pm, p)
  /\ doomed' = doomed \union {p}
  /\ UNCHANGED <<pc, joining, joiners, phase>>

(***************************************************************************)
(* Joining and detaching.                                                  *)
(***************************************************************************)

Joinable(q, u) ==
  /\ q.owner[u] = Running(q)
  /\ u # q.running /\ u \notin q.detached
  /\ q.tstate[u] \in {"zombie", "ready", "sleeping", "interrupted"}

\* One round of the loop of join_thread(): take the zombie, or wait for it.
\* Every other case is an error that the caller gets back.
TryJoin(t, q, u) ==
  \/ /\ Joinable(q, u) /\ q.tstate[u] = "zombie"
     /\ pm' = Reap(q, {u})
     /\ pc' = [pc EXCEPT ![t] = "user"]
     /\ joining' = [joining EXCEPT ![t] = NoThread]
     /\ UNCHANGED joiners
  \/ /\ Joinable(q, u) /\ q.tstate[u] # "zombie"
     /\ pm' \in DoSleep(ReapDeferred(q), "none")
     /\ pc' = [pc EXCEPT ![t] = "join"]
     /\ joining' = [joining EXCEPT ![t] = u]
     /\ joiners' = [joiners EXCEPT ![u] = @ \union {t}]
  \/ /\ ~Joinable(q, u)
     /\ pm' = q
     /\ pc' = [pc EXCEPT ![t] = "user"]
     /\ joining' = [joining EXCEPT ![t] = NoThread]
     /\ UNCHANGED joiners

JoinCall(t, u) ==
  /\ "join" \in Calls /\ InUser(t)
  /\ TryJoin(t, ReapDeferred(pm), u)
  /\ UNCHANGED <<phase, doomed>>

DetachCall(t, u) ==
  /\ "detach" \in Calls /\ InUser(t)
  /\ LET q == ReapDeferred(pm) IN
     /\ q.owner[u] = Running(q) /\ u \notin q.detached
     /\ \/ /\ q.tstate[u] = "zombie"
           /\ pm' = Reap(q, {u})
        \/ /\ q.tstate[u] \in {"running", "ready", "sleeping", "interrupted"}
           /\ pm' = [q EXCEPT !.detached = @ \union {u}]
  /\ UNCHANGED <<pc, joining, joiners, phase, doomed>>

(***************************************************************************)
(* The rest of a blocked kernel call, after the switch back.               *)
(***************************************************************************)

Taken_Bug == pm \* the reason is read, not taken

\* sleep() takes the interrupt reason of the process manager.
Taken == [pm EXCEPT !.intr = "none"]

\* An alarm that went off is the success of the sleep() kernel call.
SleepReturns(t) ==
  /\ Resuming(t) /\ pc[t] = "sleep" /\ pm.intr # "killed"
  /\ pm' = Taken
  /\ pc' = [pc EXCEPT ![t] = "user"]
  /\ UNCHANGED <<joining, joiners, phase, doomed>>

JoinReturns(t) ==
  /\ Resuming(t) /\ pc[t] = "join" /\ pm.intr = "none"
  /\ TryJoin(t, Taken, joining[t])
  /\ UNCHANGED <<phase, doomed>>

\* handle_sleep_error(): a killed thread leaves the queue it waited in and
\* exits its process.
Killed(t) ==
  /\ Resuming(t) /\ pm.intr = "killed"
  /\ Exit(t, Taken, "interrupted")
  /\ joiners' = [u \in Thread |-> IF u = joining[t] THEN joiners[u] \ {t}
                                                    ELSE joiners[u]]
  /\ pc' = [pc EXCEPT ![t] = "user"]
  /\ joining' = [joining EXCEPT ![t] = NoThread]
  /\ UNCHANGED phase

Continue(t) == SleepReturns(t) \/ JoinReturns(t) \/ Killed(t)

(***************************************************************************)
(* The kernel's loop.                                                      *)
(***************************************************************************)

\* One zombie is harvested per iteration.  The kernel then goes on, or gives
\* up the CPU when no process takes the termination event.
Harvest(p) ==
  /\ phase = "up" /\ KernelRunning
  /\ pm.place[p] = "zombie"
  /\ LET q == HarvestZombie(pm, p) IN
     IF p = Initd THEN pm' = q /\ phase' = "down"
     ELSE /\ pm' = q \/ pm' \in Schedule(ReapDeferred(q))
          /\ UNCHANGED phase
  /\ UNCHANGED <<pc, joining, joiners, doomed>>

\* The remaining zombies are harvested after the loop.
Shutdown(p) ==
  /\ phase = "down"
  /\ pm.place[p] = "zombie"
  /\ pm' = HarvestZombie(pm, p)
  /\ UNCHANGED <<pc, joining, joiners, phase, doomed>>

Idle ==
  /\ phase = "up" /\ KernelRunning
  /\ \A p \in Proc : pm.place[p] # "zombie"
  /\ pm' \in Schedule(ReapDeferred(pm))
  /\ UNCHANGED <<pc, joining, joiners, phase, doomed>>

KernelStep == Idle \/ \E p \in Proc : Harvest(p) \/ Shutdown(p)

(***************************************************************************)
(* The specification.                                                      *)
(***************************************************************************)

KernelCall(t) ==
  \/ SleepCall(t)
  \/ ExitCall(t, "ok") \/ ExitThreadCall(t, "ok")
  \/ \E u \in Thread : Create(t, u) \/ JoinCall(t, u) \/ DetachCall(t, u)
  \/ \E p \in Proc : TerminateCall(t, p) \/ \E u \in Thread : Duplicate(t, p, u)

Next ==
  \/ Boot
  \/ \E p \in Proc, t \in Thread : Spawn(p, t)
  \/ \E t \in Thread : GiveUp(t) \/ KernelCall(t) \/ Continue(t) \/ AlarmDue(t)
  \/ KernelStep

Spec == Init /\ [][Next]_vars

\* What the CPU does of itself: a resumed thread and the kernel's loop run on,
\* and the timer preempts a thread that stays in user mode.
CpuStep == Boot \/ KernelStep \/ \E t \in Thread : GiveUp(t) \/ Continue(t)

\* Such a step would change nothing: the machine stopped, or the kernel is
\* idle and schedules itself again.
Quiescent ==
  \/ phase = "lost"
  \/ phase = "boot" /\ pm.place[Initd] = "none"
  \/ /\ phase \in {"up", "down"} /\ KernelRunning
     /\ \A p \in Proc : pm.place[p] # "zombie"
     /\ phase = "up" => Schedule(ReapDeferred(pm)) = {pm}

\* The CPU does not stop: WF_vars(CpuStep) with its enabling condition written
\* out.
Fairness == []<>Quiescent \/ []<><<CpuStep>>_vars

FairSpec == Spec /\ Fairness

(***************************************************************************)
(* Properties.                                                             *)
(***************************************************************************)

\* take_earliest_ready() never finds the ready list empty, because the kernel
\* thread is on the CPU or in it: no kernel call can block or terminate it.
KernelAlwaysRunnable == KernelReady(pm)

\* Every process is in the list that matches its threads, the thread on the
\* CPU is the only one in state running, and there always is another one to
\* dispatch.
ProcessPlacement ==
  /\ TypeOK
  /\ KernelAlwaysRunnable
  /\ \A p \in Proc : Placed(pm, p)
  /\ OneRunning(pm)
  /\ pm.running \in Thread

\* wakeup() does not search the interrupted list: no thread may sleep there,
\* or the notification it waits for would fail.
SleepersCanBeWoken == AllAwakable(pm)

\* A detached thread whose reaping was deferred is reaped before the kernel
\* may harvest its process; otherwise its slot in the thread count would leak.
DeferredBeforeHarvest == Deferrals(pm)

\* The counters that bound the creation of threads and processes count the
\* threads not yet reaped and the processes not yet harvested, and no deferred
\* reaping comes too late for them.
LiveCounts == Counted(pm) /\ DeferredBeforeHarvest

\* An interrupt reason reaches the blocked call it was meant for: it is never
\* left for a thread that continues in user mode.
ReasonReachesSleeper == pm.intr # "none" => pc[pm.running] # "user"

\* No thread sleeps in join for a thread that has already exited.
JoinersNotStranded ==
  \A t \in Thread :
    pm.tstate[t] = "sleeping" /\ pc[t] = "join" =>
      /\ t \in joiners[joining[t]]
      /\ pm.tstate[joining[t]] \in {"running", "ready", "sleeping", "interrupted"}

\* The status of the first exit() of a process is the status it is harvested
\* with, whatever its other threads do while they are torn down.
FirstExitStatusKept ==
  [][\A p \in Proc :
       pm.pending[p] # "none" =>
         \/ pm'.pending[p] = pm.pending[p]
         \/ pm'.place[p] = "zombie" /\ pm'.status[p] = pm.pending[p]]_vars

\* No thread of a process that exited or was terminated runs in user mode, and
\* the CPU executes the thread the process manager takes for running.
NoUserModeAfterExit ==
  /\ phase # "lost"
  /\ \A t \in Thread : InUser(t) => pm.owner[t] \notin doomed

\* A ready thread is eventually dispatched (or killed).
ReadyThreadsRun ==
  \A t \in Thread : pm.tstate[t] = "ready" /\ phase = "up"
                       ~> pm.tstate[t] # "ready" \/ phase = "down"

\* A process that exited or was terminated is eventually harvested.
DoomedHarvested ==
  \A p \in Proc : p \in doomed ~> pm.place[p] = "buried" \/ phase = "down"
=============================================================================
