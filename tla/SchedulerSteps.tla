--------------------------- MODULE SchedulerSteps ---------------------------
(***************************************************************************)
(* Every step of Scheduler preserves its inductive invariants, for any     *)
(* number of processes and threads: IInv, the soundness of the process     *)
(* manager between two steps; WInv, what a blocked or a resumed thread     *)
(* relies on; TInv, what is left of a terminated process.  Each action is  *)
(* a composition of operations whose preservation is shown in              *)
(* ProcessManagerLemmas and whose effects are shown in                     *)
(* ProcessManagerEffects.                                                  *)
(***************************************************************************)
EXTENDS Scheduler, ProcessManagerLemmas

IInv ==
  /\ TypeOK
  /\ Sound(pm) /\ pm.running \in Thread
  /\ pc[KernelThread] = "user"
  /\ \A t \in Thread : pc[t] = "join" => joining[t] \in Thread
  /\ phase = "down" => pm.running = KernelThread

\* Fields that no list depends on may change.
LEMMA Cosmetic ==
  ASSUME NEW q, Sound(q), NEW r \in ProcessManagers, SameThreads(r, q),
         r.running = q.running, r.tstate = q.tstate, r.place = q.place
  PROVE  Sound(r)
<1> USE DEF SameThreads
<1>1. \A x \in Proc : Placed(r, x)
  BY PlacedFrame DEF Sound, Consistent
<1>2. Counted(r)
  BY SameCounts, Zenon DEF Sound, Consistent
<1> QED  BY <1>1, <1>2
         DEF Sound, Consistent, OneRunning, Deferrals, KernelReady, AllAwakable, Awakable

\* Setting an alarm to due, taking the reason, and detaching a thread.
LEMMA CosmeticSteps ==
  ASSUME NEW q, Sound(q)
  PROVE  /\ \A t \in Thread : LET r == [q EXCEPT !.alarm[t] = "due"]
                              IN  Sound(r) /\ r.running = q.running
         /\ LET r == [q EXCEPT !.intr = "none"]
            IN  Sound(r) /\ r.running = q.running /\ r.owner = q.owner
         /\ \A t \in Thread : LET r == [q EXCEPT !.detached = @ \union {t}]
                              IN  Sound(r) /\ r.running = q.running
<1>1. q \in ProcessManagers  BY Zenon DEF Sound, Consistent
<1>2. ASSUME NEW r, \A g \in {"tstate", "owner", "deferred", "running", "place", "tlive", "plive"} :
               r[g] = q[g], r \in ProcessManagers
      PROVE  Sound(r) /\ r.running = q.running /\ r.owner = q.owner
  BY <1>2, Cosmetic, Zenon DEF SameThreads
<1>3. ASSUME NEW t \in Thread, NEW r, r = [q EXCEPT !.alarm[t] = "due"]
      PROVE  Sound(r) /\ r.running = q.running
  <2>1. PICK f : f = [q.alarm EXCEPT ![t] = "due"]  BY Zenon
  <2>2. f \in [Thread -> Alarms]  BY <1>1, <2>1, Zenon DEF ProcessManagers, Alarms
  <2>3. r = [q EXCEPT !.alarm = f]  BY <1>1, <1>3, <2>1, Zenon DEF ProcessManagers
  <2>4. r \in ProcessManagers  BY <1>1, <2>2, <2>3, Zenon DEF ProcessManagers
  <2>5. \A g \in {"tstate", "owner", "deferred", "running", "place", "tlive", "plive"} : r[g] = q[g]
    BY <1>1, <2>3, Zenon DEF ProcessManagers
  <2> QED  BY <1>2, <2>4, <2>5, Zenon
<1>4. ASSUME NEW r, r = [q EXCEPT !.intr = "none"]
      PROVE  Sound(r) /\ r.running = q.running /\ r.owner = q.owner
  <2>1. r \in ProcessManagers  BY <1>1, <1>4, Zenon DEF ProcessManagers, Reasons
  <2>2. \A g \in {"tstate", "owner", "deferred", "running", "place", "tlive", "plive"} : r[g] = q[g]
    BY <1>1, <1>4, Zenon DEF ProcessManagers
  <2> QED  BY <1>2, <2>1, <2>2, Zenon
<1>5. ASSUME NEW t \in Thread, NEW r, r = [q EXCEPT !.detached = @ \union {t}]
      PROVE  Sound(r) /\ r.running = q.running
  <2>1. r \in ProcessManagers  BY <1>1, <1>5, Zenon DEF ProcessManagers
  <2>2. \A g \in {"tstate", "owner", "deferred", "running", "place", "tlive", "plive"} : r[g] = q[g]
    BY <1>1, <1>5, Zenon DEF ProcessManagers
  <2> QED  BY <1>2, <2>1, <2>2, Zenon
<1> QED  BY <1>3, <1>4, <1>5, Zenon

\* Every kernel call that may switch starts by reaping the deferred threads.
LEMMA ReapedFirst ==
  ASSUME NEW q, Sound(q), q.running \in Thread
  PROVE  Switchable(ReapDeferred(q)) /\ ReapDeferred(q).running = q.running
BY ReapDeferredSound, Zenon DEF Switchable

\* exit() from a sound state.
LEMMA ExitSound ==
  ASSUME NEW q, Sound(q), q.running \in Thread \ {KernelThread}, NEW s \in Statuses,
         NEW t \in Thread, Exit(t, q, s)
  PROVE  Sound(pm') /\ pm'.running \in Thread
<1>1. PICK d : d = ReapDeferred(q)  BY Zenon
<1>2. Switchable(d) /\ d.running # KernelThread  BY <1>1, ReapedFirst, Zenon
<1>3. pm' \in DoExit(d, s)  BY <1>1, Zenon DEF Exit
<1> QED  BY <1>2, <1>3, DoExitSound, Zenon

\* One round of join_thread() from a sound state.
LEMMA TryJoinSound ==
  ASSUME NEW q, Sound(q), NEW t \in Thread \ {KernelThread}, q.running = t,
         NEW u \in Thread, TryJoin(t, q, u)
  PROVE  Sound(pm') /\ pm'.running \in Thread
<1>1. CASE Joinable(q, u) /\ q.tstate[u] = "zombie" /\ pm' = Reap(q, {u})
  BY <1>1, ReapSound, Zenon DEF Joinable
<1>2. CASE pm' \in DoSleep(ReapDeferred(q), "none")
  <2>1. PICK d : d = ReapDeferred(q)  BY Zenon
  <2>2. Switchable(d) /\ d.running # KernelThread  BY <2>1, ReapedFirst, Zenon
  <2>3. "none" \in Alarms  BY Zenon DEF Alarms
  <2> QED  BY <1>2, <2>1, <2>2, <2>3, DoSleepSound, Zenon
<1>3. CASE pm' = q
  BY <1>3, Zenon
<1> QED  BY <1>1, <1>2, <1>3, Zenon DEF TryJoin

\* The boot state satisfies the inductive invariant.
LEMMA InitIInv ==
  ASSUME CountingLaws, Init
  PROVE  IInv
<1>1. Sound(pm) /\ pm.running \in Thread  BY NewSound, Zenon DEF Init
<1>2. TypeOK  BY <1>1, NoThreadAssumption, Zenon DEF Init, TypeOK, Sound, Consistent
<1> QED  BY <1>1, <1>2, KernelAssumption, Zenon DEF Init, IInv

\* Every step preserves the inductive invariant: one case per action.
LEMMA NextIInv == IInv /\ [Next]_vars => IInv'
<1> SUFFICES ASSUME IInv, [Next]_vars PROVE IInv'  BY Zenon
<1>0. /\ TypeOK /\ Sound(pm) /\ pm.running \in Thread /\ pc[KernelThread] = "user"
      /\ \A t \in Thread : pc[t] = "join" => joining[t] \in Thread
      /\ phase = "down" => pm.running = KernelThread
  BY Zenon DEF IInv
\* What is left to show of a step once the process manager is sound.
<1>a. ASSUME Sound(pm') /\ pm'.running \in Thread,
             pc' \in [Thread -> {"user", "sleep", "join"}],
             joining' \in [Thread -> Thread \union {NoThread}],
             joiners' \in [Thread -> SUBSET Thread],
             phase' \in {"boot", "up", "down", "lost"},
             doomed' \in SUBSET Proc,
             pc'[KernelThread] = "user",
             \A t \in Thread : pc'[t] = "join" => joining'[t] \in Thread,
             phase' = "down" => pm'.running = KernelThread
      PROVE  IInv'
  BY <1>a, Zenon DEF IInv, TypeOK, Sound, Consistent
\* The common case: only pm changes.
<1>b. ASSUME Sound(pm') /\ pm'.running \in Thread,
             UNCHANGED <<pc, joining, joiners, doomed>>,
             phase' \in {"boot", "up", "down", "lost"},
             phase' = "down" => pm'.running = KernelThread
      PROVE  IInv'
  BY <1>0, <1>b, <1>a, Zenon DEF TypeOK
<1>1. CASE UNCHANGED vars
  BY <1>0, <1>1, <1>b, Zenon DEF vars, TypeOK
<1>2. CASE Boot
  BY <1>0, <1>2, <1>b, Zenon DEF Boot
<1>3. ASSUME NEW p \in Proc, NEW t \in Thread, Spawn(p, t)  PROVE IInv'
  <2>1. Sound(pm') /\ pm'.running = pm.running
    BY <1>0, <1>3, CreateProcessSound, Zenon DEF Spawn
  <2> QED  BY <1>0, <1>3, <1>b, <2>1, Zenon DEF Spawn
<1>4. ASSUME NEW t \in Thread, GiveUp(t)  PROVE IInv'
  <2>1. Sound(pm') /\ pm'.running \in Thread
    BY <1>0, <1>4, ReapedFirst, ScheduleSound, Zenon DEF GiveUp
  <2> QED  BY <1>0, <1>4, <1>b, <2>1, Zenon DEF GiveUp, InUser
<1>5. ASSUME NEW t \in Thread, SleepCall(t)  PROVE IInv'
  <2>1. PICK d : d = ReapDeferred(pm)  BY Zenon
  <2>2. Switchable(d) /\ d.running # KernelThread
    BY <1>0, <1>5, <2>1, ReapedFirst, Zenon DEF SleepCall, InUser
  <2>3. Sound(pm') /\ pm'.running \in Thread
    <3>1. "set" \in Alarms  BY Zenon DEF Alarms
    <3> QED  BY <1>5, <2>1, <2>2, <3>1, DoSleepSound, Zenon DEF SleepCall
  <2> QED  BY <1>0, <1>5, <1>a, <2>3 DEF SleepCall, InUser, TypeOK
<1>6. ASSUME NEW t \in Thread, NEW s \in Statuses, ExitCall(t, s)  PROVE IInv'
  <2>1. Sound(pm') /\ pm'.running \in Thread
    BY <1>0, <1>6, ExitSound, Zenon DEF ExitCall, InUser
  <2>2. doomed' \in SUBSET Proc
    BY <1>0, <1>6, Zenon DEF ExitCall, Exit, TypeOK, ProcessManagers
  <2> QED  BY <1>0, <1>6, <1>a, <2>1, <2>2, Zenon DEF ExitCall, InUser, TypeOK
<1>7. ASSUME NEW t \in Thread, NEW s \in Statuses, ExitThreadCall(t, s)  PROVE IInv'
  <2>1. PICK d : d = ReapDeferred(pm)  BY Zenon
  <2>2. Switchable(d) /\ d.running # KernelThread
    BY <1>0, <1>7, <2>1, ReapedFirst, Zenon DEF ExitThreadCall, InUser
  <2>3. PICK q \in DoExitThread(d, s) : /\ pm' = Wakeup(q, joiners[t])
                                        /\ phase' \in {"lost", "up"}
    BY <1>7, <2>1, Zenon DEF ExitThreadCall
  <2>4. Sound(q) /\ q.running \in Thread
    BY <2>2, <2>3, DoExitThreadSound, Zenon
  <2>5. Sound(pm') /\ pm'.running \in Thread
    BY <1>0, <2>3, <2>4, WakeupSound, Zenon DEF TypeOK
  <2>6. joiners' \in [Thread -> SUBSET Thread]
    BY <1>0, <1>7, Zenon DEF ExitThreadCall, TypeOK
  <2> QED  BY <1>0, <1>7, <1>a, <2>3, <2>5, <2>6, Zenon DEF ExitThreadCall, TypeOK
<1>8. ASSUME NEW t \in Thread, NEW u \in Thread, Create(t, u)  PROVE IInv'
  <2>1. Sound(pm') /\ pm'.running = pm.running
    BY <1>0, <1>8, CreateThreadSound, Zenon DEF Create, InUser
  <2> QED  BY <1>0, <1>8, <1>b, <2>1, Zenon DEF Create, InUser
<1>9. ASSUME NEW t \in Thread, NEW u \in Thread, JoinCall(t, u)  PROVE IInv'
  <2>1. PICK q : q = ReapDeferred(pm)  BY Zenon
  <2>2. Sound(q) /\ q.running = t /\ t # KernelThread /\ TryJoin(t, q, u)
    BY <1>0, <1>9, <2>1, ReapedFirst, Zenon DEF JoinCall, InUser, Switchable
  <2>3. Sound(pm') /\ pm'.running \in Thread
    BY <2>2, TryJoinSound, Zenon
  <2>4. /\ pc' \in [Thread -> {"user", "sleep", "join"}]
        /\ joining' \in [Thread -> Thread \union {NoThread}]
        /\ joiners' \in [Thread -> SUBSET Thread]
        /\ pc'[KernelThread] = "user"
        /\ \A v \in Thread : pc'[v] = "join" => joining'[v] \in Thread
    BY <1>0, <2>2, KernelAssumption DEF TryJoin, TypeOK
  <2> QED  BY <1>0, <1>9, <1>a, <2>3, <2>4, Zenon DEF JoinCall, InUser, TypeOK
<1>10. ASSUME NEW t \in Thread, NEW u \in Thread, DetachCall(t, u)  PROVE IInv'
  <2>1. PICK q : q = ReapDeferred(pm)  BY Zenon
  <2>2. Sound(q) /\ q.running = pm.running
    BY <1>0, <2>1, ReapedFirst, Zenon DEF Switchable
  <2>3. CASE q.owner[u] = Running(q) /\ q.tstate[u] = "zombie" /\ pm' = Reap(q, {u})
    BY <1>0, <1>10, <1>b, <2>2, <2>3, ReapSound, Zenon DEF DetachCall, InUser
  <2>4. CASE pm' = [q EXCEPT !.detached = @ \union {u}]
    BY <1>0, <1>10, <1>b, <2>2, <2>4, CosmeticSteps, Zenon DEF DetachCall, InUser
  <2> QED  BY <1>10, <2>1, <2>3, <2>4, Zenon DEF DetachCall
<1>11. ASSUME NEW t \in Thread, NEW p \in Proc, TerminateCall(t, p)  PROVE IInv'
  <2>1. Sound(pm') /\ pm'.running = pm.running
    BY <1>0, <1>11, TerminateSound, Zenon DEF TerminateCall, InUser
  <2> QED  BY <1>0, <1>11, <1>a, <2>1, Zenon DEF TerminateCall, InUser, TypeOK
<1>12. ASSUME NEW t \in Thread, NEW p \in Proc, NEW u \in Thread, Duplicate(t, p, u)  PROVE IInv'
  <2>1. Sound(pm') /\ pm'.running = pm.running
    BY <1>0, <1>12, CreateProcessSound, Zenon DEF Duplicate
  <2> QED  BY <1>0, <1>12, <1>b, <2>1, Zenon DEF Duplicate, InUser
<1>13. ASSUME NEW t \in Thread, SleepReturns(t)  PROVE IInv'
  <2>1. Sound(pm') /\ pm'.running = pm.running
    BY <1>0, <1>13, CosmeticSteps, Zenon DEF SleepReturns, Taken
  <2> QED  BY <1>0, <1>13, <1>a, <2>1 DEF SleepReturns, TypeOK
<1>14. ASSUME NEW t \in Thread, JoinReturns(t)  PROVE IInv'
  <2>1. PICK u \in Thread : u = joining[t]
    BY <1>0, <1>14, Zenon DEF JoinReturns
  <2>2. Sound(Taken) /\ Taken.running = t /\ t # KernelThread /\ TryJoin(t, Taken, u)
    BY <1>0, <1>14, <2>1, CosmeticSteps, Zenon DEF JoinReturns, Resuming, Taken
  <2>3. Sound(pm') /\ pm'.running \in Thread
    BY <2>2, TryJoinSound, Zenon
  <2>4. /\ pc' \in [Thread -> {"user", "sleep", "join"}]
        /\ joining' \in [Thread -> Thread \union {NoThread}]
        /\ joiners' \in [Thread -> SUBSET Thread]
        /\ pc'[KernelThread] = "user"
        /\ \A v \in Thread : pc'[v] = "join" => joining'[v] \in Thread
    BY <1>0, <2>2, KernelAssumption DEF TryJoin, TypeOK
  <2> QED  BY <1>0, <1>14, <1>a, <2>3, <2>4, Zenon DEF JoinReturns, Resuming, TypeOK
<1>15. ASSUME NEW t \in Thread, Killed(t)  PROVE IInv'
  <2>1. PICK q : q = Taken  BY Zenon
  <2>2. Sound(q) /\ q.running = t /\ t # KernelThread
    BY <1>0, <1>15, <2>1, CosmeticSteps, Zenon DEF Killed, Resuming, Taken
  <2>3. Exit(t, q, "interrupted")
    BY <1>15, <2>1, Zenon DEF Killed
  <2>4. Sound(pm') /\ pm'.running \in Thread
    <3>1. "interrupted" \in Statuses  BY Zenon DEF Statuses
    <3> QED  BY <2>2, <2>3, <3>1, ExitSound, Zenon
  <2>5. doomed' \in SUBSET Proc
    BY <1>0, <2>3, Zenon DEF Exit, TypeOK, ProcessManagers
  <2>6. joiners' \in [Thread -> SUBSET Thread]
    BY <1>0, <1>15, Zenon DEF Killed, TypeOK
  <2> QED  BY <1>0, <1>15, <1>a, <2>4, <2>5, <2>6 DEF Killed, Resuming, TypeOK
<1>16. ASSUME NEW t \in Thread, AlarmDue(t)  PROVE IInv'
  <2>1. Sound(pm') /\ pm'.running = pm.running
    BY <1>0, <1>16, CosmeticSteps, Zenon DEF AlarmDue
  <2> QED  BY <1>0, <1>16, <1>b, <2>1, Zenon DEF AlarmDue
<1>17. CASE Idle
  <2>1. Sound(pm') /\ pm'.running \in Thread
    BY <1>0, <1>17, ReapedFirst, ScheduleSound, Zenon DEF Idle
  <2> QED  BY <1>0, <1>17, <1>b, <2>1, Zenon DEF Idle
<1>18. ASSUME NEW p \in Proc, Harvest(p)  PROVE IInv'
  <2>1. PICK q : q = HarvestZombie(pm, p)  BY Zenon
  <2>2. Sound(q) /\ q.running = KernelThread
    BY <1>0, <1>18, <2>1, HarvestSound, Zenon DEF Harvest, KernelRunning
  <2>3. CASE p = Initd
    BY <1>0, <1>18, <1>b, <2>1, <2>2, <2>3, KernelAssumption, Zenon DEF Harvest
  <2>4. CASE p # Initd /\ pm' = q
    BY <1>0, <1>18, <1>b, <2>2, <2>4, KernelAssumption, Zenon DEF Harvest
  <2>5. CASE p # Initd /\ pm' \in Schedule(ReapDeferred(q))
    <3>1. Sound(pm') /\ pm'.running \in Thread
      BY <1>0, <2>2, <2>5, ReapedFirst, ScheduleSound, KernelAssumption, Zenon
    <3> QED  BY <1>18, <1>b, <2>5, <3>1, Zenon DEF Harvest
  <2> QED  BY <1>18, <2>1, <2>3, <2>4, <2>5, Zenon DEF Harvest
<1>19. ASSUME NEW p \in Proc, Shutdown(p)  PROVE IInv'
  <2>1. Sound(pm') /\ pm'.running = KernelThread
    BY <1>0, <1>19, HarvestSound, Zenon DEF Shutdown
  <2> QED  BY <1>0, <1>19, <1>b, <2>1, KernelAssumption, Zenon DEF Shutdown
<1>20. "ok" \in Statuses  BY Zenon DEF Statuses
<1> QED
  BY <1>1, <1>2, <1>3, <1>4, <1>5, <1>6, <1>7, <1>8, <1>9, <1>10, <1>11, <1>12, <1>13,
     <1>14, <1>15, <1>16, <1>17, <1>18, <1>19, <1>20, Zenon DEF Next, KernelCall, Continue, KernelStep

(***************************************************************************)
(* Blocked threads.                                                        *)
(***************************************************************************)

\* With f for pc: a thread that sleeps or was interrupted is inside a kernel
\* call, and so is one that a reason waits for.
Waiting(q, f) ==
  /\ ReasonsWait(q)
  /\ \A t \in Thread : q.tstate[t] \in {"sleeping", "interrupted"} \/ q.reason[t] # "none"
                         => f[t] # "user"

\* The reason taken along at the last switch is for the call that is resumed.
Resumed(q, f) == q.intr # "none" => f[q.running] # "user"

\* With g for joining and h for joiners: whoever sleeps in join is in the queue
\* of a thread of the same process that has not exited.
Joined(q, f, g, h) ==
  \A t \in Thread :
    q.tstate[t] = "sleeping" /\ f[t] = "join" =>
      /\ g[t] \in Thread /\ t \in h[g[t]]
      /\ q.owner[g[t]] = q.owner[t] /\ q.tstate[g[t]] \in Live

\* What a blocked thread relies on.
WInv == Waiting(pm, pc) /\ Resumed(pm, pc) /\ Joined(pm, pc, joining, joiners)

LEMMA GentleWaiting ==
  ASSUME NEW q, NEW r, NEW f, NEW g, NEW h, Gentle(r, q)
  PROVE  /\ Waiting(q, f) => Waiting(r, f)
         /\ Joined(q, f, g, h) => Joined(r, f, g, h)
<1>1. Waiting(q, f) => Waiting(r, f)
  BY Zenon DEF Gentle, Waiting
<1>2. Joined(q, f, g, h) => Joined(r, f, g, h)
  BY Zenon DEF Gentle, Joined
<1> QED  BY <1>1, <1>2, Zenon

LEMMA MeantResumed ==
  ASSUME NEW q, NEW r, NEW f, Meant(r, q), Waiting(q, f)
  PROVE  Resumed(r, f)
BY Zenon DEF Meant, Waiting, Resumed

\* What the operations need of a sound manager.
LEMMA SoundFacts ==
  ASSUME NEW q, Sound(q), q.running \in Thread
  PROVE  /\ q \in ProcessManagers /\ Deferrals(q) /\ AllAwakable(q)
         /\ q.tstate[q.running] = "running" /\ q.place[Running(q)] = "running"
         /\ Running(q) \in Proc
<1>1. q \in ProcessManagers /\ OneRunning(q) /\ \A p \in Proc : Placed(q, p)
  BY Zenon DEF Sound, Consistent
<1>2. Running(q) \in Proc  BY <1>1, Zenon DEF Running, ProcessManagers
<1>3. q.place[Running(q)] = "running"  BY <1>1, <1>2, Zenon DEF Placed, Running
<1> QED  BY <1>1, <1>2, <1>3, Zenon DEF Sound, Consistent, OneRunning

\* reap_deferred() before a kernel call that may switch.
LEMMA ReapedWaiting ==
  ASSUME NEW q, Sound(q), q.running \in Thread, NEW f, NEW g, NEW h,
         Waiting(q, f), Joined(q, f, g, h)
  PROVE  LET d == ReapDeferred(q)
         IN  /\ Sound(d) /\ d \in ProcessManagers /\ d.running = q.running
             /\ d.place[Running(d)] = "running" /\ d.tstate[d.running] = "running"
             /\ d.owner = q.owner /\ d.intr = q.intr
             /\ \A t \in Thread : q.tstate[t] \in Live => d.tstate[t] = q.tstate[t]
             /\ Keeps(d, q) /\ Waiting(d, f) /\ Joined(d, f, g, h)
<1>1. PICK d : d = ReapDeferred(q)  BY Zenon
<1>2. q \in ProcessManagers /\ Deferrals(q)  BY SoundFacts, Zenon
<1>3. /\ Sound(d) /\ d.running = q.running /\ d.owner = q.owner
      /\ \A t \in Thread : d.tstate[t] = IF t \in q.deferred THEN "reaped" ELSE q.tstate[t]
  BY <1>1, ReapDeferredSound, Zenon
<1>4. Gentle(d, q) /\ Keeps(d, q) /\ d.intr = q.intr
  BY <1>1, <1>2, ReapDeferredGentle, Zenon
<1>5. \A t \in Thread : q.tstate[t] \in Live => d.tstate[t] = q.tstate[t]
  BY <1>2, <1>3, Zenon DEF Deferrals, Live
<1>6. d \in ProcessManagers /\ d.place[Running(d)] = "running" /\ d.tstate[d.running] = "running"
  BY <1>3, SoundFacts, Zenon
<1>7. Waiting(d, f) /\ Joined(d, f, g, h)  BY <1>4, GentleWaiting, Zenon
<1> QED  BY <1>1, <1>3, <1>4, <1>5, <1>6, <1>7, Zenon

\* Only thread t has changed where it continues, and left a queue at most.
OnlyOf(t, i, j, k, f, g, h) ==
  \A u \in Thread \ {t} : /\ i[u] = f[u] /\ j[u] = g[u]
                          /\ \A v \in Thread : u \in h[v] => u \in k[v]

\* The running thread is about to block, in join_thread() only on a thread of
\* its process that has not exited.
MayBlock(q, i, j, k) ==
  LET t == q.running
  IN  /\ i[t] # "user"
      /\ i[t] = "join" => /\ j[t] \in Thread /\ t \in k[j[t]]
                          /\ q.owner[j[t]] = Running(q) /\ q.tstate[j[t]] \in Live

\* Blocking in sleep(), or in join_thread() on a thread that has not exited.
LEMMA SleepWaiting ==
  ASSUME NEW q, Sound(q), q.running \in Thread, NEW a \in Alarms,
         NEW r \in DoSleep(ReapDeferred(q), a),
         NEW f, NEW g, NEW h, Waiting(q, f), Joined(q, f, g, h),
         NEW i, NEW j, NEW k, MayBlock(q, i, j, k), OnlyOf(q.running, i, j, k, f, g, h)
  PROVE  Waiting(r, i) /\ Resumed(r, i) /\ Joined(r, i, j, k) /\ Keeps(r, q)
<1>1. PICK d, t : d = ReapDeferred(q) /\ t = q.running  BY Zenon
<1>2. /\ d \in ProcessManagers /\ d.running = t
      /\ d.place[Running(d)] = "running" /\ d.tstate[t] = "running"
      /\ d.owner = q.owner
      /\ \A u \in Thread : q.tstate[u] \in Live => d.tstate[u] = q.tstate[u]
      /\ Keeps(d, q) /\ Waiting(d, f) /\ Joined(d, f, g, h)
  BY <1>1, ReapedWaiting, Zenon
<1>3. PICK m : Parted(m, d, "sleeping", a) /\ Gentle(r, m) /\ Meant(r, m) /\ Keeps(r, d)
  BY <1>1, <1>2, DoSleepGentle, Zenon
<1>4. Waiting(m, i)
  BY <1>1, <1>2, <1>3 DEF Waiting, ReasonsWait, Parted, OnlyOf, MayBlock
<1>5. Joined(m, i, j, k)
  <2> SUFFICES ASSUME NEW u \in Thread, m.tstate[u] = "sleeping", i[u] = "join"
               PROVE  /\ j[u] \in Thread /\ u \in k[j[u]]
                      /\ m.owner[j[u]] = m.owner[u] /\ m.tstate[j[u]] \in Live
    BY Zenon DEF Joined
  <2>1. CASE u = t
    BY <1>1, <1>2, <1>3, <2>1 DEF Parted, Running, Live, MayBlock
  <2>2. CASE u # t
    <3>1. d.tstate[u] = "sleeping" /\ f[u] = "join" /\ g[u] = j[u]
      BY <1>1, <1>2, <1>3, <2>2, Zenon DEF Parted, OnlyOf
    <3>2. /\ g[u] \in Thread /\ u \in h[g[u]]
          /\ d.owner[g[u]] = d.owner[u] /\ d.tstate[g[u]] \in Live
      BY <1>2, <3>1, Zenon DEF Joined
    <3>3. u \in k[j[u]]  BY <1>1, <2>2, <3>1, <3>2, Zenon DEF OnlyOf
    <3> QED  BY <1>2, <1>3, <3>1, <3>2, <3>3 DEF Parted, Live
  <2> QED  BY <2>1, <2>2, Zenon
<1>6. Waiting(r, i) /\ Resumed(r, i) /\ Joined(r, i, j, k)
  BY <1>3, <1>4, <1>5, GentleWaiting, MeantResumed, Zenon
<1> QED  BY <1>2, <1>3, <1>6, KeepsTrans, Zenon

\* exit() of the running thread: nobody of its process sleeps on.
LEMMA ExitWaiting ==
  ASSUME NEW q, Sound(q), q.running \in Thread, NEW e \in Statuses,
         NEW r \in DoExit(ReapDeferred(q), e),
         NEW f, NEW g, NEW h, Waiting(q, f), Joined(q, f, g, h),
         NEW i, NEW j, NEW k, OnlyOf(q.running, i, j, k, f, g, h)
  PROVE  Waiting(r, i) /\ Resumed(r, i) /\ Joined(r, i, j, k) /\ Keeps(r, q)
<1>1. PICK d, t : d = ReapDeferred(q) /\ t = q.running  BY Zenon
<1>2. /\ d \in ProcessManagers /\ d.running = t
      /\ d.place[Running(d)] = "running"
      /\ Keeps(d, q) /\ Waiting(d, f) /\ Joined(d, f, g, h)
  BY <1>1, ReapedWaiting, Zenon
<1>3. /\ Keeps(r, d)
      /\ \A u \in Thread : d.owner[u] = Running(d) => r.tstate[u] # "sleeping"
  BY <1>1, <1>2, DoExitGentle, Zenon
<1>4. PICK m : Parted(m, d, "zombie", "none") /\ Gentle(r, m) /\ Meant(r, m)
  BY <1>1, <1>2, DoExitGentle, Zenon
<1>5. Waiting(m, i)
  BY <1>1, <1>2, <1>4 DEF Waiting, ReasonsWait, Parted, OnlyOf
<1>6. Joined(r, i, j, k)
  <2> SUFFICES ASSUME NEW u \in Thread, r.tstate[u] = "sleeping", i[u] = "join"
               PROVE  /\ j[u] \in Thread /\ u \in k[j[u]]
                      /\ r.owner[j[u]] = r.owner[u] /\ r.tstate[j[u]] \in Live
    BY Zenon DEF Joined
  <2>1. d.owner[u] # Running(d)  BY <1>3, Zenon
  <2>2. u # t  BY <1>2, <2>1, Zenon DEF Running
  <2>3. m.tstate[u] = "sleeping"  BY <1>4, Zenon DEF Gentle
  <2>4. d.tstate[u] = "sleeping" /\ f[u] = "join" /\ g[u] = j[u]
    BY <1>1, <1>2, <1>4, <2>2, <2>3, Zenon DEF Parted, OnlyOf
  <2>5. /\ g[u] \in Thread /\ u \in h[g[u]]
        /\ d.owner[g[u]] = d.owner[u] /\ d.tstate[g[u]] \in Live
    BY <1>2, <2>4, Zenon DEF Joined
  <2>6. g[u] # t  BY <1>2, <2>1, <2>5, Zenon DEF Running
  <2>7. m.tstate[g[u]] \in Live /\ m.owner[g[u]] = m.owner[u]
    BY <1>2, <1>4, <2>5, <2>6, Zenon DEF Parted
  <2>8. r.tstate[g[u]] \in Live /\ r.owner[g[u]] = r.owner[u]
    BY <1>4, <2>5, <2>7, Zenon DEF Gentle
  <2>9. u \in k[j[u]]  BY <1>1, <2>2, <2>4, <2>5, Zenon DEF OnlyOf
  <2> QED  BY <2>4, <2>5, <2>8, <2>9, Zenon
<1>7. Waiting(r, i) /\ Resumed(r, i)
  BY <1>4, <1>5, GentleWaiting, MeantResumed, Zenon
<1> QED  BY <1>2, <1>3, <1>6, <1>7, KeepsTrans, Zenon

\* exit_thread() of the running thread: all of its joiners are woken.
LEMMA ExitThreadWaiting ==
  ASSUME NEW q, Sound(q), q.running \in Thread \ {KernelThread}, NEW e \in Statuses,
         NEW x \in DoExitThread(ReapDeferred(q), e),
         NEW f, NEW g, NEW h \in [Thread -> SUBSET Thread], Waiting(q, f), Joined(q, f, g, h)
  PROVE  LET r == Wakeup(x, h[q.running])
             k == [h EXCEPT ![q.running] = {}]
         IN  Waiting(r, f) /\ Resumed(r, f) /\ Joined(r, f, g, k) /\ Keeps(r, q)
<1>1. PICK d, t : d = ReapDeferred(q) /\ t = q.running  BY Zenon
<1>2. /\ d \in ProcessManagers /\ d.running = t
      /\ d.place[Running(d)] = "running"
      /\ Keeps(d, q) /\ Waiting(d, f) /\ Joined(d, f, g, h)
  BY <1>1, ReapedWaiting, Zenon
<1>3. PICK s, m : /\ s \in {"zombie", "deferred"}
                  /\ Parted(m, d, s, "none") /\ Gentle(x, m) /\ Meant(x, m) /\ Keeps(x, d)
  BY <1>1, <1>2, DoExitThreadGentle
<1>4. Sound(x) /\ x.running \in Thread
  <2>1. Switchable(d) /\ d.running # KernelThread  BY <1>1, ReapedFirst, Zenon
  <2> QED  BY <1>1, <2>1, DoExitThreadSound, Zenon
<1>5. PICK r : r = Wakeup(x, h[t])  BY Zenon
<1>6. /\ Gentle(r, x) /\ Keeps(r, x) /\ r.intr = x.intr /\ r.running = x.running
      /\ \A u \in Thread : r.tstate[u] = IF u \in h[t] /\ Awakable(x, u) THEN "ready"
                                         ELSE x.tstate[u]
  <2>1. x \in ProcessManagers /\ h[t] \in SUBSET Thread  BY <1>1, <1>4, SoundFacts, Zenon
  <2> QED  BY <1>5, <2>1, WakeupGentle, Zenon
<1>7. Gentle(r, m)  BY <1>3, <1>6, GentleTrans, Zenon
<1>8. Waiting(m, f)
  BY <1>2, <1>3 DEF Waiting, ReasonsWait, Parted
<1>9. Waiting(r, f)  BY <1>7, <1>8, GentleWaiting, Zenon
<1>10. Resumed(r, f)
  <2>1. Resumed(x, f)  BY <1>3, <1>8, MeantResumed, Zenon
  <2> QED  BY <1>6, <2>1, Zenon DEF Resumed
<1>11. PICK k : k = [h EXCEPT ![t] = {}]  BY Zenon
<1>12. Joined(r, f, g, k)
  <2> SUFFICES ASSUME NEW u \in Thread, r.tstate[u] = "sleeping", f[u] = "join"
               PROVE  /\ g[u] \in Thread /\ u \in k[g[u]]
                      /\ r.owner[g[u]] = r.owner[u] /\ r.tstate[g[u]] \in Live
    BY Zenon DEF Joined
  <2>1. x.tstate[u] = "sleeping" /\ u \notin h[t]
    <3>1. x.tstate[u] = "sleeping"  BY <1>6, Zenon DEF Gentle
    <3>2. Awakable(x, u)  BY <1>4, <3>1, SoundFacts, Zenon DEF AllAwakable
    <3> QED  BY <1>6, <3>1, <3>2, Zenon
  <2>2. m.tstate[u] = "sleeping"  BY <1>3, <2>1, Zenon DEF Gentle
  <2>3. u # t /\ d.tstate[u] = "sleeping"  BY <1>2, <1>3, <2>2, Zenon DEF Parted
  <2>4. /\ g[u] \in Thread /\ u \in h[g[u]]
        /\ d.owner[g[u]] = d.owner[u] /\ d.tstate[g[u]] \in Live
    BY <1>2, <2>3, Zenon DEF Joined
  <2>5. g[u] # t /\ u \in k[g[u]]  BY <1>1, <1>11, <2>1, <2>4, Zenon
  <2>6. m.tstate[g[u]] \in Live /\ m.owner[g[u]] = m.owner[u]
    BY <1>2, <1>3, <2>4, <2>5, Zenon DEF Parted
  <2>7. r.tstate[g[u]] \in Live /\ r.owner[g[u]] = r.owner[u]
    BY <1>7, <2>4, <2>6, Zenon DEF Gentle
  <2> QED  BY <2>4, <2>5, <2>7, Zenon
<1>13. Keeps(r, q)  BY <1>2, <1>3, <1>6, KeepsTrans, Zenon
<1> QED  BY <1>1, <1>5, <1>9, <1>10, <1>11, <1>12, <1>13, Zenon

\* One round of join_thread().
LEMMA TryJoinWaiting ==
  ASSUME NEW q, Sound(q), NEW t \in Thread, q.running = t, q.intr = "none",
         NEW u \in Thread, TypeOK, TryJoin(t, q, u),
         Waiting(q, pc), Joined(q, pc, joining, joiners)
  PROVE  /\ Waiting(pm', pc') /\ Resumed(pm', pc') /\ Joined(pm', pc', joining', joiners')
         /\ Keeps(pm', q)
<1>0. /\ pc \in [Thread -> {"user", "sleep", "join"}]
      /\ joining \in [Thread -> Thread \union {NoThread}]
      /\ joiners \in [Thread -> SUBSET Thread]
  BY Zenon DEF TypeOK
<1>1. /\ q \in ProcessManagers /\ q.tstate[t] = "running"
  BY SoundFacts, Zenon
<1>2. ASSUME Gentle(pm', q), pm'.intr = "none", pc' = [pc EXCEPT ![t] = "user"],
             joining' = [joining EXCEPT ![t] = NoThread], joiners' = joiners
      PROVE  Waiting(pm', pc') /\ Resumed(pm', pc') /\ Joined(pm', pc', joining', joiners')
  <2>1. Waiting(q, pc')  BY <1>0, <1>1, <1>2, Zenon DEF Waiting, ReasonsWait
  <2>2. Joined(q, pc', joining', joiners')  BY <1>0, <1>1, <1>2, Zenon DEF Joined
  <2>3. Resumed(pm', pc')  BY <1>2, Zenon DEF Resumed
  <2> QED  BY <1>2, <2>1, <2>2, <2>3, GentleWaiting, Zenon
<1>3. CASE /\ Joinable(q, u) /\ q.tstate[u] = "zombie"
           /\ pm' = Reap(q, {u})
           /\ pc' = [pc EXCEPT ![t] = "user"]
           /\ joining' = [joining EXCEPT ![t] = NoThread]
           /\ UNCHANGED joiners
  <2>1. {u} \in SUBSET Thread /\ \A v \in {u} : q.tstate[v] \in {"zombie", "deferred"}
    BY <1>3, Zenon
  <2>2. Gentle(pm', q) /\ Keeps(pm', q) /\ pm'.intr = q.intr
    BY <1>1, <1>3, <2>1, ReapGentle, Zenon
  <2> QED  BY <1>2, <1>3, <2>2, Zenon
<1>4. CASE /\ ~Joinable(q, u)
           /\ pm' = q
           /\ pc' = [pc EXCEPT ![t] = "user"]
           /\ joining' = [joining EXCEPT ![t] = NoThread]
           /\ UNCHANGED joiners
  <2>1. Gentle(pm', q) /\ Keeps(pm', q)
    BY <1>4, Zenon DEF Gentle, Keeps
  <2> QED  BY <1>2, <1>4, <2>1, Zenon
<1>5. CASE /\ Joinable(q, u) /\ q.tstate[u] # "zombie"
           /\ pm' \in DoSleep(ReapDeferred(q), "none")
           /\ pc' = [pc EXCEPT ![t] = "join"]
           /\ joining' = [joining EXCEPT ![t] = u]
           /\ joiners' = [joiners EXCEPT ![u] = @ \union {t}]
  <2>1. pc'[t] = "join" /\ joining'[t] = u /\ t \in joiners'[u]
    BY <1>0, <1>5, Zenon
  <2>2. \A v \in Thread \ {t} : pc'[v] = pc[v] /\ joining'[v] = joining[v]
    BY <1>0, <1>5, Zenon
  <2>3. \A v, w \in Thread : v \in joiners[w] => v \in joiners'[w]
    BY <1>0, <1>5, Zenon
  <2>4. q.owner[u] = Running(q) /\ q.tstate[u] \in Live
    BY <1>5, Zenon DEF Joinable, Live
  <2>5. "none" \in Alarms  BY Zenon DEF Alarms
  <2>6. MayBlock(q, pc', joining', joiners')
    BY <2>1, <2>4, Zenon DEF MayBlock
  <2>7. OnlyOf(q.running, pc', joining', joiners', pc, joining, joiners)
    BY <2>2, <2>3, Zenon DEF OnlyOf
  <2> QED  BY <1>5, <2>5, <2>6, <2>7, SleepWaiting, Zenon
<1> QED  BY <1>3, <1>4, <1>5, Zenon DEF TryJoin

\* What FirstExitStatusKept says of a step.
StatusKept ==
  \A p \in Proc :
    pm.pending[p] # "none" =>
      \/ pm'.pending[p] = pm.pending[p]
      \/ pm'.place[p] = "zombie" /\ pm'.status[p] = pm.pending[p]

LEMMA InitWInv == Init => WInv
<1> SUFFICES ASSUME Init PROVE WInv  BY Zenon
<1>1. /\ \A t \in Thread : pm.tstate[t] \in {"running", "none"} /\ pm.reason[t] = "none"
      /\ pm.intr = "none"
  BY Zenon DEF Init, New
<1> QED  BY <1>1, Zenon DEF WInv, Waiting, ReasonsWait, Resumed, Joined

\* Every step preserves what blocked threads rely on, and keeps the pending
\* exit statuses: one case per action.
LEMMA NextWInv == IInv /\ WInv /\ [Next]_vars => WInv' /\ StatusKept
<1> SUFFICES ASSUME IInv, WInv, [Next]_vars PROVE WInv' /\ StatusKept  BY Zenon
<1>0. /\ TypeOK /\ Sound(pm) /\ pm.running \in Thread /\ pc[KernelThread] = "user"
      /\ \A t \in Thread : pc[t] = "join" => joining[t] \in Thread
      /\ Waiting(pm, pc) /\ Resumed(pm, pc) /\ Joined(pm, pc, joining, joiners)
      /\ pc \in [Thread -> {"user", "sleep", "join"}]
      /\ joining \in [Thread -> Thread \union {NoThread}]
      /\ joiners \in [Thread -> SUBSET Thread]
      /\ pm \in ProcessManagers /\ Deferrals(pm)
      /\ pm.tstate[pm.running] = "running" /\ pm.place[Running(pm)] = "running"
  <2>1. TypeOK /\ Sound(pm) /\ pm.running \in Thread  BY Zenon DEF IInv
  <2> QED  BY <2>1, SoundFacts, Zenon DEF IInv, WInv, TypeOK
\* How a step is put together.
<1>a. ASSUME Waiting(pm', pc'), Resumed(pm', pc'), Joined(pm', pc', joining', joiners')
      PROVE  WInv'
  BY <1>a, Zenon DEF WInv
<1>b. ASSUME Keeps(pm', pm)  PROVE StatusKept
  BY <1>b, Zenon DEF Keeps, StatusKept
<1>c. ASSUME Gentle(pm', pm), pm'.intr = pm.intr, pm'.running = pm.running,
             UNCHANGED <<pc, joining, joiners>>
      PROVE  WInv'
  <2>1. Waiting(pm', pc) /\ Joined(pm', pc, joining, joiners)  BY <1>0, <1>c, GentleWaiting, Zenon
  <2>2. Resumed(pm', pc)  BY <1>0, <1>c, Zenon DEF Resumed
  <2> QED  BY <1>a, <1>c, <2>1, <2>2, Zenon
<1>d. ASSUME NEW q, Sound(q), q.running \in Thread,
             Waiting(q, pc), Joined(q, pc, joining, joiners),
             pm' \in Schedule(ReapDeferred(q)), UNCHANGED <<pc, joining, joiners>>
      PROVE  WInv' /\ Keeps(pm', q)
  <2>1. PICK d : d = ReapDeferred(q)  BY Zenon
  <2>2. /\ d \in ProcessManagers /\ d.running \in Thread
        /\ d.place[Running(d)] = "running" /\ d.tstate[d.running] = "running"
        /\ Keeps(d, q) /\ Waiting(d, pc) /\ Joined(d, pc, joining, joiners)
    BY <1>d, <2>1, ReapedWaiting, Zenon
  <2>3. Gentle(pm', d) /\ Keeps(pm', d) /\ Meant(pm', d)
    BY <1>d, <2>1, <2>2, ScheduleGentle, Zenon
  <2>4. Waiting(pm', pc) /\ Joined(pm', pc, joining, joiners) /\ Resumed(pm', pc)
    BY <2>2, <2>3, GentleWaiting, MeantResumed, Zenon
  <2> QED  BY <1>a, <1>d, <2>2, <2>3, <2>4, KeepsTrans, Zenon
<1>e. ASSUME NEW u \in Thread, NEW p \in Proc, Joins(pm', pm, u, p), pm.tstate[u] = "none",
             UNCHANGED <<pc, joining, joiners>>
      PROVE  WInv' /\ StatusKept
  <2>1. Waiting(pm', pc)  BY <1>0, <1>e DEF Joins, Waiting, ReasonsWait
  <2>2. Resumed(pm', pc)  BY <1>0, <1>e, Zenon DEF Joins, Resumed
  <2>3. Joined(pm', pc, joining, joiners)  BY <1>0, <1>e DEF Joins, Joined, Live
  <2>4. StatusKept  BY <1>e, Zenon DEF Joins, StatusKept
  <2> QED  BY <1>a, <1>e, <2>1, <2>2, <2>3, <2>4, Zenon
\* The reason is taken from the manager.
<1>f. /\ Sound(Taken) /\ Taken.running = pm.running /\ Taken.owner = pm.owner
      /\ Taken.intr = "none" /\ Waiting(Taken, pc) /\ Joined(Taken, pc, joining, joiners)
      /\ Taken.pending = pm.pending /\ Taken.status = pm.status /\ Taken.place = pm.place
      /\ Taken.tstate = pm.tstate /\ Taken.reason = pm.reason
  <2>1. /\ Taken.intr = "none"
        /\ \A h \in {"running", "owner", "pending", "status", "place", "tstate", "reason"} :
             Taken[h] = pm[h]
    BY <1>0, Zenon DEF Taken, ProcessManagers
  <2>2. Sound(Taken)  BY <1>0, CosmeticSteps, Zenon DEF Taken
  <2>3. Waiting(Taken, pc)  BY <1>0, <2>1 DEF Waiting, ReasonsWait
  <2>4. Joined(Taken, pc, joining, joiners)  BY <1>0, <2>1, Zenon DEF Joined
  <2> QED  BY <2>1, <2>2, <2>3, <2>4, Zenon
<1>g. ASSUME Keeps(pm', Taken)  PROVE StatusKept
  BY <1>f, <1>g, Zenon DEF Keeps, StatusKept
<1>1. CASE UNCHANGED vars
  BY <1>1, Zenon DEF vars, WInv, StatusKept
<1>2. CASE Boot
  BY <1>2, Zenon DEF Boot, WInv, StatusKept
<1>3. ASSUME NEW p \in Proc, NEW t \in Thread, Spawn(p, t)  PROVE WInv' /\ StatusKept
  BY <1>0, <1>3, <1>e, CreateJoins, Zenon DEF Spawn
<1>4. ASSUME NEW t \in Thread, GiveUp(t)  PROVE WInv' /\ StatusKept
  BY <1>0, <1>4, <1>b, <1>d, Zenon DEF GiveUp
<1>5. ASSUME NEW t \in Thread, SleepCall(t)  PROVE WInv' /\ StatusKept
  <2>1. /\ pc' = [pc EXCEPT ![t] = "sleep"] /\ UNCHANGED <<joining, joiners>>
        /\ pm.running = t /\ pm' \in DoSleep(ReapDeferred(pm), "set")
    BY <1>5, Zenon DEF SleepCall, InUser
  <2>2. MayBlock(pm, pc', joining', joiners')  BY <1>0, <2>1, Zenon DEF MayBlock
  <2>3. OnlyOf(pm.running, pc', joining', joiners', pc, joining, joiners)
    BY <1>0, <2>1, Zenon DEF OnlyOf
  <2>4. "set" \in Alarms  BY Zenon DEF Alarms
  <2>5. Waiting(pm', pc') /\ Resumed(pm', pc') /\ Joined(pm', pc', joining', joiners') /\ Keeps(pm', pm)
    BY <1>0, <2>1, <2>2, <2>3, <2>4, SleepWaiting, Zenon
  <2> QED  BY <1>a, <1>b, <2>5, Zenon
<1>6. ASSUME NEW t \in Thread, NEW s \in Statuses, ExitCall(t, s)  PROVE WInv' /\ StatusKept
  <2>1. pm' \in DoExit(ReapDeferred(pm), s) /\ UNCHANGED <<pc, joining, joiners>>
    BY <1>6, Zenon DEF ExitCall, Exit
  <2>2. OnlyOf(pm.running, pc', joining', joiners', pc, joining, joiners)
    BY <2>1, Zenon DEF OnlyOf
  <2>3. Waiting(pm', pc') /\ Resumed(pm', pc') /\ Joined(pm', pc', joining', joiners') /\ Keeps(pm', pm)
    BY <1>0, <2>1, <2>2, ExitWaiting, Zenon
  <2> QED  BY <1>a, <1>b, <2>3, Zenon
<1>7. ASSUME NEW t \in Thread, NEW s \in Statuses, ExitThreadCall(t, s)  PROVE WInv' /\ StatusKept
  <2>1. PICK x \in DoExitThread(ReapDeferred(pm), s) : pm' = Wakeup(x, joiners[t])
    BY <1>7, Zenon DEF ExitThreadCall
  <2>2. pm.running = t /\ t # KernelThread /\ pc' = pc /\ joining' = joining
        /\ joiners' = [joiners EXCEPT ![t] = {}]
    BY <1>7, Zenon DEF ExitThreadCall, InUser
  <2>3. Waiting(pm', pc') /\ Resumed(pm', pc') /\ Joined(pm', pc', joining', joiners') /\ Keeps(pm', pm)
    BY <1>0, <2>1, <2>2, ExitThreadWaiting, Zenon
  <2> QED  BY <1>a, <1>b, <2>3, Zenon
<1>8. ASSUME NEW t \in Thread, NEW u \in Thread, Create(t, u)  PROVE WInv' /\ StatusKept
  <2>1. Running(pm) \in Proc  BY <1>0, SoundFacts, Zenon
  <2> QED  BY <1>0, <1>8, <1>e, <2>1, CreateJoins, Zenon DEF Create
<1>9. ASSUME NEW t \in Thread, NEW u \in Thread, JoinCall(t, u)  PROVE WInv' /\ StatusKept
  <2>1. pm.running = t /\ pc[t] = "user" /\ TryJoin(t, ReapDeferred(pm), u)
    BY <1>9, Zenon DEF JoinCall, InUser
  <2>2. PICK d : d = ReapDeferred(pm)  BY Zenon
  <2>3. /\ Sound(d) /\ d.running = t /\ d.intr = pm.intr
        /\ Keeps(d, pm) /\ Waiting(d, pc) /\ Joined(d, pc, joining, joiners)
    BY <1>0, <2>1, <2>2, ReapedWaiting, Zenon
  <2>4. d.intr = "none"  BY <1>0, <2>1, <2>3, Zenon DEF Resumed
  <2>5. Waiting(pm', pc') /\ Resumed(pm', pc') /\ Joined(pm', pc', joining', joiners') /\ Keeps(pm', d)
    BY <1>0, <2>1, <2>2, <2>3, <2>4, TryJoinWaiting, Zenon
  <2> QED  BY <1>a, <1>b, <2>3, <2>5, KeepsTrans, Zenon
<1>10. ASSUME NEW t \in Thread, NEW u \in Thread, DetachCall(t, u)  PROVE WInv' /\ StatusKept
  <2>1. PICK d : d = ReapDeferred(pm)  BY Zenon
  <2>2. /\ Sound(d) /\ d \in ProcessManagers /\ d.running = pm.running /\ d.intr = pm.intr
        /\ Gentle(d, pm) /\ Keeps(d, pm)
    BY <1>0, <2>1, ReapedWaiting, ReapDeferredGentle, Zenon
  <2>3. UNCHANGED <<pc, joining, joiners>>  BY <1>10, Zenon DEF DetachCall
  <2>4. Gentle(pm', d) /\ Keeps(pm', d) /\ pm'.intr = d.intr /\ pm'.running = d.running
    <3>1. CASE /\ d.owner[u] = Running(d) /\ d.tstate[u] = "zombie" /\ pm' = Reap(d, {u})
      <4>1. {u} \in SUBSET Thread /\ \A v \in {u} : d.tstate[v] \in {"zombie", "deferred"}
        BY <3>1, Zenon
      <4>2. pm'.running = d.running  BY <1>0, <2>2, <3>1, ReapSound, Zenon
      <4> QED  BY <2>2, <3>1, <4>1, <4>2, ReapGentle, Zenon
    <3>2. CASE pm' = [d EXCEPT !.detached = @ \union {u}]
      <4>1. \A h \in {"owner", "tstate", "reason", "place", "status", "pending", "intr", "running"} :
              pm'[h] = d[h]
        BY <2>2, <3>2, Zenon DEF ProcessManagers
      <4> QED  BY <4>1, PlaceGentle, Zenon
    <3> QED  BY <1>10, <2>1, <3>1, <3>2, Zenon DEF DetachCall
  <2> QED  BY <1>b, <1>c, <2>2, <2>3, <2>4, GentleTrans, KeepsTrans, Zenon
<1>11. ASSUME NEW t \in Thread, NEW p \in Proc, TerminateCall(t, p)  PROVE WInv' /\ StatusKept
  <2>1. pm'.running = pm.running
    BY <1>0, <1>11, TerminateSound, Zenon DEF TerminateCall, InUser
  <2>2. Gentle(pm', pm) /\ Keeps(pm', pm) /\ pm'.intr = pm.intr
    BY <1>0, <1>11, TerminateGentle, Zenon DEF TerminateCall
  <2> QED  BY <1>11, <1>b, <1>c, <2>1, <2>2, Zenon DEF TerminateCall
<1>12. ASSUME NEW t \in Thread, NEW p \in Proc, NEW u \in Thread, Duplicate(t, p, u)
       PROVE  WInv' /\ StatusKept
  BY <1>0, <1>12, <1>e, CreateJoins, Zenon DEF Duplicate
<1>13. ASSUME NEW t \in Thread, SleepReturns(t)  PROVE WInv' /\ StatusKept
  <2>1. /\ pm.running = t /\ pm' = Taken /\ pc' = [pc EXCEPT ![t] = "user"]
        /\ UNCHANGED <<joining, joiners>>
    BY <1>13, Zenon DEF SleepReturns, Resuming
  <2>2. Waiting(pm', pc')  BY <1>0, <1>f, <2>1, Zenon DEF Waiting, ReasonsWait
  <2>3. Resumed(pm', pc')  BY <1>f, <2>1, Zenon DEF Resumed
  <2>4. Joined(pm', pc', joining', joiners')  BY <1>0, <1>f, <2>1, Zenon DEF Joined
  <2>5. StatusKept  BY <1>f, <2>1, Zenon DEF StatusKept
  <2> QED  BY <1>a, <2>2, <2>3, <2>4, <2>5, Zenon
<1>14. ASSUME NEW t \in Thread, JoinReturns(t)  PROVE WInv' /\ StatusKept
  <2>1. pm.running = t /\ joining[t] \in Thread /\ TryJoin(t, Taken, joining[t])
    BY <1>0, <1>14, Zenon DEF JoinReturns, Resuming
  <2>2. Waiting(pm', pc') /\ Resumed(pm', pc') /\ Joined(pm', pc', joining', joiners') /\ Keeps(pm', Taken)
    BY <1>0, <1>f, <2>1, TryJoinWaiting, Zenon
  <2> QED  BY <1>a, <1>g, <2>2, Zenon
<1>15. ASSUME NEW t \in Thread, Killed(t)  PROVE WInv' /\ StatusKept
  <2>1. /\ pm.running = t /\ pm' \in DoExit(ReapDeferred(Taken), "interrupted")
        /\ pc' = [pc EXCEPT ![t] = "user"] /\ joining' = [joining EXCEPT ![t] = NoThread]
        /\ joiners' = [u \in Thread |-> IF u = joining[t] THEN joiners[u] \ {t} ELSE joiners[u]]
    BY <1>15, Zenon DEF Killed, Exit, Resuming
  <2>2. OnlyOf(Taken.running, pc', joining', joiners', pc, joining, joiners)
    BY <1>0, <1>f, <2>1, Zenon DEF OnlyOf
  <2>3. "interrupted" \in Statuses  BY Zenon DEF Statuses
  <2>4. Waiting(pm', pc') /\ Resumed(pm', pc') /\ Joined(pm', pc', joining', joiners') /\ Keeps(pm', Taken)
    BY <1>0, <1>f, <2>1, <2>2, <2>3, ExitWaiting, Zenon
  <2> QED  BY <1>a, <1>g, <2>4, Zenon
<1>16. ASSUME NEW t \in Thread, AlarmDue(t)  PROVE WInv' /\ StatusKept
  <2>1. \A h \in {"owner", "tstate", "reason", "place", "status", "pending", "intr", "running"} :
          pm'[h] = pm[h]
    BY <1>0, <1>16, Zenon DEF AlarmDue, ProcessManagers
  <2>2. Gentle(pm', pm) /\ Keeps(pm', pm)  BY <2>1, PlaceGentle, Zenon
  <2> QED  BY <1>16, <1>b, <1>c, <2>1, <2>2, Zenon DEF AlarmDue
<1>17. CASE Idle
  BY <1>0, <1>17, <1>b, <1>d, Zenon DEF Idle
<1>18. ASSUME NEW p \in Proc, Harvest(p) \/ Shutdown(p)  PROVE WInv' /\ StatusKept
  <2>1. PICK q : q = HarvestZombie(pm, p)  BY Zenon
  <2>2. UNCHANGED <<pc, joining, joiners>> /\ pm.running = KernelThread /\ pm.place[p] = "zombie"
    BY <1>18, Zenon DEF Harvest, Shutdown, KernelRunning, IInv
  <2>3. Sound(q) /\ q.running = pm.running
    BY <1>0, <2>1, <2>2, HarvestSound, Zenon
  <2>4. Gentle(q, pm) /\ q.pending = pm.pending /\ q.intr = pm.intr
    BY <1>0, <2>1, HarvestGentle, Zenon
  <2>5. CASE pm' = q
    <3>1. StatusKept  BY <2>4, <2>5, Zenon DEF StatusKept
    <3> QED  BY <1>c, <2>2, <2>3, <2>4, <2>5, <3>1, Zenon
  <2>6. CASE pm' \in Schedule(ReapDeferred(q))
    <3>1. Waiting(q, pc) /\ Joined(q, pc, joining, joiners)  BY <1>0, <2>4, GentleWaiting, Zenon
    <3>2. WInv' /\ Keeps(pm', q)  BY <1>0, <1>d, <2>2, <2>3, <2>6, <3>1, Zenon
    <3> QED  BY <2>4, <3>2, Zenon DEF Keeps, StatusKept
  <2> QED  BY <1>18, <2>1, <2>5, <2>6, Zenon DEF Harvest, Shutdown
<1>19. "ok" \in Statuses  BY Zenon DEF Statuses
<1> QED
  BY <1>1, <1>2, <1>3, <1>4, <1>5, <1>6, <1>7, <1>8, <1>9, <1>10, <1>11, <1>12, <1>13,
     <1>14, <1>15, <1>16, <1>17, <1>18, <1>19, Zenon DEF Next, KernelCall, Continue, KernelStep

(***************************************************************************)
(* Terminated processes, when no program sets an alarm.                    *)
(***************************************************************************)

\* The threads of the processes of D have only their kernel call to unwind.
Firm(q, D) ==
  /\ Quiet(q)
  /\ \A t \in Thread :
       q.owner[t] \in D => /\ q.tstate[t] # "sleeping"
                           /\ q.tstate[t] = "ready" => q.reason[t] = "killed"

\* If such a thread is on the CPU, it knows that it was killed.
Struck(q, D) == q.owner[q.running] \in D => q.intr = "killed"

\* With g for joining and h for joiners: who waits for a thread belongs to the
\* same process, and sleeps in no other queue unless that process is one of D.
Queued(q, g, h, D) ==
  \A u, t \in Thread :
    t \in h[u] => /\ q.tstate[u] # "none" /\ q.tstate[t] # "none"
                  /\ q.owner[t] = q.owner[u]
                  /\ q.owner[t] \notin D => q.tstate[t] = "sleeping" /\ g[t] = u

\* The processes that exited or were terminated are user processes.
Condemned(q, D) == \A p \in D : p \in Proc \ {Kernel} /\ q.place[p] # "none"

TInv ==
  /\ Firm(pm, doomed) /\ Struck(pm, doomed) /\ Queued(pm, joining, joiners, doomed)
  /\ Condemned(pm, doomed)
  /\ phase # "lost"

LEMMA SteadyFirm ==
  ASSUME NEW q, NEW r, NEW D, Firm(q, D), Steady(r, q)
  PROVE  Firm(r, D) /\ (Sent(r, q) => Struck(r, D))
<1>1. Quiet(q) /\ Quiet(r) /\ r.owner = q.owner  BY Zenon DEF Firm, Steady
<1>2. Firm(r, D)  BY <1>1, Zenon DEF Firm, Steady
<1>3. Sent(r, q) => Struck(r, D)  BY <1>1, Zenon DEF Firm, Sent, Struck
<1> QED  BY <1>2, <1>3, Zenon

LEMMA SlainFirm ==
  ASSUME NEW q, NEW r, NEW D, NEW p, Firm(q, D), Slain(r, q, p)
  PROVE  Firm(r, D \union {p})
<1>1. Quiet(r)  BY Zenon DEF Firm, Slain
<1> QED  BY <1>1, Zenon DEF Firm, Slain

\* r is q as far as the queues of joiners go: no identifier became free, and
\* only threads of the processes of E were woken.
Settled(r, q, E) ==
  /\ r.owner = q.owner
  /\ \A t \in Thread : /\ r.tstate[t] = "none" => q.tstate[t] = "none"
                       /\ q.tstate[t] = "sleeping" /\ q.owner[t] \notin E
                            => r.tstate[t] = "sleeping"
  /\ \A p \in Proc : r.place[p] = "none" => q.place[p] = "none"

LEMMA SettledTrans ==
  ASSUME NEW q, NEW r, NEW s, NEW E, Settled(r, q, E), Settled(s, r, E)
  PROVE  Settled(s, q, E)
BY Zenon DEF Settled

LEMMA SettledQueued ==
  ASSUME NEW q, NEW r, NEW D, NEW E, D \subseteq E, Settled(r, q, E),
         NEW g, NEW h, NEW j, NEW k, Queued(q, g, h, D),
         \A t, u \in Thread : t \in k[u] => t \in h[u] /\ (q.owner[t] \notin E => j[t] = g[t])
  PROVE  Queued(r, j, k, E)
BY DEF Settled, Queued

LEMMA SteadySettled ==
  ASSUME NEW q, NEW r, NEW E, Quiet(q), Steady(r, q), Gentle(r, q)
  PROVE  Settled(r, q, E)
BY Zenon DEF Settled, Steady, Gentle

\* The running thread of a process outside D gets out of the way.
LEMMA PartedFirm ==
  ASSUME NEW q, NEW r, NEW D, NEW s, s # "ready", s # "interrupted", s # "none",
         q.running \in Thread, q.tstate[q.running] = "running",
         q.owner[q.running] \notin D, Firm(q, D), Parted(r, q, s, "none")
  PROVE  Firm(r, D) /\ Settled(r, q, D)
<1>1. Quiet(r)  BY DEF Firm, Quiet, Parted
<1>2. Firm(r, D)  BY <1>1, Zenon DEF Firm, Parted
<1>3. Settled(r, q, D)  BY Zenon DEF Parted, Settled
<1> QED  BY <1>2, <1>3, Zenon

LEMMA ReapedFirm ==
  ASSUME NEW q, Sound(q), q.running \in Thread, NEW D, Firm(q, D)
  PROVE  LET d == ReapDeferred(q)
         IN  /\ d \in ProcessManagers /\ d.running = q.running /\ d.owner = q.owner
             /\ d.place[Running(d)] = "running" /\ d.tstate[d.running] = "running"
             /\ Firm(d, D) /\ \A E : Settled(d, q, E)
<1>1. PICK d : d = ReapDeferred(q)  BY Zenon
<1>2. Sound(d) /\ d.running = q.running /\ d.owner = q.owner  BY <1>1, ReapDeferredSound, Zenon
<1>3. d \in ProcessManagers /\ d.place[Running(d)] = "running" /\ d.tstate[d.running] = "running"
  BY <1>2, SoundFacts, Zenon
<1>4. Gentle(d, q) /\ Steady(d, q)  BY <1>1, SoundFacts, ReapDeferredGentle, Zenon
<1>5. Firm(d, D)  BY <1>4, SteadyFirm, Zenon
<1>6. \A E : Settled(d, q, E)  BY <1>4, SteadySettled, Zenon DEF Firm
<1> QED  BY <1>1, <1>2, <1>3, <1>5, <1>6, Zenon

LEMMA YieldFirm ==
  ASSUME NEW q, Sound(q), q.running \in Thread, NEW D, Firm(q, D), Running(q) \notin D,
         NEW r \in Schedule(ReapDeferred(q))
  PROVE  Firm(r, D) /\ Struck(r, D) /\ Settled(r, q, D)
<1>1. PICK d : d = ReapDeferred(q)  BY Zenon
<1>2. /\ d \in ProcessManagers /\ d.running = q.running /\ d.owner = q.owner
      /\ d.place[Running(d)] = "running" /\ d.tstate[d.running] = "running"
      /\ Firm(d, D) /\ Settled(d, q, D)
  BY <1>1, ReapedFirm, Zenon
<1>3. Gentle(r, d)  BY <1>1, <1>2, ScheduleGentle, Zenon
<1>4. PICK l : Yielded(l, d) /\ Steady(r, l) /\ Sent(r, l)  BY <1>1, <1>2, ScheduleGentle, Zenon
<1>5. Firm(l, D)
  <2>1. Quiet(l)  BY <1>2, <1>4 DEF Yielded, Firm, Quiet
  <2> QED  BY <1>2, <1>4, <2>1 DEF Yielded, Firm, Running
<1>6. Firm(r, D) /\ Struck(r, D)  BY <1>4, <1>5, SteadyFirm, Zenon
<1>7. Settled(r, d, D)
  <2>1. r.owner = d.owner /\ \A t \in Thread : r.tstate[t] = "none" => d.tstate[t] = "none"
    BY <1>3, Zenon DEF Gentle
  <2>2. \A p \in Proc : r.place[p] = "none" => d.place[p] = "none"  BY <1>3, Zenon DEF Gentle
  <2>3. \A t \in Thread : d.tstate[t] = "sleeping" => r.tstate[t] = "sleeping"
    <3>1. Quiet(l)  BY <1>5, Zenon DEF Firm
    <3> QED  BY <1>2, <1>4, <3>1, Zenon DEF Yielded, Steady
  <2> QED  BY <2>1, <2>2, <2>3, Zenon DEF Settled
<1> QED  BY <1>2, <1>6, <1>7, SettledTrans, Zenon

LEMMA BlockFirm ==
  ASSUME NEW q, Sound(q), q.running \in Thread, NEW D, Firm(q, D), Running(q) \notin D,
         NEW r \in DoSleep(ReapDeferred(q), "none")
  PROVE  /\ Firm(r, D) /\ Struck(r, D) /\ Settled(r, q, D)
         /\ r.tstate[q.running] = "sleeping"
<1>1. PICK d : d = ReapDeferred(q)  BY Zenon
<1>2. /\ d \in ProcessManagers /\ d.running = q.running /\ d.owner = q.owner
      /\ d.place[Running(d)] = "running" /\ d.tstate[d.running] = "running"
      /\ Firm(d, D) /\ Settled(d, q, D)
  BY <1>1, ReapedFirm, Zenon
<1>3. PICK m : /\ Parted(m, d, "sleeping", "none") /\ Gentle(r, m)
               /\ Steady(r, m) /\ Sent(r, m)
  <2>1. "none" \in Alarms  BY Zenon DEF Alarms
  <2> QED  BY <1>1, <1>2, <2>1, DoSleepGentle, Zenon
<1>4. Firm(m, D) /\ Settled(m, d, D)
  <2>1. d.owner[d.running] \notin D  BY <1>2, Zenon DEF Running
  <2> QED  BY <1>2, <1>3, <2>1, PartedFirm, Zenon
<1>5. Firm(r, D) /\ Struck(r, D)  BY <1>3, <1>4, SteadyFirm, Zenon
<1>6. Settled(r, m, D)  BY <1>3, <1>4, SteadySettled, Zenon DEF Firm
<1>7. r.tstate[q.running] = "sleeping"
  <2>1. Quiet(m)  BY <1>4, Zenon DEF Firm
  <2> QED  BY <1>2, <1>3, <2>1, Zenon DEF Parted, Steady
<1> QED  BY <1>2, <1>4, <1>5, <1>6, <1>7, SettledTrans, Zenon

LEMMA ExitThreadFirm ==
  ASSUME NEW q, Sound(q), q.running \in Thread, NEW D, Firm(q, D), Running(q) \notin D,
         NEW e \in Statuses, NEW r \in DoExitThread(ReapDeferred(q), e)
  PROVE  Firm(r, D) /\ Struck(r, D) /\ Settled(r, q, D)
<1>1. PICK d : d = ReapDeferred(q)  BY Zenon
<1>2. /\ d \in ProcessManagers /\ d.running = q.running /\ d.owner = q.owner
      /\ d.place[Running(d)] = "running" /\ d.tstate[d.running] = "running"
      /\ Firm(d, D) /\ Settled(d, q, D)
  BY <1>1, ReapedFirm, Zenon
<1>3. PICK s, m : /\ s \in {"zombie", "deferred"}
                  /\ Parted(m, d, s, "none") /\ Gentle(r, m)
                  /\ Steady(r, m) /\ Sent(r, m)
  BY <1>1, <1>2, DoExitThreadGentle
<1>4. Firm(m, D) /\ Settled(m, d, D)
  <2>1. d.owner[d.running] \notin D  BY <1>2, Zenon DEF Running
  <2> QED  BY <1>2, <1>3, <2>1, PartedFirm, Zenon
<1>5. Firm(r, D) /\ Struck(r, D)  BY <1>3, <1>4, SteadyFirm, Zenon
<1>6. Settled(r, m, D)  BY <1>3, <1>4, SteadySettled, Zenon DEF Firm
<1> QED  BY <1>2, <1>4, <1>5, <1>6, SettledTrans, Zenon

LEMMA ExitFirm ==
  ASSUME NEW q, Sound(q), q.running \in Thread, NEW D, Firm(q, D),
         NEW e \in Statuses, NEW r \in DoExit(ReapDeferred(q), e)
  PROVE  LET E == D \union {Running(q)}
         IN  Firm(r, E) /\ Struck(r, E) /\ Settled(r, q, E)
<1>1. PICK d, p : d = ReapDeferred(q) /\ p = Running(q)  BY Zenon
<1>2. PICK E : E = D \union {p}  BY Zenon
<1>3. /\ d \in ProcessManagers /\ d.running = q.running /\ d.owner = q.owner
      /\ d.place[Running(d)] = "running" /\ d.tstate[d.running] = "running"
      /\ Firm(d, D) /\ Settled(d, q, E)
  BY <1>1, ReapedFirm, Zenon
<1>4. Running(d) = p  BY <1>1, <1>3, Zenon DEF Running
<1>5. PICK m : Parted(m, d, "zombie", "none") /\ Gentle(r, m)
  BY <1>1, <1>3, DoExitGentle, Zenon
<1>6. PICK k : Slain(k, d, p) /\ Steady(r, k) /\ Sent(r, k)
  BY <1>1, <1>3, <1>4, DoExitGentle, Zenon
<1>7. Firm(k, E)  BY <1>2, <1>3, <1>6, SlainFirm, Zenon
<1>8. Firm(r, E) /\ Struck(r, E)  BY <1>6, <1>7, SteadyFirm, Zenon
<1>9. Settled(r, d, E)
  <2>1. r.owner = d.owner /\ \A t \in Thread : r.tstate[t] = "none" => d.tstate[t] = "none"
    BY <1>5, Zenon DEF Gentle, Parted
  <2>2. \A x \in Proc : r.place[x] = "none" => d.place[x] = "none"  BY <1>5, Zenon DEF Gentle, Parted
  <2>3. \A t \in Thread : d.tstate[t] = "sleeping" /\ d.owner[t] \notin E => r.tstate[t] = "sleeping"
    <3>1. Quiet(k)  BY <1>7, Zenon DEF Firm
    <3> QED  BY <1>2, <1>6, <3>1, Zenon DEF Slain, Steady
  <2> QED  BY <2>1, <2>2, <2>3, Zenon DEF Settled
<1> QED  BY <1>1, <1>2, <1>3, <1>8, <1>9, SettledTrans, Zenon

\* The boot state: nobody has exited.
LEMMA InitTInv == Init => TInv
<1> SUFFICES ASSUME Init PROVE TInv  BY Zenon
<1>1. \A t \in Thread : pm.tstate[t] \in {"running", "none"} /\ pm.alarm[t] = "none"
  BY Zenon DEF Init, New
<1>2. doomed = {} /\ phase = "boot" /\ \A u \in Thread : joiners[u] = {}
  BY Zenon DEF Init
<1> QED  BY <1>1, <1>2, Zenon DEF TInv, Firm, Quiet, Struck, Queued, Condemned

\* One round of join_thread() of a process outside D.
LEMMA TryJoinFirm ==
  ASSUME NEW q, Sound(q), NEW t \in Thread, q.running = t, NEW u \in Thread,
         TypeOK, TryJoin(t, q, u),
         NEW D, Firm(q, D), Running(q) \notin D, Queued(q, joining, joiners, D)
  PROVE  /\ Firm(pm', D) /\ Struck(pm', D) /\ Settled(pm', q, D)
         /\ Queued(pm', joining', joiners', D)
<1>0. /\ joining \in [Thread -> Thread \union {NoThread}]
      /\ joiners \in [Thread -> SUBSET Thread]
  BY Zenon DEF TypeOK
<1>1. q \in ProcessManagers /\ q.tstate[t] = "running" /\ q.owner[t] \notin D
  BY SoundFacts, Zenon DEF Running
<1>2. \A v \in Thread : t \notin joiners[v]
  BY <1>1, Zenon DEF Queued
<1>3. ASSUME Gentle(pm', q), Steady(pm', q), pm'.running = t,
             joining' = [joining EXCEPT ![t] = NoThread], joiners' = joiners
      PROVE  /\ Firm(pm', D) /\ Struck(pm', D) /\ Settled(pm', q, D)
             /\ Queued(pm', joining', joiners', D)
  <2>1. Firm(pm', D)  BY <1>3, SteadyFirm, Zenon
  <2>2. Settled(pm', q, D)  BY <1>3, SteadySettled, Zenon DEF Firm
  <2>3. Struck(pm', D)  BY <1>1, <1>3, Zenon DEF Struck, Steady
  <2>4. \A v, w \in Thread : v \in joiners'[w] =>
          v \in joiners[w] /\ (q.owner[v] \notin D => joining'[v] = joining[v])
    BY <1>0, <1>2, <1>3, Zenon
  <2>5. Queued(pm', joining', joiners', D)  BY <2>2, <2>4, SettledQueued
  <2> QED  BY <2>1, <2>2, <2>3, <2>5, Zenon
<1>4. CASE /\ Joinable(q, u) /\ q.tstate[u] = "zombie"
           /\ pm' = Reap(q, {u})
           /\ joining' = [joining EXCEPT ![t] = NoThread]
           /\ UNCHANGED joiners
  <2>1. {u} \in SUBSET Thread /\ \A v \in {u} : q.tstate[v] \in {"zombie", "deferred"}
    BY <1>4, Zenon
  <2>2. Gentle(pm', q) /\ Steady(pm', q)  BY <1>1, <1>4, <2>1, ReapGentle, Zenon
  <2>3. pm'.running = t  BY <1>4, ReapSound, Zenon DEF Joinable
  <2> QED  BY <1>3, <1>4, <2>2, <2>3, Zenon
<1>5. CASE /\ pm' = q
           /\ joining' = [joining EXCEPT ![t] = NoThread]
           /\ UNCHANGED joiners
  <2>1. Gentle(pm', q) /\ Steady(pm', q)  BY <1>5, Zenon DEF Gentle, Steady
  <2> QED  BY <1>3, <1>5, <2>1, Zenon
<1>6. CASE /\ Joinable(q, u) /\ q.tstate[u] # "zombie"
           /\ pm' \in DoSleep(ReapDeferred(q), "none")
           /\ joining' = [joining EXCEPT ![t] = u]
           /\ joiners' = [joiners EXCEPT ![u] = @ \union {t}]
  <2>1. Firm(pm', D) /\ Struck(pm', D) /\ Settled(pm', q, D) /\ pm'.tstate[t] = "sleeping"
    BY <1>6, BlockFirm, Zenon
  <2>2. Queued(pm', joining', joiners', D)
    <3> SUFFICES ASSUME NEW w \in Thread, NEW v \in Thread, v \in joiners'[w]
                 PROVE  /\ pm'.tstate[w] # "none" /\ pm'.tstate[v] # "none"
                        /\ pm'.owner[v] = pm'.owner[w]
                        /\ pm'.owner[v] \notin D => pm'.tstate[v] = "sleeping" /\ joining'[v] = w
      BY Zenon DEF Queued
    <3>1. CASE v = t
      <4>1. w = u /\ joining'[v] = w  BY <1>0, <1>2, <1>6, <3>1, Zenon
      <4>2. q.tstate[u] # "none" /\ q.owner[u] = q.owner[t]  BY <1>6, Zenon DEF Joinable, Running
      <4> QED  BY <2>1, <3>1, <4>1, <4>2, Zenon DEF Settled
    <3>2. CASE v # t
      <4>1. v \in joiners[w] /\ joining'[v] = joining[v]  BY <1>0, <1>6, <3>2, Zenon
      <4> QED  BY <2>1, <4>1 DEF Settled, Queued
    <3> QED  BY <3>1, <3>2, Zenon
  <2> QED  BY <2>1, <2>2, Zenon
<1> QED  BY <1>4, <1>5, <1>6, Zenon DEF TryJoin

\* With h for joiners before the call and k after it: the running thread of q
\* exits in x, and its joiners are notified in r.
Notified(r, k, x, q, h) ==
  LET t == q.running
  IN  /\ t \in Thread \ {KernelThread} /\ h \in [Thread -> SUBSET Thread]
      /\ \E e \in Statuses : x \in DoExitThread(ReapDeferred(q), e)
      /\ r = Wakeup(x, h[t]) /\ k = [h EXCEPT ![t] = {}]

\* exit_thread(): the joiners that are notified sleep, so the error path is not
\* taken, and they belong to a process outside D.
LEMMA NotifyFirm ==
  ASSUME NEW q, Sound(q), NEW D, Firm(q, D), Running(q) \notin D,
         NEW g, NEW h, Queued(q, g, h, D), NEW r, NEW k, NEW x, Notified(r, k, x, q, h)
  PROVE  /\ Firm(r, D) /\ Struck(r, D) /\ Queued(r, g, k, D)
         /\ \A p \in Proc : r.place[p] = "none" => q.place[p] = "none"
         /\ \A u \in h[q.running] : Awakable(x, u)
<1>0. PICK t, e : /\ t \in Thread \ {KernelThread} /\ q.running = t
                  /\ h \in [Thread -> SUBSET Thread] /\ e \in Statuses
                  /\ x \in DoExitThread(ReapDeferred(q), e)
                  /\ r = Wakeup(x, h[t]) /\ k = [h EXCEPT ![t] = {}]
  BY Zenon DEF Notified
<1>1. Sound(x) /\ x.running \in Thread
  <2>1. PICK d : d = ReapDeferred(q)  BY Zenon
  <2>2. Switchable(d) /\ d.running # KernelThread  BY <1>0, <2>1, ReapedFirst, Zenon
  <2> QED  BY <1>0, <2>1, <2>2, DoExitThreadSound, Zenon
<1>2. Firm(x, D) /\ Struck(x, D) /\ Settled(x, q, D)  BY <1>0, ExitThreadFirm, Zenon
<1>3. x \in ProcessManagers /\ AllAwakable(x)  BY <1>1, SoundFacts, Zenon
<1>4. /\ Gentle(r, x) /\ r.intr = x.intr /\ r.running = x.running
      /\ \A u \in Thread : r.tstate[u] = IF u \in h[t] /\ Awakable(x, u) THEN "ready"
                                         ELSE x.tstate[u]
      /\ \A u \in Thread : r.reason[u] = x.reason[u]
      /\ Quiet(x) => Quiet(r)
  <2>1. h[t] \in SUBSET Thread  BY <1>0, Zenon
  <2> QED  BY <1>0, <1>3, <2>1, WakeupGentle
<1>5. r.owner = x.owner /\ x.owner = q.owner /\ q.owner[t] \notin D
  BY <1>0, <1>2, <1>4, Zenon DEF Gentle, Settled, Running
<1>6. \A u \in h[t] : x.tstate[u] = "sleeping" /\ Awakable(x, u) /\ g[u] = t
  <2> SUFFICES ASSUME NEW u \in h[t]
               PROVE  x.tstate[u] = "sleeping" /\ Awakable(x, u) /\ g[u] = t
    BY Zenon
  <2>1. u \in Thread /\ q.owner[u] \notin D /\ q.tstate[u] = "sleeping" /\ g[u] = t
    BY <1>0, <1>5 DEF Queued
  <2>2. x.tstate[u] = "sleeping"  BY <1>2, <2>1, Zenon DEF Settled
  <2> QED  BY <1>3, <2>1, <2>2, Zenon DEF AllAwakable
<1>7. Firm(r, D)
  <2>1. Quiet(r)  BY <1>2, <1>4, Zenon DEF Firm
  <2>2. \A u \in h[t] : x.owner[u] \notin D  BY <1>0, <1>2, <1>6, Zenon DEF Firm
  <2> QED  BY <1>2, <1>4, <1>5, <2>1, <2>2, Zenon DEF Firm
<1>8. Struck(r, D)  BY <1>2, <1>4, <1>5, Zenon DEF Struck
<1>9. Queued(r, g, k, D)
  <2> SUFFICES ASSUME NEW u \in Thread, NEW v \in Thread, v \in k[u]
               PROVE  /\ r.tstate[u] # "none" /\ r.tstate[v] # "none"
                      /\ r.owner[v] = r.owner[u]
                      /\ r.owner[v] \notin D => r.tstate[v] = "sleeping" /\ g[v] = u
    BY Zenon DEF Queued
  <2>1. u # t /\ v \in h[u]  BY <1>0, Zenon
  <2>2. /\ q.tstate[u] # "none" /\ q.tstate[v] # "none" /\ q.owner[v] = q.owner[u]
        /\ q.owner[v] \notin D => q.tstate[v] = "sleeping" /\ g[v] = u
    BY <2>1, Zenon DEF Queued
  <2>3. r.tstate[u] # "none" /\ r.tstate[v] # "none"
    BY <1>2, <1>4, <2>2, Zenon DEF Gentle, Settled
  <2>4. ASSUME q.owner[v] \notin D  PROVE r.tstate[v] = "sleeping" /\ g[v] = u
    <3>1. x.tstate[v] = "sleeping" /\ g[v] = u  BY <1>2, <2>2, <2>4, Zenon DEF Settled
    <3>2. v \notin h[t]  BY <1>6, <2>1, <3>1, Zenon
    <3> QED  BY <1>4, <3>1, <3>2, Zenon
  <2> QED  BY <1>5, <2>2, <2>3, <2>4, Zenon
<1>10. \A p \in Proc : r.place[p] = "none" => q.place[p] = "none"
  BY <1>2, <1>4, Zenon DEF Gentle, Settled
<1> QED  BY <1>0, <1>6, <1>7, <1>8, <1>9, <1>10, Zenon

\* terminate() of another process.
LEMMA TerminateFirm ==
  ASSUME NEW q, Sound(q), q.running \in Thread \ {KernelThread},
         NEW D, Firm(q, D), Running(q) \notin D,
         NEW p \in Proc, Terminable(q, p), NEW r \in Terminate(q, p)
  PROVE  LET E == D \union {p} IN Firm(r, E) /\ Struck(r, E) /\ Settled(r, q, E)
<1>1. PICK E : E = D \union {p}  BY Zenon
<1>2. q \in ProcessManagers /\ q.place[Running(q)] = "running"  BY SoundFacts, Zenon
<1>3. r.running = q.running  BY TerminateSound, Zenon
<1>4. Gentle(r, q)  BY <1>2, TerminateGentle, Zenon
<1>5. PICK k : Slain(k, q, p) /\ Steady(r, k)  BY <1>2, TerminateGentle, Zenon
<1>6. Firm(k, E)  BY <1>1, <1>5, SlainFirm, Zenon
<1>7. Firm(r, E)  BY <1>5, <1>6, SteadyFirm, Zenon
<1>8. Struck(r, E)
  <2>1. Running(q) # p  BY <1>2, Zenon DEF Terminable
  <2> QED  BY <1>1, <1>3, <1>4, <2>1, Zenon DEF Struck, Running, Gentle
<1>9. Settled(r, q, E)
  <2>1. \A t \in Thread : q.tstate[t] = "sleeping" /\ q.owner[t] \notin E => r.tstate[t] = "sleeping"
    <3>1. Quiet(k)  BY <1>6, Zenon DEF Firm
    <3> QED  BY <1>1, <1>5, <3>1, Zenon DEF Slain, Steady
  <2> QED  BY <1>4, <2>1, Zenon DEF Settled, Gentle
<1> QED  BY <1>1, <1>7, <1>8, <1>9, Zenon

\* A new thread of a process p outside D.
LEMMA JoinsFirm ==
  ASSUME NEW q, q.running \in Thread, q.tstate[q.running] = "running",
         NEW D, Firm(q, D), Struck(q, D), NEW g, NEW h, Queued(q, g, h, D), Condemned(q, D),
         NEW u \in Thread, q.tstate[u] = "none", NEW p \in Proc \ D, NEW r, Joins(r, q, u, p)
  PROVE  Firm(r, D) /\ Struck(r, D) /\ Queued(r, g, h, D) /\ Condemned(r, D)
<1>1. Quiet(r)  BY DEF Firm, Quiet, Joins
<1>2. Firm(r, D)  BY <1>1 DEF Firm, Joins
<1>3. Struck(r, D)  BY Zenon DEF Struck, Joins
<1>4. Queued(r, g, h, D)  BY DEF Queued, Joins
<1>5. Condemned(r, D)  BY Zenon DEF Condemned, Joins
<1> QED  BY <1>2, <1>3, <1>4, <1>5, Zenon

\* Without alarms every step leaves the threads of the processes that exited
\* with their kernel call to unwind: one case per action.
LEMMA NextTInv ==
  ASSUME "sleep" \notin Calls
  PROVE  IInv /\ WInv /\ TInv /\ [Next]_vars => TInv'
<1> SUFFICES ASSUME IInv, WInv, TInv, [Next]_vars PROVE TInv'  BY Zenon
<1>0. /\ TypeOK /\ Sound(pm) /\ pm.running \in Thread /\ pc[KernelThread] = "user"
      /\ \A t \in Thread : pc[t] = "join" => joining[t] \in Thread
      /\ Resumed(pm, pc)
      /\ joining \in [Thread -> Thread \union {NoThread}]
      /\ joiners \in [Thread -> SUBSET Thread]
      /\ pm \in ProcessManagers /\ Deferrals(pm) /\ Running(pm) \in Proc
      /\ pm.tstate[pm.running] = "running" /\ pm.place[Running(pm)] = "running"
      /\ Firm(pm, doomed) /\ Struck(pm, doomed) /\ Queued(pm, joining, joiners, doomed)
      /\ Condemned(pm, doomed) /\ phase # "lost"
  <2>1. TypeOK /\ Sound(pm) /\ pm.running \in Thread  BY Zenon DEF IInv
  <2> QED  BY <2>1, SoundFacts, Zenon DEF IInv, WInv, TInv, TypeOK
\* How a step is put together.
<1>a. ASSUME NEW E, doomed' = E, Firm(pm', E), Struck(pm', E),
             Queued(pm', joining', joiners', E), Condemned(pm', E), phase' # "lost"
      PROVE  TInv'
  BY <1>a, Zenon DEF TInv
<1>b. ASSUME NEW r, NEW E, Settled(r, pm, E), Condemned(pm, E)
      PROVE  Condemned(r, E)
  BY <1>b, Zenon DEF Condemned, Settled
<1>c. ASSUME Firm(pm', doomed), Struck(pm', doomed), Settled(pm', pm, doomed),
             UNCHANGED <<joining, joiners, doomed>>, phase' # "lost"
      PROVE  TInv'
  <2>1. Queued(pm', joining', joiners', doomed)
    <3>1. \A t, u \in Thread :
            t \in joiners'[u] => t \in joiners[u] /\ (pm.owner[t] \notin doomed => joining'[t] = joining[t])
      BY <1>c, Zenon
    <3> QED  BY <1>0, <1>c, <3>1, SettledQueued, Zenon
  <2> QED  BY <1>0, <1>a, <1>b, <1>c, <2>1, Zenon
<1>d. ASSUME Gentle(pm', pm), Steady(pm', pm), pm'.running = pm.running, pm'.intr = pm.intr,
             UNCHANGED <<joining, joiners, doomed>>, phase' # "lost"
      PROVE  TInv'
  <2>1. Firm(pm', doomed)  BY <1>0, <1>d, SteadyFirm, Zenon
  <2>2. Struck(pm', doomed)  BY <1>0, <1>d, Zenon DEF Struck, Steady
  <2>3. Settled(pm', pm, doomed)  BY <1>0, <1>d, SteadySettled, Zenon DEF Firm
  <2> QED  BY <1>c, <1>d, <2>1, <2>2, <2>3, Zenon
<1>e. ASSUME pc[pm.running] = "user"  PROVE Running(pm) \notin doomed
  BY <1>0, <1>e, Zenon DEF Struck, Resumed, Running
<1>f. ASSUME NEW u \in Thread, NEW p \in Proc, Joins(pm', pm, u, p), pm.tstate[u] = "none",
             p \notin doomed, UNCHANGED <<joining, joiners, doomed>>, phase' # "lost"
      PROVE  TInv'
  <2>1. p \in Proc \ doomed  BY <1>f, Zenon
  <2>2. Firm(pm', doomed) /\ Struck(pm', doomed) /\ Queued(pm', joining, joiners, doomed)
        /\ Condemned(pm', doomed)
    BY <1>0, <1>f, <2>1, JoinsFirm, Zenon
  <2> QED  BY <1>a, <1>f, <2>2, Zenon
<1>g. ASSUME NEW p \in Proc, pm.place[p] = "none"  PROVE p \notin doomed
  BY <1>0, <1>g, Zenon DEF Condemned
<1>h. ASSUME NEW q, Sound(q), q.running = pm.running, Firm(q, doomed), Settled(q, pm, doomed),
             Running(q) \notin doomed, pm' \in Schedule(ReapDeferred(q)),
             UNCHANGED <<joining, joiners, doomed>>, phase' # "lost"
      PROVE  TInv'
  <2>1. Firm(pm', doomed) /\ Struck(pm', doomed) /\ Settled(pm', q, doomed)
    BY <1>0, <1>h, YieldFirm, Zenon
  <2>2. Settled(pm', pm, doomed)  BY <1>h, <2>1, SettledTrans, Zenon
  <2> QED  BY <1>c, <1>h, <2>1, <2>2, Zenon
\* The reason is taken from the manager.
<1>i. /\ Sound(Taken) /\ Taken.running = pm.running /\ Taken.owner = pm.owner /\ Taken.intr = "none"
      /\ Firm(Taken, doomed) /\ Queued(Taken, joining, joiners, doomed)
      /\ \A E : Settled(Taken, pm, E)
  <2>1. /\ Taken.intr = "none"
        /\ \A h \in {"running", "owner", "place", "tstate", "reason", "alarm"} : Taken[h] = pm[h]
    BY <1>0, Zenon DEF Taken, ProcessManagers
  <2>2. Sound(Taken)  BY <1>0, CosmeticSteps, Zenon DEF Taken
  <2>3. Firm(Taken, doomed)  BY <1>0, <2>1 DEF Firm, Quiet
  <2>4. Queued(Taken, joining, joiners, doomed)  BY <1>0, <2>1 DEF Queued
  <2>5. \A E : Settled(Taken, pm, E)  BY <2>1, Zenon DEF Settled
  <2> QED  BY <2>1, <2>2, <2>3, <2>4, <2>5, Zenon
\* A process that exits, or unwinds after it was killed.
<1>j. ASSUME NEW q, Sound(q), q.running = pm.running, q.owner = pm.owner, pm.running # KernelThread,
             Firm(q, doomed), \A E : Settled(q, pm, E), NEW s \in Statuses,
             Exit(pm.running, q, s), phase' # "lost",
             \A t, u \in Thread :
               t \in joiners'[u] => /\ t \in joiners[u]
                                    /\ t # pm.running => joining'[t] = joining[t]
      PROVE  TInv'
  <2>1. PICK E : E = doomed \union {Running(q)}  BY Zenon
  <2>2. doomed' = E /\ pm' \in DoExit(ReapDeferred(q), s)
    BY <1>j, <2>1, Zenon DEF Exit, Running
  <2>3. Firm(pm', E) /\ Struck(pm', E) /\ Settled(pm', q, E)
    BY <1>0, <1>j, <2>1, <2>2, ExitFirm, Zenon
  <2>4. Settled(pm', pm, E)  BY <1>j, <2>3, SettledTrans, Zenon
  <2>5. Condemned(pm, E)
    <3>1. Running(q) = Running(pm)  BY <1>j, Zenon DEF Running
    <3>2. Running(pm) \in Proc \ {Kernel}  BY <1>0, <1>j, UserProcess, Zenon
    <3> QED  BY <1>0, <2>1, <3>1, <3>2, Zenon DEF Condemned
  <2>6. Queued(pm', joining', joiners', E)
    <3>1. \A t, u \in Thread :
            t \in joiners'[u] => t \in joiners[u] /\ (pm.owner[t] \notin E => joining'[t] = joining[t])
      BY <1>j, <2>1, Zenon DEF Running
    <3>2. doomed \subseteq E  BY <2>1, Zenon
    <3> QED  BY <1>0, <2>4, <3>1, <3>2, SettledQueued
  <2> QED  BY <1>a, <1>b, <1>j, <2>2, <2>3, <2>4, <2>5, <2>6, Zenon
\* One round of join_thread().
<1>k. ASSUME NEW q, Sound(q), q.running = pm.running, q.owner = pm.owner,
             Running(pm) \notin doomed, Firm(q, doomed), Settled(q, pm, doomed),
             NEW u \in Thread, TryJoin(pm.running, q, u), UNCHANGED <<phase, doomed>>
      PROVE  TInv'
  <2>1. Queued(q, joining, joiners, doomed)
    <3>1. \A t, v \in Thread :
            t \in joiners[v] => t \in joiners[v] /\ (pm.owner[t] \notin doomed => joining[t] = joining[t])
      BY Zenon
    <3> QED  BY <1>0, <1>k, <3>1, SettledQueued, Zenon
  <2>2. Running(q) \notin doomed  BY <1>k, Zenon DEF Running
  <2>3. /\ Firm(pm', doomed) /\ Struck(pm', doomed) /\ Settled(pm', q, doomed)
        /\ Queued(pm', joining', joiners', doomed)
    BY <1>0, <1>k, <2>1, <2>2, TryJoinFirm, Zenon
  <2>4. Condemned(pm', doomed)  BY <1>0, <1>b, <1>k, <2>3, SettledTrans, Zenon
  <2> QED  BY <1>0, <1>a, <1>k, <2>3, <2>4, Zenon
<1>1. CASE UNCHANGED vars
  BY <1>0, <1>1, Zenon DEF vars, TInv
<1>2. CASE Boot
  BY <1>0, <1>2, Zenon DEF Boot, TInv
<1>3. ASSUME NEW p \in Proc, NEW t \in Thread, Spawn(p, t)  PROVE TInv'
  BY <1>0, <1>3, <1>f, <1>g, CreateJoins, Zenon DEF Spawn
<1>4. ASSUME NEW t \in Thread, GiveUp(t)  PROVE TInv'
  <2>1. Settled(pm, pm, doomed)  BY Zenon DEF Settled
  <2> QED  BY <1>0, <1>4, <1>e, <1>h, <2>1, Zenon DEF GiveUp, InUser
<1>5. ASSUME NEW t \in Thread, SleepCall(t)  PROVE TInv'
  BY <1>5, Zenon DEF SleepCall
<1>6. ASSUME NEW t \in Thread, NEW s \in Statuses, ExitCall(t, s)  PROVE TInv'
  <2>1. /\ pm.running = t /\ t # KernelThread /\ Exit(t, pm, s)
        /\ UNCHANGED <<joining, joiners, phase>>
    BY <1>6, Zenon DEF ExitCall, InUser
  <2>2. \A E : Settled(pm, pm, E)  BY Zenon DEF Settled
  <2> QED  BY <1>0, <1>j, <2>1, <2>2, Zenon
<1>7. ASSUME NEW t \in Thread, NEW s \in Statuses, ExitThreadCall(t, s)  PROVE TInv'
  <2>1. /\ pm.running = t /\ t # KernelThread /\ pc[t] = "user"
        /\ UNCHANGED <<joining, doomed>> /\ joiners' = [joiners EXCEPT ![t] = {}]
    BY <1>7, Zenon DEF ExitThreadCall, InUser
  <2>2. PICK x \in DoExitThread(ReapDeferred(pm), s) :
          /\ pm' = Wakeup(x, joiners[t])
          /\ phase' = IF joiners[t] # {} /\ \A u \in joiners[t] : ~Awakable(x, u)
                      THEN "lost" ELSE "up"
    BY <1>7, Zenon DEF ExitThreadCall
  <2>3. Running(pm) \notin doomed  BY <1>e, <2>1, Zenon
  <2>4. /\ Firm(pm', doomed) /\ Struck(pm', doomed) /\ Queued(pm', joining, joiners', doomed)
        /\ \A p \in Proc : pm'.place[p] = "none" => pm.place[p] = "none"
        /\ \A u \in joiners[t] : Awakable(x, u)
    <3>1. Notified(pm', joiners', x, pm, joiners)  BY <1>0, <2>1, <2>2, Zenon DEF Notified
    <3> QED  BY <1>0, <2>1, <2>3, <3>1, NotifyFirm
  <2>5. Condemned(pm', doomed)  BY <1>0, <2>4, Zenon DEF Condemned
  <2>6. phase' # "lost"  BY <2>2, <2>4, Zenon
  <2> QED  BY <1>a, <2>1, <2>4, <2>5, <2>6, Zenon
<1>8. ASSUME NEW t \in Thread, NEW u \in Thread, Create(t, u)  PROVE TInv'
  BY <1>0, <1>8, <1>e, <1>f, CreateJoins, Zenon DEF Create, InUser
<1>9. ASSUME NEW t \in Thread, NEW u \in Thread, JoinCall(t, u)  PROVE TInv'
  <2>1. /\ pm.running = t /\ pc[t] = "user" /\ TryJoin(t, ReapDeferred(pm), u)
        /\ UNCHANGED <<phase, doomed>>
    BY <1>9, Zenon DEF JoinCall, InUser
  <2>2. PICK d : d = ReapDeferred(pm)  BY Zenon
  <2>3. Sound(d)  BY <1>0, <2>2, ReapDeferredSound, Zenon
  <2>4. /\ d.running = pm.running /\ d.owner = pm.owner
        /\ Firm(d, doomed) /\ Settled(d, pm, doomed)
    BY <1>0, <2>2, ReapedFirm, Zenon
  <2> QED  BY <1>e, <1>k, <2>1, <2>2, <2>3, <2>4, Zenon
<1>10. ASSUME NEW t \in Thread, NEW u \in Thread, DetachCall(t, u)  PROVE TInv'
  <2>1. PICK d : d = ReapDeferred(pm)  BY Zenon
  <2>2. /\ Sound(d) /\ d \in ProcessManagers /\ d.running = pm.running
    BY <1>0, <2>1, ReapDeferredSound, SoundFacts, Zenon
  <2>3. Gentle(d, pm) /\ Steady(d, pm) /\ d.intr = pm.intr
    BY <1>0, <2>1, ReapDeferredGentle, Zenon
  <2>4. UNCHANGED <<joining, joiners, doomed>> /\ phase' # "lost"  BY <1>0, <1>10, Zenon DEF DetachCall
  <2>5. Gentle(pm', d) /\ Steady(pm', d) /\ pm'.intr = d.intr /\ pm'.running = d.running
    <3>1. CASE /\ d.owner[u] = Running(d) /\ d.tstate[u] = "zombie" /\ pm' = Reap(d, {u})
      <4>1. {u} \in SUBSET Thread /\ \A v \in {u} : d.tstate[v] \in {"zombie", "deferred"}
        BY <3>1, Zenon
      <4>2. pm'.running = d.running  BY <1>0, <2>2, <3>1, ReapSound, Zenon
      <4> QED  BY <2>2, <3>1, <4>1, <4>2, ReapGentle, Zenon
    <3>2. CASE pm' = [d EXCEPT !.detached = @ \union {u}]
      <4>1. \A h \in {"owner", "tstate", "reason", "alarm", "place", "status", "pending",
                      "intr", "running"} : pm'[h] = d[h]
        BY <2>2, <3>2, Zenon DEF ProcessManagers
      <4> QED  BY <4>1, PlaceGentle, PlaceSteady, Zenon
    <3> QED  BY <1>10, <2>1, <3>1, <3>2, Zenon DEF DetachCall
  <2>6. Gentle(pm', pm) /\ Steady(pm', pm)  BY <2>3, <2>5, GentleTrans, SteadyTrans, Zenon
  <2> QED  BY <1>d, <2>2, <2>3, <2>4, <2>5, <2>6, Zenon
<1>11. ASSUME NEW t \in Thread, NEW p \in Proc, TerminateCall(t, p)  PROVE TInv'
  <2>1. /\ pm.running = t /\ t # KernelThread /\ pc[t] = "user"
        /\ Terminable(pm, p) /\ pm' \in Terminate(pm, p)
        /\ UNCHANGED <<joining, joiners, phase>>
    BY <1>11, Zenon DEF TerminateCall, InUser
  <2>2. PICK E : E = doomed \union {p}  BY Zenon
  <2>3. doomed' = E  BY <1>11, <2>2, Zenon DEF TerminateCall
  <2>4. Firm(pm', E) /\ Struck(pm', E) /\ Settled(pm', pm, E)
    BY <1>0, <1>e, <2>1, <2>2, TerminateFirm, Zenon
  <2>5. Condemned(pm', E)
    <3>1. Condemned(pm, E)  BY <1>0, <2>1, <2>2, Zenon DEF Condemned, Terminable
    <3> QED  BY <1>b, <2>4, <3>1, Zenon
  <2>6. Queued(pm', joining', joiners', E)
    <3>1. \A v, u \in Thread :
            v \in joiners'[u] => v \in joiners[u] /\ (pm.owner[v] \notin E => joining'[v] = joining[v])
      BY <2>1, Zenon
    <3>2. doomed \subseteq E  BY <2>2, Zenon
    <3> QED  BY <1>0, <2>4, <3>1, <3>2, SettledQueued
  <2> QED  BY <1>0, <1>a, <2>1, <2>3, <2>4, <2>5, <2>6, Zenon
<1>12. ASSUME NEW t \in Thread, NEW p \in Proc, NEW u \in Thread, Duplicate(t, p, u)
       PROVE  TInv'
  BY <1>0, <1>12, <1>f, <1>g, CreateJoins, Zenon DEF Duplicate
<1>13. ASSUME NEW t \in Thread, SleepReturns(t)  PROVE TInv'
  <2>1. pm' = Taken /\ pm.intr # "killed" /\ UNCHANGED <<joining, joiners, phase, doomed>>
    BY <1>13, Zenon DEF SleepReturns
  <2>2. Struck(Taken, doomed)  BY <1>0, <1>i, <2>1, Zenon DEF Struck
  <2> QED  BY <1>0, <1>c, <1>i, <2>1, <2>2, Zenon
<1>14. ASSUME NEW t \in Thread, JoinReturns(t)  PROVE TInv'
  <2>1. /\ pm.running = t /\ pm.intr = "none" /\ joining[t] \in Thread
        /\ TryJoin(t, Taken, joining[t]) /\ UNCHANGED <<phase, doomed>>
    BY <1>0, <1>14, Zenon DEF JoinReturns, Resuming
  <2>2. Running(pm) \notin doomed  BY <1>0, <2>1, Zenon DEF Struck, Running
  <2> QED  BY <1>i, <1>k, <2>1, <2>2, Zenon
<1>15. ASSUME NEW t \in Thread, Killed(t)  PROVE TInv'
  <2>1. /\ pm.running = t /\ pc[t] # "user" /\ Exit(t, Taken, "interrupted") /\ phase' = phase
        /\ joining' = [joining EXCEPT ![t] = NoThread]
        /\ joiners' = [u \in Thread |-> IF u = joining[t] THEN joiners[u] \ {t} ELSE joiners[u]]
    BY <1>15, Zenon DEF Killed, Resuming
  <2>2. \A v, u \in Thread :
          v \in joiners'[u] => v \in joiners[u] /\ (v # pm.running => joining'[v] = joining[v])
    BY <1>0, <2>1, Zenon
  <2>3. "interrupted" \in Statuses /\ pm.running # KernelThread  BY <1>0, <2>1, Zenon DEF Statuses
  <2> QED  BY <1>0, <1>i, <1>j, <2>1, <2>2, <2>3, Zenon
<1>16. ASSUME NEW t \in Thread, AlarmDue(t)  PROVE TInv'
  BY <1>0, <1>16, Zenon DEF AlarmDue, Firm, Quiet
<1>17. CASE Idle
  <2>1. Settled(pm, pm, doomed)  BY Zenon DEF Settled
  <2> QED  BY <1>0, <1>17, <1>e, <1>h, <2>1, Zenon DEF Idle, KernelRunning
<1>18. ASSUME NEW p \in Proc, Harvest(p) \/ Shutdown(p)  PROVE TInv'
  <2>1. PICK q : q = HarvestZombie(pm, p)  BY Zenon
  <2>2. /\ UNCHANGED <<joining, joiners, doomed>> /\ phase' # "lost"
        /\ pm.running = KernelThread /\ pm.place[p] = "zombie"
    BY <1>18, Zenon DEF Harvest, Shutdown, KernelRunning, IInv
  <2>3. Sound(q) /\ q.running = pm.running
    BY <1>0, <2>1, <2>2, HarvestSound, Zenon
  <2>4. Gentle(q, pm) /\ q.intr = pm.intr /\ Steady(q, pm)
    BY <1>0, <2>1, HarvestGentle, Zenon
  <2>5. CASE pm' = q
    BY <1>d, <2>2, <2>3, <2>4, <2>5, Zenon
  <2>6. CASE pm' \in Schedule(ReapDeferred(q))
    <3>1. Firm(q, doomed) /\ Settled(q, pm, doomed)
      <4>1. Firm(q, doomed)  BY <1>0, <2>4, SteadyFirm, Zenon
      <4>2. Settled(q, pm, doomed)  BY <1>0, <2>4, SteadySettled, Zenon DEF Firm
      <4> QED  BY <4>1, <4>2, Zenon
    <3>2. Running(q) \notin doomed  BY <1>0, <1>e, <2>2, <2>3, <2>4, Zenon DEF Running, Gentle
    <3> QED  BY <1>h, <2>2, <2>3, <2>6, <3>1, <3>2, Zenon
  <2> QED  BY <1>18, <2>1, <2>5, <2>6, Zenon DEF Harvest, Shutdown
<1>19. "ok" \in Statuses  BY Zenon DEF Statuses
<1> QED
  BY <1>1, <1>2, <1>3, <1>4, <1>5, <1>6, <1>7, <1>8, <1>9, <1>10, <1>11, <1>12, <1>13,
     <1>14, <1>15, <1>16, <1>17, <1>18, <1>19, Zenon DEF Next, KernelCall, Continue, KernelStep

=============================================================================
