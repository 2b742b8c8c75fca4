----------------------- MODULE ProcessManagerEffects -----------------------
(***************************************************************************)
(* What the operations of the process manager change: the lists of its     *)
(* threads and processes, the threads that block, and the processes that   *)
(* exit.                                                                   *)
(***************************************************************************)
EXTENDS ProcessManager, TLAPS

\* What every operation below leaves alone in the threads and the counts.
SameThreads(r, q) ==
  /\ r.owner = q.owner /\ r.deferred = q.deferred
  /\ r.tlive = q.tlive /\ r.plive = q.plive

\* r is q with the threads of S moved to list s.
Moved(r, q, S, s) ==
  /\ r \in ProcessManagers
  /\ \A t \in Thread : r.tstate[t] = IF t \in S THEN s ELSE q.tstate[t]
  /\ SameThreads(r, q)
  /\ r.running = q.running /\ r.place = q.place
  /\ r.pending = q.pending /\ r.detached = q.detached

\* r is q with process p on list l.
PutOn(r, q, p, l) ==
  /\ r \in ProcessManagers
  /\ r.place[p] = l /\ \A x \in Proc \ {p} : r.place[x] = q.place[x]
  /\ SameThreads(r, q)
  /\ r.tstate = q.tstate /\ r.running = q.running /\ r.reason = q.reason
  /\ r.pending = q.pending /\ r.detached = q.detached

\* r is q with process p killed: its ready threads are zombies, its sleeping
\* threads are interrupted.
KilledIn(r, q, p) ==
  /\ r \in ProcessManagers
  /\ \A t \in Thread : r.tstate[t] =
       IF q.owner[t] = p /\ q.tstate[t] = "ready" THEN "zombie"
       ELSE IF q.owner[t] = p /\ q.tstate[t] = "sleeping" THEN "interrupted"
       ELSE q.tstate[t]
  /\ SameThreads(r, q)
  /\ r.running = q.running /\ r.place = q.place /\ r.pending = q.pending

\* r is q after the running thread left the CPU for list s of its process.
LeftFor(r, q, s) ==
  /\ r \in ProcessManagers
  /\ \A t \in Thread : r.tstate[t] = IF t = q.running THEN s ELSE q.tstate[t]
  /\ SameThreads(r, q)
  /\ r.running = NoThread /\ r.place = q.place /\ r.pending = q.pending
  /\ r.detached = q.detached

\* Moving threads between lists changes nothing but their states, and the
\* result is a process manager.
LEMMA MoveFacts ==
  ASSUME NEW pm \in ProcessManagers, NEW S \in SUBSET Thread, NEW s \in ThreadStates
  PROVE  Moved(Move(pm, S, s), pm, S, s)
BY Zenon DEF Move, ProcessManagers, ReadyThreads, ThreadStates, Reasons, Alarms, SameThreads, Moved

\* Interrupting threads is moving them to the interrupted list.
LEMMA InterruptFacts ==
  ASSUME NEW pm \in ProcessManagers, NEW S \in SUBSET Thread, NEW e \in Reasons
  PROVE  Moved(Interrupt(pm, S, e), pm, S, "interrupted")
<1>1. "interrupted" \in ThreadStates  BY Zenon DEF ThreadStates
<1>2. PICK q : q = Move(pm, S, "interrupted")  BY Zenon
<1>3. Moved(q, pm, S, "interrupted")
  BY <1>1, <1>2, MoveFacts, Zenon
<1>4. PICK g : g = [t \in Thread |-> IF t \in S THEN e ELSE q.reason[t]]  BY Zenon
<1>5. PICK r : r = Interrupt(pm, S, e)  BY Zenon
<1>6. r = [q EXCEPT !.reason = g]  BY <1>2, <1>4, <1>5, Zenon DEF Interrupt
<1>7. g \in [Thread -> Reasons]  BY <1>3, <1>4, Zenon DEF ProcessManagers, Moved
<1>8. r \in ProcessManagers  BY <1>3, <1>6, <1>7, Zenon DEF ProcessManagers, Moved
<1>9. \A f \in {"tstate", "running", "place", "owner", "deferred", "pending",
                "plive", "tlive", "detached"} : r[f] = q[f]
  BY <1>3, <1>6, Zenon DEF ProcessManagers, Moved
<1>10. Moved(r, pm, S, "interrupted")
  BY <1>3, <1>8, <1>9, Zenon DEF SameThreads, Moved
<1> QED  BY <1>5, <1>10, Zenon

\* Putting a process on a list changes the place of that process only.
LEMMA PutFacts ==
  ASSUME NEW pm \in ProcessManagers, NEW p \in Proc, NEW l \in Places
  PROVE  PutOn(Put(pm, p, l), pm, p, l)
BY Zenon DEF Put, ProcessManagers, SameThreads, PutOn

\* Killing a process moves its ready and its sleeping threads only.
LEMMA KillFacts ==
  ASSUME NEW pm \in ProcessManagers, NEW p \in Proc
  PROVE  KilledIn(Kill(pm, p), pm, p)
<1>1. PICK R, S : R = In(pm, p, "ready") /\ S = In(pm, p, "sleeping")  BY Zenon
<1>2. R \in SUBSET Thread /\ S \in SUBSET Thread  BY <1>1, Zenon DEF In
<1>3. \A t \in Thread : /\ t \in R <=> pm.owner[t] = p /\ pm.tstate[t] = "ready"
                        /\ t \in S <=> pm.owner[t] = p /\ pm.tstate[t] = "sleeping"
  BY <1>1, Zenon DEF In
<1>4. "zombie" \in ThreadStates /\ "killed" \in Reasons  BY Zenon DEF ThreadStates, Reasons
<1>5. PICK q : q = Move(pm, R, "zombie")  BY Zenon
<1>6. Moved(q, pm, R, "zombie")
  BY <1>2, <1>4, <1>5, MoveFacts, Zenon
<1>7. PICK r : r = Interrupt(q, S, "killed")  BY Zenon
<1>8. Moved(r, q, S, "interrupted")
  <2>1. q \in ProcessManagers  BY <1>6, Zenon DEF Moved
  <2> QED  BY <1>2, <1>4, <1>7, <2>1, InterruptFacts, Zenon
<1>9. KilledIn(r, pm, p)
  BY <1>3, <1>6, <1>8, Zenon DEF SameThreads, Moved, KilledIn
<1>10. r = Kill(pm, p)  BY <1>1, <1>5, <1>7, Zenon DEF Kill
<1> QED  BY <1>9, <1>10, Zenon

\* The running thread leaves the CPU and nothing else moves.
LEMMA LeaveFacts ==
  ASSUME NEW pm \in ProcessManagers, pm.running \in Thread, NEW s \in ThreadStates
  PROVE  LeftFor(Leave(pm, s), pm, s)
<1>1. PICK S : S = {pm.running}  BY Zenon
<1>2. S \in SUBSET Thread  BY <1>1, Zenon
<1>3. PICK q : q = Move(pm, S, s)  BY Zenon
<1>4. Moved(q, pm, S, s)
  BY <1>2, <1>3, MoveFacts, Zenon
<1>5. PICK r : r = [q EXCEPT !.running = NoThread]  BY Zenon
<1>6. r \in ProcessManagers /\ r.running = NoThread
  BY <1>4, <1>5, Zenon DEF ProcessManagers, Moved
<1>7. \A f \in {"tstate", "place", "owner", "deferred", "pending", "plive", "tlive", "detached"} :
        r[f] = q[f]
  BY <1>4, <1>5, Zenon DEF ProcessManagers, Moved
<1>8. LeftFor(r, pm, s)
  BY <1>1, <1>4, <1>6, <1>7, Zenon DEF SameThreads, Moved, LeftFor
<1>9. r = Leave(pm, s)  BY <1>1, <1>3, <1>5, Zenon DEF Leave
<1> QED  BY <1>8, <1>9, Zenon

(***************************************************************************)
(* What the operations do to threads that block and to processes that      *)
(* exit.  Gentle(r, q) and Keeps(r, q) relate the manager r that an        *)
(* operation ends with to the manager q it started from; both are          *)
(* transitive, so an operation has them when its parts do.                 *)
(***************************************************************************)

\* The states of a thread that has not exited.
Live == {"running", "ready", "sleeping", "interrupted"}

\* The reason of an interruption stays with a thread until it runs.
ReasonsWait(q) ==
  \A t \in Thread : q.reason[t] # "none" => q.tstate[t] \in {"interrupted", "ready"}

\* Nobody falls asleep, only sleepers are interrupted, a process that loses a
\* thread has no sleeper left, and no identifier becomes free.
Gentle(r, q) ==
  /\ r.owner = q.owner
  /\ \A t \in Thread :
       /\ r.tstate[t] = "sleeping" => q.tstate[t] = "sleeping"
       /\ r.tstate[t] = "interrupted" => q.tstate[t] \in {"sleeping", "interrupted"}
       /\ r.reason[t] # "none" => q.reason[t] # "none" \/ q.tstate[t] = "sleeping"
       /\ r.tstate[t] = "none" => q.tstate[t] = "none"
  /\ \A p \in Proc : r.place[p] = "none" => q.place[p] = "none"
  /\ \A t, u \in Thread :
       q.tstate[t] \in Live /\ r.tstate[t] \notin Live /\ q.owner[u] = q.owner[t]
         => r.tstate[u] # "sleeping"
  /\ ReasonsWait(q) => ReasonsWait(r)

\* A pending exit status stays, until the process is a zombie with it.
Keeps(r, q) ==
  \A p \in Proc :
    /\ q.pending[p] # "none" => \/ r.pending[p] = q.pending[p]
                                \/ r.place[p] = "zombie" /\ r.status[p] = q.pending[p]
    /\ q.place[p] = "zombie" => r.place[p] = "zombie" /\ r.status[p] = q.status[p]

\* The thread that r has switched to gets a reason only if it was blocked in q.
Meant(r, q) ==
  r.intr # "none" => /\ r.running \in Thread
                     /\ q.reason[r.running] # "none" \/ q.tstate[r.running] = "sleeping"

\* No alarm is set, and every interruption is a kill.
Quiet(q) ==
  \A t \in Thread : /\ q.alarm[t] = "none"
                    /\ q.tstate[t] = "interrupted" => q.reason[t] = "killed"

\* Without alarms the same threads sleep, and a thread becomes ready only to
\* find that it was killed.
Steady(r, q) ==
  /\ r.owner = q.owner
  /\ Quiet(q) =>
       /\ Quiet(r)
       /\ \A t \in Thread :
            /\ r.tstate[t] = "sleeping" <=> q.tstate[t] = "sleeping"
            /\ r.tstate[t] = "ready" =>
                 r.reason[t] = "killed" \/ (q.tstate[t] = "ready" /\ q.reason[t] # "killed")

\* Without alarms the thread that r has switched to was killed, or it was ready
\* and not killed in q.
Sent(r, q) ==
  Quiet(q) => /\ r.running \in Thread
              /\ \/ r.intr = "killed"
                 \/ q.tstate[r.running] = "ready" /\ q.reason[r.running] # "killed"

LEMMA GentleTrans ==
  ASSUME NEW q, NEW r, NEW s, Gentle(r, q), Gentle(s, r)
  PROVE  Gentle(s, q)
BY DEF Gentle

LEMMA KeepsTrans ==
  ASSUME NEW q, NEW r, NEW s, Keeps(r, q), Keeps(s, r)
  PROVE  Keeps(s, q)
BY Zenon DEF Keeps

LEMMA MeantTrans ==
  ASSUME NEW q, NEW r, NEW s, Gentle(r, q), Meant(s, r)
  PROVE  Meant(s, q)
BY Zenon DEF Gentle, Meant

LEMMA SteadyTrans ==
  ASSUME NEW q, NEW r, NEW s, Steady(r, q)
  PROVE  (Steady(s, r) => Steady(s, q)) /\ (Sent(s, r) => Sent(s, q))
<1>1. ASSUME Steady(s, r)  PROVE Steady(s, q)
  <2>1. s.owner = q.owner  BY <1>1, Zenon DEF Steady
  <2>2. ASSUME Quiet(q)
        PROVE  /\ Quiet(s)
               /\ \A t \in Thread :
                    /\ s.tstate[t] = "sleeping" <=> q.tstate[t] = "sleeping"
                    /\ s.tstate[t] = "ready" =>
                         s.reason[t] = "killed" \/ (q.tstate[t] = "ready" /\ q.reason[t] # "killed")
    <3>1. Quiet(r) /\ Quiet(s)  BY <1>1, <2>2, Zenon DEF Steady
    <3> QED  BY <1>1, <2>2, <3>1, Zenon DEF Steady
  <2> QED  BY <2>1, <2>2, Zenon DEF Steady
<1>2. ASSUME Sent(s, r), Quiet(q)
      PROVE  /\ s.running \in Thread
             /\ \/ s.intr = "killed"
                \/ q.tstate[s.running] = "ready" /\ q.reason[s.running] # "killed"
  <2>1. Quiet(r)  BY <1>2, Zenon DEF Steady
  <2> QED  BY <1>2, <2>1, Zenon DEF Sent, Steady
<1> QED  BY <1>1, <1>2, Zenon DEF Sent

(***************************************************************************)
(* Moving threads and processes between lists.                             *)
(***************************************************************************)

\* What moving threads does to the fields that Moved() does not mention.
MovedRest(r, q, S, s) ==
  /\ r.status = q.status /\ r.intr = q.intr
  /\ \A t \in Thread :
       /\ r.reason[t] = IF t \in S /\ s # "ready" THEN "none" ELSE q.reason[t]
       /\ r.alarm[t] = IF t \in S THEN "none" ELSE q.alarm[t]

LEMMA MoveRest ==
  ASSUME NEW q \in ProcessManagers, NEW S \in SUBSET Thread, NEW s \in ThreadStates
  PROVE  MovedRest(Move(q, S, s), q, S, s)
BY Zenon DEF Move, ProcessManagers, MovedRest

LEMMA MoveGentle ==
  ASSUME NEW q \in ProcessManagers, NEW S \in SUBSET Thread, NEW s \in ThreadStates \ {"sleeping", "none"},
         s = "interrupted" => \A t \in S : q.tstate[t] \in {"sleeping", "interrupted"},
         s \notin Live => \A t \in S : q.tstate[t] \notin Live,
         NEW r, Moved(r, q, S, s), MovedRest(r, q, S, s)
  PROVE  Gentle(r, q) /\ Keeps(r, q)
<1>1. Gentle(r, q)
  BY Zenon DEF Moved, MovedRest, SameThreads, Gentle, ReasonsWait
<1>2. Keeps(r, q)
  BY Zenon DEF Moved, MovedRest, Keeps
<1> QED  BY <1>1, <1>2, Zenon

LEMMA MoveSteady ==
  ASSUME NEW q \in ProcessManagers, NEW S \in SUBSET Thread,
         NEW s \in ThreadStates \ {"sleeping", "interrupted"},
         \A t \in S : q.tstate[t] # "sleeping",
         s = "ready" => \A t \in S : q.tstate[t] = "interrupted",
         NEW r, Moved(r, q, S, s), MovedRest(r, q, S, s)
  PROVE  Steady(r, q)
<1>1. r.owner = q.owner  BY Zenon DEF Moved, SameThreads
<1>2. ASSUME Quiet(q), NEW t \in Thread
      PROVE  /\ r.alarm[t] = "none" /\ (r.tstate[t] = "interrupted" => r.reason[t] = "killed")
             /\ r.tstate[t] = "sleeping" <=> q.tstate[t] = "sleeping"
             /\ r.tstate[t] = "ready" =>
                  r.reason[t] = "killed" \/ (q.tstate[t] = "ready" /\ q.reason[t] # "killed")
  BY <1>2 DEF Moved, MovedRest, Quiet
<1> QED  BY <1>1, <1>2, Zenon DEF Steady, Quiet

\* r is q with the sleeping threads of S interrupted for reason e.
LEMMA InterruptGentle ==
  ASSUME NEW q \in ProcessManagers, NEW S \in SUBSET Thread, NEW e \in Reasons,
         \A t \in S : q.tstate[t] = "sleeping"
  PROVE  LET r == Interrupt(q, S, e)
         IN  /\ Moved(r, q, S, "interrupted") /\ Gentle(r, q) /\ Keeps(r, q) /\ r.intr = q.intr
             /\ \A t \in Thread : /\ r.reason[t] = IF t \in S THEN e ELSE q.reason[t]
                                  /\ r.alarm[t] = IF t \in S THEN "none" ELSE q.alarm[t]
<1>1. PICK m : m = Move(q, S, "interrupted")  BY Zenon
<1>2. Moved(m, q, S, "interrupted") /\ MovedRest(m, q, S, "interrupted")
  <2>1. "interrupted" \in ThreadStates  BY Zenon DEF ThreadStates
  <2> QED  BY <1>1, <2>1, MoveFacts, MoveRest, Zenon
<1>3. PICK g : g = [t \in Thread |-> IF t \in S THEN e ELSE m.reason[t]]  BY Zenon
<1>4. PICK r : r = Interrupt(q, S, e)  BY Zenon
<1>5. r = [m EXCEPT !.reason = g]  BY <1>1, <1>3, <1>4, Zenon DEF Interrupt
<1>6. Moved(r, q, S, "interrupted")  BY <1>4, InterruptFacts, Zenon
<1>7. r.status = m.status /\ r.intr = m.intr /\ r.reason = g /\ r.alarm = m.alarm
  BY <1>2, <1>5, Zenon DEF Moved, ProcessManagers
<1>8. \A t \in Thread : /\ r.reason[t] = IF t \in S THEN e ELSE q.reason[t]
                        /\ r.alarm[t] = IF t \in S THEN "none" ELSE q.alarm[t]
  BY <1>2, <1>3, <1>7 DEF MovedRest
<1>9. Gentle(r, q)
  BY <1>6, <1>8, Zenon DEF Moved, SameThreads, Gentle, ReasonsWait, Live
<1>10. Keeps(r, q) /\ r.intr = q.intr
  BY <1>2, <1>6, <1>7, Zenon DEF Moved, MovedRest, Keeps
<1> QED  BY <1>4, <1>6, <1>8, <1>9, <1>10, Zenon

\* Nothing that a list of processes is changed for touches a thread.
LEMMA PlaceGentle ==
  ASSUME NEW q, NEW r, r.owner = q.owner, r.tstate = q.tstate, r.reason = q.reason,
         r.pending = q.pending, r.status = q.status,
         \A p \in Proc : /\ q.place[p] = "zombie" => r.place[p] = "zombie"
                         /\ r.place[p] = "none" => q.place[p] = "none"
  PROVE  Gentle(r, q) /\ Keeps(r, q)
BY Zenon DEF Gentle, Keeps, ReasonsWait

LEMMA PlaceSteady ==
  ASSUME NEW q, NEW r, \A h \in {"owner", "tstate", "reason", "alarm"} : r[h] = q[h]
  PROVE  Steady(r, q)
<1>1. r.owner = q.owner /\ r.tstate = q.tstate /\ r.reason = q.reason /\ r.alarm = q.alarm
  BY Zenon
<1>2. Quiet(q) => Quiet(r)  BY <1>1, Zenon DEF Quiet
<1> QED  BY <1>1, <1>2, Zenon DEF Steady

LEMMA PutGentle ==
  ASSUME NEW q \in ProcessManagers, NEW p \in Proc, NEW l \in Places \ {"none"}, q.place[p] # "zombie"
  PROVE  LET r == Put(q, p, l)
         IN  PutOn(r, q, p, l) /\ Gentle(r, q) /\ Keeps(r, q) /\ r.intr = q.intr /\ Steady(r, q)
<1>1. PICK r : r = Put(q, p, l)  BY Zenon
<1>2. PutOn(r, q, p, l)  BY <1>1, PutFacts, Zenon
<1>3. r.status = q.status /\ r.intr = q.intr
  BY <1>1, Zenon DEF Put, ProcessManagers
<1>4. Gentle(r, q) /\ Keeps(r, q)
  BY <1>2, <1>3, PlaceGentle, Zenon DEF PutOn, SameThreads
<1>5. Steady(r, q)
  <2>1. \A h \in {"owner", "tstate", "reason", "alarm"} : r[h] = q[h]
    BY <1>1, Zenon DEF Put, ProcessManagers
  <2> QED  BY <2>1, PlaceSteady, Zenon
<1> QED  BY <1>1, <1>2, <1>3, <1>4, <1>5, Zenon

(***************************************************************************)
(* The parts of the operations that switch.                                *)
(***************************************************************************)

\* A killed process has no sleeper, and its threads that were ready are gone.
LEMMA KillGentle ==
  ASSUME NEW q \in ProcessManagers, NEW p \in Proc
  PROVE  LET r == Kill(q, p)
         IN  /\ KilledIn(r, q, p) /\ Gentle(r, q) /\ Keeps(r, q) /\ r.intr = q.intr
             /\ \A t \in Thread : IF q.owner[t] = p THEN r.tstate[t] \notin {"ready", "sleeping"}
                                 ELSE r.reason[t] = q.reason[t]
             /\ Quiet(q) => Quiet(r)
<1>1. PICK R, S : R = In(q, p, "ready") /\ S = In(q, p, "sleeping")  BY Zenon
<1>2. /\ R \in SUBSET Thread /\ S \in SUBSET Thread
      /\ \A t \in R : q.tstate[t] = "ready"
      /\ \A t \in S : q.tstate[t] = "sleeping" /\ t \notin R
  BY <1>1, Zenon DEF In
<1>3. PICK m : m = Move(q, R, "zombie")  BY Zenon
<1>4. Moved(m, q, R, "zombie") /\ MovedRest(m, q, R, "zombie")
  <2>1. "zombie" \in ThreadStates  BY Zenon DEF ThreadStates
  <2> QED  BY <1>2, <1>3, <2>1, MoveFacts, MoveRest, Zenon
<1>5. m \in ProcessManagers /\ \A t \in S : m.tstate[t] = "sleeping"
  BY <1>2, <1>4, Zenon DEF Moved
<1>6. PICK r : r = Kill(q, p)  BY Zenon
<1>7. r = Interrupt(m, S, "killed")  BY <1>1, <1>3, <1>6, Zenon DEF Kill
<1>8. /\ Gentle(r, m) /\ Keeps(r, m) /\ r.intr = m.intr
      /\ \A t \in Thread : /\ r.reason[t] = IF t \in S THEN "killed" ELSE m.reason[t]
                           /\ r.alarm[t] = IF t \in S THEN "none" ELSE m.alarm[t]
  <2>1. "killed" \in Reasons  BY Zenon DEF Reasons
  <2> QED  BY <1>2, <1>5, <1>7, <2>1, InterruptGentle
<1>9. KilledIn(r, q, p)  BY <1>6, KillFacts, Zenon
<1>10. Keeps(r, q) /\ r.intr = q.intr
  <2>1. Keeps(m, q)  BY <1>4, Zenon DEF Moved, MovedRest, Keeps
  <2> QED  BY <1>4, <1>8, <2>1, KeepsTrans, Zenon DEF MovedRest
<1>11. \A t \in Thread : IF q.owner[t] = p THEN r.tstate[t] \notin {"ready", "sleeping"}
                         ELSE r.reason[t] = q.reason[t]
  <2>1. \A t \in Thread : q.owner[t] = p => r.tstate[t] \notin {"ready", "sleeping"}
    BY <1>9, Zenon DEF KilledIn
  <2>2. \A t \in Thread : t \in R \union S => q.owner[t] = p
    BY <1>1, Zenon DEF In
  <2> QED  BY <1>4, <1>8, <2>1, <2>2, Zenon DEF MovedRest
<1>12. Gentle(r, q)
  <2>1. \A t, u \in Thread :
          q.tstate[t] \in Live /\ r.tstate[t] \notin Live /\ q.owner[u] = q.owner[t]
            => r.tstate[u] # "sleeping"
    BY <1>9, Zenon DEF KilledIn, Live
  <2>2. \A t \in Thread : /\ r.tstate[t] = "sleeping" => q.tstate[t] = "sleeping"
                          /\ r.tstate[t] = "none" => q.tstate[t] = "none"
                          /\ r.tstate[t] = "interrupted" => q.tstate[t] \in {"sleeping", "interrupted"}
    BY <1>9, Zenon DEF KilledIn
  <2>3. \A t \in Thread : r.reason[t] # "none" => q.reason[t] # "none" \/ q.tstate[t] = "sleeping"
    BY <1>4, <1>8 DEF Gentle, Moved, MovedRest
  <2>4. ReasonsWait(q) => ReasonsWait(r)
    <3>1. ReasonsWait(q) => ReasonsWait(m)  BY <1>4, Zenon DEF ReasonsWait, Moved, MovedRest
    <3> QED  BY <1>8, <3>1, Zenon DEF Gentle
  <2> QED  BY <1>9, <2>1, <2>2, <2>3, <2>4, Zenon DEF Gentle, KilledIn, SameThreads
<1>13. Quiet(q) => Quiet(r)
  <2>1. ASSUME Quiet(q), NEW t \in Thread
        PROVE  r.alarm[t] = "none" /\ (r.tstate[t] = "interrupted" => r.reason[t] = "killed")
    <3>1. r.tstate[t] = "interrupted" => t \in S \/ q.tstate[t] = "interrupted"
      BY <1>1, <1>9, Zenon DEF KilledIn, In
    <3>2. q.tstate[t] = "interrupted" => t \notin R  BY <1>2, Zenon
    <3> QED  BY <1>4, <1>8, <2>1, <3>1, <3>2, Zenon DEF Quiet, MovedRest
  <2> QED  BY <2>1, Zenon DEF Quiet
<1> QED  BY <1>6, <1>9, <1>10, <1>11, <1>12, <1>13, Zenon

\* The process that an operation puts back on a list.
LEMMA SettleGentle ==
  ASSUME NEW q \in ProcessManagers, NEW p \in Proc, NEW e \in Statuses,
         q.place[p] # "zombie", NEW r \in Settle(q, p, e)
  PROVE  r \in ProcessManagers /\ Gentle(r, q) /\ Keeps(r, q) /\ r.intr = q.intr /\ Steady(r, q)
<1>1. CASE r = Put(q, p, "ready") \/ r = Put(q, p, "suspended")
  <2>1. "ready" \in Places \ {"none"} /\ "suspended" \in Places \ {"none"}  BY Zenon DEF Places
  <2> QED  BY <1>1, <2>1, PutGentle DEF PutOn
<1>2. ASSUME NEW t \in In(q, p, "interrupted"), r = Resume(q, t)
      PROVE  r \in ProcessManagers /\ Gentle(r, q) /\ Keeps(r, q) /\ r.intr = q.intr /\ Steady(r, q)
  <2>1. t \in Thread /\ q.owner[t] = p /\ q.tstate[t] = "interrupted"  BY <1>2, Zenon DEF In
  <2>2. PICK m : m = Move(q, {t}, "ready")  BY Zenon
  <2>3. Moved(m, q, {t}, "ready") /\ MovedRest(m, q, {t}, "ready")
    <3>1. "ready" \in ThreadStates  BY Zenon DEF ThreadStates
    <3> QED  BY <2>1, <2>2, <3>1, MoveFacts, MoveRest, Zenon
  <2>4. Gentle(m, q) /\ Keeps(m, q) /\ Steady(m, q)
    <3>1. /\ "ready" \in ThreadStates \ {"sleeping", "interrupted"} /\ "ready" \in Live
          /\ {t} \in SUBSET Thread
      BY <2>1, Zenon DEF ThreadStates, Live
    <3>2. Gentle(m, q) /\ Keeps(m, q)  BY <2>3, <3>1, MoveGentle, Zenon
    <3>3. Steady(m, q)  BY <2>1, <2>3, <3>1, MoveSteady, Zenon
    <3> QED  BY <3>2, <3>3, Zenon
  <2>5. r = Put(m, p, "ready") /\ m \in ProcessManagers /\ m.place[p] # "zombie"
    BY <1>2, <2>1, <2>2, <2>3, Zenon DEF Resume, Moved
  <2>6. PutOn(r, m, p, "ready") /\ Gentle(r, m) /\ Keeps(r, m) /\ r.intr = m.intr /\ Steady(r, m)
    <3>1. "ready" \in Places \ {"none"}  BY Zenon DEF Places
    <3> QED  BY <2>5, <3>1, PutGentle, Zenon
  <2>7. Steady(r, q)  BY <2>4, <2>6, SteadyTrans, Zenon
  <2> QED  BY <2>3, <2>4, <2>6, <2>7, GentleTrans, KeepsTrans, Zenon DEF PutOn, MovedRest
<1>3. ASSUME r = [Put(q, p, "zombie") EXCEPT
                    !.status[p] = IF q.pending[p] = "none" THEN e ELSE q.pending[p],
                    !.pending[p] = "none"]
      PROVE  r \in ProcessManagers /\ Gentle(r, q) /\ Keeps(r, q) /\ r.intr = q.intr /\ Steady(r, q)
  <2>1. PICK m : m = Put(q, p, "zombie")  BY Zenon
  <2>2. PutOn(m, q, p, "zombie") /\ m.status = q.status /\ m.intr = q.intr
    <3>1. "zombie" \in Places \ {"none"}  BY Zenon DEF Places
    <3> QED  BY <2>1, <3>1, PutGentle, PutFacts, Zenon DEF Put, ProcessManagers
  <2>3. PICK f, g : /\ f = [m.status EXCEPT ![p] = IF q.pending[p] = "none" THEN e ELSE q.pending[p]]
                    /\ g = [m.pending EXCEPT ![p] = "none"]
    BY Zenon
  <2>4. m \in ProcessManagers  BY <2>2, Zenon DEF PutOn
  <2>5. r = [m EXCEPT !.status = f, !.pending = g]
    BY <1>3, <2>1, <2>3, <2>4, Zenon DEF ProcessManagers
  <2>6. f \in [Proc -> Statuses \union {"none"}] /\ g \in [Proc -> Statuses \union {"none"}]
    BY <2>3, <2>4, Zenon DEF ProcessManagers
  <2>7. r \in ProcessManagers  BY <2>4, <2>5, <2>6, Zenon DEF ProcessManagers
  <2>8. r.status = f /\ r.pending = g /\ \A h \in {"owner", "tstate", "reason", "place", "intr"} : r[h] = m[h]
    BY <2>4, <2>5, Zenon DEF ProcessManagers
  <2>9. Gentle(r, q)
    BY <2>2, <2>8 DEF Gentle, ReasonsWait, PutOn, SameThreads
  <2>10. Keeps(r, q)
    <3>1. r.place[p] = "zombie" /\ \A x \in Proc \ {p} : r.place[x] = q.place[x]
      BY <2>2, <2>8, Zenon DEF PutOn
    <3>2. /\ r.status[p] = IF q.pending[p] = "none" THEN e ELSE q.pending[p]
          /\ \A x \in Proc \ {p} : r.status[x] = q.status[x] /\ r.pending[x] = q.pending[x]
      BY <2>2, <2>3, <2>4, <2>8 DEF PutOn, ProcessManagers
    <3> QED  BY <3>1, <3>2, Zenon DEF Keeps
  <2>11. Steady(r, q)
    <3>1. \A h \in {"owner", "tstate", "reason", "alarm"} : r[h] = q[h]
      BY <1>3, Zenon DEF Put, ProcessManagers
    <3> QED  BY <3>1, PlaceSteady, Zenon
  <2> QED  BY <2>2, <2>7, <2>8, <2>9, <2>10, <2>11, Zenon
<1> QED  BY <1>1, <1>2, <1>3, Zenon DEF Settle

\* The thread that is switched to takes its reason with it.
LEMMA DispatchGentle ==
  ASSUME NEW q \in ProcessManagers, NEW r \in Dispatch(q)
  PROVE  Gentle(r, q) /\ Keeps(r, q) /\ Meant(r, q) /\ Steady(r, q) /\ Sent(r, q)
<1>1. PICK u \in Earliest(q) : r = Run(q, u)  BY Zenon DEF Dispatch
<1>2. PICK p : p = q.owner[u]  BY Zenon
<1>3. u \in Thread /\ p \in Proc /\ q.tstate[u] = "ready" /\ q.place[p] = "ready"
  BY <1>1, <1>2, Zenon DEF Earliest, ReadyThreads, ProcessManagers
<1>4. PICK m : m = Move(q, {u}, "running")  BY Zenon
<1>5. Moved(m, q, {u}, "running") /\ MovedRest(m, q, {u}, "running")
  <2>1. "running" \in ThreadStates  BY Zenon DEF ThreadStates
  <2> QED  BY <1>3, <1>4, <2>1, MoveFacts, MoveRest, Zenon
<1>6. Gentle(m, q) /\ Keeps(m, q)
  <2>1. "running" \in ThreadStates \ {"sleeping", "none"} /\ "running" \in Live /\ {u} \in SUBSET Thread
    BY <1>3, Zenon DEF ThreadStates, Live
  <2> QED  BY <1>5, <2>1, MoveGentle, Zenon
<1>7. PICK n : n = Put(m, p, "running")  BY Zenon
<1>8. PutOn(n, m, p, "running") /\ Gentle(n, m) /\ Keeps(n, m)
  <2>1. "running" \in Places \ {"none"}  BY Zenon DEF Places
  <2>2. m \in ProcessManagers /\ m.place[p] # "zombie"  BY <1>3, <1>5, Zenon DEF Moved
  <2> QED  BY <1>3, <1>7, <2>1, <2>2, PutGentle, Zenon
<1>9. r = [n EXCEPT !.running = u, !.intr = q.reason[u]]
  BY <1>1, <1>2, <1>4, <1>7, Zenon DEF Run
<1>10. /\ r.running = u /\ r.intr = q.reason[u]
       /\ \A h \in {"owner", "tstate", "reason", "place", "status", "pending"} : r[h] = n[h]
  BY <1>8, <1>9, Zenon DEF PutOn, ProcessManagers
<1>11. Gentle(r, n) /\ Keeps(r, n)
  BY <1>10, PlaceGentle, Zenon
<1>12. Meant(r, q)  BY <1>3, <1>10, Zenon DEF Meant
<1>13. Steady(r, q)
  <2>1. Steady(m, q)
    <3>1. "running" \in ThreadStates \ {"sleeping", "interrupted"} /\ {u} \in SUBSET Thread
      BY <1>3, Zenon DEF ThreadStates
    <3> QED  BY <1>3, <1>5, <3>1, MoveSteady, Zenon
  <2>2. \A h \in {"owner", "tstate", "reason", "alarm"} : r[h] = m[h]
    BY <1>5, <1>7, <1>9, Zenon DEF Put, Moved, ProcessManagers
  <2>3. Steady(r, m)  BY <2>2, PlaceSteady, Zenon
  <2> QED  BY <2>1, <2>3, SteadyTrans, Zenon
<1>14. Sent(r, q)  BY <1>3, <1>10, Zenon DEF Sent
<1> QED  BY <1>6, <1>8, <1>11, <1>12, <1>13, <1>14, GentleTrans, KeepsTrans, Zenon

\* Alarms interrupt sleepers of suspended processes.
LEMMA CheckAlarmGentle ==
  ASSUME NEW q \in ProcessManagers
  PROVE  LET r == CheckAlarm(q) IN r \in ProcessManagers /\ Gentle(r, q) /\ Keeps(r, q) /\ Steady(r, q)
<1>1. PICK E : E = Expired(q)  BY Zenon
<1>2. /\ E \in SUBSET Thread
      /\ \A t \in E : q.tstate[t] = "sleeping" /\ q.place[q.owner[t]] = "suspended"
  BY <1>1, Zenon DEF Expired
<1>3. PICK m : m = Interrupt(q, E, "timedout")  BY Zenon
<1>4. /\ Moved(m, q, E, "interrupted") /\ Gentle(m, q) /\ Keeps(m, q)
      /\ \A t \in Thread : /\ m.reason[t] = IF t \in E THEN "timedout" ELSE q.reason[t]
                           /\ m.alarm[t] = IF t \in E THEN "none" ELSE q.alarm[t]
  <2>1. "timedout" \in Reasons  BY Zenon DEF Reasons
  <2> QED  BY <1>2, <1>3, <2>1, InterruptGentle
<1>5. PICK f : f = [p \in Proc |-> IF \E t \in E : q.owner[t] = p THEN "interrupted" ELSE q.place[p]]
  BY Zenon
<1>6. PICK r : r = CheckAlarm(q)  BY Zenon
<1>7. r = [m EXCEPT !.place = f]  BY <1>1, <1>3, <1>5, <1>6, Zenon DEF CheckAlarm
<1>8. m \in ProcessManagers /\ f \in [Proc -> Places]
  BY <1>4, <1>5, Zenon DEF Moved, ProcessManagers, Places
<1>9. r \in ProcessManagers  BY <1>7, <1>8, Zenon DEF ProcessManagers
<1>10. r.place = f /\ \A h \in {"owner", "tstate", "reason", "alarm", "status", "pending"} : r[h] = m[h]
  BY <1>7, <1>8, Zenon DEF ProcessManagers
<1>11. \A p \in Proc : /\ m.place[p] = "zombie" => r.place[p] = "zombie"
                       /\ r.place[p] = "none" => m.place[p] = "none"
  BY <1>2, <1>4, <1>5, <1>10 DEF Moved
<1>12. Gentle(r, m) /\ Keeps(r, m)  BY <1>10, <1>11, PlaceGentle, Zenon
<1>13. Steady(r, q)
  <2>1. r.owner = q.owner  BY <1>4, <1>10, Zenon DEF Moved, SameThreads
  <2>2. ASSUME Quiet(q), NEW t \in Thread
        PROVE  r.tstate[t] = q.tstate[t] /\ r.reason[t] = q.reason[t] /\ r.alarm[t] = q.alarm[t]
    <3>1. E = {}  BY <1>1, <2>2, Zenon DEF Expired, Quiet
    <3> QED  BY <1>4, <1>10, <3>1, Zenon DEF Moved
  <2>3. Quiet(q) => Quiet(r)  BY <2>2, Zenon DEF Quiet
  <2> QED  BY <2>1, <2>2, <2>3, Zenon DEF Steady
<1> QED  BY <1>4, <1>6, <1>9, <1>12, <1>13, GentleTrans, KeepsTrans, Zenon

\* Resuming the interrupted processes.
LEMMA DrainGentle ==
  ASSUME NEW q \in ProcessManagers, NEW R \in Resumable(q)
  PROVE  LET r == Drain(q, R) IN r \in ProcessManagers /\ Gentle(r, q) /\ Keeps(r, q) /\ Steady(r, q)
<1>1. /\ R \in SUBSET Thread
      /\ \A t \in R : q.tstate[t] = "interrupted" /\ q.place[q.owner[t]] = "interrupted"
  BY Zenon DEF Resumable
<1>2. PICK m : m = Move(q, R, "ready")  BY Zenon
<1>3. Moved(m, q, R, "ready") /\ MovedRest(m, q, R, "ready")
  <2>1. "ready" \in ThreadStates  BY Zenon DEF ThreadStates
  <2> QED  BY <1>1, <1>2, <2>1, MoveFacts, MoveRest, Zenon
<1>4. Gentle(m, q) /\ Keeps(m, q)
  <2>1. "ready" \in ThreadStates \ {"sleeping", "none"} /\ "ready" \in Live  BY Zenon DEF ThreadStates, Live
  <2> QED  BY <1>1, <1>3, <2>1, MoveGentle, Zenon
<1>5. PICK f : f = [p \in Proc |-> IF \E t \in R : q.owner[t] = p THEN "ready" ELSE q.place[p]]
  BY Zenon
<1>6. PICK r : r = Drain(q, R)  BY Zenon
<1>7. r = [m EXCEPT !.place = f]  BY <1>2, <1>5, <1>6, Zenon DEF Drain
<1>8. m \in ProcessManagers /\ f \in [Proc -> Places]
  BY <1>3, <1>5, Zenon DEF Moved, ProcessManagers, Places
<1>9. r \in ProcessManagers  BY <1>7, <1>8, Zenon DEF ProcessManagers
<1>10. r.place = f /\ \A h \in {"owner", "tstate", "reason", "alarm", "status", "pending"} : r[h] = m[h]
  BY <1>7, <1>8, Zenon DEF ProcessManagers
<1>11. \A p \in Proc : /\ m.place[p] = "zombie" => r.place[p] = "zombie"
                       /\ r.place[p] = "none" => m.place[p] = "none"
  BY <1>1, <1>3, <1>5, <1>10 DEF Moved
<1>12. Gentle(r, m) /\ Keeps(r, m)  BY <1>10, <1>11, PlaceGentle, Zenon
<1>13. Steady(r, q)
  <2>1. "ready" \in ThreadStates \ {"sleeping", "interrupted"}  BY Zenon DEF ThreadStates
  <2>2. Steady(m, q)  BY <1>1, <1>3, <2>1, MoveSteady, Zenon
  <2>3. Steady(r, m)  BY <1>10, PlaceSteady, Zenon
  <2> QED  BY <2>2, <2>3, SteadyTrans, Zenon
<1> QED  BY <1>4, <1>6, <1>9, <1>12, <1>13, GentleTrans, KeepsTrans, Zenon

\* r is q after the running thread left for list s.
LEMMA LeaveRest ==
  ASSUME NEW q \in ProcessManagers, q.running \in Thread, NEW s \in ThreadStates
  PROVE  LET r == Leave(q, s)
         IN  LeftFor(r, q, s) /\ MovedRest(r, q, {q.running}, s)
<1>1. PICK m : m = Move(q, {q.running}, s)  BY Zenon
<1>2. Moved(m, q, {q.running}, s) /\ MovedRest(m, q, {q.running}, s)
  BY <1>1, MoveFacts, MoveRest, Zenon
<1>3. PICK r : r = Leave(q, s)  BY Zenon
<1>4. r = [m EXCEPT !.running = NoThread]  BY <1>1, <1>3, Zenon DEF Leave
<1>5. \A h \in {"status", "intr", "reason", "alarm"} : r[h] = m[h]
  BY <1>2, <1>4, Zenon DEF Moved, ProcessManagers
<1>6. LeftFor(r, q, s)  BY <1>3, LeaveFacts, Zenon
<1>7. MovedRest(r, q, {q.running}, s)  BY <1>2, <1>5, Zenon DEF MovedRest
<1> QED  BY <1>3, <1>6, <1>7, Zenon

(***************************************************************************)
(* The operations.                                                         *)
(***************************************************************************)

\* r is q with the running thread back on the ready list.
Yielded(r, q) ==
  /\ r.owner = q.owner
  /\ \A t \in Thread : /\ r.tstate[t] = IF t = q.running THEN "ready" ELSE q.tstate[t]
                       /\ r.alarm[t] = IF t = q.running THEN "none" ELSE q.alarm[t]
                       /\ r.reason[t] = q.reason[t]

LEMMA ScheduleGentle ==
  ASSUME NEW q \in ProcessManagers, q.running \in Thread, q.tstate[q.running] = "running",
         q.place[Running(q)] = "running", NEW r \in Schedule(q)
  PROVE  /\ Gentle(r, q) /\ Keeps(r, q) /\ Meant(r, q)
         /\ \E l : Yielded(l, q) /\ Steady(r, l) /\ Sent(r, l)
<1>1. PICK p : p = Running(q)  BY Zenon
<1>2. p \in Proc  BY <1>1, Zenon DEF Running, ProcessManagers
<1>3. PICK l : l = Leave(q, "ready")  BY Zenon
<1>4. LeftFor(l, q, "ready") /\ MovedRest(l, q, {q.running}, "ready")
  <2>1. "ready" \in ThreadStates  BY Zenon DEF ThreadStates
  <2> QED  BY <1>3, <2>1, LeaveRest, Zenon
<1>5. Gentle(l, q) /\ Keeps(l, q)
  BY <1>4, Zenon DEF LeftFor, MovedRest, SameThreads, Gentle, Keeps, ReasonsWait, Live
<1>6. PICK m : m = Put(l, p, "ready")  BY Zenon
<1>7. m \in ProcessManagers /\ Gentle(m, l) /\ Keeps(m, l) /\ Steady(m, l)
  <2>1. l \in ProcessManagers /\ l.place[p] # "zombie" /\ "ready" \in Places \ {"none"}
    BY <1>1, <1>4, Zenon DEF LeftFor, Places
  <2> QED  BY <1>2, <1>6, <2>1, PutGentle, Zenon DEF PutOn
<1>8. PICK n : n = CheckAlarm(m)  BY Zenon
<1>9. n \in ProcessManagers /\ Gentle(n, m) /\ Keeps(n, m) /\ Steady(n, m)
  BY <1>7, <1>8, CheckAlarmGentle, Zenon
<1>10. PICK R \in Resumable(n) : r \in Dispatch(Drain(n, R))
  BY <1>1, <1>3, <1>6, <1>8, Zenon DEF Schedule
<1>11. PICK o : o = Drain(n, R)  BY Zenon
<1>12. o \in ProcessManagers /\ Gentle(o, n) /\ Keeps(o, n) /\ Steady(o, n)
  BY <1>9, <1>11, DrainGentle, Zenon
<1>13. Gentle(r, o) /\ Keeps(r, o) /\ Meant(r, o) /\ Steady(r, o) /\ Sent(r, o)
  BY <1>10, <1>11, <1>12, DispatchGentle, Zenon
<1>14. Gentle(o, q) /\ Keeps(o, q)
  <2>1. Gentle(m, q) /\ Keeps(m, q)  BY <1>5, <1>7, GentleTrans, KeepsTrans, Zenon
  <2>2. Gentle(n, q) /\ Keeps(n, q)  BY <1>9, <2>1, GentleTrans, KeepsTrans, Zenon
  <2> QED  BY <1>12, <2>2, GentleTrans, KeepsTrans, Zenon
<1>15. Steady(r, l) /\ Sent(r, l)
  <2>1. Steady(n, l)  BY <1>7, <1>9, SteadyTrans, Zenon
  <2>2. Steady(o, l)  BY <1>12, <2>1, SteadyTrans, Zenon
  <2> QED  BY <1>13, <2>2, SteadyTrans, Zenon
<1>16. Yielded(l, q)  BY <1>4, Zenon DEF Yielded, LeftFor, MovedRest, SameThreads
<1> QED  BY <1>13, <1>14, <1>15, <1>16, GentleTrans, KeepsTrans, MeantTrans, Zenon

\* A process settles and another thread is dispatched.
LEMMA SwitchGentle ==
  ASSUME NEW q \in ProcessManagers, NEW p \in Proc, NEW e \in Statuses, q.place[p] # "zombie",
         NEW r \in UNION {Dispatch(o) : o \in Settle(q, p, e)}
  PROVE  Gentle(r, q) /\ Keeps(r, q) /\ Meant(r, q) /\ Steady(r, q) /\ Sent(r, q)
<1>1. PICK o \in Settle(q, p, e) : r \in Dispatch(o)  BY Zenon
<1>2. o \in ProcessManagers /\ Gentle(o, q) /\ Keeps(o, q) /\ Steady(o, q)  BY SettleGentle, Zenon
<1>3. Gentle(r, o) /\ Keeps(r, o) /\ Meant(r, o) /\ Steady(r, o) /\ Sent(r, o)
  BY <1>1, <1>2, DispatchGentle, Zenon
<1> QED  BY <1>2, <1>3, GentleTrans, KeepsTrans, MeantTrans, SteadyTrans, Zenon

\* r is q without its running thread, which has gone to list s with alarm a.
Parted(r, q, s, a) ==
  /\ r \in ProcessManagers /\ r.owner = q.owner /\ r.place = q.place
  /\ \A t \in Thread :
       /\ r.tstate[t] = IF t = q.running THEN s ELSE q.tstate[t]
       /\ r.reason[t] = IF t = q.running THEN "none" ELSE q.reason[t]
       /\ r.alarm[t] = IF t = q.running THEN a ELSE q.alarm[t]

LEMMA DoSleepGentle ==
  ASSUME NEW q \in ProcessManagers, q.running \in Thread, q.place[Running(q)] = "running",
         NEW a \in Alarms, NEW r \in DoSleep(q, a)
  PROVE  \E m : /\ Parted(m, q, "sleeping", a) /\ Gentle(r, m) /\ Meant(r, m) /\ Keeps(r, q)
                /\ Steady(r, m) /\ Sent(r, m)
<1>1. PICK t, p : t = q.running /\ p = Running(q)  BY Zenon
<1>2. p \in Proc  BY <1>1, Zenon DEF Running, ProcessManagers
<1>3. PICK l : l = Leave(q, "sleeping")  BY Zenon
<1>4. LeftFor(l, q, "sleeping") /\ MovedRest(l, q, {q.running}, "sleeping")
  <2>1. "sleeping" \in ThreadStates  BY Zenon DEF ThreadStates
  <2> QED  BY <1>3, <2>1, LeaveRest, Zenon
<1>5. PICK f : f = [l.alarm EXCEPT ![t] = a]  BY Zenon
<1>6. PICK m : m = [l EXCEPT !.alarm = f]  BY Zenon
<1>7. m \in ProcessManagers
  <2>1. l \in ProcessManagers /\ f \in [Thread -> Alarms]
    BY <1>1, <1>4, <1>5, Zenon DEF LeftFor, ProcessManagers
  <2> QED  BY <1>6, <2>1, Zenon DEF ProcessManagers
<1>8. \A h \in {"owner", "tstate", "reason", "place", "status", "pending"} : m[h] = l[h]
  BY <1>4, <1>6, Zenon DEF LeftFor, ProcessManagers
<1>9. Parted(m, q, "sleeping", a) /\ Keeps(m, q)
  <2>1. \A u \in Thread : m.alarm[u] = IF u = t THEN a ELSE l.alarm[u]
    BY <1>1, <1>4, <1>5, <1>6, Zenon DEF LeftFor, ProcessManagers
  <2> QED  BY <1>1, <1>4, <1>7, <1>8, <2>1 DEF Parted, Keeps, LeftFor, MovedRest, SameThreads
<1>10. m = [l EXCEPT !.alarm[t] = a]
  BY <1>4, <1>5, <1>6, Zenon DEF LeftFor, ProcessManagers
<1>11. r \in UNION {Dispatch(o) : o \in Settle(m, p, "ok")}
  BY <1>1, <1>3, <1>10, Zenon DEF DoSleep
<1>12. Gentle(r, m) /\ Keeps(r, m) /\ Meant(r, m) /\ Steady(r, m) /\ Sent(r, m)
  <2>1. m.place[p] # "zombie" /\ "ok" \in Statuses
    BY <1>1, <1>4, <1>8, Zenon DEF LeftFor, Statuses
  <2> QED  BY <1>2, <1>7, <1>11, <2>1, SwitchGentle, Zenon
<1> QED  BY <1>9, <1>12, KeepsTrans, Zenon

\* r is q with process p killed: no thread of it is ready or sleeps.
Slain(r, q, p) ==
  /\ r.owner = q.owner
  /\ Quiet(q) => Quiet(r)
  /\ \A t \in Thread : IF q.owner[t] = p THEN r.tstate[t] \notin {"ready", "sleeping"}
                       ELSE r.tstate[t] = q.tstate[t] /\ r.reason[t] = q.reason[t]

LEMMA DoExitGentle ==
  ASSUME NEW q \in ProcessManagers, q.running \in Thread, q.place[Running(q)] = "running",
         NEW e \in Statuses, NEW r \in DoExit(q, e)
  PROVE  /\ \E m : Parted(m, q, "zombie", "none") /\ Gentle(r, m) /\ Meant(r, m)
         /\ Keeps(r, q)
         /\ \A t \in Thread : q.owner[t] = Running(q) => r.tstate[t] # "sleeping"
         /\ \E k : Slain(k, q, Running(q)) /\ Steady(r, k) /\ Sent(r, k)
<1>1. PICK p : p = Running(q)  BY Zenon
<1>2. p \in Proc  BY <1>1, Zenon DEF Running, ProcessManagers
<1>3. PICK l : l = Leave(q, "zombie")  BY Zenon
<1>4. LeftFor(l, q, "zombie") /\ MovedRest(l, q, {q.running}, "zombie")
  <2>1. "zombie" \in ThreadStates  BY Zenon DEF ThreadStates
  <2> QED  BY <1>3, <2>1, LeaveRest, Zenon
<1>5. PICK f : f = [l.pending EXCEPT ![p] = IF @ = "none" THEN e ELSE @]  BY Zenon
<1>6. PICK m : m = [l EXCEPT !.pending = f]  BY Zenon
<1>7. m \in ProcessManagers
  <2>1. l \in ProcessManagers /\ f \in [Proc -> Statuses \union {"none"}]
    BY <1>2, <1>4, <1>5, Zenon DEF LeftFor, ProcessManagers
  <2> QED  BY <1>6, <2>1, Zenon DEF ProcessManagers
<1>8. m.pending = f /\ \A h \in {"owner", "tstate", "reason", "alarm", "place", "status"} : m[h] = l[h]
  BY <1>4, <1>6, Zenon DEF LeftFor, ProcessManagers
<1>9. Parted(m, q, "zombie", "none")
  BY <1>4, <1>7, <1>8 DEF Parted, LeftFor, MovedRest, SameThreads
<1>10. Keeps(m, q)
  <2>1. \A x \in Proc : q.pending[x] # "none" => m.pending[x] = q.pending[x]
    BY <1>2, <1>4, <1>5, <1>8 DEF LeftFor, ProcessManagers
  <2> QED  BY <1>4, <1>8, <2>1, Zenon DEF Keeps, LeftFor, MovedRest
<1>11. m = [l EXCEPT !.pending[p] = IF @ = "none" THEN e ELSE @]
  BY <1>4, <1>5, <1>6, Zenon DEF LeftFor, ProcessManagers
<1>12. PICK k : k = Kill(m, p)  BY Zenon
<1>13. /\ KilledIn(k, m, p) /\ Gentle(k, m) /\ Keeps(k, m)
       /\ \A t \in Thread : IF m.owner[t] = p THEN k.tstate[t] \notin {"ready", "sleeping"}
                           ELSE k.reason[t] = m.reason[t]
       /\ Quiet(m) => Quiet(k)
  BY <1>2, <1>7, <1>12, KillGentle
<1>14. r \in UNION {Dispatch(o) : o \in Settle(k, p, e)}
  BY <1>1, <1>3, <1>11, <1>12, Zenon DEF DoExit
<1>15. Gentle(r, k) /\ Keeps(r, k) /\ Meant(r, k) /\ Steady(r, k) /\ Sent(r, k)
  <2>1. k \in ProcessManagers /\ k.place[p] # "zombie"
    BY <1>1, <1>4, <1>8, <1>13, Zenon DEF LeftFor, KilledIn
  <2> QED  BY <1>2, <1>14, <2>1, SwitchGentle, Zenon
<1>16. Gentle(r, m) /\ Meant(r, m)  BY <1>13, <1>15, GentleTrans, MeantTrans, Zenon
<1>17. Keeps(r, q)  BY <1>10, <1>13, <1>15, KeepsTrans, Zenon
<1>18. \A t \in Thread : q.owner[t] = p => r.tstate[t] # "sleeping"
  BY <1>9, <1>13, <1>15 DEF Parted, Gentle
<1>19. Slain(k, q, p)
  <2>1. Quiet(q) => Quiet(m)  BY <1>9, Zenon DEF Parted, Quiet
  <2>2. q.owner[q.running] = p  BY <1>1, Zenon DEF Running
  <2>3. k.owner = q.owner  BY <1>9, <1>13, Zenon DEF Parted, KilledIn, SameThreads
  <2>4. \A t \in Thread : IF q.owner[t] = p THEN k.tstate[t] \notin {"ready", "sleeping"}
                          ELSE k.tstate[t] = q.tstate[t] /\ k.reason[t] = q.reason[t]
    BY <1>9, <1>13, <2>2 DEF Parted, KilledIn
  <2> QED  BY <1>13, <2>1, <2>3, <2>4, Zenon DEF Slain
<1> QED  BY <1>1, <1>9, <1>15, <1>16, <1>17, <1>18, <1>19, Zenon

LEMMA DoExitThreadGentle ==
  ASSUME NEW q \in ProcessManagers, q.running \in Thread, q.place[Running(q)] = "running",
         NEW e \in Statuses, NEW r \in DoExitThread(q, e)
  PROVE  \E s, m : /\ s \in {"zombie", "deferred"}
                   /\ Parted(m, q, s, "none") /\ Gentle(r, m) /\ Meant(r, m) /\ Keeps(r, q)
                   /\ Steady(r, m) /\ Sent(r, m)
<1>1. PICK t, p : t = q.running /\ p = Running(q)  BY Zenon
<1>2. p \in Proc  BY <1>1, Zenon DEF Running, ProcessManagers
<1>3. ASSUME NEW s \in {"zombie", "deferred"}, NEW l, l = Leave(q, s),
             NEW m \in ProcessManagers,
             \A h \in {"owner", "tstate", "reason", "alarm", "place", "status", "pending"} : m[h] = l[h],
             r \in UNION {Dispatch(o) : o \in Settle(m, p, e)}
      PROVE  /\ Parted(m, q, s, "none") /\ Gentle(r, m) /\ Meant(r, m) /\ Keeps(r, q)
             /\ Steady(r, m) /\ Sent(r, m)
  <2>1. LeftFor(l, q, s) /\ MovedRest(l, q, {q.running}, s) /\ s # "ready"
    <3>1. s \in ThreadStates  BY Zenon DEF ThreadStates
    <3> QED  BY <1>3, <3>1, LeaveRest, Zenon
  <2>2. Parted(m, q, s, "none") /\ Keeps(m, q)
    BY <1>3, <2>1 DEF Parted, Keeps, LeftFor, MovedRest, SameThreads
  <2>3. m.place[p] # "zombie"  BY <1>1, <1>3, <2>1, Zenon DEF LeftFor
  <2>4. Gentle(r, m) /\ Keeps(r, m) /\ Meant(r, m) /\ Steady(r, m) /\ Sent(r, m)
    BY <1>2, <1>3, <2>3, SwitchGentle, Zenon
  <2> QED  BY <2>2, <2>4, KeepsTrans, Zenon
<1>4. "zombie" \in ThreadStates /\ "deferred" \in ThreadStates  BY Zenon DEF ThreadStates
<1>5. CASE r \in UNION {Dispatch(o) : o \in Settle(Leave(q, "zombie"), p, e)}
  <2>1. PICK l : l = Leave(q, "zombie")  BY Zenon
  <2>2. l \in ProcessManagers  BY <1>4, <2>1, LeaveFacts, Zenon DEF LeftFor
  <2>3. /\ Parted(l, q, "zombie", "none") /\ Gentle(r, l) /\ Meant(r, l) /\ Keeps(r, q)
        /\ Steady(r, l) /\ Sent(r, l)
    BY <1>3, <1>5, <2>1, <2>2, Zenon
  <2> QED  BY <2>3
<1>6. CASE r \in UNION {Dispatch(o) :
                o \in Settle([Leave(q, "deferred") EXCEPT !.deferred = @ \union {t}], p, e)}
  <2>1. PICK l : l = Leave(q, "deferred")  BY Zenon
  <2>2. l \in ProcessManagers  BY <1>4, <2>1, LeaveFacts, Zenon DEF LeftFor
  <2>3. PICK d, m : d = l.deferred \union {t} /\ m = [l EXCEPT !.deferred = d]  BY Zenon
  <2>4. d \in SUBSET Thread  BY <1>1, <2>2, <2>3, Zenon DEF ProcessManagers
  <2>5. m \in ProcessManagers  BY <2>2, <2>3, <2>4, Zenon DEF ProcessManagers
  <2>6. \A h \in {"owner", "tstate", "reason", "alarm", "place", "status", "pending"} : m[h] = l[h]
    BY <2>2, <2>3, Zenon DEF ProcessManagers
  <2>7. m = [Leave(q, "deferred") EXCEPT !.deferred = @ \union {t}]
    BY <2>1, <2>2, <2>3, Zenon DEF ProcessManagers
  <2>8. /\ Parted(m, q, "deferred", "none") /\ Gentle(r, m) /\ Meant(r, m) /\ Keeps(r, q)
        /\ Steady(r, m) /\ Sent(r, m)
    BY <1>3, <1>6, <2>1, <2>5, <2>6, <2>7, Zenon
  <2> QED  BY <2>8
<1> QED  BY <1>1, <1>5, <1>6, Zenon DEF DoExitThread

LEMMA TerminateGentle ==
  ASSUME NEW q \in ProcessManagers, NEW p \in Proc, Terminable(q, p), NEW r \in Terminate(q, p)
  PROVE  /\ Gentle(r, q) /\ Keeps(r, q) /\ r.intr = q.intr
         /\ \E k : Slain(k, q, p) /\ Steady(r, k)
<1>1. PICK k : k = Kill(q, p)  BY Zenon
<1>2. /\ KilledIn(k, q, p) /\ Gentle(k, q) /\ Keeps(k, q) /\ k.intr = q.intr
      /\ Slain(k, q, p)
  <2>1. /\ KilledIn(k, q, p) /\ Gentle(k, q) /\ Keeps(k, q) /\ k.intr = q.intr
        /\ \A t \in Thread : IF q.owner[t] = p THEN k.tstate[t] \notin {"ready", "sleeping"}
                             ELSE k.reason[t] = q.reason[t]
        /\ Quiet(q) => Quiet(k)
    BY <1>1, KillGentle
  <2> QED  BY <2>1, Zenon DEF Slain, KilledIn, SameThreads
<1>3. k \in ProcessManagers /\ k.place[p] # "zombie"
  BY <1>2, Zenon DEF KilledIn, Terminable
<1>4. CASE r \in Settle(k, p, "interrupted")
  <2>1. "interrupted" \in Statuses  BY Zenon DEF Statuses
  <2>2. Gentle(r, k) /\ Keeps(r, k) /\ r.intr = k.intr /\ Steady(r, k)
    BY <1>3, <1>4, <2>1, SettleGentle, Zenon
  <2> QED  BY <1>2, <2>2, GentleTrans, KeepsTrans, Zenon
<1>5. CASE r = Put(k, p, "interrupted")
  <2>1. "interrupted" \in Places \ {"none"}  BY Zenon DEF Places
  <2>2. Gentle(r, k) /\ Keeps(r, k) /\ r.intr = k.intr /\ Steady(r, k)
    BY <1>3, <1>5, <2>1, PutGentle, Zenon
  <2> QED  BY <1>2, <2>2, GentleTrans, KeepsTrans, Zenon
<1> QED  BY <1>1, <1>4, <1>5, Zenon DEF Terminate

\* The sleepers of S that can be found are ready.
LEMMA WakeupGentle ==
  ASSUME NEW q \in ProcessManagers, NEW S \in SUBSET Thread
  PROVE  LET r == Wakeup(q, S)
         IN  /\ Gentle(r, q) /\ Keeps(r, q) /\ r.intr = q.intr /\ r.running = q.running
             /\ \A t \in Thread : r.tstate[t] = IF t \in S /\ Awakable(q, t) THEN "ready"
                                                ELSE q.tstate[t]
             /\ \A t \in Thread : r.reason[t] = q.reason[t]
             /\ Quiet(q) => Quiet(r)
<1>1. PICK W : W = {t \in S : Awakable(q, t)}  BY Zenon
<1>2. W \in SUBSET Thread  BY <1>1, Zenon
<1>3. PICK m : m = Move(q, W, "ready")  BY Zenon
<1>4. Moved(m, q, W, "ready") /\ MovedRest(m, q, W, "ready")
  <2>1. "ready" \in ThreadStates  BY Zenon DEF ThreadStates
  <2> QED  BY <1>2, <1>3, <2>1, MoveFacts, MoveRest, Zenon
<1>5. Gentle(m, q) /\ Keeps(m, q)
  <2>1. "ready" \in ThreadStates \ {"sleeping", "none"} /\ "ready" \in Live  BY Zenon DEF ThreadStates, Live
  <2> QED  BY <1>2, <1>4, <2>1, MoveGentle, Zenon
<1>6. PICK f : f = [p \in Proc |-> IF q.place[p] = "suspended" /\ \E t \in W : q.owner[t] = p
                                   THEN "ready" ELSE q.place[p]]
  BY Zenon
<1>7. PICK r : r = Wakeup(q, S)  BY Zenon
<1>8. r = [m EXCEPT !.place = f]  BY <1>1, <1>3, <1>6, <1>7, Zenon DEF Wakeup
<1>9. /\ r.place = f
      /\ \A h \in {"owner", "tstate", "reason", "alarm", "status", "pending", "intr", "running"} : r[h] = m[h]
  BY <1>4, <1>8, Zenon DEF Moved, ProcessManagers
<1>10. \A p \in Proc : /\ m.place[p] = "zombie" => r.place[p] = "zombie"
                       /\ r.place[p] = "none" => m.place[p] = "none"
  BY <1>4, <1>6, <1>9 DEF Moved
<1>11. Gentle(r, m) /\ Keeps(r, m)  BY <1>9, <1>10, PlaceGentle, Zenon
<1>12. \A t \in Thread : r.tstate[t] = IF t \in S /\ Awakable(q, t) THEN "ready" ELSE q.tstate[t]
  BY <1>1, <1>4, <1>9, Zenon DEF Moved
<1>13. r.intr = q.intr /\ r.running = q.running  BY <1>4, <1>9, Zenon DEF Moved, MovedRest
<1>14. Gentle(r, q) /\ Keeps(r, q)  BY <1>5, <1>11, GentleTrans, KeepsTrans, Zenon
<1>15. \A t \in Thread : r.reason[t] = q.reason[t] /\ (q.alarm[t] = "none" => r.alarm[t] = "none")
  BY <1>4, <1>9, Zenon DEF MovedRest
<1>16. Quiet(q) => Quiet(r)  BY <1>12, <1>15, Zenon DEF Quiet
<1> QED  BY <1>7, <1>12, <1>13, <1>14, <1>15, <1>16, Zenon

(***************************************************************************)
(* Reaping, harvesting and creating.                                       *)
(***************************************************************************)

LEMMA ReapGentle ==
  ASSUME NEW q \in ProcessManagers, NEW S \in SUBSET Thread,
         \A t \in S : q.tstate[t] \in {"zombie", "deferred"}
  PROVE  LET r == Reap(q, S)
         IN  /\ Gentle(r, q) /\ Keeps(r, q) /\ r.intr = q.intr /\ Steady(r, q)
             /\ r.pending = q.pending /\ r.status = q.status /\ r.place = q.place
<1>1. PICK m : m = Move(q, S, "reaped")  BY Zenon
<1>2. Moved(m, q, S, "reaped") /\ MovedRest(m, q, S, "reaped")
  <2>1. "reaped" \in ThreadStates  BY Zenon DEF ThreadStates
  <2> QED  BY <1>1, <2>1, MoveFacts, MoveRest, Zenon
<1>3. Gentle(m, q) /\ Keeps(m, q)
  <2>1. "reaped" \in ThreadStates \ {"sleeping", "none"}  BY Zenon DEF ThreadStates
  <2>2. \A t \in S : q.tstate[t] \notin Live  BY Zenon DEF Live
  <2> QED  BY <1>2, <2>1, <2>2, MoveGentle, Zenon
<1>4. PICK r : r = Reap(q, S)  BY Zenon
<1>5. PICK c, d : r = [m EXCEPT !.tlive = c, !.detached = d]
  BY <1>1, <1>4, Zenon DEF Reap
<1>6. \A h \in {"owner", "tstate", "reason", "alarm", "place", "status", "pending", "intr"} : r[h] = m[h]
  BY <1>2, <1>5, Zenon DEF Moved, ProcessManagers
<1>7. Gentle(r, m) /\ Keeps(r, m)  BY <1>6, PlaceGentle, Zenon
<1>8. r.intr = q.intr /\ r.pending = q.pending /\ r.status = q.status /\ r.place = q.place
  BY <1>2, <1>6, Zenon DEF Moved, MovedRest, SameThreads
<1>9. Steady(r, q)
  <2>1. "reaped" \in ThreadStates \ {"sleeping", "interrupted"}  BY Zenon DEF ThreadStates
  <2>2. Steady(m, q)  BY <1>2, <2>1, MoveSteady, Zenon
  <2>3. Steady(r, m)  BY <1>6, PlaceSteady, Zenon
  <2> QED  BY <2>2, <2>3, SteadyTrans, Zenon
<1> QED  BY <1>3, <1>4, <1>7, <1>8, <1>9, GentleTrans, KeepsTrans, Zenon

LEMMA ReapDeferredGentle ==
  ASSUME NEW q \in ProcessManagers, Deferrals(q)
  PROVE  LET r == ReapDeferred(q)
         IN  Gentle(r, q) /\ Keeps(r, q) /\ r.intr = q.intr /\ Steady(r, q)
<1>1. PICK S : S = {t \in q.deferred : q.place[q.owner[t]] # "buried"}  BY Zenon
<1>2. S \in SUBSET Thread /\ \A t \in S : q.tstate[t] \in {"zombie", "deferred"}
  BY <1>1, Zenon DEF Deferrals, ProcessManagers
<1>3. PICK m : m = Reap(q, S)  BY Zenon
<1>4. Gentle(m, q) /\ Keeps(m, q) /\ m.intr = q.intr /\ Steady(m, q)
  BY <1>2, <1>3, ReapGentle, Zenon
<1>5. PICK r : r = ReapDeferred(q)  BY Zenon
<1>6. r = [m EXCEPT !.deferred = {}]  BY <1>1, <1>3, <1>5, Zenon DEF ReapDeferred
<1>7. \A h \in {"owner", "tstate", "reason", "alarm", "place", "status", "pending", "intr"} : r[h] = m[h]
  <2>1. PICK l : l = Move(q, S, "reaped")  BY Zenon
  <2>2. l \in ProcessManagers
    <3>1. "reaped" \in ThreadStates  BY Zenon DEF ThreadStates
    <3> QED  BY <1>2, <2>1, <3>1, MoveFacts, Zenon DEF Moved
  <2>3. PICK c, d : m = [l EXCEPT !.tlive = c, !.detached = d]  BY <1>3, <2>1, Zenon DEF Reap
  <2> QED  BY <1>6, <2>2, <2>3, Zenon DEF ProcessManagers
<1>8. Gentle(r, m) /\ Keeps(r, m)  BY <1>7, PlaceGentle, Zenon
<1>9. Steady(r, m)  BY <1>7, PlaceSteady, Zenon
<1> QED  BY <1>4, <1>5, <1>7, <1>8, <1>9, GentleTrans, KeepsTrans, SteadyTrans, Zenon

\* The harvested process is gone; the exit statuses of the others stay.
LEMMA HarvestGentle ==
  ASSUME NEW q \in ProcessManagers, NEW p \in Proc
  PROVE  LET r == HarvestZombie(q, p)
         IN  Gentle(r, q) /\ r.pending = q.pending /\ r.intr = q.intr /\ Steady(r, q)
<1>1. PICK Z : Z = In(q, p, "zombie")  BY Zenon
<1>2. Z \in SUBSET Thread /\ \A t \in Z : q.tstate[t] \in {"zombie", "deferred"}
  BY <1>1, Zenon DEF In
<1>3. PICK m : m = Reap(q, Z)  BY Zenon
<1>4. Gentle(m, q) /\ m.pending = q.pending /\ m.intr = q.intr /\ Steady(m, q)
  BY <1>2, <1>3, ReapGentle, Zenon
<1>5. PICK r, c, f : /\ r = HarvestZombie(q, p) /\ r = [[m EXCEPT !.place = f] EXCEPT !.plive = c]
                     /\ f = [x \in Proc |-> IF x = p THEN "buried" ELSE m.place[x]]
  BY <1>1, <1>3, Zenon DEF HarvestZombie, Put
<1>6. /\ r.place = f
      /\ \A h \in {"owner", "tstate", "reason", "alarm", "pending", "intr"} : r[h] = m[h]
  <2>1. PICK l : l = Move(q, Z, "reaped")  BY Zenon
  <2>2. l \in ProcessManagers
    <3>1. "reaped" \in ThreadStates  BY Zenon DEF ThreadStates
    <3> QED  BY <1>2, <2>1, <3>1, MoveFacts, Zenon DEF Moved
  <2>3. PICK k, d : m = [l EXCEPT !.tlive = k, !.detached = d]  BY <1>3, <2>1, Zenon DEF Reap
  <2> QED  BY <1>5, <2>2, <2>3, Zenon DEF ProcessManagers
<1>7. Gentle(r, m)
  <2>1. \A x \in Proc : r.place[x] = "none" => m.place[x] = "none"  BY <1>5, <1>6
  <2> QED  BY <1>6, <2>1, Zenon DEF Gentle, ReasonsWait
<1>8. Steady(r, m)  BY <1>6, PlaceSteady, Zenon
<1> QED  BY <1>4, <1>5, <1>6, <1>7, <1>8, GentleTrans, SteadyTrans, Zenon

\* r is q with the new thread u, ready, in process p; nothing else happens to a
\* thread or to an exit status.
Joins(r, q, u, p) ==
  /\ \A t \in Thread : /\ r.tstate[t] = IF t = u THEN "ready" ELSE q.tstate[t]
                       /\ r.owner[t] = IF t = u THEN p ELSE q.owner[t]
                       /\ r.alarm[t] = IF t = u THEN "none" ELSE q.alarm[t]
  /\ r.reason = q.reason /\ r.intr = q.intr /\ r.running = q.running
  /\ r.pending = q.pending
  /\ \A x \in Proc : r.place[x] = "none" => q.place[x] = "none"

LEMMA CreateJoins ==
  ASSUME NEW q \in ProcessManagers, NEW u \in Thread, NEW p \in Proc
  PROVE  Joins(CreateThread(q, u, p), q, u, p) /\ Joins(CreateProcess(q, p, u), q, u, p)
<1>1. PICK o, l : o = [q.owner EXCEPT ![u] = p] /\ l = [q EXCEPT !.owner = o]  BY Zenon
<1>2. l \in ProcessManagers /\ l.owner = o
  BY <1>1, Zenon DEF ProcessManagers
<1>3. \A h \in {"tstate", "reason", "alarm", "intr", "running", "pending", "place"} : l[h] = q[h]
  BY <1>1, Zenon DEF ProcessManagers
<1>4. PICK m : m = Move(l, {u}, "ready")  BY Zenon
<1>5. Moved(m, l, {u}, "ready") /\ MovedRest(m, l, {u}, "ready")
  <2>1. {u} \in SUBSET Thread /\ "ready" \in ThreadStates  BY Zenon DEF ThreadStates
  <2> QED  BY <1>2, <1>4, <2>1, MoveFacts, MoveRest, Zenon
<1>6. m \in ProcessManagers /\ m.reason = l.reason
  BY <1>2, <1>5 DEF Moved, MovedRest, ProcessManagers
<1>7. Joins(m, q, u, p)
  <2>1. \A t \in Thread : o[t] = IF t = u THEN p ELSE q.owner[t]
    BY <1>1, Zenon DEF ProcessManagers
  <2> QED  BY <1>2, <1>3, <1>5, <1>6, <2>1 DEF Joins, Moved, MovedRest, SameThreads
<1>8. PICK c : c = m.tlive + 1  BY Zenon
<1>9. PICK r : r = [m EXCEPT !.tlive = c]  BY Zenon
<1>10. r = CreateThread(q, u, p)
  <2>1. l = [q EXCEPT !.owner[u] = p]  BY <1>1, Zenon DEF ProcessManagers
  <2> QED  BY <1>4, <1>6, <1>8, <1>9, <2>1, Zenon DEF CreateThread, ProcessManagers
<1>11. Joins(r, q, u, p)
  BY <1>6, <1>7, <1>9, Zenon DEF Joins, ProcessManagers
<1>12. PICK k, d, f : /\ k = CreateProcess(q, p, u) /\ k = [[r EXCEPT !.place = f] EXCEPT !.plive = d]
                      /\ f = [x \in Proc |-> IF x = p THEN "ready" ELSE r.place[x]]
  BY <1>10, Zenon DEF CreateProcess, Put
<1>13. Joins(k, q, u, p)
  <2>1. \A h \in {"tstate", "owner", "reason", "alarm", "intr", "running", "pending"} : k[h] = m[h]
    BY <1>6, <1>9, <1>12, Zenon DEF ProcessManagers
  <2>2. k.place = f /\ r.place = m.place  BY <1>6, <1>9, <1>12, Zenon DEF ProcessManagers
  <2>3. \A x \in Proc : k.place[x] = "none" => m.place[x] = "none"  BY <1>12, <2>2, Zenon
  <2> QED  BY <1>7, <2>1, <2>3 DEF Joins
<1> QED  BY <1>10, <1>11, <1>12, <1>13, Zenon

=============================================================================
