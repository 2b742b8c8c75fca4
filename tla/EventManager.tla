---------------------------- MODULE EventManager ----------------------------
(***************************************************************************)
(* Messages and events (src/kernel/src/event, ipc/mbx and the polling of   *)
(* messages from the host): send(), recv(), evctrl(), resume(), user       *)
(* exceptions, termination events and bulk pulls, over the scheduler.      *)
(*                                                                         *)
(*   mail     the messages in each process's mailbox, counted by the       *)
(*            thread they are addressed to, NoThread for the process       *)
(*   nbuf     number_buffered_messages                                     *)
(*   waiting  waiting_threads: those registered by a WaitingThreadGuard    *)
(*   queue    the threads in the condition variable they wait on           *)
(*   mask     the events that a thread in recv() looks for                 *)
(*   ownership  the process that owns each event, NoProc if none           *)
(*   ended    pending_scheduling: the processes whose end is not reported  *)
(*   faults   pending_exceptions: the faulting threads                     *)
(*   bulk     PENDING_BULK_PULLS                                           *)
(*   asked    the bulk pulls the host has not answered                     *)
(*   wire     the messages that the host has sent to the kernel            *)
(*                                                                         *)
(* What a message says is left out, and with it the order of messages with *)
(* one destination.  Interrupts are left out: see the README.              *)
(* The variable phase has one more value, panic: the kernel stopped.       *)
(***************************************************************************)
EXTENDS Scheduler, Sequences
LOCAL INSTANCE FiniteSetsExt

CONSTANTS NoProc,
          EventCalls,      \* the calls of this module that the programs make
          MaxIkcMessages,  \* config::kernel::MAX_IKC_MESSAGES
          MaxMail,         \* bound on the messages buffered at a time
          MaxWire          \* bound on the messages of the host at a time

ASSUME EventAssumption ==
  /\ NoProc \notin Proc
  /\ MaxIkcMessages \in Nat /\ MaxMail \in Nat /\ MaxWire \in Nat

Events == {"exception", "termination"}

VARIABLES mail, nbuf, waiting, queue, mask, ownership, ended, faults,
          bulk, asked, wire

mailVars == <<mail, nbuf>>
waitVars == <<waiting, queue, mask>>
eventVars == <<ownership, ended, faults>>
hostVars == <<bulk, asked, wire>>
allVars == <<vars, mailVars, waitVars, eventVars, hostVars>>

HostMessages == [kind : {"message"}, to : Proc] \union [kind : {"pulled"}, to : Thread]

EventTypeOK ==
  /\ pm \in ProcessManagers
  /\ pc \in [Thread -> {"user", "sleep", "join", "recv", "fault", "bulk"}]
  /\ phase \in {"boot", "up", "down", "lost", "panic"}
  /\ mail \in [Proc -> [Thread \union {NoThread} -> Nat]] /\ nbuf \in Nat
  /\ waiting \in SUBSET Thread /\ queue \in SUBSET Thread
  /\ mask \in [Thread -> SUBSET Events]
  /\ ownership \in [Events -> Proc \union {NoProc}]
  /\ ended \in SUBSET Proc /\ faults \in SUBSET Thread
  /\ bulk \in SUBSET Thread /\ asked \in SUBSET Thread
  /\ wire \in Seq(HostMessages)

EventInit ==
  /\ Init
  /\ mail = [p \in Proc |-> [d \in Thread \union {NoThread} |-> 0]]
  /\ nbuf = 0
  /\ waiting = {} /\ queue = {}
  /\ mask = [t \in Thread |-> {}]
  /\ ownership = [e \in Events |-> NoProc]
  /\ ended = {} /\ faults = {}
  /\ bulk = {} /\ asked = {} /\ wire = <<>>

(***************************************************************************)
(* Notifying.                                                              *)
(***************************************************************************)

WaitersOf(p) == {t \in waiting : pm.owner[t] = p}

\* notify_thread() on each thread of S: those still in the queue leave it and
\* are woken.
Notify(q, S) ==
  /\ pm' = Wakeup(q, S \intersect queue)
  /\ queue' = queue \ S

\* One of them could not be woken, because it has been interrupted.
NotifyFails(q, S) == \E t \in S \intersect queue : ~Awakable(q, t)

(***************************************************************************)
(* Messages.                                                               *)
(***************************************************************************)

\* A process, or a thread, that a message can be addressed to.
FindProcess(p) == pm.place[p] \notin {"none", "buried"}
FindThread(t) == pm.tstate[t] \notin {"none", "deferred", "reaped"}

Post_Bug(p, d) == \* the message is not counted
  /\ nbuf < MaxMail
  /\ mail' = [mail EXCEPT ![p][d] = @ + 1]
  /\ UNCHANGED nbuf

Post(p, d) ==
  /\ nbuf < MaxMail
  /\ mail' = [mail EXCEPT ![p][d] = @ + 1]
  /\ nbuf' = nbuf + 1

PostToProcess(p) == Post(p, NoThread) /\ Notify(pm, WaitersOf(p))

PostToThread(u) == Post(pm.owner[u], u) /\ Notify(pm, {u} \intersect waiting)

SendCall(t) ==
  /\ "send" \in EventCalls /\ InUser(t)
  /\ \/ \E p \in Proc \ {Kernel} : FindProcess(p) /\ PostToProcess(p)
     \/ \E u \in Thread \ {KernelThread} : FindThread(u) /\ PostToThread(u)
  /\ UNCHANGED <<pc, joining, joiners, phase, doomed, waiting, mask,
                 eventVars, hostVars>>

\* The destinations of the messages that thread t may take.
Mine(t) == {d \in {t, NoThread} : mail[pm.owner[t]][d] > 0}

\* A message addressed to the thread goes first.
FirstMine(t) == IF t \in Mine(t) THEN t ELSE NoThread

(***************************************************************************)
(* Waiting.                                                                *)
(***************************************************************************)

Faulted(m) == "exception" \in m /\ faults # {}
Ended(m) == "termination" \in m /\ ended # {}

\* Thread t, in the kernel with manager q and event mask m, got something.
Received(t, q) ==
  /\ pm' = q
  /\ pc' = [pc EXCEPT ![t] = "user"]
  /\ waiting' = waiting \ {t}
  /\ mask' = [mask EXCEPT ![t] = {}]
  /\ UNCHANGED queue

\* One round of the loop of wait(): a pending event, else a message, else the
\* thread sleeps.  An exception stays pending until it is resumed.  Which of
\* two pending events comes first depends on a counter; either may.
TryWait(t, q, m) ==
  \/ /\ Faulted(m)
     /\ Received(t, q)
     /\ UNCHANGED <<mailVars, ended, faults>>
  \/ /\ Ended(m)
     /\ \E p \in ended : ended' = ended \ {p}
     /\ Received(t, q)
     /\ UNCHANGED <<mailVars, faults>>
  \/ /\ ~Faulted(m) /\ ~Ended(m) /\ Mine(t) # {}
     /\ mail' = [mail EXCEPT ![pm.owner[t]][FirstMine(t)] = @ - 1]
     /\ nbuf' = nbuf - 1
     /\ Received(t, q)
     /\ UNCHANGED <<ended, faults>>
  \/ /\ ~Faulted(m) /\ ~Ended(m) /\ Mine(t) = {}
     /\ pm' \in DoSleep(ReapDeferred(q), "none")
     /\ pc' = [pc EXCEPT ![t] = "recv"]
     /\ waiting' = waiting \union {t}
     /\ queue' = queue \union {t}
     /\ mask' = [mask EXCEPT ![t] = m]
     /\ UNCHANGED <<mailVars, ended, faults>>

Owned(p) == {e \in Events : ownership[e] = p}

RecvCall(t) ==
  /\ "recv" \in EventCalls /\ InUser(t)
  /\ TryWait(t, pm, Owned(pm.owner[t]))
  /\ UNCHANGED <<joining, joiners, phase, doomed, ownership, hostVars>>

\* The mask is the one of the call, whoever owns the events by now.
RecvReturns(t) ==
  /\ Resuming(t) /\ pc[t] = "recv" /\ pm.intr = "none"
  /\ TryWait(t, Taken, mask[t])
  /\ UNCHANGED <<joining, joiners, phase, doomed, ownership, hostVars>>

(***************************************************************************)
(* Owning events.                                                          *)
(***************************************************************************)

Register(t, e) ==
  /\ "register" \in EventCalls /\ InUser(t)
  /\ ownership[e] = NoProc
  /\ ownership' = [ownership EXCEPT ![e] = pm.owner[t]]
  /\ UNCHANGED <<vars, mailVars, waitVars, ended, faults, hostVars>>

Unregister(t, e) ==
  /\ "unregister" \in EventCalls /\ InUser(t)
  /\ ownership[e] = pm.owner[t]
  /\ ownership' = [ownership EXCEPT ![e] = NoProc]
  /\ UNCHANGED <<vars, mailVars, waitVars, ended, faults, hostVars>>

(***************************************************************************)
(* Leaving.  Nothing is undone for a thread that is killed while it is     *)
(* ready: it never returns into its kernel call.                           *)
(***************************************************************************)

\* What a killed thread undoes on its way out of the call it blocked in.
Unwind(t) ==
  /\ queue' = queue \ {t}
  /\ waiting' = waiting \ {t}
  /\ mask' = [mask EXCEPT ![t] = {}]
  /\ bulk' = bulk \ {t}

EventKilled(t) ==
  /\ Killed(t)
  /\ Unwind(t)
  /\ UNCHANGED <<mailVars, eventVars, asked, wire>>

(***************************************************************************)
(* Exceptions.                                                             *)
(***************************************************************************)

\* The thread faults in user mode.  The exception is pending even when nobody
\* owns it or its owner cannot be notified, and the process exits.
Fault(t) ==
  LET W == WaitersOf(ownership["exception"]) IN
  /\ "fault" \in EventCalls /\ InUser(t)
  /\ faults' = faults \union {t}
  /\ queue' = (queue \ W) \union (IF ownership["exception"] = NoProc
                                     \/ NotifyFails(pm, W) THEN {} ELSE {t})
  /\ LET q == Wakeup(pm, W \intersect queue) IN
     IF ownership["exception"] = NoProc \/ NotifyFails(pm, W)
     THEN Exit(t, q, "interrupted") /\ UNCHANGED pc
     ELSE /\ pm' \in DoSleep(ReapDeferred(q), "none")
          /\ pc' = [pc EXCEPT ![t] = "fault"]
          /\ UNCHANGED doomed
  /\ UNCHANGED <<joining, joiners, phase, mailVars, waiting, mask, ownership,
                 ended, hostVars>>

FaultReturns(t) ==
  /\ Resuming(t) /\ pc[t] = "fault" /\ pm.intr = "none"
  /\ pm' = Taken
  /\ pc' = [pc EXCEPT ![t] = "user"]
  /\ UNCHANGED <<joining, joiners, phase, doomed, mailVars, waitVars, eventVars,
                 hostVars>>

\* resume() of the exception of thread u, by any process.  Nobody may own the
\* exception by now, and that case is not implemented.
ResumeCall(t, u) ==
  /\ "resume" \in EventCalls /\ InUser(t)
  /\ IF ownership["exception"] = NoProc
     THEN phase' = "panic" /\ UNCHANGED <<pm, queue, faults>>
     ELSE /\ u \in faults
          /\ faults' = faults \ {u}
          /\ Notify(pm, {v \in {u} : pc[v] = "fault"})
          /\ UNCHANGED phase
  /\ UNCHANGED <<pc, joining, joiners, doomed, mailVars, waiting, mask, ownership,
                 ended, hostVars>>

(***************************************************************************)
(* Messages of the host, and bulk pulls.                                   *)
(***************************************************************************)

\* pull() from the kernel: the host is asked to fill the buffer.
BulkPull(t) ==
  /\ "pull" \in EventCalls /\ InUser(t)
  /\ pm' \in DoSleep(ReapDeferred(pm), "none")
  /\ pc' = [pc EXCEPT ![t] = "bulk"]
  /\ bulk' = bulk \union {t}
  /\ asked' = asked \union {t}
  /\ queue' = queue \union {t}
  /\ UNCHANGED <<joining, joiners, phase, doomed, mailVars, waiting, mask,
                 eventVars, wire>>

BulkReturns(t) ==
  /\ Resuming(t) /\ pc[t] = "bulk" /\ pm.intr = "none"
  /\ pm' = Taken
  /\ pc' = [pc EXCEPT ![t] = "user"]
  /\ UNCHANGED <<joining, joiners, phase, doomed, mailVars, waitVars, eventVars,
                 hostVars>>

\* The host has filled the buffer, and says so.
HostAnswers(t) ==
  /\ t \in asked
  /\ asked' = asked \ {t}
  /\ wire' = Append(wire, [kind |-> "pulled", to |-> t])
  /\ UNCHANGED <<vars, mailVars, waitVars, eventVars, bulk>>

\* The host sends a message to a process of the guest.
HostSends(p) ==
  /\ "host" \in EventCalls /\ p # Kernel
  /\ Len(wire) < MaxWire
  /\ wire' = Append(wire, [kind |-> "message", to |-> p])
  /\ UNCHANGED <<vars, mailVars, waitVars, eventVars, bulk, asked>>

Complete_Bug(t) == \* the thread is not woken
  /\ bulk' = bulk \ {t}
  /\ UNCHANGED <<pm, queue, mailVars>>

Complete(t) ==
  /\ bulk' = bulk \ {t}
  /\ IF t \in bulk THEN Notify(pm, {t}) ELSE UNCHANGED <<pm, queue>>
  /\ UNCHANGED mailVars


\* poll_ikc_messages() reads one message: at the end of a kernel call, in the
\* interrupt that announces a message, or in the kernel's loop.
Poll ==
  /\ phase = "up" /\ wire # <<>> /\ nbuf < MaxIkcMessages
  /\ LET m == Head(wire) IN
     \/ m.kind = "pulled" /\ Complete(m.to)
     \/ m.kind = "message" /\ FindProcess(m.to) /\ PostToProcess(m.to) /\ UNCHANGED bulk
     \/ m.kind = "message" /\ ~FindProcess(m.to) /\ UNCHANGED <<pm, queue, mailVars, bulk>>
  /\ wire' = Tail(wire)
  /\ UNCHANGED <<pc, joining, joiners, phase, doomed, waiting, mask, eventVars, asked>>

(***************************************************************************)
(* The kernel's loop.                                                      *)
(***************************************************************************)

\* The mailbox and the event ownerships go with the process.
Dropped(p) ==
  /\ mail' = [mail EXCEPT ![p] = [d \in Thread \union {NoThread} |-> 0]]
  /\ ownership' = [e \in Events |-> IF ownership[e] = p THEN NoProc ELSE ownership[e]]

Harvested_Bug(p) == \* the waiting threads are not notified
  /\ ended' = ended \union {p}
  /\ pm' = HarvestZombie(pm, p)
  /\ UNCHANGED queue

\* harvest_zombies() and notify_process_termination().  When nobody owns the
\* termination event, or a thread cannot be notified, the kernel gives up the
\* CPU, unless it has received a message.
Harvested(p) ==
  LET q == HarvestZombie(pm, p)
      W == WaitersOf(ownership'["termination"])
      r == Wakeup(q, W \intersect queue)
  IN
  /\ ended' = ended \union {p}
  /\ queue' = queue \ W
  /\ \/ pm' = r
     \/ /\ ownership'["termination"] = NoProc \/ NotifyFails(q, W)
        /\ pm' \in Schedule(ReapDeferred(r))

EventHarvest(p) ==
  /\ phase \in {"up", "down"} /\ KernelRunning
  /\ pm.place[p] = "zombie"
  /\ Dropped(p)
  /\ IF phase = "up" /\ p # Initd
     THEN Harvested(p) /\ UNCHANGED phase
     ELSE pm' = HarvestZombie(pm, p) /\ phase' = "down" /\ UNCHANGED <<ended, queue>>
  /\ UNCHANGED <<pc, joining, joiners, doomed, nbuf, waiting, mask, faults, hostVars>>

(***************************************************************************)
(* The specification.                                                      *)
(***************************************************************************)

\* The steps of the scheduler that touch neither messages nor events.
OtherStep ==
  /\ \/ Boot \/ Idle
     \/ \E p \in Proc, t \in Thread : Spawn(p, t) \/ TerminateCall(t, p)
     \/ \E t \in Thread : GiveUp(t) \/ ExitCall(t, "ok")
     \/ \E t, u \in Thread : Create(t, u)
  /\ UNCHANGED <<mailVars, waitVars, eventVars, hostVars>>

EventCall(t) ==
  \/ SendCall(t) \/ RecvCall(t) \/ Fault(t) \/ BulkPull(t)
  \/ \E e \in Events : Register(t, e) \/ Unregister(t, e)
  \/ \E u \in Thread : ResumeCall(t, u)

EventContinue(t) == RecvReturns(t) \/ FaultReturns(t) \/ BulkReturns(t) \/ EventKilled(t)

EventNext ==
  \/ OtherStep
  \/ \E t \in Thread : EventCall(t) \/ EventContinue(t) \/ HostAnswers(t)
  \/ \E p \in Proc : EventHarvest(p) \/ HostSends(p)
  \/ Poll

EventSpec == EventInit /\ [][EventNext]_allVars

\* What the CPU does of itself.
EventCpuStep ==
  \/ OtherStep /\ (Boot \/ Idle \/ \E t \in Thread : GiveUp(t))
  \/ \E p \in Proc : EventHarvest(p)
  \/ \E t \in Thread : EventContinue(t)

\* The CPU does not stop; the host answers every bulk pull and announces its
\* messages with an interrupt.
EventFairness ==
  /\ []<>(Quiescent \/ phase = "panic") \/ []<><<EventCpuStep>>_allVars
  /\ \A t \in Thread : WF_allVars(HostAnswers(t))
  /\ WF_allVars(Poll)

EventFairSpec == EventSpec /\ EventFairness

(***************************************************************************)
(* Properties.                                                             *)
(***************************************************************************)

Asleep(t, call) == pm.tstate[t] = "sleeping" /\ pc[t] = call

\* No thread sleeps in recv() while its mailbox holds a message that it could
\* take.
NoMissedMessage == \A t \in Thread : Asleep(t, "recv") => Mine(t) = {}

\* No thread sleeps in recv() while an event is pending that its process owns
\* and owned when it called.
NoMissedEvent ==
  \A t \in Thread :
    Asleep(t, "recv") => LET m == mask[t] \intersect Owned(pm.owner[t])
                         IN  ~Faulted(m) /\ ~Ended(m)

\* recv() sleeps only when there is nothing to receive, whatever arrives between
\* its look and its sleep and whoever else is woken for it.
RecvMissesNothing == NoMissedMessage /\ NoMissedEvent

\* A thread that waits for its exception to be resumed can be resumed.
FaultsCanBeResumed == \A t \in Thread : Asleep(t, "fault") => t \in faults

\* All the messages in the mailboxes.
Total == MapThenSumSet(LAMBDA x : mail[x[1]][x[2]], Proc \X (Thread \union {NoThread}))

\* Receiving a message never finds the count of buffered messages at zero.
CountNeverUnderflows == EventTypeOK /\ Total <= nbuf

\* The count is the number of buffered messages.
CountExact == Total = nbuf

\* A thread that sleeps in a bulk pull has an answer coming, and the entry by
\* which it is found.
BulkPullsTracked ==
  \A t \in Thread :
    Asleep(t, "bulk") =>
      /\ t \in bulk
      /\ t \in asked \/ \E i \in DOMAIN wire : wire[i] = [kind |-> "pulled", to |-> t]

\* A thread that sleeps for a resume or for the answer to a bulk pull is found by
\* what ends its sleep: its exception stays pending, its entry in the table.
SleepersAreFound == FaultsCanBeResumed /\ BulkPullsTracked

=============================================================================
