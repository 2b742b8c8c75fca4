----------------------------- MODULE Rendezvous -----------------------------
(***************************************************************************)
(* push() and pull() (src/kernel/src/ipc): a thread hands a buffer to a    *)
(* thread it names, and the first of the two to arrive sleeps until the    *)
(* second has copied the data between the two address spaces.  Composed    *)
(* with the scheduler: a process that exits or is terminated cleans up the *)
(* requests that name it.                                                  *)
(*                                                                         *)
(*   pushes   the pending pushes, and                                      *)
(*   pulls    the pending pulls: the sleeping thread, the process and the  *)
(*            thread it named, the length, and whether its buffer is       *)
(*            mapped                                                       *)
(*   bytes    the bytes_transferred that a blocked puller shares with its  *)
(*            pending request                                              *)
(*   met      the bytes that a counterpart copied from or to the buffer of *)
(*            a blocked thread, NotMet if there was none                   *)
(*   outcome  what the push or pull that returned in the last step         *)
(*            returned, and the bytes that were copied for it              *)
(*                                                                         *)
(* The variable phase has one more value, panic: the kernel stopped.       *)
(***************************************************************************)
EXTENDS Scheduler, Integers

CONSTANTS Lengths,  \* the transfer lengths of the programs
          Buffers,  \* their buffers: mapped (TRUE) or not (FALSE)
          Peers     \* the <<process, thread>> pairs that they name

ASSUME LengthsAssumption == Lengths \subseteq Nat /\ Buffers \subseteq BOOLEAN
ASSUME PeersAssumption == Peers \subseteq (Proc \ {Kernel}) \X Thread

VARIABLES pushes, pulls, bytes, met, outcome

ipcVars == <<pushes, pulls, bytes, met, outcome>>
allVars == <<vars, ipcVars>>

Requests == [tid : Thread, peer : Peers, len : Lengths, mapped : Buffers]

NotMet == -1
NoOutcome == [call |-> "none", ret |-> 0, met |-> NotMet]
Outcomes == [call : {"none", "push", "pull"}, ret : Nat, met : Nat \union {NotMet}]

IpcTypeOK ==
  /\ pm \in ProcessManagers
  /\ pc \in [Thread -> {"user", "sleep", "join", "push", "pull"}]
  /\ phase \in {"boot", "up", "down", "lost", "panic"}
  /\ pushes \in SUBSET Requests /\ pulls \in SUBSET Requests
  /\ bytes \in [Thread -> Nat] /\ met \in [Thread -> Nat \union {NotMet}]
  /\ outcome \in Outcomes

IpcInit ==
  /\ Init
  /\ pushes = {} /\ pulls = {}
  /\ bytes = [t \in Thread |-> 0]
  /\ met = [t \in Thread |-> NotMet]
  /\ outcome = NoOutcome

(***************************************************************************)
(* The two kernel calls.                                                   *)
(***************************************************************************)

\* Pending request e waits for the caller t of process p, and t names it.
Matches(e, t, peer) ==
  /\ e.peer = <<pm.owner[t], t>>
  /\ peer = <<pm.owner[e.tid], e.tid>>

Least(a, b) == IF a < b THEN a ELSE b

\* cross_process_copy() succeeds when both buffers are mapped; nothing is
\* copied when one side has room for nothing.
Copies(e, r) == Least(e.len, r.len) = 0 \/ (e.mapped /\ r.mapped)

\* No counterpart is waiting: the request is registered and its thread sleeps.
Register(t, call) ==
  /\ pm' \in DoSleep(ReapDeferred(pm), "none")
  /\ pc' = [pc EXCEPT ![t] = call]
  /\ outcome' = NoOutcome
  /\ UNCHANGED <<joining, joiners, phase, doomed, met>>

\* The counterpart e is waiting: the data is copied and its thread is woken.
\* When the copy fails the counterpart is woken all the same, and the caller
\* gets the error.
Meet(e, r, call) ==
  LET n == Least(e.len, r.len) IN
  /\ pm' = Wakeup(pm, {e.tid})
  /\ met' = [met EXCEPT ![e.tid] = IF Copies(e, r) THEN n ELSE NotMet]
  /\ outcome' = IF Copies(e, r) /\ Awakable(pm, e.tid)
                THEN [call |-> call, ret |-> n, met |-> n]
                ELSE NoOutcome
  /\ UNCHANGED <<pc, joining, joiners, phase, doomed>>

PushCall_Bug(t, r) == \* the byte count is stored before it is known
  /\ InUser(t) /\ r.peer[2] # t
  /\ \/ \E e \in pulls :
          /\ Matches(e, t, r.peer)
          /\ Meet(e, r, "push")
          /\ pulls' = pulls \ {e}
          /\ bytes' = [bytes EXCEPT ![e.tid] = Least(e.len, r.len)]
          /\ UNCHANGED pushes
     \/ /\ \A e \in pulls : ~Matches(e, t, r.peer)
        /\ Register(t, "push")
        /\ pushes' = pushes \union {r}
        /\ UNCHANGED <<pulls, bytes>>

PushCall(t, r) ==
  /\ InUser(t) /\ r.peer[2] # t
  /\ \/ \E e \in pulls :
          /\ Matches(e, t, r.peer)
          /\ Meet(e, r, "push")
          /\ pulls' = pulls \ {e}
          /\ bytes' = IF Copies(e, r)
                      THEN [bytes EXCEPT ![e.tid] = Least(e.len, r.len)]
                      ELSE bytes
          /\ UNCHANGED pushes
     \/ /\ \A e \in pulls : ~Matches(e, t, r.peer)
        /\ Register(t, "push")
        /\ pushes' = pushes \union {r}
        /\ UNCHANGED <<pulls, bytes>>

PullCall_Bug(t, r) == \* the pending pushes are not searched
  /\ InUser(t) /\ r.peer[2] # t
  /\ Register(t, "pull")
  /\ pulls' = pulls \union {r}
  /\ bytes' = [bytes EXCEPT ![t] = 0]
  /\ UNCHANGED pushes

PullCall(t, r) ==
  /\ InUser(t) /\ r.peer[2] # t
  /\ \/ \E e \in pushes :
          /\ Matches(e, t, r.peer)
          /\ Meet(e, r, "pull")
          /\ pushes' = pushes \ {e}
          /\ UNCHANGED <<pulls, bytes>>
     \/ /\ \A e \in pushes : ~Matches(e, t, r.peer)
        /\ Register(t, "pull")
        /\ pulls' = pulls \union {r}
        /\ bytes' = [bytes EXCEPT ![t] = 0]
        /\ UNCHANGED pushes

\* sleep() returned: the push succeeded, or the pull reads the bytes that its
\* counterpart stored.
Returns(t) ==
  /\ Resuming(t) /\ pc[t] \in {"push", "pull"} /\ pm.intr # "killed"
  /\ pm' = Taken
  /\ pc' = [pc EXCEPT ![t] = "user"]
  /\ outcome' = [call |-> pc[t], ret |-> bytes[t], met |-> met[t]]
  /\ bytes' = [bytes EXCEPT ![t] = 0]
  /\ met' = [met EXCEPT ![t] = NotMet]
  /\ UNCHANGED <<joining, joiners, phase, doomed, pushes, pulls>>

(***************************************************************************)
(* Cleaning up after a process.                                            *)
(***************************************************************************)

\* cleanup_process() drops the requests of process p and those that name it.
Cleaned(S, p) == {e \in S : pm.owner[e.tid] # p /\ e.peer[1] # p}

\* The threads of other processes whose request is dropped.
Orphans(p) ==
  {t \in Thread : pm.owner[t] # p
                    /\ \E e \in pushes \union pulls : e.tid = t /\ e.peer[1] = p}

Cleanup(p) ==
  /\ pushes' = Cleaned(pushes, p)
  /\ pulls' = Cleaned(pulls, p)


\* do_exit() has taken the running process out of the manager when it wakes
\* the orphans, and do_wakeup() panics without a running process.
Exits(t, exit) ==
  LET p == pm.owner[t] IN
  /\ Cleanup(p)
  /\ \/ Orphans(p) = {} /\ exit
     \/ /\ Orphans(p) # {}
        /\ phase' = "panic"
        /\ UNCHANGED <<pm, pc, joining, joiners, doomed>>
  /\ bytes' = [bytes EXCEPT ![t] = 0]
  /\ met' = [met EXCEPT ![t] = NotMet]
  /\ outcome' = NoOutcome

IpcExit(t) ==
  /\ "exit" \in Calls /\ InUser(t)
  /\ Exits(t, ExitCall(t, "ok"))

IpcKilled(t) ==
  /\ Resuming(t) /\ pm.intr = "killed"
  /\ Exits(t, Killed(t))

\* terminate() cleans up before it looks for the process.
IpcTerminate(t, p) ==
  /\ "terminate" \in Calls /\ InUser(t) /\ p # Kernel /\ p # Running(pm)
  /\ Cleanup(p)
  /\ LET q == Wakeup(pm, Orphans(p)) IN
     IF Terminable(q, p) THEN pm' \in Terminate(q, p) /\ doomed' = doomed \union {p}
                         ELSE pm' = q /\ UNCHANGED doomed
  /\ outcome' = NoOutcome
  /\ UNCHANGED <<pc, joining, joiners, phase, bytes, met>>

(***************************************************************************)
(* The specification.                                                      *)
(***************************************************************************)

\* The steps of the scheduler that do not touch a request.
OtherStep ==
  /\ \/ Boot \/ KernelStep
     \/ \E p \in Proc, t \in Thread : Spawn(p, t)
     \/ \E t \in Thread : GiveUp(t) \/ ExitThreadCall(t, "ok")
     \/ \E t, u \in Thread : Create(t, u)
  /\ outcome' = NoOutcome
  /\ UNCHANGED <<pushes, pulls, bytes, met>>

IpcCall(t) ==
  \/ \E r \in Requests : r.tid = t /\ (PushCall(t, r) \/ PullCall(t, r))
  \/ IpcExit(t)
  \/ \E p \in Proc : IpcTerminate(t, p)

IpcNext == OtherStep \/ \E t \in Thread : IpcCall(t) \/ Returns(t) \/ IpcKilled(t)

IpcSpec == IpcInit /\ [][IpcNext]_allVars

(***************************************************************************)
(* Properties.                                                             *)
(***************************************************************************)

\* The pending requests are those of the threads that sleep in push() and
\* pull(), one each: a counterpart finds every sleeper, wakes it, and never
\* copies into the buffer of a call that is over.
RequestsAreSleepers ==
  phase # "panic" => \A t \in Thread :
    /\ (\E e \in pushes : e.tid = t) <=> pm.tstate[t] = "sleeping" /\ pc[t] = "push"
    /\ (\E e \in pulls : e.tid = t) <=> pm.tstate[t] = "sleeping" /\ pc[t] = "pull"
    /\ \A e, f \in pushes \union pulls : e.tid = t /\ f.tid = t => e = f

\* Two threads that wait for each other have met: they never both sleep.
NoMissedMeeting ==
  \A e \in pushes, f \in pulls : ~Matches(e, f.tid, f.peer)

\* The pending requests are what they should be: one for each sleeper, and no
\* two that match.
MeetingsTracked == IpcTypeOK /\ RequestsAreSleepers /\ NoMissedMeeting

\* A pull returns the number of bytes that were copied into its buffer.
PullCountExact ==
  outcome.call = "pull" =>
    outcome.ret = IF outcome.met = NotMet THEN 0 ELSE outcome.met

\* Exiting leaves the kernel running.
NoPanic == phase # "panic"

=============================================================================
