------------------------------- MODULE Linuxd -------------------------------
(***************************************************************************)
(* linuxd, the daemon that runs the Linux system calls of the user VMs of  *)
(* a tenant (daemons/linuxd).  A reader task per VM feeds one bounded      *)
(* channel of events; the main loop hands every frame to the worker of the *)
(* guest thread that sent it, which it spawns on the thread's first        *)
(* message; the worker runs the call and writes the reply to its VM.  When *)
(* a VM goes away, a task of its own stops the workers of the VM.          *)
(*                                                                         *)
(* A request is a call of one of these kinds:                              *)
(*   "call"   one message, a blocking libc call;                           *)
(*   "write"  a message and a data chunk, a blocking libc call;            *)
(*   "read"   a message and a data chunk (the pull), an asynchronous read  *)
(*            of the gateway stream of the VM, which can be cancelled;     *)
(*   "open", "stat"  Parts messages that are put together, a libc call.    *)
(* Workers run on the threads of the runtime's pool for blocking tasks,    *)
(* which takes an idle thread before it makes a new one.                   *)
(***************************************************************************)
EXTENDS Naturals, FiniteSets, Sequences

CONSTANTS Vm, Tid,      \* user VMs, and the thread identifiers used in each
          Plans,        \* the programs: plan[v][t] lists the calls of thread t of VM v
          Parts,        \* messages of a long request
          WorkerCap,    \* WORKER_THREAD_CHANNEL_CAPACITY
          MaxWorkers,   \* workers that are spawned, for the fairness
          None

ASSUME LinuxdAssumption ==
  /\ Parts \in Nat \ {0, 1} /\ WorkerCap \in Nat \ {0}
  /\ None \notin Vm

VARIABLES
  plan,       \* the calls the guest threads make
  guest,      \* [v][t]: the call a guest thread is in
  replies,    \* [v][t]: replies on their way to the guest thread
  vm,         \* [v]: the VM's end of its connection
  stream,     \* [v]: its frames in the connection or in the channel of events
  main,       \* the main loop: where it is, the event it handles, the VM it closes
  conns,      \* user_vm_connections
  venv,       \* [v][t]: the virtual environment's worker, 0 for none
  handles,    \* [v]: the handles in worker_threads
  workers,    \* every worker spawned, in order
  inflight,   \* [t]: the parts the request assembler holds
  gateway,    \* [v]: the gateway stream of the VM is known to be connected
  cleanup     \* [v]: close_connection() for the VM

guestVars == <<plan, guest, replies, vm, stream>>
mainVars  == <<main, conns, venv, handles>>
workVars  == <<workers, inflight, gateway>>
vars == <<guestVars, mainVars, workVars, cleanup>>

Long == {"open", "stat"}

Chunked == {"read", "write"}

Frames(call) == IF call \in Long THEN Parts ELSE IF call \in Chunked THEN 2 ELSE 1

\* The frame number n of a call.  The second frame of a read() or write() is
\* the data chunk.
Frame(v, t, seq, call, n) == [vm |-> v, tid |-> t, seq |-> seq, call |-> call, no |-> n]

IsChunk(f) == f.call \in Chunked /\ f.no = 2

NoCall == [call |-> None, seq |-> 0, sent |-> 0]

Shutdown == [call |-> "shutdown", no |-> 0]

Init ==
  /\ plan \in Plans
  /\ guest = [v \in Vm |-> [t \in Tid |-> NoCall]]
  /\ replies = [v \in Vm |-> [t \in Tid |-> <<>>]]
  /\ vm = [v \in Vm |-> "away"]
  /\ stream = [v \in Vm |-> <<>>]
  /\ main = [at |-> "select", event |-> None, closing |-> None]
  /\ conns = {}
  /\ venv = [v \in Vm |-> [t \in Tid |-> 0]]
  /\ handles = [v \in Vm |-> <<>>]
  /\ workers = <<>>
  /\ inflight = [t \in Tid |-> <<>>]
  /\ gateway = [v \in Vm |-> FALSE]
  /\ cleanup = [v \in Vm |-> [at |-> "none", todo |-> <<>>]]

Down == main.at = "down"

Worker == 1..Len(workers)

Exited(i) == workers[i].at = "exited"

Gone(w) == [w EXCEPT !.at = "exited", !.queue = <<>>, !.req = <<>>]

-----------------------------------------------------------------------------
(* The user VMs.  A guest thread sends every frame of a call and then waits *)
(* for the reply.                                                           *)

\* The VM ends or crashes, possibly between two frames of a call.
Close(v) ==
  /\ vm[v] = "open" /\ ~Down
  /\ vm' = [vm EXCEPT ![v] = "closed"]
  /\ guest' = [guest EXCEPT ![v] = [t \in Tid |-> NoCall]]
  /\ replies' = [replies EXCEPT ![v] = [t \in Tid |-> <<>>]]
  /\ UNCHANGED <<plan, stream, mainVars, workVars, cleanup>>

Send(v, t) ==
  LET g    == guest[v][t]
      call == plan[v][t][g.seq + 1]
  IN /\ vm[v] = "open" /\ ~Down
     /\ \/ /\ g.call = None
           /\ g.seq < Len(plan[v][t])
           /\ guest' = [guest EXCEPT ![v][t] = [call |-> call, seq |-> g.seq + 1, sent |-> 1]]
           /\ stream' = [stream EXCEPT ![v] = Append(@, Frame(v, t, g.seq + 1, call, 1))]
        \/ /\ g.call # None
           /\ g.sent < Frames(g.call)
           /\ guest' = [guest EXCEPT ![v][t].sent = @ + 1]
           /\ stream' = [stream EXCEPT ![v] =
                           Append(@, Frame(v, t, g.seq, g.call, g.sent + 1))]
     /\ UNCHANGED <<plan, replies, vm, mainVars, workVars, cleanup>>

\* The thread takes the first reply.
Receive(v, t) ==
  LET g == guest[v][t]
  IN /\ vm[v] = "open" /\ ~Down
     /\ g.call # None /\ g.sent = Frames(g.call)
     /\ replies[v][t] # <<>>
     /\ replies' = [replies EXCEPT ![v][t] = Tail(@)]
     /\ guest' = [guest EXCEPT ![v][t].call = None, ![v][t].sent = 0]
     /\ UNCHANGED <<plan, vm, stream, mainVars, workVars, cleanup>>

-----------------------------------------------------------------------------
(* The main loop.  It handles one event at a time, and is "blocked" while it *)
(* waits for room in the channel of a worker.                               *)

\* A VM connects and names itself: it gets a reader task, a task that primes
\* its gateway, and a handle.
Accept(v) ==
  /\ main.at = "select"
  /\ vm[v] = "away"
  /\ vm' = [vm EXCEPT ![v] = "open"]
  /\ conns' = conns \cup {v}
  /\ UNCHANGED <<plan, guest, replies, stream, main, venv, handles, workVars, cleanup>>

\* The reader task of VM v passes the frames of v on in their order; those of
\* several VMs meet in the channel of events in any order.  The main loop takes
\* the next one, or goes on with the one whose worker's channel was full.
HasEvent(v) == main.at = "select" \/ (main.at = "blocked" /\ main.event = v)

HasFrame(v) == HasEvent(v) /\ stream[v] # <<>>

TakeFrame(v) ==
  /\ main' = [main EXCEPT !.at = "select", !.event = None]
  /\ stream' = [stream EXCEPT ![v] = Tail(@)]

\* get_gtid(): a thread of a VM has an environment of its own.
Gtid(v, t) == <<v, t>>

\* The pool runs a blocking task on an idle thread, or on a new one.
PoolThreads ==
  LET threads == {workers[i].thread : i \in Worker}
      busy    == {workers[i].thread : i \in {j \in Worker : ~Exited(j)}}
  IN IF threads = busy THEN {Cardinality(threads) + 1} ELSE threads \ busy

NewWorker_Bug(v, t, f, thread) ==  \* the first message is not passed on
  [vm |-> v, tid |-> t, at |-> "gateway", queue |-> <<>>, req |-> <<>>,
   cancel |-> FALSE, stray |-> FALSE, thread |-> thread]

NewWorker(v, t, f, thread) ==
  [vm |-> v, tid |-> t, at |-> "gateway", queue |-> <<f>>, req |-> <<>>,
   cancel |-> FALSE, stray |-> FALSE, thread |-> thread]

Room(i) == Len(workers[i].queue) < WorkerCap

Enqueue(i, f) == workers' = [workers EXCEPT ![i].queue = Append(@, f)]

EnvWorker_Bug(v, t) ==  \* looks for an idle worker
  LET i == venv[v][t] IN IF i # 0 /\ workers[i].at = "recv" THEN i ELSE 0

EnvWorker(v, t) == LET key == Gtid(v, t) IN venv[key[1]][key[2]]

SetEnv(v, t, i) == LET key == Gtid(v, t) IN venv' = [venv EXCEPT ![key[1]][key[2]] = i]

\* The first message of a thread joins a new environment and spawns a worker.
SpawnWorker(v, f) ==
  /\ v \in conns /\ ~IsChunk(f) /\ EnvWorker(v, f.tid) = 0
  /\ \E thread \in PoolThreads :
       workers' = Append(workers, NewWorker(v, f.tid, f, thread))
  /\ SetEnv(v, f.tid, Len(workers) + 1)
  /\ handles' = [handles EXCEPT ![v] = Append(@, Len(workers) + 1)]
  /\ TakeFrame(v)

\* A frame goes to the worker of its thread, once there is room for it.
ForwardFrame(v, f) ==
  LET i == EnvWorker(v, f.tid)
  IN /\ v \in conns /\ i # 0 /\ ~Exited(i)
     /\ IF Room(i) THEN Enqueue(i, f) /\ TakeFrame(v)
                   ELSE /\ main' = [main EXCEPT !.at = "blocked", !.event = v]
                        /\ UNCHANGED <<workers, stream>>
     /\ UNCHANGED <<venv, handles>>

\* A frame of an unknown VM, a chunk without a worker, and a frame whose worker
\* has exited are dropped; in the last case, if it is a message, the thread
\* leaves its environment.
DropFrame(v, f) ==
  LET i == EnvWorker(v, f.tid)
  IN /\ \/ v \notin conns /\ UNCHANGED venv
        \/ v \in conns /\ i = 0 /\ IsChunk(f) /\ UNCHANGED venv
        \/ v \in conns /\ i # 0 /\ Exited(i) /\ IsChunk(f) /\ UNCHANGED venv
        \/ v \in conns /\ i # 0 /\ Exited(i) /\ ~IsChunk(f) /\ SetEnv(v, f.tid, 0)
     /\ TakeFrame(v)
     /\ UNCHANGED <<workers, handles>>

Transfer(v) ==
  /\ HasFrame(v)
  /\ \/ SpawnWorker(v, Head(stream[v]))
     \/ ForwardFrame(v, Head(stream[v]))
     \/ DropFrame(v, Head(stream[v]))
  /\ UNCHANGED <<plan, guest, replies, vm, conns, inflight, gateway, cleanup>>

\* The connection leaves the maps, and its workers are left to close_connection().
Harvest(v) ==
  /\ conns' = conns \ {v}
  /\ handles' = [handles EXCEPT ![v] = <<>>]
  /\ cleanup' = [cleanup EXCEPT ![v] = [at |-> "cancel", todo |-> handles[v]]]

\* The reader task has met the end of the stream.
ConnectionClosed(v) ==
  /\ main.at = "select" /\ v \in conns
  /\ vm[v] = "closed" /\ stream[v] = <<>>
  /\ Harvest(v)
  /\ UNCHANGED <<guestVars, main, venv, workVars>>

\* run() returns.  The maps, the environments and the tasks of the runtime go
\* with it; a worker whose handle is dropped sees its cancellation.  The VMs lose
\* their connections.
Stop ==
  /\ main' = [at |-> "down", event |-> None, closing |-> None]
  /\ workers' = [i \in Worker |-> [workers[i] EXCEPT !.cancel = @ \/ ~Exited(i)]]
  /\ cleanup' = [v \in Vm |-> [at |-> "none", todo |-> <<>>]]
  /\ venv' = [v \in Vm |-> [t \in Tid |-> 0]]
  /\ handles' = [v \in Vm |-> <<>>]
  /\ conns' = {}
  /\ stream' = [v \in Vm |-> <<>>]
  /\ guest' = [v \in Vm |-> [t \in Tid |-> NoCall]]
  /\ replies' = [v \in Vm |-> [t \in Tid |-> <<>>]]
  /\ vm' = [v \in Vm |-> "closed"]
  /\ UNCHANGED <<plan, inflight, gateway>>

\* The control plane hangs up, or a VM hangs up before it has named itself.
Disconnected ==
  /\ main.at = "select"
  /\ Stop

AcceptFails(v) ==
  /\ main.at = "select"
  /\ vm[v] = "away"
  /\ Stop

\* The control plane asks for a shutdown: the connections are closed one after
\* the other, and then the loop ends.
ShutdownCommand ==
  /\ main.at = "select"
  /\ main' = [main EXCEPT !.at = "closing"]
  /\ UNCHANGED <<guestVars, conns, venv, handles, workVars, cleanup>>

\* close_connection() has returned for the connection being closed.
Closed == main.closing # None => cleanup[main.closing].at = "none"

CloseNext ==
  /\ main.at = "closing"
  /\ Closed
  /\ \E v \in conns :
       /\ main' = [main EXCEPT !.closing = v]
       /\ Harvest(v)
  /\ UNCHANGED <<guestVars, venv, workVars>>

CloseDone ==
  /\ main.at = "closing"
  /\ conns = {}
  /\ Closed
  /\ Stop

-----------------------------------------------------------------------------
(* close_connection(): joins the reader task, and stops the workers one     *)
(* after the other.  Every wait has a timeout, so that each step can be     *)
(* taken whatever the reader and the workers do.                            *)

\* stop(): the watch channel comes first.  It is closed when the worker has
\* exited, and then no signal is sent.
CancelWorker(v) ==
  LET i == Head(cleanup[v].todo)
  IN /\ cleanup[v].at = "cancel" /\ cleanup[v].todo # <<>>
     /\ workers' = [workers EXCEPT ![i].cancel = @ \/ ~Exited(i)]
     /\ cleanup' = [cleanup EXCEPT ![v].at = IF Exited(i) THEN "shutdown" ELSE "signal"]
     /\ UNCHANGED <<guestVars, mainVars, inflight, gateway>>

\* A libc call on the thread returns EINTR, and the worker gives up.  A signal
\* that finds the thread elsewhere has no effect.
Interrupted(w, thread) ==
  IF w.thread = thread /\ w.at = "libc" THEN [Gone(w) EXCEPT !.stray = ~w.cancel] ELSE w

SignalWorker(v) ==
  LET thread == workers[Head(cleanup[v].todo)].thread
  IN /\ cleanup[v].at = "signal"
     /\ workers' = [i \in Worker |-> Interrupted(workers[i], thread)]
     /\ cleanup' = [cleanup EXCEPT ![v].at = "shutdown"]
     /\ UNCHANGED <<guestVars, mainVars, inflight, gateway>>


ShutdownWorker(v) ==
  LET i == Head(cleanup[v].todo)
  IN /\ cleanup[v].at = "shutdown"
     /\ IF ~Exited(i) /\ Room(i) THEN Enqueue(i, Shutdown) ELSE UNCHANGED workers
     /\ cleanup' = [cleanup EXCEPT ![v] = [at |-> "cancel", todo |-> Tail(@.todo)]]
     /\ UNCHANGED <<guestVars, mainVars, inflight, gateway>>

CleanupDone(v) ==
  /\ cleanup[v].at = "cancel" /\ cleanup[v].todo = <<>>
  /\ cleanup' = [cleanup EXCEPT ![v].at = "none"]
  /\ UNCHANGED <<guestVars, mainVars, workVars>>

-----------------------------------------------------------------------------
(* A worker, handle_message().  It is at                                    *)
(*   "gateway"  waiting for the gateway stream of its VM;                   *)
(*   "recv"     waiting for a command, "chunk" for the data chunk of a call; *)
(*   "lock"     waiting for the gateway reader, "stream" reading from it;   *)
(*   "run"      about to make a libc call, "libc" in it;                    *)
(* A call that returns is answered in the same step.                        *)

Last(parts) == parts[Len(parts)]

\* A worker that exits drops its end of the channel.
Exit(i) == workers' = [workers EXCEPT ![i] = Gone(@)]

Goto(i, at) == workers' = [workers EXCEPT ![i].at = at]

Dequeue(i, at, req) ==
  workers' = [workers EXCEPT ![i].at = at, ![i].req = req, ![i].queue = Tail(@)]

StillOthers == UNCHANGED <<guestVars, mainVars, inflight, gateway, cleanup>>

\* The worker takes a command from its queue, or none, and answers the call f:
\* the reply goes to the thread that sent f, on the stream of the worker's VM.
\* A write to a VM that has gone away is lost, or fails and ends the worker,
\* except after a long request.
Answer(i, f, queue) ==
  LET w    == workers[i]
      done == [w EXCEPT !.at = "recv", !.req = <<>>, !.queue = queue]
  IN \/ /\ vm[w.vm] = "open"
        /\ replies' = [replies EXCEPT ![w.vm][f.tid] = Append(@, [vm |-> f.vm, seq |-> f.seq])]
        /\ workers' = [workers EXCEPT ![i] = done]
     \/ /\ vm[w.vm] = "closed"
        /\ \/ workers' = [workers EXCEPT ![i] = done]
           \/ f.call \notin Long /\ Exit(i)
        /\ UNCHANGED replies

\* get_gateway_vm_stream(): the worker waits until a client has connected to
\* the gateway of the VM, to the task that primes it, to another worker or to
\* this one, or until it has waited for too long.
GatewayStream(i) ==
  LET v == workers[i].vm
  IN /\ workers[i].at = "gateway"
     /\ \/ Goto(i, "recv") /\ gateway' = [gateway EXCEPT ![v] = TRUE]
        \/ ~gateway[v] /\ Exit(i) /\ UNCHANGED gateway
     /\ UNCHANGED <<guestVars, mainVars, inflight, cleanup>>

\* What is done first with a message: the chunk is awaited, or the call is made.
First(call) == IF call \in Chunked THEN "chunk" ELSE "run"

Command(i) ==
  LET w == workers[i]
      f == Head(w.queue)
  IN /\ w.at = "recv"
     /\ \/ /\ w.queue # <<>> /\ f.call \notin Long
           /\ IF f = Shutdown THEN Exit(i)
              ELSE IF IsChunk(f) THEN Dequeue(i, "recv", <<>>)
              ELSE Dequeue(i, First(f.call), <<f>>)
        \/ w.queue = <<>> /\ Down /\ Exit(i)
     /\ StillOthers

\* The request assembler keeps the parts of one request for each thread identifier.
AssemblerKey(w) == w.tid

\* The last part says how many there are.
Complete_Bug(parts) == Len(parts) + 1 >= Parts  \* off by one

Complete(parts) == Len(parts) = Parts

\* assemble_and_take(), under the assembler's lock: the part joins those that
\* are held, and the last one takes the request.  A part of another kind of
\* request than the first is an error, which drops all of them.
Assemble_Bug(i) ==  \* a part that completes nothing is answered
  LET w     == workers[i]
      f     == Head(w.queue)
      parts == Append(inflight[w.tid], f)
  IN /\ w.at = "recv" /\ w.queue # <<>> /\ f.call \in Long
     /\ IF Complete(parts)
        THEN Dequeue(i, "run", parts) /\ UNCHANGED replies /\ inflight' = [inflight EXCEPT ![w.tid] = <<>>]
        ELSE Answer(i, f, Tail(w.queue)) /\ inflight' = [inflight EXCEPT ![w.tid] = parts]
     /\ UNCHANGED <<plan, guest, vm, stream, mainVars, gateway, cleanup>>

Assemble(i) ==
  LET w     == workers[i]
      f     == Head(w.queue)
      key   == AssemblerKey(w)
      parts == Append(inflight[key], f)
  IN /\ w.at = "recv" /\ w.queue # <<>> /\ f.call \in Long
     /\ IF parts[1].call # f.call
        THEN Answer(i, f, Tail(w.queue)) /\ inflight' = [inflight EXCEPT ![key] = <<>>]
        ELSE IF Complete(parts)
        THEN Dequeue(i, "run", parts) /\ UNCHANGED replies /\ inflight' = [inflight EXCEPT ![key] = <<>>]
        ELSE Dequeue(i, "recv", <<>>) /\ UNCHANGED replies /\ inflight' = [inflight EXCEPT ![key] = parts]
     /\ UNCHANGED <<plan, guest, vm, stream, mainVars, gateway, cleanup>>

\* recv_with_timeout(): the chunk, another command, a cancellation or a timeout.
AwaitChunk(i) ==
  LET w == workers[i]
      f == Head(w.queue)
  IN /\ w.at = "chunk" /\ w.queue # <<>>
     /\ IF f = Shutdown THEN Exit(i) /\ UNCHANGED replies
        ELSE IF IsChunk(f)
        THEN /\ Dequeue(i, IF w.req[1].call = "read" THEN "lock" ELSE "run", Append(w.req, f))
             /\ UNCHANGED replies
        ELSE Answer(i, w.req[1], Tail(w.queue))
     /\ UNCHANGED <<plan, guest, vm, stream, mainVars, inflight, gateway, cleanup>>

ChunkCancelled(i) ==
  /\ workers[i].at = "chunk" /\ workers[i].cancel
  /\ Exit(i)
  /\ StillOthers

ChunkTimeout(i) ==
  /\ workers[i].at = "chunk" /\ workers[i].queue = <<>>
  /\ Exit(i)
  /\ StillOthers

\* The workers of a VM share the gateway reader; the lock is not cancellable.
LockGateway(i) ==
  /\ workers[i].at = "lock"
  /\ \A j \in Worker : workers[j].vm = workers[i].vm => workers[j].at # "stream"
  /\ Goto(i, "stream")
  /\ StillOthers

\* The client of the gateway sends something or hangs up.
GatewayRead(i) ==
  /\ workers[i].at = "stream"
  /\ Answer(i, Last(workers[i].req), workers[i].queue)
  /\ UNCHANGED <<plan, guest, vm, stream, mainVars, inflight, gateway, cleanup>>

ReadCancelled(i) ==
  /\ workers[i].at = "stream" /\ workers[i].cancel
  /\ Exit(i)
  /\ StillOthers

EnterLibc(i) ==
  /\ workers[i].at = "run"
  /\ Goto(i, "libc")
  /\ StillOthers

LibcReturns(i) ==
  /\ workers[i].at = "libc"
  /\ Answer(i, Last(workers[i].req), workers[i].queue)
  /\ UNCHANGED <<plan, guest, vm, stream, mainVars, inflight, gateway, cleanup>>

-----------------------------------------------------------------------------

MainStep ==
  \/ \E v \in Vm : Accept(v) \/ AcceptFails(v) \/ Transfer(v) \/ ConnectionClosed(v)
  \/ Disconnected \/ ShutdownCommand \/ CloseNext \/ CloseDone

CleanupStep(v) ==
  CancelWorker(v) \/ SignalWorker(v) \/ ShutdownWorker(v) \/ CleanupDone(v)

WorkerStep(i) ==
  \/ GatewayStream(i) \/ Command(i) \/ Assemble(i) \/ AwaitChunk(i) \/ ChunkCancelled(i) \/ LockGateway(i)
  \/ ReadCancelled(i) \/ EnterLibc(i) \/ LibcReturns(i)

Next ==
  \/ \E v \in Vm :
       \/ Close(v) \/ CleanupStep(v)
       \/ \E t \in Tid : Send(v, t) \/ Receive(v, t)
  \/ MainStep
  \/ \E i \in Worker : WorkerStep(i) \/ ChunkTimeout(i) \/ GatewayRead(i)

Spec == Init /\ [][Next]_vars

\* Tasks are scheduled, timeouts expire, guest threads that are in a call go on
\* with it, and libc calls return.  Nobody has to feed a read() of the gateway.
Fairness ==
  /\ \A v \in Vm :
       /\ WF_vars(Transfer(v)) /\ WF_vars(ConnectionClosed(v)) /\ WF_vars(CleanupStep(v))
       /\ \A t \in Tid : WF_vars(guest[v][t].call # None /\ Send(v, t))
  /\ WF_vars(CloseNext) /\ WF_vars(CloseDone)
  /\ \A i \in 1..MaxWorkers : WF_vars(i \in Worker /\ (WorkerStep(i) \/ ChunkTimeout(i)))

FairSpec == Spec /\ Fairness

-----------------------------------------------------------------------------
(* Properties.                                                              *)

\* The types of the variables.
LinuxdTypeOK ==
  /\ vm \in [Vm -> {"away", "open", "closed"}]
  /\ main.at \in {"select", "blocked", "closing", "down"}
  /\ conns \subseteq Vm
  /\ venv \in [Vm -> [Tid -> 0..Len(workers)]]
  /\ gateway \in [Vm -> BOOLEAN]
  /\ Len(workers) <= MaxWorkers
  /\ \A i \in Worker :
       /\ workers[i].at \in {"gateway", "recv", "chunk", "lock", "stream", "run", "libc", "exited"}
       /\ Len(workers[i].queue) <= WorkerCap
  /\ \A v \in Vm : cleanup[v].at \in {"none", "cancel", "signal", "shutdown"}

\* A guest thread has at most one worker that has not exited: an environment is
\* only left when its worker is gone.
OneWorkerPerThread ==
  \A i, j \in Worker :
    /\ ~Exited(i) /\ ~Exited(j)
    /\ workers[i].vm = workers[j].vm /\ workers[i].tid = workers[j].tid
    => i = j

\* What is on its way to a guest thread is one reply, to the call it is in.
RepliesMatch ==
  \A v \in Vm, t \in Tid :
    replies[v][t] # <<>> => replies[v][t] = <<[vm |-> v, seq |-> guest[v][t].seq]>>
                            /\ guest[v][t].call # None

\* The commands queued for a worker and the call it is in are of one call of
\* its thread, so that there is always room for the shutdown command, and the
\* main loop never waits for a worker (close_connection() and handle_message()
\* both rely on it).
QueueHoldsOneCall ==
  /\ main.at # "blocked"
  /\ \A i \in Worker :
       LET work == SelectSeq(workers[i].req \o workers[i].queue, LAMBDA f : f # Shutdown)
       IN /\ \A m, n \in 1..Len(work) : work[m].vm = work[n].vm /\ work[m].seq = work[n].seq
          /\ Len(work) <= Parts

\* A request that was put together has each of its parts, all of them of one
\* call.  RequestAssembler keeps parts by thread identifier for all VMs, so this
\* holds as long as no other VM sends parts under the same identifier.
RequestsAreWhole ==
  \A i \in Worker :
    LET req == workers[i].req
    IN workers[i].at \in {"run", "libc"} =>
         /\ Len(req) = Frames(req[1].call)
         /\ \A n \in 1..Len(req) :
              req[n] = Frame(workers[i].vm, workers[i].tid, req[1].seq, req[1].call, n)

\* What a worker has in hand, queued or put together, is one call of its thread.
CommandsOfOneCall == QueueHoldsOneCall /\ RequestsAreWhole

\* Only workers of connected VMs are in the map of workers: shutdown leaves no
\* orphaned worker threads.
NoOrphans == \A v \in Vm : handles[v] # <<>> => v \in conns

\* Workers belong to the threads of connected VMs, one to each.
WorkersOwned == LinuxdTypeOK /\ OneWorkerPerThread /\ NoOrphans

\* A worker is interrupted for the sake of its own VM: the thread that stop()
\* signals still runs the worker that is being stopped.
NoStrayInterrupt == \A i \in Worker : ~workers[i].stray


\* A call is answered, unless its worker has given up, or it reads from the gateway.
CallsAnswered ==
  []<>(\A v \in Vm, t \in Tid :
         /\ guest[v][t].call # None
         /\ replies[v][t] = <<>>
         /\ v \in conns
         => \E i \in Worker :
              /\ workers[i].vm = v /\ workers[i].tid = t
              /\ workers[i].at \in {"exited", "stream", "lock"})
=============================================================================
