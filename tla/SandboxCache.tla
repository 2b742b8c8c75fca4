---------------------------- MODULE SandboxCache ----------------------------
(***************************************************************************)
(* The sandbox cache of nanvixd (multi-process mode) and the control-plane *)
(* acceptor it shares with the children it spawns.                         *)
(*                                                                         *)
(* A request is one call of get().  It finds or starts the Linux daemon of *)
(* its tenant, starts a user VM of its own, and waits until the daemon     *)
(* says that the gateway of that VM is up.  kill() ends a sandbox, and     *)
(* cleanup() ends everything when nanvixd stops.  All of them are tasks of *)
(* one runtime: they interleave at every await, and an action is what runs *)
(* between two of them.                                                    *)
(*                                                                         *)
(* A child opens one connection to the acceptor and registers itself: the  *)
(* daemon with its tenant, the VM with its identifier.  A stream is named  *)
(* by the child that opened it.  A child that hangs or exits is one that   *)
(* takes no further step, and a timeout may expire whenever the task that  *)
(* waits has received nothing.                                             *)
(***************************************************************************)
EXTENDS Integers, Sequences, FiniteSets

CONSTANTS Tenant, Request, None,
          Wants,        \* the tenants a request may be for
          MaxDaemons,   \* how many Linux daemons are spawned
          Impatient,    \* requests whose client may hang up before the answer
          MaxHandlers,  \* MAX_CONCURRENT_CONTROL_PLANE_HANDLERS
          MaxEarly,     \* MAX_EARLY_CONTROL_PLANE_CONNECTIONS
          MaxReady      \* how often a daemon binds the gateway of one VM

VARIABLES req,       \* the calls of get(); the request is also the identifier of its VM
          vm,        \* the processes of user VMs
          running,   \* running_sandboxes
          closing,   \* sandboxes that left running_sandboxes and are being shut down
          tenants,   \* the tenant states that the cache lists
          lock,      \* who holds linuxd_instance of a tenant state for writing
          instance,  \* linuxd_instance
          daemon,    \* the processes of Linux daemons, and the handles to them
          wire,      \* the GatewayReady messages a daemon has sent and nobody has read
          sent,      \* how many it has sent for each VM
          connected, \* children that opened their connection
          handlers,  \* connections whose registration is being read
          pending, early,  \* ControlPlaneAcceptorState
          rx,        \* the stream that waits in the channel of a request
          cleanup    \* the call of cleanup()

getVars      == <<req, vm, running, closing>>
tenantVars   == <<tenants, lock, instance>>
daemonVars   == <<daemon, wire, sent>>
acceptorVars == <<connected, handlers, pending, early, rx>>
vars         == <<getVars, tenantVars, daemonVars, acceptorVars, cleanup>>

Daemon == 1..MaxDaemons

\* A tenant gets a second state when it comes back after cleanup() dropped the first.
TenantState == Tenant \X {0, 1}
Peer        == Tenant \union Request
Stream      == Daemon \union Request

Steps == {"idle", "tenant", "create", "await", "vm", "vmawait", "gateway", "reading",
          "done", "failed", "cancelled"}
Phases == {"off", "summary", "sandboxes", "daemons", "wait", "count", "done"}

InProgress(r) == req[r].pc \notin {"idle", "done", "failed", "cancelled"}

\* The request holds the receiving end of its channel.
Listening(r) == req[r].pc \in {"await", "vmawait"}

Init ==
  /\ req = [r \in Request |-> [pc |-> "idle", tenant |-> None, state |-> None, daemon |-> None]]
  /\ vm = [r \in Request |-> "none"] /\ running = {} /\ closing = {}
  /\ tenants = {}
  /\ lock = [s \in TenantState |-> None] /\ instance = [s \in TenantState |-> None]
  /\ daemon = [d \in Daemon |-> [child |-> "none", tenant |-> None, home |-> None, stream |-> None,
                                 taken |-> FALSE, reader |-> None, ready |-> [r \in Request |-> 0]]]
  /\ wire = [d \in Daemon |-> <<>>] /\ sent = [d \in Daemon |-> [r \in Request |-> 0]]
  /\ connected = {} /\ handlers = {} /\ pending = [x \in Peer |-> None] /\ early = <<>>
  /\ rx = [r \in Request |-> None]
  /\ cleanup = [pc |-> "off", todo |-> {}, vms |-> {}, daemon |-> None]

\* The handles (Arc<LinuxDaemon>) to daemon d.  The process is killed when the last one goes.
Held(d) ==
  \/ \E s \in TenantState :
       /\ instance[s] = d
       /\ \/ s \in tenants
          \/ cleanup.pc \in {"daemons", "wait"} /\ s \in cleanup.todo
          \/ \E r \in Request : InProgress(r) /\ req[r].state = s
  \/ \E r \in Request : req[r].daemon = d /\ (InProgress(r) \/ r \in running \union closing)
  \/ cleanup.daemon = d

Alive(x) == IF x \in Daemon THEN daemon[x].child = "up" /\ Held(x) ELSE vm[x] = "up"

Goto(r, pc) == req' = [req EXCEPT ![r].pc = pc]

\* get() ends without a sandbox.  What it holds goes with it, and the process of the VM too.
Drop(r, pc) == req' = [req EXCEPT ![r] = [pc |-> pc, tenant |-> None, state |-> None, daemon |-> None]]

End(r, pc) ==
  /\ Drop(r, pc)
  /\ vm' = [vm EXCEPT ![r] = IF @ = "up" THEN "dead" ELSE @]
  /\ UNCHANGED <<running, closing>>

Fail(r) == End(r, "failed")

(***************************************************************************)
(* ControlPlaneAcceptor.                                                   *)
(***************************************************************************)

Without(buffer, x) == SelectSeq(buffer, LAMBDA e : e.peer # x)

BufferedFor(x) == SelectSeq(early, LAMBDA e : e.peer = x)

\* The stream of a peer that arrived early goes to the new channel at once.
Register(x, r) ==
  /\ pending[x] = None
  /\ IF BufferedFor(x) # <<>>
     THEN /\ rx' = [rx EXCEPT ![r] = BufferedFor(x)[1].stream]
          /\ early' = Without(early, x)
          /\ UNCHANGED pending
     ELSE pending' = [pending EXCEPT ![x] = r] /\ UNCHANGED <<rx, early>>
  /\ UNCHANGED <<connected, handlers>>

Unregister_Bug(x, r) ==   \* drops the buffered stream and keeps the waiter
  /\ early' = Without(early, x)
  /\ rx' = [rx EXCEPT ![r] = None]
  /\ UNCHANGED <<connected, handlers, pending>>

Unregister(x, r) ==
  /\ pending' = [pending EXCEPT ![x] = None]
  /\ early' = Without(early, x)
  /\ rx' = [rx EXCEPT ![r] = None]
  /\ UNCHANGED <<connected, handlers>>

PeerOf(x) == IF x \in Daemon THEN daemon[x].tenant ELSE x

\* run(): a connection beyond the limit of handlers is dropped.
Connect(x) ==
  /\ Alive(x) /\ x \notin connected
  /\ connected' = connected \union {x}
  /\ handlers' = IF Cardinality(handlers) < MaxHandlers THEN handlers \union {x} ELSE handlers
  /\ UNCHANGED <<getVars, tenantVars, daemonVars, pending, early, rx, cleanup>>

\* A full buffer evicts its oldest stream, unless the new one takes the place of one of the same peer.
BufferFor(p) ==
  IF Len(early) >= MaxEarly /\ \A i \in DOMAIN early : early[i].peer # p THEN Tail(early) ELSE early

\* handle_connection(): to the waiter if there is one, else to the buffer.
HandleConnection(x) ==
  LET p == PeerOf(x)
      waiter == pending[p]
      room == BufferFor(p)
  IN  /\ x \in handlers
      /\ handlers' = handlers \ {x}
      /\ IF waiter # None
         THEN /\ pending' = [pending EXCEPT ![p] = None]
              /\ rx' = IF Listening(waiter) THEN [rx EXCEPT ![waiter] = x] ELSE rx
              /\ UNCHANGED early
         ELSE /\ early' = IF \E i \in DOMAIN room : room[i].peer = p
                          THEN [i \in DOMAIN room |-> IF room[i].peer = p THEN [peer |-> p, stream |-> x]
                                                      ELSE room[i]]
                          ELSE Append(room, [peer |-> p, stream |-> x])
              /\ UNCHANGED <<pending, rx>>
      /\ UNCHANGED <<getVars, tenantVars, daemonVars, connected, cleanup>>

\* The child died before it registered, or took too long.
HandlerDrops(x) ==
  /\ x \in handlers
  /\ handlers' = handlers \ {x}
  /\ UNCHANGED <<getVars, tenantVars, daemonVars, connected, pending, early, rx, cleanup>>

(***************************************************************************)
(* get(): the tenant and its Linux daemon.                                 *)
(***************************************************************************)

\* state_summary() keeps the list of tenants locked for reading while it looks at each of them.
TenantsRead == cleanup.pc \in {"summary", "count"}

\* The identifier of the new sandbox is fresh, so the cache never has it.
Get(r, t) ==
  LET found == {s \in tenants : s[1] = t}
      fresh == <<t, IF cleanup.pc \in {"daemons", "wait", "count", "done"} THEN 1 ELSE 0>>
  IN  /\ req[r].pc = "idle"
      /\ found = {} => ~TenantsRead
      /\ tenants' = IF found = {} THEN tenants \union {fresh} ELSE tenants
      /\ req' = [req EXCEPT ![r] = [pc |-> "tenant", tenant |-> t, daemon |-> None,
                                    state |-> IF found = {} THEN fresh ELSE CHOOSE s \in found : TRUE]]
      /\ UNCHANGED <<vm, running, closing, lock, instance, daemonVars, acceptorVars, cleanup>>

UseDaemon(r, d) == req' = [req EXCEPT ![r].pc = "vm", ![r].daemon = d]

\* get_or_create_linuxd(): the fast path reads linuxd_instance.
FastPath(r) ==
  LET d == instance[req[r].state]
  IN  /\ req[r].pc = "tenant" /\ lock[req[r].state] = None
      /\ IF d # None THEN UseDaemon(r, d) ELSE Goto(r, "create")
      /\ UNCHANGED <<vm, running, closing, tenantVars, daemonVars, acceptorVars, cleanup>>

\* The slow path takes the lock and looks again, in case another request was faster.
FoundDaemon(r) ==
  /\ req[r].pc = "create" /\ lock[req[r].state] = None /\ instance[req[r].state] # None
  /\ UseDaemon(r, instance[req[r].state])
  /\ UNCHANGED <<vm, running, closing, tenantVars, daemonVars, acceptorVars, cleanup>>

MustCreate_Bug(r) ==   \* without the second look
  req[r].pc = "create" /\ lock[req[r].state] = None

MustCreate(r) ==
  req[r].pc = "create" /\ lock[req[r].state] = None /\ instance[req[r].state] = None

\* No network namespace, directory or snapshot, or the tenant is registered already.
PrepareDaemonFails(r) ==
  /\ MustCreate(r)
  /\ Fail(r)
  /\ UNCHANGED <<tenantVars, daemonVars, acceptorVars, cleanup>>

\* With the lock held, the request registers the tenant and spawns the daemon.
StartDaemon(r, d) ==
  /\ MustCreate(r) /\ daemon[d].child = "none" /\ \A e \in 1..(d - 1) : daemon[e].child # "none"
  /\ Register(req[r].tenant, r)
  /\ lock' = [lock EXCEPT ![req[r].state] = r]
  /\ daemon' = [daemon EXCEPT ![d].child = "up", ![d].tenant = req[r].tenant, ![d].home = req[r].state]
  /\ req' = [req EXCEPT ![r].pc = "await", ![r].daemon = d]
  /\ UNCHANGED <<vm, running, closing, tenants, instance, wire, sent, cleanup>>

\* The process could not be spawned.  The registration is withdrawn, and a stream it got is lost.
SpawnDaemonFails(r) ==
  /\ MustCreate(r) /\ pending[req[r].tenant] = None
  /\ Unregister(req[r].tenant, r)
  /\ Fail(r)
  /\ UNCHANGED <<tenantVars, daemonVars, cleanup>>

AttachDaemon(r) ==
  LET d == req[r].daemon
  IN  /\ req[r].pc = "await" /\ rx[r] # None
      /\ daemon' = [daemon EXCEPT ![d].stream = rx[r]]
      /\ rx' = [rx EXCEPT ![r] = None]
      /\ instance' = [instance EXCEPT ![req[r].state] = d]
      /\ lock' = [lock EXCEPT ![req[r].state] = None]
      /\ Goto(r, "vm")
      /\ UNCHANGED <<vm, running, closing, tenants, wire, sent, connected, handlers, pending, early, cleanup>>

\* The timeout expires, or the sending end of the channel is gone.
NoStream(r) == rx[r] = None

\* unregister_linuxd(), then abort() kills the child.
AwaitDaemonFails(r) ==
  /\ req[r].pc = "await" /\ NoStream(r)
  /\ Unregister(req[r].tenant, r)
  /\ daemon' = [daemon EXCEPT ![req[r].daemon].child = "dead"]
  /\ lock' = [lock EXCEPT ![req[r].state] = None]
  /\ Fail(r)
  /\ UNCHANGED <<tenants, instance, wire, sent, cleanup>>

(***************************************************************************)
(* get(): the user VM.                                                     *)
(***************************************************************************)

\* No gateway port, address or directory, or the VM could not be spawned.
StartVmFails(r) ==
  /\ req[r].pc = "vm"
  /\ Fail(r)
  /\ UNCHANGED <<tenantVars, daemonVars, acceptorVars, cleanup>>

\* Nobody else registers this VM, so registering and spawning it are one step.
StartVm(r) ==
  /\ req[r].pc = "vm"
  /\ Register(r, r)
  /\ vm' = [vm EXCEPT ![r] = "up"]
  /\ Goto(r, "vmawait")
  /\ UNCHANGED <<running, closing, tenantVars, daemonVars, cleanup>>

AttachVm(r) ==
  /\ req[r].pc = "vmawait" /\ rx[r] # None
  /\ rx' = [rx EXCEPT ![r] = None]
  /\ Goto(r, "gateway")
  /\ UNCHANGED <<vm, running, closing, tenantVars, daemonVars, connected, handlers, pending, early, cleanup>>

AwaitVmFails(r) ==
  /\ req[r].pc = "vmawait" /\ NoStream(r)
  /\ Unregister(r, r)
  /\ Fail(r)
  /\ UNCHANGED <<tenantVars, daemonVars, cleanup>>

(***************************************************************************)
(* wait_for_gateway_ready(): one request at a time reads the control-plane *)
(* stream of a daemon, and keeps what is for others.                       *)
(***************************************************************************)

\* start() returns, and get() puts the sandbox into the cache.
Run(r) ==
  /\ Goto(r, "done")
  /\ running' = running \union {r}

\* The notification is buffered already, or the request becomes the reader of the stream.
WaitGateway(r) ==
  LET d == req[r].daemon
  IN  /\ req[r].pc = "gateway" /\ daemon[d].reader = None /\ ~daemon[d].taken
      /\ IF daemon[d].ready[r] > 0
         THEN daemon' = [daemon EXCEPT ![d].ready[r] = @ - 1] /\ Run(r)
         ELSE daemon' = [daemon EXCEPT ![d].reader = r] /\ Goto(r, "reading") /\ UNCHANGED running
      /\ UNCHANGED <<vm, closing, tenantVars, wire, sent, acceptorVars, cleanup>>

\* cleanup() has shut the daemon down.
GatewayGone(r) ==
  /\ req[r].pc = "gateway" /\ daemon[req[r].daemon].reader = None /\ daemon[req[r].daemon].taken
  /\ Fail(r)
  /\ UNCHANGED <<tenantVars, daemonVars, acceptorVars, cleanup>>

KeptFor_Bug(d, q) == daemon[d]   \* thrown away

\* A notification for another VM is buffered for the request of that VM.
KeptFor(d, q) == [daemon[d] EXCEPT !.ready[q] = @ + 1]

\* msg.gateway_id() == expected_gateway_id
IsFor(q, r) == q = r

ReadReady(r) ==
  LET d == req[r].daemon
      x == daemon[d].stream
  IN  /\ req[r].pc = "reading" /\ wire[x] # <<>>
      /\ wire' = [wire EXCEPT ![x] = Tail(@)]
      /\ IF IsFor(Head(wire[x]), r)
         THEN daemon' = [daemon EXCEPT ![d].reader = None] /\ Run(r)
         ELSE daemon' = [daemon EXCEPT ![d] = KeptFor(d, Head(wire[x]))] /\ UNCHANGED <<req, running>>
      /\ UNCHANGED <<vm, closing, tenantVars, sent, acceptorVars, cleanup>>

\* The timeout, or the stream ended.
ReadFails(r) ==
  /\ req[r].pc = "reading"
  /\ daemon' = [daemon EXCEPT ![req[r].daemon].reader = None]
  /\ Fail(r)
  /\ UNCHANGED <<tenantVars, wire, sent, acceptorVars, cleanup>>

GetStep(r) ==
  \/ FastPath(r) \/ FoundDaemon(r)
  \/ PrepareDaemonFails(r) \/ SpawnDaemonFails(r) \/ \E d \in Daemon : StartDaemon(r, d)
  \/ AttachDaemon(r) \/ AwaitDaemonFails(r)
  \/ StartVmFails(r) \/ StartVm(r) \/ AttachVm(r) \/ AwaitVmFails(r)
  \/ WaitGateway(r) \/ GatewayGone(r) \/ ReadReady(r) \/ ReadFails(r)

\* The client hung up, so the HTTP server drops the task where it waits.  Locks and handles are
\* released; the registration at the acceptor is not.
Cancel(r) ==
  /\ r \in Impatient /\ InProgress(r)
  /\ End(r, "cancelled")
  /\ lock' = [s \in TenantState |-> IF lock[s] = r THEN None ELSE lock[s]]
  /\ daemon' = [d \in Daemon |-> IF daemon[d].reader = r THEN [daemon[d] EXCEPT !.reader = None]
                                 ELSE daemon[d]]
  /\ rx' = [rx EXCEPT ![r] = None]
  /\ UNCHANGED <<tenants, instance, wire, sent, connected, handlers, pending, early, cleanup>>

(***************************************************************************)
(* kill() and cleanup().                                                   *)
(***************************************************************************)

Kill(r) ==
  /\ r \in running
  /\ running' = running \ {r} /\ closing' = closing \union {r}
  /\ UNCHANGED <<req, vm, tenantVars, daemonVars, acceptorVars, cleanup>>

\* shutdown(): the VM exits on the message, or is killed after CLEANUP_TIMEOUT.
ShutdownVm(r) ==
  /\ r \in closing
  /\ closing' = closing \ {r}
  /\ vm' = [vm EXCEPT ![r] = "dead"]
  /\ Drop(r, "done")
  /\ UNCHANGED <<running, tenantVars, daemonVars, acceptorVars, cleanup>>

\* The server asks for a summary and then calls cleanup(), which ends with a summary of its own.
Cleanup ==
  /\ cleanup.pc = "off"
  /\ cleanup' = [cleanup EXCEPT !.pc = "summary", !.todo = tenants]
  /\ UNCHANGED <<getVars, tenantVars, daemonVars, acceptorVars>>

SummarizeTenant(s) ==
  /\ TenantsRead /\ s \in cleanup.todo /\ lock[s] = None
  /\ cleanup' = [cleanup EXCEPT !.todo = @ \ {s}]
  /\ UNCHANGED <<getVars, tenantVars, daemonVars, acceptorVars>>

TakeSandboxes ==
  /\ cleanup.pc = "summary" /\ cleanup.todo = {}
  /\ cleanup' = [cleanup EXCEPT !.pc = "sandboxes", !.vms = running]
  /\ running' = {} /\ closing' = closing \union running
  /\ UNCHANGED <<req, vm, tenantVars, daemonVars, acceptorVars>>

TakeTenants ==
  /\ cleanup.pc = "sandboxes" /\ cleanup.vms \intersect closing = {}
  /\ cleanup' = [cleanup EXCEPT !.pc = "daemons", !.todo = tenants]
  /\ tenants' = {}
  /\ UNCHANGED <<getVars, lock, instance, daemonVars, acceptorVars>>

TakeDaemon(s) ==
  /\ cleanup.pc = "daemons" /\ s \in cleanup.todo /\ lock[s] = None
  /\ cleanup' = [cleanup EXCEPT !.todo = @ \ {s}, !.daemon = instance[s],
                                !.pc = IF instance[s] = None THEN "daemons" ELSE "wait"]
  /\ instance' = [instance EXCEPT ![s] = None]
  /\ UNCHANGED <<getVars, tenants, lock, daemonVars, acceptorVars>>

ShutdownDaemon_Bug ==   \* waits until no sandbox has a handle to the daemon
  LET d == cleanup.daemon
  IN  /\ cleanup.pc = "wait" /\ ~daemon[d].taken /\ daemon[d].reader = None
      /\ \A r \in running : req[r].daemon # d
      /\ daemon' = [daemon EXCEPT ![d].taken = TRUE]
      /\ UNCHANGED <<getVars, tenantVars, wire, sent, acceptorVars, cleanup>>

\* LinuxDaemon::shutdown() waits for whoever reads the stream, and takes the inner state.
ShutdownDaemon ==
  LET d == cleanup.daemon
  IN  /\ cleanup.pc = "wait" /\ ~daemon[d].taken /\ daemon[d].reader = None
      /\ daemon' = [daemon EXCEPT ![d].taken = TRUE]
      /\ UNCHANGED <<getVars, tenantVars, wire, sent, acceptorVars, cleanup>>

\* The daemon exits on the message, or is killed after SHUTDOWN_TIMEOUT.
DaemonStopped ==
  LET d == cleanup.daemon
  IN  /\ cleanup.pc = "wait" /\ daemon[d].taken
      /\ daemon' = [daemon EXCEPT ![d].child = "dead"]
      /\ cleanup' = [cleanup EXCEPT !.pc = "daemons", !.daemon = None]
      /\ UNCHANGED <<getVars, tenantVars, wire, sent, acceptorVars>>

LastSummary ==
  /\ cleanup.pc = "daemons" /\ cleanup.todo = {}
  /\ cleanup' = [cleanup EXCEPT !.pc = "count", !.todo = tenants]
  /\ UNCHANGED <<getVars, tenantVars, daemonVars, acceptorVars>>

CleanupDone ==
  /\ cleanup.pc = "count" /\ cleanup.todo = {}
  /\ cleanup' = [cleanup EXCEPT !.pc = "done"]
  /\ UNCHANGED <<getVars, tenantVars, daemonVars, acceptorVars>>

CleanupStep ==
  \/ \E s \in TenantState : SummarizeTenant(s) \/ TakeDaemon(s)
  \/ TakeSandboxes \/ TakeTenants \/ ShutdownDaemon \/ DaemonStopped
  \/ LastSummary \/ CleanupDone

(***************************************************************************)
(* The children.                                                           *)
(***************************************************************************)

\* A daemon has bound the gateway of a VM of its tenant; it does so after it has connected.
GatewayReady(d, r) ==
  /\ Alive(d) /\ d \in connected
  /\ vm[r] = "up" /\ req[r].tenant = daemon[d].tenant
  /\ sent[d][r] < MaxReady
  /\ wire' = [wire EXCEPT ![d] = Append(@, r)]
  /\ sent' = [sent EXCEPT ![d][r] = @ + 1]
  /\ UNCHANGED <<getVars, tenantVars, daemon, acceptorVars, cleanup>>

Next ==
  \/ \E r \in Request : (\E t \in Wants[r] : Get(r, t)) \/ GetStep(r) \/ Cancel(r)
                       \/ Kill(r) \/ ShutdownVm(r)
  \/ Cleanup \/ CleanupStep
  \/ \E x \in Stream : Connect(x) \/ HandleConnection(x) \/ HandlerDrops(x)
  \/ \E d \in Daemon, r \in Request : GatewayReady(d, r)

\* A step of a task, or the expiry of its timer.
TaskStep == CleanupStep \/ \E r \in Request : GetStep(r) \/ ShutdownVm(r)

\* The runtime does not stop while a task can go on.  Every task ends after a number of steps, so
\* that this much is enough for none to be starved.
Fairness == WF_vars(TaskStep)

Spec == Init /\ [][Next]_vars /\ Fairness

(***************************************************************************)
(* Properties.                                                             *)
(***************************************************************************)

SandboxTypeOK ==
  /\ req \in [Request -> [pc : Steps, tenant : Tenant \union {None}, state : TenantState \union {None},
                          daemon : Daemon \union {None}]]
  /\ vm \in [Request -> {"none", "up", "dead"}]
  /\ running \subseteq Request /\ closing \subseteq Request
  /\ tenants \subseteq TenantState
  /\ lock \in [TenantState -> Request \union {None}] /\ instance \in [TenantState -> Daemon \union {None}]
  /\ daemon \in [Daemon -> [child : {"none", "up", "dead"}, tenant : Tenant \union {None},
                            home : TenantState \union {None}, stream : Stream \union {None},
                            taken : BOOLEAN, reader : Request \union {None}, ready : [Request -> 0..MaxReady]]]
  /\ \A d \in Daemon : \A i \in DOMAIN wire[d] : wire[d][i] \in Request
  /\ connected \subseteq Stream /\ handlers \subseteq connected /\ Cardinality(handlers) <= MaxHandlers
  /\ pending \in [Peer -> Request \union {None}] /\ rx \in [Request -> Stream \union {None}]
  /\ Len(early) <= MaxEarly
  /\ cleanup.pc \in Phases /\ cleanup.todo \subseteq TenantState

\* At most one Linux daemon lives for a tenant the cache lists, however many requests race for
\* it, fail or are cancelled: get_or_create_linuxd() serialises creation.
OneDaemonPerTenant ==
  /\ SandboxTypeOK
  /\ \A d, e \in Daemon :
       daemon[d].home \in tenants /\ daemon[d].home = daemon[e].home /\ Alive(d) /\ Alive(e) => d = e

\* A registration at the acceptor belongs to a request that still waits for that very peer and
\* will remove it, unless the request was cancelled.  A forgotten one makes every later get() of
\* the tenant fail with "duplicate control-plane registration".
RegistrationsAreOwned ==
  \A x \in Peer :
    LET r == pending[x]
    IN  r # None /\ req[r].pc # "cancelled" =>
          \/ x = req[r].tenant /\ lock[req[r].state] = r /\ req[r].pc = "await"
          \/ x = r /\ req[r].pc = "vmawait"

\* No stream reaches a request or a handle of another tenant or another VM, through the channel
\* of a waiter or through the buffer of early connections.
StreamsReachTheirPeer ==
  /\ \A r \in Request : rx[r] # None =>
       PeerOf(rx[r]) = IF req[r].pc = "await" THEN req[r].tenant ELSE r
  /\ \A d \in Daemon : daemon[d].stream # None => PeerOf(daemon[d].stream) = daemon[d].tenant

\* The acceptor brings requests and the children they wait for together: nobody is registered
\* for a request that is over, and no stream goes astray.
AcceptorExact == RegistrationsAreOwned /\ StreamsReachTheirPeer

\* A sandbox is in the cache only when a daemon of its tenant has said that the gateway of this
\* VM, and not of another one, is bound: start() awaits wait_for_gateway_ready().
RunningIsReachable ==
  \A r \in running : \E d \in Daemon : daemon[d].tenant = req[r].tenant /\ sent[d][r] > 0

\* A notification that a daemon sent for a VM is on the wire or in the buffer until the request
\* of that VM takes it, though others read the same stream, time out or are cancelled.
ReadyIsNotLost ==
  \A r \in Request :
    LET d == req[r].daemon
    IN  req[r].pc \in {"gateway", "reading"} /\ daemon[d].stream = d =>
          sent[d][r] = daemon[d].ready[r] + Len(SelectSeq(wire[d], LAMBDA q : q = r))

\* The notification that a gateway is ready reaches the request of its VM and no other.
ReadyReachesItsVm == RunningIsReachable /\ ReadyIsNotLost

\* Nobody waits for ever in the cache.  Every get() comes to an end, whatever its children do and
\* although requests queue for one another, for the acceptor and for the reader of the daemon's
\* stream.  cleanup() ends too, although state_summary() holds the list of tenants while it waits
\* for a tenant, and shutdown() waits for a reader.  Each is called once, so that they are all over
\* at the same time again and again.
CacheCallsReturn ==
  []<>(cleanup.pc \in {"off", "done"} /\ \A r \in Request : ~InProgress(r))

\* "a stale early-buffer entry from the first run must not be served to the second register call
\* after the first linuxd was cleaned up": a cached daemon is attached to its own connection.
StaleStreamNotServed ==
  \A s \in TenantState : instance[s] # None => daemon[instance[s]].stream = instance[s]

=============================================================================
