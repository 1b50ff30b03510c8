----------------------------- MODULE Sandboxes -----------------------------
(***************************************************************************)
(* The life of a microVM on its host: sessions, their manager and forks    *)
(* (session.rs, session_manager.rs, fork.rs), and the older vm_manager.rs. *)
(*                                                                         *)
(* A microVM is a Firecracker process.  Whoever has its Session value owns *)
(* it, and only its owner can end it: the process is not killed when the   *)
(* value is dropped.  A call is a task that is cancelled where it awaits.  *)
(* A caller borrows the manager, and the source of a fork, for the whole   *)
(* call.  What the Firecracker API answers is external.                    *)
(***************************************************************************)
EXTENDS Integers, FiniteSets, Sequences

CONSTANTS
    Vms,        \* ids of microVMs, each used once
    Callers,    \* tasks that call the library
    Threads,    \* worker threads, each with a FORKED_SESSION of its own
    MaxFaults,  \* bound: calls that fail or are cancelled
    None        \* no microVM, no thread

ASSUME SandboxAssumption ==
    /\ IsFiniteSet(Vms) /\ MaxFaults \in Nat
    /\ None \notin Vms \cup Callers \cup Threads
    /\ Callers \cap Threads = {}
    /\ {"manager", "nobody"} \cap (Callers \cup Threads) = {}

VARIABLES
    proc,       \* each microVM's process
    owner,      \* who has its Session
    task,       \* what each caller is in the middle of
    thread,     \* the caller that a thread runs between two awaits of a fork
    pairs,      \* history: what fork_sandbox returned, the id and the Session
    faults,     \* calls that failed or were cancelled, at most MaxFaults
    overwritten \* history: forked sessions dropped from FORKED_SESSION

vars == <<proc, owner, task, thread, pairs, faults, overwritten>>

\* The requests that configure and start a microVM, in their order.
Requests ==
    [session |-> <<"boot-source", "rootfs", "machine-config", "entropy", "vsock", "start">>,
     vm |-> <<"boot-source", "rootfs", "machine-config", "vsock", "start">>,
     restored |-> <<"load">>]

\* keep: who is to own the new microVM; source: the microVM that is forked;
\* borrows: the call uses the SessionManager, which takes &mut.
Idle == [pc |-> "idle", keep |-> "nobody", kind |-> "session", vm |-> None,
         source |-> None, borrows |-> FALSE, sent |-> 0]

Init ==
    /\ proc = [v \in Vms |-> "none"]
    /\ owner = [v \in Vms |-> "nobody"]
    /\ task = [c \in Callers |-> Idle]
    /\ thread = [t \in Threads |-> None]
    /\ pairs = {}
    /\ faults = 0
    /\ overwritten = {}

Live(v) == proc[v] \in {"booting", "up", "paused", "held"}

\* One call at a time uses the manager.
Borrowed == \E c \in Callers : task[c].borrows

Owns(c, v) == owner[v] = c \/ (owner[v] = "manager" /\ ~ Borrowed)

Return(c) == task' = [task EXCEPT ![c] = Idle]

\* The microVM that a call talks to.
Peer(c) == IF task[c].vm = None THEN task[c].source ELSE task[c].vm

\* Something fails on its own, or because the process is gone.
Fails(c) ==
    \/ faults < MaxFaults /\ faults' = faults + 1
    \/ ~ Live(Peer(c)) /\ UNCHANGED faults

\* The call ends with an error and drops the Session it was making, which leaves
\* the process alone.
Abandon(c) ==
    /\ Return(c)
    /\ owner' = [v \in Vms |-> IF v = task[c].vm THEN "nobody" ELSE owner[v]]
    /\ UNCHANGED <<thread, pairs, overwritten>>

Kill(v) == proc' = [proc EXCEPT ![v] = "gone"]

-----------------------------------------------------------------------------
(* Session::with_rootfs, Session::from_snapshot, VmManager::boot *)

\* The configuration is found and the process spawned.  Errors before that
\* leave nothing but a directory.
Spawn(c, v) ==
    /\ proc[v] = "none"
    /\ proc' = [proc EXCEPT ![v] = "booting"]
    /\ owner' = [owner EXCEPT ![v] = c]

Create(c, v, kind, keep) ==
    /\ task[c].pc = "idle"
    /\ keep = "manager" => ~ Borrowed /\ kind = "session"
    /\ Spawn(c, v)
    /\ task' = [task EXCEPT ![c] = [pc |-> "spawned", keep |-> keep, kind |-> kind, vm |-> v,
                       source |-> None, borrows |-> (keep = "manager"), sent |-> 0]]
    /\ UNCHANGED <<thread, pairs, faults, overwritten>>

\* wait_for_socket_ready.  vm_manager.rs only blocks for a while, and goes on to its
\* requests whatever has become of the process.
SocketReady(c) ==
    /\ task[c].pc = "spawned" /\ (Live(task[c].vm) \/ task[c].kind = "vm")
    /\ task' = [task EXCEPT ![c].pc = "configuring"]
    /\ UNCHANGED <<proc, owner, thread, pairs, faults, overwritten>>

\* The process has exited, or is killed because the time is up.
SocketNeverReady(c) ==
    /\ task[c].pc = "spawned" /\ task[c].kind # "vm"
    /\ Fails(c)
    /\ Kill(task[c].vm)
    /\ Abandon(c)

\* The status of the process cannot be read.
StatusUnknown(c) ==
    /\ task[c].pc = "spawned" /\ task[c].kind # "vm"
    /\ Fails(c)
    /\ Abandon(c)
    /\ UNCHANGED proc

LastRequest(c) == task[c].sent + 1 = Len(Requests[task[c].kind])

\* Mutant: the start is a request like any other.
Accepted_All(c) ==
    /\ task[c].pc = "configuring" /\ Live(task[c].vm)
    /\ task' = [task EXCEPT ![c].sent = @ + 1]
    /\ UNCHANGED <<proc, owner, thread, pairs, faults, overwritten>>

Accepted(c) ==
    /\ task[c].pc = "configuring" /\ Live(task[c].vm) /\ ~ LastRequest(c)
    /\ task' = [task EXCEPT ![c].sent = @ + 1]
    /\ UNCHANGED <<proc, owner, thread, pairs, faults, overwritten>>

\* The last request starts the microVM, and the call returns its Session.
Started(c) ==
    LET v == task[c].vm IN
    /\ task[c].pc = "configuring" /\ Live(v) /\ LastRequest(c)
    /\ task[c].source = None
    /\ proc' = [proc EXCEPT ![v] = "up"]
    /\ owner' = [owner EXCEPT ![v] = task[c].keep]
    /\ Return(c)
    /\ UNCHANGED <<thread, pairs, faults, overwritten>>

\* An error of the entropy device is ignored; any other returns at once.
RequestFails(c) ==
    /\ task[c].pc = "configuring"
    /\ Requests[task[c].kind][task[c].sent + 1] # "entropy" \/ ~ Live(task[c].vm)
    /\ Fails(c)
    /\ Abandon(c)
    /\ UNCHANGED proc

-----------------------------------------------------------------------------
(* The operations of a Session and of its manager *)

\* pause and resume, by the owner.
Hold(c, v) ==
    /\ task[c].pc = "idle" /\ Owns(c, v)
    /\ \/ proc[v] = "up" /\ proc' = [proc EXCEPT ![v] = "held"]
       \/ proc[v] \in {"paused", "held"} /\ proc' = [proc EXCEPT ![v] = "up"]
    /\ UNCHANGED <<owner, task, thread, pairs, faults, overwritten>>

\* The kill is sent before anything is awaited.  The value is used up and the
\* manager has forgotten it, also when the kill fails.
End(c, v) ==
    /\ task[c].pc = "idle" /\ Owns(c, v)
    /\ owner' = [owner EXCEPT ![v] = "nobody"]
    /\ \/ Kill(v) /\ UNCHANGED faults
       \/ faults < MaxFaults /\ faults' = faults + 1 /\ UNCHANGED proc
    /\ UNCHANGED <<task, thread, pairs, overwritten>>

-----------------------------------------------------------------------------
(* fork_session and fork_sandbox *)

\* keep is the caller for fork_sandbox, and the thread's cell for fork_session.
Fork(c, s, keep) ==
    /\ task[c].pc = "idle" /\ Owns(c, s)
    /\ task' = [task EXCEPT ![c] = [pc |-> "pausing", keep |-> keep, kind |-> "restored",
             vm |-> None, source |-> s, borrows |-> (owner[s] = "manager"), sent |-> 0]]
    /\ UNCHANGED <<proc, owner, thread, pairs, faults, overwritten>>

ForkStep(c, pc, next, status) ==
    LET s == task[c].source IN
    /\ task[c].pc = pc /\ Live(s)
    /\ proc' = [proc EXCEPT ![s] = status]
    /\ task' = [task EXCEPT ![c].pc = next]
    /\ UNCHANGED <<owner, thread, pairs, faults, overwritten>>

\* Mutant: the source is not resumed after its snapshot.
Snapshot_NoResume(c) == ForkStep(c, "snapshotting", "resumed", "paused")

Pause(c) == ForkStep(c, "pausing", "snapshotting", "paused")
Snapshot(c) == ForkStep(c, "snapshotting", "resuming", "paused")
Resume(c) == ForkStep(c, "resuming", "resumed", "up")

\* pause, create_snapshot or resume fails, or the configuration of the new one.
ForkFails(c) ==
    /\ task[c].pc \in {"pausing", "snapshotting", "resuming", "resumed"}
    /\ Fails(c)
    /\ Abandon(c)
    /\ UNCHANGED proc

SpawnFork(c, v) ==
    /\ task[c].pc = "resumed"
    /\ Spawn(c, v)
    /\ task' = [task EXCEPT ![c] = [@ EXCEPT !.pc = "spawned", !.vm = v]]
    /\ UNCHANGED <<thread, pairs, faults, overwritten>>

InCell(t) == {v \in Vms : owner[v] = t}

\* The snapshot is loaded.  The Session goes into the cell of the thread that
\* runs the task by now; what was there is dropped.
Forked(c, t) ==
    LET v == task[c].vm IN
    /\ task[c].pc = "configuring" /\ task[c].source # None /\ Live(v)
    /\ thread[t] = None
    /\ proc' = [proc EXCEPT ![v] = "up"]
    /\ owner' = [w \in Vms |->
          IF w = v THEN t ELSE IF owner[w] = t THEN "nobody" ELSE owner[w]]
    /\ overwritten' = overwritten \cup InCell(t)
    /\ IF task[c].keep = c
       THEN thread' = [thread EXCEPT ![t] = c] /\ task' = [task EXCEPT ![c].pc = "forked"]
       ELSE Return(c) /\ UNCHANGED thread
    /\ UNCHANGED <<pairs, faults>>

\* Mutant: something is awaited before the cell is taken, and the task may have moved.
TakeOwn_Moved(c, t) ==
    /\ task[c].pc = "forked"
    /\ pairs' = pairs \cup {<<task[c].vm, v>> : v \in InCell(t)}
    /\ owner' = [v \in Vms |-> IF owner[v] = t THEN c ELSE owner[v]]
    /\ thread' = [u \in Threads |-> IF thread[u] = c THEN None ELSE thread[u]]
    /\ Return(c)
    /\ UNCHANGED <<proc, faults, overwritten>>

\* fork_sandbox takes the cell of its thread; nothing was awaited in between.
TakeOwn(c, t) ==
    /\ task[c].pc = "forked" /\ thread[t] = c
    /\ pairs' = pairs \cup {<<task[c].vm, v>> : v \in InCell(t)}
    /\ owner' = [v \in Vms |-> IF owner[v] = t THEN c ELSE owner[v]]
    /\ thread' = [thread EXCEPT ![t] = None]
    /\ Return(c)
    /\ UNCHANGED <<proc, faults, overwritten>>

\* take_forked_session, by whoever runs on the thread.
TakeForked(c, t) ==
    /\ task[c].pc = "idle" /\ thread[t] = None /\ InCell(t) # {}
    /\ owner' = [v \in Vms |-> IF owner[v] = t THEN c ELSE owner[v]]
    /\ UNCHANGED <<proc, task, thread, pairs, faults, overwritten>>

-----------------------------------------------------------------------------

\* The caller gives up while the call awaits something.
Cancel(c) ==
    /\ task[c].pc \notin {"idle", "forked"}
    /\ ~ (task[c].pc = "spawned" /\ task[c].kind = "vm")
    /\ faults < MaxFaults /\ faults' = faults + 1
    /\ Abandon(c)
    /\ UNCHANGED proc

\* Firecracker exits, with its guest or before it.
Exit(v) ==
    /\ Live(v)
    /\ proc' = [proc EXCEPT ![v] = "gone"]
    /\ UNCHANGED <<owner, task, thread, pairs, faults, overwritten>>

Call(c) ==
    \/ \E v \in Vms, kind \in DOMAIN Requests, keep \in {c, "manager"} :
          Create(c, v, kind, keep)
    \/ \E v \in Vms : Hold(c, v) \/ End(c, v) \/ SpawnFork(c, v)
    \/ \E v \in Vms, keep \in {c, "nobody"} : Fork(c, v, keep)

Step(c) ==
    \/ SocketReady(c) \/ SocketNeverReady(c) \/ StatusUnknown(c)
    \/ Accepted(c) \/ Started(c) \/ RequestFails(c)
    \/ Pause(c) \/ Snapshot(c) \/ Resume(c) \/ ForkFails(c)
    \/ \E t \in Threads : Forked(c, t) \/ TakeOwn(c, t) \/ TakeForked(c, t)
    \/ Cancel(c)

Next == (\E c \in Callers : Call(c) \/ Step(c)) \/ \E v \in Vms : Exit(v)

Spec == Init /\ [][Next]_vars

-----------------------------------------------------------------------------
(* Properties *)

\* The types of the processes, the owners and the calls of session.rs and fork.rs, and a
\* call never sends more requests than its kind has.
TypeOK ==
    /\ proc \in [Vms -> {"none", "booting", "up", "paused", "held", "gone"}]
    /\ owner \in [Vms -> Callers \cup Threads \cup {"manager", "nobody"}]
    /\ \A c \in Callers :
          /\ task[c].pc \in {"idle", "spawned", "configuring", "pausing",
                             "snapshotting", "resuming", "resumed", "forked"}
          /\ task[c].keep \in {c, "manager", "nobody"}
          /\ {task[c].vm, task[c].source} \subseteq Vms \cup {None}
          /\ task[c].sent \in 0 .. Len(Requests[task[c].kind]) - 1
    /\ thread \in [Threads -> Callers \cup {None}]
    /\ faults \in 0 .. MaxFaults

Orphans == {v \in Vms : Live(v) /\ owner[v] = "nobody"}

\* Paused, and nobody is forking it.
Stalled ==
    {v \in Vms : /\ proc[v] = "paused" /\ owner[v] # "nobody"
                 /\ \A c \in Callers : task[c].source # v}

\* A microVM runs without an owner, or is paused without its owner having paused it,
\* only after a call that failed or was cancelled, or after a forked session that was
\* dropped from its cell: at most one for each.
DamageBounded ==
    Cardinality(Orphans) + Cardinality(Stalled) <= faults + Cardinality(overwritten)

\* fork_sandbox returns the Session of the microVM whose id it returns.
ForkReturnsOwn == \A p \in pairs : p[1] = p[2]
=============================================================================
