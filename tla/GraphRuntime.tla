---------------------------- MODULE GraphRuntime ----------------------------
(***************************************************************************)
(* The life of a graph (GraphRuntime.cpp) under the threads that use it:    *)
(* the owner, which builds, starts, runs or pumps, shuts down and destroys  *)
(* it; one worker per node in the multi-threaded mode; a thread that calls  *)
(* stop(); and one that pauses, resumes and restarts nodes.  The last two   *)
(* are joined before the owner shuts down, as run_graph.hpp does.           *)
(*                                                                          *)
(* A load or a store of a flag another thread uses is a step, and so is the *)
(* begin and the end of every call into a node.                             *)
(***************************************************************************)
EXTENDS GraphShape

CONSTANTS
  Graphs,      \* the graphs: [size, wires, hints, validated]
  Topology,    \* the cores of the machine, in the order of the probe
  Budget       \* the budget of the scheduler

VARIABLES
  graph,       \* the graph of this run
  multi,       \* multi_threaded_
  order,       \* tick_order
  stop, quiescing, started, paused,
  life,        \* each node: "none", "made", "on" after on_start, "off" after on_stop, "gone"
  rings,       \* the wires: "none", "live", "freed"
  owner, k,    \* where the owner is, and its place in tick_order
  worker,      \* where each worker is
  stopper,     \* the thread that calls stop()
  manager, target  \* the thread that pauses and restarts, and the node it restarts

flags  == <<stop, quiescing, paused>>
actors == <<owner, k, worker, stopper, manager, target>>
vars   == <<graph, multi, order, flags, started, life, rings, actors>>

All      == Nodes(graph.size)
AnyNode  == UNION {Nodes(g.size) : g \in Graphs}
external == External(Topology, graph.hints)

(* What pump_all_external walks over. *)
PumpOrder(g) == InOrder(g.size, LAMBDA n : n \in External(Topology, g.hints))

(* The wires join nodes, and the orders of GraphShape, which are computed by *)
(* recursion, are what they are meant to be: every node once, and if there   *)
(* is no cycle those that feed it first; the nodes the application pumps.    *)
Enumerates(o, g) ==
  /\ o \in [1..g.size -> Nodes(g.size)] /\ Len(o) = g.size
  /\ \A n \in Nodes(g.size) : \E i \in 1..g.size : o[i] = n
  /\ \A i, j \in 1..g.size : o[i] = o[j] => i = j

FollowsWires(o, g) ==
  \A w \in DOMAIN g.wires : \A i, j \in 1..g.size :
    o[i] = g.wires[w].src /\ o[j] = g.wires[w].dst => i < j

GraphAssumption ==
  \A g \in Graphs :
    /\ g.size \in Nat \ {0} /\ None \notin Nodes(g.size)
    /\ \A i \in DOMAIN g.wires : {g.wires[i].src, g.wires[i].dst} \subseteq Nodes(g.size)
    /\ Enumerates(TickOrder(g.size, g.wires), g)
    /\ Acyclic(g.size, g.wires) => FollowsWires(TickOrder(g.size, g.wires), g)
    /\ PumpOrder(g) \in Seq(Nodes(g.size))
    /\ PumpOrder(g) = <<>> => External(Topology, g.hints) = {}

TypeOK ==
  /\ graph \in Graphs /\ multi \in BOOLEAN
  /\ order \in BoundedSeq(AnyNode, graph.size)
  /\ stop \in BOOLEAN /\ quiescing \in BOOLEAN /\ started \in BOOLEAN
  /\ paused \in [All -> BOOLEAN]
  /\ life \in [All -> {"none", "made", "on", "off", "gone"}]
  /\ rings \in {"none", "live", "freed"}
  /\ owner \in {"build", "start", "spawn", "ready", "wait", "run", "look", "tick",
                "pump", "pumplook", "pumptick", "down", "join", "stopping", "idle",
                "dtor", "dtorjoin", "destroy", "free", "end"}
  /\ k \in 0..graph.size
  /\ worker \in [All -> {"none", "loop", "look", "tick", "done"}]
  /\ stopper \in {"idle", "stopped"}
  /\ manager \in {"idle", "stop", "start", "resume"}
  /\ target \in AnyNode \cup {None}

Init ==
  /\ graph \in Graphs /\ multi \in BOOLEAN
  /\ order = <<>>
  /\ stop = FALSE /\ quiescing = FALSE /\ started = FALSE
  /\ paused = [n \in All |-> FALSE]
  /\ life = [n \in All |-> "none"] /\ rings = "none"
  /\ owner = "build" /\ k = 1
  /\ worker = [n \in All |-> "none"]
  /\ stopper = "idle" /\ manager = "idle" /\ target = None

-----------------------------------------------------------------------------
(* The owner.                                                               *)

(* build() refuses a graph without wires, and one that does not validate    *)
(* when validate() was asked for.                                           *)
Refused == graph.wires = <<>> \/ (graph.validated /\ ~Validates(graph.size, graph.wires))

Build ==
  /\ owner = "build"
  /\ IF Refused
     THEN owner' = "end" /\ UNCHANGED <<order, life, rings>>
     ELSE /\ owner' = "start"
          /\ order' = TickOrder(graph.size, graph.wires)
          /\ life' = [n \in All |-> "made"] /\ rings' = "live"
  /\ UNCHANGED <<graph, multi, flags, started, k, worker, stopper, manager, target>>

(* create() fails at a node nobody registered: what was made is destroyed.  *)
CreateFails ==
  /\ owner = "build" /\ ~Refused
  /\ \E made \in 0..(graph.size - 1) :
       life' = [n \in All |-> IF n < made THEN "gone" ELSE "none"]
  /\ owner' = "end"
  /\ UNCHANGED <<graph, multi, order, flags, started, rings, k, worker, stopper, manager, target>>

StartNode ==
  /\ owner = "start"
  /\ life' = [life EXCEPT ![order[k]] = "on"]
  /\ IF k < Len(order)
     THEN k' = k + 1 /\ UNCHANGED <<owner, started>>
     ELSE k' = 1 /\ started' = TRUE /\ owner' = IF multi THEN "spawn" ELSE "ready"
  /\ UNCHANGED <<graph, multi, order, flags, rings, worker, stopper, manager, target>>

Spawn ==
  /\ owner = "spawn"
  /\ worker' = [worker EXCEPT ![order[k]] = IF order[k] \in external THEN @ ELSE "loop"]
  /\ IF k < Len(order) THEN k' = k + 1 /\ UNCHANGED owner ELSE k' = 1 /\ owner' = "ready"
  /\ UNCHANGED <<graph, multi, order, flags, started, life, rings, stopper, manager, target>>

ownerOnly == <<graph, multi, order, started, life, rings, worker, stopper, manager, target>>

(* The owner calls run(), or pump_all_external() for its own nodes, or it   *)
(* shuts down, or destroys the graph without shutting down.                 *)
Joined == manager = "idle"

Call ==
  /\ owner \in {"ready", "idle"}
  /\ k' = 1
  /\ \/ owner = "ready" /\ owner' = IF multi THEN "wait" ELSE "run"
     \/ owner = "ready" /\ multi /\ external # {} /\ owner' = "pump"
     \/ owner = "ready" /\ Joined /\ owner' = "down"
     \/ Joined /\ owner' = "dtor"
  /\ UNCHANGED <<flags, ownerOnly>>

Wait ==
  /\ owner = "wait" /\ stop
  /\ owner' = "ready"
  /\ UNCHANGED <<flags, k, ownerOnly>>

(* The single-threaded loop: the flag once a round, then every node.        *)
Round ==
  /\ owner = "run"
  /\ owner' = IF stop THEN "ready" ELSE "look"
  /\ k' = 1
  /\ UNCHANGED <<flags, ownerOnly>>

(* Mutant: one step past the last node. *)
NextNodeTooFar ==
  IF k <= Len(order) THEN k' = k + 1 /\ owner' = "look" ELSE k' = 1 /\ owner' = "run"

NextNode == IF k < Len(order) THEN k' = k + 1 /\ owner' = "look" ELSE k' = 1 /\ owner' = "run"

Look ==
  /\ owner = "look"
  /\ IF paused[order[k]] THEN NextNode ELSE owner' = "tick" /\ k' = k
  /\ UNCHANGED <<flags, ownerOnly>>

(* RingEmpty and InvalidHandle are normal here, RingFull is fatal. *)
TickEnds ==
  /\ owner = "tick"
  /\ \/ NextNode /\ UNCHANGED flags
     \/ /\ stop' = TRUE
        /\ owner' = "ready" /\ k' = 1
        /\ UNCHANGED <<quiescing, paused>>
  /\ UNCHANGED ownerOnly

(* pump_all_external: quiescing_ before every node; a fatal error ends it.  *)
Pumped == PumpOrder(graph)

NextPump == IF k < Len(Pumped) THEN k' = k + 1 /\ owner' = "pump" ELSE k' = 1 /\ owner' = "ready"

Pump ==
  /\ owner = "pump"
  /\ IF quiescing THEN owner' = "ready" /\ k' = 1 ELSE owner' = "pumplook" /\ k' = k
  /\ UNCHANGED <<flags, ownerOnly>>

PumpLook ==
  /\ owner = "pumplook"
  /\ IF paused[Pumped[k]] THEN NextPump ELSE owner' = "pumptick" /\ k' = k
  /\ UNCHANGED <<flags, ownerOnly>>

PumpEnds ==
  /\ owner = "pumptick"
  /\ \/ NextPump /\ UNCHANGED flags
     \/ /\ stop' = TRUE
        /\ owner' = "ready" /\ k' = 1
        /\ UNCHANGED <<quiescing, paused>>
  /\ UNCHANGED ownerOnly

AllDone == \A n \in All : worker[n] \in {"none", "done"}

(* shutdown(): the flag, the join, on_stop from the last node to the first. *)
Shutdown ==
  /\ owner = "down"
  /\ stop' = TRUE
  /\ owner' = "join"
  /\ UNCHANGED <<quiescing, paused, k, ownerOnly>>

(* Mutant: the threads are let go, not joined. *)
Detach ==
  /\ owner = "join"
  /\ owner' = "stopping" /\ k' = Len(order)
  /\ worker' = [n \in All |-> worker[n]]
  /\ UNCHANGED <<flags, graph, multi, order, started, life, rings, stopper, manager, target>>

Join ==
  /\ owner = "join" /\ AllDone
  /\ worker' = [n \in All |-> "none"]
  /\ owner' = "stopping" /\ k' = Len(order)
  /\ UNCHANGED <<flags, graph, multi, order, started, life, rings, stopper, manager, target>>

StopNode ==
  /\ owner = "stopping"
  /\ life' = [life EXCEPT ![order[k]] = "off"]
  /\ IF k > 1
     THEN k' = k - 1 /\ UNCHANGED <<owner, started>>
     ELSE k' = 1 /\ owner' = "idle" /\ started' = FALSE
  /\ UNCHANGED <<flags, graph, multi, order, rings, worker, stopper, manager, target>>

(* ~Impl(): the flag and the join again, the nodes, and then the wires.     *)
Destructor ==
  /\ owner = "dtor"
  /\ stop' = TRUE
  /\ owner' = "dtorjoin"
  /\ UNCHANGED <<quiescing, paused, k, ownerOnly>>

DestructorJoin ==
  /\ owner = "dtorjoin" /\ AllDone
  /\ owner' = "destroy" /\ k' = 0
  /\ UNCHANGED <<flags, ownerOnly>>

(* Mutant: the wires are freed before the nodes. *)
DestroyWiresFirst ==
  /\ owner = "destroy"
  /\ rings' = "freed"
  /\ life' = [life EXCEPT ![k] = "gone"]
  /\ IF k < graph.size - 1 THEN k' = k + 1 /\ UNCHANGED owner ELSE k' = 1 /\ owner' = "free"
  /\ UNCHANGED <<flags, graph, multi, order, started, worker, stopper, manager, target>>

DestroyNode ==
  /\ owner = "destroy"
  /\ life' = [life EXCEPT ![k] = "gone"]
  /\ IF k < graph.size - 1 THEN k' = k + 1 /\ UNCHANGED owner ELSE k' = 1 /\ owner' = "free"
  /\ UNCHANGED <<flags, graph, multi, order, started, rings, worker, stopper, manager, target>>

FreeWires ==
  /\ owner = "free"
  /\ rings' = "freed"
  /\ owner' = "end"
  /\ UNCHANGED <<flags, graph, multi, order, started, life, k, worker, stopper, manager, target>>

-----------------------------------------------------------------------------
(* A worker: the stop flag, the pause flag, the node.                       *)

workerOnly == <<graph, multi, order, quiescing, paused, started, life, rings, owner, k,
                stopper, manager, target>>

WorkerLoop(n) ==
  /\ worker[n] = "loop"
  /\ worker' = [worker EXCEPT ![n] = IF stop THEN "done" ELSE "look"]
  /\ UNCHANGED <<stop, workerOnly>>

(* Mutant: it waits for the end of the pause where it is. *)
WorkerWaits(n) ==
  /\ worker[n] = "look"
  /\ worker' = [worker EXCEPT ![n] = IF paused[n] THEN "look" ELSE "tick"]
  /\ UNCHANGED <<stop, workerOnly>>

WorkerLook(n) ==
  /\ worker[n] = "look"
  /\ worker' = [worker EXCEPT ![n] = IF paused[n] THEN "loop" ELSE "tick"]
  /\ UNCHANGED <<stop, workerOnly>>

(* Success, a ring that is empty or full, or an error that stops the graph. *)
WorkerTicked(n) ==
  /\ worker[n] = "tick"
  /\ \/ worker' = [worker EXCEPT ![n] = "loop"] /\ UNCHANGED stop
     \/ worker' = [worker EXCEPT ![n] = "done"] /\ stop' = TRUE
  /\ UNCHANGED workerOnly

-----------------------------------------------------------------------------
(* The threads beside the graph; they are done before shutdown().           *)

InUse == owner \in {"ready", "wait", "run", "look", "tick", "pump", "pumplook", "pumptick"}

StopCall ==
  /\ stopper = "idle" /\ InUse
  /\ stop' = TRUE /\ quiescing' = TRUE
  /\ stopper' = "stopped"
  /\ UNCHANGED <<paused, graph, multi, order, started, life, rings, owner, k, worker, manager, target>>

managerOnly == <<stop, quiescing, graph, multi, order, started, rings, owner, k, worker, stopper>>

PauseNode(n) ==
  /\ manager = "idle" /\ InUse
  /\ paused' = [paused EXCEPT ![n] = TRUE]
  /\ UNCHANGED <<life, manager, target, managerOnly>>

ResumeNode(n) ==
  /\ manager = "idle" /\ InUse
  /\ paused' = [paused EXCEPT ![n] = FALSE]
  /\ UNCHANGED <<life, manager, target, managerOnly>>

RestartNode(n) ==
  /\ manager = "idle" /\ InUse
  /\ paused' = [paused EXCEPT ![n] = TRUE]
  /\ manager' = "stop" /\ target' = n
  /\ UNCHANGED <<life, managerOnly>>

RestartStops ==
  /\ manager = "stop"
  /\ life' = [life EXCEPT ![target] = "off"]
  /\ manager' = "start"
  /\ UNCHANGED <<paused, target, managerOnly>>

RestartStarts ==
  /\ manager = "start"
  /\ life' = [life EXCEPT ![target] = "on"]
  /\ manager' = "resume"
  /\ UNCHANGED <<paused, target, managerOnly>>

RestartResumes ==
  /\ manager = "resume"
  /\ paused' = [paused EXCEPT ![target] = FALSE]
  /\ manager' = "idle" /\ target' = None
  /\ UNCHANGED <<life, managerOnly>>

-----------------------------------------------------------------------------
Owner ==
  \/ Build \/ CreateFails \/ StartNode \/ Spawn \/ Call \/ Wait
  \/ Round \/ Look \/ TickEnds \/ Pump \/ PumpLook \/ PumpEnds
  \/ Shutdown \/ Join \/ StopNode
  \/ Destructor \/ DestructorJoin \/ DestroyNode \/ FreeWires

Worker(n) == WorkerLoop(n) \/ WorkerLook(n) \/ WorkerTicked(n)

Restart == RestartStops \/ RestartStarts \/ RestartResumes

Next ==
  \/ Owner \/ StopCall \/ Restart
  \/ \E n \in All : Worker(n) \/ PauseNode(n) \/ ResumeNode(n) \/ RestartNode(n)

Spec == Init /\ [][Next]_vars

(* Threads run, and the tick of a node returns.  That a node fails, that    *)
(* somebody calls stop(), and what the owner calls next is not promised.    *)
RunReturns == Wait \/ Round \/ Look \/ TickEnds

FairSpec ==
  /\ Spec
  /\ WF_vars(RunReturns)
  /\ \A n \in AnyNode : WF_vars(n \in All /\ Worker(n))
  /\ WF_vars(Restart)

-----------------------------------------------------------------------------
(* Who is inside the tick of a node. *)
Ticking ==
  {n \in All : worker[n] = "tick"}
    \cup (IF owner = "tick" THEN {order[k]} ELSE {})
    \cup (IF owner = "pumptick" THEN {Pumped[k]} ELSE {})

(* Nobody is inside the tick of a node that was destroyed or that shutdown  *)
(* has stopped, nor while its rings are freed; and a node is destroyed, and *)
(* its inlets leave their rings, before the rings are (GraphRuntime.cpp:    *)
(* 115-128, 473-489).  Only a restart stops a node that is being ticked.    *)
TicksTouchLiveNodes ==
  /\ \A n \in Ticking : life[n] = "on" \/ (n = target /\ life[n] = "off")
  /\ Ticking # {} => rings = "live"
  /\ rings = "freed" => \A n \in All : life[n] = "gone"

(* In a graph without a cycle a node is on only while those that feed it    *)
(* are: they are started before it and stopped after it (:302-308, :483),   *)
(* except the node a restart is in the middle of.                           *)
UpstreamOutlives ==
  Acyclic(graph.size, graph.wires) /\ owner \notin {"destroy", "free", "end"}
    => \A i \in DOMAIN graph.wires :
         LET w == graph.wires[i]
         IN  life[w.dst] = "on" => life[w.src] = "on" \/ w.src = target

(* A graph that asked for validation is built exactly when it has no cycle  *)
(* and each node hangs on a source, by the definitions in GraphShape; and   *)
(* what was built and has no cycle is ticked in an order of its wires.      *)
VerdictIsRight ==
  /\ owner # "build" /\ graph.validated =>
       (Refused <=> \/ graph.wires = <<>>
                    \/ ~Acyclic(graph.size, graph.wires)
                    \/ ~Rooted(graph.size, graph.wires))
  /\ order # <<>> => ToSet(order) = All /\ Len(order) = graph.size

(* Two nodes that compute share a core only when no core with V-Cache is    *)
(* free: being idle counts for more than being first (Scheduler.cpp:196).   *)
ComputeSpreads ==
  owner = "start" =>
    LET plan == Plan(Topology, graph.hints, Budget)
        Computes == {n \in All : graph.hints[n + 1].role = "COMPUTE"}
    IN  \A m, n \in Computes :
          m # n /\ plan[m + 1] = plan[n + 1] /\ plan[m + 1] # None
            => \A c \in Cores(Topology) :
                 c.vcache => \E i \in DOMAIN plan : plan[i] = c.id

(* Once the flag is up, every worker ends and run() returns, paused nodes   *)
(* and a restart in the middle included.                                    *)
StopTakesEffect ==
  stop ~> AllDone /\ owner \notin {"wait", "run", "look", "tick"}

(* "The run loop will not tick this node during the stop/start sequence"    *)
(* (GraphRuntime.hpp:114).                                                  *)
NoTickInRestart == \A n \in Ticking : ~(n = target /\ manager \in {"start", "resume"})
=============================================================================
