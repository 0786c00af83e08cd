------------------------------ MODULE GraphShape ------------------------------
(***************************************************************************)
(* What the framework computes of a graph before it runs: the checks of     *)
(* GraphValidator, the order in which GraphRuntime starts and ticks the     *)
(* nodes, and the greedy plan of the scheduler (Scheduler.cpp).  Nodes are  *)
(* 0 .. size-1; a graph is its size and the sequence of its wires           *)
(* [src, dst]; a core is a record of the topology, a hint what the graph    *)
(* asks for a node; numbers the program leaves at UINT32_MAX are None.      *)
(***************************************************************************)
EXTENDS Integers, Sequences, FiniteSets, FiniteSetsExt, SequencesExt

CONSTANT None

Nodes(size) == 0..(size - 1)

(* adj[n]: where the wires of n lead, in the order of the wires. *)
Adj(wires, n) ==
  LET mine == SelectSeq(wires, LAMBDA w : w.src = n)
  IN  [i \in DOMAIN mine |-> mine[i].dst]

Indegree(wires, n) == Cardinality({i \in DOMAIN wires : wires[i].dst = n})

(* The nodes that satisfy P, in the order of their numbers. *)
InOrder(size, P(_)) ==
  LET f[n \in 0..size] ==
        IF n = 0 THEN <<>> ELSE IF P(n - 1) THEN Append(f[n - 1], n - 1) ELSE f[n - 1]
  IN  f[size]

-----------------------------------------------------------------------------
(* validate_acyclicity: a depth-first search that colours a node gray when  *)
(* it is pushed and black when it is popped.  "stack" holds the nodes and   *)
(* the next of their wires to follow.                                       *)

Search(size, wires, start, color) ==
  LET Step(s) ==
        LET top == Last(s.stack)
            a   == Adj(wires, top.node)
            up  == [s.stack EXCEPT ![Len(s.stack)].next = @ + 1]
        IN  IF s.stack = <<>> \/ s.cycle THEN s
            ELSE IF top.next > Len(a)
            THEN [s EXCEPT !.color[top.node] = "black", !.stack = Front(@)]
            ELSE CASE s.color[a[top.next]] = "gray"  -> [s EXCEPT !.cycle = TRUE]
                   [] s.color[a[top.next]] = "white" ->
                        [s EXCEPT !.color[a[top.next]] = "gray",
                                  !.stack = Append(up, [node |-> a[top.next], next |-> 1])]
                   [] OTHER -> [s EXCEPT !.stack = up]
      Run[k \in Nat] ==
        IF k = 0
        THEN [color |-> [color EXCEPT ![start] = "gray"],
              stack |-> <<[node |-> start, next |-> 1]>>, cycle |-> FALSE]
        ELSE Step(Run[k - 1])
  IN  Run[2 * (size + Len(wires))]

(* Mutant: a node is black as soon as it is found. *)
FindsCycleEarlyBlack(size, wires) ==
  \E n \in Nodes(size) :
    Search(size, wires, n, [m \in Nodes(size) |-> IF m = n THEN "white" ELSE "black"]).cycle

FindsCycle(size, wires) ==
  LET White == [n \in Nodes(size) |-> "white"]
      From[n \in 0..size] ==
        IF n = 0 THEN [color |-> White, cycle |-> FALSE]
        ELSE LET was == From[n - 1]
             IN  IF was.cycle \/ was.color[n - 1] # "white" THEN was
                 ELSE LET s == Search(size, wires, n - 1, was.color)
                      IN  [color |-> s.color, cycle |-> s.cycle]
  IN  From[size].cycle

(* validate_reachability: breadth first from the nodes with wires out and   *)
(* none in.                                                                 *)
Reached(size, wires) ==
  LET More(S) == S \cup {wires[i].dst : i \in {j \in DOMAIN wires : wires[j].src \in S}}
      Seen[k \in 0..size] ==
        IF k = 0
        THEN {n \in Nodes(size) : Indegree(wires, n) = 0 /\ Adj(wires, n) # <<>>}
        ELSE More(Seen[k - 1])
  IN  Seen[size]

ReachesAll(size, wires) ==
  IF wires = <<>> THEN size = 1 ELSE Reached(size, wires) = Nodes(size)

(* validate_all; every wire has the hash of a message type. *)
Validates(size, wires) == ~FindsCycle(size, wires) /\ ReachesAll(size, wires)

-----------------------------------------------------------------------------
(* build_tick_order: Kahn's algorithm, and the order of the numbers when    *)
(* the queue does not drain every node.                                     *)

(* Mutant: a node is queued at the first of its wires. *)
TickOrderEager(size, wires) ==
  LET Run[k \in 0..size] ==
        IF k = 0 THEN InOrder(size, LAMBDA n : Indegree(wires, n) = 0)
        ELSE LET q == Run[k - 1]
             IN  IF k > Len(q) THEN q
                 ELSE q \o SelectSeq(Adj(wires, q[k]), LAMBDA d : d \notin ToSet(q))
  IN  IF Len(Run[size]) # size THEN InOrder(size, LAMBDA n : TRUE) ELSE Run[size]

TickOrder(size, wires) ==
  LET (* the wires of the first k nodes of the queue no longer count *)
      Follow(s, d) ==
        LET left == [s.left EXCEPT ![d] = @ - 1]
        IN  [queue |-> IF left[d] = 0 THEN Append(s.queue, d) ELSE s.queue, left |-> left]
      Run[k \in 0..size] ==
        IF k = 0
        THEN [queue |-> InOrder(size, LAMBDA n : Indegree(wires, n) = 0),
              left  |-> [n \in Nodes(size) |-> Indegree(wires, n)]]
        ELSE LET s == Run[k - 1]
             IN  IF k > Len(s.queue) THEN s
                 ELSE FoldLeft(Follow, s, Adj(wires, s.queue[k]))
  IN  IF Len(Run[size].queue) < size
      THEN InOrder(size, LAMBDA n : TRUE)
      ELSE Run[size].queue

-----------------------------------------------------------------------------
(* The reference: which nodes a node leads to, by paths of any length.      *)

LeadsTo(size, wires, n) ==
  LET More(S) == S \cup {wires[i].dst : i \in {j \in DOMAIN wires : wires[j].src \in S}}
      Path[k \in 1..size] ==
        IF k = 1 THEN {wires[i].dst : i \in {j \in DOMAIN wires : wires[j].src = n}}
        ELSE More(Path[k - 1])
  IN  Path[size]

Acyclic(size, wires) == \A n \in Nodes(size) : n \notin LeadsTo(size, wires, n)

(* Every node is on a path from one that has wires out and none in. *)
Rooted(size, wires) ==
  \A n \in Nodes(size) :
    \E r \in Nodes(size) :
      /\ \A i \in DOMAIN wires : wires[i].dst # r
      /\ r = n => \E i \in DOMAIN wires : wires[i].src = r
      /\ r = n \/ n \in LeadsTo(size, wires, r)

-----------------------------------------------------------------------------
(* The plan: node after node takes the core with the best score for its     *)
(* hint, given the nodes placed so far.                                     *)

Cores(topology) == {topology[i] : i \in DOMAIN topology}

(* How many nodes of the plan are on a core; plan[n + 1] is node n's.       *)
Usage(plan, id) == Cardinality({i \in DOMAIN plan : plan[i] = id})

Eligible(core, budget, plan) ==
  /\ budget.efficiency \/ ~core.efficiency
  /\ budget.cores = None \/ core.id < budget.cores
  /\ budget.numa = None \/ core.numa = None \/ core.numa < budget.numa
  /\ budget.siblings \/ core.sibling = None \/ Usage(plan, core.sibling) = 0

(* What a role makes of the hint and of the budget. *)
Effective(hint) ==
  [hint EXCEPT !.gpu      = @ \/ hint.role = "RENDER",
               !.vcache   = @ \/ hint.role = "COMPUTE",
               !.isolated = @ \/ hint.role = "COMPUTE"]

Allowed(hint, budget) == [budget EXCEPT !.efficiency = @ \/ hint.role = "IO"]

(* The core a node is on; a node that comes later is on none yet. *)
CoreOf(topology, plan, n) ==
  {c \in Cores(topology) : n # None /\ n + 1 \in DOMAIN plan /\ plan[n + 1] = c.id}

Score(hint, core, plan, topology) ==
  LET Points(holds, p) == IF holds THEN p ELSE 0
      mates == CoreOf(topology, plan, hint.mate)
      foes  == {f \in hint.foes : \E c \in CoreOf(topology, plan, f) : c.ccx = core.ccx}
  IN  Points(hint.vcache /\ core.vcache, 100)
      + Points(hint.numa # None /\ hint.numa = core.numa, 50)
      + Points(hint.gpu /\ core.gpu, 30)
      + Points(\E c \in mates : c.ccx = core.ccx /\ c.ccd = core.ccd, 60)
      - 80 * Cardinality(foes)
      + Points(hint.isolated, IF Usage(plan, core.id) = 0 THEN 20 ELSE -40)

(* The CCD of the first core with V-Cache, and the one whose cores have the *)
(* highest average frequency, when there are several.                       *)
First(topology, P(_)) ==
  LET i == {j \in DOMAIN topology : P(topology[j])}
  IN  IF i = {} THEN None ELSE topology[Min(i)].ccd

FreqCcd(topology) ==
  LET known     == {c \in Cores(topology) : c.freq > 0}
      ccds      == {c.ccd : c \in known}
      Of(d)     == {c \in known : c.ccd = d}
      Average(d) == MapThenSumSet(LAMBDA c : c.freq, Of(d)) \div Cardinality(Of(d))
  IN  IF Cardinality(ccds) < 2 THEN None
      ELSE First(topology, LAMBDA c : /\ c \in known
                                      /\ \A d \in ccds : Average(d) <= Average(c.ccd))

Filter(topology, hint) ==
  CASE hint.ccd = "vcache" -> First(topology, LAMBDA c : c.vcache)
    [] hint.ccd = "freq"   -> FreqCcd(topology)
    [] OTHER               -> None

(* The cores a node may take: those of its CCD, else any, else the first.   *)
Candidates(topology, hint, budget, plan) ==
  LET fit  == {c \in Cores(topology) : Eligible(c, Allowed(hint, budget), plan)}
      ccd  == Filter(topology, hint)
      here == {c \in fit : ccd = None \/ c.ccd = ccd}
  IN  IF here # {} THEN here ELSE IF fit # {} THEN fit ELSE {topology[1]}

(* Best score, then least number.  A UI_MAIN node takes no core. *)
Assign(topology, hint, budget, plan) ==
  LET among == Candidates(topology, hint, budget, plan)
      Mark(c) == Score(Effective(hint), c, plan, topology)
      best  == {c \in among : \A d \in among : Mark(d) <= Mark(c)}
  IN  IF hint.role = "UI_MAIN" THEN None
      ELSE (CHOOSE c \in best : \A d \in best : c.id <= d.id).id

(* Mutant: the cores in use are not counted. *)
PlanUncounted(topology, hints, budget) ==
  IF topology = <<>> THEN [i \in DOMAIN hints |-> None]
  ELSE [i \in DOMAIN hints |-> Assign(topology, hints[i], budget, <<>>)]

Plan(topology, hints, budget) ==
  LET P[n \in 0..Len(hints)] ==
        IF n = 0 THEN <<>>
        ELSE LET plan == P[n - 1] IN Append(plan, Assign(topology, hints[n], budget, plan))
  IN  IF topology = <<>> THEN [i \in DOMAIN hints |-> None] ELSE P[Len(hints)]

(* The nodes the application pumps itself.  Without cores none is external. *)
External(topology, hints) ==
  {n \in 0..(Len(hints) - 1) : topology # <<>> /\ hints[n + 1].role = "UI_MAIN"}
=============================================================================
