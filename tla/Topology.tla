------------------------------ MODULE Topology ------------------------------
(***************************************************************************)
(* What the framework makes of the processor (framework/topology) and what *)
(* the agent's automatic policy selector makes of that.  A machine is what *)
(* the operating system reports: the physical cores in the order of its    *)
(* entries, each a set of logical processors with an efficiency class, and *)
(* the level 3 cache and memory node of each.  The code turns it into one  *)
(* CoreInfo per logical processor, once per process, and answers questions *)
(* from that.                                                              *)
(***************************************************************************)
EXTENDS Naturals, Sequences, FiniteSets

CONSTANTS Machines,     \* the machines looked at
          MaxCount      \* bound: cores asked for at once

VARIABLES machine,      \* fixed at the start
          cores,        \* enumerate_cores: found once, the same for everybody who asks
          topo,         \* HardwareTopology, once probed
          masks,        \* the selector's masks, once initialised
          answer        \* the last question and what was answered

vars == <<machine, cores, topo, masks, answer>>

Nothing == [none |-> TRUE]

----------------------------------------------------------------------------
(* The machine as the system reports it. *)

Least(S) == CHOOSE x \in S : \A y \in S : x <= y

Cpus == UNION {machine.phys[i] : i \in DOMAIN machine.phys}

Entry(c) == CHOOSE i \in DOMAIN machine.phys : c \in machine.phys[i]

Class(c) == machine.class[Entry(c)]

Domain(c) == machine.l3[Entry(c)]

SizeMb(c) == IF Domain(c) = 0 THEN 0 ELSE machine.mb[Domain(c)]

Node(c) == IF machine.numa THEN Domain(c) ELSE 0

\* Windows tells of hybrid cores by class, Linux by the highest frequency: there a core
\* below three quarters of the fastest is an efficiency core.
Hybrid == \E c, d \in Cpus : Class(c) # Class(d)

IsE(c) == Hybrid /\ Class(c) = 0

----------------------------------------------------------------------------
(* probe_cores_platform_ and fill_cache_topology. *)

\* What two cores must share to be on one die: the cache itself on Windows, its size
\* and the memory node on Linux.
DieKey(c) == IF machine.os = "windows" THEN <<Domain(c), 0>> ELSE <<Node(c), SizeMb(c)>>

\* Dies are numbered as they are met, in the order of the logical ids.
DieOf(c) == LET first == Least({d \in Cpus : DieKey(d) = DieKey(c)})
            IN  Cardinality({DieKey(d) : d \in {e \in Cpus : e < first}})

ComplexOf(c) == IF machine.shift = 0 THEN DieOf(c) ELSE c \div (2 ^ machine.shift)

IsSibling(c) == c # Least(machine.phys[Entry(c)])

\* "More than 64 MB" makes a core a V-Cache core here.
BigCache(c) == SizeMb(c) > 64

CoreInfo(c) == [physical_id |-> Entry(c), is_ht_sibling |-> IsSibling(c), ccd_id |-> DieOf(c),
                ccx_id |-> ComplexOf(c), numa_node |-> Node(c), has_v_cache |-> BigCache(c),
                is_efficiency_core |-> IsE(c)]

Primaries == {c \in Cpus : ~cores[c].is_ht_sibling}

v_cache_cores == {c \in Cpus : cores[c].has_v_cache}
p_cores == {c \in Primaries : ~cores[c].is_efficiency_core}
e_cores == {c \in Primaries : cores[c].is_efficiency_core}
ccd_cores(d) == {c \in Cpus : cores[c].ccd_id = d}

----------------------------------------------------------------------------
(* The other detectors, and probe. *)

\* VCacheDetector: 96 MB and more.
vcache_logical_ids == {c \in Cpus : SizeMb(c) >= 96}

\* The entries one after the other, each with its processors from the lowest bit up.
InOrder(S) == CHOOSE s \in [1..Cardinality(S) -> S] : \A i, j \in DOMAIN s : i < j => s[i] < s[j]

Listed == LET Upto[n \in 0..Len(machine.phys)] ==
                IF n = 0 THEN <<>> ELSE Upto[n - 1] \o InOrder(machine.phys[n])
          IN  Upto[Len(machine.phys)]

\* HybridCoreDetector: class 0 is an efficiency core on Windows, whatever the others are;
\* the check for processors without classes comes too late to see any.
DetectedOnWindows == [c \in Cpus |-> IF Class(Listed[c + 1]) = 0 THEN "Efficiency" ELSE "Performance"]

DetectedOnLinux == [c \in Cpus |-> IF IsE(c) THEN "Efficiency" ELSE "Performance"]

HybridTypes == IF machine.os = "windows" THEN DetectedOnWindows ELSE DetectedOnLinux

Init == /\ machine \in Machines
        /\ cores = [c \in Cpus |-> CoreInfo(c)]
        /\ topo = Nothing /\ masks = Nothing /\ answer = Nothing

\* The first call of topology().
Probe == /\ topo = Nothing
         /\ topo' = [core_types |-> HybridTypes, vcache_cores |-> vcache_logical_ids,
                     has_v_cache |-> IF machine.os = "windows"
                                       THEN v_cache_cores \cup vcache_logical_ids ELSE v_cache_cores,
                     ccd_count |-> Cardinality({DieOf(c) : c \in Cpus})]
         /\ UNCHANGED <<machine, cores, masks, answer>>

----------------------------------------------------------------------------
(* allocate_cores and optimal_producer_consumer_pair. *)

Sorted(S) == InOrder(S)

OnNode(n) == {c \in Primaries : cores[c].numa_node = n}

\* The preferred node's cores, the others after them, cut to the count asked for.
Pool(n) == Sorted(OnNode(n)) \o Sorted(Primaries \ OnNode(n))

Allocated(count, n) == SubSeq(Pool(n), 1, IF count <= Len(Pool(n)) THEN count ELSE Len(Pool(n)))

FirstPair(pool, Rel(_, _)) ==
  LET a == Least({x \in pool : \E y \in pool \ {x} : Rel(x, y)})
  IN  <<a, Least({y \in pool \ {a} : Rel(a, y)})>>

Apart(a, b) == cores[a].physical_id # cores[b].physical_id
InComplex(a, b) == cores[a].ccx_id = cores[b].ccx_id          \* mutant: siblings count
ApartInComplex(a, b) == Apart(a, b) /\ cores[a].ccx_id = cores[b].ccx_id
ApartOnDie(a, b) == Apart(a, b) /\ cores[a].ccd_id = cores[b].ccd_id
Any(a, b) == TRUE

Some(pool, Rel(_, _)) == \E a, b \in pool : a # b /\ Rel(a, b)

\* The primaries with the big cache when that is asked for, or all; with fewer than
\* two of them, everything.
PairPool(prefer) ==
  LET big == {c \in Primaries : prefer /\ cores[c].has_v_cache}
      physical == IF big = {} THEN Primaries ELSE big
  IN  IF e_cores # {} /\ Cardinality(p_cores) >= 2 THEN p_cores
      ELSE IF Cardinality(physical) >= 2 THEN physical ELSE Cpus

\* A machine with efficiency cores is not asked about dies.
Pair(prefer) ==
  LET pool == PairPool(prefer)
      hybrid == e_cores # {} /\ Cardinality(p_cores) >= 2
  IN  IF Cardinality(pool) = 1 THEN <<Least(pool), Least(pool)>>
      ELSE IF Some(pool, ApartInComplex) THEN FirstPair(pool, ApartInComplex)
      ELSE IF ~hybrid /\ Some(pool, ApartOnDie) THEN FirstPair(pool, ApartOnDie)
      ELSE IF Some(pool, Apart) THEN FirstPair(pool, Apart)
      ELSE FirstPair(pool, Any)

\* Bound: one question in a life.
AskPair(prefer) == /\ answer = Nothing
                   /\ answer' = [none |-> FALSE, ask |-> "pair", prefer |-> prefer, got |-> Pair(prefer)]
                   /\ UNCHANGED <<machine, cores, topo, masks>>

AskCores(count, n) == /\ answer = Nothing
                      /\ answer' = [none |-> FALSE, ask |-> "cores", count |-> count, node |-> n,
                                    got |-> Allocated(count, n)]
                      /\ UNCHANGED <<machine, cores, topo, masks>>

----------------------------------------------------------------------------
(* AutoPolicySelector. *)

\* classify: efficiency cores first, then the big cache, then the dies.
CpuClass == IF e_cores # {} THEN "HybridIntel"
            ELSE IF v_cache_cores # {} THEN IF topo.ccd_count >= 2 THEN "X3DDual" ELSE "X3DSingle"
            ELSE IF topo.ccd_count >= 2 THEN "MultiCCXNoX3D" ELSE "SingleCCD"

\* Mutant: the background is what the other detector does not call V-Cache.
MaskByDetector == [HybridIntel   |-> [game |-> p_cores, background |-> e_cores],
                   X3DSingle     |-> [game |-> v_cache_cores, background |-> {}],
                   X3DDual       |-> [game |-> v_cache_cores, background |-> Cpus \ vcache_logical_ids],
                   MultiCCXNoX3D |-> [game |-> ccd_cores(0), background |-> Cpus \ ccd_cores(0)],
                   SingleCCD     |-> [game |-> {}, background |-> {}]]

\* build_masks: the cores for games and those for what runs in the background.
MaskFor == [HybridIntel   |-> [game |-> p_cores, background |-> e_cores],
            X3DSingle     |-> [game |-> v_cache_cores, background |-> {}],
            X3DDual       |-> [game |-> v_cache_cores,
                               background |-> (0..(Cardinality(Cpus) - 1)) \ v_cache_cores],
            MultiCCXNoX3D |-> [game |-> ccd_cores(0),
                               background |-> UNION {ccd_cores(d) : d \in 1..(topo.ccd_count - 1)}],
            SingleCCD     |-> [game |-> {}, background |-> {}]]

InitFromTopology == /\ topo # Nothing /\ masks = Nothing
                    /\ masks' = MaskFor[CpuClass]
                    /\ UNCHANGED <<machine, cores, topo, answer>>

\* table_select: no mask, no action.
Selected(kind) == IF masks = Nothing THEN {}
                  ELSE IF kind = "game" THEN masks.game
                  ELSE IF kind \in {"stream", "comm", "productivity"} THEN masks.background ELSE {}

Next == \/ Probe \/ InitFromTopology
        \/ \E prefer \in BOOLEAN : AskPair(prefer)
        \/ \E count \in 0..MaxCount, n \in 0..2 : AskCores(count, n)

Spec == Init /\ [][Next]_vars

----------------------------------------------------------------------------
(* Correctness. *)

PhysicalOf(S) == {Entry(c) : c \in S}

Asked(q) == ~answer.none /\ answer.ask = q

\* Cores the pair may come from, in the machine's own terms.
Eligible == IF Cardinality(p_cores) >= 2 /\ e_cores # {} THEN p_cores ELSE Primaries

\* Producer and consumer never share a physical core when two can be had, never take an
\* efficiency core when two others can be had, and share a level 3 cache when nothing is
\* preferred and any two eligible cores share one (HardwareTopology.cpp,
\* optimal_producer_consumer_pair), wherever the cache itself tells the dies apart.
PairIsBest ==
  Asked("pair") =>
    LET a == answer.got[1]  b == answer.got[2] IN
    /\ Cardinality(PhysicalOf(Eligible)) >= 2 => Entry(a) # Entry(b) /\ {a, b} \subseteq Eligible
    /\ /\ ~answer.prefer /\ machine.os = "windows" /\ machine.shift = 0
       /\ \E x, y \in Eligible : Entry(x) # Entry(y) /\ Domain(x) = Domain(y)
       => Domain(a) = Domain(b)

\* allocate_cores hands out distinct physical cores, as many as there are, the preferred
\* node's before any other.
AllocationIsLocal ==
  Asked("cores") =>
    LET got == {answer.got[i] : i \in DOMAIN answer.got}
        Enough(S) == IF answer.count <= Cardinality(S) THEN answer.count ELSE Cardinality(S)
    IN  /\ Cardinality(PhysicalOf(got)) = Enough(Primaries) /\ Len(answer.got) = Enough(Primaries)
        /\ Cardinality(got \cap OnNode(answer.node)) = Enough(OnNode(answer.node))

AnswersAreBest == PairIsBest /\ AllocationIsLocal

\* The selector's two masks (AutoPolicySelector.hpp) name processors of the machine, no
\* physical core serves games and background, a background mask leaves games some, and
\* where one cache is big the games have it: no other core has more.
GamesStayApart ==
  masks # Nothing =>
    /\ masks.game \cup masks.background \subseteq Cpus
    /\ PhysicalOf(masks.game) \cap PhysicalOf(masks.background) = {}
    /\ masks.background # {} => masks.game # {}
    /\ ~Hybrid /\ v_cache_cores # {} =>
         \A c \in masks.game, d \in Cpus \ masks.game : SizeMb(c) > SizeMb(d)

\* "On non-hybrid CPUs all entries carry CoreType::Performance" (HybridCoreDetector.hpp:32).
NonHybridIsPerformance ==
  topo # Nothing /\ ~Hybrid => \A c \in Cpus : topo.core_types[c] = "Performance"
=============================================================================
