---------------------------- MODULE MCAgentParts ----------------------------
(***************************************************************************)
(* Parts of the agent and of the libraries under it, each on its own: what  *)
(* the policies (PolicyRules), the anti-cheat oracle (AcOracle) and the     *)
(* topology (Topology) answer, the corral of the background (Corral), what  *)
(* is measured (MetricsTable, CtxSwitches, ProcessSnapshot, EtwSession),    *)
(* the calls that change a processor set (AffinityCalls) or a setting of    *)
(* the system (TuningDaemon), and the shared memory region (ShmRegion).     *)
(***************************************************************************)
EXTENDS Naturals, Sequences, TLC

CONSTANTS
  Focus,                                         \* the parts looked at
  Machines, Targets, MaxTargets, MaxDecisions, MaxDefense,          \* of PolicyRules
  Services, Drivers, Known, Marked, Titles, Games, MaxMoves,        \* of AcOracle
  Computers, MaxCount,                           \* of Topology, its Machines first
  Background, Samples, Cores, VCache, AdviceLogSlots, FailMax, FailBackoff,
  CoexistEvery,                                  \* of Corral, its Pid first
  Tasks, Busy, TaskCap, HashSize, HotCap, Bulk, Sweep, Confidence, MaxTasks,
  MaxCpu,                                        \* of MetricsTable, its Pid, Cap and MaxLives
  Tid, Owners, Cpu, CacheSize, RingCap, MaxSwitches, MaxLost,       \* of CtxSwitches, Owners its Pid
  Pid, Threads, Cap, Slack, Retries, MaxLives,   \* of ProcessSnapshot, Retries its Attempts
  Settle, MaxSessions, MaxAgents,                \* of EtwSession, MaxAgents its MaxLives
  Values, Wide, MaxObjects, MaxCalls,            \* of AffinityCalls
  MaxCrashes, MaxBegun, MaxChanges,              \* of TuningDaemon
  Producers, Consumers, Version, Regions, MaxCreates, MaxWrites     \* of ShmRegion, Regions its Objects

VARIABLES
  focus,      \* the part that moves
  machine, rules, diff, cycle,
  running, list, game, answer, always, ever, moves,
  computer, cores, topo, masks, reply,
  live, quiet, optimizer, counter, coexist, fail, held, pending, refusals, since, evicted,
  ran, scanned,
  task, collector, ticks, sampled,
  threads, migrations, tid_cache, ring, write, read, head, event, counted, lost,
  system, procs, born, snap, job, result, stayed,
  agent, workload, tier, session, kernel, started, consumer, wish,
  api, names, next, setting, confined, call, calls, outcome, before, disturbed,
  os, begun, powercfg, file, records, at, step, exposed, crashes, changes,
  platform, name, obj, created, kept, pc, view, clashed, creates, writes

-----------------------------------------------------------------------------
(* The values that are looked at.                                           *)
T(k, cpu, g, h) == [kind |-> k, cpu |-> cpu, guarded |-> g, hot |-> h]
MCTargets ==
  {T("Game", 2, FALSE, TRUE), T("Stream", 1, FALSE, FALSE), T("Comm", 2, FALSE, FALSE),
   T("System", 3, FALSE, FALSE), T("Other", 0, FALSE, FALSE), T("Other", 3, FALSE, FALSE),
   T("Other", 3, TRUE, FALSE)}
M(cpus, v, e, d) == [cores |-> cpus, vcache |-> v, ecores |-> e, dies |-> d]
MCMachines ==
  {M(0..1, 0..1, {}, 1), M(0..3, 0..1, {}, 2), M(0..3, 0..1, {}, 1), M(0..3, {}, 2..3, 1),
   M(0..1, {}, {}, 1)}

MCServices == <<"spooler", "beservice", "vgc">>
MCDrivers  == {"vgk.sys", "newanticheat.sys"}
Row(class, on) == [class |-> class, always |-> on]
MCKnown    == ("beservice" :> Row("SilentPunish_C", FALSE)) @@ ("vgc" :> Row("Allow_B", TRUE))
                @@ ("vgk.sys" :> Row("Allow_B", TRUE))
MCMarked   == {"newanticheat.sys"}
MCTitles   == ("valorant" :> "Allow_B") @@ ("cod" :> "SilentPunish_C")
MCGames    == {"valorant", "cod", "other"}
MCVersion  == <<1, 2>>

B(kind, managed, size, own) ==
  [kind |-> kind, managed |-> managed, denied |-> FALSE, ruled |-> FALSE, busy |-> TRUE,
   size |-> size, own |-> own]
MCSamples ==
  {B("Other", FALSE, "in either cache", {0, 1}), B("Game", TRUE, "in the big cache", {0, 1})}

(* The machines of Topology: a processor package is a set of logical ids.   *)
Layouts == {<<{0}>>, <<{0, 1}>>, <<{0}, {1}, {2}, {3}>>, <<{0, 2}, {1, 3}>>, <<{0, 1}, {2, 3}, {4}, {5}>>}
Domains(n) == {[i \in 1..n |-> 0]} \cup {[i \in 1..n |-> IF i <= k THEN 1 ELSE 2] : k \in 1..n}
Classes(n) == {[i \in 1..n |-> IF i <= n \div 2 THEN p ELSE q] : p, q \in {0, 1}}
Systems == {<<"windows", FALSE, 0>>, <<"windows", FALSE, 2>>, <<"linux", FALSE, 0>>, <<"linux", TRUE, 0>>}
MCComputers ==
  UNION {{[os |-> s[1], numa |-> s[2], shift |-> s[3], phys |-> p, class |-> c, l3 |-> d, mb |-> m] :
            s \in Systems, c \in Classes(Len(p)), d \in Domains(Len(p)),
            m \in {<<32, 32>>, <<96, 32>>, <<32, 72>>}} : p \in Layouts}

-----------------------------------------------------------------------------
Rules == INSTANCE PolicyRules

Oracle == INSTANCE AcOracle

Topo == INSTANCE Topology WITH
  machine <- computer, answer <- reply,
  Machines <- Computers

Outside == INSTANCE Corral WITH
  Pid <- Background

Metrics == INSTANCE MetricsTable WITH
  proc <- task, table <- collector, shown <- sampled,
  Pid <- Tasks, Cap <- TaskCap, MaxLives <- MaxTasks

Switches == INSTANCE CtxSwitches WITH
  moves <- migrations, cache <- tid_cache,
  Pid <- Owners

Snapshot == INSTANCE ProcessSnapshot WITH
  os <- system,
  Attempts <- Retries

Etw == INSTANCE EtwSession WITH
  MaxLives <- MaxAgents

Affinity == INSTANCE AffinityCalls WITH
  result <- outcome

Tuning == INSTANCE TuningDaemon WITH
  snap <- records

Region == INSTANCE ShmRegion WITH
  os <- platform, result <- created,
  Objects <- Regions

ASSUME AgentPartsAssumption ==
  /\ Rules!PolicyRulesAssumption /\ Oracle!OracleAssumption /\ Outside!CorralAssumption
  /\ Metrics!MetricsAssumption
  /\ Switches!SwitchAssumption /\ Snapshot!SnapshotAssumption /\ Etw!EtwAssumption
  /\ Affinity!CallsAssumption /\ Region!RegionAssumption

rulesVars == <<machine, rules, diff, cycle>>
oracleVars == <<running, list, game, answer, always, ever, moves>>
topologyVars == <<computer, cores, topo, masks, reply>>
corralVars == <<live, quiet, optimizer, counter, coexist, fail, held, pending, refusals,
                since, evicted, ran, scanned>>
metricsVars == <<task, collector, ticks, sampled>>
switchesVars == <<threads, migrations, tid_cache, ring, write, read, head, event, counted,
                  lost>>
snapshotVars == <<system, procs, born, snap, job, result, stayed>>
etwVars == <<agent, workload, tier, session, kernel, started, consumer, wish>>
affinityVars == <<api, names, next, setting, confined, call, calls, outcome, before,
                  disturbed>>
tuningVars == <<os, begun, powercfg, file, records, at, step, exposed, crashes, changes>>
regionVars == <<platform, name, obj, created, kept, pc, view, clashed, creates, writes>>
vars == <<focus, rulesVars, oracleVars, topologyVars, corralVars, metricsVars, switchesVars,
          snapshotVars, etwVars, affinityVars, tuningVars, regionVars>>

(* The parts share no state, so the behaviours in which one of them moves are *)
(* enough for what is said of each: the others stay as they begin.           *)
Init ==
  /\ focus \in Focus
  /\ Rules!Init /\ (focus # "rules" => machine = M(0..1, {}, {}, 1))
  /\ Oracle!Init /\ (focus # "oracle" => running = {} /\ game = "other")
  /\ IF focus = "topology" THEN Topo!Init
     ELSE /\ computer = 0 /\ cores = <<>>
          /\ topo = Topo!Nothing /\ masks = Topo!Nothing /\ reply = Topo!Nothing
  /\ Outside!Init /\ (focus # "corral" => live /\ optimizer)
  /\ Metrics!Init /\ Etw!Init
  /\ Switches!Init /\ (focus # "switches" => \A t \in DOMAIN threads : threads[t].pid = 0)
  /\ Snapshot!Init /\ (focus # "snapshot" => system = "linux")
  /\ Affinity!Init /\ (focus # "affinity" => /\ api = "id" /\ confined
                                            /\ \A o \in DOMAIN setting : setting[o] = Wide)
  /\ Tuning!Init /\ (focus # "tuning" => /\ DOMAIN os = {Tuning!Windows[i] : i \in 1..4}
                                        /\ \A s \in DOMAIN os : os[s] = "owner")
  /\ Region!Init /\ (focus # "region" => platform = "posix")

OnlyRules ==
  focus = "rules" /\ UNCHANGED <<focus, oracleVars, topologyVars, corralVars, metricsVars,
                                 switchesVars, snapshotVars, etwVars, affinityVars,
                                 tuningVars, regionVars>>
OnlyOracle ==
  focus = "oracle" /\ UNCHANGED <<focus, rulesVars, topologyVars, corralVars, metricsVars,
                                  switchesVars, snapshotVars, etwVars, affinityVars,
                                  tuningVars, regionVars>>
OnlyTopo ==
  focus = "topology" /\ UNCHANGED <<focus, rulesVars, oracleVars, corralVars, metricsVars,
                                    switchesVars, snapshotVars, etwVars, affinityVars,
                                    tuningVars, regionVars>>
OnlyOutside ==
  focus = "corral" /\ UNCHANGED <<focus, rulesVars, oracleVars, topologyVars, metricsVars,
                                  switchesVars, snapshotVars, etwVars, affinityVars,
                                  tuningVars, regionVars>>
OnlyMetrics ==
  focus = "metrics" /\ UNCHANGED <<focus, rulesVars, oracleVars, topologyVars, corralVars,
                                   switchesVars, snapshotVars, etwVars, affinityVars,
                                   tuningVars, regionVars>>
OnlySwitches ==
  focus = "switches" /\ UNCHANGED <<focus, rulesVars, oracleVars, topologyVars, corralVars,
                                    metricsVars, snapshotVars, etwVars, affinityVars,
                                    tuningVars, regionVars>>
OnlySnapshot ==
  focus = "snapshot" /\ UNCHANGED <<focus, rulesVars, oracleVars, topologyVars, corralVars,
                                    metricsVars, switchesVars, etwVars, affinityVars,
                                    tuningVars, regionVars>>
OnlyEtw ==
  focus = "etw" /\ UNCHANGED <<focus, rulesVars, oracleVars, topologyVars, corralVars,
                               metricsVars, switchesVars, snapshotVars, affinityVars,
                               tuningVars, regionVars>>
OnlyAffinity ==
  focus = "affinity" /\ UNCHANGED <<focus, rulesVars, oracleVars, topologyVars, corralVars,
                                    metricsVars, switchesVars, snapshotVars, etwVars,
                                    tuningVars, regionVars>>
OnlyTuning ==
  focus = "tuning" /\ UNCHANGED <<focus, rulesVars, oracleVars, topologyVars, corralVars,
                                  metricsVars, switchesVars, snapshotVars, etwVars,
                                  affinityVars, regionVars>>
OnlyRegion ==
  focus = "region" /\ UNCHANGED <<focus, rulesVars, oracleVars, topologyVars, corralVars,
                                  metricsVars, switchesVars, snapshotVars, etwVars,
                                  affinityVars, tuningVars>>

Next ==
  \/ OnlyRules /\ Rules!Next
  \/ OnlyOracle /\ Oracle!Next
  \/ OnlyTopo /\ Topo!Next
  \/ OnlyOutside /\ Outside!Next
  \/ OnlyMetrics /\ Metrics!Next
  \/ OnlySwitches /\ Switches!Next
  \/ OnlySnapshot /\ Snapshot!Next
  \/ OnlyEtw /\ Etw!Next
  \/ OnlyAffinity /\ Affinity!Next
  \/ OnlyTuning /\ Tuning!Next
  \/ OnlyRegion /\ Region!Next

Spec == Init /\ [][Next]_vars

-----------------------------------------------------------------------------
(* What belongs to other programs, or is shared with them, is respected: a     *)
(* game is judged by what runs while it runs, the corral leaves a process alone *)
(* that refuses, and stays out when another program manages affinities; no    *)
(* trace session outlives the agent for good, and its tier changes for nothing *)
(* less than a settled wish; what is read of a shared region is one write.     *)
OthersAreRespected ==
  /\ [](Oracle!GateIsRight /\ Outside!RefusedIsLeftAlone)
  /\ Outside!RefusedIsGivenTime /\ Outside!OptimizerIsNotFought
  /\ []Etw!NoStraySession /\ Etw!TierFollowsTheWish
  /\ []Region!RegionIsSound

(* What is measured belongs to the process it is shown for, whatever pids and *)
(* thread ids are recycled; what is decided on it does not collide, the cores *)
(* handed out are the best there are, and games and background do not share   *)
(* a physical core.                                                          *)
ReadingsAndDecisionsAreRight ==
  /\ Metrics!TableSound /\ Metrics!MeasuresEverything
  /\ Switches!AttributionIsRight /\ Snapshot!SnapshotIsSound
  /\ Rules!DecisionsAreSound /\ Topo!AnswersAreBest /\ Topo!GamesStayApart

(* A change of the system can be undone: of a process or a thread by the      *)
(* caller that made it, of a setting by whoever runs after a crash.          *)
ChangesCanBeUndone == Affinity!CallsCanBeUndone /\ Tuning!EverythingCanBeGivenBack
=============================================================================
