# Phynned: a TLA+ verification of the placement agent

Phynned is a Windows agent (with a Linux port) that decides on which cores of a
dual-CCD X3D processor games, streaming software and background processes run.
It writes to processes it does not own, may be killed at any moment, and has to
be able to undo all of it. This directory models that program in TLA+, checks
the models with TLC and proves the parts that matter most with TLAPS.

Paths are relative to the root of the repository. Short names: `AR` is
`core/src/AgentRuntime.cpp`, `AE` is `action/src/ActionExecutor.cpp`, `RJ` is
`action/src/RevertJournal.cpp`, `RV` is `tools/phynned-revert/main.cpp`, `FW` is
`framework`.

- [1. The system](#1-the-system)
- [2. The modules](#2-the-modules)
- [3. The runs](#3-the-runs)
- [4. The proofs](#4-the-proofs)
- [5. Where code and documents disagree](#5-where-code-and-documents-disagree)
- [6. What is not modelled](#6-what-is-not-modelled)
- [7. Plan](#7-plan)


## 1. The system

### Threads, processes and what they share

    phynned-ui, phynned-cli       phynned-agent                       other programs
    ---------------------   ---------------------------------   ----------------------
     PhynnedClient          loop: AgentRuntime::run                games, background
        |  command slot       |  command -> observe -> user         processes, anti-cheat
        |  snapshot           |  pins -> corral -> policies ->      drivers, optimizers
        |  action ring        |  publish -> wait                          |
        +---- shared memory --+                                           |
        |                     |  ActionExecutor --- Set* -----> affinity of a process
     overrides.txt,           |       |
     policies.toml,           |       +--- RevertJournal (file)
     memory.toml -------------+                  |
                              |            phynned-revert (dead-man)
                            watchdog thread, console handler thread (stop())

    framework: rings, channel, region | graph runtime, scheduler | topology,
    affinity calls, tuning, ETW | Vulkan, OpenGL, present surface, frame pipeline

One thread does all the work of the agent. What makes it hard is what happens
around that thread: the agent is killed between two system calls; targets exit
and their pids are reused; someone else changes the same affinity; the watchdog
and the console handler call `stop()` from their own threads; the user
interface writes a command field by field into memory the agent polls; the files
are written by two programs and cut short by crashes; a second program, the
dead-man, works on the same journal. The window has its own set: threads of a
graph that are stopped and restarted, GPU objects whose creation may fail
half-way, frames in flight.

### Components, their state and what makes each correct

| Component | State | Operations | What makes it correct |
|---|---|---|---|
| **Action executor** (`AE`) | `active_`, `active_threads_` (64 rows each), the ring of actions | `apply`, `apply_differential_pin`, `revert_action_for_pid`, `revert_all`, `revert_rule`, `prune_dead`, recovery in the constructor | At any instant a placement that stands can be undone, to the mask the process had before the first of our writes; nothing is pinned that no table knows of; a graceful exit leaves nothing |
| **Revert journal** (`RJ`) | a file of 112-byte slots, an index by (pid, creation time) | `record_pending`, `mark_applied`, `mark_reverted`, `recover` | The record is on disk before the `Set*`; recovery takes the right record of a key, and never for another process |
| **Dead-man** (`RV`) | none of its own | `run_dead_man` | Restores everything that is unresolved, whether or not the agent could |
| **Process observer** | `targets_` | `refresh` | A process that is ours stays tracked while it lives |
| **Agent tick** (`AR`) | policies paused, profile, corral switch, quiet mode, counters | the command handlers, refresh and prune, three placement passes | Each gate (pause, profile, quiet mode, anti-cheat verdict) closes what it says it closes, in every order of commands and ticks; a game is placed in the end |
| **Policy engine, selector, topology** | rules, cooldowns; the table of cores | `evaluate`, `select`, the allocations | Decisions of a cycle do not collide; games get the best complex, streams leave it |
| **User pins, corral, route advisor** | rules by process; backoff, blacklist of the session | `evaluate_user_pin`, the corral pass, `advise` | A user's pin exists only under its rule; a process that refuses is left alone for a time; another manager is not fought |
| **Anti-cheat gate and oracle** | a label per executable; caches of services and drivers | `probe_and_label`, the scan | A game with a refused probe is left alone; a foreground title is judged by what runs |
| **Classification: cache, classifier, overrides, foreground watcher** | 128 kinds, `overrides.txt`, module cache | `classify_cached`, `reload_if_changed`, `save` | What the user overrides holds, with no verdict left from before; a kind that was found is not lost with the focus |
| **Metrics collector, context switches, ETW tiers** | samples by pid and hash, thread cache, the session | `collect`, `sweep`, `on_event`, `drain`, `start`, `stop` | A reading belongs to the process it is shown for; no session of ours is left behind for good |
| **Shared memory channel** | header, tables, seqlock, ring, command slot | `publish`, `read_snapshot`, `send_command`, `drain_actions` | A clean copy is one publication; a command that is acked was carried out as sent, and is acked in the end |
| **Audit log** | file, cursor | `drain_and_write` | In order, and complete at a graceful end |
| **Watchdog, wake event** | heartbeat, `stop_requested`, the event | `heartbeat`, the poll, `signal`, `wait` | No request to stop is slept through; a hang is noticed in bounded time; a loop that runs is left alone |
| **Per-game memory, auto-revert guard** | `memory.toml` with its temporary and its backup, labels, blacklist, monitors | `load`, `save`, `upsert`, `mark_bad`, `on_policy_applied`, `on_tick` | A whole copy survives a crash at any step of a save; an executable is probed once; what regressed is not placed again |
| **Configuration store** | `policies.toml`, the rules table and its generation | `load_policies`, `save_policies`, the commands of the panels | The file has what the agent works with; a removal hits the rule that was clicked |
| **Launcher, single instance, window, tray** | lock, job object, child, connection, stall counter | `acquire`, `launch`, `connect`, the frame | One agent; a window that goes takes its agent along; the window shows a dead agent as gone, and finds the next |
| **A/B bench** | phase, captures, results | the session of the window, the import and comparison | A run is measured under the policy it is labelled with; a session that ends resumes the policies |
| **Framework: rings, channel, region** | cursors, bits of live readers, slots, name of the object | `send`, `receive`, `subscribe`, `create`, `open`, `close` | A copy is a message whole, in order, none missed; a read under the sequence number is one write |
| **Framework: graph runtime, scheduler** | nodes, wires, flags, threads | `start`, `run`, `pump`, `stop`, `pause`, `restart_node`, `shutdown` | No node is used before it starts or after it stops, a stop takes effect; nodes spread over the cores |
| **Framework: graphics** | handles, fences, semaphores, images and layouts, plane, watchdog, pool | `init`, `shutdown`, `resize`, `record`, `submit`, `present` | Nothing is destroyed in use or left behind, whichever creation fails; a record reads its own frames; frames do not go back |
| **Framework: affinity calls, tuning, snapshot** | settings of others' processes and of the system | get, set, `apply`, `rollback`, `recover` | Each change can be given back, over crashes and recycled ids |

`PROJECT.json` lists each component with its files, modules and status.

### Interactions

- *Calls.* The tick calls the executor from three passes and from the command
  handlers. The executor calls the journal before (`record_pending`) and after
  (`mark_applied`, `mark_reverted`) each `Set*`. The guard calls the executor and
  the memory; the decisions of a tick ask memory, gate and overrides first.
- *Shared memory.* Agent and clients share one mapping; on Windows it lives as
  long as any of them has it open, so it survives a restart of the agent.
- *Shared files.* Agent and dead-man share the journal, agent and command line
  `memory.toml`, panel and agent `overrides.txt`; the agent alone saves
  `policies.toml`.
- *Shared system state.* The affinity of a process has no lock: the agent,
  the dead-man, the owner and any tool write it.
- *Threads.* The loop, the watchdog and the callers of `stop()` share a flag, a
  time stamp and an event; nodes of a graph share rings; the plane and its
  watchdog a handful of atomics.

### Hard behaviours

`PROJECT.json`, under `hazards`, lists each one with its line and the properties
that would catch it. They fall into six groups:

1. *Crashes between two writes* of an apply, a revert, a recovery, a
   publication, an ack, or the save of a file.
2. *Reuse of identity*: pids, sequence numbers, slots of a rules table and
   mappings that outlive their owner.
3. *Gates in sequence*: four switches, three passes, one table, and a state
   that each of them reads at its own moment of a tick.
4. *Field-by-field sharing* with readers that do not lock.
5. *Threads and time*: lost signals, unsigned time differences, joins.
6. *Half-built objects*: the third of five creations fails, and what was made
   has to go, in order, once.


## 2. The modules

    RevertJournal <-- ActionExecutor <-- ActionExecutorProofs
    PlacementTick <-- PlacementTickProofs
    Supervision, AgentChannel --- MCAgentLife <-- AgentLifeProofs
    BroadcastLog <-- BroadcastRing <-- BroadcastRingProofs        (refinement)
    GameMemory, PolicyFile, TargetKinds --- MCAgentFiles <-- AgentFilesProofs
    PolicyRules, AcOracle, Topology, Corral, MetricsTable, CtxSwitches,
      ProcessSnapshot, EtwSession, AffinityCalls, TuningDaemon, ShmRegion
                                         --- MCAgentParts <-- AgentPartsProofs
    AgentLaunch, UiLink, BenchSession, BenchStats --- MCDesktop <-- DesktopProofs
    GraphRuntime (GraphShape), GpuObjects, OpticalFlow, VulkanFrames, PresentSurface,
      FramePipeline, RingChannel --- MCFramework <-- FrameworkProofs

Where modules look at the same code they look at different levels of it.
`ActionExecutor` splits `apply` and the reverts at their system calls and asks
what survives a crash; `PlacementTick` takes each as one step and asks what the
passes do with them; `Corral` and `PolicyRules` look into one pass each.

The five `MC` modules with an arrow from several modules compose components that
share no state. Their behaviours are those in which one component, named by
`focus`, moves while the others stay as they begin; the set `Focus` is all of
them in every run. Since no component reads what another writes, what such a run
says of a component it says of the component in any product with the others.

A mutant of a definition stands beside it and says so (*mutant: ...*); no
specification uses it. `PROJECT.json` names, for every property of every run, the
definition it replaces; under the replacement the same run fails.

### RevertJournal

Operators over a sequence of slots, one per function of `RJ`. A slot has the key
(pid, creation time), the captured mask and a status; the name of the
executable, the mask that was set and the time of day are left out, because no
recovery decides on them. A slot whose append stopped half-way is `torn`: every
scan stops there, as the code's does on a bad magic. `IsLatest` is the
in-memory index: `mark_*` flip the latest slot *this instance knows of*, which
is why the operators take the set of known slots.

### ActionExecutor

| In the module | In the code |
|---|---|
| `active`, `threads`, `tracked` | `active_`, `active_threads_`, `targets_` |
| `pc`, `cur`, `todo`, `ttodo`, `exiting` | where the one thread of the agent is, and what the loop it is in has left |
| `journal`, `openLen` | the file, and its length when this agent opened it (recovery indexes up to there, appends extend it) |
| `alive`, `ctime`, `mask`, `tpin` | the system: processes, creation times, affinities, a pinned hot thread |
| `dm`, `dmLen`, `dmTodo`, `dmCur` | the dead-man, the same three things |
| `origin` | history: while a placement of ours stands, the mask from before it |

`apply` is `ApplyCapture` (the early returns, the query of the old mask),
`ApplyRecord` (the write-ahead record), `ApplySet` (the `Set*`) and
`ApplyCommit` (row, ring, `mark_applied`); a revert is `RevertSet` and
`RevertMark`. The start is a recovery over the surviving slots, in any order, of
three steps each, as it is for the dead-man: the guard on pid and creation time
(`RecoverCheck`, `DmCheck`), which opens and closes a handle of its own; the
`Set*` (`RecoverSet`, `DmSet`), which opens the process again by its pid; and the
mark. `seen` is history: the newest process when the guard looked. A kill, an
exit or a new process may fall between any two steps. The environment is bounded by
the constant `Faults`, which names nine things that may go wrong; a run says
which of them it allows.

### PlacementTick

A tick is five steps of one thread: `Command`, `Observe` (refresh, prune,
anti-cheat scan, capture, classification), `UserPass`, `CorralPass`,
`PolicyPass`. Processes start, exit and are repinned by others between any two,
anti-cheat titles come and go, optimizers are found, the overrides change. `row`
and `thread` are the executor's tables; `kind`, `sample`, `acQuiet` and
`coexist` are what the tick *believes*, refreshed at the rates the constants
`RefreshEvery`, `AcEvery`, `CoexistEvery` give, and stale in between.

A process is one executable that starts once, so a label by executable and a
row by pid can both be indexed by it. The classifier is a function of evidence
that a tick may or may not have; the probe of the anti-cheat gate is one
nondeterministic outcome (allowed, blocked, refused).

### AgentChannel and Supervision (MCAgentLife)

`AgentChannel` has agent and clients as processes whose every load and store
that matters is a step: the slot is polled (`seq`, then kind, then arguments),
executed, acked; a publication makes the number odd, writes the tables, then the
header, then makes the number even; a client copies between two loads of the
number. The ring of the mapping, the executor's ring and the audit file are
counted by the actions they hold. The agent is killed between any two steps and
starts again, with a zeroed header and its counters at 0, over a mapping that is
still there if a client holds it.

`Supervision` has the loop between its ticks, any caller of `stop()`, and the
watchdog, against a clock. A time stamp is kept as its *age*, so that the clock
itself needs no bound: `Pass` makes every age older, up to `Oldest`. `Elapsed` is
the unsigned difference the code computes.

### GameMemory, PolicyFile, TargetKinds (MCAgentFiles)

`GameMemory` is `PerGameMemory`, `AcProbe`'s label and `AutoRevertGuard` with the
tick that uses them. `save` is six steps (the temporary is truncated, then
written; the old backup is deleted, the old file made the backup, the new one
renamed into place, or the backup put back), each of which a kill may cut and
the system refuse; a write may end short (`Torn`), as nobody looks at the results
of `fprintf`, `fflush` and `fclose`. `load` is its two scans, the first of
which reads the lines of a `[[bad]]` section into the entry that is still open.
`cut` is history: the failures (a kill between the renames, a refused rename, a
file cut short) since `memory.toml` was last whole. The 30 s window and the 5 s checks are counted in ticks. The
`clear-bad` of the command line is one step, at any time the agent does not save.

`PolicyFile` is `policies.toml` as a record of what the panels change, saved in
place and cut short at any section by a kill or by a full disk (a file that cannot
be opened stays as it was, and the save after it makes up for it: `behind` is
history for the last save), with the default pack; the rules block of
the mapping with its generation, the view a panel drew, and the one command in
the mailbox. A removal is by slot, and carries the generation it was clicked at.

`TargetKinds` is the panel that writes `overrides.txt`, the time stamp the agent
polls, the table it reads, and the classification with its cache: the order of
evidence (override, name, modules, foreground), negative and positive lifetimes,
a full table, a recycled pid. `overlap` is history: the file was written while
it was being read, a case the code does not notice and the properties leave out.

### PolicyRules ... ShmRegion (MCAgentParts)

| Module | Models | Detail |
|---|---|---|
| `PolicyRules` | `PolicyEngine::evaluate` | conditions, priorities, cooldowns, 16 decisions a cycle, the eviction of the heaviest |
| `AcOracle` | `AcDriverOracle` | services listed page by page while they come and go; answers of title, services, drivers |
| `Topology` | `HardwareTopology`, the detectors, `AutoPolicySelector` | one `CoreInfo` per logical processor from what a machine reports; pairs, local allocations, the pack |
| `Corral` | `RouteAdvisor`, the corral pass | a pass target by target: advice, scan for optimizers (which may start and end between two targets), table of refused pids by `pid % kAdviceLogSlots` |
| `MetricsTable` | `MetricsCollector` (Windows) | hash with tombstones, free lists, bulk capture and sweep, recycled pids |
| `CtxSwitches` | the callback of the trace, the drain | direct-mapped cache from thread to process, a ring whose slot is claimed before it is filled, a drain that is overtaken, lost events |
| `ProcessSnapshot` | `ProcessMetricsSnapshot` | one call with a buffer that is grown and retried (Windows); a walk of processes and of the threads of each, file after file, while both come and go (Linux); the index into the buffer |
| `EtwSession` | `EtwProviderSet`, `SessionManager` | tiers with hysteresis, a session that outlives its process |
| `AffinityCalls` | the calls of `phyriad::hw` | each change with what it returns, against recycled ids and other programs |
| `TuningDaemon` | `TuningDaemon` and its two tuners | settings changed one by one, the snapshot on disk, the roll-back at the next start |
| `ShmRegion` | `ShmRegion` | create, open, move, close, the seqlock; names and handles as each system keeps them |

### AgentLaunch, UiLink, BenchSession, BenchStats (MCDesktop)

`AgentLaunch`: the order of `main`, the lock, the launcher with its job object,
the console handler, the start that replays the journal. `UiLink`: a window that
starts with or without an agent there, connects, counts frames without a new
publication, gives up and searches again, over agents that hang, recover, die and are
replaced; the tray and its balloon.
`BenchSession`: five runs (three in the instance) of the window's A/B
measurement, with captures in child processes and another client on the same
mailbox. The mailbox is a section that lives as long as anybody maps it: a window
that once connected sends whether an agent is there or not, the session goes on by
the timeout of the ack, and the next agent, which clears the header and the state
but not the command slot, executes the last command again. `BenchStats`: percentiles, comparison and verdict on small tables. A sort
is modelled by what it returns, a permutation in order of length, and the frames
that are kept by theirs, an increasing enumeration of the frames that count.

### BroadcastLog and BroadcastRing

`BroadcastLog` is what the ring promises: a log of messages, a position per
reader. `BroadcastRing` is the ring of `FW/transport`, every load and store of
a shared word a step: the producer's cached minimum, the bits of live readers,
their cursors, batches. It implements the log; the mapping is in `Log`.

### GraphRuntime ... RingChannel (MCFramework)

`GraphRuntime` (over `GraphShape`: the validator, the two orders and the greedy plan
of the scheduler) has an owner, a worker per
node, a thread that stops and one that pauses and restarts nodes.
`GpuObjects` is the life of every handle of thirteen classes: a call is a
program of operations carried out one at a time, each creation of which may be
refused. `OpticalFlow` is what a record puts into a command buffer: layouts,
barriers, bindings and the frames each dispatch reads. `VulkanFrames` is the
frame loop (fences, semaphores, acquire, present, and recreation, which may fail
and leave no framebuffers), `PresentSurface`
the plane over another window with its watchdog, `FramePipeline` the pool, the
interpolator and the presenter under one thread that owns the graph (`ctl`): it
starts the interpolator, whose `on_start` comes up, falls back to PassThrough or
fails and leaves the algorithm as it is; restarts it wherever its worker is in a
tick; and stops it after a join. `on_stop` waits a second at most and then
destroys; of a blend that is destroyed under the queue the output may have been
written or not. `RingChannel` the ring of several producers.

## 3. The runs

Twelve runs: eleven pass, one shows a disagreement. State counts are of distinct
states.

| Run | Module | Question | Instance | States |
|---|---|---|---|---|
| `executor_crash` | `ActionExecutor` | Killed anywhere, is every placement recoverable to its true mask? | 1 pid used by 2 incarnations, 3 masks, 3 journal slots; kills, refused applies, foreign changes | 691 k |
| `executor_shutdown` | `ActionExecutor` | Does a graceful exit leave nothing pinned? | 2 pids, 2 rules, process and thread placements | 302 k |
| `executor_faults` | `ActionExecutor` | With every fault at once, what still holds? | 1 pid, 2 rules, 2 slots, all nine faults | 945 k |
| `tick_gates` | `PlacementTick` | Do the gates close what they say, in every order? | 1 process that is a game or background, all commands, anti-cheat, optimizer, overrides | 981 k |
| `tick_progress` | `PlacementTick` | Is a game placed, a stream evicted, a quiet mode effective, in the end? | 1 game, 1 stream, foreign repins | 111 k |
| `agent_life` | `MCAgentLife` | Is a stop slept through, a hang missed? Is an acked command done, a clean copy whole, a log complete? | threshold 4, poll 2, ticks up to 10; 1 client, 2 agents, 2 kinds, ring of 1, 2 actions a tick | 538 k |
| `ring` | `BroadcastRing` | Is the ring the log it promises? | 2 readers, 2 bits, capacity 2, batches of 2, 3 messages | 676 k |
| `agent_files` | `MCAgentFiles` | Does what was set survive and hold, and what was learned stay? | 3 executables, 1 pid, tables of 2, 2 starts, 2 lives; 2 rules, 4 commands, 2 agents; 1 program, 2 starts | 2.66 M |
| `agent_parts` | `MCAgentParts` | Are decisions, measurements and changes of others' settings right? | see `MCAgentParts` | 1.23 M |
| `desktop` | `MCDesktop` | Is the user told the truth, is what a window changed changed back? | 2 agents, 2 windows; 3 runs of a session, 2 sessions, an agent that ends and comes back | 462 k |
| `framework` | `MCFramework` | Is nothing used when gone, is what is drawn what was asked? | graphs of up to 3 nodes, 13 classes of objects, 2 frames in flight, a pool of 3 and 2 starts of the interpolator, see `MCFramework` | 391 k |
| `v_false_stall` | `Supervision` | Is a stall the watchdog reports a stall? (It is not.) | as `agent_life`, ticks of 1 | |

### What they show, and why the bounds are enough

**`executor_crash`.** `WriteAhead`, `CapturedPrevIsTrue`, `PinsAccountedFor`,
`RevertedAfterSuccess`, `DeadManRestoresAll`. The properties relate one process
to the slots of its key, so one pid suffices; it has to be used twice (a
recycled pid), and three slots give a slot that was reverted, one that was
refused and one that stands. Three masks tell apart the mask before our first
write, ours, and one set by somebody else. Section 4 removes these bounds.

**`executor_shutdown`.** `CleanStop` is about the loop over the rows: two rows
of two rules and a thread placement are what a loop that compacts the table as
it walks can get wrong. Kills are in the other runs; a refused `Set*` and
foreign changes are in this one. It allows no refused revert (section 5) and no
failed enumeration, with which pins are lost.

**`executor_faults`.** What needs no well-behaved machine: `TableSound`, and
`RecoveryHitsItsOwnProcess`, the recycle guard of both recoveries: what they set
is a captured mask, on the process whose slot has it or on one that took its pid
after the guard had looked. That nobody does is `RecycledIsNeverClobbered`, which
the code does not keep (section 5). Torn appends,
an overlapping dead-man, processes that vanish between capture and `Set*` and
enumerations that come back empty are all on.

**`tick_gates`.** Five invariants and one action property on the passes. The
hazards are orders of commands, scans and passes around one process, so one
process that starts suffices, in either of two roles: an eligible game or a
background process. The counters of the code (5, 3, 8) are 2, which keeps
ticks that refresh and ticks that do not, both parities of a scan against the
events, and a bounded phase. `repin` is off here, as `NoOrphan` is about our
own placements; the next run has it on.

**`tick_progress`.** Liveness of two processes, under a thread that keeps
ticking: an anti-cheat title that starts is answered by the quiet mode; a known
game is placed or ruled out; a stream yields. Each says "or the reason to do it
is gone": the user may always intervene.

**`agent_life`.** Three sides, one at a time. *loop*: the units are a few
seconds: a threshold of 10 s is 4, the poll 2, and a wait 1 or 2, less than the
threshold as it is while the desktop is in use. A tick may take up to 10, far
beyond the threshold: the agent hangs. The watchdog may be held up by `Slack`
between two of its steps. Ages stop at `Oldest`, above every sum the properties
compare (`SupervisionAssumption`). *commands*: a client that does not wait for
its acks sends while an agent that is killed at any step, and started again over
a mapping that survives or does not, polls. *snapshots*: the same agent
publishes, logs and reverts while the client copies; the ring holds one action
and a tick logs up to two, so a tick laps a reader.

**`ring`.** Two readers are the fewest that can hold the minimum in turn; a
capacity of two and batches of two let a batch fill the ring and a message
overwrite the one before the last; readers join and leave over a reused bit.

**`agent_files`.** Two conjunctions of what each part promises.
`FilesKeepWhatWasSet`: `DiskKeepsACopy` (a whole copy of `memory.toml` at every
step of a save, until two failures come before it is whole again),
`DiskFollowsMemory` (between two commands `policies.toml` has the choices the agent
works with, unless the last save failed), `TableFollowsFile` and `OverrideWins` (the
agent has the overrides the panel wrote, and no verdict from before them).
`KnownStaysKnown`: `ProbedOncePerRun`, `RegressedStaysOff`, a kind found while in
front is not lost in the background, and `RemovesWhatWasMeant`. A full table ends
the two promises on what is remembered: with two entries there is one executable
on the list, and a placement or a probe that it forbids, before the table is full;
three executables (one the oracle refuses) contend for the two. Two lives of the
agent are a save that fails and a run, with a save of its own, that has to live
with what it left. Four commands are a set, a change of the table behind the
panel's back and a removal by slot, each sent while the last is being saved. Two
grains of the clock put an edit within the grain of the last and after it.

**`agent_parts`.** Each part has an instance in `MCAgentParts` in which its
tables collide: pids 1 and 3 share a slot of a table of two, pids 1 and 5 a
chain of a hash of four; a collector for two processes sees three; a buffer has
to be grown; a session is left behind by a crash; at most one event of the trace is
lost (section 4). `OthersAreRespected`, on what
belongs to other programs or is shared with them: `GateIsRight`,
`RefusedIsLeftAlone`, `RefusedIsGivenTime`, `OptimizerIsNotFought`,
`NoStraySession`, `TierFollowsTheWish`, `RegionIsSound`.
`ReadingsAndDecisionsAreRight`: `TableSound` and `MeasuresEverything` of the
collector, `AttributionIsRight`, `SnapshotIsSound`, `DecisionsAreSound`,
`AnswersAreBest`, `GamesStayApart`. `ChangesCanBeUndone`: `CallsCanBeUndone` and
`EverythingCanBeGivenBack`; the set-back with which a getter ends may be refused,
and the thread is then left wide and nothing else. The machines of `Topology` have up to six logical
processors, with and without SMT, with one cache or two of either size, on both
systems; each question is compared with a definition by search over all answers.

**`desktop`.** `UserIsToldTheTruth`: `LabelsAreTrue`, `DeadIsShown`,
`PercentilesHaveTheirRank`, `ReversedIsRegression`. `OwnChangesAreUndone`:
`PoliciesComeBack`, `NoneOutlivesItsWindow`, `ReplaySparesTheLiving`.
`EverythingSettles`: `SessionEnds`, `StopEndsTheAgent`, `LiveIsFound`. Two agents
and two windows are what a race for the lock takes; three runs of a session are
a paused one on either side of a measured one; a second client and one restart
of the agent are what can meddle with a session. `LabelsAreTrue` says of a capture
whose session nobody else meddled with that an agent which has come to the last
command follows the label, whether it did in time, late, or as the one that came in
place of another; and that an acknowledged command has been executed, unless the
agent is not the one it was sent to. That every run is as labelled does not hold
(section 5). `PoliciesComeBack` asks for a resume on its way to the agent there is,
or to the next one.

**`framework`.** `UsersFindWhatTheyUse`, on threads and frames that share:
`TicksTouchLiveNodes`, `UpstreamOutlives`, `FramebuffersOutlive`,
`RecordsAnIdleFrame`, `WindowOutlivesItsUsers`, `StalledPlaneIsGone`,
`YieldedIsHidden`, `DrawsWhatWasAsked`, `ReadersMissNothing`.
`WhatIsBuiltIsWhole`, on what is built or computed before it is used:
`NothingIsLeft`, `ParentsOutlive`, `NothingInUseIsDestroyed`, `UpIsWhole`,
`VerdictIsRight`, `ComputeSpreads`, `RecordsAreSound`.
`FramesComeInOrder`: `OneJobAtATime`, `NeverBack`. `EverythingGoesOn`:
`StopTakesEffect`, `FramesGoOn`. The graphs are every one of two nodes and two
wires and those of three that have a cycle, a diamond or a node apart; every
creation of every class of objects fails in turn; three sizes of a window are a
minimised one and two between which it is rebuilt, and one acquire or recreation
is refused. The pipeline has a pool of three slots, one for each frame of a pair
and one for their blend, transports of two, three frames and two starts of the
interpolator: blends of two pairs are shown, the pool runs out under a blend, a
transport overflows, and a restart cuts into a tick with a job in the queue and a
job that comes behind its wait.

**Deadlock** is checked in the executor and tick runs. It is off where the
system really may stop: `agent_life` and `agent_files` (starts and commands are
bounded, and `run()` returns), `ring` (all is sent and read), `agent_parts`,
`desktop` (sessions and windows end) and `framework` (a graph is destroyed).

**Every property has a mutant**: a plausible slip in one definition, kept in the
module beside it and listed in `PROJECT.json`, under which the same run fails.

### Fairness

| Run | Assumed | Justified by |
|---|---|---|
| `tick_progress` | `WF(Tick)` | One thread, whose loop ends only with `stop()`, and whose wait has a timeout |
| `agent_life` | `WF` of the loop, of a caller inside `stop()`, of the watchdog, of time; of the agent's tick | Each is a running thread that blocks only where the model blocks; every blocking call inside a tick returns (`MaxWork`). Nothing of the clients, and no restart, is assumed |
| `ring` | `WF` of the producer and of each reader | Threads that poll; nobody has to join or leave |
| `desktop` | `WF` of each agent's steps, of the frames of the window, of publications, of a capture's end, of the clock | A window draws; a capture has a duration on its command line and is waited for |
| `framework` | `WF` of the run of a graph, of a restart that has begun, of each worker, of the window's thread and of the completion of a frame | Threads; a GPU that finishes what it was given |

None is strong fairness. Environments (processes, users, kills) have none.


## 4. The proofs

TLAPS checks the theorems below, for every value of the constants that meets the
named assumptions of the modules.

| Module | Theorem | Says |
|---|---|---|
| `ActionExecutorProofs` | `TypeCorrect` | `Spec => []TypeOK` |
| | `TableStaysSound` | `Spec => []TableSound`, under any faults |
| | `RecoveryIsAimed` | `Spec => RecoveryHitsItsOwnProcess`, under any faults |
| | `JournalInvariant` | `WellBehaved => (Spec => []JournalInv)` |
| | `WriteAheadHolds`, `CapturedPrevHolds` | the same for `WriteAhead`, `CapturedPrevIsTrue` |
| | `PinsStayAccountedFor`, `StopsClean` | `Accountable =>` the same for `PinsAccountedFor`, `CleanStop` |
| | `MarksFollowSuccess`, `DeadManFinishes` | `WellBehaved => (Spec => RevertedAfterSuccess)`, `DeadManRestoresAll` |
| `PlacementTickProofs` | `TypeCorrect` | `Spec => []TypeOK` |
| | `CorralProfile`, `UserPinsAreRuled`, `PauseIsQuiet`, `NoPinIsOrphaned`, `GamesPassTheGate` | every safety property of `tick_gates` |
| `AgentLifeProofs` | `LoopTypeCorrect`, `NoWakeupIsLost`, `StallsAreNoticed` | the loop's types, `NoLostWakeup`, `StallNoticed` |
| | `TypeCorrect`, `CleanCopies`, `LogsTellEverything` | the channel's types, `CleanIsOnePublication`, `LogsAreComplete` |
| | `AckMeansDone` | `AckedWasExecuted`, when one client sends |
| | `SidesKeepTypes`, `LifeIsSafe` | the same, but for the acks, of loop and channel as parts of one behaviour |
| `BroadcastRingProofs` | `RingInvariant`, `WholeCopies` | `Spec => []RingInv`, `[]CopyIsWhole` |
| | `RingIsALog` | `Spec => ImplementsLog`: the ring refines `BroadcastLog` |
| `AgentFilesProofs` | `AgentFilesInvariant` | `Spec => []AgentFilesInv` |
| | `FilesAreKept`, `KnowledgeIsKept` | `Spec => []FilesKeepWhatWasSet`, `Spec => KnownStaysKnown` |
| `DesktopProofs` | `DesktopInvariant` | `Spec => []DesktopInv` |
| | `ChangesAreUndone` | `Spec => OwnChangesAreUndone` |
| | `UserIsNotMisled` | `Spec => []UserIsToldTheTruth` |
| `AgentPartsProofs` | `ChangesAreUndoable` | `Spec => []ChangesCanBeUndone` |
| | `GateIsForNow` | `Spec => []GateIsRight` |
| | `OptimizersAreLeftAlone` | `Spec => OptimizerIsNotFought` |
| | `RefusedAreLeftAlone` | `Spec => []RefusedIsLeftAlone /\ RefusedIsGivenTime` |
| | `TracingIsOwned` | `Spec => []NoStraySession /\ TierFollowsTheWish` |
| | `RegionsAreSound` | `Spec => []RegionIsSound` |
| | `OthersStayRespected` | `Spec => OthersAreRespected`, the five above together |
| | `SwitchesAreAttributed` | `MaxLost \in {0, 1} => (Spec => []AttributionIsRight)` |
| `FrameworkProofs` | `FramesAreInOrder` | `Spec => FramesComeInOrder` |
| | `NodesAreAlive` | `Spec => [](TicksTouchLiveNodes /\ UpstreamOutlives)`, over `GraphAssumption` |
| | `WindowsOutliveTheirUsers` | `Spec => []` of `WindowOutlivesItsUsers`, `FramebuffersOutlive`, `RecordsAnIdleFrame` |
| | `PlaneIsHiddenInTime` | `Spec => [](StalledPlaneIsGone /\ YieldedIsHidden)` |
| | `PairsAreDrawn`, `MessagesAreNotMissed` | `Spec => []DrawsWhatWasAsked`, `Spec => []ReadersMissNothing` |
| | `UsersAreServed` | `Spec => []UsersFindWhatTheyUse`, the four rows above together |

### The write-ahead argument

`WriteAhead` says that a placement that stands has an unresolved slot under its
own key. It is not inductive: to keep it through a revert one has to know that
the revert undid the placement; through an `apply`, that the slot was written
for this very process; through a refresh, that a process that is pinned is not
admitted as new, or a second `apply` would capture our mask as the one to
restore. `JournalInv` adds this, as seven conjuncts:

- `NoTornSlot`: a scan reaches every slot.
- `PinsShow`: a pin shows in the affinity, so the observer does not admit a
  pinned process that it does not track already.
- `PinsDescribed`: the *latest* slot of a pinned process's key describes the
  pin, unresolved, with the true mask. `mark_*` flip the latest slot, so what
  they flip is this one.
- `ApplyWindow`: between capture and `Set*` the process is not pinned and has
  the captured mask; after the record, that record is the last slot.
- `TrackedPinsHaveRows`: a tracked process that is pinned has a row, so `apply`
  returns early for it.
- `RowsRestorable`: no row has a zero mask, so no revert is refused for it.
- `RecoveriesSound`: the slots a recovery or the dead-man holds in hand restore
  the true mask, and what it is about to mark no longer stands.

The assumption `WellBehaved` excludes four faults, and each has to be: with any
one of them (the first together with a recycled pid or a foreign change) and
kills, TLC finds an execution in which one of the two properties fails.

| Fault | What breaks |
|---|---|
| `race` | A process that is changed, or exits and leaves its pid to another, between capture and `Set*`: the slot describes another state, or another process |
| `torn` | Everything behind a torn slot is invisible to every later scan |
| `revert_fails` | The slot is resolved while the pin stands |
| `overlap` | The dead-man resolves a record whose `Set*` is still to come |

Kills of the agent and of the dead-man at any step, refused applies, recycled
pids, foreign affinity changes and failed enumerations are all allowed.

Three more invariants rest on `JournalInv`. `AccountInv`: a standing pin is in
the agent's table, in the apply or the recovery in flight, or to be recovered;
its hypothesis `Accountable` also excludes `enum_fails`, after which the agent
forgets live rows. `DeadManInv`: each pin that stands while the dead-man runs is
on its list. `ThreadInv`: so are the threads of the agent, unless one was killed.

### What holds under every fault

`TableInv` and `RecoveryInv` need no assumption. An apply in flight has checked
that its pid has no row and that there is room, and nothing else enters a row
until it commits; what a recovery or the dead-man has left to reconcile is in
the journal under its key, since appends leave the other slots alone and a
change of status is no change of key or mask. Between guard and `Set*` a slot is
`Guarded`: the process behind its pid is the one it names, or was created since
the guard looked, because creation times only grow.

### The gates of the tick

Each is inductive with the type invariant once three lemmas are there: a row of
a rule comes only out of the pass of that rule, while that pass is open
(`RowsComeFromOpenPasses`); the quiet mode takes back what it closes
(`QuietTakesBack`); so does a change of profile (`ProfileTakesBack`).
`NoOrphan` needs `PinsKnown`: where nobody else changes affinities, a process
without a row has the mask it started with, and a row captured that mask.

### The loop and the watchdog

`EventKept` strengthens `NoLostWakeup`: whenever a stop is requested and nobody
is between flag and signal, the event is there or the loop is past its wait and
will look at the flag. It holds for any number of requests, from any thread,
because the flag precedes the signal and only the end of a wait resets the event.
`Noticing` bounds, for each step of the watchdog, the age of the heartbeat it
last read by where it is in its poll; `StallNoticed` follows by adding the
threshold, the poll and three slacks.

### The ring

`RingInv`: the producer's cached minimum is never above the position of a reader
that has joined; a scan in progress has seen a position that is not above that
reader's, or has it still to look at (`Window`); what is being written is at
most the cached minimum plus the capacity (`ProducerInv`). With it every step of the ring is a step of
`BroadcastLog` or a stutter (`StepIsLogStep`): a publication is a send, the load
of the start is a join, an advance is a take, and the clearing of a bit a leave.

### The channel

`SeqlockInv`: the number is odd from the begin to the end of a write, a write
that a kill cut short included, and while it is even the rows are those of the
header (`WriterInv`); a reader whose number is still there has copied what is
there now (`ReaderInv`). A restarted agent counts anew, so a number may come
again: the promise is made to a copy that begins and ends with one agent.
`LogInv`: ring and audit file are each in order and below the cursor of the
agent that writes them, and an audit file in use has the last `Cap` actions
before its cursor. `AckInv`: the only client finds its own command in the slot
until it is acked, and what the agent has read of it so far is of that command,
or of a number before (`UnansweredInv`). With two clients this is false (section
5), so `AckMeansDone` has the hypothesis `Client = {u}`.

### The files

`AgentFilesInv` is the conjunction of an invariant per part; a step moves one
part and the others keep theirs, since they share no variable (`EachPartSteps`).

- **`MemoryInv`**: types, with *one entry for an executable* in every table. This
  is what makes a label that was stamped the label that is found, and it has to
  be kept through `load`, whose scan may give the last entry another executable
  (`ReadIsATable`). `DiskInv`: while no failure is counted the file is whole, and
  from the rename that makes it the backup until the next one, that; after one
  failure the backup is outside a save, and within one whichever of the two the
  exchange has come to, or the finished temporary. `ProbedInv` and `HurtInv`:
  what this run probed has a label, what its guard reverted is on the blacklist,
  as long as the table has room; so no second probe and no second placement.
- **`PolicyInv`**: between two commands the file has the agent's choices
  (`DiskChoices`); whoever read the rules at the present generation read the
  agent's names, slot by slot, whenever no set or removal is half done
  (`ReadInv`): the generation moves with each of them, and that is what the
  check of a removal relies on (`RemovalInv`).
- **`KindsInv`**: the table is the file's once the agent read it after the last
  edit (`TableInv`); outside a reload, the verdict on an executable with an
  override is that override (`Overridden`): every reload drops the verdicts, and
  a classification looks at the table first; an entry is of the process that
  runs unless its pid was recycled since the last clear (`SameProcess`).

The attempt to prove `DiskKeepsACopy` as it was first stated, a copy *at every
step*, failed at the truncation of the temporary: a kill between the two renames
leaves no `memory.toml`, `load()` does not look at the backup, and when the next
run is cut at the same place the temporary is the only copy, which the save
after that truncates. TLC confirms it with three lives. The property now says
what the code keeps: a copy, while fewer than two failures came since the file was
last whole. A temporary that a full disk cut short and a refused rename, which the
code does not tell from a good one, count as such.

### The desktop

`DesktopInv` has an invariant per part.

- **`LaunchInv`**. `LockInv`: an agent has the lock if and only if it is past
  `acquire()`, and has it alone; together with `PinsInv` (what has placements has
  come to run) a constructor that replays the journal is alone with the
  placements of the dead, which is all that `ReplaySparesTheLiving` asks.
  `ChildInv`: a child was made by one window. `JobInv`: on Windows it is
  suspended until it is in that window's job, so a window that goes takes it
  along, or leaves it suspended for good.
- **`LinkInv`**. Without an agent the name of the mapping lives by the window's
  handle alone, so a window that was not connected stays so; in one that was,
  and as well over an agent that hangs, nothing moves from the second frame on,
  and the counter of frames keeps up with the time that has passed.
- **`BenchInv`**. An agent that has come to the last command follows it
  (`FollowsInv`), a new one too, since it executes what the slot has before anything
  else. The window of a session has the section mapped, so a command is never lost
  from it; while nobody else sends, the last command is that of the run under way,
  the number waited for is its own, and an agent that is still the one it was sent
  to has executed what is acked (`SessionInv`).
- **`StatsInv`** says that what is printed is the answer to the inputs;
  `DiffReversed` and `MultiReversed` are about the comparison itself, for any two
  runs and any statistics.

`PercentilesHaveTheirRank` is about a sort, and that a sort exists is commonly
shown by induction, which the provers cannot use. `Order` does without: the place
of an element among finitely many is the number of those before it, no two share
a place, and an injection of a finite set into as many places fills them. So the
permutation that `Ranked` chooses exists (`RankedIs`), as does the enumeration
that `Kept` chooses (`KeptIs`), and the frame at place k + 1 has at most k shorter
ones, and at least k + 1 no longer than itself (`SortedHasRank`).

### Changes of others' settings

`CallInv`, of `AffinityCalls`: a call knows at each of its steps how to undo what
it has changed so far. As long as the object the call began with has its name and
nobody else has written (`Standing`), the value is still the one from before until
the call writes, and from then on the call holds that one: in `prev` on its way
to the return, where the caller gets it, or, where the system reads by writing,
until it is written back (`Undoing`) - or the writing back is refused, which the
code ignores and `left` remembers: then it is every core, which a reader was set
to. A handle keeps a name from being given to
another object (`HandleHolds`), which is why only calls by id are exposed to
recycled ids.

`TuningInv`, of `TuningDaemon`. `SettingTypes`: a record holds the owner's value
or one that somebody else set, never one of ours: a setting that is tuned is not
recorded again. `Sessions`: where the daemon is says which of the two snapshots
there is, the one in memory or the one on disk, and that they are equal while it
runs; after the roll-back of an orphan nothing is tuned but the power scheme, and
that only while the `powercfg` process that restores it is on its way. With the
first record of a setting having the last word in a roll-back (`Rolled`, from the
least of its places), whatever is tuned is on a record at every step.

### The trace session

`EtwInv`: where the agent's thread is says which tier is committed (`TierInv`); a
wish that is not the tier is being counted, from its first tick on, with the
manager's own count (`WishInv`), so a commit comes with `Settle` ticks of the same
wish and no earlier; and from the return of `StartTrace` to that of `StopTrace`
the session of that name, if there is one, is the one whose handle the agent has
(`SessionInv`). The start stops whoever has the name, which is what disposes of a
session left by a crash.

### The gate, the corral, the switches and the region

- **`OracleInv`**. What the listing has in hand lies between what ran throughout
  (`always`) and what ran at some time since it began (`ever`); while nothing
  starts or stops, the second call gets all of it; drivers always come whole
  (`ListInv`). An answer is given only when the listing is done or was refused
  (`AnswerInv`). So it is the answer of something that ran while the question was
  open, or the one for a refusal.
- **`ScanInv`**. The remembered scan is as old as the counter of ticks says, the
  first is made before there is a quiet mode, and no placement is pending once an
  optimizer has run for as many ticks as the scans are apart. **`TableInv`**: the
  entry of a process that was not evicted counts all its refusals, is `Never` after
  `FailMax` of them, and otherwise what is left of its time and the time since the
  last refusal make up the back-off (`Counted`).
- **`SwitchInv`**. `CacheInv`: an entry for a thread names its process, or none, or
  the thread has ended and an event was lost. An event keeps what the entry said
  when it was claimed. With two events lost, an end and the start that would have
  replaced it, the next switch is charged to the process of the thread that had the
  id before: TLC shows it, and so the theorem has `MaxLost \in {0, 1}`.
- **`RegionInv`**. As long as no two producers clashed on a region, it has one owner
  (`OneOwner`), its number is odd from the begin to the end of a write and what lies
  under an even one is one write (`WrittenWhole`), and a reader whose number still
  stands has copied what is there (`CopiesWhole`).

### The framework

- **`GraphInv`**. Where the owner is says what each node is (`LifeInv`): the nodes
  before its place in the order are started, those behind the place of a shutdown
  stopped, those below the place of the destructor gone; while the graph runs all
  are on but the one a restart holds. A worker that is past its look at the stop
  flag is in a graph that runs or is being joined (`WorkersInv`), and a restart is
  in one that is in use (`ManagerInv`). With the order one of the wires, what
  feeds a node has a lower place, and is started before it and stopped after it.
  That `TickOrder` and the order of the pump are such orders is what
  `GraphAssumption` says: the functions are recursive, so TLC evaluates it for
  every graph of the run and the proof takes it as given.
- **`OrderInv`**: the queue works only on what the node waits for before the next
  record; after the join of a shutdown nothing is given to it any more, so that what
  is destroyed then is idle unless the wait of a second ran out (`JobInv`). After a
  restart nothing of the kind holds, and `OneJobAtATime` does not say it. Nothing
  that is on its way to the display
  or shown comes after what lies ahead of it in the pool, the two transports and
  the node's pair of frames (`LineInv`), so a blend of two frames lies between them.
- **`PlaneInv`**: the window and its watchdog are there as long as frames may be
  submitted (`WindowInv`); a consumer that yielded
  and is through with its poll shows nothing (`YieldInv`); how long a consumer has been still is at most
  what the watchdog has counted and one round of its poll (`StallInv`).
- **`FramesInv`**: a framebuffer that is in use has its fence pending and is of the
  present swapchain, since a recreation waits for the device; the frame that is
  acquired has had its fence waited for, and it is unsignaled.
- **`FlowInv`**. As long as no pair is baked into the recorded sets, every warp drew
  what it was asked for; and once there is a previous frame, the set of the last
  slot holds the pair that its last record was for.
- **`ChannelInv`**: a producer's claim is below the cursor and nobody else's
  (`ClaimsInv`, `CursorsInv`); a tracked reader holds the producers back to one lap
  of its cursor (`FitsInv`, `KeptInv`), so the slot it waits for still has, or will
  have, its message, and what it took is every message from where it began
  (`SeenInv`, `TakenInv`).

### Only model-checked

- Liveness: `AcQuietClears`, `KnownGameIsPlaced`, `StreamYieldsToGame`,
  `StopIsServed`, `CommandAnswered`, `AllSent`, `EverythingSettles`,
  `EverythingGoesOn`. TLAPS does not reason about fairness.
- `ReadingsAndDecisionsAreRight`, but for `AttributionIsRight`: the collector's hash
  is probed and cleaned by recursive functions, a snapshot is laid out in a buffer
  by a sort and a fold, the engine goes over its rules in a fold, and `Topology` is
  a function of the machine, compared with a search over all answers.
- `WhatIsBuiltIsWhole`: the programs of `GpuObjects` are thirteen lists of operations,
  whose interleaving with failures TLC goes through whole; the verdict and the plan
  of `GraphShape` are recursive; `RecordsAreSound` is a fold over the commands of a
  record.
- Of `TargetKinds`, the bounds of the module and foreground tables.
- What a fold or a recursive function computes for every input, which takes
  induction: `Topology`, `GraphShape` and the sums of `BenchStats` are compared with
  reference definitions over the inputs of their runs, and `GraphAssumption` is
  evaluated there. Where the code's loop has a result that can be said without one (a sort,
  a filter, the least place), the model says that, and the proofs use it.


## 5. Where code and documents disagree

One run fails, on a property that quotes the repository:

| Run | Statement | What the code does |
|---|---|---|
| `v_false_stall` | The watchdog acts when no heartbeat came for 10 s (`InternalWatchdog.hpp:4-5`) | It reads the clock before the heartbeat; one in between makes the unsigned difference wrap, and stops a loop that is on time |

Others are stated as properties of their module, which no run checks because the
code does not meet them. Each was met while modelling and confirmed with TLC on a
small instance.

| Property | Module | Statement of the repository | What the code does |
|---|---|---|---|
| `RevertedAfterSuccess` with `revert_fails` | `ActionExecutor` | A slot is flipped to REVERTED after a successful revert (`RevertJournal.hpp:19`) | The result of the `Set*` is not looked at (`AE:380`) |
| `RecycledIsNeverClobbered` | `ActionExecutor` | A recycled pid fails the guard and is never clobbered (`ActionExecutor.cpp:49`) | The guard closes its handle and the `Set*` opens the pid anew: a process that takes the pid in between gets the mask (`AE:53-59`, `RV:70-79`) |
| `PauseSuspendsAll` | `PlacementTick` | A pause reverts everything and suspends new applies (`PhynnedProtocol.hpp:163`) | The corral pass has no pause gate, and places again on the next tick (`AR:1828`) |
| `ExecutedOnce` | `AgentChannel` | A command whose number has been seen is a no-op (`PhynnedProtocol.hpp:155`) | What has been seen is in the agent's memory: a restarted agent executes the last command again (`AR:646`) |
| `RegressionIsReverted` | `GameMemory` | A regression while monitored is reverted (`AutoRevertGuard.hpp:5-8`) | Every tick that decides the same placement sets window and baseline again (`AutoRevertGuard.cpp:43`, `AR:2168`) |
| `ProbedOnceEver` | `GameMemory` | One probe per identity, ever (`AcProbe.hpp:11`) | Labels are saved on a clean end only, and one entry may be read under another name (`PerGameMemory.cpp:344`) |
| `AckMeansExecuted` | `BenchSession` | An ack means the command was executed (`PhynnedClient.hpp:175`) | Another client's number overwrites it: a higher ack is taken for one's own (`:192`) |
| `RunsAreAsLabelled` | `BenchSession` | The policies are paused in runs 1, 3 and 5 and the agent is active in runs 2 and 4 (`bench_panel.hpp`) | A run starts when the wait for the ack times out, too (`BenchRunner.hpp:345-352`), over an agent that is slow, that another client commands, or that is gone: sends succeed while the window has the mapping (`PhynnedClient.hpp:169-171`) |
| `HitchesVeto` | `BenchStats` | The strongest deterioration of any metric is a veto (`phynned-cli/main.cpp:557-559`) | A marginal improvement is announced without a look at the hitches (`:563`) |
| `ReapplyRestores` | `TuningDaemon` | `reapply_snapshot()` restores our settings (`TuningDaemon.hpp:75-76`) | The priority boost is recorded as enabled or not and written back as the argument that disables it: the owner's value returns (`WindowsTuner.cpp:266-269`) |
| `NonHybridIsPerformance` | `Topology` | A processor that is not hybrid has performance cores only (`HybridCoreDetector.hpp:32`) | On Windows the efficiency class 0 that all its cores have reads as Efficiency, and then the correction for processors without efficiency cores is not made (`.cpp:228-244`) |
| `RedIsARegression` | `UiLink` | The tray is red when a regression was detected (`PhynnedTrayIcon.hpp:9`) | It is red when the watchdog byte is 0, as it is in a cleared mapping before the first publication of an agent (`PhynnedLogicNode.hpp:326`) |
| `TrayGoesGray` | `UiLink` | The tray is gray without an agent (`PhynnedTrayIcon.hpp:10`) | It is set while connected only (`PhynnedLogicNode.hpp:154`) |
| `ClosedMeansReverted` | `AgentLaunch` | Closing the window takes placements back (`docs/ARCHITECTURE.md:16`) | The job object kills the agent before it reverts; the next start does (`AgentLauncher.hpp:205`) |
| `OnlyMigrationsCount` | `CtxSwitches` | Migrations per second (`TargetMetrics.hpp:31`) | Every context switch counts (`MetricsCollector_win32.cpp:690`) |
| `StopWaits` | `EtwSession` | `stop()` waits for the consumer (`SessionManager.hpp:107`) | It gives up after a time (`SessionManager.cpp:231`) |
| `GetOnlyReads` | `AffinityCalls` | A getter reads (`HardwareTopology.hpp:283`) | On Windows the affinity of a thread is read by setting it wide and setting it back; the result of the second set is ignored, so that a refused one leaves the thread wide (`.cpp:1453-1459`) |
| `KillsAreRolledBack` | `TuningDaemon` | A snapshot left on disk is that of a crash, and rolled back (`TuningDaemon.hpp:16`) | It is first saved when all settings are changed: a kill before that leaves them changed, with no file (`:98-106`) |
| `EveryRunningIsListed` | `AcOracle` | The list has every service that runs (`AcDriverOracle.hpp`) | The page that a call returns with `ERROR_MORE_DATA` is dropped: the next call goes on behind it (`AcDriverOracle.cpp:241-244`) |
| `BlendsItsFrames`, `WaitEnds` | `FramePipeline` | A blend is of its two frames (`FrameInterpolatorNode.hpp:9`); a slot is released when the GPU is done (`PresentNode.hpp:11`) | A slot may be reused under the blend; the fence waited for is one nobody submits (`PresentNode.cpp:75-83`) |
| `BakedSlotsAreKept` | `OpticalFlow` | Prebaked slots are never clobbered by a record without one (`OpticalFlowPipeline.cpp:850-853`) | Such a record takes the next slot in turn, which comes to be a baked one |
| `NeverWaitsForNothing` | `VulkanFrames` | The loop goes on after an acquire that found the swapchain out of date (`Swapchain.hpp:58`) | The fence is reset before the acquire and nothing is submitted then: the next wait for it has no end (`Swapchain.cpp:468-471`) |
| `DrainedBeforeDestroyed` | `FramePipeline` | `on_stop` drains the work in flight before it destroys its resources (`FrameInterpolatorNode.cpp:410`) | It waits a second at most and ignores the result (`:412`); in a restart the worker may be in the middle of a tick and submit behind the wait (`GraphRuntime.cpp:514-518`) |
| `DrawsIntoFramebuffers` | `VulkanFrames` | An expired swapchain is recreated with the present size (`VulkanBackend.cpp:216`) | The result of `recreate` is ignored: one that fails has destroyed the framebuffers, and the frames after it draw into none (`Swapchain.cpp:123-135`) |
| `NoTickInRestart` | `GraphRuntime` | A restart happens between ticks (`GraphRuntime.hpp:114`) | It does not wait for a tick in progress (`.cpp:514`) |
| `EachReaderSeesAll` | `RingChannel` | Each reader sees every message (`RingChannel.hpp:187`) | A reader that joins between claim and publication may be overrun (`:148-166`); the channel has no user |

The following were met as well. The models follow the code; where a property
would be affected it is stated so as to hold of the code, and says so.

*Executor, journal, dead-man*
- A live revert does not compare creation times; only recoveries do
  (`AE:380`, against `RevertJournal.hpp:34-36`).
- An enumeration that fails expires every target and drops the rows of live,
  pinned processes until the next start (`AR:1451`).
- A refused `Set*` leaves its PENDING record, which a later start restores, over
  what the owner has set since (`AE:204`, which calls it a harmless no-op).
- A torn append misaligns everything behind it, and every later scan stops there
  (`RJ:215`).
- A dead-man run between record and `Set*` of a living agent resolves the record
  of a pin that follows (`RV:81`; `RV:12` calls it safe to run anytime).
- The dead-man is not idempotent as `RV:12-15` says: `mark_reverted` flips the
  latest slot of a key only, so a second pass may find an older one (`RJ:330`).

*Tick*
- The command documented as "revert all but do not suspend" suspends (`AR:1062`).
- A switch to Monitor takes back the corral and the user pins only (`AR:1268`),
  and so does the quiet mode (`AR:1470`); game, eviction and memory rows stay.
- The counter of the anti-cheat scan starts at 0 and is compared after the
  increment: the first two ticks place without a scan (`AR:555`).
- A game pinned as a whole gets the differential pin as well once its hot thread
  is known (`AR:2163`).
- A game off the pattern list is corralled while its kind is unknown, and its row
  stays (`AR:406`).
- `apply()` returns success without a change for a pid with a row (`AE:146`): a
  game that was evicted before it was recognised stays on the frequency CCD, and
  a user pin over a corral row does nothing.
- The collector reports no affinity for processes below 1% of CPU, and the flap
  guard takes that for no foreign pin: a user pin overwrites another manager's
  on an idle process (`MetricsCollector_win32.cpp:446`).
- A remembered mask is applied by name, and the gate is asked only when the kind
  reads game (`AR:2113`).
- Targets with a remembered mask are taken out before the rules look for a game:
  with a remembered game running no stream is evicted (`AR:2014`).
- A cycle of the policy engine has room for 16 decisions, for 1024 targets
  (`PolicyEngine.cpp:340`).
- Two refused pids with the same slot of the corral's table evict each other and
  are tried in every tick (`AR:1897`); a recycled pid inherits the blacklist.

*Files*
- A kill between the two renames of a save leaves no `memory.toml`, and `load()`
  does not read the backup (`PerGameMemory.cpp:540`); two such kills in a row
  lose what was learned (section 4). It is saved on a clean end only (`AR:2360`).
- `on_target_exited` has no caller: the guard's 32 slots are never freed
  (`AutoRevertGuard.cpp:117`). A full blacklist forgets what it is told.
- `clear-bad` of the command line is undone by the save of a running agent.
- A save of `policies.toml` is in place: a crash or a full disk inside it loses the
  rules behind it (`ConfigStore.cpp:404`). No write of either file is checked, so a
  truncated `memory.toml` is renamed over the whole one (`PerGameMemory.cpp:533-543`). The default pack is written after the load, so it
  applies from the second start. The generation restarts at 0 with the agent.
- An edit of `overrides.txt` between its read and its stamp is not seen until the
  next (`KindOverrides.hpp:268`); deleting the file never clears the table. A
  negative answer about a process's modules is kept for good (`AR:1348`).

*Channel and supervision*
- Nobody pops the ring of the mapping: it shows the first 128 actions and then
  stays as it is.
- A client keeps its ring cursor over a reconnect, when the new ring starts at 0.
- Two clients share one command slot: the fields of two commands mix, and their
  numbers are still acked.
- On battery the longest wait doubles to 10 s, which is the watchdog's threshold.
- A failed session leaves the agent paused, and so does the next agent, which
  executes the surviving command; the ack timeout of the bench (2 s) is
  below the cooldown of the agent's commands (3 s).

*Framework*
- A reader of the ring that was overtaken while it joined (`raced` in the model)
  can be overrun until its first advance (`Ring.hpp:112-115`).
- `stop_flag` is never reset, a fatal error sets it without `quiescing_`, and
  `run_graph_n_ticks` does not look at `n_ticks` (`run_graph.hpp:127`).
- The scratch memory of the FSR 2 and 3 passes is never freed
  (`FSR2Pass.cpp:67`); a failed resize of FSR 1 or recreation of the swapchain
  leaves `initialized_` set.
- A consumer stuck between `yielded.store` and `yield_plane` keeps the plane
  (`PresentSurface.cpp:515`); after the watchdog hid it nobody shows it again
  (`:562`); before the first submit nobody guards it (`:496`).

## 6. What is not modelled

- The Linux port of the shared memory, unlinked at each start.
- Priorities (`SetPriority`): no rule emits one.
- Patterns, exclusions and the per-name and total caps of the observer.
- The scoring of the classifier and its lists of names; the hook of the window
  manager; the intervals of the adaptive tick as a function of load and battery.
- `ABRunner`, which the agent owns and nobody drives; report and export; the
  telemetry; the service and the installer; probes; what the tools print.
- The decoding of CPUID, of the system's tables and of configuration text.
- What shaders compute, widgets, fonts, the application shell.
- `Latest`, `Field`, `DynamicGraph`: nothing in Phynned calls them.
- 32- and 64-bit wrap of sequence numbers; that of the clock difference is.


## 7. Plan

Modelled and checked: everything above. Proved: the safety properties of the
executor, the tick, the loop, the channel, the ring, the files, the desktop, of the
changes of others' settings, of what is shared with other programs, and of the
framework's threads and frames. What is left, in this order:

1. *Measurements.* `SnapshotIsSound`, with the layout of the buffer stated as an
   enumeration; the collector's hash, with a probe stated as the least free place.
2. *An abstract specification of a placement*: a lease of an affinity (taken,
   held, given back, recovered) that `ActionExecutor` implements with
   `held = Pinned`.
3. *Models* of what section 6 leaves out, the scoring of the classifier first.
