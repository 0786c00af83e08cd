---------------------------- MODULE MCAgentFiles ----------------------------
(***************************************************************************)
(* What the agent keeps in files, each on its own: what it learned of the   *)
(* games (GameMemory), the user's rules and settings (PolicyFile) and the   *)
(* overrides of the classification (TargetKinds).                           *)
(***************************************************************************)
EXTENDS Naturals, Sequences, TLC

CONSTANTS
  Focus,                                            \* the parts looked at
  Exe, Pid, Refused, FirstFile, MaxEntries, MaxBad, MaxMonitored, Window, CheckEvery,
  MaxStarts, MaxLives, Faults,                      \* of GameMemory
  Name, Action, MaxRules, Cpu, MaxCommands,         \* of PolicyFile
  MaxAgents,                                        \* its MaxLives
  Program, Process,                                 \* Exe and Pid of TargetKinds
  NameKind, Asked, DllMax, MaxPidEntries, MaxClock,
  MaxVerdicts, MaxSpawns,                           \* its MaxEntries and MaxStarts
  None

VARIABLES
  focus,      \* the part that moves
  file, bak, tmp, cut, learned, bad, agent, todo, proc, rough, row, monitors, starts, lives,
  probed, before, hurt, calm,
  disk, mem, pc, gen, shown, view, slot, sent, life, behind,
  overrides, mtime, clock, ui, uiPc, table, seen, apc, overlap, process, front, watch, cache,
  dll, discovered, patterns, spawned, reused

-----------------------------------------------------------------------------
(* The values that are looked at.                                           *)
NoEntries == [learned |-> <<>>, bad |-> <<>>, whole |-> TRUE]
Locked(e) ==
  [learned |-> <<[exe |-> e, label |-> "unknown", best |-> TRUE, locked |-> TRUE]>>,
   bad |-> <<>>, whole |-> TRUE]
MCFirstFile == {NoEntries} \cup {Locked(e) : e \in Exe \ Refused}
MCNameKind  == [e \in Program |-> "none"]
MCAsked     == {<<e, "System">> : e \in Program}

(* The executables that may be probed are interchangeable, and so are the   *)
(* names of rules.                                                          *)
Symmetric == Permutations(Exe \ Refused) \cup Permutations(Name)

-----------------------------------------------------------------------------
Memory == INSTANCE GameMemory

Policy == INSTANCE PolicyFile WITH
  MaxLives <- MaxAgents

Kinds == INSTANCE TargetKinds WITH
  file <- overrides, proc <- process, probed <- discovered, starts <- spawned, Exe <- Program,
  Pid <- Process, MaxEntries <- MaxVerdicts, MaxStarts <- MaxSpawns

ASSUME AgentFilesAssumption ==
  Memory!GameMemoryAssumption /\ Policy!PolicyAssumption /\ Kinds!KindsAssumption

memoryVars == <<file, bak, tmp, cut, learned, bad, agent, todo, proc, rough, row, monitors,
                starts, lives, probed, before, hurt, calm>>
policyVars == <<disk, mem, pc, gen, shown, view, slot, sent, life, behind>>
kindsVars == <<overrides, mtime, clock, ui, uiPc, table, seen, apc, overlap, process, front,
               watch, cache, dll, discovered, patterns, spawned, reused>>
vars == <<focus, memoryVars, policyVars, kindsVars>>

(* The parts share no state, so the behaviours in which one of them moves are *)
(* enough for what is said of each: the others stay as they begin.           *)
Init ==
  /\ focus \in Focus
  /\ Memory!Init /\ (focus # "memory" => file = NoEntries)
  /\ Policy!Init /\ Kinds!Init

OnlyMemory ==
  focus = "memory" /\ UNCHANGED <<focus, policyVars, kindsVars>>
OnlyPolicy ==
  focus = "policy" /\ UNCHANGED <<focus, memoryVars, kindsVars>>
OnlyKinds ==
  focus = "kinds" /\ UNCHANGED <<focus, memoryVars, policyVars>>

Next ==
  \/ OnlyMemory /\ Memory!Next
  \/ OnlyPolicy /\ Policy!Next
  \/ OnlyKinds /\ Kinds!Next

Spec == Init /\ [][Next]_vars

-----------------------------------------------------------------------------
(* The files keep what was set: a whole memory.toml survives a crash at any  *)
(* step of a save, policies.toml holds the choices the agent works with, and *)
(* the agent has the overrides the panel wrote, with no verdict left from    *)
(* before them.                                                              *)
FilesKeepWhatWasSet ==
  /\ Memory!DiskKeepsACopy /\ Policy!DiskFollowsMemory
  /\ Kinds!TableFollowsFile /\ Kinds!OverrideWins

(* What is known is not undone by a later step: an executable probed is not   *)
(* probed again, one that regressed is not placed again, a kind is not lost   *)
(* with the focus, and a removal takes out the rule that was clicked.        *)
KnownStaysKnown ==
  /\ Memory!ProbedOncePerRun /\ Memory!RegressedStaysOff
  /\ Kinds!KnownStaysKnown /\ Policy!RemovesWhatWasMeant
=============================================================================
