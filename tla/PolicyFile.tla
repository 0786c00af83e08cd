----------------------------- MODULE PolicyFile -----------------------------
(***************************************************************************)
(* policies.toml and the rules table of the UI: the agent loads the file at *)
(* its start, changes its configuration on commands and saves it in place;  *)
(* the UI reads the published rules and asks for the removal of one by its  *)
(* slot.  The agent may die at any step, and the user may edit the file     *)
(* while it is down.                                                        *)
(***************************************************************************)
EXTENDS Naturals, Sequences, SequencesExt

CONSTANTS
  Name,        \* executables with a rule
  Action,      \* what a rule asks for
  MaxRules,    \* kMaxProcessRules
  Cpu,         \* class of the processor
  MaxCommands, \* bound: commands the UI sends
  MaxLives,    \* bound: starts of the agent
  None

EngineRules == {"PinGameToVCacheCcd", "EvictStreamFromHotCcd", "PinGameToPCores",
                "PinCommToECores", "IsolateGameFromBackground"}

Rule   == [name: Name, action: Action]
Rules  == {rs \in Seq(Rule) : Len(rs) <= MaxRules}
Config == [profile: {"monitor", "corral"}, corral: BOOLEAN, over: SUBSET EngineRules, rules: Rules]

PolicyAssumption ==
  /\ MaxRules \in Nat \ {0} /\ Cpu \in {"x3d_single", "x3d_dual", "hybrid", "multi_ccx", "single_ccd"}
  /\ MaxCommands \in Nat /\ MaxLives \in Nat /\ "never" \in Action
  /\ None \notin Config

VARIABLES
  disk,      \* policies.toml, or None
  mem,       \* agent_cfg
  pc,        \* "down", "run", "save" while the file is open for writing, "unsaved" if it was refused
  gen,       \* user_rules_generation
  shown,     \* the rules block of the channel
  view,      \* the block as the panel read it
  slot,      \* the command in the mailbox, or None
  sent, life,
  behind     \* history: the last save of this life failed

vars == <<disk, mem, pc, gen, shown, view, slot, sent, life, behind>>

Default == [profile |-> "corral", corral |-> FALSE, over |-> {}, rules |-> <<>>]
Block(g, rs) == [gen |-> g, rules |-> rs]

TypeOK ==
  /\ mem \in Config /\ disk \in Config \cup {None}
  /\ pc \in {"down", "run", "save", "unsaved"} /\ gen \in Nat
  /\ shown.gen \in Nat /\ shown.rules \in Rules
  /\ view # None => view.gen \in Nat /\ view.rules \in Rules /\ view.life \in 0..life
  /\ sent \in 0..MaxCommands /\ life \in 0..MaxLives /\ behind \in BOOLEAN

Init ==
  /\ disk = None /\ mem = Default /\ pc = "down"
  /\ gen = 0 /\ shown = Block(0, <<>>) /\ view = None /\ slot = None
  /\ sent = 0 /\ life = 0 /\ behind = FALSE

-----------------------------------------------------------------------------
(* mutant: the accumulator the file ends in is not committed.               *)
LoadedButLast(d) ==
  IF d = None THEN Default
  ELSE [d EXCEPT !.rules = IF @ = <<>> THEN @ ELSE Front(@)]

(* load_policies: a file that is not there, or has not come to a section,   *)
(* leaves the defaults.                                                     *)
Loaded(d) == IF d = None THEN Default ELSE d

(* The rules of the engine the default pack turns on for a class.            *)
write_rules ==
  CASE Cpu = "x3d_single" -> {"PinGameToVCacheCcd"}
    [] Cpu = "x3d_dual"   -> {"PinGameToVCacheCcd", "EvictStreamFromHotCcd"}
    [] Cpu = "hybrid"     -> {"PinGameToPCores", "PinCommToECores"}
    [] Cpu = "multi_ccx"  -> {"IsolateGameFromBackground"}
    [] OTHER              -> {}

(* write_if_missing: a file that is there is left alone.                    *)
write_if_missing(d) ==
  {d} \cup (IF d = None THEN {[Default EXCEPT !.over = write_rules]} ELSE {})

(* What a save that stops after k of its sections has left in the file.     *)
Cut(cfg, k) ==
  [profile |-> IF k > 0 THEN cfg.profile ELSE Default.profile,
   corral  |-> IF k > 1 THEN cfg.corral ELSE Default.corral,
   over    |-> IF k > 1 THEN cfg.over ELSE Default.over,
   rules   |-> SubSeq(cfg.rules, 1, k - 2)]

(* start(): the file is loaded, then the default pack goes to a disk        *)
(* without one, if it can be written: what is in it is loaded by the next   *)
(* start.                                                                   *)
Start ==
  /\ pc = "down" /\ life < MaxLives /\ life' = life + 1
  /\ pc' = "run" /\ mem' = Loaded(disk) /\ disk' \in write_if_missing(disk)
  /\ gen' = 0 /\ shown' = Block(0, <<>>) /\ slot' = None
  /\ behind' = FALSE
  /\ UNCHANGED <<view, sent>>

(* The publication at the end of a tick.                                    *)
Publish ==
  /\ pc = "run" /\ shown' = Block(gen, mem.rules) /\ shown' # shown
  /\ UNCHANGED <<disk, mem, pc, gen, view, slot, sent, life, behind>>

-----------------------------------------------------------------------------
(* The panels.                                                              *)

Draw ==
  /\ pc # "down" /\ view' = [gen |-> shown.gen, rules |-> shown.rules, life |-> life]
  /\ view' # view
  /\ UNCHANGED <<disk, mem, pc, gen, shown, slot, sent, life, behind>>

Send(c) ==
  /\ slot = None /\ sent < MaxCommands /\ sent' = sent + 1
  /\ slot' = c
  /\ UNCHANGED <<disk, mem, pc, gen, shown, view, life, behind>>

ClickRule ==
  \E n \in Name, a \in Action : Send([kind |-> "set", name |-> n, action |-> a])

(* The removal names a slot and the generation it was read with.            *)
ClickRemove ==
  /\ view # None
  /\ \E i \in DOMAIN view.rules :
       Send([kind |-> "remove", at |-> i, gen |-> view.gen,
             meant |-> view.rules[i].name, life |-> view.life])

ClickProfile == \E p \in {"monitor", "corral"} : Send([kind |-> "profile", profile |-> p])
ClickCorral  == \E b \in BOOLEAN : Send([kind |-> "corral", corral |-> b])

-----------------------------------------------------------------------------
(* The handlers.  Each changes the configuration and opens the file.        *)

Save(cfg) ==
  /\ mem' = cfg
  /\ \/ pc' = "save" /\ disk' = Cut(cfg, 0) /\ UNCHANGED behind
     \/ pc' = "unsaved" /\ UNCHANGED disk /\ behind' = TRUE      \* fopen fails
  /\ UNCHANGED <<gen, shown, view, slot, sent, life>>

Placed(rs, n, a) ==
  IF \E i \in DOMAIN rs : rs[i].name = n
  THEN [i \in DOMAIN rs |-> IF rs[i].name = n THEN [rs[i] EXCEPT !.action = a] ELSE rs[i]]
  ELSE IF Len(rs) < MaxRules THEN Append(rs, [name |-> n, action |-> a]) ELSE rs

SetProcessRule ==
  /\ pc = "run" /\ slot # None /\ slot.kind = "set"
  /\ Save([mem EXCEPT !.rules = Placed(@, slot.name, slot.action)])

Valid(c) == c.gen = gen /\ c.at \in DOMAIN mem.rules

RemoveProcessRule ==
  /\ pc = "run" /\ slot # None /\ slot.kind = "remove" /\ Valid(slot)
  /\ Save([mem EXCEPT !.rules = RemoveAt(@, slot.at)])

RemoveIgnored ==
  /\ pc = "run" /\ slot # None /\ slot.kind = "remove" /\ ~Valid(slot)
  /\ slot' = None
  /\ UNCHANGED <<disk, mem, pc, gen, shown, view, sent, life, behind>>

(* The process of the click is gone, so its name is not found.              *)
SetIgnored ==
  /\ pc = "run" /\ slot # None /\ slot.kind = "set"
  /\ slot' = None
  /\ UNCHANGED <<disk, mem, pc, gen, shown, view, sent, life, behind>>

SetProfile ==
  /\ pc = "run" /\ slot # None /\ slot.kind = "profile"
  /\ Save([mem EXCEPT !.profile = slot.profile])

SetCorralLive ==
  /\ pc = "run" /\ slot # None /\ slot.kind = "corral"
  /\ Save([mem EXCEPT !.corral = slot.corral])

(* mutant: a removal does not count as a change of the table.               *)
GenerationOfSets == IF slot.kind = "set" THEN gen + 1 ELSE gen

Generation == IF slot.kind \in {"set", "remove"} THEN gen + 1 ELSE gen

CutFiles == {Cut(mem, k) : k \in 0..(2 + Len(mem.rules))}

(* The file is written and closed, the table has a new generation, and the  *)
(* command is acknowledged.  Nobody looks at what fprintf and fclose return, *)
(* so that a full disk may leave a prefix of the text.                       *)
SaveEnds ==
  /\ pc \in {"save", "unsaved"} /\ pc' = "run"
  /\ \/ pc = "save" /\ disk' = mem /\ behind' = FALSE
     \/ pc = "save" /\ disk' \in CutFiles /\ behind' = TRUE
     \/ pc = "unsaved" /\ UNCHANGED <<disk, behind>>
  /\ gen' = Generation
  /\ slot' = None
  /\ UNCHANGED <<mem, shown, view, sent, life>>

-----------------------------------------------------------------------------
(* The agent dies; what an open file holds then is a prefix of the text.    *)
Crash ==
  /\ pc # "down" /\ pc' = "down"
  /\ \/ pc = "save" /\ disk' \in CutFiles
     \/ pc # "save" /\ UNCHANGED disk
  /\ UNCHANGED <<mem, gen, shown, view, slot, sent, life, behind>>

(* The user takes a rule out of the file, or changes its order.             *)
HandEdit ==
  /\ pc = "down" /\ disk # None
  /\ \/ \E i \in DOMAIN disk.rules : disk' = [disk EXCEPT !.rules = RemoveAt(@, i)]
     \/ disk' = [disk EXCEPT !.rules = Reverse(@)]
  /\ disk' # disk
  /\ UNCHANGED <<mem, pc, gen, shown, view, slot, sent, life, behind>>

Next ==
  \/ Start \/ Publish \/ Draw \/ ClickRule \/ ClickRemove \/ ClickProfile \/ ClickCorral
  \/ SetProcessRule \/ RemoveProcessRule \/ RemoveIgnored \/ SetIgnored \/ SetProfile \/ SetCorralLive
  \/ SaveEnds \/ Crash \/ HandEdit

Spec == Init /\ [][Next]_vars

-----------------------------------------------------------------------------
UserChoices(cfg) == <<cfg.profile, cfg.corral, cfg.rules>>

(* Between two saves the file loads to the choices the agent has, so the    *)
(* next start begins with the user's last ones, unless the last save of    *)
(* this life failed: one that succeeds makes up for those that did not.     *)
DiskFollowsMemory == pc = "run" /\ ~behind => UserChoices(Loaded(disk)) = UserChoices(mem)

(* A removal takes out the rule the user clicked on: other commands may     *)
(* have moved the table's slots in the meantime, and then the generation    *)
(* the click came with is refused.  (A click is meant for the agent whose   *)
(* table it was read from.)                                                 *)
RemovesWhatWasMeant ==
  [][\A i \in DOMAIN mem.rules :
       RemoveProcessRule /\ slot.at = i /\ slot.life = life =>
         mem.rules[i].name = slot.meant]_vars
=============================================================================
