---------------------------- MODULE PolicyRules ----------------------------
(***************************************************************************)
(* The rules of the policy engine and one cycle of it                      *)
(* (policy/src/PolicyEngine.cpp): which rules a processor gets, what they   *)
(* decide for the targets in the order of the list, and the pass that takes *)
(* the heaviest of the other processes off the V-Cache die.  A target is    *)
(* its place in the list; masks are sets of cores.                          *)
(***************************************************************************)
EXTENDS Naturals, Sequences, FiniteSets, SequencesExt

CONSTANTS Machines,      \* [cores, vcache, ecores, dies]: what the topology answers
          Targets,       \* [kind, cpu, guarded, hot]: what a target may be
          MaxTargets,    \* bound: targets of one cycle
          MaxDecisions,  \* kMaxDecisionsPerCycle
          MaxDefense     \* kMaxCcdDefenseEmissions

PolicyRulesAssumption ==
  /\ MaxTargets \in Nat /\ MaxDecisions \in Nat \ {0} /\ MaxDefense \in Nat \ {0}
  /\ \A m \in Machines : m.vcache \subseteq m.cores /\ m.ecores \subseteq m.cores

VARIABLES machine,  \* fixed at the start
          rules,    \* rules_: in the order they were registered
          diff,     \* differential_pin_enabled_
          cycle     \* the last cycle: its targets and its decisions, or Idle

vars == <<machine, rules, diff, cycle>>

Idle == [targets |-> <<>>, decisions |-> <<>>]

----------------------------------------------------------------------------
(* register_default_rules. *)

Rule(id, mask, kind, game) == [id |-> id, mask |-> mask, kind |-> kind, game |-> game]

When(c, rs) == IF c THEN rs ELSE <<>>

CoolWholeDie(m) == m.cores                     \* mutant: the V-Cache cores are not taken out

\* The cores without V-Cache: where everything goes that is not the game.
Cool(m) == m.cores \ m.vcache

Defense == 8

\* One rule after the other, each only on a processor it has a use for.  Those that move
\* something other than a game ask for a game; the defense chooses in the cycle itself.
GameRules(m) ==
  When(m.vcache # {}, <<Rule(1, m.vcache, "Game", FALSE)>>)
  \o When(m.ecores # {}, <<Rule(2, m.cores \ m.ecores, "Game", FALSE)>>)

EvictionRules(m) ==
  When(m.vcache # {} /\ Cool(m) # {}, <<Rule(3, Cool(m), "Stream", TRUE), Rule(6, Cool(m), "Comm", TRUE)>>)

register_default_rules(m) ==
  GameRules(m) \o EvictionRules(m)
  \o When(m.ecores # {}, <<Rule(4, m.ecores, "Comm", TRUE)>>)
  \o When(m.vcache # {} /\ Cool(m) # {} /\ m.dies >= 2, <<Rule(Defense, Cool(m), "any", TRUE)>>)

Init == /\ machine \in Machines
        /\ rules = register_default_rules(machine)
        /\ diff = FALSE /\ cycle = Idle

----------------------------------------------------------------------------
(* evaluate. *)

AnyGame(ts) == \E i \in DOMAIN ts : ts[i].kind = "Game"

evaluate_condition(r, t, ts) == r.id # Defense /\ r.kind = t.kind /\ (r.game => AnyGame(ts))

\* The pin of a game to the V-Cache becomes the pin of its hottest thread when that mode is
\* on and the thread is known.
Emitted(r, t) == IF diff /\ r.id = 1 /\ t.hot THEN 7 ELSE r.id

Decision(i, id, mask) == [pid |-> i, id |-> id, mask |-> mask]

\* Every rule that matches a target, target by target, as far as the buffer goes.
Standard(ts) ==
  LET Of(i) == LET rs == SelectSeq(rules, LAMBDA r : evaluate_condition(r, ts[i], ts))
               IN  [k \in DOMAIN rs |-> Decision(i, Emitted(rs[k], ts[i]), rs[k].mask)]
      listed == FlattenSeq([i \in DOMAIN ts |-> Of(i)])
  IN  SubSeq(listed, 1, IF Len(listed) < MaxDecisions THEN Len(listed) ELSE MaxDecisions)

Decided(ds) == {ds[k].pid : k \in DOMAIN ds}

\* Phynned's own programs, the helpers of anti-cheats and the system's services, by name.
is_protected_from_ccd_defense(t) == t.guarded

CandidatesAgain(ts, ds) ==                    \* mutant: what a rule has decided is not skipped
  {i \in DOMAIN ts : ts[i].kind \notin {"Game", "System"} /\ ts[i].cpu > 0 /\ ~ts[i].guarded}

\* What the defense may move: no game and nothing of the system, busy enough, not protected
\* by name, and without a decision so far.
Candidates(ts, ds) ==
  {i \in DOMAIN ts : /\ ts[i].kind \notin {"Game", "System"}
                     /\ ts[i].cpu > 0 /\ ~is_protected_from_ccd_defense(ts[i]) /\ i \notin Decided(ds)}

\* The orders std::sort may leave the candidates in: equals are in any.
Ranked(ts, ds) ==
  {s \in SetToSeqs(Candidates(ts, ds)) :
     \A j, k \in DOMAIN s : j < k => ts[s[j]].cpu >= ts[s[k]].cpu}

\* The heaviest of them, as many as the pass may move and the buffer still holds.
Defended(ts, ds, s) ==
  LET on   == AnyGame(ts) /\ \E k \in DOMAIN rules : rules[k].id = Defense
      room == MaxDecisions - Len(ds)
      most == CHOOSE n \in {Len(s), MaxDefense, room} :
                \A o \in {Len(s), MaxDefense, room} : n <= o
  IN  IF on THEN [k \in 1 .. most |-> Decision(s[k], Defense, Cool(machine))] ELSE <<>>

evaluate(ts) ==
  /\ cycle = Idle /\ ts # <<>>
  /\ \E s \in Ranked(ts, Standard(ts)) :
       cycle' = [targets |-> ts, decisions |-> Standard(ts) \o Defended(ts, Standard(ts), s)]
  /\ UNCHANGED <<machine, rules, diff>>

\* The next tick begins.
NextCycle == cycle # Idle /\ cycle' = Idle /\ UNCHANGED <<machine, rules, diff>>

set_differential_pin_enabled ==
  cycle = Idle /\ diff' = ~diff /\ UNCHANGED <<machine, rules, cycle>>

Next == \/ \E ts \in UNION {[1 .. n -> Targets] : n \in 1 .. MaxTargets} : evaluate(ts)
        \/ NextCycle \/ set_differential_pin_enabled

Spec == Init /\ [][Next]_vars

----------------------------------------------------------------------------
(* Correctness. *)

Kind(d) == cycle.targets[d.pid].kind

\* No process is decided about twice in a cycle, so no rule undoes another's placement.
OnePerProcess == IsInjective([k \in DOMAIN cycle.decisions |-> cycle.decisions[k].pid])

\* What is moved for a game ends on cores the game is not on, and has cores to run on.
OutOfTheGamesWay ==
  \A d, e \in ToSet(cycle.decisions) :
    /\ d.mask # {} /\ d.mask \subseteq machine.cores
    /\ Kind(d) = "Game" /\ Kind(e) # "Game" => d.mask \cap e.mask = {}

\* The defense never leaves a process that uses more of the V-Cache die than one it moves,
\* and moves nobody that is protected or works for a game.
HeaviestMoved ==
  LET moved == {d.pid : d \in {e \in ToSet(cycle.decisions) : e.id = Defense}}
      left  == Candidates(cycle.targets, cycle.decisions)
  IN  /\ Cardinality(moved) <= MaxDefense
      /\ \A i \in moved : ~cycle.targets[i].guarded /\ cycle.targets[i].kind \notin {"Game", "System"}
      /\ \A i \in moved, j \in left : cycle.targets[i].cpu >= cycle.targets[j].cpu

\* A game gets its cores in every cycle whose rules do not decide more than the buffer holds
\* (beyond that the targets late in the list get nothing, whatever they are).
GamesAreServed ==
  LET asked == {i \in DOMAIN cycle.targets : \E k \in DOMAIN rules :
                  evaluate_condition(rules[k], cycle.targets[i], cycle.targets)}
  IN  Cardinality(asked) <= MaxDecisions => asked \subseteq Decided(cycle.decisions)

DecisionsAreSound == OnePerProcess /\ OutOfTheGamesWay /\ HeaviestMoved /\ GamesAreServed
=============================================================================
