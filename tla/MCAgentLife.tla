---------------------------- MODULE MCAgentLife ----------------------------
(***************************************************************************)
(* The agent as the rest of the machine meets it, each side on its own: how *)
(* its loop is stopped (Supervision), how it answers commands, and how its  *)
(* snapshots and logs are read (AgentChannel, twice: with commands while    *)
(* nothing is logged or copied, and with copies and logs while nothing is   *)
(* sent).                                                                  *)
(***************************************************************************)
EXTENDS Supervision, AgentChannel

CONSTANT Focus   \* the sides looked at

ASSUME AgentLifeAssumption == ChannelAssumption

VARIABLE focus   \* the side that moves

lifeVars == <<focus, loopVars, vars>>

(* The sides share no state here, so the behaviours in which one of them     *)
(* moves are enough for what is said of each.                               *)
LifeInit == focus \in Focus /\ LoopInit /\ Init

OfLoop(A)      == focus = "loop" /\ A /\ UNCHANGED <<focus, vars>>
OfCommands(A)  ==
  /\ focus = "commands"
  /\ A /\ read' = read /\ logged' = logged
  /\ UNCHANGED <<focus, loopVars>>
OfSnapshots(A) ==
  /\ focus = "snapshots"
  /\ A /\ cpc' = cpc
  /\ UNCHANGED <<focus, loopVars>>

LifeNext == OfLoop(LoopNext) \/ OfCommands(Next) \/ OfSnapshots(Next)

(* The fairness of each side: that of Supervision, and a thread of the agent *)
(* that keeps running.                                                      *)
LifeSpec ==
  /\ LifeInit /\ [][LifeNext]_lifeVars
  /\ WF_lifeVars(OfLoop(Main)) /\ WF_lifeVars(OfLoop(StopSignal))
  /\ WF_lifeVars(OfLoop(Watch)) /\ WF_lifeVars(OfLoop(Pass))
  /\ WF_lifeVars(OfCommands(Tick))

-----------------------------------------------------------------------------
(* Each side keeps its types.                                                *)
SidesKeepTheirTypes ==
  /\ focus = "loop" => LoopTypeOK
  /\ focus # "loop" => TypeOK
=============================================================================
