------------------------------ MODULE MCDesktop ------------------------------
(***************************************************************************)
(* The programs on the user's desktop around the agent, each on its own:    *)
(* how windows and agents start and end (AgentLaunch), how a window and its *)
(* tray icon follow the agent (UiLink), the A/B measurement (BenchSession)  *)
(* and its arithmetic (BenchStats). A behaviour is one of the part `focus`. *)
(***************************************************************************)
EXTENDS Naturals

CONSTANTS
  Focus,                                        \* the parts looked at
  Agents, Uis, None,                            \* AgentLaunch
  Gaps, Stall, Interval, MaxLives,              \* UiLink
  Runs, Cooldown, AckTimeout,                   \* BenchSession
  MaxStarts, MaxOthers, MaxRestarts,
  FrameTime, MaxRows, Time, Hitches, Group      \* BenchStats

VARIABLES
  focus,
  os, launched, ui, lock, pins,
  publisher, segment, node, tray, toasts, silent,
  state, protocol, n_runs, run_index, waiting_for_ack, expected, age, runs,
  pm, import, agg, box, mapped, agent, processed, cli, starts, others, restarts,
  acked, lost, meddled,
  asked, said

(* Groups that are alike, that trend either way and that lie apart either way. *)
MCGroup ==
  {[b |-> <<g[1], g[2], g[1]>>, t |-> <<g[3], g[4]>>] :
     g \in {<<2, 2, 2, 2>>, <<3, 3, 1, 1>>, <<1, 1, 3, 3>>,
            <<2, 3, 1, 2>>, <<1, 2, 2, 3>>}}

Launch == INSTANCE AgentLaunch WITH agent <- launched
Link   == INSTANCE UiLink WITH agent <- publisher
Bench  == INSTANCE BenchSession
Stats  == INSTANCE BenchStats

ASSUME DesktopAssumption ==
  Launch!LaunchAssumption /\ Link!LinkAssumption /\ Bench!BenchAssumption /\ Stats!StatsAssumption

launchVars == <<os, launched, ui, lock, pins>>
linkVars   == <<publisher, segment, node, tray, toasts, silent>>
benchVars  == <<state, protocol, n_runs, run_index, waiting_for_ack, expected, age, runs, pm,
                import, agg, box, mapped, agent, processed, cli, starts, others, restarts,
                acked, lost, meddled>>
statsVars  == <<asked, said>>
vars       == <<focus, launchVars, linkVars, benchVars, statsVars>>

(* The parts share no state, so the behaviours in which one of them moves are *)
(* enough for what is said of each: the others stay as they begin.           *)
Init ==
  /\ focus \in Focus
  /\ Launch!Init /\ (focus # "launch" => os = "posix")
  /\ Link!Init /\ (focus # "link" => ~publisher.up)
  /\ Bench!Init /\ (focus # "bench" => agent = "live")
  /\ IF focus = "stats" THEN Stats!Init ELSE asked = <<"import", <<>>>> /\ said = <<>>

OfLaunch(A) == focus = "launch" /\ A /\ UNCHANGED <<focus, linkVars, benchVars, statsVars>>
OfLink(A)   == focus = "link" /\ A /\ UNCHANGED <<focus, launchVars, benchVars, statsVars>>
OfBench(A)  == focus = "bench" /\ A /\ UNCHANGED <<focus, launchVars, linkVars, statsVars>>
OfStats(A)  == focus = "stats" /\ A /\ UNCHANGED <<focus, launchVars, linkVars, benchVars>>

Next ==
  \/ OfLaunch(Launch!Next) \/ OfLink(Link!Next) \/ OfBench(Bench!Next) \/ OfStats(Stats!Next)

(* The fairness of each part: what runs gets on, frames are drawn, captures   *)
(* are timed.                                                               *)
Fairness ==
  /\ \A a \in Agents : WF_vars(OfLaunch(Launch!AgentStep(a)))
  /\ WF_vars(OfLink(Link!Frame)) /\ WF_vars(OfLink(Link!Publish))
  /\ WF_vars(OfBench(Bench!Frame)) /\ WF_vars(OfBench(Bench!ChildEnds))
  /\ WF_vars(OfBench(Bench!Clock))

Spec == Init /\ [][Next]_vars /\ Fairness

-----------------------------------------------------------------------------
(* What the user is told is so: the label of a measured run names the policy *)
(* it was measured under, an imported percentile has its rank, an improvement *)
(* read backwards is a regression, and an agent that is gone is shown gone.  *)
UserIsToldTheTruth ==
  /\ Bench!LabelsAreTrue /\ Link!DeadIsShown
  /\ Stats!PercentilesHaveTheirRank /\ Stats!ReversedIsRegression

(* What a window or a measurement changed is changed back, and nothing else:  *)
(* a session that ends resumes the policies, a window that goes takes its     *)
(* agent along, and an agent that starts undoes no placement of a living one. *)
OwnChangesAreUndone ==
  /\ [](Bench!PoliciesComeBack /\ Launch!NoneOutlivesItsWindow)
  /\ Launch!ReplaySparesTheLiving

(* What was begun comes to its end: a measurement, an agent that was told to  *)
(* stop, the search of a window for an agent that publishes.                *)
EverythingSettles == Bench!SessionEnds /\ Launch!StopEndsTheAgent /\ Link!LiveIsFound
=============================================================================
