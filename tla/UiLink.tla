------------------------------- MODULE UiLink -------------------------------
(***************************************************************************)
(* How the window learns that the agent is there and that it is gone       *)
(* (PhynnedLogicNode, PhynnedTrayIcon, PhynnedClient::connect, on Windows). *)
(* The agent publishes into a named mapping; the mapping lives as long as  *)
(* anybody holds it, so the window's own handle keeps a dead agent's last  *)
(* words.  The logic node looks once per frame.                            *)
(***************************************************************************)
EXTENDS Naturals

CONSTANTS Gaps,         \* frames between two publications, one per workload state
          Stall,        \* kPublishStallFrames
          Interval,     \* frames between two attempts to connect
          MaxLives      \* bound: agents in one run of the window

LinkAssumption == Gaps \subseteq Nat \ {0} /\ {Stall, Interval, MaxLives} \subseteq Nat

VARIABLES agent,        \* [up, hung, lives, admin, gap, quiet]: quiet frames since it published
          segment,      \* [named, pub]: pub is "zero", "new" or "seen" by the window
          node,         \* PhynnedLogicNode: [mapped, wait, last, stalled, shown]
          tray,         \* PhynnedTrayIcon: the state it shows
          toasts,       \* "Agent connected" balloons so far (bounded)
          silent        \* frames with the mapping since the last agent went or hung (bounded)

vars == <<agent, segment, node, tray, toasts, silent>>

\* The window starts, with or without an agent there, and on_start connects at once.
Init == /\ \E up, admin \in BOOLEAN, pub \in {"zero", "new"} :
             /\ up \/ (~admin /\ pub = "zero")
             /\ agent = [up |-> up, hung |-> FALSE, lives |-> IF up THEN 1 ELSE 0,
                         admin |-> admin, gap |-> 1, quiet |-> 0]
             /\ segment = [named |-> up, pub |-> pub]
             /\ node = [mapped |-> up, wait |-> 0, last |-> "zero", stalled |-> 0,
                        shown |-> FALSE]
        /\ tray = "Gray" /\ toasts = 0 /\ silent = 0

Loops(a) == a.up /\ ~a.hung

----------------------------------------------------------------------------
(* The agent's end. *)

\* PhynnedAgentPublisher::open: creates the mapping or gets the one the window still holds,
\* and clears its state.
StartAgent(admin) ==
  /\ ~agent.up /\ agent.lives < MaxLives
  /\ agent' = [agent EXCEPT !.up = TRUE, !.lives = @ + 1, !.admin = admin]
  /\ segment' = [named |-> TRUE, pub |-> "zero"]
  /\ silent' = 0
  /\ UNCHANGED <<node, tray, toasts>>

\* A tick's publish: last_publish_tsc moves.
Publish == /\ Loops(agent)
           /\ agent' = [agent EXCEPT !.quiet = 0]
           /\ segment' = [segment EXCEPT !.pub = "new"]
           /\ UNCHANGED <<node, tray, toasts, silent>>

\* tick_interval_ms changes with the workload; it is asked once per tick.
Workload(gap) == /\ Loops(agent) /\ agent.quiet = 0 /\ agent.gap # gap
                 /\ agent' = [agent EXCEPT !.gap = gap]
                 /\ UNCHANGED <<segment, node, tray, toasts, silent>>

\* The loop is stuck in a call, and comes back from it.
Hang == /\ Loops(agent)
        /\ agent' = [agent EXCEPT !.hung = TRUE, !.quiet = 0]
        /\ UNCHANGED <<segment, node, tray, toasts, silent>>

Unhang == /\ agent.hung
          /\ agent' = [agent EXCEPT !.hung = FALSE]
          /\ silent' = 0
          /\ UNCHANGED <<segment, node, tray, toasts>>

\* Clean or killed: the agent's handles go, the mapping only if the window has none.
EndAgent == /\ agent.up
            /\ agent' = [agent EXCEPT !.up = FALSE, !.hung = FALSE, !.quiet = 0]
            /\ segment' = [segment EXCEPT !.named = node.mapped]
            /\ UNCHANGED <<node, tray, toasts, silent>>

----------------------------------------------------------------------------
(* The window's end. *)

\* Not connected: one attempt per interval, whatever it brings this frame shows nothing.
Reconnect(n) == IF n.wait > 0 THEN [n EXCEPT !.wait = @ - 1, !.shown = FALSE]
                ELSE [n EXCEPT !.wait = Interval, !.mapped = segment.named, !.shown = FALSE]

\* What the window compares: the counter it saw last with the one that is there.
MovedByFlag(n) == segment.named                              \* mutant: agent_connected stays 1

Moved(n) == segment.pub = "new" \/ (segment.pub = "zero" /\ n.last # "zero")

CountedForGood(n) == IF n.stalled > Stall THEN n.stalled     \* mutant: never counted back
                     ELSE IF Moved(n) THEN 0 ELSE n.stalled + 1

Counted(n) == IF Moved(n) THEN 0 ELSE IF n.stalled <= Stall THEN n.stalled + 1 ELSE n.stalled

Synced(n) == [n EXCEPT !.stalled = Counted(n), !.shown = Counted(n) <= Stall,
                       !.last = IF segment.pub = "zero" THEN "zero" ELSE "value"]

\* update_tray: the watchdog byte an agent publishes is always 1; in a mapping that was
\* cleared and not yet published into it is 0, which reads as a stall. The byte of the
\* privilege is the last one published.
TrayState == IF segment.pub = "zero" THEN "Red" ELSE IF agent.admin THEN "Green" ELSE "Orange"

Greeted == IF tray = "Gray" /\ TrayState # "Red" /\ toasts < 2 THEN toasts + 1 ELSE toasts

Frame == /\ Loops(agent) => agent.quiet < agent.gap
         /\ node' = IF node.mapped THEN Synced(node) ELSE Reconnect(node)
         /\ agent' = [agent EXCEPT !.quiet = IF Loops(agent) THEN @ + 1 ELSE 0]
         /\ segment' = [segment EXCEPT !.pub = IF node.mapped /\ @ = "new" THEN "seen" ELSE @]
         /\ silent' = IF Loops(agent) THEN 0
                     ELSE IF node.mapped /\ silent <= Stall + 1 THEN silent + 1 ELSE silent
         /\ IF node'.shown
              THEN tray' = TrayState /\ toasts' = Greeted
              ELSE UNCHANGED <<tray, toasts>>

Next == \/ \E admin \in BOOLEAN : StartAgent(admin)
        \/ \E gap \in Gaps : Workload(gap)
        \/ Publish \/ Hang \/ Unhang \/ EndAgent \/ Frame

Spec == Init /\ [][Next]_vars

\* Frames are drawn and the agent's loop goes round.
FairSpec == Spec /\ WF_vars(Frame) /\ WF_vars(Publish)

----------------------------------------------------------------------------
(* Correctness. *)

\* However the agent went, or when it hangs, the window says so within kPublishStallFrames
\* frames: the dead-agent detection of PhynnedLogicNode::tick.
DeadIsShown == silent > Stall + 1 => ~node.shown

\* An agent that stays and publishes faster than the stall limit is shown for good in the
\* end, be it the first or one started after others died.
LiveIsFound == <>[](Loops(agent) /\ agent.gap <= Stall) => <>[]node.shown

\* "Gray (state 4) - Agent not running / disconnected" (PhynnedTrayIcon.hpp:10).
TrayGoesGray == silent > Stall + 1 => tray = "Gray"

\* "Red (state 3) - Regression detected, policy reverted" (PhynnedTrayIcon.hpp:9).
RedIsARegression == tray # "Red"
=============================================================================
