---------------------------- MODULE BenchSession ----------------------------
(***************************************************************************)
(* The A/B/A/B/A measurement of the UI: five captures by child processes,   *)
(* with the agent paused for the even ones and running for the odd ones,    *)
(* and the command line client that shares the agent's one-command mailbox. *)
(* BenchRunner is stepped by the frames that draw its panel.                *)
(*                                                                          *)
(* The mailbox is in a section that lives while any process has it mapped,   *)
(* so a window sends to an agent that is gone, and the next one finds the   *)
(* command.  (As on Windows, the one system that spawns the captures.)       *)
(***************************************************************************)
EXTENDS Naturals

CONSTANTS
  Runs,         \* runs of an A/B session, 5 in the code
  Cooldown,     \* kBetweenRunsCdMs, in units of the clock
  AckTimeout,   \* kAgentAckTimeoutMs, in the same units
  MaxStarts,    \* bound: sessions the user starts
  MaxOthers,    \* bound: commands of the command line client
  MaxRestarts   \* bound: times the agent comes back

BenchAssumption ==
  Runs \in Nat \ {0} /\ Cooldown \in Nat /\ AckTimeout \in 1..Cooldown

VARIABLES
  state, protocol, n_runs, run_index,
  waiting_for_ack, expected, age,   \* age: time since the command, while it matters
  runs,                             \* what the table shows of each run
  pm, import, agg,                  \* child processes: "none", "on" or an exit code
  box,                              \* the command slot: kind and seq, and the ack
  mapped,                           \* the window has the section mapped, for writing
  agent,                            \* "down" or the paused flag of a living agent
  processed,                        \* its last_cmd_seq_processed
  cli,                              \* the command line client: its phase, its seq, and
                                    \* whether the agent has executed its command
  starts, others, restarts,         \* counters of the bounds
  acked,                            \* history: the run's command was acknowledged
  lost,                             \* history: the agent it was sent to is gone, or was
  meddled                           \* history: someone else has sent a command

vars == <<state, protocol, n_runs, run_index, waiting_for_ack, expected, age, runs,
          pm, import, agg, box, mapped, agent, processed, cli, starts, others, restarts,
          acked, lost, meddled>>

session  == <<state, protocol, n_runs, run_index, waiting_for_ack, expected, runs, acked>>
children == <<pm, import, agg>>
bounds   == <<starts, others, restarts>>
outside  == <<agent, processed, cli, mapped>>
ghosts   == <<lost, meddled>>

Run   == 0..(Runs - 1)
Child == {"none", "on", "good", "bad"}
(* A reset pauses as well, and "other" is a command that does neither.      *)
Kinds == {"pause", "resume", "other"}

TypeOK ==
  /\ state \in {"Idle", "CapturingRun", "ImportingRun", "BetweenRuns",
                "AggregatingStats", "Done", "Failed"}
  /\ protocol \in {"Single", "ABABA"} /\ n_runs \in {1, Runs} /\ run_index \in Run
  /\ waiting_for_ack \in BOOLEAN /\ expected \in Nat /\ age \in 0..Cooldown
  /\ runs \in [Run -> {"pending", "captured", "OK", "ERR"}]
  /\ pm \in Child /\ import \in Child /\ agg \in Child
  /\ box \in [kind: Kinds, seq: Nat, ack: Nat]
  /\ agent \in {"down", "paused", "live"} /\ processed \in Nat /\ mapped \in BOOLEAN
  /\ cli \in [pc: {"idle", "wait"}, seq: Nat, done: BOOLEAN]
  /\ acked \in BOOLEAN /\ lost \in BOOLEAN /\ meddled \in BOOLEAN

Init ==
  /\ state = "Idle" /\ protocol = "Single" /\ n_runs = 1 /\ run_index = 0
  /\ waiting_for_ack = FALSE /\ expected = 0 /\ age = 0
  /\ runs = [i \in Run |-> "pending"]
  /\ pm = "none" /\ import = "none" /\ agg = "none"
  /\ box = [kind |-> "resume", seq |-> 0, ack |-> 0]
  /\ agent \in {"down", "paused", "live"} /\ processed = 0 /\ mapped = FALSE
  /\ cli = [pc |-> "idle", seq |-> 0, done |-> FALSE]
  /\ starts = 0 /\ others = 0 /\ restarts = 0
  /\ acked = FALSE /\ lost = FALSE /\ meddled = FALSE

-----------------------------------------------------------------------------
(* The mailbox.  send_command overwrites what the agent has not read yet.   *)

can_send == mapped

send_command(kind) == box' = [box EXCEPT !.kind = kind, !.seq = @ + 1]

is_baseline(i) == i % 2 = 0

(* mutant: the command of the run that has just ended is sent again.        *)
CommandOfLast(i) == IF is_baseline(i) THEN "resume" ELSE "pause"

CommandFor(i) == IF is_baseline(i) THEN "pause" ELSE "resume"

(* mutant: an acknowledgement of any command will do.                       *)
AcknowledgedAny == box.ack > 0

Acknowledged == box.ack >= expected

(* Sent whether an agent is there or not.  The number is above 0, so that it *)
(* is always waited for.                                                    *)
send_policy_command_for_next_run(i) ==
  /\ can_send /\ send_command(CommandFor(i))
  /\ expected' = box.seq + 1 /\ waiting_for_ack' = TRUE /\ age' = 0
  /\ lost' = (agent = "down")

(* mutant: the last run leaves the agent as its own command put it.         *)
LeavePaused == UNCHANGED box

LeaveResumed == IF protocol = "ABABA" /\ can_send
                THEN send_command("resume") ELSE UNCHANGED box

-----------------------------------------------------------------------------
(* The user.  A start from Done or Failed cancels what was left first; a    *)
(* cancel ends the children and resumes the agent.                          *)

Stop == pm' = (IF pm = "on" THEN "bad" ELSE pm) /\ import' = "none" /\ agg' = "none"

Cancel ==
  /\ state \in {"CapturingRun", "ImportingRun", "BetweenRuns", "AggregatingStats"}
  /\ Stop /\ LeaveResumed
  /\ state' = "Idle" /\ waiting_for_ack' = FALSE /\ age' = 0
  /\ UNCHANGED <<protocol, n_runs, run_index, expected, runs, acked>>
  /\ UNCHANGED <<outside, bounds, ghosts>>

Startable == state \in {"Idle", "Done", "Failed"} /\ starts < MaxStarts

Fresh(n) == [i \in Run |-> IF i < n THEN "pending" ELSE runs[i]]

(* begin_run_: the capture is spawned, or the spawn fails.                   *)
SpawnCapture(onFailure) ==
  \/ pm' = "on" /\ state' = "CapturingRun"
  \/ pm' = "bad" /\ state' = onFailure

(* A spawn that fails leaves a single session Idle.                         *)
start_single ==
  /\ Startable
  /\ SpawnCapture("Idle")
  /\ IF state = "Idle" THEN UNCHANGED box ELSE LeaveResumed
  /\ protocol' = "Single" /\ n_runs' = 1 /\ run_index' = 0 /\ runs' = Fresh(1)
  /\ waiting_for_ack' = FALSE /\ acked' = FALSE
  /\ import' = "none" /\ agg' = "none" /\ starts' = starts + 1
  /\ UNCHANGED <<expected, age, outside, others, restarts, ghosts>>

(* The resume of the cancel and the pause of run 0 are two sends with no     *)
(* read of the agent needed between them.  The button is there as long as    *)
(* the window takes the agent for connected, seconds after its end.          *)
start_ababa ==
  /\ Startable /\ can_send
  /\ LET before == IF state # "Idle" /\ protocol = "ABABA" THEN 1 ELSE 0
     IN  /\ box' = [box EXCEPT !.kind = CommandFor(0), !.seq = @ + before + 1]
         /\ expected' = box.seq + before + 1
  /\ waiting_for_ack' = TRUE /\ age' = 0
  /\ protocol' = "ABABA" /\ n_runs' = Runs /\ run_index' = 0 /\ runs' = Fresh(Runs)
  /\ state' = "BetweenRuns" /\ acked' = FALSE
  /\ lost' = (agent = "down") /\ meddled' = FALSE
  /\ Stop /\ starts' = starts + 1
  /\ UNCHANGED <<outside, others, restarts>>

-----------------------------------------------------------------------------
(* tick(), once per frame in which the panel is drawn.                      *)

(* The capture has ended: import its file, or fail.                         *)
Captured ==
  /\ state = "CapturingRun" /\ pm \in {"good", "bad"}
  /\ \/ pm = "good" /\ import' = "on" /\ state' = "ImportingRun"
        /\ runs' = [runs EXCEPT ![run_index] = "captured"]
     \/ /\ import' = import /\ state' = "Failed"
        /\ runs' = [runs EXCEPT ![run_index] = "ERR"]
  /\ UNCHANGED <<protocol, n_runs, run_index, waiting_for_ack, expected, age, acked>>
  /\ UNCHANGED <<pm, agg, box, outside, bounds, ghosts>>

ImportFailed ==
  /\ state = "ImportingRun" /\ import = "bad"
  /\ import' = "none" /\ state' = "Failed" /\ runs' = [runs EXCEPT ![run_index] = "ERR"]
  /\ UNCHANGED <<protocol, n_runs, run_index, waiting_for_ack, expected, age, acked>>
  /\ UNCHANGED <<pm, agg, box, outside, bounds, ghosts>>

(* enter_between_or_finish_: the command of the next run, or the statistics.*)
NextRun ==
  /\ state = "ImportingRun" /\ import = "good" /\ run_index + 1 < n_runs
  /\ import' = "none" /\ runs' = [runs EXCEPT ![run_index] = "OK"]
  /\ run_index' = run_index + 1 /\ acked' = FALSE
  /\ IF can_send THEN send_policy_command_for_next_run(run_index + 1) /\ state' = "BetweenRuns"
     ELSE state' = "Failed" /\ age' = 0 /\ UNCHANGED <<box, expected, waiting_for_ack, lost>>
  /\ UNCHANGED <<protocol, n_runs, pm, agg, outside, bounds, meddled>>

Finish ==
  /\ state = "ImportingRun" /\ import = "good" /\ run_index + 1 >= n_runs
  /\ import' = "none" /\ runs' = [runs EXCEPT ![run_index] = "OK"]
  /\ LeaveResumed
  /\ \/ protocol = "Single" /\ state' = "Done" /\ UNCHANGED agg
     \/ protocol = "ABABA" /\ state' = "AggregatingStats" /\ agg' = "on"
     \/ protocol = "ABABA" /\ state' = "Failed" /\ UNCHANGED agg
  /\ UNCHANGED <<protocol, n_runs, run_index, waiting_for_ack, expected, age, acked>>
  /\ UNCHANGED <<pm, outside, bounds, ghosts>>

(* BetweenRuns: the acknowledgement, its timeout, and the cooldown.         *)
AckSeen ==
  /\ state = "BetweenRuns" /\ waiting_for_ack /\ Acknowledged
  /\ waiting_for_ack' = FALSE /\ acked' = TRUE
  /\ IF age < Cooldown THEN UNCHANGED <<pm, state, age>> ELSE SpawnCapture("Failed") /\ age' = 0
  /\ UNCHANGED <<protocol, n_runs, run_index, expected, runs>>
  /\ UNCHANGED <<import, agg, box, outside, bounds, ghosts>>

(* mutant: the timeout of the acknowledgement is never looked at.           *)
AckNeverLate == FALSE /\ UNCHANGED vars

AckLate ==
  /\ state = "BetweenRuns" /\ waiting_for_ack /\ ~Acknowledged /\ age >= AckTimeout
  /\ waiting_for_ack' = FALSE
  /\ UNCHANGED <<state, protocol, n_runs, run_index, expected, age, runs, acked>>
  /\ UNCHANGED <<children, box, outside, bounds, ghosts>>

begin_run ==
  /\ state = "BetweenRuns" /\ ~waiting_for_ack /\ age >= Cooldown
  /\ SpawnCapture("Failed") /\ age' = 0
  /\ UNCHANGED <<protocol, n_runs, run_index, waiting_for_ack, expected, runs, acked>>
  /\ UNCHANGED <<import, agg, box, outside, bounds, ghosts>>

(* poll_aggregate_ does not look at the exit code.                          *)
Aggregated ==
  /\ state = "AggregatingStats" /\ agg \in {"good", "bad"}
  /\ agg' = "none" /\ state' = "Done"
  /\ UNCHANGED <<protocol, n_runs, run_index, waiting_for_ack, expected, age, runs, acked>>
  /\ UNCHANGED <<pm, import, box, outside, bounds, ghosts>>

Frame == Captured \/ ImportFailed \/ NextRun \/ Finish \/ AckSeen \/ AckLate
         \/ begin_run \/ Aggregated

-----------------------------------------------------------------------------
(* The children, the clock, the agent and the command line client.          *)

Exit(v) == IF v = "on" THEN {"good", "bad"} ELSE {v}

ChildEnds ==
  /\ pm' \in Exit(pm) /\ import' \in Exit(import) /\ agg' \in Exit(agg)
  /\ children' # children
  /\ UNCHANGED <<session, age, box, outside, bounds, ghosts>>

Clock ==
  /\ age < Cooldown /\ state = "BetweenRuns" /\ age' = age + 1
  /\ UNCHANGED <<session, children, box, outside, bounds, ghosts>>

(* The window searches for the section once a second until it has it.       *)
WindowConnects ==
  /\ ~mapped /\ (agent # "down" \/ cli.pc = "wait")
  /\ mapped' = TRUE
  /\ UNCHANGED <<session, age, children, box, agent, processed, cli, bounds, ghosts>>

(* The command block of the agent's tick: the newest command is executed,   *)
(* and its sequence number acknowledged.                                    *)
Executes(kind, was) ==
  CASE kind = "resume" -> "live" [] kind = "pause" -> "paused" [] OTHER -> was

AgentTick ==
  /\ agent # "down" /\ box.seq # processed
  /\ agent' = Executes(box.kind, agent)
  /\ processed' = box.seq
  /\ box' = [box EXCEPT !.ack = box.seq]
  /\ cli' = [cli EXCEPT !.done = @ \/ (cli.pc = "wait" /\ cli.seq = box.seq)]
  /\ UNCHANGED <<session, age, children, mapped, bounds, ghosts>>

AgentStops ==
  /\ agent # "down" /\ restarts < MaxRestarts
  /\ agent' = "down" /\ lost' = TRUE
  /\ UNCHANGED <<session, age, children, box, mapped, processed, cli, bounds, meddled>>

(* mutant: the new agent clears the whole section.                          *)
Emptied == [kind |-> "resume", seq |-> 0, ack |-> 0]

(* What the new agent finds: it clears the header and the state of a section *)
(* that others still have, and not its command slot.                        *)
Found == IF mapped \/ cli.pc = "wait" THEN box ELSE [kind |-> "resume", seq |-> 0, ack |-> 0]

(* The agent comes up paused, or live with --start-active, and has seen no   *)
(* command: the last one there is will be executed again.                   *)
AgentStarts ==
  /\ agent = "down" /\ restarts < MaxRestarts
  /\ agent' \in {"paused", "live"} /\ restarts' = restarts + 1
  /\ processed' = 0 /\ box' = Found
  /\ UNCHANGED <<session, age, children, mapped, cli, starts, others, ghosts>>

(* The client finds a section that is there, be its agent or not.           *)
CliSends(kind) ==
  /\ agent # "down" \/ mapped
  /\ cli.pc = "idle" /\ others < MaxOthers
  /\ send_command(kind) /\ cli' = [pc |-> "wait", seq |-> box.seq + 1, done |-> FALSE]
  /\ others' = others + 1 /\ meddled' = TRUE
  /\ UNCHANGED <<session, age, children, agent, processed, mapped, starts, restarts, lost>>

(* It reports what it found.  (Its record goes back to what it began as.)    *)
CliEnds ==
  /\ cli.pc = "wait"
  /\ cli' = [pc |-> "idle", seq |-> 0, done |-> FALSE]
  /\ UNCHANGED <<session, age, children, box, agent, processed, mapped, bounds, ghosts>>

Next ==
  \/ Cancel \/ start_single \/ start_ababa
  \/ Frame \/ ChildEnds \/ Clock \/ WindowConnects
  \/ AgentTick \/ AgentStops \/ AgentStarts
  \/ (\E kind \in Kinds : CliSends(kind)) \/ CliEnds

(* Frames of the panel are drawn, children end (the capture is timed) and    *)
(* time passes.  Nothing is promised for the agent.                         *)
Spec == Init /\ [][Next]_vars /\ WF_vars(Frame) /\ WF_vars(ChildEnds) /\ WF_vars(Clock)

-----------------------------------------------------------------------------
(* A living agent that has come to the last command.                        *)
UpToDate == agent # "down" /\ processed = box.seq

Policy(i) == IF is_baseline(i) THEN "paused" ELSE "live"

(* While a run is captured, an agent that has executed what is in its mailbox *)
(* follows the policy of the label: in time, late, or as the agent that came  *)
(* in place of another; and when the command was acknowledged, the agent has  *)
(* executed it, unless it is not the one it was sent to.  Both unless someone *)
(* else sent a command since the session began.                             *)
LabelsAreTrue ==
  state = "CapturingRun" /\ protocol = "ABABA" /\ ~meddled =>
    /\ UpToDate => agent = Policy(run_index)
    /\ acked /\ ~lost => UpToDate

(* A session that was cancelled or has come to its statistics leaves the     *)
(* agent running its policies, or a resume on its way to the agent there is  *)
(* or the next one.                                                         *)
PoliciesComeBack ==
  protocol = "ABABA" /\ ~meddled /\ state \in {"Idle", "AggregatingStats", "Done"} =>
    /\ box.kind = "resume" /\ box.seq > 0
    /\ UpToDate => agent = "live"

(* A session ends: every state in flight leads to one that can be started    *)
(* again, whatever the agent does.                                          *)
SessionEnds ==
  state \in {"BetweenRuns", "CapturingRun", "ImportingRun", "AggregatingStats"}
    ~> state \in {"Idle", "Done", "Failed"}

(* bench_panel.hpp: the policies are paused in runs 1, 3 and 5, and the agent *)
(* is active in runs 2 and 4.                                               *)
RunsAreAsLabelled ==
  state = "CapturingRun" /\ protocol = "ABABA" => agent = Policy(run_index)

(* The command line client reports a command as acknowledged only when the   *)
(* agent has executed it.                                                   *)
AckMeansExecuted == [][CliEnds /\ box.ack >= cli.seq => cli.done]_vars
=============================================================================
