----------------------------- MODULE Supervision -----------------------------
(***************************************************************************)
(* Who notices that the agent should stop, and how it does: the loop of     *)
(* AgentRuntime::run between its ticks, the callers of stop() (the console  *)
(* handler, a test), and the thread of InternalWatchdog.                    *)
(*                                                                          *)
(* Clock values are kept as ages, so that time needs no bound: the age of a *)
(* value read from the TSC is what the TSC has advanced since.  A unit of   *)
(* time is a few seconds.  What a tick does, and what the shutdown reverts, *)
(* is the time it takes.                                                    *)
(***************************************************************************)
EXTENDS Integers

CONSTANTS
  Threshold,  \* kStallThresholdSeconds
  PollSeconds,  \* kPollSeconds
  Interval,   \* the tick intervals
  MaxWork,    \* the longest a tick may take
  Slack,      \* the longest the watchdog is held up between two steps
  Oldest,     \* bound: ages are not counted further
  Wrap        \* 2^64, in these units

ASSUME SupervisionAssumption ==
  /\ Threshold \in Nat /\ PollSeconds \in Nat /\ MaxWork \in Nat
  /\ Slack \in Nat /\ Oldest \in Nat /\ Wrap \in Nat
  /\ PollSeconds > 0
  /\ Interval \subseteq Nat \ {0}
  /\ Oldest > Threshold + PollSeconds + 3 * Slack
  /\ Wrap > 2 * Oldest + Threshold

VARIABLES
  mpc,    \* where run() is
  worked, \* how long the tick, or the shutdown, has taken
  due,    \* what is left of the wait
  stop,   \* stop_requested
  event,  \* the wake event is signaled
  caller,    \* where a caller of stop() is
  beat,   \* age of last_tick_tsc_
  wpc,    \* where the watchdog is
  wdue,   \* what is left of its sleep, or of its Slack
  wnow,   \* age of the "now" it has read
  wstop,  \* its stop_
  quiet   \* history: time since the last heartbeat of run()

mainVars  == <<mpc, worked, due>>
watchVars == <<wpc, wdue, wnow>>
loopVars == <<mainVars, stop, event, caller, beat, watchVars, wstop, quiet>>

LoopTypeOK ==
  /\ mpc \in {"head", "work", "wait", "close", "join", "done"}
  /\ worked \in 0..MaxWork
  /\ due = 0 \/ \E w \in Interval : due \in 0..w
  /\ stop \in BOOLEAN /\ event \in BOOLEAN /\ wstop \in BOOLEAN
  /\ caller \in {"idle", "signal"}
  /\ beat \in 0..Oldest /\ quiet \in 0..Oldest /\ wnow \in 0..Oldest
  /\ wpc \in {"sleep", "load", "flag", "signal", "reset", "exited"}
  /\ wdue \in 0..(PollSeconds + Slack)

LoopInit ==
  /\ mpc = "head" /\ worked = 0 /\ due = 0
  /\ stop = FALSE /\ event = FALSE /\ caller = "idle"
  /\ beat = 0 /\ quiet = 0
  /\ wpc = "sleep" /\ wdue = PollSeconds /\ wnow = 0 /\ wstop = FALSE

-----------------------------------------------------------------------------
(* run()                                                                    *)

(* The head of the loop: out of it when a stop is requested, else the       *)
(* heartbeat and a tick.                                                    *)
LoopHead ==
  /\ mpc = "head"
  /\ worked' = 0
  /\ IF stop THEN mpc' = "close" /\ UNCHANGED <<beat, quiet>>
     ELSE mpc' = "work" /\ beat' = 0 /\ quiet' = 0
  /\ UNCHANGED <<due, stop, event, caller, watchVars, wstop>>

(* Mutant: the event is reset before the wait. *)
WaitFresh(w) ==
  /\ mpc = "work"
  /\ mpc' = "wait"
  /\ due' = w
  /\ event' = FALSE
  /\ UNCHANGED <<worked, stop, caller, beat, watchVars, wstop, quiet>>

(* Mutant: the interval is doubled twice on battery. *)
WaitTwiceDoubled(w) ==
  /\ mpc = "work"
  /\ mpc' = "wait"
  /\ due' = 2 * w
  /\ UNCHANGED <<worked, stop, event, caller, beat, watchVars, wstop, quiet>>

(* The tick is done: wait(tick_interval_ms(...)). *)
Wait(w) ==
  /\ mpc = "work"
  /\ mpc' = "wait"
  /\ due' = w
  /\ UNCHANGED <<worked, stop, event, caller, beat, watchVars, wstop, quiet>>

(* The wait returns: with the event, which it resets, or with the timeout. *)
Wake ==
  /\ mpc = "wait"
  /\ event \/ due = 0
  /\ mpc' = "head"
  /\ due' = 0
  /\ event' = FALSE
  /\ UNCHANGED <<worked, stop, caller, beat, watchVars, wstop, quiet>>

(* Mutant: the watchdog is joined before it is told to stop. *)
CloseUntold ==
  /\ mpc = "close"
  /\ mpc' = "join"
  /\ UNCHANGED <<worked, due, stop, event, caller, beat, watchVars, wstop, quiet>>

(* The reverts are done; watchdog.stop() begins. *)
Close ==
  /\ mpc = "close"
  /\ mpc' = "join"
  /\ wstop' = TRUE
  /\ UNCHANGED <<worked, due, stop, event, caller, beat, watchVars, quiet>>

Join ==
  /\ mpc = "join"
  /\ wpc = "exited"
  /\ mpc' = "done"
  /\ UNCHANGED <<worked, due, stop, event, caller, beat, watchVars, wstop, quiet>>

Main == LoopHead \/ (\E w \in Interval : Wait(w)) \/ Wake \/ Close \/ Join

-----------------------------------------------------------------------------
(* stop(), from another thread: the flag, then the event.                   *)

StopFlag ==
  /\ caller = "idle" /\ mpc # "done"
  /\ stop' = TRUE
  /\ caller' = "signal"
  /\ UNCHANGED <<mainVars, event, beat, watchVars, wstop, quiet>>

StopSignal ==
  /\ caller = "signal"
  /\ event' = TRUE
  /\ caller' = "idle"
  /\ UNCHANGED <<mainVars, stop, beat, watchVars, wstop, quiet>>

-----------------------------------------------------------------------------
(* The watchdog.                                                            *)

(* It looks at stop_ every 100 ms of its sleep, and after it. *)
WatchExit ==
  /\ wpc = "sleep"
  /\ wstop
  /\ wpc' = "exited"
  /\ UNCHANGED <<mainVars, stop, event, caller, beat, wdue, wnow, wstop, quiet>>

(* The sleep is over: now = rdtsc(). *)
WatchNow ==
  /\ wpc = "sleep"
  /\ wdue = 0 /\ ~wstop
  /\ wnow' = 0
  /\ wpc' = "load"
  /\ wdue' = Slack
  /\ UNCHANGED <<mainVars, stop, event, caller, beat, wstop, quiet>>

(* now - last, of unsigned 64-bit numbers. *)
Elapsed == (beat - wnow) % Wrap

(* Mutant: the timer is set again after every look. *)
WatchLoadResets ==
  /\ wpc = "load"
  /\ beat' = 0
  /\ IF Elapsed > Threshold
     THEN wpc' = "flag" /\ wdue' = Slack
     ELSE wpc' = "sleep" /\ wdue' = PollSeconds
  /\ UNCHANGED <<mainVars, stop, event, caller, wnow, wstop, quiet>>

(* last_tick_tsc_ is loaded, and the two are compared. *)
WatchLoad ==
  /\ wpc = "load"
  /\ IF Elapsed > Threshold
     THEN wpc' = "flag" /\ wdue' = Slack
     ELSE wpc' = "sleep" /\ wdue' = PollSeconds
  /\ UNCHANGED <<mainVars, stop, event, caller, beat, wnow, wstop, quiet>>

(* on_stall(): the flag, then the event; then the timer is set again. *)
WatchFlag ==
  /\ wpc = "flag"
  /\ stop' = TRUE
  /\ wpc' = "signal"
  /\ UNCHANGED <<mainVars, event, caller, beat, wdue, wnow, wstop, quiet>>

WatchSignal ==
  /\ wpc = "signal"
  /\ event' = TRUE
  /\ wpc' = "reset"
  /\ UNCHANGED <<mainVars, stop, caller, beat, wdue, wnow, wstop, quiet>>

WatchReset ==
  /\ wpc = "reset"
  /\ beat' = 0
  /\ wpc' = "sleep"
  /\ wdue' = PollSeconds
  /\ UNCHANGED <<mainVars, stop, event, caller, wnow, wstop, quiet>>

Watch ==
  WatchExit \/ WatchNow \/ WatchLoad \/ WatchFlag \/ WatchSignal \/ WatchReset

-----------------------------------------------------------------------------
(* Time passes, but for what is due now: a wait returns in time, and so     *)
(* does the watchdog's sleep; a tick and a shutdown take MaxWork at most.   *)

Older(age) == IF age < Oldest THEN age + 1 ELSE age

Pass ==
  /\ \/ mpc \in {"work", "close"} /\ worked < MaxWork /\ worked' = worked + 1 /\ UNCHANGED due
     \/ mpc = "wait" /\ due > 0 /\ ~event /\ due' = due - 1 /\ UNCHANGED worked
     \/ mpc = "join" /\ UNCHANGED <<worked, due>>
  /\ \/ wpc # "exited" /\ wdue > 0 /\ wdue' = wdue - 1
     \/ wpc = "exited" /\ UNCHANGED wdue
  /\ beat' = Older(beat) /\ wnow' = Older(wnow) /\ quiet' = Older(quiet)
  /\ UNCHANGED <<mpc, stop, event, caller, wpc, wstop>>

LoopNext == Main \/ StopFlag \/ StopSignal \/ Watch \/ Pass

LoopSpec == LoopInit /\ [][LoopNext]_loopVars

(* Every thread keeps running, the calls of a tick return, and time passes. *)
FairLoopSpec ==
  LoopSpec /\ WF_loopVars(Main) /\ WF_loopVars(StopSignal) /\ WF_loopVars(Watch) /\ WF_loopVars(Pass)

-----------------------------------------------------------------------------
(* Somebody is between setting stop_requested and signaling the event. *)
Signaling == caller = "signal" \/ wpc = "signal"

(* The loop never sleeps through a request to stop: once the flag is set    *)
(* and the signal given, the event is there for the wait, whoever set it,   *)
(* however often, and wherever the loop was.                                *)
NoLostWakeup == (mpc = "wait" /\ stop /\ ~Signaling) => event

(* A loop that is stuck is asked to stop within the threshold, a poll and   *)
(* the delays of the watchdog.                                              *)
StallNoticed ==
  (quiet > Threshold + PollSeconds + 3 * Slack /\ mpc \in {"work", "wait"}) => stop

(* A request to stop ends run(), the thread of the watchdog included. *)
StopIsServed == stop ~> mpc = "done"

-----------------------------------------------------------------------------
(* What the repository says of the program and the code does not do.        *)

(* The watchdog acts only when no heartbeat was received for longer than    *)
(* the threshold.                                                           *)
StallIsReal == [][WatchFlag => quiet > Threshold]_loopVars

=============================================================================
