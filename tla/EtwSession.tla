----------------------------- MODULE EtwSession -----------------------------
(***************************************************************************)
(* The agent's event-trace session: EtwSessionManager chooses a tier from   *)
(* the workload state with hysteresis, MetricsCollector::start and stop     *)
(* open and close the session, and SessionManager runs the consumer thread. *)
(* The kernel's session has a name, outlives the process that started it    *)
(* and can be stopped by anybody.  A crash may come between any two steps.  *)
(***************************************************************************)
EXTENDS Naturals

CONSTANTS Settle,                  \* settle_ticks_
          MaxSessions, MaxLives    \* bounds: kernel sessions started, lives of the agent

EtwAssumption == {Settle, MaxSessions, MaxLives} \subseteq Nat \ {0}

Tiers == {"none", "cpu", "full"}
Sessions == 1 .. MaxSessions

VARIABLES agent,     \* [at, admin, life]: where the agent's thread is
          workload,  \* workload_state
          tier,      \* EtwSessionManager: [current, desired, pending, count]
          session,   \* SessionManager and the collector: [handle, opened, thread, cb, snapshot]
          kernel,    \* the session of that name that runs, 0 if none
          started,   \* sessions the kernel has given out
          consumer,  \* session -> state of the thread that consumes it
          wish       \* [tier, ticks]: what the last ticks asked for, and for how long

vars == <<agent, workload, tier, session, kernel, started, consumer, wish>>

Closed == [handle |-> 0, opened |-> 0, thread |-> 0, cb |-> FALSE, snapshot |-> FALSE]
NoTier == [current |-> "none", desired |-> "none", pending |-> "none", count |-> 0]

Init == /\ agent = [at |-> "off", admin |-> FALSE, life |-> 0]
        /\ workload = "Idle" /\ tier = NoTier /\ session = Closed
        /\ kernel = 0 /\ started = 0 /\ consumer = [s \in Sessions |-> "none"]
        /\ wish = [tier |-> "none", ticks |-> 0]

At(place) == agent' = [agent EXCEPT !.at = place]

----------------------------------------------------------------------------
(* EtwSessionManager. *)

ProviderSetFor(state) == CASE state = "DeepIdle" -> "none" [] state = "Idle" -> "cpu" [] OTHER -> "full"

CountOn(want) == [tier EXCEPT !.pending = want, !.count = @ + 1]    \* mutant: a new wish goes on counting

\* A wish for another tier: a different one than before starts to count again.
Counted(want) == [tier EXCEPT !.pending = want, !.count = IF want = tier.pending THEN @ + 1 ELSE 1]

Committed(want) == [current |-> want, desired |-> want, pending |-> want, count |-> 0]

\* What apply_tier does to the collector: only none is really another session.
Begin(old, new) == IF old = "none" /\ new # "none" THEN "starting"
                   ELSE IF old # "none" /\ new = "none" THEN "joining" ELSE "loop"

OnWorkloadChanged(want) ==
  LET c == Counted(want) IN
  IF want = tier.desired THEN tier' = [tier EXCEPT !.count = 0] /\ At("loop")
  ELSE IF c.count < Settle THEN tier' = c /\ At("loop")
  ELSE tier' = Committed(want) /\ At(Begin(tier.current, want))

----------------------------------------------------------------------------
(* The agent's thread. *)

\* AgentRuntime::start: an administrator's agent goes to the full tier at once.
Launch(admin) == /\ agent.at = "off" /\ agent.life < MaxLives
                 /\ agent' = [at |-> IF admin THEN "starting" ELSE "loop", admin |-> admin, life |-> agent.life + 1]
                 /\ tier' = IF admin THEN Committed("full") ELSE NoTier
                 /\ workload' = "Idle" /\ session' = Closed
                 /\ wish' = [tier |-> tier'.current, ticks |-> 0]
                 /\ UNCHANGED <<kernel, started, consumer>>

\* One tick: the workload state, then the tier.
Tick(targets, desktopIdle) ==
  LET idle == IF ~targets /\ desktopIdle THEN "DeepIdle" ELSE workload
      next == IF targets THEN "Active" ELSE IF idle = "DeepIdle" THEN "DeepIdle" ELSE "Idle"
      want == ProviderSetFor(next)
  IN  /\ agent.at = "loop" /\ workload' = next
      /\ wish' = [tier |-> want, ticks |-> IF want # wish.tier THEN 1
                                          ELSE IF wish.ticks < Settle THEN wish.ticks + 1 ELSE wish.ticks]
      /\ IF agent.admin THEN OnWorkloadChanged(want) ELSE UNCHANGED <<tier, agent>>
      /\ UNCHANGED <<session, kernel, started, consumer>>

\* try_stop_session: whoever has the name.
StopByName == 0

\* MetricsCollector::start: the snapshot, then the session.  A refusal leaves it degraded, and
\* start() still succeeds.
StartTrace(granted) ==
  /\ agent.at = "starting"
  /\ LET given == granted /\ StopByName = 0 /\ started < MaxSessions IN
     /\ kernel' = IF given THEN started + 1 ELSE StopByName
     /\ started' = IF given THEN started + 1 ELSE started
     /\ session' = [session EXCEPT !.snapshot = TRUE, !.handle = IF given THEN started + 1 ELSE 0]
     /\ At(IF given THEN "consume" ELSE "loop")
  /\ UNCHANGED <<workload, tier, consumer, wish>>

\* start_consumer; without a thread the collector stops the session again.
StartConsumer == /\ agent.at = "consume"
                 /\ session' = [session EXCEPT !.thread = session.handle, !.cb = TRUE]
                 /\ consumer' = [consumer EXCEPT ![session.handle] = "opening"]
                 /\ At("loop") /\ UNCHANGED <<workload, tier, kernel, started, wish>>

NoConsumer == /\ agent.at = "consume"
              /\ kernel' = IF kernel = session.handle THEN 0 ELSE kernel
              /\ session' = [session EXCEPT !.handle = 0]
              /\ At("loop") /\ UNCHANGED <<workload, tier, started, consumer, wish>>

\* stop_consumer: waits for the thread, or for five seconds.
JoinConsumer == /\ agent.at = "joining"
                /\ session' = [session EXCEPT !.thread = 0, !.cb = IF session.thread = 0 THEN @ ELSE FALSE]
                /\ At("closing") /\ UNCHANGED <<workload, tier, kernel, started, consumer, wish>>

LeaveRunning == kernel                \* mutant: the session is left to itself

\* ControlTrace STOP goes by the handle: a later session of that name is not touched.
StopOwn == IF session.handle = kernel THEN 0 ELSE kernel

\* The rest of stop(), and of MetricsCollector::stop.
StopTrace == /\ agent.at = "closing"
             /\ kernel' = StopOwn
             /\ session' = [session EXCEPT !.handle = 0, !.snapshot = FALSE]
             /\ At(IF tier.desired = "off" THEN "done" ELSE "loop")
             /\ UNCHANGED <<workload, tier, started, consumer, wish>>

\* The end of run(): to the tier none, whatever it is.
Shutdown == /\ agent.at = "loop"
            /\ tier' = [NoTier EXCEPT !.desired = "off"]
            /\ At(IF tier.current = "none" THEN "done" ELSE "joining")
            /\ UNCHANGED <<workload, session, kernel, started, consumer, wish>>

\* The process ends: its threads with it, the kernel's session not.
Gone == /\ agent' = [agent EXCEPT !.at = "off"]
        /\ consumer' = [s \in Sessions |-> IF consumer[s] = "none" THEN "none" ELSE "ended"]
        /\ session' = Closed /\ tier' = NoTier /\ UNCHANGED <<workload, kernel, started, wish>>
Exit  == agent.at = "done" /\ Gone
Crash == agent.at \notin {"off", "done"} /\ Gone

----------------------------------------------------------------------------
(* The consumer threads, and somebody else. *)

\* OpenTrace, which may be refused, and consumer_handle_ of it.
Open(s, granted) ==
           /\ consumer[s] = "opening" /\ (granted => kernel = s)
           /\ consumer' = [consumer EXCEPT ![s] = IF granted THEN "tracing" ELSE "ended"]
           /\ session' = [session EXCEPT !.opened = IF granted THEN s ELSE @]
           /\ UNCHANGED <<agent, workload, tier, kernel, started, wish>>

\* ProcessTrace returns when its session has stopped.
Ends(s) == /\ consumer[s] = "tracing" /\ kernel # s
           /\ consumer' = [consumer EXCEPT ![s] = "ended"]
           /\ session' = [session EXCEPT !.opened = 0]
           /\ UNCHANGED <<agent, workload, tier, kernel, started, wish>>

StoppedByOther == /\ kernel # 0 /\ kernel' = 0
                  /\ UNCHANGED <<agent, workload, tier, session, started, consumer, wish>>

Next == \/ \E admin \in BOOLEAN : Launch(admin)
        \/ \E targets, idle \in BOOLEAN : Tick(targets, idle)
        \/ \E granted \in BOOLEAN : StartTrace(granted)
        \/ StartConsumer \/ NoConsumer \/ JoinConsumer \/ StopTrace \/ Shutdown \/ Exit \/ Crash
        \/ \E s \in Sessions : Ends(s) \/ \E granted \in BOOLEAN : Open(s, granted)
        \/ StoppedByOther

Spec == Init /\ [][Next]_vars

----------------------------------------------------------------------------
(* Correctness. *)

Quiet == agent.at \in {"loop", "done"}
Consuming(s) == consumer[s] \in {"opening", "tracing"}

\* An administrator's agent leaves no session running that it does not hold, not even one of a
\* life that crashed, and at the tier none it holds none.
NoStraySession ==
  agent.admin /\ Quiet => /\ kernel # 0 => session.handle = kernel
                          /\ tier.current = "none" => kernel = 0

\* The tier is what the last Settle ticks wished for, and a tick changes it for nothing less,
\* whatever the workload does in between.
Settled == agent.admin /\ agent.at = "loop" /\ wish.ticks >= Settle => tier.current = wish.tier
Commits == agent.at = "loop" /\ tier'.current # tier.current =>
             wish'.ticks >= Settle \/ tier'.desired = "off" \/ agent'.at = "off"
TierFollowsTheWish == []Settled /\ [][Commits]_vars

\* stop() "Blocks until the consumer thread (if any) has exited." (SessionManager.hpp:107)
StopWaits == agent.at = "loop" /\ session.thread = 0 => \A s \in Sessions : ~Consuming(s)
=============================================================================
