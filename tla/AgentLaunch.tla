----------------------------- MODULE AgentLaunch -----------------------------
(***************************************************************************)
(* The life of the agent process and of the window that may have started   *)
(* it: the single-instance lock, the launcher's probe and its job object,  *)
(* the console signal, the order of main, AgentRuntime::start and the end. *)
(* One user session.  What the agent pins is a single fact per agent here: *)
(* ActionExecutor has the journal that lets the next agent undo it.        *)
(***************************************************************************)
EXTENDS Naturals, FiniteSets

CONSTANTS Agents, Uis, None

LaunchAssumption == None \notin Agents /\ Agents \cap Uis = {}

VARIABLES os,         \* "windows" or "posix"
          agent,      \* [pc, stop, job]: pc is the next step; job: the launcher whose job it is in
          ui,         \* [pc, child]: the launcher of each window
          lock,       \* processes with the mutex open (Windows) or the file locked (POSIX)
          pins        \* agents whose placements are still in force

vars == <<os, agent, ui, lock, pins>>

Absent == {"none", "gone"}
Inside == {"handlers", "ctor", "start", "run", "down", "dtor"}     \* past acquire()
Alive(a) == agent[a].pc \notin Absent
Linked == {"start", "run", "down", "dtor"}                          \* g_runtime is set

Init == /\ os \in {"windows", "posix"}
        /\ agent = [a \in Agents |-> [pc |-> "none", stop |-> FALSE, job |-> None]]
        /\ ui = [u \in Uis |-> [pc |-> "off", child |-> None]]
        /\ lock = {} /\ pins = {}

Become(a, pc) == agent' = [agent EXCEPT ![a].pc = pc]

----------------------------------------------------------------------------
(* phynned-agent: main(). *)

\* Started from a console, by hand.
ByHand(a) == /\ agent[a].pc = "none"
             /\ Become(a, "acquire")
             /\ UNCHANGED <<os, ui, lock, pins>>

AcquireOpened(a) ==                                  \* mutant: ERROR_ALREADY_EXISTS is not looked at
  /\ agent[a].pc = "acquire"
  /\ Become(a, "handlers") /\ lock' = lock \cup {a}
  /\ UNCHANGED <<os, ui, pins>>

\* SingleInstance::acquire: any other holder will do, a launcher that only probes too.
Acquire(a) ==
  /\ agent[a].pc = "acquire"
  /\ IF lock = {} THEN Become(a, "handlers") /\ lock' = {a}
     ELSE Become(a, "gone") /\ UNCHANGED lock
  /\ UNCHANGED <<os, ui, pins>>

Handlers(a) == /\ agent[a].pc = "handlers"
               /\ Become(a, "ctor")
               /\ UNCHANGED <<os, ui, lock, pins>>

\* The runtime's constructor brings up the executor, which undoes what the journal still has.
Construct(a) == /\ agent[a].pc = "ctor"
                /\ Become(a, "start") /\ pins' = {}
                /\ UNCHANGED <<os, ui, lock>>

StartAfresh(a) ==                                    \* mutant: start() clears stop_requested
  /\ agent[a].pc = "start"
  /\ agent' = [agent EXCEPT ![a].pc = "run", ![a].stop = FALSE]
  /\ UNCHANGED <<os, ui, lock, pins>>

\* AgentRuntime::start: require_admin without admin, or no wake event, ends it.
Start(a) == /\ agent[a].pc = "start"
            /\ agent' \in {[agent EXCEPT ![a].pc = pc] : pc \in {"run", "dtor"}}
            /\ UNCHANGED <<os, ui, lock, pins>>

\* A round of run() that places something.
Place(a) == /\ agent[a].pc = "run" /\ ~agent[a].stop /\ a \notin pins
            /\ pins' = pins \cup {a}
            /\ UNCHANGED <<os, agent, ui, lock>>

\* The head of the loop sees stop_requested; nothing ever resets it.
LeaveLoop(a) == /\ agent[a].pc = "run" /\ agent[a].stop
                /\ Become(a, "down")
                /\ UNCHANGED <<os, ui, lock, pins>>

\* The tail of run(): close the publisher, revert_all, audit, ETW, watchdog, memory.
Shutdown(a) == /\ agent[a].pc = "down"
               /\ Become(a, "dtor") /\ pins' = pins \ {a}
               /\ UNCHANGED <<os, ui, lock>>

\* ~AgentRuntime, then ~SingleInstance: the lock goes last.
Leave(a) == /\ agent[a].pc = "dtor"
            /\ Become(a, "gone") /\ pins' = pins \ {a} /\ lock' = lock \ {a}
            /\ UNCHANGED <<os, ui>>

\* Processes in S end where they are: the system closes their handles, nothing is undone.
Ended(S) == [a \in Agents |-> IF a \in S THEN [agent[a] EXCEPT !.pc = "gone"] ELSE agent[a]]

\* TerminateProcess, SIGKILL, a crash.
Kill(a) == /\ Alive(a)
           /\ agent' = Ended({a}) /\ lock' = lock \ {a}
           /\ UNCHANGED <<os, ui, pins>>

\* Ctrl+C or SIGTERM as the process takes it: before the handlers the default action, then
\* g_runtime->stop() if there is a runtime, otherwise nothing.
Signalled(a) == IF agent[a].pc \in {"acquire", "handlers"} THEN Ended({a})
                ELSE IF agent[a].pc \in Linked THEN [agent EXCEPT ![a].stop = TRUE]
                ELSE agent

LeftAfter(next) == {p \in lock : p \in Agents => next[p].pc # "gone"}

Signal(a) == /\ Alive(a) /\ agent[a].pc # "suspended"
             /\ agent' = Signalled(a) /\ lock' = LeftAfter(Signalled(a))
             /\ UNCHANGED <<os, ui, pins>>

AgentStep(a) == \/ Acquire(a) \/ Handlers(a) \/ Construct(a) \/ Start(a)
                \/ LeaveLoop(a) \/ Shutdown(a) \/ Leave(a)

----------------------------------------------------------------------------
(* phynned-ui: AgentLauncher. *)

\* start(): agent_running() opens the mutex, or takes the file lock if it is free.
Probe(u) == /\ ui[u].pc = "off"
            /\ LET found == lock # {} IN
               /\ ui' = [ui EXCEPT ![u].pc = IF found THEN "found" ELSE "unfound"]
               /\ lock' = IF found = (os = "windows") THEN lock \cup {u} ELSE lock
            /\ UNCHANGED <<os, agent, pins>>

\* It lets go of it; an agent that is there is left alone.
Probed(u) == /\ ui[u].pc \in {"found", "unfound"}
             /\ ui' = [ui EXCEPT ![u].pc = IF @ = "found" THEN "up" ELSE "spawn"]
             /\ lock' = lock \ {u}
             /\ UNCHANGED <<os, agent, pins>>

CreateRunning(u, a) ==                               \* mutant: no CREATE_SUSPENDED
  /\ ui[u].pc = "spawn" /\ agent[a].pc = "none"
  /\ ui' = [ui EXCEPT ![u] = [pc |-> IF os = "windows" THEN "assign" ELSE "up", child |-> a]]
  /\ Become(a, "acquire")
  /\ UNCHANGED <<os, lock, pins>>

\* CreateProcess suspended, with the job already made; posix_spawn runs at once.
Create(u, a) ==
  /\ ui[u].pc = "spawn" /\ agent[a].pc = "none"
  /\ ui' = [ui EXCEPT ![u] = [pc |-> IF os = "windows" THEN "assign" ELSE "up", child |-> a]]
  /\ Become(a, IF os = "windows" THEN "suspended" ELSE "acquire")
  /\ UNCHANGED <<os, lock, pins>>

\* No executable, no job, no process: the window comes up without an agent.
CreateFails(u) == /\ ui[u].pc = "spawn"
                  /\ ui' = [ui EXCEPT ![u].pc = "up"]
                  /\ UNCHANGED <<os, agent, lock, pins>>

\* AssignProcessToJobObject, or TerminateProcess when that is refused.
Assign(u) == LET a == ui[u].child IN
  /\ ui[u].pc = "assign"
  /\ \/ /\ ui' = [ui EXCEPT ![u].pc = "resume"]
        /\ agent' = [agent EXCEPT ![a].job = u]
        /\ UNCHANGED lock
     \/ /\ ui' = [ui EXCEPT ![u] = [pc |-> "up", child |-> None]]
        /\ agent' = Ended({a}) /\ lock' = lock \ {a}
  /\ UNCHANGED <<os, pins>>

Resume(u) == LET a == ui[u].child IN
  /\ ui[u].pc = "resume"
  /\ ui' = [ui EXCEPT ![u].pc = "up"]
  /\ agent' = [agent EXCEPT ![a].pc = IF @ = "suspended" THEN "acquire" ELSE @]
  /\ UNCHANGED <<os, lock, pins>>

\* The job's last handle closes: JOB_OBJECT_LIMIT_KILL_ON_JOB_CLOSE.
InJob(u) == {a \in Agents : agent[a].job = u /\ Alive(a)}

\* ~AgentLauncher: the job is closed, or the child gets SIGTERM.
Close(u) == LET a == ui[u].child
                next == IF os = "windows" THEN Ended(InJob(u))
                        ELSE IF a # None /\ Alive(a) THEN Signalled(a) ELSE agent IN
  /\ ui[u].pc = "up"
  /\ ui' = [ui EXCEPT ![u].pc = "closed"]
  /\ agent' = next /\ lock' = LeftAfter(next)
  /\ UNCHANGED <<os, pins>>

\* A crash, a kill, or the std::exit of the notice that is declined: no destructor runs.
Vanish(u) == /\ ui[u].pc \notin {"off", "closed", "vanished"}
             /\ ui' = [ui EXCEPT ![u].pc = "vanished"]
             /\ agent' = Ended(InJob(u)) /\ lock' = LeftAfter(Ended(InJob(u))) \ {u}
             /\ UNCHANGED <<os, pins>>

UiStep(u) == Probe(u) \/ Probed(u) \/ (\E a \in Agents : Create(u, a)) \/ CreateFails(u)
             \/ Assign(u) \/ Resume(u)

Next == \/ \E a \in Agents : AgentStep(a) \/ ByHand(a) \/ Place(a) \/ Kill(a) \/ Signal(a)
        \/ \E u \in Uis : UiStep(u) \/ Close(u) \/ Vanish(u)

Spec == Init /\ [][Next]_vars

\* A process that runs gets on; nobody has to start, close or kill one.
FairSpec == Spec /\ \A a \in Agents : WF_vars(AgentStep(a))

----------------------------------------------------------------------------
(* Correctness. *)

\* The constructor of an agent undoes everything the journal has, without asking whose it
\* is: the placements of an agent that is alive are only ever taken back by itself.
ReplayedAreGone == \A a \in pins \ pins' : agent[a].pc \in Absent \cup {"down", "dtor"}
ReplaySparesTheLiving == [][ReplayedAreGone]_vars

\* On Windows no window leaves a running agent behind, wherever between CreateProcess and
\* ResumeThread it went: the job object of AgentLauncher::start.
NoneOutlivesItsWindow ==
  os = "windows" => \A u \in Uis : ui[u].pc \in {"closed", "vanished"} /\ ui[u].child # None =>
                       agent[ui[u].child].pc \in Absent \cup {"suspended"}

\* Once stop() was called on a runtime, start() still under way included, its process ends.
StopEndsTheAgent == \A a \in Agents : (Alive(a) /\ agent[a].stop) ~> ~Alive(a)

\* "everything reverts on exit - crash included" (docs/ARCHITECTURE.md:16): what the agent of
\* a window had placed goes when that window is closed.
ClosedMeansReverted ==
  \A u \in Uis : ui[u].pc = "closed" ~> (ui[u].child # None => ui[u].child \notin pins)
=============================================================================
