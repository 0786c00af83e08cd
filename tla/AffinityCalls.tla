---------------------------- MODULE AffinityCalls ----------------------------
(***************************************************************************)
(* The calls of phyriad::hw that read and change a setting of somebody       *)
(* else's process or thread: its affinity, its priority class, its ideal     *)
(* processor.  One caller undoes each change with the value the change        *)
(* returned, while the target ends, its id is given out again, and another    *)
(* program changes the same setting.                                        *)
(***************************************************************************)
EXTENDS Naturals

CONSTANTS Values,       \* masks, classes or processors
          Wide,         \* what a thread is set to in order to read it: every core, or processor 0
          MaxObjects,   \* bound: processes or threads the id names, one after the other
          MaxCalls      \* bound: calls

CallsAssumption == Wide \in Values /\ {MaxObjects, MaxCalls} \subseteq Nat \ {0}

NoValue == "none"                \* mask 0, class 0
Objects == 1 .. MaxObjects

VARIABLES api,       \* "handle": a process of Windows; "swap": a thread of Windows; "id": POSIX
          names,     \* the object the id names, 0 if none
          next,      \* objects there have been
          setting,   \* object -> its value
          confined,  \* the thread's process may not use every core
          call,      \* the call under way: [at, op, arg, target, prev]
          calls,     \* calls made
          result,    \* of the last one: [op, code, prev]
          before,    \* ghost: the object and its value when the call began, the undo of it, a refused set-back
          disturbed  \* ghost: another program wrote since then

vars == <<api, names, next, setting, confined, call, calls, result, before, disturbed>>

Idle == [at |-> "idle", op |-> "get", arg |-> NoValue, target |-> 0, prev |-> NoValue]
NoResult == [op |-> "get", code |-> "none", prev |-> NoValue]

Init == /\ api \in {"handle", "swap", "id"} /\ confined \in BOOLEAN
        /\ names = 1 /\ next = 1 /\ setting \in [Objects -> Values]
        /\ call = Idle /\ calls = 0 /\ result = NoResult
        /\ before = [object |-> 0, value |-> NoValue, undo |-> FALSE, left |-> FALSE] /\ disturbed = FALSE

Returns(code, prev) == call' = Idle /\ result' = [op |-> call.op, code |-> code, prev |-> prev]

World == <<api, names, next, setting, confined>>

----------------------------------------------------------------------------
(* The caller. *)

\* A get, or a set: to a new value, or to what the last set returned.
Begin(op, arg, undo) ==
  /\ call.at = "idle" /\ calls < MaxCalls
  /\ undo => op = "set" /\ ~before.undo /\ result.op = "set" /\ result.code = "ok" /\ arg = result.prev
  /\ calls' = calls + 1
  /\ call' = [Idle EXCEPT !.at = IF api = "id" THEN "read" ELSE "open", !.op = op, !.arg = arg]
  /\ before' = IF undo THEN [before EXCEPT !.undo = TRUE]
               ELSE [object |-> names, value |-> IF names = 0 THEN NoValue ELSE setting[names],
                     undo |-> FALSE, left |-> FALSE]
  /\ disturbed' = (undo /\ disturbed)
  /\ UNCHANGED <<World, result>>

\* A mask or class of 0 is rejected before anything is opened.
Rejected == /\ call.at \in {"open", "read"} /\ call.op = "set" /\ call.arg = NoValue
            /\ Returns("InvalidArgument", NoValue)
            /\ UNCHANGED <<World, calls, before, disturbed>>

\* OpenProcess, OpenThread: a handle holds on to the object.
Open(granted) ==
  /\ call.at = "open" /\ (call.op = "set" => call.arg # NoValue)
  /\ IF names # 0 /\ granted
     THEN /\ call' = [call EXCEPT !.at = IF api = "swap" THEN "swap" ELSE "read", !.target = names]
          /\ UNCHANGED result
     ELSE Returns(IF names = 0 THEN "InvalidArgument" ELSE "PermissionDenied", NoValue)
  /\ UNCHANGED <<World, calls, before, disturbed>>

\* What a call of the system acts on: the object of the handle, or whatever the id names now.
Acted == IF api = "id" THEN names ELSE call.target

Lost == IF api = "id" THEN "InvalidArgument" ELSE "IoError"

\* GetProcessAffinityMask, GetPriorityClass, sched_getaffinity, getpriority.
Read == /\ call.at = "read" /\ (call.op = "set" => call.arg # NoValue)
        /\ LET there == Acted # 0 /\ Acted = names IN
           \/ ~there /\ Returns(Lost, NoValue)
           \/ there /\ call.op = "get" /\ Returns("ok", setting[Acted])
           \/ /\ there /\ call.op = "set" /\ UNCHANGED result
              /\ call' = [call EXCEPT !.at = "write", !.target = Acted, !.prev = setting[Acted]]
        /\ UNCHANGED <<World, calls, before, disturbed>>

Changes(object, value) == setting' = [setting EXCEPT ![object] = value]

Write(granted) ==
  /\ call.at = "write"
  /\ IF granted /\ Acted # 0 /\ Acted = names
     THEN Returns("ok", call.prev) /\ Changes(Acted, call.arg)
     ELSE Returns("IoError", NoValue) /\ UNCHANGED setting
  /\ UNCHANGED <<api, names, next, confined, calls, before, disturbed>>

\* SetThreadAffinityMask, SetThreadIdealProcessorEx: sets and tells the value replaced.  A get sets
\* to every core, which a process that may not use them refuses.
Swap(granted) ==
  LET arg == IF call.op = "get" THEN Wide ELSE call.arg IN
  /\ call.at = "swap"
  /\ IF granted /\ call.target = names /\ (arg = Wide => ~confined)
     THEN /\ Changes(call.target, arg)
          /\ IF call.op = "set" THEN Returns("ok", setting[call.target])
             ELSE call' = [call EXCEPT !.at = "back", !.prev = setting[call.target]] /\ UNCHANGED result
     ELSE Returns("IoError", NoValue) /\ UNCHANGED setting
  /\ UNCHANGED <<api, names, next, confined, calls, before, disturbed>>

LeftWide == setting[call.target]     \* mutant: a get forgets the second set

\* The second set of a get puts back what the first one replaced.  It may be refused, or the thread
\* may be gone; nobody looks, and the get returns what it read.
Restored == call.prev

SwapBack(granted) ==
  /\ call.at = "back" /\ Returns("ok", call.prev)
  /\ IF granted /\ call.target = names
     THEN Changes(call.target, Restored) /\ UNCHANGED before
     ELSE before' = [before EXCEPT !.left = TRUE] /\ UNCHANGED setting
  /\ UNCHANGED <<api, names, next, confined, calls, disturbed>>

----------------------------------------------------------------------------
(* The others. *)

OtherWrites(v) == /\ names # 0 /\ v # setting[names] /\ Changes(names, v) /\ disturbed' = TRUE
                  /\ UNCHANGED <<api, names, next, confined, call, calls, result, before>>

Exits == /\ names # 0 /\ names' = 0
         /\ UNCHANGED <<api, next, setting, confined, call, calls, result, before, disturbed>>

\* Another process or thread gets the id, unless an open handle keeps it.
Reused == /\ names = 0 /\ next < MaxObjects /\ (api # "id" => call.target = 0) /\ names' = next + 1 /\ next' = next + 1
          /\ UNCHANGED <<api, setting, confined, call, calls, result, before, disturbed>>

Next == \/ \E op \in {"get", "set"}, arg \in Values \cup {NoValue}, undo \in BOOLEAN : Begin(op, arg, undo)
        \/ Rejected \/ \E granted \in BOOLEAN : Open(granted) \/ Write(granted) \/ Swap(granted) \/ SwapBack(granted)
        \/ Read \/ Exits \/ Reused \/ \E v \in Values : OtherWrites(v)

Spec == Init /\ [][Next]_vars

----------------------------------------------------------------------------
(* Correctness. *)

\* "returns the previous mask on success so the caller can trivially revert the change"
\* (HardwareTopology.hpp:234): once a change of a living target is undone and nobody else wrote,
\* the target has the value it had before.  A call that only reads returns the value there was, and
\* leaves it, or leaves the thread wide where its own set-back was refused, and nothing else.
CallsCanBeUndone ==
  call.at = "idle" /\ result.code = "ok" /\ ~disturbed /\ before.object = names /\ names # 0
    => /\ before.undo => setting[names] = before.value
       /\ result.op = "get" =>
            /\ result.prev = before.value
            /\ setting[names] = before.value \/ (before.left /\ setting[names] = Wide)

\* "get_thread_affinity: reads the current mask without modifying it." (HardwareTopology.hpp:283)
GetOnlyReads == [][call.op = "get" /\ call.at # "idle" => setting' = setting \/ disturbed']_vars
=============================================================================
