--------------------------- MODULE PresentSurface ---------------------------
(***************************************************************************)
(* The displayed plane of the present pillar in its OwnWindow style: the    *)
(* consumer's thread creates the surface, submits frames to it and destroys *)
(* it; a watchdog thread hides the plane when the consumer no longer comes  *)
(* by; the user moves the foreground between the game, other programs and   *)
(* the plane.  A unit of time is the watchdog's sleep of 50 ms.             *)
(***************************************************************************)
EXTENDS Integers

CONSTANTS
  Stall,        \* kWatchdogStallMs
  Oldest,       \* bound: ages are not counted further
  MaxSwitches,  \* bound: changes of the foreground
  MaxLosses     \* bound: presents the driver does not accept

PresentAssumption ==
  /\ Stall \in Nat /\ Oldest \in Nat /\ Oldest > Stall + 2
  /\ MaxSwitches \in Nat /\ MaxLosses \in Nat

VARIABLES
  pc,          \* where the consumer's thread is
  made,        \* what create() has made and destroy() has not released
  lastGasp,    \* g_own_hwnd names the window
  shown,       \* the plane is visible and topmost
  yielded,     \* impl.yielded
  fresh,       \* heartbeat_ms has changed since the watchdog looked
  beaten,      \* heartbeat_ms is not 0
  wdRun,       \* wd_run
  wpc,         \* where the watchdog is
  wdue,        \* what is left of its sleep
  age,         \* age of last_change_at
  still,       \* history: time since the consumer's last step
  foreground, switches, losses,
  lost         \* device_lost_flag

windowVars   == <<made, lastGasp, shown>>
watchdogVars == <<wdRun, wpc, wdue, age>>
vars == <<pc, windowVars, yielded, fresh, beaten, watchdogVars, still, foreground, switches,
          losses, lost>>

(* What create() makes, in its order.  The back buffer is last before the   *)
(* watchdog; no soft step (the waitable object, the colour space, the       *)
(* capture affinity) can fail it.                                           *)
Part == {"class", "window", "device", "swapchain", "backbuffer"}

Before(p) ==
  CASE p = "class" -> {}
    [] p = "window" -> {"class"}
    [] p = "device" -> {"class", "window"}
    [] p = "swapchain" -> {"class", "window", "device"}
    [] p = "backbuffer" -> {"class", "window", "device", "swapchain"}

TypeOK ==
  /\ pc \in {"none", "create", "idle", "beat", "hide", "show", "import", "present",
             "unwatch", "drop"}
  /\ made \subseteq Part
  /\ {lastGasp, shown, yielded, fresh, beaten, wdRun, lost} \subseteq BOOLEAN
  /\ wpc \in {"off", "sleep", "look", "decide", "act"} /\ wdue \in 0..1
  /\ age \in 0..Oldest /\ still \in 0..Oldest
  /\ foreground \in {"game", "plane", "other"}
  /\ switches \in 0..MaxSwitches /\ losses \in 0..MaxLosses

Init ==
  /\ pc = "none" /\ made = {} /\ lastGasp = FALSE /\ shown = FALSE
  /\ yielded = FALSE /\ fresh = FALSE /\ beaten = FALSE
  /\ wdRun = FALSE /\ wpc = "off" /\ wdue = 0 /\ age = 0 /\ still = 0
  /\ foreground = "game" /\ switches = 0 /\ losses = 0 /\ lost = FALSE

-----------------------------------------------------------------------------
(* The desktop.                                                             *)

Switch ==
  /\ switches < MaxSwitches /\ switches' = switches + 1
  /\ foreground' \in {"game", "plane", "other"} \ {foreground}
  /\ UNCHANGED <<pc, windowVars, yielded, fresh, beaten, watchdogVars, still, losses, lost>>

Older(t) == IF t < Oldest THEN t + 1 ELSE t

(* Time passes; the watchdog is never held up for longer than its sleep.    *)
Tick ==
  /\ wpc \in {"off", "sleep"} /\ (wpc = "sleep" => wdue > 0)
  /\ wdue' = IF wpc = "sleep" THEN wdue - 1 ELSE wdue
  /\ age' = Older(age) /\ still' = Older(still)
  /\ UNCHANGED <<pc, windowVars, yielded, fresh, beaten, wdRun, wpc, foreground, switches,
                 losses, lost>>

-----------------------------------------------------------------------------
(* The consumer's thread.                                                   *)

Step(from, to) == pc = from /\ pc' = to /\ still' = 0

Rest == <<foreground, switches>>

CreateBegins ==
  /\ Step("none", "create")
  /\ lost' = FALSE /\ UNCHANGED <<windowVars, yielded, fresh, beaten, watchdogVars, Rest, losses>>

(* One call of create() succeeds; the window is shown as soon as it exists. *)
CreatePart(p) ==
  /\ Step("create", "create")
  /\ p \notin made /\ Before(p) = made
  /\ made' = made \cup {p}
  /\ shown' = (shown \/ p = "window")
  /\ UNCHANGED <<lastGasp, yielded, fresh, beaten, watchdogVars, Rest, losses, lost>>

(* ... or fails: bail() destroys what there is.                             *)
CreateFails ==
  /\ Step("create", "unwatch") /\ made # Part
  /\ UNCHANGED <<windowVars, yielded, fresh, beaten, watchdogVars, Rest, losses, lost>>

(* The last gasp is published and the watchdog started.                     *)
CreateEnds ==
  /\ Step("create", "idle") /\ made = Part
  /\ lastGasp' = TRUE
  /\ yielded' = FALSE /\ beaten' = FALSE /\ fresh' = TRUE
  /\ wdRun' = TRUE /\ wpc' = "sleep" /\ wdue' = 1 /\ age' = 0
  /\ UNCHANGED <<made, shown, Rest, losses, lost>>

(* submit(): the messages are drained and the waitable object waited for,   *)
(* then the heartbeat is stored.                                            *)
Beat ==
  /\ Step("idle", "beat")
  /\ fresh' = TRUE /\ beaten' = TRUE
  /\ UNCHANGED <<windowVars, yielded, watchdogVars, Rest, losses, lost>>

WantYield == foreground = "other"

(* mutant: the flag is not cleared when the plane is shown again.           *)
PollKeepsYielded ==
  /\ \/ Step("beat", "hide") /\ WantYield /\ ~yielded /\ yielded' = TRUE
     \/ Step("beat", "show") /\ ~WantYield /\ yielded /\ yielded' = yielded
     \/ Step("beat", "idle") /\ WantYield /\ yielded /\ UNCHANGED yielded
     \/ Step("beat", "import") /\ ~WantYield /\ ~yielded /\ UNCHANGED yielded
  /\ UNCHANGED <<windowVars, fresh, beaten, watchdogVars, Rest, losses, lost>>

(* The foreground decides: the flag changes before the plane does.          *)
PollForeground ==
  /\ \/ Step("beat", "hide") /\ WantYield /\ ~yielded /\ yielded' = TRUE
     \/ Step("beat", "show") /\ ~WantYield /\ yielded /\ yielded' = FALSE
     \/ Step("beat", "idle") /\ WantYield /\ yielded /\ UNCHANGED yielded
     \/ Step("beat", "import") /\ ~WantYield /\ ~yielded /\ UNCHANGED yielded
  /\ UNCHANGED <<windowVars, fresh, beaten, watchdogVars, Rest, losses, lost>>

YieldPlane ==
  /\ Step("hide", "idle") /\ shown' = FALSE
  /\ UNCHANGED <<made, lastGasp, yielded, fresh, beaten, watchdogVars, Rest, losses, lost>>

ReassertPlane ==
  /\ Step("show", "import") /\ shown' = TRUE
  /\ UNCHANGED <<made, lastGasp, yielded, fresh, beaten, watchdogVars, Rest, losses, lost>>

(* The shared texture cannot be imported, or the producer keeps its mutex:  *)
(* the frame is skipped.                                                    *)
ImportFrame ==
  /\ Step("import", "present") \/ Step("import", "idle")
  /\ UNCHANGED <<windowVars, yielded, fresh, beaten, watchdogVars, Rest, losses, lost>>

(* The copy and the present, and what the driver says of it.  (A copy into  *)
(* a back buffer that is gone is left out: nothing in the code looks.)       *)
Presented ==
  /\ Step("present", "idle")
  /\ UNCHANGED <<windowVars, yielded, fresh, beaten, watchdogVars, Rest, losses, lost>>

(* A mode change or an occlusion resizes the swapchain; when that fails the *)
(* back buffer is gone.                                                     *)
PresentRecovers ==
  /\ Step("present", "idle")
  /\ losses < MaxLosses /\ losses' = losses + 1
  /\ made' \in {Part, Part \ {"backbuffer"}}
  /\ UNCHANGED <<lastGasp, shown, yielded, fresh, beaten, watchdogVars, Rest, lost>>

(* The device is removed: the consumer is told to shut down.                *)
PresentTerminal ==
  /\ Step("present", "unwatch")
  /\ losses < MaxLosses /\ losses' = losses + 1
  /\ lost' = TRUE
  /\ UNCHANGED <<windowVars, yielded, fresh, beaten, watchdogVars, Rest>>

PresentFails ==
  /\ Step("present", "idle")
  /\ losses < MaxLosses /\ losses' = losses + 1
  /\ UNCHANGED <<windowVars, yielded, fresh, beaten, watchdogVars, Rest, lost>>

(* The consumer is done between two frames, or after a loss.                *)
DestroyBegins ==
  /\ Step("idle", "unwatch") /\ wdRun' = FALSE
  /\ UNCHANGED <<windowVars, yielded, fresh, beaten, wpc, wdue, age, Rest, losses, lost>>

AfterLoss ==
  /\ Step("unwatch", "unwatch") /\ wdRun /\ wdRun' = FALSE
  /\ UNCHANGED <<windowVars, yielded, fresh, beaten, wpc, wdue, age, Rest, losses, lost>>

(* mutant: the thread is told to stop and not waited for.                   *)
JoinNobody ==
  /\ Step("unwatch", "drop") /\ ~wdRun
  /\ lastGasp' = FALSE /\ shown' = FALSE
  /\ UNCHANGED <<made, yielded, fresh, beaten, watchdogVars, Rest, losses, lost>>

(* destroy(): the watchdog is joined and the plane is hidden ...            *)
Join ==
  /\ Step("unwatch", "drop") /\ ~wdRun /\ wpc = "off"
  /\ lastGasp' = FALSE /\ shown' = FALSE
  /\ UNCHANGED <<made, yielded, fresh, beaten, watchdogVars, Rest, losses, lost>>

(* ... before the device objects, the window and its class go.              *)
Drop ==
  /\ Step("drop", "none") /\ made' = {}
  /\ UNCHANGED <<lastGasp, shown, yielded, fresh, beaten, watchdogVars, Rest, losses, lost>>

Consumer ==
  \/ CreateBegins \/ (\E p \in Part : CreatePart(p)) \/ CreateFails \/ CreateEnds
  \/ Beat \/ PollForeground \/ YieldPlane \/ ReassertPlane \/ ImportFrame
  \/ Presented \/ PresentRecovers \/ PresentTerminal \/ PresentFails
  \/ DestroyBegins \/ AfterLoss \/ Join \/ Drop

-----------------------------------------------------------------------------
(* The watchdog's thread.                                                   *)

Others == <<pc, made, lastGasp, yielded, beaten, wdRun, still, foreground, switches, losses, lost>>

(* It wakes; a plane that has yielded needs no guard.                       *)
Wake ==
  /\ wpc = "sleep" /\ wdue = 0
  /\ \/ yielded /\ wpc' = "look"
     \/ ~yielded /\ wpc' = "decide"
  /\ UNCHANGED <<Others, shown, fresh, wdue, age>>

Rearm == wpc' = "look" /\ age' = 0

(* mutant: the count restarts whatever the heartbeat says.                  *)
DecideEarly ==
  /\ wpc = "decide"
  /\ \/ Rearm
     \/ ~fresh /\ beaten /\ age > Stall /\ wpc' = "act" /\ UNCHANGED age
  /\ fresh' = FALSE
  /\ UNCHANGED <<Others, shown, wdue>>

(* A heartbeat unlike the last one restarts the count.                      *)
Decide ==
  /\ wpc = "decide"
  /\ \/ fresh /\ Rearm
     \/ ~fresh /\ beaten /\ age > Stall /\ wpc' = "act" /\ UNCHANGED age
     \/ ~fresh /\ ~(beaten /\ age > Stall) /\ wpc' = "look" /\ UNCHANGED age
  /\ fresh' = FALSE
  /\ UNCHANGED <<Others, shown, wdue>>

(* The plane is hidden; the foreground poll's flag stays as it is.          *)
ForceHide ==
  /\ wpc = "act" /\ Rearm
  /\ shown' = FALSE
  /\ UNCHANGED <<Others, fresh, wdue>>

(* The head of its loop.                                                    *)
Look ==
  /\ wpc = "look"
  /\ \/ wdRun /\ wpc' = "sleep" /\ wdue' = 1
     \/ ~wdRun /\ wpc' = "off" /\ UNCHANGED wdue
  /\ UNCHANGED <<Others, shown, fresh, age>>

Watchdog == Wake \/ Decide \/ ForceHide \/ Look

Next == Switch \/ Tick \/ Consumer \/ Watchdog

Spec == Init /\ [][Next]_vars

-----------------------------------------------------------------------------
(* However the surface goes (a failed create(), a lost device, the end of   *)
(* the session), neither the watchdog nor the crash handler is left with a  *)
(* window that is destroyed, nor a device object without its window.        *)
WindowOutlivesItsUsers ==
  /\ (wpc # "off" \/ lastGasp) => "window" \in made
  /\ shown => "window" \in made

(* No stale picture holds the panel: a consumer that has submitted once and *)
(* then takes no step loses the plane within the stall time and two sleeps  *)
(* (the promise of OA-10), unless it stopped between the store of yielded   *)
(* and the hiding itself, where the watchdog takes the plane for hidden.    *)
StalledPlaneIsGone ==
  still > Stall + 2 /\ beaten /\ wpc = "sleep" /\ pc # "hide" => ~shown

(* The plane yields to the other programs: it is not shown between two      *)
(* submits when the last one found another program in front, whatever the   *)
(* watchdog did in between.                                                 *)
YieldedIsHidden == yielded /\ pc \in {"idle", "beat"} => ~shown
=============================================================================
