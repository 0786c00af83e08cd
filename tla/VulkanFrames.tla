---------------------------- MODULE VulkanFrames ----------------------------
(***************************************************************************)
(* The frame loop of the UI under the Vulkan backend: UIThreadNode polls    *)
(* the window, RenderNode resizes and draws, VulkanBackend and Swapchain    *)
(* keep two frames in flight.  All of it runs on one thread; the window     *)
(* changes and the GPU completes its work at any moment.                    *)
(***************************************************************************)
EXTENDS Integers

CONSTANTS
  Sizes,         \* framebuffer sizes; 0 is a minimised window
  MaxChanges,    \* bound: changes of the window
  MaxRefusals,   \* bound: refusals of the driver
  None

FramesAssumption == 0 \in Sizes /\ MaxChanges \in Nat /\ MaxRefusals \in Nat

VARIABLES
  win, changes,       \* the window's size now
  seen,               \* the size the window library has reported
  mail,               \* the WindowState in the ring to RenderNode
  cached,             \* cached_ws_
  pc,                 \* where the thread is
  current,            \* current_frame_
  fence,              \* in_flight_[]
  uses,               \* the swapchain resources the commands of a frame use, while the GPU runs them
  built,              \* the size the swapchain was created for; None once it is retired
  made,               \* how often its views and framebuffers were made anew
  whole,              \* they are all there
  acquired,           \* frame_acquired_
  refusals,
  missed              \* history: an acquire, a submission or a recreation failed

vars == <<win, changes, seen, mail, cached, pc, current, fence, uses, built, made, whole, acquired,
          refusals, missed>>

loopVars == <<seen, mail, cached>>
gpuVars  == <<current, fence, uses, built, made, whole>>
Frame    == 0..1                       \* kMaxFramesInFlight

TypeOK ==
  /\ win \in Sizes /\ changes \in 0..MaxChanges /\ seen \in Sizes
  /\ mail \in Sizes \cup {None} /\ cached \in Sizes \cup {None}
  /\ pc \in {"poll", "window", "fence", "acquire", "draw", "present"}
  /\ current \in Frame /\ fence \in [Frame -> {"signaled", "unsignaled", "pending"}]
  /\ uses \in [Frame -> Nat] /\ built \in Sizes \cup {None} /\ made \in Nat \ {0}
  /\ whole \in BOOLEAN /\ acquired \in BOOLEAN /\ refusals \in 0..MaxRefusals /\ missed \in BOOLEAN

(* init() makes the swapchain for at least one pixel.                       *)
Init ==
  /\ win \in Sizes \ {0} /\ changes = 0 /\ seen = win
  /\ mail = win /\ cached = None       \* the first tick publishes the size at hand
  /\ pc = "window" /\ current = 0
  /\ fence = [f \in Frame |-> "signaled"] /\ uses = [f \in Frame |-> 0]
  /\ built = win /\ made = 1 /\ whole = TRUE
  /\ acquired = FALSE /\ refusals = 0 /\ missed = FALSE

-----------------------------------------------------------------------------
(* The window system and the GPU.                                           *)

WindowChanges ==
  /\ changes < MaxChanges /\ changes' = changes + 1
  /\ win' \in Sizes \ {win}
  /\ UNCHANGED <<loopVars, pc, gpuVars, acquired, refusals, missed>>

Complete(f) ==
  /\ fence[f] = "pending"
  /\ fence' = [fence EXCEPT ![f] = "signaled"]
  /\ uses' = [uses EXCEPT ![f] = 0]
  /\ UNCHANGED <<win, changes, loopVars, pc, current, built, made, whole, acquired, refusals, missed>>

-----------------------------------------------------------------------------
(* The thread.                                                              *)

Idle == \A f \in Frame : fence[f] # "pending"

(* mutant: the old resources go without a wait.                             *)
RecreateAtOnce(r) ==
  /\ built' = win /\ made' = made + 1 /\ whole' = TRUE
  /\ refusals' = r
  /\ UNCHANGED <<current, fence, uses>>

(* Swapchain::recreate: it waits for the device and destroys what it had.    *)
(* Its failure, which the callers ignore, leaves it without framebuffers,    *)
(* and with the swapchain there was, that one retired, or a new one.         *)
Recreate(r) ==
  /\ Idle
  /\ made' = made + 1
  /\ \/ whole' = TRUE /\ built' = win /\ refusals' = r
     \/ /\ whole' = FALSE /\ built' \in {built, None, win}
        /\ r < MaxRefusals /\ refusals' = r + 1
  /\ UNCHANGED <<current, fence, uses>>

(* UIThreadNode::tick: the callback of a new size buffers one WindowState.  *)
Poll ==
  /\ pc = "poll" /\ pc' = "window"
  /\ seen' = win
  /\ mail' = IF win # seen THEN win ELSE mail
  /\ UNCHANGED <<win, changes, cached, gpuVars, acquired, refusals, missed>>

(* RenderNode::tick resizes for a state unlike the one before; the backend  *)
(* does nothing for a window without pixels.                                *)
ReceiveWindow ==
  /\ pc = "window" /\ pc' = "fence"
  /\ IF mail # None /\ mail # cached /\ mail # 0
     THEN Recreate(refusals) ELSE UNCHANGED <<gpuVars, refusals>>
  /\ missed' = (missed \/ ~whole')
  /\ cached' = IF mail = None THEN cached ELSE mail
  /\ mail' = None
  /\ UNCHANGED <<win, changes, seen, acquired>>

(* mutant: the frame's commands are recorded again without a wait.          *)
FenceUnwaited ==
  /\ pc = "fence" /\ pc' = "acquire"
  /\ fence' = [fence EXCEPT ![current] = "unsignaled"]
  /\ UNCHANGED <<win, changes, loopVars, current, uses, built, made, whole, acquired, refusals, missed>>

(* acquire_next_image waits for the frame's fence and resets it ...         *)
WaitFence ==
  /\ pc = "fence" /\ pc' = "acquire"
  /\ fence[current] = "signaled"
  /\ fence' = [fence EXCEPT ![current] = "unsignaled"]
  /\ UNCHANGED <<win, changes, loopVars, current, uses, built, made, whole, acquired, refusals, missed>>

(* ... before it asks for an image, whether or not there is a framebuffer   *)
(* for it.                                                                  *)
Acquire ==
  /\ pc = "acquire" /\ pc' = "draw"
  /\ built = win
  /\ acquired' = TRUE
  /\ UNCHANGED <<win, changes, loopVars, gpuVars, refusals, missed>>

(* Out of date, suboptimal or refused: new_frame makes the swapchain again  *)
(* unless the window has no pixels.                                         *)
AcquireFails ==
  /\ pc = "acquire" /\ pc' = "draw"
  /\ \E r \in {refusals, refusals + 1} :
       /\ r = refusals => built # win
       /\ r <= MaxRefusals
       /\ IF win # 0 THEN Recreate(r) ELSE refusals' = r /\ UNCHANGED gpuVars
  /\ acquired' = FALSE /\ missed' = TRUE
  /\ UNCHANGED <<win, changes, loopVars>>

(* The widgets are drawn whether or not there is a frame; end_frame() and   *)
(* present() return at once when there is none.                             *)
Draw ==
  /\ pc = "draw" /\ pc' = IF acquired THEN "present" ELSE "poll"
  /\ UNCHANGED <<win, changes, loopVars, gpuVars, acquired, refusals, missed>>

(* mutant: the fence of the frame is not given to the submission.           *)
SubmittedUnfenced == UNCHANGED <<fence, uses, built, made, whole>>

Submitted ==
  /\ fence' = [fence EXCEPT ![current] = "pending"]
  /\ uses' = [uses EXCEPT ![current] = made]
  /\ UNCHANGED <<built, made, whole>>

Present ==
  /\ pc = "present" /\ pc' = "poll"
  /\ Submitted
  /\ current' = 1 - current
  /\ acquired' = FALSE
  /\ UNCHANGED <<win, changes, loopVars, refusals, missed>>

(* The image is submitted and not presented: the frame does not advance.    *)
PresentFails ==
  /\ pc = "present" /\ pc' = "poll"
  /\ refusals < MaxRefusals /\ refusals' = refusals + 1
  /\ Submitted
  /\ current' = current /\ acquired' = FALSE
  /\ UNCHANGED <<win, changes, loopVars, missed>>

SubmitFails ==
  /\ pc = "present" /\ pc' = "poll"
  /\ refusals < MaxRefusals /\ refusals' = refusals + 1
  /\ acquired' = FALSE /\ missed' = TRUE
  /\ UNCHANGED <<win, changes, loopVars, gpuVars>>

Thread ==
  \/ Poll \/ ReceiveWindow \/ WaitFence \/ Acquire \/ AcquireFails \/ Draw
  \/ Present \/ PresentFails \/ SubmitFails

Next == WindowChanges \/ Thread \/ \E f \in Frame : Complete(f)

Spec == Init /\ [][Next]_vars

(* The thread of the loop runs, and the GPU completes what it was given.    *)
FairSpec == Spec /\ WF_vars(Thread) /\ \A f \in Frame : WF_vars(Complete(f))

-----------------------------------------------------------------------------
(* The framebuffers the GPU draws into are never destroyed under it,        *)
(* whether the resize came through the ring or through a failed acquire.    *)
FramebuffersOutlive == \A f \in Frame : uses[f] \in {0, made}

(* The command buffer being reset and recorded is not one the GPU runs.     *)
RecordsAnIdleFrame == acquired => uses[current] = 0

(* As long as no acquire, submission or recreation fails, the loop goes on   *)
(* presenting: no resize that arrives in time, no failed present, stops it. *)
FramesGoOn == []<>(pc = "present") \/ <>missed

(* "Recrear el swapchain tras un resize o VK_ERROR_OUT_OF_DATE_KHR"         *)
(* (Swapchain.hpp:58): the loop goes on after an acquire that found the     *)
(* swapchain out of date, so it never waits for a fence nobody will signal. *)
NeverWaitsForNothing == pc = "fence" => fence[current] # "unsignaled"

(* "Recrear con tamaño actual" (VulkanBackend.cpp:216): what is drawn has a  *)
(* framebuffer to be drawn into.                                            *)
DrawsIntoFramebuffers == acquired => whole
=============================================================================
