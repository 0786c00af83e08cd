----------------------------- MODULE GpuObjects -----------------------------
(***************************************************************************)
(* The graphics objects each class of the render pillar creates, and what   *)
(* becomes of them when an object cannot be created, when the class is shut *)
(* down, initialised again or resized.  A call is a program: a sequence of  *)
(* operations on the handles of the class, carried out one at a time; the   *)
(* driver may refuse any creation.                                          *)
(***************************************************************************)
EXTENDS Integers, Sequences, SequencesExt, TLC

CONSTANTS
  Classes,     \* the classes of this run
  Levels,      \* depths of the pyramid (n_levels_ of OpticalFlowPipeline)
  PoolSlots    \* kPoolSize of FramePool

VARIABLES
  cls,         \* the class
  option,      \* the arguments of its next init()
  todo,        \* what is left of the call in progress
  undo,        \* what the call does when a creation fails, and when one fails then
  alive,       \* the objects that exist and that a handle names
  held,        \* the member handles that are not null
  lost,        \* objects that exist and that nothing names any more
  initialized,
  degraded,    \* a resize failed since the last init()
  spent,       \* shutdown_done_ of CompositeBackend
  busy         \* the GPU works on commands that use the objects

vars == <<cls, option, todo, undo, alive, held, lost, initialized, degraded, spent, busy>>

Options == [emit : BOOLEAN, affine : BOOLEAN, fg : BOOLEAN, levels : Levels]

Op(what, h)  == [op |-> what, obj |-> h]
Make(hs)     == [i \in 1..Len(hs) |-> Op("make", hs[i])]
Drop(hs)     == [i \in 1..Len(hs) |-> Op("drop", hs[i])]
Try(h)       == <<Op("try", h)>>       \* a creation the class can do without
Check(h)     == <<Op("check", h)>>     \* the driver may find the object incomplete
Renew(h)     == <<Op("renew", h)>>     \* the old object goes once the new one exists
Forget(h)    == <<Op("forget", h)>>    \* the only name of the object goes out of scope
NoWait       == <<>>                   \* mutant: vkDeviceWaitIdle() is not called
WaitIdle     == <<Op("wait", "gpu")>>
Up           == <<Op("up", "flag")>>
Down         == <<Op("down", "flag")>>
Each(n, f(_)) == FlattenSeq([i \in 1..n |-> f(i)])
When(b, s)   == IF b THEN s ELSE <<>>

-----------------------------------------------------------------------------
(* OpticalFlowPipeline: images, pipelines, descriptors.                     *)

Image(x)    == <<<<x, "image">>, <<x, "memory">>, <<x, "view">>>>
NoImage(x)  == <<<<x, "view">>, <<x, "image">>, <<x, "memory">>>>
Kernel(x)   == <<<<x, "set layout">>, <<x, "layout">>, <<x, "pipeline">>>>
NoKernel(x) == <<<<x, "pipeline">>, <<x, "layout">>, <<x, "set layout">>>>

PyramidLevel(i) == Image("A" \o ToString(i)) \o Image("B" \o ToString(i)) \o Image("MV" \o ToString(i))
Pyramid(n)      == Each(n - 1, PyramidLevel) \o Image("prior")

NoPyramidLevel(i) == NoImage("A" \o ToString(i)) \o NoImage("B" \o ToString(i)) \o NoImage("MV" \o ToString(i))

MvImage         == Image("mv")
SadField        == Image("sad")
CandImage       == Image("cand")
CandPlaceholder == Image("placeholder")
AffineImage     == Image("affine field")
Downsample      == Kernel("down")
BlockMatch      == Kernel("match")
BlockMatchFg    == <<<<"match", "fg pipeline">>>>
WarpKernel      == Kernel("warp")
AffineKernel    == Kernel("affine")
DescriptorSets  == <<<<"flow", "pool">>>>

FlowCreates(o) ==
  Make(<<<<"flow", "sampler">>>> \o MvImage \o SadField \o CandPlaceholder
       \o When(o.emit, CandImage) \o When(o.affine, AffineImage)
       \o Pyramid(o.levels)
       \o Downsample \o BlockMatch \o When(o.fg /\ ~o.emit, BlockMatchFg)
       \o WarpKernel \o When(o.affine, AffineKernel) \o DescriptorSets)

(* mutant: shutdown() forgets the field of the runners-up. *)
FlowDropsButCand ==
  Drop(<<<<"flow", "pool">>>> \o NoKernel("affine") \o NoKernel("warp")
       \o <<<<"match", "fg pipeline">>>> \o NoKernel("match") \o NoKernel("down")
       \o <<<<"flow", "sampler">>>> \o NoImage("mv") \o NoImage("sad") \o NoImage("placeholder")
       \o NoImage("affine field") \o NoPyramidLevel(1) \o NoImage("prior"))

FlowDrops ==
  Drop(<<<<"flow", "pool">>>> \o NoKernel("affine") \o NoKernel("warp")
       \o <<<<"match", "fg pipeline">>>> \o NoKernel("match") \o NoKernel("down")
       \o <<<<"flow", "sampler">>>>
       \o NoImage("mv") \o NoImage("sad") \o NoImage("cand") \o NoImage("placeholder")
       \o NoImage("affine field")
       \o Each((CHOOSE n \in Levels : \A k \in Levels : k <= n) - 1, NoPyramidLevel)
       \o NoImage("prior"))

(* BlendPipeline, ExternalImage, FramePool, OffscreenScene.                 *)

BlendCreates == Make(<<<<"blend", "sampler">>>> \o Kernel("blend") \o <<<<"blend", "pool">>>>)
BlendDrops   == Drop(<<<<"blend", "pool">>>> \o NoKernel("blend") \o <<<<"blend", "sampler">>>>)

ExternalCreates == Make(Image("external"))
ExternalDrops   == Drop(NoImage("external"))

SlotImage(i)   == Image("slot" \o ToString(i))
NoSlotImage(i) == NoImage("slot" \o ToString(i))
FrameCreates   == Make(Each(PoolSlots, SlotImage))
FrameDrops     == Drop(Each(PoolSlots, NoSlotImage))

SceneCreates == Make(<<<<"scene", "render pass">>, <<"scene", "framebuffer">>>>)
SceneDrops   == Drop(<<<<"scene", "framebuffer">>, <<"scene", "render pass">>>>)

(* FSR1Pass: a program object per pass, the texture and its framebuffer,    *)
(* the quad.  The framebuffer can turn out incomplete.                      *)

ShaderCreates == Make(<<<<"easu", "program">>, <<"rcas", "program">>>>)
TargetCreates == Make(<<<<"easu", "texture">>, <<"easu", "fbo">>>>) \o Check(<<"easu", "fbo">>)
QuadCreates   == Make(<<<<"quad", "vao">>, <<"quad", "vbo">>>>)
ShaderDrops   == Drop(<<<<"easu", "program">>, <<"rcas", "program">>>>)
TargetDrops   == Drop(<<<<"easu", "fbo">>, <<"easu", "texture">>>>)
QuadDrops     == Drop(<<<<"quad", "vao">>, <<"quad", "vbo">>>>)
Fsr1Drops     == QuadDrops \o TargetDrops \o ShaderDrops
Fsr1Resize    == TargetDrops \o TargetCreates

(* FSR2Pass and FSR3Pass: the context of the SDK and its scratch memory,    *)
(* which no member names; FSR3 can do without the frame generator.          *)

Fsr2Creates == Make(<<<<"fsr", "block">>, <<"fsr", "scratch">>, <<"fsr", "context">>>>)
Fsr3Creates == Fsr2Creates \o Try(<<"fsr", "generator">>)
Fsr2Undo    == Drop(<<<<"fsr", "scratch">>, <<"fsr", "block">>>>)
Fsr2Drops   == Drop(<<<<"fsr", "context">>, <<"fsr", "block">>>>)
Fsr3Drops   == Drop(<<<<"fsr", "generator">>>>) \o Fsr2Drops

(* ExternalTexture: a memory object that imports the handle, and a texture  *)
(* on it; the driver may refuse the parameters of either.                   *)

TextureCreates ==
  Make(<<<<"gl", "memory object">>>>) \o Check(<<"gl", "memory object">>)
  \o Make(<<<<"gl", "texture">>>>) \o Check(<<"gl", "texture">>)
TextureDrops == Drop(<<<<"gl", "texture">>, <<"gl", "memory object">>>>)

(* OpenGL3Backend: the two halves of ImGui.  Texture2D: one name, which a   *)
(* later upload uses again.                                                 *)

GlCreates    == Make(<<<<"imgui", "glfw">>, <<"imgui", "gl">>>>)
GlDrops      == Drop(<<<<"imgui", "gl">>, <<"imgui", "glfw">>>>)
ImageCreates == Make(<<<<"2d", "texture">>>>) \o Check(<<"2d", "texture">>)
ImageDrops   == Drop(<<<<"2d", "texture">>>>)

(* VulkanBackend: the context, the swapchain, and the two halves of ImGui.  *)

Instance       == Make(<<<<"vk", "instance">>>>)
Messenger      == Try(<<"vk", "messenger">>)
Surface        == Make(<<<<"vk", "surface">>>>)
Device         == Make(<<<<"vk", "device">>>>)
DescriptorPool == Make(<<<<"vk", "pool">>>>)

ContextCreates == Instance \o Messenger \o Surface \o Device \o DescriptorPool
ContextDrops ==
  WaitIdle \o Drop(<<<<"vk", "pool">>, <<"vk", "device">>, <<"vk", "surface">>,
                     <<"vk", "messenger">>, <<"vk", "instance">>>>)

ViewDrops == Drop(<<<<"swap", "framebuffers">>, <<"swap", "views">>>>)
Chain        == <<<<"swap", "chain">>>>
Views        == <<<<"swap", "views">>>>
RenderPass   == <<<<"swap", "render pass">>>>
Framebuffers == <<<<"swap", "framebuffers">>>>
Commands     == <<<<"swap", "commands">>>>
SyncObjects  == <<<<"swap", "sync">>>>
SwapCreates  ==
  Make(Chain \o Views \o RenderPass \o Framebuffers \o Commands \o SyncObjects)

(* mutant: the render pass goes before the framebuffers made for it. *)
SwapDropsPassFirst ==
  WaitIdle \o Drop(<<<<"swap", "sync">>, <<"swap", "commands">>, <<"swap", "render pass">>>>)
  \o ViewDrops \o Drop(<<<<"swap", "chain">>>>)

SwapDrops ==
  WaitIdle \o Drop(<<<<"swap", "sync">>, <<"swap", "commands">>>>) \o ViewDrops
  \o Drop(<<<<"swap", "render pass">>, <<"swap", "chain">>>>)
SwapRecreate ==
  WaitIdle \o ViewDrops \o Renew(<<"swap", "chain">>)
  \o Make(Views \o Framebuffers)

BackendCreates ==
  ContextCreates \o SwapCreates \o Make(<<<<"imgui", "glfw">>, <<"imgui", "vulkan">>>>) \o WaitIdle
BackendDrops(up) ==
  WaitIdle \o When(up, Drop(<<<<"imgui", "vulkan">>, <<"imgui", "glfw">>>>) \o Down)
  \o SwapDrops \o ContextDrops
BackendUndo ==      \* init() closes the first half itself when the second is refused
  Drop(<<<<"imgui", "glfw">>>>) \o BackendDrops(FALSE)
BackendResize == WaitIdle \o SwapRecreate

(* CompositeBackend: the Vulkan backend or, when it cannot be had, the      *)
(* OpenGL one; its shutdown works once.                                     *)

SceneUp         == <<"vk", "device">> \in held
CompositeDrops  == IF SceneUp THEN BackendDrops(TRUE) ELSE GlDrops
CompositeUndo   == BackendUndo \o GlCreates \o Up
CompositeResize == When(SceneUp, BackendResize)

-----------------------------------------------------------------------------
(* The calls of a class.                                                    *)

Creates(o) ==
  CASE cls = "flow"     -> FlowCreates(o)
    [] cls = "blend"    -> BlendCreates
    [] cls = "external" -> ExternalCreates
    [] cls = "frames"   -> FrameCreates
    [] cls = "scene"    -> SceneCreates
    [] cls = "fsr1"     -> ShaderCreates \o TargetCreates \o QuadCreates
    [] cls = "fsr2"     -> Fsr2Creates
    [] cls = "fsr3"     -> Fsr3Creates
    [] cls = "texture"  -> TextureCreates
    [] cls = "gl"       -> GlCreates
    [] cls = "image"    -> ImageCreates
    [] cls = "backend"  -> BackendCreates
    [] cls = "composite" -> IF initialized /\ ~SceneUp THEN GlCreates ELSE BackendCreates

Drops ==
  CASE cls = "flow"     -> FlowDrops
    [] cls = "blend"    -> BlendDrops
    [] cls = "external" -> ExternalDrops
    [] cls = "frames"   -> FrameDrops
    [] cls = "scene"    -> SceneDrops
    [] cls = "fsr1"     -> Fsr1Drops
    [] cls = "fsr2"     -> Fsr2Drops
    [] cls = "fsr3"     -> Fsr3Drops
    [] cls = "texture"  -> TextureDrops
    [] cls = "gl"       -> GlDrops
    [] cls = "image"    -> ImageDrops
    [] cls = "backend"  -> BackendDrops(initialized)
    [] cls = "composite" -> CompositeDrops

Sdk     == cls \in {"fsr2", "fsr3"}
(* FSR2Pass and FSR3Pass keep the scratch memory in a local of init().      *)
Success == When(Sdk, Forget(<<"fsr", "scratch">>)) \o Up
Failure == CASE Sdk -> <<Fsr2Undo \o Down>>
             [] cls = "backend"   -> <<BackendUndo \o Down>>
             [] cls = "composite" -> <<CompositeUndo, GlDrops \o Down>>
             [] OTHER             -> <<Drops \o Down>>

Idle == todo = <<>>

(* The classes that answer a second init() with what they have, and those   *)
(* that shut down first.                                                    *)
KeepsWhatItHas == cls \in {"flow", "blend", "external", "scene", "texture", "image", "composite"}

InitCall ==
  /\ Idle /\ ~(initialized /\ KeepsWhatItHas) /\ ~spent
  /\ \E o \in Options :
       /\ option' = o
       /\ todo' = When(initialized, Drops \o Down) \o Creates(o) \o Success
  /\ undo' = Failure
  /\ degraded' = FALSE
  /\ UNCHANGED <<cls, alive, held, lost, initialized, spent, busy>>

(* Some return at once when nothing is up, the composite after the first.   *)
ShutdownCall ==
  /\ Idle /\ ~spent
  /\ Sdk \/ cls \in {"backend", "gl"} => initialized
  /\ todo' = Drops \o Down /\ undo' = <<>>
  /\ spent' = (cls = "composite")
  /\ UNCHANGED <<cls, option, alive, held, lost, initialized, degraded, busy>>

(* shutdown() of a composite that has been shut down.                       *)
ShutdownAgain == Idle /\ spent /\ UNCHANGED vars

Resizes ==
  CASE cls = "fsr1"    -> Fsr1Resize
    [] Sdk             -> Drops \o Down \o Creates(option) \o Success
    [] cls = "backend" -> BackendResize
    [] cls = "composite" -> CompositeResize
    [] OTHER           -> <<>>

(* FSR1Pass::resize and Swapchain::recreate clean nothing up when they fail. *)
ResizeCall ==
  /\ Idle /\ initialized /\ Resizes # <<>>
  /\ todo' = Resizes
  /\ undo' = IF Sdk THEN Failure ELSE <<<<Op("fail", "flag")>>>>
  /\ UNCHANGED <<cls, option, alive, held, lost, initialized, degraded, spent, busy>>

-----------------------------------------------------------------------------
(* One operation.                                                           *)

next == Head(todo)
h    == next.obj

(* An object made over a handle in use leaves the old one without a name.   *)
Creation ==
  /\ ~Idle /\ next.op \in {"make", "try"}
  /\ alive' = alive \cup {h} /\ held' = held \cup {h}
  /\ lost' = lost \cup (alive \cap {h})
  /\ todo' = Tail(todo)
  /\ UNCHANGED <<cls, option, undo, initialized, degraded, spent, busy>>

Renewal ==
  /\ ~Idle /\ next.op = "renew"
  /\ todo' = Tail(todo)
  /\ UNCHANGED <<cls, option, undo, alive, held, lost, initialized, degraded, spent, busy>>

Refusal ==
  /\ ~Idle /\ next.op \in {"make", "check", "renew"}
  /\ todo' = IF undo = <<>> THEN <<>> ELSE Head(undo)
  /\ undo' = IF undo = <<>> THEN <<>> ELSE Tail(undo)
  /\ UNCHANGED <<cls, option, alive, held, lost, initialized, degraded, spent, busy>>

(* mutant: a result of the driver is not looked at. *)
WithoutLooking ==
  /\ ~Idle /\ next.op \in {"make", "try", "check"}
  /\ todo' = Tail(todo)
  /\ UNCHANGED <<cls, option, undo, alive, held, lost, initialized, degraded, spent, busy>>

Without ==
  /\ ~Idle /\ next.op \in {"try", "check"}
  /\ todo' = Tail(todo)
  /\ UNCHANGED <<cls, option, undo, alive, held, lost, initialized, degraded, spent, busy>>

(* Every destruction asks for a handle that is not null, and clears it.     *)
Destruction ==
  /\ ~Idle /\ next.op = "drop"
  /\ alive' = alive \ (held \cap {h}) /\ held' = held \ {h}
  /\ todo' = Tail(todo)
  /\ UNCHANGED <<cls, option, undo, lost, initialized, degraded, spent, busy>>

Scope ==
  /\ ~Idle /\ next.op = "forget"
  /\ lost' = lost \cup (alive \cap {h})
  /\ alive' = alive \ {h} /\ held' = held \ {h}
  /\ todo' = Tail(todo)
  /\ UNCHANGED <<cls, option, undo, initialized, degraded, spent, busy>>

Flag ==
  /\ ~Idle /\ next.op \in {"up", "down", "fail", "wait"}
  /\ initialized' = CASE next.op = "up" -> TRUE [] next.op = "down" -> FALSE [] OTHER -> initialized
  /\ degraded' = (degraded \/ next.op = "fail")
  /\ busy' = (busy /\ next.op # "wait")
  /\ todo' = Tail(todo)
  /\ UNCHANGED <<cls, option, undo, alive, held, lost, spent>>

(* The owner of a class that does not wait for the GPU itself calls it only *)
(* when its commands have completed.                                        *)
Waits  == cls \in {"backend", "composite"} /\ SceneUp
Submit == /\ Idle /\ initialized /\ Waits /\ busy' = TRUE
          /\ UNCHANGED <<cls, option, todo, undo, alive, held, lost, initialized, degraded, spent>>
Done   == /\ busy /\ busy' = FALSE
          /\ UNCHANGED <<cls, option, todo, undo, alive, held, lost, initialized, degraded, spent>>

Init ==
  /\ cls \in Classes /\ option \in Options
  /\ todo = <<>> /\ undo = <<>>
  /\ alive = {} /\ held = {} /\ lost = {}
  /\ initialized = FALSE /\ degraded = FALSE /\ spent = FALSE /\ busy = FALSE

Next ==
  \/ InitCall \/ ShutdownCall \/ ShutdownAgain \/ ResizeCall
  \/ Creation \/ Renewal \/ Refusal \/ Without \/ Destruction \/ Scope \/ Flag
  \/ Submit \/ Done

Spec == Init /\ [][Next]_vars

-----------------------------------------------------------------------------
(* What an object is made from, and so must outlive it.                     *)
Parents(x) ==
  CASE x[2] = "view"                 -> {<<x[1], "image">>}
    [] x[2] = "layout"               -> {<<x[1], "set layout">>}
    [] x[2] \in {"pipeline", "fg pipeline"} -> {<<x[1], "layout">>}
    [] x = <<"scene", "framebuffer">> -> {<<"scene", "render pass">>}
    [] x = <<"fsr", "context">>      -> {<<"fsr", "block">>}
    [] x = <<"fsr", "generator">>    -> {<<"fsr", "context">>}
    [] x \in {<<"vk", "messenger">>, <<"vk", "surface">>, <<"vk", "device">>} -> {<<"vk", "instance">>}
    [] x = <<"vk", "pool">>          -> {<<"vk", "device">>}
    [] x = <<"swap", "chain">>       -> {<<"vk", "device">>, <<"vk", "surface">>}
    [] x = <<"swap", "views">>       -> {<<"swap", "chain">>}
    [] x = <<"swap", "framebuffers">> -> {<<"swap", "views">>, <<"swap", "render pass">>}
    [] x[1] = "swap"                 -> {<<"vk", "device">>}
    [] x = <<"imgui", "vulkan">>     -> {<<"vk", "device">>, <<"vk", "pool">>,
                                         <<"swap", "render pass">>, <<"imgui", "glfw">>}
    [] x = <<"imgui", "gl">>         -> {<<"imgui", "glfw">>}
    [] OTHER                         -> {}

(* What is left when a class is down, however it got there: nothing, except *)
(* the scratch memory of the FidelityFX passes, which init() allocates and  *)
(* nothing frees (FSR2Pass.cpp:67, FSR3Pass.cpp:62).                        *)
NothingIsLeft ==
  /\ Idle /\ ~initialized => alive = {}
  /\ lost \subseteq {<<"fsr", "scratch">>}

(* An object outlives what was made from it, through every failure of       *)
(* init(), every shutdown, resize and second init().                        *)
ParentsOutlive == \A x \in alive : Parents(x) \subseteq alive

(* The backend destroys nothing the GPU is still using: each of its paths   *)
(* to a destruction passes through a wait.                                  *)
NothingInUseIsDestroyed == busy /\ ~Idle => next.op \notin {"drop", "renew"}

(* An initialised class has every object its init() makes, unless a resize  *)
(* failed since: FSR1Pass and Swapchain go on without what they lost.       *)
UpIsWhole ==
  Idle /\ initialized /\ ~degraded =>
    LET made == Creates(option)
    IN \A i \in 1..Len(made) : made[i].op = "make" => made[i].obj \in alive \cup lost
=============================================================================
