------------------------------ MODULE Graphics ------------------------------
(***************************************************************************)
(* The graphics (src/graphics/graphics.cpp): there is one back end at a    *)
(* time, of Vulkan, of OpenGL or for terminals, and nothing of it is left  *)
(* when another is made.  Of Vulkan, a behavior has either what is in use  *)
(* when (FramesInFlight), or what is drawn (VulkanBackend).                *)
(***************************************************************************)
EXTENDS FramesInFlight, OpenGL

CONSTANTS
    DrawnCounts,    \* FrameCounts of the contents
    Replaced, SplitGlyphs, Ttys, Resets

VARIABLES backend, vk, term, tty

Contents == INSTANCE VulkanBackend WITH FrameCounts <- DrawnCounts
Characters == INSTANCE Terminal
ASSUME ContentsAssumption == Contents!VulkanAssumption
ASSUME Characters!TerminalAssumption

graphicsvars == <<vars, displayvars, glvars, vk, term, tty, backend>>

NoVulkan == vk = <<>>
NoTerminal == term = <<>> /\ tty = <<>>

InFlight ==
    /\ part = "flight"
    /\ size = (CHOOSE s \in Sizes : TRUE) /\ view = (CHOOSE v \in Views : TRUE)
    /\ lamps = Shadowed /\ fresh = FALSE
    /\ pictures = [t \in {"tex", "font"} |-> Undefined]
    /\ objects = [o \in Objects |-> 0]

GraphicsInit ==
    /\ Init
    /\ \/ backend = "Vulkan" /\ NoOpenGL /\ NoVulkan /\ NoTerminal /\ InFlight
       \/ backend = "Vulkan" /\ NoOpenGL /\ NoTerminal /\ Contents!Init
       \/ backend = "OpenGL" /\ NoVulkan /\ NoTerminal /\ OpenGLInit
       \/ backend = "terminal" /\ NoVulkan /\ NoOpenGL /\ Characters!Init

Flight(A) ==
    /\ backend = "Vulkan" /\ part = "flight" /\ A
    /\ UNCHANGED <<displayvars, glvars, vk, term, tty, backend>>

GraphicsNext ==
    \/ Flight(Next)
    \/ /\ backend = "Vulkan" /\ part # "flight" /\ Contents!Next
       /\ UNCHANGED <<vars, glvars, term, tty, backend>>
    \/ backend = "OpenGL" /\ OpenGLNext /\ UNCHANGED <<vars, vk, term, tty, backend>>
    \/ backend = "terminal" /\ Characters!Next /\ UNCHANGED <<vars, glvars, vk, backend>>

(* As in FramesInFlight. *)
GraphicsFairness ==
    /\ WF_vars(Flight(start_render)) /\ WF_vars(Flight(recreate_swapchain))
    /\ WF_vars(Flight(acquire)) /\ WF_vars(Flight(wait_img))
    /\ WF_vars(Flight(submit)) /\ WF_vars(Flight(vsync))
    /\ WF_vars(Flight(complete)) /\ WF_vars(Flight(show))

GraphicsSpec == GraphicsInit /\ [][GraphicsNext]_graphicsvars /\ GraphicsFairness
-----------------------------------------------------------------------------
(* A frame shows things as they are when it is rendered, in all back ends, *)
(* whatever was changed between frames and whatever earlier ones have left *)
(* behind: what the device reads of the camera and the lights was written  *)
(* after their last change, and what is on the screen was drawn from the   *)
(* contents, sizes, effects and lights of now (render() of VulkanBackend,  *)
(* of OpenGLBackend and of TerminalBackend).                               *)
Current ==
    /\ UniformsCurrent
    /\ backend = "OpenGL" => Presented
    /\ backend = "Vulkan" /\ part # "flight" => Contents!Shown
    /\ backend = "terminal" => Characters!Shown
=============================================================================
