--------------------------- MODULE FramesInFlight ---------------------------
(***************************************************************************)
(* The frames in flight of the Vulkan back end                             *)
(* (src/graphics/vulkan/vulkan.cpp, swapchain.cpp, staging.cpp): the host  *)
(* records and submits frames, the device renders them in the order in     *)
(* which they were submitted, and the presentation engine shows them in    *)
(* the order in which they were presented.                                 *)
(*                                                                         *)
(* Two counters advance at their own speeds.  A frame (cur_frame) owns a   *)
(* command buffer, a region of the uniform buffer and blocks of staging    *)
(* memory.  A slot (i_frame of the swap chain, one per image) owns two     *)
(* semaphores and a fence.  Fences are waited for by frame and by image.   *)
(*                                                                         *)
(* Calls succeed, except for images that are out of date.  The number of   *)
(* images does not change; the number of frames only grows (see README).   *)
(***************************************************************************)
EXTENDS Naturals, Sequences, SequencesExt, FiniteSets, FiniteSetsExt

CONSTANTS
    NImages,        \* images of the swap chain
    FrameCounts,    \* arguments of set_n_frames
    Blocks,         \* bound: the blocks of staging memory
    Capacity,       \* elements that fit in a block
    Writes,         \* numbers of elements written at once
    OutOfDate,      \* may images be out of date?
    None            \* no fence, no image, no context

FramesInFlightAssumption ==
    /\ NImages \in Nat \ {0} /\ Capacity \in Nat \ {0}
    /\ FrameCounts \subseteq Nat \ {0} /\ FrameCounts # {}
    /\ IsFiniteSet(FrameCounts)
    /\ IsFiniteSet(Blocks) /\ Writes \subseteq Nat \ {0}
    /\ OutOfDate \in BOOLEAN /\ None \notin Nat
ASSUME FramesInFlightAssumption

VARIABLES
    pc,             \* where the main loop is
    n_frames, cur_frame,
    i_frame,        \* next slot of the swap chain
    ctx,            \* PresentContext: image and slot that were acquired
    signalled,      \* fences that are signalled
    frame_fences,   \* the fence to be waited for before a frame is reused
    present_fences, \* and before an image is rendered to
    recreate,       \* RECREATE_SWAPCHAIN
    updated,        \* regions of the uniform buffer to be written
    uniforms,       \* regions that have the values of now
    blocks,         \* staging memory of each frame, and room in its last block
    free,           \* blocks for reuse, with their ages
    idle,           \* history: updates since a block was last released
    pending,        \* device: what was submitted and is not completed
    presents,       \* engine: what was presented and was not shown
    shown           \* engine: the image on the screen

host == <<pc, n_frames, cur_frame, i_frame, ctx>>
fences == <<signalled, frame_fences, present_fences>>
ubo == <<updated, uniforms>>
staging == <<blocks, free, idle>>
device == <<pending, presents, shown>>
vars == <<host, fences, recreate, ubo, staging, device>>

Slots == 0..(NImages - 1)
Images == 0..(NImages - 1)
AllFrames == 0..(Max(FrameCounts) - 1)
Frames == 0..(n_frames - 1)

Ids(seq) == {seq[i].id : i \in DOMAIN seq}
InUse(f) == Range(blocks[f].ids)
Alive == Ids(free) \cup UNION {InUse(f) : f \in AllFrames}
NoBlocks == [ids |-> <<>>, room |-> 0]

TypeOK ==
    /\ pc \in {"host", "acquire", "wait", "record", "vsync"}
    /\ n_frames \in FrameCounts /\ cur_frame \in Frames /\ i_frame \in Slots
    /\ ctx \in [img : Images, slot : Slots] \cup {None}
    /\ signalled \subseteq Slots
    /\ frame_fences \in [AllFrames -> Slots \cup {None}]
    /\ present_fences \in [Images -> Slots \cup {None}]
    /\ recreate \in BOOLEAN
    /\ updated \subseteq AllFrames /\ uniforms \subseteq AllFrames
    /\ \A f \in AllFrames :
        /\ blocks[f].room \in 0..(Capacity - 1) \/ blocks[f] = NoBlocks
        /\ InUse(f) \subseteq Blocks
    /\ Ids(free) \subseteq Blocks
    /\ \A i \in DOMAIN free : free[i].age \in 0..Max(FrameCounts)
    /\ \A i \in DOMAIN pending :
        pending[i].frame \in Frames /\ pending[i].slot \in Slots
    /\ Range(presents) \subseteq Images
    /\ Len(presents) \in Len(pending)..(Len(pending) + NImages)
    /\ shown \in Images \cup {None}

(* init_device(): the fences of slots are made signalled, those of frames  *)
(* and images are null; recreate_swapchain() is called.                    *)
Init ==
    /\ pc = "host" /\ n_frames = Min(FrameCounts) /\ cur_frame = 0
    /\ i_frame = 0 /\ ctx = None
    /\ signalled = Slots
    /\ frame_fences = [f \in AllFrames |-> None]
    /\ present_fences = [i \in Images |-> None]
    /\ recreate = FALSE
    /\ updated = AllFrames /\ uniforms = {}
    /\ blocks = [f \in AllFrames |-> NoBlocks] /\ free = <<>>
    /\ idle = [b \in Blocks |-> 0]
    /\ pending = <<>> /\ presents = <<>> /\ shown = None

-----------------------------------------------------------------------------
(* Staging memory.                                                         *)

(* map(), alloc(): n elements fill the room in the last block, then blocks *)
(* from the end of the free list, then new ones.                           *)
Staged(f, n) ==
    LET room == blocks[f].room
        need == IF n <= room THEN 0
                ELSE (n - room + Capacity - 1) \div Capacity
        reused == Min({need, Len(free)})
        new == SetToSeq(Blocks \ Alive)
        taken == [i \in 1..reused |-> free[Len(free) + 1 - i].id]
            \o SubSeq(new, 1, need - reused)
    IN  /\ need - reused <= Len(new)
        /\ blocks' = [blocks EXCEPT
            ![f] = [ids |-> @.ids \o taken, room |-> room + need * Capacity - n]]
        /\ free' = SubSeq(free, 1, Len(free) - reused)

(* Mutant: from the front of the whole list. *)
RetiredAll(list) ==
    SelectSeq([i \in DOMAIN list |-> [list[i] EXCEPT !.age = @ + 1]],
        LAMBDA x : x.age <= n_frames)

(* retire_free(): past the first n_frames, those at the age of n_frames    *)
(* are destroyed until one is found that is not, and the rest gets older.  *)
Retired(list) ==
    LET kept == SubSeq(list, 1, Min({n_frames, Len(list)}))
        rest == SubSeq(list, n_frames + 1, Len(list))
        young == {i \in DOMAIN rest : rest[i].age # n_frames}
        first == IF young = {} THEN Len(rest) + 1 ELSE Min(young)
    IN  kept \o [i \in 1..(Len(rest) + 1 - first) |->
            [rest[first + i - 1] EXCEPT !.age = @ + 1]]

(* release() *)
Released(f) ==
    free \o [i \in DOMAIN blocks[f].ids |-> [id |-> blocks[f].ids[i], age |-> 0]]

(* StagingBuffer::destroy() *)
Recycle(f) ==
    /\ free' = Retired(Released(f))
    /\ blocks' = [blocks EXCEPT ![f] = NoBlocks]
    /\ idle' = [b \in Blocks |->
        IF b \in InUse(f) THEN 1
        ELSE IF b \in Ids(free) THEN Min({idle[b] + 1, Max(FrameCounts) + 1})
        ELSE 0]

-----------------------------------------------------------------------------
(* Scripts and the main loop, between frames.                              *)

write_to_buffer(n) ==
    /\ pc = "host"
    /\ Staged(cur_frame, n)
    /\ UNCHANGED <<host, fences, recreate, ubo, idle, device>>

(* set_camera_updated(), set_lighting_updated(): called when the values    *)
(* have changed; all bits are set.  The camera and the lights have regions *)
(* and bits of their own that are used in the same way: one stands for     *)
(* both.                                                                   *)
Outdated == updated' = AllFrames /\ uniforms' = {}

set_updated ==
    /\ pc = "host"
    /\ Outdated
    /\ UNCHANGED <<host, fences, recreate, staging, device>>

(* resize(): the window has another size. *)
resize ==
    /\ pc = "host"
    /\ Outdated
    /\ recreate' = TRUE
    /\ UNCHANGED <<host, fences, staging, device>>

set_swap_interval ==
    /\ pc = "host"
    /\ recreate' = TRUE
    /\ UNCHANGED <<host, fences, ubo, staging, device>>

(* vkDeviceWaitIdle() *)
WaitIdle == pending = <<>> /\ UNCHANGED pending

(* Mutant: the swap chain is not created again. *)
set_n_frames_only(n) ==
    /\ pc = "host"
    /\ n >= n_frames
    /\ WaitIdle
    /\ n_frames' = n /\ cur_frame' = 0
    /\ uniforms' = {}
    /\ frame_fences' = [f \in AllFrames |-> None]
    /\ UNCHANGED <<pc, i_frame, ctx, signalled, present_fences, recreate,
        updated, staging, presents, shown>>

(* set_n_frames(): what was recorded is submitted without a fence, and     *)
(* completed.  The uniform buffer is new; it is written when the swap      *)
(* chain, which has views of the new shadow maps, is created again.        *)
set_n_frames(n) ==
    /\ pc = "host"
    /\ n >= n_frames
    /\ WaitIdle
    /\ n_frames' = n /\ cur_frame' = 0
    /\ uniforms' = {}
    /\ recreate' = TRUE
    /\ frame_fences' = [f \in AllFrames |-> None]
    /\ UNCHANGED <<pc, i_frame, ctx, signalled, present_fences, updated,
        staging, presents, shown>>

-----------------------------------------------------------------------------
(* render() and vsync().                                                   *)

start_render ==
    /\ pc = "host" /\ pc' = "acquire"
    /\ UNCHANGED <<n_frames, cur_frame, i_frame, ctx, fences, recreate, ubo,
        staging, device>>

(* Mutant: the flag stays. *)
NewSwapChainAgain ==
    /\ updated' = AllFrames
    /\ WaitIdle
    /\ presents' = <<>> /\ shown' = None
    /\ UNCHANGED recreate

(* recreate_swapchain(): everything submitted is completed, and the new    *)
(* images are neither presented nor shown.                                 *)
NewSwapChain ==
    /\ recreate' = FALSE
    /\ updated' = AllFrames
    /\ WaitIdle
    /\ presents' = <<>> /\ shown' = None

recreate_swapchain ==
    /\ pc = "acquire" /\ recreate
    /\ NewSwapChain
    /\ UNCHANGED <<host, fences, uniforms, staging>>

(* What vkAcquireNextImageKHR() may return: an image the engine is not      *)
(* done with too, but not the last it was given, which stays on the screen *)
(* until there is another.  The device waits for the semaphore.            *)
Queued == <<shown>> \o presents
Available == {i \in Images : Last(Queued) # i}

(* Mutant: the slot stays. *)
SameSlot == UNCHANGED i_frame

(* SwapChain::acquire_img(): the slot advances even if there is no image.  *)
NextSlot == i_frame' = (i_frame + 1) % NImages

acquire_img(i) ==
    /\ pc = "acquire" /\ ~recreate
    /\ i \in Available
    /\ NextSlot
    /\ ctx' = [img |-> i, slot |-> i_frame]
    /\ pc' = "wait"
    /\ UNCHANGED <<n_frames, cur_frame, fences, recreate, ubo, staging, device>>

acquire_out_of_date ==
    /\ pc = "acquire" /\ ~recreate /\ OutOfDate
    /\ NextSlot
    /\ NewSwapChain
    /\ UNCHANGED <<pc, n_frames, cur_frame, ctx, fences, uniforms, staging>>

Done(f) == f = None \/ f \in signalled

(* acquire_img(), once it has an image: its last user is waited for. *)
wait_img ==
    /\ pc = "wait"
    /\ Done(present_fences[ctx.img])
    /\ present_fences' = [present_fences EXCEPT ![ctx.img] = ctx.slot]
    /\ pc' = "record"
    /\ UNCHANGED <<n_frames, cur_frame, i_frame, ctx, signalled, frame_fences,
        recreate, ubo, staging, device>>

(* update_camera(), update_lighting(): only the region of the frame. *)
UpdatedRegions == uniforms \cup (updated \cap {cur_frame})

(* create_cmd_buffer(): commands for the image, with what was written for  *)
(* the frame.                                                              *)
Commands ==
    [frame |-> cur_frame, slot |-> ctx.slot, img |-> ctx.img,
        blocks |-> InUse(cur_frame)]

(* render() from the wait for the frame on, when the image can be shown.   *)
Submitted ==
    /\ pc = "record"
    /\ Done(frame_fences[cur_frame])
    /\ frame_fences' = [frame_fences EXCEPT ![cur_frame] = ctx.slot]
    /\ uniforms' = UpdatedRegions
    /\ pc' = "vsync" /\ ctx' = None
    /\ UNCHANGED <<n_frames, cur_frame, i_frame, present_fences, staging>>

submit ==
    /\ Submitted
    /\ updated' = updated \ {cur_frame}
    /\ signalled' = signalled \ {ctx.slot}
    /\ pending' = Append(pending, Commands)
    /\ presents' = Append(presents, ctx.img)
    /\ UNCHANGED <<recreate, shown>>

(* And when vkQueuePresentKHR() finds that it is out of date: this         *)
(* submission is waited for as well.                                       *)
submit_out_of_date ==
    /\ OutOfDate
    /\ Submitted
    /\ signalled' = signalled \cup {ctx.slot}
    /\ NewSwapChain

Next_frame == (cur_frame + 1) % n_frames

(* Mutant: the memory of the frame that was submitted is reused. *)
vsync_recycles_last ==
    /\ pc = "vsync"
    /\ Done(frame_fences[Next_frame])
    /\ frame_fences' = [frame_fences EXCEPT ![Next_frame] = None]
    /\ cur_frame' = Next_frame
    /\ Recycle(cur_frame)
    /\ pc' = "host"
    /\ UNCHANGED <<n_frames, i_frame, ctx, signalled, present_fences, recreate,
        ubo, device>>

vsync ==
    /\ pc = "vsync"
    /\ Done(frame_fences[Next_frame])
    /\ frame_fences' = [frame_fences EXCEPT ![Next_frame] = None]
    /\ cur_frame' = Next_frame
    /\ Recycle(Next_frame)
    /\ pc' = "host"
    /\ UNCHANGED <<n_frames, i_frame, ctx, signalled, present_fences, recreate,
        ubo, device>>

-----------------------------------------------------------------------------
(* The device and the presentation engine.                                 *)

(* The first submission that was not completed is, once the engine is done *)
(* with its image.                                                         *)
complete ==
    /\ pending # <<>>
    /\ Head(pending).img \notin
        Range(SubSeq(Queued, 1, Len(Queued) - Len(pending)))
    /\ signalled' = signalled \cup {Head(pending).slot}
    /\ pending' = Tail(pending)
    /\ UNCHANGED <<host, frame_fences, present_fences, recreate, ubo, staging,
        presents, shown>>

(* The image shown before is available again. *)
show ==
    /\ Len(presents) > Len(pending)
    /\ shown' = Head(presents)
    /\ presents' = Tail(presents)
    /\ UNCHANGED <<host, fences, recreate, ubo, staging, pending>>

Script ==
    \/ \E n \in Writes : write_to_buffer(n)
    \/ set_updated \/ resize \/ set_swap_interval
    \/ \E n \in FrameCounts : set_n_frames(n)

acquire == \E i \in Images : acquire_img(i)

Render ==
    \/ start_render \/ recreate_swapchain \/ acquire \/ acquire_out_of_date
    \/ wait_img \/ submit \/ submit_out_of_date \/ vsync

Next == Script \/ Render \/ complete \/ show

(* The main loop and the two other actors go on; that some image is not    *)
(* out of date is not up to the program.                                   *)
Fairness ==
    /\ WF_vars(start_render) /\ WF_vars(recreate_swapchain) /\ WF_vars(acquire)
    /\ WF_vars(wait_img) /\ WF_vars(submit) /\ WF_vars(vsync)
    /\ WF_vars(complete) /\ WF_vars(show)

Spec == Init /\ [][Next]_vars /\ Fairness

-----------------------------------------------------------------------------
(* While the host records a frame (scripts write to its staging memory and *)
(* commands, render() to its uniforms), no submission that reads them is   *)
(* under way, whichever fences were waited for: vsync().                   *)
FrameFree ==
    pc # "vsync" => \A i \in DOMAIN pending : pending[i].frame # cur_frame

(* However many frames there are, the semaphores and the fence of a slot   *)
(* are used again only after the submission that used them, although it is *)
(* frames and images that are waited for and slots advance when an image   *)
(* is out of date: SwapChain::acquire_img().  Only the semaphore that an   *)
(* image is acquired with is used before the image is waited for, and only *)
(* if all images are being rendered to may it be in use.                   *)
SlotFree ==
    /\ pc = "record" \/ (pc = "wait" /\ Len(pending) < NImages) =>
            \A i \in DOMAIN pending : pending[i].slot # ctx.slot
    /\ pc = "record" => ctx.slot \in signalled

NotInUse == FrameFree /\ SlotFree

(* A frame that was submitted has the camera and the lights of now,        *)
(* whichever region it uses, and whatever was recreated: render().         *)
UniformsCurrent ==
    pc = "vsync" => cur_frame \in uniforms

(* A block of staging memory is in one place, and what a submission reads  *)
(* is neither free nor written to: StagingBuffer::destroy().               *)
OnePlace ==
    /\ \A i, j \in DOMAIN free : free[i].id = free[j].id => i = j
    /\ \A f \in AllFrames :
        IsInjective(blocks[f].ids) /\ InUse(f) \cap Ids(free) = {}
    /\ \A f, g \in AllFrames : f # g => InUse(f) \cap InUse(g) = {}

BlocksApart ==
    /\ OnePlace
    /\ \A i \in DOMAIN pending :
        /\ pending[i].blocks \cap Ids(free) = {}
        /\ pc = "host" => pending[i].blocks \cap InUse(cur_frame) = {}

(* Blocks past the first n_frames are not kept for longer than a full      *)
(* cycle: StagingBuffer::retire_free().                                    *)
FreeYoung ==
    \A i \in DOMAIN free : i > n_frames => idle[free[i].id] <= n_frames

(* The blocks of staging memory, between and during frames. *)
Inv == TypeOK /\ BlocksApart /\ FreeYoung

(* A block is destroyed only if it was not used for a full cycle, and as   *)
(* many as there are frames are kept: StagingBuffer::retire_free().        *)
RetiredUnused ==
    [][\A b \in Alive : b \in Alive' \/
        /\ b \in Ids(free) /\ idle[b] >= n_frames
        /\ Len(free') >= n_frames]_vars

(* The loop never waits for a fence or an image that does not come.        *)
FramesGoOn == []<>(pc = "host")
=============================================================================
