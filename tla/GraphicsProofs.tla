--------------------------- MODULE GraphicsProofs ---------------------------
(***************************************************************************)
(* Proofs about the graphics (Graphics.tla).                               *)
(*                                                                         *)
(* Frames in flight (FramesInFlight.tla): what is submitted and not        *)
(* completed is described by three sequences that move at speeds of their  *)
(* own: slots, of which the last submissions have the ones before i_frame, *)
(* frames, which own what the submissions read, and images, of which there *)
(* are as many as slots: as no image is rendered to by two submissions, a  *)
(* slot is not met again before the submission that used it is completed,  *)
(* for any number of frames.                                               *)
(*                                                                         *)
(* What they show: the cache of textures (Textures.tla), and what Vulkan   *)
(* draws (VulkanBackend.tla), described by what the back end has between   *)
(* calls for what it was given and by what each command adds to the image. *)
(***************************************************************************)
EXTENDS Graphics, Textures, FiniteSetTheorems, SequenceTheorems,
    WellFoundedInduction, TLAPS

-----------------------------------------------------------------------------
(* Numbers.                                                                *)

LEMMA MinIs ==
    ASSUME NEW S \in SUBSET Nat, S # {}
    PROVE  Min(S) \in S /\ \A y \in S : Min(S) <= y
<1> DEFINE R == OpToRel(<, Nat)
<1>1. \E x \in S : \A y \in S : <<y, x>> \notin R
    BY NatLessThanWellFounded, WFMin
<1>2. ASSUME NEW x \in Nat, NEW y \in Nat, y < x PROVE <<y, x>> \in R
    BY <1>2 DEF OpToRel
<1> HIDE DEF R
<1>3. PICK x \in S : \A y \in S : <<y, x>> \notin R
    BY <1>1
<1>4. ASSUME NEW y \in S PROVE x <= y
    <2>1. x \in Nat /\ y \in Nat
        OBVIOUS
    <2>2. ~(y < x)
        BY <1>2, <1>3, <2>1
    <2> QED
        BY <2>1, <2>2
<1> QED
    BY <1>3, <1>4 DEF Min

LEMMA MinOfTwo ==
    ASSUME NEW a \in Nat, NEW b \in Nat
    PROVE  Min({a, b}) = IF a <= b THEN a ELSE b
<1>1. Min({a, b}) \in {a, b} /\ \A y \in {a, b} : Min({a, b}) <= y
    BY MinIs
<1> QED
    BY <1>1

\* Those above the one that has the fewest above it are none.
LEMMA MaxIs ==
    ASSUME NEW S \in SUBSET Nat, S # {}, IsFiniteSet(S)
    PROVE  Max(S) \in S /\ \A y \in S : Max(S) >= y
<1> DEFINE Above(x) == {y \in S : y > x}
           N == {Cardinality(Above(x)) : x \in S}
<1>1. \A x \in S : IsFiniteSet(Above(x)) /\ Cardinality(Above(x)) \in Nat
    BY FS_Subset, FS_CardinalityType
<1>2. N \in SUBSET Nat /\ N # {}
    BY <1>1
<1>3. PICK x \in S : \A y \in S : Cardinality(Above(x)) <= Cardinality(Above(y))
    <2>1. Min(N) \in N /\ \A n \in N : Min(N) <= n
        BY <1>2, MinIs
    <2>2. PICK x \in S : Min(N) = Cardinality(Above(x))
        BY <2>1
    <2>3. \A y \in S : Cardinality(Above(y)) \in N
        OBVIOUS
    <2> QED
        BY <2>1, <2>2, <2>3
<1>4. ASSUME NEW y \in Above(x) PROVE FALSE
    <2>1. y \in S /\ y \in Nat /\ x \in Nat
        OBVIOUS
    <2>2. Above(y) \subseteq Above(x) \ {y}
        <3> SUFFICES ASSUME NEW z \in Above(y) PROVE z \in Above(x) \ {y}
            OBVIOUS
        <3>1. z \in Nat /\ z \in S /\ z > y /\ y > x
            BY <2>1
        <3> QED
            BY <2>1, <3>1
    <2>3. IsFiniteSet(Above(x)) /\ IsFiniteSet(Above(x) \ {y})
          /\ Cardinality(Above(x) \ {y}) = Cardinality(Above(x)) - 1
        BY <1>1, FS_RemoveElement
    <2>4. Cardinality(Above(y)) <= Cardinality(Above(x) \ {y})
        BY <2>2, <2>3, FS_Subset
    <2> QED
        BY <1>1, <1>3, <2>1, <2>3, <2>4
<1>5. \E z \in S : \A y \in S : z >= y
    BY <1>4
<1> QED
    BY <1>5 DEF Max

\* The numbers of frames.
LEMMA Counts ==
    /\ NImages \in Nat /\ NImages >= 1 /\ Capacity \in Nat /\ Capacity >= 1
    /\ Max(FrameCounts) \in Nat /\ Max(FrameCounts) >= 1
    /\ \A n \in FrameCounts : n \in Nat /\ n >= 1 /\ n <= Max(FrameCounts)
    /\ Min(FrameCounts) \in FrameCounts
    /\ None \notin Nat
<1>1. FrameCounts \in SUBSET Nat /\ FrameCounts # {} /\ IsFiniteSet(FrameCounts)
      /\ \A n \in FrameCounts : n \in Nat /\ n # 0
    BY FramesInFlightAssumption DEF FramesInFlightAssumption
<1>2. Max(FrameCounts) \in FrameCounts
      /\ \A n \in FrameCounts : Max(FrameCounts) >= n
    BY <1>1, MaxIs
<1>3. Min(FrameCounts) \in FrameCounts
    BY <1>1, MinIs
<1>4. NImages \in Nat /\ NImages # 0 /\ Capacity \in Nat /\ Capacity # 0
      /\ None \notin Nat
    BY FramesInFlightAssumption DEF FramesInFlightAssumption
<1> DEFINE N == Max(FrameCounts)
<1>5. N \in Nat /\ N # 0 /\ \A n \in FrameCounts : n <= N
    BY <1>1, <1>2
<1> HIDE DEF N
<1>6. N >= 1 /\ NImages >= 1 /\ Capacity >= 1
      /\ \A n \in FrameCounts : n \in Nat /\ n >= 1 /\ n <= N
    BY <1>1, <1>4, <1>5
<1> QED
    BY <1>3, <1>4, <1>5, <1>6 DEF N

\* The slot k places before i, going round.
Before(i, k) == IF k <= i THEN i - k ELSE i + NImages - k

LEMMA BeforeSlot ==
    ASSUME NEW i \in Slots, NEW k \in 1..NImages
    PROVE  Before(i, k) \in Slots
  BY Counts DEF Before, Slots

LEMMA BeforeDistinct ==
    ASSUME NEW i \in Slots, NEW k \in 1..NImages, NEW l \in 1..NImages,
           Before(i, k) = Before(i, l)
    PROVE  k = l
  BY Counts DEF Before, Slots

LEMMA BeforeOther ==
    ASSUME NEW i \in Slots, NEW k \in 1..(NImages - 1)
    PROVE  Before(i, k) # i
  BY Counts DEF Before, Slots

LEMMA BeforeNext ==
    ASSUME NEW i \in Slots
    PROVE  /\ (i + 1) % NImages \in Slots
           /\ Before((i + 1) % NImages, 1) = i
           /\ \A k \in 1..(NImages - 1) :
               Before((i + 1) % NImages, k + 1) = Before(i, k)
<1>1. (i + 1) % NImages = IF i + 1 = NImages THEN 0 ELSE i + 1
    BY Counts DEF Slots
<1> DEFINE j == (i + 1) % NImages
<1> HIDE DEF j
<1>2. i \in Nat /\ i <= NImages - 1 /\ NImages \in Nat
    BY Counts DEF Slots
<1>3. j \in 0..(NImages - 1)
    BY <1>1, <1>2 DEF j
<1> QED
    BY <1>1, <1>2, <1>3 DEF Before, Slots, j

-----------------------------------------------------------------------------
(* Slots, frames and fences.                                               *)

Submissions == [frame : AllFrames, slot : Slots, img : Images, blocks : SUBSET Blocks]
InSlot == pc \in {"wait", "record"}

\* The slot of the next submission.
Base == IF InSlot THEN ctx.slot ELSE i_frame

FlightTypeOK ==
    /\ pc \in {"host", "acquire", "wait", "record", "vsync"}
    /\ n_frames \in FrameCounts /\ cur_frame \in Frames /\ i_frame \in Slots
    /\ ctx \in [img : Images, slot : Slots] \cup {None}
    /\ InSlot => ctx \in [img : Images, slot : Slots]
    /\ signalled \subseteq Slots
    /\ frame_fences \in [AllFrames -> Slots \cup {None}]
    /\ present_fences \in [Images -> Slots \cup {None}]
    /\ pending \in Seq(Submissions)
    /\ \A i \in DOMAIN pending :
        pending[i].frame \in Frames /\ pending[i].blocks \subseteq Blocks

\* The last submissions have the slots before that of the next one, with no gap,
\* and each is what its frame is waited for with.
SlotInv ==
    /\ InSlot => i_frame = (ctx.slot + 1) % NImages
    /\ \A i \in DOMAIN pending :
        pending[i].slot = Before(Base, Len(pending) - i + 1)
    /\ \A i \in DOMAIN pending : frame_fences[pending[i].frame] = pending[i].slot
    /\ \A i, j \in DOMAIN pending : pending[i].frame = pending[j].frame => i = j
    /\ FrameFree
    /\ signalled = Slots \ {pending[i].slot : i \in DOMAIN pending}

\* They render to distinct images, and each is what its image is waited for with.
ImageInv ==
    /\ \A i, j \in DOMAIN pending : pending[i].img = pending[j].img => i = j
    /\ \A i \in DOMAIN pending : present_fences[pending[i].img] = pending[i].slot
    /\ pc = "record" =>
        /\ present_fences[ctx.img] = ctx.slot
        /\ \A i \in DOMAIN pending : pending[i].img # ctx.img

FlightInv == FlightTypeOK /\ SlotInv /\ ImageInv

LEMMA FramesInAll ==
    ASSUME n_frames \in FrameCounts
    PROVE  Frames \subseteq AllFrames
<1> DEFINE N == Max(FrameCounts)
<1>1. n_frames \in Nat /\ N \in Nat /\ n_frames <= N
    BY Counts
<1> HIDE DEF N
<1>2. 0..(n_frames - 1) \subseteq 0..(N - 1)
    BY <1>1
<1> QED
    BY <1>2 DEF Frames, AllFrames, N

LEMMA ImagesFinite == IsFiniteSet(Images) /\ Cardinality(Images) = NImages
<1>1. NImages - 1 \in Int /\ 0 \in Int /\ ~(0 > NImages - 1) /\ NImages - 1 - 0 + 1 = NImages
    BY Counts
<1>2. IsFiniteSet(0..(NImages - 1)) /\ Cardinality(0..(NImages - 1)) =
        IF 0 > NImages - 1 THEN 0 ELSE NImages - 1 - 0 + 1
    BY <1>1, FS_Interval
<1> QED
    BY <1>1, <1>2 DEF Images

\* Images that are being rendered to are distinct, and the one that is recorded
\* is another.
LEMMA FewImages ==
    ASSUME FlightInv
    PROVE  /\ Len(pending) <= NImages
           /\ pc = "record" => Len(pending) + 1 <= NImages
<1> DEFINE L == Len(pending)
           F == IF pc = "record" THEN Images \ {ctx.img} ELSE Images
           g == [i \in 1..L |-> pending[i].img]
<1>1. L \in Nat /\ DOMAIN pending = 1..L /\ NImages \in Nat /\ NImages >= 1
    BY Counts, LenProperties DEF FlightInv, FlightTypeOK
<1>2. \A i \in 1..L : pending[i].img \in Images
    <2>1. \A i \in 1..L : pending[i] \in Submissions
        BY <1>1 DEF FlightInv, FlightTypeOK
    <2> QED
        BY <2>1 DEF Submissions
<1>3. g \in Injection(1..L, F)
    BY <1>1, <1>2 DEF Injection, IsInjective, FlightInv, ImageInv
<1>4. IsFiniteSet(1..L) /\ Cardinality(1..L) = L
    <2> HIDE DEF L
    <2> QED
        BY <1>1, FS_Interval
<1>5. IsFiniteSet(Images) /\ Cardinality(Images) = NImages
    BY ImagesFinite
<1>6. pc = "record" => ctx.img \in Images
    BY DEF FlightInv, FlightTypeOK, InSlot
<1>7. IsFiniteSet(F)
      /\ Cardinality(F) = IF pc = "record" THEN NImages - 1 ELSE NImages
    BY <1>5, <1>6, FS_RemoveElement
<1>8. L <= Cardinality(F)
    BY <1>3, <1>4, <1>7, FS_Injection
<1> QED
    BY <1>1, <1>7, <1>8

LEMMA SlotsApart ==
    ASSUME FlightInv
    PROVE  /\ \A i, j \in DOMAIN pending :
               pending[i].slot = pending[j].slot => i = j
           /\ pc = "record" \/ (pc = "wait" /\ Len(pending) < NImages) =>
               \A i \in DOMAIN pending : pending[i].slot # ctx.slot
<1> DEFINE L == Len(pending)
<1>1. L \in Nat /\ DOMAIN pending = 1..L /\ Base \in Slots
    BY LenProperties DEF FlightInv, FlightTypeOK, Base
<1>2. L <= NImages /\ NImages \in Nat
    BY FewImages, Counts
<1>3. \A i \in 1..L : pending[i].slot = Before(Base, L - i + 1)
    BY <1>1 DEF FlightInv, SlotInv
<1>4. \A i \in 1..L : L - i + 1 \in 1..NImages
    <2> HIDE DEF L
    <2> QED
        BY <1>1, <1>2
<1>5. ASSUME NEW i \in 1..L, NEW j \in 1..L, pending[i].slot = pending[j].slot
      PROVE  i = j
    <2>1. L - i + 1 = L - j + 1
        BY <1>1, <1>3, <1>4, <1>5, BeforeDistinct
    <2> QED
        BY <1>1, <2>1
<1>6. ASSUME pc = "record" \/ (pc = "wait" /\ L < NImages),
             NEW i \in 1..L
      PROVE  pending[i].slot # ctx.slot
    <2>1. L + 1 <= NImages
        <3>1. pc = "record" => L + 1 <= NImages
            BY FewImages
        <3> HIDE DEF L
        <3> QED
            BY <1>1, <1>2, <1>6, <3>1
    <2>2. L - i + 1 \in 1..(NImages - 1)
        <3> HIDE DEF L
        <3> QED
            BY <1>1, <1>2, <2>1
    <2>3. Base = ctx.slot
        BY <1>6 DEF Base, InSlot
    <2> QED
        BY <1>1, <1>3, <2>2, <2>3, BeforeOther
<1> QED
    BY <1>1, <1>5, <1>6

LEMMA InitFlight == Init => FlightInv
<1> SUFFICES ASSUME Init PROVE FlightInv
    OBVIOUS
<1>1. pending = <<>> /\ pc = "host" /\ n_frames \in FrameCounts /\ i_frame = 0
      /\ cur_frame = 0
    BY Counts DEF Init
<1>2. cur_frame \in Frames /\ i_frame \in Slots
    BY <1>1, Counts DEF Frames, Slots
<1>3. FlightTypeOK
    BY <1>1, <1>2 DEF Init, FlightTypeOK, InSlot
<1>4. SlotInv /\ ImageInv
    BY <1>1 DEF Init, SlotInv, ImageInv, InSlot, FrameFree
<1> QED
    BY <1>3, <1>4 DEF FlightInv

\* The steps of scripts, of staging memory and of the engine.
LEMMA FlightRests ==
    ASSUME FlightInv, UNCHANGED <<host, fences, pending>>
    PROVE  FlightInv'
<1>1. UNCHANGED <<pc, n_frames, cur_frame, i_frame, ctx, signalled, frame_fences,
        present_fences, pending>>
    BY DEF host, fences
<1>2. FlightTypeOK'
    BY <1>1 DEF FlightInv, FlightTypeOK, Frames, AllFrames, Slots, Images, InSlot,
       Submissions
<1>3. SlotInv'
    BY <1>1 DEF FlightInv, SlotInv, FrameFree, Slots, InSlot, Base, Before
<1>4. ImageInv'
    BY <1>1 DEF FlightInv, ImageInv
<1> QED
    BY <1>2, <1>3, <1>4 DEF FlightInv

\* What happens when nothing is under way.
LEMMA FlightRestarts ==
    ASSUME FlightTypeOK', pending' = <<>>, signalled' = Slots, ~InSlot'
    PROVE  FlightInv'
  BY DEF FlightInv, SlotInv, ImageInv, FrameFree, InSlot

LEMMA AllSignalled ==
    ASSUME FlightInv, pending = <<>>
    PROVE  signalled = Slots
  BY DEF FlightInv, SlotInv

LEMMA StepScripts ==
    ASSUME FlightInv, Script
    PROVE  FlightInv'
<1>1. CASE \E n \in Writes : write_to_buffer(n)
    BY <1>1, FlightRests DEF write_to_buffer, device
<1>2. CASE set_updated \/ resize \/ set_swap_interval
    BY <1>2, FlightRests DEF set_updated, resize, set_swap_interval, device
<1>3. ASSUME NEW n \in FrameCounts, set_n_frames(n)
      PROVE  FlightInv'
    <2>1. pending' = <<>> /\ signalled' = Slots /\ pc' = "host"
        BY <1>3, AllSignalled DEF set_n_frames, WaitIdle
    <2>2. 0 \in 0..(n - 1)
        BY Counts
    <2>3. FlightTypeOK'
        BY <1>3, <2>1, <2>2
           DEF FlightInv, FlightTypeOK, set_n_frames, Frames, AllFrames, Slots,
               Images, InSlot, Submissions
    <2> QED
        BY <2>1, <2>3, FlightRestarts DEF InSlot
<1> QED
    BY <1>1, <1>2, <1>3 DEF Script

LEMMA StepStarts ==
    ASSUME FlightInv, start_render \/ recreate_swapchain
    PROVE  FlightInv'
<1>1. CASE start_render
    <2>1. pc = "host" /\ pc' = "acquire" /\ ~InSlot /\ ~InSlot'
          /\ UNCHANGED <<n_frames, cur_frame, i_frame, ctx, signalled, frame_fences,
               present_fences, pending>>
        BY <1>1 DEF start_render, device, fences, InSlot
    <2>2. FlightTypeOK'
        BY <2>1 DEF FlightInv, FlightTypeOK, Frames, AllFrames, Slots, Images,
           InSlot, Submissions
    <2>3. SlotInv'
        BY <2>1 DEF FlightInv, SlotInv, FrameFree, Slots, Base, Before
    <2>4. ImageInv'
        BY <2>1 DEF FlightInv, ImageInv
    <2> QED
        BY <2>2, <2>3, <2>4 DEF FlightInv
<1>2. CASE recreate_swapchain
    BY <1>2, FlightRests DEF recreate_swapchain, NewSwapChain, WaitIdle
<1> QED
    BY <1>1, <1>2

\* The slot advances, but that of the next submission is the same.
LEMMA StepAcquire ==
    ASSUME FlightInv, acquire \/ acquire_out_of_date
    PROVE  FlightInv'
<1>1. i_frame \in Slots /\ i_frame' = (i_frame + 1) % NImages /\ i_frame' \in Slots
    BY BeforeNext DEF FlightInv, FlightTypeOK, acquire, acquire_img,
       acquire_out_of_date, NextSlot
<1>2. CASE acquire_out_of_date
    <2>1. pending' = <<>> /\ signalled' = Slots /\ pc' = "acquire"
        BY <1>2, AllSignalled DEF acquire_out_of_date, NewSwapChain, WaitIdle, fences
    <2>2. FlightTypeOK'
        BY <1>1, <1>2, <2>1
           DEF FlightInv, FlightTypeOK, acquire_out_of_date, NewSwapChain, fences,
               Frames, AllFrames, Slots, Images, InSlot, Submissions
    <2> QED
        BY <2>1, <2>2, FlightRestarts DEF InSlot
<1>3. ASSUME NEW j \in Images, acquire_img(j) PROVE FlightInv'
    <2>1. pc = "acquire" /\ pc' = "wait" /\ ctx' = [img |-> j, slot |-> i_frame]
          /\ ~InSlot /\ InSlot' /\ Base = i_frame /\ Base' = i_frame
        BY <1>3 DEF acquire_img, InSlot, Base
    <2>2. UNCHANGED <<n_frames, cur_frame, signalled, frame_fences, present_fences,
            pending>>
        BY <1>3 DEF acquire_img, device, fences
    <2>3. FlightTypeOK'
        BY <1>1, <2>1, <2>2
           DEF FlightInv, FlightTypeOK, Frames, AllFrames, Slots, Images, InSlot,
               Submissions
    <2>4. i_frame' = (ctx'.slot + 1) % NImages
        BY <1>1, <2>1
    <2>5. Slots' = Slots
        BY DEF Slots
    <2>6. SlotInv'
        BY <2>1, <2>2, <2>4, <2>5 DEF FlightInv, SlotInv, FrameFree, Before
    <2>7. ImageInv'
        BY <2>1, <2>2 DEF FlightInv, ImageInv
    <2> QED
        BY <2>3, <2>6, <2>7 DEF FlightInv
<1> QED
    BY <1>2, <1>3 DEF acquire

LEMMA StepWait ==
    ASSUME FlightInv, wait_img
    PROVE  FlightInv'
<1>1. pc = "wait" /\ pc' = "record"
      /\ UNCHANGED <<n_frames, cur_frame, i_frame, ctx, signalled, frame_fences, pending>>
    BY DEF wait_img, device
<1>2. ctx \in [img : Images, slot : Slots]
    BY <1>1 DEF FlightInv, FlightTypeOK, InSlot
<1>3. present_fences' \in [Images -> Slots \cup {None}]
    BY <1>2 DEF wait_img, FlightInv, FlightTypeOK
<1>4. Images' = Images /\ Slots' = Slots
    BY DEF Images, Slots
<1>5. present_fences' = [present_fences EXCEPT ![ctx.img] = ctx.slot]
      /\ present_fences \in [Images -> Slots \cup {None}] /\ ctx.img \in Images
    BY <1>2 DEF wait_img, FlightInv, FlightTypeOK
<1>6. ASSUME NEW i \in DOMAIN pending
      PROVE  pending[i].img \in Images /\ pending[i].img # ctx.img
    <2>1. pending[i] \in Submissions
        BY DEF FlightInv, FlightTypeOK
    <2>2. pending[i].slot \in Slots /\ pending[i].slot \notin signalled
          /\ pending[i].img \in Images
        BY <2>1 DEF FlightInv, SlotInv, Submissions
    <2>3. pending[i].slot # None
        BY <2>2, Counts DEF Slots
    <2>4. ~Done(present_fences[pending[i].img])
        BY <2>2, <2>3 DEF FlightInv, ImageInv, Done
    <2> QED
        BY <2>2, <2>4 DEF wait_img
<1>7. FlightTypeOK'
    BY <1>1, <1>2, <1>3, <1>4
       DEF FlightInv, FlightTypeOK, Frames, AllFrames, InSlot, Submissions
<1>8. SlotInv'
    BY <1>1, <1>4 DEF FlightInv, SlotInv, FrameFree, InSlot, Base, Before
<1>9. ImageInv'
    BY <1>1, <1>5, <1>6 DEF FlightInv, ImageInv
<1> QED
    BY <1>7, <1>8, <1>9 DEF FlightInv

\* The slot of what is submitted is the last before i_frame, and as there is an
\* image that none of the others renders to, theirs can be one farther away.
LEMMA StepSubmit ==
    ASSUME FlightInv, submit, InUse(cur_frame) \subseteq Blocks
    PROVE  FlightInv'
<1> DEFINE L == Len(pending)
<1>1. pc = "record" /\ pc' = "vsync" /\ InSlot /\ ~InSlot'
      /\ Base = ctx.slot /\ Base' = i_frame'
    BY DEF submit, Submitted, InSlot, Base
<1>2. UNCHANGED <<n_frames, cur_frame, i_frame, present_fences>> /\ ctx' = None
      /\ frame_fences' = [frame_fences EXCEPT ![cur_frame] = ctx.slot]
      /\ signalled' = signalled \ {ctx.slot}
      /\ pending' = Append(pending, Commands)
    BY DEF submit, Submitted
<1>3. ctx \in [img : Images, slot : Slots] /\ cur_frame \in Frames
      /\ cur_frame \in AllFrames
    BY <1>1, FramesInAll DEF FlightInv, FlightTypeOK
<1>4. Commands \in Submissions /\ Commands.frame = cur_frame
      /\ Commands.slot = ctx.slot /\ Commands.img = ctx.img /\ Commands.blocks \subseteq Blocks
    BY <1>3 DEF Commands, Submissions
<1>5. L \in Nat /\ DOMAIN pending = 1..L /\ DOMAIN pending' = 1..(L + 1)
      /\ Len(pending') = L + 1 /\ pending' \in Seq(Submissions)
      /\ pending'[L + 1] = Commands
      /\ \A i \in 1..L : pending'[i] = pending[i]
    BY <1>2, <1>4, AppendProperties, LenProperties DEF FlightInv, FlightTypeOK
<1>6. \A i \in 1..(L + 1) : i \in 1..L \/ i = L + 1
    BY <1>5
<1>7. FlightTypeOK'
    <2>1. \A i \in 1..(L + 1) :
            pending'[i].frame \in Frames /\ pending'[i].blocks \subseteq Blocks
        BY <1>3, <1>4, <1>5, <1>6 DEF FlightInv, FlightTypeOK
    <2> QED
        BY <1>1, <1>2, <1>3, <1>5, <2>1
           DEF FlightInv, FlightTypeOK, Frames, AllFrames, Slots, Images, InSlot,
               Submissions
<1>8. \A i \in 1..L :
        /\ pending[i].frame # cur_frame /\ pending[i].frame \in AllFrames
        /\ pending[i].slot # ctx.slot /\ pending[i].slot \in Slots
    <2>1. \A i \in 1..L : pending[i].slot # ctx.slot
        BY <1>1, <1>5, SlotsApart
    <2>2. \A i \in 1..L : pending[i] \in Submissions
        BY <1>5 DEF FlightInv, FlightTypeOK
    <2>3. \A i \in 1..L : pending[i].frame # cur_frame
        BY <1>1, <1>5 DEF FlightInv, SlotInv, FrameFree
    <2> QED
        BY <2>1, <2>2, <2>3 DEF Submissions
<1>9. \A i \in 1..(L + 1) :
        pending'[i].slot = Before(i_frame, (L + 1) - i + 1)
    <2>0. i_frame = (ctx.slot + 1) % NImages /\ ctx.slot \in Slots
          /\ L + 1 <= NImages /\ NImages \in Nat
        BY <1>1, <1>3, FewImages, Counts DEF FlightInv, SlotInv
    <2>1. \A i \in 1..L : pending[i].slot = Before(ctx.slot, L - i + 1)
        BY <1>1, <1>5 DEF FlightInv, SlotInv
    <2>2. ctx.slot = Before(i_frame, 1)
          /\ \A k \in 1..(NImages - 1) : Before(i_frame, k + 1) = Before(ctx.slot, k)
        BY <2>0, BeforeNext
    <2> HIDE DEF L
    <2>5. \A i \in 1..L :
            L - i + 1 \in 1..(NImages - 1) /\ (L + 1) - i + 1 = (L - i + 1) + 1
        BY <1>5, <2>0
    <2>3. \A i \in 1..L : pending[i].slot = Before(i_frame, (L + 1) - i + 1)
        BY <2>1, <2>2, <2>5
    <2>4. (L + 1) - (L + 1) + 1 = 1
        BY <1>5
    <2> QED
        BY <1>4, <1>5, <1>6, <2>1, <2>2, <2>3, <2>4
<1>10. \A i \in 1..(L + 1) : frame_fences'[pending'[i].frame] = pending'[i].slot
    BY <1>2, <1>3, <1>4, <1>5, <1>6, <1>8 DEF FlightInv, FlightTypeOK, SlotInv
<1>11. \A i, j \in 1..(L + 1) : pending'[i].frame = pending'[j].frame => i = j
    <2>1. \A i, j \in 1..L : pending[i].frame = pending[j].frame => i = j
        BY <1>5 DEF FlightInv, SlotInv
    <2>2. \A i \in 1..L : pending'[i].frame = pending[i].frame
        BY <1>5
    <2>3. pending'[L + 1].frame = cur_frame
        BY <1>4, <1>5
    <2> HIDE DEF L
    <2> QED
        BY <1>6, <1>8, <2>1, <2>2, <2>3
<1>12. signalled' = Slots \ {pending'[i].slot : i \in 1..(L + 1)}
    <2>1. {pending'[i].slot : i \in 1..(L + 1)}
            = {pending[i].slot : i \in 1..L} \cup {ctx.slot}
        BY <1>4, <1>5, <1>6
    <2> QED
        BY <1>2, <1>5, <2>1 DEF FlightInv, SlotInv
<1>13. Slots' = Slots
    BY DEF Slots
<1>14. SlotInv'
    BY <1>1, <1>2, <1>5, <1>9, <1>10, <1>11, <1>12, <1>13
       DEF FlightInv, SlotInv, FrameFree, Before
<1>15. ImageInv'
    <2>1. \A i \in 1..L : pending[i].img # ctx.img
          /\ present_fences[pending[i].img] = pending[i].slot
        BY <1>1, <1>5 DEF FlightInv, ImageInv
    <2>2. present_fences[ctx.img] = ctx.slot
        BY <1>1 DEF FlightInv, ImageInv
    <2>3. \A i, j \in 1..(L + 1) : pending'[i].img = pending'[j].img => i = j
        BY <1>4, <1>5, <1>6, <2>1 DEF FlightInv, ImageInv
    <2>4. \A i \in 1..(L + 1) : present_fences[pending'[i].img] = pending'[i].slot
        BY <1>4, <1>5, <1>6, <2>1, <2>2
    <2> QED
        BY <1>1, <1>2, <1>5, <2>3, <2>4 DEF ImageInv
<1> QED
    BY <1>7, <1>14, <1>15 DEF FlightInv

LEMMA StepSubmitLate ==
    ASSUME FlightInv, submit_out_of_date
    PROVE  FlightInv'
<1>1. pc = "record" /\ pc' = "vsync" /\ ctx' = None /\ ~InSlot' /\ pending = <<>>
      /\ pending' = <<>> /\ UNCHANGED <<n_frames, cur_frame, i_frame, present_fences>>
      /\ frame_fences' = [frame_fences EXCEPT ![cur_frame] = ctx.slot]
    BY DEF submit_out_of_date, Submitted, NewSwapChain, WaitIdle, InSlot
<1>2. ctx.slot \in Slots
    BY <1>1 DEF FlightInv, FlightTypeOK, InSlot
<1>3. signalled' = Slots
    BY <1>1, <1>2, AllSignalled DEF submit_out_of_date
<1>4. FlightTypeOK'
    BY <1>1, <1>2, <1>3
       DEF FlightInv, FlightTypeOK, Frames, AllFrames, Slots, Images, InSlot,
           Submissions
<1>5. Slots' = Slots
    BY DEF Slots
<1> QED
    BY <1>1, <1>3, <1>4, <1>5, FlightRestarts

\* The next frame was waited for, and so is not under way.
LEMMA NextFrameDone ==
    ASSUME FlightInv, Done(frame_fences[Next_frame])
    PROVE  /\ Next_frame \in Frames /\ Next_frame \in AllFrames
           /\ \A i \in DOMAIN pending : pending[i].frame # Next_frame
<1>1. n_frames \in Nat /\ n_frames >= 1 /\ cur_frame \in 0..(n_frames - 1)
    BY Counts DEF FlightInv, FlightTypeOK, Frames
<1>2. Next_frame \in Frames
    BY <1>1 DEF Next_frame, Frames
<1>3. ASSUME NEW i \in DOMAIN pending, pending[i].frame = Next_frame PROVE FALSE
    <2>1. frame_fences[Next_frame] = pending[i].slot
        BY <1>3 DEF FlightInv, SlotInv
    <2>2. pending[i] \in Submissions
        BY DEF FlightInv, FlightTypeOK
    <2>3. pending[i].slot \in Slots /\ pending[i].slot \notin signalled
        BY <2>2 DEF FlightInv, SlotInv, Submissions
    <2>4. None \notin Slots
        BY Counts DEF Slots
    <2> QED
        BY <2>1, <2>3, <2>4 DEF Done
<1>4. Next_frame \in AllFrames
    BY <1>2, FramesInAll DEF FlightInv, FlightTypeOK
<1> QED
    BY <1>2, <1>3, <1>4

LEMMA StepVsync ==
    ASSUME FlightInv, vsync
    PROVE  FlightInv'
<1>1. Next_frame \in Frames /\ Next_frame \in AllFrames
      /\ \A i \in DOMAIN pending : pending[i].frame # Next_frame
    BY NextFrameDone DEF vsync
<1>2. pc = "vsync" /\ pc' = "host" /\ cur_frame' = Next_frame
      /\ UNCHANGED <<n_frames, i_frame, ctx, signalled, present_fences, pending>>
      /\ frame_fences' = [frame_fences EXCEPT ![Next_frame] = None]
    BY DEF vsync, device
<1>3. FlightTypeOK'
    BY <1>1, <1>2 DEF FlightInv, FlightTypeOK, Frames, AllFrames, Slots, Images,
       InSlot, Submissions
<1>4. \A i \in DOMAIN pending : pending[i].frame \in AllFrames
    BY FramesInAll DEF FlightInv, FlightTypeOK
<1>5. Slots' = Slots
    BY DEF Slots
<1>6. SlotInv'
    BY <1>1, <1>2, <1>4, <1>5
       DEF FlightInv, FlightTypeOK, SlotInv, FrameFree, InSlot, Base, Before
<1>7. ImageInv'
    BY <1>2 DEF FlightInv, ImageInv
<1> QED
    BY <1>3, <1>6, <1>7 DEF FlightInv

LEMMA StepComplete ==
    ASSUME FlightInv, complete
    PROVE  FlightInv'
<1> DEFINE L == Len(pending)
<1>1. UNCHANGED <<host, frame_fences, present_fences>> /\ pending # <<>>
      /\ pending' = Tail(pending) /\ signalled' = signalled \cup {Head(pending).slot}
    BY DEF complete
<1>2. L \in Nat /\ L >= 1 /\ DOMAIN pending = 1..L /\ DOMAIN pending' = 1..(L - 1)
      /\ Len(pending') = L - 1 /\ pending' \in Seq(Submissions)
      /\ Head(pending) = pending[1]
      /\ \A i \in 1..(L - 1) : pending'[i] = pending[i + 1]
    BY <1>1, HeadTailProperties, EmptySeq, LenProperties DEF FlightInv, FlightTypeOK
<1>3. \A i \in 1..(L - 1) : i + 1 \in 1..L /\ i + 1 # 1 /\ L - (i + 1) = (L - 1) - i
    BY <1>2
<1>4. FlightTypeOK'
    <2>1. \A i \in 1..(L - 1) :
            pending'[i].frame \in Frames /\ pending'[i].blocks \subseteq Blocks
        BY <1>2, <1>3 DEF FlightInv, FlightTypeOK
    <2>2. 1 \in 1..L
        <3> HIDE DEF L
        <3> QED
            BY <1>2
    <2>4. pending[1] \in Submissions
        BY <1>2, <2>2 DEF FlightInv, FlightTypeOK
    <2>3. Head(pending).slot \in Slots
        BY <1>2, <2>4 DEF Submissions
    <2> QED
        BY <1>1, <1>2, <2>1, <2>3
           DEF FlightInv, FlightTypeOK, Frames, AllFrames, Slots, Images, InSlot,
               Submissions, host
<1>5. \A i \in 1..(L - 1) :
        /\ pending'[i].slot = Before(Base, (L - 1) - i + 1)
        /\ frame_fences[pending'[i].frame] = pending'[i].slot
    <2>1. \A i \in 1..L : /\ pending[i].slot = Before(Base, L - i + 1)
                        /\ frame_fences[pending[i].frame] = pending[i].slot
        BY <1>2 DEF FlightInv, SlotInv
    <2> HIDE DEF L
    <2> QED
        BY <1>2, <1>3, <2>1
<1>6. \A i, j \in 1..(L - 1) : pending'[i].frame = pending'[j].frame => i = j
    <2>2. \A i, j \in 1..L : pending[i].frame = pending[j].frame => i = j
        BY <1>2 DEF FlightInv, SlotInv
    <2> HIDE DEF L
    <2> SUFFICES ASSUME NEW i \in 1..(L - 1), NEW j \in 1..(L - 1),
                        pending'[i].frame = pending'[j].frame
                 PROVE  i = j
        OBVIOUS
    <2>1. i + 1 = j + 1
        BY <1>2, <1>3, <2>2
    <2> QED
        BY <1>2, <2>1
<1>7. FrameFree'
    BY <1>1, <1>2, <1>3 DEF FlightInv, SlotInv, FrameFree, host
<1>8. signalled' = Slots \ {pending'[i].slot : i \in 1..(L - 1)}
    <2> DEFINE old == {pending[i].slot : i \in 1..L}
               now == {pending'[i].slot : i \in 1..(L - 1)}
               s == pending[1].slot
    <2>7. 1 \in 1..L
        <3> HIDE DEF L
        <3> QED
            BY <1>2
    <2>8. pending[1] \in Submissions
        BY <1>2, <2>7 DEF FlightInv, FlightTypeOK
    <2>1. 1 \in 1..L /\ s \in Slots /\ s \in old
        BY <2>7, <2>8 DEF Submissions
    <2>2. \A i \in 1..L : i = 1 \/ (i - 1 \in 1..(L - 1) /\ (i - 1) + 1 = i)
        BY <1>2
    <2>3. old = now \cup {s}
        <3> HIDE DEF L
        <3>1. ASSUME NEW i \in 1..L PROVE pending[i].slot \in now \cup {s}
            <4>1. CASE i = 1
                BY <4>1
            <4>2. CASE i # 1
                <5>1. i - 1 \in 1..(L - 1) /\ pending'[i - 1] = pending[i]
                    BY <1>2, <2>2, <4>2
                <5> QED
                    BY <5>1
            <4> QED
                BY <4>1, <4>2
        <3>2. ASSUME NEW i \in 1..(L - 1) PROVE pending'[i].slot \in old
            BY <1>2, <1>3
        <3> QED
            BY <2>1, <3>1, <3>2
    <2>4. s \notin now
        <3> SUFFICES ASSUME NEW i \in 1..(L - 1), pending[i + 1].slot = s
                     PROVE  FALSE
            BY <1>2
        <3>1. 1 \in DOMAIN pending /\ i + 1 \in DOMAIN pending /\ i + 1 # 1
            BY <1>2, <1>3, <2>1
        <3>2. i + 1 = 1
            BY <3>1, SlotsApart
        <3> QED
            BY <3>1, <3>2
    <2>5. signalled = Slots \ old
        BY <1>2 DEF FlightInv, SlotInv
    <2> QED
        BY <1>1, <1>2, <2>1, <2>3, <2>4, <2>5
<1>9. Slots' = Slots
    BY DEF Slots
<1>10. SlotInv'
    BY <1>1, <1>2, <1>5, <1>6, <1>7, <1>8, <1>9
       DEF FlightInv, SlotInv, InSlot, Base, Before, host
<1>11. ImageInv'
    <2>3. \A i, j \in 1..L : pending[i].img = pending[j].img => i = j
        BY <1>2 DEF FlightInv, ImageInv
    <2>1. \A i, j \in 1..(L - 1) : pending'[i].img = pending'[j].img => i = j
        <3> HIDE DEF L
        <3> SUFFICES ASSUME NEW i \in 1..(L - 1), NEW j \in 1..(L - 1),
                            pending'[i].img = pending'[j].img
                     PROVE  i = j
            OBVIOUS
        <3>1. i + 1 = j + 1
            BY <1>2, <1>3, <2>3
        <3> QED
            BY <1>2, <3>1
    <2>2. \A i \in 1..(L - 1) :
            present_fences[pending'[i].img] = pending'[i].slot
            /\ (pc = "record" => pending'[i].img # ctx.img)
        BY <1>2, <1>3 DEF FlightInv, ImageInv
    <2> QED
        BY <1>1, <1>2, <2>1, <2>2 DEF FlightInv, ImageInv, host
<1> QED
    BY <1>4, <1>10, <1>11 DEF FlightInv

-----------------------------------------------------------------------------
(* Staging memory.                                                         *)

FreeBlocks == [id : Blocks, age : Nat]

LEMMA Part ==
    ASSUME NEW S, NEW s \in Seq(S), NEW l, l = Len(s), NEW a \in Nat, NEW b \in Nat,
           1 <= a, a <= b + 1, b <= l
    PROVE  /\ SubSeq(s, a, b) \in Seq(S) /\ Len(SubSeq(s, a, b)) = b - a + 1
           /\ \A i \in 1..(b - a + 1) : SubSeq(s, a, b)[i] = s[a + i - 1]
<1>1. \A i \in 1..l : s[i] \in S
    BY LenProperties
<1>2. l \in Nat
    BY LenProperties
<1>3. a..b \subseteq 1..l
    BY <1>2
<1>4. \A i \in a..b : s[i] \in S
    BY <1>1, <1>3
<1> DEFINE t == SubSeq(s, a, b)
<1>5. t \in Seq(S) /\ Len(t) = (IF a <= b THEN b - a + 1 ELSE 0)
      /\ \A i \in 1..(b - a + 1) : t[i] = s[a + i - 1]
    BY <1>4, SubSeqProperties
<1>6. (IF a <= b THEN b - a + 1 ELSE 0) = b - a + 1
    OBVIOUS
<1> QED
    BY <1>5, <1>6

\* What is left of a list: the first n_frames, and those after m that were
\* destroyed, which are all that are at the age of n_frames in front.
RetiredTo(list, m) ==
    LET left == Retired(list)
    IN  /\ left \in Seq(FreeBlocks) /\ Len(left) = Len(list) - m
        /\ m \in Nat /\ m <= Len(list) /\ (m > 0 => n_frames + m <= Len(list))
        /\ \A i \in 1..(Len(list) - m) :
            left[i] = IF i <= n_frames THEN list[i]
                ELSE [id |-> list[i + m].id, age |-> list[i + m].age + 1]
        /\ \A i \in (n_frames + 1)..(n_frames + m) : list[i].age = n_frames
        /\ n_frames + m < Len(list) => list[n_frames + m + 1].age # n_frames

LEMMA RetiredIs ==
    ASSUME n_frames \in Nat, NEW list \in Seq(FreeBlocks)
    PROVE  \E m \in Nat : RetiredTo(list, m)
<1> DEFINE n == n_frames
           L == Len(list)
           k == IF n <= L THEN n ELSE L
           kept == SubSeq(list, 1, Min({n, L}))
           rest == SubSeq(list, n + 1, L)
           R == Len(rest)
           young == {i \in DOMAIN rest : rest[i].age # n}
           first == IF young = {} THEN R + 1 ELSE Min(young)
           old == [i \in 1..(R + 1 - first) |->
               [rest[first + i - 1] EXCEPT !.age = @ + 1]]
<1>1. Retired(list) = kept \o old
    BY DEF Retired
<1>2. n \in Nat /\ L \in Nat /\ k \in Nat /\ k <= L /\ Min({n, L}) = k
      /\ \A i \in 1..L : list[i] \in FreeBlocks
    BY MinOfTwo, LenProperties
<1>3. kept \in Seq(FreeBlocks) /\ Len(kept) = k /\ \A i \in 1..k : kept[i] = list[i]
    <2>1. kept = SubSeq(list, 1, k)
        BY <1>2
    <2>2. k <= L /\ L = Len(list) /\ k \in Nat /\ 1 <= k + 1 /\ k - 1 + 1 = k
          /\ \A i \in 1..k : 1 + i - 1 = i
        BY <1>2
    <2> HIDE DEF k, L
    <2>3. SubSeq(list, 1, k) \in Seq(FreeBlocks) /\ Len(SubSeq(list, 1, k)) = k - 1 + 1
          /\ \A i \in 1..(k - 1 + 1) : SubSeq(list, 1, k)[i] = list[1 + i - 1]
        BY <2>2, Part
    <2> QED
        BY <2>1, <2>2, <2>3
<1>4. R = (IF n <= L THEN L - n ELSE 0) /\ rest \in Seq(FreeBlocks)
      /\ \A i \in 1..R : rest[i] = list[n + i]
    <2>1. CASE n <= L
        <3>1. L = Len(list) /\ n + 1 \in Nat /\ 1 <= n + 1 /\ n + 1 <= L + 1 /\ L <= L
              /\ L - (n + 1) + 1 = L - n /\ \A i \in 1..(L - n) : (n + 1) + i - 1 = n + i
            BY <1>2, <2>1
        <3> HIDE DEF L, n
        <3>2. rest \in Seq(FreeBlocks) /\ Len(rest) = L - (n + 1) + 1
              /\ \A i \in 1..(L - (n + 1) + 1) : rest[i] = list[(n + 1) + i - 1]
            BY <1>2, <3>1, Part
        <3> QED
            BY <2>1, <3>1, <3>2
    <2>2. CASE ~(n <= L)
        <3>1. rest = <<>>
            BY <1>2, <2>2, SubSeqEmpty
        <3> HIDE DEF rest
        <3> QED
            BY <1>2, <2>2, <3>1
    <2> QED
        BY <2>1, <2>2
<1> HIDE DEF kept, rest
<1>5. R \in Nat /\ DOMAIN rest = 1..R /\ young \in SUBSET Nat
    BY <1>4, LenProperties
<1>6. /\ first \in 1..(R + 1)
      /\ \A i \in 1..(first - 1) : rest[i].age = n
      /\ first <= R => rest[first].age # n
    <2> HIDE DEF R
    <2>1. CASE young = {}
        BY <1>5, <2>1
    <2>2. CASE young # {}
        <3>1. Min(young) \in young /\ \A y \in young : Min(young) <= y
            BY <1>5, <2>2, MinIs
        <3>2. first = Min(young)
            BY <2>2
        <3> DEFINE a == first
        <3> HIDE DEF first
        <3>3. first \in 1..R /\ rest[first].age # n /\ \A y \in young : first <= y
            BY <1>5, <3>1, <3>2
        <3>4. ASSUME NEW i \in 1..(first - 1) PROVE rest[i].age = n
            <4>1. i \in 1..R /\ ~(first <= i)
                BY <1>5, <3>3
            <4>2. i \notin young
                BY <3>3, <4>1
            <4> QED
                BY <1>5, <4>1, <4>2
        <3> QED
            BY <1>5, <3>3, <3>4
    <2> QED
        BY <2>1, <2>2
<1> HIDE DEF young, first
<1> DEFINE m == first - 1
           O == R + 1 - first
<1>7. m \in Nat /\ O \in Nat /\ m + O = R /\ first = m + 1
    <2> HIDE DEF R
    <2> QED
        BY <1>5, <1>6
<1>8. ASSUME NEW i \in 1..O
      PROVE  /\ first + i - 1 \in 1..R /\ first + i - 1 = m + i
             /\ old[i] = [id |-> list[n + m + i].id, age |-> list[n + m + i].age + 1]
             /\ old[i] \in FreeBlocks
    <2>1. first + i - 1 = m + i /\ m + i \in 1..R
        <3> HIDE DEF R
        <3> QED
            BY <1>5, <1>6
    <2>2. rest[m + i] = list[n + m + i] /\ rest[m + i] \in FreeBlocks
        <3>3. \A j \in 1..R : rest[j] = list[n + j] /\ rest[j] \in FreeBlocks
            BY <1>4, <1>5
        <3>4. m + i \in 1..R
            BY <2>1
        <3> DEFINE j == m + i
        <3>1. rest[j] = list[n + j] /\ rest[j] \in FreeBlocks
            <4> HIDE DEF j, R
            <4>1. j \in 1..R
                BY <3>4 DEF j
            <4> QED
                BY <3>3, <4>1
        <3>2. n + (m + i) = n + m + i
            BY <1>2, <1>7
        <3> QED
            BY <3>1, <3>2
    <2>3. old[i] = [rest[first + i - 1] EXCEPT !.age = @ + 1]
        BY Zenon
    <2>4. old[i] = [rest[m + i] EXCEPT !.age = @ + 1]
        BY <2>1, <2>3, Zenon
    <2> HIDE DEF old
    <2> DEFINE x == rest[m + i]
    <2>5. x \in FreeBlocks /\ x = list[n + m + i]
        BY <2>2
    <2>6. [x EXCEPT !.age = @ + 1] = [id |-> x.id, age |-> x.age + 1]
        <3> HIDE DEF x
        <3> QED
            BY <2>5 DEF FreeBlocks
    <2>7. x.id \in Blocks /\ x.age + 1 \in Nat
        <3> HIDE DEF x
        <3> QED
            BY <2>5 DEF FreeBlocks
    <2> QED
        BY <2>1, <2>4, <2>5, <2>6, <2>7 DEF FreeBlocks
<1>9. old \in Seq(FreeBlocks) /\ Len(old) = O
    <2>1. old = [i \in 1..O |-> old[i]]
        BY Zenon
    <2>2. O \in Nat /\ \A i \in 1..O : old[i] \in FreeBlocks
        BY <1>7, <1>8
    <2> HIDE DEF old, O
    <2>3. old \in [1..O -> FreeBlocks]
        BY <2>1, <2>2
    <2> QED
        BY <2>2, <2>3
<1> HIDE DEF old, O
<1>10. kept \o old \in Seq(FreeBlocks) /\ Len(kept \o old) = k + O
       /\ \A i \in 1..(k + O) :
           (kept \o old)[i] = IF i <= k THEN kept[i] ELSE old[i - k]
    <2>1. kept \o old \in Seq(FreeBlocks) /\ Len(kept \o old) = Len(kept) + Len(old)
          /\ \A i \in 1..(Len(kept) + Len(old)) : (kept \o old)[i] =
                IF i <= Len(kept) THEN kept[i] ELSE old[i - Len(kept)]
        BY <1>3, <1>9, ConcatProperties
    <2> QED
        BY <1>3, <1>9, <2>1
<1> DEFINE left == Retired(list)
<1>11. left \in Seq(FreeBlocks) /\ Len(left) = k + O
       /\ \A i \in 1..(k + O) : left[i] = IF i <= k THEN kept[i] ELSE old[i - k]
    BY <1>1, <1>10
<1> HIDE DEF left, O
<1>12. k + O = L - m /\ m <= L /\ (m > 0 => n + m <= L)
       /\ (O > 0 => k = n) /\ m <= R /\ (n + m < L => R = L - n /\ m + 1 \in 1..R)
    <2> HIDE DEF m, L, n, R
    <2> QED
        BY <1>2, <1>4, <1>5, <1>7
<1>13. ASSUME NEW i \in 1..(L - m)
       PROVE  left[i] = IF i <= n THEN list[i]
                        ELSE [id |-> list[i + m].id, age |-> list[i + m].age + 1]
    <2> HIDE DEF m, L, n
    <2>1. CASE i <= k
        <3>1. i <= n /\ i \in 1..k /\ i \in 1..(k + O)
            BY <1>2, <1>12, <2>1
        <3> QED
            BY <1>3, <1>11, <2>1, <3>1
    <2>2. CASE ~(i <= k)
        <3>1. i \in 1..(k + O) /\ i - k \in 1..O /\ O > 0 /\ k = n
            BY <1>2, <1>7, <1>12, <2>2
        <3>2. n + m + (i - k) = i + m /\ ~(i <= n)
            BY <1>2, <1>7, <2>2, <3>1
        <3>3. left[i] = old[i - k]
            BY <1>11, <2>2, <3>1
        <3> QED
            BY <1>8, <3>1, <3>2, <3>3
    <2> QED
        BY <2>1, <2>2
<1>14. ASSUME NEW i \in (n + 1)..(n + m) PROVE list[i].age = n
    <2> HIDE DEF L, n, R
    <2>1. i - n \in 1..m /\ i - n \in 1..R /\ n + (i - n) = i
        BY <1>2, <1>5, <1>7, <1>12
    <2> QED
        BY <1>4, <1>6, <2>1
<1>15. n + m < L => list[n + m + 1].age # n
    <2> SUFFICES ASSUME n + m < L PROVE list[n + m + 1].age # n
        OBVIOUS
    <2> HIDE DEF m, L, n, R
    <2>1. first <= R /\ first \in 1..R /\ n + first = n + m + 1
        BY <1>2, <1>5, <1>7, <1>12
    <2> QED
        BY <1>4, <1>6, <2>1
<1>16. RetiredTo(list, m)
    <2> HIDE DEF m
    <2> QED
        BY <1>7, <1>11, <1>12, <1>13, <1>14, <1>15 DEF RetiredTo, left
<1> QED
    BY <1>7, <1>16

LEMMA ConcatApart ==
    ASSUME NEW S, NEW s \in Seq(S), NEW t \in Seq(S)
    PROVE  /\ s \o t \in Seq(S)
           /\ Range(s \o t) = Range(s) \cup Range(t)
           /\ IsInjective(s) /\ IsInjective(t) /\ Range(s) \cap Range(t) = {}
               => IsInjective(s \o t)
<1> DEFINE st == s \o t
<1>1. PICK l \in Nat, k \in Nat :
        l = Len(s) /\ k = Len(t) /\ DOMAIN s = 1..l /\ DOMAIN t = 1..k
    BY LenProperties
<1>2. st \in Seq(S) /\ Len(st) = Len(s) + Len(t)
      /\ \A i \in 1..(Len(s) + Len(t)) :
          st[i] = IF i <= Len(s) THEN s[i] ELSE t[i - Len(s)]
    BY ConcatProperties
<1> HIDE DEF st
<1>3. DOMAIN st = 1..(l + k)
      /\ \A i \in 1..(l + k) : st[i] = IF i <= l THEN s[i] ELSE t[i - l]
    BY <1>1, <1>2, LenProperties
<1>4. \A i \in 1..(l + k) :
        IF i <= l THEN i \in 1..l /\ st[i] = s[i]
        ELSE i - l \in 1..k /\ st[i] = t[i - l]
    BY <1>1, <1>3
<1>5. \A i \in 1..l : i \in 1..(l + k) /\ st[i] = s[i]
    BY <1>1, <1>3
<1>6. \A i \in 1..k : l + i \in 1..(l + k) /\ st[l + i] = t[i]
    <2> SUFFICES ASSUME NEW i \in 1..k
                 PROVE  l + i \in 1..(l + k) /\ st[l + i] = t[i]
        OBVIOUS
    <2>1. l + i \in 1..(l + k) /\ ~(l + i <= l) /\ (l + i) - l = i
        BY <1>1
    <2>2. st[l + i] = t[(l + i) - l]
        BY <1>3, <2>1
    <2> QED
        BY <2>1, <2>2
<1>7. Range(st) = Range(s) \cup Range(t)
    <2>1. ASSUME NEW i \in 1..(l + k) PROVE st[i] \in Range(s) \cup Range(t)
        BY <1>1, <1>4 DEF Range
    <2>2. ASSUME NEW i \in 1..l PROVE s[i] \in Range(st)
        BY <1>3, <1>5 DEF Range
    <2>3. ASSUME NEW i \in 1..k PROVE t[i] \in Range(st)
        BY <1>3, <1>6 DEF Range
    <2>4. Range(st) \subseteq Range(s) \cup Range(t)
        BY <1>3, <2>1 DEF Range
    <2>5. Range(s) \subseteq Range(st) /\ Range(t) \subseteq Range(st)
        BY <1>1, <2>2, <2>3 DEF Range
    <2> QED
        BY <2>4, <2>5
<1>8. ASSUME IsInjective(s), IsInjective(t), Range(s) \cap Range(t) = {},
             NEW i \in 1..(l + k), NEW j \in 1..(l + k), st[i] = st[j]
      PROVE  i = j
    <2>1. \A x \in 1..l, y \in 1..k : s[x] # t[y]
        BY <1>1, <1>8 DEF Range
    <2>2. CASE i <= l /\ j <= l
        BY <1>1, <1>4, <1>8, <2>2 DEF IsInjective
    <2>3. CASE ~(i <= l) /\ ~(j <= l)
        <3>1. i - l \in 1..k /\ j - l \in 1..k /\ t[i - l] = t[j - l]
            BY <1>4, <1>8, <2>3
        <3>2. i - l = j - l
            BY <1>1, <1>8, <3>1 DEF IsInjective
        <3> QED
            BY <1>1, <3>2
    <2>4. CASE i <= l /\ ~(j <= l)
        BY <1>4, <1>8, <2>1, <2>4
    <2>5. CASE ~(i <= l) /\ j <= l
        BY <1>4, <1>8, <2>1, <2>5
    <2> QED
        BY <2>2, <2>3, <2>4, <2>5
<1> QED
    BY <1>2, <1>3, <1>7, <1>8 DEF IsInjective, st

LEMMA SetToSeqIs ==
    ASSUME NEW S, IsFiniteSet(S)
    PROVE  /\ SetToSeq(S) \in Seq(S) /\ IsInjective(SetToSeq(S))
           /\ Len(SetToSeq(S)) = Cardinality(S)
<1> DEFINE n == Cardinality(S)
<1>1. n \in Nat /\ ExistsBijection(1..n, S)
    BY FS_CardinalityType
<1>2. \E f \in [1..n -> S] : IsInjective(f)
    BY <1>1 DEF ExistsBijection, Bijection, Injection, Surjection, IsInjective
<1>3. SetToSeq(S) \in [1..n -> S] /\ IsInjective(SetToSeq(S))
    BY <1>2 DEF SetToSeq
<1> HIDE DEF n
<1> QED
    BY <1>1, <1>3 DEF n

StagingTypeOK ==
    /\ blocks \in [AllFrames -> [ids : Seq(Blocks), room : 0..(Capacity - 1)]]
    /\ free \in Seq(FreeBlocks)
    /\ idle \in [Blocks -> Nat]

LEMMA Division ==
    ASSUME NEW k \in Nat, NEW m \in Nat \ {0}
    PROVE  k = m * (k \div m) + (k % m) /\ k % m \in 0..(m - 1) /\ k \div m \in Nat
  OBVIOUS

LEMMA RoomLeft ==
    ASSUME NEW d \in Nat, d > 0, NEW c \in Nat, c >= 1, NEW q, q = (d + c - 1) \div c
    PROVE  q \in Nat /\ q * c - d \in 0..(c - 1)
<1> DEFINE x == d + c - 1
           r == x % c
<1>1. x \in Nat /\ c \in Nat \ {0} /\ q = x \div c
    OBVIOUS
<1>2. x = c * q + r /\ r \in 0..(c - 1) /\ q \in Nat
    <2> HIDE DEF x
    <2> QED
        BY <1>1, Division
<1>3. q * c = c * q /\ c * q \in Nat
    BY <1>2
<1> DEFINE p == c * q
<1>4. x = p + r /\ q * c = p /\ p \in Nat
    BY <1>2, <1>3
<1> HIDE DEF p, r
<1> QED
    BY <1>1, <1>2, <1>4

\* The last blocks of the list, from its end, and then new ones.
FromList(r) == [i \in 1..r |-> free[Len(free) + 1 - i].id]

StagedWith(f, r, new, room) ==
    /\ IsInjective(new) /\ Range(new) \cap Alive = {}
    /\ blocks' = [blocks EXCEPT
        ![f] = [ids |-> blocks[f].ids \o (FromList(r) \o new), room |-> room]]
    /\ free' = SubSeq(free, 1, Len(free) - r)

LEMMA StagedIs ==
    ASSUME StagingTypeOK, NEW f \in AllFrames, NEW n \in Nat, Staged(f, n)
    PROVE  \E r \in 0..Len(free), new \in Seq(Blocks), room \in 0..(Capacity - 1) :
               StagedWith(f, r, new, room)
<1> DEFINE before == blocks[f].room
           need == IF n <= before THEN 0 ELSE (n - before + Capacity - 1) \div Capacity
           reused == Min({need, Len(free)})
           all == SetToSeq(Blocks \ Alive)
           new == SubSeq(all, 1, need - reused)
           room == before + need * Capacity - n
<1>1. /\ need - reused <= Len(all)
      /\ blocks' = [blocks EXCEPT ![f] = [ids |-> @.ids \o (FromList(reused) \o new),
            room |-> room]]
      /\ free' = SubSeq(free, 1, Len(free) - reused)
    BY Zenon DEF Staged, FromList
<1>2. before \in 0..(Capacity - 1) /\ Capacity \in Nat /\ Capacity >= 1
    BY Counts DEF StagingTypeOK
<1>3. need \in Nat /\ room \in 0..(Capacity - 1)
    <2> HIDE DEF before
    <2>1. CASE n <= before
        <3>1. need = 0 /\ room = before + 0 * Capacity - n /\ 0 * Capacity = 0
            BY <1>2, <2>1
        <3> QED
            BY <1>2, <2>1, <3>1
    <2>2. CASE ~(n <= before)
        <3> DEFINE d == n - before
        <3>1. d \in Nat /\ d > 0 /\ need = (d + Capacity - 1) \div Capacity
            BY <1>2, <2>2
        <3>2. need \in Nat /\ need * Capacity - d \in 0..(Capacity - 1)
            <4> HIDE DEF need, d
            <4> QED
                BY <1>2, <3>1, RoomLeft
        <3> DEFINE p == need * Capacity
        <3>3. p \in Nat
            <4> HIDE DEF need
            <4> QED
                BY <1>2, <3>2
        <3>4. p - d \in 0..(Capacity - 1) /\ room = before + p - n
            BY <3>2
        <3> HIDE DEF p, need, room
        <3> QED
            BY <1>2, <3>2, <3>3, <3>4
    <2> QED
        BY <2>1, <2>2
<1> HIDE DEF need, room
<1>4. reused \in 0..Len(free) /\ reused <= need
    <2>1. PICK l \in Nat : l = Len(free)
        BY LenProperties DEF StagingTypeOK
    <2>2. reused = IF need <= l THEN need ELSE l
        BY <1>3, <2>1, MinOfTwo
    <2> HIDE DEF reused
    <2> QED
        BY <1>3, <2>1, <2>2
<1> HIDE DEF reused
<1>5. all \in Seq(Blocks \ Alive) /\ IsInjective(all)
    <2>1. IsFiniteSet(Blocks \ Alive)
        BY FramesInFlightAssumption, FS_Subset DEF FramesInFlightAssumption
    <2> QED
        BY <2>1, SetToSeqIs
<1> HIDE DEF all
<1>6. new \in Seq(Blocks \ Alive) /\ IsInjective(new)
    <2> DEFINE k == need - reused
    <2>1. PICK l \in Nat : l = Len(all)
        BY <1>5, LenProperties
    <2>2. PICK u \in Nat : u = Len(free)
        BY LenProperties DEF StagingTypeOK
    <2>3. k \in Nat /\ k <= l
        BY <1>1, <1>3, <1>4, <2>1, <2>2
    <2> HIDE DEF k
    <2>4. 1 <= k + 1 /\ k - 1 + 1 = k /\ \A i \in 1..k : 1 + i - 1 = i /\ i \in 1..l
        BY <2>3
    <2>5. SubSeq(all, 1, k) \in Seq(Blocks \ Alive) /\ Len(SubSeq(all, 1, k)) = k - 1 + 1
          /\ \A i \in 1..(k - 1 + 1) : SubSeq(all, 1, k)[i] = all[1 + i - 1]
        BY <1>5, <2>1, <2>3, <2>4, Part
    <2>6. new = SubSeq(all, 1, k)
        BY DEF k
    <2> HIDE DEF new
    <2>7. new \in Seq(Blocks \ Alive) /\ Len(new) = k /\ \A i \in 1..k : new[i] = all[i]
        BY <2>4, <2>5, <2>6
    <2>8. DOMAIN new = 1..k /\ DOMAIN all = 1..l
        BY <1>5, <2>1, <2>7, LenProperties
    <2>9. \A i, j \in 1..k : new[i] = new[j] => i = j
        BY <1>5, <2>4, <2>7, <2>8 DEF IsInjective
    <2> QED
        BY <2>7, <2>8, <2>9 DEF IsInjective
<1> HIDE DEF new
<1>7. Range(new) \cap Alive = {}
    BY <1>6, LenProperties DEF Range
<1>8. new \in Seq(Blocks)
    BY <1>6
<1>9. StagedWith(f, reused, new, room)
    BY <1>1, <1>6, <1>7 DEF StagedWith, StagingTypeOK
<1> QED
    BY <1>3, <1>4, <1>8, <1>9

\* What is past the first n_frames gets older, the first of them first.
Aged ==
    /\ \A i \in DOMAIN free : free[i].age <= n_frames
    /\ \A i \in DOMAIN free : i > n_frames => idle[free[i].id] = free[i].age
    /\ \A i, j \in DOMAIN free : n_frames < i /\ i < j => free[i].age >= free[j].age

\* The end of the list, reversed, and what is left of it.
LEMMA Taken ==
    ASSUME StagingTypeOK, OnePlace, NEW r \in 0..Len(free),
           NEW left, left = SubSeq(free, 1, Len(free) - r)
    PROVE  /\ left \in Seq(FreeBlocks) /\ FromList(r) \in Seq(Blocks)
           /\ DOMAIN left \subseteq DOMAIN free /\ \A i \in DOMAIN left : left[i] = free[i]
           /\ IsInjective(FromList(r))
           /\ Ids(free) = Ids(left) \cup Range(FromList(r))
           /\ Ids(left) \cap Range(FromList(r)) = {}
<1>1. PICK l \in Nat : l = Len(free) /\ DOMAIN free = 1..l
    BY LenProperties DEF StagingTypeOK
<1> DEFINE k == l - r
           t == FromList(r)
<1>2. k \in Nat /\ k <= l /\ 1 <= k + 1 /\ k - 1 + 1 = k /\ r \in Nat /\ k + r = l
      /\ \A i \in 1..k : 1 + i - 1 = i /\ i \in 1..l
    BY <1>1
<1>3. left = SubSeq(free, 1, k)
    BY <1>1
<1> HIDE DEF k
<1>4. left \in Seq(FreeBlocks) /\ DOMAIN left = 1..k /\ \A i \in 1..k : left[i] = free[i]
    <2>1. left \in Seq(FreeBlocks) /\ Len(left) = k - 1 + 1
          /\ \A i \in 1..(k - 1 + 1) : left[i] = free[1 + i - 1]
        BY <1>1, <1>2, <1>3, Part DEF StagingTypeOK
    <2> QED
        BY <1>2, <2>1, LenProperties
<1>5. \A i \in 1..l : free[i].id \in Blocks
    <2>1. \A i \in 1..l : free[i] \in FreeBlocks
        BY <1>1 DEF StagingTypeOK
    <2> QED
        BY <2>1 DEF FreeBlocks
<1>6. \A i \in 1..r : l + 1 - i \in 1..l /\ ~(l + 1 - i \in 1..k)
    BY <1>2
<1>7. DOMAIN t = 1..r /\ \A i \in 1..r : t[i] = free[l + 1 - i].id
    BY <1>1 DEF FromList
<1>8. t \in Seq(Blocks)
    <2>1. t = [i \in 1..r |-> t[i]]
        BY <1>1 DEF FromList
    <2> HIDE DEF t
    <2>2. \A i \in 1..r : t[i] \in Blocks
        BY <1>5, <1>6, <1>7
    <2>3. t \in [1..r -> Blocks]
        BY <2>1, <2>2
    <2> QED
        BY <1>2, <2>3
<1> HIDE DEF t
<1>9. \A i, j \in 1..l : free[i].id = free[j].id => i = j
    BY <1>1 DEF OnePlace
<1>10. IsInjective(t)
    <2> SUFFICES ASSUME NEW i \in 1..r, NEW j \in 1..r, t[i] = t[j] PROVE i = j
        BY <1>7 DEF IsInjective
    <2>1. l + 1 - i = l + 1 - j
        BY <1>6, <1>7, <1>9
    <2> QED
        BY <1>2, <2>1
<1>11. Ids(free) \subseteq Ids(left) \cup Range(t)
    <2> SUFFICES ASSUME NEW i \in 1..l PROVE free[i].id \in Ids(left) \cup Range(t)
        BY <1>1 DEF Ids
    <2>1. CASE i <= k
        <3>1. i \in 1..k
            BY <1>2, <2>1
        <3> QED
            BY <1>4, <3>1 DEF Ids
    <2>2. CASE ~(i <= k)
        <3>1. l + 1 - i \in 1..r /\ l + 1 - (l + 1 - i) = i
            BY <1>2, <2>2
        <3>2. t[l + 1 - i] = free[i].id
            BY <1>7, <3>1
        <3> QED
            BY <1>7, <3>1, <3>2 DEF Range
    <2> QED
        BY <2>1, <2>2
<1>12. Ids(left) \subseteq Ids(free) /\ Range(t) \subseteq Ids(free)
    <2>1. ASSUME NEW i \in 1..k PROVE left[i].id \in Ids(free)
        BY <1>1, <1>2, <1>4 DEF Ids
    <2>2. ASSUME NEW i \in 1..r PROVE t[i] \in Ids(free)
        BY <1>1, <1>6, <1>7 DEF Ids
    <2>3. \A x \in Ids(left) : \E i \in 1..k : x = left[i].id
        BY <1>4 DEF Ids
    <2>4. \A x \in Range(t) : \E i \in 1..r : x = t[i]
        BY <1>7 DEF Range
    <2> QED
        BY <2>1, <2>2, <2>3, <2>4
<1>13. ASSUME NEW x \in Ids(left), x \in Range(t) PROVE FALSE
    <2>1. PICK i \in 1..k : x = free[i].id
        BY <1>4 DEF Ids
    <2>2. PICK j \in 1..r : x = free[l + 1 - j].id
        BY <1>7, <1>13 DEF Range
    <2>3. i = l + 1 - j
        BY <1>2, <1>6, <1>9, <2>1, <2>2
    <2> QED
        BY <1>6, <2>3
<1>14. 1..k \subseteq 1..l
    BY <1>2
<1> QED
    BY <1>1, <1>4, <1>8, <1>10, <1>11, <1>12, <1>13, <1>14 DEF t

\* Blocks go from the list to the frame, with new ones.
LEMMA StagedKeeps ==
    ASSUME StagingTypeOK, OnePlace, Aged, NEW f \in AllFrames, NEW n \in Nat,
           Staged(f, n), UNCHANGED <<n_frames, idle>>
    PROVE  /\ StagingTypeOK' /\ OnePlace' /\ Aged'
           /\ \A g \in AllFrames : g # f => InUse(g)' = InUse(g)
           /\ Alive \subseteq Alive'
<1>1. PICK r \in 0..Len(free), new \in Seq(Blocks), room \in 0..(Capacity - 1) :
        StagedWith(f, r, new, room)
    BY StagedIs
<1> DEFINE ids == blocks[f].ids
           t == FromList(r)
           now == ids \o (t \o new)
<1>2. IsInjective(new) /\ Range(new) \cap Alive = {}
      /\ blocks' = [blocks EXCEPT ![f] = [ids |-> now, room |-> room]]
      /\ free' = SubSeq(free, 1, Len(free) - r)
    BY <1>1 DEF StagedWith
<1>3. /\ free' \in Seq(FreeBlocks) /\ t \in Seq(Blocks)
      /\ DOMAIN free' \subseteq DOMAIN free /\ \A i \in DOMAIN free' : free'[i] = free[i]
      /\ IsInjective(t) /\ Ids(free) = Ids(free') \cup Range(t)
      /\ Ids(free') \cap Range(t) = {}
    BY <1>2, Taken
<1>4. ids \in Seq(Blocks) /\ IsInjective(ids) /\ Range(ids) \cap Ids(free) = {}
      /\ Range(ids) \subseteq Alive /\ Ids(free) \subseteq Alive
    BY DEF StagingTypeOK, OnePlace, InUse, Alive
<1> HIDE DEF t, ids
<1>5. t \o new \in Seq(Blocks) /\ IsInjective(t \o new)
      /\ Range(t \o new) = Range(t) \cup Range(new)
    BY <1>2, <1>3, <1>4, ConcatApart
<1>6. now \in Seq(Blocks) /\ IsInjective(now)
      /\ Range(now) = Range(ids) \cup Range(t) \cup Range(new)
    <2> DEFINE tn == t \o new
    <2>1. tn \in Seq(Blocks) /\ IsInjective(tn) /\ Range(tn) = Range(t) \cup Range(new)
        BY <1>5
    <2> HIDE DEF tn
    <2>2. Range(ids) \cap Range(tn) = {}
        BY <1>2, <1>3, <1>4, <2>1
    <2>3. ids \o tn \in Seq(Blocks) /\ IsInjective(ids \o tn)
          /\ Range(ids \o tn) = Range(ids) \cup Range(tn)
        BY <1>4, <2>1, <2>2, ConcatApart
    <2>4. now = ids \o tn
        BY DEF tn
    <2> QED
        BY <2>1, <2>3, <2>4
<1> HIDE DEF now
<1>7. AllFrames' = AllFrames /\ DOMAIN blocks = AllFrames
    BY DEF AllFrames, StagingTypeOK
<1>8. /\ blocks'[f].ids = now /\ InUse(f)' = Range(now)
      /\ \A g \in AllFrames : g # f => blocks'[g] = blocks[g] /\ InUse(g)' = InUse(g)
    BY <1>2, <1>7 DEF InUse
<1>9. StagingTypeOK'
    BY <1>2, <1>3, <1>6, <1>7 DEF StagingTypeOK, FreeBlocks
<1>10. \A g \in AllFrames : InUse(g) \subseteq Alive
    BY DEF Alive
<1>11. \A g \in AllFrames : g # f => InUse(g) \cap Range(now) = {}
    <2>1. \A g \in AllFrames : g # f =>
            InUse(g) \cap Range(ids) = {} /\ InUse(g) \cap Ids(free) = {}
        BY DEF OnePlace, InUse, ids
    <2> QED
        BY <1>2, <1>3, <1>6, <1>10, <2>1
<1>12. OnePlace'
    <2>1. \A i, j \in DOMAIN free' : free'[i].id = free'[j].id => i = j
        BY <1>3 DEF OnePlace
    <2>2. \A g \in AllFrames :
            IsInjective(blocks'[g].ids) /\ InUse(g)' \cap Ids(free') = {}
        <3>1. IsInjective(blocks'[f].ids) /\ InUse(f)' \cap Ids(free') = {}
            BY <1>2, <1>3, <1>4, <1>6, <1>8
        <3>2. \A g \in AllFrames : g # f =>
                IsInjective(blocks'[g].ids) /\ InUse(g)' \cap Ids(free') = {}
            BY <1>3, <1>8 DEF OnePlace
        <3> QED
            BY <3>1, <3>2
    <2>3. \A g, h \in AllFrames : g # h => InUse(g)' \cap InUse(h)' = {}
        BY <1>8, <1>11 DEF OnePlace
    <2> QED
        BY <1>7, <2>1, <2>2, <2>3 DEF OnePlace, Ids
<1>13. Aged'
    BY <1>3 DEF Aged
<1>14. Alive \subseteq Alive'
    <2>1. Alive' = Ids(free') \cup UNION {InUse(g)' : g \in AllFrames}
        BY <1>7 DEF Alive, Ids
    <2>2. \A g \in AllFrames : InUse(g) \subseteq InUse(g)'
        <3>1. InUse(f) \subseteq InUse(f)'
            BY <1>6, <1>8 DEF InUse, ids
        <3> QED
            BY <1>8, <3>1
    <2>3. Ids(free) \subseteq Ids(free') \cup InUse(f)'
        BY <1>3, <1>6, <1>8
    <2> QED
        BY <2>1, <2>2, <2>3 DEF Alive
<1> QED
    BY <1>8, <1>9, <1>12, <1>13, <1>14

\* The list with the blocks of a frame at its end.
LEMMA ReleasedIs ==
    ASSUME StagingTypeOK, OnePlace, NEW f \in AllFrames,
           NEW list, list = Released(f)
    PROVE  /\ list \in Seq(FreeBlocks) /\ Len(free) \in Nat /\ Len(free) <= Len(list)
           /\ \A i \in 1..Len(list) :
               IF i <= Len(free) THEN i \in DOMAIN free /\ list[i] = free[i]
               ELSE list[i].id \in InUse(f) /\ list[i].age = 0
           /\ \A i, j \in 1..Len(list) : list[i].id = list[j].id => i = j
           /\ Ids(list) = Ids(free) \cup InUse(f)
<1> DEFINE ids == blocks[f].ids
           last == [i \in DOMAIN ids |-> [id |-> ids[i], age |-> 0]]
<1>1. ids \in Seq(Blocks) /\ IsInjective(ids) /\ Range(ids) \cap Ids(free) = {}
      /\ InUse(f) = Range(ids)
    BY DEF StagingTypeOK, OnePlace, InUse
<1>2. list = free \o last
    BY DEF Released
<1> HIDE DEF ids
<1>3. PICK l \in Nat, k \in Nat :
        l = Len(free) /\ k = Len(ids) /\ DOMAIN free = 1..l /\ DOMAIN ids = 1..k
    BY <1>1, LenProperties DEF StagingTypeOK
<1>4. \A i \in 1..k : ids[i] \in Blocks /\ last[i] = [id |-> ids[i], age |-> 0]
    BY <1>1, <1>3
<1>5. last \in Seq(FreeBlocks) /\ Len(last) = k
    <2>1. last = [i \in 1..k |-> last[i]]
        BY <1>3
    <2> HIDE DEF last
    <2>4. \A b \in Blocks : [id |-> b, age |-> 0] \in FreeBlocks
        BY DEF FreeBlocks
    <2>2. \A i \in 1..k : last[i] \in FreeBlocks
        BY <1>4, <2>4
    <2>3. last \in [1..k -> FreeBlocks]
        BY <2>1, <2>2
    <2> QED
        BY <1>3, <2>3
<1> HIDE DEF last
<1>6. list \in Seq(FreeBlocks) /\ Len(list) = l + k
      /\ \A i \in 1..(l + k) : list[i] = IF i <= l THEN free[i] ELSE last[i - l]
    <2>1. free \o last \in Seq(FreeBlocks) /\ Len(free \o last) = Len(free) + Len(last)
          /\ \A i \in 1..(Len(free) + Len(last)) : (free \o last)[i] =
                IF i <= Len(free) THEN free[i] ELSE last[i - Len(free)]
        BY <1>5, ConcatProperties DEF StagingTypeOK
    <2> QED
        BY <1>2, <1>3, <1>5, <2>1
<1>7. \A i \in 1..(l + k) :
        IF i <= l THEN i \in 1..l /\ list[i] = free[i]
        ELSE /\ i - l \in 1..k /\ list[i].id = ids[i - l] /\ list[i].age = 0
    <2>1. \A i \in 1..(l + k) : IF i <= l THEN i \in 1..l ELSE i - l \in 1..k
        BY <1>3
    <2> SUFFICES ASSUME NEW i \in 1..(l + k)
                 PROVE  IF i <= l THEN i \in 1..l /\ list[i] = free[i]
                        ELSE /\ i - l \in 1..k /\ list[i].id = ids[i - l]
                             /\ list[i].age = 0
        OBVIOUS
    <2>2. CASE i <= l
        BY <1>6, <2>1, <2>2
    <2>3. CASE ~(i <= l)
        <3>1. i - l \in 1..k /\ list[i] = last[i - l]
            BY <1>6, <2>1, <2>3
        <3>2. list[i] = [id |-> ids[i - l], age |-> 0]
            BY <1>4, <3>1
        <3> QED
            BY <2>3, <3>1, <3>2
    <2> QED
        BY <2>2, <2>3
<1>8. \A i \in 1..k : ids[i] \in InUse(f) /\ ids[i] \notin Ids(free)
    BY <1>1, <1>3 DEF Range
<1>9. \A i \in 1..l : free[i].id \in Ids(free)
    BY <1>3 DEF Ids
<1>10. ASSUME NEW i \in 1..(l + k), NEW j \in 1..(l + k), list[i].id = list[j].id
       PROVE  i = j
    <2>1. CASE i <= l /\ j <= l
        BY <1>3, <1>7, <1>10, <2>1 DEF OnePlace
    <2>2. CASE ~(i <= l) /\ ~(j <= l)
        <3>1. i - l \in 1..k /\ j - l \in 1..k /\ ids[i - l] = ids[j - l]
            BY <1>7, <1>10, <2>2
        <3>2. i - l = j - l
            BY <1>1, <1>3, <3>1 DEF IsInjective
        <3> QED
            BY <1>3, <3>2
    <2>3. CASE i <= l /\ ~(j <= l)
        BY <1>7, <1>8, <1>9, <1>10, <2>3
    <2>4. CASE ~(i <= l) /\ j <= l
        BY <1>7, <1>8, <1>9, <1>10, <2>4
    <2> QED
        BY <2>1, <2>2, <2>3, <2>4
<1>11. DOMAIN list = 1..(l + k)
    BY <1>6, LenProperties
<1>12. Ids(list) = Ids(free) \cup InUse(f)
    <2>1. ASSUME NEW i \in 1..(l + k) PROVE list[i].id \in Ids(free) \cup InUse(f)
        BY <1>7, <1>8, <1>9
    <2>2. ASSUME NEW i \in 1..l PROVE free[i].id \in Ids(list)
        <3>1. i \in 1..(l + k) /\ i <= l
            BY <1>3
        <3>2. list[i] = free[i]
            BY <1>7, <3>1
        <3> QED
            BY <1>11, <3>1, <3>2 DEF Ids
    <2>3. ASSUME NEW i \in 1..k PROVE ids[i] \in Ids(list)
        <3>1. l + i \in 1..(l + k) /\ ~(l + i <= l) /\ (l + i) - l = i
            BY <1>3
        <3>2. list[l + i].id = ids[i]
            BY <1>7, <3>1
        <3> QED
            BY <1>11, <3>1, <3>2 DEF Ids
    <2>4. Ids(list) \subseteq Ids(free) \cup InUse(f)
        BY <1>11, <2>1 DEF Ids
    <2>5. Ids(free) \subseteq Ids(list)
        BY <1>3, <2>2 DEF Ids
    <2>6. InUse(f) \subseteq Ids(list)
        BY <1>1, <1>3, <2>3 DEF Range
    <2> QED
        BY <2>4, <2>5, <2>6
<1>13. l <= l + k
    BY <1>3
<1>14. \A i \in 1..(l + k) :
        IF i <= l THEN i \in DOMAIN free /\ list[i] = free[i]
        ELSE list[i].id \in InUse(f) /\ list[i].age = 0
    BY <1>3, <1>7, <1>8
<1> QED
    BY <1>3, <1>6, <1>10, <1>12, <1>13, <1>14

\* Blocks of the frame go to the list, and the oldest in it are destroyed.
LEMMA RecycleKeeps ==
    ASSUME StagingTypeOK, OnePlace, Aged, n_frames \in FrameCounts,
           NEW f \in AllFrames, Recycle(f), UNCHANGED n_frames
    PROVE  /\ StagingTypeOK' /\ OnePlace' /\ Aged'
           /\ \A g \in AllFrames : g # f => InUse(g)' = InUse(g)
           /\ \A b \in Alive : b \in Alive' \/
               /\ b \in Ids(free) /\ idle[b] >= n_frames
               /\ Len(free') >= n_frames
<1> DEFINE list == Released(f)
           n == n_frames
           N == Max(FrameCounts)
<1>1. n \in Nat /\ N \in Nat /\ n >= 1 /\ n <= N
    BY Counts
<1>2. /\ list \in Seq(FreeBlocks) /\ Len(free) \in Nat /\ Len(free) <= Len(list)
      /\ \A i \in 1..Len(list) :
          IF i <= Len(free) THEN i \in DOMAIN free /\ list[i] = free[i]
          ELSE list[i].id \in InUse(f) /\ list[i].age = 0
      /\ \A i, j \in 1..Len(list) : list[i].id = list[j].id => i = j
      /\ Ids(list) = Ids(free) \cup InUse(f)
    BY ReleasedIs
<1>3. free' = Retired(list) /\ blocks' = [blocks EXCEPT ![f] = NoBlocks]
      /\ idle' = [b \in Blocks |-> IF b \in InUse(f) THEN 1
            ELSE IF b \in Ids(free) THEN Min({idle[b] + 1, N + 1}) ELSE 0]
    BY DEF Recycle
<1> HIDE DEF list
<1>4. PICK m \in Nat : RetiredTo(list, m)
    BY <1>1, <1>2, RetiredIs
<1>5. PICK L \in Nat, A \in Nat : L = Len(list) /\ A = Len(free)
      /\ DOMAIN list = 1..L /\ DOMAIN free = 1..A
    BY <1>2, LenProperties DEF StagingTypeOK
<1>6. /\ free' \in Seq(FreeBlocks) /\ Len(free') = L - m /\ DOMAIN free' = 1..(L - m)
      /\ m <= L /\ (m > 0 => n + m <= L)
      /\ \A i \in 1..(L - m) : free'[i] = IF i <= n THEN list[i]
            ELSE [id |-> list[i + m].id, age |-> list[i + m].age + 1]
      /\ \A i \in (n + 1)..(n + m) : list[i].age = n
      /\ n + m < L => list[n + m + 1].age # n
    BY <1>3, <1>4, <1>5, LenProperties DEF RetiredTo
<1>7. \A i \in 1..L :
        /\ list[i].id \in Blocks /\ list[i].age \in Nat
        /\ i <= A => i \in 1..A /\ list[i] = free[i]
        /\ ~(i <= A) => list[i].id \in InUse(f) /\ list[i].age = 0
    <2>1. \A i \in 1..L : list[i] \in FreeBlocks
        BY <1>2, <1>5
    <2>2. \A i \in 1..L : list[i].id \in Blocks /\ list[i].age \in Nat
        BY <2>1 DEF FreeBlocks
    <2>3. \A i \in 1..L :
            IF i <= A THEN i \in 1..A /\ list[i] = free[i]
            ELSE list[i].id \in InUse(f) /\ list[i].age = 0
        BY <1>2, <1>5
    <2> QED
        BY <2>2, <2>3
<1>8. \A i, j \in 1..L : list[i].id = list[j].id => i = j
    BY <1>2, <1>5
\* Ages do not increase along the list past n, and none is above n.
<1>9. \A i \in 1..L : list[i].age <= n
    BY <1>1, <1>5, <1>7 DEF Aged
<1>10. ASSUME NEW i \in 1..L, NEW j \in 1..L, n < i, i <= j
       PROVE  list[j].age <= list[i].age
    <2>1. CASE j <= A
        <3>1. i <= A
            BY <1>5, <1>10, <2>1
        <3>2. i = j \/ i < j
            BY <1>10
        <3> QED
            BY <1>5, <1>7, <1>10, <2>1, <3>1, <3>2 DEF Aged
    <2>2. CASE ~(j <= A)
        BY <1>7, <2>2
    <2> QED
        BY <2>1, <2>2
<1>11. ASSUME NEW i \in 1..L, i > n + m PROVE list[i].age < n
    <2>1. n + m + 1 \in 1..L /\ n + m < L /\ n < n + m + 1 /\ n + m + 1 <= i
        BY <1>1, <1>4, <1>5, <1>11
    <2>2. list[n + m + 1].age < n
        <3>1. list[n + m + 1].age # n /\ list[n + m + 1].age <= n
              /\ list[n + m + 1].age \in Nat
            BY <1>6, <1>7, <1>9, <2>1
        <3> QED
            BY <1>1, <3>1
    <2>3. list[i].age <= list[n + m + 1].age
        BY <1>10, <2>1
    <2>4. list[i].age \in Nat /\ list[n + m + 1].age \in Nat
        BY <1>7, <2>1
    <2> QED
        BY <1>1, <2>2, <2>3, <2>4
<1>12. \A i \in 1..(L - m) :
        IF i <= n THEN i \in 1..L ELSE i + m \in 1..L /\ i + m > n + m
    BY <1>1, <1>4, <1>5
\* What idle becomes.
<1>13. ASSUME NEW i \in 1..L, i > n + m
       PROVE  idle'[list[i].id] = list[i].age + 1
    <2>1. n < i /\ list[i].id \in Blocks
        BY <1>1, <1>4, <1>5, <1>7, <1>13
    <2>2. CASE i <= A
        <3>1. list[i] = free[i] /\ i \in 1..A
            BY <1>7, <2>2
        <3>2. idle[free[i].id] = free[i].age /\ free[i].id \in Ids(free)
            BY <1>1, <1>5, <2>1, <3>1 DEF Aged, Ids
        <3>3. free[i].id \notin InUse(f)
            BY <3>2 DEF OnePlace
        <3> DEFINE a == list[i].age
        <3>4. a \in Nat /\ a < n /\ idle[list[i].id] = a
            BY <1>7, <1>11, <1>13, <3>1, <3>2
        <3>5. idle'[list[i].id] = Min({a + 1, N + 1})
            BY <1>3, <2>1, <3>1, <3>2, <3>3, <3>4
        <3> HIDE DEF a, N
        <3>6. a + 1 \in Nat /\ N + 1 \in Nat /\ a + 1 <= N + 1
            BY <1>1, <3>4
        <3>7. Min({a + 1, N + 1}) = a + 1
            BY <3>6, MinOfTwo
        <3> QED
            BY <3>5, <3>7 DEF a
    <2>3. CASE ~(i <= A)
        <3>1. list[i].id \in InUse(f) /\ list[i].age = 0
            BY <1>7, <2>3
        <3>2. idle'[list[i].id] = 1
            BY <1>3, <2>1, <3>1
        <3> QED
            BY <3>1, <3>2
    <2> QED
        BY <2>2, <2>3
<1>14. AllFrames' = AllFrames /\ DOMAIN blocks = AllFrames /\ Range(<<>>) = {}
    BY DEF AllFrames, StagingTypeOK, Range
<1>15. /\ blocks'[f].ids = <<>> /\ InUse(f)' = {}
       /\ \A g \in AllFrames : g # f => blocks'[g] = blocks[g] /\ InUse(g)' = InUse(g)
    BY <1>3, <1>14 DEF InUse, NoBlocks
\* Where each of the blocks of the new list was.
<1>16. ASSUME NEW i \in 1..(L - m)
       PROVE  \E j \in 1..L : free'[i].id = list[j].id /\ j = IF i <= n THEN i ELSE i + m
    BY <1>6, <1>12
<1>17. ASSUME NEW i \in 1..(L - m), NEW j \in 1..(L - m), free'[i].id = free'[j].id
       PROVE  i = j
    <2>1. PICK a \in 1..L : free'[i].id = list[a].id /\ a = IF i <= n THEN i ELSE i + m
        BY <1>16
    <2>2. PICK b \in 1..L : free'[j].id = list[b].id /\ b = IF j <= n THEN j ELSE j + m
        BY <1>16
    <2>3. a = b
        BY <1>8, <1>17, <2>1, <2>2
    <2> QED
        BY <1>1, <1>4, <1>5, <2>1, <2>2, <2>3
<1>18. Ids(free') \subseteq Ids(free) \cup InUse(f)
    <2>1. \A i \in 1..L : list[i].id \in Ids(free) \cup InUse(f)
        BY <1>2, <1>5 DEF Ids
    <2>2. \A i \in 1..(L - m) : free'[i].id \in Ids(free) \cup InUse(f)
        BY <1>16, <2>1
    <2>3. \A x \in Ids(free') : \E i \in 1..(L - m) : x = free'[i].id
        BY <1>6 DEF Ids
    <2> QED
        BY <2>2, <2>3
<1>19. StagingTypeOK'
    <2>1. NoBlocks \in [ids : Seq(Blocks), room : 0..(Capacity - 1)]
        BY Counts DEF NoBlocks
    <2>2. idle' \in [Blocks -> Nat]
        <3>1. \A b \in Blocks : Min({idle[b] + 1, N + 1}) \in Nat
            <4> SUFFICES ASSUME NEW b \in Blocks
                         PROVE  Min({idle[b] + 1, N + 1}) \in Nat
                OBVIOUS
            <4>1. idle[b] + 1 \in Nat /\ N + 1 \in Nat
                BY <1>1 DEF StagingTypeOK
            <4> QED
                BY <4>1, MinOfTwo
        <3> HIDE DEF N
        <3> QED
            BY <1>3, <3>1
    <2> QED
        BY <1>3, <1>6, <1>14, <2>1, <2>2 DEF StagingTypeOK, FreeBlocks
<1>20. OnePlace'
    <2>1. \A i, j \in DOMAIN free' : free'[i].id = free'[j].id => i = j
        BY <1>6, <1>17
    <2>2. IsInjective(<<>>)
        BY DEF IsInjective
    <2>3. \A g \in AllFrames :
            IsInjective(blocks'[g].ids) /\ InUse(g)' \cap Ids(free') = {}
        BY <1>15, <1>18, <2>2 DEF OnePlace
    <2>4. \A g, h \in AllFrames : g # h => InUse(g)' \cap InUse(h)' = {}
        BY <1>15 DEF OnePlace
    <2> QED
        BY <1>14, <2>1, <2>3, <2>4 DEF OnePlace, Ids
<1>21. Aged'
    <2>1. ASSUME NEW i \in 1..(L - m)
          PROVE  /\ free'[i].age <= n
                 /\ i > n => idle'[free'[i].id] = free'[i].age
        <3>1. CASE i <= n
            <4>1. i \in 1..L
                BY <1>12, <3>1
            <4>2. free'[i] = list[i] /\ list[i].age <= n
                BY <1>6, <1>9, <3>1, <4>1
            <4> QED
                BY <1>1, <3>1, <4>1, <4>2
        <3>2. CASE ~(i <= n)
            <4>1. i + m \in 1..L /\ i + m > n + m
                BY <1>12, <3>2
            <4>2. free'[i] = [id |-> list[i + m].id, age |-> list[i + m].age + 1]
                BY <1>6, <3>2
            <4>3. list[i + m].age < n /\ list[i + m].age \in Nat
                  /\ idle'[list[i + m].id] = list[i + m].age + 1
                BY <1>7, <1>11, <1>13, <4>1
            <4> QED
                BY <1>1, <4>2, <4>3
        <3> QED
            BY <3>1, <3>2
    <2>2. ASSUME NEW i \in 1..(L - m), NEW j \in 1..(L - m), n < i, i < j
          PROVE  free'[i].age >= free'[j].age
        <3>1. ~(i <= n) /\ ~(j <= n)
            BY <1>1, <2>2
        <3>2. i + m \in 1..L /\ j + m \in 1..L
            BY <1>12, <3>1
        <3>3. n < i + m /\ i + m <= j + m
            BY <1>1, <1>4, <2>2
        <3>4. list[j + m].age <= list[i + m].age /\ list[j + m].age \in Nat
              /\ list[i + m].age \in Nat
            BY <1>7, <1>10, <3>2, <3>3
        <3>5. free'[i].age = list[i + m].age + 1 /\ free'[j].age = list[j + m].age + 1
            BY <1>6, <3>1
        <3> QED
            BY <3>4, <3>5
    <2> QED
        BY <1>6, <2>1, <2>2 DEF Aged
\* What is destroyed.
<1>22. ASSUME NEW i \in 1..L, list[i].id \notin Ids(free')
       PROVE  /\ list[i].id \in Ids(free) /\ idle[list[i].id] >= n
              /\ Len(free') >= n
    <2>1. \A j \in 1..(L - m) : free'[j].id \in Ids(free')
        BY <1>6 DEF Ids
    <2>2. n < i
        <3> SUFFICES ASSUME i <= n PROVE FALSE
            BY <1>1
        <3>1. i \in 1..(L - m)
            BY <1>1, <1>4, <1>5, <1>6
        <3>2. free'[i] = list[i]
            BY <1>6, <3>1
        <3> QED
            BY <1>22, <2>1, <3>1, <3>2
    <2>3. i <= n + m
        <3> SUFFICES ASSUME ~(i <= n + m) PROVE FALSE
            OBVIOUS
        <3>1. i - m \in 1..(L - m) /\ ~(i - m <= n) /\ (i - m) + m = i
            BY <1>1, <1>4, <1>5, <1>6
        <3>2. free'[i - m].id = list[i].id
            BY <1>6, <3>1
        <3> QED
            BY <1>22, <2>1, <3>1, <3>2
    <2>4. list[i].age = n /\ n # 0 /\ m > 0
        <3>1. i \in (n + 1)..(n + m) /\ m > 0
            BY <1>1, <1>4, <2>2, <2>3
        <3> QED
            BY <1>1, <1>6, <3>1
    <2>5. i \in 1..A /\ list[i] = free[i]
        BY <1>7, <2>4
    <2>6. idle[free[i].id] = free[i].age /\ free[i].id \in Ids(free)
        BY <1>1, <1>5, <2>2, <2>5 DEF Aged, Ids
    <2>7. L - m >= n
        BY <1>1, <1>4, <1>5, <1>6, <2>4
    <2> QED
        BY <1>1, <1>6, <2>4, <2>5, <2>6, <2>7
<1>23. ASSUME NEW b \in Alive, b \notin Alive'
       PROVE  b \in Ids(free) /\ idle[b] >= n /\ Len(free') >= n
    <2>1. Alive' = Ids(free') \cup UNION {InUse(g)' : g \in AllFrames}
        BY <1>14 DEF Alive, Ids
    <2>2. b \notin Ids(free') /\ \A g \in AllFrames : b \notin InUse(g)'
        BY <1>23, <2>1
    <2>3. b \in Ids(free) \/ b \in InUse(f)
        BY <1>15, <2>2 DEF Alive
    <2>4. b \in Ids(list)
        BY <1>2, <2>3
    <2>5. PICK i \in 1..L : b = list[i].id
        BY <1>5, <2>4 DEF Ids
    <2>6. list[i].id \notin Ids(free')
        BY <2>2, <2>5
    <2> QED
        BY <1>22, <2>5, <2>6
<1> QED
    BY <1>15, <1>19, <1>20, <1>21, <1>23

\* What a submission reads is what its frame has.
ReadInv == \A i \in DOMAIN pending : pending[i].blocks = InUse(pending[i].frame)

StagingInv == StagingTypeOK /\ OnePlace /\ Aged /\ ReadInv

LEMMA InitStaging == Init => StagingInv
<1> SUFFICES ASSUME Init PROVE StagingInv
    OBVIOUS
<1>1. blocks = [f \in AllFrames |-> NoBlocks] /\ free = <<>>
      /\ idle = [b \in Blocks |-> 0] /\ pending = <<>>
    BY DEF Init
<1>2. \A f \in AllFrames : blocks[f].ids = <<>> /\ InUse(f) = {}
    BY <1>1 DEF NoBlocks, InUse, Range
<1>3. StagingTypeOK
    BY <1>1, Counts DEF StagingTypeOK, NoBlocks
<1>4. OnePlace
    BY <1>1, <1>2 DEF OnePlace, IsInjective
<1> QED
    BY <1>1, <1>3, <1>4 DEF StagingInv, Aged, ReadInv

LEMMA StagingSame ==
    ASSUME StagingTypeOK, OnePlace, UNCHANGED staging
    PROVE  /\ StagingTypeOK' /\ OnePlace' /\ Alive' = Alive
           /\ \A f \in AllFrames : InUse(f)' = InUse(f)
<1>1. blocks' = blocks /\ free' = free /\ idle' = idle
    BY DEF staging
<1>2. AllFrames' = AllFrames
    BY DEF AllFrames
<1>3. \A f \in AllFrames : InUse(f)' = InUse(f)
    BY <1>1 DEF InUse
<1>4. StagingTypeOK'
    BY <1>1, <1>2 DEF StagingTypeOK, FreeBlocks
<1>5. OnePlace'
    BY <1>1, <1>2, <1>3 DEF OnePlace, Ids
<1>6. Alive' = Alive
    BY <1>1, <1>2, <1>3 DEF Alive, Ids
<1> QED
    BY <1>3, <1>4, <1>5, <1>6

LEMMA StagingRests ==
    ASSUME StagingInv, UNCHANGED <<n_frames, staging>>
    PROVE  /\ StagingTypeOK' /\ OnePlace' /\ Aged' /\ Alive' = Alive
           /\ \A f \in AllFrames : InUse(f)' = InUse(f)
<1>1. Aged'
    BY DEF StagingInv, Aged, staging
<1> QED
    BY <1>1, StagingSame DEF StagingInv

\* Submissions under way are those of before, and read the same.
LEMMA SameReads ==
    ASSUME ReadInv, UNCHANGED pending,
           \A i \in DOMAIN pending : pending[i].frame \in AllFrames,
           \A f \in AllFrames :
               (\E i \in DOMAIN pending : pending[i].frame = f) => InUse(f)' = InUse(f)
    PROVE  ReadInv'
  BY DEF ReadInv, InUse

LEMMA PendingFrames ==
    ASSUME FlightInv
    PROVE  \A i \in DOMAIN pending : pending[i].frame \in AllFrames
<1>1. \A i \in DOMAIN pending : pending[i].frame \in Frames
    BY DEF FlightInv, FlightTypeOK
<1>2. Frames \subseteq AllFrames
    BY FramesInAll DEF FlightInv, FlightTypeOK
<1> QED
    BY <1>1, <1>2

Retires ==
    \A b \in Alive : b \in Alive' \/
        /\ b \in Ids(free) /\ idle[b] >= n_frames
        /\ Len(free') >= n_frames

LEMMA StepStaging ==
    ASSUME FlightInv, StagingInv, [Next]_vars
    PROVE  StagingInv' /\ Retires
<1>1. n_frames \in FrameCounts /\ cur_frame \in AllFrames
    BY FramesInAll DEF FlightInv, FlightTypeOK
<1>2. ASSUME UNCHANGED <<n_frames, staging>>, pending' = pending \/ pending' = <<>>
      PROVE  StagingInv' /\ Retires
    <2>1. /\ StagingTypeOK' /\ OnePlace' /\ Aged' /\ Alive' = Alive
          /\ \A f \in AllFrames : InUse(f)' = InUse(f)
        BY <1>2, StagingRests
    <2>2. ReadInv'
        <3>1. CASE pending' = pending
            BY <2>1, <3>1, SameReads, PendingFrames DEF StagingInv
        <3>2. CASE pending' = <<>>
            BY <3>2 DEF ReadInv
        <3> QED
            BY <1>2, <3>1, <3>2
    <2> QED
        BY <2>1, <2>2 DEF StagingInv, Retires
<1>3. ASSUME NEW n \in Writes, write_to_buffer(n)
      PROVE  StagingInv' /\ Retires
    <2>1. n \in Nat
        BY FramesInFlightAssumption DEF FramesInFlightAssumption
    <2>2. pc = "host" /\ Staged(cur_frame, n) /\ UNCHANGED <<n_frames, idle, pending>>
        BY <1>3 DEF write_to_buffer, host, device
    <2>3. /\ StagingTypeOK' /\ OnePlace' /\ Aged' /\ Alive \subseteq Alive'
          /\ \A g \in AllFrames : g # cur_frame => InUse(g)' = InUse(g)
        BY <1>1, <2>1, <2>2, StagedKeeps DEF StagingInv
    <2>4. \A i \in DOMAIN pending : pending[i].frame # cur_frame
        BY <2>2 DEF FlightInv, SlotInv, FrameFree
    <2>5. ReadInv'
        BY <2>2, <2>3, <2>4, SameReads, PendingFrames DEF StagingInv
    <2> QED
        BY <2>3, <2>5 DEF StagingInv, Retires
<1>4. CASE submit
    <2>1. /\ UNCHANGED <<n_frames, staging, cur_frame>> /\ pending' = Append(pending, Commands)
        BY <1>4 DEF submit, Submitted
    <2>2. /\ StagingTypeOK' /\ OnePlace' /\ Aged' /\ Alive' = Alive
          /\ \A f \in AllFrames : InUse(f)' = InUse(f)
        BY <2>1, StagingRests
    <2>3. Commands.frame = cur_frame /\ Commands.blocks = InUse(cur_frame)
        BY DEF Commands
    <2>4. PICK l \in Nat : l = Len(pending) /\ DOMAIN pending = 1..l
        BY LenProperties DEF FlightInv, FlightTypeOK
    <2>5. DOMAIN pending' = 1..(l + 1) /\ pending'[l + 1] = Commands
          /\ \A i \in 1..l : pending'[i] = pending[i]
        BY <2>1, <2>4 DEF FlightInv, FlightTypeOK
    <2>6. ASSUME NEW i \in 1..(l + 1)
          PROVE  pending'[i].blocks = Range(blocks'[pending'[i].frame].ids)
        <3>1. CASE i \in 1..l
            <4>1. pending[i].frame \in AllFrames /\ pending[i].blocks = InUse(pending[i].frame)
                BY <2>4, <3>1, PendingFrames DEF StagingInv, ReadInv
            <4> QED
                BY <2>2, <2>5, <3>1, <4>1 DEF InUse
        <3>2. CASE i = l + 1
            BY <1>1, <2>2, <2>3, <2>5, <3>2 DEF InUse
        <3> QED
            BY <2>4, <3>1, <3>2
    <2> QED
        BY <2>2, <2>5, <2>6 DEF StagingInv, Retires, ReadInv, InUse
<1>5. CASE vsync
    <2>1. Next_frame \in AllFrames /\ \A i \in DOMAIN pending : pending[i].frame # Next_frame
        BY <1>5, NextFrameDone DEF vsync
    <2>2. Recycle(Next_frame) /\ UNCHANGED <<n_frames, pending>>
        BY <1>5 DEF vsync, device
    <2>3. /\ StagingTypeOK' /\ OnePlace' /\ Aged' /\ Retires
          /\ \A g \in AllFrames : g # Next_frame => InUse(g)' = InUse(g)
        BY <1>1, <2>1, <2>2, RecycleKeeps DEF StagingInv, Retires
    <2>4. ReadInv'
        BY <2>1, <2>2, <2>3, SameReads, PendingFrames DEF StagingInv
    <2> QED
        BY <2>3, <2>4 DEF StagingInv
<1>6. CASE complete
    <2>1. UNCHANGED <<n_frames, staging>> /\ pending # <<>> /\ pending' = Tail(pending)
        BY <1>6 DEF complete, host
    <2>2. /\ StagingTypeOK' /\ OnePlace' /\ Aged' /\ Alive' = Alive
          /\ \A f \in AllFrames : InUse(f)' = InUse(f)
        BY <2>1, StagingRests
    <2>3. PICK l \in Nat : l = Len(pending) /\ DOMAIN pending = 1..l
        BY LenProperties DEF FlightInv, FlightTypeOK
    <2>4. DOMAIN pending' = 1..(l - 1)
          /\ \A i \in 1..(l - 1) : i + 1 \in 1..l /\ pending'[i] = pending[i + 1]
        BY <2>1, <2>3, HeadTailProperties, EmptySeq, LenProperties
           DEF FlightInv, FlightTypeOK
    <2>5. \A i \in 1..l :
            pending[i].frame \in AllFrames /\ pending[i].blocks = InUse(pending[i].frame)
        BY <2>3, PendingFrames DEF StagingInv, ReadInv
    <2>6. \A i \in 1..(l - 1) : pending'[i].blocks = Range(blocks'[pending'[i].frame].ids)
        BY <2>2, <2>4, <2>5 DEF InUse
    <2> QED
        BY <2>2, <2>4, <2>6 DEF StagingInv, Retires, ReadInv, InUse
<1>7. ASSUME NEW n \in FrameCounts, set_n_frames(n)
      PROVE  StagingInv' /\ Retires
    <2>1. n_frames' = n /\ n >= n_frames /\ UNCHANGED staging /\ pending' = <<>>
        BY <1>7 DEF set_n_frames, WaitIdle
    <2>2. StagingTypeOK' /\ OnePlace' /\ Alive' = Alive
        BY <2>1, StagingSame DEF StagingInv
    <2>3. Aged'
        <3>1. n \in Nat /\ n_frames \in Nat
            BY <1>1, Counts
        <3>2. PICK l \in Nat : DOMAIN free = 1..l
            BY LenProperties DEF StagingInv, StagingTypeOK
        <3>3. \A i \in 1..l : free[i] \in FreeBlocks
            BY <3>2 DEF StagingInv, StagingTypeOK
        <3>4. \A i \in 1..l : free[i].age \in Nat
            BY <3>3 DEF FreeBlocks
        <3>5. \A i \in 1..l : free[i].age <= n
            BY <2>1, <3>1, <3>2, <3>4 DEF StagingInv, Aged
        <3>6. \A i \in 1..l : i > n => i > n_frames
            BY <2>1, <3>1
        <3>7. \A i \in 1..l : i > n => idle[free[i].id] = free[i].age
            BY <3>2, <3>6 DEF StagingInv, Aged
        <3>8. \A i, j \in 1..l : n < i /\ i < j => free[i].age >= free[j].age
            BY <3>1, <3>2, <3>6 DEF StagingInv, Aged
        <3> QED
            BY <2>1, <3>2, <3>5, <3>7, <3>8 DEF Aged, staging
    <2> QED
        BY <2>1, <2>2, <2>3 DEF StagingInv, ReadInv, Retires
<1>8. CASE set_updated \/ resize \/ set_swap_interval
    BY <1>2, <1>8 DEF set_updated, resize, set_swap_interval, device, host
<1>9. CASE start_render \/ recreate_swapchain \/ acquire_out_of_date \/ wait_img
    BY <1>2, <1>9 DEF start_render, recreate_swapchain, acquire_out_of_date, wait_img,
       device, host, NewSwapChain, WaitIdle
<1>10. CASE acquire
    BY <1>2, <1>10 DEF acquire, acquire_img, device
<1>11. CASE submit_out_of_date
    BY <1>2, <1>11 DEF submit_out_of_date, Submitted, NewSwapChain, WaitIdle
<1>12. CASE show \/ UNCHANGED vars
    BY <1>2, <1>12 DEF show, vars, host, device
<1> QED
    BY <1>3, <1>4, <1>5, <1>6, <1>7, <1>8, <1>9, <1>10, <1>11, <1>12
       DEF Next, Script, Render

-----------------------------------------------------------------------------
(* The presentation engine.                                                *)

\* The last images that were presented are those of submissions under way; the
\* others, and the one on the screen, are distinct.
EngineIs(done) ==
    /\ Len(presents) = Len(pending) + done
    /\ \A i \in DOMAIN pending : presents[done + i] = pending[i].img
    /\ \A i \in 1..done : presents[i] # shown
    /\ \A i, j \in 1..done : presents[i] = presents[j] => i = j

EngineInv ==
    /\ presents \in Seq(Images) /\ shown \in Images \cup {None}
    /\ \E done \in Nat : EngineIs(done)

LEMMA EngineLengths ==
    ASSUME FlightInv, EngineInv
    PROVE  \E l, p, done \in Nat :
               /\ l = Len(pending) /\ DOMAIN pending = 1..l
               /\ p = Len(presents) /\ DOMAIN presents = 1..p /\ p = l + done
               /\ \A i \in 1..l : presents[done + i] = pending[i].img
               /\ \A i \in 1..done : presents[i] # shown
               /\ \A i, j \in 1..done : presents[i] = presents[j] => i = j
<1>1. pending \in Seq(Submissions) /\ presents \in Seq(Images)
    BY DEF FlightInv, FlightTypeOK, EngineInv
<1>2. PICK l \in Nat : l = Len(pending) /\ DOMAIN pending = 1..l
    BY <1>1, LenProperties
<1>3. PICK p \in Nat : p = Len(presents) /\ DOMAIN presents = 1..p
    BY <1>1, LenProperties
<1>4. PICK done \in Nat : EngineIs(done)
    BY DEF EngineInv
<1> QED
    BY <1>2, <1>3, <1>4 DEF EngineIs

LEMMA EngineRestarts ==
    ASSUME pending' = <<>>, presents' = <<>>, shown' = None
    PROVE  EngineInv'
<1>1. EngineIs(0)'
    BY DEF EngineIs
<1> QED
    BY <1>1 DEF EngineInv

LEMMA InitEngine == Init => EngineInv
<1> SUFFICES ASSUME Init PROVE EngineInv
    OBVIOUS
<1>1. EngineIs(0)
    BY DEF EngineIs, Init
<1> QED
    BY <1>1 DEF EngineInv, Init

LEMMA EngineRests ==
    ASSUME EngineInv, UNCHANGED device
    PROVE  EngineInv'
<1>1. PICK done \in Nat : EngineIs(done)
    BY DEF EngineInv
<1>2. EngineIs(done)'
    BY <1>1 DEF EngineIs, device
<1> QED
    BY <1>2 DEF EngineInv, device, Images

LEMMA EngineSubmit ==
    ASSUME FlightInv, EngineInv, submit
    PROVE  EngineInv'
<1>1. pc = "record" /\ pending' = Append(pending, Commands)
      /\ presents' = Append(presents, ctx.img) /\ shown' = shown
    BY DEF submit, Submitted
<1>2. ctx.img \in Images /\ Commands.img = ctx.img
    BY <1>1 DEF FlightInv, FlightTypeOK, InSlot, Commands
<1>3. PICK l \in Nat, p \in Nat, done \in Nat :
        /\ l = Len(pending) /\ DOMAIN pending = 1..l
        /\ p = Len(presents) /\ DOMAIN presents = 1..p /\ p = l + done
        /\ \A i \in 1..l : presents[done + i] = pending[i].img
        /\ \A i \in 1..done : presents[i] # shown
        /\ \A i, j \in 1..done : presents[i] = presents[j] => i = j
    BY EngineLengths
<1>4. Len(pending') = l + 1 /\ DOMAIN pending' = 1..(l + 1)
      /\ pending'[l + 1] = Commands /\ \A i \in 1..l : pending'[i] = pending[i]
    BY <1>1, <1>3 DEF FlightInv, FlightTypeOK
<1>5. presents' \in Seq(Images) /\ Len(presents') = p + 1
      /\ presents'[p + 1] = ctx.img /\ \A i \in 1..p : presents'[i] = presents[i]
    BY <1>1, <1>2, <1>3 DEF EngineInv
<1>6. done + (l + 1) = p + 1 /\ (l + 1) + done = p + 1 /\ \A i \in 1..l : done + i \in 1..p
    BY <1>3
<1>8. \A i \in 1..done : i \in 1..p
    BY <1>3
<1>9. \A i \in 1..(l + 1) : presents'[done + i] = pending'[i].img
    <2> SUFFICES ASSUME NEW i \in 1..(l + 1)
                 PROVE  presents'[done + i] = pending'[i].img
        OBVIOUS
    <2>1. CASE i \in 1..l
        <3>1. done + i \in 1..p /\ presents[done + i] = pending[i].img
            BY <1>3, <1>6, <2>1
        <3>2. presents'[done + i] = presents[done + i] /\ pending'[i] = pending[i]
            BY <1>4, <1>5, <2>1, <3>1
        <3> QED
            BY <3>1, <3>2
    <2>2. CASE i = l + 1
        BY <1>2, <1>4, <1>5, <1>6, <2>2
    <2> QED
        BY <1>3, <2>1, <2>2
<1>10. /\ \A i \in 1..done : presents'[i] # shown'
       /\ \A i, j \in 1..done : presents'[i] = presents'[j] => i = j
    BY <1>1, <1>3, <1>5, <1>8
<1>11. Len(presents') = Len(pending') + done
    BY <1>4, <1>5, <1>6
<1>12. shown' \in Images' \cup {None} /\ Images' = Images
    BY <1>1 DEF EngineInv, Images
<1>13. EngineIs(done)'
    BY <1>4, <1>9, <1>10, <1>11 DEF EngineIs
<1> QED
    BY <1>3, <1>5, <1>12, <1>13 DEF EngineInv

\* The engine is done with the image when the device has rendered to it.
LEMMA EngineComplete ==
    ASSUME FlightInv, EngineInv, complete
    PROVE  EngineInv'
<1> DEFINE head == Head(pending).img
           q == Queued
<1>1. pending # <<>> /\ pending' = Tail(pending) /\ UNCHANGED <<presents, shown>>
      /\ head \notin Range(SubSeq(q, 1, Len(q) - Len(pending)))
    BY DEF complete
<1>2. PICK l \in Nat, p \in Nat, done \in Nat :
        /\ l = Len(pending) /\ DOMAIN pending = 1..l
        /\ p = Len(presents) /\ DOMAIN presents = 1..p /\ p = l + done
        /\ \A i \in 1..l : presents[done + i] = pending[i].img
        /\ \A i \in 1..done : presents[i] # shown
        /\ \A i, j \in 1..done : presents[i] = presents[j] => i = j
    BY EngineLengths
<1>3. l >= 1 /\ Len(pending') = l - 1 /\ DOMAIN pending' = 1..(l - 1)
      /\ head = pending[1].img /\ \A i \in 1..(l - 1) : pending'[i] = pending[i + 1]
    <2>1. Tail(pending) \in Seq(Submissions) /\ Len(Tail(pending)) = Len(pending) - 1
          /\ \A i \in 1..Len(Tail(pending)) : Tail(pending)[i] = pending[i + 1]
        BY <1>1, HeadTailProperties DEF FlightInv, FlightTypeOK
    <2>2. l # 0
        BY <1>1, <1>2, EmptySeq DEF FlightInv, FlightTypeOK
    <2>3. Head(pending) = pending[1]
        BY DEF FlightInv, FlightTypeOK
    <2> QED
        BY <1>1, <1>2, <2>1, <2>2, <2>3, LenProperties
<1>4. p = (l - 1) + (done + 1) /\ done + 1 <= p
      /\ 1 \in 1..l /\ \A i \in 1..(l - 1) : i + 1 \in 1..l /\ (done + 1) + i = done + (i + 1)
    BY <1>2, <1>3
<1>6. q \in Seq(Images \cup {None}) /\ Len(q) = p + 1 /\ q[1] = shown
      /\ \A i \in 1..p : q[i + 1] = presents[i]
    <2> DEFINE V == Images \cup {None}
    <2>1. <<shown>> \in Seq(V) /\ presents \in Seq(V) /\ Len(<<shown>>) = 1
          /\ <<shown>>[1] = shown
        BY DEF EngineInv
    <2>2. q = <<shown>> \o presents
        BY DEF Queued
    <2> HIDE DEF V, q
    <2>3. <<shown>> \o presents \in Seq(V)
          /\ Len(<<shown>> \o presents) = Len(<<shown>>) + Len(presents)
          /\ \A i \in 1..(Len(<<shown>>) + Len(presents)) : (<<shown>> \o presents)[i] =
                IF i <= Len(<<shown>>) THEN <<shown>>[i] ELSE presents[i - Len(<<shown>>)]
        BY <2>1, ConcatProperties
    <2>4. q \in Seq(V) /\ Len(q) = p + 1 /\ \A i \in 1..(p + 1) :
            q[i] = IF i <= 1 THEN shown ELSE presents[i - 1]
        BY <1>2, <2>1, <2>2, <2>3
    <2>5. 1 \in 1..(p + 1) /\ \A i \in 1..p : i + 1 \in 1..(p + 1) /\ ~(i + 1 <= 1)
            /\ (i + 1) - 1 = i
        BY <1>2
    <2> QED
        BY <2>4, <2>5 DEF V
<1> HIDE DEF q, head
<1>7. head # shown /\ \A i \in 1..done : head # presents[i]
    <2> DEFINE d == done + 1
               t == SubSeq(q, 1, d)
    <2>1. Len(q) - Len(pending) = d /\ d \in Nat /\ 1 <= d + 1 /\ d <= p + 1
          /\ d - 1 + 1 = d /\ 1 \in 1..d /\ 1 + 1 - 1 = 1
          /\ \A i \in 1..done : i \in 1..p /\ i + 1 \in 1..d /\ 1 + (i + 1) - 1 = i + 1
        BY <1>2, <1>4, <1>6
    <2> HIDE DEF d
    <2>2. t \in Seq(Images \cup {None}) /\ Len(t) = d - 1 + 1
          /\ \A i \in 1..(d - 1 + 1) : t[i] = q[1 + i - 1]
        BY <1>6, <2>1, Part
    <2> HIDE DEF t
    <2>3. DOMAIN t = 1..(d - 1 + 1)
        BY <2>2, LenProperties
    <2>4. t[1] = shown
        BY <1>6, <2>1, <2>2
    <2>5. \A i \in 1..done : t[i + 1] = presents[i]
        BY <1>6, <2>1, <2>2
    <2>6. head \notin Range(t)
        BY <1>1, <2>1 DEF t
    <2> QED
        BY <2>1, <2>3, <2>4, <2>5, <2>6 DEF Range
<1>8. presents[done + 1] = head
    BY <1>2, <1>3, <1>4
<1>9. \A i \in 1..(l - 1) : presents[(done + 1) + i] = pending'[i].img
    BY <1>2, <1>3, <1>4
<1>10. done + 1 \in Nat /\ \A i \in 1..(done + 1) : i \in 1..done \/ i = done + 1
    BY <1>2
<1>11. \A i \in 1..(done + 1) : presents[i] # shown
    BY <1>2, <1>7, <1>8, <1>10
<1>12. \A i, j \in 1..(done + 1) : presents[i] = presents[j] => i = j
    BY <1>2, <1>7, <1>8, <1>10
<1>13. Len(presents') = Len(pending') + (done + 1)
    BY <1>1, <1>2, <1>3, <1>4
<1>14. presents' \in Seq(Images) /\ shown' \in Images \cup {None} /\ Images' = Images
    BY <1>1 DEF EngineInv, Images
<1>15. EngineIs(done + 1)'
    BY <1>1, <1>3, <1>9, <1>11, <1>12, <1>13 DEF EngineIs
<1> QED
    BY <1>10, <1>14, <1>15 DEF EngineInv

LEMMA EngineShow ==
    ASSUME FlightInv, EngineInv, show
    PROVE  EngineInv'
<1>1. UNCHANGED pending /\ Len(presents) > Len(pending) /\ shown' = Head(presents)
      /\ presents' = Tail(presents)
    BY DEF show
<1>2. PICK l \in Nat, p \in Nat, done \in Nat :
        /\ l = Len(pending) /\ DOMAIN pending = 1..l
        /\ p = Len(presents) /\ DOMAIN presents = 1..p /\ p = l + done
        /\ \A i \in 1..l : presents[done + i] = pending[i].img
        /\ \A i \in 1..done : presents[i] # shown
        /\ \A i, j \in 1..done : presents[i] = presents[j] => i = j
    BY EngineLengths
<1>3. p > l /\ presents # <<>>
    BY <1>1, <1>2
<1>4. presents' \in Seq(Images) /\ Len(presents') = p - 1 /\ shown' = presents[1]
      /\ presents[1] \in Images /\ \A i \in 1..(p - 1) : presents'[i] = presents[i + 1]
    <2>1. Tail(presents) \in Seq(Images) /\ Len(Tail(presents)) = Len(presents) - 1
          /\ Head(presents) \in Images
          /\ \A i \in 1..Len(Tail(presents)) : Tail(presents)[i] = presents[i + 1]
        BY <1>3, HeadTailProperties DEF EngineInv
    <2>2. Head(presents) = presents[1]
        BY DEF EngineInv
    <2> QED
        BY <1>1, <1>2, <2>1, <2>2
<1>5. /\ p - 1 = l + (done - 1) /\ done - 1 \in Nat /\ 1 \in 1..done
      /\ \A i \in 1..(done - 1) : i + 1 \in 1..done /\ i + 1 # 1 /\ i \in 1..(p - 1)
      /\ \A i \in 1..l : (done - 1) + i \in 1..(p - 1) /\ ((done - 1) + i) + 1 = done + i
    BY <1>2, <1>3
<1>7. ASSUME NEW i \in 1..l PROVE presents'[(done - 1) + i] = pending[i].img
    <2>1. (done - 1) + i \in 1..(p - 1) /\ ((done - 1) + i) + 1 = done + i
        BY <1>5
    <2>2. presents'[(done - 1) + i] = presents[((done - 1) + i) + 1]
        BY <1>4, <2>1
    <2> QED
        BY <1>2, <2>1, <2>2
<1>8. \A i \in 1..(done - 1) : presents'[i] # shown'
    BY <1>2, <1>4, <1>5
<1>9. ASSUME NEW i \in 1..(done - 1), NEW j \in 1..(done - 1), presents'[i] = presents'[j]
      PROVE  i = j
    <2>1. i + 1 = j + 1
        BY <1>2, <1>4, <1>5, <1>9
    <2> QED
        BY <1>5, <2>1
<1>10. Len(presents') = Len(pending') + (done - 1)
    BY <1>1, <1>2, <1>4, <1>5
<1>11. EngineIs(done - 1)'
    BY <1>1, <1>2, <1>7, <1>8, <1>9, <1>10 DEF EngineIs
<1>12. Images' = Images
    BY DEF Images
<1> QED
    BY <1>4, <1>5, <1>11, <1>12 DEF EngineInv

LEMMA StepEngine ==
    ASSUME FlightInv, EngineInv, [Next]_vars
    PROVE  EngineInv'
<1>1. CASE Script
    BY <1>1, EngineRests DEF Script, write_to_buffer, set_updated, resize,
       set_swap_interval, set_n_frames, WaitIdle, device
<1>2. CASE recreate_swapchain \/ acquire_out_of_date \/ submit_out_of_date
    BY <1>2, EngineRestarts DEF recreate_swapchain, acquire_out_of_date,
       submit_out_of_date, NewSwapChain, WaitIdle
<1>3. CASE start_render \/ acquire \/ wait_img \/ vsync
    BY <1>3, EngineRests DEF start_render, acquire, acquire_img, wait_img, vsync
<1>4. CASE UNCHANGED vars
    BY <1>4, EngineRests DEF vars
<1> QED
    BY <1>1, <1>2, <1>3, <1>4, EngineSubmit, EngineComplete, EngineShow
       DEF Next, Render

-----------------------------------------------------------------------------
(* The uniform buffers.                                                    *)

\* Until the swap chain is created again, a region that does not have the values
\* of now is to be written.
UniformInv ==
    /\ recreate \in BOOLEAN /\ updated \subseteq AllFrames /\ uniforms \subseteq AllFrames
    /\ recreate \/ AllFrames \subseteq updated \cup uniforms
    /\ InSlot => ~recreate
    /\ UniformsCurrent

LEMMA InitUniforms == Init => UniformInv
  BY DEF Init, UniformInv, InSlot, UniformsCurrent

LEMMA UniformsRest ==
    ASSUME UniformInv, UNCHANGED <<recreate, updated, uniforms>>,
           InSlot' => ~recreate,
           pc' # "vsync" \/ UNCHANGED <<pc, cur_frame>>
    PROVE  UniformInv'
  BY DEF UniformInv, UniformsCurrent, AllFrames

LEMMA StepUniforms ==
    ASSUME FlightInv, UniformInv, [Next]_vars
    PROVE  UniformInv'
<1> USE DEF UniformInv, UniformsCurrent, InSlot, AllFrames
<1>1. CASE \E n \in Writes : write_to_buffer(n)
    BY <1>1 DEF write_to_buffer, host, ubo
<1>2. CASE set_updated \/ resize \/ set_swap_interval
    BY <1>2 DEF set_updated, resize, set_swap_interval, host, ubo, Outdated
<1>3. CASE \E n \in FrameCounts : set_n_frames(n)
    BY <1>3 DEF set_n_frames
<1>4. CASE start_render \/ recreate_swapchain \/ acquire_out_of_date
    BY <1>4 DEF start_render, recreate_swapchain, acquire_out_of_date, NewSwapChain,
       host, ubo
<1>5. CASE acquire \/ wait_img
    <2>1. UNCHANGED <<recreate, updated, uniforms>> /\ ~recreate /\ pc' # "vsync"
        BY <1>5 DEF acquire, acquire_img, wait_img, ubo
    <2> QED
        BY <2>1, UniformsRest
<1>6. CASE submit \/ submit_out_of_date
    <2>1. cur_frame \in AllFrames /\ ~recreate /\ cur_frame' = cur_frame
          /\ uniforms' = UpdatedRegions
        BY <1>6, FramesInAll
           DEF FlightInv, FlightTypeOK, submit, submit_out_of_date, Submitted
    <2>2. /\ recreate' = FALSE
          /\ updated' = updated \ {cur_frame} \/ updated' = AllFrames
        BY <1>6, <2>1 DEF submit, submit_out_of_date, NewSwapChain
    <2>3. cur_frame \in uniforms' /\ uniforms' \subseteq AllFrames
          /\ AllFrames \subseteq updated' \cup uniforms'
        BY <2>1, <2>2 DEF UpdatedRegions
    <2>4. pc' = "vsync"
        BY <1>6 DEF submit, submit_out_of_date, Submitted
    <2> QED
        BY <2>1, <2>2, <2>3, <2>4
<1>7. CASE vsync \/ complete \/ show \/ UNCHANGED vars
    <2>1. UNCHANGED <<recreate, updated, uniforms>>
          /\ (pc' = "host" \/ UNCHANGED <<pc, cur_frame>>)
        BY <1>7 DEF vsync, complete, show, vars, host, ubo
    <2>2. InSlot' => ~recreate
        BY <2>1
    <2> QED
        BY <2>1, <2>2, UniformsRest
<1> QED
    BY <1>1, <1>2, <1>3, <1>4, <1>5, <1>6, <1>7 DEF Next, Script, Render

-----------------------------------------------------------------------------
(* Together.                                                               *)

IInv == FlightInv /\ StagingInv /\ EngineInv /\ UniformInv

LEMMA InitIInv == Init => IInv
  BY InitFlight, InitStaging, InitEngine, InitUniforms DEF IInv

LEMMA StepFlight ==
    ASSUME FlightInv, StagingInv, [Next]_vars
    PROVE  FlightInv'
<1>1. InUse(cur_frame) \subseteq Blocks
    <2>1. cur_frame \in AllFrames
        BY FramesInAll DEF FlightInv, FlightTypeOK
    <2>2. blocks[cur_frame] \in [ids : Seq(Blocks), room : 0..(Capacity - 1)]
        BY <2>1 DEF StagingInv, StagingTypeOK
    <2>3. blocks[cur_frame].ids \in Seq(Blocks)
        BY <2>2
    <2>4. DOMAIN blocks[cur_frame].ids = 1..Len(blocks[cur_frame].ids)
        BY <2>3, LenProperties
    <2> QED
        BY <2>3, <2>4 DEF InUse, Range
<1>2. CASE show \/ UNCHANGED vars
    BY <1>2, FlightRests DEF show, vars, device
<1> QED
    BY <1>1, <1>2, StepScripts, StepStarts, StepAcquire, StepWait, StepSubmit,
       StepSubmitLate, StepVsync, StepComplete DEF Next, Render

LEMMA StepIInv ==
    ASSUME IInv, [Next]_vars
    PROVE  IInv' /\ Retires
  BY StepFlight, StepStaging, StepEngine, StepUniforms DEF IInv

\* Presented images that no submission is to render to are distinct.
LEMMA FewPresents ==
    ASSUME FlightInv, EngineInv
    PROVE  Len(presents) \in Len(pending)..(Len(pending) + NImages)
<1>1. PICK l \in Nat, p \in Nat, done \in Nat :
        /\ l = Len(pending) /\ DOMAIN pending = 1..l
        /\ p = Len(presents) /\ DOMAIN presents = 1..p /\ p = l + done
        /\ \A i \in 1..l : presents[done + i] = pending[i].img
        /\ \A i \in 1..done : presents[i] # shown
        /\ \A i, j \in 1..done : presents[i] = presents[j] => i = j
    BY EngineLengths
<1>2. \A i \in 1..done : i \in 1..p
    BY <1>1
<1>3. \A i \in 1..done : presents[i] \in Images
    BY <1>1, <1>2 DEF EngineInv
<1> DEFINE g == [i \in 1..done |-> presents[i]]
<1>4. g \in Injection(1..done, Images)
    BY <1>1, <1>3 DEF Injection, IsInjective
<1>5. \A n \in Nat : IsFiniteSet(1..n) /\ Cardinality(1..n) = n
    BY FS_Interval
<1>6. IsFiniteSet(Images) /\ Cardinality(Images) = NImages
    BY ImagesFinite
<1>7. IsFiniteSet(1..done) /\ Cardinality(1..done) = done
    BY <1>5
<1>8. Cardinality(1..done) <= Cardinality(Images)
    BY <1>4, <1>6, <1>7, FS_Injection
<1>9. done <= NImages /\ NImages \in Nat
    BY <1>6, <1>7, <1>8, Counts
<1>10. p \in l..(l + NImages)
    BY <1>1, <1>9
<1> QED
    BY <1>1, <1>10

LEMMA IInvTypeOK == IInv => TypeOK
<1> SUFFICES ASSUME IInv PROVE TypeOK
    OBVIOUS
<1>1. \A f \in AllFrames :
        blocks[f].room \in 0..(Capacity - 1) /\ InUse(f) \subseteq Blocks
    <2> SUFFICES ASSUME NEW f \in AllFrames
                 PROVE  blocks[f].room \in 0..(Capacity - 1) /\ InUse(f) \subseteq Blocks
        OBVIOUS
    <2>1. blocks[f] \in [ids : Seq(Blocks), room : 0..(Capacity - 1)]
        BY DEF IInv, StagingInv, StagingTypeOK
    <2>2. blocks[f].ids \in Seq(Blocks) /\ blocks[f].room \in 0..(Capacity - 1)
        BY <2>1
    <2>3. DOMAIN blocks[f].ids = 1..Len(blocks[f].ids)
        BY <2>2, LenProperties
    <2> QED
        BY <2>2, <2>3 DEF InUse, Range
<1>2. \A i \in DOMAIN free : free[i] \in FreeBlocks /\ free[i].age <= n_frames
    BY DEF IInv, StagingInv, StagingTypeOK, Aged
<1>3. Ids(free) \subseteq Blocks
    BY <1>2 DEF Ids, FreeBlocks
<1>4. \A i \in DOMAIN free : free[i].age \in 0..Max(FrameCounts)
    <2> DEFINE N == Max(FrameCounts)
    <2>1. n_frames \in Nat /\ N \in Nat /\ n_frames <= N
        BY Counts DEF IInv, FlightInv, FlightTypeOK
    <2>2. \A i \in DOMAIN free : free[i].age \in Nat
        BY <1>2 DEF FreeBlocks
    <2> HIDE DEF N
    <2>3. \A i \in DOMAIN free : free[i].age \in 0..N
        BY <1>2, <2>1, <2>2
    <2> QED
        BY <2>3 DEF N
<1>5. \A i \in DOMAIN pending : pending[i].frame \in Frames /\ pending[i].slot \in Slots
    <2>1. \A i \in DOMAIN pending : pending[i] \in Submissions
        BY DEF IInv, FlightInv, FlightTypeOK
    <2> QED
        BY <2>1 DEF IInv, FlightInv, FlightTypeOK, Submissions
<1>6. Range(presents) \subseteq Images
    <2>1. presents \in Seq(Images)
        BY DEF IInv, EngineInv
    <2>2. DOMAIN presents = 1..Len(presents)
        BY <2>1, LenProperties
    <2> QED
        BY <2>1, <2>2 DEF Range
<1>7. Len(presents) \in Len(pending)..(Len(pending) + NImages)
    BY FewPresents DEF IInv
<1> QED
    BY <1>1, <1>3, <1>4, <1>5, <1>6, <1>7
       DEF TypeOK, IInv, FlightInv, FlightTypeOK, EngineInv, UniformInv

LEMMA IInvBlocksApart == IInv => BlocksApart
<1> SUFFICES ASSUME IInv, NEW i \in DOMAIN pending
             PROVE  /\ pending[i].blocks \cap Ids(free) = {}
                    /\ pc = "host" => pending[i].blocks \cap InUse(cur_frame) = {}
    BY DEF BlocksApart, IInv, StagingInv
<1>1. pending[i].frame \in AllFrames /\ cur_frame \in AllFrames
    BY PendingFrames, FramesInAll DEF IInv, FlightInv, FlightTypeOK
<1>2. pending[i].blocks = InUse(pending[i].frame)
    BY DEF IInv, StagingInv, ReadInv
<1>3. pc = "host" => pending[i].frame # cur_frame
    BY DEF IInv, FlightInv, SlotInv, FrameFree
<1> QED
    BY <1>1, <1>2, <1>3 DEF IInv, StagingInv, OnePlace

LEMMA IInvFreeYoung == IInv => FreeYoung
  BY DEF IInv, StagingInv, Aged, FreeYoung

LEMMA IInvNotInUse == IInv => NotInUse
<1> SUFFICES ASSUME IInv PROVE NotInUse
    OBVIOUS
<1>1. pc = "record" \/ (pc = "wait" /\ Len(pending) < NImages) =>
        \A i \in DOMAIN pending : pending[i].slot # ctx.slot
    BY SlotsApart DEF IInv
<1>2. ASSUME pc = "record" PROVE ctx.slot \in signalled
    <2>1. ctx \in [img : Images, slot : Slots]
        BY <1>2 DEF IInv, FlightInv, FlightTypeOK, InSlot
    <2> QED
        BY <1>1, <1>2, <2>1 DEF IInv, FlightInv, SlotInv
<1> QED
    BY <1>1, <1>2 DEF NotInUse, SlotFree, IInv, FlightInv, SlotInv

LEMMA Invariance == Spec => []IInv
<1>1. IInv /\ [Next]_vars => IInv'
    BY StepIInv
<1> QED
    BY <1>1, InitIInv, PTL DEF Spec

\* The blocks of staging memory are in one place each, those that submissions
\* under way read are neither free nor written to, and those past the first
\* n_frames of the free list were idle for at most n_frames updates:
\* StagingBuffer (staging.cpp), VulkanBackend::render() and vsync().
THEOREM BlocksAreApart == Spec => []Inv
<1>1. IInv => Inv
    BY IInvTypeOK, IInvBlocksApart, IInvFreeYoung DEF Inv
<1> QED
    BY <1>1, Invariance, PTL

\* No submission under way uses the frame that is recorded or the semaphores and
\* the fence of the slot it is submitted with, for any numbers of frames and
\* images, and the semaphore an image is acquired with is free unless all images
\* are being rendered to: VulkanBackend::vsync(), SwapChain::acquire_img().
THEOREM NothingInUse == Spec => []NotInUse
<1>1. IInv => NotInUse
    BY IInvNotInUse
<1> QED
    BY <1>1, Invariance, PTL

\* A block of staging memory is destroyed only after a full cycle of frames in
\* which it was not used, and n_frames free blocks are kept:
\* StagingBuffer::retire_free().
THEOREM UnusedAreRetired == Spec => RetiredUnused
<1>1. IInv /\ [Next]_vars => [Retires]_vars
    BY StepIInv
<1> QED
    BY <1>1, Invariance, PTL DEF Spec, RetiredUnused, Retires

\* The region of the uniform buffer that a frame was submitted with has the values
\* of the camera and of the lights: VulkanBackend::render().
THEOREM UniformsAreCurrent == Spec => []UniformsCurrent
<1>1. IInv => UniformsCurrent
    BY DEF IInv, UniformInv
<1> QED
    BY <1>1, Invariance, PTL

-----------------------------------------------------------------------------
(* The cache of textures.                                                  *)

(* The renderers that show the texture of slot i. *)
Shown(i) == {r \in Renderers : tex[r] = i}

LEMMA ShownFinite ==
    ASSUME NEW i
    PROVE  IsFiniteSet(Shown(i)) /\ Cardinality(Shown(i)) \in Nat
<1>1. IsFiniteSet(Shown(i))
  BY TexturesAssumption, FS_Subset DEF Shown
<1> QED
  BY <1>1, FS_CardinalityType

LEMMA FirstIn == ASSUME NEW S, NEW i \in First(S) PROVE i \in S
  BY DEF First

LEMMA AdvancedType ==
    ASSUME TexturesTypeOK, NEW n \in Nat
    PROVE  Advanced(n) \in 0..(GenMod - 1)
<1>1. gen + n \in Nat /\ GenMod \in Nat \ {0}
  BY TexturesAssumption DEF TexturesTypeOK
<1>2. (gen + n) % GenMod \in 0..(GenMod - 1)
  BY <1>1
<1> QED
  BY <1>2 DEF Advanced

LEMMA SlotsType == TextureSlots \subseteq Nat \ {0}
  BY TexturesAssumption DEF TextureSlots

(* A renderer more, or a renderer less, shows a slot. *)
LEMMA ShowsMore ==
    ASSUME TexturesTypeOK, NEW r \in Renderers, NEW i \in TextureSlots,
           tex[r] = 0, tex' = [tex EXCEPT ![r] = i], NEW j \in TextureSlots
    PROVE  Cardinality(Shown(j)') = Cardinality(Shown(j)) + IF j = i THEN 1 ELSE 0
<1>0. i # 0 /\ j # 0
  BY SlotsType
<1>1. CASE j = i
  <2>1. Shown(j)' = Shown(j) \cup {r}
    BY <1>1 DEF Shown, TexturesTypeOK
  <2>2. r \notin Shown(j)
    BY <1>0, SlotsType DEF Shown
  <2> QED
    BY <1>1, <2>1, <2>2, ShownFinite, FS_AddElement
<1>2. CASE j # i
  <2>1. Shown(j)' = Shown(j)
    BY <1>0, <1>2 DEF Shown, TexturesTypeOK
  <2> QED
    BY <1>2, <2>1, ShownFinite
<1> QED
  BY <1>1, <1>2

LEMMA ShowsLess ==
    ASSUME TexturesTypeOK, NEW r \in Renderers,
           tex[r] # 0, tex' = [tex EXCEPT ![r] = 0], NEW j \in TextureSlots
    PROVE  Cardinality(Shown(j)) = Cardinality(Shown(j)') + IF j = tex[r] THEN 1 ELSE 0
<1>0. j # 0
  BY SlotsType
<1>1. CASE j = tex[r]
  <2>1. Shown(j)' = Shown(j) \ {r}
    BY <1>0, <1>1 DEF Shown, TexturesTypeOK
  <2>2. r \in Shown(j)
    BY <1>1 DEF Shown
  <2>3. Cardinality(Shown(j) \ {r}) = Cardinality(Shown(j)) - 1
    BY <2>2, ShownFinite, FS_RemoveElement
  <2> QED
    BY <1>1, <2>1, <2>3, ShownFinite
<1>2. CASE j # tex[r]
  <2>1. Shown(j)' = Shown(j)
    BY <1>0, <1>2 DEF Shown, TexturesTypeOK
  <2> QED
    BY <1>2, <2>1, ShownFinite
<1> QED
  BY <1>1, <1>2

-----------------------------------------------------------------------------
LEMMA InitInv == TexturesInit => TexturesInv
<1> SUFFICES ASSUME TexturesInit PROVE TexturesInv
  OBVIOUS
<1>1. TexturesTypeOK
  BY TexturesAssumption DEF TexturesInit, TexturesTypeOK, TextureSlots
<1>2. CountsExact
  <2> SUFFICES ASSUME NEW i \in TextureSlots
               PROVE  counts[i] = held[i] + Cardinality(Shown(i))
    BY DEF CountsExact, Shown
  <2>1. Shown(i) = {}
    BY SlotsType DEF TexturesInit, Shown
  <2> QED
    BY <2>1, FS_EmptySet DEF TexturesInit
<1>3. NamesUnique /\ Named /\ ImagesKept
  BY DEF TexturesInit, NamesUnique, Named, ImagesKept
<1> QED
  BY <1>1, <1>2, <1>3 DEF TexturesInv

(* The counts are right after a step in which renderers keep their texture *)
(* if what scripts hold changes with them.                                 *)
LEMMA CountsKept ==
    ASSUME TexturesInv, UNCHANGED tex,
           \A j \in TextureSlots : counts'[j] + held[j] = counts[j] + held'[j],
           counts' \in [TextureSlots -> Nat], held' \in [TextureSlots -> Nat]
    PROVE  CountsExact'
<1> SUFFICES ASSUME NEW j \in TextureSlots
             PROVE  counts'[j] = held'[j] + Cardinality(Shown(j)')
  BY DEF CountsExact, Shown
<1>1. Shown(j)' = Shown(j) /\ Cardinality(Shown(j)) \in Nat
  BY ShownFinite DEF Shown
<1>2. counts[j] = held[j] + Cardinality(Shown(j))
  BY DEF TexturesInv, CountsExact, Shown
<1>3. counts'[j] + held[j] = counts[j] + held'[j]
  OBVIOUS
<1>4. counts[j] \in Nat /\ held[j] \in Nat /\ counts'[j] \in Nat /\ held'[j] \in Nat
  BY TexturesAssumption DEF TexturesInv, TexturesTypeOK
<1> QED
  BY <1>1, <1>2, <1>3, <1>4

LEMMA LoadFoundInv ==
    ASSUME TexturesInv, NEW name \in Names, load_found(name)
    PROVE  TexturesInv'
<1>1. PICK i \in First(Found(name)) :
        /\ Held(i)
        /\ counts' = [counts EXCEPT ![i] = @ + 1]
        /\ UNCHANGED <<names, gen, image, tex, lost>>
  BY DEF load_found
<1>2. i \in TextureSlots /\ names[i] = name
  BY FirstIn DEF Found
<1>3. held' = [held EXCEPT ![i] = @ + 1] /\ held[i] < MaxRefs
  BY <1>1 DEF Held
<1>4. TexturesTypeOK'
  BY <1>1, <1>2, <1>3, TexturesAssumption DEF TexturesInv, TexturesTypeOK
<1>5. CountsExact'
  <2>1. \A j \in TextureSlots : counts'[j] + held[j] = counts[j] + held'[j]
    BY <1>1, <1>2, <1>3, TexturesAssumption DEF TexturesInv, TexturesTypeOK
  <2>2. counts' \in [TextureSlots -> Nat] /\ held' \in [TextureSlots -> Nat]
    BY <1>4, TexturesAssumption DEF TexturesTypeOK
  <2> QED
    BY <1>1, <2>1, <2>2, CountsKept
<1>6. NamesUnique' /\ ImagesKept'
  BY <1>1 DEF TexturesInv, NamesUnique, ImagesKept
<1>7. Named'
  BY <1>1, <1>2, TexturesAssumption DEF TexturesInv, TexturesTypeOK, Named
<1> QED
  BY <1>4, <1>5, <1>6, <1>7 DEF TexturesInv

LEMMA InsertInv ==
    ASSUME TexturesInv, NEW name \in Names, insert(name)
    PROVE  TexturesInv'
<1>1. PICK i \in First(Empty) :
        /\ Held(i)
        /\ image' = [image EXCEPT ![i] = name]
        /\ names' = [names EXCEPT ![i] = name]
        /\ counts' = [counts EXCEPT ![i] = 1]
        /\ gen' = Advanced(1)
        /\ lost' = lost \ {i}
        /\ UNCHANGED tex
  BY DEF insert
<1>2. i \in TextureSlots /\ counts[i] = 0
  BY FirstIn DEF Empty
<1>3. held' = [held EXCEPT ![i] = @ + 1] /\ held[i] < MaxRefs
  BY <1>1 DEF Held
<1>4. \A j \in TextureSlots : names[j] # name
  BY DEF insert, Found
<1>5. TexturesTypeOK'
  BY <1>1, <1>2, <1>3, AdvancedType, TexturesAssumption DEF TexturesInv, TexturesTypeOK
<1>6. CountsExact'
  <2>1. held[i] = 0
    <3>1. counts[i] = held[i] + Cardinality(Shown(i)) /\ held[i] \in Nat
      BY <1>2, TexturesAssumption DEF TexturesInv, TexturesTypeOK, CountsExact, Shown
    <3> QED
      BY <1>2, <3>1, ShownFinite
  <2>2. \A j \in TextureSlots : counts'[j] + held[j] = counts[j] + held'[j]
    BY <1>1, <1>2, <1>3, <2>1, TexturesAssumption DEF TexturesInv, TexturesTypeOK
  <2>3. counts' \in [TextureSlots -> Nat] /\ held' \in [TextureSlots -> Nat]
    BY <1>5, TexturesAssumption DEF TexturesTypeOK
  <2> QED
    BY <1>1, <2>2, <2>3, CountsKept
<1>7. NamesUnique' /\ ImagesKept'
  BY <1>1, <1>2, <1>4 DEF TexturesInv, TexturesTypeOK, NamesUnique, ImagesKept
<1>8. Named'
  BY <1>1, <1>2, TexturesAssumption DEF TexturesInv, TexturesTypeOK, Named
<1> QED
  BY <1>5, <1>6, <1>7, <1>8 DEF TexturesInv

LEMMA InsertFailsInv ==
    ASSUME TexturesInv, NEW name \in Names, insert_fails(name)
    PROVE  TexturesInv'
<1>1. PICK i \in First(Empty), c \in Names \cup {Unknown} :
        /\ image' = [image EXCEPT ![i] = c]
        /\ lost' = lost \cup {i}
  BY DEF insert_fails
<1>2. UNCHANGED <<counts, names, gen, tex, held>>
  BY DEF insert_fails
<1>3. i \in TextureSlots
  BY FirstIn DEF Empty
<1>4. TexturesTypeOK'
  BY <1>1, <1>2, <1>3 DEF TexturesInv, TexturesTypeOK
<1>5. CountsExact' /\ NamesUnique' /\ Named'
  BY <1>2 DEF TexturesInv, CountsExact, NamesUnique, Named
<1>6. ImagesKept'
  BY <1>1, <1>2, <1>3 DEF TexturesInv, TexturesTypeOK, ImagesKept
<1> QED
  BY <1>4, <1>5, <1>6 DEF TexturesInv

LEMMA RemoveInv ==
    ASSUME TexturesInv, NEW i \in TextureSlots, remove(i)
    PROVE  TexturesInv'
<1>1. /\ held[i] > 0 /\ held' = [held EXCEPT ![i] = @ - 1]
      /\ counts' = [counts EXCEPT ![i] = @ - 1] /\ gen' = Advanced(1)
      /\ UNCHANGED <<names, image, tex, lost>>
  BY DEF remove
<1>2. counts[i] > 0
  <2>1. counts[i] = held[i] + Cardinality(Shown(i)) /\ held[i] \in Nat
    BY TexturesAssumption DEF TexturesInv, TexturesTypeOK, CountsExact, Shown
  <2> QED
    BY <1>1, <2>1, ShownFinite
<1>3. TexturesTypeOK'
  <2>1. /\ counts[i] \in Nat /\ counts[i] - 1 \in Nat
        /\ held[i] \in 0..MaxRefs /\ held[i] - 1 \in 0..MaxRefs
    BY <1>1, <1>2, TexturesAssumption DEF TexturesInv, TexturesTypeOK
  <2> QED
    BY <1>1, <2>1, AdvancedType DEF TexturesInv, TexturesTypeOK
<1>4. CountsExact'
  <2>1. \A j \in TextureSlots : counts'[j] + held[j] = counts[j] + held'[j]
    BY <1>1, TexturesAssumption DEF TexturesInv, TexturesTypeOK
  <2>2. counts' \in [TextureSlots -> Nat] /\ held' \in [TextureSlots -> Nat]
    BY <1>3, TexturesAssumption DEF TexturesTypeOK
  <2> QED
    BY <1>1, <2>1, <2>2, CountsKept
<1>5. NamesUnique' /\ ImagesKept'
  BY <1>1 DEF TexturesInv, NamesUnique, ImagesKept
<1>6. Named'
  BY <1>1, <1>2 DEF TexturesInv, TexturesTypeOK, Named
<1> QED
  BY <1>3, <1>4, <1>5, <1>6 DEF TexturesInv

LEMMA RendererLoadInv ==
    ASSUME TexturesInv, NEW r \in Renderers, NEW i \in TextureSlots, renderer_load(r, i)
    PROVE  TexturesInv'
<1>1. /\ tex[r] = 0 /\ held[i] > 0 /\ tex' = [tex EXCEPT ![r] = i]
      /\ counts' = [counts EXCEPT ![i] = @ + 1] /\ gen' = Advanced(1)
      /\ UNCHANGED <<names, image, held, lost>>
  BY DEF renderer_load
<1>2. TexturesTypeOK'
  <2>1. Advanced(1) \in 0..(GenMod - 1)
    BY AdvancedType DEF TexturesInv
  <2>2. i \in 0..(MaxTextures - 1)
    BY TexturesAssumption DEF TextureSlots
  <2>3. tex' \in [Renderers -> 0..(MaxTextures - 1)]
    BY <1>1, <2>2 DEF TexturesInv, TexturesTypeOK
  <2>4. counts' \in [TextureSlots -> Nat]
    BY <1>1 DEF TexturesInv, TexturesTypeOK
  <2> QED
    BY <1>1, <2>1, <2>3, <2>4 DEF TexturesInv, TexturesTypeOK
<1>3. CountsExact'
  <2> SUFFICES ASSUME NEW j \in TextureSlots
               PROVE  counts'[j] = held'[j] + Cardinality(Shown(j)')
    BY DEF CountsExact, Shown
  <2>1. Cardinality(Shown(j)') = Cardinality(Shown(j)) + IF j = i THEN 1 ELSE 0
    BY <1>1, ShowsMore DEF TexturesInv
  <2>2. /\ counts[j] = held[j] + Cardinality(Shown(j))
        /\ counts'[j] = counts[j] + IF j = i THEN 1 ELSE 0
    BY <1>1 DEF TexturesInv, TexturesTypeOK, CountsExact, Shown
  <2>3. held'[j] = held[j] /\ held[j] \in Nat
    BY <1>1, TexturesAssumption DEF TexturesInv, TexturesTypeOK
  <2> QED
    BY <2>1, <2>2, <2>3, ShownFinite
<1>4. NamesUnique' /\ ImagesKept'
  BY <1>1 DEF TexturesInv, NamesUnique, ImagesKept
<1>5. Named'
  <2>1. counts[i] > 0
    <3>1. counts[i] = held[i] + Cardinality(Shown(i)) /\ held[i] \in Nat
      BY TexturesAssumption DEF TexturesInv, TexturesTypeOK, CountsExact, Shown
    <3> QED
      BY <1>1, <3>1, ShownFinite
  <2> QED
    BY <1>1, <2>1 DEF TexturesInv, TexturesTypeOK, Named
<1> QED
  BY <1>2, <1>3, <1>4, <1>5 DEF TexturesInv

LEMMA RendererRemoveInv ==
    ASSUME TexturesInv, NEW r \in Renderers, renderer_remove(r)
    PROVE  TexturesInv'
<1>1. /\ tex[r] # 0 /\ tex' = [tex EXCEPT ![r] = 0]
      /\ counts' = [counts EXCEPT ![tex[r]] = @ - 1] /\ gen' = Advanced(1)
      /\ UNCHANGED <<names, image, held, lost>>
  BY DEF renderer_remove
<1>2. tex[r] \in TextureSlots
  BY <1>1, TexturesAssumption DEF TexturesInv, TexturesTypeOK, TextureSlots
<1>3. counts[tex[r]] > 0 /\ counts[tex[r]] \in Nat
  <2>1. PICK j \in TextureSlots : j = tex[r]
    BY <1>2
  <2>2. Cardinality(Shown(j)) # 0
    <3>1. r \in Shown(j)
      BY <2>1 DEF Shown
    <3> QED
      BY <3>1, ShownFinite, FS_EmptySet
  <2>3. counts[j] = held[j] + Cardinality(Shown(j))
    BY DEF TexturesInv, CountsExact, Shown
  <2>4. held[j] \in Nat
    BY TexturesAssumption DEF TexturesInv, TexturesTypeOK
  <2> QED
    BY <2>1, <2>2, <2>3, <2>4, ShownFinite
<1>4. TexturesTypeOK'
  <2>1. Advanced(1) \in 0..(GenMod - 1)
    BY AdvancedType DEF TexturesInv
  <2>2. tex' \in [Renderers -> 0..(MaxTextures - 1)]
    BY <1>1, TexturesAssumption DEF TexturesInv, TexturesTypeOK
  <2>3. counts' \in [TextureSlots -> Nat]
    BY <1>1, <1>2, <1>3 DEF TexturesInv, TexturesTypeOK
  <2> QED
    BY <1>1, <2>1, <2>2, <2>3 DEF TexturesInv, TexturesTypeOK
<1>5. CountsExact'
  <2> SUFFICES ASSUME NEW j \in TextureSlots
               PROVE  counts'[j] = held'[j] + Cardinality(Shown(j)')
    BY DEF CountsExact, Shown
  <2>1. Cardinality(Shown(j)) = Cardinality(Shown(j)') + IF j = tex[r] THEN 1 ELSE 0
    BY <1>1, ShowsLess DEF TexturesInv
  <2>2. /\ counts[j] = held[j] + Cardinality(Shown(j))
        /\ counts'[j] = counts[j] - IF j = tex[r] THEN 1 ELSE 0
    BY <1>1 DEF TexturesInv, TexturesTypeOK, CountsExact, Shown
  <2>3. held'[j] = held[j] /\ held[j] \in Nat
    BY <1>1, TexturesAssumption DEF TexturesInv, TexturesTypeOK
  <2>4. Cardinality(Shown(j)') \in Nat
    <3>1. IsFiniteSet(Shown(j)')
      BY TexturesAssumption, FS_Subset DEF Shown
    <3> QED
      BY <3>1, FS_CardinalityType
  <2> QED
    BY <2>1, <2>2, <2>3, <2>4
<1>6. NamesUnique' /\ ImagesKept'
  BY <1>1 DEF TexturesInv, NamesUnique, ImagesKept
<1>7. Named'
  BY <1>1, <1>2, <1>3 DEF TexturesInv, TexturesTypeOK, Named
<1> QED
  BY <1>4, <1>5, <1>6, <1>7 DEF TexturesInv

LEMMA GraphicsInv ==
    ASSUME TexturesInv, set_graphics \/ reload_all \/ reload_all_fails
    PROVE  TexturesInv'
<1>0. UNCHANGED <<counts, names, gen, tex, held>>
  BY DEF set_graphics, reload_all, reload_all_fails
<1>1. CountsExact' /\ NamesUnique' /\ Named'
  BY <1>0 DEF TexturesInv, CountsExact, NamesUnique, Named
<1>2. CASE set_graphics
  <2>1. TexturesTypeOK' /\ ImagesKept'
    BY <1>0, <1>2 DEF TexturesInv, TexturesTypeOK, ImagesKept, set_graphics
  <2> QED
    BY <1>1, <2>1 DEF TexturesInv
<1>3. CASE reload_all
  <2>1. \A i \in TextureSlots : counts[i] > 0 => names[i] \in Names
    BY DEF TexturesInv, TexturesTypeOK, Named
  <2>2. TexturesTypeOK'
    BY <1>0, <1>3, <2>1 DEF TexturesInv, TexturesTypeOK, reload_all
  <2>3. ImagesKept'
    BY <1>0, <1>3 DEF TexturesInv, TexturesTypeOK, ImagesKept, reload_all, Empty
  <2> QED
    BY <1>1, <2>2, <2>3 DEF TexturesInv
<1>4. CASE reload_all_fails
  <2>1. \A i \in TextureSlots : counts[i] > 0 => names[i] \in Names
    BY DEF TexturesInv, TexturesTypeOK, Named
  <2>2. PICK n \in TextureSlots : counts[n] > 0 /\ \E c \in Damaged(n, names[n]) :
          /\ image' = [i \in TextureSlots |->
                IF counts[i] = 0 \/ i > n THEN image[i]
                ELSE IF i = n THEN c ELSE names[i]]
          /\ lost' = {i \in lost : i > n \/ counts[i] = 0} \cup {n}
    BY <1>4 DEF reload_all_fails
  <2>3. PICK c \in Names \cup {Unknown} :
          /\ image' = [i \in TextureSlots |->
                IF counts[i] = 0 \/ i > n THEN image[i]
                ELSE IF i = n THEN c ELSE names[i]]
          /\ lost' = {i \in lost : i > n \/ counts[i] = 0} \cup {n}
    BY <2>1, <2>2 DEF TexturesInv, TexturesTypeOK, Damaged
  <2>4. \A i \in TextureSlots : counts[i] \in Nat
    BY DEF TexturesInv, TexturesTypeOK
  <2>5. TexturesTypeOK'
    BY <1>0, <2>1, <2>3, <2>4 DEF TexturesInv, TexturesTypeOK
  <2>6. ImagesKept'
    BY <1>0, <2>3, <2>4, SlotsType DEF TexturesInv, TexturesTypeOK, ImagesKept
  <2> QED
    BY <1>1, <2>5, <2>6 DEF TexturesInv
<1> QED
  BY <1>2, <1>3, <1>4

LEMMA Inductive == TexturesInv /\ [TexturesNext]_texturesVars => TexturesInv'
<1> SUFFICES ASSUME TexturesInv, [TexturesNext]_texturesVars PROVE TexturesInv'
  OBVIOUS
<1>1. CASE UNCHANGED texturesVars
  BY <1>1 DEF texturesVars, TexturesInv, TexturesTypeOK, CountsExact,
      NamesUnique, Named, ImagesKept
<1>2. CASE TexturesNext
  BY <1>2, LoadFoundInv, InsertInv, InsertFailsInv, RemoveInv, RendererLoadInv,
     RendererRemoveInv, GraphicsInv DEF TexturesNext
<1> QED
  BY <1>1, <1>2

-----------------------------------------------------------------------------
(* A texture is counted once for each script and renderer that holds it, a *)
(* name has one slot and a slot in use a name, in every state, for any     *)
(* number of names, slots and renderers: Textures::load() to remove().     *)
THEOREM Counted == TexturesSpec => []TexturesInv
<1> QED
  BY InitInv, Inductive, PTL DEF TexturesSpec

(* A slot in use that was not lost has the image of its name, whoever      *)
(* found it, inserted it or reloaded it (Textures::insert(), reload_all()).*)
THEOREM OwnImages == TexturesSpec => []ImagesRight
<1>1. TexturesInv => ImagesRight
  BY DEF TexturesInv, TexturesTypeOK, Named, ImagesKept, ImagesRight
<1> QED
  BY <1>1, InitInv, Inductive, PTL DEF TexturesSpec

(* A renderer never shows another texture than it was given: its slot is   *)
(* not empty as long as it is shown, so insert() does not take it.         *)
THEOREM ShownIsKept == TexturesSpec => ShownStays
<1>1. TexturesInv /\ [TexturesNext]_texturesVars =>
        [\A r \in Renderers :
            tex[r] # 0 /\ tex'[r] = tex[r] => names'[tex[r]] = names[tex[r]]]_texturesVars
  <2> SUFFICES ASSUME TexturesInv, TexturesNext, NEW r \in Renderers,
                      tex[r] # 0, tex'[r] = tex[r]
               PROVE  names'[tex[r]] = names[tex[r]]
    OBVIOUS
  <2>1. tex[r] \in TextureSlots
    BY TexturesAssumption DEF TexturesInv, TexturesTypeOK, TextureSlots
  <2>2. counts[tex[r]] # 0
    <3>1. r \in Shown(tex[r])
      BY DEF Shown
    <3>2. Cardinality(Shown(tex[r])) # 0
      BY <3>1, ShownFinite, FS_EmptySet
    <3>3. counts[tex[r]] = held[tex[r]] + Cardinality(Shown(tex[r]))
      BY <2>1 DEF TexturesInv, CountsExact, Shown
    <3>4. held[tex[r]] \in Nat
      BY <2>1, TexturesAssumption DEF TexturesInv, TexturesTypeOK
    <3> QED
      BY <3>2, <3>3, <3>4, ShownFinite
  <2>3. ASSUME NEW name \in Names, insert(name)
        PROVE  names'[tex[r]] = names[tex[r]]
    <3>1. PICK i \in First(Empty) : names' = [names EXCEPT ![i] = name]
      BY <2>3 DEF insert
    <3>2. i # tex[r]
      BY <2>2, FirstIn DEF Empty
    <3> QED
      BY <2>1, <3>1, <3>2 DEF TexturesInv, TexturesTypeOK
  <2>4. CASE UNCHANGED names
    BY <2>4
  <2> QED
    BY <2>3, <2>4 DEF TexturesNext, load_found, insert_fails, remove, renderer_load,
       renderer_remove, set_graphics, reload_all, reload_all_fails
<1> QED
  BY <1>1, InitInv, Inductive, PTL DEF TexturesSpec, ShownStays

-----------------------------------------------------------------------------
(* What Vulkan draws: sequences, one element after the other.              *)

LEMMA SetInduction ==
    ASSUME NEW S, 0 \in S, \A n \in Nat : n \in S => n + 1 \in S
    PROVE  \A n \in Nat : n \in S
<1> DEFINE R == {p \in Nat \X Nat : p[1] < p[2]}
           T == Nat \ S
<1>1. IsWellFoundedOn(R, Nat)
  BY NatLessThanWellFounded, Zenon DEF OpToRel
<1>2. ASSUME T # {} PROVE FALSE
  <2>1. PICK x \in T : \A y \in T : <<y, x>> \notin R
    <3> HIDE DEF R
    <3> QED BY <1>1, <1>2, WFMin, T \subseteq Nat, Zenon
  <2>2. x # 0 /\ x \in Nat
    OBVIOUS
  <2>3. x - 1 \in Nat /\ x - 1 < x /\ (x - 1) + 1 = x
    BY <2>2
  <2>4. x - 1 \in S
    BY <2>1, <2>2, <2>3
  <2> QED BY <2>2, <2>3, <2>4
<1> QED BY <1>2

LEMMA DrawStagesIs ==
    ASSUME NEW v, NEW forced, NEW first, NEW seq, Len(seq) \in Nat
    PROVE  \E at :
            /\ Contents!DrawStages(v, first, seq, forced) = at[Len(seq)] /\ at[0] = first
            /\ \A k \in 1..Len(seq) : at[k] = Contents!DrawStage(v, at[k - 1], seq[k], forced)
<1> DEFINE Next1(x, k) == Contents!DrawStage(v, x, seq[k], forced)
           Step(x, k) == CHOOSE y \in {Contents!DrawStage(v, z, seq[k], forced) : z \in {x}} : TRUE
           Is(f, m) == f = [k \in 0..m |-> IF k = 0 THEN first ELSE Step(f[k - 1], k)]
           T == {m \in Nat : \E f : Is(f, m)}
<1>1. ASSUME NEW x, NEW k PROVE Step(x, k) = Next1(x, k)
  <2> DEFINE S == {Contents!DrawStage(v, z, seq[k], forced) : z \in {x}}
  <2>1. S = {Next1(x, k)}
    OBVIOUS
  <2> HIDE DEF Next1, S
  <2>2. (CHOOSE y \in S : TRUE) = Next1(x, k)
    BY <2>1
  <2> QED
    BY <2>2 DEF S
<1>2. Contents!DrawStages(v, first, seq, forced) = (CHOOSE f : Is(f, Len(seq)))[Len(seq)]
  BY DEF Contents!DrawStages, Contents!InOrder
<1> HIDE DEF Next1, Step
<1>3. 0 \in T
  <2>1. Is([k \in 0..0 |-> first], 0)
    OBVIOUS
  <2> QED
    BY <2>1
<1>4. ASSUME NEW m \in Nat, m \in T PROVE m + 1 \in T
  <2>1. PICK f : Is(f, m)
    BY <1>4
  <2> DEFINE h == [k \in 0..(m + 1) |-> IF k <= m THEN f[k] ELSE Step(f[m], m + 1)]
  <2>2. ASSUME NEW k \in 0..(m + 1)
        PROVE  h[k] = IF k = 0 THEN first ELSE Step(h[k - 1], k)
    <3>1. CASE k <= m
      <4>1. k \in 0..m /\ h[k] = f[k] /\ (k # 0 => h[k - 1] = f[k - 1])
        BY <3>1
      <4> HIDE DEF h
      <4> QED
        BY <2>1, <4>1
    <3>2. CASE k = m + 1
      BY <3>2
    <3> QED
      BY <3>1, <3>2
  <2>3. DOMAIN h = 0..(m + 1) /\ h = [k \in 0..(m + 1) |-> h[k]]
    OBVIOUS
  <2> HIDE DEF h
  <2>4. Is(h, m + 1)
    BY <2>2, <2>3
  <2> QED
    BY <2>4
<1> HIDE DEF T
<1>5. Len(seq) \in T
  BY <1>3, <1>4, SetInduction
<1>6. \E f : Is(f, Len(seq))
  BY <1>5 DEF T
<1> DEFINE at == CHOOSE f : Is(f, Len(seq))
<1> HIDE DEF Is
<1>7. Is(at, Len(seq))
  BY <1>6
<1> HIDE DEF at
<1>8. at = [k \in 0..Len(seq) |-> IF k = 0 THEN first ELSE Step(at[k - 1], k)]
  BY <1>7 DEF Is
<1>9. at[0] = first /\ \A k \in 1..Len(seq) : at[k] = Step(at[k - 1], k)
  BY <1>8
<1>10. \A k \in 1..Len(seq) : at[k] = Next1(at[k - 1], k)
  BY <1>1, <1>9
<1> QED
  BY <1>2, <1>9, <1>10 DEF at, Next1

LEMMA ExpectedIs ==
    ASSUME NEW v, NEW lights, NEW shadows, NEW alpha, NEW texels, NEW first, NEW seq, Len(seq) \in Nat
    PROVE  \E at :
            /\ Contents!Expected(seq, v, lights, shadows, alpha, texels, first) = at[Len(seq)] /\ at[0] = first
            /\ \A k \in 1..Len(seq) : at[k] = (IF objects[seq[k].of] = 0 THEN at[k - 1]
                 ELSE Append(at[k - 1], Contents!Drawing(seq[k].of, objects[seq[k].of], seq[k].pipe, v, lights,
                    IF texels # <<>> THEN texels
                    ELSE pictures[IF seq[k].pipe.type = "FONT" THEN "font" ELSE "tex"],
                    shadows, alpha, Contents!Hiding(at[k - 1]), size)))
<1> DEFINE Next1(x, k) == (IF objects[seq[k].of] = 0 THEN x
                 ELSE Append(x, Contents!Drawing(seq[k].of, objects[seq[k].of], seq[k].pipe, v, lights,
                    IF texels # <<>> THEN texels
                    ELSE pictures[IF seq[k].pipe.type = "FONT" THEN "font" ELSE "tex"],
                    shadows, alpha, Contents!Hiding(x), size)))
           Step(x, k) == CHOOSE y \in {(IF objects[seq[k].of] = 0 THEN z
                 ELSE Append(z, Contents!Drawing(seq[k].of, objects[seq[k].of], seq[k].pipe, v, lights,
                    IF texels # <<>> THEN texels
                    ELSE pictures[IF seq[k].pipe.type = "FONT" THEN "font" ELSE "tex"],
                    shadows, alpha, Contents!Hiding(z), size))) : z \in {x}} : TRUE
           Is(f, m) == f = [k \in 0..m |-> IF k = 0 THEN first ELSE Step(f[k - 1], k)]
           T == {m \in Nat : \E f : Is(f, m)}
<1>1. ASSUME NEW x, NEW k PROVE Step(x, k) = Next1(x, k)
  <2> DEFINE S == {(IF objects[seq[k].of] = 0 THEN z
                 ELSE Append(z, Contents!Drawing(seq[k].of, objects[seq[k].of], seq[k].pipe, v, lights,
                    IF texels # <<>> THEN texels
                    ELSE pictures[IF seq[k].pipe.type = "FONT" THEN "font" ELSE "tex"],
                    shadows, alpha, Contents!Hiding(z), size))) : z \in {x}}
  <2>1. S = {Next1(x, k)}
    OBVIOUS
  <2> HIDE DEF Next1, S
  <2>2. (CHOOSE y \in S : TRUE) = Next1(x, k)
    BY <2>1
  <2> QED
    BY <2>2 DEF S
<1>2. Contents!Expected(seq, v, lights, shadows, alpha, texels, first) = (CHOOSE f : Is(f, Len(seq)))[Len(seq)]
  BY DEF Contents!Expected, Contents!InOrder
<1> HIDE DEF Next1, Step
<1>3. 0 \in T
  <2>1. Is([k \in 0..0 |-> first], 0)
    OBVIOUS
  <2> QED
    BY <2>1
<1>4. ASSUME NEW m \in Nat, m \in T PROVE m + 1 \in T
  <2>1. PICK f : Is(f, m)
    BY <1>4
  <2> DEFINE h == [k \in 0..(m + 1) |-> IF k <= m THEN f[k] ELSE Step(f[m], m + 1)]
  <2>2. ASSUME NEW k \in 0..(m + 1)
        PROVE  h[k] = IF k = 0 THEN first ELSE Step(h[k - 1], k)
    <3>1. CASE k <= m
      <4>1. k \in 0..m /\ h[k] = f[k] /\ (k # 0 => h[k - 1] = f[k - 1])
        BY <3>1
      <4> HIDE DEF h
      <4> QED
        BY <2>1, <4>1
    <3>2. CASE k = m + 1
      BY <3>2
    <3> QED
      BY <3>1, <3>2
  <2>3. DOMAIN h = 0..(m + 1) /\ h = [k \in 0..(m + 1) |-> h[k]]
    OBVIOUS
  <2> HIDE DEF h
  <2>4. Is(h, m + 1)
    BY <2>2, <2>3
  <2> QED
    BY <2>4
<1> HIDE DEF T
<1>5. Len(seq) \in T
  BY <1>3, <1>4, SetInduction
<1>6. \E f : Is(f, Len(seq))
  BY <1>5 DEF T
<1> DEFINE at == CHOOSE f : Is(f, Len(seq))
<1> HIDE DEF Is
<1>7. Is(at, Len(seq))
  BY <1>6
<1> HIDE DEF at
<1>8. at = [k \in 0..Len(seq) |-> IF k = 0 THEN first ELSE Step(at[k - 1], k)]
  BY <1>7 DEF Is
<1>9. at[0] = first /\ \A k \in 1..Len(seq) : at[k] = Step(at[k - 1], k)
  BY <1>8
<1>10. \A k \in 1..Len(seq) : at[k] = Next1(at[k - 1], k)
  BY <1>1, <1>9
<1> QED
  BY <1>2, <1>9, <1>10 DEF at, Next1

LEMMA RegionsAre ==
    ASSUME NEW first, NEW seq, Len(seq) \in Nat
    PROVE  \E at :
            /\ Contents!WriteRegions(first, seq) = at[Len(seq)] /\ at[0] = first
            /\ \A k \in 1..Len(seq) : at[k] = Contents!WriteRegion(at[k - 1], seq[k])
<1> DEFINE Next1(x, k) == Contents!WriteRegion(x, seq[k])
           Step(x, k) == CHOOSE y \in {Contents!WriteRegion(z, seq[k]) : z \in {x}} : TRUE
           Is(f, m) == f = [k \in 0..m |-> IF k = 0 THEN first ELSE Step(f[k - 1], k)]
           T == {m \in Nat : \E f : Is(f, m)}
<1>1. ASSUME NEW x, NEW k PROVE Step(x, k) = Next1(x, k)
  <2> DEFINE S == {Contents!WriteRegion(z, seq[k]) : z \in {x}}
  <2>1. S = {Next1(x, k)}
    OBVIOUS
  <2> HIDE DEF Next1, S
  <2>2. (CHOOSE y \in S : TRUE) = Next1(x, k)
    BY <2>1
  <2> QED
    BY <2>2 DEF S
<1>2. Contents!WriteRegions(first, seq) = (CHOOSE f : Is(f, Len(seq)))[Len(seq)]
  BY DEF Contents!WriteRegions, Contents!InOrder
<1> HIDE DEF Next1, Step
<1>3. 0 \in T
  <2>1. Is([k \in 0..0 |-> first], 0)
    OBVIOUS
  <2> QED
    BY <2>1
<1>4. ASSUME NEW m \in Nat, m \in T PROVE m + 1 \in T
  <2>1. PICK f : Is(f, m)
    BY <1>4
  <2> DEFINE h == [k \in 0..(m + 1) |-> IF k <= m THEN f[k] ELSE Step(f[m], m + 1)]
  <2>2. ASSUME NEW k \in 0..(m + 1)
        PROVE  h[k] = IF k = 0 THEN first ELSE Step(h[k - 1], k)
    <3>1. CASE k <= m
      <4>1. k \in 0..m /\ h[k] = f[k] /\ (k # 0 => h[k - 1] = f[k - 1])
        BY <3>1
      <4> HIDE DEF h
      <4> QED
        BY <2>1, <4>1
    <3>2. CASE k = m + 1
      BY <3>2
    <3> QED
      BY <3>1, <3>2
  <2>3. DOMAIN h = 0..(m + 1) /\ h = [k \in 0..(m + 1) |-> h[k]]
    OBVIOUS
  <2> HIDE DEF h
  <2>4. Is(h, m + 1)
    BY <2>2, <2>3
  <2> QED
    BY <2>4
<1> HIDE DEF T
<1>5. Len(seq) \in T
  BY <1>3, <1>4, SetInduction
<1>6. \E f : Is(f, Len(seq))
  BY <1>5 DEF T
<1> DEFINE at == CHOOSE f : Is(f, Len(seq))
<1> HIDE DEF Is
<1>7. Is(at, Len(seq))
  BY <1>6
<1> HIDE DEF at
<1>8. at = [k \in 0..Len(seq) |-> IF k = 0 THEN first ELSE Step(at[k - 1], k)]
  BY <1>7 DEF Is
<1>9. at[0] = first /\ \A k \in 1..Len(seq) : at[k] = Step(at[k - 1], k)
  BY <1>8
<1>10. \A k \in 1..Len(seq) : at[k] = Next1(at[k - 1], k)
  BY <1>1, <1>9
<1> QED
  BY <1>2, <1>9, <1>10 DEF at, Next1

LEMMA PassesAre ==
    ASSUME NEW v, NEW n \in Nat, NEW point, NEW first, NEW seq, seq = [l \in 1..n |-> l],
           Len(seq) \in Nat
    PROVE  \E at :
            /\ Contents!DepthPasses(v, first, n, point) = at[Len(seq)] /\ at[0] = first
            /\ \A k \in 1..Len(seq) : at[k] = Contents!record_depth_pass(v, at[k - 1], seq[k] - 1, point)
<1> DEFINE Next1(x, k) == Contents!record_depth_pass(v, x, seq[k] - 1, point)
           Step(x, k) == CHOOSE y \in {Contents!record_depth_pass(v, z, seq[k] - 1, point) : z \in {x}} : TRUE
           Is(f, m) == f = [k \in 0..m |-> IF k = 0 THEN first ELSE Step(f[k - 1], k)]
           T == {m \in Nat : \E f : Is(f, m)}
<1>1. ASSUME NEW x, NEW k PROVE Step(x, k) = Next1(x, k)
  <2> DEFINE S == {Contents!record_depth_pass(v, z, seq[k] - 1, point) : z \in {x}}
  <2>1. S = {Next1(x, k)}
    OBVIOUS
  <2> HIDE DEF Next1, S
  <2>2. (CHOOSE y \in S : TRUE) = Next1(x, k)
    BY <2>1
  <2> QED
    BY <2>2 DEF S
<1>2. Contents!DepthPasses(v, first, n, point) = (CHOOSE f : Is(f, Len(seq)))[Len(seq)]
  BY DEF Contents!DepthPasses, Contents!InOrder
<1> HIDE DEF Next1, Step
<1>3. 0 \in T
  <2>1. Is([k \in 0..0 |-> first], 0)
    OBVIOUS
  <2> QED
    BY <2>1
<1>4. ASSUME NEW m \in Nat, m \in T PROVE m + 1 \in T
  <2>1. PICK f : Is(f, m)
    BY <1>4
  <2> DEFINE h == [k \in 0..(m + 1) |-> IF k <= m THEN f[k] ELSE Step(f[m], m + 1)]
  <2>2. ASSUME NEW k \in 0..(m + 1)
        PROVE  h[k] = IF k = 0 THEN first ELSE Step(h[k - 1], k)
    <3>1. CASE k <= m
      <4>1. k \in 0..m /\ h[k] = f[k] /\ (k # 0 => h[k - 1] = f[k - 1])
        BY <3>1
      <4> HIDE DEF h
      <4> QED
        BY <2>1, <4>1
    <3>2. CASE k = m + 1
      BY <3>2
    <3> QED
      BY <3>1, <3>2
  <2>3. DOMAIN h = 0..(m + 1) /\ h = [k \in 0..(m + 1) |-> h[k]]
    OBVIOUS
  <2> HIDE DEF h
  <2>4. Is(h, m + 1)
    BY <2>2, <2>3
  <2> QED
    BY <2>4
<1> HIDE DEF T
<1>5. Len(seq) \in T
  BY <1>3, <1>4, SetInduction
<1>6. \E f : Is(f, Len(seq))
  BY <1>5 DEF T
<1> DEFINE at == CHOOSE f : Is(f, Len(seq))
<1> HIDE DEF Is
<1>7. Is(at, Len(seq))
  BY <1>6
<1> HIDE DEF at
<1>8. at = [k \in 0..Len(seq) |-> IF k = 0 THEN first ELSE Step(at[k - 1], k)]
  BY <1>7 DEF Is
<1>9. at[0] = first /\ \A k \in 1..Len(seq) : at[k] = Step(at[k - 1], k)
  BY <1>8
<1>10. \A k \in 1..Len(seq) : at[k] = Next1(at[k - 1], k)
  BY <1>1, <1>9
<1> QED
  BY <1>2, <1>9, <1>10 DEF at, Next1

LEMMA LevelsAre ==
    ASSUME NEW first, NEW seq, Len(seq) \in Nat
    PROVE  \E at :
            /\ Contents!AllLevels(first, seq) = at[Len(seq)] /\ at[0] = first
            /\ \A k \in 1..Len(seq) : at[k] = Contents!NextLevel(at[k - 1], seq[k])
<1> DEFINE Next1(x, k) == Contents!NextLevel(x, seq[k])
           Step(x, k) == CHOOSE y \in {Contents!NextLevel(z, seq[k]) : z \in {x}} : TRUE
           Is(f, m) == f = [k \in 0..m |-> IF k = 0 THEN first ELSE Step(f[k - 1], k)]
           T == {m \in Nat : \E f : Is(f, m)}
<1>1. ASSUME NEW x, NEW k PROVE Step(x, k) = Next1(x, k)
  <2> DEFINE S == {Contents!NextLevel(z, seq[k]) : z \in {x}}
  <2>1. S = {Next1(x, k)}
    OBVIOUS
  <2> HIDE DEF Next1, S
  <2>2. (CHOOSE y \in S : TRUE) = Next1(x, k)
    BY <2>1
  <2> QED
    BY <2>2 DEF S
<1>2. Contents!AllLevels(first, seq) = (CHOOSE f : Is(f, Len(seq)))[Len(seq)]
  BY DEF Contents!AllLevels, Contents!InOrder
<1> HIDE DEF Next1, Step
<1>3. 0 \in T
  <2>1. Is([k \in 0..0 |-> first], 0)
    OBVIOUS
  <2> QED
    BY <2>1
<1>4. ASSUME NEW m \in Nat, m \in T PROVE m + 1 \in T
  <2>1. PICK f : Is(f, m)
    BY <1>4
  <2> DEFINE h == [k \in 0..(m + 1) |-> IF k <= m THEN f[k] ELSE Step(f[m], m + 1)]
  <2>2. ASSUME NEW k \in 0..(m + 1)
        PROVE  h[k] = IF k = 0 THEN first ELSE Step(h[k - 1], k)
    <3>1. CASE k <= m
      <4>1. k \in 0..m /\ h[k] = f[k] /\ (k # 0 => h[k - 1] = f[k - 1])
        BY <3>1
      <4> HIDE DEF h
      <4> QED
        BY <2>1, <4>1
    <3>2. CASE k = m + 1
      BY <3>2
    <3> QED
      BY <3>1, <3>2
  <2>3. DOMAIN h = 0..(m + 1) /\ h = [k \in 0..(m + 1) |-> h[k]]
    OBVIOUS
  <2> HIDE DEF h
  <2>4. Is(h, m + 1)
    BY <2>2, <2>3
  <2> QED
    BY <2>4
<1> HIDE DEF T
<1>5. Len(seq) \in T
  BY <1>3, <1>4, SetInduction
<1>6. \E f : Is(f, Len(seq))
  BY <1>5 DEF T
<1> DEFINE at == CHOOSE f : Is(f, Len(seq))
<1> HIDE DEF Is
<1>7. Is(at, Len(seq))
  BY <1>6
<1> HIDE DEF at
<1>8. at = [k \in 0..Len(seq) |-> IF k = 0 THEN first ELSE Step(at[k - 1], k)]
  BY <1>7 DEF Is
<1>9. at[0] = first /\ \A k \in 1..Len(seq) : at[k] = Step(at[k - 1], k)
  BY <1>8
<1>10. \A k \in 1..Len(seq) : at[k] = Next1(at[k - 1], k)
  BY <1>1, <1>9
<1> QED
  BY <1>2, <1>9, <1>10 DEF at, Next1

LEMMA PiecesAre ==
    ASSUME NEW p, NEW first, NEW seq, Len(seq) \in Nat
    PROVE  \E at :
            /\ Contents!CopyPieces(first, p, seq) = at[Len(seq)] /\ at[0] = first
            /\ \A k \in 1..Len(seq) : at[k] = Contents!CopyPiece(at[k - 1], p, seq[k])
<1> DEFINE Next1(x, k) == Contents!CopyPiece(x, p, seq[k])
           Step(x, k) == CHOOSE y \in {Contents!CopyPiece(z, p, seq[k]) : z \in {x}} : TRUE
           Is(f, m) == f = [k \in 0..m |-> IF k = 0 THEN first ELSE Step(f[k - 1], k)]
           T == {m \in Nat : \E f : Is(f, m)}
<1>1. ASSUME NEW x, NEW k PROVE Step(x, k) = Next1(x, k)
  <2> DEFINE S == {Contents!CopyPiece(z, p, seq[k]) : z \in {x}}
  <2>1. S = {Next1(x, k)}
    OBVIOUS
  <2> HIDE DEF Next1, S
  <2>2. (CHOOSE y \in S : TRUE) = Next1(x, k)
    BY <2>1
  <2> QED
    BY <2>2 DEF S
<1>2. Contents!CopyPieces(first, p, seq) = (CHOOSE f : Is(f, Len(seq)))[Len(seq)]
  BY DEF Contents!CopyPieces, Contents!InOrder
<1> HIDE DEF Next1, Step
<1>3. 0 \in T
  <2>1. Is([k \in 0..0 |-> first], 0)
    OBVIOUS
  <2> QED
    BY <2>1
<1>4. ASSUME NEW m \in Nat, m \in T PROVE m + 1 \in T
  <2>1. PICK f : Is(f, m)
    BY <1>4
  <2> DEFINE h == [k \in 0..(m + 1) |-> IF k <= m THEN f[k] ELSE Step(f[m], m + 1)]
  <2>2. ASSUME NEW k \in 0..(m + 1)
        PROVE  h[k] = IF k = 0 THEN first ELSE Step(h[k - 1], k)
    <3>1. CASE k <= m
      <4>1. k \in 0..m /\ h[k] = f[k] /\ (k # 0 => h[k - 1] = f[k - 1])
        BY <3>1
      <4> HIDE DEF h
      <4> QED
        BY <2>1, <4>1
    <3>2. CASE k = m + 1
      BY <3>2
    <3> QED
      BY <3>1, <3>2
  <2>3. DOMAIN h = 0..(m + 1) /\ h = [k \in 0..(m + 1) |-> h[k]]
    OBVIOUS
  <2> HIDE DEF h
  <2>4. Is(h, m + 1)
    BY <2>2, <2>3
  <2> QED
    BY <2>4
<1> HIDE DEF T
<1>5. Len(seq) \in T
  BY <1>3, <1>4, SetInduction
<1>6. \E f : Is(f, Len(seq))
  BY <1>5 DEF T
<1> DEFINE at == CHOOSE f : Is(f, Len(seq))
<1> HIDE DEF Is
<1>7. Is(at, Len(seq))
  BY <1>6
<1> HIDE DEF at
<1>8. at = [k \in 0..Len(seq) |-> IF k = 0 THEN first ELSE Step(at[k - 1], k)]
  BY <1>7 DEF Is
<1>9. at[0] = first /\ \A k \in 1..Len(seq) : at[k] = Step(at[k - 1], k)
  BY <1>8
<1>10. \A k \in 1..Len(seq) : at[k] = Next1(at[k - 1], k)
  BY <1>1, <1>9
<1> QED
  BY <1>2, <1>9, <1>10 DEF at, Next1

LEMMA GlyphsAre ==
    ASSUME NEW p, NEW i, NEW seq, Len(seq) \in Nat
    PROVE  \E at :
            /\ Contents!CopyGlyphs(i, p, seq) = at[Len(seq)] /\ at[0].from = 1 /\ at[0].i = i
            /\ \A k \in 1..Len(seq) : at[k] = Contents!CopyGlyph(at[k - 1], p, seq[k])
<1> DEFINE first == [from |-> 1, i |-> i]
           Next1(x, k) == Contents!CopyGlyph(x, p, seq[k])
           Step(x, k) == CHOOSE y \in {Contents!CopyGlyph(z, p, seq[k]) : z \in {x}} : TRUE
           Is(f, m) == f = [k \in 0..m |-> IF k = 0 THEN first ELSE Step(f[k - 1], k)]
           T == {m \in Nat : \E f : Is(f, m)}
<1>1. ASSUME NEW x, NEW k PROVE Step(x, k) = Next1(x, k)
  <2> DEFINE S == {Contents!CopyGlyph(z, p, seq[k]) : z \in {x}}
  <2>1. S = {Next1(x, k)}
    OBVIOUS
  <2> HIDE DEF Next1, S
  <2>2. (CHOOSE y \in S : TRUE) = Next1(x, k)
    BY <2>1
  <2> QED
    BY <2>2 DEF S
<1>2. Contents!CopyGlyphs(i, p, seq) = (CHOOSE f : Is(f, Len(seq)))[Len(seq)]
  BY DEF Contents!CopyGlyphs, Contents!InOrder
<1> HIDE DEF Next1, Step, first
<1>3. 0 \in T
  <2>1. Is([k \in 0..0 |-> first], 0)
    OBVIOUS
  <2> QED
    BY <2>1
<1>4. ASSUME NEW m \in Nat, m \in T PROVE m + 1 \in T
  <2>1. PICK f : Is(f, m)
    BY <1>4
  <2> DEFINE h == [k \in 0..(m + 1) |-> IF k <= m THEN f[k] ELSE Step(f[m], m + 1)]
  <2>2. ASSUME NEW k \in 0..(m + 1)
        PROVE  h[k] = IF k = 0 THEN first ELSE Step(h[k - 1], k)
    <3>1. CASE k <= m
      <4>1. k \in 0..m /\ h[k] = f[k] /\ (k # 0 => h[k - 1] = f[k - 1])
        BY <3>1
      <4> HIDE DEF h
      <4> QED
        BY <2>1, <4>1
    <3>2. CASE k = m + 1
      BY <3>2
    <3> QED
      BY <3>1, <3>2
  <2>3. DOMAIN h = 0..(m + 1) /\ h = [k \in 0..(m + 1) |-> h[k]]
    OBVIOUS
  <2> HIDE DEF h
  <2>4. Is(h, m + 1)
    BY <2>2, <2>3
  <2> QED
    BY <2>4
<1> HIDE DEF T
<1>5. Len(seq) \in T
  BY <1>3, <1>4, SetInduction
<1>6. \E f : Is(f, Len(seq))
  BY <1>5 DEF T
<1> DEFINE at == CHOOSE f : Is(f, Len(seq))
<1> HIDE DEF Is
<1>7. Is(at, Len(seq))
  BY <1>6
<1> HIDE DEF at
<1>8. at = [k \in 0..Len(seq) |-> IF k = 0 THEN first ELSE Step(at[k - 1], k)]
  BY <1>7 DEF Is
<1>9. at[0] = first /\ \A k \in 1..Len(seq) : at[k] = Step(at[k - 1], k)
  BY <1>8
<1>10. \A k \in 1..Len(seq) : at[k] = Next1(at[k - 1], k)
  BY <1>1, <1>9
<1>11. first.from = 1 /\ first.i = i
  BY DEF first
<1> QED
  BY <1>2, <1>9, <1>10, <1>11 DEF at, Next1

LEMMA BuffersAre ==
    ASSUME NEW first, NEW seq, Len(seq) \in Nat
    PROVE  \E at :
            /\ Contents!WriteAll(first, seq) = at[Len(seq)] /\ at[0] = first
            /\ \A k \in 1..Len(seq) : at[k] = Contents!WriteBuffer(at[k - 1], seq[k], 1)
<1> DEFINE Next1(x, k) == Contents!WriteBuffer(x, seq[k], 1)
           Step(x, k) == CHOOSE y \in {Contents!WriteBuffer(z, seq[k], 1) : z \in {x}} : TRUE
           Is(f, m) == f = [k \in 0..m |-> IF k = 0 THEN first ELSE Step(f[k - 1], k)]
           T == {m \in Nat : \E f : Is(f, m)}
<1>1. ASSUME NEW x, NEW k PROVE Step(x, k) = Next1(x, k)
  <2> DEFINE S == {Contents!WriteBuffer(z, seq[k], 1) : z \in {x}}
  <2>1. S = {Next1(x, k)}
    OBVIOUS
  <2> HIDE DEF Next1, S
  <2>2. (CHOOSE y \in S : TRUE) = Next1(x, k)
    BY <2>1
  <2> QED
    BY <2>2 DEF S
<1>2. Contents!WriteAll(first, seq) = (CHOOSE f : Is(f, Len(seq)))[Len(seq)]
  BY DEF Contents!WriteAll, Contents!InOrder
<1> HIDE DEF Next1, Step
<1>3. 0 \in T
  <2>1. Is([k \in 0..0 |-> first], 0)
    OBVIOUS
  <2> QED
    BY <2>1
<1>4. ASSUME NEW m \in Nat, m \in T PROVE m + 1 \in T
  <2>1. PICK f : Is(f, m)
    BY <1>4
  <2> DEFINE h == [k \in 0..(m + 1) |-> IF k <= m THEN f[k] ELSE Step(f[m], m + 1)]
  <2>2. ASSUME NEW k \in 0..(m + 1)
        PROVE  h[k] = IF k = 0 THEN first ELSE Step(h[k - 1], k)
    <3>1. CASE k <= m
      <4>1. k \in 0..m /\ h[k] = f[k] /\ (k # 0 => h[k - 1] = f[k - 1])
        BY <3>1
      <4> HIDE DEF h
      <4> QED
        BY <2>1, <4>1
    <3>2. CASE k = m + 1
      BY <3>2
    <3> QED
      BY <3>1, <3>2
  <2>3. DOMAIN h = 0..(m + 1) /\ h = [k \in 0..(m + 1) |-> h[k]]
    OBVIOUS
  <2> HIDE DEF h
  <2>4. Is(h, m + 1)
    BY <2>2, <2>3
  <2> QED
    BY <2>4
<1> HIDE DEF T
<1>5. Len(seq) \in T
  BY <1>3, <1>4, SetInduction
<1>6. \E f : Is(f, Len(seq))
  BY <1>5 DEF T
<1> DEFINE at == CHOOSE f : Is(f, Len(seq))
<1> HIDE DEF Is
<1>7. Is(at, Len(seq))
  BY <1>6
<1> HIDE DEF at
<1>8. at = [k \in 0..Len(seq) |-> IF k = 0 THEN first ELSE Step(at[k - 1], k)]
  BY <1>7 DEF Is
<1>9. at[0] = first /\ \A k \in 1..Len(seq) : at[k] = Step(at[k - 1], k)
  BY <1>8
<1>10. \A k \in 1..Len(seq) : at[k] = Next1(at[k - 1], k)
  BY <1>1, <1>9
<1> QED
  BY <1>2, <1>9, <1>10 DEF at, Next1

-----------------------------------------------------------------------------
(* Numbers, and the regions of the uniform buffer.                         *)

LEMMA VulkanGiven ==
    /\ MaxLights \in Nat \ {0} /\ Contents!PerFrame \in Nat \ {0}
    /\ Contents!PerFrame = 2 + 7 * MaxLights
    /\ \A n \in DrawnCounts : n \in Nat \ {0} /\ 0..(n - 1) \subseteq Contents!AllFrames
    /\ DrawnCounts # {} /\ Sizes # {} /\ Views # {}
    /\ \A l \in Lamps : /\ l.n_dir \in 0..MaxLights /\ l.n_point \in 0..MaxLights
                        /\ l.shadows \in BOOLEAN
    /\ Contents!Shadowed \in Lamps /\ Contents!Shadowed.shadows
    /\ \A w \in Views : w.persp \in BOOLEAN
    /\ Versions \subseteq Nat \ {0}
<1>1. MaxLights \in Nat \ {0}
  BY DrawingsAssumption DEF DrawingsAssumption
<1>2. Contents!PerFrame \in Nat \ {0} /\ Contents!PerFrame = 2 + 7 * MaxLights
  BY <1>1 DEF Contents!PerFrame
<1>3. DrawnCounts \in SUBSET Nat /\ DrawnCounts # {} /\ IsFiniteSet(DrawnCounts)
      /\ \A n \in DrawnCounts : n \in Nat \ {0}
  BY ContentsAssumption
     DEF Contents!VulkanAssumption, Contents!IsFiniteSet, IsFiniteSet
<1> DEFINE N == Max(DrawnCounts)
<1>4. N \in Nat /\ \A n \in DrawnCounts : N >= n
  BY <1>3, MaxIs
<1>5. Contents!AllFrames = 0..(N - 1)
  BY DEF Contents!AllFrames, Contents!Max, Max
<1> HIDE DEF N
<1>6. \A n \in DrawnCounts : 0..(n - 1) \subseteq Contents!AllFrames
  BY <1>3, <1>4, <1>5
<1>7. Sizes # {} /\ Views # {} /\ Versions \subseteq Nat \ {0}
      /\ \A w \in Views : w.persp \in BOOLEAN
  BY DisplayAssumption DEF DisplayAssumption
<1>8. \A l \in Lamps : /\ l.n_dir \in 0..MaxLights /\ l.n_point \in 0..MaxLights
                       /\ l.shadows \in BOOLEAN
  BY DisplayAssumption DEF DisplayAssumption
<1>9. Contents!Shadowed \in Lamps /\ Contents!Shadowed.shadows
  BY DisplayAssumption DEF DisplayAssumption, Contents!Shadowed
<1> QED
  BY <1>1, <1>2, <1>3, <1>6, <1>7, <1>8, <1>9

(* Rows of p elements do not overlap. *)
LEMMA RowsApart ==
    ASSUME NEW p \in Nat, NEW i \in Nat, NEW j \in Nat,
           NEW a \in 0..(p - 1), NEW b \in 0..(p - 1), p * i + a = p * j + b
    PROVE  i = j /\ a = b
<1>1. ASSUME NEW x \in Nat, NEW y \in Nat, x < y PROVE p * x + p <= p * y
  <2>1. x + 1 <= y /\ p * (x + 1) = p * x + p
    BY <1>1
  <2>2. PICK d \in Nat : y = (x + 1) + d
    <3>1. y - (x + 1) \in Nat /\ y = (x + 1) + (y - (x + 1))
      BY <2>1
    <3> QED
      BY <3>1
  <2>3. p * y = p * (x + 1) + p * d /\ p * d \in Nat
    BY <2>2
  <2> QED
    BY <2>1, <2>3
<1>2. p * i \in Nat /\ p * j \in Nat
  OBVIOUS
<1>3. ~(i < j)
  BY <1>1, <1>2
<1>4. ~(j < i)
  BY <1>1, <1>2
<1> QED
  BY <1>2, <1>3, <1>4

LEMMA RowsWithin ==
    ASSUME NEW p \in Nat, NEW n \in Nat, NEW i \in 0..(n - 1), NEW a \in 0..(p - 1)
    PROVE  p * i + a \in 0..(p * n - 1) /\ p * n \in Nat
<1>1. PICK d \in Nat : n = (i + 1) + d
  <2>1. n - (i + 1) \in Nat /\ n = (i + 1) + (n - (i + 1))
    OBVIOUS
  <2> QED
    BY <2>1
<1>2. p * n = p * i + p + p * d /\ p * d \in Nat /\ p * i \in Nat
  BY <1>1
<1> QED
  BY <1>2


LEMMA RegionsOfFrame ==
    ASSUME NEW n \in Nat \ {0}, NEW f \in 0..(n - 1)
    PROVE  /\ Contents!offset(f) \in Contents!Regions(n) /\ Contents!offset_screen(f) \in Contents!Regions(n)
           /\ Contents!offset(f) # Contents!offset_screen(f)
           /\ \A g \in 0..n : Contents!offset_lights(n, g) \in Contents!Regions(n)
           /\ \A il \in 0..(7 * MaxLights - 1) :
                /\ Contents!offset_light(f, il) \in Contents!Regions(n)
                /\ Contents!offset_light(f, il) \notin {Contents!offset(f), Contents!offset_screen(f)}
                /\ \A jl \in 0..(7 * MaxLights - 1) :
                     Contents!offset_light(f, il) = Contents!offset_light(f, jl) => il = jl
           /\ \A g \in 0..n : Contents!offset_lights(n, g) \notin {Contents!offset(f), Contents!offset_screen(f)}
           /\ \A g \in 0..n, il \in 0..(7 * MaxLights - 1) :
                Contents!offset_lights(n, g) # Contents!offset_light(f, il)
           /\ \A g, h \in 0..n : Contents!offset_lights(n, g) = Contents!offset_lights(n, h) => g = h
<1> DEFINE p == Contents!PerFrame
<1>1. p \in Nat /\ p = 2 + 7 * MaxLights /\ MaxLights \in Nat /\ MaxLights # 0
  BY VulkanGiven
<1>2. p * f \in Nat /\ p * n \in Nat
  BY <1>1
<1>3. \A a \in 0..(p - 1) : p * f + a \in 0..(p * n - 1)
  BY <1>1, RowsWithin
<1>4. \A il \in 0..(7 * MaxLights - 1) : 2 + il \in 0..(p - 1)
  BY <1>1
<1>5. 0 \in 0..(p - 1) /\ 1 \in 0..(p - 1)
  BY <1>1
<1>6. /\ Contents!offset(f) = p * f /\ Contents!offset_screen(f) = p * f + 1
      /\ \A il \in 0..(7 * MaxLights - 1) : Contents!offset_light(f, il) = p * f + (2 + il)
      /\ \A g : Contents!offset_lights(n, g) = p * n + g
      /\ Contents!Regions(n) = 0..(p * n + n)
  BY <1>2 DEF Contents!offset, Contents!offset_screen, Contents!offset_light, Contents!offset_lights, Contents!Regions
<1> HIDE DEF p
<1>7. Contents!offset(f) \in 0..(p * n - 1) /\ Contents!offset_screen(f) \in 0..(p * n - 1)
      /\ \A il \in 0..(7 * MaxLights - 1) : Contents!offset_light(f, il) \in 0..(p * n - 1)
  <2>1. p * f + 0 \in 0..(p * n - 1)
    BY <1>3, <1>5
  <2> QED
    BY <1>2, <1>3, <1>4, <1>5, <1>6, <2>1
<1>8. /\ \A g \in 0..n : p * n + g \in 0..(p * n + n) /\ p * n + g \notin 0..(p * n - 1)
      /\ 0..(p * n - 1) \subseteq 0..(p * n + n)
  BY <1>2
<1>9. Contents!offset(f) # Contents!offset_screen(f)
  BY <1>2, <1>6
<1>10. \A il, jl \in 0..(7 * MaxLights - 1) :
         /\ Contents!offset_light(f, il) \notin {Contents!offset(f), Contents!offset_screen(f)}
         /\ Contents!offset_light(f, il) = Contents!offset_light(f, jl) => il = jl
  BY <1>1, <1>2, <1>6
<1>11. \A g, h \in 0..n : Contents!offset_lights(n, g) = Contents!offset_lights(n, h) => g = h
  BY <1>2, <1>6
<1> QED
  BY <1>6, <1>7, <1>8, <1>9, <1>10, <1>11

(* Those of different frames are different. *)
LEMMA RegionsApart ==
    ASSUME NEW f \in Nat, NEW g \in Nat, f # g
    PROVE  /\ {Contents!offset(f), Contents!offset_screen(f)} \cap {Contents!offset(g), Contents!offset_screen(g)} = {}
           /\ \A il \in 0..(7 * MaxLights - 1) :
                /\ Contents!offset_light(f, il) \notin {Contents!offset(g), Contents!offset_screen(g)}
                /\ Contents!offset_light(g, il) \notin {Contents!offset(f), Contents!offset_screen(f)}
                /\ \A jl \in 0..(7 * MaxLights - 1) :
                     Contents!offset_light(f, il) # Contents!offset_light(g, jl)
<1> DEFINE p == Contents!PerFrame
<1>1. p \in Nat /\ p = 2 + 7 * MaxLights /\ MaxLights \in Nat /\ MaxLights # 0
  BY VulkanGiven
<1>2. p * f \in Nat /\ p * g \in Nat
  BY <1>1
<1>3. \A a, b \in 0..(p - 1) : p * f + a # p * g + b
  BY <1>1, RowsApart
<1>4. \A il \in 0..(7 * MaxLights - 1) : 2 + il \in 0..(p - 1)
  BY <1>1
<1>5. 0 \in 0..(p - 1) /\ 1 \in 0..(p - 1)
  BY <1>1
<1>6. \A h \in {f, g} :
      /\ Contents!offset(h) = p * h + 0 /\ Contents!offset_screen(h) = p * h + 1
      /\ \A il \in 0..(7 * MaxLights - 1) : Contents!offset_light(h, il) = p * h + (2 + il)
  BY <1>2 DEF Contents!offset, Contents!offset_screen, Contents!offset_light
<1> HIDE DEF p
<1> QED
  BY <1>3, <1>4, <1>5, <1>6

-----------------------------------------------------------------------------
(* What is in the uniform buffer.                                          *)

CamerasFor(u, f, s, w) == u[Contents!offset(f)] = Contents!World(w.v) /\ u[Contents!offset_screen(f)] = Contents!Screen(s)

LightsFor(u, n, f, l) ==
    /\ u[Contents!offset_lights(n, f)] = l
    /\ \A i \in 1..l.n_dir : u[Contents!offset_light(f, i - 1)] = Contents!DirView(i, l.v)
    /\ \A k \in 1..6 * l.n_point :
        u[Contents!offset_light(f, MaxLights + k - 1)]
            = Contents!PointView(((k - 1) \div 6) + 1, Contents!Looks[((k - 1) % 6) + 1], l.v)

CamerasAre(u, f) == CamerasFor(u, f, size, view)
LightsAre(u, n, f) == LightsFor(u, n, f, lamps)

(* Written to distinct regions. *)
LEMMA WritesAre ==
    ASSUME NEW u, NEW W, Len(W) \in Nat,
           \A j \in 1..Len(W) : W[j][1] \in DOMAIN u,
           \A i, j \in 1..Len(W) : W[i][1] = W[j][1] => i = j
    PROVE  /\ DOMAIN Contents!WriteRegions(u, W) = DOMAIN u
           /\ \A j \in 1..Len(W) : Contents!WriteRegions(u, W)[W[j][1]] = W[j][2]
           /\ \A x \in DOMAIN u : (\A j \in 1..Len(W) : W[j][1] # x)
                => Contents!WriteRegions(u, W)[x] = u[x]
<1> DEFINE R == DOMAIN u
<1>0. \A j \in 1..Len(W) : W[j][1] \in R
  OBVIOUS
<1> HIDE DEF R
<1>1. PICK at : /\ Contents!WriteRegions(u, W) = at[Len(W)] /\ at[0] = u
                /\ \A k \in 1..Len(W) : at[k] = Contents!WriteRegion(at[k - 1], W[k])
  BY RegionsAre
<1> DEFINE Is(k) == /\ DOMAIN at[k] = R
                    /\ \A j \in 1..k : at[k][W[j][1]] = W[j][2]
                    /\ \A x \in R : (\A j \in 1..k : W[j][1] # x) => at[k][x] = u[x]
           T == {k \in Nat : k <= Len(W) => Is(k)}
<1>2. 0 \in T
  <2>1. at[0] = u
    BY <1>1
  <2>2. DOMAIN at[0] = R
    BY <2>1 DEF R
  <2> QED
    BY <2>1, <2>2
<1>3. ASSUME NEW k \in Nat, k \in T PROVE k + 1 \in T
  <2> SUFFICES ASSUME k + 1 <= Len(W) PROVE Is(k + 1)
    OBVIOUS
  <2>1. Is(k) /\ k + 1 \in 1..Len(W)
    BY <1>3
  <2> DEFINE g == at[k]
             h == at[k + 1]
             i == W[k + 1][1]
  <2>2. h = [g EXCEPT ![i] = W[k + 1][2]] /\ i \in R
    <3>1. (k + 1) - 1 = k
      OBVIOUS
    <3>2. h = Contents!WriteRegion(g, W[k + 1])
      BY <1>1, <2>1, <3>1
    <3>3. i \in R
      BY <1>0, <2>1
    <3> QED
      BY <3>2, <3>3 DEF Contents!WriteRegion
  <2>3. DOMAIN g = R
        /\ (\A j \in 1..k : g[W[j][1]] = W[j][2])
        /\ (\A x \in R : (\A j \in 1..k : W[j][1] # x) => g[x] = u[x])
    BY <2>1
  <2>4. ASSUME NEW j \in 1..k PROVE W[j][1] # i /\ W[j][1] \in R
    <3>1. j \in 1..Len(W) /\ k + 1 \in 1..Len(W) /\ j # k + 1
      BY <2>1
    <3>2. W[j][1] # W[k + 1][1]
      BY <3>1
    <3> QED
      BY <1>0, <3>1, <3>2
  <2> HIDE DEF g, h, i
  <2>5. DOMAIN h = R
    BY <2>2, <2>3
  <2>6. h[i] = W[k + 1][2] /\ \A x \in R : x # i => h[x] = g[x]
    BY <2>2, <2>3
  <2>7. \A j \in 1..k + 1 : h[W[j][1]] = W[j][2]
    <3> SUFFICES ASSUME NEW j \in 1..k + 1 PROVE h[W[j][1]] = W[j][2]
      OBVIOUS
    <3>1. CASE j = k + 1
      BY <3>1, <2>6 DEF i
    <3>2. CASE j # k + 1
      <4>1. j \in 1..k
        BY <3>2
      <4> QED
        BY <4>1, <2>3, <2>4, <2>6
    <3> QED
      BY <3>1, <3>2
  <2>8. \A x \in R : (\A j \in 1..k + 1 : W[j][1] # x) => h[x] = u[x]
    <3> SUFFICES ASSUME NEW x \in R, \A j \in 1..k + 1 : W[j][1] # x PROVE h[x] = u[x]
      OBVIOUS
    <3>1. x # i
      BY DEF i
    <3>2. \A j \in 1..k : W[j][1] # x
      OBVIOUS
    <3> QED
      BY <2>3, <2>6, <3>1, <3>2
  <2> QED
    BY <2>5, <2>7, <2>8 DEF h
<1> HIDE DEF T
<1>4. Len(W) \in T
  BY <1>2, <1>3, SetInduction
<1>5. Is(Len(W))
  BY <1>4 DEF T
<1> QED
  BY <1>1, <1>5 DEF R

(* Two sequences and one element. *)
LEMMA ThreeParts ==
    ASSUME NEW d \in Nat, NEW p \in Nat, NEW f, NEW g, NEW x,
           DOMAIN f = 1..d, f = [i \in 1..d |-> f[i]],
           DOMAIN g = 1..p, g = [i \in 1..p |-> g[i]]
    PROVE  /\ Len(f \o g \o <<x>>) = d + p + 1
           /\ \A j \in 1..d : (f \o g \o <<x>>)[j] = f[j]
           /\ \A j \in 1..p : (f \o g \o <<x>>)[d + j] = g[j]
           /\ (f \o g \o <<x>>)[d + p + 1] = x
<1> DEFINE U == {f[i] : i \in 1..d} \cup {g[i] : i \in 1..p} \cup {x}
<1>1. (\A i \in 1..d : f[i] \in U) /\ (\A i \in 1..p : g[i] \in U) /\ x \in U
  OBVIOUS
<1> HIDE DEF U
<1>2. f \in Seq(U) /\ Len(f) = d
  <2>1. [i \in 1..d |-> f[i]] \in Seq(U) /\ Len([i \in 1..d |-> f[i]]) = d
    BY <1>1
  <2> QED
    BY <2>1, Zenon
<1>3. g \in Seq(U) /\ Len(g) = p
  <2>1. [i \in 1..p |-> g[i]] \in Seq(U) /\ Len([i \in 1..p |-> g[i]]) = p
    BY <1>1
  <2> QED
    BY <2>1, Zenon
<1>4. <<x>> \in Seq(U) /\ Len(<<x>>) = 1 /\ <<x>>[1] = x
  BY <1>1
<1>5. /\ f \o g \in Seq(U) /\ Len(f \o g) = d + p
      /\ \A j \in 1..d + p : (f \o g)[j] = IF j <= d THEN f[j] ELSE g[j - d]
  BY <1>2, <1>3, ConcatProperties
<1> DEFINE h == f \o g
           k == <<x>>
<1> HIDE DEF h, k
<1>6. /\ Len(h \o k) = d + p + 1
      /\ \A j \in 1..d + p + 1 : (h \o k)[j] = IF j <= d + p THEN h[j] ELSE k[j - (d + p)]
  BY <1>4, <1>5, ConcatProperties DEF h, k
<1>7. \A j \in 1..d : (h \o k)[j] = f[j]
  <2>1. \A j \in 1..d : j \in 1..d + p + 1 /\ j <= d + p /\ j \in 1..d + p
    OBVIOUS
  <2> QED
    BY <1>5, <1>6, <2>1 DEF h
<1>8. \A j \in 1..p : (h \o k)[d + j] = g[j]
  <2>1. \A j \in 1..p : d + j \in 1..d + p + 1 /\ d + j <= d + p /\ d + j \in 1..d + p
            /\ ~(d + j <= d) /\ (d + j) - d = j
    OBVIOUS
  <2>2. \A j \in 1..p : (h \o k)[d + j] = h[d + j]
    BY <1>6, <2>1
  <2>3. \A j \in 1..p : h[d + j] = g[(d + j) - d]
    BY <1>5, <2>1 DEF h
  <2> QED
    BY <2>1, <2>2, <2>3
<1>9. (h \o k)[d + p + 1] = x
  <2>1. d + p + 1 \in 1..d + p + 1 /\ ~(d + p + 1 <= d + p) /\ (d + p + 1) - (d + p) = 1
    OBVIOUS
  <2> QED
    BY <1>4, <1>6, <2>1 DEF k
<1> QED
  BY <1>6, <1>7, <1>8, <1>9 DEF h, k

(* What is written for lights, to the regions of the frame: the writes     *)
(* W, by which u becomes w.                                                *)
WritesTo(W, n, f, d, p) ==
    /\ Len(W) = d + p + 1
    /\ \A j \in 1..d : W[j][1] = Contents!offset_light(f, j - 1)
    /\ \A j \in 1..p : W[d + j][1] = Contents!offset_light(f, MaxLights + j - 1)
    /\ W[d + p + 1][1] = Contents!offset_lights(n, f)

Wrote(u, w, W, n, f, d, p) ==
    /\ DOMAIN w = Contents!Regions(n)
    /\ w[Contents!offset_lights(n, f)] = W[d + p + 1][2]
    /\ \A i \in 1..d : w[Contents!offset_light(f, i - 1)] = W[i][2]
    /\ \A k \in 1..p : w[Contents!offset_light(f, MaxLights + k - 1)] = W[d + k][2]
    /\ \A x \in Contents!Regions(n) :
        x # Contents!offset_lights(n, f) /\ (\A k \in 0..(7 * MaxLights - 1) : x # Contents!offset_light(f, k))
        => w[x] = u[x]

LEMMA WrittenTo ==
    ASSUME NEW u, NEW n \in Nat \ {0}, NEW f \in 0..(n - 1), DOMAIN u = Contents!Regions(n),
           NEW d \in 0..MaxLights, NEW p \in 0..(6 * MaxLights),
           NEW W, WritesTo(W, n, f, d, p)
    PROVE  Wrote(u, Contents!WriteRegions(u, W), W, n, f, d, p)
<1> DEFINE w == Contents!WriteRegions(u, W)
<1>1. MaxLights \in Nat \ {0} /\ d \in Nat /\ p \in Nat
  BY VulkanGiven
<1>0. Len(W) = d + p + 1
  BY DEF WritesTo
<1>4. \A j \in 1..d : W[j][1] = Contents!offset_light(f, j - 1)
  BY DEF WritesTo
<1>5. \A j \in 1..p : W[d + j][1] = Contents!offset_light(f, MaxLights + j - 1)
  BY DEF WritesTo
<1>6. W[d + p + 1][1] = Contents!offset_lights(n, f)
  BY DEF WritesTo
<1> DEFINE il(j) == IF j <= d THEN j - 1 ELSE MaxLights + (j - d) - 1
<1>7. \A j \in 1..d + p : il(j) \in 0..(7 * MaxLights - 1) /\ W[j][1] = Contents!offset_light(f, il(j))
  <2> SUFFICES ASSUME NEW j \in 1..d + p
               PROVE  il(j) \in 0..(7 * MaxLights - 1) /\ W[j][1] = Contents!offset_light(f, il(j))
    OBVIOUS
  <2>1. CASE j <= d
    <3>1. j \in 1..d /\ il(j) = j - 1 /\ il(j) \in 0..(7 * MaxLights - 1)
      BY <1>1, <2>1
    <3> QED
      BY <1>4, <3>1
  <2>2. CASE ~(j <= d)
    <3>1. j - d \in 1..p /\ d + (j - d) = j /\ il(j) = MaxLights + (j - d) - 1
          /\ il(j) \in 0..(7 * MaxLights - 1)
      BY <1>1, <2>2
    <3> QED
      BY <1>5, <3>1
  <2> QED
    BY <2>1, <2>2
<1>8. \A i, j \in 1..d + p : il(i) = il(j) => i = j
  <2> SUFFICES ASSUME NEW i \in 1..d + p, NEW j \in 1..d + p, il(i) = il(j) PROVE i = j
    OBVIOUS
  <2>1. \A k \in 1..d + p : k \in Nat /\ (k <= d => il(k) = k - 1 /\ il(k) < MaxLights)
            /\ (~(k <= d) => il(k) = MaxLights + (k - d) - 1 /\ il(k) >= MaxLights)
    BY <1>1
  <2> HIDE DEF il
  <2>2. CASE i <= d /\ j <= d
    BY <2>1, <2>2
  <2>3. CASE ~(i <= d) /\ ~(j <= d)
    BY <1>1, <2>1, <2>3
  <2>4. CASE (i <= d) # (j <= d)
    <3>1. il(i) # il(j)
      BY <1>1, <2>1, <2>4
    <3> QED
      BY <3>1
  <2> QED
    BY <2>2, <2>3, <2>4
<1> HIDE DEF il
<1>9. \A j \in 1..Len(W) : j \in 1..d + p \/ j = d + p + 1
  BY <1>0, <1>1
<1>10. f \in 0..n /\ n \in 0..n /\ \A g \in 0..(n - 1) : g \in 0..n
  OBVIOUS
<1>20. /\ \A k \in 0..(7 * MaxLights - 1) : Contents!offset_light(f, k) \in Contents!Regions(n)
       /\ Contents!offset_lights(n, f) \in Contents!Regions(n)
       /\ \A k \in 0..(7 * MaxLights - 1) : Contents!offset_lights(n, f) # Contents!offset_light(f, k)
       /\ \A k, l \in 0..(7 * MaxLights - 1) :
            Contents!offset_light(f, k) = Contents!offset_light(f, l) => k = l
  BY <1>10, RegionsOfFrame
<1>11. \A j \in 1..Len(W) : W[j][1] \in DOMAIN u
  <2> SUFFICES ASSUME NEW j \in 1..Len(W) PROVE W[j][1] \in Contents!Regions(n)
    OBVIOUS
  <2>1. CASE j \in 1..d + p
    BY <1>7, <1>20, <2>1, Zenon
  <2>2. CASE j = d + p + 1
    BY <1>6, <1>20, <2>2, Zenon
  <2> QED
    BY <1>9, <2>1, <2>2
<1>12. \A i, j \in 1..Len(W) : W[i][1] = W[j][1] => i = j
  <2> SUFFICES ASSUME NEW i \in 1..Len(W), NEW j \in 1..Len(W), W[i][1] = W[j][1]
               PROVE  i = j
    OBVIOUS
  <2>1. CASE i \in 1..d + p /\ j \in 1..d + p
    <3>1. Contents!offset_light(f, il(i)) = Contents!offset_light(f, il(j))
      BY <1>7, <2>1
    <3>2. il(i) = il(j)
      BY <1>7, <2>1, <3>1, <1>20
    <3> QED
      BY <1>8, <2>1, <3>2
  <2>2. CASE i \in 1..d + p /\ j = d + p + 1
    BY <1>6, <1>7, <1>20, <2>2
  <2>3. CASE i = d + p + 1 /\ j \in 1..d + p
    BY <1>6, <1>7, <1>20, <2>3
  <2> QED
    BY <1>9, <2>1, <2>2, <2>3
<1>13. Len(W) \in Nat
  BY <1>0, <1>1
<1>14. /\ DOMAIN w = Contents!Regions(n)
       /\ \A j \in 1..Len(W) : w[W[j][1]] = W[j][2]
       /\ \A x \in Contents!Regions(n) : (\A j \in 1..Len(W) : W[j][1] # x) => w[x] = u[x]
  <2>1. DOMAIN u = Contents!Regions(n)
    OBVIOUS
  <2>2. /\ DOMAIN w = DOMAIN u
        /\ \A j \in 1..Len(W) : w[W[j][1]] = W[j][2]
        /\ \A x \in DOMAIN u : (\A j \in 1..Len(W) : W[j][1] # x) => w[x] = u[x]
    BY <1>11, <1>12, <1>13, WritesAre, Zenon
  <2> HIDE DEF w
  <2> QED
    BY <2>1, <2>2, Zenon
<1> HIDE DEF w
<1>15. /\ w[Contents!offset_lights(n, f)] = W[d + p + 1][2]
       /\ \A i \in 1..d : w[Contents!offset_light(f, i - 1)] = W[i][2]
       /\ \A k \in 1..p : w[Contents!offset_light(f, MaxLights + k - 1)] = W[d + k][2]
  <2>1. w[Contents!offset_lights(n, f)] = W[d + p + 1][2]
    <3>1. d + p + 1 \in 1..Len(W)
      BY <1>0, <1>1
    <3> QED
      BY <1>6, <1>14, <3>1
  <2>2. \A i \in 1..d : w[Contents!offset_light(f, i - 1)] = W[i][2]
    <3> SUFFICES ASSUME NEW i \in 1..d PROVE w[Contents!offset_light(f, i - 1)] = W[i][2]
      OBVIOUS
    <3>1. i \in 1..Len(W)
      BY <1>0, <1>1
    <3> QED
      BY <1>4, <1>14, <3>1
  <2>3. \A k \in 1..p : w[Contents!offset_light(f, MaxLights + k - 1)] = W[d + k][2]
    <3> SUFFICES ASSUME NEW k \in 1..p PROVE w[Contents!offset_light(f, MaxLights + k - 1)] = W[d + k][2]
      OBVIOUS
    <3>1. d + k \in 1..Len(W)
      BY <1>0, <1>1
    <3> QED
      BY <1>5, <1>14, <3>1
  <2> QED
    BY <2>1, <2>2, <2>3
<1>16. ASSUME NEW x \in Contents!Regions(n), x # Contents!offset_lights(n, f),
              \A k \in 0..(7 * MaxLights - 1) : x # Contents!offset_light(f, k)
       PROVE  w[x] = u[x]
  <2>1. \A j \in 1..Len(W) : W[j][1] # x
    BY <1>6, <1>7, <1>9, <1>16
  <2> QED
    BY <1>14, <2>1
<1> QED
  BY <1>14, <1>15, <1>16 DEF w, Wrote

(* update_lighting(): what is written. *)
LightWrites(n, f) ==
    [i \in 1..lamps.n_dir |-> <<Contents!offset_light(f, i - 1), Contents!DirView(i, lamps.v)>>]
    \o [k \in 1..6 * lamps.n_point |->
        <<Contents!offset_light(f, MaxLights + k - 1),
          Contents!PointView(((k - 1) \div 6) + 1, Contents!Looks[((k - 1) % 6) + 1], lamps.v)>>]
    \o <<<<Contents!offset_lights(n, f), lamps>>>>

LEMMA LightsWritten ==
    ASSUME NEW u, NEW n \in Nat \ {0}, NEW f \in 0..(n - 1), lamps \in Lamps,
           DOMAIN u = Contents!Regions(n),
           NEW w, w = Contents!WriteRegions(u, LightWrites(n, f))
    PROVE  /\ DOMAIN w = Contents!Regions(n)
           /\ LightsAre(w, n, f)
           /\ w[Contents!offset(f)] = u[Contents!offset(f)] /\ w[Contents!offset_screen(f)] = u[Contents!offset_screen(f)]
           /\ w[Contents!offset_lights(n, n)] = u[Contents!offset_lights(n, n)]
           /\ \A g \in 0..(n - 1) : g # f =>
                /\ w[Contents!offset(g)] = u[Contents!offset(g)]
                /\ w[Contents!offset_screen(g)] = u[Contents!offset_screen(g)]
                /\ w[Contents!offset_lights(n, g)] = u[Contents!offset_lights(n, g)]
                /\ \A il \in 0..(7 * MaxLights - 1) :
                    w[Contents!offset_light(g, il)] = u[Contents!offset_light(g, il)]
<1> DEFINE d == lamps.n_dir
           p == 6 * lamps.n_point
           DV == [i \in 1..d |-> Contents!DirView(i, lamps.v)]
           PV == [k \in 1..p |-> Contents!PointView(((k - 1) \div 6) + 1, Contents!Looks[((k - 1) % 6) + 1], lamps.v)]
           V1 == [i \in 1..d |-> <<Contents!offset_light(f, i - 1), Contents!DirView(i, lamps.v)>>]
           V2 == [k \in 1..p |-> <<Contents!offset_light(f, MaxLights + k - 1),
                Contents!PointView(((k - 1) \div 6) + 1, Contents!Looks[((k - 1) % 6) + 1], lamps.v)>>]
           last == <<Contents!offset_lights(n, f), lamps>>
           W == V1 \o V2 \o <<last>>
<1>1. MaxLights \in Nat \ {0} /\ d \in 0..MaxLights /\ p \in 0..(6 * MaxLights)
  BY VulkanGiven
<1>2. w = Contents!WriteRegions(u, W)
  BY Zenon DEF LightWrites
<1>3. /\ DOMAIN V1 = 1..d /\ V1 = [i \in 1..d |-> V1[i]]
      /\ DOMAIN V2 = 1..p /\ V2 = [i \in 1..p |-> V2[i]]
  OBVIOUS
<1>4. /\ \A j \in 1..d : V1[j] = <<Contents!offset_light(f, j - 1), DV[j]>>
      /\ \A j \in 1..p : V2[j] = <<Contents!offset_light(f, MaxLights + j - 1), PV[j]>>
  OBVIOUS
<1> HIDE DEF V1, V2, DV, PV, last, d, p
<1>5. /\ Len(W) = d + p + 1
      /\ \A j \in 1..d : W[j] = V1[j]
      /\ \A j \in 1..p : W[d + j] = V2[j]
      /\ W[d + p + 1] = last
  <2>1. d \in Nat /\ p \in Nat
    BY <1>1
  <2> QED
    BY <1>3, <2>1, ThreeParts
<1> HIDE DEF W
<1>9. /\ Len(W) = d + p + 1
      /\ \A j \in 1..d : W[j] = <<Contents!offset_light(f, j - 1), DV[j]>>
      /\ \A j \in 1..p : W[d + j] = <<Contents!offset_light(f, MaxLights + j - 1), PV[j]>>
      /\ W[d + p + 1] = <<Contents!offset_lights(n, f), lamps>>
  BY <1>4, <1>5 DEF last
<1>11. WritesTo(W, n, f, d, p)
  BY <1>9 DEF WritesTo
<1>12. Wrote(u, w, W, n, f, d, p)
  BY <1>1, <1>2, <1>11, WrittenTo
<1>6. /\ DOMAIN w = Contents!Regions(n)
      /\ w[Contents!offset_lights(n, f)] = lamps
      /\ \A i \in 1..d : w[Contents!offset_light(f, i - 1)] = DV[i]
      /\ \A k \in 1..p : w[Contents!offset_light(f, MaxLights + k - 1)] = PV[k]
  BY <1>9, <1>12 DEF Wrote
<1>7. \A y \in Contents!Regions(n) :
        y # Contents!offset_lights(n, f)
        /\ (\A k \in 0..(7 * MaxLights - 1) : y # Contents!offset_light(f, k))
        => w[y] = u[y]
  BY <1>12 DEF Wrote
<1>8. LightsAre(w, n, f)
  BY <1>6 DEF LightsAre, d, p, DV, PV, LightsFor
<1>10. f \in 0..n /\ n \in 0..n /\ \A g \in 0..(n - 1) : g \in 0..n
  OBVIOUS
<1>17. w[Contents!offset(f)] = u[Contents!offset(f)] /\ w[Contents!offset_screen(f)] = u[Contents!offset_screen(f)]
       /\ w[Contents!offset_lights(n, n)] = u[Contents!offset_lights(n, n)]
  <2>1. f # n
    OBVIOUS
  <2> QED
    BY <1>10, <1>7, <2>1, RegionsOfFrame
<1>18. ASSUME NEW g \in 0..(n - 1), g # f
       PROVE  /\ w[Contents!offset(g)] = u[Contents!offset(g)]
              /\ w[Contents!offset_screen(g)] = u[Contents!offset_screen(g)]
              /\ w[Contents!offset_lights(n, g)] = u[Contents!offset_lights(n, g)]
              /\ \A k \in 0..(7 * MaxLights - 1) :
                    w[Contents!offset_light(g, k)] = u[Contents!offset_light(g, k)]
  <2>1. \A x \in {Contents!offset(g), Contents!offset_screen(g), Contents!offset_lights(n, g)} : x \in Contents!Regions(n)
        /\ x # Contents!offset_lights(n, f)
    BY <1>10, <1>18, RegionsOfFrame
  <2>2. \A k \in 0..(7 * MaxLights - 1) :
          Contents!offset_light(g, k) \in Contents!Regions(n) /\ Contents!offset_light(g, k) # Contents!offset_lights(n, f)
    BY <1>10, <1>18, RegionsOfFrame
  <2>3. f \in Nat /\ g \in Nat
    OBVIOUS
  <2>4. \A x \in {Contents!offset(g), Contents!offset_screen(g)} :
          \A k \in 0..(7 * MaxLights - 1) : x # Contents!offset_light(f, k)
    BY <1>18, <2>3, RegionsApart
  <2>5. \A k \in 0..(7 * MaxLights - 1) : Contents!offset_lights(n, g) # Contents!offset_light(f, k)
    BY <1>10, <1>18, RegionsOfFrame
  <2>6. \A j, k \in 0..(7 * MaxLights - 1) : Contents!offset_light(g, j) # Contents!offset_light(f, k)
    BY <1>18, <2>3, RegionsApart
  <2> QED
    BY <1>7, <2>1, <2>2, <2>4, <2>5, <2>6
<1> QED
  BY <1>6, <1>8, <1>17, <1>18

-----------------------------------------------------------------------------
(* Images of pictures.                                                     *)

ImageOf(i, n) ==
    /\ i # Contents!NoImage
    /\ DOMAIN i = {"layout", "rows"}
    /\ DOMAIN i.layout = 1..n /\ DOMAIN i.rows = 1..n
    /\ i.layout \in Seq({"UNDEFINED", "DST", "SRC", "READ"})
    /\ \A k \in 1..n : DOMAIN i.rows[k] = 1..2

LEMMA NewImages ==
    ASSUME NEW n \in {1, 2}, NEW layout \in {"UNDEFINED", "DST", "SRC", "READ"}
    PROVE  ImageOf(Contents!NewImage(n, layout), n) /\ Contents!Content(Contents!NewImage(n, layout)) = Contents!Undefined
<1> DEFINE i == Contents!NewImage(n, layout)
<1>1. /\ DOMAIN i = {"layout", "rows"}
      /\ i.layout = [k \in 1..n |-> layout]
      /\ i.rows = [k \in 1..n |-> <<Contents!Row(0, 0), Contents!Row(0, 0)>>]
  BY DEF Contents!NewImage, Contents!NoRows
<1> HIDE DEF i
<1>2. i # Contents!NoImage
  <2>1. DOMAIN Contents!NoImage.layout # 1..n
    BY DEF Contents!NoImage
  <2> QED
    BY <1>1, <2>1
<1>3. ImageOf(i, n)
  BY <1>1, <1>2 DEF ImageOf
<1>4. i.rows[1][1][1] = 0
  BY <1>1 DEF Contents!Row
<1>5. Contents!Content(i) = Contents!Undefined
  BY <1>4 DEF Contents!Content
<1> QED
  BY <1>3, <1>5 DEF i

LEMMA BarrierIs ==
    ASSUME NEW i, NEW n \in {1, 2}, ImageOf(i, n), NEW levels, NEW old,
           NEW new \in {"UNDEFINED", "DST", "SRC", "READ"}
    PROVE  /\ ImageOf(Contents!Barrier(i, levels, old, new), n)
           /\ \A k \in 1..n : Contents!Barrier(i, levels, old, new).layout[k]
                = IF k \in levels THEN new ELSE i.layout[k]
           /\ \A k \in 1..n : k \in levels /\ i.layout[k] = old
                => Contents!Barrier(i, levels, old, new).rows[k] = i.rows[k]
           /\ \A k \in 1..n : k \notin levels
                => Contents!Barrier(i, levels, old, new).rows[k] = i.rows[k]
<1> DEFINE j == Contents!Barrier(i, levels, old, new)
<1>1. /\ DOMAIN j = {"layout", "rows"}
      /\ j.layout = [k \in DOMAIN i.layout |-> IF k \in levels THEN new ELSE i.layout[k]]
      /\ j.rows = [k \in DOMAIN i.rows |->
            IF k \in levels /\ i.layout[k] # old THEN Contents!NoRows ELSE i.rows[k]]
  BY DEF Contents!Barrier
<1> HIDE DEF j
<1>2. DOMAIN j.layout = 1..n /\ DOMAIN j.rows = 1..n
  BY <1>1 DEF ImageOf
<1>3. \A k \in 1..n : /\ j.layout[k] = IF k \in levels THEN new ELSE i.layout[k]
                      /\ j.rows[k] = IF k \in levels /\ i.layout[k] # old
                                     THEN Contents!NoRows ELSE i.rows[k]
  BY <1>1, <1>2 DEF ImageOf
<1>4. j # Contents!NoImage
  <2>1. DOMAIN Contents!NoImage.layout # 1..n
    BY DEF Contents!NoImage
  <2> QED
    BY <1>2, <2>1
<1>5. DOMAIN Contents!NoRows = 1..2
  BY DEF Contents!NoRows
<1>6. j.layout \in Seq({"UNDEFINED", "DST", "SRC", "READ"})
  <2>1. \A k \in 1..n : i.layout[k] \in {"UNDEFINED", "DST", "SRC", "READ"}
    BY ElementOfSeq DEF ImageOf
  <2>2. j.layout = [k \in 1..n |-> IF k \in levels THEN new ELSE i.layout[k]]
    BY <1>1 DEF ImageOf
  <2> QED
    BY <2>1, <2>2
<1>7. ImageOf(j, n)
  BY <1>1, <1>2, <1>3, <1>4, <1>5, <1>6 DEF ImageOf
<1> QED
  BY <1>3, <1>7 DEF j

LEMMA LenOf ==
    ASSUME NEW S, NEW s \in Seq(S), NEW n \in Nat, DOMAIN s = 1..n
    PROVE  Len(s) = n
<1>1. Len(s) \in Nat /\ DOMAIN s = 1..Len(s)
  BY LenProperties
<1> DEFINE l == Len(s)
<1>2. l \in Nat /\ 1..l = 1..n
  BY <1>1
<1> HIDE DEF l
<1>3. l = n
  BY <1>2
<1> QED
  BY <1>3 DEF l

LEMMA PartsOfRows ==
    ASSUME NEW p
    PROVE  /\ DOMAIN Contents!RowsOf(p) = 1..2 /\ Contents!RowsOf(p)[1] = Contents!Row(p, 1) /\ Contents!RowsOf(p)[2] = Contents!Row(p, 2)
           /\ SubSeq(Contents!RowsOf(p), 1, 2) = Contents!RowsOf(p)
           /\ SubSeq(Contents!RowsOf(p), 1, 1) = <<Contents!Row(p, 1)>>
           /\ SubSeq(Contents!RowsOf(p), 2, 2) = <<Contents!Row(p, 2)>>
<1>1. Contents!RowsOf(p) = <<Contents!Row(p, 1), Contents!Row(p, 2)>>
  BY DEF Contents!RowsOf
<1> DEFINE a == Contents!Row(p, 1)
           b == Contents!Row(p, 2)
<1> HIDE DEF a, b
<1>2. DOMAIN <<a, b>> = 1..2 /\ <<a, b>>[1] = a /\ <<a, b>>[2] = b
  OBVIOUS
<1>3. <<a, b>> \in Seq({a, b}) /\ Len(<<a, b>>) = 2 /\ Len(<<a>>) = 1 /\ Len(<<b>>) = 1
      /\ <<a>> \in Seq({a, b}) /\ <<b>> \in Seq({a, b}) /\ <<a>>[1] = a /\ <<b>>[1] = b
  OBVIOUS
<1>4. \A m, n \in 1..2 : m <= n =>
        /\ SubSeq(<<a, b>>, m, n) \in Seq({a, b}) /\ Len(SubSeq(<<a, b>>, m, n)) = n - m + 1
        /\ \A i \in 1..(n - m + 1) : SubSeq(<<a, b>>, m, n)[i] = <<a, b>>[m + i - 1]
  BY <1>3, SubSeqProperties
<1>5. SubSeq(<<a, b>>, 1, 2) = <<a, b>>
  <2>1. /\ SubSeq(<<a, b>>, 1, 2) \in Seq({a, b}) /\ Len(SubSeq(<<a, b>>, 1, 2)) = 2
        /\ \A i \in 1..2 : SubSeq(<<a, b>>, 1, 2)[i] = <<a, b>>[1 + i - 1]
    BY <1>4
  <2>2. \A i \in 1..2 : SubSeq(<<a, b>>, 1, 2)[i] = <<a, b>>[i]
    BY <1>2, <1>3, <2>1
  <2> DEFINE s == SubSeq(<<a, b>>, 1, 2)
             t == <<a, b>>
  <2>3. s \in Seq({a, b}) /\ t \in Seq({a, b}) /\ Len(s) = Len(t)
        /\ \A i \in 1..Len(s) : s[i] = t[i]
    BY <1>3, <2>1, <2>2
  <2> HIDE DEF s, t
  <2>4. s = t
    BY <2>3, SeqEqual
  <2> QED
    BY <2>4 DEF s, t
<1>6. SubSeq(<<a, b>>, 1, 1) = <<a>>
  <2>1. /\ SubSeq(<<a, b>>, 1, 1) \in Seq({a, b}) /\ Len(SubSeq(<<a, b>>, 1, 1)) = 1
        /\ \A i \in 1..1 : SubSeq(<<a, b>>, 1, 1)[i] = <<a, b>>[1 + i - 1]
    BY <1>4
  <2>2. \A i \in 1..1 : SubSeq(<<a, b>>, 1, 1)[i] = <<a>>[i]
    BY <1>2, <1>3, <2>1
  <2> DEFINE s == SubSeq(<<a, b>>, 1, 1)
             t == <<a>>
  <2>3. s \in Seq({a, b}) /\ t \in Seq({a, b}) /\ Len(s) = Len(t)
        /\ \A i \in 1..Len(s) : s[i] = t[i]
    BY <1>3, <2>1, <2>2
  <2> HIDE DEF s, t
  <2>4. s = t
    BY <2>3, SeqEqual
  <2> QED
    BY <2>4 DEF s, t
<1>7. SubSeq(<<a, b>>, 2, 2) = <<b>>
  <2>1. /\ SubSeq(<<a, b>>, 2, 2) \in Seq({a, b}) /\ Len(SubSeq(<<a, b>>, 2, 2)) = 1
        /\ \A i \in 1..1 : SubSeq(<<a, b>>, 2, 2)[i] = <<a, b>>[2 + i - 1]
    BY <1>4
  <2>2. \A i \in 1..1 : SubSeq(<<a, b>>, 2, 2)[i] = <<b>>[i]
    BY <1>2, <1>3, <2>1
  <2> DEFINE s == SubSeq(<<a, b>>, 2, 2)
             t == <<b>>
  <2>3. s \in Seq({a, b}) /\ t \in Seq({a, b}) /\ Len(s) = Len(t)
        /\ \A i \in 1..Len(s) : s[i] = t[i]
    BY <1>3, <2>1, <2>2
  <2> HIDE DEF s, t
  <2>4. s = t
    BY <2>3, SeqEqual
  <2> QED
    BY <2>4 DEF s, t
<1> QED
  BY <1>1, <1>2, <1>5, <1>6, <1>7 DEF a, b

(* A piece is written to the first level, if it is to be written to. *)
LEMMA RowsCopied ==
    ASSUME NEW i, NEW n \in {1, 2}, ImageOf(i, n), i.layout[1] = "DST",
           NEW first \in 1..2, NEW rows, Len(rows) \in 1..2
    PROVE  /\ ImageOf(Contents!CopyRows(i, first, rows), n)
           /\ Contents!CopyRows(i, first, rows).layout = i.layout
           /\ \A k \in 1..2 : Contents!CopyRows(i, first, rows).rows[1][k]
                = IF k \in first..(first + Len(rows) - 1) THEN rows[k + 1 - first]
                  ELSE i.rows[1][k]
<1> DEFINE j == Contents!CopyRows(i, first, rows)
<1>1. j = [i EXCEPT !.rows[1] = [k \in DOMAIN @ |->
            IF k \in first..(first + Len(rows) - 1) THEN rows[k + 1 - first] ELSE @[k]]]
  BY DEF Contents!CopyRows
<1>2. /\ DOMAIN i = {"layout", "rows"} /\ DOMAIN i.rows = 1..n /\ 1 \in 1..n
      /\ DOMAIN i.rows[1] = 1..2
  BY DEF ImageOf
<1> HIDE DEF j
<1>3. /\ DOMAIN j = {"layout", "rows"} /\ j.layout = i.layout
      /\ DOMAIN j.rows = 1..n
      /\ j.rows[1] = [k \in 1..2 |->
            IF k \in first..(first + Len(rows) - 1) THEN rows[k + 1 - first] ELSE i.rows[1][k]]
      /\ \A k \in 1..n : k # 1 => j.rows[k] = i.rows[k]
  BY <1>1, <1>2
<1>4. j # Contents!NoImage
  <2>1. DOMAIN Contents!NoImage.layout # 1..n
    BY DEF Contents!NoImage
  <2> QED
    BY <1>3, <2>1 DEF ImageOf
<1>5. ImageOf(j, n)
  BY <1>3, <1>4 DEF ImageOf
<1> QED
  BY <1>3, <1>5 DEF j

(* In one piece, or in two. *)
LEMMA PiecesCopied ==
    ASSUME NEW i, NEW n \in {1, 2}, ImageOf(i, n), i.layout[1] = "DST",
           NEW p, NEW split \in BOOLEAN
    PROVE  /\ ImageOf(Contents!CopyPieces(i, p, Contents!Pieces(split)), n)
           /\ Contents!CopyPieces(i, p, Contents!Pieces(split)).layout = i.layout
           /\ Contents!CopyPieces(i, p, Contents!Pieces(split)).rows[1] = Contents!RowsOf(p)
<1> DEFINE seq == Contents!Pieces(split)
           j == Contents!CopyPieces(i, p, seq)
<1>1. CASE split
  <2>1. seq = <<<<1, 1>>, <<2, 1>>>>
    BY <1>1 DEF Contents!Pieces
  <2>2. Len(seq) = 2 /\ seq[1] = <<1, 1>> /\ seq[2] = <<2, 1>>
    BY <2>1
  <2> HIDE DEF seq
  <2>3. PICK at : /\ j = at[Len(seq)] /\ at[0] = i
                  /\ \A k \in 1..Len(seq) : at[k] = Contents!CopyPiece(at[k - 1], p, seq[k])
    <3>1. Len(seq) \in Nat
      BY <2>2
    <3> QED
      BY <3>1, PiecesAre
  <2>4. at[1] = Contents!CopyPiece(i, p, <<1, 1>>) /\ at[2] = Contents!CopyPiece(at[1], p, <<2, 1>>) /\ j = at[2]
    <3>1. 1 \in 1..Len(seq) /\ 2 \in 1..Len(seq)
      BY <2>2
    <3> QED
      BY <2>2, <2>3, <3>1
  <2>5. /\ at[1] = Contents!CopyRows(i, 1, <<Contents!Row(p, 1)>>)
        /\ at[2] = Contents!CopyRows(at[1], 2, <<Contents!Row(p, 2)>>)
    <3>1. \A x \in {1, 2} : <<x, 1>>[1] = x /\ <<x, 1>>[2] = 1 /\ x + 1 - 1 = x
      OBVIOUS
    <3>2. \A g : \A x \in {1, 2} : Contents!CopyPiece(g, p, <<x, 1>>)
            = Contents!CopyRows(g, x, SubSeq(Contents!RowsOf(p), x, x))
      BY <3>1 DEF Contents!CopyPiece
    <3> QED
      BY <2>4, <3>2, PartsOfRows
  <2>6. \A x : Len(<<x>>) = 1 /\ <<x>>[1] = x
    OBVIOUS
  <2>7. /\ ImageOf(at[1], n) /\ at[1].layout = i.layout
        /\ at[1].rows[1][1] = Contents!Row(p, 1)
    <3>1. /\ ImageOf(Contents!CopyRows(i, 1, <<Contents!Row(p, 1)>>), n)
          /\ Contents!CopyRows(i, 1, <<Contents!Row(p, 1)>>).layout = i.layout
          /\ \A k \in 1..2 : Contents!CopyRows(i, 1, <<Contents!Row(p, 1)>>).rows[1][k]
                = IF k \in 1..(1 + Len(<<Contents!Row(p, 1)>>) - 1) THEN <<Contents!Row(p, 1)>>[k + 1 - 1]
                  ELSE i.rows[1][k]
      BY <2>6, RowsCopied
    <3> QED
      BY <2>5, <2>6, <3>1
  <2>8. /\ ImageOf(at[2], n) /\ at[2].layout = i.layout
        /\ at[2].rows[1][1] = Contents!Row(p, 1) /\ at[2].rows[1][2] = Contents!Row(p, 2)
    <3>1. at[1].layout[1] = "DST"
      BY <2>7
    <3>2. /\ ImageOf(Contents!CopyRows(at[1], 2, <<Contents!Row(p, 2)>>), n)
          /\ Contents!CopyRows(at[1], 2, <<Contents!Row(p, 2)>>).layout = at[1].layout
          /\ \A k \in 1..2 : Contents!CopyRows(at[1], 2, <<Contents!Row(p, 2)>>).rows[1][k]
                = IF k \in 2..(2 + Len(<<Contents!Row(p, 2)>>) - 1) THEN <<Contents!Row(p, 2)>>[k + 1 - 2]
                  ELSE at[1].rows[1][k]
      BY <2>6, <2>7, <3>1, RowsCopied
    <3> QED
      BY <2>5, <2>6, <2>7, <3>2
  <2>9. at[2].rows[1] = Contents!RowsOf(p)
    <3>1. DOMAIN at[2].rows[1] = 1..2
      BY <2>8 DEF ImageOf
    <3>2. at[2].rows[1] = [k \in 1..2 |-> at[2].rows[1][k]]
      BY <2>5, <2>7, <3>1 DEF Contents!CopyRows, ImageOf
    <3>3. Contents!RowsOf(p) = [k \in 1..2 |-> Contents!RowsOf(p)[k]]
      BY DEF Contents!RowsOf
    <3> QED
      BY <2>8, <3>2, <3>3, PartsOfRows
  <2> QED
    BY <2>4, <2>8, <2>9 DEF seq
<1>2. CASE ~split
  <2>1. seq = <<<<1, 2>>>>
    BY <1>2 DEF Contents!Pieces
  <2>2. Len(seq) = 1 /\ seq[1] = <<1, 2>>
    BY <2>1
  <2> HIDE DEF seq
  <2>3. PICK at : /\ j = at[Len(seq)] /\ at[0] = i
                  /\ \A k \in 1..Len(seq) : at[k] = Contents!CopyPiece(at[k - 1], p, seq[k])
    BY <2>2, PiecesAre
  <2>4. j = Contents!CopyPiece(i, p, <<1, 2>>)
    <3>1. 1 \in 1..Len(seq)
      BY <2>2
    <3> QED
      BY <2>2, <2>3, <3>1
  <2>5. j = Contents!CopyRows(i, 1, Contents!RowsOf(p))
    <3>1. <<1, 2>>[1] = 1 /\ <<1, 2>>[2] = 2 /\ 1 + 2 - 1 = 2
      OBVIOUS
    <3>2. Contents!CopyPiece(i, p, <<1, 2>>) = Contents!CopyRows(i, 1, SubSeq(Contents!RowsOf(p), 1, 2))
      BY <3>1 DEF Contents!CopyPiece
    <3> QED
      BY <2>4, <3>2, PartsOfRows
  <2>6. Len(Contents!RowsOf(p)) = 2
    BY DEF Contents!RowsOf
  <2>7. /\ ImageOf(Contents!CopyRows(i, 1, Contents!RowsOf(p)), n)
        /\ Contents!CopyRows(i, 1, Contents!RowsOf(p)).layout = i.layout
        /\ \A k \in 1..2 : Contents!CopyRows(i, 1, Contents!RowsOf(p)).rows[1][k]
                = IF k \in 1..(1 + Len(Contents!RowsOf(p)) - 1) THEN Contents!RowsOf(p)[k + 1 - 1]
                  ELSE i.rows[1][k]
    BY <2>6, RowsCopied
  <2>8. \A k \in 1..2 : Contents!CopyRows(i, 1, Contents!RowsOf(p)).rows[1][k] = Contents!RowsOf(p)[k]
    BY <2>6, <2>7
  <2>9. Contents!CopyRows(i, 1, Contents!RowsOf(p)).rows[1] = Contents!RowsOf(p)
    <3>1. Contents!CopyRows(i, 1, Contents!RowsOf(p)).rows[1]
            = [k \in 1..2 |-> Contents!CopyRows(i, 1, Contents!RowsOf(p)).rows[1][k]]
      BY <2>7 DEF Contents!CopyRows, ImageOf
    <3>2. Contents!RowsOf(p) = [k \in 1..2 |-> Contents!RowsOf(p)[k]]
      BY DEF Contents!RowsOf
    <3> QED
      BY <2>8, <3>1, <3>2
  <2> QED
    BY <2>5, <2>7, <2>9 DEF seq
<1> QED
  BY <1>1, <1>2

(* The images load_textures() and load_font() leave. *)
WithTextures(i, p, split) ==
    Contents!WithMipmaps(Contents!CopyPieces(Contents!Barrier(i, DOMAIN i.layout, "UNDEFINED", "DST"),
        p, Contents!Pieces(split)))
WithFont(i, p) ==
    Contents!Barrier(Contents!CopyGlyphs(Contents!Barrier(i, {1}, "UNDEFINED", "DST"), p, Contents!Pieces(FALSE)).i,
        {1}, "DST", "READ")

(* The picture is in all levels. *)
LEMMA TexturesLoaded ==
    ASSUME NEW i, ImageOf(i, 2), NEW p \in Nat \ {0}, NEW split \in BOOLEAN
    PROVE  /\ ImageOf(WithTextures(i, p, split), 2)
           /\ Contents!Content(WithTextures(i, p, split)) = Contents!Picture(p)
<1> DEFINE j == WithTextures(i, p, split)
           L == {"UNDEFINED", "DST", "SRC", "READ"}
           s == Contents!Barrier(i, DOMAIN i.layout, "UNDEFINED", "DST")
           c == Contents!CopyPieces(s, p, Contents!Pieces(split))
<1>1. DOMAIN i.layout = 1..2
  BY DEF ImageOf
<1>2. ImageOf(s, 2) /\ s.layout[1] = "DST" /\ s.layout[2] = "DST"
  <2>1. "DST" \in L
    OBVIOUS
  <2>2. /\ ImageOf(s, 2)
        /\ \A k \in 1..2 : s.layout[k] = IF k \in DOMAIN i.layout THEN "DST" ELSE i.layout[k]
    BY <2>1, BarrierIs
  <2> HIDE DEF s
  <2> QED
    BY <1>1, <2>2
<1> HIDE DEF s
<1>3. ImageOf(c, 2) /\ c.layout = s.layout /\ c.rows[1] = Contents!RowsOf(p)
  BY <1>2, PiecesCopied
<1>4. j = Contents!WithMipmaps(c)
  BY DEF s, WithTextures
<1> HIDE DEF c, j
<1>5. Len(c.layout) = 2
  <2>1. DOMAIN c.layout = 1..2 /\ c.layout \in Seq(L)
    BY <1>3 DEF ImageOf
  <2> HIDE DEF L
  <2>2. 2 \in Nat
    OBVIOUS
  <2> QED
    BY <2>1, <2>2, LenOf
<1> DEFINE seq == [k \in 1..(2 - 1) |-> k + 1]
           n1 == Contents!NextLevel(c, 2)
<1>6. Contents!AllLevels(c, seq) = n1
  <2>1. Len(seq) = 1 /\ seq[1] = 2 /\ 1 \in 1..1
    OBVIOUS
  <2> HIDE DEF seq, n1
  <2>2. Len(seq) \in Nat
    BY <2>1
  <2>3. PICK at : /\ Contents!AllLevels(c, seq) = at[Len(seq)] /\ at[0] = c
                  /\ \A k \in 1..Len(seq) : at[k] = Contents!NextLevel(at[k - 1], seq[k])
    BY <2>2, LevelsAre
  <2>4. at[1] = Contents!NextLevel(at[1 - 1], seq[1]) /\ Contents!AllLevels(c, seq) = at[1]
    BY <2>1, <2>3
  <2> QED
    BY <2>1, <2>3, <2>4 DEF n1
<1>7. j = Contents!Barrier(n1, {2}, "DST", "READ")
  <2>1. j = Contents!Barrier(Contents!AllLevels(c, seq), {2}, "DST", "READ")
    BY <1>4, <1>5 DEF Contents!WithMipmaps
  <2> QED
    BY <1>6, <2>1
<1> DEFINE b1 == Contents!Barrier(c, {1}, "DST", "SRC")
           b2 == Contents!BlitLevel(b1, 2)
<1>8. n1 = Contents!Barrier(b2, {1}, "SRC", "READ")
  <2>1. 2 - 1 = 1
    OBVIOUS
  <2> QED
    BY <2>1 DEF Contents!NextLevel
<1> HIDE DEF n1, seq
<1>9. /\ "SRC" \in L /\ "READ" \in L /\ 1 \in 1..2 /\ 2 \in 1..2 /\ 2 \notin {1} /\ 1 \notin {2}
      /\ 1 \in {1} /\ 2 \in {2}
  OBVIOUS
<1>10. /\ ImageOf(b1, 2) /\ b1.layout[1] = "SRC" /\ b1.layout[2] = "DST"
       /\ b1.rows[1] = Contents!RowsOf(p)
  <2>1. /\ ImageOf(b1, 2)
        /\ \A k \in 1..2 : b1.layout[k] = IF k \in {1} THEN "SRC" ELSE c.layout[k]
        /\ \A k \in 1..2 : k \in {1} /\ c.layout[k] = "DST" => b1.rows[k] = c.rows[k]
    BY <1>3, <1>9, BarrierIs
  <2> HIDE DEF b1
  <2> QED
    BY <1>2, <1>3, <1>9, <2>1
<1> HIDE DEF b1
<1>11. /\ ImageOf(b2, 2) /\ b2.layout[1] = "SRC" /\ b2.layout[2] = "DST"
       /\ b2.rows[1] = Contents!RowsOf(p) /\ b2.rows[2] = Contents!RowsOf(p)
  <2>1. b2 = [b1 EXCEPT !.rows[2] = b1.rows[1]]
    BY <1>10, <1>9 DEF Contents!BlitLevel
  <2>2. DOMAIN b1 = {"layout", "rows"} /\ DOMAIN b1.rows = 1..2
    BY <1>10 DEF ImageOf
  <2> HIDE DEF b2
  <2>3. /\ DOMAIN b2 = {"layout", "rows"} /\ b2.layout = b1.layout /\ DOMAIN b2.rows = 1..2
        /\ b2.rows[1] = b1.rows[1] /\ b2.rows[2] = b1.rows[1]
    BY <2>1, <2>2
  <2>4. b2 # Contents!NoImage
    <3>1. DOMAIN Contents!NoImage.layout # 1..2
      BY DEF Contents!NoImage
    <3> QED
      BY <2>3, <3>1, <1>10 DEF ImageOf
  <2>5. ImageOf(b2, 2)
    BY <1>10, <2>3, <2>4 DEF ImageOf
  <2> QED
    BY <1>10, <2>3, <2>5
<1> HIDE DEF b2
<1>12. /\ ImageOf(n1, 2) /\ n1.layout[1] = "READ" /\ n1.layout[2] = "DST"
       /\ n1.rows[1] = Contents!RowsOf(p) /\ n1.rows[2] = Contents!RowsOf(p)
  <2>1. /\ ImageOf(n1, 2)
        /\ \A k \in 1..2 : n1.layout[k] = IF k \in {1} THEN "READ" ELSE b2.layout[k]
        /\ \A k \in 1..2 : k \in {1} /\ b2.layout[k] = "SRC" => n1.rows[k] = b2.rows[k]
        /\ \A k \in 1..2 : k \notin {1} => n1.rows[k] = b2.rows[k]
    BY <1>8, <1>9, <1>11, BarrierIs
  <2> QED
    BY <1>9, <1>11, <2>1
<1>13. /\ ImageOf(j, 2) /\ j.layout[1] = "READ" /\ j.layout[2] = "READ"
       /\ j.rows[1] = Contents!RowsOf(p) /\ j.rows[2] = Contents!RowsOf(p)
  <2>1. /\ ImageOf(j, 2)
        /\ \A k \in 1..2 : j.layout[k] = IF k \in {2} THEN "READ" ELSE n1.layout[k]
        /\ \A k \in 1..2 : k \in {2} /\ n1.layout[k] = "DST" => j.rows[k] = n1.rows[k]
        /\ \A k \in 1..2 : k \notin {2} => j.rows[k] = n1.rows[k]
    BY <1>7, <1>9, <1>12, BarrierIs
  <2> QED
    BY <1>9, <1>12, <2>1
<1>14. Contents!Content(j) = Contents!Picture(p)
  <2>1. j.rows[1][1][1] = p
    BY <1>13, PartsOfRows DEF Contents!Row
  <2>2. \A k \in DOMAIN j.rows : j.layout[k] = "READ" /\ j.rows[k] = Contents!RowsOf(p)
    BY <1>13 DEF ImageOf
  <2> QED
    BY <2>1, <2>2 DEF Contents!Content
<1> QED
  BY <1>13, <1>14 DEF j

LEMMA FontLoaded ==
    ASSUME NEW i, ImageOf(i, 1), NEW p \in Nat \ {0}
    PROVE  ImageOf(WithFont(i, p), 1) /\ Contents!Content(WithFont(i, p)) = Contents!Picture(p)
<1> DEFINE j == WithFont(i, p)
           L == {"UNDEFINED", "DST", "SRC", "READ"}
           s == Contents!Barrier(i, {1}, "UNDEFINED", "DST")
           seq == Contents!Pieces(FALSE)
           c == Contents!CopyGlyphs(s, p, seq).i
<1>1. "DST" \in L /\ "READ" \in L /\ 1 \in 1..1 /\ 1 \in {1} /\ 1 \in {1, 2}
  OBVIOUS
<1>2. ImageOf(s, 1) /\ s.layout[1] = "DST"
  <2>1. /\ ImageOf(s, 1)
        /\ \A k \in 1..1 : s.layout[k] = IF k \in {1} THEN "DST" ELSE i.layout[k]
    BY <1>1, BarrierIs
  <2> HIDE DEF s
  <2> QED
    BY <1>1, <2>1
<1>3. j = Contents!Barrier(c, {1}, "DST", "READ")
  BY DEF WithFont
<1> HIDE DEF j, s
<1>4. c = Contents!CopyRows(s, 1, Contents!RowsOf(p))
  <2>1. Len(seq) = 1 /\ seq[1] = <<1, 2>>
    BY DEF Contents!Pieces
  <2> HIDE DEF seq
  <2> DEFINE all == Contents!CopyGlyphs(s, p, seq)
  <2>2. Len(seq) \in Nat
    BY <2>1
  <2>3. PICK at : /\ Contents!CopyGlyphs(s, p, seq) = at[Len(seq)] /\ at[0].from = 1 /\ at[0].i = s
                  /\ \A k \in 1..Len(seq) : at[k] = Contents!CopyGlyph(at[k - 1], p, seq[k])
    BY <2>2, GlyphsAre
  <2> HIDE DEF all
  <2>4. all = Contents!CopyGlyph(at[0], p, <<1, 2>>)
    <3>1. at[1] = Contents!CopyGlyph(at[1 - 1], p, seq[1]) /\ all = at[1]
      BY <1>1, <2>1, <2>3 DEF all
    <3> QED
      BY <2>1, <3>1
  <2>5. all.i = Contents!CopyRows(s, 1, SubSeq(Contents!RowsOf(p), 1, 2))
    <3>1. <<1, 2>>[1] = 1 /\ <<1, 2>>[2] = 2 /\ 1 + 2 - 1 = 2
      OBVIOUS
    <3> QED
      BY <2>3, <2>4, <3>1 DEF Contents!CopyGlyph
  <2> QED
    BY <2>5, PartsOfRows DEF all
<1> HIDE DEF c
<1>5. Len(Contents!RowsOf(p)) = 2 /\ Len(Contents!RowsOf(p)) \in 1..2
  BY DEF Contents!RowsOf
<1>6. /\ ImageOf(c, 1) /\ c.layout[1] = "DST"
      /\ \A k \in 1..2 : c.rows[1][k] = Contents!RowsOf(p)[k]
  <2>1. /\ ImageOf(c, 1) /\ c.layout = s.layout
        /\ \A k \in 1..2 : c.rows[1][k]
                = IF k \in 1..(1 + Len(Contents!RowsOf(p)) - 1) THEN Contents!RowsOf(p)[k + 1 - 1]
                  ELSE s.rows[1][k]
    BY <1>1, <1>2, <1>4, <1>5, RowsCopied
  <2> QED
    BY <1>2, <1>5, <2>1
<1>7. c.rows[1] = Contents!RowsOf(p)
  <2>1. c.rows[1] = [k \in 1..2 |-> c.rows[1][k]]
    BY <1>2, <1>4 DEF Contents!CopyRows, ImageOf
  <2>2. Contents!RowsOf(p) = [k \in 1..2 |-> Contents!RowsOf(p)[k]]
    BY DEF Contents!RowsOf
  <2> QED
    BY <1>6, <2>1, <2>2
<1>8. /\ ImageOf(j, 1) /\ j.layout[1] = "READ" /\ j.rows[1] = Contents!RowsOf(p)
  <2>1. /\ ImageOf(j, 1)
        /\ \A k \in 1..1 : j.layout[k] = IF k \in {1} THEN "READ" ELSE c.layout[k]
        /\ \A k \in 1..1 : k \in {1} /\ c.layout[k] = "DST" => j.rows[k] = c.rows[k]
    <3> DEFINE x == Contents!Barrier(c, {1}, "DST", "READ")
    <3>1. /\ ImageOf(x, 1)
          /\ \A k \in 1..1 : x.layout[k] = IF k \in {1} THEN "READ" ELSE c.layout[k]
          /\ \A k \in 1..1 : k \in {1} /\ c.layout[k] = "DST" => x.rows[k] = c.rows[k]
      BY <1>1, <1>6, BarrierIs
    <3> QED
      BY <1>3, <3>1
  <2> QED
    BY <1>1, <1>6, <1>7, <2>1
<1>9. Contents!Content(j) = Contents!Picture(p)
  <2>1. j.rows[1][1][1] = p
    <3>1. Contents!RowsOf(p)[1] = <<p, 1>>
      BY PartsOfRows DEF Contents!Row
    <3> QED
      BY <1>8, <3>1
  <2>2. \A k \in DOMAIN j.rows : j.layout[k] = "READ" /\ j.rows[k] = Contents!RowsOf(p)
    <3>1. DOMAIN j.rows = {1}
      BY <1>8 DEF ImageOf
    <3> QED
      BY <1>8, <3>1
  <2> QED
    BY <2>1, <2>2 DEF Contents!Content
<1> QED
  BY <1>8, <1>9 DEF j

-----------------------------------------------------------------------------
(* The back end between calls, with these pictures and objects.            *)

Fields == {"n", "cur", "recreate", "extent", "camera_updated", "lighting_updated",
    "ubo", "tex_sets", "light_sets", "fbs", "now", "done", "sizes", "recorded",
    "flight", "lost", "window"}
HeldImages == {"tex", "font", "maps", "cubes", "buffers"}
LevelsOf(t) == IF t = "tex" THEN 2 ELSE 1
SetOf(t) == IF t = "tex" THEN 1 ELSE 2

Shape(v) ==
    /\ DOMAIN v = Fields /\ DOMAIN v.now = HeldImages /\ DOMAIN v.done = HeldImages
    /\ DOMAIN v.sizes = Contents!Objects /\ DOMAIN v.flight = Contents!AllFrames
    /\ DOMAIN v.now.buffers = Contents!Objects /\ DOMAIN v.done.buffers = Contents!Objects
    /\ v.lost = {}

(* Regions of no lights and layers of frames, and who has views of them.   *)
FramesAre(v) ==
    /\ v.n \in DrawnCounts /\ v.cur \in 0..(v.n - 1)
    /\ DOMAIN v.ubo = Contents!Regions(v.n) /\ v.ubo[Contents!offset_lights(v.n, v.n)] = Contents!NoLights
    /\ DOMAIN v.now.maps = 0..(v.n * MaxLights - 1)
    /\ DOMAIN v.now.cubes = 0..(v.n * 6 * MaxLights - 1)

SetIs(s, n, i) ==
    /\ DOMAIN s = {"region", "frame", "maps", "cubes"}
    /\ s.region = Contents!offset_lights(n, i) /\ s.frame = i % n
    /\ s.maps = "maps" /\ s.cubes = "cubes"

SetsAre(v) ==
    /\ DOMAIN v.light_sets = 0..v.n
    /\ \A i \in 0..v.n : SetIs(v.light_sets[i], v.n, i)

TexSetsAre(v) ==
    /\ v.tex_sets[3] = "maps"
    /\ \A t \in {"tex", "font"} :
        v.tex_sets[SetOf(t)] = IF Contents!Exists(v, t) THEN t ELSE Contents!Nobody

(* Images have the pictures of now. *)
ImagesAre(v, pics) ==
    /\ DOMAIN pics = {"tex", "font"}
    /\ \A t \in {"tex", "font"} :
        IF Contents!Exists(v, t) THEN ImageOf(v.now[t], LevelsOf(t)) /\ pics[t] = Contents!Content(v.now[t])
        ELSE pics[t] = Contents!Undefined

(* So have buffers the objects, for each frame. *)
ObjectsAre(v, objs) ==
    /\ DOMAIN objs = Contents!Objects
    /\ \A o \in Contents!Objects :
        /\ v.sizes[o] = objs[o] /\ objs[o] \in Nat
        /\ DOMAIN v.now.buffers[o] = 0..(v.n - 1)
        /\ objs[o] # 0 => \A i \in 0..(v.n - 1) : v.now.buffers[o][i] = objs[o]

LayersAre(fbs, n) ==
    /\ DOMAIN fbs = 0..(7 * n * MaxLights - 1)
    /\ \A i \in DOMAIN fbs : fbs[i] = Contents!DepthFrameBuffers(n)[i]

(* Frames whose regions were not written to are to be updated.             *)
UpdatedFor(v, s, w, l) ==
    \/ v.recreate = TRUE
    \/ /\ v.recreate = FALSE
       /\ v.extent = s /\ LayersAre(v.fbs, v.n)
       /\ \A f \in 0..(v.n - 1) :
            /\ f \in v.camera_updated \/ CamerasFor(v.ubo, f, s, w)
            /\ f \in v.lighting_updated \/ LightsFor(v.ubo, v.n, f, l)
UpdatedAre(v) == UpdatedFor(v, size, view, lamps)

BackendIs(v, pics, objs) ==
    /\ Shape(v) /\ FramesAre(v) /\ SetsAre(v) /\ TexSetsAre(v)
    /\ ImagesAre(v, pics) /\ ObjectsAre(v, objs) /\ UpdatedAre(v)

LEMMA UsedIs ==
    ASSUME NEW v, NEW w, NEW t, w.recorded = v.recorded \cup {t}, w.flight = v.flight
    PROVE  Contents!Used(w) = Contents!Used(v) \cup {t}
  BY DEF Contents!Used

(* What has become of v: an image is another, which nobody else refers to. *)
Created(v, w, t, a) ==
    /\ Shape(w)
    /\ \A f \in Fields \ {"tex_sets", "light_sets", "fbs", "now", "done"} : w[f] = v[f]
    /\ w.now = [v.now EXCEPT ![t] = a]
    /\ t \in {"tex", "font"} =>
        /\ DOMAIN w.light_sets = DOMAIN v.light_sets
        /\ \A i \in DOMAIN v.light_sets : \A n :
            SetIs(v.light_sets[i], n, i) => SetIs(w.light_sets[i], n, i)
        /\ \A n : LayersAre(v.fbs, n) => LayersAre(w.fbs, n)

LEMMA CreateIs ==
    ASSUME NEW v, Shape(v), NEW t \in {"tex", "font", "maps", "cubes"}, NEW a,
           t \notin Contents!Used(v)
    PROVE  Created(v, Contents!Create(v, t, a), t, a)
<1> DEFINE of(x) == Contents!Without(x, t)
           w == Contents!Create(v, t, a)
           v1 == [v EXCEPT !.lost = @ \cup ({t} \cap Contents!Used(v))]
           v2 == [v1 EXCEPT !.now[t] = a]
           v3 == [v2 EXCEPT !.done[t] = a]
           v4 == [v3 EXCEPT !.tex_sets = [k \in DOMAIN @ |-> of(@[k])]]
           v5 == [v4 EXCEPT !.light_sets = [i \in DOMAIN @ |-> Contents!ViewsWithout(@[i], t)]]
           v6 == [v5 EXCEPT !.fbs = [i \in DOMAIN @ |-> <<of(@[i][1]), @[i][2]>>]]
<1>1. w = v6
  BY DEF Contents!Create
<1>2. /\ DOMAIN v = Fields /\ DOMAIN v.now = HeldImages /\ DOMAIN v.done = HeldImages
      /\ DOMAIN v.now.buffers = Contents!Objects /\ DOMAIN v.done.buffers = Contents!Objects
      /\ DOMAIN v.sizes = Contents!Objects /\ DOMAIN v.flight = Contents!AllFrames
      /\ v.lost = {}
  BY DEF Shape
<1>3. t \in {"tex", "font"} => of("maps") = "maps" /\ of("cubes") = "cubes"
  BY DEF Contents!Without
<1> HIDE DEF w, of
<1>9. DOMAIN v1 = Fields /\ v1.lost = v.lost \cup ({t} \cap Contents!Used(v))
      /\ \A f \in Fields \ {"lost"} : v1[f] = v[f]
  BY <1>2 DEF Fields
<1> HIDE DEF v1
<1>10. DOMAIN v2 = Fields /\ v2.now = [v1.now EXCEPT ![t] = a]
       /\ \A f \in Fields \ {"now"} : v2[f] = v1[f]
  BY <1>9 DEF Fields
<1> HIDE DEF v2
<1>11. DOMAIN v3 = Fields /\ v3.done = [v2.done EXCEPT ![t] = a]
       /\ \A f \in Fields \ {"done"} : v3[f] = v2[f]
  BY <1>10 DEF Fields
<1> HIDE DEF v3
<1>12. DOMAIN v4 = Fields /\ \A f \in Fields \ {"tex_sets"} : v4[f] = v3[f]
  BY <1>11 DEF Fields
<1> HIDE DEF v4
<1>13. DOMAIN v5 = Fields /\ v5.light_sets = [i \in DOMAIN v4.light_sets |->
            Contents!ViewsWithout(v4.light_sets[i], t)]
       /\ \A f \in Fields \ {"light_sets"} : v5[f] = v4[f]
  BY <1>12 DEF Fields
<1> HIDE DEF v5
<1>14. DOMAIN v6 = Fields /\ v6.fbs = [i \in DOMAIN v5.fbs |-> <<of(v5.fbs[i][1]), v5.fbs[i][2]>>]
       /\ \A f \in Fields \ {"fbs"} : v6[f] = v5[f]
  BY <1>13 DEF Fields
<1> HIDE DEF v6
<1>15. \A f \in Fields \ {"tex_sets", "light_sets", "fbs", "now", "done", "lost"} : w[f] = v[f]
  <2> SUFFICES ASSUME NEW f \in Fields \ {"tex_sets", "light_sets", "fbs", "now", "done", "lost"}
               PROVE  w[f] = v[f]
    OBVIOUS
  <2>1. v1[f] = v[f] /\ v2[f] = v1[f] /\ v3[f] = v2[f]
    BY <1>9, <1>10, <1>11
  <2>2. v4[f] = v3[f] /\ v5[f] = v4[f] /\ v6[f] = v5[f]
    BY <1>12, <1>13, <1>14
  <2> QED
    BY <1>1, <2>1, <2>2
<1>16. w.now = v2.now /\ v1.now = v.now /\ w.done = v3.done /\ v2.done = v.done
       /\ w.lost = v1.lost /\ w.light_sets = v5.light_sets /\ v4.light_sets = v.light_sets
       /\ v5.fbs = v.fbs
  <2>0. {"now", "done", "lost", "light_sets", "fbs"} \subseteq Fields
    BY DEF Fields
  <2>1. v1.now = v.now /\ v1.done = v.done /\ v1.light_sets = v.light_sets /\ v1.fbs = v.fbs
    BY <1>9, <2>0
  <2>2. v2.done = v1.done /\ v2.light_sets = v1.light_sets /\ v2.fbs = v1.fbs /\ v2.lost = v1.lost
    BY <1>10, <2>0
  <2>3. v3.now = v2.now /\ v3.light_sets = v2.light_sets /\ v3.fbs = v2.fbs /\ v3.lost = v2.lost
    BY <1>11, <2>0
  <2>4. v4.now = v3.now /\ v4.done = v3.done /\ v4.light_sets = v3.light_sets
        /\ v4.fbs = v3.fbs /\ v4.lost = v3.lost
    BY <1>12, <2>0
  <2>5. v5.now = v4.now /\ v5.done = v4.done /\ v5.fbs = v4.fbs /\ v5.lost = v4.lost
    BY <1>13, <2>0
  <2>6. v6.now = v5.now /\ v6.done = v5.done /\ v6.light_sets = v5.light_sets /\ v6.lost = v5.lost
    BY <1>14, <2>0
  <2> QED
    BY <1>1, <2>1, <2>2, <2>3, <2>4, <2>5, <2>6
<1>4. /\ DOMAIN w = Fields
      /\ w.now = [v.now EXCEPT ![t] = a] /\ w.done = [v.done EXCEPT ![t] = a]
      /\ w.lost = v.lost \cup ({t} \cap Contents!Used(v))
      /\ w.light_sets = [i \in DOMAIN v.light_sets |->
            Contents!ViewsWithout(v.light_sets[i], t)]
      /\ w.fbs = [i \in DOMAIN v.fbs |-> <<of(v.fbs[i][1]), v.fbs[i][2]>>]
  BY <1>1, <1>9, <1>10, <1>11, <1>13, <1>14, <1>16
<1>5. w.lost = v.lost
  BY <1>2, <1>4
<1>6. Shape(w)
  <2>1. w.sizes = v.sizes /\ w.flight = v.flight /\ DOMAIN w = Fields
    BY <1>4, <1>15 DEF Fields
  <2>2. DOMAIN w.now = HeldImages /\ DOMAIN w.done = HeldImages
        /\ w.now.buffers = v.now.buffers /\ w.done.buffers = v.done.buffers
    BY <1>2, <1>4 DEF HeldImages
  <2> QED
    BY <1>2, <1>5, <2>1, <2>2 DEF Shape
<1>7. ASSUME t \in {"tex", "font"}
      PROVE  \A i \in DOMAIN v.light_sets : \A n :
                SetIs(v.light_sets[i], n, i) => SetIs(w.light_sets[i], n, i)
  <2> SUFFICES ASSUME NEW i \in DOMAIN v.light_sets, NEW n, SetIs(v.light_sets[i], n, i)
               PROVE  SetIs(w.light_sets[i], n, i)
    OBVIOUS
  <2> DEFINE p == v.light_sets[i]
             q == w.light_sets[i]
  <2>1. q = [p EXCEPT !.maps = of(@), !.cubes = of(@)]
    BY <1>4 DEF Contents!ViewsWithout, of
  <2>2. DOMAIN p = {"region", "frame", "maps", "cubes"} /\ p.maps = "maps" /\ p.cubes = "cubes"
    BY DEF SetIs
  <2> HIDE DEF p, q
  <2>3. DOMAIN q = DOMAIN p /\ q.region = p.region /\ q.frame = p.frame
        /\ q.maps = "maps" /\ q.cubes = "cubes"
    BY <1>3, <1>7, <2>1, <2>2
  <2> QED
    BY <2>2, <2>3 DEF SetIs, p, q
<1>8. ASSUME t \in {"tex", "font"}
      PROVE  \A n : LayersAre(v.fbs, n) => LayersAre(w.fbs, n)
  <2> SUFFICES ASSUME NEW n, LayersAre(v.fbs, n) PROVE LayersAre(w.fbs, n)
    OBVIOUS
  <2>1. DOMAIN w.fbs = DOMAIN v.fbs /\ \A i \in DOMAIN v.fbs :
            w.fbs[i] = <<of(v.fbs[i][1]), v.fbs[i][2]>>
    BY <1>4
  <2>2. \A i \in DOMAIN v.fbs : v.fbs[i] = <<"maps", i>> \/ \E k : v.fbs[i] = <<"cubes", k>>
    <3> SUFFICES ASSUME NEW i \in DOMAIN v.fbs
                 PROVE  v.fbs[i] = <<"maps", i>> \/ \E k : v.fbs[i] = <<"cubes", k>>
      OBVIOUS
    <3>1. v.fbs[i] = Contents!DepthFrameBuffers(n)[i] /\ i \in 0..(7 * n * MaxLights - 1)
      BY DEF LayersAre
    <3>2. Contents!DepthFrameBuffers(n)[i]
            = IF i < n * MaxLights THEN <<"maps", i>> ELSE <<"cubes", i - n * MaxLights>>
      BY <3>1 DEF Contents!DepthFrameBuffers
    <3> QED
      BY <3>1, <3>2
  <2>3. \A k : <<of(<<"maps", k>>[1]), <<"maps", k>>[2]>> = <<"maps", k>>
        /\ <<of(<<"cubes", k>>[1]), <<"cubes", k>>[2]>> = <<"cubes", k>>
    BY <1>3, <1>8
  <2>4. \A i \in DOMAIN v.fbs : w.fbs[i] = v.fbs[i]
    BY <2>1, <2>2, <2>3
  <2> QED
    BY <2>1, <2>4 DEF LayersAre
<1> QED
  BY <1>2, <1>4, <1>5, <1>6, <1>7, <1>8, <1>15 DEF w, Created

LEMMA RecordIs ==
    ASSUME NEW v, Shape(v), NEW t \in {"tex", "font", "maps", "cubes"}, NEW b
    PROVE  /\ Shape(Contents!Record(v, t, b))
           /\ \A f \in Fields \ {"now", "recorded"} : Contents!Record(v, t, b)[f] = v[f]
           /\ Contents!Record(v, t, b).now = [v.now EXCEPT ![t] = b]
           /\ Contents!Used(Contents!Record(v, t, b)) = Contents!Used(v) \cup {t}
<1> DEFINE w == Contents!Record(v, t, b)
           v1 == [v EXCEPT !.now[t] = b]
           v2 == [v1 EXCEPT !.recorded = @ \cup {t}]
<1>1. w = v2
  BY DEF Contents!Record
<1>2. /\ DOMAIN v = Fields /\ DOMAIN v.now = HeldImages /\ DOMAIN v.done = HeldImages
      /\ DOMAIN v.now.buffers = Contents!Objects /\ DOMAIN v.done.buffers = Contents!Objects
      /\ DOMAIN v.sizes = Contents!Objects /\ DOMAIN v.flight = Contents!AllFrames
      /\ v.lost = {}
  BY DEF Shape
<1> HIDE DEF w
<1>3. DOMAIN v1 = Fields /\ v1.now = [v.now EXCEPT ![t] = b]
      /\ \A f \in Fields \ {"now"} : v1[f] = v[f]
  BY <1>2 DEF Fields
<1> HIDE DEF v1
<1>4. DOMAIN v2 = Fields /\ v2.recorded = v1.recorded \cup {t}
      /\ \A f \in Fields \ {"recorded"} : v2[f] = v1[f]
  BY <1>3 DEF Fields
<1> HIDE DEF v2
<1>5. \A f \in Fields \ {"now", "recorded"} : w[f] = v[f]
  BY <1>1, <1>3, <1>4
<1>6. {"now", "recorded", "done", "sizes", "flight", "lost"} \subseteq Fields
  BY DEF Fields
<1>7. w.now = [v.now EXCEPT ![t] = b] /\ w.recorded = v.recorded \cup {t}
  <2>1. v1.recorded = v.recorded /\ v2.now = v1.now
    BY <1>3, <1>4, <1>6
  <2> QED
    BY <1>1, <1>3, <1>4, <2>1
<1>8. w.done = v.done /\ w.sizes = v.sizes /\ w.flight = v.flight /\ w.lost = v.lost
  BY <1>5, <1>6
<1>9. DOMAIN w.now = HeldImages /\ w.now.buffers = v.now.buffers
  BY <1>2, <1>7 DEF HeldImages
<1>10. Shape(w)
  BY <1>1, <1>2, <1>4, <1>8, <1>9 DEF Shape
<1>11. Contents!Used(w) = Contents!Used(v) \cup {t}
  BY <1>7, <1>8, UsedIs
<1> QED
  BY <1>5, <1>7, <1>10, <1>11 DEF w

LEMMA WriteTexSetsIs ==
    ASSUME NEW v, Shape(v), "tex_sets" \notin Contents!Used(v)
    PROVE  /\ Shape(Contents!WriteTexSets(v))
           /\ \A f \in Fields \ {"tex_sets"} : Contents!WriteTexSets(v)[f] = v[f]
           /\ TexSetsAre(Contents!WriteTexSets(v))
           /\ Contents!Used(Contents!WriteTexSets(v)) = Contents!Used(v)
<1> DEFINE of(t) == IF Contents!Exists(v, t) THEN t ELSE Contents!Nobody
           w == Contents!WriteTexSets(v)
           v1 == [v EXCEPT !.tex_sets = <<of("tex"), of("font"), "maps", "cubes">>]
           v2 == [v1 EXCEPT !.lost = @ \cup ({"tex_sets"} \cap Contents!Used(v))]
<1>1. w = v2
  BY DEF Contents!WriteTexSets
<1>2. /\ DOMAIN v = Fields /\ DOMAIN v.now = HeldImages /\ DOMAIN v.done = HeldImages
      /\ DOMAIN v.now.buffers = Contents!Objects /\ DOMAIN v.done.buffers = Contents!Objects
      /\ DOMAIN v.sizes = Contents!Objects /\ DOMAIN v.flight = Contents!AllFrames
      /\ v.lost = {}
  BY DEF Shape
<1> HIDE DEF w, of
<1>3. DOMAIN v1 = Fields /\ v1.tex_sets = <<of("tex"), of("font"), "maps", "cubes">>
      /\ \A f \in Fields \ {"tex_sets"} : v1[f] = v[f]
  BY <1>2 DEF Fields
<1> HIDE DEF v1
<1>4. DOMAIN v2 = Fields /\ v2.lost = v1.lost \cup ({"tex_sets"} \cap Contents!Used(v))
      /\ \A f \in Fields \ {"lost"} : v2[f] = v1[f]
  BY <1>3 DEF Fields
<1> HIDE DEF v2
<1>6. {"now", "recorded", "done", "sizes", "flight", "lost", "tex_sets"} \subseteq Fields
  BY DEF Fields
<1>5. w.lost = v.lost /\ w.tex_sets = v1.tex_sets
  <2>1. v1.lost = v.lost /\ v2.tex_sets = v1.tex_sets
    BY <1>3, <1>4, <1>6
  <2>2. {"tex_sets"} \cap Contents!Used(v) = {}
    OBVIOUS
  <2> QED
    BY <1>1, <1>4, <2>1, <2>2
<1>7. \A f \in Fields \ {"tex_sets"} : w[f] = v[f]
  <2> SUFFICES ASSUME NEW f \in Fields \ {"tex_sets"} PROVE w[f] = v[f]
    OBVIOUS
  <2>1. CASE f = "lost"
    BY <1>5, <2>1
  <2>2. CASE f # "lost"
    BY <1>1, <1>3, <1>4, <2>2
  <2> QED
    BY <2>1, <2>2
<1>8. w.done = v.done /\ w.sizes = v.sizes /\ w.flight = v.flight /\ w.now = v.now
      /\ w.recorded = v.recorded
  BY <1>7, <1>6
<1>9. Shape(w)
  BY <1>1, <1>2, <1>4, <1>5, <1>8 DEF Shape
<1>10. TexSetsAre(w)
  <2>1. w.tex_sets[3] = "maps" /\ w.tex_sets[1] = of("tex") /\ w.tex_sets[2] = of("font")
    BY <1>3, <1>5
  <2> QED
    BY <1>8, <2>1 DEF TexSetsAre, SetOf, Contents!Exists, of
<1>11. Contents!Used(w) = Contents!Used(v)
  BY <1>8 DEF Contents!Used
<1> QED
  BY <1>7, <1>9, <1>10, <1>11 DEF w

(* resize_textures(), resize_font() *)
Remade(v, t, a, b) == Contents!WriteTexSets(Contents!Record(Contents!Create(v, t, a), t, b))

LEMMA ImagesResized ==
    ASSUME NEW v, NEW pics, NEW objs, BackendIs(v, pics, objs),
           NEW t \in {"tex", "font"}, NEW a, NEW b, ImageOf(b, LevelsOf(t)),
           Contents!Content(b) = Contents!Undefined, Contents!Used(v) \cap {t, "tex_sets"} = {}
    PROVE  /\ BackendIs(Remade(v, t, a, b), [pics EXCEPT ![t] = Contents!Undefined], objs)
           /\ Contents!Used(Remade(v, t, a, b)) = Contents!Used(v) \cup {t}
           /\ Contents!Exists(Remade(v, t, a, b), t)
<1> DEFINE c == Contents!Create(v, t, a)
           r == Contents!Record(c, t, b)
           w == Remade(v, t, a, b)
           T == {"tex_sets", "light_sets", "fbs", "now", "done"}
<1>1. /\ Shape(c)
      /\ \A f \in Fields \ T : c[f] = v[f]
      /\ c.now = [v.now EXCEPT ![t] = a]
      /\ DOMAIN c.light_sets = DOMAIN v.light_sets
      /\ \A i \in DOMAIN v.light_sets : \A n :
            SetIs(v.light_sets[i], n, i) => SetIs(c.light_sets[i], n, i)
      /\ \A n : LayersAre(v.fbs, n) => LayersAre(c.fbs, n)
  <2>1. Shape(v)
    BY DEF BackendIs
  <2>2. t \in {"tex", "font", "maps", "cubes"} /\ t \notin Contents!Used(v)
    OBVIOUS
  <2> QED
    <3>1. Created(v, Contents!Create(v, t, a), t, a)
      BY <2>1, <2>2, CreateIs
    <3> QED
      BY <3>1 DEF Created
<1>2. Contents!Used(c) = Contents!Used(v)
  <2>1. c.recorded = v.recorded /\ c.flight = v.flight
    BY <1>1 DEF Fields
  <2> QED
    BY <2>1 DEF Contents!Used
<1>3. w = Contents!WriteTexSets(r)
  BY DEF Remade
<1> HIDE DEF c, w
<1>4. /\ Shape(r)
      /\ \A f \in Fields \ {"now", "recorded"} : r[f] = c[f]
      /\ r.now = [c.now EXCEPT ![t] = b]
      /\ Contents!Used(r) = Contents!Used(c) \cup {t}
  <2>1. t \in {"tex", "font", "maps", "cubes"}
    OBVIOUS
  <2> QED
    BY <1>1, <2>1, RecordIs
<1>5. "tex_sets" \notin Contents!Used(r)
  BY <1>2, <1>4
<1> HIDE DEF r
<1>6. /\ Shape(w) /\ TexSetsAre(w) /\ Contents!Used(w) = Contents!Used(r)
      /\ \A f \in Fields \ {"tex_sets"} : w[f] = r[f]
  BY <1>3, <1>4, <1>5, WriteTexSetsIs
<1>7. \A f \in Fields \ (T \cup {"recorded"}) : w[f] = v[f]
  BY <1>1, <1>4, <1>6
<1>8. w.now = r.now /\ w.light_sets = c.light_sets /\ w.fbs = c.fbs
  BY <1>4, <1>6 DEF Fields
<1>9. /\ w.n = v.n /\ w.cur = v.cur /\ w.ubo = v.ubo /\ w.sizes = v.sizes
      /\ w.recreate = v.recreate /\ w.extent = v.extent
      /\ w.camera_updated = v.camera_updated /\ w.lighting_updated = v.lighting_updated
  BY <1>7 DEF Fields
<1>10. DOMAIN v.now = HeldImages
  BY DEF BackendIs, Shape
<1>11. w.now[t] = b /\ \A x \in HeldImages \ {t} : w.now[x] = v.now[x]
  BY <1>1, <1>4, <1>8, <1>10 DEF HeldImages
<1>12. w.now.maps = v.now.maps /\ w.now.cubes = v.now.cubes /\ w.now.buffers = v.now.buffers
  BY <1>11 DEF HeldImages
<1>13. FramesAre(w)
  <2>1. FramesAre(v)
    BY DEF BackendIs
  <2> QED
    BY <1>9, <1>12, <2>1 DEF FramesAre
<1>14. SetsAre(w)
  <2>1. SetsAre(v)
    BY DEF BackendIs
  <2> QED
    BY <1>1, <1>8, <1>9, <2>1 DEF SetsAre
<1>15. ImagesAre(w, [pics EXCEPT ![t] = Contents!Undefined])
  <2>1. ImagesAre(v, pics)
    BY DEF BackendIs
  <2>2. b # Contents!NoImage
    BY DEF ImageOf
  <2>3. Contents!Exists(w, t)
    BY <1>11, <2>2 DEF Contents!Exists
  <2> DEFINE ps == [pics EXCEPT ![t] = Contents!Undefined]
  <2>4. DOMAIN ps = {"tex", "font"} /\ ps[t] = Contents!Undefined
        /\ \A x \in {"tex", "font"} \ {t} : ps[x] = pics[x]
    BY <2>1 DEF ImagesAre
  <2> HIDE DEF ps
  <2>5. \A x \in {"tex", "font"} \ {t} : w.now[x] = v.now[x]
    BY <1>11 DEF HeldImages
  <2>6. \A x \in {"tex", "font"} :
            IF Contents!Exists(w, x) THEN ImageOf(w.now[x], LevelsOf(x)) /\ ps[x] = Contents!Content(w.now[x])
            ELSE ps[x] = Contents!Undefined
    <3> SUFFICES ASSUME NEW x \in {"tex", "font"}
                 PROVE  IF Contents!Exists(w, x)
                        THEN ImageOf(w.now[x], LevelsOf(x)) /\ ps[x] = Contents!Content(w.now[x])
                        ELSE ps[x] = Contents!Undefined
      OBVIOUS
    <3>1. CASE x = t
      BY <1>11, <2>3, <2>4, <3>1
    <3>2. CASE x # t
      <4>1. w.now[x] = v.now[x] /\ ps[x] = pics[x]
        BY <2>4, <2>5, <3>2
      <4> QED
        BY <2>1, <4>1 DEF ImagesAre, Contents!Exists
    <3> QED
      BY <3>1, <3>2
  <2>7. ImagesAre(w, ps)
    BY <2>4, <2>6 DEF ImagesAre
  <2> QED
    BY <2>7 DEF ps
<1>16. ObjectsAre(w, objs)
  <2>1. ObjectsAre(v, objs)
    BY DEF BackendIs
  <2> QED
    BY <1>9, <1>12, <2>1 DEF ObjectsAre
<1>17. UpdatedAre(w)
  <2>1. UpdatedAre(v)
    BY DEF BackendIs
  <2> QED
    BY <1>1, <1>8, <1>9, <2>1 DEF UpdatedAre, UpdatedFor, CamerasAre, LightsAre
<1>18. BackendIs(w, [pics EXCEPT ![t] = Contents!Undefined], objs)
  BY <1>6, <1>13, <1>14, <1>15, <1>16, <1>17 DEF BackendIs
<1>19. Contents!Exists(w, t)
  BY <1>11 DEF Contents!Exists, ImageOf
<1> QED
  BY <1>2, <1>4, <1>6, <1>18, <1>19 DEF w

(* load_textures(), load_font() *)
LEMMA ImagesLoaded ==
    ASSUME NEW v, NEW pics, NEW objs, BackendIs(v, pics, objs),
           NEW t \in {"tex", "font"}, Contents!Exists(v, t), NEW b, ImageOf(b, LevelsOf(t))
    PROVE  /\ BackendIs(Contents!Record(v, t, b), [pics EXCEPT ![t] = Contents!Content(b)], objs)
           /\ Contents!Used(Contents!Record(v, t, b)) = Contents!Used(v) \cup {t}
           /\ \A x \in {"tex", "font"} : Contents!Exists(Contents!Record(v, t, b), x) <=> Contents!Exists(v, x)
<1> DEFINE w == Contents!Record(v, t, b)
<1>0. Shape(v) /\ FramesAre(v) /\ SetsAre(v) /\ TexSetsAre(v)
      /\ ImagesAre(v, pics) /\ ObjectsAre(v, objs) /\ UpdatedAre(v)
  BY DEF BackendIs
<1>1. /\ Shape(w)
      /\ \A f \in Fields \ {"now", "recorded"} : w[f] = v[f]
      /\ w.now = [v.now EXCEPT ![t] = b]
      /\ Contents!Used(w) = Contents!Used(v) \cup {t}
  <2>1. t \in {"tex", "font", "maps", "cubes"}
    OBVIOUS
  <2> QED
    BY <1>0, <2>1, RecordIs
<1> HIDE DEF w
<1>2. /\ w.n = v.n /\ w.cur = v.cur /\ w.ubo = v.ubo /\ w.sizes = v.sizes
      /\ w.recreate = v.recreate /\ w.extent = v.extent /\ w.fbs = v.fbs
      /\ w.camera_updated = v.camera_updated /\ w.lighting_updated = v.lighting_updated
      /\ w.tex_sets = v.tex_sets /\ w.light_sets = v.light_sets
  BY <1>1 DEF Fields
<1>3. DOMAIN v.now = HeldImages
  BY <1>0 DEF Shape
<1>4. w.now[t] = b /\ \A x \in HeldImages \ {t} : w.now[x] = v.now[x]
  BY <1>1, <1>3 DEF HeldImages
<1>5. w.now.maps = v.now.maps /\ w.now.cubes = v.now.cubes /\ w.now.buffers = v.now.buffers
  BY <1>4 DEF HeldImages
<1>6. \A x \in {"tex", "font"} \ {t} : w.now[x] = v.now[x]
  BY <1>4 DEF HeldImages
<1>7. \A x \in {"tex", "font"} : Contents!Exists(w, x) <=> Contents!Exists(v, x)
  <2>1. b # Contents!NoImage
    BY DEF ImageOf
  <2> QED
    BY <1>4, <1>6, <2>1 DEF Contents!Exists
<1>8. FramesAre(w)
  BY <1>0, <1>2, <1>5 DEF FramesAre
<1>9. SetsAre(w)
  BY <1>0, <1>2 DEF SetsAre
<1>10. TexSetsAre(w)
  BY <1>0, <1>2, <1>7 DEF TexSetsAre
<1>11. ImagesAre(w, [pics EXCEPT ![t] = Contents!Content(b)])
  <2> DEFINE ps == [pics EXCEPT ![t] = Contents!Content(b)]
  <2>1. DOMAIN ps = {"tex", "font"} /\ ps[t] = Contents!Content(b)
        /\ \A x \in {"tex", "font"} \ {t} : ps[x] = pics[x]
    BY <1>0 DEF ImagesAre
  <2> HIDE DEF ps
  <2>2. \A x \in {"tex", "font"} :
            IF Contents!Exists(w, x) THEN ImageOf(w.now[x], LevelsOf(x)) /\ ps[x] = Contents!Content(w.now[x])
            ELSE ps[x] = Contents!Undefined
    <3> SUFFICES ASSUME NEW x \in {"tex", "font"}
                 PROVE  IF Contents!Exists(w, x)
                        THEN ImageOf(w.now[x], LevelsOf(x)) /\ ps[x] = Contents!Content(w.now[x])
                        ELSE ps[x] = Contents!Undefined
      OBVIOUS
    <3>1. CASE x = t
      BY <1>4, <1>7, <2>1, <3>1
    <3>2. CASE x # t
      <4>1. w.now[x] = v.now[x] /\ ps[x] = pics[x]
        BY <1>6, <2>1, <3>2
      <4> QED
        BY <1>0, <4>1 DEF ImagesAre, Contents!Exists
    <3> QED
      BY <3>1, <3>2
  <2>3. ImagesAre(w, ps)
    BY <2>1, <2>2 DEF ImagesAre
  <2> QED
    BY <2>3 DEF ps
<1>12. ObjectsAre(w, objs)
  BY <1>0, <1>2, <1>5 DEF ObjectsAre
<1>13. UpdatedAre(w)
  BY <1>0, <1>2 DEF UpdatedAre, UpdatedFor, CamerasAre, LightsAre
<1> QED
  BY <1>1, <1>7, <1>8, <1>9, <1>10, <1>11, <1>12, <1>13 DEF w, BackendIs

-----------------------------------------------------------------------------
(* write_to_buffer(), set_buffer_capacity() *)

LEMMA BufferWritten ==
    ASSUME NEW v, NEW pics, NEW objs, BackendIs(v, pics, objs),
           NEW o \in Contents!Objects, NEW x \in Nat
    PROVE  BackendIs(Contents!WriteBuffer(v, o, x), pics, [objs EXCEPT ![o] = x])
<1> DEFINE w == Contents!WriteBuffer(v, o, x)
           v1 == [v EXCEPT !.sizes[o] = x]
           v2 == [v1 EXCEPT !.now.buffers = Contents!CopyToAll(v, o, x)]
           v3 == [v2 EXCEPT !.recorded = @ \cup {o}]
           B == v.now.buffers
<1>0. Shape(v) /\ FramesAre(v) /\ SetsAre(v) /\ TexSetsAre(v)
      /\ ImagesAre(v, pics) /\ ObjectsAre(v, objs) /\ UpdatedAre(v)
  BY DEF BackendIs
<1>1. w = IF x = 0 THEN v1 ELSE v3
  BY DEF Contents!WriteBuffer
<1>2. /\ DOMAIN v = Fields /\ DOMAIN v.now = HeldImages /\ DOMAIN v.done = HeldImages
      /\ DOMAIN B = Contents!Objects /\ DOMAIN v.done.buffers = Contents!Objects
      /\ DOMAIN v.sizes = Contents!Objects /\ DOMAIN v.flight = Contents!AllFrames
      /\ v.lost = {}
  BY <1>0 DEF Shape
<1> HIDE DEF w
<1>3. DOMAIN v1 = Fields /\ v1.sizes = [v.sizes EXCEPT ![o] = x]
      /\ \A f \in Fields \ {"sizes"} : v1[f] = v[f]
  BY <1>2 DEF Fields
<1> HIDE DEF v1
<1>4. DOMAIN v2 = Fields /\ v2.now = [v1.now EXCEPT !.buffers = Contents!CopyToAll(v, o, x)]
      /\ \A f \in Fields \ {"now"} : v2[f] = v1[f]
  BY <1>3 DEF Fields
<1> HIDE DEF v2
<1>5. DOMAIN v3 = Fields /\ \A f \in Fields \ {"recorded"} : v3[f] = v2[f]
  BY <1>4 DEF Fields
<1> HIDE DEF v3
<1>6. DOMAIN w = Fields /\ \A f \in Fields \ {"sizes", "now", "recorded"} : w[f] = v[f]
  BY <1>1, <1>3, <1>4, <1>5
<1>7. v1.now = v.now /\ v2.sizes = v1.sizes /\ v3.now = v2.now /\ v3.sizes = v2.sizes
  BY <1>3, <1>4, <1>5 DEF Fields
<1>8. w.sizes = [v.sizes EXCEPT ![o] = x]
  BY <1>1, <1>3, <1>7
<1>9. x = 0 => w.now = v.now
  BY <1>1, <1>7
<1>10. x # 0 => w.now = [v.now EXCEPT !.buffers = Contents!CopyToAll(v, o, x)]
  BY <1>1, <1>4, <1>7
<1>11. DOMAIN w.now = HeldImages /\ w.now.tex = v.now.tex /\ w.now.font = v.now.font
       /\ w.now.maps = v.now.maps /\ w.now.cubes = v.now.cubes
  BY <1>2, <1>9, <1>10 DEF HeldImages
<1>12. x # 0 => w.now.buffers = [B EXCEPT ![o] = [i \in DOMAIN B[o] |-> x]]
  BY <1>2, <1>10 DEF HeldImages, Contents!CopyToAll
<1>13. /\ w.n = v.n /\ w.cur = v.cur /\ w.ubo = v.ubo /\ w.done = v.done
       /\ w.recreate = v.recreate /\ w.extent = v.extent /\ w.fbs = v.fbs
       /\ w.camera_updated = v.camera_updated /\ w.lighting_updated = v.lighting_updated
       /\ w.tex_sets = v.tex_sets /\ w.light_sets = v.light_sets
       /\ w.flight = v.flight /\ w.lost = v.lost
  BY <1>6 DEF Fields
<1> HIDE DEF B
<1>14. /\ DOMAIN w.now.buffers = Contents!Objects
       /\ \A p \in Contents!Objects \ {o} : w.now.buffers[p] = B[p]
       /\ DOMAIN w.now.buffers[o] = DOMAIN B[o]
       /\ x # 0 => \A i \in DOMAIN B[o] : w.now.buffers[o][i] = x
  <2>1. CASE x = 0
    BY <1>2, <1>9, <2>1 DEF B
  <2>2. CASE x # 0
    <3> DEFINE c == [i \in DOMAIN B[o] |-> x]
    <3>1. w.now.buffers = [B EXCEPT ![o] = c] /\ DOMAIN B = Contents!Objects
      BY <1>2, <1>12, <2>2 DEF B
    <3>2. DOMAIN c = DOMAIN B[o] /\ \A i \in DOMAIN B[o] : c[i] = x
      OBVIOUS
    <3> HIDE DEF c
    <3>3. /\ DOMAIN w.now.buffers = Contents!Objects /\ w.now.buffers[o] = c
          /\ \A p \in Contents!Objects \ {o} : w.now.buffers[p] = B[p]
      BY <3>1
    <3> QED
      BY <3>2, <3>3
  <2> QED
    BY <2>1, <2>2
<1>15. DOMAIN w.sizes = Contents!Objects /\ w.sizes[o] = x
       /\ \A p \in Contents!Objects \ {o} : w.sizes[p] = v.sizes[p]
  BY <1>2, <1>8
<1>16. Shape(w)
  BY <1>2, <1>6, <1>11, <1>13, <1>14, <1>15 DEF Shape
<1>17. FramesAre(w)
  BY <1>0, <1>11, <1>13 DEF FramesAre
<1>18. SetsAre(w)
  BY <1>0, <1>13 DEF SetsAre
<1>19. \A t \in {"tex", "font"} : w.now[t] = v.now[t]
  BY <1>11
<1>20. TexSetsAre(w)
  BY <1>0, <1>13, <1>19 DEF TexSetsAre, Contents!Exists
<1>21. ImagesAre(w, pics)
  BY <1>0, <1>19 DEF ImagesAre, Contents!Exists
<1>22. ObjectsAre(w, [objs EXCEPT ![o] = x])
  <2> DEFINE q == [objs EXCEPT ![o] = x]
  <2>1. DOMAIN q = Contents!Objects /\ q[o] = x /\ \A p \in Contents!Objects \ {o} : q[p] = objs[p]
    BY <1>0 DEF ObjectsAre
  <2> HIDE DEF q
  <2>2. \A p \in Contents!Objects :
            /\ v.sizes[p] = objs[p] /\ objs[p] \in Nat
            /\ DOMAIN B[p] = 0..(v.n - 1)
            /\ objs[p] # 0 => \A i \in 0..(v.n - 1) : B[p][i] = objs[p]
    BY <1>0 DEF ObjectsAre, B
  <2>3. \A p \in Contents!Objects :
            /\ w.sizes[p] = q[p] /\ q[p] \in Nat
            /\ DOMAIN w.now.buffers[p] = 0..(w.n - 1)
            /\ q[p] # 0 => \A i \in 0..(w.n - 1) : w.now.buffers[p][i] = q[p]
    <3> SUFFICES ASSUME NEW p \in Contents!Objects
                 PROVE  /\ w.sizes[p] = q[p] /\ q[p] \in Nat
                        /\ DOMAIN w.now.buffers[p] = 0..(w.n - 1)
                        /\ q[p] # 0 => \A i \in 0..(w.n - 1) : w.now.buffers[p][i] = q[p]
      OBVIOUS
    <3>1. CASE p = o
      BY <1>13, <1>14, <1>15, <2>1, <2>2, <3>1
    <3>2. CASE p # o
      BY <1>13, <1>14, <1>15, <2>1, <2>2, <3>2
    <3> QED
      BY <3>1, <3>2
  <2>4. ObjectsAre(w, q)
    BY <2>1, <2>3 DEF ObjectsAre
  <2> QED
    BY <2>4 DEF q
<1>23. UpdatedAre(w)
  BY <1>0, <1>13 DEF UpdatedAre, UpdatedFor, CamerasAre, LightsAre
<1> QED
  BY <1>16, <1>17, <1>18, <1>20, <1>21, <1>22, <1>23 DEF w, BackendIs

LEMMA CapacitySet ==
    ASSUME NEW v, NEW pics, NEW objs, BackendIs(v, pics, objs),
           NEW o \in Contents!Objects, objs[o] = 0, o \notin Contents!Used(v)
    PROVE  BackendIs(Contents!SetCapacity(v, o), pics, objs)
<1> DEFINE w == Contents!SetCapacity(v, o)
           B == v.now.buffers
           none == [i \in DOMAIN B[o] |-> 0]
           v1 == [v EXCEPT !.lost = @ \cup ({o} \cap Contents!Used(v))]
           v2 == [v1 EXCEPT !.now.buffers[o] = none]
           v3 == [v2 EXCEPT !.done.buffers[o] = none]
<1>0. Shape(v) /\ FramesAre(v) /\ SetsAre(v) /\ TexSetsAre(v)
      /\ ImagesAre(v, pics) /\ ObjectsAre(v, objs) /\ UpdatedAre(v)
  BY DEF BackendIs
<1>1. w = v3
  BY DEF Contents!SetCapacity
<1>2. /\ DOMAIN v = Fields /\ DOMAIN v.now = HeldImages /\ DOMAIN v.done = HeldImages
      /\ DOMAIN B = Contents!Objects /\ DOMAIN v.done.buffers = Contents!Objects
      /\ DOMAIN v.sizes = Contents!Objects /\ DOMAIN v.flight = Contents!AllFrames
      /\ v.lost = {}
  BY <1>0 DEF Shape
<1>24. DOMAIN none = DOMAIN B[o]
  OBVIOUS
<1> HIDE DEF w, none
<1>3. DOMAIN v1 = Fields /\ v1.lost = v.lost \cup ({o} \cap Contents!Used(v))
      /\ \A f \in Fields \ {"lost"} : v1[f] = v[f]
  BY <1>2 DEF Fields
<1> HIDE DEF v1
<1>4. DOMAIN v2 = Fields /\ v2.now = [v1.now EXCEPT !.buffers[o] = none]
      /\ \A f \in Fields \ {"now"} : v2[f] = v1[f]
  BY <1>3 DEF Fields
<1> HIDE DEF v2
<1>5. DOMAIN v3 = Fields /\ v3.done = [v2.done EXCEPT !.buffers[o] = none]
      /\ \A f \in Fields \ {"done"} : v3[f] = v2[f]
  BY <1>4 DEF Fields
<1> HIDE DEF v3
<1>6. DOMAIN w = Fields /\ \A f \in Fields \ {"lost", "now", "done"} : w[f] = v[f]
  BY <1>1, <1>3, <1>4, <1>5
<1>7. v1.now = v.now /\ v1.done = v.done /\ v2.done = v1.done /\ v3.now = v2.now
      /\ v2.lost = v1.lost /\ v3.lost = v2.lost
  BY <1>3, <1>4, <1>5 DEF Fields
<1>8. w.now = [v.now EXCEPT !.buffers[o] = none] /\ w.done = [v.done EXCEPT !.buffers[o] = none]
  BY <1>1, <1>4, <1>5, <1>7
<1>9. w.lost = {}
  <2>1. {o} \cap Contents!Used(v) = {}
    OBVIOUS
  <2> QED
    BY <1>1, <1>2, <1>3, <1>7, <2>1
<1>11. DOMAIN w.now = HeldImages /\ w.now.tex = v.now.tex /\ w.now.font = v.now.font
       /\ w.now.maps = v.now.maps /\ w.now.cubes = v.now.cubes
       /\ w.now.buffers = [B EXCEPT ![o] = none]
  BY <1>2, <1>8 DEF HeldImages
<1>12. DOMAIN w.done = HeldImages /\ DOMAIN w.done.buffers = Contents!Objects
  BY <1>2, <1>8 DEF HeldImages
<1>13. /\ w.n = v.n /\ w.cur = v.cur /\ w.ubo = v.ubo /\ w.sizes = v.sizes
       /\ w.recreate = v.recreate /\ w.extent = v.extent /\ w.fbs = v.fbs
       /\ w.camera_updated = v.camera_updated /\ w.lighting_updated = v.lighting_updated
       /\ w.tex_sets = v.tex_sets /\ w.light_sets = v.light_sets
       /\ w.flight = v.flight
  BY <1>6 DEF Fields
<1> HIDE DEF B
<1>14. /\ DOMAIN w.now.buffers = Contents!Objects
       /\ \A p \in Contents!Objects \ {o} : w.now.buffers[p] = B[p]
       /\ DOMAIN w.now.buffers[o] = DOMAIN B[o]
  BY <1>2, <1>11, <1>24
<1>16. Shape(w)
  BY <1>2, <1>6, <1>9, <1>11, <1>12, <1>13, <1>14 DEF Shape
<1>17. FramesAre(w)
  BY <1>0, <1>11, <1>13 DEF FramesAre
<1>18. SetsAre(w)
  BY <1>0, <1>13 DEF SetsAre
<1>19. \A t \in {"tex", "font"} : w.now[t] = v.now[t]
  BY <1>11
<1>20. TexSetsAre(w)
  BY <1>0, <1>13, <1>19 DEF TexSetsAre, Contents!Exists
<1>21. ImagesAre(w, pics)
  BY <1>0, <1>19 DEF ImagesAre, Contents!Exists
<1>22. ObjectsAre(w, objs)
  <2>2. \A p \in Contents!Objects :
            /\ v.sizes[p] = objs[p] /\ objs[p] \in Nat
            /\ DOMAIN B[p] = 0..(v.n - 1)
            /\ objs[p] # 0 => \A i \in 0..(v.n - 1) : B[p][i] = objs[p]
    BY <1>0 DEF ObjectsAre, B
  <2>3. \A p \in Contents!Objects :
            /\ w.sizes[p] = objs[p] /\ objs[p] \in Nat
            /\ DOMAIN w.now.buffers[p] = 0..(w.n - 1)
            /\ objs[p] # 0 => \A i \in 0..(w.n - 1) : w.now.buffers[p][i] = objs[p]
    <3> SUFFICES ASSUME NEW p \in Contents!Objects
                 PROVE  /\ w.sizes[p] = objs[p] /\ objs[p] \in Nat
                        /\ DOMAIN w.now.buffers[p] = 0..(w.n - 1)
                        /\ objs[p] # 0 => \A i \in 0..(w.n - 1) : w.now.buffers[p][i] = objs[p]
      OBVIOUS
    <3>1. CASE p = o
      BY <1>13, <1>14, <2>2, <3>1
    <3>2. CASE p # o
      BY <1>13, <1>14, <2>2, <3>2
    <3> QED
      BY <3>1, <3>2
  <2>4. DOMAIN objs = Contents!Objects
    BY <1>0 DEF ObjectsAre
  <2> QED
    BY <2>3, <2>4 DEF ObjectsAre
<1>23. UpdatedAre(w)
  BY <1>0, <1>13 DEF UpdatedAre, UpdatedFor, CamerasAre, LightsAre
<1> QED
  BY <1>16, <1>17, <1>18, <1>20, <1>21, <1>22, <1>23 DEF w, BackendIs

-----------------------------------------------------------------------------
(* set_n_frames(), recreate_swapchain() *)

(* The number of frames depends on what is held, the rest is written.      *)
HeldAre(v, pics, objs) ==
    /\ Shape(v) /\ ImagesAre(v, pics)
    /\ DOMAIN objs = Contents!Objects /\ \A o \in Contents!Objects : v.sizes[o] = 0 /\ objs[o] = 0

LayersMade(v, w, t, b) ==
    /\ Shape(w) /\ w.recreate = TRUE /\ Contents!Used(w) = Contents!Used(v) \cup {t}
    /\ w.n = v.n /\ w.cur = v.cur /\ w.ubo = v.ubo /\ w.sizes = v.sizes
    /\ w.now = [v.now EXCEPT ![t] = b]

LEMMA LayersMadeIs ==
    ASSUME NEW v, Shape(v), NEW t \in {"maps", "cubes"}, t \notin Contents!Used(v), NEW b
    PROVE  LayersMade(v, [Contents!Record(Contents!Create(v, t, b), t, b) EXCEPT !.recreate = TRUE], t, b)
<1> DEFINE c == Contents!Create(v, t, b)
           r == Contents!Record(c, t, b)
           w == [r EXCEPT !.recreate = TRUE]
<1>1. Created(v, c, t, b)
  <2>1. t \in {"tex", "font", "maps", "cubes"} /\ t \notin Contents!Used(v)
    OBVIOUS
  <2> QED
    BY <2>1, CreateIs
<1> HIDE DEF c
<1>2. Shape(c) /\ c.now = [v.now EXCEPT ![t] = b]
      /\ \A f \in Fields \ {"tex_sets", "light_sets", "fbs", "now", "done"} : c[f] = v[f]
  BY <1>1 DEF Created
<1>3. /\ Shape(r)
      /\ \A f \in Fields \ {"now", "recorded"} : r[f] = c[f]
      /\ r.now = [c.now EXCEPT ![t] = b]
      /\ Contents!Used(r) = Contents!Used(c) \cup {t}
  <2>1. t \in {"tex", "font", "maps", "cubes"}
    OBVIOUS
  <2> QED
    BY <1>2, <2>1, RecordIs
<1> HIDE DEF r
<1>4. Contents!Used(c) = Contents!Used(v)
  <2>1. c.recorded = v.recorded /\ c.flight = v.flight
    BY <1>2 DEF Fields
  <2> QED
    BY <2>1 DEF Contents!Used
<1>5. DOMAIN r = Fields
  BY <1>3 DEF Shape
<1>6. w.recreate = TRUE /\ DOMAIN w = Fields /\ \A f \in Fields \ {"recreate"} : w[f] = r[f]
  BY <1>5 DEF Fields
<1> HIDE DEF w
<1>7. /\ w.n = v.n /\ w.cur = v.cur /\ w.ubo = v.ubo /\ w.sizes = v.sizes
      /\ w.now = r.now /\ w.done = r.done /\ w.flight = r.flight /\ w.lost = r.lost
      /\ w.sizes = r.sizes /\ w.recorded = r.recorded
  BY <1>2, <1>3, <1>6 DEF Fields
<1>8. w.now = [v.now EXCEPT ![t] = b]
  BY <1>2, <1>3, <1>7
<1>9. Shape(w)
  BY <1>3, <1>6, <1>7 DEF Shape
<1>10. Contents!Used(w) = Contents!Used(r)
  BY <1>7 DEF Contents!Used
<1>11. LayersMade(v, w, t, b)
  BY <1>3, <1>4, <1>6, <1>7, <1>8, <1>9, <1>10 DEF LayersMade
<1> QED
  BY <1>11 DEF w, r, c

(* What of the back end remains, with another number of frames. *)
Emptied(b, n) ==
    [Contents!Reset(Contents!Idle(b)) EXCEPT !.n = n, !.cur = 0, !.ubo = [r \in Contents!Regions(n) |-> Contents!Unwritten]]

LEMMA EmptiedIs ==
    ASSUME NEW b, Shape(b), b.done = b.now, NEW n \in DrawnCounts
    PROVE  /\ Shape(Emptied(b, n)) /\ Contents!Used(Emptied(b, n)) = {}
           /\ Emptied(b, n).now = b.now /\ Emptied(b, n).sizes = b.sizes
           /\ Emptied(b, n).n = n /\ Emptied(b, n).cur = 0
           /\ Emptied(b, n).ubo = [r \in Contents!Regions(n) |-> Contents!Unwritten]
<1> DEFINE u == [r \in Contents!Regions(n) |-> Contents!Unwritten]
           i == Contents!Idle(b)
           r == Contents!Reset(i)
           w == Emptied(b, n)
<1>1. /\ DOMAIN b = Fields /\ DOMAIN b.now = HeldImages /\ DOMAIN b.done = HeldImages
      /\ DOMAIN b.now.buffers = Contents!Objects /\ DOMAIN b.done.buffers = Contents!Objects
      /\ DOMAIN b.sizes = Contents!Objects /\ DOMAIN b.flight = Contents!AllFrames
      /\ b.lost = {}
  BY DEF Shape
<1>2. w = [r EXCEPT !.n = n, !.cur = 0, !.ubo = u]
  BY DEF Emptied
<1>3. DOMAIN i = Fields /\ i.flight = [f \in Contents!AllFrames |-> {}]
      /\ \A f \in Fields \ {"flight"} : i[f] = b[f]
  BY <1>1 DEF Contents!Idle, Fields
<1> HIDE DEF i, w, u
<1>4. DOMAIN r = Fields /\ r.now = i.done /\ r.recorded = {}
      /\ \A f \in Fields \ {"now", "recorded"} : r[f] = i[f]
  BY <1>3 DEF Contents!Reset, Fields
<1> HIDE DEF r
<1>5. DOMAIN w = Fields /\ w.n = n /\ w.cur = 0 /\ w.ubo = u
      /\ \A f \in Fields \ {"n", "cur", "ubo"} : w[f] = r[f]
  BY <1>2, <1>4 DEF Fields
<1>6. /\ i.done = b.done /\ i.now = b.now /\ i.sizes = b.sizes /\ i.lost = b.lost
      /\ r.done = i.done /\ r.sizes = i.sizes /\ r.lost = i.lost /\ r.flight = i.flight
      /\ w.done = r.done /\ w.sizes = r.sizes /\ w.lost = r.lost /\ w.flight = r.flight
      /\ w.now = r.now /\ w.recorded = r.recorded
  BY <1>3, <1>4, <1>5 DEF Fields
<1>7. w.now = b.now
  BY <1>4, <1>6
<1>8. w.flight = [f \in Contents!AllFrames |-> {}] /\ w.recorded = {} /\ w.lost = {} /\ w.done = b.done
      /\ w.sizes = b.sizes
  BY <1>1, <1>3, <1>4, <1>6
<1>9. Shape(w)
  BY <1>1, <1>5, <1>7, <1>8 DEF Shape
<1>10. Contents!Used(w) = {}
  BY <1>8 DEF Contents!Used
<1> QED
  BY <1>5, <1>7, <1>8, <1>9, <1>10 DEF w, u

WithLayers(x) == Contents!WriteLightSets(Contents!WriteTexSets(Contents!SetCubeSize(Contents!SetMapSize(x))))
FramesMade(b, n) == Contents!NewBuffers([WithLayers(Emptied(b, n)) EXCEPT !.ubo[Contents!offset_lights(n, n)] = Contents!NoLights])

LEMMA WithLayersIs ==
    ASSUME NEW x, Shape(x), Contents!Used(x) = {}, x.n \in DrawnCounts
    PROVE  /\ Shape(WithLayers(x)) /\ WithLayers(x).recreate = TRUE
           /\ Contents!Used(WithLayers(x)) = {"maps", "cubes"}
           /\ WithLayers(x).n = x.n /\ WithLayers(x).cur = x.cur
           /\ WithLayers(x).ubo = x.ubo /\ WithLayers(x).sizes = x.sizes
           /\ \A t \in {"tex", "font", "buffers"} : WithLayers(x).now[t] = x.now[t]
           /\ DOMAIN WithLayers(x).now.maps = 0..(x.n * MaxLights - 1)
           /\ DOMAIN WithLayers(x).now.cubes = 0..(x.n * 6 * MaxLights - 1)
           /\ SetsAre(WithLayers(x)) /\ TexSetsAre(WithLayers(x))
<1> DEFINE a == [l \in 0..(x.n * MaxLights - 1) |-> Contents!Undefined]
           m == Contents!SetMapSize(x)
           b == [l \in 0..(m.n * 6 * MaxLights - 1) |-> Contents!Undefined]
           c == Contents!SetCubeSize(m)
           t == Contents!WriteTexSets(c)
           w == WithLayers(x)
<1>1. m = [Contents!Record(Contents!Create(x, "maps", a), "maps", a) EXCEPT !.recreate = TRUE]
  BY DEF Contents!SetMapSize
<1>2. DOMAIN a = 0..(x.n * MaxLights - 1)
  OBVIOUS
<1> HIDE DEF a
<1>3. c = [Contents!Record(Contents!Create(m, "cubes", b), "cubes", b) EXCEPT !.recreate = TRUE]
  BY DEF Contents!SetCubeSize
<1>4. DOMAIN b = 0..(m.n * 6 * MaxLights - 1)
  OBVIOUS
<1> HIDE DEF b
<1>5. w = Contents!WriteLightSets(t)
  BY DEF WithLayers
<1> HIDE DEF c, m, w
<1>6. LayersMade(x, m, "maps", a)
  <2>1. "maps" \in {"maps", "cubes"} /\ "maps" \notin Contents!Used(x)
    OBVIOUS
  <2> QED
    BY <1>1, <2>1, LayersMadeIs
<1>7. Shape(m) /\ Contents!Used(m) = {"maps"} /\ m.n = x.n /\ m.cur = x.cur
      /\ m.ubo = x.ubo /\ m.sizes = x.sizes /\ m.now = [x.now EXCEPT !.maps = a]
  BY <1>6 DEF LayersMade
<1>8. LayersMade(m, c, "cubes", b)
  <2>1. "cubes" \in {"maps", "cubes"} /\ "cubes" \notin Contents!Used(m)
    BY <1>7
  <2> QED
    BY <1>3, <1>7, <2>1, LayersMadeIs
<1>9. Shape(c) /\ Contents!Used(c) = {"maps", "cubes"} /\ c.n = x.n /\ c.cur = x.cur
      /\ c.ubo = x.ubo /\ c.sizes = x.sizes /\ c.now = [m.now EXCEPT !.cubes = b]
      /\ c.recreate = TRUE
  BY <1>7, <1>8 DEF LayersMade
<1>10. Shape(t) /\ TexSetsAre(t) /\ Contents!Used(t) = Contents!Used(c)
       /\ \A f \in Fields \ {"tex_sets"} : t[f] = c[f]
  <2>1. "tex_sets" \notin Contents!Used(c)
    BY <1>9
  <2> QED
    BY <1>9, <2>1, WriteTexSetsIs
<1> HIDE DEF t
<1>11. DOMAIN t = Fields
  BY <1>10 DEF Shape
<1>12. t.n = x.n /\ t.cur = x.cur /\ t.ubo = x.ubo /\ t.sizes = x.sizes /\ t.now = c.now
       /\ t.recreate = TRUE
  BY <1>9, <1>10 DEF Fields
<1> DEFINE S == [i \in 0..t.n |-> [region |-> Contents!offset_lights(t.n, i), frame |-> i % t.n,
                    maps |-> "maps", cubes |-> "cubes"]]
<1>13. w = [t EXCEPT !.light_sets = S]
  BY <1>5 DEF Contents!WriteLightSets
<1>14. DOMAIN S = 0..t.n /\ \A i \in 0..t.n : SetIs(S[i], t.n, i)
  BY DEF SetIs
<1> HIDE DEF S
<1>15. DOMAIN w = Fields /\ w.light_sets = S /\ \A f \in Fields \ {"light_sets"} : w[f] = t[f]
  BY <1>11, <1>13 DEF Fields
<1>16. /\ w.n = x.n /\ w.cur = x.cur /\ w.ubo = x.ubo /\ w.sizes = x.sizes /\ w.now = c.now
       /\ w.recreate = TRUE
  BY <1>12, <1>15 DEF Fields
<1>17. w.done = t.done /\ w.flight = t.flight /\ w.lost = t.lost /\ w.now = t.now
       /\ w.sizes = t.sizes /\ w.recorded = t.recorded /\ w.tex_sets = t.tex_sets /\ w.n = t.n
  BY <1>15 DEF Fields
<1>18. Shape(w)
  BY <1>10, <1>15, <1>17 DEF Shape
<1>19. Contents!Used(w) = {"maps", "cubes"}
  BY <1>9, <1>10, <1>17 DEF Contents!Used
<1>20. SetsAre(w)
  BY <1>14, <1>15, <1>17 DEF SetsAre
<1>21. TexSetsAre(w)
  BY <1>10, <1>17 DEF TexSetsAre, Contents!Exists
<1>22. DOMAIN x.now = HeldImages
  BY DEF Shape
<1>23. DOMAIN m.now = HeldImages /\ m.now.maps = a /\ \A g \in HeldImages \ {"maps"} : m.now[g] = x.now[g]
  BY <1>7, <1>22 DEF HeldImages
<1>24. c.now.cubes = b /\ \A g \in HeldImages \ {"cubes"} : c.now[g] = m.now[g]
  BY <1>9, <1>23 DEF HeldImages
<1>25. w.now.maps = a /\ w.now.cubes = b
       /\ \A g \in {"tex", "font", "buffers"} : w.now[g] = x.now[g]
  BY <1>16, <1>23, <1>24 DEF HeldImages
<1> QED
  BY <1>2, <1>4, <1>7, <1>16, <1>18, <1>19, <1>20, <1>21, <1>25 DEF w

LEMMA FramesMadeIs ==
    ASSUME NEW b, NEW pics, NEW objs, HeldAre(b, pics, objs), b.done = b.now,
           NEW n \in DrawnCounts
    PROVE  /\ BackendIs(FramesMade(b, n), pics, objs)
           /\ FramesMade(b, n).recreate = TRUE
           /\ Contents!Used(FramesMade(b, n)) = {"maps", "cubes"}
<1> DEFINE x == Emptied(b, n)
           y == WithLayers(x)
           z == [y EXCEPT !.ubo[Contents!offset_lights(n, n)] = Contents!NoLights]
           w == FramesMade(b, n)
           B == [o \in Contents!Objects |-> [i \in 0..(z.n - 1) |-> 0]]
<1>0. Shape(b) /\ ImagesAre(b, pics) /\ DOMAIN objs = Contents!Objects
      /\ \A o \in Contents!Objects : b.sizes[o] = 0 /\ objs[o] = 0
  BY DEF HeldAre
<1>1. /\ Shape(x) /\ Contents!Used(x) = {} /\ x.now = b.now /\ x.sizes = b.sizes
      /\ x.n = n /\ x.cur = 0 /\ x.ubo = [r \in Contents!Regions(n) |-> Contents!Unwritten]
  BY <1>0, EmptiedIs
<1>2. w = [z EXCEPT !.now.buffers = B, !.done.buffers = B]
  BY DEF FramesMade, Contents!NewBuffers
<1> HIDE DEF x
<1>3. /\ Shape(y) /\ y.recreate = TRUE /\ Contents!Used(y) = {"maps", "cubes"}
      /\ y.n = n /\ y.cur = 0 /\ y.ubo = x.ubo /\ y.sizes = b.sizes
      /\ \A t \in {"tex", "font", "buffers"} : y.now[t] = b.now[t]
      /\ DOMAIN y.now.maps = 0..(n * MaxLights - 1)
      /\ DOMAIN y.now.cubes = 0..(n * 6 * MaxLights - 1)
      /\ SetsAre(y) /\ TexSetsAre(y)
  <2> HIDE DEF y
  <2>1. x.n \in DrawnCounts
    BY <1>1
  <2>2. y = WithLayers(x)
    BY DEF y
  <2>3. /\ Shape(y) /\ y.recreate = TRUE /\ Contents!Used(y) = {"maps", "cubes"}
        /\ y.n = x.n /\ y.cur = x.cur /\ y.ubo = x.ubo /\ y.sizes = x.sizes
        /\ (\A t \in {"tex", "font", "buffers"} : y.now[t] = x.now[t])
        /\ DOMAIN y.now.maps = 0..(x.n * MaxLights - 1)
        /\ DOMAIN y.now.cubes = 0..(x.n * 6 * MaxLights - 1)
        /\ SetsAre(y) /\ TexSetsAre(y)
    BY <1>1, <2>1, <2>2, WithLayersIs
  <2> QED
    BY <1>1, <2>3
<1> HIDE DEF y, w
<1>4. DOMAIN y = Fields /\ DOMAIN y.now = HeldImages /\ DOMAIN y.done = HeldImages
      /\ DOMAIN y.now.buffers = Contents!Objects /\ DOMAIN y.done.buffers = Contents!Objects
      /\ DOMAIN y.sizes = Contents!Objects /\ DOMAIN y.flight = Contents!AllFrames /\ y.lost = {}
  BY <1>3 DEF Shape
<1>5. n \in Nat \ {0} /\ 0 \in 0..(n - 1) /\ n \in 0..n
  BY VulkanGiven
<1>6. Contents!offset_lights(n, n) \in Contents!Regions(n)
  BY <1>5, RegionsOfFrame
<1>7. /\ DOMAIN z = Fields /\ z.ubo = [y.ubo EXCEPT ![Contents!offset_lights(n, n)] = Contents!NoLights]
      /\ \A f \in Fields \ {"ubo"} : z[f] = y[f]
  BY <1>4 DEF Fields
<1>8. DOMAIN z.ubo = Contents!Regions(n) /\ z.ubo[Contents!offset_lights(n, n)] = Contents!NoLights
  BY <1>1, <1>3, <1>6, <1>7
<1> HIDE DEF z
<1>9. /\ z.n = n /\ z.cur = 0 /\ z.sizes = y.sizes /\ z.now = y.now /\ z.done = y.done
      /\ z.flight = y.flight /\ z.lost = y.lost /\ z.recreate = y.recreate
      /\ z.recorded = y.recorded /\ z.tex_sets = y.tex_sets /\ z.light_sets = y.light_sets
  BY <1>3, <1>7 DEF Fields
<1>10. DOMAIN B = Contents!Objects /\ \A o \in Contents!Objects : DOMAIN B[o] = 0..(n - 1)
  BY <1>9
<1> HIDE DEF B
<1> DEFINE z1 == [z EXCEPT !.now.buffers = B]
           z2 == [z1 EXCEPT !.done.buffers = B]
<1>11. w = z2
  BY <1>2
<1>12. DOMAIN z1 = Fields /\ z1.now = [z.now EXCEPT !.buffers = B]
       /\ \A f \in Fields \ {"now"} : z1[f] = z[f]
  BY <1>7 DEF Fields
<1> HIDE DEF z1
<1>13. DOMAIN z2 = Fields /\ z2.done = [z1.done EXCEPT !.buffers = B]
       /\ \A f \in Fields \ {"done"} : z2[f] = z1[f]
  BY <1>12 DEF Fields
<1> HIDE DEF z2
<1>14. DOMAIN w = Fields /\ \A f \in Fields \ {"now", "done"} : w[f] = z[f]
  BY <1>11, <1>12, <1>13
<1>15. w.now = [y.now EXCEPT !.buffers = B] /\ w.done = [y.done EXCEPT !.buffers = B]
  <2>1. z2.now = z1.now /\ z1.done = z.done
    BY <1>12, <1>13 DEF Fields
  <2> QED
    BY <1>9, <1>11, <1>12, <1>13, <2>1
<1>16. /\ w.n = n /\ w.cur = 0 /\ w.sizes = b.sizes /\ w.ubo = z.ubo
       /\ w.flight = y.flight /\ w.lost = {} /\ w.recreate = TRUE
       /\ w.recorded = y.recorded /\ w.tex_sets = y.tex_sets /\ w.light_sets = y.light_sets
  BY <1>3, <1>4, <1>9, <1>14 DEF Fields
<1>17. /\ DOMAIN w.now = HeldImages /\ DOMAIN w.done = HeldImages
       /\ w.now.buffers = B /\ w.done.buffers = B
       /\ w.now.maps = y.now.maps /\ w.now.cubes = y.now.cubes
       /\ \A t \in {"tex", "font"} : w.now[t] = b.now[t]
  BY <1>3, <1>4, <1>15 DEF HeldImages
<1>18. Shape(w)
  BY <1>0, <1>3, <1>4, <1>10, <1>14, <1>16, <1>17 DEF Shape
<1>19. FramesAre(w)
  BY <1>3, <1>5, <1>8, <1>16, <1>17 DEF FramesAre
<1>20. SetsAre(w)
  BY <1>3, <1>16 DEF SetsAre
<1>21. TexSetsAre(w)
  <2>1. \A t \in {"tex", "font"} : Contents!Exists(w, t) <=> Contents!Exists(y, t)
    BY <1>3, <1>17 DEF Contents!Exists
  <2> QED
    BY <1>3, <1>16, <2>1 DEF TexSetsAre
<1>22. ImagesAre(w, pics)
  BY <1>0, <1>17 DEF ImagesAre, Contents!Exists
<1>23. ObjectsAre(w, objs)
  BY <1>0, <1>10, <1>16, <1>17 DEF ObjectsAre
<1>24. UpdatedAre(w)
  BY <1>16 DEF UpdatedAre, UpdatedFor, CamerasAre, LightsAre
<1>25. Contents!Used(w) = {"maps", "cubes"}
  BY <1>3, <1>16 DEF Contents!Used
<1> QED
  BY <1>16, <1>18, <1>19, <1>20, <1>21, <1>22, <1>23, <1>24, <1>25 DEF w, BackendIs

LEMMA SubmittedIs ==
    ASSUME NEW v, Shape(v)
    PROVE  /\ Shape(Contents!Submitted(v)) /\ Contents!Submitted(v).done = v.now
           /\ \A f \in Fields \ {"done", "flight", "recorded"} : Contents!Submitted(v)[f] = v[f]
<1> DEFINE w == Contents!Submitted(v)
           v1 == [v EXCEPT !.done = v.now]
           v2 == [v1 EXCEPT !.flight[v.cur] = v.recorded]
           v3 == [v2 EXCEPT !.recorded = {}]
<1>1. w = v3
  BY DEF Contents!Submitted
<1>2. /\ DOMAIN v = Fields /\ DOMAIN v.now = HeldImages /\ DOMAIN v.done = HeldImages
      /\ DOMAIN v.now.buffers = Contents!Objects /\ DOMAIN v.done.buffers = Contents!Objects
      /\ DOMAIN v.sizes = Contents!Objects /\ DOMAIN v.flight = Contents!AllFrames
      /\ v.lost = {}
  BY DEF Shape
<1> HIDE DEF w
<1>3. DOMAIN v1 = Fields /\ v1.done = v.now
      /\ \A f \in Fields \ {"done"} : v1[f] = v[f]
  BY <1>2 DEF Fields
<1> HIDE DEF v1
<1>4. DOMAIN v2 = Fields /\ v2.flight = [v1.flight EXCEPT ![v.cur] = v.recorded]
      /\ \A f \in Fields \ {"flight"} : v2[f] = v1[f]
  BY <1>3 DEF Fields
<1> HIDE DEF v2
<1>5. DOMAIN v3 = Fields /\ \A f \in Fields \ {"recorded"} : v3[f] = v2[f]
  BY <1>4 DEF Fields
<1> HIDE DEF v3
<1>6. DOMAIN w = Fields /\ \A f \in Fields \ {"done", "flight", "recorded"} : w[f] = v[f]
  BY <1>1, <1>3, <1>4, <1>5
<1>7. v1.flight = v.flight /\ v2.done = v1.done /\ v3.done = v2.done /\ v3.flight = v2.flight
  BY <1>3, <1>4, <1>5 DEF Fields
<1>8. w.done = v.now /\ DOMAIN w.flight = Contents!AllFrames
  BY <1>1, <1>2, <1>3, <1>4, <1>7
<1>9. w.now = v.now /\ w.sizes = v.sizes /\ w.lost = v.lost
  BY <1>6 DEF Fields
<1>10. Shape(w)
  BY <1>2, <1>6, <1>8, <1>9 DEF Shape
<1> QED
  BY <1>6, <1>8, <1>10 DEF w

LEMMA BlankIs ==
    /\ HeldAre(Contents!Blank, [t \in {"tex", "font"} |-> Contents!Undefined], [o \in Contents!Objects |-> 0])
    /\ Contents!Blank.done = Contents!Blank.now /\ Contents!Blank.n = 0
<1>1. DOMAIN Contents!Blank = Fields
  BY DEF Contents!Blank, Fields
<1>2. /\ Contents!Blank.now = Contents!Nothing /\ Contents!Blank.done = Contents!Nothing /\ Contents!Blank.n = 0 /\ Contents!Blank.lost = {}
      /\ Contents!Blank.sizes = [o \in Contents!Objects |-> 0] /\ Contents!Blank.flight = [f \in Contents!AllFrames |-> {}]
  BY DEF Contents!Blank
<1>3. DOMAIN Contents!Nothing = HeldImages /\ DOMAIN Contents!Nothing.buffers = Contents!Objects
      /\ Contents!Nothing.tex = Contents!NoImage /\ Contents!Nothing.font = Contents!NoImage
  BY DEF Contents!Nothing, HeldImages
<1> DEFINE b == Contents!Blank
<1> HIDE DEF b
<1>4. Shape(b)
  BY <1>1, <1>2, <1>3 DEF Shape, b
<1>5. \A t \in {"tex", "font"} : ~Contents!Exists(b, t)
  BY <1>2, <1>3 DEF Contents!Exists, b
<1>6. ImagesAre(b, [t \in {"tex", "font"} |-> Contents!Undefined])
  BY <1>5 DEF ImagesAre
<1>7. HeldAre(b, [t \in {"tex", "font"} |-> Contents!Undefined], [o \in Contents!Objects |-> 0])
  BY <1>2, <1>4, <1>6 DEF HeldAre, b
<1> QED
  BY <1>2, <1>7 DEF b

LEMMA FramesSet ==
    ASSUME NEW v, NEW pics, NEW objs, BackendIs(v, pics, objs),
           \A o \in Contents!Objects : objs[o] = 0, NEW n \in DrawnCounts
    PROVE  BackendIs(Contents!SetFrames(v, n), pics, objs)
<1> DEFINE b == Contents!Submitted(v)
<1>0. Shape(v) /\ FramesAre(v) /\ ImagesAre(v, pics) /\ ObjectsAre(v, objs)
  BY DEF BackendIs
<1>1. v.n # 0
  BY <1>0, VulkanGiven DEF FramesAre
<1>2. Contents!SetFrames(v, n) = FramesMade(b, n)
  BY <1>1 DEF Contents!SetFrames, FramesMade, WithLayers, Emptied
<1>3. /\ Shape(b) /\ b.done = v.now
      /\ \A f \in Fields \ {"done", "flight", "recorded"} : b[f] = v[f]
  BY <1>0, SubmittedIs
<1> HIDE DEF b
<1>4. b.now = v.now /\ b.sizes = v.sizes
  BY <1>3 DEF Fields
<1>5. ImagesAre(b, pics)
  BY <1>0, <1>4 DEF ImagesAre, Contents!Exists
<1>6. HeldAre(b, pics, objs)
  BY <1>0, <1>3, <1>4, <1>5 DEF HeldAre, ObjectsAre
<1>7. b.done = b.now
  BY <1>3, <1>4
<1> QED
  BY <1>2, <1>6, <1>7, FramesMadeIs

LEMMA SwapChainIs ==
    ASSUME NEW v, NEW pics, NEW objs, BackendIs(v, pics, objs)
    PROVE  /\ BackendIs(Contents!SwapChain(v, size), pics, objs)
           /\ Contents!SwapChain(v, size).recreate = FALSE
           /\ Contents!Used(Contents!SwapChain(v, size)) = v.recorded
           /\ \A t \in {"tex", "font"} : Contents!Exists(Contents!SwapChain(v, size), t) <=> Contents!Exists(v, t)
<1> DEFINE a == Contents!AllUpdated(v)
           i == Contents!Idle(a)
           w == Contents!SwapChain(v, size)
           D == Contents!DepthFrameBuffers(v.n)
<1>0. Shape(v) /\ FramesAre(v) /\ SetsAre(v) /\ TexSetsAre(v)
      /\ ImagesAre(v, pics) /\ ObjectsAre(v, objs)
  BY DEF BackendIs
<1>1. /\ DOMAIN v = Fields /\ DOMAIN v.now = HeldImages /\ DOMAIN v.done = HeldImages
      /\ DOMAIN v.now.buffers = Contents!Objects /\ DOMAIN v.done.buffers = Contents!Objects
      /\ DOMAIN v.sizes = Contents!Objects /\ DOMAIN v.flight = Contents!AllFrames
      /\ v.lost = {}
  BY <1>0 DEF Shape
<1>2. w = [i EXCEPT !.recreate = FALSE, !.extent = size, !.fbs = D, !.window = Contents!Undefined]
  BY DEF Contents!SwapChain
<1>3. DOMAIN a = Fields /\ a.camera_updated = Contents!AllFrames /\ a.lighting_updated = Contents!AllFrames
      /\ \A f \in Fields \ {"camera_updated", "lighting_updated"} : a[f] = v[f]
  BY <1>1 DEF Fields, Contents!AllUpdated
<1> HIDE DEF w, a, D
<1>4. DOMAIN i = Fields /\ i.flight = [f \in Contents!AllFrames |-> {}]
      /\ \A f \in Fields \ {"flight"} : i[f] = a[f]
  BY <1>3 DEF Fields, Contents!Idle
<1> HIDE DEF i
<1>5. DOMAIN w = Fields /\ w.recreate = FALSE /\ w.extent = size /\ w.fbs = D
      /\ \A f \in Fields \ {"recreate", "extent", "fbs", "window"} : w[f] = i[f]
  BY <1>2, <1>4 DEF Fields
<1>6. /\ w.n = v.n /\ w.cur = v.cur /\ w.ubo = v.ubo /\ w.sizes = v.sizes /\ w.now = v.now
      /\ w.done = v.done /\ w.lost = v.lost /\ w.recorded = v.recorded
      /\ w.tex_sets = v.tex_sets /\ w.light_sets = v.light_sets
  BY <1>3, <1>4, <1>5 DEF Fields
<1>7. /\ w.camera_updated = Contents!AllFrames /\ w.lighting_updated = Contents!AllFrames
      /\ w.flight = [f \in Contents!AllFrames |-> {}]
  BY <1>3, <1>4, <1>5 DEF Fields
<1>8. Shape(w)
  BY <1>1, <1>5, <1>6, <1>7 DEF Shape
<1>9. FramesAre(w) /\ SetsAre(w) /\ ObjectsAre(w, objs)
  BY <1>0, <1>6 DEF FramesAre, SetsAre, ObjectsAre
<1>10. \A t \in {"tex", "font"} : Contents!Exists(w, t) <=> Contents!Exists(v, t)
  BY <1>6 DEF Contents!Exists
<1>11. TexSetsAre(w) /\ ImagesAre(w, pics)
  BY <1>0, <1>6, <1>10 DEF TexSetsAre, ImagesAre
<1>12. UpdatedAre(w)
  <2>1. \A f \in 0..(v.n - 1) : f \in Contents!AllFrames
    BY <1>0, VulkanGiven DEF FramesAre
  <2>2. LayersAre(w.fbs, w.n)
    BY <1>5, <1>6 DEF LayersAre, D, Contents!DepthFrameBuffers
  <2> QED
    BY <1>5, <1>6, <1>7, <2>1, <2>2 DEF UpdatedAre, UpdatedFor, CamerasAre, LightsAre
<1>13. Contents!Used(w) = v.recorded
  BY <1>6, <1>7 DEF Contents!Used
<1> QED
  BY <1>5, <1>8, <1>9, <1>10, <1>11, <1>12, <1>13 DEF w, BackendIs

LEMMA NextFrameIs ==
    ASSUME NEW v, NEW pics, NEW objs, BackendIs(v, pics, objs)
    PROVE  BackendIs(Contents!NextFrame(v), pics, objs) /\ Contents!NextFrame(v).window = v.window
<1> DEFINE f == (v.cur + 1) % v.n
           w == Contents!NextFrame(v)
           v1 == [v EXCEPT !.cur = f]
           v2 == [v1 EXCEPT !.flight[f] = {}]
<1>0. Shape(v) /\ FramesAre(v) /\ SetsAre(v) /\ TexSetsAre(v)
      /\ ImagesAre(v, pics) /\ ObjectsAre(v, objs) /\ UpdatedAre(v)
  BY DEF BackendIs
<1>1. /\ DOMAIN v = Fields /\ DOMAIN v.now = HeldImages /\ DOMAIN v.done = HeldImages
      /\ DOMAIN v.now.buffers = Contents!Objects /\ DOMAIN v.done.buffers = Contents!Objects
      /\ DOMAIN v.sizes = Contents!Objects /\ DOMAIN v.flight = Contents!AllFrames
      /\ v.lost = {}
  BY <1>0 DEF Shape
<1>2. w = v2
  BY DEF Contents!NextFrame
<1>3. f \in 0..(v.n - 1)
  <2>1. v.n \in Nat \ {0} /\ v.cur + 1 \in Nat
    BY <1>0, VulkanGiven DEF FramesAre
  <2> DEFINE c == v.cur + 1
  <2> HIDE DEF c
  <2>2. c % v.n \in 0..(v.n - 1)
    BY <2>1 DEF c
  <2> QED
    BY <2>2 DEF c
<1> HIDE DEF w, f
<1>4. DOMAIN v1 = Fields /\ v1.cur = f /\ \A g \in Fields \ {"cur"} : v1[g] = v[g]
  BY <1>1 DEF Fields
<1> HIDE DEF v1
<1>5. DOMAIN v2 = Fields /\ v2.flight = [v1.flight EXCEPT ![f] = {}]
      /\ \A g \in Fields \ {"flight"} : v2[g] = v1[g]
  BY <1>4 DEF Fields
<1> HIDE DEF v2
<1>6. DOMAIN w = Fields /\ w.cur = f /\ \A g \in Fields \ {"cur", "flight"} : w[g] = v[g]
  BY <1>2, <1>4, <1>5 DEF Fields
<1>7. DOMAIN w.flight = Contents!AllFrames
  BY <1>1, <1>2, <1>4, <1>5 DEF Fields
<1>8. /\ w.n = v.n /\ w.ubo = v.ubo /\ w.sizes = v.sizes /\ w.now = v.now
      /\ w.done = v.done /\ w.lost = v.lost /\ w.recorded = v.recorded
      /\ w.tex_sets = v.tex_sets /\ w.light_sets = v.light_sets /\ w.fbs = v.fbs
      /\ w.recreate = v.recreate /\ w.extent = v.extent /\ w.window = v.window
      /\ w.camera_updated = v.camera_updated /\ w.lighting_updated = v.lighting_updated
  BY <1>6 DEF Fields
<1>9. Shape(w)
  BY <1>1, <1>6, <1>7, <1>8 DEF Shape
<1>10. FramesAre(w)
  BY <1>0, <1>3, <1>6, <1>8 DEF FramesAre
<1>11. SetsAre(w) /\ ObjectsAre(w, objs)
  BY <1>0, <1>8 DEF SetsAre, ObjectsAre
<1>12. TexSetsAre(w) /\ ImagesAre(w, pics)
  BY <1>0, <1>8 DEF TexSetsAre, ImagesAre, Contents!Exists
<1>13. UpdatedAre(w)
  BY <1>0, <1>8 DEF UpdatedAre, UpdatedFor, CamerasAre, LightsAre
<1> QED
  BY <1>8, <1>9, <1>10, <1>11, <1>12, <1>13 DEF w, BackendIs

-----------------------------------------------------------------------------
(* update_camera(), update_lighting() *)

(* Only the uniform buffer is written to, except for the region of no      *)
(* lights.                                                                 *)
OnlyUniforms(v, w) ==
    /\ DOMAIN w = Fields
    /\ \A f \in Fields \ {"ubo", "camera_updated", "lighting_updated"} : w[f] = v[f]
    /\ DOMAIN w.ubo = DOMAIN v.ubo
    /\ w.ubo[Contents!offset_lights(v.n, v.n)] = v.ubo[Contents!offset_lights(v.n, v.n)]

LEMMA OnlyUniformsIs ==
    ASSUME NEW v, NEW w, NEW pics, NEW objs, BackendIs(v, pics, objs), OnlyUniforms(v, w)
    PROVE  /\ Shape(w) /\ FramesAre(w) /\ SetsAre(w) /\ TexSetsAre(w)
           /\ ImagesAre(w, pics) /\ ObjectsAre(w, objs)
           /\ w.n = v.n /\ w.cur = v.cur /\ w.recreate = v.recreate
           /\ w.extent = v.extent /\ w.fbs = v.fbs
<1>0. Shape(v) /\ FramesAre(v) /\ SetsAre(v) /\ TexSetsAre(v)
      /\ ImagesAre(v, pics) /\ ObjectsAre(v, objs)
  BY DEF BackendIs
<1>1. /\ DOMAIN w = Fields
      /\ \A f \in Fields \ {"ubo", "camera_updated", "lighting_updated"} : w[f] = v[f]
      /\ DOMAIN w.ubo = DOMAIN v.ubo
      /\ w.ubo[Contents!offset_lights(v.n, v.n)] = v.ubo[Contents!offset_lights(v.n, v.n)]
  BY DEF OnlyUniforms
<1>2. /\ w.n = v.n /\ w.cur = v.cur /\ w.sizes = v.sizes /\ w.now = v.now
      /\ w.done = v.done /\ w.lost = v.lost /\ w.flight = v.flight
      /\ w.tex_sets = v.tex_sets /\ w.light_sets = v.light_sets /\ w.fbs = v.fbs
      /\ w.recreate = v.recreate /\ w.extent = v.extent
  BY <1>1 DEF Fields
<1>3. Shape(w)
  BY <1>0, <1>1, <1>2 DEF Shape
<1>4. FramesAre(w)
  BY <1>0, <1>1, <1>2 DEF FramesAre
<1>5. SetsAre(w) /\ ObjectsAre(w, objs)
  BY <1>0, <1>2 DEF SetsAre, ObjectsAre
<1>6. TexSetsAre(w) /\ ImagesAre(w, pics)
  BY <1>0, <1>2 DEF TexSetsAre, ImagesAre, Contents!Exists
<1> QED
  BY <1>2, <1>3, <1>4, <1>5, <1>6

LEMMA LightsKept ==
    ASSUME lamps \in Lamps, NEW u, NEW w, NEW n, NEW g, LightsAre(u, n, g),
           w[Contents!offset_lights(n, g)] = u[Contents!offset_lights(n, g)],
           \A il \in 0..(7 * MaxLights - 1) : w[Contents!offset_light(g, il)] = u[Contents!offset_light(g, il)]
    PROVE  LightsAre(w, n, g)
<1>1. /\ MaxLights \in Nat \ {0}
      /\ lamps.n_dir \in 0..MaxLights /\ lamps.n_point \in 0..MaxLights
  BY VulkanGiven
<1>2. \A i \in 1..lamps.n_dir : i - 1 \in 0..(7 * MaxLights - 1)
  BY <1>1
<1>3. \A k \in 1..6 * lamps.n_point : MaxLights + k - 1 \in 0..(7 * MaxLights - 1)
  BY <1>1
<1> QED
  BY <1>2, <1>3 DEF LightsAre, LightsFor

LEMMA CameraUpdated ==
    ASSUME NEW v, NEW pics, NEW objs, BackendIs(v, pics, objs), v.recreate = FALSE,
           lamps \in Lamps
    PROVE  /\ BackendIs(Contents!update_camera(v), pics, objs)
           /\ Contents!update_camera(v).recreate = FALSE
           /\ Contents!update_camera(v).cur = v.cur
           /\ CamerasAre(Contents!update_camera(v).ubo, v.cur)
<1> DEFINE w == Contents!update_camera(v)
           n == v.n
           f == v.cur
           v1 == [v EXCEPT !.camera_updated = @ \ {f}]
           v2 == [v1 EXCEPT !.ubo[Contents!offset(f)] = Contents!World(view.v)]
           v3 == [v2 EXCEPT !.ubo[Contents!offset_screen(f)] = Contents!Screen(size)]
<1>0. Shape(v) /\ FramesAre(v) /\ UpdatedAre(v)
  BY DEF BackendIs
<1>1. w = IF f \notin v.camera_updated THEN v ELSE v3
  BY DEF Contents!update_camera
<1>2. DOMAIN v = Fields /\ n \in Nat \ {0} /\ f \in 0..(n - 1) /\ DOMAIN v.ubo = Contents!Regions(n)
  BY <1>0, VulkanGiven DEF Shape, FramesAre
<1>3. /\ v.extent = size /\ LayersAre(v.fbs, n)
      /\ \A g \in 0..(n - 1) :
            /\ g \in v.camera_updated \/ CamerasAre(v.ubo, g)
            /\ g \in v.lighting_updated \/ LightsAre(v.ubo, n, g)
  BY <1>0 DEF UpdatedAre, UpdatedFor, CamerasAre, LightsAre
<1> HIDE DEF w, n, f
<1>4. CASE f \notin v.camera_updated
  <2>1. w = v
    BY <1>1, <1>4
  <2>2. CamerasAre(v.ubo, f)
    BY <1>2, <1>3, <1>4
  <2> QED
    BY <2>1, <2>2 DEF w, f
<1>5. CASE f \in v.camera_updated
  <2>1. DOMAIN v1 = Fields /\ v1.camera_updated = v.camera_updated \ {f}
        /\ \A x \in Fields \ {"camera_updated"} : v1[x] = v[x]
    BY <1>2 DEF Fields
  <2> HIDE DEF v1
  <2>2. DOMAIN v2 = Fields /\ v2.ubo = [v1.ubo EXCEPT ![Contents!offset(f)] = Contents!World(view.v)]
        /\ \A x \in Fields \ {"ubo"} : v2[x] = v1[x]
    BY <2>1 DEF Fields
  <2> HIDE DEF v2
  <2>3. DOMAIN v3 = Fields /\ v3.ubo = [v2.ubo EXCEPT ![Contents!offset_screen(f)] = Contents!Screen(size)]
        /\ \A x \in Fields \ {"ubo"} : v3[x] = v2[x]
    BY <2>2 DEF Fields
  <2> HIDE DEF v3
  <2>4. w = v3
    BY <1>1, <1>5
  <2>5. DOMAIN w = Fields
        /\ \A x \in Fields \ {"ubo", "camera_updated", "lighting_updated"} : w[x] = v[x]
    BY <2>1, <2>2, <2>3, <2>4
  <2>6. w.camera_updated = v.camera_updated \ {f} /\ w.lighting_updated = v.lighting_updated
        /\ v1.ubo = v.ubo
    BY <2>1, <2>2, <2>3, <2>4 DEF Fields
  <2>7. Contents!offset(f) \in Contents!Regions(n) /\ Contents!offset_screen(f) \in Contents!Regions(n) /\ Contents!offset(f) # Contents!offset_screen(f)
    BY <1>2, RegionsOfFrame
  <2>8. /\ DOMAIN w.ubo = Contents!Regions(n)
        /\ w.ubo[Contents!offset(f)] = Contents!World(view.v) /\ w.ubo[Contents!offset_screen(f)] = Contents!Screen(size)
        /\ \A r \in Contents!Regions(n) \ {Contents!offset(f), Contents!offset_screen(f)} : w.ubo[r] = v.ubo[r]
    <3>1. DOMAIN v2.ubo = Contents!Regions(n) /\ v2.ubo[Contents!offset(f)] = Contents!World(view.v)
          /\ \A r \in Contents!Regions(n) \ {Contents!offset(f)} : v2.ubo[r] = v.ubo[r]
      BY <1>2, <2>2, <2>6, <2>7
    <3> QED
      BY <2>3, <2>4, <2>7, <3>1
  <2>9. n \in 0..n /\ \A g \in 0..(n - 1) : g \in 0..n
    BY <1>2
  <2>10. \A g \in 0..n : w.ubo[Contents!offset_lights(n, g)] = v.ubo[Contents!offset_lights(n, g)]
    <3>1. \A g \in 0..n : Contents!offset_lights(n, g) \in Contents!Regions(n) \ {Contents!offset(f), Contents!offset_screen(f)}
      BY <1>2, RegionsOfFrame
    <3> QED
      BY <2>8, <3>1
  <2>11. OnlyUniforms(v, w)
    BY <1>2, <2>5, <2>8, <2>9, <2>10 DEF OnlyUniforms, n
  <2>12. CamerasAre(w.ubo, f)
    BY <2>8 DEF CamerasAre, CamerasFor
  <2>13. ASSUME NEW g \in 0..(n - 1), g # f, CamerasAre(v.ubo, g) PROVE CamerasAre(w.ubo, g)
    <3>1. {Contents!offset(g), Contents!offset_screen(g)} \cap {Contents!offset(f), Contents!offset_screen(f)} = {}
      BY <1>2, <2>13, RegionsApart
    <3>2. Contents!offset(g) \in Contents!Regions(n) /\ Contents!offset_screen(g) \in Contents!Regions(n)
      BY <1>2, RegionsOfFrame
    <3> QED
      BY <2>8, <2>13, <3>1, <3>2 DEF CamerasAre, CamerasFor
  <2>14. ASSUME NEW g \in 0..(n - 1), LightsAre(v.ubo, n, g) PROVE LightsAre(w.ubo, n, g)
    <3>1. \A il \in 0..(7 * MaxLights - 1) :
            Contents!offset_light(g, il) \in Contents!Regions(n) \ {Contents!offset(f), Contents!offset_screen(f)}
      <4>1. \A il \in 0..(7 * MaxLights - 1) : Contents!offset_light(g, il) \in Contents!Regions(n)
        BY <1>2, RegionsOfFrame
      <4>2. CASE g = f
        BY <1>2, <4>1, <4>2, RegionsOfFrame
      <4>3. CASE g # f
        <5>1. g \in Nat /\ f \in Nat
          BY <1>2
        <5>2. \A il \in 0..(7 * MaxLights - 1) :
                Contents!offset_light(g, il) \notin {Contents!offset(f), Contents!offset_screen(f)}
          BY <4>3, <5>1, RegionsApart
        <5> QED
          BY <4>1, <5>2
      <4> QED
        BY <4>2, <4>3
    <3>2. \A il \in 0..(7 * MaxLights - 1) :
            w.ubo[Contents!offset_light(g, il)] = v.ubo[Contents!offset_light(g, il)]
      BY <2>8, <3>1
    <3>3. w.ubo[Contents!offset_lights(n, g)] = v.ubo[Contents!offset_lights(n, g)]
      BY <2>9, <2>10
    <3> QED
      BY <2>14, <3>2, <3>3, LightsKept
  <2>15. /\ Shape(w) /\ FramesAre(w) /\ SetsAre(w) /\ TexSetsAre(w)
         /\ ImagesAre(w, pics) /\ ObjectsAre(w, objs)
         /\ w.n = v.n /\ w.cur = v.cur /\ w.recreate = v.recreate
         /\ w.extent = v.extent /\ w.fbs = v.fbs
    BY <2>11, OnlyUniformsIs
  <2>16. \A g \in 0..(n - 1) :
            /\ g \in w.camera_updated \/ CamerasAre(w.ubo, g)
            /\ g \in w.lighting_updated \/ LightsAre(w.ubo, n, g)
    BY <1>3, <2>6, <2>12, <2>13, <2>14
  <2>17. UpdatedAre(w)
    BY <1>3, <2>15, <2>16 DEF UpdatedAre, n, UpdatedFor, CamerasAre, LightsAre
  <2> QED
    BY <2>12, <2>15, <2>17 DEF w, f, BackendIs
<1> QED
  BY <1>4, <1>5

LEMMA LightingUpdated ==
    ASSUME NEW v, NEW pics, NEW objs, BackendIs(v, pics, objs), v.recreate = FALSE,
           lamps \in Lamps, CamerasAre(v.ubo, v.cur)
    PROVE  /\ BackendIs(Contents!update_lighting(v), pics, objs)
           /\ Contents!update_lighting(v).recreate = FALSE
           /\ Contents!update_lighting(v).cur = v.cur /\ Contents!update_lighting(v).n = v.n
           /\ CamerasAre(Contents!update_lighting(v).ubo, v.cur)
           /\ LightsAre(Contents!update_lighting(v).ubo, v.n, v.cur)
<1> DEFINE w == Contents!update_lighting(v)
           n == v.n
           f == v.cur
           W == LightWrites(n, f)
           v1 == [v EXCEPT !.lighting_updated = @ \ {f}]
           v2 == [v1 EXCEPT !.ubo = Contents!WriteRegions(@, W)]
<1>0. Shape(v) /\ FramesAre(v) /\ UpdatedAre(v)
  BY DEF BackendIs
<1>1. w = IF f \notin v.lighting_updated THEN v ELSE v2
  BY DEF Contents!update_lighting, LightWrites
<1>2. DOMAIN v = Fields /\ n \in Nat \ {0} /\ f \in 0..(n - 1) /\ DOMAIN v.ubo = Contents!Regions(n)
  BY <1>0, VulkanGiven DEF Shape, FramesAre
<1>3. /\ v.extent = size /\ LayersAre(v.fbs, n)
      /\ \A g \in 0..(n - 1) :
            /\ g \in v.camera_updated \/ CamerasAre(v.ubo, g)
            /\ g \in v.lighting_updated \/ LightsAre(v.ubo, n, g)
  BY <1>0 DEF UpdatedAre, UpdatedFor, CamerasAre, LightsAre
<1>6. CamerasAre(v.ubo, f)
  OBVIOUS
<1> HIDE DEF w, n, f, W
<1>4. CASE f \notin v.lighting_updated
  <2>1. w = v
    BY <1>1, <1>4
  <2>2. LightsAre(v.ubo, n, f)
    BY <1>2, <1>3, <1>4
  <2> QED
    BY <1>6, <2>1, <2>2 DEF w, f, n
<1>5. CASE f \in v.lighting_updated
  <2>1. DOMAIN v1 = Fields /\ v1.lighting_updated = v.lighting_updated \ {f}
        /\ \A x \in Fields \ {"lighting_updated"} : v1[x] = v[x]
    BY <1>2 DEF Fields
  <2> HIDE DEF v1
  <2>2. DOMAIN v2 = Fields /\ v2.ubo = Contents!WriteRegions(v1.ubo, W)
        /\ \A x \in Fields \ {"ubo"} : v2[x] = v1[x]
    BY <2>1 DEF Fields
  <2> HIDE DEF v2
  <2>4. w = v2
    BY <1>1, <1>5
  <2>5. DOMAIN w = Fields
        /\ \A x \in Fields \ {"ubo", "camera_updated", "lighting_updated"} : w[x] = v[x]
    BY <2>1, <2>2, <2>4
  <2>6. w.lighting_updated = v.lighting_updated \ {f} /\ w.camera_updated = v.camera_updated
        /\ w.ubo = Contents!WriteRegions(v.ubo, W)
    BY <2>1, <2>2, <2>4 DEF Fields
  <2>8. /\ DOMAIN w.ubo = Contents!Regions(n)
        /\ LightsAre(w.ubo, n, f)
        /\ w.ubo[Contents!offset(f)] = v.ubo[Contents!offset(f)] /\ w.ubo[Contents!offset_screen(f)] = v.ubo[Contents!offset_screen(f)]
        /\ w.ubo[Contents!offset_lights(n, n)] = v.ubo[Contents!offset_lights(n, n)]
        /\ \A g \in 0..(n - 1) : g # f =>
            /\ w.ubo[Contents!offset(g)] = v.ubo[Contents!offset(g)]
            /\ w.ubo[Contents!offset_screen(g)] = v.ubo[Contents!offset_screen(g)]
            /\ w.ubo[Contents!offset_lights(n, g)] = v.ubo[Contents!offset_lights(n, g)]
            /\ \A il \in 0..(7 * MaxLights - 1) :
                w.ubo[Contents!offset_light(g, il)] = v.ubo[Contents!offset_light(g, il)]
    BY <1>2, <2>6, LightsWritten DEF W
  <2>11. OnlyUniforms(v, w)
    BY <1>2, <2>5, <2>8 DEF OnlyUniforms, n
  <2>12. \A g \in 0..(n - 1) : CamerasAre(v.ubo, g) => CamerasAre(w.ubo, g)
    BY <2>8 DEF CamerasAre, CamerasFor
  <2>14. ASSUME NEW g \in 0..(n - 1), g # f, LightsAre(v.ubo, n, g) PROVE LightsAre(w.ubo, n, g)
    BY <2>8, <2>14, LightsKept
  <2>15. /\ Shape(w) /\ FramesAre(w) /\ SetsAre(w) /\ TexSetsAre(w)
         /\ ImagesAre(w, pics) /\ ObjectsAre(w, objs)
         /\ w.n = v.n /\ w.cur = v.cur /\ w.recreate = v.recreate
         /\ w.extent = v.extent /\ w.fbs = v.fbs
    BY <2>11, OnlyUniformsIs
  <2>16. \A g \in 0..(n - 1) :
            /\ g \in w.camera_updated \/ CamerasAre(w.ubo, g)
            /\ g \in w.lighting_updated \/ LightsAre(w.ubo, n, g)
    BY <1>3, <2>6, <2>8, <2>12, <2>14
  <2>17. UpdatedAre(w)
    BY <1>3, <2>15, <2>16 DEF UpdatedAre, n, UpdatedFor, CamerasAre, LightsAre
  <2>18. CamerasAre(w.ubo, f) /\ LightsAre(w.ubo, n, f)
    BY <1>2, <1>6, <2>8, <2>12
  <2> QED
    BY <2>15, <2>17, <2>18 DEF w, f, n, BackendIs
<1> QED
  BY <1>4, <1>5

-----------------------------------------------------------------------------
(* What is drawn with one pipeline.                                        *)

RecordedFields == {"now", "cur_tex", "tex", "lights", "camera", "alpha", "color",
    "depth", "at"}

(* What is recorded reads the same images and buffers, and the set that is *)
(* taken for bound is.                                                     *)
Recorded(v, r) ==
    /\ DOMAIN r = RecordedFields
    /\ r.now.tex = v.now.tex /\ r.now.font = v.now.font /\ r.now.buffers = v.now.buffers
    /\ r.tex = r.cur_tex

(* A drawing is added to the color and, if it is written, to the depth.    *)
DrawnIs(r, s, x) ==
    \/ s.color = r.color /\ s.depth = r.depth
    \/ \E d : /\ d.of = x.of /\ s.color = Append(r.color, d)
              /\ s.depth = IF x.pipe.write THEN Append(r.depth, d) ELSE r.depth

(* With the rest of what is bound. *)
SameBound(r, s) ==
    /\ s.now = r.now /\ s.lights = r.lights /\ s.camera = r.camera
    /\ s.alpha = r.alpha /\ s.at = r.at

SetFor(x, forced) ==
    IF forced # Contents!NoSet THEN forced ELSE IF x.pipe.type = "FONT" THEN 2 ELSE 1
BoundTo(r, next) ==
    IF next = r.cur_tex THEN r ELSE [r EXCEPT !.cur_tex = next, !.tex = next]

DrawnAs(v, r, x, forced) ==
    LET lights == v.ubo[v.light_sets[r.lights].region]
    IN  Contents!Drawing(x.of, r.now.buffers[x.of][v.cur], x.pipe, v.ubo[r.camera], lights,
            Contents!Sampled(v, BoundTo(r, SetFor(x, forced))),
            IF x.pipe.lit THEN Contents!ShadowsOf(v, r, lights) ELSE <<>>,
            r.alpha, Contents!NamesOf(r.depth), r.at)

LEMMA StageIs ==
    ASSUME NEW v, NEW r, Recorded(v, r), NEW x, NEW forced
    PROVE  /\ v.sizes[x.of] = 0 => Contents!DrawStage(v, r, x, forced) = r
           /\ v.sizes[x.of] # 0 =>
                /\ Contents!DrawStage(v, r, x, forced).color = Append(r.color, DrawnAs(v, r, x, forced))
                /\ Contents!DrawStage(v, r, x, forced).depth
                    = IF x.pipe.write THEN Append(r.depth, DrawnAs(v, r, x, forced)) ELSE r.depth
                /\ Contents!DrawStage(v, r, x, forced).tex = SetFor(x, forced)
           /\ Recorded(v, Contents!DrawStage(v, r, x, forced))
           /\ SameBound(r, Contents!DrawStage(v, r, x, forced))
           /\ DrawnIs(r, Contents!DrawStage(v, r, x, forced), x)
<1> DEFINE s == Contents!DrawStage(v, r, x, forced)
           next == SetFor(x, forced)
           b == BoundTo(r, next)
           d == DrawnAs(v, r, x, forced)
           e == IF x.pipe.write THEN Append(r.depth, d) ELSE r.depth
           dep == IF x.pipe.write THEN Append(b.depth, d) ELSE b.depth
           s1 == [b EXCEPT !.color = Append(@, d)]
           s2 == [s1 EXCEPT !.depth = IF x.pipe.write THEN Append(@, d) ELSE @]
<1>1. s = IF v.sizes[x.of] = 0 THEN r ELSE s2
  BY DEF Contents!DrawStage, DrawnAs, SetFor, BoundTo
<1>2. d.of = x.of
  BY DEF DrawnAs, Contents!Drawing
<1> HIDE DEF s, d, next
<1>3. DOMAIN r = RecordedFields /\ r.tex = r.cur_tex
  BY DEF Recorded
<1>4. /\ DOMAIN b = RecordedFields /\ b.tex = next /\ b.cur_tex = next
      /\ \A f \in RecordedFields \ {"cur_tex", "tex"} : b[f] = r[f]
  <2>1. CASE next = r.cur_tex
    BY <1>3, <2>1 DEF BoundTo
  <2>2. CASE next # r.cur_tex
    BY <1>3, <2>2 DEF BoundTo, RecordedFields
  <2> QED
    BY <2>1, <2>2
<1> HIDE DEF b
<1>5. DOMAIN s1 = RecordedFields /\ s1.color = Append(b.color, d)
      /\ \A f \in RecordedFields \ {"color"} : s1[f] = b[f]
  BY <1>4 DEF RecordedFields
<1> HIDE DEF s1
<1>6. DOMAIN s2 = RecordedFields
      /\ s2.depth = (IF x.pipe.write THEN Append(s1.depth, d) ELSE s1.depth)
      /\ \A f \in RecordedFields \ {"depth"} : s2[f] = s1[f]
  BY <1>5 DEF RecordedFields
<1> HIDE DEF s2
<1>7. /\ b.color = r.color /\ b.depth = r.depth /\ b.now = r.now /\ b.lights = r.lights
      /\ b.camera = r.camera /\ b.alpha = r.alpha /\ b.at = r.at
  BY <1>4 DEF RecordedFields
<1>8. /\ s1.depth = b.depth /\ s1.now = b.now /\ s1.lights = b.lights /\ s1.camera = b.camera
      /\ s1.alpha = b.alpha /\ s1.at = b.at /\ s1.tex = b.tex /\ s1.cur_tex = b.cur_tex
  BY <1>5 DEF RecordedFields
<1>9. /\ s2.color = s1.color /\ s2.now = s1.now /\ s2.lights = s1.lights
      /\ s2.camera = s1.camera /\ s2.alpha = s1.alpha /\ s2.at = s1.at
      /\ s2.tex = s1.tex /\ s2.cur_tex = s1.cur_tex
  BY <1>6 DEF RecordedFields
<1>10. CASE v.sizes[x.of] = 0
  <2>1. s = r
    BY <1>1, <1>10
  <2> QED
    BY <1>10, <2>1 DEF s, Recorded, SameBound, DrawnIs
<1>11. CASE v.sizes[x.of] # 0
  <2>1. s = s2
    BY <1>1, <1>11
  <2>2. s.color = Append(r.color, d)
        /\ s.depth = (IF x.pipe.write THEN Append(r.depth, d) ELSE r.depth)
        /\ s.tex = next /\ s.cur_tex = next /\ DOMAIN s = RecordedFields
    BY <1>4, <1>5, <1>6, <1>7, <1>8, <1>9, <2>1
  <2>3. s.now = r.now /\ SameBound(r, s)
    BY <1>7, <1>8, <1>9, <2>1 DEF SameBound
  <2>4. Recorded(v, s)
    BY <2>2, <2>3 DEF Recorded
  <2>5. DrawnIs(r, s, x)
    BY <1>2, <2>2 DEF DrawnIs
  <2> QED
    BY <1>11, <2>2, <2>3, <2>4, <2>5 DEF s, d, next
<1> QED
  BY <1>10, <1>11

(* Sets have the images of now. *)
LEMMA SampledIs ==
    ASSUME NEW v, TexSetsAre(v), ImagesAre(v, pictures), NEW b, b.tex \in {1, 2, 3},
           b.now.tex = v.now.tex, b.now.font = v.now.font
    PROVE  Contents!Sampled(v, b) = IF b.tex = 3 THEN Contents!Maps
                           ELSE pictures[IF b.tex = 2 THEN "font" ELSE "tex"]
<1>1. b.tex # Contents!NoSet
  BY DEF Contents!NoSet
<1> DEFINE t == v.tex_sets[b.tex]
<1>2. Contents!Sampled(v, b) =
        CASE t = Contents!Nobody -> Contents!Undefined
          [] t \in {"tex", "font"} -> Contents!Content(b.now[t])
          [] t \in {"maps", "cubes"} -> Contents!Maps
  BY <1>1 DEF Contents!Sampled
<1> HIDE DEF t
<1>3. CASE b.tex = 3
  <2>1. t = "maps"
    BY <1>3 DEF t, TexSetsAre
  <2> QED
    BY <1>2, <1>3, <2>1 DEF Contents!Nobody
<1>4. CASE b.tex # 3
  <2> DEFINE y == IF b.tex = 2 THEN "font" ELSE "tex"
  <2>1. y \in {"tex", "font"} /\ SetOf(y) = b.tex /\ b.now[y] = v.now[y]
    BY <1>4 DEF SetOf
  <2> HIDE DEF y
  <2>2. t = IF Contents!Exists(v, y) THEN y ELSE Contents!Nobody
    BY <2>1 DEF t, TexSetsAre
  <2>3. pictures[y] = IF Contents!Exists(v, y) THEN Contents!Content(v.now[y]) ELSE Contents!Undefined
    BY <2>1 DEF ImagesAre
  <2>4. Contents!Sampled(v, b) = pictures[y]
    <3>1. CASE Contents!Exists(v, y)
      <4>1. t = y /\ t # Contents!Nobody /\ t \in {"tex", "font"}
        BY <2>1, <2>2, <3>1 DEF Contents!Nobody
      <4>2. Contents!Sampled(v, b) = Contents!Content(b.now[t])
        BY <1>2, <4>1
      <4> QED
        BY <2>1, <2>3, <3>1, <4>1, <4>2
    <3>2. CASE ~Contents!Exists(v, y)
      <4>1. t = Contents!Nobody
        BY <2>2, <3>2
      <4>2. Contents!Sampled(v, b) = Contents!Undefined
        BY <1>2, <4>1 DEF Contents!Nobody
      <4> QED
        BY <2>3, <3>2, <4>2
    <3> QED
      BY <3>1, <3>2
  <2> QED
    BY <1>4, <2>4 DEF y
<1> QED
  BY <1>3, <1>4

-----------------------------------------------------------------------------
(* What is drawn with one pipeline is what is expected.                    *)

(* As of now. *)
BetweenIs(v) ==
    /\ FramesAre(v) /\ SetsAre(v) /\ TexSetsAre(v)
    /\ ImagesAre(v, pictures) /\ ObjectsAre(v, objects)

TexOf(x, texels) ==
    IF texels # <<>> THEN texels ELSE pictures[IF x.pipe.type = "FONT" THEN "font" ELSE "tex"]

ExpectedAs(x, w, lights, shadows, alpha, texels, j, at) ==
    Contents!Drawing(x.of, objects[x.of], x.pipe, w, lights, TexOf(x, texels), shadows, alpha,
        Contents!Hiding(j), at)

LightsFrom(v, r, lights, shadows) ==
    /\ v.ubo[v.light_sets[r.lights].region] = lights
    /\ Contents!ShadowsOf(v, r, lights) = shadows

(* What the pipeline uses is bound. *)
Ready(v, r, x, w, lights, shadows, alpha) ==
    /\ Recorded(v, r) /\ v.ubo[r.camera] = w
    /\ x.pipe.lit => LightsFrom(v, r, lights, shadows)
    /\ x.pipe.type = "TRIANGLE" => r.alpha = alpha
    /\ x.pipe.test => Contents!NamesOf(r.depth) = Contents!Hiding(r.color)

(* A set that is bound for the stage, and what it has to be. *)
BoundIs(forced, texels) ==
    \/ forced = Contents!NoSet /\ texels = <<>>
    \/ forced = 3 /\ texels = Contents!Maps

LEMMA DrawnAsExpected ==
    ASSUME NEW v, BetweenIs(v), NEW x, x.of \in Contents!Objects, objects[x.of] # 0,
           NEW r, NEW w, NEW lights, NEW shadows, NEW alpha,
           Ready(v, r, x, w, lights, shadows, alpha), NEW forced, NEW texels,
           BoundIs(forced, texels)
    PROVE  DrawnAs(v, r, x, forced)
            = ExpectedAs(x, w, lights, shadows, alpha, texels, r.color, r.at)
<1> DEFINE next == SetFor(x, forced)
           b == BoundTo(r, next)
           l == v.ubo[v.light_sets[r.lights].region]
           s == IF x.pipe.lit THEN Contents!ShadowsOf(v, r, l) ELSE <<>>
           value == r.now.buffers[x.of][v.cur]
           t == Contents!Sampled(v, b)
<1>1. next \in {1, 2, 3} /\ (next = 3 <=> forced = 3)
      /\ (forced # 3 => next = IF x.pipe.type = "FONT" THEN 2 ELSE 1)
  BY DEF SetFor, Contents!NoSet, BoundIs
<1>2. Recorded(v, r)
  BY DEF Ready
<1> HIDE DEF next
<1>3. b.tex = next /\ b.now = r.now
  <2>1. CASE next = r.cur_tex
    BY <1>2, <2>1 DEF BoundTo, Recorded
  <2>2. CASE next # r.cur_tex
    BY <1>2, <2>2 DEF BoundTo, Recorded, RecordedFields
  <2> QED
    BY <2>1, <2>2
<1> HIDE DEF b
<1>4. t = TexOf(x, texels)
  <2>1. TexSetsAre(v) /\ ImagesAre(v, pictures)
    BY DEF BetweenIs
  <2>2. b.tex \in {1, 2, 3} /\ b.now.tex = v.now.tex /\ b.now.font = v.now.font
    BY <1>1, <1>2, <1>3 DEF Recorded
  <2>3. t = IF b.tex = 3 THEN Contents!Maps ELSE pictures[IF b.tex = 2 THEN "font" ELSE "tex"]
    BY <2>1, <2>2, SampledIs
  <2>4. Contents!Maps # <<>>
    BY DEF Contents!Maps
  <2>5. CASE forced = 3
    BY <1>1, <1>3, <2>3, <2>4, <2>5 DEF TexOf, BoundIs, Contents!NoSet
  <2>6. CASE forced # 3
    <3>1. texels = <<>> /\ b.tex # 3
      BY <1>1, <1>3, <2>6 DEF BoundIs
    <3>2. b.tex = 2 <=> x.pipe.type = "FONT"
      BY <1>1, <1>3, <2>6
    <3>3. TexOf(x, texels) = pictures[IF x.pipe.type = "FONT" THEN "font" ELSE "tex"]
      BY <3>1 DEF TexOf
    <3> QED
      BY <2>3, <3>1, <3>2, <3>3
  <2> QED
    BY <2>5, <2>6
<1>5. value = objects[x.of]
  <2>1. ObjectsAre(v, objects) /\ v.cur \in 0..(v.n - 1)
    BY DEF BetweenIs, FramesAre
  <2>2. v.now.buffers[x.of][v.cur] = objects[x.of]
    BY <2>1 DEF ObjectsAre
  <2> QED
    BY <1>2, <2>2 DEF Recorded
<1>6. /\ v.ubo[r.camera] = w
      /\ x.pipe.type = "TRIANGLE" => r.alpha = alpha
      /\ x.pipe.test => Contents!NamesOf(r.depth) = Contents!Hiding(r.color)
      /\ x.pipe.lit => l = lights
  BY DEF Ready, LightsFrom
<1>7. x.pipe.lit => s = shadows
  <2> SUFFICES ASSUME x.pipe.lit PROVE s = shadows
    OBVIOUS
  <2>1. LightsFrom(v, r, lights, shadows)
    BY DEF Ready
  <2> QED
    BY <2>1 DEF LightsFrom
<1>8. DrawnAs(v, r, x, forced)
        = Contents!Drawing(x.of, value, x.pipe, v.ubo[r.camera], l, t, s, r.alpha, Contents!NamesOf(r.depth), r.at)
  BY DEF DrawnAs, b, next
<1> HIDE DEF l, s, value, t
<1> DEFINE ofs == Contents!NamesOf(r.depth)
           hiding == Contents!Hiding(r.color)
           camera == v.ubo[r.camera]
           p == x.pipe
           tx == TexOf(x, texels)
<1>9. camera = w /\ value = objects[x.of] /\ t = tx
      /\ (p.type = "TRIANGLE" => r.alpha = alpha) /\ (p.test => ofs = hiding)
      /\ (p.lit => l = lights) /\ (p.lit => s = shadows)
  BY <1>4, <1>5, <1>6, <1>7
<1>10. ExpectedAs(x, w, lights, shadows, alpha, texels, r.color, r.at)
        = Contents!Drawing(x.of, objects[x.of], p, w, lights, tx, shadows, alpha, hiding, r.at)
  BY DEF ExpectedAs
<1>11. DrawnAs(v, r, x, forced)
        = Contents!Drawing(x.of, value, p, camera, l, t, s, r.alpha, ofs, r.at)
  BY <1>8
<1> HIDE DEF ofs, hiding, camera, p, tx
<1> QED
  BY <1>9, <1>10, <1>11 DEF Contents!Drawing

(* A stage adds it to the color. *)
ExpectedOf(x, w, lights, shadows, alpha, texels, j) ==
    IF objects[x.of] = 0 THEN j
    ELSE Append(j, ExpectedAs(x, w, lights, shadows, alpha, texels, j, size))

(* After a stage. *)
StageShows(v, r, s, x, forced, e) ==
    /\ s.color = e
    /\ Recorded(v, s) /\ SameBound(r, s) /\ DrawnIs(r, s, x)
    /\ r.tex = 1 /\ SetFor(x, forced) = 1 => s.tex = 1

LEMMA StageIsExpected ==
    ASSUME NEW v, BetweenIs(v), NEW x, x.of \in Contents!Objects,
           NEW r, NEW w, NEW lights, NEW shadows, NEW alpha,
           Ready(v, r, x, w, lights, shadows, alpha), r.at = size, NEW forced, NEW texels,
           BoundIs(forced, texels)
    PROVE  StageShows(v, r, Contents!DrawStage(v, r, x, forced), x, forced,
            ExpectedOf(x, w, lights, shadows, alpha, texels, r.color))
<1> DEFINE s == Contents!DrawStage(v, r, x, forced)
           d == DrawnAs(v, r, x, forced)
           e == ExpectedOf(x, w, lights, shadows, alpha, texels, r.color)
           a == ExpectedAs(x, w, lights, shadows, alpha, texels, r.color, size)
<1>1. Recorded(v, r)
  BY DEF Ready
<1>2. /\ v.sizes[x.of] = 0 => s = r
      /\ v.sizes[x.of] # 0 => s.color = Append(r.color, d) /\ s.tex = SetFor(x, forced)
      /\ Recorded(v, s) /\ SameBound(r, s) /\ DrawnIs(r, s, x)
  BY <1>1, StageIs
<1>3. v.sizes[x.of] = objects[x.of]
  BY DEF BetweenIs, ObjectsAre
<1>4. objects[x.of] # 0 => d = a
  BY DrawnAsExpected
<1>5. e = IF objects[x.of] = 0 THEN r.color ELSE Append(r.color, a)
  BY DEF ExpectedOf
<1> HIDE DEF s, d, e, a
<1>6. s.color = e
  BY <1>2, <1>3, <1>4, <1>5
<1>7. r.tex = 1 /\ SetFor(x, forced) = 1 => s.tex = 1
  BY <1>2
<1> QED
  BY <1>2, <1>6, <1>7 DEF StageShows, s, e

-----------------------------------------------------------------------------
(* What is behind: all that was drawn, but for the flat map.               *)

SeqLike(s) == \E S : s \in Seq(S)

Under(r) ==
    SeqLike(r.color) /\ SeqLike(r.depth) /\ Contents!NamesOf(r.depth) = Contents!Hiding(r.color)

LEMMA NamesOfAppend ==
    ASSUME NEW s, SeqLike(s), NEW d
    PROVE  /\ SeqLike(Append(s, d)) /\ SeqLike(Contents!NamesOf(s))
           /\ Contents!NamesOf(Append(s, d)) = Append(Contents!NamesOf(s), d.of)
           /\ (Contents!NamesOf(s) = <<>>) <=> (s = <<>>)
           /\ Append(s, d) # <<>>
           /\ Append(s, d)[1] = IF s = <<>> THEN d ELSE s[1]
<1>1. PICK S0 : s \in Seq(S0)
  BY DEF SeqLike
<1> DEFINE S == S0 \cup {d}
           n == Len(s)
<1>2. s \in Seq(S)
  BY <1>1
<1>3. n \in Nat /\ DOMAIN s = 1..n /\ (n = 0 <=> s = <<>>)
  BY <1>2
<1>4. Append(s, d) \in Seq(S) /\ Len(Append(s, d)) = n + 1
      /\ (\A i \in 1..n : Append(s, d)[i] = s[i]) /\ Append(s, d)[n + 1] = d
      /\ Append(s, d) # <<>>
  <2>1. d \in S
    OBVIOUS
  <2> HIDE DEF S
  <2> QED
    BY <1>2, <2>1, AppendProperties
<1>5. DOMAIN Append(s, d) = 1..(n + 1)
  <2> HIDE DEF S
  <2> QED
    BY <1>4
<1> DEFINE N == {s[k].of : k \in 1..n} \cup {d.of}
           ofs == Contents!NamesOf(s)
           after == Contents!NamesOf(Append(s, d))
<1>6. ofs = [k \in 1..n |-> s[k].of]
  BY <1>3 DEF Contents!NamesOf
<1>7. ofs \in Seq(N) /\ Len(ofs) = n /\ DOMAIN ofs = 1..n
  BY <1>3, <1>6
<1>8. Append(ofs, d.of) \in Seq(N) /\ Len(Append(ofs, d.of)) = n + 1
      /\ (\A i \in 1..n : Append(ofs, d.of)[i] = ofs[i])
      /\ Append(ofs, d.of)[n + 1] = d.of
  <2>1. d.of \in N
    OBVIOUS
  <2> HIDE DEF N, ofs
  <2> QED
    BY <1>7, <2>1, AppendProperties
<1>9. after = [k \in 1..(n + 1) |-> Append(s, d)[k].of]
  BY <1>5 DEF Contents!NamesOf
<1>10. after = Append(ofs, d.of)
  <2>1. \A k \in 1..(n + 1) : after[k] = Append(ofs, d.of)[k]
    <3> SUFFICES ASSUME NEW k \in 1..(n + 1) PROVE after[k] = Append(ofs, d.of)[k]
      OBVIOUS
    <3>1. after[k] = Append(s, d)[k].of
      BY <1>9
    <3>2. CASE k = n + 1
      BY <1>4, <1>8, <3>1, <3>2
    <3>3. CASE k # n + 1
      <4>1. k \in 1..n
        BY <1>3, <3>3
      <4>2. ofs[k] = s[k].of
        BY <1>6, <4>1
      <4> QED
        BY <1>4, <1>8, <3>1, <4>1, <4>2
    <3> QED
      BY <3>2, <3>3
  <2>2. DOMAIN Append(ofs, d.of) = 1..(n + 1)
    BY <1>8
  <2>3. after = [k \in 1..(n + 1) |-> after[k]]
    BY <1>9
  <2>4. Append(ofs, d.of) = [k \in 1..(n + 1) |-> Append(ofs, d.of)[k]]
    BY <1>8, <2>2
  <2> HIDE DEF after
  <2> QED
    BY <2>1, <2>3, <2>4
<1>11. (ofs = <<>>) <=> (s = <<>>)
  BY <1>3, <1>7
<1>12. Append(s, d)[1] = IF s = <<>> THEN d ELSE s[1]
  <2>1. CASE s = <<>>
    BY <1>3, <1>4, <2>1
  <2>2. CASE s # <<>>
    <3>1. 1 \in 1..n
      BY <1>3, <2>2
    <3> QED
      BY <1>4, <2>2, <3>1
  <2> QED
    BY <2>1, <2>2
<1> QED
  BY <1>4, <1>7, <1>10, <1>11, <1>12 DEF SeqLike

(* What is written hides and is hidden. *)
LEMMA BehindKept ==
    ASSUME NEW r, NEW s, NEW x, Under(r), DrawnIs(r, s, x), x.pipe.write = TRUE,
           view.persp \/ x.of # "map"
    PROVE  Under(s)
<1>1. CASE s.color = r.color /\ s.depth = r.depth
  BY <1>1 DEF Under
<1>2. CASE ~(s.color = r.color /\ s.depth = r.depth)
  <2>1. PICK d : d.of = x.of /\ s.color = Append(r.color, d) /\ s.depth = Append(r.depth, d)
    BY <1>2 DEF DrawnIs
  <2> DEFINE c == r.color
             ns == Contents!NamesOf(c)
  <2>2. SeqLike(c) /\ SeqLike(r.depth) /\ Contents!NamesOf(r.depth) = Contents!Hiding(c)
    BY DEF Under
  <2>3. /\ SeqLike(s.color) /\ Contents!NamesOf(s.color) = Append(ns, d.of)
        /\ SeqLike(ns) /\ ((ns = <<>>) <=> (c = <<>>)) /\ s.color # <<>>
        /\ s.color[1] = IF c = <<>> THEN d ELSE c[1]
    <3> HIDE DEF c
    <3>1. /\ SeqLike(Append(c, d)) /\ SeqLike(Contents!NamesOf(c))
          /\ Contents!NamesOf(Append(c, d)) = Append(Contents!NamesOf(c), d.of)
          /\ (Contents!NamesOf(c) = <<>>) <=> (c = <<>>)
          /\ Append(c, d) # <<>>
          /\ Append(c, d)[1] = IF c = <<>> THEN d ELSE c[1]
      BY <2>2, NamesOfAppend
    <3>2. s.color = Append(c, d)
      BY <2>1 DEF c
    <3> QED
      BY <3>1, <3>2
  <2>4. SeqLike(s.depth) /\ Contents!NamesOf(s.depth) = Append(Contents!Hiding(c), d.of)
    <3> DEFINE b == r.depth
    <3> HIDE DEF c, b
    <3>1. SeqLike(b) /\ Contents!NamesOf(b) = Contents!Hiding(c)
      BY <2>2 DEF b
    <3>2. SeqLike(Append(b, d)) /\ Contents!NamesOf(Append(b, d)) = Append(Contents!NamesOf(b), d.of)
      BY <3>1, NamesOfAppend
    <3>3. s.depth = Append(b, d)
      BY <2>1 DEF b
    <3> QED
      BY <3>1, <3>2, <3>3
  <2> HIDE DEF ns, c
  <2>5. Contents!Hiding(c) = IF view.persp \/ c = <<>> \/ c[1].of # "map" THEN ns ELSE Tail(ns)
    BY DEF Contents!Hiding, ns
  <2>6. Contents!Hiding(s.color)
        = IF view.persp \/ s.color[1].of # "map" THEN Append(ns, d.of) ELSE Tail(Append(ns, d.of))
    BY <2>3 DEF Contents!Hiding
  <2>7. Contents!Hiding(s.color) = Append(Contents!Hiding(c), d.of)
    <3>1. CASE view.persp
      BY <2>5, <2>6, <3>1
    <3>2. CASE ~view.persp /\ c = <<>>
      BY <2>1, <2>3, <2>5, <2>6, <3>2
    <3>3. CASE ~view.persp /\ c # <<>> /\ c[1].of # "map"
      BY <2>3, <2>5, <2>6, <3>3
    <3>4. CASE ~view.persp /\ c # <<>> /\ c[1].of = "map"
      <4>1. PICK S : ns \in Seq(S)
        BY <2>3 DEF SeqLike
      <4>2. Tail(Append(ns, d.of)) = Append(Tail(ns), d.of)
        BY <2>3, <3>4, <4>1, HeadTailAppend
      <4> QED
        BY <2>3, <2>5, <2>6, <3>4, <4>2
    <3> QED
      BY <3>1, <3>2, <3>3, <3>4
  <2> QED
    BY <2>3, <2>4, <2>7 DEF Under
<1> QED
  BY <1>1, <1>2

(* The flat map is the first, and does neither. *)
LEMMA BehindMap ==
    ASSUME NEW r, NEW s, NEW x, r.color = <<>>, r.depth = <<>>, DrawnIs(r, s, x),
           x.pipe.write = FALSE, x.of = "map", ~view.persp
    PROVE  Under(s)
<1>1. SeqLike(<<>>) /\ Contents!NamesOf(<<>>) = <<>>
  <2>1. <<>> \in Seq({})
    OBVIOUS
  <2> QED
    BY <2>1 DEF SeqLike, Contents!NamesOf
<1>2. CASE s.color = r.color /\ s.depth = r.depth
  BY <1>1, <1>2 DEF Under, Contents!Hiding
<1>3. CASE ~(s.color = r.color /\ s.depth = r.depth)
  <2>1. PICK d : d.of = "map" /\ s.color = Append(<<>>, d) /\ s.depth = <<>>
    BY <1>3 DEF DrawnIs
  <2>2. SeqLike(s.color) /\ Contents!NamesOf(s.color) = Append(<<>>, "map") /\ s.color # <<>>
        /\ s.color[1] = d
    <3> DEFINE b == <<>>
    <3> HIDE DEF b
    <3>1. SeqLike(b) /\ Contents!NamesOf(b) = b /\ s.color = Append(b, d) /\ d.of = "map"
      BY <1>1, <2>1 DEF b
    <3>2. SeqLike(Append(b, d)) /\ Contents!NamesOf(Append(b, d)) = Append(Contents!NamesOf(b), d.of)
          /\ Append(b, d) # <<>> /\ Append(b, d)[1] = IF b = <<>> THEN d ELSE b[1]
      BY <3>1, NamesOfAppend
    <3> QED
      BY <3>1, <3>2 DEF b
  <2>3. Tail(Append(<<>>, "map")) = <<>>
    <3>1. <<>> \in Seq({"map"})
      OBVIOUS
    <3> QED
      BY <3>1, HeadTailAppend
  <2>4. Contents!Hiding(s.color) = <<>>
    BY <2>1, <2>2, <2>3 DEF Contents!Hiding
  <2> QED
    BY <1>1, <2>1, <2>2, <2>4 DEF Under
<1> QED
  BY <1>2, <1>3

LEMMA BehindNothing ==
    ASSUME NEW r, r.color = <<>>, r.depth = <<>>
    PROVE  Under(r)
<1>1. SeqLike(<<>>) /\ Contents!NamesOf(<<>>) = <<>>
  <2>1. <<>> \in Seq({})
    OBVIOUS
  <2> QED
    BY <2>1 DEF SeqLike, Contents!NamesOf
<1> QED
  BY <1>1 DEF Under, Contents!Hiding
-----------------------------------------------------------------------------
(* Lists of one, two or three.                                             *)

LEMMA OneStage ==
    ASSUME NEW v, NEW r, NEW x, NEW forced
    PROVE  Contents!DrawStages(v, r, <<x>>, forced) = Contents!DrawStage(v, r, x, forced)
<1> DEFINE seq == <<x>>
<1>1. Len(seq) = 1 /\ seq[1] = x
  OBVIOUS
<1>2. Len(seq) \in Nat
  BY <1>1
<1> HIDE DEF seq
<1>3. PICK at :
        /\ Contents!DrawStages(v, r, seq, forced) = at[Len(seq)] /\ at[0] = r
        /\ \A k \in 1..Len(seq) : at[k] = Contents!DrawStage(v, at[k - 1], seq[k], forced)
  BY <1>2, DrawStagesIs
<1>4. 1 \in 1..Len(seq) /\ 1 - 1 = 0
  BY <1>1
<1>5. at[1] = Contents!DrawStage(v, at[1 - 1], seq[1], forced)
  BY <1>3, <1>4
<1>6. at[1 - 1] = r
  BY <1>3, <1>4
<1>7. at[1] = Contents!DrawStage(v, r, x, forced)
  BY <1>1, <1>5, <1>6
<1> QED
  BY <1>1, <1>3, <1>7 DEF seq

LEMMA TwoStages ==
    ASSUME NEW v, NEW r, NEW x, NEW y, NEW forced
    PROVE  Contents!DrawStages(v, r, <<x, y>>, forced)
            = Contents!DrawStage(v, Contents!DrawStage(v, r, x, forced), y, forced)
<1> DEFINE seq == <<x, y>>
<1>1. Len(seq) = 2 /\ seq[1] = x /\ seq[2] = y
  OBVIOUS
<1>2. Len(seq) \in Nat
  BY <1>1
<1> HIDE DEF seq
<1>3. PICK at :
        /\ Contents!DrawStages(v, r, seq, forced) = at[Len(seq)] /\ at[0] = r
        /\ \A k \in 1..Len(seq) : at[k] = Contents!DrawStage(v, at[k - 1], seq[k], forced)
  BY <1>2, DrawStagesIs
<1>4. 1 \in 1..Len(seq) /\ 1 - 1 = 0 /\ 2 \in 1..Len(seq) /\ 2 - 1 = 1
  BY <1>1
<1>5. at[1] = Contents!DrawStage(v, at[1 - 1], seq[1], forced)
      /\ at[2] = Contents!DrawStage(v, at[2 - 1], seq[2], forced)
  BY <1>3, <1>4
<1>6. at[1 - 1] = r /\ at[2 - 1] = at[1]
  BY <1>3, <1>4
<1>7. at[2] = Contents!DrawStage(v, Contents!DrawStage(v, r, x, forced), y, forced)
  BY <1>1, <1>5, <1>6
<1> QED
  BY <1>1, <1>3, <1>7 DEF seq

(* The same of what is expected. *)
LEMMA ExpectedAre ==
    ASSUME NEW w, NEW lights, NEW shadows, NEW alpha, NEW texels, NEW first, NEW seq,
           Len(seq) \in Nat
    PROVE  \E at :
            /\ Contents!Expected(seq, w, lights, shadows, alpha, texels, first) = at[Len(seq)]
            /\ at[0] = first
            /\ \A k \in 1..Len(seq) :
                at[k] = ExpectedOf(seq[k], w, lights, shadows, alpha, texels, at[k - 1])
<1>1. PICK at :
        /\ Contents!Expected(seq, w, lights, shadows, alpha, texels, first) = at[Len(seq)] /\ at[0] = first
        /\ \A k \in 1..Len(seq) : at[k] = (IF objects[seq[k].of] = 0 THEN at[k - 1]
             ELSE Append(at[k - 1], Contents!Drawing(seq[k].of, objects[seq[k].of], seq[k].pipe, w, lights,
                IF texels # <<>> THEN texels
                ELSE pictures[IF seq[k].pipe.type = "FONT" THEN "font" ELSE "tex"],
                shadows, alpha, Contents!Hiding(at[k - 1]), size)))
  BY ExpectedIs
<1>2. ASSUME NEW k \in 1..Len(seq)
      PROVE  at[k] = ExpectedOf(seq[k], w, lights, shadows, alpha, texels, at[k - 1])
  BY <1>1 DEF ExpectedOf, ExpectedAs, TexOf
<1> QED
  BY <1>1, <1>2

LEMMA OneExpected ==
    ASSUME NEW w, NEW lights, NEW shadows, NEW alpha, NEW texels, NEW i, NEW x
    PROVE  Contents!Expected(<<x>>, w, lights, shadows, alpha, texels, i)
            = ExpectedOf(x, w, lights, shadows, alpha, texels, i)
<1> DEFINE seq == <<x>>
           of(y, j) == ExpectedOf(y, w, lights, shadows, alpha, texels, j)
           e == Contents!Expected(seq, w, lights, shadows, alpha, texels, i)
<1>1. Len(seq) = 1 /\ seq[1] = x
  OBVIOUS
<1>2. PICK at : /\ e = at[Len(seq)] /\ at[0] = i
                /\ \A k \in 1..Len(seq) : at[k] = of(seq[k], at[k - 1])
  <2>1. Len(seq) \in Nat
    BY <1>1
  <2> HIDE DEF seq
  <2> QED
    BY <2>1, ExpectedAre
<1> HIDE DEF of, e, seq
<1>3. 1 \in 1..Len(seq) /\ 1 - 1 = 0
  BY <1>1
<1>4. at[1] = of(seq[1], at[1 - 1]) /\ at[1 - 1] = i
  BY <1>2, <1>3
<1>5. e = of(x, i)
  BY <1>1, <1>2, <1>4
<1> QED
  BY <1>5 DEF of, e, seq

LEMMA TwoExpected ==
    ASSUME NEW w, NEW lights, NEW shadows, NEW alpha, NEW texels, NEW i, NEW x, NEW y
    PROVE  Contents!Expected(<<x, y>>, w, lights, shadows, alpha, texels, i)
            = ExpectedOf(y, w, lights, shadows, alpha, texels,
                ExpectedOf(x, w, lights, shadows, alpha, texels, i))
<1> DEFINE seq == <<x, y>>
           of(z, j) == ExpectedOf(z, w, lights, shadows, alpha, texels, j)
           e == Contents!Expected(seq, w, lights, shadows, alpha, texels, i)
<1>1. Len(seq) = 2 /\ seq[1] = x /\ seq[2] = y
  OBVIOUS
<1>2. PICK at : /\ e = at[Len(seq)] /\ at[0] = i
                /\ \A k \in 1..Len(seq) : at[k] = of(seq[k], at[k - 1])
  <2>1. Len(seq) \in Nat
    BY <1>1
  <2> HIDE DEF seq
  <2> QED
    BY <2>1, ExpectedAre
<1> HIDE DEF of, e, seq
<1>3. 1 \in 1..Len(seq) /\ 1 - 1 = 0 /\ 2 \in 1..Len(seq) /\ 2 - 1 = 1
  BY <1>1
<1>4. at[1] = of(seq[1], at[1 - 1]) /\ at[1 - 1] = i
      /\ at[2] = of(seq[2], at[2 - 1]) /\ at[2 - 1] = at[1]
  BY <1>2, <1>3
<1>5. e = of(y, of(x, i))
  BY <1>1, <1>2, <1>4
<1> QED
  BY <1>5 DEF of, e, seq

LEMMA ThreeExpected ==
    ASSUME NEW w, NEW lights, NEW shadows, NEW alpha, NEW texels, NEW i, NEW x, NEW y, NEW z
    PROVE  Contents!Expected(<<x, y, z>>, w, lights, shadows, alpha, texels, i)
            = ExpectedOf(z, w, lights, shadows, alpha, texels,
                ExpectedOf(y, w, lights, shadows, alpha, texels,
                    ExpectedOf(x, w, lights, shadows, alpha, texels, i)))
<1> DEFINE seq == <<x, y, z>>
           of(a, j) == ExpectedOf(a, w, lights, shadows, alpha, texels, j)
           e == Contents!Expected(seq, w, lights, shadows, alpha, texels, i)
<1>1. Len(seq) = 3 /\ seq[1] = x /\ seq[2] = y /\ seq[3] = z
  OBVIOUS
<1>2. PICK at : /\ e = at[Len(seq)] /\ at[0] = i
                /\ \A k \in 1..Len(seq) : at[k] = of(seq[k], at[k - 1])
  <2>1. Len(seq) \in Nat
    BY <1>1
  <2> HIDE DEF seq
  <2> QED
    BY <2>1, ExpectedAre
<1> HIDE DEF of, e, seq
<1>3. 1 \in 1..Len(seq) /\ 1 - 1 = 0 /\ 2 \in 1..Len(seq) /\ 2 - 1 = 1
      /\ 3 \in 1..Len(seq) /\ 3 - 1 = 2
  BY <1>1
<1>4. at[1] = of(seq[1], at[1 - 1]) /\ at[1 - 1] = i
      /\ at[2] = of(seq[2], at[2 - 1]) /\ at[2 - 1] = at[1]
      /\ at[3] = of(seq[3], at[3 - 1]) /\ at[3 - 1] = at[2]
  BY <1>2, <1>3
<1>5. e = of(z, of(y, of(x, i)))
  BY <1>1, <1>2, <1>4
<1> QED
  BY <1>5 DEF of, e, seq

-----------------------------------------------------------------------------
(* Where the passes of lights draw to.                                     *)

Kind(point) == IF point THEN "cubes" ELSE "maps"
Limit(point) == IF point THEN 6 * MaxLights ELSE MaxLights
FaceOf(li) == CASE li % 6 = 2 -> li + 1 [] li % 6 = 3 -> li - 1 [] OTHER -> li

LayerOf(v, li, point) ==
    IF point THEN 6 * (MaxLights * v.cur) + FaceOf(li) ELSE MaxLights * v.cur + li
RegionOf(v, li, point) == Contents!offset_light(v.cur, IF point THEN MaxLights + li ELSE li)

(* Two faces of each light are swapped. *)
LEMMA FacesAre ==
    ASSUME NEW m \in Nat, NEW li \in 0..(6 * m - 1)
    PROVE  /\ FaceOf(li) \in 0..(6 * m - 1) /\ FaceOf(FaceOf(li)) = li
           /\ FaceOf(li) \div 6 = li \div 6
           /\ FaceOf(li) % 6 = IF li % 6 = 2 THEN 3 ELSE IF li % 6 = 3 THEN 2 ELSE li % 6
<1>1. PICK q \in Nat, k \in 0..5 : li = 6 * q + k /\ q < m
  <2>1. li \in Nat /\ li \div 6 \in Nat /\ li % 6 \in 0..5 /\ li = 6 * (li \div 6) + (li % 6)
    OBVIOUS
  <2>2. li \div 6 < m
    BY <2>1
  <2> QED
    BY <2>1, <2>2
<1>2. ASSUME NEW a \in 0..5
      PROVE  (6 * q + a) % 6 = a /\ (6 * q + a) \div 6 = q /\ 6 * q + a \in 0..(6 * m - 1)
  BY <1>1
<1> DEFINE c == 6 * q + 2
           d == 6 * q + 3
<1>6. c % 6 = 2 /\ c + 1 = d /\ d % 6 = 3 /\ d - 1 = c /\ 3 # 2
  BY <1>1, <1>2
<1>7. li = IF k = 2 THEN c ELSE IF k = 3 THEN d ELSE 6 * q + k
  BY <1>1
<1>8. /\ c \div 6 = q /\ d \div 6 = q /\ c \in 0..(6 * m - 1) /\ d \in 0..(6 * m - 1)
  BY <1>1, <1>2
<1> HIDE DEF c, d
<1>9. FaceOf(c) = d /\ FaceOf(d) = c
  BY <1>6 DEF FaceOf
<1>3. CASE k = 2
  BY <1>3, <1>6, <1>7, <1>8, <1>9
<1>4. CASE k = 3
  BY <1>4, <1>6, <1>7, <1>8, <1>9
<1>5. CASE k \notin {2, 3}
  <2>1. FaceOf(li) = li
    BY <1>1, <1>2, <1>5 DEF FaceOf
  <2> QED
    BY <1>1, <1>2, <1>5, <2>1
<1> QED
  BY <1>3, <1>4, <1>5

(* Each to a layer of its own, of those of the frame. *)
LEMMA LayerIs ==
    ASSUME NEW v, FramesAre(v), NEW point \in BOOLEAN, NEW li \in 0..(Limit(point) - 1)
    PROVE  /\ Contents!depth_fb_idx(v, li, point) \in 0..(7 * v.n * MaxLights - 1)
           /\ Contents!DepthFrameBuffers(v.n)[Contents!depth_fb_idx(v, li, point)]
                = <<Kind(point), LayerOf(v, li, point)>>
           /\ LayerOf(v, li, point) \in DOMAIN v.now[Kind(point)]
           /\ \A lj \in 0..(Limit(point) - 1) :
                LayerOf(v, li, point) = LayerOf(v, lj, point) => li = lj
<1> DEFINE n == v.n
           c == v.cur
           m == MaxLights
           a == m * c
           b == n * m
<1>1. n \in Nat \ {0} /\ c \in 0..(n - 1) /\ m \in Nat \ {0}
  BY VulkanGiven DEF FramesAre
<1>2. a \in Nat /\ b \in Nat /\ a + m <= b /\ 7 * n * m = 7 * b /\ n * 6 * m = 6 * b
      /\ m * (6 * c + n) = 6 * a + b
  <2>1. a + m <= b
    <3>1. a + (m - 1) \in 0..(m * n - 1)
      <4>1. m \in Nat /\ n \in Nat /\ c \in 0..(n - 1) /\ m - 1 \in 0..(m - 1)
        BY <1>1
      <4> QED
        BY <4>1, RowsWithin
    <3>2. a \in Nat /\ m * n = b /\ b \in Nat
      BY <1>1
    <3> QED
      BY <1>1, <3>1, <3>2
  <2> QED
    BY <1>1, <2>1
<1>3. DOMAIN v.now.maps = 0..(b - 1) /\ DOMAIN v.now.cubes = 0..(6 * b - 1)
  BY <1>2 DEF FramesAre
<1>4. Contents!DepthFrameBuffers(n)
        = [i \in 0..(7 * b - 1) |-> IF i < b THEN <<"maps", i>> ELSE <<"cubes", i - b>>]
  BY <1>2 DEF Contents!DepthFrameBuffers
<1> DEFINE fb == Contents!depth_fb_idx(v, li, point)
           to == LayerOf(v, li, point)
<1>5. 7 * n * m = 7 * b
  BY <1>2
<1>6. CASE ~point
  <2>1. li \in 0..(m - 1) /\ fb = a + li /\ to = a + li
        /\ \A lj \in 0..(Limit(point) - 1) : lj \in 0..(m - 1) /\ LayerOf(v, lj, point) = a + lj
    BY <1>6 DEF Limit, Contents!depth_fb_idx, LayerOf
  <2> HIDE DEF a, b, c, n, m, fb, to
  <2>2. fb \in 0..(7 * b - 1) /\ fb < b /\ to \in 0..(b - 1) /\ fb = to
    BY <1>1, <1>2, <2>1
  <2>3. Contents!DepthFrameBuffers(n)[fb] = <<"maps", to>>
    BY <1>4, <2>2
  <2>4. \A lj \in 0..(Limit(point) - 1) : to = LayerOf(v, lj, point) => li = lj
    BY <1>1, <1>2, <2>1
  <2>5. to \in DOMAIN v.now[Kind(point)] /\ Kind(point) = "maps"
    BY <1>3, <1>6, <2>2 DEF Kind
  <2> QED
    BY <1>5, <2>2, <2>3, <2>4, <2>5 DEF fb, to, n, m
<1>7. CASE point
  <2>1. li \in 0..(6 * m - 1) /\ fb = m * (6 * c + n) + FaceOf(li)
        /\ to = 6 * a + FaceOf(li)
        /\ \A lj \in 0..(Limit(point) - 1) :
            lj \in 0..(6 * m - 1) /\ LayerOf(v, lj, point) = 6 * a + FaceOf(lj)
    BY <1>7 DEF Limit, Contents!depth_fb_idx, LayerOf, FaceOf
  <2>2. \A lj \in 0..(6 * m - 1) : FaceOf(lj) \in 0..(6 * m - 1) /\ FaceOf(FaceOf(lj)) = lj
    BY <1>1, FacesAre
  <2> HIDE DEF a, b, c, n, m, fb, to
  <2> DEFINE k == FaceOf(li)
  <2>3. k \in 0..(6 * m - 1)
    BY <2>1, <2>2
  <2>4. fb = 6 * a + b + k /\ to = 6 * a + k
    BY <1>2, <2>1
  <2> HIDE DEF k
  <2>5. fb \in 0..(7 * b - 1) /\ ~(fb < b) /\ to \in 0..(6 * b - 1) /\ fb - b = to
    BY <1>1, <1>2, <2>3, <2>4
  <2>6. Contents!DepthFrameBuffers(n)[fb] = <<"cubes", to>>
    BY <1>4, <2>5
  <2>7. ASSUME NEW lj \in 0..(Limit(point) - 1), to = LayerOf(v, lj, point)
        PROVE  li = lj
    <3>1. lj \in 0..(6 * m - 1) /\ FaceOf(lj) \in 0..(6 * m - 1) /\ to = 6 * a + FaceOf(lj)
      BY <2>1, <2>2, <2>7
    <3>2. k = FaceOf(lj)
      BY <1>1, <1>2, <2>3, <2>4, <3>1
    <3> QED
      BY <2>1, <2>2, <3>1, <3>2 DEF k
  <2>8. to \in DOMAIN v.now[Kind(point)] /\ Kind(point) = "cubes"
    BY <1>3, <1>7, <2>5 DEF Kind
  <2> QED
    BY <1>5, <2>5, <2>6, <2>7, <2>8 DEF fb, to, n, m
<1> QED
  BY <1>6, <1>7

(* Between passes. *)
Passing(v, r) ==
    /\ DOMAIN r = RecordedFields /\ r.cur_tex = 1
    /\ DOMAIN r.now = HeldImages /\ \A t \in HeldImages : DOMAIN r.now[t] = DOMAIN v.now[t]
    /\ r.now.tex = v.now.tex /\ r.now.font = v.now.font /\ r.now.buffers = v.now.buffers

LEMMA PassIs ==
    ASSUME NEW v, BetweenIs(v), LayersAre(v.fbs, v.n), NEW r, Passing(v, r),
           NEW point \in BOOLEAN, NEW li \in 0..(Limit(point) - 1)
    PROVE  /\ Passing(v, Contents!record_depth_pass(v, r, li, point))
           /\ Contents!record_depth_pass(v, r, li, point).now
                = [r.now EXCEPT ![Kind(point)][LayerOf(v, li, point)]
                    = Contents!ExpectedDepth(v.ubo[RegionOf(v, li, point)])]
<1> DEFINE fb == v.fbs[Contents!depth_fb_idx(v, li, point)]
           t == Kind(point)
           i == LayerOf(v, li, point)
           w == v.ubo[RegionOf(v, li, point)]
           x == Contents!Entry("depth", Contents!sprite_depth, "sprites")
           r1 == [r EXCEPT !.color = <<>>, !.depth = <<>>, !.at = Contents!MapSize]
           r2 == [r1 EXCEPT !.lights = 0, !.tex = 1]
           r3 == [r2 EXCEPT !.camera = RegionOf(v, li, point)]
           s == Contents!DrawStage(v, r3, x, Contents!NoSet)
           z == [s EXCEPT !.now[t][i] = s.depth]
<1>1. fb = <<t, i>> /\ t \in {"maps", "cubes"} /\ t # Contents!Nobody
  <2>1. FramesAre(v)
    BY DEF BetweenIs
  <2>2. /\ Contents!depth_fb_idx(v, li, point) \in 0..(7 * v.n * MaxLights - 1)
        /\ Contents!DepthFrameBuffers(v.n)[Contents!depth_fb_idx(v, li, point)] = <<t, i>>
    BY <2>1, LayerIs
  <2>3. t \in {"maps", "cubes"} /\ t # Contents!Nobody
    BY DEF Kind, Contents!Nobody
  <2> QED
    BY <2>2, <2>3 DEF LayersAre
<1>2. Contents!record_depth_pass(v, r, li, point) = z
  <2> DEFINE drawn == Contents!DrawStages(v, r3, Contents!RenderList.depth, Contents!NoSet)
  <2>1. Contents!RenderList.depth = <<x>>
    BY DEF Contents!RenderList
  <2>2. drawn = s
    BY <2>1, OneStage
  <2>3. Contents!record_depth_pass(v, r, li, point)
        = IF fb[1] = Contents!Nobody THEN drawn ELSE [drawn EXCEPT !.now[fb[1]][fb[2]] = drawn.depth]
    BY DEF Contents!record_depth_pass, RegionOf
  <2> HIDE DEF drawn, s, fb, t, i
  <2> QED
    BY <1>1, <2>2, <2>3
<1>3. DOMAIN r = RecordedFields /\ r.cur_tex = 1 /\ DOMAIN r.now = HeldImages
      /\ r.now.tex = v.now.tex /\ r.now.font = v.now.font /\ r.now.buffers = v.now.buffers
  BY DEF Passing
<1>4. DOMAIN r1 = RecordedFields /\ r1.color = <<>> /\ r1.depth = <<>> /\ r1.at = Contents!MapSize
      /\ r1.cur_tex = r.cur_tex /\ r1.now = r.now
  BY <1>3 DEF RecordedFields
<1> HIDE DEF r1
<1>5. DOMAIN r2 = RecordedFields /\ r2.color = <<>> /\ r2.depth = <<>> /\ r2.at = Contents!MapSize
      /\ r2.cur_tex = r.cur_tex /\ r2.tex = 1 /\ r2.now = r.now
  BY <1>4 DEF RecordedFields
<1> HIDE DEF r2
<1>6. DOMAIN r3 = RecordedFields /\ r3.color = <<>> /\ r3.depth = <<>> /\ r3.at = Contents!MapSize
      /\ r3.cur_tex = r.cur_tex /\ r3.tex = 1 /\ r3.now = r.now
      /\ r3.camera = RegionOf(v, li, point)
  BY <1>5 DEF RecordedFields
<1> HIDE DEF r3
<1>7. Recorded(v, r3)
  BY <1>3, <1>6 DEF Recorded
<1>8. x.of = "sprites" /\ x.pipe = Contents!sprite_depth
  BY DEF Contents!Entry
<1>9. Contents!sprite_depth = [type |-> "SPRITE_DEPTH", test |-> TRUE, write |-> TRUE,
                      textured |-> TRUE, lit |-> FALSE]
  BY DEF Contents!sprite_depth, Contents!Pipeline
<1> HIDE DEF x
<1> DEFINE d == DrawnAs(v, r3, x, Contents!NoSet)
<1>10. /\ v.sizes[x.of] = 0 => s = r3
       /\ v.sizes[x.of] # 0 => s.depth = Append(r3.depth, d) /\ s.tex = SetFor(x, Contents!NoSet)
       /\ Recorded(v, s) /\ SameBound(r3, s)
  <2>1. /\ v.sizes[x.of] = 0 => s = r3
        /\ v.sizes[x.of] # 0 =>
             /\ s.color = Append(r3.color, d)
             /\ s.depth = IF x.pipe.write THEN Append(r3.depth, d) ELSE r3.depth
             /\ s.tex = SetFor(x, Contents!NoSet)
        /\ Recorded(v, s) /\ SameBound(r3, s)
    BY <1>7, StageIs
  <2>2. x.pipe.write = TRUE
    BY <1>8, <1>9
  <2> HIDE DEF s, d
  <2> QED
    BY <2>1, <2>2
<1>11. v.sizes[x.of] = objects[x.of] /\ x.of \in Contents!Objects
  BY <1>8 DEF BetweenIs, ObjectsAre, Contents!Objects
<1>12. s.depth = Contents!ExpectedDepth(w)
  <2> DEFINE e == ExpectedAs(x, w, Contents!NoLights, <<>>, "1", <<>>, <<>>, Contents!MapSize)
  <2>1. Ready(v, r3, x, w, Contents!NoLights, <<>>, "1")
    <3>1. Contents!NamesOf(<<>>) = <<>>
      BY DEF Contents!NamesOf
    <3>2. Contents!NamesOf(r3.depth) = Contents!Hiding(r3.color)
      BY <1>6, <3>1 DEF Contents!Hiding
    <3> QED
      BY <1>6, <1>7, <1>8, <1>9, <3>2 DEF Ready
  <2>2. BoundIs(Contents!NoSet, <<>>)
    BY DEF BoundIs
  <2>3. objects[x.of] # 0 => d = e
    <3> SUFFICES ASSUME objects[x.of] # 0 PROVE d = e
      OBVIOUS
    <3>1. d = ExpectedAs(x, w, Contents!NoLights, <<>>, "1", <<>>, r3.color, r3.at)
      BY <1>11, <2>1, <2>2, DrawnAsExpected
    <3> QED
      BY <1>6, <3>1
  <2>4. e = Contents!Drawing("sprites", objects["sprites"], Contents!sprite_depth, w, Contents!NoLights, pictures["tex"],
                <<>>, "1", <<>>, Contents!MapSize)
    <3>1. TexOf(x, <<>>) = pictures["tex"]
      BY <1>8, <1>9 DEF TexOf
    <3>2. Contents!Hiding(<<>>) = <<>>
      BY DEF Contents!Hiding, Contents!NamesOf
    <3> QED
      BY <1>8, <3>1, <3>2 DEF ExpectedAs
  <2>5. Contents!ExpectedDepth(w) = IF objects["sprites"] = 0 THEN <<>>
            ELSE <<Contents!Drawing("sprites", objects["sprites"], Contents!sprite_depth, w, Contents!NoLights,
                pictures["tex"], <<>>, "1", <<>>, Contents!MapSize)>>
    BY DEF Contents!ExpectedDepth, Contents!RenderList, Contents!Entry
  <2> HIDE DEF d, e, s, w
  <2>6. CASE objects["sprites"] = 0
    BY <1>6, <1>8, <1>10, <1>11, <2>5, <2>6
  <2>7. CASE objects["sprites"] # 0
    <3>1. s.depth = Append(<<>>, d)
      BY <1>6, <1>8, <1>10, <1>11, <2>7
    <3>2. Append(<<>>, d) = <<d>>
      OBVIOUS
    <3> QED
      BY <1>8, <2>3, <2>4, <2>5, <2>7, <3>1, <3>2
  <2> QED
    BY <2>6, <2>7
<1>13. s.cur_tex = 1 /\ s.now = r.now /\ DOMAIN s = RecordedFields
  <2>1. SetFor(x, Contents!NoSet) = 1
    BY <1>8, <1>9 DEF SetFor
  <2>2. s.tex = s.cur_tex /\ DOMAIN s = RecordedFields
    BY <1>10 DEF Recorded
  <2>3. s.now = r3.now
    BY <1>10 DEF SameBound
  <2> HIDE DEF s
  <2> QED
    BY <1>3, <1>6, <1>10, <2>1, <2>2, <2>3
<1> HIDE DEF s
<1>14. DOMAIN z = RecordedFields /\ z.cur_tex = s.cur_tex
       /\ z.now = [s.now EXCEPT ![t][i] = s.depth]
  BY <1>13 DEF RecordedFields
<1> HIDE DEF z
<1>15. z.now = [r.now EXCEPT ![t][i] = Contents!ExpectedDepth(w)]
  BY <1>12, <1>13, <1>14
<1>16. Passing(v, z)
  <2> DEFINE e == Contents!ExpectedDepth(w)
  <2> HIDE DEF e, w, t, i
  <2>1. \A k \in HeldImages : z.now[k] = IF k = t THEN [r.now[t] EXCEPT ![i] = e] ELSE r.now[k]
    BY <1>3, <1>15 DEF e
  <2>2. DOMAIN z.now = HeldImages
    BY <1>3, <1>15
  <2>3. \A k \in HeldImages : DOMAIN r.now[k] = DOMAIN v.now[k]
    BY DEF Passing
  <2>4. \A k \in HeldImages : DOMAIN z.now[k] = DOMAIN v.now[k]
    BY <2>1, <2>3
  <2>5. z.now.tex = r.now.tex /\ z.now.font = r.now.font /\ z.now.buffers = r.now.buffers
    BY <1>1, <2>1 DEF HeldImages
  <2> QED
    BY <1>3, <1>13, <1>14, <2>2, <2>4, <2>5 DEF Passing
<1> QED
  BY <1>2, <1>15, <1>16

(* Passes draw to the first layers of the frame. *)
PassesLeave(v, r, s, n, point) ==
    /\ Passing(v, s)
    /\ \A t \in HeldImages : t # Kind(point) => s.now[t] = r.now[t]
    /\ \A li \in 0..(n - 1) :
        s.now[Kind(point)][LayerOf(v, li, point)] = Contents!ExpectedDepth(v.ubo[RegionOf(v, li, point)])

LEMMA PassesDraw ==
    ASSUME NEW v, BetweenIs(v), LayersAre(v.fbs, v.n), NEW r, Passing(v, r),
           NEW point \in BOOLEAN, NEW n \in 0..Limit(point)
    PROVE  PassesLeave(v, r, Contents!DepthPasses(v, r, n, point), n, point)
<1> DEFINE seq == [l \in 1..n |-> l]
           limit == Limit(point)
           t == Kind(point)
           e(li) == Contents!ExpectedDepth(v.ubo[RegionOf(v, li, point)])
<1>1. n \in Nat /\ limit \in Nat /\ Len(seq) = n /\ Len(seq) \in Nat
  BY VulkanGiven DEF Limit
<1> HIDE DEF e, limit
<1>2. PICK at :
        /\ Contents!DepthPasses(v, r, n, point) = at[Len(seq)] /\ at[0] = r
        /\ \A k \in 1..Len(seq) : at[k] = Contents!record_depth_pass(v, at[k - 1], seq[k] - 1, point)
  <2>1. seq = [l \in 1..n |-> l]
    OBVIOUS
  <2> HIDE DEF seq
  <2> QED
    BY <1>1, <2>1, PassesAre
<1> DEFINE Q(k) == PassesLeave(v, r, at[k], k, point)
           T == {k \in Nat : k <= n => Q(k)}
<1>3. 0 \in T
  <2>1. PassesLeave(v, r, at[0], 0, point)
    <3>1. at[0] = r /\ 0..(0 - 1) = {}
      BY <1>2
    <3> QED
      BY <3>1 DEF PassesLeave
  <2> QED
    BY <2>1
<1>4. ASSUME NEW k \in Nat, k \in T PROVE k + 1 \in T
  <2> SUFFICES ASSUME k + 1 <= n PROVE Q(k + 1)
    OBVIOUS
  <2> DEFINE a == at[k]
             b == at[k + 1]
             i == LayerOf(v, k, point)
  <2>1. PassesLeave(v, r, a, k, point) /\ Passing(v, a)
    BY <1>1, <1>4 DEF PassesLeave
  <2>2. b = Contents!record_depth_pass(v, a, k, point)
    <3>1. k + 1 \in 1..Len(seq) /\ (k + 1) - 1 = k /\ seq[k + 1] = k + 1
      BY <1>1
    <3> HIDE DEF seq
    <3> QED
      BY <1>2, <3>1
  <2>3. k \in 0..(limit - 1)
    BY <1>1 DEF limit
  <2> HIDE DEF a, b
  <2>4. Passing(v, b) /\ b.now = [a.now EXCEPT ![t][i] = e(k)]
    BY <2>1, <2>2, <2>3, PassIs DEF limit, e
  <2>5. /\ DOMAIN a.now = HeldImages /\ t \in HeldImages /\ DOMAIN a.now[t] = DOMAIN v.now[t]
    BY <2>1 DEF Passing, Kind, HeldImages
  <2>6. /\ \A x \in HeldImages : x # t => b.now[x] = a.now[x]
        /\ b.now[t] = [a.now[t] EXCEPT ![i] = e(k)]
    BY <2>4, <2>5
  <2>7. FramesAre(v)
    BY DEF BetweenIs
  <2>8. \A li \in 0..(limit - 1) : LayerOf(v, li, point) \in DOMAIN v.now[t]
            /\ \A lj \in 0..(limit - 1) :
                LayerOf(v, li, point) = LayerOf(v, lj, point) => li = lj
    BY <2>7, LayerIs DEF limit
  <2>9. ASSUME NEW li \in 0..k
        PROVE  b.now[t][LayerOf(v, li, point)] = e(li)
    <3> DEFINE j == LayerOf(v, li, point)
    <3>1. li \in 0..(limit - 1) /\ j \in DOMAIN a.now[t]
      BY <1>1, <2>3, <2>5, <2>8
    <3>2. CASE li = k
      BY <2>6, <3>1, <3>2
    <3>3. CASE li # k
      <4>1. li \in 0..(k - 1) /\ j # i
        BY <1>1, <2>3, <2>8, <3>1, <3>3
      <4>2. a.now[t][j] = e(li)
        BY <2>1, <4>1 DEF PassesLeave, e
      <4> HIDE DEF j, i
      <4>3. b.now[t][j] = a.now[t][j]
        BY <2>6, <3>1, <4>1
      <4> QED
        BY <4>2, <4>3 DEF j
    <3> QED
      BY <3>2, <3>3
  <2>10. \A x \in HeldImages : x # t => a.now[x] = r.now[x]
    BY <2>1 DEF PassesLeave
  <2>11. (k + 1) - 1 = k
    OBVIOUS
  <2>12. PassesLeave(v, r, b, k + 1, point)
    BY <2>4, <2>6, <2>9, <2>10, <2>11 DEF PassesLeave, e
  <2> QED
    BY <2>12 DEF b
<1> HIDE DEF T
<1>5. \A k \in Nat : k \in T
  BY <1>3, <1>4, SetInduction
<1>6. Q(n)
  BY <1>1, <1>5 DEF T
<1> QED
  BY <1>1, <1>2, <1>6
-----------------------------------------------------------------------------
(* What pipelines that are lit read.                                       *)

(* Layers of the frame have the maps of shadows. *)
LayersDrawn(v, now) ==
    /\ \A li \in 0..(lamps.n_dir - 1) :
        now.maps[LayerOf(v, li, FALSE)] = Contents!ExpectedDepth(Contents!DirView(li + 1, lamps.v))
    /\ \A li \in 0..(6 * lamps.n_point - 1) :
        now.cubes[LayerOf(v, li, TRUE)]
            = Contents!ExpectedDepth(Contents!PointView((li \div 6) + 1, Contents!Looks[(li % 6) + 1], lamps.v))

LEMMA LitBy ==
    ASSUME NEW v, FramesAre(v), SetsAre(v), LightsAre(v.ubo, v.n, v.cur), lamps \in Lamps,
           NEW r, r.lights = v.cur, lamps.shadows => LayersDrawn(v, r.now)
    PROVE  LightsFrom(v, r, lamps, Contents!ExpectedShadows)
<1> DEFINE n == v.n
           c == v.cur
           m == MaxLights
           set == v.light_sets[r.lights]
           a == m * c
<1>1. n \in Nat \ {0} /\ c \in 0..(n - 1) /\ m \in Nat \ {0} /\ a \in Nat
      /\ lamps.n_dir \in 0..m /\ lamps.n_point \in 0..m
  BY VulkanGiven DEF FramesAre
<1>2. set.region = Contents!offset_lights(n, c) /\ set.frame = c /\ set.maps = "maps"
      /\ set.cubes = "cubes"
  <2>1. c \in 0..n /\ c % n = c
    <3>1. c \in Nat /\ n \in Nat /\ c < n
      BY <1>1
    <3> QED
      BY <3>1
  <2>2. SetIs(v.light_sets[c], n, c)
    BY <2>1 DEF SetsAre
  <2> QED
    BY <2>1, <2>2 DEF SetIs
<1>3. v.ubo[set.region] = lamps
  BY <1>2 DEF LightsAre, LightsFor
<1>4. CASE ~lamps.shadows
  <2>1. Contents!ShadowsOf(v, r, lamps) = <<>> /\ Contents!ExpectedShadows = <<>>
    BY <1>4 DEF Contents!ShadowsOf, Contents!ExpectedShadows
  <2> QED
    BY <1>3, <2>1 DEF LightsFrom
<1>5. CASE lamps.shadows
  <2>1. LayersDrawn(v, r.now)
    BY <1>5
  <2> DEFINE X == (1..lamps.n_point) \X (1..6)
             D == [i \in 1..lamps.n_dir |-> r.now.maps[a + i - 1]]
             P == [x \in X |-> r.now.cubes[6 * (a + x[1] - 1) + x[2] - 1]]
             ED == [i \in 1..lamps.n_dir |-> Contents!ExpectedDepth(Contents!DirView(i, lamps.v))]
             EP == [x \in X |-> Contents!ExpectedDepth(Contents!PointView(x[1], Contents!Faces[x[2]], lamps.v))]
  <2>2. Contents!ShadowsOf(v, r, lamps) = <<D, P>>
    <3> DEFINE layer(t, i) == IF set[t] = Contents!Nobody THEN Contents!Undefined ELSE r.now[t][i]
    <3>1. \A i : layer("maps", i) = r.now.maps[i] /\ layer("cubes", i) = r.now.cubes[i]
      BY <1>2 DEF Contents!Nobody
    <3>2. Contents!ShadowsOf(v, r, lamps)
            = <<[i \in 1..lamps.n_dir |-> layer("maps", m * set.frame + i - 1)],
                [x \in X |-> layer("cubes", 6 * (m * set.frame + x[1] - 1) + x[2] - 1)]>>
      BY <1>5 DEF Contents!ShadowsOf
    <3> HIDE DEF layer, set, X
    <3> QED
      BY <1>2, <3>1, <3>2
  <2>3. Contents!ExpectedShadows = <<ED, EP>>
    BY <1>5 DEF Contents!ExpectedShadows
  <2>4. D = ED
    <3>1. ASSUME NEW i \in 1..lamps.n_dir PROVE D[i] = ED[i]
      <4>1. i - 1 \in 0..(lamps.n_dir - 1) /\ (i - 1) + 1 = i /\ a + i - 1 = a + (i - 1)
        BY <1>1
      <4>2. LayerOf(v, i - 1, FALSE) = a + (i - 1)
        BY DEF LayerOf
      <4>3. r.now.maps[LayerOf(v, i - 1, FALSE)] = Contents!ExpectedDepth(Contents!DirView((i - 1) + 1, lamps.v))
        BY <2>1, <4>1 DEF LayersDrawn
      <4> HIDE DEF a
      <4> QED
        BY <4>1, <4>2, <4>3
    <3> QED
      BY <3>1
  <2>5. P = EP
    <3>1. ASSUME NEW p \in 1..lamps.n_point, NEW f \in 1..6
          PROVE  /\ r.now.cubes[6 * (a + p - 1) + f - 1]
                    = Contents!ExpectedDepth(Contents!PointView(p, Contents!Faces[f], lamps.v))
      <4> DEFINE k == 6 * (p - 1) + (f - 1)
                 li == FaceOf(k)
                 np == lamps.n_point
      <4>1. np \in Nat /\ k \in 0..(6 * np - 1) /\ k \div 6 = p - 1 /\ k % 6 = f - 1
        <5> DEFINE q == p - 1
                   g == f - 1
        <5>1. np \in Nat /\ q \in 0..(np - 1) /\ g \in 0..5 /\ k = 6 * q + g
          BY <1>1
        <5> HIDE DEF np, q, g, k
        <5>2. k \in 0..(6 * np - 1)
          BY <5>1
        <5>3. k \div 6 = q /\ k % 6 = g
          <6>1. q \in Nat
            BY <5>1
          <6> QED
            BY <5>1, <6>1
        <5> QED
          BY <5>1, <5>2, <5>3 DEF q, g
      <4> HIDE DEF k
      <4>2. /\ li \in 0..(6 * np - 1) /\ FaceOf(li) = k /\ li \div 6 = p - 1
            /\ li % 6 = IF f - 1 = 2 THEN 3 ELSE IF f - 1 = 3 THEN 2 ELSE f - 1
        BY <4>1, FacesAre
      <4>3. (li \div 6) + 1 = p
        BY <1>1, <4>2
      <4>4. Contents!Looks[(li % 6) + 1] = Contents!Faces[f]
        <5>1. (li % 6) + 1 = IF f = 3 THEN 4 ELSE IF f = 4 THEN 3 ELSE f
          BY <4>2
        <5> HIDE DEF li
        <5>2. CASE f = 1
          BY <5>1, <5>2 DEF Contents!Looks, Contents!Faces
        <5>3. CASE f = 2
          BY <5>1, <5>3 DEF Contents!Looks, Contents!Faces
        <5>4. CASE f = 3
          BY <5>1, <5>4 DEF Contents!Looks, Contents!Faces
        <5>5. CASE f = 4
          BY <5>1, <5>5 DEF Contents!Looks, Contents!Faces
        <5>6. CASE f = 5
          BY <5>1, <5>6 DEF Contents!Looks, Contents!Faces
        <5>7. CASE f = 6
          BY <5>1, <5>7 DEF Contents!Looks, Contents!Faces
        <5> QED
          BY <5>2, <5>3, <5>4, <5>5, <5>6, <5>7
      <4>5. LayerOf(v, li, TRUE) = 6 * a + k
        BY <4>2 DEF LayerOf
      <4>6. 6 * (a + p - 1) + f - 1 = 6 * a + k
        BY <1>1 DEF k
      <4>7. r.now.cubes[LayerOf(v, li, TRUE)]
              = Contents!ExpectedDepth(Contents!PointView((li \div 6) + 1, Contents!Looks[(li % 6) + 1], lamps.v))
        BY <2>1, <4>2 DEF LayersDrawn
      <4> HIDE DEF li, a
      <4> QED
        BY <4>3, <4>4, <4>5, <4>6, <4>7
    <3>2. ASSUME NEW x \in X PROVE P[x] = EP[x]
      <4>1. x[1] \in 1..lamps.n_point /\ x[2] \in 1..6
        OBVIOUS
      <4>2. r.now.cubes[6 * (a + x[1] - 1) + x[2] - 1]
              = Contents!ExpectedDepth(Contents!PointView(x[1], Contents!Faces[x[2]], lamps.v))
        BY <3>1, <4>1
      <4> QED
        BY <4>2
    <3> HIDE DEF X
    <3> QED
      BY <3>2
  <2> HIDE DEF D, P, ED, EP
  <2> QED
    BY <1>3, <2>2, <2>3, <2>4, <2>5 DEF LightsFrom
<1> QED
  BY <1>4, <1>5

LEMMA NotLit ==
    ASSUME NEW v, FramesAre(v), SetsAre(v), NEW r, r.lights = v.n
    PROVE  LightsFrom(v, r, Contents!NoLights, <<>>)
<1>1. v.n \in Nat \ {0}
  BY VulkanGiven DEF FramesAre
<1>2. SetIs(v.light_sets[v.n], v.n, v.n)
  BY <1>1 DEF SetsAre
<1>3. v.light_sets[r.lights].region = Contents!offset_lights(v.n, v.n)
  BY <1>2 DEF SetIs
<1>4. v.ubo[v.light_sets[r.lights].region] = Contents!NoLights
  BY <1>3 DEF FramesAre
<1>5. ~Contents!NoLights.shadows
  BY DEF Contents!NoLights
<1>6. Contents!ShadowsOf(v, r, Contents!NoLights) = <<>>
  BY <1>5 DEF Contents!ShadowsOf
<1> QED
  BY <1>4, <1>6 DEF LightsFrom

-----------------------------------------------------------------------------
(* A frame.                                                                *)

AtStage(v, r, now, l, w, a) ==
    /\ Recorded(v, r) /\ r.now = now /\ r.lights = l /\ v.ubo[r.camera] = w
    /\ r.alpha = a /\ r.at = size

(* What the stage draws with, and what it leaves. *)
StageOf(v, r, x, forced, texels, now, l, w, a, lights, shadows, alpha) ==
    /\ x.of \in Contents!Objects /\ BoundIs(forced, texels) /\ AtStage(v, r, now, l, w, a)
    /\ x.pipe.lit => LightsFrom(v, r, lights, shadows)
    /\ x.pipe.type = "TRIANGLE" => a = alpha
    /\ x.pipe.test => Under(r)

StageLeaves(v, r, s, x, forced, now, l, w, a, e) ==
    /\ AtStage(v, s, now, l, w, a) /\ DrawnIs(r, s, x)
    /\ s.color = e
    /\ r.tex = 1 /\ SetFor(x, forced) = 1 => s.tex = 1

LEMMA NextStage ==
    ASSUME NEW v, BetweenIs(v), NEW x, NEW r, NEW forced, NEW texels,
           NEW now, NEW l, NEW w, NEW a, NEW lights, NEW shadows, NEW alpha,
           StageOf(v, r, x, forced, texels, now, l, w, a, lights, shadows, alpha)
    PROVE  StageLeaves(v, r, Contents!DrawStage(v, r, x, forced), x, forced, now, l, w, a,
            ExpectedOf(x, w, lights, shadows, alpha, texels, r.color))
<1> DEFINE e == ExpectedOf(x, w, lights, shadows, alpha, texels, r.color)
           s == Contents!DrawStage(v, r, x, forced)
<1>1. r.at = size /\ v.ubo[r.camera] = w /\ Recorded(v, r) /\ r.alpha = a
      /\ x.of \in Contents!Objects /\ BoundIs(forced, texels)
  BY DEF StageOf, AtStage
<1>2. Ready(v, r, x, w, lights, shadows, alpha)
  BY <1>1 DEF StageOf, Ready, Under
<1>3. StageShows(v, r, s, x, forced, e)
  BY <1>1, <1>2, StageIsExpected
<1> HIDE DEF e, s
<1>4. s.color = e /\ Recorded(v, s) /\ SameBound(r, s) /\ DrawnIs(r, s, x)
      /\ (r.tex = 1 /\ SetFor(x, forced) = 1 => s.tex = 1)
  BY <1>3 DEF StageShows
<1>5. AtStage(v, s, now, l, w, a)
  BY <1>4 DEF AtStage, SameBound, StageOf
<1> QED
  BY <1>4, <1>5 DEF e, s, StageLeaves

(* The entries of lists. *)
MapEntry == IF view.persp THEN Contents!Entry("map_persp", Contents!sprite, "map")
            ELSE Contents!Entry("map_ortho", Contents!circle, "map")
CubesEntry == Contents!Entry("normal", Contents!triangle, "cubes")
SpritesEntry == Contents!Entry("normal", Contents!sprite, "sprites")
TranslucentEntry == Contents!Entry("no_light", Contents!sprite, "translucent")
SelectionEntry == Contents!Entry("overlay", Contents!box, "selection")
TriangleEntry == Contents!Entry("screen", Contents!box, "triangle")
TextEntry == Contents!Entry("screen", Contents!font, "text")
ShadowMapsEntry == Contents!Entry("shadow_maps", Contents!circle, "depth")

Entries == {MapEntry, CubesEntry, SpritesEntry, TranslucentEntry, SelectionEntry,
    TriangleEntry, TextEntry, ShadowMapsEntry}

LEMMA ListsAre ==
    /\ Contents!RenderList.normal = <<CubesEntry, SpritesEntry>>
    /\ (IF view.persp THEN Contents!RenderList.map_persp ELSE Contents!RenderList.map_ortho) = <<MapEntry>>
    /\ (IF view.persp THEN Contents!RenderList.map_persp ELSE Contents!RenderList.map_ortho) \o Contents!RenderList.normal
        = <<MapEntry, CubesEntry, SpritesEntry>>
    /\ Contents!RenderList.no_light = <<TranslucentEntry>>
    /\ Contents!RenderList.overlay = <<SelectionEntry>>
    /\ Contents!RenderList.screen = <<TriangleEntry, TextEntry>>
    /\ Contents!RenderList.shadow_maps = <<ShadowMapsEntry>>
<1> DEFINE map == IF view.persp THEN Contents!RenderList.map_persp ELSE Contents!RenderList.map_ortho
<1>1. /\ Contents!RenderList.normal = <<CubesEntry, SpritesEntry>>
      /\ Contents!RenderList.no_light = <<TranslucentEntry>>
      /\ Contents!RenderList.overlay = <<SelectionEntry>>
      /\ Contents!RenderList.screen = <<TriangleEntry, TextEntry>>
      /\ Contents!RenderList.shadow_maps = <<ShadowMapsEntry>>
  BY DEF Contents!RenderList, CubesEntry, SpritesEntry, TranslucentEntry, SelectionEntry,
         TriangleEntry, TextEntry, ShadowMapsEntry
<1>2. map = <<MapEntry>>
  BY DEF Contents!RenderList, MapEntry
<1> HIDE DEF map
<1>3. map \o Contents!RenderList.normal = <<MapEntry, CubesEntry, SpritesEntry>>
  <2> SUFFICES ASSUME NEW x, NEW y, NEW z PROVE <<x>> \o <<y, z>> = <<x, y, z>>
    BY <1>1, <1>2
  <2> DEFINE S == {x, y, z}
             a == <<x>>
             b == <<y, z>>
             c == a \o b
             d == <<x, y, z>>
  <2>1. /\ a \in Seq(S) /\ Len(a) = 1 /\ a[1] = x
        /\ b \in Seq(S) /\ Len(b) = 2 /\ b[1] = y /\ b[2] = z
        /\ d \in Seq(S) /\ Len(d) = 3 /\ d[1] = x /\ d[2] = y /\ d[3] = z
    OBVIOUS
  <2> HIDE DEF a, b, d, S
  <2>2. c \in Seq(S) /\ Len(c) = Len(a) + Len(b)
        /\ \A i \in 1..(Len(a) + Len(b)) : c[i] = IF i <= Len(a) THEN a[i] ELSE b[i - Len(a)]
    BY <2>1, ConcatProperties
  <2> HIDE DEF c
  <2>3. Len(c) = 3 /\ c[1] = x /\ c[2] = y /\ c[3] = z
    <3>1. Len(c) = 3
      BY <2>1, <2>2
    <3>2. 1 \in 1..Len(c) /\ 2 \in 1..Len(c) /\ 3 \in 1..Len(c)
      BY <3>1
    <3>3. c[1] = a[1] /\ c[2] = b[2 - 1] /\ c[3] = b[3 - 1]
      BY <2>1, <2>2, <3>2
    <3>4. 2 - 1 = 1 /\ 3 - 1 = 2
      OBVIOUS
    <3> QED
      BY <2>1, <3>1, <3>3, <3>4
  <2>4. \A i \in 1..3 : c[i] = d[i]
    BY <2>1, <2>3
  <2>5. c = d
    BY <2>1, <2>2, <2>3, <2>4, SeqEqual
  <2> QED
    BY <2>5 DEF a, b, c, d
<1> QED
  BY <1>1, <1>2, <1>3 DEF map

LEMMA EntriesAre ==
    /\ \A x \in Entries : x.of \in Contents!Objects
    /\ MapEntry.of = "map" /\ CubesEntry.of # "map" /\ SpritesEntry.of # "map"
    /\ TranslucentEntry.of # "map"
    /\ view.persp => MapEntry.pipe = Contents!sprite
    /\ ~view.persp => MapEntry.pipe = Contents!circle
    /\ CubesEntry.pipe = Contents!triangle /\ SpritesEntry.pipe = Contents!sprite
    /\ TranslucentEntry.pipe = Contents!sprite /\ SelectionEntry.pipe = Contents!box
    /\ TriangleEntry.pipe = Contents!box /\ TextEntry.pipe = Contents!font /\ ShadowMapsEntry.pipe = Contents!circle
  BY DEF Entries, MapEntry, CubesEntry, SpritesEntry, TranslucentEntry, SelectionEntry,
         TriangleEntry, TextEntry, ShadowMapsEntry, Contents!Entry, Contents!Objects

LEMMA PipelinesAre ==
    /\ Contents!sprite.type = "SPRITE" /\ Contents!circle.type = "SPRITE"
    /\ Contents!triangle.type = "TRIANGLE" /\ Contents!box.type = "TRIANGLE" /\ Contents!font.type = "FONT"
    /\ Contents!sprite.write = TRUE /\ Contents!triangle.write = TRUE /\ Contents!circle.write = FALSE
    /\ Contents!box.test = FALSE /\ Contents!font.test = FALSE /\ Contents!circle.test = FALSE /\ Contents!font.lit = FALSE
  BY DEF Contents!sprite, Contents!circle, Contents!triangle, Contents!box, Contents!font, Contents!Pipeline

(* The map and what is on it. *)
LEMMA SceneDrawn ==
    ASSUME NEW v, BetweenIs(v), NEW r, NEW now, NEW w,
           AtStage(v, r, now, v.cur, w, "1"), r.tex = 1, r.color = <<>>, r.depth = <<>>,
           LightsAre(v.ubo, v.n, v.cur), lamps \in Lamps,
           lamps.shadows => LayersDrawn(v, now), view \in Views,
           NEW m, m = Contents!DrawStage(v, r, MapEntry, Contents!NoSet),
           NEW c, c = Contents!DrawStage(v, m, CubesEntry, Contents!NoSet),
           NEW s, s = Contents!DrawStage(v, c, SpritesEntry, Contents!NoSet)
    PROVE  /\ AtStage(v, s, now, v.cur, w, "1") /\ s.tex = 1 /\ Under(s)
           /\ s.color = Contents!Expected(<<MapEntry, CubesEntry, SpritesEntry>>, w, lamps,
                Contents!ExpectedShadows, "1", <<>>, <<>>)
<1> DEFINE l == v.cur
           of(x, j) == ExpectedOf(x, w, lamps, Contents!ExpectedShadows, "1", <<>>, j)
<1>1. /\ MapEntry.of \in Contents!Objects /\ CubesEntry.of \in Contents!Objects /\ SpritesEntry.of \in Contents!Objects
      /\ view.persp \in BOOLEAN
  BY EntriesAre, VulkanGiven DEF Entries
<1>2. BoundIs(Contents!NoSet, <<>>)
  BY DEF BoundIs
<1>3. SetFor(MapEntry, Contents!NoSet) = 1 /\ SetFor(CubesEntry, Contents!NoSet) = 1
      /\ SetFor(SpritesEntry, Contents!NoSet) = 1
  <2>1. MapEntry.pipe.type # "FONT"
    BY EntriesAre, PipelinesAre
  <2>2. CubesEntry.pipe.type # "FONT" /\ SpritesEntry.pipe.type # "FONT"
    BY EntriesAre, PipelinesAre
  <2> QED
    BY <2>1, <2>2 DEF SetFor
<1>4. ASSUME NEW y, AtStage(v, y, now, l, w, "1")
      PROVE  LightsFrom(v, y, lamps, Contents!ExpectedShadows)
  <2>1. FramesAre(v) /\ SetsAre(v)
    BY DEF BetweenIs
  <2>2. y.lights = v.cur /\ y.now = now
    BY <1>4 DEF AtStage
  <2>3. lamps.shadows => LayersDrawn(v, y.now)
    BY <2>2
  <2> QED
    BY <2>1, <2>2, <2>3, LitBy
<1> HIDE DEF l
<1>5. Under(r)
  BY BehindNothing
<1>6. AtStage(v, r, now, l, w, "1")
  BY DEF l
<1>7. /\ AtStage(v, m, now, l, w, "1") /\ DrawnIs(r, m, MapEntry)
      /\ m.color = of(MapEntry, <<>>) /\ m.tex = 1
  <2>1. LightsFrom(v, r, lamps, Contents!ExpectedShadows)
    BY <1>4, <1>6
  <2>2. StageOf(v, r, MapEntry, Contents!NoSet, <<>>, now, l, w, "1", lamps, Contents!ExpectedShadows, "1")
    BY <1>1, <1>2, <1>5, <1>6, <2>1 DEF StageOf
  <2>3. StageLeaves(v, r, m, MapEntry, Contents!NoSet, now, l, w, "1", of(MapEntry, r.color))
    BY <2>2, NextStage
  <2> HIDE DEF of
  <2> QED
    BY <1>3, <2>3 DEF StageLeaves
<1>8. Under(m)
  <2>1. CASE view.persp
    <3>1. MapEntry.pipe.write = TRUE
      BY <2>1, EntriesAre, PipelinesAre
    <3> QED
      BY <1>5, <1>7, <2>1, <3>1, BehindKept
  <2>2. CASE ~view.persp
    <3>1. MapEntry.pipe.write = FALSE /\ MapEntry.of = "map"
      BY <2>2, EntriesAre, PipelinesAre
    <3> QED
      BY <1>7, <2>2, <3>1, BehindMap
  <2> QED
    BY <2>1, <2>2
<1>9. /\ AtStage(v, c, now, l, w, "1") /\ DrawnIs(m, c, CubesEntry)
      /\ c.color = of(CubesEntry, m.color) /\ c.tex = 1
  <2>1. LightsFrom(v, m, lamps, Contents!ExpectedShadows)
    BY <1>4, <1>7
  <2>2. StageOf(v, m, CubesEntry, Contents!NoSet, <<>>, now, l, w, "1", lamps, Contents!ExpectedShadows, "1")
    BY <1>1, <1>2, <1>8, <1>7, <2>1 DEF StageOf
  <2>3. StageLeaves(v, m, c, CubesEntry, Contents!NoSet, now, l, w, "1", of(CubesEntry, m.color))
    BY <2>2, NextStage
  <2> HIDE DEF of
  <2> QED
    BY <1>3, <1>7, <2>3 DEF StageLeaves
<1>10. Under(c)
  <2>1. CubesEntry.pipe.write = TRUE /\ CubesEntry.of # "map"
    BY EntriesAre, PipelinesAre
  <2> QED
    BY <1>8, <1>9, <2>1, BehindKept
<1>11. /\ AtStage(v, s, now, l, w, "1") /\ DrawnIs(c, s, SpritesEntry)
       /\ s.color = of(SpritesEntry, c.color) /\ s.tex = 1
  <2>1. LightsFrom(v, c, lamps, Contents!ExpectedShadows)
    BY <1>4, <1>9
  <2>2. StageOf(v, c, SpritesEntry, Contents!NoSet, <<>>, now, l, w, "1", lamps, Contents!ExpectedShadows, "1")
    BY <1>1, <1>2, <1>10, <1>9, <2>1 DEF StageOf
  <2>3. StageLeaves(v, c, s, SpritesEntry, Contents!NoSet, now, l, w, "1", of(SpritesEntry, c.color))
    BY <2>2, NextStage
  <2> HIDE DEF of
  <2> QED
    BY <1>3, <1>9, <2>3 DEF StageLeaves
<1>12. Under(s)
  <2>1. SpritesEntry.pipe.write = TRUE /\ SpritesEntry.of # "map"
    BY EntriesAre, PipelinesAre
  <2> QED
    BY <1>10, <1>11, <2>1, BehindKept
<1>13. s.color = Contents!Expected(<<MapEntry, CubesEntry, SpritesEntry>>, w, lamps,
                Contents!ExpectedShadows, "1", <<>>, <<>>)
  <2>1. s.color = of(SpritesEntry, of(CubesEntry, of(MapEntry, <<>>)))
    <3> HIDE DEF of
    <3> QED
      BY <1>7, <1>9, <1>11
  <2> QED
    BY <2>1, ThreeExpected
<1> QED
  BY <1>11, <1>12, <1>13 DEF l

(* Without lights. *)
UnlitOf(v, r, x, forced, texels, now, w, a, alpha) ==
    /\ x \in Entries /\ BoundIs(forced, texels) /\ AtStage(v, r, now, v.n, w, a)
    /\ x.pipe.type = "TRIANGLE" => a = alpha
    /\ x.pipe.test => Under(r)

LEMMA UnlitDrawn ==
    ASSUME NEW v, BetweenIs(v), NEW x, NEW r, NEW forced, NEW texels,
           NEW now, NEW w, NEW a, NEW alpha,
           UnlitOf(v, r, x, forced, texels, now, w, a, alpha)
    PROVE  StageLeaves(v, r, Contents!DrawStage(v, r, x, forced), x, forced, now, v.n, w, a,
            ExpectedOf(x, w, Contents!NoLights, <<>>, alpha, texels, r.color))
<1>1. FramesAre(v) /\ SetsAre(v)
  BY DEF BetweenIs
<1>2. r.lights = v.n /\ x \in Entries
  BY DEF UnlitOf, AtStage
<1>3. LightsFrom(v, r, Contents!NoLights, <<>>)
  BY <1>1, <1>2, NotLit
<1>4. x.of \in Contents!Objects
  BY <1>2, EntriesAre
<1>5. StageOf(v, r, x, forced, texels, now, v.n, w, a, Contents!NoLights, <<>>, alpha)
  BY <1>3, <1>4 DEF StageOf, UnlitOf
<1> QED
  BY <1>5, NextStage

(* A frame, of what was recorded before. *)
StartOf(v, r) == [r EXCEPT !.color = <<>>, !.depth = <<>>, !.at = v.extent,
    !.lights = v.cur, !.camera = Contents!offset(v.cur), !.tex = 1, !.alpha = "1"]
ScreenOf(v, r) == [r EXCEPT !.depth = <<>>, !.camera = Contents!offset_screen(v.cur), !.tex = 1]

LEMMA StartIs ==
    ASSUME NEW v, v.extent = size, NEW r, Passing(v, r), NEW w, v.ubo[Contents!offset(v.cur)] = w
    PROVE  /\ AtStage(v, StartOf(v, r), r.now, v.cur, w, "1")
           /\ StartOf(v, r).tex = 1 /\ StartOf(v, r).color = <<>> /\ StartOf(v, r).depth = <<>>
<1> DEFINE r1 == [r EXCEPT !.color = <<>>, !.depth = <<>>, !.at = v.extent]
           r2 == [r1 EXCEPT !.lights = v.cur, !.camera = Contents!offset(v.cur)]
           r3 == [r2 EXCEPT !.tex = 1, !.alpha = "1"]
<1>1. StartOf(v, r) = r3
  BY DEF StartOf
<1>2. DOMAIN r = RecordedFields /\ r.cur_tex = 1 /\ r.now.tex = v.now.tex
      /\ r.now.font = v.now.font /\ r.now.buffers = v.now.buffers
  BY DEF Passing
<1>3. DOMAIN r1 = RecordedFields /\ r1.color = <<>> /\ r1.depth = <<>> /\ r1.at = size
      /\ r1.cur_tex = 1 /\ r1.now = r.now
  BY <1>2 DEF RecordedFields
<1> HIDE DEF r1
<1>4. DOMAIN r2 = RecordedFields /\ r2.color = <<>> /\ r2.depth = <<>> /\ r2.at = size
      /\ r2.cur_tex = 1 /\ r2.now = r.now /\ r2.lights = v.cur /\ r2.camera = Contents!offset(v.cur)
  BY <1>3 DEF RecordedFields
<1> HIDE DEF r2
<1>5. DOMAIN r3 = RecordedFields /\ r3.color = <<>> /\ r3.depth = <<>> /\ r3.at = size
      /\ r3.cur_tex = 1 /\ r3.now = r.now /\ r3.lights = v.cur /\ r3.camera = Contents!offset(v.cur)
      /\ r3.tex = 1 /\ r3.alpha = "1"
  BY <1>4 DEF RecordedFields
<1> HIDE DEF r3
<1>6. Recorded(v, r3)
  BY <1>2, <1>5 DEF Recorded
<1>7. AtStage(v, r3, r.now, v.cur, w, "1")
  BY <1>5, <1>6 DEF AtStage
<1> QED
  BY <1>1, <1>5, <1>7

LEMMA WithoutLights ==
    ASSUME NEW v, NEW r, NEW now, NEW l, NEW k, NEW w, NEW a, AtStage(v, r, now, l, w, a)
    PROVE  /\ AtStage(v, [r EXCEPT !.lights = k], now, k, w, a)
           /\ [r EXCEPT !.lights = k].color = r.color /\ [r EXCEPT !.lights = k].tex = r.tex
           /\ [r EXCEPT !.lights = k].depth = r.depth
<1> DEFINE s == [r EXCEPT !.lights = k]
<1>1. Recorded(v, r) /\ DOMAIN r = RecordedFields
  BY DEF AtStage, Recorded
<1>2. DOMAIN s = RecordedFields /\ s.lights = k
      /\ \A f \in RecordedFields \ {"lights"} : s[f] = r[f]
  BY <1>1 DEF RecordedFields
<1> HIDE DEF s
<1>3. s.now = r.now /\ s.tex = r.tex /\ s.cur_tex = r.cur_tex /\ s.color = r.color
      /\ s.depth = r.depth /\ s.alpha = r.alpha /\ s.at = r.at /\ s.camera = r.camera
  BY <1>2 DEF RecordedFields
<1>4. Recorded(v, s)
  BY <1>1, <1>2, <1>3 DEF Recorded
<1>5. AtStage(v, s, now, k, w, a)
  BY <1>2, <1>3, <1>4 DEF AtStage
<1> QED
  BY <1>3, <1>5 DEF s

LEMMA WithAlpha ==
    ASSUME NEW v, NEW r, NEW now, NEW l, NEW w, NEW a, NEW b, AtStage(v, r, now, l, w, a)
    PROVE  /\ AtStage(v, [r EXCEPT !.alpha = b], now, l, w, b)
           /\ [r EXCEPT !.alpha = b].color = r.color /\ [r EXCEPT !.alpha = b].tex = r.tex
<1> DEFINE s == [r EXCEPT !.alpha = b]
<1>1. Recorded(v, r) /\ DOMAIN r = RecordedFields
  BY DEF AtStage, Recorded
<1>2. DOMAIN s = RecordedFields /\ s.alpha = b
      /\ \A f \in RecordedFields \ {"alpha"} : s[f] = r[f]
  BY <1>1 DEF RecordedFields
<1> HIDE DEF s
<1>3. s.now = r.now /\ s.tex = r.tex /\ s.cur_tex = r.cur_tex /\ s.color = r.color
      /\ s.lights = r.lights /\ s.at = r.at /\ s.camera = r.camera
  BY <1>2 DEF RecordedFields
<1>4. Recorded(v, s)
  BY <1>1, <1>2, <1>3 DEF Recorded
<1>5. AtStage(v, s, now, l, w, b)
  BY <1>2, <1>3, <1>4 DEF AtStage
<1> QED
  BY <1>3, <1>5 DEF s

(* The set of the textures is bound, as it is taken for. *)
LEMMA ToScreen ==
    ASSUME NEW v, NEW r, NEW now, NEW l, NEW w, NEW a, AtStage(v, r, now, l, w, a),
           r.tex = 1, NEW x, v.ubo[Contents!offset_screen(v.cur)] = x
    PROVE  /\ AtStage(v, ScreenOf(v, r), now, l, x, a)
           /\ ScreenOf(v, r).color = r.color /\ ScreenOf(v, r).tex = 1
<1> DEFINE s == ScreenOf(v, r)
<1>1. Recorded(v, r) /\ DOMAIN r = RecordedFields
  BY DEF AtStage, Recorded
<1>2. DOMAIN s = RecordedFields /\ s.camera = Contents!offset_screen(v.cur) /\ s.tex = 1
      /\ \A f \in RecordedFields \ {"depth", "camera", "tex"} : s[f] = r[f]
  BY <1>1 DEF RecordedFields, ScreenOf
<1> HIDE DEF s
<1>3. s.now = r.now /\ s.cur_tex = r.cur_tex /\ s.color = r.color
      /\ s.lights = r.lights /\ s.at = r.at /\ s.alpha = r.alpha
  BY <1>2 DEF RecordedFields
<1>4. Recorded(v, s)
  BY <1>1, <1>2, <1>3 DEF Recorded
<1>5. AtStage(v, s, now, l, x, a)
  BY <1>2, <1>3, <1>4 DEF AtStage
<1> QED
  BY <1>2, <1>3, <1>5 DEF s

LEMMA FrameDrawn ==
    ASSUME NEW v, BetweenIs(v), v.extent = size, CamerasAre(v.ubo, v.cur),
           LightsAre(v.ubo, v.n, v.cur), lamps \in Lamps, view \in Views,
           NEW r, Passing(v, r), lamps.shadows => LayersDrawn(v, r.now)
    PROVE  /\ Contents!record_render_pass(v, r).color = Contents!ExpectedOverlay(Contents!ExpectedScene)
           /\ Contents!record_render_pass(v, r).now = r.now
<1> DEFINE now == r.now
           n == v.n
           w == Contents!World(view.v)
           x == Contents!Screen(size)
           start == StartOf(v, r)
           m == Contents!DrawStage(v, start, MapEntry, Contents!NoSet)
           c == Contents!DrawStage(v, m, CubesEntry, Contents!NoSet)
           s == Contents!DrawStage(v, c, SpritesEntry, Contents!NoSet)
           dark == [s EXCEPT !.lights = n]
           t == Contents!DrawStage(v, dark, TranslucentEntry, Contents!NoSet)
           over == [t EXCEPT !.alpha = "1/2"]
           sel == Contents!DrawStage(v, over, SelectionEntry, Contents!NoSet)
           screen == ScreenOf(v, sel)
           tri == Contents!DrawStage(v, screen, TriangleEntry, Contents!NoSet)
           text == Contents!DrawStage(v, tri, TextEntry, Contents!NoSet)
           all == Contents!DrawStage(v, text, ShadowMapsEntry, 3)
<1>1. Contents!record_render_pass(v, r) = all
  <2> DEFINE draw(y, list) == Contents!DrawStages(v, y, list, Contents!NoSet)
             map == IF view.persp THEN Contents!RenderList.map_persp ELSE Contents!RenderList.map_ortho
             a1 == draw(start, map)
             a2 == draw(a1, Contents!RenderList.normal)
             a3 == draw([a2 EXCEPT !.lights = n], Contents!RenderList.no_light)
             a4 == draw([a3 EXCEPT !.alpha = "1/2"], Contents!RenderList.overlay)
             a5 == draw(ScreenOf(v, a4), Contents!RenderList.screen)
             a6 == Contents!DrawStages(v, a5, Contents!RenderList.shadow_maps, 3)
  <2>1. Contents!record_render_pass(v, r) = a6
    BY DEF Contents!record_render_pass, StartOf, ScreenOf
  <2>2. a1 = m
    <3>1. map = <<MapEntry>>
      BY ListsAre
    <3> HIDE DEF map, start
    <3> QED
      BY <3>1, OneStage
  <2>3. a2 = s
    <3>1. Contents!RenderList.normal = <<CubesEntry, SpritesEntry>>
      BY ListsAre
    <3> HIDE DEF a1, m
    <3> QED
      BY <2>2, <3>1, TwoStages
  <2>4. a3 = t
    <3>1. Contents!RenderList.no_light = <<TranslucentEntry>>
      BY ListsAre
    <3> HIDE DEF a2, s
    <3>2. draw(dark, <<TranslucentEntry>>) = Contents!DrawStage(v, dark, TranslucentEntry, Contents!NoSet)
      BY OneStage
    <3> QED
      BY <2>3, <3>1, <3>2
  <2>5. a4 = sel
    <3>1. Contents!RenderList.overlay = <<SelectionEntry>>
      BY ListsAre
    <3> HIDE DEF a3, t
    <3>2. draw(over, <<SelectionEntry>>) = Contents!DrawStage(v, over, SelectionEntry, Contents!NoSet)
      BY OneStage
    <3> QED
      BY <2>4, <3>1, <3>2
  <2>6. a5 = text
    <3>1. Contents!RenderList.screen = <<TriangleEntry, TextEntry>>
      BY ListsAre
    <3> HIDE DEF a4, sel
    <3>2. draw(screen, <<TriangleEntry, TextEntry>>)
            = Contents!DrawStage(v, Contents!DrawStage(v, screen, TriangleEntry, Contents!NoSet), TextEntry, Contents!NoSet)
      BY TwoStages
    <3> QED
      BY <2>5, <3>1, <3>2
  <2>7. a6 = all
    <3>1. Contents!RenderList.shadow_maps = <<ShadowMapsEntry>>
      BY ListsAre
    <3> HIDE DEF a5, text
    <3>2. Contents!DrawStages(v, text, <<ShadowMapsEntry>>, 3) = Contents!DrawStage(v, text, ShadowMapsEntry, 3)
      BY OneStage
    <3> QED
      BY <2>6, <3>1, <3>2
  <2> QED
    BY <2>1, <2>7
<1>2. v.ubo[Contents!offset(v.cur)] = w /\ v.ubo[Contents!offset_screen(v.cur)] = x
  BY DEF CamerasAre, CamerasFor
<1>3. AtStage(v, start, now, v.cur, w, "1") /\ start.tex = 1 /\ start.color = <<>>
      /\ start.depth = <<>>
  BY <1>2, StartIs
<1> HIDE DEF w, x, start, now
<1> DEFINE first == Contents!Expected(<<MapEntry, CubesEntry, SpritesEntry>>, w, lamps,
                Contents!ExpectedShadows, "1", <<>>, <<>>)
<1>4. AtStage(v, s, now, v.cur, w, "1") /\ s.tex = 1 /\ Under(s) /\ s.color = first
  <2>1. lamps.shadows => LayersDrawn(v, now)
    BY DEF now
  <2> QED
    BY <1>3, <2>1, SceneDrawn
<1> HIDE DEF s, first
<1>5. AtStage(v, dark, now, n, w, "1") /\ dark.tex = 1 /\ dark.color = first /\ Under(dark)
  <2>1. AtStage(v, dark, now, n, w, "1") /\ dark.color = s.color /\ dark.tex = s.tex
        /\ dark.depth = s.depth
    BY <1>4, WithoutLights
  <2> HIDE DEF dark
  <2> QED
    BY <1>4, <2>1 DEF Under
<1> HIDE DEF dark
<1>6. BoundIs(Contents!NoSet, <<>>) /\ BoundIs(3, Contents!Maps)
  BY DEF BoundIs
<1>7. /\ TranslucentEntry \in Entries /\ SelectionEntry \in Entries
      /\ TriangleEntry \in Entries /\ TextEntry \in Entries /\ ShadowMapsEntry \in Entries
  BY DEF Entries
<1>8. /\ TranslucentEntry.pipe.type # "TRIANGLE" /\ TextEntry.pipe.type # "TRIANGLE"
      /\ ShadowMapsEntry.pipe.type # "TRIANGLE"
      /\ ~SelectionEntry.pipe.test /\ ~TriangleEntry.pipe.test /\ ~TextEntry.pipe.test
      /\ ~ShadowMapsEntry.pipe.test
      /\ SetFor(TranslucentEntry, Contents!NoSet) = 1 /\ SetFor(SelectionEntry, Contents!NoSet) = 1
  BY EntriesAre, PipelinesAre DEF SetFor
<1>9. /\ AtStage(v, t, now, n, w, "1") /\ t.tex = 1
      /\ t.color = ExpectedOf(TranslucentEntry, w, Contents!NoLights, <<>>, "1", <<>>, first)
  <2>1. AtStage(v, dark, now, v.n, w, "1")
    BY <1>5
  <2>2. UnlitOf(v, dark, TranslucentEntry, Contents!NoSet, <<>>, now, w, "1", "1")
    BY <1>5, <1>6, <1>7, <1>8, <2>1 DEF UnlitOf
  <2>3. StageLeaves(v, dark, t, TranslucentEntry, Contents!NoSet, now, v.n, w, "1",
            ExpectedOf(TranslucentEntry, w, Contents!NoLights, <<>>, "1", <<>>, dark.color))
    BY <2>2, UnlitDrawn
  <2> HIDE DEF t
  <2> QED
    BY <1>5, <1>8, <2>3 DEF StageLeaves
<1> HIDE DEF t
<1>10. Contents!ExpectedScene = t.color
  <2> DEFINE map == IF view.persp THEN Contents!RenderList.map_persp ELSE Contents!RenderList.map_ortho
             list == map \o Contents!RenderList.normal
             lit == Contents!Expected(list, w, lamps, Contents!ExpectedShadows, "1", <<>>, <<>>)
  <2>1. Contents!ExpectedScene = Contents!Expected(Contents!RenderList.no_light, w, Contents!NoLights, <<>>, "1", <<>>, lit)
    BY DEF Contents!ExpectedScene, w
  <2>2. list = <<MapEntry, CubesEntry, SpritesEntry>>
        /\ Contents!RenderList.no_light = <<TranslucentEntry>>
    BY ListsAre
  <2> HIDE DEF list
  <2>3. lit = first
    BY <2>2 DEF first
  <2> HIDE DEF lit
  <2>4. Contents!ExpectedScene = Contents!Expected(<<TranslucentEntry>>, w, Contents!NoLights, <<>>, "1", <<>>, first)
    BY <2>1, <2>2, <2>3
  <2> QED
    BY <1>9, <2>4, OneExpected
<1> DEFINE i == t.color
<1>11. AtStage(v, over, now, n, w, "1/2") /\ over.tex = 1 /\ over.color = i
  BY <1>9, WithAlpha
<1> HIDE DEF over, i
<1> DEFINE none(y, u, texels, j) == ExpectedOf(y, u, Contents!NoLights, <<>>, "1/2", texels, j)
           j1 == none(SelectionEntry, w, <<>>, i)
           j2 == none(TriangleEntry, x, <<>>, j1)
           j3 == none(TextEntry, x, <<>>, j2)
           j4 == none(ShadowMapsEntry, x, Contents!Maps, j3)
<1>12. AtStage(v, sel, now, n, w, "1/2") /\ sel.tex = 1 /\ sel.color = j1
  <2>1. AtStage(v, over, now, v.n, w, "1/2")
    BY <1>11
  <2>2. UnlitOf(v, over, SelectionEntry, Contents!NoSet, <<>>, now, w, "1/2", "1/2")
    BY <1>5, <1>6, <1>7, <1>8, <2>1 DEF UnlitOf
  <2>3. StageLeaves(v, over, sel, SelectionEntry, Contents!NoSet, now, v.n, w, "1/2",
            ExpectedOf(SelectionEntry, w, Contents!NoLights, <<>>, "1/2", <<>>, over.color))
    BY <2>2, UnlitDrawn
  <2> HIDE DEF sel
  <2> QED
    BY <1>8, <1>11, <2>3 DEF StageLeaves
<1> HIDE DEF sel, j1
<1>13. AtStage(v, screen, now, n, x, "1/2") /\ screen.color = j1
  <2>1. v.ubo[Contents!offset_screen(v.cur)] = x
    BY <1>2
  <2> QED
    BY <1>12, <2>1, ToScreen
<1> HIDE DEF screen
<1>14. AtStage(v, tri, now, n, x, "1/2") /\ tri.color = j2
  <2>1. AtStage(v, screen, now, v.n, x, "1/2")
    BY <1>13
  <2>2. UnlitOf(v, screen, TriangleEntry, Contents!NoSet, <<>>, now, x, "1/2", "1/2")
    BY <1>5, <1>6, <1>7, <1>8, <2>1 DEF UnlitOf
  <2>3. StageLeaves(v, screen, tri, TriangleEntry, Contents!NoSet, now, v.n, x, "1/2",
            ExpectedOf(TriangleEntry, x, Contents!NoLights, <<>>, "1/2", <<>>, screen.color))
    BY <2>2, UnlitDrawn
  <2> HIDE DEF tri
  <2> QED
    BY <1>13, <2>3 DEF StageLeaves
<1> HIDE DEF tri, j2
<1>15. AtStage(v, text, now, n, x, "1/2") /\ text.color = j3
  <2>1. AtStage(v, tri, now, v.n, x, "1/2")
    BY <1>14
  <2>2. UnlitOf(v, tri, TextEntry, Contents!NoSet, <<>>, now, x, "1/2", "1/2")
    BY <1>5, <1>6, <1>7, <1>8, <2>1 DEF UnlitOf
  <2>3. StageLeaves(v, tri, text, TextEntry, Contents!NoSet, now, v.n, x, "1/2",
            ExpectedOf(TextEntry, x, Contents!NoLights, <<>>, "1/2", <<>>, tri.color))
    BY <2>2, UnlitDrawn
  <2> HIDE DEF text
  <2> QED
    BY <1>14, <2>3 DEF StageLeaves
<1> HIDE DEF text, j3
<1>16. AtStage(v, all, now, n, x, "1/2") /\ all.color = j4
  <2>1. AtStage(v, text, now, v.n, x, "1/2")
    BY <1>15
  <2>2. UnlitOf(v, text, ShadowMapsEntry, 3, Contents!Maps, now, x, "1/2", "1/2")
    BY <1>5, <1>6, <1>7, <1>8, <2>1 DEF UnlitOf
  <2>3. StageLeaves(v, text, all, ShadowMapsEntry, 3, now, v.n, x, "1/2",
            ExpectedOf(ShadowMapsEntry, x, Contents!NoLights, <<>>, "1/2", Contents!Maps, text.color))
    BY <2>2, UnlitDrawn
  <2> HIDE DEF all
  <2> QED
    BY <1>15, <2>3 DEF StageLeaves
<1> HIDE DEF all
<1>17. Contents!ExpectedOverlay(i) = j4
  <2> DEFINE of(list, u, texels, j) == Contents!Expected(list, u, Contents!NoLights, <<>>, "1/2", texels, j)
  <2>1. Contents!ExpectedOverlay(i)
        = of(Contents!RenderList.shadow_maps, x, Contents!Maps,
            of(Contents!RenderList.screen, x, <<>>, of(Contents!RenderList.overlay, w, <<>>, i)))
    BY DEF Contents!ExpectedOverlay, w, x
  <2>2. of(<<SelectionEntry>>, w, <<>>, i) = j1
    BY OneExpected DEF j1
  <2>3. of(<<TriangleEntry, TextEntry>>, x, <<>>, j1) = j3
    BY TwoExpected DEF j2, j3
  <2>4. of(<<ShadowMapsEntry>>, x, Contents!Maps, j3) = j4
    BY OneExpected
  <2> HIDE DEF of, j4
  <2>5. /\ Contents!RenderList.overlay = <<SelectionEntry>>
        /\ Contents!RenderList.screen = <<TriangleEntry, TextEntry>>
        /\ Contents!RenderList.shadow_maps = <<ShadowMapsEntry>>
    BY ListsAre
  <2> QED
    BY <2>1, <2>2, <2>3, <2>4, <2>5
<1>18. all.now = now
  BY <1>16 DEF AtStage
<1> QED
  BY <1>1, <1>10, <1>16, <1>17, <1>18 DEF now, i
-----------------------------------------------------------------------------
(* create_cmd_buffer(), render()                                           *)

(* Commands do not change what images and buffers are, but the layers.     *)
Draws(v, w) ==
    /\ Shape(w)
    /\ \A f \in Fields \ {"now", "done", "recorded", "flight", "window"} : w[f] = v[f]
    /\ w.now.tex = v.now.tex /\ w.now.font = v.now.font /\ w.now.buffers = v.now.buffers
    /\ DOMAIN w.now.maps = DOMAIN v.now.maps /\ DOMAIN w.now.cubes = DOMAIN v.now.cubes

LEMMA DrawsIs ==
    ASSUME NEW v, NEW w, NEW pics, NEW objs, BackendIs(v, pics, objs), Draws(v, w)
    PROVE  BackendIs(w, pics, objs) /\ w.recreate = v.recreate
<1>0. Shape(v) /\ FramesAre(v) /\ SetsAre(v) /\ TexSetsAre(v)
      /\ ImagesAre(v, pics) /\ ObjectsAre(v, objs) /\ UpdatedAre(v)
  BY DEF BackendIs
<1>1. /\ Shape(w)
      /\ \A f \in Fields \ {"now", "done", "recorded", "flight", "window"} : w[f] = v[f]
      /\ w.now.tex = v.now.tex /\ w.now.font = v.now.font /\ w.now.buffers = v.now.buffers
      /\ DOMAIN w.now.maps = DOMAIN v.now.maps /\ DOMAIN w.now.cubes = DOMAIN v.now.cubes
  BY DEF Draws
<1>2. /\ w.n = v.n /\ w.cur = v.cur /\ w.sizes = v.sizes /\ w.ubo = v.ubo
      /\ w.tex_sets = v.tex_sets /\ w.light_sets = v.light_sets /\ w.fbs = v.fbs
      /\ w.recreate = v.recreate /\ w.extent = v.extent
      /\ w.camera_updated = v.camera_updated /\ w.lighting_updated = v.lighting_updated
  BY <1>1 DEF Fields
<1>3. FramesAre(w) /\ SetsAre(w) /\ UpdatedAre(w)
  BY <1>0, <1>1, <1>2 DEF FramesAre, SetsAre, UpdatedAre, UpdatedFor, CamerasAre, LightsAre
<1>4. ObjectsAre(w, objs)
  BY <1>0, <1>1, <1>2 DEF ObjectsAre
<1>5. \A t \in {"tex", "font"} : w.now[t] = v.now[t] /\ (Contents!Exists(w, t) <=> Contents!Exists(v, t))
  BY <1>1 DEF Contents!Exists
<1>6. TexSetsAre(w)
  BY <1>0, <1>2, <1>5 DEF TexSetsAre
<1>7. ImagesAre(w, pics)
  BY <1>0, <1>5 DEF ImagesAre
<1> QED
  BY <1>1, <1>2, <1>3, <1>4, <1>6, <1>7 DEF BackendIs

LEMMA SubmittedDraws ==
    ASSUME NEW v, Shape(v)
    PROVE  Draws(v, Contents!Submitted(v)) /\ Contents!Submitted(v).window = v.window
<1> DEFINE w == Contents!Submitted(v)
<1>1. Shape(w) /\ \A f \in Fields \ {"done", "flight", "recorded"} : w[f] = v[f]
  BY SubmittedIs
<1> HIDE DEF w
<1>2. w.now = v.now /\ w.window = v.window
  BY <1>1 DEF Fields
<1>3. Draws(v, w)
  BY <1>1, <1>2 DEF Draws
<1> QED
  BY <1>2, <1>3 DEF w

(* The passes, if there are shadows, before what is shown. *)
Passes(v) ==
    Contents!DepthPasses(v, Contents!DepthPasses(v, Contents!Recording(v), lamps.n_dir, FALSE), 6 * lamps.n_point, TRUE)
Finished(v) == IF lamps.shadows THEN Passes(v) ELSE Contents!Recording(v)

LEMMA BeforeIs ==
    ASSUME NEW v, BackendIs(v, pictures, objects), v.recreate = FALSE,
           LightsAre(v.ubo, v.n, v.cur), lamps \in Lamps
    PROVE  /\ BetweenIs(v) /\ v.extent = size
           /\ Passing(v, Finished(v))
           /\ lamps.shadows => LayersDrawn(v, Finished(v).now)
<1> DEFINE r == Contents!Recording(v)
           d == lamps.n_dir
           p == 6 * lamps.n_point
           a == Contents!DepthPasses(v, r, d, FALSE)
           b == Contents!DepthPasses(v, a, p, TRUE)
<1>1. Shape(v) /\ FramesAre(v) /\ SetsAre(v) /\ TexSetsAre(v)
      /\ ImagesAre(v, pictures) /\ ObjectsAre(v, objects) /\ UpdatedAre(v)
  BY DEF BackendIs
<1>2. BetweenIs(v)
  BY <1>1 DEF BetweenIs
<1>3. v.extent = size /\ LayersAre(v.fbs, v.n)
  BY <1>1 DEF UpdatedAre, UpdatedFor, CamerasAre, LightsAre
<1>4. d \in 0..Limit(FALSE) /\ p \in 0..Limit(TRUE) /\ d \in Nat /\ p \in Nat
      /\ MaxLights \in Nat
  BY VulkanGiven DEF Limit
<1>5. Passing(v, r)
  BY <1>1 DEF Passing, Contents!Recording, RecordedFields, Shape
<1> HIDE DEF r, d, p
<1>6. PassesLeave(v, r, a, d, FALSE)
  BY <1>2, <1>3, <1>4, <1>5, PassesDraw
<1> HIDE DEF a
<1>7. Passing(v, a)
  BY <1>6 DEF PassesLeave
<1>8. PassesLeave(v, a, b, p, TRUE)
  BY <1>2, <1>3, <1>4, <1>7, PassesDraw
<1> HIDE DEF b
<1>9. Passing(v, b) /\ b.now.maps = a.now.maps
  BY <1>8 DEF PassesLeave, HeldImages, Kind
<1>10. LayersDrawn(v, b.now)
  <2>1. ASSUME NEW li \in 0..(d - 1)
        PROVE  b.now.maps[LayerOf(v, li, FALSE)] = Contents!ExpectedDepth(Contents!DirView(li + 1, lamps.v))
    <3>1. a.now.maps[LayerOf(v, li, FALSE)] = Contents!ExpectedDepth(v.ubo[RegionOf(v, li, FALSE)])
      BY <1>6 DEF PassesLeave, Kind
    <3>2. RegionOf(v, li, FALSE) = Contents!offset_light(v.cur, li)
      BY DEF RegionOf
    <3>3. li + 1 \in 1..d /\ (li + 1) - 1 = li
      BY <1>4
    <3>4. v.ubo[Contents!offset_light(v.cur, (li + 1) - 1)] = Contents!DirView(li + 1, lamps.v)
      BY <3>3 DEF LightsAre, d, LightsFor
    <3>5. v.ubo[RegionOf(v, li, FALSE)] = Contents!DirView(li + 1, lamps.v)
      BY <3>2, <3>3, <3>4
    <3> QED
      BY <1>9, <3>1, <3>5
  <2>2. ASSUME NEW li \in 0..(p - 1)
        PROVE  b.now.cubes[LayerOf(v, li, TRUE)]
                = Contents!ExpectedDepth(Contents!PointView((li \div 6) + 1, Contents!Looks[(li % 6) + 1], lamps.v))
    <3>1. b.now.cubes[LayerOf(v, li, TRUE)] = Contents!ExpectedDepth(v.ubo[RegionOf(v, li, TRUE)])
      BY <1>8 DEF PassesLeave, Kind
    <3>2. RegionOf(v, li, TRUE) = Contents!offset_light(v.cur, MaxLights + li)
      BY DEF RegionOf
    <3>3. li + 1 \in 1..p /\ (li + 1) - 1 = li /\ MaxLights + (li + 1) - 1 = MaxLights + li
      BY <1>4
    <3>4. v.ubo[Contents!offset_light(v.cur, MaxLights + (li + 1) - 1)]
            = Contents!PointView((((li + 1) - 1) \div 6) + 1, Contents!Looks[(((li + 1) - 1) % 6) + 1], lamps.v)
      BY <3>3 DEF LightsAre, p, LightsFor
    <3>5. v.ubo[RegionOf(v, li, TRUE)]
            = Contents!PointView((li \div 6) + 1, Contents!Looks[(li % 6) + 1], lamps.v)
      BY <3>2, <3>3, <3>4
    <3> QED
      BY <3>1, <3>5
  <2> QED
    BY <2>1, <2>2 DEF LayersDrawn, d, p
<1>11. Passes(v) = b
  BY DEF Passes, r, a, b, d, p
<1>12. CASE lamps.shadows
  BY <1>2, <1>3, <1>9, <1>10, <1>11, <1>12 DEF Finished
<1>13. CASE ~lamps.shadows
  BY <1>2, <1>3, <1>5, <1>13 DEF Finished, r
<1> QED
  BY <1>12, <1>13

LEMMA CommandsDraw ==
    ASSUME NEW v, BackendIs(v, pictures, objects), v.recreate = FALSE,
           CamerasAre(v.ubo, v.cur), LightsAre(v.ubo, v.n, v.cur), lamps \in Lamps,
           view \in Views
    PROVE  /\ BackendIs(Contents!create_cmd_buffer(v), pictures, objects)
           /\ Contents!create_cmd_buffer(v).window = Contents!ExpectedOverlay(Contents!ExpectedScene)
<1> DEFINE b == Finished(v)
           l == Contents!record_render_pass(v, b)
           w == Contents!create_cmd_buffer(v)
           e == Contents!ExpectedOverlay(Contents!ExpectedScene)
<1>1. BetweenIs(v) /\ v.extent = size /\ Passing(v, b)
      /\ (lamps.shadows => LayersDrawn(v, b.now))
  BY BeforeIs
<1>2. Shape(v)
  BY DEF BackendIs
<1>3. /\ w = [v EXCEPT !.now = l.now, !.window = l.color,
            !.recorded = @ \cup {"tex_sets", "maps", "cubes"}
                \cup {t \in {"tex", "font"} : Contents!Exists(v, t)}
                \cup {o \in Contents!Objects : v.sizes[o] # 0}]
  BY DEF Contents!create_cmd_buffer, Finished, Passes
<1> HIDE DEF b, w, e
<1>4. l.color = e /\ l.now = b.now
  BY <1>1, FrameDrawn DEF e
<1> HIDE DEF l
<1>5. DOMAIN w = Fields /\ w.now = b.now /\ w.window = e
      /\ \A f \in Fields \ {"now", "window", "recorded"} : w[f] = v[f]
  BY <1>2, <1>3, <1>4 DEF Shape, Fields
<1>6. /\ DOMAIN b.now = HeldImages /\ b.now.tex = v.now.tex /\ b.now.font = v.now.font
      /\ b.now.buffers = v.now.buffers
      /\ DOMAIN b.now.maps = DOMAIN v.now.maps /\ DOMAIN b.now.cubes = DOMAIN v.now.cubes
  BY <1>1 DEF Passing, HeldImages
<1>7. w.done = v.done /\ w.sizes = v.sizes /\ w.flight = v.flight /\ w.lost = v.lost
  BY <1>5 DEF Fields
<1>8. Shape(w)
  BY <1>2, <1>5, <1>6, <1>7 DEF Shape
<1>9. Draws(v, w)
  BY <1>5, <1>6, <1>8 DEF Draws
<1>10. BackendIs(w, pictures, objects)
  BY <1>9, DrawsIs
<1> QED
  BY <1>5, <1>10 DEF w, e

(* What render() leaves. *)
Rendered(v, outdated) ==
    LET ready == Contents!Ready(v, outdated)
        written == Contents!update_lighting(Contents!update_camera(ready))
    IN  Contents!Presented(Contents!Submitted(Contents!create_cmd_buffer(written)), outdated)

LEMMA RenderedIs ==
    ASSUME NEW v, BackendIs(v, pictures, objects), lamps \in Lamps, view \in Views,
           NEW outdated
    PROVE  /\ BackendIs(Rendered(v, outdated), pictures, objects)
           /\ outdated # "present" =>
                Rendered(v, outdated).window = Contents!ExpectedOverlay(Contents!ExpectedScene)
<1> DEFINE r == IF v.recreate \/ outdated = "acquire" THEN Contents!SwapChain(v, size) ELSE v
           c == Contents!update_camera(r)
           l == Contents!update_lighting(c)
           d == Contents!create_cmd_buffer(l)
           s == Contents!Submitted(d)
           p == IF outdated = "present" THEN Contents!SwapChain(s, size) ELSE s
           w == Contents!NextFrame(p)
<1>1. Rendered(v, outdated) = w
  BY DEF Rendered, Contents!Ready, Contents!Presented
<1>2. BackendIs(r, pictures, objects) /\ r.recreate = FALSE
  <2>1. BackendIs(Contents!SwapChain(v, size), pictures, objects) /\ Contents!SwapChain(v, size).recreate = FALSE
    BY SwapChainIs
  <2>2. v.recreate = TRUE \/ v.recreate = FALSE
    BY DEF BackendIs, UpdatedAre, UpdatedFor, CamerasAre, LightsAre
  <2> QED
    BY <2>1, <2>2
<1> HIDE DEF r
<1>3. BackendIs(c, pictures, objects) /\ c.recreate = FALSE /\ c.cur = r.cur
      /\ CamerasAre(c.ubo, r.cur)
  BY <1>2, CameraUpdated
<1>4. CamerasAre(c.ubo, c.cur)
  BY <1>3
<1> HIDE DEF c
<1>5. BackendIs(l, pictures, objects) /\ l.recreate = FALSE /\ l.cur = c.cur /\ l.n = c.n
      /\ CamerasAre(l.ubo, c.cur) /\ LightsAre(l.ubo, c.n, c.cur)
  BY <1>3, <1>4, LightingUpdated
<1>6. CamerasAre(l.ubo, l.cur) /\ LightsAre(l.ubo, l.n, l.cur)
  BY <1>5
<1> HIDE DEF l
<1>7. BackendIs(d, pictures, objects) /\ d.window = Contents!ExpectedOverlay(Contents!ExpectedScene)
  BY <1>5, <1>6, CommandsDraw
<1> HIDE DEF d
<1>8. BackendIs(s, pictures, objects) /\ s.window = d.window
  <2>1. Shape(d)
    BY <1>7 DEF BackendIs
  <2>2. Draws(d, s) /\ s.window = d.window
    BY <2>1, SubmittedDraws
  <2> HIDE DEF s
  <2> QED
    BY <1>7, <2>2, DrawsIs
<1> HIDE DEF s
<1>9. BackendIs(p, pictures, objects) /\ (outdated # "present" => p.window = s.window)
  BY <1>8, SwapChainIs
<1> HIDE DEF p
<1>10. BackendIs(w, pictures, objects) /\ w.window = p.window
  BY <1>9, NextFrameIs
<1> QED
  BY <1>1, <1>7, <1>8, <1>9, <1>10
-----------------------------------------------------------------------------
(* The first states.                                                       *)

LEMMA DeviceIs ==
    ASSUME NEW n \in DrawnCounts, size = CHOOSE s \in Sizes : TRUE
    PROVE  /\ BackendIs(Contents!Device(n), [t \in {"tex", "font"} |-> Contents!Undefined], [o \in Contents!Objects |-> 0])
           /\ Contents!Used(Contents!Device(n)) \subseteq {"maps", "cubes"}
<1> DEFINE pics == [t \in {"tex", "font"} |-> Contents!Undefined]
           objs == [o \in Contents!Objects |-> 0]
           f == Contents!SetFrames(Contents!Blank, n)
<1>1. HeldAre(Contents!Blank, pics, objs) /\ Contents!Blank.done = Contents!Blank.now /\ Contents!Blank.n = 0
  BY BlankIs
<1> HIDE DEF pics, objs
<1>2. f = FramesMade(Contents!Blank, n)
  BY <1>1 DEF Contents!SetFrames, FramesMade, WithLayers, Emptied
<1> HIDE DEF f
<1>3. BackendIs(f, pics, objs) /\ Contents!Used(f) = {"maps", "cubes"}
  BY <1>1, <1>2, FramesMadeIs
<1>4. BackendIs(Contents!SwapChain(f, size), pics, objs) /\ Contents!Used(Contents!SwapChain(f, size)) = f.recorded
  BY <1>3, SwapChainIs
<1>5. f.recorded \subseteq Contents!Used(f)
  BY DEF Contents!Used
<1>6. Contents!Device(n) = Contents!SwapChain(f, size)
  BY DEF Contents!Device, f
<1> QED
  BY <1>3, <1>4, <1>5, <1>6 DEF pics, objs

LEMMA TexturesMade ==
    ASSUME NEW v, NEW pics, NEW objs, BackendIs(v, pics, objs),
           Contents!Used(v) \cap {"tex", "tex_sets"} = {}
    PROVE  /\ BackendIs(Contents!ResizeTextures(v), [pics EXCEPT !["tex"] = Contents!Undefined], objs)
           /\ Contents!Used(Contents!ResizeTextures(v)) = Contents!Used(v) \cup {"tex"}
           /\ Contents!Exists(Contents!ResizeTextures(v), "tex")
<1> DEFINE t == "tex"
           a == Contents!NewImage(2, "UNDEFINED")
           b == Contents!NewImage(2, "READ")
<1>1. ImageOf(b, LevelsOf(t)) /\ Contents!Content(b) = Contents!Undefined
  BY NewImages DEF LevelsOf
<1>2. Contents!ResizeTextures(v) = Remade(v, t, a, b)
  BY DEF Contents!ResizeTextures, Remade
<1>3. t \in {"tex", "font"} /\ Contents!Used(v) \cap {t, "tex_sets"} = {}
  OBVIOUS
<1> HIDE DEF a, b, t
<1>4. /\ BackendIs(Remade(v, t, a, b), [pics EXCEPT ![t] = Contents!Undefined], objs)
      /\ Contents!Used(Remade(v, t, a, b)) = Contents!Used(v) \cup {t}
      /\ Contents!Exists(Remade(v, t, a, b), t)
  BY <1>1, <1>3, ImagesResized
<1> QED
  BY <1>2, <1>4 DEF t

LEMMA FontMade ==
    ASSUME NEW v, NEW pics, NEW objs, BackendIs(v, pics, objs),
           Contents!Used(v) \cap {"font", "tex_sets"} = {}
    PROVE  /\ BackendIs(Contents!ResizeFont(v), [pics EXCEPT !["font"] = Contents!Undefined], objs)
           /\ Contents!Used(Contents!ResizeFont(v)) = Contents!Used(v) \cup {"font"}
           /\ Contents!Exists(Contents!ResizeFont(v), "font")
<1> DEFINE t == "font"
           a == Contents!NewImage(1, "UNDEFINED")
           b == Contents!NewImage(1, "DST")
<1>1. ImageOf(b, LevelsOf(t)) /\ Contents!Content(b) = Contents!Undefined
  BY NewImages DEF LevelsOf
<1>2. Contents!ResizeFont(v) = Remade(v, t, a, b)
  BY DEF Contents!ResizeFont, Remade
<1>3. t \in {"tex", "font"} /\ Contents!Used(v) \cap {t, "tex_sets"} = {}
  OBVIOUS
<1> HIDE DEF a, b, t
<1>4. /\ BackendIs(Remade(v, t, a, b), [pics EXCEPT ![t] = Contents!Undefined], objs)
      /\ Contents!Used(Remade(v, t, a, b)) = Contents!Used(v) \cup {t}
      /\ Contents!Exists(Remade(v, t, a, b), t)
  BY <1>1, <1>3, ImagesResized
<1> QED
  BY <1>2, <1>4 DEF t

LEMMA TexturesGiven ==
    ASSUME NEW v, NEW pics, NEW objs, BackendIs(v, pics, objs), Contents!Exists(v, "tex"),
           NEW p \in Nat \ {0}, NEW split \in BOOLEAN
    PROVE  /\ BackendIs(Contents!LoadTextures(v, p, split), [pics EXCEPT !["tex"] = Contents!Picture(p)], objs)
           /\ Contents!Used(Contents!LoadTextures(v, p, split)) = Contents!Used(v) \cup {"tex"}
<1> DEFINE i == v.now.tex
           b == WithTextures(i, p, split)
<1>1. ImageOf(i, 2)
  BY DEF BackendIs, ImagesAre, LevelsOf
<1>2. ImageOf(b, 2) /\ Contents!Content(b) = Contents!Picture(p)
  BY <1>1, TexturesLoaded
<1>3. Contents!LoadTextures(v, p, split) = Contents!Record(v, "tex", b)
  BY DEF Contents!LoadTextures, WithTextures
<1> HIDE DEF b
<1>4. ImageOf(b, LevelsOf("tex"))
  BY <1>2 DEF LevelsOf
<1>5. /\ BackendIs(Contents!Record(v, "tex", b), [pics EXCEPT !["tex"] = Contents!Content(b)], objs)
      /\ Contents!Used(Contents!Record(v, "tex", b)) = Contents!Used(v) \cup {"tex"}
  BY <1>4, ImagesLoaded
<1> QED
  BY <1>2, <1>3, <1>5

LEMMA FontGiven ==
    ASSUME NEW v, NEW pics, NEW objs, BackendIs(v, pics, objs), Contents!Exists(v, "font"),
           NEW p \in Nat \ {0}
    PROVE  /\ BackendIs(Contents!LoadFont(v, p, FALSE), [pics EXCEPT !["font"] = Contents!Picture(p)], objs)
<1> DEFINE i == v.now.font
           b == WithFont(i, p)
<1>1. ImageOf(i, 1)
  BY DEF BackendIs, ImagesAre, LevelsOf
<1>2. ImageOf(b, 1) /\ Contents!Content(b) = Contents!Picture(p)
  BY <1>1, FontLoaded
<1>3. Contents!LoadFont(v, p, FALSE) = Contents!Record(v, "font", b)
  BY DEF Contents!LoadFont, WithFont
<1> HIDE DEF b
<1>4. ImageOf(b, LevelsOf("font"))
  BY <1>2 DEF LevelsOf
<1>5. BackendIs(Contents!Record(v, "font", b), [pics EXCEPT !["font"] = Contents!Content(b)], objs)
  BY <1>4, ImagesLoaded
<1> QED
  BY <1>2, <1>3, <1>5

LEMMA LoadedIs ==
    ASSUME NEW v, NEW objs,
           BackendIs(v, [t \in {"tex", "font"} |-> Contents!Undefined], objs),
           Contents!Used(v) \subseteq {"maps", "cubes"}
    PROVE  BackendIs(Contents!Loaded(v), [t \in {"tex", "font"} |-> Contents!Picture(1)], objs)
<1> DEFINE p0 == [t \in {"tex", "font"} |-> Contents!Undefined]
           p1 == [p0 EXCEPT !["tex"] = Contents!Undefined]
           p2 == [p1 EXCEPT !["tex"] = Contents!Picture(1)]
           p3 == [p2 EXCEPT !["font"] = Contents!Undefined]
           p4 == [p3 EXCEPT !["font"] = Contents!Picture(1)]
           v1 == Contents!ResizeTextures(v)
           v2 == Contents!LoadTextures(v1, 1, FALSE)
           v3 == Contents!ResizeFont(v2)
           v4 == Contents!LoadFont(v3, 1, FALSE)
<1>1. p4 = [t \in {"tex", "font"} |-> Contents!Picture(1)]
  OBVIOUS
<1>2. Contents!Loaded(v) = v4
  BY DEF Contents!Loaded
<1> HIDE DEF p0
<1>3. BackendIs(v1, p1, objs) /\ Contents!Used(v1) = Contents!Used(v) \cup {"tex"} /\ Contents!Exists(v1, "tex")
  BY TexturesMade DEF p0
<1> HIDE DEF v1, p1
<1>4. BackendIs(v2, p2, objs) /\ Contents!Used(v2) = Contents!Used(v1) \cup {"tex"}
  <2>1. 1 \in Nat \ {0} /\ FALSE \in BOOLEAN
    OBVIOUS
  <2>2. BackendIs(v1, p1, objs) /\ Contents!Exists(v1, "tex")
    BY <1>3
  <2> QED
    BY <2>1, <2>2, TexturesGiven
<1>5. Contents!Used(v2) \cap {"font", "tex_sets"} = {}
  BY <1>3, <1>4
<1> HIDE DEF v2, p2
<1>6. BackendIs(v3, p3, objs) /\ Contents!Exists(v3, "font")
  BY <1>4, <1>5, FontMade
<1> HIDE DEF v3, p3
<1>7. BackendIs(v4, p4, objs)
  <2>1. 1 \in Nat \ {0}
    OBVIOUS
  <2>2. BackendIs(v3, p3, objs) /\ Contents!Exists(v3, "font")
    BY <1>6
  <2> QED
    BY <2>1, <2>2, FontGiven
<1> QED
  BY <1>1, <1>2, <1>7

LEMMA WrittenIs ==
    ASSUME NEW v, NEW pics, BackendIs(v, pics, [o \in Contents!Objects |-> 0])
    PROVE  BackendIs(Contents!Written(v), pics, [o \in Contents!Objects |-> IF o = "depth" THEN 0 ELSE 1])
<1> DEFINE S == Contents!Objects \ {"depth"}
           seq == SetToSeq(S)
           n == Len(seq)
<1>1. IsFiniteSet(S)
  <2> DEFINE a == {"map", "cubes"}
             b == a \cup {"sprites"}
             c == b \cup {"translucent"}
             d == c \cup {"selection"}
             e == d \cup {"triangle"}
             f == e \cup {"text"}
  <2>1. S = f
    BY DEF Contents!Objects
  <2>2. IsFiniteSet({} \cup {"map"})
    BY FS_EmptySet, FS_AddElement
  <2>3. IsFiniteSet(a)
    <3>1. IsFiniteSet(({} \cup {"map"}) \cup {"cubes"})
      <4> DEFINE m == {} \cup {"map"}
      <4>1. IsFiniteSet(m)
        BY <2>2
      <4> HIDE DEF m
      <4>2. IsFiniteSet(m \cup {"cubes"})
        BY <4>1, FS_AddElement
      <4> QED
        BY <4>2 DEF m
    <3>2. a = ({} \cup {"map"}) \cup {"cubes"}
      OBVIOUS
    <3> QED
      BY <3>1, <3>2
  <2> HIDE DEF a
  <2>4. IsFiniteSet(b)
    BY <2>3, FS_AddElement
  <2> HIDE DEF b
  <2>5. IsFiniteSet(c)
    BY <2>4, FS_AddElement
  <2> HIDE DEF c
  <2>6. IsFiniteSet(d)
    BY <2>5, FS_AddElement
  <2> HIDE DEF d
  <2>7. IsFiniteSet(e)
    BY <2>6, FS_AddElement
  <2> HIDE DEF e
  <2>8. IsFiniteSet(f)
    BY <2>7, FS_AddElement
  <2> QED
    BY <2>1, <2>8
<1> HIDE DEF S
<1>2. seq \in Seq(S) /\ IsInjective(seq) /\ n = Cardinality(S) /\ n \in Nat
  BY <1>1, SetToSeqIs, FS_CardinalityType
<1>3. \A o \in S : \E j \in 1..n : seq[j] = o
  <2>1. seq \in [1..n -> S]
    BY <1>2
  <2>2. seq \in Injection(1..n, S)
    BY <1>2, <2>1 DEF Injection, IsInjective
  <2>3. Cardinality(1..n) = Cardinality(S) /\ IsFiniteSet(S)
    BY <1>1, <1>2, FS_Interval
  <2> HIDE DEF seq, n
  <2>4. seq \in Surjection(1..n, S)
    BY <2>2, <2>3, FS_Injection
  <2> QED
    BY <2>4 DEF Surjection
<1>4. \A j \in 1..n : seq[j] \in S
  BY <1>2
<1> HIDE DEF seq
<1>5. PICK at :
        /\ Contents!WriteAll(v, seq) = at[n] /\ at[0] = v
        /\ \A k \in 1..n : at[k] = Contents!WriteBuffer(at[k - 1], seq[k], 1)
  <2>1. Len(seq) \in Nat
    BY <1>2
  <2> QED
    BY <2>1, BuffersAre
<1> DEFINE ob(k) == [o \in Contents!Objects |-> IF \E j \in 1..k : seq[j] = o THEN 1 ELSE 0]
           Q(k) == BackendIs(at[k], pics, ob(k))
           T == {k \in Nat : k <= n => Q(k)}
<1>6. 0 \in T
  <2>1. ob(0) = [o \in Contents!Objects |-> 0]
    OBVIOUS
  <2> HIDE DEF ob
  <2>2. Q(0)
    BY <1>5, <2>1
  <2> QED
    BY <2>2
<1>7. ASSUME NEW k \in Nat, k \in T PROVE k + 1 \in T
  <2> SUFFICES ASSUME k + 1 <= n PROVE Q(k + 1)
    OBVIOUS
  <2> DEFINE o == seq[k + 1]
             a == at[k]
             b == at[k + 1]
             ok == ob(k)
  <2>1. k + 1 \in 1..n /\ (k + 1) - 1 = k
    BY <1>2
  <2>2. BackendIs(a, pics, ok)
    BY <1>2, <1>7
  <2>3. b = Contents!WriteBuffer(a, o, 1)
    BY <1>5, <2>1
  <2>4. o \in Contents!Objects
    BY <1>4, <2>1 DEF S
  <2>5. ob(k + 1) = [ok EXCEPT ![o] = 1]
    <3>1. \A x : (\E j \in 1..(k + 1) : seq[j] = x) <=> (x = o \/ \E j \in 1..k : seq[j] = x)
      BY <2>1
    <3> QED
      BY <2>4, <3>1
  <2> HIDE DEF ob, o, a, b, ok
  <2>6. BackendIs(b, pics, [ok EXCEPT ![o] = 1])
    BY <2>2, <2>3, <2>4, BufferWritten
  <2> QED
    BY <2>5, <2>6 DEF b
<1> HIDE DEF T
<1>8. \A k \in Nat : k \in T
  BY <1>6, <1>7, SetInduction
<1>9. Q(n)
  BY <1>2, <1>8 DEF T
<1>10. ob(n) = [o \in Contents!Objects |-> IF o = "depth" THEN 0 ELSE 1]
  <2>1. \A o \in Contents!Objects : (\E j \in 1..n : seq[j] = o) <=> o # "depth"
    BY <1>3, <1>4 DEF S
  <2> QED
    BY <2>1
<1>11. Contents!Written(v) = Contents!WriteAll(v, seq)
  <2>1. Contents!Cardinality(S) = Cardinality(S)
    BY DEF Contents!Cardinality, Cardinality
  <2>2. Contents!SetToSeq(S) = SetToSeq(S)
    BY <2>1 DEF Contents!SetToSeq, SetToSeq, Contents!IsInjective, IsInjective
  <2>3. Contents!Written(v) = Contents!WriteAll(v, Contents!SetToSeq(S))
    BY DEF Contents!Written, S
  <2> QED
    BY <2>2, <2>3 DEF seq
<1> HIDE DEF ob
<1> QED
  BY <1>5, <1>9, <1>10, <1>11

-----------------------------------------------------------------------------
(* The invariant: the back end is as it has to be for what was given, and  *)
(* the window shows it until something changes.                            *)

ContentsInv ==
    /\ lamps \in Lamps /\ view \in Views
    /\ BackendIs(vk, pictures, objects)
    /\ fresh => vk.window = Contents!ExpectedOverlay(Contents!ExpectedScene)

LEMMA ContentsFirst ==
    ASSUME Contents!Init
    PROVE  ContentsInv
<1> DEFINE none == [t \in {"tex", "font"} |-> Contents!Undefined]
           one == [t \in {"tex", "font"} |-> Contents!Picture(1)]
           empty == [o \in Contents!Objects |-> 0]
           full == [o \in Contents!Objects |-> IF o = "depth" THEN 0 ELSE 1]
<1>1. PICK n \in DrawnCounts :
        vk = CASE part = "textures" -> Contents!Written(Contents!Device(n))
               [] part = "frames" -> Contents!Loaded(Contents!Device(n))
               [] OTHER -> Contents!Written(Contents!Loaded(Contents!Device(n)))
  BY DEF Contents!Init
<1>2. size = (CHOOSE s \in Sizes : TRUE) /\ view = (CHOOSE v \in Views : TRUE)
      /\ lamps = Contents!Shadowed /\ fresh = FALSE
  BY DEF Contents!Init
<1>3. lamps \in Lamps /\ view \in Views
  BY <1>2, VulkanGiven
<1> DEFINE d == Contents!Device(n)
<1>4. BackendIs(d, none, empty) /\ Contents!Used(d) \subseteq {"maps", "cubes"}
  BY <1>2, DeviceIs
<1> HIDE DEF d
<1>5. /\ pictures = IF part = "textures" THEN none ELSE one
      /\ objects = IF part = "frames" THEN empty ELSE full
  <2>1. pictures = [t \in {"tex", "font"} |-> IF part = "textures" THEN Contents!Undefined ELSE Contents!Picture(1)]
        /\ objects = [o \in Contents!Objects |-> IF part = "frames" \/ o = "depth" THEN 0 ELSE 1]
    BY DEF Contents!Init
  <2>2. pictures = IF part = "textures" THEN none ELSE one
    <3>1. CASE part = "textures"
      BY <2>1, <3>1
    <3>2. CASE part # "textures"
      BY <2>1, <3>2
    <3> QED
      BY <3>1, <3>2
  <2>3. objects = IF part = "frames" THEN empty ELSE full
    <3>1. CASE part = "frames"
      BY <2>1, <3>1
    <3>2. CASE part # "frames"
      BY <2>1, <3>2
    <3> QED
      BY <3>1, <3>2
  <2> QED
    BY <2>2, <2>3
<1>6. BackendIs(Contents!Loaded(d), one, empty) /\ BackendIs(Contents!Written(d), none, full)
  BY <1>4, LoadedIs, WrittenIs
<1>7. BackendIs(Contents!Written(Contents!Loaded(d)), one, full)
  BY <1>6, WrittenIs
<1>8. vk = IF part = "textures" THEN Contents!Written(d) ELSE IF part = "frames" THEN Contents!Loaded(d)
           ELSE Contents!Written(Contents!Loaded(d))
  BY <1>1 DEF d
<1> HIDE DEF none, one, empty, full
<1>9. BackendIs(vk, pictures, objects)
  <2>1. CASE part = "textures"
    <3>1. part # "frames"
      BY <2>1
    <3> QED
      BY <1>5, <1>6, <1>8, <2>1, <3>1
  <2>2. CASE part = "frames"
    <3>1. part # "textures"
      BY <2>2
    <3> QED
      BY <1>5, <1>6, <1>8, <2>2, <3>1
  <2>3. CASE part \notin {"textures", "frames"}
    BY <1>5, <1>7, <1>8, <2>3
  <2> QED
    BY <2>1, <2>2, <2>3
<1> QED
  BY <1>2, <1>3, <1>9 DEF ContentsInv

-----------------------------------------------------------------------------
(* Each operation keeps it.                                                *)

(* Only what is to be updated is changed. *)
Noticed(v, w) ==
    /\ DOMAIN w = Fields
    /\ \A f \in Fields \ {"recreate", "camera_updated", "lighting_updated"} : w[f] = v[f]

LEMMA NoticedIs ==
    ASSUME NEW v, NEW w, NEW pics, NEW objs, BackendIs(v, pics, objs), Noticed(v, w)
    PROVE  /\ Shape(w) /\ FramesAre(w) /\ SetsAre(w) /\ TexSetsAre(w)
           /\ ImagesAre(w, pics) /\ ObjectsAre(w, objs)
           /\ w.n = v.n /\ w.extent = v.extent /\ w.fbs = v.fbs /\ w.ubo = v.ubo
<1>0. Shape(v) /\ FramesAre(v) /\ SetsAre(v) /\ TexSetsAre(v)
      /\ ImagesAre(v, pics) /\ ObjectsAre(v, objs)
  BY DEF BackendIs
<1>1. /\ DOMAIN w = Fields
      /\ \A f \in Fields \ {"recreate", "camera_updated", "lighting_updated"} : w[f] = v[f]
  BY DEF Noticed
<1>2. /\ w.n = v.n /\ w.cur = v.cur /\ w.sizes = v.sizes /\ w.now = v.now
      /\ w.done = v.done /\ w.lost = v.lost /\ w.flight = v.flight /\ w.ubo = v.ubo
      /\ w.tex_sets = v.tex_sets /\ w.light_sets = v.light_sets /\ w.fbs = v.fbs
      /\ w.extent = v.extent
  BY <1>1 DEF Fields
<1>3. Shape(w)
  BY <1>0, <1>1, <1>2 DEF Shape
<1>4. FramesAre(w) /\ SetsAre(w) /\ ObjectsAre(w, objs)
  BY <1>0, <1>2 DEF FramesAre, SetsAre, ObjectsAre
<1>5. TexSetsAre(w) /\ ImagesAre(w, pics)
  BY <1>0, <1>2 DEF TexSetsAre, ImagesAre, Contents!Exists
<1> QED
  BY <1>2, <1>3, <1>4, <1>5

(* What was given is the same, but for pictures and objects. *)
LEMMA GivenKept ==
    ASSUME lamps \in Lamps, view \in Views,
           size' = size, view' = view, lamps' = lamps,
           NEW w, BackendIs(w, pictures', objects'), vk' = w, fresh' = FALSE
    PROVE  ContentsInv'
<1>1. UpdatedAre(w)' = UpdatedAre(w)
  BY DEF UpdatedAre
<1>2. BackendIs(vk, pictures, objects)'
  BY <1>1 DEF BackendIs, UpdatedAre
<1> QED
  BY <1>2 DEF ContentsInv

LEMMA Resizing ==
    ASSUME ContentsInv, NEW s \in Sizes, Contents!resize(s)
    PROVE  ContentsInv'
<1> DEFINE w == [vk EXCEPT !.recreate = TRUE, !.camera_updated = Contents!AllFrames]
<1>1. /\ vk' = w /\ fresh' = FALSE /\ view' = view /\ lamps' = lamps
      /\ pictures' = pictures /\ objects' = objects
  BY DEF Contents!resize, Contents!Changed
<1>2. BackendIs(vk, pictures, objects) /\ Shape(vk)
  BY DEF ContentsInv, BackendIs
<1>3. DOMAIN w = Fields /\ w.recreate = TRUE
      /\ \A f \in Fields \ {"recreate", "camera_updated", "lighting_updated"} : w[f] = vk[f]
  BY <1>2 DEF Shape, Fields
<1> HIDE DEF w
<1>4. Noticed(vk, w)
  BY <1>3 DEF Noticed
<1>5. /\ Shape(w) /\ FramesAre(w) /\ SetsAre(w) /\ TexSetsAre(w)
      /\ ImagesAre(w, pictures) /\ ObjectsAre(w, objects)
  BY <1>2, <1>4, NoticedIs
<1>6. BackendIs(vk, pictures, objects)'
  BY <1>1, <1>3, <1>5 DEF BackendIs, UpdatedAre, UpdatedFor
<1> QED
  BY <1>1, <1>6 DEF ContentsInv

LEMMA CameraNoticed ==
    ASSUME ContentsInv, NEW v \in Views, Contents!set_camera_updated(v)
    PROVE  ContentsInv'
<1> DEFINE w == [vk EXCEPT !.camera_updated = Contents!AllFrames]
<1>1. /\ vk' = w /\ fresh' = FALSE /\ view' = v /\ lamps' = lamps /\ size' = size
      /\ pictures' = pictures /\ objects' = objects
  BY DEF Contents!set_camera_updated, Contents!Changed
<1>2. BackendIs(vk, pictures, objects) /\ Shape(vk) /\ UpdatedAre(vk) /\ FramesAre(vk)
  BY DEF ContentsInv, BackendIs
<1>3. DOMAIN w = Fields /\ w.camera_updated = Contents!AllFrames
      /\ \A f \in Fields \ {"camera_updated"} : w[f] = vk[f]
  BY <1>2 DEF Shape, Fields
<1> HIDE DEF w
<1>4. Noticed(vk, w)
  BY <1>3 DEF Noticed
<1>5. /\ Shape(w) /\ FramesAre(w) /\ SetsAre(w) /\ TexSetsAre(w)
      /\ ImagesAre(w, pictures) /\ ObjectsAre(w, objects)
      /\ w.n = vk.n /\ w.extent = vk.extent /\ w.fbs = vk.fbs /\ w.ubo = vk.ubo
  BY <1>2, <1>4, NoticedIs
<1>6. w.recreate = vk.recreate /\ w.lighting_updated = vk.lighting_updated
  BY <1>3 DEF Fields
<1>7. \A f \in 0..(w.n - 1) : f \in w.camera_updated
  BY <1>2, <1>3, <1>5, VulkanGiven DEF FramesAre
<1>8. UpdatedFor(w, size, v, lamps)
  BY <1>2, <1>5, <1>6, <1>7 DEF UpdatedAre, UpdatedFor
<1>9. UpdatedFor(w, size', view', lamps')
  BY <1>1, <1>8
<1>10. BackendIs(vk, pictures, objects)'
  BY <1>1, <1>5, <1>9 DEF BackendIs, UpdatedAre
<1> QED
  BY <1>1, <1>10 DEF ContentsInv

LEMMA LightingNoticed ==
    ASSUME ContentsInv, NEW l \in Lamps, Contents!set_lighting_updated(l)
    PROVE  ContentsInv'
<1> DEFINE w == [vk EXCEPT !.lighting_updated = Contents!AllFrames]
<1>1. /\ vk' = w /\ fresh' = FALSE /\ view' = view /\ lamps' = l /\ size' = size
      /\ pictures' = pictures /\ objects' = objects
  BY DEF Contents!set_lighting_updated, Contents!Changed
<1>2. BackendIs(vk, pictures, objects) /\ Shape(vk) /\ UpdatedAre(vk) /\ FramesAre(vk)
  BY DEF ContentsInv, BackendIs
<1>3. DOMAIN w = Fields /\ w.lighting_updated = Contents!AllFrames
      /\ \A f \in Fields \ {"lighting_updated"} : w[f] = vk[f]
  BY <1>2 DEF Shape, Fields
<1> HIDE DEF w
<1>4. Noticed(vk, w)
  BY <1>3 DEF Noticed
<1>5. /\ Shape(w) /\ FramesAre(w) /\ SetsAre(w) /\ TexSetsAre(w)
      /\ ImagesAre(w, pictures) /\ ObjectsAre(w, objects)
      /\ w.n = vk.n /\ w.extent = vk.extent /\ w.fbs = vk.fbs /\ w.ubo = vk.ubo
  BY <1>2, <1>4, NoticedIs
<1>6. w.recreate = vk.recreate /\ w.camera_updated = vk.camera_updated
  BY <1>3 DEF Fields
<1>7. \A f \in 0..(w.n - 1) : f \in w.lighting_updated
  BY <1>2, <1>3, <1>5, VulkanGiven DEF FramesAre
<1>8. UpdatedFor(w, size, view, l)
  BY <1>2, <1>5, <1>6, <1>7 DEF UpdatedAre, UpdatedFor
<1>9. UpdatedFor(w, size', view', lamps')
  BY <1>1, <1>8
<1>10. BackendIs(vk, pictures, objects)'
  BY <1>1, <1>5, <1>9 DEF BackendIs, UpdatedAre
<1> QED
  BY <1>1, <1>10 DEF ContentsInv

LEMMA Rendering ==
    ASSUME ContentsInv, NEW outdated, Contents!render(outdated)
    PROVE  ContentsInv'
<1> DEFINE w == Rendered(vk, outdated)
           e == Contents!ExpectedOverlay(Contents!ExpectedScene)
<1>1. /\ vk' = w /\ fresh' = (outdated # "present") /\ size' = size /\ view' = view
      /\ lamps' = lamps /\ pictures' = pictures /\ objects' = objects
  BY DEF Contents!render, Contents!inputs, Rendered
<1>2. BackendIs(vk, pictures, objects) /\ lamps \in Lamps /\ view \in Views
  BY DEF ContentsInv
<1>3. BackendIs(w, pictures, objects) /\ (outdated # "present" => w.window = e)
  BY <1>2, RenderedIs
<1> HIDE DEF w
<1>4. e' = e
  BY <1>1 DEF Contents!ExpectedOverlay, Contents!ExpectedScene, Contents!Expected, Contents!ExpectedShadows, Contents!ExpectedDepth,
              Contents!Hiding, Contents!InOrder
<1> HIDE DEF e
<1>5. UpdatedFor(w, size', view', lamps')
  BY <1>1, <1>3 DEF BackendIs, UpdatedAre
<1>6. BackendIs(vk, pictures, objects)'
  BY <1>1, <1>3, <1>5 DEF BackendIs, UpdatedAre
<1>7. (fresh => vk.window = e)'
  BY <1>1, <1>3, <1>4
<1> QED
  BY <1>1, <1>2, <1>6, <1>7 DEF ContentsInv, e

LEMMA ContentsStep ==
    ASSUME ~Replaced, ~SplitGlyphs, ContentsInv, Contents!Next
    PROVE  ContentsInv'
<1>0. lamps \in Lamps /\ view \in Views /\ BackendIs(vk, pictures, objects)
      /\ ObjectsAre(vk, objects)
  BY DEF ContentsInv, BackendIs
<1>1. ASSUME NEW n \in DrawnCounts, Contents!set_n_frames(n) PROVE ContentsInv'
  <2>1. /\ vk' = Contents!SetFrames(vk, n) /\ fresh' = FALSE /\ size' = size /\ view' = view
        /\ lamps' = lamps /\ pictures' = pictures /\ objects' = objects
        /\ \A o \in Contents!Objects : objects[o] = 0
    BY <1>1 DEF Contents!set_n_frames, Contents!Changed, Contents!inputs
  <2> DEFINE w == Contents!SetFrames(vk, n)
  <2>2. BackendIs(w, pictures, objects)
    BY <1>0, <2>1, FramesSet
  <2> HIDE DEF w
  <2>3. BackendIs(w, pictures', objects')
    BY <2>1, <2>2
  <2> QED
    BY <1>0, <2>1, <2>3, GivenKept DEF w
<1>2. ASSUME NEW t \in {"tex", "font", "maps", "cubes"}, Contents!recreate(t) PROVE ContentsInv'
  <2> DEFINE w == Contents!Resized(t)
  <2>1. /\ t \in {"tex", "font"} /\ vk' = w /\ fresh' = FALSE
        /\ {t, "tex_sets"} \cap Contents!Used(vk) = {}
        /\ pictures' = [pictures EXCEPT ![t] = Contents!Undefined] /\ objects' = objects
        /\ size' = size /\ view' = view /\ lamps' = lamps
    BY <1>2 DEF Contents!recreate, Contents!Free, Contents!Changed, Contents!SetPicture
  <2>2. BackendIs(w, [pictures EXCEPT ![t] = Contents!Undefined], objects)
    <3>1. Contents!Used(vk) \cap {t, "tex_sets"} = {}
      BY <2>1
    <3>2. CASE t = "tex"
      <4>1. w = Contents!ResizeTextures(vk)
        BY <3>2 DEF Contents!Resized
      <4>2. Contents!Used(vk) \cap {"tex", "tex_sets"} = {}
        BY <3>1, <3>2
      <4> HIDE DEF w
      <4> QED
        BY <1>0, <3>2, <4>1, <4>2, TexturesMade
    <3>3. CASE t = "font"
      <4>1. w = Contents!ResizeFont(vk)
        BY <3>3 DEF Contents!Resized
      <4>2. Contents!Used(vk) \cap {"font", "tex_sets"} = {}
        BY <3>1, <3>3
      <4> HIDE DEF w
      <4> QED
        BY <1>0, <3>3, <4>1, <4>2, FontMade
    <3> QED
      BY <2>1, <3>2, <3>3
  <2> HIDE DEF w
  <2>3. BackendIs(w, pictures', objects')
    BY <2>1, <2>2
  <2> QED
    BY <1>0, <2>1, <2>3, GivenKept
<1>3. ASSUME NEW p \in Versions, NEW split \in BOOLEAN, Contents!load_textures(p, split)
      PROVE  ContentsInv'
  <2> DEFINE w == Contents!LoadTextures(vk, p, split)
  <2>1. /\ vk' = w /\ fresh' = FALSE /\ Contents!Exists(vk, "tex") /\ objects' = objects
        /\ pictures' = [pictures EXCEPT !["tex"] = Contents!Picture(p)]
        /\ size' = size /\ view' = view /\ lamps' = lamps
    BY <1>3 DEF Contents!load_textures, Contents!Changed, Contents!SetPicture
  <2>2. p \in Nat \ {0}
    BY VulkanGiven
  <2>3. BackendIs(w, [pictures EXCEPT !["tex"] = Contents!Picture(p)], objects)
    BY <1>0, <2>1, <2>2, TexturesGiven
  <2> HIDE DEF w
  <2>4. BackendIs(w, pictures', objects')
    BY <2>1, <2>3
  <2> QED
    BY <1>0, <2>1, <2>4, GivenKept
<1>4. ASSUME NEW p \in Versions, NEW split \in BOOLEAN, Contents!load_font(p, split)
      PROVE  ContentsInv'
  <2> DEFINE w == Contents!LoadFont(vk, p, FALSE)
  <2>1. /\ vk' = w /\ fresh' = FALSE /\ Contents!Exists(vk, "font") /\ objects' = objects
        /\ pictures' = [pictures EXCEPT !["font"] = Contents!Picture(p)]
        /\ size' = size /\ view' = view /\ lamps' = lamps
    <3>1. split = FALSE
      BY <1>4 DEF Contents!load_font
    <3> QED
      BY <1>4, <3>1 DEF Contents!load_font, Contents!Changed, Contents!SetPicture
  <2>2. p \in Nat \ {0}
    BY VulkanGiven
  <2>3. BackendIs(w, [pictures EXCEPT !["font"] = Contents!Picture(p)], objects)
    BY <1>0, <2>1, <2>2, FontGiven
  <2> HIDE DEF w
  <2>4. BackendIs(w, pictures', objects')
    BY <2>1, <2>3
  <2> QED
    BY <1>0, <2>1, <2>4, GivenKept
<1>5. ASSUME NEW o \in Contents!Objects, NEW x \in Nat, Contents!write_to_buffer(o, x) PROVE ContentsInv'
  <2> DEFINE w == Contents!WriteBuffer(vk, o, x)
  <2>1. /\ vk' = w /\ fresh' = FALSE /\ objects' = [objects EXCEPT ![o] = x]
        /\ pictures' = pictures /\ size' = size /\ view' = view /\ lamps' = lamps
    BY <1>5 DEF Contents!write_to_buffer, Contents!Changed
  <2>2. BackendIs(w, pictures, [objects EXCEPT ![o] = x])
    BY <1>0, BufferWritten
  <2> HIDE DEF w
  <2>3. BackendIs(w, pictures', objects')
    BY <2>1, <2>2
  <2> QED
    BY <1>0, <2>1, <2>3, GivenKept
<1>6. ASSUME NEW o \in Contents!Objects, Contents!set_buffer_capacity(o) PROVE ContentsInv'
  <2> DEFINE w == Contents!SetCapacity(vk, o)
  <2>1. /\ vk' = w /\ fresh' = FALSE /\ objects' = objects /\ objects[o] = 0
        /\ o \notin Contents!Used(vk)
        /\ pictures' = pictures /\ size' = size /\ view' = view /\ lamps' = lamps
    BY <1>6 DEF Contents!set_buffer_capacity, Contents!Changed, Contents!Free, Contents!inputs
  <2>2. BackendIs(w, pictures, objects)
    BY <1>0, <2>1, CapacitySet
  <2> HIDE DEF w
  <2>3. BackendIs(w, pictures', objects')
    BY <2>1, <2>2
  <2> QED
    BY <1>0, <2>1, <2>3, GivenKept
<1>7. "sprites" \in Contents!Objects /\ "depth" \in Contents!Objects /\ {0} \cup Versions \subseteq Nat
      /\ 1 \in Nat
  BY VulkanGiven DEF Contents!Objects
<1>8. CASE \E n \in DrawnCounts : Contents!set_n_frames(n)
  BY <1>1, <1>8
<1>9. CASE \E s \in Sizes : Contents!resize(s)
  BY <1>9, Resizing
<1>10. CASE \E v \in Views : Contents!set_camera_updated(v)
  BY <1>10, CameraNoticed
<1>11. CASE \E l \in Lamps : Contents!set_lighting_updated(l)
  BY <1>11, LightingNoticed
<1>12. CASE \E t \in {"tex", "font", "maps", "cubes"} : Contents!recreate(t)
  BY <1>2, <1>12
<1>13. CASE \E p \in Versions, split \in BOOLEAN : Contents!load_textures(p, split) \/ Contents!load_font(p, split)
  BY <1>3, <1>4, <1>13
<1>14. CASE \E x \in {0} \cup Versions : Contents!write_to_buffer("sprites", x)
  BY <1>5, <1>7, <1>14
<1>15. CASE Contents!write_to_buffer("depth", 1)
  BY <1>5, <1>7, <1>15
<1>16. CASE Contents!set_buffer_capacity("sprites")
  BY <1>6, <1>7, <1>16
<1>17. CASE \E outdated \in {"no", "acquire", "present"} : Contents!render(outdated)
  BY <1>17, Rendering
<1> QED
  BY <1>8, <1>9, <1>10, <1>11, <1>12, <1>13, <1>14, <1>15, <1>16, <1>17 DEF Contents!Next

LEMMA ContentsKept ==
    ASSUME ContentsInv, UNCHANGED <<Contents!displayvars, vk>>
    PROVE  ContentsInv'
<1> DEFINE e == Contents!ExpectedOverlay(Contents!ExpectedScene)
<1>1. vk' = vk /\ fresh' = fresh /\ size' = size /\ view' = view /\ lamps' = lamps
      /\ pictures' = pictures /\ objects' = objects
  BY DEF Contents!displayvars, Contents!inputs
<1>2. e' = e
  BY <1>1 DEF Contents!ExpectedOverlay, Contents!ExpectedScene, Contents!Expected, Contents!ExpectedShadows, Contents!ExpectedDepth,
              Contents!Hiding, Contents!InOrder
<1>3. lamps \in Lamps /\ view \in Views /\ BackendIs(vk, pictures, objects)
      /\ (fresh => vk.window = e)
  BY DEF ContentsInv
<1> HIDE DEF e
<1>4. BackendIs(vk, pictures, objects)'
  BY <1>1, <1>3 DEF BackendIs, UpdatedAre
<1> QED
  BY <1>1, <1>2, <1>3, <1>4 DEF ContentsInv, e

LEMMA ContentsShown ==
    ASSUME ContentsInv
    PROVE  Contents!Shown
  BY DEF ContentsInv, BackendIs, Shape, Contents!Shown
-----------------------------------------------------------------------------
(* Whichever back end runs.                                                *)

VulkanShows == backend = "Vulkan" /\ part # "flight" => ContentsInv

LEMMA VulkanFirst ==
    ASSUME GraphicsInit
    PROVE  VulkanShows
<1>1. CASE part = "flight" \/ backend # "Vulkan"
  BY <1>1 DEF VulkanShows
<1>2. CASE Contents!Init
  BY <1>2, ContentsFirst DEF VulkanShows
<1> QED
  BY <1>1, <1>2 DEF GraphicsInit, InFlight

LEMMA VulkanStep ==
    ASSUME ~Replaced, ~SplitGlyphs, VulkanShows, [GraphicsNext]_graphicsvars
    PROVE  VulkanShows'
<1>1. CASE Flight(Next)
  BY <1>1 DEF Flight, displayvars, VulkanShows
<1>2. ASSUME backend = "Vulkan", part # "flight", Contents!Next, backend' = backend
      PROVE  VulkanShows'
  <2>1. ContentsInv
    BY <1>2 DEF VulkanShows
  <2> QED
    BY <1>2, <2>1, ContentsStep DEF VulkanShows
<1>3. CASE backend # "Vulkan" /\ backend' = backend
  BY <1>3 DEF VulkanShows
<1>4. ASSUME UNCHANGED graphicsvars
      PROVE  VulkanShows'
  <2>1. /\ backend' = backend /\ part' = part /\ vk' = vk
        /\ UNCHANGED Contents!displayvars
    BY <1>4 DEF graphicsvars, displayvars, inputs, Contents!displayvars, Contents!inputs
  <2>2. CASE backend = "Vulkan" /\ part # "flight"
    <3>1. ContentsInv
      BY <2>2 DEF VulkanShows
    <3> QED
      BY <2>1, <3>1, ContentsKept DEF VulkanShows
  <2>3. CASE ~(backend = "Vulkan" /\ part # "flight")
    BY <2>1, <2>3 DEF VulkanShows
  <2> QED
    BY <2>2, <2>3
<1> QED
  BY <1>1, <1>2, <1>3, <1>4 DEF GraphicsNext

LEMMA GraphicsFrames ==
    ASSUME [GraphicsNext]_graphicsvars
    PROVE  [Next]_vars
  BY DEF GraphicsNext, graphicsvars, Flight

(* With Vulkan, each frame that is shown is that of the contents, sizes,   *)
(* camera and lights of now, whatever earlier ones have left, and the      *)
(* uniforms that the device reads are of now, for any numbers of frames,   *)
(* images and lights, unless something is made again that commands refer   *)
(* to, or a glyph is written from two blocks: VulkanBackend::render().     *)
THEOREM VulkanIsCurrent ==
    ASSUME ~Replaced, ~SplitGlyphs
    PROVE  GraphicsSpec => [](backend = "Vulkan" => Current)
<1>1. GraphicsInit => IInv /\ VulkanShows
  BY InitIInv, VulkanFirst DEF GraphicsInit
<1>2. /\ IInv /\ VulkanShows /\ [GraphicsNext]_graphicsvars
      => (IInv /\ VulkanShows)'
  BY StepIInv, VulkanStep, GraphicsFrames
<1>3. IInv /\ VulkanShows => (backend = "Vulkan" => Current)
  <2>1. ASSUME IInv, VulkanShows, backend = "Vulkan" PROVE Current
    <3>1. UniformsCurrent
      BY <2>1 DEF IInv, UniformInv
    <3>2. part # "flight" => Contents!Shown
      BY <2>1, ContentsShown DEF VulkanShows
    <3> QED
      BY <2>1, <3>1, <3>2 DEF Current
  <2> QED
    BY <2>1
<1> QED
  BY <1>1, <1>2, <1>3, PTL DEF GraphicsSpec
=============================================================================
