# Verification of nngn

This directory has TLA+ models of the core of nngn, the game engine in this
repository, the configurations that check them with TLC on small instances, and
proofs of the most important results that TLAPS checks.  Paths are relative to
the root of the repository; its own program is in `src/`.

`PROJECT.json` has the same information in a form for tools: the components,
the runs, a mutation of the model for each property which shows it can fail,
the lines of code each definition stands for, the findings, the hazards and the
theorems.

Contents: [1. The system](#1-the-system) ·
[2. The models](#2-the-models) · [3. The runs](#3-the-runs) ·
[4. Fairness](#4-fairness) · [5. Findings](#5-findings) ·
[6. Proofs](#6-proofs) · [7. Plan](#7-plan) ·
[8. How to run](#8-how-to-run)

## 1. The system

### The main loop

nngn is one process and, apart from the threads of drivers and of the audio
library, one thread.  `main()` (`src/main.cpp`) creates one object per
subsystem, gives all of them to Lua, runs `src/lua/all.lua` (compute, graphics,
collision, socket, limits, the script of the game and its map), and then calls
`NNGN::loop()` until it returns something other than -1; `Schedule::exit()` is
called last.  One call of `loop()` is one frame:

1. the loop ends if a flag says so or the window was closed;
2. `timing.update`, `input.update`, `schedule.update`, `socket.process` and the
   execution of the script it received: this is where scripts run;
3. `entities.update` (velocities), `animations.update`;
4. `colliders.check_collisions`, `resolve_collisions`, and the callbacks of
   scripts for each collision;
5. `entities.update_children`, cameras, text box, lights;
6. `renderers.update`, which writes the buffers of the graphics back end;
7. flags are cleared, and the frame is rendered and presented.

There is no locking because there is nothing to lock, but there is interleaving
of five kinds, and they are where the code is hard to test:

- **scripts inside of loops**: the functions called by the scheduler, by input
  and by collisions are arbitrary Lua code which calls back into the object
  that is calling them;
- **the compute device**, which executes the commands of an out-of-order queue
  while the host goes on;
- **the GPU**, which renders frames while the host writes the next;
- **the clients of the socket**, and other processes that want the same socket;
- **the keyboard**, read by functions that are called for an earlier event.

State that outlives a frame is held by pointers and indices into vectors whose
elements move, by flags someone else clears, and by counters of references.

### Components

**Schedule** (`src/timing/schedule.cpp`).
*State*: a vector of slots for tasks (function, data, destructor, flags, the
time and frame they are due in, a generation), another for those to be executed
at exit, the current generation.
*Operations*: `next`, `in`/`at`, `frame`, `atexit`, which return the index of a
slot; `cancel`, `cancel_atexit`; `update` once per frame; `exit` at the end.
*Interaction*: tasks are Lua functions, which schedule and cancel tasks,
themselves too, during `update`; input and the socket do so between updates.
*Hard*: the vector is walked while it grows, is reused and shrinks; a second
pass decides again what was due; failures stop the walk half way, and a
destructor that fails in `cancel` leaves its task where it was.
*Correct if*: an index is good for as long as its task exists; an update
executes what was due when it began, each once, and nothing else; what is due
is executed; nothing is called after its data was destroyed.

**Entities and components** (`src/entity.cpp`, `src/lua/lib/entity.lua`, and
`load`/`remove` of `src/render/render.cpp`, `src/collision/collision.cpp`,
`src/render/animation.cpp`, `src/render/light.cpp`).
*State*: a `static_vector` of entities, each with a pointer to one component of
each kind and to its parent; an array per type of component, without gaps, each
component with a pointer to its entity.
*Operations*: `Entities::add`, `NNGN::remove_entity`, the loader of Lua, which
removes the component an entity has before it asks for the new one.
*Hard*: to remove a component the last one is moved into its place, and the
pointer to it has to follow; arrays have limits, so that the second half of a
replacement may fail.
*Correct if*: pointers and owners always match, nothing is left behind in an
array, and entities keep their components whatever happens to the others.

**static_vector** (`src/utils/static_vector.h`).
*State*: a vector whose elements never move, the free ones in a list that lives
inside of them.
*Correct if*: the list has exactly the elements not in use, and what is erased
is available again.

**Positions** (`src/entity.cpp`, `src/main.cpp`,
`Colliders::resolve_collisions`).
*State*: position, velocity and parent of each entity, the flag `POS_UPDATED`,
and a copy of the position in each component, to which that of the parent is
added.
*Operations*: `set_pos`, `set_vel`, `set_parent`, `set_renderer` etc. from
scripts; the phases of the loop.
*Hard*: a parent can be moved from four places in a frame, children are moved
only once, in one of the phases.
*Correct if*: what is drawn is in place, and what collisions are checked with
is not older than a frame.

**Textures** (`src/graphics/texture.cpp`, with the references of
`src/render/render.cpp`).
*State*: for each slot a count of references, a name and its hash; a
generation; what the back end has in its array of images.
*Operations*: `load`, `load_data`, `remove`, `add_ref`, `reload_all`; scripts
and renderers hold references.
*Hard*: slots without references keep their name and are found by it; uploads
fail in the middle; the back end may be replaced.
*Correct if*: counts are exact, a name has one slot and its image, and the slot
of a texture in use is not given to another.

**Collision detection** (`src/collision/collision.cpp`,
`src/collision/compute.cpp`, `src/cl/collision.cl`, `src/compute/opencl.cpp`).
*State*: arrays of five types of colliders, limits, the collisions of the
frame; on the device a buffer for each member, counters and a buffer of
collisions for each of eight kernels; events of the commands enqueued.
*Operations*: `set_max_collisions`, `check_collisions`, `resolve_collisions`,
`lua_on_collision`.
*Hard*: the queue is out of order, and only lists of events, written by hand
for each kernel, and barriers order uploads, kernels, reads and the reset of
the counters of the next frame; buffers have limits.
*Correct if*: every collision of the frame is reported once and nothing else is
(up to the limit), nothing is left running that touches the next frame, and
the check returns.

**Renderers** (`src/render/render.cpp`, `gen.h`).
*State*: flags per array, a flag per renderer, the set of selected renderers,
and the buffers of the back end.
*Hard*: whatever changes must be written to the buffers, which depends on flags
set in many places, cleared in `update()` and `gen.h`; the set of selections
has pointers to elements that `remove()` moves.
*Correct if*: after `update()` a buffer shows its array.

**Socket** (`src/os/socket.cpp`).
*State*: a lock file and the socket as files, the listening socket, eight
places for clients, and a buffer for one script.
*Operations*: `init`, `destroy`; `process`, once per frame: accepts all, reads
from the first client that can be read until there is nothing more, and the
result is executed as a script.
*Hard*: a crash leaves both files; clients beyond the eighth are accepted and
lost; clients that go on writing keep those in later places from being heard; a
script that arrives in two parts is executed as two.
*Correct if*: one process listens and has the name; a new one can after a
crash; what a client wrote is executed once, in order, and, unless those in
front of it never stop, in the end.

**Graphics, Vulkan** (`src/graphics/vulkan/`).
*State*: the images of the swap chain with fences of their own, semaphores and
command buffers for the frames in flight, blocks of staging memory with ages.
*Hard*: two indices, of frames and of images, advance at different speeds;
blocks are reused when the fence of the frame that used them was waited for.
*Correct if*: no command buffer or block is written while the GPU uses it, and
no block is kept or destroyed against the rule of `staging.h`.

**Graphics, what a frame shows** (`src/graphics/opengl/`, `vulkan/`,
`src/graphics/terminal/`).
*State*: what the window, camera, lights, textures, font and buffers are now,
and copies of it in the uniform buffers, descriptor sets, images and bindings of
the back end, one per frame in flight in Vulkan; in OpenGL the bindings of the
context; in a terminal the characters.
*Hard*: whatever is set is copied later, by flags, or when something else is
created again; what a call of OpenGL does depends on what was left bound.
*Correct if*: a frame shows what there is when it is drawn.

**Compute** (`src/compute/opencl.cpp`, `lua_compute.cpp`).
*State*: tables of buffers, programs, kernels etc., an out-of-order queue, events.
*Hard*: one call puts several commands in the queue, which only events tie to
one another; any of them may fail; the memory of the caller is read later.
*Correct if*: no object or event is lost or released twice, no memory is used
after its call, and commands are done in the order that was asked for.

**Input, players, menus, maps** (`src/input/`, `src/lua/input.lua`,
`src/lua/lib/player.lua`, `input.lua`, `menu.lua`, `map.lua`, `src/lua/main.lua`).
*State*: groups of bindings, queued events; a list of players with what is
attached to each, the current one, whom the camera follows; the current map,
its entities and heartbeat; scenes and pauses.
*Hard*: functions are called for events after all of them were collected and
read the keyboard as it is then; a map is left when another is loaded, frames
after it was asked for; there is one place for the group to return to.
*Correct if*: one player is controlled, and stands or moves as the keys say;
nothing of a player or of a map is left when it goes.

**Lighting, text box, animations, cameras** (`src/render/light.cpp`,
`src/font/textbox.cpp`, `src/render/animation.cpp`, `src/math/camera.cpp`).
*State*: data for the shaders and `UPDATED` flags; the progress of a text; the
frame and timer of each animation.
*Hard*: flags that the loop or another component clears.
*Correct if*: what is drawn is what there is when the frame ends.

**Lua binding and allocation** (`src/lua/`).
*State*: the stack of a C++ function and the objects that own its slots; the
heap of the interpreter; counters per type of memory.
*Hard*: objects know their slot by index; the body of a loop must leave the
stack as it was; what is not reachable is collected at any time.
*Correct if*: each slot belongs to the object that thinks so, a copy lives as
long as it can be reached, loops see every field, and counters are exact.

**Maps and grid, audio, fonts, timing, mathematics, platform, tools**: calls of
libraries, conversions and arithmetic; `PROJECT.json` says of each why it is
not modelled.

### Hazards

`PROJECT.json` lists forty places where this code could go wrong in a way that
a test would hardly reach, with the properties that watch each.  Some are in no
model, and should be known:

- failures of the compute device are taken for an absence of collisions
  (`src/collision/compute.cpp:584`), and work items are rounded down (`:576`);
- `set_max` functions replace vectors that others point into
  (`src/utils/ranges.h:73`);
- a camera that follows a child is moved without its parent
  (`src/entity.cpp:181`), and an entity keeps the pointer to a parent that was
  removed (`src/entity.h:38`);
- an entity removed in a callback of a collision is still in the list that is
  being walked (`src/collision/collision.cpp:128`).

## 2. The models

One module per component; each has its state as variables, an action per
operation, and its properties at the end.  `MC*` modules only give names to the
model values of the configurations.  Definitions that are said to be mutants in
their comment are not part of the specification: each is the definition that
follows it with an error a programmer could make, and the property paired with
it in `PROJECT.json` fails when it is put in its place.

| module | models | checked by | proofs |
|---|---|---|---|
| `Schedule` | the scheduler and the part of the main loop that drives it | `MCSchedule` | `ScheduleProofs` |
| `TaskSet` | *abstract*: a set of pending tasks | | |
| `StaticVector` | `static_vector.h` | `Population` | `PopulationProofs` |
| `Pool` | *abstract*: a pool of stable elements | | |
| `World` | entities and arrays of components | `Population` | `PopulationProofs` |
| `Components` | *abstract*: a map from entities to components | | |
| `Frame` | positions in the course of the main loop | `Population` | `PopulationProofs` |
| `Population` | the three above: one container and its entities | `MCWorld` | `PopulationProofs` |
| `Textures` | texture cache, those who hold textures, images of the back end | itself | `GraphicsProofs` |
| `Collisions` | collision check on the host and the device | itself | `ComputeProofs` |
| `FramesInFlight` | Vulkan: swap chain, fences, command buffers, staging memory | `Graphics` | `GraphicsProofs` |
| `Display` | what scripts can change of what is shown, and the marks left by drawing | | |
| `VulkanBackend` | Vulkan: what a frame shows | `Graphics` | `GraphicsProofs` |
| `GL`, `OpenGL` | a context of OpenGL, and the back end that uses it | `Graphics` | |
| `Terminal` | the back end that writes characters | `Graphics` | |
| `Graphics` | the four above: one back end per behavior | `MCGraphics` | `GraphicsProofs` (with Vulkan) |
| `Renderers`, `Animations`, `Textbox`, `Lighting`, `Camera` | the systems the loop updates, with their flags | `Scene` | |
| `Scene` | the five above and the order of the loop | `MCScene` | `SceneProofs` |
| `SocketPath`, `Socket` | lock and socket as files; connections | `Socket` | `SocketProofs` |
| `Compute` | tables of objects, the queue and calls of OpenCL | itself | `ComputeProofs` |
| `Players`, `Input`, `Maps` | players and menus; keys and bindings; maps and scenes | `Game` | |
| `Game` | the three above | `MCGame` | `GameProofs` |
| `Lua`, `LuaMemory` | the binding; the allocation statistics | `LuaBinding` | `LuaProofs` |
| `LuaBinding` | the two above | itself | `LuaProofs` |

Modules of a composition share variables where the code shares state
(`Population`: an entity is an element of the container; `Game`: keys, the
binding group and the list of players), and are interleaved otherwise.  In
`Scene` and `Graphics` a variable chosen at the beginning says which part is
busy in a behavior: parts do not read each other's state, so that a product of
all of them would only be larger.

### Schedule, TaskSet

`v` and `atexit_v` are the two vectors, with capacities, because a task that
adds another may reallocate the vector from which it is being executed
(`moved`).  `pc` is the place in the loop: `top` (start of the frame), `input`
(time has advanced, input callbacks run), `exec` and `call` (first pass of
`update()`, and inside of a task), `destroy` (second pass), `failed`, and the
same for exit.  In `call` and outside of the passes any request is possible:
that is all the interleaving there is.  `mut_iter`, which compares the index
with the size at each step, is `ExecSkip`/`ExecCall`/`ExecEnd`.

An entry is freed by resetting function, data and flags (`Free`); other fields
of free slots are never read, so they are reset too to have fewer states.
The flags read after a task failed (`FlagReads`) are those of the slot as it is
then, or anything if the storage was freed.  `exit()` calls `destroy()` on every
slot, which asserts that it is active (`pc = "aborted"`); a slot of the vector
of exit tasks can only be inactive after `cancel_atexit()`, which no code in the
repository calls.  Destructors may fail wherever they are called: in `cancel()`
and `cancel_atexit()`, which return false and leave the slot active
(`CancelFails`, `CancelAtexitFails`), in the second pass of `update()`, which
stops where it is (`UpdateEndFails`), and in `exit()`, which goes on to drop
the rest of the vector (`ExitEnd`).

*History variables* (`handle`, `running`, `dead`, `torn`, `refused`, `called`)
only record: `dead` are the tasks that were destroyed, `torn` those whose
destructor failed in `update()` or `exit()`, `refused` those that remain after
it failed in a cancellation; no
guard depends on them except that a task is added once, which makes tasks
distinguishable.  *Abstracted*: time and frames are small integers, durations
are positive offsets; the data of a task is the task.

`TaskSet` has no indices: tasks are pending; an update takes those due at its
beginning, executes each once in any order, and removes those that are not
heartbeats.  `Schedule` maps to it with the slots that are due and not visited
as `todo`, those due and visited as `ran`; a cancellation that fails is no step
of it, as `cancel` returns false and nothing has changed.  That a second
evaluation of the same condition destroys exactly what was executed, that new
tasks wait for the next update wherever in the vector they land, and that
cancelling in the middle of an update takes effect at once, are all parts of
this one property.

### StaticVector, World, Frame, Population

An element of `StaticVector` is its link (0 for null, and for elements in use);
`used` is history: the elements handed out.  `Walk` follows the links from
`free_head` as `n_free()` does, and `FreeListExact` says that some walk passes
each element not in use once.  `ReserveInUse` allows a change of capacity while
elements are in use.

`comps` of `World` has the arrays, `ptr` the pointers of entities: an array and
an index, so that a stale pointer is one whose index holds something else or
nothing.  `load` is the loader of Lua: for each kind given, the old component is
removed, which moves the last of its array and redirects its owner, and the new
one is appended if there is room.  What happens if there is none differs between
kinds (`LoadedPtr`), as in the code.  The loader handles the kinds one after the
other, but kinds share no array, so that one step for all of them has the same
result.

In `Frame` one number modulo `Span` stands for a vector: sums are all that
matters, and modulo keeps them finite.  The phases are those of the loop.
`Entities::update` and `update_children` are one step per entity since they read
and write the positions of others; chains of parents come in any order.
`LateComponents` allows a component to be given to an entity that has a parent.
The loader sets the parent last, so scripts that only use the loader once per
entity never do.

### Textures

`counts`, `names` and `image` are the arrays of slots and what the back end
holds, an image being named after what was loaded; slot 0 is reserved.  `held`
and `tex` are the references of scripts and renderers, the two kinds of users
there are.  A failed upload may leave the old image, the new one or neither.
`set_graphics` is a new back end, with none of the images.

### Collisions

The back end is chosen when the program starts (`src/lua/lib/collision.lua`).
The native one is its loops over pairs of arrays with the limit they share.
With the other the host (`check_collisions`, `read_collision_buffer`) enqueues
and waits; the device executes any command of `queue` whose events have
completed and which is not behind a barrier (`Ready`), and it may do so at any
later time, in later frames too.  `WaitList` has for each kernel the events its
list names, `ReadWait` the kernel whose event is waited for before the results
are read.  A kernel that reads members which are not those of its frame finds
anything (`Finds`), one that does finds the pairs of `hits` in any order,
because work items take numbers from the counter.  `live` marks commands whose
buffers are still those in use: `set_max_*` create new buffers, and the old
commands finish on the old ones.

*Abstracted*: geometry (which pairs collide is chosen at the start of a frame),
sizes of work groups, statistics, the flag `COLLIDING`.  Fixed pairs count
toward the limit in the compute back end only.

### FramesInFlight

The host is `render()` and what it calls; the device executes submissions in
order; the presentation engine has images and may return any that is not the
last queued, also one it is not done with.  `slots` are semaphores and fences
per frame in flight, another array has a fence per image.  A block of staging
memory is in use, in a list of free ones with an age, or destroyed.  Waiting for
a fence is a guard.  One set of uniforms stands for camera and lights, with
flags per frame.

### Display, VulkanBackend, GL, OpenGL, Terminal, Graphics

`Display` has what there is now (size of the window, camera, lights, images,
index buffers), the operations that change it, and what each mark on the screen
should be: a mark is the set of what it was computed from, so that a frame
drawn with an old matrix or a wrong texture is a different mark.  Each back end
keeps its copies and draws with those.  `Shown` compares them after a frame that
follows no change; the uniforms of each frame in flight must be right too.

`GL` is a context as far as the back end uses it: units, targets, framebuffers
with attachments, masks, programs with their uniforms; `OpenGL` is a list of
commands for each operation, and what is drawn is read off the context.
`VulkanBackend` has two mip levels of two rows, layouts of images, and commands
executed in order: when frames are waited for is in `FramesInFlight`.
`Terminal` counts columns, rows and pixels in quarters of a character; the
frame buffer is a sequence of marks with prefix and suffix.

*Abstracted*: one representative object and pipeline per list; calls succeed;
initialization, choice of devices and formats; capacities of buffers in OpenGL
and in terminals; blending, the frame limiter and the cursor of terminals.

### Renderers, Animations, Textbox, Lighting, Camera, Scene

A step of `frame` is one turn of the main loop with up to `Ops` operations of
scripts, before the systems are updated or in callbacks of collisions, after
some of them were.  Each part has its flags, and its buffers hold what its flags
let be written.  `Drawn` says that after the frame every buffer shows what there
is; `Followed` that selections, outlines and animations belong to the renderers
they were made for.

*Abstracted*: contents of buffers are what they were computed from.  *Left
out*: `set_zsprites` with shadows of lights, parameters of shadow maps (whose
flag is never cleared), capacities, debug buffers of colliders and lights.

### SocketPath, Socket

`SocketPath` has processes that open and lock a file, remove the old name, bind,
listen, and at the end remove the name, unlock, remove the lock's file, one step
per call, and may crash between any two.  `Socket` adds connections: what a
client writes are numbers in the order written, and a script is what was between
two ends of it.  Clients may write, end and connect again for ever: the numbers
of a connection start again once all that was sent over it is executed
(`AllRan`), and a connection that was closed stands for the next one.  `poll`
may report the end of a connection with or without data; a full buffer closes it
and the rest is lost.

### Compute

A call is a sequence of steps, each of which puts one command in the queue; the
device does any command whose events are done and which no barrier precedes.
`deps` is what the queue was told, `needs` what the caller asked for: that the
second follows from the first is `InOrder`.  Objects that commands use are kept
by OpenCL, released or not.

### Players, Input, Maps, Game

Events of the keyboard are collected (`key_event`) and given to the functions
of the current group, which read `held` as it is then.  A player has what is
attached to it: a fairy, a fire, a menu.  `Users` are kinds of users, each with
the keys it presses, so that not all keys are combined in one behavior; they are
described with the bounds in 3.

### Lua, LuaMemory, LuaBinding

`stack` has values, `locals` the C++ objects with the index of the slot each
thinks it owns, `heap` the tables.  Objects end in the reverse
order, as scopes do.  `collect` removes anything that cannot be reached.  A field is
given by a path, the tables of which come and go at the top of the stack (`Walk`).
`LuaMemory` has the header of blocks, one number in which the size is less than
`Mask`, and counters that wrap at `Word`: types below the first of interest wrap
around too.  `Fits` says that there is no more memory than addresses, without
which the bytes would not be those of the blocks.

## 3. The runs

All take less than three minutes with two workers.

| run | states | what it shows |
|---|---|---|
| `schedule_update` | 1,457,717 | three one-shot or heartbeat tasks that add and cancel one another |
| `schedule_exit` | 1,563,824 | failures, destructors that fail, tasks at exit, liveness |
| `schedule_tolerance` | - | the finding of 5 |
| `world` | 1,814,510 | loads that replace, move, change type and fail; entities moved in all ways |
| `textures` | 25,137 | sharing, reuse, failures, replaced back ends |
| `collision_check` | 188,673 | two frames on an out-of-order device, and of the native back end |
| `frames` | 548,763 | frames in flight; what frames show with each back end |
| `scene` | 2,530,304 | the systems of the loop, two operations in each frame |
| `socket` | 67,117 | two processes, clients that come and go for ever, crashes |
| `compute` | 758,127 | calls with and without events, any order of completion |
| `game` | 2,180,286 | users, players, menus, maps and scenes |
| `lua` | 161,615 | objects on the stack, loops, garbage; allocations |

**schedule_update, schedule_exit.** `IInv` is the inductive invariant of the
proofs: types, that a vector fits in the capacity it has, that indices lead to
tasks and back.  `HandlesStable`: the index of a task names its slot until the
task is destroyed.  `OneShotOnce`: as it says.  `NeverCalledDead`: no task is
called after it was destroyed, nor after its destructor failed in `update()` or
`exit()`; after it failed in `cancel()` it may be (see 5).  `DueRuns`: a
task that is due when a frame starts is executed in it, or was cancelled, or
something failed.  `AbstractSpec` is the refinement of `TaskSet`.
*Bounds*: three tasks are enough to have one before, at and after the slot
under execution; `MaxGen` 3 updates let a task be added in one, executed in the
next, and its slot be reused in the third; `MaxTime` 1 and `MaxFrame` 2 have
tasks that are due and not due in every update.  The run with failures has two
tasks and two exit tasks, and is used for liveness, where symmetry would not be
sound.

**world.** Three entities are what it takes to have the removed component, the
one moved, and one that is neither, and with two contents a component that took
the place of another can be told from it; chains and cycles of parents; loops in
the order of both the children and their parents; and free lists in any order.
The array of two animations, for three entities, gets full; sprites and cubes
are two arrays of the same kind with room for all, so that entities may change
the type of their renderer.  Two kinds are enough, as no call for one depends on
another: colliders fail to load as renderers do, lights as animations.  `Inv` is
the container's, `IInv` has both directions of pointers and owners, `PoolSpec`
and `ComponentMap` are the refinements, `FrameInv` says during the whole frame
what may be out of place, and `Drawn` that nothing is when it is drawn.

**textures.** Three names for two slots and two renderers; scripts hold up to
two references to a slot, and the generation is counted modulo 2, since nothing
but its changing matters.  `TexturesInv` has exact counts, with the assertion of
`remove()`, and names that are unique; `ImagesRight`: the image of a slot is its
own unless it was lost; `ShownStays`: the slot a renderer shows is not given to
another name.

**collision_check.** Two frames let commands of the first run in the second. Two
pairs, one of which has infinite masses, and limits of one and two collisions,
changed between frames, have kernels that find more than there is room for.  The
four scenes have, between them, all the types, and each has colliders for one
kernel at least.  `Reported`: when `check()` returns, what collides has been
reported once, and nothing else.  `BetweenCalls` includes that what is left on
the queue then is uploads that no kernel of the frame reads. `CheckReturns`: the
check ends.

**frames.** Two images, one to three frames in flight, fewer than, as many as
and more than the images, two blocks of staging memory of two units, writes of
three.  `Inv`: blocks are in one place and are not too old.  `NotInUse`: the
host records, resets or writes nothing that the device reads, and the semaphores
and the fence of a slot are free when it is submitted with; that an image is
acquired with is free unless all images are being rendered to, which takes more
frames than images (see 5).  `Current`: uniforms and what is shown are those of
now. `RetiredUnused`: a block that is destroyed has been free for `n_frames`
frames, and as many remain.  With two blocks TLC does not reach the destruction
of one with two or three frames in flight; the proof covers it, and a run with
two frames and three blocks (851,805 states) passes too.  `FramesGoOn`: the loop
never waits for ever. For contents each behavior changes what one part says:
numbers of frames (one and two, `DrawnCounts`: their commands are executed in
order, and a third frame has regions and layers as apart from the others as the
second), lights, textures, objects, sizes, effects, characters.  Two versions of
anything tell new from old; lamps are one with and two without shadows, of which
two are on at most; sizes differ in both directions, one of them odd.

**scene.** Two entities and room for two renderers have the one removed and the
one moved; sprites and voxels are of two arrays.  Tracks have frames without
duration, one and two steps long, for steps of one and two.  Two operations in
a frame are a change and another that could hide it.

**socket.** Two processes, two places, and two connections at a time, which
are closed and made again without end; each has up to two scripts of two parts
that are not executed, as often as its client likes, and the buffer has room
for three parts.  `SocketInv`:
connections and places match.  `Reachable`: the process that listens has the
name.  `Recovers`: after a crash another can start.  `Executed`: what is
executed is what was sent, in order, and whole unless the connection was cut.
`Served`: what was written is read, and a connection that its client ended is
closed, unless the process ends or those in front of it are read again and again
for ever (`Starved`) because other clients never stop writing, or ending and
connecting again (`Insistent`).  That exception is needed: without it TLC shows
a client in the second place that is never heard while the first one writes in
each frame.  What the property excludes is that a client that says nothing, is
done, or has gone keeps others from being heard: with the end of a connection
not noticed it is violated.
*Bounds*: what one client suffers depends on those in front of it, for which
one is enough; two scripts fill the buffer while a part is left.

**compute.** Three objects, two buffers and one program and kernel with handles,
four events; one command in the queue when a script adds to it, and then as many
as one call adds.  `Inv` has the ownership of objects (`Owned`) and of events
(`EventsOwned`), and `MemoryValid`: the memory of the caller is not used after
its call.  `InOrder`, `Returns`: as they say.

**game.** Three players, two events in a frame, two maps, two loads.  The users:
one who walks, runs, changes, adds and removes players (three of them), one who
pauses, one who uses the menu, one who changes maps, one of which replaces a
key.  `Owned`: what is attached to players that left is gone.  `CurrentOnly`: only
the current player is controlled and followed.  `Steered`: once all events are
handled the current player moves as the keys held say, and others stand.
`MapKept`: entities and heartbeats are those of the current map.

**lua.** One table besides the globals, with two keys; three objects and four
slots; three blocks.  `BindingInv`: objects have their slots, copies are alive
if they can be reached, counters are exact.  `Visited`: a loop that ends by
itself has visited every field once, and an array up to its end.

`CHECK_DEADLOCK FALSE` is set for `world`, where the loop ends, and for `lua`,
where the function does.  The other specifications have an explicit action for
the end, or there is always a call that can be made.

## 4. Fairness

- `Schedule`: weak fairness of `Advance`, the steps of the loop, of which the
  return of the body of a task is one.  The loop is an endless `while` in one
  thread, and a task that does not return stops the program itself.  Nothing is
  assumed of requests, and the end of the program by choice is not in it.
- `Collisions`: weak fairness of `Device`, some command that can be executed is
  executed, which is what a queue with work that is flushed promises; and of
  `read_collision_buffer`, a blocking call returns once what it waits for has
  completed.  Nothing is assumed about which command comes first.
- `Compute`: the same two, `proceed` and `device`.
- `FramesInFlight`: weak fairness of each step of the host, and of the device
  and the display, which complete what was submitted.  Nothing is assumed of
  changes of the number of frames or of windows.
- `Scene`: weak fairness of `frame`, the loop.
- `Socket`: weak fairness of `process` in each process, and of the removal of
  the name once a process is ending.  Nothing is assumed of clients or crashes:
  where clients that never stop keep another from being heard, `Served` names
  it as an alternative, and does not exclude it by fairness.

The other specifications have no liveness property and no fairness.

## 5. Findings

In this the code does something other than what a comment of the repository
says, and a run shows it:

- **A task that may fail stops the program** (`schedule_tolerance`).  `exec()`
  reads the flags of an entry after its body returned
  (`src/timing/schedule.cpp:26`).  If the task cancelled itself, they were
  reset, and its failure ends the main loop in spite of `IGNORE_FAILURES`,
  which says it "can be tolerated" (`src/timing/schedule.h:31`).  If it
  scheduled another and the vector had to grow, the entry is in memory that
  was freed.

### Known gaps

These were found with the models and have no run of their own: a constant of
the model (a *gate*, given in brackets) leaves them out of the runs so that the
rest can be checked.  With the other value TLC shows the way to each.  Where no
gate is named, the text says whether the model has them.

*Scheduler*: when a destructor fails, `cancel()` returns false and leaves the
slot active (`schedule.cpp:70`), so that the task is executed with data whose
destructor has run, and is destroyed again by `update()` or `exit()`.  This is in
the model without a gate (`CancelFails`, `refused`), and `NeverCalledDead` says
that it is the only way; the one destructor of the repository, `entry_destroy` of
`lua_schedule.cpp`, never fails.

*Entities*: an entity keeps the pointer to its removed renderer if the array of
the new type is full (`src/lua/lib/entity.lua:41`), and the next removal reaches
`assert(!"invalid renderer")` (`src/render/render.cpp:706`) [capacities of types
that change]; a component given to a child is placed without its parent, which
`tests/entity_test.cpp:91` expects otherwise (`src/entity.cpp:82`)
[`LateComponents`]; a new capacity with elements in use forgets the free list
(`static_vector.h:107`) [`ReserveInUse`].

*Textures*: `reload_all()` skips slots without references
(`src/graphics/texture.cpp:228`), whose names are still found by `load()`
(handled by `ImagesRight` as lost images).

*Collisions*: results of `aabb_sphere_collision` are read after the kernel of
another pair of types (`src/collision/compute.cpp:292`) [a scene with `"aabb"`
and `"sphere"`]; the reset of the counters is waited for by nothing in a frame
without kernels (`:256`) [a scene without colliders].

*Frames in flight*: `set_n_frames` to fewer frames reads out of range
(`vulkan.cpp:1936`), and a swap chain with more images than before indexes past
its fences (`swapchain.cpp:181`); neither is in the model.  With more frames than
images, as the code has them by default (four frames, `vulkan.cpp:1219`, up to 16
in `configure.lua:179`, and one image more than the minimum), the image is what
keeps the slot of a submission from being used again.  `acquire_img` waits for it
only after `vkAcquireNextImageKHR` was given the semaphore of the slot
(`swapchain.cpp:284`), which the oldest submission may then still have to wait
for if all images are being rendered to; `NotInUse` excludes that case by name,
and without `Len(pending) < NImages` TLC shows it with three frames and two
images.

*Contents, Vulkan*: sizes of shadow maps changed after initialization leave
descriptor sets to destroyed views, and resizing textures, fonts or buffers
destroys what is recorded or in flight [`Replaced`]; a glyph split over two
blocks of staging memory is copied from the wrong place (`vulkan.cpp:2175`)
[`SplitGlyphs`]; a font's levels above 0 are never written; effects do nothing.

*Contents, OpenGL*: the second pass of overlays uses the camera of the screen
(`opengl.cpp:928`) [`Overlays`]; `set_shadow_map_size` leaves its unit active,
so that the next load of a texture takes the place of the shadow map
[`MapsMove`]; effects enabled before the first resize draw black [`Early`].

*Contents, terminal*: prefix and suffix are written once, and a resize loses
them in color [`Resets`]; only the last buffer of each stage is drawn, text of
the first frame is divided by zero, and a change of size is one frame late.

*Scene*: selections do not follow the renderer they point to when a removal
moves it [`SelectionsMove`], and neither does the pointer to the light of the
sun [`SunMoves`]; a title that changes when its text does not is not drawn
[`TitlesAlone`], nor is what `set_cur()` at the end of a text changes
[`CursorsEnd`]; `lua_light.cpp:134` binds `set_shadow_map_far` to another function.

*Socket*: in each frame only the first place that can be read is
(`socket.cpp:167`), so that a client that goes on writing, or several that
always come back, starve those in later places; this is in the model without a
gate (`Starved`), and `Served` says that it is the only way not to be heard.
More clients than places lose connections [`Crowded`]; scripts in
pieces are executed in pieces [`InPieces`]; the lock is released before its file
is removed (`socket.cpp:53`), so that two processes may both listen
[`Impatient`].

*Compute*: a failure after arguments were put in the queue leaves memory of the
caller in use [`FailLate`]; a program that fails to build is never released
[`FailBuild`]; scripts are given events that were never made [`NullEvents`].

*Game*: fires and menus of a player that is removed stay [`RemovesAll`], as does
the entity of a load without a player [`LoadsNobody`]; a map with a camera of
its own [`HasCamera`] and a scene that starts while the user has paused
[`Hasty`] leave the wrong one controlled; a map whose `init` fails leaves the
table of the old one [`InitFails`].  `player.next(-1)` goes forward, and the test
of it (`tests/lua/player.lua:85`) is never called.

*Lua*: a reference to a field that is missing leaves a value nobody owns
[`Missing`]; a task that fails leaves its message handler on the stack
[`TasksFail`], and callbacks of collisions their results [`Results`].

## 6. Proofs

The proofs are for all values of the constants that satisfy the assumptions
named in the modules (`ScheduleAssumption` etc.), which TLC evaluates in every
run: for any number of tasks, entities, textures, frames, players, processes
and connections, and any sequence of operations.  A theorem with another
hypothesis says so here: it is one of the gates of 5.

Each proof has an inductive invariant, lemmas about the operators of the module,
one lemma per action or group of actions, and theorems that combine them.

**`ScheduleProofs`** (`Invariance`, `TypeCorrect`, `HandlesAreStable`,
`OneShotsRunOnce`, `DeadAreNotCalled`, `IsSetOfTasks`).  `HandlesStable` is not
inductive: that an index leads to a task does not say that a slot which is in
use has one task only.  `IInv` adds the other direction (`SlotsKnown`: the task
of a slot has its index and was not destroyed, nor has its destructor failed
unless the loop is over), the same for exit tasks, that whatever was destroyed
or called, or whose destructor failed, was added (`HistoryKnown`), and where a
one-shot task that was called can be: due, in a slot that the pass under way has
visited, waiting to be destroyed (`CalledVisited`).  The last is what
`OneShotOnce` rests on, and where `gen` matters: a task that is added in a slot
already visited must not be taken for it.  `IsSetOfTasks` maps each step to one
of `TaskSet` or to none.  It needs in addition that no task is of a later update
and that the walk starts at a slot (`Timely`); the argument is that the entries
of distinct slots are distinct (`EntryOfOneSlot`), so that to lose slots is to
lose their tasks and no others (`LosesEntries`), and that the second pass of
`update()` finds due what the first has called (`SweptEntries`).

**`PopulationProofs`** has four parts.  *The container* (`NothingLost`, `IsPool`;
`~ReserveInUse`): types and `FreeListExact` are inductive together; the order of
the free list is an existential witness which each operation extends or shortens
(`Orders`, `Links`), and that a vector is full exactly if as many are in use as
it has room for follows from cardinalities.  `IsPool` maps every step to one of
`Pool`.

*The components* (`Matching`, `IsMap`; `RoomToChange`: capacities are arbitrary
here, and if types may change, each array of a type that something can change to
has room for all entities).  `IInv` has both `PointersMatch` and `OwnersMatch`,
neither of which is inductive alone: to redirect the owner of the moved component
one needs to know that it points there, and that no other does.  An array that
has no component of an entity has at most as many as there are other entities
(`RoomForAnother`), so that a component that changes its type fits.  `IsMap`
shows each call to be one of the map `Components`: what an entity is seen to have
(`Seen`) stays the same when its component is moved (`SameComponent`), and only
the entity of the call has another.

*The positions* (`ChildrenBehind`, `DrawnInPlace`; `~LateComponents`).  `Behind`
says in every phase which components may be out of place; the progress of
`update_children` is part of it.

*Together*: a behavior of `Population` is one of each (`Parts`), so that all of
this holds of it (`Together`), with the hypotheses of all three.

**`GraphicsProofs`**.  *Frames in flight* (`BlocksAreApart`, `NothingInUse`,
`UnusedAreRetired`, `UniformsAreCurrent`), for any numbers of frames and of
images: three invariants.  `FlightInv`: submissions that are pending have the
slots that precede that of the next one, in order (`SlotInv`), the fence of each
frame is that of its last submission, and so is that of each image, of which no
two submissions have the same (`ImageInv`).  So there are at most as many
submissions as images, one fewer when another is recorded (`FewImages`), and as
there are as many slots as images, no two have the same slot (`SlotsApart`),
although slots and images come in different orders.  `StagingInv`: every block
is in one place, and the age of a free one bounds how long ago a submission that
reads it was made, so that the device is done with it when its age is the number
of frames; the order of the list matters because age depends on position. 
`UniformInv`: a region that is not that of now is flagged.

*What Vulkan draws* (`VulkanIsCurrent`; `~Replaced` and `~SplitGlyphs`, see
5): `Current` of `Graphics` when the back end is that of
Vulkan, for any numbers of frames, lights and versions.  `ContentsInv` describes
what the back end has between calls for what it was given: images have the
picture of now in all of their levels (`ImagesAre`), buffers the objects of now
for every frame (`ObjectsAre`), sets and framebuffers refer to the images and
regions that are theirs (`SetsAre`, `TexSetsAre`, `LayersAre`), and the regions
of a frame have the camera and the lights of now or the frame is to be updated,
unless the swap chain is, and with it all of them (`UpdatedAre`).  Regions of
two frames, or of two lights, never overlap (`RowsApart`), and each pass of a
light draws to a layer of its own, although the faces of cubes are swapped
(`FacesAre`, `PassesDraw`).  A frame is then followed command by command: what
is bound when a pipeline draws is what it has to be (`StageOf`), so that it adds
what is expected (`StageIsExpected`), and the depth has what may hide the next
(`Under`).  Loads are followed piece by piece and level by level in the same
way, so that no layout or row is missing (`AllLevels`, `CopyPieces`).  Lists of
commands, levels, pieces and lights of any length are by induction.

*Textures*, as they hold what those frames show (`Counted`,
`OwnImages`, `ShownIsKept`, without a hypothesis).  `TexturesInv` has exact
counts and unique names, and to be inductive that a slot that is held has a name
(`Named`) and that one that is found by its name without being held has its
image too (`ImagesKept`): `reload_all()` and `load()` meet there.

**`SocketProofs`** (`Implements`, `Listens`, `Succeeds`; `Connected`;
`ExecutedInOrder` if `~InPieces`).  `FilesInv` and `PathInv`: a process that
listens holds the lock of the file that has its name, and the socket's name
belongs to the last that bound it (`Listens` if `~Impatient`).  `Implements`: what
`Socket` does to files is what `SocketPath` allows.  `ConnInv` has places, queues
and the client being read (`PlaceFree`: one that is accepted has a place), and
that what was read, what is in the buffer and what is still in the stream are
the numbers written, in order, also where they start again (`NumberedAgain`).

**`GameProofs`** (`Types`, `SteeredByKeys`, `OthersAreLeft` without any
hypothesis; `OneIsControlled` if `HasCamera = {}` and `~Hasty`;
`NoneLeftBehind` if `~RemovesAll` and `~LoadsNobody`; `MapsLeaveNothing` if
`~InitFails`).  `Steered` speaks of states without events; what is inductive is
that if the current player does not move as the keys say, an event of a move
key is still queued (`SteerInv`), or a player is about to be put right.
`MarkInv` has as a witness whether TAB was down before each queued event, since
which function an event calls depends on those before it.  `SceneInv`: the group
of bindings is that of the scene or of the user, and no pause is queued while a
scene plays.

**`SceneProofs`** (`SceneIsDrawn` if `~TitlesAlone`, `~CursorsEnd` and `~SunMoves`;
`FollowedAlways` if `~SelectionsMove`).  `Drawn` speaks of one phase; what is
inductive is, for each part, that what was written is what there is or that a
flag says it is not, in every phase, with the phase by which the flag must have
been found.  `RenderersInv` says it of each array (`BuffersFollow`,
`DebugFollows`).  `TextInv`: the layout is for the text and the window unless text
is still to appear or the window changed, which the camera passes on.  `LightInv`
keeps apart what is computed (`LightingFollows`) from what is sent
(`SendingFollows`), as a new back end needs the latter alone, and says where the
light of the sun is (`LightsAre`): `remove_light` moves others.  Only the flags of
`CameraInv` are used by other parts.

`FollowedAlways` needs less of renderers and more of animations.  `Selected`: a
selection is a pointer to the renderer of an entity that was chosen, and no two
renderers have one entity.  `AnimsInv`: an animation has a sprite, which shows
its frame unless it was changed since it was last updated, and is `Timed`: what
is left of the time is shorter than the frame, and with the durations of the
frames before it makes the time since the track was set, so that the frame is
the one that is due (`Reached`).  The loop of `update()` is where this could go
wrong.  It passes frames of the track that is repeated as often as time can
last (`Turns`), and the sums of those are turns of the track and a rest
(`PassedSums`), which is the time in the last turn (`PassedIs`).  Sums are a
recursive function (`Ends`), which by `SetInduction` exists, has natural values
and grows (`EndsAre`, `PrefixGrows`), frames without a duration included.
`SceneAssumption` says that there is something to choose from and that textures
of frames are among the looks.

**`ComputeProofs`** (`ComputeTypes`, `CommandsInOrder` without any hypothesis;
`ObjectsAreOwned` if `~FailBuild`; `EventsAreOwned` if `~FailLate` and
`~NullEvents`; `MemoryIsKept` if `~FailLate`; `ComputeSafe` if all three).  What
holds whatever fails is `Sound`: the queue (`QueueInv`), in which what a caller
asked for is waited for by its command or by a barrier that the command waits for,
that a call has the objects and events left that it needs (`RoomLeft`), that the
barrier of a call is in the queue as long as an event it stands for is
(`Stopped`), and that scripts do not know the events of a call before it ends
(`EventsApart`).  Only then, each on top of it: `ObjectInv`; `Outcome`, that a
call which failed has put nothing in the queue; and `MemoryInv`: whoever copies
memory is of the call in progress, which blocks, and the last command it put in
the queue waits for the others, so that one wait is enough.

Collision detection is in the same module (`CollisionsSafe`: `BetweenCalls`;
`ReportsAll`: `Reported`), as it runs on that queue.  The hypothesis of both,
`Waited`, is about the compute back end only: in each of its scenes some
kernel is launched, and there are not both boxes and spheres, which are the two
gates of *Collisions* in 5.  `Outstanding` speaks of the queue between calls; what
is inductive says what the queue holds at any time.  `FrameEnqueued`: all but uploads
are of the frame.  `EnqueuedOnce`: none of its commands is there twice.  `Ordered`:
as long as the fill, or an upload that a kernel reads, has not completed, the
barrier of the kernel has not, nor, while that is there, the kernel; and an
upload that is not in the queue has been executed.  `Counted`: a kernel that has
yet to be read has a counter of zero before it is executed, and after it the
number of pairs it found, which are in its buffer as far as there is room, each
once.  `Told`: of the kernels read so far, all that was found is reported, once,
or there is no room.
A read of kernel *k* waits for *k*, whose barrier is behind all that *k* reads
and which leaves with no barrier behind it (`MayRead`); after the last, nothing is
left but uploads that no kernel reads.  Most of the length is about sequences
built from others: `Among`, which keeps those of a set in order, is a recursive
function, for which facts are proved by induction from the fact that < is well
founded on the naturals (`SetInduction`, `KeepsExists`), and removing one from
the queue keeps the order of the others (`RemoveAtMoves`).

**`LuaProofs`** (`BindingIsExact`: `BindingInv`; `LoopsAreComplete`: `Visited`;
both if `~Missing`, `~TasksFail` and `Results = 0`, the gates of *Lua* in 5). 
Tables, keys, user data, objects and blocks are as many as one likes, paths as
long, and the stack and the scope as deep.  `LuaIInv` has five parts. 
`StackOK`: each object in scope has its slots above those of the ones before it
(`Placed`, over the sums `Tops` of what they need), and the table a loop goes
through is below the loop. `HeapOK`: fields have values and the meta table is
always found by its name.  `LoopsOK`: what a loop has seen is in order and is
all the fields up to the last key (`Passed`); `Iterated` is what keeps it so. 
`DataOK`: user data that is not free has an object that exists, and a copy is of
one user data, from which follows that it is destroyed once.  `ReachOK`: user
data that can be reached is not free.

What an operation leaves is computed first, for any stack, by lemmas about the
operators: `FetchAt` and `StoredAt` say that getting and setting a field leaves
the stack as it was but for the value, `WalkThrough` and `PathPushes` that a path
of any length does, by induction, `UserIs` that meta tables come and go.  Objects
are added and removed at the end (`PlacedMore`, `PlacedLess`).  An advance of an
iterator leaves a pair or nothing in the place of the one before (`AdvancedTo`,
`IterAdvances`, `SeqAdvances`), and in the latter case nothing is left of the table
(`Through`).  What can be reached is the fixed point of as many steps as there
are tables (`ReachedClosed`, as each step but the last finds a table more, and
`ReachedLeast`), so that to show that something cannot be reached is to give a
set that has the roots and is closed.

For the memory `MemoryIInv` has in addition that the header is what `set` gives
for the type and the size (`Headed`): what is counted when a block is freed is
computed from the header alone, and is the same because its quotient and
remainder are (`HeaderIs`).  `Bytes` is a sum over addresses (`BytesAdded`,
`BytesOrdered`), and with `Fits` no counter wraps (`Counts`, `Discounts`).

**Only model-checked**:

- *liveness* (`DueRuns`, `CheckReturns`, `FramesGoOn`, `TextFinishes`, `Served`,
  `Returns`), which the prover does not support under fairness;
- `Current` of `Graphics` for the back ends of OpenGL and for terminals, whose
  long lists of commands for an external context, or characters, hardly depend
  on constants.

## 7. Plan

The order was that of how much depends on a component and of how much could go
wrong in it.  Left to do:

1. models: audio sources and their buffers (`openal.cpp`), which have indices
   that move; devices and formats (`device.cpp`, `instance.cpp`); input from a
   terminal; overrides of keys;
2. operators: sizes of work groups (`work_size_for_n`), frame limiter and
   averages, with reference definitions.

*Not planned*, being arithmetic, calls of libraries, or without state: fonts,
mathematics, platform, the conversions of the Lua binding, the tools.

## 8. How to run

In this directory:

```
tlc -workers 2 -config MCSchedule_update.cfg MCSchedule.tla
tlapm ScheduleProofs.tla
```

The configurations of a module `M` are `M.cfg` or `M_*.cfg`.
