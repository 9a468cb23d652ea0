# Verification of yf

This directory holds a TLA+ model of yf, a 3D graphics library in C++ with three
parts: **cg** (a graphics interface over Vulkan), **sg** (a scene graph with a
renderer, physics bodies and file loaders) and **ws** (windows and events). The
modules are model-checked with TLC; the theorems are proved with TLAPS.

The library runs in one thread. What makes it hard is not parallelism on the
host but *order*: the client's calls come in any order, the effects of many are
deferred (to a submission, to an evaluation of the physics world), the device
executes later than the host records, and any driver call may fail in between,
with an exception that leaves part of the work done.

## The system

| part | state it keeps | operations | talks to |
|---|---|---|---|
| command queue (`QueueVK`, `CmdBufferVK`) | live and pending command buffers, the priority buffer and its completion handlers, semaphores to wait for | create, encode, reset, enqueue, submit, getPriority, waitFor, destroy | images (calls their handlers), the driver |
| image (`ImageVK`) | current and next layout | changeLayout, write, views | the queue (priority buffer, submit) |
| swapchain (`WsiVK`) | images, acquisitions, one semaphore per image, acquisition limit | nextImage, present | queue (waitFor, submit), images |
| passes and targets (`PassVK`) | up to four cached render passes | renderPass, target | command buffers |
| descriptor tables (`DcTableVK`) | pool, sets, image references | allocate, write | command buffers, renderer |
| device, memory, buffers, states, samplers, shaders | driver objects | creation | everything in cg |
| node graph (`Node`) | parent, child and sibling links, subtree counts | insert, drop, prune, destroy, assign | scenes (willInsert, willDrop, willPrune, willSetBody) |
| scene and physics world | bodies, groups by category, pending changes and updates | the notifications, evaluate, clear | bodies, nodes |
| body | its node, its world, its masks | setCategoryMask, setNode | physics world |
| mesh, primitive | segments of a buffer, entries | setData, resize | cg buffers |
| texture | shared images, reference counts of layers | create, copy, assign, destroy | cg images, queue |
| renderer, view | drawables, tables, uniform buffer | render, loop | all of the above |
| animation | timelines and outputs, elapsed time | play, stop | nodes |
| camera, materials, skins, models | values | | nodes |
| glTF loader, collection | symbols of the file, calls of the parser, objects created, streams of buffers | parse, load | meshes, textures, nodes, skins, animations |
| PNG loader | chunks, code trees, lines of the image | load | textures |
| windows, events, platform (ws) | windows by id, delegate, keys held down | create, destroy, open, close, resize, dispatch, on... | the X server, the client's handlers |

`PROJECT.json` lists each part with its files, and each hazard with its line.

## Modules

| module | models | kind |
|---|---|---|
| `CmdQueue` | the state and operations of `QueueVK` and `CmdBufferVK` | operations, used by the next |
| `ImageLayout` | `ImageVK`'s layouts over `CmdQueue`, and what the device does | specification |
| `LayoutPromise` | what transitions promise: all on their way are committed or dropped together | abstract specification |
| `Swapchain` | `WsiVK` composed with `ImageLayout`, whose steps its own are made of | specification |
| `NodeForest` | every node has a sequence of children; the nodes are a forest | abstract specification |
| `NodeTree` | the links and counts of `Node::Impl`; implements `NodeForest` | specification |
| `ScenePhysics` | scenes, physics worlds and bodies over `NodeTree` | specification |
| `RenderPromise` | each render submits every drawable once, opaque ones first, or throws | abstract specification |
| `Renderer` | `NewRenderer::render()`: the graph, the caches, tables, buffer and passes; implements `RenderPromise` | specification |
| `Renderer_proofs` | theorems about `Renderer` | proofs |
| `TexturePromise` | textures own or share what they show | abstract specification |
| `TextureLayers` | `Texture::Impl`: layers, reference counts, growth; implements `TexturePromise` | operations, used by the next |
| `TextureTable` | a descriptor table to which those textures are copied | specification |
| `TextureTable_proofs` | theorems about `TextureLayers` and `TextureTable` | proofs |
| `Segments` | the free list of the buffer that all primitives share | specification |
| `SceneGraph_proofs` | theorems about `NodeTree`, `ScenePhysics` and `Segments` | proofs |
| `RenderPasses` | the render passes that a `PassVK` keeps for the operations of its targets | operations, used by the next |
| `Recording` | what `CmdBufferVK::encode` records for graphics, compute and transfer encoders | specification |
| `Recording_proofs` | theorems about `RenderPasses` and `Recording` | proofs |
| `GltfSchema` | the objects of a glTF file and their properties, as the parser's tables | operators |
| `GltfParser` | the parse functions of `GLTF`, one symbol at a time | specification, used by the next |
| `GltfLoader` | `DataLoad`: the objects that are made of a file, and which files are valid | specification, used by the next two |
| `GltfDocument` | JSON and its symbols, as the format defines them, and what the parser reads of them | reference definition, properties |
| `Playback` | `Animation::Impl` over the animations that were loaded | specification |
| `GltfTypes_proofs` | the types of what `GltfParser` stores and `GltfLoader` makes, as a theorem | proofs |
| `Loaders_proofs` | theorems about `GltfLoader` and `Playback` | proofs |
| `Inflate` | code trees and blocks of compressed data | operations, used by the next |
| `PngFormat` | how images are filtered and compressed, as the formats define it | reference definition |
| `Png` | `loadPNG`: chunks, decompression, filters, samples | specification |
| `Windows` | windows, delegate and `dispatch()` over an X server | specification |
| `Presentation_proofs` | theorems about `ImageLayout`, `Swapchain` and `Windows` | proofs |
| `Numbers_proofs` | induction over numbers, which the other proofs need | proofs |
| `MC...` | files, symmetry and bounds for TLC | model values |

Operators whose comment begins with "Mutant of" are the same operation with a
plausible mistake. No specification uses them; they document, for each property,
a bug that would violate it.

### Queue and images

`Encode`, `Enqueue`, `Reset`, `Unmake` and `CreateCmdBuffer` are the methods of
`CmdBufferVK` and `QueueVK`. A Vulkan command buffer is reduced to the images that
it expects in the general layout (`needs`) and those that it leaves there
(`touches`); `handle` is the life cycle that Vulkan gives it. `EncodeCopy` is a
`TfEncoder` with a copy between two images, which asks both into the general
layout with deferred transitions; `EncodeCopyThenThrow` has a second command that
is rejected, `EncodeCopyNoPriority` cannot get the priority buffer. `EncodeDraw`
is a `GrEncoder` with a render pass, which ends in the general layout without
telling the image. A step of `SubmitBatch` is the whole of `QueueVK::submit` with
one of its outcomes: each driver call that can fail is one, and each ends in
`notifyAndClear`. When only `vkQueueWaitIdle` fails, the device may or may not have
executed the batch, and the model allows both. `ChangeNow` is `changeLayout(l,
false)`, which submits as part of the same call.

`failed` and `wrong` are history: images whose transition was reported to have
failed, images that the device accessed in a wrong layout.

Recording into a `VkCommandBuffer` that was reset but not begun again is undefined
in Vulkan; `Encode` then records the commands or loses them.

A call whose guard is an exception that changes nothing is left out: it is a
stuttering step. Destroying a pending command buffer aborts the process and has
no successor.

### Swapchain

`NextImage` and the `Present...` actions are the two methods of `WsiVK`. The engine
is `held`, the images it gave away and did not get back; the driver's answers
`VK_SUBOPTIMAL_KHR` and `VK_ERROR_OUT_OF_DATE_KHR` set `broken`, after which the
client is told and stops using the swapchain (the code has no recreation). Semaphores are
numbered by the slot that they start in; `signaled` holds those an acquisition
signals and no submission waited for.

`DrawsAwaitImages` relates the two: a draw to an image that was acquired (`touches`) may leave the
queue only when the signal of the image's acquisition was waited for, in that submission or in one
before. `swap` in `nextImage` and `waitFor` have to agree on the semaphore for that.

The client submits its work before it presents, as `View::render` does and
as a comment in `WsiVK::present` assumes, and may go on after any other exception.

### Node graph and physics

The links of `Node::Impl` are one record of functions, so that each operation is a
function from links to links (`Dropped`, `Linked`, `Pruned`) and `Insert`, `Assign`
and `~Impl` compose them the way the code does. `Assign` stands for the
assignment operator, and, when the assigned node is alone, for the copy constructor. A walk over
`parent_` or `nextSib_` is `Along`, which takes as many steps as there are nodes at most: that no walk
is cut short by that is part of `TreeRight`. `CountBelow` adds the counts of the children that `prune`
goes through.

In `ScenePhysics` each call that changes the graph also carries out the
notifications that it sends to the scenes above, computed from the links before the
call: `InsertNode`, `DropNode`, `PruneNode`, `PruneScene`, `DestroyNode`,
`AssignNode`, `SetBody`. `Change` is `PhysicsWorld::Impl::add` and `remove` for all
the bodies concerned; `Evaluate` is `applyChanges` followed by `applyUpdates`. The
lists of a world are sets: they are kept sorted and are merged with sorted changes.

The constant `Client` names calls that break the physics world. With `Client = {}` the
client avoids them, and everything else is free; `{"ascend"}` shows what moving a node up
into its own scene breaks. `"discard"` lets a node be destroyed, or assigned to, while
its body is in a world, which then has a body that is gone (`BodiesOwned` fails). `"rootBody"` lets a scene have a body
of its own, which pruning the scene then loses from its world. `"share"` lets a scene be
evaluated that a body moved to while the world of the scene that it comes from still has it: that
world sets the body's world to null when it is evaluated in its turn, changes of the mask are no
longer passed on, and `BodiesOwned` and `GroupsMatch` fail.

### Renderer

`render()` is a program of its own, with `pc` for the place that it has reached; each
driver call that may fail is a choice. `Render` and `PushDrawable` are `processGraph` and
`pushDrawables`; `AllocateTables` and `AllocateFewer` are the two ways of allocating
descriptor tables and the uniform buffer, `RenderOpaque` and `RenderBlend` the two loops
over drawables, `Submit` the end of a pass and `WillRenderAgain` the start of the next. A
scene is a sequence of material masks, from which shader, table and size of a drawable
follow. `Throw` ends the call with an exception; whatever it left behind is what the next
call starts with.

A buffer that was released and not replaced has size 0; the code uses it through a null
pointer, after which (`NullBuffer`) nothing is defined and the model stops. `UniformsFit`
speaks of unskinned drawables and of the accounting: the size of a skinned instance is
written but never counted, since `RSkin0` is not among the bits of `RTableMask`
(`NewRenderer.cxx:345`). sg is written against a version of the cg interface older than
the one in this tree (arguments in other orders); calls are modelled by what they are
for.

### Textures and descriptor tables

`Create` is the constructor from data, with `Prepared` for the resource that it looks for
a layer in: a new one, one that `setLayerCount` has grown (`Grown`), or as it is. `Copy`,
`Assign`, `Destroy` and `Update` are the other operations. `stray` and `unyielded` are
history: a layer taken by a constructor that threw afterwards has a reference and no
texture, and a layer freed by an assignment is not counted as unused (the destructor
counts it). The properties except exactly those.

An image is an address, which `DcTableVK::write` compares, and a serial number, which it
has no means to compare. In `TextureTable` each set has the view it is bound to (`views`)
and, as history, what was last written to it (`written`).

### Meshes

`SetData` gives up the old memory of an attribute, then either takes the first segment
that is large enough (`SetDataFits`) or fails (`SetDataGrows`), for no call that needs a
larger buffer succeeds: the driver refuses, or `resizeBuffer` uses a buffer that does not
exist. `DestroyPrimitive` gives back all entries. The units of `Sizes` and `BufferSize` are
arbitrary. Data without elements is left out: its entry comes back as an empty segment
inside another one.

### Recording

`Begin` to `EndEncoding` is one call of `CmdBufferVK::encode`, whose loop over the commands
of the encoder is `Command`: the model chooses each command when the loop comes to it, which
is any encoder. `enc` are the local variables of the call (`status` has the bits of `SDraw`
and `SDrawi`, `tables` is `dtbs`); `gpu` is what Vulkan makes of the commands recorded so far:
the pass that is begun, the pipeline, and the sets, which a set bound under another layout
disturbs. `asked` is history, what the client set in this encoding. `RenderPass` is
`PassVK::renderPass`: the slot it takes (`SlotFor`), the render pass it finds there or makes,
and the one that it destroys, which may be in use (`dangling`). `NewState` is the part of
`GrStateVK` and `CpStateVK` that creation can fail in, with the default render pass that it needs.

Copies are ranges on one axis; sums are taken modulo `2 * Half` as the code's 64-bit ones.
`CopiesInRange` leaves out ends that do not fit, for those the code accepts.

### glTF files and animations

`GltfDocument` says what a file means; `GltfSchema` has, for each kind of object, the
properties that its parse function compares with and what it calls for each, and the initial
values of the structure. `GltfParser` has one frame on `stack` for each active function and
handles one symbol in a step, the error and the end of the file included. The file may end
anywhere. Between symbols `Symbol::next` returns `End`, and within a string `Err`; within a number
or a literal (`true`, `false`, `null`) its loop never ends, as `get(c)` leaves `c` what it was: the
load is `"endless"` then. That a
property is unknown, and is skipped by `consumeProperty`, is a frame as well: it counts the
brackets of its own kind only.

`GltfLoader` runs `loadContents`: `todo` has the calls to make, next one first, so that
objects are created in the code's order, from within one another. Data is what a stream
delivers: a buffer's stream has a position (`at`), which views set and reads move, and
bytes are their places. `meshData` and `animData` are the mesh and the animation that are under
construction.

`Playback` goes on with the animations of a file that was loaded. `Search` is the loop of
`getKeyframes`, with its indices from 1. A time is a number of a small unit; what a node is
set to is a pair of outputs and the fraction of the way between them (`Mix`), which stands for
`lerp` and `slerp`. At the time that is exactly the last of a timeline the code pairs it with
what is behind the timeline in memory: an action then may set anything (`Undefined`), and
`PlaysRight` leaves that time out.

### PNG files

`Png` takes the chunks one by one (`TakeIHDR` to `RefuseChunk`), then decompresses (`Inflate`,
one block header, code length or symbol in a step), reverses the filter of one line in each
step (`Unfilter`) and copies the samples. The assertions of `inflate` on what it writes and
copies are modelled (`Asserting`, with `room` for the size of the destination): where one fails the program stops,
with mode `"failed"`. Data that is shorter than its own header, or ends within a block, is left out. The code trees are modelled by the code words that
they lead to. `PngFormat` is independent of it: the encoders of the formats, as
`MCPng` uses them to write the files, and which headers are legal. `RefusesOnlyBadFiles` says both
that nothing damaged, corrupt or with a header that is not legal becomes an image, and that no
standard file is refused or fails an assertion. Between the two are files that break the format and
may be accepted: chunks in an illegal order, and data that is too short, whose rest stays zero.

### Windows and events

The X server is a queue of events, what it knows of each window, and the requests that it
did not get yet (`doomed`): `~WindowXCB` does not flush, and every request that is waited for
takes along those before it (`Sync`). The client's code runs when nothing is being
dispatched or within a handler (`frames`), and there it may do anything: create, destroy,
open, close and resize windows, replace handlers, dispatch again, throw. `CallHandler` is one
round of the loop in `dispatchXCB` up to the call; the window of the event is looked up then, by
id, in `winMap`. Objects are addresses, so that a window may be where a destroyed one
was. `ModMask` has the two static variables that remember the last modifiers.

## Runs

| run | instance | states | shows |
|---|---|---|---|
| `image_layout` | 2 command buffers, 2 plain images, 1 presentable | 351,216 | `PendingAgree`, `TransitionTracked`, `LayoutTruth`, `NoWrongAccess`, `EnqueuedFrozen`, and `LayoutPromise` is implemented |
| `swapchain` | 3 images, minimum 2, 1 command buffer | 1,214,076 | `AcquisitionsHeld`, `SemaphoresSound`, `DrawsAwaitImages` |
| `recording` | 2 color attachments, 5 target operations, 5 states, 3 tables | 211,057 | `DrawsAsEncoded`, `PassesAlive`, `CopiesInRange` |
| `scene_physics` | 1 scene and 3 nodes, 2 scenes and 2 nodes; 2 bodies, 2 categories | 22,212 up to symmetry | `WorldsMatch`, `GroupsMatch`, `BodiesOwned`, `AssertionsHold`; of the links, `TreeRight`, and `NodeForest` is implemented |
| `renderer` | 5 scenes of up to 4 drawables, 4 masks, 2 tables, 2 passes, 2 renders | 47,723 | `AllocationsDistinct`, `CachesAgree`, `UniformsFit`, `RenderPromise` is implemented, and every render ends |
| `textures` | 3 textures, 2 keys, 3 images, 1 set | 33,143 up to symmetry | `LayersCounted`, `WritesCurrent`, and `TexturePromise` is implemented |
| `segments` | 3 primitives, 2 kinds of data of size 1 to 3, a buffer of 7 | 44,093 up to symmetry | `FreeListRight`, `MaskIsHeld` |
| `gltf` | 3,215 fragments (every kind of object, up to two properties each), 15 whole files | 185,235 | `ReadsWhatIsWritten`, `RefusesOnlyBadFiles`, `GraphLoaded`, `DataLoaded`, `ImagesShared`, `PlaysRight`, and `LoadEnds` |
| `png` | 2,388 files of four sorts | 39,814 | `Inflated`, `ImageRight`, `RefusesOnlyBadFiles` |
| `windows` | 2 addresses, 2 windows, 2 events waiting, 3 types of them, dispatch within dispatch | 1,266,292 up to symmetry | `WindowsOwned`, `CallsRight` |
| `presented_in_layout` | as `swapchain` | | the second presentation is in the wrong layout |
| `insert_above` | 1 scene, 2 nodes, 2 bodies | | moving a node up into its scene removes its bodies |

The runs that pass explore all states within their bounds. The last two state what a comment and an
assertion of the code say, and find a counterexample: `PROJECT.json` "findings" quotes the
lines.

**Disagreements without a run of their own.** The properties of the passing runs except
exactly these situations, by a history variable, a guard of the client or a clause of the
property, or the model ends where they leave nothing defined.

- A command buffer that was reset, or whose encoding threw, keeps `begun_` and can be
  enqueued without being recorded (`QueueVK.cxx:353`, `:331`).
- The semaphores of a submission that fails before the device waits for them stay signaled, and
  a later acquisition is given them (`QueueVK.cxx:94`).
- A fifth combination of operations of one pass evicts the render pass of the first, whatever
  refers to it (`PassVK.cxx:207`).
- An image whose transition could not get the priority buffer refuses every later one to
  another layout although none is in flight (`ImageVK.cxx:398`).
- When `present` fails the image is held but forgotten, and `nextImage` may block although
  it must not (`WsiVK.cxx:486`, `:327`).
- A copy whose range ends beyond 64 bits is accepted (`QueueVK.cxx:685`).
- A view is reused for an image that was created where a destroyed one was
  (`DcTableVK.cxx:229`).
- A node that is destroyed takes along a body that its world still refers to (`Node.cxx:31`).
- A body that moved to another scene loses its world if that scene is evaluated first
  (`Physics.cxx:196`).
- Contacts with a body that left the world are kept, and used (`Body.cxx:373`).
- A refused uniform buffer, and a buffer of meshes that grows, are used as null pointers
  (`NewRenderer.cxx:526`, `Mesh.cxx:239`).
- The parser loops for ever if the file ends within a number or a literal
  (`DataGLTF.cxx:109`, `:122`, `:137`, `:152`).
- Nodes that a skin creates and that are in no scene do not get their children, for
  `loadContents` goes through the nodes that do not exist yet (`DataGLTF.cxx:1910`). `Library` in `MCGltf` is
  such a file; as one of the `Documents` it violates `GraphLoaded`.
- Within an animation an accessor that serves two purposes, such as translations and scales, is looked up
  among the outputs of one path by its place among those of the other (`DataGLTF.cxx:2394`, `:2449`).
- Interleaved vertex data is sought relative to the last read by a distance from the first,
  and each element is read over the one before (`DataGLTF.cxx:2235`).
- A time that is exactly the last of a timeline reads what is behind it (`Animation.cxx:74`).
- Colours of a palette are looked up at a third of their place and samples of less than eight
  bits are read from the wrong end (`DataPNG.cxx:405`); code lengths that are repeated
  across the end of the first alphabet lose the rest; an IHDR chunk of more
  than 13 bytes is copied past its end (`DataPNG.cxx:593`); chunks in an illegal order are accepted; data
  that is too large is stopped by assertions alone (`DataPNG.cxx:176`, `:296`, `:341`).
- A constructor of a window that throws for the length of a title or for a flag leaves a window,
  never shown, on the server (`WindowXCB.cxx:94`, `:107`, `:112`).

**Why the bounds are enough.** Two command buffers give one that is pending
while the other is being recorded, the only interaction that command buffers have;
two plain images give copies whose transitions are at different stages; the
presentable image causes submissions that nobody else asked for. Images and buffers
do not interact otherwise, and the theorems below remove these bounds. Three
swapchain images of which two may be acquired are the least for which semaphores
change slots while another is in use. Three nodes below a scene give a first, a middle and a last
sibling, and a node with an ancestor between it and the scene to move to; with two scenes,
of which one or a node is not used (`Apart` in `MCScenePhysics`), bodies move from world to world. With
two bodies one moves with its subtree while another is replaced in a world that still has it;
the two categories are independent of each other.

Five operations of a target and the default one fill the four slots and evict. Two states that
share their first table, and one that does not, are the ways in which a change of state
disturbs sets; 3 bits make ranges wrap. `MCRecording` has a constraint, `Simple`, which keeps
apart what does not interact: draws with one target operation besides the default one, all target
operations with at most one state, copies one at a time; and it has the four kinds of dynamic state set in
one order. It excludes no command in any state of the ones it keeps.

Four drawables of one table halve to two and to one, so that a render takes up to four
passes; opaque and blended drawables share a table, and two render passes make the states
go stale. A second render starts from whatever an exception in the first left. Three textures of
two keys are shared, assigned within a resource and across, and make an image of one layer grow
twice; three images allow one to be where another was. Three primitives give an entry
that is freed between two free neighbours, between one and none, and data that does not
fit although enough is free in all.

The fragments of `gltf` have every property of every kind of object at every place where it
nests, after and before every other one and after and before unknown properties whose values have
every sort of nesting and known names; each may end after any symbol, or within one. The whole files have
what is shared, and what is created first from elsewhere: joints before and after their mesh, in one scene or two, images
embedded or not, accessors of one stream, channels of one target. Steps of 1 and 4 up to a time of 13
(`MaxTime`) come before, onto, between, nearer to either side of, and past five keyframes, and past several at once.

The files of `png` have every length of a copy next to a change of its code, the distances next to every
such change that is reached, words of 1 to 15 bits, blocks of every kind one after another, every
choice of filters for three lines of four sorts of pixels, and chunks that are split at every byte, lost and damaged. Headers of all depths, types of colour and
methods come with data that fits exactly; data that is too large is so by one literal, by one byte of a copy, by many, and by
a stored block, and copies reach before the first byte and by one byte too far.

Two windows and two addresses let a window be created where another was while an event for the
other is waiting; two nested calls of `dispatch()` let a handler take the
event after the next from under the loop that called it. Two of the types of events give a window, one gives
modifiers, and a button held down makes two different states of the same modifiers.

`textures` has a state constraint as well: one constructor throws after it took a layer, and one
layer per resource is freed by an assignment. `swapchain` has one, `Bounded` in
`MCSwapchain`: one draw per command buffer, no enqueueing after a reset, and at most
one failure along a behaviour. `ImageLayout` itself is checked without it.

Symmetry is used over command buffers, plain images, scenes, the other nodes,
bodies and categories, textures, keys, contents, addresses and primitives: the modules
never compare them but for equality, and the properties of those runs are invariants and
step properties. The runs with a liveness property, `renderer` and `gltf`, use none.

**Fairness.** Two specifications state any. `Renderer` has weak fairness of `Step`, the steps of
`render()` once it was called, `Playback` of `LoaderStep`, those of `loadGLTF`. Both run in the
client's thread, without locks; a render waits for nobody but the device, which
finishes what was submitted, and a load for nothing but its file. That the client calls `render()`
at all is not assumed, nor that it plays an animation. `RenderEnds` says that every call returns or
throws: that the halving of allocations and the passes come to an end. `LoadEnds` says the same of
every file that does not end within a number or a literal. The other modules are driven by client calls that may stop at any time.

The deadlock check is off in `gltf` and `png`, where a file that was read is the end, and on in all other
runs.

## Theorems

Every theorem holds for all values of the constants that the named assumptions of the modules
allow: that sets of nodes, of material masks and of kinds of vertex data are finite; that null pointers are no objects; that
the sizes and limits are numbers of the ranges that the code has them in; that the images of a
swapchain are all that its `ImageLayout` speaks of. TLC evaluates each assumption in the runs.
Each proof has an inductive invariant, which TLC confirmed before it was proved. What it
adds to the properties says why they hold:

| module | theorems | invariant | what it adds |
|---|---|---|---|
| `Presentation_proofs` (queue and images) | `PendingAgrees`, `TransitionsTracked`, `LayoutIsTrue`, `AccessesAreRight`, `EnqueuedStaysFrozen`, `ImplementsPromise` | `IInv` | an image that reached the general layout never leaves it; what any command buffer expects in it is in it, on the way, or was reported to have failed |
| `Presentation_proofs` (swapchain) | `AcquisitionsAreHeld`, `SemaphoresAreSound`, `DrawsAreAwaited`, `SurfaceImagesSound` | `WsiInv` | each semaphore is in one slot; the images acquired are held and no more than the limit, so that a slot is left; a signal that nobody waited for is one that a submission will wait for |
| `TextureTable_proofs` | `LayersRight`, `TexturesKeepPromise`, `WritesStayCurrent` | `LayersInv`, `ViewsInv` | nothing is left of a resource that is gone, so that the next with its key starts anew; images at one address have different serial numbers, and a view is of the image that it was made for |
| `SceneGraph_proofs` (segments) | `SegmentsShareBuffer`, `MaskSaysHeld` | `SegmentsInv` | the free list is ordered with gaps, and its units and those of the entries share the buffer without overlap or loss |
| `Recording_proofs` | `PassesStayAlive`, `CopiesStayInRange`, `DrawsFollowEncodings` | `PassesInv`, `CopiesInv`, `EncodingInv` | slots fill from the first, each for different operations; what was set since the pass began is bound, or pending in the call's own tables |
| `Renderer_proofs` | `CachesStayRight`, `AllocationsStayDistinct`, `UniformsHaveRoom`, `RenderPromiseKept` | `CachesInv`, `AllocationsInv`, `BufferInv`, `ListsInv`, `ProgressInv` | every count covers the drawables that wait for what it counts, exactly so unless something threw; the buffer has room for what the tables have yet to give, in this pass and in the next; a drawable is waiting, recorded or submitted, and the lists are ordered; a pass that is being recorded has drawn something, or something is allocated for it to draw |
| `Presentation_proofs` (windows) | `WindowsHaveOwners`, `CallsAsGiven` | `WindowsInv` | objects and ids are inverse to each other; the server, once it did what it was asked for, agrees; the flags of the delegate are those of the handlers |
| `SceneGraph_proofs` (graph) | `TreesStayRight`, `ScenesStayRight`, `ForestKept`, `ScenesKeepForest` | `TreeInv` | no walk along siblings or parents comes back, and a first child has no one before it |
| `GltfTypes_proofs` | `LoaderIsTyped` | `LoaderInv` | each frame of the parser is called by the one below it; what is left to do refers to what the file has |
| `Loaders_proofs` (images) | `ImagesAreShared` | `LookInv` | images come before textures before materials before all else in what is left to do; an image that is not there yet is yet to be loaded, and was not decoded |
| `Loaders_proofs` (graph) | `GraphIsLoaded`, `SkinsAreLoaded` | `GraphInv` | the nodes that were visited: children of a visited one have it, or another ancestor, for parent; an object that is missing is yet to be made, and by the call that makes the right sort of it |
| `Loaders_proofs` (animations) | `AnimationsAreLoaded` | `ActionInv` | the calls for one animation follow each other in the order of its channels; what its map knows of an accessor is where its data is |
| `Loaders_proofs` (meshes) | `DataIsLoaded` | `MeshInv` | what a primitive needs is read, and its material is made and copied, before the next one is begun, and a mesh is complete before another one is; a material that is complete stays as it is; all primitives but the last one begun are complete, and what that one lacks is what is called next |
| `Loaders_proofs` (playback) | `AnimationsPlayRight` | `PlayInv` | an animation that was loaded stays as it is, and elapsed times are not negative |
| `SceneGraph_proofs` (physics) | `WorldsAlwaysMatch`, `GroupsAlwaysMatch`, `BodiesAlwaysOwned`, `AssertionsAlwaysHold` | `PhysInv` | a body and its node know each other; a body is in the world that it refers to, and in no other; one that no node has is in a world; updates are pending for bodies of the world alone |

**Images.** `LayoutTruth` says that the device agrees with the layout tracked; that a command
buffer, or a batch that failed, cannot make it false needs `GeneralIsFinal`. `NoWrongAccess` says
that batches access images in the right layout; what was recorded, perhaps long ago, needs
`NeedsGoGeneral`. `SubmitBatchInv` treats the outcomes of a submission once, for any set of
handlers and requested layouts, since `Submit` and `ChangeNow` are instances of it. The refinement
follows from `IInv`: an action maps to a `Request`, a `Commit`, a `Drop`, a `RequestAndCommit` or to a
stuttering step. Each step of the swapchain is a step of `ImageLayout` or leaves it alone (`SurfaceSteps`), since it is
composed of them: the theorems about images hold of it too (`SurfaceImagesSound`). `DrawsAreAwaited`
rests on `WsiInv`: a signal that is there is one that the queue is about to wait for, and a
submission that succeeds waits for all of those.

**Textures.** The proof takes the invariant apart by key (`LayersInvByKey`), since an operation
touches the resource of one key, or of two when a texture is assigned. `TexturesKeepPromise` maps every operation to
one of `TexturePromise`. `WritesStayCurrent` rests on `reused`, as the property does: once an image is
created where one had been, the table's comparison of addresses is wrong.

**Segments.** The properties count who covers each unit of the buffer. The proofs are about sets of
units: `Yielded` splices the list (`Spliced`), and the lemmas say what that does to order, gaps and
units. What the list gives up (`Passed`) is a function of the list, so that no induction is needed but for
giving back all entries of a primitive, one after the other.

**The renderer.** `RenderPromiseKept` maps the submission of a pass to a `Pass` of `RenderPromise`, the
start of a scene to its `Begin`, whatever throws to its `Fail`, and the rest to stuttering. What was recorded is cut
where the blended ones begin (`OpaqueFirst`): the two parts are what the pass submits, since an increasing
list is the only one of its elements (`IncreasingInOrder`, by counting how many are up to each). That
no pass is empty needs the counts of `CachesInv`: a list that is not empty has an
allocation waiting for its first drawable (`ProgressInv`), or `allocateTables` threw.

**The graph.** Walks are functions by recursion on the number of steps. `WalkSteps` turns one into a
function that is only known by its first value and its steps, which is all that the lemmas
`Along...` use; that a walk that does not come back ends within as many steps as there are
nodes (`AlongCloses`) is the pigeonhole argument. Dropping and inserting a node, and cutting
off a whole list of children, are then described once for any link function (`AlongCut`, `AlongJoined`,
`AlongSpliced`), for parents and siblings alike. `CountBelowRight` adds up the trees of the children.
`ScenesStayRight` follows from `TreesStayRight`: every call of a scene is a step of the graph, or leaves it alone. It
does not depend on `Client`. `ForestKept` says that the links implement `NodeForest`: the children of a node
are the only `Chain` of siblings from its first child, so it is enough to show for each operation
that what it makes of the sequences is a chain of the new links.

**Physics.** The four theorems are about a client that avoids all calls that `Client` names, as the
run is. `ChangeRight` is the heart: if a world is told to add what it will not have and to remove what it
will have, all its pending changes applied, then no assertion fails and the world is told what
is right. The rest says that each call does so, of the trees before and after it.

**The loaders.** The theorems hold of every file, in any order of its properties and wherever it ends;
`GltfTypes_proofs` follows the types of all that is read through the parser, so that the rest may rely on them.
`todo` is a stack of calls, and each proof says of one sort of object what is done, what is being done and
what is yet to be done. `GraphIsLoaded` needs that the file's nodes are a forest, which
glTF demands: a node that is never visited would have ancestors without end (`NoRing`).
Four theorems have hypotheses, each for something that the loader does not see to:

- `JointsRooted`: a joint that no scene and no node has is given no children. `loadSkin` creates the joint,
  and `loadContents` goes through the nodes that do not exist yet.
- `OneUse`: within one animation an accessor is used for times, or for the values of one path.
  `loadAnimation` has one map for all of its accessors.
- `Packed`: no buffer view that a mesh reads gives a stride. `getMeshData` misreads those that do.
  `DataIsLoaded` also needs `OneUse`, for the animations.
- `TimelinesRight`: times increase, as glTF demands, besides `OneUse`.

Every file of the `gltf` run satisfies them. `DataIsLoaded` has the hardest invariant of the loader's: a
mesh loads materials, with their textures and images, between two of its reads, into the same collection and from the
same streams. The order of what is left to do (`MeshesInTurn`) is what keeps
them apart: a material is only copied when nothing is left to set in it (`Settled`). `AnimationsPlayRight` rests on `KeyframesRight`: for a timeline of any
length the binary search ends at the keyframes on both sides of the time (`SearchRight`, by induction over the
distance of its indices).

Induction over numbers needs an operator as a parameter in the library's theorems. `LeastNumber`
states it of sets (a nonempty set of numbers has a least one), from the library's theorem that the
subsets of a finite set are well-founded, and `CountUp` follows; the proofs use these.

Model-checked only:

- liveness: `RenderEnds`, `LoadEnds`;
- `ReadsWhatIsWritten` and `RefusesOnlyBadFiles` of `gltf`: they compare the parser with a reader that
  is recursive in the values of the file, and what holds of every nested value takes induction over them;
- `Png`, which uses recursive operators for code trees and decompressed data: the proof system accepts
  none in a module with theorems, and its properties take induction over the file as well;
- the two runs that show a violation.

## Not modelled

- Validation of arguments, formats and limits, where it only throws; conversions of
  descriptions to Vulkan's structures; names, titles, sizes and positions.
- Devices, memory, buffers, shaders and samplers: created once, with no state of their own.
- Destructors of queues, devices and swapchains; an image or a buffer that is
  destroyed while a handler or a recorded command still refers to it (the code
  says "TODO: Notify").
- The physics simulation, contacts, the camera, matrices and quaternions: real arithmetic.
- Copies of scenes.
- What a growth of the buffer of meshes would leave, were it to succeed.
- Sparse and interleaved data of glTF files, which the loader ignores or misreads; the output of development builds.
- The race of two threads that load PNG files for the first time: the one that does not fill
  the table of checksums waits for a variable that is not atomic (`DataPNG.cxx:794`). Nothing in
  the library loads files in two threads.
- A handler of window events that replaces itself, and so destroys itself while it runs;
  `deinitXCB`, which nothing calls.

## Plan

1. Fewer hypotheses: which of the physics theorems hold with some of the calls that `Client` names.
