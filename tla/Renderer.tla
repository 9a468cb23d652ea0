------------------------------ MODULE Renderer ------------------------------
(***************************************************************************)
(* The renderer of sg (sg/src/NewRenderer.cxx).  Rendering a scene lists   *)
(* its drawables, creates the states, shaders and descriptor tables that   *)
(* they need, allocates as many table entries and as much uniform memory   *)
(* as the device grants, and draws: in one pass if everything fits, else   *)
(* in several that reuse the allocations.  Any call of the driver may      *)
(* fail; the renderer is shared by all views (View::Impl::renderer_) and   *)
(* goes on after an exception with what the failed call left behind.       *)
(*                                                                         *)
(* A drawable is its index in the scene, in the order of the traversal.    *)
(***************************************************************************)
EXTENDS Integers, Sequences, FiniteSets

CONSTANTS
  Masks,           \* requirement masks of drawables; a mask is a state's key
  Blended,         \* masks with RAlphaBlend
  Skinned,         \* masks with RSkin0
  ShaderOf,        \* mask & RShaderMask
  TableOf,         \* mask & RTableMask
  Passes,          \* render passes of the targets
  None,
  MainUnifSize,    \* NewRenderer::mainUnifSize()
  InstanceSize,    \* uniforms of a drawable without skin, material included
  SkinnedSize,     \* the same with skin
  UnifBufferSize,
  Scenes,          \* bound: the scenes rendered, as sequences of masks
  MaxRenders       \* bound: calls to render()

ASSUME RendererAssumption ==
  /\ IsFiniteSet(Masks)  \* of 32-bit numbers
  /\ Blended \subseteq Masks /\ Skinned \subseteq Masks
  /\ DOMAIN ShaderOf = Masks /\ DOMAIN TableOf = Masks
  /\ None \notin Passes
  /\ {MainUnifSize, InstanceSize, SkinnedSize, UnifBufferSize,
      MaxRenders} \subseteq Nat \ {0}
  /\ MainUnifSize <= UnifBufferSize
  /\ Scenes \subseteq Seq(Masks)

ShaderKeys == {ShaderOf[m] : m \in Masks}
TableKeys == {TableOf[m] : m \in Masks}

VARIABLES
  pc,           \* where render() is
  scene,        \* the masks of the scene's drawables
  pass,         \* NewRenderer::pass_
  pushed,       \* how many drawables pushDrawables() has seen
  opaque,       \* opaqueDrawables_
  blend,        \* blendDrawables_
  states,       \* for each mask, the pass that its state was created for
  stateCount,   \* State::count
  shaders,      \* the keys of vertShaders_ and of fragShaders_
  shaderCount,  \* Shader::count, the same for both stages
  tables,       \* tables_
  unifBuffer,   \* size of unifBuffer_; 0 when it is null
  offset,       \* where the next uniforms are written
  turns,        \* n of renderOpaqueDrawables()
  recorded,     \* the current encoder: drawables and their allocations
  drawn,        \* history: what this render() submitted
  renders,      \* history: calls to render()
  intact        \* history: no call to render() threw

graphVars == <<scene, pass, pushed>>
cacheVars == <<states, stateCount, shaders, shaderCount>>
passVars == <<offset, turns, recorded>>
historyVars == <<drawn, renders, intact>>
vars == <<pc, graphVars, opaque, blend, cacheVars, tables, unifBuffer,
          passVars, historyVars>>

Steps == {"idle", "graph", "allocate", "subset", "fewer", "opaque", "blend",
          "submit", "undefined"}

TypeOK ==
  /\ pc \in Steps
  /\ scene \in Seq(Masks)
  /\ pass \in Passes \cup {None}
  /\ pushed \in 0..Len(scene)
  /\ opaque \in Seq(Nat) /\ blend \in Seq(Nat)
  /\ states \in [Masks -> Passes \cup {None}]
  /\ stateCount \in [Masks -> Nat]
  /\ shaders \in [vert : SUBSET ShaderKeys, frag : SUBSET ShaderKeys]
  /\ shaderCount \in [ShaderKeys -> Nat]
  /\ tables \in [TableKeys -> [made : BOOLEAN, count : Nat, allocations : Nat,
                               remaining : Nat]]
  /\ unifBuffer \in Nat
  /\ offset \in Nat /\ turns \in Nat
  /\ recorded \in Seq([drawable : Nat, allocation : Nat])
  /\ drawn \in Seq(Nat)
  /\ renders \in 0..MaxRenders
  /\ intact \in BOOLEAN

(* NewRenderer::NewRenderer; mainTable_ never changes.                     *)
Init ==
  /\ pc = "idle"
  /\ scene = <<>> /\ pass = None /\ pushed = 0
  /\ opaque = <<>> /\ blend = <<>>
  /\ states = [m \in Masks |-> None]
  /\ stateCount = [m \in Masks |-> 0]
  /\ shaders = [vert |-> {}, frag |-> {}]
  /\ shaderCount = [k \in ShaderKeys |-> 0]
  /\ tables = [k \in TableKeys |-> [made |-> FALSE, count |-> 0,
                                    allocations |-> 0, remaining |-> 0]]
  /\ unifBuffer = UnifBufferSize
  /\ offset = 0 /\ turns = 0 /\ recorded = <<>>
  /\ drawn = <<>> /\ renders = 0 /\ intact = TRUE

(* An exception leaves render(); what was done so far stays.               *)
Throw ==
  /\ pc' = "idle"
  /\ intact' = FALSE
  /\ UNCHANGED <<drawn, renders>>

-----------------------------------------------------------------------------
(* render() and processGraph().                                            *)

(* The states that are valid for pass p: states_.clear() on a new pass.    *)
StatesFor(p) == IF p = pass THEN states ELSE [m \in Masks |-> None]

Render(s, p) ==
  /\ pc = "idle" /\ renders < MaxRenders
  /\ pc' = "graph"
  /\ scene' = s /\ pass' = p /\ pushed' = 0
  /\ opaque' = <<>> /\ blend' = <<>>
  /\ states' = StatesFor(p)
  /\ stateCount' = IF p = pass THEN stateCount ELSE [m \in Masks |-> 0]
  /\ drawn' = <<>> /\ renders' = renders + 1
  /\ UNCHANGED <<shaders, shaderCount, tables, unifBuffer, passVars, intact>>

(* A model without mesh, a primitive without material or with half of its  *)
(* skinning data: the exceptions of processGraph and pushDrawables.        *)
RejectPrimitive ==
  /\ pc = "graph" /\ pushed < Len(scene)
  /\ Throw
  /\ UNCHANGED <<graphVars, opaque, blend, cacheVars, tables, unifBuffer,
                 passVars>>

MaskOf(d) == scene[d]
IsBlended(d) == MaskOf(d) \in Blended
TableFor(d) == TableOf[MaskOf(d)]

(* The drawable goes to the end of its list.                               *)
Enlist(d) ==
  /\ pushed' = d
  /\ IF IsBlended(d)
       THEN blend' = Append(blend, d) /\ UNCHANGED opaque
       ELSE opaque' = Append(opaque, d) /\ UNCHANGED blend

(* Mutant of SetState: a new state's table is not counted.                 *)
SetStateUncounted(m) ==
  LET s == ShaderOf[m]  t == TableOf[m] IN
  /\ states' = [states EXCEPT ![m] = IF @ = None THEN pass ELSE @]
  /\ stateCount' = [stateCount EXCEPT ![m] = @ + 1]
  /\ shaders' = [vert |-> shaders.vert \cup {s}, frag |-> shaders.frag \cup {s}]
  /\ shaderCount' = [shaderCount EXCEPT ![s] = @ + 1]
  /\ tables' = [tables EXCEPT ![t].made = TRUE,
                              ![t].count = IF states[m] = None THEN @ ELSE @ + 1]

(* setState() when everything it needs exists or can be created.           *)
SetState(m) ==
  LET s == ShaderOf[m]  t == TableOf[m] IN
  /\ states' = [states EXCEPT ![m] = IF @ = None THEN pass ELSE @]
  /\ stateCount' = [stateCount EXCEPT ![m] = @ + 1]
  /\ shaders' = [vert |-> shaders.vert \cup {s}, frag |-> shaders.frag \cup {s}]
  /\ shaderCount' = [shaderCount EXCEPT ![s] = @ + 1]
  /\ tables' = [tables EXCEPT ![t].made = TRUE, ![t].count = @ + 1]

(* The creation of a shader, the table or the state failed, after those    *)
(* before it in the code succeeded; what was created is kept.              *)
SetStateFails(m) ==
  LET s == ShaderOf[m]  t == TableOf[m] IN
  /\ states[m] = None
  /\ \/ /\ s \notin shaders.vert
        /\ UNCHANGED <<shaders, tables>>
     \/ /\ s \notin shaders.frag
        /\ shaders' = [shaders EXCEPT !.vert = @ \cup {s}]
        /\ UNCHANGED tables
     \/ /\ shaders' = [vert |-> shaders.vert \cup {s},
                       frag |-> shaders.frag \cup {s}]
        /\ \/ ~tables[t].made /\ UNCHANGED tables
           \/ tables' = [tables EXCEPT ![t].made = TRUE]
  /\ UNCHANGED <<states, stateCount, shaderCount>>

PushDrawable ==
  /\ pc = "graph" /\ pushed < Len(scene)
  /\ Enlist(pushed + 1)
  /\ \/ SetState(scene[pushed + 1]) /\ UNCHANGED <<pc, historyVars>>
     \/ SetStateFails(scene[pushed + 1]) /\ Throw
  /\ UNCHANGED <<scene, pass, unifBuffer, passVars>>

GraphDone ==
  /\ pc = "graph" /\ pushed = Len(scene)
  /\ pc' = "allocate"
  /\ UNCHANGED <<graphVars, opaque, blend, cacheVars, tables, unifBuffer,
                 passVars, historyVars>>

-----------------------------------------------------------------------------
(* allocateTables() and allocateTablesSubset().                            *)

Made == {k \in TableKeys : tables[k].made}
Counted == {k \in Made : tables[k].count > 0}

(* The uniform memory for an allocation of each drawable in the tables T:  *)
(* the sizes are chosen by the table's mask, which has no RSkin0.          *)
RequiredSize(T) ==
  LET Entries == UNION {{k} \X (1..T[k].remaining) : k \in Made}
  IN MainUnifSize + InstanceSize * Cardinality(Entries)

(* Mutant of RoundedUp: a size that is rounded down.                       *)
RoundedDown(size) == (size \div UnifBufferSize) * UnifBufferSize

RoundedUp(size) == (size \div UnifBufferSize) * UnifBufferSize + UnifBufferSize

(* The size of buffer that checkUnifBuffer() wants for the required size.  *)
WantedBuffer(size) ==
  LET new == IF size <= UnifBufferSize THEN UnifBufferSize ELSE RoundedUp(size)
  IN CASE size > unifBuffer -> RoundedUp(size)
       [] size < unifBuffer /\ new <= unifBuffer \div 2 -> new
       [] OTHER -> unifBuffer

(* Does checkUnifBuffer() return true?  The old buffer is released before  *)
(* the new one is created, which may fail.                                 *)
CheckUnifBuffer(size, ok) ==
  LET wanted == WantedBuffer(size) IN
  IF wanted = unifBuffer
    THEN ok /\ UNCHANGED unifBuffer
    ELSE unifBuffer' = IF ok THEN wanted ELSE 0

StartDrawing ==
  /\ pc' = "opaque"
  /\ offset' = MainUnifSize
  /\ turns' = Len(opaque)
  /\ recorded' = <<>>

(* Calling size() of a null buffer.                                        *)
NullBuffer ==
  /\ unifBuffer = 0
  /\ pc' = "undefined"
  /\ UNCHANGED <<unifBuffer, passVars>>

(* DcTable::allocate(n) never fails when the table has n sets or n is 0.   *)
Allocates(k, n) == n # 0 /\ tables[k].allocations # n

(* allocateTables(): the tables in done, then one failed; or all of them.  *)
AllocateTables ==
  /\ pc = "allocate"
  /\ \E done \in SUBSET Made :
       LET after == [k \in TableKeys |->
                       IF k \in done
                         THEN [tables[k] EXCEPT !.allocations = tables[k].count,
                                                !.remaining = tables[k].count]
                         ELSE tables[k]]
       IN /\ tables' = after
          /\ \/ /\ \E k \in Made \ done : Allocates(k, tables[k].count)
                /\ pc' = "subset"
                /\ UNCHANGED <<unifBuffer, passVars>>
             \/ /\ done = Made /\ unifBuffer # 0
                /\ \/ CheckUnifBuffer(RequiredSize(after), TRUE) /\ StartDrawing
                   \/ /\ CheckUnifBuffer(RequiredSize(after), FALSE)
                      /\ pc' = "subset"
                      /\ UNCHANGED passVars
             \/ done = Made /\ NullBuffer
  /\ UNCHANGED <<graphVars, opaque, blend, cacheVars, historyVars>>

(* allocateTablesSubset() first gives up what no drawable needs.           *)
BeginSubset ==
  /\ pc = "subset"
  /\ pc' = "fewer"
  /\ tables' = [k \in TableKeys |->
                  [tables[k] EXCEPT
                     !.remaining = tables[k].count,
                     !.allocations = IF tables[k].count = 0 THEN 0 ELSE @]]
  /\ UNCHANGED <<graphVars, opaque, blend, cacheVars, unifBuffer, passVars,
                 historyVars>>

(* The tables after an iteration of its loop in which those in F failed.   *)
Attempted(F) ==
  [k \in TableKeys |-> IF k \in Counted \ F
                         THEN [tables[k] EXCEPT !.allocations = tables[k].remaining]
                         ELSE tables[k]]

Halved(T) == [k \in TableKeys |-> IF T[k].remaining > 1
                                    THEN [T[k] EXCEPT !.remaining = @ \div 2]
                                    ELSE T[k]]

(* Either there are fewer allocations to ask for, or the call throws.      *)
TryFewer(after) ==
  IF \A k \in Counted : tables[k].remaining = 1
    THEN /\ Throw
         /\ tables' = after
    ELSE /\ tables' = Halved(after)
         /\ UNCHANGED <<pc, historyVars>>

AllocateFewer ==
  /\ pc = "fewer"
  /\ \E F \in SUBSET {k \in Counted : Allocates(k, tables[k].remaining)} :
       LET size == RequiredSize(tables) IN
       IF F # {}
         THEN TryFewer(Attempted(F)) /\ UNCHANGED <<unifBuffer, passVars>>
         ELSE \/ /\ unifBuffer # 0
                 /\ \/ /\ CheckUnifBuffer(size, TRUE)
                       /\ StartDrawing
                       /\ tables' = Attempted({})
                       /\ UNCHANGED historyVars
                    \/ /\ CheckUnifBuffer(size, FALSE)
                       /\ TryFewer(Attempted({}))
                       /\ UNCHANGED passVars
              \/ /\ NullBuffer
                 /\ tables' = Attempted({})
                 /\ UNCHANGED historyVars
  /\ UNCHANGED <<graphVars, opaque, blend, cacheVars>>

-----------------------------------------------------------------------------
(* renderOnce() and renderAgain().                                         *)

OutOfResources(d) == tables[TableFor(d)].remaining = 0

(* Mutant of AllocationFor: the decrement comes after the use.             *)
AllocationBefore(d) == tables[TableFor(d)].remaining

AllocationFor(d) == tables[TableFor(d)].remaining - 1

(* The uniforms that writeInstance... and writeMaterial... store.          *)
WrittenSize(d) == IF MaskOf(d) \in Skinned THEN SkinnedSize ELSE InstanceSize

(* renderDrawable(), up to didRenderDrawable().                            *)
Draw(d) ==
  LET m == MaskOf(d) IN
  /\ offset + WrittenSize(d) <= unifBuffer
  /\ offset' = offset + WrittenSize(d)
  /\ recorded' = Append(recorded, [drawable |-> d, allocation |-> AllocationFor(d)])
  /\ tables' = [tables EXCEPT ![TableOf[m]].remaining = @ - 1,
                              ![TableOf[m]].count = @ - 1]
  /\ stateCount' = [stateCount EXCEPT ![m] = @ - 1]
  /\ shaderCount' = [shaderCount EXCEPT ![ShaderOf[m]] = @ - 1]

(* The encoder and the other locals of a pass are gone.                    *)
LeaveDrawing ==
  /\ offset' = 0
  /\ turns' = 0
  /\ recorded' = <<>>

(* renderDrawable() when a write to the buffer or to the table throws, for *)
(* want of space or because a texture cannot be copied.                    *)
DrawThrows(d) ==
  /\ ~OutOfResources(d)
  /\ tables' = [tables EXCEPT ![TableFor(d)].remaining = @ - 1]
  /\ Throw
  /\ LeaveDrawing
  /\ UNCHANGED <<opaque, blend, stateCount, shaderCount>>

(* Mutant of PutBack: what could not be drawn is forgotten.                *)
PutNowhere(d) == opaque' = Tail(opaque)

PutBack(d) == opaque' = Append(Tail(opaque), d)

(* renderOpaqueDrawables() looks once at each.                             *)
RenderOpaque ==
  /\ pc = "opaque" /\ turns > 0
  /\ LET d == Head(opaque) IN
     \/ /\ OutOfResources(d)
        /\ PutBack(d)
        /\ turns' = turns - 1
        /\ UNCHANGED <<pc, offset, recorded, tables, stateCount, shaderCount,
                       historyVars>>
     \/ /\ ~OutOfResources(d)
        /\ Draw(d)
        /\ opaque' = Tail(opaque)
        /\ turns' = turns - 1
        /\ UNCHANGED <<pc, historyVars>>
     \/ DrawThrows(d)
  /\ UNCHANGED <<graphVars, blend, states, shaders, unifBuffer>>

OpaqueDone ==
  /\ pc = "opaque" /\ turns = 0
  /\ pc' = IF opaque = <<>> THEN "blend" ELSE "submit"
  /\ UNCHANGED <<graphVars, opaque, blend, cacheVars, tables, unifBuffer,
                 passVars, historyVars>>

(* renderBlendDrawables() stops at the first that cannot be drawn.         *)
RenderBlend ==
  /\ pc = "blend" /\ blend # <<>>
  /\ LET d == Head(blend) IN
     \/ /\ ~OutOfResources(d)
        /\ Draw(d)
        /\ blend' = Tail(blend)
        /\ UNCHANGED <<pc, turns, historyVars>>
     \/ DrawThrows(d)
  /\ UNCHANGED <<graphVars, opaque, states, shaders, unifBuffer>>

BlendDone ==
  /\ pc = "blend"
  /\ blend # <<>> => OutOfResources(Head(blend))
  /\ pc' = "submit"
  /\ UNCHANGED <<graphVars, opaque, blend, cacheVars, tables, unifBuffer,
                 passVars, historyVars>>

(* Mutant of WillRenderAgain: the allocations are not made available.      *)
NotAgain == tables

WillRenderAgain ==
  [k \in TableKeys |-> IF k \in Counted
                         THEN [tables[k] EXCEPT !.remaining = tables[k].allocations]
                         ELSE tables[k]]

(* The end of a pass: encode(), enqueue() and submit(), which waits for    *)
(* the device, so that the next pass may write to the same allocations.    *)
Submit ==
  /\ pc = "submit"
  /\ \/ /\ drawn' = drawn \o [i \in DOMAIN recorded |-> recorded[i].drawable]
        /\ UNCHANGED <<renders, intact>>
        /\ IF opaque = <<>> /\ blend = <<>>
             THEN pc' = "idle" /\ LeaveDrawing /\ UNCHANGED tables
             ELSE tables' = WillRenderAgain /\ StartDrawing
     \/ Throw /\ LeaveDrawing /\ UNCHANGED tables
  /\ UNCHANGED <<graphVars, opaque, blend, cacheVars, unifBuffer>>

-----------------------------------------------------------------------------
(* The client renders no more, or the program is not defined any more.     *)
Rest == pc \in {"idle", "undefined"} /\ UNCHANGED vars

Step ==
  \/ RejectPrimitive \/ PushDrawable \/ GraphDone
  \/ AllocateTables \/ BeginSubset \/ AllocateFewer
  \/ RenderOpaque \/ OpaqueDone \/ RenderBlend \/ BlendDone \/ Submit

Next ==
  \/ \E s \in Scenes, p \in Passes : Render(s, p)
  \/ Step
  \/ Rest

(* render() runs in the client's thread and waits for nobody but the       *)
(* device: its next step is taken.  The client need not call it.           *)
Spec == Init /\ [][Next]_vars /\ WF_vars(Step)

-----------------------------------------------------------------------------
(* Properties.                                                             *)

Drawing == pc \in {"opaque", "blend", "submit"}
Ids(s) == {s[i] : i \in DOMAIN s}

(* No two drawables of a pass use the same allocation of a table, and each *)
(* allocation is one that the table has: renderDrawable overwrites an      *)
(* allocation that the device has yet to read otherwise.                   *)
AllocationsDistinct ==
  Drawing =>
    \A i \in DOMAIN recorded :
      LET r == recorded[i]  k == TableFor(r.drawable) IN
      /\ r.allocation \in 0..(tables[k].allocations - 1)
      /\ \A j \in DOMAIN recorded :
           /\ TableFor(recorded[j].drawable) = k
           /\ recorded[j].allocation = r.allocation
           => i = j

(* The counts by which tables are allocated and passes refilled cover the  *)
(* drawables that wait, whatever earlier calls threw, so that              *)
(* didRenderDrawable never takes from zero; when none threw, they are      *)
(* exact: no call leaves anything counted behind.                          *)
CountsAgree ==
  LET Waiting == Ids(opaque) \cup Ids(blend)
      Covers(n, D) == IF intact THEN n = Cardinality(D) ELSE n >= Cardinality(D)
  IN Drawing =>
       /\ \A k \in TableKeys :
            Covers(tables[k].count, {d \in Waiting : TableFor(d) = k})
       /\ \A m \in Masks :
            Covers(stateCount[m], {d \in Waiting : MaskOf(d) = m})
       /\ \A k \in ShaderKeys :
            Covers(shaderCount[k], {d \in Waiting : ShaderOf[MaskOf(d)] = k})

(* The buffer that allocateTables settled for has room for the uniforms of *)
(* every drawable that gets an allocation, in the first pass and in those  *)
(* that renderAgain adds, in any order of tables; skinned drawables are    *)
(* not accounted for (setTables looks for RSkin0 in a mask without it).    *)
UniformsFit ==
  /\ Drawing
  /\ \A d \in DOMAIN scene : MaskOf(d) \notin Skinned
  => LET More(D) == {d \in D : ~OutOfResources(d)} IN
     \A d \in More(Ids(opaque) \cup Ids(blend)) :
       offset + InstanceSize <= unifBuffer

(* What is drawn with was created for the pass of the current target: the  *)
(* caches are consistent with pass_ after any change of target, exception  *)
(* or half-done setState.                                                  *)
StatesOfPass ==
  Drawing =>
    \A d \in Ids(opaque) \cup Ids(blend) :
      /\ states[MaskOf(d)] = pass
      /\ ShaderOf[MaskOf(d)] \in shaders.vert \cap shaders.frag
      /\ tables[TableFor(d)].made

(* The caches and the counts that are kept in them are right together.     *)
CachesAgree == TypeOK /\ CountsAgree /\ StatesOfPass

(* Every call to render() returns, throws, or meets undefined behaviour:   *)
(* the search for an affordable number of allocations and the loop of      *)
(* renderAgain end.                                                        *)
RenderEnds == (pc # "idle") ~> (pc \in {"idle", "undefined"})

(* What is left to submit of the scene that is rendered.                   *)
Busy == pc \notin {"idle", "undefined"}
Left == IF Busy THEN DOMAIN scene \ Ids(drawn) ELSE {}
LeftOpaque == {d \in Left : ~IsBlended(d)}
LeftBlended == {d \in Left : IsBlended(d)}

(* The drawables of D in the order of the scene: the i-th has i up to it.  *)
Rank(D, d) == Cardinality({e \in D : e <= d})
InOrder(D) == [i \in 1..Cardinality(D) |-> CHOOSE d \in D : Rank(D, d) = i]

Promise == INSTANCE RenderPromise WITH
  busy <- Busy,
  opaques <- LeftOpaque,
  blends <- InOrder(LeftBlended)

(* The renderer keeps the promise of RenderPromise: every drawable of the  *)
(* scene is submitted exactly once, opaque before blended, blended in the  *)
(* order of the scene, over as many passes as the allocations take.        *)
KeepsRenderPromise == Promise!Spec
=============================================================================
