----------------------------- MODULE Recording ------------------------------
(***************************************************************************)
(* What a command buffer makes of the encodings that it is given:          *)
(* CmdBufferVK::encode for graphics, compute and transfer                  *)
(* (cg/src/vk/QueueVK.cxx), over the render passes of RenderPasses and the *)
(* states of cg/src/vk/StateVK.cxx.                                        *)
(*                                                                         *)
(* An encoder is a list of commands (cg/src/Encoder.cxx, Cmd.h) that is    *)
(* only appended to, and read by one call of encode(): the model chooses   *)
(* each command when encode() comes to it.  Objects are created by the     *)
(* program between such calls.  There is one command buffer; the queue is  *)
(* that of CmdQueue, seen from here as executing it at some time.          *)
(***************************************************************************)
EXTENDS RenderPasses, SequencesExt

CONSTANTS
  Config,       \* the states that clients create, with their configurations
  Allocations,  \* DcTableVK::allocations(), for each descriptor table
  Buffers,      \* sizes of the buffers that are copied between
  Images,       \* sizes, layers, levels, formats and samples of the images
  Half,         \* half of the numbers that a uint64_t has, 2 ^ 63
  MaxTables     \* bound: descriptor tables of a state, and calls of
                \* setDcTable() between two draws

States == DOMAIN Config
Points == {"graphics", "compute"}

ASSUME RecordingAssumption ==
  /\ MaxTables \in Nat /\ Half \in Nat \ {0}
  /\ \A s \in States : /\ Config[s].point \in Points
                       /\ Config[s].tables \in Seq(DOMAIN Allocations)
                       /\ Len(Config[s].tables) <= MaxTables
  /\ \A b \in DOMAIN Buffers : Buffers[b] \in Nat
  /\ \A i \in DOMAIN Images : Images[i].size \in Nat
  /\ DOMAIN Buffers \cap DOMAIN Images = {}

Dynamic == {"viewport", "scissor", "vertex", "index"}
Statuses == Dynamic \cup {"target", "state"}

(* What there is, is not None.                                             *)
Sets == [under : Seq(DOMAIN Allocations), allocation : Nat]
Encodings ==
  [kind : Points \cup {"transfer"}, status : SUBSET Statuses,
   target : TargetOps \cup {None}, state : States \cup {None},
   tables : Seq(Nat \X Nat)]
PassOf(op) == [attachments |-> Attachments(OpsOf(op)), clears |-> ClearValues(op)]

ASSUME NoneAssumption ==
  /\ None \notin States /\ None \notin Sets /\ None \notin Encodings
  /\ \A op \in TargetOps : PassOf(op) # None

VARIABLES
  begun,    \* CmdBufferVK::begun_
  handle,   \* the VkCommandBuffer: "initial", "recording" or "pending"
  states,   \* the GrStateVK and CpStateVK that exist
  enc,      \* the variables of the encode() that is executing, or None
  gpu,      \* what the recorded commands set up, as the driver sees it
  asked,    \* history: what the client set in this encoding
  drew,     \* the bind point, if the last command was a draw or a dispatch
  copied    \* the last copy that was recorded, or None

bufferVars == <<begun, handle>>
vars == <<passVars, bufferVars, states, enc, gpu, asked, drew, copied>>

NoGpu ==
  [pass |-> None, pipeline |-> [p \in Points |-> None],
   sets |-> [p \in Points |-> [i \in 1..MaxTables |-> None]]]

NothingAsked ==
  [op |-> None, state |-> None, tables |-> [i \in 1..MaxTables |-> None],
   stale |-> {}]

Init ==
  /\ PassInit
  /\ begun = FALSE /\ handle = "initial" /\ states = {}
  /\ enc = None /\ gpu = NoGpu /\ asked = NothingAsked
  /\ drew = None /\ copied = None

-----------------------------------------------------------------------------
(* Creation of states (StateVK.cxx).                                       *)

(* What GrStateVK and CpStateVK accept.                                    *)
Acceptable(config) ==
  IF config.point = "graphics"
    THEN /\ config.pass
         /\ IsInjective(config.stages)
         /\ "vertex" \in ToSet(config.stages)
    ELSE config.stages = <<"compute">>

(* The pipeline is created last; the driver may refuse it.                 *)
NewState(s) ==
  /\ Acceptable(Config[s])
  /\ IF Config[s].point = "graphics" THEN DefaultPassMade
                                     ELSE UNCHANGED passVars
  /\ states' = states \cup {s}

NewStateThrows(s) ==
  /\ Acceptable(Config[s]) /\ Config[s].point = "graphics"
  /\ DefaultPassMade \/ DefaultPassRefused
  /\ UNCHANGED states

Create ==
  /\ enc = None
  /\ \/ \E colors \in 0..NumColors, depth \in BOOLEAN :
          NewTarget(colors, depth) /\ UNCHANGED states
     \/ \E s \in States : NewState(s) \/ NewStateThrows(s)
  /\ UNCHANGED <<bufferVars, enc, gpu, asked, drew, copied>>

-----------------------------------------------------------------------------
(* The command buffer.                                                     *)

(* CmdBufferVK::encode.  (A buffer that was reset although it has begun    *)
(* stays begun_, see Enqueue: what it records is undefined.)               *)
Begin(kind) ==
  /\ enc = None /\ handle # "pending" /\ (begun => handle = "recording")
  /\ begun' = TRUE /\ handle' = "recording"
  /\ enc' = [kind |-> kind, status |-> {}, target |-> None, state |-> None,
             tables |-> <<>>]
  /\ asked' = NothingAsked /\ drew' = None /\ copied' = None
  /\ UNCHANGED <<passVars, states, gpu>>

(* The commands are gone from the buffer.                                  *)
Emptied ==
  /\ handle' = "initial" /\ gpu' = NoGpu
  /\ recorded' = {} /\ dangling' = FALSE
  /\ enc' = None /\ asked' = NothingAsked /\ drew' = None /\ copied' = None

(* An exception of a command: encode() resets the buffer.                  *)
Throw == Emptied /\ UNCHANGED <<begun, states, renderPasses, used>>

(* CmdBufferVK::reset.                                                     *)
Reset == enc = None /\ handle = "recording" /\ Throw

(* CmdBufferVK::enqueue: the driver may find the commands invalid, and     *)
(* does if there are none after a reset.                                   *)
Enqueue ==
  /\ enc = None /\ begun /\ begun' = FALSE
  /\ \/ /\ handle = "recording" /\ handle' = "pending"
        /\ drew' = None /\ copied' = None
        /\ UNCHANGED <<passVars, gpu, enc, asked>>
     \/ Emptied /\ UNCHANGED <<renderPasses, used>>
  /\ UNCHANGED states

(* QueueVK::submit: the device is through with it.                         *)
Executed ==
  /\ handle = "pending" /\ Emptied
  /\ UNCHANGED <<begun, states, renderPasses, used>>

-----------------------------------------------------------------------------
(* Commands of graphics and compute encodings.                             *)

In(kinds) == enc # None /\ enc.kind \in kinds

(* Steps of encode() change none of these.                                 *)
Encoding == UNCHANGED <<bufferVars, states>>
Recorded == Encoding /\ drew' = None /\ UNCHANGED copied

(* setViewport, setScissor, setVxBuffer and setIxBuffer.                   *)
SetDynamic(what) ==
  /\ In({"graphics"})
  /\ enc' = [enc EXCEPT !.status = @ \cup {what}]
  /\ Recorded /\ UNCHANGED <<passVars, gpu, asked>>

(* "Multiple viewports not supported".                                     *)
SetSecondViewport == In({"graphics"}) /\ Throw

(* setTarget: endPass for the target before it, beginPass.                 *)
SetTarget(op) ==
  /\ In({"graphics"})
  /\ \E i \in Slots :
       /\ RenderPass(OpsOf(op), i)
       /\ dangling' = (dangling \/ Destroys(OpsOf(op)))
       /\ recorded' = recorded \cup {i}
       /\ gpu' = [gpu EXCEPT !.pass =
                    [attachments |-> renderPasses'[i].attachments,
                     clears |-> ClearValues(op)]]
  /\ enc' = [enc EXCEPT !.target = op, !.status = @ \cup {"target"}]
  /\ asked' = [asked EXCEPT !.op = op]
  /\ Recorded

SetTargetThrows(op) ==
  /\ In({"graphics"}) /\ NoRenderPass(OpsOf(op))
  /\ Emptied /\ UNCHANGED <<begun, states>>

Tables(s) == IF s = None THEN <<>> ELSE Config[s].tables

(* The tables up to the i-th, which sets bound to the i-th depend on.      *)
Prefix(tables, i) == SubSeq(tables, 1, Min({i, Len(tables)}))
UpTo(s, i) == Prefix(Tables(s), i)

(* Indices whose sets do not outlive the change from one state to another. *)
Changed(s, t) == {i \in 1..MaxTables : s # None /\ UpTo(s, i) # UpTo(t, i)}

(* Mutant of StateSet: setDcTable() before setState() is forgotten.        *)
StateSetAfresh(s) ==
  IF enc.kind = "graphics" /\ s = enc.state THEN enc
    ELSE [enc EXCEPT !.state = s, !.status = @ \cup {"state"}, !.tables = <<>>]

StateSet(s) == [enc EXCEPT !.state = s, !.status = @ \cup {"state"}]

(* setState: a graphics state is not bound twice in a row.                 *)
SetState(s) ==
  /\ In(Points) /\ Config[s].point = enc.kind
  /\ enc' = StateSet(s)
  /\ gpu' = IF enc.kind = "graphics" /\ s = enc.state
              THEN gpu ELSE [gpu EXCEPT !.pipeline[enc.kind] = s]
  /\ asked' = [asked EXCEPT !.state = s,
                            !.stale = @ \cup Changed(asked.state, s)]
  /\ Recorded /\ UNCHANGED passVars

(* setDcTable: bound by the next draw or dispatch.                         *)
SetDcTable(i, j) ==
  /\ In(Points) /\ Len(enc.tables) < MaxTables
  /\ enc' = [enc EXCEPT !.tables = Append(@, <<i, j>>)]
  /\ asked' = [asked EXCEPT !.tables[i] = j, !.stale = @ \ {i}]
  /\ Recorded /\ UNCHANGED <<passVars, gpu>>

(* vkCmdBindDescriptorSets: the i-th set of the bind point; the sets that  *)
(* were bound under tables which differ up to there are disturbed.         *)
Bind(sets, s, i, j) ==
  [k \in 1..MaxTables |->
     IF k = i THEN [under |-> UpTo(s, i), allocation |-> j]
     ELSE IF /\ sets[k] # None
             /\ LET n == Min({i, k}) IN Prefix(sets[k].under, n) = UpTo(s, n)
       THEN sets[k] ELSE None]

(* bindSets: the tables are those of the state that draws.                 *)
InRange(s, table) ==
  /\ table[1] <= Len(Tables(s))
  /\ table[2] < Allocations[Tables(s)[table[1]]]

(* The tables ts are bound one after the other.                            *)
AllBound(sets, s, ts) ==
  LET bound[n \in 0..Len(ts)] ==
        IF n = 0 THEN sets ELSE Bind(bound[n - 1], s, ts[n][1], ts[n][2])
  IN bound[Len(ts)]

BindSets ==
  /\ \A n \in DOMAIN enc.tables : InRange(enc.state, enc.tables[n])
  /\ gpu' = [gpu EXCEPT !.sets[enc.kind] = AllBound(@, enc.state, enc.tables)]
  /\ enc' = [enc EXCEPT !.tables = <<>>]

Needed(indexed) ==
  {"viewport", "scissor", "target", "state", "vertex"}
    \cup IF indexed THEN {"index"} ELSE {}

(* May draw, drawIndexed or dispatch be called?                            *)
Ready(indexed) ==
  IF enc.kind = "graphics" THEN Needed(indexed) \subseteq enc.status
                           ELSE enc.state # None

(* draw, drawIx and dispatch.                                              *)
Draw(indexed) ==
  /\ In(Points) /\ (indexed => enc.kind = "graphics")
  /\ Ready(indexed) /\ BindSets
  /\ drew' = enc.kind
  /\ Encoding /\ UNCHANGED <<passVars, asked, copied>>

(* "Invalid draw() encoding", "setDcTable() index out of range".           *)
DrawThrows(indexed) ==
  /\ In(Points) /\ (indexed => enc.kind = "graphics")
  /\ Ready(indexed) =>
       \E n \in DOMAIN enc.tables : ~InRange(enc.state, enc.tables[n])
  /\ Throw

(* The commands end: endPass if there is a target.  (sync records a        *)
(* barrier and changes nothing that is modelled.)                          *)
EndEncoding ==
  /\ enc # None
  /\ enc' = None /\ gpu' = [gpu EXCEPT !.pass = None]
  /\ asked' = NothingAsked /\ drew' = None /\ copied' = None
  /\ UNCHANGED <<passVars, bufferVars, states>>

-----------------------------------------------------------------------------
(* Commands of transfer encodings.                                         *)

Wrap(n) == n % (2 * Half)
Signed(n) == IF n >= Half THEN n - 2 * Half ELSE n
Distance(m, n) == LET d == Signed(Wrap(m - n)) IN IF d < 0 THEN -d ELSE d

(* Mutant of MayCopyBuffer: the size that the other buffer leaves.         *)
MayCopyBufferCrossed(c) ==
  /\ c.size # 0
  /\ Wrap(c.dstOffset + c.size) <= Buffers[c.src]
  /\ Wrap(c.srcOffset + c.size) <= Buffers[c.dst]
  /\ c.dst = c.src => Distance(c.srcOffset, c.dstOffset) >= c.size

(* copyBB.                                                                 *)
MayCopyBuffer(c) ==
  /\ c.size # 0
  /\ Wrap(c.dstOffset + c.size) <= Buffers[c.dst]
  /\ Wrap(c.srcOffset + c.size) <= Buffers[c.src]
  /\ c.dst = c.src => Distance(c.srcOffset, c.dstOffset) >= c.size

(* copyII, on one axis: the other one is checked like it.                  *)
MayCopyImage(c) ==
  LET dst == Images[c.dst]  src == Images[c.src]
  IN /\ c.size # 0 /\ c.layers # 0
     /\ c.dstOffset + c.size <= dst.size \div 2 ^ c.dstLevel
     /\ c.srcOffset + c.size <= src.size \div 2 ^ c.srcLevel
     /\ c.dstLayer + c.layers <= dst.layers
     /\ c.srcLayer + c.layers <= src.layers
     /\ c.dstLevel < dst.levels /\ c.srcLevel < src.levels
     /\ dst.format = src.format /\ dst.samples = src.samples

Copy(c) ==
  /\ copied' = c
  /\ Encoding /\ UNCHANGED <<passVars, enc, gpu, asked, drew>>

BufferCopies ==
  [dst : DOMAIN Buffers, src : DOMAIN Buffers, dstOffset : 0..(2 * Half - 1),
   srcOffset : 0..(2 * Half - 1), size : 0..(2 * Half - 1)]

CopyBuffer ==
  In({"transfer"}) /\ \E c \in BufferCopies : MayCopyBuffer(c) /\ Copy(c)

ImageCopies ==
  [dst : DOMAIN Images, src : DOMAIN Images, dstOffset : 0..2, srcOffset : 0..2,
   dstLayer : 0..1, srcLayer : 0..1, dstLevel : 0..1, srcLevel : 0..1,
   size : 0..2, layers : 0..2]

(* The layouts of both images are changed, see ImageLayout.                *)
CopyImage ==
  In({"transfer"}) /\ \E c \in ImageCopies : MayCopyImage(c) /\ Copy(c)

(* A copy is refused, or a layout cannot be changed.                       *)
CopyThrows == In({"transfer"}) /\ Throw

-----------------------------------------------------------------------------
Command ==
  \/ \E what \in Dynamic : SetDynamic(what)
  \/ SetSecondViewport
  \/ \E op \in TargetOps : SetTarget(op) \/ SetTargetThrows(op)
  \/ \E s \in states : SetState(s)
  \/ \E i \in 1..MaxTables : \E j \in 0..(i - 1) : SetDcTable(i, j)
  \/ \E indexed \in BOOLEAN : Draw(indexed) \/ DrawThrows(indexed)
  \/ CopyBuffer \/ CopyImage \/ CopyThrows

Next ==
  \/ Create
  \/ \E kind \in Points \cup {"transfer"} : Begin(kind)
  \/ Command
  \/ EndEncoding
  \/ Reset \/ Enqueue \/ Executed

Spec == Init /\ [][Next]_vars

-----------------------------------------------------------------------------
(* Properties.                                                             *)

(* The attachments of the pass do what the client asked for: each is       *)
(* loaded or cleared as it was said, what is loaded was not given up by    *)
(* the layout that the pass starts from, and the value of each clear is    *)
(* the one meant for it.                                                   *)
PassRight ==
  LET op == asked.op
      attachments == gpu.pass.attachments
  IN /\ \A i \in 1..NumColors :
          /\ attachments[i].load = op.colorOps[i]
          /\ op.colorOps[i] = "load" => attachments[i].initial = "general"
          /\ op.colorOps[i] = "clear" =>
               gpu.pass.clears[i] = op.colorValues[Clears(op, i)]
     /\ HasDepth =>
          LET depth == attachments[NumColors + 1] IN
          /\ depth.load = op.depthOp /\ depth.stencilLoad = op.stencilOp
          /\ "load" \in {op.depthOp, op.stencilOp} => depth.initial = "general"
          /\ "clear" \in {op.depthOp, op.stencilOp} =>
               gpu.pass.clears[NumColors + 1]
                 = <<op.depthValue, op.stencilValue>>

(* "Sets a descriptor table allocation" (Encoder.h): the sets bound when   *)
(* the device draws are those that the client set last, of the tables of   *)
(* the state that draws, unless the client changed since to a state with   *)
(* other tables up to there.                                               *)
SetsRight ==
  \A i \in DOMAIN Tables(asked.state) \ asked.stale :
    asked.tables[i] # None =>
      gpu.sets[drew][i] =
        [under |-> UpTo(asked.state, i), allocation |-> asked.tables[i]]

(* Every pass that is begun does what it was set for, and every draw and   *)
(* dispatch finds what the encoding set before it, although a pass is      *)
(* shared by uses with other operations, tables are bound later than they  *)
(* are set, and commands of earlier encodings are in the buffer.           *)
DrawsAsEncoded ==
  /\ gpu.pass # None => PassRight
  /\ drew # None =>
       /\ drew = "graphics" => gpu.pass # None
       /\ gpu.pipeline[drew] = asked.state
       /\ SetsRight

BufferRangesRight(c) ==
  LET dstEnd == c.dstOffset + c.size
      srcEnd == c.srcOffset + c.size
  IN Max({dstEnd, srcEnd}) < 2 * Half =>
       /\ dstEnd <= Buffers[c.dst] /\ srcEnd <= Buffers[c.src]
       /\ c.dst = c.src => dstEnd <= c.srcOffset \/ srcEnd <= c.dstOffset

ImageRangeRight(c, image, offset, layer, level) ==
  /\ level < image.levels
  /\ offset + c.size <= Max({1, image.size \div 2 ^ level})
  /\ layer + c.layers <= image.layers

(* "copy(buf, buf) invalid range", "copy(img, img) invalid range"          *)
(* (QueueVK.cxx): a copy that is recorded reads and writes nothing outside *)
(* of its buffers or levels, and one from a buffer to itself reads nothing *)
(* that it writes, as long as no end of a range exceeds 64 bits.           *)
CopiesInRange ==
  copied # None =>
    IF copied.dst \in DOMAIN Buffers
      THEN BufferRangesRight(copied)
      ELSE LET c == copied IN
           /\ ImageRangeRight(c, Images[c.dst], c.dstOffset, c.dstLayer, c.dstLevel)
           /\ ImageRangeRight(c, Images[c.src], c.srcOffset, c.srcLayer, c.srcLevel)
=============================================================================
