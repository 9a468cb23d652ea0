---------------------------- MODULE MCRecording -----------------------------
(* Two color attachments and one for depth and stencil; two graphics       *)
(* states that share their first table, a third that does not, and one for *)
(* compute.                                                                *)
EXTENDS Recording

Op(colors, depth, stencil) ==
  [colorOps |-> colors, colorValues |-> <<"red", "blue">>, depthOp |-> depth,
   depthValue |-> "far", stencilOp |-> stencil, stencilValue |-> "ones"]

MCTargetOps ==
  {Op(<<"clear", "clear">>, "clear", "clear"),
   Op(<<"load", "clear">>, "load", "load"),
   Op(<<"load", "load">>, "load", "load"),
   Op(<<"load", "load">>, "clear", "load"),
   Op(<<"load", "load">>, "load", "dontcare")}

State(point, stages, tables) ==
  [point |-> point, pass |-> TRUE, stages |-> stages, tables |-> tables]

MCConfig ==
  [a |-> State("graphics", <<"vertex", "fragment">>, <<"main", "t1">>),
   b |-> State("graphics", <<"vertex">>, <<"main", "t2">>),
   c |-> State("graphics", <<"vertex">>, <<"t1">>),
   d |-> State("compute", <<"compute">>, <<"t2">>),
   e |-> State("graphics", <<"vertex", "vertex">>, <<>>)]

MCAllocations == [main |-> 1, t1 |-> 2, t2 |-> 1]
MCBuffers == [x |-> 3, y |-> 2]
MCImage(size, layers, levels, samples) ==
  [size |-> size, layers |-> layers, levels |-> levels, format |-> "rgba",
   samples |-> samples]
MCImages ==
  [i |-> MCImage(2, 2, 2, 1), j |-> MCImage(1, 1, 1, 1), k |-> MCImage(2, 1, 1, 4)]

(* Bounds.  Draws are explored once all states exist, with one target      *)
(* operation besides the default one; more of them are with at most one    *)
(* state, and encodings that set nothing but targets.  The four kinds of   *)
(* dynamic state are alike: they are set in one order, up to any of them,  *)
(* and before tables.  Copies are explored one at a time, in an empty      *)
(* command buffer.                                                         *)
InOrder ==
  enc.status \cap Dynamic \in
    {{}, {"viewport"}, {"viewport", "scissor"}, Dynamic \ {"index"}, Dynamic}

FewOps ==
  used \subseteq
    {DefaultOps, OpsOf(CHOOSE op \in TargetOps : op.colorOps[1] = "clear")}

Simple ==
  /\ states \in {{}, {"a"}, {"a", "b"}, {"a", "b", "c"}, {"a", "b", "c", "d"}}
  /\ FewOps \/ (states \subseteq {"a"} /\ gpu.pipeline["graphics"] = None)
  /\ enc # None =>
       \/ enc.kind = "transfer" /\ gpu = NoGpu /\ used = {} /\ copied = None
       \/ /\ enc.kind = "graphics" /\ enc.status \subseteq {"target"}
          /\ enc.tables = <<>>
       \/ /\ enc.kind # "transfer" /\ InOrder /\ FewOps
          /\ states = {"a", "b", "c", "d"}
          /\ enc.tables # <<>> /\ enc.kind = "graphics" =>
               Dynamic \cup {"target"} \subseteq enc.status
=============================================================================
