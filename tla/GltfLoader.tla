---------------------------- MODULE GltfLoader ----------------------------
(***************************************************************************)
(* loadGLTF (sg/src/DataGLTF.cxx): a file is parsed, and then DataLoad     *)
(* creates the objects of a Collection out of what was read.  Objects are  *)
(* created where they are first needed, which may be from within another   *)
(* one, and only once.  The functions call each other: `todo' has the      *)
(* calls still to make, next one first, and a step makes one.              *)
(***************************************************************************)
EXTENDS GltfParser, FiniteSets

CONSTANT Supported  \* the files that have nothing that is not supported

VARIABLES
  todo,      \* the calls to make
  coll,      \* the collection: what was created from each element of the file
  at,        \* where each buffer's file stream is
  meshData,  \* what the mesh being created has so far
  animData,  \* what the animation being created has so far
  load       \* "idle", "loading", "loaded" or "thrown"

underway == <<meshData, animData>>
loadVars == <<todo, coll, at, underway, load>>

Item(list, i) == list[i + 1]
Indices(list) == [k \in DOMAIN list |-> k - 1]

Absent == [type |-> "absent"]
Apart == <<"none", 0>>           \* the ancestor of a node that has none

-----------------------------------------------------------------------------
(* What a file may rely on the loader for: what refers to an element       *)
(* refers to one of the file, and the nodes are a forest.  The loader does *)
(* not check it.                                                           *)

Refers(i, list) == i \in 0..(Len(list) - 1)
May(i, list) == i < 0 \/ Refers(i, list)
AllRefer(is, list) == \A k \in DOMAIN is : Refers(is[k], list)

ChildrenOf(g, n) == ToSet(g.nodes[n + 1].children)
Generations(g) ==
  LET gen[k \in 0..Len(g.nodes)] ==
        IF k = 0 THEN [n \in 0..(Len(g.nodes) - 1) |-> {n}]
        ELSE [n \in 0..(Len(g.nodes) - 1) |->
                UNION {gen[k - 1][c] : c \in ChildrenOf(g, n)}]
  IN  gen[Len(g.nodes)]

IsForest(g) ==
  /\ \A k \in DOMAIN g.nodes : AllRefer(g.nodes[k].children, g.nodes)
  /\ \A n \in 0..(Len(g.nodes) - 1) :
       Cardinality({place \in (DOMAIN g.nodes) \X (1..Len(g.nodes)) :
                      /\ place[2] \in DOMAIN g.nodes[place[1]].children
                      /\ g.nodes[place[1]].children[place[2]] = n}) <= 1
  /\ \A n \in 0..(Len(g.nodes) - 1) : Generations(g)[n] = {}

Valid(g) ==
  /\ IsForest(g)
  /\ \A k \in DOMAIN g.scenes : AllRefer(g.scenes[k].nodes, g.nodes)
  /\ \A k \in DOMAIN g.nodes :
       May(g.nodes[k].mesh, g.meshes) /\ May(g.nodes[k].skin, g.skins)
  /\ \A k \in DOMAIN g.meshes : \A p \in DOMAIN g.meshes[k].primitives :
       LET prim == g.meshes[k].primitives[p]
       IN  /\ \A a \in DOMAIN prim.attributes :
                Refers(prim.attributes[a][2], g.accessors)
           /\ May(prim.indices, g.accessors) /\ May(prim.material, g.materials)
  /\ \A k \in DOMAIN g.skins :
       /\ AllRefer(g.skins[k].joints, g.nodes)
       /\ May(g.skins[k].inverseBindMatrices, g.accessors)
  /\ \A k \in DOMAIN g.materials :
       LET m == g.materials[k]
       IN  \A info \in {m.pbrMetallicRoughness.baseColorTexture,
                        m.pbrMetallicRoughness.metallicRoughnessTexture,
                        m.emissiveTexture} :
             /\ May(info.index, g.textures)
             /\ May(m.normalTexture.index, g.textures)
             /\ May(m.occlusionTexture.index, g.textures)
  /\ \A k \in DOMAIN g.textures :
       /\ Refers(g.textures[k].source, g.images)
       /\ May(g.textures[k].sampler, g.samplers)
  /\ \A k \in DOMAIN g.images :
       g.images[k].uri # "" \/ Refers(g.images[k].bufferView, g.bufferViews)
  /\ \A k \in DOMAIN g.animations : \A c \in DOMAIN g.animations[k].channels :
       LET ch == g.animations[k].channels[c]
           samplers == g.animations[k].samplers
       IN  /\ Refers(ch.target.node, g.nodes) /\ Refers(ch.sampler, samplers)
           /\ Refers(samplers[ch.sampler + 1].input, g.accessors)
           /\ Refers(samplers[ch.sampler + 1].output, g.accessors)
  /\ \A k \in DOMAIN g.accessors :
       /\ Refers(g.accessors[k].bufferView, g.bufferViews)
       /\ g.accessors[k].count >= 0
  /\ \A k \in DOMAIN g.bufferViews : Refers(g.bufferViews[k].buffer, g.buffers)

-----------------------------------------------------------------------------
(* Calls and how they end.                                                 *)

Do(what, i) == [do |-> what, i |-> i]
DoIn(what, i, k) == [do |-> what, i |-> i, k |-> k]
DoNth(what, i, n) == [do |-> what, i |-> i, n |-> n]
ForAll(what, list) == [k \in DOMAIN list |-> Do(what, list[k])]

(* The first of one and of the other, the second of each, and so on.       *)
InTurn(firsts, seconds) ==
  [k \in 1..(2 * Len(firsts)) |->
     IF k % 2 = 1 THEN firsts[(k + 1) \div 2] ELSE seconds[k \div 2]]

Doing(what) == load = "loading" /\ todo # <<>> /\ Head(todo).do = what
I == Head(todo).i
Then(calls) == todo' = calls \o Tail(todo) /\ UNCHANGED <<load, vars>>
ThrowLoad ==
  load' = "thrown" /\ todo' = <<>> /\ UNCHANGED <<coll, at, underway, vars>>
Skip == Then(<<>>) /\ UNCHANGED <<coll, at, underway>>

-----------------------------------------------------------------------------
(* Reading from buffers.  A byte is its buffer and where it is in it.      *)

SizeOfComponentType(acc) ==
  CASE acc.componentType \in {5120, 5121} -> 1
    [] acc.componentType \in {5122, 5123} -> 2
    [] acc.componentType \in {5125, 5126} -> 4
    [] OTHER -> 0

SizeOfType(acc) ==
  CASE acc.type = "SCALAR" -> 1
    [] acc.type = "VEC2" -> 2
    [] acc.type = "VEC3" -> 3
    [] acc.type \in {"VEC4", "MAT2"} -> 4
    [] acc.type = "MAT3" -> 9
    [] acc.type = "MAT4" -> 16
    [] OTHER -> 0

FloatType == 5126
ViewOf(acc) == Item(gltf.bufferViews, acc.bufferView)

(* Only the first buffer can be the one that is embedded.                  *)
CanSeek(view) == Item(gltf.buffers, view.buffer).uri # "" \/ view.buffer = 0

(* Mutant of Rewound: a stream that is open stays where it is.             *)
RewoundNever(buffer) == at[buffer + 1]

(* The stream is opened, or taken back to the beginning.                   *)
Rewound(buffer) == 0
SeekBufferView(view, offset) == Rewound(view.buffer) + offset + view.byteOffset
SeekAccessor(acc) == SeekBufferView(ViewOf(acc), acc.byteOffset)

Elements(buffer, begin, size, n) ==
  [e \in 1..n |-> <<buffer, begin + (e - 1) * size>>]
Fits(buffer, end) == end <= Item(gltf.buffers, buffer).byteLength

(* The elements of an accessor whose view is not interleaved.              *)
Content(acc, size) ==
  Elements(ViewOf(acc).buffer, SeekAccessor(acc), size, acc.count)
EndOf(acc, size) == SeekAccessor(acc) + size * acc.count
Move(acc, end) == at' = [at EXCEPT ![ViewOf(acc).buffer + 1] = end]
Readable(acc, size) ==
  CanSeek(ViewOf(acc)) /\ Fits(ViewOf(acc).buffer, EndOf(acc, size))

-----------------------------------------------------------------------------
LoadInit ==
  /\ todo = <<>>
  /\ coll = <<>>
  /\ at = <<>>
  /\ meshData = <<>>
  /\ animData = <<>>
  /\ load = "idle"

None(list) == [k \in DOMAIN list |-> Absent]

(* loadGLTF, DataLoad::DataLoad and loadContents: the whole file.          *)
Begin ==
  /\ status = "done" /\ load = "idle"
  /\ Valid(gltf)
  /\ load' = "loading"
  /\ coll' = [scenes |-> None(gltf.scenes), nodes |-> None(gltf.nodes),
              parent |-> [k \in DOMAIN gltf.nodes |-> Apart],
              meshes |-> None(gltf.meshes), skins |-> None(gltf.skins),
              textures |-> None(gltf.textures), images |-> None(gltf.images),
              decoded |-> [k \in DOMAIN gltf.images |-> 0],
              materials |-> None(gltf.materials),
              animations |-> None(gltf.animations)]
  /\ at' = [k \in DOMAIN gltf.buffers |-> 0]
  /\ todo' = ForAll("loadScene", Indices(gltf.scenes))
             \o ForAll("loadRest", Indices(gltf.nodes))
             \o ForAll("loadTexture", Indices(gltf.textures))
             \o ForAll("loadMaterial", Indices(gltf.materials))
             \o ForAll("loadMesh", Indices(gltf.meshes))
             \o ForAll("loadSkin", Indices(gltf.skins))
             \o ForAll("loadAnimation", Indices(gltf.animations))
  /\ UNCHANGED <<underway, vars>>

Finish ==
  /\ load = "loading" /\ todo = <<>>
  /\ load' = "loaded"
  /\ UNCHANGED <<todo, coll, at, underway, vars>>

-----------------------------------------------------------------------------
(* Scenes and nodes.                                                       *)

Graphs(into, nodes) ==
  InTurn(ForAll("loadGraph", nodes),
         [k \in DOMAIN nodes |-> DoIn("insert", nodes[k], into)])

LoadScene ==
  /\ Doing("loadScene")
  /\ IF Item(coll.scenes, I) # Absent THEN Skip
     ELSE /\ coll' = [coll EXCEPT !.scenes[I + 1] = [type |-> "scene"]]
          /\ Then(Graphs(<<"scene", I>>, Item(gltf.scenes, I).nodes))
          /\ UNCHANGED <<at, underway>>

(* The nodes that no scene needed.                                         *)
LoadRest ==
  /\ Doing("loadRest")
  /\ IF Item(coll.nodes, I) # Absent THEN Skip
     ELSE Then(<<Do("loadGraph", I)>>) /\ UNCHANGED <<coll, at, underway>>

(* Mutant of LoadGraph: only a node that is created now has children to    *)
(* visit.                                                                  *)
LoadGraphOnce ==
  /\ Doing("loadGraph")
  /\ IF Item(coll.nodes, I) # Absent THEN Skip
     ELSE /\ Then(<<Do("loadNode", I)>>
                  \o Graphs(<<"node", I>>, Item(gltf.nodes, I).children))
          /\ UNCHANGED <<coll, at, underway>>

LoadGraph ==
  /\ Doing("loadGraph")
  /\ Then(<<Do("loadNode", I)>>
          \o Graphs(<<"node", I>>, Item(gltf.nodes, I).children))
  /\ UNCHANGED <<coll, at, underway>>

(* Node::insert: the node leaves the ancestor that it has.                 *)
InsertNode ==
  /\ Doing("insert")
  /\ coll' = [coll EXCEPT !.parent[I + 1] = Head(todo).k]
  /\ Then(<<>>)
  /\ UNCHANGED <<at, underway>>

(* Which nodes are joints is known from the skins, before any is loaded.   *)
IsJoint(n) == \E k \in DOMAIN gltf.skins : Contains(gltf.skins[k].joints, n)

LoadNode ==
  /\ Doing("loadNode")
  /\ LET nd == Item(gltf.nodes, I)
         node == [type |-> IF nd.mesh >= 0 THEN "model"
                           ELSE IF IsJoint(I) THEN "joint" ELSE "node",
                  mesh |-> nd.mesh,
                  skin |-> IF nd.mesh >= 0 THEN nd.skin ELSE -1,
                  transform |-> nd.transform, name |-> nd.name]
     IN  IF Item(coll.nodes, I) # Absent THEN Skip
         ELSE IF nd.mesh >= 0 /\ IsJoint(I) THEN ThrowLoad
         ELSE /\ coll' = [coll EXCEPT !.nodes[I + 1] = node]
              /\ Then((IF node.mesh >= 0
                       THEN <<Do("loadMesh", node.mesh)>> ELSE <<>>)
                      \o IF node.skin >= 0
                         THEN <<Do("loadSkin", node.skin)>> ELSE <<>>)
              /\ UNCHANGED <<at, underway>>

-----------------------------------------------------------------------------
(* Skins.                                                                  *)

MatrixSize == 64

LoadSkin ==
  /\ Doing("loadSkin")
  /\ LET sk == Item(gltf.skins, I)
         bound == sk.inverseBindMatrices >= 0
         acc == Item(gltf.accessors, sk.inverseBindMatrices)
         skin(matrices) ==
           [type |-> "skin", inverseBind |-> matrices,
            joints |-> [k \in DOMAIN sk.joints |-> -1]]
         refused ==
           \/ acc.count = 0 \/ acc.componentType # FloatType
           \/ acc.type # "MAT4" \/ ViewOf(acc).byteStride > 0
           \/ ~Readable(acc, MatrixSize)
           \/ acc.count # Len(sk.joints)   \* Skin::Impl::Impl
         joints == InTurn(ForAll("loadNode", sk.joints),
                          [k \in DOMAIN sk.joints |-> DoNth("setJoint", I, k)])
     IN  IF Item(coll.skins, I) # Absent THEN Skip
         ELSE IF bound /\ refused THEN ThrowLoad
         ELSE /\ coll' = [coll EXCEPT !.skins[I + 1] =
                  skin(IF bound THEN Content(acc, MatrixSize) ELSE <<>>)]
              /\ IF bound THEN Move(acc, EndOf(acc, MatrixSize))
                 ELSE UNCHANGED at
              /\ Then(joints)
              /\ UNCHANGED underway

SetJoint ==
  /\ Doing("setJoint")
  /\ LET k == Head(todo).n
     IN  coll' = [coll EXCEPT !.skins[I + 1].joints[k] =
                    Item(gltf.skins, I).joints[k]]
  /\ Then(<<>>)
  /\ UNCHANGED <<at, underway>>

-----------------------------------------------------------------------------
(* Textures and materials.                                                 *)

WrapModes == {33071, 33648, 10497}
MagFilters == {-1, 9728, 9729}
MinFilters == MagFilters \cup {9984, 9985, 9986, 9987}

SamplerRight(s) ==
  /\ {s.wrapS, s.wrapT} \subseteq WrapModes
  /\ s.magFilter \in MagFilters /\ s.minFilter \in MinFilters

SamplerOf(tex) ==
  IF tex.sampler > -1 THEN Item(gltf.samplers, tex.sampler) ELSE SamplerInit

LoadTexture ==
  /\ Doing("loadTexture")
  /\ LET tex == Item(gltf.textures, I)
     IN  IF Item(coll.textures, I) # Absent THEN Skip
         ELSE IF ~SamplerRight(SamplerOf(tex)) THEN ThrowLoad
         ELSE /\ Then(<<Do("loadImage", tex.source), Do("makeTexture", I)>>)
              /\ UNCHANGED <<coll, at, underway>>

(* Mutant of Decoded: every texture decodes its image.                     *)
DecodedNever(i) == FALSE

Decoded(i) == Item(coll.images, i) # Absent

(* The image is decoded from a buffer or from a file of its own.           *)
LoadImage ==
  /\ Doing("loadImage")
  /\ LET img == Item(gltf.images, I)
         view == Item(gltf.bufferViews, img.bufferView)
         from == IF img.uri # "" THEN [type |-> "file", of |-> img.uri]
                 ELSE [type |-> "view",
                       of |-> <<view.buffer, SeekBufferView(view, 0)>>]
     IN  IF Decoded(I) THEN Skip
         ELSE IF img.uri = "" /\ ~CanSeek(view) THEN ThrowLoad
         ELSE /\ coll' = [coll EXCEPT !.images[I + 1] = from,
                                      !.decoded[I + 1] = @ + 1]
              /\ IF img.uri # "" THEN UNCHANGED at
                 ELSE at' = [at EXCEPT ![view.buffer + 1] =
                               SeekBufferView(view, 0) + view.byteLength]
              /\ Then(<<>>)
              /\ UNCHANGED underway

(* A texture is a copy of its image's, with a sampler of its own.          *)
MakeTexture ==
  /\ Doing("makeTexture")
  /\ LET tex == Item(gltf.textures, I)
     IN  coll' = [coll EXCEPT !.textures[I + 1] =
           [type |-> "texture", image |-> Item(coll.images, tex.source),
            sampler |-> SamplerOf(tex)]]
  /\ Then(<<>>)
  /\ UNCHANGED <<at, underway>>

Infos ==
  <<"baseColor", "metallicRoughness", "normal", "occlusion", "emissive">>

InfoOf(matl, which) ==
  CASE which = "baseColor" -> matl.pbrMetallicRoughness.baseColorTexture
    [] which = "metallicRoughness" ->
         matl.pbrMetallicRoughness.metallicRoughnessTexture
    [] which = "normal" -> matl.normalTexture
    [] which = "occlusion" -> matl.occlusionTexture
    [] which = "emissive" -> matl.emissiveTexture

LoadMaterial ==
  /\ Doing("loadMaterial")
  /\ IF Item(coll.materials, I) # Absent THEN Skip
     ELSE /\ coll' = [coll EXCEPT !.materials[I + 1] =
                       [type |-> "material",
                        textures |-> [w \in ToSet(Infos) |-> Absent],
                        cutoff |-> 0]]
          /\ Then([k \in DOMAIN Infos |-> DoIn("getTexture", I, Infos[k])]
                  \o <<Do("setMaterial", I)>>)
          /\ UNCHANGED <<at, underway>>

GetTexture ==
  /\ Doing("getTexture")
  /\ LET info == InfoOf(Item(gltf.materials, I), Head(todo).k)
     IN  IF info.index < 0 THEN Skip
         ELSE IF info.texCoord \notin {0, 1} THEN ThrowLoad
         ELSE /\ Then(<<Do("loadTexture", info.index),
                        DoIn("setTexture", I, Head(todo).k)>>)
              /\ UNCHANGED <<coll, at, underway>>

SetTexture ==
  /\ Doing("setTexture")
  /\ LET which == Head(todo).k
         info == InfoOf(Item(gltf.materials, I), which)
     IN  coll' = [coll EXCEPT !.materials[I + 1].textures[which] =
           [type |-> "copy", of |-> Item(coll.textures, info.index),
            coordSet |-> info.texCoord]]
  /\ Then(<<>>)
  /\ UNCHANGED <<at, underway>>

SetMaterial ==
  /\ Doing("setMaterial")
  /\ LET matl == Item(gltf.materials, I)
     IN  IF matl.alphaMode \notin {"OPAQUE", "BLEND", "MASK"} THEN ThrowLoad
         ELSE /\ coll' = IF matl.alphaMode # "MASK" THEN coll
                         ELSE [coll EXCEPT !.materials[I + 1].cutoff =
                                Max({matl.alphaCutoff, 0})]
              /\ Then(<<>>)
              /\ UNCHANGED <<at, underway>>

-----------------------------------------------------------------------------
(* Meshes.                                                                 *)

Topologies == {0, 1, 3, 4, 5, 6}  \* no line loops
Semantics ==
  {"POSITION", "NORMAL", "TANGENT", "TEXCOORD_0", "TEXCOORD_1", "COLOR_0",
   "JOINTS_0", "WEIGHTS_0"}

(* getMeshData: the data of each attribute, the indices and the material.  *)
PrimitiveCalls(prim) ==
  [k \in DOMAIN prim.attributes |->
     DoIn("getData", prim.attributes[k][2], prim.attributes[k][1])]
  \o (IF prim.indices >= 0
      THEN <<DoIn("getData", prim.indices, "indices")>> ELSE <<>>)
  \o IF prim.material >= 0
     THEN <<Do("loadMaterial", prim.material),
            Do("copyMaterial", prim.material)>>
     ELSE <<>>

LoadMesh ==
  /\ Doing("loadMesh")
  /\ LET prims == Item(gltf.meshes, I).primitives
     IN  IF Item(coll.meshes, I) # Absent THEN Skip
         ELSE /\ meshData' = [data |-> <<>>, primitives |-> <<>>]
              /\ Then([p \in DOMAIN prims |-> DoNth("newPrimitive", I, p)]
                      \o <<Do("makeMesh", I)>>)
              /\ UNCHANGED <<coll, at, animData>>

NewPrimitive ==
  /\ Doing("newPrimitive")
  /\ LET prim == Item(gltf.meshes, I).primitives[Head(todo).n]
     IN  IF prim.mode \notin Topologies THEN ThrowLoad
         ELSE /\ meshData' = [meshData EXCEPT !.primitives = Append(@,
                            [topology |-> prim.mode, accessors |-> <<>>,
                             material |-> Absent])]
              /\ Then(PrimitiveCalls(prim))
              /\ UNCHANGED <<coll, at, animData>>

(* What the reads of an interleaved accessor leave: each is further by the *)
(* stride times its number than where the last one ended, and all go to    *)
(* the first element.                                                      *)
InterleavedAt(acc, size, e) ==
  SeekAccessor(acc) + (e - 1) * size
  + ViewOf(acc).byteStride * (((e - 1) * e) \div 2)
Zero == <<-1, 0>>
Interleaved(acc, size) ==
  [e \in 1..acc.count |->
     IF e = 1 THEN <<ViewOf(acc).buffer, InterleavedAt(acc, size, acc.count)>>
     ELSE Zero]

GetData ==
  /\ Doing("getData")
  /\ LET acc == Item(gltf.accessors, I)
         size == SizeOfComponentType(acc) * SizeOfType(acc)
         packed == ViewOf(acc).byteStride <= 0
         end == IF packed THEN EndOf(acc, size)
                ELSE InterleavedAt(acc, size, acc.count) + size
         entry == [semantic |-> Head(todo).k, dataIndex |-> Len(meshData.data),
                   dataOffset |-> 0, elementN |-> acc.count,
                   elementSize |-> size]
     IN  IF \/ Head(todo).k \notin Semantics \cup {"indices"}
            \/ ~CanSeek(ViewOf(acc)) \/ ~Fits(ViewOf(acc).buffer, end)
         THEN ThrowLoad
         ELSE /\ meshData' = [meshData EXCEPT
                   !.data = Append(@, IF packed THEN Content(acc, size)
                                      ELSE Interleaved(acc, size)),
                   !.primitives[Len(meshData.primitives)].accessors =
                     Append(@, entry)]
              /\ Move(acc, end)
              /\ Then(<<>>)
              /\ UNCHANGED <<coll, animData>>

CopyMaterial ==
  /\ Doing("copyMaterial")
  /\ meshData' = [meshData EXCEPT
       !.primitives[Len(meshData.primitives)].material =
         Item(coll.materials, I)]
  /\ Then(<<>>)
  /\ UNCHANGED <<coll, at, animData>>

(* Mesh::Impl::Impl.                                                       *)
MakeMesh ==
  /\ Doing("makeMesh")
  /\ IF meshData.data = <<>> \/ meshData.primitives = <<>> THEN ThrowLoad
     ELSE /\ coll' = [coll EXCEPT !.meshes[I + 1] =
                       [type |-> "mesh", data |-> meshData.data,
                        primitives |-> meshData.primitives]]
          /\ meshData' = <<>>
          /\ Then(<<>>)
          /\ UNCHANGED <<at, animData>>

-----------------------------------------------------------------------------
(* Animations.                                                             *)

Paths == [translation |-> "T", rotation |-> "R", scale |-> "S"]
Methods == [STEP |-> "Step", LINEAR |-> "Linear", CUBICSPLINE |-> "Cubic"]
TypeFor == [T |-> "VEC3", R |-> "VEC4", S |-> "VEC3"]
BytesFor == [T |-> 12, R |-> 16, S |-> 12]

LoadAnimation ==
  /\ Doing("loadAnimation")
  /\ LET anim == Item(gltf.animations, I)
     IN  IF Item(coll.animations, I) # Absent THEN Skip
         ELSE /\ animData' =
                   [accMap |-> <<>>, actions |-> <<>>, inputs |-> <<>>,
                    outputs |-> [T |-> <<>>, R |-> <<>>, S |-> <<>>]]
              /\ Then(InTurn([k \in DOMAIN anim.channels |->
                             Do("loadNode", anim.channels[k].target.node)],
                          [k \in DOMAIN anim.channels |->
                             DoNth("newAction", I, k)])
                      \o <<Do("makeAnimation", I)>>)
              /\ UNCHANGED <<coll, at, meshData>>

(* Where an accessor's data was put, if it was read already.               *)
Known(accMap, acc) == \E k \in DOMAIN accMap : accMap[k][1] = acc
IndexOf(accMap, acc) ==
  accMap[CHOOSE k \in DOMAIN accMap :
           /\ accMap[k][1] = acc
           /\ \A j \in 1..(k - 1) : accMap[j][1] # acc][2]

(* The loop's body for one channel: its input, then its output.            *)
NewAction ==
  /\ Doing("newAction")
  /\ LET ch == Item(gltf.animations, I).channels[Head(todo).n]
         sampler == Item(Item(gltf.animations, I).samplers, ch.sampler)
         in == Item(gltf.accessors, sampler.input)
         out == Item(gltf.accessors, sampler.output)
         type == Paths[ch.target.path]
         newIn == ~Known(animData.accMap, sampler.input)
         mapIn == IF ~newIn THEN animData.accMap
                  ELSE Append(animData.accMap,
                              <<sampler.input, Len(animData.inputs)>>)
         newOut == ~Known(mapIn, sampler.output)
         mapOut == IF ~newOut THEN mapIn
                   ELSE Append(mapIn,
                               <<sampler.output, Len(animData.outputs[type])>>)
         refused ==
           \/ ch.target.path \notin DOMAIN Paths
           \/ sampler.interpolation \notin DOMAIN Methods
           \/ newIn /\ \/ in.count = 0 \/ in.componentType # FloatType
                       \/ in.type # "SCALAR" \/ ViewOf(in).byteStride > 0
                       \/ ~Readable(in, 4)
           \/ newOut /\ \/ out.count = 0 \/ out.componentType # FloatType
                        \/ out.type # TypeFor[type]
                        \/ ViewOf(out).byteStride > 0
                        \/ ~Readable(out, BytesFor[type])
         action ==
           [target |-> ch.target.node, type |-> type,
            method |-> Methods[sampler.interpolation],
            input |-> IndexOf(mapOut, sampler.input),
            output |-> IndexOf(mapOut, sampler.output)]
     IN  IF refused THEN ThrowLoad
         ELSE /\ animData' = [accMap |-> mapOut,
                   actions |-> Append(animData.actions, action),
                   inputs |-> IF ~newIn THEN animData.inputs
                              ELSE Append(animData.inputs, Content(in, 4)),
                   outputs |-> IF newOut
                               THEN [animData.outputs EXCEPT ![type] =
                                       Append(@, Content(out, BytesFor[type]))]
                               ELSE animData.outputs]
              /\ at' = [k \in DOMAIN at |->
                          IF newOut /\ k = ViewOf(out).buffer + 1
                          THEN EndOf(out, BytesFor[type])
                          ELSE IF newIn /\ k = ViewOf(in).buffer + 1
                          THEN EndOf(in, 4) ELSE at[k]]
              /\ Then(<<>>)
              /\ UNCHANGED <<coll, meshData>>

(* Animation::Animation.                                                   *)
MakeAnimation ==
  /\ Doing("makeAnimation")
  /\ IF \/ animData.inputs = <<>>
        \/ \A t \in DOMAIN animData.outputs : animData.outputs[t] = <<>>
     THEN ThrowLoad
     ELSE /\ coll' = [coll EXCEPT !.animations[I + 1] =
                       [type |-> "animation", actions |-> animData.actions,
                        inputs |-> animData.inputs,
                        outputs |-> animData.outputs]]
          /\ animData' = <<>>
          /\ Then(<<>>)
          /\ UNCHANGED <<at, meshData>>

-----------------------------------------------------------------------------
ReadSymbol == Read /\ UNCHANGED loadVars

Next ==
  \/ ReadSymbol \/ Begin \/ Finish
  \/ LoadScene \/ LoadRest \/ LoadGraph \/ InsertNode \/ LoadNode
  \/ LoadSkin \/ SetJoint
  \/ LoadTexture \/ LoadImage \/ MakeTexture
  \/ LoadMaterial \/ GetTexture \/ SetTexture \/ SetMaterial
  \/ LoadMesh \/ NewPrimitive \/ GetData \/ CopyMaterial \/ MakeMesh
  \/ LoadAnimation \/ NewAction \/ MakeAnimation

allVars == <<vars, loadVars>>
LoaderInit == Init /\ LoadInit
Spec == LoaderInit /\ [][Next]_allVars /\ WF_allVars(Next)
-----------------------------------------------------------------------------
(* Properties.                                                             *)

FileAncestors(n) ==
  {<<"node", p>> : p \in {p \in ToSet(Indices(gltf.nodes)) :
                            n \in ChildrenOf(gltf, p)}}
  \cup {<<"scene", s>> : s \in {s \in ToSet(Indices(gltf.scenes)) :
                            Contains(Item(gltf.scenes, s).nodes, n)}}

Reference(acc, size, stride) ==
  [e \in 1..acc.count |->
     <<ViewOf(acc).buffer,
       ViewOf(acc).byteOffset + acc.byteOffset + (e - 1) * stride>>]

(* DataLoad::loadContents: the nodes have the ancestors that they have in  *)
(* the file, and are the joints, models or plain nodes that it makes them; *)
(* what a skin takes for joints, by a static_cast, are joints.             *)
GraphLoaded ==
  load = "loaded" =>
    /\ \A n \in ToSet(Indices(gltf.nodes)) :
         /\ Item(coll.nodes, n) # Absent
         /\ Item(coll.nodes, n).type =
              IF Item(gltf.nodes, n).mesh >= 0 THEN "model"
              ELSE IF \E k \in DOMAIN gltf.skins :
                        n \in ToSet(gltf.skins[k].joints)
              THEN "joint" ELSE "node"
         /\ IF FileAncestors(n) = {} THEN Item(coll.parent, n) = Apart
            ELSE Item(coll.parent, n) \in FileAncestors(n)
    /\ \A k \in DOMAIN gltf.skins :
         /\ coll.skins[k].joints = gltf.skins[k].joints
         /\ \A j \in DOMAIN gltf.skins[k].joints :
              Item(coll.nodes, coll.skins[k].joints[j]).type = "joint"

(* DataLoad::getMeshData, loadSkin and loadAnimation: what was read from   *)
(* the buffers is what the accessors select, and is found where the mesh,  *)
(* the skin or the animation says, although all reads share the streams.   *)
EntriesRight(mesh, prim, loaded) ==
  /\ \A k \in DOMAIN loaded.accessors :
       LET entry == loaded.accessors[k]
           acc == Item(gltf.accessors,
                       IF k \in DOMAIN prim.attributes
                       THEN prim.attributes[k][2] ELSE prim.indices)
           size == SizeOfComponentType(acc) * SizeOfType(acc)
       IN  /\ entry.elementN = acc.count /\ entry.elementSize = size
           /\ Item(mesh.data, entry.dataIndex) =
                Reference(acc, size, IF ViewOf(acc).byteStride > 0
                                     THEN ViewOf(acc).byteStride ELSE size)
           /\ entry.semantic = IF k \in DOMAIN prim.attributes
                               THEN prim.attributes[k][1] ELSE "indices"
  /\ Len(loaded.accessors) =
       Len(prim.attributes) + IF prim.indices >= 0 THEN 1 ELSE 0
  /\ loaded.material = IF prim.material < 0 THEN Absent
                       ELSE Item(coll.materials, prim.material)

ActionRight(anim, loaded, k) ==
  LET ch == anim.channels[k]
      sampler == Item(anim.samplers, ch.sampler)
      action == loaded.actions[k]
      out == Item(gltf.accessors, sampler.output)
      size == SizeOfComponentType(out) * SizeOfType(out)
  IN  /\ action.target = ch.target.node
      /\ action.type = Paths[ch.target.path]
      /\ Item(loaded.inputs, action.input) =
           Reference(Item(gltf.accessors, sampler.input), 4, 4)
      /\ Refers(action.output, loaded.outputs[action.type])
      /\ Item(loaded.outputs[action.type], action.output) =
           Reference(out, size, size)

DataLoaded ==
  load = "loaded" =>
    /\ \A m \in DOMAIN gltf.meshes :
       \A p \in DOMAIN gltf.meshes[m].primitives :
         EntriesRight(coll.meshes[m], gltf.meshes[m].primitives[p],
                      coll.meshes[m].primitives[p])
    /\ \A k \in DOMAIN gltf.skins :
         coll.skins[k].inverseBind =
           IF gltf.skins[k].inverseBindMatrices < 0 THEN <<>>
           ELSE LET acc == Item(gltf.accessors,
                                gltf.skins[k].inverseBindMatrices)
                IN  Reference(acc, 64, 64)
    /\ \A a \in DOMAIN gltf.animations :
         \A k \in DOMAIN gltf.animations[a].channels :
           ActionRight(gltf.animations[a], coll.animations[a], k)

(* DataLoad::loadImage, loadTexture and loadMaterial: no image is decoded  *)
(* twice, however many textures and materials share it and whichever of    *)
(* them comes first, and all of them have the image and the set of texture *)
(* coordinates that the file gives them.                                   *)
ImagesShared ==
  /\ load = "loading" => \A k \in DOMAIN coll.decoded : coll.decoded[k] <= 1
  /\ load = "loaded" =>
       /\ \A t \in DOMAIN gltf.textures :
            coll.textures[t].image = Item(coll.images, gltf.textures[t].source)
       /\ \A m \in DOMAIN gltf.materials, w \in ToSet(Infos) :
            LET info == InfoOf(gltf.materials[m], w)
                copy == coll.materials[m].textures[w]
            IN  IF info.index < 0 THEN copy = Absent
                ELSE /\ copy.of = Item(coll.textures, info.index)
                     /\ copy.coordSet = info.texCoord

(* loadGLTF returns or throws, wherever its file ends between symbols or   *)
(* within a string, and whatever is wrong in it.  Where it ends within a   *)
(* number or a literal the call does not end (Symbol::next).               *)
LoadEnds == <>(\/ status = "thrown" \/ load \in {"loaded", "thrown"}
               \/ status = "done" /\ ~Valid(gltf)
               \/ status = "endless")
=============================================================================
