------------------------------ MODULE MCGltf ------------------------------
(***************************************************************************)
(* Two sorts of files.  Fragments: for every kind of object of the format, *)
(* wherever it nests, one that gives up to two of its properties, in       *)
(* either order, known ones or not, the unknown ones with values that use  *)
(* known names and every sort of nesting.  And files that are complete,    *)
(* whose objects share what they refer to.                                 *)
(***************************************************************************)
EXTENDS Playback, GltfDocument

N(n) == Number(2 * n)
Ns(list) == JArray([k \in DOMAIN list |-> N(list[k])])
S(s) == String(s)
A(items) == JArray(items)
O(members) == JObject(members)
File(members) == O(members)
P(name, j) == <<name, j>>

-----------------------------------------------------------------------------
(* Fragments.                                                              *)

Empty == O(<<>>)
Unknown ==
  {Nothing, N(7), S("nodes"), Escaped, A(<<>>), Empty,
   O(<<P("name", O(<<P("nodes", A(<<Empty, N(1)>>))>>)), P("mesh", N(8))>>),
   A(<<O(<<P("count", A(<<A(<<>>), Boolean(TRUE)>>))>>), S("}"), Empty>>)}

Pair(k) == O(<<P("POSITION", N(k)), P("JOINTS_0", N(k + 4))>>)
LenFor(name) == IF name \in DOMAIN Sizes THEN Sizes[name] ELSE 2

(* A value for a property; k tells one from another.                       *)
Sample(name, field, k) ==
  CASE field.reader = "number" -> Number(IF field.float THEN 2 * k + 1 ELSE 2 * k)
    [] field.reader = "numbers" -> Ns([i \in 1..LenFor(name) |-> i + k])
    [] field.reader = "str" -> S(IF k = 1 THEN "name" ELSE "]")
    [] field.reader = "bool" -> Boolean(TRUE)
    [] field.reader = "object" ->
         IF field.kind = "Dictionary" THEN Pair(k) ELSE Empty
    [] field.reader = "objects" ->
         IF field.kind = "Dictionary" THEN A(<<Pair(k), Pair(k + 1)>>)
         ELSE A(<<Empty, Empty>>)

Items(kind, k) ==
  {<<name, Sample(name, Fields[kind][name], k)>> : name \in DOMAIN Fields[kind]}
  \cup {P("extras", u) : u \in Unknown}
  \cup IF kind # "Node" THEN {}
       ELSE {P("translation", Ns(<<1, 2>>)), P("scale", Ns(<<1, 2, 3, 4>>))}

Contents(kind) ==
  {Empty}
  \cup {O(<<a>>) : a \in Items(kind, 1)}
  \cup {O(<<a, b>>) : <<a, b>> \in
          {ab \in Items(kind, 1) \X Items(kind, 2) : ab[1][1] # ab[2][1]}}

(* The files that have such an object wherever it may be, the array that   *)
(* it is an element of going on with another.                              *)
RECURSIVE Within(_, _)
Within(kind, j) ==
  IF kind = "File" THEN {j}
  ELSE UNION {UNION {
         LET field == Fields[outer][name]
         IN  IF field.reader = "object" /\ field.kind = kind
             THEN Within(outer, O(<<<<name, j>>>>))
             ELSE IF field.reader = "objects" /\ field.kind = kind
             THEN Within(outer, O(<<<<name, A(<<j, Empty>>)>>>>))
             ELSE {} : name \in DOMAIN Fields[outer]} : outer \in Kinds}

Fragments ==
  UNION {UNION {Within(kind, j) : j \in Contents(kind)} : kind \in Kinds}

-----------------------------------------------------------------------------
(* Complete files: one buffer that is embedded and one that is not, with   *)
(* views that begin at different places, and accessors that begin at       *)
(* others in them.                                                         *)

Buffers ==
  P("buffers", A(<<O(<<P("byteLength", N(5000))>>),
                   O(<<P("uri", S("b.bin")), P("byteLength", N(5000))>>)>>))
View(buffer, offset) ==
  O(<<P("buffer", N(buffer)), P("byteOffset", N(offset)),
      P("byteLength", N(400))>>)
Views == P("bufferViews", A(<<View(0, 0), View(1, 8), View(1, 300)>>))
Acc(view, offset, type, component, count) ==
  O(<<P("bufferView", N(view)), P("componentType", N(component)),
      P("count", N(count)), P("type", S(type)), P("byteOffset", N(offset))>>)
Accessors ==
  P("accessors", A(<<
      Acc(0, 0, "VEC3", 5126, 3),      \* 0: positions
      Acc(1, 36, "VEC2", 5126, 3),     \* 1: texture coordinates
      Acc(1, 0, "SCALAR", 5123, 3),    \* 2: indices
      Acc(2, 0, "MAT4", 5126, 2),      \* 3: inverse-bind matrices
      Acc(0, 40, "SCALAR", 5126, 5),   \* 4: times
      Acc(2, 128, "VEC3", 5126, 5),    \* 5: translations
      Acc(2, 188, "VEC4", 5126, 5),    \* 6: rotations
      Acc(1, 60, "VEC3", 5126, 5),     \* 7: scales
      Acc(0, 60, "SCALAR", 5126, 3),   \* 8: other times
      Acc(1, 120, "VEC3", 5126, 3)>>)) \* 9: translations
Data == <<Buffers, Views, Accessors>>

Images ==
  P("images", A(<<O(<<P("uri", S("a.png"))>>),
                  O(<<P("bufferView", N(1)), P("mimeType", S("image/png"))>>)>>))
Samplers ==
  P("samplers", A(<<O(<<P("wrapS", N(33071)), P("magFilter", N(9729)),
                      P("minFilter", N(9985))>>)>>))
Tex(source, more) == O(<<P("source", N(source))>> \o more)
Textures ==
  P("textures", A(<<Tex(1, <<>>), Tex(0, <<P("sampler", N(0))>>), Tex(1, <<>>)>>))
Info(i, set) == O(<<P("index", N(i)), P("texCoord", N(set))>>)
Materials(mode, set) ==
  P("materials", A(<<
      O(<<P("alphaMode", S(mode)), P("normalTexture", Info(2, set)),
          P("pbrMetallicRoughness",
            O(<<P("baseColorTexture", Info(1, 1)),
                P("metallicRoughnessTexture", Info(2, 0))>>))>>),
      O(<<P("emissiveTexture", Info(0, 0)),
          P("occlusionTexture", Info(1, 1))>>)>>))
Look(mode, set) == <<Textures, Images, Samplers, Materials(mode, set)>>

Prim(atts, more) == O(<<P("attributes", O(atts))>> \o more)
Position == P("POSITION", N(0))
Meshes(atts, more) ==
  P("meshes", A(<<
      O(<<P("primitives",
            A(<<Prim(<<Position, P("TEXCOORD_0", N(1))>>,
                     <<P("indices", N(2)), P("material", N(1))>>),
                Prim(<<Position>>, <<P("material", N(0))>>)>>))>>),
      O(<<P("primitives", A(<<Prim(atts, more)>>))>>)>>))

Skins(joints) ==
  P("skins", A(<<O(<<P("joints", Ns(joints)), P("inverseBindMatrices", N(3))>>)>>))

Plain == Empty
Parent(children) == O(<<P("children", Ns(children))>>)
Meshed(mesh, more) == O(<<P("mesh", N(mesh))>> \o more)
Skinned(children) ==
  O(<<P("skin", N(0)), P("children", Ns(children)), P("mesh", N(0))>>)
Nodes(list) == P("nodes", A(list))
Scenes(lists) ==
  P("scenes", A([k \in DOMAIN lists |-> O(<<P("nodes", Ns(lists[k]))>>)]))

Chan(sampler, node, path) ==
  O(<<P("sampler", N(sampler)),
      P("target", O(<<P("path", S(path)), P("node", N(node))>>))>>)
Sampling(input, output, how) ==
  O(<<P("input", N(input)), P("output", N(output)), P("interpolation", S(how))>>)
Animations(how) ==
  P("animations", A(<<
      O(<<P("channels", A(<<Chan(1, 1, "rotation"), Chan(0, 2, "translation"),
                            Chan(2, 1, "scale"), Chan(0, 3, "translation")>>)),
          P("samplers", A(<<Sampling(4, 5, "LINEAR"), Sampling(4, 6, how),
                            Sampling(4, 7, "STEP")>>))>>),
      O(<<P("samplers", A(<<Sampling(8, 9, "STEP")>>)),
          P("channels", A(<<Chan(0, 2, "translation")>>))>>)>>))

Opaque == Look("MASK", 0)
Second == <<P("NORMAL", N(0))>>
Rigged(nodes, scenes) ==
  File(<<scenes, Nodes(nodes), Skins(<<1, 2>>), Meshes(Second, <<>>)>>
       \o Opaque \o Data)

(* The mesh comes before the joints of its skin or among their descendants,*)
(* in one scene or in two; and what only the rest of the loading finds.    *)
Complete ==
  {Rigged(<<Skinned(<<3>>), Parent(<<2>>), Plain, Plain>>, Scenes(<<<<0, 1>>>>)),
   Rigged(<<Skinned(<<>>), Parent(<<2, 3>>), Parent(<<0>>), Plain>>,
          Scenes(<<<<1>>, <<>>>>)),
   Rigged(<<Skinned(<<>>), Plain, Parent(<<3>>), Meshed(1, <<>>)>>,
          Scenes(<<<<2>>, <<0, 1>>>>)),
   Rigged(<<Plain, Plain, Plain, Parent(<<0, 1>>)>>, Scenes(<<<<2>>>>)),
   File(Data \o <<Nodes(<<Parent(<<3>>), Plain, Plain, Plain>>),
                  Animations("CUBICSPLINE"), Scenes(<<<<2, 0>>>>)>>),
   File(Data \o <<Nodes(<<Meshed(0, <<>>), Plain, Parent(<<3>>), Plain>>),
                  Meshes(Second, <<P("mode", N(6))>>), Animations("STEP")>>
        \o Opaque),
   File(Opaque \o Data),
   File(<<Nodes(<<Plain, Parent(<<0>>)>>)>>)}

(* What the loader does not support.                                       *)
Refused ==
  {Rigged(<<Skinned(<<>>), Meshed(1, <<>>), Plain, Plain>>, Scenes(<<<<0>>>>)),
   File(Look("BLUR", 0) \o Data), File(Look("BLEND", 2) \o Data),
   File(<<Nodes(<<Plain, Plain, Plain, Plain>>), Animations("CUBIC")>> \o Data),
   File(<<Meshes(<<P("_DENSITY", N(0))>>, <<>>)>> \o Opaque \o Data),
   File(<<Meshes(Second, <<P("mode", N(2))>>)>> \o Opaque \o Data),
   File(<<Skins(<<0>>), Nodes(<<Plain>>)>> \o Data)}

(* Nothing in a scene: the joints of a skin are created before the nodes   *)
(* they descend from are visited.                                          *)
Library ==
  {Rigged(<<Skinned(<<>>), Parent(<<2>>), Parent(<<3>>), Plain>>, Scenes(<<>>))}

MCDocuments == Fragments \cup Complete \cup Refused
MCSupported == Complete

(* The times of the one timeline and of the other.                         *)
Times == [k \in 40..68 |->
  CASE k = 40 -> 1 [] k = 44 -> 3 [] k = 48 -> 6 [] k = 52 -> 8 [] k = 56 -> 11
    [] k = 60 -> 2 [] k = 64 -> 5 [] k = 68 -> 7 [] OTHER -> 0]
MCTimeOf(bytes) == Times[bytes[2]]
=============================================================================
