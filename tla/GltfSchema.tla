---------------------------- MODULE GltfSchema ----------------------------
(***************************************************************************)
(* What the glTF reader of sg/src/DataGLTF.cxx keeps of a file.  Every     *)
(* kind of object of the format has a handler in the parser and a          *)
(* structure that the handler fills: here, one table each.                 *)
(*                                                                         *)
(*   XFields   the properties that the handler of X knows, and what it     *)
(*             calls for each of them; any other property is consumed      *)
(*   XInit     what the members of the structure of X start as             *)
(*                                                                         *)
(* The numbers of a file, and the members of a floating-point type, are    *)
(* counted in halves; the members of an integer type are integers.         *)
(***************************************************************************)
EXTENDS Integers, Sequences

One == 2
Half == 1
Unset == -1         \* of an integer that the file does not give
UnsetFloat == -One  \* of a floating-point number that it does not give

-----------------------------------------------------------------------------
(* The symbols that the reader has of a file.                              *)

Op(c) == [type |-> "Op", tok |-> c]
StrOf(s) == [type |-> "Str", tok |-> s]
BoolOf(b) == [type |-> "Bool", bool |-> b]
NumOf(n) == [type |-> "Num", num |-> n]
Null == [type |-> "Null"]
End == [type |-> "End"]
Err == [type |-> "Err"]

Symbols ==
  [type : {"Op", "Str"}, tok : STRING] \cup [type : {"Bool"}, bool : BOOLEAN]
  \cup [type : {"Num"}, num : Int] \cup {Null, Err}

-----------------------------------------------------------------------------
(* What a handler calls for a property.                                    *)

Int32 == [reader |-> "number", float |-> FALSE]
Int64 == [reader |-> "number", float |-> FALSE]
Float == [reader |-> "number", float |-> TRUE]
Str == [reader |-> "str"]
Bool == [reader |-> "bool"]
Ints == [reader |-> "numbers", float |-> FALSE, clear |-> FALSE]
Floats == [reader |-> "numbers", float |-> TRUE, clear |-> FALSE]
(* Mutant of Factor: the factors it starts as are not cleared.             *)
FactorAdded == Floats
Factor == [reader |-> "numbers", float |-> TRUE, clear |-> TRUE]
Object(kind) == [reader |-> "object", kind |-> kind]
Array(kind) == [reader |-> "objects", kind |-> kind]
Dict == [reader |-> "object", kind |-> "Dictionary"]
DictArray == [reader |-> "objects", kind |-> "Dictionary"]

-----------------------------------------------------------------------------
(* What the handlers know.                                                 *)

FileFields ==
  [scene |-> Int32, scenes |-> Array("Scene"), nodes |-> Array("Node"),
   meshes |-> Array("Mesh"), skins |-> Array("Skin"),
   materials |-> Array("Material"), textures |-> Array("Texture"),
   samplers |-> Array("Sampler"), images |-> Array("Image"),
   cameras |-> Array("Camera"), animations |-> Array("Animation"),
   accessors |-> Array("Accessor"), bufferViews |-> Array("BufferView"),
   buffers |-> Array("Buffer"), asset |-> Object("Asset")]

SceneFields == [nodes |-> Ints, name |-> Str]

NodeFields ==
  [children |-> Ints, camera |-> Int32, mesh |-> Int32, skin |-> Int32,
   weights |-> Floats, translation |-> Floats, rotation |-> Floats,
   scale |-> Floats, matrix |-> Floats, name |-> Str]

MeshFields ==
  [primitives |-> Array("Primitive"), weights |-> Floats, name |-> Str]

PrimitiveFields ==
  [attributes |-> Dict, indices |-> Int32, mode |-> Int32, material |-> Int32,
   targets |-> DictArray]

SkinFields ==
  [inverseBindMatrices |-> Int32, skeleton |-> Int32, joints |-> Ints,
   name |-> Str]

MaterialFields ==
  [pbrMetallicRoughness |-> Object("PbrMetallicRoughness"),
   normalTexture |-> Object("NormalTexture"),
   occlusionTexture |-> Object("OcclusionTexture"),
   emissiveTexture |-> Object("TextureInfo"), emissiveFactor |-> Factor,
   alphaMode |-> Str, alphaCutoff |-> Float, doubleSided |-> Bool,
   name |-> Str]

TextureInfoFields == [index |-> Int32, texCoord |-> Int32]

PbrMetallicRoughnessFields ==
  [baseColorTexture |-> Object("TextureInfo"), baseColorFactor |-> Factor,
   metallicRoughnessTexture |-> Object("TextureInfo"),
   metallicFactor |-> Float, roughnessFactor |-> Float]

NormalTextureFields == [index |-> Int32, texCoord |-> Int32, scale |-> Float]

OcclusionTextureFields ==
  [index |-> Int32, texCoord |-> Int32, strength |-> Float]

TextureFields == [sampler |-> Int32, source |-> Int32, name |-> Str]

SamplerFields ==
  [wrapS |-> Int32, wrapT |-> Int32, magFilter |-> Int32, minFilter |-> Int32,
   name |-> Str]

ImageFields ==
  [uri |-> Str, mimeType |-> Str, bufferView |-> Int32, name |-> Str]

CameraFields ==
  [type |-> Str, perspective |-> Object("Perspective"),
   orthographic |-> Object("Orthographic"), name |-> Str]

PerspectiveFields ==
  [aspectRatio |-> Float, yfov |-> Float, zfar |-> Float, znear |-> Float]

OrthographicFields ==
  [xmag |-> Float, ymag |-> Float, zfar |-> Float, znear |-> Float]

AnimationFields ==
  [channels |-> Array("Channel"), samplers |-> Array("AnimationSampler"),
   name |-> Str]

ChannelFields == [sampler |-> Int32, target |-> Object("Target")]

TargetFields == [node |-> Int32, path |-> Str]

AnimationSamplerFields ==
  [input |-> Int32, interpolation |-> Str, output |-> Int32]

AccessorFields ==
  [bufferView |-> Int32, byteOffset |-> Int64, componentType |-> Int32,
   normalized |-> Bool, count |-> Int32, type |-> Str,
   min |-> Floats, max |-> Floats, sparse |-> Object("Sparse"), name |-> Str]

SparseFields ==
  [count |-> Int32, indices |-> Object("SparseIndices"),
   values |-> Object("SparseValues")]

SparseIndicesFields ==
  [bufferView |-> Int32, byteOffset |-> Int64, componentType |-> Int32]

SparseValuesFields == [bufferView |-> Int32, byteOffset |-> Int64]

BufferViewFields ==
  [buffer |-> Int32, byteOffset |-> Int64, byteLength |-> Int64,
   byteStride |-> Int32, target |-> Int32, name |-> Str]

BufferFields == [uri |-> Str, byteLength |-> Int64, name |-> Str]

AssetFields ==
  [copyright |-> Str, generator |-> Str, version |-> Str, minVersion |-> Str]

Fields ==
  [File |-> FileFields, Scene |-> SceneFields, Node |-> NodeFields,
   Mesh |-> MeshFields, Primitive |-> PrimitiveFields, Skin |-> SkinFields,
   Material |-> MaterialFields, TextureInfo |-> TextureInfoFields,
   PbrMetallicRoughness |-> PbrMetallicRoughnessFields,
   NormalTexture |-> NormalTextureFields,
   OcclusionTexture |-> OcclusionTextureFields, Texture |-> TextureFields,
   Sampler |-> SamplerFields, Image |-> ImageFields, Camera |-> CameraFields,
   Perspective |-> PerspectiveFields, Orthographic |-> OrthographicFields,
   Animation |-> AnimationFields, Channel |-> ChannelFields,
   Target |-> TargetFields, AnimationSampler |-> AnimationSamplerFields,
   Accessor |-> AccessorFields, Sparse |-> SparseFields,
   SparseIndices |-> SparseIndicesFields, SparseValues |-> SparseValuesFields,
   BufferView |-> BufferViewFields, Buffer |-> BufferFields,
   Asset |-> AssetFields]

Kinds == DOMAIN Fields
Knows(kind, name) == name \in DOMAIN Fields[kind]

-----------------------------------------------------------------------------
(* What the structures start as.                                           *)

SceneInit == [nodes |-> <<>>, name |-> ""]

(* Translation, rotation and scale, or a matrix: its length tells which.   *)
IdentityTRS == <<0, 0, 0, 0, 0, 0, One, One, One, One>>

(* The last four are locals of the handler.                                *)
NodeInit ==
  [transform |-> IdentityTRS, children |-> <<>>, camera |-> Unset,
   mesh |-> Unset, skin |-> Unset, weights |-> <<>>, name |-> "",
   translation |-> <<>>, rotation |-> <<>>, scale |-> <<>>, matrix |-> <<>>]

MeshInit == [primitives |-> <<>>, weights |-> <<>>, name |-> ""]

Triangles == 4

PrimitiveInit ==
  [attributes |-> <<>>, indices |-> Unset, mode |-> Triangles,
   material |-> Unset, targets |-> <<>>]

SkinInit ==
  [inverseBindMatrices |-> Unset, skeleton |-> Unset, joints |-> <<>>,
   name |-> ""]

TextureInfoInit == [index |-> Unset, texCoord |-> 0]

PbrMetallicRoughnessInit ==
  [baseColorTexture |-> TextureInfoInit,
   baseColorFactor |-> <<One, One, One, One>>,
   metallicRoughnessTexture |-> TextureInfoInit,
   metallicFactor |-> One, roughnessFactor |-> One]

NormalTextureInit == [index |-> Unset, texCoord |-> 0, scale |-> One]

OcclusionTextureInit == [index |-> Unset, texCoord |-> 0, strength |-> One]

MaterialInit ==
  [pbrMetallicRoughness |-> PbrMetallicRoughnessInit,
   normalTexture |-> NormalTextureInit,
   occlusionTexture |-> OcclusionTextureInit,
   emissiveTexture |-> TextureInfoInit, emissiveFactor |-> <<0, 0, 0>>,
   alphaMode |-> "OPAQUE", alphaCutoff |-> Half, doubleSided |-> FALSE,
   name |-> ""]

TextureInit == [sampler |-> Unset, source |-> Unset, name |-> ""]

Repeat == 10497

SamplerInit ==
  [wrapS |-> Repeat, wrapT |-> Repeat,
   magFilter |-> Unset, minFilter |-> Unset, name |-> ""]

ImageInit == [uri |-> "", mimeType |-> "", bufferView |-> Unset, name |-> ""]

(* A union: what is read as one projection is stored over the other.       *)
LensInit == <<UnsetFloat, UnsetFloat, UnsetFloat, UnsetFloat>>
LensSlot ==
  [aspectRatio |-> 1, yfov |-> 2, xmag |-> 1, ymag |-> 2,
   zfar |-> 3, znear |-> 4]
Projections == {"perspective", "orthographic"}

CameraInit == [type |-> "", lens |-> LensInit, name |-> ""]

TargetInit == [node |-> Unset, path |-> ""]
ChannelInit == [sampler |-> Unset, target |-> TargetInit]
AnimationSamplerInit ==
  [input |-> Unset, interpolation |-> "", output |-> Unset]
AnimationInit == [channels |-> <<>>, samplers |-> <<>>, name |-> ""]

SparseIndicesInit ==
  [bufferView |-> Unset, byteOffset |-> 0, componentType |-> Unset]
SparseValuesInit == [bufferView |-> Unset, byteOffset |-> 0]
SparseInit ==
  [count |-> Unset, indices |-> SparseIndicesInit, values |-> SparseValuesInit]

AccessorInit ==
  [bufferView |-> Unset, byteOffset |-> 0, componentType |-> Unset,
   normalized |-> FALSE, count |-> Unset, type |-> "", min |-> <<>>,
   max |-> <<>>, sparse |-> SparseInit, name |-> ""]

BufferViewInit ==
  [buffer |-> Unset, byteOffset |-> 0, byteLength |-> Unset,
   byteStride |-> Unset, target |-> Unset, name |-> ""]

BufferInit == [uri |-> "", byteLength |-> Unset, name |-> ""]

AssetInit ==
  [copyright |-> "", generator |-> "", version |-> "", minVersion |-> ""]

(* What the reader has of a file before it reads it.                       *)
FileInit ==
  [scene |-> Unset, scenes |-> <<>>, nodes |-> <<>>, meshes |-> <<>>,
   skins |-> <<>>, materials |-> <<>>, textures |-> <<>>, samplers |-> <<>>,
   images |-> <<>>, cameras |-> <<>>, animations |-> <<>>, accessors |-> <<>>,
   bufferViews |-> <<>>, buffers |-> <<>>, asset |-> AssetInit]

(* What is appended to a list when an object of it begins.                 *)
ElementInit ==
  [Scene |-> SceneInit, Node |-> NodeInit, Mesh |-> MeshInit,
   Primitive |-> PrimitiveInit, Skin |-> SkinInit, Material |-> MaterialInit,
   Texture |-> TextureInit, Sampler |-> SamplerInit, Image |-> ImageInit,
   Camera |-> CameraInit, Animation |-> AnimationInit, Channel |-> ChannelInit,
   AnimationSampler |-> AnimationSamplerInit, Accessor |-> AccessorInit,
   BufferView |-> BufferViewInit, Buffer |-> BufferInit, Dictionary |-> <<>>]

-----------------------------------------------------------------------------
(* The member that holds a property of an object.                          *)
Place(kind, name) ==
  CASE name \in Projections /\ kind = "Camera" -> "lens"
    [] kind \in {"Perspective", "Orthographic"} -> LensSlot[name]
    [] OTHER -> name

(* Mutant of SizesRight: the rotation is compared again, not the scale.    *)
SizesRightCopied(node) ==
  IF node.matrix # <<>> THEN Len(node.matrix) = 16
  ELSE /\ Len(node.translation) \in {0, 3}
       /\ Len(node.rotation) \in {0, 4}
       /\ Len(node.rotation) \in {0, 4}

(* The end of a node: its arrays become its transform, unless their sizes  *)
(* are wrong.                                                              *)
SizesRight(node) ==
  IF node.matrix # <<>> THEN Len(node.matrix) = 16
  ELSE /\ Len(node.translation) \in {0, 3}
       /\ Len(node.rotation) \in {0, 4}
       /\ Len(node.scale) \in {0, 3}

Given(array, initially) == IF array = <<>> THEN initially ELSE array

TransformOf(node) ==
  IF node.matrix # <<>> THEN node.matrix
  ELSE Given(node.translation, SubSeq(IdentityTRS, 1, 3))
       \o Given(node.rotation, SubSeq(IdentityTRS, 4, 7))
       \o Given(node.scale, SubSeq(IdentityTRS, 8, 10))
=============================================================================
