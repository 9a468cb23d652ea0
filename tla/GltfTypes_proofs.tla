-------------------------- MODULE GltfTypes_proofs --------------------------
(***************************************************************************)
(* Lemmas about the reading of glTF files: whatever the symbols are, what  *)
(* the parser stores has the types of the structures of the file, and what *)
(* the loader has to do and what it made are of the file's elements.       *)
(***************************************************************************)
EXTENDS GltfLoader, Numbers_proofs, SequenceTheorems

-----------------------------------------------------------------------------
(* The parser's types: what the structures may hold.                       *)

(* Strings: the prover does not know that the ones that are written out    *)
(* are some.                                                               *)
Strings == STRING \cup {"", "OPAQUE"}

PairsType == Seq(Strings \X Int)
LensType == [1..4 -> Int]

SceneType ==
  [nodes : Seq(Int), name : Strings]
NodeType ==
  [transform : Seq(Int), children : Seq(Int), camera : Int, mesh : Int,
   skin : Int, weights : Seq(Int), translation : Seq(Int),
   rotation : Seq(Int), scale : Seq(Int), matrix : Seq(Int), name : Strings]
PrimitiveType ==
  [attributes : PairsType, indices : Int, mode : Int, material : Int,
   targets : Seq(PairsType)]
MeshType ==
  [primitives : Seq(PrimitiveType), weights : Seq(Int), name : Strings]
SkinType ==
  [inverseBindMatrices : Int, skeleton : Int, joints : Seq(Int),
   name : Strings]
TextureInfoType ==
  [index : Int, texCoord : Int]
PbrMetallicRoughnessType ==
  [baseColorTexture : TextureInfoType, baseColorFactor : Seq(Int),
   metallicRoughnessTexture : TextureInfoType, metallicFactor : Int,
   roughnessFactor : Int]
NormalTextureType ==
  [index : Int, texCoord : Int, scale : Int]
OcclusionTextureType ==
  [index : Int, texCoord : Int, strength : Int]
MaterialType ==
  [pbrMetallicRoughness : PbrMetallicRoughnessType,
   normalTexture : NormalTextureType, occlusionTexture : OcclusionTextureType,
   emissiveTexture : TextureInfoType, emissiveFactor : Seq(Int),
   alphaMode : Strings, alphaCutoff : Int, doubleSided : BOOLEAN,
   name : Strings]
TextureType ==
  [sampler : Int, source : Int, name : Strings]
SamplerType ==
  [wrapS : Int, wrapT : Int, magFilter : Int, minFilter : Int, name : Strings]
ImageType ==
  [uri : Strings, mimeType : Strings, bufferView : Int, name : Strings]
CameraType ==
  [type : Strings, lens : LensType, name : Strings]
TargetType ==
  [node : Int, path : Strings]
ChannelType ==
  [sampler : Int, target : TargetType]
AnimationSamplerType ==
  [input : Int, interpolation : Strings, output : Int]
AnimationType ==
  [channels : Seq(ChannelType), samplers : Seq(AnimationSamplerType),
   name : Strings]
SparseIndicesType ==
  [bufferView : Int, byteOffset : Int, componentType : Int]
SparseValuesType ==
  [bufferView : Int, byteOffset : Int]
SparseType ==
  [count : Int, indices : SparseIndicesType, values : SparseValuesType]
AccessorType ==
  [bufferView : Int, byteOffset : Int, componentType : Int,
   normalized : BOOLEAN, count : Int, type : Strings, min : Seq(Int),
   max : Seq(Int), sparse : SparseType, name : Strings]
BufferViewType ==
  [buffer : Int, byteOffset : Int, byteLength : Int, byteStride : Int,
   target : Int, name : Strings]
BufferType ==
  [uri : Strings, byteLength : Int, name : Strings]
AssetType ==
  [copyright : Strings, generator : Strings, version : Strings,
   minVersion : Strings]
FileType ==
  [scene : Int, scenes : Seq(SceneType), nodes : Seq(NodeType),
   meshes : Seq(MeshType), skins : Seq(SkinType),
   materials : Seq(MaterialType), textures : Seq(TextureType),
   samplers : Seq(SamplerType), images : Seq(ImageType),
   cameras : Seq(CameraType), animations : Seq(AnimationType),
   accessors : Seq(AccessorType), bufferViews : Seq(BufferViewType),
   buffers : Seq(BufferType), asset : AssetType]

ObjectTypes ==
  [File |-> FileType, Scene |-> SceneType, Node |-> NodeType,
   Mesh |-> MeshType, Primitive |-> PrimitiveType, Skin |-> SkinType,
   Material |-> MaterialType, TextureInfo |-> TextureInfoType,
   PbrMetallicRoughness |-> PbrMetallicRoughnessType,
   NormalTexture |-> NormalTextureType,
   OcclusionTexture |-> OcclusionTextureType, Texture |-> TextureType,
   Sampler |-> SamplerType, Image |-> ImageType, Camera |-> CameraType,
   Perspective |-> LensType, Orthographic |-> LensType,
   Animation |-> AnimationType, Channel |-> ChannelType,
   Target |-> TargetType, AnimationSampler |-> AnimationSamplerType,
   Accessor |-> AccessorType, Sparse |-> SparseType,
   SparseIndices |-> SparseIndicesType, SparseValues |-> SparseValuesType,
   BufferView |-> BufferViewType, Buffer |-> BufferType, Asset |-> AssetType,
   Dictionary |-> PairsType]

(* What a function that reads a property returns.                          *)
ValuesOf(field) ==
  CASE field.reader = "number" -> Int
    [] field.reader = "numbers" -> Seq(Int)
    [] field.reader = "str" -> Strings
    [] field.reader = "bool" -> BOOLEAN
    [] field.reader = "object" -> ObjectTypes[field.kind]
    [] field.reader = "objects" -> Seq(ObjectTypes[field.kind])

(* An object of type S has a value of type T at a place.                   *)
FitsAt(S, place, T) ==
  /\ \A r \in S : r[place] \in T
  /\ \A r \in S, v \in T : [r EXCEPT ![place] = v] \in S

(* The types by their names.                                               *)
LEMMA TypesNamed ==
  /\ ObjectTypes["File"] = FileType
  /\ ObjectTypes["Scene"] = SceneType
  /\ ObjectTypes["Node"] = NodeType
  /\ ObjectTypes["Mesh"] = MeshType
  /\ ObjectTypes["Primitive"] = PrimitiveType
  /\ ObjectTypes["Skin"] = SkinType
  /\ ObjectTypes["Material"] = MaterialType
  /\ ObjectTypes["TextureInfo"] = TextureInfoType
  /\ ObjectTypes["PbrMetallicRoughness"] = PbrMetallicRoughnessType
  /\ ObjectTypes["NormalTexture"] = NormalTextureType
  /\ ObjectTypes["OcclusionTexture"] = OcclusionTextureType
  /\ ObjectTypes["Texture"] = TextureType
  /\ ObjectTypes["Sampler"] = SamplerType
  /\ ObjectTypes["Image"] = ImageType
  /\ ObjectTypes["Camera"] = CameraType
  /\ ObjectTypes["Perspective"] = LensType
  /\ ObjectTypes["Orthographic"] = LensType
  /\ ObjectTypes["Animation"] = AnimationType
  /\ ObjectTypes["Channel"] = ChannelType
  /\ ObjectTypes["Target"] = TargetType
  /\ ObjectTypes["AnimationSampler"] = AnimationSamplerType
  /\ ObjectTypes["Accessor"] = AccessorType
  /\ ObjectTypes["Sparse"] = SparseType
  /\ ObjectTypes["SparseIndices"] = SparseIndicesType
  /\ ObjectTypes["SparseValues"] = SparseValuesType
  /\ ObjectTypes["BufferView"] = BufferViewType
  /\ ObjectTypes["Buffer"] = BufferType
  /\ ObjectTypes["Asset"] = AssetType
  /\ ObjectTypes["Dictionary"] = PairsType
BY DEF ObjectTypes

(* The members of File.                                                   *)
LEMMA FileFits ==
  ASSUME NEW name \in DOMAIN FileFields
  PROVE  FitsAt(FileType, Place("File", name), ValuesOf(FileFields[name]))
<1>1. CASE name = "scene"
  BY <1>1 DEF FitsAt, FileType, Place, Projections, LensSlot, FileFields,
     ValuesOf, Int32
<1>2. CASE name = "scenes"
  <2>1. FitsAt(FileType, "scenes", Seq(SceneType))
    BY DEF FitsAt, FileType
  <2>2. Place("File", name) = "scenes"
    BY <1>2 DEF Place, Projections
  <2>3. ValuesOf(FileFields[name]) = Seq(SceneType)
    BY <1>2, TypesNamed DEF FileFields, ValuesOf, Array
  <2> QED BY <2>1, <2>2, <2>3
<1>3. CASE name = "nodes"
  <2>1. FitsAt(FileType, "nodes", Seq(NodeType))
    BY DEF FitsAt, FileType
  <2>2. Place("File", name) = "nodes"
    BY <1>3 DEF Place, Projections
  <2>3. ValuesOf(FileFields[name]) = Seq(NodeType)
    BY <1>3, TypesNamed DEF FileFields, ValuesOf, Array
  <2> QED BY <2>1, <2>2, <2>3
<1>4. CASE name = "meshes"
  <2>1. FitsAt(FileType, "meshes", Seq(MeshType))
    BY DEF FitsAt, FileType
  <2>2. Place("File", name) = "meshes"
    BY <1>4 DEF Place, Projections
  <2>3. ValuesOf(FileFields[name]) = Seq(MeshType)
    BY <1>4, TypesNamed DEF FileFields, ValuesOf, Array
  <2> QED BY <2>1, <2>2, <2>3
<1>5. CASE name = "skins"
  <2>1. FitsAt(FileType, "skins", Seq(SkinType))
    BY DEF FitsAt, FileType
  <2>2. Place("File", name) = "skins"
    BY <1>5 DEF Place, Projections
  <2>3. ValuesOf(FileFields[name]) = Seq(SkinType)
    BY <1>5, TypesNamed DEF FileFields, ValuesOf, Array
  <2> QED BY <2>1, <2>2, <2>3
<1>6. CASE name = "materials"
  <2>1. FitsAt(FileType, "materials", Seq(MaterialType))
    BY DEF FitsAt, FileType
  <2>2. Place("File", name) = "materials"
    BY <1>6 DEF Place, Projections
  <2>3. ValuesOf(FileFields[name]) = Seq(MaterialType)
    BY <1>6, TypesNamed DEF FileFields, ValuesOf, Array
  <2> QED BY <2>1, <2>2, <2>3
<1>7. CASE name = "textures"
  <2>1. FitsAt(FileType, "textures", Seq(TextureType))
    BY DEF FitsAt, FileType
  <2>2. Place("File", name) = "textures"
    BY <1>7 DEF Place, Projections
  <2>3. ValuesOf(FileFields[name]) = Seq(TextureType)
    BY <1>7, TypesNamed DEF FileFields, ValuesOf, Array
  <2> QED BY <2>1, <2>2, <2>3
<1>8. CASE name = "samplers"
  <2>1. FitsAt(FileType, "samplers", Seq(SamplerType))
    BY DEF FitsAt, FileType
  <2>2. Place("File", name) = "samplers"
    BY <1>8 DEF Place, Projections
  <2>3. ValuesOf(FileFields[name]) = Seq(SamplerType)
    BY <1>8, TypesNamed DEF FileFields, ValuesOf, Array
  <2> QED BY <2>1, <2>2, <2>3
<1>9. CASE name = "images"
  <2>1. FitsAt(FileType, "images", Seq(ImageType))
    BY DEF FitsAt, FileType
  <2>2. Place("File", name) = "images"
    BY <1>9 DEF Place, Projections
  <2>3. ValuesOf(FileFields[name]) = Seq(ImageType)
    BY <1>9, TypesNamed DEF FileFields, ValuesOf, Array
  <2> QED BY <2>1, <2>2, <2>3
<1>10. CASE name = "cameras"
  <2>1. FitsAt(FileType, "cameras", Seq(CameraType))
    BY DEF FitsAt, FileType
  <2>2. Place("File", name) = "cameras"
    BY <1>10 DEF Place, Projections
  <2>3. ValuesOf(FileFields[name]) = Seq(CameraType)
    BY <1>10, TypesNamed DEF FileFields, ValuesOf, Array
  <2> QED BY <2>1, <2>2, <2>3
<1>11. CASE name = "animations"
  <2>1. FitsAt(FileType, "animations", Seq(AnimationType))
    BY DEF FitsAt, FileType
  <2>2. Place("File", name) = "animations"
    BY <1>11 DEF Place, Projections
  <2>3. ValuesOf(FileFields[name]) = Seq(AnimationType)
    BY <1>11, TypesNamed DEF FileFields, ValuesOf, Array
  <2> QED BY <2>1, <2>2, <2>3
<1>12. CASE name = "accessors"
  <2>1. FitsAt(FileType, "accessors", Seq(AccessorType))
    BY DEF FitsAt, FileType
  <2>2. Place("File", name) = "accessors"
    BY <1>12 DEF Place, Projections
  <2>3. ValuesOf(FileFields[name]) = Seq(AccessorType)
    BY <1>12, TypesNamed DEF FileFields, ValuesOf, Array
  <2> QED BY <2>1, <2>2, <2>3
<1>13. CASE name = "bufferViews"
  <2>1. FitsAt(FileType, "bufferViews", Seq(BufferViewType))
    BY DEF FitsAt, FileType
  <2>2. Place("File", name) = "bufferViews"
    BY <1>13 DEF Place, Projections
  <2>3. ValuesOf(FileFields[name]) = Seq(BufferViewType)
    BY <1>13, TypesNamed DEF FileFields, ValuesOf, Array
  <2> QED BY <2>1, <2>2, <2>3
<1>14. CASE name = "buffers"
  <2>1. FitsAt(FileType, "buffers", Seq(BufferType))
    BY DEF FitsAt, FileType
  <2>2. Place("File", name) = "buffers"
    BY <1>14 DEF Place, Projections
  <2>3. ValuesOf(FileFields[name]) = Seq(BufferType)
    BY <1>14, TypesNamed DEF FileFields, ValuesOf, Array
  <2> QED BY <2>1, <2>2, <2>3
<1>15. CASE name = "asset"
  <2>1. FitsAt(FileType, "asset", AssetType)
    BY DEF FitsAt, FileType
  <2>2. Place("File", name) = "asset"
    BY <1>15 DEF Place, Projections
  <2>3. ValuesOf(FileFields[name]) = AssetType
    BY <1>15, TypesNamed DEF FileFields, ValuesOf, Object
  <2> QED BY <2>1, <2>2, <2>3
<1> QED BY <1>1, <1>2, <1>3, <1>4, <1>5, <1>6, <1>7, <1>8, <1>9, <1>10, <1>11, <1>12, <1>13, <1>14, <1>15 DEF FileFields

(* The members of Scene.                                                  *)
LEMMA SceneFits ==
  ASSUME NEW name \in DOMAIN SceneFields
  PROVE  FitsAt(SceneType, Place("Scene", name), ValuesOf(SceneFields[name]))
<1>1. CASE name = "nodes"
  BY <1>1 DEF FitsAt, SceneType, Place, Projections, LensSlot, SceneFields,
     ValuesOf, Ints
<1>2. CASE name = "name"
  BY <1>2 DEF FitsAt, SceneType, Place, Projections, LensSlot, SceneFields,
     ValuesOf, Str
<1> QED BY <1>1, <1>2 DEF SceneFields

(* The members of Node.                                                   *)
LEMMA NodeFits ==
  ASSUME NEW name \in DOMAIN NodeFields
  PROVE  FitsAt(NodeType, Place("Node", name), ValuesOf(NodeFields[name]))
<1>1. CASE name = "children"
  BY <1>1 DEF FitsAt, NodeType, Place, Projections, LensSlot, NodeFields,
     ValuesOf, Ints
<1>2. CASE name = "camera"
  BY <1>2 DEF FitsAt, NodeType, Place, Projections, LensSlot, NodeFields,
     ValuesOf, Int32
<1>3. CASE name = "mesh"
  BY <1>3 DEF FitsAt, NodeType, Place, Projections, LensSlot, NodeFields,
     ValuesOf, Int32
<1>4. CASE name = "skin"
  BY <1>4 DEF FitsAt, NodeType, Place, Projections, LensSlot, NodeFields,
     ValuesOf, Int32
<1>5. CASE name = "weights"
  BY <1>5 DEF FitsAt, NodeType, Place, Projections, LensSlot, NodeFields,
     ValuesOf, Floats
<1>6. CASE name = "translation"
  BY <1>6 DEF FitsAt, NodeType, Place, Projections, LensSlot, NodeFields,
     ValuesOf, Floats
<1>7. CASE name = "rotation"
  BY <1>7 DEF FitsAt, NodeType, Place, Projections, LensSlot, NodeFields,
     ValuesOf, Floats
<1>8. CASE name = "scale"
  BY <1>8 DEF FitsAt, NodeType, Place, Projections, LensSlot, NodeFields,
     ValuesOf, Floats
<1>9. CASE name = "matrix"
  BY <1>9 DEF FitsAt, NodeType, Place, Projections, LensSlot, NodeFields,
     ValuesOf, Floats
<1>10. CASE name = "name"
  BY <1>10 DEF FitsAt, NodeType, Place, Projections, LensSlot, NodeFields,
     ValuesOf, Str
<1> QED BY <1>1, <1>2, <1>3, <1>4, <1>5, <1>6, <1>7, <1>8, <1>9, <1>10 DEF NodeFields

(* The members of Mesh.                                                   *)
LEMMA MeshFits ==
  ASSUME NEW name \in DOMAIN MeshFields
  PROVE  FitsAt(MeshType, Place("Mesh", name), ValuesOf(MeshFields[name]))
<1>1. CASE name = "primitives"
  <2>1. FitsAt(MeshType, "primitives", Seq(PrimitiveType))
    BY DEF FitsAt, MeshType
  <2>2. Place("Mesh", name) = "primitives"
    BY <1>1 DEF Place, Projections
  <2>3. ValuesOf(MeshFields[name]) = Seq(PrimitiveType)
    BY <1>1, TypesNamed DEF MeshFields, ValuesOf, Array
  <2> QED BY <2>1, <2>2, <2>3
<1>2. CASE name = "weights"
  BY <1>2 DEF FitsAt, MeshType, Place, Projections, LensSlot, MeshFields,
     ValuesOf, Floats
<1>3. CASE name = "name"
  BY <1>3 DEF FitsAt, MeshType, Place, Projections, LensSlot, MeshFields,
     ValuesOf, Str
<1> QED BY <1>1, <1>2, <1>3 DEF MeshFields

(* The members of Primitive.                                              *)
LEMMA PrimitiveFits ==
  ASSUME NEW name \in DOMAIN PrimitiveFields
  PROVE  FitsAt(PrimitiveType, Place("Primitive", name), ValuesOf(PrimitiveFields[name]))
<1>1. CASE name = "attributes"
  <2>1. FitsAt(PrimitiveType, "attributes", PairsType)
    BY DEF FitsAt, PrimitiveType
  <2>2. Place("Primitive", name) = "attributes"
    BY <1>1 DEF Place, Projections
  <2>3. ValuesOf(PrimitiveFields[name]) = PairsType
    BY <1>1, TypesNamed DEF PrimitiveFields, ValuesOf, Dict
  <2> QED BY <2>1, <2>2, <2>3
<1>2. CASE name = "indices"
  BY <1>2 DEF FitsAt, PrimitiveType, Place, Projections, LensSlot, PrimitiveFields,
     ValuesOf, Int32
<1>3. CASE name = "mode"
  BY <1>3 DEF FitsAt, PrimitiveType, Place, Projections, LensSlot, PrimitiveFields,
     ValuesOf, Int32
<1>4. CASE name = "material"
  BY <1>4 DEF FitsAt, PrimitiveType, Place, Projections, LensSlot, PrimitiveFields,
     ValuesOf, Int32
<1>5. CASE name = "targets"
  <2>1. FitsAt(PrimitiveType, "targets", Seq(PairsType))
    BY DEF FitsAt, PrimitiveType
  <2>2. Place("Primitive", name) = "targets"
    BY <1>5 DEF Place, Projections
  <2>3. ValuesOf(PrimitiveFields[name]) = Seq(PairsType)
    BY <1>5, TypesNamed DEF PrimitiveFields, ValuesOf, DictArray
  <2> QED BY <2>1, <2>2, <2>3
<1> QED BY <1>1, <1>2, <1>3, <1>4, <1>5 DEF PrimitiveFields

(* The members of Skin.                                                   *)
LEMMA SkinFits ==
  ASSUME NEW name \in DOMAIN SkinFields
  PROVE  FitsAt(SkinType, Place("Skin", name), ValuesOf(SkinFields[name]))
<1>1. CASE name = "inverseBindMatrices"
  BY <1>1 DEF FitsAt, SkinType, Place, Projections, LensSlot, SkinFields,
     ValuesOf, Int32
<1>2. CASE name = "skeleton"
  BY <1>2 DEF FitsAt, SkinType, Place, Projections, LensSlot, SkinFields,
     ValuesOf, Int32
<1>3. CASE name = "joints"
  BY <1>3 DEF FitsAt, SkinType, Place, Projections, LensSlot, SkinFields,
     ValuesOf, Ints
<1>4. CASE name = "name"
  BY <1>4 DEF FitsAt, SkinType, Place, Projections, LensSlot, SkinFields,
     ValuesOf, Str
<1> QED BY <1>1, <1>2, <1>3, <1>4 DEF SkinFields

(* The members of Material.                                               *)
LEMMA MaterialFits ==
  ASSUME NEW name \in DOMAIN MaterialFields
  PROVE  FitsAt(MaterialType, Place("Material", name), ValuesOf(MaterialFields[name]))
<1>1. CASE name = "pbrMetallicRoughness"
  <2>1. FitsAt(MaterialType, "pbrMetallicRoughness", PbrMetallicRoughnessType)
    BY DEF FitsAt, MaterialType
  <2>2. Place("Material", name) = "pbrMetallicRoughness"
    BY <1>1 DEF Place, Projections
  <2>3. ValuesOf(MaterialFields[name]) = PbrMetallicRoughnessType
    BY <1>1, TypesNamed DEF MaterialFields, ValuesOf, Object
  <2> QED BY <2>1, <2>2, <2>3
<1>2. CASE name = "normalTexture"
  <2>1. FitsAt(MaterialType, "normalTexture", NormalTextureType)
    BY DEF FitsAt, MaterialType
  <2>2. Place("Material", name) = "normalTexture"
    BY <1>2 DEF Place, Projections
  <2>3. ValuesOf(MaterialFields[name]) = NormalTextureType
    BY <1>2, TypesNamed DEF MaterialFields, ValuesOf, Object
  <2> QED BY <2>1, <2>2, <2>3
<1>3. CASE name = "occlusionTexture"
  <2>1. FitsAt(MaterialType, "occlusionTexture", OcclusionTextureType)
    BY DEF FitsAt, MaterialType
  <2>2. Place("Material", name) = "occlusionTexture"
    BY <1>3 DEF Place, Projections
  <2>3. ValuesOf(MaterialFields[name]) = OcclusionTextureType
    BY <1>3, TypesNamed DEF MaterialFields, ValuesOf, Object
  <2> QED BY <2>1, <2>2, <2>3
<1>4. CASE name = "emissiveTexture"
  <2>1. FitsAt(MaterialType, "emissiveTexture", TextureInfoType)
    BY DEF FitsAt, MaterialType
  <2>2. Place("Material", name) = "emissiveTexture"
    BY <1>4 DEF Place, Projections
  <2>3. ValuesOf(MaterialFields[name]) = TextureInfoType
    BY <1>4, TypesNamed DEF MaterialFields, ValuesOf, Object
  <2> QED BY <2>1, <2>2, <2>3
<1>5. CASE name = "emissiveFactor"
  BY <1>5 DEF FitsAt, MaterialType, Place, Projections, LensSlot, MaterialFields,
     ValuesOf, Factor
<1>6. CASE name = "alphaMode"
  BY <1>6 DEF FitsAt, MaterialType, Place, Projections, LensSlot, MaterialFields,
     ValuesOf, Str
<1>7. CASE name = "alphaCutoff"
  BY <1>7 DEF FitsAt, MaterialType, Place, Projections, LensSlot, MaterialFields,
     ValuesOf, Float
<1>8. CASE name = "doubleSided"
  BY <1>8 DEF FitsAt, MaterialType, Place, Projections, LensSlot, MaterialFields,
     ValuesOf, Bool
<1>9. CASE name = "name"
  BY <1>9 DEF FitsAt, MaterialType, Place, Projections, LensSlot, MaterialFields,
     ValuesOf, Str
<1> QED BY <1>1, <1>2, <1>3, <1>4, <1>5, <1>6, <1>7, <1>8, <1>9 DEF MaterialFields

(* The members of TextureInfo.                                            *)
LEMMA TextureInfoFits ==
  ASSUME NEW name \in DOMAIN TextureInfoFields
  PROVE  FitsAt(TextureInfoType, Place("TextureInfo", name), ValuesOf(TextureInfoFields[name]))
<1>1. CASE name = "index"
  BY <1>1 DEF FitsAt, TextureInfoType, Place, Projections, LensSlot, TextureInfoFields,
     ValuesOf, Int32
<1>2. CASE name = "texCoord"
  BY <1>2 DEF FitsAt, TextureInfoType, Place, Projections, LensSlot, TextureInfoFields,
     ValuesOf, Int32
<1> QED BY <1>1, <1>2 DEF TextureInfoFields

(* The members of PbrMetallicRoughness.                                   *)
LEMMA PbrMetallicRoughnessFits ==
  ASSUME NEW name \in DOMAIN PbrMetallicRoughnessFields
  PROVE  FitsAt(PbrMetallicRoughnessType, Place("PbrMetallicRoughness", name), ValuesOf(PbrMetallicRoughnessFields[name]))
<1>1. CASE name = "baseColorTexture"
  <2>1. FitsAt(PbrMetallicRoughnessType, "baseColorTexture", TextureInfoType)
    BY DEF FitsAt, PbrMetallicRoughnessType
  <2>2. Place("PbrMetallicRoughness", name) = "baseColorTexture"
    BY <1>1 DEF Place, Projections
  <2>3. ValuesOf(PbrMetallicRoughnessFields[name]) = TextureInfoType
    BY <1>1, TypesNamed DEF PbrMetallicRoughnessFields, ValuesOf, Object
  <2> QED BY <2>1, <2>2, <2>3
<1>2. CASE name = "baseColorFactor"
  BY <1>2 DEF FitsAt, PbrMetallicRoughnessType, Place, Projections, LensSlot, PbrMetallicRoughnessFields,
     ValuesOf, Factor
<1>3. CASE name = "metallicRoughnessTexture"
  <2>1. FitsAt(PbrMetallicRoughnessType, "metallicRoughnessTexture", TextureInfoType)
    BY DEF FitsAt, PbrMetallicRoughnessType
  <2>2. Place("PbrMetallicRoughness", name) = "metallicRoughnessTexture"
    BY <1>3 DEF Place, Projections
  <2>3. ValuesOf(PbrMetallicRoughnessFields[name]) = TextureInfoType
    BY <1>3, TypesNamed DEF PbrMetallicRoughnessFields, ValuesOf, Object
  <2> QED BY <2>1, <2>2, <2>3
<1>4. CASE name = "metallicFactor"
  BY <1>4 DEF FitsAt, PbrMetallicRoughnessType, Place, Projections, LensSlot, PbrMetallicRoughnessFields,
     ValuesOf, Float
<1>5. CASE name = "roughnessFactor"
  BY <1>5 DEF FitsAt, PbrMetallicRoughnessType, Place, Projections, LensSlot, PbrMetallicRoughnessFields,
     ValuesOf, Float
<1> QED BY <1>1, <1>2, <1>3, <1>4, <1>5 DEF PbrMetallicRoughnessFields

(* The members of NormalTexture.                                          *)
LEMMA NormalTextureFits ==
  ASSUME NEW name \in DOMAIN NormalTextureFields
  PROVE  FitsAt(NormalTextureType, Place("NormalTexture", name), ValuesOf(NormalTextureFields[name]))
<1>1. CASE name = "index"
  BY <1>1 DEF FitsAt, NormalTextureType, Place, Projections, LensSlot, NormalTextureFields,
     ValuesOf, Int32
<1>2. CASE name = "texCoord"
  BY <1>2 DEF FitsAt, NormalTextureType, Place, Projections, LensSlot, NormalTextureFields,
     ValuesOf, Int32
<1>3. CASE name = "scale"
  BY <1>3 DEF FitsAt, NormalTextureType, Place, Projections, LensSlot, NormalTextureFields,
     ValuesOf, Float
<1> QED BY <1>1, <1>2, <1>3 DEF NormalTextureFields

(* The members of OcclusionTexture.                                       *)
LEMMA OcclusionTextureFits ==
  ASSUME NEW name \in DOMAIN OcclusionTextureFields
  PROVE  FitsAt(OcclusionTextureType, Place("OcclusionTexture", name), ValuesOf(OcclusionTextureFields[name]))
<1>1. CASE name = "index"
  BY <1>1 DEF FitsAt, OcclusionTextureType, Place, Projections, LensSlot, OcclusionTextureFields,
     ValuesOf, Int32
<1>2. CASE name = "texCoord"
  BY <1>2 DEF FitsAt, OcclusionTextureType, Place, Projections, LensSlot, OcclusionTextureFields,
     ValuesOf, Int32
<1>3. CASE name = "strength"
  BY <1>3 DEF FitsAt, OcclusionTextureType, Place, Projections, LensSlot, OcclusionTextureFields,
     ValuesOf, Float
<1> QED BY <1>1, <1>2, <1>3 DEF OcclusionTextureFields

(* The members of Texture.                                                *)
LEMMA TextureFits ==
  ASSUME NEW name \in DOMAIN TextureFields
  PROVE  FitsAt(TextureType, Place("Texture", name), ValuesOf(TextureFields[name]))
<1>1. CASE name = "sampler"
  BY <1>1 DEF FitsAt, TextureType, Place, Projections, LensSlot, TextureFields,
     ValuesOf, Int32
<1>2. CASE name = "source"
  BY <1>2 DEF FitsAt, TextureType, Place, Projections, LensSlot, TextureFields,
     ValuesOf, Int32
<1>3. CASE name = "name"
  BY <1>3 DEF FitsAt, TextureType, Place, Projections, LensSlot, TextureFields,
     ValuesOf, Str
<1> QED BY <1>1, <1>2, <1>3 DEF TextureFields

(* The members of Sampler.                                                *)
LEMMA SamplerFits ==
  ASSUME NEW name \in DOMAIN SamplerFields
  PROVE  FitsAt(SamplerType, Place("Sampler", name), ValuesOf(SamplerFields[name]))
<1>1. CASE name = "wrapS"
  BY <1>1 DEF FitsAt, SamplerType, Place, Projections, LensSlot, SamplerFields,
     ValuesOf, Int32
<1>2. CASE name = "wrapT"
  BY <1>2 DEF FitsAt, SamplerType, Place, Projections, LensSlot, SamplerFields,
     ValuesOf, Int32
<1>3. CASE name = "magFilter"
  BY <1>3 DEF FitsAt, SamplerType, Place, Projections, LensSlot, SamplerFields,
     ValuesOf, Int32
<1>4. CASE name = "minFilter"
  BY <1>4 DEF FitsAt, SamplerType, Place, Projections, LensSlot, SamplerFields,
     ValuesOf, Int32
<1>5. CASE name = "name"
  BY <1>5 DEF FitsAt, SamplerType, Place, Projections, LensSlot, SamplerFields,
     ValuesOf, Str
<1> QED BY <1>1, <1>2, <1>3, <1>4, <1>5 DEF SamplerFields

(* The members of Image.                                                  *)
LEMMA ImageFits ==
  ASSUME NEW name \in DOMAIN ImageFields
  PROVE  FitsAt(ImageType, Place("Image", name), ValuesOf(ImageFields[name]))
<1>1. CASE name = "uri"
  BY <1>1 DEF FitsAt, ImageType, Place, Projections, LensSlot, ImageFields,
     ValuesOf, Str
<1>2. CASE name = "mimeType"
  BY <1>2 DEF FitsAt, ImageType, Place, Projections, LensSlot, ImageFields,
     ValuesOf, Str
<1>3. CASE name = "bufferView"
  BY <1>3 DEF FitsAt, ImageType, Place, Projections, LensSlot, ImageFields,
     ValuesOf, Int32
<1>4. CASE name = "name"
  BY <1>4 DEF FitsAt, ImageType, Place, Projections, LensSlot, ImageFields,
     ValuesOf, Str
<1> QED BY <1>1, <1>2, <1>3, <1>4 DEF ImageFields

(* The members of Camera.                                                 *)
LEMMA CameraFits ==
  ASSUME NEW name \in DOMAIN CameraFields
  PROVE  FitsAt(CameraType, Place("Camera", name), ValuesOf(CameraFields[name]))
<1>1. CASE name = "type"
  BY <1>1 DEF FitsAt, CameraType, Place, Projections, LensSlot, CameraFields,
     ValuesOf, Str
<1>2. CASE name = "perspective"
  <2>1. FitsAt(CameraType, "lens", LensType)
    BY DEF FitsAt, CameraType
  <2>2. Place("Camera", name) = "lens"
    BY <1>2 DEF Place, Projections
  <2>3. ValuesOf(CameraFields[name]) = LensType
    BY <1>2, TypesNamed DEF CameraFields, ValuesOf, Object
  <2> QED BY <2>1, <2>2, <2>3
<1>3. CASE name = "orthographic"
  <2>1. FitsAt(CameraType, "lens", LensType)
    BY DEF FitsAt, CameraType
  <2>2. Place("Camera", name) = "lens"
    BY <1>3 DEF Place, Projections
  <2>3. ValuesOf(CameraFields[name]) = LensType
    BY <1>3, TypesNamed DEF CameraFields, ValuesOf, Object
  <2> QED BY <2>1, <2>2, <2>3
<1>4. CASE name = "name"
  BY <1>4 DEF FitsAt, CameraType, Place, Projections, LensSlot, CameraFields,
     ValuesOf, Str
<1> QED BY <1>1, <1>2, <1>3, <1>4 DEF CameraFields

(* The members of Perspective.                                            *)
LEMMA PerspectiveFits ==
  ASSUME NEW name \in DOMAIN PerspectiveFields
  PROVE  FitsAt(LensType, Place("Perspective", name), ValuesOf(PerspectiveFields[name]))
<1>1. CASE name = "aspectRatio"
  BY <1>1 DEF FitsAt, LensType, Place, Projections, LensSlot, PerspectiveFields,
     ValuesOf, Float
<1>2. CASE name = "yfov"
  BY <1>2 DEF FitsAt, LensType, Place, Projections, LensSlot, PerspectiveFields,
     ValuesOf, Float
<1>3. CASE name = "zfar"
  BY <1>3 DEF FitsAt, LensType, Place, Projections, LensSlot, PerspectiveFields,
     ValuesOf, Float
<1>4. CASE name = "znear"
  BY <1>4 DEF FitsAt, LensType, Place, Projections, LensSlot, PerspectiveFields,
     ValuesOf, Float
<1> QED BY <1>1, <1>2, <1>3, <1>4 DEF PerspectiveFields

(* The members of Orthographic.                                           *)
LEMMA OrthographicFits ==
  ASSUME NEW name \in DOMAIN OrthographicFields
  PROVE  FitsAt(LensType, Place("Orthographic", name), ValuesOf(OrthographicFields[name]))
<1>1. CASE name = "xmag"
  BY <1>1 DEF FitsAt, LensType, Place, Projections, LensSlot, OrthographicFields,
     ValuesOf, Float
<1>2. CASE name = "ymag"
  BY <1>2 DEF FitsAt, LensType, Place, Projections, LensSlot, OrthographicFields,
     ValuesOf, Float
<1>3. CASE name = "zfar"
  BY <1>3 DEF FitsAt, LensType, Place, Projections, LensSlot, OrthographicFields,
     ValuesOf, Float
<1>4. CASE name = "znear"
  BY <1>4 DEF FitsAt, LensType, Place, Projections, LensSlot, OrthographicFields,
     ValuesOf, Float
<1> QED BY <1>1, <1>2, <1>3, <1>4 DEF OrthographicFields

(* The members of Animation.                                              *)
LEMMA AnimationFits ==
  ASSUME NEW name \in DOMAIN AnimationFields
  PROVE  FitsAt(AnimationType, Place("Animation", name), ValuesOf(AnimationFields[name]))
<1>1. CASE name = "channels"
  <2>1. FitsAt(AnimationType, "channels", Seq(ChannelType))
    BY DEF FitsAt, AnimationType
  <2>2. Place("Animation", name) = "channels"
    BY <1>1 DEF Place, Projections
  <2>3. ValuesOf(AnimationFields[name]) = Seq(ChannelType)
    BY <1>1, TypesNamed DEF AnimationFields, ValuesOf, Array
  <2> QED BY <2>1, <2>2, <2>3
<1>2. CASE name = "samplers"
  <2>1. FitsAt(AnimationType, "samplers", Seq(AnimationSamplerType))
    BY DEF FitsAt, AnimationType
  <2>2. Place("Animation", name) = "samplers"
    BY <1>2 DEF Place, Projections
  <2>3. ValuesOf(AnimationFields[name]) = Seq(AnimationSamplerType)
    BY <1>2, TypesNamed DEF AnimationFields, ValuesOf, Array
  <2> QED BY <2>1, <2>2, <2>3
<1>3. CASE name = "name"
  BY <1>3 DEF FitsAt, AnimationType, Place, Projections, LensSlot, AnimationFields,
     ValuesOf, Str
<1> QED BY <1>1, <1>2, <1>3 DEF AnimationFields

(* The members of Channel.                                                *)
LEMMA ChannelFits ==
  ASSUME NEW name \in DOMAIN ChannelFields
  PROVE  FitsAt(ChannelType, Place("Channel", name), ValuesOf(ChannelFields[name]))
<1>1. CASE name = "sampler"
  BY <1>1 DEF FitsAt, ChannelType, Place, Projections, LensSlot, ChannelFields,
     ValuesOf, Int32
<1>2. CASE name = "target"
  <2>1. FitsAt(ChannelType, "target", TargetType)
    BY DEF FitsAt, ChannelType
  <2>2. Place("Channel", name) = "target"
    BY <1>2 DEF Place, Projections
  <2>3. ValuesOf(ChannelFields[name]) = TargetType
    BY <1>2, TypesNamed DEF ChannelFields, ValuesOf, Object
  <2> QED BY <2>1, <2>2, <2>3
<1> QED BY <1>1, <1>2 DEF ChannelFields

(* The members of Target.                                                 *)
LEMMA TargetFits ==
  ASSUME NEW name \in DOMAIN TargetFields
  PROVE  FitsAt(TargetType, Place("Target", name), ValuesOf(TargetFields[name]))
<1>1. CASE name = "node"
  BY <1>1 DEF FitsAt, TargetType, Place, Projections, LensSlot, TargetFields,
     ValuesOf, Int32
<1>2. CASE name = "path"
  BY <1>2 DEF FitsAt, TargetType, Place, Projections, LensSlot, TargetFields,
     ValuesOf, Str
<1> QED BY <1>1, <1>2 DEF TargetFields

(* The members of AnimationSampler.                                       *)
LEMMA AnimationSamplerFits ==
  ASSUME NEW name \in DOMAIN AnimationSamplerFields
  PROVE  FitsAt(AnimationSamplerType, Place("AnimationSampler", name), ValuesOf(AnimationSamplerFields[name]))
<1>1. CASE name = "input"
  BY <1>1 DEF FitsAt, AnimationSamplerType, Place, Projections, LensSlot, AnimationSamplerFields,
     ValuesOf, Int32
<1>2. CASE name = "interpolation"
  BY <1>2 DEF FitsAt, AnimationSamplerType, Place, Projections, LensSlot, AnimationSamplerFields,
     ValuesOf, Str
<1>3. CASE name = "output"
  BY <1>3 DEF FitsAt, AnimationSamplerType, Place, Projections, LensSlot, AnimationSamplerFields,
     ValuesOf, Int32
<1> QED BY <1>1, <1>2, <1>3 DEF AnimationSamplerFields

(* The members of Accessor.                                               *)
LEMMA AccessorFits ==
  ASSUME NEW name \in DOMAIN AccessorFields
  PROVE  FitsAt(AccessorType, Place("Accessor", name), ValuesOf(AccessorFields[name]))
<1>1. CASE name = "bufferView"
  BY <1>1 DEF FitsAt, AccessorType, Place, Projections, LensSlot, AccessorFields,
     ValuesOf, Int32
<1>2. CASE name = "byteOffset"
  BY <1>2 DEF FitsAt, AccessorType, Place, Projections, LensSlot, AccessorFields,
     ValuesOf, Int64
<1>3. CASE name = "componentType"
  BY <1>3 DEF FitsAt, AccessorType, Place, Projections, LensSlot, AccessorFields,
     ValuesOf, Int32
<1>4. CASE name = "normalized"
  BY <1>4 DEF FitsAt, AccessorType, Place, Projections, LensSlot, AccessorFields,
     ValuesOf, Bool
<1>5. CASE name = "count"
  BY <1>5 DEF FitsAt, AccessorType, Place, Projections, LensSlot, AccessorFields,
     ValuesOf, Int32
<1>6. CASE name = "type"
  BY <1>6 DEF FitsAt, AccessorType, Place, Projections, LensSlot, AccessorFields,
     ValuesOf, Str
<1>7. CASE name = "min"
  BY <1>7 DEF FitsAt, AccessorType, Place, Projections, LensSlot, AccessorFields,
     ValuesOf, Floats
<1>8. CASE name = "max"
  BY <1>8 DEF FitsAt, AccessorType, Place, Projections, LensSlot, AccessorFields,
     ValuesOf, Floats
<1>9. CASE name = "sparse"
  <2>1. FitsAt(AccessorType, "sparse", SparseType)
    BY DEF FitsAt, AccessorType
  <2>2. Place("Accessor", name) = "sparse"
    BY <1>9 DEF Place, Projections
  <2>3. ValuesOf(AccessorFields[name]) = SparseType
    BY <1>9, TypesNamed DEF AccessorFields, ValuesOf, Object
  <2> QED BY <2>1, <2>2, <2>3
<1>10. CASE name = "name"
  BY <1>10 DEF FitsAt, AccessorType, Place, Projections, LensSlot, AccessorFields,
     ValuesOf, Str
<1> QED BY <1>1, <1>2, <1>3, <1>4, <1>5, <1>6, <1>7, <1>8, <1>9, <1>10 DEF AccessorFields

(* The members of Sparse.                                                 *)
LEMMA SparseFits ==
  ASSUME NEW name \in DOMAIN SparseFields
  PROVE  FitsAt(SparseType, Place("Sparse", name), ValuesOf(SparseFields[name]))
<1>1. CASE name = "count"
  BY <1>1 DEF FitsAt, SparseType, Place, Projections, LensSlot, SparseFields,
     ValuesOf, Int32
<1>2. CASE name = "indices"
  <2>1. FitsAt(SparseType, "indices", SparseIndicesType)
    BY DEF FitsAt, SparseType
  <2>2. Place("Sparse", name) = "indices"
    BY <1>2 DEF Place, Projections
  <2>3. ValuesOf(SparseFields[name]) = SparseIndicesType
    BY <1>2, TypesNamed DEF SparseFields, ValuesOf, Object
  <2> QED BY <2>1, <2>2, <2>3
<1>3. CASE name = "values"
  <2>1. FitsAt(SparseType, "values", SparseValuesType)
    BY DEF FitsAt, SparseType
  <2>2. Place("Sparse", name) = "values"
    BY <1>3 DEF Place, Projections
  <2>3. ValuesOf(SparseFields[name]) = SparseValuesType
    BY <1>3, TypesNamed DEF SparseFields, ValuesOf, Object
  <2> QED BY <2>1, <2>2, <2>3
<1> QED BY <1>1, <1>2, <1>3 DEF SparseFields

(* The members of SparseIndices.                                          *)
LEMMA SparseIndicesFits ==
  ASSUME NEW name \in DOMAIN SparseIndicesFields
  PROVE  FitsAt(SparseIndicesType, Place("SparseIndices", name), ValuesOf(SparseIndicesFields[name]))
<1>1. CASE name = "bufferView"
  BY <1>1 DEF FitsAt, SparseIndicesType, Place, Projections, LensSlot, SparseIndicesFields,
     ValuesOf, Int32
<1>2. CASE name = "byteOffset"
  BY <1>2 DEF FitsAt, SparseIndicesType, Place, Projections, LensSlot, SparseIndicesFields,
     ValuesOf, Int64
<1>3. CASE name = "componentType"
  BY <1>3 DEF FitsAt, SparseIndicesType, Place, Projections, LensSlot, SparseIndicesFields,
     ValuesOf, Int32
<1> QED BY <1>1, <1>2, <1>3 DEF SparseIndicesFields

(* The members of SparseValues.                                           *)
LEMMA SparseValuesFits ==
  ASSUME NEW name \in DOMAIN SparseValuesFields
  PROVE  FitsAt(SparseValuesType, Place("SparseValues", name), ValuesOf(SparseValuesFields[name]))
<1>1. CASE name = "bufferView"
  BY <1>1 DEF FitsAt, SparseValuesType, Place, Projections, LensSlot, SparseValuesFields,
     ValuesOf, Int32
<1>2. CASE name = "byteOffset"
  BY <1>2 DEF FitsAt, SparseValuesType, Place, Projections, LensSlot, SparseValuesFields,
     ValuesOf, Int64
<1> QED BY <1>1, <1>2 DEF SparseValuesFields

(* The members of BufferView.                                             *)
LEMMA BufferViewFits ==
  ASSUME NEW name \in DOMAIN BufferViewFields
  PROVE  FitsAt(BufferViewType, Place("BufferView", name), ValuesOf(BufferViewFields[name]))
<1>1. CASE name = "buffer"
  BY <1>1 DEF FitsAt, BufferViewType, Place, Projections, LensSlot, BufferViewFields,
     ValuesOf, Int32
<1>2. CASE name = "byteOffset"
  BY <1>2 DEF FitsAt, BufferViewType, Place, Projections, LensSlot, BufferViewFields,
     ValuesOf, Int64
<1>3. CASE name = "byteLength"
  BY <1>3 DEF FitsAt, BufferViewType, Place, Projections, LensSlot, BufferViewFields,
     ValuesOf, Int64
<1>4. CASE name = "byteStride"
  BY <1>4 DEF FitsAt, BufferViewType, Place, Projections, LensSlot, BufferViewFields,
     ValuesOf, Int32
<1>5. CASE name = "target"
  BY <1>5 DEF FitsAt, BufferViewType, Place, Projections, LensSlot, BufferViewFields,
     ValuesOf, Int32
<1>6. CASE name = "name"
  BY <1>6 DEF FitsAt, BufferViewType, Place, Projections, LensSlot, BufferViewFields,
     ValuesOf, Str
<1> QED BY <1>1, <1>2, <1>3, <1>4, <1>5, <1>6 DEF BufferViewFields

(* The members of Buffer.                                                 *)
LEMMA BufferFits ==
  ASSUME NEW name \in DOMAIN BufferFields
  PROVE  FitsAt(BufferType, Place("Buffer", name), ValuesOf(BufferFields[name]))
<1>1. CASE name = "uri"
  BY <1>1 DEF FitsAt, BufferType, Place, Projections, LensSlot, BufferFields,
     ValuesOf, Str
<1>2. CASE name = "byteLength"
  BY <1>2 DEF FitsAt, BufferType, Place, Projections, LensSlot, BufferFields,
     ValuesOf, Int64
<1>3. CASE name = "name"
  BY <1>3 DEF FitsAt, BufferType, Place, Projections, LensSlot, BufferFields,
     ValuesOf, Str
<1> QED BY <1>1, <1>2, <1>3 DEF BufferFields

(* The members of Asset.                                                  *)
LEMMA AssetFits ==
  ASSUME NEW name \in DOMAIN AssetFields
  PROVE  FitsAt(AssetType, Place("Asset", name), ValuesOf(AssetFields[name]))
<1>1. CASE name = "copyright"
  BY <1>1 DEF FitsAt, AssetType, Place, Projections, LensSlot, AssetFields,
     ValuesOf, Str
<1>2. CASE name = "generator"
  BY <1>2 DEF FitsAt, AssetType, Place, Projections, LensSlot, AssetFields,
     ValuesOf, Str
<1>3. CASE name = "version"
  BY <1>3 DEF FitsAt, AssetType, Place, Projections, LensSlot, AssetFields,
     ValuesOf, Str
<1>4. CASE name = "minVersion"
  BY <1>4 DEF FitsAt, AssetType, Place, Projections, LensSlot, AssetFields,
     ValuesOf, Str
<1> QED BY <1>1, <1>2, <1>3, <1>4 DEF AssetFields

(* What the handlers know, by their names.                                *)
LEMMA FieldsNamed ==
  /\ Fields["File"] = FileFields
  /\ Fields["Scene"] = SceneFields
  /\ Fields["Node"] = NodeFields
  /\ Fields["Mesh"] = MeshFields
  /\ Fields["Primitive"] = PrimitiveFields
  /\ Fields["Skin"] = SkinFields
  /\ Fields["Material"] = MaterialFields
  /\ Fields["TextureInfo"] = TextureInfoFields
  /\ Fields["PbrMetallicRoughness"] = PbrMetallicRoughnessFields
  /\ Fields["NormalTexture"] = NormalTextureFields
  /\ Fields["OcclusionTexture"] = OcclusionTextureFields
  /\ Fields["Texture"] = TextureFields
  /\ Fields["Sampler"] = SamplerFields
  /\ Fields["Image"] = ImageFields
  /\ Fields["Camera"] = CameraFields
  /\ Fields["Perspective"] = PerspectiveFields
  /\ Fields["Orthographic"] = OrthographicFields
  /\ Fields["Animation"] = AnimationFields
  /\ Fields["Channel"] = ChannelFields
  /\ Fields["Target"] = TargetFields
  /\ Fields["AnimationSampler"] = AnimationSamplerFields
  /\ Fields["Accessor"] = AccessorFields
  /\ Fields["Sparse"] = SparseFields
  /\ Fields["SparseIndices"] = SparseIndicesFields
  /\ Fields["SparseValues"] = SparseValuesFields
  /\ Fields["BufferView"] = BufferViewFields
  /\ Fields["Buffer"] = BufferFields
  /\ Fields["Asset"] = AssetFields
BY DEF Fields

(* A property has its place in an object, where its values fit.            *)
LEMMA FieldFits ==
  ASSUME NEW kind \in Kinds, NEW name \in DOMAIN Fields[kind]
  PROVE  FitsAt(ObjectTypes[kind], Place(kind, name), ValuesOf(Fields[kind][name]))
<1>1. CASE kind = "File"
  BY <1>1, FileFits, FieldsNamed, TypesNamed
<1>2. CASE kind = "Scene"
  BY <1>2, SceneFits, FieldsNamed, TypesNamed
<1>3. CASE kind = "Node"
  BY <1>3, NodeFits, FieldsNamed, TypesNamed
<1>4. CASE kind = "Mesh"
  BY <1>4, MeshFits, FieldsNamed, TypesNamed
<1>5. CASE kind = "Primitive"
  BY <1>5, PrimitiveFits, FieldsNamed, TypesNamed
<1>6. CASE kind = "Skin"
  BY <1>6, SkinFits, FieldsNamed, TypesNamed
<1>7. CASE kind = "Material"
  BY <1>7, MaterialFits, FieldsNamed, TypesNamed
<1>8. CASE kind = "TextureInfo"
  BY <1>8, TextureInfoFits, FieldsNamed, TypesNamed
<1>9. CASE kind = "PbrMetallicRoughness"
  BY <1>9, PbrMetallicRoughnessFits, FieldsNamed, TypesNamed
<1>10. CASE kind = "NormalTexture"
  BY <1>10, NormalTextureFits, FieldsNamed, TypesNamed
<1>11. CASE kind = "OcclusionTexture"
  BY <1>11, OcclusionTextureFits, FieldsNamed, TypesNamed
<1>12. CASE kind = "Texture"
  BY <1>12, TextureFits, FieldsNamed, TypesNamed
<1>13. CASE kind = "Sampler"
  BY <1>13, SamplerFits, FieldsNamed, TypesNamed
<1>14. CASE kind = "Image"
  BY <1>14, ImageFits, FieldsNamed, TypesNamed
<1>15. CASE kind = "Camera"
  BY <1>15, CameraFits, FieldsNamed, TypesNamed
<1>16. CASE kind = "Perspective"
  BY <1>16, PerspectiveFits, FieldsNamed, TypesNamed
<1>17. CASE kind = "Orthographic"
  BY <1>17, OrthographicFits, FieldsNamed, TypesNamed
<1>18. CASE kind = "Animation"
  BY <1>18, AnimationFits, FieldsNamed, TypesNamed
<1>19. CASE kind = "Channel"
  BY <1>19, ChannelFits, FieldsNamed, TypesNamed
<1>20. CASE kind = "Target"
  BY <1>20, TargetFits, FieldsNamed, TypesNamed
<1>21. CASE kind = "AnimationSampler"
  BY <1>21, AnimationSamplerFits, FieldsNamed, TypesNamed
<1>22. CASE kind = "Accessor"
  BY <1>22, AccessorFits, FieldsNamed, TypesNamed
<1>23. CASE kind = "Sparse"
  BY <1>23, SparseFits, FieldsNamed, TypesNamed
<1>24. CASE kind = "SparseIndices"
  BY <1>24, SparseIndicesFits, FieldsNamed, TypesNamed
<1>25. CASE kind = "SparseValues"
  BY <1>25, SparseValuesFits, FieldsNamed, TypesNamed
<1>26. CASE kind = "BufferView"
  BY <1>26, BufferViewFits, FieldsNamed, TypesNamed
<1>27. CASE kind = "Buffer"
  BY <1>27, BufferFits, FieldsNamed, TypesNamed
<1>28. CASE kind = "Asset"
  BY <1>28, AssetFits, FieldsNamed, TypesNamed
<1> QED BY <1>1, <1>2, <1>3, <1>4, <1>5, <1>6, <1>7, <1>8, <1>9, <1>10, <1>11, <1>12, <1>13, <1>14, <1>15, <1>16, <1>17, <1>18, <1>19, <1>20, <1>21, <1>22, <1>23, <1>24, <1>25, <1>26, <1>27, <1>28 DEF Kinds, Fields

(* What the structures start as are of their types.                        *)
LEMMA StartsTyped ==
  /\ SceneInit \in SceneType
  /\ NodeInit \in NodeType
  /\ PrimitiveInit \in PrimitiveType
  /\ MeshInit \in MeshType
  /\ SkinInit \in SkinType
  /\ TextureInfoInit \in TextureInfoType
  /\ PbrMetallicRoughnessInit \in PbrMetallicRoughnessType
  /\ NormalTextureInit \in NormalTextureType
  /\ OcclusionTextureInit \in OcclusionTextureType
  /\ MaterialInit \in MaterialType
  /\ TextureInit \in TextureType
  /\ SamplerInit \in SamplerType
  /\ ImageInit \in ImageType
  /\ CameraInit \in CameraType
  /\ TargetInit \in TargetType
  /\ ChannelInit \in ChannelType
  /\ AnimationSamplerInit \in AnimationSamplerType
  /\ AnimationInit \in AnimationType
  /\ SparseIndicesInit \in SparseIndicesType
  /\ SparseValuesInit \in SparseValuesType
  /\ SparseInit \in SparseType
  /\ AccessorInit \in AccessorType
  /\ BufferViewInit \in BufferViewType
  /\ BufferInit \in BufferType
  /\ AssetInit \in AssetType
  /\ FileInit \in FileType
<1>1. SceneInit \in SceneType
  BY DEF SceneInit, SceneType, Unset, One, Strings
<1>2. NodeInit \in NodeType
  BY DEF NodeInit, NodeType, Unset, One, Strings, IdentityTRS
<1>3. PrimitiveInit \in PrimitiveType
  BY DEF PrimitiveInit, PrimitiveType, Unset, One, Strings, PairsType, Triangles
<1>4. MeshInit \in MeshType
  BY DEF MeshInit, MeshType, Unset, One, Strings
<1>5. SkinInit \in SkinType
  BY DEF SkinInit, SkinType, Unset, One, Strings
<1>6. TextureInfoInit \in TextureInfoType
  BY DEF TextureInfoInit, TextureInfoType, Unset, One, Strings
<1>7. PbrMetallicRoughnessInit \in PbrMetallicRoughnessType
  BY <1>6 DEF PbrMetallicRoughnessInit, PbrMetallicRoughnessType, Unset, One, Strings
<1>8. NormalTextureInit \in NormalTextureType
  BY DEF NormalTextureInit, NormalTextureType, Unset, One, Strings
<1>9. OcclusionTextureInit \in OcclusionTextureType
  BY DEF OcclusionTextureInit, OcclusionTextureType, Unset, One, Strings
<1>10. MaterialInit \in MaterialType
  BY <1>6, <1>7, <1>8, <1>9 DEF MaterialInit, MaterialType, Unset, One, Strings, Half
<1>11. TextureInit \in TextureType
  BY DEF TextureInit, TextureType, Unset, One, Strings
<1>12. SamplerInit \in SamplerType
  BY DEF SamplerInit, SamplerType, Unset, One, Strings, Repeat
<1>13. ImageInit \in ImageType
  BY DEF ImageInit, ImageType, Unset, One, Strings
<1>14. CameraInit \in CameraType
  BY DEF CameraInit, CameraType, Unset, One, Strings, LensType, LensInit, UnsetFloat
<1>15. TargetInit \in TargetType
  BY DEF TargetInit, TargetType, Unset, One, Strings
<1>16. ChannelInit \in ChannelType
  BY <1>15 DEF ChannelInit, ChannelType, Unset, One, Strings
<1>17. AnimationSamplerInit \in AnimationSamplerType
  BY DEF AnimationSamplerInit, AnimationSamplerType, Unset, One, Strings
<1>18. AnimationInit \in AnimationType
  BY DEF AnimationInit, AnimationType, Unset, One, Strings
<1>19. SparseIndicesInit \in SparseIndicesType
  BY DEF SparseIndicesInit, SparseIndicesType, Unset, One, Strings
<1>20. SparseValuesInit \in SparseValuesType
  BY DEF SparseValuesInit, SparseValuesType, Unset, One, Strings
<1>21. SparseInit \in SparseType
  BY <1>19, <1>20 DEF SparseInit, SparseType, Unset, One, Strings
<1>22. AccessorInit \in AccessorType
  BY <1>21 DEF AccessorInit, AccessorType, Unset, One, Strings
<1>23. BufferViewInit \in BufferViewType
  BY DEF BufferViewInit, BufferViewType, Unset, One, Strings
<1>24. BufferInit \in BufferType
  BY DEF BufferInit, BufferType, Unset, One, Strings
<1>25. AssetInit \in AssetType
  BY DEF AssetInit, AssetType, Unset, One, Strings
<1>26. FileInit \in FileType
  BY <1>25 DEF FileInit, FileType, Unset, One, Strings
<1> QED BY <1>1, <1>2, <1>3, <1>4, <1>5, <1>6, <1>7, <1>8, <1>9, <1>10, <1>11, <1>12, <1>13, <1>14, <1>15, <1>16, <1>17, <1>18, <1>19, <1>20, <1>21, <1>22, <1>23, <1>24, <1>25, <1>26

-----------------------------------------------------------------------------
(* The parser's calls and what they return.                                *)

Readers ==
  [reader : {"number"}, float : BOOLEAN]
  \cup [reader : {"numbers"}, float : BOOLEAN, clear : BOOLEAN]
  \cup [reader : {"str", "bool"}]
  \cup [reader : {"object"}, kind : DOMAIN ObjectTypes]
  \cup [reader : {"objects"}, kind : DOMAIN ElementInit]

(* What the tables name are readers.                                       *)
LEMMA ReadersTyped ==
  /\ {Int32, Int64, Float, Str, Bool, Ints, Floats, Factor} \subseteq Readers
  /\ \A k \in DOMAIN ObjectTypes : Object(k) \in Readers
  /\ \A k \in DOMAIN ElementInit : Array(k) \in Readers
  /\ Dict \in Readers /\ DictArray \in Readers
<1>1. {Int32, Int64, Float, Str, Bool, Ints, Floats, Factor} \subseteq Readers
  BY DEF Readers, Int32, Int64, Float, Str, Bool, Ints, Floats, Factor
<1>2. "Dictionary" \in DOMAIN ObjectTypes
  BY DEF ObjectTypes
<1>3. "Dictionary" \in DOMAIN ElementInit
  BY DEF ElementInit
<1>4. \A k \in DOMAIN ObjectTypes : Object(k) \in Readers
  BY DEF Readers, Object
<1>5. \A k \in DOMAIN ElementInit : Array(k) \in Readers
  BY DEF Readers, Array
<1>6. Dict \in Readers
  BY <1>2 DEF Readers, Dict
<1>7. DictArray \in Readers
  BY <1>3 DEF Readers, DictArray
<1> QED BY <1>1, <1>4, <1>5, <1>6, <1>7

(* The kinds of objects, by their names.                                   *)
LEMMA KindsNamed ==
  /\ "File" \in DOMAIN ObjectTypes
  /\ "Scene" \in DOMAIN ObjectTypes
  /\ "Node" \in DOMAIN ObjectTypes
  /\ "Mesh" \in DOMAIN ObjectTypes
  /\ "Primitive" \in DOMAIN ObjectTypes
  /\ "Skin" \in DOMAIN ObjectTypes
  /\ "Material" \in DOMAIN ObjectTypes
  /\ "TextureInfo" \in DOMAIN ObjectTypes
  /\ "PbrMetallicRoughness" \in DOMAIN ObjectTypes
  /\ "NormalTexture" \in DOMAIN ObjectTypes
  /\ "OcclusionTexture" \in DOMAIN ObjectTypes
  /\ "Texture" \in DOMAIN ObjectTypes
  /\ "Sampler" \in DOMAIN ObjectTypes
  /\ "Image" \in DOMAIN ObjectTypes
  /\ "Camera" \in DOMAIN ObjectTypes
  /\ "Perspective" \in DOMAIN ObjectTypes
  /\ "Orthographic" \in DOMAIN ObjectTypes
  /\ "Animation" \in DOMAIN ObjectTypes
  /\ "Channel" \in DOMAIN ObjectTypes
  /\ "Target" \in DOMAIN ObjectTypes
  /\ "AnimationSampler" \in DOMAIN ObjectTypes
  /\ "Accessor" \in DOMAIN ObjectTypes
  /\ "Sparse" \in DOMAIN ObjectTypes
  /\ "SparseIndices" \in DOMAIN ObjectTypes
  /\ "SparseValues" \in DOMAIN ObjectTypes
  /\ "BufferView" \in DOMAIN ObjectTypes
  /\ "Buffer" \in DOMAIN ObjectTypes
  /\ "Asset" \in DOMAIN ObjectTypes
  /\ "Dictionary" \in DOMAIN ObjectTypes
  /\ "Scene" \in DOMAIN ElementInit
  /\ "Node" \in DOMAIN ElementInit
  /\ "Mesh" \in DOMAIN ElementInit
  /\ "Primitive" \in DOMAIN ElementInit
  /\ "Skin" \in DOMAIN ElementInit
  /\ "Material" \in DOMAIN ElementInit
  /\ "Texture" \in DOMAIN ElementInit
  /\ "Sampler" \in DOMAIN ElementInit
  /\ "Image" \in DOMAIN ElementInit
  /\ "Camera" \in DOMAIN ElementInit
  /\ "Animation" \in DOMAIN ElementInit
  /\ "Channel" \in DOMAIN ElementInit
  /\ "AnimationSampler" \in DOMAIN ElementInit
  /\ "Accessor" \in DOMAIN ElementInit
  /\ "BufferView" \in DOMAIN ElementInit
  /\ "Buffer" \in DOMAIN ElementInit
  /\ "Dictionary" \in DOMAIN ElementInit
BY DEF ObjectTypes, ElementInit

(* Every property has a reader.                                            *)
LEMMA FieldsTyped ==
  ASSUME NEW kind \in Kinds, NEW name \in DOMAIN Fields[kind]
  PROVE  Fields[kind][name] \in Readers
<1>1. CASE kind = "File"
  BY <1>1, FieldsNamed, ReadersTyped, KindsNamed DEF FileFields
<1>2. CASE kind = "Scene"
  BY <1>2, FieldsNamed, ReadersTyped, KindsNamed DEF SceneFields
<1>3. CASE kind = "Node"
  BY <1>3, FieldsNamed, ReadersTyped, KindsNamed DEF NodeFields
<1>4. CASE kind = "Mesh"
  BY <1>4, FieldsNamed, ReadersTyped, KindsNamed DEF MeshFields
<1>5. CASE kind = "Primitive"
  BY <1>5, FieldsNamed, ReadersTyped, KindsNamed DEF PrimitiveFields
<1>6. CASE kind = "Skin"
  BY <1>6, FieldsNamed, ReadersTyped, KindsNamed DEF SkinFields
<1>7. CASE kind = "Material"
  BY <1>7, FieldsNamed, ReadersTyped, KindsNamed DEF MaterialFields
<1>8. CASE kind = "TextureInfo"
  BY <1>8, FieldsNamed, ReadersTyped, KindsNamed DEF TextureInfoFields
<1>9. CASE kind = "PbrMetallicRoughness"
  BY <1>9, FieldsNamed, ReadersTyped, KindsNamed DEF PbrMetallicRoughnessFields
<1>10. CASE kind = "NormalTexture"
  BY <1>10, FieldsNamed, ReadersTyped, KindsNamed DEF NormalTextureFields
<1>11. CASE kind = "OcclusionTexture"
  BY <1>11, FieldsNamed, ReadersTyped, KindsNamed DEF OcclusionTextureFields
<1>12. CASE kind = "Texture"
  BY <1>12, FieldsNamed, ReadersTyped, KindsNamed DEF TextureFields
<1>13. CASE kind = "Sampler"
  BY <1>13, FieldsNamed, ReadersTyped, KindsNamed DEF SamplerFields
<1>14. CASE kind = "Image"
  BY <1>14, FieldsNamed, ReadersTyped, KindsNamed DEF ImageFields
<1>15. CASE kind = "Camera"
  BY <1>15, FieldsNamed, ReadersTyped, KindsNamed DEF CameraFields
<1>16. CASE kind = "Perspective"
  BY <1>16, FieldsNamed, ReadersTyped, KindsNamed DEF PerspectiveFields
<1>17. CASE kind = "Orthographic"
  BY <1>17, FieldsNamed, ReadersTyped, KindsNamed DEF OrthographicFields
<1>18. CASE kind = "Animation"
  BY <1>18, FieldsNamed, ReadersTyped, KindsNamed DEF AnimationFields
<1>19. CASE kind = "Channel"
  BY <1>19, FieldsNamed, ReadersTyped, KindsNamed DEF ChannelFields
<1>20. CASE kind = "Target"
  BY <1>20, FieldsNamed, ReadersTyped, KindsNamed DEF TargetFields
<1>21. CASE kind = "AnimationSampler"
  BY <1>21, FieldsNamed, ReadersTyped, KindsNamed DEF AnimationSamplerFields
<1>22. CASE kind = "Accessor"
  BY <1>22, FieldsNamed, ReadersTyped, KindsNamed DEF AccessorFields
<1>23. CASE kind = "Sparse"
  BY <1>23, FieldsNamed, ReadersTyped, KindsNamed DEF SparseFields
<1>24. CASE kind = "SparseIndices"
  BY <1>24, FieldsNamed, ReadersTyped, KindsNamed DEF SparseIndicesFields
<1>25. CASE kind = "SparseValues"
  BY <1>25, FieldsNamed, ReadersTyped, KindsNamed DEF SparseValuesFields
<1>26. CASE kind = "BufferView"
  BY <1>26, FieldsNamed, ReadersTyped, KindsNamed DEF BufferViewFields
<1>27. CASE kind = "Buffer"
  BY <1>27, FieldsNamed, ReadersTyped, KindsNamed DEF BufferFields
<1>28. CASE kind = "Asset"
  BY <1>28, FieldsNamed, ReadersTyped, KindsNamed DEF AssetFields
<1> QED BY <1>1, <1>2, <1>3, <1>4, <1>5, <1>6, <1>7, <1>8, <1>9, <1>10, <1>11, <1>12, <1>13, <1>14, <1>15, <1>16, <1>17, <1>18, <1>19, <1>20, <1>21, <1>22, <1>23, <1>24, <1>25, <1>26, <1>27, <1>28 DEF Kinds, Fields

(* What is appended to a list is of the type of its elements.              *)
LEMMA ElementsTyped ==
  ASSUME NEW kind \in DOMAIN ElementInit
  PROVE  kind \in DOMAIN ObjectTypes /\ ElementInit[kind] \in ObjectTypes[kind]
<1>1. CASE kind = "Scene"
  BY <1>1, StartsTyped, TypesNamed, KindsNamed DEF ElementInit
<1>2. CASE kind = "Node"
  BY <1>2, StartsTyped, TypesNamed, KindsNamed DEF ElementInit
<1>3. CASE kind = "Mesh"
  BY <1>3, StartsTyped, TypesNamed, KindsNamed DEF ElementInit
<1>4. CASE kind = "Primitive"
  BY <1>4, StartsTyped, TypesNamed, KindsNamed DEF ElementInit
<1>5. CASE kind = "Skin"
  BY <1>5, StartsTyped, TypesNamed, KindsNamed DEF ElementInit
<1>6. CASE kind = "Material"
  BY <1>6, StartsTyped, TypesNamed, KindsNamed DEF ElementInit
<1>7. CASE kind = "Texture"
  BY <1>7, StartsTyped, TypesNamed, KindsNamed DEF ElementInit
<1>8. CASE kind = "Sampler"
  BY <1>8, StartsTyped, TypesNamed, KindsNamed DEF ElementInit
<1>9. CASE kind = "Image"
  BY <1>9, StartsTyped, TypesNamed, KindsNamed DEF ElementInit
<1>10. CASE kind = "Camera"
  BY <1>10, StartsTyped, TypesNamed, KindsNamed DEF ElementInit
<1>11. CASE kind = "Animation"
  BY <1>11, StartsTyped, TypesNamed, KindsNamed DEF ElementInit
<1>12. CASE kind = "Channel"
  BY <1>12, StartsTyped, TypesNamed, KindsNamed DEF ElementInit
<1>13. CASE kind = "AnimationSampler"
  BY <1>13, StartsTyped, TypesNamed, KindsNamed DEF ElementInit
<1>14. CASE kind = "Accessor"
  BY <1>14, StartsTyped, TypesNamed, KindsNamed DEF ElementInit
<1>15. CASE kind = "BufferView"
  BY <1>15, StartsTyped, TypesNamed, KindsNamed DEF ElementInit
<1>16. CASE kind = "Buffer"
  BY <1>16, StartsTyped, TypesNamed, KindsNamed DEF ElementInit
<1>17. CASE kind = "Dictionary"
  BY <1>17, StartsTyped, TypesNamed, KindsNamed DEF ElementInit, PairsType
<1> QED BY <1>1, <1>2, <1>3, <1>4, <1>5, <1>6, <1>7, <1>8, <1>9, <1>10, <1>11, <1>12, <1>13, <1>14, <1>15, <1>16, <1>17 DEF ElementInit

Places == {""} \cup (1..4) \cup {"lens"} \cup UNION {DOMAIN Fields[k] : k \in Kinds}

ObjectFrames(k) ==
  [call : {"object"}, kind : {k}, place : Places, val : ObjectTypes[k],
   at : {"first"}, key : {""}]
DictionaryFrames ==
  [call : {"dictionary"}, kind : {"Dictionary"}, place : Places,
   val : PairsType, key : Strings,
   at : {"first", "colon", "number", "next", "key"}]
ListFrames(k) ==
  [call : {"objects"}, kind : {k}, place : Places, val : Seq(ObjectTypes[k])]
NumbersFrames ==
  [call : {"numbers"}, float : BOOLEAN, place : Places, val : Seq(Int)]
NumFrames == [call : {"value"}, type : {"Num"}, float : BOOLEAN, place : Places]
ValueFrames == [call : {"value"}, type : {"Str", "Bool"}, place : Places]
ConsumeFrames ==
  [call : {"consume"}, at : {"colon", "value", "nested"}, op : Strings, n : Int]

AnyObject == UNION {ObjectFrames(k) : k \in Kinds}
AnyList == UNION {ListFrames(k) : k \in DOMAIN ElementInit}

Frames ==
  AnyObject \cup DictionaryFrames \cup AnyList \cup NumbersFrames \cup NumFrames \cup ValueFrames \cup ConsumeFrames

(* What a call returns.                                                    *)
Results(f) ==
  CASE f.call \in {"object", "dictionary"} -> ObjectTypes[f.kind]
    [] f.call = "objects" -> Seq(ObjectTypes[f.kind])
    [] f.call = "numbers" -> Seq(Int)
    [] f.call = "value" /\ f.type = "Num" -> Int
    [] f.call = "value" /\ f.type = "Str" -> Strings
    [] f.call = "value" /\ f.type = "Bool" -> BOOLEAN

(* A call that another may make.                                           *)
Takes(caller, f) ==
  \/ caller.call = "object" /\ f.call = "consume"
  \/ /\ caller.call = "object" /\ f.call # "consume"
     /\ FitsAt(ObjectTypes[caller.kind], f.place, Results(f))
  \/ /\ caller.call = "objects" /\ f.call \in {"object", "dictionary"}
     /\ f.kind = caller.kind

StackOK(s) ==
  /\ s \in Seq(Frames)
  /\ \A k \in 2..Len(s) : Takes(s[k - 1], s[k])
  /\ Len(s) > 0 => s[1].call = "object" /\ s[1].kind = "File"

ParserInv ==
  /\ text \in Seq(Symbols)
  /\ pos \in Nat
  /\ StackOK(stack)
  /\ gltf \in FileType
  /\ status = "reading" => (pos = 0 <=> stack = <<>>)

(* The kinds of frames, by what is called.                                 *)
LEMMA FrameKinds ==
  ASSUME NEW f \in Frames
  PROVE  \/ f.call = "object" /\ f.kind \in Kinds /\ f \in ObjectFrames(f.kind)
         \/ f.call = "dictionary" /\ f \in DictionaryFrames
         \/ /\ f.call = "objects" /\ f.kind \in DOMAIN ElementInit
            /\ f \in ListFrames(f.kind)
         \/ f.call = "numbers" /\ f \in NumbersFrames
         \/ f.call = "value" /\ f.type = "Num" /\ f \in NumFrames
         \/ f.call = "value" /\ f.type \in {"Str", "Bool"} /\ f \in ValueFrames
         \/ f.call = "consume" /\ f \in ConsumeFrames
<1>1. CASE f \in AnyObject
  <2>1. PICK k \in Kinds : f \in ObjectFrames(k)
    BY <1>1, Zenon DEF AnyObject
  <2> QED BY <2>1 DEF ObjectFrames
<1>2. CASE f \in DictionaryFrames
  BY <1>2 DEF DictionaryFrames
<1>3. CASE f \in AnyList
  <2>1. PICK k \in DOMAIN ElementInit : f \in ListFrames(k)
    BY <1>3, Zenon DEF AnyList
  <2> QED BY <2>1 DEF ListFrames
<1>4. CASE f \in NumbersFrames
  BY <1>4 DEF NumbersFrames
<1>5. CASE f \in NumFrames
  BY <1>5 DEF NumFrames
<1>6. CASE f \in ValueFrames
  BY <1>6 DEF ValueFrames
<1>7. CASE f \in ConsumeFrames
  BY <1>7 DEF ConsumeFrames
<1> QED BY <1>1, <1>2, <1>3, <1>4, <1>5, <1>6, <1>7 DEF Frames

(* A call that reads an object.                                            *)
LEMMA ObjectCallTyped ==
  ASSUME NEW kind \in DOMAIN ObjectTypes, NEW place \in Places,
         NEW val \in ObjectTypes[kind]
  PROVE  LET c == ObjectCall(kind, place, val)
         IN  /\ c \in Frames /\ c.call \in {"object", "dictionary"}
             /\ c.kind = kind /\ c.place = place
<1>1. kind = "Dictionary" \/ kind \in Kinds
  BY DEF Kinds, Fields, ObjectTypes
<1>2. CASE kind = "Dictionary"
  <2>1. val \in PairsType
    BY <1>2, TypesNamed
  <2>2. "" \in Strings
    BY DEF Strings
  <2>3. ObjectCall(kind, place, val) \in DictionaryFrames
    BY <2>1, <2>2, <1>2 DEF DictionaryFrames, ObjectCall
  <2> QED BY <2>3, <1>2 DEF Frames, ObjectCall
<1>3. CASE kind # "Dictionary"
  <2>2. ObjectCall(kind, place, val) \in ObjectFrames(kind)
    BY <1>3 DEF ObjectFrames, ObjectCall
  <2>3. ObjectCall(kind, place, val) \in AnyObject
    BY <2>2, <1>1, <1>3, Zenon DEF AnyObject
  <2> QED BY <1>3, <2>3 DEF Frames, ObjectCall
<1> QED BY <1>2, <1>3

(* A call for a property can be made.                                      *)
LEMMA CallForTyped ==
  ASSUME NEW kind \in Kinds, NEW name \in DOMAIN Fields[kind],
         NEW val \in ObjectTypes[kind],
         NEW caller, caller.call = "object", caller.kind = kind,
         NEW c, c = CallFor(Fields[kind][name], Place(kind, name),
                            val[Place(kind, name)])
  PROVE  c \in Frames /\ Takes(caller, c)
<1> PICK field : field = Fields[kind][name]
  OBVIOUS
<1> PICK place : place = Place(kind, name)
  OBVIOUS
<1> PICK old : old = val[place]
  OBVIOUS
<1>1. field \in Readers
  BY FieldsTyped
<1>2. FitsAt(ObjectTypes[kind], place, ValuesOf(field))
  BY FieldFits
<1>3. old \in ValuesOf(field)
  BY <1>2 DEF FitsAt
<1>4. place \in Places
  <2>1. name \in Places
    BY DEF Places
  <2>2. CASE kind = "Perspective"
    <3>1. place \in 1..4
      BY <2>2, FieldsNamed DEF Place, Projections, LensSlot, PerspectiveFields
    <3> QED BY <3>1 DEF Places
  <2>3. CASE kind = "Orthographic"
    <3>1. place \in 1..4
      BY <2>3, FieldsNamed DEF Place, Projections, LensSlot, OrthographicFields
    <3> QED BY <3>1 DEF Places
  <2>4. CASE kind \notin {"Perspective", "Orthographic"}
    <3>1. place = name \/ place = "lens"
      BY <2>4 DEF Place
    <3> QED BY <3>1, <2>1 DEF Places
  <2> QED BY <2>2, <2>3, <2>4
<1>5. c = CallFor(field, place, old)
  OBVIOUS
<1>6. SUFFICES c \in Frames /\ c.call # "consume" /\ Results(c) = ValuesOf(field)
                /\ c.place = place
  BY <1>2 DEF Takes
<1>7. CASE field.reader = "number"
  <2>1. field.float \in BOOLEAN
    BY <1>1, <1>7 DEF Readers
  <2>2. c = [call |-> "value", type |-> "Num", place |-> place, float |-> field.float]
    BY <1>5, <1>7 DEF CallFor
  <2>8. c \in NumFrames
    BY <2>1, <2>2, <1>4 DEF NumFrames
  <2>9. Results(c) = ValuesOf(field)
    BY <2>2, <1>7 DEF Results, ValuesOf
  <2> QED BY <2>8, <2>9, <2>2 DEF Frames
<1>8. CASE field.reader = "numbers"
  <2>1. field.float \in BOOLEAN
    BY <1>1, <1>8 DEF Readers
  <2>2. c = [call |-> "numbers", float |-> field.float, place |-> place,
             val |-> IF field.clear THEN <<>> ELSE old]
    BY <1>5, <1>8 DEF CallFor
  <2>3. old \in Seq(Int)
    BY <1>3, <1>8 DEF ValuesOf
  <2>4. (IF field.clear THEN <<>> ELSE old) \in Seq(Int)
    BY <2>3
  <2>8. c \in NumbersFrames
    BY <2>1, <2>2, <2>4, <1>4 DEF NumbersFrames
  <2>9. Results(c) = ValuesOf(field)
    BY <2>2, <1>8 DEF Results, ValuesOf
  <2> QED BY <2>8, <2>9, <2>2 DEF Frames
<1>9. CASE field.reader = "str"
  <2>1. c = [call |-> "value", type |-> "Str", place |-> place]
    BY <1>5, <1>9 DEF CallFor, Value
  <2>8. c \in ValueFrames
    BY <2>1, <1>4 DEF ValueFrames
  <2>9. Results(c) = ValuesOf(field)
    BY <2>1, <1>9 DEF Results, ValuesOf
  <2> QED BY <2>8, <2>9, <2>1 DEF Frames
<1>10. CASE field.reader = "bool"
  <2>1. c = [call |-> "value", type |-> "Bool", place |-> place]
    BY <1>5, <1>10 DEF CallFor, Value
  <2>8. c \in ValueFrames
    BY <2>1, <1>4 DEF ValueFrames
  <2>9. Results(c) = ValuesOf(field)
    BY <2>1, <1>10 DEF Results, ValuesOf
  <2> QED BY <2>8, <2>9, <2>1 DEF Frames
<1>11. CASE field.reader = "object"
  <2>1. field.kind \in DOMAIN ObjectTypes
    BY <1>1, <1>11 DEF Readers
  <2>2. c = ObjectCall(field.kind, place, old)
    BY <1>5, <1>11 DEF CallFor
  <2>3. old \in ObjectTypes[field.kind]
    BY <1>3, <1>11 DEF ValuesOf
  <2>4. c \in Frames /\ c.call \in {"object", "dictionary"} /\ c.kind = field.kind
        /\ c.place = place
    BY <2>1, <2>2, <2>3, <1>4, ObjectCallTyped
  <2>5. Results(c) = ObjectTypes[field.kind]
    BY <2>4 DEF Results
  <2> QED BY <2>4, <2>5, <1>11 DEF ValuesOf
<1>12. CASE field.reader = "objects"
  <2>1. field.kind \in DOMAIN ElementInit
    BY <1>1, <1>12 DEF Readers
  <2>2. c = [call |-> "objects", kind |-> field.kind, place |-> place, val |-> old]
    BY <1>5, <1>12 DEF CallFor
  <2>3. old \in Seq(ObjectTypes[field.kind])
    BY <1>3, <1>12 DEF ValuesOf
  <2>8. c \in ListFrames(field.kind)
    BY <2>1, <2>2, <2>3, <1>4 DEF ListFrames
  <2>9. Results(c) = ValuesOf(field)
    BY <2>2, <1>12 DEF Results, ValuesOf
  <2>10. c \in AnyList
    BY <2>1, <2>8, Zenon DEF AnyList
  <2> QED BY <2>10, <2>9, <2>2 DEF Frames
<1> QED BY <1>1, <1>7, <1>8, <1>9, <1>10, <1>11, <1>12 DEF Readers

(* A list that something is appended to.                                   *)
LEMMA AppendTyped ==
  ASSUME NEW T, NEW list \in Seq(T), NEW e \in T
  PROVE  /\ Append(list, e) \in Seq(T) /\ Len(Append(list, e)) = Len(list) + 1
         /\ Append(list, e)[Len(list) + 1] = e
         /\ \A k \in 1..Len(list) : Append(list, e)[k] = list[k]
OBVIOUS

(* A call that is made.                                                    *)
LEMMA Pushed ==
  ASSUME NEW s, StackOK(s), Len(s) > 0, NEW c \in Frames, Takes(s[Len(s)], c)
  PROVE  StackOK(Append(s, c)) /\ Append(s, c) # <<>>
<1>1. s \in Seq(Frames)
  BY DEF StackOK
<1>2. PICK t : t = Append(s, c)
  OBVIOUS
<1>3. /\ t \in Seq(Frames) /\ Len(t) = Len(s) + 1 /\ t[Len(s) + 1] = c
      /\ \A k \in 1..Len(s) : t[k] = s[k]
  BY <1>1, <1>2
<1>4. \A k \in 2..Len(t) : Takes(t[k - 1], t[k])
  <2> TAKE k \in 2..Len(t)
  <2>1. CASE k = Len(t)
    BY <2>1, <1>1, <1>3
  <2>2. CASE k # Len(t)
    <3>1. k \in 2..Len(s) /\ k - 1 \in 1..Len(s) /\ k \in 1..Len(s)
      BY <2>2, <1>1, <1>3
    <3> QED BY <3>1, <1>3 DEF StackOK
  <2> QED BY <2>1, <2>2
<1>5. t[1].call = "object" /\ t[1].kind = "File"
  BY <1>1, <1>3 DEF StackOK
<1> QED BY <1>2, <1>3, <1>4, <1>5, <1>1 DEF StackOK

(* A call that returns.                                                    *)
LEMMA Popped ==
  ASSUME NEW s, StackOK(s), Len(s) > 1
  PROVE  /\ StackOK(Front(s)) /\ Len(Front(s)) = Len(s) - 1
         /\ Front(s) # <<>>
         /\ \A k \in 1..(Len(s) - 1) : Front(s)[k] = s[k]
<1>1. s \in Seq(Frames) /\ Len(s) \in Nat
  BY DEF StackOK
<1>2. PICK t : t = Front(s)
  OBVIOUS
<1>3. t = SubSeq(s, 1, Len(s) - 1)
  BY <1>2 DEF Front
<1>4. /\ t \in Seq(Frames) /\ Len(t) = Len(s) - 1
      /\ \A k \in 1..(Len(s) - 1) : t[k] = s[k]
  BY <1>1, <1>3
<1>5. \A k \in 2..Len(t) : Takes(t[k - 1], t[k])
  <2> TAKE k \in 2..Len(t)
  <2>1. k \in 2..Len(s) /\ k \in 1..(Len(s) - 1) /\ k - 1 \in 1..(Len(s) - 1)
    BY <1>1, <1>4
  <2> QED BY <2>1, <1>4 DEF StackOK
<1>6. t[1].call = "object" /\ t[1].kind = "File"
  BY <1>1, <1>4 DEF StackOK
<1> QED BY <1>1, <1>2, <1>4, <1>5, <1>6 DEF StackOK

(* A call that goes on.                                                    *)
LEMMA Replaced ==
  ASSUME NEW s, StackOK(s), Len(s) > 0, NEW c \in Frames,
         Len(s) = 1 => c.call = "object" /\ c.kind = "File",
         Len(s) > 1 => Takes(s[Len(s) - 1], c)
  PROVE  StackOK(Append(Front(s), c)) /\ Append(Front(s), c) # <<>>
<1>1. s \in Seq(Frames) /\ Len(s) \in Nat
  BY DEF StackOK
<1>2. CASE Len(s) > 1
  <2>1. /\ StackOK(Front(s)) /\ Len(Front(s)) = Len(s) - 1
        /\ \A k \in 1..(Len(s) - 1) : Front(s)[k] = s[k]
    BY <1>2, Popped
  <2>2. Takes(Front(s)[Len(Front(s))], c) /\ Len(Front(s)) > 0
    BY <2>1, <1>1, <1>2
  <2> QED BY <2>1, <2>2, Pushed
<1>3. CASE Len(s) = 1
  <2>1. Front(s) = <<>>
    BY <1>1, <1>3 DEF Front
  <2>2. Append(Front(s), c) = <<c>>
    BY <2>1
  <2>3. <<c>> \in Seq(Frames) /\ Len(<<c>>) = 1 /\ <<c>>[1] = c
    OBVIOUS
  <2>4. c.call = "object" /\ c.kind = "File"
    BY <1>3
  <2>5. StackOK(<<c>>)
    BY <2>3, <2>4 DEF StackOK
  <2>6. <<c>> # <<>>
    OBVIOUS
  <2> QED BY <2>2, <2>5, <2>6
<1>4. Len(s) > 1 \/ Len(s) = 1
  BY <1>1
<1> QED BY <1>2, <1>3, <1>4, Zenon

(* What the next step finds.                                               *)
LEMMA TopOK ==
  ASSUME StackOK(stack), stack # <<>>
  PROVE  /\ Len(stack) \in Nat /\ Len(stack) > 0
         /\ Top \in Frames /\ Top = stack[Len(stack)]
         /\ Len(stack) = 1 => /\ Top.call = "object" /\ Top.kind = "File"
                              /\ Callers = <<>>
         /\ Len(stack) > 1 => /\ Takes(Last(Callers), Top)
                              /\ Last(Callers) = stack[Len(stack) - 1]
                              /\ Last(Callers) \in Frames
                              /\ Callers # <<>>
<1>1. stack \in Seq(Frames) /\ Len(stack) \in Nat /\ Len(stack) > 0
  BY DEF StackOK
<1>2. Top = stack[Len(stack)] /\ Top \in Frames
  BY <1>1 DEF Top, Last
<1>3. ASSUME Len(stack) = 1
      PROVE  Top.call = "object" /\ Top.kind = "File" /\ Callers = <<>>
  BY <1>1, <1>2, <1>3 DEF StackOK, Callers, Front
<1>4. ASSUME Len(stack) > 1
      PROVE  /\ Takes(Last(Callers), Top)
             /\ Last(Callers) = stack[Len(stack) - 1]
             /\ Last(Callers) \in Frames /\ Callers # <<>>
  <2>1. /\ Len(Callers) = Len(stack) - 1 /\ Callers # <<>>
        /\ \A k \in 1..(Len(stack) - 1) : Callers[k] = stack[k]
    BY <1>4, Popped DEF Callers
  <2>2. Last(Callers) = stack[Len(stack) - 1]
    BY <2>1, <1>1, <1>4 DEF Last
  <2>3. Len(stack) - 1 \in 1..Len(stack) /\ Len(stack) \in 2..Len(stack)
    BY <1>1, <1>4
  <2> QED BY <2>1, <2>2, <2>3, <1>1, <1>2 DEF StackOK
<1> QED BY <1>1, <1>2, <1>3, <1>4

(* A call that changed, but not what it returns or where to.               *)
LEMMA TakesSame ==
  ASSUME NEW caller, NEW f, NEW c, Takes(caller, f), c.call = f.call,
         f.call # "consume" => Results(c) = Results(f) /\ c.place = f.place,
         f.call \in {"object", "dictionary"} => c.kind = f.kind
  PROVE  Takes(caller, c)
BY DEF Takes

StepOK ==
  /\ StackOK(stack') /\ gltf' \in FileType
  /\ status' = "reading" => stack' # <<>>

(* Return.                                                                 *)
LEMMA ReturnOK ==
  ASSUME ParserInv, stack # <<>>, Top.call # "consume",
         NEW val \in Results(Top), Return(val)
  PROVE  StepOK
<1> DEFINE s == stack
           caller == Last(Callers)
<1>1. StackOK(stack) /\ gltf \in FileType
  BY DEF ParserInv
<1>2. CASE Len(stack) = 1
  <2>1. Top.call = "object" /\ Top.kind = "File" /\ Callers = <<>>
    BY <1>1, <1>2, TopOK
  <2>2. val \in FileType
    BY <2>1, TypesNamed DEF Results
  <2>3. stack' = <<>> /\ gltf' = val /\ status' = "done"
    BY <2>1 DEF Return
  <2>4. StackOK(<<>>)
    BY DEF StackOK
  <2> QED BY <2>2, <2>3, <2>4 DEF StepOK
<1>3. CASE Len(stack) > 1
  <2>1. /\ Takes(caller, Top) /\ caller \in Frames /\ Callers # <<>>
        /\ caller = stack[Len(stack) - 1]
    BY <1>1, <1>3, TopOK
  <2>2. StackOK(Callers) /\ Len(Callers) > 0 /\ caller = Callers[Len(Callers)]
    BY <1>1, <1>3, Popped DEF Callers, Last
  <2>3. PICK c : c = IF caller.call = "objects"
                     THEN [caller EXCEPT !.val = Append(@, val)]
                     ELSE [caller EXCEPT !.val[Top.place] = val]
    OBVIOUS
  <2>4. stack' = Append(Front(Callers), c) /\ UNCHANGED <<gltf, status>>
    BY <2>1, <2>3 DEF Return
  <2>5. c \in Frames /\ c.call = caller.call /\ c.kind = caller.kind
        /\ c.place = caller.place /\ caller.call \in {"object", "objects"}
    <3>1. CASE caller.call = "object"
      <4>1. caller.kind \in Kinds /\ caller \in ObjectFrames(caller.kind)
        BY <2>1, <3>1, FrameKinds
      <4>2. FitsAt(ObjectTypes[caller.kind], Top.place, Results(Top))
        BY <2>1, <3>1 DEF Takes
      <4>3. caller.val \in ObjectTypes[caller.kind]
        BY <4>1 DEF ObjectFrames
      <4>4. [caller.val EXCEPT ![Top.place] = val] \in ObjectTypes[caller.kind]
        BY <4>2, <4>3 DEF FitsAt
      <4>5. c = [caller EXCEPT !.val = [caller.val EXCEPT ![Top.place] = val]]
        BY <2>3, <3>1
      <4>6. c \in ObjectFrames(caller.kind)
        BY <4>1, <4>4, <4>5 DEF ObjectFrames
      <4>7. c \in AnyObject
        BY <4>1, <4>6, Zenon DEF AnyObject
      <4> QED BY <3>1, <4>1, <4>6, <4>7, <4>5 DEF Frames, ObjectFrames
    <3>2. CASE caller.call = "objects"
      <4>1. caller.kind \in DOMAIN ElementInit /\ caller \in ListFrames(caller.kind)
        BY <2>1, <3>2, FrameKinds
      <4>2. Results(Top) = ObjectTypes[caller.kind]
        BY <2>1, <3>2 DEF Takes, Results
      <4>3. caller.val \in Seq(ObjectTypes[caller.kind])
        BY <4>1 DEF ListFrames
      <4>4. Append(caller.val, val) \in Seq(ObjectTypes[caller.kind])
        <5> PICK T : T = ObjectTypes[caller.kind]
          OBVIOUS
        <5> PICK list : list = caller.val
          OBVIOUS
        <5>1. list \in Seq(T) /\ val \in T
          BY <4>2, <4>3
        <5>2. Append(list, val) \in Seq(T)
          BY <5>1, AppendTyped
        <5> QED BY <5>2
      <4>5. c = [caller EXCEPT !.val = Append(caller.val, val)]
        BY <2>3, <3>2
      <4>6. c \in ListFrames(caller.kind)
        BY <4>1, <4>4, <4>5 DEF ListFrames
      <4>7. c \in AnyList
        BY <4>1, <4>6, Zenon DEF AnyList
      <4> QED BY <3>2, <4>1, <4>6, <4>7, <4>5 DEF Frames, ListFrames
    <3> QED BY <2>1, <3>1, <3>2 DEF Takes
  <2>6. Results(c) = Results(caller)
    BY <2>5 DEF Results
  <2>7. Len(Callers) > 1 => Takes(Callers[Len(Callers) - 1], c)
    <3> HAVE Len(Callers) > 1
    <3>1. Takes(Callers[Len(Callers) - 1], Callers[Len(Callers)])
      <4>1. Len(Callers) \in 2..Len(Callers)
        BY <2>2 DEF StackOK
      <4> QED BY <4>1, <2>2 DEF StackOK
    <3> QED BY <3>1, <2>2, <2>5, <2>6, TakesSame
  <2>8. Len(Callers) = 1 => c.call = "object" /\ c.kind = "File"
    BY <2>2, <2>5 DEF StackOK
  <2>9. StackOK(Append(Front(Callers), c)) /\ Append(Front(Callers), c) # <<>>
    BY <2>2, <2>5, <2>7, <2>8, Replaced
  <2> QED BY <2>4, <2>9, <1>1 DEF StepOK
<1> QED BY <1>1, <1>2, <1>3, TopOK

(* What a symbol is.                                                       *)
LEMMA SymbolKinds ==
  ASSUME NEW sym \in Symbols \cup {End}
  PROVE  /\ sym.type \in {"Op", "Str", "Bool", "Num", "Null", "End", "Err"}
         /\ sym.type \in {"Op", "Str"} => sym.tok \in STRING
         /\ sym.type = "Bool" => sym.bool \in BOOLEAN
         /\ sym.type = "Num" => sym.num \in Int
BY DEF Symbols, End, Null, Err

(* What the symbols that are compared with are.                            *)
LEMMA IsOp ==
  ASSUME NEW sym, NEW c, Is(sym, c)
  PROVE  sym.type = "Op" /\ sym.tok = c
<1>1. sym = [type |-> "Op", tok |-> c]
  BY DEF Is, Op
<1> QED BY <1>1

(* A number's text converts to an integer.                                 *)
LEMMA ConvertedInt ==
  ASSUME NEW num \in Int, NEW float \in BOOLEAN
  PROVE  Converted(num, float) \in Int
BY DEF Converted

(* A node's transform is a list of numbers.                                *)
LEMMA TransformTyped ==
  ASSUME NEW node \in NodeType
  PROVE  TransformOf(node) \in Seq(Int)
<1>1. /\ node.matrix \in Seq(Int) /\ node.translation \in Seq(Int)
      /\ node.rotation \in Seq(Int) /\ node.scale \in Seq(Int)
  BY DEF NodeType
<1>2. IdentityTRS \in Seq(Int) /\ Len(IdentityTRS) = 10
  BY DEF IdentityTRS, One
<1>3. /\ SubSeq(IdentityTRS, 1, 3) \in Seq(Int) /\ SubSeq(IdentityTRS, 4, 7) \in Seq(Int)
      /\ SubSeq(IdentityTRS, 8, 10) \in Seq(Int)
  <2> PICK list : list = IdentityTRS
    OBVIOUS
  <2>1. list \in Seq(Int) /\ Len(list) = 10
    BY <1>2
  <2>0. \A i \in 1..10 : list[i] \in Int
    BY <2>1, ElementOfSeq
  <2>2. SubSeq(list, 1, 3) \in Seq(Int)
    BY <2>0, SubSeqProperties
  <2>3. SubSeq(list, 4, 7) \in Seq(Int)
    BY <2>0, SubSeqProperties
  <2>4. SubSeq(list, 8, 10) \in Seq(Int)
    BY <2>0, SubSeqProperties
  <2> QED BY <2>2, <2>3, <2>4
<1>4. /\ Given(node.translation, SubSeq(IdentityTRS, 1, 3)) \in Seq(Int)
      /\ Given(node.rotation, SubSeq(IdentityTRS, 4, 7)) \in Seq(Int)
      /\ Given(node.scale, SubSeq(IdentityTRS, 8, 10)) \in Seq(Int)
  BY <1>1, <1>3 DEF Given
<1> HIDE DEF IdentityTRS, Given
<1> QED BY <1>1, <1>4 DEF TransformOf

(* Ways for a step to end.                                                 *)
LEMMA StayOK ==
  ASSUME ParserInv, stack # <<>>, Stay
  PROVE  StepOK
BY DEF ParserInv, Stay, StepOK

(* A step that throws keeps the invariant.                                 *)
LEMMA ThrowOK ==
  ASSUME ParserInv, Throw
  PROVE  StepOK
BY DEF ParserInv, Throw, StepOK

(* So does one that calls a function that the current one may call.        *)
LEMMA CallOK ==
  ASSUME ParserInv, stack # <<>>, NEW c \in Frames, Takes(Top, c), Call(c)
  PROVE  StepOK
<1>1. StackOK(stack) /\ Len(stack) > 0 /\ Top = stack[Len(stack)]
  BY TopOK DEF ParserInv
<1>2. StackOK(Append(stack, c)) /\ Append(stack, c) # <<>>
  BY <1>1, Pushed
<1> QED BY <1>2 DEF ParserInv, Call, StepOK

(* So does one that changes the call, but not whose it is nor what it      *)
(* returns into.                                                           *)
LEMMA BecomeOK ==
  ASSUME ParserInv, stack # <<>>, NEW c \in Frames, Become(c),
         c.call = Top.call, Top.call \notin {"object"},
         Top.call # "consume" => Results(c) = Results(Top) /\ c.place = Top.place,
         Top.call = "dictionary" => c.kind = Top.kind
  PROVE  StepOK
<1>1. StackOK(stack) /\ gltf \in FileType
  BY DEF ParserInv
<1>2. Len(stack) > 1 /\ Takes(stack[Len(stack) - 1], Top)
  <2>1. Len(stack) \in Nat /\ Len(stack) > 0
    BY <1>1, TopOK
  <2>2. Len(stack) # 1
    BY <1>1, TopOK
  <2>3. Len(stack) > 1
    BY <2>1, <2>2
  <2> QED BY <2>3, <1>1, TopOK
<1>3. Takes(stack[Len(stack) - 1], c)
  BY <1>2, TakesSame
<1>4. Len(stack) # 1 /\ Len(stack) > 0
  BY <1>1, <1>2, TopOK
<1>5. StackOK(Append(Front(stack), c)) /\ Append(Front(stack), c) # <<>>
  BY <1>1, <1>3, <1>4, Replaced
<1> QED BY <1>1, <1>5 DEF Become, Callers, StepOK

(* So does the end of a value that nobody wants.                           *)
LEMMA LeaveOK ==
  ASSUME ParserInv, stack # <<>>, Top.call = "consume", Leave
  PROVE  StepOK
<1>1. StackOK(stack) /\ gltf \in FileType
  BY DEF ParserInv
<1>2. Len(stack) > 1
  <2>1. Len(stack) \in Nat /\ Len(stack) > 0
    BY <1>1, TopOK
  <2>2. Len(stack) # 1
    BY <1>1, TopOK
  <2> PICK n : n = Len(stack)
    OBVIOUS
  <2>3. n \in Nat /\ n > 0 /\ n # 1
    BY <2>1, <2>2
  <2> QED BY <2>3
<1>3. StackOK(Front(stack)) /\ Front(stack) # <<>>
  BY <1>1, <1>2, Popped
<1> QED BY <1>1, <1>3 DEF Leave, Callers, StepOK

(* Each function's step.                                                   *)
LEMMA InObjectOK ==
  ASSUME ParserInv, stack # <<>>, NEW sym \in Symbols \cup {End}, InObject(sym)
  PROVE  StepOK
<1>1. StackOK(stack) /\ Top \in Frames
  BY TopOK DEF ParserInv
<1>2. Top.call = "object"
  BY DEF InObject
<1>3. Top.kind \in Kinds /\ Top.val \in ObjectTypes[Top.kind] /\ Top.place \in Places
      /\ Top \in ObjectFrames(Top.kind)
  BY <1>1, <1>2, FrameKinds DEF ObjectFrames
<1>4. Results(Top) = ObjectTypes[Top.kind]
  BY <1>2 DEF Results
<1>5. CASE sym.type = "Str" /\ Knows(Top.kind, sym.tok)
  <2> PICK c : c = CallFor(Fields[Top.kind][sym.tok], Place(Top.kind, sym.tok),
                           Top.val[Place(Top.kind, sym.tok)])
    OBVIOUS
  <2>1. Call(c)
    <3>0. sym.type = "Str"
      BY <1>5
    <3>1. ~Is(sym, "}") /\ sym.type # "Op"
      BY <3>0, IsOp
    <3> QED BY <3>1, <1>5 DEF InObject
  <2>2. sym.tok \in DOMAIN Fields[Top.kind]
    BY <1>5 DEF Knows
  <2>3. c \in Frames /\ Takes(Top, c)
    BY <2>2, <1>2, <1>3, CallForTyped
  <2> QED BY <2>1, <2>3, CallOK
<1>6. CASE sym.type = "Str" /\ ~Knows(Top.kind, sym.tok)
  <2>1. Call(ConsumeCall)
    <3>0. sym.type = "Str"
      BY <1>6
    <3>1. ~Is(sym, "}") /\ sym.type # "Op"
      BY <3>0, IsOp
    <3> QED BY <3>1, <1>6 DEF InObject
  <2>2. ConsumeCall \in ConsumeFrames
    BY DEF ConsumeCall, ConsumeFrames, Strings
  <2>3. ConsumeCall \in Frames /\ Takes(Top, ConsumeCall)
    BY <2>2, <1>2 DEF Frames, Takes, ConsumeCall
  <2> QED BY <2>1, <2>3, CallOK
<1>7. CASE Is(sym, "}")
  <2>1. sym.type = "Op"
    BY <1>7 DEF Is, Op
  <2>2. CASE Top.kind # "Node"
    <3>1. Return(Top.val)
      BY <1>7, <2>1, <2>2 DEF InObject
    <3> QED BY <3>1, <1>2, <1>3, <1>4, ReturnOK
  <2>3. CASE Top.kind = "Node" /\ SizesRight(Top.val)
    <3>1. Return([Top.val EXCEPT !.transform = TransformOf(Top.val)])
      BY <1>7, <2>1, <2>3 DEF InObject
    <3>2. Top.val \in NodeType
      BY <1>3, <2>3, TypesNamed
    <3>3. TransformOf(Top.val) \in Seq(Int)
      BY <3>2, TransformTyped
    <3>4. [Top.val EXCEPT !.transform = TransformOf(Top.val)] \in NodeType
      BY <3>2, <3>3 DEF NodeType
    <3>5. [Top.val EXCEPT !.transform = TransformOf(Top.val)] \in Results(Top)
      BY <3>4, <1>4, <2>3, TypesNamed
    <3> QED BY <3>1, <3>5, <1>2, ReturnOK
  <2>4. CASE Top.kind = "Node" /\ ~SizesRight(Top.val)
    <3>1. Throw
      BY <1>7, <2>1, <2>4 DEF InObject
    <3> QED BY <3>1, ThrowOK
  <2> QED BY <2>2, <2>3, <2>4
<1>8. CASE sym.type = "Op" /\ ~Is(sym, "}")
  <2>1. Stay
    BY <1>8 DEF InObject
  <2> QED BY <2>1, StayOK
<1>9. CASE sym.type # "Op" /\ sym.type # "Str" /\ ~Is(sym, "}")
  <2>1. Throw
    BY <1>9 DEF InObject
  <2> QED BY <2>1, ThrowOK
<1> QED BY <1>5, <1>6, <1>7, <1>8, <1>9

(* The call for an element of an array.                                    *)
LEMMA ElementCallTyped ==
  ASSUME NEW kind \in DOMAIN ElementInit, NEW c,
         c = ObjectCall(kind, "", ElementInit[kind])
  PROVE  c \in Frames /\ c.call \in {"object", "dictionary"} /\ c.kind = kind
<1>1. kind \in DOMAIN ObjectTypes /\ ElementInit[kind] \in ObjectTypes[kind]
  BY ElementsTyped
<1>2. "" \in Places
  BY DEF Places
<1> DEFINE Good(start, place) ==
      LET d == ObjectCall(kind, place, start)
      IN  /\ d \in Frames /\ d.call \in {"object", "dictionary"}
          /\ d.kind = kind /\ d.place = place
<1>3. \A start \in ObjectTypes[kind], place \in Places : Good(start, place)
  BY <1>1, ObjectCallTyped
<1> HIDE DEF Good
<1>4. Good(ElementInit[kind], "")
  BY <1>1, <1>2, <1>3
<1> USE DEF Good
<1> QED BY <1>4

(* Inside an array of objects.                                             *)
LEMMA InObjectsOK ==
  ASSUME ParserInv, stack # <<>>, NEW sym \in Symbols \cup {End}, InObjects(sym)
  PROVE  StepOK
<1>1. StackOK(stack) /\ Top \in Frames
  BY TopOK DEF ParserInv
<1>2. Top.call = "objects"
  BY DEF InObjects
<1>3. Top.kind \in DOMAIN ElementInit /\ Top \in ListFrames(Top.kind)
  BY <1>1, <1>2, FrameKinds
<1>4. CASE Is(sym, "{")
  <2> PICK c : c = ObjectCall(Top.kind, "", ElementInit[Top.kind])
    OBVIOUS
  <2>1. Call(c)
    <3>1. ~Is(sym, "]")
      BY <1>4 DEF Is, Op
    <3> QED BY <3>1, <1>4 DEF InObjects
  <2>4. c \in Frames /\ c.call \in {"object", "dictionary"} /\ c.kind = Top.kind
    BY <1>3, ElementCallTyped
  <2>5. Takes(Top, c)
    BY <2>4, <1>2 DEF Takes
  <2> QED BY <2>1, <2>4, <2>5, CallOK
<1>5. CASE Is(sym, "]")
  <2>1. ~Is(sym, "{")
    BY <1>5 DEF Is, Op
  <2>2. Return(Top.val)
    BY <1>5, <2>1 DEF InObjects
  <2>3. Top.val \in Results(Top)
    BY <1>2, <1>3 DEF Results, ListFrames
  <2> QED BY <2>2, <2>3, <1>2, ReturnOK
<1>6. CASE sym.type = "Op" /\ ~Is(sym, "{") /\ ~Is(sym, "]")
  <2>1. Stay
    BY <1>6 DEF InObjects
  <2> QED BY <2>1, StayOK
<1>7. CASE sym.type # "Op" /\ ~Is(sym, "{") /\ ~Is(sym, "]")
  <2>1. Throw
    BY <1>7 DEF InObjects
  <2> QED BY <2>1, ThrowOK
<1> QED BY <1>4, <1>5, <1>6, <1>7

(* Each function of the parser keeps the invariant: a list of numbers.     *)
LEMMA InNumbersOK ==
  ASSUME ParserInv, stack # <<>>, NEW sym \in Symbols \cup {End}, InNumbers(sym)
  PROVE  StepOK
<1>1. StackOK(stack) /\ Top \in Frames
  BY TopOK DEF ParserInv
<1>2. Top.call = "numbers"
  BY DEF InNumbers
<1>3. Top \in NumbersFrames
  BY <1>1, <1>2, FrameKinds
<1>4. CASE sym.type = "Num"
  <2> PICK n : n = Converted(sym.num, Top.float)
    OBVIOUS
  <2>1. n \in Int
    BY <1>3, <1>4, SymbolKinds, ConvertedInt DEF NumbersFrames
  <2> PICK list : list = Append(Top.val, n)
    OBVIOUS
  <2>2. list \in Seq(Int)
    BY <2>1, <1>3, AppendTyped DEF NumbersFrames
  <2> PICK c : c = [Top EXCEPT !.val = list]
    OBVIOUS
  <2>3. Become(c)
    <3>1. ~Is(sym, "]") /\ sym.type # "Op"
      BY <1>4 DEF Is, Op
    <3> QED BY <3>1, <1>4 DEF InNumbers
  <2>4. c \in NumbersFrames /\ c.call = "numbers" /\ c.place = Top.place
    BY <2>2, <1>3 DEF NumbersFrames
  <2>5. c \in Frames /\ Results(c) = Seq(Int) /\ Results(Top) = Seq(Int)
    BY <2>4, <1>2 DEF Frames, Results
  <2> QED BY <2>3, <2>4, <2>5, <1>2, BecomeOK
<1>5. CASE Is(sym, "]")
  <2>1. sym.type # "Num"
    BY <1>5 DEF Is, Op
  <2>2. Return(Top.val)
    BY <1>5, <2>1 DEF InNumbers
  <2>3. Top.val \in Results(Top)
    BY <1>2, <1>3 DEF Results, NumbersFrames
  <2> QED BY <2>2, <2>3, <1>2, ReturnOK
<1>6. CASE sym.type = "Op" /\ ~Is(sym, "]")
  <2>1. Stay
    BY <1>6 DEF InNumbers
  <2> QED BY <2>1, StayOK
<1>7. CASE sym.type \notin {"Op", "Num"} /\ ~Is(sym, "]")
  <2>1. Throw
    BY <1>7 DEF InNumbers
  <2> QED BY <2>1, ThrowOK
<1> QED BY <1>4, <1>5, <1>6, <1>7

(* A value that is a number or a string.                                   *)
LEMMA InValueOK ==
  ASSUME ParserInv, stack # <<>>, NEW sym \in Symbols \cup {End}, InValue(sym)
  PROVE  StepOK
<1>1. StackOK(stack) /\ Top \in Frames
  BY TopOK DEF ParserInv
<1>2. Top.call = "value"
  BY DEF InValue
<1>3. \/ Top.type = "Num" /\ Top \in NumFrames
      \/ Top.type \in {"Str", "Bool"} /\ Top \in ValueFrames
  BY <1>1, <1>2, FrameKinds
<1>4. CASE sym.type = Top.type
  <2> PICK v : v = CASE sym.type = "Num" -> Converted(sym.num, Top.float)
                     [] sym.type = "Str" -> sym.tok
                     [] sym.type = "Bool" -> sym.bool
    OBVIOUS
  <2>1. Return(v)
    <3>1. ~Stops(sym)
      BY <1>3, <1>4 DEF Stops
    <3> QED BY <3>1, <1>4 DEF InValue
  <2>2. v \in Results(Top)
    <3>1. CASE Top.type = "Num"
      <4>1. v = Converted(sym.num, Top.float)
        BY <3>1, <1>4
      <4>2. v \in Int
        BY <4>1, <3>1, <1>3, <1>4, SymbolKinds, ConvertedInt DEF NumFrames
      <4>3. Results(Top) = Int
        BY <3>1, <1>2 DEF Results
      <4> QED BY <4>2, <4>3
    <3>2. CASE Top.type = "Str"
      <4>1. v = sym.tok /\ sym.tok \in STRING
        BY <3>2, <1>4, SymbolKinds
      <4>2. Results(Top) = Strings
        BY <3>2, <1>2 DEF Results
      <4> QED BY <4>1, <4>2 DEF Strings
    <3>3. CASE Top.type = "Bool"
      <4>1. v = sym.bool
        BY <3>3, <1>4
      <4>2. sym.bool \in BOOLEAN
        BY <3>3, <1>4, SymbolKinds
      <4>3. Results(Top) = BOOLEAN
        BY <3>3, <1>2 DEF Results
      <4> QED BY <4>1, <4>2, <4>3
    <3> QED BY <3>1, <3>2, <3>3, <1>3
  <2> QED BY <2>1, <2>2, <1>2, ReturnOK
<1>5. CASE sym.type # Top.type /\ Stops(sym)
  <2>1. Throw
    BY <1>5 DEF InValue
  <2> QED BY <2>1, ThrowOK
<1>6. CASE sym.type # Top.type /\ ~Stops(sym)
  <2>1. Stay
    BY <1>6 DEF InValue
  <2> QED BY <2>1, StayOK
<1> QED BY <1>4, <1>5, <1>6

(* A call for a dictionary is still one when it has moved on.              *)
LEMMA KeyReadTyped ==
  ASSUME NEW f \in DictionaryFrames, NEW stage \in {"first", "colon", "number", "next", "key"},
         NEW key \in Strings, NEW val \in PairsType
  PROVE  /\ [f EXCEPT !.at = stage] \in DictionaryFrames
         /\ [f EXCEPT !.at = stage, !.key = key] \in DictionaryFrames
         /\ [f EXCEPT !.at = stage, !.val = val] \in DictionaryFrames
BY DEF DictionaryFrames

(* A step of such a call keeps the invariant.                              *)
LEMMA DictionaryBecomes ==
  ASSUME ParserInv, stack # <<>>, Top.call = "dictionary", Top \in DictionaryFrames,
         NEW c \in DictionaryFrames, c.place = Top.place, Become(c)
  PROVE  StepOK
<1>1. c.call = "dictionary" /\ c.kind = "Dictionary" /\ Top.kind = "Dictionary"
  BY DEF DictionaryFrames
<1>2. c \in Frames /\ Results(c) = Results(Top)
  BY <1>1 DEF Frames, Results
<1> QED BY <1>1, <1>2, BecomeOK

(* A dictionary, the attributes of a primitive.                            *)
LEMMA InDictionaryOK ==
  ASSUME ParserInv, stack # <<>>, NEW sym \in Symbols \cup {End}, InDictionary(sym)
  PROVE  StepOK
<1>1. StackOK(stack) /\ Top \in Frames
  BY TopOK DEF ParserInv
<1>2. Top.call = "dictionary"
  BY DEF InDictionary
<1>3. Top \in DictionaryFrames
  BY <1>1, <1>2, FrameKinds
<1>4. /\ Top.at \in {"first", "colon", "number", "next", "key"}
      /\ Top.val \in PairsType /\ Top.key \in Strings
  BY <1>3 DEF DictionaryFrames
<1>5. Throw \/ Stay => StepOK
  BY ThrowOK, StayOK
<1>6. sym.type = "Str" /\ Become(KeyRead(sym)) => StepOK
  <2> SUFFICES ASSUME sym.type = "Str", Become(KeyRead(sym)) PROVE StepOK
    OBVIOUS
  <2>1. sym.tok \in Strings
    BY SymbolKinds DEF Strings
  <2>2. KeyRead(sym) \in DictionaryFrames
    BY <2>1, <1>3, <1>4, KeyReadTyped DEF KeyRead
  <2>3. KeyRead(sym).place = Top.place
    BY <1>3 DEF KeyRead, DictionaryFrames
  <2> QED BY <2>2, <2>3, <1>2, <1>3, DictionaryBecomes
<1>7. CASE Top.at \in {"first", "key"}
  <2>1. (sym.type = "Str" /\ Become(KeyRead(sym))) \/ Throw \/ Stay
    BY <1>7 DEF InDictionary
  <2> QED BY <2>1, <1>5, <1>6
<1>8. \A stage \in {"number", "key"} : Become([Top EXCEPT !.at = stage]) => StepOK
  <2> TAKE stage \in {"number", "key"}
  <2> HAVE Become([Top EXCEPT !.at = stage])
  <2>2. [Top EXCEPT !.at = stage] \in DictionaryFrames
    BY <1>3, <1>4, KeyReadTyped
  <2>3. [Top EXCEPT !.at = stage].place = Top.place
    BY <1>3 DEF DictionaryFrames
  <2> QED BY <2>2, <2>3, <1>2, <1>3, DictionaryBecomes
<1>9. CASE Top.at = "colon"
  <2>1. Become([Top EXCEPT !.at = "number"]) \/ Throw
    BY <1>9 DEF InDictionary
  <2> QED BY <2>1, <1>5, <1>8
<1>10. CASE Top.at = "number"
  <2>1. CASE sym.type = "Num"
    <3> DEFINE n == Converted(sym.num, FALSE)
    <3>1. n \in Int
      BY <2>1, SymbolKinds, ConvertedInt
    <3> HIDE DEF n
    <3> PICK pair : pair = <<Top.key, n>>
      OBVIOUS
    <3>2. pair \in Strings \X Int
      BY <3>1, <1>4
    <3> PICK list : list = Append(Top.val, pair)
      OBVIOUS
    <3>3. list \in PairsType
      BY <3>2, <1>4, AppendTyped DEF PairsType
    <3>4. Become([Top EXCEPT !.at = "next", !.val = list])
      BY <1>10, <2>1 DEF InDictionary, n
    <3>5. [Top EXCEPT !.at = "next", !.val = list] \in DictionaryFrames
      BY <3>3, <1>3, <1>4, KeyReadTyped
    <3>6. [Top EXCEPT !.at = "next", !.val = list].place = Top.place
      BY <1>3 DEF DictionaryFrames
    <3> QED BY <3>4, <3>5, <3>6, <1>2, <1>3, DictionaryBecomes
  <2>2. CASE sym.type # "Num"
    <3>1. Throw \/ Stay
      BY <1>10, <2>2 DEF InDictionary
    <3> QED BY <3>1, <1>5
  <2> QED BY <2>1, <2>2
<1>11. CASE Top.at = "next"
  <2>1. CASE Is(sym, "}")
    <3>1. Return(Top.val)
      BY <1>11, <2>1 DEF InDictionary
    <3>2. Results(Top) = PairsType
      BY <1>2, <1>3, TypesNamed DEF Results, DictionaryFrames
    <3> QED BY <3>1, <3>2, <1>2, <1>4, ReturnOK
  <2>2. CASE ~Is(sym, "}")
    <3>1. Become([Top EXCEPT !.at = "key"]) \/ Throw
      BY <1>11, <2>2 DEF InDictionary
    <3> QED BY <3>1, <1>5, <1>8
  <2> QED BY <2>1, <2>2
<1> QED BY <1>4, <1>7, <1>9, <1>10, <1>11

(* A step in a value that nobody wants keeps the invariant.                *)
LEMMA ConsumeBecomes ==
  ASSUME ParserInv, stack # <<>>, Top.call = "consume", Top \in ConsumeFrames,
         NEW stage \in {"colon", "value", "nested"}, NEW op \in Strings, NEW n \in Int
  PROVE  /\ Become([Top EXCEPT !.at = stage]) => StepOK
         /\ Become([Top EXCEPT !.n = n]) => StepOK
         /\ Become([Top EXCEPT !.at = stage, !.op = op, !.n = n]) => StepOK
<1>1. \A c \in ConsumeFrames : Become(c) => StepOK
  <2> TAKE c \in ConsumeFrames
  <2> HAVE Become(c)
  <2>1. c.call = "consume" /\ c \in Frames
    BY DEF ConsumeFrames, Frames
  <2> QED BY <2>1, BecomeOK
<1>2. [Top EXCEPT !.at = stage] \in ConsumeFrames
  BY DEF ConsumeFrames
<1>3. [Top EXCEPT !.n = n] \in ConsumeFrames
  BY DEF ConsumeFrames
<1>4. [Top EXCEPT !.at = stage, !.op = op, !.n = n] \in ConsumeFrames
  BY DEF ConsumeFrames
<1> QED BY <1>1, <1>2, <1>3, <1>4

(* A value that nobody wants.                                              *)
LEMMA InConsumeOK ==
  ASSUME ParserInv, stack # <<>>, NEW sym \in Symbols \cup {End}, InConsume(sym)
  PROVE  StepOK
<1>1. StackOK(stack) /\ Top \in Frames
  BY TopOK DEF ParserInv
<1>2. Top.call = "consume"
  BY DEF InConsume
<1>3. Top \in ConsumeFrames
  BY <1>1, <1>2, FrameKinds
<1>4. Top.at \in {"colon", "value", "nested"} /\ Top.op \in Strings /\ Top.n \in Int
  BY <1>3 DEF ConsumeFrames
<1>5. Throw \/ Stay \/ Leave => StepOK
  BY <1>2, ThrowOK, StayOK, LeaveOK
<1>6. CASE Top.at = "colon"
  <2>1. Become([Top EXCEPT !.at = "value"]) \/ Throw
    BY <1>6 DEF InConsume
  <2> QED BY <2>1, <1>2, <1>3, <1>4, <1>5, ConsumeBecomes
<1>7. CASE Top.at = "value"
  <2>1. CASE Is(sym, "{") \/ Is(sym, "[")
    <3>1. sym.type = "Op"
      BY <2>1, IsOp
    <3>2. sym.tok \in Strings
      BY <3>1, SymbolKinds DEF Strings
    <3>3. Become([Top EXCEPT !.at = "nested", !.op = sym.tok, !.n = 1])
      BY <1>7, <2>1, <3>1 DEF InConsume
    <3>4. \A where, n : \A op \in Strings :
            /\ where \in {"colon", "value", "nested"} /\ n \in Int
            /\ Become([Top EXCEPT !.at = where, !.op = op, !.n = n])
            => StepOK
      BY <1>2, <1>3, ConsumeBecomes
    <3>5. "nested" \in {"colon", "value", "nested"} /\ 1 \in Int
      OBVIOUS
    <3> PICK tok : tok = sym.tok
      OBVIOUS
    <3>6. tok \in Strings /\ Become([Top EXCEPT !.at = "nested", !.op = tok, !.n = 1])
      BY <3>2, <3>3
    <3> QED BY <3>4, <3>5, <3>6
  <2>2. CASE ~(Is(sym, "{") \/ Is(sym, "["))
    <3>1. Leave \/ Throw
      BY <1>7, <2>2 DEF InConsume
    <3> QED BY <3>1, <1>5
  <2> QED BY <2>1, <2>2
<1>8. CASE Top.at = "nested"
  <2>1. \/ Become([Top EXCEPT !.n = Top.n + 1]) \/ Become([Top EXCEPT !.n = Top.n - 1])
        \/ Leave \/ Throw \/ Stay
    BY <1>8 DEF InConsume
  <2>2. \A n \in Int : Become([Top EXCEPT !.n = n]) => StepOK
    BY <1>2, <1>3, <1>4, ConsumeBecomes
  <2>3. Top.n + 1 \in Int /\ Top.n - 1 \in Int
    BY <1>4
  <2>4. /\ Become([Top EXCEPT !.n = Top.n + 1]) => StepOK
        /\ Become([Top EXCEPT !.n = Top.n - 1]) => StepOK
    BY <2>2, <2>3
  <2> QED BY <2>1, <2>4, <1>5
<1> QED BY <1>4, <1>6, <1>7, <1>8

(* The parser's invariant, from the file's first symbol on.                *)
LEMMA ParserInit ==
  ASSUME Init
  PROVE  ParserInv
<1>1. text \in Seq(Symbols)
  <2>1. Text(doc) \in Seq(Symbols) /\ Err \in Symbols
    BY TextAssumption DEF Init, Symbols
  <2> QED BY <2>1 DEF Init
<1>2. StackOK(<<>>)
  BY DEF StackOK
<1>3. FileInit \in FileType
  BY StartsTyped
<1> QED BY <1>1, <1>2, <1>3 DEF Init, ParserInv

(* The first call is a stack.                                              *)
LEMMA FirstCall ==
  ASSUME NEW c \in Frames, c.call = "object", c.kind = "File", NEW calls,
         calls = Append(<<>>, c)
  PROVE  StackOK(calls) /\ calls # <<>>
<1>1. calls = <<c>>
  OBVIOUS
<1>2. calls \in Seq(Frames) /\ Len(calls) = 1 /\ calls[1] = c
  BY <1>1
<1>3. \A k \in 2..Len(calls) : Takes(calls[k - 1], calls[k])
  BY <1>2
<1> QED BY <1>2, <1>3 DEF StackOK

(* The file's first symbol.                                                *)
LEMMA OpenOK ==
  ASSUME ParserInv, status = "reading", NEW sym, Open(sym)
  PROVE  StepOK
<1>1. stack = <<>>
  BY DEF ParserInv, Open
<1>2. CASE Is(sym, "{")
  <2> PICK start : start = FileInit
    OBVIOUS
  <2>1. start \in FileType
    BY StartsTyped
  <2>2. /\ "File" \in Kinds
        /\ start \in ObjectTypes["File"]
        /\ "" \in Places
    <3>1. "File" \in Kinds
      BY DEF Kinds, Fields
    <3>2. start \in ObjectTypes["File"]
      BY <2>1, TypesNamed
    <3>3. "" \in Places
      BY DEF Places
    <3> QED BY <3>1, <3>2, <3>3
  <2> PICK c : c = ObjectCall("File", "", start)
    OBVIOUS
  <2>3. c.call = "object" /\ c.kind = "File"
    BY DEF ObjectCall
  <2>4. c \in ObjectFrames("File")
    BY <2>2 DEF ObjectCall, ObjectFrames
  <2>5. c \in AnyObject
    BY <2>2, <2>4, Zenon DEF AnyObject
  <2>6. c \in Frames
    BY <2>5 DEF Frames
  <2>7. Call(c)
    BY <1>2 DEF Open
  <2>8. stack' = Append(stack, c) /\ gltf' = gltf
    BY <2>7 DEF Call
  <2>10. StackOK(stack') /\ stack' # <<>>
    BY <1>1, <2>3, <2>6, <2>8, FirstCall
  <2> QED BY <2>8, <2>10 DEF StepOK, ParserInv
<1>3. CASE ~Is(sym, "{")
  <2>1. Throw
    BY <1>3 DEF Open
  <2> QED BY <2>1, ThrowOK
<1> QED BY <1>2, <1>3

(* Whatever is read, and whichever function reads it.                      *)
LEMMA HandleOK ==
  ASSUME ParserInv, status = "reading", NEW sym \in Symbols \cup {End}, Handle(sym)
  PROVE  StepOK
<1>1. stack # <<>>
  BY DEF ParserInv, Handle
<1> QED
  BY <1>1, InObjectOK, InObjectsOK, InNumbersOK, InValueOK, InDictionaryOK,
     InConsumeOK DEF Handle

(* What the parser has read has the types of the file, step by step.       *)
LEMMA ParserStep ==
  ASSUME ParserInv, Read \/ UNCHANGED vars
  PROVE  ParserInv'
<1>1. CASE UNCHANGED vars
  BY <1>1 DEF vars, ParserInv
<1>2. CASE Read
  <2>1. text' = text /\ status = "reading" /\ text \in Seq(Symbols) /\ pos \in Nat
    BY <1>2 DEF Read, ParserInv
  <2>2. CASE /\ pos < Len(text)
             /\ Open(text[pos + 1]) \/ Handle(text[pos + 1])
             /\ pos' = pos + 1
    <3>1. text[pos + 1] \in Symbols
      BY <2>1, <2>2, ElementOfSeq
    <3>2. StepOK
      BY <2>1, <2>2, <3>1, OpenOK, HandleOK
    <3> QED BY <2>1, <2>2, <3>2 DEF ParserInv, StepOK
  <2>3. ASSUME NEW sym \in Endings, Open(sym) \/ Handle(sym), pos' = pos
        PROVE  ParserInv'
    <3>0. sym \in {End, Err}
      BY DEF Endings
    <3>1. StepOK
      <4>1. sym \in Symbols \cup {End}
        BY <3>0 DEF Symbols
      <4> QED BY <2>1, <2>3, <4>1, OpenOK, HandleOK
    <3>2. CASE pos = 0
      <4>0. sym.type # "Op"
        BY <3>0 DEF End, Err
      <4>1. ~Is(sym, "{")
        BY <4>0, IsOp
      <4>2. Throw
        <5>1. ~Handle(sym)
          BY <3>2 DEF Handle
        <5>2. Open(sym)
          BY <5>1, <2>3
        <5> QED BY <5>2, <4>1 DEF Open
      <4> QED BY <4>2, <3>1, <2>1, <2>3 DEF ParserInv, StepOK, Throw
    <3>3. CASE pos # 0
      BY <3>1, <3>3, <2>1, <2>3 DEF ParserInv, StepOK
    <3> QED BY <3>2, <3>3
  <2>4. CASE status' = "endless" /\ UNCHANGED <<pos, stack, gltf>>
    BY <2>1, <2>4 DEF ParserInv
  <2> QED BY <1>2, <2>2, <2>3, <2>4 DEF Read
<1> QED BY <1>1, <1>2

-----------------------------------------------------------------------------
(* The loader's calls.                                                     *)

Elems(list) == 0..(Len(list) - 1)

SceneCalls(g) == [do : {"loadScene"}, i : Elems(g.scenes)]
NodeCalls(g) ==
  [do : {"loadRest", "loadGraph", "loadNode"}, i : Elems(g.nodes)]
InsertCalls(g) ==
  {c \in [do : {"insert"}, i : Elems(g.nodes),
          k : {"node", "scene"} \X Int] :
     \/ /\ c.k[1] = "node" /\ c.k[2] \in Elems(g.nodes)
        /\ c.i \in ChildrenOf(g, c.k[2])
     \/ /\ c.k[1] = "scene" /\ c.k[2] \in Elems(g.scenes)
        /\ c.i \in ToSet(g.scenes[c.k[2] + 1].nodes)}
TextureCalls(g) ==
  [do : {"loadTexture", "makeTexture"}, i : Elems(g.textures)]
ImageCalls(g) == [do : {"loadImage"}, i : Elems(g.images)]
MaterialCalls(g) ==
  [do : {"loadMaterial", "setMaterial", "copyMaterial"},
   i : Elems(g.materials)]
InfoCalls(g) ==
  {c \in [do : {"getTexture", "setTexture"}, i : Elems(g.materials),
          k : ToSet(Infos)] :
     c.do = "setTexture" =>
       InfoOf(g.materials[c.i + 1], c.k).index \in Elems(g.textures)}
MeshCalls(g) == [do : {"loadMesh", "makeMesh"}, i : Elems(g.meshes)]
PrimitivesCalls(g) ==
  {c \in [do : {"newPrimitive"}, i : Elems(g.meshes), n : Int] :
     c.n \in DOMAIN g.meshes[c.i + 1].primitives}
DataCalls(g) ==
  [do : {"getData"}, i : Elems(g.accessors), k : Strings \cup {"indices"}]
SkinCalls(g) == [do : {"loadSkin"}, i : Elems(g.skins)]
JointCalls(g) ==
  {c \in [do : {"setJoint"}, i : Elems(g.skins), n : Int] :
     c.n \in DOMAIN g.skins[c.i + 1].joints}
AnimationCalls(g) ==
  [do : {"loadAnimation", "makeAnimation"}, i : Elems(g.animations)]
ActionCalls(g) ==
  {c \in [do : {"newAction"}, i : Elems(g.animations), n : Int] :
     c.n \in DOMAIN g.animations[c.i + 1].channels}

CallsOf(g) ==
  SceneCalls(g) \cup NodeCalls(g) \cup InsertCalls(g) \cup TextureCalls(g)
  \cup ImageCalls(g) \cup MaterialCalls(g) \cup InfoCalls(g)
  \cup MeshCalls(g) \cup PrimitivesCalls(g) \cup DataCalls(g)
  \cup SkinCalls(g) \cup JointCalls(g) \cup AnimationCalls(g)
  \cup ActionCalls(g)

(* The calls by what they do.                                              *)
LEMMA CallKinds ==
  ASSUME NEW g, NEW c \in CallsOf(g)
  PROVE  /\ c.do = "loadScene" => c \in SceneCalls(g)
         /\ c.do \in {"loadRest", "loadGraph", "loadNode"} =>
              c \in NodeCalls(g)
         /\ c.do = "insert" => c \in InsertCalls(g)
         /\ c.do \in {"loadTexture", "makeTexture"} => c \in TextureCalls(g)
         /\ c.do = "loadImage" => c \in ImageCalls(g)
         /\ c.do \in {"loadMaterial", "setMaterial", "copyMaterial"} =>
              c \in MaterialCalls(g)
         /\ c.do \in {"getTexture", "setTexture"} => c \in InfoCalls(g)
         /\ c.do \in {"loadMesh", "makeMesh"} => c \in MeshCalls(g)
         /\ c.do = "newPrimitive" => c \in PrimitivesCalls(g)
         /\ c.do = "getData" => c \in DataCalls(g)
         /\ c.do = "loadSkin" => c \in SkinCalls(g)
         /\ c.do = "setJoint" => c \in JointCalls(g)
         /\ c.do \in {"loadAnimation", "makeAnimation"} =>
              c \in AnimationCalls(g)
         /\ c.do = "newAction" => c \in ActionCalls(g)
<1>1. c \in SceneCalls(g) => c.do = "loadScene"
  BY DEF SceneCalls
<1>2. c \in NodeCalls(g) => c.do \in {"loadRest", "loadGraph", "loadNode"}
  BY DEF NodeCalls
<1>3. c \in InsertCalls(g) => c.do = "insert"
  BY DEF InsertCalls
<1>4. c \in TextureCalls(g) => c.do \in {"loadTexture", "makeTexture"}
  BY DEF TextureCalls
<1>5. c \in ImageCalls(g) => c.do = "loadImage"
  BY DEF ImageCalls
<1>6. c \in MaterialCalls(g) =>
        c.do \in {"loadMaterial", "setMaterial", "copyMaterial"}
  BY DEF MaterialCalls
<1>7. c \in InfoCalls(g) => c.do \in {"getTexture", "setTexture"}
  BY DEF InfoCalls
<1>8. c \in MeshCalls(g) => c.do \in {"loadMesh", "makeMesh"}
  BY DEF MeshCalls
<1>9. c \in PrimitivesCalls(g) => c.do = "newPrimitive"
  BY DEF PrimitivesCalls
<1>10. c \in DataCalls(g) => c.do = "getData"
  BY DEF DataCalls
<1>11. c \in SkinCalls(g) => c.do = "loadSkin"
  BY DEF SkinCalls
<1>12. c \in JointCalls(g) => c.do = "setJoint"
  BY DEF JointCalls
<1>13. c \in AnimationCalls(g) => c.do \in {"loadAnimation", "makeAnimation"}
  BY DEF AnimationCalls
<1>14. c \in ActionCalls(g) => c.do = "newAction"
  BY DEF ActionCalls
<1>15. \/ c \in SceneCalls(g) \/ c \in NodeCalls(g) \/ c \in InsertCalls(g)
       \/ c \in TextureCalls(g) \/ c \in ImageCalls(g)
       \/ c \in MaterialCalls(g) \/ c \in InfoCalls(g) \/ c \in MeshCalls(g)
       \/ c \in PrimitivesCalls(g) \/ c \in DataCalls(g)
       \/ c \in SkinCalls(g) \/ c \in JointCalls(g)
       \/ c \in AnimationCalls(g) \/ c \in ActionCalls(g)
  BY DEF CallsOf
<1> QED
  BY <1>1, <1>2, <1>3, <1>4, <1>5, <1>6, <1>7, <1>8, <1>9, <1>10, <1>11,
     <1>12, <1>13, <1>14, <1>15

(* The calls that can be made.                                             *)
LEMMA CallsMade ==
  ASSUME NEW g
  PROVE  /\ \A i \in Elems(g.scenes) : Do("loadScene", i) \in CallsOf(g)
         /\ \A i \in Elems(g.nodes) :
              /\ Do("loadRest", i) \in CallsOf(g)
              /\ Do("loadGraph", i) \in CallsOf(g)
              /\ Do("loadNode", i) \in CallsOf(g)
         /\ \A i \in Elems(g.textures) :
              /\ Do("loadTexture", i) \in CallsOf(g)
              /\ Do("makeTexture", i) \in CallsOf(g)
         /\ \A i \in Elems(g.images) : Do("loadImage", i) \in CallsOf(g)
         /\ \A i \in Elems(g.materials) :
              /\ Do("loadMaterial", i) \in CallsOf(g)
              /\ Do("setMaterial", i) \in CallsOf(g)
              /\ Do("copyMaterial", i) \in CallsOf(g)
         /\ \A i \in Elems(g.meshes) :
              /\ Do("loadMesh", i) \in CallsOf(g)
              /\ Do("makeMesh", i) \in CallsOf(g)
         /\ \A i \in Elems(g.skins) : Do("loadSkin", i) \in CallsOf(g)
         /\ \A i \in Elems(g.animations) :
              /\ Do("loadAnimation", i) \in CallsOf(g)
              /\ Do("makeAnimation", i) \in CallsOf(g)
<1>1. \A i \in Elems(g.scenes) : Do("loadScene", i) \in SceneCalls(g)
  BY DEF SceneCalls, Do
<1>2. \A i \in Elems(g.nodes) :
              /\ Do("loadRest", i) \in NodeCalls(g)
              /\ Do("loadGraph", i) \in NodeCalls(g)
              /\ Do("loadNode", i) \in NodeCalls(g)
  BY DEF NodeCalls, Do
<1>3. \A i \in Elems(g.textures) :
              /\ Do("loadTexture", i) \in TextureCalls(g)
              /\ Do("makeTexture", i) \in TextureCalls(g)
  BY DEF TextureCalls, Do
<1>4. \A i \in Elems(g.images) : Do("loadImage", i) \in ImageCalls(g)
  BY DEF ImageCalls, Do
<1>5. \A i \in Elems(g.materials) :
              /\ Do("loadMaterial", i) \in MaterialCalls(g)
              /\ Do("setMaterial", i) \in MaterialCalls(g)
              /\ Do("copyMaterial", i) \in MaterialCalls(g)
  BY DEF MaterialCalls, Do
<1>6. \A i \in Elems(g.meshes) :
              /\ Do("loadMesh", i) \in MeshCalls(g)
              /\ Do("makeMesh", i) \in MeshCalls(g)
  BY DEF MeshCalls, Do
<1>7. \A i \in Elems(g.skins) : Do("loadSkin", i) \in SkinCalls(g)
  BY DEF SkinCalls, Do
<1>8. \A i \in Elems(g.animations) :
              /\ Do("loadAnimation", i) \in AnimationCalls(g)
              /\ Do("makeAnimation", i) \in AnimationCalls(g)
  BY DEF AnimationCalls, Do
<1> QED
  BY <1>1, <1>2, <1>3, <1>4, <1>5, <1>6, <1>7, <1>8, Zenon DEF CallsOf

(* The calls with an argument more.                                        *)
LEMMA CallsMadeIn ==
  ASSUME NEW g
  PROVE  /\ \A i \in Elems(g.nodes), p \in Elems(g.nodes) :
              i \in ChildrenOf(g, p) =>
                DoIn("insert", i, <<"node", p>>) \in CallsOf(g)
         /\ \A i \in Elems(g.nodes), s \in Elems(g.scenes) :
              i \in ToSet(g.scenes[s + 1].nodes) =>
                DoIn("insert", i, <<"scene", s>>) \in CallsOf(g)
         /\ \A i \in Elems(g.materials), w \in ToSet(Infos) :
              /\ DoIn("getTexture", i, w) \in CallsOf(g)
              /\ InfoOf(g.materials[i + 1], w).index \in Elems(g.textures) =>
                   DoIn("setTexture", i, w) \in CallsOf(g)
         /\ \A i \in Elems(g.accessors), k \in Strings \cup {"indices"} :
              DoIn("getData", i, k) \in CallsOf(g)
         /\ \A i \in Elems(g.meshes), n \in Int :
              n \in DOMAIN g.meshes[i + 1].primitives =>
                DoNth("newPrimitive", i, n) \in CallsOf(g)
         /\ \A i \in Elems(g.skins), n \in Int :
              n \in DOMAIN g.skins[i + 1].joints =>
                DoNth("setJoint", i, n) \in CallsOf(g)
         /\ \A i \in Elems(g.animations), n \in Int :
              n \in DOMAIN g.animations[i + 1].channels =>
                DoNth("newAction", i, n) \in CallsOf(g)
<1>1. \A i \in Elems(g.nodes), p \in Elems(g.nodes) :
              i \in ChildrenOf(g, p) =>
                DoIn("insert", i, <<"node", p>>) \in InsertCalls(g)
  BY DEF InsertCalls, DoIn, Elems
<1>2. \A i \in Elems(g.nodes), s \in Elems(g.scenes) :
              i \in ToSet(g.scenes[s + 1].nodes) =>
                DoIn("insert", i, <<"scene", s>>) \in InsertCalls(g)
  BY DEF InsertCalls, DoIn, Elems
<1>3. \A i \in Elems(g.materials), w \in ToSet(Infos) :
              /\ DoIn("getTexture", i, w) \in InfoCalls(g)
              /\ InfoOf(g.materials[i + 1], w).index \in Elems(g.textures) =>
                   DoIn("setTexture", i, w) \in InfoCalls(g)
  BY DEF InfoCalls, DoIn
<1>4. \A i \in Elems(g.accessors), k \in Strings \cup {"indices"} :
              DoIn("getData", i, k) \in DataCalls(g)
  BY DEF DataCalls, DoIn
<1>5. \A i \in Elems(g.meshes), n \in Int :
              n \in DOMAIN g.meshes[i + 1].primitives =>
                DoNth("newPrimitive", i, n) \in PrimitivesCalls(g)
  BY DEF PrimitivesCalls, DoNth
<1>6. \A i \in Elems(g.skins), n \in Int :
              n \in DOMAIN g.skins[i + 1].joints =>
                DoNth("setJoint", i, n) \in JointCalls(g)
  BY DEF JointCalls, DoNth
<1>7. \A i \in Elems(g.animations), n \in Int :
              n \in DOMAIN g.animations[i + 1].channels =>
                DoNth("newAction", i, n) \in ActionCalls(g)
  BY DEF ActionCalls, DoNth
<1> QED
  BY <1>1, <1>2, <1>3, <1>4, <1>5, <1>6, <1>7, Zenon DEF CallsOf

(* What an element's number selects.                                       *)
LEMMA ElemsIn ==
  ASSUME NEW T, NEW list \in Seq(T)
  PROVE  /\ \A i \in Elems(list) :
              i \in Nat /\ i + 1 \in DOMAIN list /\ Item(list, i) \in T
              /\ list[i + 1] \in T
         /\ \A k \in DOMAIN list : k - 1 \in Elems(list) /\ list[k] \in T
         /\ \A i : Refers(i, list) <=> i \in Elems(list)
         /\ DOMAIN list = 1..Len(list) /\ Len(list) \in Nat
<1>1. DOMAIN list = 1..Len(list) /\ Len(list) \in Nat
  OBVIOUS
<1>2. \A k \in 1..Len(list) : list[k] \in T
  BY ElementOfSeq
<1> QED BY <1>1, <1>2 DEF Elems, Item, Refers

(* Sequences that are given element by element.                            *)
LEMMA Listed ==
  ASSUME NEW S, NEW n \in Nat, NEW f, DOMAIN f = 1..n,
         f = [k \in 1..n |-> f[k]], \A k \in 1..n : f[k] \in S
  PROVE  f \in Seq(S) /\ Len(f) = n
<1>1. f \in [1..n -> S]
  OBVIOUS
<1> QED BY <1>1

(* One call for each of a list.                                            *)
LEMMA ForAllMade ==
  ASSUME NEW T, NEW list \in Seq(T), NEW S, NEW what,
         \A i \in T : Do(what, i) \in S
  PROVE  /\ ForAll(what, list) \in Seq(S)
         /\ Len(ForAll(what, list)) = Len(list)
         /\ \A k \in 1..Len(list) : ForAll(what, list)[k] = Do(what, list[k])
<1> DEFINE f == ForAll(what, list)
<1>1. DOMAIN list = 1..Len(list) /\ Len(list) \in Nat
      /\ \A k \in 1..Len(list) : list[k] \in T
  BY ElementOfSeq
<1>2. f = [k \in 1..Len(list) |-> Do(what, list[k])]
  BY <1>1 DEF ForAll
<1>3. \A k \in 1..Len(list) : f[k] = Do(what, list[k]) /\ f[k] \in S
  BY <1>1, <1>2
<1>4. DOMAIN f = 1..Len(list) /\ f = [k \in 1..Len(list) |-> f[k]]
  BY <1>2
<1> HIDE DEF f
<1>5. f \in Seq(S) /\ Len(f) = Len(list)
  BY <1>1, <1>3, <1>4, Listed
<1> QED BY <1>3, <1>5 DEF f

(* The indices of a list are its elements.                                 *)
LEMMA IndicesMade ==
  ASSUME NEW T, NEW list \in Seq(T)
  PROVE  /\ Indices(list) \in Seq(Elems(list))
         /\ Len(Indices(list)) = Len(list)
         /\ \A k \in 1..Len(list) : Indices(list)[k] = k - 1
         /\ ToSet(Indices(list)) = Elems(list)
<1> DEFINE f == Indices(list)
<1>1. DOMAIN list = 1..Len(list) /\ Len(list) \in Nat
  OBVIOUS
<1>2. f = [k \in 1..Len(list) |-> k - 1]
  BY <1>1 DEF Indices
<1>3. \A k \in 1..Len(list) : f[k] = k - 1 /\ f[k] \in Elems(list)
  BY <1>1, <1>2 DEF Elems
<1>4. DOMAIN f = 1..Len(list) /\ f = [k \in 1..Len(list) |-> f[k]]
  BY <1>2
<1> HIDE DEF f
<1>5. f \in Seq(Elems(list)) /\ Len(f) = Len(list)
  BY <1>1, <1>3, <1>4, Listed
<1>6. ToSet(f) = Elems(list)
  <2>1. \A i \in Elems(list) : i + 1 \in 1..Len(list) /\ f[i + 1] = i
    BY <1>1, <1>3 DEF Elems
  <2> QED BY <1>3, <1>4, <2>1 DEF ToSet
<1> QED BY <1>3, <1>5, <1>6 DEF f

(* Two lists in turn: the odd places have the first, the even ones the     *)
(* second.                                                                 *)
LEMMA InTurnMade ==
  ASSUME NEW S, NEW a \in Seq(S), NEW b \in Seq(S), Len(b) = Len(a)
  PROVE  /\ InTurn(a, b) \in Seq(S)
         /\ Len(InTurn(a, b)) = 2 * Len(a)
         /\ \A k \in 1..Len(a) :
              InTurn(a, b)[2 * k - 1] = a[k] /\ InTurn(a, b)[2 * k] = b[k]
         /\ \A p \in 1..(2 * Len(a)) : \E k \in 1..Len(a) :
              p = 2 * k - 1 \/ p = 2 * k
<1> DEFINE f == InTurn(a, b)
<1> PICK n : n = Len(a)
  OBVIOUS
<1>1. n \in Nat /\ \A k \in 1..n : a[k] \in S /\ b[k] \in S
  BY ElementOfSeq
<1>2. f = [k \in 1..(2 * n) |->
             IF k % 2 = 1 THEN a[(k + 1) \div 2] ELSE b[k \div 2]]
  BY DEF InTurn
<1>3. \A p \in 1..(2 * n) : \E k \in 1..n : p = 2 * k - 1 \/ p = 2 * k
  <2> TAKE p \in 1..(2 * n)
  <2> PICK k : k = (p + 1) \div 2
    OBVIOUS
  <2>1. k \in 1..n /\ (p = 2 * k - 1 \/ p = 2 * k)
    BY <1>1
  <2> QED BY <2>1
<1>4. \A k \in 1..n : f[2 * k - 1] = a[k] /\ f[2 * k] = b[k]
  <2> TAKE k \in 1..n
  <2>1. /\ 2 * k - 1 \in 1..(2 * n) /\ 2 * k \in 1..(2 * n)
        /\ (2 * k - 1) % 2 = 1 /\ (2 * k) % 2 = 0
        /\ ((2 * k - 1) + 1) \div 2 = k /\ (2 * k) \div 2 = k
    BY <1>1
  <2> QED BY <1>2, <2>1
<1>5. DOMAIN f = 1..(2 * n) /\ f = [k \in 1..(2 * n) |-> f[k]]
  BY <1>2
<1> HIDE DEF f
<1>6. \A p \in 1..(2 * n) : f[p] \in S
  BY <1>1, <1>3, <1>4
<1>7. f \in Seq(S) /\ Len(f) = 2 * n
  BY <1>1, <1>5, <1>6, Listed
<1> QED BY <1>3, <1>4, <1>7 DEF f

(* The calls after a call was replaced by those it makes.                  *)
LEMMA Positions ==
  ASSUME NEW S, NEW calls \in Seq(S), NEW list \in Seq(S), list # <<>>,
         NEW next, next = calls \o Tail(list)
  PROVE  /\ next \in Seq(S)
         /\ Len(next) = Len(calls) + Len(list) - 1
         /\ \A p \in 1..Len(calls) : next[p] = calls[p]
         /\ \A p \in (Len(calls) + 1)..Len(next) :
              /\ next[p] = list[p - Len(calls) + 1]
              /\ p - Len(calls) + 1 \in 2..Len(list)
         /\ \A p \in 2..Len(list) :
              /\ p + Len(calls) - 1 \in (Len(calls) + 1)..Len(next)
              /\ next[p + Len(calls) - 1] = list[p]
         /\ ToSet(list) \subseteq ToSet(next) \cup {Head(list)}
         /\ ToSet(calls) \subseteq ToSet(next)
         /\ ToSet(next) \subseteq ToSet(calls) \cup ToSet(list)
         /\ Head(list) = list[1] /\ 1 \in DOMAIN list
<1> PICK rest : rest = Tail(list)
  OBVIOUS
<1>1. /\ rest \in Seq(S) /\ Len(rest) = Len(list) - 1 /\ Len(list) \in Nat
      /\ Len(list) >= 1
      /\ \A p \in 1..Len(rest) : rest[p] = list[p + 1]
  OBVIOUS
<1>2. next = calls \o rest
  OBVIOUS
<1>3. /\ next \in Seq(S) /\ Len(next) = Len(calls) + Len(rest)
      /\ \A p \in 1..Len(calls) : next[p] = calls[p]
      /\ \A p \in (Len(calls) + 1)..Len(next) : next[p] = rest[p - Len(calls)]
  BY <1>1, <1>2, ConcatProperties
<1>4. Len(calls) \in Nat /\ Len(next) \in Nat
  BY <1>3
<1>5. \A p \in (Len(calls) + 1)..Len(next) :
              /\ next[p] = list[p - Len(calls) + 1]
              /\ p - Len(calls) + 1 \in 2..Len(list)
  <2> TAKE p \in (Len(calls) + 1)..Len(next)
  <2>1. p - Len(calls) \in 1..Len(rest)
    BY <1>1, <1>3, <1>4
  <2> QED BY <1>1, <1>3, <1>4, <2>1
<1>6. \A p \in 2..Len(list) :
              /\ p + Len(calls) - 1 \in (Len(calls) + 1)..Len(next)
              /\ next[p + Len(calls) - 1] = list[p]
  <2> TAKE p \in 2..Len(list)
  <2>1. p + Len(calls) - 1 \in (Len(calls) + 1)..Len(next)
    BY <1>1, <1>3, <1>4
  <2>2. (p + Len(calls) - 1) - Len(calls) + 1 = p
    BY <1>4
  <2> QED BY <1>5, <2>1, <2>2
<1>7. /\ DOMAIN list = 1..Len(list) /\ DOMAIN next = 1..Len(next)
      /\ DOMAIN calls = 1..Len(calls)
  BY <1>3
<1>8. Head(list) = list[1] /\ 1 \in DOMAIN list
  BY <1>1
<1>9. ToSet(list) \subseteq ToSet(next) \cup {Head(list)}
  <2> SUFFICES ASSUME NEW p \in 1..Len(list)
               PROVE  list[p] \in ToSet(next) \cup {Head(list)}
    BY <1>7 DEF ToSet
  <2>1. CASE p = 1
    BY <2>1, <1>8
  <2>2. CASE p # 1
    <3>1. p \in 2..Len(list)
      BY <2>2
    <3>2. p + Len(calls) - 1 \in DOMAIN next
      BY <3>1, <1>6, <1>7, <1>4
    <3> QED BY <3>1, <3>2, <1>6 DEF ToSet
  <2> QED BY <2>1, <2>2
<1>10. ToSet(calls) \subseteq ToSet(next)
  <2>1. \A p \in 1..Len(calls) : p \in 1..Len(next)
    BY <1>1, <1>3, <1>4
  <2> QED BY <2>1, <1>3, <1>7 DEF ToSet
<1>11. ToSet(next) \subseteq ToSet(calls) \cup ToSet(list)
  <2> SUFFICES ASSUME NEW p \in 1..Len(next)
               PROVE  next[p] \in ToSet(calls) \cup ToSet(list)
    BY <1>7 DEF ToSet
  <2>1. CASE p \in 1..Len(calls)
    BY <2>1, <1>3, <1>7 DEF ToSet
  <2>2. CASE p \notin 1..Len(calls)
    <3>1. p \in (Len(calls) + 1)..Len(next)
      BY <2>2, <1>4
    <3>2. p - Len(calls) + 1 \in DOMAIN list
      BY <3>1, <1>5, <1>7
    <3> QED BY <3>1, <3>2, <1>5 DEF ToSet
  <2> QED BY <2>1, <2>2
<1> QED BY <1>1, <1>3, <1>5, <1>6, <1>8, <1>9, <1>10, <1>11

(* What the loader relies on, for the numbers in a file that was read.     *)
LEMMA GraphRefers ==
  ASSUME NEW g \in FileType, Valid(g)
  PROVE  /\ \A p \in Elems(g.nodes) :
              LET nd == Item(g.nodes, p)
              IN  /\ nd.children \in Seq(Elems(g.nodes))
                  /\ nd.mesh \in Int /\ nd.skin \in Int
                  /\ nd.mesh >= 0 => nd.mesh \in Elems(g.meshes)
                  /\ nd.skin >= 0 => nd.skin \in Elems(g.skins)
         /\ \A s \in Elems(g.scenes) :
              Item(g.scenes, s).nodes \in Seq(Elems(g.nodes))
         /\ \A k \in Elems(g.skins) :
              Item(g.skins, k).joints \in Seq(Elems(g.nodes))
<1>1. /\ g.nodes \in Seq(NodeType) /\ g.scenes \in Seq(SceneType)
      /\ g.skins \in Seq(SkinType) /\ g.meshes \in Seq(MeshType)
  BY DEF FileType
<1>2. \A is \in Seq(Int) :
        AllRefer(is, g.nodes) => is \in Seq(Elems(g.nodes))
  <2> TAKE is \in Seq(Int)
  <2> HAVE AllRefer(is, g.nodes)
  <2>1. \A k \in 1..Len(is) : is[k] \in Elems(g.nodes)
    BY DEF AllRefer, Refers, Elems
  <2> HIDE DEF Elems
  <2>2. is = [k \in 1..Len(is) |-> is[k]] /\ DOMAIN is = 1..Len(is)
        /\ Len(is) \in Nat
    OBVIOUS
  <2> QED BY <2>1, <2>2, Listed
<1>3. ASSUME NEW p \in Elems(g.nodes)
      PROVE  LET nd == Item(g.nodes, p)
             IN  /\ nd.children \in Seq(Elems(g.nodes))
                 /\ nd.mesh \in Int /\ nd.skin \in Int
                 /\ nd.mesh >= 0 => nd.mesh \in Elems(g.meshes)
                 /\ nd.skin >= 0 => nd.skin \in Elems(g.skins)
  <2> PICK nd : nd = g.nodes[p + 1]
    OBVIOUS
  <2>1. p + 1 \in DOMAIN g.nodes /\ nd \in NodeType /\ nd = Item(g.nodes, p)
    BY <1>1, ElemsIn DEF Item
  <2>2. nd.children \in Seq(Int) /\ nd.mesh \in Int /\ nd.skin \in Int
    BY <2>1 DEF NodeType
  <2>3. AllRefer(nd.children, g.nodes)
    BY <2>1 DEF Valid, IsForest
  <2>4. May(nd.mesh, g.meshes) /\ May(nd.skin, g.skins)
    BY <2>1 DEF Valid
  <2> QED BY <1>2, <2>1, <2>2, <2>3, <2>4 DEF May, Refers, Elems
<1>4. ASSUME NEW s \in Elems(g.scenes)
      PROVE  Item(g.scenes, s).nodes \in Seq(Elems(g.nodes))
  <2> PICK sc : sc = g.scenes[s + 1]
    OBVIOUS
  <2>1. s + 1 \in DOMAIN g.scenes /\ sc \in SceneType /\ sc = Item(g.scenes, s)
    BY <1>1, ElemsIn DEF Item
  <2>2. sc.nodes \in Seq(Int)
    BY <2>1 DEF SceneType
  <2>3. AllRefer(sc.nodes, g.nodes)
    BY <2>1 DEF Valid
  <2> QED BY <1>2, <2>1, <2>2, <2>3
<1>5. ASSUME NEW k \in Elems(g.skins)
      PROVE  Item(g.skins, k).joints \in Seq(Elems(g.nodes))
  <2> PICK sk : sk = g.skins[k + 1]
    OBVIOUS
  <2>1. k + 1 \in DOMAIN g.skins /\ sk \in SkinType /\ sk = Item(g.skins, k)
    BY <1>1, ElemsIn DEF Item
  <2>2. sk.joints \in Seq(Int)
    BY <2>1 DEF SkinType
  <2>3. AllRefer(sk.joints, g.nodes)
    BY <2>1 DEF Valid
  <2> QED BY <1>2, <2>1, <2>2, <2>3
<1> QED BY <1>3, <1>4, <1>5

(* What materials and textures refer to is in the file.                    *)
LEMMA LookRefers ==
  ASSUME NEW g \in FileType, Valid(g)
  PROVE  /\ \A m \in Elems(g.materials), w \in ToSet(Infos) :
              LET info == InfoOf(Item(g.materials, m), w)
              IN  info.index \in Int /\ info.texCoord \in Int
                  /\ (info.index >= 0 => info.index \in Elems(g.textures))
         /\ \A t \in Elems(g.textures) :
              Item(g.textures, t).source \in Elems(g.images)
<1>1. g.materials \in Seq(MaterialType) /\ g.textures \in Seq(TextureType)
  BY DEF FileType
<1>2. ToSet(Infos) = {"baseColor", "metallicRoughness", "normal", "occlusion",
                      "emissive"}
  BY DEF ToSet, Infos
<1>3. ASSUME NEW m \in Elems(g.materials), NEW w \in ToSet(Infos)
      PROVE  LET info == InfoOf(Item(g.materials, m), w)
              IN  info.index \in Int /\ info.texCoord \in Int
                  /\ (info.index >= 0 => info.index \in Elems(g.textures))
  <2> PICK matl : matl = g.materials[m + 1]
    OBVIOUS
  <2>1. m + 1 \in DOMAIN g.materials /\ matl \in MaterialType
        /\ matl = Item(g.materials, m)
    BY <1>1, ElemsIn DEF Item
  <2> PICK pbr : pbr = matl.pbrMetallicRoughness
    OBVIOUS
  <2>2. /\ pbr \in PbrMetallicRoughnessType
        /\ matl.normalTexture \in NormalTextureType
        /\ matl.occlusionTexture \in OcclusionTextureType
        /\ matl.emissiveTexture \in TextureInfoType
    BY <2>1 DEF MaterialType
  <2>3. /\ pbr.baseColorTexture \in TextureInfoType
        /\ pbr.metallicRoughnessTexture \in TextureInfoType
    BY <2>2 DEF PbrMetallicRoughnessType
  <2>4. /\ May(pbr.baseColorTexture.index, g.textures)
        /\ May(pbr.metallicRoughnessTexture.index, g.textures)
        /\ May(matl.normalTexture.index, g.textures)
        /\ May(matl.occlusionTexture.index, g.textures)
        /\ May(matl.emissiveTexture.index, g.textures)
    BY <2>1 DEF Valid
  <2> PICK info : info = InfoOf(matl, w)
    OBVIOUS
  <2>5. /\ info \in TextureInfoType \/ info \in NormalTextureType
           \/ info \in OcclusionTextureType
        /\ May(info.index, g.textures)
    BY <1>2, <2>2, <2>3, <2>4 DEF InfoOf
  <2>6. info.index \in Int /\ info.texCoord \in Int
    BY <2>5 DEF TextureInfoType, NormalTextureType, OcclusionTextureType
  <2>7. info.index >= 0 => info.index \in Elems(g.textures)
    BY <2>5, <2>6 DEF May, Refers, Elems
  <2> QED BY <2>1, <2>6, <2>7
<1>4. ASSUME NEW t \in Elems(g.textures)
      PROVE  Item(g.textures, t).source \in Elems(g.images)
  <2>1. t + 1 \in DOMAIN g.textures
    BY <1>1, ElemsIn DEF Item
  <2>2. Refers(g.textures[t + 1].source, g.images)
    BY <2>1 DEF Valid
  <2> QED BY <2>2 DEF Refers, Elems, Item
<1> QED BY <1>3, <1>4

(* What meshes refer to is in the file.                                    *)
LEMMA MeshRefers ==
  ASSUME NEW g \in FileType, Valid(g), NEW m \in Elems(g.meshes)
  PROVE  /\ Item(g.meshes, m).primitives \in Seq(PrimitiveType)
         /\ \A p \in DOMAIN Item(g.meshes, m).primitives :
              LET prim == Item(g.meshes, m).primitives[p]
              IN  /\ prim.attributes \in Seq(Strings \X Elems(g.accessors))
                  /\ prim.indices \in Int /\ prim.material \in Int
                  /\ prim.indices >= 0 => prim.indices \in Elems(g.accessors)
                  /\ prim.material >= 0 => prim.material \in Elems(g.materials)
<1>1. g.meshes \in Seq(MeshType)
  BY DEF FileType
<1> PICK mesh : mesh = g.meshes[m + 1]
  OBVIOUS
<1>2. m + 1 \in DOMAIN g.meshes /\ mesh \in MeshType /\ mesh = Item(g.meshes, m)
  BY <1>1, ElemsIn DEF Item
<1>3. mesh.primitives \in Seq(PrimitiveType)
  BY <1>2 DEF MeshType
<1>4. ASSUME NEW p \in DOMAIN mesh.primitives
      PROVE  LET prim == mesh.primitives[p]
             IN  /\ prim.attributes \in Seq(Strings \X Elems(g.accessors))
                  /\ prim.indices \in Int /\ prim.material \in Int
                 /\ prim.indices >= 0 => prim.indices \in Elems(g.accessors)
                 /\ prim.material >= 0 => prim.material \in Elems(g.materials)
  <2> PICK prim : prim = mesh.primitives[p]
    OBVIOUS
  <2>1. prim \in PrimitiveType
    BY <1>3, ElementOfSeq
  <2>2. prim.attributes \in PairsType /\ prim.indices \in Int
        /\ prim.material \in Int
    BY <2>1 DEF PrimitiveType
  <2>3. /\ \A a \in DOMAIN prim.attributes :
             Refers(prim.attributes[a][2], g.accessors)
        /\ May(prim.indices, g.accessors) /\ May(prim.material, g.materials)
    BY <1>2 DEF Valid
  <2> PICK atts : atts = prim.attributes
    OBVIOUS
  <2>4. /\ DOMAIN atts = 1..Len(atts) /\ Len(atts) \in Nat
        /\ atts = [k \in 1..Len(atts) |-> atts[k]]
        /\ \A k \in 1..Len(atts) : atts[k] \in Strings \X Int
    BY <2>2, ElementOfSeq DEF PairsType
  <2>5. \A k \in 1..Len(atts) : atts[k] \in Strings \X Elems(g.accessors)
    BY <2>3, <2>4 DEF Refers, Elems
  <2>6. atts \in Seq(Strings \X Elems(g.accessors))
    BY <2>4, <2>5, Listed
  <2>7. /\ prim.indices >= 0 => prim.indices \in Elems(g.accessors)
        /\ prim.material >= 0 => prim.material \in Elems(g.materials)
    BY <2>2, <2>3 DEF May, Refers, Elems
  <2> QED BY <2>2, <2>6, <2>7
<1> QED BY <1>2, <1>3, <1>4

(* What animations refer to is in the file.                                *)
LEMMA AnimationRefers ==
  ASSUME NEW g \in FileType, Valid(g), NEW a \in Elems(g.animations)
  PROVE  /\ Item(g.animations, a).channels \in Seq(ChannelType)
         /\ Item(g.animations, a).samplers \in Seq(AnimationSamplerType)
         /\ \A c \in DOMAIN Item(g.animations, a).channels :
              LET ch == Item(g.animations, a).channels[c]
              IN  /\ ch.target.node \in Elems(g.nodes)
                  /\ ch.target.path \in Strings
                  /\ ch.sampler \in Elems(Item(g.animations, a).samplers)
<1>1. g.animations \in Seq(AnimationType)
  BY DEF FileType
<1> PICK anim : anim = g.animations[a + 1]
  OBVIOUS
<1>2. a + 1 \in DOMAIN g.animations /\ anim \in AnimationType
      /\ anim = Item(g.animations, a)
  BY <1>1, ElemsIn DEF Item
<1>3. anim.channels \in Seq(ChannelType) /\ anim.samplers \in Seq(AnimationSamplerType)
  BY <1>2 DEF AnimationType
<1>4. ASSUME NEW c \in DOMAIN anim.channels
      PROVE  LET ch == anim.channels[c]
             IN  /\ ch.target.node \in Elems(g.nodes)
                 /\ ch.target.path \in Strings
                 /\ ch.sampler \in Elems(anim.samplers)
  <2> PICK ch : ch = anim.channels[c]
    OBVIOUS
  <2>1. ch \in ChannelType
    BY <1>3, ElementOfSeq
  <2>2. ch.target \in TargetType
    BY <2>1 DEF ChannelType
  <2>3. ch.target.path \in Strings
    BY <2>2 DEF TargetType
  <2>4. Refers(ch.target.node, g.nodes) /\ Refers(ch.sampler, anim.samplers)
    BY <1>2 DEF Valid
  <2> QED BY <2>3, <2>4 DEF Refers, Elems
<1> QED BY <1>2, <1>3, <1>4

(* Calls of one sort for the elements of a list.                           *)
Bulk(calls, what, list, S) ==
  /\ calls \in Seq(S) /\ Len(calls) = Len(list)
  /\ \A k \in 1..Len(list) : calls[k] = Do(what, list[k])

(* The calls for a list, as they are used below.                           *)
LEMMA ForAllBulk ==
  ASSUME NEW T, NEW list \in Seq(T), NEW S, NEW what,
         \A i \in T : Do(what, i) \in S
  PROVE  Bulk(ForAll(what, list), what, list, S)
BY ForAllMade DEF Bulk

(* The calls for an object's nodes, or a node's.                           *)
LEMMA GraphsMade ==
  ASSUME NEW g, NEW into, NEW nodes \in Seq(Elems(g.nodes)), NEW S,
         \A n \in Elems(g.nodes) : Do("loadGraph", n) \in S,
         \A n \in ToSet(nodes) : DoIn("insert", n, into) \in S
  PROVE  /\ Graphs(into, nodes) \in Seq(S)
         /\ ToSet(Graphs(into, nodes)) =
              {Do("loadGraph", n) : n \in ToSet(nodes)}
              \cup {DoIn("insert", n, into) : n \in ToSet(nodes)}
<1> DEFINE a == ForAll("loadGraph", nodes)
           b == [k \in DOMAIN nodes |-> DoIn("insert", nodes[k], into)]
           f == InTurn(a, b)
<1>1. /\ DOMAIN nodes = 1..Len(nodes) /\ Len(nodes) \in Nat
      /\ \A k \in 1..Len(nodes) : nodes[k] \in Elems(g.nodes)
                                  /\ nodes[k] \in ToSet(nodes)
  BY ElementOfSeq DEF ToSet
<1>2. /\ a \in Seq(S) /\ Len(a) = Len(nodes)
      /\ \A k \in 1..Len(nodes) : a[k] = Do("loadGraph", nodes[k])
  <2>1. \A i \in Elems(g.nodes) : Do("loadGraph", i) \in S
    OBVIOUS
  <2> HIDE DEF a, b, f
  <2>2. Bulk(ForAll("loadGraph", nodes), "loadGraph", nodes, S)
    BY <2>1, ForAllBulk
  <2>3. Bulk(a, "loadGraph", nodes, S)
    BY <2>2 DEF a
  <2> QED BY <2>3 DEF Bulk
<1>3. /\ b \in Seq(S) /\ Len(b) = Len(nodes)
      /\ \A k \in 1..Len(nodes) : b[k] = DoIn("insert", nodes[k], into)
  <2>1. b = [k \in 1..Len(nodes) |-> DoIn("insert", nodes[k], into)]
    BY <1>1
  <2>2. \A k \in 1..Len(nodes) : b[k] = DoIn("insert", nodes[k], into)
                                 /\ b[k] \in S
    BY <1>1, <2>1
  <2>3. DOMAIN b = 1..Len(nodes) /\ b = [k \in 1..Len(nodes) |-> b[k]]
    BY <2>1
  <2> HIDE DEF b
  <2>4. b \in Seq(S) /\ Len(b) = Len(nodes)
    BY <1>1, <2>2, <2>3, Listed
  <2> QED BY <2>2, <2>4
<1> HIDE DEF a, b
<1>4. /\ f \in Seq(S)
      /\ Len(f) = 2 * Len(a)
      /\ \A k \in 1..Len(a) : f[2 * k - 1] = a[k] /\ f[2 * k] = b[k]
      /\ \A p \in 1..(2 * Len(a)) : \E k \in 1..Len(a) :
              p = 2 * k - 1 \/ p = 2 * k
  BY <1>2, <1>3, InTurnMade
<1> HIDE DEF f
<1>5. DOMAIN f = 1..(2 * Len(nodes)) /\ Len(a) = Len(nodes)
  BY <1>2, <1>4
<1>6. ToSet(f) \subseteq {Do("loadGraph", n) : n \in ToSet(nodes)}
              \cup {DoIn("insert", n, into) : n \in ToSet(nodes)}
  <2> SUFFICES ASSUME NEW p \in 1..(2 * Len(nodes))
               PROVE  \E n \in ToSet(nodes) :
                        f[p] = Do("loadGraph", n) \/ f[p] = DoIn("insert", n, into)
    BY <1>5 DEF ToSet
  <2> PICK k \in 1..Len(nodes) : p = 2 * k - 1 \/ p = 2 * k
    BY <1>4, <1>5
  <2>1. f[p] = Do("loadGraph", nodes[k]) \/ f[p] = DoIn("insert", nodes[k], into)
    BY <1>2, <1>3, <1>4, <1>5
  <2> QED BY <2>1, <1>1
<1>7. ASSUME NEW n \in ToSet(nodes)
      PROVE  Do("loadGraph", n) \in ToSet(f) /\ DoIn("insert", n, into) \in ToSet(f)
  <2> PICK k \in 1..Len(nodes) : nodes[k] = n
    BY <1>1 DEF ToSet
  <2>1. 2 * k - 1 \in DOMAIN f /\ 2 * k \in DOMAIN f
    BY <1>1, <1>5
  <2>2. f[2 * k - 1] = Do("loadGraph", n) /\ f[2 * k] = DoIn("insert", n, into)
    BY <1>2, <1>3, <1>4
  <2> QED BY <2>1, <2>2 DEF ToSet
<1>8. ToSet(f) = {Do("loadGraph", n) : n \in ToSet(nodes)}
              \cup {DoIn("insert", n, into) : n \in ToSet(nodes)}
  BY <1>6, <1>7
<1> QED BY <1>4, <1>8 DEF f, a, b, Graphs

-----------------------------------------------------------------------------
(* The loader's types: what it has to do, and the collection's lists, which *)
(* have a place for each element of the file.                              *)

Over(f, list) == f = [k \in DOMAIN list |-> f[k]]

IsShape(c, g) ==
  /\ c = [scenes |-> c.scenes, nodes |-> c.nodes, parent |-> c.parent,
          meshes |-> c.meshes, skins |-> c.skins, textures |-> c.textures,
          images |-> c.images, decoded |-> c.decoded,
          materials |-> c.materials, animations |-> c.animations]
  /\ Over(c.scenes, g.scenes) /\ Over(c.nodes, g.nodes)
  /\ Over(c.parent, g.nodes) /\ Over(c.meshes, g.meshes)
  /\ Over(c.skins, g.skins) /\ Over(c.textures, g.textures)
  /\ Over(c.images, g.images) /\ Over(c.decoded, g.images)
  /\ Over(c.materials, g.materials) /\ Over(c.animations, g.animations)

Underway == load \in {"loading", "loaded"}

LoaderInv ==
  /\ ParserInv
  /\ load \in {"idle", "loading", "loaded", "thrown"}
  /\ Underway =>
       /\ status = "done" /\ Valid(gltf)
       /\ todo \in Seq(CallsOf(gltf))
       /\ IsShape(coll, gltf)
  /\ load = "loaded" => todo = <<>>

(* The calls that a call makes.                                            *)
MadeBy(what) ==
  CASE what = "loadScene" -> {"loadGraph", "insert"}
    [] what = "loadRest" -> {"loadGraph"}
    [] what = "loadGraph" -> {"loadNode", "loadGraph", "insert"}
    [] what = "loadNode" -> {"loadMesh", "loadSkin"}
    [] what = "loadSkin" -> {"loadNode", "setJoint"}
    [] what = "loadTexture" -> {"loadImage", "makeTexture"}
    [] what = "loadMaterial" -> {"getTexture", "setMaterial"}
    [] what = "getTexture" -> {"loadTexture", "setTexture"}
    [] what = "loadMesh" -> {"newPrimitive", "makeMesh"}
    [] what = "newPrimitive" -> {"getData", "loadMaterial", "copyMaterial"}
    [] what = "loadAnimation" -> {"loadNode", "newAction", "makeAnimation"}
    [] OTHER -> {}

MadeFrom(g, what) == {c \in CallsOf(g) : c.do \in MadeBy(what)}

(* The calls that each call may make.                                      *)
LEMMA MadeByEach ==
  /\ MadeBy("loadScene") = {"loadGraph", "insert"}
  /\ MadeBy("loadRest") = {"loadGraph"}
  /\ MadeBy("loadGraph") = {"loadNode", "loadGraph", "insert"}
  /\ MadeBy("loadNode") = {"loadMesh", "loadSkin"}
  /\ MadeBy("loadSkin") = {"loadNode", "setJoint"}
  /\ MadeBy("loadTexture") = {"loadImage", "makeTexture"}
  /\ MadeBy("loadMaterial") = {"getTexture", "setMaterial"}
  /\ MadeBy("getTexture") = {"loadTexture", "setTexture"}
  /\ MadeBy("loadMesh") = {"newPrimitive", "makeMesh"}
  /\ MadeBy("newPrimitive") = {"getData", "loadMaterial", "copyMaterial"}
  /\ MadeBy("loadAnimation") = {"loadNode", "newAction", "makeAnimation"}
BY DEF MadeBy

(* What a call of the loader does to what there is to do.                  *)
Moves ==
  /\ load = "loading" /\ todo # <<>> /\ UNCHANGED vars
  /\ \/ load' = "thrown"
     \/ /\ load' = "loading"
        /\ \E calls \in Seq(MadeFrom(gltf, Head(todo).do)) :
             todo' = calls \o Tail(todo)

(* What is known of a call that is about to be made.                       *)
LEMMA HeadTyped ==
  ASSUME LoaderInv, NEW what, Doing(what)
  PROVE  /\ load = "loading" /\ Underway /\ todo # <<>>
         /\ status = "done" /\ Valid(gltf) /\ gltf \in FileType
         /\ todo \in Seq(CallsOf(gltf)) /\ IsShape(coll, gltf)
         /\ Head(todo) \in CallsOf(gltf) /\ Head(todo).do = what
BY DEF Doing, LoaderInv, Underway, ParserInv

(* A call that throws ends the loading.                                    *)
LEMMA ThrowMoves ==
  ASSUME load = "loading", todo # <<>>, ThrowLoad
  PROVE  Moves
BY DEF Moves, ThrowLoad

(* A call that makes others puts them first.                               *)
LEMMA ThenMoves ==
  ASSUME load = "loading", todo # <<>>,
         NEW calls \in Seq(MadeFrom(gltf, Head(todo).do)), Then(calls)
  PROVE  Moves
BY DEF Moves, Then

(* A call that does nothing only leaves.                                   *)
LEMMA SkipMoves ==
  ASSUME load = "loading", todo # <<>>, Then(<<>>)
  PROVE  Moves
<1>1. <<>> \in Seq(MadeFrom(gltf, Head(todo).do))
  OBVIOUS
<1> QED BY <1>1, ThenMoves

(* The calls that make no others.                                          *)
LEMMA LeavesMove ==
  ASSUME LoaderInv,
         \/ InsertNode \/ SetJoint \/ LoadImage \/ MakeTexture \/ SetTexture
         \/ SetMaterial \/ GetData \/ CopyMaterial \/ MakeMesh \/ NewAction
         \/ MakeAnimation
  PROVE  Moves
<1>1. load = "loading" /\ todo # <<>>
  BY DEF Doing, InsertNode, SetJoint, LoadImage, MakeTexture, SetTexture,
     SetMaterial, GetData, CopyMaterial, MakeMesh, NewAction, MakeAnimation
<1>2. Then(<<>>) \/ ThrowLoad
  <2>1. CASE InsertNode
    BY <2>1, Zenon DEF InsertNode
  <2>2. CASE SetJoint
    BY <2>2, Zenon DEF SetJoint
  <2>3. CASE LoadImage
    BY <2>3, Zenon DEF LoadImage, Skip
  <2>4. CASE MakeTexture
    BY <2>4, Zenon DEF MakeTexture
  <2>5. CASE SetTexture
    BY <2>5, Zenon DEF SetTexture
  <2>6. CASE SetMaterial
    BY <2>6, Zenon DEF SetMaterial
  <2>7. CASE GetData
    BY <2>7, Zenon DEF GetData
  <2>8. CASE CopyMaterial
    BY <2>8, Zenon DEF CopyMaterial
  <2>9. CASE MakeMesh
    BY <2>9, Zenon DEF MakeMesh
  <2>10. CASE NewAction
    BY <2>10, Zenon DEF NewAction
  <2>11. CASE MakeAnimation
    BY <2>11, Zenon DEF MakeAnimation
  <2> QED
    BY <2>1, <2>2, <2>3, <2>4, <2>5, <2>6, <2>7, <2>8, <2>9, <2>10, <2>11
<1> QED BY <1>1, <1>2, SkipMoves, ThrowMoves

(* Those for scenes and nodes.                                             *)
LEMMA GraphMoves ==
  ASSUME LoaderInv, LoadScene \/ LoadRest \/ LoadGraph \/ LoadNode
  PROVE  Moves
<1>1. load = "loading" /\ todo # <<>>
  BY DEF Doing, LoadScene, LoadRest, LoadGraph, LoadNode
<1>2. gltf \in FileType /\ Valid(gltf)
  BY <1>1 DEF LoaderInv, Underway, ParserInv
<1>3. CASE LoadScene
  <2>1. Head(todo) \in CallsOf(gltf) /\ Head(todo).do = "loadScene"
    BY <1>3, HeadTyped DEF LoadScene
  <2>2. I \in Elems(gltf.scenes)
    BY <2>1, CallKinds DEF I, SceneCalls
  <2> PICK nodes : nodes = Item(gltf.scenes, I).nodes
    OBVIOUS
  <2>3. nodes \in Seq(Elems(gltf.nodes))
    BY <2>2, <1>2, GraphRefers
  <2>4. \A n \in ToSet(nodes) :
          DoIn("insert", n, <<"scene", I>>) \in MadeFrom(gltf, "loadScene")
    <3>1. \A n \in ToSet(nodes) : n \in Elems(gltf.nodes)
      BY <2>3, ElementOfSeq DEF ToSet
    <3> QED BY <2>2, <3>1, CallsMadeIn, MadeByEach DEF MadeFrom, DoIn, DoNth, Item
  <2>5. Graphs(<<"scene", I>>, nodes) \in Seq(MadeFrom(gltf, "loadScene"))
    <3>1. \A n \in Elems(gltf.nodes) :
            Do("loadGraph", n) \in MadeFrom(gltf, "loadScene")
      BY CallsMade, MadeByEach DEF MadeFrom, Do
    <3> QED BY <2>3, <2>4, <3>1, GraphsMade
  <2>6. Then(<<>>) \/ Then(Graphs(<<"scene", I>>, nodes))
    BY <1>3, Zenon DEF LoadScene, Skip
  <2> QED BY <1>1, <2>1, <2>5, <2>6, SkipMoves, ThenMoves
<1>4. CASE LoadGraph
  <2>1. Head(todo) \in CallsOf(gltf) /\ Head(todo).do = "loadGraph"
    BY <1>4, HeadTyped DEF LoadGraph
  <2>2. I \in Elems(gltf.nodes)
    BY <2>1, CallKinds DEF I, NodeCalls
  <2> PICK nodes : nodes = Item(gltf.nodes, I).children
    OBVIOUS
  <2>3. nodes \in Seq(Elems(gltf.nodes))
    BY <2>2, <1>2, GraphRefers
  <2>4. \A n \in ToSet(nodes) :
          DoIn("insert", n, <<"node", I>>) \in MadeFrom(gltf, "loadGraph")
    <3>1. \A n \in ToSet(nodes) : n \in Elems(gltf.nodes)
      BY <2>3, ElementOfSeq DEF ToSet
    <3> QED BY <2>2, <3>1, CallsMadeIn, MadeByEach DEF MadeFrom, DoIn, DoNth, Item, ChildrenOf
  <2>5. Graphs(<<"node", I>>, nodes) \in Seq(MadeFrom(gltf, "loadGraph"))
    <3>1. \A n \in Elems(gltf.nodes) :
            Do("loadGraph", n) \in MadeFrom(gltf, "loadGraph")
      BY CallsMade, MadeByEach DEF MadeFrom, Do
    <3> QED BY <2>3, <2>4, <3>1, GraphsMade
  <2>6. <<Do("loadNode", I)>> \in Seq(MadeFrom(gltf, "loadGraph"))
    <3>1. Do("loadNode", I) \in MadeFrom(gltf, "loadGraph")
      BY <2>2, CallsMade, MadeByEach DEF MadeFrom, Do
    <3> QED BY <3>1
  <2>7. <<Do("loadNode", I)>> \o Graphs(<<"node", I>>, nodes)
          \in Seq(MadeFrom(gltf, "loadGraph"))
    BY <2>5, <2>6, ConcatProperties
  <2>8. Then(<<Do("loadNode", I)>> \o Graphs(<<"node", I>>, nodes))
    BY <1>4, Zenon DEF LoadGraph
  <2> QED BY <1>1, <2>1, <2>7, <2>8, ThenMoves
<1>5. CASE LoadRest
  <2>1. Head(todo) \in CallsOf(gltf) /\ Head(todo).do = "loadRest"
    BY <1>5, HeadTyped DEF LoadRest
  <2>2. I \in Elems(gltf.nodes)
    BY <2>1, CallKinds DEF I, NodeCalls
  <2>3. Do("loadGraph", I) \in MadeFrom(gltf, "loadRest")
    BY <2>2, CallsMade, MadeByEach DEF MadeFrom, Do
  <2>4. <<Do("loadGraph", I)>> \in Seq(MadeFrom(gltf, "loadRest"))
    BY <2>3
  <2>5. Then(<<>>) \/ Then(<<Do("loadGraph", I)>>)
    BY <1>5, Zenon DEF LoadRest, Skip
  <2> QED BY <1>1, <2>1, <2>4, <2>5, SkipMoves, ThenMoves
<1>6. CASE LoadNode
  <2>1. Head(todo) \in CallsOf(gltf) /\ Head(todo).do = "loadNode"
    BY <1>6, HeadTyped DEF LoadNode
  <2>2. I \in Elems(gltf.nodes)
    BY <2>1, CallKinds DEF I, NodeCalls
  <2> PICK mesh : mesh = Item(gltf.nodes, I).mesh
    OBVIOUS
  <2> PICK skin : skin = IF mesh >= 0 THEN Item(gltf.nodes, I).skin ELSE -1
    OBVIOUS
  <2>3. /\ mesh >= 0 => mesh \in Elems(gltf.meshes)
        /\ skin >= 0 => skin \in Elems(gltf.skins)
    <3> PICK nd : nd = Item(gltf.nodes, I)
      OBVIOUS
    <3>1. /\ nd.mesh >= 0 => nd.mesh \in Elems(gltf.meshes)
          /\ nd.skin >= 0 => nd.skin \in Elems(gltf.skins)
      BY <2>2, <1>2, GraphRefers
    <3>2. ~(-1 >= 0)
      OBVIOUS
    <3> QED BY <3>1, <3>2
  <2> PICK a : a = IF mesh >= 0 THEN <<Do("loadMesh", mesh)>> ELSE <<>>
    OBVIOUS
  <2> PICK b : b = IF skin >= 0 THEN <<Do("loadSkin", skin)>> ELSE <<>>
    OBVIOUS
  <2>4. a \in Seq(MadeFrom(gltf, "loadNode")) /\ b \in Seq(MadeFrom(gltf, "loadNode"))
    <3>1. /\ mesh >= 0 => Do("loadMesh", mesh) \in MadeFrom(gltf, "loadNode")
          /\ skin >= 0 => Do("loadSkin", skin) \in MadeFrom(gltf, "loadNode")
      BY <2>3, CallsMade, MadeByEach DEF MadeFrom, Do
    <3> QED BY <3>1
  <2>5. a \o b \in Seq(MadeFrom(gltf, "loadNode"))
    BY <2>4, ConcatProperties
  <2>6. Then(<<>>) \/ ThrowLoad \/ Then(a \o b)
    BY <1>6 DEF LoadNode, Skip
  <2> QED BY <1>1, <2>1, <2>5, <2>6, SkipMoves, ThenMoves, ThrowMoves
<1> QED BY <1>3, <1>4, <1>5, <1>6

(* Calls of one sort, in turn with their successors.                       *)
LEMMA NodesInTurn ==
  ASSUME NEW g, NEW nodes \in Seq(Elems(g.nodes)), NEW S, NEW b \in Seq(S),
         Len(b) = Len(nodes), \A i \in Elems(g.nodes) : Do("loadNode", i) \in S
  PROVE  InTurn(ForAll("loadNode", nodes), b) \in Seq(S)
<1>1. \A i \in Elems(g.nodes) : Do("loadNode", i) \in S
  OBVIOUS
<1>2. Bulk(ForAll("loadNode", nodes), "loadNode", nodes, S)
  BY <1>1, ForAllBulk
<1> PICK a : a = ForAll("loadNode", nodes)
  OBVIOUS
<1>3. a \in Seq(S) /\ Len(b) = Len(a)
  BY <1>2 DEF Bulk
<1>4. InTurn(a, b) \in Seq(S)
  BY <1>3, InTurnMade
<1> QED BY <1>4

(* The numbered calls of a list.                                           *)
LEMMA NthMade ==
  ASSUME NEW S, NEW n \in Nat, NEW what, NEW i,
         \A k \in 1..n : DoNth(what, i, k) \in S
  PROVE  /\ [k \in 1..n |-> DoNth(what, i, k)] \in Seq(S)
         /\ Len([k \in 1..n |-> DoNth(what, i, k)]) = n
         /\ \A p \in 1..n :
              [k \in 1..n |-> DoNth(what, i, k)][p] = DoNth(what, i, p)
<1> DEFINE f == [k \in 1..n |-> DoNth(what, i, k)]
<1>1. \A k \in 1..n : f[k] = DoNth(what, i, k) /\ f[k] \in S
  OBVIOUS
<1>2. DOMAIN f = 1..n /\ f = [k \in 1..n |-> f[k]]
  OBVIOUS
<1> HIDE DEF f
<1>3. f \in Seq(S) /\ Len(f) = n
  BY <1>1, <1>2, Listed
<1> QED BY <1>1, <1>3 DEF f

Numbered(calls, what, i, n, S) ==
  /\ calls \in Seq(S) /\ Len(calls) = n
  /\ \A k \in 1..n : calls[k] = DoNth(what, i, k)

(* One call for each number.                                               *)
LEMMA NthNumbered ==
  ASSUME NEW S, NEW n \in Nat, NEW what, NEW i,
         \A k \in 1..n : DoNth(what, i, k) \in S
  PROVE  Numbered([k \in 1..n |-> DoNth(what, i, k)], what, i, n, S)
BY NthMade DEF Numbered

(* Skins.                                                                  *)
LEMMA SkinMoves ==
  ASSUME LoaderInv, LoadSkin
  PROVE  Moves
<1>1. load = "loading" /\ todo # <<>>
  BY DEF Doing, LoadSkin
<1>2. gltf \in FileType /\ Valid(gltf)
  BY <1>1 DEF LoaderInv, Underway, ParserInv
<1>3. Head(todo) \in CallsOf(gltf) /\ Head(todo).do = "loadSkin"
  BY HeadTyped DEF LoadSkin
<1>4. I \in Elems(gltf.skins)
  BY <1>3, CallKinds DEF I, SkinCalls
<1> PICK nodes : nodes = Item(gltf.skins, I).joints
  OBVIOUS
<1>5. nodes \in Seq(Elems(gltf.nodes))
  BY <1>4, <1>2, GraphRefers
<1>6. DOMAIN nodes = 1..Len(nodes) /\ Len(nodes) \in Nat
  BY <1>5
<1>7. \A k \in 1..Len(nodes) : DoNth("setJoint", I, k) \in MadeFrom(gltf, "loadSkin")
  BY <1>4, <1>6, CallsMadeIn, MadeByEach DEF MadeFrom, DoIn, DoNth, Item
<1>8. Numbered([k \in 1..Len(nodes) |-> DoNth("setJoint", I, k)], "setJoint", I,
               Len(nodes), MadeFrom(gltf, "loadSkin"))
  BY <1>6, <1>7, NthNumbered
<1> PICK b : b = [k \in DOMAIN nodes |-> DoNth("setJoint", I, k)]
  OBVIOUS
<1>9. b \in Seq(MadeFrom(gltf, "loadSkin")) /\ Len(b) = Len(nodes)
  BY <1>6, <1>8 DEF Numbered
<1>10. InTurn(ForAll("loadNode", nodes), b) \in Seq(MadeFrom(gltf, "loadSkin"))
  <2>1. \A i \in Elems(gltf.nodes) :
          Do("loadNode", i) \in MadeFrom(gltf, "loadSkin")
    BY CallsMade, MadeByEach DEF MadeFrom, Do
  <2> QED BY <1>5, <1>9, <2>1, NodesInTurn
<1>11. Then(<<>>) \/ ThrowLoad \/ Then(InTurn(ForAll("loadNode", nodes), b))
  BY Zenon DEF LoadSkin, Skip
<1> QED BY <1>1, <1>3, <1>10, <1>11, SkipMoves, ThenMoves, ThrowMoves

(* Textures and materials.                                                 *)
LEMMA LookMoves ==
  ASSUME LoaderInv, LoadTexture \/ LoadMaterial \/ GetTexture
  PROVE  Moves
<1>1. load = "loading" /\ todo # <<>>
  BY DEF Doing, LoadTexture, LoadMaterial, GetTexture
<1>2. gltf \in FileType /\ Valid(gltf)
  BY <1>1 DEF LoaderInv, Underway, ParserInv
<1>3. CASE LoadTexture
  <2>1. Head(todo) \in CallsOf(gltf) /\ Head(todo).do = "loadTexture"
    BY <1>3, HeadTyped DEF LoadTexture
  <2>2. I \in Elems(gltf.textures)
    BY <2>1, CallKinds DEF I, TextureCalls
  <2> PICK source : source = Item(gltf.textures, I).source
    OBVIOUS
  <2>3. source \in Elems(gltf.images)
    BY <2>2, <1>2, LookRefers
  <2>4. Do("loadImage", source) \in MadeFrom(gltf, "loadTexture")
        /\ Do("makeTexture", I) \in MadeFrom(gltf, "loadTexture")
    BY <2>2, <2>3, CallsMade, MadeByEach DEF MadeFrom, Do
  <2>5. <<Do("loadImage", source), Do("makeTexture", I)>> \in Seq(MadeFrom(gltf, "loadTexture"))
    BY <2>4
  <2>6. \/ Then(<<>>) \/ ThrowLoad
        \/ Then(<<Do("loadImage", source), Do("makeTexture", I)>>)
    BY <1>3, Zenon DEF LoadTexture, Skip
  <2> QED BY <1>1, <2>1, <2>5, <2>6, SkipMoves, ThenMoves, ThrowMoves
<1>4. CASE LoadMaterial
  <2>1. Head(todo) \in CallsOf(gltf) /\ Head(todo).do = "loadMaterial"
    BY <1>4, HeadTyped DEF LoadMaterial
  <2>2. I \in Elems(gltf.materials)
    BY <2>1, CallKinds DEF I, MaterialCalls
  <2> DEFINE a == [k \in DOMAIN Infos |-> DoIn("getTexture", I, Infos[k])]
  <2>3. DOMAIN Infos = 1..5 /\ \A k \in 1..5 : Infos[k] \in ToSet(Infos)
    BY DEF Infos, ToSet
  <2>4. \A k \in 1..5 : a[k] \in MadeFrom(gltf, "loadMaterial")
    BY <2>2, <2>3, CallsMadeIn, MadeByEach DEF MadeFrom, DoIn, DoNth
  <2>5. DOMAIN a = 1..5 /\ a = [k \in 1..5 |-> a[k]]
    BY <2>3
  <2> HIDE DEF a
  <2>6. a \in Seq(MadeFrom(gltf, "loadMaterial"))
    BY <2>4, <2>5, Listed
  <2>7. <<Do("setMaterial", I)>> \in Seq(MadeFrom(gltf, "loadMaterial"))
    <3>1. Do("setMaterial", I) \in MadeFrom(gltf, "loadMaterial")
      BY <2>2, CallsMade, MadeByEach DEF MadeFrom, Do
    <3> QED BY <3>1
  <2>8. a \o <<Do("setMaterial", I)>> \in Seq(MadeFrom(gltf, "loadMaterial"))
    BY <2>6, <2>7, ConcatProperties
  <2>9. Then(<<>>) \/ Then(a \o <<Do("setMaterial", I)>>)
    BY <1>4, Zenon DEF LoadMaterial, Skip, a
  <2> QED BY <1>1, <2>1, <2>8, <2>9, SkipMoves, ThenMoves
<1>5. CASE GetTexture
  <2>1. Head(todo) \in CallsOf(gltf) /\ Head(todo).do = "getTexture"
    BY <1>5, HeadTyped DEF GetTexture
  <2>2. I \in Elems(gltf.materials) /\ Head(todo).k \in ToSet(Infos)
    BY <2>1, CallKinds DEF I, InfoCalls
  <2> PICK w : w = Head(todo).k
    OBVIOUS
  <2> PICK index : index = InfoOf(Item(gltf.materials, I), w).index
    OBVIOUS
  <2>3. index \in Int /\ (index >= 0 => index \in Elems(gltf.textures))
    BY <2>2, <1>2, LookRefers
  <2>4. CASE index >= 0
    <3>1. Do("loadTexture", index) \in MadeFrom(gltf, "getTexture")
      BY <2>3, <2>4, CallsMade, MadeByEach DEF MadeFrom, Do
    <3>2. DoIn("setTexture", I, w) \in MadeFrom(gltf, "getTexture")
      BY <2>2, <2>3, <2>4, CallsMadeIn, MadeByEach DEF MadeFrom, DoIn, DoNth, Item
    <3>3. <<Do("loadTexture", index), DoIn("setTexture", I, w)>> \in Seq(MadeFrom(gltf, "getTexture"))
      BY <3>1, <3>2
    <3>4. \/ Then(<<>>) \/ ThrowLoad
          \/ Then(<<Do("loadTexture", index), DoIn("setTexture", I, w)>>)
      BY <1>5, Zenon DEF GetTexture, Skip
    <3> QED BY <1>1, <2>1, <3>3, <3>4, SkipMoves, ThenMoves, ThrowMoves
  <2>5. CASE ~(index >= 0)
    <3>1. index < 0
      BY <2>3, <2>5
    <3>2. Then(<<>>)
      BY <3>1, <1>5 DEF GetTexture, Skip
    <3> QED BY <1>1, <3>2, SkipMoves
  <2> QED BY <2>4, <2>5
<1> QED BY <1>3, <1>4, <1>5

(* Meshes.                                                                 *)
LEMMA PrimitiveMade ==
  ASSUME NEW g \in FileType, Valid(g), NEW m \in Elems(g.meshes),
         NEW p \in DOMAIN Item(g.meshes, m).primitives
  PROVE  PrimitiveCalls(Item(g.meshes, m).primitives[p]) \in Seq(MadeFrom(g, "newPrimitive"))
<1> PICK prim : prim = Item(g.meshes, m).primitives[p]
  OBVIOUS
<1>1. /\ prim.attributes \in Seq(Strings \X Elems(g.accessors))
      /\ prim.indices >= 0 => prim.indices \in Elems(g.accessors)
      /\ prim.material >= 0 => prim.material \in Elems(g.materials)
  BY MeshRefers
<1> PICK atts : atts = prim.attributes
  OBVIOUS
<1>2. /\ DOMAIN atts = 1..Len(atts) /\ Len(atts) \in Nat
      /\ \A k \in 1..Len(atts) : atts[k] \in Strings \X Elems(g.accessors)
  BY <1>1, ElementOfSeq
<1> DEFINE a == [k \in DOMAIN atts |-> DoIn("getData", atts[k][2], atts[k][1])]
<1>3. \A k \in 1..Len(atts) :
        a[k] = DoIn("getData", atts[k][2], atts[k][1])
  BY <1>2
<1>4. \A k \in 1..Len(atts) : a[k] \in MadeFrom(g, "newPrimitive")
  <2> TAKE k \in 1..Len(atts)
  <2>1. atts[k][2] \in Elems(g.accessors) /\ atts[k][1] \in Strings \cup {"indices"}
    BY <1>2
  <2>2. DoIn("getData", atts[k][2], atts[k][1]) \in MadeFrom(g, "newPrimitive")
    BY <2>1, CallsMadeIn, MadeByEach DEF MadeFrom, DoIn
  <2> QED BY <2>2, <1>3
<1>5. DOMAIN a = 1..Len(atts) /\ a = [k \in 1..Len(atts) |-> a[k]]
  BY <1>2
<1> HIDE DEF a
<1>6. a \in Seq(MadeFrom(g, "newPrimitive"))
  BY <1>2, <1>4, <1>5, Listed
<1> PICK b : b = IF prim.indices >= 0
                 THEN <<DoIn("getData", prim.indices, "indices")>> ELSE <<>>
  OBVIOUS
<1>7. b \in Seq(MadeFrom(g, "newPrimitive"))
  <2>1. prim.indices >= 0 =>
          DoIn("getData", prim.indices, "indices") \in MadeFrom(g, "newPrimitive")
    BY <1>1, CallsMadeIn, MadeByEach DEF MadeFrom, DoIn
  <2> QED BY <2>1
<1> PICK c : c = IF prim.material >= 0
                 THEN <<Do("loadMaterial", prim.material),
                        Do("copyMaterial", prim.material)>>
                 ELSE <<>>
  OBVIOUS
<1>8. c \in Seq(MadeFrom(g, "newPrimitive"))
  <2>1. prim.material >= 0 =>
          /\ Do("loadMaterial", prim.material) \in MadeFrom(g, "newPrimitive")
          /\ Do("copyMaterial", prim.material) \in MadeFrom(g, "newPrimitive")
    BY <1>1, CallsMade, MadeByEach DEF MadeFrom, Do
  <2> QED BY <2>1
<1>9. a \o (b \o c) \in Seq(MadeFrom(g, "newPrimitive")) /\ (a \o b) \o c \in Seq(MadeFrom(g, "newPrimitive"))
  <2>1. b \o c \in Seq(MadeFrom(g, "newPrimitive")) /\ a \o b \in Seq(MadeFrom(g, "newPrimitive"))
    BY <1>6, <1>7, <1>8, ConcatProperties
  <2> QED BY <1>6, <1>8, <2>1, ConcatProperties
<1> QED BY <1>9 DEF PrimitiveCalls, a

(* The calls of meshes and primitives make the calls that they may make.   *)
LEMMA MeshMoves ==
  ASSUME LoaderInv, LoadMesh \/ NewPrimitive
  PROVE  Moves
<1>1. load = "loading" /\ todo # <<>>
  BY DEF Doing, LoadMesh, NewPrimitive
<1>2. gltf \in FileType /\ Valid(gltf)
  BY <1>1 DEF LoaderInv, Underway, ParserInv
<1>3. CASE LoadMesh
  <2>1. Head(todo) \in CallsOf(gltf) /\ Head(todo).do = "loadMesh"
    BY <1>3, HeadTyped DEF LoadMesh
  <2>2. I \in Elems(gltf.meshes)
    BY <2>1, CallKinds DEF I, MeshCalls
  <2> PICK prims : prims = Item(gltf.meshes, I).primitives
    OBVIOUS
  <2>3. prims \in Seq(PrimitiveType)
    BY <2>2, <1>2, MeshRefers
  <2>4. DOMAIN prims = 1..Len(prims) /\ Len(prims) \in Nat
    BY <2>3
  <2>5. \A k \in 1..Len(prims) : DoNth("newPrimitive", I, k) \in MadeFrom(gltf, "loadMesh")
    BY <2>2, <2>4, CallsMadeIn, MadeByEach DEF MadeFrom, DoIn, DoNth, Item
  <2>6. Numbered([k \in 1..Len(prims) |-> DoNth("newPrimitive", I, k)],
                 "newPrimitive", I, Len(prims), MadeFrom(gltf, "loadMesh"))
    BY <2>4, <2>5, NthNumbered
  <2> PICK b : b = [k \in DOMAIN prims |-> DoNth("newPrimitive", I, k)]
    OBVIOUS
  <2>7. b \in Seq(MadeFrom(gltf, "loadMesh"))
    BY <2>4, <2>6 DEF Numbered
  <2>8. <<Do("makeMesh", I)>> \in Seq(MadeFrom(gltf, "loadMesh"))
    <3>1. Do("makeMesh", I) \in MadeFrom(gltf, "loadMesh")
      BY <2>2, CallsMade, MadeByEach DEF MadeFrom, Do
    <3> QED BY <3>1
  <2>9. b \o <<Do("makeMesh", I)>> \in Seq(MadeFrom(gltf, "loadMesh"))
    BY <2>7, <2>8, ConcatProperties
  <2>10. Then(<<>>) \/ Then(b \o <<Do("makeMesh", I)>>)
    BY <1>3, Zenon DEF LoadMesh, Skip
  <2> QED BY <1>1, <2>1, <2>9, <2>10, SkipMoves, ThenMoves
<1>4. CASE NewPrimitive
  <2>1. Head(todo) \in CallsOf(gltf) /\ Head(todo).do = "newPrimitive"
    BY <1>4, HeadTyped DEF NewPrimitive
  <2>2. I \in Elems(gltf.meshes)
        /\ Head(todo).n \in DOMAIN Item(gltf.meshes, I).primitives
    BY <2>1, CallKinds DEF I, PrimitivesCalls, Item
  <2> PICK calls : calls =
        PrimitiveCalls(Item(gltf.meshes, I).primitives[Head(todo).n])
    OBVIOUS
  <2>3. calls \in Seq(MadeFrom(gltf, "newPrimitive"))
    BY <2>2, <1>2, PrimitiveMade
  <2>4. ThrowLoad \/ Then(calls)
    BY <1>4, Zenon DEF NewPrimitive
  <2> QED BY <1>1, <2>1, <2>3, <2>4, ThenMoves, ThrowMoves
<1> QED BY <1>3, <1>4

(* Animations.                                                             *)
LEMMA AnimationMoves ==
  ASSUME LoaderInv, LoadAnimation
  PROVE  Moves
<1>1. load = "loading" /\ todo # <<>>
  BY DEF Doing, LoadAnimation
<1>2. gltf \in FileType /\ Valid(gltf)
  BY <1>1 DEF LoaderInv, Underway, ParserInv
<1>3. Head(todo) \in CallsOf(gltf) /\ Head(todo).do = "loadAnimation"
  BY HeadTyped DEF LoadAnimation
<1>4. I \in Elems(gltf.animations)
  BY <1>3, CallKinds DEF I, AnimationCalls
<1> PICK chans : chans = Item(gltf.animations, I).channels
  OBVIOUS
<1>5. /\ chans \in Seq(ChannelType)
      /\ \A c \in DOMAIN chans : chans[c].target.node \in Elems(gltf.nodes)
  BY <1>4, <1>2, AnimationRefers
<1>6. DOMAIN chans = 1..Len(chans) /\ Len(chans) \in Nat
  BY <1>5
<1> DEFINE a == [k \in DOMAIN chans |-> Do("loadNode", chans[k].target.node)]
<1>7. \A k \in 1..Len(chans) : a[k] \in MadeFrom(gltf, "loadAnimation")
  BY <1>5, <1>6, CallsMade, MadeByEach DEF MadeFrom, Do
<1>8. DOMAIN a = 1..Len(chans) /\ a = [k \in 1..Len(chans) |-> a[k]]
  BY <1>6
<1> HIDE DEF a
<1>9. a \in Seq(MadeFrom(gltf, "loadAnimation")) /\ Len(a) = Len(chans)
  BY <1>6, <1>7, <1>8, Listed
<1>10. \A k \in 1..Len(chans) : DoNth("newAction", I, k) \in MadeFrom(gltf, "loadAnimation")
  BY <1>4, <1>6, CallsMadeIn, MadeByEach DEF MadeFrom, DoIn, DoNth, Item
<1>11. Numbered([k \in 1..Len(chans) |-> DoNth("newAction", I, k)],
                "newAction", I, Len(chans), MadeFrom(gltf, "loadAnimation"))
  BY <1>6, <1>10, NthNumbered
<1> PICK b : b = [k \in DOMAIN chans |-> DoNth("newAction", I, k)]
  OBVIOUS
<1>12. b \in Seq(MadeFrom(gltf, "loadAnimation")) /\ Len(b) = Len(a)
  BY <1>6, <1>9, <1>11 DEF Numbered
<1>13. InTurn(a, b) \in Seq(MadeFrom(gltf, "loadAnimation"))
  BY <1>9, <1>12, InTurnMade
<1>14. <<Do("makeAnimation", I)>> \in Seq(MadeFrom(gltf, "loadAnimation"))
  <2>1. Do("makeAnimation", I) \in MadeFrom(gltf, "loadAnimation")
    BY <1>4, CallsMade, MadeByEach DEF MadeFrom, Do
  <2> QED BY <2>1
<1>15. InTurn(a, b) \o <<Do("makeAnimation", I)>> \in Seq(MadeFrom(gltf, "loadAnimation"))
  BY <1>13, <1>14, ConcatProperties
<1>16. Then(<<>>) \/ Then(InTurn(a, b) \o <<Do("makeAnimation", I)>>)
  BY Zenon DEF LoadAnimation, Skip, a
<1> QED BY <1>1, <1>3, <1>15, <1>16, SkipMoves, ThenMoves

(* What setting an element of one of the collection's lists leaves.        *)
LEMMA ScenesSet ==
  ASSUME NEW g, NEW c, IsShape(c, g), NEW i, NEW v, NEW d,
         d = [c EXCEPT !.scenes[i] = v]
  PROVE  IsShape(d, g)
<1>1. d = [c EXCEPT !.scenes = [c.scenes EXCEPT ![i] = v]]
  OBVIOUS
<1>2. /\ d.scenes = [c.scenes EXCEPT ![i] = v]
      /\ d.nodes = c.nodes /\ d.parent = c.parent /\ d.meshes = c.meshes
      /\ d.skins = c.skins /\ d.textures = c.textures /\ d.images = c.images
      /\ d.decoded = c.decoded /\ d.materials = c.materials /\ d.animations = c.animations
  BY <1>1 DEF IsShape
<1>3. d = [scenes |-> d.scenes, nodes |-> d.nodes, parent |-> d.parent,
           meshes |-> d.meshes, skins |-> d.skins, textures |-> d.textures,
           images |-> d.images, decoded |-> d.decoded,
           materials |-> d.materials, animations |-> d.animations]
  BY <1>1 DEF IsShape
<1>4. Over(d.scenes, g.scenes)
  BY <1>2 DEF IsShape, Over
<1> QED BY <1>2, <1>3, <1>4 DEF IsShape

(* The collection keeps its shape when one element of it is set: a node.   *)
LEMMA NodesSet ==
  ASSUME NEW g, NEW c, IsShape(c, g), NEW i, NEW v, NEW d,
         d = [c EXCEPT !.nodes[i] = v]
  PROVE  IsShape(d, g)
<1>1. d = [c EXCEPT !.nodes = [c.nodes EXCEPT ![i] = v]]
  OBVIOUS
<1>2. /\ d.nodes = [c.nodes EXCEPT ![i] = v]
      /\ d.scenes = c.scenes /\ d.parent = c.parent /\ d.meshes = c.meshes
      /\ d.skins = c.skins /\ d.textures = c.textures /\ d.images = c.images
      /\ d.decoded = c.decoded /\ d.materials = c.materials /\ d.animations = c.animations
  BY <1>1 DEF IsShape
<1>3. d = [scenes |-> d.scenes, nodes |-> d.nodes, parent |-> d.parent,
           meshes |-> d.meshes, skins |-> d.skins, textures |-> d.textures,
           images |-> d.images, decoded |-> d.decoded,
           materials |-> d.materials, animations |-> d.animations]
  BY <1>1 DEF IsShape
<1>4. Over(d.nodes, g.nodes)
  BY <1>2 DEF IsShape, Over
<1> QED BY <1>2, <1>3, <1>4 DEF IsShape

(* The ancestor of a node.                                                 *)
LEMMA ParentSet ==
  ASSUME NEW g, NEW c, IsShape(c, g), NEW i, NEW v, NEW d,
         d = [c EXCEPT !.parent[i] = v]
  PROVE  IsShape(d, g)
<1>1. d = [c EXCEPT !.parent = [c.parent EXCEPT ![i] = v]]
  OBVIOUS
<1>2. /\ d.parent = [c.parent EXCEPT ![i] = v]
      /\ d.scenes = c.scenes /\ d.nodes = c.nodes /\ d.meshes = c.meshes
      /\ d.skins = c.skins /\ d.textures = c.textures /\ d.images = c.images
      /\ d.decoded = c.decoded /\ d.materials = c.materials /\ d.animations = c.animations
  BY <1>1 DEF IsShape
<1>3. d = [scenes |-> d.scenes, nodes |-> d.nodes, parent |-> d.parent,
           meshes |-> d.meshes, skins |-> d.skins, textures |-> d.textures,
           images |-> d.images, decoded |-> d.decoded,
           materials |-> d.materials, animations |-> d.animations]
  BY <1>1 DEF IsShape
<1>4. Over(d.parent, g.nodes)
  BY <1>2 DEF IsShape, Over
<1> QED BY <1>2, <1>3, <1>4 DEF IsShape

(* A mesh.                                                                 *)
LEMMA MeshesSet ==
  ASSUME NEW g, NEW c, IsShape(c, g), NEW i, NEW v, NEW d,
         d = [c EXCEPT !.meshes[i] = v]
  PROVE  IsShape(d, g)
<1>1. d = [c EXCEPT !.meshes = [c.meshes EXCEPT ![i] = v]]
  OBVIOUS
<1>2. /\ d.meshes = [c.meshes EXCEPT ![i] = v]
      /\ d.scenes = c.scenes /\ d.nodes = c.nodes /\ d.parent = c.parent
      /\ d.skins = c.skins /\ d.textures = c.textures /\ d.images = c.images
      /\ d.decoded = c.decoded /\ d.materials = c.materials /\ d.animations = c.animations
  BY <1>1 DEF IsShape
<1>3. d = [scenes |-> d.scenes, nodes |-> d.nodes, parent |-> d.parent,
           meshes |-> d.meshes, skins |-> d.skins, textures |-> d.textures,
           images |-> d.images, decoded |-> d.decoded,
           materials |-> d.materials, animations |-> d.animations]
  BY <1>1 DEF IsShape
<1>4. Over(d.meshes, g.meshes)
  BY <1>2 DEF IsShape, Over
<1> QED BY <1>2, <1>3, <1>4 DEF IsShape

(* A skin.                                                                 *)
LEMMA SkinsSet ==
  ASSUME NEW g, NEW c, IsShape(c, g), NEW i, NEW v, NEW d,
         d = [c EXCEPT !.skins[i] = v]
  PROVE  IsShape(d, g)
<1>1. d = [c EXCEPT !.skins = [c.skins EXCEPT ![i] = v]]
  OBVIOUS
<1>2. /\ d.skins = [c.skins EXCEPT ![i] = v]
      /\ d.scenes = c.scenes /\ d.nodes = c.nodes /\ d.parent = c.parent
      /\ d.meshes = c.meshes /\ d.textures = c.textures /\ d.images = c.images
      /\ d.decoded = c.decoded /\ d.materials = c.materials /\ d.animations = c.animations
  BY <1>1 DEF IsShape
<1>3. d = [scenes |-> d.scenes, nodes |-> d.nodes, parent |-> d.parent,
           meshes |-> d.meshes, skins |-> d.skins, textures |-> d.textures,
           images |-> d.images, decoded |-> d.decoded,
           materials |-> d.materials, animations |-> d.animations]
  BY <1>1 DEF IsShape
<1>4. Over(d.skins, g.skins)
  BY <1>2 DEF IsShape, Over
<1> QED BY <1>2, <1>3, <1>4 DEF IsShape

(* A texture.                                                              *)
LEMMA TexturesSet ==
  ASSUME NEW g, NEW c, IsShape(c, g), NEW i, NEW v, NEW d,
         d = [c EXCEPT !.textures[i] = v]
  PROVE  IsShape(d, g)
<1>1. d = [c EXCEPT !.textures = [c.textures EXCEPT ![i] = v]]
  OBVIOUS
<1>2. /\ d.textures = [c.textures EXCEPT ![i] = v]
      /\ d.scenes = c.scenes /\ d.nodes = c.nodes /\ d.parent = c.parent
      /\ d.meshes = c.meshes /\ d.skins = c.skins /\ d.images = c.images
      /\ d.decoded = c.decoded /\ d.materials = c.materials /\ d.animations = c.animations
  BY <1>1 DEF IsShape
<1>3. d = [scenes |-> d.scenes, nodes |-> d.nodes, parent |-> d.parent,
           meshes |-> d.meshes, skins |-> d.skins, textures |-> d.textures,
           images |-> d.images, decoded |-> d.decoded,
           materials |-> d.materials, animations |-> d.animations]
  BY <1>1 DEF IsShape
<1>4. Over(d.textures, g.textures)
  BY <1>2 DEF IsShape, Over
<1> QED BY <1>2, <1>3, <1>4 DEF IsShape

(* An image.                                                               *)
LEMMA ImagesSet ==
  ASSUME NEW g, NEW c, IsShape(c, g), NEW i, NEW v, NEW d,
         d = [c EXCEPT !.images[i] = v]
  PROVE  IsShape(d, g)
<1>1. d = [c EXCEPT !.images = [c.images EXCEPT ![i] = v]]
  OBVIOUS
<1>2. /\ d.images = [c.images EXCEPT ![i] = v]
      /\ d.scenes = c.scenes /\ d.nodes = c.nodes /\ d.parent = c.parent
      /\ d.meshes = c.meshes /\ d.skins = c.skins /\ d.textures = c.textures
      /\ d.decoded = c.decoded /\ d.materials = c.materials /\ d.animations = c.animations
  BY <1>1 DEF IsShape
<1>3. d = [scenes |-> d.scenes, nodes |-> d.nodes, parent |-> d.parent,
           meshes |-> d.meshes, skins |-> d.skins, textures |-> d.textures,
           images |-> d.images, decoded |-> d.decoded,
           materials |-> d.materials, animations |-> d.animations]
  BY <1>1 DEF IsShape
<1>4. Over(d.images, g.images)
  BY <1>2 DEF IsShape, Over
<1> QED BY <1>2, <1>3, <1>4 DEF IsShape

(* The count of an image.                                                  *)
LEMMA DecodedSet ==
  ASSUME NEW g, NEW c, IsShape(c, g), NEW i, NEW v, NEW d,
         d = [c EXCEPT !.decoded[i] = v]
  PROVE  IsShape(d, g)
<1>1. d = [c EXCEPT !.decoded = [c.decoded EXCEPT ![i] = v]]
  OBVIOUS
<1>2. /\ d.decoded = [c.decoded EXCEPT ![i] = v]
      /\ d.scenes = c.scenes /\ d.nodes = c.nodes /\ d.parent = c.parent
      /\ d.meshes = c.meshes /\ d.skins = c.skins /\ d.textures = c.textures
      /\ d.images = c.images /\ d.materials = c.materials /\ d.animations = c.animations
  BY <1>1 DEF IsShape
<1>3. d = [scenes |-> d.scenes, nodes |-> d.nodes, parent |-> d.parent,
           meshes |-> d.meshes, skins |-> d.skins, textures |-> d.textures,
           images |-> d.images, decoded |-> d.decoded,
           materials |-> d.materials, animations |-> d.animations]
  BY <1>1 DEF IsShape
<1>4. Over(d.decoded, g.images)
  BY <1>2 DEF IsShape, Over
<1> QED BY <1>2, <1>3, <1>4 DEF IsShape

(* A material.                                                             *)
LEMMA MaterialsSet ==
  ASSUME NEW g, NEW c, IsShape(c, g), NEW i, NEW v, NEW d,
         d = [c EXCEPT !.materials[i] = v]
  PROVE  IsShape(d, g)
<1>1. d = [c EXCEPT !.materials = [c.materials EXCEPT ![i] = v]]
  OBVIOUS
<1>2. /\ d.materials = [c.materials EXCEPT ![i] = v]
      /\ d.scenes = c.scenes /\ d.nodes = c.nodes /\ d.parent = c.parent
      /\ d.meshes = c.meshes /\ d.skins = c.skins /\ d.textures = c.textures
      /\ d.images = c.images /\ d.decoded = c.decoded /\ d.animations = c.animations
  BY <1>1 DEF IsShape
<1>3. d = [scenes |-> d.scenes, nodes |-> d.nodes, parent |-> d.parent,
           meshes |-> d.meshes, skins |-> d.skins, textures |-> d.textures,
           images |-> d.images, decoded |-> d.decoded,
           materials |-> d.materials, animations |-> d.animations]
  BY <1>1 DEF IsShape
<1>4. Over(d.materials, g.materials)
  BY <1>2 DEF IsShape, Over
<1> QED BY <1>2, <1>3, <1>4 DEF IsShape

(* An animation.                                                           *)
LEMMA AnimationsSet ==
  ASSUME NEW g, NEW c, IsShape(c, g), NEW i, NEW v, NEW d,
         d = [c EXCEPT !.animations[i] = v]
  PROVE  IsShape(d, g)
<1>1. d = [c EXCEPT !.animations = [c.animations EXCEPT ![i] = v]]
  OBVIOUS
<1>2. /\ d.animations = [c.animations EXCEPT ![i] = v]
      /\ d.scenes = c.scenes /\ d.nodes = c.nodes /\ d.parent = c.parent
      /\ d.meshes = c.meshes /\ d.skins = c.skins /\ d.textures = c.textures
      /\ d.images = c.images /\ d.decoded = c.decoded /\ d.materials = c.materials
  BY <1>1 DEF IsShape
<1>3. d = [scenes |-> d.scenes, nodes |-> d.nodes, parent |-> d.parent,
           meshes |-> d.meshes, skins |-> d.skins, textures |-> d.textures,
           images |-> d.images, decoded |-> d.decoded,
           materials |-> d.materials, animations |-> d.animations]
  BY <1>1 DEF IsShape
<1>4. Over(d.animations, g.animations)
  BY <1>2 DEF IsShape, Over
<1> QED BY <1>2, <1>3, <1>4 DEF IsShape

(* What the calls leave of the collection.                                 *)
SameGraph ==
  /\ coll'.scenes = coll.scenes /\ coll'.nodes = coll.nodes
  /\ coll'.parent = coll.parent /\ coll'.skins = coll.skins
SameLook ==
  /\ coll'.images = coll.images /\ coll'.decoded = coll.decoded
  /\ coll'.textures = coll.textures /\ coll'.materials = coll.materials
SameData == coll'.meshes = coll.meshes /\ coll'.animations = coll.animations

GraphCall ==
  \/ LoadScene \/ LoadRest \/ LoadGraph \/ InsertNode \/ LoadNode
  \/ LoadSkin \/ SetJoint
LookCall ==
  \/ LoadTexture \/ LoadImage \/ MakeTexture
  \/ LoadMaterial \/ GetTexture \/ SetTexture \/ SetMaterial
DataCall ==
  \/ LoadMesh \/ NewPrimitive \/ GetData \/ CopyMaterial \/ MakeMesh
  \/ LoadAnimation \/ NewAction \/ MakeAnimation

(* The calls for scenes, nodes and skins leave the rest of the collection. *)
LEMMA GraphLeaves ==
  ASSUME IsShape(coll, gltf), GraphCall
  PROVE  IsShape(coll', gltf) /\ SameLook /\ SameData
<1> DEFINE Good == IsShape(coll', gltf) /\ SameLook /\ SameData
<1>1. CASE coll' = coll
  BY <1>1 DEF SameLook, SameData
<1>2. CASE LoadScene
  <2>1. coll' = coll
        \/ \E v : coll' = [coll EXCEPT !.scenes[I + 1] = v]
    BY <1>2 DEF LoadScene, Skip
  <2>2. ASSUME NEW v, coll' = [coll EXCEPT !.scenes[I + 1] = v]
        PROVE  IsShape(coll', gltf) /\ SameLook /\ SameData
    <3>1. IsShape(coll', gltf)
      BY <2>2, ScenesSet
    <3>2. SameLook /\ SameData
      BY <2>2 DEF IsShape, SameLook, SameData
    <3> QED BY <3>1, <3>2
  <2> QED BY <2>1, <1>1, <2>2
<1>3. CASE LoadRest \/ LoadGraph
  <2>1. coll' = coll
    BY <1>3 DEF LoadRest, LoadGraph, Skip
  <2> QED BY <2>1, <1>1
<1>4. CASE InsertNode
  <2>1. \E v : coll' = [coll EXCEPT !.parent[I + 1] = v]
    BY <1>4 DEF InsertNode
  <2>2. ASSUME NEW v, coll' = [coll EXCEPT !.parent[I + 1] = v]
        PROVE  IsShape(coll', gltf) /\ SameLook /\ SameData
    <3>1. IsShape(coll', gltf)
      BY <2>2, ParentSet
    <3>2. SameLook /\ SameData
      BY <2>2 DEF IsShape, SameLook, SameData
    <3> QED BY <3>1, <3>2
  <2> QED BY <2>1, <2>2
<1>5. CASE LoadNode
  <2>1. coll' = coll
        \/ \E v : coll' = [coll EXCEPT !.nodes[I + 1] = v]
    BY <1>5 DEF LoadNode, Skip, ThrowLoad
  <2>2. ASSUME NEW v, coll' = [coll EXCEPT !.nodes[I + 1] = v]
        PROVE  IsShape(coll', gltf) /\ SameLook /\ SameData
    <3>1. IsShape(coll', gltf)
      BY <2>2, NodesSet
    <3>2. SameLook /\ SameData
      BY <2>2 DEF IsShape, SameLook, SameData
    <3> QED BY <3>1, <3>2
  <2> QED BY <2>1, <1>1, <2>2
<1>6. CASE LoadSkin
  <2>1. coll' = coll
        \/ \E v : coll' = [coll EXCEPT !.skins[I + 1] = v]
    BY <1>6 DEF LoadSkin, Skip, ThrowLoad
  <2>2. ASSUME NEW v, coll' = [coll EXCEPT !.skins[I + 1] = v]
        PROVE  IsShape(coll', gltf) /\ SameLook /\ SameData
    <3>1. IsShape(coll', gltf)
      BY <2>2, SkinsSet
    <3>2. SameLook /\ SameData
      BY <2>2 DEF IsShape, SameLook, SameData
    <3> QED BY <3>1, <3>2
  <2> QED BY <2>1, <1>1, <2>2
<1>7. CASE SetJoint
  <2>1. \E v : coll' = [coll EXCEPT !.skins[I + 1] = v]
    BY <1>7 DEF SetJoint
  <2>2. ASSUME NEW v, coll' = [coll EXCEPT !.skins[I + 1] = v]
        PROVE  IsShape(coll', gltf) /\ SameLook /\ SameData
    <3>1. IsShape(coll', gltf)
      BY <2>2, SkinsSet
    <3>2. SameLook /\ SameData
      BY <2>2 DEF IsShape, SameLook, SameData
    <3> QED BY <3>1, <3>2
  <2> QED BY <2>1, <2>2
<1> QED BY <1>2, <1>3, <1>4, <1>5, <1>6, <1>7 DEF GraphCall

(* Those for textures, images and materials do.                            *)
LEMMA LookLeaves ==
  ASSUME IsShape(coll, gltf), LookCall
  PROVE  IsShape(coll', gltf) /\ SameGraph /\ SameData
<1>1. CASE coll' = coll
  BY <1>1 DEF SameGraph, SameData
<1>2. CASE LoadTexture \/ GetTexture
  <2>1. coll' = coll
    BY <1>2 DEF LoadTexture, GetTexture, Skip, ThrowLoad
  <2> QED BY <2>1, <1>1
<1>3. CASE LoadImage
  <2>1. coll' = coll
        \/ \E v : coll' = [coll EXCEPT !.images[I + 1] = v,
                                       !.decoded[I + 1] = @ + 1]
    BY <1>3 DEF LoadImage, Skip, ThrowLoad
  <2>2. ASSUME NEW v, coll' = [coll EXCEPT !.images[I + 1] = v,
                                           !.decoded[I + 1] = @ + 1]
        PROVE  IsShape(coll', gltf) /\ SameGraph /\ SameData
    <3> PICK d : d = [coll EXCEPT !.images[I + 1] = v]
      OBVIOUS
    <3> PICK w : w = coll.decoded[I + 1] + 1
      OBVIOUS
    <3>1. coll' = [d EXCEPT !.decoded[I + 1] = w]
      BY <2>2 DEF IsShape
    <3>2. IsShape(d, gltf)
      BY ImagesSet
    <3>3. IsShape(coll', gltf)
      BY <3>1, <3>2, DecodedSet
    <3>4. SameGraph /\ SameData
      BY <2>2 DEF IsShape, SameGraph, SameData
    <3> QED BY <3>3, <3>4
  <2> QED BY <2>1, <2>2, <1>1
<1>4. CASE MakeTexture
  <2>1. \E v : coll' = [coll EXCEPT !.textures[I + 1] = v]
    BY <1>4 DEF MakeTexture
  <2>2. ASSUME NEW v, coll' = [coll EXCEPT !.textures[I + 1] = v]
        PROVE  IsShape(coll', gltf) /\ SameGraph /\ SameData
    <3>1. IsShape(coll', gltf)
      BY <2>2, TexturesSet
    <3>2. SameGraph /\ SameData
      BY <2>2 DEF IsShape, SameGraph, SameData
    <3> QED BY <3>1, <3>2
  <2> QED BY <2>1, <2>2
<1>5. CASE LoadMaterial
  <2>1. coll' = coll
        \/ \E v : coll' = [coll EXCEPT !.materials[I + 1] = v]
    BY <1>5 DEF LoadMaterial, Skip
  <2>2. ASSUME NEW v, coll' = [coll EXCEPT !.materials[I + 1] = v]
        PROVE  IsShape(coll', gltf) /\ SameGraph /\ SameData
    <3>1. IsShape(coll', gltf)
      BY <2>2, MaterialsSet
    <3>2. SameGraph /\ SameData
      BY <2>2 DEF IsShape, SameGraph, SameData
    <3> QED BY <3>1, <3>2
  <2> QED BY <2>1, <1>1, <2>2
<1>6. CASE SetTexture
  <2>1. \E v : coll' = [coll EXCEPT !.materials[I + 1] = v]
    BY <1>6 DEF SetTexture
  <2>2. ASSUME NEW v, coll' = [coll EXCEPT !.materials[I + 1] = v]
        PROVE  IsShape(coll', gltf) /\ SameGraph /\ SameData
    <3>1. IsShape(coll', gltf)
      BY <2>2, MaterialsSet
    <3>2. SameGraph /\ SameData
      BY <2>2 DEF IsShape, SameGraph, SameData
    <3> QED BY <3>1, <3>2
  <2> QED BY <2>1, <2>2
<1>7. CASE SetMaterial
  <2>1. coll' = coll
        \/ \E v : coll' = [coll EXCEPT !.materials[I + 1] = v]
    BY <1>7 DEF SetMaterial, ThrowLoad
  <2>2. ASSUME NEW v, coll' = [coll EXCEPT !.materials[I + 1] = v]
        PROVE  IsShape(coll', gltf) /\ SameGraph /\ SameData
    <3>1. IsShape(coll', gltf)
      BY <2>2, MaterialsSet
    <3>2. SameGraph /\ SameData
      BY <2>2 DEF IsShape, SameGraph, SameData
    <3> QED BY <3>1, <3>2
  <2> QED BY <2>1, <1>1, <2>2
<1> QED BY <1>2, <1>3, <1>4, <1>5, <1>6, <1>7 DEF LookCall

(* And those for meshes and animations.                                    *)
LEMMA DataLeaves ==
  ASSUME IsShape(coll, gltf), DataCall
  PROVE  IsShape(coll', gltf) /\ SameGraph /\ SameLook
<1>1. CASE coll' = coll
  BY <1>1 DEF SameGraph, SameLook
<1>2. CASE LoadMesh \/ NewPrimitive \/ GetData \/ CopyMaterial \/ LoadAnimation
           \/ NewAction
  <2>1. CASE LoadMesh
    BY <2>1, <1>1 DEF LoadMesh, Skip
  <2>2. CASE NewPrimitive
    BY <2>2, <1>1 DEF NewPrimitive, ThrowLoad
  <2>3. CASE GetData
    BY <2>3, <1>1 DEF GetData, ThrowLoad
  <2>4. CASE CopyMaterial
    BY <2>4, <1>1 DEF CopyMaterial
  <2>5. CASE LoadAnimation
    BY <2>5, <1>1 DEF LoadAnimation, Skip
  <2>6. CASE NewAction
    <3>1. coll' = coll
      BY <2>6, Zenon DEF NewAction, ThrowLoad
    <3> QED BY <3>1, <1>1
  <2> QED BY <1>2, <2>1, <2>2, <2>3, <2>4, <2>5, <2>6
<1>3. CASE MakeMesh
  <2>1. coll' = coll
        \/ \E v : coll' = [coll EXCEPT !.meshes[I + 1] = v]
    BY <1>3 DEF MakeMesh, ThrowLoad
  <2>2. ASSUME NEW v, coll' = [coll EXCEPT !.meshes[I + 1] = v]
        PROVE  IsShape(coll', gltf) /\ SameGraph /\ SameLook
    <3>1. IsShape(coll', gltf)
      BY <2>2, MeshesSet
    <3>2. SameGraph /\ SameLook
      BY <2>2 DEF IsShape, SameGraph, SameLook
    <3> QED BY <3>1, <3>2
  <2> QED BY <2>1, <1>1, <2>2
<1>4. CASE MakeAnimation
  <2>1. coll' = coll
        \/ \E v : coll' = [coll EXCEPT !.animations[I + 1] = v]
    BY <1>4 DEF MakeAnimation, ThrowLoad
  <2>2. ASSUME NEW v, coll' = [coll EXCEPT !.animations[I + 1] = v]
        PROVE  IsShape(coll', gltf) /\ SameGraph /\ SameLook
    <3>1. IsShape(coll', gltf)
      BY <2>2, AnimationsSet
    <3>2. SameGraph /\ SameLook
      BY <2>2 DEF IsShape, SameGraph, SameLook
    <3> QED BY <3>1, <3>2
  <2> QED BY <2>1, <1>1, <2>2
<1> QED BY <1>2, <1>3, <1>4 DEF DataCall

(* The loader's types are kept.                                            *)
Calling == GraphCall \/ LookCall \/ DataCall

(* Every call throws, or leaves and makes the calls that it may make.      *)
LEMMA CallsMove ==
  ASSUME LoaderInv, Calling
  PROVE  Moves
<1>1. CASE GraphCall
  BY <1>1, LeavesMove, GraphMoves, SkinMoves DEF GraphCall
<1>2. CASE LookCall
  BY <1>2, LeavesMove, LookMoves DEF LookCall
<1>3. CASE DataCall
  BY <1>3, LeavesMove, MeshMoves, AnimationMoves DEF DataCall
<1> QED BY <1>1, <1>2, <1>3 DEF Calling

(* A call keeps the invariant.                                             *)
LEMMA CallTyped ==
  ASSUME LoaderInv, Calling
  PROVE  LoaderInv'
<1>1. Moves
  BY CallsMove
<1>2. /\ Underway /\ load = "loading" /\ todo # <<>>
      /\ ParserInv /\ status = "done" /\ Valid(gltf)
      /\ todo \in Seq(CallsOf(gltf)) /\ IsShape(coll, gltf)
  BY <1>1 DEF Moves, LoaderInv, Underway
<1>3. ParserInv' /\ status' = status /\ gltf' = gltf
  BY <1>1, <1>2, ParserStep DEF Moves, vars
<1>4. IsShape(coll', gltf)
  BY <1>2, GraphLeaves, LookLeaves, DataLeaves DEF Calling
<1>5. CASE load' = "thrown"
  BY <1>3, <1>5 DEF LoaderInv, Underway
<1>6. CASE load' = "loading"
  <2> PICK calls \in Seq(MadeFrom(gltf, Head(todo).do)) :
         todo' = calls \o Tail(todo)
    BY <1>1, <1>6 DEF Moves
  <2>1. calls \in Seq(CallsOf(gltf))
    <3>1. \A k \in 1..Len(calls) : calls[k] \in CallsOf(gltf)
      BY ElementOfSeq DEF MadeFrom
    <3>2. calls = [k \in 1..Len(calls) |-> calls[k]]
          /\ DOMAIN calls = 1..Len(calls) /\ Len(calls) \in Nat
      OBVIOUS
    <3> QED BY <3>1, <3>2, Listed
  <2>2. todo' \in Seq(CallsOf(gltf))
    BY <1>2, <2>1, Positions
  <2> QED BY <1>2, <1>3, <1>4, <1>6, <2>2 DEF LoaderInv, Underway
<1> QED BY <1>1, <1>5, <1>6 DEF Moves

(* What the loader begins with.                                            *)
LEMMA AllMade ==
  ASSUME NEW T, NEW list \in Seq(T), NEW what, NEW S,
         \A i \in Elems(list) : Do(what, i) \in S
  PROVE  /\ ForAll(what, Indices(list)) \in Seq(S)
         /\ ToSet(ForAll(what, Indices(list))) = {Do(what, i) : i \in Elems(list)}
<1>1. /\ Indices(list) \in Seq(Elems(list)) /\ Len(Indices(list)) = Len(list)
      /\ ToSet(Indices(list)) = Elems(list)
  BY IndicesMade
<1> PICK is : is = Indices(list)
  OBVIOUS
<1>2. Bulk(ForAll(what, is), what, is, S)
  BY <1>1, ForAllBulk
<1> PICK f : f = ForAll(what, is)
  OBVIOUS
<1>3. /\ f \in Seq(S) /\ Len(f) = Len(is)
      /\ \A k \in 1..Len(is) : f[k] = Do(what, is[k])
  BY <1>2 DEF Bulk
<1>4. DOMAIN f = 1..Len(is) /\ DOMAIN is = 1..Len(is)
  BY <1>1, <1>3
<1>5. ToSet(f) = {Do(what, i) : i \in ToSet(is)}
  BY <1>3, <1>4 DEF ToSet
<1> QED BY <1>1, <1>3, <1>5

Begun(g) ==
  ForAll("loadScene", Indices(g.scenes))
  \o ForAll("loadRest", Indices(g.nodes))
  \o ForAll("loadTexture", Indices(g.textures))
  \o ForAll("loadMaterial", Indices(g.materials))
  \o ForAll("loadMesh", Indices(g.meshes))
  \o ForAll("loadSkin", Indices(g.skins))
  \o ForAll("loadAnimation", Indices(g.animations))

BegunSet(g) ==
  {Do("loadScene", i) : i \in Elems(g.scenes)}
  \cup {Do("loadRest", i) : i \in Elems(g.nodes)}
  \cup {Do("loadTexture", i) : i \in Elems(g.textures)}
  \cup {Do("loadMaterial", i) : i \in Elems(g.materials)}
  \cup {Do("loadMesh", i) : i \in Elems(g.meshes)}
  \cup {Do("loadSkin", i) : i \in Elems(g.skins)}
  \cup {Do("loadAnimation", i) : i \in Elems(g.animations)}

(* Two lists of calls, one after the other.                                *)
LEMMA JoinedCalls ==
  ASSUME NEW S, NEW a \in Seq(S), NEW b \in Seq(S)
  PROVE  a \o b \in Seq(S) /\ ToSet(a \o b) = ToSet(a) \cup ToSet(b)
<1> PICK c : c = a \o b
  OBVIOUS
<1>1. /\ c \in Seq(S) /\ Len(c) = Len(a) + Len(b)
      /\ \A i \in 1..Len(a) : c[i] = a[i]
      /\ \A i \in (Len(a) + 1)..Len(c) : c[i] = b[i - Len(a)]
  BY ConcatProperties
<1>2. /\ Len(a) \in Nat /\ Len(b) \in Nat
      /\ DOMAIN a = 1..Len(a) /\ DOMAIN b = 1..Len(b) /\ DOMAIN c = 1..Len(c)
  BY <1>1
<1>3. \A i \in 1..Len(c) : c[i] \in ToSet(a) \cup ToSet(b)
  <2> TAKE i \in 1..Len(c)
  <2>1. CASE i \in 1..Len(a)
    BY <2>1, <1>1, <1>2 DEF ToSet
  <2>2. CASE i \notin 1..Len(a)
    <3>1. i \in (Len(a) + 1)..Len(c) /\ i - Len(a) \in 1..Len(b)
      BY <2>2, <1>1, <1>2
    <3> QED BY <3>1, <1>1, <1>2 DEF ToSet
  <2> QED BY <2>1, <2>2
<1>4. \A i \in 1..Len(a) : a[i] \in ToSet(c)
  <2> TAKE i \in 1..Len(a)
  <2>1. i \in 1..Len(c)
    BY <1>1, <1>2
  <2> QED BY <2>1, <1>1, <1>2 DEF ToSet
<1>5. \A i \in 1..Len(b) : b[i] \in ToSet(c)
  <2> TAKE i \in 1..Len(b)
  <2>1. /\ i + Len(a) \in (Len(a) + 1)..Len(c) /\ i + Len(a) \in 1..Len(c)
        /\ (i + Len(a)) - Len(a) = i
    BY <1>1, <1>2
  <2> QED BY <2>1, <1>1, <1>2 DEF ToSet
<1>6. ToSet(c) = ToSet(a) \cup ToSet(b)
  BY <1>2, <1>3, <1>4, <1>5 DEF ToSet
<1> QED BY <1>1, <1>6

(* ... and seven of them, as Begin joins them.                             *)
Joined(c, a, b, S) == c \in Seq(S) /\ ToSet(c) = ToSet(a) \cup ToSet(b)

(* The same, as it is used below.                                          *)
LEMMA JoinedOnce ==
  ASSUME NEW S, NEW a \in Seq(S), NEW b \in Seq(S)
  PROVE  Joined(a \o b, a, b, S)
BY JoinedCalls DEF Joined

Union7(c, s1, s2, s3, s4, s5, s6, s7, S) ==
  /\ c \in Seq(S)
  /\ ToSet(c) = ToSet(s1) \cup ToSet(s2) \cup ToSet(s3) \cup ToSet(s4)
                \cup ToSet(s5) \cup ToSet(s6) \cup ToSet(s7)

(* Seven lists, as loadContents makes them.                                *)
LEMMA JoinedSeven ==
  ASSUME NEW S, NEW s1 \in Seq(S), NEW s2 \in Seq(S), NEW s3 \in Seq(S),
         NEW s4 \in Seq(S), NEW s5 \in Seq(S), NEW s6 \in Seq(S),
         NEW s7 \in Seq(S)
  PROVE  Union7(s1 \o s2 \o s3 \o s4 \o s5 \o s6 \o s7,
                s1, s2, s3, s4, s5, s6, s7, S)
<1> DEFINE j2 == s1 \o s2
           j3 == j2 \o s3
           j4 == j3 \o s4
           j5 == j4 \o s5
           j6 == j5 \o s6
           j7 == j6 \o s7
<1>1. Joined(j2, s1, s2, S)
  BY JoinedOnce
<1> HIDE DEF j2
<1>2. Joined(j3, j2, s3, S)
  BY <1>1, JoinedOnce DEF Joined
<1> HIDE DEF j3
<1>3. Joined(j4, j3, s4, S)
  BY <1>2, JoinedOnce DEF Joined
<1> HIDE DEF j4
<1>4. Joined(j5, j4, s5, S)
  BY <1>3, JoinedOnce DEF Joined
<1> HIDE DEF j5
<1>5. Joined(j6, j5, s6, S)
  BY <1>4, JoinedOnce DEF Joined
<1> HIDE DEF j6
<1>6. Joined(j7, j6, s7, S)
  BY <1>5, JoinedOnce DEF Joined
<1> HIDE DEF j7
<1>7. Union7(j7, s1, s2, s3, s4, s5, s6, s7, S)
  BY <1>1, <1>2, <1>3, <1>4, <1>5, <1>6, Zenon DEF Joined, Union7
<1> QED BY <1>7 DEF j7, j6, j5, j4, j3, j2

(* The calls that are to be made at first.                                 *)
LEMMA BegunMade ==
  ASSUME NEW g \in FileType
  PROVE  Begun(g) \in Seq(CallsOf(g)) /\ ToSet(Begun(g)) = BegunSet(g)
<1>0. /\ g.scenes \in Seq(SceneType) /\ g.nodes \in Seq(NodeType)
      /\ g.textures \in Seq(TextureType) /\ g.materials \in Seq(MaterialType)
      /\ g.meshes \in Seq(MeshType) /\ g.skins \in Seq(SkinType)
      /\ g.animations \in Seq(AnimationType)
  BY DEF FileType
<1> DEFINE Right(f, what, list) ==
             /\ f \in Seq(CallsOf(g))
             /\ ToSet(f) = {Do(what, i) : i \in Elems(list)}
<1>a. \A T : \A list \in Seq(T) : \A what :
        (\A i \in Elems(list) : Do(what, i) \in CallsOf(g)) =>
          Right(ForAll(what, Indices(list)), what, list)
  BY AllMade
<1> HIDE DEF Right
<1>1. Right(ForAll("loadScene", Indices(g.scenes)), "loadScene", g.scenes)
  BY <1>0, <1>a, CallsMade
<1>2. Right(ForAll("loadRest", Indices(g.nodes)), "loadRest", g.nodes)
  BY <1>0, <1>a, CallsMade
<1>3. Right(ForAll("loadTexture", Indices(g.textures)), "loadTexture", g.textures)
  BY <1>0, <1>a, CallsMade
<1>4. Right(ForAll("loadMaterial", Indices(g.materials)), "loadMaterial", g.materials)
  BY <1>0, <1>a, CallsMade
<1>5. Right(ForAll("loadMesh", Indices(g.meshes)), "loadMesh", g.meshes)
  BY <1>0, <1>a, CallsMade
<1>6. Right(ForAll("loadSkin", Indices(g.skins)), "loadSkin", g.skins)
  BY <1>0, <1>a, CallsMade
<1>7. Right(ForAll("loadAnimation", Indices(g.animations)), "loadAnimation", g.animations)
  BY <1>0, <1>a, CallsMade
<1> PICK s1 : s1 = ForAll("loadScene", Indices(g.scenes))
  OBVIOUS
<1> PICK s2 : s2 = ForAll("loadRest", Indices(g.nodes))
  OBVIOUS
<1> PICK s3 : s3 = ForAll("loadTexture", Indices(g.textures))
  OBVIOUS
<1> PICK s4 : s4 = ForAll("loadMaterial", Indices(g.materials))
  OBVIOUS
<1> PICK s5 : s5 = ForAll("loadMesh", Indices(g.meshes))
  OBVIOUS
<1> PICK s6 : s6 = ForAll("loadSkin", Indices(g.skins))
  OBVIOUS
<1> PICK s7 : s7 = ForAll("loadAnimation", Indices(g.animations))
  OBVIOUS
<1>8. /\ ToSet(s1) = {Do("loadScene", i) : i \in Elems(g.scenes)}
      /\ ToSet(s2) = {Do("loadRest", i) : i \in Elems(g.nodes)}
      /\ ToSet(s3) = {Do("loadTexture", i) : i \in Elems(g.textures)}
      /\ ToSet(s4) = {Do("loadMaterial", i) : i \in Elems(g.materials)}
      /\ ToSet(s5) = {Do("loadMesh", i) : i \in Elems(g.meshes)}
      /\ ToSet(s6) = {Do("loadSkin", i) : i \in Elems(g.skins)}
      /\ ToSet(s7) = {Do("loadAnimation", i) : i \in Elems(g.animations)}
  BY <1>1, <1>2, <1>3, <1>4, <1>5, <1>6, <1>7 DEF Right
<1>9. /\ s1 \in Seq(CallsOf(g)) /\ s2 \in Seq(CallsOf(g))
      /\ s3 \in Seq(CallsOf(g)) /\ s4 \in Seq(CallsOf(g))
      /\ s5 \in Seq(CallsOf(g)) /\ s6 \in Seq(CallsOf(g))
      /\ s7 \in Seq(CallsOf(g))
  BY <1>1, <1>2, <1>3, <1>4, <1>5, <1>6, <1>7 DEF Right
<1> PICK j : j = s1 \o s2 \o s3 \o s4 \o s5 \o s6 \o s7
  OBVIOUS
<1>10. Union7(j, s1, s2, s3, s4, s5, s6, s7, CallsOf(g))
  BY <1>9, JoinedSeven
<1>11. j = Begun(g)
  BY DEF Begun
<1>12. j \in Seq(CallsOf(g)) /\ ToSet(j) = BegunSet(g)
  BY <1>8, <1>10, Zenon DEF BegunSet, Union7
<1> QED BY <1>11, <1>12

(* The loading begins with the invariant.                                  *)
LEMMA BeginTyped ==
  ASSUME LoaderInv, Begin
  PROVE  LoaderInv' /\ gltf' = gltf /\ todo' = Begun(gltf)
<1>1. /\ gltf \in FileType /\ ParserInv /\ UNCHANGED vars /\ load' = "loading"
      /\ status = "done" /\ Valid(gltf)
  BY DEF LoaderInv, ParserInv, Begin
<1>2. ParserInv' /\ gltf' = gltf /\ status' = status
  BY <1>1, ParserStep DEF vars
<1>3. todo' = Begun(gltf)
  BY DEF Begin, Begun
<1>4. todo' \in Seq(CallsOf(gltf))
  BY <1>1, <1>3, BegunMade
<1>5. IsShape(coll', gltf)
  <2> PICK c : c = coll'
    OBVIOUS
  <2>1. c = [scenes |-> None(gltf.scenes), nodes |-> None(gltf.nodes),
              parent |-> [k \in DOMAIN gltf.nodes |-> Apart],
              meshes |-> None(gltf.meshes), skins |-> None(gltf.skins),
              textures |-> None(gltf.textures), images |-> None(gltf.images),
              decoded |-> [k \in DOMAIN gltf.images |-> 0],
              materials |-> None(gltf.materials),
              animations |-> None(gltf.animations)]
    BY DEF Begin
  <2>2. c = [scenes |-> c.scenes, nodes |-> c.nodes, parent |-> c.parent,
             meshes |-> c.meshes, skins |-> c.skins, textures |-> c.textures,
             images |-> c.images, decoded |-> c.decoded,
             materials |-> c.materials, animations |-> c.animations]
    BY <2>1
  <2>3. \A list : Over(None(list), list) /\ Over([k \in DOMAIN list |-> Apart], list)
          /\ Over([k \in DOMAIN list |-> 0], list)
    BY DEF Over, None
  <2>4. /\ c.scenes = None(gltf.scenes) /\ c.nodes = None(gltf.nodes)
        /\ c.parent = [k \in DOMAIN gltf.nodes |-> Apart]
        /\ c.meshes = None(gltf.meshes) /\ c.skins = None(gltf.skins)
        /\ c.textures = None(gltf.textures) /\ c.images = None(gltf.images)
        /\ c.decoded = [k \in DOMAIN gltf.images |-> 0]
        /\ c.materials = None(gltf.materials)
        /\ c.animations = None(gltf.animations)
    BY <2>1
  <2>5. IsShape(c, gltf)
    BY <2>2, <2>3, <2>4 DEF IsShape
  <2> QED BY <2>5
<1> QED BY <1>1, <1>2, <1>3, <1>4, <1>5 DEF LoaderInv, Underway

(* Every step keeps the invariant.                                         *)
LEMMA LoaderTyped ==
  ASSUME LoaderInv, Next \/ UNCHANGED allVars
  PROVE  LoaderInv'
<1>1. CASE UNCHANGED allVars
  <2>1. UNCHANGED <<vars, todo, coll, load>>
    BY <1>1 DEF allVars, loadVars
  <2>2. ParserInv'
    BY <2>1, ParserStep DEF LoaderInv
  <2> QED BY <2>1, <2>2 DEF LoaderInv, Underway, vars
<1>2. CASE ReadSymbol
  <2>1. /\ ParserInv' /\ load' = load /\ todo' = todo /\ coll' = coll
        /\ status = "reading"
    BY <1>2, ParserStep DEF ReadSymbol, Read, loadVars, LoaderInv
  <2> QED BY <2>1 DEF LoaderInv, Underway
<1>3. CASE Begin
  BY <1>3, BeginTyped
<1>4. CASE Finish
  <2>1. ParserInv'
    BY <1>4, ParserStep DEF Finish, LoaderInv
  <2> QED BY <1>4, <2>1 DEF Finish, LoaderInv, Underway, vars
<1>5. CASE Calling
  BY <1>5, CallTyped
<1> QED BY <1>1, <1>2, <1>3, <1>4, <1>5
  DEF Next, Calling, GraphCall, LookCall, DataCall

(* It holds at first.                                                      *)
LEMMA LoaderBegins ==
  ASSUME LoaderInit
  PROVE  LoaderInv
BY ParserInit DEF LoaderInit, LoadInit, LoaderInv, Underway

(* loadGLTF: what is read of a file and made of it always has its type,    *)
(* and so has every call that is still to be made: no element that the     *)
(* loader looks up is missing from the file.                               *)
THEOREM LoaderIsTyped == Spec => []LoaderInv
<1>1. LoaderInv /\ [Next]_allVars => LoaderInv'
  BY LoaderTyped
<1> QED BY <1>1, LoaderBegins, PTL DEF Spec
=============================================================================
