SPECIFICATION Spec
CONSTANTS
  Masks <- MCMasks
  Blended = {"glass"}
  Skinned = {"skinned"}
  ShaderOf <- MCShaderOf
  TableOf <- MCTableOf
  Passes = {"p", "q"}
  None = "none"
  MainUnifSize = 1
  InstanceSize = 1
  SkinnedSize = 3
  UnifBufferSize = 2
  Scenes <- MCScenes
  MaxRenders = 2
INVARIANTS
  AllocationsDistinct
  CachesAgree
  UniformsFit
PROPERTIES
  KeepsRenderPromise
  RenderEnds
