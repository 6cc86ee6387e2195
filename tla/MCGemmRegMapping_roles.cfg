\* Register roles and struct-ABI prologue of every fully mapped variant.
CONSTANT Configs <- MappedConfigs
SPECIFICATION Spec
INVARIANTS
  LiveRolesDistinct
  StructArgumentsLoaded
