\* Two modules, three class statements, two of them of one name.
SPECIFICATION Spec
CONSTANTS
  geo = geo
  main = main
  Modules <- McModules
  Root = main
  Defs <- McDefs
  Name <- McName
  Home <- McHome
  Exported <- McExported
  Fields <- McFields
  Methods <- McMethods
  Associated <- McAssociated
  MaxFrames = 3
  MaxInstances = 2
INVARIANTS
  PrivateInsideMethods
  OwnMembersOpen
  ModuleMembersByModule
CHECK_DEADLOCK FALSE
