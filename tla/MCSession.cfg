\* One dependency module (with or without a block, loaded again by the next
\* file entry), an instance and a builtin receiver, four open frames.
SPECIFICATION Spec
CONSTANTS
  Modules = {m1, m2}
  Root = Root
  Keys <- KeysMC
  Vals <- ValsMC
  Default <- DefaultMC
  VmOff = "other"
  Blocks <- BlocksMC
  NoBlock = NoBlock
  Polluting = {"domain"}
  NativeLevels = {"default"}
  Instances = {o1, o2}
  Builtins = {s1}
  Nobody = Nobody
  MaxFrames = 4
INVARIANTS
  PolicyNests
  SelfStacksMatchCalls
  ModuleTracksLoad
  EntryPolicyOnly
