\* Every program over five files in two directories with at most two imports
\* in each of three of them; one embedded and one hosted module; a broken file.
SPECIFICATION FairSpec
CONSTANTS
  main = main  util = util  libmain = libmain  libutil = libutil  torn = torn  gone = gone
  Files <- FilesMC
  RootFile = main
  Broken = {torn}
  Paths = {"lib", "util", "lib::util", "main", "math", "rust", "torn", "nope"}
  NoPath = ""
  Embedded = {"math"}
  Hosted = {"rust"}
  FileOf <- FileOfMC
  Missing = gone
  MaxStack = 6
  ItemsOf <- ItemsOfMC
  ImportLists <- ImportListsMC
INVARIANTS
  LoadIsExact
  DependencyOrder
  BindsTheFileNamed
  NoSilentRebinding
PROPERTIES
  LoadEnds
