CONSTANTS
  res = res
  dev = dev
  resets = resets
  fighterFrames = fighterFrames
  weaponFrames = weaponFrames
  Null = Null
  Plugin = {res, dev}
  Dev = dev
  List = {resets, fighterFrames, weaponFrames}
  Lazy = {fighterFrames, weaponFrames}
  PurgeOrder <- UninstallOrder
  MaxGen = 2
SPECIFICATION FairSpec
CHECK_DEADLOCK FALSE
INVARIANTS
  TypeOK
  CallsMapped
  ListsExact
  HookedOnce
PROPERTY
  UninstallEnds
