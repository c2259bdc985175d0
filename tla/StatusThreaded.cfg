CONSTANTS
  mario = mario
  luigi = luigi
  fireball = fireball
  allFighters = allFighters
  s1 = s1
  m1 = m1
  res = res
  dev = dev
  own = own
  common = common
  waza = waza
  resLow = resLow
  resHigh = resHigh
  devLow = devLow
  devHigh = devHigh
  devAll = devAll
  resWaza = resWaza
  devWaza = devWaza
  Null = Null
  CommonNro = CommonNro
  Module = {m1}
  Plugin = {res, dev}
  Dev = dev
  Hash = {mario}
  FighterHash = {mario}
  Common = allFighters
  Slot = {s1}
  Fn = {own, common, waza, resLow, resHigh, devLow, devHigh, devAll, resWaza, devWaza}
  Export <- OwnFighter
  CommonNative <- CommonTable
  Request <- TwoHigh
  WazaRequest <- BothWaza
  MaxGen = 2
  MaxAgents = 2
  Threaded = TRUE
SPECIFICATION Spec
CHECK_DEADLOCK FALSE
INVARIANTS
  TypeOK
  ResolvedUnique
  EntriesMapped
  VtablesExact
  InstalledEverywhere
PROPERTIES
  FirstHighKept
  ImplementsSlots
