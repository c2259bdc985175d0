CONSTANTS
  game = game
  mario = mario
  luigi = luigi
  allAgents = allAgents
  s1 = s1
  m1 = m1
  m2 = m2
  res = res
  dev = dev
  native = native
  resLow = resLow
  resHigh = resHigh
  devLow = devLow
  devHigh = devHigh
  devCommon = devCommon
  Null = Null
  Category = {game}
  Hash = {mario}
  Common = allAgents
  Script = {s1}
  Module = {m1}
  Plugin = {res, dev}
  Dev = dev
  Fn = {native, resLow, resHigh, devLow, devHigh, devCommon}
  Factory <- OneFighter
  Request <- AllRequests
  MaxGen = 2
  MaxAgents = 2
  Threaded = FALSE
SPECIFICATION Spec
CHECK_DEADLOCK FALSE
INVARIANTS
  ReplacedNeverNative
  OnlyDisplacedDangle
  BackupNotSelf
PROPERTY
  HighPriorityKept
