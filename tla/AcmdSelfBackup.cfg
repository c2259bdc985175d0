CONSTANTS
  game = game
  mario = mario
  luigi = luigi
  allAgents = allAgents
  s1 = s1
  m1 = m1
  m2 = m2
  res = res
  dev = dev
  native = native
  resLow = resLow
  resHigh = resHigh
  devLow = devLow
  devHigh = devHigh
  devCommon = devCommon
  Null = Null
  Category = {game}
  Hash = {mario, luigi}
  Common = allAgents
  Script = {s1}
  Module = {m1, m2}
  Plugin = {res, dev}
  Dev = dev
  Fn = {native, resLow, resHigh, devLow, devHigh, devCommon}
  Factory <- TwoFighters
  Request <- FewRequests
  MaxGen = 2
  MaxAgents = 2
  Threaded = TRUE
SPECIFICATION Spec
CHECK_DEADLOCK FALSE
INVARIANT
  BackupNotSelf
