CONSTANTS
  game = game
  res = res
  dev1 = dev1
  dev2 = dev2
  Null = Null
  Thread = {thrower}
  Image = {game, res, dev1, dev2}
  Game = game
  Resident = {res}
  Code <- Codes
  Home <- Homes
  Slots = 3
  SlotSize = 5
  Reach = 4
  Stacks <- StackSet
  InputThread = {input1, input2}
  Poller = poller
  Dev = {dev1, dev2}
  Period = 2
  W = 4
  MaxLoads = 2
SPECIFICATION FairSpec
CHECK_DEADLOCK FALSE
INVARIANTS
  TypeOK
  OneDevelopmentPlugin
  BuffersAccounted
  Debounced
  LandsInHandler
  DiesOnlyIfDisturbed
PROPERTY
  EveryReloadEnds
