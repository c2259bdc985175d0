CONSTANTS
  acmdGame = acmdGame
  resets = resets
  game = game
  input = input
  plugin = plugin
  Nobody = Nobody
  Categories <- SomeCategories
  Lists <- SomeLists
  GameThread = {game}
  InputThread = {input}
  PluginThread = {plugin}
SPECIFICATION FairSpec
CHECK_DEADLOCK FALSE
INVARIANTS
  TypeOK
  OnlyKnownCircles
  HandlersInNoCircle
PROPERTY
  EveryCallReturns
