CONSTANTS
  common = common
  sdk = sdk
  res = res
  dev = dev
  hookTable = hookTable
  hookImport = hookImport
  hookStatic = hookStatic
  frameFighter = frameFighter
  mario = mario
  fireball = fireball
  Null = Null
  Module = {common, sdk}
  StaticModule = {sdk}
  Plugin = {res, dev}
  Dev = dev
  Piece = {hookTable, hookImport, hookStatic, frameFighter}
  SymbolPiece = {hookTable, hookImport, hookStatic}
  FramePiece = {frameFighter}
  Uses <- Pieces
  AtStart = {hookImport}
  Target <- Targets
  NoOriginal = {hookImport}
  Offset <- Offsets
  Table <- Tables
  Slots = 4
  SlotSize = 5
  Home <- Homes
  OverflowChecks = FALSE
  MaxLoads <- Loads
  CommonModule = common
  FrameList = {"main"}
  Control <- Controls
  Frame <- Frames
  Agent = {mario, fireball}
  Kind <- Kinds
  Category <- Categories
SPECIFICATION Spec
CHECK_DEADLOCK FALSE
INVARIANTS
  TypeOK
  SymbolChains
  OriginalsNulled
  AgentChains
  FaultsOnlyByStale
