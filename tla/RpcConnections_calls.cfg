SPECIFICATION MCSpec
CONSTANTS
  Loads <- EitherCalls
  MaxCalls = 2
  Closers = {"server"}
  MaxConnections = 2
  MaxToServer = 2
  MaxToClient = 2
  HalfBits = 10
  WordBits = 16
  SafeBits = 20
  LongBits = 24
  SingleLimit = 33554432
  TypeShift = 2
  Peers = {"client", "server"}
  Classes <- AllClasses
  Families <- AllFamilies
  Chain <- Chains
  Wired <- WiredFields
  Fielded <- FieldedFields
  Reflected <- ReflectedMembers
  Fluent <- FluentMembers
  TagClasses = {"Mark"}
  Nested <- NestedClass
  Items <- Scalars
  WireFrames <- FrameItems
  Rooms = {7, 200}
  MaxItems = 2
INVARIANTS
  HandlerRunsOnce
  RepliesAreWanted
  NoPendingCallIsStale
  CodecHolds
CHECK_DEADLOCK FALSE
