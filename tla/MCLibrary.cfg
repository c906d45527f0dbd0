SPECIFICATION MCSpec
CONSTANTS
  Key = {k1, k2}
  Value = {1, 2}
  DataType = {"None", "Bool", "Byte", "Int"}
  NoValue = NoValue
  PacketId = {1, 2}
  ActionName = {"A", "B"}
  StructName = {"S"}
  ServerName = {"Login"}
  DbVersion = {1, 2, 3}
  ClientVersion = 2
  MaxDefinitions = 3
  Conn = {c1, c2}
  Data = {2, 3}
  MaxSent = 3
  Sizes = {2, 3}
  Grf = {g1, g2}
  Name = {n1, n2}
  BaseName <- MCBaseName
  MaxPlace = 2
  MaxId = 1
  Letter = {"a", "b"}
  MaxPattern = 5
  MaxSubject = 4
  InfoKey = {"i1", "i2", "i3"}
  Word = {"w"}
  MaxRows = 3
  MaxText = 2
SYMMETRY MCSymmetry
INVARIANTS
  LibraryTypeOK
  KnownKeyHasValue ReadsWhatWasPut
  NewestUsableVersionIsRead ActionGetsItsLastPacket PacketsHaveCurrentStructures
  PostedAsSent TornIsLast
  ReadsItsContents OnlyACrashTearsACache
  NoNameIsMissed NothingElseIsFound
  OrderDoesNotShow
CHECK_DEADLOCK FALSE
