SPECIFICATION PathSpec
CONSTANTS
  Names = {1, 2}
  Uuids = {u1, u2}
  Pids = {0}
  MaxRecords = 3
  MaxNames = 2
  Others <- MCOthers
  Catalogue <- MCCatalogue
  RecordLists <- MCRecordLists
  MetadataLists <- MCMetadataLists
  Responses <- MCResponses
  Cuts = {3, 4, 9}
  MaxMessageBytes = 120
  MaxEvents = 6
SYMMETRY Ids
INVARIANTS
  AnsweredFromLog
  IndexesAgree
  
  HandledAsSent
  ClosedForCause
  ParsedAsSent
  TruncatedIsRefused
  
  LogReadBack
  
