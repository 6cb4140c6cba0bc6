SPECIFICATION Spec
CONSTANTS
  Requests = {r1, r2}
  Docs = {"a", "b", "empty"}
  Contents = {"text", "blank"}
  Content <- MCContent
  Blank = {"blank"}
  HostNotes = TRUE
INVARIANTS
  TypeOK
  IndexedIsSearchable
  AnnouncedIsFound
  OneIdPerContent
  PendingIsExplained
  SettledAgree
PROPERTIES
  ImplementsShelf
  EveryUploadEnds
