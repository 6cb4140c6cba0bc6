SPECIFICATION Spec
CONSTANTS
  Requests = {r1}
  Docs = {"a", "b", "empty"}
  Contents = {"text", "blank"}
  Content <- MCContent
  Blank = {"blank"}
  HostNotes = FALSE
INVARIANT AnnouncedIsSearched
