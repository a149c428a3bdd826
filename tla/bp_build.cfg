\* Two tunables of one file, one with safe spans of its own.
SPECIFICATION SpecIndexed
CONSTANTS
  Tunables = {"a", "b"}
  Manual = {"b"}
  Tomls <- OneOrTwo
  MaxId = 2
  MaxStarts = 3
  MaxFaults = 2
  None = None
  Texts <- OneOrTwoTexts
INVARIANTS IndicesAreOwn OwnBlocks RowOwnsFiles IndexedHasSpans LoadedKeepsRow SourceRestored
