\* Two ConstIDs, one after the other, any of them killed anywhere.
SPECIFICATION Spec
CONSTANTS
  Ids = {1, 2}
  CsTables <- CriticalTables
  SsTables <- SafeTables
  Kallsyms <- Symbols
  NameLen <- Names
  Odd = {"dotted"}
  AddrLen = 4
  Radix = 16
  Chunk = 23
INVARIANTS OwnSpansOnly RowsAreSearched ReadersAgree
