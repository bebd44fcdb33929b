SPECIFICATION FairSpec
CONSTANTS
  Plans <- Mixed
  MaxBlob = 3
INVARIANTS TypeOK CompletionKept FolderAccounted
PROPERTIES BothEnd
