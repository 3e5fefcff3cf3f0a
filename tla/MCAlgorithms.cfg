CONSTANTS
    Keys <- TrieKeys
    Nil = Nil
SPECIFICATION Spec
INVARIANTS MarksDataOnly RootIsContents KeptIsReadable ProofsAreOfMembers SeekReturnsRange
CHECK_DEADLOCK FALSE
