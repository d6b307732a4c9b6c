SPECIFICATION FairSpec
CONSTANTS
  StoredNames <- MCStoredNames
  MaxIndexed = 5
  InitialMsgId = 1
  MsgIds <- MCMsgIds
INVARIANTS NamesUnique MergeInputsPresent SavedImageCovers CrashFindsAnImage OnlyInFlightUnprocessed
PROPERTIES LiveSpec MainFinishes MergeConverges
\* The server ends.
CHECK_DEADLOCK FALSE
