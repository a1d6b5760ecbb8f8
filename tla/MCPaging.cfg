SPECIFICATION Spec
CONSTANTS
  MaxTurns = 4
  MaxUpdates = 6
  PageSize = 1
  MaxPages = 3
  RoundPageSize = 2
  RoundLimit = 3
  RecapPageSize = 2
  RecapPages = 2
INVARIANTS TypeOK HistoryIsComplete ExactIsACount ActiveIsSeen DeniedIsAbsentOrUpdated RecapIsLatest
PROPERTIES LoopsEnd
CHECK_DEADLOCK FALSE
