SPECIFICATION FairSpec
CONSTANTS
  left = left
  none = none
  Tabs <- MCTabs
  Days <- MCDays
  Hours <- MCHours
  None = none
  MaxSubmits = 2
INVARIANTS
  TypeOK
  EventPicturesComplete
  SingleDay
PROPERTY SubmitEnds
