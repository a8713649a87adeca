SPECIFICATION Spec
CONSTANTS
  ann = ann
  bob = bob
  eve = eve
  e1 = e1
  e2 = e2
  e3 = e3
  s1 = s1
  s2 = s2
  Users <- MCUsers
  Visitor = ann
  Apps <- MCApps
  Rank <- MCRank
  Events <- MCEvents
  Dist <- MCDist
  Start <- MCStart
  Name <- MCName
  Public <- MCPublic
  Radii <- MCRadii
  DefaultRadius = 2
  Sizes <- MCSizes
  Graphs <- MCGraphs
  Unpaid <- MCUnpaid
  Slots <- MCSlots
  MaxChanges = 1
  MaxClicks = 2
  MaxPolls = 2
  MaxTime = 1
INVARIANTS
  TypeOK
  PagesTile
  RecommendedByLikeness
  ShownAsAsked
  NoticesCaused
SYMMETRY MCSymmetry
