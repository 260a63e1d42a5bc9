SPECIFICATION FairSpec
CONSTANTS
  None = None
  a = a
  b = b
  p1 = p1
  p2 = p2
  run = run
  home = home
  away = away
  Entry = {a, b}
  Value = {0, 1}
  Home = home
  Place = {home, away}
  Proposal = {p1, p2}
  Run = {run}
  RunOf <- MCRunOf
  Draft <- MCDraft
  Typing <- MCTyping
  Beginning <- MCStart
  Lasting = {p1}
  MaxRevision = 2
  MaxLife = 1
INVARIANTS
  UndoIsPossible
PROPERTIES
  ImplementsReview
  ToldIsTrue
  ScreenFollowsClient
  EveryDecisionEnds
CHECK_DEADLOCK FALSE
