SPECIFICATION FairSpec
CONSTANTS
  u1 = u1
  s1 = s1
  s2 = s2
  Users = {u1}
  viewer = u1
  Reports <- MCReports
  RawDrafts <- MCRawDrafts
  SectionNames <- MCSectionNames
  Lexemes <- MCLexemes
  Slots = {s1, s2}
  DailyGenerationCap = 1
  MaxSectionChars = 4
  MaxTotalChars = 4
  MaxDay = 1
  MaxAsks = 2
  MaxIds = 3
INVARIANTS BillIsBounded ProseMatchesReport ProseIsChecked ValidatedDraftsRender
PROPERTY LoadingEnds
CHECK_DEADLOCK FALSE
