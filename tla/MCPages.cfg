SPECIFICATION MCSpec
CONSTANTS
  home = home  page1 = page1  page2 = page2  page3 = page3
  Url = {home, page1, page2, page3}
  Home = home
  AllowNew = FALSE
  MaxOpen = 6
  Initials <- Accounts
  MaxMade = 7
INVARIANTS PagesTypeOK FramesFollowTabs SavedIsShown EditHitsSelection WithinLimits ReferencesUnique
PROPERTIES StripSpec
CHECK_DEADLOCK FALSE
