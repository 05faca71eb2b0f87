\* Two users at one browser, four clicks, one error anywhere.
SPECIFICATION FairSpec
CONSTANTS
  User = {u1, u2}
  Slug = {s1}
  Title = {t1, t2}
  NoUser = NoUser
  NoBlog = NoBlog
  NoAccount = NoAccount
  MaxCalls = 3
  MaxClicks = 4
  MaxLost = 1
INVARIANTS
  TypeOK
  
  
PROPERTY LoadingEnds
CHECK_DEADLOCK FALSE
