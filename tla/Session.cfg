SPECIFICATION FairSpec
CONSTANTS
  Tabs = {t1, t2}
  Accounts = {ann, bob}
  NoUser = NoUser
  NoToken = NoToken
  NoCall = NoCall
  Limit = 3
CHECK_DEADLOCK FALSE
INVARIANTS ShownIsUsed LogoutLasts
PROPERTIES GoogleSignsIn ComesToRest
