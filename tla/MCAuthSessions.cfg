SPECIFICATION Spec
CONSTANTS
  Browsers = {1, 2}
  Tabs = {t1, t2}
  Homes <- TogetherOrApart
  ROTATION_GRACE = 0
  AccessLife = 1
  RefreshLife = 2
  RESET_TTL = 0
  Asks = {"logout", "login", "change", "reset", "reload"}
  Networks = {"prompt", "lossy"}
  Overlapping = FALSE
  LastTime = 2
  MaxTokens = 5
  MaxPasswords = 3
  MaxLinks = 1
INVARIANTS RefusedOnlyWhenEnded NoneOutlivesPassword
PROPERTIES ImplementsRegister LoadingEnds
CHECK_DEADLOCK FALSE
