SPECIFICATION Spec
CONSTANTS
  home = home
  away = away
  Addrs <- AddrsDef
  None = None
  IdLimit = 2
  MaxRetries = 2
  Settings <- SettingsDef
SYMMETRY Symmetric
INVARIANT ParametersAgree RoutesMatchIds NeverLockedOut FrontFollows
CHECK_DEADLOCK FALSE
