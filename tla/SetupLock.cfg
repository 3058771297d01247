SPECIFICATION LauncherSpec
CONSTANTS
  Launcher = {c1, c2}
  Release = {v1}
  Home = {iso, pi}
  IsolatedHome = iso
  PiHome = pi
  MaxMishaps = 0
PROPERTY YoungLockKept
CHECK_DEADLOCK FALSE
