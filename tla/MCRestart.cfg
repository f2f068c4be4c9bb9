SPECIFICATION RestartSpec
CONSTANTS
  None = None
  Bodies <- ConsoleBodies
  MaxEvents = 1
INVARIANT
  NeverRestarted
