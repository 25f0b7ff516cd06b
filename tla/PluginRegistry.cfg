\* The window and a counter from the configuration, and an echoecho that the
\* user may load under the counter's name and unload. The session may wait for good in CircularWait.
SPECIFICATION LiveSpec
CONSTANTS
  gui = gui
  counter = counter
  echo = echo
  Config <- MCConfig
  Offered = {echo}
  Gui = gui
  Loops = {echo}
  Name <- MCName
  Main = main
  Window = window
  None = None
CHECK_DEADLOCK FALSE
INVARIANTS
  TypeOK
  CalledWhileAlive
  LoadReturnsOwn
  DestroyedOutsideLock
  SoundUntilDestroyed
PROPERTIES
  EndIsReached
  UnloadedIsDestroyed
