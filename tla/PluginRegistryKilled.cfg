\* The window and a counter from the configuration, and an echoecho that the
\* user may load, as in PluginRegistry.cfg.
\* The session may wait for good in CircularWait.
SPECIFICATION Spec
CONSTANTS
  gui = gui
  counter = counter
  echo = echo
  Config <- MCConfig
  Offered = {echo}
  Gui = gui
  Loops = {echo}
  Name <- MCName
  Main = main
  Window = window
  None = None
CHECK_DEADLOCK FALSE
INVARIANT KilledProperly
