SPECIFICATION PanelFairSpec
CONSTANTS
  MaxEvents = 2
  Shown = 2
  MaxChanges = 3
  MaxSockets = 2
  None = None
CHECK_DEADLOCK FALSE
INVARIANT QuietMeansCurrent
PROPERTIES SocketHasNoGap NewsIsShown
