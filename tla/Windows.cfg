SPECIFICATION WsSpec
CONSTANTS
  Addresses = {a1, a2}
  MaxWindows = 2
  EventTypes <- MCEventTypes
  KeyStates <- MCKeyStates
  MaxQueue = 2
  MaxDispatch = 2
  Null = Null
SYMMETRY Symmetry
INVARIANT
  WindowsOwned
PROPERTY
  CallsRight
