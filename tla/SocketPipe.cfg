SPECIFICATION SocketSpec
CONSTANTS
  Clients = {"tui"}
  Current = {"tui"}
  MaxMessages = 1
  MaxConnects = 1
  MaxLives = 1
  MaxCrashes = 0
PROPERTIES
  OutlivesClients
CHECK_DEADLOCK FALSE
