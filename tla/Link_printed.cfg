SPECIFICATION Spec
CONSTANTS
  Server = server
  Clients = {light}
  Nodes = {server, light}
  Packets <- Broadcasts
  None = none
  Garbage = garbage
  StartUp = 13
  Period = 14
  Timeout = 28
  Pause = 5
  AirTime = 1
  Slack = 1
PROPERTIES
  PrintedWasReceived
