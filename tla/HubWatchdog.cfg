SPECIFICATION Spec
CONSTANTS
  Streams = {quote, trade}
  Stale = 2
  Silence = 3
  LoginWait = 1
  MaxDelay = 2
PROPERTIES HubSettles StallEnds
