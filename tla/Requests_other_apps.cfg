SPECIFICATION Spec
CONSTANTS
  Nothing = Nothing
  NoSession = Nothing
  Host = Host
  Null = Null
  Dots = {"..", "..."}
  Begins <- MCBegins
  Guards <- MCGuards
  Sessions <- MCSessions
  Synchronous <- MCSynchronous
  Username <- MCUsername
  Sent <- MCSent
  Rows <- MCRows
INVARIANT AppsWriteTheirOwn
