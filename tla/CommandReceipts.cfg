SPECIFICATION ReceiptSpec
CONSTANTS
  first = first
  retry = retry
  third = third
  other = other
  web = web
  cli = cli
  send = send
  edited = edited
  Nothing = Nothing
  Callers <- Calls
  Runtimes <- Hosts
  Home <- CallHome
  Request <- CallRequest
CHECK_DEADLOCK FALSE
INVARIANTS
  ExecutedAtMostOnce
  ReplayIsTrue
