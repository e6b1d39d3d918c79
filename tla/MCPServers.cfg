SPECIFICATION ServersSpec
CONSTANTS
  mail = mail
  wiki = wiki
  tool = tool
  c1 = c1
  None = None
  Servers <- BothServers
  Required <- JustMail
  Users <- JustTool
  Calls <- OneCall
  ServerOf <- ToMail
  MaxTries = 2
CHECK_DEADLOCK FALSE
INVARIANTS
  SessionsAccounted
  RunsAtMostOnce
  NoStandstill
