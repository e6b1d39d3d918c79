SPECIFICATION StreamLiveSpec
CONSTANTS
  tab = tab
  phone = phone
  Readers <- Both
  PageSize = 2
  MaxEvents = 2
  MaxOpens = 2
CHECK_DEADLOCK FALSE
PROPERTIES
  StreamsKeepUp
