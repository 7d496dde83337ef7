SPECIFICATION Working
CONSTANTS
  fetch = fetch
  fetchNested = fetchNested
  deploy = deploy
  Calls = {edit}
  Keys = {edit}
  KeyOf <- SharedKeys
  Safe = {}
  Dangerous = {}
  Cacheable = {}
  JournalTimeout = 1
  CacheTtl = 2
  MaxAttempts = 3
  MaxTime = 2
  DbMayFail = FALSE
PROPERTIES
  NoEffectAfterSuccess
CHECK_DEADLOCK FALSE
