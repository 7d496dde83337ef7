SPECIFICATION Either
CONSTANTS
  fetch = fetch
  deploy = deploy
  fetchNested = fetchNested
  Calls = {read, fetch, fetchNested, deploy}
  Keys = {read, fetch, deploy}
  KeyOf <- SharedKeys
  Safe = {read}
  Dangerous = {deploy}
  Cacheable = {fetch, fetchNested, deploy}
  JournalTimeout = 1
  CacheTtl = 2
  MaxAttempts = 3
  MaxTime = 4
  DbMayFail = FALSE
INVARIANTS
  TypeOK
  WrittenAhead
  SuccessIsReal
PROPERTIES
  SucceededIsFinal
  WorkingNoEffectWhileCached
CHECK_DEADLOCK FALSE
