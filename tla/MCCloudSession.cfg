SPECIFICATION Spec
CONSTANTS
  t1 = t1
  t2 = t2
  Threads = {t1, t2}
  Kinds <- Calls
  MaxSessions = 8
  SingleSession = TRUE
  MaxFaults = 1
INVARIANT TypeOK
INVARIANT HeaderMatches
INVARIANT OneLogin
PROPERTY RetryIsFresh
PROPERTY RenewsWhatWasRefused
PROPERTY CallsEnd
PROPERTY SessionHeals
