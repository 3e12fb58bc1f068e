SPECIFICATION DelegationSpec
CONSTANTS
  Jobs = {j1, j2, j3}
  Limits = {1, 2}
  MaxRows = 1
  MaxDelegationFaults = 1
INVARIANTS DelegationTypeOK CompletedIsTold CancelledIsSilent WorkIsVisible
PROPERTIES VerdictStays 
