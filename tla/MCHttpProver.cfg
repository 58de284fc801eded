\* Three jobs for two keys and a synchronous request, one slot, two places to wait.
CONSTANTS
  j1 = j1
  j2 = j2
  j3 = j3
  s1 = s1
  Jobs = {j1, j2, j3}
  Requests = {j1, j2, j3, s1}
  k1 = k1
  k2 = k2
  Keys = {k1, k2}
  NoKey = NoKey
  NoRow = NoRow
  MaxConcurrency = 1
  MaxQueue = 2
SPECIFICATION HttpSpec
INVARIANTS RegistryIsTheWork AlwaysFindable OneProofPerKey OutcomesAreKept SlotsAccounted
PROPERTIES AcceptedJobsAreStored NoOvertaking EveryRequestSettles
