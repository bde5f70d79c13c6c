CONSTANTS
  t1 = t1  t2 = t2  coder = coder  helper = helper
  native = native  cli = cli  remote = remote  mock = mock  None = None
  Tasks = {t1, t2}
  Agents = {coder, helper}
  Backends = {native, cli}
  Providers = {remote, mock}
  BackendOf <- Homes
  ProviderOf <- Models
  MaxConcurrency <- Limits
  Pinned <- OnePinned
  Hosting = {native}
  Fallbacks = {}
  Local = {mock}
  Rank <- Order
  FallbackRank <- NoRank
  Reliable = {mock}
  Failing = {cli}
  Strategies = {"RETRY", "CHANGE_AGENT", "CHANGE_PROVIDER", "CHANGE_BACKEND"}
  MaxRepairs = 1
  MaxCalls = 2
SPECIFICATION FairSpec
INVARIANTS CapacityKept ExclusionsHold SoundBackendsUsable FailoverReaches
PROPERTIES EveryTaskEnds
