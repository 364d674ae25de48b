SPECIFICATION FairSpec
CONSTANTS
  Threads = {udp, app}
  System = system
  MaxCalls = 1
INVARIANTS
  DispatcherTypeOK
  CallbacksHaveFrames
  NothingLeftBehind
PROPERTIES
  CallsAreSynchronous
  EveryCallReturns
