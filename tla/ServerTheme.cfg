SPECIFICATION FairSpec
CONSTANTS
  Flows = 5
  Threads = 3
  Faked = 3
INVARIANT AllAnswered
PROPERTY Terminates
