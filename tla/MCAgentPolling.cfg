CONSTANTS
  Requests = {r1, r2}
  Conversations = {c1}
  NoConversation = NoConversation
  MaxIterations = 2
  MaxFaults = 1
SPECIFICATION FairSpec
PROPERTY PollingEnds
\* Every request is sent once; when all have returned nothing is left.
CHECK_DEADLOCK FALSE
