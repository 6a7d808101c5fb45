SPECIFICATION Spec
CONSTANTS
  Emails = {e1}
  Contributions = {1, 2}
  Workers = {host, peer, guest}
  JobsOf <- JobsWorkshop
  Ttl = 1
  MaxAge = 1
  MaxTime = 2
  MaxInvites = 2
  MaxRequests = 3
  Limit = 2
  Window = 1
  None = None
  e1 = e1
  host = host
  peer = peer
  guest = guest
INVARIANTS TypeOK OnlyOneLive AttachmentsStored RateKept
PROPERTY ImplementsInbox
CHECK_DEADLOCK FALSE
