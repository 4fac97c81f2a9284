CONSTANTS
  Ids = {i1}
  Receivers = {r1, r2}
  Replies <- MCReplies
  MaxExpected = 3
  MaxAcks = 3
SPECIFICATION FairSpec
INVARIANTS NoOrphan MultiAckCounted SettledLeaves
PROPERTY AckSettles
