\* Sessions: two ids, three messages, a window of two, every request processed twice at most.
\* Authentication: two calls, three headers, a clock one minute ahead or behind, one mishap.
\* Groups: a sender and a receiver, two epochs, two sender keys, two messages with each.
\* Handshakes: five session objects, room for one active session, one mishap.
\* Negotiation: two runs, four proposals.
\* Short-term keys: two sessions from either end, one message from each, one mishap.
\* Keys of a DID: two documents, one after the other.
SPECIFICATION SdkSpec
CONSTANTS
  Lower = Lower  Upper = Upper
  Sid = {s1, s2}
  NoSid = NoSid
  NoKey = NoKey
  Absent = Absent
  MaxSkip = 2
  MaxSealed = 3
  MaxEntries = 2
  Call = {c1, c2}
  Header = {h1, h2, h3}
  None = None
  TsAge = 2
  Ahead = 1
  NonceAge = 3
  TokenAge = 2
  Skews <- OneEitherWay
  MaxTime = 5
  MaxMishaps = 1
  Member = {m1, m2}
  Speaker = {m1}
  Nobody = Nobody
  MaxEpoch = 1
  MaxDraws = 2
  MaxPosts = 2
  Ends = {e1, e2}
  Party = {e1, e2}
  MaxObj = 5
  NoObj = NoObj
  MaxKeys = 1
  MaxE2eeMishaps = 1
  MaxRuns = 2
  MaxProposals = 4
  MaxSession = 2
  MaxTexts = 1
  MaxSkMishaps = 1
  NoSession = NoSession
  MaxGenerations = 2
  NoDoc = NoDoc
SYMMETRY Alike
CHECK_DEADLOCK FALSE
INVARIANTS
  SdkTypeOK
  NothingTwice
  StaysInStep
  GroupInOrderOnce
  HandshakesMatch
  Agreement
  KeysMeet
  KeysTakeHold
  HeaderOnce
  RefusedForAReason
