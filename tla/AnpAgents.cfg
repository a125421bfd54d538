\* Server: a DID, a connection with batches of up to two requests and one with single ones.
\* Description: four methods, one deployment, two faults.
\* Crawler: three pages, one with a second version, two callers, one fault.
\* Payment: two shoppers, a cart id, two purchases, carts valid for two ticks.
\* Requests: two calls, two retries, room for one nonce, one fault.
\* Negotiation: two protocols, a set of tests, one round, one repair, two messages under way.
\* Chat: two agents that find each other together or one after the other, two turns, two
\* requests of users, one failed call.
SPECIFICATION AgentsSpec
CONSTANTS
  c1 = c1  a1 = a1  a2 = a2  a3 = a3  a4 = a4
  ad = ad  apis = apis  other = other  m1 = m1  m2 = m2  m3 = m3  srv = srv
  Did = {d1}
  Conn = {c1, c2}
  Kinds = {"foreign", "badParams", "valueError"}
  MaxBatch <- TwoAndOne
  SessionTimeout = 1
  CleanupInterval = 2
  NoSession = NoSession
  MaxRpcClock = 3
  Attr = {a1, a2, a3, a4}
  AttrOrder <- FourAttrs
  RpcName <- RpcNames
  InterfaceMode <- Modes
  Documented = {a1, a2, a4}
  NoAttr = NoAttr
  MaxDeploys = 1
  MaxDiscoveryFaults = 2
  Shopper = {s1, s2}
  CartId = {i1}
  Basket = {1, 2}
  Nothing = Nothing
  CartTtl = 2
  MaxClock = 2
  MaxPurchases = 2
  CrawlUrl = {ad, apis, other}
  Page <- Pages
  Method = {m1, m2, m3}
  Server = {srv}
  NoServer = NoServer
  Sanitized <- SanitizedNames
  Crawler = {k1, k2}
  Blank = Blank
  MaxCrawlFaults = 1
  TsCall = {q1, q2}
  MaxRetries = 2
  SkewTolerance = 1
  MaxNonces = 1
  MaxTsClock = 2
  MaxTsFaults = 1
  Agent = {g1, g2}
  Protocol = {p1, p2}
  Tests = {t1}
  Unset = Unset
  MaxNegotiationRounds = 1
  MaxTsFixes = 1
  MaxTsMessages = 2
  Chatter = {x1, x2}
  Lesser = x1
  Tolerance = 0
  Turns = 2
  Stamps = {0, 1}
  Never = Never
  NoChat = NoChat
  MaxAsked = 2
  MaxChatMishaps = 1
SYMMETRY Alike
CHECK_DEADLOCK FALSE
INVARIANTS
  AgentsTypeOK
  OrdersHonoured
  ServedInOrder
  ReadIsCalled
  TablesAgree
  HandledOnce
  SameAgreement
  OneChat
