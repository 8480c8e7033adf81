SPECIFICATION FairSpec
CONSTANTS
  w1 = w1
  w2 = w2
  r1 = r1
  k1 = k1
  k2 = k2
  t1 = t1
  t2 = t2
  c1 = c1
  c2 = c2
  h1 = h1
  h2 = h2
  s1 = s1
  p1 = p1
  p2 = p2
  Nil = Nil
  Jobs = {1, 2}
  Exports = {1}
  Workers = {w1, w2}
  Readers = {r1}
  Scalars = {"profession", "free_text"}
  Rules = {"weekday", "weekend"}
  SeedRules = {"weekday"}
  Edits <- MCEdits
  SeedFile = TRUE
  Keys = {k1, k2}
  Channel <- MCChannel
  Texts = {t1, t2}
  Asked <- MCAsked
  Clients = {c1, c2}
  Hits = {h1}
  Contents <- MCContents
  Replies <- MCReplies
  ProviderAttempts = 2
  MaxSends = 1
  MaxKeys = 2
  Processes = {p1, p2}
  First = p1
  DeliveryAttempts = 2
  MaxFiles = 2
  MaxRestarts = 1
  SettingEdits = {1, 2, 3}
  Chat = {1, 2}
  SettingKeys = {"timezone", "attention"}
  Forms <- MCForms
INVARIANTS
  TypeOK
  AcceptedIsStored
  ActiveDeliveryHasArtifact
PROPERTIES
  DisjointEditsSurvive
  OneOutcomeEach
  LeftoversVanish
CHECK_DEADLOCK FALSE
