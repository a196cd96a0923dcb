\* Two imports at once, searches of a customer and of a member of the support.
CONSTANTS
  u1 = u1  u2 = u2  f1 = f1  f2 = f2  m1 = m1  m2 = m2  i1 = i1  i2 = i2  s1 = s1
  Users = {u1, u2}
  Counted = {u1}
  NoUser = NoUser
  RoleOf <- MCRoleOf
  Roles = {"CUSTOMER", "SUPPORT"}
  Files = {f1, f2}
  Visibilities = {"PUBLIC", "SUPPORT"}
  Models = {m1, m2}
  Batches <- MCBatches
  ServingModel = m1
  Near = {f1, f2}
  Matching = {f1, f2}
  Importers = {i1, i2}
  Searches = {s1}
  NoChunk = NoChunk  NoBatch = NoBatch  NoEntry = NoEntry
  Limit = 1
  Window = 2
SPECIFICATION FairSpec
INVARIANTS OneEmbeddingModel AnswersWithinScope InvalidationReachesAll KnowledgeInv
PROPERTIES CacheHeals BlockedIsReleased
CHECK_DEADLOCK FALSE
