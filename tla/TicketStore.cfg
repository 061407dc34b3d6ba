\* Four tickets, with every call to Redis that may fail.
SPECIFICATION StoreSpec
CONSTANTS
  t1 = t1
  t2 = t2
  t3 = t3
  t4 = t4
  TicketIds = {t1, t2, t3, t4}
  NoId = NoId
  RedisFaults = {"has", "fetch", "store"}
INVARIANTS StoreTypeOK GrantedIsEarned
