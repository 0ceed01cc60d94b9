CONSTANTS
  p1 = p1
  p2 = p2
  t1 = t1
  t2 = t2
  Process <- MCProcess
  Txn <- MCTxn
  Types <- MCTypes
  MaxEvents = 4
  NoProcess = NoProcess
  NoHead = NoHead
  NoCache = NoCache
  NoDraft = NoDraft
SPECIFICATION Spec
INVARIANTS TypeOK ChainIntact HeadAnchorsFile CacheCoherent ReadableOnceAnchored
PROPERTIES TornIsFinal ImplementsLog
CHECK_DEADLOCK FALSE
