SPECIFICATION FairSpec
CONSTANTS
  r1 = r1  r2 = r2  w1 = w1  w2 = w2
  NoRef = NoRef  NoQuantity = NoQuantity
  Returns = {r1, r2}
  ItemLists <- SomeLists
  Runs = {w1, w2}
  ItemsLoaded = TRUE
  Batch = 2
  Days = 2
  MaxFaults = 2
CHECK_DEADLOCK FALSE
INVARIANTS TypeOK ReferenceIsBooked OneCorrectionInFairWeather CorrectionAddsUp
PROPERTIES ReferenceEndsIt ExecutionsEnd
