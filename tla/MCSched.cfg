SPECIFICATION FairSpec
CONSTANTS
  NR_TASKS = 3
  PRIORITY = 3
  Lock = {b1}
  MaxOps = 2
INVARIANTS TypeOK MutualExclusion NoStaleWaiter EverySleeperHasOneWaker FreeLockHasNoQueue
PROPERTIES RunnableTaskRuns SleeperIsWoken
