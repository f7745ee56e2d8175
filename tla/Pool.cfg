\* Three client threads share a pool of two workers whose queue takes one task;
\* Stop(true) and Stop(false), also while a Submit is blocked.
SPECIFICATION FairSpec
CONSTANTS
  t1 = t1
  t2 = t2
  t3 = t3
  Workers = {w1, w2}
  Clients = {main, c1, c2}
  Owner = main
  Tasks <- MCTasks
  SelfDelete <- MCSelfDelete
  QueueLimit = 1
  StopModes = {TRUE, FALSE}
  NoTask = NoTask
INVARIANTS
  DrainedAtStop
  NoUseAfterFree
  SomeoneAwake
  PoolInv
PROPERTIES
  AcceptedIsRun
  CallsReturn
