CONSTANTS
  c1 = c1
  c2 = c2
  LoopThread = loopThread
  WakeupChannel = wakeupChannel
  Channels = {ch}
  Callers <- MCCallers
  MaxTasks = 2

SPECIFICATION Spec

INVARIANT RunsInLoopThread
