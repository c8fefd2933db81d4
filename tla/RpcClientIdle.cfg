\* One child and two callers that wait for it to become idle.
SPECIFICATION ClientSpec
CONSTANTS
  Commands = {"q1"}
  Waiters = {"w1", "w2"}
  Observers = {"o1"}
  MaxEvents = 1
  MaxStarts = 1
PROPERTY EveryWaiterHears
CHECK_DEADLOCK FALSE
