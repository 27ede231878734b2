CONSTANTS
  c1 = c1  c2 = c2  w0 = w0  w1 = w1  t1 = t1  t2 = t2
  Clients = {c1}
  Threads = {w0, w1}
  First <- MCFirst
  Nobody = Nobody
  Limit = 2
  MaxQueue = 1
  MaxTasks = 4
  MaxClose = 1
SPECIFICATION Spec
PROPERTIES CloseReturns TasksAreTaken
CHECK_DEADLOCK FALSE
