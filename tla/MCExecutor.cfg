CONSTANTS
    t1 = t1  t2 = t2  e1 = e1  e2 = e2  c1 = c1  c2 = c2
    Tasks <- BothTasks
    Execs = {e1, e2}
    Cancels = {c1, c2}
    TaskOf <- SameTask
    CancelOf <- CancelSame
    MaxConcurrent = 2
    MaxEvents = 2
    NoExec = NoExec
SPECIFICATION MCSpec
INVARIANTS WinnerDecides TracedBeforePublished EndsClean
PROPERTIES SettledOnce CallsEnd
