\* Three threads.
CONSTANT MaxThreads = 3
SPECIFICATION Spec
PROPERTY HungDownStays
CHECK_DEADLOCK FALSE
