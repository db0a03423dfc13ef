\* Three versions of the pool.
CONSTANTS
  MaxVersion = 3
  Room = 3
  Blank = Blank
  Nobody = Nobody
SPECIFICATION Spec
INVARIANT ReceivedIsTaken
