\* Four versions of the pool.
CONSTANTS
  MaxVersion = 4
  Room = 4
  Blank = Blank
  Nobody = Nobody
SPECIFICATION FairSpec
INVARIANTS
  TypeOK
  NewestUnderway
PROPERTY
  Resubscribed
