\* A queue of two with a shutdown at any time, or none.
SPECIFICATION FairSpec
CONSTANTS
  Cap = 2
  Count = 4
INVARIANTS
  NoLostWakeup
  InOrderDelivery
PROPERTIES
  ImplementsFifo
