SPECIFICATION Spec
CONSTANTS
  Resume = {r1}
  Loop = loop
  MaxMessages = 5
  Embedded = {1, 2, 4, 5}
  Cap = 3
  Limit = 2
  MaxPushes = 2
INVARIANTS TypeOK RecentIsHistory ReadsOwnMessage ListHasNoHoles
