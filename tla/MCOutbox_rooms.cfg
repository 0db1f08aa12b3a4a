\* Two conversations, one with a message, its reactions and a send in two
\* parts, the other with a text, and up to three faults: deadlines, lost or
\* late requests, restarts, changes of a room.
CONSTANTS
  c1 = c1  c2 = c2  t1 = t1  m1 = m1  s1 = s1
  Convs <- TwoConvs
  Texts = {t1}
  Messages = {m1}
  Sends = {s1}
  ConvOf <- TextsApart
  Parts = 2
  MaxFaults = 3
SPECIFICATION FairSpec
INVARIANTS TypeOK RowsInOrder ReceiptsAreHonest EyesOutliveWork
PROPERTY OutboxDrains
