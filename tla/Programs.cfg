\* Two addresses for a buffer that starts with one cell and grows by one more
\* than needed: it moves, or stays, at every append that does not fit.
CONSTANTS
  Bases = {100, 300}
  Start = 1
  Slack = 1
  MaxEntries = 1
  MaxProps = 2
  MaxElems = 1
  MaxValues = 1
  Wanted = 2
  BufferSize = 2
  MaxSignals = 2
  MaxLost = 1
  MaxFailures = 2
  Scripts <- MCScripts
SPECIFICATION FairSpec
INVARIANTS TypeOK ListSound InfoSound ButtonsReleased NoMissingPicture
PROPERTIES PointersFollow 
