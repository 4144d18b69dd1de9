SPECIFICATION Spec
INVARIANT TypeOK
INVARIANT NoWriterBehindArchive
INVARIANT ClosedIsQuiet
 
PROPERTY NoWorkKilled
 
PROPERTY OneChild
