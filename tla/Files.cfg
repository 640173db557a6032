SPECIFICATION Spec
CONSTANTS
    MAX_BLOCKS = 1
    UNITS = 2
    FAT_UNITS = 4
    MAX_DEPTH = 1
    c1 = c1
    c2 = c2
    Clients = {c1, c2}
    Volumes <- MCVolumes
    Boot <- MCBoot
    Asks <- MCAsks
    Spans <- MCSpans
    MAX_OPEN = 2
    MAX_CLIENTS = 2
    MAX_READ = 3
    README_MAX = 4
    NoEntry = NoEntry
    Nobody = Nobody

  
  
  
PROPERTIES
  RequestsAreAnswered
CHECK_DEADLOCK FALSE
