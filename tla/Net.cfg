SPECIFICATION Spec
CONSTANTS
    SEQ = 16
    RX = 1
    MSS = 1
    Ips = {ip1, ip2}
    Names = {n1}
    Iss = {14}
    HOST_ISS = 14
    Loads <- MCLoads
    Sizes = {2}
    TRIES = 2
    None = None
INVARIANTS
  ReceivedInOrder
  SentIsDelivered
  
PROPERTIES
  CallsComeBack
CHECK_DEADLOCK FALSE
