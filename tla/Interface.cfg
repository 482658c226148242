SPECIFICATION FairInterfaceSpec
CONSTANTS
  IP = {h1, h2}
  OwnIP = me
  OwnEth = myeth
  EthernetAddress = {e1, e2}
  ETHERNET_BROADCAST = all
  arp_entry_default_ttl = 4
  arp_response_default_ttl = 3
  MaxDatagrams = 2
  InterfaceTickSizes = {1, 2}
INVARIANTS
  TypeOK
  NothingLost
  WaitsForAnswer
  MappingIsFresh
  RepeatedInTime
PROPERTIES
  KeepsAsking
