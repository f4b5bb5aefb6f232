CONSTANTS
  None = None
  HashOf <- MCHashOf
  ClientSuites <- MCClientSuites
  Offers <- MCOffers
  ClientAlpn <- MCClientAlpn
  ServerConfigs <- MCServerConfigs
  MaxConnections = 2
  MaxHellos = 2
  MaxWritten = 2
SPECIFICATION Spec
INVARIANT KeysAgree TicketsAgree
PROPERTY ImplementsTlsClient
CHECK_DEADLOCK FALSE
