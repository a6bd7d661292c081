\* Every branch of the negotiation, without stream management; connections
\* are cut anywhere, the application calls in from outside callbacks.
SPECIFICATION Spec
CONSTANTS
  Configs <- AllConfigs
  Offers <- AllOffers
  Refusals = {"header", "starttls", "compress", "auth", "response", "bind",
              "session", "authFields", "authSet"}
  SMSwitch = {FALSE}
  SMAnyTime = TRUE
  Losses = {"between", "content", "markup"}
  ServerDeclares = TRUE
  ServerEnds = TRUE
  SilentDeath = FALSE
  Reentrant = {}
INVARIANTS
  TypeOK
  RequiredTlsProtects
  LayersStacked
  NeverStalls
  ConnectMeansAuthenticated
PROPERTY
  ListenerContract
