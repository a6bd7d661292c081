\* The server refuses to enable stream management.
SPECIFICATION Spec
CONSTANTS
  Configs <- ManagedConfigs
  Offers <- ManagedOffers
  Refusals = {"enable"}
  SMSwitch = {TRUE}
  SMAnyTime = FALSE
  Losses = {"between"}
  ServerDeclares = TRUE
  ServerEnds = TRUE
  SilentDeath = FALSE
  Reentrant = {}
INVARIANT
  NeverStalls
