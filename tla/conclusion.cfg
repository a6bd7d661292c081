\* Stream management that is switched while offline, losses at every point, a
\* silent peer, an application that disconnects inside callbacks: every attempt
\* concludes.
SPECIFICATION FairSpec
CONSTANTS
  Configs <- EveryConfig
  Offers <- AllOffers
  Refusals = {"header", "starttls", "compress", "auth", "response", "resume",
              "bind", "session", "authFields", "authSet"}
  SMSwitch = {TRUE, FALSE}
  SMAnyTime = FALSE
  Losses = {"between", "markup", "content"}
  ServerDeclares = FALSE
  ServerEnds = TRUE
  SilentDeath = TRUE
  Reentrant = {"onResourceBind", "onMessage"}
INVARIANT
  CleanWhenOffline
PROPERTIES
  ManagedSoundly
  Concludes
