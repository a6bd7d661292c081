--------------------------- MODULE MCClientStream ---------------------------
(* Instances of ClientStream for TLC: configurations and feature sets. *)
EXTENDS ClientStream

Plain == [tls |-> "TLSOptional", encryption |-> TRUE, compression |-> FALSE,
          sasl |-> TRUE, mechs |-> Mechs, channelBinding |-> FALSE,
          forceNonSasl |-> FALSE, credentials |-> "password",
          manageRoster |-> TRUE]

\* One configuration per branch of the negotiation.
AllConfigs ==
  {[Plain EXCEPT !.tls = t] :
     t \in {"TLSDisabled", "TLSOptional", "TLSRequired"}}
  \cup {[Plain EXCEPT !.tls = "TLSRequired", !.encryption = FALSE],
        [Plain EXCEPT !.tls = "TLSRequired", !.channelBinding = TRUE,
                      !.compression = TRUE, !.manageRoster = FALSE],
        [Plain EXCEPT !.compression = TRUE, !.sasl = FALSE],
        [Plain EXCEPT !.forceNonSasl = TRUE],
        [Plain EXCEPT !.mechs = {"PLAIN"}],
        [Plain EXCEPT !.tls = "TLSRequired", !.credentials = "certificate"],
        [Plain EXCEPT !.credentials = "none"],
        [Plain EXCEPT !.credentials = "none", !.mechs = {}]}

AllOffers ==
  {{}, {"starttls"}, {"starttls", "PLAIN", "DIGEST-MD5"}, {"zlib"}, {"starttls", "zlib"},
   {"zlib", "iqauth"}, {"iqauth"},
   {"SCRAM-SHA-1-PLUS", "SCRAM-SHA-1", "PLAIN"},
   {"DIGEST-MD5", "PLAIN", "zlib"}, {"EXTERNAL", "ANONYMOUS"},
   {"bind"}, {"bind", "zlib", "session"}, {"bind", "unbind", "session"},
   {"bind", "sm"}, {"bind", "session", "sm"}}

ManagedConfigs ==
  {[Plain EXCEPT !.tls = "TLSDisabled"],
   [Plain EXCEPT !.tls = "TLSDisabled", !.manageRoster = FALSE]}

EveryConfig == AllConfigs \cup ManagedConfigs

ManagedOffers == {{"PLAIN"}, {"bind"}, {"bind", "sm"}, {"bind", "session", "sm"}}
=============================================================================
