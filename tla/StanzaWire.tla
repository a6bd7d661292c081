----------------------------- MODULE StanzaWire -----------------------------
(***************************************************************************)
(* A stanza with its extensions on its way: ClientBase::send() writes it,  *)
(* the peer's parser reads it, and ClientBase::handleTag() makes a stanza  *)
(* and, with the StanzaExtensionFactory, its extensions of it again.  All  *)
(* extensions are registered, in the order of Kinds.                       *)
(***************************************************************************)
EXTENDS SessionStanzas
LOCAL INSTANCE SequencesExt

CONSTANTS
  Sent,      \* stanzas: a sequence
  Samples,   \* extensions [kind, in, data]: a sequence; in: the kinds of stanzas
  Together   \* the numbers of stanzas that two extensions travel in

VARIABLES
  registered,   \* StanzaExtensionFactory::m_extensions: kinds with their parsed paths
  packet,    \* what is on its way: a stanza and its extensions
  heard,     \* what the peer made of it
  inside     \* and of the message it holds

wireVars == <<registered, packet, heard, inside>>

-----------------------------------------------------------------------------
(* The stanzas: messages, presence, subscriptions and IQs, as the application *)
(* builds them, as they are written (tag()), and as they are read from an     *)
(* element.  A text in several languages is a function from languages; the    *)
(* empty language is the default.                                             *)

\* Languages, in the order of a StringMap.
Languages == <<"de", "en">>

NoTexts == <<>>

TextIn(texts, lang) == IF lang \in DOMAIN texts THEN texts[lang] ELSE ""

\* Stanza::setLang(): an empty text changes nothing.
SetLang(texts, data, lang) == IF data = "" THEN texts ELSE (lang :> data) @@ texts

\* Stanza::findLang(): without the language, the default.
FindLang(texts, lang) ==
  IF lang # "" /\ lang \in DOMAIN texts THEN texts[lang] ELSE TextIn(texts, "")

\* Stanza::getLangs(): the default, then the languages.
GetLangs(tag, name, texts) ==
  LET Saved(t, lang) == IF lang \notin DOMAIN texts THEN t
                        ELSE Holding(t, Saying(With(Tag(name), "xml:lang", lang), texts[lang]))
  IN FoldLeft(Saved, TextKid(tag, name, TextIn(texts, "")), Languages)

\* The children of a name, read with setLang().
LangsFrom(tag, name) ==
  FoldLeft(LAMBDA texts, k : SetLang(texts, k.text, Attr(k, "xml:lang")), NoTexts, Kids(tag, name))

-----------------------------------------------------------------------------
(* Stanza::Stanza(): what all of them have. *)

Addressed(name, x) == With(With(Tag(name), "to", x.to), "from", x.from)

AddressedId(name, x) == With(Addressed(name, x), "id", x.id)

Addresses(tag) == [to |-> Attr(tag, "to"), from |-> Attr(tag, "from"), id |-> Attr(tag, "id")]

-----------------------------------------------------------------------------
(* IQ *)

IqTypes == {"get", "set", "result", "error"}

IqTag(x) ==
  IF x.subtype \notin IqTypes THEN NoTag ELSE With(AddressedId("iq", x), "type", x.subtype)

IqFrom(tag) ==
  Addresses(tag) @@ [kind |-> "iq", subtype |-> Known(IqTypes, Attr(tag, "type"))]

-----------------------------------------------------------------------------
(* Message *)

MessageTypes == {"chat", "error", "groupchat", "headline", "normal"}

MessageTag(x) ==
  LET t == With(AddressedId("message", x), "type", x.subtype)
  IN IF x.subtype \notin MessageTypes THEN NoTag
     ELSE TextKid(GetLangs(GetLangs(t, "body", x.bodies), "subject", x.subjects),
                  "thread", x.thread)

MessageFrom(tag) ==
  Addresses(tag) @@
  [kind |-> "message",
   subtype |-> IF Attr(tag, "type") = "" THEN "normal" ELSE Known(MessageTypes, Attr(tag, "type")),
   bodies |-> LangsFrom(tag, "body"), subjects |-> LangsFrom(tag, "subject"),
   thread |-> IF HasKid(tag, "thread") THEN Last(Kids(tag, "thread")).text ELSE ""]

-----------------------------------------------------------------------------
(* Presence *)

PresenceTypes == {"available", "unavailable", "probe", "error"}
Shows == {"chat", "away", "dnd", "xa"}

\* Presence::setPriority().
SetPriority(priority) ==
  IF priority < -128 THEN -128 ELSE IF priority > 127 THEN 127 ELSE priority

\* A subtype that is no type is written as what is shown; the id is not written.
PresenceTag(x) ==
  LET t == IF x.subtype \in Shows
           THEN TextKid(Addressed("presence", x), "show", x.subtype)
           ELSE With(Addressed("presence", x), "type",
                     IF x.subtype = "available" THEN "" ELSE x.subtype)
  IN IF x.subtype \notin PresenceTypes \cup Shows THEN NoTag
     ELSE GetLangs(TextKid(t, "priority", IntText(x.priority)), "status", x.stati)

PresenceFrom(tag) ==
  LET type == IF Attr(tag, "type") = "" THEN "available" ELSE Known(PresenceTypes, Attr(tag, "type"))
      show == KidText(tag, "show")
      priorities == Kids(tag, "priority")
  IN Addresses(tag) @@
     [kind |-> "presence",
      subtype |-> IF type # "available" \/ show = "" THEN type ELSE Known(Shows, show),
      stati |-> LangsFrom(tag, "status"),
      priority |-> IF priorities = <<>> THEN 0 ELSE TextInt(Last(priorities).text)]

-----------------------------------------------------------------------------
(* Subscription *)

SubscriptionTypes == {"subscribe", "subscribed", "unsubscribe", "unsubscribed"}

SubscriptionTag(x) ==
  IF x.subtype \notin SubscriptionTypes THEN NoTag
  ELSE GetLangs(With(Addressed("presence", x), "type", x.subtype), "status", x.stati)

SubscriptionFrom(tag) ==
  Addresses(tag) @@
  [kind |-> "subscription", subtype |-> Known(SubscriptionTypes, Attr(tag, "type")),
   stati |-> LangsFrom(tag, "status")]

-----------------------------------------------------------------------------
(* Any of them. *)

StanzaTag(x) ==
  CASE x.kind = "iq" -> IqTag(x)
    [] x.kind = "message" -> MessageTag(x)
    [] x.kind = "presence" -> PresenceTag(x)
    [] x.kind = "subscription" -> SubscriptionTag(x)

\* ClientBase::handleTag(): the element's name and type say which one it is.
StanzaFrom(tag) ==
  CASE tag.name = "iq" -> IqFrom(tag)
    [] tag.name = "message" -> MessageFrom(tag)
    [] tag.name = "presence" /\ Attr(tag, "type") \in SubscriptionTypes -> SubscriptionFrom(tag)
    [] OTHER -> PresenceFrom(tag)

-----------------------------------------------------------------------------
(* What a stanza keeps on its way: languages are lost, since the parser takes *)
(* the prefix of xml:lang off and setLang() looks for the whole name: each    *)
(* text replaces the default.  Presence and subscriptions lose their id.      *)

KeptTexts(texts) ==
  LET said == SelectSeq(<<"">> \o Languages, LAMBDA lang : TextIn(texts, lang) # "")
  IN IF said = <<>> THEN NoTexts ELSE "" :> texts[Last(said)]

KeptStanza(x) ==
  CASE x.kind = "iq" -> x
    [] x.kind = "message" ->
         [x EXCEPT !.bodies = KeptTexts(@), !.subjects = KeptTexts(@)]
    [] OTHER -> [x EXCEPT !.stati = KeptTexts(@), !.id = ""]

-----------------------------------------------------------------------------
(* Extensions by their kind. *)

Filters ==
  [amp |-> AmpPaths, attention |-> BarePaths("message", Attentions, "attention"),
   bind |-> InAny(<<"iq">>, "bind", "bind") \o InAny(<<"iq">>, "unbind", "bind"),
   caps |-> CapsPaths, carbons |-> CarbonsPaths,
   chatstate |-> BarePaths("message", ChatStates, "chatstates"), command |-> CommandPaths,
   delay |-> DelayPaths, encrypted |-> EncryptedPaths, error |-> ErrorPaths, event |-> EventPaths,
   featureneg |-> FeatureNegPaths, form |-> FormPaths, forward |-> ForwardPaths, ibb |-> IbbPaths,
   info |-> QueryPaths("info"), items |-> QueryPaths("items"), jingle |-> JinglePaths,
   last |-> LastPaths, muc |-> MucPaths, mucadmin |-> QueryPaths("muc#admin"),
   mucowner |-> QueryPaths("muc#owner"), mucuser |-> UserPaths, nickname |-> NicknamePaths,
   nonsasl |-> QueryPaths("auth"), offline |-> OfflinePaths, oob |-> OobPaths,
   ping |-> <<InStanza("iq", "ping", "ping")>>, privacy |-> QueryPaths("privacy"),
   private |-> QueryPaths("private"), pubsub |-> PubSubPaths, pubsubevent |-> PubEventPaths,
   pubsubowner |-> OwnedPaths, receipt |-> BarePaths("message", Receipts, "receipts"),
   registration |-> QueryPaths("register"), roster |-> QueryPaths("roster"), rosterx |-> RosterXPaths,
   s5b |-> QueryPaths("bytestreams"), search |-> QueryPaths("search"), shim |-> ShimPaths,
   si |-> SiPaths, signed |-> SignedPaths, unique |-> UniquePaths, vcard |-> VCardPaths,
   vcardupdate |-> UpdatePaths, version |-> VersionPaths, xhtml |-> XHtmlPaths]

\* ClientBase's, Client's and Disco's own, those of the managers, and the rest.
Kinds ==
  <<"error", "ping", "bind", "caps", "info", "items", "version", "nonsasl", "roster", "rosterx",
    "command", "offline", "ibb", "jingle", "last", "mucuser", "mucadmin", "mucowner", "muc", "delay",
    "privacy", "private", "pubsub", "pubsubowner", "shim", "registration", "search", "si", "s5b",
    "unique", "vcard", "amp", "attention", "carbons", "chatstate", "encrypted", "event", "featureneg",
    "form", "forward", "nickname", "oob", "pubsubevent", "receipt", "signed", "vcardupdate", "xhtml">>

\* Client::ResourceBind, NonSaslAuth::Query.
BindTag(x) ==
  LET t == Elem(IF x.bind THEN "bind" ELSE "unbind", "bind")
  IN IF x.bind /\ x.resource = "" /\ x.jid # "" THEN Holding(t, Saying(Tag("jid"), x.jid))
     ELSE Holding(t, Saying(Tag("resource"), x.resource))

BindFrom(tag) ==
  [bind |-> tag.name = "bind", jid |-> KidText(tag, "jid"),
   resource |-> IF HasKid(tag, "jid") THEN "" ELSE KidText(tag, "resource")]

AuthTag(x) ==
  LET t == Holding(Elem("query", "auth"), Saying(Tag("username"), x.user))
  IN IF x.user = "" THEN NoTag
     ELSE IF x.pwd = "" \/ x.resource = "" THEN t
     ELSE TextKid(TextKid(t, IF x.digest THEN "digest" ELSE "password", x.pwd), "resource", x.resource)

\* The reader only asks which way the password is wanted.
AuthFrom(tag) == [user |-> "", pwd |-> "", resource |-> "", digest |-> HasKid(tag, "digest")]

\* A stanza with its extensions: tag() of the stanza, given those of the extensions.
Whole(stanza, tags) ==
  LET t == StanzaTag(stanza) IN IF t = NoTag THEN NoTag ELSE HoldingAll(t, tags)

\* StanzaExtension::tag().
RECURSIVE ExtTag(_)
ExtTag(e) ==
  LET x == e.data
      forwarded == ForwardedTag(x.delay, Whole(x.stanza, [i \in DOMAIN x.exts |-> ExtTag(x.exts[i])]))
  IN CASE e.kind = "amp" -> AmpTag(x) [] e.kind = "attention" -> BareTag(x, "attention", Attentions)
       [] e.kind = "bind" -> BindTag(x) [] e.kind = "caps" -> CapsTag(x)
       [] e.kind = "carbons" -> CarbonsTag(x.type, IF x.stanza = NoTag THEN NoTag ELSE forwarded)
       [] e.kind = "chatstate" -> BareTag(x, "chatstates", ChatStates)
       [] e.kind = "command" -> CommandTag(x) [] e.kind = "delay" -> DelayTag(x)
       [] e.kind = "encrypted" -> SayingTag(x, "x", "x:encrypted") [] e.kind = "error" -> ErrorTag(x)
       [] e.kind = "event" -> EventTag(x) [] e.kind = "featureneg" -> FeatureNegTag(x)
       [] e.kind = "form" -> FormTag(x) [] e.kind = "forward" -> forwarded
       [] e.kind = "ibb" -> IbbTag(x) [] e.kind = "info" -> InfoTag(x) [] e.kind = "items" -> ItemsTag(x)
       [] e.kind = "jingle" -> JingleTag(x) [] e.kind = "last" -> LastTag(x) [] e.kind = "muc" -> MucTag(x)
       [] e.kind = "mucadmin" -> AdminTag(x) [] e.kind = "mucowner" -> OwnerTag(x)
       [] e.kind = "mucuser" -> UserTag(x) [] e.kind = "nickname" -> SayingTag(x, "nick", "nick")
       [] e.kind = "nonsasl" -> AuthTag(x) [] e.kind = "offline" -> OfflineTag(x)
       [] e.kind = "oob" -> OobTag(x) [] e.kind = "ping" -> Elem("ping", "ping")
       [] e.kind = "privacy" -> PrivacyTag(x) [] e.kind = "private" -> PrivateTag(x)
       [] e.kind = "pubsub" -> PubSubTag(x) [] e.kind = "pubsubevent" -> PubEventTag(x)
       [] e.kind = "pubsubowner" -> OwnedTag(x) [] e.kind = "receipt" -> ReceiptTag(x)
       [] e.kind = "registration" -> RegistrationTag(x) [] e.kind = "roster" -> RosterTag(x)
       [] e.kind = "rosterx" -> RosterXTag(x) [] e.kind = "s5b" -> S5bTag(x)
       [] e.kind = "search" -> SearchTag(x) [] e.kind = "shim" -> ShimTag(x) [] e.kind = "si" -> SiTag(x)
       [] e.kind = "signed" -> SayingTag(x, "x", "x:signed") [] e.kind = "unique" -> UniqueTag(x)
       [] e.kind = "vcard" -> VCardTag(x) [] e.kind = "vcardupdate" -> UpdateTag(x)
       [] e.kind = "version" -> VersionTag(x) [] e.kind = "xhtml" -> x.xhtml

\* StanzaExtension::newInstance(), for an element of the document.
ExtFrom(kind, doc, node) ==
  LET tag == At(doc, node)
  IN CASE kind = "amp" -> AmpFrom(doc, node) [] kind = "attention" -> BareFrom(tag, Attentions)
       [] kind = "bind" -> BindFrom(tag) [] kind = "caps" -> CapsFrom(tag)
       [] kind = "carbons" -> CarbonsFrom(tag) [] kind = "chatstate" -> BareFrom(tag, ChatStates)
       [] kind = "command" -> CommandFrom(doc, node) [] kind = "delay" -> DelayFrom(tag)
       [] kind \in {"encrypted", "signed", "nickname", "unique"} -> SayingFrom(tag)
       [] kind = "error" -> ErrorFrom(tag) [] kind = "event" -> EventFrom(tag)
       [] kind = "featureneg" -> FeatureNegFrom(tag) [] kind = "form" -> FormFrom(tag)
       [] kind = "forward" -> ForwardedFrom(tag) [] kind = "ibb" -> IbbFrom(tag)
       [] kind = "info" -> InfoFrom(tag) [] kind = "items" -> ItemsFrom(tag)
       [] kind = "jingle" -> JingleFrom(tag) [] kind = "last" -> LastFrom(tag) [] kind = "muc" -> MucFrom(tag)
       [] kind = "mucadmin" -> AdminFrom(tag) [] kind = "mucowner" -> OwnerFrom(doc, node)
       [] kind = "mucuser" -> UserFrom(tag) [] kind = "nonsasl" -> AuthFrom(tag)
       [] kind = "offline" -> <<>> [] kind = "oob" -> OobFrom(tag) [] kind = "ping" -> <<>>
       [] kind = "privacy" -> PrivacyFrom(tag) [] kind = "private" -> PrivateFrom(tag)
       [] kind = "pubsub" -> PubSubFrom(doc, node) [] kind = "pubsubevent" -> PubEventFrom(tag)
       [] kind = "pubsubowner" -> OwnedFrom(tag) [] kind = "receipt" -> ReceiptFrom(tag)
       [] kind = "registration" -> RegistrationFrom(tag) [] kind = "roster" -> RosterFrom(tag)
       [] kind = "rosterx" -> RosterXFrom(tag) [] kind = "s5b" -> S5bFrom(tag)
       [] kind = "search" -> SearchFrom(tag) [] kind = "shim" -> ShimFrom(tag) [] kind = "si" -> SiFrom(tag)
       [] kind = "vcard" -> VCardFrom(tag) [] kind = "vcardupdate" -> UpdateFrom(tag)
       [] kind = "version" -> VersionFrom(tag) [] kind = "xhtml" -> XHtmlFrom(tag)

-----------------------------------------------------------------------------
(* The way. *)

SlipFromStanza(tag) ==
  FlattenSeq([k \in DOMAIN registered |->
    LET kind == registered[k].kind
        match == Evaluate(tag, <<>>, registered[k].path)
    IN [i \in DOMAIN match |-> [kind |-> kind, data |-> ExtFrom(kind, tag, <<>>)]]])

\* StanzaExtensionFactory::addExtensions(): a new instance of every prototype for
\* every element its filter finds.
AddExtensions(tag) ==
  FlattenSeq([k \in DOMAIN registered |->
    LET kind == registered[k].kind
        match == Evaluate(tag, <<>>, registered[k].path)
    IN [i \in DOMAIN match |-> [kind |-> kind, data |-> ExtFrom(kind, tag, match[i])]]])

\* Stanza::embeddedTag(): the first of the extensions that holds a stanza.
EmbeddedTag(exts) ==
  LET holding == SelectSeq(exts, LAMBDA e : e.kind \in {"forward", "carbons"} /\ e.data.stanza # NoTag)
  IN IF holding = <<>> THEN NoTag ELSE holding[1].data.stanza

\* ClientBase::handleTag(): the stanza and its extensions.
Read(tag) == [stanza |-> StanzaFrom(tag), exts |-> AddExtensions(tag)]

\* StanzaExtensionFactory::registerExtension(), for all of them.
Register ==
  /\ registered = <<>>
  /\ registered' = [k \in DOMAIN Kinds |->
                     [kind |-> Kinds[k], path |-> Token(UnionText(Filters[Kinds[k]]))]]
  /\ UNCHANGED <<packet, heard, inside>>

\* A stanza is sent with extensions that belong in it.
SendWithExtensions(stanza, exts) ==
  /\ registered # <<>> /\ packet = <<>>
  /\ \A i \in DOMAIN exts : stanza.kind \in exts[i].in
  /\ packet' = <<[stanza |-> stanza, exts |-> exts, tags |-> [i \in DOMAIN exts |-> ExtTag(exts[i])]]>>
  /\ heard' = <<>> /\ inside' = <<>>
  /\ UNCHANGED registered

\* Then those of the stanza inside.
ReceiveStanza ==
  /\ packet # <<>> /\ heard = <<>>
  /\ LET tag == OnTheWire(Whole(packet[1].stanza, packet[1].tags))
     IN tag # NoTag /\ heard' = <<Read(tag)>>
  /\ LET inner == EmbeddedTag(heard'[1].exts)
     IN inside' = IF inner = NoTag THEN <<>> ELSE <<Read(inner)>>
  /\ UNCHANGED <<registered, packet>>

Forget ==
  /\ heard # <<>>
  /\ packet' = <<>> /\ heard' = <<>> /\ inside' = <<>>
  /\ UNCHANGED registered

WireInit == registered = <<>> /\ packet = <<>> /\ heard = <<>> /\ inside = <<>>

\* An application sends what it likes: a stanza with no extension, one, or two.
Carried(s) ==
  {c \in {<<>>} \cup {<<i>> : i \in DOMAIN Samples} \cup {<<i, j>> : i, j \in DOMAIN Samples} :
     Len(c) = 2 => s \in Together /\ Samples[c[1]].kind # Samples[c[2]].kind}

WireNext ==
  \/ /\ packet = <<>>
     /\ \E s \in DOMAIN Sent : \E c \in Carried(s) : SendWithExtensions(Sent[s], [n \in DOMAIN c |-> Samples[c[n]]])
  \/ Register \/ ReceiveStanza \/ Forget

WireSpec == WireInit /\ [][WireNext]_wireVars

-----------------------------------------------------------------------------
(* What survives. *)

\* Of an extension that was written as a tag.
Kept(stanza, e, tag) ==
  LET x == e.data
      forwarded == IF tag.name = "forwarded" THEN tag ELSE Kid(tag, "forwarded")
      Forwarded == [delay |-> x.delay, stanza |-> Kid(OnTheWire(forwarded), "message")]
  IN CASE e.kind = "amp" -> [x EXCEPT !.rules = <<>>] [] e.kind = "command" -> KeptCommand(x)
       [] e.kind = "forward" -> Forwarded
       [] e.kind = "carbons" ->
            IF x.type \in {"received", "sent"} /\ x.stanza # NoTag THEN Forwarded @@ [type |-> x.type]
            ELSE [type |-> x.type, delay |-> NoDelay, stanza |-> NoTag]
       [] e.kind = "error" -> KeptError(x) [] e.kind = "event" -> KeptEvent(x)
       [] e.kind \in {"featureneg", "info", "registration"} -> [x EXCEPT !.form = KeptForm(@)]
       [] e.kind = "form" -> KeptForm(x)
       [] e.kind = "jingle" -> KeptJingle(x) [] e.kind = "muc" -> KeptMuc(x)
       [] e.kind = "mucadmin" -> KeptAdmin(x) [] e.kind = "mucowner" -> KeptOwner(x)
       [] e.kind = "mucuser" -> KeptUser(x)
       [] e.kind = "nonsasl" -> [x EXCEPT !.user = "", !.pwd = "", !.resource = "",
                                          !.digest = @ /\ x.pwd # "" /\ x.resource # ""]
       [] e.kind \in {"offline", "ping"} -> <<>> [] e.kind = "privacy" -> KeptPrivacy(x)
       [] e.kind = "pubsub" -> KeptPubSub(x, stanza) [] e.kind = "pubsubevent" -> KeptPubEvent(x)
       [] e.kind = "pubsubowner" -> KeptOwned(x) [] e.kind = "s5b" -> KeptS5b(x)
       [] e.kind = "search" -> KeptSearch(x) [] e.kind = "vcard" -> KeptVCard(x)
       [] OTHER -> x

\* An extension that is written is heard once; RosterX, which messages and IQs
\* have, also from what is not its own.
Heard(kind, stanza, exts, tags) ==
  LET AnyX == kind = "rosterx" /\ stanza.kind # "presence"
      own == SetToSortSeq({i \in DOMAIN exts : /\ tags[i] # NoTag
                                               /\ \/ exts[i].kind = kind
                                                  \/ AnyX /\ tags[i].name = "x"}, <)
  IN [n \in DOMAIN own |->
        [kind |-> kind, data |-> IF exts[own[n]].kind # kind THEN [items |-> <<>>]
                                 ELSE Kept(stanza, exts[own[n]], tags[own[n]])]]

AllHeard(stanza, exts, tags) ==
  FlattenSeq([k \in DOMAIN Kinds |-> Heard(Kinds[k], stanza, exts, tags)])

SameAs(one, two) ==
  /\ [i \in DOMAIN one |-> one[i].kind] = [i \in DOMAIN two |-> two[i].kind]
  /\ \A i \in DOMAIN one : one[i].data = two[i].data

\* A stanza reads as it was written, with the extensions it was sent with and no
\* others, alone or together, and so does the message that is forwarded in one of
\* them; but for what Kept and KeptStanza take away.
ExtensionsKept ==
  LET p == packet[1]
      h == heard[1]
      expected == AllHeard(p.stanza, p.exts, p.tags)
      holders == SelectSeq(expected, LAMBDA e : e.kind \in {"carbons", "forward"} /\ e.data.stanza # NoTag)
      inner == p.exts[CHOOSE i \in DOMAIN p.exts : p.exts[i].kind = holders[1].kind].data
  IN heard # <<>> =>
       /\ h.stanza = KeptStanza(p.stanza)
       /\ SameAs(h.exts, expected)
       /\ IF holders = <<>> THEN inside = <<>>
          ELSE /\ inside[1].stanza = KeptStanza(inner.stanza)
               /\ SameAs(inside[1].exts, AllHeard(inner.stanza, inner.exts, [i \in DOMAIN inner.exts |-> ExtTag(inner.exts[i])]))

=============================================================================
