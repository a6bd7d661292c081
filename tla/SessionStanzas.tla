--------------------------- MODULE SessionStanzas ---------------------------
(***************************************************************************)
(* The extensions of sessions and transfers: Jingle with its plugins, and  *)
(* what stream initiation and the two bytestreams say; and the vCard.      *)
(* What a reader never assigns is Unset, for whatever the memory held.     *)
(***************************************************************************)
EXTENDS PubSubStanzas
LOCAL INSTANCE SequencesExt

Unset == "unset"
UnsetNumber == -99

-----------------------------------------------------------------------------
(* Jingle::FileTransfer *)

TransferTypes == {"offer", "request", "checksum", "abort", "received"}
Lists == {"offer", "request"}

\* One file; the offset it may be continued at is written in lists, unless it is 0.
FileTag(f, listed) ==
  LET texts == FoldLeft(LAMBDA t, name : Holding(t, Saying(Tag(name), f[name])), Tag("file"),
                        <<"date", "name", "desc">>)
      sized == Holding(texts, Saying(Tag("size"), IntText(f.size)))
      hash == Saying(With(Elem("hash", "hashes"), "algo", f.algo), f.hash)
      range == With(Tag("range"), "offset", IF listed /\ f.offset # 0 THEN IntText(f.offset) ELSE "")
  IN Holding(Holding(sized, hash), IF f.range = "yes" THEN range ELSE NoTag)

\* FileTransfer::tag(): what is no list is about the first file only.
TransferTag(x) ==
  LET files(listed) == [i \in DOMAIN x.files |-> FileTag(x.files[i], listed)]
  IN IF x.type \in Lists
     THEN Holding(Elem("description", "jingle:file"), HoldingAll(Tag(x.type), files(TRUE)))
     ELSE Holding(Elem(x.type, "jingle:file"), files(FALSE)[1])

\* FileTransfer::parseFileList()
FileFrom(tag) ==
  LET range == Kid(tag, "range")
      hash == First(KidsIn(tag, "hash", "hashes"))
  IN [name |-> KidText(tag, "name"), desc |-> KidText(tag, "desc"), date |-> KidText(tag, "date"),
      size |-> IF HasKid(tag, "size") THEN TextInt(KidText(tag, "size")) ELSE -1,
      algo |-> Attr(hash, "algo"), hash |-> hash.text,
      range |-> IF range = NoTag THEN Unset ELSE "yes",
      offset |-> IF range = NoTag THEN UnsetNumber
                 ELSE IF HasAttr(range, "offset", "") THEN TextInt(Attr(range, "offset")) ELSE -1]

TransferFrom(tag) ==
  LET lists == SelectSeq(tag.kids, LAMBDA k : k.name \in Lists)
      listed == IF tag.name = "description" /\ lists # <<>> THEN lists[1] ELSE tag
      files == Kids(listed, "file")
  IN [plugin |-> "transfer", type |-> Known(TransferTypes, listed.name),
      files |-> [i \in DOMAIN files |-> FileFrom(files[i])]]

KeptFile(f, listed) ==
  IF f.range = "yes" THEN [f EXCEPT !.offset = IF listed /\ @ # 0 THEN @ ELSE -1]
  ELSE [f EXCEPT !.range = Unset, !.offset = UnsetNumber]

KeptTransfer(x) ==
  LET files == IF x.type \in Lists THEN x.files ELSE <<x.files[1]>>
  IN [x EXCEPT !.files = [i \in DOMAIN files |-> KeptFile(files[i], x.type \in Lists)]]

-----------------------------------------------------------------------------
(* Jingle::ICEUDP *)

CandidateTypes == {"host", "prflx", "relay", "srflx"}
CandidateTexts == {"component", "foundation", "generation", "id", "ip", "network", "protocol", "rel-addr"}
CandidateNumbers == {"port", "priority", "rel-port"}

CandidateTag(c) ==
  LET texts == [Tag("candidate") EXCEPT
                  !.attrs = [a \in {b \in CandidateTexts : c.texts[b] # ""} |-> c.texts[a]]
                            @@ [a \in CandidateNumbers |-> IntText(c.numbers[a])]]
  IN With(texts, "type", Written(CandidateTypes, c.type))

CandidateFrom(tag) ==
  [texts |-> [a \in CandidateTexts |-> Attr(tag, a)],
   numbers |-> [a \in CandidateNumbers |-> TextInt(Attr(tag, a))],
   type |-> Known(CandidateTypes, Attr(tag, "type"))]

TransportTag(x) ==
  HoldingAll(With(With(Elem("transport", "ice-udp"), "pwd", x.pwd), "ufrag", x.ufrag),
             [i \in DOMAIN x.candidates |-> CandidateTag(x.candidates[i])])

TransportFrom(tag) ==
  LET candidates == Kids(tag, "candidate")
  IN [plugin |-> "transport", pwd |-> Attr(tag, "pwd"), ufrag |-> Attr(tag, "ufrag"),
      candidates |-> [i \in DOMAIN candidates |-> CandidateFrom(candidates[i])]]

-----------------------------------------------------------------------------
(* Jingle::Session::Reason: the condition is written without a namespace and *)
(* read with one.                                                            *)

Reasons == {"alternative-session", "busy", "cancel", "decline", "success", "timeout"}

ReasonTag(x) ==
  LET condition == TextKid(Tag(x.reason), "sid", IF x.reason = "alternative-session" THEN x.sid ELSE "")
  IN IF x.reason \notin Reasons THEN NoTag
     ELSE TextKid(Holding(Tag("reason"), condition), "text", x.text)

ReasonFrom(tag) ==
  LET conditions == SelectSeq(tag.kids, LAMBDA k : k.name # "text" /\ Xmlns(k) = "jingle")
  IN [plugin |-> "reason", sid |-> "", text |-> LastText(tag, "text"),
      reason |-> IF conditions = <<>> THEN Unset ELSE Known(Reasons, Last(conditions).name)]

-----------------------------------------------------------------------------
(* Jingle::Content, and PluginFactory::addPlugins(): each registered plugin  *)
(* is made of every element its filter finds from the element it is in.      *)

Creators == {"initiator", "responder"}
Senders == {"initiator", "responder", "both", "none"}

RECURSIVE ContentTag(_)
PluginTag(p) ==
  CASE p.plugin = "content" -> ContentTag(p)
    [] p.plugin = "transfer" -> TransferTag(p)
    [] p.plugin = "transport" -> TransportTag(p)
    [] p.plugin = "reason" -> ReasonTag(p)

ContentTag(x) ==
  LET t == With(With(With(With(Tag("content"), "creator", x.creator), "disposition", x.disposition),
                     "name", x.name), "senders", Written(Senders, x.senders))
  IN IF x.creator \notin Creators \/ x.name = "" THEN NoTag
     ELSE HoldingAll(t, [i \in DOMAIN x.plugins |-> PluginTag(x.plugins[i])])

\* Plugins in the order they are registered, and their filters, which do not
\* begin at the stanza.
PluginKinds == <<"content", "transfer", "transport", "reason">>

PluginPaths ==
  [content |-> <<InStanza("jingle", "content", "")>>,
   transfer |-> <<InStanza("content", "description", "jingle:file")>>
                \o [i \in 1..3 |-> InStanza("jingle", <<"abort", "received", "checksum">>[i], "jingle:file")],
   transport |-> <<InStanza("content", "transport", "ice-udp")>>,
   reason |-> <<InStanza("jingle", "reason", "")>>]

\* A union of paths that begin with no slash.
RelativeText(paths) ==
  FlattenSeq([i \in DOMAIN paths |->
    (IF i = 1 THEN <<>> ELSE <<Op("|")>>) \o Tail(PathText(paths[i]))])

PluginTokens == [kind \in DOMAIN PluginPaths |-> Token(RelativeText(PluginPaths[kind]))]

RECURSIVE PluginsFrom(_)
ContentFrom(tag) ==
  [plugin |-> "content", name |-> Attr(tag, "name"), creator |-> Known(Creators, Attr(tag, "creator")),
   senders |-> Known(Senders, Attr(tag, "senders")), disposition |-> Attr(tag, "disposition"),
   plugins |-> PluginsFrom(tag)]

PluginFrom(kind, tag) ==
  CASE kind = "content" -> ContentFrom(tag)
    [] kind = "transfer" -> TransferFrom(tag)
    [] kind = "transport" -> TransportFrom(tag)
    [] kind = "reason" -> ReasonFrom(tag)

PluginsFrom(tag) ==
  FlattenSeq([k \in DOMAIN PluginKinds |->
    LET kind == PluginKinds[k]
        match == Evaluate(tag, <<>>, PluginTokens[kind])
    IN [i \in DOMAIN match |-> PluginFrom(kind, At(tag, match[i]))]])

RECURSIVE KeptPlugins(_)
KeptPlugin(p) ==
  CASE p.plugin = "content" -> [p EXCEPT !.plugins = KeptPlugins(@)]
    [] p.plugin = "transfer" -> KeptTransfer(p)
    [] p.plugin = "transport" -> p
    [] p.plugin = "reason" -> [p EXCEPT !.reason = Unset, !.sid = ""]

\* They come back sorted by kind.
KeptPlugins(plugins) ==
  FlattenSeq([k \in DOMAIN PluginKinds |->
    LET own == SelectSeq(plugins, LAMBDA p : p.plugin = PluginKinds[k])
    IN [i \in DOMAIN own |-> KeptPlugin(own[i])]])

-----------------------------------------------------------------------------
(* Jingle::Session::Jingle *)

JingleActions == {"content-accept", "content-add", "session-accept", "session-info",
                  "session-initiate", "session-terminate", "transport-info"}

JingleTag(x) ==
  LET acted == With(Elem("jingle", "jingle"), "action", x.action)
      by == With(acted, "initiator", IF x.action = "session-initiate" THEN x.initiator ELSE "")
      for == With(by, "responder", IF x.action = "session-accept" THEN x.responder ELSE "")
  IN IF x.action \notin JingleActions \/ x.sid = "" THEN NoTag
     ELSE HoldingAll(With(for, "sid", x.sid), [i \in DOMAIN x.plugins |-> PluginTag(x.plugins[i])])

\* The session manager adds the plugins (jinglesessionmanager.cpp:86).
JingleFrom(tag) ==
  [action |-> Known(JingleActions, Attr(tag, "action")), sid |-> Attr(tag, "sid"),
   initiator |-> Attr(tag, "initiator"), responder |-> Attr(tag, "responder"),
   plugins |-> PluginsFrom(tag)]

JinglePaths == <<InStanza("iq", "jingle", "jingle")>>

KeptJingle(x) ==
  [x EXCEPT !.initiator = IF x.action = "session-initiate" THEN @ ELSE "",
            !.responder = IF x.action = "session-accept" THEN @ ELSE "",
            !.plugins = KeptPlugins(@)]

-----------------------------------------------------------------------------
(* SIManager::SI: a file and what is negotiated for it, as elements. *)

SiTag(x) ==
  LET t == With(With(With(Elem("si", "si"), "id", x.id), "mime-type", x.mimetype), "profile", x.profile)
  IN Holding(Holding(t, x.tag1), x.tag2)

SiFrom(tag) ==
  [id |-> Attr(tag, "id"), mimetype |-> Attr(tag, "mime-type"), profile |-> Attr(tag, "profile"),
   tag1 |-> First(KidsIn(tag, "file", "si-ft")), tag2 |-> First(KidsIn(tag, "feature", "feature-neg"))]

SiPaths == <<InStanza("iq", "si", "si")>>

-----------------------------------------------------------------------------
(* SOCKS5BytestreamManager::Query: hosts to choose from, the one that was   *)
(* used, or whom to activate a proxy for.                                   *)

S5bModes == {"tcp", "udp"}

S5bTag(x) ==
  LET t == With(Elem("query", "bytestreams"), "sid", x.sid)
      Host(h) == With(With(With(Tag("streamhost"), "jid", h.jid), "host", h.host), "port", IntText(h.port))
  IN CASE x.type = "hosts" ->
            HoldingAll(With(t, "mode", x.mode), [i \in DOMAIN x.hosts |-> Host(x.hosts[i])])
       [] x.type = "used" -> Holding(t, With(Tag("streamhost-used"), "jid", x.jid))
       [] x.type = "activate" -> Holding(t, Saying(Tag("activate"), x.jid))
       [] OTHER -> NoTag

\* One child after the other; a host without an address is passed over.
S5bKid(x, k) ==
  CASE k.name = "streamhost" /\ \A a \in {"jid", "host", "port"} : HasAttr(k, a, "") ->
         [x EXCEPT !.type = "hosts",
                   !.hosts = Append(@, [jid |-> Attr(k, "jid"), host |-> Attr(k, "host"),
                                        port |-> TextInt(Attr(k, "port"))])]
    [] k.name = "streamhost-used" -> [x EXCEPT !.type = "used", !.jid = Attr(k, "jid")]
    [] k.name = "activate" -> [x EXCEPT !.type = "activate", !.jid = k.text]
    [] OTHER -> x

S5bFrom(tag) ==
  FoldLeft(S5bKid, [type |-> "invalid", sid |-> Attr(tag, "sid"), jid |-> "", hosts |-> <<>>,
                    mode |-> KnownOr(S5bModes, Attr(tag, "mode"), "tcp")], tag.kids)

KeptS5b(x) ==
  [x EXCEPT !.mode = IF x.type = "hosts" THEN @ ELSE "tcp",
            !.type = IF x.type = "hosts" /\ x.hosts = <<>> THEN "invalid" ELSE @]

-----------------------------------------------------------------------------
(* InBandBytestream::IBB: Base64 gives back what it was given. *)

IbbTypes == {"open", "data", "close"}

IbbTag(x) ==
  LET t == With(Elem(x.type, "ibb"), "sid", x.sid)
  IN CASE x.type = "data" -> With(Saying(t, x.data), "seq", IntText(x.seq))
       [] x.type = "open" -> With(t, "block-size", IntText(x.blockSize))
       [] x.type = "close" -> t

IbbFrom(tag) ==
  [type |-> Known(IbbTypes, tag.name), sid |-> Attr(tag, "sid"), data |-> tag.text,
   seq |-> TextInt(Attr(tag, "seq")), blockSize |-> TextInt(Attr(tag, "block-size"))]

IbbPaths ==
  <<InStanza("iq", "open", "ibb"), InStanza("iq", "data", "ibb"), InStanza("message", "data", "ibb"),
    InStanza("iq", "close", "ibb")>>

-----------------------------------------------------------------------------
(* Class VCard (XEP-0054): filled by its setters, written, and read.  What is *)
(* empty is written as nothing, what was not said is read as empty.           *)

\* The fields of one text, in the order they are written.  The sort string is
\* written under another name than it is read, the product never.
VCardFields == <<"FN", "NICKNAME", "URL", "BDAY", "JABBERID", "TITLE", "ROLE", "NOTE", "DESC",
                 "MAILER", "TZ", "REV", "SORT_STRING", "UID">>
VCardFieldsRead == (ToSet(VCardFields) \ {"SORT_STRING"}) \cup {"PRODID", "SORT-STRING"}

NameParts == <<"FAMILY", "GIVEN", "MIDDLE", "PREFIX", "SUFFIX">>
AddressParts == <<"POBOX", "EXTADD", "STREET", "LOCALITY", "REGION", "PCODE", "CTRY">>
EmailFlags == <<"INTERNET", "WORK", "HOME", "X400", "PREF">>
AddressFlags == <<"POSTAL", "PARCEL", "HOME", "WORK", "PREF", "DOM", "INTL">>
PhoneFlags == <<"HOME", "WORK", "VOICE", "FAX", "PAGER", "MSG", "CELL", "VIDEO", "BBS", "MODEM",
                "ISDN", "PCS", "PREF">>

Gloox == "gloox"

NoPhoto == [set |-> FALSE, extval |-> "", type |-> "", binval |-> ""]

NewVCard ==
  [fields |-> "PRODID" :> Gloox, hasName |-> FALSE, name |-> <<>>, photo |-> NoPhoto, logo |-> NoPhoto,
   emails |-> <<>>, addresses |-> <<>>, labels |-> <<>>, phones |-> <<>>, geo |-> <<"", "">>,
   org |-> [name |-> "", units |-> <<>>], class |-> "none"]

-----------------------------------------------------------------------------
(* The setters. *)

SetField(v, field, text) == [v EXCEPT !.fields = (field :> text) @@ @]

\* VCard::setName(): parts by their names.
SetName(v, parts) == [v EXCEPT !.hasName = TRUE, !.name = parts]

\* VCard::setPhotoUri() and setLogo( uri ).
WithUri(photo, extval) == IF extval = "" THEN photo ELSE [photo EXCEPT !.set = TRUE, !.extval = extval]

\* VCard::setPhoto( type, binval ) and setLogo(): an address that was set before
\* stays.  Without an image nothing is left.
WithImage(photo, type, binval) ==
  IF type = "" \/ binval = "" THEN NoPhoto
  ELSE [photo EXCEPT !.set = TRUE, !.type = type, !.binval = binval]

\* A list of flags is a set of names; an address is not both in the country and abroad.
Flagged(flags) == IF "DOM" \in flags THEN flags \ {"INTL"} ELSE flags

AddEmail(v, userid, flags) ==
  IF userid = "" THEN v ELSE [v EXCEPT !.emails = Append(@, [userid |-> userid, flags |-> flags])]

Said(parts) == {p \in DOMAIN parts : parts[p] # ""}

AddAddress(v, parts, flags) ==
  IF Said(parts) = {} THEN v
  ELSE [v EXCEPT !.addresses = Append(@, [parts |-> parts, flags |-> Flagged(flags)])]

AddLabel(v, lines, flags) ==
  IF lines = <<>> THEN v
  ELSE [v EXCEPT !.labels = Append(@, [lines |-> lines, flags |-> Flagged(flags)])]

AddTelephone(v, number, flags) ==
  IF number = "" THEN v ELSE [v EXCEPT !.phones = Append(@, [number |-> number, flags |-> flags])]

SetGeo(v, lat, lon) == IF lat = "" \/ lon = "" THEN v ELSE [v EXCEPT !.geo = <<lat, lon>>]

SetOrganization(v, name, units) ==
  IF name = "" THEN v ELSE [v EXCEPT !.org = [name |-> name, units |-> units]]

-----------------------------------------------------------------------------
(* VCard::tag() *)

PartKids(tag, order, parts) ==
  FoldLeft(LAMBDA t, name : TextKid(t, name, IF name \in DOMAIN parts THEN parts[name] ELSE ""), tag, order)

FlagKids(tag, order, flags) ==
  FoldLeft(LAMBDA t, name : FlagKid(t, name, name \in flags), tag, order)

\* An address of an image goes before the image.
PhotoTag(name, p) ==
  IF p.extval # "" THEN TextKid(Tag(name), "EXTVAL", p.extval)
  ELSE TextKid(TextKid(Tag(name), "TYPE", p.type), "BINVAL", p.binval)

OrgTag(o) == TextKids(TextKid(Tag("ORG"), "ORGNAME", o.name), "ORGUNIT", o.units)

VCardTag(v) ==
  LET t == PartKids(With(Elem("vCard", "vcard-temp"), "version", "3.0"), VCardFields, v.fields)
      If(held, tag) == IF held THEN tag ELSE NoTag
      Email(e) == TextKid(FlagKids(Tag("EMAIL"), EmailFlags, e.flags), "USERID", e.userid)
      Address(a) == PartKids(FlagKids(Tag("ADR"), AddressFlags, a.flags), AddressParts, a.parts)
      Phone(p) == FlagKids(TextKid(Tag("TEL"), "NUMBER", p.number), PhoneFlags, p.flags)
  IN HoldingAll(t,
       <<If(v.hasName, PartKids(Tag("N"), NameParts, v.name)),
         If(v.photo.set, PhotoTag("PHOTO", v.photo)), If(v.logo.set, PhotoTag("LOGO", v.logo))>>
       \o [i \in DOMAIN v.emails |-> Email(v.emails[i])]
       \o [i \in DOMAIN v.addresses |-> Address(v.addresses[i])]
       \o [i \in DOMAIN v.phones |-> Phone(v.phones[i])]
       \o <<If(v.geo # <<"", "">>, TextKid(TextKid(Tag("GEO"), "LAT", v.geo[1]), "LON", v.geo[2])),
            If(v.org.name # "", OrgTag(v.org)),
            If(v.class # "none", Holding(Tag("CLASS"), Tag(v.class)))>>)

-----------------------------------------------------------------------------
(* VCard::VCard( tag ) *)

PartsIn(tag, names) == [name \in names \cap Names(tag) |-> KidText(tag, name)]

FlagsIn(tag, order) == ToSet(order) \cap Names(tag)

PhotoFrom(photo, tag) ==
  IF HasKid(tag, "EXTVAL") THEN [photo EXCEPT !.set = TRUE, !.extval = KidText(tag, "EXTVAL")]
  ELSE IF HasKid(tag, "TYPE") /\ HasKid(tag, "BINVAL")
  THEN [photo EXCEPT !.set = TRUE, !.type = KidText(tag, "TYPE"), !.binval = KidText(tag, "BINVAL")]
  ELSE photo

\* A label reads its own text for each line, and the flags of its last child.
LabelFrom(tag) ==
  [lines |-> [i \in DOMAIN Kids(tag, "LINE") |-> tag.text],
   flags |-> IF tag.kids = <<>> THEN {} ELSE {Last(tag.kids).name} \cap ToSet(AddressFlags)]

\* One child after the other.
VCardKid(v, k) ==
  LET class == SelectSeq(<<"PRIVATE", "PUBLIC", "CONFIDENTIAL">>, LAMBDA c : HasKid(k, c))
      geo == [lat |-> v.geo[1], lon |-> v.geo[2]]
  IN CASE k.name = "N" -> SetName(v, PartsIn(k, ToSet(NameParts)) @@ v.name)
       [] k.name = "PHOTO" -> [v EXCEPT !.photo = PhotoFrom(@, k)]
       [] k.name = "LOGO" -> [v EXCEPT !.logo = PhotoFrom(@, k)]
       [] k.name = "EMAIL" /\ HasKid(k, "USERID") ->
            [v EXCEPT !.emails = Append(@, [userid |-> KidText(k, "USERID"), flags |-> FlagsIn(k, EmailFlags)])]
       [] k.name = "ADR" ->
            [v EXCEPT !.addresses = Append(@, [parts |-> PartsIn(k, ToSet(AddressParts)),
                                               flags |-> Flagged(FlagsIn(k, AddressFlags))])]
       [] k.name = "LABEL" -> [v EXCEPT !.labels = Append(@, LabelFrom(k))]
       [] k.name = "TEL" /\ HasKid(k, "NUMBER") ->
            [v EXCEPT !.phones = Append(@, [number |-> KidText(k, "NUMBER"), flags |-> FlagsIn(k, PhoneFlags)])]
       [] k.name = "ORG" ->
            [v EXCEPT !.org = [name |-> IF HasKid(k, "ORGNAME") THEN LastText(k, "ORGNAME") ELSE @.name,
                               units |-> @.units \o Texts(k, "ORGUNIT")]]
       [] k.name = "GEO" ->
            [v EXCEPT !.geo = <<IF HasKid(k, "LAT") THEN KidText(k, "LAT") ELSE geo.lat,
                                IF HasKid(k, "LON") THEN KidText(k, "LON") ELSE geo.lon>>]
       [] k.name = "CLASS" /\ class # <<>> -> [v EXCEPT !.class = class[1]]
       [] OTHER -> v

\* The product is gloox until it is read otherwise.
VCardFrom(tag) ==
  LET read == PartsIn(tag, VCardFieldsRead)
      sorted == IF HasKid(tag, "SORT-STRING") THEN "SORT_STRING" :> KidText(tag, "SORT-STRING") ELSE <<>>
      fields == [f \in DOMAIN read \ {"SORT-STRING"} |-> read[f]] @@ sorted
  IN FoldLeft(VCardKid, [NewVCard EXCEPT !.fields = fields @@ @], tag.kids)

VCardPaths == <<InStanza("iq", "vCard", "vcard-temp")>>

\* The sort string, the product and labels are lost; of an image and its address
\* the address stays.
KeptVCard(v) ==
  LET KeptPhoto(p) == IF p.extval # "" THEN [NoPhoto EXCEPT !.set = TRUE, !.extval = p.extval] ELSE p
      Only(parts) == [p \in Said(parts) |-> parts[p]]
  IN [v EXCEPT !.fields = ("PRODID" :> Gloox) @@ [f \in Said(@) \ {"SORT_STRING", "PRODID"} |-> @[f]],
               !.name = Only(@), !.photo = KeptPhoto(@), !.logo = KeptPhoto(@), !.labels = <<>>,
               !.addresses = [i \in DOMAIN @ |-> [@[i] EXCEPT !.parts = Only(@)]]]

=============================================================================
