------------------------- MODULE MessageExtensions -------------------------
(***************************************************************************)
(* Data forms (XEP-0004) and what carries them, and the small extensions   *)
(* of messages and presence.  For each of them: how it is written (tag()), *)
(* how it is read (newInstance()), and the paths (filterString()) by which *)
(* the factory finds it in a stanza.  NoForm is the null pointer; any      *)
(* other null pointer is an object nothing is known of.                    *)
(***************************************************************************)
EXTENDS Tags, TagPath
LOCAL INSTANCE SequencesExt

\* The steps of a path that leads from the stanza to an element of a namespace.
Step(name, xmlns) ==
  [axis |-> "child", name |-> name, tests |-> IF xmlns = "" THEN <<>> ELSE <<<<"xmlns", xmlns>>>>]

InStanza(stanza, name, xmlns) == <<Step(stanza, ""), Step(name, xmlns)>>

\* A filter string that asks for one element in several stanzas.
InAny(stanzas, name, xmlns) == [i \in DOMAIN stanzas |-> InStanza(stanzas[i], name, xmlns)]

Texts(tag, name) == [i \in DOMAIN Kids(tag, name) |-> Kids(tag, name)[i].text]

\* new Tag( tag, name, cdata ) for each of a list.
TextKids(tag, name, texts) ==
  FoldLeft(LAMBDA t, text : Holding(t, Saying(Tag(name), text)), tag, texts)

AtMostOne(list) == IF list = <<>> THEN <<>> ELSE <<list[1]>>

LastText(tag, name) ==
  IF HasKid(tag, name) THEN Last(Kids(tag, name)).text ELSE ""

-----------------------------------------------------------------------------
(* DataFormField *)

MultiTypes == {"text-multi", "list-multi", "jid-multi"}
ListTypes == {"list-single", "list-multi"}
FieldTypes == MultiTypes \cup
  {"boolean", "fixed", "hidden", "jid-single", "list-single", "text-private", "text-single", "none"}

\* DataFormField::tag().  Of several values, a single type writes the first;
\* options are <<label, value>>, in their order.
FieldTag(x) ==
  LET named == With(With(With(Tag("field"), "type", IF x.type = "none" THEN "" ELSE x.type),
                         "var", x.name), "label", x.label)
      described == TextKid(FlagKid(named, "required", x.required), "desc", x.desc)
      Option(o) == Holding(With(Tag("option"), "label", o[1]), Saying(Tag("value"), o[2]))
      offering == IF x.type \notin ListTypes THEN described
                  ELSE HoldingAll(described, [i \in DOMAIN x.options |-> Option(x.options[i])])
      values == CASE x.type = "boolean" ->
                       IF x.values = <<>> \/ x.values[1] \in {"false", "0"} THEN <<"0">> ELSE <<"1">>
                  [] x.type \in MultiTypes -> x.values
                  [] OTHER -> AtMostOne(x.values)
  IN IF x.type = "invalid" THEN NoTag ELSE TextKids(offering, "value", values)

\* DataFormField::DataFormField( tag ).  A single type keeps the last value.
FieldFrom(tag) ==
  LET type == IF Attr(tag, "type") = "" THEN "none" ELSE Known(FieldTypes, Attr(tag, "type"))
      values == Texts(tag, "value")
      options == SelectSeq(Kids(tag, "option"), LAMBDA o : HasKid(o, "value"))
  IN [type |-> type, name |-> Attr(tag, "var"), label |-> Attr(tag, "label"),
      required |-> HasKid(tag, "required"), desc |-> LastText(tag, "desc"),
      values |-> IF type \in MultiTypes \/ values = <<>> THEN values ELSE <<Last(values)>>,
      options |-> [i \in DOMAIN options |->
                     <<Attr(options[i], "label"), KidText(options[i], "value")>>]]

FieldTags(fields) == [i \in DOMAIN fields |-> FieldTag(fields[i])]
FieldsFrom(tags) == [i \in DOMAIN tags |-> FieldFrom(tags[i])]

\* What a field keeps on its way.
KeptField(x) ==
  [x EXCEPT !.values = IF x.type = "boolean"
                       THEN IF x.values = <<>> \/ x.values[1] \in {"false", "0"} THEN <<"0">> ELSE <<"1">>
                       ELSE IF x.type \in MultiTypes THEN @ ELSE AtMostOne(@),
            !.options = IF x.type \in ListTypes THEN @ ELSE <<>>]

KeptFields(fields) ==
  LET valid == SelectSeq(fields, LAMBDA f : f.type # "invalid")
  IN [i \in DOMAIN valid |-> KeptField(valid[i])]

-----------------------------------------------------------------------------
(* DataForm, DataFormItem and DataFormReported: an item is its fields. *)

FormTypes == {"form", "submit", "cancel", "result"}

NoForm == [type |-> "null", title |-> "", instructions |-> <<>>, fields |-> <<>>,
           reported |-> <<>>, items |-> <<>>]

\* DataFormItem::tag() and DataFormReported::tag().
ItemTag(name, fields) == HoldingAll(Tag(name), FieldTags(fields))

\* DataForm::tag(); no reported fields stand for the null pointer.
FormTag(x) ==
  LET t == TextKid(With(Elem("x", "x:data"), "type", x.type), "title", x.title)
      filled == HoldingAll(TextKids(t, "instructions", x.instructions), FieldTags(x.fields))
      reporting == IF x.reported = <<>> THEN filled
                   ELSE Holding(filled, ItemTag("reported", x.reported))
  IN IF x.type \notin FormTypes THEN NoTag
     ELSE HoldingAll(reporting, [i \in DOMAIN x.items |-> ItemTag("item", x.items[i])])

\* DataForm::parse().
FormFrom(tag) ==
  LET type == IF Attr(tag, "type") = "" THEN "form" ELSE Known(FormTypes, Attr(tag, "type"))
  IN IF ~IsElem(tag, "x", "x:data") \/ type = "invalid" THEN [NoForm EXCEPT !.type = "invalid"]
     ELSE [type |-> type, title |-> LastText(tag, "title"),
           instructions |-> Texts(tag, "instructions"),
           fields |-> FieldsFrom(Kids(tag, "field")),
           reported |-> FieldsFrom(Kid(tag, "reported").kids),
           items |-> [i \in DOMAIN Kids(tag, "item") |-> FieldsFrom(Kids(tag, "item")[i].kids)]]

\* A form where there may be none.
FormIn(tag) == IF tag = NoTag THEN NoForm ELSE FormFrom(tag)

KeptForm(x) ==
  IF x.type \notin FormTypes THEN NoForm
  ELSE [x EXCEPT !.fields = KeptFields(@), !.reported = KeptFields(@),
                 !.items = [i \in DOMAIN @ |-> KeptFields(@[i])]]

FormPaths == <<InStanza("message", "x", "x:data")>>

\* FeatureNeg: a form in an element of its own.
FeatureNegTag(x) ==
  IF x.form = NoForm THEN NoTag ELSE Holding(Elem("feature", "feature-neg"), FormTag(x.form))

FeatureNegFrom(tag) ==
  [form |-> IF IsElem(tag, "feature", "feature-neg")
            THEN FormIn(First(KidsIn(tag, "x", "x:data"))) ELSE NoForm]

FeatureNegPaths == InAny(<<"message", "iq">>, "feature", "feature-neg")

-----------------------------------------------------------------------------
(* SoftwareVersion *)

VersionTag(x) ==
  TextKid(TextKid(TextKid(Elem("query", "version"), "name", x.name), "version", x.version), "os", x.os)

VersionFrom(tag) ==
  [name |-> KidText(tag, "name"), version |-> KidText(tag, "version"), os |-> KidText(tag, "os")]

VersionPaths == <<InStanza("iq", "query", "version")>>

-----------------------------------------------------------------------------
(* Error: of the texts only one survives, since each language of an error is *)
(* looked for as in a stanza.                                                *)

ErrorTypes == {"auth", "cancel", "continue", "modify", "wait"}
Conditions == {"bad-request", "conflict", "feature-not-implemented", "forbidden", "gone",
  "internal-server-error", "item-not-found", "jid-malformed", "not-acceptable", "not-allowed",
  "not-authorized", "not-modified", "payment-required", "recipient-unavailable", "redirect",
  "registration-required", "remote-server-not-found", "remote-server-timeout",
  "resource-constraint", "service-unavailable", "subscription-required", "undefined-condition",
  "unexpected-request", "unknown-sender"}

ErrorTag(x) ==
  LET t == Holding(With(Tag("error"), "type", x.type), Elem(x.error, "stanzas"))
      Text(lang) == Saying(With(Elem("text", "stanzas"), "xml:lang", lang), x.texts[lang])
  IN IF x.type \notin ErrorTypes \/ x.error \notin Conditions THEN NoTag
     ELSE Holding(HoldingAll(t, [i \in DOMAIN SetToSeq(DOMAIN x.texts) |->
                                   Text(SetToSeq(DOMAIN x.texts)[i])]), x.appError)

\* Error::Error( tag ): the last of several conditions or details counts.
ErrorFrom(tag) ==
  LET conditions == SelectSeq(tag.kids, LAMBDA k : k.name \in Conditions)
      others == SelectSeq(tag.kids, LAMBDA k : k.name \notin Conditions \cup {"text"})
  IN [type |-> Known(ErrorTypes, Attr(tag, "type")),
      error |-> IF conditions = <<>> THEN "invalid" ELSE Last(conditions).name,
      texts |-> FoldLeft(LAMBDA texts, k : (Attr(k, "xml:lang") :> k.text) @@ texts,
                         <<>>, Kids(tag, "text")),
      appError |-> IF others = <<>> THEN NoTag ELSE Last(others)]

ErrorPaths == InAny(<<"iq", "message", "presence", "subscription">>, "error", "")

KeptError(x) ==
  [x EXCEPT !.texts = IF DOMAIN @ = {} THEN <<>> ELSE "" :> @[Last(SetToSeq(DOMAIN @))]]

-----------------------------------------------------------------------------
(* The small extensions. *)

\* An element that is all there is to say.
BareTag(x, xmlns, names) == IF x.type \in names THEN Elem(x.type, xmlns) ELSE NoTag
BareFrom(tag, names) == [type |-> Known(names, tag.name)]
BarePaths(stanza, names, xmlns) ==
  LET s == SetToSeq(names) IN [i \in DOMAIN s |-> InStanza(stanza, s[i], xmlns)]

-----------------------------------------------------------------------------
(* AMP: rules, which are read from the stanza's own element and so never, and *)
(* what the server adds.                                                      *)

AmpActions == {"alert", "error", "drop", "notify"}
AmpValues == [deliver |-> {"direct", "forward", "gateway", "none", "stored"},
              expireAt |-> {"date"}, matchResource |-> {"any", "exact", "other"}]
AmpNames == [deliver |-> "deliver", expireAt |-> "expire-at", matchResource |-> "match-resource"]
AmpStati == {"alert", "notify"}

\* AMP::Rule::tag().
RuleTag(r) ==
  IF r.action \notin AmpActions \/ r.value = "invalid" THEN NoTag
  ELSE With(With(With(Tag("rule"), "condition", AmpNames[r.condition]), "action", r.action),
            "value", r.value)

AmpTag(x) ==
  LET t == With(With(With(Elem("amp", "amp"), "from", x.from), "to", x.to), "status",
                Written(AmpStati, x.status))
  IN IF x.rules = <<>> THEN NoTag
     ELSE HoldingAll(With(t, "per-hop", IF x.perhop THEN "true" ELSE ""),
                     [i \in DOMAIN x.rules |-> RuleTag(x.rules[i])])

\* AMP::Rule::Rule( condition, action, value ).
RuleFrom(tag) ==
  LET c == CHOOSE c \in DOMAIN AmpNames : AmpNames[c] = Attr(tag, "condition")
  IN [condition |-> c, action |-> Known(AmpActions, Attr(tag, "action")),
      value |-> IF c = "expireAt" THEN Attr(tag, "value") ELSE Known(AmpValues[c], Attr(tag, "value"))]

AmpRulesPath == <<Step("amp", ""), Step("rule", "")>>

AmpFrom(doc, node) ==
  LET tag == At(doc, node)
      found == FindTagList(doc, node, PathText(AmpRulesPath))
  IN [rules |-> [i \in DOMAIN found |-> RuleFrom(At(doc, found[i]))],
      from |-> Attr(tag, "from"), to |-> Attr(tag, "to"),
      status |-> Known(AmpStati, Attr(tag, "status")),
      perhop |-> HasAttr(tag, "per-hop", "true") \/ HasAttr(tag, "per-hop", "1")]

AmpPaths == <<InStanza("message", "amp", "amp")>>

-----------------------------------------------------------------------------
(* Attention, ChatState, Nickname, Receipt, GPGEncrypted and GPGSigned. *)

Attentions == {"attention"}
ChatStates == {"active", "composing", "paused", "inactive", "gone"}
Receipts == {"request", "received"}

ReceiptTag(x) == With(BareTag(x, "receipts", Receipts), "id", x.id)
ReceiptFrom(tag) == BareFrom(tag, Receipts) @@ [id |-> Attr(tag, "id")]

\* Text in an element; nothing is written without text.
SayingTag(x, name, xmlns) == IF x.text = "" THEN NoTag ELSE Saying(Elem(name, xmlns), x.text)
SayingFrom(tag) == [text |-> tag.text]

NicknamePaths == InAny(<<"presence", "message">>, "nick", "nick")
EncryptedPaths == <<InStanza("message", "x", "x:encrypted")>>
SignedPaths == InAny(<<"presence", "message">>, "x", "x:signed")

-----------------------------------------------------------------------------
(* DelayedDelivery: valid with a stamp; read in two forms, written in one. *)

NoDelay == [from |-> "", stamp |-> "", reason |-> ""]

DelayTag(x) ==
  IF x.stamp = "" THEN NoTag
  ELSE Saying(With(With(Elem("delay", "delay"), "from", x.from), "stamp", x.stamp), x.reason)

DelayFrom(tag) ==
  IF \/ ~HasAttr(tag, "stamp", "")
     \/ ~IsElem(tag, "x", "x:delay") /\ ~IsElem(tag, "delay", "delay")
  THEN NoDelay
  ELSE [from |-> Attr(tag, "from"), stamp |-> Attr(tag, "stamp"), reason |-> tag.text]

DelayPaths == InAny(<<"presence", "message">>, "delay", "delay")
              \o InAny(<<"presence", "message">>, "x", "x:delay")

-----------------------------------------------------------------------------
(* Forward and Carbons: another stanza inside, which its user writes as an  *)
(* element and reads as a message.                                          *)

\* Forward::tag().
ForwardedTag(delay, stanza) ==
  LET t == IF stanza.name = "message" THEN With(stanza, "xmlns", "client") ELSE stanza
  IN IF stanza = NoTag THEN NoTag
     ELSE Holding(Holding(Elem("forwarded", "forward"), DelayTag(delay)), t)

\* Forward::Forward( tag ): the delay, and the element of the message.
ForwardedFrom(tag) ==
  IF ~IsElem(tag, "forwarded", "forward") THEN [delay |-> NoDelay, stanza |-> NoTag]
  ELSE [delay |-> DelayFrom(First(KidsIn(tag, "delay", "delay"))), stanza |-> Kid(tag, "message")]

ForwardPaths == InAny(<<"message", "iq", "presence">>, "forwarded", "forward")

CarbonTypes == {"received", "sent", "enable", "disable", "private"}

CarbonsTag(type, forwarded) ==
  IF type \notin CarbonTypes THEN NoTag
  ELSE IF type \in {"received", "sent"} THEN Holding(Elem(type, "carbons"), forwarded)
  ELSE Elem(type, "carbons")

CarbonsFrom(tag) ==
  LET type == Known(CarbonTypes, tag.name)
      inner == IF type \in {"received", "sent"} THEN First(KidsIn(tag, "forwarded", "forward")) ELSE NoTag
  IN ForwardedFrom(inner) @@ [type |-> type]

CarbonsPaths == <<InStanza("message", "*", "carbons")>>

-----------------------------------------------------------------------------
(* MessageEvent: a set of events; a child that is none of them adds the     *)
(* member for what is unknown, and no child at all means "cancel".          *)

MessageEvents == {"offline", "delivered", "displayed", "composing"}

EventTag(x) ==
  LET Flag(t, name) == FlagKid(t, name, name \in x.events)
  IN TextKid(FoldLeft(Flag, Elem("x", "x:event"), <<"offline", "delivered", "displayed", "composing">>),
             "id", x.id)

EventFrom(tag) ==
  LET names == {tag.kids[i].name : i \in DOMAIN tag.kids}
  IN [events |-> IF names = {} THEN {"cancel"} ELSE {Known(MessageEvents, n) : n \in names},
      id |-> LastText(tag, "id")]

EventPaths == <<InStanza("message", "x", "x:event")>>

KeptEvent(x) ==
  LET written == x.events \cap MessageEvents
  IN [x EXCEPT !.events = IF x.id # "" THEN written \cup {"invalid"}
                          ELSE IF written = {} THEN {"cancel"} ELSE written]

-----------------------------------------------------------------------------
(* OOB, SHIM, VCardUpdate and Capabilities. *)

OobTag(x) ==
  LET t == IF x.iqext THEN Elem("query", "iq:oob") ELSE Elem("x", "x:oob")
  IN IF x.url = "" THEN NoTag
     ELSE TextKid(Holding(t, Saying(Tag("url"), x.url)), "desc", x.desc)

OobFrom(tag) ==
  [iqext |-> tag.name = "query", url |-> KidText(tag, "url"), desc |-> KidText(tag, "desc")]

OobPaths == InAny(<<"presence", "message">>, "x", "x:oob") \o <<InStanza("iq", "query", "iq:oob")>>

\* Headers are a function from names; the reader stops at what is no header.
ShimTag(x) ==
  LET names == SetToSeq(DOMAIN x.headers)
  IN IF names = <<>> THEN NoTag
     ELSE HoldingAll(Elem("headers", "shim"),
            [i \in DOMAIN names |->
               Saying(With(Tag("header"), "name", names[i]), x.headers[names[i]])])

ShimFrom(tag) ==
  LET IsHeader(k) == k.name = "header" /\ HasAttr(k, "name", "")
      good == {n \in DOMAIN tag.kids : \A i \in 1..n : IsHeader(tag.kids[i])}
  IN [headers |-> [name \in {Attr(tag.kids[i], "name") : i \in good} |->
                     tag.kids[CHOOSE i \in good : Attr(tag.kids[i], "name") = name].text]]

ShimPaths == InAny(<<"presence", "message">>, "headers", "shim")
             \o <<<<Step("iq", ""), Step("*", ""), Step("headers", "shim")>>>>

\* Not ready: nothing is said of a photo; no image: an empty photo.
UpdateTag(x) ==
  LET photo == Saying(Tag("photo"), IF x.noImage THEN "" ELSE x.hash)
  IN IF x.notReady THEN Elem("x", "x:update") ELSE Holding(Elem("x", "x:update"), photo)

UpdateFrom(tag) ==
  LET hash == KidText(tag, "photo")
  IN [notReady |-> ~HasKid(tag, "photo"), noImage |-> hash = "", hash |-> hash]

UpdatePaths == <<InStanza("presence", "x", "x:update")>>

\* Capabilities::tag(): ver is computed by the sender from what it supports.
CapsTag(x) ==
  IF x.node = "" THEN NoTag
  ELSE With(With(With(Elem("c", "caps"), "hash", x.hash), "node", x.node), "ver", x.ver)

CapsFrom(tag) ==
  IF HasAttr(tag, "node", "") /\ HasAttr(tag, "ver", "")
  THEN [node |-> Attr(tag, "node"), ver |-> Attr(tag, "ver"), hash |-> Attr(tag, "hash")]
  ELSE [node |-> "", ver |-> "", hash |-> ""]

CapsPaths == <<InStanza("presence", "c", "caps")>>

-----------------------------------------------------------------------------
(* RosterX: items to add, delete or modify.  Its path asks for no namespace, *)
(* so that it is read, empty, from every element of the name.                *)

RosterXActions == {"add", "delete", "modify"}

\* RosterItemBase::tag() and its reader.
RosterBaseTag(x) == TextKids(With(With(Tag("item"), "jid", x.jid), "name", x.name), "group", x.groups)
RosterBaseFrom(tag) ==
  [jid |-> Attr(tag, "jid"), name |-> Attr(tag, "name"), groups |-> Texts(tag, "group")]

RosterXItemTag(x) ==
  IF x.action \notin RosterXActions THEN NoTag ELSE With(RosterBaseTag(x), "action", x.action)
RosterXItemFrom(tag) ==
  RosterBaseFrom(tag) @@ [action |-> Known(RosterXActions, Attr(tag, "action"))]

RosterXTag(x) ==
  HoldingAll(Elem("x", "roster:x"), [i \in DOMAIN x.items |-> RosterXItemTag(x.items[i])])

RosterXFrom(tag) ==
  [items |-> IF IsElem(tag, "x", "roster:x")
             THEN [i \in DOMAIN tag.kids |-> RosterXItemFrom(tag.kids[i])] ELSE <<>>]

RosterXPaths == InAny(<<"message", "iq">>, "x", "")

-----------------------------------------------------------------------------
(* XHtmlIM: an element with a body is kept as it is. *)

XHtmlFrom(tag) ==
  [xhtml |-> IF KidsIn(tag, "body", "xhtml") # <<>> THEN tag ELSE NoTag]

XHtmlPaths == <<InStanza("message", "html", "xhtml-im")>>

=============================================================================
