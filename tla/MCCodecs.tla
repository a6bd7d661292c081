------------------------------ MODULE MCCodecs ------------------------------
(* What is between the objects of an application and the bytes of a stream,  *)
(* for TLC: elements that are edited and printed, the parser fed in pieces,  *)
(* paths asked of documents, stanzas with their extensions, digests and addresses, *)
(* the bytes of an in-band stream in stanzas that get lost or come back, and *)
(* two threads that write stanzas to one connection.                         *)
(* A behaviour is one of them, chosen first, while the others rest.          *)
EXTENDS StanzaWire, InBandBytestream, StreamManagement, FiniteSets

VARIABLES part, tree, edits, written, taken, parser, asked, digest, jid

treeVars == <<tree, edits>>
pieceVars == <<written, taken, parser>>

-----------------------------------------------------------------------------
(* Stanzas and extensions. *)

Iq == {"iq"}
Msg == {"message"}
Pres == {"presence"}

S(kind, in, data) == [kind |-> kind, in |-> in, data |-> data]
\* The same kind with each of a sequence of data.
Each1(kind, in, list) == [i \in DOMAIN list |-> S(kind, in, list[i])]

To == [to |-> "b", from |-> "a", id |-> "1"]
NoId == [to |-> "b", from |-> "", id |-> ""]

Chat == To @@ [kind |-> "message", subtype |-> "chat", thread |-> "t",
               bodies |-> [l \in {"", "de"} |-> "text-" \o l], subjects |-> NoTexts]
Normal == To @@ [kind |-> "message", subtype |-> "normal", thread |-> "",
                 bodies |-> ("" :> "hi"), subjects |-> ("en" :> "s" @@ "de" :> "d")]

SomeStanzas ==
  <<To @@ [kind |-> "iq", subtype |-> "set"], To @@ [kind |-> "iq", subtype |-> "result"],
    NoId @@ [kind |-> "iq", subtype |-> "invalid"], Chat, Normal,
    NoId @@ [kind |-> "message", subtype |-> "invalid", bodies |-> NoTexts, subjects |-> NoTexts, thread |-> ""],
    To @@ [kind |-> "presence", subtype |-> "xa", priority |-> SetPriority(200), stati |-> ("" :> "s")],
    NoId @@ [kind |-> "presence", subtype |-> "available", priority |-> SetPriority(-200),
             stati |-> ("de" :> "s" @@ "en" :> "t")],
    To @@ [kind |-> "presence", subtype |-> "unavailable", priority |-> 0, stati |-> NoTexts],
    To @@ [kind |-> "subscription", subtype |-> "subscribe", stati |-> ("en" :> "please")]>>

Payload == Saying(Elem("any", "ns"), "p")

TextField == [type |-> "text-single", name |-> "f", label |-> "l", required |-> TRUE, desc |-> "d",
              values |-> <<"v", "w">>, options |-> <<>>]
ListField == [TextField EXCEPT !.type = "list-multi", !.required = FALSE, !.options = <<<<"o", "1">>, <<"", "2">>>>]
YesField == [TextField EXCEPT !.type = "boolean", !.values = <<"true">>]
PlainField == [TextField EXCEPT !.type = "none", !.values = <<>>, !.options = <<<<"o", "1">>>>]
BadField == [TextField EXCEPT !.type = "invalid"]

Form == [NoForm EXCEPT !.type = "submit", !.title = "t", !.instructions = <<"i", "j">>,
                       !.fields = <<TextField, BadField, ListField>>]
Table == [NoForm EXCEPT !.type = "result", !.reported = <<PlainField>>,
                        !.items = <<<<YesField>>, <<TextField, BadField>>>>]
BadForm == [Form EXCEPT !.type = "invalid"]

FormSamples ==
  Each1("form", Msg, <<Form, Table, BadForm>>)
  \o Each1("featureneg", Iq \cup Msg, <<[form |-> Form], [form |-> NoForm], [form |-> BadForm]>>)

Rules == <<[condition |-> "deliver", action |-> "drop", value |-> "stored"],
           [condition |-> "expireAt", action |-> "alert", value |-> "date"]>>

Delay == [from |-> "f", stamp |-> "s", reason |-> "r"]

Forwarded(delay, stanza, exts) == [delay |-> delay, stanza |-> stanza, exts |-> exts]
NotForwarded == [delay |-> NoDelay, stanza |-> NoTag, exts |-> <<>>]
Inner == <<S("chatstate", Msg, [type |-> "gone"]), S("encrypted", Msg, [text |-> "e"])>>

MessageSamples ==
  Each1("amp", Msg, <<[rules |-> Rules, from |-> "f", to |-> "t", status |-> "alert", perhop |-> TRUE],
                      [rules |-> <<>>, from |-> "", to |-> "", status |-> "invalid", perhop |-> FALSE]>>)
  \o Each1("attention", Msg, <<[type |-> "attention"]>>)
  \o Each1("chatstate", Msg, <<[type |-> "composing"], [type |-> "invalid"]>>)
  \o Each1("receipt", Msg, <<[type |-> "request", id |-> ""], [type |-> "received", id |-> "1"]>>)
  \o Each1("nickname", Msg \cup Pres, <<[text |-> "n"], [text |-> ""]>>)
  \o Each1("encrypted", Msg, <<[text |-> "e"]>>) \o Each1("signed", Msg \cup Pres, <<[text |-> "g"], [text |-> ""]>>)
  \o Each1("delay", Msg \cup Pres, <<Delay, [Delay EXCEPT !.reason = ""], NoDelay>>)
  \o Each1("forward", Msg \cup Iq, <<Forwarded(Delay, Chat, Inner), Forwarded(NoDelay, SomeStanzas[1], <<>>)>>)
  \o Each1("carbons", Msg, <<Forwarded(NoDelay, Normal, Inner) @@ [type |-> "sent"],
                             NotForwarded @@ [type |-> "received"], NotForwarded @@ [type |-> "private"],
                             NotForwarded @@ [type |-> "invalid"]>>)
  \o Each1("event", Msg, <<[events |-> {"offline", "composing"}, id |-> ""],
                           [events |-> {"delivered"}, id |-> "1"], [events |-> {}, id |-> ""]>>)
  \o Each1("oob", Msg \cup Pres, <<[iqext |-> FALSE, url |-> "u", desc |-> "d"], [iqext |-> FALSE, url |-> "", desc |-> "d"]>>)
  \o Each1("oob", Iq, <<[iqext |-> TRUE, url |-> "u", desc |-> ""]>>)
  \o Each1("shim", Msg \cup Pres, <<[headers |-> ("h" :> "1" @@ "g" :> "")], [headers |-> <<>>]>>)
  \o Each1("rosterx", Msg \cup Iq,
       <<[items |-> <<[action |-> "add", jid |-> "j", name |-> "n", groups |-> <<"g", "h">>],
                      [action |-> "delete", jid |-> "k", name |-> "", groups |-> <<>>]>>], [items |-> <<>>]>>)
  \o Each1("xhtml", Msg, <<[xhtml |-> Holding(Elem("html", "xhtml-im"), Elem("body", "xhtml"))]>>)
  \o Each1("vcardupdate", Pres, <<[notReady |-> TRUE, noImage |-> TRUE, hash |-> ""],
                                  [notReady |-> FALSE, noImage |-> TRUE, hash |-> ""],
                                  [notReady |-> FALSE, noImage |-> FALSE, hash |-> "h"]>>)
  \o Each1("caps", Pres, <<[node |-> "n", ver |-> "v", hash |-> "sha-1"], [node |-> "", ver |-> "", hash |-> ""]>>)
  \o Each1("error", Msg \cup Pres \cup Iq,
       <<[type |-> "cancel", error |-> "conflict", texts |-> ("de" :> "d" @@ "en" :> "e"), appError |-> Payload],
         [type |-> "wait", error |-> "gone", texts |-> NoTexts, appError |-> NoTag],
         [type |-> "wait", error |-> "invalid", texts |-> NoTexts, appError |-> NoTag]>>)

RosterItems ==
  <<[jid |-> "j", name |-> "n", groups |-> <<"g">>, remove |-> FALSE, sub |-> "both", ask |-> "subscribe"],
    [jid |-> "k", name |-> "", groups |-> <<>>, remove |-> TRUE, sub |-> "", ask |-> ""]>>

Disco == [node |-> "n", features |-> <<"f", "g">>, form |-> Form,
          identities |-> <<[category |-> "c", type |-> "t", name |-> ""]>>]

Io == [NoIo EXCEPT !.type = "status", !.elapsed = 0, !.percentage = 50, !.info = "i"]
Schema == [NoIo EXCEPT !.type = "io-schemata-result", !.in = Wrapped("in", Payload),
                       !.out = Wrapped("out", Tag("out")), !.desc = "d"]

Command == [node |-> "n", sessionid |-> "s", status |-> "executing", action |-> "next", actions |-> {"next", "complete"},
            notes |-> <<[severity |-> "warn", text |-> "t"]>>, form |-> Form, io |-> NoIo]
Simple == [Command EXCEPT !.actions = {}, !.action = "cancel", !.form = NoForm, !.notes = <<>>]

Query(x) == [instructions |-> "i", fields |-> ("first" :> "f"), form |-> NoForm, results |-> x]
Reply == [instructions |-> "", fields |-> <<>>, form |-> NoForm,
           results |-> <<[jid |-> "j", values |-> ("nick" :> "n" @@ "email" :> "")]>>]
Account == [instructions |-> "i", reg |-> TRUE, del |-> FALSE, oob |-> NoOob, form |-> NoForm,
             fields |-> ("username" :> "u" @@ "zip" :> "")]

PrivacyList == [context |-> "list", name |-> "l",
  items |-> <<[type |-> "jid", action |-> "deny", packets |-> PacketKinds, value |-> "v"],
              [type |-> "invalid", action |-> "allow", packets |-> {"iq", "presence-in"}, value |-> ""]>>]

Photo == WithImage(NoPhoto, "t", "b")
Card1 == AddTelephone(AddEmail(SetField(SetField(NewVCard, "FN", "n"), "SORT_STRING", "s"), "u", {"WORK", "PREF"}), "1", {"FAX"})
Card == AddLabel(AddAddress(SetName([Card1 EXCEPT !.photo = Photo, !.logo = WithUri(Photo, "u"), !.class = "PRIVATE"],
                   "FAMILY" :> "f" @@ "GIVEN" :> ""), "STREET" :> "s", {"INTL", "DOM"}), <<"l">>, {"HOME"})
FullCard == SetOrganization(SetGeo(SetField(Card, "PRODID", "me"), "1", "2"), "o", <<"x", "y">>)

QuerySamples ==
  Each1("bind", Iq, <<[bind |-> TRUE, resource |-> "r", jid |-> ""], [bind |-> TRUE, resource |-> "", jid |-> "j"],
                      [bind |-> FALSE, resource |-> "r", jid |-> ""]>>)
  \o Each1("nonsasl", Iq, <<[user |-> "u", pwd |-> "p", resource |-> "r", digest |-> TRUE],
                            [user |-> "u", pwd |-> "", resource |-> "r", digest |-> TRUE]>>)
  \o Each1("ping", Iq, <<<<>>>>)
  \o Each1("roster", Iq, <<[items |-> RosterItems], [items |-> <<>>]>>)
  \o Each1("info", Iq, <<Disco, [Disco EXCEPT !.form = NoForm, !.node = ""]>>)
  \o Each1("items", Iq, <<[node |-> "", items |-> <<[jid |-> "j", node |-> "n", name |-> ""]>>]>>)
  \o Each1("version", Iq, <<[name |-> "n", version |-> "v", os |-> ""]>>)
  \o Each1("command", Iq, <<Command, Simple, [Simple EXCEPT !.node = ""], [Simple EXCEPT !.io = Io, !.status = "invalid"],
                            [Simple EXCEPT !.io = Schema, !.action = "invalid"],
                            [Command EXCEPT !.status = "invalid", !.form = NoForm,
                                            !.io = [NoIo EXCEPT !.type = "output", !.out = Wrapped("out", Payload)]]>>)
  \o Each1("search", Iq, <<Query(<<>>), Reply, [Reply EXCEPT !.results = <<>>, !.form = Form]>>)
  \o Each1("registration", Iq, <<Account, [Account EXCEPT !.fields = <<>>, !.form = Form],
       [Account EXCEPT !.fields = <<>>, !.del = TRUE, !.reg = FALSE],
       [Account EXCEPT !.fields = <<>>, !.oob = [iqext |-> FALSE, url |-> "u", desc |-> ""]]>>)
  \o Each1("private", Iq, <<[xml |-> Payload]>>)
  \o Each1("last", Iq \cup Pres, <<[seconds |-> 42, status |-> "s"], [seconds |-> 0, status |-> ""]>>)
  \o Each1("privacy", Iq, <<PrivacyList, [PrivacyList EXCEPT !.context = "active"],
                            [PrivacyList EXCEPT !.context = "default", !.items = <<>>],
                            [PrivacyList EXCEPT !.context = "invalid"]>>)
  \o Each1("offline", Iq, <<[request |-> TRUE, msgs |-> <<"1">>], [request |-> FALSE, msgs |-> <<>>]>>)
  \o Each1("vcard", Iq, <<NewVCard, Card, FullCard, [FullCard EXCEPT !.photo = WithImage(@, "", "")]>>)

Admin == [role |-> "visitor", affiliation |-> "invalid",
  list |-> <<[jid |-> "j", nick |-> "", role |-> "invalid", affiliation |-> "invalid", reason |-> "r"],
             [jid |-> "", nick |-> "n", role |-> "none", affiliation |-> "invalid", reason |-> ""]>>]
Owner == [type |-> "destroy", jid |-> "j", reason |-> "r", pwd |-> "p", form |-> NoForm]
Invite == [NoUser EXCEPT !.operation = "inviteTo", !.jid = "j", !.reason = "r", !.continues = TRUE, !.thread = "t"]
Member == [NoUser EXCEPT !.affiliation = "member", !.role = "visitor", !.jid = "j", !.actor = "a",
                         !.flags = {"110", "332"}]
Enter == [historyType |-> "maxchars", historyValue |-> 5, historySince |-> Null, password |-> "p"]

RoomSamples ==
  Each1("mucadmin", Iq, <<Admin, [Admin EXCEPT !.role = "invalid", !.affiliation = "owner"]>>)
  \o Each1("mucowner", Iq, <<Owner, [Owner EXCEPT !.type = "sendConfig", !.form = Form, !.jid = "", !.reason = "", !.pwd = ""],
       [type |-> "incoming", jid |-> "", reason |-> "", pwd |-> "", form |-> NoForm]>>)
  \o Each1("mucuser", Msg \cup Pres, <<Invite, [Invite EXCEPT !.operation = "declineTo", !.password = "p"],
       [Invite EXCEPT !.operation = "declineFrom"], [Invite EXCEPT !.operation = "inviteFrom", !.continues = FALSE, !.thread = Null],
       Member, [Member EXCEPT !.role = "invalid", !.jid = Null, !.actor = Null],
       [NoUser EXCEPT !.del = TRUE, !.alternate = "c", !.reason = "r"]>>)
  \o Each1("muc", Pres, <<Enter, [Enter EXCEPT !.historyType = "unknown", !.password = Null]>>)
  \o Each1("unique", Iq, <<[text |-> ""], [text |-> "room"]>>)

Owned(ctx) == [NoOwned EXCEPT !.ctx = ctx, !.node = "n"]
Sub == [jid |-> "j", type |-> "pending", subid |-> "s"]
Pub(ctx) == [NoPubSub EXCEPT !.ctx = ctx, !.node = "n"]
Thing == [id |-> "i", payload |-> Payload]
Event(type) == [NoEvent EXCEPT !.type = type, !.node = "n"]
Told(name) == [retract |-> name = "retract", item |-> "i", payload |-> Holding(With(Tag(name), "id", "i"), Payload)]

PubSubSamples ==
  Each1("pubsubowner", Iq, <<Owned("DeleteNode"), Owned("PurgeNodeItems"), Owned("GetNodeConfig"), Owned("DefaultNodeConfig"),
       [Owned("SetNodeConfig") EXCEPT !.form = Form], [Owned("SetSubscriberList") EXCEPT !.subs = <<Sub>>],
       [Owned("SetAffiliateList") EXCEPT !.affs = <<[jid |-> "j", type |-> "owner"]>>], NoOwned>>)
  \o Each1("pubsub", Iq, <<[NoPubSub EXCEPT !.ctx = "GetSubscriptionList", !.subs = ("n" :> <<Sub, Sub>> @@ "m" :> <<Sub>>)],
       [NoPubSub EXCEPT !.ctx = "GetAffiliationList", !.affs = ("n" :> "owner" @@ "m" :> "none")],
       [NoPubSub EXCEPT !.ctx = "GetSubscriptionList"],
       [Pub("Subscription") EXCEPT !.jid = "j", !.df = Form, !.optionsNode = "o"], [Pub("Subscription") EXCEPT !.jid = "j"],
       [Pub("Unsubscription") EXCEPT !.jid = "j", !.subid = "s"],
       [Pub("SetSubscriptionOptions") EXCEPT !.jid = "j", !.subid = "s", !.df = Form, !.optionsNode = "o"],
       [Pub("RequestItems") EXCEPT !.subid = "s", !.maxItems = 3, !.items = <<[Thing EXCEPT !.payload = NoTag]>>],
       [Pub("PublishItem") EXCEPT !.items = <<Thing, Thing>>],
       [Pub("PublishItem") EXCEPT !.items = <<Thing>>, !.df = Form],
       [Pub("DeleteItem") EXCEPT !.items = <<[Thing EXCEPT !.payload = NoTag]>>, !.notify = TRUE],
       [Pub("CreateNode") EXCEPT !.df = Form], NoPubSub>>)
  \o Each1("pubsubevent", Msg, <<[Event("collection") EXCEPT !.config = FormTag(Form)],
       [Event("configuration") EXCEPT !.config = FormTag(Form)], Event("delete"),
       [Event("items") EXCEPT !.ops = <<Told("item")>>, !.hasIds = TRUE, !.ids = <<"1", "2">>],
       [Event("items") EXCEPT !.ops = <<Told("item"), Told("retract")>>, !.collection = "c"],
       [Event("subscription") EXCEPT !.jid = "j", !.subscribed = TRUE], NoEvent>>)

File == [name |-> "n", desc |-> "", date |-> "d", size |-> 100, algo |-> "md5", hash |-> "h", range |-> "yes", offset |-> 7]
Transfer == [plugin |-> "transfer", type |-> "offer",
             files |-> <<File, [File EXCEPT !.range = "no", !.offset = 0, !.size = -1], [File EXCEPT !.offset = 0]>>]
Candidate == [texts |-> [n \in CandidateTexts |-> IF n = "network" THEN "" ELSE n],
              numbers |-> [n \in CandidateNumbers |-> 5], type |-> "relay"]
Transport == [plugin |-> "transport", pwd |-> "p", ufrag |-> "", candidates |-> <<Candidate, [Candidate EXCEPT !.type = "host"]>>]
Content == [plugin |-> "content", name |-> "c", creator |-> "initiator", senders |-> "both", disposition |-> "session",
            plugins |-> <<Transport, Transfer>>]
Why == [plugin |-> "reason", reason |-> "alternative-session", sid |-> "s", text |-> "t"]
Session(action, plugins) ==
  [action |-> action, sid |-> "s", initiator |-> "a", responder |-> "b", plugins |-> plugins]

SessionSamples ==
  Each1("jingle", Iq, <<Session("session-initiate", <<Why, Content, [Content EXCEPT !.plugins = <<Transport>>]>>),
       Session("session-accept", <<Content>>), Session("session-terminate", <<Why>>),
       Session("session-info", <<[Transfer EXCEPT !.type = "abort"], [Transfer EXCEPT !.type = "checksum"]>>)>>)
  \o Each1("si", Iq, <<[id |-> "i", mimetype |-> "m", profile |-> "p", tag1 |-> Elem("file", "si-ft"),
                        tag2 |-> FeatureNegTag([form |-> Form])],
                       [id |-> "i", mimetype |-> "", profile |-> "", tag1 |-> NoTag, tag2 |-> FeatureNegTag([form |-> Table])]>>)
  \o Each1("s5b", Iq, <<[type |-> "hosts", sid |-> "s", jid |-> "", mode |-> "udp",
                         hosts |-> <<[jid |-> "j", host |-> "h", port |-> 1], [jid |-> "k", host |-> "g", port |-> 0]>>],
       [type |-> "hosts", sid |-> "s", jid |-> "", mode |-> "tcp", hosts |-> <<>>],
       [type |-> "used", sid |-> "s", jid |-> "j", mode |-> "tcp", hosts |-> <<>>],
       [type |-> "activate", sid |-> "", jid |-> "j", mode |-> "udp", hosts |-> <<>>]>>)
  \o Each1("ibb", Iq, <<[type |-> "open", sid |-> "s", data |-> "", seq |-> 0, blockSize |-> 100],
                        [type |-> "close", sid |-> "s", data |-> "", seq |-> 0, blockSize |-> 0]>>)
  \o Each1("ibb", Iq \cup Msg, <<[type |-> "data", sid |-> "s", data |-> "x", seq |-> 2, blockSize |-> 0]>>)

SomeSamples ==
  FormSamples \o MessageSamples \o QuerySamples \o RoomSamples \o PubSubSamples \o SessionSamples

-----------------------------------------------------------------------------
(* Elements, the parser and paths. *)

Elems == INSTANCE Elements

\* <i t='&apos;&lt;' xmlns='u'/>, and <p:b xmlns:p='u'>x&amp;<c/> y</p:b>.
Quoted ==
  Elems!SetXmlns(Elems!AddAttribute(Elems!NewTag(<<"i", "q">>), <<>>, Elems!Attribute(<<>>, <<"t">>, <<"'", "<">>)),
                 <<>>, <<"u">>, <<>>)
Prefixed ==
  LET b == Elems!SetPrefix(Elems!SetXmlns(Elems!NewTag(<<"b">>), <<>>, <<"u">>, <<"p">>), <<"p">>)
  IN Elems!AddCData(Elems!AddChild(Elems!AddCData(b, <<"x", "&">>), Elems!NewTag(<<"c">>)), <<" ", "y">>)

Streams ==
  {<<Quoted, Elems!NewTag(<<"r">>)>>, <<Elems!AddChild(Quoted, Prefixed)>>,
   <<Elems!AddCData(Elems!NewTag(<<"m">>), <<"\"", ">">>),
     Elems!AddChild(Elems!NewTag(<<"m">>), Elems!AddChild(Elems!NewTag(<<"n">>), Quoted))>>}

\* A section of CDATA, what other writers than gloox do, and characters by number.
Foreign ==
  {<<"<", "a", ">", "<", "!", "[", "&", "]", "]", "<", "]", "]", ">", "<", "/", "a", ">">>,
   <<" ", "<", "a", " ", "t", "=", "\"", "'", "\"", " ", "/", ">", " ", "<", "b", "/", ">">>,
   <<"<", "a", ">", "&", "#", "9", "7", ";", "&", "#", "x", "6", "1", ";", "<", "/", "a", ">">>}

Edited == INSTANCE TagTree WITH
  TagNames <- {<<"a">>, <<"b">>}, TagTexts <- {<<"x">>, <<"&", "'">>, <<"^">>}, TagPrefixes <- {<<>>, <<"p">>},
  MaxNodes <- 2, MaxEdits <- 4

Pieces == INSTANCE StreamPieces WITH
  Stanzas <- Streams, Raw <- Foreign, Sizes <- 1..4, Damage <- TRUE, Reconnects <- FALSE, sent <- taken

\* Documents with an attribute, a namespace and the same name at several depths.
Marked(name, value) == With(Tag(name), "t", value)
Papers ==
  {Tag("m"), Holding(Holding(Tag("m"), Marked("a", "1")), Holding(Tag("a"), Marked("m", "2"))),
   Holding(Marked("a", "1"), Holding(Tag("a"), Holding(Marked("a", "2"), Tag("m"))))}

Steps == [axis : {"child", "below"}, name : {"m", "a", "*"}, tests : {<<>>, <<<<"t", "">>>>, <<<<"t", "1">>>>}]
Paths == {<<s>> : s \in Steps} \cup {<<s, r>> : s, r \in Steps}
\* Every path, and the unions of one with a few.
Questions == {<<path>> : path \in Paths}
  \cup {<<<<s>>, path>> : s \in {r \in Steps : r.tests = <<>>}, path \in {<<r>> : r \in Steps}}

(* Expressions evaluated on them (Tag::findTagList(), tag.cpp). *)
AskPath(doc, node, paths) ==
  asked' = [doc |-> doc, node |-> node, paths |-> paths, found |-> FindTagList(doc, node, UnionText(paths))]

PathsNext ==
  \/ asked = <<>> /\ \E doc \in Papers, paths \in Questions : \E node \in All(doc) : AskPath(doc, node, paths)
  \/ asked # <<>> /\ asked' = <<>>

\* findTagList() finds what the expression means, each element once, wherever it
\* is asked: from the root when the expression begins with a single slash, from
\* the element itself when it begins with two.
PathsFind ==
  LET base == IF asked.paths[1][1].axis = "child" THEN <<>> ELSE asked.node
      found == {asked.found[i] : i \in DOMAIN asked.found}
  IN asked # <<>> =>
       /\ found = Meant(asked.doc, base, asked.paths)
       /\ Cardinality(found) = Len(asked.found)

-----------------------------------------------------------------------------
(* Digests, of what the tests of src/tests/md5 and src/tests/sha take, of messages *)
(* that fill their blocks, and of one that follows half a gigabyte.                *)

Same(n) == [i \in 1..n |-> 120]
Rising(n) == [i \in 1..n |-> i]
\* "The quick brown fox jumps over the lazy dog".
Fox == <<84, 104, 101, 32, 113, 117, 105, 99, 107, 32, 98, 114, 111, 119, 110, 32, 102, 111, 120, 32,
         106, 117, 109, 112, 115, 32, 111, 118, 101, 114, 32, 116, 104, 101, 32, 108, 97, 122, 121, 32,
         100, 111, 103>>

Tested(kind, message, halves) == [kind |-> kind, message |-> message, digest |-> halves]
TestedDigests ==
  {Tested("md5", <<>>, <<\hd41d, \h8cd9, \h8f00, \hb204, \he980, \h0998, \hecf8, \h427e>>),
   Tested("md5", Fox, <<\h9e10, \h7d9d, \h372b, \hb682, \h6bd8, \h1d35, \h42a4, \h19d6>>),
   Tested("sha", <<>>, <<\hda39, \ha3ee, \h5e6b, \h4b0d, \h3255, \hbfef, \h9560, \h1890, \hafd8, \h0709>>),
   Tested("sha", Fox, <<\h2fd4, \he1c6, \h7a2d, \h28fc, \hed84, \h9ee1, \hbb76, \he739, \h1b93, \heb12>>),
   Tested("sha", Same(55), <<\hcef7, \h34ba, \h81a0, \h2447, \h9e09, \heb5a, \h75b6, \hddae, \h62e6, \habf1>>),
   Tested("sha", Same(56), <<\h9013, \h0536, \h7c25, \h9952, \hf4e7, \haf83, \h23f4, \h80d5, \h9f81, \h335b>>)}

Digested == INSTANCE Digests WITH
  Messages <- {<<>>, Fox, Same(55), Same(56), Rising(128)}, PieceLengths <- {1, 19, 64, 119},
  Before <- {0, 2^29 - 64}, Late <- {"sha"}, MaxRounds <- 2, Stated <- TestedDigests

-----------------------------------------------------------------------------
(* Addresses. *)

Jids == INSTANCE Jid WITH
  JidTexts <- UNION {[1..n -> {"a", "@", "/"}] : n \in 1..5} \cup {<<"A", "@", "A", "/", "A">>},
  Users <- {<<"b">>, <<"A">>, <<"b", "c", "d">>, <<>>}, Servers <- {<<"s">>, <<"s", "t", "u">>},
  Resources <- {<<"r">>, <<"@", "/">>, <<"r", "s", "t">>}, PortionSize <- 2, Reuses <- FALSE

-----------------------------------------------------------------------------
(* One of them at a time. *)

RestWire == UNCHANGED wireVars
RestBlocks == UNCHANGED ibbVars
RestSenders == UNCHANGED vars
RestTree == UNCHANGED treeVars
RestPieces == UNCHANGED pieceVars

CodecsInit ==
  /\ part \in {"tree", "pieces", "paths", "wire", "digest", "jid", "blocks", "senders"}
  /\ WireInit /\ IbbInit /\ Init /\ Edited!Init /\ Pieces!Init /\ asked = <<>> /\ Digested!DigestsInit /\ Jids!JidInit
  /\ part # "tree" => tree.name = <<"a">>
  /\ part # "jid" => jid.idn
  /\ part # "digest" => digest.kind = "md5" /\ digest.message = <<>> /\ digest.before = 0
  /\ part # "pieces" => written = Pieces!Text(<<Quoted, Elems!NewTag(<<"r">>)>>)

RestBoth == UNCHANGED <<digest, jid>>

CodecsNext ==
  /\ UNCHANGED part /\ (part # "blocks" => RestBlocks) /\ (part # "senders" => RestSenders)
  /\ \/ part = "tree" /\ Edited!Next /\ RestWire /\ RestPieces /\ RestBoth /\ UNCHANGED asked
     \/ part = "pieces" /\ Pieces!Next /\ RestWire /\ RestTree /\ RestBoth /\ UNCHANGED asked
     \/ part = "paths" /\ PathsNext /\ RestWire /\ RestTree /\ RestPieces /\ RestBoth
     \/ part = "wire" /\ WireNext /\ RestTree /\ RestPieces /\ RestBoth /\ UNCHANGED asked
     \/ part = "blocks" /\ IbbNext /\ RestWire /\ RestTree /\ RestPieces /\ RestBoth /\ UNCHANGED asked
     \/ part = "senders" /\ Next /\ RestWire /\ RestTree /\ RestPieces /\ RestBoth /\ UNCHANGED asked
     \/ /\ part = "digest" /\ Digested!DigestsNext
        /\ RestWire /\ RestTree /\ RestPieces /\ UNCHANGED <<asked, jid>>
     \/ /\ part = "jid" /\ Jids!JidNext
        /\ RestWire /\ RestTree /\ RestPieces /\ UNCHANGED <<asked, digest>>

CodecsSpec == CodecsInit /\ [][CodecsNext]_<<wireVars, ibbVars, vars, part, treeVars, pieceVars, asked, digest, jid>>

\* Whatever was done to an element, its lists agree, its copy prints the same and
\* equals it unless a list of children was emptied, and what it prints is read as
\* what was printed (tag.cpp:249-302, 424-495, 668-797); an expression finds what
\* it means, each element once (tag.cpp:811-1370).
TagsSound == (part = "tree" => Edited!TagsSound) /\ (part = "paths" => PathsFind)

\* "A deep copy" of an element (tag.h:529) equals it; not when its children were
\* removed again: operator==() wants the same lists, and clone() makes none for
\* the children there are not (tag.cpp:269-282, 694-709).
CopyEqual == part = "tree" => Edited!CopyEqual

\* However the connection cuts a stream, whole or damaged, the parser hands over
\* the same elements (parser.cpp:36-162, 164-645), and in whatever pieces a message
\* is fed, its digest is the one of the message (md5.cpp:373-459, sha.cpp:89-247);
\* an address put together from its parts is read as itself (jid.cpp:21-79).
PiecesJoin ==
  /\ part = "pieces" => Pieces!PiecesParse
  /\ part = "digest" => Digested!DigestsFollow /\ Digested!Base64Keeps
  /\ part = "jid" => Jids!JidSound /\ Jids!EscapesKeep
=============================================================================
