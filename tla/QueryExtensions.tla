-------------------------- MODULE QueryExtensions --------------------------
(***************************************************************************)
(* The extensions of IQs: what the services ask and answer with.  As in    *)
(* MessageExtensions, each is written (tag()), read (newInstance()) and    *)
(* found by its paths (filterString()); Kept... says what of it survives.  *)
(***************************************************************************)
EXTENDS MessageExtensions
LOCAL INSTANCE SequencesExt

QueryPaths(xmlns) == <<InStanza("iq", "query", xmlns)>>

Names(tag) == {tag.kids[i].name : i \in DOMAIN tag.kids}

\* Fields in the order they are written, each with its text, empty or not.
FieldKids(tag, order, fields) ==
  FoldLeft(LAMBDA t, name : IF name \in DOMAIN fields
                            THEN Holding(t, Saying(Tag(name), fields[name])) ELSE t, tag, order)

FieldsIn(tag, order) ==
  [name \in Names(tag) \cap {order[i] : i \in DOMAIN order} |-> LastText(tag, name)]

-----------------------------------------------------------------------------
(* RosterManager::Query: RosterItemData. *)

RosterItemTag(x) ==
  IF x.remove THEN With(RosterBaseTag(x), "subscription", "remove")
  ELSE With(With(RosterBaseTag(x), "subscription", x.sub), "ask", x.ask)

\* An item to remove is known by its address only.
RosterItemFrom(tag) ==
  IF Attr(tag, "subscription") = "remove"
  THEN [jid |-> Attr(tag, "jid"), name |-> "", groups |-> <<>>, remove |-> TRUE, sub |-> "", ask |-> ""]
  ELSE RosterBaseFrom(tag) @@
       [remove |-> FALSE, sub |-> Attr(tag, "subscription"), ask |-> Attr(tag, "ask")]

RosterTag(x) ==
  HoldingAll(Elem("query", "roster"), [i \in DOMAIN x.items |-> RosterItemTag(x.items[i])])

RosterFrom(tag) ==
  [items |-> [i \in DOMAIN Kids(tag, "item") |-> RosterItemFrom(Kids(tag, "item")[i])]]

-----------------------------------------------------------------------------
(* Disco::Info and Disco::Items. *)

IdentityTag(x) ==
  IF x.category = "" \/ x.type = "" THEN NoTag
  ELSE With(With(With(Tag("identity"), "category", x.category), "type", x.type), "name", x.name)

IdentityFrom(tag) ==
  [category |-> Attr(tag, "category"), type |-> Attr(tag, "type"), name |-> Attr(tag, "name")]

InfoTag(x) ==
  LET t == HoldingAll(With(Elem("query", "info"), "node", x.node),
                      [i \in DOMAIN x.identities |-> IdentityTag(x.identities[i])])
      featured == HoldingAll(t, [i \in DOMAIN x.features |-> With(Tag("feature"), "var", x.features[i])])
  IN Holding(featured, FormTag(x.form))

InfoFrom(tag) ==
  LET features == SelectSeq(Kids(tag, "feature"), LAMBDA k : HasAttr(k, "var", ""))
  IN [node |-> Attr(tag, "node"),
      identities |-> [i \in DOMAIN Kids(tag, "identity") |-> IdentityFrom(Kids(tag, "identity")[i])],
      features |-> [i \in DOMAIN features |-> Attr(features[i], "var")],
      form |-> FormIn(First(KidsIn(tag, "x", "x:data")))]

DiscoItemTag(x) ==
  IF x.jid = "" THEN NoTag
  ELSE With(With(With(Tag("item"), "jid", x.jid), "node", x.node), "name", x.name)

DiscoItemFrom(tag) ==
  [jid |-> Attr(tag, "jid"), node |-> Attr(tag, "node"), name |-> Attr(tag, "name")]

ItemsTag(x) ==
  HoldingAll(With(Elem("query", "items"), "node", x.node),
             [i \in DOMAIN x.items |-> DiscoItemTag(x.items[i])])

ItemsFrom(tag) ==
  [node |-> Attr(tag, "node"),
   items |-> [i \in DOMAIN Kids(tag, "item") |-> DiscoItemFrom(Kids(tag, "item")[i])]]

-----------------------------------------------------------------------------
(* IOData: the payload of a command, by its type. *)

IoTypes == {"io-schemata-get", "input", "getStatus", "getOutput", "io-schemata-result", "output",
            "error", "status"}

NoIo == [type |-> "null", in |-> NoTag, out |-> NoTag, error |-> NoTag, desc |-> "",
         elapsed |-> -1, remaining |-> -1, percentage |-> -1, info |-> ""]

\* IOData::setIn(), setOut() and setError(): anything else is wrapped.
Wrapped(name, tag) ==
  IF tag = NoTag \/ (tag.name = name /\ Xmlns(tag) = "") THEN tag ELSE Holding(Tag(name), tag)

NumberKid(tag, name, n) == IF n >= 0 THEN Holding(tag, Saying(Tag(name), IntText(n))) ELSE tag

IoTag(x) ==
  LET t == With(Elem("iodata", "iodata"), "type", x.type)
      status == TextKid(NumberKid(NumberKid(NumberKid(Tag("status"), "elapsed", x.elapsed),
                          "remaining", x.remaining), "percentage", x.percentage), "information", x.info)
  IN CASE x.type = "input" -> Holding(t, x.in)
       [] x.type = "io-schemata-result" ->
            Holding(Holding(Holding(t, x.in), x.out), Saying(Tag("desc"), x.desc))
       [] x.type = "output" -> Holding(t, x.out)
       [] x.type = "error" -> Holding(t, x.error)
       [] x.type = "status" -> Holding(t, status)
       [] x.type \in IoTypes -> t
       [] OTHER -> NoTag

IoFrom(tag) ==
  LET type == Known(IoTypes, Attr(tag, "type"))
      status == IF type = "status" THEN Kid(tag, "status") ELSE NoTag
      NumberIn(name) == IF HasKid(status, name) THEN TextInt(KidText(status, name)) ELSE -1
  IN IF ~IsElem(tag, "iodata", "iodata") THEN [NoIo EXCEPT !.type = "invalid"]
     ELSE [type |-> type,
           in |-> IF type \in {"input", "io-schemata-result"} THEN Kid(tag, "in") ELSE NoTag,
           out |-> IF type \in {"output", "io-schemata-result"} THEN Kid(tag, "out") ELSE NoTag,
           error |-> IF type = "error" THEN Kid(tag, "error") ELSE NoTag,
           desc |-> IF type = "io-schemata-result" THEN KidText(tag, "desc") ELSE "",
           elapsed |-> NumberIn("elapsed"), remaining |-> NumberIn("remaining"),
           percentage |-> NumberIn("percentage"), info |-> KidText(status, "information")]

-----------------------------------------------------------------------------
(* Adhoc::Command *)

Actions == {"execute", "cancel", "prev", "next", "complete"}
NextActions == <<"prev", "next", "complete">>
CommandStati == {"executing", "completed", "canceled"}
Severities == {"info", "warn", "error"}

NoteTag(n) ==
  IF n.text = "" \/ n.severity \notin Severities THEN NoTag
  ELSE With(Saying(Tag("note"), n.text), "type", n.severity)

NoteFrom(tag) ==
  [severity |-> KnownOr(Severities, Attr(tag, "type"), "info"), text |-> tag.text]

\* Adhoc::Command::tag(): a response of several stages offers actions, and
\* names the one to execute on the command itself.
CommandTag(x) ==
  LET t == With(Elem("command", "commands"), "node", x.node)
      offered == FoldLeft(LAMBDA a, name : FlagKid(a, name, name \in x.actions), Tag("actions"), NextActions)
      staged == Holding(With(With(t, "status", IF x.status = "invalid" THEN "executing" ELSE x.status),
                             "execute", IF x.action = "invalid" THEN "complete" ELSE x.action), offered)
      single == With(With(t, "action", Written(Actions, x.action)),
                     "status", Written(CommandStati, x.status))
      session == With(IF x.actions = {} THEN single ELSE staged, "sessionid", x.sessionid)
      full == Holding(Holding(session, FormTag(x.form)), IoTag(x.io))
  IN IF x.node = "" THEN NoTag
     ELSE HoldingAll(full, [i \in DOMAIN x.notes |-> NoteTag(x.notes[i])])

CommandNotesPath == <<Step("command", ""), Step("note", "")>>

\* Adhoc::Command::Command( tag ): the action of several stages is looked for
\* among the actions, and the notes in the stanza's own element.
CommandFrom(doc, node) ==
  LET tag == At(doc, node)
      actions == Kid(tag, "actions")
      notes == FindTagList(doc, node, PathText(CommandNotesPath))
      form == First(KidsIn(tag, "x", "x:data"))
      io == IF form = NoTag THEN First(KidsIn(tag, "iodata", "iodata")) ELSE NoTag
  IN [node |-> Attr(tag, "node"), sessionid |-> Attr(tag, "sessionid"),
      status |-> Known(CommandStati, Attr(tag, "status")),
      action |-> IF actions = NoTag THEN KnownOr(Actions, Attr(tag, "action"), "execute")
                 ELSE KnownOr(Actions, Attr(actions, "action"), "complete"),
      actions |-> Names(actions) \cap {"prev", "next", "complete"},
      notes |-> [i \in DOMAIN notes |-> NoteFrom(At(doc, notes[i]))],
      form |-> FormIn(form), io |-> IF io = NoTag THEN NoIo ELSE IoFrom(io)]

CommandPaths == <<InStanza("iq", "command", "commands")>>

KeptCommand(x) ==
  [x EXCEPT !.notes = <<>>, !.form = KeptForm(@),
            !.action = IF x.actions # {} THEN "complete" ELSE IF @ = "invalid" THEN "execute" ELSE @,
            !.status = IF x.actions # {} /\ @ = "invalid" THEN "executing" ELSE @]

-----------------------------------------------------------------------------
(* Search::Query: a form, or the fields to search in, or what was found.  A *)
(* reader of fields learns which, not their values.                         *)

SearchFields == <<"first", "last", "nick", "email">>

SearchTag(x) ==
  LET t == Elem("query", "search")
      Item(r) == FieldKids(With(Tag("item"), "jid", r.jid), SearchFields, r.values)
  IN IF x.form # NoForm THEN Holding(t, FormTag(x.form))
     ELSE IF DOMAIN x.fields # {}
     THEN FieldKids(TextKid(t, "instructions", x.instructions), SearchFields, x.fields)
     ELSE HoldingAll(t, [i \in DOMAIN x.results |-> Item(x.results[i])])

SearchFrom(tag) ==
  [instructions |-> LastText(tag, "instructions"),
   fields |-> [name \in DOMAIN FieldsIn(tag, SearchFields) |-> ""],
   form |-> FormIn(First(KidsIn(tag, "x", "x:data"))),
   results |-> [i \in DOMAIN Kids(tag, "item") |->
                  [jid |-> Attr(Kids(tag, "item")[i], "jid"),
                   values |-> FieldsIn(Kids(tag, "item")[i], SearchFields)]]]

KeptSearch(x) ==
  [x EXCEPT !.form = KeptForm(@), !.fields = [name \in DOMAIN @ |-> ""]]

-----------------------------------------------------------------------------
(* Registration::Query *)

RegistrationFields == <<"username", "nick", "password", "name", "first", "last", "email", "address",
  "city", "state", "zip", "phone", "url", "date", "misc", "text">>

NoOob == [iqext |-> FALSE, url |-> "", desc |-> ""]

RegistrationTag(x) ==
  LET t == FlagKid(TextKid(Elem("query", "register"), "instructions", x.instructions),
                   "registered", x.reg)
  IN IF x.form # NoForm THEN Holding(t, FormTag(x.form))
     ELSE IF x.oob # NoOob THEN Holding(t, OobTag(x.oob))
     ELSE IF x.del THEN Holding(t, Tag("remove"))
     ELSE FieldKids(t, RegistrationFields, x.fields)

RegistrationFrom(tag) ==
  LET oob == First(KidsIn(tag, "x", "x:oob"))
  IN [instructions |-> LastText(tag, "instructions"), reg |-> HasKid(tag, "registered"),
      del |-> HasKid(tag, "remove"), fields |-> FieldsIn(tag, RegistrationFields),
      form |-> FormIn(First(KidsIn(tag, "x", "x:data"))),
      oob |-> IF oob = NoTag THEN NoOob ELSE OobFrom(oob)]

-----------------------------------------------------------------------------
(* PrivateXML::Query and LastActivity::Query. *)

PrivateTag(x) == Holding(Elem("query", "private"), x.xml)
PrivateFrom(tag) == [xml |-> First(tag.kids)]

LastTag(x) == Saying(With(Elem("query", "last"), "seconds", IntText(x.seconds)), x.status)
LastFrom(tag) ==
  [seconds |-> IF HasAttr(tag, "seconds", "") THEN TextInt(Attr(tag, "seconds")) ELSE -1,
   status |-> tag.text]
LastPaths == InAny(<<"iq", "presence">>, "query", "last")

-----------------------------------------------------------------------------
(* PrivacyManager::Query: one list with items, or the name of the default or *)
(* of the active one.  The kinds of stanzas of an item are a set.            *)

ListContexts == {"list", "default", "active"}
PrivacyTypes == {"jid", "group", "subscription"}
PacketKinds == {"message", "presence-in", "presence-out", "iq"}

PrivacyItemTag(item, order) ==
  LET packets == IF item.packets = PacketKinds THEN {} ELSE item.packets
      t == FoldLeft(LAMBDA i, kind : FlagKid(i, kind, kind \in packets), Tag("item"),
                    <<"message", "presence-in", "presence-out", "iq">>)
  IN With(With(With(With(t, "type", Written(PrivacyTypes, item.type)), "action", item.action),
               "value", item.value), "order", IntText(order))

PrivacyTag(x) ==
  LET t == Elem("query", "privacy")
      list == HoldingAll(With(Tag(x.context), "name", x.name),
                         [i \in DOMAIN x.items |-> PrivacyItemTag(x.items[i], i)])
  IN IF x.context \in ListContexts THEN Holding(t, list) ELSE t

PrivacyItemFrom(tag) ==
  [type |-> Known(PrivacyTypes, Attr(tag, "type")),
   action |-> KnownOr({"allow", "deny"}, Attr(tag, "action"), "allow"),
   packets |-> Names(tag) \cap PacketKinds, value |-> Attr(tag, "value")]

\* The items of all lists together, in the order they are written.
PrivacyFrom(tag) ==
  LET lists == Kids(tag, "list")
      Items(list) == [i \in DOMAIN list.kids |-> PrivacyItemFrom(list.kids[i])]
  IN [default |-> Attr(Kid(tag, "default"), "name"), active |-> Attr(Kid(tag, "active"), "name"),
      names |-> [i \in DOMAIN lists |-> Attr(lists[i], "name")],
      items |-> FlattenSeq([i \in DOMAIN lists |-> Items(lists[i])])]

\* A rule for every kind of stanza comes back as a rule for none.
KeptPrivacy(x) ==
  LET Kept(item) == [item EXCEPT !.packets = IF @ = PacketKinds THEN {} ELSE @]
      NameOf(context) == IF x.context = context THEN x.name ELSE ""
  IN [default |-> NameOf("default"), active |-> NameOf("active"),
      names |-> IF x.context = "list" THEN <<x.name>> ELSE <<>>,
      items |-> IF x.context = "list" THEN [i \in DOMAIN x.items |-> Kept(x.items[i])] ELSE <<>>]

-----------------------------------------------------------------------------
(* FlexibleOffline::Offline: the reader takes nothing from it. *)

OfflineTag(x) ==
  LET t == Elem("offline", "offline")
      Item(node, action) == With(With(Tag("item"), "action", action), "node", node)
      action == IF x.request THEN "view" ELSE "remove"
  IN IF x.msgs = <<>> THEN Holding(t, Tag(IF x.request THEN "fetch" ELSE "purge"))
     ELSE HoldingAll(t, [i \in DOMAIN x.msgs |-> Item(x.msgs[i], action)])

OfflinePaths == <<InStanza("iq", "offline", "offline")>>
=============================================================================
