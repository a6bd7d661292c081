----------------------------- MODULE MucStanzas -----------------------------
(***************************************************************************)
(* The extensions of a room (XEP-0045): MUC, MUCUser, MUCAdmin and         *)
(* MUCOwner of MUCRoom, and Unique of UniqueMUCRoom.                       *)
(***************************************************************************)
EXTENDS QueryExtensions
LOCAL INSTANCE SequencesExt

Affiliations == {"none", "outcast", "member", "owner", "admin"}
Roles == {"none", "visitor", "participant", "moderator"}

\* A pointer to a string, which may be null.
Null == "null"
PtrAttr(tag, attr, pointer) == IF pointer = Null THEN tag ELSE With(tag, attr, pointer)
PtrKid(tag, name, pointer) ==
  IF pointer = Null THEN tag ELSE Holding(tag, Saying(Tag(name), pointer))
AttrPtr(tag, attr) == IF HasAttr(tag, attr, "") THEN Attr(tag, attr) ELSE Null
KidPtr(tag, name) == IF HasKid(tag, name) THEN KidText(tag, name) ELSE Null

-----------------------------------------------------------------------------
(* MUCRoom::MUCAdmin: items with a role or an affiliation of their own, or *)
(* the one of the query.                                                   *)

AdminTag(x) ==
  LET Own(value, general) == IF value # "invalid" THEN value ELSE general
      Item(i) == With(With(With(With(Tag("item"), "jid", i.jid), "nick", i.nick),
                           "role", Written(Roles, Own(i.role, x.role))),
                      "affiliation", Written(Affiliations, Own(i.affiliation, x.affiliation)))
      t == Elem("query", "muc#admin")
  IN IF x.role = "invalid" /\ x.affiliation = "invalid" THEN t
     ELSE HoldingAll(t, [n \in DOMAIN x.list |-> TextKid(Item(x.list[n]), "reason", x.list[n].reason)])

\* The role and the affiliation of the query are the first of its items'.
FirstKnown(values) ==
  LET known == SelectSeq(values, LAMBDA v : v # "invalid")
  IN IF known = <<>> THEN "invalid" ELSE known[1]

AdminOf(list) ==
  [list |-> list, role |-> FirstKnown([n \in DOMAIN list |-> list[n].role]),
   affiliation |-> FirstKnown([n \in DOMAIN list |-> list[n].affiliation])]

\* What was given as a reason is not read.
AdminFrom(tag) ==
  LET items == Kids(tag, "item")
      Item(i) == [jid |-> Attr(i, "jid"), nick |-> Attr(i, "nick"), reason |-> "",
                  role |-> Known(Roles, Attr(i, "role")),
                  affiliation |-> Known(Affiliations, Attr(i, "affiliation"))]
  IN AdminOf([n \in DOMAIN items |-> Item(items[n])])

KeptAdmin(x) ==
  LET Own(value, general) == IF value # "invalid" THEN value ELSE general
      Item(i) == [i EXCEPT !.reason = "", !.role = Own(@, x.role),
                           !.affiliation = Own(@, x.affiliation)]
  IN AdminOf([n \in DOMAIN x.list |-> Item(x.list[n])])

-----------------------------------------------------------------------------
(* MUCRoom::MUCOwner: a form, or the end of the room, whose reason and       *)
(* password are looked for in the stanza's own element.                      *)

WithForm == {"instantRoom", "sendConfig", "cancelConfig", "incoming"}

OwnerTag(x) ==
  LET t == Elem("query", "muc#owner")
      d == TextKid(TextKid(With(Tag("destroy"), "jid", x.jid), "reason", x.reason), "password", x.pwd)
  IN IF x.type = "destroy" THEN Holding(t, d)
     ELSE IF x.type \in WithForm THEN Holding(t, FormTag(x.form)) ELSE t

RoomEndPath(name) == <<Step("query", ""), Step("destroy", ""), Step(name, "")>>

OwnerFrom(doc, node) ==
  LET tag == At(doc, node)
      forms == KidsIn(tag, "x", "x:data")
      ends == Kids(tag, "destroy")
      Found(name) == FindTagList(doc, node, PathText(RoomEndPath(name)))
      Text(name) == IF Found(name) = <<>> THEN "" ELSE At(doc, Found(name)[1]).text
  IN IF forms = <<>> /\ ends # <<>>
     THEN [type |-> "destroy", jid |-> Attr(ends[1], "jid"), reason |-> Text("reason"),
           pwd |-> Text("password"), form |-> NoForm]
     ELSE [type |-> "incoming", jid |-> "", reason |-> "", pwd |-> "", form |-> FormIn(First(forms))]

KeptOwner(x) ==
  IF x.type = "destroy" THEN [x EXCEPT !.reason = "", !.pwd = ""]
  ELSE [x EXCEPT !.type = "incoming", !.form = IF x.type \in WithForm THEN KeptForm(@) ELSE NoForm]

-----------------------------------------------------------------------------
(* MUCRoom::MUCUser: what a room says of a participant, that it was          *)
(* destroyed, or an invitation or its refusal.                               *)

NoUser == [affiliation |-> "invalid", role |-> "invalid", jid |-> Null, actor |-> Null,
           thread |-> Null, reason |-> Null, newNick |-> Null, password |-> Null,
           alternate |-> Null, operation |-> "none", flags |-> {}, del |-> FALSE, continues |-> FALSE]

\* The status codes, in the order they are written.
StatusCodes == <<"100", "101", "110", "170", "201", "210", "301", "303", "307", "321", "322", "332">>

Operations == [inviteTo |-> <<"invite", "to">>, inviteFrom |-> <<"invite", "from">>,
               declineTo |-> <<"decline", "to">>, declineFrom |-> <<"decline", "from">>]

UserTag(x) ==
  LET t == Elem("x", "muc#user")
      item == With(With(PtrAttr(Tag("item"), "jid", x.jid), "role", Written(Roles, x.role)),
                   "affiliation", Written(Affiliations, x.affiliation))
      acted == IF x.actor = Null THEN item ELSE Holding(item, With(Tag("actor"), "jid", x.actor))
      Code(u, code) == IF code \in x.flags THEN Holding(u, With(Tag("status"), "code", code)) ELSE u
      ended == PtrKid(PtrAttr(Tag("destroy"), "jid", x.alternate), "reason", x.reason)
      op == Operations[x.operation]
      asked == PtrKid(With(Tag(op[1]), op[2], x.jid), "reason", x.reason)
      continued == IF x.continues THEN Holding(asked, PtrAttr(Tag("continue"), "thread", x.thread)) ELSE asked
  IN IF x.affiliation # "invalid" \/ x.role # "invalid"
     THEN FoldLeft(Code, Holding(t, acted), StatusCodes)
     ELSE IF x.del THEN Holding(t, ended)
     ELSE IF x.operation # "none" /\ x.jid # Null THEN PtrKid(Holding(t, continued), "password", x.password)
     ELSE t

\* One child after the other.
UserKid(x, k) ==
  LET reasoned == [x EXCEPT !.reason = IF HasKid(k, "reason") THEN KidText(k, "reason") ELSE @]
      way == IF HasAttr(k, "from", "") THEN "From" ELSE "To"
  IN CASE k.name = "item" ->
            [reasoned EXCEPT !.affiliation = KnownOr(Affiliations, Attr(k, "affiliation"), "none"),
                             !.role = KnownOr(Roles, Attr(k, "role"), "none"),
                             !.jid = IF HasAttr(k, "jid", "") THEN Attr(k, "jid") ELSE @,
                             !.actor = IF HasKid(k, "actor") THEN Attr(Kid(k, "actor"), "jid") ELSE @,
                             !.newNick = IF HasAttr(k, "nick", "") THEN Attr(k, "nick") ELSE @]
       [] k.name = "status" ->
            [x EXCEPT !.flags = @ \cup ({Attr(k, "code")} \cap {StatusCodes[i] : i \in DOMAIN StatusCodes})]
       [] k.name = "destroy" ->
            [reasoned EXCEPT !.del = TRUE, !.alternate = IF HasAttr(k, "jid", "") THEN Attr(k, "jid") ELSE @,
                             !.flags = @ \cup {"destroyed"}]
       [] k.name = "invite" ->
            [reasoned EXCEPT !.operation = IF way = "From" THEN "inviteFrom" ELSE "inviteTo",
                             !.jid = Attr(k, IF way = "From" THEN "from" ELSE "to"),
                             !.continues = @ \/ HasKid(k, "continue"),
                             !.thread = IF HasKid(k, "continue") THEN Attr(Kid(k, "continue"), "thread") ELSE @]
       [] k.name = "decline" -> \* the addressee is looked for under the sender's name
            [reasoned EXCEPT !.operation = IF way = "From" THEN "declineFrom" ELSE "declineTo",
                             !.jid = Attr(k, "from")]
       [] k.name = "password" -> [x EXCEPT !.password = k.text]
       [] OTHER -> x

UserFrom(tag) == FoldLeft(UserKid, NoUser, tag.kids)

UserPaths == InAny(<<"presence", "message">>, "x", "muc#user")

\* What is said of a participant loses its reason and nickname, what is missing
\* of role and affiliation is "none"; only one of three is written.
KeptUser(x) ==
  IF x.affiliation # "invalid" \/ x.role # "invalid"
  THEN [NoUser EXCEPT !.affiliation = KnownOr(Affiliations, x.affiliation, "none"),
                      !.role = KnownOr(Roles, x.role, "none"), !.jid = x.jid, !.actor = x.actor,
                      !.flags = x.flags \ {"destroyed"}]
  ELSE IF x.del
  THEN [NoUser EXCEPT !.del = TRUE, !.alternate = x.alternate, !.reason = x.reason, !.flags = {"destroyed"}]
  ELSE [x EXCEPT !.jid = IF x.operation = "declineTo" THEN "" ELSE @,
                 !.continues = @ /\ x.operation \in {"inviteTo", "inviteFrom"},
                 !.thread = IF x.operation \in {"inviteTo", "inviteFrom"} THEN @ ELSE Null]

-----------------------------------------------------------------------------
(* MUCRoom::MUC: how to enter.  The reader looks for the namespace of        *)
(* MUCUser in an element that was found by its own, and so reads nothing.    *)

HistoryTypes == {"maxchars", "maxstanzas", "seconds", "since"}

MucTag(x) ==
  LET h == With(Tag("history"), x.historyType,
                IF x.historyType = "since" THEN x.historySince ELSE IntText(x.historyValue))
      t == Elem("x", "muc")
  IN PtrKid(IF x.historyType = "unknown" THEN t ELSE Holding(t, h), "password", x.password)

MucFrom(tag) ==
  LET h == Kid(tag, "history")
      numbers == SelectSeq(<<"seconds", "maxstanzas", "maxchars">>, LAMBDA n : HasAttr(h, n, ""))
      readable == IsElem(tag, "x", "muc#user")
  IN [historyType |-> "unknown",
      historyValue |-> IF readable /\ numbers # <<>> THEN TextInt(Attr(h, numbers[1])) ELSE 0,
      historySince |-> IF readable /\ numbers = <<>> THEN AttrPtr(h, "since") ELSE Null,
      password |-> IF readable THEN KidPtr(tag, "password") ELSE Null]

MucPaths == <<InStanza("presence", "x", "muc")>>

KeptMuc(x) == [historyType |-> "unknown", historyValue |-> 0, historySince |-> Null, password |-> Null]

-----------------------------------------------------------------------------
(* UniqueMUCRoom::Unique *)

UniqueTag(x) == Saying(Elem("unique", "muc#unique"), x.text)
UniquePaths == <<InStanza("iq", "unique", "muc#unique")>>
=============================================================================
