--------------------------- MODULE PubSubStanzas ---------------------------
(***************************************************************************)
(* The extensions of publish-subscribe (XEP-0060): PubSub and PubSubOwner  *)
(* of PubSub::Manager, Event and Item.  Which request one of them is, is   *)
(* its context; another one is read from what its element holds.           *)
(***************************************************************************)
EXTENDS MucStanzas
LOCAL INSTANCE SequencesExt

SubscriptionStates == {"none", "subscribed", "pending", "unconfigured"}
NodeAffiliations == {"none", "publisher", "owner", "outcast"}

\* PubSub::Item: an id and an element of its own.
ItemOf(tag) == IF tag.name # "item" THEN [id |-> "", payload |-> NoTag]
               ELSE [id |-> Attr(tag, "id"), payload |-> First(tag.kids)]

PubItemTag(x) == Holding(With(Tag("item"), "id", x.id), x.payload)

PubItemTags(items) == [i \in DOMAIN items |-> PubItemTag(items[i])]
PubItemsFrom(tags) == [i \in DOMAIN tags |-> ItemOf(tags[i])]

Noded(name, node) == With(Tag(name), "node", node)

\* A child of the element for each member of a list.
Each(tag, list, Made(_)) == HoldingAll(tag, [i \in DOMAIN list |-> Made(list[i])])

-----------------------------------------------------------------------------
(* Manager::PubSubOwner *)

NoOwned == [ctx |-> "invalid", node |-> "", form |-> NoForm, subs |-> <<>>, affs |-> <<>>]

SubscriberTag(s) ==
  With(With(With(Tag("subscription"), "jid", s.jid), "subscription", Written(SubscriptionStates, s.type)),
       "subid", s.subid)
AffiliateTag(a) ==
  With(With(Tag("affiliation"), "jid", a.jid), "affiliation", Written(NodeAffiliations, a.type))

OwnedTag(x) ==
  LET child ==
        CASE x.ctx = "DeleteNode" -> Noded("delete", x.node)
          [] x.ctx = "PurgeNodeItems" -> Noded("purge", x.node)
          [] x.ctx \in {"GetNodeConfig", "SetNodeConfig"} ->
               Holding(Noded("configure", x.node), FormTag(x.form))
          [] x.ctx \in {"GetSubscriberList", "SetSubscriberList"} ->
               Each(Noded("subscriptions", x.node), x.subs, SubscriberTag)
          [] x.ctx \in {"GetAffiliateList", "SetAffiliateList"} ->
               Each(Noded("affiliations", x.node), x.affs, AffiliateTag)
          [] x.ctx = "DefaultNodeConfig" -> Tag("default")
          [] OTHER -> NoTag
  IN IF x.ctx = "invalid" THEN NoTag ELSE Holding(Elem("pubsub", "pubsub#owner"), child)

\* A configuration is read as asked for when it has a form, and as set without.
OwnedFrom(tag) ==
  LET Has(name) == HasKid(tag, name)
      Of(name, ctx) == [NoOwned EXCEPT !.ctx = ctx, !.node = Attr(Kid(tag, name), "node")]
      form == First(KidsIn(Kid(tag, "configure"), "x", "x:data"))
      subs == Kids(Kid(tag, "subscriptions"), "subscription")
      affs == Kids(Kid(tag, "affiliations"), "affiliation")
      SubscriberFrom(s) == [jid |-> Attr(s, "jid"), subid |-> Attr(s, "subid"),
                            type |-> Known(SubscriptionStates, Attr(s, "subscription"))]
      AffiliateFrom(a) == [jid |-> Attr(a, "jid"), type |-> Known(NodeAffiliations, Attr(a, "affiliation"))]
  IN CASE Has("delete") -> Of("delete", "DeleteNode")
       [] ~Has("delete") /\ Has("purge") -> Of("purge", "PurgeNodeItems")
       [] Has("configure") ->
            [Of("configure", IF form = NoTag THEN "SetNodeConfig" ELSE "GetNodeConfig")
               EXCEPT !.form = FormIn(form)]
       [] Has("default") -> [NoOwned EXCEPT !.ctx = "DefaultNodeConfig"]
       [] Has("subscriptions") ->
            [Of("subscriptions", "GetSubscriberList")
               EXCEPT !.subs = [i \in DOMAIN subs |-> SubscriberFrom(subs[i])]]
       [] Has("affiliations") ->
            [Of("affiliations", "GetAffiliateList")
               EXCEPT !.affs = [i \in DOMAIN affs |-> AffiliateFrom(affs[i])]]
       [] OTHER -> NoOwned

OwnedPaths == <<InStanza("iq", "pubsub", "pubsub#owner")>>

\* What is set is read as asked for; a configuration the other way, by its form.
KeptOwned(x) ==
  [x EXCEPT !.ctx = CASE @ = "SetSubscriberList" -> "GetSubscriberList"
                      [] @ = "SetAffiliateList" -> "GetAffiliateList"
                      [] @ \in {"GetNodeConfig", "SetNodeConfig"} ->
                           IF x.form = NoForm THEN "SetNodeConfig" ELSE "GetNodeConfig"
                      [] OTHER -> @,
            !.node = IF x.ctx = "DefaultNodeConfig" THEN "" ELSE @, !.form = KeptForm(@)]

-----------------------------------------------------------------------------
(* Manager::PubSub: subs and affs are functions from nodes. *)

NoPubSub == [ctx |-> "invalid", node |-> "", jid |-> "", subid |-> "", optionsNode |-> "",
             df |-> NoForm, subs |-> <<>>, affs |-> <<>>, items |-> <<>>, maxItems |-> 0,
             notify |-> FALSE]

OptionContexts == {"GetSubscriptionOptions", "SetSubscriptionOptions"}

\* Manager::PubSub::tag().
PubSubTag(x) ==
  LET t == Elem("pubsub", "pubsub")
      nodes == SetToSeq(DOMAIN x.subs)
      Sub(node, s) == With(With(With(Noded("subscription", node), "jid", s.jid),
                                "subscription", Written(SubscriptionStates, s.type)), "sid", s.subid)
      subs == FlattenSeq([n \in DOMAIN nodes |->
                [i \in DOMAIN x.subs[nodes[n]] |-> Sub(nodes[n], x.subs[nodes[n]][i])]])
      affNodes == SetToSeq(DOMAIN x.affs)
      Aff(node) == With(Noded("affiliation", node), "affiliation", Written(NodeAffiliations, x.affs[node]))
      options == IF x.df = NoForm THEN NoTag ELSE Holding(Tag("options"), FormTag(x.df))
      withJid == With(Noded("options", x.optionsNode), "jid", x.jid)
      asked == IF x.maxItems = 0 THEN Noded("items", x.node)
               ELSE With(Noded("items", x.node), "max_items", IntText(x.maxItems))
      publishOptions == IF x.df = NoForm THEN NoTag ELSE Holding(Tag("publish-options"), FormTag(x.df))
      Items(tag) == HoldingAll(tag, PubItemTags(x.items))
  IN CASE x.ctx = "invalid" -> NoTag
       [] x.ctx = "GetSubscriptionList" -> Holding(t, HoldingAll(Tag("subscriptions"), subs))
       [] x.ctx = "GetAffiliationList" -> Holding(t, Each(Tag("affiliations"), affNodes, Aff))
       [] x.ctx = "Subscription" ->
            Holding(Holding(t, With(Noded("subscribe", x.node), "jid", x.jid)), options)
       [] x.ctx = "Unsubscription" ->
            Holding(t, With(With(Noded("unsubscribe", x.node), "jid", x.jid), "subid", x.subid))
       [] x.ctx \in OptionContexts ->
            Holding(t, Holding(With(withJid, "subid", x.subid), FormTag(x.df)))
       [] x.ctx = "RequestItems" -> Holding(t, Items(With(asked, "subid", x.subid)))
       [] x.ctx = "PublishItem" -> Holding(t, Holding(Items(Noded("publish", x.node)), publishOptions))
       [] x.ctx = "DeleteItem" ->
            Holding(t, Items(With(Noded("retract", x.node), "notify", IF x.notify THEN "true" ELSE "")))
       [] x.ctx = "CreateNode" ->
            Holding(Holding(t, Noded("create", x.node)), Holding(Tag("configure"), FormTag(x.df)))
       [] OTHER -> t

\* Manager::PubSub::PubSub( tag ), what comes after lists, subscriptions and
\* options.
PubSubItems(x, tag) ==
  LET i == Kid(tag, "items")
      p == Kid(tag, "publish")
      r == Kid(tag, "retract")
      Listing(k, ctx) == [x EXCEPT !.ctx = ctx, !.node = Attr(k, "node"), !.items = PubItemsFrom(k.kids)]
  IN CASE i # NoTag -> [Listing(i, "RequestItems") EXCEPT
                          !.subid = Attr(i, "subid"), !.maxItems = TextInt(Attr(i, "max_items"))]
       [] i = NoTag /\ p # NoTag -> Listing(p, "PublishItem")
       [] i = NoTag /\ p = NoTag /\ r # NoTag ->
            [Listing(r, "DeleteItem") EXCEPT !.notify = Attr(r, "notify") \in {"1", "true"}]
       [] OTHER -> IF ~HasKid(tag, "create") THEN x
                   ELSE \* the form is looked for by an attribute nobody writes
                        [x EXCEPT !.ctx = "CreateNode", !.node = Attr(Kid(tag, "create"), "node")]

\* A subscription, or its end, and options.  Without one of them, the stanza
\* around says whether options are set.
PubSubSubscribes(tag, around) ==
  LET s == Kid(tag, "subscribe")
      u == Kid(tag, "unsubscribe")
      o == Kid(tag, "options")
      opened == IF s = NoTag THEN NoPubSub
                ELSE [NoPubSub EXCEPT !.ctx = "Subscription", !.node = Attr(s, "node"), !.jid = Attr(s, "jid")]
      ended == IF u = NoTag THEN opened
               ELSE [opened EXCEPT !.ctx = "Unsubscription", !.node = Attr(u, "node"),
                                   !.jid = Attr(u, "jid"), !.subid = Attr(u, "subid")]
      own == IF ended.ctx # "invalid" THEN ended
             ELSE [ended EXCEPT !.ctx = IF Attr(around, "type") = "set"
                                        THEN "SetSubscriptionOptions" ELSE "GetSubscriptionOptions",
                                !.node = Attr(o, "node"), !.jid = Attr(o, "jid"), !.subid = Attr(o, "subid")]
  IN IF o = NoTag THEN ended
     ELSE [own EXCEPT !.optionsNode = Attr(o, "node"), !.df = FormFrom(First(KidsIn(o, "x", "x:data")))]

PubSubFrom(doc, node) ==
  LET tag == At(doc, node)
      subs == Kid(tag, "subscriptions").kids
      affs == Kids(Kid(tag, "affiliations"), "affiliation")
      su == Kid(tag, "subscription")
      Info(s) == [jid |-> Attr(s, "jid"), subid |-> Attr(s, "subid"),
                  type |-> Known(SubscriptionStates, Attr(s, "subscription"))]
      InfosOf(n) == LET own == SelectSeq(subs, LAMBDA s : Attr(s, "node") = n)
                    IN [i \in DOMAIN own |-> Info(own[i])]
      NodesOf(list) == {Attr(list[i], "node") : i \in DOMAIN list}
      LastOf(n) == Last(SelectSeq(affs, LAMBDA a : Attr(a, "node") = n))
      x == PubSubSubscribes(tag, At(doc, Front(node)))
  IN CASE subs # <<>> -> [NoPubSub EXCEPT !.ctx = "GetSubscriptionList",
                                          !.subs = [n \in NodesOf(subs) |-> InfosOf(n)]]
       [] subs = <<>> /\ affs # <<>> ->
            [NoPubSub EXCEPT !.ctx = "GetAffiliationList",
               !.affs = [n \in NodesOf(affs) |-> Known(NodeAffiliations, Attr(LastOf(n), "affiliation"))]]
       [] subs = <<>> /\ affs = <<>> /\ su # NoTag ->
            [x EXCEPT !.subs = Attr(su, "node") :> <<Info(su)>>]
       [] OTHER -> PubSubItems(x, tag)

PubSubPaths == <<InStanza("iq", "pubsub", "pubsub")>>

\* Empty lists are read as nothing; subscriptions lose their ids, options of a
\* subscription their node, of publishing and creating themselves; options
\* without a form are read with an invalid one; publishing with options gains
\* an item.
KeptPubSub(x, stanza) ==
  LET NoId(list) == [i \in DOMAIN list |-> [list[i] EXCEPT !.subid = ""]]
      df == IF x.df = NoForm THEN [NoForm EXCEPT !.type = "invalid"] ELSE KeptForm(x.df)
      bare == [x EXCEPT !.df = NoForm]
  IN CASE x.ctx = "GetSubscriptionList" ->
            IF DOMAIN x.subs = {} THEN NoPubSub ELSE [x EXCEPT !.subs = [n \in DOMAIN @ |-> NoId(@[n])]]
       [] x.ctx = "GetAffiliationList" -> IF DOMAIN x.affs = {} THEN NoPubSub ELSE x
       [] x.ctx = "Subscription" -> [x EXCEPT !.df = KeptForm(@), !.optionsNode = ""]
       [] x.ctx \in OptionContexts ->
            [x EXCEPT !.node = x.optionsNode, !.df = df,
                      !.ctx = IF stanza.subtype = "set" THEN "SetSubscriptionOptions" ELSE "GetSubscriptionOptions"]
       [] x.ctx = "PublishItem" ->
            IF x.df = NoForm THEN x
            ELSE [bare EXCEPT !.items = Append(@, [id |-> "", payload |-> NoTag])]
       [] OTHER -> bare

-----------------------------------------------------------------------------
(* PubSub::Event: what a service tells of a node.  config is the element of *)
(* a form; an operation on an item is known by its element.                 *)

NoEvent == [type |-> "unknown", node |-> "", config |-> NoTag, ops |-> <<>>, jid |-> "",
            subscribed |-> FALSE, hasIds |-> FALSE, ids |-> <<>>, collection |-> ""]

EventNames == [collection |-> "collection", configuration |-> "configuration", delete |-> "delete",
               items |-> "items", retract |-> "items", purge |-> "purge", subscription |-> "subscription"]

PubEventTag(x) ==
  LET name == EventNames[x.type]
      payloads == [i \in DOMAIN x.ops |-> x.ops[i].payload]
      child ==
        CASE x.type = "collection" -> Holding(Tag(name), Holding(With(Tag("node"), "id", x.node), x.config))
          [] x.type = "configuration" -> Holding(Noded(name, x.node), x.config)
          [] x.type \in {"purge", "delete"} -> Noded(name, x.node)
          [] x.type \in {"items", "retract"} -> HoldingAll(Noded(name, x.node), payloads)
          [] x.type = "subscription" ->
               With(With(Noded(name, x.node), "jid", x.jid), "subscription",
                    IF x.subscribed THEN "subscribed" ELSE "none")
      Header(n, text) == Saying(With(Tag("header"), "name", n), text)
      headers == HoldingAll(Elem("headers", "shim"),
                            [i \in DOMAIN x.ids |-> Header("pubsub#subid", x.ids[i])])
      all == IF x.collection = "" THEN headers ELSE Holding(headers, Header("pubsub#collection", x.collection))
      event == Holding(Elem("event", "pubsub#event"), child)
  IN IF x.type = "unknown" THEN NoTag
     ELSE IF x.hasIds \/ x.collection # "" THEN Holding(event, all) ELSE event

\* One child after the other; an item to retract makes it a retraction.
EventKid(x, k) ==
  LET node == Kid(k, "node")
      Told(item) == [retract |-> item.name = "retract", item |-> Attr(item, "id"), payload |-> item]
      Texted(name) == SelectSeq(k.kids, LAMBDA h : Attr(h, "name") = name)
      collections == Texted("pubsub#collection")
      at == [x EXCEPT !.type = k.name, !.node = Attr(k, "node")]
  IN CASE k.name = "collection" ->
            IF node = NoTag THEN [x EXCEPT !.type = k.name]
            ELSE [x EXCEPT !.type = k.name, !.node = Attr(node, "id"), !.config = Kid(node, "x")]
       [] k.name = "configuration" -> [at EXCEPT !.config = Kid(k, "x")]
       [] k.name \in {"delete", "purge"} -> at
       [] k.name = "items" ->
            [at EXCEPT !.type = IF HasKid(k, "retract") THEN "retract" ELSE "items",
                       !.ops = @ \o [i \in DOMAIN k.kids |-> Told(k.kids[i])]]
       [] k.name = "subscription" ->
            [at EXCEPT !.jid = Attr(k, "jid"), !.subscribed = HasAttr(k, "subscription", "subscribed")]
       [] k.name = "headers" ->
            [x EXCEPT !.hasIds = TRUE,
                      !.ids = [i \in DOMAIN Texted("pubsub#subid") |-> Texted("pubsub#subid")[i].text],
                      !.collection = IF collections = <<>> THEN @ ELSE Last(collections).text]
       [] OTHER -> x

PubEventFrom(tag) == FoldLeft(EventKid, NoEvent, tag.kids)

PubEventPaths == <<InStanza("message", "event", "pubsub#event")>>

\* Whether items are retracted is read from the items.
KeptPubEvent(x) ==
  [x EXCEPT !.type = IF @ \notin {"items", "retract"} THEN @
                     ELSE IF \E i \in DOMAIN x.ops : x.ops[i].retract THEN "retract" ELSE "items",
            !.hasIds = @ \/ x.collection # "",
            !.config = IF x.type \in {"collection", "configuration"} THEN @ ELSE NoTag]
=============================================================================
