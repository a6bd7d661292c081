------------------------------ MODULE TagTree ------------------------------
(***************************************************************************)
(* An element that is built, edited, copied and printed (tag.cpp), and     *)
(* read back by a parser (parser.cpp).  An application edits the element   *)
(* itself or one of its children.                                          *)
(***************************************************************************)
EXTENDS XmlParser
LOCAL INSTANCE SequencesExt

CONSTANTS
  TagNames,      \* names of elements and attributes
  TagTexts,      \* texts and values
  TagPrefixes,   \* namespace prefixes
  MaxNodes,   \* bound: nodes and attributes of an element
  MaxEdits    \* bound: what is done to it

VARIABLES
  tree,       \* the element
  edits       \* how often it was edited

vars == <<tree, edits>>

\* The element itself, and its children by their keys.
Places == {0} \cup {tree.children[i].key : i \in DOMAIN tree.children}

Here(place) == IF place = 0 THEN tree ELSE ChildAt(tree, place)

ScopeAt(place) == IF place = 0 THEN <<>> ELSE tree.xmlnss

\* The element at a place becomes another.
Edit(place, tag) ==
  /\ edits < MaxEdits /\ edits' = edits + 1
  /\ tree' = IF place = 0 THEN tag
             ELSE [tree EXCEPT !.children = [i \in DOMAIN @ |->
                    IF @[i].key = place THEN [@[i] EXCEPT !.tag = tag] ELSE @[i]]]

HasRoom(tag) == Len(tag.nodes) < MaxNodes

DoAddChild(name) ==
  HasRoom(tree) /\ Edit(0, AddChild(tree, NewTag(name)))

DoAddCData(place, text) ==
  HasRoom(Here(place)) /\ Edit(place, AddCData(Here(place), text))

DoSetCData(place, text) ==
  /\ HasRoom(Here(place)) \/ Here(place).cdata # <<>>
  /\ Edit(place, SetCData(Here(place), text))

DoRemoveChildren(name) == Edit(0, RemoveChildren(tree, name))

DoRemoveChild(key) == Edit(0, RemoveChild(tree, key))

DoAddAttribute(place, name, text) ==
  /\ Len(Here(place).attribs) < MaxNodes
  /\ Edit(place, AddAttribute(Here(place), ScopeAt(place), Attribute(<<>>, name, text)))

DoRemoveAttribute(place, name) == Edit(place, RemoveAttribute(Here(place), name))

DoSetXmlns(place, prefix) ==
  /\ Len(Here(place).attribs) < MaxNodes
  /\ Edit(place, SetXmlns(Here(place), ScopeAt(place), <<"u">>, prefix))

DoSetPrefix(place, prefix) == Edit(place, SetPrefix(Here(place), prefix))

\* The element is replaced by a copy, as addChildCopy() and Message::embed() do.
DoClone == tree' = Clone(tree) /\ UNCHANGED edits

Init == (\E name \in TagNames : tree = NewTag(name)) /\ edits = 0

Next ==
  \/ \E name \in TagNames : DoAddChild(name) \/ DoRemoveChildren(name)
  \/ \E place \in Places :
       \/ \E text \in TagTexts : DoAddCData(place, text) \/ DoSetCData(place, text)
       \/ \E name \in TagNames, text \in TagTexts : DoAddAttribute(place, name, text)
       \/ \E name \in TagNames : DoRemoveAttribute(place, name)
       \/ \E prefix \in TagPrefixes : DoSetXmlns(place, prefix) \/ DoSetPrefix(place, prefix)
       \/ place # 0 /\ DoRemoveChild(place)
  \/ DoClone

Spec == Init /\ [][Next]_vars

-----------------------------------------------------------------------------
\* The lists of an element say the same: each child and each piece of text is
\* once in its list and once among the nodes, in the same order.
NodesAgree(tag) ==
  LET tags == SelectSeq(tag.nodes, LAMBDA n : n.type = "TypeTag")
      texts == SelectSeq(tag.nodes, LAMBDA n : n.type = "TypeString")
  IN /\ [i \in DOMAIN tags |-> tags[i].key] = [i \in DOMAIN tag.children |-> tag.children[i].key]
     /\ [i \in DOMAIN texts |-> texts[i].text] = tag.cdata
     /\ IsInjective([i \in DOMAIN tags |-> tags[i].key])

\* Its children were removed again, all of them: the list of them is still there.
Emptied(tag) == "children" \in tag.lists /\ tag.children = <<>>

\* Whatever was done to an element, its lists agree, a copy prints the same and
\* equals it both ways, unless a list of children was emptied (see CopyEqual), and
\* what it prints is read as one element that prints the same.
TagsSound ==
  LET read == Feed(NewParser, Xml(tree))
      copy == Clone(tree)
      whole == \A place \in Places : ~Emptied(Here(place))
  IN /\ \A place \in Places : NodesAgree(Here(place))
     /\ whole => EqualTags(copy, tree) /\ EqualTags(tree, copy)
     /\ Xml(copy) = Xml(tree)
     /\ tree.name # <<>> =>
          /\ ~read.failed /\ Len(read.heard) = 1
          /\ Xml(read.heard[1]) = Xml(tree)

\* clone() "creates a deep copy of this Tag" and returns "an independent copy of
\* the Tag" (tag.h:529-530), which operator== (tag.h:571) tells from no other.
CopyEqual == EqualTags(Clone(tree), tree)
=============================================================================
