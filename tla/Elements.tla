------------------------------ MODULE Elements ------------------------------
(***************************************************************************)
(* Class Tag's own data (tag.h, tag.cpp): an element keeps its children    *)
(* and its pieces of text in lists of their own and, a second time, in     *)
(* the order they came in (m_nodes).  A child is named in m_nodes by a key *)
(* that stands for its address.  A list is made when first something comes *)
(* in, and stays when all is taken out: lists has the names of the ones    *)
(* that were made, of those that can be there and empty.                   *)
(*                                                                         *)
(* Names and texts are sequences of symbols; "^" stands for any character  *)
(* XML does not allow, "X" for the name xmlns.                             *)
(***************************************************************************)
EXTENDS Naturals, Sequences, FiniteSets
LOCAL INSTANCE SequencesExt
LOCAL INSTANCE FiniteSetsExt

XMLNS == <<"X">>

\* util::checkValidXMLChars().
CheckValidXMLChars(text) == "^" \notin ToSet(text)

\* Tag::Tag( name, cdata ), before the text.
NewTag(name) ==
  [name |-> IF CheckValidXMLChars(name) THEN name ELSE <<>>,
   prefix |-> <<>>, xmlns |-> <<>>, xmlnss |-> <<>>,
   attribs |-> <<>>, children |-> <<>>, cdata |-> <<>>, nodes |-> <<>>, lists |-> {}]

TextNode(text) == [type |-> "TypeString", text |-> text, key |-> 0]
TagNode(key) == [type |-> "TypeTag", text |-> <<>>, key |-> key]

\* A key no child of the element has.
FreeKey(tag) ==
  Min(1..(Len(tag.children) + 1) \ {tag.children[i].key : i \in DOMAIN tag.children})

ChildAt(tag, key) ==
  LET i == CHOOSE i \in DOMAIN tag.children : tag.children[i].key = key
  IN tag.children[i].tag

-----------------------------------------------------------------------------
(* Building. *)

AddChild(tag, child) ==
  [tag EXCEPT !.children = Append(@, [key |-> FreeKey(tag), tag |-> child]),
              !.nodes = Append(@, TagNode(FreeKey(tag))),
              !.lists = @ \cup {"children"}]

AddCData(tag, text) ==
  IF text = <<>> \/ ~CheckValidXMLChars(text) THEN tag
  ELSE [tag EXCEPT !.cdata = Append(@, text), !.nodes = Append(@, TextNode(text))]

SlipKeepsNodes(tag, text) ==
  IF text = <<>> \/ ~CheckValidXMLChars(text) THEN tag
  ELSE AddCData([tag EXCEPT !.cdata = <<>>], text)

\* Tag::setCData() forgets the text there was, and nothing else.
SetCData(tag, text) ==
  IF text = <<>> \/ ~CheckValidXMLChars(text) THEN tag
  ELSE AddCData([tag EXCEPT !.cdata = <<>>,
                            !.nodes = SelectSeq(@, LAMBDA n : n.type = "TypeTag")], text)

Without(tag, keys) ==
  [tag EXCEPT !.children = SelectSeq(@, LAMBDA c : c.key \notin keys),
              !.nodes = SelectSeq(@, LAMBDA n : n.type = "TypeString" \/ n.key \notin keys)]

\* Tag::removeChild( name ) and Tag::removeChild( tag ).
RemoveChildren(tag, name) ==
  IF name = <<>> THEN tag
  ELSE Without(tag, {tag.children[i].key :
                       i \in {j \in DOMAIN tag.children : tag.children[j].tag.name = name}})

RemoveChild(tag, key) == Without(tag, {key})

\* Tag::Attribute::init(): an invalid value, and an invalid name, stay empty.
Attribute(prefix, name, value) ==
  [prefix |-> prefix,
   name |-> IF CheckValidXMLChars(name \o value) THEN name ELSE <<>>,
   value |-> IF CheckValidXMLChars(value) THEN value ELSE <<>>]

\* Tag::xmlns( prefix ), where the ancestors' declarations are known.
XmlnsOf(tag, scope, prefix) ==
  LET own == SelectSeq(tag.attribs, LAMBDA a : a.name = XMLNS)
  IN CASE prefix = <<>> -> IF own = <<>> THEN tag.xmlns ELSE own[1].value
       [] prefix \in DOMAIN tag.xmlnss -> tag.xmlnss[prefix]
       [] prefix \in DOMAIN scope -> scope[prefix]
       [] OTHER -> <<>>

\* Tag::addAttribute(): an attribute of the name is replaced when its prefix or
\* its namespace agrees.
AddAttribute(tag, scope, attr) ==
  LET Agrees(a) ==
        /\ a.name = attr.name
        /\ a.prefix = attr.prefix \/ XmlnsOf(tag, scope, a.prefix) = <<>>
      same == {i \in DOMAIN tag.attribs : Agrees(tag.attribs[i])}
  IN IF attr.name = <<>> \/ attr.value = <<>> THEN tag
     ELSE IF same = {} THEN [tag EXCEPT !.attribs = Append(@, attr), !.lists = @ \cup {"attribs"}]
     ELSE [tag EXCEPT !.attribs[Min(same)] = attr]

SetAttributes(tag, attribs) == [tag EXCEPT !.attribs = attribs, !.lists = @ \cup {"attribs"}]

RemoveAttribute(tag, name) ==
  [tag EXCEPT !.attribs = SelectSeq(@, LAMBDA a : a.name # name)]

\* Tag::setXmlns(), with a prefix and without one.
SetXmlns(tag, scope, xmlns, prefix) ==
  IF ~CheckValidXMLChars(xmlns \o prefix) THEN tag
  ELSE IF prefix = <<>>
  THEN AddAttribute([tag EXCEPT !.xmlns = xmlns], scope, Attribute(<<>>, XMLNS, xmlns))
  ELSE AddAttribute([tag EXCEPT !.xmlnss =
                       [p \in DOMAIN @ \cup {prefix} |-> IF p = prefix THEN xmlns ELSE @[p]]],
                    scope, Attribute(<<>>, XMLNS \o <<":">> \o prefix, xmlns))

SetPrefix(tag, prefix) ==
  IF CheckValidXMLChars(prefix) THEN [tag EXCEPT !.prefix = prefix] ELSE tag

-----------------------------------------------------------------------------
(* Copying, comparing and printing. *)

RECURSIVE Clone(_), EqualTags(_, _), Xml(_)

\* Tag::clone() makes a list of attributes when there is one, and follows m_nodes.
Clone(tag) ==
  LET Added(t, node) ==
        IF node.type = "TypeTag" THEN AddChild(t, Clone(ChildAt(tag, node.key)))
        ELSE AddCData(t, node.text)
  IN FoldLeft(Added, [NewTag(tag.name) EXCEPT !.xmlns = tag.xmlns, !.prefix = tag.prefix,
                                              !.attribs = tag.attribs, !.xmlnss = tag.xmlnss,
                                              !.lists = tag.lists \cap {"attribs"}],
              tag.nodes)

\* Tag::operator==(): both have the same lists, and each list of its own is walked
\* as far as the other's agrees: a longer list on the right is equal.  A list of
\* text is never empty.
EqualTags(left, right) ==
  LET Covers(l, r, Same(_, _)) == Len(l) <= Len(r) /\ \A i \in DOMAIN l : Same(l[i], r[i])
  IN /\ left.name = right.name /\ left.xmlns = right.xmlns
     /\ left.lists = right.lists /\ (left.cdata = <<>> <=> right.cdata = <<>>)
     /\ Covers(left.cdata, right.cdata, LAMBDA a, b : a = b)
     /\ Covers(left.children, right.children, LAMBDA a, b : EqualTags(a.tag, b.tag))
     /\ Covers(left.attribs, right.attribs, LAMBDA a, b : a.name = b.name /\ a.value = b.value)

\* util::escape() and util::appendEscaped().
Reference ==
  [c \in {"&", "<", ">", "'", "\""} |->
     CASE c = "&" -> <<"&", "a", "m", ";">> [] c = "<" -> <<"&", "l", "t", ";">>
       [] c = ">" -> <<"&", "g", "t", ";">> [] c = "'" -> <<"&", "a", "p", ";">>
       [] c = "\"" -> <<"&", "q", "u", ";">>]

AppendEscaped(text) ==
  FlattenSeq([i \in DOMAIN text |->
    IF text[i] \in DOMAIN Reference THEN Reference[text[i]] ELSE <<text[i]>>])

Qualified(item) == (IF item.prefix = <<>> THEN <<>> ELSE item.prefix \o <<":">>) \o item.name

\* Tag::Attribute::xml().
AttributeXml(attr) ==
  IF attr.name = <<>> THEN <<>>
  ELSE <<" ">> \o Qualified(attr) \o <<"=", "'">> \o AppendEscaped(attr.value) \o <<"'">>

\* Tag::xml().
Xml(tag) ==
  LET attributes == FlattenSeq([i \in DOMAIN tag.attribs |-> AttributeXml(tag.attribs[i])])
      NodeXml(n) == IF n.type = "TypeTag" THEN Xml(ChildAt(tag, n.key)) ELSE AppendEscaped(n.text)
      content == FlattenSeq([i \in DOMAIN tag.nodes |-> NodeXml(tag.nodes[i])])
      begin == <<"<">> \o Qualified(tag) \o attributes
  IN IF tag.name = <<>> THEN <<>>
     ELSE IF tag.nodes = <<>> THEN begin \o <<"/", ">">>
     ELSE begin \o <<">">> \o content \o <<"<", "/">> \o Qualified(tag) \o <<">">>
=============================================================================
