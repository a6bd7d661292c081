-------------------------------- MODULE Tags --------------------------------
(***************************************************************************)
(* XML elements as class Tag keeps them (tag.h, tag.cpp), as values: a     *)
(* name, attributes without an order, child elements in order and text.    *)
(* The namespace is the attribute xmlns, as setXmlns() leaves it; prefixes *)
(* and the characters of names and text are left out.  NoTag is the null   *)
(* pointer.                                                                *)
(***************************************************************************)
EXTENDS Integers, Sequences, TLC

NoTag == [name |-> "", attrs |-> <<>>, kids |-> <<>>, text |-> ""]

Tag(name) == [NoTag EXCEPT !.name = name]

\* Tag::addAttribute(): an empty name or value is refused, an attribute of the
\* name is replaced.
With(tag, attr, value) ==
  [tag EXCEPT !.attrs = IF attr = "" \/ value = "" THEN @ ELSE (attr :> value) @@ @]

\* Tag::addCData() appends and refuses nothing to append.
Saying(tag, text) == [tag EXCEPT !.text = @ \o text]

\* Tag::addChild() ignores the null pointer.
HoldingAll(tag, children) ==
  [tag EXCEPT !.kids = @ \o SelectSeq(children, LAMBDA child : child # NoTag)]

Holding(tag, child) == HoldingAll(tag, <<child>>)

\* new Tag( name ) and setXmlns().
Elem(name, xmlns) == With(Tag(name), "xmlns", xmlns)

\* new Tag( parent, name, cdata ), where the code asks for text first.
TextKid(tag, name, text) ==
  HoldingAll(tag, IF text = "" THEN <<>> ELSE <<Saying(Tag(name), text)>>)

\* An empty element as a flag.
FlagKid(tag, name, set) == HoldingAll(tag, IF set THEN <<Tag(name)>> ELSE <<>>)

-----------------------------------------------------------------------------
(* Looking things up. *)

\* Tag::findAttribute().
Attr(tag, attr) == IF attr \in DOMAIN tag.attrs THEN tag.attrs[attr] ELSE ""

\* Tag::hasAttribute(): any value will do when none is asked for.
HasAttr(tag, attr, value) ==
  attr \in DOMAIN tag.attrs /\ (value = "" \/ tag.attrs[attr] = value)

Xmlns(tag) == Attr(tag, "xmlns")

\* Tag::findChildren().
Kids(tag, name) == SelectSeq(tag.kids, LAMBDA k : k.name = name)

KidsIn(tag, name, xmlns) ==
  SelectSeq(tag.kids, LAMBDA k : k.name = name /\ (xmlns = "" \/ Xmlns(k) = xmlns))

First(tags) == IF tags = <<>> THEN NoTag ELSE tags[1]

\* Tag::findChild( name ).
Kid(tag, name) == First(Kids(tag, name))

HasKid(tag, name) == Kid(tag, name) # NoTag

KidText(tag, name) == Kid(tag, name).text

IsElem(tag, name, xmlns) == tag.name = name /\ Xmlns(tag) = xmlns

-----------------------------------------------------------------------------
(* Conversions of util.h: an enumeration is given by its names. *)

\* util::lookup( str, values ) and lookup2(): what follows the last member when
\* nothing fits.
Known(names, string) == IF string \in names THEN string ELSE "invalid"

\* util::deflookup().
KnownOr(names, string, default) == IF string \in names THEN string ELSE default

\* util::lookup( code, values ): the empty string for no member.
Written(names, member) == IF member \in names THEN member ELSE ""

\* util::int2string(), and strtol() or atoi(): 0 for what is no number.
Numbers == -129..300

IntText(n) == ToString(n)

NumberOf == [text \in {ToString(n) : n \in Numbers} |->
               CHOOSE n \in Numbers : ToString(n) = text]

TextInt(text) == IF text \in DOMAIN NumberOf THEN NumberOf[text] ELSE 0

-----------------------------------------------------------------------------
\* An element after it was printed and parsed: Parser::addAttribute() keeps the
\* prefix of an attribute apart from its name, so that one that was added as
\* xml:lang is found as lang.
Unprefixed(attr) == IF attr = "xml:lang" THEN "lang" ELSE attr

RECURSIVE OnTheWire(_)
OnTheWire(tag) ==
  [tag EXCEPT !.attrs = [a \in {Unprefixed(b) : b \in DOMAIN @} |->
                           @[CHOOSE b \in DOMAIN @ : Unprefixed(b) = a]],
              !.kids = [i \in DOMAIN @ |-> OnTheWire(@[i])]]
=============================================================================
