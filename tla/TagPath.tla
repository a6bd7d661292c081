------------------------------ MODULE TagPath ------------------------------
(***************************************************************************)
(* Tag::findTagList() (tag.cpp): an expression is parsed into a tree of    *)
(* tokens, which is then evaluated on an element.  It decides which        *)
(* extensions a stanza has (StanzaExtension::filterString()).              *)
(*                                                                         *)
(* An expression is a sequence of lexemes <<kind, text>>.  What gloox does *)
(* not use itself is left out: parentheses, . and .., indices, and the     *)
(* operators + < > *, which are parsed and not evaluated.  An element of a *)
(* document is the sequence of positions that leads to it from the root.   *)
(***************************************************************************)
EXTENDS Tags
LOCAL INSTANCE SequencesExt

Op(text) == <<"op", text>>
Word(text) == <<"name", text>>
Literal(text) == <<"literal", text>>

-----------------------------------------------------------------------------
(* Tokens: Tag::parse() and its helpers. *)

NoToken == [name |-> "", type |-> "None", kids |-> <<>>, predicate |-> FALSE]

\* Tag::TokenType is ordered; these are the types that end an operand.
Level(type) ==
  CASE type = "None" -> 0 [] type = "RightBracket" -> 7
    [] type = "Eq" -> 17 [] type = "Union" -> 28

\* A parse under way: where it is, the token being collected with its type, the
\* tree, and the path in it to the current token.
Start(at) ==
  [at |-> at, type |-> "Element", tok |-> "", root |-> NoToken, current |-> <<>>]

RECURSIVE TokenAt(_, _), Grafted(_, _, _)
TokenAt(tree, path) ==
  IF path = <<>> THEN tree ELSE TokenAt(tree.kids[path[1]], Tail(path))

\* The tree with another token at the path.
Grafted(tree, path, token) ==
  IF path = <<>> THEN token
  ELSE [tree EXCEPT !.kids[path[1]] = Grafted(@, Tail(path), token)]

WithKid(token, kid) ==
  IF kid = NoToken THEN token ELSE [token EXCEPT !.kids = Append(@, kid)]

\* Tag::addToken().
AddToken(s, type, tok) ==
  LET token == [NoToken EXCEPT !.name = tok, !.type = type]
      parent == WithKid(TokenAt(s.root, s.current), token)
  IN IF s.root = NoToken THEN [s EXCEPT !.root = token, !.current = <<>>]
     ELSE [s EXCEPT !.root = Grafted(s.root, s.current, parent),
                    !.current = Append(@, Len(parent.kids))]

\* Tag::closePreviousToken().
ClosePreviousToken(s) ==
  IF s.tok = "" THEN s
  ELSE [AddToken(s, s.type, s.tok) EXCEPT !.type = "Element", !.tok = ""]

\* Tag::addOperator().
AddOperator(s, arg, type) ==
  [s EXCEPT !.root = WithKid(WithKid([NoToken EXCEPT !.name = type, !.type = type],
                                     s.root), arg),
            !.current = <<>>]

\* Tag::addPredicate(): a test becomes a child of the current token.
AddPredicate(s, token) ==
  IF s.root = NoToken THEN s
  ELSE [s EXCEPT !.root = Grafted(@, s.current,
          WithKid(TokenAt(@, s.current), [token EXCEPT !.predicate = TRUE]))]

\* Tag::getType().
TypeOf(operator) == IF operator = "=" THEN "Eq" ELSE "Union"

\* The operand or the predicate that begins at a position, up to an operator
\* that does not bind more closely than the border.
RECURSIVE Parsed(_, _, _)
Parsed(expr, s, border) ==
  LET kind == expr[s.at][1]
      text == expr[s.at][2]
      closed == ClosePreviousToken(s)
      Onward(t) == Parsed(expr, [t EXCEPT !.at = @ + 1], border)
      type == TypeOf(text)
      arg == Parsed(expr, Start(s.at + 1), type)
      joined == [AddOperator(closed, arg.root, type) EXCEPT !.at = arg.at]
      inner == Parsed(expr, Start(s.at + 1), "RightBracket")
  IN IF s.at > Len(expr) THEN ClosePreviousToken(s)
     ELSE CASE kind = "name" -> Onward([s EXCEPT !.tok = text])
            [] kind = "literal" -> Onward([s EXCEPT !.tok = text, !.type = "Literal"])
            [] text = "/" -> Onward(closed)
            [] text = "//" -> Onward([closed EXCEPT !.type = "DoubleSlash"])
            [] text = "@" -> Onward([s EXCEPT !.type = "Attribute"])
            [] text = "*" -> Onward([AddToken(s, s.type, "*") EXCEPT !.type = "Element"])
            [] text = "]" -> closed
            [] text = "[" -> Onward([AddPredicate(closed, inner.root) EXCEPT !.at = inner.at])
            [] text \in {"=", "|"} /\ Level(type) <= Level(border) -> closed
            [] text \in {"=", "|"} /\ border = "RightBracket" -> joined
            [] OTHER -> Onward(joined)

-----------------------------------------------------------------------------
(* Evaluation: what a token finds from an element of the document. *)

RECURSIVE At(_, _), DescendantsOf(_, _)
At(doc, node) == IF node = <<>> THEN doc ELSE At(doc.kids[node[1]], Tail(node))

ChildrenOf(doc, node) == [i \in DOMAIN At(doc, node).kids |-> Append(node, i)]

\* Tag::add(): the second list without what the first has; add() in a loop.
Add(one, two) == one \o SelectSeq(two, LAMBDA n : n \notin ToSet(one))

RECURSIVE AddAll(_)
AddAll(lists) == IF lists = <<>> THEN <<>> ELSE Add(AddAll(Front(lists)), Last(lists))

\* Tag::allDescendants().
DescendantsOf(doc, node) ==
  LET children == ChildrenOf(doc, node)
  IN AddAll([i \in DOMAIN children |-> <<children[i]>> \o DescendantsOf(doc, children[i])])

\* Tag::evaluateEquals(): attributes and literals, in either order.
EvaluateEquals(tag, token) ==
  LET a == token.kids[1]
      b == token.kids[2]
      Value(t) == IF t.type = "Attribute" THEN Attr(tag, t.name) ELSE t.name
  IN /\ Len(token.kids) = 2
     /\ {a.type, b.type} \subseteq {"Attribute", "Literal"}
     /\ a.type = "Attribute" /\ b.type = "Attribute" =>
          HasAttr(tag, a.name, "") /\ HasAttr(tag, b.name, "")
     /\ Value(a) = Value(b)

\* An attribute test of Tag::evaluateBoolean().
EvaluateAttribute(tag, token) ==
  IF token.name = "*" /\ tag.attrs # <<>> THEN TRUE
  ELSE HasAttr(tag, token.name, "")

RECURSIVE Evaluate(_, _, _)

\* Tag::evaluateBoolean(): the tests of a predicate.  A path is evaluated on the
\* element itself, not from it.
EvaluateBoolean(doc, node, token) ==
  CASE token.type = "Attribute" -> EvaluateAttribute(At(doc, node), token)
    [] token.type = "Eq" -> EvaluateEquals(At(doc, node), token)
    [] token.type \in {"Union", "Element"} -> Evaluate(doc, node, token) # <<>>
    [] OTHER -> FALSE

\* Case XTElement of Tag::evaluateTagList().
EvaluateElement(doc, node, token) ==
  LET tests == SelectSeq(token.kids, LAMBDA t : t.predicate)
      steps == SelectSeq(token.kids, LAMBDA t : ~t.predicate)
      children == ChildrenOf(doc, node)
      FromChildren(t) == AddAll([i \in DOMAIN children |-> Evaluate(doc, children[i], t)])
  IN IF \/ token.name \notin {At(doc, node).name, "*"}
        \/ \E i \in DOMAIN tests : ~EvaluateBoolean(doc, node, tests[i])
     THEN <<>>
     ELSE IF steps = <<>> THEN <<node>>
     ELSE AddAll([i \in DOMAIN steps |-> FromChildren(steps[i])])

\* Case XTDoubleSlash: the element itself, then everything below it.
EvaluateDoubleSlash(doc, node, token) ==
  LET nodes == <<node>> \o DescendantsOf(doc, node)
  IN AddAll([i \in DOMAIN nodes |->
       EvaluateElement(doc, nodes[i], [token EXCEPT !.type = "Element"])])

\* Tag::evaluateTagList().
Evaluate(doc, node, token) ==
  CASE token.type = "Union" -> \* Tag::evaluateUnion()
         AddAll([i \in DOMAIN token.kids |-> Evaluate(doc, node, token.kids[i])])
    [] token.type = "Element" -> EvaluateElement(doc, node, token)
    [] token.type = "DoubleSlash" -> EvaluateDoubleSlash(doc, node, token)
    [] OTHER -> <<>>

Token(expr) == Parsed(expr, Start(1), "None").root

\* Tag::findTagList(): a path that begins with one slash starts at the root.
FindTagList(doc, node, expr) ==
  LET start == IF Len(expr) >= 2 /\ expr[1] = Op("/") THEN <<>> ELSE node
  IN IF expr \in {<<Op("/")>>, <<Op("//")>>} \/ Token(expr) = NoToken THEN <<>>
     ELSE Evaluate(doc, start, Token(expr))

-----------------------------------------------------------------------------
(* What the notation means, for the part of it that gloox itself uses:      *)
(* unions of paths, whose steps go to children or to descendants, name an   *)
(* element or any, and ask for an attribute.                                *)

\* A test is <<attribute, value>>; without a value the attribute is enough.
Passes(tag, test) == HasAttr(tag, test[1], test[2])

\* A step is [axis, name, tests].
Fits(doc, node, step) ==
  /\ step.name \in {"*", At(doc, node).name}
  /\ \A i \in DOMAIN step.tests : Passes(At(doc, node), step.tests[i])

All(doc) == {<<>>} \cup ToSet(DescendantsOf(doc, <<>>))

Below(node, ancestor) == IsStrictPrefix(ancestor, node)

\* The elements the first n steps of a path lead to from a base.
RECURSIVE Reached(_, _, _, _)
Reached(doc, base, path, n) ==
  LET here == path[n]
      LedTo(node) ==
        CASE n = 1 /\ here.axis = "child" -> node = base
          [] n = 1 -> node = base \/ Below(node, base)
          [] OTHER -> \E from \in Reached(doc, base, path, n - 1) :
                        /\ Below(node, from)
                        /\ here.axis = "child" => Len(node) = Len(from) + 1
  IN {node \in All(doc) : LedTo(node) /\ Fits(doc, node, here)}

Meant(doc, base, paths) ==
  UNION {Reached(doc, base, paths[i], Len(paths[i])) : i \in DOMAIN paths}

\* The text of a union of paths.
TestText(test) ==
  <<Op("["), Op("@"), Word(test[1])>>
  \o (IF test[2] = "" THEN <<>> ELSE <<Op("="), Literal(test[2])>>) \o <<Op("]")>>

StepText(step) ==
  <<Op(IF step.axis = "child" THEN "/" ELSE "//")>>
  \o (IF step.name = "*" THEN <<Op("*")>> ELSE <<Word(step.name)>>)
  \o FlattenSeq([i \in DOMAIN step.tests |-> TestText(step.tests[i])])

PathText(path) == FlattenSeq([i \in DOMAIN path |-> StepText(path[i])])

UnionText(paths) ==
  FlattenSeq([i \in DOMAIN paths |->
    (IF i = 1 THEN <<>> ELSE <<Op("|")>>) \o PathText(paths[i])])
=============================================================================
