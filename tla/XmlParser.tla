----------------------------- MODULE XmlParser -----------------------------
(***************************************************************************)
(* The parser of the stream (parser.h, parser.cpp): an automaton over      *)
(* characters that keeps what it is collecting between two pieces of data, *)
(* and hands over every element that closes at the top.  When a piece ends *)
(* inside a reference or a marker, that part waits in m_backBuffer.        *)
(*                                                                         *)
(* Symbols are those of module Elements; "S" is the name stream, "N" its   *)
(* namespace, "M" the name xml, "[" the rest of the marker ![CDATA[.       *)
(* References by name are those of module Elements.                        *)
(***************************************************************************)
EXTENDS Elements
LOCAL INSTANCE SequencesExt

Stream == <<"S">>
StreamXmlns == <<"N">>
Preamble == <<"M">>

Whitespace == {" "}

\* Parser::Parser().  open is the path from m_root to m_current.
NewParser ==
  [state |-> "Initial", open |-> <<>>, tag |-> <<>>, tagPrefix |-> <<>>,
   haveTagPrefix |-> FALSE, attrib |-> <<>>, attribPrefix |-> <<>>,
   haveAttribPrefix |-> FALSE, attribIsXmlns |-> FALSE, value |-> <<>>,
   attribs |-> <<>>, xmlnss |-> <<>>, xmlns |-> <<>>, cdata |-> <<>>,
   quote |-> FALSE, preamble |-> 0, backBuffer |-> <<>>,
   at |-> 1, waits |-> FALSE, failed |-> FALSE, heard |-> <<>>]

\* Parser::cleanup() forgets everything but an open quote and the back buffer.
Cleanup(p) ==
  [NewParser EXCEPT !.quote = p.quote, !.backBuffer = p.backBuffer,
                    !.attribIsXmlns = p.attribIsXmlns,
                    !.at = p.at, !.heard = p.heard]

Fail(p) == [Cleanup(p) EXCEPT !.failed = TRUE]

HasCurrent(p) == p.open # <<>>
Current(p) == Last(p.open)
To(p, state) == [p EXCEPT !.state = state]
StreamEvent(p, tag) == [p EXCEPT !.heard = Append(@, tag)]

\* What the elements around declare.
Scope(open) ==
  [prefix \in UNION {DOMAIN open[i].xmlnss : i \in DOMAIN open} |->
     open[CHOOSE i \in DOMAIN open :
            /\ prefix \in DOMAIN open[i].xmlnss
            /\ \A j \in DOMAIN open : prefix \in DOMAIN open[j].xmlnss => j <= i].xmlnss[prefix]]

\* Parser::addAttribute().
ParsedAttribute(p) ==
  LET prefix == IF p.attribIsXmlns THEN XMLNS ELSE p.attribPrefix
  IN [p EXCEPT !.attribs = Append(@, [Attribute(<<>>, p.attrib, p.value) EXCEPT !.prefix = prefix]),
               !.xmlnss = IF p.attribIsXmlns
                          THEN [d \in DOMAIN @ \cup {p.attrib} |->
                                  IF d = p.attrib THEN p.value ELSE @[d]]
                          ELSE @,
               !.xmlns = IF ~p.attribIsXmlns /\ p.attrib = XMLNS THEN p.value ELSE @,
               !.attrib = <<>>, !.value = <<>>, !.attribPrefix = <<>>,
               !.haveAttribPrefix = FALSE, !.attribIsXmlns = FALSE]

\* Parser::addTag(): the header of a stream is handed over at once, and the
\* declaration of the document is forgotten.
AddTag(p) ==
  LET bare == [NewTag(p.tag) EXCEPT !.xmlnss = p.xmlnss,
                                    !.prefix = IF p.haveTagPrefix THEN p.tagPrefix ELSE <<>>]
      dressed == IF p.attribs = <<>> THEN bare ELSE SetAttributes(bare, p.attribs)
      tag == SetXmlns(dressed, Scope(p.open), p.xmlns, <<>>)
      root == IF HasCurrent(p) THEN p.open[1] ELSE tag
      ofStream == XmlnsOf(root, <<>>, root.prefix) = StreamXmlns
      named == IF ~HasCurrent(p) /\ p.tagPrefix = Stream
               THEN SetXmlns(tag, <<>>, StreamXmlns, p.tagPrefix) ELSE tag
      added == [p EXCEPT !.open = Append(@, named), !.haveTagPrefix = FALSE,
                         !.attribs = <<>>, !.xmlnss = <<>>, !.xmlns = <<>>]
  IN IF p.tag = Stream /\ ofStream THEN Cleanup(StreamEvent(added, root))
     ELSE IF p.tag = Preamble /\ p.preamble = 2 THEN Cleanup(added)
     ELSE added

\* Parser::addCData().
ParsedCData(p) ==
  IF ~HasCurrent(p) \/ p.cdata = <<>> THEN p
  ELSE [p EXCEPT !.open[Len(p.open)] = AddCData(@, p.cdata), !.cdata = <<>>]

\* Parser::closeTag() with its caller: the current element becomes its parent's
\* child, or is handed over.
CloseTag(p) ==
  LET closed == [p EXCEPT !.tagPrefix = <<>>, !.haveTagPrefix = FALSE]
      depth == Len(p.open)
      parent == AddChild(p.open[depth - 1], Current(p))
      done == IF depth = 1 THEN Cleanup(StreamEvent(closed, Current(p)))
              ELSE [closed EXCEPT !.open = Append(SubSeq(@, 1, depth - 2), parent)]
  IN CASE p.tag = Stream /\ p.tagPrefix = Stream -> To(p, "InterTag")
       [] \/ ~HasCurrent(p)
          \/ Current(p).name # p.tag
          \/ Current(p).prefix \notin {<<>>, p.tagPrefix} -> Fail(p)
       [] OTHER -> To(done, "InterTag")

SlipForgetsPiece(p, text) == [p EXCEPT !.waits = TRUE]

\* DecodeInsufficient and ForwardInsufficientSize: the rest waits for more.
Insufficient(p, text) ==
  [p EXCEPT !.backBuffer = SubSeq(text, p.at, Len(text)), !.waits = TRUE]

\* The references to a symbol: by name, or by a number, decimal or hexadecimal.
\* Numbers of characters that are no symbol, or that XML does not allow, are
\* refused.
References(c) ==
  {Reference[d] : d \in {c} \cap DOMAIN Reference}
    \cup {<<"&", "#">> \o n \o <<";">> :
            n \in CASE c = "a" -> {<<"9", "7">>, <<"x", "6", "1">>}
                   [] c = "=" -> {<<"6", "1">>}
                   [] c = " " -> {<<"9">>, <<"3", "2">>, <<"x", "2", "0">>}
                   [] OTHER -> {}}

\* Parser::decode(), where a reference may stand.
Decode(p, text) ==
  LET ends == {i \in p.at..Len(text) : text[i] = ";"}
      end == CHOOSE i \in ends : \A j \in ends : i <= j
      known == {c \in DOMAIN Reference \cup {"a", "=", " "} :
                  SubSeq(text, p.at, end) \in References(c)}
      c == CHOOSE c \in known : TRUE
      q == [p EXCEPT !.at = end + 1]
  IN IF ends = {} THEN Insufficient(p, text)
     ELSE IF known = {} THEN Fail(p)
     ELSE IF p.state = "TagAttributeValue" THEN [q EXCEPT !.value = Append(@, c)]
     ELSE [To(q, "TagInside") EXCEPT !.cdata = Append(@, c)]

\* Parser::forwardScan().
ForwardScan(p, text, needle, Found(_), NotFound(_)) ==
  LET end == p.at + Len(needle) - 1
  IN IF end > Len(text) THEN Insufficient(p, text)
     ELSE IF SubSeq(text, p.at, end) = needle THEN Found([p EXCEPT !.at = end + 1])
     ELSE NotFound(p)

-----------------------------------------------------------------------------
(* Parser::feed(): one character in each state. *)

Next1(p) == [p EXCEPT !.at = @ + 1]
Collect(p, field, c) == [Next1(p) EXCEPT ![field] = Append(@, c)]

\* A name turns out to be the prefix of one.
TagPrefix(p) ==
  IF p.haveTagPrefix THEN Fail(p)
  ELSE [Next1(p) EXCEPT !.haveTagPrefix = TRUE, !.tagPrefix = p.tag, !.tag = <<>>]

AttribPrefix(p) ==
  IF p.attrib = XMLNS THEN [Next1(p) EXCEPT !.attribIsXmlns = TRUE, !.attrib = <<>>]
  ELSE IF p.haveAttribPrefix THEN Fail(p)
  ELSE [Next1(p) EXCEPT !.haveAttribPrefix = TRUE, !.attribPrefix = p.attrib, !.attrib = <<>>]

\* What a state does not take at all.
Refused ==
  [TagOpening |-> {"<", ">", "&"},
   TagNameCollect |-> {"<", "?", "!", "&"},
   TagClosingSlash |-> {">", "<", "/"},
   TagClosing |-> {"<", "/", "!", "?", "&"},
   TagNameComplete |-> {"<", "!", "&"},
   TagAttribute |-> {"<", "/", ">", "?", "!", "&"},
   TagAttributeValue |-> {"<"}]

\* States that pass over whitespace, and the ones it ends.
Skipping == {"Initial", "TagOpening", "TagOpeningSlash", "TagClosingSlash", "TagNameComplete",
             "TagAttributeComplete", "TagAttributeEqual"}
Ended == [TagNameCollect |-> "TagNameComplete", TagAttribute |-> "TagAttributeComplete",
          TagNameAlmostComplete |-> "TagNameComplete"]

\* The end of an opening tag: />, > or ?>.
Opened(p, c) ==
  CASE c = "/" -> To(Next1(p), "TagOpeningSlash")
    [] c = ">" -> IF p.preamble = 1 THEN Fail(p) ELSE AddTag(To(Next1(p), "TagInside"))
    [] c = "?" -> IF p.preamble = 1 THEN [Next1(p) EXCEPT !.preamble = 2] ELSE Fail(p)

\* Inside an element, or between two.
Content(p, text, c) ==
  LET q == [p EXCEPT !.tag = <<>>]
      between == p.state = "InterTag" /\ ~HasCurrent(p)
  IN CASE c = "&" -> Decode(q, text)
       [] c = "<" -> To(Next1(IF p.state = "TagInside" THEN ParsedCData(q) ELSE q), "TagOpening")
       [] between -> To(Next1(q), IF c \in Whitespace THEN "TagInside" ELSE "InterTag")
       [] OTHER -> To(Collect(q, "cdata", c), "TagInside")

Markup(p, text, c) ==
  CASE p.state = "Initial" -> IF c = "<" THEN To(Next1(p), "TagOpening") ELSE Fail(p)
    [] p.state = "TagOpening" ->
         CASE c = "/" -> To(Next1(p), "TagClosingSlash")
           [] c = "?" -> [To(Next1(p), "TagNameCollect") EXCEPT !.preamble = 1]
           [] c = "!" -> ForwardScan(p, text, <<"!", "[">>,
                                     LAMBDA q : To(q, "TagCDATASection"), Fail)
           [] OTHER -> To(Collect(p, "tag", c), "TagNameCollect")
    [] p.state = "TagCDATASection" ->
         IF c = "]"
         THEN ForwardScan(p, text, <<"]", "]", ">">>,
                          LAMBDA q : To(q, "TagInside"), LAMBDA q : Collect(q, "cdata", c))
         ELSE Collect(p, "cdata", c)
    [] p.state = "TagNameCollect" ->
         CASE c = "/" -> To(Next1(p), "TagOpeningSlash")
           [] c = ">" -> To(AddTag(Next1(p)), "TagInside")
           [] c = ":" -> TagPrefix(p)
           [] OTHER -> Collect(p, "tag", c)
    [] p.state = "TagOpeningSlash" -> IF c = ">" THEN CloseTag(AddTag(Next1(p))) ELSE Fail(p)
    [] p.state = "TagClosingSlash" -> To(Collect(p, "tag", c), "TagClosing")
    [] p.state = "TagClosing" ->
         CASE c = ":" -> TagPrefix(p)
           [] c = ">" -> CloseTag(Next1(p))
           [] OTHER -> Collect(p, "tag", c)
    [] p.state = "TagNameComplete" ->
         IF c \in {"/", ">", "?"} THEN Opened(p, c) ELSE To(Collect(p, "attrib", c), "TagAttribute")
    [] p.state = "TagNameAlmostComplete" ->
         IF c \in {"/", ">", "?"} THEN Opened(p, c) ELSE Fail(p)
    [] p.state = "TagAttribute" ->
         CASE c = "=" -> To(Next1(p), "TagAttributeEqual")
           [] c = ":" -> AttribPrefix(p)
           [] OTHER -> Collect(p, "attrib", c)
    [] p.state = "TagAttributeComplete" ->
         IF c = "=" THEN To(Next1(p), "TagAttributeEqual") ELSE Fail(p)
    [] p.state = "TagAttributeEqual" ->
         IF c \in {"\"", "'"}
         THEN [To(Next1(p), "TagAttributeValue") EXCEPT !.quote = @ \/ c = "\""]
         ELSE Fail(p)
    [] p.state = "TagAttributeValue" ->
         CASE c = "\"" \/ (c = "'" /\ ~p.quote) ->
                [To(ParsedAttribute(Next1(p)), "TagNameAlmostComplete") EXCEPT !.quote = FALSE]
           [] c = "&" -> Decode(p, text)
           [] OTHER -> Collect(p, "value", c)

FeedOne(p, text) ==
  LET c == text[p.at]
  IN IF p.state \in {"InterTag", "TagInside"} THEN Content(p, text, c)
     ELSE IF c \in Whitespace /\ p.state \in Skipping THEN Next1(p)
     ELSE IF c \in Whitespace /\ p.state \in DOMAIN Ended THEN To(Next1(p), Ended[p.state])
     ELSE IF p.state \in DOMAIN Refused /\ c \in Refused[p.state] THEN Fail(p)
     ELSE Markup(p, text, c)

RECURSIVE FeedFrom(_, _)
FeedFrom(p, text) ==
  IF p.failed \/ p.waits \/ p.at > Len(text) THEN p ELSE FeedFrom(FeedOne(p, text), text)

Feed(p, data) ==
  LET fed == FeedFrom([p EXCEPT !.at = 1, !.backBuffer = <<>>], p.backBuffer \o data)
  IN [fed EXCEPT !.at = 1, !.waits = FALSE]
=============================================================================
