---------------------------- MODULE StreamPieces ----------------------------
(***************************************************************************)
(* The parser on a connection (Parser::feed(), called by                   *)
(* ClientBase::handleReceivedData() with every piece of data).  A stream   *)
(* is the declaration, the header and stanzas, as one peer writes them, or *)
(* the same with a character lost; the connection cuts it anywhere.        *)
(***************************************************************************)
EXTENDS XmlParser
LOCAL INSTANCE SequencesExt

CONSTANTS
  Stanzas,     \* what is written: sequences of elements
  Raw,         \* streams written in another way than Tag::xml() does
  Sizes,       \* how much a piece may hold
  Damage,      \* a character may be missing
  Reconnects   \* the connection may be lost, and a new stream begin

VARIABLES
  written,     \* the stream as text
  sent,        \* how much of it went through the parser
  parser

vars == <<written, sent, parser>>

\* <?xml version='1.0'?><stream:stream xmlns:stream='...'>
Header ==
  <<"<", "?", "M", " ", "v", "=", "'", "1", "'", "?", ">">>
  \o <<"<", "S", ":", "S", " ", "X", ":", "S", "=", "'", "N", "'", ">">>

Closing == <<"<", "/", "S", ":", "S", ">">>

Text(stanzas) == Header \o FlattenSeq([i \in DOMAIN stanzas |-> Xml(stanzas[i])]) \o Closing

Streams == {Text(s) : s \in Stanzas} \cup {Header \o raw : raw \in Raw}

Damaged(text) == IF Damage THEN {RemoveAt(text, i) : i \in DOMAIN text} ELSE {}

Init ==
  /\ written \in Streams \cup UNION {Damaged(text) : text \in Streams}
  /\ sent = 0
  /\ parser = NewParser

\* A piece of the stream arrives.
Arrive(n) ==
  /\ ~parser.failed
  /\ sent + n <= Len(written)
  /\ parser' = Feed(parser, SubSeq(written, sent + 1, sent + n))
  /\ sent' = sent + n
  /\ UNCHANGED written

\* The connection is lost: ClientBase::handleDisconnect() cleans the parser up.
Reconnect ==
  /\ Reconnects /\ sent > 0
  /\ parser' = [Cleanup(parser) EXCEPT !.heard = <<>>]
  /\ sent' = 0
  /\ UNCHANGED written

Next == (\E n \in Sizes : Arrive(n)) \/ Arrive(Len(written) - sent) \/ Reconnect

Spec == Init /\ [][Next]_vars

-----------------------------------------------------------------------------
\* However the stream is cut, the parser hands over what it would hand over for
\* the stream in one piece, and takes or refuses it alike; of a stream that was
\* not damaged it hands over the header and every stanza as it was written.
PiecesParse ==
  LET whole == Feed(NewParser, written)
      Written(i) == Xml(parser.heard[i])
  IN /\ IsPrefix(parser.heard, whole.heard)
     /\ sent = Len(written) \/ parser.failed =>
          parser.heard = whole.heard /\ parser.failed = whole.failed
     /\ sent = Len(written) =>
          \A stanzas \in Stanzas : written = Text(stanzas) =>
            /\ ~parser.failed
            /\ Len(parser.heard) = Len(stanzas) + 1
            /\ \A i \in DOMAIN stanzas : Written(i + 1) = Xml(stanzas[i])
=============================================================================
