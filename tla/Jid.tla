-------------------------------- MODULE Jid --------------------------------
(***************************************************************************)
(* Addresses (src/jid.cpp, src/prep.cpp): user@server/resource taken from  *)
(* a text or set part by part, with the strings full() and bare() kept     *)
(* beside the parts, in a build with libidn and in one without.  A text is *)
(* the sequence of its characters.                                         *)
(***************************************************************************)
EXTENDS Naturals, Sequences, SequencesExt

CONSTANTS JidTexts,   \* texts given to setJID()
          Users, Servers, Resources, \* texts given to the setters
          PortionSize, \* JID_PORTION_SIZE
          Reuses     \* an object in use, or one that became invalid, is set again

VARIABLE jid

jidVars == <<jid>>

-----------------------------------------------------------------------------
(* Stringprep is external: it maps case and refuses what a profile forbids;  *)
(* without libidn a part is only as long as it may be.                       *)

Lowered(s) == [i \in DOMAIN s |-> IF s[i] = "A" THEN "a" ELSE s[i]]

Forbidden(profile, s) == profile = "node" /\ \E i \in DOMAIN s : s[i] \in {"@", "/", " "}

\* Whether a part can be prepared, and what it becomes.
Prepares(idn, profile, s) ==
    /\ Len(s) <= PortionSize
    /\ idn => s # <<>> /\ ~Forbidden(profile, s)

Prepped(idn, profile, s) == IF idn /\ profile # "resource" THEN Lowered(s) ELSE s

Blank(idn) ==
    [idn |-> idn, username |-> <<>>, server |-> <<>>, serverRaw |-> <<>>, resource |-> <<>>,
     bare |-> <<>>, full |-> <<>>, valid |-> FALSE]

BareOf(j) == (IF j.username # <<>> THEN Append(j.username, "@") ELSE <<>>) \o j.server
FullOf(j) == j.bare \o (IF j.resource # <<>> THEN <<"/">> \o j.resource ELSE <<>>)

SetFull(j) == [j EXCEPT !.full = FullOf(j)]
SetStrings(j) == SetFull([j EXCEPT !.bare = BareOf(j)])

\* The place of a character at or behind another place; behind the end when there is none.
Find(s, c, from) ==
    LET places == {i \in from..Len(s) : s[i] = c}
    IN IF places = {} THEN Len(s) + 1 ELSE CHOOSE i \in places : \A k \in places : i <= k

\* One part of the text, when there is one: the rest is tried only if it can be prepared.
WithUser(j, given, s) ==
    IF ~given THEN j
    ELSE IF Prepares(j.idn, "node", s) THEN [j EXCEPT !.username = Prepped(j.idn, "node", s), !.valid = TRUE]
    ELSE [j EXCEPT !.valid = FALSE]

WithServer(j, s) ==
    IF Prepares(j.idn, "name", s)
      THEN [j EXCEPT !.serverRaw = s, !.server = Prepped(j.idn, "name", s), !.valid = TRUE]
      ELSE [j EXCEPT !.serverRaw = s, !.valid = FALSE]

WithResource(j, given, s) ==
    IF ~given THEN j
    ELSE IF Prepares(j.idn, "resource", s) THEN [j EXCEPT !.resource = s, !.valid = TRUE]
    ELSE [j EXCEPT !.valid = FALSE]

(* The first '@' ends the user, wherever it is; the '/' is looked for behind *)
(* it.                                                                       *)
SetJID(j, s) ==
    LET at == Find(s, "@", 1)
        named == at <= Len(s)
        slash == Find(s, "/", IF named THEN at ELSE 1)
        user == WithUser(j, named, SubSeq(s, 1, at - 1))
        server == WithServer(user, SubSeq(s, IF named THEN at + 1 ELSE 1, slash - 1))
        all == WithResource(server, slash <= Len(s), SubSeq(s, slash + 1, Len(s)))
    IN IF s = <<>> THEN Blank(j.idn)
       ELSE IF named /\ ~user.valid THEN user
       ELSE IF ~server.valid THEN server
       ELSE IF slash <= Len(s) /\ ~all.valid THEN all
       ELSE SetStrings(all)

SlipKeepsBare(j, s) == SetFull(WithUser(j, TRUE, s))

SetUsername(j, s) == SetStrings(WithUser(j, TRUE, s))
SetServer(j, s) == SetStrings(WithServer(j, s))
SetResource(j, s) == SetFull(WithResource(j, TRUE, s))

-----------------------------------------------------------------------------

JidInit == jid \in {Blank(idn) : idn \in BOOLEAN}

Unused == jid = Blank(jid.idn)

TakesText(s) == (Unused \/ s = <<>> \/ Reuses) /\ jid' = SetJID(jid, s)

TakesUser(s) == (Unused \/ jid.valid \/ Reuses) /\ jid' = SetUsername(jid, s)
TakesServer(s) == (Unused \/ jid.valid \/ Reuses) /\ jid' = SetServer(jid, s)
TakesResource(s) == (Unused \/ jid.valid \/ Reuses) /\ jid' = SetResource(jid, s)

JidNext ==
    \/ \E s \in JidTexts \cup {<<>>} : TakesText(s)
    \/ \E s \in Users : TakesUser(s)
    \/ \E s \in Servers : TakesServer(s)
    \/ \E s \in Resources : TakesResource(s)

JidSpec == JidInit /\ [][JidNext]_jidVars

-----------------------------------------------------------------------------

\* The strings beside the parts are those of the parts.
StringsFollow == jid.valid => jid.bare = BareOf(jid) /\ jid.full = FullOf(jid)

\* full() taken as a text gives the same address, if its server is a name of a host
\* and, without a user, its resource has no '@'.
FullKeeps ==
    LET Has(part, c) == \E i \in DOMAIN part : part[i] = c
    IN jid.valid /\ jid.server # <<>> /\ ~Has(jid.server, "@") /\ (jid.username = <<>> => ~Has(jid.resource, "@"))
         => [SetJID(Blank(jid.idn), jid.full) EXCEPT !.serverRaw = jid.serverRaw] = jid

\* The resource begins at the first '/' (jid.cpp:30-31).
SlashFirst ==
    jid.valid => \A i \in DOMAIN jid.username : jid.username[i] # "/"

-----------------------------------------------------------------------------
(* XEP-0106, character by character as the code replaces them.  Codes are    *)
(* written as characters too.                                                *)

Escapes ==
    <<<<"\\", <<"\\", "5", "c">>>>, <<" ", <<"\\", "2", "0">>>>, <<"\"", <<"\\", "2", "2">>>>,
      <<"&", <<"\\", "2", "6">>>>, <<"'", <<"\\", "2", "7">>>>, <<"/", <<"\\", "2", "f">>>>,
      <<":", <<"\\", "3", "a">>>>, <<"<", <<"\\", "3", "c">>>>, <<">", <<"\\", "3", "e">>>>,
      <<"@", <<"\\", "4", "0">>>>>>

RECURSIVE ReplacesAll(_, _, _), Escaped(_, _), Unescaped(_, _)

ReplacesAll(s, what, by) ==
    IF s = <<>> THEN s
    ELSE IF IsPrefix(what, s) THEN by \o ReplacesAll(SubSeq(s, Len(what) + 1, Len(s)), what, by)
    ELSE <<Head(s)>> \o ReplacesAll(Tail(s), what, by)

Escaped(s, i) ==
    IF i > Len(Escapes) THEN s
    ELSE Escaped(ReplacesAll(s, <<Escapes[i][1]>>, Escapes[i][2]), i + 1)

EscapeNode(s) == Escaped(s, 1)

\* The backslash comes last.
Unescaped(s, i) ==
    IF i > Len(Escapes) THEN ReplacesAll(s, Escapes[1][2], <<Escapes[1][1]>>)
    ELSE Unescaped(ReplacesAll(s, Escapes[i][2], <<Escapes[i][1]>>), i + 1)

UnescapeNode(s) == Unescaped(s, 2)

NodeSamples == UNION {[1..n -> {"\\", "2", "0", "5", "c", " ", "@"}] : n \in 0..3}

\* What was escaped has nothing a node may not have, and comes back.
EscapesKeep ==
    \A s \in NodeSamples : UnescapeNode(EscapeNode(s)) = s /\ ~Forbidden("node", EscapeNode(s))

\* An address is the same however it was put together: its strings are those of its
\* parts, and taken as a text they are the address again (jid.cpp:21-79).
JidSound == StringsFollow /\ FullKeeps
=============================================================================
