---------------------------- MODULE HandlerLists ----------------------------
(***************************************************************************)
(* The lists of handlers of a ClientBase, and the loops that offer a       *)
(* stanza to them, one callback after the other.  From inside a callback   *)
(* the application may register and remove handlers, on the same list,     *)
(* while the loop that called it holds an iterator into that list.         *)
(*                                                                         *)
(* An iterator is the index of its node.  A key is what an entry asks for: *)
(* a bare JID, a tag with its namespace, or Anything.                       *)
(***************************************************************************)
EXTENDS Naturals, FiniteSets, Sequences, SequencesExt

CONSTANTS
  Handlers,     \* the application's handler objects
  Keys,         \* the bare JIDs and the tags stanzas come with
  Anything,     \* the key of a handler that takes everything
  Twice,        \* is one handler registered twice for the same thing?
  SelfRemoval,  \* the lists from which a handler being called removes itself
  OtherRemoval, \* ... and those from which it removes another one
  MaxEntries,   \* bound: entries of one list
  MaxChanges    \* bound: handlers registered and removed

VARIABLES
  listed,    \* the entries of each list, oldest first
  loop,      \* the loop that offers a stanza to a list, or NoLoop
  changes,   \* the handlers registered and removed so far
  givenTo,   \* the entries this stanza was given to, in order
  entitled,  \* those on the list ever since the stanza came
  dangling   \* has an iterator been used whose node is gone?

listVars == <<listed, loop, changes, givenTo, entitled, dangling>>

\* jid: m_presenceJidHandlers; all: the lists of the other kinds of stanza,
\* events and listeners, which are walked alike; presence and tag have
\* loops of their own.
ListKinds == {"jid", "presence", "tag", "all"}

KeysOf(l) == IF l \in {"jid", "tag"} THEN Keys ELSE {Anything}

Entries(l) == [who : Handlers, key : KeysOf(l)]

NoLoop == [list |-> "none"]

ListInit ==
  /\ listed = [l \in ListKinds |-> <<>>]
  /\ loop = NoLoop
  /\ changes = 0
  /\ givenTo = <<>>
  /\ entitled = {}
  /\ dangling = FALSE

-----------------------------------------------------------------------------
(* Registering and removing. *)

CalledNow == IF loop = NoLoop THEN {} ELSE loop.calling

\* The lists have no mutex: the application calls between two stanzas, or
\* from inside a callback.
ApplicationRuns == loop = NoLoop \/ CalledNow # {}

\* A new entry comes last; an iterator that was at the end of the list
\* stays there.
Register(l, e) ==
  /\ ApplicationRuns
  /\ changes < MaxChanges
  /\ Len(listed[l]) < MaxEntries
  /\ Twice \/ e \notin Range(listed[l])
  /\ listed' = [listed EXCEPT ![l] = Append(@, e)]
  /\ loop' = IF loop # NoLoop /\ loop.list = l /\ loop.at > Len(listed[l])
               THEN [loop EXCEPT !.at = @ + 1] ELSE loop
  /\ changes' = changes + 1
  /\ UNCHANGED <<givenTo, entitled, dangling>>

Matches(e, key) == e.key = Anything \/ e.key = key

\* What the application removes from inside a callback.
MayRemove(l, e) ==
  loop # NoLoop /\ l = loop.list =>
    IF e \in CalledNow THEN l \in SelfRemoval ELSE l \in OtherRemoval

\* The nodes of s whose indices are in S, in their order.
Part(s, S) ==
  [n \in 1..Cardinality(S) |-> s[CHOOSE i \in S : Cardinality({j \in S : j <= i}) = n]]

\* Every entry equal to e goes; an iterator to one of them is lost, one to
\* a later node still points there.
Unregister(l, e) ==
  LET s == listed[l]
      gone == {i \in DOMAIN s : s[i] = e}
      here == loop # NoLoop /\ loop.list = l
  IN /\ ApplicationRuns
     /\ changes < MaxChanges
     /\ gone # {}
     /\ MayRemove(l, e)
     /\ listed' = [listed EXCEPT ![l] = Part(s, DOMAIN s \ gone)]
     /\ loop' = IF here
                  THEN [loop EXCEPT !.at = @ - Cardinality({i \in gone : i < @})]
                  ELSE loop
     /\ dangling' = (dangling \/ (here /\ loop.at \in gone))
     /\ entitled' = IF here THEN entitled \ {e} ELSE entitled
     /\ changes' = changes + 1
     /\ UNCHANGED givenTo

-----------------------------------------------------------------------------
(* The loops. *)

\* at: the node the iterator points to.  hit: was a handler called?
Start(l, key) == [list |-> l, key |-> key, at |-> 1, calling |-> {},
                  hit |-> FALSE]

Concerned(l, key) == {e \in Range(listed[l]) : Matches(e, key)}

\* A stanza comes: a presence goes to the handlers of its JID first.
Arrive(l, key) ==
  /\ loop = NoLoop
  /\ l # "presence"
  /\ loop' = Start(l, key)
  /\ givenTo' = <<>>
  /\ entitled' = Concerned(l, key)
  /\ UNCHANGED <<listed, changes, dangling>>

SlipAdvancesLate(l) == FALSE

\* The loop over m_presenceJidHandlers moves on before it calls the
\* handler, the others when the handler has returned.
AdvancesFirst(l) == l = "jid"

\* The node the loop looks at next that concerns the stanza.
NextAt == {i \in loop.at..Len(listed[loop.list]) :
             Matches(listed[loop.list][i], loop.key)}

Nearest(S) == CHOOSE i \in S : \A j \in S : i <= j

CallNext ==
  /\ loop # NoLoop
  /\ CalledNow = {}
  /\ NextAt # {}
  /\ LET i == Nearest(NextAt)
         e == listed[loop.list][i]
     IN /\ loop' = [loop EXCEPT !.calling = {e}, !.hit = TRUE,
                      !.at = IF AdvancesFirst(loop.list) THEN i + 1 ELSE i]
        /\ givenTo' = Append(givenTo, e)
  /\ UNCHANGED <<listed, changes, entitled, dangling>>

CallReturns ==
  /\ CalledNow # {}
  /\ loop' = [loop EXCEPT !.calling = {},
                !.at = IF AdvancesFirst(loop.list) THEN @ ELSE @ + 1]
  /\ UNCHANGED <<listed, changes, givenTo, entitled, dangling>>

SlipOnlyJid == loop.list = "jid"

\* Presence nobody asked for by JID is for the general handlers.
GoesOn == loop.list = "jid" /\ ~loop.hit

Finish ==
  /\ loop # NoLoop
  /\ CalledNow = {}
  /\ NextAt = {}
  /\ IF GoesOn
       THEN /\ loop' = Start("presence", loop.key)
            /\ entitled' = Concerned("presence", loop.key)
       ELSE /\ loop' = NoLoop
            /\ entitled' = {}
  /\ UNCHANGED <<listed, changes, givenTo, dangling>>

\* After a use of a dangling iterator nothing is known.
ListNext ==
  /\ ~dangling
  /\ \/ \E l \in ListKinds : \E e \in Entries(l) : Register(l, e) \/ Unregister(l, e)
     \/ \E l \in ListKinds, key \in Keys : Arrive(l, key)
     \/ CallNext
     \/ CallReturns
     \/ Finish

ListSpec == ListInit /\ [][ListNext]_listVars

-----------------------------------------------------------------------------

ListTypeOK ==
  /\ listed \in [ListKinds -> Seq([who : Handlers, key : Keys \cup {Anything}])]
  /\ \/ loop = NoLoop
     \/ loop \in [list : ListKinds, key : Keys, at : Nat \ {0}, hit : BOOLEAN,
                 calling : SUBSET [who : Handlers, key : Keys \cup {Anything}]]
  /\ changes \in 0..MaxChanges
  /\ dangling \in BOOLEAN

(* No loop goes on from a node that is gone: notifyPresenceHandlers() copes *)
(* with a handler that removes itself by JID, the plain loops with one that *)
(* removes another.                                                         *)
IteratorsHold == ~dangling

(* Whatever handlers are registered and removed while a stanza is given     *)
(* round, at the end everyone concerned who was there from the first to the *)
(* last has had it exactly once, and the general presence handlers had it   *)
(* only if nobody had asked for that JID.                                   *)
EachToldOnce ==
  /\ \A i, j \in DOMAIN givenTo : givenTo[i] = givenTo[j] /\ i # j => givenTo[i] \notin entitled
  /\ loop # NoLoop /\ CalledNow = {} /\ NextAt = {} => entitled \subseteq Range(givenTo)
  /\ \A i, j \in DOMAIN givenTo : givenTo[i].key = Anything <=> givenTo[j].key = Anything
=============================================================================
