--------------------------- MODULE CandidateLocators ---------------------------
(***************************************************************************)
(* Structured locators, their display strings and the way back             *)
(* (candidateLocator.ts).  A healed locator is proposed, reviewed and      *)
(* stored in the registry as a display string, and read back from it when  *)
(* the registry offers it as a candidate.                                  *)
(*                                                                         *)
(* A text is a sequence of characters, of which only quotes, the backslash *)
(* and the opening of a template are told apart.  Nested frames are the    *)
(* sequence of their selectors, outermost first; a display string is one   *)
(* string literal for each argument of the calls it spells.                *)
(***************************************************************************)
EXTENDS Integers, Sequences, SequencesExt

CONSTANTS
    Texts,        \* values of test ids, labels, texts, selectors and names
    Selectors     \* sequences of frame selectors

\* No text is empty, and "null" is not a character.
ASSUME LocatorAssumption ==
    /\ Texts \subseteq Seq(STRING) \ {<<>>}
    /\ Selectors \subseteq Seq(Texts)
    /\ \A text \in Texts : "null" \notin Range(text)

Quotes == {"single", "double", "back"}
Backslash == "backslash"
Template  == "${"
NoText == <<"null">>

VARIABLES
    locator,      \* a locator the framework produced
    display,      \* its display string
    parsed        \* what parseLegacyLocatorString makes of that

locatorVars == <<locator, display, parsed>>

Blank(kind) == [frames |-> <<>>, kind |-> kind, value |-> <<>>]
Unset == Blank("unset")
Null  == Blank("null")

\* Leaves: getByTestId, getByLabel, getByText, page.locator, or getByRole, whose role
\* is a plain word, with a name.
LeafKinds == {"testId", "label", "text", "css", "roleName"}
Locators == [frames : Selectors, kind : LeafKinds, value : Texts]

LocatorInit == locator = Unset /\ display = Unset /\ parsed = Unset

-----------------------------------------------------------------------------

\* Mutant of QuoteLiteral: every literal is in single quotes.
QuoteLiteral_Bug(text) == IF text = <<>> THEN NoText ELSE <<"single">> \o text \o <<"single">>

\* quoteLiteral: the first kind of quote the text is free of; nothing is escaped.
QuoteLiteral(text) ==
    LET free(quote) == quote \notin Range(text)
        within(quote) == <<quote>> \o text \o <<quote>>
    IN  IF text = <<>> THEN NoText
        ELSE IF free("single") THEN within("single")
        ELSE IF free("double") THEN within("double")
        ELSE IF free("back") /\ free(Template) THEN within("back")
        ELSE NoText

\* describeCandidateLocator.
DescribeCandidateLocator(l) ==
    LET frames == [i \in DOMAIN l.frames |-> QuoteLiteral(l.frames[i])]
        value  == QuoteLiteral(l.value)
    IN  IF NoText \in Range(frames) \cup {value} THEN Null
        ELSE [frames |-> frames, kind |-> l.kind, value |-> value]

\* A reading: the text so far, and where it is.  Taking the backslash off the characters
\* in `escaped`, one character on:
TakeOff(escaped, read, c) ==
    CASE read.at = "open" /\ c = Backslash    -> [read EXCEPT !.at = "escaped"]
      [] read.at = "open" /\ c # Backslash    -> [read EXCEPT !.text = Append(@, c)]
      [] read.at = "escaped" /\ c \in escaped -> [text |-> Append(read.text, c), at |-> "open"]
      [] read.at = "escaped" /\ c \notin escaped /\ c = Backslash ->
            [read EXCEPT !.text = Append(@, Backslash)]
      [] OTHER -> [text |-> read.text \o <<Backslash, c>>, at |-> "open"]

Unescape(text, escaped) ==
    LET all == FoldLeft(LAMBDA read, c : TakeOff(escaped, read, c),
                        [text |-> <<>>, at |-> "open"], text)
    IN  IF all.at = "escaped" THEN Append(all.text, Backslash) ELSE all.text

\* parseQuotedStringLiteral: the literal spans its input; pairs of backslashes are
\* made one, then quotes lose theirs.
ParseQuotedStringLiteral(literal) ==
    Unescape(Unescape(SubSeq(literal, 2, Len(literal) - 1), {Backslash}), Quotes)

\* readLeadingQuotedLiteral: up to the first quote that is not escaped, every escape
\* taken off; nothing unless that is the end of the literal.
ReadOn(quote, read, c) ==
    CASE read.at = "closed"                -> [read EXCEPT !.at = "beyond"]
      [] read.at = "beyond"                -> read
      [] read.at = "escaped"               -> [text |-> Append(read.text, c), at |-> "open"]
      [] read.at = "open" /\ c = Backslash -> [read EXCEPT !.at = "escaped"]
      [] read.at = "open" /\ c = quote     -> [read EXCEPT !.at = "closed"]
      [] OTHER                             -> [read EXCEPT !.text = Append(@, c)]

ReadLeadingQuotedLiteral(literal) ==
    LET all == FoldLeft(LAMBDA read, c : ReadOn(Head(literal), read, c),
                        [text |-> <<>>, at |-> "open"], Tail(literal))
    IN  IF all.at = "closed" /\ all.text # <<>> THEN all.text ELSE NoText

\* parseLegacyLocatorString: frame selectors are read as leading literals, the
\* arguments of the leaf as whole ones.
ParseLegacyLocatorString(d) ==
    LET frames == [i \in DOMAIN d.frames |-> ReadLeadingQuotedLiteral(d.frames[i])] IN
    IF NoText \in Range(frames) THEN Null
    ELSE [frames |-> frames, kind |-> d.kind, value |-> ParseQuotedStringLiteral(d.value)]

-----------------------------------------------------------------------------

\* A producer builds a locator and emits its display string with it.
Describe ==
    /\ locator = Unset
    /\ locator' \in Locators
    /\ display' = DescribeCandidateLocator(locator')
    /\ UNCHANGED parsed

\* The registry's entry for the string is made a candidate again.
Parse ==
    /\ display.kind \in LeafKinds /\ parsed = Unset
    /\ parsed' = ParseLegacyLocatorString(display)
    /\ UNCHANGED <<locator, display>>

LocatorNext == Describe \/ Parse

-----------------------------------------------------------------------------

\* What a text loses on the way: as the argument of a leaf, a backslash before a
\* quote or before another backslash; as a frame selector, any backslash.
SurvivesInLeaf(text) ==
    \A i \in 1 .. Len(text) - 1 :
        text[i] = Backslash => text[i + 1] \notin Quotes \cup {Backslash}
SurvivesInFrame(text) == Backslash \notin Range(text)

(***************************************************************************)
(* "describe -> parseLegacyLocatorString recovers the structured locator", *)
(* exactly when no text in it has an escape the parser takes off, and a    *)
(* locator has no display string exactly when one of its texts has both    *)
(* plain quotes and a back quote or a template.                            *)
(***************************************************************************)
DisplayStringsRoundTrip ==
    /\ display = Null <=>
           \E text \in Range(locator.frames) \cup {locator.value} :
               /\ {"single", "double"} \subseteq Range(text)
               /\ {"back", Template} \cap Range(text) # {}
    /\ parsed # Unset =>
           (parsed = locator
                <=> /\ SurvivesInLeaf(locator.value)
                    /\ \A i \in DOMAIN locator.frames : SurvivesInFrame(locator.frames[i]))
=============================================================================
