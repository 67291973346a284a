------------------------------ MODULE Grouping ------------------------------
(***************************************************************************)
(* normalizeEvent and buildGroupingKey: which events are one issue.        *)
(*                                                                         *)
(* A text is a sequence of words; " " is white space, ": " the separator   *)
(* of a title.  SHA-256 is taken to be injective, so a hash is the         *)
(* sequence that is hashed.                                                *)
(***************************************************************************)
EXTENDS Naturals, SequencesExt

CONSTANTS NUL,            \* the byte 0, which no text contains
          Texts           \* texts an event may have

\* The words of these texts, and those that the code adds.
Words == {": ", "other", "Unhandled event"} \cup UNION {ToSet(text) : text \in Texts}

ASSUME TextsAssumption == Texts \subseteq Seq(Words) /\ NUL \notin Words

\* An event, with the fields that normalizeEvent reads.
Event == [fingerprint : Seq(Texts), exception : Seq([type : Texts, value : Texts]),
          formatted : Texts, logMessage : Texts, message : Texts,
          culprit : Texts, transaction : Texts, platform : Texts]

Blank(text) == \A n \in DOMAIN text : text[n] = " "

\* strings.TrimSpace.
TrimSpace(text) ==
    LET words == {n \in DOMAIN text : text[n] # " "}
    IN  IF words = {} THEN <<>>
        ELSE SubSeq(text, CHOOSE n \in words : \A m \in words : n <= m,
                          CHOOSE n \in words : \A m \in words : n >= m)

FirstNonEmpty(texts) ==
    LET first == SelectInSeq(texts, LAMBDA text : ~Blank(text))
    IN  IF first = 0 THEN <<>> ELSE TrimSpace(texts[first])

\* Of the exceptions only the first one counts.
PrimaryException(evt) ==
    IF evt.exception = <<>> THEN [type |-> <<>>, value |-> <<>>]
    ELSE [type |-> TrimSpace(evt.exception[1].type),
          value |-> TrimSpace(evt.exception[1].value)]

\* (Mutant: a message goes before the exception.)
IssueTitleFromMessage(evt) ==
    LET ex == PrimaryException(evt)
    IN  FirstNonEmpty(<<evt.formatted, evt.logMessage, evt.message,
                        ex.type \o <<": ">> \o ex.value, evt.culprit, evt.transaction>>)

IssueTitle(evt) ==
    LET ex == PrimaryException(evt)
        other == FirstNonEmpty(<<evt.formatted, evt.logMessage, evt.message,
                                 evt.culprit, evt.transaction>>)
    IN  IF ex.type # <<>> /\ ex.value # <<>> THEN ex.type \o <<": ">> \o ex.value
        ELSE IF ex.type # <<>> THEN ex.type
        ELSE IF other # <<>> THEN other
        ELSE <<"Unhandled event">>

Culprit(evt) == FirstNonEmpty(<<evt.culprit, evt.transaction, IssueTitle(evt)>>)

Platform(evt) == FirstNonEmpty(<<evt.platform, <<"other">>>>)

HashParts(parts) ==
    FlattenSeq([n \in DOMAIN parts |-> TrimSpace(parts[n]) \o <<NUL>>])

BuildGroupingKey(evt) ==
    LET ex == PrimaryException(evt)
    IN  IF evt.fingerprint # <<>>
        THEN <<"fp:">> \o HashParts(evt.fingerprint)
        ELSE <<"fallback:">> \o HashParts(<<ex.type, ex.value, Culprit(evt),
                                            Platform(evt), IssueTitle(evt)>>)

(***************************************************************************)
(* What makes two events one issue.                                        *)
(***************************************************************************)
Trimmed(fingerprint) == [n \in DOMAIN fingerprint |-> TrimSpace(fingerprint[n])]

Fingerprinted(evt) == evt.fingerprint # <<>>

HasException(evt) == PrimaryException(evt).type # <<>>

\* What an event without an exception says.
Message(evt) ==
    FirstNonEmpty(<<evt.formatted, evt.logMessage, evt.message,
                    evt.culprit, evt.transaction, <<"Unhandled event">>>>)

\* Where it happened, if the client says so.
Place(evt) == FirstNonEmpty(<<evt.culprit, evt.transaction>>)

\* An event that names no place is taken to be at the one named like its title.
SamePlace(e1, e2) ==
    \/ Place(e1) = Place(e2)
    \/ {Place(e1), Place(e2)} = {<<>>, IssueTitle(e1)}

\* The same exception, or the same message where there is none, at the same
\* place on the same platform.
SameProblem(e1, e2) ==
    /\ PrimaryException(e1) = PrimaryException(e2)
    /\ HasException(e1) \/ Message(e1) = Message(e2)
    /\ SamePlace(e1, e2)
    /\ Platform(e1) = Platform(e2)

\* A client's fingerprint decides alone, and no event with one joins one
\* without.  Without fingerprints, events are one issue if and only if they
\* are the same problem: an event with an exception is known by the first
\* one, whatever messages or further exceptions it carries, but one exception
\* at two places, or on two platforms, is two issues (CHANGELOG.md:47 speaks
\* of the exception's type and value only).
GroupedAlike(e1, e2) ==
    LET same == BuildGroupingKey(e1) = BuildGroupingKey(e2)
    IN  CASE Fingerprinted(e1) /\ Fingerprinted(e2) ->
               same <=> Trimmed(e1.fingerprint) = Trimmed(e2.fingerprint)
          [] Fingerprinted(e1) # Fingerprinted(e2) -> ~same
          [] OTHER -> same <=> SameProblem(e1, e2)
=============================================================================
