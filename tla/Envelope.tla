------------------------------ MODULE Envelope ------------------------------
(***************************************************************************)
(* readRequestBody and parseEnvelope: what the server gets out of an       *)
(* envelope that a client has written.                                     *)
(*                                                                         *)
(* A body is a sequence of symbols: newlines, bytes of a payload, and the  *)
(* two halves of a line of JSON, which decodes if it has both.  Positions  *)
(* count the symbols before them, as offsets do in Go.                     *)
(***************************************************************************)
EXTENDS Integers, SequencesExt

CONSTANTS MaxBody         \* symbols of a body that are read: 2 MiB

ASSUME BodyAssumption == MaxBody \in Nat

NL == [sym |-> "newline"]
Byte(b) == [sym |-> "byte", byte |-> b]
JSON(value) == <<[sym |-> "opening", value |-> value], [sym |-> "closing"]>>

\* What may be in a payload: a line of it may look like the header of an item.
ItemHeader == [type : STRING, length : Int]
Symbol == {NL} \cup [sym : {"byte"}, byte : STRING]
               \cup [sym : {"opening"}, value : ItemHeader] \cup [sym : {"closing"}]

(***************************************************************************)
(* Reading.                                                                *)
(***************************************************************************)

\* io.LimitReader cuts without an error.
ReadRequestBody(sent) == SubSeq(sent, 1, IF Len(sent) < MaxBody THEN Len(sent) ELSE MaxBody)

\* The line from pos on, without its newline, for pos < len(body).
ReadLine(body, pos) ==
    LET ends == {n \in pos .. Len(body) - 1 : body[n + 1] = NL}
    IN  IF ends = {}
        THEN [line |-> SubSeq(body, pos + 1, Len(body)), next |-> Len(body)]
        ELSE LET end == CHOOSE n \in ends : \A m \in ends : n <= m
             IN  [line |-> SubSeq(body, pos + 1, end), next |-> end + 1]

Decodes(line) == Len(line) = 2 /\ line = JSON(line[1].value)

Failed == [ok |-> FALSE, items |-> <<>>]

\* readItemPayload: length bytes and a newline that may follow them; or a
\* line when the length is 0, which "unexpected end" refuses at the end.
\* (Mutant: a length beyond the end is shortened.)
ReadItemPayloadClamped(body, pos, length) ==
    IF length > 0
    THEN LET end == IF pos + length > Len(body) THEN Len(body) ELSE pos + length
             next == IF end < Len(body) /\ body[end + 1] = NL THEN end + 1 ELSE end
         IN  [ok |-> TRUE, payload |-> SubSeq(body, pos + 1, end), next |-> next]
    ELSE IF pos >= Len(body)
    THEN [ok |-> FALSE]
    ELSE LET read == ReadLine(body, pos)
         IN  [ok |-> TRUE, payload |-> read.line, next |-> read.next]

ReadItemPayload(body, pos, length) ==
    IF length > 0
    THEN LET end == pos + length
             next == IF end < Len(body) /\ body[end + 1] = NL THEN end + 1 ELSE end
         IN  IF end > Len(body)
             THEN [ok |-> FALSE]
             ELSE [ok |-> TRUE, payload |-> SubSeq(body, pos + 1, end), next |-> next]
    ELSE IF pos >= Len(body)
    THEN [ok |-> FALSE]
    ELSE LET read == ReadLine(body, pos)
         IN  [ok |-> TRUE, payload |-> read.line, next |-> read.next]

\* The items from each position on, after the line of the envelope's header;
\* one error loses those before it too.
\* Blank lines and headers without a type are passed over.
ItemsFrom(body) ==
    LET f[pos \in 1 .. Len(body)] ==
          IF pos = Len(body) THEN [ok |-> TRUE, items |-> <<>>]
          ELSE LET read == ReadLine(body, pos)
                   header == read.line[1].value
                   item == ReadItemPayload(body, read.next, header.length)
                   rest == f[item.next]
               IN  IF read.line = <<>> THEN f[read.next]
                   ELSE IF ~Decodes(read.line) THEN Failed
                   ELSE IF header.type = "" THEN f[read.next]
                   ELSE IF ~item.ok \/ ~rest.ok THEN Failed
                   ELSE [ok |-> TRUE, items |->
                           <<[type |-> header.type, payload |-> item.payload]>> \o rest.items]
    IN  f

ParseEnvelope(body) ==
    IF body = <<>> THEN Failed
    ELSE LET read == ReadLine(body, 0)
         IN  IF read.line = <<>> \/ Decodes(read.line)
             THEN ItemsFrom(body)[read.next]
             ELSE Failed

\* The DSN of an envelope's header, or "".
HeaderDSN(body) ==
    LET read == ReadLine(body, 0)
    IN  IF body # <<>> /\ Decodes(read.line) THEN read.line[1].value.dsn ELSE ""

(***************************************************************************)
(* Writing, as the protocol has it: header lines, each payload followed by *)
(* a newline, which the last may go without.  An item declares its length  *)
(* or leaves it out (0).                                                   *)
(***************************************************************************)
Item == [type : STRING, declared : BOOLEAN, payload : Seq(Symbol)]

WriteItem(item) ==
    JSON([type |-> item.type, length |-> IF item.declared THEN Len(item.payload) ELSE 0])
        \o <<NL>> \o item.payload

WriteEnvelope(dsn, items, ending) ==
    JSON([dsn |-> dsn])
        \o FlattenSeq([n \in DOMAIN items |-> <<NL>> \o WriteItem(items[n])]) \o ending

Sent(items) ==
    FlattenSeq([n \in DOMAIN items |->
        IF items[n].type = "" THEN <<>>
        ELSE <<[type |-> items[n].type, payload |-> items[n].payload]>>])

\* An item without a declared length cannot hold a newline, one without a
\* type nothing.
Writable(items) ==
    \A n \in DOMAIN items :
        /\ items[n].declared \/ NL \notin ToSet(items[n].payload)
        /\ items[n].type = "" => items[n].payload = <<>>

\* A last item that is empty needs its newline.
Terminated(items, ending) ==
    items = <<>> \/ Last(items).payload # <<>> \/ ending # <<>>

(***************************************************************************)
(* Whatever its payloads contain, an envelope that is not longer than the  *)
(* limit arrives item by item as it was sent; one that is cut loses items  *)
(* from the end, but a payload of declared length is never torn.           *)
(***************************************************************************)
ArrivesWholeOrCut(dsn, items, ending) ==
    LET written == WriteEnvelope(dsn, items, ending)
        parsed == ParseEnvelope(ReadRequestBody(written))
    IN  /\ Len(written) <= MaxBody /\ Terminated(items, ending)
               => parsed = [ok |-> TRUE, items |-> Sent(items)]
        /\ parsed.ok /\ (\A n \in DOMAIN items : items[n].declared)
               => IsPrefix(parsed.items, Sent(items))
=============================================================================
