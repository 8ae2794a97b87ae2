------------------------------ MODULE LeaseText -----------------------------
(***************************************************************************)
(* The texts that name leases: LeaseId::new, parse_connection_field and    *)
(* the grammar of the control panel's two statements                       *)
(* (crates/pgtest-core/src/worker_engine/lease_id.rs and                   *)
(* crates/pgtest-wire/src: connection.rs, control_panel/statement.rs with  *)
(* control_panel/grammar.pest).                                            *)
(*                                                                         *)
(* A text is a sequence of symbols.  A symbol is a character, or a word or *)
(* punctuation the grammar reads as a whole ("select", "pgtest_release",   *)
(* "$1", "::", "text", in any case); "ws" is any white space, and any      *)
(* other symbol stands for other characters.                               *)
(***************************************************************************)
EXTENDS Integers, Sequences, FiniteSets

CONSTANTS
    MaxLeaseIdBytes,    \* 256
    WideSymbols,        \* symbols that are two bytes long in UTF-8
    TextSymbols,        \* symbols of the bounded texts the properties quantify over
    MaxText             \* bound: their length

ASSUME TextAssumption ==
    MaxLeaseIdBytes \in Nat /\ MaxText \in Nat /\ TextSymbols \subseteq STRING

----------------------------------------------------------------------------
\* LeaseId::new.

Bytes(text) == Len(text) + Cardinality({i \in DOMAIN text : text[i] \in WideSymbols})

\* Faulty variant: only the length is looked at.
AnyShortText(text) == text # <<>> /\ Bytes(text) <= MaxLeaseIdBytes

ValidLeaseId(text) ==
    /\ text # <<>>
    /\ Bytes(text) <= MaxLeaseIdBytes
    /\ \A i \in DOMAIN text : text[i] \notin {"/", "NUL"}

----------------------------------------------------------------------------
\* parse_connection_field: `template/lease-id', split at the first slash.

BadField == [ok |-> FALSE]

Slashes(input) == {i \in DOMAIN input : input[i] = "/"}

ParseConnectionField(input) ==
    IF Slashes(input) = {} THEN BadField
    ELSE LET slash == CHOOSE i \in Slashes(input) : \A j \in Slashes(input) : i <= j
             lease == SubSeq(input, slash + 1, Len(input))
         IN  IF slash = 1 \/ Cardinality(Slashes(input)) > 1 \/ ~ValidLeaseId(lease)
             THEN BadField
             ELSE [ok |-> TRUE, database |-> SubSeq(input, 1, slash - 1), lease |-> lease]

----------------------------------------------------------------------------
\* The grammar.  A rule maps the position it starts at to the position behind
\* what it consumed, or to NoMatch; there is no backtracking into a rule.

NoMatch == 0

At(text, i, symbol) == i # NoMatch /\ i <= Len(text) /\ text[i] = symbol

Token(text, i, symbol) == IF At(text, i, symbol) THEN i + 1 ELSE NoMatch

\* ws*
Spaces(text, i) ==
    LET from[j \in 1 .. Len(text) + 1] == IF At(text, j, "ws") THEN from[j + 1] ELSE j
    IN  IF i = NoMatch THEN NoMatch ELSE from[i]

\* ws+
SomeSpaces(text, i) == IF At(text, i, "ws") THEN Spaces(text, i) ELSE NoMatch

\* text_literal: pairs of quotes and other characters, as far as they go, then
\* the closing quote.
TextLiteral(text, i) ==
    LET close[j \in 1 .. Len(text) + 1] ==
            IF j > Len(text) THEN NoMatch
            ELSE IF text[j] # "'" THEN close[j + 1]
            ELSE IF At(text, j + 1, "'") THEN close[j + 2]
            ELSE j + 1
    IN  IF At(text, i, "'") THEN close[i + 1] ELSE NoMatch

\* parameter: the cast is taken when it is complete.
Parameter(text, i) ==
    LET cast == Token(text, Spaces(text, Token(text, Spaces(text, i + 1), "::")), "text")
    IN  IF ~At(text, i, "$1") THEN NoMatch
        ELSE IF cast # NoMatch THEN cast
        ELSE i + 1

\* What query allows after its statement.
QueryEnds(text, i) ==
    LET j == Spaces(text, i)
    IN  i # NoMatch /\ Spaces(text, IF At(text, j, ";") THEN j + 1 ELSE j) > Len(text)

----------------------------------------------------------------------------
\* PgTestQueryTypeControlStatement::parse.

Unsupported == [kind |-> "Unsupported", literal |-> <<>>]
Ping == [kind |-> "Ping", literal |-> <<>>]
ReleaseParameter == [kind |-> "Parameter", literal |-> <<>>]
ReleaseLiteral(value) == [kind |-> "Literal", literal |-> value]

\* Faulty variant: the quotes inside a literal stay doubled.
KeepQuotes(literal) == literal

\* replace("''", "'"), from left to right.
Unquote(literal) ==
    LET from[j \in 1 .. Len(literal) + 1] ==
            IF j > Len(literal) THEN <<>>
            ELSE <<literal[j]>> \o
                 from[IF At(literal, j, "'") /\ At(literal, j + 1, "'") THEN j + 2 ELSE j + 1]
    IN  from[1]

ControlStatement(text) ==
    LET verb == SomeSpaces(text, Token(text, Spaces(text, 1), "select"))
        ping == Token(text, verb, "1")
        argument ==
            Spaces(text, Token(text, Spaces(text, Token(text, verb, "pgtest_release")), "("))
        literal == TextLiteral(text, argument)
        parameter == Parameter(text, argument)
        release(i) == QueryEnds(text, Token(text, Spaces(text, i), ")"))
    IN  CASE QueryEnds(text, ping) -> Ping
          [] release(literal) -> ReleaseLiteral(Unquote(SubSeq(text, argument + 1, literal - 2)))
          [] release(parameter) -> ReleaseParameter
          [] OTHER -> Unsupported

----------------------------------------------------------------------------
\* Properties, over every text of up to MaxText symbols.

BoundedTexts == UNION {[1 .. n -> TextSymbols] : n \in 0 .. MaxText}

\* A value with its quotes doubled, in quotes.
Quoted(value) ==
    LET doubled[j \in 1 .. Len(value) + 1] ==
            IF j > Len(value) THEN <<>>
            ELSE (IF value[j] = "'" THEN <<"'", "'">> ELSE <<value[j]>>) \o doubled[j + 1]
    IN  <<"'">> \o doubled[1] \o <<"'">>

Call(argument) == <<"select", "ws", "pgtest_release", "(">> \o argument \o <<")">>

\* Texts that, quoted, are not released as they are, and texts that are accepted
\* as the literal of a value they are not the quotation of.
MisreadLiterals ==
    {text \in BoundedTexts :
        \/ ControlStatement(Call(Quoted(text))) # ReleaseLiteral(text)
        \/ LET statement == ControlStatement(Call(text))
           IN  statement.kind = "Literal" /\ text # Quoted(statement.literal)}

\* Fields that are accepted or refused, or split, other than as template, slash
\* and lease ID without a further slash.
MisreadFields ==
    {input \in BoundedTexts :
        LET parsed == ParseConnectionField(input)
            readings == {i \in Slashes(input) :
                            i > 1 /\ ValidLeaseId(SubSeq(input, i + 1, Len(input)))}
        IN  \/ parsed.ok # (readings # {} /\ Cardinality(Slashes(input)) = 1)
            \/ parsed.ok /\ input # parsed.database \o <<"/">> \o parsed.lease}

\* The argument of a release that is accepted as a literal is a value with its
\* quotes doubled, and that very value is released: no text can end the literal
\* early, and every lease ID can be written.  A connection field is accepted
\* exactly when there is one way to read it as template, slash and valid lease
\* ID, and that is how it is read.
TextsAreReadExactly == MisreadLiterals = {} /\ MisreadFields = {}
=============================================================================
