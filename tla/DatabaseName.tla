---------------------------- MODULE DatabaseName ----------------------------
(***************************************************************************)
(* Names of databases: manager/database_name.rs in                         *)
(* crates/pgtest-database-operations, and the LIKE patterns manager.rs     *)
(* looks for them with.                                                    *)
(*                                                                         *)
(* A name is a sequence of bytes.  Only the bytes that LIKE or the         *)
(* truncation treat specially have a meaning of their own: the wildcards,  *)
(* the escape character and the continuation bytes of UTF-8.               *)
(***************************************************************************)
EXTENDS Integers, Sequences

CONSTANTS
    Bytes,             \* the bytes of names, as strings
    MaxIdentifier,     \* PostgreSQL's limit on an identifier, 63 bytes
    GeneratedIdLen,    \* GENERATED_ID_LEN, 32
    DiscriminatorLen,  \* length of a parallel test id, 4
    Continuation       \* bytes that are not the first of their character

\* The prefix of a long template: the id, the discriminator and the two
\* underscores between them must fit behind it.
MaxPrefixLen == MaxIdentifier - GeneratedIdLen - 1 - DiscriminatorLen - 1

Underscore == "_"
Percent == "%"
Escape == "\\"

ASSUME NameAssumption ==
    /\ Underscore \in Bytes
    /\ MaxIdentifier \in Nat /\ GeneratedIdLen \in Nat /\ DiscriminatorLen \in Nat
    /\ MaxPrefixLen >= 0

IsCharBoundary(name, cut) == cut = 0 \/ name[cut + 1] \notin Continuation

Cuts(name) == {cut \in 0 .. MaxPrefixLen : IsCharBoundary(name, cut)}

\* The last place before the limit that does not split a character.
Cut(name) == CHOOSE cut \in Cuts(name) : \A other \in Cuts(name) : other <= cut

Truncate(name, discriminator) ==
    IF Len(name) <= MaxPrefixLen THEN name
    ELSE SubSeq(name, 1, Cut(name)) \o <<Underscore>> \o discriminator

GenerateDatabaseName(prefix, id) == prefix \o <<Underscore>> \o id

\* PostgreSQL's LIKE.  Rest[j]: the places in s from which on it matches what
\* follows j bytes of the pattern.
Like(s, pattern) ==
    LET Rest[j \in 0 .. Len(pattern)] ==
            IF j = Len(pattern) THEN {Len(s)}
            ELSE CASE pattern[j + 1] = Percent -> {i \in 0 .. Len(s) : \E k \in Rest[j + 1] : i <= k}
                   [] pattern[j + 1] = Underscore -> {i \in 0 .. Len(s) - 1 : i + 1 \in Rest[j + 1]}
                   [] pattern[j + 1] = Escape ->
                        {i \in 0 .. Len(s) - 1 : /\ j + 1 < Len(pattern)
                                                 /\ s[i + 1] = pattern[j + 2]
                                                 /\ i + 1 \in Rest[j + 2]}
                   [] OTHER ->
                        {i \in 0 .. Len(s) - 1 : s[i + 1] = pattern[j + 1] /\ i + 1 \in Rest[j + 1]}
    IN  0 \in Rest[0]

\* Faulty variant: the underscore is missing.
OpenPattern(template) == Append(template, Percent)

\* What the startup sweep lists.
SweepPattern(template) == template \o <<Underscore, Percent>>
=============================================================================
