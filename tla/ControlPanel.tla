---------------------------- MODULE ControlPanel ----------------------------
(***************************************************************************)
(* A connection to the virtual database `pgtest':                          *)
(* crates/pgtest-wire/src/control_panel.rs with protocol.rs and            *)
(* response.rs.                                                            *)
(*                                                                         *)
(* One task handles the client's messages one by one.  A client may        *)
(* pipeline: it sends Parse, Bind and Execute without waiting, and learns  *)
(* at the next Sync what became of them.  The message loop behind          *)
(* process_message and process_error, and the store of statements and      *)
(* portals, are pgwire's and external: an error in a message of the        *)
(* extended protocol skips everything up to the next Sync, one in a simple *)
(* query does not.  Whether portals outlive a Sync is left open.           *)
(*                                                                         *)
(* `meant' is the client's side: the statements and portals as its         *)
(* messages define them, were none of them to fail.                        *)
(***************************************************************************)
EXTENDS LeaseText

CONSTANTS
    StatementNames, PortalNames,
    Queries,            \* texts the client sends
    DeclaredTypes,      \* parameter types it declares
    BoundParameters,    \* parameters it binds
    FormatCodes,        \* formats it asks for
    Null                \* the parameter value that is no text

ASSUME PanelAssumption ==
    /\ Queries \subseteq Seq(STRING)
    /\ BoundParameters \subseteq Seq(Seq(STRING) \cup {Null})

VARIABLES
    state,          \* "Ready", "AwaitingSync", "Releasing" or "Closed"
    statements,     \* name -> prepared statement
    portals,        \* name -> bound portal
    meant,          \* the same as the client's messages define them
    release,        \* the release call under way
    owed            \* ReadyForQuery messages the client waits for

vars == <<state, statements, portals, meant, release, owed>>

Missing == [kind |-> "Missing", literal |-> <<>>]
Empty == [kind |-> "Empty", literal |-> <<>>]
Unbound == [statement |-> Missing, parameters |-> <<>>]
NoCall == [lease |-> <<>>, message |-> "None"]

Init ==
    /\ state = "Ready"
    /\ statements = [s \in StatementNames |-> Missing]
    /\ portals = [p \in PortalNames |-> Unbound]
    /\ meant = [statements |-> statements, portals |-> portals]
    /\ release = NoCall
    /\ owed = 0

----------------------------------------------------------------------------
\* serve and process_error.

\* Faulty variant: the rest of a failed pipeline is not skipped.
NeverWaits(message) == FALSE

\* Faulty variant: a failed simple query is treated like a failed pipeline.
AlwaysWaits(message) == TRUE

\* wait_for_sync in serve.
WaitForSync(message) == message # "Query"

\* A simple query asks for one ReadyForQuery, and so does a Sync.
Asks(message) == IF message \in {"Query", "Sync"} THEN 1 ELSE 0

\* process_message fails, process_error replies: an error, and ReadyForQuery
\* unless the client is expected to send a Sync.
Fails(message) ==
    /\ state' = IF WaitForSync(message) THEN "AwaitingSync" ELSE "Ready"
    /\ owed' = owed + Asks(message) - (IF WaitForSync(message) THEN 0 ELSE 1)
    /\ UNCHANGED <<statements, portals, release>>

\* The reply of a message that changes nothing; a query ends with ReadyForQuery.
Replies == UNCHANGED <<state, statements, portals, release, owed>>

\* PgTestControlPanel::release: the task waits for the engine's answer.
Release(lease, message) ==
    /\ state' = "Releasing"
    /\ release' = [lease |-> lease, message |-> message]
    /\ owed' = owed + Asks(message)
    /\ UNCHANGED <<statements, portals>>

----------------------------------------------------------------------------
\* Simple queries.

Query(text) ==
    LET statement == ControlStatement(text)
    IN  /\ state = "Ready"
        /\ CASE statement.kind = "Ping" -> Replies
             [] statement.kind = "Literal" /\ ValidLeaseId(statement.literal) ->
                    Release(statement.literal, "Query")
             [] OTHER -> Fails("Query")
        /\ UNCHANGED meant

----------------------------------------------------------------------------
\* Parse.

ParameterTypes(statement) == IF statement.kind = "Parameter" THEN 1 ELSE 0

\* What parse_sql and on_parse ask of a text and its declared types: a known
\* statement, TEXT or unspecified, and no more of them than parameters.
ParseAccepted(statement, oids) ==
    /\ \A i \in DOMAIN oids : oids[i] \in {"unspecified", "text"}
    /\ statement # Unsupported
    /\ Len(oids) <= ParameterTypes(statement)

\* StoredStatement::parse may know an empty text before the parser sees it.
Parsed(text) == {ControlStatement(text)} \cup {e \in {Empty} : text = <<>>}

Parse(s, text, oids) ==
    /\ state = "Ready"
    /\ \E statement \in Parsed(text) :
        /\ IF ParseAccepted(statement, oids)
           THEN /\ statements' = [statements EXCEPT ![s] = statement]
                /\ UNCHANGED <<state, portals, release, owed>>
           ELSE Fails("Parse")
        /\ meant' = [meant EXCEPT !.statements[s] = statement]

----------------------------------------------------------------------------
\* Bind.

ValidateFormatCodes(codes) == Len(codes) <= 1 /\ \A i \in DOMAIN codes : codes[i] \in {0, 1}

\* resolve_lease_id: the lease a portal names, and whether it names one.
LeaseArgument(portal) ==
    IF portal.statement.kind = "Parameter" THEN portal.parameters[1] ELSE portal.statement.literal

Resolves(portal) ==
    portal.statement.kind \in {"Literal", "Parameter"} =>
        LeaseArgument(portal) # Null /\ ValidLeaseId(LeaseArgument(portal))

\* Faulty variant: the argument is only looked at when the portal is executed.
BindsUnresolved(portal, formats) ==
    /\ ValidateFormatCodes(formats)
    /\ portal.statement # Missing
    /\ Len(portal.parameters) = ParameterTypes(portal.statement)

BindAccepted(portal, formats) ==
    /\ ValidateFormatCodes(formats)
    /\ portal.statement # Missing
    /\ Len(portal.parameters) = ParameterTypes(portal.statement)
    /\ Resolves(portal)

\* The portal keeps the statement it was bound to.
Bind(p, s, parameters, formats) ==
    LET portal == [statement |-> statements[s], parameters |-> parameters]
    IN  /\ state = "Ready"
        /\ IF BindAccepted(portal, formats)
           THEN /\ portals' = [portals EXCEPT ![p] = portal]
                /\ UNCHANGED <<state, statements, release, owed>>
           ELSE Fails("Bind")
        /\ meant' = [meant EXCEPT !.portals[p] =
                        [statement |-> meant.statements[s], parameters |-> parameters]]

----------------------------------------------------------------------------
\* Execute, and the rest of the protocol.

\* do_query of a portal.  It asks once more what Bind has asked.
Executable(portal) ==
    Len(portal.parameters) = ParameterTypes(portal.statement) /\ Resolves(portal)

Execute(p) ==
    LET portal == portals[p]
    IN  /\ state = "Ready"
        /\ CASE portal.statement = Missing \/ ~Executable(portal) -> Fails("Execute")
             [] portal.statement \in {Empty, Ping} -> Replies
             [] OTHER -> Release(LeaseArgument(portal), "Execute")
        /\ UNCHANGED meant

\* The schema of a statement or portal, if there is one.
Describe(statement) ==
    /\ state = "Ready"
    /\ IF statement = Missing THEN Fails("Describe") ELSE Replies
    /\ UNCHANGED meant

CloseStatement(s) ==
    /\ state = "Ready"
    /\ statements' = [statements EXCEPT ![s] = Missing]
    /\ meant' = [meant EXCEPT !.statements[s] = Missing]
    /\ UNCHANGED <<state, portals, release, owed>>

ClosePortal(p) ==
    /\ state = "Ready"
    /\ portals' = [portals EXCEPT ![p] = Unbound]
    /\ meant' = [meant EXCEPT !.portals[p] = Unbound]
    /\ UNCHANGED <<state, statements, release, owed>>

\* The end of a pipeline, failed or not: one ReadyForQuery, and the client has
\* read what became of its messages.  Until then a failed pipeline's messages
\* are dropped, which changes nothing.
Sync ==
    /\ state \in {"Ready", "AwaitingSync"}
    /\ state' = "Ready"
    /\ portals' \in {portals, [p \in PortalNames |-> Unbound]}
    /\ meant' = [statements |-> statements, portals |-> portals']
    /\ UNCHANGED <<statements, release, owed>>

\* Terminate, or the client is gone: the loop ends between two messages.
Terminate ==
    /\ state \in {"Ready", "AwaitingSync"}
    /\ state' = "Closed"
    /\ UNCHANGED <<statements, portals, meant, release, owed>>

\* The engine confirms, and the client reads `true'.
Released ==
    /\ state = "Releasing"
    /\ state' = "Ready"
    /\ owed' = owed - Asks(release.message)
    /\ release' = NoCall
    /\ UNCHANGED <<statements, portals, meant>>

\* release_error: no room for the record, no engine, or no answer in time.
ReleaseFails ==
    /\ state = "Releasing"
    /\ state' = IF WaitForSync(release.message) THEN "AwaitingSync" ELSE "Ready"
    /\ owed' = owed - (IF WaitForSync(release.message) THEN 0 ELSE 1)
    /\ release' = NoCall
    /\ UNCHANGED <<statements, portals, meant>>

----------------------------------------------------------------------------

Next ==
    \/ \E text \in Queries : Query(text)
    \/ \E s \in StatementNames, text \in Queries, oids \in DeclaredTypes : Parse(s, text, oids)
    \/ \E p \in PortalNames, s \in StatementNames, parameters \in BoundParameters,
          formats \in FormatCodes : Bind(p, s, parameters, formats)
    \/ \E p \in PortalNames : Execute(p) \/ ClosePortal(p) \/ Describe(portals[p].statement)
    \/ \E s \in StatementNames : CloseStatement(s) \/ Describe(statements[s])
    \/ Sync
    \/ Terminate
    \/ Released
    \/ ReleaseFails

Spec == Init /\ [][Next]_vars

----------------------------------------------------------------------------
\* Properties.

\* A pipeline takes effect as the client wrote it up to its first failure and
\* not at all after it: unless the rest is being skipped, statements and portals
\* are what the client's messages define, so an Execute that is carried out
\* releases the lease its Bind named and never one bound before.
PipelineInStep ==
    /\ state \in {"Ready", "Releasing"} =>
            meant = [statements |-> statements, portals |-> portals]
    /\ release.message = "Execute" =>
            \E p \in PortalNames : release.lease = LeaseArgument(meant.portals[p])

\* Client and server agree on whose turn it is: the client waits for a
\* ReadyForQuery while its simple query releases a lease, and not otherwise.
RepliesInStep ==
    owed = IF release.message = "Query" THEN 1 ELSE 0

\* Whatever was prepared, bound, closed or replaced, a portal that exists can be
\* executed: only the engine can still refuse the release.
PortalsAreExecutable ==
    \A p \in PortalNames : portals[p] # Unbound =>
        /\ Executable(portals[p])
        /\ portals[p].statement \notin {Missing, Unsupported}

\* The control panel and the connections agree on what a lease is called: a
\* lease that is released, by a literal or by a parameter, is one that clients
\* of every template can connect to under the same name.
ReleasesAreReachable ==
    state = "Releasing" =>
        \A template \in {t \in BoundedTexts : t # <<>> /\ Slashes(t) = {}} :
            ParseConnectionField(template \o <<"/">> \o release.lease)
                = [ok |-> TRUE, database |-> template, lease |-> release.lease]
=============================================================================
