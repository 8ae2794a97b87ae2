------------------------- MODULE ControlPanelProofs -------------------------
(***************************************************************************)
(* A control connection, for every set of statements, portals, texts and   *)
(* parameters: a pipeline takes effect up to its first failure, client and *)
(* server agree on whose turn it is, and what was bound can be executed.   *)
(***************************************************************************)
EXTENDS ControlPanel, WellFoundedInduction, SequenceTheorems, FiniteSetTheorems, TLAPS

\* What the client can have prepared.
Prepared == {Missing, Empty} \cup {ControlStatement(text) : text \in Queries}

PanelTypeOK ==
    /\ state \in {"Ready", "AwaitingSync", "Releasing", "Closed"}
    /\ statements \in [StatementNames -> Prepared \ {Unsupported}]
    /\ portals \in [PortalNames -> [statement : Prepared \ {Unsupported},
                                    parameters : BoundParameters \cup {<<>>}]]
    /\ release.message \in {"None", "Query", "Execute"}

\* The task waits for the engine exactly while a release is under way.
ReleasesWait == release.message # "None" <=> state = "Releasing"

PanelInv ==
    /\ PanelTypeOK
    /\ ReleasesWait
    /\ PipelineInStep
    /\ RepliesInStep
    /\ PortalsAreExecutable

LEMMA PanelStart == Init => PanelInv
BY DEF Init, PanelInv, PanelTypeOK, ReleasesWait, PipelineInStep, RepliesInStep, PortalsAreExecutable,
    Prepared, Missing, Unbound, NoCall, Unsupported

\* A message that fails, or a release that starts, leaves what was prepared alone.
LEMMA FailureKeeps ==
    ASSUME PanelInv, state = "Ready", NEW m \in {"Query", "Parse", "Bind", "Execute", "Describe"},
           Fails(m), m \in {"Query", "Execute", "Describe"} => meant' = meant
    PROVE  PanelInv'
<1>0. PanelTypeOK /\ ReleasesWait /\ PipelineInStep /\ RepliesInStep /\ PortalsAreExecutable
    BY DEF PanelInv
<1>1. /\ UNCHANGED <<statements, portals, release>> /\ release.message = "None"
      /\ owed = 0 /\ owed' = 0
      /\ state' = IF m = "Query" THEN "Ready" ELSE "AwaitingSync"
    BY <1>0 DEF PanelTypeOK, ReleasesWait, RepliesInStep, Fails, WaitForSync, Asks
<1>2. PanelTypeOK' /\ ReleasesWait' /\ RepliesInStep' /\ PipelineInStep'
    BY <1>0, <1>1 DEF PanelTypeOK, ReleasesWait, RepliesInStep, PipelineInStep
<1>3. PortalsAreExecutable'
    BY <1>0, <1>1 DEF PortalsAreExecutable
<1> QED  BY <1>2, <1>3 DEF PanelInv

LEMMA ReplyKeeps ==
    ASSUME PanelInv, Replies, UNCHANGED meant
    PROVE  PanelInv'
BY DEF Replies, PanelInv, PanelTypeOK, ReleasesWait, PipelineInStep, RepliesInStep, PortalsAreExecutable

LEMMA PanelStep == PanelInv /\ [Next]_vars => PanelInv'
<1> SUFFICES ASSUME PanelInv, [Next]_vars  PROVE  PanelInv'
    OBVIOUS
<1>0. PanelTypeOK /\ ReleasesWait /\ PipelineInStep /\ RepliesInStep /\ PortalsAreExecutable
    BY DEF PanelInv
<1>1. ASSUME NEW text \in Queries, Query(text)
      PROVE  PanelInv'
    <2> DEFINE st == ControlStatement(text)
    <2>1. /\ state = "Ready" /\ UNCHANGED meant
          /\ \/ Replies
             \/ Release(st.literal, "Query")
             \/ Fails("Query")
        BY <1>1 DEF Query
    <2>2. CASE Release(st.literal, "Query")
        <3>1. /\ UNCHANGED <<statements, portals>> /\ release.message = "None" /\ owed = 0
              /\ state' = "Releasing" /\ release'.message = "Query" /\ owed' = 1
            BY <1>0, <2>1, <2>2 DEF Release, Asks, ReleasesWait, RepliesInStep
        <3> QED  BY <1>0, <2>1, <3>1 DEF PanelInv, PanelTypeOK, ReleasesWait, PipelineInStep,
                    RepliesInStep, PortalsAreExecutable
    <2> QED  BY <2>1, <2>2, FailureKeeps, ReplyKeeps
<1>2. ASSUME NEW s \in StatementNames, NEW text \in Queries, NEW oids \in DeclaredTypes,
             Parse(s, text, oids)
      PROVE  PanelInv'
    <2>1. PICK st \in Parsed(text) :
                /\ state = "Ready"
                /\ IF ParseAccepted(st, oids)
                   THEN /\ statements' = [statements EXCEPT ![s] = st]
                        /\ UNCHANGED <<state, portals, release, owed>>
                   ELSE Fails("Parse")
                /\ meant' = [meant EXCEPT !.statements[s] = st]
        BY <1>2 DEF Parse
    <2>2. CASE ~ParseAccepted(st, oids)
        BY <2>1, <2>2, FailureKeeps
    <2>3. CASE ParseAccepted(st, oids)
        <3>1. st \in Prepared \ {Unsupported}
            BY <2>1, <2>3 DEF Parsed, Prepared, ParseAccepted
        <3>2. meant = [statements |-> statements, portals |-> portals] /\ release.message = "None"
            BY <1>0, <2>1 DEF PipelineInStep, ReleasesWait
        <3>3. /\ statements' = [statements EXCEPT ![s] = st]
              /\ UNCHANGED <<state, portals, release, owed>>
              /\ meant' = [statements |-> statements', portals |-> portals']
            BY <2>1, <2>3, <3>2
        <3> QED  BY <1>0, <2>1, <3>1, <3>2, <3>3 DEF PanelInv, PanelTypeOK, ReleasesWait, PipelineInStep,
                    RepliesInStep, PortalsAreExecutable
    <2> QED  BY <2>2, <2>3
<1>3. ASSUME NEW p \in PortalNames, NEW s \in StatementNames, NEW parameters \in BoundParameters,
             NEW formats \in FormatCodes, Bind(p, s, parameters, formats)
      PROVE  PanelInv'
    <2> DEFINE portal == [statement |-> statements[s], parameters |-> parameters]
    <2>0. /\ state = "Ready"
          /\ IF BindAccepted(portal, formats)
             THEN /\ portals' = [portals EXCEPT ![p] = portal]
                  /\ UNCHANGED <<state, statements, release, owed>>
             ELSE Fails("Bind")
          /\ meant' = [meant EXCEPT !.portals[p] =
                        [statement |-> meant.statements[s], parameters |-> parameters]]
        BY <1>3 DEF Bind
    <2>1. CASE ~BindAccepted(portal, formats)
        BY <2>0, <2>1, FailureKeeps
    <2>2. CASE BindAccepted(portal, formats)
        <3>1. meant = [statements |-> statements, portals |-> portals] /\ release.message = "None"
            BY <1>0, <2>0 DEF PipelineInStep, ReleasesWait
        <3>2. /\ portals' = [portals EXCEPT ![p] = portal]
              /\ UNCHANGED <<state, statements, release, owed>>
              /\ meant' = [statements |-> statements', portals |-> portals']
            BY <2>0, <2>2, <3>1
        <3>3. portal \in [statement : Prepared \ {Unsupported}, parameters : BoundParameters \cup {<<>>}]
            BY <1>0 DEF PanelTypeOK
        <3>4. Executable(portal) /\ portal.statement \notin {Missing, Unsupported}
            BY <2>2, <3>3 DEF BindAccepted, Executable
        <3> HIDE DEF portal
        <3>5. PanelTypeOK' /\ ReleasesWait' /\ RepliesInStep' /\ PipelineInStep'
            BY <1>0, <2>0, <3>1, <3>2, <3>3 DEF PanelTypeOK, ReleasesWait, RepliesInStep, PipelineInStep
        <3>6. ASSUME NEW q \in PortalNames, portals'[q] # Unbound
              PROVE  Executable(portals'[q]) /\ portals'[q].statement \notin {Missing, Unsupported}
            <4>1. portals'[q] = IF q = p THEN portal ELSE portals[q]
                BY <1>0, <3>2 DEF PanelTypeOK
            <4> QED  BY <1>0, <3>4, <3>6, <4>1 DEF PortalsAreExecutable
        <3>7. PortalsAreExecutable'
            BY <3>6 DEF PortalsAreExecutable, Executable, Resolves, LeaseArgument
        <3> QED  BY <3>5, <3>7 DEF PanelInv
    <2> QED  BY <2>1, <2>2
<1>4. ASSUME NEW p \in PortalNames, Execute(p)
      PROVE  PanelInv'
    <2>1. /\ state = "Ready" /\ UNCHANGED meant
          /\ \/ Replies
             \/ Release(LeaseArgument(portals[p]), "Execute")
             \/ Fails("Execute")
        BY <1>4 DEF Execute
    <2>2. CASE Release(LeaseArgument(portals[p]), "Execute")
        <3>1. /\ UNCHANGED <<statements, portals>> /\ release.message = "None" /\ owed = 0
              /\ state' = "Releasing" /\ owed' = 0
              /\ release'.message = "Execute" /\ release'.lease = LeaseArgument(portals[p])
            BY <1>0, <2>1, <2>2 DEF Release, Asks, ReleasesWait, RepliesInStep
        <3>2. meant = [statements |-> statements, portals |-> portals]
            BY <1>0, <2>1 DEF PipelineInStep
        <3>3. release'.lease = LeaseArgument(meant'.portals[p])
            BY <2>1, <3>1, <3>2
        <3> QED  BY <1>0, <2>1, <3>1, <3>2, <3>3 DEF PanelInv, PanelTypeOK, ReleasesWait, PipelineInStep,
                    RepliesInStep, PortalsAreExecutable, LeaseArgument
    <2> QED  BY <2>1, <2>2, FailureKeeps, ReplyKeeps
<1>5. ASSUME NEW st, Describe(st)
      PROVE  PanelInv'
    BY <1>5, FailureKeeps, ReplyKeeps DEF Describe
<1>6. ASSUME NEW s \in StatementNames, CloseStatement(s)
      PROVE  PanelInv'
    <2>1. meant = [statements |-> statements, portals |-> portals] /\ release.message = "None"
        BY <1>0, <1>6 DEF CloseStatement, PipelineInStep, ReleasesWait
    <2>2. /\ statements' = [statements EXCEPT ![s] = Missing]
          /\ UNCHANGED <<state, portals, release, owed>>
          /\ meant' = [statements |-> statements', portals |-> portals']
        BY <1>6, <2>1 DEF CloseStatement
    <2>3. Missing \in Prepared \ {Unsupported}
        BY DEF Prepared, Missing, Unsupported
    <2> QED  BY <1>0, <2>1, <2>2, <2>3 DEF PanelInv, PanelTypeOK, ReleasesWait, PipelineInStep,
                RepliesInStep, PortalsAreExecutable
<1>7. ASSUME NEW p \in PortalNames, ClosePortal(p)
      PROVE  PanelInv'
    <2>1. meant = [statements |-> statements, portals |-> portals] /\ release.message = "None"
        BY <1>0, <1>7 DEF ClosePortal, PipelineInStep, ReleasesWait
    <2>2. /\ portals' = [portals EXCEPT ![p] = Unbound]
          /\ UNCHANGED <<state, statements, release, owed>>
          /\ meant' = [statements |-> statements', portals |-> portals']
        BY <1>7, <2>1 DEF ClosePortal
    <2>3. Unbound \in [statement : Prepared \ {Unsupported}, parameters : BoundParameters \cup {<<>>}]
        BY DEF Prepared, Missing, Unsupported, Unbound
    <2>4. PanelTypeOK' /\ ReleasesWait' /\ RepliesInStep' /\ PipelineInStep'
        BY <1>0, <2>1, <2>2, <2>3 DEF PanelTypeOK, ReleasesWait, RepliesInStep, PipelineInStep
    <2>5. PortalsAreExecutable'
        <3>1. \A q \in PortalNames : portals'[q] = IF q = p THEN Unbound ELSE portals[q]
            BY <1>0, <2>2 DEF PanelTypeOK
        <3> QED  BY <1>0, <3>1 DEF PortalsAreExecutable, Executable, Resolves, LeaseArgument
    <2> QED  BY <2>4, <2>5 DEF PanelInv
<1>8. CASE Sync
    <2>1. /\ state' = "Ready" /\ UNCHANGED <<statements, release, owed>> /\ release.message = "None"
          /\ portals' \in {portals, [p \in PortalNames |-> Unbound]}
          /\ meant' = [statements |-> statements, portals |-> portals']
        BY <1>0, <1>8 DEF Sync, ReleasesWait
    <2>2. Unbound \in [statement : Prepared \ {Unsupported}, parameters : BoundParameters \cup {<<>>}]
        BY DEF Prepared, Missing, Unsupported, Unbound
    <2>3. PanelTypeOK' /\ ReleasesWait' /\ RepliesInStep' /\ PipelineInStep'
        BY <1>0, <2>1, <2>2 DEF PanelTypeOK, ReleasesWait, RepliesInStep, PipelineInStep
    <2>4. \A q \in PortalNames : portals'[q] # Unbound => portals'[q] = portals[q]
        BY <2>1
    <2>5. PortalsAreExecutable'
        BY <1>0, <2>4 DEF PortalsAreExecutable, Executable, Resolves, LeaseArgument
    <2> QED  BY <2>3, <2>5 DEF PanelInv
<1>9. CASE Terminate
    BY <1>0, <1>9 DEF Terminate, PanelInv, PanelTypeOK, ReleasesWait, PipelineInStep, RepliesInStep,
        PortalsAreExecutable
<1>10. CASE Released \/ ReleaseFails
    <2>1. /\ UNCHANGED <<statements, portals, meant>> /\ state = "Releasing" /\ owed' = 0
          /\ state' \in {"Ready", "AwaitingSync"} /\ release'.message = "None"
        BY <1>0, <1>10 DEF Released, ReleaseFails, WaitForSync, Asks, NoCall, ReleasesWait,
            RepliesInStep, PanelTypeOK
    <2> QED  BY <1>0, <2>1 DEF PanelInv, PanelTypeOK, ReleasesWait, PipelineInStep, RepliesInStep,
                PortalsAreExecutable
<1>11. CASE UNCHANGED vars
    BY <1>11 DEF vars, PanelInv, PanelTypeOK, ReleasesWait, PipelineInStep, RepliesInStep,
        PortalsAreExecutable
<1> QED  BY <1>1, <1>2, <1>3, <1>4, <1>5, <1>6, <1>7, <1>8, <1>9, <1>10, <1>11 DEF Next

LEMMA PanelHolds == Spec => []PanelInv
BY PanelStart, PanelStep, PTL DEF Spec
\* However its messages fail, a pipeline of the control panel takes effect as the
\* client wrote it up to the first failure, and an Execute that is carried out
\* releases the lease its Bind named.
THEOREM PipelinesStayInStep == Spec => []PipelineInStep
<1>1. PanelInv => PipelineInStep
    BY DEF PanelInv
<1> QED  BY <1>1, PanelHolds, PTL

\* serve and process_error send exactly the ReadyForQuery messages the client
\* waits for, whichever message fails and whatever the engine answers.
THEOREM RepliesStayInStep == Spec => []RepliesInStep
<1>1. PanelInv => RepliesInStep
    BY DEF PanelInv
<1> QED  BY <1>1, PanelHolds, PTL

\* What on_bind accepted stays executable, however the statement it came from is
\* replaced or closed: do_query repeats the checks of Bind in vain.
THEOREM BoundPortalsAreExecutable == Spec => []PortalsAreExecutable
<1>1. PanelInv => PortalsAreExecutable
    BY DEF PanelInv
<1> QED  BY <1>1, PanelHolds, PTL

----------------------------------------------------------------------------
\* Connection fields.

\* A text with a single slash is taken apart there.
LEMMA FieldIsSplit ==
    ASSUME NEW S, NEW input \in Seq(S), NEW slash, Slashes(input) = {slash}
    PROVE  LET database == SubSeq(input, 1, slash - 1)
               lease == SubSeq(input, slash + 1, Len(input))
           IN  /\ slash \in 1 .. Len(input)
               /\ input = database \o <<"/">> \o lease
               /\ ParseConnectionField(input) =
                    IF slash = 1 \/ ~ValidLeaseId(lease) THEN BadField
                    ELSE [ok |-> TRUE, database |-> database, lease |-> lease]
<1> DEFINE database == SubSeq(input, 1, slash - 1)
           lease == SubSeq(input, slash + 1, Len(input))
<1>1. Len(input) \in Nat /\ slash \in 1 .. Len(input) /\ input[slash] = "/"
    BY LenProperties DEF Slashes
<1>2. slash = CHOOSE i \in Slashes(input) : \A j \in Slashes(input) : i <= j
    BY <1>1
<1>3. Cardinality(Slashes(input)) = 1
    BY FS_Singleton
<1>4. ParseConnectionField(input) =
        IF slash = 1 \/ ~ValidLeaseId(lease) THEN BadField
        ELSE [ok |-> TRUE, database |-> database, lease |-> lease]
    <2>1. Slashes(input) # {} /\ ~(Cardinality(Slashes(input)) > 1)
        BY <1>3
    <2> QED  BY <1>2, <2>1 DEF ParseConnectionField
<1>5. input = database \o <<"/">> \o lease
    <2>1. \A i \in 1 .. Len(input) : input[i] \in S
        BY ElementOfSeq
    <2>2. /\ database \in Seq(S) /\ Len(database) = slash - 1
          /\ \A i \in 1 .. slash - 1 : database[i] = input[i]
        <3>1. \A i \in 1 .. slash - 1 : input[i] \in S
            BY <1>1, <2>1
        <3>2. /\ database \in Seq(S)
              /\ Len(database) = IF 1 <= slash - 1 THEN (slash - 1) - 1 + 1 ELSE 0
              /\ \A i \in 1 .. (slash - 1) - 1 + 1 : database[i] = input[1 + i - 1]
            BY <1>1, <3>1, SubSeqProperties
        <3> HIDE DEF database
        <3> QED  BY <1>1, <3>2
    <2>3. /\ lease \in Seq(S) /\ Len(lease) = Len(input) - slash
          /\ \A i \in 1 .. Len(input) - slash : lease[i] = input[slash + i]
        <3>1. \A i \in slash + 1 .. Len(input) : input[i] \in S
            BY <1>1, <2>1
        <3>2. /\ lease \in Seq(S)
              /\ Len(lease) = IF slash + 1 <= Len(input) THEN Len(input) - (slash + 1) + 1 ELSE 0
              /\ \A i \in 1 .. Len(input) - (slash + 1) + 1 : lease[i] = input[(slash + 1) + i - 1]
            BY <1>1, <3>1, SubSeqProperties
        <3> HIDE DEF lease
        <3>3. \A n \in Nat : \A k \in 1 .. n :
                /\ n - (k + 1) + 1 = n - k
                /\ ~(k + 1 <= n) => n - k = 0
            OBVIOUS
        <3>4. Len(lease) = Len(input) - slash /\ Len(input) - (slash + 1) + 1 = Len(input) - slash
            BY <1>1, <3>2, <3>3
        <3>5. ASSUME NEW i \in 1 .. Len(input) - slash
              PROVE  lease[i] = input[slash + i]
            <4>1. (slash + 1) + i - 1 = slash + i
                BY <1>1
            <4> QED  BY <3>2, <3>4, <4>1
        <3> QED  BY <3>2, <3>4, <3>5
    <2> HIDE DEF database, lease
    <2> DEFINE front == database \o <<"/">>
               whole == front \o lease
    <2>4. /\ <<"/">> \in Seq({"/"} \cup S) /\ Len(<<"/">>) = 1 /\ <<"/">>[1] = "/"
          /\ database \in Seq({"/"} \cup S) /\ lease \in Seq({"/"} \cup S)
          /\ input \in Seq({"/"} \cup S)
        BY <2>2, <2>3
    <2>5. /\ front \in Seq({"/"} \cup S) /\ Len(front) = slash
          /\ \A i \in 1 .. slash : front[i] = input[i]
        <3>1. /\ front \in Seq({"/"} \cup S) /\ Len(front) = Len(database) + Len(<<"/">>)
              /\ \A i \in 1 .. Len(database) + Len(<<"/">>) :
                    front[i] = IF i <= Len(database) THEN database[i]
                               ELSE <<"/">>[i - Len(database)]
            BY <2>4, ConcatProperties
        <3> HIDE DEF front
        <3>2. Len(front) = slash
            BY <1>1, <2>2, <2>4, <3>1
        <3>3. ASSUME NEW i \in 1 .. slash
              PROVE  front[i] = input[i]
            <4>1. CASE i = slash
                <5>1. i - Len(database) = 1 /\ ~(i <= Len(database)) /\ i \in 1 .. Len(database) + Len(<<"/">>)
                    BY <1>1, <2>2, <2>4, <4>1
                <5> QED  BY <1>1, <2>4, <3>1, <4>1, <5>1
            <4>2. CASE i # slash
                <5>1. /\ i \in 1 .. slash - 1 /\ i <= Len(database)
                      /\ i \in 1 .. Len(database) + Len(<<"/">>)
                    BY <1>1, <2>2, <2>4, <4>2
                <5> QED  BY <2>2, <3>1, <5>1
            <4> QED  BY <4>1, <4>2
        <3> QED  BY <3>1, <3>2, <3>3
    <2> HIDE DEF front
    <2>6. /\ whole \in Seq({"/"} \cup S) /\ Len(whole) = Len(input)
          /\ \A i \in 1 .. Len(input) : whole[i] = input[i]
        <3>1. /\ whole \in Seq({"/"} \cup S) /\ Len(whole) = Len(front) + Len(lease)
              /\ \A i \in 1 .. Len(front) + Len(lease) :
                    whole[i] = IF i <= Len(front) THEN front[i] ELSE lease[i - Len(front)]
            <4>1. front \in Seq({"/"} \cup S) /\ lease \in Seq({"/"} \cup S)
                BY <2>4, <2>5
            <4> QED  BY <4>1, ConcatProperties
        <3> HIDE DEF whole
        <3>2. Len(front) + Len(lease) = Len(input)
            BY <1>1, <2>3, <2>5
        <3>3. ASSUME NEW i \in 1 .. Len(input)
              PROVE  whole[i] = input[i]
            <4>1. CASE i <= slash
                BY <1>1, <2>5, <3>1, <3>2, <4>1
            <4>2. CASE ~(i <= slash)
                <5>1. i - slash \in 1 .. Len(input) - slash /\ slash + (i - slash) = i
                    BY <1>1, <4>2
                <5> QED  BY <2>3, <2>5, <3>1, <3>2, <4>2, <5>1
            <4> QED  BY <4>1, <4>2
        <3> QED  BY <3>1, <3>2, <3>3
    <2> HIDE DEF whole
    <2>7. whole = input
        BY <1>1, <2>4, <2>6, SeqEqual
    <2> QED  BY <2>7 DEF whole, front
<1> QED  BY <1>1, <1>4, <1>5

\* parse_connection_field accepts a field exactly when there is one way to read it
\* as template, slash and lease ID, and that is how it is read: for texts of any
\* length over any symbols.
THEOREM FieldsAreReadExactly == MisreadFields = {}
<1> SUFFICES ASSUME NEW input \in MisreadFields  PROVE  FALSE
    OBVIOUS
<1> DEFINE parsed == ParseConnectionField(input)
           readings == {i \in Slashes(input) :
                            i > 1 /\ ValidLeaseId(SubSeq(input, i + 1, Len(input)))}
<1>1. PICK n \in 0 .. MaxText : input \in [1 .. n -> TextSymbols]
    BY DEF MisreadFields, BoundedTexts
<1>2. /\ input \in Seq(TextSymbols) /\ Len(input) \in Nat
    BY <1>1, TextAssumption, SeqDef, LenProperties
<1>3. \/ parsed.ok # (readings # {} /\ Cardinality(Slashes(input)) = 1)
      \/ parsed.ok /\ input # parsed.database \o <<"/">> \o parsed.lease
    BY DEF MisreadFields
<1>4. CASE Slashes(input) = {}
    <2>1. parsed.ok = FALSE /\ readings = {}
        BY <1>4 DEF ParseConnectionField, BadField
    <2> QED  BY <1>3, <2>1
<1>5. IsFiniteSet(Slashes(input))
    <2>1. Slashes(input) \subseteq 1 .. Len(input)
        BY <1>2, LenProperties DEF Slashes
    <2>2. IsFiniteSet(1 .. Len(input))
        BY <1>2, FS_Interval
    <2> QED  BY <2>1, <2>2, FS_Subset
<1>6. CASE Slashes(input) # {} /\ Cardinality(Slashes(input)) # 1
    <2>1. Cardinality(Slashes(input)) \in Nat /\ Cardinality(Slashes(input)) # 0
        BY <1>5, <1>6, FS_CardinalityType, FS_EmptySet
    <2>2. Cardinality(Slashes(input)) > 1
        BY <1>6, <2>1
    <2>3. parsed = BadField
        BY <1>6, <2>2 DEF ParseConnectionField
    <2>4. parsed.ok = FALSE
        BY <2>3 DEF BadField
    <2> QED  BY <1>3, <1>6, <2>4
<1>7. CASE Cardinality(Slashes(input)) = 1
    <2>1. PICK slash : Slashes(input) = {slash}
        BY <1>5, <1>7, FS_Singleton
    <2> DEFINE database == SubSeq(input, 1, slash - 1)
               lease == SubSeq(input, slash + 1, Len(input))
    <2>2. /\ slash \in 1 .. Len(input)
          /\ input = database \o <<"/">> \o lease
          /\ parsed = IF slash = 1 \/ ~ValidLeaseId(lease) THEN BadField
                      ELSE [ok |-> TRUE, database |-> database, lease |-> lease]
        BY <1>2, <2>1, FieldIsSplit
    <2>3. readings # {} <=> slash > 1 /\ ValidLeaseId(lease)
        BY <2>1
    <2>4. slash > 1 <=> slash # 1
        BY <1>2, <2>2
    <2> HIDE DEF database, lease, parsed, readings
    <2>5. CASE slash = 1 \/ ~ValidLeaseId(lease)
        <3>1. parsed.ok = FALSE
            BY <2>2, <2>5 DEF BadField
        <3> QED  BY <1>3, <2>3, <2>4, <2>5, <3>1
    <2>6. CASE ~(slash = 1 \/ ~ValidLeaseId(lease))
        <3>1. parsed.ok = TRUE /\ parsed.database = database /\ parsed.lease = lease
            BY <2>2, <2>6
        <3> QED  BY <1>3, <1>7, <2>2, <2>3, <2>4, <2>6, <3>1
    <2> QED  BY <2>5, <2>6
<1> QED  BY <1>4, <1>6, <1>7

----------------------------------------------------------------------------
\* Reading a text from a position on.  The grammar's rules are recursive
\* functions of the position: that they are defined, and what they return, is
\* shown by induction from the end of the text.

LEMMA BackwardInduction ==
    ASSUME NEW N \in Nat, NEW Good,
           \A j \in 1 .. N : (\A k \in j + 1 .. N : k \in Good) => j \in Good
    PROVE  \A j \in 1 .. N : j \in Good
<1> DEFINE Gaps == {d \in 0 .. N : N - d \in 1 .. N /\ N - d \notin Good}
<1> SUFFICES ASSUME NEW i \in 1 .. N, i \notin Good PROVE FALSE
    OBVIOUS
<1>1. Gaps \subseteq Nat
    OBVIOUS
<1>2. N - i \in Gaps
    OBVIOUS
<1> HIDE DEF Gaps
<1>3. \E d \in Gaps : \A e \in Gaps : ~(<<e, d>> \in OpToRel(<, Nat))
    BY <1>1, <1>2, NatLessThanWellFounded, WFMin
<1>4. PICK d \in Gaps : \A e \in Gaps : ~(e < d)
    BY <1>1, <1>3 DEF OpToRel
<1>5. d \in 0 .. N /\ N - d \in 1 .. N /\ N - d \notin Good
    BY DEF Gaps
<1>6. ASSUME NEW k \in (N - d) + 1 .. N, k \notin Good PROVE FALSE
    <2>1. N - k \in 0 .. N /\ N - (N - k) = k /\ k \in 1 .. N /\ N - k < d
        BY <1>5
    <2>2. N - k \in Gaps
        BY <1>6, <2>1 DEF Gaps
    <2> QED
        BY <1>4, <2>1, <2>2
<1> QED
    BY <1>5, <1>6

\* A function of the positions that is given at some of them and at the others
\* made of its value further on.
JumpsAhead(N, D, Stop, base, next, op) ==
    /\ N \in Nat /\ N # 0
    /\ \A j \in 1 .. N : j \in Stop => base[j] \in D
    /\ \A j \in 1 .. N : j \notin Stop => next[j] \in j + 1 .. N /\ op[j] \in [D -> D]

JumpFunctions(N, D, Stop, base, next, op) ==
    {f \in [1 .. N -> D] :
        \A j \in 1 .. N : f[j] = IF j \in Stop THEN base[j] ELSE op[j][f[next[j]]]}

LEMMA JumpRecursion ==
    ASSUME NEW N, NEW D, NEW Stop, NEW base, NEW next, NEW op,
           JumpsAhead(N, D, Stop, base, next, op)
    PROVE  \E f : f \in JumpFunctions(N, D, Stop, base, next, op)
<1>0. /\ N \in Nat /\ N # 0
      /\ \A j \in 1 .. N : j \in Stop => base[j] \in D
      /\ \A j \in 1 .. N : j \notin Stop => next[j] \in j + 1 .. N /\ op[j] \in [D -> D]
    BY DEF JumpsAhead
<1> DEFINE Value(f, j) == IF j \in Stop THEN base[j] ELSE op[j][f[next[j]]]
           Good == {k \in 1 .. N : \E f \in [1 .. N -> D] : \A j \in k .. N : f[j] = Value(f, j)}
<1>1. ASSUME NEW k \in 1 .. N, \A j \in k + 1 .. N : j \in Good
      PROVE  k \in Good
    <2>1. \E g \in [1 .. N -> D] : \A j \in k + 1 .. N : g[j] = Value(g, j)
        <3>1. CASE k = N
            <4>1. N \in Stop
                <5>1. N \in 1 .. N /\ ~(\E x : x \in N + 1 .. N)
                    BY <1>0
                <5> QED
                    BY <1>0, <5>1
            <4>2. base[N] \in D
                BY <1>0, <4>1
            <4>3. [j \in 1 .. N |-> base[N]] \in [1 .. N -> D]
                BY <4>2
            <4>4. k + 1 .. N = {}
                BY <1>0, <3>1
            <4> QED
                BY <4>3, <4>4
        <3>2. CASE k # N
            <4>1. k + 1 \in k + 1 .. N
                BY <1>0, <3>2
            <4>2. k + 1 \in Good
                BY <1>1, <4>1
            <4> QED
                BY <4>2
        <3> QED
            BY <3>1, <3>2
    <2>2. PICK g \in [1 .. N -> D] : \A j \in k + 1 .. N : g[j] = Value(g, j)
        BY <2>1
    <2> DEFINE v == Value(g, k)
               f == [g EXCEPT ![k] = v]
    <2>3. v \in D
        <3>1. CASE k \in Stop
            BY <1>0, <3>1
        <3>2. CASE k \notin Stop
            <4>1. next[k] \in 1 .. N /\ op[k] \in [D -> D]
                BY <1>0, <3>2
            <4>2. g[next[k]] \in D
                BY <4>1
            <4> QED
                BY <3>2, <4>1, <4>2
        <3> QED
            BY <3>1, <3>2
    <2>4. f \in [1 .. N -> D] /\ f[k] = v /\ \A j \in 1 .. N : j # k => f[j] = g[j]
        BY <2>3
    <2> HIDE DEF f
    <2>5. ASSUME NEW j \in k .. N PROVE f[j] = Value(f, j)
        <3>1. j \in 1 .. N
            BY <1>0
        <3>2. j \notin Stop => f[next[j]] = g[next[j]]
            <4>1. j \notin Stop => next[j] \in 1 .. N /\ next[j] # k
                BY <1>0, <3>1
            <4> QED
                BY <2>4, <4>1
        <3>3. Value(f, j) = Value(g, j)
            BY <3>2
        <3>4. CASE j = k
            BY <2>4, <3>3, <3>4
        <3>5. CASE j # k
            <4>1. j \in k + 1 .. N
                BY <1>0, <3>5
            <4> QED
                BY <2>2, <2>4, <3>1, <3>3, <3>5, <4>1
        <3> QED
            BY <3>4, <3>5
    <2> QED
        BY <2>4, <2>5
<1>2. 1 \in Good
    <2> HIDE DEF Good
    <2>1. \A k \in 1 .. N : k \in Good
        BY <1>0, <1>1, BackwardInduction
    <2> QED
        BY <1>0, <2>1
<1> QED
    BY <1>2 DEF JumpFunctions

\* ws* is defined, from every position.
LEMMA SpacesDefined ==
    ASSUME NEW text, Len(text) \in Nat
    PROVE  \E from : /\ \A j \in 1 .. Len(text) + 1 : from[j] = IF At(text, j, "ws") THEN from[j + 1] ELSE j
                     /\ \A i : Spaces(text, i) = IF i = NoMatch THEN NoMatch ELSE from[i]
<1> DEFINE N == Len(text) + 1
           Stop == {j \in 1 .. N : ~At(text, j, "ws")}
           D == 1 .. N
           base == [j \in 1 .. N |-> j]
           next == [j \in 1 .. N |-> j + 1]
           op == [j \in 1 .. N |-> [x \in 1 .. N |-> x]]
           from == CHOOSE f : f = [j \in 1 .. N |-> IF At(text, j, "ws") THEN f[j + 1] ELSE j]
<1>1. N \in Nat /\ N # 0
    OBVIOUS
<1>2. \A j \in 1 .. N : /\ j \in Stop <=> ~At(text, j, "ws")
                        /\ base[j] = j /\ next[j] = j + 1 /\ op[j] = [x \in 1 .. N |-> x]
    OBVIOUS
<1>3. \A j \in 1 .. N : j \notin Stop => j + 1 \in j + 1 .. N
    BY <1>1 DEF At
<1>4. \A i : Spaces(text, i) = IF i = NoMatch THEN NoMatch ELSE from[i]
    BY DEF Spaces
<1> HIDE DEF N, D, Stop, base, next, op
<1>5. \A j \in 1 .. N : j \in Stop => base[j] \in 1 .. N
    BY <1>2
<1>6. \A j \in 1 .. N : j \notin Stop => next[j] \in j + 1 .. N /\ op[j] \in [1 .. N -> 1 .. N]
    BY <1>2, <1>3
<1>7. PICK f \in [1 .. N -> 1 .. N] :
            \A j \in 1 .. N : f[j] = IF j \in Stop THEN base[j] ELSE op[j][f[next[j]]]
    <2>1. JumpsAhead(N, D, Stop, base, next, op)
        BY <1>1, <1>5, <1>6 DEF JumpsAhead, D
    <2>2. \E f : f \in JumpFunctions(N, D, Stop, base, next, op)
        BY <2>1, JumpRecursion
    <2> QED
        BY <2>2 DEF JumpFunctions, D
<1>8. ASSUME NEW j \in 1 .. N PROVE f[j] = IF At(text, j, "ws") THEN f[j + 1] ELSE j
    <2>1. CASE j \in Stop
        BY <1>2, <1>7, <2>1
    <2>2. CASE j \notin Stop
        <3>1. j + 1 \in 1 .. N
            BY <1>1, <1>3, <2>2
        <3>2. f[j + 1] \in 1 .. N
            BY <3>1
        <3>3. op[j][f[j + 1]] = f[j + 1] /\ next[j] = j + 1
            BY <1>2, <3>2
        <3> QED
            BY <1>2, <1>7, <2>2, <3>3, ZenonT(30)
    <2> QED
        BY <2>1, <2>2
<1>9. f = [j \in 1 .. N |-> IF At(text, j, "ws") THEN f[j + 1] ELSE j]
    BY <1>8
<1>10. from = [j \in 1 .. N |-> IF At(text, j, "ws") THEN from[j + 1] ELSE j]
    BY <1>9
<1> HIDE DEF from
<1> QED
    BY <1>4, <1>10 DEF N

\* The end of a literal is defined, from every position inside it.
LEMMA LiteralDefined ==
    ASSUME NEW text, Len(text) \in Nat
    PROVE  \E close : /\ \A j \in 1 .. Len(text) + 1 :
                            close[j] = IF j > Len(text) THEN NoMatch
                                       ELSE IF text[j] # "'" THEN close[j + 1]
                                       ELSE IF At(text, j + 1, "'") THEN close[j + 2]
                                       ELSE j + 1
                      /\ \A i : TextLiteral(text, i) = IF At(text, i, "'") THEN close[i + 1] ELSE NoMatch
<1> DEFINE N == Len(text) + 1
           Value(f, j) == IF j > Len(text) THEN NoMatch
                          ELSE IF text[j] # "'" THEN f[j + 1]
                          ELSE IF At(text, j + 1, "'") THEN f[j + 2]
                          ELSE j + 1
           Stop == {j \in 1 .. N : j > Len(text) \/ (text[j] = "'" /\ ~At(text, j + 1, "'"))}
           D == 0 .. N
           base == [j \in 1 .. N |-> IF j > Len(text) THEN NoMatch ELSE j + 1]
           next == [j \in 1 .. N |-> IF text[j] # "'" THEN j + 1 ELSE j + 2]
           op == [j \in 1 .. N |-> [x \in 0 .. N |-> x]]
           close == CHOOSE f : f = [j \in 1 .. N |-> Value(f, j)]
<1>1. N \in Nat /\ N # 0 /\ N = Len(text) + 1
    OBVIOUS
<1>2. \A j \in 1 .. N : /\ j \in Stop <=> j > Len(text) \/ (text[j] = "'" /\ ~At(text, j + 1, "'"))
                        /\ base[j] = IF j > Len(text) THEN NoMatch ELSE j + 1
                        /\ next[j] = IF text[j] # "'" THEN j + 1 ELSE j + 2
                        /\ op[j] = [x \in 0 .. N |-> x]
    OBVIOUS
<1>4. \A i : TextLiteral(text, i) = IF At(text, i, "'") THEN close[i + 1] ELSE NoMatch
    BY DEF TextLiteral
<1> HIDE DEF N, D, Stop, base, next, op
<1>3. ASSUME NEW j \in 1 .. N, j \notin Stop PROVE next[j] \in j + 1 .. N
    <2>0. ~(j > Len(text)) /\ (text[j] # "'" \/ At(text, j + 1, "'"))
        BY <1>2, <1>3
    <2>1. j <= Len(text) /\ (text[j] # "'" \/ j + 1 <= Len(text))
        BY <1>1, <2>0 DEF At
    <2>2. next[j] = j + 1 \/ (j + 1 <= Len(text) /\ next[j] = j + 2)
        BY <1>2, <2>1
    <2> QED
        BY <1>1, <2>1, <2>2
<1>5. ASSUME NEW j \in 1 .. N, j \in Stop PROVE base[j] \in 0 .. N
    <2>1. base[j] = 0 \/ (~(j > Len(text)) /\ base[j] = j + 1)
        BY <1>2 DEF NoMatch
    <2> QED
        BY <1>1, <2>1
<1>6. \A j \in 1 .. N : j \notin Stop => next[j] \in j + 1 .. N /\ op[j] \in [0 .. N -> 0 .. N]
    BY <1>2, <1>3
<1>7. PICK f \in [1 .. N -> 0 .. N] :
            \A j \in 1 .. N : f[j] = IF j \in Stop THEN base[j] ELSE op[j][f[next[j]]]
    <2>1. JumpsAhead(N, D, Stop, base, next, op)
        BY <1>1, <1>5, <1>6 DEF JumpsAhead, D
    <2>2. \E f : f \in JumpFunctions(N, D, Stop, base, next, op)
        BY <2>1, JumpRecursion
    <2> QED
        BY <2>2 DEF JumpFunctions, D
<1>8. ASSUME NEW j \in 1 .. N PROVE f[j] = Value(f, j)
    <2>1. CASE j \in Stop
        BY <1>1, <1>2, <1>7, <2>1
    <2>2. CASE j \notin Stop
        <3>1. next[j] \in 1 .. N
            BY <1>1, <1>3, <2>2
        <3>2. f[next[j]] \in 0 .. N
            BY <3>1
        <3>3. op[j][f[next[j]]] = f[next[j]]
            BY <1>2, <3>2
        <3>4. f[j] = f[next[j]]
            BY <1>7, <2>2, <3>3
        <3> QED
            BY <1>1, <1>2, <2>2, <3>4
    <2> QED
        BY <2>1, <2>2
<1>9. f = [j \in 1 .. N |-> Value(f, j)]
    BY <1>8
<1>10. close = [j \in 1 .. N |-> Value(close, j)]
    BY <1>9
<1> HIDE DEF close
<1> QED
    BY <1>4, <1>10 DEF N

\* What a literal's body stands for is defined.
LEMMA UnquoteDefined ==
    ASSUME NEW S, NEW body \in Seq(S)
    PROVE  \E from : /\ \A j \in 1 .. Len(body) + 1 :
                            from[j] = IF j > Len(body) THEN <<>>
                                      ELSE <<body[j]>> \o
                                           from[IF At(body, j, "'") /\ At(body, j + 1, "'") THEN j + 2 ELSE j + 1]
                     /\ Unquote(body) = from[1]
<1> DEFINE N == Len(body) + 1
           After(j) == IF At(body, j, "'") /\ At(body, j + 1, "'") THEN j + 2 ELSE j + 1
           Value(f, j) == IF j > Len(body) THEN <<>> ELSE <<body[j]>> \o f[After(j)]
           Stop == {j \in 1 .. N : j > Len(body)}
           D == Seq(S)
           base == [j \in 1 .. N |-> <<>>]
           next == [j \in 1 .. N |-> After(j)]
           op == [j \in 1 .. N |-> [x \in Seq(S) |-> <<body[j]>> \o x]]
           from == CHOOSE f : f = [j \in 1 .. N |-> Value(f, j)]
<1>0. Len(body) \in Nat /\ \A j \in 1 .. Len(body) : body[j] \in S
    BY LenProperties, ElementOfSeq
<1>1. N \in Nat /\ N # 0 /\ N = Len(body) + 1
    BY <1>0
<1>2. \A j \in 1 .. N : /\ j \in Stop <=> j > Len(body)
                        /\ base[j] = <<>> /\ next[j] = After(j)
    OBVIOUS
<1>20. \A j \in 1 .. N : op[j] = [x \in Seq(S) |-> <<body[j]>> \o x]
    OBVIOUS
<1>4. Unquote(body) = from[1]
    BY DEF Unquote
<1> HIDE DEF N, D, Stop, base, next, op
<1>3. ASSUME NEW j \in 1 .. N, j \notin Stop PROVE After(j) \in j + 1 .. N
    <2>0. ~(j > Len(body))
        BY <1>2, <1>3
    <2>1. j <= Len(body)
        BY <1>0, <1>1, <2>0
    <2>2. After(j) = j + 1 \/ (j + 1 <= Len(body) /\ After(j) = j + 2)
        BY DEF At
    <2> QED
        BY <1>0, <1>1, <2>1, <2>2
<1> HIDE DEF After
<1>5. \A j \in 1 .. N : j \in Stop => base[j] \in Seq(S)
    BY <1>2, EmptySeq
<1>6. ASSUME NEW j \in 1 .. N, j \notin Stop
      PROVE  next[j] \in j + 1 .. N /\ op[j] \in [Seq(S) -> Seq(S)]
    <2>0. j \in 1 .. Len(body)
        <3>1. ~(j > Len(body))
            BY <1>2, <1>6
        <3> QED
            BY <1>0, <1>1, <3>1
    <2>1. body[j] \in S
        BY <1>0, <2>0
    <2>2. <<body[j]>> \in Seq(S)
        BY <2>1
    <2>3. \A x \in Seq(S) : <<body[j]>> \o x \in Seq(S)
        BY <2>2, ConcatProperties
    <2> QED
        BY <1>2, <1>20, <1>3, <1>6, <2>3
<1>7. PICK f \in [1 .. N -> Seq(S)] :
            \A j \in 1 .. N : f[j] = IF j \in Stop THEN base[j] ELSE op[j][f[next[j]]]
    <2>1. JumpsAhead(N, D, Stop, base, next, op)
        BY <1>1, <1>5, <1>6 DEF JumpsAhead, D
    <2>2. \E f : f \in JumpFunctions(N, D, Stop, base, next, op)
        BY <2>1, JumpRecursion
    <2> QED
        BY <2>2 DEF JumpFunctions, D
<1>8. ASSUME NEW j \in 1 .. N PROVE f[j] = Value(f, j)
    <2>1. CASE j \in Stop
        BY <1>2, <1>7, <2>1
    <2>2. CASE j \notin Stop
        <3>1. next[j] \in 1 .. N
            BY <1>1, <1>6, <2>2
        <3>2. f[next[j]] \in Seq(S)
            BY <3>1
        <3>3. op[j][f[next[j]]] = <<body[j]>> \o f[next[j]]
            BY <1>20, <3>2
        <3>4. f[j] = <<body[j]>> \o f[next[j]]
            BY <1>7, <2>2, <3>3
        <3> QED
            BY <1>2, <2>2, <3>4
    <2> QED
        BY <2>1, <2>2
<1>9. f = [j \in 1 .. N |-> Value(f, j)]
    BY <1>8
<1>10. from = [j \in 1 .. N |-> Value(from, j)]
    BY <1>9
<1> HIDE DEF from
<1> QED
    BY <1>4, <1>10 DEF N, After

\* A symbol of a value, as it is written inside a literal.
Encoded(symbol) == IF symbol = "'" THEN <<"'", "'">> ELSE <<symbol>>

\* How a value is written as a literal is defined.
LEMMA QuotedDefined ==
    ASSUME NEW S, "'" \in S, NEW value \in Seq(S)
    PROVE  \E doubled \in [1 .. Len(value) + 1 -> Seq(S)] :
               /\ doubled[Len(value) + 1] = <<>>
               /\ \A j \in 1 .. Len(value) : doubled[j] = Encoded(value[j]) \o doubled[j + 1]
               /\ Quoted(value) = <<"'">> \o doubled[1] \o <<"'">>
<1> DEFINE N == Len(value) + 1
           Value(f, j) == IF j > Len(value) THEN <<>> ELSE Encoded(value[j]) \o f[j + 1]
           Stop == {j \in 1 .. N : j > Len(value)}
           D == Seq(S)
           base == [j \in 1 .. N |-> <<>>]
           next == [j \in 1 .. N |-> j + 1]
           op == [j \in 1 .. N |-> [x \in Seq(S) |-> Encoded(value[j]) \o x]]
           doubled == CHOOSE f : f = [j \in 1 .. N |-> Value(f, j)]
<1>0. Len(value) \in Nat /\ \A j \in 1 .. Len(value) : value[j] \in S
    BY LenProperties, ElementOfSeq
<1>1. N \in Nat /\ N # 0 /\ N = Len(value) + 1
    BY <1>0
<1>2. \A j \in 1 .. N : /\ j \in Stop <=> j > Len(value)
                        /\ base[j] = <<>> /\ next[j] = j + 1
    OBVIOUS
<1>20. \A j \in 1 .. N : op[j] = [x \in Seq(S) |-> Encoded(value[j]) \o x]
    OBVIOUS
<1>4. Quoted(value) = <<"'">> \o doubled[1] \o <<"'">>
    BY DEF Quoted, Encoded
<1> HIDE DEF N, D, Stop, base, next, op
<1>3. ASSUME NEW j \in 1 .. N, j \notin Stop PROVE j + 1 \in j + 1 .. N /\ j \in 1 .. Len(value)
    <2>1. ~(j > Len(value))
        BY <1>2, <1>3
    <2> QED
        BY <1>0, <1>1, <2>1
<1>5. \A j \in 1 .. N : j \in Stop => base[j] \in Seq(S)
    BY <1>2, EmptySeq
<1>11. ASSUME NEW j \in 1 .. Len(value) PROVE \A x \in Seq(S) : Encoded(value[j]) \o x \in Seq(S)
    <2>1. Encoded(value[j]) \in Seq(S)
        BY <1>0 DEF Encoded
    <2> QED
        BY <2>1, ConcatProperties
<1>6. ASSUME NEW j \in 1 .. N, j \notin Stop
      PROVE  next[j] \in j + 1 .. N /\ op[j] \in [Seq(S) -> Seq(S)]
    BY <1>2, <1>20, <1>3, <1>6, <1>11, ZenonT(30)
<1>7. PICK f \in [1 .. N -> Seq(S)] :
            \A j \in 1 .. N : f[j] = IF j \in Stop THEN base[j] ELSE op[j][f[next[j]]]
    <2>1. JumpsAhead(N, D, Stop, base, next, op)
        BY <1>1, <1>5, <1>6 DEF JumpsAhead, D
    <2>2. \E f : f \in JumpFunctions(N, D, Stop, base, next, op)
        BY <2>1, JumpRecursion
    <2> QED
        BY <2>2 DEF JumpFunctions, D
<1>8. ASSUME NEW j \in 1 .. N PROVE f[j] = Value(f, j)
    <2>1. CASE j \in Stop
        BY <1>2, <1>7, <2>1
    <2>2. CASE j \notin Stop
        <3>0. j + 1 \in j + 1 .. N /\ next[j] = j + 1
            BY <1>2, <1>3, <2>2
        <3>1. j + 1 \in 1 .. N /\ next[j] = j + 1
            BY <1>1, <3>0
        <3>2. f[j + 1] \in Seq(S)
            BY <3>1
        <3>3. op[j][f[j + 1]] = Encoded(value[j]) \o f[j + 1]
            BY <1>20, <3>2
        <3> QED
            BY <1>2, <1>7, <2>2, <3>1, <3>3
    <2> QED
        BY <2>1, <2>2
<1>9. f = [j \in 1 .. N |-> Value(f, j)]
    BY <1>8
<1>10. doubled = [j \in 1 .. N |-> Value(doubled, j)]
    BY <1>9
<1> HIDE DEF doubled
<1>12. doubled[N] = <<>> /\ \A j \in 1 .. Len(value) : doubled[j] = Encoded(value[j]) \o doubled[j + 1]
    <2>1. N \in 1 .. N /\ N > Len(value) /\ \A j \in 1 .. Len(value) : j \in 1 .. N /\ ~(j > Len(value))
        BY <1>0, <1>1
    <2> QED
        BY <1>10, <2>1
<1> DEFINE Good == {j \in 1 .. N : doubled[j] \in Seq(S)}
<1>13. ASSUME NEW j \in 1 .. N, \A k \in j + 1 .. N : k \in Good PROVE j \in Good
    <2>1. CASE j = N
        BY <1>12, <2>1, EmptySeq
    <2>2. CASE j # N
        <3>1. j \in 1 .. Len(value) /\ j + 1 \in j + 1 .. N
            BY <1>0, <1>1, <2>2
        <3>2. j + 1 \in Good
            BY <1>13, <3>1
        <3> QED
            BY <1>11, <1>12, <3>1, <3>2
    <2> QED
        BY <2>1, <2>2
<1>14. \A j \in 1 .. N : doubled[j] \in Seq(S)
    <2> HIDE DEF Good
    <2>1. \A j \in 1 .. N : j \in Good
        BY <1>1, <1>13, BackwardInduction
    <2> QED
        BY <2>1 DEF Good
<1>15. doubled \in [1 .. N -> Seq(S)]
    BY <1>10, <1>14
<1> QED
    BY <1>1, <1>4, <1>12, <1>15

\* ws* goes forward, and nowhere where there is no white space.
LEMMA SpacesGoAhead ==
    ASSUME NEW text, Len(text) \in Nat
    PROVE  /\ Spaces(text, NoMatch) = NoMatch
           /\ \A i \in 1 .. Len(text) + 1 : Spaces(text, i) \in i .. Len(text) + 1
           /\ \A i \in 1 .. Len(text) + 1 : ~At(text, i, "ws") => Spaces(text, i) = i
           /\ \A i \in 1 .. Len(text) : text[i] = "ws" => Spaces(text, i) = Spaces(text, i + 1)
<1> DEFINE N == Len(text) + 1
<1>1. PICK from : /\ \A j \in 1 .. N : from[j] = IF At(text, j, "ws") THEN from[j + 1] ELSE j
                  /\ \A i : Spaces(text, i) = IF i = NoMatch THEN NoMatch ELSE from[i]
    BY SpacesDefined
<1>2. N \in Nat /\ N = Len(text) + 1
    OBVIOUS
<1> HIDE DEF N
<1>3. Spaces(text, NoMatch) = NoMatch /\ \A i \in 1 .. N + 1 : Spaces(text, i) = from[i]
    <2>1. \A i \in 1 .. N + 1 : i # NoMatch
        BY <1>2 DEF NoMatch
    <2> QED
        BY <1>1, <2>1
<1> DEFINE Good == {i \in 1 .. N : from[i] \in i .. N}
<1>4. ASSUME NEW i \in 1 .. N, \A k \in i + 1 .. N : k \in Good PROVE i \in Good
    <2>1. CASE ~At(text, i, "ws")
        BY <1>1, <1>2, <2>1
    <2>2. CASE At(text, i, "ws")
        <3>1. i + 1 \in i + 1 .. N
            BY <1>2, <2>2 DEF At
        <3>2. from[i + 1] \in i + 1 .. N
            BY <1>4, <3>1
        <3>3. from[i] = from[i + 1]
            BY <1>1, <2>2
        <3> QED
            BY <1>2, <3>2, <3>3
    <2> QED
        BY <2>1, <2>2
<1>5. \A i \in 1 .. N : from[i] \in i .. N
    <2> HIDE DEF Good
    <2>1. \A i \in 1 .. N : i \in Good
        BY <1>2, <1>4, BackwardInduction
    <2> QED
        BY <2>1 DEF Good
<1>6. \A i \in 1 .. N : i \in 1 .. N + 1 /\ (i \in 1 .. Len(text) => i + 1 \in 1 .. N + 1)
    BY <1>2
<1>7. \A i \in 1 .. N : Spaces(text, i) \in i .. N
    BY <1>3, <1>5, <1>6
<1>8. \A i \in 1 .. N : ~At(text, i, "ws") => Spaces(text, i) = i
    BY <1>1, <1>3, <1>6
<1>9. ASSUME NEW i \in 1 .. Len(text), text[i] = "ws" PROVE Spaces(text, i) = Spaces(text, i + 1)
    <2>1. i \in 1 .. N /\ At(text, i, "ws")
        BY <1>2, <1>9 DEF At, NoMatch
    <2> QED
        BY <1>1, <1>3, <1>6, <2>1
<1> QED
    BY <1>3, <1>7, <1>8, <1>9 DEF N

\* A token is matched where it is.
LEMMA TokenMatches ==
    ASSUME NEW text, Len(text) \in Nat, NEW i \in 0 .. Len(text) + 1, NEW symbol
    PROVE  \/ i \in 1 .. Len(text) /\ text[i] = symbol /\ Token(text, i, symbol) = i + 1
           \/ ~At(text, i, symbol) /\ Token(text, i, symbol) = NoMatch
BY DEF Token, At, NoMatch

\* A literal takes two quotes at least.
LEMMA LiteralGoesAhead ==
    ASSUME NEW text, Len(text) \in Nat, NEW i \in 0 .. Len(text) + 1, TextLiteral(text, i) # NoMatch
    PROVE  /\ i \in 1 .. Len(text) /\ text[i] = "'"
           /\ TextLiteral(text, i) \in i + 2 .. Len(text) + 1
<1> DEFINE N == Len(text) + 1
           Value(f, j) == IF j > Len(text) THEN NoMatch
                          ELSE IF text[j] # "'" THEN f[j + 1]
                          ELSE IF At(text, j + 1, "'") THEN f[j + 2]
                          ELSE j + 1
<1>1. PICK close : /\ \A j \in 1 .. N : close[j] = Value(close, j)
                   /\ \A k : TextLiteral(text, k) = IF At(text, k, "'") THEN close[k + 1] ELSE NoMatch
    BY LiteralDefined
<1>2. N \in Nat /\ N = Len(text) + 1
    OBVIOUS
<1> HIDE DEF N
<1> DEFINE Good == {j \in 1 .. N : close[j] = 0 \/ close[j] \in j + 1 .. N}
<1>3. ASSUME NEW j \in 1 .. N, \A k \in j + 1 .. N : k \in Good PROVE j \in Good
    <2>1. CASE j > Len(text)
        BY <1>1, <2>1 DEF NoMatch
    <2>2. CASE ~(j > Len(text)) /\ text[j] # "'"
        <3>1. j + 1 \in j + 1 .. N
            BY <1>2, <2>2
        <3>2. close[j + 1] = 0 \/ close[j + 1] \in j + 2 .. N
            BY <1>3, <3>1
        <3>3. close[j] = close[j + 1]
            BY <1>1, <2>2
        <3> QED
            BY <1>2, <3>2, <3>3
    <2>3. CASE ~(j > Len(text)) /\ text[j] = "'" /\ At(text, j + 1, "'")
        <3>1. j + 2 \in j + 1 .. N
            BY <1>2, <2>3 DEF At
        <3>2. j + 2 \in Good
            BY <1>3, <3>1
        <3>3. close[j] = close[j + 2]
            BY <1>1, <2>3
        <3> QED
            BY <1>2, <3>2, <3>3
    <2>4. CASE ~(j > Len(text)) /\ text[j] = "'" /\ ~At(text, j + 1, "'")
        <3>1. close[j] = j + 1 /\ j + 1 \in j + 1 .. N
            BY <1>1, <1>2, <2>4
        <3> QED
            BY <3>1
    <2> QED
        BY <2>1, <2>2, <2>3, <2>4
<1>4. \A j \in 1 .. N : close[j] = 0 \/ close[j] \in j + 1 .. N
    <2> HIDE DEF Good
    <2>1. \A j \in 1 .. N : j \in Good
        BY <1>2, <1>3, BackwardInduction
    <2> QED
        BY <2>1 DEF Good
<1>5. At(text, i, "'") /\ TextLiteral(text, i) = close[i + 1]
    BY <1>1
<1>6. i \in 1 .. Len(text) /\ text[i] = "'" /\ i + 1 \in 1 .. N
    BY <1>2, <1>5 DEF At, NoMatch
<1>7. close[i + 1] \in (i + 1) + 1 .. N
    BY <1>4, <1>5, <1>6 DEF NoMatch
<1> QED
    BY <1>2, <1>5, <1>6, <1>7

\* What a literal stands for is a text over the same symbols.
LEMMA UnquoteIsText ==
    ASSUME NEW S, NEW body \in Seq(S)
    PROVE  Unquote(body) \in Seq(S)
<1> DEFINE N == Len(body) + 1
           After(j) == IF At(body, j, "'") /\ At(body, j + 1, "'") THEN j + 2 ELSE j + 1
<1>1. PICK from : /\ \A j \in 1 .. N : from[j] = IF j > Len(body) THEN <<>> ELSE <<body[j]>> \o from[After(j)]
                  /\ Unquote(body) = from[1]
    BY UnquoteDefined
<1>2. Len(body) \in Nat /\ N \in Nat /\ N = Len(body) + 1 /\ \A j \in 1 .. Len(body) : body[j] \in S
    BY LenProperties, ElementOfSeq
<1>3. ASSUME NEW j \in 1 .. Len(body) PROVE After(j) \in j + 1 .. N
    <2>1. After(j) = j + 1 \/ (j + 1 <= Len(body) /\ After(j) = j + 2)
        BY DEF At
    <2> QED
        BY <1>2, <2>1
<1> HIDE DEF N, After
<1> DEFINE Good == {j \in 1 .. N : from[j] \in Seq(S)}
<1>4. ASSUME NEW j \in 1 .. N, \A k \in j + 1 .. N : k \in Good PROVE j \in Good
    <2>1. CASE j > Len(body)
        BY <1>1, <2>1, EmptySeq
    <2>2. CASE ~(j > Len(body))
        <3>1. j \in 1 .. Len(body)
            BY <1>2, <2>2
        <3>2. <<body[j]>> \in Seq(S)
            BY <1>2, <3>1
        <3>3. from[After(j)] \in Seq(S)
            BY <1>3, <1>4, <3>1
        <3> QED
            BY <1>1, <2>2, <3>2, <3>3, ConcatProperties
    <2> QED
        BY <2>1, <2>2
<1>5. 1 \in Good
    <2> HIDE DEF Good
    <2>1. \A j \in 1 .. N : j \in Good
        BY <1>2, <1>4, BackwardInduction
    <2> QED
        BY <1>2, <2>1
<1> QED
    BY <1>1, <1>5

\* A rule's end is a position of the text or behind it, or there is none.
LEMMA PositionsStayInside ==
    ASSUME NEW text, Len(text) \in Nat, NEW i \in 0 .. Len(text) + 1, NEW symbol
    PROVE  /\ Spaces(text, i) \in 0 .. Len(text) + 1
           /\ SomeSpaces(text, i) \in 0 .. Len(text) + 1
           /\ Token(text, i, symbol) \in 0 .. Len(text) + 1
           /\ Spaces(text, i) # NoMatch => i # NoMatch
<1>1. Spaces(text, i) \in 0 .. Len(text) + 1 /\ (Spaces(text, i) # NoMatch => i # NoMatch)
    <2>1. CASE i = NoMatch
        BY <2>1, SpacesGoAhead DEF NoMatch
    <2>2. CASE i # NoMatch
        <3>1. i \in 1 .. Len(text) + 1
            BY <2>2 DEF NoMatch
        <3>2. Spaces(text, i) \in i .. Len(text) + 1
            BY <3>1, SpacesGoAhead
        <3> QED
            BY <2>2, <3>1, <3>2
    <2> QED
        BY <2>1, <2>2
<1>2. SomeSpaces(text, i) \in 0 .. Len(text) + 1
    BY <1>1 DEF SomeSpaces, NoMatch
<1>3. Token(text, i, symbol) \in 0 .. Len(text) + 1
    BY TokenMatches DEF NoMatch
<1> QED
    BY <1>1, <1>2, <1>3

\* PgTestQueryTypeControlStatement::parse yields a ping, a release or nothing, and
\* a literal is a text over the symbols of the query.
LEMMA StatementsAreKnown ==
    ASSUME NEW S, NEW text \in Seq(S)
    PROVE  \/ ControlStatement(text) \in {Unsupported, Ping, ReleaseParameter}
           \/ \E value \in Seq(S) : ControlStatement(text) = ReleaseLiteral(value)
<1> DEFINE N == Len(text) + 1
           verb == SomeSpaces(text, Token(text, Spaces(text, 1), "select"))
           ping == Token(text, verb, "1")
           name == Token(text, verb, "pgtest_release")
           open == Token(text, Spaces(text, name), "(")
           argument == Spaces(text, open)
           literal == TextLiteral(text, argument)
           parameter == Parameter(text, argument)
           finishes(i) == QueryEnds(text, Token(text, Spaces(text, i), ")"))
           body == SubSeq(text, argument + 1, literal - 2)
<1>1. Len(text) \in Nat /\ N = Len(text) + 1 /\ \A j \in 1 .. Len(text) : text[j] \in S
    BY LenProperties, ElementOfSeq
<1>2. ControlStatement(text) = CASE QueryEnds(text, ping) -> Ping
                                 [] finishes(literal) -> ReleaseLiteral(Unquote(body))
                                 [] finishes(parameter) -> ReleaseParameter
                                 [] OTHER -> Unsupported
    BY DEF ControlStatement
<1>3. argument \in 0 .. N
    <2> HIDE DEF N, verb, name, open, argument
    <2>1. 1 \in 0 .. N
        BY <1>1
    <2>2. Token(text, Spaces(text, 1), "select") \in 0 .. N
        BY <1>1, <2>1, PositionsStayInside
    <2>3. verb \in 0 .. N
        BY <1>1, <2>2, PositionsStayInside DEF verb
    <2>4. name \in 0 .. N
        BY <1>1, <2>3, PositionsStayInside DEF name
    <2>5. Spaces(text, name) \in 0 .. N
        BY <1>1, <2>4, PositionsStayInside
    <2>6. open \in 0 .. N
        BY <1>1, <2>5, PositionsStayInside DEF open
    <2> QED
        BY <1>1, <2>6, PositionsStayInside DEF argument
<1> HIDE DEF argument, ping, parameter
<1>4. ASSUME finishes(literal) PROVE Unquote(body) \in Seq(S)
    <2>1. Token(text, Spaces(text, literal), ")") # NoMatch
        BY <1>4 DEF QueryEnds
    <2>2. literal # NoMatch
        <3>1. Spaces(text, literal) # NoMatch
            BY <2>1 DEF Token, At
        <3> QED
            BY <1>1, <3>1, SpacesGoAhead
    <2>3. argument \in 1 .. Len(text) /\ literal \in argument + 2 .. N
        BY <1>1, <1>3, <2>2, LiteralGoesAhead
    <2> HIDE DEF literal, N
    <2>4. \A j \in argument + 1 .. literal - 2 : j \in 1 .. Len(text)
        BY <1>1, <2>3
    <2>5. \A j \in argument + 1 .. literal - 2 : text[j] \in S
        BY <1>1, <2>4
    <2>6. argument + 1 \in Int /\ literal - 2 \in Int
        BY <1>1, <2>3
    <2>7. body \in Seq(S)
        BY <2>5, <2>6, SubSeqProperties
    <2> HIDE DEF body
    <2> QED
        BY <2>7, UnquoteIsText
<1> HIDE DEF finishes, body, literal
<1> QED
    BY <1>2, <1>4

----------------------------------------------------------------------------
\* Leases that are released.

\* A lease that is being released is a text and a valid lease ID.
ReleasedLeaseIsValid ==
    state = "Releasing" => release.lease \in Seq(STRING) /\ ValidLeaseId(release.lease)

LEMMA ReleasedLeaseStaysValid == PanelInv /\ ReleasedLeaseIsValid /\ [Next]_vars => ReleasedLeaseIsValid'
<1> SUFFICES ASSUME PanelInv, ReleasedLeaseIsValid, [Next]_vars PROVE ReleasedLeaseIsValid'
    OBVIOUS
<1>1. CASE state' # "Releasing"
    BY <1>1 DEF ReleasedLeaseIsValid
<1>2. CASE UNCHANGED <<state, release>>
    BY <1>2 DEF ReleasedLeaseIsValid, ValidLeaseId, Bytes
<1>3. ASSUME NEW lease, NEW message, Release(lease, message), lease \in Seq(STRING), ValidLeaseId(lease)
      PROVE  ReleasedLeaseIsValid'
    <2>1. release'.lease = lease
        BY <1>3 DEF Release
    <2> QED
        BY <1>3, <2>1 DEF ReleasedLeaseIsValid, ValidLeaseId, Bytes
<1>4. \A message : Fails(message) => state' # "Releasing"
    BY DEF Fails
<1>5. Replies => UNCHANGED <<state, release>>
    BY DEF Replies
<1>7. ASSUME NEW text \in Queries, ControlStatement(text).kind = "Literal"
      PROVE  ControlStatement(text).literal \in Seq(STRING)
    <2>1. text \in Seq(STRING)
        BY PanelAssumption
    <2>2. \/ ControlStatement(text) \in {Unsupported, Ping, ReleaseParameter}
          \/ \E v \in Seq(STRING) : ControlStatement(text) = ReleaseLiteral(v)
        BY <2>1, StatementsAreKnown
    <2>3. PICK v \in Seq(STRING) : ControlStatement(text) = ReleaseLiteral(v)
        BY <1>7, <2>2 DEF Unsupported, Ping, ReleaseParameter
    <2> QED
        BY <2>3 DEF ReleaseLiteral
<1>8. ASSUME NEW text \in Queries, Query(text) PROVE ReleasedLeaseIsValid'
    <2>1. \/ Replies
          \/ /\ ControlStatement(text).kind = "Literal" /\ ValidLeaseId(ControlStatement(text).literal)
             /\ Release(ControlStatement(text).literal, "Query")
          \/ Fails("Query")
        BY <1>8 DEF Query
    <2> QED
        BY <1>1, <1>2, <1>3, <1>4, <1>5, <1>7, <2>1
<1>9. ASSUME NEW p \in PortalNames, Execute(p) PROVE ReleasedLeaseIsValid'
    <2> DEFINE portal == portals[p]
    <2>1. \/ Replies
          \/ /\ portal.statement \notin {Missing, Empty, Ping} /\ Executable(portal)
             /\ Release(LeaseArgument(portal), "Execute")
          \/ Fails("Execute")
        BY <1>9 DEF Execute
    <2>2. portal.statement \in Prepared \ {Unsupported} /\ portal.parameters \in BoundParameters \cup {<<>>}
        BY DEF PanelInv, PanelTypeOK
    <2> HIDE DEF portal
    <2>3. ASSUME portal.statement \notin {Missing, Empty, Ping}, Executable(portal)
          PROVE  LeaseArgument(portal) \in Seq(STRING) /\ ValidLeaseId(LeaseArgument(portal))
        <3>1. PICK text \in Queries : portal.statement = ControlStatement(text)
            BY <2>2, <2>3 DEF Prepared
        <3>2. \/ portal.statement = ReleaseParameter
              \/ \E v \in Seq(STRING) : portal.statement = ReleaseLiteral(v)
            <4>1. text \in Seq(STRING)
                BY PanelAssumption
            <4>2. \/ ControlStatement(text) \in {Unsupported, Ping, ReleaseParameter}
                  \/ \E v \in Seq(STRING) : ControlStatement(text) = ReleaseLiteral(v)
                BY <4>1, StatementsAreKnown
            <4> QED
                BY <2>2, <2>3, <3>1, <4>2
        <3>3. CASE portal.statement = ReleaseParameter
            <4>1. /\ portal.statement.kind = "Parameter" /\ LeaseArgument(portal) = portal.parameters[1]
                  /\ Len(portal.parameters) = 1
                BY <2>3, <3>3 DEF ReleaseParameter, Executable, LeaseArgument, ParameterTypes
            <4>2. portal.parameters \in Seq(Seq(STRING) \cup {Null})
                BY <2>2, EmptySeq, PanelAssumption
            <4>3. portal.parameters[1] \in Seq(STRING) \cup {Null}
                BY <4>1, <4>2, ElementOfSeq
            <4>4. LeaseArgument(portal) # Null /\ ValidLeaseId(LeaseArgument(portal))
                BY <2>3, <4>1 DEF Executable, Resolves
            <4> QED
                BY <4>1, <4>3, <4>4
        <3>4. ASSUME NEW v \in Seq(STRING), portal.statement = ReleaseLiteral(v)
              PROVE  LeaseArgument(portal) \in Seq(STRING) /\ ValidLeaseId(LeaseArgument(portal))
            <4>1. portal.statement.kind = "Literal" /\ LeaseArgument(portal) = v
                BY <3>4 DEF ReleaseLiteral, LeaseArgument
            <4> QED
                BY <2>3, <4>1 DEF Executable, Resolves
        <3> QED
            BY <3>2, <3>3, <3>4
    <2> QED
        BY <1>1, <1>2, <1>3, <1>4, <1>5, <2>1, <2>3
<1>10. ASSUME NEW s \in StatementNames, NEW text \in Queries, NEW oids \in DeclaredTypes, Parse(s, text, oids)
       PROVE  ReleasedLeaseIsValid'
    BY <1>1, <1>2, <1>4, <1>10 DEF Parse
<1>11. ASSUME NEW p \in PortalNames, NEW s \in StatementNames, NEW parameters \in BoundParameters,
              NEW formats \in FormatCodes, Bind(p, s, parameters, formats)
       PROVE  ReleasedLeaseIsValid'
    BY <1>1, <1>2, <1>4, <1>11 DEF Bind
<1>12. ASSUME NEW st, Describe(st) PROVE ReleasedLeaseIsValid'
    BY <1>1, <1>2, <1>4, <1>5, <1>12 DEF Describe
<1>13. ASSUME NEW p, ClosePortal(p) \/ CloseStatement(p) PROVE ReleasedLeaseIsValid'
    BY <1>2, <1>13 DEF ClosePortal, CloseStatement
<1>14. CASE Sync \/ Terminate \/ Released \/ ReleaseFails
    BY <1>1, <1>14 DEF Sync, Terminate, Released, ReleaseFails
<1>15. CASE UNCHANGED vars
    BY <1>2, <1>15 DEF vars
<1> QED
    BY <1>8, <1>9, <1>10, <1>11, <1>12, <1>13, <1>14, <1>15 DEF Next

\* A sequence is one over more elements, too.
LEMMA SeqWidens ==
    ASSUME NEW S, NEW T, S \subseteq T, NEW s \in Seq(S)
    PROVE  s \in Seq(T)
<1>1. Len(s) \in Nat /\ s \in [1 .. Len(s) -> S]
    BY LenProperties
<1>2. s \in [1 .. Len(s) -> T]
    BY <1>1
<1> QED
    BY <1>1, <1>2, SeqDef

\* A template and a lease ID without slashes make a field that is read as them.
LEMMA FieldOfLease ==
    ASSUME NEW S, "/" \in S, NEW template \in Seq(S), NEW lease \in Seq(S),
           template # <<>>, Slashes(template) = {}, ValidLeaseId(lease)
    PROVE  ParseConnectionField(template \o <<"/">> \o lease)
               = [ok |-> TRUE, database |-> template, lease |-> lease]
<1> DEFINE t == Len(template)
           front == template \o <<"/">>
           input == front \o lease
<1>1. /\ t \in Nat \ {0} /\ Len(lease) \in Nat
      /\ \A i \in 1 .. t : template[i] \in S /\ template[i] # "/"
      /\ \A i \in 1 .. Len(lease) : lease[i] \in S /\ lease[i] # "/"
    <2>1. DOMAIN template = 1 .. t /\ DOMAIN lease = 1 .. Len(lease)
        BY LenProperties
    <2> QED
        BY <2>1, EmptySeq, LenProperties, ElementOfSeq DEF Slashes, ValidLeaseId
<1>2. <<"/">> \in Seq(S) /\ Len(<<"/">>) = 1 /\ <<"/">>[1] = "/"
    OBVIOUS
<1>3. /\ front \in Seq(S) /\ Len(front) = t + 1
      /\ \A i \in 1 .. t + 1 : front[i] = IF i <= t THEN template[i] ELSE "/"
    <2>1. /\ front \in Seq(S) /\ Len(front) = t + Len(<<"/">>)
          /\ \A i \in 1 .. t + Len(<<"/">>) : front[i] = IF i <= t THEN template[i] ELSE <<"/">>[i - t]
        BY <1>2, ConcatProperties, ZenonT(30)
    <2> HIDE DEF front
    <2>2. \A i \in 1 .. t + 1 : ~(i <= t) => i - t = 1
        BY <1>1
    <2> QED
        BY <1>2, <2>1, <2>2
<1> HIDE DEF front
<1>4. /\ input \in Seq(S) /\ Len(input) = t + 1 + Len(lease)
      /\ \A i \in 1 .. t + 1 + Len(lease) : input[i] = IF i <= t + 1 THEN front[i] ELSE lease[i - (t + 1)]
    <2>1. /\ input \in Seq(S) /\ Len(input) = Len(front) + Len(lease)
          /\ \A i \in 1 .. Len(front) + Len(lease) :
                input[i] = IF i <= Len(front) THEN front[i] ELSE lease[i - Len(front)]
        BY <1>3, ConcatProperties, ZenonT(30)
    <2> HIDE DEF input
    <2> QED
        BY <1>1, <1>3, <2>1
<1> HIDE DEF input, t
<1>5. \A i \in 1 .. t : input[i] = template[i]
    <2>1. \A i \in 1 .. t : i \in 1 .. t + 1 + Len(lease) /\ i <= t + 1 /\ i \in 1 .. t + 1 /\ i <= t
        BY <1>1
    <2> QED
        BY <1>3, <1>4, <2>1
<1>6. input[t + 1] = "/"
    <2>1. t + 1 \in 1 .. t + 1 + Len(lease) /\ t + 1 <= t + 1 /\ t + 1 \in 1 .. t + 1 /\ ~(t + 1 <= t)
        BY <1>1
    <2> QED
        BY <1>3, <1>4, <2>1
<1>7. ASSUME NEW i \in 1 .. Len(lease) PROVE input[t + 1 + i] = lease[i]
    <2> DEFINE k == t + 1 + i
    <2>1. k \in 1 .. t + 1 + Len(lease) /\ ~(k <= t + 1) /\ k - (t + 1) = i
        BY <1>1
    <2> HIDE DEF k
    <2>2. input[k] = IF k <= t + 1 THEN front[k] ELSE lease[k - (t + 1)]
        BY <1>4, <2>1
    <2>3. input[k] = lease[i]
        BY <2>1, <2>2
    <2> QED
        BY <2>3 DEF k
<1>8. Slashes(input) = {t + 1}
    <2>1. DOMAIN input = 1 .. t + 1 + Len(lease)
        BY <1>4, LenProperties
    <2>2. ASSUME NEW i \in 1 .. t + 1 + Len(lease), i # t + 1 PROVE input[i] # "/"
        <3>1. CASE i <= t
            <4>1. i \in 1 .. t
                BY <1>1, <3>1
            <4> QED
                BY <1>1, <1>5, <4>1
        <3>2. CASE ~(i <= t)
            <4>1. i - (t + 1) \in 1 .. Len(lease) /\ t + 1 + (i - (t + 1)) = i
                BY <1>1, <2>2, <3>2
            <4>2. input[t + 1 + (i - (t + 1))] = lease[i - (t + 1)]
                BY <1>7, <4>1
            <4> QED
                BY <1>1, <4>1, <4>2
        <3> QED
            BY <3>1, <3>2
    <2>3. t + 1 \in 1 .. t + 1 + Len(lease)
        BY <1>1
    <2> QED
        BY <1>6, <2>1, <2>2, <2>3 DEF Slashes
<1>9. SubSeq(input, 1, (t + 1) - 1) = template
    <2> DEFINE d == SubSeq(input, 1, (t + 1) - 1)
    <2>1. (t + 1) - 1 = t /\ \A i \in 1 .. t : i \in 1 .. Len(input)
        BY <1>1, <1>4
    <2>2. \A i \in 1 .. t : input[i] \in S
        BY <1>1, <1>5
    <2>3. /\ d \in Seq(S) /\ Len(d) = (IF 1 <= t THEN t - 1 + 1 ELSE 0)
          /\ \A i \in 1 .. t - 1 + 1 : d[i] = input[1 + i - 1]
        BY <1>1, <2>1, <2>2, SubSeqProperties
    <2> HIDE DEF d
    <2>4. Len(d) = t /\ \A i \in 1 .. t : d[i] = template[i]
        BY <1>1, <1>5, <2>3
    <2> QED
        BY <2>3, <2>4, SeqEqual DEF d, t
<1>10. SubSeq(input, (t + 1) + 1, Len(input)) = lease
    <2> DEFINE d == SubSeq(input, (t + 1) + 1, Len(input))
    <2>1. \A i \in (t + 1) + 1 .. Len(input) : i \in 1 .. Len(input)
        BY <1>1, <1>4
    <2>2. \A i \in (t + 1) + 1 .. Len(input) : input[i] \in S
        BY <1>4, <2>1, ElementOfSeq
    <2>3. /\ d \in Seq(S)
          /\ Len(d) = IF (t + 1) + 1 <= Len(input) THEN Len(input) - ((t + 1) + 1) + 1 ELSE 0
          /\ \A i \in 1 .. Len(input) - ((t + 1) + 1) + 1 : d[i] = input[((t + 1) + 1) + i - 1]
        BY <1>1, <1>4, <2>2, SubSeqProperties
    <2> HIDE DEF d
    <2>4. Len(input) - ((t + 1) + 1) + 1 = Len(lease)
          /\ \A i \in 1 .. Len(lease) : ((t + 1) + 1) + i - 1 = t + 1 + i
        BY <1>1, <1>4
    <2>5. Len(d) = Len(lease)
        BY <1>1, <1>4, <2>3
    <2>6. ASSUME NEW i \in 1 .. Len(lease) PROVE d[i] = lease[i]
        <3>1. d[i] = input[((t + 1) + 1) + i - 1]
            BY <2>3, <2>4
        <3> QED
            BY <1>7, <2>4, <3>1
    <2> QED
        BY <2>3, <2>5, <2>6, SeqEqual DEF d
<1>11. ParseConnectionField(input) =
        IF t + 1 = 1 \/ ~ValidLeaseId(lease) THEN BadField
        ELSE [ok |-> TRUE, database |-> template, lease |-> lease]
    BY <1>4, <1>8, <1>9, <1>10, FieldIsSplit
<1>12. t + 1 # 1
    BY <1>1
<1> QED
    BY <1>11, <1>12 DEF input, front

\* A lease that PgTestControlPanel::release is asked for, by a literal of any form
\* or by a parameter, is a name parse_connection_field accepts behind every
\* template and hands on unchanged: whatever can be released can be connected to.
THEOREM ReleasesCanBeReached == Spec => []ReleasesAreReachable
<1>1. Init => ReleasedLeaseIsValid
    BY DEF Init, ReleasedLeaseIsValid
<1>2. PanelInv /\ ReleasedLeaseIsValid /\ [Next]_vars => ReleasedLeaseIsValid'
    BY ReleasedLeaseStaysValid
<1>3. ReleasedLeaseIsValid => ReleasesAreReachable
    <2> SUFFICES ASSUME ReleasedLeaseIsValid, state = "Releasing",
                        NEW template \in BoundedTexts, template # <<>>, Slashes(template) = {}
                 PROVE  ParseConnectionField(template \o <<"/">> \o release.lease)
                            = [ok |-> TRUE, database |-> template, lease |-> release.lease]
        BY DEF ReleasesAreReachable
    <2> DEFINE S == STRING \cup {"/"}
    <2>1. template \in Seq(S)
        <3>1. PICK n \in 0 .. MaxText : template \in [1 .. n -> TextSymbols]
            BY DEF BoundedTexts
        <3>2. n \in Nat /\ TextSymbols \subseteq S
            BY TextAssumption
        <3>3. template \in Seq(TextSymbols)
            BY <3>1, <3>2, SeqDef
        <3> HIDE DEF S
        <3> QED
            BY <3>2, <3>3, SeqWidens
    <2>2. release.lease \in Seq(S) /\ ValidLeaseId(release.lease)
        <3>1. STRING \subseteq S
            OBVIOUS
        <3> HIDE DEF S
        <3> QED
            BY <3>1, SeqWidens DEF ReleasedLeaseIsValid
    <2>3. "/" \in S
        OBVIOUS
    <2> HIDE DEF S
    <2> QED
        BY <2>1, <2>2, <2>3, FieldOfLease
<1> QED
    BY <1>1, <1>2, <1>3, PanelHolds, PTL DEF Spec

----------------------------------------------------------------------------
\* Literals.

\* What is left of a sequence from position k on.
Suffix(s, k) == SubSeq(s, k, Len(s))

LEMMA SuffixProperties ==
    ASSUME NEW S, NEW s \in Seq(S), NEW k \in 1 .. Len(s) + 1
    PROVE  /\ Suffix(s, k) \in Seq(S) /\ Len(Suffix(s, k)) = Len(s) - k + 1
           /\ \A i \in 1 .. Len(s) - k + 1 : Suffix(s, k)[i] = s[k + i - 1]
<1>1. Len(s) \in Nat
    BY LenProperties
<1>2. \A i \in k .. Len(s) : i \in 1 .. Len(s)
    BY <1>1
<1>3. \A i \in k .. Len(s) : s[i] \in S
    BY <1>2, ElementOfSeq
<1> DEFINE x == SubSeq(s, k, Len(s))
<1>4. /\ x \in Seq(S) /\ Len(x) = IF k <= Len(s) THEN Len(s) - k + 1 ELSE 0
      /\ \A i \in 1 .. Len(s) - k + 1 : x[i] = s[k + i - 1]
    BY <1>1, <1>3, SubSeqProperties
<1> HIDE DEF x
<1>5. Len(x) = Len(s) - k + 1
    BY <1>1, <1>4
<1> QED
    BY <1>4, <1>5 DEF Suffix, x

LEMMA SuffixEnds ==
    ASSUME NEW S, NEW s \in Seq(S)
    PROVE  /\ Suffix(s, 1) = s
           /\ \A k \in 1 .. Len(s) + 1 : Suffix(s, k) = <<>> <=> k = Len(s) + 1
<1>1. Len(s) \in Nat /\ 1 \in 1 .. Len(s) + 1
    BY LenProperties
<1>2. Suffix(s, 1) = s
    <2> DEFINE x == Suffix(s, 1)
    <2>1. /\ x \in Seq(S) /\ Len(x) = Len(s) - 1 + 1
          /\ \A i \in 1 .. Len(s) - 1 + 1 : x[i] = s[1 + i - 1]
        BY <1>1, SuffixProperties
    <2> HIDE DEF x
    <2>2. Len(x) = Len(s) /\ \A i \in 1 .. Len(s) : x[i] = s[i]
        BY <1>1, <2>1
    <2> QED
        BY <2>1, <2>2, SeqEqual DEF x
<1>3. ASSUME NEW k \in 1 .. Len(s) + 1 PROVE Suffix(s, k) = <<>> <=> k = Len(s) + 1
    <2> DEFINE x == Suffix(s, k)
    <2>1. x \in Seq(S) /\ Len(x) = Len(s) - k + 1
        BY SuffixProperties
    <2> HIDE DEF x
    <2>2. x = <<>> <=> Len(x) = 0
        BY <2>1, EmptySeq
    <2>3. Len(s) - k + 1 = 0 <=> k = Len(s) + 1
        BY <1>1
    <2> QED
        BY <2>1, <2>2, <2>3 DEF x
<1> QED
    BY <1>2, <1>3

LEMMA ConsProperties ==
    ASSUME NEW S, NEW a \in S, NEW u \in Seq(S)
    PROVE  /\ <<a>> \o u \in Seq(S) /\ Len(<<a>> \o u) = Len(u) + 1
           /\ (<<a>> \o u)[1] = a
           /\ \A i \in 1 .. Len(u) : (<<a>> \o u)[i + 1] = u[i]
<1> DEFINE h == <<a>>
           x == h \o u
<1>1. h \in Seq(S) /\ Len(h) = 1 /\ h[1] = a /\ Len(u) \in Nat
    BY LenProperties
<1> HIDE DEF h
<1>2. /\ x \in Seq(S) /\ Len(x) = Len(h) + Len(u)
      /\ \A i \in 1 .. Len(h) + Len(u) : x[i] = IF i <= Len(h) THEN h[i] ELSE u[i - Len(h)]
    BY <1>1, ConcatProperties
<1> HIDE DEF x
<1>3. Len(x) = Len(u) + 1 /\ x[1] = a
    BY <1>1, <1>2
<1>4. ASSUME NEW i \in 1 .. Len(u) PROVE x[i + 1] = u[i]
    <2>1. i + 1 \in 1 .. Len(h) + Len(u) /\ ~(i + 1 <= Len(h)) /\ i + 1 - Len(h) = i
        BY <1>1
    <2> QED
        BY <1>2, <2>1
<1> QED
    BY <1>2, <1>3, <1>4 DEF x, h

\* A suffix is its first element and the next suffix, and it is so in one way.
LEMMA SuffixSplits ==
    ASSUME NEW S, NEW s \in Seq(S), NEW k \in 1 .. Len(s)
    PROVE  Suffix(s, k) = <<s[k]>> \o Suffix(s, k + 1)
<1>1. Len(s) \in Nat /\ s[k] \in S /\ k \in 1 .. Len(s) + 1 /\ k + 1 \in 1 .. Len(s) + 1
    BY LenProperties, ElementOfSeq
<1> DEFINE x == Suffix(s, k)
           u == Suffix(s, k + 1)
           a == s[k]
           y == <<a>> \o u
<1>2. x \in Seq(S) /\ Len(x) = Len(s) - k + 1 /\ \A i \in 1 .. Len(s) - k + 1 : x[i] = s[k + i - 1]
    BY <1>1, SuffixProperties
<1>3. u \in Seq(S) /\ Len(u) = Len(s) - (k + 1) + 1 /\ \A i \in 1 .. Len(s) - (k + 1) + 1 : u[i] = s[(k + 1) + i - 1]
    BY <1>1, SuffixProperties
<1> HIDE DEF x, u
<1>4. y \in Seq(S) /\ Len(y) = Len(u) + 1 /\ y[1] = a /\ \A i \in 1 .. Len(u) : y[i + 1] = u[i]
    <2>1. u \in Seq(S) /\ a \in S
        BY <1>1, <1>3
    <2> HIDE DEF a
    <2> QED
        BY <2>1, ConsProperties
<1> HIDE DEF y
<1>5. Len(x) = Len(y)
    BY <1>1, <1>2, <1>3, <1>4
<1>6. ASSUME NEW i \in 1 .. Len(x) PROVE x[i] = y[i]
    <2>1. x[i] = s[k + i - 1]
        BY <1>2
    <2>2. CASE i = 1
        BY <1>1, <1>4, <2>1, <2>2
    <2>3. CASE i # 1
        <3> DEFINE j == i - 1
        <3>1. j \in 1 .. Len(u) /\ j \in 1 .. Len(s) - (k + 1) + 1 /\ j + 1 = i /\ (k + 1) + j - 1 = k + i - 1
            BY <1>1, <1>2, <1>3, <2>3
        <3> HIDE DEF j
        <3>2. y[j + 1] = u[j] /\ u[j] = s[(k + 1) + j - 1]
            BY <1>3, <1>4, <3>1
        <3> QED
            BY <2>1, <3>1, <3>2
    <2> QED
        BY <2>2, <2>3
<1>7. x = y
    BY <1>2, <1>4, <1>5, <1>6, SeqEqual
<1> QED
    BY <1>7 DEF x, y, u

SplitsAs(S, s, k, a, u) ==
    /\ s \in Seq(S) /\ k \in 1 .. Len(s) + 1 /\ a \in S /\ u \in Seq(S)
    /\ Suffix(s, k) = <<a>> \o u

LEMMA SuffixSplitsOnce ==
    ASSUME NEW S, NEW s, NEW k, NEW a, NEW u, SplitsAs(S, s, k, a, u)
    PROVE  k \in 1 .. Len(s) /\ s[k] = a /\ Suffix(s, k + 1) = u
<1>0. /\ s \in Seq(S) /\ k \in 1 .. Len(s) + 1 /\ a \in S /\ u \in Seq(S)
      /\ Suffix(s, k) = <<a>> \o u
    BY DEF SplitsAs
<1> DEFINE x == Suffix(s, k)
           w == Suffix(s, k + 1)
<1>1. Len(s) \in Nat /\ Len(u) \in Nat
    BY <1>0, LenProperties
<1>2. x \in Seq(S) /\ Len(x) = Len(s) - k + 1
    BY <1>0, SuffixProperties
<1>3. Len(x) = Len(u) + 1 /\ x[1] = a /\ \A i \in 1 .. Len(u) : x[i + 1] = u[i]
    BY <1>0, ConsProperties
<1> HIDE DEF x
<1>4. k \in 1 .. Len(s) /\ k + 1 \in 1 .. Len(s) + 1
    BY <1>0, <1>1, <1>2, <1>3
<1>5. w \in Seq(S) /\ s[k] \in S
    BY <1>0, <1>4, SuffixProperties, ElementOfSeq
<1>6. x = <<s[k]>> \o w
    BY <1>0, <1>4, SuffixSplits DEF x
<1> HIDE DEF w
<1>7. Len(x) = Len(w) + 1 /\ x[1] = s[k] /\ \A i \in 1 .. Len(w) : x[i + 1] = w[i]
    BY <1>5, <1>6, ConsProperties
<1>8. Len(w) \in Nat
    BY <1>5, LenProperties
<1>9. Len(w) = Len(u)
    BY <1>1, <1>3, <1>7, <1>8
<1>10. \A i \in 1 .. Len(w) : w[i] = u[i]
    BY <1>3, <1>7, <1>9
<1>11. w = u
    BY <1>0, <1>5, <1>9, <1>10, SeqEqual
<1> QED
    BY <1>3, <1>4, <1>7, <1>11 DEF w

\* c is the release of an argument without white space.
IsCall(c, argument) ==
    /\ Len(argument) \in Nat /\ Len(c) = Len(argument) + 5
    /\ c[1] = "select" /\ c[2] = "ws" /\ c[3] = "pgtest_release" /\ c[4] = "("
    /\ \A i \in 1 .. Len(argument) : c[i + 4] = argument[i] /\ argument[i] # "ws"
    /\ c[Len(argument) + 5] = ")"

LEMMA CallIsCall ==
    ASSUME NEW S, "ws" \notin S, NEW argument \in Seq(S)
    PROVE  /\ IsCall(Call(argument), argument)
           /\ Call(argument) \in Seq(S \cup {"select", "ws", "pgtest_release", "(", ")"})
<1> DEFINE T == S \cup {"select", "ws", "pgtest_release", "(", ")"}
           n == Len(argument)
           head == <<"select", "ws", "pgtest_release", "(">>
           last == <<")">>
           front == head \o argument
           c == front \o last
<1>1. n \in Nat /\ \A i \in 1 .. n : argument[i] \in S
    BY LenProperties, ElementOfSeq
<1>2. /\ head \in Seq(T) /\ Len(head) = 4
      /\ head[1] = "select" /\ head[2] = "ws" /\ head[3] = "pgtest_release" /\ head[4] = "("
    OBVIOUS
<1>3. last \in Seq(T) /\ Len(last) = 1 /\ last[1] = ")"
    OBVIOUS
<1>4. argument \in Seq(T)
    <2>1. S \subseteq T
        OBVIOUS
    <2> HIDE DEF T
    <2> QED
        BY <2>1, SeqWidens
<1>5. Call(argument) = c
    BY DEF Call
<1> HIDE DEF T, head, last
<1>6. /\ front \in Seq(T) /\ Len(front) = Len(head) + Len(argument)
      /\ \A i \in 1 .. Len(head) + Len(argument) :
            front[i] = IF i <= Len(head) THEN head[i] ELSE argument[i - Len(head)]
    BY <1>2, <1>4, ConcatProperties, ZenonT(30)
<1> HIDE DEF front
<1>7. /\ c \in Seq(T) /\ Len(c) = Len(front) + Len(last)
      /\ \A i \in 1 .. Len(front) + Len(last) :
            c[i] = IF i <= Len(front) THEN front[i] ELSE last[i - Len(front)]
    BY <1>3, <1>6, ConcatProperties, ZenonT(30)
<1> HIDE DEF c
<1>8. Len(head) = 4 /\ Len(front) = n + 4 /\ Len(c) = n + 5 /\ Len(last) = 1
    BY <1>1, <1>2, <1>3, <1>6, <1>7
<1> HIDE DEF n
<1>9. /\ \A i \in 1 .. n + 4 : front[i] = IF i <= 4 THEN head[i] ELSE argument[i - 4]
      /\ \A i \in 1 .. n + 5 : c[i] = IF i <= n + 4 THEN front[i] ELSE last[i - (n + 4)]
    <2>1. 4 + Len(argument) = n + 4 /\ n + 4 + 1 = n + 5
        BY <1>1 DEF n
    <2> QED
        BY <1>6, <1>7, <1>8, <2>1
<1>10. \A i \in 1 .. 4 : c[i] = head[i]
    <2>1. \A i \in 1 .. 4 : i \in 1 .. n + 5 /\ i \in 1 .. n + 4 /\ i <= n + 4 /\ i <= 4
        BY <1>1
    <2> QED
        BY <1>9, <2>1
<1>11. ASSUME NEW i \in 1 .. n PROVE c[i + 4] = argument[i] /\ argument[i] # "ws"
    <2>1. i + 4 \in 1 .. n + 5 /\ i + 4 \in 1 .. n + 4 /\ i + 4 <= n + 4 /\ ~(i + 4 <= 4) /\ i + 4 - 4 = i
        BY <1>1
    <2> QED
        BY <1>1, <1>9, <2>1
<1>12. c[n + 5] = ")"
    <2> DEFINE m == n + 5
    <2>1. m \in 1 .. n + 5 /\ ~(m <= n + 4) /\ m - (n + 4) = 1
        BY <1>1
    <2> HIDE DEF m
    <2>2. c[m] = IF m <= n + 4 THEN front[m] ELSE last[m - (n + 4)]
        BY <1>9, <2>1
    <2>3. c[m] = ")"
        BY <1>3, <2>1, <2>2
    <2> QED
        BY <2>3 DEF m
<1>13. 1 \in 1 .. 4 /\ 2 \in 1 .. 4 /\ 3 \in 1 .. 4 /\ 4 \in 1 .. 4
    OBVIOUS
<1>14. c[1] = "select" /\ c[2] = "ws" /\ c[3] = "pgtest_release" /\ c[4] = "("
    BY <1>2, <1>10, <1>13
<1>15. IsCall(c, argument)
    BY <1>1, <1>8, <1>11, <1>12, <1>14 DEF IsCall, n
<1> QED
    BY <1>5, <1>7, <1>15 DEF T

\* Behind its verb such a call has no white space.
LEMMA CallHasNoSpaces ==
    ASSUME NEW c, NEW argument, IsCall(c, argument), NEW i \in 3 .. Len(c) + 1
    PROVE  Spaces(c, i) = i
<1> DEFINE n == Len(argument)
<1>1. n \in Nat /\ Len(c) = n + 5
    BY DEF IsCall
<1>2. ~At(c, i, "ws")
    <2> SUFFICES ASSUME i <= Len(c) PROVE c[i] # "ws"
        BY DEF At
    <2>1. CASE i = 3 \/ i = 4 \/ i = n + 5
        BY <2>1 DEF IsCall
    <2>2. CASE ~(i = 3 \/ i = 4 \/ i = n + 5)
        <3> DEFINE j == i - 4
        <3>1. j \in 1 .. n /\ j + 4 = i
            BY <1>1, <2>2
        <3> HIDE DEF j
        <3>2. c[j + 4] # "ws"
            BY <3>1 DEF IsCall
        <3> QED
            BY <3>1, <3>2
    <2> QED
        BY <2>1, <2>2
<1>3. Len(c) \in Nat /\ i \in 1 .. Len(c) + 1
    BY <1>1
<1> QED
    BY <1>2, <1>3, SpacesGoAhead

\* A call is complete exactly when its argument ends before its last symbol.
LEMMA CallEnds ==
    ASSUME NEW c, NEW argument, IsCall(c, argument), NEW i \in {NoMatch} \cup 5 .. Len(c) + 1
    PROVE  QueryEnds(c, Token(c, Spaces(c, i), ")")) <=> i = Len(c)
<1> DEFINE N == Len(c)
<1>1. N \in Nat /\ N >= 5 /\ c[N] = ")"
    BY DEF IsCall
<1>2. CASE i = NoMatch
    <2>1. Spaces(c, i) = NoMatch
        BY <1>1, <1>2, SpacesGoAhead
    <2>2. Token(c, NoMatch, ")") = NoMatch
        BY DEF Token, At
    <2>3. ~QueryEnds(c, NoMatch)
        BY DEF QueryEnds
    <2>4. i # Len(c)
        BY <1>1, <1>2 DEF NoMatch
    <2> QED
        BY <2>1, <2>2, <2>3, <2>4
<1>3. CASE i # NoMatch
    <2>0. i \in 5 .. N + 1 /\ i \in 3 .. N + 1
        BY <1>1, <1>3
    <2>1. Spaces(c, i) = i
        BY <2>0, CallHasNoSpaces
    <2>2. CASE ~(i <= N /\ c[i] = ")")
        <3>1. Token(c, i, ")") = NoMatch /\ i # N
            BY <1>1, <2>0, <2>2 DEF Token, At
        <3> QED
            BY <2>1, <3>1 DEF QueryEnds
    <2>3. CASE i <= N /\ c[i] = ")"
        <3>1. Token(c, i, ")") = i + 1 /\ i + 1 \in 3 .. N + 1 /\ i + 1 # NoMatch
            BY <1>1, <2>0, <2>3 DEF Token, At, NoMatch
        <3>2. Spaces(c, i + 1) = i + 1
            BY <3>1, CallHasNoSpaces
        <3>3. CASE At(c, i + 1, ";")
            <4>0. i + 1 <= N /\ c[i + 1] = ";"
                BY <3>3 DEF At
            <4>1. i + 1 <= N /\ i + 1 # N /\ i + 2 \in 3 .. N + 1 /\ (i + 1) + 1 = i + 2
                <5>1. i + 1 # N
                    BY <1>1, <4>0
                <5>2. N \in Nat /\ i \in 5 .. N + 1 /\ i + 1 <= N
                    BY <1>1, <2>0, <4>0
                <5> HIDE DEF N
                <5> QED
                    BY <5>1, <5>2
            <4>2. Spaces(c, i + 2) = i + 2
                BY <4>1, CallHasNoSpaces
            <4>3. ~(i + 2 > N) /\ i # N
                BY <1>1, <2>0, <4>1
            <4> QED
                BY <2>1, <3>1, <3>2, <3>3, <4>1, <4>2, <4>3 DEF QueryEnds
        <3>4. CASE ~At(c, i + 1, ";")
            <4>1. QueryEnds(c, i + 1) <=> i + 1 > N
                BY <3>1, <3>2, <3>4 DEF QueryEnds
            <4> QED
                BY <1>1, <2>0, <2>1, <2>3, <3>1, <4>1
        <3> QED
            BY <3>3, <3>4
    <2> QED
        BY <2>2, <2>3
<1> QED
    BY <1>2, <1>3

\* Such a call releases a literal exactly when its argument is one as a whole.
LEMMA CallIsRead ==
    ASSUME NEW c, NEW argument, IsCall(c, argument)
    PROVE  /\ TextLiteral(c, 5) = Len(c) =>
                ControlStatement(c) = ReleaseLiteral(Unquote(SubSeq(c, 6, Len(c) - 2)))
           /\ TextLiteral(c, 5) # Len(c) => ControlStatement(c) \in {ReleaseParameter, Unsupported}
<1>1. Len(c) \in Nat /\ Len(c) >= 5
    BY DEF IsCall
<1>2. Spaces(c, 1) = 1 /\ Token(c, 1, "select") = 2
    <2>1. ~At(c, 1, "ws") /\ At(c, 1, "select") /\ 1 \in 1 .. Len(c) + 1
        BY <1>1 DEF IsCall, At, NoMatch
    <2> QED
        BY <1>1, <2>1, SpacesGoAhead DEF Token
<1>3. SomeSpaces(c, 2) = 3
    <2>1. At(c, 2, "ws") /\ 2 \in 1 .. Len(c) /\ c[2] = "ws" /\ 3 \in 3 .. Len(c) + 1
        BY <1>1 DEF IsCall, At, NoMatch
    <2>2. Spaces(c, 3) = 3
        BY <2>1, CallHasNoSpaces
    <2>3. Spaces(c, 2) = Spaces(c, 2 + 1)
        BY <1>1, <2>1, SpacesGoAhead
    <2> QED
        BY <2>1, <2>2, <2>3 DEF SomeSpaces
<1>4. Token(c, 3, "1") = NoMatch /\ ~QueryEnds(c, NoMatch)
    BY DEF IsCall, Token, At, QueryEnds
<1>5. Token(c, 3, "pgtest_release") = 4 /\ Token(c, 4, "(") = 5
    BY <1>1 DEF IsCall, Token, At, NoMatch
<1>6. Spaces(c, 4) = 4 /\ Spaces(c, 5) = 5
    <2>1. 4 \in 3 .. Len(c) + 1 /\ 5 \in 3 .. Len(c) + 1
        BY <1>1
    <2> QED
        BY <2>1, CallHasNoSpaces
<1> DEFINE literal == TextLiteral(c, 5)
           parameter == Parameter(c, 5)
           finishes(i) == QueryEnds(c, Token(c, Spaces(c, i), ")"))
<1>7. ControlStatement(c) = CASE QueryEnds(c, NoMatch) -> Ping
                              [] finishes(literal) -> ReleaseLiteral(Unquote(SubSeq(c, 5 + 1, literal - 2)))
                              [] finishes(parameter) -> ReleaseParameter
                              [] OTHER -> Unsupported
    BY <1>2, <1>3, <1>4, <1>5, <1>6 DEF ControlStatement
<1>8. literal \in {NoMatch} \cup 5 .. Len(c) + 1 /\ (literal # NoMatch => c[5] = "'")
    <2>1. 5 \in 0 .. Len(c) + 1
        BY <1>1
    <2>2. literal # NoMatch => c[5] = "'" /\ literal \in 5 + 2 .. Len(c) + 1
        BY <1>1, <2>1, LiteralGoesAhead
    <2> QED
        BY <1>1, <2>2
<1>9. finishes(literal) <=> literal = Len(c)
    BY <1>8, CallEnds
<1>10. literal = Len(c) => ~finishes(parameter)
    <2> SUFFICES ASSUME literal = Len(c) PROVE ~finishes(parameter)
        OBVIOUS
    <2>1. literal # NoMatch
        BY <1>1 DEF NoMatch
    <2>2. parameter = NoMatch
        BY <1>8, <2>1 DEF Parameter, At
    <2>3. finishes(NoMatch) <=> NoMatch = Len(c)
        BY CallEnds
    <2> QED
        BY <1>1, <2>2, <2>3 DEF NoMatch
<1> HIDE DEF literal, parameter, finishes
<1> QED
    BY <1>4, <1>7, <1>9, <1>10 DEF literal

\* A value between quotes.
LEMMA EnclosedSymbols ==
    ASSUME NEW S, "'" \in S, NEW body \in Seq(S)
    PROVE  LET literal == <<"'">> \o body \o <<"'">>
           IN  /\ literal \in Seq(S) /\ Len(literal) = Len(body) + 2
               /\ literal[1] = "'" /\ literal[Len(body) + 2] = "'"
               /\ \A i \in 1 .. Len(body) : literal[i + 1] = body[i]
<1> DEFINE q == <<"'">>
           m == Len(body)
           front == q \o body
           literal == front \o q
<1>1. m \in Nat /\ q \in Seq(S) /\ Len(q) = 1 /\ q[1] = "'"
    BY LenProperties
<1>2. front \in Seq(S) /\ Len(front) = m + 1 /\ front[1] = "'" /\ \A i \in 1 .. m : front[i + 1] = body[i]
    BY ConsProperties
<1> HIDE DEF q, front
<1>3. /\ literal \in Seq(S) /\ Len(literal) = Len(front) + Len(q)
      /\ \A i \in 1 .. Len(front) + Len(q) : literal[i] = IF i <= Len(front) THEN front[i] ELSE q[i - Len(front)]
    BY <1>1, <1>2, ConcatProperties, ZenonT(30)
<1> HIDE DEF literal, m
<1>4. Len(literal) = m + 2 /\ Len(front) + Len(q) = m + 2 /\ Len(front) = m + 1
    BY <1>1, <1>2, <1>3
<1>5. \A i \in 1 .. m + 2 : literal[i] = IF i <= m + 1 THEN front[i] ELSE q[i - (m + 1)]
    BY <1>3, <1>4
<1>6. literal[1] = "'"
    <2>1. 1 \in 1 .. m + 2 /\ 1 <= m + 1
        BY <1>1
    <2> QED
        BY <1>2, <1>5, <2>1
<1>7. literal[m + 2] = "'"
    <2> DEFINE k == m + 2
    <2>1. k \in 1 .. m + 2 /\ ~(k <= m + 1) /\ k - (m + 1) = 1
        BY <1>1
    <2> HIDE DEF k
    <2>2. literal[k] = q[k - (m + 1)]
        BY <1>5, <2>1
    <2> QED
        BY <1>1, <2>1, <2>2 DEF k
<1>8. ASSUME NEW i \in 1 .. m PROVE literal[i + 1] = body[i]
    <2>1. i + 1 \in 1 .. m + 2 /\ i + 1 <= m + 1
        BY <1>1
    <2> QED
        BY <1>2, <1>5, <2>1
<1> QED
    BY <1>3, <1>4, <1>6, <1>7, <1>8 DEF literal, front, q, m

\* A doubled quote is two of them.
LEMMA EncodedSplits ==
    ASSUME NEW S, "'" \in S, NEW u \in Seq(S), NEW symbol
    PROVE  /\ symbol = "'" => Encoded(symbol) \o u = <<"'">> \o (<<"'">> \o u)
           /\ symbol # "'" => Encoded(symbol) \o u = <<symbol>> \o u
<1> SUFFICES ASSUME symbol = "'" PROVE <<"'", "'">> \o u = <<"'">> \o (<<"'">> \o u)
    BY DEF Encoded
<1> DEFINE q == <<"'">>
<1>1. q \in Seq(S) /\ <<"'", "'">> = q \o q
    OBVIOUS
<1> HIDE DEF q
<1>2. (q \o q) \o u = q \o (q \o u)
    BY <1>1, ConcatAssociative
<1> QED
    BY <1>1, <1>2 DEF q

\* The text between the quotes of a literal that is the whole argument.
LEMMA BodyOfLiteral ==
    ASSUME NEW S, NEW c \in Seq(S \cup {"select", "ws", "pgtest_release", "(", ")"}), NEW body \in Seq(S),
           Len(c) = Len(body) + 7, \A i \in 1 .. Len(body) : c[i + 5] = body[i]
    PROVE  SubSeq(c, 6, Len(c) - 2) = body
<1> DEFINE T == S \cup {"select", "ws", "pgtest_release", "(", ")"}
           d == Len(body)
           x == SubSeq(c, 6, d + 5)
<1>1. d \in Nat
    BY LenProperties
<1>2. Len(c) - 2 = d + 5 /\ \A i \in 6 .. d + 5 : i \in 1 .. Len(c)
    BY <1>1
<1>3. \A i \in 6 .. d + 5 : c[i] \in T
    BY <1>2, ElementOfSeq
<1>4. c \in Seq(T) /\ body \in Seq(T)
    <2>1. S \subseteq T /\ c \in Seq(T)
        OBVIOUS
    <2> HIDE DEF T
    <2> QED
        BY <2>1, SeqWidens
<1> HIDE DEF T
<1>5. /\ x \in Seq(T) /\ Len(x) = IF 6 <= d + 5 THEN d + 5 - 6 + 1 ELSE 0
      /\ \A i \in 1 .. d + 5 - 6 + 1 : x[i] = c[6 + i - 1]
    BY <1>1, <1>3, <1>4, SubSeqProperties
<1> HIDE DEF x
<1>6. Len(x) = d
    BY <1>1, <1>5
<1>7. ASSUME NEW i \in 1 .. d PROVE x[i] = body[i]
    <2>1. i \in 1 .. d + 5 - 6 + 1 /\ 6 + i - 1 = i + 5
        BY <1>1
    <2> QED
        BY <1>5, <2>1
<1> QED
    BY <1>2, <1>4, <1>5, <1>6, <1>7, SeqEqual DEF x

\* A quoted value is read as a literal up to its closing quote, and stands for
\* the value.
LEMMA QuotedIsRead ==
    ASSUME NEW S, "'" \in S, "ws" \notin S, NEW value \in Seq(S)
    PROVE  ControlStatement(Call(Quoted(value))) = ReleaseLiteral(value)
<1> DEFINE n == Len(value)
<1>1. PICK doubled \in [1 .. n + 1 -> Seq(S)] :
            /\ doubled[n + 1] = <<>>
            /\ \A j \in 1 .. n : doubled[j] = Encoded(value[j]) \o doubled[j + 1]
            /\ Quoted(value) = <<"'">> \o doubled[1] \o <<"'">>
    BY QuotedDefined
<1>2. n \in Nat /\ 1 \in 1 .. n + 1 /\ \A j \in 1 .. n : value[j] \in S
    BY LenProperties, ElementOfSeq
<1> HIDE DEF n
<1> DEFINE body == doubled[1]
           d == Len(body)
           argument == Quoted(value)
           c == Call(argument)
<1>3. body \in Seq(S) /\ d \in Nat
    BY <1>1, <1>2, LenProperties
<1>4. /\ argument \in Seq(S) /\ Len(argument) = d + 2
      /\ argument[1] = "'" /\ argument[d + 2] = "'"
      /\ \A i \in 1 .. d : argument[i + 1] = body[i]
    <2> HIDE DEF body
    <2>1. argument = <<"'">> \o body \o <<"'">>
        BY <1>1 DEF body
    <2> HIDE DEF argument
    <2> QED
        BY <1>3, <2>1, EnclosedSymbols
<1> HIDE DEF body, argument
<1>5. IsCall(c, argument) /\ c \in Seq(S \cup {"select", "ws", "pgtest_release", "(", ")"})
    BY <1>4, CallIsCall
<1> HIDE DEF c, d
<1>6. /\ Len(c) = d + 7 /\ c[5] = "'" /\ c[d + 6] = "'" /\ c[d + 7] = ")"
      /\ \A i \in 1 .. d : c[i + 5] = body[i]
    <2>1. Len(c) = d + 7 /\ c[d + 7] = ")"
        BY <1>3, <1>4, <1>5 DEF IsCall
    <2>2. \A i \in 1 .. d + 2 : c[i + 4] = argument[i]
        BY <1>4, <1>5 DEF IsCall
    <2>3. 1 \in 1 .. d + 2 /\ d + 2 \in 1 .. d + 2 /\ (d + 2) + 4 = d + 6 /\ 1 + 4 = 5
        BY <1>3
    <2>4. c[5] = "'" /\ c[d + 6] = "'"
        BY <1>4, <2>2, <2>3
    <2>5. ASSUME NEW i \in 1 .. d PROVE c[i + 5] = body[i]
        <3>1. i + 1 \in 1 .. d + 2 /\ (i + 1) + 4 = i + 5
            BY <1>3
        <3> QED
            BY <1>4, <2>2, <3>1
    <2> QED
        BY <2>1, <2>4, <2>5
<1>7. PICK close :
        /\ \A j \in 1 .. Len(c) + 1 :
                close[j] = IF j > Len(c) THEN NoMatch
                           ELSE IF c[j] # "'" THEN close[j + 1]
                           ELSE IF At(c, j + 1, "'") THEN close[j + 2]
                           ELSE j + 1
        /\ \A i : TextLiteral(c, i) = IF At(c, i, "'") THEN close[i + 1] ELSE NoMatch
    <2>1. Len(c) \in Nat
        BY <1>3, <1>6
    <2> QED
        BY <2>1, LiteralDefined
<1>8. PICK from :
        /\ \A j \in 1 .. d + 1 :
                from[j] = IF j > d THEN <<>>
                          ELSE <<body[j]>> \o
                               from[IF At(body, j, "'") /\ At(body, j + 1, "'") THEN j + 2 ELSE j + 1]
        /\ Unquote(body) = from[1]
    BY <1>3, UnquoteDefined DEF d
<1> DEFINE Good == {k \in 1 .. n + 1 : \A j \in 1 .. d + 1 :
                        Suffix(body, j) = doubled[k] => close[j + 5] = d + 7 /\ from[j] = Suffix(value, k)}
<1>9. ASSUME NEW k \in 1 .. n + 1, \A x \in k + 1 .. n + 1 : x \in Good PROVE k \in Good
    <2> SUFFICES ASSUME NEW j \in 1 .. d + 1, Suffix(body, j) = doubled[k]
                 PROVE  close[j + 5] = d + 7 /\ from[j] = Suffix(value, k)
        OBVIOUS
    <2>1. CASE k = n + 1
        <3>1. j = d + 1
            BY <1>1, <1>3, <2>1, SuffixEnds DEF d
        <3>2. from[j] = <<>>
            <4>1. j > d
                BY <1>3, <3>1
            <4> QED
                BY <1>8, <4>1
        <3>3. Suffix(value, k) = <<>>
            BY <1>2, <2>1, SuffixEnds DEF n
        <3>4. close[j + 5] = d + 7
            <4>1. d + 6 \in 1 .. Len(c) + 1 /\ ~(d + 6 > Len(c)) /\ (d + 6) + 1 = d + 7 /\ j + 5 = d + 6
                BY <1>3, <1>6, <3>1
            <4>2. ~At(c, d + 7, "'")
                BY <1>6 DEF At
            <4> QED
                BY <1>6, <1>7, <4>1, <4>2
        <3> QED
            BY <3>2, <3>3, <3>4
    <2>2. CASE k # n + 1
        <3> DEFINE u == doubled[k + 1]
                   a == value[k]
        <3>1. k \in 1 .. n /\ k + 1 \in 1 .. n + 1 /\ k + 1 \in k + 1 .. n + 1
            BY <1>2, <2>2
        <3>2. a \in S /\ u \in Seq(S) /\ Suffix(body, j) = Encoded(a) \o u
            BY <1>1, <1>2, <3>1
        <3>3. \A x \in 1 .. d + 1 : Suffix(body, x) = u => close[x + 5] = d + 7 /\ from[x] = Suffix(value, k + 1)
            BY <1>9, <3>1
        <3>4. Suffix(value, k) = <<a>> \o Suffix(value, k + 1)
            BY <3>1, SuffixSplits DEF n
        <3> HIDE DEF u, a, Good
        <3>5. CASE a # "'"
            <4>1. Suffix(body, j) = <<a>> \o u
                BY <3>2, <3>5, EncodedSplits
            <4>2. j \in 1 .. d /\ body[j] = a /\ Suffix(body, j + 1) = u
                <5>1. body \in Seq(S) /\ j \in 1 .. Len(body) + 1 /\ a \in S /\ u \in Seq(S)
                    BY <1>3, <3>2 DEF d
                <5>3. SplitsAs(S, body, j, a, u)
                    BY <4>1, <5>1 DEF SplitsAs
                <5>2. j \in 1 .. Len(body) /\ body[j] = a /\ Suffix(body, j + 1) = u
                    BY <5>3, SuffixSplitsOnce
                <5> QED
                    BY <5>2 DEF d
            <4>3. j + 1 \in 1 .. d + 1 /\ (j + 1) + 5 = j + 6 /\ ~(j > d)
                BY <1>3, <4>2
            <4>4. close[j + 6] = d + 7 /\ from[j + 1] = Suffix(value, k + 1)
                BY <3>3, <4>2, <4>3
            <4>5. close[j + 5] = close[j + 6]
                <5>1. j + 5 \in 1 .. Len(c) + 1 /\ ~(j + 5 > Len(c)) /\ (j + 5) + 1 = j + 6
                    BY <1>3, <1>6, <4>2
                <5>2. c[j + 5] # "'"
                    BY <1>6, <3>5, <4>2
                <5> QED
                    BY <1>7, <5>1, <5>2
            <4>6. from[j] = <<a>> \o from[j + 1]
                <5>1. ~At(body, j, "'")
                    BY <3>5, <4>2 DEF At
                <5> QED
                    BY <1>8, <4>2, <4>3, <5>1
            <4> QED
                BY <3>4, <4>4, <4>5, <4>6
        <3>6. CASE a = "'"
            <4> DEFINE w == <<"'">> \o u
            <4>1. Suffix(body, j) = <<"'">> \o w
                BY <3>2, <3>6, EncodedSplits
            <4>2. w \in Seq(S)
                BY <3>2, ConsProperties
            <4>3. j \in 1 .. d /\ body[j] = "'" /\ Suffix(body, j + 1) = w
                <5> HIDE DEF w
                <5>1. body \in Seq(S) /\ j \in 1 .. Len(body) + 1
                    BY <1>3 DEF d
                <5>3. SplitsAs(S, body, j, "'", w)
                    BY <4>1, <4>2, <5>1 DEF SplitsAs
                <5>2. j \in 1 .. Len(body) /\ body[j] = "'" /\ Suffix(body, j + 1) = w
                    BY <5>3, SuffixSplitsOnce
                <5> QED
                    BY <5>2 DEF d
            <4>4. j + 1 \in 1 .. d + 1
                BY <1>3, <4>3
            <4>5. j + 1 \in 1 .. d /\ body[j + 1] = "'" /\ Suffix(body, (j + 1) + 1) = u
                <5>1. body \in Seq(S) /\ j + 1 \in 1 .. Len(body) + 1 /\ u \in Seq(S)
                    BY <1>3, <3>2, <4>4 DEF d
                <5>3. SplitsAs(S, body, j + 1, "'", u)
                    BY <4>3, <5>1 DEF SplitsAs, w
                <5>2. j + 1 \in 1 .. Len(body) /\ body[j + 1] = "'" /\ Suffix(body, (j + 1) + 1) = u
                    BY <5>3, SuffixSplitsOnce
                <5> QED
                    BY <5>2 DEF d
            <4> HIDE DEF w
            <4>6. j + 2 \in 1 .. d + 1 /\ (j + 2) + 5 = j + 7 /\ ~(j > d) /\ (j + 1) + 1 = j + 2 /\ (j + 1) + 5 = j + 6
                BY <1>3, <4>5
            <4>7. close[j + 7] = d + 7 /\ from[j + 2] = Suffix(value, k + 1)
                BY <3>3, <4>5, <4>6
            <4>8. close[j + 5] = close[j + 7]
                <5>1. /\ j + 5 \in 1 .. Len(c) + 1 /\ ~(j + 5 > Len(c)) /\ (j + 5) + 1 = j + 6
                      /\ (j + 5) + 2 = j + 7 /\ j + 6 <= Len(c) /\ j + 6 # 0
                    BY <1>3, <1>6, <4>3, <4>5
                <5>2. c[j + 5] = "'" /\ c[j + 6] = "'"
                    BY <1>6, <4>3, <4>5, <4>6
                <5>3. At(c, j + 6, "'")
                    BY <5>1, <5>2 DEF At, NoMatch
                <5> QED
                    BY <1>7, <5>1, <5>2, <5>3
            <4>9. from[j] = <<a>> \o from[j + 2]
                <5>1. At(body, j, "'") /\ At(body, j + 1, "'")
                    BY <1>3, <4>3, <4>5 DEF At, d, NoMatch
                <5> QED
                    BY <1>8, <3>6, <4>3, <4>6, <5>1
            <4> QED
                BY <3>4, <4>7, <4>8, <4>9
        <3> QED
            BY <3>5, <3>6
    <2> QED
        BY <2>1, <2>2
<1>10. close[6] = d + 7 /\ from[1] = value
    <2> HIDE DEF Good
    <2>1. \A k \in 1 .. n + 1 : k \in Good
        <3>1. n + 1 \in Nat
            BY <1>2
        <3> QED
            BY <1>9, <3>1, BackwardInduction
    <2>2. 1 \in Good
        BY <1>2, <2>1
    <2>3. 1 \in 1 .. d + 1 /\ Suffix(body, 1) = doubled[1] /\ 1 + 5 = 6
        BY <1>3, SuffixEnds DEF body
    <2>4. Suffix(value, 1) = value
        BY SuffixEnds
    <2> QED
        BY <2>2, <2>3, <2>4 DEF Good
<1>11. TextLiteral(c, 5) = Len(c)
    <2>1. At(c, 5, "'")
        BY <1>3, <1>6 DEF At, NoMatch
    <2> QED
        BY <1>6, <1>7, <1>10, <2>1
<1>12. SubSeq(c, 6, Len(c) - 2) = body
    BY <1>3, <1>5, <1>6, BodyOfLiteral DEF d
<1> QED
    BY <1>5, <1>8, <1>10, <1>11, <1>12, CallIsRead DEF c, argument

\* Text that is read as a literal is the quotation of the value it stands for: its
\* quotes are the first, the last and pairs between them.
LEMMA LiteralIsQuoted ==
    ASSUME NEW S, "'" \in S, "ws" \notin S, NEW text \in Seq(S),
           ControlStatement(Call(text)).kind = "Literal"
    PROVE  text = Quoted(ControlStatement(Call(text)).literal)
<1> DEFINE n == Len(text)
           c == Call(text)
<1>1. IsCall(c, text) /\ c \in Seq(S \cup {"select", "ws", "pgtest_release", "(", ")"})
    BY CallIsCall
<1> HIDE DEF c
<1>2. /\ n \in Nat /\ Len(c) = n + 5 /\ c[n + 5] = ")"
      /\ \A i \in 1 .. n : c[i + 4] = text[i] /\ text[i] \in S
    BY <1>1, ElementOfSeq DEF IsCall
<1>3. TextLiteral(c, 5) = Len(c) /\ ControlStatement(c) = ReleaseLiteral(Unquote(SubSeq(c, 6, Len(c) - 2)))
    <2>1. ReleaseParameter.kind # "Literal" /\ Unsupported.kind # "Literal"
        BY DEF ReleaseParameter, Unsupported
    <2>2. ControlStatement(c).kind = "Literal"
        BY DEF c
    <2> QED
        BY <1>1, <2>1, <2>2, CallIsRead
<1>4. c[5] = "'" /\ n >= 2
    <2>1. Len(c) \in Nat /\ 5 \in 0 .. Len(c) + 1 /\ Len(c) # 0
        BY <1>2
    <2>2. TextLiteral(c, 5) # NoMatch
        BY <1>3, <2>1 DEF NoMatch
    <2>3. c[5] = "'" /\ TextLiteral(c, 5) \in 5 + 2 .. Len(c) + 1
        BY <2>1, <2>2, LiteralGoesAhead
    <2>4. n + 5 \in 5 + 2 .. Len(c) + 1
        BY <1>2, <1>3, <2>3
    <2> QED
        BY <1>2, <2>3, <2>4
<1> DEFINE m == n - 2
           body == SubSeq(text, 2, n - 1)
<1>5. m \in Nat /\ n = m + 2 /\ Len(c) = m + 7
    BY <1>2, <1>4
<1>6. body \in Seq(S) /\ Len(body) = m /\ \A i \in 1 .. m : body[i] = text[i + 1]
    <2>1. 2 \in 1 .. n + 1 /\ n - 1 \in 1 - 1 .. n /\ \A i \in 2 .. n - 1 : i \in 1 .. n
        BY <1>2, <1>4
    <2>2. \A i \in 2 .. n - 1 : text[i] \in S
        BY <1>2, <2>1
    <2>3. /\ body \in Seq(S) /\ Len(body) = IF 2 <= n - 1 THEN n - 1 - 2 + 1 ELSE 0
          /\ \A i \in 1 .. n - 1 - 2 + 1 : body[i] = text[2 + i - 1]
        BY <1>2, <2>1, <2>2, SubSeqProperties
    <2> HIDE DEF body
    <2>4. Len(body) = m
        <3>1. n \in Nat /\ n >= 2 /\ m = n - 2
            BY <1>2, <1>4
        <3> HIDE DEF n, m
        <3>2. CASE n = 2
            BY <2>3, <3>1, <3>2
        <3>3. CASE n # 2
            BY <2>3, <3>1, <3>3
        <3> QED
            BY <3>2, <3>3
    <2>5. ASSUME NEW i \in 1 .. m PROVE body[i] = text[i + 1]
        <3>1. i \in 1 .. n - 1 - 2 + 1 /\ 2 + i - 1 = i + 1
            BY <1>2, <1>4
        <3> QED
            BY <2>3, <3>1
    <2> QED
        BY <2>3, <2>4, <2>5
<1> HIDE DEF body
<1>7. \A i \in 1 .. m : c[i + 5] = body[i] /\ body[i] \in S
    <2> SUFFICES ASSUME NEW i \in 1 .. m PROVE c[i + 5] = body[i] /\ body[i] \in S
        OBVIOUS
    <2>1. i + 1 \in 1 .. n /\ (i + 1) + 4 = i + 5
        BY <1>5
    <2> QED
        BY <1>2, <1>6, <2>1
<1>8. SubSeq(c, 6, Len(c) - 2) = body
    BY <1>1, <1>5, <1>6, <1>7, BodyOfLiteral
<1> DEFINE value == Unquote(body)
           z == Len(value)
<1>9. value \in Seq(S) /\ z \in Nat
    BY <1>6, UnquoteIsText, LenProperties
<1>10. ControlStatement(Call(text)).literal = value
    <2>1. ReleaseLiteral(value).literal = value
        BY DEF ReleaseLiteral
    <2> HIDE DEF value
    <2>2. ControlStatement(c) = ReleaseLiteral(value)
        BY <1>3, <1>8 DEF value
    <2> QED
        BY <2>1, <2>2 DEF c
<1>11. PICK close :
        /\ \A j \in 1 .. Len(c) + 1 :
                close[j] = IF j > Len(c) THEN NoMatch
                           ELSE IF c[j] # "'" THEN close[j + 1]
                           ELSE IF At(c, j + 1, "'") THEN close[j + 2]
                           ELSE j + 1
        /\ \A i : TextLiteral(c, i) = IF At(c, i, "'") THEN close[i + 1] ELSE NoMatch
    <2>1. Len(c) \in Nat
        BY <1>5
    <2> QED
        BY <2>1, LiteralDefined
<1>12. PICK from :
        /\ \A j \in 1 .. m + 1 :
                from[j] = IF j > m THEN <<>>
                          ELSE <<body[j]>> \o
                               from[IF At(body, j, "'") /\ At(body, j + 1, "'") THEN j + 2 ELSE j + 1]
        /\ value = from[1]
    BY <1>6, UnquoteDefined
<1> HIDE DEF value, m
<1>13. PICK doubled \in [1 .. z + 1 -> Seq(S)] :
            /\ doubled[z + 1] = <<>>
            /\ \A j \in 1 .. z : doubled[j] = Encoded(value[j]) \o doubled[j + 1]
            /\ Quoted(value) = <<"'">> \o doubled[1] \o <<"'">>
    BY <1>9, QuotedDefined
<1> HIDE DEF z
<1>14. close[m + 7] = NoMatch
    <2>1. m + 7 \in 1 .. Len(c) + 1 /\ ~(m + 7 > Len(c)) /\ (m + 7) + 1 \in 1 .. Len(c) + 1 /\ (m + 7) + 1 > Len(c)
        BY <1>5
    <2>2. c[m + 7] # "'"
        <3>1. n + 5 = m + 7
            BY <1>5
        <3> QED
            BY <1>2, <3>1
    <2> QED
        BY <1>11, <2>1, <2>2
<1>15. m + 7 # NoMatch /\ m + 7 = Len(c)
    BY <1>5 DEF NoMatch
<1> DEFINE Rest(j) == /\ c[m + 6] = "'" /\ from[j] \in Seq(S)
                      /\ \A k \in 1 .. z + 1 : from[j] = Suffix(value, k) => doubled[k] = Suffix(body, j)
           Good == {j \in 1 .. m + 1 : close[j + 5] = m + 7 => Rest(j)}
<1>16. ASSUME NEW j \in 1 .. m + 1, \A x \in j + 1 .. m + 1 : x \in Good PROVE j \in Good
    <2> SUFFICES ASSUME close[j + 5] = m + 7 PROVE Rest(j)
        OBVIOUS
    <2>0. /\ j + 5 \in 1 .. Len(c) + 1 /\ ~(j + 5 > Len(c))
          /\ (j + 5) + 1 = j + 6 /\ (j + 5) + 2 = j + 7
        BY <1>5
    <2>1. CASE j = m + 1
        <3>1. c[m + 6] = "'"
            <4>1. j + 5 = m + 6 /\ j + 6 = m + 7
                BY <1>5, <2>1
            <4>2. c[j + 5] # "'" => close[j + 5] = close[j + 6]
                BY <1>11, <2>0
            <4> QED
                BY <1>14, <1>15, <4>1, <4>2
        <3>2. from[j] = <<>>
            <4>1. j > m
                BY <1>5, <2>1
            <4> QED
                BY <1>12, <4>1
        <3>3. Suffix(body, j) = <<>>
            BY <1>6, <2>1, SuffixEnds
        <3>4. \A k \in 1 .. z + 1 : from[j] = Suffix(value, k) => k = z + 1
            BY <1>9, <3>2, SuffixEnds DEF z
        <3>5. from[j] \in Seq(S)
            BY <3>2
        <3> QED
            BY <1>13, <3>1, <3>3, <3>4, <3>5
    <2>2. CASE j # m + 1
        <3>1. j \in 1 .. m /\ ~(j > m) /\ j + 1 \in 1 .. m + 1 /\ j + 1 \in j + 1 .. m + 1 /\ (j + 1) + 5 = j + 6
            BY <1>5, <2>2
        <3>2. c[j + 5] = body[j] /\ body[j] \in S /\ Suffix(body, j) = <<body[j]>> \o Suffix(body, j + 1)
            BY <1>6, <1>7, <3>1, SuffixSplits
        <3>3. CASE body[j] # "'"
            <4>1. close[j + 6] = m + 7
                BY <1>11, <2>0, <3>2, <3>3
            <4>2. Rest(j + 1)
                BY <1>16, <3>1, <4>1
            <4>3. from[j] = <<body[j]>> \o from[j + 1]
                <5>1. ~At(body, j, "'")
                    BY <3>3 DEF At
                <5> QED
                    BY <1>12, <3>1, <5>1
            <4>4. from[j] \in Seq(S)
                BY <3>2, <4>2, <4>3, ConsProperties
            <4>5. ASSUME NEW k \in 1 .. z + 1, from[j] = Suffix(value, k) PROVE doubled[k] = Suffix(body, j)
                <5> DEFINE a == body[j]
                           u == from[j + 1]
                <5>1. a \in S /\ u \in Seq(S) /\ Suffix(value, k) = <<a>> \o u
                    BY <3>2, <4>2, <4>3, <4>5
                <5> HIDE DEF a, u
                <5>2. SplitsAs(S, value, k, a, u)
                    BY <1>9, <5>1 DEF SplitsAs, z
                <5>3. k \in 1 .. z /\ value[k] = a /\ Suffix(value, k + 1) = u
                    BY <5>2, SuffixSplitsOnce DEF z
                <5>4. k + 1 \in 1 .. z + 1
                    BY <1>9, <5>3
                <5>5. doubled[k + 1] = Suffix(body, j + 1) /\ doubled[k + 1] \in Seq(S)
                    BY <1>13, <4>2, <5>3, <5>4 DEF u
                <5>6. doubled[k] = Encoded(a) \o doubled[k + 1]
                    BY <1>13, <5>3
                <5>7. Encoded(a) \o doubled[k + 1] = <<a>> \o doubled[k + 1]
                    BY <3>3, <5>5, EncodedSplits DEF a
                <5> QED
                    BY <3>2, <5>5, <5>6, <5>7 DEF a
            <4> QED
                BY <4>2, <4>4, <4>5
        <3>4. CASE body[j] = "'"
            <4>1. At(c, j + 6, "'")
                <5> SUFFICES ASSUME ~At(c, j + 6, "'") PROVE FALSE
                    OBVIOUS
                <5>1. close[j + 5] = j + 6
                    BY <1>11, <2>0, <3>2, <3>4
                <5>2. j + 6 # m + 7
                    BY <1>5, <3>1
                <5> QED
                    BY <5>1, <5>2
            <4>2. close[j + 7] = m + 7
                BY <1>11, <2>0, <3>2, <3>4, <4>1
            <4>3. j # m
                BY <1>14, <1>15, <4>2
            <4>4. /\ j + 1 \in 1 .. m /\ j + 2 \in 1 .. m + 1 /\ j + 2 \in j + 1 .. m + 1
                  /\ (j + 2) + 5 = j + 7 /\ (j + 1) + 1 = j + 2
                BY <1>5, <3>1, <4>3
            <4>5. body[j + 1] = "'"
                BY <1>7, <3>1, <4>1, <4>4 DEF At
            <4>6. Suffix(body, j + 1) = <<"'">> \o Suffix(body, j + 2)
                BY <1>6, <4>4, <4>5, SuffixSplits
            <4>7. Rest(j + 2)
                BY <1>16, <4>2, <4>4
            <4>8. from[j] = <<"'">> \o from[j + 2]
                <5>1. At(body, j, "'") /\ At(body, j + 1, "'")
                    BY <1>5, <1>6, <3>1, <3>4, <4>4, <4>5 DEF At, NoMatch
                <5> QED
                    BY <1>12, <3>1, <3>4, <5>1
            <4>9. from[j] \in Seq(S)
                BY <4>7, <4>8, ConsProperties
            <4>10. ASSUME NEW k \in 1 .. z + 1, from[j] = Suffix(value, k) PROVE doubled[k] = Suffix(body, j)
                <5> DEFINE u == from[j + 2]
                <5>1. u \in Seq(S) /\ Suffix(value, k) = <<"'">> \o u
                    BY <4>7, <4>8, <4>10
                <5> HIDE DEF u
                <5>2. SplitsAs(S, value, k, "'", u)
                    BY <1>9, <5>1 DEF SplitsAs, z
                <5>3. k \in 1 .. z /\ value[k] = "'" /\ Suffix(value, k + 1) = u
                    BY <5>2, SuffixSplitsOnce DEF z
                <5>4. k + 1 \in 1 .. z + 1
                    BY <1>9, <5>3
                <5>5. doubled[k + 1] = Suffix(body, j + 2) /\ doubled[k + 1] \in Seq(S)
                    BY <1>13, <4>7, <5>3, <5>4 DEF u
                <5>6. doubled[k] = Encoded("'") \o doubled[k + 1]
                    BY <1>13, <5>3
                <5>7. Encoded("'") \o doubled[k + 1] = <<"'">> \o (<<"'">> \o doubled[k + 1])
                    BY <5>5, EncodedSplits
                <5> QED
                    BY <3>2, <3>4, <4>6, <5>5, <5>6, <5>7
            <4> QED
                BY <4>7, <4>9, <4>10
        <3> QED
            BY <3>3, <3>4
    <2> QED
        BY <2>1, <2>2
<1>17. c[m + 6] = "'" /\ doubled[1] = body
    <2> HIDE DEF Good
    <2>1. \A j \in 1 .. m + 1 : j \in Good
        <3>1. m + 1 \in Nat
            BY <1>5
        <3> QED
            BY <1>16, <3>1, BackwardInduction
    <2>2. 1 \in Good /\ 1 \in 1 .. z + 1 /\ 1 + 5 = 6 /\ 5 + 1 = 6
        BY <1>5, <1>9, <2>1
    <2>3. close[6] = m + 7
        <3>1. close[5 + 1] = TextLiteral(c, 5)
            <4>1. TextLiteral(c, 5) # NoMatch
                BY <1>3, <1>15
            <4> QED
                BY <1>11, <4>1
        <3> QED
            BY <1>3, <1>15, <2>2, <3>1
    <2>4. Rest(1)
        BY <2>2, <2>3 DEF Good
    <2>5. Suffix(value, 1) = value /\ Suffix(body, 1) = body
        BY <1>6, <1>9, SuffixEnds
    <2> QED
        BY <1>12, <2>2, <2>4, <2>5
<1>18. text = <<"'">> \o body \o <<"'">>
    <2> DEFINE whole == <<"'">> \o body \o <<"'">>
    <2>1. /\ whole \in Seq(S) /\ Len(whole) = m + 2 /\ whole[1] = "'" /\ whole[m + 2] = "'"
          /\ \A i \in 1 .. m : whole[i + 1] = body[i]
        BY <1>6, EnclosedSymbols
    <2> HIDE DEF whole
    <2>2. text[1] = "'" /\ text[m + 2] = "'"
        <3>1. 1 \in 1 .. n /\ m + 2 \in 1 .. n /\ 1 + 4 = 5 /\ (m + 2) + 4 = m + 6
            BY <1>5
        <3> QED
            BY <1>2, <1>4, <1>17, <3>1
    <2>3. ASSUME NEW i \in 1 .. m + 2 PROVE text[i] = whole[i]
        <3>1. CASE i = 1 \/ i = m + 2
            BY <2>1, <2>2, <3>1
        <3>2. CASE i # 1 /\ i # m + 2
            <4> DEFINE k == i - 1
            <4>1. k \in 1 .. m /\ k + 1 = i
                BY <1>5, <3>2
            <4> HIDE DEF k
            <4> QED
                BY <1>6, <2>1, <4>1
        <3> QED
            BY <3>1, <3>2
    <2> QED
        BY <1>5, <2>1, <2>3, SeqEqual DEF whole
<1> QED
    BY <1>10, <1>13, <1>17, <1>18

\* A literal of a release stands for exactly the value it quotes, and a connection
\* field is read in the one way it can be: for texts of any length over any symbols
\* other than white space, which the grammar allows around a literal.
THEOREM TextsReadAsWritten ==
    ASSUME "ws" \notin TextSymbols
    PROVE  TextsAreReadExactly
<1> DEFINE S == TextSymbols \cup {"'"}
<1>1. "'" \in S /\ "ws" \notin S /\ TextSymbols \subseteq S
    OBVIOUS
<1> HIDE DEF S
<1>2. ASSUME NEW text \in MisreadLiterals PROVE FALSE
    <2>1. PICK n \in 0 .. MaxText : text \in [1 .. n -> TextSymbols]
        BY DEF MisreadLiterals, BoundedTexts
    <2>2. text \in Seq(TextSymbols)
        BY <2>1, TextAssumption, SeqDef
    <2>3. text \in Seq(S)
        BY <1>1, <2>2, SeqWidens
    <2>4. ControlStatement(Call(Quoted(text))) = ReleaseLiteral(text)
        BY <1>1, <2>3, QuotedIsRead
    <2>5. ControlStatement(Call(text)).kind = "Literal" => text = Quoted(ControlStatement(Call(text)).literal)
        BY <1>1, <2>3, LiteralIsQuoted
    <2> QED
        BY <2>4, <2>5 DEF MisreadLiterals
<1> QED
    BY <1>2, FieldsAreReadExactly DEF TextsAreReadExactly

=============================================================================
