---------------------------- MODULE StartupSweep ----------------------------
(***************************************************************************)
(* Server processes that come and go around one PostgreSQL server:         *)
(* PostgresManager::start and drop_ddl_templates_like of manager.rs,       *)
(* prepare_postgres of startup.rs and try_init of core.rs.                 *)
(*                                                                         *)
(* A process keeps no record outside PostgreSQL.  What it leaves behind is *)
(* for the next one to find by name.  A statement that was submitted goes  *)
(* on in PostgreSQL when its process is gone.  One process runs at a time. *)
(***************************************************************************)
EXTENDS DatabaseName, FiniteSets

CONSTANTS
    Template,       \* the configured template database
    Others,         \* databases of somebody else
    Ids,            \* the identifiers generate_id may draw
    Discriminators, \* the identifiers generate_parallel_test_id may draw
    InitialSlots,   \* databases created at startup
    PipelineDepth,  \* CLEANUP_PIPELINE_DEPTH
    MaxStarts,      \* bound: processes started
    MaxGrown,       \* bound: databases created after startup
    MaxFailures     \* bound: statements that fail

\* Identifiers are random and long: nobody else uses a name made with one.
ASSUME SweepAssumption ==
    /\ Template \in Seq(Bytes)
    /\ \A d \in Discriminators : d \in Seq(Bytes) /\ Len(d) = DiscriminatorLen
    /\ \A i \in Ids : i \in Seq(Bytes) /\ Len(i) = GeneratedIdLen
    /\ \A d \in Discriminators, i \in Ids :
            GenerateDatabaseName(Truncate(Template, d), i) \notin Others \cup {Template}
    /\ PipelineDepth \in Nat \ {0} /\ InitialSlots \in Nat
    /\ MaxStarts \in Nat /\ MaxGrown \in Nat /\ MaxFailures \in Nat
    /\ Cardinality(Ids) >= MaxStarts * InitialSlots + MaxGrown

VARIABLES
    \* PostgreSQL
    pg,         \* databases that exist
    abandoned,  \* statements whose process is gone
    \* the process
    phase,      \* "Down", or how far it is
    prefix,     \* prefix_template, drawn once per process
    names,      \* databases the sweep has listed and not yet submitted
    dropping,   \* DROP DATABASE statements under way
    creating,   \* CREATE DATABASE statements under way
    failed,     \* a statement of this batch has failed
    requested,  \* databases asked for by try_init
    owned,      \* databases it created and has not retired
    \* history
    swept,      \* the sweep of this process reported success
    used,       \* identifiers drawn so far, by all processes
    made,       \* names generated, by all processes
    mine,       \* names generated by this process
    late,       \* created by an abandoned statement since the sweep listed
    \* bounds
    starts, grown, failures

server == <<pg, abandoned>>
process == <<phase, prefix, names, dropping, creating, failed, requested, owned>>
history == <<swept, used, made, mine, late>>
bounds == <<starts, grown, failures>>
vars == <<server, process, history, bounds>>

\* PostgreSQL cuts an identifier that is too long.
Stored(name) == IF Len(name) <= MaxIdentifier THEN name ELSE SubSeq(name, 1, MaxIdentifier)

Init ==
    /\ pg \in {Others, Others \cup {Template}}
    /\ abandoned = {}
    /\ phase = "Down"
    /\ prefix = <<>>
    /\ names = {} /\ dropping = {} /\ creating = {} /\ owned = {}
    /\ failed = FALSE
    /\ requested = 0
    /\ swept = FALSE
    /\ used = {} /\ made = {} /\ mine = {} /\ late = {}
    /\ starts = 0 /\ grown = 0 /\ failures = 0

----------------------------------------------------------------------------
\* PostgresManager::start.

TemplateFound == \E d \in pg : Like(d, Template)

StartProcess(discriminator) ==
    /\ phase = "Down"
    /\ starts < MaxStarts
    /\ starts' = starts + 1
    /\ TemplateFound
    /\ phase' = "Listing"
    /\ prefix' = Truncate(Template, discriminator)
    /\ swept' = FALSE
    /\ mine' = {}
    /\ UNCHANGED <<server, names, dropping, creating, failed, requested, owned,
                   used, made, late, grown, failures>>

\* No such template; no connection, or a server that is too old.
StartRejected ==
    /\ phase = "Down"
    /\ starts < MaxStarts
    /\ starts' = starts + 1
    /\ \/ ~TemplateFound /\ UNCHANGED failures
       \/ failures < MaxFailures /\ failures' = failures + 1
    /\ UNCHANGED <<server, process, history, grown>>

----------------------------------------------------------------------------
\* drop_ddl_templates_like.

ListLeftovers ==
    /\ phase = "Listing"
    /\ phase' = "Sweeping"
    /\ names' = {d \in pg : Like(d, SweepPattern(Template))}
    /\ late' = {}
    /\ failed' = FALSE
    /\ UNCHANGED <<server, prefix, dropping, creating, requested, owned,
                   swept, used, made, mine, bounds>>

\* The sweep is over; startup goes on whether or not it succeeded.
EndSweep(success) ==
    /\ phase' = "Creating"
    /\ swept' = success
    /\ names' = {}
    /\ failed' = FALSE
    /\ requested' = 0

ListingFails ==
    /\ phase = "Listing"
    /\ failures < MaxFailures
    /\ failures' = failures + 1
    /\ EndSweep(FALSE)
    /\ late' = {}
    /\ UNCHANGED <<server, prefix, dropping, creating, owned, used, made, mine, starts, grown>>

\* A batch is submitted at once, and joined before the next one.
SubmitBatch(batch) ==
    /\ phase = "Sweeping"
    /\ dropping = {} /\ names # {} /\ ~failed
    /\ dropping' = batch
    /\ names' = names \ batch
    /\ UNCHANGED <<server, phase, prefix, creating, failed, requested, owned, history, bounds>>

Batches ==
    {b \in SUBSET names :
        Cardinality(b) = IF Cardinality(names) < PipelineDepth
                         THEN Cardinality(names) ELSE PipelineDepth}

SweepDone ==
    /\ phase = "Sweeping"
    /\ dropping = {} /\ names = {} /\ ~failed
    /\ EndSweep(TRUE)
    /\ UNCHANGED <<server, prefix, dropping, creating, owned, used, made, mine, late, bounds>>

\* Faulty variant: an error in a batch does not stop the sweep from succeeding.
SweepGivesUpQuietly ==
    /\ phase = "Sweeping"
    /\ dropping = {} /\ failed
    /\ EndSweep(TRUE)
    /\ UNCHANGED <<server, prefix, dropping, creating, owned, used, made, mine, late, bounds>>

SweepGivesUp ==
    /\ phase = "Sweeping"
    /\ dropping = {} /\ failed
    /\ EndSweep(FALSE)
    /\ UNCHANGED <<server, prefix, dropping, creating, owned, used, made, mine, late, bounds>>

\* DROP DATABASE IF EXISTS ... WITH (FORCE), of the sweep or of a retirement.
DropExecuted(d) ==
    /\ d \in dropping
    /\ dropping' = dropping \ {d}
    /\ pg' = pg \ {d}
    /\ UNCHANGED <<abandoned, phase, prefix, names, creating, failed, requested, owned,
                   history, bounds>>

DropFails(d, executed) ==
    /\ d \in dropping
    /\ failures < MaxFailures
    /\ failures' = failures + 1
    /\ dropping' = dropping \ {d}
    /\ pg' = IF executed THEN pg \ {d} ELSE pg
    /\ failed' = (phase = "Sweeping")
    /\ UNCHANGED <<abandoned, phase, prefix, names, creating, requested, owned,
                   history, starts, grown>>

----------------------------------------------------------------------------
\* try_init, and the creations of a running engine.

\* A random identifier of 32 letters is taken to be new.
SubmitCreate(id) ==
    LET name == GenerateDatabaseName(prefix, id)
    IN  /\ id \notin used
        /\ used' = used \cup {id}
        /\ creating' = creating \cup {name}
        /\ made' = made \cup {name}
        /\ mine' = mine \cup {name}

RequestInitial(id) ==
    /\ phase = "Creating"
    /\ requested < InitialSlots
    /\ requested' = requested + 1
    /\ SubmitCreate(id)
    /\ UNCHANGED <<server, phase, prefix, names, dropping, failed, owned, swept, late, bounds>>

Grow(id) ==
    /\ phase = "Running"
    /\ grown < MaxGrown
    /\ grown' = grown + 1
    /\ SubmitCreate(id)
    /\ UNCHANGED <<server, phase, prefix, names, dropping, failed, requested, owned,
                   swept, late, starts, failures>>

CreateExecuted(name) ==
    /\ name \in creating
    /\ Template \in pg
    /\ creating' = creating \ {name}
    /\ pg' = pg \cup {Stored(name)}
    /\ owned' = owned \cup {name}
    /\ UNCHANGED <<abandoned, phase, prefix, names, dropping, failed, requested, history, bounds>>

\* The statement fails, or its connection does after the server executed it.
CreateFails(name, executed) ==
    /\ name \in creating
    /\ IF Template \in pg THEN failures < MaxFailures /\ failures' = failures + 1
       ELSE ~executed /\ UNCHANGED failures
    /\ creating' = creating \ {name}
    /\ pg' = IF executed THEN pg \cup {Stored(name)} ELSE pg
    /\ failed' = (phase = "Creating")
    /\ UNCHANGED <<abandoned, phase, prefix, names, dropping, requested, owned,
                   history, starts, grown>>

\* Faulty variant: startup completes with the databases it could get.
CompleteWithLess ==
    /\ phase = "Creating"
    /\ requested = InitialSlots /\ creating = {}
    /\ phase' = "Running"
    /\ failed' = FALSE
    /\ UNCHANGED <<server, prefix, names, dropping, creating, requested, owned, history, bounds>>

StartupCompletes ==
    /\ phase = "Creating"
    /\ requested = InitialSlots /\ creating = {} /\ ~failed
    /\ phase' = "Running"
    /\ UNCHANGED <<server, prefix, names, dropping, creating, failed, requested, owned,
                   history, bounds>>

\* The process is gone, its statements are not.
Exit ==
    /\ phase' = "Down"
    /\ prefix' = <<>>
    /\ names' = {} /\ dropping' = {} /\ creating' = {} /\ owned' = {}
    /\ failed' = FALSE
    /\ requested' = 0
    /\ abandoned' = abandoned \cup [type : {"Create"}, name : creating]
                              \cup [type : {"Drop"}, name : dropping]
    /\ UNCHANGED <<pg, history, bounds>>

\* Faulty variant: an error is only looked at while results are outstanding.
FailsBeforeTheLast ==
    /\ phase = "Creating"
    /\ creating # {} /\ failed
    /\ Exit

\* Every creation has been waited for and one has failed.
StartupFails ==
    /\ phase = "Creating"
    /\ requested = InitialSlots /\ creating = {} /\ failed
    /\ Exit

\* Faulty variant: the record stays where it is.
RetireWithoutRemoval(name) ==
    /\ phase = "Running"
    /\ name \in owned
    /\ dropping' = dropping \cup {name}
    /\ UNCHANGED <<server, phase, prefix, names, creating, failed, requested, owned,
                   history, bounds>>

Retire(name) ==
    /\ phase = "Running"
    /\ name \in owned
    /\ owned' = owned \ {name}
    /\ dropping' = dropping \cup {name}
    /\ UNCHANGED <<server, phase, prefix, names, creating, failed, requested, history, bounds>>

\* A crash, or a shutdown, which drops nothing either.
Crash ==
    /\ phase # "Down"
    /\ Exit

\* PostgreSQL ends a statement nobody waits for, one way or the other.
AbandonedEnds(s, executed) ==
    /\ s \in abandoned
    /\ abandoned' = abandoned \ {s}
    /\ IF s.type = "Drop"
       THEN pg' = (IF executed THEN pg \ {s.name} ELSE pg) /\ UNCHANGED late
       ELSE /\ pg' = IF executed /\ Template \in pg THEN pg \cup {Stored(s.name)} ELSE pg
            /\ late' = late \cup (pg' \ pg)
    /\ UNCHANGED <<process, swept, used, made, mine, bounds>>

----------------------------------------------------------------------------

Step ==
    \/ ListLeftovers
    \/ ListingFails
    \/ \E b \in Batches : SubmitBatch(b)
    \/ SweepDone
    \/ SweepGivesUp
    \/ \E id \in Ids : RequestInitial(id)
    \/ StartupCompletes
    \/ StartupFails

DropEnds(d) == DropExecuted(d) \/ \E executed \in BOOLEAN : DropFails(d, executed)

CreateEnds(n) == CreateExecuted(n) \/ \E executed \in BOOLEAN : CreateFails(n, executed)

Next ==
    \/ \E d \in Discriminators : StartProcess(d)
    \/ StartRejected
    \/ Step
    \/ \E d \in dropping : DropEnds(d)
    \/ \E n \in creating : CreateEnds(n)
    \/ \E id \in Ids : Grow(id)
    \/ \E n \in owned : Retire(n)
    \/ Crash
    \/ \E s \in abandoned, executed \in BOOLEAN : AbandonedEnds(s, executed)

Spec == Init /\ [][Next]_vars

\* The startup task is polled, and statements end.
FairSpec ==
    /\ Spec
    /\ WF_vars(Step)
    /\ WF_vars(\E d \in dropping : DropEnds(d))
    /\ WF_vars(\E n \in creating : CreateEnds(n))

----------------------------------------------------------------------------
\* Properties.

\* After a sweep that reported success nothing of an earlier process is left,
\* except what PostgreSQL created for it after the sweep had listed.
LeftoversAreSwept ==
    phase \in {"Creating", "Running"} /\ swept => pg \cap (made \ mine) \subseteq late

\* What a process hands out exists under the name it uses, whatever sweeps and
\* abandoned statements do meanwhile.
OwnDatabasesExist == owned \subseteq pg

\* The sweep leaves the template alone.
TemplateSurvives == [][(Template \in pg) => (Template \in pg')]_vars

\* A process that gets past startup has all its initial databases, and they
\* are its own.
StartupIsComplete ==
    [][phase = "Creating" /\ phase' = "Running" => Cardinality(owned) = InitialSlots]_vars

\* Startup ends: the process runs or is gone.
StartupEnds == phase = "Listing" ~> phase \in {"Running", "Down"}
=============================================================================
