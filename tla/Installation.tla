---------------------------- MODULE Installation ----------------------------
(***************************************************************************)
(* The commands `bugrail init` and `bugrail serve`, each a process of its  *)
(* own on one database: both apply the migrations that are pending, then   *)
(* init creates the installation (Bootstrap) and serve starts to listen.   *)
(*                                                                         *)
(* Bootstrap is modelled statement by statement as PostgreSQL runs it      *)
(* (READ COMMITTED, see PostgresStore); processes on one SQLite file have  *)
(* fewer interleavings: a writer makes the others wait or fail.  goose     *)
(* applies one migration per transaction and reads the version before each.*)
(*                                                                         *)
(* Random ids and keys never collide: they are named by the process that   *)
(* draws them.  The project id is no random one: projectNumericID.         *)
(***************************************************************************)
EXTENDS Naturals, FiniteSets

CONSTANTS Processes,      \* runs of the bugrail command
          Emails,         \* administrators they may be given
          Slugs,          \* organisations they may be given
          NumMigrations,  \* files of migrations/
          Refusals,       \* the sets of migrations a back end may refuse
          None            \* Go's "" for an email or a slug

VARIABLES schema,         \* version of the database: migrations applied
          refused,        \* migrations this back end cannot run
          users, organizations, projects, projectKeys,   \* the tables
          proc            \* the local variables of each process

tables == <<users, organizations, projects, projectKeys>>
installVars == <<schema, refused, tables, proc>>

ASSUME MigrationsAssumption ==
    /\ NumMigrations \in Nat
    /\ Refusals \subseteq SUBSET (1 .. NumMigrations)

ASSUME NoneInstallAssumption == None \notin Emails \cup Slugs

\* The statements of Bootstrap, in the order of the transaction.
Bootstrap == {"count_users", "count_projects", "insert_user",
              "insert_organization", "insert_project", "insert_key", "commit"}

Process == [pc : Bootstrap \cup {"idle", "read_version", "apply", "serving", "done"},
            command : {"init", "serve", "none"}, next : Nat,
            email : Emails \cup {None}, slug : Slugs \cup {None},
            reply : {"none", "installed", "already", "failed"}]

NotRun == [pc |-> "idle", command |-> "none", next |-> 0,
           email |-> None, slug |-> None, reply |-> "none"]

InstallTypeOK ==
    /\ schema \in 0 .. NumMigrations
    /\ refused \subseteq 1 .. NumMigrations
    /\ users \subseteq [id : Processes, email : Emails]
    /\ organizations \subseteq [id : Processes, slug : Slugs]
    /\ projects \subseteq [id : {1}, organization : Processes]
    /\ projectKeys \subseteq [project : {1}, publicKey : Processes]
    /\ proc \in [Processes -> Process]

InstallInit ==
    /\ schema = 0
    /\ refused \in Refusals
    /\ users = {} /\ organizations = {} /\ projects = {} /\ projectKeys = {}
    /\ proc = [p \in Processes |-> NotRun]

At(p, pc) == proc[p].pc = pc

Goto(p, pc) == proc' = [proc EXCEPT ![p].pc = pc]

\* The process ends; a transaction that was open is rolled back.
Exit(p, reply) ==
    proc' = [proc EXCEPT ![p] = [NotRun EXCEPT !.pc = "done", !.command = proc[p].command,
                                               !.reply = reply]]

(***************************************************************************)
(* Migrate.                                                                *)
(***************************************************************************)

\* The command is run, with the flags or answers it is given.
Run(p, command, email, slug) ==
    /\ At(p, "idle")
    /\ proc' = [proc EXCEPT ![p] = [@ EXCEPT !.pc = "read_version", !.command = command,
                                             !.email = email, !.slug = slug]]
    /\ UNCHANGED <<schema, refused, tables>>

\* goose looks for the version after the current one.
ReadVersion(p) ==
    /\ At(p, "read_version")
    /\ schema < NumMigrations
    /\ proc' = [proc EXCEPT ![p].pc = "apply", ![p].next = schema + 1]
    /\ UNCHANGED <<schema, refused, tables>>

Apply(p) ==
    /\ At(p, "apply")
    /\ proc[p].next = schema + 1
    /\ proc[p].next \notin refused
    /\ schema' = schema + 1
    /\ proc' = [proc EXCEPT ![p].pc = "read_version", ![p].next = 0]
    /\ UNCHANGED <<refused, tables>>

\* The back end refuses the migration, or another process was faster and
\* its tables exist: the command returns the error.
\* (Mutant: the error of Migrate is not looked at.)
ApplyFailsIgnored(p) ==
    /\ At(p, "apply")
    /\ proc[p].next <= schema \/ proc[p].next \in refused
    /\ Goto(p, IF proc[p].command = "init" THEN "count_users" ELSE "serving")
    /\ UNCHANGED <<schema, refused, tables>>

ApplyFails(p) ==
    /\ At(p, "apply")
    /\ proc[p].next <= schema \/ proc[p].next \in refused
    /\ Exit(p, "failed")
    /\ UNCHANGED <<schema, refused, tables>>

\* Nothing is pending: init goes on to Bootstrap, serve listens.
Migrated(p) ==
    /\ At(p, "read_version")
    /\ schema = NumMigrations
    /\ Goto(p, IF proc[p].command = "init" THEN "count_users" ELSE "serving")
    /\ UNCHANGED <<schema, refused, tables>>

(***************************************************************************)
(* Bootstrap.  What a transaction has inserted follows from its pc.        *)
(***************************************************************************)
HasInsertedUser == {"insert_organization", "insert_project", "insert_key", "commit"}
HasInsertedOrganization == {"insert_project", "insert_key", "commit"}
HasInsertedProject == {"insert_key", "commit"}

\* Some other transaction has inserted, uncommitted, the same unique key.
EmailPending(p) ==
    \E q \in Processes \ {p} :
        proc[q].pc \in HasInsertedUser /\ proc[q].email = proc[p].email

SlugPending(p) ==
    \E q \in Processes \ {p} :
        proc[q].pc \in HasInsertedOrganization /\ proc[q].slug = proc[p].slug

\* projectNumericID: one more than the count, which was 0.
\* (Mutant: a random id.)
ProjectIDRandom(p) == p
ProjectID(p) == 1

ProjectPending(p) ==
    \E q \in Processes \ {p} :
        proc[q].pc \in HasInsertedProject /\ ProjectID(q) = ProjectID(p)

Count(p, pc, rows, next) ==
    /\ At(p, pc)
    /\ IF rows = {} THEN Goto(p, next) ELSE Exit(p, "already")
    /\ UNCHANGED <<schema, refused, tables>>

\* Both counts are tested after the second one; a first count that is not 0
\* leads to the same answer.
CountUsers(p) == Count(p, "count_users", users, "count_projects")

CountProjects(p) == Count(p, "count_projects", projects, "insert_user")

\* An INSERT: waits for a pending row of its key, fails on a stored one.
Insert(p, pc, pending, stored, next) ==
    /\ At(p, pc)
    /\ ~pending
    /\ IF stored THEN Exit(p, "failed") ELSE Goto(p, next)
    /\ UNCHANGED <<schema, refused, tables>>

\* (Mutant: the statement does not run in the transaction.)
CreateUserAutocommit(p) ==
    /\ At(p, "insert_user")
    /\ users' = users \cup {[id |-> p, email |-> proc[p].email]}
    /\ Goto(p, "insert_organization")
    /\ UNCHANGED <<schema, refused, organizations, projects, projectKeys>>

CreateUser(p) ==
    Insert(p, "insert_user", EmailPending(p),
           \E u \in users : u.email = proc[p].email, "insert_organization")

CreateOrganization(p) ==
    Insert(p, "insert_organization", SlugPending(p),
           \E o \in organizations : o.slug = proc[p].slug, "insert_project")

CreateProject(p) ==
    Insert(p, "insert_project", ProjectPending(p),
           \E j \in projects : j.id = ProjectID(p), "insert_key")

\* The key is random: no conflict.
CreateProjectKey(p) == Insert(p, "insert_key", FALSE, FALSE, "commit")

\* All four rows become visible; the connection may be lost before the
\* command hears of it.
Commit(p) ==
    /\ At(p, "commit")
    /\ users' = users \cup {[id |-> p, email |-> proc[p].email]}
    /\ organizations' = organizations \cup {[id |-> p, slug |-> proc[p].slug]}
    /\ projects' = projects \cup {[id |-> ProjectID(p), organization |-> p]}
    /\ projectKeys' = projectKeys \cup {[project |-> ProjectID(p), publicKey |-> p]}
    /\ \E reply \in {"installed", "failed"} : Exit(p, reply)
    /\ UNCHANGED <<schema, refused>>

\* (Mutant: the success is printed before the commit.)
StopInstalled(p) ==
    /\ proc[p].pc \notin {"idle", "done"}
    /\ Exit(p, IF At(p, "commit") THEN "installed" ELSE "failed")
    /\ UNCHANGED <<schema, refused, tables>>

\* The process is killed, or loses the database and exits.
Stop(p) ==
    /\ proc[p].pc \notin {"idle", "done"}
    /\ Exit(p, "failed")
    /\ UNCHANGED <<schema, refused, tables>>

ProcessStep(p) ==
    \/ \E e \in Emails, s \in Slugs : Run(p, "init", e, s)
    \/ Run(p, "serve", None, None)
    \/ ReadVersion(p) \/ Apply(p) \/ ApplyFails(p) \/ Migrated(p)
    \/ CountUsers(p) \/ CountProjects(p)
    \/ CreateUser(p) \/ CreateOrganization(p) \/ CreateProject(p)
    \/ CreateProjectKey(p) \/ Commit(p)

(***************************************************************************)
(* Properties.                                                             *)
(***************************************************************************)

\* However many inits overlap or die, there is no installation or one, with
\* one administrator, one organisation, one project and one key that all
\* come from the same init.
OneWholeInstallation ==
    \/ users = {} /\ organizations = {} /\ projects = {} /\ projectKeys = {}
    \/ \E p \in Processes :
          /\ \E e \in Emails : users = {[id |-> p, email |-> e]}
          /\ \E s \in Slugs : organizations = {[id |-> p, slug |-> s]}
          /\ projects = {[id |-> ProjectID(p), organization |-> p]}
          /\ projectKeys = {[project |-> ProjectID(p), publicKey |-> p]}

\* AuthenticateProjectKey finds the key in its project.
Authenticates(project, key) == [project |-> project, publicKey |-> key] \in projectKeys

\* What init tells its user is true: the DSN it prints is accepted by the
\* server, and "already initialized" means that somebody's DSN is.
RepliesAreTrue ==
    \A p \in Processes :
        /\ proc[p].reply = "installed" => Authenticates(ProjectID(p), p)
        /\ proc[p].reply = "already" =>
               \E q \in Processes : Authenticates(ProjectID(q), q)

\* Nothing is written by Bootstrap, and nothing served, on a database whose
\* migrations have not all been applied, although a back end may refuse one
\* (003_attachments.sql:9 has a type PostgreSQL lacks) and two processes may
\* migrate at once.
SchemaFirst ==
    /\ \A p \in Processes : proc[p].pc \in Bootstrap \cup {"serving"} => schema = NumMigrations
    /\ users # {} => schema = NumMigrations
=============================================================================
