----------------------------- MODULE AccountsProofs -----------------------------
(***************************************************************************)
(* Proofs about internal/auth over an installation: for any number of      *)
(* commands, browsers and requests, any lifetime of a session and any      *)
(* length of time.                                                         *)
(***************************************************************************)
EXTENDS Accounts, TLAPS

-----------------------------------------------------------------------------
(***************************************************************************)
(* The commands on one database, which Accounts extends: for any number of *)
(* processes, any migrations and any of them refused.                      *)
(***************************************************************************)
\* A step of some command, or none.
InstallStep ==
    \/ \E p \in Processes : ProcessStep(p) \/ Stop(p)
    \/ UNCHANGED installVars

\* An init has what it is to create, and nothing but an init is in Bootstrap.
GivenToInit ==
    \A p \in Processes :
        /\ proc[p].pc \in Bootstrap => proc[p].command = "init"
        /\ proc[p].pc \notin {"idle", "done"} /\ proc[p].command = "init"
               => proc[p].email \in Emails /\ proc[p].slug \in Slugs

\* Nothing is replied before the end.
RepliesAtEnd == \A p \in Processes : proc[p].pc # "done" => proc[p].reply = "none"

\* The migration that a process is about to apply exists.
NextExists == \A p \in Processes : At(p, "apply") => proc[p].next <= NumMigrations

\* The primary key of projects lets one transaction through.
OneProjectPending ==
    \A p \in Processes :
        proc[p].pc \in HasInsertedProject =>
            /\ projects = {}
            /\ \A q \in Processes \ {p} : proc[q].pc \notin HasInsertedProject

\* The inductive invariant.
InstallInv ==
    /\ GivenToInit
    /\ RepliesAtEnd
    /\ NextExists
    /\ SchemaFirst
    /\ OneProjectPending
    /\ OneWholeInstallation
    /\ RepliesAreTrue

LEMMA InstallInitCorrect == InstallInit => InstallTypeOK /\ InstallInv
<1> SUFFICES ASSUME InstallInit PROVE InstallTypeOK /\ InstallInv
  OBVIOUS
<1>1. NotRun \in Process
  BY DEF NotRun, Process
<1>2. InstallTypeOK
  BY <1>1, MigrationsAssumption DEF InstallInit, InstallTypeOK
<1>3. \A p \in Processes : proc[p].pc = "idle" /\ proc[p].reply = "none"
  BY DEF InstallInit, NotRun
<1>4. GivenToInit /\ RepliesAtEnd /\ NextExists /\ OneProjectPending
  BY <1>3 DEF GivenToInit, RepliesAtEnd, NextExists, OneProjectPending, At, Bootstrap, HasInsertedProject
<1>5. SchemaFirst /\ OneWholeInstallation /\ RepliesAreTrue
  BY <1>3 DEF InstallInit, SchemaFirst, OneWholeInstallation, RepliesAreTrue, Bootstrap
<1> QED BY <1>2, <1>4, <1>5 DEF InstallInv

-----------------------------------------------------------------------------
(***************************************************************************)
(* What a step does to the process that takes it.                          *)
(***************************************************************************)


\* The records a process moves to.
LEMMA ExitType ==
    ASSUME InstallTypeOK, NEW p \in Processes, NEW reply \in {"installed", "already", "failed"},
           Exit(p, reply)
    PROVE  /\ proc' \in [Processes -> Process]
           /\ proc'[p].pc = "done" /\ proc'[p].reply = reply
           /\ \A q \in Processes \ {p} : proc'[q] = proc[q]
<1>1. proc \in [Processes -> Process] /\ proc[p].command \in {"init", "serve", "none"}
  BY DEF InstallTypeOK, Process
<1> DEFINE x == [NotRun EXCEPT !.pc = "done", !.command = proc[p].command, !.reply = reply]
<1>2. NotRun \in Process
  BY DEF NotRun, Process
<1>3. x \in Process /\ x.pc = "done" /\ x.reply = reply
  BY <1>1, <1>2 DEF Process
<1>4. proc' = [proc EXCEPT ![p] = x]
  BY DEF Exit
<1> HIDE DEF x
<1> QED BY <1>1, <1>3, <1>4

LEMMA GotoType ==
    ASSUME InstallTypeOK, NEW p \in Processes, NEW pc \in Bootstrap \cup {"serving"}, Goto(p, pc)
    PROVE  /\ proc' \in [Processes -> Process]
           /\ proc'[p].pc = pc /\ proc'[p].command = proc[p].command
           /\ proc'[p].email = proc[p].email /\ proc'[p].slug = proc[p].slug
           /\ proc'[p].reply = proc[p].reply /\ proc'[p].next = proc[p].next
           /\ \A q \in Processes \ {p} : proc'[q] = proc[q]
<1>1. proc \in [Processes -> Process] /\ proc[p] \in Process
  BY DEF InstallTypeOK
<1>2. [proc[p] EXCEPT !.pc = pc] \in Process
  BY <1>1 DEF Process
<1> QED BY <1>1, <1>2 DEF Goto, Process

-----------------------------------------------------------------------------
(***************************************************************************)
(* The invariant is inductive.                                             *)
(***************************************************************************)

\* A process that writes nothing keeps the invariant, if the place it moves
\* to and what it replies are right.
LEMMA MoveKeepsInv ==
    ASSUME InstallTypeOK, InstallInv, NEW p \in Processes,
           UNCHANGED <<schema, refused, tables>>,
           proc' \in [Processes -> Process],
           \A q \in Processes \ {p} : proc'[q] = proc[q],
           proc'[p].pc \in Bootstrap => proc'[p].command = "init",
           proc'[p].pc # "done" /\ proc'[p].command = "init"
               => proc'[p].email \in Emails /\ proc'[p].slug \in Slugs,
           proc'[p].pc = "apply" => proc'[p].next <= NumMigrations,
           proc'[p].pc \in Bootstrap \cup {"serving"} => schema = NumMigrations,
           proc'[p].pc \in HasInsertedProject =>
               /\ projects = {}
               /\ \A q \in Processes \ {p} : proc[q].pc \notin HasInsertedProject,
           proc'[p].pc # "done" => proc'[p].reply = "none",
           \/ proc'[p].reply \in {"none", "failed"}
           \/ proc'[p].reply = "already"
                 /\ \E q \in Processes : Authenticates(ProjectID(q), q)
    PROVE  InstallTypeOK' /\ InstallInv'
<1> USE DEF tables
<1>1. InstallTypeOK'
  BY DEF InstallTypeOK
<1>2. GivenToInit'
  BY DEF InstallInv, GivenToInit
<1>3. NextExists'
  BY DEF InstallInv, NextExists, At
<1>4. SchemaFirst'
  BY DEF InstallInv, SchemaFirst
<1>5. OneProjectPending'
  <2> SUFFICES ASSUME NEW r \in Processes, proc'[r].pc \in HasInsertedProject
               PROVE  projects = {} /\ \A q \in Processes \ {r} : proc'[q].pc \notin HasInsertedProject
    BY DEF OneProjectPending
  <2>1. CASE r = p
    BY <2>1
  <2>2. CASE r # p
    BY <2>2 DEF InstallInv, OneProjectPending
  <2> QED BY <2>1, <2>2
<1>6. OneWholeInstallation'
  BY DEF InstallInv, OneWholeInstallation, ProjectID
<1>7. RepliesAreTrue'
  BY DEF InstallInv, RepliesAreTrue, Authenticates, ProjectID
<1>8. RepliesAtEnd'
  BY DEF InstallInv, RepliesAtEnd
<1> QED BY <1>1, <1>2, <1>3, <1>4, <1>5, <1>6, <1>7, <1>8 DEF InstallInv

LEMMA RunKeepsInv ==
    ASSUME InstallTypeOK, InstallInv, NEW p \in Processes,
           \/ \E e \in Emails, s \in Slugs : Run(p, "init", e, s)
           \/ Run(p, "serve", None, None)
    PROVE  InstallTypeOK' /\ InstallInv'
<1>1. PICK command \in {"init", "serve"}, e \in Emails \cup {None}, s \in Slugs \cup {None} :
          /\ Run(p, command, e, s)
          /\ command = "init" => e \in Emails /\ s \in Slugs
  OBVIOUS
<1>2. proc \in [Processes -> Process] /\ proc[p].reply = "none"
  BY <1>1 DEF InstallTypeOK, InstallInv, RepliesAtEnd, Run, At
<1> DEFINE x == [proc[p] EXCEPT !.pc = "read_version", !.command = command,
                                !.email = e, !.slug = s]
<1>3. /\ x \in Process /\ x.pc = "read_version" /\ x.command = command
      /\ x.email = e /\ x.slug = s /\ x.reply = "none"
  BY <1>1, <1>2 DEF Process
<1>4. proc' = [proc EXCEPT ![p] = x] /\ UNCHANGED <<schema, refused, tables>>
  BY <1>1 DEF Run
<1> HIDE DEF x
<1> QED BY <1>1, <1>2, <1>3, <1>4, MoveKeepsInv DEF Bootstrap, HasInsertedProject

LEMMA ReadVersionKeepsInv ==
    ASSUME InstallTypeOK, InstallInv, NEW p \in Processes, ReadVersion(p)
    PROVE  InstallTypeOK' /\ InstallInv'
<1>1. /\ proc \in [Processes -> Process] /\ proc[p].reply = "none"
      /\ proc[p].command = "init" => proc[p].email \in Emails /\ proc[p].slug \in Slugs
      /\ schema + 1 \in Nat /\ schema + 1 <= NumMigrations
  BY MigrationsAssumption
     DEF InstallTypeOK, InstallInv, RepliesAtEnd, GivenToInit, ReadVersion, At
<1> DEFINE x == [proc[p] EXCEPT !.pc = "apply", !.next = schema + 1]
<1>2. /\ x \in Process /\ x.pc = "apply" /\ x.next = schema + 1 /\ x.command = proc[p].command
      /\ x.email = proc[p].email /\ x.slug = proc[p].slug /\ x.reply = "none"
  BY <1>1 DEF Process
<1>3. proc' = [proc EXCEPT ![p] = x] /\ UNCHANGED <<schema, refused, tables>>
  BY DEF ReadVersion
<1> HIDE DEF x
<1> QED BY <1>1, <1>2, <1>3, MoveKeepsInv DEF Bootstrap, HasInsertedProject

\* No process is past its migrations while there is one left to apply.
LEMMA ApplyKeepsInv ==
    ASSUME InstallTypeOK, InstallInv, NEW p \in Processes, Apply(p)
    PROVE  InstallTypeOK' /\ InstallInv'
<1> USE DEF tables
<1>1. /\ proc \in [Processes -> Process] /\ proc[p].reply = "none"
      /\ proc[p].command = "init" => proc[p].email \in Emails /\ proc[p].slug \in Slugs
      /\ schema + 1 <= NumMigrations /\ schema # NumMigrations
      /\ schema' \in 0 .. NumMigrations
  BY MigrationsAssumption
     DEF InstallTypeOK, InstallInv, RepliesAtEnd, GivenToInit, NextExists, Apply, At
<1> DEFINE x == [proc[p] EXCEPT !.pc = "read_version", !.next = 0]
<1>2. /\ x \in Process /\ x.pc = "read_version" /\ x.command = proc[p].command
      /\ x.email = proc[p].email /\ x.slug = proc[p].slug /\ x.reply = "none"
  BY <1>1 DEF Process
<1>3. proc' = [proc EXCEPT ![p] = x] /\ UNCHANGED <<refused, tables>>
  BY DEF Apply
<1> HIDE DEF x
<1>4. users = {} /\ \A q \in Processes : proc[q].pc \notin Bootstrap \cup {"serving"}
  BY <1>1 DEF InstallInv, SchemaFirst
<1>5. InstallTypeOK'
  BY <1>1, <1>2, <1>3 DEF InstallTypeOK
<1>6. GivenToInit' /\ RepliesAtEnd' /\ NextExists'
  BY <1>1, <1>2, <1>3 DEF InstallInv, GivenToInit, RepliesAtEnd, NextExists, At, Bootstrap
<1>7. SchemaFirst' /\ OneProjectPending'
  BY <1>1, <1>2, <1>3, <1>4 DEF SchemaFirst, OneProjectPending, Bootstrap, HasInsertedProject
<1>8. OneWholeInstallation' /\ RepliesAreTrue'
  BY <1>1, <1>2, <1>3
     DEF InstallInv, OneWholeInstallation, RepliesAreTrue, Authenticates, ProjectID
<1> QED BY <1>5, <1>6, <1>7, <1>8 DEF InstallInv

LEMMA EndKeepsInv ==
    ASSUME InstallTypeOK, InstallInv, NEW p \in Processes,
           ApplyFails(p) \/ Stop(p)
    PROVE  InstallTypeOK' /\ InstallInv'
<1>1. Exit(p, "failed") /\ UNCHANGED <<schema, refused, tables>>
  BY DEF ApplyFails, Stop
<1> QED BY <1>1, ExitType, MoveKeepsInv DEF Bootstrap, HasInsertedProject

LEMMA MigratedKeepsInv ==
    ASSUME InstallTypeOK, InstallInv, NEW p \in Processes, Migrated(p)
    PROVE  InstallTypeOK' /\ InstallInv'
<1>1. PICK pc \in {"count_users", "serving"} :
          Goto(p, pc) /\ (pc = "count_users" => proc[p].command = "init")
  BY DEF Migrated
<1>2. pc \in Bootstrap \cup {"serving"}
  BY DEF Bootstrap
<1>3. /\ schema = NumMigrations /\ UNCHANGED <<schema, refused, tables>>
      /\ proc[p].reply = "none"
      /\ proc[p].command = "init" => proc[p].email \in Emails /\ proc[p].slug \in Slugs
  BY DEF InstallInv, RepliesAtEnd, GivenToInit, Migrated, At
<1>4. pc \notin HasInsertedProject \cup {"apply", "done"}
      /\ (pc \in Bootstrap => pc = "count_users")
  BY DEF HasInsertedProject, Bootstrap
<1> QED BY <1>1, <1>2, <1>3, <1>4, GotoType, MoveKeepsInv

\* No transaction but p's has inserted the project.
ProjectIsFree(p) ==
    projects = {} /\ \A q \in Processes \ {p} : proc[q].pc \notin HasInsertedProject

\* In Bootstrap a process goes on only after an init that has its arguments.
LEMMA BootstrapGoesOn ==
    ASSUME InstallTypeOK, InstallInv, NEW p \in Processes, NEW pc \in Bootstrap,
           proc[p].pc \in Bootstrap, Goto(p, pc), UNCHANGED <<schema, refused, tables>>,
           pc \in HasInsertedProject => ProjectIsFree(p)
    PROVE  InstallTypeOK' /\ InstallInv'
<1>1. /\ schema = NumMigrations /\ proc[p].reply = "none" /\ proc[p].command = "init"
      /\ proc[p].email \in Emails /\ proc[p].slug \in Slugs
  BY DEF InstallInv, RepliesAtEnd, GivenToInit, SchemaFirst, Bootstrap
<1>2. pc \notin {"apply", "done"}
  BY DEF Bootstrap
<1> QED BY <1>1, <1>2, GotoType, MoveKeepsInv DEF ProjectIsFree

\* Rows that are found are those of a whole installation.
LEMMA CountKeepsInv ==
    ASSUME InstallTypeOK, InstallInv, NEW p \in Processes, CountUsers(p) \/ CountProjects(p)
    PROVE  InstallTypeOK' /\ InstallInv'
<1>1. PICK rows \in {users, projects}, next \in {"count_projects", "insert_user"} :
          /\ proc[p].pc \in {"count_users", "count_projects"}
          /\ IF rows = {} THEN Goto(p, next) ELSE Exit(p, "already")
          /\ UNCHANGED <<schema, refused, tables>>
  BY DEF CountUsers, CountProjects, Count, At
<1>2. CASE rows = {}
  <2>1. Goto(p, next) /\ next \in Bootstrap \ HasInsertedProject /\ proc[p].pc \in Bootstrap
    BY <1>1, <1>2 DEF Bootstrap, HasInsertedProject
  <2> QED BY <1>1, <2>1, BootstrapGoesOn
<1>3. CASE rows # {}
  <2>1. \E q \in Processes : Authenticates(ProjectID(q), q)
    BY <1>1, <1>3 DEF InstallInv, OneWholeInstallation, Authenticates
  <2>2. Exit(p, "already")
    BY <1>1, <1>3
  <2> QED BY <1>1, <2>1, <2>2, ExitType, MoveKeepsInv DEF Bootstrap, HasInsertedProject
<1> QED BY <1>2, <1>3

LEMMA InsertKeepsInv ==
    ASSUME InstallTypeOK, InstallInv, NEW p \in Processes,
           CreateUser(p) \/ CreateOrganization(p) \/ CreateProject(p) \/ CreateProjectKey(p)
    PROVE  InstallTypeOK' /\ InstallInv'
<1>1. CASE Exit(p, "failed") /\ UNCHANGED <<schema, refused, tables>>
  BY <1>1, ExitType, MoveKeepsInv DEF Bootstrap, HasInsertedProject
<1>2. CASE CreateUser(p)
  <2>1. /\ proc[p].pc \in Bootstrap /\ "insert_organization" \in Bootstrap \ HasInsertedProject
        /\ UNCHANGED <<schema, refused, tables>>
        /\ Goto(p, "insert_organization") \/ Exit(p, "failed")
    BY <1>2 DEF CreateUser, Insert, At, Bootstrap, HasInsertedProject
  <2> QED BY <1>1, <2>1, BootstrapGoesOn
<1>3. CASE CreateOrganization(p)
  <2>1. /\ proc[p].pc \in Bootstrap /\ "insert_project" \in Bootstrap \ HasInsertedProject
        /\ UNCHANGED <<schema, refused, tables>>
        /\ Goto(p, "insert_project") \/ Exit(p, "failed")
    BY <1>3 DEF CreateOrganization, Insert, At, Bootstrap, HasInsertedProject
  <2> QED BY <1>1, <2>1, BootstrapGoesOn
<1>4. CASE CreateProject(p)
  <2>1. /\ proc[p].pc \in Bootstrap /\ "insert_key" \in Bootstrap
        /\ UNCHANGED <<schema, refused, tables>>
    BY <1>4 DEF CreateProject, Insert, At, Bootstrap
  <2>2. CASE \E j \in projects : j.id = ProjectID(p)
    BY <1>1, <1>4, <2>1, <2>2 DEF CreateProject, Insert
  <2>3. CASE ~\E j \in projects : j.id = ProjectID(p)
    <3>1. ProjectIsFree(p)
      BY <1>4, <2>3 DEF InstallTypeOK, CreateProject, Insert, ProjectPending, ProjectID,
         ProjectIsFree
    <3>2. Goto(p, "insert_key")
      BY <1>4, <2>3 DEF CreateProject, Insert
    <3> QED BY <2>1, <3>1, <3>2, BootstrapGoesOn
  <2> QED BY <2>2, <2>3
<1>5. CASE CreateProjectKey(p)
  <2>1. /\ proc[p].pc \in Bootstrap \cap HasInsertedProject /\ "commit" \in Bootstrap
        /\ UNCHANGED <<schema, refused, tables>>
        /\ Goto(p, "commit")
    BY <1>5 DEF CreateProjectKey, Insert, At, Bootstrap, HasInsertedProject
  <2>2. ProjectIsFree(p)
    BY <2>1 DEF InstallInv, OneProjectPending, ProjectIsFree
  <2> QED BY <2>1, <2>2, BootstrapGoesOn
<1> QED BY <1>2, <1>3, <1>4, <1>5

\* The rows that become visible are the first ones, all from this process.
LEMMA CommitKeepsInv ==
    ASSUME InstallTypeOK, InstallInv, NEW p \in Processes, Commit(p)
    PROVE  InstallTypeOK' /\ InstallInv'
<1>1. /\ proc[p].pc = "commit" /\ projects = {} /\ schema = NumMigrations
      /\ proc[p].email \in Emails /\ proc[p].slug \in Slugs
      /\ \A q \in Processes \ {p} : proc[q].pc \notin HasInsertedProject
  BY DEF InstallInv, OneProjectPending, SchemaFirst, GivenToInit, Commit, At, Bootstrap,
     HasInsertedProject
<1>2. users = {} /\ organizations = {} /\ projectKeys = {}
  BY <1>1 DEF InstallInv, OneWholeInstallation
<1>3. PICK reply \in {"installed", "failed"} : Exit(p, reply)
  BY DEF Commit
<1>4. /\ proc' \in [Processes -> Process]
      /\ proc'[p].pc = "done" /\ proc'[p].reply = reply
      /\ \A q \in Processes \ {p} : proc'[q] = proc[q]
  BY <1>3, ExitType
<1>5. /\ users' = {[id |-> p, email |-> proc[p].email]}
      /\ organizations' = {[id |-> p, slug |-> proc[p].slug]}
      /\ projects' = {[id |-> 1, organization |-> p]}
      /\ projectKeys' = {[project |-> 1, publicKey |-> p]}
      /\ schema' = schema /\ refused' = refused
  BY <1>1, <1>2 DEF Commit, ProjectID
<1>6. OneWholeInstallation'
  BY <1>1, <1>5 DEF OneWholeInstallation, ProjectID
<1>7. InstallTypeOK'
  BY <1>1, <1>4, <1>5 DEF InstallTypeOK
<1>8. GivenToInit' /\ RepliesAtEnd' /\ NextExists'
  BY <1>4, <1>5 DEF InstallInv, GivenToInit, RepliesAtEnd, NextExists, At, Bootstrap
<1>9. SchemaFirst' /\ OneProjectPending'
  BY <1>1, <1>4, <1>5
     DEF InstallInv, SchemaFirst, OneProjectPending, Bootstrap, HasInsertedProject
<1>10. RepliesAreTrue'
  <2>1. Authenticates(ProjectID(p), p)'
    BY <1>5 DEF Authenticates, ProjectID
  <2>2. \A q \in Processes \ {p} : proc[q].reply # "installed"
    BY <1>2 DEF InstallInv, RepliesAreTrue, Authenticates
  <2> QED BY <1>4, <2>1, <2>2 DEF RepliesAreTrue, ProjectID
<1> QED BY <1>6, <1>7, <1>8, <1>9, <1>10 DEF InstallInv

LEMMA InstallStepKeepsInv ==
    ASSUME InstallTypeOK, InstallInv, InstallStep
    PROVE  InstallTypeOK' /\ InstallInv'
<1>1. CASE UNCHANGED installVars
  BY <1>1 DEF installVars, tables, InstallTypeOK, InstallInv, GivenToInit, RepliesAtEnd,
     NextExists, SchemaFirst, OneProjectPending, OneWholeInstallation, RepliesAreTrue,
     Authenticates, ProjectID, At
<1>2. CASE \E p \in Processes : ProcessStep(p) \/ Stop(p)
  <2>1. PICK p \in Processes : ProcessStep(p) \/ Stop(p)
    BY <1>2
  <2> QED BY <2>1, RunKeepsInv, ReadVersionKeepsInv, ApplyKeepsInv, EndKeepsInv,
             MigratedKeepsInv, CountKeepsInv, InsertKeepsInv, CommitKeepsInv
          DEF ProcessStep
<1> QED BY <1>1, <1>2 DEF InstallStep

-----------------------------------------------------------------------------
(***************************************************************************)
(* Browsers and requests.                                                  *)
(***************************************************************************)

\* Request t was a login whose answer is on its way or further.
Issued(t) == web[t].pc \in {"answered", "done"} /\ web[t].kind = "login"

\* A row is that of a login, and expires TTL after it.
RowsAreOfLogins ==
    \A t \in DOMAIN sessions : Issued(t) /\ sessions[t].expires_at = web[t].now + TTL

\* Nobody has a token before it is handed out.
TokensAreIssued ==
    /\ \A b \in Browsers : jar[b].session # None => Issued(jar[b].session)
    /\ \A r \in Requests :
          /\ web[r].session # None => Issued(web[r].session)
          /\ web[r].setSession \notin {"keep", None} => web[r].setSession = r /\ Issued(r)

\* A request that is not answered has no answer.
AnswersAtEnd ==
    \A r \in Requests :
        /\ web[r].pc \notin {"answered", "done"} =>
              /\ web[r].status = "none" /\ web[r].setCsrf = None /\ web[r].shows = None
        /\ web[r].pc = "create" => web[r].kind = "login"

\* The row of a logged out session is gone.
LoggedOutIsGone ==
    \A r \in Requests :
        web[r].kind = "logout" /\ web[r].status = "ok" => web[r].session \notin DOMAIN sessions

\* The clock does not run back, and a row that is about to be deleted has
\* expired.
TimesAreOrdered ==
    \A r \in Requests :
        /\ web[r].sentAt <= clock /\ web[r].now <= clock
        /\ web[r].pc = "lookup" => web[r].sentAt <= web[r].now
        /\ web[r].pc = "delete" /\ web[r].session \in DOMAIN sessions
              => sessions[web[r].session].expires_at <= clock

SessionInv ==
    /\ RowsAreOfLogins
    /\ TokensAreIssued
    /\ AnswersAtEnd
    /\ LoggedOutIsGone
    /\ TimesAreOrdered

\* A token is as good as its row says, or has had its time.
Backed(t) ==
    \/ t \in DOMAIN sessions
    \/ \E r \in Requests :
          /\ web[r].kind = "logout" /\ web[r].status \in {"ok", "error"}
          /\ web[r].session = t
    \/ web[t].now + TTL <= clock

\* So are the cookies of the browsers and those that are on their way.
CookieInv ==
    /\ \A b \in Browsers : jar[b].session # None => Backed(jar[b].session)
    /\ \A r \in Requests : web[r].setSession \notin {"keep", None} => Backed(r)

\* Request r of browser b is on its way.
IsInFlight(r) == web[r].pc \notin {"idle", "done"}

\* What a browser that never overlaps its requests shows and sends has the
\* token of its cookie.
CSRFInv ==
    /\ \A b \in Browsers \ overlapped : form[b] # None => form[b] = jar[b].csrf
    /\ \A r \in Requests :
          IsInFlight(r) =>
          /\ web[r].browser \in Browsers
          /\ web[r].browser \notin overlapped =>
                /\ \A q \in Requests \ {r} :
                      IsInFlight(q) => web[q].browser # web[r].browser
                /\ IsUnsafe(r) => web[r].provided = web[r].csrf /\ web[r].csrf # None
                /\ IF web[r].setCsrf = None
                   THEN /\ web[r].csrf = jar[web[r].browser].csrf
                        /\ web[r].shows \in {None, web[r].csrf}
                   ELSE /\ form[web[r].browser] = None
                        /\ web[r].shows \in {None, web[r].setCsrf}
    /\ SequentialBrowsersAreNotForbidden

\* The inductive invariant.
IInv ==
    /\ TypeOK
    /\ InstallInv
    /\ SessionInv
    /\ CookieInv
    /\ CSRFInv

-----------------------------------------------------------------------------
(***************************************************************************)
(* The initial states.                                                     *)
(***************************************************************************)
LEMMA InitCorrect == Init => IInv
<1> SUFFICES ASSUME Init PROVE IInv
  OBVIOUS
<1>1. InstallTypeOK /\ InstallInv
  BY InstallInitCorrect DEF Init
<1>2. NotSent \in WebRequest
  BY DEF NotSent, WebRequest, Token, Kinds
<1>3. /\ clock = 0 /\ DOMAIN sessions = {} /\ overlapped = {}
      /\ sessions \in [DOMAIN sessions -> [expires_at : Nat]]
      /\ jar \in [Browsers -> [session : Token, csrf : Token]]
      /\ \A b \in Browsers : jar[b].session = None /\ jar[b].csrf = None
      /\ form \in [Browsers -> Token] /\ \A b \in Browsers : form[b] = None
  BY DEF Init, Token
<1>4. web \in [Requests -> WebRequest] /\ \A r \in Requests : web[r] = NotSent
  BY <1>2 DEF Init
<1>5. \A r \in Requests :
          /\ web[r].pc = "idle" /\ web[r].status = "none" /\ web[r].session = None
          /\ web[r].setSession = "keep" /\ web[r].setCsrf = None /\ web[r].shows = None
          /\ web[r].kind = "none" /\ web[r].sentAt = 0 /\ web[r].now = 0
  BY <1>4 DEF NotSent
<1>6. TypeOK
  BY <1>1, <1>3, <1>4 DEF TypeOK
<1>7. SessionInv
  BY <1>3, <1>5 DEF SessionInv, RowsAreOfLogins, TokensAreIssued, AnswersAtEnd,
     LoggedOutIsGone, TimesAreOrdered
<1>8. CookieInv
  BY <1>3, <1>5 DEF CookieInv
<1>9. CSRFInv
  BY <1>3, <1>5 DEF CSRFInv, IsInFlight, SequentialBrowsersAreNotForbidden
<1> QED BY <1>1, <1>6, <1>7, <1>8, <1>9 DEF IInv

-----------------------------------------------------------------------------
(***************************************************************************)
(* What a step of the server does to its request and to the sessions.      *)
(***************************************************************************)

\* Request r advances.
Advances(r) ==
    LET w == web[r]
        x == web'[r]
    IN  /\ web' \in [Requests -> WebRequest]
        /\ \A q \in Requests \ {r} : web'[q] = web[q]
        /\ w.pc \in {"session", "lookup", "delete", "handler", "create"}
        /\ x.pc \in {"lookup", "delete", "handler", "create", "answered"}
        /\ x.kind = w.kind /\ x.browser = w.browser /\ x.session = w.session
        /\ x.provided = w.provided /\ x.sentAt = w.sentAt
        /\ x.now = w.now \/ (x.now = clock /\ w.pc \in {"session", "handler"})
        /\ x.pc = "create" => x.kind = "login"
        /\ x.pc = "lookup" => x.now = clock
        /\ x.pc = "delete" => HasExpired(r) /\ w.session \in DOMAIN sessions /\ x.now = w.now
        /\ x.user /\ ~w.user =>
              w.pc = "lookup" /\ w.session \in DOMAIN sessions /\ ~HasExpired(r)

\* Its answer, with the token for the forms of the browser.
GetsToken(r) ==
    LET w == web[r]
        x == web'[r]
    IN  /\ x.pc # "answered" =>
              /\ x.csrf = w.csrf /\ x.setCsrf = w.setCsrf
              /\ x.shows = w.shows /\ x.status = w.status
        /\ x.pc = "answered" =>
              IF w.csrf = None
              THEN x.csrf = r /\ x.setCsrf = r /\ x.shows \in {w.shows, None, r}
              ELSE x.csrf = w.csrf /\ x.setCsrf = w.setCsrf /\ x.shows \in {w.shows, w.csrf}
        /\ x.status = "forbidden" => w.status = "forbidden" \/ ~CSRFAccepts(r)

SessionBegins(r) ==
    /\ web[r].pc = "create" /\ web'[r].pc = "answered" /\ web'[r].now = web[r].now
    /\ DOMAIN sessions' = DOMAIN sessions \cup {r}
    /\ sessions'[r] = [expires_at |-> web[r].now + TTL]
    /\ \A t \in DOMAIN sessions \ {r} : sessions'[t] = sessions[t]

SessionEnds(r) ==
    /\ DOMAIN sessions' = DOMAIN sessions \ {web[r].session}
    /\ \A t \in DOMAIN sessions' : sessions'[t] = sessions[t]
    /\ \/ web[r].pc = "delete"
       \/ /\ web[r].pc = "handler" /\ web[r].kind = "logout"
          /\ web'[r].status \in {"ok", "error"}

\* The sessions, and the cookie in the answer.
GetsSession(r) ==
    /\ \/ sessions' = sessions
       \/ SessionBegins(r)
       \/ SessionEnds(r)
    /\ sessions' \in [DOMAIN sessions' -> [expires_at : Nat]]
    /\ \/ web'[r].setSession \in {web[r].setSession, None}
       \/ web'[r].setSession = r /\ SessionBegins(r)
    /\ web'[r].kind = "logout" /\ web'[r].status = "ok" =>
           web[r].status = "ok" \/ (web[r].pc = "create" /\ web'[r].pc = "answered")
              \/ web[r].session \notin DOMAIN sessions'

ServeEffect(r) ==
    /\ UNCHANGED <<installVars, clock, jar, form, overlapped>>
    /\ Advances(r)
    /\ GetsToken(r)
    /\ GetsSession(r)

LEMMA WithTokenFields ==
    ASSUME TypeOK, NEW r \in Requests
    PROVE  LET w == web[r]
               x == WithToken(r)
           IN  /\ x \in WebRequest
               /\ x.kind = w.kind /\ x.browser = w.browser /\ x.session = w.session
               /\ x.provided = w.provided /\ x.sentAt = w.sentAt /\ x.now = w.now
               /\ x.user = w.user /\ x.setSession = w.setSession /\ x.shows = w.shows
               /\ x.csrf = IF w.csrf = None THEN r ELSE w.csrf
               /\ x.setCsrf = IF w.csrf = None THEN r ELSE w.setCsrf
<1>1. web[r] \in WebRequest
  BY DEF TypeOK
<1>2. CASE web[r].csrf = None
  <2>1. PICK w \in WebRequest : w = web[r]
    BY <1>1
  <2> DEFINE x == [w EXCEPT !.csrf = r, !.setCsrf = r]
  <2>2. x \in WebRequest
    BY DEF WebRequest, Token
  <2>3. /\ x.kind = w.kind /\ x.browser = w.browser /\ x.session = w.session
        /\ x.provided = w.provided /\ x.sentAt = w.sentAt /\ x.now = w.now
        /\ x.user = w.user /\ x.setSession = w.setSession /\ x.shows = w.shows
        /\ x.csrf = r /\ x.setCsrf = r
    BY DEF WebRequest
  <2>4. WithToken(r) = x
    BY <1>2, <2>1 DEF WithToken
  <2> HIDE DEF x
  <2> QED BY <1>2, <2>1, <2>2, <2>3, <2>4
<1>3. CASE web[r].csrf # None
  BY <1>1, <1>3 DEF WithToken
<1> QED BY <1>2, <1>3

\* What Step leaves to be said of the record that it takes.
LEMMA StepFields ==
    ASSUME TypeOK, NEW r \in Requests, NEW pc, NEW x \in WebRequest, Step(r, pc, x)
    PROVE  /\ web[r].pc = pc /\ web'[r] = x
           /\ web' \in [Requests -> WebRequest]
           /\ \A q \in Requests \ {r} : web'[q] = web[q]
           /\ UNCHANGED <<installVars, clock, jar, form, overlapped>>
BY DEF Step, TypeOK

LEMMA AnswerFields ==
    ASSUME TypeOK, NEW r \in Requests,
           NEW status \in {"ok", "unauthorized", "forbidden", "redirect", "error"}
    PROVE  LET w == web[r]
               x == Answer(r, status)
           IN  /\ x \in WebRequest
               /\ x.pc = "answered" /\ x.status = status
               /\ x.kind = w.kind /\ x.browser = w.browser /\ x.session = w.session
               /\ x.provided = w.provided /\ x.sentAt = w.sentAt /\ x.now = w.now
               /\ x.user = w.user /\ x.setSession = w.setSession /\ x.shows = w.shows
               /\ x.csrf = IF w.csrf = None THEN r ELSE w.csrf
               /\ x.setCsrf = IF w.csrf = None THEN r ELSE w.setCsrf
<1>1. PICK y \in WebRequest : y = WithToken(r)
  BY WithTokenFields
<1> DEFINE x == [y EXCEPT !.pc = "answered", !.status = status]
<1>2. x \in WebRequest
  BY DEF WebRequest
<1>3. /\ x.pc = "answered" /\ x.status = status
      /\ x.kind = y.kind /\ x.browser = y.browser /\ x.session = y.session
      /\ x.provided = y.provided /\ x.sentAt = y.sentAt /\ x.now = y.now
      /\ x.user = y.user /\ x.setSession = y.setSession /\ x.shows = y.shows
      /\ x.csrf = y.csrf /\ x.setCsrf = y.setCsrf
  BY DEF WebRequest
<1>4. Answer(r, status) = x
  BY <1>1 DEF Answer
<1> HIDE DEF x
<1> QED BY <1>1, <1>2, <1>3, <1>4, WithTokenFields

\* A step that is no answer and leaves the sessions alone.
LEMMA MoveHasEffect ==
    ASSUME TypeOK, NEW r \in Requests, NEW x \in WebRequest,
           NEW pc \in {"session", "lookup", "handler"}, Step(r, pc, x), sessions' = sessions,
           x.pc \in {"lookup", "delete", "handler", "create"},
           x.kind = web[r].kind, x.browser = web[r].browser, x.session = web[r].session,
           x.provided = web[r].provided, x.sentAt = web[r].sentAt,
           x.csrf = web[r].csrf, x.setCsrf = web[r].setCsrf, x.shows = web[r].shows,
           x.status = web[r].status, x.setSession \in {web[r].setSession, None},
           x.now = web[r].now \/ (x.now = clock /\ pc \in {"session", "handler"}),
           x.pc = "create" => x.kind = "login",
           x.pc = "lookup" => x.now = clock,
           x.pc = "delete" => HasExpired(r) /\ x.session \in DOMAIN sessions /\ x.now = web[r].now,
           x.user /\ ~web[r].user =>
               pc = "lookup" /\ x.session \in DOMAIN sessions /\ ~HasExpired(r)
    PROVE  ServeEffect(r)
<1>1. /\ web[r].pc = pc /\ web'[r] = x
      /\ web' \in [Requests -> WebRequest]
      /\ \A q \in Requests \ {r} : web'[q] = web[q]
      /\ UNCHANGED <<installVars, clock, jar, form, overlapped>>
  BY StepFields
<1>2. Advances(r)
  BY <1>1 DEF Advances
<1>3. GetsToken(r)
  BY <1>1 DEF GetsToken
<1>4. GetsSession(r)
  BY <1>1 DEF GetsSession, TypeOK
<1> QED BY <1>1, <1>2, <1>3, <1>4 DEF ServeEffect

\* The request goes on without its session.
WithoutCookie(r) == [web[r] EXCEPT !.pc = "handler", !.setSession = None]

LEMMA WithoutCookieFields ==
    ASSUME TypeOK, NEW r \in Requests
    PROVE  LET w == web[r]
               x == WithoutCookie(r)
           IN  /\ x \in WebRequest /\ x.pc = "handler" /\ x.now = w.now
               /\ x.kind = w.kind /\ x.browser = w.browser /\ x.session = w.session
               /\ x.provided = w.provided /\ x.sentAt = w.sentAt
               /\ x.csrf = w.csrf /\ x.setCsrf = w.setCsrf /\ x.shows = w.shows
               /\ x.status = w.status /\ x.user = w.user /\ x.setSession = None
<1>1. PICK w \in WebRequest : w = web[r]
  BY DEF TypeOK
<1> DEFINE x == [w EXCEPT !.pc = "handler", !.setSession = None]
<1>2. x \in WebRequest
  <2>1. PICK z \in WebRequest : z = [w EXCEPT !.pc = "handler"]
    BY DEF WebRequest
  <2>2. x = [z EXCEPT !.setSession = None]
    BY <2>1 DEF WebRequest
  <2>3. [z EXCEPT !.setSession = None] \in WebRequest
    BY DEF WebRequest, Token
  <2> QED BY <2>2, <2>3
<1>3. /\ x.pc = "handler" /\ x.now = w.now
      /\ x.kind = w.kind /\ x.browser = w.browser /\ x.session = w.session
      /\ x.provided = w.provided /\ x.sentAt = w.sentAt
      /\ x.csrf = w.csrf /\ x.setCsrf = w.setCsrf /\ x.shows = w.shows
      /\ x.status = w.status /\ x.user = w.user /\ x.setSession = None
  BY DEF WebRequest
<1>4. WithoutCookie(r) = x
  BY <1>1 DEF WithoutCookie
<1> HIDE DEF x
<1> QED BY <1>1, <1>2, <1>3, <1>4

LEMMA MiddlewareHasEffect ==
    ASSUME TypeOK, NEW r \in Requests,
           \/ NoCookie(r) \/ ReadTime(r) \/ FindSession(r) \/ FindExpired(r)
           \/ FindNothing(r) \/ LoginAccepts(r)
    PROVE  ServeEffect(r)
<1>1. web[r] \in WebRequest /\ clock \in Nat
  BY DEF TypeOK
<1> DEFINE Same(x) ==
        /\ x.kind = web[r].kind /\ x.browser = web[r].browser /\ x.session = web[r].session
        /\ x.provided = web[r].provided /\ x.sentAt = web[r].sentAt
        /\ x.csrf = web[r].csrf /\ x.setCsrf = web[r].setCsrf /\ x.shows = web[r].shows
        /\ x.status = web[r].status
<1>2. CASE NoCookie(r)
  <2> DEFINE x == [web[r] EXCEPT !.pc = "handler"]
  <2>1. /\ x \in WebRequest /\ Same(x) /\ x.pc = "handler" /\ x.now = web[r].now
        /\ x.user = web[r].user /\ x.setSession = web[r].setSession
    BY <1>1 DEF WebRequest
  <2>2. Step(r, "session", x) /\ sessions' = sessions
    BY <1>2 DEF NoCookie
  <2> HIDE DEF x
  <2> QED BY <2>1, <2>2, MoveHasEffect
<1>3. CASE ReadTime(r)
  <2> DEFINE x == [web[r] EXCEPT !.pc = "lookup", !.now = clock]
  <2>1. /\ x \in WebRequest /\ Same(x) /\ x.pc = "lookup" /\ x.now = clock
        /\ x.user = web[r].user /\ x.setSession = web[r].setSession
    BY <1>1 DEF WebRequest
  <2>2. Step(r, "session", x) /\ sessions' = sessions
    BY <1>3 DEF ReadTime
  <2> HIDE DEF x
  <2> QED BY <2>1, <2>2, MoveHasEffect
<1>4. CASE FindSession(r)
  <2> DEFINE x == [web[r] EXCEPT !.pc = "handler", !.user = TRUE]
  <2>1. /\ x \in WebRequest /\ Same(x) /\ x.pc = "handler" /\ x.now = web[r].now
        /\ x.setSession = web[r].setSession
    BY <1>1 DEF WebRequest
  <2>2. /\ Step(r, "lookup", x) /\ sessions' = sessions
        /\ web[r].session \in DOMAIN sessions /\ ~HasExpired(r)
    BY <1>4 DEF FindSession
  <2> HIDE DEF x
  <2> QED BY <2>1, <2>2, MoveHasEffect
<1>5. CASE FindExpired(r)
  <2> DEFINE x == [web[r] EXCEPT !.pc = "delete"]
  <2>1. /\ x \in WebRequest /\ Same(x) /\ x.pc = "delete" /\ x.now = web[r].now
        /\ x.user = web[r].user /\ x.setSession = web[r].setSession
    BY <1>1 DEF WebRequest
  <2>2. /\ Step(r, "lookup", x) /\ sessions' = sessions
        /\ web[r].session \in DOMAIN sessions /\ HasExpired(r)
    BY <1>5 DEF FindExpired
  <2> HIDE DEF x
  <2> QED BY <2>1, <2>2, MoveHasEffect
<1>6. CASE FindNothing(r)
  <2> DEFINE x == WithoutCookie(r)
  <2>1. /\ x \in WebRequest /\ Same(x) /\ x.pc = "handler" /\ x.now = web[r].now
        /\ x.user = web[r].user /\ x.setSession = None
    BY WithoutCookieFields
  <2>2. Step(r, "lookup", x) /\ sessions' = sessions
    BY <1>6 DEF FindNothing, WithoutCookie
  <2> HIDE DEF x
  <2> QED BY <2>1, <2>2, MoveHasEffect
<1>7. CASE LoginAccepts(r)
  <2> DEFINE x == [web[r] EXCEPT !.pc = "create", !.now = clock]
  <2>1. /\ x \in WebRequest /\ Same(x) /\ x.pc = "create" /\ x.now = clock
        /\ x.user = web[r].user /\ x.setSession = web[r].setSession
    BY <1>1 DEF WebRequest
  <2>2. Step(r, "handler", x) /\ sessions' = sessions /\ web[r].kind = "login"
    BY <1>7 DEF LoginAccepts, Reaches
  <2> HIDE DEF x
  <2> QED BY <2>1, <2>2, MoveHasEffect
<1> QED BY <1>2, <1>3, <1>4, <1>5, <1>6, <1>7

LEMMA DeleteExpiredHasEffect ==
    ASSUME TypeOK, NEW r \in Requests, DeleteExpired(r)
    PROVE  ServeEffect(r)
<1> DEFINE x == WithoutCookie(r)
<1>2. /\ x \in WebRequest /\ x.pc = "handler" /\ x.now = web[r].now
      /\ x.kind = web[r].kind /\ x.browser = web[r].browser /\ x.session = web[r].session
      /\ x.provided = web[r].provided /\ x.sentAt = web[r].sentAt
      /\ x.csrf = web[r].csrf /\ x.setCsrf = web[r].setCsrf /\ x.shows = web[r].shows
      /\ x.status = web[r].status /\ x.user = web[r].user /\ x.setSession = None
  BY WithoutCookieFields
<1>3. Step(r, "delete", x)
  BY DEF DeleteExpired, WithoutCookie
<1> HIDE DEF x
<1>4. /\ web[r].pc = "delete" /\ web'[r] = x
      /\ web' \in [Requests -> WebRequest]
      /\ \A q \in Requests \ {r} : web'[q] = web[q]
      /\ UNCHANGED <<installVars, clock, jar, form, overlapped>>
  BY <1>2, <1>3, StepFields
<1>5. SessionEnds(r) \/ sessions' = sessions
  BY <1>4 DEF DeleteExpired, Delete, SessionEnds
<1>6. sessions' \in [DOMAIN sessions' -> [expires_at : Nat]]
  BY DEF DeleteExpired, Delete, TypeOK
<1>7. web[r].kind = "logout" /\ web'[r].status = "ok" => web[r].status = "ok"
  BY <1>2, <1>4
<1>8. Advances(r)
  BY <1>2, <1>4 DEF Advances
<1>9. GetsToken(r)
  BY <1>2, <1>4 DEF GetsToken
<1>10. GetsSession(r)
  BY <1>2, <1>4, <1>5, <1>6, <1>7 DEF GetsSession
<1> QED BY <1>4, <1>8, <1>9, <1>10 DEF ServeEffect

\* An answer, with what it says of the sessions and of the forms.
LEMMA AnswerHasEffect ==
    ASSUME TypeOK, NEW r \in Requests, NEW x \in WebRequest, NEW pc \in {"handler", "create"},
           NEW status \in {"ok", "unauthorized", "forbidden", "redirect", "error"},
           Step(r, pc, x), x.pc = "answered", x.status = status,
           x.kind = web[r].kind, x.browser = web[r].browser, x.session = web[r].session,
           x.provided = web[r].provided, x.sentAt = web[r].sentAt, x.now = web[r].now,
           x.user = web[r].user,
           x.csrf = IF web[r].csrf = None THEN r ELSE web[r].csrf,
           x.setCsrf = IF web[r].csrf = None THEN r ELSE web[r].setCsrf,
           x.shows \in {web[r].shows, web[r].csrf, x.csrf},
           status = "forbidden" => ~CSRFAccepts(r),
           GetsSession(r)
    PROVE  ServeEffect(r)
<1>1. /\ web[r].pc = pc /\ web'[r] = x
      /\ web' \in [Requests -> WebRequest]
      /\ \A q \in Requests \ {r} : web'[q] = web[q]
      /\ UNCHANGED <<installVars, clock, jar, form, overlapped>>
  BY StepFields
<1>2. Advances(r)
  BY <1>1 DEF Advances
<1>3. GetsToken(r)
  BY <1>1 DEF GetsToken
<1> QED BY <1>1, <1>2, <1>3 DEF ServeEffect

LEMMA HandlerHasEffect ==
    ASSUME TypeOK, NEW r \in Requests,
           \/ RejectCSRF(r) \/ RedirectToLogin(r) \/ ServePage(r) \/ ServeButton(r)
           \/ ServeFails(r) \/ LoginRejects(r)
           \/ LogoutFails(r) /\ UNCHANGED sessions
    PROVE  ServeEffect(r)
<1>1. PICK status \in {"ok", "unauthorized", "forbidden", "redirect", "error"},
           shows \in {web[r].shows, web[r].csrf, WithToken(r).csrf} :
          /\ \/ Step(r, "handler", Answer(r, status))
             \/ Step(r, "handler", [Answer(r, status) EXCEPT !.shows = shows])
          /\ sessions' = sessions
          /\ status = "ok" => web[r].kind # "logout"
          /\ status = "forbidden" => ~CSRFAccepts(r)
  <2>1. CASE RejectCSRF(r)
    BY <2>1 DEF RejectCSRF
  <2>2. CASE RedirectToLogin(r)
    BY <2>2 DEF RedirectToLogin
  <2>3. CASE ServePage(r)
    BY <2>3 DEF ServePage, Reaches
  <2>4. CASE ServeButton(r)
    BY <2>4 DEF ServeButton, Reaches
  <2>5. CASE LoginRejects(r)
    BY <2>5 DEF LoginRejects
  <2>6. CASE LogoutFails(r) /\ UNCHANGED sessions
    BY <2>6 DEF LogoutFails
  <2>7. CASE ServeFails(r)
    BY <2>7 DEF ServeFails, Reaches
  <2> QED BY <2>1, <2>2, <2>3, <2>4, <2>5, <2>6, <2>7
<1>2. PICK y \in WebRequest : y = Answer(r, status)
  BY AnswerFields
<1>3. shows \in Token
  BY WithTokenFields DEF TypeOK, WebRequest, Token
<1>4. PICK x \in {y, [y EXCEPT !.shows = shows]} : Step(r, "handler", x)
  BY <1>1, <1>2
<1>5. /\ x \in WebRequest /\ x.pc = y.pc /\ x.status = y.status
      /\ x.kind = y.kind /\ x.browser = y.browser /\ x.session = y.session
      /\ x.provided = y.provided /\ x.sentAt = y.sentAt /\ x.now = y.now
      /\ x.user = y.user /\ x.setSession = y.setSession
      /\ x.csrf = y.csrf /\ x.setCsrf = y.setCsrf
      /\ x.shows \in {y.shows, shows}
  BY <1>3 DEF WebRequest
<1>6. /\ x.pc = "answered" /\ x.status = status
      /\ x.kind = web[r].kind /\ x.browser = web[r].browser /\ x.session = web[r].session
      /\ x.provided = web[r].provided /\ x.sentAt = web[r].sentAt /\ x.now = web[r].now
      /\ x.user = web[r].user /\ x.setSession = web[r].setSession
      /\ x.csrf = IF web[r].csrf = None THEN r ELSE web[r].csrf
      /\ x.setCsrf = IF web[r].csrf = None THEN r ELSE web[r].setCsrf
      /\ x.shows \in {web[r].shows, shows} /\ WithToken(r).csrf = x.csrf
  BY <1>2, <1>5, AnswerFields, WithTokenFields
<1>7. web'[r] = x
  BY <1>4, <1>5, StepFields
<1>8. GetsSession(r)
  BY <1>1, <1>6, <1>7 DEF GetsSession, TypeOK
<1> QED BY <1>1, <1>4, <1>5, <1>6, <1>8, AnswerHasEffect

LEMMA CreateSessionHasEffect ==
    ASSUME TypeOK, NEW r \in Requests, CreateSession(r) \/ CreateSessionFails(r)
    PROVE  ServeEffect(r)
<1>1. PICK status \in {"ok", "error"} : \E x :
          /\ x = IF status = "ok" THEN [Answer(r, status) EXCEPT !.setSession = r]
                                  ELSE [Answer(r, status) EXCEPT !.shows = web[r].csrf]
          /\ Step(r, "create", x)
          /\ CreateSession(r) \/ (status = "error" /\ CreateSessionFails(r))
  BY DEF CreateSession, CreateSessionFails
<1>2. PICK y \in WebRequest : y = Answer(r, status)
  BY AnswerFields
<1> DEFINE x == IF status = "ok" THEN [y EXCEPT !.setSession = r]
                                 ELSE [y EXCEPT !.shows = web[r].csrf]
<1>3. web[r] \in WebRequest
  BY DEF TypeOK
<1>4. /\ x \in WebRequest /\ x.pc = y.pc /\ x.status = y.status
      /\ x.kind = y.kind /\ x.browser = y.browser /\ x.session = y.session
      /\ x.provided = y.provided /\ x.sentAt = y.sentAt /\ x.now = y.now
      /\ x.user = y.user /\ x.csrf = y.csrf /\ x.setCsrf = y.setCsrf
      /\ x.shows \in {y.shows, web[r].csrf}
      /\ x.setSession = IF status = "ok" THEN r ELSE y.setSession
  BY <1>3 DEF WebRequest, Token
<1>5. Step(r, "create", x)
  BY <1>1, <1>2
<1> HIDE DEF x
<1>6. /\ x.pc = "answered" /\ x.status = status
      /\ x.kind = web[r].kind /\ x.browser = web[r].browser /\ x.session = web[r].session
      /\ x.provided = web[r].provided /\ x.sentAt = web[r].sentAt /\ x.now = web[r].now
      /\ x.user = web[r].user /\ (status = "ok" \/ x.setSession = web[r].setSession)
      /\ status = "ok" => x.setSession = r
      /\ x.csrf = IF web[r].csrf = None THEN r ELSE web[r].csrf
      /\ x.setCsrf = IF web[r].csrf = None THEN r ELSE web[r].setCsrf
      /\ x.shows \in {web[r].shows, web[r].csrf}
  BY <1>2, <1>4, AnswerFields
<1>7. web[r].pc = "create" /\ web'[r] = x
  BY <1>4, <1>5, StepFields
<1>8. \/ status = "error" /\ sessions' = sessions
      \/ sessions' = [t \in DOMAIN sessions \cup {r} |->
                        IF t = r THEN [expires_at |-> web[r].now + TTL] ELSE sessions[t]]
  BY <1>1 DEF CreateSession, CreateSessionFails
<1>9. GetsSession(r)
  <2>1. CASE status = "error" /\ sessions' = sessions
    BY <1>6, <1>7, <2>1 DEF GetsSession, TypeOK
  <2>2. CASE sessions' = [t \in DOMAIN sessions \cup {r} |->
                        IF t = r THEN [expires_at |-> web[r].now + TTL] ELSE sessions[t]]
    <3>1. DOMAIN sessions' = DOMAIN sessions \cup {r}
      BY <2>2
    <3>2. SessionBegins(r)
      BY <1>6, <1>7, <2>2 DEF SessionBegins
    <3>3. web[r].now + TTL \in Nat
      BY <1>3, TimesAssumption DEF WebRequest
    <3>4. sessions' \in [DOMAIN sessions' -> [expires_at : Nat]]
      BY <2>2, <3>1, <3>3 DEF TypeOK
    <3> QED BY <1>6, <1>7, <3>2, <3>4 DEF GetsSession
  <2> QED BY <1>8, <2>1, <2>2
<1> QED BY <1>4, <1>5, <1>6, <1>9, AnswerHasEffect

LEMMA LogoutHasEffect ==
    ASSUME TypeOK, NEW r \in Requests,
           Logout(r) \/ (LogoutFails(r) /\ Delete(web[r].session))
    PROVE  ServeEffect(r)
<1>0. PICK status \in {"ok", "error"} :
         \/ status = "ok" /\ Step(r, "handler", [Answer(r, status) EXCEPT !.setSession = None])
         \/ status = "error" /\ Step(r, "handler", Answer(r, status))
  BY DEF Logout, LogoutFails
<1>1. PICK y \in WebRequest : y = Answer(r, status)
  BY AnswerFields
<1> DEFINE x == IF status = "ok" THEN [y EXCEPT !.setSession = None] ELSE y
<1>2. /\ x \in WebRequest /\ x.pc = y.pc /\ x.status = y.status
      /\ x.kind = y.kind /\ x.browser = y.browser /\ x.session = y.session
      /\ x.provided = y.provided /\ x.sentAt = y.sentAt /\ x.now = y.now
      /\ x.user = y.user /\ x.csrf = y.csrf /\ x.setCsrf = y.setCsrf
      /\ x.shows = y.shows
      /\ x.setSession = IF status = "ok" THEN None ELSE y.setSession
  BY DEF WebRequest, Token
<1>3. Step(r, "handler", x) /\ web[r].kind = "logout"
  BY <1>0, <1>1 DEF Logout, LogoutFails, Reaches
<1> HIDE DEF x
<1>4. /\ x.pc = "answered" /\ x.status = status
      /\ x.kind = web[r].kind /\ x.browser = web[r].browser /\ x.session = web[r].session
      /\ x.provided = web[r].provided /\ x.sentAt = web[r].sentAt /\ x.now = web[r].now
      /\ x.user = web[r].user
      /\ x.csrf = IF web[r].csrf = None THEN r ELSE web[r].csrf
      /\ x.setCsrf = IF web[r].csrf = None THEN r ELSE web[r].setCsrf
      /\ x.shows = web[r].shows
      /\ x.setSession \in {web[r].setSession, None}
  BY <1>1, <1>2, AnswerFields
<1>5. web[r].pc = "handler" /\ web'[r] = x
  BY <1>2, <1>3, StepFields
<1>6. /\ DOMAIN sessions' = DOMAIN sessions \ {web[r].session}
      /\ \A t \in DOMAIN sessions' : sessions'[t] = sessions[t]
      /\ sessions' \in [DOMAIN sessions' -> [expires_at : Nat]]
  BY DEF Logout, Delete, TypeOK
<1>7. SessionEnds(r)
  BY <1>3, <1>4, <1>5, <1>6 DEF SessionEnds
<1>8. GetsSession(r)
  BY <1>4, <1>5, <1>6, <1>7 DEF GetsSession
<1> QED BY <1>2, <1>3, <1>4, <1>8, AnswerHasEffect

LEMMA ServeHasEffect ==
    ASSUME TypeOK, NEW r \in Requests, Serve(r)
    PROVE  ServeEffect(r)
<1>1. LogoutFails(r) => UNCHANGED sessions \/ Delete(web[r].session)
  BY DEF LogoutFails
<1> QED BY <1>1, MiddlewareHasEffect, DeleteExpiredHasEffect, HandlerHasEffect,
           CreateSessionHasEffect, LogoutHasEffect DEF Serve

-----------------------------------------------------------------------------
(***************************************************************************)
(* The steps of the server keep the invariant.                             *)
(***************************************************************************)

\* A token that was handed out stays what it is.
LEMMA ServeKeepsIssued ==
    ASSUME TypeOK, NEW r \in Requests, ServeEffect(r)
    PROVE  \A t \in Requests : Issued(t) => Issued(t)' /\ web'[t].now = web[t].now
<1> SUFFICES ASSUME NEW t \in Requests, Issued(t)
             PROVE  Issued(t)' /\ web'[t].now = web[t].now
  OBVIOUS
<1>1. t # r
  BY DEF Issued, ServeEffect, Advances
<1> QED BY <1>1 DEF Issued, ServeEffect, Advances

LEMMA ServeKeepsType ==
    ASSUME TypeOK, NEW r \in Requests, ServeEffect(r)
    PROVE  TypeOK'
<1>1. InstallTypeOK'
  BY DEF ServeEffect, installVars, tables, TypeOK, InstallTypeOK
<1>2. DOMAIN sessions' \subseteq Requests /\ sessions' \in [DOMAIN sessions' -> [expires_at : Nat]]
  BY DEF ServeEffect, GetsSession, SessionBegins, SessionEnds, TypeOK
<1> QED BY <1>1, <1>2 DEF ServeEffect, Advances, TypeOK

LEMMA ServeKeepsSessionInv ==
    ASSUME TypeOK, SessionInv, NEW r \in Requests, ServeEffect(r)
    PROVE  SessionInv'
<1>1. /\ web[r].pc \in {"session", "lookup", "delete", "handler", "create"}
      /\ web'[r].pc \in {"lookup", "delete", "handler", "create", "answered"}
      /\ web'[r].kind = web[r].kind /\ web'[r].session = web[r].session
      /\ web'[r].sentAt = web[r].sentAt
      /\ \A q \in Requests \ {r} : web'[q] = web[q]
      /\ UNCHANGED <<clock, jar, form, overlapped>>
  BY DEF ServeEffect, Advances
<1>2. \A t \in Requests : Issued(t) => Issued(t)' /\ web'[t].now = web[t].now
  BY ServeKeepsIssued
<1>3. ~Issued(r) /\ r \notin DOMAIN sessions /\ DOMAIN sessions \subseteq Requests
  BY <1>1 DEF Issued, SessionInv, RowsAreOfLogins, TypeOK
<1>4. RowsAreOfLogins'
  <2>1. CASE sessions' = sessions
    BY <1>2, <1>3, <2>1 DEF SessionInv, RowsAreOfLogins
  <2>2. CASE SessionBegins(r)
    <3>1. Issued(r)' /\ sessions'[r].expires_at = web'[r].now + TTL
      BY <1>1, <2>2 DEF SessionBegins, Issued, SessionInv, AnswersAtEnd
    <3>2. \A t \in DOMAIN sessions :
             Issued(t)' /\ sessions'[t].expires_at = web'[t].now + TTL
      BY <1>2, <1>3, <2>2 DEF SessionBegins, SessionInv, RowsAreOfLogins
    <3> QED BY <2>2, <3>1, <3>2 DEF SessionBegins, RowsAreOfLogins
  <2>3. CASE SessionEnds(r)
    BY <1>2, <1>3, <2>3 DEF SessionEnds, SessionInv, RowsAreOfLogins
  <2> QED BY <2>1, <2>2, <2>3 DEF ServeEffect, GetsSession
<1>5. \A q \in Requests : web[q].session \in Requests \cup {None}
  BY DEF TypeOK, WebRequest, Token
<1>6. TokensAreIssued'
  <2>1. \A b \in Browsers : jar'[b].session # None => Issued(jar[b].session)'
    BY <1>1, <1>2 DEF SessionInv, TokensAreIssued, TypeOK, Token
  <2>2. \A q \in Requests : web'[q].session # None => Issued(web[q].session)'
    BY <1>1, <1>2, <1>5 DEF SessionInv, TokensAreIssued
  <2>3. \A q \in Requests \ {r} :
           web'[q].setSession \notin {"keep", None} => web'[q].setSession = q /\ Issued(q)'
    BY <1>1, <1>2 DEF SessionInv, TokensAreIssued
  <2>4. web'[r].setSession \notin {"keep", None} => web'[r].setSession = r /\ Issued(r)'
    <3>1. CASE web'[r].setSession \in {web[r].setSession, None}
      BY <1>3, <3>1 DEF SessionInv, TokensAreIssued
    <3>2. CASE web'[r].setSession = r /\ SessionBegins(r)
      BY <1>1, <3>2 DEF SessionBegins, Issued, SessionInv, AnswersAtEnd
    <3> QED BY <3>1, <3>2 DEF ServeEffect, GetsSession
  <2> QED BY <2>1, <2>2, <2>3, <2>4 DEF TokensAreIssued
<1>7. AnswersAtEnd'
  BY <1>1 DEF SessionInv, AnswersAtEnd, ServeEffect, Advances, GetsToken
<1>8. LoggedOutIsGone'
  <2>1. \A q \in Requests \ {r} :
           web'[q].kind = "logout" /\ web'[q].status = "ok" => web'[q].session \notin DOMAIN sessions'
    <3> SUFFICES ASSUME NEW q \in Requests \ {r}, web[q].kind = "logout", web[q].status = "ok"
                 PROVE  web[q].session \notin DOMAIN sessions'
      BY <1>1
    <3>1. web[q].session \notin DOMAIN sessions /\ web[q].session # r
      BY <1>3, NoneAccountsAssumption DEF SessionInv, LoggedOutIsGone, TokensAreIssued
    <3> QED BY <3>1 DEF ServeEffect, GetsSession, SessionBegins, SessionEnds
  <2>2. web'[r].kind = "logout" /\ web'[r].status = "ok" => web'[r].session \notin DOMAIN sessions'
    BY <1>1 DEF SessionInv, AnswersAtEnd, ServeEffect, GetsSession
  <2> QED BY <2>1, <2>2 DEF LoggedOutIsGone
<1>9. TimesAreOrdered'
  <2> SUFFICES ASSUME NEW q \in Requests
               PROVE  /\ web'[q].sentAt <= clock /\ web'[q].now <= clock
                      /\ web'[q].pc = "lookup" => web'[q].sentAt <= web'[q].now
                      /\ web'[q].pc = "delete" /\ web'[q].session \in DOMAIN sessions'
                            => sessions'[web'[q].session].expires_at <= clock
    BY <1>1 DEF TimesAreOrdered
  <2>1. /\ web[q].sentAt <= clock /\ web[q].now <= clock /\ clock \in Nat
        /\ web[q].sentAt \in Nat /\ web[q].now \in Nat
        /\ web[q].pc = "lookup" => web[q].sentAt <= web[q].now
        /\ web[q].pc = "delete" /\ web[q].session \in DOMAIN sessions
              => sessions[web[q].session].expires_at <= clock
    BY DEF SessionInv, TimesAreOrdered, TypeOK, WebRequest
  <2>2. \A t \in DOMAIN sessions \cap DOMAIN sessions' : sessions'[t] = sessions[t]
    BY <1>3 DEF ServeEffect, GetsSession, SessionBegins, SessionEnds
  <2>3. web[q].session # r
    BY <1>3, NoneAccountsAssumption DEF SessionInv, TokensAreIssued
  <2>4. web[q].session \in DOMAIN sessions' => web[q].session \in DOMAIN sessions
    BY <2>3 DEF ServeEffect, GetsSession, SessionBegins, SessionEnds
  <2>5. CASE q # r
    BY <1>1, <2>1, <2>2, <2>4, <2>5
  <2>6. CASE q = r
    <3>1. /\ web'[r].now = web[r].now \/ web'[r].now = clock
          /\ web'[r].pc = "lookup" => web'[r].now = clock
      BY DEF ServeEffect, Advances
    <3>2. web'[r].pc = "delete" =>
             web[r].session \in DOMAIN sessions /\ sessions[web[r].session].expires_at <= web[r].now
      BY DEF ServeEffect, Advances, HasExpired
    <3>3. \A t \in DOMAIN sessions : sessions[t].expires_at \in Nat
      BY DEF TypeOK
    <3>4. /\ web'[r].sentAt <= clock /\ web'[r].now <= clock
          /\ web'[r].pc = "lookup" => web'[r].sentAt <= web'[r].now
      BY <1>1, <2>1, <2>6, <3>1
    <3>5. web'[r].pc = "delete" /\ web'[r].session \in DOMAIN sessions'
             => sessions'[web'[r].session].expires_at <= clock
      BY <1>1, <2>1, <2>2, <2>6, <3>2, <3>3
    <3> QED BY <2>6, <3>4, <3>5
  <2> QED BY <2>5, <2>6
<1> QED BY <1>4, <1>6, <1>7, <1>8, <1>9 DEF SessionInv

\* The only ends of a session: its expiry, and its own logout.
LEMMA ServeEndsForAReason ==
    ASSUME TypeOK, SessionInv, NEW r \in Requests, ServeEffect(r),
           NEW t \in DOMAIN sessions \ DOMAIN sessions'
    PROVE  \/ sessions[t].expires_at <= clock
           \/ /\ web[r].kind = "logout" /\ web[r].session = t
              /\ web'[r].status \in {"ok", "error"}
<1>1. SessionEnds(r) /\ web[r].session = t
  BY DEF ServeEffect, GetsSession, SessionBegins, SessionEnds
<1> QED BY <1>1 DEF SessionEnds, SessionInv, TimesAreOrdered

LEMMA ServeKeepsCookieInv ==
    ASSUME TypeOK, SessionInv, CookieInv, NEW r \in Requests, ServeEffect(r)
    PROVE  CookieInv'
<1>1. /\ web[r].pc \in {"session", "lookup", "delete", "handler", "create"}
      /\ web'[r].kind = web[r].kind /\ web'[r].session = web[r].session
      /\ \A q \in Requests \ {r} : web'[q] = web[q]
      /\ UNCHANGED <<clock, jar, form, overlapped>>
  BY DEF ServeEffect, Advances
<1>2. \A t \in Requests : Issued(t) /\ Backed(t) => Backed(t)'
  <2> SUFFICES ASSUME NEW t \in Requests, Issued(t), Backed(t) PROVE Backed(t)'
    OBVIOUS
  <2>1. web'[t].now = web[t].now
    BY ServeKeepsIssued
  <2>2. CASE t \in DOMAIN sessions
    <3>1. sessions[t].expires_at = web[t].now + TTL
      BY <2>2 DEF SessionInv, RowsAreOfLogins
    <3>2. CASE t \in DOMAIN sessions'
      BY <3>2 DEF Backed
    <3>3. CASE t \notin DOMAIN sessions'
      BY <1>1, <2>1, <2>2, <3>1, <3>3, ServeEndsForAReason DEF Backed
    <3> QED BY <3>2, <3>3
  <2>3. CASE \E q \in Requests :
                /\ web[q].kind = "logout" /\ web[q].status \in {"ok", "error"}
                /\ web[q].session = t
    BY <1>1, <2>3 DEF Backed, SessionInv, AnswersAtEnd
  <2>4. CASE web[t].now + TTL <= clock
    BY <1>1, <2>1, <2>4 DEF Backed
  <2> QED BY <2>2, <2>3, <2>4 DEF Backed
<1>3. \A b \in Browsers : jar'[b].session # None => Backed(jar[b].session)'
  BY <1>1, <1>2 DEF CookieInv, SessionInv, TokensAreIssued, TypeOK, Token
<1>4. \A q \in Requests \ {r} : web'[q].setSession \notin {"keep", None} => Backed(q)'
  BY <1>1, <1>2 DEF CookieInv, SessionInv, TokensAreIssued
<1>5. web'[r].setSession \notin {"keep", None} => Backed(r)'
  <2>1. CASE web'[r].setSession \in {web[r].setSession, None}
    BY <1>1, <2>1 DEF SessionInv, TokensAreIssued, Issued
  <2>2. CASE SessionBegins(r)
    BY <2>2 DEF SessionBegins, Backed
  <2> QED BY <2>1, <2>2 DEF ServeEffect, GetsSession
<1> QED BY <1>1, <1>3, <1>4, <1>5 DEF CookieInv

LEMMA ServeKeepsCSRFInv ==
    ASSUME TypeOK, SessionInv, CSRFInv, NEW r \in Requests, ServeEffect(r)
    PROVE  CSRFInv'
<1>1. /\ web[r].pc \in {"session", "lookup", "delete", "handler", "create"}
      /\ web'[r].pc \in {"lookup", "delete", "handler", "create", "answered"}
      /\ web'[r].kind = web[r].kind /\ web'[r].browser = web[r].browser
      /\ web'[r].provided = web[r].provided
      /\ \A q \in Requests \ {r} : web'[q] = web[q]
      /\ UNCHANGED <<clock, jar, form, overlapped>>
  BY DEF ServeEffect, Advances
<1>2. /\ web[r].status = "none" /\ web[r].setCsrf = None /\ web[r].shows = None
      /\ IsInFlight(r) /\ IsInFlight(r)' /\ IsUnsafe(r)' = IsUnsafe(r)
      /\ \A q \in Requests : IsInFlight(q)' = IsInFlight(q)
  BY <1>1 DEF SessionInv, AnswersAtEnd, IsInFlight, IsUnsafe
<1> DEFINE b == web[r].browser
<1>3. /\ b \in Browsers
      /\ b \notin overlapped =>
            /\ \A q \in Requests \ {r} : IsInFlight(q) => web[q].browser # b
            /\ IsUnsafe(r) => web[r].provided = web[r].csrf /\ web[r].csrf # None
            /\ web[r].csrf = jar[b].csrf
            /\ form[b] # None => form[b] = jar[b].csrf
  BY <1>2 DEF CSRFInv
<1>4. b \notin overlapped =>
         /\ IsUnsafe(r) => web'[r].provided = web'[r].csrf /\ web'[r].csrf # None
         /\ IF web'[r].setCsrf = None
            THEN web'[r].csrf = jar[b].csrf /\ web'[r].shows \in {None, web'[r].csrf}
            ELSE form[b] = None /\ web'[r].shows \in {None, web'[r].setCsrf}
  <2>1. CASE web'[r].pc # "answered"
    BY <1>1, <1>2, <1>3, <2>1 DEF ServeEffect, GetsToken
  <2>2. CASE web'[r].pc = "answered" /\ web[r].csrf = None
    BY <1>1, <1>2, <1>3, <2>2, NoneAccountsAssumption DEF ServeEffect, GetsToken
  <2>3. CASE web'[r].pc = "answered" /\ web[r].csrf # None
    BY <1>1, <1>2, <1>3, <2>3 DEF ServeEffect, GetsToken
  <2> QED BY <2>1, <2>2, <2>3
<1>5. web'[r].status = "forbidden" => b \in overlapped
  <2> SUFFICES ASSUME web'[r].status = "forbidden", b \notin overlapped PROVE FALSE
    OBVIOUS
  <2>1. ~CSRFAccepts(r)
    BY <1>2 DEF ServeEffect, GetsToken
  <2>2. IsUnsafe(r) /\ web[r].provided # WithToken(r).csrf
    BY <2>1 DEF CSRFAccepts
  <2> QED BY <1>3, <2>2, WithTokenFields
<1>6. SequentialBrowsersAreNotForbidden'
  BY <1>1, <1>5 DEF CSRFInv, SequentialBrowsersAreNotForbidden
<1> HIDE DEF b
<1>7. ASSUME NEW q \in Requests, IsInFlight(q)'
      PROVE  /\ web'[q].browser \in Browsers
             /\ web'[q].browser \notin overlapped =>
                   /\ \A s \in Requests \ {q} :
                         IsInFlight(s)' => web'[s].browser # web'[q].browser
                   /\ IsUnsafe(q)' => web'[q].provided = web'[q].csrf /\ web'[q].csrf # None
                   /\ IF web'[q].setCsrf = None
                      THEN /\ web'[q].csrf = jar[web'[q].browser].csrf
                           /\ web'[q].shows \in {None, web'[q].csrf}
                      ELSE /\ form[web'[q].browser] = None
                           /\ web'[q].shows \in {None, web'[q].setCsrf}
  <2>1. \A s \in Requests : web'[s].browser = web[s].browser /\ (IsInFlight(s)' => IsInFlight(s))
    BY <1>1, <1>2
  <2>2. web'[q].browser \notin overlapped =>
           \A s \in Requests \ {q} : IsInFlight(s)' => web'[s].browser # web'[q].browser
    BY <1>7, <2>1 DEF CSRFInv
  <2>3. CASE q = r
    BY <1>1, <1>2, <1>3, <1>4, <2>2, <2>3 DEF b
  <2>4. CASE q # r
    <3>1. web'[q] = web[q] /\ IsInFlight(q) /\ IsUnsafe(q)' = IsUnsafe(q)
      BY <1>1, <1>7, <2>1, <2>4 DEF IsUnsafe
    <3> QED BY <2>2, <3>1 DEF CSRFInv
  <2> QED BY <2>3, <2>4
<1> QED BY <1>1, <1>6, <1>7 DEF CSRFInv

-----------------------------------------------------------------------------
(***************************************************************************)
(* So do the steps of the browsers, and the clock.                         *)
(***************************************************************************)
LEMMA OverType ==
    ASSUME NEW y \in WebRequest, NEW browser \in Browsers \cup {None},
           NEW kind \in Kinds \cup {"none"}, NEW session \in Token, NEW now \in Nat,
           NEW status \in {"none", "ok", "unauthorized", "forbidden", "redirect", "error"}
    PROVE  [y EXCEPT !.pc = "done", !.status = status, !.browser = browser,
                     !.kind = kind, !.session = session, !.now = now] \in WebRequest
<1> DEFINE z1 == [y EXCEPT !.pc = "done"]
           z2 == [z1 EXCEPT !.status = status]
           z3 == [z2 EXCEPT !.browser = browser]
           z4 == [z3 EXCEPT !.kind = kind]
           z5 == [z4 EXCEPT !.session = session]
<1>1. z1 \in WebRequest
  BY DEF WebRequest
<1>2. ASSUME NEW z \in WebRequest PROVE [z EXCEPT !.status = status] \in WebRequest
  BY DEF WebRequest
<1>3. ASSUME NEW z \in WebRequest PROVE [z EXCEPT !.browser = browser] \in WebRequest
  BY DEF WebRequest
<1>4. ASSUME NEW z \in WebRequest PROVE [z EXCEPT !.kind = kind] \in WebRequest
  BY DEF WebRequest
<1>5. ASSUME NEW z \in WebRequest PROVE [z EXCEPT !.session = session] \in WebRequest
  BY DEF WebRequest
<1>6. ASSUME NEW z \in WebRequest PROVE [z EXCEPT !.now = now] \in WebRequest
  BY DEF WebRequest
<1>7. [z5 EXCEPT !.now = now] \in WebRequest
  BY <1>1, <1>2, <1>3, <1>4, <1>5, <1>6
<1>8. [y EXCEPT !.pc = "done", !.status = status, !.browser = browser,
                !.kind = kind, !.session = session, !.now = now]
      = [z5 EXCEPT !.now = now]
  BY DEF WebRequest
<1> QED BY <1>7, <1>8

LEMMA PastFields ==
    ASSUME NEW q \in WebRequest
    PROVE  LET x == Past(q)
           IN  /\ x \in WebRequest
               /\ x.pc = "done" /\ x.status = q.status
               /\ x.browser = IF q.status = "forbidden" THEN q.browser ELSE None
               /\ x.kind = IF q.kind \in {"login", "logout"} THEN q.kind ELSE "none"
               /\ x.session = IF q.kind = "logout" THEN q.session ELSE None
               /\ x.now = IF q.kind = "login" THEN q.now ELSE 0
               /\ x.sentAt = 0 /\ x.setSession = "keep" /\ ~x.user
<1> DEFINE browser == IF q.status = "forbidden" THEN q.browser ELSE None
           kind == IF q.kind \in {"login", "logout"} THEN q.kind ELSE "none"
           session == IF q.kind = "logout" THEN q.session ELSE None
           now == IF q.kind = "login" THEN q.now ELSE 0
           status == q.status
<1>1. /\ browser \in Browsers \cup {None} /\ kind \in Kinds \cup {"none"}
      /\ session \in Token /\ now \in Nat
      /\ status \in {"none", "ok", "unauthorized", "forbidden", "redirect", "error"}
  BY DEF WebRequest, Kinds, Token
<1>2. PICK y \in WebRequest : y = NotSent
  BY DEF NotSent, WebRequest, Token, Kinds
<1>3. y.sentAt = 0 /\ y.setSession = "keep" /\ y.user = FALSE
  BY <1>2 DEF NotSent
<1> HIDE DEF browser, kind, session, now, status
<1> DEFINE x == [y EXCEPT !.pc = "done", !.status = status, !.browser = browser,
                          !.kind = kind, !.session = session, !.now = now]
<1>4. x \in WebRequest
  BY <1>1, OverType, ZenonT(60)
<1>5. /\ x.pc = "done" /\ x.status = status /\ x.browser = browser /\ x.kind = kind
      /\ x.session = session /\ x.now = now /\ x.sentAt = y.sentAt
      /\ x.setSession = y.setSession /\ x.user = y.user
  BY DEF WebRequest
<1>6. Past(q) = x
  BY <1>2 DEF Past, browser, kind, session, now, status
<1> HIDE DEF x
<1> QED BY <1>3, <1>4, <1>5, <1>6 DEF browser, kind, session, now, status

\* Request r is over: what is remembered of it is as it was.
LEMMA OverFields ==
    ASSUME TypeOK, NEW r \in Requests, web' = [web EXCEPT ![r] = Past(@)]
    PROVE  LET w == web[r]
               x == web'[r]
           IN  /\ web' \in [Requests -> WebRequest]
               /\ \A q \in Requests \ {r} : web'[q] = web[q]
               /\ x.pc = "done" /\ x.status = w.status
               /\ x.browser = IF w.status = "forbidden" THEN w.browser ELSE None
               /\ x.kind = IF w.kind \in {"login", "logout"} THEN w.kind ELSE "none"
               /\ x.session = IF w.kind = "logout" THEN w.session ELSE None
               /\ x.now = IF w.kind = "login" THEN w.now ELSE 0
               /\ x.sentAt = 0 /\ x.setSession = "keep" /\ ~x.user
<1>1. PICK y \in WebRequest : y = Past(web[r])
  BY PastFields DEF TypeOK
<1>2. web' = [web EXCEPT ![r] = y]
  BY <1>1
<1>3. web' \in [Requests -> WebRequest] /\ web'[r] = y /\ \A q \in Requests \ {r} : web'[q] = web[q]
  BY <1>2 DEF TypeOK
<1>4. web[r] \in WebRequest
  BY DEF TypeOK
<1> QED BY <1>1, <1>3, <1>4, PastFields

\* The answer is received or lost.
LEMMA OverKeepsSessionInv ==
    ASSUME TypeOK, SessionInv, CookieInv, NEW r \in Requests,
           web[r].pc \notin {"idle", "done"}, web' = [web EXCEPT ![r] = Past(@)],
           UNCHANGED <<clock, sessions, overlapped>>,
           \A b \in Browsers :
               \/ jar'[b].session = jar[b].session
               \/ jar'[b].session = web[r].setSession /\ web[r].setSession # "keep"
    PROVE  SessionInv' /\ CookieInv'
<1>1. /\ \A q \in Requests \ {r} : web'[q] = web[q]
      /\ web'[r].pc = "done" /\ web'[r].status = web[r].status
      /\ web'[r].kind = IF web[r].kind \in {"login", "logout"} THEN web[r].kind ELSE "none"
      /\ web'[r].session = IF web[r].kind = "logout" THEN web[r].session ELSE None
      /\ web'[r].now = IF web[r].kind = "login" THEN web[r].now ELSE 0
      /\ web'[r].sentAt = 0 /\ web'[r].setSession = "keep"
  BY OverFields
<1>2. \A t \in Requests : Issued(t) => Issued(t)' /\ web'[t].now = web[t].now
  BY <1>1 DEF Issued
<1>3. /\ DOMAIN sessions \subseteq Requests
      /\ \A b \in Browsers : jar[b].session \in Requests \cup {None}
      /\ \A q \in Requests : web[q].session \in Requests \cup {None}
  BY DEF TypeOK, WebRequest, Token
<1>4. RowsAreOfLogins'
  BY <1>2, <1>3 DEF SessionInv, RowsAreOfLogins
<1>5. TokensAreIssued'
  <2>1. \A b \in Browsers : jar'[b].session # None => Issued(jar[b].session)'
    <3> SUFFICES ASSUME NEW b \in Browsers, jar'[b].session # None
                 PROVE  jar'[b].session \in Requests /\ Issued(jar'[b].session)
      BY <1>2, <1>3 DEF Issued
    <3> QED BY <1>3 DEF SessionInv, TokensAreIssued
  <2>2. \A q \in Requests :
           /\ web'[q].session # None => Issued(web[q].session)'
           /\ web'[q].setSession \notin {"keep", None} => web'[q].setSession = q /\ Issued(q)'
    BY <1>1, <1>2, <1>3 DEF SessionInv, TokensAreIssued
  <2> QED BY <2>1, <2>2 DEF TokensAreIssued
<1>6. AnswersAtEnd' /\ LoggedOutIsGone'
  BY <1>1 DEF SessionInv, AnswersAtEnd, LoggedOutIsGone
<1>7. TimesAreOrdered'
  BY <1>1 DEF SessionInv, TimesAreOrdered, TypeOK
<1>8. SessionInv'
  BY <1>4, <1>5, <1>6, <1>7 DEF SessionInv
<1>9. \A t \in Requests : Issued(t) /\ Backed(t) => Backed(t)'
  BY <1>1, <1>2 DEF Backed
<1>10. \A b \in Browsers : jar'[b].session # None => Backed(jar[b].session)'
  <2> SUFFICES ASSUME NEW b \in Browsers, jar'[b].session # None
               PROVE  /\ jar'[b].session \in Requests
                      /\ Issued(jar'[b].session) /\ Backed(jar'[b].session)
    BY <1>9 DEF Backed
  <2> QED BY <1>3 DEF SessionInv, TokensAreIssued, CookieInv
<1>11. \A q \in Requests : web'[q].setSession \notin {"keep", None} => Backed(q)'
  BY <1>1, <1>9 DEF SessionInv, TokensAreIssued, CookieInv
<1> QED BY <1>8, <1>10, <1>11 DEF CookieInv

\* Requests that go on as they were are as right as they were.
LEMMA SameRequestsKeepCSRFInv ==
    ASSUME CSRFInv, UNCHANGED <<jar, form, overlapped>>, SequentialBrowsersAreNotForbidden',
           \A q \in Requests : IsInFlight(q)' =>
               IsInFlight(q) /\ web'[q] = web[q] /\ IsUnsafe(q)' = IsUnsafe(q)
    PROVE  CSRFInv'
<1>1. \A b \in Browsers \ overlapped' : form'[b] # None => form'[b] = jar'[b].csrf
  BY DEF CSRFInv
<1>2. ASSUME NEW q \in Requests, IsInFlight(q)'
      PROVE  /\ web'[q].browser \in Browsers
             /\ web'[q].browser \notin overlapped' =>
                   /\ \A s \in Requests \ {q} :
                         IsInFlight(s)' => web'[s].browser # web'[q].browser
                   /\ IsUnsafe(q)' => web'[q].provided = web'[q].csrf /\ web'[q].csrf # None
                   /\ IF web'[q].setCsrf = None
                      THEN /\ web'[q].csrf = jar'[web'[q].browser].csrf
                           /\ web'[q].shows \in {None, web'[q].csrf}
                      ELSE /\ form'[web'[q].browser] = None
                           /\ web'[q].shows \in {None, web'[q].setCsrf}
  BY <1>2 DEF CSRFInv
<1> QED BY <1>1, <1>2 DEF CSRFInv

LEMMA ReceiveKeepsInv ==
    ASSUME IInv, NEW r \in Requests, Receive(r)
    PROVE  TypeOK' /\ SessionInv' /\ CookieInv' /\ CSRFInv'
<1> DEFINE b == web[r].browser
           session == IF web[r].setSession = "keep" THEN jar[b].session ELSE web[r].setSession
           csrf == IF web[r].setCsrf = None THEN jar[b].csrf ELSE web[r].setCsrf
<1>1. /\ web[r].pc = "answered" /\ web' = [web EXCEPT ![r] = Past(@)]
      /\ UNCHANGED <<installVars, clock, sessions, overlapped>>
      /\ form' = [form EXCEPT ![b] = IF web[r].shows = None THEN @ ELSE web[r].shows]
  BY DEF Receive
<1>2. b \in Browsers /\ IsInFlight(r)
  BY <1>1 DEF IInv, CSRFInv, IsInFlight
<1>3. session \in Token /\ csrf \in Token
  BY <1>2 DEF IInv, TypeOK, WebRequest
<1>4. jar' = [jar EXCEPT ![b].session = session, ![b].csrf = csrf]
  BY DEF Receive
<1>5. /\ jar' \in [Browsers -> [session : Token, csrf : Token]]
      /\ jar'[b].session = session /\ jar'[b].csrf = csrf
      /\ \A c \in Browsers \ {b} : jar'[c] = jar[c]
  <2> HIDE DEF session, csrf, b
  <2> QED BY <1>2, <1>3, <1>4 DEF IInv, TypeOK
<1>6. /\ form' \in [Browsers -> Token]
      /\ form'[b] = IF web[r].shows = None THEN form[b] ELSE web[r].shows
      /\ \A c \in Browsers \ {b} : form'[c] = form[c]
  BY <1>1, <1>2 DEF IInv, TypeOK, WebRequest
<1>7. web' \in [Requests -> WebRequest] /\ \A q \in Requests \ {r} : web'[q] = web[q]
  BY <1>1, OverFields DEF IInv
<1>8. TypeOK'
  <2>1. InstallTypeOK'
    BY <1>1 DEF installVars, tables, IInv, TypeOK, InstallTypeOK
  <2> QED BY <1>1, <1>5, <1>6, <1>7, <2>1 DEF IInv, TypeOK
<1>9. SessionInv' /\ CookieInv'
  BY <1>1, <1>2, <1>5, OverKeepsSessionInv DEF IInv, IsInFlight
<1>10. CSRFInv'
  <2>1. b \notin overlapped =>
           /\ \A q \in Requests \ {r} : IsInFlight(q) => web[q].browser # b
           /\ form'[b] # None => form'[b] = jar'[b].csrf
    BY <1>2, <1>5, <1>6 DEF IInv, CSRFInv
  <2>2. \A c \in Browsers \ overlapped : form'[c] # None => form'[c] = jar'[c].csrf
    BY <1>5, <1>6, <2>1 DEF IInv, CSRFInv
  <2>3. web'[r].pc = "done" /\ web'[r].status = web[r].status
        /\ (web[r].status = "forbidden" => web'[r].browser = web[r].browser)
    BY <1>1, OverFields DEF IInv
  <2>4. SequentialBrowsersAreNotForbidden'
    BY <1>1, <1>7, <2>3 DEF IInv, CSRFInv, SequentialBrowsersAreNotForbidden
  <2>5. \A q \in Requests : IsInFlight(q)' =>
           q # r /\ IsInFlight(q) /\ web'[q] = web[q] /\ IsUnsafe(q)' = IsUnsafe(q)
    BY <1>7, <2>3 DEF IsInFlight, IsUnsafe
  <2>6. ASSUME NEW q \in Requests, IsInFlight(q)'
        PROVE  /\ web'[q].browser \in Browsers
               /\ web'[q].browser \notin overlapped' =>
                     /\ \A s \in Requests \ {q} :
                           IsInFlight(s)' => web'[s].browser # web'[q].browser
                     /\ IsUnsafe(q)' => web'[q].provided = web'[q].csrf /\ web'[q].csrf # None
                     /\ IF web'[q].setCsrf = None
                        THEN /\ web'[q].csrf = jar'[web'[q].browser].csrf
                             /\ web'[q].shows \in {None, web'[q].csrf}
                        ELSE /\ form'[web'[q].browser] = None
                             /\ web'[q].shows \in {None, web'[q].setCsrf}
    <3>1. q # r /\ IsInFlight(q) /\ web'[q] = web[q] /\ web[q].browser \in Browsers
      BY <2>5, <2>6 DEF IInv, CSRFInv
    <3>2. web[q].browser \notin overlapped =>
             /\ web[q].browser # b
             /\ jar'[web[q].browser] = jar[web[q].browser]
             /\ form'[web[q].browser] = form[web[q].browser]
      BY <1>5, <1>6, <2>1, <3>1
    <3> HIDE DEF b
    <3> QED BY <1>1, <2>5, <2>6, <3>1, <3>2 DEF IInv, CSRFInv
  <2> QED BY <1>1, <2>2, <2>4, <2>6 DEF CSRFInv
<1> QED BY <1>8, <1>9, <1>10

LEMMA LoseKeepsInv ==
    ASSUME IInv, NEW r \in Requests, Lose(r)
    PROVE  TypeOK' /\ SessionInv' /\ CookieInv' /\ CSRFInv'
<1>1. /\ web[r].pc \notin {"idle", "done"} /\ web' = [web EXCEPT ![r] = Past(@)]
      /\ UNCHANGED <<installVars, clock, sessions, jar, form, overlapped>>
  BY DEF Lose
<1>2. /\ web' \in [Requests -> WebRequest] /\ \A q \in Requests \ {r} : web'[q] = web[q]
      /\ web'[r].pc = "done" /\ web'[r].status = web[r].status
      /\ web[r].status = "forbidden" => web'[r].browser = web[r].browser
  BY <1>1, OverFields DEF IInv
<1>3. TypeOK'
  <2>1. InstallTypeOK'
    BY <1>1 DEF installVars, tables, IInv, TypeOK, InstallTypeOK
  <2> QED BY <1>1, <1>2, <2>1 DEF IInv, TypeOK
<1>4. SessionInv' /\ CookieInv'
  BY <1>1, OverKeepsSessionInv DEF IInv
<1>5. CSRFInv'
  <2>1. SequentialBrowsersAreNotForbidden'
    BY <1>1, <1>2 DEF IInv, CSRFInv, SequentialBrowsersAreNotForbidden
  <2>2. \A q \in Requests : IsInFlight(q)' =>
           IsInFlight(q) /\ web'[q] = web[q] /\ IsUnsafe(q)' = IsUnsafe(q)
    BY <1>2 DEF IsInFlight, IsUnsafe
  <2> QED BY <1>1, <2>1, <2>2, SameRequestsKeepCSRFInv DEF IInv, IsInFlight, IsUnsafe
<1> QED BY <1>3, <1>4, <1>5

LEMMA SentType ==
    ASSUME NEW w \in WebRequest, NEW b \in Browsers, NEW kind \in Kinds,
           NEW session \in Token, NEW csrf \in Token, NEW provided \in Token,
           NEW sentAt \in Nat
    PROVE  [w EXCEPT !.pc = "session", !.kind = kind, !.browser = b,
                     !.session = session, !.csrf = csrf, !.provided = provided,
                     !.sentAt = sentAt] \in WebRequest
<1> DEFINE z1 == [w EXCEPT !.pc = "session"]
           z2 == [z1 EXCEPT !.kind = kind]
           z3 == [z2 EXCEPT !.browser = b]
           z4 == [z3 EXCEPT !.session = session]
           z5 == [z4 EXCEPT !.csrf = csrf]
           z6 == [z5 EXCEPT !.provided = provided]
<1>1. z1 \in WebRequest
  BY DEF WebRequest
<1>2. ASSUME NEW z \in WebRequest PROVE [z EXCEPT !.kind = kind] \in WebRequest
  BY DEF WebRequest
<1>3. ASSUME NEW z \in WebRequest PROVE [z EXCEPT !.browser = b] \in WebRequest
  BY DEF WebRequest
<1>4. ASSUME NEW z \in WebRequest PROVE [z EXCEPT !.session = session] \in WebRequest
  BY DEF WebRequest
<1>5. ASSUME NEW z \in WebRequest PROVE [z EXCEPT !.csrf = csrf] \in WebRequest
  BY DEF WebRequest
<1>6. ASSUME NEW z \in WebRequest PROVE [z EXCEPT !.provided = provided] \in WebRequest
  BY DEF WebRequest
<1>7. ASSUME NEW z \in WebRequest PROVE [z EXCEPT !.sentAt = sentAt] \in WebRequest
  BY DEF WebRequest
<1>8. [z6 EXCEPT !.sentAt = sentAt] \in WebRequest
  BY <1>1, <1>2, <1>3, <1>4, <1>5, <1>6, <1>7
<1>9. [w EXCEPT !.pc = "session", !.kind = kind, !.browser = b, !.session = session,
                !.csrf = csrf, !.provided = provided, !.sentAt = sentAt]
      = [z6 EXCEPT !.sentAt = sentAt]
  BY DEF WebRequest
<1> QED BY <1>8, <1>9

LEMMA SendFields ==
    ASSUME TypeOK, NEW r \in Requests, NEW b \in Browsers, NEW kind \in Kinds, Send(r, b, kind)
    PROVE  LET x == web'[r]
           IN  /\ web' \in [Requests -> WebRequest]
               /\ \A q \in Requests \ {r} : web'[q] = web[q]
               /\ x.pc = "session" /\ x.kind = kind /\ x.browser = b
               /\ x.session = jar[b].session /\ x.csrf = jar[b].csrf
               /\ kind = "button" => x.provided = jar[b].csrf
               /\ kind \in {"login", "logout"} => x.provided = form[b]
               /\ x.sentAt = clock /\ x.now = web[r].now
               /\ x.setSession = web[r].setSession /\ x.setCsrf = web[r].setCsrf
               /\ x.shows = web[r].shows /\ x.status = web[r].status
               /\ x.user = web[r].user
<1> DEFINE session == jar[b].session
           csrf == jar[b].csrf
           provided == IF kind = "button" THEN jar[b].csrf
                       ELSE IF kind \in {"login", "logout"} THEN form[b] ELSE None
<1>1. session \in Token /\ csrf \in Token /\ provided \in Token /\ clock \in Nat
  BY DEF TypeOK, Token
<1>2. PICK w \in WebRequest : w = web[r]
  BY DEF TypeOK
<1>3. /\ kind = "button" => provided = jar[b].csrf
      /\ kind \in {"login", "logout"} => provided = form[b]
  OBVIOUS
<1> DEFINE x == [w EXCEPT !.pc = "session", !.kind = kind, !.browser = b,
                          !.session = session, !.csrf = csrf, !.provided = provided,
                          !.sentAt = clock]
<1>4. web' = [web EXCEPT ![r] = x]
  BY <1>2 DEF Send
<1> HIDE DEF session, csrf, provided
<1>5. x \in WebRequest
  BY <1>1, SentType
<1>6. /\ x.pc = "session" /\ x.kind = kind /\ x.browser = b
      /\ x.session = session /\ x.csrf = csrf /\ x.provided = provided
      /\ x.sentAt = clock /\ x.now = w.now
      /\ x.setSession = w.setSession /\ x.setCsrf = w.setCsrf
      /\ x.shows = w.shows /\ x.status = w.status /\ x.user = w.user
  BY DEF WebRequest
<1> HIDE DEF x
<1>7. web' \in [Requests -> WebRequest] /\ web'[r] = x /\ \A q \in Requests \ {r} : web'[q] = web[q]
  BY <1>4, <1>5 DEF TypeOK
<1> QED BY <1>2, <1>3, <1>6, <1>7 DEF session, csrf

LEMMA SendKeepsInv ==
    ASSUME IInv, NEW r \in Requests, NEW b \in Browsers, NEW kind \in Kinds, Send(r, b, kind)
    PROVE  TypeOK' /\ SessionInv' /\ CookieInv' /\ CSRFInv'
<1> TypeOK
  BY DEF IInv
<1>0. /\ web[r].pc = "idle"
      /\ kind \in {"button", "login", "logout"} => form[b] # None
      /\ UNCHANGED <<installVars, clock, sessions, jar, form>>
  BY DEF Send
<1>1. /\ web[r].pc = "idle" /\ web'[r].pc = "session"
      /\ web'[r].kind = kind /\ web'[r].browser = b
      /\ web'[r].session = jar[b].session /\ web'[r].csrf = jar[b].csrf
      /\ kind = "button" => web'[r].provided = jar[b].csrf
      /\ kind \in {"login", "logout"} => web'[r].provided = form[b]
      /\ web'[r].sentAt = clock /\ web'[r].now = web[r].now
      /\ web'[r].setSession = web[r].setSession /\ web'[r].setCsrf = web[r].setCsrf
      /\ web'[r].shows = web[r].shows /\ web'[r].status = web[r].status
      /\ \A q \in Requests \ {r} : web'[q] = web[q]
      /\ UNCHANGED <<installVars, clock, sessions, jar, form>>
  BY <1>0, SendFields
<1>2. /\ overlapped' \in SUBSET Browsers /\ overlapped \subseteq overlapped'
      /\ b \notin overlapped' => InFlight(b) = {}
  BY DEF Send, IInv, TypeOK
<1>3. TypeOK'
  <2>1. InstallTypeOK'
    BY <1>1 DEF installVars, tables, IInv, TypeOK, InstallTypeOK
  <2>2. web' \in [Requests -> WebRequest]
    BY SendFields DEF IInv
  <2> QED BY <1>1, <1>2, <2>1, <2>2 DEF IInv, TypeOK
<1>4. web[r].status = "none" /\ web[r].setCsrf = None /\ web[r].shows = None
  BY <1>1 DEF IInv, SessionInv, AnswersAtEnd
<1>5. /\ DOMAIN sessions \subseteq Requests /\ clock \in Nat
      /\ \A c \in Browsers : jar[c].session \in Requests \cup {None}
      /\ \A q \in Requests : web[q].session \in Requests \cup {None}
  BY DEF IInv, TypeOK, WebRequest, Token
<1>6. \A t \in Requests : Issued(t) => Issued(t)' /\ web'[t].now = web[t].now
  BY <1>1 DEF Issued
<1>7. SessionInv'
  <2>1. RowsAreOfLogins'
    BY <1>1, <1>5, <1>6 DEF IInv, SessionInv, RowsAreOfLogins
  <2>2. TokensAreIssued'
    BY <1>1, <1>5, <1>6 DEF IInv, SessionInv, TokensAreIssued
  <2>3. AnswersAtEnd' /\ LoggedOutIsGone'
    BY <1>1, <1>4 DEF IInv, SessionInv, AnswersAtEnd, LoggedOutIsGone
  <2>4. TimesAreOrdered'
    BY <1>1, <1>5 DEF IInv, SessionInv, TimesAreOrdered
  <2> QED BY <2>1, <2>2, <2>3, <2>4 DEF SessionInv
<1>8. CookieInv'
  <2>1. \A t \in Requests : Issued(t) /\ Backed(t) => Backed(t)'
    BY <1>1, <1>4, <1>6 DEF Backed
  <2> QED BY <1>1, <1>5, <2>1 DEF IInv, SessionInv, TokensAreIssued, CookieInv
<1>9. CSRFInv'
  <2>1. \A c \in Browsers \ overlapped' : form'[c] # None => form'[c] = jar'[c].csrf
    BY <1>1, <1>2 DEF IInv, CSRFInv
  <2>2. SequentialBrowsersAreNotForbidden'
    BY <1>1, <1>2, <1>4 DEF IInv, CSRFInv, SequentialBrowsersAreNotForbidden
  <2>3. b \notin overlapped' =>
           /\ \A q \in Requests : IsInFlight(q) => web[q].browser # b
           /\ form[b] # None => form[b] = jar[b].csrf
    BY <1>2 DEF InFlight, IsInFlight, IInv, CSRFInv
  <2>4. b \notin overlapped' /\ IsUnsafe(r)' => web'[r].provided = jar[b].csrf /\ jar[b].csrf # None
    BY <1>0, <1>1, <2>3 DEF IsUnsafe
  <2>5. \A q \in Requests \ {r} : IsInFlight(q)' = IsInFlight(q) /\ IsUnsafe(q)' = IsUnsafe(q)
    BY <1>1 DEF IsInFlight, IsUnsafe
  <2>6. ASSUME NEW q \in Requests, IsInFlight(q)'
        PROVE  /\ web'[q].browser \in Browsers
               /\ web'[q].browser \notin overlapped' =>
                     /\ \A s \in Requests \ {q} :
                           IsInFlight(s)' => web'[s].browser # web'[q].browser
                     /\ IsUnsafe(q)' => web'[q].provided = web'[q].csrf /\ web'[q].csrf # None
                     /\ IF web'[q].setCsrf = None
                        THEN /\ web'[q].csrf = jar'[web'[q].browser].csrf
                             /\ web'[q].shows \in {None, web'[q].csrf}
                        ELSE /\ form'[web'[q].browser] = None
                             /\ web'[q].shows \in {None, web'[q].setCsrf}
    <3>1. CASE q = r
      <4>1. b \notin overlapped' => \A s \in Requests \ {r} : IsInFlight(s)' => web'[s].browser # b
        BY <1>1, <2>3, <2>5
      <4> QED BY <1>1, <1>4, <2>4, <3>1, <4>1
    <3>2. CASE q # r
      <4>1. web'[q] = web[q] /\ IsInFlight(q) /\ web[q].browser \in Browsers
        BY <1>1, <2>5, <2>6, <3>2 DEF IInv, CSRFInv
      <4>2. web[q].browser \notin overlapped' => web[q].browser \notin overlapped /\ web[q].browser # b
        BY <1>2, <2>3, <4>1
      <4>3. web[q].browser \notin overlapped' =>
               \A s \in Requests \ {q} : IsInFlight(s)' => web'[s].browser # web[q].browser
        BY <1>1, <2>5, <4>1, <4>2 DEF IInv, CSRFInv
      <4> QED BY <1>1, <2>5, <2>6, <3>2, <4>1, <4>2, <4>3 DEF IInv, CSRFInv
    <3> QED BY <3>1, <3>2
  <2> QED BY <2>1, <2>2, <2>6 DEF CSRFInv
<1> QED BY <1>3, <1>7, <1>8, <1>9

LEMMA TickKeepsInv ==
    ASSUME IInv, Tick
    PROVE  TypeOK' /\ SessionInv' /\ CookieInv' /\ CSRFInv'
<1>1. clock' = clock + 1 /\ UNCHANGED <<installVars, sessions, jar, form, web, overlapped>>
  BY DEF Tick
<1>2. clock \in Nat /\ clock' \in Nat /\ clock <= clock'
  BY <1>1 DEF IInv, TypeOK
<1>3. \A q \in Requests : web[q] \in WebRequest
  BY DEF IInv, TypeOK
<1>4. TypeOK'
  <2>1. InstallTypeOK'
    BY <1>1 DEF installVars, tables, IInv, TypeOK, InstallTypeOK
  <2> QED BY <1>1, <1>2, <2>1 DEF IInv, TypeOK
<1>5. \A q \in Requests : Issued(q)' = Issued(q)
  BY <1>1 DEF Issued
<1>6. SessionInv'
  <2>1. RowsAreOfLogins' /\ TokensAreIssued' /\ AnswersAtEnd' /\ LoggedOutIsGone'
    BY <1>1 DEF IInv, SessionInv, RowsAreOfLogins, TokensAreIssued, AnswersAtEnd,
       LoggedOutIsGone, Issued
  <2>2. \A q \in Requests : web[q].sentAt \in Nat /\ web[q].now \in Nat
    BY <1>3 DEF WebRequest
  <2>3. \A t \in DOMAIN sessions : sessions[t].expires_at \in Nat
    BY DEF IInv, TypeOK
  <2>4. TimesAreOrdered'
    BY <1>1, <1>2, <2>2, <2>3 DEF IInv, SessionInv, TimesAreOrdered
  <2> QED BY <2>1, <2>4 DEF SessionInv
<1>7. CookieInv'
  <2>1. \A t \in Requests : Backed(t) => Backed(t)'
    BY <1>1, <1>2, <1>3, TimesAssumption DEF Backed, WebRequest
  <2>2. \A b \in Browsers : jar[b].session # None => jar[b].session \in Requests
    BY DEF IInv, TypeOK, Token
  <2> QED BY <1>1, <2>1, <2>2 DEF IInv, SessionInv, TokensAreIssued, CookieInv
<1>8. CSRFInv'
  <2>1. SequentialBrowsersAreNotForbidden'
    BY <1>1 DEF IInv, CSRFInv, SequentialBrowsersAreNotForbidden
  <2> QED BY <1>1, <2>1, SameRequestsKeepCSRFInv DEF IInv, IsInFlight, IsUnsafe
<1> QED BY <1>4, <1>6, <1>7, <1>8

\* A step of a command, and any step that is none of the others.
LEMMA CommandKeepsInv ==
    ASSUME IInv, UNCHANGED sessionVars, InstallTypeOK'
    PROVE  TypeOK' /\ SessionInv' /\ CookieInv' /\ CSRFInv'
<1>1. UNCHANGED <<clock, sessions, jar, form, web, overlapped>>
  BY DEF sessionVars
<1>2. TypeOK'
  BY <1>1 DEF IInv, TypeOK
<1>3. SessionInv'
  BY <1>1 DEF IInv, SessionInv, RowsAreOfLogins, TokensAreIssued, AnswersAtEnd,
     LoggedOutIsGone, TimesAreOrdered, Issued
<1>4. CookieInv'
  BY <1>1 DEF IInv, CookieInv, Backed
<1>5. CSRFInv'
  <2>1. SequentialBrowsersAreNotForbidden'
    BY <1>1 DEF IInv, CSRFInv, SequentialBrowsersAreNotForbidden
  <2> QED BY <1>1, <2>1, SameRequestsKeepCSRFInv DEF IInv, IsInFlight, IsUnsafe
<1> QED BY <1>2, <1>3, <1>4, <1>5

\* The kinds of steps there are.
LEMMA StepKinds ==
    ASSUME [Next]_vars
    PROVE  \/ UNCHANGED sessionVars /\ InstallStep
           \/ UNCHANGED installVars /\ Tick
           \/ UNCHANGED installVars /\ \E r \in Requests :
                 \/ Serve(r) \/ Receive(r) \/ Lose(r)
                 \/ \E b \in Browsers, kind \in Kinds : Send(r, b, kind)
<1>1. CASE UNCHANGED vars
  BY <1>1 DEF vars, InstallStep
<1>2. CASE \E p \in Processes : (ProcessStep(p) /\ UNCHANGED sessionVars) \/ StopServing(p)
  BY <1>2 DEF InstallStep, StopServing
<1>3. CASE Tick
  BY <1>3 DEF Tick
<1>4. ASSUME NEW r \in Requests,
             \/ Serve(r) \/ Receive(r) \/ Lose(r)
             \/ \E b \in Browsers, kind \in Kinds : Send(r, b, kind)
      PROVE  UNCHANGED installVars
  <2>1. CASE Serve(r)
    BY <2>1 DEF Serve, NoCookie, ReadTime, FindSession, FindExpired, FindNothing, DeleteExpired,
       RejectCSRF, RedirectToLogin, ServePage, ServeButton, LoginAccepts, LoginRejects,
       CreateSession, CreateSessionFails, Logout, LogoutFails, ServeFails, Step
  <2>2. CASE Receive(r) \/ Lose(r) \/ \E b \in Browsers, kind \in Kinds : Send(r, b, kind)
    BY <2>2 DEF Receive, Lose, Send
  <2> QED BY <1>4, <2>1, <2>2
<1>5. CASE Quiet
  BY <1>1, <1>5 DEF Quiet
<1> QED BY <1>1, <1>2, <1>3, <1>4, <1>5 DEF Next

LEMMA NextKeepsIInv ==
    ASSUME IInv, [Next]_vars
    PROVE  IInv'
<1> USE DEF IInv
<1>1. CASE UNCHANGED sessionVars /\ InstallStep
  <2>1. InstallTypeOK' /\ InstallInv'
    BY <1>1, InstallStepKeepsInv DEF TypeOK
  <2> QED BY <1>1, <2>1, CommandKeepsInv
<1>2. CASE UNCHANGED installVars
  <2> InstallInv'
    BY <1>2, InstallStepKeepsInv DEF InstallStep, TypeOK
  <2>1. CASE Tick
    BY <2>1, TickKeepsInv
  <2>2. ASSUME NEW r \in Requests, Serve(r) PROVE IInv'
    BY <2>2, ServeHasEffect, ServeKeepsType, ServeKeepsSessionInv, ServeKeepsCookieInv,
       ServeKeepsCSRFInv
  <2>3. ASSUME NEW r \in Requests, Receive(r) PROVE IInv'
    BY <2>3, ReceiveKeepsInv
  <2>4. ASSUME NEW r \in Requests, Lose(r) PROVE IInv'
    BY <2>4, LoseKeepsInv
  <2>5. ASSUME NEW r \in Requests, NEW b \in Browsers, NEW kind \in Kinds, Send(r, b, kind)
        PROVE  IInv'
    BY <2>5, SendKeepsInv
  <2>6. CASE UNCHANGED sessionVars
    BY <1>2, <2>6, CommandKeepsInv DEF TypeOK, InstallTypeOK, installVars, tables
  <2> QED BY <1>2, <2>1, <2>2, <2>3, <2>4, <2>5, <2>6, StepKinds
<1> QED BY <1>1, <1>2, StepKinds

-----------------------------------------------------------------------------
(***************************************************************************)
(* The theorems.                                                           *)
(***************************************************************************)

\* The inductive invariant holds in every reachable state.
THEOREM AccountsInvariant == Spec => []IInv
<1>1. IInv /\ [Next]_vars => IInv'
  BY NextKeepsIInv
<1> QED BY <1>1, InitCorrect, PTL DEF Spec

\* Type correctness.
THEOREM AccountsTypeCorrect == Spec => []TypeOK
BY AccountsInvariant, PTL DEF IInv

\* Any number of commands `init`, overlapping, killed or refused, leave no
\* installation or one whole one (Bootstrap in bootstrap.go).
THEOREM InstallationIsWhole == Spec => []OneWholeInstallation
<1>1. IInv => OneWholeInstallation
  BY DEF IInv, InstallInv
<1> QED BY <1>1, AccountsInvariant, PTL

\* The DSN that init prints is accepted, and "already initialized" means
\* that one is.
THEOREM InitTellsTheTruth == Spec => []RepliesAreTrue
<1>1. IInv => RepliesAreTrue
  BY DEF IInv, InstallInv
<1> QED BY <1>1, AccountsInvariant, PTL

\* Bootstrap and the server only ever run on a database whose migrations
\* have all been applied.
THEOREM MigrationsComeFirst == Spec => []SchemaFirst
<1>1. IInv => SchemaFirst
  BY DEF IInv, InstallInv
<1> QED BY <1>1, AccountsInvariant, PTL

\* The session cookie of a browser has a row, until that session was logged
\* out or has outlived its time.
THEOREM CookiesHaveRows == Spec => []CookiesAreBacked
<1>1. IInv => CookiesAreBacked
  BY DEF IInv, CookieInv, CookiesAreBacked, Backed, LogoutTried
<1> QED BY <1>1, AccountsInvariant, PTL

\* CSRFMiddleware refuses no form or button of a browser that sends one
\* request at a time.
THEOREM SequentialBrowsersPass == Spec => []SequentialBrowsersAreNotForbidden
<1>1. IInv => SequentialBrowsersAreNotForbidden
  BY DEF IInv, CSRFInv
<1> QED BY <1>1, AccountsInvariant, PTL

\* A request gets its user from a row that it found and that had not
\* expired at the time it had read.
LEMMA ServedWasFound ==
    ASSUME IInv, [Next]_vars, NEW r \in Requests, IsServedNow(r)
    PROVE  web[r].pc = "lookup" /\ web[r].session \in DOMAIN sessions /\ ~HasExpired(r)
<1> TypeOK
  BY DEF IInv
<1>1. CASE web' = web
  BY <1>1 DEF IsServedNow
<1>2. ASSUME NEW q \in Requests, Serve(q)
      PROVE  web[r].pc = "lookup" /\ web[r].session \in DOMAIN sessions /\ ~HasExpired(r)
  <2>1. Advances(q)
    BY <1>2, ServeHasEffect DEF ServeEffect
  <2>2. q = r
    BY <2>1 DEF Advances, IsServedNow
  <2> QED BY <2>1, <2>2 DEF Advances, IsServedNow
<1>3. ASSUME NEW q \in Requests, Receive(q) \/ Lose(q)
      PROVE  FALSE
  <2>1. web' = [web EXCEPT ![q] = Past(@)]
    BY <1>3 DEF Receive, Lose
  <2> QED BY <2>1, OverFields DEF IsServedNow
<1>4. ASSUME NEW q \in Requests, NEW b \in Browsers, NEW kind \in Kinds, Send(q, b, kind)
      PROVE  FALSE
  BY <1>4, SendFields DEF IsServedNow
<1> QED BY <1>1, <1>2, <1>3, <1>4, StepKinds DEF sessionVars, Tick

\* A session that was logged out authenticates no request afterwards.
THEOREM LogoutIsFinal == Spec => LoggedOutStaysOut
<1>1. ASSUME IInv, [Next]_vars
      PROVE  [\A r \in Requests : IsServedNow(r) => web[r].session \notin LoggedOut]_vars
  <2> SUFFICES ASSUME NEW r \in Requests, IsServedNow(r)
               PROVE  web[r].session \notin LoggedOut
    OBVIOUS
  <2> QED BY <1>1, ServedWasFound DEF LoggedOut, IInv, SessionInv, LoggedOutIsGone
<1> QED BY <1>1, AccountsInvariant, PTL DEF Spec, LoggedOutStaysOut

\* A request is only served under a session that had time left when the
\* browser sent it.
THEOREM ExpiryIsRespected == Spec => NotServedAfterExpiry
<1>1. ASSUME IInv, [Next]_vars
      PROVE  [\A r \in Requests :
                 IsServedNow(r) => web[r].sentAt < web[web[r].session].now + TTL]_vars
  <2> SUFFICES ASSUME NEW r \in Requests, IsServedNow(r)
               PROVE  web[r].sentAt < web[web[r].session].now + TTL
    OBVIOUS
  <2> DEFINE t == web[r].session
  <2>1. web[r].pc = "lookup" /\ t \in DOMAIN sessions /\ ~(sessions[t].expires_at <= web[r].now)
    BY <1>1, ServedWasFound DEF HasExpired
  <2>2. sessions[t].expires_at = web[t].now + TTL /\ web[r].sentAt <= web[r].now
    BY <1>1, <2>1 DEF IInv, SessionInv, RowsAreOfLogins, TimesAreOrdered
  <2>3. sessions[t].expires_at \in Nat /\ web[r].sentAt \in Nat /\ web[r].now \in Nat
    BY <1>1, <2>1 DEF IInv, TypeOK, WebRequest
  <2> HIDE DEF t
  <2>4. web[r].sentAt < web[t].now + TTL
    BY <2>1, <2>2, <2>3
  <2> QED BY <2>4 DEF t
<1> QED BY <1>1, AccountsInvariant, PTL DEF Spec, NotServedAfterExpiry

\* A session ends through its own logout or at the end of its lifetime.
THEOREM SessionsOnlyEndForAReason == Spec => SessionsEndForAReason
<1>1. ASSUME IInv, [Next]_vars
      PROVE  [\A t \in DOMAIN sessions \ DOMAIN sessions' :
                 \/ sessions[t].expires_at <= clock
                 \/ \E r \in Requests :
                       /\ web[r].kind = "logout" /\ web[r].session = t
                       /\ web'[r].status \in {"ok", "error"}]_vars
  <2> SUFFICES ASSUME NEW t \in DOMAIN sessions \ DOMAIN sessions'
               PROVE  \/ sessions[t].expires_at <= clock
                      \/ \E r \in Requests :
                            /\ web[r].kind = "logout" /\ web[r].session = t
                            /\ web'[r].status \in {"ok", "error"}
    OBVIOUS
  <2>1. PICK r \in Requests : Serve(r)
    BY <1>1, StepKinds DEF sessionVars, Tick, Receive, Lose, Send
  <2>2. ServeEffect(r)
    BY <1>1, <2>1, ServeHasEffect DEF IInv
  <2> QED BY <1>1, <2>2, ServeEndsForAReason DEF IInv
<1> QED BY <1>1, AccountsInvariant, PTL DEF Spec, SessionsEndForAReason
=============================================================================
