------------------------------ MODULE Lifecycle ------------------------------
(***************************************************************************)
(* The life of the server process: cmd/api/main.go, NewServer and the      *)
(* script of CreateTables.  It starts, brings the database's schema up,    *)
(* serves, is told to stop by a signal, lets its requests finish for five  *)
(* seconds and exits; it may be started again.                             *)
(*                                                                         *)
(* The script is one call of Exec, which PostgreSQL runs by itself: when   *)
(* the process is killed meanwhile, the script may go on or be abandoned.  *)
(* It is over by the time of the next start.  A database is the set of the *)
(* schema's parts that it holds.  A request takes as long as it likes.     *)
(***************************************************************************)
EXTENDS Naturals, Sequences

CONSTANTS Requests,    \* requests that may be in progress at a time
          Databases    \* what the database may hold before the first start

TableParts == {"tables", "constraints", "root"}
Functions  == {"functions", "NotificationFetch"}
Schema     == TableParts \cup Functions
\* A unique key on "User".email is no part of the script.
Parts      == Schema \cup {"email_key"}

ASSUME DatabasesAssumption == Databases \subseteq SUBSET Parts

\* The statements in their order.  Those after END are one transaction, too.
Script == << "BEGIN", "CREATE_TABLES", "ADD_CONSTRAINTS", "INSERT_root", "END",
             "CREATE_FUNCTIONS", "DROP_NotificationFetch",
             "CREATE_NotificationFetch" >>

\* ADD CONSTRAINT knows no IF NOT EXISTS, ON CONFLICT (email) needs a unique key
\* on the column, and this DROP FUNCTION says no IF EXISTS.
Runs(s, d) ==
    /\ s = "ADD_CONSTRAINTS" => "constraints" \notin d
    /\ s = "INSERT_root" => "email_key" \in d
    /\ s = "DROP_NotificationFetch" => "NotificationFetch" \in d

\* A fault: quoted, the name keeps its capitals, and the function is another one
\* than those that the script drops and the handler calls.
Effect_QuotesName(s, d) ==
    CASE s = "CREATE_TABLES"            -> d \cup {"tables"}
      [] s = "ADD_CONSTRAINTS"          -> d \cup {"constraints"}
      [] s = "INSERT_root"              -> d \cup {"root"}
      [] s = "CREATE_FUNCTIONS"         -> d \cup {"functions"}
      [] s = "DROP_NotificationFetch"   -> d \ {"NotificationFetch"}
      [] s = "CREATE_NotificationFetch" -> d \cup {"quoted NotificationFetch"}
      [] OTHER                          -> d

\* What statement s makes of database d.
Effect(s, d) ==
    CASE s = "CREATE_TABLES"            -> d \cup {"tables"}
      [] s = "ADD_CONSTRAINTS"          -> d \cup {"constraints"}
      [] s = "INSERT_root"              -> d \cup {"root"}
      [] s = "CREATE_FUNCTIONS"         -> d \cup {"functions"}
      [] s = "DROP_NotificationFetch"   -> d \ {"NotificationFetch"}
      [] s = "CREATE_NotificationFetch" -> d \cup {"NotificationFetch"}
      [] OTHER                          -> d

VARIABLES
    db,          \* what the database holds, committed
    next,        \* the statement the script is at, or 0 if it is not running
    work,        \* what the database holds for the script's transaction
    main,        \* where the main goroutine is
    shutter,     \* where gracefulShutdown is
    active,      \* requests in progress
    done,        \* the channel done holds a value
    exit,        \* how the last process ended
    timedOut,    \* Shutdown's five seconds ran out (history)
    cut          \* requests that main's return cut short (history)

database == <<db, next, work>>
history  == <<exit, timedOut, cut>>
vars     == <<database, main, shutter, active, done, history>>

Init ==
    /\ db \in Databases
    /\ next = 0
    /\ work = {}
    /\ main = "exited"
    /\ shutter = "none"
    /\ active = {}
    /\ done = FALSE
    /\ exit = "none"
    /\ timedOut = FALSE
    /\ cut = {}

\* The process ends in manner m, and its goroutines with it.
Exit(m) ==
    /\ main' = "exited"
    /\ shutter' = "none"
    /\ active' = {}
    /\ done' = FALSE
    /\ exit' = m

-----------------------------------------------------------------------------
\* Start.

Start ==
    /\ main = "exited"
    /\ next = 0
    /\ main' = "connect"
    /\ exit' = "none"
    /\ timedOut' = FALSE
    /\ cut' = {}
    /\ UNCHANGED <<database, shutter, active, done>>

\* GetDBConn opens the first connection; CheckTables reports an empty database
\* whatever it holds, and CreateTables sends the script.
Connect ==
    /\ main = "connect"
    /\ main' = "script"
    /\ next' = 1
    /\ work' = db
    /\ UNCHANGED <<db, shutter, active, done, history>>

ConnectFails ==
    /\ main = "connect"
    /\ Exit("log.Fatal")
    /\ UNCHANGED <<database, timedOut, cut>>

Statement == Script[next]

ScriptEnds == /\ next' = 0
              /\ work' = {}

\* A fault: each statement is sent, and committed, by itself.
Execute_Autocommits ==
    /\ next \in 1 .. Len(Script) - 1
    /\ Runs(Statement, work)
    /\ work' = Effect(Statement, work)
    /\ next' = next + 1
    /\ db' = work'
    /\ UNCHANGED <<main, shutter, active, done, history>>

\* The next statement; END commits.
Execute ==
    /\ next \in 1 .. Len(Script) - 1
    /\ Runs(Statement, work)
    /\ work' = Effect(Statement, work)
    /\ next' = next + 1
    /\ db' = IF Statement = "END" THEN work ELSE db
    /\ UNCHANGED <<main, shutter, active, done, history>>

\* The last statement commits what followed END.  NewServer returns, and main
\* starts gracefulShutdown.
ExecuteLast ==
    /\ next = Len(Script)
    /\ Runs(Statement, work)
    /\ db' = Effect(Statement, work)
    /\ ScriptEnds
    /\ IF main = "script"
       THEN main' = "listen" /\ shutter' = "started"
       ELSE UNCHANGED <<main, shutter>>
    /\ UNCHANGED <<active, done, history>>

\* A fault: NewServer goes on without looking at CreateTables' error.
ExecuteFails_Ignored ==
    /\ next # 0
    /\ ~Runs(Statement, work)
    /\ ScriptEnds
    /\ IF main = "script"
       THEN main' = "listen" /\ shutter' = "started"
       ELSE UNCHANGED <<main, shutter>>
    /\ UNCHANGED <<db, active, done, history>>

\* A statement fails: its transaction is rolled back, the rest of the script is
\* not run, and NewServer panics.
ExecuteFails ==
    /\ next # 0
    /\ ~Runs(Statement, work)
    /\ ScriptEnds
    /\ IF main = "script"
       THEN Exit("schema")
       ELSE UNCHANGED <<main, shutter, active, done, exit>>
    /\ UNCHANGED <<db, timedOut, cut>>

\* The connection was lost with the process, and PostgreSQL notices.
Abandon ==
    /\ next # 0
    /\ main = "exited"
    /\ ScriptEnds
    /\ UNCHANGED <<db, main, shutter, active, done, history>>

-----------------------------------------------------------------------------
\* Requests.

\* The server has been told to shut down.
Closing == shutter \in {"shutdown", "send", "returned"}

\* ListenAndServe listens, unless Shutdown came before it.
ListenAndServe ==
    /\ main = "listen"
    /\ main' = IF Closing THEN "wait" ELSE "serve"
    /\ UNCHANGED <<database, shutter, active, done, history>>

\* The port is taken: main panics.
ListenFails ==
    /\ main = "listen"
    /\ ~Closing
    /\ Exit("listen")
    /\ UNCHANGED <<database, timedOut, cut>>

Arrive(r) ==
    /\ main = "serve"
    /\ ~Closing
    /\ r \notin active
    /\ active' = active \cup {r}
    /\ UNCHANGED <<database, main, shutter, done, history>>

Finish(r) ==
    /\ r \in active
    /\ active' = active \ {r}
    /\ UNCHANGED <<database, main, shutter, done, history>>

-----------------------------------------------------------------------------
\* Shutdown.

NotifyContext ==
    /\ shutter = "started"
    /\ shutter' = "listening"
    /\ UNCHANGED <<database, main, active, done, history>>

\* SIGINT or SIGTERM.  Until NotifyContext was called, and again once
\* gracefulShutdown has returned, it ends the process; in between the first one
\* is taken and the others are ignored.
Signal ==
    /\ main # "exited"
    /\ IF shutter \in {"none", "started", "returned"}
       THEN Exit("signal")
       ELSE /\ shutter' = IF shutter = "listening" THEN "told" ELSE shutter
            /\ UNCHANGED <<main, active, done, exit>>
    /\ UNCHANGED <<database, timedOut, cut>>

\* The listeners are closed, and ListenAndServe returns ErrServerClosed.
Shutdown ==
    /\ shutter = "told"
    /\ shutter' = "shutdown"
    /\ UNCHANGED <<database, main, active, done, history>>

ServeReturns ==
    /\ main = "serve"
    /\ Closing
    /\ main' = "wait"
    /\ UNCHANGED <<database, shutter, active, done, history>>

\* Shutdown returns when no request is in progress ...
ShutdownReturns ==
    /\ shutter = "shutdown"
    /\ active = {}
    /\ shutter' = "send"
    /\ UNCHANGED <<database, main, active, done, history>>

\* A fault: Shutdown is given a context that does not run out.
ShutdownExpires_Never == FALSE

\* ... or when five seconds have passed.
ShutdownExpires ==
    /\ shutter = "shutdown"
    /\ active # {}
    /\ timedOut' = TRUE
    /\ shutter' = "send"
    /\ UNCHANGED <<database, main, active, done, exit, cut>>

\* done <- true; gracefulShutdown returns.
SendDone ==
    /\ shutter = "send"
    /\ done' = TRUE
    /\ shutter' = "returned"
    /\ UNCHANGED <<database, main, active, history>>

\* A fault: main does not wait for done.
MainReturns_AtOnce ==
    /\ main = "wait"
    /\ Exit("done")
    /\ cut' = active
    /\ UNCHANGED <<database, timedOut>>

\* main returns and ends what is still in progress.
MainReturns ==
    /\ main = "wait"
    /\ done
    /\ Exit("done")
    /\ cut' = active
    /\ UNCHANGED <<database, timedOut>>

-----------------------------------------------------------------------------
Main    == \/ Connect \/ ConnectFails \/ ListenAndServe \/ ListenFails
           \/ ServeReturns \/ MainReturns
Database == Execute \/ ExecuteLast \/ ExecuteFails \/ Abandon
Shutter == \/ NotifyContext \/ Shutdown \/ ShutdownReturns \/ ShutdownExpires
           \/ SendDone

Next == \/ Start \/ Main \/ Database \/ Shutter \/ Signal
        \/ \E r \in Requests : Arrive(r) \/ Finish(r)

Spec == Init /\ [][Next]_vars

\* Go runs a goroutine that can run, the database answers, the timer fires.
\* Nobody need start the process or send a signal, and no request need finish.
FairSpec == Spec /\ WF_vars(Main) /\ WF_vars(Database) /\ WF_vars(Shutter)

-----------------------------------------------------------------------------
TypeOK ==
    /\ db \subseteq Parts
    /\ next \in 0 .. Len(Script)
    /\ work \subseteq Parts
    /\ main \in {"exited", "connect", "script", "listen", "serve", "wait"}
    /\ shutter \in {"none", "started", "listening", "told", "shutdown", "send", "returned"}
    /\ active \subseteq Requests
    /\ done \in BOOLEAN
    /\ exit \in {"none", "log.Fatal", "schema", "listen", "signal", "done"}
    /\ timedOut \in BOOLEAN
    /\ cut \subseteq Requests

\* A server that listens has a database with every table, constraint and function
\* of the script, whatever the database held and however often a start was broken
\* off; and with a key that keeps emails apart, which Accounts.tla builds on and
\* which the script does not make.
ServesWholeSchema ==
    main \in {"listen", "serve", "wait"} => Schema \cup {"email_key"} \subseteq db

\* A start that fails or is killed on the way leaves the database as it was or
\* with the whole table part, and never takes a function away.
SchemaChangesWhole ==
    [][db' # db => TableParts \subseteq db' /\ db \subseteq db']_vars

\* main's return cuts no request short that had not been given its five seconds.
CutMeansTimedOut == cut # {} => timedOut

\* Once told to stop the process exits, also with requests that never finish.
SignalEndsProcess == shutter = "told" ~> main = "exited"

\* README.md: after Start Server, it should run on the port.  The start does not
\* end in a panic over the schema.
SchemaComesUp == exit # "schema"

=============================================================================
