---------------------------- MODULE LifecycleProofs ----------------------------
(***************************************************************************)
(* Proofs that the process of Lifecycle.tla serves a whole schema only,    *)
(* changes it as a whole, and cuts no request short before its time, for   *)
(* every database it may find and any number of requests; and on which     *)
(* databases it comes to serve at all.                                     *)
(***************************************************************************)
EXTENDS Lifecycle, TLAPS

-----------------------------------------------------------------------------
\* The inductive invariants.

\* The types of the variables that the script and the main goroutine go by.
ScriptTypes ==
    /\ db \in SUBSET Parts
    /\ next \in 0 .. 8
    /\ work \in SUBSET Parts
    /\ main \in {"exited", "connect", "script", "listen", "serve", "wait"}

\* What the statements run so far have brought about, and have left alone.
Progress ==
    /\ next > 2 => "tables" \in work
    /\ next > 3 => "constraints" \in work
    /\ next > 4 => "root" \in work /\ "email_key" \in work
    /\ next > 6 => "functions" \in work
    /\ next \in 1 .. 7 => db \subseteq work
    /\ next = 8 => db \subseteq work \cup {"NotificationFetch"}

\* The script runs for a process that is in NewServer or has gone.
ScriptRuns == next # 0 => main \in {"script", "exited"}

\* The types of the other variables.
OtherTypes ==
    /\ shutter \in {"none", "started", "listening", "told", "shutdown", "send", "returned"}
    /\ active \subseteq Requests
    /\ done \in BOOLEAN
    /\ exit \in {"none", "log.Fatal", "schema", "listen", "signal", "done"}
    /\ timedOut \in BOOLEAN
    /\ cut \subseteq Requests

SchemaInv == ScriptTypes /\ Progress /\ ScriptRuns /\ ServesWholeSchema

\* Shutdown is over only with the requests, or with their time; done comes after
\* it, and nothing comes in meanwhile.
Drained ==
    /\ main \in {"exited", "connect", "script"} => shutter = "none" /\ ~done
    /\ shutter \in {"send", "returned"} => active = {} \/ timedOut
    /\ done => shutter = "returned"

-----------------------------------------------------------------------------
\* The script and its statements.
LEMMA Statements ==
    /\ Len(Script) = 8
    /\ Script[1] = "BEGIN" /\ Script[2] = "CREATE_TABLES" /\ Script[3] = "ADD_CONSTRAINTS"
    /\ Script[4] = "INSERT_root" /\ Script[5] = "END" /\ Script[6] = "CREATE_FUNCTIONS"
    /\ Script[7] = "DROP_NotificationFetch" /\ Script[8] = "CREATE_NotificationFetch"
BY DEF Script

\* What each statement that has another one after it makes of the database.
LEMMA Effects ==
    ASSUME NEW n \in 1 .. 7, NEW d \in SUBSET Parts
    PROVE  /\ Effect(Script[n], d) \in SUBSET Parts
           /\ n # 7 => d \subseteq Effect(Script[n], d)
           /\ n = 7 => Effect(Script[n], d) = d \ {"NotificationFetch"}
           /\ n = 2 => "tables" \in Effect(Script[n], d)
           /\ n = 3 => "constraints" \in Effect(Script[n], d)
           /\ n = 4 => "root" \in Effect(Script[n], d)
           /\ n = 6 => "functions" \in Effect(Script[n], d)
<1>1. n \in {1, 2, 3, 4, 5, 6, 7}
    OBVIOUS
<1> QED
    BY <1>1, Statements DEF Effect, Parts, Schema, TableParts, Functions

LEMMA LastEffect ==
    ASSUME NEW d
    PROVE  Effect(Script[8], d) = d \cup {"NotificationFetch"}
BY Statements DEF Effect

\* The table part is whole when END commits it, the schema when the script ends.
LEMMA AtEnd ==
    ASSUME ScriptTypes, Progress
    PROVE  /\ next = 5 => TableParts \subseteq work /\ db \subseteq work
           /\ next = 8 => /\ Schema \cup {"email_key"} \subseteq Effect(Script[next], work)
                          /\ TableParts \subseteq Effect(Script[next], work)
                          /\ db \subseteq Effect(Script[next], work)
                          /\ Effect(Script[next], work) \subseteq Parts
<1>1. next = 5 => TableParts \subseteq work /\ db \subseteq work
    BY DEF ScriptTypes, Progress, TableParts
<1>2. ASSUME next = 8
      PROVE  /\ Schema \cup {"email_key"} \subseteq work \cup {"NotificationFetch"}
             /\ TableParts \subseteq work
             /\ db \subseteq work \cup {"NotificationFetch"}
             /\ work \cup {"NotificationFetch"} \subseteq Parts
    BY <1>2 DEF ScriptTypes, Progress, Schema, TableParts, Functions, Parts
<1>3. next = 8 => Effect(Script[next], work) = work \cup {"NotificationFetch"}
    BY LastEffect
<1> QED
    BY <1>1, <1>2, <1>3

-----------------------------------------------------------------------------
LEMMA SchemaInitially == Init => SchemaInv
BY DatabasesAssumption, Statements
   DEF Init, SchemaInv, ScriptTypes, Progress, ScriptRuns, ServesWholeSchema

\* Steps that leave the database and its script alone.
LEMMA ScriptUntouched ==
    ASSUME SchemaInv, UNCHANGED database,
           \/ main' \in {main, "exited"}
           \/ main' = "connect" /\ next = 0
           \/ main \in {"listen", "serve"} /\ main' \in {"serve", "wait"}
    PROVE  SchemaInv'
BY DEF SchemaInv, ScriptTypes, database, Progress, ScriptRuns, ServesWholeSchema

LEMMA SchemaStep == SchemaInv /\ [Next]_vars => SchemaInv'
<1> SUFFICES ASSUME SchemaInv, [Next]_vars PROVE SchemaInv'
    OBVIOUS
<1>1. CASE Start
    BY ScriptUntouched, <1>1 DEF Start
<1>2. CASE Connect
    BY <1>2 DEF SchemaInv, ScriptTypes, Connect, history, Progress, ScriptRuns, ServesWholeSchema
<1>3. CASE ConnectFails \/ ListenFails
    BY ScriptUntouched, <1>3 DEF ConnectFails, ListenFails, Exit
<1>4. CASE Execute
  <2>1. /\ next \in 1 .. 7 /\ next' = next + 1
        /\ work' = Effect(Script[next], work)
        /\ db' = IF Script[next] = "END" THEN work ELSE db
        /\ Script[next] = "INSERT_root" => "email_key" \in work
        /\ UNCHANGED <<main, shutter, active, done, history>>
    BY <1>4, Statements DEF Execute, Statement, Runs
  <2>2. Script[next] = "END" <=> next = 5
    BY <2>1, Statements
  <2>3. ScriptTypes'
    BY <2>1, Effects DEF SchemaInv, ScriptTypes
  <2>4. db' \subseteq work
    BY <2>1 DEF SchemaInv, Progress
  <2>5. Progress'
    BY <2>1, <2>4, Effects, Statements DEF SchemaInv, ScriptTypes, Progress
  <2>6. ScriptRuns' /\ ServesWholeSchema'
    BY <2>1, <2>2 DEF SchemaInv, ScriptRuns, ServesWholeSchema
  <2> QED
    BY <2>3, <2>5, <2>6 DEF SchemaInv
<1>5. CASE ExecuteLast
  <2>1. /\ next = 8 /\ next' = 0 /\ work' = {}
        /\ db' = Effect(Script[next], work)
        /\ main' \in {main, "listen"} /\ shutter' \in {shutter, "started"}
        /\ UNCHANGED <<active, done, history>>
    BY <1>5, Statements DEF SchemaInv, ScriptTypes, ExecuteLast, Statement, ScriptEnds
  <2>2. Schema \cup {"email_key"} \subseteq db' /\ db' \subseteq Parts
    BY <2>1, AtEnd DEF SchemaInv
  <2>3. ScriptTypes'
    BY <2>1, <2>2 DEF SchemaInv, ScriptTypes
  <2> QED
    BY <2>1, <2>2, <2>3 DEF SchemaInv, Progress, ScriptRuns, ServesWholeSchema
<1>6. CASE ExecuteFails
  <2>1. /\ next # 0 /\ next' = 0 /\ work' = {} /\ db' = db
        /\ main' \in {main, "exited"}
    BY <1>6 DEF ExecuteFails, ScriptEnds, Exit
  <2> QED
    BY <2>1 DEF SchemaInv, ScriptTypes, Progress, ScriptRuns, ServesWholeSchema
<1>7. CASE Abandon
    BY <1>7 DEF Abandon, ScriptEnds, SchemaInv, ScriptTypes, Progress, ScriptRuns,
                ServesWholeSchema
<1>8. CASE ListenAndServe \/ ServeReturns \/ MainReturns
    BY ScriptUntouched, <1>8 DEF ListenAndServe, ServeReturns, MainReturns, Exit, history
<1>9. CASE Shutter
    BY ScriptUntouched, <1>9 DEF Shutter, NotifyContext, Shutdown, ShutdownReturns, ShutdownExpires,
                       SendDone, history
<1>10. CASE Signal
    BY ScriptUntouched, <1>10 DEF Signal, Exit
<1>11. ASSUME NEW r \in Requests, Arrive(r) \/ Finish(r) PROVE SchemaInv'
    BY ScriptUntouched, <1>11 DEF Arrive, Finish, history
<1>12. CASE UNCHANGED vars
    BY ScriptUntouched, <1>12 DEF vars, history
<1> QED
    BY <1>1, <1>2, <1>3, <1>4, <1>5, <1>6, <1>7, <1>8, <1>9, <1>10, <1>11, <1>12
       DEF Next, Main, Database

\* The invariant of the schema script.
THEOREM SchemaAlways == Spec => []SchemaInv
BY SchemaInitially, SchemaStep, PTL DEF Spec

\* A server that listens has the whole schema, whatever database it found.
THEOREM ServesWholeSchemaAlways == Spec => []ServesWholeSchema
<1>1. SchemaInv => ServesWholeSchema
    BY DEF SchemaInv
<1> QED
    BY <1>1, SchemaAlways, PTL

-----------------------------------------------------------------------------
\* Every variable of the process keeps its type.
THEOREM TypeAlways == Spec => []TypeOK
<1>1. Init => TypeOK
    BY SchemaInitially, Statements DEF SchemaInv, ScriptTypes, Init, TypeOK
<1>2. TypeOK /\ SchemaInv' /\ [Next]_vars => TypeOK'
  <2> SUFFICES ASSUME TypeOK, SchemaInv', [Next]_vars PROVE TypeOK'
      OBVIOUS
  <2>1. /\ db' \subseteq Parts /\ work' \subseteq Parts
        /\ next' \in 0 .. Len(Script)
        /\ main' \in {"exited", "connect", "script", "listen", "serve", "wait"}
      BY Statements DEF SchemaInv, ScriptTypes
  <2>2. OtherTypes'
    <3> USE DEF TypeOK, OtherTypes, history
    <3>1. CASE Start \/ Connect \/ ListenAndServe \/ ServeReturns \/ Execute \/ Abandon
        BY <3>1 DEF Start, Connect, ListenAndServe, ServeReturns, Execute, Abandon
    <3>2. CASE ConnectFails \/ ListenFails \/ MainReturns \/ Signal
        BY <3>2 DEF ConnectFails, ListenFails, MainReturns, Signal, Exit
    <3>3. CASE ExecuteLast \/ ExecuteFails
        BY <3>3 DEF ExecuteLast, ExecuteFails, Exit
    <3>4. CASE Shutter
        BY <3>4 DEF Shutter, NotifyContext, Shutdown, ShutdownReturns, ShutdownExpires, SendDone
    <3>5. ASSUME NEW r \in Requests, Arrive(r) \/ Finish(r) PROVE OtherTypes'
        BY <3>5 DEF Arrive, Finish
    <3>6. CASE UNCHANGED vars
        BY <3>6 DEF vars
    <3> QED
        BY <3>1, <3>2, <3>3, <3>4, <3>5, <3>6 DEF Next, Main, Database
  <2> QED
      BY <2>1, <2>2 DEF TypeOK, OtherTypes
<1> QED
    BY <1>1, <1>2, SchemaAlways, PTL DEF Spec

-----------------------------------------------------------------------------
LEMMA ChangesWholeStep ==
    SchemaInv /\ [Next]_vars => [db' # db => TableParts \subseteq db' /\ db \subseteq db']_vars
<1> SUFFICES ASSUME SchemaInv, [Next]_vars, db' # db
             PROVE  TableParts \subseteq db' /\ db \subseteq db'
    OBVIOUS
<1>1. CASE Execute
  <2>1. Script[next] = "END" /\ db' = work /\ next \in 1 .. 7
    BY <1>1, Statements DEF Execute, Statement
  <2>2. next = 5
    BY <2>1, Statements
  <2> QED
    BY <2>1, <2>2, AtEnd DEF SchemaInv
<1>2. CASE ExecuteLast
  <2>1. next = 8 /\ db' = Effect(Script[next], work)
    BY <1>2, Statements DEF ExecuteLast, Statement
  <2> QED
    BY <2>1, AtEnd DEF SchemaInv
<1>3. CASE \/ Start \/ Connect \/ ConnectFails \/ ListenAndServe \/ ListenFails
           \/ ServeReturns \/ MainReturns \/ ExecuteFails \/ Abandon \/ Signal
    BY <1>3 DEF Start, Connect, ConnectFails, ListenAndServe, ListenFails, ServeReturns,
                MainReturns, ExecuteFails, Abandon, Signal, database
<1>4. CASE Shutter \/ UNCHANGED vars
    BY <1>4 DEF Shutter, NotifyContext, Shutdown, ShutdownReturns, ShutdownExpires,
                SendDone, database, vars
<1>5. ASSUME NEW r \in Requests, Arrive(r) \/ Finish(r) PROVE FALSE
    BY <1>5 DEF Arrive, Finish, database
<1> QED
    BY <1>1, <1>2, <1>3, <1>4, <1>5 DEF Next, Main, Database

\* Every change of the database brings the table part as a whole and takes
\* nothing away, wherever a start fails or is killed.
THEOREM SchemaChangesWholeAlways == Spec => SchemaChangesWhole
BY SchemaAlways, ChangesWholeStep, PTL DEF Spec, SchemaChangesWhole

-----------------------------------------------------------------------------
LEMMA DrainedInitially == Init => Drained /\ CutMeansTimedOut
BY DEF Init, Drained, CutMeansTimedOut

LEMMA DrainedStep ==
    Drained /\ CutMeansTimedOut /\ [Next]_vars => Drained' /\ CutMeansTimedOut'
<1> SUFFICES ASSUME Drained, CutMeansTimedOut, [Next]_vars
             PROVE  Drained' /\ CutMeansTimedOut'
    OBVIOUS
<1> USE DEF Drained, CutMeansTimedOut
<1>1. CASE Start
    BY <1>1 DEF Start
<1>2. CASE Connect \/ ListenAndServe \/ ServeReturns \/ Execute \/ Abandon
    BY <1>2 DEF Connect, ListenAndServe, ServeReturns, Execute, Abandon, history
<1>3. CASE ConnectFails \/ ListenFails \/ Signal
    BY <1>3 DEF ConnectFails, ListenFails, Signal, Exit
<1>4. CASE ExecuteLast \/ ExecuteFails
    BY <1>4 DEF ExecuteLast, ExecuteFails, Exit, history
<1>5. CASE MainReturns
    BY <1>5 DEF MainReturns, Exit
<1>6. CASE Shutter
    BY <1>6 DEF Shutter, NotifyContext, Shutdown, ShutdownReturns, ShutdownExpires,
                SendDone, history
<1>7. ASSUME NEW r \in Requests, Arrive(r) PROVE Drained' /\ CutMeansTimedOut'
    BY <1>7 DEF Arrive, Closing, history
<1>8. ASSUME NEW r \in Requests, Finish(r) PROVE Drained' /\ CutMeansTimedOut'
    BY <1>8 DEF Finish, history
<1>9. CASE UNCHANGED vars
    BY <1>9 DEF vars, history
<1> QED
    BY <1>1, <1>2, <1>3, <1>4, <1>5, <1>6, <1>7, <1>8, <1>9 DEF Next, Main, Database

\* A request that main's return ends had its five seconds, for any number of
\* requests and whenever the signal comes.
THEOREM CutMeansTimedOutAlways == Spec => []CutMeansTimedOut
BY DrainedInitially, DrainedStep, PTL DEF Spec

-----------------------------------------------------------------------------
\* On which databases the server comes to serve.  SchemaComesUp fails on an empty
\* one; these theorems say how far that goes.

Serving == main \in {"listen", "serve", "wait"}

\* A step of the script, or one that leaves it alone; and where main comes to serve.
LEMMA ScriptSteps ==
    ASSUME SchemaInv, [Next]_vars
    PROVE  \/ Execute
           \/ ExecuteLast
           \/ /\ UNCHANGED db /\ next' = 0
              /\ main' = IF main = "script" THEN "exited" ELSE main
           \/ UNCHANGED db /\ next' = 1 /\ work' = db /\ main = "connect" /\ main' = "script"
           \/ /\ UNCHANGED database
              /\ \/ main' \in {main, "exited"}
                 \/ main = "exited" /\ main' = "connect"
                 \/ Serving /\ Serving'
<1>1. CASE Start \/ Connect \/ ConnectFails \/ ListenAndServe \/ ListenFails \/ ServeReturns \/ MainReturns
    BY <1>1 DEF Start, Connect, ConnectFails, ListenAndServe, ListenFails, ServeReturns, MainReturns,
                Exit, database, Serving
<1>2. CASE Execute \/ ExecuteLast
    BY <1>2
<1>3. CASE ExecuteFails
    BY <1>3 DEF ExecuteFails, ScriptEnds, Exit
<1>4. CASE Abandon
    BY <1>4 DEF Abandon, ScriptEnds
<1>5. CASE Shutter \/ Signal \/ UNCHANGED vars
    BY <1>5 DEF Shutter, NotifyContext, Shutdown, ShutdownReturns, ShutdownExpires, SendDone,
                Signal, Exit, vars, database
<1>6. ASSUME NEW r \in Requests, Arrive(r) \/ Finish(r) PROVE UNCHANGED <<database, main>>
    BY <1>6 DEF Arrive, Finish
<1> QED
    BY <1>1, <1>2, <1>3, <1>4, <1>5, <1>6 DEF Next, Main, Database

\* A database that the script cannot be run on: it has the constraints already, or
\* lacks what the script takes for granted.
Unfit(d) == \/ "constraints" \in d
            \/ "email_key" \notin d
            \/ "NotificationFetch" \notin d

\* Where the script gets on such a database.
GetsNowhere ==
    /\ Unfit(db)
    /\ ~Serving
    /\ next \in 1 .. 3 => Unfit(work)
    /\ next \in 4 .. 7 => "email_key" \notin work \/ "NotificationFetch" \notin work
    /\ next # 8

LEMMA GetsNowhereStep == SchemaInv /\ GetsNowhere /\ [Next]_vars => GetsNowhere'
<1> SUFFICES ASSUME SchemaInv, GetsNowhere, [Next]_vars PROVE GetsNowhere'
    OBVIOUS
<1>1. CASE Execute
  <2>1. /\ next \in {1, 2, 3, 4, 5, 6, 7} /\ next' = next + 1 /\ main' = main
        /\ work' = Effect(Script[next], work)
        /\ db' = IF Script[next] = "END" THEN work ELSE db
        /\ Runs(Script[next], work)
    BY <1>1, Statements DEF Execute, Statement
  <2>2. /\ next = 3 => "constraints" \notin work
        /\ next = 4 => "email_key" \in work
        /\ next = 7 => "NotificationFetch" \in work
    BY <2>1, Statements DEF Runs
  <2>3. next > 3 => "constraints" \in work
    BY DEF SchemaInv, Progress
  <2>4. next > 4 => "email_key" \in work
    BY DEF SchemaInv, Progress
  <2>5. next # 7
    BY <2>2, <2>4 DEF GetsNowhere
  <2>6. Unfit(db')
    <3>1. Script[next] = "END" => next = 5
      BY <2>1, Statements
    <3>2. next = 5 => Unfit(work)
      BY <2>3 DEF Unfit
    <3> QED
      BY <2>1, <3>1, <3>2 DEF GetsNowhere
  <2>7. /\ "email_key" \in work' <=> "email_key" \in work
        /\ "NotificationFetch" \in work' <=> "NotificationFetch" \in work
        /\ "constraints" \in work => "constraints" \in work'
    <3>1. /\ next \in {1, 2, 3, 4, 5, 6}
          /\ work' \in {work, work \cup {"tables"}, work \cup {"constraints"},
                       work \cup {"root"}, work \cup {"functions"}}
      BY <2>1, <2>5, Statements DEF Effect
    <3> QED
      BY <3>1
  <2>8. next < 3 => Unfit(work')
    <3>1. next < 3 => Unfit(work)
      BY <2>1 DEF GetsNowhere
    <3> QED
      BY <2>7, <3>1 DEF Unfit
  <2>9. next \in {3, 4, 5, 6} => "email_key" \notin work' \/ "NotificationFetch" \notin work'
    BY <2>1, <2>2, <2>7 DEF GetsNowhere, Unfit
  <2> QED
    BY <2>1, <2>5, <2>6, <2>8, <2>9 DEF GetsNowhere, Serving
<1>2. ~ExecuteLast
    BY Statements DEF ExecuteLast, GetsNowhere
<1>3. CASE ~Execute
    BY <1>2, <1>3, ScriptSteps DEF GetsNowhere, Serving, database
<1> QED
    BY <1>1, <1>3

\* The server comes to serve only over a database that somebody has given a key on
\* emails and a function NotificationFetch and not the constraints: never over one
\* that is empty, or that has them from an earlier start, however often it is tried.
THEOREM NeverServesUnfit ==
    ASSUME \A d \in Databases : Unfit(d)
    PROVE  Spec => []~Serving
<1>1. Init => GetsNowhere
    BY DEF Init, GetsNowhere, Serving
<1>2. GetsNowhere => ~Serving
    BY DEF GetsNowhere
<1> QED
    BY <1>1, <1>2, SchemaAlways, GetsNowhereStep, PTL DEF Spec

\* The constraints are there, and no script that began before them is on its way
\* to a process that could serve.
Barred == /\ "constraints" \in db
          /\ ~Serving
          /\ main = "script" => next \in 0 .. 3 /\ "constraints" \in work

ServesNoMore == /\ Serving /\ ~Serving' => Barred'
                /\ Barred => Barred'

LEMMA ServesNoMoreStep == SchemaInv /\ [Next]_vars => ServesNoMore
<1> SUFFICES ASSUME SchemaInv, [Next]_vars PROVE ServesNoMore
    OBVIOUS
<1>1. "constraints" \in db => "constraints" \in db'
    BY ChangesWholeStep DEF vars, database
<1>2. Serving => "constraints" \in db
    BY DEF Serving, SchemaInv, ServesWholeSchema, Schema, TableParts
<1>3. ASSUME Serving, ~Serving' PROVE Barred'
  <2>1. main' \in {"exited", "connect"}
    BY <1>3, ScriptSteps DEF Serving, Execute, ExecuteLast
  <2> QED
    BY <1>1, <1>2, <1>3, <2>1 DEF Barred
<1>4. ASSUME Barred PROVE Barred'
  <2>1. CASE Execute
    <3>1. /\ next \in 1 .. 7 /\ next' = next + 1 /\ main' = main
          /\ work' = Effect(Script[next], work) /\ Runs(Script[next], work)
      BY <2>1, Statements DEF Execute, Statement
    <3>2. main = "script" => next # 3
      BY <1>4, <3>1, Statements DEF Barred, Runs
    <3>3. main = "script" => "constraints" \in work'
      BY <1>4, <3>1, Effects DEF Barred, SchemaInv, ScriptTypes
    <3> QED
      BY <1>1, <1>4, <3>1, <3>2, <3>3 DEF Barred, Serving
  <2>2. CASE ExecuteLast
    <3>1. main # "script"
      BY <1>4, <2>2, Statements DEF ExecuteLast, Barred
    <3>2. main' = main
      BY <2>2, <3>1 DEF ExecuteLast
    <3> QED
      BY <1>1, <1>4, <3>1, <3>2 DEF Barred, Serving
  <2>3. CASE ~Execute /\ ~ExecuteLast
    BY <1>1, <1>4, <2>3, ScriptSteps DEF Barred, Serving, database
  <2> QED
    BY <2>1, <2>2, <2>3
<1> QED
    BY <1>3, <1>4 DEF ServesNoMore

\* Once a process that served has ended, none that is started later on its database
\* comes to serve: the script fails over the constraints of the first.
THEOREM ServesOnce == Spec => [][ServesNoMore]_vars
BY SchemaAlways, ServesNoMoreStep, PTL DEF Spec

=============================================================================
