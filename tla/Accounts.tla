------------------------------- MODULE Accounts -------------------------------
(***************************************************************************)
(* The accounts: the tables "User" and admin, the functions of the schema  *)
(* that work on them, and the queries of user_auth_post (SessionRegister)  *)
(* and user_fetch_post, which call these functions.  (user_post and        *)
(* user_patch call functions that are not in the schema.)                  *)
(*                                                                         *)
(* A function runs as several statements, and each of them sees what has   *)
(* been committed when it begins; other calls come between.  A call is a   *)
(* transaction of its own, and only its last statement writes.  Of a row,  *)
(* email and banned are kept: name, address, picture and password are      *)
(* updated as email is, without being unique.                              *)
(***************************************************************************)
EXTENDS Naturals

CONSTANTS Clients,     \* sessions of the database, the server's and others'
          Emails,
          RootEmail,   \* of the user whom the script inserts
          Blank,       \* the empty string
          Null,        \* SQL's NULL
          NoRow,
          MaxUsers,    \* bound on the values drawn from the serial of "User"
          Columns      \* the columns that calls of UserUpdate set

Ids  == 1 .. MaxUsers
Root == 1

Rows  == [email : Emails, banned : {"t", "f"}]
\* p_email and p_banned of UserUpdate.
Given == [email : Emails \cup {Blank, Null}, banned : {"t", "f", Null}]
NoColumns == [email |-> Null, banned |-> Null]

ASSUME MaxUsersAssumption == MaxUsers \in Nat \ {0}
ASSUME RootAssumption     == RootEmail \in Emails
ASSUME NullAssumption     == /\ Null \notin Emails \cup {"t", "f"}
                             /\ Blank \notin Emails \cup {Null}
                             /\ NoRow \notin Rows
ASSUME ColumnsAssumption  == Columns \subseteq Given

VARIABLES
    User,        \* User[u]: the row of userId u, or NoRow
    admin,       \* the users whom table admin names
    drawn,       \* values drawn from the serial of "User"
    at,          \* at[c]: the next statement of c's call
    target,      \* target[c]: the user it is about
    by,          \* by[c]: p_editorId, p_promoterAdminId or p_requesterId
    given,       \* given[c]: the columns it sets
    ids,         \* ids[c]: p_userIds
    byAdmin,     \* the calls that have found by[c] to be an admin
    reply,       \* what the last step returned to its client, or "none"
    shown,       \* the rows it returned and what is in them
    bootstrap    \* the calls that began when there was no admin (history)

tables == <<User, admin, drawn>>
locals == <<at, target, by, given, ids, byAdmin, bootstrap>>
vars   == <<tables, locals, reply, shown>>

\* As the script leaves the database; or its admins have been removed by hand.
Init ==
    /\ User = [u \in Ids |->
                  IF u = Root THEN [email |-> RootEmail, banned |-> "f"] ELSE NoRow]
    /\ admin \in {{Root}, {}}
    /\ drawn = 1
    /\ at = [c \in Clients |-> "idle"]
    /\ target = [c \in Clients |-> Root]
    /\ by = [c \in Clients |-> Root]
    /\ given = [c \in Clients |-> NoColumns]
    /\ ids = [c \in Clients |-> {}]
    /\ byAdmin = {}
    /\ reply = "none"
    /\ shown = {}
    /\ bootstrap = {}

Exists(u) == User[u] # NoRow

\* Another row has the email: the unique key without which the script's
\* ON CONFLICT (email) fails.
Taken(e, u) == \E v \in Ids \ {u} : Exists(v) /\ User[v].email = e

At(c, l)   == at[c] = l
Goto(c, l) == at' = [at EXCEPT ![c] = l]
NoReply    == reply' = "none" /\ shown' = {}

\* c calls a function whose first statement is l.
Call(c, l, u, who, columns, asked) ==
    /\ At(c, "idle")
    /\ Goto(c, l)
    /\ target' = [target EXCEPT ![c] = u]
    /\ by' = [by EXCEPT ![c] = who]
    /\ given' = [given EXCEPT ![c] = columns]
    /\ ids' = [ids EXCEPT ![c] = asked]
    /\ bootstrap' = IF admin = {} THEN bootstrap \cup {c} ELSE bootstrap
    /\ NoReply
    /\ UNCHANGED <<tables, byAdmin>>

\* The call returns r and the rows rs; its parameters and variables are gone.
ReturnRows(c, r, rs) ==
    /\ Goto(c, "idle")
    /\ target' = [target EXCEPT ![c] = Root]
    /\ by' = [by EXCEPT ![c] = Root]
    /\ given' = [given EXCEPT ![c] = NoColumns]
    /\ ids' = [ids EXCEPT ![c] = {}]
    /\ byAdmin' = byAdmin \ {c}
    /\ bootstrap' = bootstrap \ {c}
    /\ reply' = r
    /\ shown' = rs

Return(c, r) == ReturnRows(c, r, {})

\* The next statement of the call is l.
Continue(c, l) ==
    /\ Goto(c, l)
    /\ NoReply
    /\ UNCHANGED <<target, by, given, ids, byAdmin, bootstrap>>

\* ... and the call has looked by[c] up in admin.
ContinueKnowing(c, l) ==
    /\ Goto(c, l)
    /\ byAdmin' = IF by[c] \in admin THEN byAdmin \cup {c} ELSE byAdmin
    /\ NoReply
    /\ UNCHANGED <<target, by, given, ids, bootstrap>>

-----------------------------------------------------------------------------
\* UserCreate: one INSERT, whose exception is caught.  The serial gives a value
\* away even if the row is refused.

\* A fault: the row's id is not drawn from the serial.
UserCreate_OwnId(c, e, banned) ==
    /\ At(c, "idle")
    /\ drawn < MaxUsers
    /\ IF Taken(e, drawn + 1)
       THEN Return(c, "not_created") /\ UNCHANGED User
       ELSE /\ User' = [User EXCEPT ![drawn + 1] = [email |-> e, banned |-> banned]]
            /\ Return(c, "created")
    /\ UNCHANGED <<admin, drawn>>

\* A fault: no unique key makes the INSERT fail.
UserCreate_Duplicates(c, e, banned) ==
    /\ At(c, "idle")
    /\ drawn < MaxUsers
    /\ drawn' = drawn + 1
    /\ User' = [User EXCEPT ![drawn + 1] = [email |-> e, banned |-> banned]]
    /\ Return(c, "created")
    /\ UNCHANGED admin

UserCreate(c, e, banned) ==
    /\ At(c, "idle")
    /\ drawn < MaxUsers
    /\ drawn' = drawn + 1
    /\ IF Taken(e, drawn + 1)
       THEN Return(c, "not_created") /\ UNCHANGED User
       ELSE /\ User' = [User EXCEPT ![drawn + 1] = [email |-> e, banned |-> banned]]
            /\ Return(c, "created")
    /\ UNCHANGED admin

-----------------------------------------------------------------------------
\* UserCheck.  Whoever has no password to compare gets an answer; the comparison
\* names v_store_password, a variable that is not declared, and so the
\* function fails where it is reached.

\* password is Null or "given".
UserCheck(c, e, password) ==
    /\ At(c, "idle")
    /\ Return(c, IF \A u \in Ids : Exists(u) => User[u].email # e THEN "unknown"
                 ELSE IF \E u \in Ids : Exists(u) /\ User[u].email = e /\ User[u].banned = "t"
                 THEN "banned"
                 ELSE IF password = Null THEN "found" ELSE "error")
    /\ UNCHANGED tables

-----------------------------------------------------------------------------
\* UserUpdate.

CallUserUpdate(c, u, editor, columns) ==
    Call(c, "update.exists", u, editor, columns, {})

UpdateExists(c) ==
    /\ At(c, "update.exists")
    /\ IF Exists(target[c]) THEN Continue(c, "update.editor") ELSE Return(c, "no_user")
    /\ UNCHANGED tables

\* A fault: a user may ban and unban himself.
UpdateEditor_OwnBan(c) ==
    /\ At(c, "update.editor")
    /\ IF by[c] = target[c] \/ by[c] \in admin
       THEN ContinueKnowing(c, "update.write")
       ELSE Return(c, "not_allowed")
    /\ UNCHANGED tables

\* The editor must be the user or an admin, and for a ban an admin.
UpdateEditor(c) ==
    /\ At(c, "update.editor")
    /\ IF by[c] # target[c] /\ by[c] \notin admin
       THEN Return(c, "not_allowed")
       ELSE IF by[c] \notin admin /\ given[c].banned # Null
       THEN Return(c, "not_updated")
       ELSE ContinueKnowing(c, "update.write")
    /\ UNCHANGED tables

\* The UPDATE takes what is not given from the row as it then is:
\* COALESCE(NULLIF(p_email, ''), email), and banned without the NULLIF.
Updated(row, columns) ==
    [email  |-> IF columns.email \in {Blank, Null} THEN row.email ELSE columns.email,
     banned |-> IF columns.banned = Null THEN row.banned ELSE columns.banned]

UpdateWrite(c) ==
    /\ At(c, "update.write")
    /\ LET u   == target[c]
           row == Updated(User[u], given[c]) IN
       IF Taken(row.email, u)
       THEN Return(c, "not_updated") /\ UNCHANGED User
       ELSE /\ User' = [User EXCEPT ![u] = row]
            /\ Return(c, "updated")
    /\ UNCHANGED <<admin, drawn>>

-----------------------------------------------------------------------------
\* UserPromote.

CallUserPromote(c, u, promoter) ==
    Call(c, "promote.exists", u, promoter, NoColumns, {})

PromoteExists(c) ==
    /\ At(c, "promote.exists")
    /\ IF Exists(target[c]) THEN Continue(c, "promote.already") ELSE Return(c, "no_user")
    /\ UNCHANGED tables

PromoteAlready(c) ==
    /\ At(c, "promote.already")
    /\ IF target[c] \in admin
       THEN Return(c, "not_allowed")
       ELSE Continue(c, "promote.empty")
    /\ UNCHANGED tables

\* The first admin needs no other.
PromoteEmpty(c) ==
    /\ At(c, "promote.empty")
    /\ Continue(c, IF admin = {} THEN "promote.insert" ELSE "promote.promoter")
    /\ UNCHANGED tables

\* A fault: it is the user to promote who is looked up.
PromotePromoter_LooksUpTarget(c) ==
    /\ At(c, "promote.promoter")
    /\ IF Exists(target[c])
       THEN ContinueKnowing(c, "promote.insert")
       ELSE Return(c, "not_allowed")
    /\ UNCHANGED tables

PromotePromoter(c) ==
    /\ At(c, "promote.promoter")
    /\ IF by[c] \in admin
       THEN ContinueKnowing(c, "promote.insert")
       ELSE Return(c, "not_allowed")
    /\ UNCHANGED tables

\* A fault: the row's being there already is no error.
PromoteInsert_OnConflictDoNothing(c) ==
    /\ At(c, "promote.insert")
    /\ admin' = admin \cup {target[c]}
    /\ Return(c, "promoted")
    /\ UNCHANGED <<User, drawn>>

\* admin_userId_key refuses a second row; the exception is caught.
PromoteInsert(c) ==
    /\ At(c, "promote.insert")
    /\ IF target[c] \in admin
       THEN Return(c, "not_allowed") /\ UNCHANGED admin
       ELSE admin' = admin \cup {target[c]} /\ Return(c, "promoted")
    /\ UNCHANGED <<User, drawn>>

-----------------------------------------------------------------------------
\* UserFetch.

\* The handler asks for its session's user where the body names none.
user_fetch_post(c, u, users) ==
    /\ Exists(u)
    /\ Call(c, "fetch.admin", Root, u, NoColumns, IF users = {} THEN {u} ELSE users)

FetchAdmin(c) ==
    /\ At(c, "fetch.admin")
    /\ ContinueKnowing(c, "fetch.rows")
    /\ UNCHANGED tables

\* A fault: a banned user's profile is shown like any other.
Shown_OfBanned(u, c) ==
    IF ~Exists(u) THEN {"id"}
    ELSE {"id", "found", "isAdmin", "name"}
         \cup (IF c \in byAdmin \/ u = by[c] THEN {"email"} ELSE {})
         \cup (IF c \in byAdmin /\ u \in admin THEN {"adminId"} ELSE {})

\* What of u is in its row.  (email stands for the address, too.)
Shown(u, c) ==
    IF ~Exists(u) THEN {"id"}
    ELSE IF User[u].banned = "t" THEN {"id", "found"}
    ELSE {"id", "found", "isAdmin", "name"}
         \cup (IF c \in byAdmin \/ u = by[c] THEN {"email"} ELSE {})
         \cup (IF c \in byAdmin /\ u \in admin THEN {"adminId"} ELSE {})

\* A row for each id asked for; the handler keeps one for each.
FetchRows(c) ==
    /\ At(c, "fetch.rows")
    /\ LET asked == IF ids[c] = {} THEN {u \in Ids : Exists(u)} ELSE ids[c] IN
       ReturnRows(c, "rows", UNION {{u} \X Shown(u, c) : u \in asked})
    /\ UNCHANGED tables

-----------------------------------------------------------------------------
Calls(c) ==
    \/ \E e \in Emails :
          \/ \E banned \in {"t", "f"} : UserCreate(c, e, banned)
          \/ \E password \in {Null, "given"} : UserCheck(c, e, password)
    \/ \E u, who \in Ids :
          \/ \E columns \in Columns : CallUserUpdate(c, u, who, columns)
          \/ CallUserPromote(c, u, who)
    \/ \E u \in Ids, users \in SUBSET Ids : user_fetch_post(c, u, users)

Statement(c) ==
    \/ UpdateExists(c) \/ UpdateEditor(c) \/ UpdateWrite(c)
    \/ PromoteExists(c) \/ PromoteAlready(c) \/ PromoteEmpty(c)
    \/ PromotePromoter(c) \/ PromoteInsert(c)
    \/ FetchAdmin(c) \/ FetchRows(c)

Next == \E c \in Clients : Calls(c) \/ Statement(c)

Spec == Init /\ [][Next]_vars

-----------------------------------------------------------------------------
Labels == {"idle", "update.exists", "update.editor", "update.write",
           "promote.exists", "promote.already", "promote.empty",
           "promote.promoter", "promote.insert", "fetch.admin", "fetch.rows"}
Replies == {"none", "created", "not_created", "unknown", "banned", "found", "error",
            "no_user", "not_allowed", "not_updated", "updated", "promoted", "rows"}
Groups  == {"id", "found", "isAdmin", "name", "email", "adminId"}

TypeOK ==
    /\ User \in [Ids -> Rows \cup {NoRow}]
    /\ \A u \in Ids : u > drawn => ~Exists(u)
    /\ drawn \in Ids
    /\ \A u \in admin : u \in Ids /\ Exists(u)
    /\ at \in [Clients -> Labels]
    /\ target \in [Clients -> Ids]
    /\ by \in [Clients -> Ids]
    /\ given \in [Clients -> Given]
    /\ ids \in [Clients -> SUBSET Ids]
    /\ byAdmin \subseteq Clients
    /\ reply \in Replies
    /\ shown \subseteq Ids \X Groups
    /\ bootstrap \subseteq Clients

\* However registrations and changes of email overlap, an email leads to one
\* account, so that UserCheck's LIMIT 1 never chooses.
OneAccountPerEmail ==
    \A u, v \in Ids :
        (Exists(u) /\ Exists(v) /\ User[u].email = User[v].email) => u = v

\* Who is an admin was promoted by one, or by a call that began before there was
\* any; and the promotion that is told so is the one that did it.
PromotedByAdmin ==
    /\ \A u \in admin' \ admin : \E c \in Clients :
          /\ target[c] = u
          /\ reply' = "promoted"
          /\ by[c] \in admin \/ c \in bootstrap
    /\ reply' = "promoted" => admin' # admin
AdminsGrowByAdmins == [][PromotedByAdmin]_vars

\* A row is changed for its user or for an admin, and whether he is banned only
\* for somebody who is an admin when it happens, though that was looked up before.
EditedByRight ==
    \A u \in Ids : (Exists(u) /\ User'[u] # User[u]) => \E c \in Clients :
        /\ target[c] = u
        /\ by[c] \in {u} \cup admin
        /\ User'[u].banned # User[u].banned => by[c] \in admin
EditsAreByRight == [][EditedByRight]_vars

\* user_fetch_post lists whom it was asked for and nobody else, an email only to
\* its user and to admins, and nothing of somebody who is banned by the time of
\* the answer, though whether the requester is an admin was looked up before.
FetchedByRight ==
    \A c \in Clients : (At(c, "fetch.rows") /\ at'[c] = "idle") =>
        \A r \in shown' :
            /\ r[1] \in ids[c]
            /\ r[2] \in {"email", "adminId"} => by[c] = r[1] \/ by[c] \in admin
            /\ r[2] \notin {"id", "found"} => User[r[1]].banned = "f"
FetchesAreByRight == [][FetchedByRight]_vars

\* Callers see each function act at one moment: what its earlier statements have
\* looked up is still so when its last one writes, and what it refuses is not so
\* when it does, however other calls come between.
FunctionAt(l) ==
    IF l \in {"update.exists", "update.editor", "update.write"} THEN "update"
    ELSE IF l \in {"fetch.admin", "fetch.rows"} THEN "fetch" ELSE "promote"
CallOf(c) ==
    IF At(c, "idle") THEN [f |-> "none"]
    ELSE [f |-> FunctionAt(at[c]), target |-> target[c], by |-> by[c], given |-> given[c],
          ids |-> ids[c], first |-> c \in bootstrap]
Book == INSTANCE AccountBook WITH call <- [c \in Clients |-> CallOf(c)]
ImplementsAccountBook == Book!Spec

\* database.go:463-473 tests UserCheck with an id or an email and a password; so
\* it returns a row for whatever it is asked.
CheckAnswers == reply # "error"

=============================================================================
