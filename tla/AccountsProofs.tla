----------------------------- MODULE AccountsProofs -----------------------------
(***************************************************************************)
(* Proofs that the functions of Accounts.tla keep emails apart and rights  *)
(* in order, for any clients, emails and number of users.  What a call has *)
(* looked up stays true until it writes, because users and admins are only *)
(* added; a function that removed one would need another argument.         *)
(***************************************************************************)
EXTENDS Accounts, TLAPS

-----------------------------------------------------------------------------
\* The inductive invariant.

\* Who is to be changed or promoted has a row once a call has seen it.
TargetSeen == \A c \in Clients :
    at[c] \in {"update.editor", "update.write", "promote.already", "promote.empty",
              "promote.promoter", "promote.insert"} => Exists(target[c])

\* Who is about to write may.
EditorSeen == \A c \in Clients : at[c] = "update.write" =>
    /\ by[c] \in {target[c]} \cup admin
    /\ given[c].banned # Null => by[c] \in admin

\* A promotion without a promoter began without an admin; and only when there is
\* one is the promoter looked up.
PromoterSeen == \A c \in Clients :
    /\ at[c] \in {"promote.exists", "promote.already", "promote.empty"}
          => admin # {} \/ c \in bootstrap
    /\ at[c] = "promote.insert" => by[c] \in admin \/ c \in bootstrap
    /\ at[c] = "promote.promoter" => admin # {}
    /\ c \in bootstrap => at[c] # "idle"

\* What a call has found of its requester is so, and a fetch asks for somebody.
RequesterSeen == \A c \in Clients :
    /\ c \in byAdmin => by[c] \in admin /\ at[c] # "idle"
    /\ at[c] \in {"fetch.admin", "fetch.rows"} => ids[c] # {}

AccountsInv == /\ TypeOK /\ OneAccountPerEmail
               /\ TargetSeen /\ EditorSeen /\ PromoterSeen /\ RequesterSeen

-----------------------------------------------------------------------------
LEMMA RowFacts ==
    /\ \A e \in Emails, b \in {"t", "f"} : [email |-> e, banned |-> b] \in Rows
    /\ NoRow \notin Rows
    /\ NoColumns \in Given
BY NullAssumption DEF Rows, Given, NoColumns

LEMMA AccountsInitially == Init => AccountsInv
<1> SUFFICES ASSUME Init PROVE AccountsInv
    OBVIOUS
<1>1. Root \in Ids /\ Root = 1 /\ Ids \subseteq Nat
    BY MaxUsersAssumption DEF Root, Ids
<1>2. [email |-> RootEmail, banned |-> "f"] \in Rows
    BY RowFacts, RootAssumption
<1>3. User \in [Ids -> Rows \cup {NoRow}] /\ \A u \in Ids : Exists(u) <=> u = Root
    BY <1>2, RowFacts DEF Init, Exists
<1>4. TypeOK
    BY <1>1, <1>3, RowFacts DEF Init, TypeOK, Labels, Replies
<1> QED
    BY <1>3, <1>4 DEF Init, AccountsInv, OneAccountPerEmail, TargetSeen, EditorSeen, PromoterSeen, RequesterSeen

\* What a step may do to the tables.
TablesGrow ==
    /\ User' \in [Ids -> Rows \cup {NoRow}]
    /\ drawn' \in Ids
    /\ \A u \in Ids : Exists(u) => Exists(u)'
    /\ \A u \in Ids : u > drawn' => ~Exists(u)'
    /\ admin \subseteq admin'
    /\ \A u \in admin' : u \in Ids /\ Exists(u)'
    /\ OneAccountPerEmail'

LEMMA TablesKept == AccountsInv /\ UNCHANGED tables => TablesGrow
BY DEF TablesGrow, tables, AccountsInv, TypeOK, OneAccountPerEmail, Exists

\* A row changes to another or comes in: no other row has its email.
LEMMA RowWritten ==
    ASSUME AccountsInv, NEW u \in Ids, NEW row \in Rows, ~Taken(row.email, u),
           User' = [User EXCEPT ![u] = row], admin' = admin,
           drawn' \in Ids, drawn' >= drawn, u <= drawn'
    PROVE  TablesGrow
<1> USE DEF AccountsInv, TypeOK
<1>1. /\ User' \in [Ids -> Rows \cup {NoRow}] /\ User'[u] = row
      /\ \A v \in Ids \ {u} : User'[v] = User[v]
      /\ row # NoRow
    BY RowFacts
<1>2. \A v \in Ids : (Exists(v) \/ v = u) <=> Exists(v)'
    BY <1>1 DEF Exists
<1>3. \A v \in Ids \ {u} : Exists(v) => User[v].email # row.email
    BY DEF Taken
<1>4. OneAccountPerEmail'
    BY <1>1, <1>2, <1>3 DEF OneAccountPerEmail, Exists
<1>5. \A v \in Ids : v > drawn' => (v > drawn /\ v # u)
    BY DEF Ids
<1> QED
    BY <1>1, <1>2, <1>4, <1>5 DEF TablesGrow

\* A call returns.
LEMMA ReturnKeeps ==
    ASSUME AccountsInv, TablesGrow, NEW c \in Clients, NEW r \in Replies,
           NEW rs \in SUBSET (Ids \X Groups), ReturnRows(c, r, rs)
    PROVE  AccountsInv'
<1>1. Root \in Ids /\ NoColumns \in Given
    BY MaxUsersAssumption, RowFacts DEF Root, Ids
<1> USE <1>1 DEF AccountsInv, TypeOK, TablesGrow, ReturnRows, Goto, Labels
<1>2. TypeOK'
    OBVIOUS
<1>3. TargetSeen' /\ EditorSeen'
    BY DEF TargetSeen, EditorSeen
<1>4. PromoterSeen' /\ RequesterSeen'
    BY DEF PromoterSeen, RequesterSeen
<1> QED
    BY <1>2, <1>3, <1>4

\* The next statement of a call: what its label promises has been seen.
LEMMA ContinueKeeps ==
    ASSUME AccountsInv, UNCHANGED tables, NEW c \in Clients, NEW l \in Labels \ {"idle"},
           Continue(c, l) \/ ContinueKnowing(c, l),
           l \in {"update.editor", "update.write", "promote.already", "promote.empty",
                  "promote.promoter", "promote.insert"} => Exists(target[c]),
           l = "update.write" => /\ by[c] \in {target[c]} \cup admin
                                 /\ given[c].banned # Null => by[c] \in admin,
           l \in {"promote.exists", "promote.already", "promote.empty"}
               => admin # {} \/ c \in bootstrap,
           l = "promote.insert" => by[c] \in admin \/ c \in bootstrap,
           l = "promote.promoter" => admin # {},
           l \in {"fetch.admin", "fetch.rows"} => ids[c] # {}
    PROVE  AccountsInv'
<1>1. /\ at' = [at EXCEPT ![c] = l] /\ reply' = "none" /\ shown' = {}
      /\ byAdmin' = byAdmin \/ (byAdmin' = byAdmin \cup {c} /\ by[c] \in admin)
      /\ UNCHANGED <<User, admin, drawn, target, by, given, ids, bootstrap>>
    BY DEF Continue, ContinueKnowing, Goto, NoReply, tables
<1> USE DEF AccountsInv, TypeOK
<1>2. TypeOK' /\ OneAccountPerEmail'
    BY <1>1 DEF Replies, Exists, OneAccountPerEmail
<1>3. TargetSeen'
    BY <1>1 DEF TargetSeen, Exists
<1>4. EditorSeen'
    BY <1>1 DEF EditorSeen
<1>5. PromoterSeen' /\ RequesterSeen'
    BY <1>1 DEF PromoterSeen, RequesterSeen
<1> QED
    BY <1>2, <1>3, <1>4, <1>5

\* A call begins.
LEMMA CallKeeps ==
    ASSUME AccountsInv, NEW c \in Clients, NEW u \in Ids, NEW who \in Ids,
           NEW columns \in Given, NEW asked \in SUBSET Ids,
           NEW l \in {"update.exists", "promote.exists", "fetch.admin"},
           l = "fetch.admin" => asked # {}, Call(c, l, u, who, columns, asked)
    PROVE  AccountsInv'
<1>1. OneAccountPerEmail' /\ \A v \in Ids : Exists(v) <=> Exists(v)'
    BY DEF Call, tables, AccountsInv, OneAccountPerEmail, Exists
<1> QED
    BY <1>1 DEF Call, Goto, NoReply, tables, At, AccountsInv, TypeOK, Labels, Replies,
                TargetSeen, EditorSeen, PromoterSeen, RequesterSeen

\* The server's and others' calls.
LEMMA CallsKeep == ASSUME AccountsInv, NEW c \in Clients, Calls(c) PROVE AccountsInv'
<1>1. ASSUME NEW e \in Emails, NEW banned \in {"t", "f"}, UserCreate(c, e, banned)
      PROVE  AccountsInv'
  <2>1. PICK row \in Rows : row = [email |-> e, banned |-> banned] /\ row.email = e
    BY RowFacts
  <2>2. PICK u \in Ids : u = drawn + 1
    BY <1>1, MaxUsersAssumption DEF UserCreate, AccountsInv, TypeOK, Ids
  <2>3. drawn' = u /\ drawn \in Nat /\ u \in Nat /\ admin' = admin
    BY <1>1, <2>2 DEF UserCreate, AccountsInv, TypeOK, Ids
  <2>4. CASE Taken(e, u)
    <3>1. User' = User /\ Return(c, "not_created")
      BY <1>1, <2>2, <2>4 DEF UserCreate
    <3>2. TablesGrow
      BY <2>2, <2>3, <3>1 DEF TablesGrow, AccountsInv, TypeOK, OneAccountPerEmail, Exists, Ids
    <3> QED
      BY <3>1, <3>2, ReturnKeeps DEF Return, Replies
  <2>5. CASE ~Taken(e, u)
    <3>1. User' = [User EXCEPT ![u] = row] /\ Return(c, "created")
      BY <1>1, <2>1, <2>2, <2>5 DEF UserCreate
    <3>2. ~Taken(row.email, u) /\ drawn' >= drawn /\ u <= drawn'
      BY <2>1, <2>2, <2>3, <2>5
    <3>3. TablesGrow
      BY <2>3, <3>1, <3>2, RowWritten
    <3> QED
      BY <3>1, <3>3, ReturnKeeps DEF Return, Replies
  <2> QED
    BY <2>4, <2>5
<1>2. ASSUME NEW e \in Emails, NEW password \in {Null, "given"}, UserCheck(c, e, password)
      PROVE  AccountsInv'
  <2>1. PICK r \in Replies : Return(c, r)
    BY <1>2 DEF UserCheck, Replies
  <2> QED
    BY <1>2, <2>1, TablesKept, ReturnKeeps DEF UserCheck, Return
<1>3. ASSUME NEW u \in Ids, NEW who \in Ids, NEW columns \in Columns,
             CallUserUpdate(c, u, who, columns)
      PROVE  AccountsInv'
    BY <1>3, CallKeeps, ColumnsAssumption DEF CallUserUpdate
<1>4. ASSUME NEW u \in Ids, NEW who \in Ids, CallUserPromote(c, u, who) PROVE AccountsInv'
    BY <1>4, CallKeeps, RowFacts DEF CallUserPromote
<1>5. ASSUME NEW u \in Ids, NEW users \in SUBSET Ids, user_fetch_post(c, u, users)
      PROVE  AccountsInv'
  <2>1. PICK asked \in SUBSET Ids : asked = IF users = {} THEN {u} ELSE users
    OBVIOUS
  <2>2. asked # {} /\ Root \in Ids
    BY <2>1, MaxUsersAssumption DEF Root, Ids
  <2>3. Call(c, "fetch.admin", Root, u, NoColumns, asked)
    BY <1>5, <2>1 DEF user_fetch_post
  <2> QED
    BY <2>2, <2>3, CallKeeps, RowFacts
<1> QED
    BY <1>1, <1>2, <1>3, <1>4, <1>5 DEF Calls

\* The statements of a function: each returns, or goes on with what it has seen.
LEMMA StatementKeeps == ASSUME AccountsInv, NEW c \in Clients, Statement(c) PROVE AccountsInv'
<1> USE DEF At
<1>1. ASSUME NEW r \in Replies, Return(c, r), UNCHANGED tables PROVE AccountsInv'
    BY <1>1, ReturnKeeps, TablesKept DEF Return
<1>2. CASE UpdateExists(c)
    BY <1>1, <1>2, ContinueKeeps DEF UpdateExists, Replies, Labels
<1>3. CASE UpdateEditor(c)
    BY <1>1, <1>3, ContinueKeeps DEF UpdateEditor, Replies, Labels, AccountsInv, TargetSeen
<1>4. CASE UpdateWrite(c)
  <2>1. PICK u \in Ids : u = target[c]
    BY DEF AccountsInv, TypeOK
  <2>2. Exists(u) /\ User[u] \in Rows /\ given[c] \in Given
    BY <1>4, <2>1 DEF UpdateWrite, AccountsInv, TypeOK, TargetSeen, Exists
  <2>3. PICK row \in Rows : row = Updated(User[u], given[c])
    <3>1. /\ User[u].email \in Emails /\ User[u].banned \in {"t", "f"}
          /\ given[c].email \in Emails \cup {Blank, Null} /\ given[c].banned \in {"t", "f", Null}
      BY <2>2 DEF Rows, Given
    <3> QED
      BY <3>1, RowFacts DEF Updated
  <2>4. CASE Taken(row.email, u)
    BY <1>1, <1>4, <2>1, <2>3, <2>4 DEF UpdateWrite, tables, Replies
  <2>5. CASE ~Taken(row.email, u)
    <3>1. User' = [User EXCEPT ![u] = row] /\ Return(c, "updated") /\ UNCHANGED <<admin, drawn>>
      BY <1>4, <2>1, <2>3, <2>5 DEF UpdateWrite
    <3>2. drawn' \in Ids /\ drawn' >= drawn /\ u <= drawn'
      BY <2>2, <3>1 DEF AccountsInv, TypeOK, Ids
    <3>3. TablesGrow
      BY <2>5, <3>1, <3>2, RowWritten
    <3> QED
      BY <3>1, <3>3, ReturnKeeps DEF Return, Replies
  <2> QED
    BY <2>4, <2>5
<1>5. CASE PromoteExists(c)
    BY <1>1, <1>5, ContinueKeeps DEF PromoteExists, Replies, Labels, AccountsInv, PromoterSeen
<1>6. CASE PromoteAlready(c)
    BY <1>1, <1>6, ContinueKeeps
       DEF PromoteAlready, Replies, Labels, AccountsInv, TargetSeen, PromoterSeen
<1>7. CASE PromoteEmpty(c)
    BY <1>7, ContinueKeeps DEF PromoteEmpty, Labels, AccountsInv, TargetSeen, PromoterSeen
<1>8. CASE PromotePromoter(c)
    BY <1>1, <1>8, ContinueKeeps DEF PromotePromoter, Replies, Labels, AccountsInv, TargetSeen
<1>9. CASE PromoteInsert(c)
  <2>1. CASE target[c] \in admin
    BY <1>1, <1>9, <2>1 DEF PromoteInsert, tables, Replies
  <2>2. CASE target[c] \notin admin
    <3>1. /\ admin' = admin \cup {target[c]} /\ Return(c, "promoted")
          /\ UNCHANGED <<User, drawn>> /\ target[c] \in Ids /\ Exists(target[c])
      BY <1>9, <2>2 DEF PromoteInsert, AccountsInv, TypeOK, TargetSeen
    <3>2. TablesGrow
      BY <3>1 DEF TablesGrow, AccountsInv, TypeOK, OneAccountPerEmail, Exists
    <3> QED
      BY <3>1, <3>2, ReturnKeeps DEF Return, Replies
  <2> QED
    BY <2>1, <2>2
<1>10. CASE FetchAdmin(c)
    BY <1>10, ContinueKeeps DEF FetchAdmin, Labels, AccountsInv, RequesterSeen
<1>11. CASE FetchRows(c)
  <2>1. PICK asked \in SUBSET Ids :
            ReturnRows(c, "rows", UNION {{u} \X Shown(u, c) : u \in asked})
    <3>1. ids[c] # {} /\ ids[c] \in SUBSET Ids
      BY <1>11 DEF FetchRows, AccountsInv, TypeOK, RequesterSeen
    <3> QED
      BY <1>11, <3>1 DEF FetchRows
  <2>2. \A u \in Ids : Shown(u, c) \subseteq Groups
    BY DEF Shown, Groups
  <2>3. UNION {{u} \X Shown(u, c) : u \in asked} \in SUBSET (Ids \X Groups)
    BY <2>2
  <2> QED
    BY <1>11, <2>1, <2>3, TablesKept, ReturnKeeps DEF FetchRows, Replies
<1> QED
    BY <1>2, <1>3, <1>4, <1>5, <1>6, <1>7, <1>8, <1>9, <1>10, <1>11 DEF Statement

LEMMA AccountsStep == AccountsInv /\ [Next]_vars => AccountsInv'
<1> SUFFICES ASSUME AccountsInv, [Next]_vars PROVE AccountsInv'
    OBVIOUS
<1>1. CASE UNCHANGED vars
    BY <1>1 DEF vars, tables, locals, AccountsInv, TypeOK, OneAccountPerEmail, Exists,
                TargetSeen, EditorSeen, PromoterSeen, RequesterSeen
<1> QED
    BY <1>1, CallsKeep, StatementKeeps DEF Next

LEMMA AccountsInvAlways == Spec => []AccountsInv
BY AccountsInitially, AccountsStep, PTL DEF Spec

\* Every variable keeps its type, admins are users, and no row is beyond the serial.
THEOREM AccountsTypeAlways == Spec => []TypeOK
<1>1. AccountsInv => TypeOK
    BY DEF AccountsInv
<1> QED
    BY <1>1, AccountsInvAlways, PTL

\* No two accounts ever have one email.
THEOREM OneAccountPerEmailAlways == Spec => []OneAccountPerEmail
<1>1. AccountsInv => OneAccountPerEmail
    BY DEF AccountsInv
<1> QED
    BY <1>1, AccountsInvAlways, PTL

-----------------------------------------------------------------------------
\* The steps that write.

LEMMA CallsWriteNoAdmin ==
    ASSUME NEW c \in Clients, Calls(c) PROVE admin' = admin /\ reply' # "promoted" /\ at[c] = "idle"
BY DEF Calls, UserCreate, UserCheck, CallUserUpdate, CallUserPromote, user_fetch_post,
       Call, Return, ReturnRows, NoReply, tables, At

LEMMA PromotedStep == AccountsInv /\ [Next]_vars => (PromotedByAdmin \/ UNCHANGED vars)
<1> SUFFICES ASSUME AccountsInv, Next PROVE PromotedByAdmin
    OBVIOUS
<1>1. ASSUME NEW c \in Clients, PromoteInsert(c) PROVE PromotedByAdmin
  <2>1. by[c] \in admin \/ c \in bootstrap
    BY <1>1 DEF PromoteInsert, At, AccountsInv, PromoterSeen
  <2> QED
    BY <1>1, <2>1 DEF PromoteInsert, PromotedByAdmin, Return, ReturnRows
<1>2. ASSUME NEW c \in Clients, Statement(c), ~PromoteInsert(c) PROVE admin' = admin /\ reply' # "promoted"
    BY <1>2 DEF Statement, UpdateExists, UpdateEditor, UpdateWrite, PromoteExists, PromoteAlready,
       PromoteEmpty, PromotePromoter, FetchAdmin, FetchRows, Continue, ContinueKnowing,
       Return, ReturnRows, NoReply, tables
<1>3. ASSUME admin' = admin, reply' # "promoted" PROVE PromotedByAdmin
    BY <1>3 DEF PromotedByAdmin
<1> QED
    BY <1>1, <1>2, <1>3, CallsWriteNoAdmin DEF Next

\* Admins are made by admins, or while there were none; and a promotion that is
\* confirmed is the one that did it.
THEOREM AdminsGrowByAdminsAlways == Spec => AdminsGrowByAdmins
BY PromotedStep, AccountsInvAlways, PTL DEF Spec, AdminsGrowByAdmins

LEMMA EditedStep == AccountsInv /\ [Next]_vars => (EditedByRight \/ UNCHANGED vars)
<1> SUFFICES ASSUME AccountsInv, Next PROVE EditedByRight
    OBVIOUS
<1>1. ASSUME NEW c \in Clients, UpdateWrite(c) PROVE EditedByRight
  <2>1. PICK u \in Ids : u = target[c]
    BY <1>1 DEF AccountsInv, TypeOK
  <2>2. \A v \in Ids \ {u} : User'[v] = User[v]
    BY <1>1, <2>1 DEF UpdateWrite, AccountsInv, TypeOK
  <2>3. User'[u] # User[u] => User'[u] = Updated(User[u], given[c])
    BY <1>1, <2>1 DEF UpdateWrite, AccountsInv, TypeOK
  <2>4. User'[u].banned # User[u].banned => given[c].banned # Null
    BY <2>3 DEF Updated
  <2>5. /\ by[c] \in {u} \cup admin
        /\ given[c].banned # Null => by[c] \in admin
    BY <1>1, <2>1 DEF UpdateWrite, At, AccountsInv, EditorSeen
  <2> QED
    BY <2>1, <2>2, <2>4, <2>5 DEF EditedByRight
<1>2. ASSUME NEW c \in Clients, NEW e \in Emails, NEW banned \in {"t", "f"},
             UserCreate(c, e, banned)
      PROVE  EditedByRight
  <2>1. ~Exists(drawn + 1) \/ drawn + 1 \notin Ids
    BY <1>2 DEF AccountsInv, TypeOK, Ids
  <2>2. \A u \in Ids : Exists(u) => User'[u] = User[u]
    BY <1>2, <2>1 DEF UserCreate, AccountsInv, TypeOK
  <2> QED
    BY <2>2 DEF EditedByRight
<1>3. ASSUME User' = User PROVE EditedByRight
    BY <1>3 DEF EditedByRight
<1>4. ASSUME NEW c \in Clients, Statement(c), ~UpdateWrite(c) PROVE User' = User
    BY <1>4 DEF Statement, UpdateExists, UpdateEditor, PromoteExists, PromoteAlready,
       PromoteEmpty, PromotePromoter, PromoteInsert, FetchAdmin, FetchRows, tables
<1>5. ASSUME NEW c \in Clients, Calls(c),
             ~(\E e \in Emails, banned \in {"t", "f"} : UserCreate(c, e, banned))
      PROVE  User' = User
    BY <1>5 DEF Calls, UserCheck, CallUserUpdate, CallUserPromote, user_fetch_post, Call, tables
<1> QED
    BY <1>1, <1>2, <1>3, <1>4, <1>5 DEF Next

\* A row is changed for its user or an admin, a ban only for somebody who is still
\* an admin when it is written.
THEOREM EditsAreByRightAlways == Spec => EditsAreByRight
BY EditedStep, AccountsInvAlways, PTL DEF Spec, EditsAreByRight

LEMMA FetchedStep == AccountsInv /\ [Next]_vars => (FetchedByRight \/ UNCHANGED vars)
<1> SUFFICES ASSUME AccountsInv, Next, NEW c \in Clients, At(c, "fetch.rows"), at'[c] = "idle",
                    NEW r \in shown'
             PROVE  /\ r[1] \in ids[c]
                    /\ r[2] \in {"email", "adminId"} => by[c] = r[1] \/ by[c] \in admin
                    /\ r[2] \notin {"id", "found"} => User[r[1]].banned = "f"
    BY DEF FetchedByRight
<1> USE DEF At
<1>1. FetchRows(c)
  <2>1. ASSUME NEW d \in Clients, d # c, Statement(d) \/ Calls(d) PROVE at'[c] = at[c]
    BY <2>1 DEF Statement, UpdateExists, UpdateEditor, UpdateWrite, PromoteExists, PromoteAlready,
       PromoteEmpty, PromotePromoter, PromoteInsert, FetchAdmin, FetchRows, Calls, UserCreate,
       UserCheck, CallUserUpdate, CallUserPromote, user_fetch_post, Call, Continue,
       ContinueKnowing, Return, ReturnRows, Goto, AccountsInv, TypeOK
  <2>2. ~Calls(c)
    BY CallsWriteNoAdmin
  <2>3. Statement(c)
    BY <2>1, <2>2 DEF Next
  <2> QED
    BY <2>3 DEF Statement, UpdateExists, UpdateEditor, UpdateWrite, PromoteExists, PromoteAlready,
       PromoteEmpty, PromotePromoter, PromoteInsert, FetchAdmin
<1>2. ids[c] # {} /\ ids[c] \subseteq Ids
    BY DEF AccountsInv, TypeOK, RequesterSeen
<1>3. PICK u \in ids[c] : r \in {u} \X Shown(u, c)
    BY <1>1, <1>2 DEF FetchRows, ReturnRows
<1>4. r[1] = u /\ r[2] \in Shown(u, c) /\ u \in Ids
    BY <1>2, <1>3
<1>5. r[2] \in {"email", "adminId"} => c \in byAdmin \/ u = by[c]
    BY <1>4 DEF Shown
<1>6. r[2] \notin {"id", "found"} => Exists(u) /\ User[u].banned # "t"
    BY <1>4 DEF Shown
<1>7. Exists(u) => User[u].banned \in {"t", "f"}
    BY <1>4 DEF Exists, AccountsInv, TypeOK, Rows
<1> QED
    BY <1>4, <1>5, <1>6, <1>7 DEF AccountsInv, RequesterSeen

\* A fetch shows whom it was asked for, private columns only to their user and to
\* admins, and nothing of the banned.
THEOREM FetchesAreByRightAlways == Spec => FetchesAreByRight
BY FetchedStep, AccountsInvAlways, PTL DEF Spec, FetchesAreByRight

-----------------------------------------------------------------------------
\* The functions implement AccountBook.  A call's label tells which function it is
\* in, so a statement that does not return is a step inside the function.

LEMMA SameTables ==
    /\ \A u : Book!Exists(u) <=> Exists(u)
    /\ \A e, u : Book!Taken(e, u) <=> Taken(e, u)
BY DEF Book!Exists, Book!Taken, Exists, Taken

\* A call that a step leaves alone.
LEMMA OtherCall ==
    ASSUME NEW d, at'[d] = at[d], target'[d] = target[d], by'[d] = by[d],
           given'[d] = given[d], ids'[d] = ids[d], (d \in bootstrap)' = (d \in bootstrap)
    PROVE  CallOf(d)' = CallOf(d)
BY DEF CallOf, At

LEMMA InCall ==
    ASSUME NEW c \in Clients
    PROVE  /\ at[c] = "idle" => Book!Free(c)
           /\ at[c] # "idle" =>
                 /\ Book!Free(c) <=> FALSE
                 /\ CallOf(c).f = FunctionAt(at[c]) /\ CallOf(c).target = target[c]
                 /\ CallOf(c).by = by[c] /\ CallOf(c).given = given[c]
                 /\ CallOf(c).ids = ids[c] /\ CallOf(c).first = (c \in bootstrap)
BY DEF Book!Free, Book!NoCall, CallOf, At, FunctionAt

LEMMA CallAnswers ==
    ASSUME AccountsInv, NEW c \in Clients, NEW r, NEW rs, ReturnRows(c, r, rs)
    PROVE  Book!Answer(c, r, rs)
<1>1. \A d \in Clients \ {c} : CallOf(d)' = CallOf(d)
    BY OtherCall DEF ReturnRows, Goto, AccountsInv, TypeOK
<1>2. CallOf(c)' = [f |-> "none"]
    BY DEF ReturnRows, Goto, AccountsInv, TypeOK, CallOf, At
<1>3. [d \in Clients |-> CallOf(d)]' = [[d \in Clients |-> CallOf(d)] EXCEPT ![c] = [f |-> "none"]]
    BY <1>1, <1>2
<1> QED
    BY <1>3 DEF Book!Answer, Book!NoCall, ReturnRows

LEMMA CallWorks ==
    ASSUME AccountsInv, UNCHANGED tables, NEW c \in Clients, NEW l \in Labels \ {"idle"},
           at[c] # "idle", FunctionAt(l) = FunctionAt(at[c]),
           Continue(c, l) \/ ContinueKnowing(c, l)
    PROVE  Book!Work
<1>1. /\ at' = [at EXCEPT ![c] = l] /\ reply' = "none" /\ shown' = {}
      /\ UNCHANGED <<User, admin, target, by, given, ids, bootstrap>>
    BY DEF Continue, ContinueKnowing, Goto, NoReply, tables
<1>2. \A d \in Clients \ {c} : CallOf(d)' = CallOf(d)
    BY <1>1, OtherCall DEF AccountsInv, TypeOK
<1>3. CallOf(c)' = CallOf(c)
    BY <1>1 DEF CallOf, At, AccountsInv, TypeOK
<1>4. [d \in Clients |-> CallOf(d)]' = [d \in Clients |-> CallOf(d)]
    BY <1>2, <1>3
<1> QED
    BY <1>1, <1>4 DEF Book!Work

LEMMA CallBegins ==
    ASSUME AccountsInv, NEW c \in Clients, NEW u \in Ids, NEW who \in Ids,
           NEW columns \in Given, NEW asked \in SUBSET Ids,
           NEW l \in {"update.exists", "promote.exists", "fetch.admin"},
           Call(c, l, u, who, columns, asked)
    PROVE  Book!Begin(c)
<1>1. \A d \in Clients \ {c} : CallOf(d)' = CallOf(d)
    BY OtherCall DEF Call, Goto, AccountsInv, TypeOK
<1>2. /\ at'[c] = l /\ target'[c] = u /\ by'[c] = who /\ given'[c] = columns
      /\ ids'[c] = asked /\ ((c \in bootstrap)' = (admin = {}))
    BY DEF Call, Goto, At, AccountsInv, TypeOK, PromoterSeen
<1>3. CallOf(c)' = [f |-> FunctionAt(l), target |-> u, by |-> who, given |-> columns,
                    ids |-> asked, first |-> admin = {}]
    BY <1>2 DEF CallOf, At
<1>4. FunctionAt(l) \in {"update", "promote", "fetch"}
    BY DEF FunctionAt
<1>5. CallOf(c)' \in [f : {"update", "promote", "fetch"}, target : Ids, by : Ids,
                      given : Given, ids : SUBSET Ids, first : {admin = {}}]
    BY <1>3, <1>4
<1>6. [d \in Clients |-> CallOf(d)]' = [[d \in Clients |-> CallOf(d)] EXCEPT ![c] = CallOf(c)']
    BY <1>1
<1> QED
    BY <1>5, <1>6, InCall DEF Book!Begin, Call, At, NoReply, tables

\* The statements of UserUpdate act, or refuse, by what is so at that moment.
LEMMA UpdateActs ==
    ASSUME AccountsInv, NEW c \in Clients,
           UpdateExists(c) \/ UpdateEditor(c) \/ UpdateWrite(c)
    PROVE  Book!Update(c) \/ Book!Work
<1> USE InCall DEF At, Book!Update, Book!Refuse, Return, FunctionAt
<1>1. CASE UpdateExists(c)
  <2>1. CASE Exists(target[c])
    BY <1>1, <2>1, CallWorks DEF UpdateExists, Labels
  <2>2. CASE ~Exists(target[c])
    BY <1>1, <2>2, CallAnswers, SameTables DEF UpdateExists, tables
  <2> QED
    BY <2>1, <2>2
<1>2. CASE UpdateEditor(c)
  <2>1. CASE by[c] # target[c] /\ by[c] \notin admin
    BY <1>2, <2>1, CallAnswers, SameTables DEF UpdateEditor, tables, AccountsInv, TargetSeen
  <2>2. CASE by[c] = target[c] /\ by[c] \notin admin /\ given[c].banned # Null
    BY <1>2, <2>2, CallAnswers, SameTables DEF UpdateEditor, tables, AccountsInv, TargetSeen
  <2>3. CASE by[c] \in admin \/ (by[c] = target[c] /\ given[c].banned = Null)
    BY <1>2, <2>3, CallWorks DEF UpdateEditor, Labels
  <2> QED
    BY <2>1, <2>2, <2>3
<1>3. CASE UpdateWrite(c)
  <2>1. /\ Exists(target[c]) /\ by[c] \in {target[c]} \cup admin
        /\ given[c].banned # Null => by[c] \in admin
    BY <1>3 DEF UpdateWrite, AccountsInv, TargetSeen, EditorSeen
  <2>2. Updated(User[target[c]], given[c]) = Book!Rewritten(User[target[c]], given[c])
    <3>1. given[c].email \in Emails \cup {Blank, Null}
      BY DEF AccountsInv, TypeOK, Given
    <3> QED
      BY <3>1, NullAssumption DEF Updated, Book!Rewritten
  <2>3. PICK row : row = Updated(User[target[c]], given[c])
    OBVIOUS
  <2>4. CASE Taken(row.email, target[c])
    BY <1>3, <2>1, <2>2, <2>3, <2>4, CallAnswers, SameTables DEF UpdateWrite
  <2>5. CASE ~Taken(row.email, target[c])
    BY <1>3, <2>1, <2>2, <2>3, <2>5, CallAnswers, SameTables DEF UpdateWrite
  <2> QED
    BY <2>4, <2>5
<1> QED
    BY <1>1, <1>2, <1>3

\* So do the statements of UserPromote.
LEMMA PromoteActs ==
    ASSUME AccountsInv, NEW c \in Clients,
           \/ PromoteExists(c) \/ PromoteAlready(c) \/ PromoteEmpty(c)
           \/ PromotePromoter(c) \/ PromoteInsert(c)
    PROVE  Book!Promote(c) \/ Book!Work
<1> USE InCall DEF At, Book!Promote, Book!Refuse, Return, FunctionAt
<1>1. CASE PromoteExists(c)
  <2>1. CASE Exists(target[c])
    BY <1>1, <2>1, CallWorks DEF PromoteExists, Labels
  <2>2. CASE ~Exists(target[c])
    BY <1>1, <2>2, CallAnswers, SameTables DEF PromoteExists, tables
  <2> QED
    BY <2>1, <2>2
<1>2. CASE PromoteAlready(c)
  <2>1. CASE target[c] \in admin
    BY <1>2, <2>1, CallAnswers DEF PromoteAlready, tables
  <2>2. CASE target[c] \notin admin
    BY <1>2, <2>2, CallWorks DEF PromoteAlready, Labels
  <2> QED
    BY <2>1, <2>2
<1>3. CASE PromoteEmpty(c)
    BY <1>3, CallWorks DEF PromoteEmpty, Labels
<1>4. CASE PromotePromoter(c)
  <2>1. CASE by[c] \in admin
    BY <1>4, <2>1, CallWorks DEF PromotePromoter, Labels
  <2>2. CASE by[c] \notin admin
    BY <1>4, <2>2, CallAnswers DEF PromotePromoter, tables, AccountsInv, PromoterSeen
  <2> QED
    BY <2>1, <2>2
<1>5. CASE PromoteInsert(c)
  <2>1. CASE target[c] \in admin
    BY <1>5, <2>1, CallAnswers DEF PromoteInsert
  <2>2. CASE target[c] \notin admin
    BY <1>5, <2>2, CallAnswers, SameTables
       DEF PromoteInsert, AccountsInv, TargetSeen, PromoterSeen
  <2> QED
    BY <2>1, <2>2
<1> QED
    BY <1>1, <1>2, <1>3, <1>4, <1>5

\* What UserFetch shows of u is what is for its requester, as far as the call knows.
LEMMA ShownIsVisible ==
    ASSUME AccountsInv, NEW c \in Clients, NEW u \in Ids, NEW x
    PROVE  x \in Shown(u, c) <=> /\ x \in Groups
                                /\ Book!Visible(u, x, by[c], c \in byAdmin)
BY SameTables DEF Shown, Groups, Book!Visible

LEMMA FetchActs ==
    ASSUME AccountsInv, NEW c \in Clients, FetchAdmin(c) \/ FetchRows(c)
    PROVE  Book!Fetch(c) \/ Book!Work
<1> USE InCall DEF At, FunctionAt
<1>1. CASE FetchAdmin(c)
    BY <1>1, CallWorks DEF FetchAdmin, Labels
<1>2. CASE FetchRows(c)
  <2> DEFINE rows == UNION {{u} \X Shown(u, c) : u \in ids[c]}
             seen == {r \in ids[c] \X Groups : Book!Visible(r[1], r[2], by[c], c \in byAdmin)}
  <2>1. ids[c] # {} /\ ids[c] \subseteq Ids /\ (c \in byAdmin => by[c] \in admin)
    BY <1>2 DEF FetchRows, AccountsInv, TypeOK, RequesterSeen
  <2>2. ASSUME NEW r PROVE r \in rows <=> r \in seen
    <3>1. r \in rows <=> \E u \in ids[c] : r \in {u} \X Shown(u, c)
      OBVIOUS
    <3>2. \A u \in ids[c] : r \in {u} \X Shown(u, c)
             => r \in ids[c] \X Groups /\ Book!Visible(r[1], r[2], by[c], c \in byAdmin)
      BY <2>1, ShownIsVisible
    <3>3. r \in seen => r[1] \in ids[c] /\ r \in {r[1]} \X Shown(r[1], c)
      BY <2>1, ShownIsVisible
    <3> QED
      BY <3>1, <3>2, <3>3
  <2>3. rows = seen
    <3> HIDE DEF rows, seen
    <3> QED
      BY <2>2
  <2>4. ReturnRows(c, "rows", rows)
    BY <1>2, <2>1 DEF FetchRows
  <2>5. Book!Answer(c, "rows", seen)
    BY <2>3, <2>4, CallAnswers
  <2>6. CallOf(c).ids = ids[c] /\ CallOf(c).by = by[c] /\ CallOf(c).f = "fetch"
    BY <1>2 DEF FetchRows
  <2>7. Book!Answer(c, "rows", {r \in CallOf(c).ids \X Groups :
                                 Book!Visible(r[1], r[2], CallOf(c).by, c \in byAdmin)})
    BY <2>5, <2>6
  <2>8. \E known \in BOOLEAN :
          /\ known => CallOf(c).by \in admin
          /\ Book!Answer(c, "rows", {r \in CallOf(c).ids \X Groups :
                                     Book!Visible(r[1], r[2], CallOf(c).by, known)})
    <3>1. (c \in byAdmin) \in BOOLEAN
      OBVIOUS
    <3> QED
      BY <2>1, <2>6, <2>7, <3>1, Zenon
  <2>9. UNCHANGED <<User, admin>>
    BY <1>2 DEF FetchRows, tables
  <2>10. [d \in Clients |-> CallOf(d)][c] = CallOf(c)
    OBVIOUS
  <2>11. Groups = Book!Groups
    BY DEF Groups, Book!Groups
  <2> QED
    BY <2>6, <2>8, <2>9, <2>10, <2>11 DEF Book!Fetch
<1> QED
    BY <1>1, <1>2

\* A call that is one statement is one step of the book, and so is the beginning of
\* any other.
LEMMA CallsAct ==
    ASSUME AccountsInv, NEW c \in Clients, Calls(c) PROVE Book!Next
<1>1. ASSUME NEW e \in Emails, NEW banned \in {"t", "f"}, UserCreate(c, e, banned)
      PROVE  Book!Create(c, e, banned)
  <2>1. PICK u \in Ids : u = drawn + 1 /\ ~Exists(u)
    BY <1>1, MaxUsersAssumption DEF UserCreate, AccountsInv, TypeOK, Ids
  <2> QED
    BY <1>1, <2>1, InCall, SameTables, CallAnswers
       DEF UserCreate, Return, At, Book!Create, Book!Refuse
<1>2. ASSUME NEW e \in Emails, NEW password \in {Null, "given"}, UserCheck(c, e, password)
      PROVE  Book!Check(c, e)
  <2> DEFINE found == {u \in Ids : Exists(u) /\ User[u].email = e}
  <2>1. found = {u \in Ids : Book!Exists(u) /\ User[u].email = e}
    BY SameTables
  <2>2. CASE found = {}
    <3>1. Return(c, "unknown")
      BY <1>2, <2>2 DEF UserCheck
    <3> QED
      BY <1>2, <2>1, <2>2, <3>1, InCall, CallAnswers
         DEF UserCheck, Return, tables, At, Book!Check, Book!Refuse
  <2>3. CASE \E u \in found : User[u].banned = "t"
    <3>1. Return(c, "banned")
      BY <1>2, <2>3 DEF UserCheck
    <3> QED
      BY <1>2, <2>1, <2>3, <3>1, InCall, CallAnswers
         DEF UserCheck, Return, tables, At, Book!Check, Book!Refuse
  <2>4. CASE found # {} /\ ~\E u \in found : User[u].banned = "t"
    <3>1. Return(c, "found") \/ Return(c, "error")
      BY <1>2, <2>4 DEF UserCheck
    <3> QED
      BY <1>2, <2>1, <2>4, <3>1, InCall, CallAnswers
         DEF UserCheck, Return, tables, At, Book!Check, Book!Refuse
  <2> QED
    BY <2>2, <2>3, <2>4
<1>3. ASSUME NEW u \in Ids, NEW who \in Ids, NEW columns \in Columns,
             CallUserUpdate(c, u, who, columns)
      PROVE  Book!Begin(c)
    BY <1>3, CallBegins, ColumnsAssumption DEF CallUserUpdate
<1>4. ASSUME NEW u \in Ids, NEW who \in Ids, CallUserPromote(c, u, who) PROVE Book!Begin(c)
    BY <1>4, CallBegins, RowFacts DEF CallUserPromote
<1>5. ASSUME NEW u \in Ids, NEW users \in SUBSET Ids, user_fetch_post(c, u, users)
      PROVE  Book!Begin(c)
  <2>1. PICK asked \in SUBSET Ids : asked = IF users = {} THEN {u} ELSE users
    OBVIOUS
  <2>2. Call(c, "fetch.admin", Root, u, NoColumns, asked) /\ Root \in Ids
    BY <1>5, <2>1, MaxUsersAssumption DEF user_fetch_post, Root, Ids
  <2> QED
    BY <2>2, CallBegins, RowFacts
<1> QED
    BY <1>1, <1>2, <1>3, <1>4, <1>5 DEF Calls, Book!Next

LEMMA BookStep == AccountsInv /\ [Next]_vars => [Book!Next]_(Book!vars)
<1> SUFFICES ASSUME AccountsInv, [Next]_vars PROVE [Book!Next]_(Book!vars)
    OBVIOUS
<1>1. CASE UNCHANGED vars
    BY <1>1 DEF vars, tables, locals, Book!vars, CallOf, At
<1>2. ASSUME NEW c \in Clients, Statement(c) PROVE Book!Next
    BY <1>2, UpdateActs, PromoteActs, FetchActs DEF Statement, Book!Next
<1> QED
    BY <1>1, <1>2, CallsAct DEF Next

LEMMA BookInitially == Init => Book!Init
<1> SUFFICES ASSUME Init PROVE Book!Init
    OBVIOUS
<1>1. admin \subseteq {u \in Ids : User[u] # NoRow}
    BY AccountsInitially DEF AccountsInv, TypeOK, Exists
<1>2. \A c \in Clients : CallOf(c) = [f |-> "none"]
    BY DEF Init, CallOf, At
<1> QED
    BY <1>1, <1>2 DEF Init, Book!Init, Book!NoCall

\* Callers who overlap see each function act at one moment: the rights and the rows
\* that its earlier statements looked up are as they were when its last one writes,
\* and what it refuses is so when it does.
THEOREM AccountsImplementBook == Spec => ImplementsAccountBook
BY BookInitially, BookStep, AccountsInvAlways, PTL DEF Spec, ImplementsAccountBook, Book!Spec

=============================================================================
