----------------------------- MODULE AccountBook -----------------------------
(***************************************************************************)
(* What the functions on accounts promise to callers who overlap: each of  *)
(* them acts at one moment between its call and its answer, and answers    *)
(* for the accounts as they are at that moment.  Two things it allows for  *)
(* that a function alone would not show: of the promotions that began      *)
(* while there was no admin more than one may succeed, and a fetch may not *)
(* yet know that its requester has become an admin.                        *)
(* Accounts.tla is the functions of the schema with their statements,      *)
(* shown to implement this specification.                                  *)
(***************************************************************************)
CONSTANTS Clients,   \* who calls
          Ids,       \* of users
          Emails,
          Given,     \* the columns that a call may set
          Null, NoRow

VARIABLES User,      \* User[u]: the row of u, or NoRow
          admin,     \* who is an admin
          call,      \* call[c]: the function c is in and its parameters
          reply,     \* what the last step answered, or "none"
          shown      \* the rows it answered with

vars == <<User, admin, call, reply, shown>>

NoCall == [f |-> "none"]
Free(c) == call[c] = NoCall

\* Nobody is in a call.
Init == /\ admin \subseteq {u \in Ids : User[u] # NoRow}
        /\ call = [c \in Clients |-> NoCall]
        /\ reply = "none"
        /\ shown = {}

Exists(u)   == User[u] # NoRow
Taken(e, u) == \E v \in Ids \ {u} : Exists(v) /\ User[v].email = e

Answer(c, r, rs) == /\ call' = [call EXCEPT ![c] = NoCall]
                    /\ reply' = r
                    /\ shown' = rs

Refuse(c, r) == Answer(c, r, {}) /\ UNCHANGED <<User, admin>>

\* c calls a function; it is remembered if there is no admin.
Begin(c) ==
    /\ Free(c)
    /\ call'[c] \in [f : {"update", "promote", "fetch"}, target : Ids, by : Ids,
                     given : Given, ids : SUBSET Ids, first : {admin = {}}]
    /\ call' = [call EXCEPT ![c] = call'[c]]
    /\ reply' = "none"
    /\ shown' = {}
    /\ UNCHANGED <<User, admin>>

Create(c, e, banned) ==
    /\ Free(c)
    /\ \E u \in Ids :
          /\ ~Exists(u)
          /\ IF Taken(e, u)
             THEN Refuse(c, "not_created")
             ELSE /\ User' = [User EXCEPT ![u] = [email |-> e, banned |-> banned]]
                  /\ Answer(c, "created", {})
                  /\ UNCHANGED admin

Check(c, e) ==
    /\ Free(c)
    /\ LET found == {u \in Ids : Exists(u) /\ User[u].email = e} IN
       \/ found = {} /\ Refuse(c, "unknown")
       \/ (\E u \in found : User[u].banned = "t") /\ Refuse(c, "banned")
       \/ /\ \E u \in found : User[u].banned # "t"
          /\ Refuse(c, "found") \/ Refuse(c, "error")

\* What becomes of a row of which some columns are given.
Rewritten(row, columns) ==
    [email  |-> IF columns.email \in Emails THEN columns.email ELSE row.email,
     banned |-> IF columns.banned = Null THEN row.banned ELSE columns.banned]

Update(c) ==
    LET u    == call[c].target
        may  == call[c].by \in {u} \cup admin
        bans == call[c].given.banned # Null
        row  == Rewritten(User[u], call[c].given)
    IN  /\ call[c].f = "update"
        /\ \/ ~Exists(u) /\ Refuse(c, "no_user")
           \/ Exists(u) /\ ~may /\ Refuse(c, "not_allowed")
           \/ Exists(u) /\ bans /\ call[c].by \notin admin /\ Refuse(c, "not_updated")
           \/ /\ Exists(u) /\ may /\ (bans => call[c].by \in admin)
              /\ IF Taken(row.email, u)
                 THEN Refuse(c, "not_updated")
                 ELSE /\ User' = [User EXCEPT ![u] = row]
                      /\ Answer(c, "updated", {})
                      /\ UNCHANGED admin

Promote(c) ==
    LET u == call[c].target
    IN  /\ call[c].f = "promote"
        /\ \/ ~Exists(u) /\ Refuse(c, "no_user")
           \/ u \in admin /\ Refuse(c, "not_allowed")
           \/ admin # {} /\ call[c].by \notin admin /\ Refuse(c, "not_allowed")
           \/ /\ Exists(u) /\ u \notin admin
              /\ call[c].by \in admin \/ call[c].first
              /\ admin' = admin \cup {u}
              /\ Answer(c, "promoted", {})
              /\ UNCHANGED User

\* Whether group x of u's columns is for who, who is or is not known as an admin.
Visible(u, x, who, known) ==
    \/ x = "id"
    \/ Exists(u) /\ x = "found"
    \/ /\ Exists(u) /\ User[u].banned # "t"
       /\ \/ x \in {"isAdmin", "name"}
          \/ x = "email" /\ (known \/ u = who)
          \/ x = "adminId" /\ known /\ u \in admin

Groups == {"id", "found", "isAdmin", "name", "email", "adminId"}

Fetch(c) ==
    /\ call[c].f = "fetch"
    /\ \E known \in BOOLEAN :
          /\ known => call[c].by \in admin
          /\ Answer(c, "rows", {r \in call[c].ids \X Groups :
                                Visible(r[1], r[2], call[c].by, known)})
    /\ UNCHANGED <<User, admin>>

\* A step inside a function: nothing is answered.
Work == reply' = "none" /\ shown' = {} /\ UNCHANGED <<User, admin, call>>

Next ==
    \/ \E c \in Clients :
          \/ Begin(c) \/ Update(c) \/ Promote(c) \/ Fetch(c)
          \/ \E e \in Emails : Check(c, e) \/ \E banned \in {"t", "f"} : Create(c, e, banned)
    \/ Work

Spec == Init /\ [][Next]_vars

=============================================================================
