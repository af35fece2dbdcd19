# A TLA+ model of the Evedem API server

The Evedem API is a Go server (`net/http`, `pgx`) in front of a PostgreSQL
database: accounts with sessions, products in categories, orders, notifications.
This directory holds TLA+ modules translated from its source, the TLC
configurations that check them on small instances, and theorems that TLAPS
proves for every value of the constants. Paths below are relative to the
repository's root; line numbers refer to the sources the modules were written from.

- [The system](#the-system)
- [Modules and code](#modules-and-code)
- [Runs](#runs)
- [Bounds](#bounds)
- [Fairness](#fairness)
- [Proofs](#proofs)
- [Where the code departs from what is said of it](#where-the-code-departs-from-what-is-said-of-it)
- [What is not modelled](#what-is-not-modelled)
- [Plan](#plan)
- [Running it](#running-it)

## The system

| Component | State it keeps | Operations | Talks to |
|---|---|---|---|
| Process lifecycle (`cmd/api/main.go`, `internal/server/server.go`) | main goroutine, `gracefulShutdown`, `done` | start, listen, signal, shut down | pool, schema, all handlers |
| Schema (`internal/database/database.go:74-847`) | tables, constraints, functions in PostgreSQL | `CheckTables`, `CreateTables` at every start | one connection of the pool |
| Connection pool (`database.go:18-72`) | channel `dbconns`, counter `dbconns_inuse` | `GetDBConn`, `Release`, `new` | every handler that uses the database |
| Session cache (`internal/server/cache_auth.go`) | a map from keys to users and ages, a `sync.RWMutex` | `Get`, `GetUserUUID`, `Set`, `Remove` | `session.go` |
| Sessions (`session.go`, `authentification.go`) | none of its own | `SessionRegister`, `SessionCheck`, `SessionGetUserUID`, `SessionRevoke` | cache, pool |
| Middleware (`controller.go`) | the whitelist | `fetch_auth`, `fetch_body`, `ControllerMiddleware` | sessions, all handlers |
| Orders and products (`route_products.go`) | tables `"Order"`, `"OrderItem"`, `"Product"`, pictures on disk | `products_order_put/post`, `products_post`, `products_put`, ... | sessions, pool |
| Accounts (`route_account.go`, SQL functions `User*`) | tables `"User"` and `admin` | `UserCreate`, `UserCheck`, `UserUpdate`, `UserPromote`, `UserFetch` | sessions, pool |
| Catalogue, notifications (`route_category.go`, `route_notification.go`) | tables, SQL functions | fetch by category and date; post, delete, fetch notifications | sessions, pool |

`net/http` runs each request on a goroutine of its own, so everything two requests
share is reached concurrently: the pool's channel and counter, the cache and its
lock, and the database. What is hard about it:

- **Check and act.** `GetDBConn` looks at the channel, then at the counter, and then
  adds to the counter. `Release` subtracts before it sends. Any number of
  handlers may be between the two (`database.go:47-59`).
- **Parking.** Both ends of the channel can block: a receiver while it is empty, and
  a sender - `Release`, from a deferred call - once it is full.
- **A lock taken twice.** `AuthCache.Get` holds `mtx` when it calls `Remove`, which takes
  it (`cache_auth.go:42-43`).
- **Asking twice.** A request asks the cache in the middleware and again in its handler,
  and `SessionGetUserUID` reads the map once more without the lock
  (`session.go:132`): a session can be revoked or run out in between.
- **Several statements.** An order is an insert and one more for each item, and the
  deferred function commits or rolls back after the answer has been written; the
  connection may break, or the process end, anywhere (`route_products.go:611-668`).
- **The order of deferred calls** decides whether a connection that goes back to the
  pool still has a transaction, or rows, open on it.
- **Rights looked up, then used.** A function that changes or lists users is several
  statements, each of which sees what has been committed when it begins: whoever was an admin two statements
  ago is taken for one (`database.go:348-560`).
- **Starts and stops.** The schema script runs at every start and may fail or be killed
  in the middle; a signal may come at any time, and requests may not finish.

What makes each component correct:

| Component | Properties |
|---|---|
| Pool | a connection is with one goroutine or in the channel once; none is lost; the counter is exact; who waits has somebody to wait for; every `GetDBConn` ends |
| Cache | an answer is the session's owner or nobody; a session ends once and for good; every operation ends |
| Sessions of requests | a request works for its session's user or is refused; one with a good session is served; one whose session ended is not |
| Orders, queries | all or nothing; no transaction in the pool; rows are left open only by who is about to close them; an order that is confirmed is there |
| Accounts | an email leads to one account; admins are made by admins; rows are changed, and shown, by right |
| Lifecycle | what is served has the whole schema; a start changes the schema as a whole; a signal ends the process, and cuts no request short of its five seconds |

## Modules and code

| Module | Models | Of it |
|---|---|---|
| `ConnLease` | what a handler may rely on when it borrows a connection: one holder at a time, from `GetDBConn` to the moment `Release` begins | abstract specification |
| `ConnPool` | `GetDBConn`, `Release`, `new`, `NewServer`'s own use of them | one action for each access to the channel or the counter |
| `SessionLife` | what the rest of the server may rely on of a session: it begins and ends once | abstract specification |
| `RWMutex` | `sync.RWMutex` (external) | a waiting writer keeps readers out |
| `AuthCache` | `cache_auth.go`, and `session.go`'s calls on it | one action for each step under, before and after the lock |
| `Sessions` | the middleware, the whitelist, logins and logouts, and the three ways a handler asks for its user | extends `AuthCache`: a request is a sequence of its operations |
| `OrderBook` | what readers of the shop's tables may rely on: an order appears at one moment, with all its rows | abstract specification |
| `Shop` | what every handler that borrows a connection does with it | one action for each statement sent; the pool is an instance of `ConnLease` |
| `AccountBook` | what callers of the functions on users may rely on: each acts at one moment | abstract specification |
| `Accounts` | the schema's functions on users, as `user_auth_post`, `user_fetch_post` and other clients of the database call them | one action for each statement of a function |
| `Lifecycle` | `main`, `NewServer`, `gracefulShutdown`, the script of `CreateTables` | one action for each kind of statement and each step of the two goroutines |
| `MCSessions`, `MCShop`, `MCAccounts`, `MCLifecycle` | | symmetry and inputs for TLC |
| `ConnPoolProofs`, `ConnPoolCounts`, `ConnPoolLease`, `AuthCacheProofs`, `SessionsProofs`, `ShopProofs`, `AccountsProofs`, `LifecycleProofs` | | theorems |

The compositions are `Shop` over `ConnLease`, which `ConnPool` is shown to
implement, and `Sessions` over `AuthCache`, which is shown to implement
`SessionLife`. Towards the outside, `Shop` is shown to implement `OrderBook` and
`Accounts` to implement `AccountBook`. `Lifecycle` needs of requests only whether they
are in progress, and `Accounts` of its clients only what they ask for.

State and actions keep the source's names where they have one. An action
`X_Something` after the comment "A fault:" is not part of any specification: it
is `X` with a mistake, and one of them breaks each property (the list is
in `PROJECT.json` under `mutants`).

**ConnPool.** `dbconns` is the channel's buffer, `recvq` and `sendq` are the runtime's
queues of goroutines parked on it; a receive from a full channel also takes
the first parked sender's value in (`ReceiveUnparks`), a send to a waiting receiver
bypasses the buffer (`SendToReceiver`). The condition of line 47 is two reads and so two
actions. The plain read of a counter that is otherwise added to atomically is a data race; on the
platforms `exec.ps1` builds for it is an aligned load, so it returns the
value of its moment. `ConnectFails` is `log.Fatal`: the process ends, and a new one starts
with `Start`. The variable `phase` tells `NewServer`, which borrows the first
connection before anybody listens, from the time of requests.

**AuthCache.** An entry's age matters only by whether it has reached the timeout, so
`expired` is a set of sessions and `Expire` adds to it at any time. `Get` is
`GetRLock`, `GetRead`, then `GetMisses`, `GetSucceeds` or `GetExpires`; the last goes on to `GetLock` and
`GetCallsRemove`, which asks for the lock that its goroutine holds. `UIDRead` is the
read without the lock: it may miss an entry while a writer is in the map, or the
runtime may notice and end the process (`UIDReadFaults`). `owner`, `gone`
and `late` are history variables.

**Sessions.** `Receive` is the arrival of a request at the middleware. What is on the whitelist
passes: logins, logouts and the `"public"` handlers, which ask nothing of the cache. The
rest goes through `AuthVerif`, and the router then picks the handler (`Admit`). Handlers differ by how
they ask for the user: `user_fetch_post` and `noti_fetch_post` dereference
`GetUserUUID`'s answer (`FetchPanics` when it is nil: `net/http` recovers and drops the
connection), `products_order_put` and its like ask `SessionGetUserUID` once more, and the
`"plain"` ones do not ask. `noti_post` is a second login handler behind the middleware. With
`DebugMode`, `fetch_auth` returns the nil UUID and `SessionGetUserUID` answers -1;
`TurnedAway` is a preflight's 204, or debug mode's 503 behind a proxy.

**Shop.** By what they do with a connection there are five kinds of handler: `"order"`
(`products_order_put`, `products_order_post`), `"product"` (`products_post`), `"row"`
(`SessionRegister`, `user_post`, `user_patch`), `"list"` (`user_fetch_post`) and `"single"`
(`categories_products_post`, `products_comment_get`, `noti_fetch_post`). `tx[c]` and `work[c]`
are what PostgreSQL knows of the transaction on connection
`c`; a statement that fails there fails the transaction, one that pgx refuses
to encode (a quantity above the column's integer) does not. `Rollback` and
`Commit` are the deferred function of line 611, which sees the last `err`; `Release` is deferred
before it and so runs after it. In a `"row"` handler the order is the other way round, and the rows are
closed after the connection went back (`busy`, `rows`). pgx reports of a query at `Query` what goes wrong
before the statement is sent, and the rest at `rows.Next` and `rows.Err`: handlers of one row answer
500 to both (`QueryFails`), while the loop of a `"list"` takes any error for the end of the rows and answers 200 with
what it has got (`RowsEnd`, at any time and also on a connection that lives). `ConnectionLost` and `Exit` happen
at any time.

**Accounts.** A call of a function is a transaction of which only the last statement writes, so
the statements of two calls interleave at the granularity of `READ COMMITTED`. `at` is the
next statement of a client's call, `target`, `by`, `given` and `ids` are its parameters, and
`byAdmin` is what it has found out about `by`. `reply` and `shown` are what the last step gave back;
`bootstrap` is a history variable: the calls that began while there was no admin, which is when
`UserPromote` asks for none. Emails have the unique key without which the server does not
come up (`lifecycle_empty`). Of a row's columns, email (unique) and banned (for
admins to set) are kept, the two that are treated differently from the others.

**Lifecycle.** The script is one simple query: up to `END` it is one transaction, and
what follows `END` is another. `Runs` says when a statement fails and
`Effect` what it does to the set of the schema's parts. `shutter` is the goroutine of
`gracefulShutdown`: before `NotifyContext`, and after it returned, a signal kills the
process.

## Runs

| Run | Checks | Shows |
|---|---|---|
| `pool_live` | `TypeOK` `OneHolder` `NoConnLost` `InUseExact` `OpenedWithinHandlers` `ParkedReleaseMeansExcess` `WaiterHasProvider` `GetDBConnReturns` `ReleaseReturnsWithoutExcess` `ImplementsLease` | three handlers and the main goroutine over a channel of two: whatever the interleaving, connections are neither shared nor lost; the counter means what it says; its race lets no more connections open than there are handlers; `Release` parks only because of that race; under a fair scheduler nobody waits for ever; the pool implements `ConnLease` |
| `pool_max` | `WithinMaxConns` (violated) | more than `max_connection` connections are opened |
| `cache_expiry` | `CheckReturns` (violated) | the check of an expired session never comes back |
| `sessions_safety` | `TypeOK` `AnswerIsOwnerOrNone` `NoAnswerWhenLate` `LockExact` `OnlyExpiryDeadlocks` `SessionsTypeOK` `ImplementsSessionLife` `EndedIsRefused` `ServedAsOwner` `GoodIsServed` | two requests at a time, two users, every step of the cache between them: ids are never mixed up, a session ends once and for good, a request works for its session's user or for nobody, and is turned away only if its session really ended; every path gives the lock back, and only the check of an expired session can bring the calls to wait for each other |
| `sessions_live` | `RequestsAnswered` | while no session runs out, every request is answered |
| `sessions_debug` | `DebugServes` (violated) | in debug mode `user_fetch_post` gets a nil pointer for its user |
| `shop_safety` | `TypeOK` `AllOrNothing` `RefusedMeansAbsent` `TxHasOwner` `LostOrderMeansLostConnection` `OpenRowsAreClosed` `ImplementsOrderBook` | two requests over connections that break, in a process that ends: an order is whole or absent, no connection goes back with a transaction, only a handler with nothing but its `Close` left gives one back with rows open, and readers of the tables see the atomic order book |
| `shop_commit` | `CreatedMeansCommitted` (violated) | an order answered 201 that is not in the database |
| `accounts_safety` | `TypeOK` `OneAccountPerEmail` `AdminsGrowByAdmins` `EditsAreByRight` `FetchesAreByRight` `ImplementsAccountBook` | two clients that create, edit, ban, promote and list users, statement by statement: emails stay apart, and nobody becomes an admin, changes a row or is shown one without the right to; callers see each function act at one moment |
| `accounts_login` | `CheckAnswers` (violated) | `UserCheck` with a password fails |
| `lifecycle_stop` | `TypeOK` `ServesWholeSchema` `CutMeansTimedOut` `SchemaChangesWhole` `SignalEndsProcess` | starts over every prepared database with signals at any time |
| `lifecycle_empty` | `SchemaComesUp` (violated) | the first start on an empty database panics |

Deadlock is checked where the system goes on for ever. It is not in `pool_max`
(nothing but the bound is of interest), nor in `cache_expiry`, `sessions_safety` and `sessions_live`:
a goroutine that checks an expired session waits for itself, and then the others for
it, so that system really stops.

## Bounds

- `ConnPool`: `Handlers` is the number of requests at a time. Three are needed for a race
  of two against a third that releases, and `MaxConns = 2` makes the channel fill and a
  `Release` park. The theorems below remove both bounds for everything but liveness.
- `Sessions`: two `Procs` (the request in question, and one that logs in, out or checks
  between its steps), two keys, two users, so that ids could be mixed up. A key is stored
  once, as UUIDs are fresh; with the sessions used up only checks and removals go on.
  `sessions_live` has one session, since
  who waits for whom is the lock's doing and not the keys'.
- `Shop`: `MaxOrders` bounds the values drawn from the serial of `"Order"` (2: an order
  beside another one), `MaxProducts` the rows of `"Product"` (2: an item whose product does not exist
  yet), `MaxInt4 = 1` stands for 2^31 - 1, `MCBodies` has one request body for each way
  through the handler (two items, an item twice, none, a quantity of zero, and a quantity that does
  not fit after an item that does), and `MCLists` one list of two users. Actions at these bounds
  are not enabled or fail as the database would.
- `Accounts`: two `Clients`; `MaxUsers = 2` bounds the values drawn from the serial of `"User"` (root, and
  one who registers), two emails, so that a change of email may meet the other's; `MCColumns`
  has one call of `UserUpdate` for each way through it: ban, unban, another email, an empty one.
- `Lifecycle`: two `Requests`; `PreparedDatabases` is every combination of parts in which
  what belongs to tables comes with tables. Starts are not bounded.

The theorems hold for every value of all of these, so that for safety the bounds matter only to what TLC
shows of the mistakes it is given.

## Fairness

Go's scheduler runs every goroutine that can run, so each goroutine's own steps are weakly fair.
Two more things are assumed. The database answers, with a success or with an error, so
`Connect` or `ConnectFails` is taken; and `sync.RWMutex` starves nobody: writers
queue on a `sync.Mutex` that goes over to handing over in order after 1 ms, and a waiting writer keeps
new readers out, so taking the lock is strongly fair. Calls, requests, signals, expiries,
lost connections and starts are never fair: nothing has to happen to the system.
Requests need not finish in `Lifecycle`, where `ShutdownExpires` is the five seconds'
timer. The channel needs no fairness of its own, as its queues are first in, first out.

## Proofs

TLAPS proves every safety property that a passing run checks, for every value of the
constants that satisfies the modules' assumptions:

| Module | Assumed |
|---|---|
| `ConnPool` | the handlers are a finite, non-empty set without the main goroutine; the channel's capacity is a natural number |
| `AuthCache`, `Sessions` | `NoProc` is no goroutine and `NoKey` no key; users are numbered from 1 and `Nobody` is no number; in debug mode the nil UUID is one of the keys |
| `Shop` | `NoConn` is no connection; users are numbered from 1; bodies are sequences of items; the bounds are numbers |
| `Accounts` | there is at least one user id; NULL and the empty string are no emails, `NoRow` is no row |
| `Lifecycle` | databases are sets of the schema's parts |

| Theorem | In | States |
|---|---|---|
| `TypeAlways` | `ConnPoolProofs` | types; in particular nothing but connections is ever in the channel |
| `OneHolderAlways` | `ConnPoolProofs` | no connection is with two goroutines, or with one and in the channel |
| `ZeroNeverServes` | `ConnPoolProofs` | with a maximum of 0 (`ASSUME MaxConns = 0`) the server never serves and never opens a connection |
| `NoConnLostAlways` | `ConnPoolCounts` | every connection opened is in the channel or with one goroutine |
| `InUseExactAlways` | `ConnPoolCounts` | the counter is the number of goroutines between addition and subtraction |
| `ParkedReleaseMeansExcessAlways` | `ConnPoolCounts` | `Release` parks only with more than `MaxConns` connections open |
| `OpenedWithinHandlersAlways` | `ConnPoolCounts` | no more connections than handlers |
| `EnoughForAllIsKept` | `ConnPoolCounts` | if the maximum is at least the number of handlers, it is kept, and no `Release` parks |
| `WaiterHasProviderAlways` | `ConnPoolCounts` | nobody is bound to receive when nobody can send |
| `PoolImplementsLease` | `ConnPoolLease` | `ConnPool` implements `ConnLease` |
| `CacheTypeAlways` | `AuthCacheProofs` | types; no entry is stored without an owner |
| `AnswerIsOwnerOrNoneAlways` | `AuthCacheProofs` | whichever two reads a check is made of, it answers its key's owner, nobody, or the zero id of a session that has gone |
| `NoAnswerWhenLateAlways` | `AuthCacheProofs` | `Get` answers no id for a session that was past its timeout at the call |
| `CacheImplementsSessionLife` | `AuthCacheProofs` | `AuthCache` implements `SessionLife` |
| `LockExactAlways` | `AuthCacheProofs` | the lock is with those between their `Lock` and their `Unlock`, on every path |
| `OnlyExpiryDeadlocksAlways` | `AuthCacheProofs` | the calls never all wait for each other unless one of them checks an expired session |
| `WaitsForItselfForGood` | `AuthCacheProofs` | that one, once it waits for itself, does so for good, and no session is stored or removed any more |
| `SessionsTypeAlways` | `SessionsProofs` | types; a login is answered with a key that is somebody's |
| `RequestsUseCache` | `SessionsProofs` | the requests' behaviours are behaviours of the cache, so the server implements `SessionLife` |
| `OnlyExpiryLocksRequests` | `SessionsProofs` | both for the server: only the check of an expired session locks it up, and for good |
| `EndedIsRefusedAlways` | `SessionsProofs` | a request whose session had ended when it came reaches no handler |
| `ServedAsOwnerAlways` | `SessionsProofs` | outside debug mode (`ASSUME ~DebugMode`) a handler works for its session's owner or for nobody |
| `GoodIsServedAlways` | `SessionsProofs` | a client that has its key is turned away for want of a session only if that session ended |
| `ShopTypeAlways` | `ShopProofs` | types |
| `AllOrNothingAlways` | `ShopProofs` | an order is stored as it was asked for, with all its items, or not at all |
| `RefusedMeansAbsentAlways` | `ShopProofs` | an order answered with an error is not there |
| `TxHasOwnerAlways` | `ShopProofs` | a transaction is open only on the connection of the handler about to end it |
| `LostOrderMeansLostConnectionAlways` | `ShopProofs` | a confirmed order that is not there was lost with its connection |
| `OpenRowsAreClosedAlways` | `ShopProofs` | a connection is busy for its borrower, or for a one-row handler that has given it back and is about to close its rows |
| `ShopImplementsOrderBook` | `ShopProofs` | `Shop` implements `OrderBook` |
| `ShopUsesLease` | `ShopProofs` | the handlers use the pool as `ConnLease` allows |
| `DeadAreNeverReplaced` | `ShopProofs` | a connection that died stays dead, and one of those opened, until the process ends; what is stored is stored over a live one |
| `AccountsTypeAlways` | `AccountsProofs` | types |
| `OneAccountPerEmailAlways` | `AccountsProofs` | no two accounts have one email |
| `AdminsGrowByAdminsAlways` | `AccountsProofs` | an admin is made by an admin, or by a promotion that began while there was none; only one promotion is told it did it |
| `EditsAreByRightAlways` | `AccountsProofs` | a row is changed for its user or for an admin, a ban for an admin |
| `FetchesAreByRightAlways` | `AccountsProofs` | a list shows only whom it was asked for, and of them what the reader may see |
| `AccountsImplementBook` | `AccountsProofs` | `Accounts` implements `AccountBook` |
| `TypeAlways` | `LifecycleProofs` | types |
| `ServesWholeSchemaAlways` | `LifecycleProofs` | a server that listens has the whole schema |
| `SchemaChangesWholeAlways` | `LifecycleProofs` | every change brings the table part as a whole and takes nothing away |
| `CutMeansTimedOutAlways` | `LifecycleProofs` | a request that `main`'s return ends had its five seconds |
| `NeverServesUnfit` | `LifecycleProofs` | over databases that lack the key on emails or `NotificationFetch`, or have the constraints already, the server never comes to serve |
| `ServesOnce` | `LifecycleProofs` | after a process that served, no later one on its database does |

*The pool.* None of its invariants is inductive. That a connection
handed to a parked receiver has no other holder, say, rests on the receiver
having none, on its being in the queue only once, and on new numbers being new. `Shape`
collects what the steps rest on: `TypeOK`; `Attached` (a goroutine has a connection exactly from
getting it to being rid of it); `Numbered` (the next number is not in use); `Queued` (the
queues hold the goroutines parked in them, each once); and `InPhase` (handlers run only
after `NewServer`). It is proved inductive with a lemma for each conjunct and a step for each
action, and each of the other invariants then with it. Those that count
go by the cardinalities of `Holders`, `Counted` and `Deciding` before and after a step
(`OneMore`, `OneLess`, `OneForAnother`). They build on one another: `OpenedWithinHandlers`
needs `NoConnLost`, because a handler that sees the channel empty knows that the holders are all the
connections there are, and that holders, deciders and itself are different
goroutines (`FewEnoughWhenEmpty`); `WaiterHasProvider` needs `InUseExact`,
because the counter that sends a handler to wait must be counting somebody;
the refinement needs `OneHolder` to take one element, and only it, out of a set, and
`OpenedWithinHandlers` for the number of a new connection to be one of `Conn`. A lease ends where
`Release` begins: what a goroutine in `send` or parked in `sendq` still has counts as free, so that
handing it to a parked receiver, and taking a parked sender's value into the buffer, are each one `Take`
of `ConnLease` by the receiver. Two theorems say what the setting is worth.
`ZeroNeverServes`: with 0, which `strconv.Atoi` lets through, `NewServer` is never past its own
`GetDBConn`. `EnoughForAllIsKept`: if no more handlers run at a time than the maximum, it is kept,
though not because of the counter; what `pool_max` shows cannot happen then.

*The cache.* `CacheInv` relates each goroutine's step to the map: which operation it is in and
on which key (`InCall`, `InOp`), that a key on its way to being stored is fresh and is being stored by
one goroutine only (`Storing`, `Apart`), that what is in the map is its owner's (`Owned`), and what the late
calls may have read (`LateKeys`). The argument rests on keys being fresh and not on
the lock: an entry never changes from one user's to another's, so that a reader that comes between may
miss it but not mistake it. So the unlocked read of `session.go:132` mixes up no users in any of the outcomes that
`UIDRead` and `UIDReadFaults` give it: an entry, none, or the end of the process when the runtime notices the
overlap. Go itself promises nothing of a map read that overlaps a write; that there are no other outcomes
is an assumption about the runtime.

The lock has an invariant of its own. `LockInv` is `LockExact` with `Expiring` (who is about to take
the lock in `Get` has an expired key); a step that takes or gives the lock back is shown to keep it, the others
by `LockUntouched`. From it follows who can wait for whom: a writer waits for readers and a reader for
a writer, each of whom goes on by himself, but for the one in `GetCallsRemove`. So
`OnlyExpiryDeadlocks` is a safety property, which says that `cache_expiry` is the only way to lock up, and
`WaitsForItself`, an action property, that there is no way out of it.

*The requests.* `RequestStepIsCacheStep` shows that each step of a request is a step of the
cache or leaves it alone, and with it `CacheInv` holds of `SessionsSpec`. `RequestInv` adds what a
request knows: that the cache was asked about the request's own key, and that a key that has
been issued is in the map until it is removed.

*Orders.* Every action is first restated by its effects on its own goroutine and connection
(`StepFacts`), so that an invariant about one goroutine needs two lemmas: others keep it
(`OthersKeep`), and the goroutine's own step brings it about again (`OwnWork`). `Shape` says who
is where with what: kinds and steps fit (`Kinded`), a goroutine has a connection from `Borrow` to `Release`
(`Leased`), no two have the same (`Apart`, from the lease), the answer fits the step (`Answered`),
and rows are open only where somebody reads them, under his lease, or closes them (`Reading`). `Books` is the accounting: a dead
connection has no transaction (`DeadHasNone`), an order's number is its own (`Numbered`) and not
placed before its commit (`Unplaced`), and the items inserted together with those that are left are
those that were asked for (`Working`, `Whole`). A commit then makes public
what was asked for, because nothing is left.

*The order book.* `OrderBook` has no handlers, transactions, failures or exits: a request gets a number, a
product is added, an order appears. The refinement mapping is the identity on the tables, and
the work is to show that a commit is one `Place`. It needs three facts more than `AllOrNothing`: that what is
asked for came in a body that was found valid (`Bodied`), that the rows of an open
transaction can be there, as `InsertItem` has checked them one by one (`Fitting`), and that an
order is committed once (`Unplaced`). `InsertOrder` draws a number (`Ask`), `InsertProduct` is `Offer`; every
other step of a handler, a lost connection and an exit are stutters. `ShopUsesLease` is the other side of the handlers: their steps on `free` and `lease` are
those of `ConnLease`.

*The composition of pool and handlers.* `PoolImplementsLease` and `ShopUsesLease` meet in
`ConnLease`: whatever the pool does is a lease, and the handlers rely on leases only. (`NewServer` borrows a
connection, too; as a lease it is like a handler's.) That the two specifications joined behave as
their conjunction says is the usual argument for composing through an interface, and is not itself a theorem here.

*Dead connections.* A connection that has died is put back and handed out like any other. `DeadAreNeverReplaced`
says of every step what that comes to: the dead stay dead and stay among the opened (`Opened`, which only an
exit makes smaller), and the tables change only by a handler whose connection is open and alive. It does not say that an outage
is final: as long as the counter allows it `GetDBConn` opens a new connection, beside the dead ones and not in their
place.

*Accounts.* Users and admins are only ever added. So what a call has looked up - that its user exists,
that its requester is an admin - is still true when its last statement acts on it; and the writing
statement itself, with the unique key, decides about emails and second promotions.
`AccountBook` says it to the callers: each function is one step between call and answer, and acts by what
is so at that step. The mapping forgets which statement a call is at (`CallOf`), and keeps what
it was called with and whether it began without an admin. A statement that goes on is a step
inside the function (`CallWorks`), one that returns is the function's action (`UpdateActs`, `PromoteActs`,
`FetchActs`): a refusal is right when it is given, although another statement found its reason, and
`UpdateWrite` and `PromoteInsert` have the rights that were looked up before. The two liberties of `AccountBook` are
those of the code: of the promotions that began without an admin more than one may succeed, and a fetch
may miss that its requester has just become an admin.

*The lifecycle.* `SchemaInv` says what the statements run so far have brought about
(`Progress`), and that the script runs only for a process in `NewServer` or one that has gone
(`ScriptRuns`). `Drained` says that `Shutdown` is over only with the requests or their time, and that `done`
comes after it. How far `lifecycle_empty` goes is the subject of two theorems. A database is `Unfit` if it has
the constraints, or lacks the key on emails or `NotificationFetch`; `GetsNowhere` follows the script over such a
one and shows that it stops at one of three statements, and that what it may commit on the way is unfit, too. And
a database that was served has the constraints, so `ServesOnce`: without somebody's
work on the database in between, a server can be started with success once.

Only model-checked: the liveness properties (`GetDBConnReturns`,
`ReleaseReturnsWithoutExcess`, `RequestsAnswered`, `SignalEndsProcess`), which rest on
fairness and are beyond this prover. `WaiterHasProvider`, `ParkedReleaseMeansExcess`,
`OnlyExpiryDeadlocks` and `CutMeansTimedOut` are what is proved of them: that there is somebody to
wait for, and what the exceptions are. The six properties that runs show violated have no theorem; around four of them
`EnoughForAllIsKept`, `WaitsForItselfForGood`, `LostOrderMeansLostConnectionAlways` and
`NeverServesUnfit` say when they hold and what their failure means.

## Where the code departs from what is said of it

1. `pool_max`: `example.env:20` sets a maximum number of connections (under a name that
   begins with `EVEDEM_`; `database.go:29` reads `EVERDEEM_DB_MAX_CONNECTIONS`). Two handlers that pass line
   47 together open one more, and so does one that looks while another has taken a connection out of the channel and not
   yet counted itself (lines 51-52). The consequence is bounded (`OpenedWithinHandlers`) but lasting: nothing closes a
   connection, and from then on a `Release` may park (`ParkedReleaseMeansExcess`).
2. `cache_expiry`: `authentification.go:9-11` gives `AuthVerif` two outcomes. For a session past
   its timeout there is a third: it never returns, and neither does whoever needs the lock
   later.
3. `sessions_debug`: `main.go:49` says that debug mode requires no authentication.
   For `user_fetch_post` the look-up of the nil key then gives a nil pointer, which it
   dereferences; `noti_fetch_post` does the same (`route_notification.go:154`).
4. `shop_commit`: `route_products.go:621` speaks of an appropriate response to a failed commit; by then
   201 has been written.
5. `lifecycle_empty`: `README.md:18` promises a running server. The script's
   `ON CONFLICT (email)` has no unique key to go by, so on an empty database `NewServer`
   panics; it comes up only over a database prepared otherwise (`NeverServesUnfit`), and
   once (`ServesOnce`), since `ADD CONSTRAINT` fails at the next start.
6. `accounts_login`: `UserCheck` declares `v_stored_password` (`database.go:407`) and compares with
   `v_store_password` (line 442). PL/pgSQL finds out when it gets there, so every login with a
   password of a user who is not banned fails; `user_auth_post` answers it with an error. The script's own tests
   (`database.go:462-473`) call the function as one that returns rows.

The runs keep these as violations; the other properties are stated so as to say what
holds in spite of them.

## What is not modelled

- `GetCategoryProducts` and the query for comments are single `SELECT`s over rows that they do
  not change: there is no state or order of steps in them, and what they compute is PostgreSQL's
  arithmetic on dates. Their handlers' use of a connection is in `Shop`.
- `NotificationFetch`: no call of it succeeds, as `Scan` is given no pointer, and the handler's query
  names a column `"notificationId"` that the function returns in lower case. (Nor would a missing limit choose the default: it is sent as
  NULL, which overrides it.) `Shop` and `Sessions` have the handler with that outcome. `noti_delete` is not registered.
- `products_put` and `product_img_get` write and read pictures under fresh names: file I/O
  without state shared between requests.
- `user_post` and `user_patch` call functions that are not in the schema. `Shop` has their use of a
  connection, and `Accounts` the functions that are there. A user who is banned keeps his sessions,
  as no request asks for it but a login and `UserFetch`.
- JSON bodies and the messages of `ApiError.HTTPSend` are formatting; the models keep the
  status.
- The pool with `MaxConns = 0`, with which `NewServer` waits for ever, is run by no configuration; it is
  the subject of `ZeroNeverServes`. Connections that die are put back and never replaced;
  `Shop` has this (`dead`), with `DeadAreNeverReplaced` about it and no property of a run: nothing in
  the code promises otherwise.
- That a list of users is answered 200 although an error ended it (`route_account.go:227`) is in `Shop` and is no
  property: an answer cut short cannot be told from a whole one, and nothing is said of it.
- A second Ctrl+C, which `gracefulShutdown` announces to force the exit and which does not, is a
  stutter of `Lifecycle`.
- The command line's `-h` and `-v`, build files and containers, except that a process
  may be started again.
- PostgreSQL, pgx, `net/http` and the Go runtime appear by what the code relies on of
  them, and are marked external in `PROJECT.json`.

## Plan

Done: `ConnLease`, `ConnPool`, `AuthCache`, `SessionLife`, `Sessions`, `OrderBook`, `Shop`, `AccountBook`,
`Accounts`, `Lifecycle`; a proof of each safety property, and of each of the four refinements. What would be left to do:

- An abstract specification of the requests of `Sessions` (a request is served or refused at one
  moment of its session's life), and the refinement proved.
- One of the process (down, serving, draining), with `Lifecycle` shown to implement it.
- The steps that liveness rests on, as action properties: that each step of a call brings its end nearer.

And with changes of the code:

1. `products_put`'s pictures, if the handler comes to remove or replace files.
2. `GetCategoryProducts` and `NotificationFetch` as pure definitions against a reference, once the
   latter can be called.
3. `Shop` and `Accounts` composed, once `user_post` and `user_patch` call functions of the schema.

## Running it

    tlc -workers 2 -config MCShop_safety.cfg MCShop
    tlapm ShopProofs.tla

and so on for each run of `PROJECT.json`. The longest run is `shop_safety` (some million states,
about a minute); the proofs take about five minutes in all, `ShopProofs` two of them.
