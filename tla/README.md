# A TLA+ verification of ldap-manager

ldap-manager is a Go service that creates, changes and deletes user accounts and
groups in an OpenLDAP server. It is a library (the package at the root of the
repository), a gRPC service with a JSON gateway in front of it (`cmd/ldap-manager`)
and a web frontend. It keeps next to no state of its own: what it knows is in the
directory, and every operation is a sequence of LDAP round trips that nothing
serialises, neither between the goroutines of one process nor between replicas. What it
does keep is one LDAP connection per process, shared by all requests, and the rights it
has signed into tokens. That is what these modules are about.

## 1. Inventory

| Component | State | Operations | What is hard |
|---|---|---|---|
| Directory (OpenLDAP, external) | the two OUs, account and group entries, the devices `cn=lastUID` and `cn=lastGID` | Add, Modify, ModifyDN, Delete, Search; each atomic | it is shared; it refuses to empty a `groupOfUniqueNames` |
| Number allocation (`utils.go`, `setup.go`) | the serial numbers of the two devices | `getHighestID`, `updateLastID`, `setupLastID` | search and update are two round trips |
| Groups (`groups.go`, `group_members.go`) | group entries | `NewGroup`, `DeleteGroup`, `UpdateGroup`, `AddGroupMember`, `DeleteGroupMember` | existence of a user is read off the membership in the default group |
| Accounts (`accounts.go`) | account entries | `NewAccount`, `UpdateAccount`, `DeleteAccount` | up to a dozen round trips, each of which may meet what others did |
| Setup (`setup.go`) | units, devices, first administrator and groups | `SetupLDAP` | crash in the middle, several replicas at once |
| Login and tokens (`accounts.go`, `change_password.go`, `grpc/auth.go`) | the identity the shared connection is bound as; the claims in the tokens out there | `AuthenticateUser`, `Login`, `authenticate`, `ChangePassword` | the connection is rebound under everybody's feet; claims age and are renewed |
| Gateway and handlers (`grpc/ldap-manager/*.pb.gw.go`, `*_grpc.pb.go`, `cmd/ldap-manager/grpc`) | none but the call under way | routing, assembling of the message, dispatch, policy, translation of errors | verb, pattern, handler and policy are four tables by name; the same field comes from body, path or query |
| Server lifecycle (`cmd/ldap-manager/server.go`, `grpc/server.go`, `http/server.go`, `base/server.go`) | two listeners, two `SetupMux`, a wait group, `Healthy` | serve, connect, shut down on a signal | locks held on early returns, a dial that blocks, a connection closed by another goroutine |
| Listing (`GetUserList`, `GetGroupList`, `GetGroup`) | none | filter, sort, clip, count | boundaries of the page; two searches for one list |
| Name escaping (`escapeDN`, `escapeFilter` in `utils.go`) | none | how a name gets into a DN, a filter, an attribute | applied a different number of times on different paths |
| Frontend (`frontend/src`) | the user in memory, in the header and in localStorage; the page | `login`, `handleTokenResponse`, `logout`, router guards, turning of pages | late answers, reloads, tabs that share localStorage, getters that are cached |

How they interact. `serve` starts the gRPC server, whose `Connect` runs `Manager.Setup`
(dial, bind, `SetupLDAP`) before the listener is served; grpc-go then starts a goroutine
per request, and all of them share the one `*ldap.Conn` of the `LDAPManager`. The gateway
turns HTTP requests into calls of the gRPC server over a connection that `main` dials
once. A handler looks up the policy of its method, validates the token, and calls the
manager. `NewAccount` calls `NewGroup` and `AddGroupMember`; `SetupLDAP` calls `NewAccount`
and `NewGroup`; all of them use the number allocation. Replicas meet in the directory only.

What makes each of them correct: numbers are unique and are not handed out twice;
the counters keep up with the numbers in use; every member of a group is an account and
every account is in the default group, with a gidNumber some group has; the two default
groups stay; setup can be interrupted anywhere and repeated, and races with other setups
without leaving something half made; every request is answered. The connection is the
manager's again after every login; a token says it is an administrator's only when it
descends from an administrator's login; nobody changes another one's account without such
a token. A tab sends and shows the user it has signed in, and forgets him at a logout. A REST call with
plain names reaches the method, account and group it names, and is answered with
success only when the work was done. A process opens once, does not take the connection
from a call, and ends when it is told to. A client that turns pages misses nothing.
`PROJECT.json` lists the hazards line by line under "hazards", with the properties that
watch over them.

## 2. The modules

There are six state machines: the manager, its sessions, the gateway, the process, the lists and
the frontend. Three share `Service`, what every handler does about tokens and errors.

| Module | Models | Extends |
|---|---|---|
| `Directory` | the LDAP server: state, and for every kind of round trip its result code (`XCode`) and its effect (`X`) | |
| `Worker` | a goroutine: its label, its locals, where the shared functions return to | `Directory` |
| `Groups` | `groups.go`, `group_members.go`, `getHighestID`, `updateLastID` | `Worker` |
| `Accounts` | `accounts.go` (`NewAccount`, `UpdateAccount`, `DeleteAccount`), `setupLastID` | `Groups` |
| `Setup` | `setup.go` | `Accounts` |
| `LDAPManager` | replicas that boot, serve requests in goroutines, crash and boot again | `Setup` |
| `ManagerProperties`, `MCManager` | what is checked of it, and the instances for TLC | `LDAPManager` |
| `ManagerProofs`, `SetupProofs`, `SequentialProofs` | theorems | `ManagerProperties`; the other two extend `ManagerProofs` |
| `Service` | what all handlers share: methods, policies, claims, `authenticate` with the checks of the handlers, status codes | |
| `Sessions`, `MCSessions` | logins, tokens and the shared connection | `Service` |
| `SessionProofs` | theorems | `Sessions` |
| `Gateway`, `MCGateway` | a REST or gRPC call from the path to the HTTP code | `Service` |
| `GatewayProofs` | theorems | `Gateway` |
| `Daemon` | abstract: what a process promises its clients | |
| `Lifecycle` | the four goroutines of a process; implements `Daemon` | |
| `LifecycleProofs` | theorems, the refinement among them | `Lifecycle` |
| `Listing` | the lists, and a client that turns their pages | |
| `ListingProofs` | theorems | `Listing` |
| `Frontend`, `MCFrontend` | who is signed in, in the tabs of a browser | `Service` |
| `FrontendProofs` | theorems | `Frontend` |

### LDAPManager: the manager's operations

A worker stands at a label (`proc[w].pc`) just before an LDAP round trip, and one action is
that round trip together with all the Go code up to the next one: the server's code, the
branches on the error, the assignments to locals. So `NewAccount` is `NewAccountFind`
(the search for the uid), `HighestCached` and `HighestScan` (`getHighestID`),
`AccountGroup` and what follows it (`getGroupForAccount`), `NewAccountAdd`, `AddMember`,
`NewAccountLast`. A function with several callers (`getHighestID`, `setupLastID`, `NewGroup`,
`AddGroupMember`, `NewAccount`; none is re-entered) is entered by an operator of its name
that notes in `ret` where to go back to. What the caller then does with the error before its
own next round trip can be an action of its own that changes nothing but the worker's
locals (`NewAccountUID`, `AccountGroupMade`, `SetupLastGID`, ...): it commutes with
everything the others do. Where the code walks over a list of groups in the order of the
server's answer, `todo` is a set and any order is allowed.

What is abstracted here:

* Names are model values. A fallback group bears an account's name, hence `User \subseteq Group`.
* Of an account entry only the number and the group number remain; of a group entry the
  number and the members. Passwords are the matter of `Sessions`.
* Requests that fail validation before the first round trip answer with an error and change
  nothing; `WellFormed` and the `Serve` operators keep only the ones that matter (empty names,
  protected groups).
* A member value that is a DN is the name of the account.
* `strict` of `NewGroup` and `keepGroups` of `DeleteAccount` are false in every call of the
  program. `allowNonExistent` of `AddGroupMember` is true in one: `UpdateAccount`, when it moves
  a renamed account from group to group (`accounts.go:469`); `UpdateJoin` adds without a check. In `DeleteGroupMember`,
  `allowDeleteOfDefaultGroups` is the caller's administrator claim.
* The group schema is RFC2307bis, the default in `config/config.go` and on the command line.
* `MinUID` and `MinGID` are one small constant; integers are not bounded (32 bits are
  far from being reached by counting up from 2000, explicit numbers of that size are left out).
* A process that dies is `Crash`; a round trip that fails in a process that lives on is not
  modelled here.
* `retired` is a history variable: the numbers that deleted entries had.
* `RefInt` says whether the server rewrites memberships itself when an entry is renamed or
  deleted. The image that `deployment/docker-compose.yml` and the tests start ships this
  overlay, the code tries to do the work itself; so the runs state which of the two they assume.

`Start` chooses the beginning: `"down"`, an empty directory and no process; `"ready"`, the
directory that one undisturbed `SetupLDAP` leaves, with every replica serving;
`"skip"`, replicas some of which serve an empty directory, which is what
`Manager.Setup(skipSetupLDAP = true)` offers to users of the library (and `SkipSetup` to the
tests), while others are still to run the setup.

### Sessions: logins, tokens, the connection

`bound` is the identity `m.ldap` is bound as. A login is four round trips, the user's search
(`LoginSearch`), the bind as the user (`LoginBind`), the deferred `BindAdmin`
(`LoginRebind`) and the look-up of the administrators (`LoginMember`), after which the token is
signed. Every other action answers according to `bound` at its own moment: as anybody but the
manager, a search finds nothing and a change is refused. `ChangePassword` keeps its two round
trips. The requests that matter here only by what they do to passwords, names and
administrators are one step each (`Apply`); their own interleavings are `LDAPManager`'s.

`tokens` holds the claims of all tokens that validate; a request comes with any of them or
none, `Authorise` (in `Service`) decides, `UpdateAccount` answers with a renewed one, and
`Expire` lets any token go at any time. The field `from` of a token is history: whose login it
descends from. `wasAdmin` is history too. `RebindMayFail` says whether `BindAdmin` can fail.

### Gateway: from the path to the answer

`Ask` is a client that fills a method's path in, with any names, `AskStray` one that asks for
any other path, `Invoke` a client of the gRPC interface. The frontend concatenates paths without
escaping (`accounts.ts:115`, `137`), so `PathOf` writes each name as the segments its slashes make
of it (`Pieces`), which may be an empty one. `Route` is two muxes. The server's redirects paths
with empty or dotted segments (`Clean`, `http/server.go:91`): 301. The gateway's takes what
follows the last colon of the last segment for a verb (`Cut`, `Components`, `NoColonVerb`), which
no pattern has, and compares verb and segments (`Found`): 404, or 405 when another verb would
fit. A name that passes through all this as one segment is `Plain`.
`Assemble` decodes body,
path and query in the order of the generated `request_..._0` function of each method,
`Serve` finds the handler, the policy and the token's rights, `Manage` lets the manager
return any error that its part of the method can return, and `Finish` is what the service does
when the manager has succeeded and may still fail at (`Late`): signing the token of an
`UpdateAccount` or a `Login`, an entry without name or number, the look-up of the administrators.
Left out are the POST fallback and `X-HTTP-Method-Override` of the gateway's mux, the route of the
health check, and names with `?`, `#` or `%`, of which a URL parser makes something else before
anything is sent or routed.
The tables `AccountVerb`, `GroupVerb`, `Pattern`, `AccountHandler` and `GroupHandler` are the
generated code's. A message keeps the account and the group it names.

### Lifecycle: main, two servers and the signal

One variable per goroutine (`main`, `handler`, `grpcServe`, `httpServe`) holds its place; the
others are what they share. `GracefulStop` of grpc-go (no new call, wait for
those under way, `Serve` returns) and of the embedded service are external. A nil interface
is a server not started; calling it is `process = "panicked"`. `Begin` and `End` are the calls
of clients. `Daemon` has two variables; the refinement computes `phase` from `process`,
`stop` and `grpcServe`, and `running` is `calls`.

### Listing: pages

Names are numbers in the place of strings, so that they have an order; `Value` is the
attribute users may be sorted by, shared or missing (0) as LDAP allows. `Search`, `Count`
and `Reply` are one request, `TurnPage` is the loop of `frontend/src/components/Account.vue`,
`Appear` and `Vanish` are everybody else. `Keyed` is the Go map by sort key (entries with the same
key replace one another, entries without one are dropped), `Orders` the sort (users are
sorted downwards when asked for `ASCENDING`; groups and members as asked), `Clip` the page:
one that reaches or passes the last entry is not cut at all, but the whole list.

### Frontend: who is signed in

`tab` is what a tab has in memory (the state of the auth store, the axios header, the page),
`storage` the items in localStorage, which tabs share, `flight` the requests without an answer.
`HandleTokenResponse` and `Logout` are the store's actions, `Load` is a page load with the guard
and `mounted`, `Navigate` a link, and an answer may come whenever it likes. Pages are of two kinds,
as the guards are. The login form sends every login twice, its button by click and by
submit, hence two copies of the request.

A getter falls back on localStorage, which Vuex does not watch. So `seen` is what the getters have
read there: it changes when their part of memory does (`SeenSignedIn`, `SeenLeaving`) and,
for the token, when a page brings a store module with it that makes the getters anew (`unread`).
`left` and `overtaken` are history: a logout since the last login, and a user who did not
wait for an answer. The properties of a tab that is the only one (`Alone`) are conditional on them.

### Fairness

* `LDAPManager`: `WF(Step)` and `WF(Reply)` per worker, since a goroutine that was started
  runs on (the Go scheduler is preemptive and the directory answers), and `WF(Boot)`: a
  process that is down is started again by the container orchestrator the deployments use. Nothing is
  asked of `Accept` or `Crash`. A worker is at one label, so it has one kind of step to take,
  and no fairness on single disjuncts is needed.
* `Sessions`: `WF(Step)` and `WF(Reply)` per worker, for the same reason. None on `Accept`, `Expire`.
* `Lifecycle`: `WF` on the steps of each of the four goroutines and on `End` (a call is
  answered in the end). None on `Begin` and `Signal`.
* `Gateway`, `Listing` and `Frontend` are checked for safety only; a call and a walk have no loop in
  them, and nothing makes a user act or a lost answer come.

## 3. The runs

Passing runs:

| Run | Question | Bounds, and why they are enough |
|---|---|---|
| `setup` | Two setups of an empty directory, interrupted anywhere: does a replica end up serving for good, and is the directory complete whenever one serves? | 2 replicas, 2 crashes. The race is between two; a second crash may hit the repair of the first |
| `sequential` | One request after the other, no explicit numbers, no account renamed: are numbers unique and never reused, do the counters keep up, is every account in the default group, is an account that was reported deleted in no group any more? | 1 worker, 5 requests out of 10: create, delete, create again and look |
| `concurrent` | Two goroutines, every mix of requests: does the join after an account's creation ever fail, do the default groups stay, is every request answered? | 2 workers, 2 requests each out of 17. Every race is between a read and a write of one worker and the writes of another |
| `first_accounts` | Two replicas on a directory that is not set up: is an account reported as created a user, with the number of a real group? | 2 replicas, 2 requests each |
| `session_alone` | Is the right password always accepted, are administrators' tokens earned, does it take one to create an account or to make or unmake another administrator? | 1 worker, 5 requests: log in, be promoted, log in, be demoted, act |
| `session_mixed` | Two goroutines on one connection: is it the manager's again, is every request answered, do tokens reach other accounts? | 2 workers, 2 requests each out of 17 |
| `rest_calls` | Do path, body, query and token together always mean what the path says? | an account called `password`, a group called `update`, no name at all; a group `staff/member/ann`, last segments with a colon and with `..`; every method, every mix |
| `lifecycle` | Every interleaving of the four goroutines, failures and a signal: does what clients see match `Daemon`, does a stop complete, does the start? | 3 calls at once; nothing depends on more |
| `listing` | Does a client that turns pages see everything, do undisturbed pages overlap? | 3 names, pages of one, 2 changes anywhere: first, middle and last page are different |
| `frontend` | Logins, updates, logouts, links and reloads: does a tab stay with its own user, whatever the other does? And while it is the only one: is the user who is shown the one who is sent, is he gone after a logout, do the guards hold? | 2 tabs, one possibly never opened, 2 accounts, one an administrator, 2 requests: a login and its copy, or two updates. A tab meets others through `storage` only, so two are as good as many |

Runs that TLC must find violated; each is a disagreement between the code and what its own
comments or tests say, quoted in `PROJECT.json` under "findings":

| Run | Property | What happens |
|---|---|---|
| `shared_uid` | `UIDsUnique` | two `NewAccount` read the same counter |
| `shared_connection` | `GoodLoginAccepted` | a login searches while another one has the connection bound as its user |

They are also where the passing runs have to stop: uniqueness holds for requests one at a time,
good logins are accepted one at a time.
`CHECK_DEADLOCK FALSE` where clients may stop sending (the request bound is reached), a
failed replica stays down, the process has ended or the walk is over; `rest_calls` goes
round for ever and checks deadlock: every call is routed and answered.

Every property of a passing run has a mutant under "mutants": a bug of the kind one would
make in that very definition, for which TLC reports the property violated.

### Other places where code and words part

The models contain these, and a run of its own for each would repeat what is said here. To
see one, give the run named the change in brackets and TLC finds the violation.

* An explicit uid or gid below the counter moves the counter back (`accounts.go:394`), and later
  accounts get numbers already used, against `setup.go:67`: `NumbersRecorded`, `NumbersNotReused` and
  `NumbersUnique` in `sequential` [add `CreateAs(bob, 1)` to the requests].
* A number that an update sets above the counter does not move it (`accounts.go:519`, `groups.go:204`):
  `NumbersRecorded` in `sequential` [add `Renumber(ann, 4)`].
* Groups take their numbers like accounts, in a search and an update (`groups.go:93`), so two may get
  the same: `GIDsUnique` in `sequential` [two workers, and `Found(bob, {admin})`].
* `DeleteAccount` lists the groups, leaves them and deletes the entry in separate round trips, and
  `AddGroupMember` looks for the account in one and adds it in another (`group_members.go:177`). So a
  membership may outlive its account, against `group_members_test.go:63` ("make sure after a
  user is deleted it is not longer a member of any group"): `DeletedLeavesGroups` in `sequential`
  [two workers].
* `UpdateGroup` renames a default group (`groups.go:184`), which may not be deleted:
  `ProtectedGroupsStay` in `concurrent` [add `RenameGrp(users, staff)`].
* A crash between the Add of a group and the update of the counter is never repaired, since
  `setupLastID` leaves an existing device alone (`setup.go:60`): `NumbersRecorded` in `setup`
  [add it to the invariants].
* Without the overlay, the groups of a renamed account are looked up under its new name and none
  is found (`accounts.go:458`), against `accounts.go:457` ("migrate user from all his groups"); the old
  name stays in the groups and the account is in none: `NoDanglingMembers` and `AccountsAreUsers` in
  `sequential` [add `Rename(ann, bob)`, and the first to the invariants].
* `DeleteAccount` gives up at a group whose last member the user is, after having left others
  (`accounts.go:548`): `AccountsAreUsers` in `sequential` [let `Found(staff, {ann})` make a
  group of one].
* A name that is not plain may not reach the method it was written for: an empty one is redirected,
  one with a colon not found, and the deletion of a group called `staff/member/ann` is that of
  ann's membership in `staff` (`accounts.ts:115`, `137`): `RoutedAsAimed` in `rest_calls` [leave out
  the two conditions `Plain`].
* `UpdateAccount` may have changed the directory and fail to sign the token that it answers with
  (`grpc/accounts.go:91`), and `Login` may fail after the password was found right
  (`grpc/auth.go:84`, `104`). `DoneMeansDone` says which methods may do so, and with which code.
* The error of the deferred `BindAdmin` is dropped (`accounts.go:225`); the connection then stays
  bound as the user and every later request is refused: `AdminRestored` in `session_mixed`
  [`RebindMayFail = TRUE`].
* `GetUserList` sorts downwards when asked for `ASCENDING` (`accounts.go:186`); `Orders` has it so.
* After a failed setup the gRPC goroutine is done and `main` waits in a dial without a
  timeout (`cmd/ldap-manager/server.go:279`): the disjunct `grpcServe = "done"` of `StartsUp`
  is this case [leave it out].
* `Serve` returns with `SetupMux` locked when `BootstrapGrpc` fails (`grpc/server.go:45`); a
  signal then waits for the lock and the process only ends by force. `StopCompletes` speaks of a stop that
  has begun draining [ask for it from `handler = "grpc"`].
* A signal may find servers that `main` has not assigned yet (`cmd/ldap-manager/server.go:42`), and the
  call of a nil interface panics. For `Daemon` this is a `Crash` like any other, which clients may see at
  any time; so the refinement does not forbid it.
* A token keeps the claims of its login, and `UpdateAccount` signs them anew
  (`grpc/accounts.go:85`): who was an administrator then passes as one now. The properties of the
  sessions say what a token was earned by, not what its owner still is.
* Of two searches for one list, the second, which counts, may know of removals the first does
  not, and the client stops early: the condition on `torn` in `WalkComplete` [leave it out].
* After a reload a logout empties localStorage, but not what the getters have read there
  (`auth.ts:36`): memory goes from null to null, Vuex sees no change, `isAuthenticated` stays true, and
  the guard leads from the login page back home, after "You are being logged out..."
  (`App.vue:60`), until the next reload or new getters. `LogoutForgets` in `frontend` [ask for
  `~IsAuthenticated(t)`]. What a logout is sure of is what is sent, not what is shown; hence `~left` in
  the other properties.
* An answer that comes after a logout signs its user in again (`auth.ts:94`), which takes no hurry:
  each login is sent twice. `LogoutForgets` in `frontend` [leave out `~overtaken`].
* With two tabs, a reload meets what the other tab has stored, and a header is as old as the
  page: `RestoredTabsAgree` and `LogoutForgets` in `frontend` [leave out `Alone`].
* An administrator who updates another account is signed in under its name, with the rights of
  an administrator (`accounts.ts:121`); `UpdateAnswered` has it so.
* The components mean to log out on `Unauthenticated` (`Account.vue:618`), but look for the code where the
  stores do not put it (`accounts.ts:128`); `Refused` has it so.

## 4. The theorems

| Theorem | States | Assumes |
|---|---|---|
| `ManagerProofs!TypeCorrect` | `Spec => []TypeOK` | |
| `ManagerProofs!ProtectedGroupsNeverVanish` | `Spec => ProtectedGroupsStay` | `NoProtectedRename` |
| `ManagerProofs!MembershipsCannotFail` | `Spec => []JoinCannotFail` | `NoProtectedRename`, `Start = "ready"` |
| `ManagerProofs!GivenGroupsExist` | `Spec => []AccountGIDsResolve` | `GroupsKeepNumbers` |
| `ManagerProofs!ReportedAccountsAreUsers` | `Spec => []CreatedIsUser` | `NoProtectedRename`, `NobodyLeaves` |
| `SetupProofs!ServingReplicasAreSetUp` | `Spec => []ServingMeansSetUp` | `Start # "skip"`, `NoProtectedRename`, `AdminStays` |
| `SequentialProofs!LoneRequestsShareNoNumber` | `Spec => []NumbersUnique` | `OneAtATime`, `NoProtectedRename`, `AsksNoNumbers` |
| `SequentialProofs!LoneRequestsReuseNoNumber` | `Spec => []NumbersNotReused` | the same |
| `SequentialProofs!LoneRequestsRecordNumbers` | `Spec => []NumbersRecorded` | the same |
| `SequentialProofs!LoneRequestsKeepUsers` | `Spec => []AccountsAreUsers` | `OneAtATime`, `NoProtectedRename`, `SteadyClients` |
| `SequentialProofs!LoneRequestsLeaveNoDangling` | `Spec => []MembersExist` | the same |
| `SequentialProofs!LoneDeletionsLeaveGroups` | `Spec => []DeletedLeavesGroups` | one worker |
| `SessionProofs!SessionTypesCorrect` | `Spec => []SessionTypeOK` | |
| `SessionProofs!AdminClaimsCorrect` | `Spec => []AdminClaimsEarned` | |
| `SessionProofs!AdminIsRestored` | `Spec => []AdminRestored` | `RebindMayFail = FALSE` |
| `SessionProofs!OwnAccountCorrect` | `Spec => OwnAccountOnly` | |
| `SessionProofs!AdminsByAdminsCorrect` | `Spec => AdminsByAdmins` | |
| `SessionProofs!GoodLoginsAccepted` | `Spec => []GoodLoginAccepted` | `RebindMayFail = FALSE`, one worker |
| `LifecycleProofs!LifecycleTypesCorrect` | `Spec => []LifecycleTypeOK` | |
| `LifecycleProofs!CallsHaveConnection` | `Spec => []NoCallOnClosedConnection` | |
| `LifecycleProofs!HealthIsEarned` | `Spec => []HealthyMeansSetUp` | |
| `LifecycleProofs!SetupKeepsConnection` | `Spec => []SetupUndisturbed` | |
| `LifecycleProofs!LifecycleImplementsDaemon` | `Spec => ImplementsDaemon` | |
| `GatewayProofs!GatewayTypesCorrect` | `Spec => []GatewayTypeOK` | |
| `GatewayProofs!RoutedAsAimedCorrect` | `Spec => []RoutedAsAimed` | |
| `GatewayProofs!PathDecidesCorrect` | `Spec => []PathDecides` | |
| `GatewayProofs!OthersOnlyByAdminsCorrect` | `Spec => []OthersOnlyByAdmins` | |
| `GatewayProofs!SignedOutForNoTokenCorrect` | `Spec => []SignedOutForNoToken` | |
| `GatewayProofs!DoneMeansDoneCorrect` | `Spec => []DoneMeansDone` | |
| `FrontendProofs!FrontendTypesCorrect` | `Spec => []FrontendTypeOK` | |
| `FrontendProofs!SignedInTabsAgreeCorrect` | `Spec => []SignedInTabsAgree` | |
| `FrontendProofs!LogoutForgetsCorrect` | `Spec => []LogoutForgets` | |
| `FrontendProofs!PagesGuardedCorrect` | `Spec => []PagesGuarded` | |
| `FrontendProofs!RestoredTabsAgreeCorrect` | `Spec => []RestoredTabsAgree` | |
| `ListingProofs!ListingTypesCorrect` | `Spec => []ListingTypeOK` | |
| `ListingProofs!WalkIsComplete` | `Spec => []WalkComplete` | |
| `ListingProofs!PagesFitTogether` | `Spec => []PagesFit` | |

They hold for any number of replicas, workers, requests, names, tokens, passwords, crashes and
calls, any `MinID > 0`, with or without the overlay, for any size of page, directory and walk, under the named assumptions on
the constants (`DirectoryAssumption`, `WorkerAssumption`, `SetupAssumption`,
`ManagerAssumption`, `ServiceAssumption`, `SessionAssumption`, `GatewayAssumption`,
`LifecycleAssumption`, `FrontendAssumption`, `ListingAssumption`), which
TLC evaluates in the runs. The assumptions of the table are conditions on what clients ask for
(`Requests`), on the start or on the number of workers; the code enforces none of them. They are
defined next to the theorems:

| Assumption | Says | Why it is there | Runs that are instances |
|---|---|---|---|
| `NoProtectedRename` | no `UpdateGroup` renames a default group | it lets one go (section 3) | all |
| `OneAtATime` | `Start = "ready"`, one worker, no crash | the counters and the memberships take several round trips | `sequential` |
| `AsksNoNumbers` | no request names a uid or gid of `MinID` or more | an explicit number moves the counter back | `sequential` |
| `SteadyClients` | nobody is added to a default group, nor taken out of the default user group, but by the creation or deletion of his account; a new group starts empty or with the administrator alone; he is never taken out of a group, deleted or renamed; others are renamed only with the overlay | see below | `sequential` |
| `AdminStays` | nobody deletes or renames the first administrator or takes him out of the default groups | then a replica serves without one | `setup`, which has no clients |
| `GroupsKeepNumbers` | no group is deleted or renumbered, and nobody gives an account a group number | the group of an account may be deleted, and the number given may be nobody's | `first_accounts` |
| `NobodyLeaves` | no account is deleted, renamed or taken out of the default group | then one that was created is no longer a member | `first_accounts` |

Apart from `OneAtATime` they are about clients that do what the code cannot mend afterwards; without them
the statements are false. `SteadyClients` asks for a bit more than the statement needs, in that a new
group starts with the administrator alone and so never empties when another member leaves; a last
member keeps `DeleteAccount` from finishing (section 3).

*Types of the manager.* `TypeOK` is not inductive: `DelAccount(req.user)` keeps the directory
well typed only if `req.user` names an account, which the handler checked several steps before.
`Fits(p, label)` says what each label relies on, and `Known(p)` that a worker has it for the
label it stands at and every label it may return to. One lemma per constructor of the handlers
(`Goto`, `Return`, `NewGroup`, ...) shows that it keeps `Known`, one that the round trips keep
the directory well typed, and one step per action puts the two together.

*Default groups.* `Fits` carries the check of `DeleteGroup` to the round trip that deletes, and
the assumption to the one that renames; `DirectoryKeeps` lists which round trips can make a
group disappear at all.

*Joins.* `JoinInv` adds that the units and the default user group exist (`SetUp`) and, per
worker, `Joining`: the fallback labels of `getGroupForAccount` are never reached, the group
an account is about to be added with is the default user group, `AddGroupMember` is
therefore called with a protected group and skips its check, and the Add of the value finds
the group there. `ReturnsTo` says which callers each function can return to; without it a
`Return` could lead to any label. With another start the statement is false in general: a
fallback group is not protected.

*Numbers of groups.* `GIDInv` is about any start. A worker that is about to add an account has
the number of a group that is in use (`Numbering`), read from that group or from the one it has made
itself; between that round trip and the Add the others may do anything that lets no number of a group go
out of use (`GIDsGrow`), which is every round trip but the three that `GroupsKeepNumbers` excludes.

*Created accounts.* `CreatorInv` follows a `NewAccount` request of its own over all fallbacks.
The account is a member of the default group (`Enrolled`) from the moment at which `AddGroupMember`
answers, and it stays one. The difficult branch is the group of the account's own: it is not protected,
so `AddGroupMember` checks for a member of the default group first, and what it checks is what is to be
shown. `StepLeads`, which both invariants use, says for each label which labels a step can lead to.

*Setup.* `SetupLDAP` takes "exists already" for done, whoever made the entry. `Founded` is why
that is enough: entries are made in an order in which each implies those before it. An administrators'
group, for example, is only ever made with the administrator in it, once he is an account. `Standing`
says for each label what the worker has seen or made so far; it survives steps of others, because none of
these things goes away (`Grow`). At the end of the setup, `Standing` is `Ready`. A crash
loses the worker's place and nothing else.

*Requests one at a time.* With one worker there is no other step in between, so the invariants
describe the one request under way. `NumberInv`: every number in use or retired is at most its
counter, but for the entry just added, which is one above it, and the worker stands where it is about to
record just that (`Counting`). Uniqueness and the ban on reuse are the conjuncts of
`Orderly`, and only hold together. `MemberInv`: members are accounts (`Members`), and every account
but the one in flux is a member of the default group (`Attached(InFlux(p))`); `Minding` ties the groups
that `DeleteAccount` has yet to leave, and those that a rename has yet to change, to the groups that the
account is in. Both build on `JoinInv`. Members are accounts in every state (`MembersExist`), also while
a request is under way; every account is a user only between requests. `LoneDeletionsLeaveGroups` needs
neither the start nor the clients to be good ones: whatever groups there are, `PartingInv` follows
`DeleteAccount` from its search, when `todo` is all the groups that the user is in, through each removal
to the deletion of the entry (`Parting`), and an entry that does not exist has no members (`NoGhosts`).

*Sessions.* `SessionInv` adds to types and claims what a worker carries from the check to the
action: at `"apply"` and at the labels of `ChangePassword` its claims pass `Authorise`, and
an administrator's claims descend from a former administrator. A token that `UpdateAccount`
signs inherits both. `AdminsByAdmins` follows from the policies of the methods that create accounts or
make members: the claims that passed were an administrator's. With any others an account can only
pass its rights on under a new name, or give them up with its own deletion. That the rights were checked when the request arrived
and not when it acts is the point of `OwnAccountOnly`, whose step may come any number of
other steps later. For `AdminIsRestored` only the two actions of a login that bind matter.
`GoodLoginsAccepted` follows a login from the client to the answer: `Promise(p)` says at each
label what a right password is still good for. With one worker no step of another comes
in between, so the step of the worker has to keep its own promise and nothing else; with
two, `shared_connection` breaks it.

*Lifecycle.* `LifeInv` is `Locks` (who is where while a `SetupMux` is held), `StopOrder` (how
far the stop is, given where the handler and the failed setup are), `Opened` (from connecting to
ready the connection is open, for only a holder of the lock closes it; the HTTP server runs only after the
dial, hence after the setup) and `CallsServed` (calls run only while the server serves, on
an open connection, and none is left once it has stopped). With it every step of the
goroutines is a step or a stutter of `Daemon`, one lemma per goroutine.

*Gateway.* `GatewayInv` tells the story of a call stage by stage. `Verbs`, `Lengths` and `Seconds`
read the three facts off the generated tables by which `OneRoute` tells any two methods apart:
the verb, the number of segments, and the second segment, which is never a parameter. A
plain name that equals a literal part of another path cannot confuse them, since it only ever stands in the
third or fifth place. Of the other names nothing is assumed but that they become some segments (`Pieces`,
`Cut`), and no literal part of a pattern has a colon. `DoneMeansDone` rests on `Errors` and
`Late`: a call that is `managed` has succeeded with the manager, and a later failure is one of `Late`. `AssembledFacts` goes through the `request_` operators: what is
assigned from the path is assigned last or shielded from the query by its filter.
`Authorised` is the table of policies and handlers. No prover knows that a literal is a string, so the
strings are a constant, `Segment`, that is assumed to have the literals of the patterns and the names;
the run gives it `STRING`.

*Frontend.* `SignedInv` says that name, rights and header are those of the token, wherever
memory has one; a tab changes its memory only by the four operators that have a lemma each, and other
tabs only touch the storage. `GoneInv` adds that after a logout with nothing under way, nothing
comes to be under way that could bring a token: an update is sent with the empty header and refused.
`GuardInv` says when what the getters have read is still stored, without which a page that loads new
getters could be shown to nobody. Both speak of a tab that is the only one opened; `OpenInv` and
`ActsAlone` say that it is never disturbed by one that is not.
`RestoredInv` adds that memory, storage and all answers under way have the rights of one and the same
login (`Agreeing(t, admin)`): the flag in the storage is only ever added, so it is right as long
as nothing brings a token with other rights, and whoever waits for answers finds storage, memory and
`flight` empty when the next login is sent (`LoginFindsNobody`).
*Lists.* `CompleteInv` shows that the last page asked for has everything on it. What has been
found, and is gone when the entries are counted, was removed in between (`FewMissing`), so no more is
found than `total + torn` (`FewUncounted`); a client stops at a page that reaches `total + PerPage`; and a
page that reaches the number of keys, which is at most the number of entries found, is not
clipped (`ReplyFacts`). So whatever was there all the time is on it (`LastPageComplete`), and earlier pages do
not matter for `WalkComplete` at all. `FitInv` is about them: `PlaceFacts` counts the entries
`Ahead` of another, by a bijection with the places before it in whatever order `Orders` yields, so
an entry's place is the same in every request; what is shown has places before the page
(`ShownAhead`), and a page that is not the last has consecutive ones (`ListInPlace`).

`FrontendTypeOK` and `SignedOutForNoToken` are proved and in no run.

Only model-checked: liveness (`SomeReplicaServes`,
`RequestsAnswered`, `SessionsAnswered`, `AdminReturns`, `StopCompletes`, `StartsUp`), which is out
of the prover's reach.

## 5. Not modelled, and the plan

Not modelled, because a model would say nothing the text does not:

* The bytes of a name. How often `escapeDN` and `escapeFilter` are applied is a matter of
  strings; the models treat a name as one value. Listed as a hazard without a property.
* The hash functions: computation on bytes, no state.
* The encoding of messages (`ldap_manager.pb.go`): it is the protobuf runtime's.
* Of the frontend, the display name, the forms' checks, dialogs and alerts. `GetUserGroups` and the list view's own fixed total have no paging to model.
* Configuration parsing, TLS, key generation.
* The failure of single round trips of a live process, `BindAdmin`'s excepted: the code answers
  with the error and never reconnects, so all requests fail from then on.

Left to do: the theorems that assume something of clients say what the code cannot mend; whether weaker
assumptions would do (`SteadyClients` on new groups) is open.
