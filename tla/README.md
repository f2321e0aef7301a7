# Verification of safe-imsg

safe-imsg gives one local client narrow, policy-filtered, read-only access to
the owner's Messages database. The modules here model the parts of it whose
correctness depends on what happens *between* steps: a policy edited while a
child process reads, an answer that is lost, a key file whose creation is cut
short, a Contacts snapshot that outlives the lists it was taken from.

All line numbers refer to `src/`. `PROJECT.json` lists for each definition the
lines it stands for, for each property a mutation of the code it must detect,
and the hazards the properties are aimed at.

## 1. Inventory

### Data flow

```
client --unix socket--> broker (safe-imsgd) --child process--> imsg --SQLite--> chat.db
                          |        |
                     policy file   contacts.Manager --helper app--> Contacts store
                          |
                     cursor key file
```

Each request is handled by a goroutine of its own with one deadline. Handlers
share no state that they write. What they read (the policy file, the Contacts
snapshot, the database) is written by others at any time. The broker runs one
child process per backend read; nothing of the database is cached.

### Components

| Component | State | Operations | What is hard | What makes it correct |
|---|---|---|---|---|
| Bounded collection (`broker/server.go` collect, `broker/cursor.go`, `backend/collection.go`) | the cursor the client holds: generation, position, boundary, completion, horizon | one page: decode, check, load policy, read, check, reload policy, filter, seal | lost answers, retries, restarts, inserts and deletes between pages, revocation during a read, replaced database, oversize answers | nothing owed skipped, nothing delivered twice, a pinned boundary, ranges that end |
| Native overlay (`backend/imsg/*.swift`) | none; one SQLite read transaction | capture a boundary, scan by row ID or by date | pages exactly full, deleted tail rows, rows that throw | pages the adapter accepts, progress past every row |
| Cursor key (`broker/cursor.go`, `broker/lock_unix.go`) | a 32-byte file, its lock, its durability | load or create | racing starts, kills between write and sync, power loss | one key for all, never replaced |
| Contacts manager (`contacts/source.go`) | snapshot, time of last success, last error | Run, Refresh, Get, Status | answers racing deadlines, dropped ticks, failures of different kinds, expiry | bounded life of a removed grant, no needless gap, honest status |
| Contacts helper transport (`contacts/helper.go`, `desktop*.go`) | one private socket per call | one exchange | launch, disconnect and deadline in any order | one bounded answer or one error code; no helper outlives its exchange for long |
| Native Contacts helper (`macos/`) | none; the Contacts store's history token | discover, snapshot | lists and cards read one by one while they are edited, a permission withdrawn between two reads | a snapshot that is of one instant |
| Read methods (`broker/server.go` listChats, history, getMessage) | none beyond the request | chat read, message read, policy before and after | two child processes and a policy in two parts, each of a different moment | only what the whitelist admits after the read; honest completeness |
| Backend adapter (`backend/backend.go`, `stream.go`) | recorded database identity; child, pipe, scanner goroutine | run, Collect, History, Chat, ListChats, close | identity before and after, kill, join, output bounds | rows of the recorded database only; no leaked child |
| Policy (`policy/`) | none (loaded per request) | Load, WithDirect, Authorize | spellings of one identity, overlapping rules | equal to the whitelist it stands for |
| Secret suppression (`filter/`) | none | Suppress | - | - |
| Broker lifecycle (`broker/server.go` Run and handleConn, `cmd/safe-imsgd/main.go`) | lock, socket file, 32 connection slots, handlers | start, accept, serve one request, shut down | stale sockets, daemons started while another stops, kills, stalled clients, shutdown order | a listening broker is found at the path; all handlers joined, all slots returned, lock and socket given back |
| RPC framing, client commands, configuration, file and peer checks | none | - | - | - |

`imsg` itself, Messages, the Contacts framework and the durable client of
`docs/rpc.md` are outside the repository. They are modelled from how the code
uses them, and marked external.

## 2. Modules

| Module | Models | Written as |
|---|---|---|
| `CollectionPage` | one page: the overlay's scan, the adapter's guard and check, the cursor before and after | operators |
| `Collection` | database, policy owner, collect handler, client | state machine; extends `CollectionPage` |
| `InsertionFeed` | what collection promises a durable client | abstract specification |
| `MCCollection` | row classes for the runs | constants only |
| `CursorKey` | `loadCursorCipher` and its lock, racing starts, kills, power loss | state machine |
| `ContactsManager` | the manager, its ticker, the helper's answers, time | state machine |
| `Policy` | Load, WithDirect, Authorize, and the whitelist they stand for | operators |
| `ReadPath` | list_chats, history and get_message | state machine; extends `Policy` |
| `MCReadPath` | chats, lists of chats, policy files and Contacts snapshots for the run | constants only |
| `BackendStream` | one child process per read: scanner goroutine, channel, deadline, kill, Wait, close | state machine |
| `ContactsHelper` | one Contacts exchange after another: the broker's side, the helper's process, the store it reads, the permission | state machine |
| `MCContactsHelper` | six contents of a Contacts store | constants only |
| `BrokerLifecycle` | several daemons on one socket path, from start to exit, and their connections | state machine |
| `*_proofs` | the theorems of the module they are named after | proofs |

### Collection

State and code: `rows`, `lastRow` and `dbGen` are chat.db, with SQLite's
AUTOINCREMENT row IDs; `openGen` is the identity `backend.New` recorded;
`policyUp`/`granted` is what `loadPolicy` would return now; `req`, `page`,
`loaded` and `reply` are locals of the handler; `saved` and `journal` are the
client's transaction. A row is reduced to its kind (what `safeCollectionRow`
and `exposeMessage` do with it), its conversation and whether its date is
inside the timestamp horizon.

The handler is five actions, cut where something else can run: `Accept`
(parameters, cursor, first policy load), `BeginRead` (argument guard, identity
check), `Scan` (the child's transaction), `EndRead` (exit, identity check, page
check), `Serialize` (second policy load, filtering, sealing). `Timeout` may
replace any of them and `Restart` ends the broker at any point. One request is
in flight: handlers share nothing they write, and an abandoned handler answers
a closed connection. Sealing is not modelled bit by bit: a sealed cursor is one
the broker made, and forging one is not considered. An ordinary scan returns
all row kinds, a bootstrap only `Selectable` ones; the moving upper bound on
plausible dates (five minutes ahead of now) is taken as fixed.

The client asks again with the cursor it has, at any of the limits, and
reseeds only when told its cursor is stale. `Seeds` are the three ways to
begin: a row, a timestamp horizon, a legacy v1 checkpoint.

### CursorKey

`content` is the file as processes see it; `dataDurable` and `entryDurable`
say whether its bytes and its directory entry would survive a power loss
(`Survivors`). Each process walks through `acquireLock` and `loadCursorCipher`
call by call and may die between any two. `confirmed` is the history of keys
whose creating start finished both syncs.

### ContactsManager

Clocks are relative (`age`, `elapsed`, `wait`, `gone`) and saturate just above
the largest bound a property mentions, so runs are unbounded in time. A refresh
is `BeginRefresh`, `Read` or `ReadFails` (the helper's answer), `EndRefresh`;
between the answer and the end time may pass, because the exchange waits for
the helper to disconnect. Goroutines are prompt: `Tick` is disabled while a
tick waits to be taken. `denied` stands for permission, selection and helper
errors that the manager treats alike, `invalid` for untrustworthy output and
overflow, `other` for errors without a code.

### ReadPath and Policy

One request passes `Accept`, `LoadFile`, `LoadGrants` (the two halves of
`loadPolicy`), `BeginRead`, `Scan`, `EndRead` and `Serialize`; history and
lookup go through the middle twice, once for the chat and once for its
messages. `view` is the database as the last child saw it. `inForce` records
the files and grants current at some time since the last read, which is what a
response may rely on. Chats carry all that `Authorize` looks at: GUID fields,
flag, identifier, participants as spellings. `fit`, `ours` and a message's
class stand for field checks, the account and the text. Limits out of range,
malformed parameters and unknown methods return before any state is read and
are left out. The database is the map from row IDs to chats together with the
order in which a listing returns them; a row ID of a direct chat and one of a
group are both read.

### BackendStream

The reader (`run`) is `"select"` in the loop of `Process.run`, `"closing"` and
`"joining"` in the deferred `close`, `"returned"` between reads. The goroutine
(`sc`) scans, sends a line on the unbuffered channel (`Deliver` is the
rendezvous), and after the scan kills, waits and offers its final event.
`cancelled` is the stream's own context: the deadline cancels it, and so does
`close`. A line is a position in the child's output, and `line` the one in
hand. A line has one of the kinds the code tells apart; both output bounds
count lines. The child writes, closes its output, exits or hangs as it likes.
A descendant (`heir`) may hold the pipe, inside the child's process group or
outside it. What os/exec does with a descendant that holds only stderr is an
exit error `Wait` may always report.

### ContactsHelper

`pc` is where `exchangeDesktop` waits: for the launch, in `Accept`, in the
write, in the read of the answer and of the end of file behind it. `hpc` is the
call of `ContactSource` the helper is in; each call asks for the permission
first (`CheckPermission`) and only then for data (`checked`), and the store may
be edited or the permission changed between the two. `revision` is the store's
history token: every edit changes it. `before` is the token read first, `todo`
and `records` are the loop's state, `base` is the answer a read at one instant,
the first token's, would have given. A store is what the code can tell apart:
the lists of each container, the cards of each list, and what a card says. A
snapshot of configured lists, one of all lists (no `group_ids`) and a discovery
go through the same calls.

`conn` is what both sides see of the connection. `Watch` is the helper's
watching thread, which ends the process when the broker has shut its end, in
whatever call the main thread is; `HelperDies` is the alarm, a crash or a kill.
`HelperStarts` is Launch Services: the helper starts at any time after it was
ordered, also after the exchange has ended, or never. Each exchange has its own
directory and socket, so helpers of two exchanges never meet, and the model has
one of them at a time. The checks of the helper's files, the frames and the JSON
are one nondeterministic failure.

### BrokerLifecycle

Each daemon walks through `Server.Run` call by call (`pc`): `Lock`, the calls of
`prepareSocketPath` (`Probe`, `Recheck`, `RemoveStale`), `Listen`, `Stat`, the
accept loop, and the deferred functions in their reverse order: `Stop` (cancel, close the listener),
`Drain` (wait for handlers), `Inspect` and `Unlink` (look at the socket file,
remove it), `Unlock`, `Leave` (join the Contacts goroutine). `path` is what is
at the socket path: a daemon's socket, a dead daemon's (`"stale"`), something
else or nothing; `mine` is the file `Run` has looked at after listening and may
remove. A connection is queued in the kernel, read, worked on, or written to
(`stage`); a handler's slot is taken in `Accept` and returned in `Finish`, on
each way out. What a handler does with a request is in the other modules. A
signal only cancels the context. A kill leaves files alone, releases the lock
and closes every connection. `Touch` is the owner removing or replacing the
socket file. Any call may also fail for a reason of its own (`CallFails`,
`StatFails`, `CleanupFails`); a daemon that cannot look at its socket file, or
cannot remove it, leaves it behind, a dead one. The lock file itself is taken to
stay (only its owner can remove it).

## 3. Runs

| Run | Question | Result |
|---|---|---|
| `collection_safety` | Can a client lose or repeat a message, get a withheld one, or be left with an unusable cursor? | no; and every behaviour is one of `InsertionFeed` |
| `collection_liveness` | Does a begun range end, and does all that is owed arrive? | yes |
| `collection_wedge` | "never wedge all later collection" | violated, finding 3 |
| `cursor_key` | One key, kept; starts recover? | yes |
| `cursor_key_durability` | "survives broker restarts" | violated, finding 1 |
| `contacts` | How long can a removed identity stay; when do grants vanish; is the status honest? | within the stated bounds |
| `contacts_denial` | "invalidates it immediately" | violated, finding 2 |
| `read_methods` | Is anything disclosed, called complete or called absent wrongly, by a listing, a history or a lookup? | no |
| `backend_stream` | Can a read hang, leave a process behind, or return part of an output? | no |
| `contacts_helper` | Is a snapshot ever put together from parts of different moments? Can an exchange or its helper hang? | no |
| `broker_lifecycle` | Do racing, killed and restarted daemons leave the path served; does shutdown end and leave nothing behind? | yes |
| `backend_stream_overflow` | "`collection_overflow`" as an error code | violated, finding 4 |

### Bounds

- `collection_safety`: one conversation, granted or not; row IDs to 3; rows
  that are recent or old text (a skipped row behaves as one whose conversation
  is withheld; the proofs cover every kind); scan bound 2, so that one range
  takes two pages and a page may be full, short or empty; limits 1 and 2; a
  response holds one message, so that pages of two are refused; one database
  replacement; one fault (timeout, lost answer, restart or policy outage),
  which is enough to retry every page once, on a changed database. A second
  conversation adds no interaction: the handler treats rows one by one.
- `collection_liveness`: as above, rows all readable, no replacement (an
  abandoned database owes nothing).
- `collection_wedge`: two rows are enough.
- `cursor_key`: two processes, which race and restart, four keys so that a
  process that draws again draws another, two faults and one power loss. Keys
  never repeat (`drawn`): two draws of 32 random bytes are taken to differ.
- `contacts`: one identity (they do not interact), a period of 3, an expiry of
  9 and a timeout of 2, so that expiry covers three periods as in the defaults
  (900 s, 3600 s) and a timeout is shorter than a period but longer than a
  tick; three faults, enough to spoil a whole expiry.
- `contacts_denial`: one missed deadline.
- `read_methods`: one run for all three methods. For history and lookup the
  one row ID that is read holds a direct chat or a group, or becomes another
  one in a replaced database, with joining and leaving members; two messages,
  one of which may be suppressed, against a scan bound of one. For lists, up to
  four chats against a scan bound of three and a limit of one, so that a
  listing is cut by the bound, by the limit, by both or by neither. Two policy
  files and an unloadable one; Contacts grants that include an owner alias, or
  none.
- `contacts_helper`: two containers, up to three lists against a bound of two,
  two cards against a bound of one: a card on both lists and edited between
  them, a card that moved, a list too many, a list and a container gone. Two
  edits are enough to change the store and to change it back. Exchanges follow
  one another without end.
- `broker_lifecycle`: two daemons, so that one starts while the other serves,
  stops or is dead; two connections for one slot, so that one is closed at the
  limit; three faults (kill, signal, failing call, touched file), enough to
  kill a daemon, fail a call of the next start and touch the socket after it.
- `backend_stream`: outputs of up to three lines of every kind against bounds of
  one row and two lines, so that both bounds can be met exactly and exceeded,
  and a pipe that holds one line, so that the child blocks. Reads follow one
  another without end, so nothing carries over.
- `backend_stream_overflow`: one line more than the bound.

### Fairness

Only liveness runs use it. In `Collection` every handler step is weakly fair:
goroutines are scheduled and each child is bounded by the request's deadline.
The client polls and handles every answer, and the owner eventually repairs an
unloadable policy. Because a page too large for a response is not retryable
as it stands (`response_too_large`), the client is assumed to ask for its
smallest page again and again (strong fairness on `Request(Min(Limits))`);
without that assumption `OwedArrives` is false. Faults are bounded, which is
the usual reading of "eventually no more timeouts". In `CursorKey` a started
process runs and its supervisor starts it again. In `ContactsManager` time
passes, goroutines run and the helper answers if the deadline allows it. In
`BackendStream` goroutines run, the request's deadline passes and a kill is
carried out; nothing is assumed of the child or of its descendants. In
`ContactsHelper` the exchange's context expires, its goroutine runs, and the
helper connects and watches its connection; nothing is assumed of Launch
Services, of the Contacts framework, whose calls may stall, or of the alarm. In
`BrokerLifecycle` goroutines run, deadlines pass, the Contacts goroutine ends
once cancelled (which is `ExchangeEnds` of `ContactsHelper`), and a daemon that
has ended is started again, by a `launchd` agent (`docs/operations.md:50`) set to
do so or by the owner; nothing is assumed of clients, and faults are bounded.
No failure is fair: a failing call, like a kill, is an action outside `Fairness`,
so no liveness property rests on one (`AcceptBreaks` of `ContactsHelper`
likewise).

Runs without `CHECK_DEADLOCK FALSE` are checked for deadlock too;
`cursor_key_durability` switches it off because a single process may exhaust
its keys.

### Properties worth reading first

- `NoSkip`, `NoRedelivery`, `ImplementsFeed` (Collection): the promise of
  docs/rpc.md over every sequence of pages, failures and database changes.
- `CursorsUsable`, `PagesAgree` (Collection): three separately written checks
  (overlay, adapter, cursor decoder) never refuse each other's results.
- `DisclosedIsGranted`, `OneConversation` (ReadPath): disclosure against a
  whitelist stated without the order of `Authorize`'s checks.
- `RemovalBounded`, `RemovalPrompt`, `NoGap` (ContactsManager): the exact
  margins. A removed identity is no grant after `max_age + timeout`; when
  nothing fails, after `refresh + timeout`; and `n` failures leave no gap if
  `max_age > (n + 1) * refresh + timeout`.
- `OneInstant` (ContactsHelper): what `ContactsManager` takes for one read is a
  dozen calls, made while the owner edits. Only the two tokens around them, and
  the check of cards met twice, make it one.
- `Reachable`, `ServesAgain` (BrokerLifecycle): `prepareSocketPath` removes a
  file it has only probed, and `Run` removes one it has only looked at; the
  lock is what keeps both from hitting another daemon's socket.

## 4. Proofs

TLAPS checks the theorems for all values of the constants that satisfy the
modules' named assumptions: limits and bounds are natural numbers, positive
where `Validate` says so; `refresh <= max_age` and `timeout <= refresh`
(`ContactsSource.Validate`); row classes are rows; row IDs of chats are natural
numbers and the chat table is finite; Contacts grants contain no malformed
identity (`contacts.Identities`), and no identity is the value that stands for
a nil map of grants. The bounds the runs put on rows, chats, messages, faults,
daemons and changes are constants of the modules, and the theorems hold for
every value of them.

- **Collection.** `IInv` says, beside the types: what the client's cursor looks
  like (`SavedInv`: sealed, decodable, its range ending at the seed or at a
  used row ID, so that later inserts fall outside); that a working request
  carries that cursor (`RequestInv`); what a page in hand covers
  (`PageInv`: every row of the database between the request's position and the
  page's, as long as the file is the same); and what an answer contains
  (`ReplyInv`). `NoSkip` alone is not inductive because it says nothing about
  the answer about to be committed; `Bounded` is needed because a row inserted
  *inside* a range already examined would be lost. `CollectionPage_proofs`
  proves what a page is (its rows are the smallest eligible ones, its
  checkpoint agrees with them, it passes `ValidPage`) and what the next cursor
  is; the invariance proof uses only those lemmas.
  `CollectionImplementsFeed` is the refinement: under the mapping of `Feed`
  (a position is the saved cursor's row, what is owed is what the database now
  holds and the policy has not withheld) `Commit` is a `Begin` or a `Deliver`, an
  inserted row arrives beyond the range because `Bounded` holds, a deletion, a
  denial or a replaced database withdraws rows, and everything the broker does
  is a stutter. `FeedIsComplete` proves of the abstract feed alone that nothing
  owed is passed over, and `PositionAdvances` takes from the refinement what a
  client relies on between two commits.
- **CursorKey.** `IInv` adds what the holder of the lock knows of the file
  (`HolderInv`), that a confirmed key is durable in both senses (`DurableInv`)
  and that while the machine is up the file is everybody's key (`AgreedInv`).
- **ContactsManager.** The invariant behind `RemovalBounded` relates how long
  an identity has been gone to the age of the snapshot that lists it and of
  the answer in flight. `RemovalPrompt`, `NoGap` and `ReadyIsFresh` also depend
  on when refreshes start, so `TimingInv` adds the schedule: a refresh starts
  with a tick, hence while it runs the time it has taken and the time to the
  next tick make one period (`ScheduleInv`). A clock reset by the last
  successful read is then `Within` one period of it (`FreshInv`), an
  identity in the grants likewise if nothing failed (`PromptInv`), and a
  snapshot nothing invalidated is within one period more for each fault
  (`HeldInv`). A fault is counted when the refresh it spoils has not
  ended yet, which is why `HeldInv` distinguishes a refresh that will fail.
- **ReadPath.** Three invariants, each used by the next. `IInv` says that the
  policy in hand comes from a file and grants recorded in `inForce`, and with
  `AuthorizeIsWhitelist`, which proves that `Authorize` after `Load` and
  `WithDirect` is the whitelist, disclosure follows. `DataInv` says which request
  the handler serves, what its view holds and what is in a reply; what the
  proofs of `CompleteMeansAll` and `NotFoundMeansAbsent` need beside it is that the
  first `n` of a finite set are all of it when they are fewer than `n`
  (`FirstAll`), and the same of rows (`RowsTaken`): a bound met exactly is the
  case in which the code may not say "complete". `MessageInv` says that GUIDs
  are unique in the log and hence in the view: `getMessage` decides on the
  first row with the GUID, and `NothingElseShown` is about every message of the
  answer.
- **BackendStream.** The invariant says that only the deadline cancels a stream
  under a selecting reader (`ReaderInv`), that the rows taken are those read
  but for the line on its way (`TakenInv`), and that a scan that ended by
  itself has read all that was written (`ScanInv`); success then has only one
  way to come about.
- **ContactsHelper.** `OneInstant` speaks of an outcome long after the read.
  The invariant carries it there: as long as the token has not changed, what
  has been read is exactly what the store holds of the lists already taken
  (`SnapshotInv`, `DiscoverInv`) and `base` is the answer of now (`BaseInv`);
  a success is `base` from the second token on, through the helper's answer
  (`AnswerInv`), the connection (`SaidInv`) and the return (`OutcomeInv`), and
  no call of a later exchange starts in between (`StageInv`). The assumption on
  stores says that lists are of known lists, memberships of known cards, and
  finite.
- **BrokerLifecycle.** The lock is held between its acquisition and its release
  and by one daemon (`LockInv`); only its holder listens (`ListenInv`), has its
  socket at the path (`PathInv`) and runs handlers (`HandlerInv`), and the slots
  taken are the handlers that run (`SlotInv`). Another daemon therefore cannot
  be in `prepareSocketPath` or in the cleanup while a socket it might remove
  belongs to a listener.

Only model-checked: liveness (`RangeCompletes`, `OwedArrives`,
`StartsRecover`, `Recovers`, `Returns`, `ExchangeEnds`, `ShutdownCompletes`,
`ServesAgain`), which needs fairness and ENABLED. Every other property of a
passing run is stated by a theorem. `FeedIsComplete`, `PositionAdvances`,
`NothingElseShown` and `AuthorizeIsWhitelist` are proved without a run of their
own: they say for all constants what no run's property states.

## 5. Findings

1. A cursor key may be used without ever having been made durable
   (`cursor.go:35`, run `cursor_key_durability`).
2. An answered permission denial may be recorded as a timeout and keep grants
   until expiry (`source.go:187`, run `contacts_denial`).
3. A row the overlay refuses stops all later ordinary collection
   (`MessageStore+SafeCollection.swift:186`, run `collection_wedge`). The
   contract document says both that such rows fail closed and that they never
   wedge later collection.
4. An output over the bound is reported as a retryable `backend_unavailable`;
   `collection_overflow` is never sent (`backend.go:218`, run
   `backend_stream_overflow`).

## 6. Not modelled, and what is assumed

Not modelled:

- text, encodings, SQL and regular expressions; framing and JSON validation
  (`rpc/`), which keep no state; the client's command line, the owner commands
  and the configuration, which are sequential and run once; file modes,
  ownership and peer credentials, one system call each before anything is read;
  the installer and build scripts;
- of the helper, the interactive permission dialog and `--stdio`, which the
  broker does not use;
- time jumps: the manager's clock is monotonic; on a machine that sleeps it may
  stop, which lengthens every bound by the sleep;
- availability in the presence of one malformed chat or message: it fails the
  whole answer with `backend_invalid` (`server.go:403`), which the code means to
  do and is not claimed otherwise;
- a row that gets a conversation only after it was scanned is not collected;
  `Owed` speaks of rows as inserted;
- the conditions a timestamp bootstrap's query puts on a row (its service, a
  text, a date between the horizon and now,
  `MessageStore+SafeCollection.swift:80-93`) are one attribute of the row,
  `Selectable`;
- an order on policy edits: `loadPolicy` reads the file and then the Contacts
  snapshot, and `DisclosedIsGranted` accepts a file and grants that were in force
  at different moments after the read.

Assumed of the world:

- every edit of the Contacts store changes `currentHistoryToken`. If an edit
  could leave it as it was, `OneInstant` would not hold; the code has no other
  means. The token may be nil at any time, which is an error;
- a message's GUID is its own: Messages gives no two messages of a chat the same
  one (`NothingElseShown`);
- the lock file stays where it is. The owner who removes it while a broker runs
  lets a second one start;
- a replaced database is a new one: generations only move forward in
  `Collection` and `ReadPath`. A replacement that is undone while a child runs
  (A, B, A again), or a new file that gets the old one's inode number, passes
  both identity checks of `run` (`backend.go:136-138`) and `OneDatabase` would
  not hold;
- the rows of one child process come from one database at one moment. How the
  external `imsg` reads is not in this repository, and a mix of two files within
  one child would not be noticed by the broker either;
- within one database chats are not deleted (a replaced database may have any);
- the socket file is replaced by its owner only. If the owner replaces it
  between one of the broker's `Lstat` and the `Remove` that follows, the broker
  removes the replacement (`RemoveStale`, `Unlink`); a broker whose socket file was removed keeps running
  and serves nobody, which is why `ServesAgain` speaks of serving and
  `Reachable` excepts touched sockets.

## 7. Plan

Done: every component that keeps state or meets concurrency is modelled. Bounded
collection, cursor key, Contacts manager, policy and read methods, backend
stream, Contacts exchange and broker lifecycle have their models and proofs.
All invariants and the refinement the runs check are proved. What further work
could add:

1. the steps towards each liveness property that are safety: that a handler
   waiting for a child, a helper or a deadline has one of them still to come
   (the deadlock checks of the runs show it for their instances);
2. an abstract exchange, a read of the Contacts store at one instant, of which
   `ContactsManager`'s `Read` would be the step and which `ContactsHelper`
   would be shown to implement; `OneInstant` is its core;
3. validation and framing (`rpc/`), should they come to keep state.
