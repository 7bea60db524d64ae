# MQ Studio: a TLA+ model

MQ Studio is a desktop client for message brokers: a Go process (Wails) with a
React window, a tray, an updater, an assistant and a second process that serves
the same profiles over MCP. This directory holds TLA+ modules for the parts of it
that keep state across calls, the TLC runs that check them on small instances and
proofs, checked by TLAPS, that hold for every instance.

`PROJECT.json` maps every definition to the source lines it stands for.

## The system

In the Go process:

| Component | State | Operations | Hard because |
| --- | --- | --- | --- |
| Connection service (`internal/service/connection`) | profiles by id, next id, the reconnect intent, `connections.json` | add, edit, set option, delete, set default, connect, disconnect, test, reload, replace | two locks, the inner one released around a dial; saves fail; the process ends between any two steps |
| Driver registry and its runtime (`internal/driver/registry.go`, `internal/app/runtime.go`) | open clients by id, the active id | open, close, close all, set active | the connection service repeats its state in the profiles' status |
| Settings service (`internal/service/settings`) | settings, among them the global ACL key pair | update, reset | a dial reads it while it changes |
| Configuration service (`internal/service/configuration`) | one call at a time | save and reset settings, export, import with rollback | several steps over two services, each of which may fail, and the undo too |
| Update manager (`internal/update`) | phase, release on show, ready package, skip list, `update.json`, package directory | check, download, cancel, install, install on quit, skip | calls overlap; installs run outside the busy flag; everything may be cut short by a restart |
| Assistant (`internal/agent/assistant`) | sessions, the run in progress, questions to the user, an encrypted archive | start, send, stop, decide, rename, delete, prune | a question races a stop; files are written outside the lock |
| Audit journal (`internal/agent/audit`) | an append-only file | append, read | written by two processes |
| MQTT subscriptions (`internal/driver/mqtt/subscribe.go`) | a ring of messages per subscription | start, poll, stop, list | the ring overwrites what nobody polled |
| MCP server (`internal/agent/mcpserver`) | confirmation tokens, grants, a read-only copy of the profiles | list and call tools | another process writes the profile file |
| Collector and TPS history (`internal/service/collector`, `internal/service/cluster/history.go`) | samples per connection | sample, read | the active connection changes during a sample |
| Drivers (`internal/driver/*`) | protocol clients | calls to brokers | external |

In the window (`frontend/src`), where every call into Go is a promise that may be
answered late, out of order or not at all:

| Component | State | Operations | Hard because |
| --- | --- | --- | --- |
| Broker reads (`hooks/useBrokerData.ts`) | a generation, data, two spinners | read, poll, refresh after a change | reads overtake each other |
| Boards (`design/boards`) | lists, row panels, dialogs, questions, buttons | press, ask, fill in, submit, select a row, poll | a change and the reads that show it race; dialogs close and reopen meanwhile |
| Message browsing and tails (`hooks/*`, `boards/messages`, `boards/dlq`) | the source picked, rows, a cursor | read, read on, act on a row; start, poll, stop | rows outlive the source they came from; polls are late |
| Live subscriptions (`hooks/mqtt/useMqttStream.ts`) | subscription, cursor, rows, loss | start, poll, adopt, stop | polls are sent on a timer whatever the last one does |
| Connection list (`hooks/useConnectionProfiles.ts`, `useConnectionBulk.tsx`) | rows, their spinners, a bulk run | dial, test, delete, bulk | each call reads the list again |
| Shell and session (`DesignApp.tsx`, `data/session.ts`) | tabs, the stored session | open, close, restore | the list may be unreadable at the start |
| Connection form (`NewConnectionDialog.tsx`, `connectionDraft.ts`) | a draft, a verdict, stored secrets | fill in, test, save | stored secrets are never read back; tests answer late |
| Settings (`hooks/useSettings.ts`) | the document, a timer, a chain of saves | change, reset | the tray writes the same document |
| Alerts (`hooks/useAlertCenter.tsx`, `lib/alert*.ts`) | facts, records, what was seen | sweep, acknowledge, rules | sweeps overlap; records outlive the window |
| Assistant dock (`hooks/useAssistant.ts`, `agent/conversation.ts`) | the conversation on screen and its number | apply events, reread | events come out of order or before their snapshot |
| Update notices (`hooks/useUpdater.ts`) | the manager's state, one announcement | check, skip, announce | answers and events cross |

What makes them correct: a status that is true, a client that was dialled with
what its profile says, a file that agrees with memory, one default, fresh ids, a
reconnect that is not forgotten (connection service); no client with revoked
credentials and an undo that undoes (configuration); a ready package that exists,
is newer and is the one on show, and work that neither overlaps nor hangs
(updates); a write that was agreed to and is recorded (assistant); and in the
window, that what is on screen is the newest answer, that a change is seen by the
one who made it, that a spinner ends, that nothing lost goes uncounted, and that
what is stored is what was shown.

## Modules

### The Go process

**`Connections`** models the connection service with the registry and the profile
file. `op` is the holder of `runtimeMu` and the step it has reached; a critical
section of `mu` is one action, so whatever takes `mu` alone (`AddConnection`,
`SetDefaultConnection`) runs between any two steps of a holder. An operation that
dials is split where the code releases `mu`: `Connect` resolves the profile,
`DialFailed` or `DialSucceeded` is the registry's answer, `MarkOnline` records it
and saves. `UpdateConnection` and `SetOption` store, then go on to `Redial`;
`Reload` and `ReplaceConnections` swap the profiles, then go on to
`RestoreRuntime`. Every save has a failing outcome. `Restart` may happen at any
point and is `New` on whatever the file holds. A profile is cut down to what a
dial tells apart: `addr` (kind, endpoints, timeout, other credentials), `opt`
(options) and `mech` (the mechanism). The checks on input that only refuse a call
are left out, since a refused call changes nothing. Probes (`TestConnection`)
open a client of their own, close it again and change no state.

The file and an import are documents: records in any order, with ids that repeat or
are not positive and with no default or several, as a file edited by hand or another
program's export may have them. `Load` repairs them as `buildConnectionState` does
(`RepairedIds`, `BecomesDefault`). The first launch finds any document. Any read of the file may fail: a
reload then reports it and leaves everything as it was, the clients open, and a
launch goes on without profiles (`unread`, until it reads the file or writes it).

**`Configuration`** extends it with the configuration service. `cfg` is the call
under its mutex and what the last one returned. A reload or a replacement it asks
for is the holder of `runtimeMu` with `restoring` set, so the answer to the
service's call is the step that gives the lock back. Between its steps the
window's own calls run freely. An import holds any records, whatever their ids and flags. `torn` remembers
that a call has failed, and said so, with the clients not closed - a rollback that
could not write, a reload that could not read after the keys were saved - until
something closes them. That `Configuration`
changes the connections only as `Connections` allows is a theorem.

**`UpdateManager`** models the updater. A call in flight is a thread and its `at`
the place between two critical sections. A check may answer with any version. The
policy is read where the code reads it and may have changed since, so it is a
choice there: `downloads` in `CheckFound`, and whether `InstallOnQuit` happens at
all. `WriteMemory` has the three outcomes of an unchecked `os.WriteFile`:
written, not written, and left unreadable. Development builds, where the updater
is inert, are left out. `raced` is a history variable for a property's exception.

**`AssistantRun`** models a run of the assistant and the gate its writes pass. The
run is a goroutine and `at` its step, through `converse`, `call`, `write` and
`ask`; the window stops it, answers its questions, changes the settings and edits
the connection at any of them. `writes` are the calls of write tools under the
number the journal gave them, each with the broker its question was about, the
answer, where it was sent and what the audit log holds. The `select` of `ask` is
two actions, both enabled when an answer and a stop are there together. An append
to the log may fail with its line written or not. A tool that fails may have
acted. Everything that ends a call before it reaches the gate, reads included, is
`SettledCall`. An edit of the connection is one step here; its own steps are in
`Connections`. `moved` is a history variable: the connection was edited after the
check had let the write through.

### What the window reads

**`LatestAnswer`** is the abstract specification of a page that keeps asking: it
shows nothing or the answer to a request no later one had replaced.
**`BrokerData`** is the hook that implements it: connection and query changes
(`Enter`), the timer, handlers that make a change and then refresh the render
they were created in, and a generation that decides which reply lands. `wrote` is
the last change the page was told of. The refinement maps the generation to
`asked` and what is on screen to `shown`.

**`LiveStream`** is an MQTT subscription with both its ends: the ring in Go and
the panel that starts, polls, adopts and stops it. A call takes two steps, the
driver's answer and its arrival. `seen` and `crossed` are history variables.

**`AlertCenter`** models the sweeps, the records and what was seen. An alert is a
connection with a rule; what a sweep reads and how a rule judges it is one
condition, except that a rule in `Listed` needs a listing that may fail on its own.

### What a page does

**`Boards`** is one page at work, and **`BoardTable`** says which one: each of the
101 pages is what it reads on the timer, what it reads once, and its acts - whether
a question is asked first, a dialog filled in, the button is off meanwhile, which
reads the change alters and which the handler reads again. A request is three
steps: the broker's, the answer's, and the rereading. Adding a page is adding a
row to the table, and the properties are about all of them.

**`Browse`** is the 16 pages that read messages on demand, told apart in the same
way: whether the button is off during a read, picking a source reads it, only the
newest read lands, the rows are dropped, and what a row's button does.
**`Tail`** is `useMessageTail` over a topic that grows and ages.

### The window around its pages

**`Profiles`** is the connection list with its calls and the bulk runs; the order
in which a bulk run takes its rows is left open, and a delete may be refused, so
which profile is the default does not matter here. Go's profiles and statuses also
change for reasons the list knows nothing of (`Elsewhere`): global credentials saved,
cleared or reset, which closes every client, and an import. Nothing reads the list
after these; `elsewhere` remembers the last. **`Shell`** is the tabs with the
stored session, over a list that may not have been read; `Kept` is the `filter` of
the code, written by the rank each kept tab has, since a recursive filter could not
be reasoned about. **`ConnectionDrafts`** says, family by family, what the form collects and
what it submits, `null`, blank and kept credentials included; **`ConnectionForm`**
is the dialog around it with its tests and saves against the connection service.
**`WindowSettings`** is the settings document with its debounced saves, their
chain, resets and the tray. **`Dock`** follows a conversation through numbered
events, **`Updater`** the update manager through its states. An announcement never
fades, and a newer one overwrites the reference to it, so `standing` is the one the
window keeps track of and `replaced` are those that are still up without one.

### Proofs and instances

`ConnectionsProofs`, `ConfigurationProofs`, `AssistantProofs` and
`BrokerDataProofs` have the theorems about those modules, `UpdateProofs` those
about `UpdateManager` and `Updater`, and `BoardsProofs`, `ReadsProofs` and
`WindowProofs` those about the modules that `MCBoards`, `MCReads` and `MCWindow`
instantiate.

The `MC` modules are the instances. Parts that share no state are checked in one
run: a behaviour has a `part` that is chosen at the start and takes all steps,
and the others stay where they start. This adds no interleaving and loses none,
since the parts meet only through Go, and the model of each already lets Go (or
the window, or a broker) do anything it may.

Definitions marked *Mutant* are wrong on purpose: each stands for a plausible
mistake in the code and shows that a property would notice it. No specification
uses them.

## Runs

| Run | Parts and instance | What it checks | Distinct states |
| --- | --- | --- | --- |
| `connections` | the connection service alone: 2 ids, 1 address, 2 options, 3 mechanisms; under the configuration service: 2 ids, 1 address, 1 option, 2 mechanisms, imports of 1 record; any file at the start, any read or write may fail | `OnlineIffOpen`, `ClientMatchesProfile`, `FileAgrees`, `OneDefault`, `NextIDFresh`, `ActiveIsOpen`, `NoStaleCredentials`, `ReconnectOwed`, `RollbackRestoresIds` | 694,000 |
| `updates` | the manager: 2 calls at once, 2 releases; its window: 2 states, 2 calls | `ReadyIsInstallable`, `OfferedIsReady`, `OneAtATime`, `PhaseHasWork`, `WindowIsTold`, `WindowFollows` | 1,423,000 |
| `assistant` | 2 writes, 2 calls a turn and a run, 2 brokers | `AgreedToEach`, `JournalIsTrue`, `EditIsCaught` | 4,900,000 |
| `progress` | updates (2 calls, 1 release), a run (1 write), configuration (1 id, 2 options) | `Settles`, `StopEnds`, `ConfigReturns` | 116,000 |
| `boards` | boards (101 pages, 2 requests), browsing (16 pages, 2 sources, 2 messages, 2 reads), tail (2 topics, 2 messages, 2 polls, 1 row kept) | `ChangeIsShown`, `PagesConsistent`, `ShowsWhatWasAsked`, `TailIsWhole` | 391,000 |
| `window` | list (2 ids, 2 calls, 1 change; 3 changes of any kind with one profile alone), tabs (2), form (1 edit, test, save and write; 2 families created, all 15 edited), settings (1 beside the credentials, 3 changes, 2 reads), dock (2 conversations of 2 events, 2 calls) | `WindowConsistent`, `ListIsFresh`, `StoredTabKept`, `VerdictIsOfTheForm`, `SecretsFollowTheForm`, `ShownIsStored`, `ResetIsAfterSaves`, `DockIsTrue` | 3,027,000 |
| `reads` | a page's reads (2 questions, 5 generations, 2 changes), a subscription (2 streams of 2 messages, ring and batch of 1, 2 calls), alerts (1 connection, 2 rules, 2 sweeps, 4 changes) | `ReadsConsistent`, `ChangeIsShown`, `LossIsCounted`, `ShowsTheLatest`, `PanelCatchesUp`, `SeenStaysQuiet`, `BellCatchesUp` | 285,000 |
| `configuration_rollback` | 1 id | `RollsBackBothDomains`, which fails | |
| `updates_ready` | 2 calls, 2 releases | `ReadyHasPackage`, which fails | |
| `assistant_stop` | 1 write | `AnswerLosesToStop`, which fails | |
| `update_toast` | 2 states, 2 calls | `ToastsAreOnOffer`, which fails | |
| `dock_behind` | 2 conversations, 2 events | `FollowsGo`, which fails | |

`connections` checks that a profile is online exactly when its client is open
(`OnlineIffOpen`; delete and the reload plan trust the status), that an open
client was dialled with what its profile says (`ClientMatchesProfile`), that the
file agrees with memory whichever saves fail (`FileAgrees`, but for a launch that
could not read the file and has not written it yet), that there is one default whatever a
file or an import says (`OneDefault`), that the next id is fresh (`NextIDFresh`), that the active
connection is open (`ActiveIsOpen`) and that an owed reconnect is not written off
(`ReconnectOwed`). Under the configuration service it checks that once a call has
returned no client is dialled with credentials the settings no longer hold,
although saving and reloading are two steps with the window's calls in between
(`NoStaleCredentials`; excepted are the two failures `torn` stands for, which leave
the clients dialled with the old keys and tell the user no more than that the
settings were saved and refreshing failed), and that a rollback that reports itself done put back the
settings and every profile's id (`RollbackRestoresIds`). A profile added while the
import runs is not part of what is restored: the rollback writes back what it
read at the start. In the part without the configuration service nothing closes
the clients when the global keys change, so `torn` holds there, which
`NoStaleCredentials` excepts.

`updates` checks that a ready package is on disk and newer than the running build
(`ReadyIsInstallable`), is the release on show (`OfferedIsReady`), that checks and
downloads never overlap (`OneAtATime`), that a phase of work has that work behind
it (`PhaseHasWork`), that the window was told (`WindowIsTold`), and that the
window's half shows what it was last told, keeps track only of an announcement that
is on offer, and shows a check only while one is under way (`WindowFollows`). That
every toast on the screen is on offer does not hold: see `update_toast`. `WindowFollows` excepts a behaviour in
which an answer replaced a newer state an event had brought (`astray`): nothing in
the code orders the two.

`assistant` checks that a write the broker was sent is one the person said yes to,
or of a tool they let through for the conversation (`AgreedToEach`), that the
audit log holds its start and no refusal of it (`JournalIsTrue`), and that a
destruction goes to the broker its question was about unless the connection was
edited after the check (`EditIsCaught`). That exception is real: between the
comparison of the connection and the tool's run there is a synced write of the
audit log, and an edit in it sends a confirmed destruction elsewhere.

`progress` checks what the Go process owes: a phase of work ends (`Settles`), a
stopped run ends (`StopEnds`), a configuration call returns (`ConfigReturns`).

`boards` checks that a change the user was told of is on screen, or is being read,
or has its rereading still to come (`ChangeIsShown`). Four pages read a row's panel when it opens and not
after a change that alters it (`LeaveBehind` in `BoardTable`: RocketMQ consumers
and topics, NATS and Redis streams); the property excepts them by name. It also
checks that a button or spinner that is on has the one request or read that will
turn it off (`PagesConsistent`), that a browsing page that keeps order shows the
newest answer it asked for and acts on rows of the source picked
(`ShowsWhatWasAsked`), and that the rows of a tail and its count of losses account
for every message since it began, each once and in order (`TailIsWhole`).

`window` checks that every spinner, busy row and running bulk has the call it
waits for and the tab in front is open (`WindowConsistent`), that the list ends up
as Go has it once it has been read after the last change that was not its own
(`ListIsFresh`), that a tab that was stored and whose connection
exists is there after a start (`StoredTabKept`), that a verdict is about what a
save would store (`VerdictIsOfTheForm`), that an untouched save keeps every
stored secret and that an anonymous connection has none, outside five families whose
forms keep every blank (`SecretsFollowTheForm`; mqtt, nats, activemq, ibmmq and
solace, see below), that at rest the
settings shown are those stored (`ShownIsStored`), that a reset comes after the
saves that were due (`ResetIsAfterSaves`) and that the dock has no hole up to its
number and at rest is where Go is (`DockIsTrue`). The exceptions each of them
makes are history variables, named in the modules, and stand for races the code
does leave open: an answer older than a change, a late reading of the list, a
change nothing rereads, a missed last event.

`reads` checks that `BrokerData` implements `LatestAnswer` (`ShowsTheLatest`),
that a change the page made is on screen or being read, that spinners have reads
and records have rules (`ReadsConsistent`), that no message is lost uncounted
(`LossIsCounted`), that a panel notices a stream that is gone and catches up with
one that runs (`PanelCatchesUp`), that an alert that was seen is not announced
again before it recovers (`SeenStaysQuiet`) and that once the brokers are left alone
the bell says what is wrong with them (`BellCatchesUp`).

### Bounds

`MaxID` is the number of profiles. Two are enough for everything the properties
tell apart: the one being operated on and another, the default and a non-default,
the active and the one promoted in its place. `AddConnection` stops being called
above the bound, and ids freed by a reload or a restart are used again, which is
where a collision would show. An address and an option play the same part in
every comparison (both are what a redial is decided from), so one address and two
options stand for both; under the configuration service only the credentials
matter, and one of each is enough. `AllAddresses`, `AllOptions` and
`AllMechanisms` are the values of the part without the configuration service.
`ImportSize` bounds the records of an import: one is enough for an id that is not
positive or out of order and for a missing default; the file at the start holds up to
`MaxID`, which is where ids repeat and defaults are several.

Two calls at once in the updater (`Threads`) give every pair of overlapping
operations; a check's own download goes on in the check's thread. Two releases
(`MaxVersion`) give a newer one over a downloaded one. `MaxStates` bounds the
states the window hears of; two are an older and a newer one.

`TurnSize`, `Limit` and `MaxCalls` bound the assistant's calls in a turn, in a run,
and its writes. Two let what was remembered for the first write meet the second,
of the same tool or another, in the same turn, in the next, in another run or
after a restart.

In the window `MaxCalls` bounds the calls under way: two is what it takes for one
to overtake another. `MaxChanges`, `MaxVersion`, `MaxMessages`, `MaxSeq` and
`MaxMade` bound what the other side may do; a change, an older answer and a newer
one are two of them. In the list `MaxChanges` holds for a window with one profile and
no bulk run, where three changes are one of the list's own between two that are not;
with more, Go changes `MaxManyChanges` times and by the list's calls only. What two
profiles and several changes do together is left to the theorem, which has no bound. `MaxGeneration` has to be larger than the reads that can
race, since the counter never comes back. `Ring`, `Keep` and `Buffer` are 1 so
that two messages overflow them. `MaxSweeps` is two sweeps that overlap.
`Sessions` is the open conversation and the one that replaces it. `MaxEdits`,
`MaxProbes`, `MaxSaves` and `MaxWrites` are one of each on top of the one before
the dialog opened; the families in `Followed` are one whose credentials have a
mechanism of their own and one whose secrets come in a pair, and the others are
followed from the profile they have stored. `MaxReads` is two reads that cross.
The proofs remove these bounds: every safety property of the passing runs holds for
any values of the constants that the assumptions below allow.

### Fairness

`progress` has weak fairness on the steps of the holder of `runtimeMu`: a dial is
bounded by `dialTimeout`, closing does not wait, and the holder waits for nothing
but `mu`, which nobody keeps across a step. It has strong fairness for the
configuration service's steps, which wait for `runtimeMu` among the window's
calls: Go's `sync.Mutex` does not starve a waiter. The updater's threads are
weakly fair: a check has `RaceTimeout`, an install `installTimeout`; a download
ends with the body it reads, and a server that stalls for ever is the case where
only `Cancel` ends it. A run of the assistant is weakly fair: requests to the
model end with the context a stop cancels, calls of the broker with the request
timeout; an open question without a stop waits for ever, as it should.

`reads` has weak fairness on the timers (`Tick`), on the answer and the arrival of
each bridge call, which ends with the driver's timeout, and on the newest read of
a page. Nothing is assumed of users, brokers, restarts or failures. The
read of a page that is replaced by the timer before it is answered, for ever, is
the case left out: an answer slower than thirty seconds every time.

## What the failing runs show

- `configuration_rollback`: `prepareReplacement` files every mechanism but ACL as
  none, and both an import and its rollback go through it. A failed import of
  anything leaves, say, a SASL profile anonymous although it was "rolled back".
- `updates_ready`: an install that ends while the same release is being
  downloaded again removes the new file; the download then reports it ready.
- `assistant_stop`: when an answer and a stop are both there, Go's `select` takes
  either, so a yes may win over a stop, although the comment says it loses; the
  context is not looked at again before the tool runs.
- `update_toast`: an announcement has no duration, and a newer release is announced
  by overwriting the reference to it (useUpdater.ts:133), so the older toast stays up
  and offers what has been overtaken until the user closes it, although the comment
  at useUpdater.ts:154 says that one which is taken, skipped or overtaken must not
  outlive it.
- `dock_behind`: the last event of a run may arrive while the conversation's
  snapshot is on its way; the dock drops it, and nothing later shows the gap, so it
  stays behind Go, say answering, until it is opened again.

Two more disagreements in the connection form have no run of their own:

- In mqtt, nats, activemq, ibmmq and solace every blank secret is sent with the mode
  "preserve", and `applyCredentialsMode` (internal/bridge/connection.go:133-148) puts
  back what is stored, also when the connection has become anonymous or has changed
  mechanism. connectionDraft.ts:553-556, 857-859 and 1238-1240 say that such a secret
  is dropped. `AnonymousHasNoSecret` names these families (`KeepsEveryBlank`).
- Typing only the username of a stored login submits both halves as a replacement
  (connectionDraft.ts:361), and the stored password is dropped, although the field
  left blank says "Saved — leave blank to keep it" (i18n/locales/en.json:1134).

## Proofs

Each proof is one inductive invariant, one lemma per action and one step per
conjunct the action can disturb; the theorems are read off it.

`ConnectionsProofs` proves the types, the six invariants of the connection service
in the `connections` run and `ReconnectOwed` for any sets of addresses, options and
mechanisms and any number of ids. The assumptions are `MaxIDAssumption` (`MaxID`
is a natural number) and `MechanismsAssumption` (the mechanisms are among the
three the model knows, and "none" is one). The invariants are not inductive one by
one. `IInv` is their conjunction with `HolderInv`, which says what each step of
the holder of `runtimeMu` may rely on: that the profile it works on still exists
(only a holder deletes), that a dial under way was resolved from the profile as it
still is (only a holder edits), that during a redial or a restore the statuses are
already offline, and that a recorded client is the one just dialled.
`OnlineIffOpen` needs it because `MarkOnline` sets a status in one critical section
for a client opened in another, with adds and default changes in between. Whatever
document is loaded, `RepairedIds` gives each record an id of its own and
`BecomesDefault` picks one of them, which is what the lemmas about loading say: it is
where `OneDefault` and `NextIDFresh` come from, not from what the file holds.

`ConfigurationProofs` proves that `Configuration` implements `Connections`
(`ConfigSpec => Spec`: every step of the configuration service is a step of the
connection service or leaves it alone), so all of the above holds under imports and
rollbacks, and then `NoStaleCredentials` and `RollbackRestoresIds`. Its invariant
adds to `IInv` that a waiting call has the holder of `runtimeMu` at work for it,
that wherever a client's credentials are not those of the settings the call that
will close it is still under way or has said that it failed (`KeysInv`, `torn`), and what a rollback has put back by
each of its steps (`RollbackInv`).

`AssistantProofs` proves the types and the three invariants of the `assistant` run
for any tools, brokers, limits and number of writes, from `ToolsAssumption` (reads,
writes and destructions are different tools, the bounds are numbers, and `Nowhere`
is no broker). Its `IInv` has what each step has established about the write in
progress (`WriteInv`: not sent before `perform`, recorded from then on, agreed to
from the check on, and a destruction aimed at the broker it named or known to be
moved), that a question and its answer belong to that write (`AskInv`), and that
each remembered tool has a write the person asked to remember (`RememberInv`),
without which a write that skips its question could not be traced to an agreement.

`UpdateProofs` proves the types and the five invariants of the manager for any
number of calls and releases, from `UpdateAssumption`. It adds that `busy` has
exactly one call behind it (`Exclusive`), that a phase on show has a call at that
work (`PhaseHasDoer`), and what a check or a download has in hand (`Downloads`):
the phase is not ready while one runs, and what was fetched is on disk unless an
install raced it.

`BrokerDataProofs` proves, for any questions and any number of reads and changes
(`BrokerDataAssumption`), the types, `ChangeIsShown`, that a spinner has a read
behind it, that what is shown of a question never goes back in time, and that the
hook implements `LatestAnswer`. All rest on what the generations say: no two reads
share one, what is on screen came in before any read that may still land was sent
(`ShownBefore`), and a read that may land was answered after everything the page
knows of (`KnowsChanges`).

For the window's half of the updates, `UpdateProofs` proves `WindowFollows` for any
number of states and calls (`WindowAssumption`). Its `WindowInv` adds that states are
numbered in the order they were published (`Numbered`) and that the newest state is
on screen or on its way, unless an answer went astray (`NewestComes`).

`BoardsProofs` proves the four properties of the `boards` run, for all 101 pages and
16 browsers, any number of requests and reads (`BrowseAssumption`) and any topics,
batches and polls (`TailAssumption`). There are three invariants. `BoardInv` says
that there is at most one question or dialog and a question is about a button that
is on (`Asking`), that every request of a button that stays off keeps it off and is
the only one (`Requesting`), and that a view which a change made old has a handler
that will read it again (`Screen`); the last needs, for each page of the table but
the four in `LeaveBehind`, that its handlers read all they alter. `BrowseInv` adds to
the types that nothing is asked for later than `asked`, and what a generation
(`Generation`) or a button that is off while it reads (`OneByOne`) keeps.
`TailInv` says that there is one poll at a time, which goes on from where the tail
is unless it was cancelled (`Polling`), and that rows and losses add up to the
distance the tail has come (`Accounted`).

`ReadsProofs` proves the three safety properties of the `reads` run beside those of
`BrokerData`, for any ring, batch and number of calls (`StreamAssumption`) and any
connections, rules and sweeps (`AlertAssumption`). `StreamInv` says that only a
panel with a stream polls (`Polled`), and that, while no answer of another stream
has crossed, everything up to the cursor, and up to where each poll was sent from,
was on screen or has left the ring (`Watching`): so what can be missed is counted.
`AlertInv` has that a rule that is off has no alert (`OffIsQuiet`) and that what was
acknowledged is kept as seen and has not recovered since (`SeenIsKept`).

`WindowProofs` proves the eight properties of the `window` run, for any number of
connections, tabs, settings, conversations, events and calls. Each part has its own
invariant, since the parts take no steps together:

- `DockInv` (`DockAssumption`): nothing reaches the window that Go has not said
  (`NothingMadeUp`), and while nothing was lost or crossed, all that Go has said
  since the dock's number, or since a reread's, is on its way (`NothingMissed`).
- `SettingsInv` (`SettingsAssumption`): only the first write of the chain is under
  way, a reset has all that was due before it in front of it and all that was
  changed since behind (`ResetWaits`), and while the window shows something else
  than is stored, something is under way that ends in a notice or a read
  (`SomethingComes`).
- `ListInv` (`ListAssumption`): a list of the newest version is Go's (`Versions`);
  it is shown, or a call will bring it, or it was missed, or Go has changed for
  another reason since (`NewestComes`); a row that
  is busy has its call, and a bulk run has one (`OneByBulk`).
- `FormInv` (`FormAssumption`, `FollowedAssumption`: the families followed are
  families): every profile stored, listed, tested or being saved is one its family's
  form can have produced (`GoodProfile`, which outside the five families says that an
  anonymous one has no secret), a verdict is of the profile that was
  dialled (`Genuine`), and a form nobody touched is what `toDraft` made of the
  profile listed (`Untouched`). That what `toDraft` makes of such a profile is
  submitted as that profile is a lemma for each of the 15 families.
- `ShellInv` (`TabsAssumption`: there are finitely many profiles): no tab is open or
  stored twice, the tab in front is open, a window that took up the stored session
  stores what it shows, and one that has not is loading, failed or has read a list.
  The lemma about `Kept` (a filter keeps the members it is given, in a sequence
  without repetition) is proved by counting places.

The proof of `SecretsFollowTheForm` found a case the run's bounds do not reach, and
which the property now excepts (`Consistent`). Clearing the credentials of a stored
NATS profile keeps the mechanism chosen in the form (`natsSubmission`,
connectionDraft.ts:560), so its files are submitted, but the service stores a cleared
profile as anonymous with those files (internal/bridge/connection.go:149), although a
certificate stored under another mechanism "would re-apply it the day somebody changes
mechanism" (connectionDraft.ts:579); a form that opens such a profile shows it without
the files, and saving it untouched drops them.

Every type invariant, every safety invariant and every action property of the passing
runs is a theorem. Only model-checked are the liveness properties (`Settles`,
`StopEnds`, `ConfigReturns`, `PanelCatchesUp`, `BellCatchesUp`: fairness is beyond the
prover), and the five runs that fail. No module under a proof has a recursive
operator.

## Not modelled

`PROJECT.json` lists every component with its status. Left out of components that
are modelled: the reading of the settings after an import, exports and cache cleaning, legacy
settings, listeners of the connection service and the read-only side the MCP
process uses; mirrors, progress and the platform steps of an install; the
assistant's archive and its settings page; the update dialog, and a pump that emits one state twice; the rules' thresholds and
alerts of families other than the one whose rules read most; the cap of 200 on
what was seen; the NATS and ActiveMQ stream hooks and the Kafka and Pulsar tail
loops, which repeat `LiveStream` and `Tail` with other calls; tray menus.

Left out whole: model providers, drivers, encryption, the domain services (calls
without state), the collector (one loop and a ring), the MCP process, assembly,
generated bindings, tables of presentation, the website and the build.

Hazards known from reading that no property covers:

- `import.go:76`: a profile added during an import is dropped by its rollback;
- `connection/service.go:54`: a profile file that cannot be read is logged, the
  service starts empty and the next save replaces it (modelled, and excepted by
  `FileAgrees`);
- `boards/messages/MessagesRedis.tsx:102`: a row that outlived the stream it was read
  from is removed, by its id, from the stream now picked;
- `hooks/mqtt/useMqttStream.ts:112`: a start answered after another start, or after an
  adoption, leaves two streams on the broker and the panel with the other's cursor
  (modelled, and excepted by `LossIsCounted` and `PanelCatchesUp`);
- `lib/alertCenter.ts:112`: an alert that was acknowledged, recovered, has expired from
  the list and fires again is taken as seen;
- `connection/notify.go:31`: listeners read the profiles after the locks are gone,
  so two changes may be delivered in the other order;
- `connection/refresh.go:25`: the read-only process skips its lock when the file
  has not changed, while another call may be dialling;
- `update/manager.go:688`: an install that ends forgets whatever is ready, which
  may be newer than what it installed; and a failed relaunch leaves the window at
  installing, as no event follows;
- `assistant/session.go:388`, `:429`: renaming or keeping a session writes the
  archive outside the lock, and a delete in between is undone by it;
- `mcpserver/confirm.go:94`: a confirmation token must be good for one call of the
  tool and arguments it was asked for;
- `settings/ProviderDialog.tsx:107`: a test or a listing answered after the form
  was changed;
- `useAlertCenter.tsx:117`: what was seen is stored by whichever window writes last.

## Plan

1. Done: the Go process's connection service, configuration service, updates and
   assistant run, with their proofs; the window's reads, pages, lists, tabs, forms,
   settings, dock, alerts and notices, with a proof of every safety property checked.
2. The MCP process: `SharedStore` (a second process reading the profile file,
   `RefreshReadOnly` and `OpenReadOnly` against the window's writes) and
   `McpGuard` (confirmation tokens, ceilings, the profile an agreement was about).
3. `Conversations`: the assistant's archive (rename, delete, clear, prune, open and
   save against each other and against a restart).
