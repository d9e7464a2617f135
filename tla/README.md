# Verification of groupware-sync

TLA+ models of groupware-sync, their TLC runs and TLAPS proofs. Paths such as
`engine.py` are relative to `src/src/groupware_sync/`, adapters to
`src/src/groupware_sync_contacts/adapters/` and
`src/src/groupware_sync_calendar/adapters/`, `service.py` and `oauth.py` to
`src/src/groupware_sync_auth/`.

## 1. The system

groupware-sync keeps two accounts of contacts or calendars the same. A run
(`sync_trees`) reads a tree of containers and items from two providers, compares
it with a state database, and writes to both servers. Nothing runs inside the
program at the same time; what is concurrent is the world: users change either
server between any two calls of a run, calls fail or are carried out with their
answer lost, and the process may die. Runs are started again and again by hand
or by a scheduler. Beside them a helper keeps the access tokens of the accounts
up to date; there commands of an operator and a timer do run at the same time.

| Component | State | Operations | What is hard | What makes it correct |
|---|---|---|---|---|
| Engine (`engine.py`) | one run: trees, plan, fetched items; one database transaction | build trees, compare, confirm, merge, match, create containers and items, delete, save cursors, commit | failing or lost calls, crash before the only commit, users between fetch and write | no item lost, doubled or brought back; edits survive; the sides converge |
| Tree comparison (`tree.py`) | none; reads and changes mappings and hashes | match containers, prune, bucket, resolve by cache, pair, heal, plan | key collisions, keys on one side only, stale hashes, skipped containers, containers that come and go | deletes follow deletions; a plan has one operation for an item; a prune hides nothing |
| Merge (`merge.py`) | none | three-way merge of fields | missing values, sets, times, first merge | settles in a round, invents nothing, keeps a one-sided edit |
| State database (`state/`) | `NodePair`, `ItemMapping`, `ItemSnapshot`, `SyncCursor`, schema version | CRUD in the caller's transaction, schema upgrade | unique constraint in mid-run, cursors looked up by provider name, upgrade in three transactions | what it records is what the servers have |
| Adapters (contacts: CardDAV, JMAP, Graph; calendars: CalDAV, JMAP, Graph) | HTTP client, JMAP session | `build_tree`, `get_items`, `create_item`, `update_item`, `delete_item`, containers; conversion to and from the item | state string against listing, refused updates, separate fingerprint reads, lossy conversions, 429 | what is recorded is what the server has; conversions invent nothing and settle |
| OAuth helper (`groupware_sync_auth`) | account rows, keyring entries | login, logout, refresh, tick, import; device code poll | two stores written one after the other, rotating refresh tokens, retries, commands beside the timer | an account can always be refreshed, a sync run is given a live token |
| HTTP retries (`retry.py`, adapters) | attempt, wait | calls made again after 429 | waits a server chooses, dates cut to seconds | never too early, not given up too early, over in time |
| CLIs, configuration | none | options, printing | - | - |
| First-generation providers (`groupware_sync_contacts/providers`, `state`, `models`) | own tables | superseded, no command reaches them | - | - |

Traits of the adapters that the engine's behaviour depends on:

| Adapter | identity key of a leaf | skips unchanged containers | update | refused update | fingerprint after an update |
|---|---|---|---|---|---|
| CardDAV, CalDAV | uid, from the file name | yes, by sync-token | whole item, no `If-Match` | raises | ETag of the answer, or none |
| JMAP contacts | none | yes, by JMAP state | patch | logged | a call of its own |
| Graph contacts | none | no | patch, photo in a second call | raises | of the answer |
| JMAP calendars | content key: title and start | yes, by JMAP state | patch | logged | a call of its own |
| Graph calendars | content key: title and start | no | patch | raises | of the answer |

Interaction: the CLI builds two adapters and a database session and calls
`sync_trees`; the engine calls the adapters in a fixed order (A before B in each
phase) and the database through `state/ops.py`; `tree.py` changes mappings
while it plans; the adapters take their access token from the table the OAuth
helper keeps up to date.

`PROJECT.json` lists each component with its status, and under `hazards` the
behaviours we found hard to test, with the properties that catch them or a note
why none does: where the code itself does what a property would forbid, the note
names the configuration that shows it.

## 2. Modules

| Module | Models |
|---|---|
| `Sides` | the two providers of a run |
| `FieldMerge` | one field: `_pick_winner`, `_max_timestamp`, `_merge_set`, SCALAR and IMMUTABLE |
| `Merge` | `merge_item`: all fields, drift, conflicts |
| `MergeRounds` | edits of two copies and merge rounds with a snapshot |
| `TreeCompare` | the leaf part of `_compare_node`, as operators from listings and mappings to the plan and the new mappings; subtree hashes |
| `SyncEngine` | `sync_trees` over one pair of containers, two servers, users, the database, failures and crashes; uses `TreeCompare` and `FieldMerge` |
| `Containers` | `sync_trees` over whole accounts and several commands on one database: containers matched by name, made, remembered; items by key |
| `ChangeReport` | abstract: what the engine needs of a provider for one item |
| `ItemWrites` | one item written call by call over each protocol; implements `ChangeReport` |
| `ContactCodecs`, `EventCodecs` | the conversions of the six adapters: record to item, merged item to record |
| `ConvertedRounds` | merge rounds of one item through two conversions, with users' edits and failed separate calls |
| `Accounts` | the OAuth helper's database and keyring, its commands and the timer, the identity provider |
| `ClientLoops` | the device code poll and the calls made again after 429 |
| `MC...` | the instances TLC checks |
| `...Proofs`, `SyncEngineSafety` | theorems |

They compose as follows. `SyncEngine` takes a provider to be a store with
versions that it reports truthfully; `ItemWrites` shows, protocol by protocol,
that what the adapters do call by call is that (the contract is
`ChangeReport`), and names the one way in which it is not. `SyncEngine` and
`MergeRounds` merge values of one form; `ConvertedRounds` repeats the rounds
with items that pass through `ContactCodecs` or `EventCodecs`. `SyncEngine` has
one pair of containers and the values of items, `Containers` has any containers
and only the keys of items; what they share is the pruning, the mappings, the
cursors and the single commit.

Definitions called *faulty variant* are plausible mistakes in the definition
that follows them. No specification uses them; replacing a definition by its
variant must break the property named for it in `PROJECT.json`, which shows
that the property depends on that code.

### `SyncEngine`

A step of a run is a provider call with what the code does up to the next one.

| `phase` | Actions | Code |
|---|---|---|
| `idle` | `Start` | `sync_trees` 63-73; the CLI's options give `mode` |
| `state`, `list` | `SkipContainer`, `ReadState`, `List`, `BuildFails` | `build_tree` of an adapter; `ops.get_known_states` |
| `compare` | `Compare` | `compute_merkle`, `compare_trees` |
| `decide` | `ReturnUnexecuted`, `Proceed` | dry run, confirmation, `_has_write_op` |
| `fetch`, `merge`, `merge_b` | `FetchMerges`, `FetchMergesFails`, `MergeSkipped`, `MergeWriteA`, `MergeWriteB` | `_execute_merges`, `_merge_one` |
| `source` | `FetchSources`, `FetchSourcesFails` | `_execute_creates` up to `_identity_match` |
| `apply`, `match_b` | `MatchWriteA`, `MatchWriteB`, `Create`, `Delete`, `Finish` | the rest of `_execute_creates`, `_execute_delete`, `_save_tree_cursors`, commit |
| any | `Crash` | - |
| any | `UserCreate`, `UserEdit`, `UserDelete` | other clients of the servers |

`db` is the committed database, `sess` what the run's session sees; `Finish`
alone copies one to the other, every other end of a run rolls back.

Abstractions, and why they are sound for the properties checked:

- An item is an identity (`key`: its uid, or what a contact's identity fields
  hold), one value and a version. The value is merged with the SCALAR rule of
  `FieldMerge`; which side wins a conflict is either, since times are left
  out. `MergeRounds` has all strategies and times.
- A fingerprint is the version. A server raises it with every change.
- A hash is the set of ids and fingerprints it digests. The combined hash with
  a skipped container equals no other hash (`Mixed`), because that container
  carries the combined hash of an earlier run.
- Ids of the two servers are numbers; a server never gives one out twice.
- An order the code takes from dictionaries and lists (merges within a group,
  creates within a side, the candidates of `_identity_match`) is any order.
- A call that fails may have been carried out (`Updates`, `Creations`), except
  for `delete_item`, whose lost answer is the same as its success: the engine
  does nothing with the answer but count it.
- An update of an item that is gone fails with JMAP and Graph; over DAV it makes
  the item again (`PutsWhole`, `Target`), since a merged item has no fingerprint
  and its PUT no `If-Match`. `NoResurrection` allows this to the merge that
  fetched the item, and to nothing else. What an answer says call by call is in
  `ItemWrites`.
- The sync-token is read once, at the second of the two places CardDAV reads
  it, which is before the listing in every adapter.

`used` and `deleted` record what users did; no action of the engine reads them.
`deleted` remembers with each identity whether the item was mapped in the
committed database then, since the code only promises to propagate the deletion
of items it has recorded.

### `Containers`

`servers` holds the containers of every account with their items, `db` and
`sess` the rows as above (`hash`: `NodePair`, `known`: `ItemMapping`, `cursor`:
`SyncCursor`), `run` one command on its way. `Start(route)` is a command for two
accounts; `ListA`, `ListB` are `build_tree` with `get_known_states`; `Compare`
is `compare_trees` with containers on one side only; `MakeContainer` and its
refusal and failure are `create_container`; `FetchFails` is a failing
`get_items` of `_execute_creates`; `Match` and `MatchRaises` are `get_items` with `_identity_match` across containers and the insertion that the
unique constraint may refuse; `CreateItem`, `DeleteItem`, `ItemFails` the item
calls; `Commit` is `_save_tree_cursors` and the commit. Users make, rename and
drop containers and add and remove items.

Items have keys and fingerprints but no values (merges change no key). The
listing of one account is one step, the states of its containers being read
with it (`SyncEngine` has the order of the two). Names are unique within an
account, as servers refuse a second one. A user adds an existing key only in a
container of the same name, since items with one key in several containers are
one item to `_identity_match`. A delete of a container is never planned by
`tree.py`, so there is none. `removed` and `spoiled` are history: which keys a
user removed, and whether something happened after which a stored hash may
describe what it should not.

### `ItemWrites`

`server` is the item on the side of the adapter, with a version per change,
`other` the item of the other side (written in one step), `memo` what the
engine has recorded, `job` the write in flight; `job.drift` says whether the
merge changed the other side, which is written only then (`OtherGets`). `Begin...` are the engine's
decisions (`_merge_one`, creates, deletes); `JmapCreate`, `JmapUpdate`,
`JmapUpdateRefused`, `JmapReadBack`, `GraphWrite`, `GraphPhoto`, `DavWrite`,
`AnyDelete` the calls of the adapters; `CallRefused` and `CallFails` the calls
that raise, carried out or not; `Finish` is the recording. Users change either
side between any two calls. A version of 0 is the empty fingerprint of an answer
without ETag. A write that is refused or fails still lets the other side have its
turn, but is not recorded.

### `ConvertedRounds`, `ContactCodecs`, `EventCodecs`

`native` is what each server stores in its own form. `Round` is `_merge_one`
through `Read` (the adapter's fetch conversion), `MergeItem` of `Merge`, and
`Writes` (its write conversion); a side that does not differ in the fields
studied may be written for another field's sake. `Create` is a create on the
side that lacks the item. Fields that have calls of their own (Graph's photo)
may fail on reading and on writing. `given`, `withdrawn`, `fresh` record what
users stored and removed as *facts*, from which spelling, defaults and labels
are left out (`FactOf` in the MC modules).

The fields that all adapters treat alike have one representative each. A group
of fields that conversions mix (names; organization and department; owner and
attendees; start, end, zone and all-day) is studied together, different groups
apart, because no conversion or merge reads across groups. An instant is a
number of hours, a zone an offset, a recurrence rule the set of its parts. A
description over Graph is a body with a content type, which reading drops and
writing sets to text. An alert at the start of an event is kept or dropped by a
JMAP server (`JmapEventWrites`): the code sends it, and says that Stalwart drops
it. A pattern of recurrence that Graph does not know leaves the rule unset.

`TypeOK` of contacts is about content: a server's record is one its protocol
allows (`WellFormed`: JMAP's contexts, Graph's three address slots and phone
lists, a vCard with its FN), and a snapshot is a contact, whatever combination
of missing fields a merge writes. Two fields of a contact are left out: the
birthday, which Graph and CardDAV cut to its date on reading, and `photo_type`,
which is merged apart from the photo it describes.

### `Accounts`

`rows` is the table sync runs read, `keyring` the secrets, `valid` the refresh
tokens the identity provider accepts, `proc` where each command stands. Every
database transaction and keyring call is a step, so a crash or the other
process fits between any two: `LoginApproved`, `CommitRow`, `KeepSecret` are
login and import, `ForgetSecret` and `CommitLogout` logout, `Scan`,
`ReadSecret`, `AskFails`, `AskLost`, `AskRejected`, `AskGranted`, `UpdateRow`,
`KeepSecret` refresh and tick. Time is counted in periods of the timer and
passes (`Advance`) when the timer has fired and no command is between two of its
own calls; an approval may take any time. A provider is its name: one that is removed
and added again under a login is the same one, while the code goes by the primary
key it read before and may leave a row whose provider is gone.

### `ClientLoops`

One loop against a server that becomes ready at a time of its own; the clock is
moved by sleeps and by calls, in half seconds so that the truncation of a
`Retry-After` date shows. `RequestCode`, `BeginSleep`, `Sleep`, `Pending`,
`SlowDown`, `Refused`, `Granted`, `ExpiresLocally` are `oauth.py`; `Wait`,
`GiveUp`, `Served` are `_call` (JMAP, 8 attempts, a wait after the last one too)
and `_request` (Graph, 4 attempts) with `parse_retry_after`.

## 3. Runs

Deadlock is checked in every run but `item_writes`, where everything may be in
sync and no user left to act, and `event_rounds`, where a create the server
always refuses leaves nothing to do. Runs of the engine and commands are never
bounded in number.

| Run | Instance | States | Shows |
|---|---|---|---|
| `merge_rounds` | one field of each strategy, every pair of items, two edits, any number of rounds | 79 k | `TypeOK`, `RoundSettles`, `NothingInvented`, `ScalarEditKept` |
| `sync_safety` | DAV on both sides; nothing, the same or a different item on B; a create, an edit and a delete by users; one failing call, one crash; all modes | 2.6 M | `TypeOK`, `NoDuplicates`, `DeletesFollowDeletions`, `NoItemLost`, `InSyncWhenUndrifted`, `NoResurrection`, `NoLostEdit` |
| `sync_convergence` | DAV; a create and two edits, or an edit and a delete of items that both sides had; one crash; automatic runs | 197 k | `Convergence`, `PruneIsSafe` |
| `sync_contacts` | contacts over JMAP, which skips, and Graph; a create and an edit, or an edit and a delete, of items that users may make twice; quota of four ids | 1.8 M | `SkipMissesNothing`, `NoKeyClash`, `InSyncWhenUndrifted` |
| `containers` | two accounts, a container on one or both; in turn: one made, renamed or dropped, items added and removed; one failing call, one crash | 655 k | `TypeOK`, `RemovalsHaveCause`, `TreesAlike` |
| `item_writes` | four protocols (Graph with and without photos), three texts, three edits, two faults | 117 k | `TypeOK`, `ReportsChanges`, `WritesRetried` |
| `contact_rounds` | nine groups of fields between JMAP, Graph and CardDAV; two edits, one failed photo call | 82 k | `TypeOK`, `NothingInvented`, `NothingVanishes`, `EditsArrive`, `RoundsSettle` |
| `event_rounds` | fourteen groups of fields between JMAP, Graph and CalDAV; two edits | 110 k | the same four |
| `accounts` | one account, the operator's commands beside the timer; token life of four periods, horizon of three; outages of one period, two faults; rotating refresh tokens | 522 k | `TypeOK`, `RefreshTokenKept`, `ExpiryNotOverstated`, `TokenFresh`, `EntriesHaveRows` |
| `client_loops` | the three loops, every style of `Retry-After`, servers ready around every boundary of the waits, calls of 0, half a second and 30 seconds, three `slow_down` | 2.9 M | `TypeOK`, `Patient`, `GivesUpLate`, `EndsInTime` |

Bounds and why they are enough:

- `SyncEngine`: users' changes come from the scenario (`Scenarios` gives the
  stores before the first run and how many creates, edits and deletes follow),
  `MaxFail` bounds failing calls, `MaxCrash` crashes, `MaxId` is the number of
  ids a server gives out before it refuses creates. Two items, two values and
  one or two changes of each kind reach the cases the code distinguishes: an
  item on either or both sides, mapped or not, paired, healed, drifted on
  either side, in conflict, gone from one or both sides, a second item that is
  created while the first is merged, a key that collides.
- `Containers`: two names and one container per account at first give every
  combination of matched, one-sided, renamed and re-made containers; at most
  two kinds of change in one behaviour, since each kind multiplies the states.
- `ItemWrites`: a third text tells a user's edit from both merged texts; three
  edits and two faults allow an edit before, during and after a write that
  fails, is made again and fails again.
- `ConvertedRounds`: two edits make a conflict, or an edit after a merge. Two
  values and the missing one per scalar, two elements per list.
- `Accounts`: one account is enough, as accounts share only the database key
  (`AccountsRowReuse.cfg` has two). A larger instance with two users,
  10.2 million states, holds too. A period is the
  timer's five minutes and the horizon three of them, the defaults of `cli.py`;
  a token lives four, so that it is not always due. An outage of two periods
  would use up the horizon.
- `ClientLoops`: `ReadyTimes` are the sums of waits of every loop and style, one
  half second less and more.

**Fairness.** `SyncEngine`: `WF_vars(\E md \in Modes : Start(md))` says that
runs are started again and again, which is what a scheduler or a user of the
tool does; `WF_vars(Run)` says that a started run carries on, which holds for a
sequential program whose calls return or time out. `Containers` has the same,
with `SF_vars(Start(route))` for each command, since a command is enabled only
between the runs of the others and a schedule reaches each. `ItemWrites`:
`WF_vars(Engine)`, runs go on. Users, failures and crashes have no fairness
anywhere, and are bounded, so each liveness property says what holds once they
stop. `Accounts`, `ConvertedRounds` and `ClientLoops` have only safety
properties: `EndsInTime` bounds the clock instead.

### Violations

Two runs end in a violation. `findings` in `PROJECT.json` quotes the lines.

| Run | Property | What happens |
|---|---|---|
| `write_refused` | `RecordedStateMatches` | A JMAP server refuses an update. The adapter logs it and reads the fingerprint the item has anyway; the engine records the merge. The sides differ and nothing drifts any more. |
| `container_cursors` | `SkipMissesNothing` | Accounts x and y are synchronised, then x and z. The stored state of x's container is found by x's name alone: it is skipped in the run with z, whose mappings it is not in, and none of its items is created there until x changes. |

More configurations end in a violation of what the code, its documentation or
its tests promise. They are not among the runs listed in `PROJECT.json`; each
is checked by `tlc -config <file> <module>`.

| Configuration | Module, property | What happens |
|---|---|---|
| `SyncPrune.cfg` | `MCSyncEngine`, `PruneIsSafe` | A run stores the hash of the listings from before its own writes. An item it creates and the user then deletes leaves the side as the hash describes it: the pair is pruned and the deletion never propagates. |
| `SyncSkipDeletes.cfg` | `NoItemLost` | A skipped container has no children in the tree and `tree.py` does not look at `skipped`: when the other side changed, all mapped items there are deleted; a second such run deletes the rest. |
| `SyncMixed.cfg` | `DeletesFollowDeletions` | CardDAV with JMAP or Graph contacts: only A's leaves have keys, so a pair that is stored under A's key looks deleted from B in the next run. |
| `SyncUnkeyedDeletes.cfg` | `NoResurrection` | Contacts over JMAP and Graph: a deletion on one side is undone from the other. |
| `SyncRename.cfg` | `NoItemLost` | Calendars over JMAP and Graph: an event renamed and, after a run, renamed back is deleted on both sides. |
| `SyncMatchFailure.cfg` | `InSyncWhenUndrifted` | Two items matched by identity fields: one update fails and the pair is recorded as if it had been made, so the sides differ for good. |
| `ContainerRename.cfg` | `MCContainers`, `MatchesAreNew` | A container is renamed on one side. A run makes the new name on the other side and the old name anew; the next plans the item's creation in both new containers, matches the two creates with each other and records them under the pair of the old containers, which has that mapping: the unique constraint ends this run and every later one. |
| `EventEditReverted.cfg` | `MCEventRounds`, `EditsOfOneSideArrive` | A CalDAV rule spelled `INTERVAL=1` comes back from JMAP without it, which counts as an edit of the JMAP side: it may win over a real edit of the rule on the CalDAV side. |
| `EventZone.cfg` | `MCEventRounds`, `NothingInvented` | A zone without Windows name, such as Europe/Stockholm, is written to Graph as UTC with local digits: the event moves by the offset of its zone. |
| `AccountsRowReuse.cfg` | `MCAccounts`, `TokenOfAccount` | A refresh finds its row again by primary key. SQLite may have given the key to another account after a logout and a login meanwhile, which then gets this account's token. |

The passing runs stay outside these: `sync_convergence` has no failing calls and
no deletion of an item that a run created, `sync_safety` no skipping,
`sync_contacts` no failing calls, `containers` one command and no skipping. This
is a limit of the code and not of the models; the violations use the same
specifications. `ReportsChanges` and `WritesRetried` set the first violation
apart by `silent`, `NothingVanishes` and its kin set fields apart whose separate
call ever failed (`missed`): the code takes a photo that could not be read or
written for one that was removed.

### What conversions lose

The instances of `event_rounds` and `contact_rounds` leave out combinations in
which a conversion loses what another server can hold, so that the properties
speak of what is promised. The code's losses, as we met them:

- Graph: rules of a frequency it does not know vanish, as do positions in a rule
  and the start of its week; url, color, conference link, status tentative and
  excluded dates are not written; coordinates of another protocol are refused or
  dropped.
- Excluded dates are local in JSCalendar and UTC in iCalendar, and pass from one
  to the other unconverted.
- CalDAV: an event with times in UTC has the zone `""`. Graph leaves out start
  and end without a zone and refuses the create; with JMAP an edit of the zone
  is undone. An all-day event from JMAP or Graph comes with times and cannot be
  written (`caldav_adapter.py:995`, `1019`), and neither can a reminder merged
  into an existing event whose item has the action unset
  (`caldav_adapter.py:1114`).
- A patch cannot remove a value on the first merge of a pair, a removed end of
  an event comes back over JMAP, the website of a contact is not written over
  JMAP.

Left out of the models besides: attendees or addresses twice in one item,
toggling all-day, and a Graph server that changes an event's organizer.

### Hazards beyond the list

`PROJECT.json` lists at most what a reader can work through; these are as real
and have no property yet: no unique constraint on provider and uid of an
account (`groupware_sync_auth/storage/db.py:43-50`); a provider that is removed
under a login (`service.py:92`); `_identity_match` across containers
(`engine.py:701`); container hashes without the container's name
(`models.py:121`); two containers whose names differ in case (`tree.py:112`); a
container that was dropped and made again while its counterpart is skipped
(`ops.py:274`); root pair and cursors shared by contacts and calendars of one
pair of providers (`ops.py:45-62`); the source of a create taken as the snapshot
although the server may store less (`engine.py:805`); two Graph rows with one
iCalUId, of which the later becomes the leaf (calendar `graph_adapter.py:387`);
the schema upgrade with a database driver that commits each `DROP`
(`state/db.py:167`).

## 4. Proofs

All theorems hold for any constants that meet the named assumptions:
`StrategyAssumption` (every field has one of the four strategies),
`ListsAssumption` (the values of a list field are closed under union),
`MaxEditsAssumption`, `SentinelAssumption` (the sentinels are not keys or
values), `EngineAssumption` (the shape of the constants of the engine; the ids
of a scenario's items differ and lie below `FirstId`), `LegacyAssumption` (the
key of a mapping without identity, the sha256 sum of a text that begins with
`legacy|`, is no identity key), `ItemWritesAssumption`
(sentinels, protocols, bounds), `LoopsAssumption` (times are natural numbers,
and calls have a longest duration, which their timeouts see to),
`AccountsAssumption` (sentinels differ from what they stand for, bounds are
natural numbers), `ContainersAssumption` (routes go between accounts, scenarios
are sets of containers).

- `MergeRoundsProofs`: `TypeCorrect` (`Spec => []TypeOK`) and, from it,
  `RoundsSettle`, `MergeInventsNothing` and `EditsAreKept`, the three action
  properties that `merge_rounds` checks. `TypeOK` is inductive. The argument of
  all three is `RoundWrites`: after a round each side reads, field by field, as
  the merged item, because a side that was not written did not differ from it.
  For lists "reads" identifies a missing and an empty one, and needs that a
  merged list is never the missing one, which is where `ListsAssumption` and
  `TypeOK` come in. `RoundsSettle` then follows as a merge of equal readings
  is that reading.
- `SyncEngineProofs`: first `TreeCompare`. For any listings and mappings the
  comparison gives a well-formed plan (`PlanTyped`); a create with a key has one
  that no mapping left by the comparison has (`CreatesAreNew`), the part of
  `NoKeyClash` that is the comparison's; no item is both the source of a create
  and the target of a delete or part of a merge (`OneOperationPerItem`).

  Then `SyncEngine`: `TypeCorrect` (`Spec => []TypeOK`). `TypeOK` alone is not
  inductive: between the two writes of a merge `cur.val` must be a value and
  not the sentinel of a missing snapshot, or the second write would put it in
  a store. The inductive invariant is `TypeInv == TypeOK /\ CurrentIsSet`;
  the proof has one lemma per action. Two more theorems hold for any adapters,
  scenarios and failures:
  - `SkippedIsKnown`, `Spec => []SkipMissesNothing`. `SkipInv` adds that no state
    string on record is ahead of the container's (`CursorsLag`, the reason why
    `build_tree` must ask for the state before it lists), and that while the one
    asked for is current, the listing taken after it (`ListingsKnown`) and then
    the hash of that listing (`HashKnown`) are what the container holds. An edit
    between state and listing only makes the string old, so the next run lists
    again.
  - `KeysNeverClash`, `Spec => []NoKeyClash`: no mapping that a run is about to
    record meets the unique constraint. `KeyInv` says that ids are fresh, that a
    mapping without identity has the key of its two ids and no other way to get
    it (`MapsKnown`), and that the keys of planned creates stay apart from the
    mappings' and from each other while they are recorded one by one
    (`CreatesKeyed`, `CreatesUnmapped`, `PairPlanned`).
- `SyncEngineSafety`: what the engine never does to items. `NothingDoubled`,
  `DeletionsFollowed`, `NothingLost` and `NothingResurrected` state
  `NoDuplicates`, `DeletesFollowDeletions`, `NoItemLost` and `NoResurrection`
  under `Dav`: two DAV servers, which may skip or not, with any keys, values,
  ids, numbers of items, edits, failures and crashes, and any modes. They are
  about the behaviours in which no container is skipped
  (`Spec /\ []NothingSkipped`), not about servers of which it is assumed that
  they cannot. The adapters skip only by a sync-token that the server reported
  and that is the stored one (`carddav_adapter.py:90-97`,
  `caldav_adapter.py:129-136`), so the theorems hold as they stand for servers
  without sync-tokens and for all runs up to the first skip; for a behaviour with
  one they are false, which `SyncSkipDeletes.cfg` shows. The other parts of `Dav`
  are needed too: keys made of content (`SyncRename.cfg`), adapters without keys
  (`SyncUnkeyedDeletes.cfg`, `SyncMixed.cfg`) and users who give an old identity
  to a new item each break one of the four. `NothingResurrected` has the one
  exception of `NoResurrection`: a merge that fetched an item puts it back if it
  is deleted before the write. The invariant `DavInv` is about references: an id on a side
  with the identity it goes by, in a store, a tree, a plan, a mapping or a
  fetched item. An id stands for one identity and an identity for one id
  (`RefsAgree`, `RefsOne`), and an identity leaves a store only by a user's
  deletion (`RefsGone`). A listing is older than the plan made of it, so
  `LateNew` says that what it missed has an identity that nothing else has yet;
  `CreatesAbsent` that what is to be created is not there; `DeletesCaused` that
  a planned delete is of a mapped item whose other half is gone; `DroppedGone`
  and `TrueMapped` that a mapping outlives the copies of an item that was
  deleted on one side, also over a rollback, so that nothing brings it back but
  the merge in flight.

  `FingerprintsTell` (`InSyncWhenUndrifted`) and `EditsSurvive` (`NoLostEdit`)
  hold under `Dav`, while nothing is skipped, or under `Unkeyed`, contacts over
  JMAP and Graph as in `sync_contacts`, skipping or not. `TruthInv` says of every recorded
  fingerprint that it is not ahead of the item's version, and that an item still
  at that version has the snapshot's value (`Seen`); this stays true whatever a
  server does, since versions grow and ids are not given out twice. An item that
  a PUT made again has a version beyond all that were recorded (`Covered`). It needs
  `Sound` of the adapters: one mapping per item, no comparison that points a
  mapping at another item, and no failing call while matched pairs are written.
  The first two follow from `DavInv` for DAV and from `LegacyInv` for adapters
  without keys. The third is why `Unkeyed` asks for `MatchOn = {}` or
  `MaxFail = 0`: `_execute_creates` records a matched pair even if its write
  failed (`SyncMatchFailure.cfg`); between DAV servers the comparison pairs what
  a matching could find, so nothing is matched at all.

  `PruningIsSafe` states `PruneIsSafe` under `Dav` and four hypotheses, each for
  a way in which a hash does hide a change. `[]NothingSkipped`, as above. `MaxFail = 0`: the run hashes the
  listings before its writes, so an item whose creation failed is in the hash and
  is not tried again. `Roomy`, that no server is full: a refused create is a
  failed one. `CopiesStay`, that no user deletes a copy before a committed
  listing has it: `SyncPrune.cfg` is what happens otherwise. Crashes, rollbacks,
  concurrent edits, creates and deletes of everything else, and any modes are
  allowed; `sync_convergence` is an instance, where users create or delete but
  never both. The invariant `PruneInv` says of the hash in the database and of the
  run's own that the listings it was made of are either there unchanged
  (`Intact`) or never again, since versions grow and ids are not given out twice.
  While they are there, `Agreed` holds: what was hashed is paired by key
  (`HashedPaired`), or there is a copy made since (`Copied`), or the run still has
  creates or deletes to write; and the mappings have the hashed fingerprints
  (`HashedRecorded`), but for merges still to come. A comparison that prunes has
  just listed both sides, so neither a copy nor a write is outstanding, and the
  plan made of paired, recorded items is empty (`NothingToWrite`).
- `ItemWritesProofs`: `TypeCorrect`, and `AdaptersReportChanges`, `Spec =>
  ReportsChanges`: the writes of every protocol, call by call, implement
  `ChangeReport` under the mapping `content <- server.text`, `memo <-
  memo.text`, `reported <- Reported \/ silent`. The step simulation needs more
  than types: no recorded or remembered version is ahead of the server's
  (`VersionsGrow`), a job that is about to record remembers the version at which
  the server held its text (`JobsMean`), and a fingerprint that is still current
  is that of the recorded text (`MemoTells`). A server's change is a `Change`, a
  recording a `Note`, everything else a stutter.
- `ClientLoopsProofs`: `TypeCorrect`, `CallsArePatient`, `NothingGivenUpEarly`
  and `LoopsEnd`, the four properties of `client_loops`, for any lifetimes,
  latencies and times of readiness. The inductive invariant `IInv` is `TypeOK`
  with `Course` (which loop is at which `pc`), `PollInv` for the poll (the
  deadline is not before the server's expiry, the interval is the server's
  spacing, what is slept reaches past `asked`, and the clock is past the user's
  approval by at most one interval and a call) and `CallInv` for the throttled
  calls (after n waits the clock has passed the server's readiness or the sum of
  n waits, and is at most n times two minutes and a call).

- `AccountsProofs`: `TypeCorrect`, `RefreshTokensKept`, `ExpiryHonest` and
  `EntriesAccountedFor`, for any providers, users, lifetimes, outages and number
  of faults, with and without rotation and key reuse. `IInv` has four parts
  besides `TypeOK`: `CommandsMean` (which account, token and answer go with each
  place of a command); `AnswersGood` with `EntriesGood` (a token in hand is live
  and, with rotation, held by no one else; an entry's token is live, lost, or
  being replaced by a granted refresh); `OneRowEach`, `RowsNew` with
  `EntriesHonest` (a row that a refresh did not list is as new as the command,
  so what the keyring is told afterwards is no overstatement); `RowsKept` (every
  entry, and every account a command may still write, has a row or was logged
  out under the command's hands).
  In the same module, `TokensFresh`, `Timely => (Spec => []TokenFresh)`, where
  `Timely` is `MaxOutage + 1 < Horizon /\ Horizon <= Life`: the three periods of
  the default horizon are what one period of outage takes, and a longer horizon
  buys exactly as many more. `FInv` adds to `IInv` that a token has more left
  than the outage can still eat (`Floor`), that once the timer has fired with
  the IdP up it outlives the horizon or is still in somebody's hands (`Ahead`),
  and that the IdP only rejects a token that was lost or already replaced
  (`AsksGood`), without which two refreshes of one account side by side would
  both give up.

- `ContainersProofs`: `RecordsAreTrue` and, from it, `RemovalsCaused`,
  `Hypotheses => (Spec => RemovalsHaveCause)`, for any accounts, routes and
  changes of containers. `Hypotheses` says that the containers of a scenario
  have ids of their own below `FirstId`, which servers see to, and that no
  account passes over unchanged containers (`Skips = {}`, as in
  `Containers.cfg`): a tree that lacks the items of a skipped container does not
  show that they are gone. The invariant `CauseInv` is that a key on record is
  `Held`: its container, if it is there still, has the key, or a user removed
  it. A mapping stands for a key held in both of its containers
  (`MappingsHeld`); a tree shows what is held, and lacks of the mappings only
  what was removed (`TreesHeld`); a planned delete is of a removed key and a
  planned create of one held where it comes from (`PlanHeld`). `Held` survives
  every change of the servers (`HeldStays`), since a step makes a container with
  a new id, adds items, or takes away only what was removed (`Evolves`); ids
  that containers do not share (`IdsApart`) make it a statement about one
  container.

  `TypeCorrect` of the same module needs less (`StartTyped`: the containers of
  an account start with ids and names of their own and one item per key) and
  holds with containers that are passed over. Its `TypeInv` adds to `TypeOK` what
  the trees and the plan hold; the one part that is not routine is that no cursor
  outlives its pair: a comparison forgets mappings only of pairs whose hash it
  records (`ComparisonTyped`).

- `ContactRoundsProofs`: the five properties of `contact_rounds`. The hypothesis
  `OfContacts` says that `ConvertedRounds` is given the conversions, strategies,
  facts and separate calls of contacts, as `ContactRounds.cfg` gives them, and
  that scenarios are of the three protocols and of records that these allow
  (`WellFormed`), whatever they contain; `SentinelsApart`, that a fact is not the one that says nothing and a
  snapshot not the missing one. The argument goes conversion by conversion:
  what a write leaves has of each scalar the item's value or the old one (`Kept`),
  the item's if it has one and the protocol writes it (`Sent`), and the lists of
  the item, where the protocol has room for them (`Lists`, `Whole`); reading adds
  nothing; a merge takes each scalar from one of the items and of a list the
  union.
  - `TypeCorrect`, `ContactsInventNothing` and `ContactEditsArrive` state
    `TypeOK`, `NothingInvented` and `EditsArrive` under `OfContacts` alone.
    `ContactsInv` is their invariant: what the sides tell is among what users
    gave, and a snapshot is of two contacts. `TypeOK` is about each conversion in
    turn (`FormInv`): whatever item a merge makes, of whichever fields are
    missing, what a write leaves is a record of its protocol (`WriteForm`), and
    reading one gives labelled, set elements (`ReadForm`). An edit of a scalar arrives since a
    merge takes the side that differs from the snapshot, every write sends it,
    and a side that is not written had it (`ScalarLands`).
  - `ContactsKeep`: `NothingVanishes` for every fact but names, and for lists that
    one of the sides keeps whole. `KeptInv` is what is needed: a side lacks a value
    of the snapshot only if a user removed one, so that a merge that takes the
    missing value follows a user. Names are excepted because two fields can
    hold one name (a full name that is also the given name): a user of one side
    removes the one, a user of the other side the other, and a merge that follows
    both leaves neither. Lists are excepted in which two Graph servers have one place for
    several addresses of a label, because one of them goes. `NamedContactsKeep`
    is `NothingVanishes` itself where names stand (`NamesStand`, as in all groups
    of the instance but `names` and `unnamed`) and one server is not Graph.
  - `ContactsSettle`: `RoundsSettle` for every fact but names, and for lists that
    both sides keep whole. `SettleInv` tells why two rounds are needed and enough:
    after the first a removed value may be recorded as missing while the server
    that was patched still has it (`Halfway`); the second takes that for a change
    and brings it back, and then both sides and the snapshot agree (`Agreed`).
    Where Graph has one place for several addresses of a label, the model lets it
    keep any of them in every round, so that such lists need not come to rest.
    `NamedContactsSettle` is `RoundsSettle` itself where names stand and neither
    server is Graph.

TLC checked the inductive invariants on instances like those of the runs before
they were proved.

Only model-checked: the rounds of events (`event_rounds`), whose facts depend on
tables of zones, rules and statuses that have no law beyond their entries, so
that a theorem would have to assume what it says; of the rounds of contacts,
`NothingVanishes` and `RoundsSettle` for names and for phones and addresses with
Graph. Liveness (`Convergence`, `TreesAlike`, `WritesRetried`) and `ENABLED` are
out of the prover's reach, as is what recursive definitions compute for every
input.

## 5. What is not modelled, and the plan

Not modelled because it is data or I/O: XML and JSON parsing, discovery of
collections and sessions, paging, tables of zone names, command line and
logging. Not modelled because it is unreachable: the first-generation
providers, and `get_changes` of the adapters, which the engine never calls.
Identity keys are given functions: their normalisation (case, Unicode) is
string processing that TLC has no use for. `repair_malformed_alerts` of the JMAP
calendar adapter is a maintenance pass outside of a sync run.

Next, in this order:

1. `StateUpgrade`: dropping, creating and stamping the cache tables.
2. The de-duplication of Graph events by iCalUId, with its effect on healing.
3. `TwoWaySync`, an abstract specification of a run as the program promises it,
   with `SyncEngine` over DAV implementing it.
