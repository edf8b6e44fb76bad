# TLA+ models of gaby

Formal models of the gaby repository (`src/`). They are checked with TLC, and
some of them are proved with TLAPS. This document describes four things:

- what the system is made of;
- which parts are modelled, and how the model corresponds to the code;
- what each model-checking run and each proof shows;
- what is left and why.

## The system

gaby mirrors GitHub issue data into a local key-value store. Reactors then act
on that store: they post related issues, fix comments and embed documents for
search. The parts, and how they interact:

| Part | Source | Role |
|---|---|---|
| GitHub mirror | `internal/github/sync.go` | `Client.SyncProject` downloads issues, comments and issue events of a project into `["githubdl.Event", ...]` rows through `timed.Set`, and keeps its resumption state in a `projectSync` record. |
| Key-value store | `internal/pebble/pebble.go`, `unnamed/part_007` | A DB with atomic batches (`Batch`, `Apply`), `Scan`, `DeleteRange` and per-key locks. |
| timed store and watcher | not under `src/` | They give every write a modification time (`DBTime`). A named watcher yields the entries after its persisted cursor (`Recent`) and moves the cursor on with `MarkOld` and `Flush`. |
| githubdocs | `internal/githubdocs/sync.go` | Watches the mirror and copies issue text into the docs corpus. |
| docs corpus and embeddocs | `internal/docs/docs.go` | A corpus of documents, and `Sync`, which watches the corpus, embeds documents in batches and stores the vectors. |
| related | `internal/related/related.go` | Watches new issues and posts a "Similar Issues" comment once per issue. |
| commentfix | `unnamed/part_000` | Watches issues and comments and edits bodies that match rewriting rules. |
| main | `unnamed/part_009`, `unnamed/part_010` | Wires the parts together and runs them in a loop. |
| Helpers | `llm` quote embedder, `gemini`, `httprr`, `secret`, `testutil` | I/O clients and test helpers. |

The mirror is the producer, and every reactor is a consumer of its rows through
a watcher. A row the mirror never writes is invisible to every reactor.

## What is modelled

### `GithubSync.tla`: the GitHub mirror

This module models one project's `SyncProject`, together with a tracker that
keeps changing while the sync runs.

**Constants.** The model is parameterised by:

- `NIssues`, `Comments` and `CommentIssue`: the issues, and the comments of each issue;
- `MaxClock`: the number of timestamps and event ids;
- `PerPage`: the page size of each API;
- `MaxPages`: syncByDate's restart bound, 500 in the code;
- four switches, each of which allows one kind of failure:
  - `Errors`: a request fails;
  - `BadItems`: an item is malformed;
  - `Crashes`: the process crashes;
  - `Expiry`: old events drop out of the events feed.

**State.** The variables fall into three groups.

- The tracker:
  - `upd`: the `updated_at` of each issue and comment;
  - `evIssue`: the events;
  - `floor`: how far back the events feed reaches.
- The durable database:
  - `dbItem` and `dbEvent`: the `githubdl.Event` rows;
  - `psync`: the stored `projectSync`.
- The running `SyncProject`, which a crash loses:
  - `stage`: the call SyncProject is in;
  - `step`: the point reached inside that call;
  - `proj`: the in-memory `projectSync`;
  - `bItem` and `bEvent`: the unapplied batch;
  - the locals of `syncByDate` and `syncIssueEvents`: `qsince`, `npage`, `pg`, `more`, `etag`, `firstID`, `firstETag`, `lastID`, `stopped`;
  - `cur`: the issue of a full-scan call;
  - `scan`: the issues the full scan's iterator yields.

**Data abstraction.**

- An item's JSON is its version: its `updated_at`.
- An event is its id and its issue.
- An ETag is the page content it was computed from.
- The empty string is 0.
- Every tracker change takes the next timestamp. `CreateComment` and `IssueEvent` also bump the issue's `updated_at`, as GitHub does.

**Actions.** Each action is one step of the code. `PROJECT.json` "map" gives the lines of each.

- `SyncProjectStart`: takes the lock and loads `proj`.
- `SyncByDateFetch`: the page request. On an error, the deferred store runs, then the return.
- `SyncByDateItem`: `writeEvent`, then `*since = meta.Updated`, in ascending order. A malformed item is an error return.
- `SyncByDateErrApply`: the deferred `b.Apply` after that error return.
- `SyncByDatePageDone`: `b.Apply`, then `proj.store`, then one of three things:
  - restart pagination after `MaxPages` pages;
  - fetch the next page;
  - return.
- `SyncIssueEventsFetch`: the page request, which ends in one of three ways:
  - a 304 returns nil;
  - an error returns it;
  - otherwise the page is read.
- `SyncIssueEventsItem`: the walk in descending id order. It stops at an id at or below `proj.EventID`, or at once when `onlySetLatest` is set.
- `SyncIssueEventsPageDone`: the end of a page.
- `SyncIssueEventsFinish`: either "lost sync", or `proj.EventID = firstID` followed by `proj.store`.
- `SyncIssueEventsApply`: the deferred `b.Apply`, then the return.
- `FullScanNext`: one iteration of the full scan's loop, which ends by storing `FullSyncIssue`.
- `Returned`: SyncProject's choice of the next call, with the stores it makes on the way (markFull, `FullSyncIssue`, `FullSyncActive = false`).
- `Crash`: drops every local and the unapplied batch.

Deferred calls run in Go's LIFO order. A return therefore performs its deferred
`proj.store` and `b.Apply` in two separate steps wherever the code runs them in
that order. A crash may come between them.

**Abstractions.**

- `b.MaybeApply` is left out. It applies only batches over 100 MB, so it never fires on the model's small batches.
- Writes use pebble's `noSync`. The crash is therefore a process crash: applied batches survive, and a power loss is not modelled.
- `get`'s retries (20 rate-limit retries, 3 retries on a server failure) are folded into one request that fails or succeeds.

### `MC_GithubSync.tla`

This module fixes the instances for TLC:

- one comment, on issue 1;
- three page-size choices:
  - `MCPerPageWide`: by-date feeds fit one page, and the events feed has one entry per page;
  - `MCPerPageTwo`: two entries per page;
  - `MCPerPageOne`: one entry per page everywhere.

### `GithubGet.tla` and `GetAbstract.tla`: one request with retries

`GithubGet` models one call of `Client.get` (sync.go:479-537) and
`rateLimit` (603-625). Each `Get` step is one HTTP request and the handling
of its answer, and `Respond` is the status switch:

- 200 is decoded, and the decoding may fail;
- 304 can only answer a request that sent an ETag;
- a rate-limit 403 is retried while `nrate <= MaxRate`;
- 500 and 502 are tried `MaxFail` times;
- any other status, or a transport error, returns an error.

The sleeps are left out, because they change nothing but time. `reqs` is a
history variable that counts requests.

`GetAbstract` is what `GithubSync` assumes of every request: one call returns
once, with `ok`, `err`, or `notModified` when an ETag was sent. `GithubGet`
refines it with the identity mapping on `etag` and `res`.

### `Pipeline.tla` and `MC_Pipeline.tla`: the consumers of the mirror

`Pipeline` models the main loop (part_009:99-106) and the consumers it runs:

- githubdocs `Sync`;
- embeddocs `Sync`, with its batches and `flush`;
- related `Poster.Run`.

They read the mirror through named timed watchers. The timed package is not
under `src/`. Its modtimes, `Recent` (rows after the cursor, in modtime
order) and `MarkOld` (the cursor becomes the larger of the two) are
therefore taken from spec.md 4.D/4.E and marked `spec_modelled` in the map.

The mirror is abstracted to its writes. Each write of an issue row takes a
fresh modtime, and a sync may stop early (`SyncErrors`).

**State.** The state holds:

- the tracker (`gh`);
- the rows (`ev`, `doc`);
- the vector database (`vec`);
- the posted markers (`marked`);
- the watcher cursors (`cursor`);
- the loop's locals (`pc`, `pos`, `batch`, `batchLast`, `cur`).

**History.** `decided` records the row modtime at which related last passed
over or posted on an issue.

**Faults.** Three flags switch on faults:

- `EmbedFaults`: the embedder fails, answers short, or answers too many;
- `PostFaults`: `PostIssueComment` fails;
- `Crashes`: the process restarts from the persisted state and loses its
  locals.

Bodies are version numbers. A vector is the version it embeds. The search
results above the cutoff are `Similar[i]`.

`MC_Pipeline` gives `Similar` (every issue is similar to every other one) and
the constraint `Bounds` on modtimes and posts.

### `CommentFix.tla`, `MC_CommentFix.tla` and `CommentFixAlgo.tla`: commentfix

`CommentFix` models `Fixer.Run` (part_000:267-327) against users who edit
bodies at any time. The loop has these steps:

- `FixConsider`: the filters (`Skip`), the time limit (`Expired`, which
  is marked old) and `Fix`;
- `FixDownload`: the download and the stale check, which compares the live
  body with the row;
- `FixEdit`: `EditIssue` or `EditIssueComment`;
- `FixMark`: `MarkOld`;
- `FixEnd`: `Flush`.

A user may edit a body between `FixDownload` and `FixEdit`, and the edit is
then replaced by the fix of the older text. The project states no property
against this. The stale check narrows the window but does not close it, and
the doc comment of `EditIssueComment` (src/internal/gemini/gemini_test.go:441-444)
says that downloading and comparing first only minimizes race windows.

Calls may fail (`APIFaults`), and the process may crash (`Crashes`). A body
is a version and a flag saying whether it still needs a fix. `nedit` is a
history variable that counts the Fixer's edits of one user version.

`CommentFixAlgo` models `Fix`, `fixOne`, `fixBlock`, `fixInlines` and the two
rules main configures, `AutoLink` and `ReplaceURL`. A document is its parse
tree. Text is a sequence of tokens: "CL", a match of the AutoLink pattern;
"old", a URL of the old host; and "w", anything else. The checks run `Fix` on
each of 30504 documents of a bounded set. The module uses RECURSIVE
operators, so it is for TLC only.

### `StorageDB.tla` and `PebbleDB.tla`: the key-value store

`StorageDB` is the contract of `storage.DB` and `storage.Batch`
(part_007:23-131) for one client:

- `DeleteRange` and `Scan` include both of their bounds;
- a batch is what it will do to each key, and a later operation on a key
  overrides an earlier one;
- `Apply` applies the batch all at once;
- `MaybeApply` either applies and reports `TRUE`, or reports `FALSE`.

`out` records the last call, with its arguments and its result.

`PebbleDB` models the adapter (pebble.go:59-207) over Pebble. Pebble itself
is taken as a sorted map. Its range deletion excludes the end key, and a
batch is a sequence of engine writes.

- `DeleteRange` is a range deletion followed by `Delete(end)`.
- `Scan` iterates from the start key and stops at the first key past the
  end.
- `batch.DeleteRange` records the same two writes.

The refinement maps a batch to `Pending(batch)`: the effect of the last
write that touches each key. `StorageRefines` is `StorageDB!Spec`.
`Inverted` says whether callers may pass a start past the end.

## Properties

Each property is stated next to its definition in the module, with the code
behaviour it is about.

**GitHub mirror (`GithubSync`).**

- **`EventsMirrored`**: while no full scan is under way and no SyncProject runs, every event with an id up to the stored `EventID` is in the database. This is the promise of the "dance" described at sync.go:366-381.
- **`FullScanResumable`**: during a full scan, every event up to `EventID` of every issue up to the stored `FullSyncIssue` is stored. A resumed scan, after an error or a crash, therefore misses nothing.
- **`ItemsMirrored`**: every issue or comment last updated before the stored since date is stored at that version. A run that starts at that date therefore misses nothing.
- **`EventIDNeverRegresses`** (an action property): the stored `EventID` never moves back to an earlier nonzero event. The stronger `EventIDMonotone` of spec.md 4.H is also defined, and an empty events feed breaks it (sync.go:455). No run lists it.
- **`EventuallyMirrored`** (liveness): `<>[]AllMirrored`. Once the tracker is quiet, every event and the latest version of every item end up in the database for good.

**Requests (`GithubGet`).**

- **`RequestsBounded`**: one call sends at most `MaxRate + MaxFail` requests.
- **`GetRefines`**: `get` implements `GetAbstract` with its fairness. It returns exactly once, with an allowed result.

**Consumers (`Pipeline`).**

- **`DocsMirrored`**: githubdocs never marks its watcher past an issue row whose text the corpus does not hold at the row's version.
- **`VectorsCurrent`**: embeddocs never marks its watcher past a doc whose current text has no vector. This holds even when `EmbedDocs` fails, or answers short, after part of the batch was written.
- **`RelatedNoneSkipped`**: once related's watcher has passed the row of an open issue it may post on, it has posted on that issue, or found at that row that the issue has no similar issues.
- **`NoDoublePost`**: no issue gets two "Similar Issues" comments.
- **`PipelineConverges`** (liveness): once the tracker is quiet, the mirror, the corpus and the vectors become current and stay so.

**commentfix.**

- **`NoRefix`**: the Fixer never edits the same user text twice. When it meets its own, already fixed row again after a crash, the stale check stops it.
- **`FixNoneSkipped`**: the Fixer's cursor never passes an eligible row that still needs a fix and is still the live text.
- **`FixConverges`** (liveness): once users stop editing, every body the Fixer may edit ends with nothing left to fix.
- **`FixComplete`**: `Fix` with main's rules leaves no "CL n" unlinked outside links and no link to the old host, and never nests a link inside a link.
- **`FixStable`**: on its own output, `Fix` finds nothing more to do. The Fixer's edit, when it comes back through the mirror, therefore makes no second edit.

**Store (`PebbleDB`).**

- **`StorageRefines`**: every call of the Pebble adapter, batch calls included, is a step of the `storage.DB` contract.

## Runs

The number of runs is kept small. A run checks every property that holds under
its configuration of faults. The violation run is the finding that needs no fault
at all, only the normal interleaving of the tracker and the program.

| Run | Module | Expect | Checks | Shows |
|---|---|---|---|---|
| `mirror_safety` | MC_GithubSync | pass | `TypeOK`, `EventsMirrored`, `ItemsMirrored`, `FullScanResumable`, `EventIDNeverRegresses` | With failing requests, malformed items and expiring events, the stored cursors never promise more than the database holds. About 5.6M states. |
| `mirror_crash` | MC_GithubSync | pass | `ItemsMirrored`, `FullScanResumable` | A crash at any point, with failing requests and no malformed items, keeps the since dates and `FullSyncIssue` safe. |
| `mirror_liveness` | MC_GithubSync | pass | `EventuallyMirrored` | With no failures and no expiry, the mirror converges. |
| `pagination_skip` | MC_GithubSync | violation | `ItemsMirrored` | Offset pagination with concurrent updates (sync.go:285) skips an item, and `since` moves past it. |
| `get_retry` | GithubGet | pass | `TypeOK`, `RequestsBounded`, `GetRefines` | With the code's budgets (20 and 3) and every mix of answers, get sends at most 23 requests and returns once, with an allowed result. |
| `pipeline_safety` | MC_Pipeline | pass | `TypeOK`, `DocsMirrored`, `VectorsCurrent` | With sync errors, every embedder failure, failing posts and crashes, the githubdocs and embeddocs cursors never pass a missing or stale doc or vector. |
| `pipeline_liveness` | MC_Pipeline | pass | `PipelineConverges`, `RelatedNoneSkipped`, `NoDoublePost`, `CorpusInv`, `RelatedInv`, `PostedOnce` | Without faults, related skips no issue and posts once per issue, and everything converges, a partial last batch included. It also checks `CorpusInv`, `RelatedInv` and `PostedOnce`, the inductive invariants of the pipeline proofs. |
| `fix_safety` | MC_CommentFix | pass | `TypeOK`, `NoRefix`, `NoRefixInv` | With sync errors, failing calls, crashes and concurrent user edits, the Fixer never edits the same user text twice. About 2.7M states. |
| `fix_liveness` | MC_CommentFix | pass | `FixConverges`, `FixNoneSkipped`, `FixMarkedInv` | Without faults, the cursor never passes a row left to fix, and the bodies converge. It also checks `FixMarkedInv`, the inductive invariant of the `NoneSkipped` proof. |
| `fix_rules` | CommentFixAlgo | pass | `FixComplete`, `FixStable` | Fix is complete and stable on each of the 30504 documents of the bounded set. |
| `pebble_refines` | PebbleDB | pass | `TypeOK`, `StorageRefines` | The adapter implements the `storage.DB` contract for ranges with start <= end. |

**Bounds.** The bounds are chosen so that the cases that matter happen.

- **GithubSync.** All runs use 2 issues and 1 comment. `MaxClock` is 4 or 5. `MaxPages` is 2, the smallest value for which the restart makes progress. These bounds produce:
  - a page boundary in the middle of a feed;
  - an item updated between two page requests;
  - an event created during a full scan;
  - events expiring before an incremental sync.
- **Pipeline.** The safety run uses 2 issues, 2 versions, 8 modtimes, 2 posts per issue and batches of 1. With batches of 1, a flush comes in the middle of a scan. The liveness run uses 12 modtimes and batches of 2, so that a partial last batch occurs. Every issue is similar to the other, so that related both posts and finds no results.
- **CommentFix.** There are 4 items:
  - item 3 is filtered out (`Skip`);
  - item 4 is past the time limit (`Expired`);
  - items 1 and 2 each start clean or in need of a fix.

  Users may make one more edit each. `MaxTime` is 5 for `fix_safety` and 12 for liveness. Five modtimes are enough for a fix, its crash before `MarkOld`, and the row met again.
- **PebbleDB.** There are 3 keys, so that a range has a key inside it, a key at each end, and a key outside. There is one value, and batches of up to 3 writes. `ApplyAt = 1`, so that `MaybeApply` takes both branches.
- **get_retry.** The bounds are the code's: `MaxRate = 20` and `MaxFail = 3`.

**Faults switched off.** Several properties fail under faults. Setting the
switch reproduces each case:

| Property | Switch | How it fails |
|---|---|---|
| `EventsMirrored` | `Crashes = TRUE` | The process crashes after `proj.store` of the new EventID (sync.go:457) and before the deferred `b.Apply` (405). The events are then lost for good. |
| `ItemsMirrored` | `BadItems` and `Crashes`, with 3 issues on one page | On a malformed item, the deferred `proj.store` (284) runs before the deferred `b.Apply` (280). A crash in between loses items. |
| `EventuallyMirrored` | `Expiry = TRUE` | After expiry, every run fails with "lost sync" (451). The code never falls back to a full scan (193). |
| `RelatedNoneSkipped` | `PostFaults = TRUE` | A failed `PostIssueComment` skips the issue without `MarkOld`. The next issue's `MarkOld` then moves the cursor past it (related.go:253). |
| `RelatedNoneSkipped` | `EmbedFaults = TRUE` | A failed final flush returns with the batch's vectors missing, and Run starts anyway. Its `vdb.Get` of such an issue fails and the issue is skipped without `MarkOld` (related.go:201-204). The next issue's `MarkOld` then moves the cursor past it. |
| `NoDoublePost` | `Crashes = TRUE` | A crash between `PostIssueComment` and the marker's `Set` (related.go:252) leads to a second post. |
| `FixNoneSkipped` | `APIFaults = TRUE` | The same skip-past pattern after a failed download or edit (part_000:319). |
| `StorageRefines` | `Inverted = TRUE` | `DeleteRange(2, 1)` deletes key 1 through the extra `Delete(end)` (pebble.go:107). The contract deletes nothing. No caller passes such a range. |

These cases are listed as hazards in `PROJECT.json`, each with its property.
None of them is kept as a violation run: the runs check each property
without the fault that breaks it.

**Fairness.**

- **GithubSync.** `FairSpec` assumes weak fairness of `SyncStep`. The main program calls `Sync` in a loop, and a running `SyncProject` makes progress unless a request fails. The tracker has no fairness.
- **Pipeline and CommentFix.** Weak fairness is assumed only of `LoopStep`: the main loop keeps running its consumers, and each consumer's iteration makes progress. The tracker, the users, and crashes get no fairness. They may stop at any time, and the properties say what happens after they stop.
- **GithubGet.** `Get` is weakly fair. `http.DefaultClient` has no timeout, so the model assumes that the server answers. A hazard in `PROJECT.json` records that assumption.

**Mutants.** Every property of a passing run has a mutant. A mutant replaces one
mapped definition with a plausible bug, and the property must then fail. They
are listed in `PROJECT.json`. Among them:

- a rate-limit answer retried without being counted;
- `AutoLink` without the inside-a-link flag;
- the link depth not decremented after a link;
- `Scan` stopping at the end key;
- `DeleteRange` without `Delete(end)`;
- the watcher marked before the post;
- the stale check dropped;
- embeddocs without its final flush.

## Refinement

- **`GithubGet` implements `GetAbstract`.** The mapping is the identity on `etag` and `res`. A retried request is a stutter, and the return is `Answer`. `get_retry` checks the whole of `GetAbstract!Spec`, fairness included. `GithubGetProofs` proves the safety part.
- **`PebbleDB` implements `StorageDB`.** The mapping is `pend <- Pending(batch)`. `out` is the same variable in both modules and holds each call's name, arguments and result. Without `out`, the abstract module's free choice of range could match a wrong step, and a dropped `Delete(end)` would go unnoticed.

## Proofs

**`GithubSyncProofs.tla`.** This module proves
`THEOREM TypeCorrect == Spec => []TypeOK` for all values of the constants that
satisfy the module's `ASSUME`s. The assumptions used are:

- `NIssues` and `MaxClock` are positive naturals;
- `CommentIssue` maps each comment to an issue.

`TypeOK` is inductive as it stands. The proof has three parts:

- **Lemmas on the operators:**
  - the feeds list well-formed entries, and a page is a subset of its feed;
  - `WithSince` and `SinceOf` keep `projectSync` well typed;
  - `GoIdle` and `Enter` produce well-typed locals;
  - `ApplyBatch` keeps the database typed;
  - `RowIssues` yields issue numbers;
  - `Returned` is well typed in each arm of its CASE.
- **One lemma per action.**
- **The step that combines them with `PTL`.**

**`GithubGetProofs.tla`.** This module proves two theorems for every
`MaxRate \in Nat`, `MaxFail \in Nat \ {0}` and `ReqCap \in Nat`.

- **`RetriesBounded == Spec => []RequestsBounded`.** `RequestsBounded` is not inductive on its own. The strengthening `IInv` says three things:
  - at the `Redo` label, every request sent so far was a counted retry (`reqs = nrate + nfail`);
  - both counters are within budget (`nrate <= MaxRate`, `nfail < MaxFail`), and no result is set;
  - after the return, the result is set.

  `InitIInv` proves that `Init` implies `IInv`. `RespondIInv` proves that each kind of response keeps it, and `NextIInv` that every step does. The theorem follows with `PTL`. The strengthening is what makes the bound hold: the counters pin `reqs` down while the loop runs, and the last request adds at most one.
- **`GetImplementsAbstract == Spec => GetAbstract!SafeSpec`.** From `IInv`:
  - a step that stays at `Redo` leaves `res` unchanged, so it is a stutter of the abstract module;
  - a step that returns goes from "none" to a result in `Results(etag)`;
  - a 304 is possible only with an ETag.

**`GithubGetProofs.tla`, type correctness.** `TypeCorrect == Spec => []TypeOK`
follows from the same `IInv`. The retry counters stay within their limits.

**`CommentFixProofs.tla`.** This module proves three theorems for every number
of items, versions and modtimes.

- **`TypeCorrect == Spec => []TypeOK`.** It has one lemma per action.
- **`FixedOnce == Spec => []NoRefix`.** It holds with every fault switched on: sync errors, API errors, crashes and user edits. `NoRefix` is not inductive. The strengthening `NoRefixInv` adds three facts:
  - an item the Fixer edited since its last user edit is clean;
  - at `download`, the row being fixed needs a fix;
  - at `edit`, the item has not been edited by the Fixer since its user edit.

  With these facts, a row the Fixer meets again is clean, and `FixConsider` passes over it. `fix_safety` checks `NoRefixInv` as an invariant.
- **`NoneSkipped == ~APIFaults => (Spec => []FixNoneSkipped)`.** It holds through sync errors, crashes and user edits. It does not hold with API errors: `fix_liveness` is the run without them, and the hazard in `PROJECT.json` records the failure. The strengthening `FixMarkedInv` has named parts:
  - `FreshTimes`: no row is newer than the clock or than the live body;
  - `DistinctTimes`: no two rows share a modtime;
  - `CursorBehind`: the cursor is not past `pos`;
  - `PassedSettled`: at `fix` and `mark`, every row between the cursor and `pos` is settled;
  - `FixNoneSkipped` itself;
  - `CurrentNeedsFix`: while a download or an edit is running, `cur` is an editable item whose row is at `pos` and needs a fix, and every row between the cursor and `pos` is settled.

  `DistinctTimes` and `FreshTimes` are what make `First` pick a single row. Lemma `NoneBetween` then shows that no row lies between `pos` and the next row. `fix_liveness` checks `FixMarkedInv`.

**`PipelineProofs.tla`.** This module proves three theorems for every value of
the constants. All faults are switched on: sync errors, every `EmbedDocs`
failure, failing posts, and crashes.

- **`TypeCorrect == Spec => []TypeOK`.** There is one lemma per action, and lemmas for `MarkOld`, `Add`, `SetVectors` and `AfterFlush`.
- **`CorpusMirrored == Spec => []DocsMirrored`.**
- **`VectorsKept == Spec => []VectorsCurrent`.**

Neither property is inductive. Their strengthening is `CorpusInv`:

- `PipeClocked`: no row, doc, cursor or `pos` is past the clock.
- `RowsDistinct`: no two rows, and no two docs, share a modtime. With `PipeClocked`, this is why githubdocs' `Add` never gives a doc a modtime at or before the embeddocs cursor. It is also why the first row after `pos` is the only row between `pos` and itself (lemma `FirstOnly`).
- `DocsCursorAtPos`: during githubdocs, its persisted cursor is `pos`. This is what lets githubdocs' `MarkOld` cover exactly the rows it has added.
- `BatchCovers`: during embeddocs and its flushes:
  - the cursor is not past `pos`;
  - each batch entry holds its doc's current text;
  - every doc between the cursor and `pos` is in the batch;
  - `batchLast = pos` when the batch is not empty;
  - the batch is not empty at a flush.

  This is what makes a full flush's `MarkOld(batchLast)` safe (lemma `SetVectorsCurrent`), and what keeps a short or failed flush, which keeps the cursor, harmless.

`QuietCorpus` and `CorpusFrame` handle the steps of related, the tracker and a crash. `pipeline_liveness` checks `CorpusInv`. It was also checked under all the faults of `pipeline_safety`.

Two details of the model serve the proofs without changing what TLC explores:

- The first row after a time is stated as the predicate `First(rows, i, t)`, with `\E i`, not as a `CHOOSE`. Modtimes are distinct, so exactly one `i` satisfies it.
- The guards of `AfterFlush`'s CASE are exclusive. After the final flush, embeddocs returns, whatever the answer was.

**`RelatedProofs.tla`.** This module proves two theorems about related's
`Run`, for every value of the constants. Each has the hypothesis the fault
table above shows it needs, and no other.

- **`PostsOnce == ~Crashes => (Spec => []NoDoublePost)`.** Sync errors,
  embedder failures and failed posts are allowed. The strengthening is
  `PostedOnce`:
  - every issue with a comment is marked posted, unless Run is at `record` for that very issue;
  - at `post`, the issue `cur` has no comment and no marker.

  The marker check in `RelatedConsider` keeps the second conjunct when the
  bot's own comment brings the row back (related.go:195). A crash at
  `record` breaks the first, which is why the hypothesis is needed.
- **`NoneSkipped == ~PostFaults /\ ~EmbedFaults => (Spec => []RelatedNoneSkipped)`.**
  Sync errors, crashes and tracker edits are allowed. The strengthening is
  `RelatedInv`, which is `CorpusInv` and four more parts:
  - `RowsShaped`: a row exists only for a created issue, and a doc with text has a modtime.
  - `StagesDone`: from embeddocs on, githubdocs has passed every row. While Run runs, embeddocs has passed every doc. A final flush is of a batch that reaches the last doc.
  - `WindowHandled`: while Run runs, its cursor is not past `pos`, and every row between them is `Handled`, except the row being posted on, which is at `pos`.
  - `RelatedNoneSkipped` itself.

  The argument has three steps. Lemma `VectorReady` chains `RowsShaped`,
  `StagesDone`, `DocsMirrored` and `VectorsCurrent`: every row Run reads has
  a vector, so the lookup at related.go:201 never fails. Lemma `FirstOnly`
  shows that the row Run reads is the only one between `pos` and itself.
  So the `MarkOld` of a row, at related.go:221 or 253, only moves the cursor
  over handled rows.

  A failed post (`PostFaults`) leaves a row in the window that is not
  handled. A failed final flush (`EmbedFaults`) starts Run with a doc
  embeddocs has not passed. Each breaks `RelatedInv` at exactly the step
  whose lemma carries that hypothesis (`RelatedPostRelated` and
  `EmbedFlushRelated`).

`pipeline_liveness` checks `RelatedInv` and `PostedOnce`. `RelatedInv` was
also checked with sync errors and crashes switched on (3.9M states).

**Only model-checked.**

- **Liveness.** `EventuallyMirrored`, `PipelineConverges`, `FixConverges` and the fairness part of `GetRefines` need reasoning about fairness and ENABLED, which TLAPS does not handle.
- **The mirror invariants** `EventsMirrored`, `ItemsMirrored` and `FullScanResumable`. `GithubSync` pages through the feeds with offsets into a sorted set. An inductive invariant would have to reason about the rank of each item in the feed and about cardinalities across a page boundary. This is not written yet.
- **`CommentFixAlgo`.** It is written with RECURSIVE operators over parse trees, and what a recursive definition computes for every input is out of the prover's reach. `FixComplete` and `FixStable` are checked on the bounded set of documents only.
- **`StorageRefines` and `PebbleDB`'s `TypeOK`.** `PebbleDB` evaluates batches and scans with recursive functions over sequences. A proof needs induction over the batch, which the installed provers cannot instantiate.

## Not modelled, and why

- **Sync's loop over several projects, and the testing hooks** (`divertEdits`, `testFullSyncStop`). Projects are independent, and the hooks are used only by tests.
- **The timed package's `Restart` and `Delete`, and the per-name watcher lock.** They are not under `src/`. The main loop runs the consumers one after another in one process, so the lock is never contended.
- **commentfix's `ReplaceText` rule and the print-only mode.** main configures neither of them.
- **Markdown parsing and printing** (rsc.io/markdown). They are not under `src/`. `CommentFixAlgo` works on parse trees.
- **Flush, Close, and engine errors in pebble.** Writes use `noSync`, and the models take a process crash to keep every applied write. Note that the `storage.DB` comment (part_007) says that unflushed changes "may be lost". A power loss could therefore lose more than the models do. Engine errors end in `Panic`.
- **Lock and Unlock.** `MemLocker` is not under `src/`. There is one process.
- **MemVectorDB.** Its `Set` and `Get` are the `vec` variable of `Pipeline`, and `Search` is abstracted to `Similar`.
- **The ordered encoding, the quote embedder, gemini, httprr and secret.** They are pure conversions or I/O, with no concurrency or persistence protocol.
- **testutil and the storage test suites.** They only hold test helpers.
