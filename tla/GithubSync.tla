----------------------------- MODULE GithubSync -----------------------------
(***************************************************************************)
(* The GitHub mirror of internal/github/sync.go: Client.SyncProject for    *)
(* one project, with its calls syncByDate ("/issues" and                   *)
(* "/issues/comments", pages in ascending updated_at order, restarted      *)
(* after MaxPages pages) and syncIssueEvents (the "/issues/events" feed    *)
(* and "/issues/n/events", pages in descending id order, with ETags), the *)
(* full scan over the issues already in the database, and the per-project *)
(* projectSync record that makes the sync resumable.                       *)
(*                                                                         *)
(* The remote tracker is an environment that creates issues, comments and *)
(* issue events and edits items at any time, also between two page        *)
(* requests of a running sync; the events feed only reaches back to ids    *)
(* above `floor` (GitHub drops old events).  The sync may fail at every    *)
(* HTTP request (Errors) and on a malformed item (BadItems), and the      *)
(* process may crash between any two steps (Crashes), losing its          *)
(* in-memory state and its unapplied batch.                               *)
(*                                                                         *)
(* Data is abstracted to what the properties tell apart: an item's JSON   *)
(* is its updated_at version, an event is its id and issue, an ETag is the *)
(* page it was computed from, and the empty string "" is 0.               *)
(***************************************************************************)
EXTENDS Integers, FiniteSets

CONSTANTS
    NIssues,       \* issues are numbered 1..NIssues
    Comments,      \* comment ids (model values)
    CommentIssue,  \* the issue each comment belongs to
    MaxClock,      \* remote timestamps and event ids are 1..MaxClock
    PerPage,       \* page size of each API ("/issues/comments" uses GitHub's default)
    MaxPages,      \* syncByDate restarts pagination after this many pages (500)
    Errors,        \* whether HTTP requests may fail
    BadItems,      \* whether the tracker may serve a malformed item
    Crashes,       \* whether the syncing process may crash
    Expiry         \* whether old events drop out of the events feed

Issues == 1..NIssues
Items == Issues \cup Comments
Times == 1..MaxClock
APIs == {"/issues", "/issues/comments", "/issues/events"}

ASSUME NIssuesAssumption == NIssues \in Nat \ {0}
ASSUME CommentsAssumption == Comments \cap Issues = {} /\ IsFiniteSet(Comments)
ASSUME CommentIssueAssumption == CommentIssue \in [Comments -> Issues]
ASSUME MaxClockAssumption == MaxClock \in Nat \ {0}
ASSUME PerPageAssumption == PerPage \in [APIs -> Nat \ {0}]
ASSUME MaxPagesAssumption == MaxPages \in Nat \ {0, 1}
ASSUME FlagsAssumption == {Errors, BadItems, Crashes, Expiry} \subseteq BOOLEAN

(* The API whose feed lists an item, and the issue an item belongs to.    *)
ApiOf(x) == IF x \in Issues THEN "/issues" ELSE "/issues/comments"
IssueOf(x) == IF x \in Issues THEN x ELSE CommentIssue[x]

(* A listed entry is <<key, version>>: <<item, updated_at>> in the        *)
(* by-date feeds and <<issue, id>> in the events feeds.                   *)
Entries == Items \X Times

(* An ETag identifies the page content it was computed from; "" is NoETag. *)
ETags == [feed : 0..NIssues, page : SUBSET Entries]
NoETag == [feed |-> 0, page |-> {}]
ETagOf(issue, page) == [feed |-> issue, page |-> page]

(* type projectSync (sync.go:100-110); the zero record is what Add stores. *)
ProjectSyncs == [EventID : 0..MaxClock, EventETag : ETags,
                 IssueDate : 0..MaxClock, CommentDate : 0..MaxClock,
                 FullSyncActive : BOOLEAN, FullSyncIssue : 0..NIssues]
NewProjectSync == [EventID |-> 0, EventETag |-> NoETag, IssueDate |-> 0,
                   CommentDate |-> 0, FullSyncActive |-> FALSE, FullSyncIssue |-> 0]

(* syncByDate's `since` pointer: proj.IssueDate or proj.CommentDate.      *)
SinceOf(p, api) == IF api = "/issues" THEN p.IssueDate ELSE p.CommentDate
(* Mutant: *since is set past the item, as if `since` were exclusive.    *)
WithSinceAfter(p, api, v) ==
    IF api = "/issues" THEN [p EXCEPT !.IssueDate = v + 1] ELSE [p EXCEPT !.CommentDate = v + 1]
WithSince(p, api, v) ==
    IF api = "/issues" THEN [p EXCEPT !.IssueDate = v] ELSE [p EXCEPT !.CommentDate = v]

(* The calls SyncProject makes, in order, and the syncByDate API of each. *)
ByDateStages == {"issues", "comments", "issues2"}
EventStages == {"setLatest", "issueEvents", "incremental"}
Stages == {"idle", "scan"} \cup ByDateStages \cup EventStages
StageAPI(s) == IF s = "comments" THEN "/issues/comments" ELSE "/issues"

VARIABLES
    \* the remote tracker
    clock,       \* next timestamp / event id
    upd,         \* upd[x]: updated_at of item x, 0 if x does not exist yet
    evIssue,     \* evIssue[t]: issue of event t, 0 if there is no event t
    floor,       \* the events feed lists only events with id > floor
    \* the database (durable)
    dbItem,      \* dbItem[x]: version of x in ["githubdl.Event", ...], 0 if absent
    dbEvent,     \* ids of the events stored under "/issues/events"
    psync,       \* the stored ["githubdl.ProjectSync", project] record
    \* the running SyncProject (lost on a crash)
    stage,       \* the call SyncProject is in, "idle" when not running
    step,        \* the point reached inside that call
    proj,        \* SyncProject's in-memory projectSync
    bItem,       \* unapplied batch: item versions written by writeEvent
    bEvent,      \* unapplied batch: event ids written by writeEvent
    qsince,      \* the `since` of syncByDate's current URL
    npage,       \* pages read since the URL was built
    pg,          \* entries of the current page not processed yet
    more,        \* whether the current page had a rel="next" link
    etag,        \* the Etag header of the current page
    firstID, firstETag, lastID, stopped,  \* syncIssueEvents' locals
    cur,         \* the issue of the running syncIssueEvents(issue > 0)
    scan         \* issues of the full scan's iterator over the database

remoteVars == <<clock, upd, evIssue, floor>>
dbVars == <<dbItem, dbEvent, psync>>
syncVars == <<stage, step, proj, bItem, bEvent, qsince, npage, pg, more, etag,
              firstID, firstETag, lastID, stopped, cur, scan>>
vars == <<remoteVars, dbVars, syncVars>>

NoItems == [x \in Items |-> 0]

-----------------------------------------------------------------------------
(* What the tracker's API returns.                                        *)

(* The by-date feed of api with since=s: items updated at or after s.     *)
ByDateFeed(api, s) ==
    {<<x, upd[x]>> : x \in {y \in Items : ApiOf(y) = api /\ upd[y] > 0 /\ upd[y] >= s}}

(* The events feed: all events above floor, or all events of one issue.   *)
EventFeed(issue) ==
    {<<evIssue[t], t>> : t \in {u \in Times : IF issue = 0 THEN evIssue[u] # 0 /\ u > floor
                                              ELSE evIssue[u] = issue}}

(* Page n (1-based) of a feed ordered ascending (asc) or descending by    *)
(* version, and whether it has a next page: GitHub paginates by offset.   *)
Rank(e, S, asc) == Cardinality({f \in S : IF asc THEN f[2] < e[2] ELSE f[2] > e[2]}) + 1
PageOf(S, asc, n, size) == {e \in S : Rank(e, S, asc) \in (n - 1) * size + 1 .. n * size}
(* Mutant: the rel="next" link of the last full page is missed.          *)
HasNextShort(S, n, size) == Cardinality(S) > (n + 1) * size
HasNext(S, n, size) == Cardinality(S) > n * size

(* The issues with a row under ["githubdl.Event", project]. *)
RowIssues(di, de) == {IssueOf(x) : x \in {y \in Items : di[y] # 0}} \cup {evIssue[t] : t \in de}

(* b.Apply(): the batch becomes durable, later writes of a key winning.   *)
ApplyBatch ==
    /\ dbItem' = [x \in Items |-> IF bItem[x] # 0 THEN bItem[x] ELSE dbItem[x]]
    /\ dbEvent' = dbEvent \cup bEvent

-----------------------------------------------------------------------------
(* Entering and leaving the calls of SyncProject.                         *)

(* SyncProject returns: the lock is released and the locals are gone.     *)
GoIdle ==
    /\ stage' = "idle" /\ step' = "none" /\ proj' = NewProjectSync
    /\ bItem' = NoItems /\ bEvent' = {} /\ qsince' = 0 /\ npage' = 0
    /\ pg' = {} /\ more' = FALSE /\ etag' = NoETag
    /\ firstID' = 0 /\ firstETag' = NoETag /\ lastID' = 0 /\ stopped' = FALSE
    /\ cur' = 0 /\ scan' = {}

(* SyncProject calls s with proj = p: a fresh batch and fresh locals.     *)
Enter(s, p) ==
    /\ stage' = s /\ proj' = p
    /\ step' = IF s = "scan" THEN "none" ELSE "fetch"
    /\ bItem' = NoItems /\ bEvent' = {}
    /\ qsince' = IF s \in ByDateStages THEN SinceOf(p, StageAPI(s)) ELSE 0
    /\ npage' = 0 /\ pg' = {} /\ more' = FALSE /\ etag' = NoETag
    /\ firstID' = 0 /\ firstETag' = NoETag /\ lastID' = 0 /\ stopped' = FALSE

(* The call `stage` returned nil with proj = p, its batch applied         *)
(* (dbItem', dbEvent') and the stored record at ps: SyncProject goes on   *)
(* to its next call (sync.go:180-233).                                    *)
Returned(p, ps) ==
    CASE stage = "issues" ->
            psync' = ps /\ Enter("comments", p) /\ UNCHANGED <<cur, scan>>
      [] stage = "comments" /\ p.EventID = 0 ->
            LET q == [p EXCEPT !.FullSyncActive = TRUE, !.FullSyncIssue = 0]
            IN  psync' = q /\ Enter("setLatest", q) /\ UNCHANGED <<cur, scan>>
      [] stage = "comments" /\ p.EventID # 0 /\ p.FullSyncActive ->
            psync' = ps /\ Enter("issues2", p) /\ UNCHANGED <<cur, scan>>
      [] stage = "comments" /\ p.EventID # 0 /\ ~p.FullSyncActive ->
            psync' = ps /\ Enter("incremental", p) /\ UNCHANGED <<cur, scan>>
      [] stage = "setLatest" ->
            psync' = ps /\ Enter("issues2", p) /\ UNCHANGED <<cur, scan>>
      [] stage = "issues2" ->
            psync' = ps /\ Enter("scan", p) /\ scan' = RowIssues(dbItem', dbEvent')
            /\ UNCHANGED cur
      [] stage = "issueEvents" ->
            LET q == [p EXCEPT !.FullSyncIssue = cur]
            IN  psync' = q /\ Enter("scan", q) /\ UNCHANGED <<cur, scan>>
      [] stage = "incremental" ->
            psync' = ps /\ GoIdle

-----------------------------------------------------------------------------
(* SyncProject (sync.go:156-179): lock the project, load its state.       *)
SyncProjectStart ==
    /\ stage = "idle"
    /\ Enter("issues", psync)
    /\ UNCHANGED <<remoteVars, dbVars, cur, scan>>

(* syncByDate's request for the next page (sync.go:255-289, 479-561).     *)
(* A failed request returns its error after the deferred proj.store; the  *)
(* batch is empty here, each page having been applied.                    *)
SyncByDateFetch ==
    /\ stage \in ByDateStages /\ step = "fetch"
    /\ LET api == StageAPI(stage)
           S == ByDateFeed(api, qsince)
       IN  \/ /\ pg' = PageOf(S, TRUE, npage + 1, PerPage[api])
              /\ more' = HasNext(S, npage + 1, PerPage[api])
              /\ step' = "item"
              /\ UNCHANGED <<dbVars, stage, proj, bItem, bEvent, qsince, npage, etag,
                             firstID, firstETag, lastID, stopped, cur, scan>>
           \/ /\ Errors
              /\ psync' = proj
              /\ GoIdle
              /\ UNCHANGED <<dbItem, dbEvent>>
    /\ UNCHANGED remoteVars

(* Mutant: the page is walked newest first (direction=asc dropped).      *)
SyncByDateItemDesc ==
    /\ stage \in ByDateStages /\ step = "item"
    /\ \E e \in pg :
         /\ \A f \in pg : e[2] >= f[2]
         /\ \/ /\ bItem' = [bItem EXCEPT ![e[1]] = e[2]]
               /\ proj' = WithSince(proj, StageAPI(stage), e[2])
               /\ pg' = pg \ {e}
               /\ UNCHANGED <<psync, step>>
            \/ /\ BadItems
               /\ psync' = proj
               /\ step' = "errApply"
               /\ UNCHANGED <<proj, bItem, pg>>
    /\ UNCHANGED <<remoteVars, dbItem, dbEvent, stage, bEvent, qsince, npage, more, etag,
                   firstID, firstETag, lastID, stopped, cur, scan>>

(* Mutant: proj is stored after every item, before the batch is applied. *)
SyncByDateItemStoreEach ==
    /\ stage \in ByDateStages /\ step = "item"
    /\ \E e \in pg :
         /\ \A f \in pg : e[2] <= f[2]
         /\ \/ /\ bItem' = [bItem EXCEPT ![e[1]] = e[2]]
               /\ proj' = WithSince(proj, StageAPI(stage), e[2])
               /\ psync' = WithSince(proj, StageAPI(stage), e[2])
               /\ pg' = pg \ {e}
               /\ UNCHANGED step
            \/ /\ BadItems
               /\ psync' = proj
               /\ step' = "errApply"
               /\ UNCHANGED <<proj, bItem, pg>>
    /\ UNCHANGED <<remoteVars, dbItem, dbEvent, stage, bEvent, qsince, npage, more, etag,
                   firstID, firstETag, lastID, stopped, cur, scan>>

(* One item of the page, in ascending updated_at order (sync.go:290-327): *)
(* writeEvent into the batch and advance *since; a malformed item returns *)
(* an error, and the deferred proj.store runs before the deferred         *)
(* b.Apply (sync.go:280, 284).                                             *)
SyncByDateItem ==
    /\ stage \in ByDateStages /\ step = "item"
    /\ \E e \in pg :
         /\ \A f \in pg : e[2] <= f[2]
         /\ \/ /\ bItem' = [bItem EXCEPT ![e[1]] = e[2]]
               /\ proj' = WithSince(proj, StageAPI(stage), e[2])
               /\ pg' = pg \ {e}
               /\ UNCHANGED <<psync, step>>
            \/ /\ BadItems
               /\ psync' = proj
               /\ step' = "errApply"
               /\ UNCHANGED <<proj, bItem, pg>>
    /\ UNCHANGED <<remoteVars, dbItem, dbEvent, stage, bEvent, qsince, npage, more, etag,
                   firstID, firstETag, lastID, stopped, cur, scan>>

(* The deferred b.Apply() of a syncByDate that failed on an item.         *)
SyncByDateErrApply ==
    /\ stage \in ByDateStages /\ step = "errApply"
    /\ ApplyBatch
    /\ GoIdle
    /\ UNCHANGED <<remoteVars, psync>>

(* End of a page (sync.go:328-338): apply the batch, store proj, then     *)
(* restart pagination after MaxPages pages, fetch the next page, or       *)
(* return nil (the deferred store and apply change nothing more).         *)
SyncByDatePageDone ==
    /\ stage \in ByDateStages /\ step = "item" /\ pg = {}
    /\ ApplyBatch
    /\ IF npage + 1 >= MaxPages
         THEN /\ psync' = proj /\ npage' = 0 /\ qsince' = SinceOf(proj, StageAPI(stage)) /\ step' = "fetch"
              /\ bItem' = NoItems
              /\ UNCHANGED <<stage, proj, bEvent, pg, more, etag, firstID, firstETag,
                             lastID, stopped, cur, scan>>
         ELSE IF more
         THEN /\ psync' = proj /\ npage' = npage + 1 /\ step' = "fetch" /\ bItem' = NoItems
              /\ UNCHANGED <<stage, proj, bEvent, qsince, pg, more, etag, firstID,
                             firstETag, lastID, stopped, cur, scan>>
         ELSE Returned(proj, proj)
    /\ UNCHANGED remoteVars

-----------------------------------------------------------------------------
(* syncIssueEvents(proj, issue, onlySetLatest) (sync.go:382-460).         *)
EvIssue == IF stage = "issueEvents" THEN cur ELSE 0
OnlySetLatest == stage = "setLatest"

(* The request for the next page, with If-None-Match: proj.EventETag.     *)
(* 304 returns nil and a failure returns its error, each after the        *)
(* deferred b.Apply.                                                      *)
SyncIssueEventsFetch ==
    /\ stage \in EventStages /\ step = "fetch"
    /\ LET S == EventFeed(EvIssue)
           page == PageOf(S, FALSE, npage + 1, PerPage["/issues/events"])
       IN  \/ /\ proj.EventETag # NoETag /\ proj.EventETag = ETagOf(EvIssue, page)
              /\ ApplyBatch
              /\ Returned(proj, psync)
           \/ /\ Errors
              /\ ApplyBatch
              /\ GoIdle
              /\ UNCHANGED psync
           \/ /\ ~(proj.EventETag # NoETag /\ proj.EventETag = ETagOf(EvIssue, page))
              /\ pg' = page
              /\ more' = HasNext(S, npage + 1, PerPage["/issues/events"])
              /\ etag' = ETagOf(EvIssue, page)
              /\ npage' = npage + 1
              /\ step' = "item"
              /\ UNCHANGED <<dbVars, stage, proj, bItem, bEvent, qsince, firstID,
                             firstETag, lastID, stopped, cur, scan>>
    /\ UNCHANGED remoteVars

(* One event of the page, in descending id order (sync.go:416-447): the   *)
(* walk of the events feed stops at the first event at or below           *)
(* proj.EventID (at once if onlySetLatest); other events go to the batch. *)
SyncIssueEventsItem ==
    /\ stage \in EventStages /\ step = "item"
    /\ \E e \in pg :
         /\ \A f \in pg : e[2] >= f[2]
         /\ \/ /\ BadItems
               /\ ApplyBatch
               /\ GoIdle
               /\ UNCHANGED psync
            \/ /\ firstID' = IF firstID = 0 THEN e[2] ELSE firstID
               /\ firstETag' = IF firstID = 0 THEN etag ELSE firstETag
               /\ lastID' = e[2]
               /\ IF EvIssue = 0 /\ (OnlySetLatest \/ (proj.EventID # 0 /\ e[2] <= proj.EventID))
                    THEN stopped' = TRUE /\ step' = "finish" /\ UNCHANGED <<bEvent, pg>>
                    ELSE bEvent' = bEvent \cup {e[2]} /\ pg' = pg \ {e}
                         /\ UNCHANGED <<stopped, step>>
               /\ UNCHANGED <<dbVars, stage, proj, bItem, qsince, npage, more, etag, cur, scan>>
    /\ UNCHANGED remoteVars

(* End of a page: on to the next page, or out of the loop.                *)
SyncIssueEventsPageDone ==
    /\ stage \in EventStages /\ step = "item" /\ pg = {}
    /\ step' = IF more THEN "fetch" ELSE "finish"
    /\ UNCHANGED <<remoteVars, dbVars, stage, proj, bItem, bEvent, qsince, npage, pg,
                   more, etag, firstID, firstETag, lastID, stopped, cur, scan>>

(* Mutant: no "lost sync" check; the newest id is stored regardless.     *)
SyncIssueEventsFinishNoLostSync ==
    /\ stage \in EventStages /\ step = "finish"
    /\ \/ /\ EvIssue = 0
          /\ LET q == [proj EXCEPT !.EventID = firstID, !.EventETag = firstETag]
             IN  psync' = q /\ proj' = q
          /\ step' = "applyRet"
          /\ UNCHANGED <<dbItem, dbEvent, stage, bItem, bEvent, qsince, npage, pg, more,
                         etag, firstID, firstETag, lastID, stopped, cur, scan>>
       \/ /\ EvIssue # 0
          /\ ApplyBatch
          /\ Returned(proj, psync)
    /\ UNCHANGED remoteVars

(* Mutant: the `if issue == 0` guard of the store is dropped, so a        *)
(* per-issue walk stores that issue's newest event id as EventID.         *)
SyncIssueEventsFinishAnyIssue ==
    /\ stage \in EventStages /\ step = "finish"
    /\ \/ /\ EvIssue = 0 /\ lastID # 0 /\ ~stopped
          /\ ApplyBatch
          /\ GoIdle
          /\ UNCHANGED psync
       \/ /\ ~(EvIssue = 0 /\ lastID # 0 /\ ~stopped)
          /\ LET q == [proj EXCEPT !.EventID = firstID, !.EventETag = firstETag]
             IN  psync' = q /\ proj' = q
          /\ step' = "applyRet"
          /\ UNCHANGED <<dbItem, dbEvent, stage, bItem, bEvent, qsince, npage, pg, more,
                         etag, firstID, firstETag, lastID, stopped, cur, scan>>
    /\ UNCHANGED remoteVars

(* After the loop (sync.go:450-459): "lost sync" if the feed ran out      *)
(* before reaching proj.EventID; otherwise the feed's newest id and ETag  *)
(* are stored -- before the deferred b.Apply of the events (sync.go:405). *)
SyncIssueEventsFinish ==
    /\ stage \in EventStages /\ step = "finish"
    /\ \/ /\ EvIssue = 0 /\ lastID # 0 /\ ~stopped
          /\ ApplyBatch
          /\ GoIdle
          /\ UNCHANGED psync
       \/ /\ EvIssue = 0 /\ ~(lastID # 0 /\ ~stopped)
          /\ LET q == [proj EXCEPT !.EventID = firstID, !.EventETag = firstETag]
             IN  psync' = q /\ proj' = q
          /\ step' = "applyRet"
          /\ UNCHANGED <<dbItem, dbEvent, stage, bItem, bEvent, qsince, npage, pg, more,
                         etag, firstID, firstETag, lastID, stopped, cur, scan>>
       \/ /\ EvIssue # 0
          /\ ApplyBatch
          /\ Returned(proj, psync)
    /\ UNCHANGED remoteVars

(* The deferred b.Apply() and the return of syncIssueEvents(_, 0, _).     *)
SyncIssueEventsApply ==
    /\ stage \in EventStages /\ step = "applyRet"
    /\ ApplyBatch
    /\ Returned(proj, psync)
    /\ UNCHANGED remoteVars

(* Mutant: FullSyncIssue is stored before the issue's events are synced. *)
FullScanNextEarlyStore ==
    /\ stage = "scan"
    /\ LET todo == {i \in scan : i > proj.FullSyncIssue}
       IN  IF todo # {}
             THEN \E i \in todo :
                    /\ \A j \in todo : i <= j
                    /\ cur' = i
                    /\ psync' = [proj EXCEPT !.FullSyncIssue = i]
                    /\ Enter("issueEvents", proj)
                    /\ UNCHANGED scan
             ELSE LET q == [proj EXCEPT !.FullSyncActive = FALSE]
                  IN  psync' = q /\ Enter("incremental", q) /\ UNCHANGED <<cur, scan>>
    /\ UNCHANGED <<remoteVars, dbItem, dbEvent>>

(* The full scan's loop (sync.go:206-225) over the issues with rows, in   *)
(* ascending order, skipping those at or below proj.FullSyncIssue; at its *)
(* end FullSyncActive is cleared and stored before the incremental sync.  *)
FullScanNext ==
    /\ stage = "scan"
    /\ LET todo == {i \in scan : i > proj.FullSyncIssue}
       IN  IF todo # {}
             THEN \E i \in todo :
                    /\ \A j \in todo : i <= j
                    /\ cur' = i
                    /\ Enter("issueEvents", proj)
                    /\ UNCHANGED <<psync, scan>>
             ELSE LET q == [proj EXCEPT !.FullSyncActive = FALSE]
                  IN  psync' = q /\ Enter("incremental", q) /\ UNCHANGED <<cur, scan>>
    /\ UNCHANGED <<remoteVars, dbItem, dbEvent>>

(* The process dies: the lock, proj, locals and the batch are lost.       *)
Crash ==
    /\ Crashes /\ stage # "idle"
    /\ GoIdle
    /\ UNCHANGED <<remoteVars, dbVars>>

-----------------------------------------------------------------------------
(* The remote tracker.  Every change takes the next timestamp.            *)
Tick == clock <= MaxClock /\ clock' = clock + 1

CreateIssue(i) ==
    /\ Tick /\ upd[i] = 0
    /\ upd' = [upd EXCEPT ![i] = clock]
    /\ UNCHANGED <<evIssue, floor, dbVars, syncVars>>

(* A new comment also updates its issue's updated_at. *)
CreateComment(c) ==
    /\ Tick /\ upd[c] = 0 /\ upd[CommentIssue[c]] # 0
    /\ upd' = [upd EXCEPT ![c] = clock, ![CommentIssue[c]] = clock]
    /\ UNCHANGED <<evIssue, floor, dbVars, syncVars>>

EditItem(x) ==
    /\ Tick /\ upd[x] # 0
    /\ upd' = [upd EXCEPT ![x] = clock]
    /\ UNCHANGED <<evIssue, floor, dbVars, syncVars>>

(* An issue event (labeled, closed, ...) with id `clock`; it updates the  *)
(* issue's updated_at.                                                    *)
IssueEvent(i) ==
    /\ Tick /\ upd[i] # 0
    /\ evIssue' = [evIssue EXCEPT ![clock] = i]
    /\ upd' = [upd EXCEPT ![i] = clock]
    /\ UNCHANGED <<floor, dbVars, syncVars>>

(* The oldest event still listed drops out of the events feed.            *)
ExpireEvent ==
    /\ Expiry /\ floor < clock - 1
    /\ floor' = floor + 1
    /\ UNCHANGED <<clock, upd, evIssue, dbVars, syncVars>>

Remote ==
    \/ \E i \in Issues : CreateIssue(i) \/ IssueEvent(i)
    \/ \E c \in Comments : CreateComment(c)
    \/ \E x \in Items : EditItem(x)
    \/ ExpireEvent

SyncStep ==
    \/ SyncProjectStart
    \/ SyncByDateFetch \/ SyncByDateItem \/ SyncByDateErrApply \/ SyncByDatePageDone
    \/ SyncIssueEventsFetch \/ SyncIssueEventsItem \/ SyncIssueEventsPageDone
    \/ SyncIssueEventsFinish \/ SyncIssueEventsApply
    \/ FullScanNext

Init ==
    /\ clock = 1 /\ upd = [x \in Items |-> 0] /\ evIssue = [t \in Times |-> 0] /\ floor = 0
    /\ dbItem = NoItems /\ dbEvent = {} /\ psync = NewProjectSync
    /\ stage = "idle" /\ step = "none" /\ proj = NewProjectSync
    /\ bItem = NoItems /\ bEvent = {} /\ qsince = 0 /\ npage = 0
    /\ pg = {} /\ more = FALSE /\ etag = NoETag
    /\ firstID = 0 /\ firstETag = NoETag /\ lastID = 0 /\ stopped = FALSE
    /\ cur = 0 /\ scan = {}

Next == SyncStep \/ Crash \/ Remote

(* The driver loop calls Sync again and again, and a running SyncProject *)
(* keeps going: both are weakly fair.  The tracker owes nothing.          *)
Spec == Init /\ [][Next]_vars
FairSpec == Spec /\ WF_vars(SyncStep)

-----------------------------------------------------------------------------
(* Properties.                                                            *)

(* Type correctness: every variable of the tracker, the database and    *)
(* the running SyncProject holds a value of its type.                    *)
TypeOK ==
    /\ clock \in 1..MaxClock + 1
    /\ upd \in [Items -> 0..MaxClock]
    /\ evIssue \in [Times -> 0..NIssues]
    /\ floor \in 0..MaxClock
    /\ dbItem \in [Items -> 0..MaxClock]
    /\ dbEvent \subseteq Times
    /\ psync \in ProjectSyncs
    /\ stage \in Stages
    /\ step \in {"none", "fetch", "item", "errApply", "finish", "applyRet"}
    /\ proj \in ProjectSyncs
    /\ bItem \in [Items -> 0..MaxClock]
    /\ bEvent \subseteq Times
    /\ qsince \in 0..MaxClock
    /\ npage \in Nat
    /\ pg \subseteq Entries
    /\ more \in BOOLEAN
    /\ etag \in ETags
    /\ firstID \in 0..MaxClock
    /\ firstETag \in ETags
    /\ lastID \in 0..MaxClock
    /\ stopped \in BOOLEAN
    /\ cur \in 0..NIssues
    /\ scan \subseteq 0..NIssues

(* The mirror's promise (sync.go:366-381): once no full scan is under way, *)
(* the database holds every event with an id up to the stored EventID.    *)
(* Checked whenever no SyncProject runs, which includes just after a      *)
(* crash, when the next run starts from what is stored.                   *)
EventsMirrored ==
    stage = "idle" /\ ~psync.FullSyncActive =>
        \A t \in 1..psync.EventID : evIssue[t] # 0 => t \in dbEvent

(* Resumability of the full scan (sync.go:214-218): while a full scan is  *)
(* under way, every event up to EventID of every issue up to the stored   *)
(* FullSyncIssue is already in the database, so a run that resumes after  *)
(* FullSyncIssue misses nothing -- also across crashes.                   *)
FullScanResumable ==
    psync.FullSyncActive =>
        \A t \in 1..psync.EventID :
            evIssue[t] \in 1..psync.FullSyncIssue => t \in dbEvent

(* syncByDate's promise (sync.go:249-253): every issue or comment last    *)
(* updated before the stored IssueDate / CommentDate is stored at that    *)
(* version, so starting the next run at that date misses nothing.         *)
ItemsMirrored ==
    stage = "idle" =>
        \A x \in Items :
            upd[x] # 0 /\ upd[x] < SinceOf(psync, ApiOf(x)) => dbItem[x] = upd[x]

(* The stored EventID never moves back to an earlier nonzero event: a     *)
(* step either keeps or raises it, or resets it to 0 (empty feed), which  *)
(* sends the next SyncProject into a full scan.                           *)
EventIDNeverRegresses ==
    [][psync'.EventID >= psync.EventID \/ psync'.EventID = 0]_vars

(* The spec's statement (spec.md 4.H) that EventID is monotonically       *)
(* non-decreasing across runs.                                            *)
EventIDMonotone == [][psync'.EventID >= psync.EventID]_vars

(* Everything the tracker holds is mirrored: every event and the latest   *)
(* version of every issue and comment.                                    *)
AllMirrored ==
    /\ \A t \in Times : evIssue[t] # 0 => t \in dbEvent
    /\ \A x \in Items : dbItem[x] = upd[x]

(* Once the tracker falls quiet, repeated SyncProject runs mirror all of  *)
(* it for good (spec.md 4.H: a long gap falls back to a full scan).       *)
EventuallyMirrored == <>[]AllMirrored

=============================================================================
