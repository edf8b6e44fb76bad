------------------------------ MODULE Pipeline ------------------------------
(***************************************************************************)
(* The consumers of the GitHub mirror and the main loop that runs them    *)
(* (unnamed/part_009:99-106): after gh.Sync, githubdocs.Sync copies new    *)
(* issue rows into the docs corpus (internal/githubdocs/sync.go),         *)
(* embeddocs.Sync embeds new docs in batches into the vector database     *)
(* (internal/docs/docs.go, package embeddocs), and related.Poster.Run      *)
(* posts a "Similar Issues" comment on new issues (internal/related).     *)
(* Each consumer reads through a named timed.Watcher: Recent yields the   *)
(* rows written after the watcher's persisted cursor in modtime order,    *)
(* and MarkOld moves the cursor forward.  The timed package is not under  *)
(* src/; its behaviour is modelled from spec.md 4.D and 4.E.              *)
(*                                                                         *)
(* The mirror (modelled in detail in GithubSync.tla) is abstracted here   *)
(* to its effect on the database: each write of an issue row takes a      *)
(* fresh modtime, and a sync may stop early on an error (SyncErrors).     *)
(* The tracker creates, edits and closes issues; a post adds a comment,   *)
(* which changes the issue's updated_at, so the mirror rewrites its row.  *)
(* The embedder may fail (EmbedFaults), PostIssueComment may fail         *)
(* (PostFaults), and the process may crash between any two steps          *)
(* (Crashes), losing its locals; every database write survives (pebble    *)
(* writes with noSync, so a process crash loses nothing applied).          *)
(*                                                                         *)
(* Data is abstracted: an issue body (title and text) is a version        *)
(* number, a vector is the version of the text it embeds, and the search  *)
(* results above the score cutoff are the issues of Similar[i] that have  *)
(* a vector.  Only "/issues" rows are modelled: every consumer skips the  *)
(* other rows without changing any state.                                 *)
(***************************************************************************)
EXTENDS Naturals, Sequences

CONSTANTS
    NIssues,      \* issues are 1..NIssues
    MaxVer,       \* issue bodies are versions 1..MaxVer
    MaxPosts,     \* bound on comments posted per issue
    MaxTime,      \* bound on modtimes allocated
    BatchSize,    \* embeddocs batchSize (100)
    Similar,      \* Similar[i]: the issues a search for i scores above the cutoff
    Skip,         \* issues Run filters out before the posted check
    SyncErrors,   \* whether gh.Sync may stop before writing every change
    EmbedFaults,  \* whether EmbedDocs may fail or return too few or too many vectors
    PostFaults,   \* whether PostIssueComment may fail
    Crashes       \* whether the process may crash

Issues == 1..NIssues
Watchers == {"githubdocs", "embeddocs", "related"}

ASSUME NIssuesAssumption == NIssues \in Nat \ {0}
ASSUME MaxVerAssumption == MaxVer \in Nat \ {0}
ASSUME MaxPostsAssumption == MaxPosts \in Nat
ASSUME MaxTimeAssumption == MaxTime \in Nat
ASSUME BatchSizeAssumption == BatchSize \in Nat \ {0}
ASSUME SimilarAssumption == Similar \in [Issues -> SUBSET Issues]
ASSUME SkipAssumption == Skip \subseteq Issues
ASSUME FlagsAssumption == {SyncErrors, EmbedFaults, PostFaults, Crashes} \subseteq BOOLEAN

VARIABLES
    gh,       \* the tracker: each issue's body version (0: not created), state, posts
    clock,    \* the last modtime allocated
    ev,       \* ["githubdl.Event", project, i, "/issues", i] rows: modtime and content
    doc,      \* ["docs.Doc", url(i)] rows: modtime and body version
    vec,      \* the vector database: the body version embedded for each doc id
    marked,   \* the ["triage.Posted", project, i] keys
    cursor,   \* each watcher's persisted cursor
    pc,       \* the point the main loop has reached
    pos,      \* the DBTime of the last row the running Recent iteration yielded
    batch,    \* embeddocs: the batch, as <<id, version>> pairs
    batchLast,\* embeddocs: the DBTime of the last doc added to the batch
    cur,      \* related: the issue being posted to
    decided   \* history: the row modtime at which Run last posted on or passed over i

vars == <<gh, clock, ev, doc, vec, marked, cursor, pc, pos, batch, batchLast, cur, decided>>
localVars == <<pc, pos, batch, batchLast, cur>>

Issue == [ver : 0..MaxVer, closed : BOOLEAN, posts : 0..MaxPosts]
(* An event row holds the issue JSON that was fetched; mt = 0: no row.   *)
EventRow == [mt : 0..MaxTime, ver : 0..MaxVer, closed : BOOLEAN, posts : 0..MaxPosts]
DocRow == [mt : 0..MaxTime, ver : 0..MaxVer]
NoEvent == [mt |-> 0, ver |-> 0, closed |-> FALSE, posts |-> 0]
NoDoc == [mt |-> 0, ver |-> 0]

-----------------------------------------------------------------------------
(* timed.ScanAfter over a kind whose rows are `rows`: the keys written    *)
(* after t, and whether i's row is the first of them in modtime order.   *)
After(rows, t) == {i \in Issues : rows[i].mt > t}
First(rows, i, t) == i \in After(rows, t) /\ \A j \in After(rows, t) : rows[i].mt <= rows[j].mt

(* Watcher.MarkOld(t): the cursor moves to t if t is later.              *)
MarkOld(w, t) == cursor' = [cursor EXCEPT ![w] = IF t > @ THEN t ELSE @]

(* A Recent iteration starts at the watcher's persisted cursor.          *)
Recent(w) == pos' = cursor[w]

(* The row gh.Sync writes for issue i: its JSON as fetched now.          *)
Fetched(i, t) == [mt |-> t, ver |-> gh[i].ver, closed |-> gh[i].closed, posts |-> gh[i].posts]
Stale(i) == gh[i].ver > 0 /\ Fetched(i, ev[i].mt) # ev[i]

-----------------------------------------------------------------------------
(* The tracker.  Its changes are taken while the main loop is in         *)
(* gh.Sync: no consumer reads the tracker, so a change made while a       *)
(* consumer runs has the same effect as one made just before the next     *)
(* sync (a post to an issue closed meanwhile changes nothing modelled).   *)
CreateIssue(i) ==
    /\ pc = "sync"
    /\ gh[i].ver = 0
    /\ gh' = [gh EXCEPT ![i].ver = 1]
    /\ UNCHANGED <<clock, ev, doc, vec, marked, cursor, localVars, decided>>

EditIssue(i) ==
    /\ pc = "sync"
    /\ gh[i].ver \in 1..MaxVer - 1
    /\ gh' = [gh EXCEPT ![i].ver = @ + 1]
    /\ UNCHANGED <<clock, ev, doc, vec, marked, cursor, localVars, decided>>

CloseIssue(i) ==
    /\ pc = "sync"
    /\ gh[i].ver > 0 /\ ~gh[i].closed
    /\ gh' = [gh EXCEPT ![i].closed = TRUE]
    /\ UNCHANGED <<clock, ev, doc, vec, marked, cursor, localVars, decided>>

Tracker == \E i \in Issues : CreateIssue(i) \/ EditIssue(i) \/ CloseIssue(i)

-----------------------------------------------------------------------------
(* gh.Sync: Client.writeEvent (sync.go:463-465) stores the issue as       *)
(* fetched under a fresh modtime.                                         *)
MirrorWrite(i) ==
    /\ pc = "sync"
    /\ Stale(i)
    /\ clock < MaxTime
    /\ clock' = clock + 1
    /\ ev' = [ev EXCEPT ![i] = Fetched(i, clock')]
    /\ UNCHANGED <<gh, doc, vec, marked, cursor, localVars, decided>>

(* gh.Sync returns, after an error possibly with rows left stale;         *)
(* githubdocs.Sync starts its Recent iteration.                           *)
MirrorDone ==
    /\ pc = "sync"
    /\ SyncErrors \/ \A i \in Issues : ~Stale(i)
    /\ pc' = "githubdocs"
    /\ Recent("githubdocs")
    /\ UNCHANGED <<gh, clock, ev, doc, vec, marked, cursor, batch, batchLast, cur, decided>>

(* Corpus.Add (docs.go:78-86): a no-op when the stored doc has the same   *)
(* title and text (Corpus.Get, docs.go:66-72), otherwise timed.Set of the *)
(* doc under a fresh modtime, applied at once.                            *)
(* Mutant: Add leaves every existing doc alone.                          *)
AddKeepExisting(i, v) ==
    IF doc[i].mt # 0
    THEN UNCHANGED <<doc, clock>>
    ELSE /\ clock < MaxTime
         /\ clock' = clock + 1
         /\ doc' = [doc EXCEPT ![i] = [mt |-> clock', ver |-> v]]
Add(i, v) ==
    IF doc[i].mt # 0 /\ doc[i].ver = v
    THEN UNCHANGED <<doc, clock>>
    ELSE /\ clock < MaxTime
         /\ clock' = clock + 1
         /\ doc' = [doc EXCEPT ![i] = [mt |-> clock', ver |-> v]]

(* One iteration of githubdocs.Sync's loop (githubdocs/sync.go:27-37):    *)
(* the issue's doc is added, then the watcher is marked past the row.     *)
GithubdocsStep ==
    /\ pc = "githubdocs"
    /\ \E i \in Issues :
         /\ First(ev, i, pos)
         /\ pos' = ev[i].mt
         /\ Add(i, ev[i].ver)
         /\ MarkOld("githubdocs", ev[i].mt)
    /\ UNCHANGED <<gh, ev, vec, marked, pc, batch, batchLast, cur, decided>>

(* The iteration ends; embeddocs.Sync starts with an empty batch.        *)
GithubdocsEnd ==
    /\ pc = "githubdocs"
    /\ After(ev, pos) = {}
    /\ pc' = "embeddocs"
    /\ Recent("embeddocs")
    /\ batch' = <<>>
    /\ batchLast' = 0
    /\ UNCHANGED <<gh, clock, ev, doc, vec, marked, cursor, cur, decided>>

-----------------------------------------------------------------------------
(* Mutant: the batch carries the doc's DBTime in place of its text.     *)
EmbedReadTime ==
    /\ pc = "embeddocs"
    /\ \E d \in Issues :
         /\ First(doc, d, pos)
         /\ batch' = Append(batch, <<d, doc[d].mt>>)
         /\ batchLast' = doc[d].mt
         /\ pos' = doc[d].mt
         /\ pc' = IF Len(batch') >= BatchSize THEN "flush" ELSE "embeddocs"
    /\ UNCHANGED <<gh, clock, ev, doc, vec, marked, cursor, cur, decided>>

(* embeddocs.Sync's loop (docs.go:307-317): the doc joins the batch, and  *)
(* a full batch is flushed.                                               *)
EmbedRead ==
    /\ pc = "embeddocs"
    /\ \E d \in Issues :
         /\ First(doc, d, pos)
         /\ batch' = Append(batch, <<d, doc[d].ver>>)
         /\ batchLast' = doc[d].mt
         /\ pos' = doc[d].mt
         /\ pc' = IF Len(batch') >= BatchSize THEN "flush" ELSE "embeddocs"
    /\ UNCHANGED <<gh, clock, ev, doc, vec, marked, cursor, cur, decided>>

(* The loop ends (docs.go:318-328): a partial batch is flushed in a fresh *)
(* Recent iteration, which yields at least the batch's own docs since the *)
(* cursor has not passed them.                                           *)
(* Mutant: the partial batch is dropped.                                 *)
EmbedEndNoFinal ==
    /\ pc = "embeddocs"
    /\ After(doc, pos) = {}
    /\ pc' = "related"
    /\ Recent("related")
    /\ UNCHANGED <<gh, clock, ev, doc, vec, marked, cursor, batch, batchLast, cur, decided>>
EmbedEnd ==
    /\ pc = "embeddocs"
    /\ After(doc, pos) = {}
    /\ IF Len(batch) > 0
       THEN pc' = "flushFinal" /\ UNCHANGED pos
       ELSE pc' = "related" /\ Recent("related")
    /\ UNCHANGED <<gh, clock, ev, doc, vec, marked, cursor, batch, batchLast, cur, decided>>

(* vdb.Set of the first k vectors of the batch (docs.go:288-290).        *)
SetVectors(k) ==
    vec' = [d \in Issues |->
              IF \E n \in 1..k : batch[n][1] = d
              THEN batch[CHOOSE n \in 1..k : batch[n][1] = d][2]
              ELSE vec[d]]

(* After flush: on success the loop goes on; on failure the loop breaks  *)
(* and the partial batch is flushed once more; the final flush returns.  *)
AfterFlush(ok) ==
    CASE pc = "flushFinal" -> pc' = "related" /\ Recent("related")
      [] pc = "flush" /\ ok -> pc' = "embeddocs" /\ UNCHANGED pos
      [] pc = "flush" /\ ~ok -> pc' = "flushFinal" /\ UNCHANGED pos

(* Mutant: a short answer without an error is taken as success.          *)
EmbedFlushShortOK ==
    /\ pc \in {"flush", "flushFinal"}
    /\ \/ /\ SetVectors(Len(batch))
          /\ MarkOld("embeddocs", batchLast)
          /\ batch' = <<>>
          /\ AfterFlush(TRUE)
       \/ /\ EmbedFaults
          /\ \E k \in 0..Len(batch) - 1 :
               /\ SetVectors(k)
               /\ MarkOld("embeddocs", batchLast)
               /\ batch' = <<>>
               /\ AfterFlush(TRUE)
       \/ /\ EmbedFaults
          /\ \E k \in 0..Len(batch) :
               /\ SetVectors(k)
               /\ UNCHANGED <<cursor, batch>>
               /\ AfterFlush(FALSE)
    /\ UNCHANGED <<gh, clock, ev, doc, marked, batchLast, cur, decided>>

(* flush (docs.go:282-305): EmbedDocs answers with one vector per doc,   *)
(* or (EmbedFaults) with too many vectors (nothing is written), with an  *)
(* error and a prefix of the vectors, or with too few vectors; the       *)
(* vectors it got are written, and only a full answer marks the watcher   *)
(* past the batch and clears it.                                          *)
EmbedFlush ==
    /\ pc \in {"flush", "flushFinal"}
    /\ \/ /\ SetVectors(Len(batch))
          /\ MarkOld("embeddocs", batchLast)
          /\ batch' = <<>>
          /\ AfterFlush(TRUE)
       \/ /\ EmbedFaults
          /\ UNCHANGED <<vec, cursor, batch>>
          /\ AfterFlush(FALSE)
       \/ /\ EmbedFaults
          /\ \E k \in 0..Len(batch) :
               /\ SetVectors(k)
               /\ UNCHANGED <<cursor, batch>>
               /\ AfterFlush(FALSE)
    /\ UNCHANGED <<gh, clock, ev, doc, marked, batchLast, cur, decided>>

-----------------------------------------------------------------------------
(* The search results Run keeps (related.go:201-218): the other issues   *)
(* that score above the cutoff and have a vector.                         *)
Results(i) == {j \in Similar[i] \ {i} : vec[j] # 0}

(* Mutant: Run does not check the posted marker.                         *)
RelatedConsiderNoMarker ==
    /\ pc = "related"
    /\ \E i \in Issues :
         LET e == ev[i] IN
          /\ First(ev, i, pos)
          /\ pos' = e.mt
          /\ IF i \in Skip \/ e.closed \/ vec[i] = 0
             THEN UNCHANGED <<cursor, pc, cur, decided>>
             ELSE IF Results(i) = {}
             THEN /\ MarkOld("related", e.mt)
                  /\ decided' = [decided EXCEPT ![i] = e.mt]
                  /\ UNCHANGED <<pc, cur>>
             ELSE pc' = "post" /\ cur' = i /\ UNCHANGED <<cursor, decided>>
    /\ UNCHANGED <<gh, clock, ev, doc, vec, marked, batch, batchLast>>

(* Mutant: the watcher is marked past the row before the comment is     *)
(* posted.                                                                *)
RelatedConsiderMarkFirst ==
    /\ pc = "related"
    /\ \E i \in Issues :
         LET e == ev[i] IN
          /\ First(ev, i, pos)
          /\ pos' = e.mt
          /\ IF i \in Skip \/ e.closed \/ i \in marked \/ vec[i] = 0
             THEN UNCHANGED <<cursor, pc, cur, decided>>
             ELSE IF Results(i) = {}
             THEN /\ MarkOld("related", e.mt)
                  /\ decided' = [decided EXCEPT ![i] = e.mt]
                  /\ UNCHANGED <<pc, cur>>
             ELSE pc' = "post" /\ cur' = i /\ MarkOld("related", e.mt) /\ UNCHANGED decided
    /\ UNCHANGED <<gh, clock, ev, doc, vec, marked, batch, batchLast>>

(* One iteration of Run's loop up to the post (related.go:170-224): the  *)
(* row is skipped when the issue is filtered out, closed, already posted *)
(* on, or has no vector yet; with no results the watcher is marked past  *)
(* it; otherwise the comment is posted next.                              *)
RelatedConsider ==
    /\ pc = "related"
    /\ \E i \in Issues :
         LET e == ev[i] IN
          /\ First(ev, i, pos)
          /\ pos' = e.mt
          /\ IF i \in Skip \/ e.closed \/ i \in marked \/ vec[i] = 0
             THEN UNCHANGED <<cursor, pc, cur, decided>>
             ELSE IF Results(i) = {}
             THEN /\ MarkOld("related", e.mt)
                  /\ decided' = [decided EXCEPT ![i] = e.mt]
                  /\ UNCHANGED <<pc, cur>>
             ELSE pc' = "post" /\ cur' = i /\ UNCHANGED <<cursor, decided>>
    /\ UNCHANGED <<gh, clock, ev, doc, vec, marked, batch, batchLast>>

(* PostIssueComment (related.go:248-251): the comment is posted, or the  *)
(* call fails and the loop continues without marking.                     *)
RelatedPost ==
    /\ pc = "post"
    /\ \/ /\ gh[cur].posts < MaxPosts
          /\ gh' = [gh EXCEPT ![cur].posts = @ + 1]
          /\ pc' = "record"
       \/ /\ PostFaults
          /\ pc' = "related"
          /\ UNCHANGED gh
    /\ UNCHANGED <<clock, ev, doc, vec, marked, cursor, pos, batch, batchLast, cur, decided>>

(* related.go:252-257: the posted marker is set, the watcher is marked    *)
(* past the row and both are flushed.                                     *)
RelatedRecord ==
    /\ pc = "record"
    /\ marked' = marked \cup {cur}
    /\ MarkOld("related", pos)
    /\ decided' = [decided EXCEPT ![cur] = pos]
    /\ pc' = "related"
    /\ UNCHANGED <<gh, clock, ev, doc, vec, pos, batch, batchLast, cur>>

(* Run's iteration ends (its deferred Flush); the main loop sleeps and    *)
(* starts over with gh.Sync.                                              *)
RelatedEnd ==
    /\ pc = "related"
    /\ After(ev, pos) = {}
    /\ pc' = "sync"
    /\ UNCHANGED <<gh, clock, ev, doc, vec, marked, cursor, pos, batch, batchLast, cur, decided>>

(* The process dies; on restart the main loop starts over with gh.Sync.  *)
Crash ==
    /\ Crashes /\ pc # "sync"
    /\ pc' = "sync" /\ batch' = <<>> /\ batchLast' = 0 /\ pos' = 0 /\ cur' = 1
    /\ UNCHANGED <<gh, clock, ev, doc, vec, marked, cursor, decided>>

-----------------------------------------------------------------------------
(* An empty database and a tracker with its issues not yet created.      *)
Init ==
    /\ gh = [i \in Issues |-> [ver |-> 0, closed |-> FALSE, posts |-> 0]]
    /\ clock = 0
    /\ ev = [i \in Issues |-> NoEvent]
    /\ doc = [i \in Issues |-> NoDoc]
    /\ vec = [i \in Issues |-> 0]
    /\ marked = {}
    /\ cursor = [w \in Watchers |-> 0]
    /\ pc = "sync"
    /\ pos = 0
    /\ batch = <<>>
    /\ batchLast = 0
    /\ cur = 1
    /\ decided = [i \in Issues |-> 0]

(* One step of the main loop (part_009:99-106).                          *)
LoopStep ==
    \/ \E i \in Issues : MirrorWrite(i)
    \/ MirrorDone
    \/ GithubdocsStep \/ GithubdocsEnd
    \/ EmbedRead \/ EmbedEnd \/ EmbedFlush
    \/ RelatedConsider \/ RelatedPost \/ RelatedRecord \/ RelatedEnd

Next == LoopStep \/ Tracker \/ Crash

Spec == Init /\ [][Next]_vars

(* The main loop runs forever (it sleeps two minutes between rounds).    *)
FairSpec == Spec /\ WF_vars(LoopStep)

-----------------------------------------------------------------------------
TypeOK ==
    /\ gh \in [Issues -> Issue]
    /\ clock \in 0..MaxTime
    /\ ev \in [Issues -> EventRow]
    /\ doc \in [Issues -> DocRow]
    /\ vec \in [Issues -> 0..MaxVer]
    /\ marked \subseteq Issues
    /\ cursor \in [Watchers -> 0..MaxTime]
    /\ pc \in {"sync", "githubdocs", "embeddocs", "flush", "flushFinal", "related", "post", "record"}
    /\ pos \in 0..MaxTime
    /\ batch \in Seq(Issues \X (0..MaxVer))
    /\ batchLast \in 0..MaxTime
    /\ cur \in Issues
    /\ decided \in [Issues -> 0..MaxTime]

(* githubdocs never marks its watcher past an issue row whose text the   *)
(* docs corpus does not hold: every row up to the cursor is in the       *)
(* corpus at the row's version (githubdocs/sync.go:35-36).               *)
DocsMirrored ==
    \A i \in Issues : 0 < ev[i].mt /\ ev[i].mt <= cursor["githubdocs"] => doc[i].ver = ev[i].ver

(* embeddocs never marks its watcher past a doc whose current text has   *)
(* no vector, even when EmbedDocs fails or answers short after writing   *)
(* part of the batch (docs.go:288-300).                                  *)
VectorsCurrent ==
    \A i \in Issues : 0 < doc[i].mt /\ doc[i].mt <= cursor["embeddocs"] => vec[i] = doc[i].ver

(* The inductive invariant behind DocsMirrored and VectorsCurrent.  Row  *)
(* and doc modtimes come from one clock: none is ahead of it, and no two *)
(* rows (no two docs) share one.  githubdocs marks its watcher at each   *)
(* row it reads, so its cursor is pos.  While embeddocs runs, the docs   *)
(* after its cursor up to pos are all in the batch, each with the text   *)
(* the corpus holds (the corpus does not change meanwhile), batchLast is *)
(* pos, and a batch is being flushed only when it is not empty.          *)
EmbedPCs == {"embeddocs", "flush", "flushFinal"}
InBatch(d) == \E n \in 1..Len(batch) : batch[n][1] = d
PipeClocked ==
    /\ \A i \in Issues : ev[i].mt <= clock /\ doc[i].mt <= clock
    /\ \A w \in Watchers : cursor[w] <= clock
    /\ pos <= clock
RowsDistinct ==
    \A i, j \in Issues :
        i # j => /\ (ev[i].mt > 0 => ev[i].mt # ev[j].mt)
                 /\ (doc[i].mt > 0 => doc[i].mt # doc[j].mt)
DocsCursorAtPos == pc = "githubdocs" => pos = cursor["githubdocs"]
BatchCovers ==
    pc \in EmbedPCs =>
        /\ cursor["embeddocs"] <= pos
        /\ \A n \in 1..Len(batch) : batch[n][2] = doc[batch[n][1]].ver
        /\ \A d \in Issues : cursor["embeddocs"] < doc[d].mt /\ doc[d].mt <= pos => InBatch(d)
        /\ Len(batch) > 0 => batchLast = pos
        /\ pc # "embeddocs" => Len(batch) > 0
CorpusInv ==
    /\ TypeOK /\ PipeClocked /\ RowsDistinct /\ DocsCursorAtPos /\ BatchCovers
    /\ DocsMirrored /\ VectorsCurrent

(* Run's promise (related.go:143-162): once its watcher has passed the   *)
(* row of an open issue it may post on, it has posted on the issue or    *)
(* found it has no similar issues at that row.                           *)
RelatedNoneSkipped ==
    \A i \in Issues :
        (0 < ev[i].mt /\ ev[i].mt <= cursor["related"] /\ i \notin Skip /\ ~ev[i].closed)
            => i \in marked \/ decided[i] = ev[i].mt

(* "make sure we never post to that issue again" (related.go:192-193,    *)
(* 255): no issue gets two "Similar Issues" comments.                    *)
NoDoublePost == \A i \in Issues : gh[i].posts <= 1

(* The inductive invariant behind NoDoublePost when the process does not *)
(* crash: an issue with a comment is marked posted, unless Run is about  *)
(* to record that very post; the issue Run is about to post on has no    *)
(* comment and no marker.                                                 *)
PostedOnce ==
    /\ TypeOK
    /\ \A i \in Issues : /\ gh[i].posts <= 1
                         /\ gh[i].posts = 1 => i \in marked \/ (pc = "record" /\ cur = i)
    /\ pc = "post" => cur \notin marked /\ gh[cur].posts = 0

(* Run's decision on an issue's current row is made: it is filtered out, *)
(* closed, marked posted, or was found without similar issues there.    *)
Handled(i) == i \in Skip \/ ev[i].closed \/ i \in marked \/ decided[i] = ev[i].mt

RelatedPCs == {"related", "post", "record"}

(* Rows and docs exist only for created issues; a row or doc is written  *)
(* with a fresh, hence positive, modtime.                                  *)
RowsShaped == \A i \in Issues : /\ ev[i].mt > 0 => ev[i].ver > 0
                                /\ doc[i].ver > 0 => doc[i].mt > 0

(* Run starts only after githubdocs has passed every row and embeddocs   *)
(* every doc; the final flush is of a batch that reaches the last doc.  *)
StagesDone ==
    /\ pc \in EmbedPCs \cup RelatedPCs => \A i \in Issues : ev[i].mt <= cursor["githubdocs"]
    /\ pc \in RelatedPCs => \A i \in Issues : doc[i].mt <= cursor["embeddocs"]
    /\ pc = "flushFinal" => \A i \in Issues : doc[i].mt <= pos

(* Run's window: every row between its cursor and pos is handled, but    *)
(* the row being posted on, which is at pos and open.                     *)
WindowHandled ==
    /\ pc \in RelatedPCs => cursor["related"] <= pos
    /\ pc \in RelatedPCs =>
         \A i \in Issues : cursor["related"] < ev[i].mt /\ ev[i].mt <= pos
                           /\ ~(pc \in {"post", "record"} /\ i = cur) => Handled(i)
    /\ pc \in {"post", "record"} => ev[cur].mt = pos /\ pos > 0 /\ cur \notin Skip /\ ~ev[cur].closed

(* The inductive invariant behind RelatedNoneSkipped when posting and   *)
(* embedding do not fail.                                                 *)
RelatedInv ==
    /\ CorpusInv /\ RowsShaped /\ StagesDone /\ WindowHandled /\ RelatedNoneSkipped

(* The pipeline catches up: once the tracker is quiet, the mirror, the   *)
(* corpus and the vectors end up current and stay so.                   *)
Caught == \A i \in Issues :
            /\ ~Stale(i)
            /\ doc[i].ver = ev[i].ver
            /\ vec[i] = doc[i].ver
PipelineConverges == <>[]Caught
=============================================================================
