--------------------------- MODULE RelatedProofs ----------------------------
(***************************************************************************)
(* Proofs about related.Poster's Run in the Pipeline model, for every     *)
(* number of issues, versions, posts and modtimes:                         *)
(*   - without crashes, no issue gets two "Similar Issues" comments        *)
(*     (NoDoublePost), by the inductive invariant PostedOnce;              *)
(*   - when posting and embedding do not fail, Run's watcher never passes  *)
(*     an open issue it has neither posted on nor found without similar    *)
(*     issues (RelatedNoneSkipped), by the inductive invariant RelatedInv. *)
(* Each property fails without its hypothesis (see the hazards of         *)
(* related.go:252 and related.go:253).                                    *)
(***************************************************************************)
EXTENDS PipelineProofs

USE NIssuesAssumption, MaxVerAssumption, MaxPostsAssumption, MaxTimeAssumption,
    BatchSizeAssumption, SimilarAssumption

-----------------------------------------------------------------------------
(* NoDoublePost.                                                           *)

LEMMA InitPosted == Init => PostedOnce
<1> SUFFICES ASSUME Init PROVE PostedOnce
  OBVIOUS
<1>1. TypeOK
  BY InitType
<1> QED
  BY <1>1 DEF Init, PostedOnce

(* A step that touches neither the comments, the markers nor cur, and    *)
(* neither starts nor ends a post, keeps PostedOnce.                      *)
LEMMA PostedFrame ==
    ASSUME PostedOnce, TypeOK',
           \A i \in Issues : gh'[i].posts = gh[i].posts,
           UNCHANGED <<marked, cur>>,
           pc \notin {"post", "record"}, pc' \notin {"post", "record"}
    PROVE  PostedOnce'
BY DEF PostedOnce

(* The tracker edits, creates and closes issues; it never comments.      *)
LEMMA TrackerPosts ==
    ASSUME TypeOK, Tracker PROVE \A i \in Issues : gh'[i].posts = gh[i].posts
<1> SUFFICES ASSUME NEW i \in Issues, NEW j \in Issues,
                    CreateIssue(j) \/ EditIssue(j) \/ CloseIssue(j)
             PROVE  gh'[i].posts = gh[i].posts
  BY DEF Tracker
<1>1. gh[j] \in Issue
  BY DEF TypeOK
<1>2. CASE CreateIssue(j)
  <2>1. gh' = [gh EXCEPT ![j] = [gh[j] EXCEPT !.ver = 1]]
    BY <1>2 DEF CreateIssue
  <2> QED
    BY <1>1, <2>1 DEF TypeOK, Issue
<1>3. CASE EditIssue(j)
  <2>1. gh' = [gh EXCEPT ![j] = [gh[j] EXCEPT !.ver = gh[j].ver + 1]]
    BY <1>3 DEF EditIssue
  <2> QED
    BY <1>1, <2>1 DEF TypeOK, Issue
<1>4. CASE CloseIssue(j)
  <2>1. gh' = [gh EXCEPT ![j] = [gh[j] EXCEPT !.closed = TRUE]]
    BY <1>4 DEF CloseIssue
  <2> QED
    BY <1>1, <2>1 DEF TypeOK, Issue
<1> QED
  BY <1>2, <1>3, <1>4

(* Run goes to post only on an issue without the posted marker; such an *)
(* issue has no comment, since every comment is marked once recorded.   *)
LEMMA RelatedConsiderPosted == PostedOnce /\ RelatedConsider => PostedOnce'
<1> SUFFICES ASSUME PostedOnce, RelatedConsider PROVE PostedOnce'
  OBVIOUS
<1>1. TypeOK'
  BY RelatedConsiderType DEF PostedOnce
<1>2. pc = "related" /\ UNCHANGED <<gh, marked>>
  BY DEF RelatedConsider
<1>3. PICK i \in Issues :
        IF i \in Skip \/ ev[i].closed \/ i \in marked \/ vec[i] = 0
        THEN UNCHANGED <<cursor, pc, cur, decided>>
        ELSE IF Results(i) = {}
        THEN /\ MarkOld("related", ev[i].mt)
             /\ decided' = [decided EXCEPT ![i] = ev[i].mt]
             /\ UNCHANGED <<pc, cur>>
        ELSE pc' = "post" /\ cur' = i /\ UNCHANGED <<cursor, decided>>
  BY DEF RelatedConsider
<1>4. CASE ~(i \in Skip \/ ev[i].closed \/ i \in marked \/ vec[i] = 0) /\ Results(i) # {}
  <2>1. pc' = "post" /\ cur' = i /\ i \notin marked
    BY <1>3, <1>4
  <2>2. gh[i].posts = 0
    BY <1>2, <2>1 DEF PostedOnce, TypeOK, Issue
  <2> QED
    BY <1>1, <1>2, <2>1, <2>2 DEF PostedOnce
<1>5. CASE ~(~(i \in Skip \/ ev[i].closed \/ i \in marked \/ vec[i] = 0) /\ Results(i) # {})
  <2>1. pc' = "related" /\ cur' = cur
    BY <1>2, <1>3, <1>5
  <2> QED
    BY <1>1, <1>2, <2>1, PostedFrame
<1> QED
  BY <1>4, <1>5

(* PostIssueComment runs only on an issue with no comment yet.            *)
LEMMA RelatedPostPosted == PostedOnce /\ RelatedPost => PostedOnce'
<1> SUFFICES ASSUME PostedOnce, RelatedPost PROVE PostedOnce'
  OBVIOUS
<1>1. TypeOK'
  BY RelatedPostType DEF PostedOnce
<1>2. pc = "post" /\ UNCHANGED <<marked, cur>>
  BY DEF RelatedPost
<1>3. cur \notin marked /\ gh[cur].posts = 0 /\ cur \in Issues
  BY <1>2 DEF PostedOnce, TypeOK
<1>4. CASE gh[cur].posts < MaxPosts /\ gh' = [gh EXCEPT ![cur].posts = @ + 1] /\ pc' = "record"
  <2>1. gh[cur] \in Issue
    BY DEF PostedOnce, TypeOK
  <2>2. gh' = [gh EXCEPT ![cur] = [gh[cur] EXCEPT !.posts = gh[cur].posts + 1]]
    BY <1>4
  <2>3. gh'[cur].posts = 1 /\ \A i \in Issues \ {cur} : gh'[i] = gh[i]
    BY <1>3, <2>1, <2>2 DEF PostedOnce, TypeOK, Issue
  <2> QED
    BY <1>1, <1>2, <1>3, <1>4, <2>3 DEF PostedOnce
<1>5. CASE PostFaults /\ pc' = "related" /\ UNCHANGED gh
  BY <1>1, <1>2, <1>3, <1>5 DEF PostedOnce
<1> QED
  BY <1>4, <1>5 DEF RelatedPost

(* Recording the post marks the issue.                                    *)
LEMMA RelatedRecordPosted == PostedOnce /\ RelatedRecord => PostedOnce'
<1> SUFFICES ASSUME PostedOnce, RelatedRecord PROVE PostedOnce'
  OBVIOUS
<1>1. TypeOK'
  BY RelatedRecordType DEF PostedOnce
<1> QED
  BY <1>1 DEF RelatedRecord, PostedOnce

LEMMA NextPosted ==
    ASSUME ~Crashes, PostedOnce, [Next]_vars PROVE PostedOnce'
<1>1. TypeOK'
  BY NextType DEF PostedOnce
<1>2. CASE UNCHANGED vars
  BY <1>2 DEF vars, PostedOnce, TypeOK
<1>3. CASE Tracker
  <2>1. \A i \in Issues : gh'[i].posts = gh[i].posts
    BY <1>3, TrackerPosts DEF PostedOnce
  <2>2. pc = "sync" /\ UNCHANGED <<marked, cur, pc>>
    BY <1>3 DEF Tracker, CreateIssue, EditIssue, CloseIssue, localVars
  <2> QED
    BY <1>1, <2>1, <2>2, PostedFrame
<1>4. CASE \E i \in Issues : MirrorWrite(i)
  BY <1>1, <1>4, PostedFrame DEF MirrorWrite, localVars
<1>5. CASE MirrorDone \/ GithubdocsStep \/ GithubdocsEnd \/ EmbedRead \/ EmbedEnd
  <2>1. pc \in {"sync", "githubdocs", "embeddocs"} /\ pc' \notin {"post", "record"}
        /\ UNCHANGED <<gh, marked, cur>>
    BY <1>5 DEF MirrorDone, GithubdocsStep, GithubdocsEnd, EmbedRead, EmbedEnd
  <2> QED
    BY <1>1, <2>1, PostedFrame
<1>6. CASE EmbedFlush
  <2>1. pc \in {"flush", "flushFinal"} /\ UNCHANGED <<gh, marked, cur>>
    BY <1>6 DEF EmbedFlush
  <2>2. pc' \in {"embeddocs", "flushFinal", "related"}
    BY <1>6, <2>1, AfterFlushType DEF EmbedFlush, PostedOnce
  <2> QED
    BY <1>1, <2>1, <2>2, PostedFrame
<1>7. CASE RelatedEnd
  BY <1>1, <1>7, PostedFrame DEF RelatedEnd
<1>8. CASE Crash
  BY <1>8 DEF Crash
<1> QED
  BY <1>2, <1>3, <1>4, <1>5, <1>6, <1>7, <1>8, RelatedConsiderPosted, RelatedPostPosted,
     RelatedRecordPosted DEF Next, LoopStep

(* When the process does not crash, related.Poster never posts a second *)
(* "Similar Issues" comment on an issue (related.go:192-195, 248-257):   *)
(* the posted marker is set before Run moves on, and Run skips a marked  *)
(* issue when the bot's own comment brings the issue's row back.         *)
THEOREM PostsOnce == ~Crashes => (Spec => []NoDoublePost)
<1> SUFFICES ASSUME ~Crashes PROVE Spec => []NoDoublePost
  OBVIOUS
<1>1. PostedOnce /\ [Next]_vars => PostedOnce'
  BY NextPosted
<1>2. PostedOnce => NoDoublePost
  BY DEF PostedOnce, NoDoublePost
<1> QED
  BY InitPosted, <1>1, <1>2, PTL DEF Spec
-----------------------------------------------------------------------------
(* RelatedNoneSkipped, when posting and embedding do not fail.            *)

LEMMA InitRelated == Init => RelatedInv
<1> SUFFICES ASSUME Init PROVE RelatedInv
  OBVIOUS
<1>1. CorpusInv
  BY InitCorpus
<1>2. \A i \in Issues : ev[i].mt = 0 /\ doc[i] = NoDoc
  BY DEF Init, NoEvent
<1>3. RowsShaped /\ RelatedNoneSkipped
  BY <1>2 DEF RowsShaped, RelatedNoneSkipped, NoDoc
<1>4. StagesDone /\ WindowHandled
  BY DEF Init, StagesDone, WindowHandled, EmbedPCs, RelatedPCs
<1> QED
  BY <1>1, <1>3, <1>4 DEF RelatedInv

(* A step into gh.Sync or githubdocs that keeps Run's decisions and its  *)
(* cursor, and rewrites a row only with a modtime past that cursor.      *)
LEMMA QuietRelated ==
    ASSUME RelatedInv, CorpusInv', RowsShaped', pc' \in {"sync", "githubdocs"},
           UNCHANGED <<marked, decided>>, cursor'["related"] = cursor["related"],
           \A j \in Issues : ev'[j] = ev[j] \/ ev'[j].mt > cursor["related"]
    PROVE  RelatedInv'
<1>1. StagesDone' /\ WindowHandled'
  BY DEF StagesDone, WindowHandled, EmbedPCs, RelatedPCs
<1>2. RelatedNoneSkipped'
  <2> SUFFICES ASSUME NEW j \in Issues, 0 < ev'[j].mt, ev'[j].mt <= cursor'["related"],
                      j \notin Skip, ~ev'[j].closed
               PROVE  j \in marked' \/ decided'[j] = ev'[j].mt
    BY DEF RelatedNoneSkipped
  <2>1. ev'[j].mt \in Nat /\ cursor["related"] \in Nat
    BY DEF RelatedInv, CorpusInv, TypeOK, EventRow, Watchers
  <2>2. ev'[j] = ev[j]
    BY <2>1
  <2> QED
    BY <2>2 DEF RelatedInv, RelatedNoneSkipped
<1> QED
  BY <1>1, <1>2 DEF RelatedInv

(* gh.Sync writes a created issue's row under the next modtime, past     *)
(* every cursor.                                                          *)
LEMMA MirrorWriteRelated ==
    ASSUME RelatedInv, NEW i \in Issues, MirrorWrite(i) PROVE RelatedInv'
<1>1. CorpusInv'
  BY MirrorWriteCorpus DEF RelatedInv
<1>2. /\ ev'[i].mt = clock + 1 /\ ev'[i].ver = gh[i].ver /\ gh[i].ver > 0
      /\ \A j \in Issues \ {i} : ev'[j] = ev[j]
      /\ UNCHANGED <<doc, marked, decided, cursor, pc>> /\ pc = "sync"
  BY DEF MirrorWrite, Fetched, Stale, RelatedInv, CorpusInv, TypeOK, localVars
<1>3. cursor["related"] <= clock /\ cursor["related"] \in Nat /\ clock \in Nat
  BY DEF RelatedInv, CorpusInv, PipeClocked, TypeOK, Watchers
<1>4. RowsShaped'
  BY <1>2 DEF RelatedInv, RowsShaped
<1> QED
  BY <1>1, <1>2, <1>3, <1>4, QuietRelated

(* gh.Sync returns and githubdocs starts.                                  *)
LEMMA MirrorDoneRelated == RelatedInv /\ MirrorDone => RelatedInv'
<1> SUFFICES ASSUME RelatedInv, MirrorDone PROVE RelatedInv'
  OBVIOUS
<1>1. CorpusInv'
  BY MirrorDoneCorpus DEF RelatedInv
<1>2. RowsShaped'
  BY DEF MirrorDone, RelatedInv, RowsShaped
<1> QED
  BY <1>1, <1>2, QuietRelated DEF MirrorDone

(* githubdocs adds a doc under a fresh modtime.                            *)
LEMMA GithubdocsStepRelated == RelatedInv /\ GithubdocsStep => RelatedInv'
<1> SUFFICES ASSUME RelatedInv, GithubdocsStep PROVE RelatedInv'
  OBVIOUS
<1>1. CorpusInv'
  BY GithubdocsStepCorpus DEF RelatedInv
<1>2. PICK i \in Issues : /\ First(ev, i, pos)
                          /\ Add(i, ev[i].ver)
                          /\ MarkOld("githubdocs", ev[i].mt)
  BY DEF GithubdocsStep
<1>3. /\ ev[i].ver \in 0..MaxVer /\ ev[i].mt \in 0..MaxTime
      /\ clock \in Nat
  BY DEF RelatedInv, CorpusInv, TypeOK, EventRow
<1>4. \/ doc' = doc
      \/ /\ clock' = clock + 1
         /\ doc' = [doc EXCEPT ![i] = [mt |-> clock', ver |-> ev[i].ver]]
  BY <1>2, <1>3, AddType DEF RelatedInv, CorpusInv
<1>5. RowsShaped'
  <2>1. ev' = ev /\ RowsShaped
    BY DEF GithubdocsStep, RelatedInv
  <2>2. CASE doc' = doc
    BY <2>1, <2>2 DEF RowsShaped
  <2>3. CASE clock' = clock + 1 /\ doc' = [doc EXCEPT ![i] = [mt |-> clock', ver |-> ev[i].ver]]
    <3>1. doc \in [Issues -> DocRow]
      BY DEF RelatedInv, CorpusInv, TypeOK
    <3>2. clock' > 0
      BY <1>3, <2>3
    <3> QED
      BY <2>1, <2>3, <3>1, <3>2 DEF RowsShaped
  <2> QED
    BY <1>4, <2>2, <2>3
<1>6. cursor'["related"] = cursor["related"]
  BY <1>2, <1>3, MarkOldType DEF RelatedInv, CorpusInv, Watchers
<1> QED
  BY <1>1, <1>5, <1>6, QuietRelated DEF GithubdocsStep

(* Run's iteration ends; the main loop goes back to gh.Sync.              *)
LEMMA RelatedEndRelated == RelatedInv /\ RelatedEnd => RelatedInv'
<1> SUFFICES ASSUME RelatedInv, RelatedEnd PROVE RelatedInv'
  OBVIOUS
<1>1. CorpusInv'
  BY RelatedEndCorpus DEF RelatedInv
<1>2. RowsShaped'
  BY DEF RelatedEnd, RelatedInv, RowsShaped
<1> QED
  BY <1>1, <1>2, QuietRelated DEF RelatedEnd

(* A crash keeps every row, marker and cursor.                            *)
LEMMA CrashRelated == RelatedInv /\ Crash => RelatedInv'
<1> SUFFICES ASSUME RelatedInv, Crash PROVE RelatedInv'
  OBVIOUS
<1>1. CorpusInv'
  BY CrashCorpus DEF RelatedInv
<1>2. RowsShaped'
  BY DEF Crash, RelatedInv, RowsShaped
<1> QED
  BY <1>1, <1>2, QuietRelated DEF Crash

(* The tracker changes only GitHub's side.                                *)
LEMMA TrackerRelated == RelatedInv /\ Tracker => RelatedInv'
<1> SUFFICES ASSUME RelatedInv, Tracker PROVE RelatedInv'
  OBVIOUS
<1>1. CorpusInv'
  BY TrackerCorpus DEF RelatedInv
<1>2. UNCHANGED <<ev, doc, vec, marked, decided, cursor, pc, pos, cur>>
  BY DEF Tracker, CreateIssue, EditIssue, CloseIssue, localVars
<1> QED
  BY <1>1, <1>2 DEF RelatedInv, RowsShaped, StagesDone, WindowHandled, Handled,
                    RelatedNoneSkipped

(* A step of githubdocs' end or of embeddocs that stays in embeddocs:    *)
(* Run's state and the rows are left alone, githubdocs has passed every  *)
(* row, and a final flush is of a batch that reaches the last doc.       *)
LEMMA EmbedStageRelated ==
    ASSUME RelatedInv, CorpusInv', pc' \in EmbedPCs,
           UNCHANGED <<ev, doc, marked, decided>>,
           cursor'["related"] = cursor["related"],
           cursor'["githubdocs"] = cursor["githubdocs"],
           \A i \in Issues : ev[i].mt <= cursor["githubdocs"],
           pc' = "flushFinal" => \A i \in Issues : doc[i].mt <= pos'
    PROVE  RelatedInv'
<1>1. RowsShaped' /\ RelatedNoneSkipped'
  BY DEF RelatedInv, RowsShaped, RelatedNoneSkipped
<1>2. StagesDone' /\ WindowHandled'
  BY DEF StagesDone, WindowHandled, EmbedPCs, RelatedPCs
<1> QED
  BY <1>1, <1>2 DEF RelatedInv

(* Run's iteration starts at its own cursor once githubdocs has passed   *)
(* every row and embeddocs every doc: its window is empty.               *)
LEMMA EnterRelated ==
    ASSUME RelatedInv, CorpusInv', pc' = "related", pos' = cursor["related"],
           UNCHANGED <<ev, doc, marked, decided>>,
           cursor'["related"] = cursor["related"],
           cursor'["githubdocs"] = cursor["githubdocs"],
           \A i \in Issues : ev[i].mt <= cursor["githubdocs"],
           \A i \in Issues : doc[i].mt <= cursor'["embeddocs"]
    PROVE  RelatedInv'
<1>1. RowsShaped' /\ RelatedNoneSkipped'
  BY DEF RelatedInv, RowsShaped, RelatedNoneSkipped
<1>2. StagesDone'
  BY DEF StagesDone, EmbedPCs, RelatedPCs
<1>3. cursor["related"] \in Nat /\ \A i \in Issues : ev[i].mt \in Nat
  BY DEF RelatedInv, CorpusInv, TypeOK, Watchers, EventRow
<1>4. WindowHandled'
  BY <1>3 DEF WindowHandled, RelatedPCs
<1> QED
  BY <1>1, <1>2, <1>4 DEF RelatedInv

(* githubdocs' iteration ends past the last row; embeddocs starts.       *)
LEMMA GithubdocsEndRelated == RelatedInv /\ GithubdocsEnd => RelatedInv'
<1> SUFFICES ASSUME RelatedInv, GithubdocsEnd PROVE RelatedInv'
  OBVIOUS
<1>1. CorpusInv'
  BY GithubdocsEndCorpus DEF RelatedInv
<1>2. pos \in Nat /\ \A i \in Issues : ev[i].mt \in Nat
  BY DEF RelatedInv, CorpusInv, TypeOK, EventRow
<1>3. \A i \in Issues : ev[i].mt <= cursor["githubdocs"]
  BY <1>2 DEF GithubdocsEnd, After, RelatedInv, CorpusInv, DocsCursorAtPos
<1> QED
  BY <1>1, <1>3, EmbedStageRelated DEF GithubdocsEnd, EmbedPCs

(* embeddocs reads a doc into the batch.                                  *)
LEMMA EmbedReadRelated == RelatedInv /\ EmbedRead => RelatedInv'
<1> SUFFICES ASSUME RelatedInv, EmbedRead PROVE RelatedInv'
  OBVIOUS
<1>1. CorpusInv'
  BY EmbedReadCorpus DEF RelatedInv
<1>2. pc' \in {"embeddocs", "flush"}
  BY DEF EmbedRead
<1>3. \A i \in Issues : ev[i].mt <= cursor["githubdocs"]
  BY DEF EmbedRead, RelatedInv, StagesDone, EmbedPCs
<1> QED
  BY <1>1, <1>2, <1>3, EmbedStageRelated DEF EmbedRead, EmbedPCs

(* embeddocs' loop ends past the last doc: a partial batch is flushed,   *)
(* and with no batch left Run starts.                                     *)
LEMMA EmbedEndRelated == RelatedInv /\ EmbedEnd => RelatedInv'
<1> SUFFICES ASSUME RelatedInv, EmbedEnd PROVE RelatedInv'
  OBVIOUS
<1>1. CorpusInv'
  BY EmbedEndCorpus DEF RelatedInv
<1>2. pos \in Nat /\ cursor["embeddocs"] \in Nat /\ \A i \in Issues : doc[i].mt \in Nat
  BY DEF RelatedInv, CorpusInv, TypeOK, DocRow, Watchers
<1>3. \A i \in Issues : doc[i].mt <= pos
  BY <1>2 DEF EmbedEnd, After
<1>4. \A i \in Issues : ev[i].mt <= cursor["githubdocs"]
  BY DEF EmbedEnd, RelatedInv, StagesDone, EmbedPCs
<1>5. CASE Len(batch) > 0
  BY <1>1, <1>3, <1>4, <1>5, EmbedStageRelated DEF EmbedEnd, EmbedPCs
<1>6. CASE ~(Len(batch) > 0)
  <2>1. \A i \in Issues : ~InBatch(i)
    BY <1>6 DEF InBatch
  <2>2. \A i \in Issues : doc[i].mt <= cursor["embeddocs"]
    BY <1>2, <1>3, <2>1 DEF EmbedEnd, RelatedInv, CorpusInv, BatchCovers, EmbedPCs
  <2> QED
    BY <1>1, <1>4, <1>6, <2>2, EnterRelated DEF EmbedEnd, Recent
<1> QED
  BY <1>5, <1>6

(* A full answer from EmbedDocs marks embeddocs at the batch's last doc, *)
(* which is the last doc there is when the flush is the final one.  A    *)
(* failed final flush would start Run with docs the watcher has not      *)
(* passed: the lemma needs ~EmbedFaults.                                  *)
LEMMA EmbedFlushRelated ==
    ASSUME ~EmbedFaults PROVE RelatedInv /\ EmbedFlush => RelatedInv'
<1> SUFFICES ASSUME RelatedInv, EmbedFlush PROVE RelatedInv'
  OBVIOUS
<1>1. CorpusInv'
  BY EmbedFlushCorpus DEF RelatedInv
<1>2. /\ pc \in {"flush", "flushFinal"} /\ UNCHANGED <<ev, doc, marked, decided>>
      /\ MarkOld("embeddocs", batchLast) /\ AfterFlush(TRUE)
  BY DEF EmbedFlush
<1>3. /\ Len(batch) > 0 /\ batchLast = pos
      /\ batchLast \in 0..MaxTime /\ cursor["embeddocs"] \in Nat /\ pos \in Nat
      /\ \A i \in Issues : doc[i].mt \in Nat
  BY <1>2 DEF RelatedInv, CorpusInv, BatchCovers, EmbedPCs, TypeOK, Watchers, DocRow
<1>4. /\ cursor'["embeddocs"] = IF batchLast > cursor["embeddocs"] THEN batchLast
                                                                ELSE cursor["embeddocs"]
      /\ \A u \in Watchers \ {"embeddocs"} : cursor'[u] = cursor[u]
  BY <1>2, <1>3, MarkOldType DEF RelatedInv, CorpusInv, Watchers
<1>5. /\ cursor'["related"] = cursor["related"]
      /\ cursor'["githubdocs"] = cursor["githubdocs"]
      /\ pos <= cursor'["embeddocs"]
  BY <1>3, <1>4 DEF Watchers
<1>6. /\ pc = "flushFinal" => pc' = "related" /\ pos' = cursor["related"]
      /\ pc = "flush" => pos' = pos /\ pc' = "embeddocs"
  BY <1>2, AfterFlushType DEF RelatedInv, CorpusInv
<1>7. \A i \in Issues : ev[i].mt <= cursor["githubdocs"]
  BY <1>2 DEF RelatedInv, StagesDone, EmbedPCs
<1>8. CASE pc = "flush"
  BY <1>1, <1>2, <1>5, <1>6, <1>7, <1>8, EmbedStageRelated DEF EmbedPCs
<1>9. CASE pc = "flushFinal"
  <2>1. \A i \in Issues : doc[i].mt <= cursor'["embeddocs"]
    <3>1. \A i \in Issues : doc[i].mt <= pos
      BY <1>9 DEF RelatedInv, StagesDone
    <3>2. cursor'["embeddocs"] \in Nat
      BY <1>1 DEF CorpusInv, TypeOK, Watchers
    <3> QED
      BY <1>3, <1>5, <3>1, <3>2
  <2> QED
    BY <1>1, <1>2, <1>5, <1>6, <1>7, <1>9, <2>1, EnterRelated
<1> QED
  BY <1>2, <1>8, <1>9

(* While Run runs, every row has a vector: githubdocs has passed the row, *)
(* so the corpus holds its text, and embeddocs has passed that doc, so   *)
(* the vector database holds the text's vector.  Run's "no vector yet"   *)
(* skip (related.go:199-203) is then never taken.                         *)
LEMMA VectorReady ==
    ASSUME RelatedInv, pc \in RelatedPCs, NEW i \in Issues, ev[i].mt > 0
    PROVE  vec[i] # 0
<1>1. /\ ev[i].ver \in Nat /\ ev[i].mt \in Nat /\ doc[i].ver \in Nat /\ doc[i].mt \in Nat
      /\ vec[i] \in Nat
  BY DEF RelatedInv, CorpusInv, TypeOK, EventRow, DocRow
<1>2. ev[i].ver > 0 /\ ev[i].mt <= cursor["githubdocs"]
  BY DEF RelatedInv, RowsShaped, StagesDone
<1>3. doc[i].ver = ev[i].ver
  BY <1>1, <1>2 DEF RelatedInv, CorpusInv, DocsMirrored
<1>4. doc[i].mt > 0 /\ doc[i].mt <= cursor["embeddocs"]
  BY <1>1, <1>2, <1>3 DEF RelatedInv, RowsShaped, StagesDone
<1>5. vec[i] = doc[i].ver
  BY <1>1, <1>4 DEF RelatedInv, CorpusInv, VectorsCurrent
<1> QED
  BY <1>1, <1>2, <1>3, <1>5

(* Run considers the first row past pos (related.go:170-224).  Every row *)
(* it passes over is handled; with no results it marks its watcher at    *)
(* the row and records the decision; otherwise it goes on to post.       *)
LEMMA RelatedConsiderRelated == RelatedInv /\ RelatedConsider => RelatedInv'
<1> SUFFICES ASSUME RelatedInv, RelatedConsider PROVE RelatedInv'
  OBVIOUS
<1>1. CorpusInv'
  BY RelatedConsiderCorpus DEF RelatedInv
<1>2. PICK i \in Issues :
        /\ First(ev, i, pos)
        /\ pos' = ev[i].mt
        /\ IF i \in Skip \/ ev[i].closed \/ i \in marked \/ vec[i] = 0
           THEN UNCHANGED <<cursor, pc, cur, decided>>
           ELSE IF Results(i) = {}
           THEN /\ MarkOld("related", ev[i].mt)
                /\ decided' = [decided EXCEPT ![i] = ev[i].mt]
                /\ UNCHANGED <<pc, cur>>
           ELSE pc' = "post" /\ cur' = i /\ UNCHANGED <<cursor, decided>>
  BY DEF RelatedConsider
<1>3. pc = "related" /\ ev' = ev /\ doc' = doc /\ marked' = marked
  BY DEF RelatedConsider
<1>4. /\ pos \in Nat /\ cursor["related"] \in Nat /\ \A j \in Issues : ev[j].mt \in Nat
      /\ ev[i].mt \in 0..MaxTime /\ decided \in [Issues -> 0..MaxTime]
      /\ cursor["related"] <= pos
  BY <1>3 DEF RelatedInv, CorpusInv, TypeOK, EventRow, Watchers, WindowHandled, RelatedPCs
<1>5. pos < ev[i].mt /\ ev[i].mt > 0
  BY <1>2, <1>4 DEF First, After
<1>6. ASSUME NEW j \in Issues, cursor["related"] < ev[j].mt, ev[j].mt <= ev[i].mt, j # i
      PROVE  Handled(j)
  <2>1. CASE ev[j].mt <= pos
    BY <1>3, <1>6, <2>1 DEF RelatedInv, WindowHandled, RelatedPCs
  <2>2. CASE pos < ev[j].mt
    <3>1. \A a, b \in Issues : a # b /\ ev[a].mt > 0 => ev[a].mt # ev[b].mt
      BY DEF RelatedInv, CorpusInv, RowsDistinct
    <3> QED
      BY <1>2, <1>4, <1>6, <2>2, <3>1, FirstOnly
  <2> QED
    BY <1>4, <2>1, <2>2
<1>7. StagesDone /\ RowsShaped /\ RelatedNoneSkipped
  BY DEF RelatedInv
<1>8. CASE i \in Skip \/ ev[i].closed \/ i \in marked \/ vec[i] = 0
  <2>1. UNCHANGED <<cursor, pc, cur, decided>>
    BY <1>2, <1>8
  <2>2. Handled(i)
    <3>1. vec[i] # 0
      BY <1>3, <1>5, VectorReady DEF RelatedPCs
    <3> QED
      BY <1>8, <3>1 DEF Handled
  <2>3. \A j \in Issues : Handled(j)' = Handled(j)
    BY <1>3, <2>1 DEF Handled
  <2>4. WindowHandled'
    <3>1. cursor'["related"] <= pos'
      BY <1>2, <1>4, <1>5, <2>1
    <3>2. \A j \in Issues : cursor["related"] < ev[j].mt /\ ev[j].mt <= ev[i].mt => Handled(j)
      BY <1>6, <2>2
    <3> QED
      BY <1>2, <1>3, <2>1, <2>3, <3>1, <3>2 DEF WindowHandled, RelatedPCs
  <2> QED
    BY <1>1, <1>3, <1>7, <2>1, <2>4 DEF RelatedInv, StagesDone, RowsShaped, RelatedNoneSkipped
<1>9. CASE ~(i \in Skip \/ ev[i].closed \/ i \in marked \/ vec[i] = 0) /\ Results(i) = {}
  <2>1. /\ MarkOld("related", ev[i].mt)
        /\ decided' = [decided EXCEPT ![i] = ev[i].mt]
        /\ pc' = "related"
    BY <1>2, <1>3, <1>9
  <2>2. /\ cursor'["related"] = ev[i].mt
        /\ cursor'["githubdocs"] = cursor["githubdocs"]
        /\ cursor'["embeddocs"] = cursor["embeddocs"]
    <3>1. /\ cursor'["related"] = IF ev[i].mt > cursor["related"] THEN ev[i].mt
                                                                 ELSE cursor["related"]
          /\ \A u \in Watchers \ {"related"} : cursor'[u] = cursor[u]
      BY <1>4, <2>1, MarkOldType DEF RelatedInv, CorpusInv, Watchers
    <3> QED
      BY <1>4, <1>5, <3>1 DEF Watchers
  <2>3. StagesDone' /\ RowsShaped'
    BY <1>3, <1>7, <2>1, <2>2 DEF StagesDone, RowsShaped, RelatedPCs
  <2>4. WindowHandled'
    <3>1. cursor'["related"] = pos' /\ pos' \in Nat /\ \A j \in Issues : ev'[j].mt \in Nat
      BY <1>2, <1>3, <1>4, <2>2
    <3> QED
      BY <2>1, <3>1 DEF WindowHandled, RelatedPCs
  <2>5. RelatedNoneSkipped'
    <3> SUFFICES ASSUME NEW j \in Issues, 0 < ev[j].mt, ev[j].mt <= ev[i].mt,
                        j \notin Skip, ~ev[j].closed
                 PROVE  j \in marked \/ decided'[j] = ev[j].mt
      BY <1>3, <2>2 DEF RelatedNoneSkipped
    <3>1. CASE j = i
      BY <1>4, <2>1, <3>1
    <3>2. CASE j # i /\ ev[j].mt <= cursor["related"]
      BY <1>4, <1>7, <2>1, <3>2 DEF RelatedNoneSkipped
    <3>3. CASE j # i /\ cursor["related"] < ev[j].mt
      <4>1. Handled(j)
        BY <1>6, <3>3
      <4> QED
        BY <1>4, <2>1, <3>3, <4>1 DEF Handled
    <3> QED
      BY <1>4, <3>1, <3>2, <3>3
  <2> QED
    BY <1>1, <2>3, <2>4, <2>5 DEF RelatedInv
<1>10. CASE ~(i \in Skip \/ ev[i].closed \/ i \in marked \/ vec[i] = 0) /\ Results(i) # {}
  <2>1. pc' = "post" /\ cur' = i /\ UNCHANGED <<cursor, decided>>
    BY <1>2, <1>10
  <2>2. \A j \in Issues : Handled(j)' = Handled(j)
    BY <1>3, <2>1 DEF Handled
  <2>3. WindowHandled'
    <3>1. cursor'["related"] <= pos'
      BY <1>2, <1>4, <1>5, <2>1
    <3>2. \A j \in Issues : cursor["related"] < ev[j].mt /\ ev[j].mt <= ev[i].mt /\ j # i
                            => Handled(j)
      BY <1>6
    <3>3. ev'[cur'].mt = pos' /\ pos' > 0 /\ cur' \notin Skip /\ ~ev'[cur'].closed
      BY <1>2, <1>3, <1>5, <1>10, <2>1
    <3> QED
      BY <1>2, <1>3, <2>1, <2>2, <3>1, <3>2, <3>3 DEF WindowHandled, RelatedPCs
  <2> QED
    BY <1>1, <1>3, <1>7, <2>1, <2>3 DEF RelatedInv, StagesDone, RowsShaped,
                                       RelatedNoneSkipped, RelatedPCs
<1> QED
  BY <1>8, <1>9, <1>10

(* PostIssueComment succeeds (related.go:248-251): only the tracker       *)
(* changes.  A failed post would send Run on past the row without a      *)
(* marker: the lemma needs ~PostFaults.                                   *)
LEMMA RelatedPostRelated ==
    ASSUME ~PostFaults PROVE RelatedInv /\ RelatedPost => RelatedInv'
<1> SUFFICES ASSUME RelatedInv, RelatedPost PROVE RelatedInv'
  OBVIOUS
<1>1. CorpusInv'
  BY RelatedPostCorpus DEF RelatedInv
<1>2. /\ pc = "post" /\ pc' = "record"
      /\ UNCHANGED <<ev, doc, vec, marked, cursor, pos, cur, decided>>
  BY DEF RelatedPost
<1> QED
  BY <1>1, <1>2 DEF RelatedInv, RowsShaped, StagesDone, WindowHandled, Handled,
                    RelatedNoneSkipped, RelatedPCs, EmbedPCs

(* related.go:252-257: the marker is set and the watcher is marked at    *)
(* pos; the row posted on is then handled and Run's window is empty.     *)
LEMMA RelatedRecordRelated == RelatedInv /\ RelatedRecord => RelatedInv'
<1> SUFFICES ASSUME RelatedInv, RelatedRecord PROVE RelatedInv'
  OBVIOUS
<1>1. CorpusInv'
  BY RelatedRecordCorpus DEF RelatedInv
<1>2. /\ pc = "record" /\ pc' = "related"
      /\ marked' = marked \cup {cur}
      /\ MarkOld("related", pos)
      /\ decided' = [decided EXCEPT ![cur] = pos]
      /\ UNCHANGED <<ev, doc, pos, cur>>
  BY DEF RelatedRecord
<1>3. /\ pos \in 0..MaxTime /\ cursor["related"] \in Nat /\ cursor["related"] <= pos
      /\ \A j \in Issues : ev[j].mt \in Nat
      /\ decided \in [Issues -> 0..MaxTime] /\ cur \in Issues
  BY <1>2 DEF RelatedInv, CorpusInv, TypeOK, EventRow, Watchers, WindowHandled, RelatedPCs
<1>4. /\ cursor'["related"] = pos
      /\ cursor'["githubdocs"] = cursor["githubdocs"]
      /\ cursor'["embeddocs"] = cursor["embeddocs"]
  <2>1. /\ cursor'["related"] = IF pos > cursor["related"] THEN pos ELSE cursor["related"]
        /\ \A u \in Watchers \ {"related"} : cursor'[u] = cursor[u]
    BY <1>2, <1>3, MarkOldType DEF RelatedInv, CorpusInv, Watchers
  <2> QED
    BY <1>3, <2>1 DEF Watchers
<1>5. StagesDone' /\ RowsShaped'
  BY <1>2, <1>4 DEF RelatedInv, StagesDone, RowsShaped, RelatedPCs
<1>6. WindowHandled'
  BY <1>2, <1>3, <1>4 DEF WindowHandled, RelatedPCs
<1>7. RelatedNoneSkipped'
  <2> SUFFICES ASSUME NEW j \in Issues, 0 < ev[j].mt, ev[j].mt <= pos,
                      j \notin Skip, ~ev[j].closed
               PROVE  j \in marked' \/ decided'[j] = ev[j].mt
    BY <1>2, <1>4 DEF RelatedNoneSkipped
  <2>1. CASE j = cur
    BY <1>2, <2>1
  <2>2. CASE j # cur /\ ev[j].mt <= cursor["related"]
    BY <1>2, <1>3, <2>2 DEF RelatedInv, RelatedNoneSkipped
  <2>3. CASE j # cur /\ cursor["related"] < ev[j].mt
    <3>1. Handled(j)
      BY <1>2, <2>3 DEF RelatedInv, WindowHandled, RelatedPCs
    <3> QED
      BY <1>2, <1>3, <2>3, <3>1 DEF Handled
  <2> QED
    BY <1>3, <2>1, <2>2, <2>3
<1> QED
  BY <1>1, <1>5, <1>6, <1>7 DEF RelatedInv

(* Every step of the pipeline keeps RelatedInv when posting and embedding *)
(* do not fail; sync errors, crashes and the tracker are all allowed.     *)
LEMMA NextRelated ==
    ASSUME ~PostFaults, ~EmbedFaults PROVE RelatedInv /\ [Next]_vars => RelatedInv'
<1> SUFFICES ASSUME RelatedInv, [Next]_vars PROVE RelatedInv'
  OBVIOUS
<1>1. CASE UNCHANGED vars
  BY <1>1 DEF vars, RelatedInv, CorpusInv, TypeOK, PipeClocked, RowsDistinct,
     DocsCursorAtPos, BatchCovers, InBatch, DocsMirrored, VectorsCurrent, RowsShaped,
     StagesDone, WindowHandled, Handled, RelatedNoneSkipped
<1>2. CASE \E i \in Issues : MirrorWrite(i)
  BY <1>2, MirrorWriteRelated
<1> QED
  BY <1>1, <1>2, MirrorDoneRelated, GithubdocsStepRelated, GithubdocsEndRelated,
     EmbedReadRelated, EmbedEndRelated, EmbedFlushRelated, RelatedConsiderRelated,
     RelatedPostRelated, RelatedRecordRelated, RelatedEndRelated, CrashRelated,
     TrackerRelated DEF Next, LoopStep

(* When posting and embedding do not fail, related.Poster's watcher never *)
(* passes the row of an open issue Run may post on unless Run has posted  *)
(* on it or found it without similar issues at that row (related.go:      *)
(* 143-162, 252-257), through sync errors, crashes and tracker edits:     *)
(* each row Run moves past is the first one after pos, and it has a      *)
(* vector because githubdocs and embeddocs ran to the end before Run.     *)
THEOREM NoneSkipped == ~PostFaults /\ ~EmbedFaults => (Spec => []RelatedNoneSkipped)
<1> SUFFICES ASSUME ~PostFaults, ~EmbedFaults PROVE Spec => []RelatedNoneSkipped
  OBVIOUS
<1>1. RelatedInv /\ [Next]_vars => RelatedInv'
  BY NextRelated
<1>2. RelatedInv => RelatedNoneSkipped
  BY DEF RelatedInv
<1> QED
  BY InitRelated, <1>1, <1>2, PTL DEF Spec

=============================================================================
