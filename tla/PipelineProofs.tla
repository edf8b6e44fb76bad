--------------------------- MODULE PipelineProofs ---------------------------
(***************************************************************************)
(* Proofs about Pipeline, for every number of issues, versions, posts and *)
(* modtimes, every batch size and every search result:                    *)
(*   - the model is well typed;                                            *)
(*   - githubdocs never marks its watcher past an issue row the corpus    *)
(*     does not hold (DocsMirrored), and embeddocs never marks its watcher *)
(*     past a doc whose text has no vector (VectorsCurrent), through sync  *)
(*     errors, embedder failures and short answers, failed posts and      *)
(*     crashes, by the inductive invariant CorpusInv.                     *)
(***************************************************************************)
EXTENDS Pipeline, TLAPS

USE NIssuesAssumption, MaxVerAssumption, MaxPostsAssumption, MaxTimeAssumption,
    BatchSizeAssumption, SimilarAssumption

-----------------------------------------------------------------------------
(* Types.                                                                 *)

(* MarkOld writes the larger of the two times to one watcher's cursor.  *)
LEMMA MarkOldType ==
    ASSUME TypeOK, NEW w \in Watchers, NEW t \in 0..MaxTime, MarkOld(w, t)
    PROVE  /\ cursor' \in [Watchers -> 0..MaxTime]
           /\ cursor'[w] = IF t > cursor[w] THEN t ELSE cursor[w]
           /\ \A u \in Watchers \ {w} : cursor'[u] = cursor[u]
BY DEF TypeOK, MarkOld

(* Corpus.Add leaves the corpus alone or stores the doc under the next   *)
(* modtime.                                                               *)
LEMMA AddType ==
    ASSUME TypeOK, NEW i \in Issues, NEW v \in 0..MaxVer, Add(i, v)
    PROVE  /\ doc' \in [Issues -> DocRow]
           /\ clock' \in 0..MaxTime
           /\ \/ doc' = doc /\ clock' = clock
              \/ /\ clock' = clock + 1
                 /\ doc' = [doc EXCEPT ![i] = [mt |-> clock', ver |-> v]]
<1>1. CASE doc[i].mt # 0 /\ doc[i].ver = v
  BY <1>1 DEF Add, TypeOK
<1>2. CASE ~(doc[i].mt # 0 /\ doc[i].ver = v)
  <2>1. clock < MaxTime /\ clock' = clock + 1
        /\ doc' = [doc EXCEPT ![i] = [mt |-> clock', ver |-> v]]
    BY <1>2 DEF Add
  <2>2. [mt |-> clock', ver |-> v] \in DocRow
    BY <2>1 DEF TypeOK, DocRow
  <2> QED
    BY <2>1, <2>2 DEF TypeOK
<1> QED
  BY <1>1, <1>2

(* vdb.Set of the first k vectors of the batch writes versions.          *)
LEMMA SetVectorsType ==
    ASSUME TypeOK, NEW k \in 0..Len(batch), SetVectors(k)
    PROVE  vec' \in [Issues -> 0..MaxVer]
<1>1. \A d \in Issues : (\E n \in 1..k : batch[n][1] = d) =>
                          batch[CHOOSE n \in 1..k : batch[n][1] = d][2] \in 0..MaxVer
  <2> SUFFICES ASSUME NEW d \in Issues, \E n \in 1..k : batch[n][1] = d
               PROVE  batch[CHOOSE n \in 1..k : batch[n][1] = d][2] \in 0..MaxVer
    OBVIOUS
  <2> DEFINE c == CHOOSE n \in 1..k : batch[n][1] = d
  <2>1. c \in 1..Len(batch)
    OBVIOUS
  <2>2. batch[c] \in Issues \X (0..MaxVer)
    BY <2>1 DEF TypeOK
  <2> QED
    BY <2>2
<1> QED
  BY <1>1 DEF SetVectors, TypeOK

LEMMA InitType == Init => TypeOK
<1> SUFFICES ASSUME Init PROVE TypeOK
  OBVIOUS
<1>1. gh \in [Issues -> Issue]
  BY DEF Init, Issue
<1>2. ev \in [Issues -> EventRow] /\ doc \in [Issues -> DocRow]
  BY DEF Init, EventRow, DocRow, NoEvent, NoDoc
<1>3. cursor \in [Watchers -> 0..MaxTime] /\ cur \in Issues /\ batch \in Seq(Issues \X (0..MaxVer))
  BY DEF Init, Issues
<1> QED
  BY <1>1, <1>2, <1>3 DEF Init, TypeOK

(* A change of one issue on the tracker keeps it an issue.               *)
LEMMA GhUpdateType ==
    ASSUME TypeOK, NEW i \in Issues, NEW r \in Issue, gh' = [gh EXCEPT ![i] = r]
    PROVE  gh' \in [Issues -> Issue]
BY DEF TypeOK

LEMMA TrackerType == TypeOK /\ Tracker => TypeOK'
<1> SUFFICES ASSUME TypeOK, NEW i \in Issues,
                    CreateIssue(i) \/ EditIssue(i) \/ CloseIssue(i)
             PROVE  TypeOK'
  BY DEF Tracker
<1>1. gh[i] \in Issue
  BY DEF TypeOK
<1>2. CASE CreateIssue(i)
  <2>1. [gh[i] EXCEPT !.ver = 1] \in Issue
    BY <1>1 DEF Issue
  <2>2. gh' = [gh EXCEPT ![i] = [gh[i] EXCEPT !.ver = 1]]
    BY <1>2 DEF CreateIssue
  <2>3. gh' \in [Issues -> Issue]
    BY <2>1, <2>2, GhUpdateType
  <2> QED
    BY <1>2, <2>3 DEF CreateIssue, TypeOK, localVars
<1>3. CASE EditIssue(i)
  <2>1. [gh[i] EXCEPT !.ver = gh[i].ver + 1] \in Issue
    BY <1>1, <1>3 DEF Issue, EditIssue
  <2>2. gh' = [gh EXCEPT ![i] = [gh[i] EXCEPT !.ver = gh[i].ver + 1]]
    BY <1>3 DEF EditIssue
  <2>3. gh' \in [Issues -> Issue]
    BY <2>1, <2>2, GhUpdateType
  <2> QED
    BY <1>3, <2>3 DEF EditIssue, TypeOK, localVars
<1>4. CASE CloseIssue(i)
  <2>1. [gh[i] EXCEPT !.closed = TRUE] \in Issue
    BY <1>1 DEF Issue
  <2>2. gh' = [gh EXCEPT ![i] = [gh[i] EXCEPT !.closed = TRUE]]
    BY <1>4 DEF CloseIssue
  <2>3. gh' \in [Issues -> Issue]
    BY <2>1, <2>2, GhUpdateType
  <2> QED
    BY <1>4, <2>3 DEF CloseIssue, TypeOK, localVars
<1> QED
  BY <1>2, <1>3, <1>4

LEMMA MirrorWriteType ==
    ASSUME TypeOK, NEW i \in Issues, MirrorWrite(i) PROVE TypeOK'
<1>1. clock' \in 0..MaxTime
  BY DEF MirrorWrite, TypeOK
<1>2. Fetched(i, clock') \in EventRow
  BY <1>1 DEF Fetched, TypeOK, Issue, EventRow
<1>3. ev' \in [Issues -> EventRow]
  BY <1>2 DEF MirrorWrite, TypeOK
<1> QED
  BY <1>1, <1>3 DEF MirrorWrite, TypeOK, localVars

LEMMA MirrorDoneType == TypeOK /\ MirrorDone => TypeOK'
BY DEF MirrorDone, Recent, TypeOK, Watchers

LEMMA GithubdocsStepType == TypeOK /\ GithubdocsStep => TypeOK'
<1> SUFFICES ASSUME TypeOK, GithubdocsStep PROVE TypeOK'
  OBVIOUS
<1>1. PICK i \in Issues : /\ First(ev, i, pos)
                          /\ pos' = ev[i].mt
                          /\ Add(i, ev[i].ver)
                          /\ MarkOld("githubdocs", ev[i].mt)
  BY DEF GithubdocsStep
<1>2. ev[i].mt \in 0..MaxTime /\ ev[i].ver \in 0..MaxVer
  BY DEF TypeOK, EventRow
<1>3. doc' \in [Issues -> DocRow] /\ clock' \in 0..MaxTime
  BY <1>1, <1>2, AddType
<1>4. cursor' \in [Watchers -> 0..MaxTime]
  BY <1>1, <1>2, MarkOldType DEF Watchers
<1> QED
  BY <1>1, <1>2, <1>3, <1>4 DEF GithubdocsStep, TypeOK

LEMMA GithubdocsEndType == TypeOK /\ GithubdocsEnd => TypeOK'
BY DEF GithubdocsEnd, Recent, TypeOK, Watchers

LEMMA EmbedReadType == TypeOK /\ EmbedRead => TypeOK'
<1> SUFFICES ASSUME TypeOK, EmbedRead PROVE TypeOK'
  OBVIOUS
<1>1. PICK d \in Issues : /\ First(doc, d, pos)
                          /\ batch' = Append(batch, <<d, doc[d].ver>>)
                          /\ batchLast' = doc[d].mt
                          /\ pos' = doc[d].mt
                          /\ pc' = IF Len(batch') >= BatchSize THEN "flush" ELSE "embeddocs"
  BY DEF EmbedRead
<1>2. doc[d].mt \in 0..MaxTime /\ <<d, doc[d].ver>> \in Issues \X (0..MaxVer)
  BY DEF TypeOK, DocRow
<1>3. batch' \in Seq(Issues \X (0..MaxVer))
  BY <1>1, <1>2 DEF TypeOK
<1> QED
  BY <1>1, <1>2, <1>3 DEF EmbedRead, TypeOK

LEMMA EmbedEndType == TypeOK /\ EmbedEnd => TypeOK'
BY DEF EmbedEnd, Recent, TypeOK, Watchers

LEMMA AfterFlushType ==
    ASSUME TypeOK, NEW ok \in BOOLEAN, pc \in {"flush", "flushFinal"}, AfterFlush(ok)
    PROVE  /\ pc' \in {"embeddocs", "flushFinal", "related"} /\ pos' \in 0..MaxTime
           /\ pc = "flushFinal" => pc' = "related" /\ pos' = cursor["related"]
           /\ pc = "flush" => pos' = pos /\ pc' = IF ok THEN "embeddocs" ELSE "flushFinal"
BY DEF AfterFlush, Recent, TypeOK, Watchers

LEMMA EmbedFlushType == TypeOK /\ EmbedFlush => TypeOK'
<1> SUFFICES ASSUME TypeOK, EmbedFlush PROVE TypeOK'
  OBVIOUS
<1>0. UNCHANGED <<gh, clock, ev, doc, marked, batchLast, cur, decided>>
      /\ pc \in {"flush", "flushFinal"}
  BY DEF EmbedFlush
<1>1. CASE /\ SetVectors(Len(batch))
           /\ MarkOld("embeddocs", batchLast)
           /\ batch' = <<>>
           /\ AfterFlush(TRUE)
  <2>1. cursor' \in [Watchers -> 0..MaxTime]
    BY <1>1, MarkOldType DEF TypeOK, Watchers
  <2>2. vec' \in [Issues -> 0..MaxVer]
    BY <1>1, SetVectorsType DEF TypeOK
  <2>3. pc' \in {"embeddocs", "flushFinal", "related"} /\ pos' \in 0..MaxTime
    BY <1>0, <1>1, AfterFlushType
  <2>4. batch' \in Seq(Issues \X (0..MaxVer))
    BY <1>1
  <2> QED
    BY <1>0, <2>1, <2>2, <2>3, <2>4 DEF TypeOK
<1>2. CASE UNCHANGED <<vec, cursor, batch>> /\ AfterFlush(FALSE)
  <2>1. pc' \in {"embeddocs", "flushFinal", "related"} /\ pos' \in 0..MaxTime
    BY <1>0, <1>2, AfterFlushType
  <2> QED
    BY <1>0, <1>2, <2>1 DEF TypeOK
<1>3. CASE \E k \in 0..Len(batch) : SetVectors(k) /\ UNCHANGED <<cursor, batch>> /\ AfterFlush(FALSE)
  <2>1. PICK k \in 0..Len(batch) : SetVectors(k) /\ UNCHANGED <<cursor, batch>> /\ AfterFlush(FALSE)
    BY <1>3
  <2>2. vec' \in [Issues -> 0..MaxVer]
    BY <2>1, SetVectorsType
  <2>3. pc' \in {"embeddocs", "flushFinal", "related"} /\ pos' \in 0..MaxTime
    BY <1>0, <2>1, AfterFlushType
  <2> QED
    BY <1>0, <2>1, <2>2, <2>3 DEF TypeOK
<1> QED
  BY <1>1, <1>2, <1>3 DEF EmbedFlush

LEMMA RelatedConsiderType == TypeOK /\ RelatedConsider => TypeOK'
<1> SUFFICES ASSUME TypeOK, RelatedConsider PROVE TypeOK'
  OBVIOUS
<1>1. PICK i \in Issues :
        /\ First(ev, i, pos)
        /\ pos' = ev[i].mt
        /\ IF i \in Skip \/ ev[i].closed \/ i \in marked \/ vec[i] = 0
           THEN UNCHANGED <<cursor, pc, cur, decided>>
           ELSE IF Results(i) = {}
           THEN /\ MarkOld("related", ev[i].mt)
                /\ decided' = [decided EXCEPT ![i] = ev[i].mt]
                /\ UNCHANGED <<pc, cur>>
           ELSE pc' = "post" /\ cur' = i /\ UNCHANGED <<cursor, decided>>
  BY DEF RelatedConsider
<1>2. ev[i].mt \in 0..MaxTime
  BY DEF TypeOK, EventRow
<1>3. UNCHANGED <<gh, clock, ev, doc, vec, marked, batch, batchLast>>
  BY DEF RelatedConsider
<1>4. CASE i \in Skip \/ ev[i].closed \/ i \in marked \/ vec[i] = 0
  BY <1>1, <1>2, <1>3, <1>4 DEF TypeOK
<1>5. CASE ~(i \in Skip \/ ev[i].closed \/ i \in marked \/ vec[i] = 0) /\ Results(i) = {}
  <2>1. MarkOld("related", ev[i].mt) /\ decided' = [decided EXCEPT ![i] = ev[i].mt]
        /\ UNCHANGED <<pc, cur>>
    BY <1>1, <1>5
  <2>2. cursor' \in [Watchers -> 0..MaxTime]
    BY <1>2, <2>1, MarkOldType DEF Watchers
  <2> QED
    BY <1>1, <1>2, <1>3, <2>1, <2>2 DEF TypeOK
<1>6. CASE ~(i \in Skip \/ ev[i].closed \/ i \in marked \/ vec[i] = 0) /\ Results(i) # {}
  BY <1>1, <1>2, <1>3, <1>6 DEF TypeOK
<1> QED
  BY <1>4, <1>5, <1>6

LEMMA RelatedPostType == TypeOK /\ RelatedPost => TypeOK'
<1> SUFFICES ASSUME TypeOK, RelatedPost PROVE TypeOK'
  OBVIOUS
<1>1. CASE gh[cur].posts < MaxPosts /\ gh' = [gh EXCEPT ![cur].posts = @ + 1]
  <2>0. gh[cur] \in Issue
    BY DEF TypeOK
  <2>1. [gh[cur] EXCEPT !.posts = gh[cur].posts + 1] \in Issue
    BY <1>1, <2>0 DEF Issue
  <2>2. gh' = [gh EXCEPT ![cur] = [gh[cur] EXCEPT !.posts = gh[cur].posts + 1]]
    BY <1>1
  <2>3. gh' \in [Issues -> Issue]
    BY <2>1, <2>2, GhUpdateType DEF TypeOK
  <2> QED
    BY <2>3 DEF RelatedPost, TypeOK
<1>2. CASE UNCHANGED gh
  BY <1>2 DEF RelatedPost, TypeOK
<1> QED
  BY <1>1, <1>2 DEF RelatedPost

LEMMA RelatedRecordType == TypeOK /\ RelatedRecord => TypeOK'
<1> SUFFICES ASSUME TypeOK, RelatedRecord PROVE TypeOK'
  OBVIOUS
<1>1. cursor' \in [Watchers -> 0..MaxTime]
  BY MarkOldType DEF RelatedRecord, TypeOK, Watchers
<1> QED
  BY <1>1 DEF RelatedRecord, TypeOK

LEMMA RelatedEndType == TypeOK /\ RelatedEnd => TypeOK'
BY DEF RelatedEnd, TypeOK

LEMMA CrashType == TypeOK /\ Crash => TypeOK'
<1> SUFFICES ASSUME TypeOK, Crash PROVE TypeOK'
  OBVIOUS
<1>1. batch' \in Seq(Issues \X (0..MaxVer))
  BY DEF Crash
<1>2. cur' \in Issues
  BY DEF Crash, Issues
<1> QED
  BY <1>1, <1>2 DEF Crash, TypeOK

LEMMA NextType == TypeOK /\ [Next]_vars => TypeOK'
<1> SUFFICES ASSUME TypeOK, [Next]_vars PROVE TypeOK'
  OBVIOUS
<1>1. CASE UNCHANGED vars
  BY <1>1 DEF vars, TypeOK
<1> QED
  BY <1>1, TrackerType, MirrorWriteType, MirrorDoneType, GithubdocsStepType,
     GithubdocsEndType, EmbedReadType, EmbedEndType, EmbedFlushType,
     RelatedConsiderType, RelatedPostType, RelatedRecordType, RelatedEndType,
     CrashType
     DEF Next, LoopStep

(* Every state of the pipeline is well typed.                            *)
THEOREM TypeCorrect == Spec => []TypeOK
BY InitType, NextType, PTL DEF Spec

-----------------------------------------------------------------------------
(* DocsMirrored and VectorsCurrent.                                       *)

(* No row lies between t and the first row after t, when modtimes are   *)
(* distinct.                                                              *)
LEMMA FirstOnly ==
    ASSUME NEW rows, NEW t \in Nat, NEW i \in Issues, First(rows, i, t),
           \A j \in Issues : rows[j].mt \in Nat,
           \A a, b \in Issues : a # b /\ rows[a].mt > 0 => rows[a].mt # rows[b].mt,
           NEW k \in Issues, t < rows[k].mt, rows[k].mt <= rows[i].mt
    PROVE  k = i
<1>1. k \in After(rows, t)
  BY DEF After
<1>2. rows[i].mt <= rows[k].mt
  BY <1>1 DEF First
<1> QED
  BY <1>2

(* vdb.Set of a prefix of a batch whose entries hold the corpus's texts  *)
(* writes those texts.                                                    *)
LEMMA SetVectorsCurrent ==
    ASSUME TypeOK, \A n \in 1..Len(batch) : batch[n][2] = doc[batch[n][1]].ver,
           NEW k \in 0..Len(batch), SetVectors(k)
    PROVE  /\ \A d \in Issues : (\E n \in 1..k : batch[n][1] = d) => vec'[d] = doc[d].ver
           /\ \A d \in Issues : ~(\E n \in 1..k : batch[n][1] = d) => vec'[d] = vec[d]
<1>1. ASSUME NEW d \in Issues, \E n \in 1..k : batch[n][1] = d
      PROVE  vec'[d] = doc[d].ver
  <2> DEFINE c == CHOOSE n \in 1..k : batch[n][1] = d
  <2>1. c \in 1..Len(batch) /\ batch[c][1] = d
    BY <1>1
  <2>2. vec'[d] = batch[c][2]
    BY <1>1 DEF SetVectors
  <2> QED
    BY <2>1, <2>2
<1>2. ASSUME NEW d \in Issues, ~(\E n \in 1..k : batch[n][1] = d)
      PROVE  vec'[d] = vec[d]
  BY <1>2 DEF SetVectors
<1> QED
  BY <1>1, <1>2

LEMMA InitCorpus == Init => CorpusInv
<1> SUFFICES ASSUME Init PROVE CorpusInv
  OBVIOUS
<1>1. TypeOK
  BY InitType
<1>2. \A i \in Issues : ev[i].mt = 0 /\ doc[i].mt = 0
  BY DEF Init, NoEvent, NoDoc
<1>3. PipeClocked
  BY <1>2 DEF Init, PipeClocked
<1>4. RowsDistinct /\ DocsMirrored /\ VectorsCurrent
  BY <1>2 DEF RowsDistinct, DocsMirrored, VectorsCurrent
<1>5. DocsCursorAtPos /\ BatchCovers
  BY DEF Init, DocsCursorAtPos, BatchCovers, EmbedPCs
<1> QED
  BY <1>1, <1>3, <1>4, <1>5 DEF CorpusInv

(* The steps that touch none of what the invariant reads: the tracker,  *)
(* posting, and the end of Run's iteration.                              *)
LEMMA CorpusFrame ==
    ASSUME CorpusInv, TypeOK',
           UNCHANGED <<clock, ev, doc, vec, cursor, pos, batch, batchLast>>,
           \/ pc' = pc
           \/ pc \notin EmbedPCs \cup {"githubdocs"} /\ pc' \notin EmbedPCs \cup {"githubdocs"}
    PROVE  CorpusInv'
BY DEF CorpusInv, PipeClocked, RowsDistinct, DocsCursorAtPos, BatchCovers, InBatch,
   DocsMirrored, VectorsCurrent

LEMMA MirrorWriteCorpus ==
    ASSUME CorpusInv, NEW i \in Issues, MirrorWrite(i) PROVE CorpusInv'
<1> USE DEF CorpusInv
<1>1. TypeOK'
  BY MirrorWriteType
<1>2. /\ clock' = clock + 1 /\ ev'[i].mt = clock + 1 /\ ev'[i].ver = gh[i].ver
      /\ \A j \in Issues \ {i} : ev'[j] = ev[j]
      /\ doc' = doc /\ vec' = vec /\ cursor' = cursor /\ pc' = pc /\ pos' = pos
      /\ batch' = batch /\ batchLast' = batchLast /\ pc = "sync"
  BY DEF MirrorWrite, Fetched, TypeOK, localVars
<1>7. \A j \in Issues \ {i} : ev[j].mt <= clock /\ ev[j].mt \in Nat
  BY DEF PipeClocked, TypeOK, EventRow
<1>8. cursor["githubdocs"] <= clock /\ clock \in Nat /\ cursor["githubdocs"] \in Nat
  BY DEF PipeClocked, TypeOK, Watchers
<1>3. PipeClocked'
  <2>1. \A j \in Issues : ev'[j].mt <= clock'
    BY <1>2, <1>7, <1>8
  <2>2. \A j \in Issues : doc'[j].mt <= clock'
    <3>1. \A j \in Issues : doc[j].mt <= clock /\ doc[j].mt \in Nat
      BY DEF PipeClocked, TypeOK, DocRow
    <3> QED
      BY <1>2, <1>8, <3>1
  <2>3. (\A w \in Watchers : cursor'[w] <= clock') /\ pos' <= clock'
    BY <1>2, <1>8 DEF PipeClocked, TypeOK
  <2> QED
    BY <2>1, <2>2, <2>3 DEF PipeClocked
<1>4. RowsDistinct'
  <2> SUFFICES ASSUME NEW a \in Issues, NEW b \in Issues, a # b
               PROVE  /\ (ev'[a].mt > 0 => ev'[a].mt # ev'[b].mt)
                      /\ (doc'[a].mt > 0 => doc'[a].mt # doc'[b].mt)
    BY DEF RowsDistinct
  <2>1. doc'[a].mt > 0 => doc'[a].mt # doc'[b].mt
    BY <1>2 DEF RowsDistinct
  <2>2. CASE a = i
    BY <1>2, <1>7, <1>8, <2>1, <2>2
  <2>3. CASE b = i
    BY <1>2, <1>7, <1>8, <2>1, <2>3
  <2>4. CASE a # i /\ b # i
    BY <1>2, <2>1, <2>4 DEF RowsDistinct
  <2> QED
    BY <2>2, <2>3, <2>4
<1>5. DocsMirrored'
  <2> SUFFICES ASSUME NEW j \in Issues, 0 < ev'[j].mt, ev'[j].mt <= cursor'["githubdocs"]
               PROVE  doc'[j].ver = ev'[j].ver
    BY DEF DocsMirrored
  <2>1. ev'[i].mt > cursor'["githubdocs"]
    BY <1>2, <1>8
  <2>2. j # i
    BY <2>1, <1>2, <1>8
  <2>3. ev'[j] = ev[j] /\ cursor' = cursor /\ doc' = doc
    BY <1>2, <2>2
  <2> QED
    BY <2>3 DEF DocsMirrored
<1>6. DocsCursorAtPos' /\ BatchCovers' /\ VectorsCurrent'
  <2>1. DocsCursorAtPos'
    BY <1>2 DEF DocsCursorAtPos
  <2>2. BatchCovers'
    BY <1>2 DEF BatchCovers, EmbedPCs
  <2>3. VectorsCurrent'
    BY <1>2 DEF VectorsCurrent
  <2> QED
    BY <2>1, <2>2, <2>3
<1> QED
  BY <1>1, <1>3, <1>4, <1>5, <1>6

LEMMA MirrorDoneCorpus == CorpusInv /\ MirrorDone => CorpusInv'
<1> SUFFICES ASSUME CorpusInv, MirrorDone PROVE CorpusInv'
  OBVIOUS
<1> USE DEF CorpusInv
<1>1. TypeOK'
  BY MirrorDoneType
<1>2. pc' = "githubdocs" /\ pos' = cursor["githubdocs"]
      /\ UNCHANGED <<clock, ev, doc, vec, cursor, batch, batchLast>>
  BY DEF MirrorDone, Recent
<1>3. PipeClocked' /\ DocsCursorAtPos'
  BY <1>2 DEF PipeClocked, DocsCursorAtPos, Watchers
<1>4. RowsDistinct' /\ BatchCovers' /\ DocsMirrored' /\ VectorsCurrent'
  BY <1>2 DEF RowsDistinct, BatchCovers, EmbedPCs, DocsMirrored, VectorsCurrent
<1> QED
  BY <1>1, <1>3, <1>4

(* githubdocs reads the first row past its cursor, adds its text to the  *)
(* corpus, and marks the watcher at that row.                             *)
LEMMA GithubdocsStepCorpus == CorpusInv /\ GithubdocsStep => CorpusInv'
<1> SUFFICES ASSUME CorpusInv, GithubdocsStep PROVE CorpusInv'
  OBVIOUS
<1> USE DEF CorpusInv
<1>1. TypeOK'
  BY GithubdocsStepType
<1>2. PICK i \in Issues : /\ First(ev, i, pos)
                          /\ pos' = ev[i].mt
                          /\ Add(i, ev[i].ver)
                          /\ MarkOld("githubdocs", ev[i].mt)
  BY DEF GithubdocsStep
<1>3. /\ pc = "githubdocs" /\ pc' = "githubdocs" /\ ev' = ev /\ vec' = vec
      /\ batch' = batch /\ batchLast' = batchLast
  BY DEF GithubdocsStep
<1>4. /\ pos = cursor["githubdocs"] /\ pos \in Nat /\ clock \in Nat
      /\ \A j \in Issues : /\ ev[j].mt \in Nat /\ ev[j].mt <= clock
                           /\ doc[j].mt \in Nat /\ doc[j].mt <= clock
      /\ \A w \in Watchers : cursor[w] \in Nat /\ cursor[w] <= clock
  <2>1. pos = cursor["githubdocs"]
    BY <1>3 DEF DocsCursorAtPos
  <2>2. pos \in Nat /\ clock \in Nat
    BY DEF TypeOK
  <2>3. \A j \in Issues : /\ ev[j].mt \in Nat /\ ev[j].mt <= clock
                           /\ doc[j].mt \in Nat /\ doc[j].mt <= clock
    BY DEF TypeOK, PipeClocked, EventRow, DocRow
  <2>4. \A w \in Watchers : cursor[w] \in Nat /\ cursor[w] <= clock
    BY DEF TypeOK, PipeClocked
  <2> QED
    BY <2>1, <2>2, <2>3, <2>4
<1>5. ev[i].mt > pos /\ ev[i].ver \in 0..MaxVer /\ ev[i].mt \in 0..MaxTime
  BY <1>2 DEF First, After, TypeOK, EventRow
<1>6. /\ cursor'["githubdocs"] = ev[i].mt
      /\ cursor'["embeddocs"] = cursor["embeddocs"]
      /\ cursor'["related"] = cursor["related"]
  BY <1>2, <1>4, <1>5, MarkOldType DEF Watchers
<1>7. \/ doc' = doc /\ clock' = clock
      \/ /\ clock' = clock + 1
         /\ doc' = [doc EXCEPT ![i] = [mt |-> clock', ver |-> ev[i].ver]]
  BY <1>2, <1>5, AddType
<1>8. doc'[i].ver = ev[i].ver
  <2>1. CASE doc[i].mt # 0 /\ doc[i].ver = ev[i].ver
    BY <1>2, <2>1 DEF Add
  <2>2. CASE ~(doc[i].mt # 0 /\ doc[i].ver = ev[i].ver)
    BY <1>2, <2>2 DEF Add, TypeOK
  <2> QED
    BY <2>1, <2>2
<1>9. \A j \in Issues \ {i} : doc'[j] = doc[j]
  BY <1>7 DEF TypeOK
<1>10. /\ clock <= clock' /\ clock' \in Nat
       /\ \/ doc'[i] = doc[i]
          \/ doc'[i].mt = clock' /\ clock' = clock + 1
  BY <1>4, <1>7 DEF TypeOK
<1>11. PipeClocked'
  <2>1. \A j \in Issues : ev'[j].mt <= clock'
    BY <1>3, <1>4, <1>10
  <2>2. \A j \in Issues : doc'[j].mt <= clock'
    BY <1>4, <1>9, <1>10
  <2>3. \A w \in Watchers : cursor'[w] <= clock'
    BY <1>4, <1>6, <1>10 DEF Watchers
  <2>4. pos' <= clock'
    BY <1>2, <1>4, <1>10
  <2> QED
    BY <2>1, <2>2, <2>3, <2>4 DEF PipeClocked
<1>12. RowsDistinct'
  <2> SUFFICES ASSUME NEW a \in Issues, NEW b \in Issues, a # b
               PROVE  /\ (ev'[a].mt > 0 => ev'[a].mt # ev'[b].mt)
                      /\ (doc'[a].mt > 0 => doc'[a].mt # doc'[b].mt)
    BY DEF RowsDistinct
  <2>1. ev'[a].mt > 0 => ev'[a].mt # ev'[b].mt
    BY <1>3 DEF RowsDistinct
  <2>2. CASE a # i /\ b # i
    BY <1>9, <2>1, <2>2 DEF RowsDistinct
  <2>3. CASE a = i
    BY <1>4, <1>9, <1>10, <2>1, <2>3 DEF RowsDistinct
  <2>4. CASE b = i
    BY <1>4, <1>9, <1>10, <2>1, <2>4 DEF RowsDistinct
  <2> QED
    BY <2>2, <2>3, <2>4
<1>13. DocsCursorAtPos' /\ BatchCovers'
  BY <1>2, <1>3, <1>6 DEF DocsCursorAtPos, BatchCovers, EmbedPCs
<1>14. DocsMirrored'
  <2> SUFFICES ASSUME NEW j \in Issues, 0 < ev'[j].mt, ev'[j].mt <= cursor'["githubdocs"]
               PROVE  doc'[j].ver = ev'[j].ver
    BY DEF DocsMirrored
  <2>1. CASE j = i
    BY <1>3, <1>8, <2>1
  <2>2. CASE j # i /\ ev[j].mt <= pos
    BY <1>3, <1>4, <1>9, <2>2 DEF DocsMirrored
  <2>3. CASE j # i /\ pos < ev[j].mt
    <3>a. ev[j].mt <= ev[i].mt
      BY <1>3, <1>6
    <3>b. \A a, b \in Issues : a # b /\ ev[a].mt > 0 => ev[a].mt # ev[b].mt
      BY DEF RowsDistinct
    <3>c. j = i
      BY <1>2, <1>4, <2>3, <3>a, <3>b, FirstOnly
    <3> QED
      BY <3>c, <2>3
  <2> QED
    BY <1>3, <1>4, <2>1, <2>2, <2>3
<1>15. VectorsCurrent'
  <2> SUFFICES ASSUME NEW j \in Issues, 0 < doc'[j].mt, doc'[j].mt <= cursor'["embeddocs"]
               PROVE  vec'[j] = doc'[j].ver
    BY DEF VectorsCurrent
  <2>1. cursor["embeddocs"] <= clock
    BY <1>4 DEF Watchers
  <2>2. doc'[j] = doc[j]
    <3>1. CASE j # i
      BY <1>9, <3>1
    <3>2. CASE j = i
      <4>1. doc'[i].mt <= clock
        <5>1. doc'[i].mt \in Nat /\ cursor["embeddocs"] \in Nat
          BY <1>1, <1>4 DEF TypeOK, DocRow, Watchers
        <5> QED
          BY <1>4, <1>6, <2>1, <3>2, <5>1
      <4> QED
        BY <1>4, <1>10, <3>2, <4>1
    <3> QED
      BY <3>1, <3>2
  <2> QED
    BY <1>3, <1>6, <2>2 DEF VectorsCurrent
<1> QED
  BY <1>1, <1>11, <1>12, <1>13, <1>14, <1>15

(* The steps outside githubdocs and embeddocs: they leave the corpus,    *)
(* the vectors and the first two cursors alone, and move only Run's      *)
(* cursor and pos, never past the clock.                                  *)
LEMMA QuietCorpus ==
    ASSUME CorpusInv, TypeOK',
           clock' = clock, ev' = ev, doc' = doc, vec' = vec,
           cursor'["githubdocs"] = cursor["githubdocs"],
           cursor'["embeddocs"] = cursor["embeddocs"],
           cursor'["related"] <= clock, pos' <= clock,
           pc' \notin EmbedPCs \cup {"githubdocs"}
    PROVE  CorpusInv'
<1> USE DEF CorpusInv
<1>1. PipeClocked'
  <2>1. \A w \in Watchers : cursor[w] <= clock /\ cursor[w] \in Nat /\ cursor'[w] \in Nat
    BY DEF PipeClocked, TypeOK
  <2>2. \A w \in Watchers : cursor'[w] <= clock'
    BY <2>1 DEF Watchers
  <2> QED
    BY <2>2 DEF PipeClocked
<1>2. RowsDistinct' /\ DocsMirrored' /\ VectorsCurrent'
  BY DEF RowsDistinct, DocsMirrored, VectorsCurrent
<1>3. DocsCursorAtPos' /\ BatchCovers'
  BY DEF DocsCursorAtPos, BatchCovers
<1> QED
  BY <1>1, <1>2, <1>3

(* githubdocs ends; embeddocs starts at its cursor with an empty batch.  *)
LEMMA GithubdocsEndCorpus == CorpusInv /\ GithubdocsEnd => CorpusInv'
<1> SUFFICES ASSUME CorpusInv, GithubdocsEnd PROVE CorpusInv'
  OBVIOUS
<1> USE DEF CorpusInv
<1>1. TypeOK'
  BY GithubdocsEndType
<1>2. /\ pc' = "embeddocs" /\ pos' = cursor["embeddocs"] /\ batch' = <<>>
      /\ UNCHANGED <<clock, ev, doc, vec, cursor>>
  BY DEF GithubdocsEnd, Recent
<1>3. cursor["embeddocs"] <= clock
  BY DEF PipeClocked, Watchers
<1>4. PipeClocked'
  BY <1>2, <1>3 DEF PipeClocked
<1>5. RowsDistinct' /\ DocsMirrored' /\ VectorsCurrent' /\ DocsCursorAtPos'
  BY <1>2 DEF RowsDistinct, DocsMirrored, VectorsCurrent, DocsCursorAtPos
<1>6. BatchCovers'
  <2>1. \A d \in Issues : ~(cursor["embeddocs"] < doc[d].mt /\ doc[d].mt <= cursor["embeddocs"])
    BY DEF TypeOK, DocRow, Watchers
  <2>2. cursor["embeddocs"] \in Nat
    BY DEF TypeOK, Watchers
  <2> QED
    BY <1>2, <2>1, <2>2 DEF BatchCovers, EmbedPCs
<1> QED
  BY <1>1, <1>4, <1>5, <1>6

(* embeddocs reads the first doc past pos into the batch.                 *)
LEMMA EmbedReadCorpus == CorpusInv /\ EmbedRead => CorpusInv'
<1> SUFFICES ASSUME CorpusInv, EmbedRead PROVE CorpusInv'
  OBVIOUS
<1> USE DEF CorpusInv
<1>1. TypeOK'
  BY EmbedReadType
<1>2. PICK d \in Issues : /\ First(doc, d, pos)
                          /\ batch' = Append(batch, <<d, doc[d].ver>>)
                          /\ batchLast' = doc[d].mt
                          /\ pos' = doc[d].mt
                          /\ pc' = IF Len(batch') >= BatchSize THEN "flush" ELSE "embeddocs"
  BY DEF EmbedRead
<1>3. pc = "embeddocs" /\ UNCHANGED <<clock, ev, doc, vec, cursor>>
  BY DEF EmbedRead
<1>4. /\ pos \in Nat /\ clock \in Nat /\ doc[d].mt \in Nat /\ doc[d].mt <= clock
      /\ cursor["embeddocs"] \in Nat /\ cursor["embeddocs"] <= pos
      /\ pos < doc[d].mt
      /\ batch \in Seq(Issues \X (0..MaxVer))
  BY <1>2, <1>3 DEF TypeOK, PipeClocked, DocRow, BatchCovers, EmbedPCs, First, After, Watchers
<1>5. pc' \in EmbedPCs /\ pc' # "githubdocs"
  BY <1>2 DEF EmbedPCs
<1>6. PipeClocked'
  BY <1>2, <1>3, <1>4 DEF PipeClocked
<1>7. RowsDistinct' /\ DocsMirrored' /\ VectorsCurrent' /\ DocsCursorAtPos'
  BY <1>3, <1>5 DEF RowsDistinct, DocsMirrored, VectorsCurrent, DocsCursorAtPos
<1>8. /\ Len(batch') = Len(batch) + 1
      /\ \A n \in 1..Len(batch) : batch'[n] = batch[n]
      /\ batch'[Len(batch) + 1] = <<d, doc[d].ver>>
  BY <1>2, <1>4
<1>9. BatchCovers'
  <2>1. cursor'["embeddocs"] <= pos'
    BY <1>3, <1>4, <1>2
  <2>2. \A n \in 1..Len(batch') : batch'[n][2] = doc'[batch'[n][1]].ver
    <3>1. \A n \in 1..Len(batch) : batch[n][2] = doc[batch[n][1]].ver
      BY <1>3 DEF BatchCovers, EmbedPCs
    <3> SUFFICES ASSUME NEW n \in 1..Len(batch') PROVE batch'[n][2] = doc'[batch'[n][1]].ver
      OBVIOUS
    <3>2. CASE n \in 1..Len(batch)
      BY <1>3, <1>8, <3>1, <3>2
    <3>3. CASE n = Len(batch) + 1
      BY <1>3, <1>8, <3>3
    <3> QED
      BY <1>4, <1>8, <3>2, <3>3
  <2>3. \A e \in Issues : cursor'["embeddocs"] < doc'[e].mt /\ doc'[e].mt <= pos' => InBatch(e)'
    <3> SUFFICES ASSUME NEW e \in Issues, cursor["embeddocs"] < doc[e].mt, doc[e].mt <= doc[d].mt
                 PROVE  InBatch(e)'
      BY <1>2, <1>3
    <3>1. CASE doc[e].mt <= pos
      <4>1. InBatch(e)
        BY <1>3, <3>1 DEF BatchCovers, EmbedPCs
      <4>2. PICK n \in 1..Len(batch) : batch[n][1] = e
        BY <4>1 DEF InBatch
      <4> QED
        BY <1>4, <1>8, <4>2 DEF InBatch
    <3>2. CASE pos < doc[e].mt
      <4>1. \A a, b \in Issues : a # b /\ doc[a].mt > 0 => doc[a].mt # doc[b].mt
        BY DEF RowsDistinct
      <4>2. \A j \in Issues : doc[j].mt \in Nat
        BY DEF TypeOK, DocRow
      <4>3. e = d
        BY <1>2, <1>4, <3>2, <4>1, <4>2, FirstOnly
      <4> QED
        BY <1>4, <1>8, <4>3 DEF InBatch
    <3>3. doc[e].mt \in Nat
      BY DEF TypeOK, DocRow
    <3> QED
      BY <1>4, <3>1, <3>2, <3>3
  <2>4. Len(batch') > 0 /\ batchLast' = pos'
    BY <1>2, <1>8
  <2> QED
    BY <2>1, <2>2, <2>3, <2>4 DEF BatchCovers
<1> QED
  BY <1>1, <1>6, <1>7, <1>9

(* embeddocs' loop ends: a partial batch goes to the final flush with    *)
(* pos kept; otherwise Run starts.                                        *)
LEMMA EmbedEndCorpus == CorpusInv /\ EmbedEnd => CorpusInv'
<1> SUFFICES ASSUME CorpusInv, EmbedEnd PROVE CorpusInv'
  OBVIOUS
<1> USE DEF CorpusInv
<1>1. TypeOK'
  BY EmbedEndType
<1>2. pc = "embeddocs" /\ UNCHANGED <<clock, ev, doc, vec, cursor, batch, batchLast>>
  BY DEF EmbedEnd
<1>3. CASE Len(batch) > 0
  <2>1. pc' = "flushFinal" /\ pos' = pos
    BY <1>3 DEF EmbedEnd
  <2>2. PipeClocked' /\ RowsDistinct' /\ DocsMirrored' /\ VectorsCurrent' /\ DocsCursorAtPos'
    BY <1>2, <2>1 DEF PipeClocked, RowsDistinct, DocsMirrored, VectorsCurrent, DocsCursorAtPos
  <2>3. BatchCovers'
    BY <1>2, <1>3, <2>1 DEF BatchCovers, EmbedPCs, InBatch
  <2> QED
    BY <1>1, <2>2, <2>3
<1>4. CASE ~(Len(batch) > 0)
  <2>1. pc' = "related" /\ pos' = cursor["related"]
    BY <1>4 DEF EmbedEnd, Recent
  <2>2. cursor["related"] <= clock
    BY DEF PipeClocked, Watchers
  <2> QED
    BY <1>1, <1>2, <2>1, <2>2, QuietCorpus DEF EmbedPCs
<1> QED
  BY <1>3, <1>4

(* A flush that does not clear the batch (EmbedDocs failed or answered   *)
(* short) leaves the cursor and the batch as they were, whatever vectors *)
(* it wrote.                                                              *)
LEMMA FlushFailCorpus ==
    ASSUME CorpusInv, TypeOK', VectorsCurrent', pc \in {"flush", "flushFinal"},
           UNCHANGED <<clock, ev, doc, cursor, batch, batchLast>>, AfterFlush(FALSE)
    PROVE  CorpusInv'
<1> USE DEF CorpusInv
<1>1. /\ pc = "flushFinal" => pc' = "related" /\ pos' = cursor["related"]
      /\ pc = "flush" => pos' = pos /\ pc' = "flushFinal"
  BY AfterFlushType
<1>2. CASE pc = "flushFinal"
  <2>1. cursor["related"] <= clock
    BY DEF PipeClocked, Watchers
  <2>2. PipeClocked' /\ RowsDistinct' /\ DocsMirrored'
    BY <1>1, <1>2, <2>1 DEF PipeClocked, RowsDistinct, DocsMirrored
  <2>3. DocsCursorAtPos' /\ BatchCovers'
    BY <1>1, <1>2 DEF DocsCursorAtPos, BatchCovers, EmbedPCs
  <2> QED
    BY <2>2, <2>3
<1>3. CASE pc = "flush"
  <2>1. PipeClocked' /\ RowsDistinct' /\ DocsMirrored' /\ DocsCursorAtPos'
    BY <1>1, <1>3 DEF PipeClocked, RowsDistinct, DocsMirrored, DocsCursorAtPos
  <2>2. BatchCovers'
    BY <1>1, <1>3 DEF BatchCovers, EmbedPCs, InBatch
  <2> QED
    BY <2>1, <2>2
<1> QED
  BY <1>2, <1>3

(* flush: a full answer writes a vector for every doc of the batch, so  *)
(* the watcher may move to the batch's last doc; any other answer keeps  *)
(* the watcher and the batch.                                             *)
LEMMA EmbedFlushCorpus == CorpusInv /\ EmbedFlush => CorpusInv'
<1> SUFFICES ASSUME CorpusInv, EmbedFlush PROVE CorpusInv'
  OBVIOUS
<1> USE DEF CorpusInv
<1>1. TypeOK'
  BY EmbedFlushType
<1>2. pc \in {"flush", "flushFinal"} /\ UNCHANGED <<clock, ev, doc, batchLast>>
  BY DEF EmbedFlush
<1>3. /\ Len(batch) > 0 /\ batchLast = pos /\ cursor["embeddocs"] <= pos
      /\ \A n \in 1..Len(batch) : batch[n][2] = doc[batch[n][1]].ver
      /\ \A d \in Issues : cursor["embeddocs"] < doc[d].mt /\ doc[d].mt <= pos => InBatch(d)
  BY <1>2 DEF BatchCovers, EmbedPCs
<1>4. /\ pos \in Nat /\ clock \in Nat /\ pos <= clock
      /\ \A w \in Watchers : cursor[w] \in Nat /\ cursor[w] <= clock
      /\ \A d \in Issues : doc[d].mt \in Nat
  BY DEF TypeOK, PipeClocked, DocRow
<1>5. CASE /\ SetVectors(Len(batch))
           /\ MarkOld("embeddocs", batchLast)
           /\ batch' = <<>>
           /\ AfterFlush(TRUE)
  <2>1. /\ cursor'["embeddocs"] = pos
        /\ cursor'["githubdocs"] = cursor["githubdocs"]
        /\ cursor'["related"] = cursor["related"]
    <3>1. batchLast \in 0..MaxTime /\ "embeddocs" \in Watchers
      BY DEF TypeOK, Watchers
    <3>2. /\ cursor'["embeddocs"] = IF batchLast > cursor["embeddocs"] THEN batchLast
                                                                    ELSE cursor["embeddocs"]
          /\ \A u \in Watchers \ {"embeddocs"} : cursor'[u] = cursor[u]
      BY <1>5, <3>1, MarkOldType
    <3> QED
      BY <1>3, <1>4, <3>2 DEF Watchers
  <2>2. /\ pc = "flushFinal" => pc' = "related" /\ pos' = cursor["related"]
        /\ pc = "flush" => pos' = pos /\ pc' = "embeddocs"
    BY <1>2, <1>5, AfterFlushType
  <2>3. /\ \A d \in Issues : InBatch(d) => vec'[d] = doc[d].ver
        /\ \A d \in Issues : ~InBatch(d) => vec'[d] = vec[d]
    <3>1. Len(batch) \in 0..Len(batch)
      BY DEF TypeOK
    <3>2. /\ \A d \in Issues : (\E n \in 1..Len(batch) : batch[n][1] = d) => vec'[d] = doc[d].ver
          /\ \A d \in Issues : ~(\E n \in 1..Len(batch) : batch[n][1] = d) => vec'[d] = vec[d]
      BY <1>3, <1>5, <3>1, SetVectorsCurrent
    <3> QED
      BY <3>2 DEF InBatch
  <2>4. PipeClocked'
    <3>1. \A w \in Watchers : cursor'[w] <= clock'
      BY <1>2, <1>4, <2>1 DEF Watchers
    <3>2. pos' <= clock'
      BY <1>2, <1>4, <2>2 DEF Watchers
    <3> QED
      BY <1>2, <3>1, <3>2 DEF PipeClocked
  <2>5. RowsDistinct' /\ DocsMirrored' /\ DocsCursorAtPos'
    BY <1>2, <2>1, <2>2 DEF RowsDistinct, DocsMirrored, DocsCursorAtPos
  <2>6. VectorsCurrent'
    <3> SUFFICES ASSUME NEW d \in Issues, 0 < doc[d].mt, doc[d].mt <= pos
                 PROVE  vec'[d] = doc[d].ver
      BY <1>2, <2>1 DEF VectorsCurrent
    <3>1. CASE InBatch(d)
      BY <2>3, <3>1
    <3>2. CASE ~InBatch(d)
      <4>1. doc[d].mt <= cursor["embeddocs"]
        BY <1>3, <1>4, <3>2 DEF Watchers
      <4> QED
        BY <2>3, <3>2, <4>1 DEF VectorsCurrent
    <3> QED
      BY <3>1, <3>2
  <2>7. BatchCovers'
    <3>1. CASE pc = "flushFinal"
      BY <2>2, <3>1 DEF BatchCovers, EmbedPCs
    <3>2. CASE pc = "flush"
      <4>1. \A d \in Issues : ~(pos < doc[d].mt /\ doc[d].mt <= pos)
        BY <1>4
      <4> QED
        BY <1>2, <1>4, <1>5, <2>1, <2>2, <3>2, <4>1 DEF BatchCovers, EmbedPCs, InBatch
    <3> QED
      BY <1>2, <3>1, <3>2
  <2> QED
    BY <1>1, <2>4, <2>5, <2>6, <2>7
<1>6. CASE EmbedFaults /\ UNCHANGED <<vec, cursor, batch>> /\ AfterFlush(FALSE)
  <2>1. VectorsCurrent'
    BY <1>2, <1>6 DEF VectorsCurrent
  <2> QED
    BY <1>1, <1>2, <1>6, <2>1, FlushFailCorpus
<1>7. CASE EmbedFaults /\ \E k \in 0..Len(batch) : SetVectors(k) /\ UNCHANGED <<cursor, batch>>
                                                  /\ AfterFlush(FALSE)
  <2>1. PICK k \in 0..Len(batch) : SetVectors(k) /\ UNCHANGED <<cursor, batch>> /\ AfterFlush(FALSE)
    BY <1>7
  <2>2. /\ \A d \in Issues : (\E n \in 1..k : batch[n][1] = d) => vec'[d] = doc[d].ver
        /\ \A d \in Issues : ~(\E n \in 1..k : batch[n][1] = d) => vec'[d] = vec[d]
    BY <1>3, <2>1, SetVectorsCurrent
  <2>3. VectorsCurrent'
    BY <1>2, <2>1, <2>2 DEF VectorsCurrent
  <2> QED
    BY <1>1, <1>2, <2>1, <2>3, FlushFailCorpus
<1> QED
  BY <1>5, <1>6, <1>7 DEF EmbedFlush

(* Run considers the first row past pos: at most it marks its own        *)
(* watcher at that row.                                                   *)
LEMMA RelatedConsiderCorpus == CorpusInv /\ RelatedConsider => CorpusInv'
<1> SUFFICES ASSUME CorpusInv, RelatedConsider PROVE CorpusInv'
  OBVIOUS
<1> USE DEF CorpusInv
<1>1. TypeOK'
  BY RelatedConsiderType
<1>2. PICK i \in Issues :
        /\ First(ev, i, pos)
        /\ pos' = ev[i].mt
        /\ IF i \in Skip \/ ev[i].closed \/ i \in marked \/ vec[i] = 0
           THEN UNCHANGED <<cursor, pc, cur, decided>>
           ELSE IF Results(i) = {}
           THEN /\ MarkOld("related", ev[i].mt)
                /\ decided' = [decided EXCEPT ![i] = ev[i].mt]
                /\ UNCHANGED <<pc, cur>>
           ELSE pc' = "post" /\ cur' = i /\ UNCHANGED <<cursor, decided>>
  BY DEF RelatedConsider
<1>3. pc = "related" /\ UNCHANGED <<clock, ev, doc, vec>>
  BY DEF RelatedConsider
<1>4. /\ ev[i].mt \in 0..MaxTime /\ ev[i].mt <= clock /\ clock \in Nat
      /\ cursor["related"] \in Nat /\ cursor["related"] <= clock
  BY DEF TypeOK, EventRow, PipeClocked, Watchers
<1>5. pc' \in {"related", "post"}
  BY <1>2, <1>3
<1>6. /\ cursor'["githubdocs"] = cursor["githubdocs"]
      /\ cursor'["embeddocs"] = cursor["embeddocs"]
      /\ cursor'["related"] <= clock
  <2>1. CASE ~(i \in Skip \/ ev[i].closed \/ i \in marked \/ vec[i] = 0) /\ Results(i) = {}
    <3>1. MarkOld("related", ev[i].mt)
      BY <1>2, <2>1
    <3>2. /\ cursor'["related"] = IF ev[i].mt > cursor["related"] THEN ev[i].mt
                                                                 ELSE cursor["related"]
          /\ \A u \in Watchers \ {"related"} : cursor'[u] = cursor[u]
      BY <1>4, <3>1, MarkOldType DEF Watchers
    <3> QED
      BY <1>4, <3>2 DEF Watchers
  <2>2. CASE ~(~(i \in Skip \/ ev[i].closed \/ i \in marked \/ vec[i] = 0) /\ Results(i) = {})
    BY <1>2, <1>4, <2>2
  <2> QED
    BY <2>1, <2>2
<1> QED
  BY <1>1, <1>2, <1>3, <1>4, <1>5, <1>6, QuietCorpus DEF EmbedPCs

(* PostIssueComment changes the tracker only.                             *)
LEMMA RelatedPostCorpus == CorpusInv /\ RelatedPost => CorpusInv'
<1> SUFFICES ASSUME CorpusInv, RelatedPost PROVE CorpusInv'
  OBVIOUS
<1>1. TypeOK'
  BY RelatedPostType DEF CorpusInv
<1>2. pc' \in {"record", "related"} /\ pos <= clock /\ cursor["related"] <= clock
  BY DEF RelatedPost, CorpusInv, PipeClocked, Watchers
<1> QED
  BY <1>1, <1>2, QuietCorpus DEF RelatedPost, EmbedPCs

(* Run records the post and marks its watcher at pos.                     *)
LEMMA RelatedRecordCorpus == CorpusInv /\ RelatedRecord => CorpusInv'
<1> SUFFICES ASSUME CorpusInv, RelatedRecord PROVE CorpusInv'
  OBVIOUS
<1> USE DEF CorpusInv
<1>1. TypeOK'
  BY RelatedRecordType
<1>2. /\ pos \in 0..MaxTime /\ pos <= clock /\ clock \in Nat
      /\ cursor["related"] \in Nat /\ cursor["related"] <= clock
  BY DEF TypeOK, PipeClocked, Watchers
<1>3. /\ cursor'["related"] = IF pos > cursor["related"] THEN pos ELSE cursor["related"]
      /\ \A u \in Watchers \ {"related"} : cursor'[u] = cursor[u]
  BY <1>2, MarkOldType DEF RelatedRecord, Watchers
<1>4. /\ cursor'["githubdocs"] = cursor["githubdocs"]
      /\ cursor'["embeddocs"] = cursor["embeddocs"]
      /\ cursor'["related"] <= clock
  BY <1>2, <1>3 DEF Watchers
<1> QED
  BY <1>1, <1>2, <1>4, QuietCorpus DEF RelatedRecord, EmbedPCs

(* Run's iteration ends; the main loop goes back to gh.Sync.              *)
LEMMA RelatedEndCorpus == CorpusInv /\ RelatedEnd => CorpusInv'
<1> SUFFICES ASSUME CorpusInv, RelatedEnd PROVE CorpusInv'
  OBVIOUS
<1>1. TypeOK'
  BY RelatedEndType DEF CorpusInv
<1>2. pos <= clock /\ cursor["related"] <= clock
  BY DEF CorpusInv, PipeClocked, Watchers
<1> QED
  BY <1>1, <1>2, QuietCorpus DEF RelatedEnd, EmbedPCs

(* A crash loses the batch and pos; every row and cursor survives.        *)
LEMMA CrashCorpus == CorpusInv /\ Crash => CorpusInv'
<1> SUFFICES ASSUME CorpusInv, Crash PROVE CorpusInv'
  OBVIOUS
<1>1. TypeOK'
  BY CrashType DEF CorpusInv
<1>2. clock \in Nat /\ cursor["related"] <= clock
  BY DEF CorpusInv, TypeOK, PipeClocked, Watchers
<1> QED
  BY <1>1, <1>2, QuietCorpus DEF Crash, EmbedPCs

(* The tracker changes only GitHub's side.                                *)
LEMMA TrackerCorpus == CorpusInv /\ Tracker => CorpusInv'
<1> SUFFICES ASSUME CorpusInv, Tracker PROVE CorpusInv'
  OBVIOUS
<1>1. TypeOK'
  BY TrackerType DEF CorpusInv
<1>2. UNCHANGED <<clock, ev, doc, vec, cursor, pc, pos, batch, batchLast>>
  BY DEF Tracker, CreateIssue, EditIssue, CloseIssue, localVars
<1> QED
  BY <1>1, <1>2, CorpusFrame

LEMMA NextCorpus == CorpusInv /\ [Next]_vars => CorpusInv'
<1> SUFFICES ASSUME CorpusInv, [Next]_vars PROVE CorpusInv'
  OBVIOUS
<1>1. CASE UNCHANGED vars
  <2>1. TypeOK'
    BY <1>1 DEF CorpusInv, TypeOK, vars
  <2> QED
    BY <1>1, <2>1, CorpusFrame DEF vars
<1>2. CASE \E i \in Issues : MirrorWrite(i)
  BY <1>2, MirrorWriteCorpus
<1> QED
  BY <1>1, <1>2, MirrorDoneCorpus, GithubdocsStepCorpus, GithubdocsEndCorpus,
     EmbedReadCorpus, EmbedEndCorpus, EmbedFlushCorpus, RelatedConsiderCorpus,
     RelatedPostCorpus, RelatedRecordCorpus, RelatedEndCorpus, CrashCorpus, TrackerCorpus
     DEF Next, LoopStep

(* githubdocs never marks its watcher past an event row whose issue text *)
(* the docs corpus does not hold (githubdocs/sync.go:27-37 adds the doc  *)
(* before MarkOld), whatever the tracker, the crashes and the faults do. *)
THEOREM CorpusMirrored == Spec => []DocsMirrored
<1>1. CorpusInv => DocsMirrored
  BY DEF CorpusInv
<1> QED
  BY InitCorpus, NextCorpus, <1>1, PTL DEF Spec

(* embeddocs never marks its watcher past a doc whose current text has   *)
(* no vector, even when EmbedDocs fails or answers short after part of a *)
(* batch was written (docs.go:282-328).                                   *)
THEOREM VectorsKept == Spec => []VectorsCurrent
<1>1. CorpusInv => VectorsCurrent
  BY DEF CorpusInv
<1> QED
  BY InitCorpus, NextCorpus, <1>1, PTL DEF Spec

=============================================================================
