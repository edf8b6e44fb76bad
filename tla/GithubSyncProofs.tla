-------------------------- MODULE GithubSyncProofs --------------------------
(***************************************************************************)
(* Proofs about GithubSync for every value of its constants.              *)
(***************************************************************************)
EXTENDS GithubSync, TLAPS

(* TypeOK in three parts: the tracker, the database, and the locals of    *)
(* the running SyncProject (CallOK: what entering a call resets).         *)
RemoteOK ==
    /\ clock \in 1..MaxClock + 1 /\ upd \in [Items -> 0..MaxClock]
    /\ evIssue \in [Times -> 0..NIssues] /\ floor \in 0..MaxClock
DbOK ==
    /\ dbItem \in [Items -> 0..MaxClock] /\ dbEvent \subseteq Times
    /\ psync \in ProjectSyncs
CallOK ==
    /\ stage \in Stages
    /\ step \in {"none", "fetch", "item", "errApply", "finish", "applyRet"}
    /\ proj \in ProjectSyncs
    /\ bItem \in [Items -> 0..MaxClock] /\ bEvent \subseteq Times
    /\ qsince \in 0..MaxClock /\ npage \in Nat /\ pg \subseteq Entries
    /\ more \in BOOLEAN /\ etag \in ETags
    /\ firstID \in 0..MaxClock /\ firstETag \in ETags
    /\ lastID \in 0..MaxClock /\ stopped \in BOOLEAN
LocalsOK == CallOK /\ cur \in 0..NIssues /\ scan \subseteq 0..NIssues

LEMMA TypeOKParts == TypeOK <=> RemoteOK /\ DbOK /\ LocalsOK
BY DEF TypeOK, RemoteOK, DbOK, LocalsOK, CallOK

(* The feeds the tracker serves list well-formed entries, and a page is a *)
(* part of its feed (sync.go:285, 408: what c.pages yields).              *)
LEMMA ByDateFeedEntries ==
    ASSUME TypeOK, NEW api, NEW s
    PROVE  ByDateFeed(api, s) \subseteq Entries
BY DEF TypeOK, ByDateFeed, Entries, Items, Times

LEMMA EventFeedEntries ==
    ASSUME TypeOK, NEW i \in 0..NIssues
    PROVE  EventFeed(i) \subseteq Entries
BY DEF TypeOK, EventFeed, Entries, Items, Issues, Times

LEMMA PageIsPart ==
    ASSUME NEW S, NEW asc, NEW n, NEW size
    PROVE  PageOf(S, asc, n, size) \subseteq S
BY DEF PageOf

(* syncByDate's `since` pointer stays a timestamp when set to an item's   *)
(* updated_at.                                                            *)
LEMMA ConstantsType ==
    /\ NoItems \in [Items -> 0..MaxClock]
    /\ NoETag \in ETags
    /\ NewProjectSync \in ProjectSyncs
<1>1. NoETag \in ETags
  BY NIssuesAssumption DEF NoETag, ETags
<1>2. NewProjectSync \in ProjectSyncs
  BY <1>1, MaxClockAssumption, NIssuesAssumption DEF NewProjectSync, ProjectSyncs
<1>3. NoItems \in [Items -> 0..MaxClock]
  BY MaxClockAssumption DEF NoItems
<1>. QED  BY <1>1, <1>2, <1>3

LEMMA WithSinceType ==
    ASSUME NEW p \in ProjectSyncs, NEW api, NEW v \in 0..MaxClock
    PROVE  WithSince(p, api, v) \in ProjectSyncs
BY DEF WithSince, ProjectSyncs

LEMMA SinceOfType ==
    ASSUME NEW p \in ProjectSyncs, NEW api
    PROVE  SinceOf(p, api) \in 0..MaxClock
BY DEF SinceOf, ProjectSyncs

(* The locals of a call that SyncProject leaves or enters are well typed. *)
LEMMA GoIdleType ==
    ASSUME GoIdle
    PROVE  LocalsOK'
<1>1. NoETag \in ETags
  BY NIssuesAssumption DEF NoETag, ETags
<1>2. NewProjectSync \in ProjectSyncs
  BY <1>1, MaxClockAssumption, NIssuesAssumption DEF NewProjectSync, ProjectSyncs
<1>3. NoItems \in [Items -> 0..MaxClock]
  BY MaxClockAssumption DEF NoItems
<1>4. stage' \in Stages
  BY DEF GoIdle, Stages
<1>5. /\ step' \in {"none", "fetch", "item", "errApply", "finish", "applyRet"}
      /\ bEvent' \subseteq Times /\ pg' \subseteq Entries /\ scan' \subseteq 0..NIssues
      /\ more' \in BOOLEAN /\ stopped' \in BOOLEAN
  BY DEF GoIdle
<1>6. /\ qsince' \in 0..MaxClock /\ npage' \in Nat /\ firstID' \in 0..MaxClock
      /\ lastID' \in 0..MaxClock /\ cur' \in 0..NIssues
  BY MaxClockAssumption, NIssuesAssumption DEF GoIdle
<1>7. proj' \in ProjectSyncs /\ bItem' \in [Items -> 0..MaxClock]
      /\ etag' \in ETags /\ firstETag' \in ETags
  BY <1>1, <1>2, <1>3 DEF GoIdle
<1>. QED
  BY <1>4, <1>5, <1>6, <1>7 DEF LocalsOK, CallOK

LEMMA EnterType ==
    ASSUME NEW s \in Stages, NEW p \in ProjectSyncs, Enter(s, p)
    PROVE  CallOK'
<1>1. qsince' \in 0..MaxClock
  <2>1. CASE s \in ByDateStages
    BY <2>1, SinceOfType DEF Enter
  <2>2. CASE s \notin ByDateStages
    BY <2>2, MaxClockAssumption DEF Enter
  <2>. QED  BY <2>1, <2>2
<1>2. NoETag \in ETags
  BY NIssuesAssumption DEF NoETag, ETags
<1>3. NoItems \in [Items -> 0..MaxClock]
  BY MaxClockAssumption DEF NoItems
<1>4. /\ step' \in {"none", "fetch", "item", "errApply", "finish", "applyRet"}
      /\ bEvent' \subseteq Times /\ pg' \subseteq Entries
      /\ more' \in BOOLEAN /\ stopped' \in BOOLEAN /\ stage' \in Stages
  BY DEF Enter
<1>5. /\ npage' \in Nat /\ firstID' \in 0..MaxClock /\ lastID' \in 0..MaxClock
  BY MaxClockAssumption DEF Enter
<1>6. proj' \in ProjectSyncs /\ bItem' \in [Items -> 0..MaxClock]
      /\ etag' \in ETags /\ firstETag' \in ETags
  BY <1>2, <1>3 DEF Enter
<1>. QED
  BY <1>1, <1>4, <1>5, <1>6 DEF CallOK

(* b.Apply() leaves the database well typed.                              *)
LEMMA ApplyBatchType ==
    ASSUME TypeOK, ApplyBatch
    PROVE  dbItem' \in [Items -> 0..MaxClock] /\ dbEvent' \subseteq Times
BY DEF ApplyBatch, TypeOK

(* The issues with rows in the database are issue numbers.                *)
LEMMA RowIssuesType ==
    ASSUME TypeOK, NEW di \in [Items -> 0..MaxClock], NEW de \in SUBSET Times
    PROVE  RowIssues(di, de) \subseteq 0..NIssues
BY CommentIssueAssumption DEF RowIssues, IssueOf, TypeOK, Issues, Items

(* Every next call SyncProject makes after a call returns is well typed, *)
(* whatever record it stores (sync.go:180-233).                           *)
LEMMA ReturnedType ==
    ASSUME TypeOK, NEW p \in ProjectSyncs, NEW ps \in ProjectSyncs,
           stage \in ByDateStages \cup EventStages,
           dbItem' \in [Items -> 0..MaxClock], dbEvent' \subseteq Times,
           Returned(p, ps)
    PROVE  LocalsOK' /\ psync' \in ProjectSyncs
<1>. USE DEF ByDateStages, EventStages
<1>1. CASE stage = "issues"
  BY <1>1, EnterType DEF Returned, LocalsOK, TypeOK, Stages
<1>2. CASE stage = "comments" /\ p.EventID = 0
  <2>. DEFINE q == [p EXCEPT !.FullSyncActive = TRUE, !.FullSyncIssue = 0]
  <2>0. 0 \in 0..NIssues
    BY NIssuesAssumption
  <2>1. q \in ProjectSyncs
    BY <2>0 DEF ProjectSyncs
  <2>. QED  BY <1>2, <2>1, EnterType DEF Returned, LocalsOK, TypeOK, Stages
<1>3. CASE stage = "comments" /\ p.EventID # 0 /\ p.FullSyncActive
  BY <1>3, EnterType DEF Returned, LocalsOK, TypeOK, Stages
<1>4. CASE stage = "comments" /\ p.EventID # 0 /\ ~p.FullSyncActive
  BY <1>4, EnterType DEF Returned, LocalsOK, TypeOK, Stages
<1>5. CASE stage = "setLatest"
  BY <1>5, EnterType DEF Returned, LocalsOK, TypeOK, Stages
<1>6. CASE stage = "issues2"
  <2>1. scan' = RowIssues(dbItem', dbEvent') /\ cur' = cur /\ psync' = ps
    BY <1>6 DEF Returned
  <2>2. scan' \subseteq 0..NIssues
    BY <2>1, RowIssuesType
  <2>. QED  BY <1>6, <2>1, <2>2, EnterType DEF Returned, LocalsOK, TypeOK, Stages
<1>7. CASE stage = "issueEvents"
  <2>. DEFINE q == [p EXCEPT !.FullSyncIssue = cur]
  <2>1. q \in ProjectSyncs
    BY DEF ProjectSyncs, TypeOK
  <2>. QED  BY <1>7, <2>1, EnterType DEF Returned, LocalsOK, TypeOK, Stages
<1>8. CASE stage = "incremental"
  BY <1>8, GoIdleType DEF Returned
<1>. QED  BY <1>1, <1>2, <1>3, <1>4, <1>5, <1>6, <1>7, <1>8

(* The steps of syncByDate keep the state well typed.                   *)
LEMMA StageAPIType == \A st : StageAPI(st) \in APIs
BY DEF StageAPI, APIs

LEMMA SyncProjectStartType == TypeOK /\ SyncProjectStart => TypeOK'
<1>. SUFFICES ASSUME TypeOK, SyncProjectStart PROVE TypeOK'
  OBVIOUS
<1>1. "issues" \in Stages
  BY DEF Stages, ByDateStages
<1>2. CallOK'
  BY <1>1, EnterType DEF SyncProjectStart, TypeOK
<1>. QED  BY <1>2 DEF SyncProjectStart, TypeOK, CallOK, remoteVars, dbVars

LEMMA SyncByDateFetchType == TypeOK /\ SyncByDateFetch => TypeOK'
<1>. SUFFICES ASSUME TypeOK, SyncByDateFetch PROVE TypeOK'
  OBVIOUS
<1>. DEFINE api == StageAPI(stage)
            S == ByDateFeed(api, qsince)
<1>1. CASE /\ pg' = PageOf(S, TRUE, npage + 1, PerPage[api])
           /\ more' = HasNext(S, npage + 1, PerPage[api])
           /\ step' = "item"
           /\ UNCHANGED <<dbVars, stage, proj, bItem, bEvent, qsince, npage, etag,
                          firstID, firstETag, lastID, stopped, cur, scan>>
  <2>1. pg' \subseteq Entries
    BY <1>1, ByDateFeedEntries, PageIsPart
  <2>2. more' \in BOOLEAN
    BY <1>1 DEF HasNext
  <2>. QED  BY <1>1, <2>1, <2>2 DEF SyncByDateFetch, TypeOK, dbVars, remoteVars
<1>2. CASE Errors /\ psync' = proj /\ GoIdle /\ UNCHANGED <<dbItem, dbEvent>>
  <2>1. LocalsOK'
    BY <1>2, GoIdleType
  <2>. QED  BY <1>2, <2>1 DEF SyncByDateFetch, TypeOK, LocalsOK, CallOK, remoteVars
<1>. QED  BY <1>1, <1>2 DEF SyncByDateFetch

LEMMA SyncByDateItemType == TypeOK /\ SyncByDateItem => TypeOK'
<1>. SUFFICES ASSUME TypeOK, SyncByDateItem PROVE TypeOK'
  OBVIOUS
<1>1. PICK e \in pg :
        /\ \/ /\ bItem' = [bItem EXCEPT ![e[1]] = e[2]]
              /\ proj' = WithSince(proj, StageAPI(stage), e[2])
              /\ pg' = pg \ {e}
              /\ UNCHANGED <<psync, step>>
           \/ /\ BadItems
              /\ psync' = proj
              /\ step' = "errApply"
              /\ UNCHANGED <<proj, bItem, pg>>
  BY DEF SyncByDateItem
<1>2. e[1] \in Items /\ e[2] \in 1..MaxClock
  BY DEF TypeOK, Entries, Times
<1>3. WithSince(proj, StageAPI(stage), e[2]) \in ProjectSyncs
  BY <1>2, WithSinceType DEF TypeOK
<1>. QED  BY <1>1, <1>2, <1>3 DEF SyncByDateItem, TypeOK, remoteVars

LEMMA SyncByDateErrApplyType == TypeOK /\ SyncByDateErrApply => TypeOK'
BY ApplyBatchType, GoIdleType DEF SyncByDateErrApply, TypeOK, LocalsOK, CallOK, remoteVars

LEMMA SyncByDatePageDoneType == TypeOK /\ SyncByDatePageDone => TypeOK'
<1>. SUFFICES ASSUME TypeOK, SyncByDatePageDone PROVE TypeOK'
  OBVIOUS
<1>1. dbItem' \in [Items -> 0..MaxClock] /\ dbEvent' \subseteq Times
  BY ApplyBatchType DEF SyncByDatePageDone
<1>0. UNCHANGED remoteVars
  BY DEF SyncByDatePageDone
<1>2. CASE npage + 1 >= MaxPages
  <2>1. SinceOf(proj, StageAPI(stage)) \in 0..MaxClock
    BY SinceOfType DEF TypeOK
  <2>2. /\ psync' = proj /\ npage' = 0 /\ qsince' = SinceOf(proj, StageAPI(stage))
        /\ step' = "fetch" /\ bItem' = NoItems
        /\ UNCHANGED <<stage, proj, bEvent, pg, more, etag, firstID, firstETag,
                       lastID, stopped, cur, scan>>
    BY <1>2 DEF SyncByDatePageDone
  <2>. QED  BY <1>0, <1>1, <2>1, <2>2, ConstantsType DEF TypeOK, remoteVars
<1>3. CASE ~(npage + 1 >= MaxPages) /\ more
  <2>2. /\ psync' = proj /\ npage' = npage + 1 /\ step' = "fetch" /\ bItem' = NoItems
        /\ UNCHANGED <<stage, proj, bEvent, qsince, pg, more, etag, firstID,
                       firstETag, lastID, stopped, cur, scan>>
    BY <1>3 DEF SyncByDatePageDone
  <2>. QED  BY <1>0, <1>1, <2>2, ConstantsType DEF TypeOK, remoteVars
<1>4. CASE ~(npage + 1 >= MaxPages) /\ ~more
  <2>1. Returned(proj, proj)
    BY <1>4 DEF SyncByDatePageDone
  <2>2. stage \in ByDateStages \cup EventStages
    BY DEF SyncByDatePageDone
  <2>3. LocalsOK' /\ psync' \in ProjectSyncs
    BY <1>1, <2>1, <2>2, ReturnedType DEF TypeOK
  <2>. QED  BY <1>0, <1>1, <2>3 DEF TypeOK, LocalsOK, CallOK, remoteVars
<1>. QED  BY <1>2, <1>3, <1>4

(* The steps of syncIssueEvents keep the state well typed.              *)
LEMMA EvIssueType == TypeOK => EvIssue \in 0..NIssues
BY NIssuesAssumption DEF EvIssue, TypeOK

LEMMA SyncIssueEventsFetchType == TypeOK /\ SyncIssueEventsFetch => TypeOK'
<1>. SUFFICES ASSUME TypeOK, SyncIssueEventsFetch PROVE TypeOK'
  OBVIOUS
<1>. DEFINE S == EventFeed(EvIssue)
            page == PageOf(S, FALSE, npage + 1, PerPage["/issues/events"])
<1>0. UNCHANGED remoteVars /\ stage \in ByDateStages \cup EventStages
  BY DEF SyncIssueEventsFetch, EventStages
<1>1. CASE /\ proj.EventETag # NoETag /\ proj.EventETag = ETagOf(EvIssue, page)
           /\ ApplyBatch /\ Returned(proj, psync)
  <2>1. dbItem' \in [Items -> 0..MaxClock] /\ dbEvent' \subseteq Times
    BY <1>1, ApplyBatchType
  <2>2. LocalsOK' /\ psync' \in ProjectSyncs
    BY <1>0, <1>1, <2>1, ReturnedType DEF TypeOK
  <2>. QED  BY <1>0, <2>1, <2>2 DEF TypeOK, LocalsOK, CallOK, remoteVars
<1>2. CASE Errors /\ ApplyBatch /\ GoIdle /\ UNCHANGED psync
  <2>1. dbItem' \in [Items -> 0..MaxClock] /\ dbEvent' \subseteq Times
    BY <1>2, ApplyBatchType
  <2>2. LocalsOK'
    BY <1>2, GoIdleType
  <2>. QED  BY <1>0, <1>2, <2>1, <2>2 DEF TypeOK, LocalsOK, CallOK, remoteVars
<1>3. CASE /\ ~(proj.EventETag # NoETag /\ proj.EventETag = ETagOf(EvIssue, page))
           /\ pg' = page
           /\ more' = HasNext(S, npage + 1, PerPage["/issues/events"])
           /\ etag' = ETagOf(EvIssue, page)
           /\ npage' = npage + 1
           /\ step' = "item"
           /\ UNCHANGED <<dbVars, stage, proj, bItem, bEvent, qsince, firstID,
                          firstETag, lastID, stopped, cur, scan>>
  <2>1. page \subseteq Entries
    BY EvIssueType, EventFeedEntries, PageIsPart
  <2>2. etag' \in ETags
    BY <1>3, <2>1, EvIssueType DEF ETagOf, ETags
  <2>3. more' \in BOOLEAN
    BY <1>3 DEF HasNext
  <2>4. pg' \subseteq Entries
    BY <1>3, <2>1
  <2>6. npage' \in Nat /\ step' = "item"
    BY <1>3 DEF TypeOK
  <2>5. UNCHANGED <<dbItem, dbEvent, psync, stage, proj, bItem, bEvent, qsince, firstID,
                    firstETag, lastID, stopped, cur, scan>>
    BY <1>3 DEF dbVars
  <2>. QED  BY <1>0, <2>2, <2>3, <2>4, <2>5, <2>6 DEF TypeOK, remoteVars
<1>. QED  BY <1>1, <1>2, <1>3 DEF SyncIssueEventsFetch

LEMMA SyncIssueEventsItemType == TypeOK /\ SyncIssueEventsItem => TypeOK'
<1>. SUFFICES ASSUME TypeOK, SyncIssueEventsItem PROVE TypeOK'
  OBVIOUS
<1>0. UNCHANGED remoteVars
  BY DEF SyncIssueEventsItem
<1>1. PICK e \in pg :
        \/ BadItems /\ ApplyBatch /\ GoIdle /\ UNCHANGED psync
        \/ /\ firstID' = IF firstID = 0 THEN e[2] ELSE firstID
           /\ firstETag' = IF firstID = 0 THEN etag ELSE firstETag
           /\ lastID' = e[2]
           /\ IF EvIssue = 0 /\ (OnlySetLatest \/ (proj.EventID # 0 /\ e[2] <= proj.EventID))
                THEN stopped' = TRUE /\ step' = "finish" /\ UNCHANGED <<bEvent, pg>>
                ELSE bEvent' = bEvent \cup {e[2]} /\ pg' = pg \ {e}
                     /\ UNCHANGED <<stopped, step>>
           /\ UNCHANGED <<dbVars, stage, proj, bItem, qsince, npage, more, etag, cur, scan>>
  BY DEF SyncIssueEventsItem
<1>2. e[2] \in 1..MaxClock
  BY DEF TypeOK, Entries, Times
<1>3. CASE BadItems /\ ApplyBatch /\ GoIdle /\ UNCHANGED psync
  <2>1. dbItem' \in [Items -> 0..MaxClock] /\ dbEvent' \subseteq Times
    BY <1>3, ApplyBatchType
  <2>2. LocalsOK'
    BY <1>3, GoIdleType
  <2>. QED  BY <1>0, <1>3, <2>1, <2>2 DEF TypeOK, LocalsOK, CallOK, remoteVars
<1>4. CASE ~(BadItems /\ ApplyBatch /\ GoIdle /\ UNCHANGED psync)
  <2>1. UNCHANGED <<dbItem, dbEvent, psync, stage, proj, bItem, qsince, npage, more,
                    etag, cur, scan>>
    BY <1>1, <1>4 DEF dbVars
  <2>2. firstID' \in 0..MaxClock /\ firstETag' \in ETags /\ lastID' \in 0..MaxClock
    BY <1>1, <1>2, <1>4 DEF TypeOK
  <2>3. /\ stopped' \in BOOLEAN /\ bEvent' \subseteq Times /\ pg' \subseteq Entries
        /\ step' \in {"none", "fetch", "item", "errApply", "finish", "applyRet"}
    BY <1>1, <1>2, <1>4 DEF TypeOK, Times
  <2>. QED  BY <1>0, <2>1, <2>2, <2>3 DEF TypeOK, remoteVars
<1>. QED  BY <1>3, <1>4

LEMMA SyncIssueEventsPageDoneType == TypeOK /\ SyncIssueEventsPageDone => TypeOK'
BY DEF SyncIssueEventsPageDone, TypeOK, remoteVars, dbVars

LEMMA SyncIssueEventsFinishType == TypeOK /\ SyncIssueEventsFinish => TypeOK'
<1>. SUFFICES ASSUME TypeOK, SyncIssueEventsFinish PROVE TypeOK'
  OBVIOUS
<1>0. UNCHANGED remoteVars /\ stage \in ByDateStages \cup EventStages
  BY DEF SyncIssueEventsFinish, EventStages
<1>1. CASE EvIssue = 0 /\ lastID # 0 /\ ~stopped /\ ApplyBatch /\ GoIdle /\ UNCHANGED psync
  <2>1. dbItem' \in [Items -> 0..MaxClock] /\ dbEvent' \subseteq Times
    BY <1>1, ApplyBatchType
  <2>2. LocalsOK'
    BY <1>1, GoIdleType
  <2>. QED  BY <1>0, <1>1, <2>1, <2>2 DEF TypeOK, LocalsOK, CallOK, remoteVars
<1>2. CASE /\ EvIssue = 0 /\ ~(lastID # 0 /\ ~stopped)
           /\ LET q == [proj EXCEPT !.EventID = firstID, !.EventETag = firstETag]
              IN  psync' = q /\ proj' = q
           /\ step' = "applyRet"
           /\ UNCHANGED <<dbItem, dbEvent, stage, bItem, bEvent, qsince, npage, pg, more,
                          etag, firstID, firstETag, lastID, stopped, cur, scan>>
  <2>1. [proj EXCEPT !.EventID = firstID, !.EventETag = firstETag] \in ProjectSyncs
    BY DEF TypeOK, ProjectSyncs
  <2>. QED  BY <1>0, <1>2, <2>1 DEF TypeOK, remoteVars
<1>3. CASE EvIssue # 0 /\ ApplyBatch /\ Returned(proj, psync)
  <2>1. dbItem' \in [Items -> 0..MaxClock] /\ dbEvent' \subseteq Times
    BY <1>3, ApplyBatchType
  <2>2. LocalsOK' /\ psync' \in ProjectSyncs
    BY <1>0, <1>3, <2>1, ReturnedType DEF TypeOK
  <2>. QED  BY <1>0, <2>1, <2>2 DEF TypeOK, LocalsOK, CallOK, remoteVars
<1>. QED  BY <1>1, <1>2, <1>3 DEF SyncIssueEventsFinish

LEMMA SyncIssueEventsApplyType == TypeOK /\ SyncIssueEventsApply => TypeOK'
<1>. SUFFICES ASSUME TypeOK, SyncIssueEventsApply PROVE TypeOK'
  OBVIOUS
<1>0. UNCHANGED remoteVars /\ stage \in ByDateStages \cup EventStages
  BY DEF SyncIssueEventsApply, EventStages
<1>1. dbItem' \in [Items -> 0..MaxClock] /\ dbEvent' \subseteq Times
  BY ApplyBatchType DEF SyncIssueEventsApply
<1>2. LocalsOK' /\ psync' \in ProjectSyncs
  BY <1>0, <1>1, ReturnedType DEF SyncIssueEventsApply, TypeOK
<1>. QED  BY <1>0, <1>1, <1>2 DEF TypeOK, LocalsOK, CallOK, remoteVars

(* The full scan, a crash and the tracker keep the state well typed.    *)
LEMMA FullScanNextType == TypeOK /\ FullScanNext => TypeOK'
<1>. SUFFICES ASSUME TypeOK, FullScanNext PROVE TypeOK'
  OBVIOUS
<1>. DEFINE todo == {i \in scan : i > proj.FullSyncIssue}
<1>0. UNCHANGED <<remoteVars, dbItem, dbEvent>>
  BY DEF FullScanNext
<1>1. CASE todo # {}
  <2>1. PICK i \in todo : cur' = i /\ Enter("issueEvents", proj) /\ UNCHANGED <<psync, scan>>
    BY <1>1 DEF FullScanNext
  <2>2. "issueEvents" \in Stages
    BY DEF Stages, EventStages
  <2>3. CallOK'
    BY <2>1, <2>2, EnterType DEF TypeOK
  <2>4. cur' \in 0..NIssues
    BY <2>1 DEF TypeOK
  <2>. QED  BY <1>0, <2>1, <2>3, <2>4 DEF TypeOK, CallOK, remoteVars
<1>2. CASE todo = {}
  <2>. DEFINE q == [proj EXCEPT !.FullSyncActive = FALSE]
  <2>1. psync' = q /\ Enter("incremental", q) /\ UNCHANGED <<cur, scan>>
    BY <1>2 DEF FullScanNext
  <2>2. q \in ProjectSyncs /\ "incremental" \in Stages
    BY DEF TypeOK, ProjectSyncs, Stages, EventStages
  <2>3. CallOK'
    BY <2>1, <2>2, EnterType
  <2>. QED  BY <1>0, <2>1, <2>2, <2>3 DEF TypeOK, CallOK, remoteVars
<1>. QED  BY <1>1, <1>2

LEMMA CrashType == TypeOK /\ Crash => TypeOK'
BY GoIdleType DEF Crash, TypeOK, LocalsOK, CallOK, remoteVars, dbVars

LEMMA RemoteType == TypeOK /\ Remote => TypeOK'
<1>. SUFFICES ASSUME TypeOK, Remote PROVE TypeOK'
  OBVIOUS
<1>. USE MaxClockAssumption, NIssuesAssumption
<1>1. ASSUME NEW i \in Issues, CreateIssue(i) PROVE TypeOK'
  BY <1>1 DEF CreateIssue, Items, TypeOK, Tick, dbVars, syncVars
<1>2. ASSUME NEW i \in Issues, IssueEvent(i) PROVE TypeOK'
  BY <1>2 DEF IssueEvent, Items, Times, Issues, TypeOK, Tick, dbVars, syncVars
<1>3. ASSUME NEW c \in Comments, CreateComment(c) PROVE TypeOK'
  BY <1>3, CommentIssueAssumption DEF CreateComment, Items, TypeOK, Tick, dbVars, syncVars
<1>4. ASSUME NEW x \in Items, EditItem(x) PROVE TypeOK'
  BY <1>4 DEF EditItem, TypeOK, Tick, dbVars, syncVars
<1>5. ASSUME ExpireEvent PROVE TypeOK'
  BY <1>5 DEF ExpireEvent, TypeOK, dbVars, syncVars
<1>. QED  BY <1>1, <1>2, <1>3, <1>4, <1>5 DEF Remote

(* Type correctness: in every state of every behaviour each variable of *)
(* the mirror -- the tracker, the database, the stored projectSync and  *)
(* the running SyncProject's locals -- holds a value of its type.       *)
THEOREM TypeCorrect == Spec => []TypeOK
<1>1. Init => TypeOK
  <2>1. [t \in Times |-> 0] \in [Times -> 0..NIssues] /\ "idle" \in Stages
    BY NIssuesAssumption DEF Stages
  <2>. SUFFICES ASSUME Init PROVE TypeOK
    OBVIOUS
  <2>2. RemoteOK
    BY <2>1, MaxClockAssumption DEF Init, RemoteOK
  <2>3. DbOK
    BY ConstantsType DEF Init, DbOK
  <2>6. /\ step \in {"none", "fetch", "item", "errApply", "finish", "applyRet"}
        /\ bEvent \subseteq Times /\ pg \subseteq Entries
        /\ more \in BOOLEAN /\ stopped \in BOOLEAN
    BY DEF Init
  <2>7. /\ qsince \in 0..MaxClock /\ npage \in Nat /\ firstID \in 0..MaxClock
        /\ lastID \in 0..MaxClock
    BY MaxClockAssumption DEF Init
  <2>8. /\ proj \in ProjectSyncs /\ bItem \in [Items -> 0..MaxClock]
        /\ etag \in ETags /\ firstETag \in ETags /\ stage \in Stages
    BY <2>1, ConstantsType DEF Init
  <2>4. CallOK
    BY <2>6, <2>7, <2>8 DEF CallOK
  <2>5. cur \in 0..NIssues /\ scan \subseteq 0..NIssues
    BY NIssuesAssumption DEF Init
  <2>. QED  BY <2>2, <2>3, <2>4, <2>5, TypeOKParts DEF LocalsOK
<1>2. TypeOK /\ [Next]_vars => TypeOK'
  <2>. SUFFICES ASSUME TypeOK, [Next]_vars PROVE TypeOK'
    OBVIOUS
  <2>1. CASE SyncStep
    BY <2>1, SyncProjectStartType, SyncByDateFetchType, SyncByDateItemType,
       SyncByDateErrApplyType, SyncByDatePageDoneType, SyncIssueEventsFetchType,
       SyncIssueEventsItemType, SyncIssueEventsPageDoneType, SyncIssueEventsFinishType,
       SyncIssueEventsApplyType, FullScanNextType
       DEF SyncStep
  <2>2. CASE Crash
    BY <2>2, CrashType
  <2>3. CASE Remote
    BY <2>3, RemoteType
  <2>4. CASE UNCHANGED vars
    BY <2>4 DEF TypeOK, vars, remoteVars, dbVars, syncVars
  <2>. QED  BY <2>1, <2>2, <2>3, <2>4 DEF Next
<1>. QED  BY <1>1, <1>2, PTL DEF Spec

====
