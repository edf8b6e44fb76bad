-------------------------- MODULE CommentFixProofs --------------------------
(***************************************************************************)
(* Proofs about CommentFix, for every number of items, versions and       *)
(* modtimes, and every choice of skipped and expired items:               *)
(*   - the model is well typed;                                            *)
(*   - Fixer.Run never edits the same user text twice (NoRefix), through   *)
(*     crashes, failed calls and concurrent user edits, by the inductive  *)
(*     invariant NoRefixInv;                                               *)
(*   - when DownloadIssue(Comment) and EditIssue(Comment) do not fail, the *)
(*     watcher is never marked past a row that still needs a fix          *)
(*     (FixNoneSkipped), through crashes, sync errors and user edits, by  *)
(*     the inductive invariant FixMarkedInv.                              *)
(***************************************************************************)
EXTENDS CommentFix, TLAPS

USE NItemsAssumption, MaxVerAssumption, MaxTimeAssumption

-----------------------------------------------------------------------------
(* Types.                                                                 *)

(* A write of the cursor by MarkOld keeps it a modtime, and it is the    *)
(* larger of the two.                                                    *)
LEMMA MarkOldType ==
    ASSUME TypeOK, NEW t \in 0..MaxTime, MarkOld(t)
    PROVE  /\ cursor' \in 0..MaxTime
           /\ cursor' = IF t > cursor THEN t ELSE cursor
BY DEF TypeOK, MarkOld

LEMMA InitType == Init => TypeOK
<1> SUFFICES ASSUME Init PROVE TypeOK
  OBVIOUS
<1>1. body \in [Items -> Body]
  BY DEF Init, Body
<1>2. ev \in [Items -> Row]
  BY DEF Init, Row, Body
<1>3. cur \in Items
  BY DEF Init, Items
<1> QED
  BY <1>1, <1>2, <1>3 DEF Init, TypeOK

LEMMA UserEditType ==
    ASSUME TypeOK, NEW i \in Items, UserEdit(i) PROVE TypeOK'
BY DEF UserEdit, TypeOK, Body

LEMMA MirrorWriteType ==
    ASSUME TypeOK, NEW i \in Items, MirrorWrite(i) PROVE TypeOK'
<1>1. clock' \in 0..MaxTime
  BY DEF MirrorWrite, TypeOK
<1>2. [mt |-> clock', body |-> body[i]] \in Row
  BY <1>1 DEF TypeOK, Row
<1>3. ev' \in [Items -> Row]
  BY <1>2 DEF MirrorWrite, TypeOK
<1> QED
  BY <1>1, <1>3 DEF MirrorWrite, TypeOK

LEMMA MirrorDoneType == TypeOK /\ MirrorDone => TypeOK'
BY DEF MirrorDone, Recent, TypeOK

(* FixConsider takes row i, and what it does with it.                   *)
ConsiderStep(i) ==
             /\ First(i, pos)
             /\ pos' = ev[i].mt
             /\ ev[i].mt \in 0..MaxTime
             /\ UNCHANGED <<body, clock, ev, nedit>>
             /\ i \in Skip => UNCHANGED <<cursor, pc, cur>>
             /\ i \in Expired \ Skip => MarkOld(ev[i].mt) /\ UNCHANGED <<pc, cur>>
             /\ i \in Eligible /\ ev[i].body.clean => UNCHANGED <<cursor, pc, cur>>
             /\ i \in Eligible /\ ~ev[i].body.clean =>
                   pc' = "download" /\ cur' = i /\ UNCHANGED cursor

LEMMA FixConsiderPick ==
    ASSUME TypeOK, FixConsider
    PROVE  \E i \in Items : ConsiderStep(i)
<1>1. PICK i \in Items : /\ First(i, pos)
                         /\ pos' = ev[i].mt
                         /\ CASE i \in Skip        -> UNCHANGED <<cursor, pc, cur>>
                              [] i \in Expired \ Skip -> MarkOld(ev[i].mt) /\ UNCHANGED <<pc, cur>>
                              [] i \in Eligible /\ ev[i].body.clean -> UNCHANGED <<cursor, pc, cur>>
                              [] OTHER             -> pc' = "download" /\ cur' = i /\ UNCHANGED cursor
  BY DEF FixConsider
<1>2. ev[i].mt \in 0..MaxTime
  BY DEF TypeOK, Row
<1>3. UNCHANGED <<body, clock, ev, nedit>>
  BY DEF FixConsider
<1>4. i \in Skip => UNCHANGED <<cursor, pc, cur>>
  BY <1>1 DEF Eligible
<1>5. i \in Expired \ Skip => MarkOld(ev[i].mt) /\ UNCHANGED <<pc, cur>>
  BY <1>1 DEF Eligible
<1>6. i \in Eligible /\ ev[i].body.clean => UNCHANGED <<cursor, pc, cur>>
  BY <1>1 DEF Eligible
<1>7. i \in Eligible /\ ~ev[i].body.clean => pc' = "download" /\ cur' = i /\ UNCHANGED cursor
  BY <1>1 DEF Eligible
<1> QED
  BY <1>1, <1>2, <1>3, <1>4, <1>5, <1>6, <1>7 DEF ConsiderStep

LEMMA FixConsiderType == TypeOK /\ FixConsider => TypeOK'
<1> SUFFICES ASSUME TypeOK, FixConsider PROVE TypeOK'
  OBVIOUS
<1>1. PICK i \in Items : ConsiderStep(i)
  BY FixConsiderPick
<1>2. CASE i \in Expired \ Skip
  BY <1>1, <1>2, MarkOldType DEF TypeOK, ConsiderStep
<1>3. CASE i \notin Expired \ Skip
  BY <1>1, <1>3 DEF TypeOK, Eligible, ConsiderStep
<1> QED
  BY <1>2, <1>3

LEMMA FixDownloadType == TypeOK /\ FixDownload => TypeOK'
BY DEF FixDownload, TypeOK

LEMMA FixEditType == TypeOK /\ FixEdit => TypeOK'
<1> SUFFICES ASSUME TypeOK, FixEdit PROVE TypeOK'
  OBVIOUS
<1>1. FixBody(ev[cur].body) \in Body
  BY DEF TypeOK, Row, Body, FixBody
<1> QED
  BY <1>1 DEF FixEdit, TypeOK

LEMMA FixMarkType == TypeOK /\ FixMark => TypeOK'
BY MarkOldType DEF FixMark, TypeOK

LEMMA FixEndType == TypeOK /\ FixEnd => TypeOK'
BY DEF FixEnd, TypeOK

LEMMA CrashType == TypeOK /\ Crash => TypeOK'
BY DEF Crash, TypeOK, Items

LEMMA NextType == TypeOK /\ [Next]_vars => TypeOK'
<1> SUFFICES ASSUME TypeOK, [Next]_vars PROVE TypeOK'
  OBVIOUS
<1>1. CASE UNCHANGED vars
  BY <1>1 DEF vars, TypeOK
<1> QED
  BY <1>1, UserEditType, MirrorWriteType, MirrorDoneType, FixConsiderType, FixDownloadType,
     FixEditType, FixMarkType, FixEndType, CrashType DEF Next, LoopStep

(* Every reachable state of the Fixer's loop is well typed.              *)
THEOREM TypeCorrect == Spec => []TypeOK
BY InitType, NextType, PTL DEF Spec

-----------------------------------------------------------------------------
(* NoRefix.                                                                *)

LEMMA InitNoRefix == Init => NoRefixInv
BY InitType DEF Init, NoRefixInv

(* The parts of NoRefixInv other than the type.                         *)
NoRefixRest ==
    /\ \A i \in Items : nedit[i] <= 1 /\ (nedit[i] = 1 => body[i].clean)
    /\ pc = "download" => ~ev[cur].body.clean
    /\ pc = "edit" => nedit[cur] = 0

LEMMA UserEditNoRefix ==
    ASSUME NoRefixInv, NEW i \in Items, UserEdit(i) PROVE NoRefixRest'
BY DEF UserEdit, NoRefixInv, NoRefixRest, TypeOK

LEMMA MirrorWriteNoRefix ==
    ASSUME NoRefixInv, NEW i \in Items, MirrorWrite(i) PROVE NoRefixRest'
BY DEF MirrorWrite, NoRefixInv, NoRefixRest

LEMMA MirrorDoneNoRefix == NoRefixInv /\ MirrorDone => NoRefixRest'
BY DEF MirrorDone, Recent, NoRefixInv, NoRefixRest

(* FixConsider goes to the download only on a row that needs a fix.      *)
LEMMA FixConsiderNoRefix == NoRefixInv /\ FixConsider => NoRefixRest'
<1> SUFFICES ASSUME NoRefixInv, FixConsider PROVE NoRefixRest'
  OBVIOUS
<1>1. PICK i \in Items : ConsiderStep(i)
  BY FixConsiderPick DEF NoRefixInv
<1>2. pc = "fix"
  BY DEF FixConsider
<1> QED
  BY <1>1, <1>2 DEF NoRefixInv, NoRefixRest, Eligible, ConsiderStep

(* The stale check: the Fixer goes on to the edit only when the live     *)
(* body is the row's, which needs a fix; so the Fixer has not edited the *)
(* item since its user edit.                                             *)
LEMMA FixDownloadNoRefix == NoRefixInv /\ FixDownload => NoRefixRest'
<1> SUFFICES ASSUME NoRefixInv, FixDownload PROVE NoRefixRest'
  OBVIOUS
<1>1. CASE pc' = "edit"
  <2>1. body[cur] = ev[cur].body /\ ~ev[cur].body.clean
    BY <1>1 DEF FixDownload, NoRefixInv
  <2>2. nedit[cur] = 0
    BY <2>1 DEF NoRefixInv, TypeOK
  <2> QED
    BY <1>1, <2>2 DEF FixDownload, NoRefixInv, NoRefixRest
<1>2. CASE pc' = "fix"
  BY <1>2 DEF FixDownload, NoRefixInv, NoRefixRest
<1> QED
  BY <1>1, <1>2 DEF FixDownload

(* The edit writes a clean body and counts the Fixer's first edit.       *)
LEMMA FixEditNoRefix == NoRefixInv /\ FixEdit => NoRefixRest'
<1> SUFFICES ASSUME NoRefixInv, FixEdit PROVE NoRefixRest'
  OBVIOUS
<1>1. CASE APIFaults /\ pc' = "fix" /\ UNCHANGED <<body, nedit>>
  BY <1>1 DEF FixEdit, NoRefixInv, NoRefixRest
<1>2. CASE /\ body' = [body EXCEPT ![cur] = FixBody(ev[cur].body)]
           /\ nedit' = [nedit EXCEPT ![cur] = @ + 1]
           /\ pc' = "mark"
  <2>1. nedit[cur] = 0
    BY DEF FixEdit, NoRefixInv
  <2> QED
    BY <1>2, <2>1 DEF FixEdit, NoRefixInv, NoRefixRest, TypeOK, FixBody
<1> QED
  BY <1>1, <1>2 DEF FixEdit

LEMMA FixMarkNoRefix == NoRefixInv /\ FixMark => NoRefixRest'
BY DEF FixMark, NoRefixInv, NoRefixRest

LEMMA FixEndNoRefix == NoRefixInv /\ FixEnd => NoRefixRest'
BY DEF FixEnd, NoRefixInv, NoRefixRest

LEMMA CrashNoRefix == NoRefixInv /\ Crash => NoRefixRest'
BY DEF Crash, NoRefixInv, NoRefixRest

LEMMA NextNoRefix == NoRefixInv /\ [Next]_vars => NoRefixInv'
<1> SUFFICES ASSUME NoRefixInv, [Next]_vars PROVE NoRefixInv'
  OBVIOUS
<1>1. TypeOK'
  BY NextType DEF NoRefixInv
<1>2. CASE UNCHANGED vars
  BY <1>1, <1>2 DEF vars, NoRefixInv
<1>3. NoRefixRest'
  BY UserEditNoRefix, MirrorWriteNoRefix, MirrorDoneNoRefix, FixConsiderNoRefix,
     FixDownloadNoRefix, FixEditNoRefix, FixMarkNoRefix, FixEndNoRefix, CrashNoRefix,
     <1>2 DEF Next, LoopStep, NoRefixInv, NoRefixRest
<1> QED
  BY <1>1, <1>3 DEF NoRefixInv, NoRefixRest

(* Fixer.Run edits a user's text at most once (part_000:300-320): after *)
(* a crash between EditIssue and MarkOld, or when its own edit comes     *)
(* back through the mirror, it finds the item clean and leaves it.       *)
THEOREM FixedOnce == Spec => []NoRefix
<1>1. NoRefixInv => NoRefix
  BY DEF NoRefixInv, NoRefix
<1> QED
  BY InitNoRefix, NextNoRefix, <1>1, PTL DEF Spec
-----------------------------------------------------------------------------
(* FixNoneSkipped, when the GitHub calls of Run do not fail.             *)

LEMMA InitMarked == Init => FixMarkedInv
<1> SUFFICES ASSUME Init PROVE FixMarkedInv
  OBVIOUS
<1>1. TypeOK
  BY InitType
<1> QED
  BY <1>1 DEF Init, FixMarkedInv, FreshTimes, DistinctTimes, CursorBehind, FixNoneSkipped,
     PassedSettled, CurrentNeedsFix, Eligible

(* A user edit raises the version of the live body past its row's: a   *)
(* settled row stays settled.                                             *)
LEMMA UserEditMarked ==
    ASSUME FixMarkedInv, NEW j \in Items, UserEdit(j) PROVE FixMarkedInv'
<1> USE DEF FixMarkedInv
<1>1. TypeOK'
  BY UserEditType
<1>2. PICK c \in BOOLEAN : body' = [body EXCEPT ![j] = [v |-> @.v + 1, clean |-> c]]
  BY DEF UserEdit
<1>3. UNCHANGED <<clock, ev, cursor, pc, pos, cur>>
  BY DEF UserEdit
<1>4. \A i \in Items : body'[i] = body[i] \/ body'[i].v > body[i].v
  BY <1>2 DEF TypeOK, Body
<1>5. \A i \in Items : Settled(i) => Settled(i)'
  BY <1>3, <1>4 DEF Settled, FreshTimes, TypeOK, Row, Body
<1>6. FreshTimes'
  BY <1>1, <1>3, <1>4 DEF FreshTimes, TypeOK, Row, Body
<1>7. DistinctTimes' /\ CursorBehind'
  BY <1>3 DEF DistinctTimes, CursorBehind
<1>8. FixNoneSkipped' /\ PassedSettled' /\ CurrentNeedsFix'
  BY <1>3, <1>5 DEF FixNoneSkipped, PassedSettled, CurrentNeedsFix, Eligible
<1> QED
  BY <1>1, <1>6, <1>7, <1>8

(* The mirror writes only while Run is not iterating, under a fresh     *)
(* modtime past every other row and the cursor.                          *)
LEMMA MirrorWriteMarked ==
    ASSUME FixMarkedInv, NEW j \in Items, MirrorWrite(j) PROVE FixMarkedInv'
<1> USE DEF FixMarkedInv
<1>1. TypeOK'
  BY MirrorWriteType
<1>2. ev'[j].mt = clock + 1 /\ clock' = clock + 1 /\ ev'[j].body = body[j]
  BY DEF MirrorWrite, TypeOK
<1>3. \A i \in Items \ {j} : ev'[i] = ev[i]
  BY DEF MirrorWrite, TypeOK
<1>4. UNCHANGED <<body, cursor, pc, pos, cur>> /\ pc = "sync"
  BY DEF MirrorWrite
<1>5. FreshTimes'
  BY <1>2, <1>3, <1>4 DEF FreshTimes, TypeOK, Row, Body
<1>6. DistinctTimes'
  BY <1>2, <1>3 DEF DistinctTimes, FreshTimes, TypeOK, Row
<1>7. FixNoneSkipped'
  BY <1>2, <1>3, <1>4 DEF FixNoneSkipped, Settled, FreshTimes, Eligible, TypeOK, Row
<1>8. CursorBehind' /\ PassedSettled' /\ CurrentNeedsFix'
  BY <1>4 DEF CursorBehind, PassedSettled, CurrentNeedsFix
<1> QED
  BY <1>1, <1>5, <1>6, <1>7, <1>8

(* Recent starts from the cursor: nothing is passed yet.                 *)
LEMMA MirrorDoneMarked == FixMarkedInv /\ MirrorDone => FixMarkedInv'
<1> SUFFICES ASSUME FixMarkedInv, MirrorDone PROVE FixMarkedInv'
  OBVIOUS
<1> USE DEF FixMarkedInv
<1>1. TypeOK'
  BY MirrorDoneType
<1>2. pc' = "fix" /\ pos' = cursor /\ UNCHANGED <<body, clock, ev, cursor, cur>>
  BY DEF MirrorDone, Recent
<1>3. FreshTimes' /\ DistinctTimes' /\ FixNoneSkipped'
  BY <1>2 DEF FreshTimes, DistinctTimes, FixNoneSkipped, Settled
<1>4. CursorBehind' /\ PassedSettled' /\ CurrentNeedsFix'
  BY <1>2 DEF CursorBehind, PassedSettled, CurrentNeedsFix, TypeOK, Row, Eligible
<1> QED
  BY <1>1, <1>3, <1>4

(* No row lies between pos and the row Recent yields next.               *)
LEMMA NoneBetween ==
    ASSUME TypeOK, DistinctTimes, NEW i \in Items, First(i, pos),
           NEW k \in Items, pos < ev[k].mt, ev[k].mt <= ev[i].mt
    PROVE  k = i
<1>1. k \in After(pos)
  BY DEF After
<1>2. ev[i].mt <= ev[k].mt
  BY <1>1 DEF First
<1>3. ev[k].mt = ev[i].mt /\ ev[k].mt > 0
  BY <1>2 DEF TypeOK, Row
<1> QED
  BY <1>3 DEF DistinctTimes

(* One iteration of Run's loop: the row taken is the next one, and what  *)
(* lies between the old pos and it is that row alone; it is settled,     *)
(* filtered out or expired, or it becomes the row to download.           *)
LEMMA FixConsiderMarked == FixMarkedInv /\ FixConsider => FixMarkedInv'
<1> SUFFICES ASSUME FixMarkedInv, FixConsider PROVE FixMarkedInv'
  OBVIOUS
<1> USE DEF FixMarkedInv
<1>1. TypeOK'
  BY FixConsiderType
<1>2. PICK i \in Items : ConsiderStep(i)
  BY FixConsiderPick
<1>3. pc = "fix" /\ ev[i].mt > pos /\ pos >= cursor /\ pos' = ev[i].mt
  BY <1>2 DEF FixConsider, ConsiderStep, First, After, CursorBehind
<1>4. \A k \in Eligible : cursor < ev[k].mt /\ ev[k].mt <= pos => Settled(k)
  BY <1>3 DEF PassedSettled
<1>5. \A k \in Items : pos < ev[k].mt /\ ev[k].mt <= ev[i].mt => k = i
  BY <1>2, NoneBetween DEF ConsiderStep
<1>6. UNCHANGED <<body, clock, ev>>
  BY <1>2 DEF ConsiderStep
<1>7. \A k \in Items : Settled(k)' = Settled(k)
  BY <1>6 DEF Settled
<1>8. DistinctTimes'
  BY <1>6 DEF DistinctTimes
<1>9. ev[i].mt <= clock /\ ev[i].mt \in Nat
  BY DEF FreshTimes, TypeOK, Row
<1>10. CASE i \in Skip
  <2>1. UNCHANGED <<cursor, pc, cur>>
    BY <1>2, <1>10 DEF ConsiderStep
  <2>2. FreshTimes' /\ CursorBehind' /\ CurrentNeedsFix'
    BY <1>3, <1>6, <1>9, <2>1 DEF FreshTimes, CursorBehind, CurrentNeedsFix, TypeOK
  <2>5. FixNoneSkipped'
    BY <1>6, <1>7, <2>1 DEF FixNoneSkipped, Eligible
  <2>3. PassedSettled'
    BY <1>3, <1>4, <1>5, <1>6, <1>7, <1>10, <2>1 DEF PassedSettled, Eligible, TypeOK, Row
  <2> QED
    BY <1>1, <1>8, <2>2, <2>3, <2>5
<1>11. CASE i \in Expired \ Skip
  <2>1. cursor' = ev[i].mt /\ UNCHANGED <<pc, cur>>
    BY <1>2, <1>3, <1>9, <1>11, MarkOldType DEF ConsiderStep, TypeOK
  <2>2. FreshTimes' /\ CursorBehind'
    BY <1>3, <1>6, <1>9, <2>1 DEF FreshTimes, CursorBehind, TypeOK
  <2>4. PassedSettled' /\ CurrentNeedsFix'
    BY <1>3, <1>6, <2>1 DEF PassedSettled, CurrentNeedsFix, Eligible, TypeOK, Row
  <2>3. FixNoneSkipped'
    BY <1>3, <1>4, <1>5, <1>6, <1>7, <1>11, <2>1 DEF FixNoneSkipped, Eligible, TypeOK, Row
  <2> QED
    BY <1>1, <1>8, <2>2, <2>3, <2>4
<1>12. CASE i \in Eligible /\ ev[i].body.clean
  <2>1. UNCHANGED <<cursor, pc, cur>>
    BY <1>2, <1>12 DEF ConsiderStep
  <2>2. Settled(i)'
    BY <1>7, <1>12 DEF Settled
  <2>3. FreshTimes' /\ CursorBehind' /\ CurrentNeedsFix'
    BY <1>3, <1>6, <1>9, <2>1 DEF FreshTimes, CursorBehind, CurrentNeedsFix, TypeOK
  <2>5. FixNoneSkipped'
    BY <1>6, <1>7, <2>1 DEF FixNoneSkipped, Eligible
  <2>4. PassedSettled'
    BY <1>3, <1>4, <1>5, <1>6, <1>7, <2>1, <2>2 DEF PassedSettled, Eligible, TypeOK, Row
  <2> QED
    BY <1>1, <1>8, <2>3, <2>4, <2>5
<1>13. CASE i \in Eligible /\ ~ev[i].body.clean
  <2>1. pc' = "download" /\ cur' = i /\ UNCHANGED cursor
    BY <1>2, <1>13 DEF ConsiderStep
  <2>2. FreshTimes' /\ CursorBehind' /\ PassedSettled'
    BY <1>3, <1>6, <1>9, <2>1 DEF FreshTimes, CursorBehind, PassedSettled, TypeOK
  <2>5. FixNoneSkipped'
    BY <1>6, <1>7, <2>1 DEF FixNoneSkipped, Eligible
  <2>3. \A k \in Eligible : cursor < ev[k].mt /\ ev[k].mt < ev[i].mt => Settled(k)
    BY <1>3, <1>4, <1>5 DEF Eligible, TypeOK, Row
  <2>4. CurrentNeedsFix'
    BY <1>3, <1>6, <1>7, <1>13, <2>1, <2>3 DEF CurrentNeedsFix, Eligible, TypeOK, Row
  <2> QED
    BY <1>1, <1>8, <2>2, <2>4, <2>5
<1> QED
  BY <1>10, <1>11, <1>12, <1>13 DEF Eligible

(* Without API errors the download either finds the live body moved on, *)
(* which settles the row at pos, or goes on to the edit.                 *)
LEMMA FixDownloadMarked ==
    ASSUME ~APIFaults, FixMarkedInv, FixDownload PROVE FixMarkedInv'
<1> USE DEF FixMarkedInv
<1>1. TypeOK'
  BY FixDownloadType
<1>2. UNCHANGED <<body, clock, ev, cursor, pos, cur>> /\ pc = "download"
  BY DEF FixDownload
<1>3. FreshTimes' /\ DistinctTimes' /\ CursorBehind' /\ FixNoneSkipped'
  BY <1>2 DEF FreshTimes, DistinctTimes, CursorBehind, FixNoneSkipped, Settled
<1>4. CASE body[cur] # ev[cur].body /\ pc' = "fix"
  <2>1. Settled(cur)
    BY <1>4 DEF Settled
  <2>2. \A k \in Eligible : ev[k].mt = pos => k = cur
    BY <1>2 DEF CurrentNeedsFix, DistinctTimes, Eligible
  <2>3. \A k \in Eligible : cursor < ev[k].mt /\ ev[k].mt <= pos => Settled(k)
    <3> SUFFICES ASSUME NEW k \in Eligible, cursor < ev[k].mt, ev[k].mt <= pos
                 PROVE  Settled(k)
      OBVIOUS
    <3>1. CASE ev[k].mt = pos
      BY <2>1, <2>2, <3>1
    <3>2. CASE ev[k].mt < pos
      BY <1>2, <3>2 DEF CurrentNeedsFix
    <3> QED
      BY <3>1, <3>2 DEF Eligible, TypeOK, Row
  <2>4. PassedSettled'
    BY <1>2, <1>4, <2>3 DEF PassedSettled, Settled
  <2>5. CurrentNeedsFix'
    BY <1>4 DEF CurrentNeedsFix
  <2> QED
    BY <1>1, <1>3, <2>4, <2>5
<1>5. CASE pc' = "edit"
  BY <1>1, <1>2, <1>3, <1>5 DEF PassedSettled, CurrentNeedsFix, Settled
<1> QED
  BY <1>4, <1>5 DEF FixDownload

(* Without API errors the edit writes the fix of the row at pos: the    *)
(* live body is then clean and no longer the row's.                       *)
LEMMA FixEditMarked ==
    ASSUME ~APIFaults, FixMarkedInv, FixEdit PROVE FixMarkedInv'
<1> USE DEF FixMarkedInv
<1>1. TypeOK'
  BY FixEditType
<1>2. /\ body' = [body EXCEPT ![cur] = FixBody(ev[cur].body)]
      /\ pc' = "mark" /\ pc = "edit"
      /\ UNCHANGED <<clock, ev, cursor, pos, cur>>
  BY DEF FixEdit
<1>3. cur \in Eligible /\ ev[cur].mt = pos /\ pos > 0 /\ ~ev[cur].body.clean
  BY <1>2 DEF CurrentNeedsFix
<1>4. Settled(cur)'
  BY <1>2, <1>3 DEF Settled, FixBody, TypeOK
<1>5. \A k \in Items \ {cur} : Settled(k)' = Settled(k)
  BY <1>2 DEF Settled, TypeOK
<1>6. FreshTimes'
  BY <1>1, <1>2 DEF FreshTimes, TypeOK, Row, Body, FixBody
<1>7. DistinctTimes' /\ CursorBehind' /\ CurrentNeedsFix'
  BY <1>2 DEF DistinctTimes, CursorBehind, CurrentNeedsFix
<1>8. \A k \in Eligible : ev[k].mt = pos => k = cur
  BY <1>3 DEF DistinctTimes, Eligible
<1>9. FixNoneSkipped'
  BY <1>2, <1>4, <1>5 DEF FixNoneSkipped, Eligible
<1>10. PassedSettled'
  <2> SUFFICES ASSUME NEW k \in Eligible, cursor < ev[k].mt, ev[k].mt <= pos
               PROVE  Settled(k)'
    BY <1>2 DEF PassedSettled
  <2>1. CASE ev[k].mt = pos
    <3>1. k = cur
      BY <1>8, <2>1
    <3> QED
      BY <1>2, <1>4, <3>1
  <2>2. CASE ev[k].mt < pos
    <3>1. k # cur
      BY <1>3, <2>2 DEF Eligible, TypeOK, Row
    <3>2. \A i \in Eligible : cursor < ev[i].mt /\ ev[i].mt < pos => Settled(i)
      BY <1>2 DEF FixMarkedInv, CurrentNeedsFix
    <3>3. Settled(k)
      BY <2>2, <3>2
    <3> QED
      BY <1>5, <3>1, <3>3 DEF Eligible
  <2> QED
    BY <2>1, <2>2 DEF Eligible, TypeOK, Row
<1> QED
  BY <1>1, <1>6, <1>7, <1>9, <1>10

(* MarkOld(pos) moves the cursor up to pos, over rows that are settled. *)
LEMMA FixMarkMarked == FixMarkedInv /\ FixMark => FixMarkedInv'
<1> SUFFICES ASSUME FixMarkedInv, FixMark PROVE FixMarkedInv'
  OBVIOUS
<1> USE DEF FixMarkedInv
<1>1. TypeOK'
  BY FixMarkType
<1>2. cursor' = pos /\ pc = "mark" /\ pc' = "fix" /\ UNCHANGED <<body, clock, ev, pos, cur>>
  BY MarkOldType DEF FixMark, CursorBehind, TypeOK
<1>3. FreshTimes' /\ DistinctTimes' /\ CursorBehind' /\ CurrentNeedsFix'
  BY <1>2 DEF FreshTimes, DistinctTimes, CursorBehind, CurrentNeedsFix, TypeOK
<1>4. PassedSettled'
  BY <1>2 DEF PassedSettled, Eligible, TypeOK, Row
<1>5. FixNoneSkipped'
  BY <1>2 DEF FixNoneSkipped, PassedSettled, Settled, Eligible, TypeOK, Row
<1> QED
  BY <1>1, <1>3, <1>4, <1>5

(* Run's iteration ends, or the process dies: Run's locals go, the      *)
(* database stays.                                                        *)
LEMMA FixEndMarked == FixMarkedInv /\ FixEnd => FixMarkedInv'
<1> SUFFICES ASSUME FixMarkedInv, FixEnd PROVE FixMarkedInv'
  OBVIOUS
<1> USE DEF FixMarkedInv
<1>1. TypeOK'
  BY FixEndType
<1>2. pc' = "sync" /\ UNCHANGED <<body, clock, ev, cursor, pos, cur>>
  BY DEF FixEnd
<1> QED
  BY <1>1, <1>2 DEF FreshTimes, DistinctTimes, CursorBehind, FixNoneSkipped, Settled,
     PassedSettled, CurrentNeedsFix

LEMMA CrashMarked == FixMarkedInv /\ Crash => FixMarkedInv'
<1> SUFFICES ASSUME FixMarkedInv, Crash PROVE FixMarkedInv'
  OBVIOUS
<1> USE DEF FixMarkedInv
<1>1. TypeOK'
  BY CrashType
<1>2. pc' = "sync" /\ pos' = 0 /\ UNCHANGED <<body, clock, ev, cursor>>
  BY DEF Crash
<1>3. FreshTimes'
  BY <1>2 DEF FreshTimes, TypeOK
<1> QED
  BY <1>1, <1>2, <1>3 DEF DistinctTimes, CursorBehind, FixNoneSkipped, Settled,
     PassedSettled, CurrentNeedsFix

LEMMA NextMarked ==
    ASSUME ~APIFaults, FixMarkedInv, [Next]_vars PROVE FixMarkedInv'
<1>1. CASE UNCHANGED vars
  BY <1>1 DEF vars, FixMarkedInv, TypeOK, FreshTimes, DistinctTimes, CursorBehind,
     FixNoneSkipped, Settled, PassedSettled, CurrentNeedsFix
<1> QED
  BY <1>1, UserEditMarked, MirrorWriteMarked, MirrorDoneMarked, FixConsiderMarked,
     FixDownloadMarked, FixEditMarked, FixMarkMarked, FixEndMarked, CrashMarked
     DEF Next, LoopStep

(* When DownloadIssue(Comment) and EditIssue(Comment) succeed, Fixer.Run *)
(* never marks its watcher past a row of an item it may edit that still  *)
(* needs a fix and is still the live text (part_000:296-320), for every  *)
(* number of items, versions and modtimes, through crashes, sync errors *)
(* and concurrent user edits.  With API errors it fails: Run passes a   *)
(* row whose call failed and a later MarkOld covers it.                  *)
THEOREM NoneSkipped == ~APIFaults => (Spec => []FixNoneSkipped)
<1> SUFFICES ASSUME ~APIFaults PROVE Spec => []FixNoneSkipped
  OBVIOUS
<1>1. FixMarkedInv /\ [Next]_vars => FixMarkedInv'
  BY NextMarked
<1>2. FixMarkedInv => FixNoneSkipped
  BY DEF FixMarkedInv
<1> QED
  BY InitMarked, <1>1, <1>2, PTL DEF Spec

=============================================================================
