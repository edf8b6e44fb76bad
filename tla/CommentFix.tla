----------------------------- MODULE CommentFix -----------------------------
(***************************************************************************)
(* commentfix.Fixer.Run (unnamed/part_000:267-327) in the main loop       *)
(* (unnamed/part_009:99-106), against a tracker whose users edit issue    *)
(* bodies and comments at any time.  Run reads the mirror's event rows    *)
(* through its timed.Watcher "commentfix.Fixer:gerritlinks" (spec.md      *)
(* 4.E, as in Pipeline.tla): for each row after the cursor it skips rows  *)
(* of other projects, pull requests and other event kinds (Skip), marks   *)
(* old the rows updated before the time limit (Expired), runs Fix on the  *)
(* row's body, downloads the live body, gives up when it differs from the *)
(* row (stale), edits the body on GitHub, and marks the watcher past the  *)
(* row and flushes it.  Issues and comments behave alike                  *)
(* (issueOrComment, part_000:329-369); an item is one of them.            *)
(*                                                                         *)
(* Data is abstracted: a body is its user version v and whether the fix   *)
(* rules find something to rewrite in it (clean = FALSE).  Fix rewrites  *)
(* a body with the same user text into one with nothing left to fix;     *)
(* CommentFixAlgo.tla checks this of the rules main configures.  The      *)
(* mirror is abstracted as in Pipeline.tla: each row write of an item     *)
(* takes a fresh modtime and stores the body fetched.  Every database     *)
(* write survives a crash; a crash loses Run's locals.                    *)
(***************************************************************************)
EXTENDS Naturals

CONSTANTS
    NItems,      \* issues and comments are 1..NItems
    MaxVer,      \* user versions of a body are 1..MaxVer
    MaxTime,     \* bound on modtimes allocated
    Skip,        \* items Run passes over without marking (project, pull request, kind)
    Expired,     \* items last updated before Run's time limit
    SyncErrors,  \* whether gh.Sync may stop before writing every change
    APIFaults,   \* whether DownloadIssue(Comment) and EditIssue(Comment) may fail
    Crashes      \* whether the process may crash

Items == 1..NItems
(* The items Run may edit: not filtered out, not past the time limit.   *)
Eligible == Items \ (Skip \cup Expired)

ASSUME NItemsAssumption == NItems \in Nat \ {0}
ASSUME MaxVerAssumption == MaxVer \in Nat \ {0}
ASSUME MaxTimeAssumption == MaxTime \in Nat
ASSUME SetsAssumption == Skip \subseteq Items /\ Expired \subseteq Items
ASSUME FlagsAssumption == {SyncErrors, APIFaults, Crashes} \subseteq BOOLEAN

VARIABLES
    body,    \* the live body of each item on GitHub
    clock,   \* the last modtime allocated
    ev,      \* each item's event row: modtime (0: no row) and body fetched
    cursor,  \* the watcher's persisted cursor
    pc,      \* "sync": in gh.Sync; "fix", "download", "edit", "mark": in Run
    pos,     \* the DBTime of the row the Recent iteration last yielded
    cur,     \* the item being fixed
    nedit    \* history: Fixer edits of the item since its last user edit

vars == <<body, clock, ev, cursor, pc, pos, cur, nedit>>

Body == [v : 1..MaxVer, clean : BOOLEAN]
Row == [mt : 0..MaxTime, body : Body]

(* Fixer.Fix (part_000:374-391): the rules rewrite the links and URLs of  *)
(* a body and leave the user's text as it was.                           *)
FixBody(b) == [v |-> b.v, clean |-> TRUE]

-----------------------------------------------------------------------------
(* The watcher (timed.ScanAfter, Watcher.Recent and MarkOld).             *)
After(t) == {i \in Items : ev[i].mt > t}
(* i's row is the first one after t: the next one Recent yields.        *)
First(i, t) == i \in After(t) /\ \A j \in After(t) : ev[i].mt <= ev[j].mt
MarkOld(t) == cursor' = IF t > cursor THEN t ELSE cursor
Recent == pos' = cursor

(* The mirror's row of i does not hold the live body.                    *)
Stale(i) == ev[i].mt = 0 \/ ev[i].body # body[i]

-----------------------------------------------------------------------------
(* A user edits an item's body, at any time: the new text may or may not *)
(* hold something the rules rewrite.  Expired items are not edited.       *)
UserEdit(i) ==
    /\ i \notin Expired
    /\ body[i].v < MaxVer
    /\ \E c \in BOOLEAN : body' = [body EXCEPT ![i] = [v |-> @.v + 1, clean |-> c]]
    /\ nedit' = [nedit EXCEPT ![i] = 0]
    /\ UNCHANGED <<clock, ev, cursor, pc, pos, cur>>

(* gh.Sync stores an item as fetched under a fresh modtime                *)
(* (sync.go:321-326, writeEvent).                                          *)
MirrorWrite(i) ==
    /\ pc = "sync"
    /\ Stale(i)
    /\ clock < MaxTime
    /\ clock' = clock + 1
    /\ ev' = [ev EXCEPT ![i] = [mt |-> clock', body |-> body[i]]]
    /\ UNCHANGED <<body, cursor, pc, pos, cur, nedit>>

(* gh.Sync returns, after an error possibly with rows left stale; the     *)
(* other consumers change nothing Run reads; Run's Recent starts.        *)
MirrorDone ==
    /\ pc = "sync"
    /\ SyncErrors \/ \A i \in Items : ~Stale(i)
    /\ pc' = "fix"
    /\ Recent
    /\ UNCHANGED <<body, clock, ev, cursor, cur, nedit>>

(* Mutant: the time-limit test is inverted.                               *)
FixConsiderLimitInverted ==
    /\ pc = "fix"
    /\ \E i \in Items :
         /\ First(i, pos)
         /\ pos' = ev[i].mt
         /\ CASE i \in Skip        -> UNCHANGED <<cursor, pc, cur>>
              [] i \notin Expired  -> MarkOld(ev[i].mt) /\ UNCHANGED <<pc, cur>>
              [] i \in Expired /\ ev[i].body.clean -> UNCHANGED <<cursor, pc, cur>>
              [] OTHER             -> pc' = "download" /\ cur' = i /\ UNCHANGED cursor
    /\ UNCHANGED <<body, clock, ev, nedit>>

(* Mutant: the previous row's DBTime is taken for the item.              *)
FixConsiderPrevTime ==
    /\ pc = "fix"
    /\ \E i \in Items :
         /\ First(i, pos)
         /\ pos' = ev[i].mt
         /\ CASE i \in Skip        -> UNCHANGED <<cursor, pc, cur>>
              [] i \in Expired \ Skip -> MarkOld(ev[i].mt) /\ UNCHANGED <<pc, cur>>
              [] i \in Eligible /\ ev[i].body.clean -> UNCHANGED <<cursor, pc, cur>>
              [] OTHER             -> pc' = "download" /\ cur' = pos /\ UNCHANGED cursor
    /\ UNCHANGED <<body, clock, ev, nedit>>

(* One iteration of Run's loop up to the download (part_000:271-299):    *)
(* skipped rows, rows before the time limit (marked old, edits being      *)
(* enabled in main), and rows Fix leaves unchanged end the iteration.    *)
FixConsider ==
    /\ pc = "fix"
    /\ \E i \in Items :
         /\ First(i, pos)
         /\ pos' = ev[i].mt
         /\ CASE i \in Skip        -> UNCHANGED <<cursor, pc, cur>>
              [] i \in Expired \ Skip -> MarkOld(ev[i].mt) /\ UNCHANGED <<pc, cur>>
              [] i \in Eligible /\ ev[i].body.clean -> UNCHANGED <<cursor, pc, cur>>
              [] OTHER             -> pc' = "download" /\ cur' = i /\ UNCHANGED cursor
    /\ UNCHANGED <<body, clock, ev, nedit>>

(* Mutant: the live body is not compared with the row's.                 *)
FixDownloadNoStaleCheck ==
    /\ pc = "download"
    /\ \/ APIFaults /\ pc' = "fix"
       \/ pc' = "edit"
    /\ UNCHANGED <<body, clock, ev, cursor, pos, cur, nedit>>

(* ic.download (part_000:300-309): on an error, or when the live body     *)
(* differs from the row's, the row is left without marking it.           *)
FixDownload ==
    /\ pc = "download"
    /\ \/ APIFaults /\ pc' = "fix"
       \/ body[cur] # ev[cur].body /\ pc' = "fix"
       \/ body[cur] = ev[cur].body /\ pc' = "edit"
    /\ UNCHANGED <<body, clock, ev, cursor, pos, cur, nedit>>

(* ic.editBody (part_000:312-318): the body Fix computed from the row is *)
(* written over the live one; on an error the row is left unmarked.      *)
FixEdit ==
    /\ pc = "edit"
    /\ \/ APIFaults /\ pc' = "fix" /\ UNCHANGED <<body, nedit>>
       \/ /\ body' = [body EXCEPT ![cur] = FixBody(ev[cur].body)]
          /\ nedit' = [nedit EXCEPT ![cur] = @ + 1]
          /\ pc' = "mark"
    /\ UNCHANGED <<clock, ev, cursor, pos, cur>>

(* part_000:319-320: the watcher is marked past the row and flushed.     *)
FixMark ==
    /\ pc = "mark"
    /\ MarkOld(pos)
    /\ pc' = "fix"
    /\ UNCHANGED <<body, clock, ev, pos, cur, nedit>>

(* Run's iteration ends; rp.Run and the sleep follow, then gh.Sync.      *)
FixEnd ==
    /\ pc = "fix"
    /\ After(pos) = {}
    /\ pc' = "sync"
    /\ UNCHANGED <<body, clock, ev, cursor, pos, cur, nedit>>

(* The process dies; on restart the main loop starts with gh.Sync.       *)
Crash ==
    /\ Crashes /\ pc # "sync"
    /\ pc' = "sync" /\ pos' = 0 /\ cur' = 1
    /\ UNCHANGED <<body, clock, ev, cursor, nedit>>

-----------------------------------------------------------------------------
(* Items exist on GitHub at their first version; the database is empty.  *)
Init ==
    /\ body \in [Items -> {[v |-> 1, clean |-> c] : c \in BOOLEAN}]
    /\ clock = 0
    /\ ev = [i \in Items |-> [mt |-> 0, body |-> [v |-> 1, clean |-> TRUE]]]
    /\ cursor = 0
    /\ pc = "sync"
    /\ pos = 0
    /\ cur = 1
    /\ nedit = [i \in Items |-> 0]

(* One step of the main loop as far as the Fixer sees it.                *)
LoopStep ==
    \/ \E i \in Items : MirrorWrite(i)
    \/ MirrorDone
    \/ FixConsider \/ FixDownload \/ FixEdit \/ FixMark \/ FixEnd

Next == LoopStep \/ (\E i \in Items : UserEdit(i)) \/ Crash

Spec == Init /\ [][Next]_vars

(* The main loop runs forever; users owe nothing.                         *)
FairSpec == Spec /\ WF_vars(LoopStep)

-----------------------------------------------------------------------------
TypeOK ==
    /\ body \in [Items -> Body]
    /\ clock \in 0..MaxTime
    /\ ev \in [Items -> Row]
    /\ cursor \in 0..MaxTime
    /\ pc \in {"sync", "fix", "download", "edit", "mark"}
    /\ pos \in 0..MaxTime
    /\ cur \in Items
    /\ nedit \in [Items -> Nat]


(* Item i needs nothing more from Run: its row had nothing to fix, or    *)
(* the live body has moved on from it.                                   *)
Settled(i) == ev[i].body.clean \/ body[i] # ev[i].body

(* Run never passes a row it should have fixed: every row of an item Run *)
(* may edit that lies at or before the cursor had nothing to fix, or the *)
(* live body has moved on from it (the Fixer fixed it, or a user edited  *)
(* it and the mirror will present the new text again), part_000:296-319. *)
FixNoneSkipped ==
    \A i \in Eligible : 0 < ev[i].mt /\ ev[i].mt <= cursor => Settled(i)

(* The inductive invariant behind FixNoneSkipped.  Modtimes are fresh:   *)
(* no row is newer than the clock or than the live body, and rows have   *)
(* distinct modtimes.  While Run iterates, the cursor is at or before    *)
(* pos, and every row it has passed in this iteration, beyond the        *)
(* cursor, is settled, except the row being downloaded or edited, which  *)
(* is the one at pos and needs a fix.                                    *)
FreshTimes ==
    /\ \A i \in Items : ev[i].mt <= clock /\ ev[i].body.v <= body[i].v
    /\ cursor <= clock /\ pos <= clock
DistinctTimes == \A i, j \in Items : i # j /\ ev[i].mt > 0 => ev[i].mt # ev[j].mt
CursorBehind == pc # "sync" => cursor <= pos
PassedSettled ==
    pc \in {"fix", "mark"} =>
        \A i \in Eligible : cursor < ev[i].mt /\ ev[i].mt <= pos => Settled(i)
CurrentNeedsFix ==
    pc \in {"download", "edit"} =>
        /\ cur \in Eligible /\ ev[cur].mt = pos /\ pos > 0 /\ ~ev[cur].body.clean
        /\ \A i \in Eligible : cursor < ev[i].mt /\ ev[i].mt < pos => Settled(i)
FixMarkedInv ==
    /\ TypeOK /\ FreshTimes /\ DistinctTimes /\ CursorBehind
    /\ FixNoneSkipped /\ PassedSettled /\ CurrentNeedsFix
(* The Fixer edits a user's text at most once, even when it crashes      *)
(* between EditIssue and MarkOld and meets the same row again, and when  *)
(* its own edit comes back through the mirror (part_000:300-320).        *)
NoRefix == \A i \in Items : nedit[i] <= 1

(* The inductive invariant behind NoRefix: an item the Fixer edited since *)
(* its last user edit is clean, so FixConsider passes over it; and the   *)
(* item being downloaded has a row that needs a fix, so that the one     *)
(* being edited was not edited by the Fixer since its user edit.         *)
NoRefixInv ==
    /\ TypeOK
    /\ \A i \in Items : nedit[i] <= 1 /\ (nedit[i] = 1 => body[i].clean)
    /\ pc = "download" => ~ev[cur].body.clean
    /\ pc = "edit" => nedit[cur] = 0

(* Once users stop editing, every body Run may edit ends up with nothing *)
(* left to fix.                                                          *)
FixConverges == <>[](\A i \in Eligible : body[i].clean)
=============================================================================
