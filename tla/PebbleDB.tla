------------------------------ MODULE PebbleDB ------------------------------
(***************************************************************************)
(* The Pebble implementation of storage.DB and storage.Batch              *)
(* (internal/pebble/pebble.go:59-207) for one client.  Pebble itself is   *)
(* not under src/: it is taken as a sorted map whose writes are point     *)
(* sets and deletes and range deletions of [start, end) with the end      *)
(* excluded (a range whose start is past its end covers nothing), a      *)
(* batch a sequence of such writes applied in order, and an iterator      *)
(* that visits the present keys from its lower bound upward.  The        *)
(* adapter builds the contract's operations from these: DeleteRange is a  *)
(* range deletion followed by a Delete of the end key, and Scan iterates  *)
(* without an upper bound and stops at the first key past the end.      *)
(*                                                                         *)
(* The module implements StorageDB under the mapping that takes a batch  *)
(* to what it does to each key.  Errors of the engine end in Panic and   *)
(* are left out; so is durability (Flush, Close).                        *)
(***************************************************************************)
EXTENDS Naturals, Sequences

CONSTANTS
    NKeys,     \* keys are 1..NKeys, in byte order
    Vals,      \* values
    None,      \* no value
    MaxOps,    \* bound on the writes a batch holds, for model checking
    ApplyAt,   \* the batch size past which MaybeApply applies (100e6 bytes)
    Inverted   \* whether callers pass ranges whose start is past their end

Keys == 1..NKeys

ASSUME NKeysAssumption == NKeys \in Nat \ {0}
ASSUME NoneAssumption == None \notin Vals
ASSUME BoundsAssumption == MaxOps \in Nat /\ ApplyAt \in Nat
ASSUME InvertedAssumption == Inverted \in BOOLEAN

(* The ranges callers pass to DeleteRange and Scan.                      *)
Ranges == {r \in Keys \X Keys : r[1] <= r[2] \/ Inverted}

VARIABLES
    kv,     \* the engine's keys and values
    batch,  \* the engine writes a storage.Batch holds, in order
    out     \* the result of the last Get or Scan

vars == <<kv, batch, out>>

SetOp(k, v) == [op |-> "set", k |-> k, v |-> v]
DelOp(k) == [op |-> "del", k |-> k]
RangeOp(s, e) == [op |-> "range", s |-> s, e |-> e]
Ops == {SetOp(k, v) : k \in Keys, v \in Vals} \cup {DelOp(k) : k \in Keys}
       \cup {RangeOp(s, e) : s, e \in Keys}

(* One engine write applied to the map m.                                *)
Write(m, o) ==
    [k \in Keys |-> CASE o.op = "set" /\ o.k = k -> o.v
                      [] o.op = "del" /\ o.k = k -> None
                      [] o.op = "range" /\ o.s <= k /\ k < o.e -> None
                      [] OTHER -> m[k]]

(* A batch's writes applied in order (pebble.DB.Apply).                  *)
ApplyAll(m, b) ==
    LET f[n \in 0..Len(b)] == IF n = 0 THEN m ELSE Write(f[n - 1], b[n])
    IN f[Len(b)]

(* Mutant: the iteration stops at the end key instead of after it.       *)
ScanFromExclusive(m, s, e) ==
    LET f[k \in 1..NKeys + 1] ==
            CASE k > NKeys \/ (m[k] # None /\ k >= e) -> <<>>
              [] k < s \/ m[k] = None -> f[k + 1]
              [] OTHER -> <<<<k, m[k]>>>> \o f[k + 1]
    IN f[1]

(* db.Scan (pebble.go:129-162): from the first present key at or after   *)
(* start, each present key is yielded until one compares greater than    *)
(* end.                                                                  *)
ScanFrom(m, s, e) ==
    LET f[k \in 1..NKeys + 1] ==
            CASE k > NKeys \/ (m[k] # None /\ k >= s /\ k > e) -> <<>>
              [] k < s \/ m[k] = None -> f[k + 1]
              [] OTHER -> <<<<k, m[k]>>>> \o f[k + 1]
    IN f[1]

-----------------------------------------------------------------------------
(* out records the last call made and its result.                       *)
Did(c, r) == out' = [call |-> c, res |-> r]

Init == kv = [k \in Keys |-> None] /\ batch = <<>> /\ out = [call |-> <<>>, res |-> None]

(* db.Set and db.Delete (pebble.go:90-102).                              *)
Set(k, v) == kv' = Write(kv, SetOp(k, v)) /\ Did(<<"Set", k, v>>, None) /\ UNCHANGED batch
Delete(k) == kv' = Write(kv, DelOp(k)) /\ Did(<<"Delete", k>>, None) /\ UNCHANGED batch

(* Mutant: Get yields the key it was given.                             *)
GetKey(k) == Did(<<"Get", k>>, k) /\ UNCHANGED <<kv, batch>>

(* db.Get (pebble.go:59-78): the value, or nothing on ErrNotFound.       *)
Get(k) == Did(<<"Get", k>>, kv[k]) /\ UNCHANGED <<kv, batch>>

(* Mutant: the Delete of the end key is left out.                        *)
DeleteRangeNoEnd(s, e) ==
    kv' = Write(kv, RangeOp(s, e)) /\ Did(<<"DeleteRange", s, e>>, None) /\ UNCHANGED batch

(* db.DeleteRange (pebble.go:104-113): cmp.Or evaluates both of its      *)
(* arguments, so the range deletion and the Delete of end both happen.   *)
DeleteRange(s, e) ==
    /\ kv' = Write(Write(kv, RangeOp(s, e)), DelOp(e))
    /\ Did(<<"DeleteRange", s, e>>, None)
    /\ UNCHANGED batch

Scan(s, e) == Did(<<"Scan", s, e>>, ScanFrom(kv, s, e)) /\ UNCHANGED <<kv, batch>>

(* batch.Set, batch.Delete and batch.DeleteRange (pebble.go:168-191)     *)
(* record the same engine writes in the batch.                           *)
Record(c, ops) ==
    /\ Len(batch) + Len(ops) <= MaxOps
    /\ batch' = batch \o ops
    /\ Did(c, None)
    /\ UNCHANGED kv

BatchSet(k, v) == Record(<<"BatchSet", k, v>>, <<SetOp(k, v)>>)
BatchDelete(k) == Record(<<"BatchDelete", k>>, <<DelOp(k)>>)
BatchDeleteRange(s, e) == Record(<<"BatchDeleteRange", s, e>>, <<RangeOp(s, e), DelOp(e)>>)

(* batch.Apply (pebble.go:201-207): the writes are applied in order and  *)
(* the batch is reset.                                                   *)
(* Mutant: the batch is not reset after it is applied.                  *)
ApplyingNoReset == kv' = ApplyAll(kv, batch) /\ UNCHANGED batch

Applying == kv' = ApplyAll(kv, batch) /\ batch' = <<>>
Apply == Applying /\ Did(<<"Apply">>, None)

(* batch.MaybeApply (pebble.go:193-199): Apply once the batch is larger  *)
(* than the bound, and report whether it did.                            *)
MaybeApply ==
    \/ Len(batch) > ApplyAt /\ Applying /\ Did(<<"MaybeApply">>, TRUE)
    \/ Len(batch) <= ApplyAt /\ Did(<<"MaybeApply">>, FALSE) /\ UNCHANGED <<kv, batch>>

Next ==
    \/ \E k \in Keys, v \in Vals : Set(k, v) \/ BatchSet(k, v)
    \/ \E k \in Keys : Get(k) \/ Delete(k) \/ BatchDelete(k)
    \/ \E r \in Ranges : DeleteRange(r[1], r[2]) \/ Scan(r[1], r[2]) \/ BatchDeleteRange(r[1], r[2])
    \/ Apply
    \/ MaybeApply

Spec == Init /\ [][Next]_vars

-----------------------------------------------------------------------------
TypeOK ==
    /\ kv \in [Keys -> Vals \cup {None}]
    /\ batch \in Seq(Ops)
    /\ Len(batch) <= MaxOps
    /\ out.res \in CASE out.call = <<>>           -> {None}
                   [] out.call[1] = "Scan"       -> Seq(Keys \X Vals)
                   [] out.call[1] = "MaybeApply" -> BOOLEAN
                   [] OTHER                      -> Vals \cup {None}

(* What a batch does to key k: the effect of the last write in it that   *)
(* touches k.                                                            *)
Touches(o, k) ==
    \/ o.op \in {"set", "del"} /\ o.k = k
    \/ o.op = "range" /\ o.s <= k /\ k < o.e
Pending(b) ==
    [k \in Keys |->
        IF \E n \in DOMAIN b : Touches(b[n], k)
        THEN LET n == CHOOSE n \in DOMAIN b :
                          Touches(b[n], k) /\ \A m \in DOMAIN b : m > n => ~Touches(b[m], k)
             IN IF b[n].op = "set" THEN b[n].v ELSE "del"
        ELSE "none"]

(* The adapter keeps the storage.DB contract: its DeleteRange and Scan   *)
(* include the end key, and a batch applies its operations in order, so  *)
(* that every step is a step of StorageDB (part_007:23-131).             *)
S == INSTANCE StorageDB WITH pend <- Pending(batch)
StorageRefines == S!Spec
=============================================================================
