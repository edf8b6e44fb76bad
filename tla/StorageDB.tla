------------------------------ MODULE StorageDB ------------------------------
(***************************************************************************)
(* The contract of storage.DB and storage.Batch (unnamed/part_007:23-131) *)
(* for one client: Set, Get, Delete, DeleteRange and Scan over keys in    *)
(* their byte order, with both bounds of DeleteRange and Scan included,   *)
(* and batches whose operations apply in the order they were made, all   *)
(* at once.  A batch is what it will do to each key: nothing ("none"),   *)
(* delete it ("del") or set it to a value; a later operation on a key    *)
(* overrides an earlier one (part_007:102-105).  out is the last call:   *)
(* its name and arguments, and its result: a value (None: absent, or no  *)
(* result), the <<key, value>> pairs a Scan yields, or whether           *)
(* MaybeApply applied.  Durability (Flush) is not part of this module.   *)
(***************************************************************************)
EXTENDS Naturals, Sequences, FiniteSets

CONSTANTS
    Keys,   \* keys, as numbers in their byte order
    Vals,   \* values
    None    \* no value

VARIABLES kv, pend, out

vars == <<kv, pend, out>>

(* Each key that the operation on [s, e] (both included) touches gets    *)
(* effect x.                                                             *)
Over(f, s, e, x) == [k \in Keys |-> IF s <= k /\ k <= e THEN x ELSE f[k]]

(* The keys of [s, e] that hold a value, in order, with their values.    *)
InRange(m, s, e) == {k \in Keys : s <= k /\ k <= e /\ m[k] # None}
Ranked(m, s, e, i) ==
    CHOOSE k \in InRange(m, s, e) : Cardinality({j \in InRange(m, s, e) : j <= k}) = i
ScanOf(m, s, e) ==
    [i \in 1..Cardinality(InRange(m, s, e)) |-> <<Ranked(m, s, e, i), m[Ranked(m, s, e, i)]>>]

(* What the batch does to key k when it is applied.                      *)
Applied(m, p) == [k \in Keys |-> CASE p[k] = "none" -> m[k]
                                   [] p[k] = "del"  -> None
                                   [] OTHER         -> p[k]]

NoPend == [k \in Keys |-> "none"]

(* out records the last call made and its result.                       *)
Did(c, r) == out' = [call |-> c, res |-> r]

Init == kv = [k \in Keys |-> None] /\ pend = NoPend /\ out = [call |-> <<>>, res |-> None]

Set(k, v) == kv' = [kv EXCEPT ![k] = v] /\ Did(<<"Set", k, v>>, None) /\ UNCHANGED pend
Get(k) == Did(<<"Get", k>>, kv[k]) /\ UNCHANGED <<kv, pend>>
Delete(k) == kv' = [kv EXCEPT ![k] = None] /\ Did(<<"Delete", k>>, None) /\ UNCHANGED pend
DeleteRange(s, e) ==
    kv' = Over(kv, s, e, None) /\ Did(<<"DeleteRange", s, e>>, None) /\ UNCHANGED pend
Scan(s, e) == Did(<<"Scan", s, e>>, ScanOf(kv, s, e)) /\ UNCHANGED <<kv, pend>>
BatchSet(k, v) ==
    pend' = [pend EXCEPT ![k] = v] /\ Did(<<"BatchSet", k, v>>, None) /\ UNCHANGED kv
BatchDelete(k) ==
    pend' = [pend EXCEPT ![k] = "del"] /\ Did(<<"BatchDelete", k>>, None) /\ UNCHANGED kv
BatchDeleteRange(s, e) ==
    pend' = Over(pend, s, e, "del") /\ Did(<<"BatchDeleteRange", s, e>>, None) /\ UNCHANGED kv
Apply == kv' = Applied(kv, pend) /\ pend' = NoPend /\ Did(<<"Apply">>, None)
(* MaybeApply applies the batch, or leaves it and reports that it did    *)
(* not: the bound is the implementation's.                               *)
MaybeApply ==
    \/ kv' = Applied(kv, pend) /\ pend' = NoPend /\ Did(<<"MaybeApply">>, TRUE)
    \/ Did(<<"MaybeApply">>, FALSE) /\ UNCHANGED <<kv, pend>>

Next ==
    \/ \E k \in Keys, v \in Vals : Set(k, v) \/ BatchSet(k, v)
    \/ \E k \in Keys : Get(k) \/ Delete(k) \/ BatchDelete(k)
    \/ \E s, e \in Keys : DeleteRange(s, e) \/ Scan(s, e) \/ BatchDeleteRange(s, e)
    \/ Apply
    \/ MaybeApply

Spec == Init /\ [][Next]_vars
=============================================================================
