------------------------------ MODULE GithubGet ------------------------------
(***************************************************************************)
(* One call of Client.get (internal/github/sync.go:479-537) with its      *)
(* retry loop (the `Redo:` label) and Client.rateLimit (603-625).  Each   *)
(* Get step is one HTTP request and the handling of its response: a       *)
(* transport or body error, 200 (whose JSON may fail to decode), 304, a   *)
(* rate-limit 403 (retried up to MaxRate times), a 500/502 (tried up to   *)
(* MaxFail times), or any other status.  The sleeps are left out: they    *)
(* delay the next request and change nothing else.  A response is the    *)
(* status code and the two headers rateLimit reads; the reset time is     *)
(* classified as rateLimit compares it with time.Now.                     *)
(*                                                                         *)
(* The module refines GetAbstract: res is the result the caller sees.     *)
(***************************************************************************)
EXTENDS Naturals

CONSTANTS
    MaxRate,   \* rate-limit answers retried before giving up (20)
    MaxFail,   \* tries of a request answered with 500 or 502 (3)
    ReqCap     \* bound on requests per call, for model checking only

ASSUME MaxRateAssumption == MaxRate \in Nat
ASSUME MaxFailAssumption == MaxFail \in Nat \ {0}
ASSUME ReqCapAssumption == ReqCap \in Nat

VARIABLES
    etag,    \* etag != "": the request carries If-None-Match
    pc,      \* "redo" at the Redo label, "done" after the return
    nrate,   \* rate-limit answers so far
    nfail,   \* 500/502 answers so far
    res,     \* "none" until get returns, then "ok", "notModified" or "err"
    reqs     \* requests sent so far (history)

vars == <<etag, pc, nrate, nfail, res, reqs>>

Codes == {200, 304, 403, 404, 500, 502}
(* X-Ratelimit-Reset: absent or 0, more than 2 minutes ago, less than 2   *)
(* minutes ago, or in the future.                                         *)
Resets == {"zero", "stale", "recent", "future"}
(* A server answers 304 only to a request with If-None-Match.            *)
Responses(e) == {r \in [code : Codes, remaining0 : BOOLEAN, reset : Resets] :
                    r.code = 304 => e}

(* rateLimit: a 403 with X-Ratelimit-Remaining "0" and a reset time that  *)
(* is set and not more than two minutes in the past (it sleeps until the *)
(* reset when that is in the future).                                    *)
RateLimit(r) ==
    /\ r.code = 403
    /\ r.remaining0
    /\ r.reset \notin {"zero", "stale"}

Return(x) == pc' = "done" /\ res' = x
Redo == pc' = "redo" /\ res' = res

(* Mutant: a rate-limit answer is retried without counting it.           *)
RespondNoRateCount(r) ==
    CASE r.code = 200 -> \E decoded \in BOOLEAN :
                            /\ Return(IF decoded THEN "ok" ELSE "err")
                            /\ UNCHANGED <<nrate, nfail>>
      [] r.code = 304 -> Return("notModified") /\ UNCHANGED <<nrate, nfail>>
      [] RateLimit(r) -> /\ nrate' = nrate
                         /\ UNCHANGED nfail
                         /\ IF nrate + 1 > MaxRate THEN Return("err") ELSE Redo
      [] r.code \in {500, 502} ->
                         /\ nfail' = nfail + 1
                         /\ UNCHANGED nrate
                         /\ IF nfail + 1 < MaxFail THEN Redo ELSE Return("err")
      [] OTHER -> Return("err") /\ UNCHANGED <<nrate, nfail>>

(* Mutant: a 500/502 is tried once more than the code allows.            *)
RespondFailOneMore(r) ==
    CASE r.code = 200 -> \E decoded \in BOOLEAN :
                            /\ Return(IF decoded THEN "ok" ELSE "err")
                            /\ UNCHANGED <<nrate, nfail>>
      [] r.code = 304 -> Return("notModified") /\ UNCHANGED <<nrate, nfail>>
      [] RateLimit(r) -> /\ nrate' = nrate + 1
                         /\ UNCHANGED nfail
                         /\ IF nrate + 1 > MaxRate THEN Return("err") ELSE Redo
      [] r.code \in {500, 502} ->
                         /\ nfail' = nfail + 1
                         /\ UNCHANGED nrate
                         /\ IF nfail + 1 <= MaxFail THEN Redo ELSE Return("err")
      [] OTHER -> Return("err") /\ UNCHANGED <<nrate, nfail>>

(* The status handling after a response was read (sync.go:513-536).      *)
Respond(r) ==
    CASE r.code = 200 -> \E decoded \in BOOLEAN :
                            /\ Return(IF decoded THEN "ok" ELSE "err")
                            /\ UNCHANGED <<nrate, nfail>>
      [] r.code = 304 -> Return("notModified") /\ UNCHANGED <<nrate, nfail>>
      [] RateLimit(r) -> /\ nrate' = nrate + 1
                         /\ UNCHANGED nfail
                         /\ IF nrate + 1 > MaxRate THEN Return("err") ELSE Redo
      [] r.code \in {500, 502} ->
                         /\ nfail' = nfail + 1
                         /\ UNCHANGED nrate
                         /\ IF nfail + 1 < MaxFail THEN Redo ELSE Return("err")
      [] OTHER -> Return("err") /\ UNCHANGED <<nrate, nfail>>

(* The call starts at Redo with both counters 0.                         *)
Init ==
    /\ etag \in BOOLEAN
    /\ pc = "redo"
    /\ nrate = 0
    /\ nfail = 0
    /\ res = "none"
    /\ reqs = 0

(* One request: http.Do or reading the body fails, or a response is      *)
(* handled.                                                               *)
Get ==
    /\ pc = "redo"
    /\ reqs < ReqCap
    /\ reqs' = reqs + 1
    /\ UNCHANGED etag
    /\ \/ Return("err") /\ UNCHANGED <<nrate, nfail>>
       \/ \E r \in Responses(etag) : Respond(r)

Next == Get

(* The server answers every request: http.DefaultClient has no timeout,  *)
(* so a request that never gets an answer blocks get for good.           *)
Spec == Init /\ [][Next]_vars /\ WF_vars(Get)

-----------------------------------------------------------------------------
TypeOK ==
    /\ etag \in BOOLEAN
    /\ pc \in {"redo", "done"}
    /\ nrate \in 0..MaxRate + 1
    /\ nfail \in 0..MaxFail
    /\ res \in {"none", "ok", "notModified", "err"}
    /\ reqs \in Nat

(* The retries of get are bounded: one call sends at most MaxRate +      *)
(* MaxFail requests (20 rate-limit retries, 2 retries after a 500/502,   *)
(* and the last request), whatever mix of answers the server sends.      *)
RequestsBounded == reqs <= MaxRate + MaxFail

(* get implements the one-shot request its callers assume: it returns    *)
(* exactly once, with a result GetAbstract allows, and it does return.   *)
A == INSTANCE GetAbstract
GetRefines == A!Spec
=============================================================================
