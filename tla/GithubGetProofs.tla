--------------------------- MODULE GithubGetProofs ---------------------------
(***************************************************************************)
(* Proofs about GithubGet, for all values of MaxRate, MaxFail and ReqCap: *)
(* the retry loop of Client.get sends a bounded number of requests, and  *)
(* every step of it is a step or a stutter of the one-shot request of    *)
(* GetAbstract.  That get returns at all is liveness and stays with TLC. *)
(***************************************************************************)
EXTENDS GithubGet, TLAPS

(* The inductive invariant: at the Redo label every request sent so far  *)
(* was a retried rate limit or a retried 500/502, both counters are      *)
(* within their budget, and no result is set yet; after the return the   *)
(* result is set.                                                        *)
IInv ==
    /\ TypeOK
    /\ pc = "redo" => /\ reqs = nrate + nfail
                      /\ nrate <= MaxRate
                      /\ nfail < MaxFail
                      /\ res = "none"
    /\ pc = "done" => /\ reqs <= MaxRate + MaxFail
                      /\ res # "none"

LEMMA InitIInv == Init => IInv
BY MaxRateAssumption, MaxFailAssumption DEF Init, IInv, TypeOK

(* Each kind of response keeps the invariant.                            *)
LEMMA RespondIInv ==
    ASSUME IInv, pc = "redo", reqs' = reqs + 1, UNCHANGED etag,
           NEW r \in Responses(etag), Respond(r)
    PROVE  IInv'
<1> USE MaxRateAssumption, MaxFailAssumption
<1>1. CASE r.code = 200
  <2>1. \E decoded \in BOOLEAN : /\ Return(IF decoded THEN "ok" ELSE "err")
                                 /\ UNCHANGED <<nrate, nfail>>
    BY <1>1 DEF Respond, RateLimit
  <2> QED
    BY <2>1 DEF Return, IInv, TypeOK
<1>2. CASE r.code = 304
  <2>1. Return("notModified") /\ UNCHANGED <<nrate, nfail>>
    BY <1>2 DEF Respond, RateLimit
  <2> QED
    BY <2>1 DEF Return, IInv, TypeOK
<1>3. CASE r.code \notin {200, 304} /\ RateLimit(r)
  BY <1>3 DEF Respond, Return, Redo, IInv, TypeOK
<1>4. CASE r.code \in {500, 502}
  <2>1. ~RateLimit(r)
    BY <1>4 DEF RateLimit
  <2> QED
    BY <1>4, <2>1 DEF Respond, Return, Redo, IInv, TypeOK
<1>5. CASE r.code \notin {200, 304, 500, 502} /\ ~RateLimit(r)
  BY <1>5 DEF Respond, Return, IInv, TypeOK
<1> QED
  BY <1>1, <1>2, <1>3, <1>4, <1>5

LEMMA NextIInv == IInv /\ [Next]_vars => IInv'
<1> SUFFICES ASSUME IInv, [Next]_vars PROVE IInv'
  OBVIOUS
<1>1. CASE Get
  <2>1. CASE Return("err") /\ UNCHANGED <<nrate, nfail>>
    BY <1>1, <2>1, MaxRateAssumption, MaxFailAssumption DEF Get, Return, IInv, TypeOK
  <2>2. CASE \E r \in Responses(etag) : Respond(r)
    BY <1>1, <2>2, RespondIInv DEF Get
  <2> QED
    BY <1>1, <2>1, <2>2 DEF Get
<1>2. CASE UNCHANGED vars
  BY <1>2 DEF vars, IInv, TypeOK
<1> QED
  BY <1>1, <1>2 DEF Next

(* Every state of one get call is well typed: the rate-limit counter    *)
(* stays within MaxRate + 1 and the 500/502 counter within MaxFail.      *)
THEOREM TypeCorrect == Spec => []TypeOK
<1>1. IInv => TypeOK
  BY DEF IInv
<1> QED
  BY InitIInv, NextIInv, <1>1, PTL DEF Spec

(* Client.get sends at most MaxRate + MaxFail requests per call          *)
(* (sync.go:519-533), whatever the server answers.                       *)
THEOREM RetriesBounded == Spec => []RequestsBounded
<1>1. IInv => RequestsBounded
  BY MaxRateAssumption, MaxFailAssumption DEF IInv, TypeOK, RequestsBounded
<1> QED
  BY InitIInv, NextIInv, <1>1, PTL DEF Spec

(* Every step of the retry loop is a stutter of the one-shot request     *)
(* (a retried request changes no result) or its single Answer step (the  *)
(* return), so Client.get implements the safety part of GetAbstract.     *)
THEOREM GetImplementsAbstract == Spec => A!SafeSpec
<1>1. Init => A!Init
  BY DEF Init, A!Init
<1>2. IInv /\ [Next]_vars => [A!Answer]_A!vars
  <2> SUFFICES ASSUME IInv, [Next]_vars PROVE [A!Answer]_A!vars
    OBVIOUS
  <2>1. CASE UNCHANGED vars
    BY <2>1 DEF vars, A!vars
  <2>2. CASE Get /\ pc' = "redo"
    <3>1. res' = res
      BY <2>2, RespondIInv, NextIInv DEF Get, Return, IInv
    <3> QED
      BY <2>2, <3>1 DEF Get, A!vars
  <2>3. CASE Get /\ pc' = "done"
    <3>1. IInv'
      BY <2>3, NextIInv
    <3>2. res' # "none" /\ res' \in {"none", "ok", "notModified", "err"}
      BY <3>1, <2>3 DEF IInv, TypeOK
    <3>3. res' = "notModified" => etag
      <4>1. CASE Return("err")
        BY <4>1 DEF Return
      <4>2. CASE \E r \in Responses(etag) : Respond(r)
        <5>1. PICK r \in Responses(etag) : Respond(r)
          BY <4>2
        <5>2. CASE r.code = 304
          BY <5>2 DEF Responses
        <5>3. CASE r.code = 200
          <6>1. \E decoded \in BOOLEAN : Return(IF decoded THEN "ok" ELSE "err")
            BY <5>1, <5>3 DEF Respond, RateLimit
          <6> QED
            BY <6>1 DEF Return
        <5>4. CASE r.code \notin {200, 304}
          BY <5>1, <5>4, <2>3 DEF Respond, Return, Redo, IInv
        <5> QED
          BY <5>2, <5>3, <5>4
      <4> QED
        BY <2>3, <4>1, <4>2 DEF Get
    <3> QED
      BY <2>3, <3>2, <3>3 DEF Get, IInv, A!Answer, A!Results
  <2> QED
    BY <2>1, <2>2, <2>3, NextIInv DEF Next, IInv, TypeOK
<1> QED
  BY <1>1, <1>2, InitIInv, NextIInv, PTL DEF Spec, A!SafeSpec
=============================================================================
