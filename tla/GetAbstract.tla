----------------------------- MODULE GetAbstract -----------------------------
(***************************************************************************)
(* What Client.get (internal/github/sync.go) promises its callers: one    *)
(* call, made with or without an ETag, ends with exactly one result, and  *)
(* it does end.  The result is the decoded object ("ok"), errNotModified  *)
(* ("notModified", possible only when an ETag was sent) or an error.      *)
(* This is how GithubSync.tla treats every request: a step that succeeds, *)
(* answers 304 or fails.                                                  *)
(***************************************************************************)
VARIABLES
    etag,   \* whether the call sends If-None-Match
    res     \* "none" while the call runs, then its result

vars == <<etag, res>>

(* The results a call may return.                                         *)
Results(e) == {"ok", "err"} \cup (IF e THEN {"notModified"} ELSE {})

Init == etag \in BOOLEAN /\ res = "none"

(* The call returns.                                                      *)
Answer == res = "none" /\ res' \in Results(etag) /\ UNCHANGED etag

(* The safety part: the call returns at most once, with an allowed result. *)
SafeSpec == Init /\ [][Answer]_vars

Spec == SafeSpec /\ WF_vars(Answer)
=============================================================================
