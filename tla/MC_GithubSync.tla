--------------------------- MODULE MC_GithubSync ---------------------------
(* Instances of GithubSync for TLC: one comment on issue 1, and the page   *)
(* sizes of the runs.                                                      *)
EXTENDS GithubSync

CONSTANTS c1

MCComments == {c1}
MCCommentIssue == [c \in Comments |-> 1]

(* Issues and comments fit one page; the events feed spans pages.         *)
MCPerPageWide == [a \in APIs |-> IF a = "/issues/events" THEN 1 ELSE NIssues]

(* Every feed holds two entries a page.                                   *)
MCPerPageTwo == [a \in APIs |-> 2]

(* Every feed has one entry per page, so by-date syncs restart.           *)
MCPerPageOne == [a \in APIs |-> 1]
=============================================================================
