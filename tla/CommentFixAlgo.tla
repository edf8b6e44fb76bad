---------------------------- MODULE CommentFixAlgo ----------------------------
(***************************************************************************)
(* Fixer.Fix and fixOne (unnamed/part_000:374-478) with the two rule      *)
(* kinds main configures (part_009:90-91): AutoLink, which turns "CL n"   *)
(* into a link to go.dev/cl/n (part_000:128-164), and ReplaceURL, which   *)
(* moves links off the old Gerrit host (part_000:213-247).                *)
(*                                                                         *)
(* A Markdown document is its parse tree: blocks (paragraphs, and quotes  *)
(* holding blocks) and inlines (plain text, links, autolinks, emphasis,   *)
(* code spans).  Text is a sequence of tokens: "CL" stands for a match of *)
(* the AutoLink pattern, "old" for a URL of the old host written as text, *)
(* "w" for anything else.  A URL is "old" (matched by the ReplaceURL      *)
(* pattern), "new" (its replacement), "golink" (the AutoLink target) or   *)
(* "x" (anything else).  Fix returns the rewritten tree; the printing of  *)
(* the tree by markdown.ToMarkdown and its parsing are not under src/ and *)
(* are left out.                                                          *)
(*                                                                         *)
(* The input is one document of a bounded set; the checks are of Fix on  *)
(* it.                                                                    *)
(***************************************************************************)
EXTENDS Naturals, Sequences

VARIABLE d

Tokens == {"w", "CL", "old"}

Plain(t) == [k |-> "plain", text |-> t]
Link(u, s) == [k |-> "link", url |-> u, inner |-> s]
(* The inline kinds fixInlines descends into.                            *)
Containers == {"link", "emph", "strong", "del"}
FlagLink == 1

(* A rule: AutoLink(`\bCL ([0-9]+)\b`, "https://go.dev/cl/$1") and        *)
(* ReplaceURL(`\Qhttps://go-review.git.corp.google.com/\E`, ...).         *)
MainRules == <<[kind |-> "autolink", url |-> "golink"],
               [kind |-> "replaceurl", old |-> "old", new |-> "new"]>>

-----------------------------------------------------------------------------
(* AutoLink's loop over the matches (part_000:143-161): text before a    *)
(* match becomes a Plain if not empty, the match a Link, and the text     *)
(* after the last match a Plain, empty or not.                           *)
RECURSIVE SplitMatches(_, _, _)
SplitMatches(t, acc, url) ==
    IF t = <<>> THEN <<Plain(acc)>>
    ELSE IF Head(t) = "CL"
    THEN (IF acc # <<>> THEN <<Plain(acc)>> ELSE <<>>)
            \o <<Link(url, <<Plain(<<"CL">>)>>)>>
            \o SplitMatches(Tail(t), <<>>, url)
    ELSE SplitMatches(Tail(t), Append(acc, Head(t)), url)

HasMatch(t) == \E n \in DOMAIN t : t[n] = "CL"

(* Mutant: AutoLink links text that is already inside a link.            *)
AutoLinkNoFlag(r, x, flags) ==
    IF x.k = "plain" /\ HasMatch(x.text)
    THEN SplitMatches(x.text, <<>>, r.url)
    ELSE <<>>

(* The AutoLink rule: no change (<<>>) inside a link or on other inlines *)
(* or text without a match; otherwise the split text.                    *)
AutoLink(r, x, flags) ==
    IF flags = 0 /\ x.k = "plain" /\ HasMatch(x.text)
    THEN SplitMatches(x.text, <<>>, r.url)
    ELSE <<>>

(* The ReplaceURL rule on an autolink or a link to the old host: the URL *)
(* is replaced, and so is the visible text when it is the old URL.       *)
ReplaceURL(r, x, flags) ==
    CASE x.k = "autolink" /\ x.url = r.old ->
            <<[x EXCEPT !.url = r.new, !.text = IF @ = r.old THEN r.new ELSE @]>>
      [] x.k = "link" /\ x.url = r.old ->
            <<[x EXCEPT !.url = r.new,
                        !.inner = IF Len(@) = 1 /\ @[1].k = "plain" /\ @[1].text = <<r.old>>
                                  THEN <<Plain(<<r.new>>)>> ELSE @]>>
      [] OTHER -> <<>>

ApplyRule(r, x, flags) ==
    IF r.kind = "autolink" THEN AutoLink(r, x, flags) ELSE ReplaceURL(r, x, flags)

(* Mutant: the link depth is not decremented after a link's inlines.     *)
RECURSIVE FixInlinesNoDecrement(_, _, _)
FixInlinesNoDecrement(r, s, link) ==
    IF s = <<>> THEN [out |-> <<>>, fixed |-> FALSE]
    ELSE LET x == Head(s)
             depth == IF x.k = "link" THEN link + 1 ELSE link
             sub == IF x.k \in Containers THEN FixInlinesNoDecrement(r, x.inner, depth)
                    ELSE [out |-> <<>>, fixed |-> FALSE]
             y == IF x.k \in Containers THEN [x EXCEPT !.inner = sub.out] ELSE x
             fx == ApplyRule(r, y, IF depth > 0 THEN FlagLink ELSE 0)
             rest == FixInlinesNoDecrement(r, Tail(s), depth)
         IN [out |-> (IF fx = <<>> THEN <<y>> ELSE fx) \o rest.out,
             fixed |-> sub.fixed \/ fx # <<>> \/ rest.fixed]

(* fixInlines (part_000:435-474): each inline's children first (a link's *)
(* one level deeper), then the rule on the inline with the depth of the  *)
(* list it is in; the inline is kept or replaced by what the rule made.  *)
(* fixed: some rule changed some inline, here or below.                  *)
RECURSIVE FixInlines(_, _, _)
FixInlines(r, s, link) ==
    IF s = <<>> THEN [out |-> <<>>, fixed |-> FALSE]
    ELSE LET x == Head(s)
             sub == IF x.k \in Containers
                    THEN FixInlines(r, x.inner, IF x.k = "link" THEN link + 1 ELSE link)
                    ELSE [out |-> <<>>, fixed |-> FALSE]
             y == IF x.k \in Containers THEN [x EXCEPT !.inner = sub.out] ELSE x
             fx == ApplyRule(r, y, IF link > 0 THEN FlagLink ELSE 0)
             rest == FixInlines(r, Tail(s), link)
         IN [out |-> (IF fx = <<>> THEN <<y>> ELSE fx) \o rest.out,
             fixed |-> sub.fixed \/ fx # <<>> \/ rest.fixed]

(* fixBlock (part_000:407-432): containers are walked, the text of a     *)
(* paragraph is fixed, other blocks (code blocks) are left alone.        *)
RECURSIVE FixBlocks(_, _)
FixBlocks(r, bs) ==
    IF bs = <<>> THEN [out |-> <<>>, fixed |-> FALSE]
    ELSE LET b == Head(bs)
             sub == CASE b.k = "para"  -> FixInlines(r, b.inlines, 0)
                      [] b.k = "quote" -> FixBlocks(r, b.blocks)
                      [] OTHER         -> [out |-> <<>>, fixed |-> FALSE]
             c == CASE b.k = "para"  -> [b EXCEPT !.inlines = sub.out]
                    [] b.k = "quote" -> [b EXCEPT !.blocks = sub.out]
                    [] OTHER         -> b
             rest == FixBlocks(r, Tail(bs))
         IN [out |-> <<c>> \o rest.out, fixed |-> sub.fixed \/ rest.fixed]

(* Fixer.Fix (part_000:374-391): each rule in turn over the document;    *)
(* the document is reported fixed when some rule changed it.             *)
RECURSIVE FixRules(_, _)
FixRules(rs, bs) ==
    IF rs = <<>> THEN [out |-> bs, fixed |-> FALSE]
    ELSE LET one == FixBlocks(Head(rs), bs)
             rest == FixRules(Tail(rs), one.out)
         IN [out |-> rest.out, fixed |-> one.fixed \/ rest.fixed]

Fix(bs) == FixRules(MainRules, bs)

-----------------------------------------------------------------------------
(* The documents checked: one paragraph, or a quote holding one, of one  *)
(* or two inlines; an inline is a text of one or two tokens, a code span, *)
(* an autolink, a link around a text or an emphasized text, or an        *)
(* emphasis around a text or a link.                                     *)
Texts == {<<a>> : a \in Tokens} \cup {<<a, b>> : a, b \in Tokens}
Plains == {Plain(t) : t \in Texts}
Emph(s) == [k |-> "emph", inner |-> s]
Links == {Link(u, <<x>>) : u \in {"old", "x"}, x \in Plains \cup {Emph(<<p>>) : p \in Plains}}
Inlines ==
    Plains \cup Links
    \cup {[k |-> "code"]}
    \cup {[k |-> "autolink", url |-> u, text |-> u] : u \in {"old", "x"}}
    \cup {Emph(<<x>>) : x \in Plains \cup Links}
InlineSeqs == {<<x>> : x \in Inlines} \cup {<<x, y>> : x, y \in Inlines}
Docs ==
    {<<[k |-> "para", inlines |-> s]>> : s \in InlineSeqs}
    \cup {<<[k |-> "quote", blocks |-> <<[k |-> "para", inlines |-> s]>>]>> : s \in InlineSeqs}

Init == d \in Docs
Next == UNCHANGED d
Spec == Init /\ [][Next]_d

-----------------------------------------------------------------------------
(* An inline sequence, and the inlines under it, hold no link inside a   *)
(* link (link depth given) and no "CL" text outside a link.              *)
RECURSIVE Linked(_, _)
Linked(s, link) ==
    \A n \in DOMAIN s :
        LET x == s[n] IN
        /\ x.k = "link" => link = 0
        /\ x.k = "plain" /\ link = 0 => ~HasMatch(x.text)
        /\ x.k \in {"link", "autolink"} => x.url # "old"
        /\ x.k \in Containers => Linked(x.inner, IF x.k = "link" THEN link + 1 ELSE link)

BlocksLinked(bs) ==
    \A n \in DOMAIN bs :
        CASE bs[n].k = "para"  -> Linked(bs[n].inlines, 0)
          [] bs[n].k = "quote" -> \A m \in DOMAIN bs[n].blocks : Linked(bs[n].blocks[m].inlines, 0)
          [] OTHER -> TRUE

(* Fix leaves no "CL n" unlinked outside links and no link to the old    *)
(* host, and never makes a link inside a link (which Markdown cannot     *)
(* write): the rewrite the Fixer posts is complete and well formed.      *)
FixComplete == BlocksLinked(Fix(d).out)

(* Fix is stable: on a document it rewrote it finds nothing more to do, *)
(* so the Fixer's own edit, coming back through the mirror, does not     *)
(* make it edit again (Run, part_000:296-298).                           *)
FixStable == Fix(d).fixed => ~Fix(Fix(d).out).fixed
=============================================================================
