----------------------------- MODULE MCSiteAudit -----------------------------
(* TLC's run of SiteAudit. *)
EXTENDS SiteAudit

Best == [merits |-> Merits, title |-> "good", description |-> "good", h1 |-> 1, h2 |-> 2,
         h3 |-> 1, words |-> 300, links |-> "many", broken |-> "no", scripted |-> FALSE]

Worst == [merits |-> {}, title |-> "none", description |-> "none", h1 |-> 0, h2 |-> 0,
          h3 |-> 0, words |-> 0, links |-> "none", broken |-> "no", scripted |-> FALSE]

Scripted == [Best EXCEPT !.scripted = TRUE, !.merits = @ \ {"faq", "robots"}, !.h2 = 3]

Plain == [Best EXCEPT !.merits = {"https", "direct", "paragraphs"}, !.h2 = 1, !.h3 = 0,
                      !.links = "few"]

\* Pairs that differ in one thing, around a page.
Neighbours(p) ==
  UNION {
    {<<[p EXCEPT !.merits = @ \ {merit}], [p EXCEPT !.merits = @ \union {merit}]>> :
       merit \in {"https", "direct", "alts", "robots", "sitemap"}},
    {<<[p EXCEPT !.links = a], [p EXCEPT !.links = b]>> : a, b \in Links},
    {<<[p EXCEPT !.title = a], [p EXCEPT !.title = b]>> : a, b \in Texts},
    {<<[p EXCEPT !.description = a], [p EXCEPT !.description = b]>> : a, b \in Texts},
    {<<[p EXCEPT !.h1 = a], [p EXCEPT !.h1 = 1]>> : a \in 0..2},
    {<<[p EXCEPT !.h2 = a], [p EXCEPT !.h2 = a + 1]>> : a \in 0..2},
    {<<[p EXCEPT !.h3 = 0], [p EXCEPT !.h3 = 1]>>},
    {<<[p EXCEPT !.words = a], [p EXCEPT !.words = a + 100]>> : a \in WordCounts \ {300}},
    {<<[p EXCEPT !.broken = a], [p EXCEPT !.broken = "no"]>> : a \in Broken}}

Changes == {change \in UNION {Neighbours(p) : p \in {Best, Worst, Scripted, Plain}} :
              Improves(change[1], change[2])}
==============================================================================
