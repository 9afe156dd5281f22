----------------------------- MODULE SiteScores -----------------------------
(***************************************************************************)
(* What the audit agents make of a page: how the two analyzers see it,     *)
(* which findings the technical and the content audit have, what each      *)
(* finding costs, the scores of the competitor benchmark, the citation     *)
(* score and the aggregated report.  Texts of findings are left out.       *)
(***************************************************************************)
EXTENDS Integers, Sequences, FiniteSets, FiniteSetsExt, SequencesExt

\* What a page may have to its credit.
Merits == {"https", "direct", "alts", "robots", "sitemap", "canonical", "viewport",
           "robotsMeta", "sitemapRef", "paragraphs", "schema", "faq"}
Texts == {"none", "odd", "good"}
Links == {"none", "few", "many"}
Broken == {"no", "beyond", "yes"}
WordCounts == {0, 100, 200, 300}

\* "direct" is a page that redirects nowhere; of internal links, "few" are one or two and
\* "many" three at least; broken ones answer 404 or 500, "beyond" those after the first
\* 25 only; the text of a page that is "scripted" is only there for who runs its scripts.
Page == [merits : SUBSET Merits, title : Texts, description : Texts, h1 : 0..2, h2 : 0..3,
         h3 : 0..1, words : WordCounts, links : Links, broken : Broken, scripted : BOOLEAN]

Analyzers == {"firecrawl", "regex"}

\* The page as it is delivered, without its scripts.
Delivered(page) ==
  IF page.scripted
  THEN [page EXCEPT !.merits = (@ \ {"paragraphs", "faq"}) \union {"alts"},
                    !.h1 = 0, !.h2 = 0, !.h3 = 0, !.words = 0, !.links = "none"]
  ELSE page

\* The same shape of result whichever analyzer made it.
Analysis(page, by) == IF by = "firecrawl" THEN page ELSE Delivered(page)

Clamp(n) == Max({0, Min({100, n})})
RoundDiv(a, b) == (2 * a + b) \div (2 * b)

Topics == {"https", "redirect", "no title", "title length", "no description",
           "description length", "no h1", "multiple h1", "alt texts", "few words", "robots.txt",
           "sitemap.xml", "broken links", "very few words", "no h2", "no h3", "no topic",
           "few headings", "few links"}

\* A finding is a topic and its severity.
When(condition, topic, severity) ==
  IF condition THEN {[topic |-> topic, severity |-> severity]} ELSE {}

Charged(findings, severity) == Cardinality({f \in findings : f.severity = severity})

Penalty(findings, price) ==
    price.high * Charged(findings, "high")
  + price.medium * Charged(findings, "medium")
  + price.low * Charged(findings, "low")

TopicsOf(findings) == {f.topic : f \in findings}

-----------------------------------------------------------------------------
(* The technical audit.                                                    *)

SeoScore(page) ==
    (IF page.title # "none" THEN 35 ELSE 0)
  + (IF page.description # "none" THEN 30 ELSE 0)
  + (IF page.h1 > 0 THEN 35 ELSE 0)

OnPageFindings(page) == UNION {
  When("https" \notin page.merits, "https", "high"),
  When("direct" \notin page.merits, "redirect", "low"),
  When(page.title = "none", "no title", "high"),
  When(page.title = "odd", "title length", "medium"),
  When(page.description = "none", "no description", "high"),
  When(page.description = "odd", "description length", "low"),
  When(page.h1 = 0, "no h1", "high"),
  When(page.h1 > 1, "multiple h1", "medium")}

\* Wrong on purpose: a threshold that is not the content audit's.
LenientDepthFindings(page) == UNION {
  When("alts" \notin page.merits, "alt texts", "medium"),
  When(page.words < 200, "few words", "medium")}

DepthFindings(page) == UNION {
  When("alts" \notin page.merits, "alt texts", "medium"),
  When(page.words < 300, "few words", "medium")}

\* The first 25 internal links of the analysis are tried, if there is any; one that
\* cannot be reached or does not answer in time is lost, and counts like a broken one.
BrokenLinksFound(page, analysis, lost) ==
  analysis.links # "none" /\ (page.broken = "yes" \/ lost)

\* robots.txt, sitemap.xml and the links are fetched after the analysis.
ProbeFindings(page, analysis, lost) == UNION {
  When("robots" \notin page.merits, "robots.txt", "medium"),
  When("sitemap" \notin page.merits, "sitemap.xml", "medium"),
  When(BrokenLinksFound(page, analysis, lost), "broken links", "high")}

TechnicalPrice == [high |-> 10, medium |-> 5, low |-> 2]

TechnicalFindings(analysis, page, lost) ==
  OnPageFindings(analysis) \union DepthFindings(analysis)
    \union ProbeFindings(page, analysis, lost)

TechnicalScore(analysis, page, lost) ==
  Clamp(SeoScore(analysis) - Penalty(TechnicalFindings(analysis, page, lost), TechnicalPrice))

-----------------------------------------------------------------------------
(* The content and entity audit.                                           *)

\* Wrong on purpose: the two thresholds for few words are swapped.
SwappedContentFindings(page) == UNION {
  When(page.words < 300, "few words", "medium"),
  When(page.words >= 150 /\ page.words < 300, "very few words", "high"),
  When(page.h1 = 0, "no h1", "high"),
  When(page.title = "none", "no title", "high"),
  When(page.description = "none", "no description", "medium")}

ContentFindings(page) == UNION {
  When(page.words < 300, "few words", "medium"),
  When(page.words < 150, "very few words", "high"),
  When(page.h1 = 0, "no h1", "high"),
  When(page.h2 = 0, "no h2", "medium"),
  When(page.h2 > 2 /\ page.h3 = 0, "no h3", "low"),
  When(page.title = "none", "no title", "high"),
  When(page.description = "none", "no description", "medium")}

Headings(page) == page.h1 + page.h2 + page.h3

EntityFindings(page) == UNION {
  When(page.title = "none" /\ Headings(page) = 0, "no topic", "high"),
  When(Headings(page) < 3, "few headings", "medium"),
  When(page.links # "many", "few links", "low")}

ContentPrice == [high |-> 15, medium |-> 8, low |-> 3]

ContentAuditFindings(page) == ContentFindings(page) \union EntityFindings(page)

ContentScore(page) == Clamp(100 - Penalty(ContentAuditFindings(page), ContentPrice))

-----------------------------------------------------------------------------
(* The competitor benchmark, which fetches the page as it is delivered.    *)

Unavailable == -1

StructuralScore(page) ==
  LET p == Delivered(page) IN
  Clamp(100 - (IF p.title = "none" THEN 15 ELSE 0)
            - (IF p.description = "none" THEN 10 ELSE 0)
            - (IF p.h1 = 0 THEN 15 ELSE IF p.h1 > 1 THEN 5 ELSE 0)
            - (IF "canonical" \in p.merits THEN 0 ELSE 5)
            - (IF "viewport" \in p.merits THEN 0 ELSE 5)
            - (IF "robotsMeta" \in p.merits THEN 0 ELSE 3)
            - (IF "sitemapRef" \in p.merits THEN 0 ELSE 2))

\* Some six characters make a word.
TextLength(page) == 6 * page.words

ExtractionScore(page) ==
  LET p == Delivered(page) IN
  Clamp(100 - (IF TextLength(p) < 500 THEN 30 ELSE IF TextLength(p) < 1000 THEN 15 ELSE 0)
            - (IF p.h2 = 0 THEN 10 ELSE 0)
            - (IF "paragraphs" \in p.merits THEN 0 ELSE 10)
            - (IF "schema" \in p.merits THEN 0 ELSE 10)
            - (IF "faq" \in p.merits THEN 0 ELSE 5))

\* The mean of what could be read, 0 if nothing could.
BenchmarkScore(structural, extraction) ==
  LET known == {structural, extraction} \ {Unavailable} IN
  IF known = {} THEN 0
  ELSE IF Unavailable \in {structural, extraction} THEN Max(known)
  ELSE RoundDiv(structural + extraction, 2)

-----------------------------------------------------------------------------
(* The citation audit and the report.  Its score is kept in hundredths.    *)

CitationScore(mentions, citations, queries) ==
  RoundDiv(100 * (60 * mentions + 40 * citations), queries)

\* Derived from content and citations.
AioReadiness(content, citation) == RoundDiv(100 * content + citation, 200)

\* The categories in their order, in hundredths; a benchmark that was skipped has none.
Categories(technical, content, citation, competitor) ==
  <<100 * technical, 100 * content, 100 * AioReadiness(content, citation), citation>>
  \o (IF competitor = Unavailable THEN <<>> ELSE <<100 * competitor>>)

\* Wrong on purpose: a skipped category counts as 0.
MeanOfFive(categories) == RoundDiv(FoldSeq(+, 0, categories), 500)

OverallScore(categories) == RoundDiv(FoldSeq(+, 0, categories), 100 * Len(categories))

\* Positions in order of their scores, the first of equals first.
Earlier(categories, a, b) ==
  categories[a] < categories[b] \/ (categories[a] = categories[b] /\ a < b)

Priorities(categories) ==
  [k \in 1..3 |-> CHOOSE i \in DOMAIN categories :
     Cardinality({j \in DOMAIN categories : Earlier(categories, j, i)}) = k - 1]
=============================================================================
