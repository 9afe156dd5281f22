----------------------------- MODULE SiteAudit -----------------------------
(***************************************************************************)
(* The five agents of a stage 1 audit at work on one site                  *)
(* (stage-1-audit-pipeline.ts and agents/): what they fetch and when, how  *)
(* they fall back when a provider fails and do not when the tenant's rate  *)
(* limit refuses, what they save, and the report made of it.  The owner    *)
(* may change the site meanwhile.  What a page scores is in SiteScores;    *)
(* attempts and checkpoints of jobs are in CheckpointedJobs.               *)
(***************************************************************************)
EXTENDS SiteScores

CONSTANTS
  Pages,           \* pairs of a page and what its owner makes of it
  Queries,         \* how many questions the assistants are asked
  Models,          \* how many models OpenRouter offers in turn
  MaxAttempts,     \* attempts with each of them
  MaxSetbacks,     \* the bound on refusals of the limiter and failed steps
  NoResult

ASSUME SiteAssumption ==
  /\ Pages \subseteq Page \X Page
  /\ {Queries, Models, MaxAttempts} \subseteq Nat \ {0}
  /\ MaxSetbacks \in Nat

VARIABLES
  pages,       \* the page before and after its change
  competitors, \* whether competitors were named
  version,     \* 1 or 2
  place,       \* where the pipeline is
  step,        \* the agent at work
  work,        \* its local variables
  results,     \* what the agents saved
  report,      \* what the aggregator made of it
  setbacks     \* how often a step was refused or failed

audit == <<pages, competitors>>
siteVars == <<audit, version, place, step, work, results, report, setbacks>>

Steps == IF competitors
         THEN <<"technical", "content", "citation", "benchmark", "aggregate">>
         ELSE <<"technical", "content", "citation", "aggregate">>

\* "limited": the limiter refused one of its calls; "lost": a link did not answer.
Idle == [limited |-> FALSE, lost |-> FALSE, seen |-> {}, by |-> "regex", query |-> 1, model |-> 1, attempt |-> 1,
         mentions |-> 0, citations |-> 0, structural |-> Unavailable, extraction |-> Unavailable]

Scored == [score : 0..10000, topics : SUBSET Topics, by : Analyzers, seen : SUBSET {1, 2},
           limited : BOOLEAN, lost : BOOLEAN]

Points == {"start", "probes", "extraction", "serp", "waiting", "done", "failed"}

SiteTypeOK ==
  /\ pages \in Page \X Page /\ competitors \in BOOLEAN /\ version \in {1, 2}
  /\ place \in Points /\ step \in 1..Len(Steps) + 1
  /\ place = "done" <=> step > Len(Steps)
  /\ work.query \in 1..Queries + 1 /\ work.model \in 1..Models + 1
  /\ work.attempt \in 1..MaxAttempts
  /\ work.mentions < work.query /\ work.citations < work.query
  /\ setbacks \in 0..MaxSetbacks
  /\ \A agent \in DOMAIN results : results[agent] \in {NoResult} \union Scored

SiteInit ==
  /\ pages \in Pages /\ competitors \in BOOLEAN /\ version = 1
  /\ place = "start" /\ step = 1 /\ work = Idle
  /\ results = [s \in {"technical", "content", "citation", "benchmark"} |-> NoResult]
  /\ report = NoResult /\ setbacks = 0

-----------------------------------------------------------------------------

page == pages[version]

At(name, point) == step <= Len(Steps) /\ Steps[step] = name /\ place = point

Continue(point, memory) ==
  /\ place' = point /\ work' = memory
  /\ UNCHANGED <<audit, version, step, results, report, setbacks>>

\* The agent saves what it made of its calls, and the pipeline goes on to the next.
Save(memory, score, findings) ==
  /\ results' = [results EXCEPT ![Steps[step]] =
       [score |-> score, topics |-> TopicsOf(findings), by |-> memory.by,
        seen |-> memory.seen, limited |-> memory.limited, lost |-> memory.lost]]
  /\ place' = "start" /\ step' = step + 1 /\ work' = Idle
  /\ UNCHANGED <<audit, version, report, setbacks>>

\* RateLimitError: the job is deferred, and the step runs anew.
Refuse ==
  /\ setbacks < MaxSetbacks
  /\ place' = "waiting" /\ setbacks' = setbacks + 1
  /\ work' = [work EXCEPT !.limited = TRUE]
  /\ UNCHANGED <<audit, version, step, results, report>>

Resume ==
  /\ place = "waiting"
  /\ place' = "start" /\ work' = Idle
  /\ UNCHANGED <<audit, version, step, results, report, setbacks>>

\* A step that fails is tried again, or ends the audit.
StepFails ==
  /\ place \notin {"waiting", "done", "failed"}
  /\ \/ place' = "start" /\ setbacks < MaxSetbacks /\ setbacks' = setbacks + 1
     \/ place' = "failed" /\ UNCHANGED setbacks
  /\ work' = Idle
  /\ UNCHANGED <<audit, version, step, results, report>>

\* Firecrawl answers, or fails and the page is read without its scripts.
Analyzed(by) == [Idle EXCEPT !.seen = {version}, !.by = by]

\* Wrong on purpose: a refusal of the tenant's own limiter is made up for as well.
AnalysesAnyhow == {Analyzed(by) : by \in Analyzers} \union {[Analyzed("regex") EXCEPT !.limited = TRUE]}

\* getWebsiteAnalysis, unless the limiter refuses.
Analyses == {Analyzed(by) : by \in Analyzers}

-----------------------------------------------------------------------------
(* The technical audit: an analysis, then robots.txt, sitemap.xml, links.  *)

AnalyzePage ==
  /\ At("technical", "start")
  /\ (\E memory \in Analyses : Continue("probes", memory)) \/ Refuse

\* The page that was analysed, and the site as the probes find it.
AnalyzedPage == Analysis(pages[CHOOSE v \in work.seen : TRUE], work.by)

ProbeSite ==
  /\ At("technical", "probes")
  /\ \E lost \in BOOLEAN :
       /\ lost => AnalyzedPage.links # "none"
       /\ Save([work EXCEPT !.seen = @ \union {version}, !.lost = lost],
               TechnicalScore(AnalyzedPage, page, lost), TechnicalFindings(AnalyzedPage, page, lost))

-----------------------------------------------------------------------------

AuditContent ==
  /\ At("content", "start")
  /\ \/ \E memory \in Analyses :
          Save(memory, ContentScore(Analysis(page, memory.by)),
               ContentAuditFindings(Analysis(page, memory.by)))
     \/ Refuse

-----------------------------------------------------------------------------
(* The citation audit: every question once, with its models and attempts.  *)

Asking == At("citation", "start") /\ work.query <= Queries /\ work.model <= Models

\* The answer counts once for a mention and once for any number of citations.
ModelAnswers ==
  /\ Asking
  /\ \E mention, citation \in {0, 1} :
       Continue("start", [work EXCEPT !.query = @ + 1, !.model = 1, !.attempt = 1,
                                      !.mentions = @ + mention, !.citations = @ + citation])

\* 429, 5xx or an empty answer: the same model again, at most MaxAttempts times.
ModelFails ==
  /\ Asking
  /\ IF work.attempt < MaxAttempts
     THEN Continue("start", [work EXCEPT !.attempt = @ + 1])
     ELSE Continue("start", [work EXCEPT !.model = @ + 1, !.attempt = 1])

\* Any other error, a bad key too: the next model.
ModelRefusesRequest ==
  /\ Asking
  /\ Continue("start", [work EXCEPT !.model = @ + 1, !.attempt = 1])

ModelIsLimited == Asking /\ Refuse

\* runOpenRouter throws, and the agent's result is lost with it.
NoModelAnswers ==
  /\ At("citation", "start") /\ work.model > Models
  /\ StepFails

SaveCitations ==
  /\ At("citation", "start") /\ work.query > Queries
  /\ Save(work, CitationScore(work.mentions, work.citations, Queries), {})

-----------------------------------------------------------------------------
(* The competitor benchmark: the own site is fetched twice, then SerpApi   *)
(* is asked; competitors are handled alike and do not count for the score. *)

FetchStructure ==
  /\ At("benchmark", "start")
  /\ \E score \in {StructuralScore(page), Unavailable} :
       Continue("extraction", [work EXCEPT !.structural = score])

FetchContent ==
  /\ At("benchmark", "extraction")
  /\ \E score \in {ExtractionScore(page), Unavailable} :
       Continue("serp", [work EXCEPT !.extraction = score])

\* SerpApi answers or is unavailable, which the saved benchmark notes; or it is limited.
LookUpIndex ==
  /\ At("benchmark", "serp")
  /\ \/ Save(work, BenchmarkScore(work.structural, work.extraction), {})
     \/ Refuse

-----------------------------------------------------------------------------

CategoriesOf ==
  Categories(results["technical"].score, results["content"].score, results["citation"].score,
             IF competitors THEN results["benchmark"].score ELSE Unavailable)

Aggregate ==
  /\ At("aggregate", "start")
  /\ report' = [categories |-> CategoriesOf, overall |-> OverallScore(CategoriesOf),
                priorities |-> Priorities(CategoriesOf)]
  /\ place' = "done" /\ step' = step + 1
  /\ UNCHANGED <<audit, version, work, results, setbacks>>

ChangeSite ==
  /\ version = 1 /\ place \notin {"done", "failed"}
  /\ version' = 2
  /\ UNCHANGED <<audit, place, step, work, results, report, setbacks>>

PageStep == AnalyzePage \/ ProbeSite \/ AuditContent

CitationStep ==
  \/ ModelAnswers \/ ModelFails \/ ModelRefusesRequest \/ ModelIsLimited
  \/ NoModelAnswers \/ SaveCitations

BenchmarkStep == FetchStructure \/ FetchContent \/ LookUpIndex

SiteNext ==
  \/ PageStep \/ CitationStep \/ BenchmarkStep \/ Aggregate
  \/ Resume \/ StepFails \/ ChangeSite

SiteSpec == SiteInit /\ [][SiteNext]_siteVars

-----------------------------------------------------------------------------
(* Properties.                                                             *)

Saved(agent) == results[agent] # NoResult

\* q is p with one thing about it made better.
Rank(text) == IF text = "none" THEN 0 ELSE IF text = "odd" THEN 1 ELSE 2

Improves(p, q) ==
  /\ p.merits \subseteq q.merits
  /\ Rank(p.title) <= Rank(q.title) /\ Rank(p.description) <= Rank(q.description)
  /\ p.h1 = q.h1 \/ q.h1 = 1
  /\ p.h2 <= q.h2 /\ p.h3 <= q.h3 /\ p.words <= q.words
  /\ p.links = q.links \/ p.links = "none" \/ q.links = "many"
  /\ p.broken = q.broken \/ q.broken = "no"
  /\ p.links = "none" /\ q.links # "none" => q.broken # "yes"
  /\ p.scripted = q.scripted

\* The last of several H1 is one heading less, and a third H2 asks for an H3.
HeadingsAreRecounted(p, q) == q.h1 < p.h1 \/ (p.h2 <= 2 /\ q.h2 > 2 /\ q.h3 = 0)

\* In a completed audit, a site that was only improved scores no less than it did, read by
\* the same analyzer: in the technical audit if every link answered, in the content audit
\* unless its headings are recounted.  Dozens of thresholds and prices in the two agents
\* agree on what is better (technical-audit-agent.ts, content-entity-audit-agent.ts).
ImprovementsDoNotCost ==
  (report # NoResult /\ Improves(pages[1], pages[2])) =>
    /\ (results["technical"].seen = {2} /\ ~results["technical"].lost) =>
         results["technical"].score >=
           TechnicalScore(Analysis(pages[1], results["technical"].by), pages[1],
                          results["technical"].lost)
    /\ (results["content"].seen = {2} /\ ~HeadingsAreRecounted(pages[1], pages[2])) =>
         results["content"].score >= ContentScore(Analysis(pages[1], results["content"].by))

CommonTopics == {"no title", "no description", "no h1", "few words"}

\* In a completed audit the technical and the content audit, each with an analysis and thresholds of its own,
\* do not contradict each other about the same page read by the same analyzer.
AgentsAgree ==
  (/\ report # NoResult
   /\ results["technical"].by = results["content"].by
   /\ results["technical"].seen = results["content"].seen) =>
    results["technical"].topics \intersect CommonTopics
      = results["content"].topics \intersect CommonTopics

\* "So it doesn't unfairly drag the overall score down" (audit-aggregator-agent.ts:356):
\* the overall score is between the worst and the best of the categories that were
\* audited, up to its rounding to whole points, with and without competitors; and
\* the report's three priorities are the weakest of them, the weakest first.
OverallIsFair ==
  report # NoResult =>
    LET Score(i) == report.categories[report.priorities[i]] IN
    /\ \A i \in 1..2 : Score(i) <= Score(i + 1)
    /\ \A other \in DOMAIN report.categories \ Range(report.priorities) :
         Score(3) <= report.categories[other]
    /\ 100 * report.overall >= Min(Range(report.categories)) - 50
    /\ 100 * report.overall <= Max(Range(report.categories)) + 50

\* "Do not bake 'unavailable' into the saved benchmark" (competitor-benchmark-agent.ts:446)
\* and "falling back would quietly finish the audit with the weaker analyzer"
\* (firecrawl-website-analyzer.ts:211): nothing is saved of a step in which the
\* tenant's rate limit refused a call.  (The types come with it.)
RateLimitsAreNotBakedIn ==
  /\ SiteTypeOK
  /\ \A agent \in DOMAIN results : Saved(agent) => ~results[agent].limited
=============================================================================
