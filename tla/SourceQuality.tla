----------------------------- MODULE SourceQuality -----------------------------
(***************************************************************************)
(* How a search hit is judged before anything is fetched: which domains    *)
(* count as the competitor's own, the role and the score of a hit for a    *)
(* research task, the gate that authority cannot lift it over, and the     *)
(* order in which hits are offered for collection                          *)
(* (backend/app/collection/source_quality.py).                             *)
(*                                                                         *)
(* A hit is what its text shows, not the text:                             *)
(*   domain  its registrable domain          rank   its place in its search*)
(*   names   where it names the competitor: title, site, snippet, host,    *)
(*           path (as the first segment)                                   *)
(*   brand   its domain's label is the competitor's Latin name             *)
(*   place   home page, documentation host or path, another official       *)
(*           looking surface, or plain                                     *)
(*   marks   the marker lists its text matches                             *)
(*   fitting its page is of the kind an official page of the dimension has *)
(*   overlap how much of the task's wording it shares, 0..10               *)
(*   age     "none" or the band of years since it was published            *)
(* Scores are in hundredths.                                               *)
(***************************************************************************)
EXTENDS Integers, Sequences, FiniteSets, SequencesExt, FiniteSetsExt

MinCollection == 2000
GateCap == MinCollection - 1

Keyed == {"positioning", "feature", "pricing", "ecosystem"}

Roles == <<"primary", "authoritative_secondary", "general_third_party",
           "community", "low_quality">>

RolePriority(r) == CHOOSE i \in DOMAIN Roles : Roles[i] = r

(* The lists of words that a hit's text is searched for, and the words of  *)
(* the task that may ask for what they name; near_task and dimension are   *)
(* for the dimension of the task. *)
MarkerLists == {"generic_tutorial", "aggregate", "seo", "legal", "secondary", "repost",
                "community_host", "community_text", "near_task", "dimension"}

Asked == {"legal", "tutorial", "experience"}

Places == {"home", "docs_host", "docs_path", "about", "product", "plain"}

-----------------------------------------------------------------------------
(* The dimension of a task is known by words of its name; the specific     *)
(* ones are looked for before the broad ones. *)

DimensionOrder == <<"ecosystem", "pricing", "positioning", "feature", "customer", "risk">>

CanonicalDimension(words) ==
    LET named == {i \in DOMAIN DimensionOrder : DimensionOrder[i] \in words}
    IN  IF named = {} THEN "other" ELSE DimensionOrder[Min(named)]

(* The domains known to be the competitor's: those the task's metadata     *)
(* lists and those of the sources that were stored as confirmed. *)
ConfirmedDomains(task, sources) ==
    task.confirmed \cup {s.domain : s \in {s \in sources : s.competitor = task.competitor
                                                            /\ s.confirmed}}

Identified(hit) == hit.names \cap {"title", "site", "snippet"} # {}

LooksOfficial(hit, task) ==
    \/ hit.brand /\ Identified(hit)
    \/ /\ task.short /\ Identified(hit)
       /\ \/ hit.place = "docs_host" /\ hit.names \cap {"site", "path"} # {}
          \/ hit.place = "docs_path" /\ "site" \in hit.names

OfficialConfidence(hit, task, confirmed) ==
    CASE hit.domain \in confirmed -> "confirmed"
      [] hit.domain \in task.rejected \ confirmed -> "rejected"
      [] hit.domain \in task.probable \ (confirmed \cup task.rejected) -> "probable"
      [] OTHER -> IF LooksOfficial(hit, task) THEN "probable" ELSE "unknown"

-----------------------------------------------------------------------------
(* The signals. *)

NamedInUrl(hit) == hit.names \cap {"host", "path"} # {}
NamedInTitle(hit) == hit.names \cap {"title", "site"} # {}
NamedFirst(hit) == NamedInUrl(hit) \/ NamedInTitle(hit)
Named(hit) == hit.names # {}

Documentation(hit) == hit.place \in {"docs_host", "docs_path"}
OfficialSurface(hit) == hit.place # "plain"

Community(hit) ==
    \/ "community_host" \in hit.marks
    \/ "community_text" \in hit.marks /\ "secondary" \notin hit.marks

StrongMatch(hit, task) ==
    LET dimension == CanonicalDimension(task.words) IN
    \/ dimension = "other"
    \/ dimension \in Keyed /\ "dimension" \in hit.marks
    \/ dimension = "feature" /\ Documentation(hit) /\ Named(hit)

(* A competitor whose name has two letters may be named by chance. *)
Corroborated(hit, task) ==
    ~task.short \/
       /\ Named(hit)
       /\ \/ NamedInUrl(hit) /\ (NamedInTitle(hit) \/ "snippet" \in hit.names)
          \/ "near_task" \in hit.marks
          \/ Documentation(hit) /\ NamedInTitle(hit) /\ "snippet" \in hit.names

(* A tutorial that neither the owner wrote nor the task asks experience of. *)
ForeignTutorial(hit, task, confidence) ==
    "seo" \in hit.marks /\ confidence # "confirmed" /\ "experience" \notin task.asks

BareAggregate(hit, confidence) ==
    "aggregate" \in hit.marks /\ ~(confidence = "confirmed" /\ OfficialSurface(hit))

(* The role is that of the first rule that applies. *)
SourceRole(hit, task, confidence) ==
    LET rules == <<
            [if |-> \/ "generic_tutorial" \in hit.marks /\ ~Named(hit)
                    \/ ForeignTutorial(hit, task, confidence)
                    \/ Community(hit) /\ ~Named(hit),              role |-> "low_quality"],
            [if |-> Community(hit) /\ "community_text" \in hit.marks, role |-> "community"],
            [if |-> confidence = "confirmed" /\ Named(hit),        role |-> "primary"],
            [if |-> Community(hit),                                role |-> "community"],
            [if |-> \/ "aggregate" \in hit.marks
                    \/ "seo" \in hit.marks /\ "secondary" \notin hit.marks,
                                                                   role |-> "low_quality"],
            [if |-> "secondary" \in hit.marks,         role |-> "authoritative_secondary"],
            [if |-> Named(hit),                            role |-> "general_third_party"],
            [if |-> TRUE,                                          role |-> "low_quality"]>>
    IN  rules[Min({i \in DOMAIN rules : rules[i].if})].role

-----------------------------------------------------------------------------
(* The parts of the score. *)

RelevanceScore(hit, task, confidence) ==
    LET naming == IF NamedFirst(hit) THEN 2400
                  ELSE IF "snippet" \in hit.names THEN 1800
                  ELSE IF confidence = "confirmed" THEN 2000 ELSE 0
        wording == 100 * hit.overlap
        keywords == IF CanonicalDimension(task.words) \in Keyed
                    THEN <<0, 400, 600>>[hit.keywords + 1] ELSE 0
    IN  naming + wording + keywords

(* What a role is worth to each dimension: by the order of Roles, and what *)
(* a community page is worth to a task that asks for experience. *)
FitOf == [positioning |-> [roles |-> <<22, 16, 11, 7, 2>>, experience |-> 10],
          feature     |-> [roles |-> <<21, 16, 12, 11, 2>>, experience |-> 15],
          pricing     |-> [roles |-> <<20, 16, 10, 8, 1>>, experience |-> 13],
          ecosystem   |-> [roles |-> <<20, 17, 12, 12, 2>>, experience |-> 15]]

Smaller(a, b) == IF a < b THEN a ELSE b

DimensionFitScore(hit, task, role, confidence, relevance) ==
    LET dimension == CanonicalDimension(task.words)
        experience == role = "community" /\ "experience" \in task.asks
        base == Smaller(IF role = "low_quality" THEN 500 ELSE 2500, 500 + relevance \div 2)
        floors == UNION {
            IF confidence = "confirmed" \/ experience THEN {2000} ELSE {},
            IF role = "primary" /\ hit.fitting THEN {2000} ELSE {},
            IF role = "primary" /\ hit.place = "home" THEN {2200} ELSE {}}
    IN
    IF "generic_tutorial" \in hit.marks /\ ~Named(hit) THEN 0
    ELSE IF dimension \notin Keyed
    THEN Max({base} \cup floors)
    ELSE IF role = "primary" /\ hit.fitting THEN 2500
    ELSE 100 * (IF experience THEN FitOf[dimension].experience
                ELSE FitOf[dimension].roles[RolePriority(role)])

AuthorityScore(role, task) ==
    IF role = "community" /\ "experience" \in task.asks THEN 2000
    ELSE 100 * <<25, 18, 10, 12, 2>>[RolePriority(role)]

(* Age bands: at most one, two and four years, and more. *)
FreshnessScore(hit, task) ==
    LET sensitive == CanonicalDimension(task.words) \in {"feature", "pricing", "ecosystem"} IN
    IF hit.age = "none" THEN 0
    ELSE 100 * (IF sensitive THEN <<10, 7, 4, 1>> ELSE <<7, 5, 3, 1>>)[hit.age]

PenaltyOf == [target_entity_missing |-> 3600, generic_tutorial |-> 3000,
              aggregator_navigation_or_seo |-> 2200, third_party_tutorial |-> 2500,
              repost_without_primary_provenance |-> 1500,
              objective_relevance_very_weak |-> 1500, objective_relevance_weak |-> 800]

Penalties(hit, task, confidence, relevance) ==
    {p \in DOMAIN PenaltyOf :
        CASE p = "target_entity_missing" ->
                ~Named(hit) /\ confidence # "confirmed" /\ hit.domain \notin task.associated
          [] p = "generic_tutorial" -> "generic_tutorial" \in hit.marks /\ ~Named(hit)
          [] p = "aggregator_navigation_or_seo" -> BareAggregate(hit, confidence)
          [] p = "third_party_tutorial" -> ForeignTutorial(hit, task, confidence)
          [] p = "repost_without_primary_provenance" ->
                "repost" \in hit.marks /\ confidence # "confirmed"
          [] p = "objective_relevance_very_weak" -> relevance < 1200
          [] p = "objective_relevance_weak" -> relevance \in 1200..1999}

(* Why authority must not rescue a hit that does not fit the task. *)
GateReason(hit, task, confidence) ==
    LET unasked == "seo" \in hit.marks /\ task.asks \cap {"tutorial", "experience"} = {}
        reasons == <<
            [if |-> task.short /\ Named(hit) /\ ~Corroborated(hit, task),
             why |-> "short_target"],
            [if |-> "legal" \in hit.marks /\ "legal" \notin task.asks, why |-> "legal_policy"],
            [if |-> ~StrongMatch(hit, task), why |-> "dimension_not_matched"],
            [if |-> unasked /\ confidence # "confirmed", why |-> "foreign_tutorial"],
            [if |-> unasked /\ ~OfficialSurface(hit), why |-> "official_tutorial"],
            [if |-> BareAggregate(hit, confidence), why |-> "aggregate_page"],
            [if |-> TRUE, why |-> ""]>>
    IN  reasons[Min({i \in DOMAIN reasons : reasons[i].if})].why

-----------------------------------------------------------------------------

(* A gated hit is held below the line; the penalties keep the gate's name. *)
Score(hit, task, sources) ==
    LET confidence == OfficialConfidence(hit, task, ConfirmedDomains(task, sources))
        role == SourceRole(hit, task, confidence)
        relevance == RelevanceScore(hit, task, confidence)
        penalties == Penalties(hit, task, confidence, relevance)
        raw == relevance + DimensionFitScore(hit, task, role, confidence, relevance)
                 + AuthorityScore(role, task) + FreshnessScore(hit, task)
                 - MapThenSumSet(LAMBDA p : PenaltyOf[p], penalties)
        gate == GateReason(hit, task, confidence)
        gated == gate # "" /\ raw > GateCap
    IN  [hit |-> hit, confidence |-> confidence, role |-> role, relevance |-> relevance,
         penalties |-> penalties, gate |-> IF gated THEN gate ELSE "",
         final |-> IF gated THEN Smaller(GateCap, (relevance * 3) \div 5) ELSE raw]

(* Hits are offered role by role; within a role the score counts, less a   *)
(* penalty for each hit of the same domain that was offered before. *)
DiversityPenalty(candidate, offered) ==
    LET before == Cardinality({i \in DOMAIN offered :
                                  offered[i].hit.domain = candidate.hit.domain})
    IN  Smaller(1200, before * (IF candidate.role = "primary" THEN 200 ELSE 400))

Before(a, b, offered) ==
    LET Key(c) == <<-RolePriority(c.role), c.final - DiversityPenalty(c, offered),
                    c.final, -c.hit.rank, c.hit.url>>
        differ == {i \in 1..5 : Key(a)[i] # Key(b)[i]}
    IN  differ # {} /\ Key(a)[Min(differ)] > Key(b)[Min(differ)]

Ranked(candidates) ==
    FoldLeft(LAMBDA offered, n :
                LET left == candidates \ ToSet(offered) IN
                Append(offered, CHOOSE c \in left :
                                   \A d \in left \ {c} : Before(c, d, offered)),
             <<>>, [i \in 1..Cardinality(candidates) |-> i])

Rank(hits, task, sources) == Ranked({Score(h, task, sources) : h \in hits})

(* What is good enough to be collected; a page of the competitor's own     *)
(* domains need not reach the line of the score (collection/service.py).   *)
HardRejections == {"target_entity_missing", "generic_tutorial", "aggregator_navigation_or_seo",
                   "third_party_tutorial", "repost_without_primary_provenance"}

FirstPartyPasses(candidate, hosts) ==
    /\ candidate.hit.domain \in hosts
    /\ candidate.relevance >= 1200
    /\ candidate.penalties \cap HardRejections = {}
    /\ candidate.gate \notin {"short_target", "legal_policy", "foreign_tutorial",
                            "official_tutorial", "aggregate_page"}

PassesQuality(candidate, hosts) ==
    candidate.final >= MinCollection \/ FirstPartyPasses(candidate, hosts)
=============================================================================
