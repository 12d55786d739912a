------------------------------- MODULE Collection -------------------------------
(***************************************************************************)
(* How URLs are found for a research task: the searches that one call of   *)
(* _discover_seed_urls makes, what they teach about the competitor's own   *)
(* domains, and the choice among what they found                           *)
(* (backend/app/collection/service.py, with the scores of SourceQuality).  *)
(*                                                                         *)
(* The research tasks of an analysis are searched one after another; they  *)
(* share the analysis's domain contexts.  All analyses share the registry  *)
(* of domains, a file that each loads, changes and saves without a lock:   *)
(* the other analyses are OtherLoads and OtherSaves.                       *)
(***************************************************************************)
EXTENDS SourceQuality

CONSTANTS Hits,        \* what a search can find: hits of SourceQuality with
                       \*   of     the competitor that they name
                       \*   url    their address
                       \*   ends   the domains where a fetch of it may end
          Domains,     \* at most three: the lists are cut off after three
          Platforms,   \* domains known to be nobody's own site
          Tasks,       \* the research tasks that can be searched for
          MaxTasks,    \* how many of them are searched for, each once
          MaxAnswer,   \* how many hits one query brings
          MaxOthers    \* how often another analysis records a domain

(* What the search for the owner of a domain looks for besides. *)
ResolverMarks == {"official_text", "starts", "editorial", "channel", "unsafe"}

ASSUME InstanceAssumption ==
    /\ Cardinality(Domains) <= 3
    /\ \A h \in Hits : /\ h.marks \subseteq MarkerLists \cup ResolverMarks
                        /\ h.place \in Places
    /\ {h.domain : h \in Hits} \cup Platforms \subseteq Domains

VARIABLES
    tavily,     \* the provider of the searches is Tavily
    contexts,   \* the analysis's official_domain_contexts: by the competitors
                \*   and the domain they are about, a confidence
    registry,   \* cache/official_domains: the same, and whether it is fresh
    stale,      \* what another analysis loaded of the registry to change it
    search,     \* the call that runs
    sources,    \* what the analysis has fetched
    begun,      \* the tasks it has begun to search for
    others      \* how often another analysis has saved

vars == <<tavily, contexts, registry, stale, search, sources, begun, others>>

Labels == UNION {{t.competitor} \cup {{e} : e \in t.competitor} : t \in Tasks}
Keys == Labels \X Domains

Confidences == <<"none", "unknown", "probable", "rejected", "confirmed">>

-----------------------------------------------------------------------------
(* The tasks. *)

OfficialFirst(task) ==
    CanonicalDimension(task.words) \in Keyed /\ "hands_on" \notin task.asks

Resolves(s) == tavily /\ s.task.mode = "auto" /\ OfficialFirst(s.task)

Query(stage, about, n) == [stage |-> stage, about |-> about, n |-> n]

(* For every competitor its name with the words for a home page, then with *)
(* those of the dimension; at most six. *)
DiscoveryQueries(task) ==
    IF task.mode = "auto" /\ OfficialFirst(task)
    THEN LET targets == SetToSeq(task.competitor)
             all == [i \in 1..(2 * Len(targets)) |->
                        Query("discovery", targets[((i - 1) % Len(targets)) + 1], i)]
         IN  SubSeq(all, 1, Smaller(6, Len(all)))
    ELSE <<>>

-----------------------------------------------------------------------------
(* What a hit says of who owns its domain. *)

NamesOf(hit, entities) == IF hit.of \in entities THEN hit.names ELSE {}

PlatformSurface(hit) == hit.place # "plain"
Editorial(hit) == "editorial" \in hit.marks
Channel(hit) == "channel" \in hit.marks
InText(hit, e) == NamesOf(hit, {e}) \cap {"title", "snippet"} # {}
StartsTitle(hit, e) == "title" \in NamesOf(hit, {e}) /\ "starts" \in hit.marks
DirectIdentity(hit, e) == NamesOf(hit, {e}) \cap {"host", "site"} # {}

Considered(hit, e) == hit.rank \in 1..10 /\ ~Channel(hit) /\ InText(hit, e)

ProbableHost(hit, e) ==
    /\ Considered(hit, e)
    /\ "official_text" \in hit.marks
    /\ hit.domain \notin Platforms
    /\ ~Editorial(hit) /\ PlatformSurface(hit)
    /\ DirectIdentity(hit, e) \/ StartsTitle(hit, e)

CandidateHost(hit, e) ==
    /\ Considered(hit, e)
    /\ \/ "official_text" \in hit.marks
       \/ StartsTitle(hit, e) /\ PlatformSurface(hit) /\ ~Editorial(hit)

SafeHit(hit) == "unsafe" \notin hit.marks

ProbableHosts(hits, task) ==
    {h.domain : h \in {h \in hits : SafeHit(h)
                         /\ \E e \in task.competitor : ProbableHost(h, e)}}

SurfaceKind(hit) ==
    CASE hit.place = "home" -> "home"
      [] hit.place \in {"docs_host", "docs_path"} -> "documentation"
      [] hit.place = "about" -> "ownership"
      [] OTHER -> "product"

DomainResolution(domain, e, hits) ==
    LET matching == {h \in hits : h.domain = domain /\ ~Channel(h)}
        own == {h \in matching : ~Editorial(h)}
        surfaces == {h \in own : PlatformSurface(h) /\ "title" \in NamesOf(h, {e})}
        kinds == {SurfaceKind(h) : h \in surfaces}
        consensus == /\ Cardinality({h.url : h \in surfaces}) >= 2
                     /\ Cardinality(kinds) >= 2
                     /\ kinds \cap {"ownership", "documentation"} # {}
    IN
    IF own = {} \/ domain \in Platforms THEN "rejected"
    ELSE IF (surfaces # {} /\ \E h \in own : DirectIdentity(h, e)) \/ consensus THEN "confirmed"
    ELSE "probable"

-----------------------------------------------------------------------------
(* Contexts and registry. *)

Priority(c) == CHOOSE i \in DOMAIN Confidences : Confidences[i] = c

Stronger(current, candidate) ==
    IF Priority(candidate) > Priority(current) THEN candidate ELSE current

(* A platform is recorded only as rejected. *)
Recorded(map, label, domains, confidence) ==
    [k \in DOMAIN map |->
        IF k[1] = label /\ k[2] \in domains \ (IF confidence = "rejected" THEN {} ELSE Platforms)
        THEN Stronger(map[k], confidence) ELSE map[k]]

SavedInRegistry(loaded, key, confidence) ==
    [loaded EXCEPT ![key] = [confidence |-> Stronger(@.confidence, confidence), fresh |-> TRUE]]

(* The registry's entries that have not expired and name one of them. *)
Cached(entities) ==
    {k \in Keys : k[1] \cap entities # {} /\ registry[k].fresh}

DomainsHeld(map, entities, confidence) ==
    {k[2] : k \in {k \in Keys : k[1] \cap entities # {} /\ map[k] = confidence}}
    \cup {k[2] : k \in {k \in Cached(entities) : registry[k].confidence = confidence}}

ConfirmedOfficialDomains(task) ==
    (task.confirmed \cup DomainsHeld(contexts, task.competitor, "confirmed")) \ Platforms

ProbableOfficialDomains(task) ==
    (task.probable \cup DomainsHeld(contexts, task.competitor, "probable")) \ Platforms

RejectedOfficialDomains(task) == DomainsHeld(contexts, task.competitor, "rejected")

ConfirmedEntities(map, task) ==
    {e \in task.competitor :
        \/ DomainsHeld(map, {e}, "confirmed") # {}
        \/ task.competitor = {e} /\ ConfirmedOfficialDomains(task) # {}}

-----------------------------------------------------------------------------
(* Choosing among what was found. *)

Seen(hit, task) == [hit EXCEPT !.names = NamesOf(hit, task.competitor)]

(* The task as it is ranked for, with what this call has learned. *)
RankingTask(s) ==
    [s.task EXCEPT !.confirmed = s.confirmed, !.probable = s.probable, !.rejected = s.rejected]

Scored(s, task) == {Score(Seen(h, task), task, sources) : h \in s.found}

Qualified(s, task) ==
    {c \in Scored(s, task) : PassesQuality(c, s.confirmed) /\ SafeHit(c.hit)}

QualifiedUrls(s) == {c.hit.url : c \in Qualified(s, s.task)}
QualifiedFirstParty(s) ==
    {c.hit.url : c \in {c \in Qualified(s, RankingTask(s)) : c.hit.domain \in s.confirmed}}

StrictFirstParty(s) ==
    /\ s.task.mode = "auto" /\ OfficialFirst(s.task)
    /\ s.confirmed # {}
    /\ s.task.coverage # "insufficient"
    /\ ConfirmedEntities(contexts, s.task) = s.task.competitor
    /\ QualifiedFirstParty(s) # {}

(* A search for community pages puts them before the third parties. *)
SourcePriority(s, role) ==
    IF s.task.mode = "community"
    THEN CASE role = "community" -> 2 [] role = "authoritative_secondary" -> 3
           [] role = "general_third_party" -> 4 [] OTHER -> RolePriority(role)
    ELSE RolePriority(role)

Offered(s) ==
    LET ranked == Ranked(Scored(s, RankingTask(s)))
        Place(i) == <<IF ranked[i].hit.domain \in s.confirmed THEN 0 ELSE 1,
                      SourcePriority(s, ranked[i].role), i>>
        First(i, j) == LET d == {n \in 1..3 : Place(i)[n] # Place(j)[n]}
                       IN  Place(i)[Min(d)] < Place(j)[Min(d)]
    IN  [n \in DOMAIN ranked |-> ranked[
            CHOOSE i \in DOMAIN ranked :
                Cardinality({j \in DOMAIN ranked \ {i} : First(j, i)}) = n - 1]]

Chosen(s) ==
    LET strict == StrictFirstParty(s) IN
    FoldLeft(LAMBDA chosen, c :
                IF /\ SafeHit(c.hit) /\ PassesQuality(c, s.confirmed)
                   /\ strict => c.hit.domain \in s.confirmed
                   /\ c.hit.url \notin {d.hit.url : d \in ToSet(chosen)}
                   /\ Len(chosen) < s.task.limit
                THEN Append(chosen, c) ELSE chosen,
             <<>>, Offered(s))

-----------------------------------------------------------------------------

NoSearch == [pc |-> "idle", queue |-> <<>>, saves |-> <<>>]

Init ==
    /\ tavily \in BOOLEAN
    /\ contexts = [k \in Keys |-> "none"]
    /\ registry = [k \in Keys |-> [confidence |-> "none", fresh |-> FALSE]]
    /\ stale = <<>>
    /\ search = NoSearch
    /\ sources = {}
    /\ begun = {} /\ others = 0

Begin(task) ==
    /\ search.pc = "idle" /\ task \notin begun /\ Cardinality(begun) < MaxTasks
    /\ begun' = begun \cup {task}
    /\ search' = [pc |-> "discover", task |-> task,
                  queue |-> DiscoveryQueries(task), asked |-> <<>>, found |-> {},
                  confirmed |-> ConfirmedOfficialDomains(task),
                  probable |-> ProbableOfficialDomains(task),
                  rejected |-> RejectedOfficialDomains(task),
                  validated |-> {}, targeted |-> {}, reason |-> "",
                  saves |-> <<>>, loaded |-> <<>>, chosen |-> <<>>]
    /\ UNCHANGED <<tavily, contexts, registry, stale, sources, others>>

(* The registry is saved once for every domain that is recorded. *)
SavesFor(map, label, domains) ==
    LET keys == SetToSeq({label} \X {d \in domains : map[<<label, d>>] # "none"})
    IN  [i \in DOMAIN keys |-> [key |-> keys[i], confidence |-> map[keys[i]]]]

Quiet == search.saves = <<>>

(* What came of a query: it may fail, and then has found nothing.  A query *)
(* that names one competitor brings hits of that one, one that is kept to  *)
(* a domain those of the domain. *)
Answers(query) ==
    LET Fits(h) == CASE query.stage = "discovery" -> h.of = query.about
                     [] query.stage = "general" -> TRUE
                     [] OTHER -> h.domain = query.about
    IN  {got \in SUBSET {h \in Hits : Fits(h)} : Cardinality(got) <= MaxAnswer}

Ask ==
    /\ search.pc \in {"discover", "validate", "target", "general", "validate_again", "target_again"}
    /\ search.queue # <<>> /\ Quiet
    /\ LET q == Head(search.queue) IN
       \E got \in Answers(q) :
          LET s == [search EXCEPT !.queue = Tail(@), !.asked = Append(@, q),
                                  !.found = @ \cup got]
              discovered == ProbableHosts(got, search.task)
          IN
          /\ CASE q.stage = "discovery" ->
                    LET map == Recorded(contexts, s.task.competitor, discovered, "probable") IN
                    /\ contexts' = IF tavily THEN contexts ELSE map
                    /\ search' = [s EXCEPT !.probable = @ \cup discovered,
                                           !.saves = IF tavily THEN <<>>
                                                     ELSE SavesFor(map, s.task.competitor, discovered)]
               [] q.stage = "general" ->
                    /\ search' = [s EXCEPT !.queue = IF Cardinality(QualifiedUrls(s)) >= s.task.limit
                                                     THEN <<>> ELSE @]
                    /\ UNCHANGED contexts
               [] q.stage = "validation" ->
                    /\ search' = [s EXCEPT !.validated = @ \cup {q.about}]
                    /\ UNCHANGED contexts
               [] OTHER ->
                    /\ search' = [s EXCEPT !.targeted = @ \cup {q.about}]
                    /\ UNCHANGED contexts
    /\ UNCHANGED <<tavily, registry, stale, sources, begun, others>>

(* A context is written to the registry by loading and saving all of it. *)
LoadRegistry ==
    /\ search.pc # "idle" /\ search.saves # <<>> /\ search.loaded = <<>>
    /\ search' = [search EXCEPT !.loaded = registry]
    /\ UNCHANGED <<tavily, contexts, registry, stale, sources, begun, others>>

SaveRegistry ==
    /\ search.pc # "idle" /\ search.saves # <<>> /\ search.loaded # <<>>
    /\ LET save == Head(search.saves) IN
       registry' = SavedInRegistry(search.loaded, save.key, save.confidence)
    /\ search' = [search EXCEPT !.saves = Tail(@), !.loaded = <<>>]
    /\ UNCHANGED <<tavily, contexts, stale, sources, begun, others>>

-----------------------------------------------------------------------------
(* What the hits found so far prove of the domains they are on. *)

Candidates(s, e) == {h.domain : h \in {h \in s.found : CandidateHost(h, e)}}

ResolvedContexts(s) ==
    LET Rule(map, e, d) == Recorded(map, {e}, {d}, DomainResolution(d, e, s.found)) IN
    FoldSet(LAMBDA k, map : Rule(map, k[1], k[2]), contexts,
            {k \in s.task.competitor \X Domains : k[2] \in Candidates(s, k[1])})

ResolvedAs(s, confidence) ==
    UNION {{d \in Candidates(s, e) : DomainResolution(d, e, s.found) = confidence}
              : e \in s.task.competitor}

(* The lists of the call: confirmed wins over rejected, and that over      *)
(* probable. *)
Merged(s) ==
    LET confirmed == s.confirmed \cup ResolvedAs(s, "confirmed")
        rejected == (s.rejected \ ResolvedAs(s, "confirmed"))
                       \cup (ResolvedAs(s, "rejected") \ confirmed)
        dropped == ResolvedAs(s, "confirmed") \cup (ResolvedAs(s, "rejected") \ confirmed)
        probable == (s.probable \ dropped)
                       \cup (ResolvedAs(s, "probable") \ (confirmed \cup rejected))
    IN  [s EXCEPT !.confirmed = confirmed, !.rejected = rejected, !.probable = probable,
                  !.saves = FoldSet(LAMBDA e, all : all \o SavesFor(ResolvedContexts(s), {e}, Candidates(s, e)),
                                    <<>>, s.task.competitor)]

Resolution(s) == IF Resolves(s) THEN Merged(s) ELSE s
ResolutionContexts(s) == IF Resolves(s) THEN ResolvedContexts(s) ELSE contexts

(* Probable domains are looked into once, whatever the search is for. *)
ValidationQueries(s, map) ==
    LET open == {d \in s.probable \ (s.confirmed \cup s.rejected \cup s.validated) :
                    \E k \in Keys : k[1] \cap s.task.competitor # {} /\ k[2] = d /\ map[k] = "probable"}
        all == SetToSeq(open)
    IN  IF tavily THEN [i \in DOMAIN all |-> Query("validation", all[i], 1)] ELSE <<>>

DomainQueries(stage, hosts, n) ==
    LET all == SetToSeq(hosts) IN [i \in DOMAIN all |-> Query(stage, all[i], n)]

EndPhase(pc) == search.pc = pc /\ search.queue = <<>> /\ Quiet

ResolveAndValidate ==
    /\ \/ EndPhase("discover")
       \/ EndPhase("general") /\ search.task.mode = "auto" /\ OfficialFirst(search.task)
    /\ LET s == Resolution(search)
           map == ResolutionContexts(search)
       IN
       /\ contexts' = map
       /\ search' = [s EXCEPT !.pc = IF search.pc = "discover" THEN "validate" ELSE "validate_again",
                              !.queue = ValidationQueries(s, map)]
    /\ UNCHANGED <<tavily, registry, stale, sources, begun, others>>

Target ==
    /\ EndPhase("validate")
    /\ LET learned == search.validated # {}
           s == IF learned THEN Resolution(search) ELSE search
       IN
       /\ contexts' = IF learned THEN ResolutionContexts(search) ELSE contexts
       /\ search' = [s EXCEPT !.pc = "target",
                              !.queue = IF s.task.policy THEN <<>>
                                        ELSE DomainQueries("targeted", s.confirmed, 1)]
    /\ UNCHANGED <<tavily, registry, stale, sources, begun, others>>

(* Mutant: known domains are enough, whatever was found there. *)
GeneralSearchReasonFaulty(s) ==
    IF s.task.policy THEN IF s.task.mode = "auto" /\ s.confirmed # {} THEN "" ELSE "agent_policy"
    ELSE IF s.task.mode # "auto" \/ ~OfficialFirst(s.task) THEN "external_source_objective"
    ELSE IF s.confirmed = {} THEN "no_confirmed_official_host" ELSE ""

(* Why the open web is searched, or "" when it is not. *)
GeneralSearchReason(s) ==
    LET unresolved == ConfirmedEntities(contexts, s.task) # s.task.competitor
        onlyOfficial == s.task.mode = "auto" /\ s.confirmed # {} /\ ~unresolved
    IN
    IF s.task.policy THEN IF onlyOfficial THEN "" ELSE "agent_policy"
    ELSE IF s.task.mode # "auto" THEN "agent_mode"
    ELSE IF ~OfficialFirst(s.task) THEN "external_source_objective"
    ELSE IF s.confirmed = {} THEN "no_confirmed_official_host"
    ELSE IF s.task.coverage = "insufficient" THEN "evidence_coverage_insufficient"
    ELSE IF s.task.coverage = "unknown" /\ QualifiedFirstParty(s) = {}
    THEN "no_eligible_first_party_candidate"
    ELSE ""

Decide ==
    /\ EndPhase("target")
    /\ LET reason == GeneralSearchReason(search)
           hints == Smaller(3, IF search.task.policy THEN search.task.hints
                               ELSE IF search.task.hints = 0 THEN 1 ELSE search.task.hints)
       IN
       search' = [search EXCEPT
           !.pc = "general", !.reason = reason,
           !.queue = IF reason # "" THEN [i \in 1..hints |-> Query("general", "web", i)]
                     ELSE IF search.task.policy
                     THEN FoldLeft(LAMBDA all, i : all \o DomainQueries("policy", search.confirmed, i),
                                   <<>>, [i \in 1..hints |-> i])
                     ELSE <<>>]
    /\ UNCHANGED <<tavily, contexts, registry, stale, sources, begun, others>>

(* A domain that only the open web's answers proved is asked as well. *)
TargetAgain ==
    /\ EndPhase("validate_again")
    /\ LET learned == search.validated # {}
           s == IF learned THEN Resolution(search) ELSE search
           stage == IF s.task.policy THEN "policy" ELSE "targeted"
       IN
       /\ contexts' = IF learned THEN ResolutionContexts(search) ELSE contexts
       /\ search' = [s EXCEPT !.pc = "target_again",
                              !.queue = IF s.task.policy /\ s.task.hints = 0 THEN <<>>
                                        ELSE DomainQueries(stage, s.confirmed \ s.targeted, 1)]
    /\ UNCHANGED <<tavily, registry, stale, sources, begun, others>>

(* Without Tavily, all that was found has its say once more. *)
Refresh ==
    /\ \/ EndPhase("target_again")
       \/ EndPhase("general") /\ ~(search.task.mode = "auto" /\ OfficialFirst(search.task))
    /\ LET again == ~tavily /\ search.pc = "target_again"
           probable == search.probable \cup ProbableHosts(search.found, search.task)
           map == Recorded(contexts, search.task.competitor, probable, "probable")
       IN
       /\ contexts' = IF again THEN map ELSE contexts
       /\ search' = [search EXCEPT
                        !.pc = "choose",
                        !.probable = IF again THEN probable ELSE @,
                        !.saves = IF again THEN SavesFor(map, search.task.competitor, probable) ELSE <<>>]
    /\ UNCHANGED <<tavily, registry, stale, sources, begun, others>>

Choose ==
    /\ EndPhase("choose")
    /\ search' = [search EXCEPT !.pc = "fetch", !.chosen = Chosen(search),
                                !.queue = Chosen(search)]
    /\ UNCHANGED <<tavily, contexts, registry, stale, sources, begun, others>>

(* What is fetched is stored where the fetch ended, with the confidence    *)
(* that the hit had where it began. *)
Fetch ==
    /\ search.pc = "fetch" /\ search.queue # <<>>
    /\ LET c == Head(search.queue) IN
       \/ UNCHANGED sources
       \/ \E final \in c.hit.ends :
             sources' = sources \cup {[url |-> c.hit.url, domain |-> final,
                                       competitor |-> search.task.competitor,
                                       confirmed |-> c.confidence = "confirmed"]}
    /\ search' = [search EXCEPT !.queue = Tail(@)]
    /\ UNCHANGED <<tavily, contexts, registry, stale, begun, others>>

End ==
    /\ EndPhase("fetch")
    /\ search' = NoSearch
    /\ UNCHANGED <<tavily, contexts, registry, stale, sources, begun, others>>

-----------------------------------------------------------------------------
(* The other analyses and time.  A query neither reads nor writes the      *)
(* registry, so nothing is lost when they move only while none is queued.  *)

BetweenQueries == Quiet => search.queue = <<>>

OtherLoads ==
    /\ BetweenQueries
    /\ stale = <<>> /\ others < MaxOthers
    /\ stale' = registry
    /\ UNCHANGED <<tavily, contexts, registry, search, sources, begun, others>>

OtherSaves(key, hits) ==
    /\ BetweenQueries
    /\ stale # <<>> /\ Cardinality(key[1]) = 1
    /\ LET e == CHOOSE e \in key[1] : TRUE IN
       /\ \E h \in hits : h.domain = key[2] /\ CandidateHost(h, e)
       /\ registry' = SavedInRegistry(stale, key, DomainResolution(key[2], e, hits))
    /\ stale' = <<>>
    /\ others' = others + 1
    /\ UNCHANGED <<tavily, contexts, search, sources, begun>>

(* Ninety days pass: nothing that was saved until now is fresh. *)
Expire ==
    /\ BetweenQueries
    /\ \E k \in Keys : registry[k].fresh
    /\ registry' = [k \in Keys |-> [registry[k] EXCEPT !.fresh = FALSE]]
    /\ UNCHANGED <<tavily, contexts, stale, search, sources, begun, others>>

-----------------------------------------------------------------------------

SearchStep ==
    \/ Ask \/ LoadRegistry \/ SaveRegistry
    \/ ResolveAndValidate \/ Target \/ Decide \/ TargetAgain \/ Refresh
    \/ Choose \/ Fetch \/ End

Next ==
    \/ \E task \in Tasks : Begin(task)
    \/ SearchStep
    \/ OtherLoads
    \/ \E key \in Keys : \E hits \in SUBSET {h \in Hits : h.domain = key[2]} : OtherSaves(key, hits)
    \/ Expire

(* Every query returns or times out, and the thread that searches goes on. *)
Spec == Init /\ [][Next]_vars /\ WF_vars(SearchStep)

-----------------------------------------------------------------------------

(* Pages that show who owns a domain: one that is not an article and names *)
(* the competitor as its host or site, or two of different kinds that are  *)
(* titled after it. *)
Shown(domain, e) ==
    LET own == {h \in Hits : h.domain = domain /\ ~Channel(h) /\ ~Editorial(h)}
        titled == {h \in own : "title" \in NamesOf(h, {e}) /\ PlatformSurface(h)}
    IN  /\ domain \notin Platforms
        /\ \/ \E h \in own : DirectIdentity(h, e)
           \/ Cardinality({SurfaceKind(h) : h \in titled}) >= 2

(* A domain counts as a competitor's own, in this analysis or through the  *)
(* registry of all of them, only when there are pages to find that show    *)
(* it: no mention, no rejection and no lost or expired entry of  *)
(* the registry makes it so. *)
ConfirmedIsProven ==
    /\ \A k \in Keys : "confirmed" \in {contexts[k], registry[k].confidence} =>
          \E e \in k[1] : Shown(k[2], e)
    /\ search.pc # "idle" =>
          \A d \in search.confirmed \ search.task.confirmed :
              \E e \in search.task.competitor : Shown(d, e)

Finished == search.pc = "fetch"

(* A search by the task's own queries that has nothing to collect, though  *)
(* the dimension is not known to be covered, has also asked the open web,  *)
(* and nothing that it found was good enough. *)
FallsBack ==
    Finished /\ search.chosen = <<>> /\ ~search.task.policy /\ search.task.coverage # "sufficient" =>
        /\ search.reason # "" /\ \E q \in ToSet(search.asked) : q.stage = "general"
        /\ Qualified(search, RankingTask(search)) = {}

(* No page of a third party takes the place of a page of the competitor's  *)
(* own that is good enough. *)
OwnPagesFirst ==
    Finished =>
        LET chosen == ToSet(search.chosen) IN
        (\E c \in chosen : c.hit.domain \notin search.confirmed) =>
            QualifiedFirstParty(search) \subseteq {c.hit.url : c \in chosen}

(* Searching costs: no query is made twice by one call, whatever is        *)
(* learned of the domains on the way. *)
NoQueryTwice == search.pc # "idle" => IsInjective(search.asked)

(* What is found rests on proof, is looked for before it is given up, and  *)
(* is not paid for twice; see the four above. *)
DiscoveryIsSound == ConfirmedIsProven /\ FallsBack /\ OwnPagesFirst /\ NoQueryTwice
=============================================================================
