--------------------------------- MODULE WebTools ---------------------------------
(***************************************************************************)
(* The tools that reach the web (tools/): the collector that fetches a     *)
(* page over redirects and falls back to a browser, the search provider    *)
(* that the environment selects, and the remote Zhihu search, which tries  *)
(* again and asks several questions for one.                               *)
(***************************************************************************)
EXTENDS Naturals, Sequences, FiniteSets, SequencesExt

CONSTANTS
    MaxRedirects,    \* 4
    MinText,         \* 40 characters of text at least
    MaxBytes,        \* 2,000,000
    MaxAttempts      \* 2 attempts of a Zhihu search

None == "none"

-----------------------------------------------------------------------------
(* WebCollectorTool.fetch.  The site is a function from a url to what it   *)
(* answers; public are the urls that URLSafetyPolicy accepts.  The checks  *)
(* of the policy and the requests are logged. *)

Request(log, what, url) == Append(log, <<what, url>>)

(* _robots_allowed: asked once for every origin and path. *)
RobotsKey(site, url) == <<site[url].origin, site[url].path>>

RobotsAllowed(site, url) == site[url].robots # "disallow"

AskRobots(site, cache, url, log) ==
    IF RobotsKey(site, url) \in DOMAIN cache
    THEN [allowed |-> cache[RobotsKey(site, url)], cache |-> cache, log |-> log]
    ELSE LET allowed == RobotsAllowed(site, url) IN
         [allowed |-> allowed,
          cache |-> [k \in DOMAIN cache \cup {RobotsKey(site, url)} |->
                        IF k \in DOMAIN cache THEN cache[k] ELSE allowed],
          log |-> Request(log, "robots", site[url].origin)]

(* The target of a redirect is requested as it comes. *)
HopFaulty(site, public, way) ==
    IF way.end # None THEN way
    ELSE LET asked == Request(way.log, "get", way.url)
             answer == site[way.url]
         IN IF answer.status # "redirect" THEN [way EXCEPT !.log = asked, !.end = "answered"]
            ELSE IF answer.location = None THEN [way EXCEPT !.log = asked, !.end = "location"]
            ELSE [way EXCEPT !.log = asked, !.url = answer.location]

(* The way from a url over its redirects: every hop is validated, then     *)
(* requested. *)
Hop(site, public, way) ==
    IF way.end # None THEN way
    ELSE LET checked == Request(way.log, "check", way.url)
             asked == Request(checked, "get", way.url)
             answer == site[way.url]
         IN CASE way.url \notin public -> [way EXCEPT !.log = checked, !.end = "policy"]
              [] way.url \in public /\ answer.status # "redirect" ->
                    [way EXCEPT !.log = asked, !.end = "answered"]
              [] way.url \in public /\ answer.status = "redirect" /\ answer.location = None ->
                    [way EXCEPT !.log = asked, !.end = "location"]
              [] OTHER -> [way EXCEPT !.log = asked, !.url = answer.location]

FollowRedirects(site, public, url, log) ==
    FoldLeft(LAMBDA way, i : Hop(site, public, way),
             [url |-> url, log |-> log, end |-> None], [i \in 1..(MaxRedirects + 1) |-> i])

(* The text of the page, or what the browser makes of it. *)
Rendered(answer, browser) ==
    IF answer.chars >= MinText THEN [chars |-> answer.chars, mode |-> "http"]
    ELSE IF browser THEN [chars |-> answer.rendered, mode |-> "browser"]
    ELSE [chars |-> answer.chars, mode |-> "http"]

Fetch(site, public, cache, browser, url) ==
    LET checked == Request(<<>>, "check", url)
        robots == AskRobots(site, cache, url, checked)
        way == FollowRedirects(site, public, url, robots.log)
        answer == site[way.url]
        page == Rendered(answer, browser)
        Failed(reason, log, c) == [end |-> reason, url |-> url, log |-> log, cache |-> c, page |-> <<>>]
    IN CASE url \notin public -> Failed("policy", checked, cache)
         [] url \in public /\ ~robots.allowed -> Failed("robots", robots.log, robots.cache)
         [] url \in public /\ robots.allowed /\ way.end # "answered" ->
               Failed(IF way.end = None THEN "redirects" ELSE way.end, way.log, robots.cache)
         [] OTHER ->
               IF answer.status = "error" THEN Failed("status", way.log, robots.cache)
               ELSE IF ~answer.textual THEN Failed("type", way.log, robots.cache)
               ELSE IF answer.bytes > MaxBytes THEN Failed("size", way.log, robots.cache)
               ELSE IF page.chars < MinText THEN Failed("short", way.log, robots.cache)
               ELSE [end |-> "ok", url |-> way.url, log |-> way.log,
                     cache |-> robots.cache, page |-> page]

-----------------------------------------------------------------------------
(* _VisibleTextParser: text inside a hidden tag is left out. *)

HiddenTags == {"script", "style"}

VisibleText(tokens) ==
    LET Read(seen, t) ==
            CASE t.kind = "open" /\ t.tag \in HiddenTags -> [seen EXCEPT !.depth = @ + 1]
              [] t.kind = "close" /\ t.tag \in HiddenTags /\ seen.depth > 0 ->
                    [seen EXCEPT !.depth = @ - 1]
              [] t.kind = "text" /\ seen.depth = 0 -> [seen EXCEPT !.text = Append(@, t.tag)]
              [] OTHER -> seen
    IN FoldLeft(Read, [depth |-> 0, text |-> <<>>], tokens).text

-----------------------------------------------------------------------------
(* The search provider: what is asked for and the keys there are. *)

Automatic(keys) ==
    IF "tavily" \in keys THEN "tavily" ELSE IF "zhipu" \in keys THEN "zhipu"
    ELSE IF "bocha" \in keys THEN "bocha" ELSE "disabled"

Selected(wish, keys) == IF wish \in {"", "auto"} THEN Automatic(keys) ELSE wish

(* build_search_provider_from_env: none without the key, an error for a    *)
(* name it does not know. *)
BuildProvider(wish, keys) ==
    LET provider == Selected(wish, keys) IN
    IF provider \in {"disabled", "none", "off"} THEN None
    ELSE IF provider \notin {"tavily", "zhipu", "bocha"} THEN "error"
    ELSE IF provider \in keys THEN provider ELSE None

(* get_search_provider_status, for the front end. *)
ProviderStatus(wish, keys) ==
    LET provider == Selected(wish, keys) IN
    [provider |-> provider,
     configured |-> provider \in {"tavily", "zhipu", "bocha"} /\ provider \in keys]

(* build_search_tool_transport_from_env: in this process, or over a server *)
(* of its own, which finds out about the keys when it is asked.            *)
BuildTransport(mode, wish, keys) ==
    CASE mode \in {"", "native"} ->
            LET provider == BuildProvider(wish, keys) IN
            IF provider \in {None, "error"} THEN provider ELSE "native"
      [] mode = "mcp" -> "mcp"
      [] OTHER -> "error"

Clamp(low, n, high) == IF n < low THEN low ELSE IF n > high THEN high ELSE n

(* How many results Tavily, and a tool, can be asked for: 20 and 50 in the *)
(* code.                                                                   *)
ProviderCeiling == 2
ToolCeiling == 3

Failed == [ok |-> FALSE, hits |-> <<>>]
Hits(hits) == [ok |-> TRUE, hits |-> hits]

(* TavilyProvider.search: the service answers with the first of what it    *)
(* offers; what has no url is dropped.                                     *)
ProviderSearch(query, count, offers) ==
    IF query = "" THEN Failed
    ELSE Hits(SelectSeq(SubSeq(offers, 1, Clamp(1, count, ProviderCeiling)), LAMBDA hit : hit.url # ""))

(* web_search of the research-tools server. *)
ServerSearch(provider, query, count, offers) ==
    IF query = "" \/ provider \in {None, "error"} THEN Failed
    ELSE ProviderSearch(query, Clamp(1, count, ToolCeiling), offers)

(* A search of the transport; the MCP transport may have been closed.      *)
TransportSearch(transport, closed, provider, query, count, offers) ==
    CASE transport = "native" -> ProviderSearch(query, count, offers)
      [] transport = "mcp" /\ ~closed ->
            ServerSearch(provider, query, Clamp(1, count, ToolCeiling), offers)
      [] OTHER -> Failed

(* WebSearchTool.execute: the request is validated, a hit without a url    *)
(* dropped, and each result keeps what the provider said of it.            *)
ToolResults(query, count, offers) ==
    IF query = "" \/ count < 1 \/ count > ToolCeiling THEN Failed
    ELSE LET found == ProviderSearch(query, count, offers) IN
         IF ~found.ok THEN Failed
         ELSE Hits(SelectSeq(found.hits, LAMBDA hit : hit.url # ""))

(* research_intent_for_dimension: the first of these a dimension names. *)
IntentOf(words) ==
    LET known == SelectSeq(<<"user_feedback", "pricing", "feature">>, LAMBDA w : w \in words) IN
    IF known = <<>> THEN "product_information" ELSE Head(known)

-----------------------------------------------------------------------------
(* canonical_source_url: what the addresses of one source have in common.  *)
(* An address without scheme or host is compared as text.  upper: letters  *)
(* of the host in upper case; of the parameters those not positive are     *)
(* utm_ parameters.                                                        *)

DefaultPort(scheme) == IF scheme = "http" THEN 80 ELSE IF scheme = "https" THEN 443 ELSE 0

(* rstrip("/") of a path: "/" stays, "//" becomes the empty path. *)
Slashes(segments, slashes) == IF segments = <<>> /\ slashes < 2 THEN 1 ELSE 0

CanonicalUrl(url) ==
    IF url.scheme = "" THEN [url EXCEPT !.slashes = 0, !.upper = FALSE]
    ELSE [url EXCEPT
            !.upper = FALSE,
            !.port = IF @ = DefaultPort(url.scheme) THEN 0 ELSE @,
            !.slashes = Slashes(url.segments, @),
            !.parameters = SortSeq(SelectSeq(@, LAMBDA p : p > 0), <),
            !.fragment = FALSE]

(* _parse_zhihu_search_xml: the items that have a url; none is an error. *)
ParsedItems(items) == SelectSeq(items, LAMBDA url : url # "")

-----------------------------------------------------------------------------
(* The Zhihu search.  An attempt parses its results or does not, and may   *)
(* end with an error: the set of the kinds of its leaves. *)

Benign(error) == error # {} /\ error \subseteq {"broken"}
Retryable(error) == error \ {"cancelled"} # {} /\ error \ {"cancelled"} \subseteq {"broken", "network"}

(* The results are lost to any error. *)
SearchOnceFaulty(attempt) ==
    IF attempt.error = {} THEN [ok |-> TRUE, results |-> IF attempt.parsed THEN attempt.results ELSE <<>>]
    ELSE [ok |-> FALSE, error |-> attempt.error]

(* _search_once_async: results survive the noise of closing the stream. *)
SearchOnce(attempt) ==
    IF attempt.error = {} \/ (attempt.parsed /\ Benign(attempt.error))
    THEN [ok |-> TRUE, results |-> IF attempt.parsed THEN attempt.results ELSE <<>>]
    ELSE [ok |-> FALSE, error |-> attempt.error]

(* _search_async. *)
Search(attempts) ==
    LET Try(state, attempt) ==
            IF state.end # None THEN state
            ELSE LET one == SearchOnce(attempt)
                     tried == state.tried + 1
                 IN CASE one.ok -> [tried |-> tried, end |-> "ok", results |-> one.results]
                      [] ~one.ok /\ ~Retryable(one.error) ->
                            [tried |-> tried, end |-> "raised", results |-> <<>>]
                      [] OTHER -> [tried |-> tried, results |-> <<>>,
                                   end |-> IF tried = MaxAttempts THEN "exhausted" ELSE None]
    IN FoldLeft(Try, [tried |-> 0, end |-> None, results |-> <<>>], SubSeq(attempts, 1, MaxAttempts))

(* should_expand_zhihu_query: a question of users, and not one of the      *)
(* dimensions that ask official sources first. *)
Expands(dimension, intent) ==
    /\ dimension \notin {"positioning", "feature", "pricing", "ecosystem"}
    /\ {dimension, intent} \cap {"customer", "user_feedback", "experience"} # {}

(* expand_zhihu_search_queries. *)
Queries(query, competitor, dimension, intent, suffixes) ==
    IF Expands(dimension, intent) /\ competitor # "" THEN suffixes ELSE <<query>>

(* ZhihuSearchMCPAdapter.execute: the searches of all questions, in order, *)
(* each url once; one that fails fails them all. *)
Execute(searches) ==
    LET Merge(state, search) ==
            IF state.end # "ok" THEN state
            ELSE IF search.end # "ok" THEN [end |-> search.end, merged |-> <<>>]
            ELSE [state EXCEPT !.merged =
                     FoldLeft(LAMBDA m, url : IF url \in ToSet(m) THEN m ELSE Append(m, url),
                              @, search.results)]
    IN FoldLeft(Merge, [end |-> "ok", merged |-> <<>>], searches)
=============================================================================
