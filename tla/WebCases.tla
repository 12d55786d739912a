---------------------------------- MODULE WebCases ----------------------------------
(***************************************************************************)
(* Small inputs of WebTools: a site of three pages that redirect to each   *)
(* other in any way, two redirects at most; every setting of the search    *)
(* provider; two Zhihu searches of two attempts each.                      *)
(***************************************************************************)
EXTENDS Naturals, Sequences, FiniteSets, SequencesExt, CaseInputs

WT == INSTANCE WebTools WITH MaxRedirects <- 2, MinText <- 3, MaxBytes <- 2, MaxAttempts <- 2

Urls == {"u1", "u2", "u3"}

LOCAL Body(chars, rendered, textual, bytes) ==
    [chars |-> chars, rendered |-> rendered, textual |-> textual, bytes |-> bytes]

Bodies == {Body(3, 0, TRUE, 1), Body(1, 3, TRUE, 2), Body(1, 1, TRUE, 1),
           Body(3, 3, FALSE, 1), Body(3, 3, TRUE, 3)}

Answers == {<<"ok", "none">>, <<"error", "none">>} \cup {<<"redirect", u>> : u \in Urls \cup {"none"}}

FetchCase ==
    /\ Begin("fetch")
    /\ \E answers \in [Urls -> Answers], public \in SUBSET Urls, browser \in BOOLEAN,
          body \in Bodies, robots \in {"allow", "disallow"} :
          input' = [public |-> public, browser |-> browser,
                    site |-> [u \in Urls |->
                                [origin |-> "o", path |-> u, robots |-> robots,
                                 status |-> answers[u][1], location |-> answers[u][2],
                                 chars |-> body.chars, rendered |-> body.rendered,
                                 textual |-> body.textual, bytes |-> body.bytes]]]

Tokens == {[kind |-> k, tag |-> t] : k \in {"open", "close"}, t \in {"script", "p"}}
          \cup {[kind |-> "text", tag |-> t] : t \in {"a", "b"}}

MarkupCase ==
    /\ Begin("markup")
    /\ \E tokens \in [1..5 -> Tokens] : input' = tokens

ProviderCase ==
    /\ Begin("provider")
    /\ \E wish \in {"", "auto", "tavily", "zhipu", "bocha", "off", "zhihu"},
          keys \in SUBSET {"tavily", "zhipu", "bocha"} :
          input' = [wish |-> wish, keys |-> keys]

(* A search over a transport: three offers, some without a url. *)
TransportCase ==
    /\ Begin("transport")
    /\ \E urls \in [1..3 -> {"", "x"}], keys \in SUBSET {"tavily", "zhipu"}, wish \in {"auto", "tavily", "bing"},
          query \in {"", "q"}, count \in 0..4, closed \in BOOLEAN, mode \in {"", "native", "mcp", "http"} :
          input' = [offers |-> [i \in 1..3 |-> [url |-> urls[i], rank |-> i]], mode |-> mode, wish |-> wish,
                    keys |-> keys, query |-> query, count |-> count, closed |-> closed]

(* Two addresses. *)
Addresses ==
    [scheme : {"", "http", "https"}, upper : BOOLEAN, port : {0, 80, 443}, segments : {<<>>, <<"p">>},
     slashes : 0..2, parameters : {<<>>, <<0>>, <<1, 2>>, <<2, 1>>, <<2, 0, 1>>}, fragment : BOOLEAN]

AddressCase ==
    /\ Begin("address")
    /\ \E address \in Addresses : input' = address

(* An answer without text has no items; one whose items have no url is an  *)
(* error, and without any answer there is an error too.                    *)
LOCAL Attempt(answered, items, error) ==
    LET results == WT!ParsedItems(items) IN
    IF ~answered THEN [parsed |-> FALSE, results |-> <<>>, error |-> IF error = {} THEN {"network"} ELSE error]
    ELSE IF items # <<>> /\ results = <<>>
    THEN [parsed |-> FALSE, results |-> <<>>, error |-> error \cup {"fatal"}]
    ELSE [parsed |-> TRUE, results |-> results, error |-> error]

Errors == {{}, {"broken"}, {"network"}, {"cancelled"}, {"fatal"}, {"broken", "cancelled"},
           {"network", "fatal"}}

ZhihuCase ==
    /\ Begin("zhihu")
    /\ \E parsed \in [1..2 -> BOOLEAN], errors \in [1..2 -> Errors], late \in BOOLEAN,
          second \in {{}, {"broken"}, {"fatal"}}, items \in {<<"x", "", "y">>, <<"">>, <<>>},
          asked \in {<<"feature", {"user_feedback", "feature"}>>, <<"customer", {"pricing"}>>,
                    <<"market", {"pricing", "user_feedback"}>>, <<"market", {}>>} :
          input' = [searches |->
                      <<[i \in 1..2 |-> Attempt(parsed[i], items, errors[i])],
                        [i \in 1..2 |-> Attempt(late \/ i = 2, <<"y", "z">>, second)]>>,
                    dimension |-> asked[1], intent |-> WT!IntentOf(asked[2])]

-----------------------------------------------------------------------------

(* A page shows a text when no hidden tag before it is still open, where   *)
(* the tags are properly nested.                                           *)
HiddenStaysHidden ==
    topic = "markup" =>
        LET Scripts(kind, i) == Cardinality({j \in 1..i : input[j].kind = kind /\ input[j].tag = "script"})
            nested == \A i \in DOMAIN input : Scripts("close", i) <= Scripts("open", i)
            shown == SelectSeq([i \in DOMAIN input |->
                                   [token |-> input[i], depth |-> Scripts("open", i) - Scripts("close", i)]],
                               LAMBDA x : x.token.kind = "text" /\ x.depth = 0)
        IN nested => WT!VisibleText(input) = [i \in DOMAIN shown |-> shown[i].token.tag]

(* A source has one identity: the canonical form of an address is its own, *)
(* and two addresses that differ in the letters of the host, the port that *)
(* is the scheme's, a closing slash, tracking or a fragment have the same. *)
(* The address of a host with two slashes only is the exception: its form  *)
(* has no path, and that form's form has one.                              *)
SourceHasOneIdentity ==
    topic = "address" =>
        LET form == WT!CanonicalUrl(input)
            plain == [input EXCEPT !.upper = FALSE, !.fragment = FALSE,
                                   !.slashes = IF input.segments = <<>> THEN 1 ELSE 0,
                                   !.port = IF @ = WT!DefaultPort(input.scheme) THEN 0 ELSE @,
                                   !.parameters = SortSeq(SelectSeq(@, LAMBDA p : p > 0), <)]
        IN input.scheme # "" =>
              IF input.segments = <<>> /\ input.slashes = 2 THEN WT!CanonicalUrl(form) # form
              ELSE WT!CanonicalUrl(form) = form /\ WT!CanonicalUrl(plain) = form

(* Every request for a page is made right after its url was checked, the   *)
(* target of a redirect too, and never beyond the bound; a page is only    *)
(* what the last of them answered; nothing is requested that the robots    *)
(* forbid, and they are asked once for a path.  What is read of it is what *)
(* it shows, and its source is one source under all its addresses.         *)
FetchIsChecked ==
    /\ HiddenStaysHidden
    /\ SourceHasOneIdentity
    /\ topic = "fetch" =>
        LET one == WT!Fetch(input.site, input.public, <<>>, input.browser, "u1")
            again == WT!Fetch(input.site, input.public, one.cache, input.browser, "u1")
            Gets(log) == SelectSeq(log, LAMBDA r : r[1] = "get")
            Robots(log) == SelectSeq(log, LAMBDA r : r[1] = "robots")
        IN /\ \A i \in DOMAIN one.log :
                 one.log[i][1] = "get" =>
                    i > 1 /\ one.log[i-1] = <<"check", one.log[i][2]>> /\ one.log[i][2] \in input.public
           /\ Len(Gets(one.log)) <= 2 + 1
           /\ Robots(again.log) = <<>> /\ Gets(again.log) = Gets(one.log) /\ again.end = one.end
           /\ input.site["u1"].robots = "disallow" => Gets(one.log) = <<>>
           /\ one.end = "ok" =>
                 /\ Last(Gets(one.log))[2] = one.url
                 /\ input.site[one.url].status = "ok" /\ one.page.chars >= 3
                 /\ one.page.mode = "browser" => input.browser /\ input.site[one.url].chars < 3
           /\ one.end = "redirects" => Len(Gets(one.log)) = 3

(* What the front end is told of the search provider is what the tools     *)
(* get; both transports, and the tool made of the provider, bring the same *)
(* hits, all with a url and in the provider's order, unless the one has    *)
(* no provider or is closed; an answer of Zhihu that has arrived is not    *)
(* asked for again, an error that is not the network's is not tried again, *)
(* and a merged answer has the urls of all questions, each once.           *)
SearchIsHonest ==
    /\ topic = "provider" =>
          LET status == WT!ProviderStatus(input.wish, input.keys)
              built == WT!BuildProvider(input.wish, input.keys)
          IN status.configured <=> built = status.provider
    /\ topic = "transport" =>
          LET provider == WT!BuildProvider(input.wish, input.keys)
              built == WT!BuildTransport(input.mode, input.wish, input.keys)
              Found(transport) == WT!TransportSearch(transport, input.closed, provider, input.query,
                                                     input.count, input.offers)
              tool == WT!ToolResults(input.query, input.count, input.offers)
              hits == Found(built).hits
          IN /\ Found(built).ok /\ built = "mcp" => Found("native") = Found("mcp")
             /\ built = "native" /\ input.query # "" => Found(built).ok
             /\ Found(built).ok /\ tool.ok => hits = tool.hits
             /\ \A i \in DOMAIN hits : hits[i].url # "" /\ (i > 1 => hits[i-1].rank < hits[i].rank)
    /\ topic = "zhihu" =>
          LET results == [i \in 1..2 |-> WT!Search(input.searches[i])]
              Arrived(a) == a.parsed /\ a.error \subseteq {"broken"}
              Fatal(a) == "fatal" \in a.error
              questions == WT!Queries("q", "c", input.dimension, input.intent, <<"q1", "q2">>)
              merged == WT!Execute(SubSeq(results, 1, Len(questions)))
              asked == UNION {ToSet(results[i].results) : i \in DOMAIN questions}
          IN /\ \A i \in 1..2 :
                   LET attempts == input.searches[i] IN
                   /\ \A n \in 1..2 : (Arrived(attempts[n]) \/ Fatal(attempts[n])) =>
                         results[i].tried <= n
                   /\ results[i].tried >= 1
                   /\ Arrived(attempts[results[i].tried]) =>
                         results[i].results = attempts[results[i].tried].results
             /\ merged.end = "ok" =>
                   /\ ToSet(merged.merged) = asked
                   /\ Len(merged.merged) = Cardinality(asked)
                   /\ "" \notin asked
             /\ input.dimension = "feature" => Len(questions) = 1

=============================================================================
