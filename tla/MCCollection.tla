------------------------------ MODULE MCCollection ------------------------------
(***************************************************************************)
(* Two competitors: of a, a home page on a domain *)
(* with its name; of b, two pages of a domain that only their titles tie   *)
(* to it; and an article about a.                                          *)
(***************************************************************************)
EXTENDS Collection

Hit(of, url, ends, domain, rank, names, place, marks) ==
    [of |-> of, url |-> url, domain |-> domain, ends |-> {domain} \cup ends, rank |-> rank, names |-> names,
     place |-> place, marks |-> marks, brand |-> FALSE, fitting |-> FALSE,
     overlap |-> 4, keywords |-> 1, age |-> "none"]

MCHits == {
    Hit("a", 1, {"news.com"}, "a.com", 1, {"title", "host"}, "home", {"official_text", "dimension"}),
    Hit("b", 3, {}, "b.org", 1, {"title"}, "about", {"official_text", "starts", "dimension"}),
    Hit("b", 4, {}, "b.org", 3, {"title", "snippet"}, "docs_path", {"dimension"}),
    Hit("a", 5, {}, "news.com", 2, {"title", "site"}, "product",
        {"official_text", "editorial", "secondary", "dimension"})}

Task(competitor, words, coverage, mode, policy, hints, limit) ==
    [competitor |-> competitor, words |-> words, mode |-> mode, policy |-> policy,
     hints |-> hints, limit |-> limit, asks |-> {}, short |-> FALSE, coverage |-> coverage,
     confirmed |-> {}, probable |-> {}, rejected |-> {}, associated |-> {}]

MCTasks == {Task({"b"}, {"feature"}, "unknown", "auto", FALSE, 1, 1),
            Task({"a"}, {"feature"}, "sufficient", "auto", TRUE, 1, 2),
            Task({"a"}, {"pricing"}, "insufficient", "auto", FALSE, 0, 1),
            Task({"a", "b"}, {"customer"}, "insufficient", "auto", TRUE, 1, 1),
            Task({"b"}, {"pricing"}, "unknown", "community", TRUE, 1, 1)}
=============================================================================
