---------------------------- MODULE MCHybridSearch ----------------------------
(* A small instance of HybridSearch for TLC.                                *)
EXTENDS HybridSearch

Path(suffix, words) == [suffix |-> suffix, words |-> words]

Plain == [doc |-> "logs", version |-> 1, path |-> Path(".log", {"pay"}), start |-> 1, end |-> 9,
          type |-> "log_time_window", source |-> "logs", service |-> "pay", endpoint |-> {},
          hash |-> Nothing, symbol |-> Nothing, package |-> Nothing, terms |-> {}, dated |-> TRUE,
          text |-> {"slow", "refund"}, rank |-> 2, similarity |-> 3, judged |-> 2, chars |-> 9]

\* A log that is indexed again in place, code that moves, and what stays; the
\* entry of a deploy history has overwritten the tag of its chunk.
AllChunks ==
  << Plain,
     [Plain EXCEPT !.version = 2, !.rank = 5, !.similarity = 4, !.chars = 30],
     [Plain EXCEPT !.doc = "code", !.path = Path(".go", {"src", "refund"}), !.type = "go_function",
                   !.source = "code", !.symbol = "refund", !.package = "pay", !.terms = {"refund"},
                   !.endpoint = {"pay", "v1"}, !.rank = 4, !.similarity = 5, !.judged = 9000, !.chars = 12],
     [Plain EXCEPT !.doc = "code", !.version = 2, !.path = Path(".go", {"src", "refund"}), !.start = 3,
                   !.type = "go_function", !.source = "code", !.service = Nothing, !.symbol = "refund",
                   !.text = {"refund"}, !.rank = 4, !.similarity = 1, !.judged = 1, !.chars = 2],
     [Plain EXCEPT !.doc = "notes", !.path = Path(".md", {"readme"}), !.type = "markdown_heading_section",
                   !.source = "runbook", !.service = Nothing, !.rank = 3, !.similarity = 2, !.judged = 4, !.chars = 14],
     [Plain EXCEPT !.doc = "deploys", !.path = Path(".json", {"config"}), !.type = "deploy_commit",
                   !.source = "deploy", !.hash = "abc", !.text = {"slow"}, !.rank = 1, !.similarity = 6, !.judged = 5, !.chars = 8],
     [Plain EXCEPT !.doc = "history", !.path = Path(".json", {"config"}), !.type = "deploy_commit",
                   !.source = "deploy_history", !.hash = "def", !.rank = 6, !.similarity = 7, !.judged = 6, !.chars = 7] >>

Weights == [vector |-> 40, lexical |-> 30, metadata |-> 20, graph |-> 10]

Query(says) == [says |-> says, terms |-> {"refund"}, exact |-> {"refund"}, services |-> {"pay"},
                endpoints |-> {}, hashes |-> {}]

Vague(says) == [Query(says) EXCEPT !.terms = {"ledger"}, !.exact = {"ledger"}, !.services = {}]

Request(route, query, topK, filters, rerank, llm) ==
  [route |-> route, query |-> query, topK |-> topK, filters |-> filters, rerank |-> rerank, llm |-> llm]

NoFilter == [field \in {} |-> Nothing]
PayOnly == [service |-> "pay"]

AllRequests ==
  { Request("search", Query({"architecture"}), 2, PayOnly, "always", FALSE),
    Request("search", Query({}), 1, NoFilter, "conditional", FALSE),
    Request("search", [Query({"runbook"}) EXCEPT !.endpoints = {{"v1"}}], 2, PayOnly, "disabled", FALSE),
    Request("answer", Query({"runtime"}), 1, NoFilter, "always", TRUE),
    Request("answer", Query({"runtime"}), 4, NoFilter, "local", TRUE),
    Request("answer", [Query({"deploy"}) EXCEPT !.hashes = {"abc"}], 2, NoFilter, "conditional", TRUE),
    Request("answer", Query({"history"}), 3, NoFilter, "always", TRUE),
    Request("answer", Query({"code"}), 3, NoFilter, "always", TRUE),
    Request("answer", Vague({"where", "config"}), 2, NoFilter, "always", FALSE),
    Request("answer", Vague({"api"}), 2, NoFilter, "always", TRUE),
    Request("answer", Query({"architecture"}), 1, NoFilter, "always", FALSE) }

Bounds == [searchItems |-> 3, searchChars |-> 12, searchTotal |-> 20, answerItems |-> 4, answerChars |-> 12,
           answerTotal |-> 40, directChars |-> 6, directTotal |-> 9, rerankItems |-> 2]
=============================================================================
