------------------------------- MODULE Ranking -------------------------------
(***************************************************************************)
(* The pure part of retrieval (incidentops/retrieval): what a query asks   *)
(* for, what each search branch finds in a set of chunks, how the branches *)
(* are fused, and how the result is packed into evidence.                  *)
(*                                                                         *)
(* Corpus lists all chunks that ever exist; a chunk is named by its place  *)
(* in it.  A text, a path or a query is seen as the set of the words that  *)
(* the code looks for in it; an endpoint is the set of its segments.       *)
(* Scores are kept in units of 1/10000, boosts in 1/100.                   *)
(***************************************************************************)
EXTENDS Naturals, Integers, Sequences, FiniteSets, SequencesExt, FiniteSetsExt

CONSTANTS
  Corpus,      \* the chunks
  Weight,      \* Weight[branch]: its weight in the fusion, in 1/100
  RrfK,        \* settings.rag_rrf_k
  Multiplier,  \* settings.rag_candidate_multiplier
  MinFetch,    \* the candidates that every branch may return (30)
  Nothing      \* an absent service, endpoint, hash, symbol or package

Branches == {"vector", "lexical", "metadata", "graph"}

ASSUME RankingAssumption ==
  /\ Weight \in [Branches -> Nat]
  /\ {RrfK, Multiplier} \subseteq Nat
  /\ MinFetch \in Nat \ {0}

Chunks == DOMAIN Corpus

\* What the searches, the model and the length of the text say of a chunk.
ASSUME CorpusAssumption ==
  /\ Len(Corpus) \in Nat /\ Chunks = 1 .. Len(Corpus)
  /\ \A c \in Chunks : /\ {Corpus[c].rank, Corpus[c].similarity, Corpus[c].judged} \subseteq Int
                       /\ Corpus[c].chars \in Nat

AtLeast(a, b) == IF a > b THEN a ELSE b
AtMost(a, b) == IF a < b THEN a ELSE b

\* What comes before what in a descending order; equals keep their places.
Before(key, m, n) == key[m] > key[n] \/ (key[m] = key[n] /\ m < n)

\* The members of a set of numbers, the one with the highest key first.
Ranked(set, key) ==
  [p \in 1 .. Cardinality(set) |->
     CHOOSE m \in set : Cardinality({n \in set : Before(key, n, m)}) = p - 1]

\* The entries of s at the given places, in the order of these.
Pick(s, places) == [p \in DOMAIN places |-> s[places[p]]]

\* sorted(..., reverse=True): descending and stable.
SortDescending(s, key) == Pick(s, Ranked(DOMAIN s, key))

\* The entries of s at some places, in the order they have in s.
Keep(s, places) == Pick(s, Ranked(places, [n \in places |-> 0]))

Take(s, n) == SubSeq(s, 1, AtMost(n, Len(s)))

Sum(numbers) ==
  LET sum[n \in 0 .. Len(numbers)] == IF n = 0 THEN 0 ELSE sum[n - 1] + numbers[n]
  IN sum[Len(numbers)]

-----------------------------------------------------------------------------
(* classify_query_intent                                                    *)

Lookup(sources, chunks) == [sources |-> sources, chunks |-> chunks]

GoTypes == {"go_function", "go_method", "go_type", "go_struct", "go_interface"}
PlainCodeTypes == {"python_function", "python_class", "ts_function", "ts_class", "ts_interface",
                   "java_method", "java_class", "java_interface", "function", "class", "module",
                   "go_module", "code_file"}
FallbackTypes == {"go_fallback", "python_fallback", "ts_fallback", "js_fallback", "java_fallback"}
ProtoTypes == {"proto_service", "proto_rpc", "proto_message"}
OpenApiTypes == {"openapi_endpoint", "openapi_schema"}
DeployTypes == {"deploy_commit", "deploy_diff"}
LogTypes == {"log_window", "error_cluster", "log_time_window", "log_error_burst"}
IncidentTypes == {"incident_section", "incident_symptom", "incident_timeline",
                  "incident_root_cause", "incident_action"}
ConfigTypes == {"config_section", "config_service_block", "env_var_block", "dependency_block"}
MarkdownTypes == {"markdown_section", "markdown_heading_section", "markdown_procedure",
                  "markdown_table", "markdown_faq"}

\* What each kind of question prefers.
HistoryLookup == Lookup({"incident", "runbook", "logs"},
  {"incident_section", "incident_root_cause", "incident_timeline", "markdown_heading_section",
   "log_time_window"})
RunbookLookup == Lookup({"runbook", "incident", "deploy", "config"},
  {"markdown_procedure", "markdown_heading_section", "incident_action", "config_section"} \cup DeployTypes)
CodeLookup == Lookup({"code", "api_doc", "config"},
  GoTypes \cup PlainCodeTypes \cup OpenApiTypes \cup ProtoTypes)
CauseLookup == Lookup({"logs", "deploy", "incident", "runbook", "code"},
  {"log_time_window", "log_error_burst", "incident_root_cause", "incident_section", "go_function",
   "markdown_heading_section"} \cup DeployTypes)
DeployLookup == Lookup({"deploy", "logs", "incident", "code"},
  {"release_note", "log_time_window", "go_function", "config_service_block", "config_section"}
    \cup DeployTypes)
RuntimeLookup == Lookup({"logs", "runbook", "deploy", "incident"},
  {"log_time_window", "log_error_burst", "markdown_procedure"} \cup DeployTypes)
ApiLookup == Lookup({"api_doc", "code", "config"},
  OpenApiTypes \cup ProtoTypes \cup {"proto_enum", "go_function", "markdown_heading_section"})
ConfigLookup == Lookup({"config", "deploy", "code"},
  ConfigTypes \cup DeployTypes \cup {"markdown_heading_section", "go_function"})
DesignLookup == Lookup({"runbook", "api_doc", "code", "config"},
  {"markdown_heading_section", "markdown_table", "python_module", "go_module", "proto_service",
   "proto_message", "config_service_block", "config_section"})
GenericLookup == Lookup({"runbook", "code", "config", "api_doc"},
  {"markdown_heading_section", "python_module", "go_module", "go_function", "config_section"})

\* query.says: which of the term lists the query has a word of.
Asks(query, lists) == query.says \cap lists # {}

LooksLikeCodeLocation(query) == Asks(query, {"code", "where", "file"})

Intent(name, lookup) == [name |-> name, sources |-> lookup.sources, chunks |-> lookup.chunks]

\* The first rule that applies decides.
ClassifyQueryIntent(query) ==
  LET rules ==
        << [if |-> Asks(query, {"history"}), is |-> Intent("previous_incident", HistoryLookup)],
           [if |-> Asks(query, {"runbook"}), is |-> Intent("runbook_lookup", RunbookLookup)],
           [if |-> LooksLikeCodeLocation(query) /\ ~Asks(query, {"api", "config"}),
            is |-> Intent("code_location", CodeLookup)],
           [if |-> Asks(query, {"cause"}), is |-> Intent("runtime_incident", CauseLookup)],
           [if |-> Asks(query, {"deploy"}) /\ ~Asks(query, {"where"}),
            is |-> Intent("deploy_regression", DeployLookup)],
           [if |-> Asks(query, {"runtime"}), is |-> Intent("runtime_incident", RuntimeLookup)],
           [if |-> Asks(query, {"api"}), is |-> Intent("api_contract", ApiLookup)],
           [if |-> Asks(query, {"config"}), is |-> Intent("config_lookup", ConfigLookup)],
           [if |-> Asks(query, {"architecture"}), is |-> Intent("architecture", DesignLookup)],
           [if |-> TRUE, is |-> Intent("generic", GenericLookup)] >>
  IN rules[SelectInSeq(rules, LAMBDA rule : rule.if)].is

ExactLookups == {"code_location", "config_lookup", "api_contract"}
IncidentLike == {"runtime_incident", "deploy_regression", "previous_incident"}

\* The kind of evidence without which an incident question is not answered.
Required(intent) ==
  CASE intent.name = "runtime_incident" -> "logs"
    [] intent.name = "deploy_regression" -> "deploy"
    [] intent.name = "previous_incident" -> "incident"

\* investigate_supported, for the kinds of evidence that were found.
Supported(intent, kinds) ==
  \/ intent.name = "runbook_lookup"
  \/ intent.name \in IncidentLike /\ Required(intent) \in kinds

-----------------------------------------------------------------------------
(* What a chunk is                                                          *)

Says(chunk, words) == chunk.path.words \cap words # {}

\* What the type of a chunk says of its source.
SourceTypeByChunk(chunk) ==
  CASE chunk.type \in DeployTypes -> "deploy"
    [] chunk.type \in LogTypes -> "logs"
    [] chunk.type \in GoTypes \cup PlainCodeTypes \cup FallbackTypes -> "code"
    [] chunk.type \in IncidentTypes -> "incident"
    [] chunk.type \in OpenApiTypes \cup ProtoTypes
          \cup {"api_endpoint", "proto_enum", "proto_preamble", "proto_fallback"} -> "api_doc"
    [] chunk.type \in ConfigTypes \cup {"config_fallback"} -> "config"
    [] chunk.type \in MarkdownTypes ->
         IF Says(chunk, {"api", "openapi", "swagger"}) THEN "api_doc" ELSE "runbook"
    [] OTHER -> "unknown_text"

\* _chunk_source_type: the metadata, with the names it had before, or the type.
ChunkSourceType(chunk) ==
  CASE chunk.source = Nothing -> SourceTypeByChunk(chunk)
    [] chunk.source \in {"deploy_history", "patch"} -> "deploy"
    [] chunk.source = "incident_report" -> "incident"
    [] chunk.source = "markdown" -> "runbook"
    [] chunk.source = "unknown" -> "unknown_text"
    [] OTHER -> chunk.source

\* A tag is any string: the indexer writes the parser's source type, but what an
\* entry of a deploy history says of source_type overwrites it.  A tag that is no
\* string counts as none.
ASSUME SourceAssumption == Nothing \notin {"logs", "deploy", "incident"}

\* _source_type_from_chunk of the packer, which has no name for the rest.
PackedSourceType(chunk) ==
  LET untagged == SourceTypeByChunk(chunk)
  IN CASE chunk.source \in {"deploy", "logs", "code", "incident", "runbook", "api_doc", "config"} -> chunk.source
       [] chunk.source = "incident_report" -> "incident"
       [] chunk.source = "deploy_history" -> "deploy"
       [] OTHER ->
            CASE chunk.type \in MarkdownTypes /\ Says(chunk, {"runbook"}) -> "runbook"
              [] chunk.type \in MarkdownTypes /\ untagged = "runbook"
                   /\ chunk.path.suffix \in {".yaml", ".yml", ".json", ".toml", ".ini"} -> "config"
              [] untagged = "unknown_text" -> "runbook"
              [] OTHER -> untagged

-----------------------------------------------------------------------------
(* _metadata_boost                                                          *)

\* _CHUNK_TYPE_BOOSTS
ChunkTypeBoost(type) ==
  CASE type \in {"go_function", "go_method", "python_function", "ts_function", "java_method",
                 "config_service_block", "openapi_endpoint", "proto_rpc", "error_cluster",
                 "log_error_burst", "incident_root_cause"} -> 14
    [] type \in {"api_endpoint", "openapi_schema", "release_note"} -> 10
    [] type = "code_file" -> 5
    [] type \in FallbackTypes -> 4
    [] type \in {"go_type", "go_struct", "go_interface", "python_class", "ts_class", "ts_interface",
                 "java_class", "java_interface", "function", "class", "config_section",
                 "env_var_block", "dependency_block", "proto_service", "markdown_procedure",
                 "log_window", "log_time_window", "incident_section", "incident_symptom",
                 "incident_timeline", "incident_action"} \cup DeployTypes -> 12
    [] OTHER -> 8

\* One endpoint is a part of the other.
Overlap(a, b) == a \subseteq b \/ b \subseteq a

ShouldPenalizeReadme(intent, chunk) ==
  Says(chunk, {"readme"}) /\ intent.name \notin {"architecture", "generic"}

On(condition, reason, amount) == [reason |-> reason, amount |-> IF condition THEN amount ELSE 0]

\* Every reason there may be for moving a chunk up or down, and by how much.
Boosts(chunk, query, intent) ==
  LET source == ChunkSourceType(chunk)
      matched == Cardinality(query.terms \cap chunk.terms)
  IN << On(chunk.hash \in query.hashes, "deploy_hash_match", 18),
        On(chunk.service \in query.services, "service_name_match", 12),
        On(chunk.endpoint # {} /\ \E e \in query.endpoints : Overlap(e, chunk.endpoint), "endpoint_match", 12),
        On(source \in intent.sources, "intent_source", 16),
        On(chunk.type \in intent.chunks, "intent_chunk", ChunkTypeBoost(chunk.type)),
        On(matched > 0, "metadata_terms", 5 * AtMost(matched, 3)),
        On(intent.name = "config_lookup" /\
             (\/ Says(chunk, {"docker", "compose", "helm", "openapi", "swagger", "config", ".env"})
              \/ chunk.path.suffix \in {".yaml", ".yml", ".toml", ".ini", ".json"}),
           "config_path_match", 12),
        On(intent.name = "api_contract" /\
             (\/ Says(chunk, {"api", "openapi", "swagger", "proto/", "routes", "router"})
              \/ chunk.path.suffix = ".proto"),
           "api_contract_path_match", 12),
        On(intent.name = "architecture" /\ Says(chunk, {"docs", "architecture", "design", "overview", "readme"}),
           "architecture_doc_match", 10),
        On(intent.name = "code_location" /\ Says(chunk, {"services", "src", "pkg", "internal", "cmd", "app"}),
           "code_path_match", 6),
        On(intent.name = "runtime_incident" /\ source = "logs" /\ chunk.dated, "runtime_log_metadata", 8),
        On(intent.name = "deploy_regression" /\ source = "deploy", "deploy_regression_source", 8),
        On(intent.name = "previous_incident" /\ source = "incident" /\ chunk.dated, "incident_metadata", 8),
        On(intent.name = "runbook_lookup" /\ source = "runbook", "runbook_source", 8),
        On(ShouldPenalizeReadme(intent, chunk), "readme_penalty", -10),
        On(intent.name \in {"code_location", "api_contract"} /\ source = "runbook",
           "wrong_intent_runbook_penalty", -24),
        On(intent.name = "config_lookup" /\ source = "runbook", "generic_runbook_penalty", -12) >>

Reasons(boosts) == {boosts[n].reason : n \in {m \in DOMAIN boosts : boosts[m].amount # 0}}

MetadataBoost(boosts) == AtMost(Sum([n \in DOMAIN boosts |-> boosts[n].amount]), 45)

-----------------------------------------------------------------------------
(* The branches, over the chunks that are in the database when they look    *)

\* _fetch_budget
FetchBudget(topK, intent) ==
  LET multiplier == CASE intent.name \in {"runtime_incident", "deploy_regression"} -> AtLeast(Multiplier, 4)
                      [] intent.name \in ExactLookups -> 3
                      [] OTHER -> AtLeast(Multiplier, 1)
  IN AtLeast(topK * multiplier, MinFetch)

\* _apply_filters: a filter gives the fields that a chunk must have.
Passes(c, filters) == \A field \in DOMAIN filters : Corpus[c][field] = filters[field]

\* plainto_tsquery asks for all words of the query.
LexicalSearch(live, query, filters, k) ==
  LET rows == {c \in live : query.terms \subseteq Corpus[c].text /\ Passes(c, filters)}
  IN Take(Ranked(rows, [c \in rows |-> Corpus[c].rank]), k)

Symbols(chunk) == {chunk.symbol} \ {Nothing}

\* _exact_score
ExactScore(chunk, query) ==
  LET If(condition, score) == IF condition THEN score ELSE 0
  IN If(chunk.service \in query.services, 4) + If(chunk.hash \in query.hashes, 4)
     + If(chunk.endpoint # {} /\ \E e \in query.endpoints : e \subseteq chunk.endpoint, 5)
     + 3 * Cardinality(Symbols(chunk) \cap query.exact)
     + AtMost(Cardinality(chunk.path.words \cap query.exact), 2)

\* The rows are limited before they are scored, in no particular order, so any
\* set of that size may be the one that is scored.
MetadataMatches(live, query, filters) == {c \in live : ExactScore(Corpus[c], query) > 0 /\ Passes(c, filters)}

MetadataSearch(live, query, filters, k) ==
  LET matches == MetadataMatches(live, query, filters)
  IN { Take(Ranked(rows, [c \in rows |-> ExactScore(Corpus[c], query)]), k) :
         rows \in kSubset(AtMost(3 * k, Cardinality(matches)), matches) }

\* build_chunk_relations: the type of each relation and the words of its keys.
Relations(chunk) ==
  LET Names(name, type) == IF name = Nothing THEN {}
                           ELSE {[type |-> type, words |-> {name} \cup chunk.path.words]}
  IN {[type |-> "contains", words |-> chunk.path.words]}
     \cup Names(chunk.service, "contains") \cup Names(chunk.package, "contains")
     \cup Names(chunk.symbol, "defines") \cup Names(chunk.hash, "changed_by")
     \cup (IF chunk.endpoint = {} THEN {}
           ELSE {[type |-> "implements", words |-> chunk.endpoint \cup chunk.path.words]})

\* The terms, each as the set of words it needs to be found.
GraphTerms(query) == {{term} : term \in query.services \cup query.exact} \cup query.endpoints

RelationScore(relation, query) ==
  Cardinality({term \in GraphTerms(query) : term \subseteq relation.words})
    + (IF relation.type \in {"defines", "implements"} THEN 1 ELSE 0)

\* The relations are limited before they are scored; filters are not applied.
GraphSearch(live, query, k) ==
  LET rows == { row \in UNION {{c} \X Relations(Corpus[c]) : c \in live} :
                  \E term \in GraphTerms(query) : term \subseteq row[2].words }
      Score(some, c) == Max({RelationScore(row[2], query) : row \in {r \in some : r[1] = c}})
      Found(some) == LET chunks == {row[1] : row \in some}
                     IN Ranked(chunks, [c \in chunks |-> Score(some, c)])
  IN {Take(Found(some), k) : some \in kSubset(AtMost(4 * k, Cardinality(rows)), rows)}

\* QdrantVectorStore.search among the points, whatever the database holds.
VectorHits(points, filters, k) ==
  LET hits == {c \in points : Passes(c, filters)}
  IN Take(Ranked(hits, [c \in hits |-> Corpus[c].similarity]), k)

-----------------------------------------------------------------------------
(* _weighted_rrf and the fused score                                        *)

\* The candidates in the order in which the branches mention them.
Candidates(found) ==
  LET all == found["vector"] \o found["lexical"] \o found["metadata"] \o found["graph"]
  IN Keep(all, {n \in DOMAIN all : \A m \in 1 .. n - 1 : all[m] # all[n]})

WeightedRrf(found, c) ==
  LET Rank(b) == CHOOSE n \in DOMAIN found[b] : found[b][n] = c
      Share(b) == IF Contains(found[b], c)
                  THEN (Weight[b] * 10000) \div (AtLeast(RrfK, 1) + Rank(b)) ELSE 0
  IN Share("vector") + Share("lexical") + Share("metadata") + Share("graph")

ByFused(results) == SortDescending(results, [n \in DOMAIN results |-> results[n].fused])
ByRerank(results) == SortDescending(results, [n \in DOMAIN results |-> results[n].rerank])

\* A result of the search; rerank is 0 as long as nobody has scored it.
Fused(found, query, intent, topK) ==
  LET Entry(c) == LET boosts == Boosts(Corpus[c], query, intent)
                  IN [chunk |-> c, fused |-> WeightedRrf(found, c) + 100 * MetadataBoost(boosts),
                      reasons |-> Reasons(boosts), rerank |-> 0]
      candidates == Candidates(found)
  IN Take(ByFused([n \in DOMAIN candidates |-> Entry(candidates[n])]), topK)

-----------------------------------------------------------------------------
(* The reranker                                                             *)

\* _fallback_sort
FallbackSort(results) ==
  ByRerank([n \in DOMAIN results |-> [results[n] EXCEPT !.rerank = results[n].fused]])

DecisiveReasons == {"endpoint_match", "service_name_match", "code_path_match", "config_path_match",
                    "api_contract_path_match", "deploy_hash_match"}

\* _should_skip_cross_encoder
Decisive(results) ==
  \/ Len(results) <= 1
  \/ LET gap == results[1].fused - results[2].fused
     IN \/ gap >= 1800
        \/ gap >= 800 /\ results[1].reasons \cap DecisiveReasons # {}
        \/ gap >= 1000 /\ "metadata_terms" \in results[1].reasons

\* The model scores the first candidates; the others follow by their fused score.
ModelSort(results, limit) ==
  LET scored == [n \in 1 .. AtMost(limit, Len(results)) |->
                   [results[n] EXCEPT !.rerank = Corpus[results[n].chunk].judged]]
      rest == SubSeq(results, Len(scored) + 1, Len(results))
  IN ByRerank(scored) \o ByFused(rest)

-----------------------------------------------------------------------------
(* pack_evidence                                                            *)

\* _compact_text: the length of a text that is cut to fit.
Compact(chars, max) ==
  IF chars <= max THEN chars ELSE IF max <= 1 THEN 0 ELSE (max - 1) + 3

Priority == [deploy |-> 0, logs |-> 1, code |-> 2, incident |-> 3, config |-> 4, api_doc |-> 5, runbook |-> 6]

Place(c) == <<Corpus[c].path, Corpus[c].start, Corpus[c].end>>

\* Mutant: the place of a chunk is not looked at.
Pack_Repeats(packed, entry, maxItems, maxChars, maxTotal) ==
  LET chars == Compact(Compact(Corpus[entry.chunk].chars, maxChars), maxTotal - packed.total)
  IN IF packed.full \/ chars = 0 THEN packed
     ELSE [full |-> Len(packed.items) + 1 >= maxItems, seen |-> packed.seen,
           total |-> packed.total + chars,
           items |-> Append(packed.items,
                            [chunk |-> entry.chunk, chars |-> chars,
                             type |-> PackedSourceType(Corpus[entry.chunk]), score |-> entry.fused])]

\* One round of the loop: a place that is seen again, or a text that is empty,
\* is passed over; a text that no longer fits ends the loop.
Pack(packed, entry, maxItems, maxChars, maxTotal) ==
  LET c == entry.chunk
      text == Compact(Corpus[c].chars, maxChars)
      remaining == maxTotal - packed.total
      chars == IF text > remaining THEN Compact(text, remaining) ELSE text
      seen == packed.seen \cup {Place(c)}
  IN IF packed.full \/ Place(c) \in packed.seen THEN packed
     ELSE IF text = 0 THEN [packed EXCEPT !.seen = seen]
     ELSE IF remaining <= 0 \/ chars = 0 THEN [packed EXCEPT !.full = TRUE]
     ELSE [full |-> Len(packed.items) + 1 >= maxItems, seen |-> seen, total |-> packed.total + chars,
           items |-> Append(packed.items,
                            [chunk |-> c, chars |-> chars, type |-> PackedSourceType(Corpus[c]),
                             score |-> IF entry.rerank # 0 THEN entry.rerank ELSE entry.fused])]

NothingPacked == [full |-> FALSE, seen |-> {}, total |-> 0, items |-> <<>>]

\* The rounds of the loop, over the results in their order.
Packing(results, maxItems, maxChars, maxTotal) ==
  LET packed[n \in 0 .. Len(results)] ==
        IF n = 0 THEN NothingPacked
        ELSE Pack(packed[n - 1], results[n], maxItems, maxChars, maxTotal)
  IN packed

\* By score and then by kind; a path has no order here, so what is still equal
\* stays as it is.
PackEvidence(results, maxItems, maxChars, maxTotal) ==
  LET items == Packing(results, maxItems, maxChars, maxTotal)[Len(results)].items
  IN SortDescending(items, [n \in DOMAIN items |-> 7 * items[n].score - Priority[items[n].type]])
=============================================================================
