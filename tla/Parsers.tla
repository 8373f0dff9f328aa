------------------------------- MODULE Parsers -------------------------------
(***************************************************************************)
(* The parsers of incidentops/ingestion/parsers as operators from a        *)
(* document to its raw chunks, with the classification by path that picks  *)
(* one (ingestion/chunking/metadata.py, ingestion/normalized.py and        *)
(* _parse_normalized_document of ingestion/indexer.py).                    *)
(*                                                                         *)
(* A document is seen as a sequence of lines.  A line has its words and    *)
(* the kind that the parser's expressions would recognise:                 *)
(*   "text"   anything else            "blank"  no words                   *)
(*   "decl"   a declaration, a heading of level 1 to 3, a "diff --git"     *)
(*   "deep"   one that is nested, or a heading of a deeper level           *)
(*   "body"   an indented line of the declaration above it                 *)
(*   "error"  a log line that reports an error                             *)
(* What loads as JSON, YAML, TOML or INI is the words of its rendered      *)
(* sections instead; "loads" also says of a .py file that it has no syntax *)
(* error, and of a .jsx file that it declares no plain function.  A raw    *)
(* chunk holds the lines from .. to but reports start .. end as its place. *)
(***************************************************************************)
EXTENDS Naturals, Sequences, FiniteSets, SequencesExt

CONSTANTS
  WindowSize,       \* WINDOW_SIZE of log_parser.py
  ErrorClusterMin,  \* ERROR_CLUSTER_MIN_LINES
  ErrorClusterMax,  \* ERROR_CLUSTER_MAX_LINES
  KeyLimit,         \* the top-level keys of a config file that are kept
  PathLimit         \* the paths, and the schemas, of an API description

ASSUME ParserAssumption ==
  {WindowSize, ErrorClusterMin, ErrorClusterMax, KeyLimit, PathLimit} \subseteq Nat \ {0}

KnownSourceTypes ==
  {"logs", "code", "deploy", "incident", "runbook", "api_doc", "config", "unknown_text"}

CodeSuffixes == {".py", ".js", ".ts", ".jsx", ".tsx", ".go", ".java", ".rb"}

\* The part of a document its path gives away: the suffix, and which of the
\* words that are looked for it contains.
Says(path, words) == path.words \cap words # {}

DeployWords   == {"deploy", "release", "commit"}
IncidentWords == {"incident", "postmortem"}
ApiWords      == {"openapi", "swagger"}

ClassifySourceType(path) ==
  CASE path.suffix \in CodeSuffixes -> "code"
    [] path.suffix = ".proto" -> "api_doc"
    [] path.suffix = ".log" \/ Says(path, {"/logs/"}) -> "logs"
    [] path.suffix \in {".patch", ".diff"} -> "deploy"
    [] path.suffix = ".json" /\ Says(path, DeployWords) -> "deploy"
    [] Says(path, IncidentWords) -> "incident"
    [] Says(path, ApiWords) -> "api_doc"
    [] path.suffix \in {".yaml", ".yml", ".toml", ".ini", ".json"} -> "config"
    [] path.suffix \in {".md", ".txt"} -> "runbook"
    [] OTHER -> "unknown"

\* The declared type counts if it is known; SOURCE_TYPE_ALIASES is applied first
\* and left to the inputs here.
NormalizeSourceType(declared, path) ==
  LET inferred == ClassifySourceType(path)
  IN CASE declared \in KnownSourceTypes -> declared
       [] inferred \in KnownSourceTypes \ {"config"} -> inferred
       [] path.suffix \in {".json", ".yaml", ".yml"} -> "config"
       [] OTHER -> "unknown_text"

\* The parser for a validated document; "none" is reported as an error.
ParserFor(type, path) ==
  CASE type = "logs" \/ path.suffix = ".log" -> "logs"
    [] path.suffix \in {".patch", ".diff"} -> "patch"
    [] path.suffix = ".json" /\ (type = "deploy" \/ Says(path, DeployWords)) -> "deploys"
    [] type = "incident" \/ Says(path, IncidentWords) -> "incident"
    [] path.suffix = ".py" -> "python"
    [] path.suffix \in {".go", ".proto"} -> "declarations"
    [] path.suffix \in {".js", ".ts", ".jsx", ".tsx", ".java"} -> "regex"
    [] type = "code" -> "file"
    [] path.suffix \in {".yaml", ".yml", ".toml", ".ini"} -> "structured"
    [] path.suffix = ".json" /\ type \in {"config", "api_doc"} -> "structured"
    [] path.suffix \in {".md", ".txt", ".json"} -> "markdown"
    [] type \in {"config", "unknown_text", "runbook", "api_doc"} -> "markdown"
    [] OTHER -> "none"

-----------------------------------------------------------------------------
(* Lines and raw chunks                                                     *)

LineKinds == {"text", "blank", "decl", "deep", "body", "error"}

WordsIn(lines, from, to) ==
  LET sum[n \in 0 .. to - from + 1] == IF n = 0 THEN 0 ELSE sum[n - 1] + lines[from + n - 1].words
  IN sum[to - from + 1]

RawChunk(lines, from, to) ==
  [from |-> from, to |-> to, start |-> from, end |-> to, words |-> WordsIn(lines, from, to)]

\* A set of numbers as a list, the least first.
Ascending(numbers) ==
  [p \in 1 .. Cardinality(numbers) |->
     CHOOSE n \in numbers : Cardinality({m \in numbers : m < n}) = p - 1]

\* Chunks whose text is empty once stripped are left out.
NonBlank(chunks) ==
  LET places == Ascending({k \in DOMAIN chunks : chunks[k].words > 0})
  IN [p \in DOMAIN places |-> chunks[places[p]]]

\* The lines cut at every boundary; without one the whole file is the chunk.
Sections(lines, boundary) ==
  LET starts == Ascending({1} \cup {i \in DOMAIN lines : lines[i].kind \in boundary})
      ends   == Append(starts, Len(lines) + 1)
  IN NonBlank([k \in DOMAIN starts |-> RawChunk(lines, starts[k], ends[k + 1] - 1)])

WholeFile(lines) == <<RawChunk(lines, 1, Len(lines))>>

-----------------------------------------------------------------------------
(* The parsers                                                              *)

\* parse_go, parse_proto: what their patterns find in a line, nested or not.
DeclarationChunks(lines) == Sections(lines, {"decl", "deep"})

\* parse_jsts, parse_java: the pattern is matched at the beginning of the line,
\* blanks included, so that members of a class are chunks of their own.
RegexLanguageChunks(lines) == Sections(lines, {"decl", "deep"})

\* _resolve_regex_declaration does not take "jsx" for a kind of JavaScript, and
\* asks the match of a plain function for a second group.
ParserRaises(doc) == doc.path.suffix = ".jsx" /\ ~doc.loads

MarkdownChunks(lines) == Sections(lines, {"decl", "deep"})

IncidentChunks(lines) == Sections(lines, {"decl"})

\* Every diff reports its place as if the file began with it; its text has lost
\* the blank lines around it.
PatchChunks(lines) ==
  LET diffs  == Sections(lines, {"decl"})
      Height(chunk) ==
        LET full == {i \in chunk.from .. chunk.to : lines[i].words > 0}
        IN Cardinality({i \in chunk.from .. chunk.to : \E a, b \in full : a <= i /\ i <= b})
  IN [k \in DOMAIN diffs |-> [diffs[k] EXCEPT !.start = 1, !.end = Height(diffs[k])]]

\* The last line of the top-level definition that begins at i, what is defined
\* inside it included.
DefinitionEnd(lines, i) ==
  LET inside == {k \in DOMAIN lines : lines[k].kind \in {"body", "deep"}}
      blank  == {k \in DOMAIN lines : lines[k].kind = "blank"}
  IN CHOOSE j \in i .. Len(lines) :
       /\ j = i \/ j \in inside
       /\ \A k \in i + 1 .. j : k \in inside \cup blank
       /\ \A k \in j + 1 .. Len(lines) :
            k \in inside => \E n \in j + 1 .. k : n \notin inside \cup blank

\* The lines before the first definition, wherever it is nested, and the
\* top-level definitions; module code between or after them is in no chunk.
PythonChunks(lines) ==
  LET tops   == Ascending({i \in DOMAIN lines : lines[i].kind = "decl"})
      defs   == {i \in DOMAIN lines : lines[i].kind \in {"decl", "deep"}}
      first  == CHOOSE i \in defs : \A k \in defs : i <= k
      before == IF defs = {} THEN <<>> ELSE NonBlank(<<RawChunk(lines, 1, first - 1)>>)
      chunks == before \o [k \in DOMAIN tops |->
                             RawChunk(lines, tops[k], DefinitionEnd(lines, tops[k]))]
  IN IF chunks = <<>> THEN WholeFile(lines) ELSE chunks

\* The text is stripped before it is split into lines, so that the places that
\* are reported do not count the blank lines at its beginning.
Lead(lines) ==
  Cardinality({i \in DOMAIN lines : \A k \in 1 .. i : lines[k].kind = "blank"})

\* The last line that is not blank; 0 when there is none.
LastFull(lines) ==
  CHOOSE i \in 0 .. Len(lines) :
    /\ i = 0 \/ lines[i].kind # "blank"
    /\ \A k \in i + 1 .. Len(lines) : lines[k].kind = "blank"

Shift(chunk, lead) == [chunk EXCEPT !.start = @ - lead, !.end = @ - lead]

\* The maximal runs of error lines, each with one line of what follows.
ErrorRuns(lines) ==
  {run \in (DOMAIN lines) \X (DOMAIN lines) :
     /\ run[1] <= run[2]
     /\ \A i \in run[1] .. run[2] : lines[i].kind = "error"
     /\ run[1] > 1 => lines[run[1] - 1].kind # "error"
     /\ run[2] < Len(lines) => lines[run[2] + 1].kind # "error"}

ErrorClusters(lines) ==
  LET bursts == {run \in ErrorRuns(lines) : run[2] - run[1] + 1 >= ErrorClusterMin}
      begins == Ascending({run[1] : run \in bursts})
      Least(a, b) == IF a < b THEN a ELSE b
      Last1(i) == Least(Len(lines), (CHOOSE run \in bursts : run[1] = i)[2] + 1)
  IN [k \in DOMAIN begins |->
        RawChunk(lines, begins[k], Least(Last1(begins[k]), begins[k] + ErrorClusterMax - 1))]

\* Windows of consecutive lines, then the bursts of errors once more.
LogChunks(lines) ==
  LET lead  == Lead(lines)
      last  == LastFull(lines)
      kept  == SubSeq(lines, 1, last)
      heads == Ascending({i \in lead + 1 .. last : (i - lead - 1) % WindowSize = 0})
      End(i) == IF i + WindowSize - 1 < last THEN i + WindowSize - 1 ELSE last
      chunks == NonBlank([k \in DOMAIN heads |-> RawChunk(kept, heads[k], End(heads[k]))])
                \o ErrorClusters(kept)
  IN [k \in DOMAIN chunks |-> Shift(chunks[k], lead)]

\* A rendered section of a document that loads: it reports the whole file.
SectionChunk(doc, words, last) ==
  [from |-> 1, to |-> Len(doc.lines), start |-> 1, end |-> last, words |-> words]

FirstOf(sections, limit) ==
  SubSeq(sections, 1, IF Len(sections) < limit THEN Len(sections) ELSE limit)

Rendered(doc, sections, last) ==
  [k \in DOMAIN sections |-> SectionChunk(doc, sections[k], last)]

\* parse_structured_config, with _parse_openapi_like for API descriptions.
StructuredChunks(doc, type) ==
  LET last == Len(doc.lines)
      api  == Rendered(doc, FirstOf(doc.paths, PathLimit) \o FirstOf(doc.schemas, PathLimit), last)
      keys == Rendered(doc, FirstOf(doc.keys, KeyLimit), last)
  IN CASE doc.loads /\ type = "api_doc" /\ api # <<>> -> api
       [] doc.loads /\ keys # <<>> -> keys
       [] OTHER -> WholeFile(doc.lines)

\* parse_deploy_history: an entry without a hash or a date (no words here) is
\* skipped; all the others claim line 1.
DeployChunks(doc) ==
  IF doc.loads THEN NonBlank(Rendered(doc, doc.keys, 1)) ELSE <<>>

\* _parse_normalized_document: the raw chunks of a document.
Parse(doc) ==
  LET type == NormalizeSourceType(doc.type, doc.path)
  IN CASE ParserFor(type, doc.path) = "logs" -> LogChunks(doc.lines)
       [] ParserFor(type, doc.path) = "patch" -> PatchChunks(doc.lines)
       [] ParserFor(type, doc.path) = "deploys" -> DeployChunks(doc)
       [] ParserFor(type, doc.path) = "incident" -> IncidentChunks(doc.lines)
       [] ParserFor(type, doc.path) = "python" ->
            IF doc.loads THEN PythonChunks(doc.lines) ELSE WholeFile(doc.lines)
       [] ParserFor(type, doc.path) = "declarations" -> DeclarationChunks(doc.lines)
       [] ParserFor(type, doc.path) = "regex" -> RegexLanguageChunks(doc.lines)
       [] ParserFor(type, doc.path) = "file" -> WholeFile(doc.lines)
       [] ParserFor(type, doc.path) = "structured" -> StructuredChunks(doc, type)
       [] ParserFor(type, doc.path) = "markdown" -> MarkdownChunks(doc.lines)
       [] OTHER -> <<>>
=============================================================================
