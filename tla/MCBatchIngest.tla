---------------------------- MODULE MCBatchIngest ----------------------------
(* A small instance of BatchIngest for TLC.                                 *)
EXTENDS BatchIngest

Text(kind, words) == [kind |-> kind, words |-> words]
Blank == Text("blank", 0)

Path(suffix, words) == [suffix |-> suffix, words |-> words]

Plain == [id |-> "a", type |-> "", path |-> Path(".md", {}), hash |-> "h", problems |-> {},
          lines |-> <<Text("text", 10)>>, loads |-> TRUE, keys |-> <<>>, paths |-> <<>>,
          schemas |-> <<>>]

\* Texts around the limits: a piece holds 153 words, the next begins 115 later.
Texts ==
  { <<Text("text", 20), Text("decl", 5), Text("deep", 7), Blank, Text("error", 9)>>,
    <<Blank, Text("error", 4), Text("error", 5), Text("text", 6), Text("error", 7), Text("body", 3)>>,
    <<Text("deep", 3), Text("decl", 4), Blank, Text("body", 5), Text("text", 6), Blank>>,
    <<Text("text", 154), Text("decl", 30)>>,
    <<Text("text", 300), Text("decl", 153)>>,
    <<Text("decl", 60), Text("decl", 60), Text("decl", 60), Text("decl", 60), Text("decl", 60)>>,
    <<Text("decl", 100), Text("decl", 100), Text("decl", 100), Text("decl", 100)>>,
    <<Text("decl", 4), Blank, Text("decl", 4), Text("decl", 4), Text("decl", 160)>>,
    <<Text("decl", 300), Blank, Text("decl", 500)>> }

Paths == { Path(".md", {}), Path(".log", {}), Path(".py", {}), Path(".go", {}),
           Path(".java", {}), Path(".rb", {}), Path(".diff", {}), Path(".md", {"incident"}) }

Files == {[Plain EXCEPT !.path = path, !.lines = text, !.hash = "h1"] : path \in Paths, text \in Texts}

Scripts ==
  { [Plain EXCEPT !.path = Path(".jsx", {}), !.lines = <<Text("text", 5), Text("decl", 9)>>, !.loads = loads] :
      loads \in BOOLEAN }

Structured ==
  { [Plain EXCEPT !.path = Path(".yaml", {}), !.keys = <<10, 20, 30>>],
    [Plain EXCEPT !.path = Path(".toml", {}), !.loads = FALSE],
    [Plain EXCEPT !.path = Path(".json", {"openapi"}), !.paths = <<10, 300, 5>>, !.schemas = <<7>>],
    [Plain EXCEPT !.path = Path(".json", {"deploy"}), !.keys = <<30, 0, 30>>],
    [Plain EXCEPT !.path = Path(".json", {"deploy"}), !.loads = FALSE],
    [Plain EXCEPT !.path = Path(".bin", {}), !.type = "deploy"],
    [Plain EXCEPT !.path = Path(".csv", {}), !.type = "table"] }

Refused == { [Plain EXCEPT !.problems = {"unsafe_path", "binary_content"}],
             [Plain EXCEPT !.problems = {"document_too_large"}] }

\* The other documents of the batches.
Others == { [Plain EXCEPT !.id = "b", !.hash = hash] : hash \in {"h", "h2"} }

Stored == {Plain, [Plain EXCEPT !.id = "b", !.hash = "h2"]}

AllDocuments == {Plain} \cup Files \cup Scripts \cup Structured \cup Refused \cup Others
=============================================================================
