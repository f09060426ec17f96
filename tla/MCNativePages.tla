--------------------------- MODULE MCNativePages ---------------------------
(***************************************************************************)
(* An instance of NativePages for TLC.  Two jobs compete for one slot of   *)
(* worker p; job a is also recognised by worker q.                         *)
(***************************************************************************)
EXTENDS NativePages

MCTasks == 1..4
MCJobOf == <<"a", "a", "b", "a">>
MCProcessOf == <<"p", "p", "p", "q">>
MCFinals == 1..2
MCFinalOf == <<"a", "a">>

\* A PDF of two pages, the photo of one, and the ways they can go wrong.
Pdf == [type |-> "pdf", sound |-> TRUE, encrypted |-> FALSE, heavy |-> FALSE, torn |-> FALSE,
        pages |-> <<<<2, 3>>, <<2, 2>>>>]
Photo == [Pdf EXCEPT !.type = "image", !.pages = <<<<2, 3>>>>]
Frames == [Pdf EXCEPT !.type = "tiff"]

Accepted(document) ==
    [document |-> document, row |-> "stored", count |-> Len(document.pages),
     geometries |-> document.pages, object |-> "matches", large |-> FALSE]

MCSources ==
    {Accepted(Pdf), Accepted(Photo), Accepted(Frames),
     [Accepted(Pdf) EXCEPT !.geometries = <<<<3, 2>>, <<2, 2>>>>],
     [Accepted(Pdf) EXCEPT !.geometries = <<<<1, 1>>, <<1, 1>>>>],
     [Accepted(Frames) EXCEPT !.count = 1, !.geometries = <<<<2, 3>>>>],
     [Accepted(Pdf) EXCEPT !.count = 1, !.geometries = <<<<2, 3>>>>],
     [Accepted(Pdf) EXCEPT !.count = 0, !.geometries = <<>>],
     [Accepted(Pdf) EXCEPT !.row = "none"],
     [Accepted(Pdf) EXCEPT !.row = "invalid"],
     [Accepted(Pdf) EXCEPT !.row = "silent"],
     [Accepted(Photo) EXCEPT !.object = "gone"],
     [Accepted(Photo) EXCEPT !.object = "silent"],
     [Accepted(Photo) EXCEPT !.large = TRUE],
     [Accepted(Photo) EXCEPT !.document.torn = TRUE]}

Line == [segments |-> <<<<0, 2>>>>, blank |-> FALSE, confident |-> TRUE, polygon |-> TRUE]
Answer(line) ==
    [status |-> 200, body |-> "whole", pages |-> 1, asked |-> TRUE, length |-> 4, lines |-> <<line>>]

MCAnswers ==
    {Answer(Line), Answer([Line EXCEPT !.segments = <<<<3, 5>>>>]), Answer([Line EXCEPT !.blank = TRUE]),
     [Answer(Line) EXCEPT !.pages = 2]}
        \cup {[Answer(Line) EXCEPT !.body = b] : b \in {"invalid", "broken"}}
        \cup {[Answer(Line) EXCEPT !.status = s] : s \in {0, 400, 408, 429, 503}}
=============================================================================
