--------------------------- MODULE MCUploadIntake ---------------------------
(***************************************************************************)
(* Instances of UploadIntake for TLC.  The uploads declare the same digest, *)
(* so they share one content-addressed source.                             *)
(***************************************************************************)
EXTENDS UploadIntake, TLC

CONSTANT Document

SameDigest == [u \in Uploads |-> Document]

\* Documents within the limits, and one for each reason to reject.
Sound == [type |-> "pdf", sound |-> TRUE, encrypted |-> FALSE, heavy |-> FALSE, torn |-> FALSE,
          pages |-> <<<<2, 3>>, <<2, 2>>>>]
MCDocuments ==
    {Sound, [Sound EXCEPT !.type = "tiff"], [Sound EXCEPT !.type = "image"],
     [Sound EXCEPT !.type = "other"], [Sound EXCEPT !.sound = FALSE],
     [Sound EXCEPT !.encrypted = TRUE], [Sound EXCEPT !.heavy = TRUE],
     [Sound EXCEPT !.pages = <<>>], [Sound EXCEPT !.pages = <<<<1, 1>>, <<1, 1>>, <<1, 1>>>>],
     [Sound EXCEPT !.pages = <<<<0, 3>>>>], [Sound EXCEPT !.pages = <<<<7, 1>>>>],
     [Sound EXCEPT !.pages = <<<<2, 3>>, <<5, 1>>>>],
     [Sound EXCEPT !.type = "tiff", !.pages = <<<<0, 3>>>>],
     [Sound EXCEPT !.type = "image", !.torn = TRUE]}

Peers == Permutations(Uploads) \cup Permutations(Dispatchers)
=============================================================================
