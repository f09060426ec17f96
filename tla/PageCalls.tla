----------------------------- MODULE PageCalls -----------------------------
(***************************************************************************)
(* The calls the recognition of a page makes outside its process, and what *)
(* each answer means for the page: the accepted source, the native parser, *)
(* and Document AI.                                                        *)
(*                                                                         *)
(* An accepted source is                                                   *)
(*   document    what the parser finds in it                               *)
(*   row         the row of its upload: "stored", "none", one the store    *)
(*               finds "invalid", or the store is "silent"                 *)
(*   count       the pages the import counted                              *)
(*   geometries  and their sizes                                           *)
(*   object      "matches" its generation, length and digest, is "gone"    *)
(*               (or another), or "silent"                                 *)
(*   large       beyond the limit of Document AI                           *)
(* and a reply of Document AI (external)                                   *)
(*   status      the HTTP status, 0 for no answer                          *)
(*   body        "whole", "invalid" (empty or beyond the limit) or         *)
(*               "broken" off                                              *)
(*   pages       the number of pages in it                                 *)
(*   asked       the first is the page asked for                           *)
(*   length      the characters of its text                                *)
(*   lines       each with the segments of its anchor, and whether it is   *)
(*               blank, has a confidence and a polygon                     *)
(***************************************************************************)
EXTENDS DocumentParser

-----------------------------------------------------------------------------
(***************************************************************************)
(* The accepted source.                                                    *)
(***************************************************************************)
\* The row of the job's accepted upload, with what the import measured.
load_accepted_source(source) ==
    CASE source.row = "stored" -> "Ok"
      [] source.row = "none" -> "NotFound"
      [] source.row = "invalid" -> "Invalid"
      [] source.row = "silent" -> "Unavailable"

page_geometry(source, page) ==
    IF page \in 1..source.count /\ source.count = Len(source.geometries)
    THEN "Ok" ELSE "Invalid"

\* GcsAcceptedSourceReader: a foreign bucket, name or generation is "gone" too.
read_inner(source) == collect_verified(source.object)

load_inner(source, page) ==
    IF load_accepted_source(source) # "Ok" THEN load_accepted_source(source)
    ELSE IF page_geometry(source, page) # "Ok" THEN page_geometry(source, page)
    ELSE read_inner(source)

map_source_error(error) == IF error = "Unavailable" THEN "Retryable" ELSE "Permanent"

-----------------------------------------------------------------------------
(***************************************************************************)
(* The initialiser of NativePageRecognizer::recognize, up to the rows.     *)
(***************************************************************************)
map_parser_error(error) ==
    IF error \in {"InvalidDocument", "PasswordRequired", "LimitsExceeded"}
    THEN "Permanent" ELSE "Retryable"

\* Older accepted PDFs recorded unrotated dimensions.
SameGeometry(page, recorded) ==
    page = recorded \/ (page[1] = recorded[2] /\ page[2] = recorded[1])

\* Older accepted TIFFs reported only their first frame.
Kept(source, pages) ==
    IF source.document.type = "tiff" /\ source.count = 1 THEN SubSeq(pages, 1, 1) ELSE pages

\* save_native_pages stores nothing, and fails, unless the pages are as many as
\* the import counted.
Extract(source, page, layout, fate) ==
    LET loaded == load_inner(source, page)
        parsed == extract_native(source.document, layout, fate)
        pages == extract_native_document(source.document, layout).pages
    IN IF loaded # "Ok" THEN map_source_error(loaded)
       ELSE IF parsed # "Ok" THEN map_parser_error(parsed)
       ELSE IF page > Len(pages) THEN "Permanent"
       ELSE IF ~SameGeometry(pages[page], source.geometries[page]) THEN "Permanent"
       ELSE IF Len(Kept(source, pages)) # source.count THEN "Retryable"
       ELSE "Ok"

-----------------------------------------------------------------------------
(***************************************************************************)
(* DocumentAiPageRecognizer.                                               *)
(***************************************************************************)
map_http_status(status) ==
    IF status = 429 THEN "RateLimited"
    ELSE IF status = 408 \/ status >= 500 THEN "Unavailable"
    ELSE "Invalid"

\* A body that is too long or empty is invalid; a stream that breaks off says
\* nothing of the document.
read_bounded_response(reply) ==
    CASE reply.body = "whole" -> "Ok"
      [] reply.body = "invalid" -> "Invalid"
      [] reply.body = "broken" -> "Unavailable"

\* The transport's limit on what it sends is lower than the import's.
process_inner(source, reply) ==
    IF source.large THEN "Invalid"
    ELSE IF reply.status = 0 THEN "Unavailable"
    ELSE IF reply.status \notin 200..299 THEN map_http_status(reply.status)
    ELSE read_bounded_response(reply)

\* Offsets count characters of the document's text.
Resolves(line, length) ==
    /\ line.segments # <<>>
    /\ \A i \in DOMAIN line.segments :
          line.segments[i][1] <= line.segments[i][2] /\ line.segments[i][2] <= length
    /\ ~line.blank

observation(line, length) == Resolves(line, length) /\ line.confident /\ line.polygon

\* One line without evidence refuses the page.
parse_document(reply) ==
    IF /\ reply.pages = 1 /\ reply.asked
       /\ \A i \in DOMAIN reply.lines : observation(reply.lines[i], reply.length)
    THEN "Ok" ELSE "Permanent"

\* An image too small is enlarged first, or sent as it is when that fails.
recognize_inner(source, page, reply) ==
    LET loaded == load_inner(source, page)
        processed == process_inner(source, reply)
    IN IF loaded # "Ok" THEN map_source_error(loaded)
       ELSE CASE processed = "Ok" -> parse_document(reply)
              [] processed = "Invalid" -> "Permanent"
              [] processed = "Unavailable" -> "Retryable"
              [] processed = "RateLimited" -> "RateLimited"
=============================================================================
