--------------------------- MODULE DocumentParser ---------------------------
(***************************************************************************)
(* The parser: the sandboxed child process (ocr-parser-sandbox), what      *)
(* ParserProcess makes of its exit code and of what it writes, and the     *)
(* verified read of an object that comes before.                           *)
(*                                                                         *)
(* A document is what the libraries find in its bytes:                     *)
(*                                                                         *)
(*   type       "pdf", "image" (JPEG, PNG, WebP), "tiff" or "other"        *)
(*   sound      it has the format of its type                              *)
(*   encrypted  a PDF with an Encrypt entry                                *)
(*   heavy      a PDF with too many objects or an expanding stream         *)
(*   torn       the pixels of its last image do not decode                 *)
(*   pages      the pages, each <<width, height>> in pixels                *)
(***************************************************************************)
EXTENDS Integers, Sequences, FiniteSets

CONSTANTS MaxPages, MaxPagePixels, MaxTotalPixels

\* DocumentLimits::new.
ASSUME DocumentLimits ==
    /\ MaxPages \in Nat \ {0}
    /\ MaxPagePixels \in Nat \ {0}
    /\ MaxTotalPixels \in Nat
    /\ MaxPagePixels <= MaxTotalPixels

Supported == {"pdf", "image", "tiff"}

Pixels(page) == page[1] * page[2]

\* The pixels of the first n pages.
Total(pages, n) ==
    Cardinality(UNION {{i} \X (1..Pixels(pages[i])) : i \in 1..n})

\* The pixels of the largest page.
Largest(pages) ==
    LET sizes == {0} \cup {Pixels(pages[i]) : i \in DOMAIN pages}
    IN CHOOSE n \in sizes : \A m \in sizes : m <= n

\* A get of one generation, hashed: the object "matches" what is declared of it,
\* is "gone" (NotFound, Precondition, another generation, length or digest), or
\* storage is "silent".
collect_verified(got) ==
    CASE got = "matches" -> "Ok" [] got = "gone" -> "Invalid" [] got = "silent" -> "Unavailable"

-----------------------------------------------------------------------------
(***************************************************************************)
(* The child: an error, or the pages it reports.                           *)
(***************************************************************************)
Failure(error) == [error |-> error, pages |-> <<>>]
Report(pages) == [error |-> "none", pages |-> pages]

OverLimit(pages, i) == Pixels(pages[i]) > MaxPagePixels \/ Total(pages, i) > MaxTotalPixels

\* The pages are measured in order: the first one that fails decides.
Measure(pages, unsized) ==
    LET bad == {i \in DOMAIN pages : Pixels(pages[i]) = 0 \/ OverLimit(pages, i)}
    IN IF bad = {} THEN Report(pages)
       ELSE LET i == CHOOSE i \in bad : \A k \in bad : i <= k
            IN Failure(IF Pixels(pages[i]) = 0 THEN unsized ELSE "LimitExceeded")

inspect_pdf(document) ==
    IF ~document.sound THEN Failure("InvalidDocument")
    ELSE IF document.encrypted THEN Failure("PasswordProtected")
    ELSE IF document.heavy THEN Failure("LimitExceeded")
    ELSE IF document.pages = <<>> THEN Failure("InvalidDocument")
    ELSE IF Len(document.pages) > MaxPages THEN Failure("LimitExceeded")
    ELSE Measure(document.pages, "InvalidDocument")

Decoded(document, measured) ==
    IF measured.error = "none" /\ document.torn THEN Failure("InvalidDocument") ELSE measured

\* The first frame is the page, and its size is checked before it is decoded.
inspect_image(document) ==
    IF ~document.sound THEN Failure("InvalidDocument")
    ELSE Decoded(document, Measure(SubSeq(document.pages, 1, 1), "InvalidDocument"))

\* Every frame is a page; one without pixels is over a limit.
inspect_tiff(document) ==
    IF ~document.sound THEN Failure("InvalidDocument")
    ELSE IF Len(document.pages) > MaxPages THEN Failure("LimitExceeded")
    ELSE Decoded(document, Measure(document.pages, "LimitExceeded"))

inspect_document(document) ==
    CASE document.type = "pdf" -> inspect_pdf(document)
      [] document.type = "image" -> inspect_image(document)
      [] document.type = "tiff" -> inspect_tiff(document)
      [] OTHER -> Failure("UnsupportedContentType")

\* pdftotext (external): the layout of every page, or what went wrong.
Layouts == {"pages", "fewer_pages", "failed", "too_long", "missing"}

pdf_layout(layout) ==
    CASE layout = "pages" -> "none"
      [] layout \in {"fewer_pages", "failed"} -> "InvalidDocument"
      [] layout = "too_long" -> "NativeTextLimitExceeded"
      [] layout = "missing" -> "NativeTextUnavailable"

\* The text layer of a PDF; an image has its pages and no text.
extract_native_document(document, layout) ==
    LET report == inspect_document(document)
    IN IF report.error # "none" \/ document.type # "pdf" \/ pdf_layout(layout) = "none"
       THEN report ELSE Failure(pdf_layout(layout))

error_exit(error) ==
    CASE error = "none" -> 0
      [] error \in {"UnsupportedContentType", "InvalidDocument"} -> 10
      [] error = "PasswordProtected" -> 12
      [] error = "NativeTextUnavailable" -> 13
      [] OTHER -> 11

-----------------------------------------------------------------------------
(***************************************************************************)
(* ParserProcess: the child "exits", "dies" (a signal, the deadline, too   *)
(* much output, no process at all) or "garbles" what it writes.            *)
(***************************************************************************)
Fates == {"exits", "dies", "garbles"}

run(document, child, fate) ==
    LET code == error_exit(child.error)
    IN IF document.type \notin Supported THEN "InvalidDocument"
       ELSE IF fate = "dies" THEN "Unavailable"
       ELSE CASE code = 0 -> "Ok"
              [] code = 10 -> "InvalidDocument"
              [] code = 11 -> "LimitsExceeded"
              [] code = 12 -> "PasswordRequired"
              [] OTHER -> "Unavailable"

\* What is on the wire; a garbled total stands for any inconsistency.
Wire(pages, fate) ==
    [count |-> Len(pages), maximum |-> Largest(pages), pages |-> pages,
     total |-> Total(pages, Len(pages)) + IF fate = "garbles" THEN 1 ELSE 0]

parse_report(wire) ==
    IF /\ wire.count = Len(wire.pages) /\ wire.count > 0
       /\ wire.maximum = Largest(wire.pages) /\ wire.maximum > 0
       /\ wire.total = Total(wire.pages, Len(wire.pages))
    THEN "Ok" ELSE "Unavailable"

WithinLimits(wire) ==
    wire.count <= MaxPages /\ wire.maximum <= MaxPagePixels /\ wire.total <= MaxTotalPixels

inspect(document, fate) ==
    LET child == inspect_document(document)
        outcome == run(document, child, fate)
        wire == Wire(child.pages, fate)
    IN IF outcome # "Ok" THEN outcome
       ELSE IF parse_report(wire) # "Ok" THEN "Unavailable"
       ELSE IF WithinLimits(wire) THEN "Ok" ELSE "LimitsExceeded"

\* No pages, pages out of order or beyond a limit are the child's fault.
extract_native(document, layout, fate) ==
    LET child == extract_native_document(document, layout)
        outcome == run(document, child, fate)
        wire == Wire(child.pages, fate)
    IN IF outcome = "Ok" /\ (fate = "garbles" \/ wire.count = 0 \/ ~WithinLimits(wire))
       THEN "Unavailable"
       ELSE outcome
=============================================================================
