--------------------------- MODULE ResultAssembly ---------------------------
(***************************************************************************)
(* DocumentFinalizer from the page artifacts to the terminal state, with   *)
(* the extraction of NutritionLabel as one of its stages:                  *)
(* assemble_*_document_result and what follows in finalize.                *)
(*                                                                         *)
(* A document also has                                                     *)
(*   pages    the pages with an artifact       partial  some page failed   *)
(*   schema   the job names the schema         native   "off", or the      *)
(*            native processing rows are "kept" or "gone"                  *)
(*   damage   what the recogniser did to the printed panel, which no       *)
(*            definition of the code reads                                 *)
(* and a line its recogniser (by) and whether its confidence is below 0.6  *)
(* (low).  Every recogniser returns lines without parents, so every        *)
(* observation is a leaf.  A line counts one towards the size of a result. *)
(***************************************************************************)
EXTENDS NutritionLabel

CONSTANTS
    MaximumLines,   \* MAXIMUM_RESULT_BYTES
    Panel,          \* the printed label: [row, column] |-> amount
    PrintedDigits,  \* its barcode
    PanelColumn     \* the name of each printed column

Units == {"kj", "kcal", "g", "mg", "mcg", "ml", "percent", "other", "none"}
Quantity == [amount : Nat, unit : Units, upper : BOOLEAN]

Recognised ==
    [id : Nat, page : Nat, servings : BOOLEAN, size : BOOLEAN,
     heads : Seq(Columns), within : Seq(Quantity), quants : Seq(Quantity),
     label : Masses \cup {"energy", "calories", "none"},
     unit : Units, leads : BOOLEAN, digits : Seq(0..9),
     points : Seq(Int \X Int), print : Nat \X Nat, by : {"native", "docai", "other"}, low : BOOLEAN]

ASSUME ResultAssumption ==
    \A d \in Documents : d.lines \in Seq(Recognised)

VARIABLES warnings, state

vars == <<labelVars, warnings, state>>

Init == InitLabel /\ warnings = {} /\ state = "reading"

\* assemble_native_document_result names the provider by the observations.
Provider ==
    LET by == {lines[i].by : i \in DOMAIN lines}
    IN CASE doc.native = "off" -> "none"
         [] doc.native = "gone" -> "legacy-mixed"
         [] OTHER -> IF ~(by \subseteq {"native", "docai"}) THEN "legacy-mixed"
                     ELSE IF "docai" \in by THEN "native-text-document-ai"
                     ELSE "native-text"

LowConfidence == \E i \in DOMAIN lines : lines[i].low
EmptyPages == {p \in doc.pages : OnPage(p) = {}}

AssembledFailures(extracted) ==
    extracted
        \cup (IF Provider = "legacy-mixed" THEN {"legacy_processing_requires_review"} ELSE {})
        \cup (IF EmptyPages # {} THEN {"ocr_page_requires_manual_review"} ELSE {})
        \cup (IF LowConfidence THEN {"ocr_low_confidence"} ELSE {})
        \cup (IF lines = <<>> THEN {"ocr_no_text_detected"} ELSE {})

AssembledWarnings(found) ==
    (IF Provider = "legacy-mixed" \/ EmptyPages # {} THEN {"manual_review_required"} ELSE {})
        \cup (IF lines = <<>> THEN {"retake_include_readable_document"}
              ELSE IF LowConfidence \/ "nutrition_row_incomplete" \in found
              THEN {"retake_sharper_image"}
              ELSE IF "nutrition_panel_not_found" \in found
              THEN {"retake_include_column_headers"} ELSE {})

\* Mutant: only what the schema found sends a result to review.
TerminalStateBySchema(found) ==
    IF doc.partial THEN "partial" ELSE IF ExtractedFailures # {} THEN "review_required" ELSE "completed"

TerminalState(found) ==
    IF doc.partial THEN "partial" ELSE IF found # {} THEN "review_required" ELSE "completed"

\* The schema's pass is over (or there is none): the result is put together.
Assemble ==
    /\ state = "reading"
    /\ AtEnd \/ ~doc.schema
    /\ IF Len(lines) > MaximumLines
       THEN /\ state' = "too_large"
            /\ UNCHANGED <<values, failures, warnings>>
       ELSE LET found == AssembledFailures(IF doc.schema THEN ExtractedFailures ELSE {}) IN
            /\ values' = IF doc.schema THEN ExtractedValues ELSE <<>>
            /\ failures' = found
            /\ warnings' = AssembledWarnings(found)
            /\ state' = TerminalState(found)
    /\ UNCHANGED <<doc, at, columns, serving, pack, barcode, readings, panelRows>>

Extract == doc.schema /\ state = "reading" /\ ReadLine /\ UNCHANGED <<warnings, state>>

Next == Extract \/ Assemble

Spec == Init /\ [][Next]_vars

-----------------------------------------------------------------------------
(***************************************************************************)
(* Properties.                                                             *)
(***************************************************************************)
Codes == {"nutrition_row_incomplete", "nutrition_panel_not_found", "nutrition_columns_unidentified",
          "energy_unit_mismatch", "energy_atwater_mismatch", "saturated_fat_exceeds_fat",
          "sugars_exceed_carbohydrate", "per_100g_exceeds_100g", "serving_column_mismatch",
          "legacy_processing_requires_review", "ocr_page_requires_manual_review",
          "ocr_low_confidence", "ocr_no_text_detected"}
Published == {"completed", "review_required", "partial"}

\* Every variable keeps its type, and no column is found twice: a page that repeats
\* the headers does not add columns.
TypeOK ==
    /\ at \in 1..(Len(lines) + 1)
    /\ \A i, k \in DOMAIN columns : columns[i] = columns[k] => i = k
    /\ Len(serving) <= 1 /\ Len(pack) <= 1 /\ Len(barcode) <= 1
    /\ panelRows \in 0..Len(lines)
    /\ DOMAIN values \subseteq Columns \X Nutrients
    /\ failures \subseteq Codes
    /\ state \in Published \cup {"reading", "too_large"}

HeaderLines == {i \in DOMAIN lines : lines[i].heads # <<>>}
Printed(cell) == {i \in DOMAIN lines : lines[i].print = cell}

\* The header of a printed column was recognised and read before a label.
HeaderRead(c, label) ==
    \E h \in HeaderLines : InSeq(PanelColumn[c], lines[h].heads) /\ \A i \in Printed(label) : h < i

\* A row with all its cells.
WholeRow(r) == \A c \in DOMAIN PanelColumn : Printed(<<r, c>>) # {}


\* The rows of cells read after all headers.
TableRows ==
    {i \in DOMAIN lines :
        /\ classified(lines[i]) /\ lines[i].quants = <<>>
        /\ ~lines[i].servings /\ ~lines[i].size
        /\ \A h \in HeaderLines : h < i}

RowNutrients(line) ==
    IF line.label \in {"energy", "calories"} THEN {"energy_kj", "energy_kcal"} ELSE {line.label}

\* A completed result has a value for every row of cells in every column whose
\* header was read; a row with a lost, blurred, repeated or bounded cell sends the
\* result to review.  Rows the reading order puts before a header are not covered.
CompletedIsComplete ==
    state = "completed" /\ doc.schema =>
        \A i \in TableRows, c \in DOMAIN columns :
            \E n \in RowNutrients(lines[i]) : <<columns[c], n>> \in DOMAIN values

\* A panel that was recognised without damage, headers first, is read in full and
\* raises nothing, whichever way the photo is turned; and no misread digit yields
\* another barcode ("check-digit verified GTIN", OCR-API-USAGE).
UndamagedIsRead ==
    state \in Published /\ doc.schema /\ doc.damage \in {"none", "digit"} /\ TableRows # {} =>
        /\ failures = {}
        /\ barcode = <<PrintedDigits>> \/ (barcode = <<>> /\ doc.damage = "digit")
        /\ \A cell \in DOMAIN Panel :
              \E key \in DOMAIN values :
                 values[key].cell = cell /\ values[key].amount = Panel[cell]

\* A completed result has no warning, no page without text, no line of low
\* confidence, and with native processing no line of an unknown recogniser.
\* (OCR-API-USAGE: "Low confidence, validation failure, partial output, or
\* review_required routes to human review rather than being silently accepted".)
CompletedIsUnquestioned ==
    state = "completed" =>
        /\ warnings = {}
        /\ \A p \in doc.pages : \E i \in DOMAIN lines : lines[i].page = p
        /\ \A i \in DOMAIN lines :
              ~lines[i].low /\ (doc.native # "off" => lines[i].by \in {"native", "docai"})

\* How far a value is from what is printed, in terms of one serving.
Misread(key) ==
    LET off == Abs(values[key].amount - Panel[values[key].cell])
    IN IF key[1] = "per_serving" THEN off ELSE Share(off, serving[1].amount)

\* A decimal point lost in one amount of a panel that is otherwise read in full
\* passes only where the checks are blind, in amounts so small that the error is
\* within their absolute tolerance of 0.5 in a serving.  (OCR-API-USAGE:
\* "Inconsistencies are reported as warnings".)
LostPointIsReported ==
    doc.damage = "point" /\ doc.schema /\ TableRows # {} /\ state = "completed" =>
        \A key \in DOMAIN values : Misread(key) <= 500
=============================================================================
