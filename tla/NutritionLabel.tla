--------------------------- MODULE NutritionLabel ---------------------------
(***************************************************************************)
(* The kora.nutrition_label schema: one pass of extract over the lines of  *)
(* the recognised pages, the spatial reading of tables whose cells are     *)
(* lines of their own, and the checks on the values.                       *)
(*                                                                         *)
(* A line is what the tests on its text find in it:                        *)
(*                                                                         *)
(*   servings  "servings per"          size    "serving size"              *)
(*   heads     the column phrases, in order of position                    *)
(*   within    the quantities inside a header ("per serve (30g)")          *)
(*   label     the nutrient before the first digit, or "none"              *)
(*   unit      the unit in brackets after the label, or "none"             *)
(*   quants    the quantities, each with its unit and "<" mark             *)
(*   leads     the text starts with a digit or "<"                         *)
(*   digits    the digits of a text that has nothing else                  *)
(*   points    the polygon, its first edge along the text                  *)
(*   print     [row, column] of the label it is printed in, which no       *)
(*             definition of the code reads                                *)
(*                                                                         *)
(* Amounts are integers in thousandths.  Polygons lie on a grid and are    *)
(* turned by quarters.                                                     *)
(***************************************************************************)
EXTENDS Integers, Sequences, FiniteSetsExt

CONSTANTS Documents     \* what the recognisers may return: records with lines

VARIABLES
    doc,            \* the document at hand
    at,             \* the next line of the pass, Len + 1 at its end
    columns,        \* the columns found so far, in order
    serving,        \* the serving size: empty, or one quantity
    pack,           \* servings_per_pack: empty, or one amount
    barcode,        \* empty, or one sequence of digits
    readings,       \* <<slot, nutrient>> |-> the first amount read for it, with its lines
    panelRows,      \* rows with a reading or an upper bound
    values,         \* <<column, nutrient>> |-> the reading put there
    failures        \* codes of the validation failures

labelVars == <<doc, at, columns, serving, pack, barcode, readings, panelRows, values, failures>>

lines == doc.lines
AtEnd == at > Len(lines)
Line == lines[at]

Masses == {"protein", "fat", "saturated_fat", "carbohydrate", "sugars", "fibre", "sodium"}
Nutrients == Masses \cup {"energy_kj", "energy_kcal"}
Columns == {"per_serving", "per_100g", "per_100ml"}

InitLabel ==
    /\ doc \in Documents
    /\ at = 1
    /\ columns = <<>>
    /\ serving = <<>>
    /\ pack = <<>>
    /\ barcode = <<>>
    /\ readings = <<>>
    /\ panelRows = 0
    /\ values = <<>>
    /\ failures = {}

\* put and record_serving: the first value stays.
Put(field, new) == IF field = <<>> THEN new ELSE field

Abs(n) == IF n < 0 THEN -n ELSE n
InSeq(x, seq) == \E i \in DOMAIN seq : seq[i] = x

-----------------------------------------------------------------------------
(***************************************************************************)
(* Reading the text of one line.                                           *)
(***************************************************************************)
\* A sequence without its repetitions.
Distinct(seq) ==
    LET fresh == {i \in DOMAIN seq : \A k \in 1..(i - 1) : seq[k] # seq[i]}
        Nth(n) == CHOOSE i \in fresh : Cardinality({k \in fresh : k <= i}) = n
    IN [n \in 1..Cardinality(fresh) |-> seq[Nth(n)]]

column_headers(line) == Distinct(line.heads)

\* The last quantity in g or ml.
metric_quantity(quants) ==
    LET metric == SelectSeq(quants, LAMBDA q : q.unit \in {"g", "ml"})
    IN IF metric = <<>> THEN <<>> ELSE <<metric[Len(metric)]>>

classified(line) == line.label # "none"

normalise_mass(nutrient, q, unit) ==
    LET milligrams == CASE unit = "g" -> q.amount * 1000
                        [] unit = "mg" -> q.amount
                        [] unit = "mcg" -> q.amount \div 1000
    IN IF nutrient = "sodium" THEN milligrams ELSE milligrams \div 1000

\* What a quantity of a row is, if it is anything.
Measured(row, label_unit, q) ==
    LET unit == IF q.unit # "none" THEN q.unit
                ELSE IF label_unit # "none" THEN label_unit
                ELSE IF row = "calories" THEN "kcal" ELSE "none"
    IN CASE row \in {"energy", "calories"} /\ unit = "kj" ->
                [nutrient |-> "energy_kj", amount |-> q.amount]
         [] row \in {"energy", "calories"} /\ unit = "kcal" ->
                [nutrient |-> "energy_kcal", amount |-> q.amount]
         [] row \in Masses /\ unit \in {"g", "mg", "mcg"} ->
                [nutrient |-> row, amount |-> normalise_mass(row, q, unit)]
         [] OTHER -> [nutrient |-> "none", amount |-> 0]

\* Each nutrient counts its own slots; an upper bound takes one and gives nothing.
read_row(row, label_unit, line) ==
    LET Of(i) == Measured(row, label_unit, line.quants[i])
        kept == {i \in DOMAIN line.quants : Of(i).nutrient # "none" /\ ~line.quants[i].upper}
        Slot(i) == Cardinality({k \in 1..(i - 1) : Of(k).nutrient = Of(i).nutrient}) + 1
        Key(i) == <<Slot(i), Of(i).nutrient>>
    IN [key \in {Key(i) : i \in kept} |->
          [amount |-> Of(CHOOSE i \in kept : Key(i) = key).amount,
           spatial |-> FALSE, cell |-> line.print, row |-> line.print]]

-----------------------------------------------------------------------------
(***************************************************************************)
(* Reading a row whose cells are lines of their own.                       *)
(***************************************************************************)
OnPage(page) == {l \in {lines[i] : i \in DOMAIN lines} : l.page = page}

\* The direction of the text: 0 to the right, 1 down, 2 to the left, -1 up.
Angle(line) ==
    LET dx == line.points[2][1] - line.points[1][1]
        dy == line.points[2][2] - line.points[1][2]
    IN IF dy = 0 THEN (IF dx > 0 THEN 0 ELSE 2) ELSE (IF dy > 0 THEN 1 ELSE -1)

Axis(angle) ==
    CASE angle = 0 -> <<1, 0>> [] angle = 1 -> <<0, 1>>
      [] angle = 2 -> <<-1, 0>> [] angle = -1 -> <<0, -1>>

\* Mutant: photos are taken upright.
panel_axis_upright(page) == <<1, 0>>

\* The median angle of the page's nutrient labels.
panel_axis(page) ==
    LET labels == {l \in OnPage(page) : classified(l)}
        Below(a) == Cardinality({l \in labels : Angle(l) < a})
        half == Cardinality(labels) \div 2
    IN IF labels = {} THEN <<1, 0>>
       ELSE Axis(CHOOSE a \in -1..2 : Below(a) <= half /\ Below(a + 1) > half)

bounds(line, axis) ==
    LET xs == {p[1] * axis[1] + p[2] * axis[2] : p \in {line.points[i] : i \in 1..4}}
        ys == {-p[1] * axis[2] + p[2] * axis[1] : p \in {line.points[i] : i \in 1..4}}
    IN [left |-> Min(xs), right |-> Max(xs), top |-> Min(ys), bottom |-> Max(ys)]

Least(a, b) == IF a < b THEN a ELSE b
Most(a, b) == IF a > b THEN a ELSE b

aligned_row(a, b) ==
    LET overlap == Least(a.bottom, b.bottom) - Most(a.top, b.top)
    IN 2 * overlap > Least(a.bottom - a.top, b.bottom - b.top)

\* Twice the distance between two centres.
Apart(a, b) == Abs((a.left + a.right) - (b.left + b.right))

Position(column) == CHOOSE i \in DOMAIN columns : columns[i] = column
SlotOf(header) == Position(column_headers(lines[header])[1])

\* The lines with one column phrase, above and to the right of the label.
SpatialHeaders(label, axis) ==
    {i \in DOMAIN lines :
        /\ lines[i].page = label.page
        /\ Len(column_headers(lines[i])) = 1
        /\ InSeq(column_headers(lines[i])[1], columns)
        /\ bounds(lines[i], axis).bottom < bounds(label, axis).top
        /\ bounds(lines[i], axis).left > bounds(label, axis).right}


\* A cell is of a header's column if it is near enough and no other is as near.
InColumn(cell, header, headers, axis) ==
    LET b == bounds(cell, axis)
        h == bounds(lines[header], axis)
    IN /\ Apart(b, h) <= 2 * Most(h.right - h.left, b.right - b.left)
       /\ \A other \in headers :
             SlotOf(other) # SlotOf(header) => Apart(b, bounds(lines[other], axis)) > Apart(b, h)

Candidates(label, header, headers, axis) ==
    {i \in DOMAIN lines :
        /\ lines[i].page = label.page
        /\ lines[i].leads
        /\ bounds(lines[i], axis).left > bounds(label, axis).right
        /\ aligned_row(bounds(label, axis), bounds(lines[i], axis))
        /\ InColumn(lines[i], header, headers, axis)
        /\ ~ \E other \in OnPage(label.page) :
              other.id # label.id /\ classified(other)
              /\ aligned_row(bounds(other, axis), bounds(lines[i], axis))}

\* A missing or ambiguous header gives up the row, an ambiguous cell its column.
\* Of several amounts of a nutrient in one cell the first counts.
read_spatial_row(label) ==
    LET axis == panel_axis(label.page)
        headers == SpatialHeaders(label, axis)
        clear == /\ columns # <<>>
                 /\ Cardinality(headers) = Len(columns)
                 /\ \A s \in DOMAIN columns : Cardinality({h \in headers : SlotOf(h) = s}) = 1
        Cells(s) == Candidates(label, CHOOSE h \in headers : SlotOf(h) = s, headers, axis)
        Cell(s) == lines[CHOOSE i \in Cells(s) : TRUE]
        Read(s) == read_row(label.label, label.unit, Cell(s))
        Found(s) == {key[2] : key \in DOMAIN Read(s)}
        First(s, n) == Read(s)[<<Min({k \in 1..Len(Cell(s).quants) : <<k, n>> \in DOMAIN Read(s)}), n>>]
        slots == {s \in DOMAIN columns : clear /\ Cardinality(Cells(s)) = 1}
    IN [key \in UNION {{s} \X Found(s) : s \in slots} |->
          [First(key[1], key[2]) EXCEPT !.spatial = TRUE, !.cell = Cell(key[1]).print,
                                        !.row = label.print]]

-----------------------------------------------------------------------------
(***************************************************************************)
(* The pass of extract: the first test that matches takes the line.        *)
(***************************************************************************)
ReadServings ==
    /\ Line.servings
    /\ pack' = IF Line.quants = <<>> THEN pack ELSE Put(pack, <<Line.quants[1].amount>>)
    /\ UNCHANGED <<columns, serving, barcode, readings, panelRows, failures>>

\* Mutant: a header that is seen again is another column.
ReadHeadersAgain ==
    /\ ~Line.servings /\ Line.heads # <<>>
    /\ columns' = columns \o column_headers(Line)
    /\ serving' = Put(serving, metric_quantity(Line.within))
    /\ UNCHANGED <<pack, barcode, readings, panelRows, failures>>

ReadHeaders ==
    /\ ~Line.servings /\ Line.heads # <<>>
    /\ columns' = Distinct(columns \o column_headers(Line))
    /\ serving' = Put(serving, metric_quantity(Line.within))
    /\ UNCHANGED <<pack, barcode, readings, panelRows, failures>>

ReadServingSize ==
    /\ ~Line.servings /\ Line.heads = <<>> /\ Line.size
    /\ serving' = Put(serving, metric_quantity(Line.quants))
    /\ UNCHANGED <<columns, pack, barcode, readings, panelRows, failures>>

\* Mutant: a row is incomplete when nothing of it was read.
IncompleteIfEmpty(read) == columns # <<>> /\ DOMAIN read = {}

\* Some column found so far has no reading of the row.
Incomplete(read) ==
    \E s \in DOMAIN columns : \A key \in DOMAIN read : key[1] # s

\* The first reading of a slot and a nutrient stays.
Merged(old, new) ==
    [key \in DOMAIN old \cup DOMAIN new |-> IF key \in DOMAIN old THEN old[key] ELSE new[key]]

ReadNutrient ==
    LET inline == read_row(Line.label, Line.unit, Line)
        spatial == DOMAIN inline = {} /\ Line.quants = <<>>
        read == IF spatial THEN read_spatial_row(Line) ELSE inline
    IN
    /\ ~Line.servings /\ Line.heads = <<>> /\ ~Line.size /\ classified(Line)
    /\ readings' = Merged(readings, read)
    /\ failures' = failures \cup
          IF spatial /\ Incomplete(read) THEN {"nutrition_row_incomplete"} ELSE {}
    /\ panelRows' = panelRows +
          IF DOMAIN read # {} \/ (\E i \in DOMAIN Line.quants : Line.quants[i].upper) THEN 1 ELSE 0
    /\ UNCHANGED <<columns, serving, pack, barcode>>

\* The GTIN check digit: weights 3 and 1 from the right.
Checked(digits) ==
    LET n == Len(digits)
        Weight(i) == IF (n - i) % 2 = 1 THEN 3 ELSE 1
        sum == MapThenSumSet(LAMBDA i : digits[i] * Weight(i), 1..(n - 1))
    IN n \in {8, 12, 13} /\ (10 - (sum % 10)) % 10 = digits[n]

ReadOther ==
    /\ ~Line.servings /\ Line.heads = <<>> /\ ~Line.size /\ ~classified(Line)
    /\ barcode' = IF Line.digits # <<>> /\ Checked(Line.digits)
                  THEN Put(barcode, <<Line.digits>>) ELSE barcode
    /\ UNCHANGED <<columns, serving, pack, readings, panelRows, failures>>

ReadLine ==
    /\ ~AtEnd
    /\ at' = at + 1
    /\ ReadServings \/ ReadHeaders \/ ReadServingSize \/ ReadNutrient \/ ReadOther
    /\ UNCHANGED <<doc, values>>

-----------------------------------------------------------------------------
(***************************************************************************)
(* The values and the checks on them.                                      *)
(***************************************************************************)
\* The first reading of each nutrient in each column that has a header.
Values ==
    [v \in {<<columns[key[1]], key[2]>> : key \in {k \in DOMAIN readings : k[1] \in DOMAIN columns}} |->
        readings[<<Position(v[1]), v[2]>>]]

\* Checks take the values as sets of at most one amount.
Get(v, column, nutrient) ==
    IF <<column, nutrient>> \in DOMAIN v THEN {v[<<column, nutrient>>].amount} ELSE {}

\* Energy in 523rds of kcal: 4.184 kJ are one kcal.
Energy(v, column) ==
    IF Get(v, column, "energy_kcal") # {}
    THEN {523 * kcal : kcal \in Get(v, column, "energy_kcal")}
    ELSE {125 * kj : kj \in Get(v, column, "energy_kj")}

exceeds(part, whole) == \E p \in part, w \in whole : p > w + 50

Solids(v, column) ==
    MapThenSumSet(LAMBDA n : IF Get(v, column, n) = {} THEN 0 ELSE v[<<column, n>>].amount,
                  {"protein", "fat", "carbohydrate", "fibre"})

ColumnCodes == {"energy_unit_mismatch", "energy_atwater_mismatch", "saturated_fat_exceeds_fat",
                "sugars_exceed_carbohydrate", "per_100g_exceeds_100g"}

Fails(code, v, c) ==
    CASE code = "energy_unit_mismatch" ->
           \E kj \in Get(v, c, "energy_kj"), kcal \in Get(v, c, "energy_kcal") :
              kcal > 0 /\ ~(39 * kcal <= 10 * kj /\ 10 * kj <= 45 * kcal)
      [] code = "energy_atwater_mismatch" ->
           \E e \in Energy(v, c), p \in Get(v, c, "protein"),
              f \in Get(v, c, "fat"), carb \in Get(v, c, "carbohydrate") :
              Abs(523 * (4 * p + 4 * carb + 9 * f) - e) > Most(e \div 5, 523 * 15000)
      [] code = "saturated_fat_exceeds_fat" ->
           exceeds(Get(v, c, "saturated_fat"), Get(v, c, "fat"))
      [] code = "sugars_exceed_carbohydrate" ->
           exceeds(Get(v, c, "sugars"), Get(v, c, "carbohydrate"))
      [] code = "per_100g_exceeds_100g" -> c = "per_100g" /\ Solids(v, c) > 101000

ColumnFailures(v, c) == {code \in ColumnCodes : Fails(code, v, c)}

\* Mutant: every serving is liquid.
ReferenceLiquid(unit) == "per_100ml"

Reference(unit) == IF unit = "ml" THEN "per_100ml" ELSE "per_100g"

\* What a serving of this size has of an amount per 100, in thousandths: first the
\* whole grams, then the rest.
Share(per100, size) ==
    (per100 * (size \div 1000)) \div 100 + ((per100 \div 100) * (size % 1000)) \div 1000

\* A value per serving that is not the share of the value per 100.
ServingMismatch(v) ==
    /\ serving # <<>>
    /\ LET reference == Reference(serving[1].unit)
       IN /\ InSeq("per_serving", columns) /\ InSeq(reference, columns)
          /\ \E n \in Nutrients : \E mine \in Get(v, "per_serving", n), per100 \in Get(v, reference, n) :
                LET expected == Share(per100, serving[1].amount)
                IN Abs(mine - expected) > Most(expected \div 10, 500)

validate(v) ==
    (UNION {ColumnFailures(v, columns[i]) : i \in DOMAIN columns})
        \cup IF ServingMismatch(v) THEN {"serving_column_mismatch"} ELSE {}

\* The end of extract: what the fields and the failures are.
ExtractedFailures ==
    IF panelRows = 0 THEN failures \cup {"nutrition_panel_not_found"}
    ELSE IF columns = <<>> THEN failures \cup {"nutrition_columns_unidentified"}
    ELSE failures \cup validate(Values)

ExtractedValues == IF panelRows = 0 \/ columns = <<>> THEN <<>> ELSE Values
=============================================================================
