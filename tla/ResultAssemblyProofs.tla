------------------------ MODULE ResultAssemblyProofs ------------------------
(***************************************************************************)
(* What a completed result promises, for every document the recognisers    *)
(* may return and every printed label.                                     *)
(***************************************************************************)
EXTENDS ResultAssembly, FiniteSetTheorems, SequenceTheorems, TLAPS

(***************************************************************************)
(* A result without a failure has no warning, no page without text, no     *)
(* line of low confidence and none of an unknown recogniser.               *)
(***************************************************************************)
LEMMA NothingFound ==
    ASSUME NEW extracted, AssembledFailures(extracted) = {}
    PROVE  /\ AssembledWarnings({}) = {}
           /\ EmptyPages = {}
           /\ ~LowConfidence
           /\ Provider # "legacy-mixed"
<1>1. /\ Provider # "legacy-mixed"
      /\ EmptyPages = {}
      /\ ~LowConfidence
      /\ lines # <<>>
    BY DEF AssembledFailures
<1> QED
    BY <1>1 DEF AssembledWarnings

(***************************************************************************)
(* A page that is not empty has a line.                                    *)
(***************************************************************************)
LEMMA PagesHaveLines ==
    ASSUME EmptyPages = {}, NEW p \in doc.pages
    PROVE  \E i \in DOMAIN lines : lines[i].page = p
<1>1. OnPage(p) # {}
    BY DEF EmptyPages
<1>2. PICK l \in {lines[i] : i \in DOMAIN lines} : l.page = p
    BY <1>1 DEF OnPage
<1> QED
    BY <1>2

(***************************************************************************)
(* With native processing, a provider that is named names every line.      *)
(***************************************************************************)
LEMMA ProviderIsKnown ==
    ASSUME Provider # "legacy-mixed", doc.native # "off", NEW i \in DOMAIN lines
    PROVE  lines[i].by \in {"native", "docai"}
<1> DEFINE by == {lines[k].by : k \in DOMAIN lines}
<1>1. by \subseteq {"native", "docai"}
    BY DEF Provider
<1> QED
    BY <1>1

(***************************************************************************)
(* A completed result is unquestioned, whatever was recognised: nothing is *)
(* completed with a warning, an empty page or a line of low confidence.    *)
(***************************************************************************)
THEOREM Unquestioned == Spec => []CompletedIsUnquestioned
<1>1. Init => CompletedIsUnquestioned
    BY DEF Init, CompletedIsUnquestioned
<1>2. CompletedIsUnquestioned /\ [Next]_vars => CompletedIsUnquestioned'
  <2> SUFFICES ASSUME CompletedIsUnquestioned, [Next]_vars, state' = "completed"
               PROVE  /\ warnings' = {}
                      /\ \A p \in doc'.pages : \E i \in DOMAIN lines' : lines'[i].page = p
                      /\ \A i \in DOMAIN lines' :
                            ~lines'[i].low /\ (doc'.native # "off" => lines'[i].by \in {"native", "docai"})
      BY DEF CompletedIsUnquestioned
  <2>1. CASE Extract
      BY <2>1 DEF Extract
  <2>2. CASE Assemble
    <3> DEFINE found == AssembledFailures(IF doc.schema THEN ExtractedFailures ELSE {})
    <3>1. doc' = doc /\ warnings' = AssembledWarnings(found) /\ state' = TerminalState(found)
        BY <2>2 DEF Assemble
    <3>2. found = {}
        BY <3>1 DEF TerminalState
    <3>3. warnings' = {} /\ EmptyPages = {} /\ ~LowConfidence /\ Provider # "legacy-mixed"
        BY <3>1, <3>2, NothingFound
    <3>4. lines' = lines
        BY <3>1 DEF lines
    <3>5. \A p \in doc.pages : \E i \in DOMAIN lines : lines[i].page = p
        BY <3>3, PagesHaveLines
    <3>6. \A i \in DOMAIN lines : ~lines[i].low
        BY <3>3 DEF LowConfidence
    <3>7. doc.native # "off" => \A i \in DOMAIN lines : lines[i].by \in {"native", "docai"}
        BY <3>3, ProviderIsKnown
    <3> QED
        BY <3>1, <3>3, <3>4, <3>5, <3>6, <3>7
  <2>3. CASE UNCHANGED vars
    <3>1. doc' = doc /\ warnings' = warnings /\ state = "completed"
        BY <2>3 DEF vars, labelVars
    <3> QED
        BY <3>1 DEF CompletedIsUnquestioned, lines
  <2> QED
      BY <2>1, <2>2, <2>3 DEF Next
<1> QED
    BY <1>1, <1>2, PTL DEF Spec

-----------------------------------------------------------------------------
(***************************************************************************)
(* A sequence without its repetitions.  The elements that are seen for the *)
(* first time are numbered in their order: their ranks are as many as they *)
(* are, so every number is the rank of one of them.                        *)
(***************************************************************************)
Fresh(seq) == {i \in DOMAIN seq : \A k \in 1..(i - 1) : seq[k] # seq[i]}
Rank(seq, i) == Cardinality({k \in Fresh(seq) : k <= i})

\* The fresh indices are finitely many.
LEMMA FreshFinite ==
    ASSUME NEW T, NEW seq \in Seq(T), NEW S \in SUBSET Fresh(seq)
    PROVE  /\ Fresh(seq) \subseteq 1..Len(seq)
           /\ IsFiniteSet(S) /\ Cardinality(S) \in Nat /\ Cardinality(S) <= Cardinality(Fresh(seq))
           /\ IsFiniteSet(Fresh(seq)) /\ Cardinality(Fresh(seq)) \in Nat
<1>1. Fresh(seq) \subseteq 1..Len(seq) /\ Len(seq) \in Nat
  BY DEF Fresh
<1>2. IsFiniteSet(1..Len(seq))
  BY <1>1, FS_Interval
<1>3. IsFiniteSet(Fresh(seq))
  BY <1>1, <1>2, FS_Subset
<1> QED  BY <1>1, <1>3, FS_Subset, FS_CardinalityType

\* Ranks grow with the index.
LEMMA RankGrows ==
    ASSUME NEW T, NEW seq \in Seq(T), NEW i \in Fresh(seq), NEW j \in Fresh(seq), i < j
    PROVE  Rank(seq, i) < Rank(seq, j)
<1> DEFINE I == {k \in Fresh(seq) : k <= i}
           J == {k \in Fresh(seq) : k <= j}
<1>1. Fresh(seq) \subseteq Nat
  BY FreshFinite
<1>2. I \in SUBSET J /\ J \in SUBSET Fresh(seq) /\ j \in J /\ j \notin I
  BY <1>1
<1>3. IsFiniteSet(J) /\ Cardinality(J) \in Nat /\ Cardinality(I) \in Nat
  BY <1>2, FreshFinite
<1>4. Cardinality(I) <= Cardinality(J) /\ Cardinality(I) # Cardinality(J)
  BY <1>2, <1>3, FS_Subset
<1> QED  BY <1>3, <1>4 DEF Rank

\* Every number up to theirs is the rank of a fresh index.
LEMMA RankReaches ==
    ASSUME NEW T, NEW seq \in Seq(T), NEW n \in 1..Cardinality(Fresh(seq))
    PROVE  \E i \in Fresh(seq) : Rank(seq, i) = n
<1> DEFINE F == Fresh(seq)
           N == Cardinality(F)
           f == [i \in F |-> Rank(seq, i)]
<1>1. IsFiniteSet(F) /\ N \in Nat /\ F \subseteq Nat
  BY FreshFinite
<1>2. ASSUME NEW i \in F PROVE f[i] \in 1..N
  <2> DEFINE I == {k \in F : k <= i}
  <2>1. I \in SUBSET F /\ i \in I
    BY <1>1
  <2>2. IsFiniteSet(I) /\ Cardinality(I) \in Nat /\ Cardinality(I) <= N
    BY <2>1, FreshFinite
  <2>3. Cardinality(I) # 0
    BY <2>1, <2>2, FS_EmptySet
  <2> QED  BY <1>1, <2>2, <2>3 DEF Rank
<1>3. ASSUME NEW i \in F, NEW j \in F, f[i] = f[j] PROVE i = j
  <2>1. Rank(seq, i) \in Nat /\ Rank(seq, i) = Rank(seq, j)
    BY <1>2, <1>3
  <2>2. ~ (i < j) /\ ~ (j < i)
    BY <2>1, RankGrows
  <2> QED  BY <1>1, <2>2
<1>4. f \in Injection(F, 1..N)
  BY <1>2, <1>3 DEF Injection, IsInjective
<1>5. IsFiniteSet(1..N) /\ Cardinality(1..N) = N
  BY <1>1, FS_Interval
<1>6. f \in Surjection(F, 1..N)
  BY <1>4, <1>5, FS_Injection
<1> QED  BY <1>6 DEF Surjection

\* So Distinct is a sequence of the same elements, none of them twice.
LEMMA DistinctFacts ==
    ASSUME NEW T, NEW seq \in Seq(T)
    PROVE  /\ Distinct(seq) \in Seq(T)
           /\ \A i, k \in DOMAIN Distinct(seq) : Distinct(seq)[i] = Distinct(seq)[k] => i = k
<1> DEFINE N == Cardinality(Fresh(seq))
           Nth(n) == CHOOSE i \in Fresh(seq) : Rank(seq, i) = n
<1>1. N \in Nat /\ Fresh(seq) \subseteq 1..Len(seq)
  BY FreshFinite
<1>2. Distinct(seq) = [n \in 1..N |-> seq[Nth(n)]]
  BY DEF Distinct, Fresh, Rank
<1>3. \A n \in 1..N : Nth(n) \in Fresh(seq) /\ Rank(seq, Nth(n)) = n
  BY RankReaches
<1> HIDE DEF N, Nth
<1>4. \A n \in 1..N : seq[Nth(n)] \in T
  BY <1>1, <1>3
<1>5. ASSUME NEW i \in 1..N, NEW k \in 1..N, seq[Nth(i)] = seq[Nth(k)] PROVE i = k
  <2>1. /\ Nth(i) \in Fresh(seq) /\ Nth(k) \in Fresh(seq)
        /\ Nth(i) \in Nat \ {0} /\ Nth(k) \in Nat \ {0}
    BY <1>1, <1>3
  <2>2. ~ (Nth(i) < Nth(k)) /\ ~ (Nth(k) < Nth(i))
    BY <1>5, <2>1 DEF Fresh
  <2>3. Nth(i) = Nth(k)
    BY <2>1, <2>2
  <2> QED  BY <1>3, <2>3
<1> QED  BY <1>1, <1>2, <1>4, <1>5

-----------------------------------------------------------------------------
(***************************************************************************)
(* The keys of what is read.                                               *)
(***************************************************************************)
\* A reading is keyed by a slot and a nutrient of its row.
Keyed(reading, nutrients) ==
    \A key \in DOMAIN reading : key = <<key[1], key[2]>> /\ key[2] \in nutrients

Of(row) == IF row \in {"energy", "calories"} THEN {"energy_kj", "energy_kcal"} ELSE {row} \cap Masses

\* A quantity measures a nutrient of its row, or nothing.
LEMMA MeasuredNutrient ==
    ASSUME NEW row, NEW label_unit, NEW q
    PROVE  Measured(row, label_unit, q).nutrient \in Of(row) \cup {"none"}
<1> DEFINE unit == IF q.unit # "none" THEN q.unit
                   ELSE IF label_unit # "none" THEN label_unit
                   ELSE IF row = "calories" THEN "kcal" ELSE "none"
           M == Measured(row, label_unit, q)
<1>1. M = CASE row \in {"energy", "calories"} /\ unit = "kj" ->
                    [nutrient |-> "energy_kj", amount |-> q.amount]
            [] row \in {"energy", "calories"} /\ unit = "kcal" ->
                    [nutrient |-> "energy_kcal", amount |-> q.amount]
            [] row \in Masses /\ unit \in {"g", "mg", "mcg"} ->
                    [nutrient |-> row, amount |-> normalise_mass(row, q, unit)]
            [] OTHER -> [nutrient |-> "none", amount |-> 0]
  BY DEF Measured
<1> HIDE DEF unit, M
<1>2. CASE row \in {"energy", "calories"}
  <2>1. row \notin Masses
    BY <1>2 DEF Masses
  <2>2. M.nutrient \in {"energy_kj", "energy_kcal", "none"}
    BY <1>1, <1>2, <2>1
  <2> QED  BY <1>2, <2>2 DEF Of, M
<1>3. CASE row \notin {"energy", "calories"}
  <2>1. M.nutrient = "none" \/ (row \in Masses /\ M.nutrient = row)
    BY <1>1, <1>3
  <2> QED  BY <1>3, <2>1 DEF Of, M
<1> QED  BY <1>2, <1>3

\* What is read from one line.
LEMMA RowKeys ==
    ASSUME NEW row, NEW label_unit, NEW line
    PROVE  /\ Keyed(read_row(row, label_unit, line), Of(row))
           /\ line.quants = <<>> => DOMAIN read_row(row, label_unit, line) = {}
<1> DEFINE M(i) == Measured(row, label_unit, line.quants[i])
           kept == {i \in DOMAIN line.quants : M(i).nutrient # "none" /\ ~line.quants[i].upper}
           Slot(i) == Cardinality({k \in 1..(i - 1) : M(k).nutrient = M(i).nutrient}) + 1
           Key(i) == <<Slot(i), M(i).nutrient>>
<1>1. DOMAIN read_row(row, label_unit, line) = {Key(i) : i \in kept}
  BY DEF read_row
<1>2. \A i \in kept : M(i).nutrient \in Of(row)
  BY MeasuredNutrient
<1>3. line.quants = <<>> => kept = {}
  OBVIOUS
<1> HIDE DEF kept, Slot, M
<1> QED  BY <1>1, <1>2, <1>3 DEF Keyed

\* What is read from the cells of a row.
LEMMA SpatialKeys ==
    ASSUME NEW label
    PROVE  Keyed(read_spatial_row(label), Of(label.label))
<1> DEFINE axis == panel_axis(label.page)
           headers == SpatialHeaders(label, axis)
           clear == /\ columns # <<>>
                    /\ Cardinality(headers) = Len(columns)
                    /\ \A s \in DOMAIN columns : Cardinality({h \in headers : SlotOf(h) = s}) = 1
           Cells(s) == Candidates(label, CHOOSE h \in headers : SlotOf(h) = s, headers, axis)
           Cell(s) == lines[CHOOSE i \in Cells(s) : TRUE]
           Read(s) == read_row(label.label, label.unit, Cell(s))
           Found(s) == {key[2] : key \in DOMAIN Read(s)}
           slots == {s \in DOMAIN columns : clear /\ Cardinality(Cells(s)) = 1}
<1>1. DOMAIN read_spatial_row(label) = UNION {{s} \X Found(s) : s \in slots}
  BY DEF read_spatial_row
<1>2. \A s \in slots : Keyed(Read(s), Of(label.label))
  BY RowKeys
<1> HIDE DEF slots, Read
<1>3. \A s \in slots : Found(s) \subseteq Of(label.label)
  BY <1>2 DEF Keyed
<1> HIDE DEF Found
<1> QED  BY <1>1, <1>3 DEF Keyed

-----------------------------------------------------------------------------
(***************************************************************************)
(* The pass over the lines.                                                *)
(***************************************************************************)
\* Until the result is put together, a row of cells that has been passed has a
\* reading in every column, or has been reported.
RowsRead ==
    state = "reading" =>
        \A i \in TableRows :
            i < at => \/ "nutrition_row_incomplete" \in failures
                      \/ \A c \in DOMAIN columns :
                            \E n \in RowNutrients(lines[i]) : <<c, n>> \in DOMAIN readings

PassInv ==
    /\ doc \in Documents
    /\ columns \in Seq(Columns)
    /\ Keyed(readings, Nutrients)
    /\ panelRows < at
    /\ RowsRead
    /\ CompletedIsComplete

\* The lines of a document are a sequence.
LEMMA LinesSeq ==
    ASSUME doc \in Documents
    PROVE  /\ lines \in Seq(Recognised) /\ Len(lines) \in Nat /\ DOMAIN lines = 1..Len(lines)
           /\ \A i \in DOMAIN lines : lines[i].heads \in Seq(Columns)
<1>1. lines \in Seq(Recognised)
  BY ResultAssumption DEF lines
<1>2. Len(lines) \in Nat /\ DOMAIN lines = 1..Len(lines) /\ \A i \in DOMAIN lines : lines[i] \in Recognised
  BY <1>1
<1> QED  BY <1>1, <1>2 DEF Recognised

\* The nutrients of a row.
LEMMA RowsNutrients == \A line : Of(line.label) \subseteq RowNutrients(line) /\ Of(line.label) \subseteq Nutrients
BY DEF Of, RowNutrients, Nutrients, Masses

\* A field that holds at most one value keeps at most one.
LEMMA PutOne ==
    ASSUME NEW field, NEW new, Len(field) <= 1, Len(new) <= 1
    PROVE  Len(Put(field, new)) <= 1
BY DEF Put

\* One value is one.
LEMMA OneValue == \A x : Len(<<x>>) <= 1
OBVIOUS

\* The metric quantity is one at most.
LEMMA MetricOne == ASSUME NEW quants PROVE Len(metric_quantity(quants)) <= 1
<1> DEFINE metric == SelectSeq(quants, LAMBDA q : q.unit \in {"g", "ml"})
<1>1. metric_quantity(quants) = IF metric = <<>> THEN <<>> ELSE <<metric[Len(metric)]>>
  BY DEF metric_quantity
<1> HIDE DEF metric
<1> QED  BY <1>1

\* What a line adds to the readings keeps their keys.
LEMMA MergedKeys ==
    ASSUME NEW old, NEW new, NEW S, Keyed(old, S), Keyed(new, S)
    PROVE  Keyed(Merged(old, new), S) /\ DOMAIN Merged(old, new) = DOMAIN old \cup DOMAIN new
<1>1. DOMAIN Merged(old, new) = DOMAIN old \cup DOMAIN new
  BY DEF Merged
<1> QED  BY <1>1 DEF Keyed

\* A step of the pass, whatever the line is.
LEMMA PassCommon ==
    ASSUME TypeOK, PassInv, Extract
    PROVE  /\ doc' = doc /\ lines' = lines /\ TableRows' = TableRows /\ values' = values
           /\ state = "reading" /\ state' = "reading" /\ at' = at + 1
           /\ at \in 1..Len(lines) /\ Len(lines) \in Nat /\ DOMAIN lines = 1..Len(lines)
           /\ at \in DOMAIN lines /\ panelRows \in Nat
<1>1. /\ doc' = doc /\ values' = values /\ state = "reading" /\ state' = "reading" /\ at' = at + 1
      /\ ~AtEnd
  BY DEF Extract, ReadLine
<1>2. lines' = lines
  BY <1>1 DEF lines
<1>3. TableRows' = TableRows
  BY <1>2 DEF TableRows, HeaderLines, classified
<1>4. Len(lines) \in Nat /\ DOMAIN lines = 1..Len(lines)
  BY LinesSeq DEF PassInv
<1> QED  BY <1>1, <1>2, <1>3, <1>4 DEF AtEnd, TypeOK

\* What a line keeps: single fields, columns found once, keys and codes.
Singles == Len(serving) <= 1 /\ Len(pack) <= 1 /\ Len(barcode) <= 1

FoundOnce ==
    /\ columns \in Seq(Columns)
    /\ \A i, k \in DOMAIN columns : columns[i] = columns[k] => i = k

Kept == /\ Singles' /\ FoundOnce' /\ Keyed(readings', Nutrients) /\ failures' \subseteq Codes
        /\ panelRows' = panelRows \/ panelRows' = panelRows + 1

LEMMA KeptRest ==
    ASSUME TypeOK, PassInv, UNCHANGED <<readings, panelRows, failures>>
    PROVE  Keyed(readings', Nutrients) /\ failures' \subseteq Codes /\ panelRows' = panelRows
<1>1. readings' = readings /\ failures' = failures /\ panelRows' = panelRows
  OBVIOUS
<1>2. Keyed(readings, Nutrients) /\ failures \subseteq Codes
  BY DEF TypeOK, PassInv
<1> QED  BY <1>1, <1>2

LEMMA KeptFound ==
    ASSUME TypeOK, PassInv, columns' = columns
    PROVE  FoundOnce'
<1>1. FoundOnce
  BY DEF TypeOK, PassInv, FoundOnce
<1> QED  BY <1>1 DEF FoundOnce

LEMMA KeptServings ==
    ASSUME TypeOK, PassInv, Extract, ReadServings
    PROVE  Kept
<1>1. UNCHANGED <<columns, serving, barcode, readings, panelRows, failures>>
  BY DEF ReadServings
<1>2. Len(Put(pack, <<Line.quants[1].amount>>)) <= 1 /\ Len(pack) <= 1
  BY PutOne, OneValue DEF TypeOK
<1>3. pack' = pack \/ pack' = Put(pack, <<Line.quants[1].amount>>)
  BY DEF ReadServings
<1>4. Len(pack') <= 1
  BY <1>2, <1>3
<1>5. Singles'
  BY <1>1, <1>4 DEF Singles, TypeOK
<1> QED  BY <1>1, <1>5, KeptRest, KeptFound DEF Kept

LEMMA KeptHeaders ==
    ASSUME TypeOK, PassInv, Extract, ReadHeaders
    PROVE  Kept
<1>1. UNCHANGED <<pack, barcode, readings, panelRows, failures>>
      /\ serving' = Put(serving, metric_quantity(Line.within))
      /\ columns' = Distinct(columns \o column_headers(Line))
  BY DEF ReadHeaders
<1>2. Line.heads \in Seq(Columns)
  BY PassCommon, LinesSeq DEF PassInv, Line
<1>3. columns \o column_headers(Line) \in Seq(Columns)
  BY <1>2, DistinctFacts DEF column_headers, PassInv
<1>4. FoundOnce'
  BY <1>1, <1>3, DistinctFacts DEF FoundOnce
<1>5. Len(serving') <= 1
  BY <1>1, PutOne, MetricOne DEF TypeOK
<1>6. Singles'
  BY <1>1, <1>5 DEF Singles, TypeOK
<1> QED  BY <1>1, <1>4, <1>6, KeptRest DEF Kept

LEMMA KeptSize ==
    ASSUME TypeOK, PassInv, Extract, ReadServingSize
    PROVE  Kept
<1>1. UNCHANGED <<columns, pack, barcode, readings, panelRows, failures>>
      /\ serving' = Put(serving, metric_quantity(Line.quants))
  BY DEF ReadServingSize
<1>2. Len(serving') <= 1
  BY <1>1, PutOne, MetricOne DEF TypeOK
<1>3. Singles'
  BY <1>1, <1>2 DEF Singles, TypeOK
<1> QED  BY <1>1, <1>3, KeptRest, KeptFound DEF Kept

LEMMA KeptNutrient ==
    ASSUME TypeOK, PassInv, Extract, ReadNutrient
    PROVE  Kept
<1> DEFINE inline == read_row(Line.label, Line.unit, Line)
           spatial == DOMAIN inline = {} /\ Line.quants = <<>>
           read == IF spatial THEN read_spatial_row(Line) ELSE inline
<1>1. Keyed(read, Nutrients)
  <2>1. Keyed(inline, Of(Line.label)) /\ Keyed(read_spatial_row(Line), Of(Line.label))
    BY RowKeys, SpatialKeys
  <2>2. Of(Line.label) \subseteq Nutrients
    BY RowsNutrients
  <2> QED  BY <2>1, <2>2 DEF Keyed
<1>2. /\ readings' = Merged(readings, read)
      /\ failures' = failures \/ failures' = failures \cup {"nutrition_row_incomplete"}
      /\ panelRows' = panelRows + 0 \/ panelRows' = panelRows + 1
      /\ UNCHANGED <<columns, serving, pack, barcode>>
  BY DEF ReadNutrient
<1> HIDE DEF read
<1>3. Keyed(readings', Nutrients)
  <2>1. Keyed(readings, Nutrients)
    BY DEF PassInv
  <2> QED  BY <1>1, <1>2, <2>1, MergedKeys
<1>4. failures' \subseteq Codes
  BY <1>2 DEF Codes, TypeOK
<1>5. panelRows' = panelRows \/ panelRows' = panelRows + 1
  BY <1>2, PassCommon
<1>6. Singles'
  BY <1>2 DEF Singles, TypeOK
<1> QED  BY <1>2, <1>3, <1>4, <1>5, <1>6, KeptFound DEF Kept

LEMMA KeptOther ==
    ASSUME TypeOK, PassInv, Extract, ReadOther
    PROVE  Kept
<1>1. UNCHANGED <<columns, serving, pack, readings, panelRows, failures>>
  BY DEF ReadOther
<1>2. Len(Put(barcode, <<Line.digits>>)) <= 1 /\ Len(barcode) <= 1
  BY PutOne, OneValue DEF TypeOK
<1>3. barcode' = barcode \/ barcode' = Put(barcode, <<Line.digits>>)
  BY DEF ReadOther
<1>4. Len(barcode') <= 1
  BY <1>2, <1>3
<1>5. Singles'
  BY <1>1, <1>4 DEF Singles, TypeOK
<1> QED  BY <1>1, <1>5, KeptRest, KeptFound DEF Kept

\* Every line keeps the type invariant.
LEMMA ReadType ==
    ASSUME TypeOK, PassInv, Extract
    PROVE  /\ TypeOK' /\ columns' \in Seq(Columns) /\ Keyed(readings', Nutrients)
           /\ panelRows' < at'
<1>1. Kept
  <2>1. ReadServings \/ ReadHeaders \/ ReadServingSize \/ ReadNutrient \/ ReadOther
    BY DEF Extract, ReadLine
  <2> QED  BY <2>1, KeptServings, KeptHeaders, KeptSize, KeptNutrient, KeptOther
<1>2. panelRows' < at' /\ panelRows' \in 0..Len(lines)
  BY <1>1, PassCommon DEF Kept, PassInv
<1>3. at' \in 1..(Len(lines) + 1) /\ lines' = lines /\ values' = values /\ state' = "reading"
  BY PassCommon
<1>4. Singles' /\ FoundOnce' /\ Keyed(readings', Nutrients) /\ failures' \subseteq Codes
  BY <1>1 DEF Kept
<1>5. TypeOK'
  BY <1>2, <1>3, <1>4 DEF TypeOK, Singles, FoundOnce
<1> QED  BY <1>2, <1>4, <1>5 DEF FoundOnce

\* Every line keeps the promise about the rows of cells: a header comes before all
\* of them, and a row that is passed is read in full or reported.
LEMMA ReadRows ==
    ASSUME TypeOK, PassInv, Extract
    PROVE  RowsRead'
<1> SUFFICES ASSUME NEW i \in TableRows, i < at'
             PROVE  \/ "nutrition_row_incomplete" \in failures'
                    \/ \A c \in DOMAIN columns' :
                          \E n \in RowNutrients(lines[i]) : <<c, n>> \in DOMAIN readings'
  BY PassCommon DEF RowsRead, RowNutrients
<1>1. i \in DOMAIN lines /\ i \in Nat /\ i <= at /\ at \in DOMAIN lines /\ at \in Nat
  BY PassCommon DEF TableRows
<1>2. \A h \in HeaderLines : h < i
  BY DEF TableRows
<1>3. Line.heads = <<>>
  BY <1>1, <1>2 DEF HeaderLines, Line
<1>4. columns' = columns
  BY <1>3 DEF Extract, ReadLine, ReadServings, ReadHeaders, ReadServingSize, ReadNutrient, ReadOther
<1>5. failures \subseteq failures' /\ DOMAIN readings \subseteq DOMAIN readings'
  <2>1. ASSUME ReadNutrient PROVE failures \subseteq failures' /\ DOMAIN readings \subseteq DOMAIN readings'
    <3>1. \E read : readings' = Merged(readings, read)
      BY <2>1 DEF ReadNutrient
    <3>2. DOMAIN readings \subseteq DOMAIN readings'
      BY <3>1 DEF Merged
    <3> QED  BY <2>1, <3>2 DEF ReadNutrient
  <2> QED
    BY <1>3, <2>1 DEF Extract, ReadLine, ReadServings, ReadHeaders, ReadServingSize, ReadOther
<1>6. CASE i < at
  <2>1. \/ "nutrition_row_incomplete" \in failures
        \/ \A c \in DOMAIN columns :
              \E n \in RowNutrients(lines[i]) : <<c, n>> \in DOMAIN readings
    BY <1>6, PassCommon DEF PassInv, RowsRead
  <2> QED  BY <1>4, <1>5, <2>1
<1>7. CASE i = at
  <2> DEFINE inline == read_row(Line.label, Line.unit, Line)
             read == read_spatial_row(Line)
  <2>1. classified(Line) /\ Line.quants = <<>> /\ ~Line.servings /\ ~Line.size /\ Line = lines[i]
    BY <1>7 DEF TableRows, Line
  <2>2. ReadNutrient
    BY <1>3, <2>1 DEF Extract, ReadLine, ReadServings, ReadHeaders, ReadServingSize, ReadOther
  <2>3. DOMAIN inline = {}
    BY <2>1, RowKeys
  <2>4. /\ readings' = Merged(readings, read)
        /\ failures' = failures \cup IF Incomplete(read) THEN {"nutrition_row_incomplete"} ELSE {}
    BY <2>1, <2>2, <2>3 DEF ReadNutrient
  <2>5. Keyed(read, Of(Line.label)) /\ Of(Line.label) \subseteq RowNutrients(lines[i])
    BY <2>1, SpatialKeys, RowsNutrients
  <2>6. DOMAIN read \subseteq DOMAIN readings'
    BY <2>4 DEF Merged
  <2> HIDE DEF read
  <2>7. CASE Incomplete(read)
    BY <2>4, <2>7
  <2>8. CASE ~Incomplete(read)
    <3>1. \A c \in DOMAIN columns : \E key \in DOMAIN read : key[1] = c
      BY <2>8 DEF Incomplete
    <3>2. \A key \in DOMAIN read : key = <<key[1], key[2]>> /\ key[2] \in RowNutrients(lines[i])
      BY <2>5 DEF Keyed
    <3> QED  BY <1>4, <2>6, <3>1, <3>2
  <2> QED  BY <2>7, <2>8
<1> QED  BY <1>1, <1>6, <1>7

-----------------------------------------------------------------------------
(***************************************************************************)
(* The result.                                                             *)
(***************************************************************************)
\* The values are the readings of the columns that have a header.
LEMMA ValuesKeys ==
    ASSUME columns \in Seq(Columns), Keyed(readings, Nutrients)
    PROVE  /\ DOMAIN Values \subseteq Columns \X Nutrients
           /\ \A c \in DOMAIN columns : \A n :
                 <<c, n>> \in DOMAIN readings => <<columns[c], n>> \in DOMAIN Values
<1> DEFINE keys == {k \in DOMAIN readings : k[1] \in DOMAIN columns}
<1>1. DOMAIN Values = {<<columns[key[1]], key[2]>> : key \in keys}
  BY DEF Values
<1>2. \A key \in keys : columns[key[1]] \in Columns /\ key[2] \in Nutrients
  BY DEF Keyed
<1>3. ASSUME NEW c \in DOMAIN columns, NEW n, <<c, n>> \in DOMAIN readings
      PROVE  <<columns[c], n>> \in DOMAIN Values
  <2>1. <<c, n>> \in keys /\ <<c, n>>[1] = c /\ <<c, n>>[2] = n
    BY <1>3
  <2> QED  BY <1>1, <2>1
<1> QED  BY <1>1, <1>2, <1>3

\* The codes of the checks.
LEMMA CodesFound ==
    ASSUME failures \subseteq Codes, NEW extracted, extracted \in {ExtractedFailures, {}}
    PROVE  AssembledFailures(extracted) \subseteq Codes
<1>1. ASSUME NEW v, NEW c PROVE ColumnFailures(v, c) \subseteq Codes
  <2>1. ColumnCodes \subseteq Codes
    BY DEF Codes, ColumnCodes
  <2> QED  BY <2>1 DEF ColumnFailures
<1>2. ASSUME NEW v PROVE validate(v) \subseteq Codes
  <2>1. "serving_column_mismatch" \in Codes
    BY DEF Codes
  <2>2. \A i \in DOMAIN columns : ColumnFailures(v, columns[i]) \subseteq Codes
    BY <1>1
  <2> DEFINE byColumn == {ColumnFailures(v, columns[i]) : i \in DOMAIN columns}
             shares == IF ServingMismatch(v) THEN {"serving_column_mismatch"} ELSE {}
  <2>3. (UNION byColumn) \subseteq Codes
    BY <2>2
  <2>4. shares = {"serving_column_mismatch"} \/ shares = {}
    OBVIOUS
  <2>5. validate(v) = (UNION byColumn) \cup shares
    BY DEF validate
  <2> HIDE DEF byColumn, shares
  <2>6. shares \subseteq Codes
    BY <2>1, <2>4
  <2> QED  BY <2>3, <2>5, <2>6
<1>3. ExtractedFailures \subseteq Codes
  BY <1>2 DEF ExtractedFailures, Codes
<1> QED  BY <1>3 DEF AssembledFailures, Codes

\* Putting the result together.
LEMMA AssembleStep ==
    ASSUME TypeOK, PassInv, Assemble
    PROVE  TypeOK' /\ PassInv'
<1> DEFINE extracted == IF doc.schema THEN ExtractedFailures ELSE {}
           found == AssembledFailures(extracted)
<1>1. /\ UNCHANGED <<doc, at, columns, serving, pack, barcode, readings, panelRows>>
      /\ state = "reading" /\ (AtEnd \/ ~doc.schema)
  BY DEF Assemble
<1>2. lines' = lines /\ TableRows' = TableRows
  BY <1>1 DEF lines, TableRows, HeaderLines, classified
<1>3. Len(lines) \in Nat /\ DOMAIN lines = 1..Len(lines) /\ columns \in Seq(Columns)
  BY LinesSeq DEF PassInv
<1>4. DOMAIN ExtractedValues \subseteq Columns \X Nutrients
  BY <1>3, ValuesKeys DEF ExtractedValues, PassInv
<1>5. found \subseteq Codes
  BY CodesFound DEF TypeOK
<1> HIDE DEF found, extracted
<1>6. \/ state' = "too_large" /\ UNCHANGED <<values, failures>>
      \/ /\ values' = IF doc.schema THEN ExtractedValues ELSE <<>>
         /\ failures' = found
         /\ state' = TerminalState(found)
  BY DEF Assemble, found, extracted
<1>7. state' \in Published \cup {"too_large"} /\ state' # "reading"
  BY <1>6 DEF TerminalState, Published
<1>8. DOMAIN values' \subseteq Columns \X Nutrients /\ failures' \subseteq Codes
  BY <1>4, <1>5, <1>6 DEF TypeOK
<1>9. TypeOK'
  BY <1>1, <1>2, <1>7, <1>8 DEF TypeOK
<1>10. RowsRead'
  BY <1>7 DEF RowsRead
<1>11. CompletedIsComplete'
  <2> SUFFICES ASSUME state' = "completed", doc.schema, NEW i \in TableRows, NEW c \in DOMAIN columns
               PROVE  \E n \in RowNutrients(lines[i]) : <<columns[c], n>> \in DOMAIN values'
    BY <1>1, <1>2 DEF CompletedIsComplete, RowNutrients
  <2>1. found = {} /\ values' = ExtractedValues
    BY <1>6 DEF TerminalState
  <2>2. ExtractedFailures = {}
    BY <2>1 DEF found, extracted, AssembledFailures
  <2>3. failures = {} /\ panelRows # 0 /\ columns # <<>>
    BY <2>2 DEF ExtractedFailures
  <2>4. values' = Values
    BY <2>1, <2>3 DEF ExtractedValues
  <2>5. i < at
    BY <1>1, <1>3 DEF AtEnd, TableRows, TypeOK
  <2>6. \E n \in RowNutrients(lines[i]) : <<c, n>> \in DOMAIN readings
    BY <1>1, <2>3, <2>5 DEF PassInv, RowsRead
  <2> QED  BY <1>3, <2>4, <2>6, ValuesKeys DEF PassInv
<1> QED  BY <1>1, <1>9, <1>10, <1>11 DEF PassInv

\* The pass and the result keep the invariant.
THEOREM Passing == Spec => [](TypeOK /\ PassInv)
<1>1. Init => TypeOK /\ PassInv
  <2> SUFFICES ASSUME Init PROVE TypeOK /\ PassInv
    OBVIOUS
  <2>1. /\ doc \in Documents /\ at = 1 /\ columns = <<>> /\ serving = <<>> /\ pack = <<>> /\ barcode = <<>>
        /\ readings = <<>> /\ panelRows = 0 /\ values = <<>> /\ failures = {} /\ state = "reading"
    BY DEF Init, InitLabel
  <2>2. Len(lines) \in Nat /\ DOMAIN lines = 1..Len(lines)
    BY <2>1, LinesSeq
  <2>3. TypeOK
    BY <2>1, <2>2 DEF TypeOK
  <2>4. RowsRead
    BY <2>1, <2>2 DEF RowsRead, TableRows
  <2> QED  BY <2>1, <2>3, <2>4 DEF PassInv, Keyed, CompletedIsComplete
<1>2. TypeOK /\ PassInv /\ [Next]_vars => (TypeOK /\ PassInv)'
  <2> SUFFICES ASSUME TypeOK, PassInv, [Next]_vars PROVE TypeOK' /\ PassInv'
    OBVIOUS
  <2>1. CASE Extract
    <3>1. doc' = doc /\ state' = "reading"
      BY <2>1, PassCommon
    <3>2. CompletedIsComplete'
      BY <3>1 DEF CompletedIsComplete
    <3> QED  BY <2>1, <3>1, <3>2, ReadType, ReadRows DEF PassInv
  <2>2. CASE Assemble
    BY <2>2, AssembleStep
  <2>3. CASE UNCHANGED vars
    <3>1. /\ UNCHANGED <<doc, at, columns, serving, pack, barcode, readings, panelRows, values, failures, state>>
          /\ lines' = lines
      BY <2>3 DEF vars, labelVars, lines
    <3>2. TableRows' = TableRows
      BY <3>1 DEF TableRows, HeaderLines, classified
    <3>3. TypeOK'
      BY <3>1 DEF TypeOK
    <3>4. RowsRead' /\ CompletedIsComplete'
      BY <3>1, <3>2 DEF PassInv, RowsRead, CompletedIsComplete, RowNutrients
    <3> QED  BY <3>1, <3>3, <3>4 DEF PassInv
  <2> QED  BY <2>1, <2>2, <2>3 DEF Next
<1> QED  BY <1>1, <1>2, PTL DEF Spec

\* The type invariant: no page that repeats the headers adds a column.
THEOREM TypeCorrect == Spec => []TypeOK
BY Passing, PTL

\* A completed result has a value for every row of cells after the headers in every
\* column, whatever the recognisers return.
THEOREM Complete == Spec => []CompletedIsComplete
<1>1. TypeOK /\ PassInv => CompletedIsComplete
  BY DEF PassInv
<1> QED  BY <1>1, Passing, PTL
=============================================================================
