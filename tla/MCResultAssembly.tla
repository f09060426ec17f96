-------------------------- MODULE MCResultAssembly --------------------------
(***************************************************************************)
(* Recognised readings of one printed label for TLC: seven rows and two    *)
(* columns, each cell a line, turned by quarters, in three reading orders, *)
(* with one or two kinds of damage.  The first header is 5 wide, or 8, and *)
(* then reaches as far as the cells of the second column.                  *)
(***************************************************************************)
EXTENDS ResultAssembly

Seqs == INSTANCE SequencesExt

MCPanelColumn == <<"per_serving", "per_100g">>
Rows == <<"energy", "protein", "fat", "saturated_fat", "carbohydrate", "sugars", "sodium">>
MCPanel ==
    [cell \in (1..7) \X (1..2) |->
        <<<<418400, 836800>>, <<5000, 10000>>, <<2000, 4000>>, <<50, 100>>, <<15500, 31000>>,
          <<60, 120>>, <<120000, 240000>>>>[cell[1]][cell[2]]]
MCPrintedDigits == <<9, 6, 3, 8, 5, 0, 7, 4>>

Turned(p, turn) ==
    CASE turn = 0 -> p [] turn = 1 -> <<40 - p[2], p[1]>>
      [] turn = 2 -> <<40 - p[1], 40 - p[2]>> [] turn = 3 -> <<p[2], 40 - p[1]>>

At(id, left, right, top, turn) ==
    [id |-> id, page |-> 1, servings |-> FALSE, size |-> FALSE, heads |-> <<>>, within |-> <<>>,
     label |-> "none", unit |-> "none", quants |-> <<>>, leads |-> FALSE, digits |-> <<>>,
     points |-> <<Turned(<<left, top>>, turn), Turned(<<right, top>>, turn),
                  Turned(<<right, top + 4>>, turn), Turned(<<left, top + 4>>, turn)>>,
     print |-> <<0, 0>>, by |-> "docai", low |-> FALSE]

Amount(n, u) == [amount |-> n, unit |-> u, upper |-> FALSE]
UnitOf(r) == <<"kj", "g", "g", "g", "g", "g", "mg">>[r]

Header(c, width, turn) ==
    [At(c, 10 * c, 10 * c + width, 5, turn) EXCEPT !.heads = <<MCPanelColumn[c]>>]
Label(r, turn) == [At(10 * r, 0, 6, 5 + 5 * r, turn) EXCEPT !.label = Rows[r], !.print = <<r, 0>>]
Cell(r, c, turn) ==
    [At(10 * r + c, 10 * c, 10 * c + 4, 5 + 5 * r, turn) EXCEPT
        !.quants = <<Amount(MCPanel[<<r, c>>], UnitOf(r))>>, !.leads = TRUE, !.print = <<r, c>>]
Size(turn) == [At(100, 0, 9, 0, turn) EXCEPT !.size = TRUE, !.quants = <<Amount(50000, "g")>>]
Pack(turn) == [At(102, 0, 9, 50, turn) EXCEPT !.servings = TRUE, !.quants = <<Amount(4000, "none")>>]
Code(turn) == [At(101, 10, 30, 50, turn) EXCEPT !.digits = MCPrintedDigits, !.leads = TRUE]

Lines(order, turn, wide) ==
    LET L(r) == Label(r, turn)
        C(r, c) == Cell(r, c, turn)
        H(c) == Header(c, IF c = 1 THEN wide ELSE 5, turn)
        end == <<Pack(turn), Code(turn)>>
        Each(F(_)) == Seqs!FlattenSeq([r \in 1..7 |-> F(r)])
    IN <<Size(turn)>> \o
       (CASE order = "rows" -> <<H(1), H(2)>> \o Each(LAMBDA r : <<L(r), C(r, 1), C(r, 2)>>)
          [] order = "columns" ->
               Each(LAMBDA r : <<L(r)>>) \o <<H(1)>> \o Each(LAMBDA r : <<C(r, 1)>>)
                   \o <<H(2)>> \o Each(LAMBDA r : <<C(r, 2)>>)
          [] order = "late" ->
               <<H(1)>> \o Each(LAMBDA r : <<L(r), C(r, 1)>>) \o <<H(2)>> \o Each(LAMBDA r : <<C(r, 2)>>))
       \o end

Doc(seq, damage) ==
    [lines |-> seq, pages |-> {1}, partial |-> FALSE, schema |-> TRUE, native |-> "kept",
     damage |-> damage]

Ids(seq) == {seq[i].id : i \in DOMAIN seq}
Without(seq, ids) == SelectSeq(seq, LAMBDA l : l.id \notin ids)
On(seq, id, F(_)) == [i \in DOMAIN seq |-> IF seq[i].id = id THEN F(seq[i]) ELSE seq[i]]
CellIds == {10 * r + c : r \in 1..7, c \in 1..2}

Blurred(l) == [l EXCEPT !.quants[1].unit = "none"]
Smudged(l) == [l EXCEPT !.quants[1].unit = "other"]
Bounded(l) == [l EXCEPT !.quants[1].upper = TRUE]
Pointless(l) == [l EXCEPT !.quants[1].amount = 10 * @]
Faint(l) == [l EXCEPT !.low = TRUE]
Foreign(l) == [l EXCEPT !.by = "other"]
Shifted(l, by) == [l EXCEPT !.points = [i \in 1..4 |-> <<@[i][1], @[i][2] + by>>]]

Ghosted(seq, id) ==
    LET l == CHOOSE l \in {seq[i] : i \in DOMAIN seq} : l.id = id
    IN Append(seq, [l EXCEPT !.id = 200, !.quants[1].amount = 2 * @])

\* A row recognised as one line.
Joined(seq, r) ==
    Without(On(seq, 10 * r, LAMBDA l : [l EXCEPT !.quants =
                <<Amount(MCPanel[<<r, 1>>], UnitOf(r)), Amount(MCPanel[<<r, 2>>], UnitOf(r))>>]),
            {10 * r + 1, 10 * r + 2})

JoinedHeaders(seq) ==
    Without(On(seq, 1, LAMBDA l : [l EXCEPT !.heads = MCPanelColumn]), {2})

Damaged(order, turn) ==
    LET seq == Lines(order, turn, 5) IN
    {Doc(seq, "none"), Doc(JoinedHeaders(seq), "heads")}
    \cup {Doc(Without(seq, {id}), "lost") : id \in Ids(seq)}
    \cup {Doc(On(seq, id, Blurred), "blurred") : id \in CellIds}
    \cup {Doc(On(seq, id, Smudged), "blurred") : id \in CellIds}
    \cup {Doc(On(seq, id, Bounded), "bounded") : id \in CellIds}
    \cup {Doc(On(seq, id, Pointless), "point") : id \in CellIds}
    \cup {Doc(Ghosted(seq, id), "repeated") : id \in CellIds}
    \cup {Doc(Joined(seq, r), "joined") : r \in 1..7}
    \cup {Doc(On(seq, id, Faint), "faint") : id \in {1, 10, 11}}

TwiceDamaged ==
    LET seq == Lines("rows", 0, 5) IN
    {Doc(Without(seq, {a, b}), "lost") : a \in Ids(seq), b \in Ids(seq)}
    \cup {Doc(On(seq, id, LAMBDA l : Shifted(l, by)), "moved") : id \in CellIds \cup {10, 20}, by \in 1..2}
    \cup {Doc(On(seq, 101, LAMBDA l : [l EXCEPT !.digits[i] = d]), "digit") : i \in 1..8, d \in 0..9}

\* A first header as wide as the columns are apart.
WideDamaged(order) ==
    LET seq == Lines(order, 0, 8)
        cells(rows) == {2} \cup {10 * r + 1 : r \in rows}
    IN
    {Doc(seq, "none"), Doc(Without(seq, cells(1..7)), "lost"), Doc(Without(seq, cells(1..6)), "lost")}
    \cup {Doc(Without(seq, {a, b}), "lost") : a \in Ids(seq), b \in {1, 2, 11, 12, 31, 32}}

\* A serving of 50.5 g.
Fractional(seq) == On(seq, 100, LAMBDA l : [l EXCEPT !.quants[1].amount = 50500])

\* An amount with its daily value in one cell.
WithDailyValue(l) == [l EXCEPT !.quants = Append(@, Amount(10000, "percent"))]

OtherDocuments ==
    LET seq == Lines("rows", 0, 5)
        doc1 == Doc(seq, "none")
        again == [i \in DOMAIN seq |-> [seq[i] EXCEPT !.page = 2, !.id = 1000 + @]]
        calories == On(On(On(seq, 10, LAMBDA l : [l EXCEPT !.label = "calories"]),
                          11, LAMBDA l : [l EXCEPT !.quants = <<Amount(100000, "none")>>]),
                       12, LAMBDA l : [l EXCEPT !.quants = <<Amount(200000, "none")>>])
        repeat == [Header(2, 5, 0) EXCEPT !.page = 2, !.id = 201]
    IN {[doc1 EXCEPT !.damage = "pages", !.pages = {1, 2}],
        [doc1 EXCEPT !.damage = "pages", !.pages = {1, 2}, !.lines = Append(seq, repeat)],
        [doc1 EXCEPT !.damage = "pages", !.lines = <<>>],
        [doc1 EXCEPT !.damage = "calories", !.lines = calories],
        [doc1 EXCEPT !.schema = FALSE], [doc1 EXCEPT !.partial = TRUE],
        [doc1 EXCEPT !.native = "off"], [doc1 EXCEPT !.native = "gone", !.damage = "rows"],
        [doc1 EXCEPT !.lines = On(seq, 11, Foreign), !.damage = "foreign"],
        [doc1 EXCEPT !.lines = On(Without(seq, {100}), 1,
                        LAMBDA l : [l EXCEPT !.within = <<Amount(50000, "g")>>])],
        [doc1 EXCEPT !.lines = On(seq, 21, WithDailyValue)], [doc1 EXCEPT !.lines = Fractional(seq)],
        [doc1 EXCEPT !.lines = seq \o again, !.pages = {1, 2}, !.damage = "long"]}
    \cup {Doc(On(Fractional(seq), id, Pointless), "point") : id \in CellIds}

MCDocuments ==
    UNION {Damaged(order, turn) : order \in {"rows", "columns", "late"}, turn \in 0..3}
        \cup UNION {WideDamaged(order) : order \in {"rows", "columns", "late"}}
        \cup TwiceDamaged \cup OtherDocuments
=============================================================================
