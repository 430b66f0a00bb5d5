----------------------------- MODULE MCRedaction ------------------------------
(* Instances of RedactionPipeline for TLC: a catalogue of elements, and the  *)
(* pages made of them.                                                       *)
EXTENDS RedactionPipeline

Rule(kind, confidence, valid) == [kind |-> kind, confidence |-> confidence, valid |-> valid]

(* "card" is a number that two patterns match, "odd" one that fails its      *)
(* check digit for the first, "weak" one below the threshold.                *)
PatternRules ==
    [v \in {"card", "odd", "weak"} |->
        CASE v = "card" -> {Rule("credit-card", 97, TRUE), Rule("phone", 72, TRUE)}
          [] v = "odd" -> {Rule("credit-card", 97, FALSE), Rule("phone", 72, TRUE)}
          [] OTHER -> {Rule("passport", 45, TRUE)}]

FarLeft == -5

Box(x, y, w, h) == [x |-> x, y |-> y, w |-> w, h |-> h]

Plainest ==
    [tag |-> "div", parent |-> 0, id |-> None, name |-> None, declared |-> None,
     type |-> None, auto |-> None, hint |-> None, image |-> None, label |-> Absent,
     value |-> Absent, text |-> Absent, unrendered |-> FALSE, rect |-> Box(0, 0, 4, 4)]

Shapes ==
    { [Plainest EXCEPT !.tag = "section"],
      [Plainest EXCEPT !.tag = "section", !.declared = "person-name", !.text = <<Plain>>],
      [Plainest EXCEPT !.tag = "h2", !.text = Whole("card") \o <<Plain>> \o Whole("odd"), !.rect = Box(0, 0, 3, 1)],
      [Plainest EXCEPT !.tag = "h2", !.text = << <<"odd", 1>> >> \o Forgery \o << <<"odd", 2>> >>, !.rect = Box(-1, 3, 3, 3)],
      [Plainest EXCEPT !.tag = "a", !.text = << <<"card", 1>> >>, !.rect = Box(2, 2, 1, 1)],
      [Plainest EXCEPT !.tag = "a", !.text = << <<"card", 2>> >>, !.label = Whole("card"), !.rect = NoRect],
      [Plainest EXCEPT !.tag = "a", !.label = Forgery \o <<Plain>>, !.id = "i", !.rect = Box(9, 9, 1, 1)],
      [Plainest EXCEPT !.tag = "input", !.type = "password", !.name = "n", !.value = <<Plain>>, !.rect = Box(1, 1, 2, 1)],
      [Plainest EXCEPT !.tag = "input", !.type = "hidden", !.auto = "otp", !.value = Whole("card"), !.rect = NoRect],
      [Plainest EXCEPT !.tag = "input", !.hint = "credit-card", !.name = "n", !.id = "i", !.value = Whole("card"), !.rect = Box(1, 1, 2, 1)],
      [Plainest EXCEPT !.tag = "textarea", !.hint = "postal-address", !.text = Whole("card") \o Whole("card")],
      [Plainest EXCEPT !.tag = "label", !.text = <<Plain>>, !.unrendered = TRUE],
      [Plainest EXCEPT !.tag = "title", !.text = Whole("odd") \o Forgery \o Whole("weak"), !.rect = NoRect],
      [Plainest EXCEPT !.tag = "img", !.image = "face", !.label = Whole("weak"), !.rect = Box(2, 0, 2, 2)] }

Holders == {"section", "a", "label", "h2", "div"}

PageOf(shape, up) == [i \in DOMAIN shape |-> [shape[i] EXCEPT !.parent = up[i]]]

WellPlaced(p) ==
    \A i \in DOMAIN p : p[i].parent < i /\ (p[i].parent # 0 => p[p[i].parent].tag \in Holders)

(* Every page of one or two elements.                                        *)
SmallPages ==
    UNION {{p \in {PageOf(shape, up) : shape \in [1..n -> Shapes], up \in [1..n -> 0..1]} : WellPlaced(p)} :
              n \in 1..2}

(* A card or a heading with one or two things in it, and one after it.       *)
Cards ==
    {PageOf(<<s, t, u>>, <<0, 1, up>>) :
        s \in {e \in Shapes : e.tag \in {"section", "h2"}},
        t \in {e \in Shapes : e.tag \in {"a", "input"}},
        u \in {e \in Shapes : e.tag \in {"a", "input", "h2"}}, up \in {0, 1, 2}}

(* A table of rows of cells, each row a sequence of width of them.           *)
TableOf(width, rows) ==
    [i \in 1..(1 + Len(rows) * (width + 1)) |->
        LET row == ((i - 2) \div (width + 1)) + 1
            c == (i - 2) % (width + 1)
        IN IF i = 1 THEN [Plainest EXCEPT !.tag = "table", !.rect = NoRect]
           ELSE IF c = 0 THEN [Plainest EXCEPT !.tag = "tr", !.parent = 1, !.rect = NoRect]
           ELSE [rows[row][c] EXCEPT !.parent = i - c]]

Cell(tag, text) == [Plainest EXCEPT !.tag = tag, !.text = text, !.rect = NoRect]
One == Cell("td", << <<"#", 1>> >>)
NoValue == Cell("td", << <<"n/a", 0>> >>)
Card == Cell("td", Whole("card"))
Words == Cell("td", <<Plain>>)
Owned == [Words EXCEPT !.declared = "person-name"]
Headings == {Cell("th", <<Plain>>), Cell("th", Whole("card"))}

(* One column of four rows, the first perhaps its heading; and two columns of*)
(* three rows without headings, or of two with them.                         *)
TablePages ==
    {TableOf(1, << <<a>>, <<b>>, <<c>>, <<d>> >>) :
        a \in Headings \cup {One, Card, Owned}, b \in {One, Card, Owned},
        c \in {One, NoValue, Words, Card}, d \in {One, NoValue, Card}}
    \cup {TableOf(2, << <<a, One>>, <<b, c>>, <<One, d>> >>) :
        a \in {One, Card}, b \in {One, Card}, c \in {One, NoValue}, d \in {One, Card}}
    \cup {TableOf(2, << <<h, i>>, <<One, a>>, <<b, One>> >>) :
        h \in Headings, i \in Headings, a \in {One, Card}, b \in {Card, Words}}
    \cup {TableOf(1, << <<One>>, <<One>> >>) \o
           [i \in 1..4 |-> [TableOf(1, << <<Card>>, <<One>>, <<One>> >>)[i] EXCEPT
                                !.parent = IF @ = 0 THEN 0 ELSE @ + 5]]}

(* A column with a field in a cell of it: one that is replaced, one that is  *)
(* cleared, and one that is first replaced and then cleared.                 *)
Field(hint, auto) ==
    [Plainest EXCEPT !.tag = "textarea", !.hint = hint, !.auto = auto, !.rect = NoRect,
                     !.parent = 5, !.text = Whole("card")]

FieldPages ==
    {TableOf(1, << <<One>>, <<cell>> >>) \o << Field(kinds[1], kinds[2]) >> :
        cell \in {One, Words, Cell("td", <<>>)},
        kinds \in {<<"postal-address", None>>, <<"cvv", None>>, <<"cvv", "credit-card">>}}

(* A cell that is the pieces of a placeholder, split over two of its texts.  *)
PiecePages ==
    {TableOf(1, << <<One>>, <<Cell("td", <<Opening>>)>> >>) \o
        << [Plainest EXCEPT !.tag = "a", !.parent = 5, !.text = SubSeq(Forgery, n, 3)] >> : n \in 2..3}

Seen(label, score, rect) == [label |-> label, score |-> score, rect |-> rect]

SomeBoxes ==
    { <<>>,
      << Seen("face", 60, Box(4, 0, 4, 4)), Seen("person", 80, Box(4, 0, 4, 6)) >>,
      << Seen("face", 70, Box(2, 0, 6, 4)), Seen("face", 30, Box(4, 4, 2, 2)),
         Seen("card", 60, Box(2, 0, 4, 4)), Seen("cat", 90, Box(0, 0, 8, 8)) >> }

(* Nothing yet; and the name of what was clicked and what was said of it.    *)
SomeEarlier == { <<>>, << <<Plain>>, Whole("card") >> }

SinglePages == {p \in SmallPages : Len(p) = 1}
SomePages == SmallPages \cup {p \in Cards : WellPlaced(p)} \cup TablePages \cup FieldPages \cup PiecePages
=============================================================================
