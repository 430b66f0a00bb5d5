------------------------------- MODULE PageScan -------------------------------
(***************************************************************************)
(* What src/src/redaction/dom-scan.ts and patterns.ts find on one page.    *)
(*                                                                         *)
(* A page is the sequence of its elements in document order.  An element   *)
(* is a record                                                             *)
(*   tag, parent   the tag and the index of its parent (0: the body);      *)
(*   id, name      the attributes of that name, "" when absent;            *)
(*   declared      the kind data-pii/data-sensitive declares, or "";       *)
(*   type          the type of an input;                                   *)
(*   auto, hint, image   the kind that the autocomplete token, the keyword *)
(*                 rules over its names, or the rules for images give, or  *)
(*                 "": the regular expressions behind them are left out;   *)
(*   label         the attributes that may name it (aria-label, alt, ...), *)
(*   value, text   its value attribute and its own text node;              *)
(*   unrendered    stamped as not drawn; rect the stamped rectangle.       *)
(*                                                                         *)
(* A text is a sequence of tokens.  A value of interest is a run of tokens *)
(* <<v, 1>> .. <<v, ValueLen>>, and matches a pattern only when whole; a   *)
(* placeholder is three tokens; <<"-", 0>> is any other text.  White space *)
(* is left out: the values modelled are numbers, which a space does not    *)
(* break up.                                                               *)
(***************************************************************************)
EXTENDS Selection, FiniteSets

CONSTANTS
    Values,     \* the values that patterns know
    Rules,      \* for each value, the patterns whose expression matches it:
                \* records [kind, confidence, valid]
    ValueLen    \* bound: tokens of a value

ASSUME RulesAssumption ==
    /\ ValueLen \in Nat /\ ValueLen > 1
    /\ Values \cap {"ours", "theirs"} = {}
    /\ \A v \in Values : Rules[v] \subseteq [kind : STRING, confidence : 0..100, valid : BOOLEAN]
    /\ \A v \in Values : \A r \in Rules[v] : r.kind # "ours"

None == ""
NoRect == <<>>
NoSpan == <<>>
Absent == <<>>

Texts == Seq(STRING \X Nat)
Rectangles == [x : Int, y : Int, w : Int, h : Int]
Scanned ==
    [tag : STRING, parent : Nat, id : STRING, name : STRING, declared : STRING, type : STRING,
     auto : STRING, hint : STRING, image : STRING, label : Texts, value : Texts, text : Texts,
     unrendered : BOOLEAN, rect : Rectangles \cup {NoRect}]

(* The attributes of a value that no text of the page is, and other text.    *)
Plain == <<"-", 0>>
Whole(v) == [i \in 1..ValueLen |-> <<v, i>>]

-----------------------------------------------------------------------------
(* Placeholders: the session's, with its nonce, and a page's own forgeries.  *)

Opening == <<"[[PII", 0>>
Placeholder(kind, ordinal) == << Opening, <<kind, ordinal>>, <<"ours", 0>> >>
Forgery == << Opening, <<"any", 1>>, <<"theirs", 0>> >>

(* Positions of the placeholders whose nonce is one of nonces.               *)
Held(text, nonces) ==
    UNION {i..(i + 2) : i \in {j \in 1..(Len(text) - 2) :
                                  text[j] = Opening /\ text[j + 2][1] \in nonces}}

Stripped(text, nonces) == Kept(text, (1..Len(text)) \ Held(text, nonces))

(* A page cannot carry placeholders of its own into the redacted document.   *)
StripForgeries(page) ==
    [i \in DOMAIN page |->
        [page[i] EXCEPT !.label = Stripped(@, {"ours", "theirs"}),
                        !.value = Stripped(@, {"ours", "theirs"}),
                        !.text = Stripped(@, {"ours", "theirs"})]]

-----------------------------------------------------------------------------
(* Pattern matches of a text, the weaker of two that overlap dropped.        *)

Matches(text, least) ==
    UNION {{[kind |-> r.kind, start |-> s, end |-> s + ValueLen, value |-> v, confidence |-> r.confidence] :
                s \in {n \in 1..(Len(text) - ValueLen + 1) : SubSeq(text, n, n + ValueLen - 1) = Whole(v)},
                r \in {rule \in Rules[v] : rule.valid /\ rule.confidence >= least}} : v \in Values}

Overlap(m, n) == m.start < n.end /\ n.start < m.end

Stronger(m, n) ==
    \/ m.confidence > n.confidence
    \/ m.confidence = n.confidence /\ m.end - m.start > n.end - n.start
    \/ m.confidence = n.confidence /\ m.end - m.start = n.end - n.start /\ m.start < n.start

(* Those that no stronger kept match overlaps, in the order of the text.     *)
ScanText(text, least) ==
    LET found == Matches(text, least)
        kept[m \in found] == \A n \in found : Stronger(n, m) /\ Overlap(n, m) => ~kept[n]
        best == {m \in found : kept[m]}
        At(i) == {m \in best : m.start = i}
    IN FlattenSeq([i \in 1..Len(text) |->
            IF At(i) = {} THEN <<>> ELSE << CHOOSE m \in At(i) : TRUE >>])

-----------------------------------------------------------------------------
(* Roles, hidden elements and names, as dom-scan.ts and sanitize.ts see them.*)

RoleOf(el) ==
    CASE el.tag \in {"input", "textarea"} -> "textbox"
      [] el.tag = "button" -> "button"
      [] el.tag = "a" -> "link"
      [] el.tag = "h2" -> "heading"
      [] el.tag \in {"img", "label"} -> el.tag
      [] OTHER -> "generic"

ControlValue(el) == IF el.tag = "textarea" THEN el.text ELSE el.value

(* The ancestors of element i, nearest first.                                *)
Ancestors(page, i) ==
    LET up[n \in 0..Len(page)] == IF n = 0 THEN <<>> ELSE <<n>> \o up[page[n].parent]
    IN Tail(up[i])

Under(page, i, j) == i \in ToSet(Ancestors(page, j))

(* The text a reader sees in element i: what is drawn below it, in order.    *)
VisibleText(page, gone, i) ==
    LET shown(j) ==
            /\ j \notin gone
            /\ \/ j = i
               \/ /\ Under(page, i, j)
                  /\ \A k \in {j} \cup ToSet(Ancestors(page, j)) :
                        Under(page, i, k) => ~page[k].unrendered
    IN FlattenSeq([j \in DOMAIN page |->
            IF shown(j) THEN page[j].text ELSE <<>>])

AccessibleName(page, gone, i) ==
    LET wrapping == Those(<<i>> \o Ancestors(page, i), LAMBDA j : page[j].tag = "label")
        wrapped == IF wrapping = <<>> THEN <<>> ELSE VisibleText(page, gone, wrapping[1])
    IN IF page[i].label # <<>> /\ page[i].tag # "img" THEN page[i].label
       ELSE IF wrapped # <<>> THEN wrapped
       ELSE IF page[i].label # <<>> THEN page[i].label
       ELSE IF RoleOf(page[i]) \in {"button", "link", "heading", "label"}
            THEN VisibleText(page, gone, i)
       ELSE <<>>

-----------------------------------------------------------------------------
(* The findings of a page, one tier of rules after the other.                *)

InputKind(type) ==
    CASE type = "password" -> "password" [] type = "email" -> "email"
      [] type = "tel" -> "phone" [] OTHER -> None

HintConfidence(kind) ==
    CASE kind \in {"cvv", "otp", "credit-card"} -> 80
      [] kind = "ifsc" -> 85
      [] kind \in {"person-name", "postal-address"} -> 60
      [] OTHER -> 70

ImageConfidence(kind) == IF kind = "face" THEN 65 ELSE 80

Detection(page, i, kind, source, confidence, attr, span) ==
    [id |-> <<"d", 0>>, kind |-> kind, source |-> source, confidence |-> confidence,
     rect |-> page[i].rect, at |-> i, attr |-> attr, span |-> span]

(* What the patterns find in one slot of element i.                          *)
InSlot(page, i, attr, text) ==
    LET found == ScanText(text, 0)
    IN [k \in DOMAIN found |->
            Detection(page, i, found[k].kind, "regex", found[k].confidence, attr,
                      <<found[k].start, found[k].end>>)]

Found(page, i, kind, source, confidence, attr) ==
    IF kind = None THEN <<>>
    ELSE << Detection(page, i, kind, source, confidence, attr, NoSpan) >>

Tiers(page) ==
    LET Each(Tier(_)) == FlattenSeq([i \in DOMAIN page |-> Tier(i)])
    IN << Each(LAMBDA i : Found(page, i, page[i].declared, "user-rule", 100, "none")),
          Each(LAMBDA i : Found(page, i, InputKind(page[i].type), "dom-input-type",
                                IF page[i].type = "password" THEN 99 ELSE 90, "value")),
          Each(LAMBDA i : Found(page, i, page[i].auto, "dom-autocomplete", 88, "value")),
          Each(LAMBDA i : Found(page, i, page[i].hint, "dom-heuristic",
                                HintConfidence(page[i].hint), "value")),
          Each(LAMBDA i : Found(page, i, page[i].image, "dom-heuristic",
                                ImageConfidence(page[i].image), "src")),
          Each(LAMBDA i : InSlot(page, i, "value", page[i].value)
                              \o InSlot(page, i, "label", page[i].label)),
          Each(LAMBDA i : InSlot(page, i, "text", page[i].text)) >>

(* scanDom on a document whose forgeries are already stripped.               *)
ScanDom(page) ==
    LET all == FlattenSeq(Tiers(page))
    IN [n \in DOMAIN all |-> [all[n] EXCEPT !.id = <<"d", n>>]]
=============================================================================
