------------------------------- MODULE Findings -------------------------------
(***************************************************************************)
(* Vision and DOM findings become one list: contracts/geometry.ts,         *)
(* perception/postprocess.ts and redaction/merge.ts of src/src.            *)
(*                                                                         *)
(* A finding is a record of PageScan.Detection, a rectangle a record       *)
(* [x, y, w, h] of integers or NoRect; confidences are percentages, so     *)
(* thresholds are compared by cross-multiplication and nothing is rounded. *)
(***************************************************************************)
EXTENDS PageScan

CONSTANTS
    IouPercent,        \* two findings of a kind that overlap this much are one
    InsidePercent,     \* share of a vision box that an element must hold
    Boost,             \* what agreement of two channels adds
    CellSize,          \* edge of a cell of the overlap index
    MaxCells           \* a rectangle over more cells is kept outside the index

ASSUME MergeAssumption ==
    /\ IouPercent \in 1..100 /\ InsidePercent \in 1..100 /\ Boost \in 0..100
    /\ CellSize \in Nat \ {0} /\ MaxCells \in Nat

-----------------------------------------------------------------------------
(* Geometry.                                                                 *)

LeastOf(a, b) == IF a < b THEN a ELSE b
MostOf(a, b) == IF a < b THEN b ELSE a

Area(r) == MostOf(0, r.w) * MostOf(0, r.h)

(* The area that two rectangles share.                                       *)
Shared(a, b) ==
    MostOf(0, LeastOf(a.x + a.w, b.x + b.w) - MostOf(a.x, b.x))
        * MostOf(0, LeastOf(a.y + a.h, b.y + b.h) - MostOf(a.y, b.y))

(* Intersection over union at or above percent.                              *)
IouAtLeast(a, b, percent) ==
    LET union == Area(a) + Area(b) - Shared(a, b)
    IN /\ Shared(a, b) > 0 /\ union > 0
       /\ 100 * Shared(a, b) >= percent * union

Inside(inner, outer) ==
    /\ Area(inner) > 0 /\ Shared(inner, outer) > 0
    /\ 100 * Shared(inner, outer) >= InsidePercent * Area(inner)

ToDevice(r, ratio) == [x |-> r.x * ratio, y |-> r.y * ratio, w |-> r.w * ratio, h |-> r.h * ratio]
ToCss(r, ratio) == [x |-> r.x \div ratio, y |-> r.y \div ratio, w |-> r.w \div ratio, h |-> r.h \div ratio]
Inflated(r, pad) == [x |-> r.x - pad, y |-> r.y - pad, w |-> r.w + 2 * pad, h |-> r.h + 2 * pad]

(* A stable sort: each element goes after those that it does not precede.    *)
Sorted(s, Before(_, _)) ==
    FoldLeft(LAMBDA out, e : InsertAt(out, Cardinality({n \in DOMAIN out : ~Before(e, out[n])}) + 1, e),
             <<>>, s)

ByConfidence(s) == Sorted(s, LAMBDA a, b : a.confidence > b.confidence)

-----------------------------------------------------------------------------
(* What the model saw: boxes below the threshold or of no kind are dropped,  *)
(* then of each kind the boxes that a surer one overlaps.                    *)

LabelKind(label) ==
    CASE label \in {"person", "face", "head"} -> "face"
      [] label = "signature" -> "signature"
      [] label \in {"id-card", "id_document", "passport", "driving-licence"} -> "id-document"
      [] label \in {"credit-card", "card"} -> "credit-card"
      [] OTHER -> None

Survivors(list, percent) ==
    FoldLeft(LAMBDA out, b : IF \E k \in DOMAIN out : IouAtLeast(out[k].rect, b.rect, percent)
                             THEN out ELSE Append(out, b),
             <<>>, ByConfidence(list))

NonMaxSuppression(boxes, percent) ==
    LET of(i) == {j \in DOMAIN boxes : boxes[j].kind = boxes[i].kind}
    IN ByConfidence(FlattenSeq([i \in DOMAIN boxes |->
            IF \A j \in of(i) : i <= j THEN Survivors(Kept(boxes, of(i)), percent) ELSE <<>>]))

DecodeDetections(raw, ratio, least, percent) ==
    LET mapped == [i \in DOMAIN raw |->
            [id |-> <<"v", i>>, kind |-> LabelKind(raw[i].label), source |-> "vision",
             confidence |-> raw[i].score, rect |-> ToCss(raw[i].rect, ratio),
             at |-> 0, attr |-> "none", span |-> NoSpan]]
        clear == {i \in DOMAIN mapped : mapped[i].confidence >= least /\ mapped[i].kind # None}
    IN NonMaxSuppression(Kept(mapped, clear), percent)

(* The smallest element that holds enough of a box; 0 when none does.        *)
AttachToElement(box, page) ==
    LET holds == {i \in DOMAIN page : page[i].rect # NoRect /\ Inside(box.rect, page[i].rect)}
    IN IF holds = {} THEN 0
       ELSE CHOOSE i \in holds :
                \A j \in holds : \/ Area(page[i].rect) < Area(page[j].rect)
                                 \/ Area(page[i].rect) = Area(page[j].rect) /\ i <= j

-----------------------------------------------------------------------------
(* Two findings that name one thing.                                         *)

SameTarget(a, b) ==
    a.kind = b.kind /\ a.at # 0 /\ a.at = b.at /\ a.attr = b.attr

Overlapping(a, b) ==
    /\ a.kind = b.kind /\ a.rect # NoRect /\ b.rect # NoRect
    /\ IouAtLeast(a.rect, b.rect, IouPercent)

Corroborated(a, b) == (a.source = "vision") # (b.source = "vision")

(* The surer finding stands, with what only the other one knew.              *)
Joined(winner, other) ==
    [winner EXCEPT
        !.confidence = IF Corroborated(winner, other) THEN LeastOf(99, @ + Boost) ELSE @,
        !.at = IF @ = 0 THEN other.at ELSE @,
        !.rect = IF @ = NoRect THEN other.rect ELSE @]

(* Reference: each finding joins the first kept one that names its thing.    *)
MergePair(kept, d) ==
    LET same == {k \in DOMAIN kept : SameTarget(kept[k], d) \/ Overlapping(kept[k], d)}
        first == CHOOSE k \in same : \A j \in same : k <= j
    IN IF same = {} THEN Append(kept, d) ELSE [kept EXCEPT ![first] = Joined(@, d)]

MergePairs(all) == FoldLeft(MergePair, <<>>, all)

-----------------------------------------------------------------------------
(* The code finds that kept one through indexes: of targets, of the cells a  *)
(* rectangle lies over, and of the rectangles too large for cells.           *)

TargetKey(d) == << d.kind, d.at, d.attr >>

(* Mutant: only the cell of the top left corner is indexed.                  *)
TopLeftCell(r) == {<< r.x \div CellSize, r.y \div CellSize >>}

(* The cells a rectangle lies over; {} when there are too many.              *)
CellsOf(r) ==
    LET xs == (r.x \div CellSize)..((r.x + MostOf(0, r.w)) \div CellSize)
        ys == (r.y \div CellSize)..((r.y + MostOf(0, r.h)) \div CellSize)
    IN IF Cardinality(xs) * Cardinality(ys) > MaxCells THEN {} ELSE xs \X ys

NoIndex == [target |-> {}, cell |-> {}, placed |-> {}, oversized |-> {}]

(* A target key leads to the lowest index registered for it.                 *)
Registered(index, d, k) ==
    IF d.at = 0 \/ \E e \in index.target : e[1] = TargetKey(d) /\ e[2] <= k THEN index
    ELSE [index EXCEPT !.target = {e \in @ : e[1] # TargetKey(d)} \cup {<<TargetKey(d), k>>}]

Placed(index, d, k) ==
    IF d.rect = NoRect THEN index
    ELSE [index EXCEPT !.placed = @ \cup {k},
                       !.oversized = IF CellsOf(d.rect) = {} THEN @ \cup {k} ELSE @,
                       !.cell = @ \cup {<<c, k>> : c \in CellsOf(d.rect)}]

Near(index, d) ==
    IF d.rect = NoRect THEN {}
    ELSE IF CellsOf(d.rect) = {} THEN index.placed
    ELSE index.oversized \cup {e[2] : e \in {f \in index.cell : f[1] \in CellsOf(d.rect)}}

(* The lowest kept finding the indexes lead to; 0 when there is none.        *)
Duplicate(kept, index, d) ==
    LET hit == {e[2] : e \in {f \in index.target : d.at # 0 /\ f[1] = TargetKey(d)}}
        same == {k \in hit : SameTarget(kept[k], d)}
                    \cup {k \in Near(index, d) : Overlapping(kept[k], d)}
    IN IF same = {} THEN 0 ELSE CHOOSE k \in same : \A j \in same : k <= j

MergeStep(state, d) ==
    LET k == Duplicate(state.kept, state.index, d)
        n == Len(state.kept) + 1
    IN IF k = 0
       THEN [kept |-> Append(state.kept, d),
             index |-> Placed(Registered(state.index, d, n), d, n)]
       ELSE LET winner == state.kept[k]
                merged == Joined(winner, d)
                known == IF winner.at = 0 THEN Registered(state.index, merged, k) ELSE state.index
            IN [kept |-> [state.kept EXCEPT ![k] = merged],
                index |-> IF winner.rect = NoRect THEN Placed(known, merged, k) ELSE known]

(* DOM findings and vision boxes, surest first.                              *)
Candidates(dom, vision, page) ==
    ByConfidence(dom \o [i \in DOMAIN vision |->
                            [vision[i] EXCEPT !.at = AttachToElement(vision[i], page)]])

MergeIndexed(all) == FoldLeft(MergeStep, [kept |-> <<>>, index |-> NoIndex], all).kept

MergeDetections(dom, vision, page) == ByConfidence(MergeIndexed(Candidates(dom, vision, page)))
=============================================================================
