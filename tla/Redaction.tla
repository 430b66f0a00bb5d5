------------------------------- MODULE Redaction ------------------------------
(***************************************************************************)
(* redaction/redact.ts, strategies.ts and canvas-redact.ts of src/src: the *)
(* findings of a page are rewritten in its document, painted in its        *)
(* picture, and recorded.                                                  *)
(*                                                                         *)
(* A document is [els |-> page, gone |-> indices of removed elements]: the *)
(* replaced text of an element takes the elements below it away, and no    *)
(* element moves, so its canonical path is its index.                      *)
(***************************************************************************)
EXTENDS Findings

CONSTANTS
    MinConfidence,     \* findings below it are left alone
    Pad,               \* margin of a painted rectangle, css pixels
    Ratio,             \* device pixels of a css pixel
    FrameW, FrameH     \* the captured frame, device pixels

ASSUME RedactionAssumption ==
    /\ MinConfidence \in 0..100 /\ Pad \in Nat /\ Ratio \in Nat \ {0}
    /\ FrameW \in Nat /\ FrameH \in Nat

Intent(kind) ==
    CASE kind \in {"password", "otp", "cvv"} -> "drop-attribute"
      [] kind = "face" -> "blur"
      [] kind \in {"signature", "id-document"} -> "blackout"
      [] OTHER -> "placeholder"

PixelStrategies == {"blackout", "blur", "pixelate"}

(* What becomes of an intent for a finding of this shape.                    *)
ResolveStrategy(d) ==
    LET intent == Intent(d.kind)
    IN CASE intent \in PixelStrategies -> IF d.rect # NoRect THEN intent ELSE "placeholder"
         [] intent \notin PixelStrategies /\ d.span # NoSpan -> "placeholder"
         [] intent \notin PixelStrategies /\ d.span = NoSpan /\ d.attr = "value" ->
                IF intent = "placeholder" THEN "placeholder" ELSE "drop-attribute"
         [] OTHER -> "placeholder"

-----------------------------------------------------------------------------
(* Edits of the document.                                                    *)

Present(doc, i) == i \in DOMAIN doc.els /\ i \notin doc.gone

SlotText(doc, d) ==
    CASE d.attr = "label" -> doc.els[d.at].label
      [] d.attr = "value" -> doc.els[d.at].value
      [] OTHER -> doc.els[d.at].text

SetSlot(doc, d, text) ==
    CASE d.attr = "label" -> [doc EXCEPT !.els[d.at].label = text]
      [] d.attr = "value" -> [doc EXCEPT !.els[d.at].value = text]
      [] OTHER -> [doc EXCEPT !.els[d.at].text = text]

WriteControl(doc, i, text) ==
    IF doc.els[i].tag = "textarea" THEN [doc EXCEPT !.els[i].text = text]
    ELSE [doc EXCEPT !.els[i].value = text]

(* el.textContent = text.                                                    *)
ReplaceContent(doc, i, text) ==
    [els |-> [doc.els EXCEPT ![i].text = text],
     gone |-> doc.gone \cup {j \in DOMAIN doc.els : Under(doc.els, i, j)}]

Splice(text, span, replacement) ==
    SubSeq(text, 1, span[1] - 1) \o replacement \o SubSeq(text, span[2], Len(text))

Entry(d, strategy, applied, reason) ==
    [id |-> d.id, kind |-> d.kind, strategy |-> strategy, applied |-> applied, reason |-> reason]

Counted(ordinals, kind) == [k \in DOMAIN ordinals \cup {kind} |->
    IF k # kind THEN ordinals[k] ELSE IF k \in DOMAIN ordinals THEN ordinals[k] + 1 ELSE 1]

(* Mutant: css pixels are painted.                                           *)
OpInCssPixels(d, how) == [id |-> d.id, how |-> how, rect |-> Inflated(d.rect, Pad)]

OpOf(d, how) ==
    [id |-> d.id, how |-> how, rect |-> ToDevice(Inflated(d.rect, Pad), Ratio)]

-----------------------------------------------------------------------------
(* Findings with a span, by slot and in a slot from its end backwards: an    *)
(* edit leaves the positions before it where they are.                       *)

Slot(d) == << d.at, d.attr >>

FirstOf(list, d) == CHOOSE n \in DOMAIN list :
                        Slot(list[n]) = Slot(d) /\ \A m \in DOMAIN list : Slot(list[m]) = Slot(d) => n <= m

(* Mutant: from the start of a slot on.                                      *)
SpanOrderForwards(list) ==
    Sorted(list, LAMBDA a, b : \/ FirstOf(list, a) < FirstOf(list, b)
                               \/ Slot(a) = Slot(b) /\ a.span[1] < b.span[1])

SpanOrder(list) ==
    Sorted(list, LAMBDA a, b : \/ FirstOf(list, a) < FirstOf(list, b)
                               \/ Slot(a) = Slot(b) /\ a.span[1] > b.span[1])

RewriteSpan(state, d) ==
    LET found == Present(state.doc, d.at)
        ordinals == IF found THEN Counted(state.ordinals, d.kind) ELSE state.ordinals
        had == SlotText(state.doc, d)
        applies == found /\ d.span[2] <= Len(had) + 1
    IN [state EXCEPT
            !.ordinals = ordinals,
            !.doc = IF applies
                    THEN SetSlot(@, d, Splice(had, d.span, Placeholder(d.kind, ordinals[d.kind])))
                    ELSE @,
            !.entries = Append(@, Entry(d, "placeholder", applies,
                               IF ~found THEN "gone" ELSE IF applies THEN "span" ELSE "moved"))]

(* Findings without one: painted, cleared or replaced; those that replace    *)
(* what an element holds come last, as they take its children away.          *)
RemovalsLast(list) ==
    Sorted(list, LAMBDA a, b : a.attr # "none" /\ b.attr = "none")

ApplyStrategy(state, d) ==
    LET how == ResolveStrategy(d)
        ordinals == Counted(state.ordinals, d.kind)
        doc == state.doc
        anchored == d.at # 0 /\ Present(doc, d.at)
        painted == how \in PixelStrategies
        token == Placeholder(d.kind, ordinals[d.kind])
    IN [state EXCEPT
            !.ordinals = ordinals,
            !.ops = IF painted THEN Append(@, OpOf(d, how)) ELSE @,
            !.doc = IF painted \/ ~anchored THEN @
                    ELSE CASE d.attr = "value" ->
                                WriteControl(@, d.at, IF how = "drop-attribute" THEN <<>> ELSE token)
                           [] d.attr = "none" -> ReplaceContent(@, d.at, token)
                           [] OTHER -> @,
            !.entries = Append(@, Entry(d, how, painted \/ anchored,
                               IF painted THEN "queued" ELSE IF anchored THEN "replaced" ELSE "gone"))]

(* A screenshot shows what the text redaction took out of the document, so   *)
(* every applied finding with a rectangle is painted, whatever it asked for. *)
CoverAll(state, merged) ==
    LET done == {state.ops[n].id : n \in DOMAIN state.ops}
        applied == {state.entries[n].id : n \in {m \in DOMAIN state.entries : state.entries[m].applied}}
        owed == Those(merged, LAMBDA d : d.rect # NoRect /\ d.id \in applied \ done)
    IN [state EXCEPT !.ops = @ \o [n \in DOMAIN owed |-> OpOf(owed[n], "blackout")]]

(* Values of hidden inputs are never drawn: they owe the picture nothing.    *)
Unpaintable(page, applicable) ==
    {d.id : d \in {e \in ToSet(applicable) :
                    e.attr = "value" /\ e.at # 0 /\ page[e.at].tag = "input" /\ page[e.at].type = "hidden"}}

Unchanged(page) == [doc |-> [els |-> page, gone |-> {}], ordinals |-> [k \in {} |-> 0], ops |-> <<>>, entries |-> <<>>]

(* The spans first, then the rest.                                           *)
Rewritten(page, applicable) ==
    FoldLeft(ApplyStrategy,
             FoldLeft(RewriteSpan, Unchanged(page),
                      SpanOrder(Those(applicable, LAMBDA d : d.span # NoSpan /\ d.at # 0))),
             RemovalsLast(Those(applicable, LAMBDA d : d.span = NoSpan)))

(* What the step is told of it.                                              *)
Reported(page, merged, applicable, skipped, state) ==
    [doc |-> state.doc, detections |-> merged, ops |-> state.ops,
     unpaintable |-> Unpaintable(page, applicable),
     entries |-> state.entries
                    \o [n \in DOMAIN skipped |-> Entry(skipped[n], "placeholder", FALSE, "below")],
     residualRisk |-> IF \E n \in DOMAIN state.entries : ~state.entries[n].applied THEN "unknown"
                      ELSE IF skipped # <<>> THEN "low" ELSE "none"]

RedactMerged(page, merged, applicable, coverAll) ==
    Reported(page, merged, applicable, Those(merged, LAMBDA d : d.confidence < MinConfidence),
             IF coverAll THEN CoverAll(Rewritten(page, applicable), merged)
             ELSE Rewritten(page, applicable))

RedactPage(page, merged, coverAll) ==
    RedactMerged(page, merged, Those(merged, LAMBDA d : d.confidence >= MinConfidence), coverAll)

Redact(raw, vision, coverAll) ==
    LET page == StripForgeries(raw)
    IN RedactPage(page, MergeDetections(ScanDom(page), vision, page), coverAll)

-----------------------------------------------------------------------------
(* The picture.                                                              *)

(* The pixels of a rectangle inside the frame.                               *)
Pixels(r) ==
    (MostOf(0, r.x)..(LeastOf(FrameW, r.x + r.w) - 1)) \X (MostOf(0, r.y)..(LeastOf(FrameH, r.y + r.h) - 1))

OverlapsFrame(r) == r.x < FrameW /\ r.y < FrameH /\ r.x + r.w > 0 /\ r.y + r.h > 0

(* Ops outside the frame are counted apart from those that failed in it.     *)
BakeRedactions(ops) ==
    LET n(P(_)) == Cardinality({k \in DOMAIN ops : P(ops[k].rect)})
    IN [requested |-> Len(ops),
        applied |-> n(LAMBDA r : Pixels(r) # {}),
        outside |-> n(LAMBDA r : Pixels(r) = {} /\ ~OverlapsFrame(r)),
        painted |-> UNION {Pixels(ops[k].rect) : k \in DOMAIN ops}]

(* Applied redactions that owe the picture an op and have none.              *)
Uncovered(redaction) ==
    {redaction.entries[n].id : n \in {m \in DOMAIN redaction.entries : redaction.entries[m].applied}}
        \ ({redaction.ops[n].id : n \in DOMAIN redaction.ops} \cup redaction.unpaintable)

(* More ops overlapped the frame than were applied.                          *)
Unverified(shot) == shot.requested - shot.outside > shot.applied
=============================================================================
