-------------------------- MODULE RedactionPipeline ---------------------------
(***************************************************************************)
(* One page through the pipeline of orchestrator/step.ts (src/src): scan   *)
(* and redact, bake the picture, analyse its table and sanitize, and the   *)
(* two gates before the planner is called.                                 *)
(***************************************************************************)
EXTENDS SanitizedContext

CONSTANTS
    Pages,          \* the snapshots a step may start from
    Visions,        \* the boxes a model may return for them
    LeastScore,     \* boxes with a lower score are dropped
    NmsPercent,     \* of two boxes that overlap this much one stays
    Earlier,        \* the texts that steps before may have left in the task
    MostElements    \* bound: elements of a context

ASSUME PipelineAssumption ==
    /\ Pages \subseteq Seq(Scanned)
    /\ \A p \in Pages : \A i \in DOMAIN p : p[i].parent < i
    /\ Visions \subseteq Seq([label : STRING, score : Int, rect : Rectangles])
    /\ MostElements \in Nat

ASSUME EarlierAssumption == Earlier \subseteq Seq(Texts)

(* The nonce is drawn at random for the session and no page can guess it: a  *)
(* page has it at most in whole placeholders, which the scan takes out.      *)
ASSUME NonceAssumption ==
    \A p \in Pages : \A el \in ToSet(StripForgeries(p)) :
        \A text \in {el.label, el.value, el.text} : \A n \in DOMAIN text : text[n][1] # "ours"

VARIABLES
    page,           \* the snapshot, elements in document order
    vision,         \* what the model returned for its picture
    wanted,         \* a screenshot is to be sent
    stage,          \* where the step is
    redaction,      \* what redact() returned
    shot,           \* the baked picture, NoShot while there is none
    context         \* what sanitize() returned

pipelineVars == << page, vision, wanted, stage, redaction, shot, context >>

Nothing == <<>>

PipelineInit ==
    /\ page \in Pages /\ vision \in Visions /\ wanted \in BOOLEAN
    /\ stage = "captured"
    /\ redaction = Nothing /\ shot = NoShot /\ context = Nothing

DomRedact ==
    /\ stage = "captured"
    /\ stage' = "redacted"
    /\ redaction' = Redact(page, DecodeDetections(vision, Ratio, LeastScore, NmsPercent), wanted)
    /\ UNCHANGED << page, vision, wanted, shot, context >>

(* No picture is made of a page with a redaction that no op covers.          *)
NotBaked ==
    /\ stage = "redacted"
    /\ ~wanted \/ Uncovered(redaction) # {}
    /\ stage' = "baked"
    /\ UNCHANGED << page, vision, wanted, redaction, shot, context >>

(* One that misses an op inside the frame is dropped, and so is one that the *)
(* worker never held or could not paint.                                     *)
Bake ==
    /\ stage = "redacted" /\ wanted /\ Uncovered(redaction) = {}
    /\ stage' = "baked"
    /\ LET baked == BakeRedactions(redaction.ops)
       IN shot' \in IF Unverified(baked) THEN {NoShot} ELSE {NoShot, baked}
    /\ UNCHANGED << page, vision, wanted, redaction, context >>

(* The budget may shed the picture: ElementBudget says when.                 *)
Sanitize ==
    /\ stage = "baked"
    /\ stage' = "sanitized"
    /\ \E done \in 0..AnalysisWork(redaction.doc), sent \in {shot, NoShot}, earlier \in Earlier :
          context' = BuildSanitizedContext(redaction, sent, earlier, MostElements,
                                           AnalyzeDocument(redaction.doc, done))
    /\ UNCHANGED << page, vision, wanted, redaction, shot >>

Verify ==
    /\ stage = "sanitized"
    /\ stage' = IF VerifyOutboundRedaction(context) /\ InspectOutboundContext(context)
                THEN "sent" ELSE "blocked"
    /\ UNCHANGED << page, vision, wanted, redaction, shot, context >>

PipelineNext == DomRedact \/ NotBaked \/ Bake \/ Sanitize \/ Verify

PipelineSpec == PipelineInit /\ [][PipelineNext]_pipelineVars

-----------------------------------------------------------------------------
(* Correctness.                                                              *)

Applied ==
    {d \in ToSet(redaction.detections) :
        \E n \in DOMAIN redaction.entries : redaction.entries[n].id = d.id /\ redaction.entries[n].applied}

(* The two ways of finding the kept finding that a new one repeats agree: the*)
(* indexes of targets, cells and oversized rectangles lead to the same merge *)
(* as comparing each pair, whatever order the findings come in.              *)
IndexedMerge ==
    stage # "captured" =>
        LET stripped == StripForgeries(page)
            all == Candidates(ScanDom(stripped),
                              DecodeDetections(vision, Ratio, LeastScore, NmsPercent), stripped)
        IN MergeIndexed(all) = MergePairs(all)

(* Of a finding in a text that is logged as applied, no token is left in that*)
(* text, and no other token was taken in its place: the edits of one text do *)
(* not move the positions of the others, and no later edit of the element    *)
(* brings its text back.                                                     *)
AppliedIsGone ==
    stage # "captured" =>
        \A d \in Applied : d.span # NoSpan /\ Present(redaction.doc, d.at) =>
            LET had == SlotText([els |-> StripForgeries(page), gone |-> {}], d)
                taken == UNION {e.span[1]..(e.span[2] - 1) :
                                  e \in {a \in Applied : a.span # NoSpan /\ Slot(a) = Slot(d)}}
                now == SlotText(redaction.doc, d)
                rest == Kept(had, DOMAIN had \ taken)
            IN \/ Kept(now, DOMAIN now \ Held(now, {"ours"})) = rest
               \/ \A n \in DOMAIN now : n \in Held(now, {"ours"})

(* In a picture that is sent, every pixel of every applied finding that a    *)
(* reader could see has been painted over: css and device pixels, the margin *)
(* and the edge of the frame included.                                       *)
PictureCovered ==
    shot # NoShot =>
        \A d \in Applied : d.rect # NoRect /\ d.id \notin redaction.unpaintable =>
            Pixels(ToDevice(d.rect, Ratio)) \subseteq shot.painted

SentAtoms ==
    (UNION {{el.name, el.groupName, el.value} \cup ToSet(el.attrs) : el \in ToSet(context.elements)})
        \cup {Label(c) : c \in ToSet(context.analysis.columns)}
        \cup {context.title} \cup {Raw(text) : text \in ToSet(context.earlier)}

(* Nothing that is sent holds a whole value that a pattern is sure enough of,*)
(* in the title, in a name, a group name, a value, an attribute or the       *)
(* heading of a column, however it was put together from the texts of the    *)
(* page, nor in what earlier steps named, noted or asked.                    *)
SentClean ==
    stage = "sent" => \A atom \in SentAtoms : Matches(atom.text, MinConfidence) = {}

Body(doc, rows) ==
    Those(rows, LAMBDA r : ~(IsHeaderRow(doc, r) /\ \A q \in ToSet(rows) : IsHeaderRow(doc, q) => r <= q))

(* Findings whose redaction writes the text of their element; one that clears*)
(* a field leaves no placeholder there.                                      *)
WritesText(doc, d) ==
    IF d.span # NoSpan THEN d.attr \notin {"label", "value"}
    ELSE /\ ResolveStrategy(d) \notin PixelStrategies
         /\ d.attr = "none" \/ (d.attr = "value" /\ doc.els[d.at].tag = "textarea")

Clears(doc, d) ==
    WritesText(doc, d) /\ d.span = NoSpan /\ ResolveStrategy(d) = "drop-attribute"

(* A cell and what is below it, and what was written there.                  *)
Within(els, cell) == {j \in DOMAIN els : cell # 0 /\ (j = cell \/ Under(els, cell, j))}

WrittenIn(doc, cell) == {d \in Applied : d.at \in Within(doc.els, cell) /\ WritesText(doc, d)}

(* A cell with the beginning of a placeholder in it that the page wrote: one *)
(* is stripped when it is whole in one text, not when several texts make it. *)
Opened(text) == \E n \in DOMAIN text : text[n] = Opening
PiecesIn(cell) == \E j \in Within(page, cell) : Opened(StripForgeries(page)[j].text)

(* Of a table only the headings leave as text, never a cell of data; and the *)
(* figures of a column do not say less than they leave out: no cell with a   *)
(* placeholder is among their rows, each is counted as redacted, and no other*)
(* cell is, unless the page wrote the pieces of one there; every row that was*)
(* read is accounted for, and a reading that stopped early says so.          *)
TableTold ==
    context # Nothing /\ ChooseTable(redaction.doc) # 0 =>
        LET doc == redaction.doc
            told == context.analysis
            rows == Below(doc, ChooseTable(doc), {"tr"})
            body == Body(doc, rows)
        IN /\ \A c \in ToSet(told.columns) :
                 c.label # <<>> =>
                     \E r \in ToSet(rows) : IsHeaderRow(doc, r) /\ c.label = CellText(doc, CellAt(doc, r, c.index))
           /\ told.rows > 0 => \A c \in ToSet(told.columns) :
                 LET cell(r) == CellAt(doc, body[r], c.index)
                     written == {r \in 1..told.rows : WrittenIn(doc, cell(r)) # {}}
                     left == {r \in written : \A d \in WrittenIn(doc, cell(r)) : ~Clears(doc, d)}
                     pieces == {r \in 1..told.rows : PiecesIn(cell(r))}
                 IN /\ ToSet(c.rows) \cap left = {}
                    /\ c.nRedacted \in Cardinality(left)..Cardinality(written \cup pieces)
                    /\ c.kind = "numeric" =>
                           Len(c.rows) + c.nMissing + c.nRedacted + c.nUnparsed = told.rows
           /\ told.rows \in 1..(Len(body) - 1) => told.refusal = "too-many-cells"

(* The selector sent along with a ref leads, in the live page, to the element*)
(* that was shown, or to one that the redaction took out of the document it  *)
(* was computed on.                                                          *)
RefsLeadHome ==
    context # Nothing =>
        \A el \in ToSet(context.elements) :
            ResolveSelector(page, el.selector) \in {el.at} \cup redaction.doc.gone

=============================================================================
