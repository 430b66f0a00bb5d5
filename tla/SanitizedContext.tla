--------------------------- MODULE SanitizedContext ---------------------------
(***************************************************************************)
(* redaction/sanitize.ts, redaction/egress.ts and contracts/egress.ts of   *)
(* src/src: what of a redacted document leaves the device, and the two     *)
(* gates that look at it before it does.                                   *)
(***************************************************************************)
EXTENDS PageAnalysis

CONSTANT OffscreenLeft    \* an element that ends left of it is hidden

ASSUME OffscreenAssumption == OffscreenLeft \in Int

IsHidden(el) ==
    \/ el.type = "hidden" \/ el.unrendered
    \/ el.rect # NoRect /\ el.rect.x + el.rect.w <= OffscreenLeft

(* The elements that a planner may name, in document order.                  *)
Interesting(doc) ==
    Those([i \in DOMAIN doc.els |-> i],
        LAMBDA i : /\ i \notin doc.gone
                   /\ RoleOf(doc.els[i]) \in {"textbox", "button", "link", "heading", "img"}
                   /\ ~IsHidden(doc.els[i]))

OnlyOurs(text) == Stripped(text, {"theirs"})

Atom(text) == [text |-> OnlyOurs(text), redacted |-> Redacted(OnlyOurs(text))]
NoShot == <<>>
NoAtom == [text |-> Absent, redacted |-> FALSE]

-----------------------------------------------------------------------------
FirstKnown(texts) ==
    LET known == {n \in DOMAIN texts : texts[n] # Absent}
    IN IF known = {} THEN Absent ELSE texts[CHOOSE n \in known : \A m \in known : n <= m]

(* The heading, or failing that the link, of the nearest card around an      *)
(* element; any small container lends the name of a link in it.              *)

FirstNamed(doc, box, roles) ==
    FirstKnown([j \in DOMAIN doc.els |->
        IF Present(doc, j) /\ Under(doc.els, box, j) /\ RoleOf(doc.els[j]) \in roles
        THEN AccessibleName(doc.els, doc.gone, j) ELSE Absent])

IsContainer(el) == el.tag = "section"

NearbyGroupName(doc, i) ==
    FirstKnown(FlattenSeq([n \in DOMAIN Ancestors(doc.els, i) |->
        LET box == Ancestors(doc.els, i)[n]
        IN << IF IsContainer(doc.els[box]) THEN FirstNamed(doc, box, {"heading"}) ELSE Absent,
              FirstNamed(doc, box, {"link"}) >>]))

Blanked(text) ==
    [n \in DOMAIN text |-> IF n \in Held(text, {"ours", "theirs"}) THEN Plain ELSE text[n]]

(* The attributes that are sent: none that repeats the name, none in which   *)
(* any pattern, of whatever confidence, finds something.                     *)
SafeAttrs(el, name) ==
    IF el.label = Absent \/ el.label = name \/ OnlyOurs(el.label) = <<>>
       \/ ScanText(Blanked(OnlyOurs(el.label)), 0) # <<>>
    THEN <<>> ELSE << Atom(el.label) >>

-----------------------------------------------------------------------------
(* The containers of the kept elements, each once and after its parents.     *)

Containers(doc, kept) ==
    Those([i \in DOMAIN doc.els |-> i],
        LAMBDA i : IsContainer(doc.els[i]) /\ \E k \in DOMAIN kept : Under(doc.els, i, kept[k].at))

NearestContainer(doc, order, i) ==
    LET around == Those(Ancestors(doc.els, i), LAMBDA j : j \in ToSet(order))
    IN IF around = <<>> THEN 0 ELSE CHOOSE n \in DOMAIN order : order[n] = around[1]

-----------------------------------------------------------------------------
(* How the content script finds a named element again in the live page: by   *)
(* its id when it is the first with it, by its name when no other element of *)
(* its tag has it, and by its place otherwise.                               *)

ById(doc, i) ==
    /\ doc.els[i].id # None
    /\ \A j \in 1..(i - 1) : Present(doc, j) => doc.els[j].id # doc.els[i].id

(* Mutant: a name that another element has too.                              *)
HasName(doc, i) == doc.els[i].name # None

ByName(doc, i) ==
    /\ doc.els[i].name # None
    /\ \A j \in DOMAIN doc.els \ {i} :
          ~(Present(doc, j) /\ doc.els[j].tag = doc.els[i].tag /\ doc.els[j].name = doc.els[i].name)

RobustRefSelector(doc, i) ==
    LET el == doc.els[i]
    IN CASE ById(doc, i) -> [by |-> "id", tag |-> el.tag, key |-> el.id, at |-> 0]
         [] ~ById(doc, i) /\ ByName(doc, i) -> [by |-> "name", tag |-> el.tag, key |-> el.name, at |-> 0]
         [] OTHER -> [by |-> "path", tag |-> el.tag, key |-> None, at |-> i]

(* querySelector on the page as it is live.                                  *)
ResolveSelector(page, s) ==
    LET hits == {i \in DOMAIN page :
            CASE s.by = "id" -> page[i].tag = s.tag /\ page[i].id = s.key
              [] s.by = "name" -> page[i].tag = s.tag /\ page[i].name = s.key
              [] OTHER -> i = s.at}
    IN IF hits = {} THEN 0 ELSE CHOOSE i \in hits : \A j \in hits : i <= j

-----------------------------------------------------------------------------
(* The context of a step.                                                    *)

AtomOrNone(text) == IF text = Absent THEN NoAtom ELSE Atom(text)

Named(doc, detections, n, i, name, group) ==
    [ref |-> n, at |-> i, role |-> RoleOf(doc.els[i]),
     name |-> AtomOrNone(name), groupName |-> AtomOrNone(group),
     value |-> IF doc.els[i].tag \in {"input", "textarea"} THEN Atom(ControlValue(doc.els[i])) ELSE NoAtom,
     attrs |-> SafeAttrs(doc.els[i], name),
     isSensitive |-> \E d \in ToSet(detections) : d.at = i,
     selector |-> RobustRefSelector(doc, i),
     container |-> 0]

Element(doc, detections, n, i) ==
    Named(doc, detections, n, i, AccessibleName(doc.els, doc.gone, i), NearbyGroupName(doc, i))

ExtractPage(doc, detections) ==
    LET at == Interesting(doc)
    IN [n \in DOMAIN at |-> Element(doc, detections, n, at[n])]

(* Text as it stands, which no redaction is claimed of.                      *)
Raw(text) == [text |-> text, redacted |-> FALSE]

TitleText(doc) ==
    FirstKnown([j \in DOMAIN doc.els |->
        IF Present(doc, j) /\ doc.els[j].tag = "title" THEN doc.els[j].text ELSE Absent])

(* earlier: the names and notes of the history and the questions asked, as   *)
(* the steps before left them.                                               *)
Assembled(doc, kept, order, screenshot, earlier, analysis) ==
    [title |-> Raw(OnlyOurs(TitleText(doc))),
     earlier |-> earlier,
     analysis |-> analysis,
     elements |-> [n \in DOMAIN kept |-> [kept[n] EXCEPT !.container = NearestContainer(doc, order, kept[n].at)]],
     containers |-> [n \in DOMAIN order |->
         [attrs |-> SafeAttrs(doc.els[order[n]], Absent),
          parent |-> NearestContainer(doc, order, order[n])]],
     screenshot |-> screenshot]

(* The first most elements are kept: ElementBudget says which in the code.   *)
Budgeted(all, most) == SubSeq(all, 1, LeastOf(most, Len(all)))

Pruned(doc, kept, screenshot, earlier, analysis) ==
    Assembled(doc, kept, Containers(doc, kept), screenshot, earlier, analysis)

BuildSanitizedContext(redaction, screenshot, earlier, most, analysis) ==
    Pruned(redaction.doc, Budgeted(ExtractPage(redaction.doc, redaction.detections), most),
           screenshot, earlier, analysis)

-----------------------------------------------------------------------------
(* The gates.                                                                *)

(* Mutant: the names the page gives its elements are not looked at.          *)
FieldsWithoutNames(context) ==
    << context.title >>
        \o FlattenSeq([n \in DOMAIN context.elements |->
               << context.elements[n].value >> \o context.elements[n].attrs])

Label(column) == [text |-> column.label, redacted |-> Redacted(column.label)]

OutboundTextFields(context) ==
    << context.title >>
        \o FlattenSeq([n \in DOMAIN context.elements |->
               << context.elements[n].name, context.elements[n].groupName, context.elements[n].value >>
                   \o context.elements[n].attrs])
        \o FlattenSeq([n \in DOMAIN context.containers |-> context.containers[n].attrs])
        \o [n \in DOMAIN context.analysis.columns |-> Label(context.analysis.columns[n])]
        \o [n \in DOMAIN context.earlier |-> Raw(context.earlier[n])]

(* redaction/egress.ts: no field may hold what the redactor should have taken.*)
VerifyOutboundRedaction(context) ==
    \A atom \in ToSet(OutboundTextFields(context)) : ScanText(Blanked(atom.text), MinConfidence) = <<>>

(* contracts/egress.ts: no foreign placeholder, no picture with ops missing. *)
InspectPlaceholders(context) ==
    \A atom \in ToSet(OutboundTextFields(context)) : Held(atom.text, {"theirs"}) = {}

InspectScreenshot(screenshot) == screenshot = NoShot \/ ~Unverified(screenshot)

InspectOutboundContext(context) ==
    InspectPlaceholders(context) /\ InspectScreenshot(context.screenshot)
=============================================================================
