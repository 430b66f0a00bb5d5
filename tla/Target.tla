--------------------------------- MODULE Target ---------------------------------
(***************************************************************************)
(* contracts/target.ts and agent-server/validate-action.ts of src/src:     *)
(* which of the sent elements a reply's target means, and whether the      *)
(* action may be executed.  An element's value is what is known of it:     *)
(* empty when it was redacted or cut.                                      *)
(*                                                                         *)
(* A target is a record of some of the keys tag, role, attr, label, text,  *)
(* within; attr stands for the keys compared with one attribute (id, name, *)
(* type, placeholder, href) and is a record of such attributes.  The sent   *)
(* elements are a set, in the order of their refs.                         *)
(***************************************************************************)
EXTENDS Ambiguity, Functions

CONSTANTS
    Short,           \* a placeholder with its ordinal and nonce -> its short form
    MaxTypeWords,    \* maxTypeChars
    MaxScroll, MaxWait

ASSUME LimitAssumption == {MaxTypeWords, MaxScroll, MaxWait} \subseteq Nat

(* A copied text may end in the ellipsis the page was shown with, and holds  *)
(* the short form of a placeholder.                                          *)
NormTarget(text) ==
    LET cut == IF text # <<>> /\ Last(text) = "..." THEN Front(text) ELSE text
    IN [i \in DOMAIN cut |-> IF cut[i] \in DOMAIN Short THEN Short[cut[i]] ELSE cut[i]]

Typeable == {"textbox", "searchbox", "combobox", "spinbutton"}

(* The attribute an element is compared by; an input without a type is text. *)
AttrOf(e, key) ==
    IF key \in DOMAIN e.attrs THEN e.attrs[key]
    ELSE IF key = "type" /\ e.tag = "input" THEN <<"text">> ELSE <<>>

MatchesAttributes(e, t) ==
    /\ "tag" \in DOMAIN t => e.tag = t.tag
    /\ "role" \in DOMAIN t => e.role = t.role
    /\ "attr" \in DOMAIN t => \A key \in DOMAIN t.attr : NormTarget(AttrOf(e, key)) = NormTarget(t.attr[key])
    /\ "label" \in DOMAIN t =>
         NormTarget(t.label) \in {NormTarget(AttrOf(e, "aria-label")), NormTarget(e.name)}

(* The containers around an element, the nearest first.                      *)
ContainerChain(e, containers) ==
    LET chain[k \in 0..Len(containers)] == IF k = 0 THEN <<>> ELSE <<k>> \o chain[containers[k].parent]
    IN chain[e.container]

(* What is written in a container: its own texts and its elements' names.    *)
TextsUnder(k, elements, containers) ==
    LET inside == {e \in elements : Contains(ContainerChain(e, containers), k)}
    IN {NormTarget(x) : x \in containers[k].texts \cup
                                UNION {{e.name, AttrOf(e, "aria-label")} : e \in inside}} \ {<<>>}

(* The region of its own an element has: the outermost container that holds  *)
(* no other element of the pool, with the element's group.                   *)
OwnRegion(e, pool, elements, containers) ==
    LET alone(k) == \A d \in pool \ {e} : ~Contains(ContainerChain(d, containers), k)
        own == SelectSeq(ContainerChain(e, containers), alone)
    IN IF own = <<>> THEN {} ELSE TextsUnder(Last(own), elements, containers)

(* A text given with gaps matches a name that holds each of its pieces.      *)
Pieces(text) ==
    LET Step(acc, w) == IF w = "..." THEN Append(acc, <<>>)
                        ELSE [acc EXCEPT ![Len(acc)] = Append(@, w)]
    IN SelectSeq(FoldLeft(Step, <<<<>>>>, text), LAMBDA p : p # <<>>)

HoldsAll(text, pieces) == Len(pieces) > 1 /\ \A i \in DOMAIN pieces : Holds(text, pieces[i])

Given(t, key) == key \in DOMAIN t /\ NormTarget(t[key]) # <<>>

(* Exact matches if there are any, else the partial ones.                    *)
Closest(exact, partial) == IF exact # {} THEN exact ELSE partial

ByText(pool, t) ==
    LET want == NormTarget(t.text)
    IN Closest({e \in pool : NormTarget(e.name) = want},
               {e \in pool :
                   /\ e.name # <<>>
                   /\ \/ Holds(NormTarget(e.name), want)
                      \/ Contains(want, "...") /\ HoldsAll(NormTarget(e.name), Pieces(want))})

ByRegion(pool, t, elements, containers) ==
    LET want == NormTarget(t.within)
        texts(e) == OwnRegion(e, pool, elements, containers) \cup ({NormTarget(e.group)} \ {<<>>})
    IN Closest({e \in pool : want \in texts(e)},
               {e \in pool : \E x \in texts(e) : Holds(x, want)})

(* Every element the target can mean.                                        *)
Meant(t, elements, containers) ==
    LET byText(pool) == IF Given(t, "text") THEN ByText(pool, t) ELSE pool
        byRegion(pool) == IF Given(t, "within") THEN ByRegion(pool, t, elements, containers) ELSE pool
    IN byRegion(byText({e \in elements : MatchesAttributes(e, t)}))

SameLink(pool) ==
    /\ \A e \in pool : e.tag = "a" /\ AttrOf(e, "href") # <<>>
    /\ \A d, e \in pool : AttrOf(d, "href") = AttrOf(e, "href")

FirstRef(pool) == Min({e.ref : e \in pool})

(* Mutant: of several elements the first is taken.                           *)
FirstMeant(pool) ==
    IF pool = {} THEN [code |-> "no-such-target", ref |-> 0] ELSE [code |-> "ok", ref |-> FirstRef(pool)]

(* One element, or several links to one place; nothing is guessed.           *)
TheOneMeant(pool) ==
    IF pool = {} THEN [code |-> "no-such-target", ref |-> 0]
    ELSE IF (\E e \in pool : pool = {e}) \/ SameLink(pool) THEN [code |-> "ok", ref |-> FirstRef(pool)]
    ELSE [code |-> "ambiguous-target", ref |-> 0]

ResolveTarget(t, elements, containers) == TheOneMeant(Meant(t, elements, containers))

-----------------------------------------------------------------------------
Addressing == {"click", "type", "select"}

(* The verdict on an action whose element is known.                          *)
VerdictOn(action, ref, context, allowedOrigins) ==
    LET found == {e \in context.elements : e.ref = ref}
        e == CHOOSE e \in found : TRUE
    IN IF action.type \in Addressing /\ found = {} THEN "unknown-ref" ELSE
       CASE action.type = "type" ->
              IF e.sensitive THEN "sensitive-target"
              ELSE IF e.role \notin Typeable THEN "not-typeable"
              ELSE IF Len(action.text) > MaxTypeWords THEN "text-too-long"
              ELSE IF ~action.submit /\ e.value = action.text /\ action.text # <<>> THEN "already-typed"
              ELSE "ok"
         [] action.type = "navigate" ->
              IF ~action.url.web THEN "bad-url"
              ELSE IF action.url.origin \notin allowedOrigins THEN "origin-not-allowed" ELSE "ok"
         [] action.type = "scroll" -> IF action.amountPx > MaxScroll THEN "scroll-too-far" ELSE "ok"
         [] action.type = "wait" -> IF action.ms > MaxWait THEN "wait-too-long" ELSE "ok"
         [] action.type = "ask_user" -> IF action.credential THEN "asks-for-credential" ELSE "ok"
         [] OTHER -> "ok"

(* A target is resolved against what was sent; a ref is taken as it is.      *)
ValidateAction(action, context, allowedOrigins) ==
    LET addressed == action.type \in Addressing
        judged(found) ==
            [ref |-> found.ref,
             code |-> IF found.code # "ok" THEN found.code
                      ELSE VerdictOn(action, found.ref, context, allowedOrigins)]
    IN judged(IF addressed /\ "target" \in DOMAIN action
              THEN ResolveTarget(action.target, context.elements, context.containers)
              ELSE [code |-> "ok", ref |-> IF addressed THEN action.ref ELSE 0])
=============================================================================
