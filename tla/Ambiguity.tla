------------------------------- MODULE Ambiguity -------------------------------
(***************************************************************************)
(* contracts/ambiguity.ts of src/src: does the goal pick between the       *)
(* page's elements, which question settles it, and what an answer removes. *)
(*                                                                         *)
(* A text is a sequence of words; a word that no comparison may use (too   *)
(* short, or a stop word) is in Stopwords.  An element is a record with at *)
(* least a role and a name, the empty sequence when it has none.           *)
(***************************************************************************)
EXTENDS Selection, FiniteSets

CONSTANTS
    Stopwords,        \* words of two letters or less, and STOPWORDS
    MaxCandidates     \* DEFAULT_MAX

ASSUME AmbiguityAssumption == MaxCandidates \in Nat \ {0, 1}

Actionable == {"button", "link", "textbox", "searchbox", "combobox", "checkbox", "radio", "listbox"}

Words(text) == SelectSeq(text, LAMBDA w : w \notin Stopwords)

Unique(s) == FoldLeft(LAMBDA seen, x : IF Contains(seen, x) THEN seen ELSE Append(seen, x), <<>>, s)

Holders(term, elements) == SelectSeq(elements, LAMBDA e : term \in ToSet(Words(e.name)))

(* The names of one role's elements, the best match of the goal only.        *)
GroupOf(role, goal, holders) ==
    LET terms == ToSet(Words(goal))
        hits(name) == Len(SelectSeq(Words(name), LAMBDA w : w \in terms))
        held == SelectSeq(holders, LAMBDA e : e.role = role)
        names == Unique([i \in DOMAIN held |-> held[i].name])
    IN SelectSeq(names, LAMBDA n : \A i \in DOMAIN names : hits(names[i]) <= hits(n))

(* Another word of the goal is held by exactly one of the names.             *)
Decisive(names, term, goal) ==
    \E w \in ToSet(Words(goal)) \ {term} :
        Len(SelectSeq(names, LAMBDA n : w \in ToSet(Words(n)))) = 1

(* The groups of a term, by role in the order its holders stand in.          *)
GroupsOf(term, goal, holders) ==
    LET roles == Unique([i \in DOMAIN holders |-> holders[i].role])
    IN [j \in DOMAIN roles |-> [term |-> term, names |-> GroupOf(roles[j], goal, holders)]]

Groups(terms, goal, pool) ==
    FlattenSeq([i \in DOMAIN terms |-> GroupsOf(terms[i], goal, Holders(terms[i], pool))])

IsChoice(g, goal) == Len(g.names) \in 2..MaxCandidates /\ ~Decisive(g.names, g.term, goal)

FirstOf(choices) == IF choices = <<>> THEN <<>> ELSE choices[1].names

(* The candidates of the first term and role whose group is a real choice;   *)
(* none when the goal names something no element of the page is called.      *)
ChoiceAmong(pool, goal) ==
    IF Words(goal) = <<>> \/ ~(ToSet(Words(goal)) \subseteq UNION {ToSet(Words(e.name)) : e \in ToSet(pool)})
    THEN <<>>
    ELSE FirstOf(SelectSeq(Groups(Words(goal), goal, pool), LAMBDA g : IsChoice(g, goal)))

DetectAmbiguity(goal, elements) ==
    ChoiceAmong(SelectSeq(elements, LAMBDA e : e.role \in Actionable), goal)

-----------------------------------------------------------------------------
(* How many leading words the texts share.                                   *)
CommonPrefix(texts) ==
    Cardinality({n \in 1..Len(texts[1]) :
        \A i \in DOMAIN texts : Len(texts[i]) >= n /\ SubSeq(texts[i], 1, n) = SubSeq(texts[1], 1, n)})

(* What the user is asked: the options without the words they share, which   *)
(* are said once after them; at least one word of each option stays.         *)
ComposeQuestion(names) ==
    LET shortest == CHOOSE n \in {Len(x) : x \in ToSet(names)} : \A x \in ToSet(names) : n <= Len(x)
        min(a, b) == IF a < b THEN a ELSE b
        pre == min(CommonPrefix(names), shortest - 1)
        suf == min(CommonPrefix([i \in DOMAIN names |-> Reverse(names[i])]), shortest - 1 - pre)
        option(n) == SubSeq(n, pre + 1, Len(n) - suf)
        shared == SubSeq(names[1], 1, pre) \o SubSeq(names[1], Len(names[1]) - suf + 1, Len(names[1]))
    IN FoldLeft(LAMBDA said, n : IF said = <<>> THEN option(n) ELSE said \o <<"or">> \o option(n),
                <<>>, names) \o shared

Holds(text, part) ==
    \E i \in 0..Len(text) - Len(part) : SubSeq(text, i + 1, i + Len(part)) = part

(* The elements whose whole name a question quotes.                          *)
FindGroup(elements, question) ==
    LET names == Unique([i \in DOMAIN elements |-> elements[i].name])
        quoted == SelectSeq(names, LAMBDA n : n # <<>> /\ Holds(question, n))
    IN IF Len(quoted) \in 2..MaxCandidates THEN quoted ELSE <<>>

(* Mutant: any word of a candidate in the answer keeps it.                   *)
ChosenByAnyWord(names, answer) ==
    {n \in ToSet(names) : ToSet(Words(n)) \cap ToSet(Words(answer)) # {}}

(* The candidates an answer speaks of: by a word they do not all have.       *)
Chosen(names, answer) ==
    {n \in ToSet(names) : \E w \in ToSet(Words(n)) \cap ToSet(Words(answer)) :
                             \E m \in ToSet(names) : w \notin ToSet(Words(m))}

Without(elements, names, kept) ==
    IF kept = {} THEN elements
    ELSE Those(elements, LAMBDA e : e.name \notin ToSet(names) \ kept)

AskedAgain(elements, names, question) == IF names # <<>> THEN names ELSE FindGroup(elements, question)

KeepChosen(elements, names, answer) ==
    IF names = <<>> \/ Words(answer) = <<>> THEN elements
    ELSE Without(elements, names, Chosen(names, answer))

(* One clarification: the group is found again from the goal, else from the  *)
(* question; an answer that speaks of none, or of all, removes nothing.      *)
NarrowOnce(elements, said, goal) ==
    KeepChosen(elements, AskedAgain(elements, DetectAmbiguity(goal, elements), said.question), said.answer)

(* What is left of the elements after every answer, in order.                *)
NarrowByClarification(elements, clarifications, goal) ==
    FoldLeft(LAMBDA current, said : NarrowOnce(current, said, goal), elements, clarifications)
=============================================================================
