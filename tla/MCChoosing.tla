------------------------------- MODULE MCChoosing -------------------------------
(* An instance of Choosing for TLC: a shop, the same shop with more products,*)
(* a shelf of three of which two share a word, a page of regions and links,  *)
(* and a form with redacted names.                                           *)
EXTENDS Choosing, TLC

El(role, tag, name, container, path) ==
    [ref |-> 0, role |-> role, tag |-> tag, name |-> name, shown |-> name, group |-> <<>>,
     attrs |-> <<>>, value |-> <<>>, rect |-> <<>>, states |-> {}, sensitive |-> FALSE,
     redacted |-> FALSE, cut |-> FALSE, container |-> container, path |-> path]

Button(name, container, path) == El("button", "button", name, container, path)
Link(name, href, container, path) == [El("link", "a", name, container, path) EXCEPT !.attrs = [href |-> href]]
Box(x, y) == [x |-> x, y |-> y, w |-> 1, h |-> 1]

Pro    == Button(<<"add", "pro", "laptop">>, 0, "a")
Gaming == Button(<<"add", "gaming", "laptop">>, 0, "b")
Search == [El("searchbox", "input", <<"search">>, 0, "s") EXCEPT !.rect = Box(0, 0)]

(* A button without a name, which has one in the bigger shop; that has two   *)
(* fields with one path.                                                     *)
Icon == [Button(<<>>, 0, "i") EXCEPT !.attrs = [id |-> <<"x">>]]

Shop     == [elements |-> <<Search, Pro, Gaming, Icon>>, containers |-> <<>>]
BiggerShop ==
    [elements |-> <<[Search EXCEPT !.value = <<"laptop">>], Link(<<"laptop">>, <<"all">>, 0, "n"),
                    [Icon EXCEPT !.name = <<"help">>, !.shown = <<"help">>], Pro,
                    [Gaming EXCEPT !.rect = Box(0, 1)], Button(<<"add", "used", "laptop">>, 0, "c"),
                    Button(<<"add", "old", "laptop">>, 0, "o"), [Search EXCEPT !.rect = Box(0, 1)]>>,
     containers |-> <<>>]

Shelf == [elements |-> <<Pro, Button(<<"add", "pro", "gaming", "laptop">>, 0, "b"), Button(<<"add", "used", "laptop">>, 0, "c")>>,
          containers |-> <<>>]

Region(parent, texts) == [parent |-> parent, texts |-> texts]
Regions ==
    [elements |-> <<El("heading", "h2", <<"pro">>, 2, "h"), Button(<<"add">>, 2, "a"),
                    Link(<<"more">>, <<"here">>, 2, "l"), [Button(<<"add">>, 4, "b") EXCEPT !.group = <<"gaming">>],
                    Link(<<"more">>, <<"here">>, 3, "m"), Button(<<"add">>, 1, "d")>>,
     containers |-> <<Region(0, {<<"products">>}), Region(1, {}), Region(1, {<<"gaming", "deal">>}), Region(3, {})>>]

(* The same regions the other way round, so that paths meet other elements,  *)
(* and one path leads to two.                                                *)
Turned ==
    [Regions EXCEPT !.elements = <<[@[1] EXCEPT !.name = <<"gaming">>, !.shown = <<"gaming">>],
                                   [@[6] EXCEPT !.path = "a"], [@[4] EXCEPT !.path = "a"],
                                   [@[3] EXCEPT !.path = "b"], @[5]>>]

Named(name, shown, path) ==
    [Button(name, 0, path) EXCEPT !.shown = shown, !.redacted = name # shown]
Form ==
    [elements |-> <<Named(<<"pay", "EMAIL-1">>, <<"pay", "ann">>, "p"),
                    Named(<<"pay", "EMAIL-2">>, <<"pay", "bob">>, "q"),
                    [Button(<<"pay", "the", "...">>, 0, "r") EXCEPT !.shown = <<"pay", "the", "rest">>, !.cut = TRUE],
                    [El("textbox", "input", <<"card">>, 0, "c") EXCEPT !.sensitive = TRUE],
                    [El("textbox", "input", <<"note">>, 0, "t") EXCEPT !.states = {"required"}],
                    El("combobox", "select", <<"pay", "by">>, 0, "y")>>,
     containers |-> <<>>]
MovedForm == [Form EXCEPT !.elements = [i \in 1..5 |-> IF i = 1 THEN [@[2] EXCEPT !.path = "p"] ELSE @[i + 1]]]

SomePages == <<Shop, BiggerShop, Shelf, Regions, Turned, Form, MovedForm>>
SomeGoals == {<<"add", "laptop">>, <<"add", "pro", "laptop">>, <<"search", "for", "laptop">>, <<"pay">>}
SomeSteps == [device |-> 3, server |-> 3, model |-> 1]
SomeAnswers == {<<"gaming">>, <<"laptop">>}
SomeSpellings == {{<<"12">>, <<"1,2">>}}
SomeShort == ("EMAIL-1" :> "EMAIL") @@ ("EMAIL-2" :> "EMAIL")

-----------------------------------------------------------------------------
T(t) == [t |-> t]
Says1(a, broken) == <<T("open"), [t |-> "action", action |-> a, bad |-> broken], T("close")>>
Click(target) == [type |-> "click", target |-> target]
Type(target, text, submit) == [type |-> "type", target |-> target, text |-> text, submit |-> submit]

Clicks == {[text |-> <<"add">>], [text |-> <<"add">>, within |-> <<"gaming">>],
           [text |-> <<"add">>, within |-> <<"pro">>], [text |-> <<"more">>], [tag |-> "button", text |-> <<"pay", "EMAIL">>],
           [label |-> <<"pay", "the", "...">>], [attr |-> [href |-> <<"all">>]], [attr |-> [id |-> <<"x">>]], [text |-> <<"pay", "...", "by">>],
           [role |-> "button"]}
Acts == {Click(t) : t \in Clicks}
          \cup {Type([role |-> "searchbox"], <<"laptop">>, FALSE), Type([text |-> <<"card">>], <<"pin">>, TRUE),
                Type([attr |-> [type |-> <<"text">>], text |-> <<"note">>], <<"a", "b", "c">>, TRUE), Type([text |-> <<"add">>], <<>>, TRUE), Type([text |-> <<"note">>], <<"12">>, FALSE),
                [type |-> "select", target |-> [tag |-> "select"], option |-> "x"],
                [type |-> "click", ref |-> 9], [type |-> "click", ref |-> 2], [type |-> "done"], [type |-> "abort"],
                [type |-> "navigate", url |-> [web |-> TRUE, origin |-> "shop"]],
                [type |-> "navigate", url |-> [web |-> TRUE, origin |-> "else"]],
                [type |-> "navigate", url |-> [web |-> FALSE, origin |-> "shop"]],
                [type |-> "scroll", amountPx |-> 1], [type |-> "scroll", amountPx |-> 9], [type |-> "wait", ms |-> 9],
                [type |-> "ask_user", credential |-> TRUE, question |-> <<"pin">>],
                [type |-> "ask_user", credential |-> FALSE, question |-> <<"add", "pro", "laptop", "or", "add", "gaming", "laptop">>]}

OneClick == Says1(Click([text |-> <<"add">>, within |-> <<"pro">>]), {})
SomeReplies ==
    {Says1(a, {}) : a \in Acts}
      \cup {<<>>, <<T("text")>>, OneClick \o OneClick, Says1(Click([text |-> <<"add">>]), {"address"}),
            Says1([type |-> "wait", ms |-> 0], {"ms"}), Says1([type |-> "scroll", amountPx |-> 0], {"amountPx"}),
            <<T("quote"), T("open"), T("escape"), T("quote"), T("quote")>> \o OneClick,
            <<T("open")>> \o OneClick \o <<T("close")>>,
            <<T("open"), [t |-> "named"], T("close")>>, <<T("open"), T("text"), T("close")>>, <<T("open"), T("close")>>}
=============================================================================
