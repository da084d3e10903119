----------------------------- MODULE MCEntStore ------------------------------
(* EntStore for TLC: card u1 with a sheet to repair and a newer version without *)
(* a tag, and card u2, whose second version has the character id of u1; ids of *)
(* three records, and filters of every kind.                                   *)
EXTENDS EntStore

CONSTANTS u1, u2

MCUrls == {u1, u2}
MCSlugs == {1, 2}

Key(u, platform, character) ==
  [source |-> "site", normalized_url |-> u, platform_id |-> platform, character_id |-> character]

Meta(creator, nick, update, names) ==
  [creator |-> creator, nick |-> nick, title |-> "a", update |-> update, book |-> 0,
   greetings |-> 1, names |-> names]

Sheet(nick, modified, text) ==
  [creator |-> nick, title |-> "a", modified |-> modified, tags |-> <<>>, greetings |-> 1,
   book |-> FALSE, complete |-> TRUE, text |-> text]

Fetch(k, m, s) == [key |-> k, metadata |-> m, sheet |-> s]

MCFetched == [u \in MCUrls |->
  IF u = u1
  THEN {Fetch(Key(u1, "p1", "i1"), Meta("c1", "n1", 1, 1 :> "x" @@ 2 :> "y"), Sheet("n2", 1, "old")),
        Fetch(Key(u1, "p1", "i1"), Meta("c1", "n2", 2, 1 :> "x"), Sheet("n2", 1, "new"))}
  ELSE {Fetch(Key(u2, "p2", "i2"), Meta("c2", "n1", 1, 1 :> "y"), Sheet("n1", 1, "old")),
        Fetch(Key(u2, "p2", "i1"), Meta("c1", "n1", 2, 2 :> "x"), Sheet("n1", 1, "new"))}]

MCWords == [text \in {"old", "new"} |-> [field \in {"description", "scenario"} |->
  CASE text = "old" /\ field = "description" -> {"cat", "dog"}
    [] text = "old" /\ field = "scenario"    -> {"cat"}
    [] text = "new" /\ field = "description" -> {"dog"}
    [] text = "new" /\ field = "scenario"    -> {}]]

Occurrence(whole, exact) == [whole |-> whole, exact |-> exact]

MCOccurs == [kind \in {"literal", "pattern"} |-> [value \in {"v"} |-> [string \in {"a", "n1", "n2"} |->
  CASE string = "n1" /\ kind = "literal" -> {Occurrence(TRUE, FALSE), Occurrence(FALSE, TRUE)}
    [] string = "n2" /\ kind = "pattern" -> {Occurrence(TRUE, TRUE)}
    [] string = "a" -> {Occurrence(FALSE, FALSE)}
    [] OTHER -> {}]]]

All == [texts |-> {}, booleans |-> {}, sources |-> {}, statuses |-> {}, contents |-> {},
        tags |-> [names |-> {}, mode |-> "ALL"], sorts |-> <<>>]

Text(field, regex, wholeWord, caseSensitive) ==
  [All EXCEPT !.texts = {[field |-> field, value |-> "v", regex |-> regex, wholeWord |-> wholeWord,
                          caseSensitive |-> caseSensitive]}]

Content(fieldMode, valueMode, values) ==
  [All EXCEPT !.contents = {[fields |-> {"description", "scenario"}, fieldMode |-> fieldMode,
                             valueMode |-> valueMode, values |-> values]}]

SortBy(field, descending) == [field |-> field, descending |-> descending]

MCFilters ==
  {Text(field, regex, TRUE, sensitive) : field \in {"title", "nickname"}, regex, sensitive \in BOOLEAN}
  \cup {Text(field, FALSE, FALSE, FALSE) : field \in {"title", "nickname"}}
  \cup {[All EXCEPT !.booleans = {[field |-> field, value |-> TRUE]}] : field \in {"favorite", "has_book"}}
  \cup {[All EXCEPT !.sources = {"site"}, !.sorts = <<SortBy("title", FALSE), SortBy("import", TRUE), SortBy("update_time", FALSE)>>]}
  \cup {[All EXCEPT !.statuses = {"FAILED"}]}
  \cup {Content(fm, vm, {"cat", "dog"}) : fm, vm \in Modes} \cup {Content("ANY", "ANY", {})}
  \cup {[All EXCEPT !.tags = [names |-> names, mode |-> mode]] : names \in {{"x"}, {"x", "y"}}, mode \in Modes}

\* The default, one by the character, and one that an import does not take.
MCTemplates == {[tokens |-> <<"SOURCE", "PLATFORM_ID">>, png |-> TRUE],
                [tokens |-> <<"TITLE", "SOURCE", "CHARACTER_ID">>, png |-> TRUE],
                [tokens |-> <<"C_USERNAME", "C_NICKNAME", "UPDATE_TIME">>, png |-> FALSE]}
==============================================================================
