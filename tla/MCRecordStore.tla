---------------------------- MODULE MCRecordStore ----------------------------
(* RecordStore for TLC: two cards of one creator, who changes nickname, with   *)
(* a tag that has two names; the sheets are right, or wrong in one or several  *)
(* fields; update times 1 to 3, of which 2 and 3 are in one second.         *)
EXTENDS RecordStore

CONSTANTS u1, u2

MCUrls == {u1, u2}
MCSlugs == {1, 2}

Meta(creator, nick, title, update, book, names) ==
  [creator |-> creator, nick |-> nick, title |-> title, update |-> update, book |-> book,
   greetings |-> 1, names |-> names]

Sheet(nick, title, modified, greetings, book, complete, text) ==
  [creator |-> nick, title |-> title, modified |-> modified, tags |-> <<>>,
   greetings |-> greetings, book |-> book, complete |-> complete, text |-> text]

Fetch(m, s) == [metadata |-> m, sheet |-> s]

NoTags == [s \in {} |-> "x"]

MCFetched == [u \in MCUrls |->
  IF u = u1
  THEN {Fetch(Meta("c1", "n1", "a", 1, 3, 1 :> "x" @@ 2 :> "x"), Sheet("n1", "b", 1, 0, FALSE, TRUE, "old")),
        Fetch(Meta("c1", "n1", "a", 2, 0, 1 :> "x"), Sheet("n1", "a", 1, 1, TRUE, TRUE, "new"))}
  ELSE {Fetch(Meta("c1", "n2", "a", 2, 0, 1 :> "y"), Sheet("n2", "a", 1, 1, FALSE, FALSE, "old")),
        Fetch(Meta("c2", "n1", "b", 2, 0, NoTags), Sheet("n1", "b", 1, 1, FALSE, TRUE, "new"))}]
==============================================================================
