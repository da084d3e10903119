----------------------------- MODULE EntQueries ------------------------------
(***************************************************************************)
(* What the store reads, through the generated queries of package ent.  A  *)
(* predicate is the set of rows it selects in a database; several in Where *)
(* are joined by AND.                                                      *)
(***************************************************************************)
EXTENDS EntBuilders

CONSTANTS
  Fields, Values,   \* content fields of a card and what is searched for
  Words,            \* Words[text][field]: the values that the tokens of the field contain
  Occurs            \* Occurs[kind][value][string]: the places where value, taken as a "literal"
                    \* or as a "pattern", occurs in a title or nickname, each as
                    \* [whole |-> between word boundaries, exact |-> in the same case]

----------------------------------------------------------------------------
(* Predicates *)

IDIn(db, rids) == Records(db) \cap rids

NormalizedURLIn(db, urls) == {r \in Records(db) : db.records[r].normalized_url \in urls}

FavoriteEQ(db, v) == {r \in Records(db) : db.records[r].favorite = v}

BookUpdateTimeEQ(db, v) == {r \in Records(db) : db.records[r].book_update_time = v}
BookUpdateTimeNEQ(db, v) == {r \in Records(db) : db.records[r].book_update_time # v}

SourceIn(db, sources) == {r \in Records(db) : db.records[r].source \in sources}

SyncStatusIn(db, statuses) == {r \in Records(db) : db.records[r].sync_status \in statuses}

TitleContainsFold(db, v) == {r \in Records(db) : Occurs["literal"][v][db.records[r].title] # {}}
NicknameContainsFold(db, v) == {c \in CreatorRows(db) : Occurs["literal"][v][db.creators[c]] # {}}

\* The SQL function REGEXP, which is Go's regexp.MatchString.
MatchString(pattern, string) ==
  \E o \in Occurs[pattern.kind][pattern.value][string] :
    (pattern.boundaries => o.whole) /\ (pattern.insensitive \/ o.exact)

TitleRegex(db, pattern) == {r \in Records(db) : MatchString(pattern, db.records[r].title)}
NicknameRegex(db, pattern) == {c \in CreatorRows(db) : MatchString(pattern, db.creators[c])}

NameIn(db, names) == {s \in TagRows(db) : db.tags[s] \in names}

\* Rows with an edge to one of the tags, or to one of the creators.
HasTagsWith(db, tids) == {r \in Records(db) : \E s \in tids : <<r, s>> \in db.record_tags}
HasCreatorWith(db, cids) == {r \in Records(db) : db.records[r].creator_id \in cids}

HasRecords(db) == {c \in CreatorRows(db) : \E r \in Records(db) : db.records[r].creator_id = c}

And(db, predicates) == {r \in Records(db) : \A p \in predicates : r \in p}

\* Rows of fts that match the expression: ands and ors of "field: value".
FtsMatch(db, expression) ==
  LET Term(row, field, value) == value \in Words[row.text][field]
      Field(row, field) == IF expression.allValues
                           THEN \A v \in expression.values : Term(row, field, v)
                           ELSE \E v \in expression.values : Term(row, field, v)
      matching == {row \in db.fts : IF expression.allFields
                                    THEN \A f \in expression.fields : Field(row, f)
                                    ELSE \E f \in expression.fields : Field(row, f)}
  IN  {r \in Records(db) : \E row \in matching : row.id = r}

----------------------------------------------------------------------------
(* Filters *)

Modes == {"ALL", "ANY"}

TextFilters == [field : {"title", "nickname"}, value : DOMAIN Occurs["literal"],
                regex : BOOLEAN, wholeWord : BOOLEAN, caseSensitive : BOOLEAN]

SortFilters == [field : {"import", "update_time", "title"}, descending : BOOLEAN]

\* A filter has sets of text, boolean and content filters, and sources, statuses
\* and tag names, each of which filters nothing when it is empty; its sort
\* filters come one after the other.
ResourceFilters ==
  [texts : SUBSET TextFilters, booleans : SUBSET [field : {"favorite", "has_book"}, value : BOOLEAN],
   sorts : Seq(SortFilters), sources : SUBSET Sources, statuses : SUBSET SyncStatuses,
   contents : SUBSET [fieldMode : Modes, fields : SUBSET Fields, valueMode : Modes, values : SUBSET Values],
   tags : [names : SUBSET Names, mode : Modes]]

\* With any toggle on a regular expression is used, on the title or the nickname.
TextPredicate(db, tf) ==
  LET pattern == [kind |-> IF tf.regex THEN "pattern" ELSE "literal", value |-> tf.value,
                  boundaries |-> tf.wholeWord, insensitive |-> ~tf.caseSensitive]
      toggled == tf.caseSensitive \/ tf.regex \/ tf.wholeWord
  IN  IF tf.field = "title"
      THEN IF toggled THEN TitleRegex(db, pattern) ELSE TitleContainsFold(db, tf.value)
      ELSE HasCreatorWith(db, IF toggled THEN NicknameRegex(db, pattern) ELSE NicknameContainsFold(db, tf.value))

BooleanPredicate(db, bf) ==
  CASE bf.field = "favorite" -> FavoriteEQ(db, bf.value)
    [] bf.field = "has_book" -> IF bf.value THEN BookUpdateTimeNEQ(db, 0) ELSE BookUpdateTimeEQ(db, 0)

\* [mutant] one tag has all the names.
TagPredicateOfOne(db, tf) ==
  IF tf.mode = "ANY" THEN HasTagsWith(db, NameIn(db, tf.names))
  ELSE HasTagsWith(db, {s \in TagRows(db) : \A name \in tf.names : db.tags[s] = name})

TagPredicate(db, tf) ==
  IF tf.mode = "ANY" THEN HasTagsWith(db, NameIn(db, tf.names))
  ELSE And(db, {HasTagsWith(db, NameIn(db, {name})) : name \in tf.names})

ContentPredicate(db, cf) ==
  FtsMatch(db, [fields |-> cf.fields, values |-> cf.values,
                allFields |-> cf.fieldMode = "ALL", allValues |-> cf.valueMode = "ALL"])

\* The predicates that a filter adds to the query.
ApplyFilter(db, f) ==
  {TextPredicate(db, tf) : tf \in f.texts}
  \cup {BooleanPredicate(db, bf) : bf \in f.booleans}
  \cup (IF f.sources = {} THEN {} ELSE {SourceIn(db, f.sources)})
  \cup (IF f.statuses = {} THEN {} ELSE {SyncStatusIn(db, f.statuses)})
  \cup {ContentPredicate(db, cf) : cf \in {c \in f.contents : c.values # {} /\ c.fields # {}}}
  \cup (IF f.tags.names = {} THEN {} ELSE {TagPredicate(db, f.tags)})

----------------------------------------------------------------------------
(* Reading *)

\* A query of table records: the rows that all of its predicates select.
Query(predicates, sorts, offset, limit) ==
  [where |-> predicates, sorts |-> sorts, offset |-> offset, limit |-> limit]

\* The columns that a result is sorted by; the import time breaks its ties by the
\* index, which is part of it here, and other columns do not sort.
Sortable == {"import", "update_time"}

Asc(db, field, a, b) == db.records[a][field] < db.records[b][field]
Desc(db, field, a, b) == db.records[a][field] > db.records[b][field]

\* The order of two rows by one sort filter.
SortsBefore(db, sort, a, b) ==
  /\ sort.field \in Sortable
  /\ IF sort.descending THEN Desc(db, sort.field, a, b) ELSE Asc(db, sort.field, a, b)

\* The orders that the database may give rows in: by the first sort filter that
\* tells two of them apart, and otherwise as they come.
OrderedRows(db, rids, sorts) ==
  LET Before(a, b) == \E i \in DOMAIN sorts :
        /\ SortsBefore(db, sorts[i], a, b)
        /\ \A j \in 1 .. i - 1 : ~SortsBefore(db, sorts[j], b, a)
  IN  {ids \in SetToSeqs(rids) : \A i, j \in DOMAIN ids : i < j => ~Before(ids[j], ids[i])}

\* OFFSET and LIMIT; a negative limit is none.
Page(ids, offset, limit) ==
  SubSeq(ids, offset + 1, IF limit < 0 \/ offset + limit > Len(ids) THEN Len(ids) ELSE offset + limit)

\* The ids of a query's rows, in each order that is possible.
IDs(db, q) == {Page(ids, q.offset, q.limit) : ids \in OrderedRows(db, And(db, q.where), q.sorts)}

CountRows(db, q) == Cardinality(And(db, q.where))

\* The row of a record, a tag or a creator as it is scanned.
AssignRecord(db, r) == [id |-> r, columns |-> db.records[r]]
AssignTag(db, s) == [id |-> s, name |-> db.tags[s]]
AssignCreator(db, c) == [id |-> c, nickname |-> db.creators[c]]

\* The queries of tags and creators: All of the rows with those ids, of tags in
\* the order of their ids: before the i-th there are i - 1 smaller ones.
AllTags(db, slugs) ==
  LET rows == TagRows(db) \cap slugs
  IN  [i \in 1 .. Cardinality(rows) |->
         AssignTag(db, CHOOSE s \in rows : Cardinality({t \in rows : t < s}) = i - 1)]

AllCreators(db, cids) == {AssignCreator(db, c) : c \in CreatorRows(db) \cap cids}

\* WithTags: the tags joined with record_tags.
LoadTags(db, r) == AllTags(db, {s \in Slugs : <<r, s>> \in db.record_tags})

\* WithCreator: the creator with the id that is in the row, if there is one.
LoadCreator(db, r) ==
  LET found == AllCreators(db, {db.records[r].creator_id})
  IN  IF found = {} THEN None ELSE CHOOSE c \in found : TRUE

\* An entity with its edges.
Entity(db, r) ==
  LET row == AssignRecord(db, r)
  IN  [id |-> row.id, columns |-> row.columns, tags |-> LoadTags(db, r), creator |-> LoadCreator(db, r)]

\* All, of a query in no order.
AllRows(db, q) == {Entity(db, r) : r \in And(db, q.where)}

\* First, of a query that finds at most one row; None is the error NotFound.
FirstRow(db, q) == IF And(db, q.where) = {} THEN None ELSE CHOOSE e \in AllRows(db, q) : TRUE

----------------------------------------------------------------------------
(* Reads of the store *)

FindPagedRIDs(db, f, offset, limit) == IDs(db, Query(ApplyFilter(db, f), f.sorts, offset, limit))

Count(db, f) == CountRows(db, Query(ApplyFilter(db, f), f.sorts, 0, -1))

FindURLs(db, urls) == {db.records[r].normalized_url : r \in NormalizedURLIn(db, urls)}

FindRecords(db, rids) == AllRows(db, Query({IDIn(db, rids)}, <<>>, 0, -1))

FindRecord(db, r) == FirstRow(db, Query({IDIn(db, {r})}, <<>>, 0, 1))
=============================================================================
