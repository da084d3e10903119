----------------------------- MODULE RecordStore -----------------------------
(***************************************************************************)
(* A vault's records over time: imports and updates save what the website  *)
(* gives, favorites, exports and failed updates change single fields, and  *)
(* CheckIntegrity reads all records when it begins and repairs them one by *)
(* one from what it read, while the others go on (of their order per card  *)
(* SyncService takes care).  Every call is one transaction (RecordOps); a  *)
(* repair is decided before its transaction.  EntStore implements this.    *)
(***************************************************************************)
EXTENDS RecordOps

CONSTANTS Fetched   \* Fetched[u]: the metadata and sheets that FetchAll may give for u

ASSUME FetchedIsWhatMayBeSaved ==
  \A u \in Urls : \A f \in Fetched[u] : f.metadata \in Metadata /\ f.sheet \in Sheets

VARIABLES
  vault,      \* the content of the vault
  checking,   \* an integrity check is running
  snapshot,   \* the records it has read and still has to check
  repair      \* the repair that is decided and not yet saved, or None

vars == <<vault, checking, snapshot, repair>>

Init ==
  /\ vault = EmptyVault
  /\ checking = FALSE
  /\ snapshot = <<>>
  /\ repair = None

\* An import, or an update of a card that is new on the website.
Save(u) ==
  /\ \E f \in Fetched[u] : vault' = SaveCard(vault, u, f.metadata, f.sheet)
  /\ UNCHANGED <<checking, snapshot, repair>>

\* A check under way finds no card for a record that it has read and that was
\* deleted since, also when the card has been imported again: its id is another.
Delete(u) ==
  /\ u \in Stored(vault)
  /\ vault' = DeleteCard(vault, u)
  /\ snapshot' = [w \in DOMAIN snapshot \ {u} |-> snapshot[w]]
  /\ UNCHANGED <<checking, repair>>

\* UpdateFavoriteData of several cards, or ToggleFavorite or UpdateExportData of one.
Mark(us, mark) ==
  /\ vault' = [vault EXCEPT !.rows = [u \in Urls |-> IF u \in us THEN [@[u] EXCEPT !.mark = mark] ELSE @[u]]]
  /\ UNCHANGED <<checking, snapshot, repair>>

\* UpdateSyncData, of an update that failed or that found nothing new.
UpdateSyncData(u) ==
  /\ u \in Stored(vault)
  /\ \E status \in Statuses : vault' = [vault EXCEPT !.rows[u].status = status]
  /\ UNCHANGED <<checking, snapshot, repair>>

CheckStart ==
  /\ ~checking
  /\ checking' = TRUE
  /\ snapshot' = [u \in Stored(vault) |-> Record(vault, u)]
  /\ UNCHANGED <<vault, repair>>

\* FixRecordIntegrity up to its SaveCard.
CheckOne(u) ==
  /\ repair = None
  /\ u \in DOMAIN snapshot
  /\ LET r == snapshot[u]
         fix == FixIntegrity(r, vault.sheets[u][r.update])
     IN  repair' = IF Integrity(vault, u, r) # "FIXED" THEN None
                   ELSE [url |-> u, record |-> fix.record, sheet |-> fix.sheet]
  /\ snapshot' = [w \in DOMAIN snapshot \ {u} |-> snapshot[w]]
  /\ UNCHANGED <<vault, checking>>

\* Its SaveCard, which may fail; the card may have been saved or deleted since.
Repair ==
  /\ repair # None
  /\ \/ vault' = SaveCard(vault, repair.url, repair.record, repair.sheet)
     \/ UNCHANGED vault
  /\ repair' = None
  /\ UNCHANGED <<checking, snapshot>>

\* [mutant] the check ends while records are still to be checked.
CheckEndEarly ==
  /\ checking
  /\ checking' = FALSE
  /\ vault' = CleanupCreators(vault)
  /\ UNCHANGED <<snapshot, repair>>

CheckEnd ==
  /\ checking
  /\ DOMAIN snapshot = {} /\ repair = None
  /\ checking' = FALSE
  /\ vault' = CleanupCreators(vault)
  /\ UNCHANGED <<snapshot, repair>>

Next ==
  \/ \E u \in Urls : Save(u) \/ Delete(u) \/ UpdateSyncData(u) \/ CheckOne(u)
  \/ \E us \in SUBSET Stored(vault), mark \in BOOLEAN : Mark(us, mark)
  \/ CheckStart
  \/ Repair
  \/ CheckEnd

Spec == Init /\ [][Next]_vars

----------------------------------------------------------------------------
(* Whole operations, when nothing else runs                                *)

Orders == SetToSeqs(Stored(vault))

\* CheckIntegrity on v, record by record in the given order.
Checked(v, order) ==
  LET after[i \in 0 .. Len(order)] ==
        IF i = 0 THEN v ELSE FixRecordIntegrity(after[i - 1], order[i], Record(v, order[i]))
  IN  after[Len(order)]

----------------------------------------------------------------------------
(* Properties *)

TypeOK ==
  /\ vault.rows \in [Urls -> Rows \cup {None}]
  /\ vault.creators \in [Creators -> Nicknames \cup {None}]
  /\ vault.tags \in [Slugs -> Names \cup {None}]
  /\ vault.fts \in [Urls -> SUBSET Texts]
  /\ vault.sheets \in [Urls -> [Times -> Sheets \cup {None}]]
  /\ checking \in BOOLEAN
  /\ DOMAIN snapshot \subseteq Urls
  /\ ~checking => DOMAIN snapshot = {} /\ repair = None

\* A record's card is there in the record's version, its text and nothing of a
\* card that was deleted is found by a search, also when the check repairs from
\* records that have been saved or deleted since (store.go:60-64, 452).
Searchable == \A u \in Urls :
  IF vault.rows[u] = None THEN vault.fts[u] = {}
  ELSE LET sheet == vault.sheets[u][vault.rows[u].update]
       IN  sheet # None /\ sheet.text \in vault.fts[u]

\* The tags in the card are those that the client shows for the record, although
\* other cards give the same tags other names, and whatever order saves and
\* repairs come in (catalog.go:123-127).
CardHasTagNames == \A u \in Stored(vault) :
  vault.sheets[u][vault.rows[u].update].tags = TagNames(Record(vault, u).names)

\* Checks come to an end: after three of them, with nothing else going on, no
\* record is repaired any more, in whatever order the workers take the records.
\* One repair may need the next, and none undoes another's, of its own or of
\* another record.
ChecksConverge == \A order \in Orders :
  LET done == Checked(Checked(Checked(vault, order), order), order)
  IN  \A u \in Stored(vault) : Integrity(done, u, Record(done, u)) # "FIXED"

\* A record that was repaired is OK on the second check (catalog_test.go:1414,
\* "After fixing, record should be OK").
RepairedIsOk == \A u \in Stored(vault) :
  LET fixed == FixRecordIntegrity(vault, u, Record(vault, u))
  IN  Integrity(vault, u, Record(vault, u)) = "FIXED" => Integrity(fixed, u, Record(fixed, u)) = "OK"
==============================================================================
