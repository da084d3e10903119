----------------------------- MODULE ResultCache -----------------------------
(***************************************************************************)
(* facade/cache.go on top of the vault manager.  A worker of an update or  *)
(* an export pushes a request (the card's id and the operation's) when it  *)
(* has dealt with a card; a client that sees HasRequests calls Flush, which*)
(* takes all requests and answers each with the card's record, read from   *)
(* the vault that is loaded then, or with a SyncMissing placeholder.       *)
(* Several clients may flush at once.  Operations composes these steps with *)
(* the operations that push.                                               *)
(***************************************************************************)
EXTENDS VaultManager

CONSTANTS Cards   \* the cards that operations deal with

ASSUME CardsAreFinite == IsFiniteSet(Cards)

VARIABLES
  cache,    \* cacheManager.rids and opIDs: the requests waiting
  batch,    \* batch[g]: the requests that g's Flush took
  pushed,   \* history: the requests pushed
  answers   \* history: answers[r]: how often r was answered

cacheVars == <<cache, batch, pushed, answers>>

\* A request names the card and the operation, here by its goroutine.
Request == Goroutines \X Cards
Requests == Seq(Request)

CacheTypeOK ==
  /\ TypeOK
  /\ pc \in [Goroutines -> PCs \cup {"flush", "taken", "find"}]
  /\ \A g \in Goroutines : g \in readers <=> pc[g] \in {"using", "find"}
  /\ cache \in Requests
  /\ batch \in [Goroutines -> Requests]
  /\ pushed \subseteq Request
  /\ answers \in [Request -> Nat]

CacheInit ==
  /\ Init
  /\ cache = <<>>
  /\ batch = [g \in Goroutines |-> <<>>]
  /\ pushed = {}
  /\ answers = [r \in Request |-> 0]

\* The operation of g has dealt with card c.
Push(g, c) ==
  /\ cache' = Append(cache, <<g, c>>)
  /\ pushed' = pushed \cup {<<g, c>>}
  /\ UNCHANGED <<batch, answers>>

\* How often r is in a sequence of requests.
CountOf(rs, r) == Cardinality({i \in DOMAIN rs : rs[i] = r})

Pushed(g) == {r \in pushed : r[1] = g}

\* Flush finds requests waiting; the lock is given back before they are taken.
FlushHasRequests(g) ==
  /\ Goto(g, "idle", "flush")
  /\ cache # <<>>
  /\ UNCHANGED <<vaults, catalogs, vault, writer, readers, cat, target, undone, cacheVars>>

\* [mutant] the requests are copied under the read lock and cleared by no one.
FlushCopy(g) ==
  /\ Goto(g, "flush", "taken")
  /\ batch' = [batch EXCEPT ![g] = cache]
  /\ UNCHANGED <<vaults, catalogs, vault, writer, readers, cat, target, undone, cache, pushed, answers>>

FlushTake(g) ==
  /\ Goto(g, "flush", "taken")
  /\ batch' = [batch EXCEPT ![g] = cache]
  /\ cache' = <<>>
  /\ UNCHANGED <<vaults, catalogs, vault, writer, readers, cat, target, undone, pushed, answers>>

Answer(rs) == answers' = [r \in Request |-> answers[r] + CountOf(rs, r)]

\* The vault is loading or there is none: all requests are answered as missing.
FlushNoVault(g) ==
  /\ writer # Nobody \/ vault = None
  /\ Goto(g, "taken", "idle")
  /\ Answer(batch[g])
  /\ batch' = [batch EXCEPT ![g] = <<>>]
  /\ UNCHANGED <<vaults, catalogs, vault, writer, readers, cat, target, undone, pushed, cache>>

FlushBegin(g) == BeginReadOp(g, "taken", "find") /\ UNCHANGED cacheVars

\* Each record that FindRecords finds is an answer, and each id that it does not
\* find is answered as missing; all of them when it fails.
FlushFind(g) ==
  /\ Goto(g, "find", "idle")
  /\ Answer(batch[g])
  /\ batch' = [batch EXCEPT ![g] = <<>>]
  /\ readers' = readers \ {g}
  /\ Set(cat, g, None)
  /\ UNCHANGED <<vaults, catalogs, vault, writer, target, undone, pushed, cache>>

FlushGoesOn(g) == FlushTake(g) \/ FlushNoVault(g) \/ FlushBegin(g) \/ FlushFind(g)
FlushStep(g) == FlushHasRequests(g) \/ FlushGoesOn(g)

----------------------------------------------------------------------------
(* Properties *)

\* h's Flush has the request r, once, and no other has it; nobody has it if h is Nobody.
HeldBy(r, h) == \A g \in Goroutines : CountOf(batch[g], r) = IF g = h THEN 1 ELSE 0

\* Every request pushed is in exactly one place: waiting, in the hands of one
\* Flush, or answered once; whatever the number of clients that flush, and
\* whether or not the vault could be read (cache.go:41-99).
AnsweredOnce == \A r \in Request :
  IF r \notin pushed THEN CountOf(cache, r) = 0 /\ answers[r] = 0 /\ HeldBy(r, Nobody)
  ELSE \/ CountOf(cache, r) = 1 /\ answers[r] = 0 /\ HeldBy(r, Nobody)
       \/ CountOf(cache, r) = 0 /\ answers[r] = 0 /\ \E h \in Goroutines : HeldBy(r, h)
       \/ CountOf(cache, r) = 0 /\ answers[r] = 1 /\ HeldBy(r, Nobody)
==============================================================================
