---------------------------- MODULE VaultManager -----------------------------
(***************************************************************************)
(* facade/vault.go and library/fslibrary: which catalogs are open, and who *)
(* may use them.  The facade has one vault.  LoadVault and UnloadVault     *)
(* take vaultMu with TryLock; every other operation, the ones that write   *)
(* included, takes it with TryRLock (beginReadOp) and keeps it until it    *)
(* ends, which for a background operation is when its worker returns.      *)
(* ImportVault does not go through the facade: its worker creates a vault, *)
(* opens a catalog of its own on it and closes it.                         *)
(*                                                                         *)
(* A catalog is a pair of open stores on the directory of a vault.  Calls  *)
(* that return "Vault is busy", "Vault is loading" or "No vault loaded"    *)
(* change nothing and are not steps.                                       *)
(***************************************************************************)
EXTENDS Naturals, FiniteSets, Sequences

CONSTANTS Goroutines,
          Names,        \* names a vault can have
          MaxVaults,    \* Options.MaxVaults
          MaxCatalogs,  \* bound: catalogs opened
          Exclusive,    \* whether the blob store locks its directory (pblob does)
          None,         \* no vault is loaded
          Nobody        \* nobody holds vaultMu for writing

ASSUME ExclusiveIsBoolean == Exclusive \in BOOLEAN
ASSUME NobodyIsNoGoroutine == Nobody \notin Goroutines
ASSUME NoneIsNoCatalog == None \notin 1 .. MaxCatalogs /\ None \notin Names
ASSUME VaultBounds == MaxVaults \in Nat /\ MaxCatalogs \in Nat

VARIABLES
  vaults,    \* FsLibrary.vaults: the names of the vaults there are
  catalogs,  \* history: every catalog opened, in order
  vault,     \* vaultManager.vault: the loaded catalog, or None
  writer,    \* who holds vaultMu for writing
  readers,   \* who holds it for reading
  pc,        \* pc[g]: where g is
  cat,       \* cat[g]: the catalog that g uses, imports into or will close
  target,    \* target[g]: the vault that g loads or imports
  undone     \* history: the imports whose vault was deleted after they created it

vars == <<vaults, catalogs, vault, writer, readers, pc, cat, target, undone>>

Catalog == [vault : Names,    \* the vault it was opened on
            open : BOOLEAN,
            removed : BOOLEAN]  \* the vault's directory was deleted meanwhile

PCs == {"idle", "load", "close", "using", "create", "open", "import"}

TypeOK ==
  /\ vaults \subseteq Names
  /\ catalogs \in Seq(Catalog)
  /\ Len(catalogs) <= MaxCatalogs
  /\ vault \in (1 .. Len(catalogs)) \cup {None}
  /\ writer \in Goroutines \cup {Nobody}
  /\ readers \subseteq Goroutines
  /\ writer # Nobody => readers = {}
  /\ cat \in [Goroutines -> (1 .. Len(catalogs)) \cup {None}]
  /\ target \in [Goroutines -> Names \cup {None}]
  /\ undone \subseteq Goroutines

Init ==
  /\ vaults \in SUBSET Names
  /\ catalogs = <<>>
  /\ vault = None
  /\ writer = Nobody
  /\ readers = {}
  /\ pc = [g \in Goroutines |-> "idle"]
  /\ cat = [g \in Goroutines |-> None]
  /\ target = [g \in Goroutines |-> None]
  /\ undone = {}

Goto(g, from, to) == pc[g] = from /\ pc' = [pc EXCEPT ![g] = to]
Set(f, g, x) == f' = [f EXCEPT ![g] = x]

----------------------------------------------------------------------------
(* The library.  Its operations hold FsLibrary.mu, so each is one step.    *)

\* [mutant] the vault may exist already.
CanCreateAgain(n) == Cardinality(vaults) < MaxVaults \/ n \in vaults

CanCreate(n) == Cardinality(vaults) < MaxVaults /\ n \notin vaults

Create(n) ==
  /\ n \notin vaults
  /\ CanCreate(n)
  /\ vaults' = vaults \cup {n}
  /\ UNCHANGED <<catalogs, vault, writer, readers, pc, cat, target, undone>>

\* Removes the directory, whether or not a catalog is open on it.
Delete(n) ==
  /\ n \in vaults
  /\ vaults' = vaults \ {n}
  /\ catalogs' = [i \in DOMAIN catalogs |->
                    IF catalogs[i].vault = n THEN [catalogs[i] EXCEPT !.removed = TRUE] ELSE catalogs[i]]
  /\ undone' = undone \cup {g \in Goroutines :
                  \/ pc[g] = "open" /\ target[g] = n
                  \/ pc[g] = "import" /\ catalogs[cat[g]].vault = n}
  /\ UNCHANGED <<vault, writer, readers, pc, cat, target>>

\* Load succeeds only if the vault is there and its directory is not locked.
CanOpen(n) ==
  /\ n \in vaults
  /\ Len(catalogs) < MaxCatalogs
  /\ Exclusive => ~\E i \in DOMAIN catalogs :
                     catalogs[i].vault = n /\ catalogs[i].open /\ ~catalogs[i].removed

Opened(n) == Append(catalogs, [vault |-> n, open |-> TRUE, removed |-> FALSE])
Closed(i) == IF i = None THEN catalogs ELSE [catalogs EXCEPT ![i].open = FALSE]

----------------------------------------------------------------------------
(* The vault manager                                                       *)

TryLock(g) == writer = Nobody /\ readers = {} /\ writer' = g

LoadVault(g, n) ==
  /\ Goto(g, "idle", "load")
  /\ TryLock(g)
  /\ Set(target, g, n)
  /\ UNCHANGED <<vaults, catalogs, vault, readers, cat, undone>>

\* library.Load succeeds and the new vault takes the place of the old one.
LoadSwap(g) ==
  /\ Goto(g, "load", "close")
  /\ CanOpen(target[g])
  /\ catalogs' = Opened(target[g])
  /\ vault' = Len(catalogs) + 1
  /\ Set(cat, g, vault)
  /\ Set(target, g, None)
  /\ UNCHANGED <<vaults, writer, readers, undone>>

\* library.Load fails, for the reasons above or others: the old vault stays.
LoadFails(g) ==
  /\ Goto(g, "load", "idle")
  /\ writer' = Nobody
  /\ Set(target, g, None)
  /\ UNCHANGED <<vaults, catalogs, vault, readers, cat, undone>>

\* [mutant] the old catalog is not closed.
LoadKeepOld(g) ==
  /\ Goto(g, "close", "idle")
  /\ Set(cat, g, None)
  /\ writer' = Nobody
  /\ UNCHANGED <<vaults, catalogs, vault, readers, target, undone>>

\* The old catalog is closed and the deferred Unlock runs.
LoadCloseOld(g) ==
  /\ Goto(g, "close", "idle")
  /\ catalogs' = Closed(cat[g])
  /\ Set(cat, g, None)
  /\ writer' = Nobody
  /\ UNCHANGED <<vaults, vault, readers, target, undone>>

\* Lock, close, forget and unlock: what happens under the lock is not seen.
UnloadVault(g) ==
  /\ pc[g] = "idle"
  /\ writer = Nobody
  /\ readers = {}
  /\ vault # None
  /\ catalogs' = Closed(vault)
  /\ vault' = None
  /\ UNCHANGED <<vaults, writer, readers, pc, cat, target, undone>>

\* [mutant] an operation copies the vault and gives the lock back at once.
BeginAndUnlock(g, from, to) ==
  /\ Goto(g, from, to)
  /\ writer = Nobody
  /\ vault # None
  /\ Set(cat, g, vault)
  /\ UNCHANGED <<vaults, catalogs, vault, writer, readers, target, undone>>

\* beginReadOp.
BeginReadOp(g, from, to) ==
  /\ Goto(g, from, to)
  /\ writer = Nobody
  /\ vault # None
  /\ readers' = readers \cup {g}
  /\ Set(cat, g, vault)
  /\ UNCHANGED <<vaults, catalogs, vault, writer, target, undone>>

\* An operation of the facade: a query, a favorite, or a background worker.
BeginOp(g) == BeginReadOp(g, "idle", "using")

EndOp(g) ==
  /\ Goto(g, "using", "idle")
  /\ readers' = readers \ {g}
  /\ Set(cat, g, None)
  /\ UNCHANGED <<vaults, catalogs, vault, writer, target, undone>>

----------------------------------------------------------------------------
(* ImportVault and its worker                                              *)

\* NextAvailablePath gives a name that no directory has; nothing reserves it.
ImportVault(g, n) ==
  /\ n \notin vaults
  /\ Goto(g, "idle", "create")
  /\ Set(target, g, n)
  /\ UNCHANGED <<vaults, catalogs, vault, writer, readers, cat, undone>>

ImportCreate(g) ==
  /\ CanCreate(target[g])
  /\ Goto(g, "create", "open")
  /\ vaults' = vaults \cup {target[g]}
  /\ undone' = undone \ {g}
  /\ UNCHANGED <<catalogs, vault, writer, readers, cat, target>>

\* Create or Load returns an error, and the worker returns.
ImportFails(g) ==
  /\ \/ Goto(g, "create", "idle") /\ ~CanCreate(target[g])
     \/ Goto(g, "open", "idle")
  /\ Set(target, g, None)
  /\ UNCHANGED <<vaults, catalogs, vault, writer, readers, cat, undone>>

ImportOpen(g) ==
  /\ CanOpen(target[g])
  /\ Goto(g, "open", "import")
  /\ catalogs' = Opened(target[g])
  /\ Set(cat, g, Len(catalogs) + 1)
  /\ Set(target, g, None)
  /\ UNCHANGED <<vaults, vault, writer, readers, undone>>

\* The cards are restored and the deferred Close runs.
ImportEnd(g) ==
  /\ Goto(g, "import", "idle")
  /\ catalogs' = Closed(cat[g])
  /\ Set(cat, g, None)
  /\ UNCHANGED <<vaults, vault, writer, readers, target, undone>>

LoadGoesOn(g) == LoadSwap(g) \/ LoadFails(g) \/ LoadCloseOld(g)

FacadeStep(g) ==
  \/ \E n \in Names : LoadVault(g, n)
  \/ LoadGoesOn(g)
  \/ UnloadVault(g)
  \/ BeginOp(g) \/ EndOp(g)

ImportStep(g) ==
  \/ \E n \in Names : ImportVault(g, n)
  \/ ImportCreate(g) \/ ImportFails(g) \/ ImportOpen(g) \/ ImportEnd(g)

Next ==
  \/ \E g \in Goroutines : FacadeStep(g) \/ ImportStep(g)
  \/ \E n \in Names : Create(n) \/ Delete(n)

Spec == Init /\ [][Next]_vars

----------------------------------------------------------------------------
(* Properties *)

\* What an operation holds is the loaded catalog, and it is open: no LoadVault
\* or UnloadVault swaps or closes it before the operation ends, even when the
\* call that began it has long returned (vault.go:75-86).
UsedIsOpen == \A g \in Goroutines : pc[g] = "using" => cat[g] = vault /\ catalogs[vault].open

\* An open catalog belongs to someone: it is the loaded one, or LoadVault is
\* about to close it, or an import works in it.  Nothing is left open when
\* vaults are swapped, and a failed Load does not take the old vault away.
OpenIsHeld ==
  /\ vault # None => catalogs[vault].open
  /\ \A i \in DOMAIN catalogs : catalogs[i].open =>
       i = vault \/ \E g \in Goroutines : pc[g] \in {"close", "import"} /\ cat[g] = i

\* Two imports never restore into the same directory, although both may have
\* been given the same name: only one Create succeeds (fslibrary.go:97-114),
\* unless the vault is deleted while one of them is at work.
ImportsApart == \A g, h \in Goroutines \ undone :
  (g # h /\ pc[g] = "import" /\ pc[h] = "import") => catalogs[cat[g]].vault # catalogs[cat[h]].vault
==============================================================================
