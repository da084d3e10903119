----------------------------- MODULE ExportFiles -----------------------------
(***************************************************************************)
(* The names of exported files: the preferences have a template of tokens, *)
(* each of which stands for something in the record.  What filex makes of  *)
(* characters that no path may have is left out: names that differ here    *)
(* are taken to differ on disk.                                            *)
(***************************************************************************)
EXTENDS EntQueries

CONSTANTS
  Templates,  \* the templates that ExportVault and ExportLatestCards are given
  PerSecond   \* time in a second

ASSUME SecondsAreNats == PerSecond \in Nat \ {0}

\* What the tokens stand for in a record.  TITLE is NAME and the creation's tokens
\* too, as the title is of the columns; a creator's username follows from its id.
TokenValue(rec) ==
  [SOURCE |-> rec.columns.source, PLATFORM_ID |-> rec.columns.platform_id,
   CHARACTER_ID |-> rec.columns.character_id, TITLE |-> rec.columns.title,
   UPDATE_TIME |-> rec.columns.update_time \div PerSecond,
   C_NICKNAME |-> rec.creator.nickname, C_USERNAME |-> rec.columns.creator_id]

Tokens == {"SOURCE", "PLATFORM_ID", "CHARACTER_ID", "TITLE", "UPDATE_TIME", "C_NICKNAME", "C_USERNAME"}

\* The text between the tokens tells their values apart; only its end matters.
ASSUME TemplatesAreTemplates == Templates \subseteq [tokens : Seq(Tokens), png : BOOLEAN]

\* buildExportPath: the template's text with the values of a record.
ExportPath(template, rec) ==
  [values |-> [i \in DOMAIN template.tokens |-> TokenValue(rec)[template.tokens[i]]], png |-> template.png]

\* {rid}_{template}
VaultFile(template, rec) == [rid |-> rec.id, path |-> ExportPath(template, rec)]

\* buildCardFileMap: the file of each id, of those that end in .png.
CardFiles(files) ==
  LET cards == {f \in files : f.path.png}
  IN  [r \in {f.rid : f \in cards} |-> CHOOSE f \in cards : f.rid = r]
=============================================================================
