---------------------------- MODULE ConfigDrift ----------------------------
(***************************************************************************)
(* The identity of the configuration a daemon runs (internal/cli:          *)
(* configidentity.go, and resolveWorkload and buildRoot of root.go, which  *)
(* read the files): the loaders parse the workload, a later boot phase     *)
(* hashes the files and then parses the MCP catalog, and a watcher hashes  *)
(* them again on a cadence and says when what is on disk stops or starts   *)
(* again to match.                                                         *)
(*                                                                         *)
(* A file is its content, a member of Contents, or None when it cannot be  *)
(* read.  A digest is the function it hashes.                              *)
(***************************************************************************)
EXTENDS FiniteSets

CONSTANTS
  Files,     \* the bundle, its specialists, their schemas, the MCP catalog
  Catalog,   \* {the MCP catalog}, read only when the workload names a server
  Contents,
  None

VARIABLES
  disk,      \* what each file holds
  at,        \* "load", "identify", "wire", "running" or "refused"
  parsed,    \* what the loaders read
  loaded,    \* configIdentity of buildRoot: names to sums
  reported,  \* the watcher's last digest
  told,      \* its last line: None, "warn" or "matches"
  pending    \* disk changed since the watcher last looked

vars == <<disk, at, parsed, loaded, reported, told, pending>>

TypeOK ==
  /\ disk \in [Files -> Contents \cup {None}]
  /\ at \in {"load", "identify", "wire", "running", "refused"}
  /\ told \in {None, "warn", "matches"}
  /\ pending \in BOOLEAN

Nothing == [f \in {} |-> None]
Init ==
  /\ disk \in [Files -> Contents \cup {None}]
  /\ at = "load" /\ parsed = Nothing /\ loaded = Nothing /\ reported = Nothing
  /\ told = None /\ pending = FALSE

\* Somebody writes, breaks or restores a file.
Edit(f) ==
  /\ \E c \in Contents \cup {None} : c # disk[f] /\ disk' = [disk EXCEPT ![f] = c]
  /\ pending' = TRUE
  /\ UNCHANGED <<at, parsed, loaded, reported, told>>

\* workload.Load and the specialists: a file that cannot be read is an error.
resolveWorkload ==
  /\ at = "load"
  /\ LET roster == Files \ Catalog
     IN  IF \A f \in roster : disk[f] # None
         THEN at' = "identify" /\ parsed' = [f \in roster |-> disk[f]]
         ELSE at' = "refused" /\ UNCHANGED parsed
  /\ UNCHANGED <<disk, loaded, reported, told, pending>>

\* The files the loaders returned, and the catalog when it is there.
configPaths == DOMAIN parsed \cup {f \in Catalog : disk[f] # None}

identifyConfig(paths) == [f \in paths |-> disk[f]]

\* buildRoot hashes the files and logs the identity.
buildRoot ==
  /\ at = "identify"
  /\ at' = "wire"
  /\ loaded' = identifyConfig(configPaths)
  /\ reported' = loaded' /\ pending' = FALSE
  /\ UNCHANGED <<disk, parsed, told>>

\* A workload that names a server has the catalog parsed, or is refused; the
\* watcher starts behind it.
wireMCPToolsets ==
  /\ at = "wire"
  /\ \/ at' = "running" /\ UNCHANGED parsed
     \/ /\ \A f \in Catalog : disk[f] # None
        /\ at' = "running"
        /\ parsed' = [f \in DOMAIN parsed \cup Catalog |-> IF f \in Catalog THEN disk[f] ELSE parsed[f]]
     \/ /\ \E f \in Catalog : disk[f] = None
        /\ at' = "refused" /\ UNCHANGED parsed
  /\ UNCHANGED <<disk, loaded, reported, told, pending>>

\* Mutant: compared with the identity at startup instead of the last report.
watchConfigLevel ==
  /\ at = "running"
  /\ LET cur == identifyConfig(DOMAIN loaded)
     IN  IF cur = loaded THEN UNCHANGED <<reported, told>>
         ELSE reported' = cur /\ told' = "warn"
  /\ pending' = FALSE
  /\ UNCHANGED <<disk, at, parsed, loaded>>

\* One tick: silent unless the digest moved since the last line.
watchConfig ==
  /\ at = "running"
  /\ LET cur == identifyConfig(DOMAIN loaded)
     IN  IF cur = reported THEN UNCHANGED <<reported, told>>
         ELSE /\ reported' = cur
              /\ told' = IF cur = loaded THEN "matches" ELSE "warn"
  /\ pending' = FALSE
  /\ UNCHANGED <<disk, at, parsed, loaded>>

\* What changed, by name: new, unreadable, different or gone.
changedFrom(cur, prev) ==
  {f \in DOMAIN cur : f \notin DOMAIN prev \/ cur[f] # prev[f]} \cup (DOMAIN prev \ DOMAIN cur)

Next == (\E f \in Files : Edit(f)) \/ resolveWorkload \/ buildRoot \/ wireMCPToolsets \/ watchConfig

Spec == Init /\ [][Next]_vars

-----------------------------------------------------------------------------
\* Once the watcher has looked, its last line is true of the disk: a warning
\* stands exactly while some file it names differs from the identity logged at
\* startup, and "a stale warning about a condition that has been fixed" never
\* does.
LastLineIsTrue ==
  at = "running" /\ ~pending =>
    (told = "warn") = (changedFrom(identifyConfig(DOMAIN loaded), loaded) # {})
=============================================================================
