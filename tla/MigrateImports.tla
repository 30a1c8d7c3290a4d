--------------------------- MODULE MigrateImports ---------------------------
(***************************************************************************)
(* scripts/migrate-imports.js of the OpenZeppelin library: it walks the    *)
(* directories it is given and, in every Solidity file, replaces import    *)
(* paths that have moved.  It may be interrupted at any point, within the  *)
(* write of a file too, and run again.  An import is its package and its   *)
(* path; in the upgradeable package each path has a name of its own.       *)
(***************************************************************************)
EXTENDS Integers, Sequences, FiniteSets, SequencesExt

CONSTANTS
  Directories,  \* the entries of each directory: [names -> Seq of paths]
  Solidity,     \* the paths of files that end in .sol
  Root,         \* the path the script is given
  Contents,     \* the imports that a file may have: a set of sequences
  pathUpdates,  \* the table: a sequence of pairs of an old and a new path
  MaxRuns       \* bound: the times the script is run

ASSUME ImportsAssumption ==
  /\ MaxRuns \in Nat
  /\ Root \in STRING /\ Root \in DOMAIN Directories \cup Solidity
  /\ DOMAIN Directories \cap Solidity = {}
  /\ \A d \in DOMAIN Directories : Directories[d] \in Seq(STRING)
  /\ Contents \subseteq Seq([package : {"contracts", "upgradeable"}, path : STRING])
  /\ pathUpdates \in Seq(STRING \X STRING)
  \* of the table: a path has one row at most, and no new path moves again
  /\ \A i, j \in DOMAIN pathUpdates :
       /\ pathUpdates[i][1] = pathUpdates[j][1] => i = j
       /\ pathUpdates[i][2] # pathUpdates[j][1]

VARIABLES
  disk,      \* the imports in each file
  original,  \* what they were
  phase,     \* "idle", "listing" or "updating"
  paths,     \* paths that are still to be looked at
  files,     \* files that are still to be updated
  buffer,    \* what is being written to the first of them, or nothing
  cut,       \* the files whose write was interrupted
  starts,    \* the times the script was started
  runs       \* the times it came to its end

importVars == <<disk, original, phase, paths, files, buffer, cut, starts, runs>>

Import(package, path) == [package |-> package, path |-> path]

\* String.replace with a string: the first occurrence.
replace(source, from, to) ==
  IF Contains(source, from)
  THEN [source EXCEPT ![SelectInSeq(source, LAMBDA i : i = from)] = to]
  ELSE source

updated(source, update) ==
  replace(replace(source, Import("contracts", update[1]), Import("contracts", update[2])),
          Import("upgradeable", update[1]), Import("upgradeable", update[2]))

\* MUTANT: the first row of the table that changes the file is the last.
updateImportPathsOnce(source) ==
  FoldLeft(LAMBDA s, update : IF s # source THEN s ELSE updated(s, update),
           source, pathUpdates)

updateImportPaths(source) == FoldLeft(updated, source, pathUpdates)

ImportsInit ==
  /\ disk \in [Solidity -> Contents] /\ original = disk
  /\ phase = "idle" /\ paths = <<>> /\ files = <<>> /\ buffer = {} /\ cut = {}
  /\ starts = 0 /\ runs = 0

main ==
  /\ phase = "idle" /\ starts < MaxRuns
  /\ phase' = "listing" /\ paths' = <<Root>> /\ files' = <<>> /\ starts' = starts + 1
  /\ UNCHANGED <<disk, original, buffer, cut, runs>>

\* One round of listFilesRecursively.
list ==
  /\ phase = "listing" /\ paths # <<>>
  /\ LET top == Head(paths)
     IN  /\ files' = IF top \in Solidity THEN Append(files, top) ELSE files
         /\ paths' = Tail(paths) \o
              (IF top \in DOMAIN Directories THEN Directories[top] ELSE <<>>)
  /\ UNCHANGED <<disk, original, phase, buffer, cut, starts, runs>>

listed ==
  /\ phase = "listing" /\ paths = <<>>
  /\ phase' = "updating"
  /\ UNCHANGED <<disk, original, paths, files, buffer, cut, starts, runs>>

\* updateFile reads the next file, and is done with it if it did not change;
\* else writeFile opens it, which makes it empty.
updateFile ==
  /\ phase = "updating" /\ files # <<>> /\ buffer = {}
  /\ LET content == disk[Head(files)]
         updatedContent == updateImportPaths(content)
     IN  IF updatedContent = content
         THEN files' = Tail(files) /\ UNCHANGED <<disk, buffer>>
         ELSE /\ buffer' = {updatedContent}
              /\ disk' = [disk EXCEPT ![Head(files)] = <<>>]
              /\ UNCHANGED files
  /\ UNCHANGED <<original, phase, paths, cut, starts, runs>>

\* writeFile has written what it was given.
written == \E content \in buffer :
  /\ phase = "updating" /\ files # <<>>
  /\ disk' = [disk EXCEPT ![Head(files)] = content]
  /\ files' = Tail(files) /\ buffer' = {}
  /\ UNCHANGED <<original, phase, paths, cut, starts, runs>>

done ==
  /\ phase = "updating" /\ files = <<>>
  /\ phase' = "idle" /\ runs' = runs + 1
  /\ UNCHANGED <<disk, original, paths, files, buffer, cut, starts>>

interrupt ==
  /\ phase # "idle" /\ buffer = {}
  /\ phase' = "idle"
  /\ UNCHANGED <<disk, original, paths, files, buffer, cut, starts, runs>>

\* The file has only a part of what it was to have.
interruptWrite == \E content \in buffer :
  /\ files # <<>>
  /\ \E n \in 0 .. Len(content) : disk' = [disk EXCEPT ![Head(files)] = SubSeq(content, 1, n)]
  /\ phase' = "idle" /\ buffer' = {} /\ cut' = cut \cup {Head(files)}
  /\ UNCHANGED <<original, paths, files, starts, runs>>

ImportsNext ==
  \/ main \/ list \/ listed \/ updateFile \/ written \/ done
  \/ interrupt \/ interruptWrite

ImportsSpec == ImportsInit /\ [][ImportsNext]_importVars
-----------------------------------------------------------------------------
(* Properties. *)

OldPaths == {pathUpdates[i][1] : i \in DOMAIN pathUpdates}

Moved(import) ==
  LET rows == {i \in DOMAIN pathUpdates : pathUpdates[i][1] = import.path}
  IN  IF rows = {} THEN import
      ELSE [import EXCEPT !.path = pathUpdates[CHOOSE i \in rows : TRUE][2]]

\* Where a file has an import.
Occurrences(source, import) == {i \in DOMAIN source : source[i] = import}

\* Every Solidity file is in the tree below the path the script is given.
AllUnderRoot ==
  \A V \in SUBSET (DOMAIN Directories \cup Solidity) :
    /\ Root \in V
    /\ \A d \in V \cap DOMAIN Directories :
         ToSet(Directories[d]) \cap (DOMAIN Directories \cup Solidity) \subseteq V
    => Solidity \subseteq V

\* "the package includes a script that will migrate import statements
\* automatically" (CHANGELOG.md:427).  A replacement stops at the first
\* occurrence, so each run that ended migrates each moved import of each file in
\* one place more, until it is nowhere; nothing else changes, however many runs
\* were interrupted or repeated.  An interrupted run spoils one file at most.
MigratesImports ==
  phase = "idle" =>
    /\ Cardinality(cut) + runs <= starts
    /\ \A f \in Solidity \ cut :
         /\ DOMAIN disk[f] = DOMAIN original[f]
         /\ \A i \in DOMAIN disk[f] :
              /\ disk[f][i] \in {original[f][i], Moved(original[f][i])}
              /\ disk[f][i].path \in OldPaths =>
                   Cardinality(Occurrences(disk[f], disk[f][i])) + runs
                     <= Cardinality(Occurrences(original[f], disk[f][i]))
=============================================================================
