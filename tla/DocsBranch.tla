----------------------------- MODULE DocsBranch -----------------------------
(***************************************************************************)
(* scripts/update-docs-branch.js of the OpenZeppelin library: from a       *)
(* release branch, it commits the documentation to the docs branch of the  *)
(* major version, unless a newer minor is there.  The minor it asks for is *)
(* the branch's, the one it finds there is that of the package.json that   *)
(* was committed, and a new release branch still has the version before.   *)
(* The workflow docs.yml runs the script in a fresh clone on every push to *)
(* a release branch, several at a time, and again when somebody asks;      *)
(* maintainers may run it in a clone of their own, which keeps its docs    *)
(* branch.                                                                 *)
(***************************************************************************)
EXTENDS Integers, Sequences, SequencesExt

CONSTANTS
  Clones,       \* the clones the script runs in
  FirstMinor,   \* the first minor with a release branch, and the last
  LastMinor,
  BeforeFirst,  \* the minor of the version before the first one
  MaxDocsCommits   \* bound: the commits on docs branches

Minors == FirstMinor .. LastMinor

ASSUME DocsAssumption ==
  /\ FirstMinor \in 0 .. 99 /\ LastMinor \in 0 .. 99 /\ BeforeFirst \in 0 .. 99
  /\ MaxDocsCommits \in Nat

VARIABLES
  origin,    \* the docs branch on the remote: its commits; <<>> without one
  local,     \* in each clone, the docs branch
  tracking,  \* in each clone, what was fetched of the remote's
  documenting,  \* in each clone, the tree that is being documented, or none
  commits    \* the commits made so far

docsVars == <<origin, local, tracking, documenting, commits>>

\* The trees of a release branch, by the version in package.json: when it
\* starts, with a release candidate, and released.
Unbumped(m) ==
  [branch |-> m, minor |-> IF m = FirstMinor THEN BeforeFirst ELSE m - 1, prerelease |-> FALSE]

Candidate(m) == [branch |-> m, minor |-> m, prerelease |-> TRUE]

Released(m) == [branch |-> m, minor |-> m, prerelease |-> FALSE]

ReleaseTrees == UNION {{Unbumped(m), Candidate(m), Released(m)} : m \in Minors}

\* The minor comes out of the package.json of the last commit.
publishedMinor(ref) == Last(ref).minor

\* A minor as the regular expression returns it: a string of digits.
digits(m) == IF m < 10 THEN <<m>> ELSE <<m \div 10, m % 10>>

\* The operator < of strings.
Less(s, t) ==
  \E i \in 1 .. Len(t) :
    /\ SubSeq(s, 1, i - 1) = SubSeq(t, 1, i - 1)
    /\ i - 1 = Len(s) \/ (i <= Len(s) /\ s[i] < t[i])

\* git rev-parse --glob, without duplicates.
matchingDocsBranches(c, fetched) == {local[c], fetched} \ {<<>>}

\* MUTANT: with several, the first is taken.
othersIgnored(c, fetched) == TRUE

noOthers(c, fetched) ==
  \A r, s \in matchingDocsBranches(c, fetched) : r = s

\* MUTANT: what the clone knew before the fetch is asked.
notNewerBefore(c, tree, fetched) ==
  tracking[c] = <<>> \/ ~ Less(digits(tree.branch), digits(publishedMinor(tracking[c])))

notNewer(c, tree, fetched) ==
  \A ref \in matchingDocsBranches(c, fetched) :
    ~ Less(digits(tree.branch), digits(publishedMinor(ref)))

DocsInit ==
  /\ origin = <<>> /\ commits = 0
  /\ local = [c \in Clones |-> <<>>]
  /\ tracking = [c \in Clones |-> <<>>]
  /\ documenting = [c \in Clones |-> {}]

\* The script up to the checkout of the docs branch, on the tree that is checked
\* out in the clone: for a job the commit it was triggered for, which need not be
\* the last of its branch.  It stops where it detects a prerelease, the refs
\* conflict, or a newer version is published.
check(c) == \E tree \in ReleaseTrees :
  /\ documenting[c] = {} /\ ~ tree.prerelease
  /\ tracking' = [tracking EXCEPT ![c] = origin]
  /\ IF noOthers(c, origin) /\ notNewer(c, tree, origin)
     THEN /\ documenting' = [documenting EXCEPT ![c] = {tree}]
          /\ local' = [local EXCEPT ![c] = IF @ = <<>> THEN origin ELSE @]
     ELSE UNCHANGED <<documenting, local>>
  /\ UNCHANGED <<origin, commits>>

\* The rest of the script, once the documentation is prepared: it commits the
\* tree that is checked out, with its package.json.
commitDocs(c) == \E tree \in documenting[c] :
  /\ commits < MaxDocsCommits
  /\ commits' = commits + 1
  /\ local' = [local EXCEPT ![c] =
       Append(@, [branch |-> tree.branch, minor |-> tree.minor, id |-> commits])]
  /\ documenting' = [documenting EXCEPT ![c] = {}]
  /\ UNCHANGED <<origin, tracking>>

\* The documentation cannot be prepared: the script throws.
fail(c) ==
  /\ documenting[c] # {}
  /\ documenting' = [documenting EXCEPT ![c] = {}]
  /\ UNCHANGED <<origin, local, tracking, commits>>

\* git push: refused unless the remote's commits are there.
push(c) ==
  /\ documenting[c] = {} /\ IsStrictPrefix(origin, local[c])
  /\ origin' = local[c]
  /\ tracking' = [tracking EXCEPT ![c] = local[c]]
  /\ UNCHANGED <<local, documenting, commits>>

\* The next job, or a maintainer, begins with a clone.
clone(c) ==
  /\ documenting[c] = {}
  /\ local' = [local EXCEPT ![c] = <<>>]
  /\ tracking' = [tracking EXCEPT ![c] = origin]
  /\ UNCHANGED <<origin, documenting, commits>>

DocsNext == \E c \in Clones : check(c) \/ commitDocs(c) \/ fail(c) \/ push(c) \/ clone(c)

DocsSpec == DocsInit /\ [][DocsNext]_docsVars
-----------------------------------------------------------------------------
(* Properties. *)

\* "Refusing to update docs: newer version is published" (line 51): whichever
\* jobs race, docs are followed only by those of a release branch that is not
\* for an older minor than the version they are of.
NeverOlder ==
  \A i \in 1 .. Len(origin) - 1 : origin[i + 1].branch >= origin[i].minor

\* What the script commits comes after everything it fetched, so that only a
\* push of another clone in between can make its own be refused.
BuildsOnPublished ==
  [][\A c \in Clones : commitDocs(c) => IsPrefix(tracking[c], local'[c])]_docsVars
=============================================================================
