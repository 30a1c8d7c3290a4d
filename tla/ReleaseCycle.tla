---------------------------- MODULE ReleaseCycle ----------------------------
(***************************************************************************)
(* The release automation of the OpenZeppelin library: the workflow        *)
(* release-cycle.yml with scripts/release/workflow, for one release        *)
(* branch.  Maintainers push commits, merge pull requests and dispatch     *)
(* the workflow by hand; each of its runs looks at the commit that         *)
(* triggered it and decides which jobs run.  A push with the workflow's    *)
(* own token triggers nothing, so a job that pushes dispatches another     *)
(* run.  One run at a time is in progress, and of those that wait only the *)
(* newest is kept.  Any job may fail; a run that ended or was cancelled    *)
(* can be run again by a person, as a whole or only its failed jobs.       *)
(***************************************************************************)
EXTENDS Integers, Sequences, FiniteSets, SequencesExt

CONSTANTS
  MaxChangesets,  \* bound: the changesets, numbered in the order they are added
  MaxCommits,     \* bound: the commits on the branch
  MaxPlain,       \* bound: those of them that change nothing here
  MaxDispatches,  \* bound: the dispatches by hand
  MaxRetries      \* bound: the runs that are run again

ASSUME ReleaseAssumption ==
  /\ MaxChangesets \in Nat /\ MaxCommits \in Nat /\ MaxPlain \in Nat
  /\ MaxDispatches \in Nat /\ MaxRetries \in Nat

VARIABLES
  history,     \* the tree of each commit on the release branch
  starting,    \* what the run on master has left to do
  running,     \* the run in progress, a sequence of at most one
  waiting,     \* the run that waits, a sequence of at most one
  past,        \* the runs that ended or were cancelled and will be run again
  proposal,    \* the commit the open release PR was made from, or 0
  back,        \* the commit of the open PR back to master, or 0
  releases,    \* what was published on npm, in order
  latest,      \* the version with npm's tag latest
  dispatches,  \* bound: the dispatches by hand so far
  retries,     \* bound: the runs that were run again so far
  lapse        \* whether, since the last commit, a job on the way to the release
               \* PR failed or an older commit's run was run again

npmVars == <<releases, latest>>

boundVars == <<dispatches, retries>>

releaseVars == <<history, starting, running, waiting, past, proposal, back,
                 npmVars, boundVars, lapse>>

\* Versions are counted; the one before the branch is 0, a final one.
Version(n, final) == [number |-> n, final |-> final]

\* A tree: the mode of pre.json ("none" without the file), the changesets, the
\* ones pre.json lists as released before, and the version.
Tree(mode, files, used, version) ==
  [mode |-> mode, files |-> files, used |-> used, version |-> version]

Latest == Len(history)

Changesets == 1 .. MaxChangesets

Added == UNION {history[i].files : i \in DOMAIN history}

\* The changesets that a push may bring: one or none.
NewChangesets == SUBSET ({Cardinality(Added) + 1} \cap Changesets)

ReleaseInit ==
  /\ history = <<>> /\ starting = {} /\ running = <<>> /\ waiting = <<>> /\ past = {}
  /\ proposal = 0 /\ back = 0 /\ dispatches = 0 /\ retries = 0 /\ lapse = FALSE
  /\ releases = <<[version |-> Version(0, TRUE), prerelease |-> FALSE]>>
  /\ latest = Version(0, TRUE)

isPublishedOnNpm(version) == \E i \in DOMAIN releases : releases[i].version = version
-----------------------------------------------------------------------------
(* state.js: what a run sees, and the jobs it decides on.                  *)

\* MUTANT: what a candidate contained does not count after the promotion.
neverUsed(tree) == [pre |-> tree.mode = "pre", changesets |-> tree.files \ tree.used]

readChangesetState(tree) ==
  [pre |-> tree.mode = "pre",
   changesets |-> IF tree.mode = "pre" THEN tree.files \ tree.used ELSE tree.files]

hasPendingChangesets(tree) == readChangesetState(tree).changesets # {}

prerelease(tree) == readChangesetState(tree).pre

\* Runs on the release branch: event is "push" or "dispatch".
shouldRunPromote(run) == run.event = "dispatch" /\ ~ run.bot

\* MUTANT: a dispatch by the bot is taken for one by hand.
changesetsOnPush(run) == run.event = "push"

shouldRunChangesets(run) ==
  run.event = "push" \/ (run.event = "dispatch" /\ run.bot)

\* MUTANT: what is on npm is not asked for.
publishAgain(run) == run.event = "push" /\ ~ hasPendingChangesets(history[run.commit])

shouldRunPublish(run) ==
  /\ run.event = "push"
  /\ ~ hasPendingChangesets(history[run.commit])
  /\ ~ isPublishedOnNpm(history[run.commit].version)

shouldRunMerge(run) ==
  LET tree == history[run.commit]
  IN  /\ run.event = "push"
      /\ ~ prerelease(tree) /\ tree.version.final /\ ~ hasPendingChangesets(tree)
      /\ back = 0

\* The jobs of a run, decided once, when its first job looks at the state.
jobsOf(run) ==
  (IF shouldRunPromote(run) THEN {"promote"} ELSE {}) \cup
  (IF shouldRunChangesets(run) THEN {"changesets"} ELSE {}) \cup
  (IF shouldRunPublish(run) THEN {"publish"} ELSE {}) \cup
  (IF shouldRunMerge(run) THEN {"merge"} ELSE {})
-----------------------------------------------------------------------------
(* The runs.                                                               *)

\* A run as it can be run again, by a person and with what failed to do.
Ended(run, failed) == [run EXCEPT !.bot = FALSE, !.again = TRUE, !.jobs = failed, !.failed = {}]

\* Whether the bound leaves room for one more run to be run again.
Repeatable == retries + Cardinality(past) < MaxRetries

\* Of the runs that are over, those that nobody will run again are forgotten.
over(runs) == {{}} \cup {{r} : r \in {q \in runs : Repeatable}}

Cancelled == {Ended(w, w.jobs) : w \in ToSet(waiting)}

\* A run waits; the one that waited is cancelled for it.
enqueue(run) ==
  /\ waiting' = <<run>>
  /\ \E kept \in over(Cancelled) : past' = past \cup kept

\* A run without jobs has not looked at the state yet.
trigger(event, bot, commit) ==
  enqueue([event |-> event, bot |-> bot, commit |-> commit,
           jobs |-> {}, failed |-> {}, again |-> FALSE])

\* The job state of the run that waits.
begin ==
  /\ running = <<>> /\ waiting # <<>>
  /\ running' = <<[waiting[1] EXCEPT !.jobs = IF @ = {} THEN jobsOf(waiting[1]) ELSE @]>>
  /\ waiting' = <<>>
  /\ UNCHANGED <<history, starting, past, proposal, back, npmVars, boundVars, lapse>>

\* GitHub or npm does not answer: no job follows.
stateFails ==
  /\ running = <<>> /\ waiting # <<>> /\ waiting[1].jobs = {}
  /\ running' = waiting /\ waiting' = <<>>
  /\ lapse' = (lapse \/ waiting[1].commit = Latest)
  /\ UNCHANGED <<history, starting, past, proposal, back, npmVars, boundVars>>

HasJob(job) == running # <<>> /\ job \in running[1].jobs

Commit == running[1].commit

\* A job is done, and todo is what it still has to do.
finishJob(job, todo) == running' = <<[running[1] EXCEPT !.jobs = (@ \ {job}) \cup todo]>>

\* A job fails: it is noted, as promote if it was at its last step, where the
\* run may be run again.
failJob(job) ==
  running' = <<[running[1] EXCEPT
    !.jobs = @ \ {job},
    !.failed = IF Repeatable THEN @ \cup {IF job = "rerun" THEN "promote" ELSE job} ELSE @]>>

\* A job fails at a step that changed nothing outside.  After the push of
\* promote, the commit without a run is the last one.
jobFails ==
  /\ \E job \in {"promote", "rerun", "changesets", "publish", "merge"} :
       /\ HasJob(job) /\ failJob(job)
       /\ lapse' = \/ lapse \/ job = "rerun"
                   \/ job \in {"promote", "changesets"} /\ Commit = Latest
  /\ UNCHANGED <<history, starting, waiting, past, proposal, back, npmVars, boundVars>>

end ==
  /\ running # <<>> /\ running[1].jobs = {}
  /\ running' = <<>>
  /\ \E kept \in over({Ended(running[1], running[1].failed)}) : past' = past \cup kept
  /\ UNCHANGED <<history, starting, waiting, proposal, back, npmVars, boundVars, lapse>>

\* Start, on master: push the branch, then dispatch a run on it.
startBranch ==
  /\ starting = {"branch"} /\ history = <<>>
  /\ \E files \in NewChangesets \ {{}} :
       history' = <<Tree("pre", files, {}, Version(0, TRUE))>>
  /\ starting' = {"rerun"} /\ lapse' = FALSE
  /\ UNCHANGED <<running, waiting, past, proposal, back, npmVars, boundVars>>

rerunStart ==
  /\ starting = {"rerun"}
  /\ trigger("dispatch", TRUE, Latest)
  /\ starting' = {}
  /\ UNCHANGED <<history, running, proposal, back, npmVars, boundVars, lapse>>

\* It fails before the push or after it; run again, it could not push.
startFails ==
  /\ starting # {}
  /\ starting' = {}
  /\ lapse' = TRUE
  /\ UNCHANGED <<history, running, waiting, past, proposal, back, npmVars, boundVars>>

\* Exit the prerelease state, if the run saw one.  The push is refused, so the
\* job can only fail, when the branch has moved.
promote ==
  /\ HasJob("promote")
  /\ finishJob("promote", {"rerun"})
  /\ IF prerelease(history[Commit])
     THEN /\ Commit = Latest
          /\ history' = Append(history, [history[Commit] EXCEPT !.mode = "exit"])
          /\ lapse' = FALSE
     ELSE UNCHANGED <<history, lapse>>
  /\ UNCHANGED <<starting, waiting, past, proposal, back, npmVars, boundVars>>

rerun ==
  /\ HasJob("rerun")
  /\ trigger("dispatch", TRUE, Latest)
  /\ finishJob("rerun", {})
  /\ UNCHANGED <<history, starting, proposal, back, npmVars, boundVars, lapse>>

\* The changesets action makes the release PR from the commit of the run.
changesets ==
  /\ HasJob("changesets")
  /\ finishJob("changesets", {})
  /\ proposal' = IF hasPendingChangesets(history[Commit]) THEN Commit ELSE proposal
  /\ UNCHANGED <<history, starting, waiting, past, back, npmVars, boundVars, lapse>>

\* It fails between the push of the PR's branch and the update of the PR.
changesetsStops ==
  /\ HasJob("changesets") /\ hasPendingChangesets(history[Commit]) /\ proposal # 0
  /\ failJob("changesets")
  /\ proposal' = Commit
  /\ UNCHANGED <<history, starting, waiting, past, back, npmVars, boundVars, lapse>>

\* The tag for npm.
dist_tag(tree) ==
  IF prerelease(tree) THEN "next"
  ELSE IF tree.version.final /\ tree.version.number > latest.number THEN "latest"
  ELSE "tmp"

\* npm refuses a version that it has: the job can only fail.  It may also fail
\* after npm took the version, before the tags or the GitHub release.
publish ==
  /\ HasJob("publish")
  /\ LET tree == history[Commit]
     IN  /\ ~ isPublishedOnNpm(tree.version)
         /\ releases' = Append(releases, [version |-> tree.version,
                                          prerelease |-> prerelease(tree)])
         /\ latest' = IF dist_tag(tree) = "latest" THEN tree.version ELSE latest
  /\ finishJob("publish", {}) \/ failJob("publish")
  /\ UNCHANGED <<history, starting, waiting, past, proposal, back, boundVars, lapse>>

mergeJob ==
  /\ HasJob("merge")
  /\ back = 0
  /\ finishJob("merge", {})
  /\ back' = Commit
  /\ UNCHANGED <<history, starting, waiting, past, proposal, npmVars, boundVars, lapse>>
-----------------------------------------------------------------------------
(* The maintainers.                                                        *)

dispatchStart ==
  /\ starting = {} /\ history = <<>>
  /\ starting' = {"branch"}
  /\ UNCHANGED <<history, running, waiting, past, proposal, back, npmVars, boundVars, lapse>>

dispatch ==
  /\ history # <<>> /\ dispatches < MaxDispatches
  /\ dispatches' = dispatches + 1
  /\ trigger("dispatch", FALSE, Latest)
  /\ UNCHANGED <<history, starting, running, proposal, back, npmVars, retries, lapse>>

\* A run is run again, all of it or the jobs that failed.
retry ==
  /\ retries < MaxRetries
  /\ retries' = retries + 1
  /\ \E run \in past :
       /\ \/ waiting' = <<[run EXCEPT !.jobs = {}]>>
          \/ run.jobs # {} /\ waiting' = <<run>>
       /\ \E kept \in over(Cancelled) : past' = (past \ {run}) \cup kept
       /\ lapse' = (lapse \/ run.commit # Latest)
  /\ UNCHANGED <<history, starting, running, proposal, back, npmVars, dispatches>>

\* Maintainers push while there is room in the bound.
pushed(tree) ==
  /\ Latest < MaxCommits
  /\ history' = Append(history, tree)
  /\ trigger("push", FALSE, Latest + 1)
  /\ lapse' = FALSE

\* The commits that brought nothing of what a tree has here.
Plain == {i \in 2 .. Latest : history[i] = history[i - 1]}

\* A commit, with a changeset or without.
commit ==
  /\ history # <<>>
  /\ \E new \in NewChangesets :
       /\ new = {} => Cardinality(Plain) < MaxPlain
       /\ pushed([history[Latest] EXCEPT !.files = @ \cup new])
  /\ UNCHANGED <<starting, running, proposal, back, npmVars, boundVars>>

\* changeset version, on the tree of the commit that the PR was made from,
\* merged into the tree of the branch.
versioned(from, onto) ==
  IF from.mode = "pre"
  THEN [onto EXCEPT !.used = from.files, !.version = Version(from.version.number + 1, FALSE)]
  ELSE Tree("none", onto.files \ from.files, {}, Version(from.version.number + 1, TRUE))

\* The release PR conflicts with another mode or version on the branch.
mergeProposal ==
  /\ proposal # 0
  /\ LET from == history[proposal]
         onto == history[Latest]
     IN  /\ from.mode = onto.mode /\ from.version = onto.version
         /\ pushed(versioned(from, onto))
  /\ proposal' = 0
  /\ UNCHANGED <<starting, running, back, npmVars, boundVars>>

mergeBack ==
  /\ back # 0
  /\ back' = 0
  /\ UNCHANGED <<history, starting, running, waiting, past, proposal, npmVars, boundVars, lapse>>

Automation ==
  \/ begin \/ stateFails \/ end \/ startBranch \/ rerunStart \/ startFails
  \/ promote \/ rerun \/ changesets \/ changesetsStops
  \/ publish \/ mergeJob \/ jobFails

Maintainers == dispatchStart \/ dispatch \/ retry \/ commit \/ mergeProposal \/ mergeBack

ReleaseNext == Automation \/ Maintainers

\* Runs are executed and jobs done or failed in the end; maintainers owe nothing.
ReleaseFairness == WF_releaseVars(Automation)

ReleaseSpec == ReleaseInit /\ [][ReleaseNext]_releaseVars /\ ReleaseFairness
-----------------------------------------------------------------------------
(* Properties. *)

\* What a run sets out to publish is newer than all that is on npm, although it
\* looked at the state when it began and the branch and failed publications
\* have gone their own ways since; so versions appear in order, each once.  A
\* run that is run again may be late with an older one.
ReleasesIncrease ==
  /\ HasJob("publish") /\ ~ running[1].again =>
       \A i \in DOMAIN releases :
         releases[i].version.number < history[Commit].version.number
  /\ \A i, j \in DOMAIN releases : releases[i].version = releases[j].version => i = j

\* Release candidates, and only they, are published as prereleases, even if the
\* branch is promoted before they are out, and npm's latest is the newest of
\* the final versions, even if an older one is published after it.
TaggedAsWhatItIs ==
  /\ \A i \in DOMAIN releases :
       /\ releases[i].prerelease = ~ releases[i].version.final
       /\ releases[i].version.final => releases[i].version.number <= latest.number
  /\ latest.final

\* Whatever runs are cancelled for newer ones, and whatever failed before, the
\* changesets on the branch end up in the release PR that is open, unless a job
\* on the way there failed since the last commit, which the workflow shows, or
\* somebody ran an older commit's run again.
EventuallyProposed ==
  <>[](history # <<>> /\ hasPendingChangesets(history[Latest]) =>
         proposal = Latest \/ lapse)
=============================================================================
