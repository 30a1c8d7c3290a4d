----------------------------- MODULE CertoraRun -----------------------------
(***************************************************************************)
(* certora/run.js of the OpenZeppelin library: it runs the prover on the   *)
(* requested specs, a bounded number at a time, collects the output of     *)
(* each child process and writes one row of a table when the child is      *)
(* done.  The children run on their own; their exit and their output reach *)
(* the program as separate events, in any order.                           *)
(***************************************************************************)
EXTENDS Integers, Sequences, SequencesExt, FiniteSets

CONSTANTS
  Specs,      \* specs.json: a sequence of [spec, contract]
  Requests,   \* the requests that may be given: [spec, contract]
  AnyContract,  \* the contract of a request that names none
  Parallel,   \* the option parallel
  LinkChunk,  \* which chunk of its output carries the link of a job
  MaxChunks   \* bound: the chunks a child writes

ASSUME CertoraAssumption ==
  /\ Specs \in Seq([spec : STRING, contract : STRING]) /\ IsInjective(Specs)
  /\ [spec |-> "spec", contract |-> "contract"] \notin Range(Specs)
  /\ Parallel \in Nat \ {0}
  /\ MaxChunks \in Nat /\ LinkChunk \in 1 .. MaxChunks

Entries == Range(Specs)

VARIABLES
  requests,   \* argv._
  all,        \* argv.all
  process,    \* the program: "up", then "exited"
  exitCode,   \* process.exitCode
  queue,      \* the calls of runCertora that wait for a place
  active,     \* the calls that wait for their child to exit
  closing,    \* the calls that wait for their output to be collected
  child,      \* for each entry, "none", "alive", "ok" or "failed"
  unread,     \* the chunks its child wrote that were not read
  collected,  \* the chunks in its stream
  table       \* the table on the standard output

jobVars == <<queue, active, closing, child, unread, collected, table>>

runVars == <<requests, all, process, exitCode, jobVars>>

match(entry, request) ==
  /\ entry.spec = request.spec
  /\ request.contract \in {AnyContract, entry.contract}

\* The specs to run.
Selected == {s \in Entries : all \/ \E r \in requests : match(s, r)}

\* specs.filter: what there is of a set of entries, in the order of specs.json.
filter(kept) ==
  LET upto[n \in 0 .. Len(Specs)] ==
        IF n = 0 THEN <<>>
        ELSE IF Specs[n] \in kept THEN Append(upto[n - 1], Specs[n]) ELSE upto[n - 1]
  IN  upto[Len(Specs)]

NotFound == {r \in requests : ~ \E s \in Selected : match(s, r)}

\* The calls that p-limit lets run.
Running == active \cup closing

Row(entry, failed, link) ==
  [row |-> entry, failed |-> failed, link |-> link]

Header == Row([spec |-> "spec", contract |-> "contract"], FALSE, FALSE)

RunInit ==
  /\ requests \in SUBSET Requests
  /\ all \in BOOLEAN
  /\ IF NotFound # {}
     THEN process = "exited" /\ exitCode = 1 /\ queue = <<>>
     ELSE process = "up" /\ exitCode = 0 /\ queue = filter(Selected)
  /\ active = {} /\ closing = {}
  /\ child = [e \in Entries |-> "none"]
  /\ unread = [e \in Entries |-> 0]
  /\ collected = [e \in Entries |-> 0]
  /\ table = <<>>

args == <<requests, all>>

\* p-limit starts the first call that waits when there is a place for it.
CanStart == process = "up" /\ queue # <<>> /\ Cardinality(Running) < Parallel

spawn ==
  /\ CanStart
  /\ queue' = Tail(queue)
  /\ active' = active \cup {Head(queue)}
  /\ child' = [child EXCEPT ![Head(queue)] = "alive"]
  /\ UNCHANGED <<args, process, exitCode, closing, unread, collected, table>>

\* The program is not there or cannot be run: waiting for the event exit
\* throws, nobody catches it and the whole process ends.
spawnFails ==
  /\ CanStart
  /\ process' = "exited" /\ exitCode' = 1
  /\ UNCHANGED <<args, jobVars>>
-----------------------------------------------------------------------------
(* The children.                                                           *)

childWrites(e) ==
  /\ child[e] = "alive"
  /\ unread[e] + collected[e] < MaxChunks
  /\ unread' = [unread EXCEPT ![e] = @ + 1]
  /\ UNCHANGED <<args, process, exitCode, queue, active, closing, child,
                 collected, table>>

childExits(e) ==
  /\ child[e] = "alive"
  /\ \E status \in {"ok", "failed"} : child' = [child EXCEPT ![e] = status]
  /\ UNCHANGED <<args, process, exitCode, queue, active, closing, unread,
                 collected, table>>
-----------------------------------------------------------------------------
(* The events.                                                             *)

\* A chunk is piped into the stream; once that is ended, the pipe is undone.
onData(e) ==
  /\ process = "up" /\ unread[e] > 0 /\ e \in active
  /\ unread' = [unread EXCEPT ![e] = @ - 1]
  /\ collected' = [collected EXCEPT ![e] = @ + 1]
  /\ UNCHANGED <<args, process, exitCode, queue, active, closing, child, table>>

\* MUTANT: the exit code of the child is only logged.
failureForgotten(e) == UNCHANGED exitCode

noteFailure(e) == exitCode' = IF child[e] = "failed" THEN 1 ELSE exitCode

\* MUTANT: the stream is not ended.
leftOpen(e) == UNCHANGED <<active, closing>>

endStream(e) == active' = active \ {e} /\ closing' = closing \cup {e}

\* The event exit: note a failure and end the stream.
onExit(e) ==
  /\ process = "up" /\ e \in active /\ child[e] \in {"ok", "failed"}
  /\ noteFailure(e)
  /\ endStream(e)
  /\ UNCHANGED <<args, process, queue, child, unread, collected, table>>

\* MUTANT: a header for every row.
headerEachTime(entry, failed, link) ==
  table' = table \o <<Header, Row(entry, failed, link)>>

writeEntry(entry, failed, link) ==
  table' = (IF table = <<>> THEN <<Header>> ELSE table)
             \o <<Row(entry, failed, link)>>

\* All of the stream is collected: write the row and give the place back.
onCollected(e) ==
  /\ process = "up" /\ e \in closing
  /\ writeEntry(e, child[e] = "failed", collected[e] >= LinkChunk)
  /\ closing' = closing \ {e}
  /\ UNCHANGED <<args, process, exitCode, queue, active, child, unread, collected>>

\* Nothing is left to wait for.
exits ==
  /\ process = "up" /\ queue = <<>> /\ Running = {}
  /\ process' = "exited"
  /\ UNCHANGED <<args, exitCode, jobVars>>

RunNext ==
  \/ spawn \/ spawnFails \/ exits
  \/ \E e \in Entries : \/ childWrites(e) \/ childExits(e)
                        \/ onData(e) \/ onExit(e) \/ onCollected(e)

\* The event loop goes on with events other than output while there are any,
\* and children do not run forever: the prover service has a time limit.
RunFairness ==
  WF_runVars(\/ spawn \/ spawnFails \/ exits
             \/ \E e \in Entries : childExits(e) \/ onExit(e) \/ onCollected(e))

RunSpec == RunInit /\ [][RunNext]_runVars /\ RunFairness
-----------------------------------------------------------------------------
(* Properties. *)

Reported == {e \in Entries : \E i \in DOMAIN table : table[i].row = e}

\* The table is one: the header comes first and once, every child that was
\* reported has one row, and the row says how its child really ended, though
\* the calls interleave at every await.
TableIsOne ==
  /\ table # <<>> => table[1] = Header
  /\ IsInjective([i \in DOMAIN table |-> table[i].row])
  /\ \A i \in DOMAIN table : table[i] # Header =>
       child[table[i].row] = (IF table[i].failed THEN "failed" ELSE "ok")

\* Continuous integration looks at the exit code: 0 means that every requested
\* spec was found, run and reported as a success, whatever went wrong or died
\* on the way.
ZeroMeansVerified ==
  process = "exited" /\ exitCode = 0 =>
    /\ \A r \in requests : \E s \in Reported : match(s, r)
    /\ \A s \in Selected : s \in Reported /\ child[s] = "ok"

\* The program ends, however its children and its events interleave: no call
\* keeps its place forever.
RunEnds == <>(process = "exited")

\* "get all output" (certora/run.js:100): what a child wrote is all there when
\* its result is written.
GetsAllOutput == \A e \in Reported : unread[e] = 0
=============================================================================
