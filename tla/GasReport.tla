----------------------------- MODULE GasReport ------------------------------
(***************************************************************************)
(* scripts/checks/compareGasReports.js of the OpenZeppelin library: the    *)
(* gas that methods and deployments cost in a pull request (update) beside *)
(* that of its base branch (ref).  Two test runs write the reports, call   *)
(* by call.  Percentages, sorting and formatting are left out, and the     *)
(* reports have the same metadata: others are refused.                     *)
(***************************************************************************)
EXTENDS Integers, Sequences, FiniteSets, FiniteSetsExt, Functions, SequencesExt

CONSTANTS
  Names,     \* the methods and contracts
  Gas,       \* what a call may cost
  Lengths,   \* the lengths that bytecode may have
  MaxCalls   \* bound: the calls of both test runs

ASSUME GasAssumption == Gas \subseteq Nat /\ Lengths \subseteq Nat /\ MaxCalls \in Nat

VARIABLES
  update,  \* the report of the pull request
  ref      \* that of the base branch

gasVars == <<update, ref>>

sum(gasData) == FoldFunction(+, 0, gasData)

\* Math.round(average(...))
average(gasData) == (2 * sum(gasData) + Len(gasData)) \div (2 * Len(gasData))

variation(current, previous) ==
  [value |-> current, finite |-> TRUE, delta |-> current - previous]

\* The variation to an empty list of calls, whose minimum and maximum are
\* infinite and whose average is not a number.
unmeasured(current) == [value |-> current, finite |-> FALSE, delta |-> 0]

Equal(row) ==
  \A column \in DOMAIN row.cells : row.cells[column].finite /\ row.cells[column].delta = 0

\* A report that lists some methods and contracts and knows of no call yet.
Blank(listed, length) ==
  [methods |-> [name \in listed |-> <<>>],
   deployments |-> [name \in listed |-> [length |-> length, gasData |-> <<>>]]]

GasInit ==
  /\ update \in {Blank(listed, length) : listed \in SUBSET Names, length \in Lengths}
  /\ ref \in {Blank(listed, length) : listed \in SUBSET Names, length \in Lengths}

Calls(report) ==
  FoldFunction(+, 0, [name \in DOMAIN report.methods |->
    Len(report.methods[name]) + Len(report.deployments[name].gasData)])

\* The gas reporter adds a call of a method, or the deployment of a contract.
Measured(report, name, gas) ==
  {[report EXCEPT !.methods[name] = Append(@, gas)],
   [report EXCEPT !.deployments[name].gasData = Append(@, gas)]}

measure ==
  /\ Calls(update) + Calls(ref) < MaxCalls
  /\ \E gas \in Gas :
       \/ /\ \E name \in DOMAIN update.methods : update' \in Measured(update, name, gas)
          /\ UNCHANGED ref
       \/ /\ \E name \in DOMAIN ref.methods : ref' \in Measured(ref, name, gas)
          /\ UNCHANGED update

GasSpec == GasInit /\ [][measure]_gasVars
-----------------------------------------------------------------------------
(* Report.compare.                                                         *)

deploymentRows(new, old) ==
  LET measured == {name \in DOMAIN new.deployments \cap DOMAIN old.deployments :
                     new.deployments[name].gasData # <<>> /\ old.deployments[name].gasData # <<>>}
  IN  UNION {
        {[name |-> name, what |-> "[bytecode length]",
          cells |-> [avg |-> variation(new.deployments[name].length, old.deployments[name].length)]],
         [name |-> name, what |-> "[construction cost]",
          cells |-> [avg |-> variation(average(new.deployments[name].gasData),
                                       average(old.deployments[name].gasData))]]}
        : name \in measured}

\* MUTANT: the columns of the old report are read from the new one.
cellsOfNew(new, old) ==
  IF old = <<>>
  THEN [min |-> unmeasured(Min(Range(new))), max |-> unmeasured(Max(Range(new))),
        avg |-> unmeasured(average(new))]
  ELSE [min |-> variation(Min(Range(new)), Min(Range(old))),
        max |-> variation(Max(Range(new)), Max(Range(new))),
        avg |-> variation(average(new), average(old))]

cellsOf(new, old) ==
  IF old = <<>>
  THEN [min |-> unmeasured(Min(Range(new))), max |-> unmeasured(Max(Range(new))),
        avg |-> unmeasured(average(new))]
  ELSE [min |-> variation(Min(Range(new)), Min(Range(old))),
        max |-> variation(Max(Range(new)), Max(Range(old))),
        avg |-> variation(average(new), average(old))]

\* MUTANT: more calls than before may be compared as well.
comparedMore(new, old, strictTesting) ==
  {name \in DOMAIN new.methods \cap DOMAIN old.methods :
     /\ new.methods[name] # <<>>
     /\ strictTesting => Len(new.methods[name]) >= Len(old.methods[name])}

compared(new, old, strictTesting) ==
  {name \in DOMAIN new.methods \cap DOMAIN old.methods :
     /\ new.methods[name] # <<>>
     /\ strictTesting => Len(new.methods[name]) = Len(old.methods[name])}

methodRows(new, old, strictTesting) ==
  {[name |-> name, what |-> "call", cells |-> cellsOf(new.methods[name], old.methods[name])]
     : name \in compared(new, old, strictTesting)}

compare(new, old, hideEqual, strictTesting) ==
  {row \in deploymentRows(new, old) \cup methodRows(new, old, strictTesting) :
     hideEqual => ~ Equal(row)}
-----------------------------------------------------------------------------
(* Properties. *)

Opposite(row) ==
  [row EXCEPT !.cells = [column \in DOMAIN row.cells |->
     [finite |-> row.cells[column].finite, value |-> row.cells[column].value - row.cells[column].delta,
      delta |-> - row.cells[column].delta]]]

\* With strict testing, the base branch compared with the pull request gives
\* the same rows with the opposite changes: nothing measured by one of the test
\* runs only is compared.
StrictIsSymmetric ==
  \A hideEqual \in BOOLEAN :
    compare(ref, update, hideEqual, TRUE) =
      {Opposite(row) : row \in compare(update, ref, hideEqual, TRUE)}

\* A method each call of which costs more than every call did before is shown
\* as dearer in all three columns, however often it was called, and one that was
\* never called before is listed, with nothing that looks like a comparison.
RegressionsShown ==
  \A name \in DOMAIN update.methods \cap DOMAIN ref.methods :
    LET new == update.methods[name]
        old == ref.methods[name]
    IN  new # <<>> /\ (\A i \in DOMAIN new, j \in DOMAIN old : new[i] > old[j]) =>
          \E row \in compare(update, ref, TRUE, FALSE) :
            /\ row.name = name /\ row.what = "call"
            /\ \A column \in DOMAIN row.cells :
                 /\ row.cells[column].finite <=> old # <<>>
                 /\ row.cells[column].finite => row.cells[column].delta > 0
=============================================================================
