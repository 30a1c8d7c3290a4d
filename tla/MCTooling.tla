----------------------------- MODULE MCTooling ------------------------------
(***************************************************************************)
(* The instances of the library's tooling: the prover runner, the release  *)
(* workflow and the scripts.  They share nothing, so a behaviour is one of *)
(* a single tool, the subject, and the others have nothing to do.          *)
(***************************************************************************)
EXTENDS CertoraRun, ReleaseCycle, DocsBranch, MigrateImports, InheritanceOrder,
        GasReport

VARIABLE subject  \* the tool that runs

toolingVars == <<subject, runVars, releaseVars, docsVars, importVars, orderVars, gasVars>>
-----------------------------------------------------------------------------
(* One spec runs on two contracts, another on one; requests come with and  *)
(* without a contract, and one finds nothing.                              *)

Entry(s, c) == [spec |-> s, contract |-> c]

MCSpecs == <<Entry("Ownable", "OwnableHarness"), Entry("ERC20", "PermitHarness"),
             Entry("ERC20", "WrapperHarness")>>

Unfound == Entry("ERC20", "OwnableHarness")

MCRequests == {Entry("Ownable", AnyContract), Entry("ERC20", AnyContract),
               Entry("ERC20", "WrapperHarness"), Unfound}
-----------------------------------------------------------------------------
(* Three Solidity files in two directories and five rows of the table, two *)
(* of them with one new path; a file may have an import twice.             *)

MCDirectories == [contracts |-> <<"A.sol", "notes.md", "lib">>, lib |-> <<"B.sol", "C.sol">>]

MCSolidity == {"A.sol", "B.sol", "C.sol"}

MCUpdates == << <<"math/Math", "utils/math/Math">>,
                <<"utils/PaymentSplitter", "finance/PaymentSplitter">>,
                <<"payment/PaymentSplitter", "finance/PaymentSplitter">>,
                <<"GSN/Context", "utils/Context">>,
                <<"utils/EnumerableSet", "utils/structs/EnumerableSet">> >>

C(path) == Import("contracts", path)

U(path) == Import("upgradeable", path)

MCContents ==
  { <<C("math/Math"), U("math/Math"), C("math/Math"), C("GSN/Context")>>,
    <<C("payment/PaymentSplitter"), C("utils/Context"), C("utils/PaymentSplitter")>>,
    <<U("utils/EnumerableSet"), C("access/Ownable")>>,
    <<C("utils/structs/EnumerableSet")>> }

ASSUME MigrationAssumption == AllUnderRoot
-----------------------------------------------------------------------------
(* A tool that does not run is in one of its initial states.               *)

ToolingInit ==
  /\ subject \in {"prover", "release", "docs", "imports", "order", "gas"}
  /\ RunInit /\ (subject # "prover" => requests = {Unfound} /\ all)
  /\ ReleaseInit
  /\ DocsInit
  /\ ImportsInit /\ (subject # "imports" => disk = [f \in Solidity |-> <<C("utils/structs/EnumerableSet")>>])
  /\ OrderInit
  /\ GasInit /\ (subject # "gas" => update = ref /\ DOMAIN ref.methods = {})

ToolingNext ==
  \/ /\ subject = "prover" /\ RunNext
     /\ UNCHANGED <<subject, releaseVars, docsVars, importVars, orderVars, gasVars>>
  \/ /\ subject = "release" /\ ReleaseNext
     /\ UNCHANGED <<subject, runVars, docsVars, importVars, orderVars, gasVars>>
  \/ /\ subject = "docs" /\ DocsNext
     /\ UNCHANGED <<subject, runVars, releaseVars, importVars, orderVars, gasVars>>
  \/ /\ subject = "imports" /\ ImportsNext
     /\ UNCHANGED <<subject, runVars, releaseVars, docsVars, orderVars, gasVars>>
  \/ /\ subject = "order" /\ define
     /\ UNCHANGED <<subject, runVars, releaseVars, docsVars, importVars, gasVars>>
  \/ /\ subject = "gas" /\ measure
     /\ UNCHANGED <<subject, runVars, releaseVars, docsVars, importVars, orderVars>>

ToolingSpec ==
  /\ ToolingInit /\ [][ToolingNext]_toolingVars
  /\ RunFairness /\ ReleaseFairness
=============================================================================
