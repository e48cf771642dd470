---------------------------- MODULE MCBenchmark ----------------------------
(***************************************************************************)
(* A small instance of Benchmark, under the rules of the command line.     *)
(***************************************************************************)
EXTENDS Benchmark, TLC

CONSTANTS writer, reader, r1, r2

MCBaselines == <<"B0_NATIVE", "B3_AI">>

Asked(kind, workload) ==
  [kind |-> kind, workload |-> workload, seed |-> 1, model |-> "default"]

\* Users who fill directories share nothing: one of them, and one who reads.
MCCommands ==
  writer :> {Asked("gate", "E_MIXED"), Asked("matrix", "D_CAUSAL_DAG"),
             [Asked("run", "B_ELASTIC_CPU") EXCEPT !.model = "given"]
               @@ ("baseline" :> "B3_AI")}
  @@ reader :> {Asked("compare", "E_MIXED")}

Returned(checks, hash) == [checks |-> checks, hash |-> hash]

\* Runs that pass, with two hashes; one whose checks fail and one that has none.
MCOutcomes ==
  {Returned("hold", 1), Returned("hold", 2), Returned("fail", 1), Returned("none", 1)}

\* A model that abstains, one that asks for something and one that asks for too much.
MCAnswers ==
  {Null, Drafted("SET_CPU_BUDGET_FRACTION", 45), Drafted("SET_CPU_BUDGET_FRACTION", 90)}

Interchangeable == Permutations({r1, r2})
=============================================================================
