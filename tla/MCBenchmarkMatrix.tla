-------------------------- MODULE MCBenchmarkMatrix --------------------------
(* The instance BenchmarkMatrix is checked on: the base configuration may be *)
(* edited once, between or during the invocations of the runner.             *)
EXTENDS BenchmarkMatrix

TwoPartitions == {"A", "B"}
TwoAccuracies == {90, 91}
=============================================================================
