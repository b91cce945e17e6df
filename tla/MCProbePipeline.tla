-------------------------- MODULE MCProbePipeline --------------------------
(* Two pool threads reconstruct two functions that need one or two values  *)
(* in each of two primes, the third prime being beyond the limit, or one   *)
(* function that needs four in the first: more than start_first_runs and   *)
(* the dense first probe ask for, so that it lives on the credits.         *)
EXTENDS ProbePipeline, TLC

One == {1}
Two == {1, 2}
MCNeeds == One :> [p \in 0 .. PrimeLimit |-> [One -> {IF p = 0 THEN 4 ELSE 1}]]
           @@ Two :> [p \in 0 .. PrimeLimit |-> [Two -> 1 .. 2]]
=============================================================================
