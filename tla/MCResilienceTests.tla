--------------------------- MODULE MCResilienceTests ---------------------------
(* Constants for ResilienceTests. *)
EXTENDS ResilienceTests

Fault(id, type, delay) == [id |-> id, type |-> type, delay |-> delay]
Left(faults, n) == [Empty EXCEPT !.faults = faults, !.issued = n]

\* Nothing; the faults of killed runs of R03, R04 and R05; some killed runs of
\* R02, whose latencies add up (20: retried after lost replies).
MCLeftovers ==
  {Empty, Left({Fault(1, "kill", 0)}, 1), Left({Fault(1, "queue-starve", 0)}, 1),
   Left({Fault(1, "latency", 3), Fault(2, "kill", 0)}, 2)}
  \cup {Left({Fault(i, "latency", 4) : i \in 1 .. n}, n) : n \in {1, 4, 20}}

MCBackoff == << {1}, {1}, {2, 4} >>
===============================================================================
