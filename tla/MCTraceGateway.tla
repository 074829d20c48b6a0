--------------------------- MODULE MCTraceGateway ---------------------------
(* TraceGateway on small instances. *)
EXTENDS TraceGateway, TLC

\* One answer of each class, a rejection the operator can fix, a 2xx whose body
\* cannot be read, and no answer at all.
AllResponses ==
    {[status |-> 0, failed |-> TRUE],
     [status |-> 200, failed |-> FALSE], [status |-> 200, failed |-> TRUE],
     [status |-> 503, failed |-> FALSE], [status |-> 401, failed |-> FALSE],
     [status |-> 422, failed |-> FALSE]}

Symmetry == Permutations(Keys)
=============================================================================
