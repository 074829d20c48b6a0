------------------------ MODULE MCUploadsAndScripts ------------------------
(* How many uploads the limiter lets through, what becomes of an upload's    *)
(* tokens and contents, and the scripts that operators run on the host, on   *)
(* small instances.  They share no state: "part" says which of them a        *)
(* behaviour is about, and the others stand still.                           *)
(*                                                                           *)
(* There is a bill that uses all kinds of tokens, and one without input,     *)
(* reasoning and costs.  Spans to redact have two attributes and a depth     *)
(* that three nestings exceed.                                               *)
EXTENDS RateLimiter, TokenAccounting, Redaction, StorageMigration, ClickhouseRemediation, ProxyUpdate, TLC

VARIABLE part

Symmetry == Permutations(Files)

SomeBills ==
    {[fresh |-> 4, read |-> 2, write |-> 1, visible |-> 3, reasoning |-> 2, cost |-> 5],
     [fresh |-> 0, read |-> 1, write |-> 0, visible |-> 1, reasoning |-> 0, cost |-> 0]}

OddUsages ==
    {<<>>,
     [prompt_tokens |-> 1, cache_read_tokens |-> 3, output_tokens |-> 0, reasoning_tokens |-> 2]}

-----------------------------------------------------------------------------
(* Spans whose first or second attribute has a leaf nested in up to three nodes *)

Attribute(k, v) == [key |-> k, value |-> v]

\* Before it comes nothing, an attribute that is kept, one that is not, one
\* without a value, or one that is canonical.
Befores ==
    {<<>>,
     <<Attribute("name", Text("plain"))>>,
     <<Attribute("audio", Text("plain"))>>,
     <<Attribute("name", NoValue)>>,
     <<Attribute("principal", Text("plain")), Attribute("name", Text("media"))>>}

KindsOfKeys == {"input", "password", "audio", "principal"}

Placed(n) ==
    {<<Attribute(k, n)>> : k \in KindsOfKeys} \cup {Append(before, Attribute(InputKey, n)) : before \in Befores}

Leaves ==
    {Text(sort) : sort \in {"plain", "private_key", "bearer", "media"}}
        \cup {[kind |-> "bytes", of |-> "raw"], [kind |-> "scalar", of |-> "true"]}
        \cup [kind : {"number"}, of : {8, 9, 11}]

\* A text with a private key in it does not become a JSON node.
RECURSIVE HoldsKey(_)
HoldsKey(n) ==
    CASE n.kind = "text" -> n.of = "private_key"
      [] n.kind = "json" -> HoldsKey(n.of)
      [] n.kind \in {"object", "list"} -> \E x \in DOMAIN n.of : HoldsKey(n.of[x])
      [] OTHER -> FALSE

IsValue(n) == n.kind \in {"text", "json", "bytes", "scalar", "array", "kvlist"}

IsJSON(n) == n.kind \in {"text", "json", "number", "scalar", "object", "list"}

Around(n) ==
    LET Filled(k) == [i \in 1..k |-> IF i = k THEN n ELSE Text("plain")]
        lists == {Filled(k) : k \in {1, MaxWidth, MaxWidth + 1}}
        Object(k, others) == [x \in {k} \cup others |-> IF x = k THEN n ELSE Text("plain")]
        objects == {Object(k, {}) : k \in KindsOfKeys}
                       \cup {Object(InputKey, others) : others \in {{"audio"}, {"audio", "password", "name"}}}
    IN  UNION {IF IsValue(n) THEN [kind : {"array"}, of : lists] \cup [kind : {"kvlist"}, of : Placed(n)]
               ELSE {},
               IF IsJSON(n) THEN [kind : {"list"}, of : lists] \cup [kind : {"object"}, of : objects]
               ELSE {},
               IF n.kind \in {"object", "list"} /\ ~HoldsKey(n) THEN {[kind |-> "json", of |-> n]} ELSE {}}

More(S) == S \cup UNION {Around(n) : n \in S}

\* One more nesting, of one node only.
Deeper(S) ==
    S \cup {[kind |-> "array", of |-> <<v>>] : v \in {n \in S : IsValue(n)}}
      \cup {[kind |-> "list", of |-> <<n>>] : n \in {n \in S : IsJSON(n)}}
      \cup {[kind |-> "json", of |-> n] : n \in {n \in S : n.kind \in {"object", "list"} /\ ~HoldsKey(n)}}

Nested == More(Deeper(More(Leaves)))

SomeValues == {n \in Nested : IsValue(n)}

SomeJSONs == {n \in Nested : IsJSON(n)}

SomeUploads ==
    {<<Attribute(InputKey, v)>> : v \in SomeValues}
        \cup UNION {Placed(v) : v \in {n \in More(Leaves) : IsValue(n)}}

-----------------------------------------------------------------------------

ExportIdle == attributes = <<>> /\ exported = <<>> /\ here = NoValue /\ there = {} /\ depth = 0

\* A host without the settings.
FreshHost == RemediationInit /\ \A s \in Settings : inside[s] = "absent" /\ deployed[s] = "absent"

PartsInit ==
    /\ LimiterInit /\ Init /\ ProxyInit /\ MigrationInit
    /\ \/ part \in {"limiter", "accounting", "migration", "proxy"} /\ ExportIdle /\ FreshHost
       \/ part = "redaction" /\ ExportInit /\ FreshHost
       \/ part = "remediation" /\ ExportIdle /\ RemediationInit
    /\ part # "migration" => ~evidence

PartsNext ==
    \/ /\ part = "limiter" /\ LimiterNext
       /\ UNCHANGED <<part, vars, exportVars, migrationVars, remediationVars, proxyVars>>
    \/ /\ part = "accounting" /\ Next
       /\ UNCHANGED <<part, limiterVars, exportVars, migrationVars, remediationVars, proxyVars>>
    \/ /\ part = "redaction" /\ ExportNext
       /\ UNCHANGED <<part, limiterVars, vars, migrationVars, remediationVars, proxyVars>>
    \/ /\ part = "migration" /\ MigrationNext
       /\ UNCHANGED <<part, limiterVars, vars, exportVars, remediationVars, proxyVars>>
    \/ /\ part = "remediation" /\ RemediationNext
       /\ UNCHANGED <<part, limiterVars, vars, exportVars, migrationVars, proxyVars>>
    \/ /\ part = "proxy" /\ ProxyNext
       /\ UNCHANGED <<part, limiterVars, vars, exportVars, migrationVars, remediationVars>>

PartsSpec ==
    PartsInit /\ [][PartsNext]_<<part, limiterVars, vars, exportVars, migrationVars, remediationVars,
                               proxyVars>>
=============================================================================
