------------------------------ MODULE Redaction ------------------------------
(***************************************************************************)
(* What becomes of the attributes of one span on their way to Langfuse:    *)
(* Attributes of internal/redact, withoutCanonical and the identity that   *)
(* Canonicalize of internal/otlp adds.  Redaction walks attributes, lists  *)
(* and JSON inside of texts, to a bounded depth and width, and Go picks    *)
(* the order in which the members of a JSON object are visited: cleaning   *)
(* is the set of results that some order leads to.                         *)
(*                                                                         *)
(* A node is [kind, of].  A text is of a sort, what sanitizeString tells   *)
(* apart.  "json" is a text that parses, holds no private key and is of at *)
(* most 1 MiB, and its node.  A scalar is any other OTLP or JSON value.    *)
(***************************************************************************)
EXTENDS Integers, Sequences, FiniteSets, FiniteSetsExt, Functions

CONSTANTS
    MaxDepth, MaxWidth,                      \* 12 and 256 in redact.go
    MaxExact,                                \* integers above it are rounded by a double
    Keys, AudioKeys, CredentialKeys,         \* by normalizedKey and containsTerm
    CanonicalKeys, IdentityKey,              \* canonicalKeys, and one of them
    InputKey, ObservedKey,                   \* what a turn's input is, and is shown as
    Values, JSONs,                           \* what clients upload, and what is in it
    Uploads                                  \* the attributes of a span

Nodes == Values \cup JSONs

Lists == {n \in Values : n.kind = "kvlist"}

NoValue == [kind |-> "none", of |-> 0]

Attributes == [key : Keys, value : Values \cup {NoValue}]

ASSUME RedactionAssumption ==
    /\ MaxDepth \in Nat /\ MaxWidth \in Nat /\ MaxExact \in Nat
    /\ {IdentityKey, ObservedKey} \subseteq CanonicalKeys
    /\ Uploads \subseteq Seq(Attributes)
    /\ \A v \in Values :
          \/ v.kind \in {"text", "bytes", "scalar"}
          \/ v.kind = "json" /\ v.of \in JSONs /\ v.of.kind \in {"list", "object"}
          \/ v.kind = "array" /\ v.of \in Seq(Values)
          \/ v.kind = "kvlist" /\ v.of \in Seq(Attributes)
    /\ \A n \in JSONs :
          \/ n.kind \in {"text", "number", "scalar"}
          \/ n.kind = "json" /\ n.of \in JSONs /\ n.of.kind \in {"list", "object"}
          \/ n.kind = "list" /\ n.of \in Seq(JSONs)
          \/ n.kind = "object" /\ n.of \in [DOMAIN n.of -> JSONs]

VARIABLES
    attributes,           \* the attributes of the span that is uploaded
    exported,             \* what the gateway makes of them
    here, there, depth    \* a reader: where it is in the upload, if anywhere,
                          \* and in the export, and how deep it is

exportVars == <<attributes, exported, here, there, depth>>

Text(sort) == [kind |-> "text", of |-> sort]

Replacement == Text("replacement")

Descriptor == Text("descriptor")

-----------------------------------------------------------------------------
(* Cleaning: "below" is what cleaning makes of the nodes one level deeper *)

\* One result for each place, in every combination.
Combinations(options) ==
    {f \in [DOMAIN options -> UNION Range(options)] :
        \A x \in DOMAIN options : f[x] \in options[x]}

\* A JSON number becomes a double: ties go to the even significand.
Double(n) ==
    IF n <= MaxExact \/ n % 2 = 0 THEN n ELSE IF n % 4 = 1 THEN n - 1 ELSE n + 1

Cut(s) == IF Len(s) > MaxWidth THEN SubSeq(s, 1, MaxWidth) ELSE s

\* Mutant: raw audio ends the walk instead of being skipped.
StopAtAudio(attrs) ==
    Min({i \in DOMAIN attrs : i > MaxWidth \/ attrs[i].value.kind = "none"
                                 \/ attrs[i].key \in AudioKeys} \cup {Len(attrs) + 1})

\* The first attribute that is not looked at: past the limit, or no value.
Stop(attrs) ==
    Min({i \in DOMAIN attrs : i > MaxWidth \/ attrs[i].value.kind = "none"} \cup {Len(attrs) + 1})

\* The attributes of other keys, in their order.
Without(attrs, keys) ==
    LET kept[i \in 0..Len(attrs)] ==
            IF i = 0 THEN <<>>
            ELSE IF attrs[i].key \in keys THEN kept[i - 1] ELSE Append(kept[i - 1], attrs[i])
    IN  kept[Len(attrs)]

AttributesAtDepth(attrs, level, below) ==
    LET kept == Without(SubSeq(attrs, 1, Stop(attrs) - 1), AudioKeys)
        Cleaned(a) == IF a.key \in CredentialKeys THEN {Replacement} ELSE below.value[a.value]
    IN  IF level > MaxDepth THEN {<<>>}
        ELSE Combinations([i \in DOMAIN kept |-> [key : {kept[i].key}, value : Cleaned(kept[i])]])

SanitizeString(t, level, below) ==
    CASE t \in {Text("private_key"), Text("bearer")} -> {Replacement}
      [] t = Text("media") -> {Descriptor}
      [] t.kind = "json" /\ level <= MaxDepth -> [kind : {"json"}, of : below.json[t.of]]
      [] OTHER -> {t}

SanitizeValue(v, level, below) ==
    CASE level > MaxDepth -> {Replacement}
      [] level <= MaxDepth /\ v.kind \in {"text", "json"} -> SanitizeString(v, level, below)
      [] level <= MaxDepth /\ v.kind = "bytes" -> {Descriptor}
      [] level <= MaxDepth /\ v.kind = "array" ->
             LET values == Cut(v.of)
             IN  [kind : {"array"},
                  of : Combinations([i \in DOMAIN values |-> below.value[values[i]]])]
      [] level <= MaxDepth /\ v.kind = "kvlist" ->
             [kind : {"kvlist"}, of : below.attributes[v]]
      [] OTHER -> {v}

\* The members of an object that Go may come to before the limit.
Visits(members) ==
    IF Cardinality(members) <= MaxWidth THEN {members} ELSE kSubset(MaxWidth, members)

SanitizeJSON(n, level, below) ==
    CASE level > MaxDepth -> {Replacement}
      [] level <= MaxDepth /\ n.kind = "object" ->
             LET Cleaned(seen) ==
                     [k \in seen \ AudioKeys |->
                         IF k \in CredentialKeys THEN {Replacement} ELSE below.json[n.of[k]]]
             IN  [kind : {"object"},
                  of : UNION {Combinations(Cleaned(seen)) : seen \in Visits(DOMAIN n.of)}]
      [] level <= MaxDepth /\ n.kind = "list" ->
             LET items == Cut(n.of)
             IN  [kind : {"list"},
                  of : Combinations([i \in DOMAIN items |-> below.json[items[i]]])]
      [] level <= MaxDepth /\ n.kind \in {"text", "json"} -> below.string[n]
      [] level <= MaxDepth /\ n.kind = "number" -> {[kind |-> "number", of |-> Double(n.of)]}
      [] OTHER -> {n}

Level(level, below) ==
    [string     |-> [t \in Nodes |-> SanitizeString(t, level, below)],
     value      |-> [v \in Nodes |-> SanitizeValue(v, level, below)],
     json       |-> [n \in Nodes |-> SanitizeJSON(n, level, below)],
     attributes |-> [l \in Lists |-> AttributesAtDepth(l.of, level, below)]]

Sanitized[level \in 0..(MaxDepth + 1)] == Level(level, Sanitized[level + 1])

-----------------------------------------------------------------------------
(* Canonicalization *)

WithoutCanonical(attrs) ==
    {Without(clean, CanonicalKeys) : clean \in AttributesAtDepth(attrs, 0, Sanitized[1])}

\* projectRelayForLangfuse for a turn: its input, if it is a text, is shown.
Projected(attrs) ==
    LET inputs == {i \in DOMAIN attrs : attrs[i].key = InputKey}
        value == attrs[Min(inputs)].value
    IN  IF inputs # {} /\ value.kind \in {"text", "json"}
        THEN Append(attrs, [key |-> ObservedKey, value |-> value]) ELSE attrs

Identity == [key |-> IdentityKey, value |-> Text("principal")]

Exports(attrs) == {Append(Projected(clean), Identity) : clean \in WithoutCanonical(attrs)}

-----------------------------------------------------------------------------
(* A reader goes from node to node, in upload and export alike or in the export alone *)

List(attrs) == [kind |-> "kvlist", of |-> attrs]

\* The ways from a node to the nodes in it, what they cost of the depth, and
\* whether redaction keeps them: not past a limit, behind an attribute without
\* a value, or under raw audio.
Ways(n) ==
    LET Way(at, to, cost, open) == [at |-> <<n.kind, at>>, to |-> to, cost |-> cost, open |-> open]
        Valued(i) == \A j \in 1..i : n.of[j].value.kind # "none"
        JSONCost(to) == IF to.kind \in {"text", "json"} THEN 2 ELSE 1
    IN  CASE n.kind = "array" -> {Way(i, n.of[i], 1, i <= MaxWidth) : i \in DOMAIN n.of}
          [] n.kind = "list" -> {Way(i, n.of[i], JSONCost(n.of[i]), i <= MaxWidth) : i \in DOMAIN n.of}
          [] n.kind = "kvlist" ->
                 {Way(n.of[i].key, n.of[i].value, 2,
                      i <= MaxWidth /\ Valued(i) /\ n.of[i].key \notin AudioKeys) : i \in DOMAIN n.of}
          [] n.kind = "object" ->
                 {Way(k, n.of[k], JSONCost(n.of[k]),
                      Cardinality(DOMAIN n.of) <= MaxWidth /\ k \notin AudioKeys) : k \in DOMAIN n.of}
          [] n.kind = "json" -> {Way("text", n.of, 1, TRUE)}
          [] OTHER -> {}

Places(keys) == {"kvlist", "object"} \X keys

ExportInit ==
    /\ attributes \in Uploads
    /\ exported = <<>> /\ here = NoValue /\ there = {} /\ depth = 0

Canonicalized ==
    /\ exported = <<>>
    /\ exported' \in Exports(attributes)
    /\ here' = List(attributes)
    /\ there' = {List(exported')}
    /\ depth' = -1
    /\ UNCHANGED attributes

Follow ==
    /\ \E w \in Ways(here) :
          /\ w.open /\ depth + w.cost <= MaxDepth
          /\ depth = -1 => w.at \notin Places(CanonicalKeys)
          /\ here' = IF w.at \in Places(CredentialKeys) THEN Replacement ELSE w.to
          /\ there' = {x.to : x \in {x \in UNION {Ways(m) : m \in there} : x.at = w.at}}
          /\ depth' = depth + w.cost
    /\ UNCHANGED <<attributes, exported>>

Browse ==
    /\ here = NoValue \/ depth = -1
    /\ \E w \in UNION {Ways(m) : m \in there} :
          /\ depth + w.cost <= MaxDepth
          /\ depth = -1 => w.at \notin Places(CanonicalKeys)
          /\ there' = {w.to}
          /\ depth' = depth + w.cost
    /\ here' = NoValue
    /\ UNCHANGED <<attributes, exported>>

ExportNext == Canonicalized \/ Follow \/ Browse

ExportSpec == ExportInit /\ [][ExportNext]_exportVars

-----------------------------------------------------------------------------
(* Properties *)

\* What a leaf is turned into.
Image(leaf) ==
    CASE leaf \in {Text("private_key"), Text("bearer")} -> Replacement
      [] leaf.kind = "bytes" \/ leaf = Text("media") -> Descriptor
      [] leaf.kind = "number" -> [kind |-> "number", of |-> Double(leaf.of)]
      [] OTHER -> leaf

\* Within the depth and the width of the walk every text, number and media of a
\* span reaches Langfuse as itself, as a double, as [REDACTED] or as a descriptor,
\* at the place where it was, through any nesting of lists, maps and JSON texts
\* and in whatever order Go visits a map.
ContentSurvives ==
    here.kind \in {"text", "bytes", "number", "scalar"} => Image(here) \in there

\* Within the depth, in whatever it is nested, nothing in the export is a private
\* key, a bearer token or media, lies under a key of raw audio, or under one of a
\* credential if it is not [REDACTED].
PrivateIsGone ==
    here = NoValue \/ depth = -1 =>
        \A m \in there :
            /\ m \notin {Text("private_key"), Text("bearer"), Text("media")} /\ m.kind # "bytes"
            /\ \A w \in Ways(m) :
                  \/ depth = -1 /\ w.at \in Places(CanonicalKeys)
                  \/ /\ w.at \notin Places(AudioKeys)
                     /\ w.at \in Places(CredentialKeys) => w.to = Replacement

\* Redaction takes away all that it is meant to, and nothing beside it.
RedactionIsExact == ContentSurvives /\ PrivateIsGone
=============================================================================
