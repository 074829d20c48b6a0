----------------------- MODULE CanonicalizationProofs -----------------------
(***************************************************************************)
(* The two halves of Canonicalize.  Langfuse shows the bill of an attempt, *)
(* whatever the attempt costs, in whichever convention its provider        *)
(* reports it, and however calls and their attempts fall into uploads.     *)
(* And redaction leaves everything of a span in its place that it is not   *)
(* meant to take away, and takes away all that it is, for every tree of    *)
(* values and every limit.                                                 *)
(***************************************************************************)
EXTENDS TokenAccounting, Redaction, SetLemmas

-----------------------------------------------------------------------------
(* The details of a usage *)

\* The first path that has a count decides.
LEMMA FirstIs ==
    ASSUME NEW usage, NEW paths, DOMAIN paths \subseteq Int, NEW n \in DOMAIN paths,
           paths[n] \in DOMAIN usage,
           \A i \in DOMAIN paths : i < n => paths[i] \notin DOMAIN usage
    PROVE  FirstTokenCount(usage, paths) = {usage[paths[n]]}
  <1> DEFINE found == {i \in DOMAIN paths : paths[i] \in DOMAIN usage}
  <1>1. n \in found /\ \A i \in found : n <= i
    OBVIOUS
  <1>2. Min(found) = n
    <2>1. \A x \in found : (\A y \in found : x <= y) => x = n
      BY <1>1
    <2> HIDE DEF found
    <2> QED BY <1>1, <2>1 DEF Min
  <1> QED BY <1>1, <1>2 DEF FirstTokenCount

LEMMA FirstIsNone ==
    ASSUME NEW usage, NEW paths, \A i \in DOMAIN paths : paths[i] \notin DOMAIN usage
    PROVE  FirstTokenCount(usage, paths) = {}
  BY DEF FirstTokenCount

LEMMA CountOf == ASSUME NEW n PROVE Count({n}) = n
  BY DEF Count

LEMMA CountOfNone == Count({}) = 0
  BY DEF Count

\* The parts of a bill are natural numbers.
LEMMA BillParts ==
    ASSUME NEW bill \in Bills
    PROVE  /\ bill.fresh \in Nat /\ bill.read \in Nat /\ bill.write \in Nat
           /\ bill.visible \in Nat /\ bill.reasoning \in Nat /\ bill.cost \in Nat
           /\ TokensOf(bill) \in 0..MaxInt
  BY AccountingAssumption DEF Bill, TokensOf

\* Where the numbers fit nothing wraps.
LEMMA NothingWraps == ASSUME NEW n \in 0..MaxInt PROVE Wrapped(n) = n
  <1>1. MaxInt \in Nat
    BY AccountingAssumption
  <1> DEFINE m == n + MaxInt + 1
             w == 2 * MaxInt + 2
  <1>2. m \in Nat /\ w \in Nat \ {0} /\ m < w
    BY <1>1
  <1>3. m % w = m
    <2> HIDE DEF m, w
    <2> QED BY <1>2
  <1> QED BY <1>1, <1>3 DEF Wrapped

\* What a usage in the convention of chat completions counts.
LEMMA ChatCounts ==
    ASSUME NEW bill \in Bills, NEW r, r = Report("chat", bill)
    PROVE  /\ InputTokens(r) = {bill.fresh + bill.read + bill.write}
           /\ OutputTokens(r) = {bill.visible + bill.reasoning}
           /\ TotalTokens(r) = {bill.fresh + bill.read + bill.write + (bill.visible + bill.reasoning)}
           /\ CacheRead(r) = {bill.read} /\ CacheWrite(r) = {bill.write}
           /\ Reasoning(r) = {bill.reasoning}
           /\ InputIncludesCache(r)
  <1>1. r = [prompt_tokens |-> bill.fresh + bill.read + bill.write,
             completion_tokens |-> bill.visible + bill.reasoning,
             total_tokens |-> bill.fresh + bill.read + bill.write + (bill.visible + bill.reasoning),
             prompt_tokens_details_cached_tokens |-> bill.read,
             prompt_tokens_details_cache_creation_tokens |-> bill.write,
             completion_tokens_details_reasoning_tokens |-> bill.reasoning]
    BY DEF Report
  <1>2. InputTokens(r) = {r["prompt_tokens"]}
    BY <1>1, FirstIs DEF InputTokens
  <1>3. OutputTokens(r) = {r["completion_tokens"]}
    BY <1>1, FirstIs DEF OutputTokens
  <1>4. TotalTokens(r) = {r["total_tokens"]}
    BY <1>1, FirstIs DEF TotalTokens
  <1>5. CacheRead(r) = {r["prompt_tokens_details_cached_tokens"]}
    BY <1>1, FirstIs DEF CacheRead
  <1>6. CacheWrite(r) = {r["prompt_tokens_details_cache_creation_tokens"]}
    BY <1>1, FirstIs DEF CacheWrite
  <1>7. Reasoning(r) = {r["completion_tokens_details_reasoning_tokens"]}
    BY <1>1, FirstIs DEF Reasoning
  <1>8. InputIncludesCache(r)
    BY <1>1 DEF InputIncludesCache
  <1> QED BY <1>1, <1>2, <1>3, <1>4, <1>5, <1>6, <1>7, <1>8

\* What a usage in the convention of responses counts: no total.
LEMMA ResponsesCounts ==
    ASSUME NEW bill \in Bills, NEW r, r = Report("responses", bill)
    PROVE  /\ InputTokens(r) = {bill.fresh + bill.read + bill.write}
           /\ OutputTokens(r) = {bill.visible + bill.reasoning}
           /\ TotalTokens(r) = {}
           /\ CacheRead(r) = {bill.read} /\ CacheWrite(r) = {bill.write}
           /\ Reasoning(r) = {bill.reasoning}
           /\ InputIncludesCache(r)
  <1>1. r = [input_tokens |-> bill.fresh + bill.read + bill.write,
             output_tokens |-> bill.visible + bill.reasoning,
             input_tokens_details_cached_tokens |-> bill.read,
             input_tokens_details_cache_creation_tokens |-> bill.write,
             output_tokens_details_reasoning_tokens |-> bill.reasoning]
    BY DEF Report
  <1>2. InputTokens(r) = {r["input_tokens"]}
    BY <1>1, FirstIs DEF InputTokens
  <1>3. OutputTokens(r) = {r["output_tokens"]}
    BY <1>1, FirstIs DEF OutputTokens
  <1>4. TotalTokens(r) = {}
    BY <1>1, FirstIsNone DEF TotalTokens
  <1>5. CacheRead(r) = {r["input_tokens_details_cached_tokens"]}
    BY <1>1, FirstIs DEF CacheRead
  <1>6. CacheWrite(r) = {r["input_tokens_details_cache_creation_tokens"]}
    BY <1>1, FirstIs DEF CacheWrite
  <1>7. Reasoning(r) = {r["output_tokens_details_reasoning_tokens"]}
    BY <1>1, FirstIs DEF Reasoning
  <1>8. InputIncludesCache(r)
    BY <1>1 DEF InputIncludesCache
  <1> QED BY <1>1, <1>2, <1>3, <1>4, <1>5, <1>6, <1>7, <1>8

\* What a usage in the convention of messages counts: the cache apart from the
\* input, no reasoning and no total.
LEMMA MessagesCounts ==
    ASSUME NEW bill \in Bills, NEW r, r = Report("messages", bill)
    PROVE  /\ InputTokens(r) = {bill.fresh}
           /\ OutputTokens(r) = {bill.visible + bill.reasoning}
           /\ TotalTokens(r) = {}
           /\ CacheRead(r) = {bill.read} /\ CacheWrite(r) = {bill.write}
           /\ Reasoning(r) = {}
           /\ ~InputIncludesCache(r)
  <1>1. r = [input_tokens |-> bill.fresh,
             output_tokens |-> bill.visible + bill.reasoning,
             cache_read_input_tokens |-> bill.read,
             cache_creation_input_tokens |-> bill.write]
    BY DEF Report
  <1>2. InputTokens(r) = {r["input_tokens"]}
    BY <1>1, FirstIs DEF InputTokens
  <1>3. OutputTokens(r) = {r["output_tokens"]}
    BY <1>1, FirstIs DEF OutputTokens
  <1>4. TotalTokens(r) = {}
    BY <1>1, FirstIsNone DEF TotalTokens
  <1>5. CacheRead(r) = {r["cache_read_input_tokens"]}
    BY <1>1, FirstIs DEF CacheRead
  <1>6. CacheWrite(r) = {r["cache_creation_input_tokens"]}
    BY <1>1, FirstIs DEF CacheWrite
  <1>7. Reasoning(r) = {}
    BY <1>1, FirstIsNone DEF Reasoning
  <1>8. ~InputIncludesCache(r)
    BY <1>1 DEF InputIncludesCache
  <1> QED BY <1>1, <1>2, <1>3, <1>4, <1>5, <1>6, <1>7, <1>8

-----------------------------------------------------------------------------
(* The sum of a usage's parts *)

Parts == {"input", "output", "input_cached_tokens", "input_cache_creation",
          "output_reasoning_tokens"}

Option == {{}} \cup {{n} : n \in Nat}

Sum(kinds) ==
    Count(kinds.input) + Count(kinds.output) + Count(kinds.input_cached_tokens)
        + Count(kinds.input_cache_creation) + Count(kinds.output_reasoning_tokens)

LEMMA CountType == ASSUME NEW option \in Option PROVE Count(option) \in Nat
  <1>1. CASE option = {}
    BY <1>1, CountOfNone
  <1>2. CASE option # {}
    <2>1. PICK n \in Nat : option = {n}
      BY <1>2 DEF Option
    <2> QED BY <2>1, CountOf
  <1> QED BY <1>1, <1>2

\* One place apart, whether it is there or not.
LEMMA TotalApart ==
    ASSUME NEW S, IsFiniteSet(S), NEW f, \A x \in S : f[x] \in Nat, NEW m
    PROVE  /\ Total(f, S) = (IF m \in S THEN f[m] ELSE 0) + Total(f, S \ {m})
           /\ Total(f, S) \in Nat /\ IsFiniteSet(S \ {m})
  <1>1. Total(f, S) \in Nat /\ IsFiniteSet(S \ {m})
    BY TotalType, FS_Subset
  <1>2. CASE m \in S
    BY <1>1, <1>2, TotalWithout
  <1>3. CASE m \notin S
    <2>1. S \ {m} = S
      BY <1>3
    <2> QED BY <1>1, <1>3, <2>1
  <1> QED BY <1>2, <1>3

LEMMA PartsSum ==
    ASSUME NEW S \in SUBSET Parts, NEW f, \A kind \in S : f[kind] \in Nat
    PROVE  Total(f, S) = (IF "input" \in S THEN f["input"] ELSE 0)
                         + (IF "output" \in S THEN f["output"] ELSE 0)
                         + (IF "input_cached_tokens" \in S THEN f["input_cached_tokens"] ELSE 0)
                         + (IF "input_cache_creation" \in S
                            THEN f["input_cache_creation"] ELSE 0)
                         + (IF "output_reasoning_tokens" \in S
                            THEN f["output_reasoning_tokens"] ELSE 0)
  <1> DEFINE S1 == S \ {"input"}
             S2 == S1 \ {"output"}
             S3 == S2 \ {"input_cached_tokens"}
             S4 == S3 \ {"input_cache_creation"}
             S5 == S4 \ {"output_reasoning_tokens"}
             Of(T, m) == IF m \in T THEN f[m] ELSE 0
  <1>1. IsFiniteSet(S)
    <2>1. Parts = {} \cup {"input"} \cup {"output"} \cup {"input_cached_tokens"}
                     \cup {"input_cache_creation"} \cup {"output_reasoning_tokens"}
      BY DEF Parts
    <2>2. IsFiniteSet(Parts)
      <3> DEFINE P1 == {} \cup {"input"}
                 P2 == P1 \cup {"output"}
                 P3 == P2 \cup {"input_cached_tokens"}
                 P4 == P3 \cup {"input_cache_creation"}
      <3>1. IsFiniteSet(P1)
        BY FS_EmptySet, FS_AddElement
      <3>2. IsFiniteSet(P2)
        BY <3>1, FS_AddElement
      <3>3. IsFiniteSet(P3)
        BY <3>2, FS_AddElement
      <3>4. IsFiniteSet(P4)
        BY <3>3, FS_AddElement
      <3> QED BY <2>1, <3>4, FS_AddElement
    <2> QED BY <2>2, FS_Subset
  <1>2. ASSUME NEW T \in SUBSET S, NEW m
        PROVE  Total(f, T) = Of(T, m) + Total(f, T \ {m})
    <2>1. IsFiniteSet(T) /\ \A kind \in T : f[kind] \in Nat
      BY <1>1, FS_Subset
    <2> QED BY <2>1, TotalApart
  <1>3. S1 \in SUBSET S /\ S2 \in SUBSET S /\ S3 \in SUBSET S /\ S4 \in SUBSET S
    OBVIOUS
  <1>4. /\ Of(S1, "output") = Of(S, "output")
        /\ Of(S2, "input_cached_tokens") = Of(S, "input_cached_tokens")
        /\ Of(S3, "input_cache_creation") = Of(S, "input_cache_creation")
        /\ Of(S4, "output_reasoning_tokens") = Of(S, "output_reasoning_tokens")
    OBVIOUS
  <1>7. S5 = {}
    BY DEF Parts
  <1>8. Total(f, S5) = 0
    <2> HIDE DEF S5
    <2> QED BY <1>7, TotalOfNone
  <1>9. \A m \in Parts : Of(S, m) \in Nat
    OBVIOUS
  <1> DEFINE a == Of(S, "input")
             b == Of(S, "output")
             c == Of(S, "input_cached_tokens")
             d == Of(S, "input_cache_creation")
             e == Of(S, "output_reasoning_tokens")
  <1>10. a \in Nat /\ b \in Nat /\ c \in Nat /\ d \in Nat /\ e \in Nat
    <2> HIDE DEF Of
    <2> QED BY <1>9 DEF Parts
  <1>11. Total(f, S) = a + b + c + d + e
    <2> HIDE DEF a, b, c, d, e, S1, S2, S3, S4, S5
    <2> HIDE DEF Of
    <2>1. Total(f, S) = a + Total(f, S1)
      BY <1>2 DEF a, S1
    <2>2. Total(f, S1) = b + Total(f, S2)
      BY <1>2, <1>3, <1>4 DEF b, S2
    <2>3. Total(f, S2) = c + Total(f, S3)
      BY <1>2, <1>3, <1>4 DEF c, S3
    <2>4. Total(f, S3) = d + Total(f, S4)
      BY <1>2, <1>3, <1>4 DEF d, S4
    <2>5. Total(f, S4) = e + Total(f, S5)
      BY <1>2, <1>3, <1>4 DEF e, S5
    <2> QED BY <1>8, <1>10, <2>1, <2>2, <2>3, <2>4, <2>5
  <1> QED BY <1>11

\* What a usage may count.
Counted ==
    [input : Option, output : Option, input_cached_tokens : Option,
     input_cache_creation : Option, output_reasoning_tokens : Option]

\* The details hold the parts as they are counted, and a total.
LEMMA DetailsAre ==
    ASSUME NEW kinds \in Counted, NEW total \in Option, Sum(kinds) \in 0..MaxInt
    PROVE  /\ DOMAIN Details(kinds, total) \subseteq Kinds
           /\ \A kind \in Parts : At(Details(kinds, total), kind) = Count(kinds[kind])
           /\ At(Details(kinds, total), "total")
                  = IF total # {} THEN Count(total) ELSE Sum(kinds)
  <1> DEFINE parts == {kind \in DOMAIN kinds : kinds[kind] # {}}
             details == [kind \in parts |-> Count(kinds[kind])]
             sum == IF total # {} THEN Count(total) ELSE Wrapped(SumFunction(details))
             all == [kind \in parts \cup {"total"} |->
                        IF kind = "total" THEN sum ELSE details[kind]]
  <1>1. DOMAIN kinds = Parts /\ "total" \notin Parts /\ Kinds = Parts \cup {"total"}
    BY DEF Counted, Parts, Kinds
  <1>2. \A kind \in Parts : kinds[kind] \in Option /\ Count(kinds[kind]) \in Nat
    <2>1. \A kind \in Parts : kinds[kind] \in Option
      BY DEF Counted, Parts
    <2> QED BY <2>1, CountType
  <1>3. \A kind \in Parts : kind \notin parts => Count(kinds[kind]) = 0
    BY <1>1, CountOfNone
  <1>4. SumFunction(details) = Sum(kinds)
    <2>1. parts \in SUBSET Parts /\ \A kind \in parts : details[kind] \in Nat
      BY <1>1, <1>2
    <2>2. SumFunction(details) = Total(details, parts)
      BY DEF SumFunction, SumFunctionOnSet, Total
    <2>3. \A kind \in Parts :
              (IF kind \in parts THEN details[kind] ELSE 0) = Count(kinds[kind])
      BY <1>3
    <2> HIDE DEF parts, details
    <2> QED BY <2>1, <2>2, <2>3, PartsSum DEF Sum, Parts
  <1>5. Wrapped(SumFunction(details)) = Sum(kinds)
    BY <1>4, NothingWraps
  <1>6. CASE parts = {} /\ total = {}
    <2>1. Details(kinds, total) = details
      BY <1>6 DEF Details
    <2>2. DOMAIN details = {}
      BY <1>6
    <2>3. Sum(kinds) = 0
      <3> HIDE DEF parts
      <3> QED BY <1>3, <1>6 DEF Sum, Parts
    <2> QED BY <1>1, <1>3, <1>6, <2>1, <2>2, <2>3 DEF At
  <1>7. CASE ~(parts = {} /\ total = {})
    <2>1. Details(kinds, total) = all
      BY <1>7 DEF Details
    <2>2. DOMAIN all = parts \cup {"total"} /\ parts \subseteq Parts
      BY <1>1
    <2>3. \A kind \in Parts : At(all, kind) = Count(kinds[kind])
      BY <1>1, <1>3, <2>2 DEF At
    <2>4. At(all, "total") = IF total # {} THEN Count(total) ELSE Sum(kinds)
      BY <1>5, <2>2 DEF At
    <2> QED BY <1>1, <2>1, <2>2, <2>3, <2>4
  <1> QED BY <1>6, <1>7

AreCounts(details) ==
    DOMAIN details \subseteq Kinds /\ \A kind \in DOMAIN details : details[kind] \in 0..MaxInt

\* What an int64 can hold stays a count.
LEMMA DetailsAreCounts ==
    ASSUME NEW kinds \in Counted, NEW total \in Option,
           Sum(kinds) \in 0..MaxInt, Count(total) \in 0..MaxInt
    PROVE  AreCounts(Details(kinds, total))
  <1> DEFINE d == Details(kinds, total)
  <1>1. /\ DOMAIN d \subseteq Kinds
        /\ \A kind \in Parts : At(d, kind) = Count(kinds[kind])
        /\ At(d, "total") = IF total # {} THEN Count(total) ELSE Sum(kinds)
    BY DetailsAre
  <1> HIDE DEF d
  <1>2. \A kind \in Parts : kinds[kind] \in Option
    BY DEF Counted, Parts
  <1>3. \A kind \in Parts : Count(kinds[kind]) \in 0..MaxInt
    <2>1. \A kind \in Parts : Count(kinds[kind]) \in Nat
      BY <1>2, CountType
    <2>2. MaxInt \in Nat
      BY AccountingAssumption
    <2> QED BY <2>1, <2>2 DEF Sum, Parts
  <1>4. \A kind \in Kinds : At(d, kind) \in 0..MaxInt
    <2>1. At(d, "total") \in 0..MaxInt
      BY <1>1
    <2>2. Kinds = Parts \cup {"total"}
      BY DEF Kinds, Parts
    <2> QED BY <1>1, <1>3, <2>1, <2>2
  <1> QED BY <1>1, <1>4 DEF AreCounts, At, d

\* The kinds that UsageDetails tells apart in a usage.
KindsOf(usage) ==
    [input |-> RegularInput(usage), output |-> RegularOutput(usage),
     input_cached_tokens |-> CacheRead(usage),
     input_cache_creation |-> CacheWrite(usage),
     output_reasoning_tokens |-> Reasoning(usage)]

\* A provider's usage, in each convention, is told apart into the parts of its
\* bill.
LEMMA KindsOfReport ==
    ASSUME NEW bill \in Bills, NEW r,
           NEW convention \in {"chat", "responses", "messages"}, r = Report(convention, bill)
    PROVE  /\ RegularInput(r) = {bill.fresh} /\ CacheRead(r) = {bill.read}
           /\ CacheWrite(r) = {bill.write}
           /\ \/ RegularOutput(r) = {bill.visible} /\ Reasoning(r) = {bill.reasoning}
              \/ RegularOutput(r) = {bill.visible + bill.reasoning} /\ Reasoning(r) = {}
           /\ TotalTokens(r) \in {{}, {TokensOf(bill)}}
  <1> DEFINE input == bill.fresh + bill.read + bill.write
             output == bill.visible + bill.reasoning
  <1> USE BillParts
  <1>1. /\ SubtractTokenDetail(SubtractTokenDetail(input, bill.read), bill.write) = bill.fresh
        /\ SubtractTokenDetail(output, bill.reasoning) = bill.visible
        /\ SubtractTokenDetail(output, 0) = output
        /\ input + output = TokensOf(bill)
    BY DEF SubtractTokenDetail, TokensOf
  <1>2. CASE convention \in {"chat", "responses"}
    <2>1. /\ InputTokens(r) = {input} /\ OutputTokens(r) = {output}
          /\ TotalTokens(r) \in {{}, {input + output}}
          /\ CacheRead(r) = {bill.read} /\ CacheWrite(r) = {bill.write}
          /\ Reasoning(r) = {bill.reasoning} /\ InputIncludesCache(r)
      BY <1>2, ChatCounts, ResponsesCounts
    <2>2. /\ RegularInput(r)
                 = {SubtractTokenDetail(SubtractTokenDetail(input, bill.read), bill.write)}
          /\ RegularOutput(r) = {SubtractTokenDetail(output, bill.reasoning)}
      <3> HIDE DEF input, output
      <3>1. /\ Count(CacheRead(r)) = bill.read /\ Count(CacheWrite(r)) = bill.write
            /\ Count(Reasoning(r)) = bill.reasoning
        BY <2>1, CountOf
      <3>2. RegularInput(r)
                = {SubtractTokenDetail(SubtractTokenDetail(n, bill.read), bill.write) :
                       n \in {input}}
        BY <2>1, <3>1 DEF RegularInput
      <3>3. RegularOutput(r) = {SubtractTokenDetail(n, bill.reasoning) : n \in {output}}
        BY <2>1, <3>1 DEF RegularOutput
      <3> QED BY <3>2, <3>3
    <2> QED BY <1>1, <2>1, <2>2
  <1>3. CASE convention = "messages"
    <2>1. /\ InputTokens(r) = {bill.fresh} /\ OutputTokens(r) = {output} /\ TotalTokens(r) = {}
          /\ CacheRead(r) = {bill.read} /\ CacheWrite(r) = {bill.write}
          /\ Reasoning(r) = {} /\ ~InputIncludesCache(r)
      BY <1>3, MessagesCounts
    <2>2. RegularInput(r) = {bill.fresh} /\ RegularOutput(r) = {SubtractTokenDetail(output, 0)}
      <3> HIDE DEF output
      <3> QED BY <2>1, CountOfNone DEF RegularInput, RegularOutput
    <2> QED BY <1>1, <2>1, <2>2
  <1> QED BY <1>2, <1>3

\* The details of a provider's usage show its bill.
LEMMA ReportShows ==
    ASSUME NEW bill \in Bills, NEW convention \in {"chat", "responses", "messages"},
           NEW observation, observation.details = UsageDetails(Report(convention, bill))
    PROVE  Shows(observation, bill) /\ AreCounts(observation.details)
  <1> DEFINE r == Report(convention, bill)
             k == KindsOf(r)
  <1> HIDE DEF r
  <1>1. /\ RegularInput(r) = {bill.fresh} /\ CacheRead(r) = {bill.read}
        /\ CacheWrite(r) = {bill.write}
        /\ \/ RegularOutput(r) = {bill.visible} /\ Reasoning(r) = {bill.reasoning}
           \/ RegularOutput(r) = {bill.visible + bill.reasoning} /\ Reasoning(r) = {}
        /\ TotalTokens(r) \in {{}, {TokensOf(bill)}}
    BY KindsOfReport DEF r
  <1>2. /\ bill.fresh \in Nat /\ bill.read \in Nat /\ bill.write \in Nat
        /\ bill.visible \in Nat /\ bill.reasoning \in Nat
        /\ TokensOf(bill) \in 0..MaxInt
    BY BillParts
  <1>3. /\ k.input = RegularInput(r) /\ k.output = RegularOutput(r)
        /\ k.input_cached_tokens = CacheRead(r) /\ k.input_cache_creation = CacheWrite(r)
        /\ k.output_reasoning_tokens = Reasoning(r)
    BY DEF KindsOf
  <1>4. k \in Counted /\ TotalTokens(r) \in Option
    <2>1. TotalTokens(r) \in Option
      BY <1>1, <1>2 DEF Option
    <2>2. /\ RegularInput(r) \in Option /\ RegularOutput(r) \in Option
          /\ CacheRead(r) \in Option /\ CacheWrite(r) \in Option /\ Reasoning(r) \in Option
      BY <1>1, <1>2 DEF Option
    <2> QED BY <2>1, <2>2 DEF KindsOf, Counted
  <1>5. /\ Count(k.input) = bill.fresh /\ Count(k.input_cached_tokens) = bill.read
        /\ Count(k.input_cache_creation) = bill.write
        /\ \/ /\ Count(k.output) = bill.visible
              /\ Count(k.output_reasoning_tokens) = bill.reasoning
           \/ /\ Count(k.output) = bill.visible + bill.reasoning
              /\ Count(k.output_reasoning_tokens) = 0
    <2> HIDE DEF k
    <2>1. /\ Count(k.input) = bill.fresh /\ Count(k.input_cached_tokens) = bill.read
          /\ Count(k.input_cache_creation) = bill.write
      BY <1>1, <1>3, CountOf
    <2>2. CASE RegularOutput(r) = {bill.visible} /\ Reasoning(r) = {bill.reasoning}
      <3>1. /\ Count(k.output) = bill.visible
            /\ Count(k.output_reasoning_tokens) = bill.reasoning
        BY <1>3, <2>2, CountOf
      <3> QED BY <2>1, <3>1
    <2>3. CASE RegularOutput(r) = {bill.visible + bill.reasoning} /\ Reasoning(r) = {}
      <3>1. Count(k.output) = bill.visible + bill.reasoning
        BY <1>3, <2>3, CountOf
      <3>2. Count(k.output_reasoning_tokens) = 0
        BY <1>3, <2>3, CountOfNone
      <3> QED BY <2>1, <3>1, <3>2
    <2> QED BY <1>1, <2>2, <2>3
  <1> HIDE DEF k
  <1>6. Sum(k) = TokensOf(bill)
    BY <1>2, <1>5 DEF Sum, TokensOf
  <1>7. observation.details = Details(k, TotalTokens(r))
    BY DEF r, k, UsageDetails, KindsOf
  <1>8. /\ AreCounts(observation.details)
        /\ \A kind \in Parts : At(observation.details, kind) = Count(k[kind])
        /\ At(observation.details, "total") = TokensOf(bill)
    <2>1. TotalTokens(r) # {} => Count(TotalTokens(r)) = TokensOf(bill)
      BY <1>1, CountOf
    <2>2. Sum(k) \in 0..MaxInt
      BY <1>2, <1>6
    <2>3. Count(TotalTokens(r)) \in 0..MaxInt
      <3>1. CASE TotalTokens(r) = {}
        <4>1. 0 \in 0..MaxInt
          BY AccountingAssumption
        <4> QED BY <3>1, <4>1, CountOfNone
      <3>2. CASE TotalTokens(r) # {}
        BY <1>2, <2>1, <3>2
      <3> QED BY <3>1, <3>2
    <2>4. AreCounts(observation.details)
      BY <1>4, <1>7, <2>2, <2>3, DetailsAreCounts
    <2> QED BY <1>4, <1>6, <1>7, <2>1, <2>2, <2>4, DetailsAre
  <1>9. /\ At(observation.details, "input") = Count(k.input)
        /\ At(observation.details, "output") = Count(k.output)
        /\ At(observation.details, "input_cached_tokens") = Count(k.input_cached_tokens)
        /\ At(observation.details, "input_cache_creation") = Count(k.input_cache_creation)
        /\ At(observation.details, "output_reasoning_tokens")
               = Count(k.output_reasoning_tokens)
    BY <1>8 DEF Parts
  <1>10. At(observation.details, "output") + At(observation.details, "output_reasoning_tokens")
             = bill.visible + bill.reasoning
    BY <1>2, <1>5, <1>9
  <1> QED BY <1>5, <1>8, <1>9, <1>10 DEF Shows

Counts(m) == {{}} \cup {{n} : n \in 0..m}

LEMMA FirstCounts ==
    ASSUME NEW m \in Nat, NEW usage, \A path \in DOMAIN usage : usage[path] \in 0..m,
           NEW paths, DOMAIN paths \subseteq 1..4
    PROVE  FirstTokenCount(usage, paths) \in Counts(m)
  <1> DEFINE found == {i \in DOMAIN paths : paths[i] \in DOMAIN usage}
  <1>1. CASE found = {}
    BY <1>1 DEF FirstTokenCount, Counts
  <1>2. CASE found # {}
    <2>1. \E x \in found : \A y \in found : x <= y
      <3>1. found \subseteq 1..4
        OBVIOUS
      <3>2. \A x \in found : x = 1 \/ x = 2 \/ x = 3 \/ x = 4
        BY <3>1
      <3> HIDE DEF found
      <3>3. CASE 1 \in found
        BY <3>2, <3>3
      <3>4. CASE 1 \notin found /\ 2 \in found
        BY <3>2, <3>4
      <3>5. CASE 1 \notin found /\ 2 \notin found /\ 3 \in found
        BY <3>2, <3>5
      <3>6. CASE 1 \notin found /\ 2 \notin found /\ 3 \notin found
        BY <1>2, <3>2, <3>6
      <3> QED BY <3>3, <3>4, <3>5, <3>6
    <2>2. Min(found) \in found
      <3> HIDE DEF found
      <3> QED BY <2>1 DEF Min
    <2>3. usage[paths[Min(found)]] \in 0..m
      BY <2>2
    <2> QED BY <1>2, <2>3 DEF FirstTokenCount, Counts
  <1> QED BY <1>1, <1>2

\* A usage whose counts are small has small counts in its details, whatever it
\* says of their relations.
LEMMA UsageCounts ==
    ASSUME NEW m \in Nat, 5 * m <= MaxInt,
           NEW usage, \A path \in DOMAIN usage : usage[path] \in 0..m
    PROVE  AreCounts(UsageDetails(usage))
  <1> DEFINE k == KindsOf(usage)
  <1>1. /\ InputTokens(usage) \in Counts(m) /\ OutputTokens(usage) \in Counts(m)
        /\ TotalTokens(usage) \in Counts(m) /\ CacheRead(usage) \in Counts(m)
        /\ CacheWrite(usage) \in Counts(m) /\ Reasoning(usage) \in Counts(m)
    BY FirstCounts DEF InputTokens, OutputTokens, TotalTokens, CacheRead, CacheWrite, Reasoning
  <1>2. ASSUME NEW option \in Counts(m)
        PROVE  option \in Option /\ Count(option) \in 0..m
    <2>1. CASE option = {}
      BY <2>1, CountOfNone DEF Option
    <2>2. CASE option # {}
      <3>1. PICK n \in 0..m : option = {n}
        BY <2>2 DEF Counts
      <3>2. Count({n}) = n
        BY CountOf
      <3>3. n \in Nat
        OBVIOUS
      <3>4. {n} \in Option
        BY <3>3 DEF Option
      <3> QED BY <3>1, <3>2, <3>4
    <2> QED BY <2>1, <2>2
  <1>3. \A n \in 0..m, detail \in 0..m : SubtractTokenDetail(n, detail) \in 0..m
    BY DEF SubtractTokenDetail
  <1>4. RegularInput(usage) \in Counts(m)
    <2>1. CASE InputTokens(usage) = {}
      BY <2>1 DEF RegularInput, Counts
    <2>2. CASE InputTokens(usage) # {}
      <3>1. PICK n \in 0..m : InputTokens(usage) = {n}
        BY <1>1, <2>2 DEF Counts
      <3>2. SubtractTokenDetail(SubtractTokenDetail(n, Count(CacheRead(usage))),
                                Count(CacheWrite(usage))) \in 0..m
        <4>1. Count(CacheRead(usage)) \in 0..m /\ Count(CacheWrite(usage)) \in 0..m
          BY <1>1, <1>2
        <4>2. SubtractTokenDetail(n, Count(CacheRead(usage))) \in 0..m
          BY <1>3, <3>1, <4>1
        <4> QED BY <1>3, <4>1, <4>2
      <3> QED BY <3>1, <3>2 DEF RegularInput, Counts
    <2> QED BY <2>1, <2>2
  <1>5. RegularOutput(usage) \in Counts(m)
    <2>1. CASE OutputTokens(usage) = {}
      BY <2>1 DEF RegularOutput, Counts
    <2>2. CASE OutputTokens(usage) # {}
      <3>1. PICK n \in 0..m : OutputTokens(usage) = {n}
        BY <1>1, <2>2 DEF Counts
      <3>2. SubtractTokenDetail(n, Count(Reasoning(usage))) \in 0..m
        <4>1. Count(Reasoning(usage)) \in 0..m
          BY <1>1, <1>2
        <4> QED BY <1>3, <3>1, <4>1
      <3> QED BY <3>1, <3>2 DEF RegularOutput, Counts
    <2> QED BY <2>1, <2>2
  <1>6. /\ k.input \in Counts(m) /\ k.output \in Counts(m) /\ k.input_cached_tokens \in Counts(m)
        /\ k.input_cache_creation \in Counts(m) /\ k.output_reasoning_tokens \in Counts(m)
    BY <1>1, <1>4, <1>5 DEF KindsOf
  <1>7. k \in Counted
    BY <1>1, <1>2, <1>4, <1>5 DEF KindsOf, Counted
  <1>8. UsageDetails(usage) = Details(k, TotalTokens(usage))
    BY DEF UsageDetails, KindsOf
  <1> HIDE DEF k
  <1>9. Sum(k) \in 0..MaxInt
    <2>1. /\ Count(k.input) \in 0..m /\ Count(k.output) \in 0..m
          /\ Count(k.input_cached_tokens) \in 0..m /\ Count(k.input_cache_creation) \in 0..m
          /\ Count(k.output_reasoning_tokens) \in 0..m
      BY <1>2, <1>6
    <2> QED BY <2>1, AccountingAssumption DEF Sum
  <1>10. TotalTokens(usage) \in Option /\ Count(TotalTokens(usage)) \in 0..MaxInt
    BY <1>1, <1>2, AccountingAssumption
  <1> QED BY <1>7, <1>8, <1>9, <1>10, DetailsAreCounts

-----------------------------------------------------------------------------
(* The inductive invariant *)

AttemptSpans ==
    UNION {[scope : {"llm"}, call : Calls, end : Nat, bill : {bill}, room : Rooms,
            usage : {{}} \cup {{u} : u \in Usages(bill)}, cost : {{}, {bill.cost}}] :
           bill \in Bills}

FunctionSpans ==
    [scope : {"function"}, call : Calls, end : Nat, usage : {{}}, cost : {{}}]

CallSpans ==
    UNION {[scope : {"call"}, call : Calls, end : Nat,
            usage : {{}, {Report("chat", bill)}}, cost : {{}, {bill.cost}}] :
           bill \in Bills}

Spans == AttemptSpans \cup FunctionSpans \cup CallSpans

Observations ==
    [details : {<<>>} \cup {UsageDetails(u) : u \in UNION {Usages(bill) : bill \in Bills}},
     cost : {{}} \cup {{bill.cost} : bill \in Bills},
     batch : Nat]

SequencesOK ==
    /\ ended \in Seq(Spans) /\ Len(ended) <= MaxSpans
    /\ langfuse \in Seq(Observations) /\ Len(langfuse) <= Len(ended)

\* Spans are numbered in the order in which they ended.
EndedInOrder == \A i, j \in DOMAIN ended : i <= j => ended[i].end <= ended[j].end

\* A call ends after everything of it, and accounts for its last attempt.
CallEndsLast(k) ==
    LET c == ended[k].call
        bill == ended[Max(Attempts(c))].bill
    IN  /\ Attempts(c) # {}
        /\ \A i \in DOMAIN ended : ended[i].call = c => i <= k
        /\ ended[k].usage \in {{}, {Report("chat", bill)}}
        /\ ended[k].cost \in {{}, {bill.cost}}

CallsEndLast == \A k \in DOMAIN ended : ended[k].scope = "call" => CallEndsLast(k)

\* An observation shows what the attempt reported itself, or what its call
\* accounted for it, or nothing.
Shown(span, observation) ==
    IF span.scope = "llm"
    THEN /\ span.usage # {} => \E u \in span.usage : observation.details = UsageDetails(u)
         /\ span.usage = {} =>
                observation.details \in {<<>>, UsageDetails(Report("chat", span.bill))}
         /\ observation.cost \in {{}, {span.bill.cost}}
    ELSE observation.details = <<>> /\ observation.cost = {}

\* An upload bears the number of the spans uploaded before it.
UploadedInv ==
    \A i \in DOMAIN langfuse : langfuse[i].batch < i /\ Shown(ended[i], langfuse[i])

SessionInv == SequencesOK /\ EndedInOrder /\ CallsEndLast

AccountingInv == SessionInv /\ UploadedInv /\ LastAttemptAccounted

\* The spans of a session, read one by one.
LEMMA SpanFields ==
    ASSUME NEW span \in Spans
    PROVE  /\ span.scope \in {"llm", "function", "call"} /\ span.call \in Calls
           /\ span.end \in Nat
           /\ span.scope = "llm" =>
                  /\ span.bill \in Bills /\ span.room \in Nat
                  /\ span.usage = {} \/ \E u \in Usages(span.bill) : span.usage = {u}
                  /\ span.cost \in {{}, {span.bill.cost}}
           /\ span.scope = "function" => span.usage = {} /\ span.cost = {}
  <1>1. CASE span \in AttemptSpans
    <2>1. PICK bill \in Bills :
              span \in [scope : {"llm"}, call : Calls, end : Nat, bill : {bill}, room : Rooms,
                        usage : {{}} \cup {{u} : u \in Usages(bill)}, cost : {{}, {bill.cost}}]
      BY <1>1 DEF AttemptSpans
    <2> QED BY <2>1, AccountingAssumption
  <1>2. CASE span \in FunctionSpans
    BY <1>2 DEF FunctionSpans
  <1>3. CASE span \in CallSpans
    <2>1. PICK bill \in Bills :
              span \in [scope : {"call"}, call : Calls, end : Nat,
                        usage : {{}, {Report("chat", bill)}}, cost : {{}, {bill.cost}}]
      BY <1>3 DEF CallSpans
    <2> QED BY <2>1
  <1> QED BY <1>1, <1>2, <1>3 DEF Spans

LEMMA EndedFields ==
    ASSUME SequencesOK
    PROVE  /\ Len(ended) \in Nat /\ DOMAIN ended = 1..Len(ended)
           /\ \A i \in DOMAIN ended : ended[i] \in Spans
           /\ Len(langfuse) \in Nat /\ DOMAIN langfuse = 1..Len(langfuse)
           /\ Len(langfuse) <= Len(ended) /\ DOMAIN langfuse \subseteq DOMAIN ended
           /\ \A i \in DOMAIN langfuse : langfuse[i] \in Observations
           /\ \A c : Attempts(c) \subseteq DOMAIN ended
  BY DEF SequencesOK, Attempts

\* The last attempt of a call is one of them, and none comes after it.
LEMMA LastAttempt ==
    ASSUME SequencesOK, NEW c, Attempts(c) # {}
    PROVE  Max(Attempts(c)) \in Attempts(c) /\ \A i \in Attempts(c) : i <= Max(Attempts(c))
  <1> DEFINE A == Attempts(c)
  <1>1. A \subseteq 1..Len(ended) /\ A # {} /\ Len(ended) \in Nat
    BY EndedFields
  <1>2. \E x \in A : \A y \in A : x >= y
    <2> HIDE DEF A
    <2>1. IsFiniteSet(A)
      <3>1. IsFiniteSet(1..Len(ended))
        BY <1>1, FS_Interval
      <3> QED BY <1>1, <3>1, FS_Subset
    <2>2. A # {} /\ \A x \in A : x \in Int
      BY <1>1
    <2> QED BY <2>1, <2>2, HighestNumber
  <1> HIDE DEF A
  <1>3. Max(A) \in A /\ \A y \in A : Max(A) >= y
    BY <1>2 DEF Max
  <1> QED BY <1>1, <1>3 DEF A

-----------------------------------------------------------------------------
(* A span ends *)

\* A span comes to those that have ended before it; only its own call may get
\* one more attempt.
LEMMA SpanAdded ==
    ASSUME SequencesOK, NEW span \in Spans, End(span)
    PROVE  /\ UNCHANGED langfuse /\ SequencesOK'
           /\ Len(ended)' = Len(ended) + 1 /\ DOMAIN ended' = 1..(Len(ended) + 1)
           /\ \A i \in DOMAIN ended : ended'[i] = ended[i]
           /\ ended'[Len(ended) + 1] = span
           /\ \A c : c # span.call \/ span.scope # "llm" => Attempts(c)' = Attempts(c)
  <1>1. /\ ended' = Append(ended, span) /\ UNCHANGED langfuse
        /\ ended \in Seq(Spans) /\ Len(ended) < MaxSpans
    BY DEF End, SequencesOK
  <1>2. /\ ended' \in Seq(Spans) /\ Len(ended') = Len(ended) + 1
        /\ DOMAIN ended' = 1..(Len(ended) + 1) /\ DOMAIN ended = 1..Len(ended)
        /\ \A i \in DOMAIN ended : ended'[i] = ended[i]
        /\ ended'[Len(ended) + 1] = span /\ Len(ended) \in Nat
    BY <1>1
  <1>3. SequencesOK'
    BY <1>1, <1>2, AccountingAssumption DEF SequencesOK
  <1>4. ASSUME NEW c, c # span.call \/ span.scope # "llm" PROVE Attempts(c)' = Attempts(c)
    <2>1. DOMAIN ended' = DOMAIN ended \cup {Len(ended) + 1}
      BY <1>2
    <2>2. ~(ended'[Len(ended) + 1].scope = "llm" /\ ended'[Len(ended) + 1].call = c)
      BY <1>2, <1>4
    <2> QED BY <1>2, <2>1, <2>2 DEF Attempts
  <1> QED BY <1>1, <1>2, <1>3, <1>4

\* What is true of a call when it ends.
EndsLast(span) ==
    LET bill == ended[Max(Attempts(span.call))].bill
    IN  /\ Attempts(span.call) # {}
        /\ span.usage \in {{}, {Report("chat", bill)}}
        /\ span.cost \in {{}, {bill.cost}}

LEMMA EndKeepsInv ==
    ASSUME AccountingInv, NEW span \in Spans, End(span), Now <= span.end,
           span.scope = "call" => EndsLast(span)
    PROVE  AccountingInv'
  <1> DEFINE n == Len(ended)
  <1>1. SequencesOK /\ EndedInOrder /\ CallsEndLast /\ UploadedInv /\ LastAttemptAccounted
    BY DEF AccountingInv, SessionInv
  <1>2. /\ UNCHANGED langfuse /\ SequencesOK' /\ n \in Nat /\ DOMAIN ended = 1..n
        /\ DOMAIN ended' = 1..(n + 1) /\ DOMAIN langfuse \subseteq DOMAIN ended
        /\ \A i \in DOMAIN ended : ended'[i] = ended[i] /\ ended[i] \in Spans
        /\ ended'[n + 1] = span
    BY <1>1, SpanAdded, EndedFields
  <1>3. \A c : c # span.call \/ span.scope # "llm" => Attempts(c)' = Attempts(c)
    BY <1>1, SpanAdded
  <1>4. \A k \in DOMAIN ended : ended[k].scope = "call" => ended[k].call # span.call
    BY DEF End, Open
  <1>5. \A c : Attempts(c) \subseteq DOMAIN ended
    BY <1>1, EndedFields
  <1>6. \A c : Attempts(c) # {} => Max(Attempts(c)) \in DOMAIN ended
    BY <1>1, <1>5, LastAttempt
  <1> HIDE DEF n
  <1>7. EndedInOrder'
    <2>1. \A i \in DOMAIN ended : ended[i].end <= span.end
      <3>1. CASE ended = <<>>
        BY <3>1
      <3>2. CASE ended # <<>>
        <4>1. n \in DOMAIN ended /\ Now = ended[n].end
          BY <1>1, <1>2, <3>2 DEF Now, n, SequencesOK
        <4>2. \A i \in DOMAIN ended : ended[i].end <= ended[n].end
          BY <1>1, <1>2, <4>1 DEF EndedInOrder
        <4>3. \A i \in DOMAIN ended : ended[i].end \in Int
          BY <1>2, SpanFields
        <4>4. span.end \in Int
          BY SpanFields
        <4> QED BY <4>1, <4>2, <4>3, <4>4
      <3> QED BY <3>1, <3>2
    <2>2. span.end \in Int
      BY SpanFields
    <2> SUFFICES ASSUME NEW i \in 1..(n + 1), NEW j \in 1..(n + 1), i <= j
                 PROVE  ended'[i].end <= ended'[j].end
      BY <1>2 DEF EndedInOrder
    <2>3. CASE j \in 1..n
      BY <1>1, <1>2, <2>3 DEF EndedInOrder
    <2>4. CASE j = n + 1 /\ i \in 1..n
      BY <1>2, <2>1, <2>4
    <2>5. CASE j = n + 1 /\ i = n + 1
      BY <1>2, <2>2, <2>5
    <2> QED BY <1>2, <2>3, <2>4, <2>5
  <1>8. CallsEndLast'
    <2> SUFFICES ASSUME NEW k \in 1..(n + 1), ended'[k].scope = "call"
                 PROVE  CallEndsLast(k)'
      BY <1>2 DEF CallsEndLast
    <2>1. CASE k \in 1..n
      <3>1. ended'[k] = ended[k] /\ CallEndsLast(k) /\ ended[k].call # span.call
        BY <1>1, <1>2, <1>4, <2>1 DEF CallsEndLast
      <3>2. Attempts(ended[k].call)' = Attempts(ended[k].call)
        BY <1>3, <3>1
      <3>3. /\ Attempts(ended[k].call) # {}
            /\ ended'[Max(Attempts(ended[k].call))] = ended[Max(Attempts(ended[k].call))]
        BY <1>2, <1>6, <3>1 DEF CallEndsLast
      <3>4. \A i \in 1..(n + 1) : ended'[i].call = ended[k].call => i <= k
        BY <1>2, <3>1 DEF CallEndsLast
      <3> QED BY <1>2, <3>1, <3>2, <3>3, <3>4 DEF CallEndsLast
    <2>2. CASE k = n + 1
      <3>1. ended'[k] = span /\ EndsLast(span)
        BY <1>2, <2>2
      <3>2. Attempts(span.call)' = Attempts(span.call)
        BY <1>3, <2>2, <3>1
      <3>3. /\ Attempts(span.call) # {}
            /\ ended'[Max(Attempts(span.call))] = ended[Max(Attempts(span.call))]
        BY <1>2, <1>6, <3>1 DEF EndsLast
      <3>4. \A i \in 1..(n + 1) : i <= k
        BY <1>2, <2>2
      <3> QED BY <1>2, <3>1, <3>2, <3>3, <3>4 DEF CallEndsLast, EndsLast
    <2> QED BY <1>2, <2>1, <2>2
  <1>9. UploadedInv'
    BY <1>1, <1>2 DEF UploadedInv
  <1>10. LastAttemptAccounted'
    <2> SUFFICES ASSUME NEW k \in DOMAIN langfuse, ended[k].scope = "call",
                        NEW i, i = Max(Attempts(ended[k].call))'
                 PROVE  langfuse[i].batch = langfuse[k].batch /\ ~Contradicts(i)' =>
                            /\ ended[k].usage # {} /\ ended'[i].room > 0 =>
                                   Shows(langfuse[i], ended'[i].bill)
                            /\ ended[k].cost # {} /\ ended'[i].room > 1 =>
                                   langfuse[i].cost = {c \in ended[k].cost : c > 0}
      BY <1>2 DEF LastAttemptAccounted
    <2>1. Attempts(ended[k].call)' = Attempts(ended[k].call)
      BY <1>2, <1>3, <1>4
    <2>2. i = Max(Attempts(ended[k].call)) /\ Attempts(ended[k].call) # {}
      BY <1>1, <1>2, <2>1 DEF CallsEndLast, CallEndsLast
    <2>3. ended'[i] = ended[i]
      BY <1>2, <1>6, <2>2
    <2>4. Contradicts(i)' = Contradicts(i)
      BY <2>3 DEF Contradicts
    <2> QED BY <1>1, <2>2, <2>3, <2>4 DEF LastAttemptAccounted
  <1> QED BY <1>2, <1>7, <1>8, <1>9, <1>10 DEF AccountingInv, SessionInv

LEMMA NowIs == ASSUME SequencesOK PROVE Now \in Nat
  <1>1. CASE ended = <<>>
    BY <1>1 DEF Now
  <1>2. CASE ended # <<>>
    <2>1. Len(ended) \in DOMAIN ended /\ Now = ended[Len(ended)].end
      BY <1>2 DEF SequencesOK, Now
    <2> QED BY <2>1, EndedFields, SpanFields
  <1> QED BY <1>1, <1>2

LEMMA EndAttemptKeepsInv ==
    ASSUME AccountingInv, NEW c \in Calls, NEW bill \in Bills, EndAttempt(c, bill)
    PROVE  AccountingInv'
  <1>1. PICK tick \in {0, 1}, cost \in {{}, {bill.cost}}, room \in Rooms,
             usage \in {{}} \cup {{u} : u \in Usages(bill)} :
            End([scope |-> "llm", call |-> c, end |-> Now + tick, bill |-> bill,
                 usage |-> usage, cost |-> cost, room |-> room])
    BY DEF EndAttempt
  <1> DEFINE span == [scope |-> "llm", call |-> c, end |-> Now + tick, bill |-> bill,
                      usage |-> usage, cost |-> cost, room |-> room]
  <1>2. Now \in Nat /\ Now + tick \in Nat /\ Now <= Now + tick
    BY NowIs DEF AccountingInv, SessionInv
  <1>3. span \in Spans /\ span.scope = "llm" /\ Now <= span.end
    <2>1. span \in [scope : {"llm"}, call : Calls, end : Nat, bill : {bill}, room : Rooms,
                    usage : {{}} \cup {{u} : u \in Usages(bill)}, cost : {{}, {bill.cost}}]
      BY <1>2
    <2>2. span \in AttemptSpans
      BY <2>1 DEF AttemptSpans
    <2> QED BY <1>2, <2>2 DEF Spans
  <1> HIDE DEF span
  <1>4. End(span)
    BY <1>1 DEF span
  <1> QED BY <1>3, <1>4, EndKeepsInv

LEMMA EndFunctionKeepsInv ==
    ASSUME AccountingInv, NEW c \in Calls, EndFunction(c)
    PROVE  AccountingInv'
  <1> DEFINE span == [scope |-> "function", call |-> c, end |-> Now + 1,
                      usage |-> {}, cost |-> {}]
  <1>1. Now \in Nat
    BY NowIs DEF AccountingInv, SessionInv
  <1>2. span \in Spans /\ span.scope = "function" /\ Now <= span.end
    BY <1>1 DEF Spans, FunctionSpans
  <1> HIDE DEF span
  <1>3. End(span)
    BY DEF EndFunction, span
  <1> QED BY <1>2, <1>3, EndKeepsInv

LEMMA EndCallKeepsInv ==
    ASSUME AccountingInv, NEW c \in Calls, EndCall(c)
    PROVE  AccountingInv'
  <1> DEFINE bill == ended[Max(Attempts(c))].bill
  <1>1. PICK usage \in {{}, {Report("chat", bill)}}, cost \in {{}, {bill.cost}} :
            End([scope |-> "call", call |-> c, end |-> Now, usage |-> usage, cost |-> cost])
    BY DEF EndCall
  <1> DEFINE span == [scope |-> "call", call |-> c, end |-> Now,
                      usage |-> usage, cost |-> cost]
  <1>2. SequencesOK /\ Now \in Nat
    BY NowIs DEF AccountingInv, SessionInv
  <1>3. Attempts(c) # {}
    BY DEF EndCall
  <1>4. bill \in Bills
    <2>1. Max(Attempts(c)) \in Attempts(c)
      BY <1>2, <1>3, LastAttempt
    <2>2. Max(Attempts(c)) \in DOMAIN ended /\ ended[Max(Attempts(c))].scope = "llm"
      BY <2>1 DEF Attempts
    <2> QED BY <1>2, <2>2, EndedFields, SpanFields
  <1>5. EndsLast(span)
    BY <1>3 DEF EndsLast
  <1> HIDE DEF bill
  <1>6. span \in Spans /\ span.scope = "call" /\ Now <= span.end
    BY <1>2, <1>4 DEF Spans, CallSpans
  <1> HIDE DEF span
  <1>7. End(span)
    BY <1>1 DEF span
  <1> QED BY <1>5, <1>6, <1>7, EndKeepsInv

-----------------------------------------------------------------------------
(* An upload *)

\* The batch of the spans after the first m, up to the last.
IsBatch(batch, m, last) ==
    /\ m \in Nat /\ last \in (m + 1)..Len(ended)
    /\ batch = SubSeq(ended, m + 1, last)

LEMMA BatchIs ==
    ASSUME SequencesOK, NEW batch, NEW m, NEW last, IsBatch(batch, m, last)
    PROVE  /\ DOMAIN batch = 1..(last - m) /\ last - m \in Nat /\ m \in Nat
           /\ \A j \in DOMAIN batch :
                  m + j \in DOMAIN ended /\ batch[j] = ended[m + j] /\ batch[j] \in Spans
           /\ \A i \in DOMAIN ended : m < i /\ i <= last => i - m \in DOMAIN batch
  <1>1. /\ m \in Nat /\ last \in Nat /\ m < last /\ last <= Len(ended)
        /\ ended \in Seq(Spans) /\ Len(ended) \in Nat /\ DOMAIN ended = 1..Len(ended)
    BY DEF IsBatch, SequencesOK
  <1>2. /\ DOMAIN batch = 1..(last - m)
        /\ \A j \in 1..(last - m) : batch[j] = ended[m + j]
    BY <1>1 DEF IsBatch
  <1>3. \A j \in 1..(last - m) : m + j \in 1..Len(ended)
    BY <1>1
  <1>4. \A i \in DOMAIN ended : m < i /\ i <= last => i - m \in 1..(last - m)
    BY <1>1
  <1>5. \A i \in DOMAIN ended : ended[i] \in Spans
    BY EndedFields
  <1> QED BY <1>1, <1>2, <1>3, <1>4, <1>5

\* The latest attempt of a call in a batch is the one that ended last.
LEMMA LatestIs ==
    ASSUME SessionInv, NEW batch, NEW m, NEW last, IsBatch(batch, m, last), NEW c,
           NEW j \in DOMAIN batch
    PROVE  IsLatestAttempt(batch, c, j)
               <=> /\ batch[j].scope = "llm" /\ batch[j].call = c
                   /\ \A i \in DOMAIN batch :
                          batch[i].scope = "llm" /\ batch[i].call = c => i <= j
  <1>1. SequencesOK /\ EndedInOrder
    BY DEF SessionInv
  <1>2. DOMAIN batch \subseteq Int /\ m \in Int
        /\ \A i \in DOMAIN batch : m + i \in DOMAIN ended /\ batch[i] = ended[m + i]
    BY <1>1, BatchIs
  <1>3. \A i \in DOMAIN batch : batch[i].end \in Int
    BY <1>1, BatchIs, SpanFields
  <1>4. \A a, b \in DOMAIN batch : a <= b => batch[a].end <= batch[b].end
    BY <1>1, <1>2 DEF EndedInOrder
  <1> QED BY <1>2, <1>3, <1>4 DEF IsLatestAttempt

\* The calls that account for span j of a batch.
Accounting(batch, j) ==
    {k \in DOMAIN batch : batch[k].scope = "call" /\ IsLatestAttempt(batch, batch[k].call, j)}

\* A call that is in the batch accounts for its last attempt.
LEMMA AccountingIs ==
    ASSUME SessionInv, NEW batch, NEW m, NEW last, IsBatch(batch, m, last),
           NEW j \in DOMAIN batch, NEW k \in DOMAIN batch, batch[k].scope = "call"
    PROVE  IsLatestAttempt(batch, batch[k].call, j)
               <=> m + j = Max(Attempts(batch[k].call))
  <1>1. SequencesOK /\ CallsEndLast
    BY DEF SessionInv
  <1>2. /\ DOMAIN batch = 1..(last - m) /\ m \in Int /\ last \in Int
        /\ \A i \in DOMAIN batch : m + i \in DOMAIN ended /\ batch[i] = ended[m + i]
        /\ \A i \in DOMAIN ended : m < i /\ i <= last => i - m \in DOMAIN batch
        /\ \A i \in DOMAIN ended : i \in Int
    <2>1. m \in Int /\ last \in Int
      BY <1>1, EndedFields DEF IsBatch
    <2>2. \A i \in DOMAIN ended : i \in Int
      BY <1>1, EndedFields
    <2>3. /\ DOMAIN batch = 1..(last - m)
          /\ \A i \in DOMAIN batch : m + i \in DOMAIN ended /\ batch[i] = ended[m + i]
          /\ \A i \in DOMAIN ended : m < i /\ i <= last => i - m \in DOMAIN batch
      BY <1>1, BatchIs
    <2> QED BY <2>1, <2>2, <2>3
  <1>3. PICK c : c = batch[k].call
    OBVIOUS
  <1>4. Attempts(c) # {} /\ \A i \in DOMAIN ended : ended[i].call = c => i <= m + k
    BY <1>1, <1>2, <1>3 DEF CallsEndLast, CallEndsLast
  <1>5. Max(Attempts(c)) \in Attempts(c) /\ \A i \in Attempts(c) : i <= Max(Attempts(c))
    BY <1>1, <1>4, LastAttempt
  <1>6. \A i \in Attempts(c) : i \in DOMAIN ended /\ ended[i].scope = "llm" /\ ended[i].call = c
    BY DEF Attempts
  <1>7. ASSUME IsLatestAttempt(batch, c, j) PROVE m + j = Max(Attempts(c))
    <2>1. /\ batch[j].scope = "llm" /\ batch[j].call = c
          /\ \A i \in DOMAIN batch : batch[i].scope = "llm" /\ batch[i].call = c => i <= j
      BY <1>7, LatestIs
    <2>2. m + j \in Attempts(c)
      BY <1>2, <2>1 DEF Attempts
    <2>3. PICK i : i = Max(Attempts(c))
      OBVIOUS
    <2>4. i \in DOMAIN ended /\ ended[i].scope = "llm" /\ ended[i].call = c
          /\ m + j <= i /\ i <= m + k
      BY <1>4, <1>5, <1>6, <2>2, <2>3
    <2>5. i - m \in DOMAIN batch /\ batch[i - m] = ended[i]
      <3>1. m < i /\ i <= last /\ i \in Int
        BY <1>2, <2>4
      <3>2. i - m \in DOMAIN batch
        BY <1>2, <2>4, <3>1
      <3>3. m + (i - m) = i
        BY <1>2, <3>1
      <3> QED BY <1>2, <3>2, <3>3
    <2>6. i - m <= j
      BY <2>1, <2>4, <2>5
    <2> QED BY <1>2, <2>3, <2>4, <2>6
  <1>8. ASSUME m + j = Max(Attempts(c)) PROVE IsLatestAttempt(batch, c, j)
    <2>1. batch[j].scope = "llm" /\ batch[j].call = c
      BY <1>2, <1>5, <1>6, <1>8
    <2>2. ASSUME NEW i \in DOMAIN batch, batch[i].scope = "llm", batch[i].call = c PROVE i <= j
      <3>1. m + i \in Attempts(c)
        BY <1>2, <2>2 DEF Attempts
      <3> QED BY <1>2, <1>5, <1>8, <3>1
    <2> QED BY <2>1, <2>2, LatestIs
  <1> QED BY <1>3, <1>7, <1>8

\* Usage and cost of a span can be replaced.
LEMMA SpanReplaced ==
    ASSUME NEW span \in Spans, span.scope = "llm", NEW x, NEW y
    PROVE  /\ [span EXCEPT !.usage = x, !.cost = y].usage = x
           /\ [span EXCEPT !.usage = x, !.cost = y].cost = y
           /\ [span EXCEPT !.usage = x, !.cost = y].scope = "llm"
  <1>1. span \in AttemptSpans
    BY DEF Spans, FunctionSpans, CallSpans
  <1>2. PICK bill \in Bills :
            span \in [scope : {"llm"}, call : Calls, end : Nat, bill : {bill}, room : Rooms,
                      usage : {{}} \cup {{u} : u \in Usages(bill)}, cost : {{}, {bill.cost}}]
    BY <1>1 DEF AttemptSpans
  <1> QED BY <1>2

\* Call k accounts for span j and leaves it usage and cost: first the usage,
\* then the cost, and neither where it has its own.
AccountedBy(batch, m, j, k, usage, cost) ==
    /\ Accounting(batch, j) = {k} /\ batch[k].scope = "call"
    /\ m + j = Max(Attempts(batch[k].call)) /\ batch[j].scope = "llm"
    /\ batch[k].usage \in {{}, {Report("chat", batch[j].bill)}}
    /\ batch[k].cost \in {{}, {batch[j].bill.cost}}
    /\ Accounted(batch, j) = [batch[j] EXCEPT !.usage = usage, !.cost = cost]
    /\ usage = IF batch[j].usage # {} THEN batch[j].usage
               ELSE IF batch[j].room > 0 THEN batch[k].usage ELSE {}
    /\ cost \in {batch[j].cost, {}, batch[k].cost}
    /\ batch[j].cost # {} => cost = batch[j].cost
    /\ batch[j].cost = {} /\ batch[j].room > 1 => cost = batch[k].cost

\* Only the latest attempt of a call gets anything of its accounting.
LEMMA AccountedIs ==
    ASSUME SessionInv, NEW batch, NEW m, NEW last, IsBatch(batch, m, last),
           NEW j \in DOMAIN batch
    PROVE  \/ Accounting(batch, j) = {} /\ Accounted(batch, j) = batch[j]
           \/ \E k \in DOMAIN batch : \E usage, cost : AccountedBy(batch, m, j, k, usage, cost)
  <1>1. CASE Accounting(batch, j) = {}
    BY <1>1 DEF Accounted, Accounting
  <1>2. CASE Accounting(batch, j) # {}
    <2>1. PICK k \in Accounting(batch, j) : TRUE
      BY <1>2
    <2>2. SequencesOK /\ CallsEndLast
      BY DEF SessionInv
    <2>3. /\ DOMAIN batch = 1..(last - m) /\ m \in Int
          /\ \A i \in DOMAIN batch : m + i \in DOMAIN ended /\ batch[i] = ended[m + i]
          /\ \A i \in DOMAIN batch : batch[i] \in Spans
      BY <2>2, BatchIs
    <2>4. /\ k \in DOMAIN batch /\ batch[k].scope = "call"
          /\ m + j = Max(Attempts(batch[k].call))
          /\ batch[j].scope = "llm" /\ batch[j].call = batch[k].call
      <3>1. k \in DOMAIN batch /\ batch[k].scope = "call"
            /\ IsLatestAttempt(batch, batch[k].call, j)
        BY DEF Accounting
      <3>2. m + j = Max(Attempts(batch[k].call))
        BY <3>1, AccountingIs
      <3>3. batch[j].scope = "llm" /\ batch[j].call = batch[k].call
        BY <3>1, LatestIs
      <3> QED BY <3>1, <3>2, <3>3
    <2>5. Accounting(batch, j) = {k}
      <3> SUFFICES ASSUME NEW i \in Accounting(batch, j) PROVE i = k
        OBVIOUS
      <3>1. i \in DOMAIN batch /\ batch[i].scope = "call"
            /\ IsLatestAttempt(batch, batch[i].call, j)
        BY DEF Accounting
      <3>2. batch[i].call = batch[k].call
        BY <2>4, <3>1, LatestIs
      <3>3. CallEndsLast(m + i) /\ CallEndsLast(m + k)
        BY <2>2, <2>3, <2>4, <3>1 DEF CallsEndLast
      <3>4. m + i <= m + k /\ m + k <= m + i
        BY <2>3, <2>4, <3>1, <3>2, <3>3 DEF CallEndsLast
      <3> QED BY <2>3, <2>4, <3>1, <3>4
    <2>6. /\ batch[k].usage \in {{}, {Report("chat", batch[j].bill)}}
          /\ batch[k].cost \in {{}, {batch[j].bill.cost}}
      <3>1. CallEndsLast(m + k) /\ batch[k] = ended[m + k] /\ batch[j] = ended[m + j]
        BY <2>2, <2>3, <2>4 DEF CallsEndLast
      <3> QED BY <2>4, <3>1 DEF CallEndsLast
    <2> DEFINE added == IF batch[j].usage # {} THEN {} ELSE batch[k].usage
               usage == FirstOf(batch[j].usage, IF batch[j].room > 0 THEN added ELSE {})
               cost == FirstOf(batch[j].cost, IF batch[j].room - Cardinality(added) > 0
                                              THEN batch[k].cost ELSE {})
    <2>7. Accounted(batch, j) = [batch[j] EXCEPT !.usage = usage, !.cost = cost]
      <3>1. /\ UNION {batch[i].usage : i \in {k}} = batch[k].usage
            /\ UNION {batch[i].cost : i \in {k}} = batch[k].cost
        OBVIOUS
      <3>2. Accounting(batch, j) # {}
        BY <1>2
      <3> QED BY <2>5, <3>1, <3>2 DEF Accounted, Accounting
    <2>8. Cardinality(added) \in {0, 1}
      <3>1. added \in {{}, {Report("chat", batch[j].bill)}}
        BY <2>6
      <3> HIDE DEF added
      <3>2. CASE added = {}
        BY <3>2, FS_EmptySet
      <3>3. CASE added = {Report("chat", batch[j].bill)}
        BY <3>3, FS_Singleton
      <3> QED BY <3>1, <3>2, <3>3
    <2>9. batch[j].room \in Nat
      BY <2>3, <2>4, SpanFields
    <2>10. usage = IF batch[j].usage # {} THEN batch[j].usage
                   ELSE IF batch[j].room > 0 THEN batch[k].usage ELSE {}
      BY DEF FirstOf
    <2>11. /\ cost \in {batch[j].cost, {}, batch[k].cost}
           /\ batch[j].cost # {} => cost = batch[j].cost
           /\ batch[j].cost = {} /\ batch[j].room > 1 => cost = batch[k].cost
      <3> HIDE DEF added
      <3>1. batch[j].room > 1 => batch[j].room - Cardinality(added) > 0
        BY <2>8, <2>9
      <3>2. cost = IF batch[j].cost # {} THEN batch[j].cost
                   ELSE IF batch[j].room - Cardinality(added) > 0 THEN batch[k].cost ELSE {}
        BY DEF FirstOf
      <3> HIDE DEF cost
      <3> QED BY <3>1, <3>2
    <2> HIDE DEF usage, cost
    <2>12. AccountedBy(batch, m, j, k, usage, cost)
      BY <2>4, <2>5, <2>6, <2>7, <2>10, <2>11 DEF AccountedBy
    <2> QED BY <2>4, <2>12
  <1> QED BY <1>1, <1>2

\* An attempt keeps its own usage and cost, and gets none but its bill's.
LEMMA AccountedSpan ==
    ASSUME SessionInv, NEW batch, NEW m, NEW last, IsBatch(batch, m, last),
           NEW j \in DOMAIN batch, NEW span, span = Accounted(batch, j),
           batch[j].scope = "llm"
    PROVE  /\ span.scope = "llm"
           /\ batch[j].usage # {} => span.usage = batch[j].usage
           /\ batch[j].usage = {} => span.usage \in {{}, {Report("chat", batch[j].bill)}}
           /\ span.cost \in {{}, {batch[j].bill.cost}}
  <1>1. batch[j] \in Spans
    BY BatchIs DEF SessionInv
  <1>2. batch[j].cost \in {{}, {batch[j].bill.cost}}
    BY <1>1, SpanFields
  <1>3. CASE span = batch[j]
    BY <1>2, <1>3
  <1>4. ASSUME NEW k, NEW usage, NEW cost, AccountedBy(batch, m, j, k, usage, cost)
        PROVE  /\ span.scope = "llm"
               /\ batch[j].usage # {} => span.usage = batch[j].usage
               /\ batch[j].usage = {} => span.usage \in {{}, {Report("chat", batch[j].bill)}}
               /\ span.cost \in {{}, {batch[j].bill.cost}}
    <2>1. /\ span = [batch[j] EXCEPT !.usage = usage, !.cost = cost]
          /\ batch[k].usage \in {{}, {Report("chat", batch[j].bill)}}
          /\ batch[k].cost \in {{}, {batch[j].bill.cost}}
          /\ usage = IF batch[j].usage # {} THEN batch[j].usage
                     ELSE IF batch[j].room > 0 THEN batch[k].usage ELSE {}
          /\ cost \in {batch[j].cost, {}, batch[k].cost}
      BY <1>4 DEF AccountedBy
    <2>2. span.usage = usage /\ span.cost = cost /\ span.scope = "llm"
      BY <1>1, <2>1, SpanReplaced
    <2>3. cost \in {{}, {batch[j].bill.cost}}
      BY <1>2, <2>1
    <2>4. batch[j].usage # {} => usage = batch[j].usage
      BY <2>1
    <2>5. batch[j].usage = {} => usage \in {{}, {Report("chat", batch[j].bill)}}
      BY <2>1
    <2> QED BY <2>2, <2>3, <2>4, <2>5
  <1> QED BY <1>3, <1>4, AccountedIs

\* What an upload shows.
LEMMA ObservationIs ==
    ASSUME SessionInv, NEW batch, NEW m, NEW last, IsBatch(batch, m, last),
           NEW j \in DOMAIN batch, NEW o, o = Canonicalize(batch, m)[j]
    PROVE  /\ o.batch = m /\ o \in Observations /\ Shown(batch[j], o)
           /\ batch[j].scope = "llm" =>
                 o.cost = {c \in Accounted(batch, j).cost : c > 0}
           /\ batch[j].scope = "llm" =>
                 \A u : Accounted(batch, j).usage = {u} => o.details = UsageDetails(u)
  <1>1. PICK span : span = Accounted(batch, j)
    OBVIOUS
  <1>2. /\ o = Observation(span, m) /\ m \in Nat
        /\ o = [details |-> IF span.scope = "llm" /\ span.usage # {}
                            THEN UsageDetails(CHOOSE usage \in span.usage : TRUE) ELSE <<>>,
                cost |-> IF span.scope = "llm" THEN {c \in span.cost : c > 0} ELSE {},
                batch |-> m]
    BY <1>1 DEF Canonicalize, Observation, IsBatch
  <1>3. batch[j] \in Spans
    BY BatchIs DEF SessionInv
  <1>4. CASE batch[j].scope # "llm"
    <2>1. span = batch[j]
      <3>1. \A k \in DOMAIN batch : \A usage, cost : ~AccountedBy(batch, m, j, k, usage, cost)
        BY <1>4 DEF AccountedBy
      <3> QED BY <1>1, <3>1, AccountedIs
    <2>2. o.details = <<>> /\ o.cost = {} /\ o.batch = m
      BY <1>2, <1>4, <2>1
    <2>3. o \in Observations
      <3>1. o = [details |-> <<>>, cost |-> {}, batch |-> m]
        BY <1>2, <1>4, <2>1
      <3>2. <<>> \in {<<>>} \cup {UsageDetails(u) : u \in UNION {Usages(b) : b \in Bills}}
        OBVIOUS
      <3>3. {} \in {{}} \cup {{b.cost} : b \in Bills}
        OBVIOUS
      <3> QED BY <1>2, <3>1, <3>2, <3>3 DEF Observations
    <2> QED BY <1>4, <2>2, <2>3 DEF Shown
  <1>5. CASE batch[j].scope = "llm"
    <2> DEFINE bill == batch[j].bill
    <2>1. /\ bill \in Bills
          /\ batch[j].usage = {} \/ \E u \in Usages(bill) : batch[j].usage = {u}
      BY <1>3, <1>5, SpanFields
    <2>2. /\ span.scope = "llm"
          /\ batch[j].usage # {} => span.usage = batch[j].usage
          /\ batch[j].usage = {} => span.usage \in {{}, {Report("chat", bill)}}
          /\ span.cost \in {{}, {bill.cost}}
      BY <1>1, <1>5, AccountedSpan
    <2> HIDE DEF bill
    <2>3. Report("chat", bill) \in Usages(bill)
      BY DEF Usages
    <2>4. span.usage = {} \/ \E u \in Usages(bill) : span.usage = {u}
      BY <2>1, <2>2, <2>3
    <2>5. /\ o.batch = m /\ o.cost = {c \in span.cost : c > 0}
          /\ span.usage = {} => o.details = <<>>
          /\ \A u : span.usage = {u} => o.details = UsageDetails(u)
      BY <1>2, <2>2
    <2>6. o.cost \in {{}, {bill.cost}}
      BY <2>2, <2>5
    <2>7. o.details \in {<<>>}
                           \cup {UsageDetails(u) : u \in UNION {Usages(b) : b \in Bills}}
      <3>1. CASE span.usage = {}
        BY <2>5, <3>1
      <3>2. ASSUME NEW u \in Usages(bill), span.usage = {u}
            PROVE  o.details \in {UsageDetails(v) : v \in UNION {Usages(b) : b \in Bills}}
        <4>1. o.details = UsageDetails(u)
          BY <2>5, <3>2
        <4>2. u \in UNION {Usages(b) : b \in Bills}
          BY <2>1
        <4> QED BY <4>1, <4>2
      <3> QED BY <2>4, <3>1, <3>2
    <2>8. o \in Observations
      <3>1. o.cost \in {{}} \cup {{b.cost} : b \in Bills}
        BY <2>1, <2>6
      <3>2. o = [details |-> o.details, cost |-> o.cost, batch |-> m]
        BY <1>2
      <3> QED BY <1>2, <2>7, <3>1, <3>2 DEF Observations
    <2>9. batch[j].usage # {} => \E u \in batch[j].usage : o.details = UsageDetails(u)
      BY <2>1, <2>2, <2>5
    <2>10. batch[j].usage = {} => o.details \in {<<>>, UsageDetails(Report("chat", bill))}
      BY <2>2, <2>5
    <2>11. Shown(batch[j], o)
      BY <1>5, <2>6, <2>9, <2>10 DEF Shown, bill
    <2> QED BY <1>1, <2>5, <2>8, <2>11
  <1> QED BY <1>4, <1>5

Conventions == {"chat", "responses", "messages"}

\* What an attempt reports without contradiction is its bill in a convention.
LEMMA OwnReport ==
    ASSUME NEW span \in Spans, span.scope = "llm", span.usage # {}, ~(span.usage \subseteq Odd)
    PROVE  \E convention \in Conventions : span.usage = {Report(convention, span.bill)}
  <1>1. PICK u \in Usages(span.bill) : span.usage = {u}
    BY SpanFields
  <1>2. u \notin Odd
    BY <1>1
  <1> QED BY <1>1, <1>2 DEF Usages, Conventions

\* The call that accounts for an attempt leaves it a usage and a cost.
LEMMA AccountedShows ==
    ASSUME SessionInv, NEW batch, NEW m, NEW last, IsBatch(batch, m, last),
           NEW j \in DOMAIN batch, NEW k \in DOMAIN batch,
           batch[k].scope = "call", m + j = Max(Attempts(batch[k].call)),
           ~(batch[j].usage # {} /\ batch[j].usage \subseteq Odd),
           NEW o, o = Canonicalize(batch, m)[j]
    PROVE  /\ batch[k].usage # {} /\ batch[j].room > 0 => Shows(o, batch[j].bill)
           /\ batch[k].cost # {} /\ batch[j].room > 1 => o.cost = {c \in batch[k].cost : c > 0}
  <1>1. k \in Accounting(batch, j)
    BY AccountingIs DEF Accounting
  <1>2. PICK usage, cost : AccountedBy(batch, m, j, k, usage, cost)
    <2>1. PICK i \in DOMAIN batch : \E usage, cost : AccountedBy(batch, m, j, i, usage, cost)
      BY <1>1, AccountedIs
    <2>2. i = k
      BY <1>1, <2>1 DEF AccountedBy
    <2> QED BY <2>1, <2>2
  <1>3. batch[j] \in Spans /\ batch[j].scope = "llm"
    BY <1>2, BatchIs DEF SessionInv, AccountedBy
  <1>4. PICK bill \in Bills : bill = batch[j].bill
    BY <1>3, SpanFields
  <1>5. batch[j].cost \in {{}, {bill.cost}}
    BY <1>3, <1>4, SpanFields
  <1>6. /\ Accounted(batch, j).usage = usage /\ Accounted(batch, j).cost = cost
        /\ batch[k].usage \in {{}, {Report("chat", bill)}}
        /\ batch[k].cost \in {{}, {bill.cost}}
        /\ usage = IF batch[j].usage # {} THEN batch[j].usage
                   ELSE IF batch[j].room > 0 THEN batch[k].usage ELSE {}
        /\ batch[j].cost # {} => cost = batch[j].cost
        /\ batch[j].cost = {} /\ batch[j].room > 1 => cost = batch[k].cost
    BY <1>2, <1>3, <1>4, SpanReplaced DEF AccountedBy
  <1>7. /\ o.cost = {c \in cost : c > 0}
        /\ \A u : usage = {u} => o.details = UsageDetails(u)
    BY <1>3, <1>6, ObservationIs
  <1>8. ASSUME batch[k].usage # {}, batch[j].room > 0 PROVE Shows(o, bill)
    <2>1. \E convention \in Conventions : usage = {Report(convention, bill)}
      <3>1. CASE batch[j].usage # {}
        BY <1>3, <1>4, <1>6, <3>1, OwnReport
      <3>2. CASE batch[j].usage = {}
        <4>1. usage = {Report("chat", bill)} /\ "chat" \in Conventions
          BY <1>6, <1>8, <3>2 DEF Conventions
        <4> QED BY <4>1
      <3> QED BY <3>1, <3>2
    <2>2. PICK convention \in Conventions : o.details = UsageDetails(Report(convention, bill))
      BY <1>7, <2>1
    <2> QED BY <2>2, ReportShows DEF Conventions
  <1>9. ASSUME batch[k].cost # {}, batch[j].room > 1
        PROVE  o.cost = {c \in batch[k].cost : c > 0}
    <2>1. cost = batch[k].cost
      BY <1>5, <1>6, <1>9
    <2> QED BY <1>7, <2>1
  <1> QED BY <1>4, <1>8, <1>9

\* What an upload appends to what has been uploaded.
LEMMA Appended ==
    ASSUME NEW S, NEW s \in Seq(S), NEW t \in Seq(S), NEW m, Len(s) = m, NEW n, Len(t) = n
    PROVE  /\ s \o t \in Seq(S) /\ Len(s \o t) = m + n /\ DOMAIN (s \o t) = 1..(m + n)
           /\ \A i \in 1..m : (s \o t)[i] = s[i]
           /\ \A j \in 1..n : (s \o t)[m + j] = t[j]
  OBVIOUS

LEMMA UploadKeepsInv ==
    ASSUME AccountingInv, NEW last, Upload(last)
    PROVE  AccountingInv'
  <1> DEFINE m == Len(langfuse)
             batch == SubSeq(ended, m + 1, last)
             shown == Canonicalize(batch, m)
  <1>1. SessionInv /\ SequencesOK /\ CallsEndLast /\ UploadedInv /\ LastAttemptAccounted
    BY DEF AccountingInv, SessionInv
  <1>2. /\ langfuse' = langfuse \o shown /\ UNCHANGED ended
        /\ m \in Nat /\ Len(ended) \in Nat /\ last \in (m + 1)..Len(ended)
        /\ langfuse \in Seq(Observations) /\ DOMAIN langfuse = 1..m
        /\ DOMAIN ended = 1..Len(ended)
    BY <1>1 DEF Upload, SequencesOK
  <1>3. IsBatch(batch, m, last)
    BY <1>2 DEF IsBatch
  <1> HIDE DEF m, batch
  <1>4. /\ DOMAIN batch = 1..(last - m) /\ last - m \in Nat
        /\ \A j \in DOMAIN batch : m + j \in DOMAIN ended /\ batch[j] = ended[m + j]
        /\ \A i \in DOMAIN ended : m < i /\ i <= last => i - m \in DOMAIN batch
    BY <1>1, <1>3, BatchIs
  <1>5. \A j \in DOMAIN batch :
            shown[j].batch = m /\ shown[j] \in Observations /\ Shown(batch[j], shown[j])
    BY <1>1, <1>3, ObservationIs
  <1>6. shown \in Seq(Observations) /\ Len(shown) = last - m
    <2>1. shown \in [1..(last - m) -> Observations]
      BY <1>4, <1>5 DEF Canonicalize
    <2> HIDE DEF shown
    <2> QED BY <1>4, <2>1
  <1> HIDE DEF shown
  <1>7. /\ langfuse' \in Seq(Observations) /\ Len(langfuse') = last
        /\ DOMAIN langfuse' = 1..last
        /\ \A i \in 1..m : langfuse'[i] = langfuse[i]
        /\ \A j \in 1..(last - m) : langfuse'[m + j] = shown[j]
    <2>1. Len(langfuse) = m
      BY DEF m
    <2>2. m + (last - m) = last
      BY <1>2
    <2>3. /\ langfuse \in Seq(Observations) /\ shown \in Seq(Observations)
          /\ last - m \in Nat /\ Len(shown) = last - m
      BY <1>2, <1>4, <1>6
    <2>4. /\ langfuse \o shown \in Seq(Observations) /\ Len(langfuse \o shown) = m + (last - m)
          /\ DOMAIN (langfuse \o shown) = 1..(m + (last - m))
          /\ \A i \in 1..m : (langfuse \o shown)[i] = langfuse[i]
          /\ \A j \in 1..(last - m) : (langfuse \o shown)[m + j] = shown[j]
      BY <2>1, <2>3, Appended
    <2> QED BY <1>2, <2>2, <2>4
  <1>8. \A i \in 1..last : i \in 1..m \/ (i - m \in DOMAIN batch /\ i = m + (i - m))
    BY <1>2, <1>4
  <1>9. SessionInv'
    <2>1. SequencesOK'
      BY <1>1, <1>2, <1>7 DEF SequencesOK
    <2>2. EndedInOrder' /\ CallsEndLast'
      BY <1>2 DEF AccountingInv, SessionInv, EndedInOrder, CallsEndLast, CallEndsLast, Attempts
    <2> QED BY <2>1, <2>2 DEF SessionInv
  <1>10. UploadedInv'
    <2> SUFFICES ASSUME NEW i \in 1..last
                 PROVE  langfuse'[i].batch < i /\ Shown(ended[i], langfuse'[i])
      BY <1>2, <1>7 DEF UploadedInv
    <2>1. CASE i \in 1..m
      BY <1>1, <1>2, <1>7, <2>1 DEF UploadedInv
    <2>2. CASE i \notin 1..m
      <3>1. PICK j \in DOMAIN batch : i = m + j
        BY <1>8, <2>2
      <3>2. langfuse'[i] = shown[j] /\ batch[j] = ended[i] /\ j \in Int /\ j > 0
        BY <1>4, <1>7, <3>1
      <3> QED BY <1>2, <1>5, <3>1, <3>2
    <2> QED BY <2>1, <2>2
  <1>11. LastAttemptAccounted'
    <2> SUFFICES ASSUME NEW k \in 1..last, ended[k].scope = "call",
                        NEW i, i = Max(Attempts(ended[k].call)),
                        langfuse'[i].batch = langfuse'[k].batch, ~Contradicts(i)
                 PROVE  /\ ended[k].usage # {} /\ ended[i].room > 0 =>
                               Shows(langfuse'[i], ended[i].bill)
                        /\ ended[k].cost # {} /\ ended[i].room > 1 =>
                               langfuse'[i].cost = {c \in ended[k].cost : c > 0}
      <3>1. \A c : Attempts(c)' = Attempts(c)
        BY <1>2 DEF Attempts
      <3>2. \A i : Contradicts(i)' = Contradicts(i)
        BY <1>2 DEF Contradicts
      <3> QED BY <1>2, <1>7, <3>1, <3>2 DEF LastAttemptAccounted
    <2>1. i \in DOMAIN ended /\ i <= k /\ i \in Nat /\ i > 0
      <3>1. k \in DOMAIN ended
        BY <1>2
      <3>2. CallEndsLast(k)
        BY <1>1, <3>1 DEF CallsEndLast
      <3>3. i \in Attempts(ended[k].call)
        BY <1>1, <3>2, LastAttempt DEF CallEndsLast
      <3>4. i \in DOMAIN ended /\ ended[i].call = ended[k].call
        BY <3>3 DEF Attempts
      <3>5. i <= k
        BY <3>2, <3>4 DEF CallEndsLast
      <3> QED BY <1>2, <3>4, <3>5
    <2>2. CASE k \in 1..m
      <3>1. i \in 1..m
        BY <1>2, <2>1, <2>2
      <3>2. langfuse'[i] = langfuse[i] /\ langfuse'[k] = langfuse[k]
        BY <1>7, <2>2, <3>1
      <3> QED BY <1>1, <1>2, <2>2, <3>2 DEF LastAttemptAccounted
    <2>3. CASE k \notin 1..m
      <3>1. PICK kk \in DOMAIN batch : k = m + kk
        BY <1>8, <2>3
      <3>2. langfuse'[k].batch = m /\ batch[kk] = ended[k]
        BY <1>4, <1>5, <1>7, <3>1
      <3>3. i \notin 1..m
        <4> SUFFICES ASSUME i \in 1..m PROVE FALSE
          OBVIOUS
        <4>1. langfuse[i].batch < i /\ langfuse'[i] = langfuse[i]
          BY <1>1, <1>2, <1>7 DEF UploadedInv
        <4> QED BY <1>2, <2>1, <3>2, <4>1
      <3>4. i \in 1..last
        BY <1>2, <2>1
      <3>5. PICK j \in DOMAIN batch : i = m + j
        BY <1>8, <3>3, <3>4
      <3>6. langfuse'[i] = shown[j] /\ batch[j] = ended[i]
        BY <1>4, <1>7, <3>5
      <3>7. shown[j] = Canonicalize(batch, m)[j]
        BY DEF shown
      <3>8. batch[kk].scope = "call" /\ m + j = Max(Attempts(batch[kk].call))
        BY <3>2, <3>5
      <3>9. ~(batch[j].usage # {} /\ batch[j].usage \subseteq Odd)
        BY <3>6 DEF Contradicts
      <3>10. /\ batch[kk].usage # {} /\ batch[j].room > 0 => Shows(shown[j], batch[j].bill)
             /\ batch[kk].cost # {} /\ batch[j].room > 1 =>
                    shown[j].cost = {c \in batch[kk].cost : c > 0}
        BY <1>1, <1>3, <3>1, <3>5, <3>7, <3>8, <3>9, AccountedShows
      <3> QED BY <3>2, <3>6, <3>10
    <2> QED BY <2>2, <2>3
  <1> QED BY <1>9, <1>10, <1>11 DEF AccountingInv

-----------------------------------------------------------------------------
(* The theorems *)

LEMMA AccountingInit == Init => AccountingInv
  <1> SUFFICES ASSUME Init PROVE AccountingInv
    OBVIOUS
  <1>1. ended = <<>> /\ langfuse = <<>> /\ MaxSpans \in Nat
    BY AccountingAssumption DEF Init
  <1>2. DOMAIN ended = {} /\ DOMAIN langfuse = {}
    BY <1>1
  <1>3. SequencesOK
    BY <1>1 DEF SequencesOK
  <1>4. EndedInOrder /\ CallsEndLast /\ UploadedInv /\ LastAttemptAccounted
    BY <1>2 DEF EndedInOrder, CallsEndLast, UploadedInv, LastAttemptAccounted
  <1> QED BY <1>3, <1>4 DEF AccountingInv, SessionInv

LEMMA AccountingNext == AccountingInv /\ [Next]_vars => AccountingInv'
  <1> SUFFICES ASSUME AccountingInv, [Next]_vars PROVE AccountingInv'
    OBVIOUS
  <1>1. CASE \E c \in Calls, bill \in Bills : EndAttempt(c, bill)
    BY <1>1, EndAttemptKeepsInv
  <1>2. CASE \E c \in Calls : EndFunction(c) \/ EndCall(c)
    BY <1>2, EndFunctionKeepsInv, EndCallKeepsInv
  <1>3. CASE \E last \in 1..MaxSpans : Upload(last)
    BY <1>3, UploadKeepsInv
  <1>4. CASE UNCHANGED vars
    <2>1. ended' = ended /\ langfuse' = langfuse
      BY <1>4 DEF vars
    <2>2. \A c : Attempts(c)' = Attempts(c)
      BY <2>1 DEF Attempts
    <2>3. SessionInv'
      BY <2>1, <2>2 DEF AccountingInv, SessionInv, SequencesOK, EndedInOrder, CallsEndLast,
                        CallEndsLast
    <2>4. UploadedInv'
      BY <2>1 DEF AccountingInv, UploadedInv
    <2>5. LastAttemptAccounted'
      BY <2>1, <2>2 DEF AccountingInv, LastAttemptAccounted, Contradicts
    <2> QED BY <2>3, <2>4, <2>5 DEF AccountingInv
  <1> QED BY <1>1, <1>2, <1>3, <1>4 DEF Next

THEOREM SessionStaysAccounted == Spec => []AccountingInv
  BY AccountingInit, AccountingNext, PTL DEF Spec

\* An attempt that does not contradict itself shows its bill, or nothing.
LEMMA AttemptShows ==
    ASSUME AccountingInv, NEW i \in DOMAIN langfuse, ended[i].scope = "llm", ~Contradicts(i)
    PROVE  /\ ended[i].bill \in Bills /\ langfuse[i].cost \in {{}, {ended[i].bill.cost}}
           /\ ended[i].usage # {} => Shows(langfuse[i], ended[i].bill)
           /\ Shows(langfuse[i], ended[i].bill) \/ langfuse[i].details = <<>>
  <1>1. /\ ended[i] \in Spans /\ Shown(ended[i], langfuse[i]) /\ ended[i].bill \in Bills
    BY EndedFields, SpanFields DEF AccountingInv, SessionInv, UploadedInv
  <1>2. CASE ended[i].usage # {}
    <2>1. PICK convention \in Conventions :
              ended[i].usage = {Report(convention, ended[i].bill)}
      BY <1>1, <1>2, OwnReport DEF Contradicts
    <2>2. langfuse[i].details = UsageDetails(Report(convention, ended[i].bill))
      BY <1>1, <1>2, <2>1 DEF Shown
    <2> QED BY <1>1, <2>1, <2>2, ReportShows DEF Conventions, Shown
  <1>3. CASE ended[i].usage = {}
    BY <1>1, <1>3, ReportShows DEF Shown
  <1> QED BY <1>2, <1>3

\* What a provider may say that contradicts itself counts little enough for
\* the sum of five such counts to be an int64.
OddCountsFit ==
    \E m \in Nat : /\ 5 * m <= MaxInt
                   /\ \A usage \in Odd : \A path \in DOMAIN usage : usage[path] \in 0..m

\* If no count of a usage that contradicts itself is so large that the sum of
\* its parts overflows, every count that Langfuse gets is a count: the details
\* are clamped where they exceed the whole (subtractTokenDetail).
THEOREM CountsStayCounts ==
    ASSUME OddCountsFit
    PROVE  Spec => []TypeOK
  <1>1. ASSUME NEW usage \in UNION {Usages(bill) : bill \in Bills}
        PROVE  AreCounts(UsageDetails(usage))
    <2>1. PICK bill \in Bills : usage \in Usages(bill)
      BY <1>1
    <2>2. CASE usage \in Odd
      BY <2>2, UsageCounts DEF OddCountsFit
    <2>3. CASE usage \notin Odd
      <3>1. PICK convention \in {"chat", "responses", "messages"} :
                usage = Report(convention, bill)
        BY <2>1, <2>3 DEF Usages
      <3>2. PICK observation : observation = [details |-> UsageDetails(usage)]
        OBVIOUS
      <3>3. observation.details = UsageDetails(usage)
        BY <3>2
      <3> QED BY <3>1, <3>3, ReportShows
    <2> QED BY <2>2, <2>3
  <1>2. AreCounts(<<>>)
    BY DEF AreCounts
  <1>3. ASSUME AccountingInv PROVE TypeOK
    <2>1. SequencesOK
      BY <1>3 DEF AccountingInv, SessionInv
    <2>2. Len(ended) \in 0..MaxSpans /\ Len(langfuse) \in 0..Len(ended)
      BY <2>1, EndedFields, AccountingAssumption DEF SequencesOK
    <2>3. ASSUME NEW i \in DOMAIN langfuse PROVE AreCounts(langfuse[i].details)
      <3>1. langfuse[i] \in Observations
        BY <2>1, EndedFields
      <3>2. langfuse[i].details \in
                {<<>>} \cup {UsageDetails(u) : u \in UNION {Usages(bill) : bill \in Bills}}
        BY <3>1 DEF Observations
      <3> QED BY <1>1, <1>2, <3>2
    <2> QED BY <2>2, <2>3 DEF TypeOK, AreCounts
  <1> QED BY <1>3, SessionStaysAccounted, PTL

\* Whatever an attempt costs, in whichever of the conventions its provider
\* reports it and however the session falls into uploads, Langfuse shows every
\* kind of token of an attempt that reported them, apart and none of them twice
\* (relayUsageDetails).
THEOREM BillsAreShown == Spec => []ReportsShowTheBill
  <1>1. AccountingInv => ReportsShowTheBill
    BY AttemptShows DEF ReportsShowTheBill
  <1> QED BY <1>1, SessionStaysAccounted, PTL

\* A call that is uploaded with its last attempt has its accounting shown by
\* that attempt, however many attempts came before it and whatever ended with
\* it (projectLogicalAccounting).
THEOREM LastAttemptsAreAccounted == Spec => []LastAttemptAccounted
  <1>1. AccountingInv => LastAttemptAccounted
    BY DEF AccountingInv
  <1> QED BY <1>1, SessionStaysAccounted, PTL

LEMMA ShownOnce == AccountingInv => NothingCountedTwice
  <1> SUFFICES ASSUME AccountingInv, NEW c \in Calls,
                      NEW seen, seen = {i \in Attempts(c) : i <= Len(langfuse)},
                      \A i \in seen : ~Contradicts(i)
               PROVE  /\ SumFunction([i \in seen |-> At(langfuse[i].details, "total")])
                             <= SumFunction([i \in seen |-> TokensOf(ended[i].bill)])
                      /\ SumFunction([i \in seen |-> Count(langfuse[i].cost)])
                             <= SumFunction([i \in seen |-> ended[i].bill.cost])
    BY DEF NothingCountedTwice
  <1> DEFINE shown == [i \in seen |-> At(langfuse[i].details, "total")]
             billed == [i \in seen |-> TokensOf(ended[i].bill)]
             cost == [i \in seen |-> Count(langfuse[i].cost)]
             due == [i \in seen |-> ended[i].bill.cost]
  <1>1. SequencesOK
    BY DEF AccountingInv, SessionInv
  <1>2. \A i \in seen : i \in DOMAIN langfuse /\ ended[i].scope = "llm"
    BY <1>1, EndedFields DEF Attempts
  <1>3. IsFiniteSet(seen)
    <2>1. seen \subseteq 1..Len(langfuse) /\ Len(langfuse) \in Nat
      BY <1>1, <1>2, EndedFields
    <2>2. IsFiniteSet(1..Len(langfuse))
      BY <2>1, FS_Interval
    <2> QED BY <2>1, <2>2, FS_Subset
  <1>4. ASSUME NEW i \in seen
        PROVE  /\ shown[i] \in Nat /\ billed[i] \in Nat /\ shown[i] <= billed[i]
               /\ cost[i] \in Nat /\ due[i] \in Nat /\ cost[i] <= due[i]
    <2>1. PICK bill \in Bills : bill = ended[i].bill
      BY <1>2, <1>4, AttemptShows
    <2>2. /\ langfuse[i].cost \in {{}, {bill.cost}}
          /\ Shows(langfuse[i], bill) \/ langfuse[i].details = <<>>
      BY <1>2, <1>4, <2>1, AttemptShows
    <2>3. bill.cost \in Nat /\ TokensOf(bill) \in Nat
      BY BillParts
    <2>4. At(langfuse[i].details, "total") \in {0, TokensOf(bill)}
      BY <2>2 DEF Shows, At
    <2>5. Count(langfuse[i].cost) \in {0, bill.cost}
      BY <2>2, CountOf, CountOfNone
    <2> QED BY <1>4, <2>1, <2>3, <2>4, <2>5
  <1>5. \A f : f \in {shown, billed, cost, due} => SumFunction(f) = Total(f, seen)
    BY DEF SumFunction, SumFunctionOnSet, Total
  <1> HIDE DEF shown, billed, cost, due
  <1>6. Total(shown, seen) <= Total(billed, seen)
    BY <1>3, <1>4, TotalOrdered
  <1>7. Total(cost, seen) <= Total(due, seen)
    BY <1>3, <1>4, TotalOrdered
  <1> QED BY <1>5, <1>6, <1>7 DEF shown, billed, cost, due

\* Whatever attempts are retried, whatever their calls account for and however
\* they fall into uploads, no call shows more tokens or costs than its
\* attempts were billed (projectLogicalAccounting).
THEOREM NothingIsCountedTwice == Spec => []NothingCountedTwice
  BY ShownOnce, SessionStaysAccounted, PTL

-----------------------------------------------------------------------------
(* The attributes of other keys.  They are collected by recursion; that     *)
(* there is a function that does it is proved up to each length.            *)

\* What is kept of the first i attributes, from what is kept of one less.
KeptOf(f, attrs, keys, i) ==
    IF i = 0 THEN <<>> ELSE IF attrs[i].key \in keys THEN f[i - 1] ELSE Append(f[i - 1], attrs[i])

IsKept(f, attrs, keys, k) == f = [i \in 0..k |-> KeptOf(f, attrs, keys, i)]

LEMMA KeptExists ==
    ASSUME NEW k \in Nat, NEW attrs, NEW keys
    PROVE  \E f : IsKept(f, attrs, keys, k)
  <1> DEFINE T == {j \in 0..k : ~ \E f : IsKept(f, attrs, keys, j)}
  <1>1. SUFFICES ASSUME T # {} PROVE FALSE
    <2>1. k \in 0..k
      OBVIOUS
    <2> QED BY <1>1, <2>1
  <1>2. PICK m \in T : \A j \in T : m <= j
    <2>1. T \subseteq 0..k
      OBVIOUS
    <2> HIDE DEF T
    <2> QED BY <1>1, <2>1, LeastNumber
  <1>3. m \in 0..k /\ ~ \E f : IsKept(f, attrs, keys, m)
    OBVIOUS
  <1>4. m # 0
    <2> DEFINE f == [n \in 0..0 |-> <<>>]
    <2>1. \A n \in 0..0 : KeptOf(f, attrs, keys, n) = <<>>
      BY DEF KeptOf
    <2> HIDE DEF KeptOf
    <2>2. IsKept(f, attrs, keys, 0)
      BY <2>1 DEF IsKept
    <2> QED BY <1>3, <2>2
  <1>5. m - 1 \in 0..k /\ m - 1 \notin T
    BY <1>2, <1>3, <1>4
  <1>6. PICK f : IsKept(f, attrs, keys, m - 1)
    BY <1>5
  <1>7. \A n \in 0..(m - 1) : f[n] = KeptOf(f, attrs, keys, n)
    BY <1>6 DEF IsKept
  <1> DEFINE g == [n \in 0..m |-> IF n = m THEN KeptOf(f, attrs, keys, m) ELSE f[n]]
  <1>8. \A n \in 0..m : g[n] = KeptOf(g, attrs, keys, n)
    <2> SUFFICES ASSUME NEW n \in 0..m PROVE g[n] = KeptOf(g, attrs, keys, n)
      OBVIOUS
    <2>1. g[n] = KeptOf(f, attrs, keys, n)
      BY <1>3, <1>7
    <2>2. n # 0 => g[n - 1] = f[n - 1]
      BY <1>3
    <2> HIDE DEF g
    <2> QED BY <2>1, <2>2 DEF KeptOf
  <1>9. IsKept(g, attrs, keys, m)
    <2>1. g = [n \in 0..m |-> g[n]]
      OBVIOUS
    <2> HIDE DEF g
    <2> QED BY <1>8, <2>1 DEF IsKept
  <1> QED BY <1>3, <1>9

LEMMA WithoutIs ==
    ASSUME NEW S, NEW attrs \in Seq(S), NEW keys
    PROVE  \E f : IsKept(f, attrs, keys, Len(attrs)) /\ Without(attrs, keys) = f[Len(attrs)]
  <1> DEFINE f == CHOOSE g : IsKept(g, attrs, keys, Len(attrs))
  <1>1. IsKept(f, attrs, keys, Len(attrs))
    BY KeptExists
  <1>2. Without(attrs, keys) = f[Len(attrs)]
    BY DEF Without, IsKept, KeptOf
  <1> QED BY <1>1, <1>2

\* An attribute of another key is kept.
LEMMA WithoutGives ==
    ASSUME NEW S, NEW attrs \in Seq(S), NEW keys
    PROVE  /\ Without(attrs, keys) \in Seq(S)
           /\ \A i \in DOMAIN attrs :
                 attrs[i].key \notin keys =>
                     \E j \in DOMAIN Without(attrs, keys) : Without(attrs, keys)[j] = attrs[i]
           /\ \A j \in DOMAIN Without(attrs, keys) :
                 \E i \in DOMAIN attrs : Without(attrs, keys)[j] = attrs[i] /\ attrs[i].key \notin keys
  <1>1. PICK f : IsKept(f, attrs, keys, Len(attrs)) /\ Without(attrs, keys) = f[Len(attrs)]
    BY WithoutIs
  <1>2. \A i \in 0..Len(attrs) : f[i] = KeptOf(f, attrs, keys, i)
    BY <1>1 DEF IsKept
  <1> DEFINE Good(k) ==
                /\ f[k] \in Seq(S)
                /\ \A i \in 1..k : attrs[i].key \notin keys => \E j \in DOMAIN f[k] : f[k][j] = attrs[i]
                /\ \A j \in DOMAIN f[k] : \E i \in 1..k : f[k][j] = attrs[i] /\ attrs[i].key \notin keys
             T == {k \in 0..Len(attrs) : ~ Good(k)}
  <1>3. T = {}
    <2>1. SUFFICES ASSUME T # {} PROVE FALSE
      OBVIOUS
    <2>2. PICK m \in T : \A j \in T : m <= j
      <3>1. T \subseteq 0..Len(attrs) /\ Len(attrs) \in Nat
        OBVIOUS
      <3> HIDE DEF T
      <3> QED BY <2>1, <3>1, LeastNumber
    <2>3. m \in 0..Len(attrs) /\ ~ Good(m)
      OBVIOUS
    <2>4. m # 0
      <3>1. f[0] = <<>>
        BY <1>2 DEF KeptOf
      <3>2. Good(0)
        BY <3>1
      <3> QED BY <2>3, <3>2
    <2>5. m - 1 \in 0..Len(attrs) /\ m - 1 \notin T
      <3>1. m - 1 \in 0..Len(attrs) /\ ~(m <= m - 1)
        BY <2>3, <2>4
      <3> HIDE DEF T
      <3> QED BY <2>2, <3>1
    <2>6. Good(m - 1)
      BY <2>5
    <2>7. f[m] = IF attrs[m].key \in keys THEN f[m - 1] ELSE Append(f[m - 1], attrs[m])
      BY <1>2, <2>3, <2>4 DEF KeptOf
    <2>8. attrs[m] \in S /\ m \in Nat /\ m - 1 \in Nat
      BY <2>3, <2>4
    <2>9. f[m] \in Seq(S)
      BY <2>6, <2>7, <2>8
    <2>10. ASSUME NEW i \in 1..m, attrs[i].key \notin keys
           PROVE  \E j \in DOMAIN f[m] : f[m][j] = attrs[i]
      <3>1. CASE i = m
        <4>1. f[m] = Append(f[m - 1], attrs[m])
          BY <2>7, <2>10, <3>1
        <4>2. Len(f[m - 1]) + 1 \in DOMAIN f[m] /\ f[m][Len(f[m - 1]) + 1] = attrs[m]
          BY <2>6, <2>8, <4>1
        <4> QED BY <3>1, <4>2
      <3>2. CASE i # m
        <4>1. i \in 1..(m - 1)
          BY <2>8, <3>2
        <4>2. PICK j \in DOMAIN f[m - 1] : f[m - 1][j] = attrs[i]
          BY <2>6, <2>10, <4>1
        <4>3. j \in DOMAIN f[m] /\ f[m][j] = f[m - 1][j]
          BY <2>6, <2>7, <2>8
        <4> QED BY <4>2, <4>3
      <3> QED BY <3>1, <3>2
    <2>11. ASSUME NEW j \in DOMAIN f[m]
           PROVE  \E i \in 1..m : f[m][j] = attrs[i] /\ attrs[i].key \notin keys
      <3>1. CASE j \in DOMAIN f[m - 1] /\ f[m][j] = f[m - 1][j]
        <4>1. PICK i \in 1..(m - 1) : f[m - 1][j] = attrs[i] /\ attrs[i].key \notin keys
          BY <2>6, <3>1
        <4>2. i \in 1..m
          BY <2>8
        <4> QED BY <3>1, <4>1, <4>2
      <3>2. CASE attrs[m].key \notin keys /\ f[m][j] = attrs[m]
        <4>1. m \in 1..m
          BY <2>4, <2>8
        <4> QED BY <3>2, <4>1
      <3>3. \/ j \in DOMAIN f[m - 1] /\ f[m][j] = f[m - 1][j]
            \/ attrs[m].key \notin keys /\ f[m][j] = attrs[m]
        <4>1. CASE attrs[m].key \in keys
          BY <2>7, <4>1
        <4>2. CASE attrs[m].key \notin keys
          <5>1. f[m] = Append(f[m - 1], attrs[m])
            BY <2>7, <4>2
          <5>2. f[m - 1] \in Seq(S) /\ j \in 1..(Len(f[m - 1]) + 1)
            BY <2>6, <2>8, <5>1
          <5> QED BY <2>8, <4>2, <5>1, <5>2
        <4> QED BY <4>1, <4>2
      <3> QED BY <3>1, <3>2, <3>3
    <2>12. Good(m)
      BY <2>9, <2>10, <2>11
    <2> QED BY <2>3, <2>12
  <1>4. Good(Len(attrs))
    <2>1. Len(attrs) \in 0..Len(attrs)
      OBVIOUS
    <2> HIDE DEF Good
    <2> QED BY <1>3, <2>1
  <1>5. DOMAIN attrs = 1..Len(attrs)
    OBVIOUS
  <1> QED BY <1>1, <1>4, <1>5

LEMMA WithoutKeeps ==
    ASSUME NEW S, NEW attrs \in Seq(S), NEW keys
    PROVE  /\ Without(attrs, keys) \in Seq(S)
           /\ \A i \in DOMAIN attrs :
                 attrs[i].key \notin keys =>
                     \E j \in DOMAIN Without(attrs, keys) : Without(attrs, keys)[j] = attrs[i]
  BY WithoutGives

LEMMA WithoutIsPart ==
    ASSUME NEW S, NEW attrs \in Seq(S), NEW keys
    PROVE  /\ Without(attrs, keys) \in Seq(S)
           /\ \A j \in DOMAIN Without(attrs, keys) :
                 \E i \in DOMAIN attrs : Without(attrs, keys)[j] = attrs[i] /\ attrs[i].key \notin keys
  BY WithoutGives

\* One of finitely many combinations has an option at each place.
LEMMA CombinationIs ==
    ASSUME NEW options, NEW f \in Combinations(options)
    PROVE  /\ DOMAIN f = DOMAIN options
           /\ f = [x \in DOMAIN options |-> f[x]]
           /\ \A x \in DOMAIN options : f[x] \in options[x]
  BY DEF Combinations

-----------------------------------------------------------------------------
(* Cleaning, level by level.  The levels are a function defined by          *)
(* recursion from the deepest one up.                                       *)

\* Below the deepest level nothing is looked at.
LEMMA DeepestLevel ==
    ASSUME NEW below, NEW other
    PROVE  Level(MaxDepth + 1, below) = Level(MaxDepth + 1, other)
  <1> DEFINE deepest == MaxDepth + 1
  <1>1. deepest > MaxDepth /\ ~(deepest <= MaxDepth)
    BY RedactionAssumption
  <1> HIDE DEF deepest
  <1>2. \A t : SanitizeString(t, deepest, below) = SanitizeString(t, deepest, other)
    <2> SUFFICES ASSUME NEW t
                 PROVE  SanitizeString(t, deepest, below) = SanitizeString(t, deepest, other)
      OBVIOUS
    <2>1. CASE t \in {Text("private_key"), Text("bearer")}
      BY <1>1, <2>1 DEF SanitizeString, Text
    <2>2. CASE t \notin {Text("private_key"), Text("bearer")} /\ t = Text("media")
      BY <1>1, <2>2 DEF SanitizeString, Text
    <2>3. CASE t \notin {Text("private_key"), Text("bearer")} /\ t # Text("media")
      BY <1>1, <2>3 DEF SanitizeString
    <2> QED BY <2>1, <2>2, <2>3
  <1>3. \A v : SanitizeValue(v, deepest, below) = {Replacement} /\ SanitizeValue(v, deepest, other) = {Replacement}
    BY <1>1 DEF SanitizeValue
  <1>4. \A n : SanitizeJSON(n, deepest, below) = {Replacement} /\ SanitizeJSON(n, deepest, other) = {Replacement}
    BY <1>1 DEF SanitizeJSON
  <1>5. \A attrs : AttributesAtDepth(attrs, deepest, below) = AttributesAtDepth(attrs, deepest, other)
    BY <1>1 DEF AttributesAtDepth
  <1>6. Level(deepest, below) = Level(deepest, other)
    BY <1>2, <1>3, <1>4, <1>5 DEF Level
  <1> QED BY <1>6 DEF deepest

\* What the levels from one on are.
IsSanitized(f, level) == f = [l \in level..(MaxDepth + 1) |-> Level(l, f[l + 1])]

LEMMA SanitizedExists == \E f : IsSanitized(f, 0)
  <1> DEFINE top == MaxDepth + 1
             T == {j \in 0..top : ~ \E f : IsSanitized(f, top - j)}
  <1>1. top \in Nat
    BY RedactionAssumption
  <1>2. SUFFICES ASSUME T # {} PROVE FALSE
    <2>1. top \in 0..top /\ top - top = 0
      BY <1>1
    <2> HIDE DEF top
    <2> QED BY <1>2, <2>1
  <1> HIDE DEF top
  <1>3. PICK m \in T : \A j \in T : m <= j
    <2>1. T \subseteq 0..top
      OBVIOUS
    <2> HIDE DEF T
    <2> QED BY <1>1, <1>2, <2>1, LeastNumber
  <1>4. m \in 0..top /\ ~ \E f : IsSanitized(f, top - m)
    OBVIOUS
  <1>5. m # 0
    <2> DEFINE f == [l \in {top} |-> Level(l, {})]
    <2>1. f = [l \in {top} |-> Level(l, f[l + 1])]
      <3>1. Level(top, {}) = Level(top, f[top + 1])
        BY DeepestLevel DEF top
      <3>2. \A l \in {top} : Level(l, {}) = Level(l, f[l + 1])
        BY <3>1
      <3> HIDE DEF f
      <3>3. f = [l \in {top} |-> Level(l, {})]
        BY DEF f
      <3> QED BY <3>2, <3>3
    <2> HIDE DEF f
    <2>2. (top - 0)..top = {top}
      BY <1>1
    <2>3. IsSanitized(f, top - 0)
      BY <2>1, <2>2 DEF IsSanitized, top
    <2> QED BY <1>4, <2>3
  <1> DEFINE level == top - m
  <1>6. m - 1 \in 0..top /\ ~(m <= m - 1) /\ top - (m - 1) = level + 1 /\ level \in 0..top /\ level + 1 \in 0..top
    BY <1>1, <1>4, <1>5
  <1>7. m - 1 \notin T
    <2> HIDE DEF T
    <2> QED BY <1>3, <1>6
  <1>8. ~ \E f : IsSanitized(f, level)
    BY <1>4
  <1>9. PICK f : IsSanitized(f, level + 1)
    BY <1>6, <1>7
  <1> HIDE DEF level, T
  <1>10. f = [l \in (level + 1)..top |-> Level(l, f[l + 1])]
    BY <1>9 DEF IsSanitized, top
  <1> DEFINE g == [l \in level..top |-> IF l = level THEN Level(level, f[level + 1]) ELSE f[l]]
  <1>11. \A l \in level..top : g[l] = Level(l, g[l + 1])
    <2> SUFFICES ASSUME NEW l \in level..top PROVE g[l] = Level(l, g[l + 1])
      OBVIOUS
    <2>1. g[l] = Level(l, f[l + 1])
      <3>1. CASE l = level
        BY <3>1
      <3>2. CASE l # level
        <4>1. l \in (level + 1)..top
          BY <1>1, <1>6, <3>2
        <4>2. f[l] = Level(l, f[l + 1])
          BY <1>10, <4>1, Zenon
        <4> QED BY <3>2, <4>2
      <3> QED BY <3>1, <3>2
    <2>2. CASE l = top
      <3>1. Level(top, f[top + 1]) = Level(top, g[top + 1])
        BY DeepestLevel DEF top
      <3> HIDE DEF g
      <3> QED BY <2>1, <2>2, <3>1
    <2>3. CASE l # top
      <3>1. l + 1 \in level..top /\ l + 1 # level
        BY <1>1, <1>6, <2>3
      <3>2. g[l + 1] = f[l + 1]
        BY <3>1
      <3> HIDE DEF g
      <3> QED BY <2>1, <3>2
    <2> QED BY <2>2, <2>3
  <1>12. IsSanitized(g, level)
    <2>1. g = [l \in level..top |-> g[l]]
      OBVIOUS
    <2> HIDE DEF g
    <2>2. g = [l \in level..top |-> Level(l, g[l + 1])]
      BY <1>11, <2>1
    <2> QED BY <2>2 DEF IsSanitized, top
  <1> QED BY <1>8, <1>12

\* What cleaning makes of a node, from what it makes of the nodes a level deeper.
LEMMA SanitizedIs ==
    ASSUME NEW level \in 0..(MaxDepth + 1)
    PROVE  /\ \A n \in Nodes :
                 /\ Sanitized[level].string[n] = SanitizeString(n, level, Sanitized[level + 1])
                 /\ Sanitized[level].value[n] = SanitizeValue(n, level, Sanitized[level + 1])
                 /\ Sanitized[level].json[n] = SanitizeJSON(n, level, Sanitized[level + 1])
           /\ \A n \in Lists :
                 Sanitized[level].attributes[n] = AttributesAtDepth(n.of, level, Sanitized[level + 1])
  <1>1. Sanitized = CHOOSE f : IsSanitized(f, 0)
    BY DEF Sanitized, IsSanitized
  <1>2. IsSanitized(Sanitized, 0)
    BY <1>1, SanitizedExists, Zenon
  <1>3. Sanitized[level] = Level(level, Sanitized[level + 1])
    BY <1>2 DEF IsSanitized
  <1> QED BY <1>3 DEF Level

-----------------------------------------------------------------------------
(* Every way that is kept leads to what cleaning makes of its end *)

\* What cleaning makes of a node at a level.
CleanedAt(n, level) ==
    CASE n.kind \in {"text", "json"} -> Sanitized[level].string[n]
      [] n.kind \in {"number", "list", "object"} -> Sanitized[level].json[n]
      [] n.kind \notin {"text", "json", "number", "list", "object"} -> Sanitized[level].value[n]

\* An OTLP value is cleaned as a value, a text as a text.
LEMMA ValueCleaned ==
    ASSUME NEW v \in Values, NEW level \in 1..MaxDepth
    PROVE  Sanitized[level].value[v] = CleanedAt(v, level)
  <1> DEFINE below == Sanitized[level + 1]
  <1>1. level \in 0..(MaxDepth + 1) /\ level <= MaxDepth /\ ~(level > MaxDepth) /\ v \in Nodes
    BY RedactionAssumption DEF Nodes
  <1>2. /\ Sanitized[level].value[v] = SanitizeValue(v, level, below)
        /\ Sanitized[level].string[v] = SanitizeString(v, level, below)
    BY <1>1, SanitizedIs
  <1>3. v.kind \notin {"number", "list", "object"}
    BY RedactionAssumption
  <1> HIDE DEF below
  <1>4. CASE v.kind \in {"text", "json"}
    <2>1. SanitizeValue(v, level, below) = SanitizeString(v, level, below)
      BY <1>1, <1>4 DEF SanitizeValue
    <2> QED BY <1>2, <1>4, <2>1 DEF CleanedAt
  <1>5. CASE v.kind \notin {"text", "json"}
    BY <1>3, <1>5 DEF CleanedAt
  <1> QED BY <1>4, <1>5

\* A JSON value is cleaned as one; a text in it as a text, one level deeper.
LEMMA JSONCleaned ==
    ASSUME NEW n \in JSONs, NEW level \in 1..MaxDepth
    PROVE  /\ n.kind \notin {"text", "json"} => Sanitized[level].json[n] = CleanedAt(n, level)
           /\ n.kind \in {"text", "json"} /\ level + 1 <= MaxDepth =>
                 Sanitized[level].json[n] = CleanedAt(n, level + 1)
  <1> DEFINE below == Sanitized[level + 1]
  <1>1. level \in 0..(MaxDepth + 1) /\ level <= MaxDepth /\ ~(level > MaxDepth) /\ n \in Nodes
    BY RedactionAssumption DEF Nodes
  <1>2. /\ Sanitized[level].json[n] = SanitizeJSON(n, level, below)
        /\ Sanitized[level].value[n] = SanitizeValue(n, level, below)
    BY <1>1, SanitizedIs
  <1>3. n.kind \in {"text", "json", "number", "scalar", "list", "object"}
    BY RedactionAssumption
  <1>4. n.kind \in {"text", "json"} => SanitizeJSON(n, level, below) = below.string[n]
    BY <1>1 DEF SanitizeJSON
  <1>5. n.kind = "scalar" => SanitizeJSON(n, level, below) = {n} /\ SanitizeValue(n, level, below) = {n}
    BY <1>1 DEF SanitizeJSON, SanitizeValue
  <1>6. n.kind \in {"text", "json"} => CleanedAt(n, level + 1) = below.string[n]
    BY DEF CleanedAt
  <1> HIDE DEF below
  <1>7. n.kind \in {"number", "list", "object"} => CleanedAt(n, level) = Sanitized[level].json[n]
    BY DEF CleanedAt
  <1>8. n.kind = "scalar" => CleanedAt(n, level) = Sanitized[level].value[n]
    BY DEF CleanedAt
  <1> QED BY <1>2, <1>3, <1>4, <1>5, <1>6, <1>7, <1>8

\* The sequences that are cut keep their beginning.
LEMMA CutKeeps ==
    ASSUME NEW S, NEW s \in Seq(S), NEW i \in DOMAIN s, i <= MaxWidth
    PROVE  i \in DOMAIN Cut(s) /\ Cut(s)[i] = s[i]
  BY RedactionAssumption DEF Cut

LEMMA CutIsPart ==
    ASSUME NEW S, NEW s \in Seq(S), NEW i \in DOMAIN Cut(s)
    PROVE  Cut(s)[i] \in S
  BY RedactionAssumption DEF Cut

\* The first attribute that is not looked at comes after those that are kept.
LEMMA StopIsLater ==
    ASSUME NEW attrs \in Seq(Attributes), NEW i \in DOMAIN attrs,
           i <= MaxWidth, \A j \in 1..i : attrs[j].value.kind # "none"
    PROVE  Stop(attrs) \in Nat /\ i < Stop(attrs) /\ Stop(attrs) <= Len(attrs) + 1
  <1> DEFINE stops == {j \in DOMAIN attrs : j > MaxWidth \/ attrs[j].value.kind = "none"}
                          \cup {Len(attrs) + 1}
  <1>1. stops \subseteq 0..(Len(attrs) + 1) /\ stops # {} /\ Len(attrs) + 1 \in Nat
    OBVIOUS
  <1>2. \A j \in stops : i < j
    BY RedactionAssumption
  <1> HIDE DEF stops
  <1>3. \E m \in stops : \A j \in stops : m <= j
    BY <1>1, LeastNumber
  <1>4. Min(stops) \in stops
    BY <1>3 DEF Min
  <1>5. Stop(attrs) = Min(stops)
    BY DEF Stop, stops
  <1>6. Stop(attrs) \in 0..(Len(attrs) + 1) /\ i < Stop(attrs)
    BY <1>1, <1>2, <1>4, <1>5
  <1> HIDE DEF Stop
  <1> QED BY <1>1, <1>6

\* Before it every attribute has a value.
LEMMA StopIsFirst ==
    ASSUME NEW attrs \in Seq(Attributes)
    PROVE  /\ Stop(attrs) \in 1..(Len(attrs) + 1)
           /\ \A i \in 1..(Stop(attrs) - 1) : i \in DOMAIN attrs /\ attrs[i].value \in Values
  <1> DEFINE stops == {j \in DOMAIN attrs : j > MaxWidth \/ attrs[j].value.kind = "none"}
                          \cup {Len(attrs) + 1}
  <1>1. stops \subseteq 0..(Len(attrs) + 1) /\ stops # {} /\ Len(attrs) + 1 \in Nat
    OBVIOUS
  <1>2. \A j \in stops : j \in 1..(Len(attrs) + 1)
    OBVIOUS
  <1>3. \A i \in DOMAIN attrs : i \notin stops => attrs[i].value \in Values
    <2> SUFFICES ASSUME NEW i \in DOMAIN attrs, i \notin stops PROVE attrs[i].value \in Values
      OBVIOUS
    <2>1. attrs[i] \in Attributes /\ attrs[i].value.kind # "none"
      OBVIOUS
    <2> QED BY <2>1 DEF Attributes, NoValue
  <1> HIDE DEF stops
  <1>4. \E m \in stops : \A j \in stops : m <= j
    BY <1>1, LeastNumber
  <1>5. Min(stops) \in stops /\ \A j \in stops : Min(stops) <= j
    BY <1>4 DEF Min
  <1>6. Stop(attrs) = Min(stops)
    BY DEF Stop, stops
  <1>7. Stop(attrs) \in 1..(Len(attrs) + 1) /\ \A j \in stops : Stop(attrs) <= j
    BY <1>2, <1>5, <1>6
  <1> HIDE DEF Stop
  <1>8. ASSUME NEW i \in 1..(Stop(attrs) - 1)
        PROVE  i \in DOMAIN attrs /\ attrs[i].value \in Values
    <2>1. i \in DOMAIN attrs
      BY <1>7
    <2>2. i \notin stops
      BY <1>7
    <2> QED BY <1>3, <2>1, <2>2
  <1> QED BY <1>7, <1>8

\* A clean attribute comes from one that has a value, and not of raw audio.
LEMMA AttributeIs ==
    ASSUME NEW attrs \in Seq(Attributes), NEW level, NEW below,
           NEW clean \in AttributesAtDepth(attrs, level, below), NEW j \in DOMAIN clean
    PROVE  \E i \in DOMAIN attrs :
              /\ clean[j].key = attrs[i].key /\ attrs[i].key \notin AudioKeys
              /\ attrs[i].value \in Values
              /\ clean[j].value \in IF attrs[i].key \in CredentialKeys THEN {Replacement}
                                   ELSE below.value[attrs[i].value]
  <1> DEFINE some == SubSeq(attrs, 1, Stop(attrs) - 1)
             kept == Without(some, AudioKeys)
             Cleaned(a) == IF a.key \in CredentialKeys THEN {Replacement} ELSE below.value[a.value]
             options == [k \in DOMAIN kept |-> [key : {kept[k].key}, value : Cleaned(kept[k])]]
  <1>1. Stop(attrs) \in 1..(Len(attrs) + 1)
    BY StopIsFirst
  <1>2. some \in Seq(Attributes) /\ DOMAIN some = 1..(Stop(attrs) - 1)
        /\ \A i \in 1..(Stop(attrs) - 1) : some[i] = attrs[i]
    BY <1>1
  <1> HIDE DEF some
  <1>3. clean \in Combinations(options)
    <2>1. ~(level > MaxDepth)
      <3>1. level > MaxDepth => clean = <<>>
        BY DEF AttributesAtDepth
      <3> QED BY <3>1
    <2> QED BY <2>1 DEF AttributesAtDepth, some
  <1> HIDE DEF kept, Cleaned
  <1>4. DOMAIN options = DOMAIN kept
    OBVIOUS
  <1>5. \A k \in DOMAIN kept : options[k] = [key : {kept[k].key}, value : Cleaned(kept[k])]
    OBVIOUS
  <1> HIDE DEF options
  <1>6. j \in DOMAIN kept /\ clean[j] \in options[j]
    BY <1>3, <1>4, CombinationIs
  <1>7. clean[j] \in [key : {kept[j].key}, value : Cleaned(kept[j])]
    BY <1>5, <1>6
  <1>8. clean[j].key = kept[j].key /\ clean[j].value \in Cleaned(kept[j])
    BY <1>7
  <1>9. PICK i \in DOMAIN some : kept[j] = some[i] /\ some[i].key \notin AudioKeys
    BY <1>2, <1>6, WithoutIsPart DEF kept
  <1>10. i \in DOMAIN attrs /\ some[i] = attrs[i] /\ attrs[i].value \in Values
    BY <1>2, StopIsFirst
  <1> QED BY <1>8, <1>9, <1>10 DEF Cleaned

\* Cleaning a list of attributes leaves one.
LEMMA AttributesAreListed ==
    ASSUME NEW attrs \in Seq(Attributes), NEW level, NEW below,
           NEW clean \in AttributesAtDepth(attrs, level, below)
    PROVE  \E S : clean \in Seq(S)
  <1> DEFINE some == SubSeq(attrs, 1, Stop(attrs) - 1)
             kept == Without(some, AudioKeys)
             Cleaned(a) == IF a.key \in CredentialKeys THEN {Replacement} ELSE below.value[a.value]
             options == [j \in DOMAIN kept |-> [key : {kept[j].key}, value : Cleaned(kept[j])]]
  <1>1. CASE level > MaxDepth
    <2>1. clean = <<>>
      BY <1>1 DEF AttributesAtDepth
    <2>2. <<>> \in Seq({})
      OBVIOUS
    <2> QED BY <2>1, <2>2
  <1>2. CASE ~(level > MaxDepth)
    <2>1. some \in Seq(Attributes)
      <3>1. Stop(attrs) \in 1..(Len(attrs) + 1)
        BY StopIsFirst
      <3> QED BY <3>1
    <2>2. clean \in Combinations(options)
      BY <1>2 DEF AttributesAtDepth
    <2> HIDE DEF some
    <2>3. kept \in Seq(Attributes)
      BY <2>1, WithoutKeeps
    <2>4. DOMAIN options = DOMAIN kept
      OBVIOUS
    <2> HIDE DEF kept, options
    <2>5. clean = [k \in DOMAIN kept |-> clean[k]]
      BY <2>2, <2>4, CombinationIs
    <2>6. DOMAIN kept = 1..Len(kept) /\ Len(kept) \in Nat
      BY <2>3
    <2> DEFINE S == {clean[k] : k \in DOMAIN kept}
    <2>7. \A k \in 1..Len(kept) : clean[k] \in S
      BY <2>6
    <2> HIDE DEF S
    <2>8. clean \in Seq(S)
      BY <2>5, <2>6, <2>7
    <2> QED BY <2>8
  <1> QED BY <1>1, <1>2

\* An attribute before that, and not of raw audio, is in the clean ones, under
\* its key, with its clean value or as [REDACTED].
LEMMA AttributeKept ==
    ASSUME NEW attrs \in Seq(Attributes), NEW i \in DOMAIN attrs,
           i <= MaxWidth, \A j \in 1..i : attrs[j].value.kind # "none",
           attrs[i].key \notin AudioKeys,
           NEW level \in 0..MaxDepth, NEW below, NEW clean \in AttributesAtDepth(attrs, level, below)
    PROVE  \E j \in DOMAIN clean :
              /\ clean[j].key = attrs[i].key
              /\ clean[j].value \in IF attrs[i].key \in CredentialKeys THEN {Replacement}
                                   ELSE below.value[attrs[i].value]
  <1> DEFINE some == SubSeq(attrs, 1, Stop(attrs) - 1)
             kept == Without(some, AudioKeys)
             Cleaned(a) == IF a.key \in CredentialKeys THEN {Replacement} ELSE below.value[a.value]
             options == [j \in DOMAIN kept |-> [key : {kept[j].key}, value : Cleaned(kept[j])]]
  <1>1. Stop(attrs) \in Nat /\ i < Stop(attrs) /\ Stop(attrs) <= Len(attrs) + 1 /\ i \in 1..Len(attrs)
    BY StopIsLater
  <1>2. some \in Seq(Attributes) /\ i \in DOMAIN some /\ some[i] = attrs[i]
    BY <1>1
  <1> HIDE DEF some
  <1>3. PICK j \in DOMAIN kept : kept[j] = attrs[i]
    BY <1>2, WithoutKeeps
  <1>4. clean \in Combinations(options)
    <2>1. ~(level > MaxDepth)
      BY RedactionAssumption
    <2> QED BY <2>1 DEF AttributesAtDepth, some
  <1> HIDE DEF kept, Cleaned
  <1>5. options = [k \in DOMAIN kept |-> options[k]] /\ options[j] = [key : {kept[j].key}, value : Cleaned(kept[j])]
    BY <1>3
  <1>6. DOMAIN options = DOMAIN kept
    OBVIOUS
  <1> HIDE DEF options
  <1>7. DOMAIN clean = DOMAIN kept /\ clean[j] \in options[j]
    BY <1>3, <1>4, <1>6, CombinationIs
  <1>8. clean[j] \in [key : {attrs[i].key}, value : Cleaned(attrs[i])]
    BY <1>3, <1>5, <1>7
  <1>9. clean[j].key = attrs[i].key /\ clean[j].value \in Cleaned(attrs[i])
    BY <1>8
  <1> QED BY <1>3, <1>7, <1>9 DEF Cleaned

Way(n, at, to, cost, open) == [at |-> <<n.kind, at>>, to |-> to, cost |-> cost, open |-> open]

JSONCost(to) == IF to.kind \in {"text", "json"} THEN 2 ELSE 1

Valued(attrs, i) == \A j \in 1..i : attrs[j].value.kind # "none"

LEMMA WaysOf ==
    ASSUME NEW n
    PROVE  /\ n.kind = "array" => Ways(n) = {Way(n, i, n.of[i], 1, i <= MaxWidth) : i \in DOMAIN n.of}
           /\ n.kind = "list" =>
                 Ways(n) = {Way(n, i, n.of[i], JSONCost(n.of[i]), i <= MaxWidth) : i \in DOMAIN n.of}
           /\ n.kind = "kvlist" =>
                 Ways(n) = {Way(n, n.of[i].key, n.of[i].value, 2,
                                /\ i <= MaxWidth
                                /\ Valued(n.of, i)
                                /\ n.of[i].key \notin AudioKeys) : i \in DOMAIN n.of}
           /\ n.kind = "object" =>
                 Ways(n) = {Way(n, k, n.of[k], JSONCost(n.of[k]),
                                Cardinality(DOMAIN n.of) <= MaxWidth /\ k \notin AudioKeys) : k \in DOMAIN n.of}
           /\ n.kind = "json" => Ways(n) = {Way(n, "text", n.of, 1, TRUE)}
           /\ n.kind \in {"text", "bytes", "number", "scalar"} => Ways(n) = {}
  <1>1. n.kind = "array" => Ways(n) = {Way(n, i, n.of[i], 1, i <= MaxWidth) : i \in DOMAIN n.of}
    BY DEF Ways, Way
  <1>2. n.kind = "list" => Ways(n) = {Way(n, i, n.of[i], JSONCost(n.of[i]), i <= MaxWidth) : i \in DOMAIN n.of}
    BY DEF Ways, Way, JSONCost
  <1>3. n.kind = "kvlist" =>
           Ways(n) = {Way(n, n.of[i].key, n.of[i].value, 2,
                          /\ i <= MaxWidth
                          /\ Valued(n.of, i)
                          /\ n.of[i].key \notin AudioKeys) : i \in DOMAIN n.of}
    BY DEF Ways, Way, Valued
  <1>4. n.kind = "object" =>
           Ways(n) = {Way(n, k, n.of[k], JSONCost(n.of[k]),
                          Cardinality(DOMAIN n.of) <= MaxWidth /\ k \notin AudioKeys) : k \in DOMAIN n.of}
    BY DEF Ways, Way, JSONCost
  <1>5. n.kind = "json" => Ways(n) = {Way(n, "text", n.of, 1, TRUE)}
    BY DEF Ways, Way
  <1>6. n.kind \in {"text", "bytes", "number", "scalar"} => Ways(n) = {}
    BY DEF Ways
  <1> QED BY <1>1, <1>2, <1>3, <1>4, <1>5, <1>6

\* What cleaning makes of the nodes with others in them.
LEMMA ArrayIs ==
    ASSUME NEW n \in Values, n.kind = "array", NEW level \in 1..MaxDepth, NEW m \in CleanedAt(n, level)
    PROVE  /\ m.kind = "array"
           /\ m.of \in Combinations([i \in DOMAIN Cut(n.of) |-> Sanitized[level + 1].value[Cut(n.of)[i]]])
  <1> DEFINE below == Sanitized[level + 1]
             options == [i \in DOMAIN Cut(n.of) |-> below.value[Cut(n.of)[i]]]
  <1>1. level \in 0..(MaxDepth + 1) /\ level <= MaxDepth /\ ~(level > MaxDepth) /\ n \in Nodes
    BY RedactionAssumption DEF Nodes
  <1>2. CleanedAt(n, level) = SanitizeValue(n, level, below)
    BY <1>1, SanitizedIs, ValueCleaned
  <1>3. SanitizeValue(n, level, below) = [kind : {"array"}, of : Combinations(options)]
    BY <1>1 DEF SanitizeValue
  <1>4. m.kind = "array" /\ m.of \in Combinations(options)
    <2> HIDE DEF options
    <2> QED BY <1>2, <1>3
  <1> QED BY <1>4

LEMMA ParsedIs ==
    ASSUME NEW n \in Nodes, n.kind = "json", NEW level \in 1..MaxDepth, NEW m \in CleanedAt(n, level)
    PROVE  m.kind = "json" /\ m.of \in Sanitized[level + 1].json[n.of]
  <1> DEFINE below == Sanitized[level + 1]
  <1>1. level \in 0..(MaxDepth + 1) /\ level <= MaxDepth
    BY RedactionAssumption
  <1>2. CleanedAt(n, level) = SanitizeString(n, level, below)
    <2>1. CleanedAt(n, level) = Sanitized[level].string[n]
      BY DEF CleanedAt
    <2> QED BY <1>1, <2>1, SanitizedIs
  <1>3. SanitizeString(n, level, below) = [kind : {"json"}, of : below.json[n.of]]
    <2>1. n \notin {Text("private_key"), Text("bearer")} /\ n # Text("media")
      BY DEF Text
    <2> QED BY <1>1, <2>1 DEF SanitizeString
  <1> QED BY <1>2, <1>3

LEMMA ListIs ==
    ASSUME NEW n \in JSONs, n.kind = "list", NEW level \in 1..MaxDepth, NEW m \in CleanedAt(n, level)
    PROVE  /\ m.kind = "list"
           /\ m.of \in Combinations([i \in DOMAIN Cut(n.of) |-> Sanitized[level + 1].json[Cut(n.of)[i]]])
  <1> DEFINE below == Sanitized[level + 1]
             options == [i \in DOMAIN Cut(n.of) |-> below.json[Cut(n.of)[i]]]
  <1>1. level \in 0..(MaxDepth + 1) /\ level <= MaxDepth /\ ~(level > MaxDepth) /\ n \in Nodes
    BY RedactionAssumption DEF Nodes
  <1>2. CleanedAt(n, level) = SanitizeJSON(n, level, below)
    <2>1. CleanedAt(n, level) = Sanitized[level].json[n]
      BY DEF CleanedAt
    <2> QED BY <1>1, <2>1, SanitizedIs
  <1>3. SanitizeJSON(n, level, below) = [kind : {"list"}, of : Combinations(options)]
    BY <1>1 DEF SanitizeJSON
  <1>4. m.kind = "list" /\ m.of \in Combinations(options)
    <2> HIDE DEF options
    <2> QED BY <1>2, <1>3
  <1> QED BY <1>4

CleanMembers(n, seen, below) ==
    [k \in seen \ AudioKeys |-> IF k \in CredentialKeys THEN {Replacement} ELSE below.json[n.of[k]]]

LEMMA ObjectIs ==
    ASSUME NEW n \in JSONs, n.kind = "object", NEW level \in 1..MaxDepth, NEW m \in CleanedAt(n, level)
    PROVE  /\ m.kind = "object"
           /\ \E seen \in Visits(DOMAIN n.of) : m.of \in Combinations(CleanMembers(n, seen, Sanitized[level + 1]))
  <1> DEFINE below == Sanitized[level + 1]
  <1>1. level \in 0..(MaxDepth + 1) /\ level <= MaxDepth /\ ~(level > MaxDepth) /\ n \in Nodes
    BY RedactionAssumption DEF Nodes
  <1>2. CleanedAt(n, level) = SanitizeJSON(n, level, below)
    <2>1. CleanedAt(n, level) = Sanitized[level].json[n]
      BY DEF CleanedAt
    <2> QED BY <1>1, <2>1, SanitizedIs
  <1>3. SanitizeJSON(n, level, below) =
           [kind : {"object"},
            of : UNION {Combinations(CleanMembers(n, seen, below)) : seen \in Visits(DOMAIN n.of)}]
    BY <1>1 DEF SanitizeJSON, CleanMembers
  <1> QED BY <1>2, <1>3

LEMMA ListOfAttributesIs ==
    ASSUME NEW n \in Values, n.kind = "kvlist", NEW level \in 1..MaxDepth, NEW m \in CleanedAt(n, level)
    PROVE  m.kind = "kvlist" /\ m.of \in AttributesAtDepth(n.of, level + 1, Sanitized[level + 2])
  <1> DEFINE below == Sanitized[level + 1]
             deeper == Sanitized[level + 2]
  <1>1. level \in 0..(MaxDepth + 1) /\ level + 1 \in 0..(MaxDepth + 1) /\ level <= MaxDepth /\ ~(level > MaxDepth)
    BY RedactionAssumption
  <1>2. n \in Nodes /\ n \in Lists
    BY DEF Nodes, Lists
  <1>3. CleanedAt(n, level) = SanitizeValue(n, level, below)
    BY <1>1, <1>2, SanitizedIs, ValueCleaned
  <1>4. SanitizeValue(n, level, below) = [kind : {"kvlist"}, of : below.attributes[n]]
    BY <1>1 DEF SanitizeValue
  <1>5. below.attributes[n] = AttributesAtDepth(n.of, level + 1, Sanitized[(level + 1) + 1])
    BY <1>1, <1>2, SanitizedIs
  <1>6. below.attributes[n] = AttributesAtDepth(n.of, level + 1, deeper)
    <2>1. (level + 1) + 1 = level + 2
      BY <1>1
    <2> QED BY <1>5, <2>1
  <1> HIDE DEF below, deeper
  <1>7. m.kind = "kvlist" /\ m.of \in AttributesAtDepth(n.of, level + 1, deeper)
    BY <1>3, <1>4, <1>6
  <1> QED BY <1>7 DEF deeper

\* The export goes the same way, to the clean end of it.
Kept(w, m, level) ==
    \E x \in Ways(m) :
        /\ x.at = w.at
        /\ x.to \in IF w.at \in Places(CredentialKeys) THEN {Replacement}
                    ELSE CleanedAt(w.to, level + w.cost)

\* The items of an OTLP array.
LEMMA ArrayKept ==
    ASSUME NEW n \in Values, n.kind = "array", NEW level \in 1..MaxDepth,
           NEW m \in CleanedAt(n, level),
           NEW w \in Ways(n), w.open, level + w.cost <= MaxDepth
    PROVE  Kept(w, m, level) /\ w.to \in Nodes /\ w.cost \in 1..2
  <1> DEFINE below == Sanitized[level + 1]
             values == Cut(n.of)
             options == [i \in DOMAIN values |-> below.value[values[i]]]
  <1>1. n.of \in Seq(Values)
    BY RedactionAssumption
  <1>2. PICK i \in DOMAIN n.of : w = Way(n, i, n.of[i], 1, i <= MaxWidth)
    <2>1. Ways(n) = {Way(n, i, n.of[i], 1, i <= MaxWidth) : i \in DOMAIN n.of}
      BY WaysOf
    <2> QED BY <2>1
  <1>3. w.at = <<"array", i>> /\ w.to = n.of[i] /\ w.cost = 1 /\ i <= MaxWidth
    BY <1>2 DEF Way
  <1>4. i \in DOMAIN values /\ values[i] = n.of[i] /\ n.of[i] \in Values
    BY <1>1, <1>3, CutKeeps
  <1>5. m.kind = "array" /\ m.of \in Combinations(options)
    BY ArrayIs
  <1>6. DOMAIN m.of = DOMAIN values /\ m.of[i] \in options[i]
    <2>1. DOMAIN options = DOMAIN values
      OBVIOUS
    <2> HIDE DEF options, values
    <2> QED BY <1>4, <1>5, <2>1, CombinationIs
  <1>7. options[i] = CleanedAt(n.of[i], level + 1)
    <2>1. options[i] = below.value[n.of[i]]
      BY <1>4
    <2>2. level + 1 \in 1..MaxDepth
      BY <1>3, RedactionAssumption
    <2> HIDE DEF options
    <2> QED BY <1>4, <2>1, <2>2, ValueCleaned
  <1> HIDE DEF options, values
  <1>8. Way(m, i, m.of[i], 1, i <= MaxWidth) \in Ways(m)
    <2>1. Ways(m) = {Way(m, j, m.of[j], 1, j <= MaxWidth) : j \in DOMAIN m.of}
      BY <1>5, WaysOf
    <2> QED BY <1>4, <1>6, <2>1
  <1>9. w.at \notin Places(CredentialKeys)
    BY <1>3 DEF Places
  <1>10. Kept(w, m, level)
    <2>1. /\ Way(m, i, m.of[i], 1, i <= MaxWidth).at = w.at
          /\ Way(m, i, m.of[i], 1, i <= MaxWidth).to = m.of[i]
      BY <1>3, <1>5 DEF Way
    <2> QED BY <1>3, <1>6, <1>7, <1>8, <1>9, <2>1 DEF Kept
  <1> QED BY <1>3, <1>4, <1>10 DEF Nodes

\* JSON in a text.
LEMMA TextKept ==
    ASSUME NEW n \in Nodes, n.kind = "json", NEW level \in 1..MaxDepth,
           NEW m \in CleanedAt(n, level),
           NEW w \in Ways(n), w.open, level + w.cost <= MaxDepth
    PROVE  Kept(w, m, level) /\ w.to \in Nodes /\ w.cost \in 1..2
  <1> DEFINE below == Sanitized[level + 1]
  <1>1. n.of \in JSONs /\ n.of.kind \in {"list", "object"}
    BY RedactionAssumption DEF Nodes
  <1>2. w = Way(n, "text", n.of, 1, TRUE)
    BY WaysOf
  <1>3. w.at = <<"json", "text">> /\ w.to = n.of /\ w.cost = 1
    BY <1>2 DEF Way
  <1>4. m.kind = "json" /\ m.of \in below.json[n.of]
    BY ParsedIs
  <1>5. below.json[n.of] = CleanedAt(n.of, level + 1)
    <2>1. level + 1 \in 1..MaxDepth
      BY <1>3, RedactionAssumption
    <2> QED BY <1>1, <2>1, JSONCleaned
  <1> HIDE DEF below
  <1>6. Way(m, "text", m.of, 1, TRUE) \in Ways(m)
    BY <1>4, WaysOf
  <1>7. w.at \notin Places(CredentialKeys)
    BY <1>3 DEF Places
  <1>8. Kept(w, m, level)
    <2>1. Way(m, "text", m.of, 1, TRUE).at = w.at /\ Way(m, "text", m.of, 1, TRUE).to = m.of
      BY <1>3, <1>4 DEF Way
    <2> QED BY <1>3, <1>4, <1>5, <1>6, <1>7, <2>1 DEF Kept
  <1> QED BY <1>1, <1>3, <1>8 DEF Nodes

\* What cleaning makes of a JSON value in another one, at the cost of the way to it.
LEMMA JSONEnd ==
    ASSUME NEW n \in JSONs, NEW level \in 1..MaxDepth, level + JSONCost(n) <= MaxDepth
    PROVE  Sanitized[level + 1].json[n] = CleanedAt(n, level + JSONCost(n))
  <1>1. CASE n.kind \in {"text", "json"}
    <2>1. JSONCost(n) = 2
      BY <1>1 DEF JSONCost
    <2>2. level + 1 \in 1..MaxDepth /\ (level + 1) + 1 <= MaxDepth /\ (level + 1) + 1 = level + 2
      BY <2>1, RedactionAssumption
    <2>3. Sanitized[level + 1].json[n] = CleanedAt(n, (level + 1) + 1)
      BY <1>1, <2>2, JSONCleaned
    <2> QED BY <2>1, <2>2, <2>3
  <1>2. CASE n.kind \notin {"text", "json"}
    <2>1. JSONCost(n) = 1
      BY <1>2 DEF JSONCost
    <2>2. level + 1 \in 1..MaxDepth
      BY <2>1, RedactionAssumption
    <2>3. Sanitized[level + 1].json[n] = CleanedAt(n, level + 1)
      BY <1>2, <2>2, JSONCleaned
    <2> QED BY <2>1, <2>3
  <1> QED BY <1>1, <1>2

\* The items of a JSON list.
LEMMA ListKept ==
    ASSUME NEW n \in JSONs, n.kind = "list", NEW level \in 1..MaxDepth,
           NEW m \in CleanedAt(n, level),
           NEW w \in Ways(n), w.open, level + w.cost <= MaxDepth
    PROVE  Kept(w, m, level) /\ w.to \in Nodes /\ w.cost \in 1..2
  <1> DEFINE below == Sanitized[level + 1]
             items == Cut(n.of)
             options == [i \in DOMAIN items |-> below.json[items[i]]]
  <1>1. n.of \in Seq(JSONs)
    BY RedactionAssumption
  <1>2. PICK i \in DOMAIN n.of : w = Way(n, i, n.of[i], JSONCost(n.of[i]), i <= MaxWidth)
    <2>1. Ways(n) = {Way(n, i, n.of[i], JSONCost(n.of[i]), i <= MaxWidth) : i \in DOMAIN n.of}
      BY WaysOf
    <2> QED BY <2>1
  <1>3. w.at = <<"list", i>> /\ w.to = n.of[i] /\ w.cost = JSONCost(n.of[i]) /\ i <= MaxWidth
    BY <1>2 DEF Way
  <1>4. i \in DOMAIN items /\ items[i] = n.of[i] /\ n.of[i] \in JSONs
    BY <1>1, <1>3, CutKeeps
  <1>5. m.kind = "list" /\ m.of \in Combinations(options)
    BY ListIs
  <1>6. DOMAIN m.of = DOMAIN items /\ m.of[i] \in options[i]
    <2>1. DOMAIN options = DOMAIN items
      OBVIOUS
    <2> HIDE DEF options, items
    <2> QED BY <1>4, <1>5, <2>1, CombinationIs
  <1>7. options[i] = CleanedAt(n.of[i], level + w.cost)
    <2>1. options[i] = below.json[n.of[i]]
      BY <1>4
    <2>2. below.json[n.of[i]] = CleanedAt(n.of[i], level + JSONCost(n.of[i]))
      BY <1>3, <1>4, JSONEnd
    <2> QED BY <1>3, <2>1, <2>2
  <1> HIDE DEF options, items
  <1> DEFINE x == Way(m, i, m.of[i], JSONCost(m.of[i]), i <= MaxWidth)
  <1>8. x \in Ways(m)
    <2>1. Ways(m) = {Way(m, j, m.of[j], JSONCost(m.of[j]), j <= MaxWidth) : j \in DOMAIN m.of}
      BY <1>5, WaysOf
    <2> QED BY <1>4, <1>6, <2>1
  <1>9. w.at \notin Places(CredentialKeys)
    BY <1>3 DEF Places
  <1>10. x.at = w.at /\ x.to = m.of[i]
    BY <1>3, <1>5 DEF Way
  <1> HIDE DEF x
  <1>11. Kept(w, m, level)
    BY <1>3, <1>6, <1>7, <1>8, <1>9, <1>10 DEF Kept
  <1> QED BY <1>3, <1>4, <1>11 DEF Nodes, JSONCost

\* The members of a JSON object, whatever order Go visits them in.
LEMMA ObjectKept ==
    ASSUME NEW n \in JSONs, n.kind = "object", NEW level \in 1..MaxDepth,
           NEW m \in CleanedAt(n, level),
           NEW w \in Ways(n), w.open, level + w.cost <= MaxDepth
    PROVE  /\ Kept(w, m, level) /\ w.cost \in 1..2 /\ w.to \in Nodes
  <1> DEFINE below == Sanitized[level + 1]
             members == DOMAIN n.of
             Options(seen) ==
                [k \in seen \ AudioKeys |->
                     IF k \in CredentialKeys THEN {Replacement} ELSE below.json[n.of[k]]]
  <1>1. \A k \in members : n.of[k] \in JSONs
    BY RedactionAssumption
  <1>2. PICK k \in members : w = Way(n, k, n.of[k], JSONCost(n.of[k]),
                                     Cardinality(members) <= MaxWidth /\ k \notin AudioKeys)
    <2>1. Ways(n) = {Way(n, k, n.of[k], JSONCost(n.of[k]),
                         Cardinality(members) <= MaxWidth /\ k \notin AudioKeys) : k \in members}
      BY WaysOf
    <2> QED BY <2>1
  <1>3. /\ w.at = <<"object", k>> /\ w.to = n.of[k] /\ w.cost = JSONCost(n.of[k])
        /\ Cardinality(members) <= MaxWidth /\ k \notin AudioKeys
    BY <1>2 DEF Way
  <1>4. m.kind = "object" /\ m.of \in Combinations(Options(members))
    <2>1. Visits(members) = {members}
      BY <1>3 DEF Visits
    <2>2. m.kind = "object" /\ \E seen \in Visits(members) : m.of \in Combinations(CleanMembers(n, seen, below))
      BY ObjectIs
    <2>3. CleanMembers(n, members, below) = Options(members)
      BY DEF CleanMembers
    <2> HIDE DEF Options, members
    <2> QED BY <2>1, <2>2, <2>3
  <1> DEFINE options == Options(members)
  <1>5. DOMAIN m.of = members \ AudioKeys /\ m.of[k] \in options[k]
    <2>1. DOMAIN options = members \ AudioKeys /\ m.of \in Combinations(options)
      BY <1>4
    <2> HIDE DEF options
    <2> QED BY <1>3, <2>1, CombinationIs
  <1>6. options[k] = IF k \in CredentialKeys THEN {Replacement} ELSE CleanedAt(n.of[k], level + w.cost)
    <2>1. options[k] = IF k \in CredentialKeys THEN {Replacement} ELSE below.json[n.of[k]]
      BY <1>3
    <2>2. below.json[n.of[k]] = CleanedAt(n.of[k], level + JSONCost(n.of[k]))
      BY <1>1, <1>3, JSONEnd
    <2> HIDE DEF options
    <2> QED BY <1>3, <2>1, <2>2
  <1> HIDE DEF options, Options
  <1> DEFINE x == Way(m, k, m.of[k], JSONCost(m.of[k]),
                      Cardinality(DOMAIN m.of) <= MaxWidth /\ k \notin AudioKeys)
  <1>7. x \in Ways(m)
    <2>1. Ways(m) = {Way(m, j, m.of[j], JSONCost(m.of[j]),
                         Cardinality(DOMAIN m.of) <= MaxWidth /\ j \notin AudioKeys) : j \in DOMAIN m.of}
      BY <1>4, WaysOf
    <2> QED BY <1>3, <1>5, <2>1
  <1>8. x.at = w.at /\ x.to = m.of[k]
    BY <1>3, <1>4 DEF Way
  <1>9. w.at \in Places(CredentialKeys) <=> k \in CredentialKeys
    BY <1>3 DEF Places
  <1> HIDE DEF x
  <1>10. Kept(w, m, level)
    BY <1>3, <1>5, <1>6, <1>7, <1>8, <1>9 DEF Kept
  <1> QED BY <1>1, <1>3, <1>10 DEF Nodes, JSONCost

\* The attributes in an OTLP list of them.
LEMMA AttributesKept ==
    ASSUME NEW n \in Values, n.kind = "kvlist", NEW level \in 1..MaxDepth,
           NEW m \in CleanedAt(n, level),
           NEW w \in Ways(n), w.open, level + w.cost <= MaxDepth
    PROVE  Kept(w, m, level) /\ w.to \in Nodes /\ w.cost \in 1..2
  <1> DEFINE below == Sanitized[level + 1]
             deeper == Sanitized[level + 2]
  <1>1. n.of \in Seq(Attributes)
    BY RedactionAssumption
  <1>2. PICK i \in DOMAIN n.of :
           w = Way(n, n.of[i].key, n.of[i].value, 2,
                   /\ i <= MaxWidth
                   /\ Valued(n.of, i)
                   /\ n.of[i].key \notin AudioKeys)
    <2>1. Ways(n) = {Way(n, n.of[i].key, n.of[i].value, 2,
                         /\ i <= MaxWidth
                         /\ Valued(n.of, i)
                         /\ n.of[i].key \notin AudioKeys) : i \in DOMAIN n.of}
      BY WaysOf
    <2> QED BY <2>1
  <1>3. /\ w.at = <<"kvlist", n.of[i].key>> /\ w.to = n.of[i].value /\ w.cost = 2
        /\ i <= MaxWidth /\ Valued(n.of, i) /\ n.of[i].key \notin AudioKeys
    BY <1>2 DEF Way
  <1>4. level + 1 \in 0..MaxDepth /\ level + 2 \in 1..MaxDepth /\ (level + 1) + 1 = level + 2
    BY <1>3, RedactionAssumption
  <1>5. n.of[i].value \in Values
    <2>1. n.of[i] \in Attributes /\ i \in 1..i
      BY <1>1
    <2>2. n.of[i].value.kind # "none"
      BY <1>3, <2>1 DEF Valued
    <2> QED BY <2>1, <2>2 DEF Attributes, NoValue
  <1>6. m.kind = "kvlist" /\ m.of \in AttributesAtDepth(n.of, level + 1, deeper)
    BY ListOfAttributesIs
  <1> HIDE DEF below, deeper
  <1>7. PICK j \in DOMAIN m.of :
           /\ m.of[j].key = n.of[i].key
           /\ m.of[j].value \in IF n.of[i].key \in CredentialKeys THEN {Replacement}
                                ELSE deeper.value[n.of[i].value]
    BY <1>1, <1>3, <1>4, <1>6, AttributeKept DEF Valued
  <1>8. deeper.value[n.of[i].value] = CleanedAt(n.of[i].value, level + 2)
    BY <1>4, <1>5, ValueCleaned DEF deeper
  <1> DEFINE x == Way(m, m.of[j].key, m.of[j].value, 2,
                      /\ j <= MaxWidth
                      /\ Valued(m.of, j)
                      /\ m.of[j].key \notin AudioKeys)
  <1>9. x \in Ways(m)
    <2>1. Ways(m) = {Way(m, m.of[l].key, m.of[l].value, 2,
                         /\ l <= MaxWidth
                         /\ Valued(m.of, l)
                         /\ m.of[l].key \notin AudioKeys) : l \in DOMAIN m.of}
      BY <1>6, WaysOf
    <2> QED BY <1>7, <2>1
  <1>10. x.at = w.at /\ x.to = m.of[j].value
    BY <1>3, <1>6, <1>7 DEF Way
  <1>11. w.at \in Places(CredentialKeys) <=> n.of[i].key \in CredentialKeys
    BY <1>3 DEF Places
  <1> HIDE DEF x
  <1>12. Kept(w, m, level)
    BY <1>3, <1>7, <1>8, <1>9, <1>10, <1>11 DEF Kept
  <1> QED BY <1>3, <1>5, <1>12 DEF Nodes

\* The attributes of a span, but for those that clients may not set.
LEMMA SpanKept ==
    ASSUME NEW attrs \in Uploads, NEW export \in Exports(attrs),
           NEW w \in Ways(List(attrs)), w.open, -1 + w.cost <= MaxDepth,
           w.at \notin Places(CanonicalKeys)
    PROVE  Kept(w, List(export), -1) /\ w.to \in Nodes /\ w.cost = 2
  <1> DEFINE n == List(attrs)
             m == List(export)
  <1>1. attrs \in Seq(Attributes) /\ n.kind = "kvlist" /\ n.of = attrs /\ m.kind = "kvlist" /\ m.of = export
    BY RedactionAssumption DEF List
  <1> HIDE DEF n, m
  <1>2. PICK i \in DOMAIN n.of :
           w = Way(n, n.of[i].key, n.of[i].value, 2,
                   /\ i <= MaxWidth
                   /\ Valued(n.of, i)
                   /\ n.of[i].key \notin AudioKeys)
    <2>1. Ways(n) = {Way(n, n.of[i].key, n.of[i].value, 2,
                         /\ i <= MaxWidth
                         /\ Valued(n.of, i)
                         /\ n.of[i].key \notin AudioKeys) : i \in DOMAIN n.of}
      BY <1>1, WaysOf
    <2> QED BY <2>1 DEF n
  <1>3. /\ w.at = <<"kvlist", attrs[i].key>> /\ w.to = attrs[i].value /\ w.cost = 2
        /\ i <= MaxWidth /\ Valued(attrs, i) /\ attrs[i].key \notin AudioKeys /\ i \in DOMAIN attrs
    BY <1>1, <1>2 DEF Way
  <1>4. 1 \in 1..MaxDepth /\ 0 \in 0..MaxDepth
    BY <1>3, RedactionAssumption
  <1>5. attrs[i].value \in Values
    <2>1. attrs[i] \in Attributes /\ i \in 1..i
      BY <1>1, <1>3
    <2>2. attrs[i].value.kind # "none"
      BY <1>3, <2>1 DEF Valued
    <2> QED BY <2>1, <2>2 DEF Attributes, NoValue
  <1>6. attrs[i].key \notin CanonicalKeys
    BY <1>3 DEF Places
  <1> DEFINE Right(a) ==
                /\ a.key = attrs[i].key
                /\ a.value \in IF attrs[i].key \in CredentialKeys THEN {Replacement}
                               ELSE CleanedAt(attrs[i].value, 1)
  <1>7. PICK clean \in AttributesAtDepth(attrs, 0, Sanitized[1]) :
           export = Append(Projected(Without(clean, CanonicalKeys)), Identity)
    BY DEF Exports, WithoutCanonical
  <1>8. (\E S : clean \in Seq(S)) /\ \E j \in DOMAIN clean : Right(clean[j])
    <2>1. CleanedAt(attrs[i].value, 1) = Sanitized[1].value[attrs[i].value]
      BY <1>4, <1>5, ValueCleaned
    <2> DEFINE below == Sanitized[1]
    <2>2. clean \in AttributesAtDepth(attrs, 0, below)
      BY <1>7
    <2>3. below.value[attrs[i].value] = CleanedAt(attrs[i].value, 1)
      BY <2>1
    <2> HIDE DEF below
    <2>4. \A j \in 1..i : attrs[j].value.kind # "none"
      BY <1>3 DEF Valued
    <2>5. \E S : clean \in Seq(S)
      BY <1>1, <2>2, AttributesAreListed
    <2>6. \E j \in DOMAIN clean :
             /\ clean[j].key = attrs[i].key
             /\ clean[j].value \in IF attrs[i].key \in CredentialKeys THEN {Replacement}
                                  ELSE below.value[attrs[i].value]
      BY <1>1, <1>3, <1>4, <2>2, <2>4, AttributeKept
    <2>7. \E j \in DOMAIN clean : Right(clean[j])
      BY <2>3, <2>6
    <2> QED BY <2>5, <2>7
  <1>9. PICK S : clean \in Seq(S)
    BY <1>8
  <1>10. PICK j \in DOMAIN clean : Right(clean[j])
    BY <1>8
  <1> DEFINE kept == Without(clean, CanonicalKeys)
  <1>11. kept \in Seq(S) /\ \E l \in DOMAIN kept : Right(kept[l])
    <2>1. clean[j].key \notin CanonicalKeys
      BY <1>6, <1>10
    <2>2. kept \in Seq(S)
      BY <1>9, WithoutKeeps
    <2>3. \A k \in DOMAIN clean :
             clean[k].key \notin CanonicalKeys => \E l \in DOMAIN kept : kept[l] = clean[k]
      BY <1>9, WithoutKeeps
    <2> HIDE DEF kept
    <2>4. PICK l \in DOMAIN kept : kept[l] = clean[j]
      BY <2>1, <2>3
    <2>5. Right(kept[l])
      BY <1>10, <2>4
    <2> QED BY <2>2, <2>5
  <1> HIDE DEF kept
  <1>12. PICK l \in DOMAIN kept : Right(kept[l])
    BY <1>11
  <1>13. /\ \E R : Projected(kept) \in Seq(R)
         /\ l \in DOMAIN Projected(kept) /\ Projected(kept)[l] = kept[l]
    <2>1. Projected(kept) = kept \/ \E a : Projected(kept) = Append(kept, a)
      BY DEF Projected
    <2>2. CASE Projected(kept) = kept
      BY <1>11, <1>12, <2>2
    <2>3. ASSUME NEW a, Projected(kept) = Append(kept, a)
          PROVE  /\ \E R : Projected(kept) \in Seq(R)
                 /\ l \in DOMAIN Projected(kept) /\ Projected(kept)[l] = kept[l]
      <3>1. kept \in Seq(S \cup {a})
        BY <1>11
      <3>2. Append(kept, a) \in Seq(S \cup {a})
        BY <3>1
      <3>3. l \in DOMAIN Append(kept, a) /\ Append(kept, a)[l] = kept[l]
        BY <1>11, <1>12
      <3> QED BY <2>3, <3>2, <3>3
    <2> QED BY <2>1, <2>2, <2>3
  <1>14. PICK R : Projected(kept) \in Seq(R)
    BY <1>13
  <1>15. l \in DOMAIN export /\ export[l] = kept[l]
    <2>1. export = Append(Projected(kept), Identity)
      BY <1>7 DEF kept
    <2> QED BY <1>13, <1>14, <2>1
  <1> DEFINE x == Way(m, m.of[l].key, m.of[l].value, 2,
                      /\ l <= MaxWidth
                      /\ Valued(m.of, l)
                      /\ m.of[l].key \notin AudioKeys)
  <1>16. x \in Ways(m)
    <2>1. Ways(m) = {Way(m, m.of[k].key, m.of[k].value, 2,
                         /\ k <= MaxWidth
                         /\ Valued(m.of, k)
                         /\ m.of[k].key \notin AudioKeys) : k \in DOMAIN m.of}
      BY <1>1, WaysOf
    <2> QED BY <1>1, <1>15, <2>1
  <1>17. x.at = <<"kvlist", kept[l].key>> /\ x.to = kept[l].value
    BY <1>1, <1>15 DEF Way
  <1>18. w.at \in Places(CredentialKeys) <=> attrs[i].key \in CredentialKeys
    BY <1>3 DEF Places
  <1> HIDE DEF x
  <1>19. Kept(w, m, -1)
    <2>1. -1 + w.cost = 1
      BY <1>3
    <2> QED BY <1>3, <1>12, <1>16, <1>17, <1>18, <2>1 DEF Kept
  <1> QED BY <1>3, <1>5, <1>19 DEF Nodes, m

\* A way from any node that can be cleaned.
LEMMA WayKept ==
    ASSUME NEW n \in Nodes, NEW level \in 1..MaxDepth,
           NEW m \in CleanedAt(n, level),
           NEW w \in Ways(n), w.open, level + w.cost <= MaxDepth
    PROVE  Kept(w, m, level) /\ w.to \in Nodes /\ w.cost \in 1..2
  <1>1. \/ n \in Values /\ n.kind \in {"array", "kvlist"}
        \/ n \in JSONs /\ n.kind \in {"list", "object"}
        \/ n.kind = "json"
        \/ n.kind \in {"text", "bytes", "number", "scalar"}
    BY RedactionAssumption DEF Nodes
  <1>2. n.kind \notin {"text", "bytes", "number", "scalar"}
    BY WaysOf
  <1> QED BY <1>1, <1>2, ArrayKept, AttributesKept, ListKept, ObjectKept, TextKept

\* What cleaning makes of a leaf.
LEMMA LeafCleaned ==
    ASSUME NEW n \in Nodes, n.kind \in {"text", "bytes", "number", "scalar"}, NEW level \in 1..MaxDepth
    PROVE  CleanedAt(n, level) = {Image(n)}
  <1> DEFINE below == Sanitized[level + 1]
  <1>1. level \in 0..(MaxDepth + 1) /\ level <= MaxDepth /\ ~(level > MaxDepth)
    BY RedactionAssumption
  <1>2. /\ Sanitized[level].string[n] = SanitizeString(n, level, below)
        /\ Sanitized[level].value[n] = SanitizeValue(n, level, below)
        /\ Sanitized[level].json[n] = SanitizeJSON(n, level, below)
    BY <1>1, SanitizedIs
  <1> HIDE DEF below
  <1>3. CASE n.kind = "text"
    <2>1. CleanedAt(n, level) = SanitizeString(n, level, below)
      BY <1>2, <1>3 DEF CleanedAt
    <2>2. CASE n \in {Text("private_key"), Text("bearer")}
      BY <1>3, <2>1, <2>2 DEF SanitizeString, Image, Text
    <2>3. CASE n = Text("media")
      BY <1>3, <2>1, <2>3 DEF SanitizeString, Image, Text
    <2>4. CASE n \notin {Text("private_key"), Text("bearer"), Text("media")}
      BY <1>3, <2>1, <2>4 DEF SanitizeString, Image
    <2> QED BY <2>2, <2>3, <2>4
  <1>4. CASE n.kind = "bytes"
    <2>1. CleanedAt(n, level) = SanitizeValue(n, level, below)
      BY <1>2, <1>4 DEF CleanedAt
    <2>2. SanitizeValue(n, level, below) = {Descriptor}
      BY <1>1, <1>4 DEF SanitizeValue
    <2>3. Image(n) = Descriptor
      BY <1>4 DEF Image, Text
    <2> QED BY <2>1, <2>2, <2>3
  <1>5. CASE n.kind = "number"
    <2>1. CleanedAt(n, level) = SanitizeJSON(n, level, below)
      BY <1>2, <1>5 DEF CleanedAt
    <2>2. SanitizeJSON(n, level, below) = {[kind |-> "number", of |-> Double(n.of)]}
      BY <1>1, <1>5 DEF SanitizeJSON
    <2>3. Image(n) = [kind |-> "number", of |-> Double(n.of)]
      BY <1>5 DEF Image, Text
    <2> QED BY <2>1, <2>2, <2>3
  <1>6. CASE n.kind = "scalar"
    <2>1. CleanedAt(n, level) = SanitizeValue(n, level, below)
      BY <1>2, <1>6 DEF CleanedAt
    <2>2. SanitizeValue(n, level, below) = {n}
      BY <1>1, <1>6 DEF SanitizeValue
    <2>3. Image(n) = n
      BY <1>6 DEF Image, Text
    <2> QED BY <2>1, <2>2, <2>3
  <1> QED BY <1>3, <1>4, <1>5, <1>6

-----------------------------------------------------------------------------
(* Every way in the export leads to something clean, or to [REDACTED]       *)

\* What cleaning makes of some node.
IsClean(m, level) == m = Replacement \/ \E n \in Nodes : m \in CleanedAt(n, level)

Gone(x, level) ==
    /\ x.at \notin Places(AudioKeys)
    /\ x.at \in Places(CredentialKeys) => x.to = Replacement
    /\ x.cost \in 1..2
    /\ level + x.cost <= MaxDepth => IsClean(x.to, level + x.cost)

\* What an OTLP value, and a JSON value, is turned into is clean, at its own depth.
LEMMA CleanValue ==
    ASSUME NEW v \in Values, NEW level \in 1..MaxDepth, NEW m \in Sanitized[level].value[v]
    PROVE  IsClean(m, level)
  <1>1. Sanitized[level].value[v] = CleanedAt(v, level)
    BY ValueCleaned
  <1> QED BY <1>1 DEF IsClean, Nodes

LEMMA CleanJSON ==
    ASSUME NEW n \in JSONs, NEW level \in 1..MaxDepth,
           NEW m \in Sanitized[level + 1].json[n], level + JSONCost(m) <= MaxDepth
    PROVE  IsClean(m, level + JSONCost(m))
  <1> DEFINE below == Sanitized[level + 2]
  <1>1. JSONCost(m) \in 1..2 /\ JSONCost(n) \in 1..2
    BY DEF JSONCost
  <1>2. /\ level + 1 \in 1..MaxDepth /\ level + 1 \in 0..(MaxDepth + 1) /\ level + 2 \in 0..(MaxDepth + 1)
        /\ (level + 1) + 1 = level + 2 /\ ~(level + 1 > MaxDepth) /\ level + 1 <= MaxDepth
    BY <1>1, RedactionAssumption
  <1>3. n \in Nodes /\ n.kind \in {"text", "json", "number", "scalar", "list", "object"}
    BY RedactionAssumption DEF Nodes
  <1>4. m \in SanitizeJSON(n, level + 1, below)
    <2>1. Sanitized[level + 1].json[n] = SanitizeJSON(n, level + 1, Sanitized[(level + 1) + 1])
      BY <1>2, <1>3, SanitizedIs
    <2> QED BY <1>2, <2>1
  <1>5. JSONCost(m) = JSONCost(n)
    <2>1. CASE n.kind \in {"text", "json"}
      <3>1. m \in below.string[n]
        BY <1>2, <1>4, <2>1 DEF SanitizeJSON
      <3>2. below.string[n] = SanitizeString(n, level + 2, Sanitized[(level + 2) + 1])
        BY <1>2, <1>3, SanitizedIs
      <3> DEFINE deeper == Sanitized[(level + 2) + 1]
      <3>3. m \in SanitizeString(n, level + 2, deeper)
        BY <3>1, <3>2
      <3> HIDE DEF deeper, below
      <3>4. m.kind \in {"text", "json"}
        BY <2>1, <3>3 DEF SanitizeString, Replacement, Descriptor, Text
      <3> QED BY <2>1, <3>4 DEF JSONCost
    <2>2. CASE n.kind = "list"
      <3> DEFINE lists == Combinations([i \in DOMAIN Cut(n.of) |-> below.json[Cut(n.of)[i]]])
      <3>1. SanitizeJSON(n, level + 1, below) = [kind : {"list"}, of : lists]
        BY <1>2, <2>2 DEF SanitizeJSON
      <3> HIDE DEF lists, below
      <3>2. m \in [kind : {"list"}, of : lists]
        BY <1>4, <3>1
      <3>3. m.kind = "list"
        BY <3>2
      <3> QED BY <2>2, <3>3 DEF JSONCost
    <2>3. CASE n.kind = "object"
      <3> DEFINE objects == UNION {Combinations(CleanMembers(n, seen, below)) : seen \in Visits(DOMAIN n.of)}
      <3>1. SanitizeJSON(n, level + 1, below) = [kind : {"object"}, of : objects]
        BY <1>2, <2>3 DEF SanitizeJSON, CleanMembers
      <3> HIDE DEF objects, below
      <3>2. m \in [kind : {"object"}, of : objects]
        BY <1>4, <3>1
      <3>3. m.kind = "object"
        BY <3>2
      <3> QED BY <2>3, <3>3 DEF JSONCost
    <2>4. CASE n.kind = "number"
      <3>1. m.kind = "number"
        BY <1>2, <1>4, <2>4 DEF SanitizeJSON
      <3> QED BY <2>4, <3>1 DEF JSONCost
    <2>5. CASE n.kind = "scalar"
      <3>1. m = n
        BY <1>2, <1>4, <2>5 DEF SanitizeJSON
      <3> QED BY <3>1
    <2> QED BY <1>3, <2>1, <2>2, <2>3, <2>4, <2>5
  <1> HIDE DEF below
  <1>6. Sanitized[level + 1].json[n] = CleanedAt(n, level + JSONCost(m))
    <2>1. level + JSONCost(n) <= MaxDepth
      BY <1>5
    <2> QED BY <1>5, <2>1, JSONEnd
  <1> QED BY <1>3, <1>6 DEF IsClean

LEMMA ArrayGone ==
    ASSUME NEW n \in Values, n.kind = "array", NEW level \in 1..MaxDepth,
           NEW m \in CleanedAt(n, level), NEW x \in Ways(m)
    PROVE  Gone(x, level)
  <1> DEFINE below == Sanitized[level + 1]
             values == Cut(n.of)
             options == [i \in DOMAIN values |-> below.value[values[i]]]
  <1>1. m.kind = "array" /\ m.of \in Combinations(options)
    BY ArrayIs
  <1>2. PICK i \in DOMAIN m.of : x = Way(m, i, m.of[i], 1, i <= MaxWidth)
    <2>1. Ways(m) = {Way(m, i, m.of[i], 1, i <= MaxWidth) : i \in DOMAIN m.of}
      BY <1>1, WaysOf
    <2> QED BY <2>1
  <1>3. x.at = <<"array", i>> /\ x.to = m.of[i] /\ x.cost = 1
    BY <1>1, <1>2 DEF Way
  <1>4. i \in DOMAIN values /\ m.of[i] \in options[i]
    <2>1. DOMAIN options = DOMAIN values
      OBVIOUS
    <2> HIDE DEF options, values
    <2> QED BY <1>1, <1>2, <2>1, CombinationIs
  <1>5. values[i] \in Values
    <2>1. n.of \in Seq(Values)
      BY RedactionAssumption
    <2>2. \A j \in DOMAIN values : values[j] \in Values
      BY <2>1, CutIsPart
    <2> QED BY <1>4, <2>2
  <1>6. m.of[i] \in below.value[values[i]]
    BY <1>4
  <1>7. level + 1 <= MaxDepth => IsClean(x.to, level + 1)
    <2> SUFFICES ASSUME level + 1 <= MaxDepth PROVE IsClean(x.to, level + 1)
      OBVIOUS
    <2>1. level + 1 \in 1..MaxDepth
      BY RedactionAssumption
    <2> QED BY <1>3, <1>5, <1>6, <2>1, CleanValue
  <1>8. x.at \notin Places(AudioKeys) /\ x.at \notin Places(CredentialKeys)
    BY <1>3 DEF Places
  <1> QED BY <1>3, <1>7, <1>8 DEF Gone

LEMMA TextGone ==
    ASSUME NEW n \in Nodes, n.kind = "json", NEW level \in 1..MaxDepth,
           NEW m \in CleanedAt(n, level), NEW x \in Ways(m)
    PROVE  Gone(x, level)
  <1>1. n.of \in JSONs /\ n.of.kind \in {"list", "object"}
    BY RedactionAssumption DEF Nodes
  <1>2. m.kind = "json" /\ m.of \in Sanitized[level + 1].json[n.of]
    BY ParsedIs
  <1>3. x = Way(m, "text", m.of, 1, TRUE)
    BY <1>2, WaysOf
  <1>4. x.at = <<"json", "text">> /\ x.to = m.of /\ x.cost = 1
    BY <1>2, <1>3 DEF Way
  <1>5. level + 1 <= MaxDepth => IsClean(x.to, level + 1)
    <2> SUFFICES ASSUME level + 1 <= MaxDepth PROVE IsClean(x.to, level + 1)
      OBVIOUS
    <2>1. level + 1 \in 1..MaxDepth
      BY RedactionAssumption
    <2>2. Sanitized[level + 1].json[n.of] = CleanedAt(n.of, level + 1)
      BY <1>1, <2>1, JSONCleaned
    <2> QED BY <1>1, <1>2, <1>4, <2>2 DEF IsClean, Nodes
  <1>6. x.at \notin Places(AudioKeys) /\ x.at \notin Places(CredentialKeys)
    BY <1>4 DEF Places
  <1> QED BY <1>4, <1>5, <1>6 DEF Gone

LEMMA ListGone ==
    ASSUME NEW n \in JSONs, n.kind = "list", NEW level \in 1..MaxDepth,
           NEW m \in CleanedAt(n, level), NEW x \in Ways(m)
    PROVE  Gone(x, level)
  <1> DEFINE below == Sanitized[level + 1]
             items == Cut(n.of)
             options == [i \in DOMAIN items |-> below.json[items[i]]]
  <1>1. m.kind = "list" /\ m.of \in Combinations(options)
    BY ListIs
  <1>2. PICK i \in DOMAIN m.of : x = Way(m, i, m.of[i], JSONCost(m.of[i]), i <= MaxWidth)
    <2>1. Ways(m) = {Way(m, i, m.of[i], JSONCost(m.of[i]), i <= MaxWidth) : i \in DOMAIN m.of}
      BY <1>1, WaysOf
    <2> QED BY <2>1
  <1>3. x.at = <<"list", i>> /\ x.to = m.of[i] /\ x.cost = JSONCost(x.to)
    BY <1>1, <1>2 DEF Way
  <1>4. i \in DOMAIN items /\ m.of[i] \in options[i]
    <2>1. DOMAIN options = DOMAIN items
      OBVIOUS
    <2> HIDE DEF options, items
    <2> QED BY <1>1, <1>2, <2>1, CombinationIs
  <1>5. items[i] \in JSONs
    <2>1. n.of \in Seq(JSONs)
      BY RedactionAssumption
    <2>2. \A j \in DOMAIN items : items[j] \in JSONs
      BY <2>1, CutIsPart
    <2> QED BY <1>4, <2>2
  <1>6. x.to \in Sanitized[level + 1].json[items[i]]
    BY <1>3, <1>4
  <1> HIDE DEF items
  <1>7. level + x.cost <= MaxDepth => IsClean(x.to, level + x.cost)
    BY <1>3, <1>5, <1>6, CleanJSON
  <1>8. x.at \notin Places(AudioKeys) /\ x.at \notin Places(CredentialKeys)
    BY <1>3 DEF Places
  <1>9. x.cost \in 1..2
    BY <1>3 DEF JSONCost
  <1> QED BY <1>7, <1>8, <1>9 DEF Gone

LEMMA ObjectGone ==
    ASSUME NEW n \in JSONs, n.kind = "object", NEW level \in 1..MaxDepth,
           NEW m \in CleanedAt(n, level), NEW x \in Ways(m)
    PROVE  Gone(x, level)
  <1>1. m.kind = "object"
    BY ObjectIs
  <1>2. PICK k \in DOMAIN m.of :
           x = Way(m, k, m.of[k], JSONCost(m.of[k]),
                   Cardinality(DOMAIN m.of) <= MaxWidth /\ k \notin AudioKeys)
    <2>1. Ways(m) = {Way(m, k, m.of[k], JSONCost(m.of[k]),
                         Cardinality(DOMAIN m.of) <= MaxWidth /\ k \notin AudioKeys) : k \in DOMAIN m.of}
      BY <1>1, WaysOf
    <2> QED BY <2>1
  <1>3. x.at = <<"object", k>> /\ x.to = m.of[k] /\ x.cost = JSONCost(x.to)
    BY <1>1, <1>2 DEF Way
  <1>4. PICK seen \in Visits(DOMAIN n.of) : m.of \in Combinations(CleanMembers(n, seen, Sanitized[level + 1]))
    BY ObjectIs
  <1>5. seen \subseteq DOMAIN n.of
    BY DEF Visits, kSubset
  <1> DEFINE options == CleanMembers(n, seen, Sanitized[level + 1])
  <1>6. DOMAIN options = seen \ AudioKeys
    BY DEF CleanMembers
  <1> HIDE DEF options
  <1>7. k \in seen \ AudioKeys /\ m.of[k] \in options[k]
    <2>1. m.of \in Combinations(options)
      BY <1>4 DEF options
    <2> QED BY <1>2, <1>6, <2>1, CombinationIs
  <1>8. x.to \in IF k \in CredentialKeys THEN {Replacement} ELSE Sanitized[level + 1].json[n.of[k]]
    BY <1>3, <1>7 DEF options, CleanMembers
  <1>9. n.of[k] \in JSONs
    <2>1. n.of \in [DOMAIN n.of -> JSONs]
      BY RedactionAssumption
    <2> QED BY <1>5, <1>7, <2>1
  <1>10. level + x.cost <= MaxDepth => IsClean(x.to, level + x.cost)
    <2>1. CASE k \in CredentialKeys
      BY <1>8, <2>1 DEF IsClean
    <2>2. CASE k \notin CredentialKeys
      BY <1>3, <1>8, <1>9, <2>2, CleanJSON
    <2> QED BY <2>1, <2>2
  <1>11. x.at \notin Places(AudioKeys) /\ (x.at \in Places(CredentialKeys) => x.to = Replacement)
    BY <1>3, <1>7, <1>8 DEF Places
  <1>12. x.cost \in 1..2
    BY <1>3 DEF JSONCost
  <1> QED BY <1>10, <1>11, <1>12 DEF Gone

LEMMA AttributesGone ==
    ASSUME NEW n \in Values, n.kind = "kvlist", NEW level \in 1..MaxDepth,
           NEW m \in CleanedAt(n, level), NEW x \in Ways(m)
    PROVE  Gone(x, level)
  <1> DEFINE deeper == Sanitized[level + 2]
  <1>1. m.kind = "kvlist" /\ m.of \in AttributesAtDepth(n.of, level + 1, deeper)
    BY ListOfAttributesIs
  <1>2. PICK j \in DOMAIN m.of :
           x = Way(m, m.of[j].key, m.of[j].value, 2,
                   /\ j <= MaxWidth
                   /\ Valued(m.of, j)
                   /\ m.of[j].key \notin AudioKeys)
    <2>1. Ways(m) = {Way(m, m.of[j].key, m.of[j].value, 2,
                         /\ j <= MaxWidth
                         /\ Valued(m.of, j)
                         /\ m.of[j].key \notin AudioKeys) : j \in DOMAIN m.of}
      BY <1>1, WaysOf
    <2> QED BY <2>1
  <1>3. x.at = <<"kvlist", m.of[j].key>> /\ x.to = m.of[j].value /\ x.cost = 2
    BY <1>1, <1>2 DEF Way
  <1> HIDE DEF deeper
  <1>4. PICK i \in DOMAIN n.of :
           /\ m.of[j].key = n.of[i].key /\ n.of[i].key \notin AudioKeys
           /\ n.of[i].value \in Values
           /\ m.of[j].value \in IF n.of[i].key \in CredentialKeys THEN {Replacement}
                                ELSE deeper.value[n.of[i].value]
    <2>1. n.of \in Seq(Attributes)
      BY RedactionAssumption
    <2> QED BY <1>1, <2>1, AttributeIs
  <1>5. level + 2 <= MaxDepth => IsClean(x.to, level + 2)
    <2> SUFFICES ASSUME level + 2 <= MaxDepth PROVE IsClean(x.to, level + 2)
      OBVIOUS
    <2>1. level + 2 \in 1..MaxDepth
      BY RedactionAssumption
    <2>2. CASE n.of[i].key \in CredentialKeys
      BY <1>3, <1>4, <2>2 DEF IsClean
    <2>3. CASE n.of[i].key \notin CredentialKeys
      BY <1>3, <1>4, <2>1, <2>3, CleanValue DEF deeper
    <2> QED BY <2>2, <2>3
  <1>6. x.at \notin Places(AudioKeys) /\ (x.at \in Places(CredentialKeys) => x.to = Replacement)
    BY <1>3, <1>4 DEF Places
  <1> QED BY <1>3, <1>5, <1>6 DEF Gone

\* In a clean node, and in [REDACTED].
LEMMA WayGone ==
    ASSUME NEW level \in 1..MaxDepth, NEW m, IsClean(m, level), NEW x \in Ways(m)
    PROVE  Gone(x, level)
  <1>1. CASE m = Replacement
    <2>1. m.kind = "text"
      BY <1>1 DEF Replacement, Text
    <2> QED BY <2>1, WaysOf
  <1>2. ASSUME NEW n \in Nodes, m \in CleanedAt(n, level)
        PROVE  Gone(x, level)
    <2>1. \/ n \in Values /\ n.kind \in {"array", "kvlist"}
          \/ n \in JSONs /\ n.kind \in {"list", "object"}
          \/ n.kind = "json"
          \/ n.kind \in {"text", "bytes", "number", "scalar"}
      BY RedactionAssumption DEF Nodes
    <2>2. n.kind \notin {"text", "bytes", "number", "scalar"}
      <3> SUFFICES ASSUME n.kind \in {"text", "bytes", "number", "scalar"} PROVE FALSE
        OBVIOUS
      <3>1. m = Image(n)
        BY <1>2, LeafCleaned
      <3>2. m.kind \in {"text", "bytes", "number", "scalar"}
        BY <3>1 DEF Image, Replacement, Descriptor, Text
      <3> QED BY <3>2, WaysOf
    <2> QED BY <1>2, <2>1, <2>2, ArrayGone, AttributesGone, ListGone, ObjectGone, TextGone
  <1> QED BY <1>1, <1>2 DEF IsClean

\* A clean node is nothing private itself.
LEMMA CleanIsNotPrivate ==
    ASSUME NEW level \in 1..MaxDepth, NEW m, IsClean(m, level)
    PROVE  m \notin {Text("private_key"), Text("bearer"), Text("media")} /\ m.kind # "bytes"
  <1>1. CASE m = Replacement
    BY <1>1 DEF Replacement, Text
  <1>2. ASSUME NEW n \in Nodes, m \in CleanedAt(n, level)
        PROVE  m \notin {Text("private_key"), Text("bearer"), Text("media")} /\ m.kind # "bytes"
    <2>1. CASE n.kind \in {"text", "bytes", "number", "scalar"}
      <3>1. m = Image(n)
        BY <1>2, <2>1, LeafCleaned
      <3> QED BY <2>1, <3>1 DEF Image, Replacement, Descriptor, Text
    <2>2. CASE n.kind \notin {"text", "bytes", "number", "scalar"}
      <3>1. \/ n \in Values /\ n.kind \in {"array", "kvlist"}
            \/ n \in JSONs /\ n.kind \in {"list", "object"}
            \/ n.kind = "json"
        BY <2>2, RedactionAssumption DEF Nodes
      <3>2. m.kind \in {"array", "kvlist", "list", "object", "json"}
        BY <1>2, <3>1, ArrayIs, ListOfAttributesIs, ListIs, ObjectIs, ParsedIs
      <3> QED BY <3>2 DEF Text
    <2> QED BY <2>1, <2>2
  <1> QED BY <1>1, <1>2 DEF IsClean

\* The attributes of the exported span, but for those that the gateway adds.
LEMMA SpanGone ==
    ASSUME NEW attrs \in Uploads, NEW export \in Exports(attrs), NEW x \in Ways(List(export))
    PROVE  x.at \in Places(CanonicalKeys) \/ Gone(x, -1)
  <1> DEFINE m == List(export)
             below == Sanitized[1]
  <1>1. attrs \in Seq(Attributes) /\ m.kind = "kvlist" /\ m.of = export
    BY RedactionAssumption DEF List
  <1> HIDE DEF m, below
  <1>2. PICK j \in DOMAIN export :
           x = Way(m, export[j].key, export[j].value, 2,
                   /\ j <= MaxWidth
                   /\ Valued(export, j)
                   /\ export[j].key \notin AudioKeys)
    <2>1. Ways(m) = {Way(m, m.of[j].key, m.of[j].value, 2,
                         /\ j <= MaxWidth
                         /\ Valued(m.of, j)
                         /\ m.of[j].key \notin AudioKeys) : j \in DOMAIN m.of}
      BY <1>1, WaysOf
    <2> QED BY <1>1, <2>1 DEF m
  <1>3. x.at = <<"kvlist", export[j].key>> /\ x.to = export[j].value /\ x.cost = 2
    BY <1>1, <1>2 DEF Way
  <1>4. PICK clean \in AttributesAtDepth(attrs, 0, below) :
           export = Append(Projected(Without(clean, CanonicalKeys)), Identity)
    BY DEF Exports, WithoutCanonical, below
  <1>5. PICK S : clean \in Seq(S)
    BY <1>1, AttributesAreListed
  <1> DEFINE kept == Without(clean, CanonicalKeys)
  <1>6. /\ kept \in Seq(S)
        /\ \A l \in DOMAIN kept : \E i \in DOMAIN clean : kept[l] = clean[i]
    BY <1>5, WithoutIsPart
  <1> HIDE DEF kept
  <1>7. /\ \E R : Projected(kept) \in Seq(R)
        /\ \A l \in DOMAIN Projected(kept) :
              Projected(kept)[l].key = ObservedKey \/ (l \in DOMAIN kept /\ Projected(kept)[l] = kept[l])
    <2>1. Projected(kept) = kept
             \/ \E v : Projected(kept) = Append(kept, [key |-> ObservedKey, value |-> v])
      BY DEF Projected
    <2>2. CASE Projected(kept) = kept
      BY <1>6, <2>2
    <2>3. ASSUME NEW v, Projected(kept) = Append(kept, [key |-> ObservedKey, value |-> v])
          PROVE  /\ \E R : Projected(kept) \in Seq(R)
                 /\ \A l \in DOMAIN Projected(kept) :
                       Projected(kept)[l].key = ObservedKey \/ (l \in DOMAIN kept /\ Projected(kept)[l] = kept[l])
      <3> DEFINE a == [key |-> ObservedKey, value |-> v]
      <3>1. a.key = ObservedKey
        OBVIOUS
      <3> HIDE DEF a
      <3>2. kept \in Seq(S \cup {a})
        BY <1>6
      <3>3. Append(kept, a) \in Seq(S \cup {a})
        BY <3>2
      <3>4. \A l \in DOMAIN Append(kept, a) : Append(kept, a)[l] = a \/ (l \in DOMAIN kept /\ Append(kept, a)[l] = kept[l])
        BY <1>6
      <3> QED BY <2>3, <3>1, <3>3, <3>4 DEF a
    <2> QED BY <2>1, <2>2, <2>3
  <1>8. PICK R : Projected(kept) \in Seq(R)
    BY <1>7
  <1>9. export[j] = Identity \/ (j \in DOMAIN Projected(kept) /\ export[j] = Projected(kept)[j])
    <2>1. export = Append(Projected(kept), Identity)
      BY <1>4 DEF kept
    <2> HIDE DEF Identity
    <2> QED BY <1>2, <1>8, <2>1
  <1>10. \/ export[j].key \in {IdentityKey, ObservedKey}
         \/ \E l \in DOMAIN kept : export[j] = kept[l]
    BY <1>7, <1>9 DEF Identity
  <1>11. CASE export[j].key \in {IdentityKey, ObservedKey}
    <2>1. export[j].key \in CanonicalKeys
      BY <1>11, RedactionAssumption
    <2> QED BY <1>3, <2>1 DEF Places
  <1>12. ASSUME NEW l \in DOMAIN kept, export[j] = kept[l]
         PROVE  Gone(x, -1)
    <2>1. PICK k \in DOMAIN clean : export[j] = clean[k]
      BY <1>6, <1>12
    <2>2. PICK i \in DOMAIN attrs :
             /\ clean[k].key = attrs[i].key /\ attrs[i].key \notin AudioKeys
             /\ attrs[i].value \in Values
             /\ clean[k].value \in IF attrs[i].key \in CredentialKeys THEN {Replacement}
                                   ELSE below.value[attrs[i].value]
      BY <1>1, AttributeIs
    <2>3. 1 <= MaxDepth => IsClean(x.to, 1)
      <3> SUFFICES ASSUME 1 <= MaxDepth PROVE IsClean(x.to, 1)
        OBVIOUS
      <3>1. 1 \in 1..MaxDepth
        BY RedactionAssumption
      <3>2. CASE attrs[i].key \in CredentialKeys
        BY <1>3, <2>1, <2>2, <3>2 DEF IsClean
      <3>3. CASE attrs[i].key \notin CredentialKeys
        BY <1>3, <2>1, <2>2, <3>1, <3>3, CleanValue DEF below
      <3> QED BY <3>2, <3>3
    <2>4. x.at \notin Places(AudioKeys) /\ (x.at \in Places(CredentialKeys) => x.to = Replacement)
      BY <1>3, <2>1, <2>2 DEF Places
    <2>5. x.cost \in 1..2 /\ -1 + x.cost = 1
      BY <1>3
    <2> QED BY <2>3, <2>4, <2>5 DEF Gone
  <1> QED BY <1>10, <1>11, <1>12

-----------------------------------------------------------------------------
(* The reader.  What the export has at the place where it is, is what       *)
(* cleaning makes of the node there, unless that is under a credential; and *)
(* where it reads the export alone it is at something clean.                *)

AtStart == here = NoValue /\ there = {}

AtSpan ==
    /\ depth = -1 /\ here = List(attributes)
    /\ exported \in Exports(attributes) /\ there = {List(exported)}

AtNode ==
    /\ depth \in 1..MaxDepth /\ here \in Nodes
    /\ \E m \in there : m \in CleanedAt(here, depth)

AtCredential ==
    /\ depth \in 1..MaxDepth /\ here = Replacement
    /\ Replacement \in there

Browsing ==
    /\ depth \in 1..MaxDepth /\ here = NoValue
    /\ \E m : there = {m} /\ IsClean(m, depth)

ReaderInv ==
    /\ attributes \in Uploads
    /\ AtStart \/ AtSpan \/ AtNode \/ AtCredential \/ Browsing

\* Going a way that is kept, from a node that cleaning made m of.
LEMMA ReaderGoes ==
    ASSUME NEW w \in Ways(here), NEW m \in there, Kept(w, m, depth),
           w.to \in Nodes, depth + w.cost \in 1..MaxDepth,
           here' = IF w.at \in Places(CredentialKeys) THEN Replacement ELSE w.to,
           there' = {x.to : x \in {x \in UNION {Ways(k) : k \in there} : x.at = w.at}},
           depth' = depth + w.cost
    PROVE  AtCredential' \/ AtNode'
  <1>1. PICK x \in Ways(m) :
           /\ x.at = w.at
           /\ x.to \in IF w.at \in Places(CredentialKeys) THEN {Replacement}
                       ELSE CleanedAt(w.to, depth + w.cost)
    BY DEF Kept
  <1>2. x.to \in there'
    <2>1. x \in UNION {Ways(k) : k \in there}
      OBVIOUS
    <2> QED BY <1>1, <2>1
  <1>3. CASE w.at \in Places(CredentialKeys)
    <2>1. AtCredential' <=> depth' \in 1..MaxDepth /\ here' = Replacement /\ Replacement \in there'
      BY DEF AtCredential, Replacement, Text
    <2> QED BY <1>1, <1>2, <1>3, <2>1
  <1>4. CASE w.at \notin Places(CredentialKeys)
    <2>1. here' = w.to /\ x.to \in CleanedAt(w.to, depth + w.cost)
      BY <1>1, <1>4
    <2>2. \E k \in there' : k \in CleanedAt(here', depth')
      BY <1>2, <2>1
    <2>3. AtNode' <=> depth' \in 1..MaxDepth /\ here' \in Nodes /\ \E k \in there' : k \in CleanedAt(here', depth')
      BY DEF AtNode, CleanedAt
    <2> QED BY <2>1, <2>2, <2>3
  <1> QED BY <1>3, <1>4

LEMMA ReaderInit == ExportInit => ReaderInv
  BY DEF ExportInit, ReaderInv, AtStart

LEMMA ReaderFollows ==
    ASSUME ReaderInv, Follow
    PROVE  ReaderInv'
  <1>1. PICK w \in Ways(here) :
          /\ w.open /\ depth + w.cost <= MaxDepth
          /\ depth = -1 => w.at \notin Places(CanonicalKeys)
          /\ here' = IF w.at \in Places(CredentialKeys) THEN Replacement ELSE w.to
          /\ there' = {x.to : x \in {x \in UNION {Ways(m) : m \in there} : x.at = w.at}}
          /\ depth' = depth + w.cost
    BY DEF Follow
  <1>2. attributes' \in Uploads
    BY DEF Follow, ReaderInv
  <1>3. here # NoValue /\ here # Replacement
    <2>1. Ways(NoValue) = {}
      BY DEF Ways, NoValue
    <2>2. Ways(Replacement) = {}
      <3>1. Replacement.kind = "text"
        BY DEF Replacement, Text
      <3> QED BY <3>1, WaysOf
    <2> QED BY <2>1, <2>2
  <1>4. CASE AtSpan
    <2>1. Kept(w, List(exported), -1) /\ w.to \in Nodes /\ w.cost = 2
      BY <1>1, <1>4, SpanKept DEF AtSpan, ReaderInv
    <2>2. depth + w.cost \in 1..MaxDepth
      BY <1>1, <1>4, <2>1 DEF AtSpan
    <2>3. List(exported) \in there /\ Kept(w, List(exported), depth)
      BY <1>4, <2>1 DEF AtSpan
    <2>4. AtCredential' \/ AtNode'
      BY <1>1, <2>1, <2>2, <2>3, ReaderGoes
    <2> QED BY <1>2, <2>4 DEF ReaderInv
  <1>5. CASE AtNode
    <2>1. PICK m \in there : m \in CleanedAt(here, depth)
      BY <1>5 DEF AtNode
    <2>2. here \in Nodes /\ depth \in 1..MaxDepth
      BY <1>5 DEF AtNode
    <2>3. Kept(w, m, depth) /\ w.to \in Nodes /\ w.cost \in 1..2
      BY <1>1, <2>1, <2>2, WayKept
    <2>4. depth + w.cost \in 1..MaxDepth
      BY <1>1, <2>2, <2>3, RedactionAssumption
    <2>5. AtCredential' \/ AtNode'
      BY <1>1, <2>3, <2>4, ReaderGoes
    <2> QED BY <1>2, <2>5 DEF ReaderInv
  <1> QED BY <1>3, <1>4, <1>5 DEF ReaderInv, AtStart, AtCredential, Browsing

\* A node of an upload is not the reader's "nowhere".
LEMMA NodesAreSomewhere == NoValue \notin Nodes
  BY RedactionAssumption DEF NoValue, Nodes

LEMMA ReaderBrowses ==
    ASSUME ReaderInv, Browse
    PROVE  ReaderInv'
  <1>1. PICK w \in UNION {Ways(m) : m \in there} :
          /\ depth + w.cost <= MaxDepth
          /\ depth = -1 => w.at \notin Places(CanonicalKeys)
          /\ there' = {w.to}
          /\ depth' = depth + w.cost
    BY DEF Browse
  <1>2. PICK m \in there : w \in Ways(m)
    BY <1>1
  <1>3. attributes' \in Uploads /\ here' = NoValue
    BY DEF Browse, ReaderInv
  <1>4. AtSpan \/ Browsing
    <2>1. ~AtStart
      BY <1>2 DEF AtStart
    <2>2. here = NoValue \/ depth = -1
      BY DEF Browse
    <2>3. ~AtNode
      BY <2>2, NodesAreSomewhere DEF AtNode
    <2>4. ~AtCredential
      BY <2>2 DEF AtCredential, Replacement, NoValue, Text
    <2> QED BY <2>1, <2>3, <2>4 DEF ReaderInv
  <1>5. Gone(w, depth)
    <2>1. CASE AtSpan
      <3>1. m = List(exported) /\ exported \in Exports(attributes) /\ attributes \in Uploads /\ depth = -1
        BY <1>2, <2>1 DEF AtSpan, ReaderInv
      <3> QED BY <1>1, <1>2, <3>1, SpanGone
    <2>2. CASE Browsing
      <3>1. depth \in 1..MaxDepth /\ IsClean(m, depth)
        BY <1>2, <2>2 DEF Browsing
      <3> QED BY <1>2, <3>1, WayGone
    <2> QED BY <1>4, <2>1, <2>2
  <1>6. depth + w.cost \in 1..MaxDepth /\ IsClean(w.to, depth + w.cost)
    <2>1. depth \in 1..MaxDepth \/ depth = -1
      BY <1>4 DEF AtSpan, Browsing
    <2>2. w.cost \in 1..2 /\ IsClean(w.to, depth + w.cost)
      BY <1>1, <1>5 DEF Gone
    <2>3. depth = -1 => w.cost = 2
      <3> SUFFICES ASSUME depth = -1 PROVE w.cost = 2
        OBVIOUS
      <3>1. AtSpan
        BY <1>4 DEF Browsing
      <3>2. m.kind = "kvlist"
        BY <1>2, <3>1 DEF AtSpan, List
      <3>3. Ways(m) = {Way(m, m.of[i].key, m.of[i].value, 2,
                           /\ i <= MaxWidth
                           /\ Valued(m.of, i)
                           /\ m.of[i].key \notin AudioKeys) : i \in DOMAIN m.of}
        BY <3>2, WaysOf
      <3>4. PICK i \in DOMAIN m.of :
               w = Way(m, m.of[i].key, m.of[i].value, 2,
                       /\ i <= MaxWidth
                       /\ Valued(m.of, i)
                       /\ m.of[i].key \notin AudioKeys)
        BY <1>2, <3>3
      <3> QED BY <3>4 DEF Way
    <2> QED BY <1>1, <2>1, <2>2, <2>3, RedactionAssumption
  <1>7. Browsing'
    <2>1. Browsing' <=> depth' \in 1..MaxDepth /\ here' = NoValue /\ \E k : there' = {k} /\ IsClean(k, depth')
      BY DEF Browsing, IsClean, CleanedAt, NoValue, Replacement, Text
    <2> QED BY <1>1, <1>3, <1>6, <2>1
  <1> QED BY <1>3, <1>7 DEF ReaderInv

LEMMA ReaderNext == ReaderInv /\ [ExportNext]_exportVars => ReaderInv'
  <1>1. ASSUME ReaderInv, Canonicalized PROVE ReaderInv'
    BY <1>1 DEF ReaderInv, Canonicalized, AtSpan, Exports, WithoutCanonical
  <1>2. ASSUME ReaderInv, UNCHANGED exportVars PROVE ReaderInv'
    <2>1. attributes' \in Uploads
      BY <1>2 DEF ReaderInv, exportVars
    <2>2. AtStart => AtStart'
      BY <1>2 DEF exportVars, AtStart
    <2>3. AtSpan => AtSpan'
      BY <1>2 DEF exportVars, AtSpan
    <2>4. AtNode => AtNode'
      BY <1>2 DEF exportVars, AtNode, CleanedAt
    <2>5. AtCredential => AtCredential'
      BY <1>2 DEF exportVars, AtCredential
    <2>6. Browsing => Browsing'
      BY <1>2 DEF exportVars, Browsing, IsClean, CleanedAt
    <2> QED BY <1>2, <2>1, <2>2, <2>3, <2>4, <2>5, <2>6 DEF ReaderInv
  <1> QED BY <1>1, <1>2, ReaderFollows, ReaderBrowses DEF ExportNext

LEMMA ReaderFindsContent == ReaderInv => ContentSurvives
  <1> SUFFICES ASSUME ReaderInv, here.kind \in {"text", "bytes", "number", "scalar"}
               PROVE  Image(here) \in there
    BY DEF ContentSurvives
  <1>1. ~AtStart /\ ~AtSpan /\ ~Browsing
    BY DEF NoValue, AtStart, AtSpan, Browsing, List
  <1>2. CASE AtCredential
    BY <1>2 DEF AtCredential, Replacement, Text, Image
  <1>3. CASE AtNode
    BY <1>3, LeafCleaned DEF AtNode
  <1> QED BY <1>1, <1>2, <1>3 DEF ReaderInv

LEMMA ReaderFindsNothingPrivate == ReaderInv => PrivateIsGone
  <1> DEFINE Fine(m) ==
                /\ m \notin {Text("private_key"), Text("bearer"), Text("media")} /\ m.kind # "bytes"
                /\ \A w \in Ways(m) :
                      \/ depth = -1 /\ w.at \in Places(CanonicalKeys)
                      \/ /\ w.at \notin Places(AudioKeys)
                         /\ w.at \in Places(CredentialKeys) => w.to = Replacement
  <1> SUFFICES ASSUME ReaderInv, here = NoValue \/ depth = -1, NEW m \in there
               PROVE  Fine(m)
    BY DEF PrivateIsGone
  <1>1. AtSpan \/ Browsing
    <2>1. ~AtStart
      BY DEF AtStart
    <2>2. ~AtNode
      BY NodesAreSomewhere DEF AtNode
    <2>3. ~AtCredential
      BY DEF AtCredential, Replacement, NoValue, Text
    <2> QED BY <2>1, <2>2, <2>3 DEF ReaderInv
  <1>2. CASE AtSpan
    <2>1. m = List(exported) /\ exported \in Exports(attributes) /\ attributes \in Uploads /\ depth = -1
      BY <1>2 DEF AtSpan, ReaderInv
    <2>2. m.kind = "kvlist"
      BY <2>1 DEF List
    <2>3. m \notin {Text("private_key"), Text("bearer"), Text("media")} /\ m.kind # "bytes"
      BY <2>2 DEF Text
    <2>4. \A w \in Ways(m) : w.at \in Places(CanonicalKeys) \/ Gone(w, -1)
      BY <2>1, SpanGone
    <2> QED BY <2>1, <2>3, <2>4 DEF Gone
  <1>3. CASE Browsing
    <2>1. depth \in 1..MaxDepth /\ IsClean(m, depth)
      BY <1>3 DEF Browsing
    <2>2. m \notin {Text("private_key"), Text("bearer"), Text("media")} /\ m.kind # "bytes"
      BY <2>1, CleanIsNotPrivate
    <2>3. \A w \in Ways(m) : Gone(w, depth)
      BY <2>1, WayGone
    <2> QED BY <2>2, <2>3 DEF Gone
  <1> QED BY <1>1, <1>2, <1>3

\* Within the depth and the width of the walk, what redaction is not meant to take
\* away reaches Langfuse at the place where it was, and within the depth no private
\* key, bearer token, media or raw audio does, whatever the upload nests them in:
\* sanitizeValue, sanitizeString and sanitizeJSON agree on how deep a node is, and
\* no removal, order of a map or limit of one level touches what is beside it.
THEOREM RedactionHolds == ExportSpec => []RedactionIsExact
  <1>1. ReaderInv => RedactionIsExact
    BY ReaderFindsContent, ReaderFindsNothingPrivate DEF RedactionIsExact
  <1> QED BY <1>1, ReaderInit, ReaderNext, PTL DEF ExportSpec
=============================================================================
