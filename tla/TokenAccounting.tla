--------------------------- MODULE TokenAccounting ---------------------------
(***************************************************************************)
(* How tokens and costs reach Langfuse (Canonicalize of internal/otlp).    *)
(* A logical LLM call makes physical attempts one after another; a         *)
(* provider reports the usage of an attempt in one of several conventions, *)
(* and where the client missed that report, the call's own accounting of   *)
(* its last attempt takes its place.  Spans are uploaded in the order they *)
(* ended, in batches that may cut a call in two, and each batch is         *)
(* canonicalized on its own.                                               *)
(*                                                                         *)
(* An optional value is a set of at most one element.                      *)
(***************************************************************************)
EXTENDS Integers, FiniteSets, Sequences, FiniteSetsExt, Functions

CONSTANTS
    Calls,          \* logical calls of the session
    Bills,          \* what an attempt really costs
    Odd,            \* usages without a count, or whose parts exceed the whole
    Rooms,          \* how many attributes below the limit of redaction a span may be
    MaxInt,         \* the largest int64
    MaxAttempts,    \* bound: attempts of a call
    MaxSpans        \* bound: spans that end

Bill == [fresh : Nat, read : Nat, write : Nat, visible : Nat, reasoning : Nat, cost : Nat]

TokensOf(bill) == bill.fresh + bill.read + bill.write + bill.visible + bill.reasoning

\* Nobody is billed for more tokens than an int64 counts.
ASSUME AccountingAssumption ==
    /\ Bills \subseteq Bill /\ \A bill \in Bills : TokensOf(bill) <= MaxInt
    /\ Rooms \subseteq Nat
    /\ MaxInt \in Nat /\ MaxAttempts \in Nat /\ MaxSpans \in Nat

VARIABLES
    ended,      \* the spans that have ended, in that order
    langfuse    \* what has been uploaded, as Langfuse sees it

vars == <<ended, langfuse>>

Init == ended = <<>> /\ langfuse = <<>>

-----------------------------------------------------------------------------
(* Usage details *)

Wrapped(n) == ((n + MaxInt + 1) % (2 * MaxInt + 2)) - MaxInt - 1

Count(option) == IF option = {} THEN 0 ELSE CHOOSE n \in option : TRUE

\* The count at the first of the paths that has one.  A usage maps the paths
\* that hold an integer that is not negative.  A path is written with underscores.
FirstTokenCount(usage, paths) ==
    LET found == {i \in DOMAIN paths : paths[i] \in DOMAIN usage}
    IN  IF found = {} THEN {} ELSE {usage[paths[Min(found)]]}

\* Mutant: details above the total leave a negative rest.
SubtractUnclamped(total, detail) == total - detail

SubtractTokenDetail(total, detail) == IF detail >= total THEN 0 ELSE total - detail

\* Mutant: every input includes what came from the cache.
InclusiveAlways(usage) == TRUE

\* Whether the input includes the tokens read from and written to the cache.
InputIncludesCache(usage) ==
    {"prompt_tokens", "prompt_tokens_details_cached_tokens",
     "input_tokens_details_cached_tokens"} \cap DOMAIN usage # {}

InputTokens(usage) == FirstTokenCount(usage, <<"prompt_tokens", "input_tokens">>)

OutputTokens(usage) == FirstTokenCount(usage, <<"completion_tokens", "output_tokens">>)

TotalTokens(usage) == FirstTokenCount(usage, <<"total_tokens", "total">>)

CacheRead(usage) ==
    FirstTokenCount(usage,
        <<"prompt_tokens_details_cached_tokens", "input_tokens_details_cached_tokens",
          "cache_read_input_tokens", "cache_read_tokens">>)

CacheWrite(usage) ==
    FirstTokenCount(usage,
        <<"prompt_tokens_details_cache_creation_tokens",
          "input_tokens_details_cache_creation_tokens",
          "cache_creation_input_tokens", "cache_write_tokens">>)

Reasoning(usage) ==
    FirstTokenCount(usage,
        <<"completion_tokens_details_reasoning_tokens",
          "output_tokens_details_reasoning_tokens", "reasoning_tokens">>)

RegularInput(usage) ==
    IF InputIncludesCache(usage)
    THEN {SubtractTokenDetail(SubtractTokenDetail(n, Count(CacheRead(usage))),
                              Count(CacheWrite(usage))) : n \in InputTokens(usage)}
    ELSE InputTokens(usage)

RegularOutput(usage) == {SubtractTokenDetail(n, Count(Reasoning(usage))) : n \in OutputTokens(usage)}

\* The kinds of tokens that have a count, and their total.
Details(kinds, total) ==
    LET parts == {kind \in DOMAIN kinds : kinds[kind] # {}}
        details == [kind \in parts |-> Count(kinds[kind])]
        sum == IF total # {} THEN Count(total) ELSE Wrapped(SumFunction(details))
    IN  IF parts = {} /\ total = {} THEN details
        ELSE [kind \in parts \cup {"total"} |-> IF kind = "total" THEN sum ELSE details[kind]]

\* relayUsageDetails: the kinds of tokens, apart from each other.
UsageDetails(usage) ==
    Details([input |-> RegularInput(usage), output |-> RegularOutput(usage),
             input_cached_tokens |-> CacheRead(usage),
             input_cache_creation |-> CacheWrite(usage),
             output_reasoning_tokens |-> Reasoning(usage)],
            TotalTokens(usage))

-----------------------------------------------------------------------------
(* Canonicalization of a batch *)

\* Mutant: of two attempts that end together the first one counts.
IsLatestStrict(batch, c, i) ==
    LET attempts == {j \in DOMAIN batch : batch[j].scope = "llm" /\ batch[j].call = c}
    IN  /\ i \in attempts
        /\ \A j \in attempts : batch[j].end < batch[i].end \/ (batch[j].end = batch[i].end /\ j >= i)

\* Mutant: a call's accounting goes to all of its attempts.
IsAnyAttempt(batch, c, i) == batch[i].scope = "llm" /\ batch[i].call = c

\* Span i is the latest attempt of call c in the batch.
IsLatestAttempt(batch, c, i) ==
    LET attempts == {j \in DOMAIN batch : batch[j].scope = "llm" /\ batch[j].call = c}
    IN  /\ i \in attempts
        /\ \A j \in attempts : batch[j].end < batch[i].end \/ (batch[j].end = batch[i].end /\ j <= i)

\* What an attempt itself reports is authoritative.
FirstOf(own, accounted) == IF own # {} THEN own ELSE accounted

\* projectLogicalAccounting: span i with the accounting of its call, if the
\* call is in the batch and the span is its latest attempt.  What is added
\* comes last, usage before cost, and withoutCanonical then cuts the span off
\* where redaction has seen enough attributes.
Accounted(batch, i) ==
    LET calls == {k \in DOMAIN batch : /\ batch[k].scope = "call"
                                       /\ IsLatestAttempt(batch, batch[k].call, i)}
        Within(room, option) == IF room > 0 THEN option ELSE {}
        span == batch[i]
        usage == IF span.usage # {} THEN {} ELSE UNION {batch[k].usage : k \in calls}
        cost == UNION {batch[k].cost : k \in calls}
    IN  IF calls = {} THEN span
        ELSE [span EXCEPT !.usage = FirstOf(@, Within(span.room, usage)),
                          !.cost = FirstOf(@, Within(span.room - Cardinality(usage), cost))]

\* projectRelayForLangfuse: only a generation has usage and costs.
Observation(span, batchID) ==
    [details |-> IF span.scope = "llm" /\ span.usage # {}
                 THEN UsageDetails(CHOOSE usage \in span.usage : TRUE) ELSE <<>>,
     cost |-> IF span.scope = "llm" THEN {c \in span.cost : c > 0} ELSE {},
     batch |-> batchID]

Canonicalize(batch, batchID) ==
    [i \in DOMAIN batch |-> Observation(Accounted(batch, i), batchID)]

-----------------------------------------------------------------------------
(* The client and its providers *)

\* The usage that a provider reports for a bill, by its convention.
Report(convention, bill) ==
    LET input == bill.fresh + bill.read + bill.write
        output == bill.visible + bill.reasoning
    IN  CASE convention = "chat" ->
                 [prompt_tokens |-> input, completion_tokens |-> output,
                  total_tokens |-> input + output,
                  prompt_tokens_details_cached_tokens |-> bill.read,
                  prompt_tokens_details_cache_creation_tokens |-> bill.write,
                  completion_tokens_details_reasoning_tokens |-> bill.reasoning]
          [] convention = "responses" ->
                 [input_tokens |-> input, output_tokens |-> output,
                  input_tokens_details_cached_tokens |-> bill.read,
                  input_tokens_details_cache_creation_tokens |-> bill.write,
                  output_tokens_details_reasoning_tokens |-> bill.reasoning]
          [] convention = "messages" ->
                 [input_tokens |-> bill.fresh, output_tokens |-> output,
                  cache_read_input_tokens |-> bill.read,
                  cache_creation_input_tokens |-> bill.write]

Usages(bill) == {Report(k, bill) : k \in {"chat", "responses", "messages"}} \cup Odd

Now == IF ended = <<>> THEN 0 ELSE ended[Len(ended)].end

Open(c) == \A i \in DOMAIN ended : ended[i].scope = "call" => ended[i].call # c

Attempts(c) == {i \in DOMAIN ended : ended[i].scope = "llm" /\ ended[i].call = c}

End(span) ==
    /\ Len(ended) < MaxSpans
    /\ Open(span.call)
    /\ ended' = Append(ended, span)
    /\ UNCHANGED langfuse

\* An attempt ends, with or without a report of its usage and costs, and with
\* room for some more attributes.
EndAttempt(c, bill) ==
    /\ Cardinality(Attempts(c)) < MaxAttempts
    /\ \E tick \in {0, 1}, cost \in {{}, {bill.cost}}, room \in Rooms,
             usage \in {{}} \cup {{u} : u \in Usages(bill)} :
           End([scope |-> "llm", call |-> c, end |-> Now + tick, bill |-> bill,
                usage |-> usage, cost |-> cost, room |-> room])

\* Some other part of a call ends.
EndFunction(c) ==
    End([scope |-> "function", call |-> c, end |-> Now + 1, usage |-> {}, cost |-> {}])

\* A call ends after its attempts, with its accounting of the last one or none.
EndCall(c) ==
    /\ Attempts(c) # {}
    /\ LET bill == ended[Max(Attempts(c))].bill
       IN  \E usage \in {{}, {Report("chat", bill)}}, cost \in {{}, {bill.cost}} :
               End([scope |-> "call", call |-> c, end |-> Now,
                    usage |-> usage, cost |-> cost])

Upload(last) ==
    /\ last \in (Len(langfuse) + 1)..Len(ended)
    /\ langfuse' = langfuse \o
           Canonicalize(SubSeq(ended, Len(langfuse) + 1, last), Len(langfuse))
    /\ UNCHANGED ended

Next ==
    \/ \E c \in Calls, bill \in Bills : EndAttempt(c, bill)
    \/ \E c \in Calls : EndFunction(c) \/ EndCall(c)
    \/ \E last \in 1..MaxSpans : Upload(last)

Spec == Init /\ [][Next]_vars

-----------------------------------------------------------------------------
(* Properties *)

Kinds == {"input", "output", "input_cached_tokens", "input_cache_creation",
          "output_reasoning_tokens", "total"}

\* Every count that Langfuse gets is a count, also from usages that contradict
\* themselves.
TypeOK ==
    /\ Len(ended) \in 0..MaxSpans /\ Len(langfuse) \in 0..Len(ended)
    /\ \A i \in DOMAIN langfuse :
           LET details == langfuse[i].details
           IN  DOMAIN details \subseteq Kinds /\ \A kind \in DOMAIN details : details[kind] \in 0..MaxInt

At(details, kind) == IF kind \in DOMAIN details THEN details[kind] ELSE 0

\* Langfuse shows the bill: every kind of token apart, none of them twice.
Shows(observation, bill) ==
    LET details == observation.details
    IN  /\ At(details, "input") = bill.fresh
        /\ At(details, "input_cached_tokens") = bill.read
        /\ At(details, "input_cache_creation") = bill.write
        /\ At(details, "output") + At(details, "output_reasoning_tokens")
               = bill.visible + bill.reasoning
        /\ At(details, "total") = TokensOf(bill)

Contradicts(i) == ended[i].usage # {} /\ ended[i].usage \subseteq Odd

\* Whatever convention a provider reports in, with or without a total, cached
\* input or reasoning, the details of the attempt add up to its bill
\* (relayUsageDetails).
ReportsShowTheBill ==
    \A i \in DOMAIN langfuse :
        ended[i].scope = "llm" /\ ended[i].usage # {} /\ ~Contradicts(i)
            => Shows(langfuse[i], ended[i].bill)

\* If a call is uploaded in one batch with its last attempt, the usage and the
\* costs it accounts for are those of that attempt, however many attempts came
\* before and whatever else ended at the same time (projectLogicalAccounting).
\* An attempt with room for one more attribute gets the usage first.
LastAttemptAccounted ==
    \A k \in DOMAIN langfuse :
        ended[k].scope = "call" =>
            LET i == Max(Attempts(ended[k].call))
            IN  langfuse[i].batch = langfuse[k].batch /\ ~Contradicts(i) =>
                    /\ ended[k].usage # {} /\ ended[i].room > 0 =>
                           Shows(langfuse[i], ended[i].bill)
                    /\ ended[k].cost # {} /\ ended[i].room > 1 =>
                           langfuse[i].cost = {c \in ended[k].cost : c > 0}

\* However attempts, calls and batches fall, the attempts of a call never show
\* more tokens, or more costs, than were billed for those that were uploaded:
\* retries and accounting are not counted twice.
NothingCountedTwice ==
    \A c \in Calls :
        LET seen == {i \in Attempts(c) : i <= Len(langfuse)}
        IN  (\A i \in seen : ~Contradicts(i)) =>
                /\ SumFunction([i \in seen |-> At(langfuse[i].details, "total")])
                       <= SumFunction([i \in seen |-> TokensOf(ended[i].bill)])
                /\ SumFunction([i \in seen |-> Count(langfuse[i].cost)])
                       <= SumFunction([i \in seen |-> ended[i].bill.cost])
=============================================================================
