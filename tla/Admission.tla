----------------------------- MODULE Admission -----------------------------
(***************************************************************************)
(* What stands between an upload and the inbox: the checks of serveTrace   *)
(* (internal/server) in their order, and the introspection of the token    *)
(* (internal/auth) by an auth service whose sessions and tokens change     *)
(* while requests are under way, and whose answers may be late, lost or    *)
(* incomplete.                                                             *)
(*                                                                         *)
(* A token of an account is the number of its generation; 0 is a token     *)
(* that the service has never issued.  A payload and its digest are the    *)
(* same value.  TraceInbox models what Accept does; here it is a map whose *)
(* batches stay.                                                           *)
(***************************************************************************)
EXTENDS Integers

CONSTANTS
    Requests,     \* requests under way at a time
    Accounts,     \* accounts with one session each
    Spellings,    \* of batch ids: upper and lower case
    Lower,        \* the lower-case spelling of each
    Payloads,     \* request bodies
    Garbled,      \* a body that is cut off, too large or no protobuf
    Absent,       \* no stored batch
    MaxTokens     \* bound: token generations of an account

Stored == [body : Payloads, digest : Payloads, entitled : BOOLEAN]

ASSUME AdmissionAssumption ==
    /\ Lower \in [Spellings -> Spellings] /\ \A s \in Spellings : Lower[Lower[s]] = Lower[s]
    /\ Garbled \notin Payloads
    /\ Absent \notin Stored
    /\ MaxTokens \in Nat \ {0}

VARIABLES
    session,    \* per account: "active" or the reason it was revoked for
    current,    \* per account: the generation of its valid token
    spent,      \* <<account, token>> expired or revoked
    request,    \* per request slot: where it is and what it carries
    stored      \* the batches that Accept has stored

authVars == <<session, current, spent>>
vars == <<authVars, request, stored>>

Revocations == {"session_revoked", "account_disabled", "account_revoked"}
RefreshReasons == {"token_expired", "token_rotated", "token_revoked", "invalid_token"}
Reason == Revocations \cup RefreshReasons \cup {"none", "other"}

Heard == [kind : {"lost", "active", "inactive"}, reason : Reason, complete : BOOLEAN]
Lost == [kind |-> "lost", reason |-> "none", complete |-> FALSE]

Answers == {"none", "malformed", "unavailable", "refresh", "revoked", "limited", "bad_body",
            "mismatch", "invalid_trace", "accepted", "duplicate", "conflict",
            "storage_unavailable"}

Request == [pc : {"done", "introspect", "answered", "limit", "body", "accept"},
            account : Accounts, token : 0..MaxTokens, spelling : Spellings,
            digest : Payloads, body : Payloads \cup {Garbled}, entitled : BOOLEAN,
            heard : Heard, answer : Answers]

\* A slot without a request, or with one refused for its form.
Idle == [pc : {"done"}, answer : {"none", "malformed"}]

Init ==
    /\ session = [a \in Accounts |-> "active"]
    /\ current = [a \in Accounts |-> 1]
    /\ spent = {}
    /\ request = [r \in Requests |-> [pc |-> "done", answer |-> "none"]]
    /\ stored = [key \in Accounts \X Spellings |-> Absent]

-----------------------------------------------------------------------------
(* The auth service *)

\* Why the service calls token n of a inactive; "none" if it is active.
Reasons(a, n) ==
    IF n \notin 1..current[a] THEN {"invalid_token"}
    ELSE IF session[a] # "active" THEN {session[a]}
    ELSE IF n < current[a] THEN {"token_rotated"}
    ELSE IF <<a, n>> \in spent THEN {"token_expired", "token_revoked"}
    ELSE {"none"}

Entitled(a, n) == Reasons(a, n) = {"none"}

\* The answers to an introspection of token n of a: none, one without all of
\* its fields, one with a reason unknown to the gateway, or a proper one.
ServiceAnswers(a, n) ==
    {Lost} \cup
    IF Entitled(a, n)
    THEN [kind : {"active"}, reason : {"none"}, complete : BOOLEAN]
    ELSE [kind : {"inactive"}, reason : Reasons(a, n) \cup {"other"}, complete : BOOLEAN]

Revoke(a, reason) ==
    /\ session[a] = "active"
    /\ session' = [session EXCEPT ![a] = reason]
    /\ UNCHANGED <<current, spent, request, stored>>

SpendToken(a) ==
    /\ <<a, current[a]>> \notin spent
    /\ spent' = spent \cup {<<a, current[a]>>}
    /\ UNCHANGED <<session, current, request, stored>>

RotateToken(a) ==
    /\ session[a] = "active" /\ current[a] < MaxTokens
    /\ current' = [current EXCEPT ![a] = @ + 1]
    /\ UNCHANGED <<session, spent, request, stored>>

-----------------------------------------------------------------------------
(* The gateway *)

\* Mutant: a revoked token is taken for a revoked session.
ExplicitOrToken(answer) ==
    answer.reason \in Revocations \cup {"token_revoked"} /\ answer.complete

\* A revocation counts only with the ids and the time that belong to it.  The
\* client of the service and the handler that answers check the same.
Explicit(answer) == answer.reason \in Revocations /\ answer.complete

\* Mutant: what is not known to be inactive passes.
InactiveLenient(answer) ==
    IF Explicit(answer) THEN "revoked"
    ELSE IF answer.reason \in RefreshReasons THEN "refresh" ELSE "principal"

\* Mutant: a reason that calls for no refresh is passed on to the client.
InactiveVerbatim(answer) ==
    IF Explicit(answer) THEN "revoked"
    ELSE IF answer.reason \in RefreshReasons THEN "refresh" ELSE answer.reason

\* What the reason of an inactive token means to the gateway.
Inactive(answer) ==
    IF Explicit(answer) THEN "revoked"
    ELSE IF answer.reason \in RefreshReasons THEN "refresh" ELSE "unavailable"

\* Mutant: a service that does not answer makes the client refresh its token.
IntrospectEager(answer, expired) ==
    IF answer.kind = "inactive" THEN Inactive(answer)
    ELSE IF answer.kind = "active" /\ answer.complete /\ ~expired THEN "principal"
    ELSE "refresh"

\* What an answer means.  expired: by the gateway's clock.
Introspect(answer, expired) ==
    IF answer.kind = "inactive" THEN Inactive(answer)
    ELSE IF answer.kind = "active" /\ answer.complete /\ ~expired THEN "principal"
    ELSE "unavailable"

At(r, pc) == request[r].pc = pc /\ UNCHANGED authVars
Goto(r, pc) == request' = [request EXCEPT ![r].pc = pc]
Reply(r, answer) ==
    request' = [request EXCEPT ![r] = [@ EXCEPT !.pc = "done", !.answer = answer]]

\* A request with proper method, headers and bearer arrives.  entitled records
\* whether its token was active then.
Receive(r, a, n, spelling, digest) ==
    /\ At(r, "done")
    /\ request' = [request EXCEPT ![r] =
           [pc |-> "introspect", account |-> a, token |-> n, entitled |-> Entitled(a, n),
            spelling |-> spelling, digest |-> digest, body |-> Garbled,
            heard |-> Lost, answer |-> "none"]]
    /\ UNCHANGED stored

\* A request without them is answered at once.
RefuseForm(r) ==
    /\ At(r, "done")
    /\ request' = [request EXCEPT ![r] = [pc |-> "done", answer |-> "malformed"]]
    /\ UNCHANGED stored

\* The service looks the token up; its answer arrives later.
ServiceAnswer(r) ==
    /\ At(r, "introspect")
    /\ \E answer \in ServiceAnswers(request[r].account, request[r].token) :
           request' = [request EXCEPT ![r] =
               [@ EXCEPT !.pc = "answered", !.heard = answer]]
    /\ UNCHANGED stored

Introspected(r) ==
    /\ At(r, "answered")
    /\ \E expired \in BOOLEAN :
           LET meaning == Introspect(request[r].heard, expired)
           IN  request' = [request EXCEPT ![r] =
                   IF meaning = "principal" THEN [@ EXCEPT !.pc = "limit", !.heard = Lost]
                   ELSE [@ EXCEPT !.pc = "done", !.heard = Lost, !.answer = meaning]]
    /\ UNCHANGED stored

\* RateLimiter models which requests pass.
PassLimiter(r) ==
    /\ At(r, "limit")
    /\ Goto(r, "body") \/ Reply(r, "limited")
    /\ UNCHANGED stored

\* Mutant: the digest of the body is not compared.
BodyFaultsNoDigest(body, digest) ==
    IF body = Garbled THEN {"bad_body"} ELSE {"none", "invalid_trace"}

\* What may be wrong with a body sent under a digest.  Whether it becomes a
\* canonical trace depends on the principal and the headers too.
BodyFaults(body, digest) ==
    IF body = Garbled THEN {"bad_body"}
    ELSE IF body # digest THEN {"mismatch"} ELSE {"none", "invalid_trace"}

ReadBody(r) ==
    /\ At(r, "body")
    /\ \E body \in Payloads \cup {Garbled} :
       \E fault \in BodyFaults(body, request[r].digest) :
           IF fault # "none" THEN Reply(r, fault)
           ELSE request' = [request EXCEPT ![r] = [@ EXCEPT !.pc = "accept", !.body = body]]
    /\ UNCHANGED stored

\* Mutant: a batch id keeps the spelling that the client chose.
BatchKeyAsSpelled(q) == <<q.account, q.spelling>>

BatchKey(q) == <<q.account, Lower[q.spelling]>>

\* A first batch is stored also when the answer is that storage is unavailable
\* because the sync failed after the commit.
Accept(r) ==
    LET q == request[r]
        key == BatchKey(q)
        Store == stored' = [stored EXCEPT ![key] = 
                    [body |-> q.body, digest |-> q.digest, entitled |-> q.entitled]]
    IN  /\ At(r, "accept")
        /\ \/ Reply(r, "storage_unavailable") /\ UNCHANGED stored
           \/ /\ stored[key] = Absent
              /\ Reply(r, "accepted") \/ Reply(r, "storage_unavailable")
              /\ Store
           \/ /\ stored[key] # Absent
              /\ Reply(r, IF stored[key].digest = q.digest THEN "duplicate" ELSE "conflict")
              /\ UNCHANGED stored

Next ==
    \/ \E a \in Accounts :
           \/ \E reason \in Revocations : Revoke(a, reason)
           \/ SpendToken(a) \/ RotateToken(a)
    \/ \E r \in Requests :
           \/ \E a \in Accounts, n \in 0..MaxTokens, s \in Spellings, d \in Payloads :
                  n <= current[a] /\ Receive(r, a, n, s, d)
           \/ RefuseForm(r) \/ ServiceAnswer(r) \/ Introspected(r)
           \/ PassLimiter(r) \/ ReadBody(r) \/ Accept(r)

Spec == Init /\ [][Next]_vars

-----------------------------------------------------------------------------
(* Properties *)

\* Every variable has its type.
TypeOK ==
    /\ session \in [Accounts -> {"active"} \cup Revocations]
    /\ current \in [Accounts -> 1..MaxTokens]
    /\ spent \subseteq Accounts \X (1..MaxTokens)
    /\ request \in [Requests -> Request \cup Idle]
    /\ stored \in [Accounts \X Spellings -> Stored \cup {Absent}]

Replied(r, answers) == request[r].pc = "done" /\ request[r].answer \in answers

\* A client is told that its session is revoked, which makes it stop for good
\* (writeExplicitRevocation, 403, not retryable), only if that session has been
\* revoked: no late, lost or incomplete answer of the auth service, and no
\* token that has merely expired, been rotated or been revoked, leads there.
NoFalseRevocation ==
    \A r \in Requests :
        Replied(r, {"revoked"}) => session[request[r].account] # "active"

\* A client whose token is still active is never told to refresh it or that
\* its session is revoked; a failing auth service costs it a retry (503).
GoodStandingIsRetried ==
    \A r \in Requests :
        Replied(r, {"refresh", "revoked"}) => ~Entitled(request[r].account, request[r].token)

\* Nothing is stored for a token that was inactive when its request arrived,
\* however the answers of the auth service are lost or garbled on the way and
\* whatever changes while the request is under way.
StoredWasActive ==
    \A key \in DOMAIN stored : stored[key] # Absent => stored[key].entitled

\* A batch is acknowledged as accepted or duplicate only if what is stored
\* under its id is the body whose digest the client declared, whichever request
\* stored it: a body damaged on the way is never taken in its place.
AcknowledgedIsStored ==
    \A r \in Requests :
        Replied(r, {"accepted", "duplicate"}) =>
            \E key \in DOMAIN stored :
                /\ Lower[key[2]] = Lower[request[r].spelling] /\ key[1] = request[r].account
                /\ stored[key] # Absent /\ stored[key].body = request[r].digest

\* An account has one stored batch per id, however the clients spell the id.
OneBatchPerId ==
    \A a \in Accounts, s, t \in Spellings :
        /\ stored[<<a, s>>] # Absent /\ stored[<<a, t>>] # Absent
        /\ Lower[s] = Lower[t]
        => s = t
=============================================================================
