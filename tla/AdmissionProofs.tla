--------------------------- MODULE AdmissionProofs ---------------------------
(***************************************************************************)
(* The admission of uploads is right about sessions, tokens and batches    *)
(* for every number of requests, accounts, tokens and payloads.            *)
(***************************************************************************)
EXTENDS Admission, TLAPS

\* The types of everything but the requests.
StateOK ==
    /\ session \in [Accounts -> {"active"} \cup Revocations]
    /\ current \in [Accounts -> 1..MaxTokens]
    /\ spent \subseteq Accounts \X (1..MaxTokens)
    /\ stored \in [Accounts \X Spellings -> Stored \cup {Absent}]

\* What is stored came with an active token, undamaged, under a lower-case id.
StoredSound ==
    \A key \in DOMAIN stored : stored[key] # Absent =>
        /\ stored[key].entitled
        /\ stored[key].body = stored[key].digest
        /\ Lower[key[2]] = key[2]

\* An answer of the service that a request has heard was true and stays so.
HeardSound(q) ==
    /\ q.heard.kind = "active" => q.entitled
    /\ q.heard.kind = "inactive" =>
          /\ q.heard.reason \in Revocations => session[q.account] # "active"
          /\ q.heard.reason \in Revocations \cup RefreshReasons =>
                ~Entitled(q.account, q.token)

\* The body that the client of q declared is stored under its id.
BodyStored(q) ==
    /\ stored[BatchKey(q)] # Absent
    /\ stored[BatchKey(q)].body = q.digest

\* What the state of a request says of the sessions and the stored batches.
Sound(q) ==
    /\ q \in Request
    /\ q.token <= current[q.account]
    /\ q.pc = "introspect" /\ Entitled(q.account, q.token) => q.entitled
    /\ q.pc = "answered" => HeardSound(q)
    /\ q.pc \in {"limit", "body", "accept"} => q.entitled
    /\ q.pc = "accept" => q.body = q.digest
    /\ q.pc = "done" /\ q.answer = "revoked" => session[q.account] # "active"
    /\ q.pc = "done" /\ q.answer \in {"refresh", "revoked"} => ~Entitled(q.account, q.token)
    /\ q.pc = "done" /\ q.answer \in {"accepted", "duplicate"} => BodyStored(q)

RequestsSound == request \in [Requests -> Request \cup Idle]
                 /\ \A r \in Requests : request[r] \in Idle \/ Sound(request[r])

\* The inductive invariant of admission.
AdmissionInv == StateOK /\ StoredSound /\ RequestsSound

-----------------------------------------------------------------------------
(* How the state around a request may move. *)

\* Revocations and spent tokens are final, tokens are only ever replaced by
\* newer ones, and a stored batch stays as it is.
Evolves ==
    /\ \A a \in Accounts : session[a] # "active" => session'[a] = session[a]
    /\ \A a \in Accounts : current[a] <= current'[a]
    /\ spent \subseteq spent'
    /\ \A key \in Accounts \X Spellings : stored[key] # Absent => stored'[key] = stored[key]

\* A token is active while its session is, it is the last one, and not spent.
LEMMA EntitledMeans ==
    ASSUME StateOK, NEW a \in Accounts, NEW n \in 0..MaxTokens
    PROVE  Entitled(a, n) <=> session[a] = "active" /\ n = current[a] /\ <<a, n>> \notin spent
  <1>1. current[a] \in 1..MaxTokens /\ session[a] \in {"active"} \cup Revocations
    BY DEF StateOK
  <1>2. MaxTokens \in Nat
    BY AdmissionAssumption
  <1>3. session[a] # "none" /\ "active" # "none"
    BY <1>1 DEF Revocations
  <1> QED BY <1>1, <1>2, <1>3 DEF Entitled, Reasons

\* A token that is inactive never becomes active again.
LEMMA InactiveStays ==
    ASSUME StateOK, StateOK', Evolves, NEW a \in Accounts, NEW n \in 0..MaxTokens,
           n <= current[a], Entitled(a, n)'
    PROVE  Entitled(a, n)
  <1>1. session'[a] = "active" /\ n = current'[a] /\ <<a, n>> \notin spent'
    <2>1. current'[a] \in 1..MaxTokens /\ session'[a] \in {"active"} \cup Revocations
      BY DEF StateOK
    <2>2. MaxTokens \in Nat
      BY AdmissionAssumption
    <2>3. session'[a] # "none" /\ "active" # "none"
      BY <2>1 DEF Revocations
    <2> QED BY <2>1, <2>2, <2>3 DEF Entitled, Reasons
  <1>2. current[a] \in Int /\ current'[a] \in Int
    BY AdmissionAssumption DEF StateOK
  <1>3. session[a] = "active" /\ n = current[a] /\ <<a, n>> \notin spent
    BY <1>1, <1>2, AdmissionAssumption DEF Evolves
  <1> QED BY <1>3, EntitledMeans

\* What a request knows stays true while it waits.
LEMMA SoundStays ==
    ASSUME StateOK, StateOK', Evolves, NEW q, Sound(q)
    PROVE  Sound(q)'
  <1>1. q \in Request /\ q.account \in Accounts /\ q.token \in 0..MaxTokens
        /\ BatchKey(q) \in Accounts \X Spellings
    BY AdmissionAssumption DEF Sound, Request, BatchKey
  <1>2. current[q.account] \in Int /\ current'[q.account] \in Int /\ q.token \in Int
    BY <1>1, AdmissionAssumption DEF StateOK
  <1>3. q.token <= current'[q.account]
    BY <1>1, <1>2 DEF Sound, Evolves
  <1>4. Entitled(q.account, q.token)' => Entitled(q.account, q.token)
    BY <1>1, InactiveStays DEF Sound
  <1>5. session[q.account] # "active" => session'[q.account] # "active"
    BY <1>1 DEF Evolves
  <1>6. BodyStored(q) => BodyStored(q)'
    BY <1>1 DEF Evolves, BodyStored, BatchKey
  <1>7. HeardSound(q) => HeardSound(q)'
    BY <1>4, <1>5 DEF HeardSound
  <1> QED BY <1>1, <1>3, <1>4, <1>5, <1>6, <1>7 DEF Sound

\* A new state of one request, while the others wait.
LEMMA RequestMoves ==
    ASSUME AdmissionInv, StateOK', StoredSound', Evolves, NEW r \in Requests, NEW q,
           request' = [request EXCEPT ![r] = q], q \in Idle \/ Sound(q)'
    PROVE  AdmissionInv'
  <1>1. \A s \in Requests : request'[s] = IF s = r THEN q ELSE request[s]
    BY DEF AdmissionInv, RequestsSound
  <1>2. \A p : Sound(p) => Sound(p)'
    BY SoundStays DEF AdmissionInv
  <1>3. \A p : Sound(p)' => p \in Request
    BY DEF Sound
  <1>4. ASSUME NEW s \in Requests PROVE (request[s] \in Idle \/ Sound(request[s]))'
    <2>1. PICK p : p = request'[s]
      OBVIOUS
    <2>2. p \in Idle \/ Sound(p)'
      BY <1>1, <1>2, <2>1 DEF AdmissionInv, RequestsSound
    <2> QED BY <2>1, <2>2
  <1>5. request' \in [Requests -> Request \cup Idle]
    BY <1>2, <1>3 DEF AdmissionInv, RequestsSound
  <1> QED BY <1>4, <1>5 DEF AdmissionInv, RequestsSound

\* The same when nothing but the request changes.
LEMMA RequestMovesAlone ==
    ASSUME AdmissionInv, UNCHANGED authVars, UNCHANGED stored, NEW r \in Requests, NEW q,
           request' = [request EXCEPT ![r] = q], q \in Idle \/ Sound(q)
    PROVE  AdmissionInv'
  <1>1. StateOK' /\ StoredSound' /\ Evolves
    BY AdmissionAssumption DEF AdmissionInv, StateOK, StoredSound, Evolves, authVars
  <1>2. Sound(q) => Sound(q)'
    BY <1>1, SoundStays DEF AdmissionInv
  <1> QED BY <1>1, <1>2, RequestMoves

\* A request that has left the idle state is sound.
LEMMA BusySound ==
    ASSUME AdmissionInv, NEW r \in Requests, request[r].pc # "done"
    PROVE  Sound(request[r]) /\ request[r] \in Request
  BY DEF AdmissionInv, RequestsSound, Sound, Idle

\* Only true answers of the service are heard.
LEMMA AnswersTrue ==
    ASSUME AdmissionInv, NEW q, Sound(q), q.pc = "introspect",
           NEW answer \in ServiceAnswers(q.account, q.token)
    PROVE  /\ answer \in Heard
           /\ answer.kind = "active" => q.entitled
           /\ answer.kind = "inactive" =>
                 /\ answer.reason \in Revocations => session[q.account] # "active"
                 /\ answer.reason \in Revocations \cup RefreshReasons =>
                       ~Entitled(q.account, q.token)
  <1> DEFINE a == q.account
             n == q.token
  <1>1. a \in Accounts /\ n \in 0..MaxTokens /\ session[a] \in {"active"} \cup Revocations
    BY DEF Sound, Request, AdmissionInv, StateOK
  <1>2. CASE answer = Lost
    BY <1>2 DEF Lost, Heard, Reason
  <1>3. CASE Entitled(a, n) /\ answer \in [kind : {"active"}, reason : {"none"}, complete : BOOLEAN]
    BY <1>3 DEF Heard, Reason, Sound
  <1>4. CASE /\ ~Entitled(a, n)
             /\ answer \in [kind : {"inactive"}, reason : Reasons(a, n) \cup {"other"},
                            complete : BOOLEAN]
    <2>1. Reasons(a, n) \subseteq Reason /\ "other" \in Reason
      BY <1>1 DEF Reasons, Reason, Revocations, RefreshReasons
    <2>2. answer.reason \in Reasons(a, n) \cup {"other"} /\ answer.kind = "inactive"
      BY <1>4
    <2>3. answer.reason \in Revocations => session[a] # "active"
      BY <1>1, <2>2 DEF Reasons, Revocations
    <2>4. answer \in Heard
      BY <1>4, <2>1 DEF Heard
    <2> QED BY <1>4, <2>2, <2>3, <2>4
  <1> QED BY <1>2, <1>3, <1>4 DEF ServiceAnswers

\* What an answer means to the gateway.
LEMMA IntrospectMeans ==
    ASSUME NEW answer \in Heard, NEW expired \in BOOLEAN
    PROVE  LET meaning == Introspect(answer, expired)
           IN  /\ meaning \in {"principal", "revoked", "refresh", "unavailable"}
               /\ meaning = "principal" => answer.kind = "active"
               /\ meaning = "revoked" => answer.kind = "inactive" /\ answer.reason \in Revocations
               /\ meaning = "refresh" =>
                     answer.kind = "inactive" /\ answer.reason \in RefreshReasons
  BY DEF Introspect, Inactive, Explicit

-----------------------------------------------------------------------------
(* The steps *)

\* A request arrives.
LEMMA ReceiveKeepsInv ==
    ASSUME AdmissionInv, NEW r \in Requests, NEW a \in Accounts, NEW n \in 0..MaxTokens,
           NEW spelling \in Spellings, NEW digest \in Payloads, n <= current[a],
           Receive(r, a, n, spelling, digest)
    PROVE  AdmissionInv'
  <1>1. PICK e \in BOOLEAN : e = Entitled(a, n)
    BY DEF Entitled
  <1> DEFINE q == [pc |-> "introspect", account |-> a, token |-> n, entitled |-> e,
                   spelling |-> spelling, digest |-> digest, body |-> Garbled,
                   heard |-> Lost, answer |-> "none"]
  <1>2. q \in Request
    BY DEF Request, Lost, Heard, Reason, Answers
  <1>3. Sound(q)
    BY <1>1, <1>2 DEF Sound
  <1>4. request' = [request EXCEPT ![r] = q] /\ UNCHANGED authVars /\ UNCHANGED stored
    BY <1>1 DEF Receive, At
  <1> HIDE DEF q
  <1> QED BY <1>3, <1>4, RequestMovesAlone

\* A request is refused for its form.
LEMMA RefuseFormKeepsInv ==
    ASSUME AdmissionInv, NEW r \in Requests, RefuseForm(r)
    PROVE  AdmissionInv'
  BY RequestMovesAlone, [pc |-> "done", answer |-> "malformed"] \in Idle
  DEF RefuseForm, At, Idle

\* The service answers.
LEMMA ServiceAnswerKeepsInv ==
    ASSUME AdmissionInv, NEW r \in Requests, ServiceAnswer(r)
    PROVE  AdmissionInv'
  <1>1. request[r].pc = "introspect" /\ UNCHANGED authVars /\ UNCHANGED stored
    BY DEF ServiceAnswer, At
  <1>2. PICK p : p = request[r]
    OBVIOUS
  <1>3. Sound(p) /\ p \in Request /\ p.pc = "introspect"
    BY <1>1, <1>2, BusySound
  <1>4. PICK answer \in ServiceAnswers(p.account, p.token) :
            request' = [request EXCEPT ![r] = [p EXCEPT !.pc = "answered", !.heard = answer]]
    BY <1>2 DEF ServiceAnswer
  <1>5. /\ answer \in Heard
        /\ answer.kind = "active" => p.entitled
        /\ answer.kind = "inactive" =>
              /\ answer.reason \in Revocations => session[p.account] # "active"
              /\ answer.reason \in Revocations \cup RefreshReasons =>
                    ~Entitled(p.account, p.token)
    BY <1>3, AnswersTrue
  <1> DEFINE q == [p EXCEPT !.pc = "answered", !.heard = answer]
  <1>6. q \in Request /\ q.pc = "answered" /\ q.heard = answer /\ q.account = p.account
        /\ q.token = p.token /\ q.entitled = p.entitled
    BY <1>3, <1>5 DEF Request
  <1> HIDE DEF q
  <1>7. Sound(q)
    BY <1>3, <1>5, <1>6 DEF Sound, HeardSound
  <1> QED BY <1>1, <1>4, <1>7, RequestMovesAlone DEF q

\* The gateway makes of the answer what it means.
LEMMA IntrospectedKeepsInv ==
    ASSUME AdmissionInv, NEW r \in Requests, Introspected(r)
    PROVE  AdmissionInv'
  <1>1. request[r].pc = "answered" /\ UNCHANGED authVars /\ UNCHANGED stored
    BY DEF Introspected, At
  <1>2. PICK p : p = request[r]
    OBVIOUS
  <1>3. Sound(p) /\ p \in Request /\ p.pc = "answered" /\ p.heard \in Heard
    BY <1>1, <1>2, BusySound DEF Request
  <1>4. PICK expired \in BOOLEAN :
            request' = [request EXCEPT ![r] =
                IF Introspect(p.heard, expired) = "principal"
                THEN [p EXCEPT !.pc = "limit", !.heard = Lost]
                ELSE [p EXCEPT !.pc = "done", !.heard = Lost,
                               !.answer = Introspect(p.heard, expired)]]
    BY <1>2 DEF Introspected
  <1> DEFINE meaning == Introspect(p.heard, expired)
             limit == [p EXCEPT !.pc = "limit", !.heard = Lost]
             done == [p EXCEPT !.pc = "done", !.heard = Lost, !.answer = meaning]
  <1>5. /\ meaning \in {"principal", "revoked", "refresh", "unavailable"}
        /\ meaning = "principal" => p.heard.kind = "active"
        /\ meaning = "revoked" => p.heard.kind = "inactive" /\ p.heard.reason \in Revocations
        /\ meaning = "refresh" =>
              p.heard.kind = "inactive" /\ p.heard.reason \in RefreshReasons
    BY <1>3, IntrospectMeans
  <1> HIDE DEF meaning
  <1>6. Lost \in Heard
    BY DEF Lost, Heard, Reason
  <1>7. CASE meaning = "principal"
    <2>1. limit \in Request /\ limit.pc = "limit" /\ limit.entitled = p.entitled
          /\ limit.token = p.token /\ limit.account = p.account
      BY <1>3, <1>6 DEF Request
    <2> HIDE DEF limit
    <2>2. Sound(limit)
      BY <1>3, <1>5, <1>7, <2>1 DEF Sound, HeardSound
    <2> QED BY <1>1, <1>4, <1>7, <2>2, RequestMovesAlone DEF limit, meaning
  <1>8. CASE meaning # "principal"
    <2>1. done \in Request /\ done.pc = "done" /\ done.answer = meaning
          /\ done.token = p.token /\ done.account = p.account
      BY <1>3, <1>5, <1>6, <1>8 DEF Request, Answers
    <2> HIDE DEF done
    <2>2. Sound(done)
      BY <1>3, <1>5, <2>1 DEF Sound, HeardSound
    <2> QED BY <1>1, <1>4, <1>8, <2>2, RequestMovesAlone DEF done, meaning
  <1> QED BY <1>7, <1>8

\* An answer that says nothing of the session or the batch keeps a request sound.
LEMMA ReplySound ==
    ASSUME NEW p, Sound(p), NEW answer \in Answers,
           answer \notin {"revoked", "refresh", "accepted", "duplicate"}
    PROVE  Sound([p EXCEPT !.pc = "done", !.answer = answer])
  <1> DEFINE q == [p EXCEPT !.pc = "done", !.answer = answer]
  <1>1. q \in Request /\ q.pc = "done" /\ q.answer = answer
        /\ q.token = p.token /\ q.account = p.account
    BY DEF Sound, Request
  <1> HIDE DEF q
  <1>2. Sound(q)
    BY <1>1 DEF Sound
  <1> QED BY <1>2 DEF q

\* The limiter lets a request pass or not.
LEMMA LimitKeepsInv ==
    ASSUME AdmissionInv, NEW r \in Requests, PassLimiter(r)
    PROVE  AdmissionInv'
  <1>1. request[r].pc = "limit" /\ UNCHANGED authVars /\ UNCHANGED stored
    BY DEF PassLimiter, At
  <1>2. PICK p : p = request[r]
    OBVIOUS
  <1>3. Sound(p) /\ p \in Request /\ p.pc = "limit"
    BY <1>1, <1>2, BusySound
  <1> DEFINE body == [p EXCEPT !.pc = "body"]
  <1>4. CASE Goto(r, "body")
    <2>1. request' = [request EXCEPT ![r] = body]
      BY <1>2, <1>4 DEF Goto, AdmissionInv, RequestsSound
    <2>2. body \in Request /\ body.pc = "body" /\ body.entitled = p.entitled
          /\ body.token = p.token /\ body.account = p.account
      BY <1>3 DEF Request
    <2> HIDE DEF body
    <2>3. Sound(body)
      BY <1>3, <2>2 DEF Sound
    <2> QED BY <1>1, <2>1, <2>3, RequestMovesAlone
  <1>5. CASE Reply(r, "limited")
    <2>1. Sound([p EXCEPT !.pc = "done", !.answer = "limited"])
      BY <1>3, ReplySound DEF Answers
    <2> QED BY <1>1, <1>2, <1>5, <2>1, RequestMovesAlone DEF Reply
  <1> QED BY <1>4, <1>5 DEF PassLimiter

\* The body is read and compared with its digest.
LEMMA ReadBodyKeepsInv ==
    ASSUME AdmissionInv, NEW r \in Requests, ReadBody(r)
    PROVE  AdmissionInv'
  <1>1. request[r].pc = "body" /\ UNCHANGED authVars /\ UNCHANGED stored
    BY DEF ReadBody, At
  <1>2. PICK p : p = request[r]
    OBVIOUS
  <1>3. Sound(p) /\ p \in Request /\ p.pc = "body"
    BY <1>1, <1>2, BusySound
  <1>4. PICK body \in Payloads \cup {Garbled} :
            \E fault \in BodyFaults(body, p.digest) :
                IF fault # "none" THEN Reply(r, fault)
                ELSE request' = [request EXCEPT ![r] =
                         [p EXCEPT !.pc = "accept", !.body = body]]
    BY <1>2 DEF ReadBody
  <1>5. PICK fault \in BodyFaults(body, p.digest) :
            IF fault # "none" THEN Reply(r, fault)
            ELSE request' = [request EXCEPT ![r] = [p EXCEPT !.pc = "accept", !.body = body]]
    BY <1>4
  <1>6. /\ fault \in {"none", "bad_body", "mismatch", "invalid_trace"}
        /\ fault = "none" => body = p.digest
    BY DEF BodyFaults
  <1>7. CASE fault # "none"
    <2>1. Sound([p EXCEPT !.pc = "done", !.answer = fault])
      BY <1>3, <1>6, <1>7, ReplySound DEF Answers
    <2> QED BY <1>1, <1>2, <1>5, <1>7, <2>1, RequestMovesAlone DEF Reply
  <1>8. CASE fault = "none"
    <2> DEFINE q == [p EXCEPT !.pc = "accept", !.body = body]
    <2>1. q \in Request /\ q.pc = "accept" /\ q.body = body /\ q.digest = p.digest
          /\ q.entitled = p.entitled /\ q.token = p.token /\ q.account = p.account
      BY <1>3 DEF Request
    <2>2. request' = [request EXCEPT ![r] = q]
      BY <1>5, <1>8
    <2> HIDE DEF q
    <2>3. Sound(q)
      BY <1>3, <1>6, <1>8, <2>1 DEF Sound
    <2> QED BY <1>1, <2>2, <2>3, RequestMovesAlone
  <1> QED BY <1>7, <1>8

\* Accept stores a sound batch where there was none, or answers for the one
\* that is there.
LEMMA AcceptKeepsInv ==
    ASSUME AdmissionInv, NEW r \in Requests, Accept(r)
    PROVE  AdmissionInv'
  <1>1. request[r].pc = "accept" /\ UNCHANGED authVars
    BY DEF Accept, At
  <1>2. PICK p : p = request[r]
    OBVIOUS
  <1>3. Sound(p) /\ p \in Request /\ p.pc = "accept"
    BY <1>1, <1>2, BusySound
  <1> DEFINE key == BatchKey(p)
             new == [body |-> p.body, digest |-> p.digest, entitled |-> p.entitled]
             Done(answer) == [p EXCEPT !.pc = "done", !.answer = answer]
  <1>4. /\ key \in Accounts \X Spellings /\ Lower[key[2]] = key[2]
        /\ new \in Stored /\ new # Absent
    BY <1>3, AdmissionAssumption DEF Request, BatchKey, Stored, Sound
  <1>5. ASSUME NEW answer \in {"accepted", "duplicate", "conflict", "storage_unavailable"}
        PROVE  /\ Done(answer) \in Request /\ Done(answer).pc = "done"
               /\ Done(answer).answer = answer /\ Done(answer).digest = p.digest
               /\ Done(answer).account = p.account /\ Done(answer).token = p.token
               /\ BatchKey(Done(answer)) = key
    BY <1>3 DEF Request, Answers, BatchKey
  <1>6. \A answer : Reply(r, answer) => request' = [request EXCEPT ![r] = Done(answer)]
    BY <1>2 DEF Reply
  <1>7. CASE Reply(r, "storage_unavailable") /\ UNCHANGED stored
    <2>1. Sound(Done("storage_unavailable"))
      BY <1>3, ReplySound DEF Answers
    <2> QED BY <1>1, <1>6, <1>7, <2>1, RequestMovesAlone
  <1>8. CASE /\ stored[key] # Absent /\ UNCHANGED stored
             /\ Reply(r, IF stored[key].digest = p.digest THEN "duplicate" ELSE "conflict")
    <2>1. PICK answer \in {"duplicate", "conflict"} :
              /\ Reply(r, answer)
              /\ answer = "duplicate" => stored[key].digest = p.digest
      BY <1>8
    <2>2. answer = "duplicate" => stored[key].body = p.digest
      BY <1>4, <1>8, <2>1 DEF AdmissionInv, StateOK, StoredSound
    <2> HIDE DEF Done
    <2>3. Sound(Done(answer))
      BY <1>3, <1>5, <1>8, <2>2 DEF Sound, BodyStored
    <2> QED BY <1>1, <1>6, <1>8, <2>1, <2>3, RequestMovesAlone
  <1>9. CASE /\ stored[key] = Absent
             /\ Reply(r, "accepted") \/ Reply(r, "storage_unavailable")
             /\ stored' = [stored EXCEPT ![key] = new]
    <2>1. PICK answer \in {"accepted", "storage_unavailable"} : Reply(r, answer)
      BY <1>9
    <2>2. /\ new.entitled /\ new.body = new.digest /\ new.body = p.digest
      BY <1>3 DEF Sound
    <2> HIDE DEF new, key
    <2>3. stored \in [Accounts \X Spellings -> Stored \cup {Absent}]
      BY DEF AdmissionInv, StateOK
    <2>4. stored' \in [Accounts \X Spellings -> Stored \cup {Absent}]
      BY <1>4, <1>9, <2>3
    <2>5. stored'[key] = new
          /\ \A k \in Accounts \X Spellings : k # key => stored'[k] = stored[k]
      BY <1>4, <1>9, <2>3
    <2>6. StateOK' /\ Evolves
      BY <1>1, <1>9, <2>4, <2>5, AdmissionAssumption
      DEF AdmissionInv, StateOK, Evolves, authVars
    <2>7. StoredSound'
      BY <1>4, <2>2, <2>3, <2>4, <2>5 DEF AdmissionInv, StoredSound
    <2>8. Sound(p)'
      BY <1>3, <2>6, SoundStays DEF AdmissionInv
    <2>9. stored'[key] # Absent /\ stored'[key].body = p.digest
      BY <1>4, <2>2, <2>5
    <2>11. PICK q : q = Done(answer)
      OBVIOUS
    <2>12. /\ q \in Request /\ q.pc = "done" /\ q.answer = answer /\ q.digest = p.digest
           /\ q.account = p.account /\ q.token = p.token /\ BatchKey(q) = key
      BY <1>5, <2>11
    <2>10. Sound(q)'
      BY <2>1, <2>8, <2>9, <2>12 DEF Sound, BodyStored
    <2> QED BY <1>6, <2>1, <2>6, <2>7, <2>10, <2>11, RequestMoves
  <1> QED BY <1>2, <1>7, <1>8, <1>9 DEF Accept

\* The auth service moves on while every request waits.
LEMMA ServiceMoves ==
    ASSUME AdmissionInv, StateOK', Evolves, UNCHANGED <<request, stored>>
    PROVE  AdmissionInv'
  <1>1. StoredSound'
    BY DEF AdmissionInv, StoredSound
  <1>2. \A p : Sound(p) => Sound(p)'
    BY SoundStays DEF AdmissionInv
  <1>3. ASSUME NEW s \in Requests PROVE (request[s] \in Idle \/ Sound(request[s]))'
    <2>1. PICK p : p = request'[s]
      OBVIOUS
    <2> QED BY <1>2, <2>1 DEF AdmissionInv, RequestsSound
  <1> QED BY <1>1, <1>3 DEF AdmissionInv, RequestsSound

\* Nothing has been received or stored at first.
LEMMA AdmissionInit == Init => AdmissionInv
  <1> SUFFICES ASSUME Init PROVE AdmissionInv
    OBVIOUS
  <1>1. StateOK
    BY AdmissionAssumption DEF Init, StateOK
  <1>2. StoredSound
    BY DEF Init, StoredSound
  <1>3. [pc |-> "done", answer |-> "none"] \in Idle
    BY DEF Idle
  <1>4. RequestsSound
    BY <1>3 DEF Init, RequestsSound
  <1> QED BY <1>1, <1>2, <1>4 DEF AdmissionInv

\* Every step preserves the invariant.
LEMMA AdmissionNext == AdmissionInv /\ [Next]_vars => AdmissionInv'
  <1> SUFFICES ASSUME AdmissionInv, [Next]_vars PROVE AdmissionInv'
    OBVIOUS
  <1> USE AdmissionAssumption
  <1>1. /\ session \in [Accounts -> {"active"} \cup Revocations]
        /\ current \in [Accounts -> 1..MaxTokens]
        /\ spent \subseteq Accounts \X (1..MaxTokens)
    BY DEF AdmissionInv, StateOK
  <1>2. ASSUME NEW a \in Accounts, NEW reason \in Revocations, Revoke(a, reason)
        PROVE  AdmissionInv'
    BY <1>1, <1>2, ServiceMoves DEF Revoke, AdmissionInv, StateOK, Evolves
  <1>3. ASSUME NEW a \in Accounts, SpendToken(a) PROVE AdmissionInv'
    BY <1>1, <1>3, ServiceMoves DEF SpendToken, AdmissionInv, StateOK, Evolves
  <1>4. ASSUME NEW a \in Accounts, RotateToken(a) PROVE AdmissionInv'
    <2>1. current[a] + 1 \in 1..MaxTokens /\ current[a] <= current[a] + 1
      BY <1>1, <1>4 DEF RotateToken
    <2>2. StateOK'
      BY <1>1, <1>4, <2>1 DEF RotateToken, AdmissionInv, StateOK
    <2>3. Evolves
      BY <1>1, <1>4, <2>1 DEF RotateToken, Evolves
    <2> QED BY <1>4, <2>2, <2>3, ServiceMoves DEF RotateToken
  <1>5. CASE UNCHANGED vars
    BY <1>1, <1>5, ServiceMoves DEF vars, authVars, AdmissionInv, StateOK, Evolves
  <1> QED BY <1>2, <1>3, <1>4, <1>5, ReceiveKeepsInv, RefuseFormKeepsInv, ServiceAnswerKeepsInv,
             IntrospectedKeepsInv, LimitKeepsInv, ReadBodyKeepsInv, AcceptKeepsInv DEF Next

-----------------------------------------------------------------------------
(* The theorems *)

\* The state of admission has its type in every reachable state.
THEOREM AdmissionTypes == Spec => []TypeOK
  <1>1. AdmissionInv => TypeOK
    BY DEF AdmissionInv, StateOK, RequestsSound, TypeOK
  <1> QED BY <1>1, AdmissionInit, AdmissionNext, PTL DEF Spec

\* No late, lost or incomplete answer of the auth service, and no change of a
\* token, makes the gateway tell a client that a live session is revoked.
THEOREM RevocationsAreTrue == Spec => []NoFalseRevocation
  <1>1. AdmissionInv => NoFalseRevocation
    BY DEF AdmissionInv, RequestsSound, Sound, Idle, NoFalseRevocation, Replied
  <1> QED BY <1>1, AdmissionInit, AdmissionNext, PTL DEF Spec

\* A client whose token is active is at most told to try again.
THEOREM ActiveTokensAreRetried == Spec => []GoodStandingIsRetried
  <1>1. AdmissionInv => GoodStandingIsRetried
    BY DEF AdmissionInv, RequestsSound, Sound, Idle, GoodStandingIsRetried, Replied
  <1> QED BY <1>1, AdmissionInit, AdmissionNext, PTL DEF Spec

\* Whatever is stored came with a token that was active when it arrived.
THEOREM StoredTokensWereActive == Spec => []StoredWasActive
  <1>1. AdmissionInv => StoredWasActive
    BY DEF AdmissionInv, StoredSound, StoredWasActive
  <1> QED BY <1>1, AdmissionInit, AdmissionNext, PTL DEF Spec

\* What a client is told is stored is the body whose digest it declared.
THEOREM AcknowledgedBodiesAreStored == Spec => []AcknowledgedIsStored
  <1>1. AdmissionInv => AcknowledgedIsStored
    <2> SUFFICES ASSUME AdmissionInv, NEW r \in Requests, Replied(r, {"accepted", "duplicate"})
                 PROVE  \E key \in DOMAIN stored :
                            /\ Lower[key[2]] = Lower[request[r].spelling]
                            /\ key[1] = request[r].account
                            /\ stored[key] # Absent /\ stored[key].body = request[r].digest
      BY DEF AcknowledgedIsStored
    <2>1. Sound(request[r]) /\ BodyStored(request[r])
      BY DEF AdmissionInv, RequestsSound, Sound, Idle, Replied
    <2>2. BatchKey(request[r]) \in DOMAIN stored
      BY <2>1, AdmissionAssumption DEF AdmissionInv, StateOK, Sound, Request, BatchKey
    <2>3. /\ Lower[BatchKey(request[r])[2]] = Lower[request[r].spelling]
          /\ BatchKey(request[r])[1] = request[r].account
      BY <2>1, AdmissionAssumption DEF Sound, Request, BatchKey
    <2> QED BY <2>1, <2>2, <2>3 DEF BodyStored
  <1> QED BY <1>1, AdmissionInit, AdmissionNext, PTL DEF Spec

\* However the clients spell a batch id, it names one stored batch.
THEOREM BatchIdsAreUnique == Spec => []OneBatchPerId
  <1>1. AdmissionInv => OneBatchPerId
    <2> SUFFICES ASSUME AdmissionInv, NEW a \in Accounts, NEW s \in Spellings, NEW t \in Spellings,
                        stored[<<a, s>>] # Absent, stored[<<a, t>>] # Absent,
                        Lower[s] = Lower[t]
                 PROVE  s = t
      BY DEF OneBatchPerId
    <2>1. <<a, s>> \in DOMAIN stored /\ <<a, t>> \in DOMAIN stored
      BY DEF AdmissionInv, StateOK
    <2>2. Lower[<<a, s>>[2]] = <<a, s>>[2] /\ Lower[<<a, t>>[2]] = <<a, t>>[2]
      BY <2>1 DEF AdmissionInv, StoredSound
    <2> QED BY <2>2
  <1> QED BY <1>1, AdmissionInit, AdmissionNext, PTL DEF Spec
=============================================================================
