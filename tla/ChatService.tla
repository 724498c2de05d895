----------------------------- MODULE ChatService -----------------------------
(***************************************************************************)
(* POST /v1/chat: the handler of app/api/v1/chat.py with the conversation  *)
(* repository (app/repositories/postgres.py), the response cache and the   *)
(* LLM client it calls.                                                    *)
(*                                                                         *)
(* Concurrent requests interleave at the awaits.  A repository operation   *)
(* has two: the commit of its transaction, and the refresh that reads the  *)
(* row back in a second one, so a row can be changed and the handler still *)
(* see an error.  Faults says which of the environment's failures a run    *)
(* lets happen: a commit, a refresh, or the death of the whole process.    *)
(*                                                                         *)
(* The LLM client is ResilientClient's promise: it answers, or it raises.  *)
(* The cache is ResponseCache's promise: an entry may be gone at any time. *)
(***************************************************************************)
EXTENDS FiniteSets

CONSTANTS
    Requests,
    Prompts, Modes, Models, NoModel,
    AllowedModels,      \* allowed_models
    SensitivePrompts,   \* the prompts the layer 1 guardrail matches
    ScopeEnabled,       \* guardrail_scope_enabled
    CacheEnabled,       \* llm_cache_ttl_seconds > 0
    Faults              \* subset of {"commit", "refresh", "crash"}

ASSUME ChatAssumption ==
    /\ AllowedModels \subseteq Models
    /\ NoModel \notin Models
    /\ SensitivePrompts \subseteq Prompts
    /\ ScopeEnabled \in BOOLEAN
    /\ CacheEnabled \in BOOLEAN
    /\ Faults \subseteq {"commit", "refresh", "crash"}

VARIABLES
    payload,    \* the body of each request
    pc,         \* the await its handler is at
    op,         \* the repository operation in progress
    result,     \* the LLM result the handler holds
    row,        \* the stored status of its interaction
    cache,      \* self._entries
    reply,      \* what the client got
    sent        \* history: the prompt went to the LLM

vars == <<payload, pc, op, result, row, cache, reply, sent>>

Payloads == [prompt : Prompts, mode : Modes, model : Models \cup {NoModel}]
NoPayload == [prompt |-> "none", mode |-> "none", model |-> "none"]

\* What matters of a text: an ordinary answer, the sentinel of the layer 2
\* guardrail, or JSON whose "dados" or "fontes" is neither a list nor empty.
Texts == {"answer", "sentinel", "odd json"}
NoResult == [to |-> NoPayload, text |-> "none"]
Results == [to : Payloads, text : Texts]

Settled == {"completed", "failed", "blocked"}
Replies == {"completed", "blocked", "unavailable", "invalid", "internal", "lost"}

\* Mutant of CacheKey: the model is left out.
CacheKeyWithoutModel(p) == <<p.mode, p.prompt>>

\* ResponseCache._key: model None and "" are one key.
CacheKey(p) == <<p.mode, p.model, p.prompt>>
CacheKeys == {CacheKey(p) : p \in Payloads}

Init ==
    /\ payload = [r \in Requests |-> NoPayload]
    /\ pc = [r \in Requests |-> "idle"]
    /\ op = [r \in Requests |-> "none"]
    /\ result = [r \in Requests |-> NoResult]
    /\ row = [r \in Requests |-> "absent"]
    /\ cache = [k \in CacheKeys |-> NoResult]
    /\ reply = [r \in Requests |-> "none"]
    /\ sent = [r \in Requests |-> FALSE]

-----------------------------------------------------------------------------
(* The handler between two awaits *)

Reply(r, what) ==
    /\ pc' = [pc EXCEPT ![r] = "done"]
    /\ reply' = [reply EXCEPT ![r] = what]
    /\ UNCHANGED op

\* The handler awaits a repository operation.
Await(r, operation) ==
    /\ pc' = [pc EXCEPT ![r] = "commit"]
    /\ op' = [op EXCEPT ![r] = operation]
    /\ UNCHANGED reply

\* parse_structured_answer iterates over "dados" and "fontes" outside its try.
ParseRaises(res) == res.text = "odd json"

\* With a result in hand: the layer 2 guardrail, then the structured answer.
Conclude(r, res) ==
    /\ result' = [result EXCEPT ![r] = res]
    /\ \/ /\ ScopeEnabled /\ res.text = "sentinel"
          /\ Await(r, "blocked")
       \/ /\ ~(ScopeEnabled /\ res.text = "sentinel") /\ ~ParseRaises(res)
          /\ Await(r, "completed")
       \/ /\ ~(ScopeEnabled /\ res.text = "sentinel") /\ ParseRaises(res)
          /\ Reply(r, "internal")

\* _validate_model refuses the model before anything is stored.
Reject(r, p) ==
    /\ pc[r] = "idle"
    /\ p.model \in Models \ AllowedModels
    /\ payload' = [payload EXCEPT ![r] = p]
    /\ Reply(r, "invalid")
    /\ UNCHANGED <<result, row, cache, sent>>

\* Mutant of Accept: create_pending returns before its transaction has committed.
AcceptUnsaved(r, p) ==
    /\ pc[r] = "idle"
    /\ p.model \notin Models \ AllowedModels
    /\ payload' = [payload EXCEPT ![r] = p]
    /\ pc' = [pc EXCEPT ![r] = "refresh"]
    /\ op' = [op EXCEPT ![r] = "pending"]
    /\ UNCHANGED <<result, row, cache, reply, sent>>

Accept(r, p) ==
    /\ pc[r] = "idle"
    /\ p.model \notin Models \ AllowedModels
    /\ payload' = [payload EXCEPT ![r] = p]
    /\ Await(r, "pending")
    /\ UNCHANGED <<result, row, cache, sent>>

\* create_pending has returned: layer 1 of the guardrail, else the cache, else the LLM.
BlockSensitive(r) ==
    /\ pc[r] = "refresh" /\ op[r] = "pending"
    /\ payload[r].prompt \in SensitivePrompts
    /\ Await(r, "blocked")
    /\ UNCHANGED <<payload, result, row, cache, sent>>

CacheHit(r) ==
    LET entry == cache[CacheKey(payload[r])] IN
    /\ pc[r] = "refresh" /\ op[r] = "pending"
    /\ payload[r].prompt \notin SensitivePrompts
    /\ entry # NoResult
    /\ Conclude(r, entry)
    /\ UNCHANGED <<payload, row, cache, sent>>

\* Mutant of CacheMiss: the guardrail's verdict does not stop the handler.
MissUnguarded(r) ==
    /\ pc[r] = "refresh" /\ op[r] = "pending"
    /\ cache[CacheKey(payload[r])] = NoResult
    /\ pc' = [pc EXCEPT ![r] = "asking"]
    /\ sent' = [sent EXCEPT ![r] = TRUE]
    /\ UNCHANGED <<payload, op, result, row, cache, reply>>

CacheMiss(r) ==
    /\ pc[r] = "refresh" /\ op[r] = "pending"
    /\ payload[r].prompt \notin SensitivePrompts
    /\ cache[CacheKey(payload[r])] = NoResult
    /\ pc' = [pc EXCEPT ![r] = "asking"]
    /\ sent' = [sent EXCEPT ![r] = TRUE]
    /\ UNCHANGED <<payload, op, result, row, cache, reply>>

\* llm.generate returns; the result is cached whatever its text is.
LLMAnswers(r, text) ==
    LET res == [to |-> payload[r], text |-> text] IN
    /\ pc[r] = "asking"
    /\ cache' = IF CacheEnabled THEN [cache EXCEPT ![CacheKey(payload[r])] = res]
                                ELSE cache
    /\ Conclude(r, res)
    /\ UNCHANGED <<payload, row, sent>>

\* Mutant of LLMRaises: the notice given for a failure is cached as an answer.
FailureIsCached(r) ==
    /\ pc[r] = "asking"
    /\ cache' = [cache EXCEPT ![CacheKey(payload[r])] = [to |-> payload[r], text |-> "answer"]]
    /\ Await(r, "failed")
    /\ UNCHANGED <<payload, result, row, sent>>

\* llm.generate raises, LLMUnavailableError or anything else.
LLMRaises(r) ==
    /\ pc[r] = "asking"
    /\ Await(r, "failed")
    /\ UNCHANGED <<payload, result, row, cache, sent>>

\* mark_completed, mark_blocked or mark_failed has returned: 200 or 503.
Respond(r) ==
    /\ pc[r] = "refresh" /\ op[r] \in Settled
    /\ Reply(r, IF op[r] = "failed" THEN "unavailable" ELSE op[r])
    /\ UNCHANGED <<payload, result, row, cache, sent>>

-----------------------------------------------------------------------------
(* The repository and the environment *)

\* The transaction of the operation in progress commits.
Commit(r) ==
    /\ pc[r] = "commit"
    /\ row' = [row EXCEPT ![r] = op[r]]
    /\ pc' = [pc EXCEPT ![r] = "refresh"]
    /\ UNCHANGED <<payload, op, result, cache, reply, sent>>

\* Mutant of RepositoryRaises: the error is logged and the handler answers anyway.
RepositoryErrorIgnored(r) ==
    /\ pc[r] \in {"commit", "refresh"} \cap Faults
    /\ Reply(r, CASE op[r] = "failed" -> "unavailable"
                  [] op[r] = "pending" -> "internal"
                  [] OTHER -> op[r])
    /\ UNCHANGED <<payload, result, row, cache, sent>>

\* Mutant of RepositoryRaises: the repository calls are inside the handler's try.
RepositoryErrorFailsRow(r) ==
    /\ pc[r] \in {"commit", "refresh"} \cap Faults
    /\ Await(r, "failed")
    /\ UNCHANGED <<payload, result, row, cache, sent>>

\* Mutant of RepositoryRaises: the operation is tried again, without a bound.
RepositoryRetried(r) ==
    /\ pc[r] \in {"commit", "refresh"} \cap Faults
    /\ pc' = [pc EXCEPT ![r] = "commit"]
    /\ UNCHANGED <<payload, op, result, row, cache, reply, sent>>

\* No repository call is inside the handler's try: its exception is a 500.
RepositoryRaises(r) ==
    /\ pc[r] \in {"commit", "refresh"} \cap Faults
    /\ Reply(r, "internal")
    /\ UNCHANGED <<payload, result, row, cache, sent>>

\* The TTL passes, or another entry needs the room.
Expire(k) ==
    /\ cache[k] # NoResult
    /\ cache' = [cache EXCEPT ![k] = NoResult]
    /\ UNCHANGED <<payload, pc, op, result, row, reply, sent>>

InFlight == {r \in Requests : pc[r] \in {"commit", "refresh", "asking"}}

\* The process dies and is started again: rows survive, handlers and cache do not.
Crash ==
    /\ "crash" \in Faults
    /\ InFlight # {}
    /\ pc' = [r \in Requests |-> IF r \in InFlight THEN "done" ELSE pc[r]]
    /\ reply' = [r \in Requests |-> IF r \in InFlight THEN "lost" ELSE reply[r]]
    /\ cache' = [k \in CacheKeys |-> NoResult]
    /\ UNCHANGED <<payload, op, result, row, sent>>

\* The steps of a handler that has been started.
Proceed(r) ==
    \/ BlockSensitive(r) \/ CacheHit(r) \/ CacheMiss(r)
    \/ \E text \in Texts : LLMAnswers(r, text)
    \/ LLMRaises(r)
    \/ Commit(r) \/ RepositoryRaises(r)
    \/ Respond(r)

Next ==
    \/ \E r \in Requests : Proceed(r) \/ \E p \in Payloads : Reject(r, p) \/ Accept(r, p)
    \/ \E k \in CacheKeys : Expire(k)
    \/ Crash

\* A started handler moves on.  The LLM client has timeouts of its own; of the database
\* only the wait for a connection has one (pool_timeout, database.py:22), so that a
\* statement or a commit ends is assumed of the server and of the driver.
Spec == Init /\ [][Next]_vars /\ \A r \in Requests : WF_vars(Proceed(r))

-----------------------------------------------------------------------------
(* Properties *)

TypeOK ==
    /\ payload \in [Requests -> Payloads \cup {NoPayload}]
    /\ pc \in [Requests -> {"idle", "commit", "refresh", "asking", "done"}]
    /\ op \in [Requests -> {"none", "pending"} \cup Settled]
    /\ result \in [Requests -> Results \cup {NoResult}]
    /\ row \in [Requests -> {"absent", "pending"} \cup Settled]
    /\ cache \in [CacheKeys -> Results \cup {NoResult}]
    /\ reply \in [Requests -> {"none"} \cup Replies]
    /\ sent \in [Requests -> BOOLEAN]

\* "Persist the prompt BEFORE calling the LLM (never lose a prompt)" (chat.py:98):
\* at no moment, a crash's included, has the LLM a prompt whose row is missing.
PromptStoredBeforeLLM ==
    \A r \in Requests : sent[r] => row[r] # "absent"

\* The client is never told something the database contradicts: a 200 carries the
\* stored status, a 503 "the prompt was stored" comes with a failed row, a 422
\* leaves no row.  It holds through every failed commit, failed refresh and crash;
\* only a 500 or a lost connection may leave a row the client knows nothing of.
ReplyAgreesWithRow ==
    \A r \in Requests :
        /\ reply[r] \in {"completed", "blocked"} => row[r] = reply[r]
        /\ reply[r] = "unavailable" => row[r] = "failed"
        /\ reply[r] = "invalid" => row[r] = "absent"

\* Requests share the cache, never each other's answers: the result a handler
\* uses was given to the same prompt, mode and model.
AnswerMatchesQuestion ==
    \A r \in Requests : result[r] # NoResult => result[r].to = payload[r]

\* "Resposta controlada SEM tocar cache/LLM" (chat.py:106-107): a sensitive prompt
\* reaches neither, gets no answer and can only be stored as pending or blocked.
SensitivePromptStaysHere ==
    \A r \in Requests :
        payload[r].prompt \in SensitivePrompts =>
            /\ ~sent[r]
            /\ result[r] = NoResult
            /\ row[r] \in {"absent", "pending", "blocked"}
            /\ \A k \in CacheKeys : cache[k] # NoResult => cache[k].to # payload[r]

\* Nothing but an answer the LLM gave to a stored prompt is ever in the cache: no
\* failure, no blocked notice, nothing of a prompt that was never sent.
CachedAnswersWereGiven ==
    \A k \in CacheKeys : cache[k] # NoResult =>
        \E r \in Requests : sent[r] /\ result[r] = cache[k] /\ CacheKey(payload[r]) = k

\* The promises of InteractionLifecycle: the handler implements it.
Told(r) ==
    CASE reply[r] = "none" -> "nothing"
      [] reply[r] \in {"completed", "blocked"} -> reply[r]
      [] reply[r] = "unavailable" -> "failed"
      [] OTHER -> "no outcome"

Lifecycle == INSTANCE InteractionLifecycle
    WITH row <- row, sent <- sent, told <- [r \in Requests |-> Told(r)]

ImplementsLifecycle == Lifecycle!LifecycleSpec

\* Every request that was started gets a reply or loses its connection.
EveryRequestIsAnswered ==
    \A r \in Requests : pc[r] \notin {"idle", "done"} ~> pc[r] = "done"

-----------------------------------------------------------------------------
(* What the documentation says and the code does not do *)

\* "Em caso de sucesso vira completed, em caso de falha vira failed" (chat.py:82-83)
\* and "nunca levanta excecao" (services/formatting.py:44): once a stored request
\* has been answered its row is not pending any more.
AnsweredIsSettled ==
    \A r \in Requests : reply[r] # "none" => row[r] # "pending"

=============================================================================
