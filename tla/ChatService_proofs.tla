------------------------- MODULE ChatService_proofs -------------------------
(***************************************************************************)
(* Proofs about ChatService, for every set of requests, prompts, modes and *)
(* models, every configuration of the guardrail and the cache, and every   *)
(* combination of faults.                                                  *)
(***************************************************************************)
EXTENDS ChatService, TLAPS

\* Where a handler is, what it is doing and the row of its interaction agree.
HandlerOK(r) ==
    /\ pc[r] = "idle" => /\ payload[r] = NoPayload
                         /\ op[r] = "none"
                         /\ row[r] = "absent"
                         /\ result[r] = NoResult
    /\ pc[r] # "idle" => payload[r] \in Payloads
    /\ pc[r] = "commit" => /\ op[r] = "pending" => row[r] = "absent"
                           /\ op[r] # "pending" => row[r] = "pending"
                           /\ op[r] # "none"
    /\ pc[r] = "refresh" => row[r] = op[r] /\ op[r] # "none"
    /\ pc[r] = "asking" => row[r] = "pending" /\ op[r] = "pending" /\ sent[r]
    /\ pc[r] # "done" /\ op[r] \in {"none", "pending"} => result[r] = NoResult
    /\ pc[r] = "done" <=> reply[r] # "none"
    /\ sent[r] => row[r] # "absent" /\ payload[r].prompt \notin SensitivePrompts
    /\ op[r] = "failed" => sent[r]
    /\ result[r] # NoResult => /\ result[r].to = payload[r]
                               /\ payload[r].prompt \notin SensitivePrompts
    /\ op[r] = "completed" => result[r] # NoResult
    /\ row[r] \in {"completed", "failed"} => row[r] = op[r]

\* An entry of the cache is the result of its own key, for a prompt that may be sent.
EntryOK(k) ==
    cache[k] # NoResult => /\ CacheKey(cache[k].to) = k
                           /\ cache[k].to.prompt \notin SensitivePrompts

\* The inductive invariant.
IInv ==
    /\ TypeOK
    /\ \A r \in Requests : HandlerOK(r)
    /\ \A k \in CacheKeys : EntryOK(k)
    /\ ReplyAgreesWithRow

\* No result is the absence of one.
LEMMA NoResultIsNone == NoResult \notin Results
BY DEF NoResult, Results, Texts

\* A payload is determined by its key in the cache.
LEMMA KeyIsInjective ==
    ASSUME NEW p \in Payloads, NEW q \in Payloads, CacheKey(p) = CacheKey(q)
    PROVE  p = q
BY DEF Payloads, CacheKey

\* The initial state satisfies the invariant.
LEMMA InitIInv == Init => IInv
BY NoResultIsNone
   DEF Init, IInv, TypeOK, HandlerOK, EntryOK, ReplyAgreesWithRow, Settled, Replies

\* Using a result keeps the invariant: res answers the prompt of r, which may be sent.
LEMMA ConcludeKeepsIInv ==
    ASSUME IInv,
           NEW r \in Requests, pc[r] \in {"refresh", "asking"},
           row[r] = "pending", op[r] = "pending",
           NEW res \in Results, res.to = payload[r],
           payload[r].prompt \notin SensitivePrompts,
           Conclude(r, res),
           UNCHANGED <<payload, row, sent>>,
           cache' \in [CacheKeys -> Results \cup {NoResult}],
           \A k \in CacheKeys : EntryOK(k)'
    PROVE  IInv'
<1> USE DEF Settled, Replies
<1>1. /\ TypeOK
      /\ \A q \in Requests : HandlerOK(q)
      /\ ReplyAgreesWithRow
  BY DEF IInv
<1>2. /\ result' = [result EXCEPT ![r] = res]
      /\ \/ /\ pc' = [pc EXCEPT ![r] = "commit"]
            /\ op' \in {[op EXCEPT ![r] = "blocked"], [op EXCEPT ![r] = "completed"]}
            /\ reply' = reply
         \/ /\ pc' = [pc EXCEPT ![r] = "done"]
            /\ reply' = [reply EXCEPT ![r] = "internal"]
            /\ op' = op
  BY DEF Conclude, Await, Reply
<1>3. TypeOK'
  BY <1>1, <1>2 DEF TypeOK
<1>4. ASSUME NEW q \in Requests PROVE HandlerOK(q)'
  <2>1. CASE q = r
    BY <1>1, <1>2, <2>1, NoResultIsNone DEF HandlerOK, TypeOK
  <2>2. CASE q # r
    BY <1>1, <1>2, <2>2 DEF HandlerOK, TypeOK
  <2> QED BY <2>1, <2>2
<1>5. ReplyAgreesWithRow'
  BY <1>1, <1>2 DEF ReplyAgreesWithRow, TypeOK
<1> QED BY <1>3, <1>4, <1>5 DEF IInv

\* Every step of the service and its environment keeps the invariant.
LEMMA NextIInv == IInv /\ [Next]_vars => IInv'
<1> SUFFICES ASSUME IInv, [Next]_vars
             PROVE  IInv'
  OBVIOUS
<1> USE DEF Settled, Replies
<1>1. /\ TypeOK
      /\ \A q \in Requests : HandlerOK(q)
      /\ \A k \in CacheKeys : EntryOK(k)
      /\ ReplyAgreesWithRow
  BY DEF IInv
<1>2. ASSUME NEW r \in Requests, NEW p \in Payloads, Reject(r, p) \/ Accept(r, p)
      PROVE  IInv'
  <2> USE <1>2 DEF Reject, Accept, Reply, Await
  <2>1. TypeOK'
    BY <1>1 DEF TypeOK
  <2>2. ASSUME NEW q \in Requests PROVE HandlerOK(q)'
    <3>1. CASE q = r
      BY <1>1, <3>1 DEF HandlerOK, TypeOK
    <3>2. CASE q # r
      BY <1>1, <3>2 DEF HandlerOK, TypeOK
    <3> QED BY <3>1, <3>2
  <2>3. ReplyAgreesWithRow'
    BY <1>1 DEF ReplyAgreesWithRow, HandlerOK, TypeOK
  <2>4. \A k \in CacheKeys : EntryOK(k)'
    BY <1>1 DEF EntryOK
  <2> QED BY <2>1, <2>2, <2>3, <2>4 DEF IInv
<1>3. ASSUME NEW r \in Requests, BlockSensitive(r) PROVE IInv'
  <2> USE <1>3 DEF BlockSensitive, Await
  <2>1. TypeOK'
    BY <1>1 DEF TypeOK
  <2>2. ASSUME NEW q \in Requests PROVE HandlerOK(q)'
    <3>1. CASE q = r
      BY <1>1, <3>1 DEF HandlerOK, TypeOK
    <3>2. CASE q # r
      BY <1>1, <3>2 DEF HandlerOK, TypeOK
    <3> QED BY <3>1, <3>2
  <2>3. ReplyAgreesWithRow'
    BY <1>1 DEF ReplyAgreesWithRow, HandlerOK, TypeOK
  <2>4. \A k \in CacheKeys : EntryOK(k)'
    BY <1>1 DEF EntryOK
  <2> QED BY <2>1, <2>2, <2>3, <2>4 DEF IInv
<1>4. ASSUME NEW r \in Requests, CacheHit(r) PROVE IInv'
  <2> DEFINE entry == cache[CacheKey(payload[r])]
  <2>1. /\ pc[r] = "refresh" /\ op[r] = "pending" /\ row[r] = "pending"
        /\ payload[r].prompt \notin SensitivePrompts
        /\ Conclude(r, entry)
        /\ UNCHANGED <<payload, row, sent, cache>>
    BY <1>1, <1>4 DEF CacheHit, HandlerOK
  <2>2. payload[r] \in Payloads /\ CacheKey(payload[r]) \in CacheKeys
    BY <1>1, <2>1 DEF HandlerOK, CacheKeys
  <2>3. entry \in Results /\ CacheKey(entry.to) = CacheKey(payload[r])
    BY <1>1, <1>4, <2>2 DEF CacheHit, TypeOK, EntryOK
  <2>4. entry.to = payload[r]
    BY <2>2, <2>3, KeyIsInjective DEF Results
  <2>5. cache' \in [CacheKeys -> Results \cup {NoResult}] /\ \A k \in CacheKeys : EntryOK(k)'
    BY <1>1, <2>1 DEF TypeOK, EntryOK
  <2> HIDE DEF entry
  <2> QED BY <2>1, <2>3, <2>4, <2>5, ConcludeKeepsIInv
<1>5. ASSUME NEW r \in Requests, CacheMiss(r) PROVE IInv'
  <2> USE <1>5 DEF CacheMiss
  <2>1. TypeOK'
    BY <1>1 DEF TypeOK
  <2>2. ASSUME NEW q \in Requests PROVE HandlerOK(q)'
    <3>1. CASE q = r
      BY <1>1, <3>1 DEF HandlerOK, TypeOK
    <3>2. CASE q # r
      BY <1>1, <3>2 DEF HandlerOK, TypeOK
    <3> QED BY <3>1, <3>2
  <2>3. ReplyAgreesWithRow'
    BY <1>1 DEF ReplyAgreesWithRow, HandlerOK, TypeOK
  <2>4. \A k \in CacheKeys : EntryOK(k)'
    BY <1>1 DEF EntryOK
  <2> QED BY <2>1, <2>2, <2>3, <2>4 DEF IInv
<1>6. ASSUME NEW r \in Requests, NEW text \in Texts, LLMAnswers(r, text) PROVE IInv'
  <2> DEFINE res == [to |-> payload[r], text |-> text]
             key == CacheKey(payload[r])
  <2>1. /\ pc[r] = "asking" /\ row[r] = "pending" /\ op[r] = "pending"
        /\ payload[r].prompt \notin SensitivePrompts
        /\ Conclude(r, res)
        /\ UNCHANGED <<payload, row, sent>>
    BY <1>1, <1>6 DEF LLMAnswers, HandlerOK
  <2>2. payload[r] \in Payloads /\ key \in CacheKeys /\ res \in Results /\ res.to = payload[r]
    BY <1>1, <2>1 DEF HandlerOK, CacheKeys, Results
  <2>3. cache' = cache \/ cache' = [cache EXCEPT ![key] = res]
    BY <1>6 DEF LLMAnswers
  <2>4. cache' \in [CacheKeys -> Results \cup {NoResult}] /\ \A k \in CacheKeys : EntryOK(k)'
    BY <1>1, <2>1, <2>2, <2>3 DEF TypeOK, EntryOK
  <2> HIDE DEF res, key
  <2> QED BY <2>1, <2>2, <2>4, ConcludeKeepsIInv
<1>7. ASSUME NEW r \in Requests, LLMRaises(r) PROVE IInv'
  <2> USE <1>7 DEF LLMRaises, Await
  <2>1. TypeOK'
    BY <1>1 DEF TypeOK
  <2>2. ASSUME NEW q \in Requests PROVE HandlerOK(q)'
    <3>1. CASE q = r
      BY <1>1, <3>1 DEF HandlerOK, TypeOK
    <3>2. CASE q # r
      BY <1>1, <3>2 DEF HandlerOK, TypeOK
    <3> QED BY <3>1, <3>2
  <2>3. ReplyAgreesWithRow'
    BY <1>1 DEF ReplyAgreesWithRow, HandlerOK, TypeOK
  <2>4. \A k \in CacheKeys : EntryOK(k)'
    BY <1>1 DEF EntryOK
  <2> QED BY <2>1, <2>2, <2>3, <2>4 DEF IInv
<1>8. ASSUME NEW r \in Requests, Respond(r) PROVE IInv'
  <2> USE <1>8 DEF Respond, Reply
  <2>1. TypeOK'
    <3>1. (IF op[r] = "failed" THEN "unavailable" ELSE op[r]) \in Replies
      OBVIOUS
    <3> QED BY <1>1, <3>1 DEF TypeOK
  <2>2. ASSUME NEW q \in Requests PROVE HandlerOK(q)'
    <3>1. CASE q = r
      BY <1>1, <3>1 DEF HandlerOK, TypeOK
    <3>2. CASE q # r
      BY <1>1, <3>2 DEF HandlerOK, TypeOK
    <3> QED BY <3>1, <3>2
  <2>3. ReplyAgreesWithRow'
    BY <1>1 DEF ReplyAgreesWithRow, HandlerOK, TypeOK
  <2>4. \A k \in CacheKeys : EntryOK(k)'
    BY <1>1 DEF EntryOK
  <2> QED BY <2>1, <2>2, <2>3, <2>4 DEF IInv
<1>9. ASSUME NEW r \in Requests, Commit(r) PROVE IInv'
  <2> USE <1>9 DEF Commit
  <2>1. TypeOK'
    BY <1>1 DEF TypeOK, HandlerOK
  <2>2. ASSUME NEW q \in Requests PROVE HandlerOK(q)'
    <3>1. CASE q = r
      BY <1>1, <3>1 DEF HandlerOK, TypeOK
    <3>2. CASE q # r
      BY <1>1, <3>2 DEF HandlerOK, TypeOK
    <3> QED BY <3>1, <3>2
  <2>3. ReplyAgreesWithRow'
    BY <1>1 DEF ReplyAgreesWithRow, HandlerOK, TypeOK
  <2>4. \A k \in CacheKeys : EntryOK(k)'
    BY <1>1 DEF EntryOK
  <2> QED BY <2>1, <2>2, <2>3, <2>4 DEF IInv
<1>10. ASSUME NEW r \in Requests, RepositoryRaises(r) PROVE IInv'
  <2> USE <1>10 DEF RepositoryRaises, Reply
  <2>1. TypeOK'
    BY <1>1 DEF TypeOK
  <2>2. ASSUME NEW q \in Requests PROVE HandlerOK(q)'
    <3>1. CASE q = r
      BY <1>1, <3>1 DEF HandlerOK, TypeOK
    <3>2. CASE q # r
      BY <1>1, <3>2 DEF HandlerOK, TypeOK
    <3> QED BY <3>1, <3>2
  <2>3. ReplyAgreesWithRow'
    BY <1>1 DEF ReplyAgreesWithRow, HandlerOK, TypeOK
  <2>4. \A k \in CacheKeys : EntryOK(k)'
    BY <1>1 DEF EntryOK
  <2> QED BY <2>1, <2>2, <2>3, <2>4 DEF IInv
<1>11. ASSUME NEW key \in CacheKeys, Expire(key) PROVE IInv'
  BY <1>1, <1>11 DEF Expire, IInv, TypeOK, HandlerOK, EntryOK, ReplyAgreesWithRow
<1>12. ASSUME Crash PROVE IInv'
  <2> USE <1>12 DEF Crash, InFlight
  <2>1. TypeOK'
    BY <1>1 DEF TypeOK
  <2>2. \A q \in Requests : HandlerOK(q)'
    BY <1>1 DEF HandlerOK, TypeOK
  <2>3. ReplyAgreesWithRow' /\ \A k \in CacheKeys : EntryOK(k)'
    BY <1>1 DEF ReplyAgreesWithRow, EntryOK
  <2> QED BY <2>1, <2>2, <2>3 DEF IInv
<1>13. CASE UNCHANGED vars
  BY <1>1, <1>13 DEF vars, IInv, TypeOK, HandlerOK, EntryOK, ReplyAgreesWithRow
<1> QED
  BY <1>2, <1>3, <1>4, <1>5, <1>6, <1>7, <1>8, <1>9, <1>10, <1>11, <1>12, <1>13
     DEF Next, Proceed

\* The inductive invariant is an invariant of every instance.
LEMMA Invariance == Spec => []IInv
<1>1. Init => IInv
  BY InitIInv
<1>2. IInv /\ [Next]_vars => IInv'
  BY NextIInv
<1> QED BY <1>1, <1>2, PTL DEF Spec

\* Type correctness.
THEOREM TypeCorrect == Spec => []TypeOK
<1>1. IInv => TypeOK
  BY DEF IInv
<1> QED BY <1>1, Invariance, PTL

\* The prompt is in the database before the LLM has it (chat.py:98-104, 137), through
\* every interleaving, failed commit or refresh and crash.
THEOREM PromptIsStoredBeforeLLM == Spec => []PromptStoredBeforeLLM
<1>1. IInv => PromptStoredBeforeLLM
  BY DEF IInv, HandlerOK, PromptStoredBeforeLLM
<1> QED BY <1>1, Invariance, PTL

\* No reply contradicts the stored row (chat.py:120-126, 143-152, 168-184, 190-222).
THEOREM RepliesAgreeWithRows == Spec => []ReplyAgreesWithRow
<1>1. IInv => ReplyAgreesWithRow
  BY DEF IInv
<1> QED BY <1>1, Invariance, PTL

\* The shared cache never hands an answer to another question (cache.py:37-39).
THEOREM AnswersMatchQuestions == Spec => []AnswerMatchesQuestion
<1>1. IInv => AnswerMatchesQuestion
  BY DEF IInv, HandlerOK, AnswerMatchesQuestion
<1> QED BY <1>1, Invariance, PTL

\* A prompt that layer 1 matches reaches neither the LLM nor the cache (chat.py:110-126).
THEOREM SensitivePromptsStayHere == Spec => []SensitivePromptStaysHere
<1>1. ASSUME IInv, NEW r \in Requests, payload[r].prompt \in SensitivePrompts
      PROVE  /\ ~sent[r]
             /\ result[r] = NoResult
             /\ row[r] \in {"absent", "pending", "blocked"}
             /\ \A k \in CacheKeys : cache[k] # NoResult => cache[k].to # payload[r]
  <2>1. TypeOK /\ HandlerOK(r) /\ \A k \in CacheKeys : EntryOK(k)
    BY <1>1 DEF IInv
  <2> QED BY <1>1, <2>1 DEF HandlerOK, EntryOK, TypeOK, Settled
<1>2. IInv => SensitivePromptStaysHere
  BY <1>1 DEF SensitivePromptStaysHere
<1> QED BY <1>2, Invariance, PTL

\* What is in the cache was answered by the LLM to a stored prompt (chat.py:136-140).
THEOREM CacheHoldsGivenAnswers == Spec => []CachedAnswersWereGiven
<1>1. Init => CachedAnswersWereGiven
  BY DEF Init, CachedAnswersWereGiven
<1>2. ASSUME IInv, CachedAnswersWereGiven, [Next]_vars, NEW k \in CacheKeys,
             cache'[k] # NoResult
      PROVE  \E r \in Requests :
                sent'[r] /\ result'[r] = cache'[k] /\ CacheKey(payload'[r]) = k
  <2>1. TypeOK /\ \A r \in Requests : HandlerOK(r)
    BY <1>2 DEF IInv
  <2>2. ASSUME NEW r \in Requests, result[r] # NoResult
        PROVE  result'[r] = result[r] /\ payload'[r] = payload[r] /\ sent'[r] = sent[r]
    <3> USE <2>1, <2>2 DEF TypeOK
    <3>1. ASSUME NEW q \in Requests, NEW p \in Payloads, Reject(q, p) \/ Accept(q, p)
          PROVE  result'[r] = result[r] /\ payload'[r] = payload[r] /\ sent'[r] = sent[r]
      BY <3>1 DEF Reject, Accept, HandlerOK
    <3>2. ASSUME NEW q \in Requests, NEW res, Conclude(q, res), pc[q] \in {"refresh", "asking"},
                 op[q] = "pending", payload' = payload, sent' = sent
          PROVE  result'[r] = result[r] /\ payload'[r] = payload[r] /\ sent'[r] = sent[r]
      BY <3>2 DEF Conclude, HandlerOK
    <3>3. ASSUME NEW q \in Requests, Proceed(q)
          PROVE  result'[r] = result[r] /\ payload'[r] = payload[r] /\ sent'[r] = sent[r]
      <4>1. CASE CacheHit(q)
        BY <3>2, <4>1 DEF CacheHit
      <4>2. CASE \E text \in Texts : LLMAnswers(q, text)
        BY <3>2, <4>2 DEF LLMAnswers, HandlerOK
      <4>3. CASE CacheMiss(q)
        BY <4>3 DEF CacheMiss, HandlerOK
      <4> QED
        BY <3>3, <4>1, <4>2, <4>3 DEF Proceed, BlockSensitive, LLMRaises, Commit,
           RepositoryRaises, Respond
    <3> QED BY <1>2, <3>1, <3>3 DEF Next, vars, Expire, Crash
  <2>3. CASE cache'[k] = cache[k]
    BY <1>2, <2>2, <2>3 DEF CachedAnswersWereGiven
  <2>4. CASE cache'[k] # cache[k]
    <3>1. PICK r \in Requests, text \in Texts : LLMAnswers(r, text)
      BY <1>2, <2>1, <2>4
         DEF Next, vars, Proceed, Reject, Accept, BlockSensitive, CacheHit, CacheMiss,
             LLMRaises, Respond, Commit, RepositoryRaises, Expire, Crash, TypeOK
    <3>2. /\ k = CacheKey(payload[r])
          /\ cache'[k] = [to |-> payload[r], text |-> text]
      BY <2>1, <2>4, <3>1 DEF LLMAnswers, TypeOK
    <3>3. result'[r] = [to |-> payload[r], text |-> text] /\ sent'[r] /\ payload' = payload
      BY <2>1, <3>1 DEF LLMAnswers, Conclude, HandlerOK, TypeOK
    <3> QED BY <3>2, <3>3
  <2> QED BY <2>3, <2>4
<1>3. IInv /\ CachedAnswersWereGiven /\ [Next]_vars => CachedAnswersWereGiven'
  BY <1>2 DEF CachedAnswersWereGiven
<1> QED BY <1>1, <1>3, Invariance, PTL DEF Spec

-----------------------------------------------------------------------------
(* The handler implements the lifecycle. *)

told == [r \in Requests |-> Told(r)]

\* A client has been told nothing exactly while its handler has not ended.
LEMMA ToldNothing ==
    ASSUME IInv, NEW r \in Requests
    PROVE  told[r] = "nothing" <=> pc[r] # "done"
<1>1. HandlerOK(r) /\ reply[r] \in {"none"} \cup Replies
  BY DEF IInv, TypeOK
<1> QED BY <1>1 DEF told, Told, HandlerOK, Replies

\* A step in which the handlers in S end with no outcome is a GiveUp(S).
LEMMA EndingIsGiveUp ==
    ASSUME IInv, NEW S \in SUBSET Requests,
           \A r \in S : pc[r] # "done",
           reply' = [r \in Requests |-> IF r \in S THEN reply'[r] ELSE reply[r]],
           \A r \in S : reply'[r] \in {"invalid", "internal", "lost"},
           UNCHANGED <<row, sent>>
    PROVE  Lifecycle!GiveUp(S)
<1>1. \A r \in S : told[r] = "nothing"
  BY ToldNothing
<1>2. told' = [r \in Requests |-> IF r \in S THEN "no outcome" ELSE told[r]]
  BY DEF told, Told
<1> QED BY <1>1, <1>2 DEF Lifecycle!GiveUp, told

\* Every step of the service is a step of the lifecycle or leaves it unchanged.
LEMMA StepImplements ==
    IInv /\ [Next]_vars => [Lifecycle!LifecycleNext]_(Lifecycle!lifecycleVars)
<1> SUFFICES ASSUME IInv, [Next]_vars
             PROVE  \/ Lifecycle!LifecycleNext
                    \/ UNCHANGED <<row, sent, told>>
  BY DEF Lifecycle!lifecycleVars, told
<1>1. TypeOK /\ \A r \in Requests : HandlerOK(r)
  BY DEF IInv
<1>2. ASSUME UNCHANGED <<row, sent, reply>>
      PROVE  UNCHANGED <<row, sent, told>>
  BY <1>2 DEF told, Told
<1>3. ASSUME NEW r \in Requests, pc[r] # "done", UNCHANGED <<row, sent>>,
             NEW what \in {"invalid", "internal"}, Reply(r, what)
      PROVE  Lifecycle!LifecycleNext
  <2>1. \A q \in {r} : pc[q] # "done" /\ reply'[q] \in {"invalid", "internal", "lost"}
    BY <1>1, <1>3 DEF Reply, TypeOK
  <2>2. reply' = [q \in Requests |-> IF q \in {r} THEN reply'[q] ELSE reply[q]]
    BY <1>1, <1>3 DEF Reply, TypeOK
  <2>3. Lifecycle!GiveUp({r})
    BY <1>3, <2>1, <2>2, EndingIsGiveUp
  <2> QED BY <2>3 DEF Lifecycle!LifecycleNext
<1>4. ASSUME NEW r \in Requests, NEW res, Conclude(r, res), pc[r] # "done",
             UNCHANGED <<row, sent>>
      PROVE  Lifecycle!LifecycleNext \/ UNCHANGED <<row, sent, told>>
  BY <1>2, <1>3, <1>4 DEF Conclude, Await
<1>5. ASSUME NEW r \in Requests, CacheMiss(r)
      PROVE  Lifecycle!LifecycleNext
  <2>1. row[r] = "pending" /\ told[r] = "nothing"
    BY <1>1, <1>5, ToldNothing DEF CacheMiss, HandlerOK
  <2>2. sent' = [sent EXCEPT ![r] = TRUE] /\ UNCHANGED <<row, told>>
    BY <1>5 DEF CacheMiss, told, Told
  <2>3. Lifecycle!Send(r)
    BY <2>1, <2>2 DEF Lifecycle!Send, told
  <2> QED BY <2>3 DEF Lifecycle!LifecycleNext
<1>6. ASSUME NEW r \in Requests, Commit(r)
      PROVE  Lifecycle!LifecycleNext
  <2>1. /\ told[r] = "nothing"
        /\ row' = [row EXCEPT ![r] = op[r]]
        /\ UNCHANGED <<sent, told>>
    BY <1>6, ToldNothing DEF Commit, told, Told
  <2>2. CASE op[r] = "pending"
    <3>1. Lifecycle!Store(r)
      BY <1>1, <1>6, <2>1, <2>2 DEF Commit, HandlerOK, Lifecycle!Store, told
    <3> QED BY <3>1 DEF Lifecycle!LifecycleNext
  <2>3. CASE op[r] \in Settled
    <3>1. Lifecycle!Settle(r, op[r])
      BY <1>1, <1>6, <2>1, <2>3 DEF Commit, HandlerOK, Settled, Lifecycle!Settle, told
    <3> QED BY <2>3, <3>1 DEF Lifecycle!LifecycleNext, Settled, Lifecycle!Settled
  <2> QED BY <1>1, <1>6, <2>2, <2>3 DEF Commit, HandlerOK, TypeOK
<1>7. ASSUME NEW r \in Requests, Respond(r)
      PROVE  Lifecycle!LifecycleNext
  <2>1. /\ row[r] = op[r] /\ op[r] \in Settled
        /\ told[r] = "nothing"
        /\ UNCHANGED <<row, sent>>
    BY <1>1, <1>7, ToldNothing DEF Respond, HandlerOK
  <2>2. told' = [told EXCEPT ![r] = row[r]]
    BY <1>1, <1>7, <2>1 DEF Respond, Reply, TypeOK, Settled, told, Told
  <2>3. Lifecycle!Tell(r)
    BY <2>1, <2>2 DEF Lifecycle!Tell, Lifecycle!Settled, Settled, told
  <2> QED BY <2>3 DEF Lifecycle!LifecycleNext
<1>8. ASSUME Crash
      PROVE  Lifecycle!LifecycleNext
  <2>1. /\ InFlight \in SUBSET Requests
        /\ \A r \in InFlight : pc[r] # "done" /\ reply'[r] \in {"invalid", "internal", "lost"}
        /\ reply' = [r \in Requests |-> IF r \in InFlight THEN reply'[r] ELSE reply[r]]
        /\ UNCHANGED <<row, sent>>
    BY <1>8 DEF Crash, InFlight
  <2>2. Lifecycle!GiveUp(InFlight)
    BY <2>1, EndingIsGiveUp
  <2> QED BY <2>1, <2>2 DEF Lifecycle!LifecycleNext
<1>9. ASSUME NEW r \in Requests, Proceed(r)
      PROVE  Lifecycle!LifecycleNext \/ UNCHANGED <<row, sent, told>>
  <2>1. CASE BlockSensitive(r) \/ LLMRaises(r)
    BY <1>2, <2>1 DEF BlockSensitive, LLMRaises, Await
  <2>2. CASE CacheHit(r)
    BY <1>4, <2>2 DEF CacheHit
  <2>3. CASE \E text \in Texts : LLMAnswers(r, text)
    BY <1>4, <2>3 DEF LLMAnswers
  <2>4. CASE RepositoryRaises(r)
    BY <1>3, <2>4 DEF RepositoryRaises
  <2> QED BY <1>5, <1>6, <1>7, <1>9, <2>1, <2>2, <2>3, <2>4 DEF Proceed
<1>10. ASSUME NEW r \in Requests, NEW p \in Payloads, Reject(r, p) \/ Accept(r, p)
       PROVE  Lifecycle!LifecycleNext \/ UNCHANGED <<row, sent, told>>
  BY <1>2, <1>3, <1>10 DEF Reject, Accept, Await
<1> QED
  BY <1>2, <1>8, <1>9, <1>10 DEF Next, vars, Expire

\* The chat handler keeps the promises of the interaction lifecycle: stored before
\* sent, settled once, told only what is stored, frozen once told.
THEOREM ChatImplementsLifecycle == Spec => ImplementsLifecycle
<1>1. Init => Lifecycle!LifecycleInit
  BY DEF Init, Lifecycle!LifecycleInit, Told
<1>2. IInv /\ [Next]_vars => [Lifecycle!LifecycleNext]_(Lifecycle!lifecycleVars)
  BY StepImplements
<1> QED BY <1>1, <1>2, Invariance, PTL DEF Spec, ImplementsLifecycle, Lifecycle!LifecycleSpec

=============================================================================
