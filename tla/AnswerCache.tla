----------------------------- MODULE AnswerCache -----------------------------
(***************************************************************************)
(* What a user of the response cache may rely on: a lookup gives the last  *)
(* answer put under that very key, or nothing.  Answers may be forgotten   *)
(* at any time, and a put may cost any other key its answer.               *)
(***************************************************************************)
CONSTANTS Keys, Answers, Nothing

VARIABLES
    held,   \* the answer each key would give
    latest, \* the last answer put under each key
    got     \* the last lookup: its key and what it gave

cacheVars == <<held, latest, got>>

CacheInit ==
    /\ held = [k \in Keys |-> Nothing]
    /\ latest = [k \in Keys |-> Nothing]
    /\ got = <<>>

Without(S) == [k \in Keys |-> IF k \in S THEN Nothing ELSE held[k]]

Forget(S) ==
    /\ held' = Without(S)
    /\ UNCHANGED <<latest, got>>

Store(k, answer) ==
    /\ \E S \in SUBSET Keys : held' = [Without(S) EXCEPT ![k] = answer]
    /\ latest' = [latest EXCEPT ![k] = answer]
    /\ UNCHANGED got

Lookup(k) ==
    /\ got' = <<k, held[k]>>
    /\ UNCHANGED <<held, latest>>

CacheNext ==
    \/ \E S \in SUBSET Keys : Forget(S)
    \/ \E k \in Keys, answer \in Answers : Store(k, answer)
    \/ \E k \in Keys : Lookup(k)

CacheSpec == CacheInit /\ [][CacheNext]_cacheVars

=============================================================================
