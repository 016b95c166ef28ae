----------------------------- MODULE LLMClient -----------------------------
(***************************************************************************)
(* LLMClient.call_structured of app/llm/structured.py: one structured call *)
(* down a chain of providers, with its replay cache, its retries, its one  *)
(* repair per provider and its deterministic fallback.                     *)
(***************************************************************************)
EXTENDS Naturals, Sequences

CONSTANTS
    Chain,          \* how many providers the role's chain may have
    Caching,        \* whether the client may be given a replay cache
    MAX_RETRIES,    \* MAX_RETRIES_PER_PROVIDER
    Values,         \* the schema-valid values a provider may return
    NoValue

ASSUME ChainAssumption ==
    Chain \subseteq Nat /\ Caching \subseteq BOOLEAN /\ MAX_RETRIES \in Nat /\ NoValue \notin Values

VARIABLES
    chain,      \* the number of providers with credentials
    cached,     \* what the replay cache holds for this request: provider to value
    call        \* the call in progress or just made

llmVars == <<chain, cached, call>>

(* at is what the call does next; asked lists, per provider, what came of  *)
(* every request made to it.                                               *)
Results == {"valid", "malformed", "permanent", "retryable"}

NoCall == [at |-> "idle", provider |-> 0, attempt |-> 0, repaired |-> FALSE,
           asked |-> [p \in 1 .. chain |-> <<>>],
           value |-> NoValue, fault |-> "none", usedFallback |-> FALSE]

(* The cache is an argument of the client.  The key of an entry is all of  *)
(* a request, so a request not made before finds nothing.                  *)
CacheOff == <<>>

NewRequest(caching) == IF caching THEN [p \in 1 .. chain |-> NoValue] ELSE CacheOff

LLMInit ==
    /\ chain \in Chain
    /\ \E caching \in Caching : cached = NewRequest(caching)
    /\ call = NoCall

Calling(step) == call.at = step

(* The providers are exhausted: the fault of the last failure, and the     *)
(* fallback.                                                               *)
FaultOf(requests) ==
    IF requests[Len(requests)] = "malformed" THEN "MALFORMED_MODEL_OUTPUT" ELSE "LLM_FAILURE"

(* Plausible bug, for mutation: a fallback is reported as a success.       *)
FinishSilently(asked, fallback) ==
    [call EXCEPT !.at = "answered", !.asked = asked, !.value = fallback]

Finish(asked, fallback) ==
    [call EXCEPT !.at = "answered", !.asked = asked, !.value = fallback,
                 !.fault = FaultOf(asked[call.provider]), !.usedFallback = TRUE]

FailOver(asked, fallback) ==
    IF call.provider = chain
    THEN Finish(asked, fallback)
    ELSE [call EXCEPT !.at = "look", !.provider = @ + 1, !.asked = asked]

Begin(fallback) ==
    call' = IF chain = 0
            THEN [NoCall EXCEPT !.at = "answered", !.value = fallback,
                                !.fault = "LLM_FAILURE", !.usedFallback = TRUE]
            ELSE [NoCall EXCEPT !.at = "look", !.provider = 1]

(* The replay cache comes first.                                           *)
Stored == IF cached = CacheOff THEN NoValue ELSE cached[call.provider]

CacheHit ==
    /\ Calling("look")
    /\ Stored # NoValue
    /\ call' = [call EXCEPT !.at = "answered", !.value = Stored]
    /\ UNCHANGED cached

CacheMiss ==
    /\ Calling("look")
    /\ Stored = NoValue
    /\ call' = [call EXCEPT !.at = "ask", !.attempt = 0, !.repaired = FALSE]
    /\ UNCHANGED cached

Asked(result) == [call.asked EXCEPT ![call.provider] = Append(@, result)]

(* The loop over attempts: the next one, or the provider is given up.      *)
NextAttempt(asked, repaired, fallback) ==
    IF call.attempt < MAX_RETRIES
    THEN [call EXCEPT !.attempt = @ + 1, !.asked = asked, !.repaired = repaired]
    ELSE FailOver(asked, fallback)

Answer(value) ==
    /\ Calling("ask")
    /\ call' = [call EXCEPT !.at = "answered", !.asked = Asked("valid"), !.value = value]
    /\ cached' = IF cached = CacheOff THEN cached ELSE [cached EXCEPT ![call.provider] = value]

(* Plausible bug, for mutation: a repair restarts the count of attempts.   *)
MalformedAfresh(fallback) ==
    /\ Calling("ask")
    /\ call' = IF call.attempt = MAX_RETRIES
               THEN FailOver(Asked("malformed"), fallback)
               ELSE [call EXCEPT !.attempt = 0, !.asked = Asked("malformed"), !.repaired = TRUE]
    /\ UNCHANGED cached

Malformed(fallback) ==
    /\ Calling("ask")
    /\ call' = IF call.repaired
               THEN FailOver(Asked("malformed"), fallback)
               ELSE NextAttempt(Asked("malformed"), TRUE, fallback)
    /\ UNCHANGED cached

Permanent(fallback) ==
    /\ Calling("ask")
    /\ call' = FailOver(Asked("permanent"), fallback)
    /\ UNCHANGED cached

Retryable(fallback) ==
    /\ Calling("ask")
    /\ call' = NextAttempt(Asked("retryable"), call.repaired, fallback)
    /\ UNCHANGED cached

CallStep(fallback) ==
    /\ \/ CacheHit \/ CacheMiss
       \/ \E value \in Values : Answer(value)
       \/ Malformed(fallback) \/ Permanent(fallback) \/ Retryable(fallback)
    /\ UNCHANGED chain
=============================================================================
