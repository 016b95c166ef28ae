--------------------------- MODULE ExerciseProofs ---------------------------
(***************************************************************************)
(* Proofs about Exercise: a call keeps its budget, what the learner is     *)
(* shown is declared for what it is, and a verdict is the outcome of runs  *)
(* of the learner's program.                                               *)
(***************************************************************************)
EXTENDS Exercise, FiniteSetTheorems, WellFoundedInduction, TLAPS

-----------------------------------------------------------------------------
(* The state of a call.                                                    *)

Counted(asked, p, n) == ~ GivenUpAfter(asked[p], n) /\ (n > 0 => asked[p][n] # "valid")

IsCallRecord(c) ==
    c = [at |-> c.at, provider |-> c.provider, attempt |-> c.attempt,
         repaired |-> c.repaired, asked |-> c.asked, value |-> c.value,
         fault |-> c.fault, usedFallback |-> c.usedFallback]

CallInv ==
    /\ chain \in Nat
    /\ IsCallRecord(call)
    /\ CallTypeOK
    /\ Calling("look") \/ Calling("ask") => call.provider > 0
    /\ Calling("look") => call.asked[call.provider] = <<>>

(* Of the provider being asked: the attempts are its requests, and it was  *)
(* repaired exactly when it once answered amiss.                           *)
AskInv ==
    Calling("ask") =>
        LET requests == call.asked[call.provider]
        IN  /\ call.attempt = Len(requests)
            /\ call.repaired <=> \E i \in 1 .. Len(requests) : requests[i] = "malformed"
            /\ Counted(call.asked, call.provider, Len(requests))

BudgetInv == CallInv /\ AskInv /\ AsksWithinBudget

LEMMA GivenUpOfPrefix ==
    ASSUME NEW r \in Seq(Results), NEW x \in Results, NEW n \in 0 .. Len(r)
    PROVE  /\ Append(r, x) \in Seq(Results)
           /\ Len(Append(r, x)) = Len(r) + 1
           /\ Append(r, x)[Len(r) + 1] = x
           /\ \A i \in 1 .. Len(r) : Append(r, x)[i] = r[i]
           /\ GivenUpAfter(Append(r, x), n) <=> GivenUpAfter(r, n)
<1>1. /\ Append(r, x) \in Seq(Results)
      /\ Len(Append(r, x)) = Len(r) + 1
      /\ Append(r, x)[Len(r) + 1] = x
      /\ \A i \in 1 .. Len(r) : Append(r, x)[i] = r[i]
    OBVIOUS
<1>2. \A i \in 1 .. n : i \in 1 .. Len(r)
    OBVIOUS
<1> QED  BY <1>1, <1>2 DEF GivenUpAfter

(* The requests of one more answer.                                        *)
LEMMA AskedOnce ==
    ASSUME BudgetInv, Calling("ask"), NEW x \in Results
    PROVE  LET p == call.provider
               r == call.asked[p]
           IN  /\ p \in 1 .. chain /\ r \in Seq(Results)
               /\ Asked(x) \in [1 .. chain -> Seq(Results)]
               /\ Asked(x)[p] = Append(r, x)
               /\ \A q \in 1 .. chain : q # p => Asked(x)[q] = call.asked[q]
               /\ \A n \in 0 .. Len(r) : Counted(Asked(x), p, n)
<1> DEFINE p == call.provider
           r == call.asked[p]
<1>1. p \in 1 .. chain /\ r \in Seq(Results)
    BY DEF BudgetInv, CallInv, CallTypeOK
<1>2. /\ Asked(x) \in [1 .. chain -> Seq(Results)]
      /\ Asked(x)[p] = Append(r, x)
      /\ \A q \in 1 .. chain : q # p => Asked(x)[q] = call.asked[q]
    BY <1>1 DEF Asked, BudgetInv, CallInv, CallTypeOK
<1>3. \A n \in 0 .. Len(r) : Counted(call.asked, p, n)
  <2>1. Counted(call.asked, p, Len(r))
      BY DEF BudgetInv, AskInv
  <2>2. \A n \in 0 .. Len(r) - 1 : Counted(call.asked, p, n)
      BY <1>1 DEF BudgetInv, AsksWithinBudget, Counted
  <2>3. Len(r) \in Nat
      BY <1>1
  <2> QED  BY <2>1, <2>2, <2>3
<1>4. ASSUME NEW n \in 0 .. Len(r)
      PROVE  Counted(Asked(x), p, n)
  <2>1. GivenUpAfter(Append(r, x), n) <=> GivenUpAfter(r, n)
      BY <1>1, <1>4, GivenUpOfPrefix
  <2>2. n > 0 => Append(r, x)[n] = r[n]
      BY <1>1, <1>4, GivenUpOfPrefix
  <2> QED  BY <1>2, <1>3, <1>4, <2>1, <2>2 DEF Counted
<1> QED  BY <1>1, <1>2, <1>4

-----------------------------------------------------------------------------
(* What the actions do to a call.                                          *)

Fresh(c) ==
    /\ IsCallRecord(c)
    /\ c.attempt = 0 /\ c.repaired = FALSE /\ c.asked = [p \in 1 .. chain |-> <<>>]
    /\ c.at \in {"idle", "look", "answered"} /\ c.provider \in 0 .. chain
    /\ c.at = "look" => c.provider > 0
    /\ c.fault \in {"none", "LLM_FAILURE"} /\ c.usedFallback \in BOOLEAN

IsCall(c) ==
    /\ IsCallRecord(c)
    /\ c.at \in {"idle", "look", "ask", "answered"}
    /\ c.provider \in 0 .. chain /\ c.attempt \in 0 .. MAX_RETRIES
    /\ c.repaired \in BOOLEAN /\ c.usedFallback \in BOOLEAN
    /\ c.asked \in [1 .. chain -> Seq(Results)]
    /\ c.fault \in {"none", "LLM_FAILURE", "MALFORMED_MODEL_OUTPUT"}
    /\ c.at \in {"look", "ask"} => c.provider > 0
    /\ c.at = "look" => c.asked[c.provider] = <<>>

LEMMA CallInvNext ==
    ASSUME chain \in Nat, chain' = chain, IsCall(call')
    PROVE  CallInv'
BY DEF CallInv, CallTypeOK, Calling, IsCall

LEMMA BudgetWhenFresh ==
    ASSUME chain \in Nat, chain' = chain, Fresh(call')
           , call'.provider \in {0, 1}
    PROVE  BudgetInv'
<1>1. MAX_RETRIES \in Nat
    BY ChainAssumption DEF ChainAssumption
<1>2. \A p \in 1 .. chain : call'.asked[p] = <<>>
    BY DEF Fresh
<1>3. CallInv'
  <2>1. [p \in 1 .. chain |-> <<>>] \in [1 .. chain -> Seq(Results)]
      OBVIOUS
  <2>2. call'.at = "look" => [p \in 1 .. chain |-> <<>>][call'.provider] = <<>>
      BY DEF Fresh
  <2>3. /\ call'.asked \in [1 .. chain -> Seq(Results)]
        /\ call'.at = "look" => call'.asked[call'.provider] = <<>>
      BY <2>1, <2>2 DEF Fresh
  <2>4. /\ IsCallRecord(call')
        /\ call'.at \in {"idle", "look", "ask", "answered"}
        /\ call'.provider \in 0 .. chain /\ call'.attempt \in 0 .. MAX_RETRIES
        /\ call'.repaired \in BOOLEAN /\ call'.usedFallback \in BOOLEAN
        /\ call'.fault \in {"none", "LLM_FAILURE", "MALFORMED_MODEL_OUTPUT"}
        /\ call'.at \in {"look", "ask"} => call'.provider > 0
    <3>1. call'.repaired \in BOOLEAN /\ call'.usedFallback \in BOOLEAN
        BY Zenon DEF Fresh
    <3>2. call'.attempt \in 0 .. MAX_RETRIES
        BY <1>1 DEF Fresh
    <3> QED  BY <3>1, <3>2 DEF Fresh
  <2>5. IsCall(call')
      BY <2>3, <2>4 DEF IsCall
  <2> QED  BY <2>5, CallInvNext
<1>4. AskInv'
    BY DEF AskInv, Calling, Fresh
<1>5. AsksWithinBudget'
    BY <1>2 DEF AsksWithinBudget, Fresh
<1> QED  BY <1>3, <1>4, <1>5 DEF BudgetInv

(* The provider in turn is given up, with what it has been asked.          *)
GivesUp(asked, fallback) ==
    /\ asked \in [1 .. chain -> Seq(Results)]
    /\ \A p \in 1 .. chain :
           /\ \A n \in 0 .. Len(asked[p]) - 1 : Counted(asked, p, n)
           /\ p <= call.provider => GivenUpAfter(asked[p], Len(asked[p]))
           /\ p > call.provider => asked[p] = <<>>
    /\ call' = FailOver(asked, fallback)

LEMMA BudgetWhenGivenUp ==
    ASSUME BudgetInv, call.provider > 0, Calling("ask"), chain' = chain,
           NEW asked, NEW fallback, GivesUp(asked, fallback)
    PROVE  BudgetInv'
<1>1. MAX_RETRIES \in Nat /\ chain \in Nat /\ call.provider \in 1 .. chain
    BY ChainAssumption DEF ChainAssumption, BudgetInv, CallInv, CallTypeOK
<1>2. CASE call.provider = chain
  <2>1. call' = [at |-> "answered", provider |-> chain, attempt |-> call.attempt,
                 repaired |-> call.repaired, asked |-> asked, value |-> fallback,
                 fault |-> FaultOf(asked[chain]), usedFallback |-> TRUE]
      BY <1>2 DEF GivesUp, FailOver, Finish, BudgetInv, CallInv, IsCallRecord
  <2>2. CallInv'
    <3>1. chain \in 0 .. chain /\ FaultOf(asked[chain]) \in {"LLM_FAILURE", "MALFORMED_MODEL_OUTPUT"}
        BY <1>1 DEF FaultOf
    <3>2. /\ call.attempt \in 0 .. MAX_RETRIES /\ call.repaired \in BOOLEAN
          /\ asked \in [1 .. chain -> Seq(Results)]
        BY DEF BudgetInv, CallInv, CallTypeOK, GivesUp
    <3>3. IsCall(call')
        BY <2>1, <3>1, <3>2 DEF IsCall, IsCallRecord
    <3> QED  BY <1>1, <3>3, CallInvNext
  <2>3. AskInv'
      BY <2>1 DEF AskInv, Calling
  <2>4. AsksWithinBudget'
      BY <1>1, <1>2, <2>1 DEF AsksWithinBudget, GivesUp, Counted
  <2> QED  BY <2>2, <2>3, <2>4 DEF BudgetInv
<1>3. CASE call.provider # chain
  <2>1. call' = [at |-> "look", provider |-> call.provider + 1, attempt |-> call.attempt,
                 repaired |-> call.repaired, asked |-> asked, value |-> call.value,
                 fault |-> call.fault, usedFallback |-> call.usedFallback]
      BY <1>3 DEF GivesUp, FailOver, BudgetInv, CallInv, IsCallRecord
  <2>2. CallInv'
    <3>1. /\ call.provider + 1 \in 0 .. chain /\ call.provider + 1 > 0
          /\ asked[call.provider + 1] = <<>>
        BY <1>1, <1>3 DEF GivesUp
    <3>2. /\ call.attempt \in 0 .. MAX_RETRIES /\ call.repaired \in BOOLEAN
          /\ asked \in [1 .. chain -> Seq(Results)]
          /\ call.fault \in {"none", "LLM_FAILURE", "MALFORMED_MODEL_OUTPUT"}
          /\ call.usedFallback \in BOOLEAN
        BY DEF BudgetInv, CallInv, CallTypeOK, GivesUp
    <3>3. IsCall(call')
        BY <2>1, <3>1, <3>2 DEF IsCall, IsCallRecord
    <3> QED  BY <1>1, <3>3, CallInvNext
  <2>3. AskInv'
      BY <2>1 DEF AskInv, Calling
  <2>4. AsksWithinBudget'
      BY <1>1, <1>3, <2>1 DEF AsksWithinBudget, GivesUp, Counted
  <2> QED  BY <2>2, <2>3, <2>4 DEF BudgetInv
<1> QED  BY <1>2, <1>3

(* The provider in turn is asked again.                                    *)
AskedAgain(x) ==
    /\ IsCallRecord(call') /\ call'.at = "ask" /\ call'.provider = call.provider
    /\ call'.attempt = call.attempt + 1 /\ call'.asked = Asked(x)
    /\ call'.repaired \in BOOLEAN
    /\ call'.repaired <=> call.repaired \/ x = "malformed"
    /\ call'.fault = call.fault /\ call'.usedFallback = call.usedFallback

LEMMA BudgetWhenRetried ==
    ASSUME BudgetInv, Calling("ask"), chain' = chain, call.attempt < MAX_RETRIES,
           NEW x \in {"malformed", "retryable"}, x = "malformed" => ~ call.repaired,
           AskedAgain(x)
    PROVE  BudgetInv'
<1> DEFINE p == call.provider
           r == call.asked[p]
<1>1. MAX_RETRIES \in Nat /\ chain \in Nat /\ x \in Results
    BY ChainAssumption DEF ChainAssumption, BudgetInv, CallInv, Results
<1>2. /\ p \in 1 .. chain /\ r \in Seq(Results)
      /\ Asked(x) \in [1 .. chain -> Seq(Results)]
      /\ Asked(x)[p] = Append(r, x)
      /\ \A q \in 1 .. chain : q # p => Asked(x)[q] = call.asked[q]
      /\ \A n \in 0 .. Len(r) : Counted(Asked(x), p, n)
    BY <1>1, AskedOnce
<1>3. /\ Len(Append(r, x)) = Len(r) + 1 /\ Append(r, x)[Len(r) + 1] = x
      /\ \A i \in 1 .. Len(r) : Append(r, x)[i] = r[i]
      /\ Len(r) \in Nat
    BY <1>1, <1>2, GivenUpOfPrefix
<1>4. /\ IsCallRecord(call') /\ call'.at = "ask" /\ call'.provider = p
      /\ call'.attempt = call.attempt + 1 /\ call'.asked = Asked(x)
      /\ call'.repaired \in BOOLEAN
      /\ call'.fault = call.fault /\ call'.usedFallback = call.usedFallback
    BY DEF AskedAgain
<1>5. CallInv'
  <2>1. /\ call.attempt + 1 \in 0 .. MAX_RETRIES /\ p \in 0 .. chain /\ p > 0
        /\ call.fault \in {"none", "LLM_FAILURE", "MALFORMED_MODEL_OUTPUT"}
        /\ call.usedFallback \in BOOLEAN
      BY <1>1, <1>2 DEF BudgetInv, CallInv, CallTypeOK
  <2>2. IsCall(call')
      BY <1>2, <1>4, <2>1 DEF IsCall
  <2> QED  BY <1>1, <2>2, CallInvNext
<1>6. AskInv'
  <2>1. /\ call.attempt = Len(r)
        /\ call.repaired <=> \E i \in 1 .. Len(r) : r[i] = "malformed"
        /\ Counted(call.asked, p, Len(r))
      BY DEF BudgetInv, AskInv
  <2>2. call'.repaired <=> \E i \in 1 .. Len(r) + 1 : Append(r, x)[i] = "malformed"
    <3>1. CASE x = "malformed"
        BY <1>3, <3>1 DEF AskedAgain
    <3>2. CASE x # "malformed"
      <4>1. (\E i \in 1 .. Len(r) + 1 : Append(r, x)[i] = "malformed")
                <=> \E i \in 1 .. Len(r) : r[i] = "malformed"
          BY <1>3, <3>2
      <4> QED  BY <2>1, <3>2, <4>1 DEF AskedAgain
    <3> QED  BY <3>1, <3>2
  <2>3. ~ GivenUpAfter(Append(r, x), Len(r) + 1)
    <3>1. Len(r) + 1 # MAX_RETRIES + 1
        BY <1>1, <1>3, <2>1
    <3>2. Append(r, x)[Len(r) + 1] # "permanent"
        BY <1>3
    <3>3. ASSUME NEW i \in 1 .. Len(r) + 1, NEW j \in 1 .. Len(r) + 1, i # j,
                 Append(r, x)[i] = "malformed", Append(r, x)[j] = "malformed"
          PROVE  FALSE
      <4>1. i \in 1 .. Len(r) \/ j \in 1 .. Len(r)
          BY <1>3, <3>3
      <4>2. call.repaired
          BY <1>3, <2>1, <3>3, <4>1
      <4>3. x = "retryable"
          BY <4>2
      <4>4. i # Len(r) + 1 /\ j # Len(r) + 1
          BY <1>3, <3>3, <4>3
      <4>5. i \in 1 .. Len(r) /\ j \in 1 .. Len(r)
        <5>1. Len(r) \in Nat /\ i \in 1 .. Len(r) + 1 /\ j \in 1 .. Len(r) + 1
            BY <1>3, <3>3
        <5> HIDE DEF r
        <5> QED  BY <4>4, <5>1
      <4> QED  BY <1>3, <2>1, <3>3, <4>5 DEF Counted, GivenUpAfter
    <3> QED  BY <3>1, <3>2, <3>3 DEF GivenUpAfter
  <2>4. Counted(Asked(x), p, Len(r) + 1)
      BY <1>2, <1>3, <2>3 DEF Counted
  <2>5. /\ call'.asked[call'.provider] = Append(r, x)
        /\ call'.attempt = Len(Append(r, x))
        /\ Counted(call'.asked, call'.provider, Len(Append(r, x)))
      BY <1>2, <1>3, <1>4, <2>1, <2>4
  <2>6. call'.repaired <=> \E i \in 1 .. Len(Append(r, x)) : Append(r, x)[i] = "malformed"
      BY <1>3, <2>2
  <2> HIDE DEF r, p
  <2> QED  BY <2>5, <2>6, Zenon DEF AskInv
<1>7. AsksWithinBudget'
  <2>1. call'.provider = p /\ call'.asked = Asked(x)
      BY <1>4
  <2> SUFFICES ASSUME NEW q \in 1 .. chain
               PROVE  /\ \A n \in 0 .. Len(Asked(x)[q]) - 1 : Counted(Asked(x), q, n)
                      /\ q < p => GivenUpAfter(Asked(x)[q], Len(Asked(x)[q]))
                      /\ q > p => Asked(x)[q] = <<>>
      BY <2>1 DEF AsksWithinBudget, Counted
  <2>2. CASE q = p
      BY <1>2, <1>3, <2>2
  <2>3. CASE q # p
    <3>1. Asked(x)[q] = call.asked[q]
        BY <1>2, <2>3
    <3> QED  BY <3>1 DEF BudgetInv, AsksWithinBudget, Counted
  <2> QED  BY <2>2, <2>3
<1> QED  BY <1>5, <1>6, <1>7 DEF BudgetInv

(* A call begins, or is over and forgotten.                                *)
LEMMA FreshWhenBegun ==
    ASSUME chain \in Nat, NEW fallback, Begin(fallback) \/ call' = NoCall
    PROVE  Fresh(call') /\ call'.provider \in {0, 1}
<1>1. CASE call' = NoCall
    BY <1>1 DEF Fresh, IsCallRecord, NoCall
<1>2. CASE Begin(fallback) /\ chain = 0
  <2>1. call' = [at |-> "answered", provider |-> 0, attempt |-> 0, repaired |-> FALSE,
                 asked |-> [p \in 1 .. chain |-> <<>>], value |-> fallback,
                 fault |-> "LLM_FAILURE", usedFallback |-> TRUE]
      BY <1>2 DEF Begin, NoCall
  <2> QED  BY <2>1 DEF Fresh, IsCallRecord
<1>3. CASE Begin(fallback) /\ chain # 0
  <2>1. call' = [at |-> "look", provider |-> 1, attempt |-> 0, repaired |-> FALSE,
                 asked |-> [p \in 1 .. chain |-> <<>>], value |-> NoValue,
                 fault |-> "none", usedFallback |-> FALSE]
      BY <1>3 DEF Begin, NoCall
  <2> QED  BY <1>3, <2>1 DEF Fresh, IsCallRecord
<1> QED  BY <1>1, <1>2, <1>3

LEMMA BudgetWhenBegun ==
    ASSUME BudgetInv, chain' = chain, NEW fallback, Begin(fallback) \/ call' = NoCall
    PROVE  BudgetInv'
BY FreshWhenBegun, BudgetWhenFresh DEF BudgetInv, CallInv

LEMMA BudgetWhenCacheHit ==
    ASSUME BudgetInv, chain' = chain, CacheHit
    PROVE  BudgetInv'
<1>1. call' = [at |-> "answered", provider |-> call.provider, attempt |-> call.attempt,
               repaired |-> call.repaired, asked |-> call.asked, value |-> Stored,
               fault |-> call.fault, usedFallback |-> call.usedFallback]
    BY DEF CacheHit, BudgetInv, CallInv, IsCallRecord
<1>2. CallInv'
  <2>1. IsCall(call')
      BY <1>1 DEF BudgetInv, CallInv, CallTypeOK, IsCall, IsCallRecord
  <2> QED  BY <2>1, CallInvNext DEF BudgetInv, CallInv
<1>3. AskInv'
    BY <1>1 DEF AskInv, Calling
<1>4. AsksWithinBudget'
    BY <1>1 DEF BudgetInv, AsksWithinBudget
<1> QED  BY <1>2, <1>3, <1>4 DEF BudgetInv

LEMMA BudgetWhenCacheMiss ==
    ASSUME BudgetInv, chain' = chain, CacheMiss
    PROVE  BudgetInv'
<1>1. call' = [at |-> "ask", provider |-> call.provider, attempt |-> 0,
               repaired |-> FALSE, asked |-> call.asked, value |-> call.value,
               fault |-> call.fault, usedFallback |-> call.usedFallback]
    BY DEF CacheMiss, BudgetInv, CallInv, IsCallRecord
<1>2. MAX_RETRIES \in Nat /\ call.provider > 0 /\ call.asked[call.provider] = <<>>
    BY ChainAssumption DEF ChainAssumption, CacheMiss, BudgetInv, CallInv
<1>3. CallInv'
  <2>1. IsCall(call')
      BY <1>1, <1>2 DEF BudgetInv, CallInv, CallTypeOK, IsCall, IsCallRecord
  <2> QED  BY <2>1, CallInvNext DEF BudgetInv, CallInv
<1>4. AskInv'
  <2>1. ~ GivenUpAfter(<<>>, 0)
      BY <1>2 DEF GivenUpAfter
  <2>2. Counted(call.asked, call.provider, 0)
      BY <1>2, <2>1 DEF Counted
  <2>3. /\ call'.asked[call'.provider] = <<>> /\ call'.attempt = 0 /\ call'.repaired = FALSE
        /\ call'.asked = call.asked /\ call'.provider = call.provider
      BY <1>1, <1>2
  <2>4. Len(<<>>) = 0 /\ 1 .. 0 = {}
      OBVIOUS
  <2> QED  BY <2>2, <2>3, <2>4, Zenon DEF AskInv
<1>5. AsksWithinBudget'
    BY <1>1 DEF BudgetInv, AsksWithinBudget
<1> QED  BY <1>3, <1>4, <1>5 DEF BudgetInv

LEMMA BudgetWhenAnswered ==
    ASSUME BudgetInv, chain' = chain, NEW value, Answer(value)
    PROVE  BudgetInv'
<1> DEFINE p == call.provider
           r == call.asked[p]
<1>1. call' = [at |-> "answered", provider |-> call.provider, attempt |-> call.attempt,
               repaired |-> call.repaired, asked |-> Asked("valid"), value |-> value,
               fault |-> call.fault, usedFallback |-> call.usedFallback]
    BY DEF Answer, BudgetInv, CallInv, IsCallRecord
<1>2. /\ p \in 1 .. chain /\ r \in Seq(Results)
      /\ Asked("valid") \in [1 .. chain -> Seq(Results)]
      /\ Asked("valid")[p] = Append(r, "valid")
      /\ \A q \in 1 .. chain : q # p => Asked("valid")[q] = call.asked[q]
      /\ \A n \in 0 .. Len(r) : Counted(Asked("valid"), p, n)
    BY AskedOnce DEF Answer, Results
<1>3. Len(Append(r, "valid")) = Len(r) + 1 /\ Len(r) \in Nat
    BY <1>2
<1>4. CallInv'
  <2>1. IsCall(call')
      BY <1>1, <1>2 DEF BudgetInv, CallInv, CallTypeOK, IsCall, IsCallRecord
  <2> QED  BY <2>1, CallInvNext DEF BudgetInv, CallInv
<1>5. AskInv'
    BY <1>1 DEF AskInv, Calling
<1>6. AsksWithinBudget'
  <2>1. call'.provider = p /\ call'.asked = Asked("valid")
      BY <1>1
  <2> SUFFICES ASSUME NEW q \in 1 .. chain
               PROVE  /\ \A n \in 0 .. Len(Asked("valid")[q]) - 1 : Counted(Asked("valid"), q, n)
                      /\ q < p => GivenUpAfter(Asked("valid")[q], Len(Asked("valid")[q]))
                      /\ q > p => Asked("valid")[q] = <<>>
      BY <2>1 DEF AsksWithinBudget, Counted
  <2>2. CASE q = p
      BY <1>2, <1>3, <2>2
  <2>3. CASE q # p
    <3>1. Asked("valid")[q] = call.asked[q]
        BY <1>2, <2>3
    <3> QED  BY <3>1 DEF BudgetInv, AsksWithinBudget, Counted
  <2> QED  BY <2>2, <2>3
<1> QED  BY <1>4, <1>5, <1>6 DEF BudgetInv

(* One more failure of the provider in turn is one too many.               *)
LEMMA GivesUpWhenSpent ==
    ASSUME BudgetInv, Calling("ask"), chain' = chain, NEW x \in Results,
           \/ x = "permanent"
           \/ call.attempt = MAX_RETRIES
           \/ x = "malformed" /\ call.repaired,
           NEW fallback, call' = FailOver(Asked(x), fallback)
    PROVE  GivesUp(Asked(x), fallback)
<1> DEFINE p == call.provider
           r == call.asked[p]
<1>1. /\ p \in 1 .. chain /\ r \in Seq(Results)
      /\ Asked(x) \in [1 .. chain -> Seq(Results)]
      /\ Asked(x)[p] = Append(r, x)
      /\ \A q \in 1 .. chain : q # p => Asked(x)[q] = call.asked[q]
      /\ \A n \in 0 .. Len(r) : Counted(Asked(x), p, n)
    BY AskedOnce
<1>2. /\ Len(Append(r, x)) = Len(r) + 1 /\ Append(r, x)[Len(r) + 1] = x
      /\ \A i \in 1 .. Len(r) : Append(r, x)[i] = r[i]
      /\ Len(r) \in Nat
    BY <1>1, GivenUpOfPrefix
<1>3. /\ call.attempt = Len(r)
      /\ call.repaired <=> \E i \in 1 .. Len(r) : r[i] = "malformed"
    BY DEF BudgetInv, AskInv
<1>4. GivenUpAfter(Append(r, x), Len(r) + 1)
  <2>1. CASE x = "permanent"
      BY <1>2, <2>1 DEF GivenUpAfter
  <2>2. CASE call.attempt = MAX_RETRIES
      BY <1>3, <2>2 DEF GivenUpAfter
  <2>3. CASE x = "malformed" /\ call.repaired
    <3>1. PICK i \in 1 .. Len(r) : r[i] = "malformed"
        BY <1>3, <2>3
    <3>2. /\ i \in 1 .. Len(r) + 1 /\ Len(r) + 1 \in 1 .. Len(r) + 1 /\ i # Len(r) + 1
          /\ Append(r, x)[i] = "malformed"
        BY <1>2, <3>1
    <3> QED  BY <1>2, <2>3, <3>2 DEF GivenUpAfter
  <2> QED  BY <2>1, <2>2, <2>3
<1>5. ASSUME NEW q \in 1 .. chain
      PROVE  /\ \A n \in 0 .. Len(Asked(x)[q]) - 1 : Counted(Asked(x), q, n)
             /\ q <= p => GivenUpAfter(Asked(x)[q], Len(Asked(x)[q]))
             /\ q > p => Asked(x)[q] = <<>>
  <2>1. CASE q = p
    <3>1. Len(Asked(x)[q]) = Len(r) + 1 /\ ~ q > p
        BY <1>1, <1>2, <2>1
    <3>2. 0 .. Len(Asked(x)[q]) - 1 = 0 .. Len(r)
        BY <1>2, <3>1
    <3>3. \A n \in 0 .. Len(Asked(x)[q]) - 1 : Counted(Asked(x), q, n)
        BY <1>1, <2>1, <3>2
    <3>4. GivenUpAfter(Asked(x)[q], Len(Asked(x)[q]))
        BY <1>1, <1>2, <1>4, <2>1
    <3> QED  BY <3>1, <3>3, <3>4
  <2>2. CASE q # p
    <3>1. Asked(x)[q] = call.asked[q]
        BY <1>1, <2>2
    <3>2. q <= p => q < p
        BY <1>1, <2>2
    <3> QED  BY <3>1, <3>2 DEF BudgetInv, AsksWithinBudget, Counted
  <2> QED  BY <2>1, <2>2
<1> QED  BY <1>1, <1>5 DEF GivesUp

(* The next attempt, when there is one.                                    *)
LEMMA AgainWhenLeft ==
    ASSUME BudgetInv, Calling("ask"), NEW x \in Results, NEW fallback,
           call.attempt < MAX_RETRIES,
           \/ x = "malformed" /\ call' = NextAttempt(Asked(x), TRUE, fallback)
           \/ x # "malformed" /\ call' = NextAttempt(Asked(x), call.repaired, fallback)
    PROVE  AskedAgain(x)
<1>1. CASE x = "malformed"
  <2>1. call' = [at |-> "ask", provider |-> call.provider, attempt |-> call.attempt + 1,
                 repaired |-> TRUE, asked |-> Asked(x), value |-> call.value,
                 fault |-> call.fault, usedFallback |-> call.usedFallback]
      BY <1>1 DEF NextAttempt, BudgetInv, CallInv, IsCallRecord, Calling
  <2> QED  BY <1>1, <2>1 DEF AskedAgain, IsCallRecord
<1>2. CASE x # "malformed"
  <2>1. call' = [at |-> "ask", provider |-> call.provider, attempt |-> call.attempt + 1,
                 repaired |-> call.repaired, asked |-> Asked(x), value |-> call.value,
                 fault |-> call.fault, usedFallback |-> call.usedFallback]
      BY <1>2 DEF NextAttempt, BudgetInv, CallInv, IsCallRecord, Calling
  <2>2. call.repaired \in BOOLEAN
      BY DEF BudgetInv, CallInv, CallTypeOK
  <2> QED  BY <1>2, <2>1, <2>2 DEF AskedAgain, IsCallRecord
<1> QED  BY <1>1, <1>2

LEMMA BudgetWhenFailed ==
    ASSUME BudgetInv, chain' = chain, NEW fallback,
           Malformed(fallback) \/ Permanent(fallback) \/ Retryable(fallback)
    PROVE  BudgetInv'
<1>1. /\ call.provider > 0 /\ Calling("ask") /\ MAX_RETRIES \in Nat
      /\ call.attempt \in 0 .. MAX_RETRIES
    BY ChainAssumption DEF ChainAssumption, Malformed, Permanent, Retryable, BudgetInv,
       CallInv, CallTypeOK
<1>2. call.attempt < MAX_RETRIES \/ call.attempt = MAX_RETRIES
    BY <1>1
<1>3. CASE Permanent(fallback)
  <2>1. GivesUp(Asked("permanent"), fallback)
      BY <1>1, <1>3, GivesUpWhenSpent DEF Permanent, Results
  <2> QED  BY <1>1, <2>1, BudgetWhenGivenUp
<1>4. CASE Malformed(fallback)
  <2>1. CASE call.repaired
    <3>1. GivesUp(Asked("malformed"), fallback)
        BY <1>1, <1>4, <2>1, GivesUpWhenSpent DEF Malformed, Results
    <3> QED  BY <1>1, <3>1, BudgetWhenGivenUp
  <2>2. CASE ~ call.repaired /\ call.attempt = MAX_RETRIES
    <3>1. call' = FailOver(Asked("malformed"), fallback)
        BY <1>1, <1>4, <2>2 DEF Malformed, NextAttempt
    <3>2. GivesUp(Asked("malformed"), fallback)
        BY <1>1, <2>2, <3>1, GivesUpWhenSpent DEF Results
    <3> QED  BY <1>1, <3>2, BudgetWhenGivenUp
  <2>3. CASE ~ call.repaired /\ call.attempt < MAX_RETRIES
    <3>1. call' = NextAttempt(Asked("malformed"), TRUE, fallback)
        BY <1>4, <2>3 DEF Malformed
    <3>2. AskedAgain("malformed")
        BY <1>1, <2>3, <3>1, AgainWhenLeft DEF Results
    <3> QED  BY <1>1, <2>3, <3>2, BudgetWhenRetried
  <2> QED  BY <1>2, <2>1, <2>2, <2>3
<1>5. CASE Retryable(fallback)
  <2>1. CASE call.attempt = MAX_RETRIES
    <3>1. call' = FailOver(Asked("retryable"), fallback)
        BY <1>1, <1>5, <2>1 DEF Retryable, NextAttempt
    <3>2. GivesUp(Asked("retryable"), fallback)
        BY <1>1, <2>1, <3>1, GivesUpWhenSpent DEF Results
    <3> QED  BY <1>1, <3>2, BudgetWhenGivenUp
  <2>2. CASE call.attempt < MAX_RETRIES
    <3>1. AskedAgain("retryable")
        BY <1>1, <1>5, <2>2, AgainWhenLeft DEF Retryable, Results
    <3> QED  BY <1>1, <2>2, <3>1, BudgetWhenRetried
  <2> QED  BY <1>2, <2>1, <2>2
<1> QED  BY <1>3, <1>4, <1>5

LEMMA BudgetUnchanged ==
    ASSUME BudgetInv, chain' = chain, call' = call
    PROVE  BudgetInv'
BY DEF BudgetInv, CallInv, CallTypeOK, AskInv, AsksWithinBudget, Calling

LEMMA BudgetNext ==
    ASSUME BudgetInv, [Next]_vars
    PROVE  BudgetInv'
<1>1. chain' = chain
    BY DEF Next, vars, llmVars, Generate, AskForDraft, Ask, CallStep, NextDraft, Serve, Halt,
       Submit, ExecuteCase, ExecuteWhole, Run, Grade, AnalyzeMisconception, GoOn
<1>2. CASE Generate \/ NextDraft
  <2>1. \E n : Begin(Template(n))
      BY <1>2 DEF Generate, NextDraft, AskForDraft
  <2> QED  BY <1>1, <2>1, BudgetWhenBegun
<1>3. CASE Serve \/ Halt
  <2>1. call' = NoCall
      BY <1>3 DEF Serve, Halt
  <2> QED  BY <1>1, <2>1, BudgetWhenBegun
<1>4. CASE Ask
  <2>1. CallStep(Template(draft))
      BY <1>4 DEF Ask
  <2>2. CASE CacheHit
      BY <1>1, <2>2, BudgetWhenCacheHit
  <2>3. CASE CacheMiss
      BY <1>1, <2>3, BudgetWhenCacheMiss
  <2>4. ASSUME NEW value, Answer(value)
        PROVE  BudgetInv'
      BY <1>1, <2>4, BudgetWhenAnswered
  <2>5. CASE \/ Malformed(Template(draft)) \/ Permanent(Template(draft))
             \/ Retryable(Template(draft))
      BY <1>1, <2>5, BudgetWhenFailed
  <2> QED  BY <2>1, <2>2, <2>3, <2>4, <2>5 DEF CallStep
<1>5. CASE \/ Submit \/ ExecuteCase \/ ExecuteWhole \/ Grade \/ AnalyzeMisconception \/ GoOn
           \/ UNCHANGED vars
  <2>1. call' = call
      BY <1>5 DEF vars, llmVars, Submit, ExecuteCase, ExecuteWhole, Run, Grade,
         AnalyzeMisconception, GoOn
  <2> QED  BY <1>1, <2>1, BudgetUnchanged
<1> QED  BY <1>2, <1>3, <1>4, <1>5 DEF Next

LEMMA BudgetInit == Init => BudgetInv
<1> SUFFICES ASSUME Init
             PROVE  BudgetInv
    OBVIOUS
<1>1. chain \in Nat /\ MAX_RETRIES \in Nat /\ call = NoCall
    BY ChainAssumption DEF ChainAssumption, Init, LLMInit
<1>2. CallInv
  <2>1. [p \in 1 .. chain |-> <<>>] \in [1 .. chain -> Seq(Results)]
      OBVIOUS
  <2>2. call.asked \in [1 .. chain -> Seq(Results)]
      BY <1>1, <2>1 DEF NoCall
  <2> QED  BY <1>1, <2>2 DEF CallInv, CallTypeOK, IsCallRecord, Calling, NoCall
<1>3. AskInv
    BY <1>1 DEF AskInv, Calling, NoCall
<1>4. AsksWithinBudget
  <2>1. \A p \in 1 .. chain : call.asked[p] = <<>>
      BY <1>1 DEF NoCall
  <2>2. call.provider = 0
      BY <1>1 DEF NoCall
  <2> QED  BY <2>1, <2>2 DEF AsksWithinBudget
<1> QED  BY <1>2, <1>3, <1>4 DEF BudgetInv

(* A provider that keeps failing costs its attempts and no more, and the   *)
(* providers are asked in order, for every chain and every mixture of      *)
(* failures (call_structured).                                             *)
THEOREM AsksWithinBudgetAlways == Spec => []AsksWithinBudget
<1>1. Init => BudgetInv
    BY BudgetInit
<1>2. BudgetInv /\ [Next]_vars => BudgetInv'
    BY BudgetNext
<1>3. BudgetInv => AsksWithinBudget
    BY DEF BudgetInv
<1> QED  BY <1>1, <1>2, <1>3, PTL DEF Spec

-----------------------------------------------------------------------------
(* Where an exercise comes from.                                           *)

LEMMA TemplateIs ==
    ASSUME variants \in Nat, NEW n \in Nat
    PROVE  /\ Template(n) \in Problems
           /\ Template(n).key[1] # "model"
           /\ IsUsable(Template(n)) <=> language = "PYTHON" /\ variants # 0
<1>1. TheOutput \in Outputs /\ TheOutput # Blank
    BY OutputAssumption DEF OutputAssumption, TheOutput
<1>2. <<>> \in Seq(Cases)
    OBVIOUS
<1>3. CASE language # "PYTHON"
  <2>1. Template(n) = [key |-> <<"unavailable", 0>>, expected |-> Blank, cases |-> <<>>]
      BY <1>3 DEF Template, NoProblem
  <2>2. <<"unavailable", 0>> \in Origins \X Nat
      BY DEF Origins
  <2> QED  BY <1>2, <1>3, <2>1, <2>2 DEF Problems, Origins, IsUsable
<1>4. CASE language = "PYTHON" /\ variants = 0
  <2>1. Template(n) = [key |-> <<"demand", 0>>, expected |-> Blank, cases |-> <<>>]
      BY <1>4 DEF Template, NoProblem
  <2>2. <<"demand", 0>> \in Origins \X Nat
      BY DEF Origins
  <2> QED  BY <1>2, <1>4, <2>1, <2>2 DEF Problems, Origins, IsUsable
<1>5. CASE language = "PYTHON" /\ variants # 0
  <2>1. Template(n) = [key |-> <<"task", n % variants>>, expected |-> TheOutput,
                       cases |-> <<DefaultCase(TheOutput)>>]
      BY <1>5 DEF Template
  <2>2. DefaultCase(TheOutput) \in Cases
      BY <1>1 DEF DefaultCase, Cases, Fields
  <2>3. <<DefaultCase(TheOutput)>> \in Seq(Cases)
      BY <2>2
  <2>4. n % variants \in Nat
      BY <1>5
  <2>5. <<"task", n % variants>> \in Origins \X Nat
      BY <2>4 DEF Origins
  <2> QED  BY <1>1, <1>5, <2>1, <2>3, <2>5 DEF Problems, Origins, IsUsable
<1> QED  BY <1>3, <1>4, <1>5

LEMMA TemplateIsOurs ==
    ASSUME variants \in Nat, NEW n \in Nat
    PROVE  Template(n) \notin Values
BY TemplateIs, DraftAssumption DEF DraftAssumption

LEMMA TemplateKept ==
    ASSUME rungVars' = rungVars, NEW n
    PROVE  Template(n)' = Template(n)
BY DEF Template, rungVars

(* A call and its value, where the exercise on the page comes from, and    *)
(* what the drafts before this one were.                                   *)
IsAnswered(c) ==
    IF c.usedFallback
    THEN c.value = Template(draft) /\ c.fault # "none"
    ELSE c.value \in Values /\ c.fault = "none"

ValueInv ==
    /\ variants \in Variants /\ draft \in 0 .. DRAFTS - 1 /\ served \in 0 .. MaxServed
    /\ problem \in Problems /\ degraded \in BOOLEAN /\ halted \in BOOLEAN
    /\ chain \in Chain /\ cached \in {CacheOff} \cup [1 .. chain -> Values \cup {NoValue}]
    /\ pc \in {"pose", "ask", "await", "run", "graded", "analysed"}
    /\ pc = "ask" => served < MaxServed
    /\ pc # "ask" <=> Calling("idle")
    /\ ~ Calling("answered") => ~ call.usedFallback /\ call.fault = "none"
    /\ Calling("answered") => IsAnswered(call)
    /\ pc \in {"await", "run", "graded", "analysed"} /\ ~ halted =>
           (degraded <=> problem \notin Values)

DraftsInv ==
    chain = 0 /\ pc = "ask" =>
        /\ Calling("answered") /\ call.usedFallback
        /\ \A n \in 0 .. draft - 1 : IsUsable(Template(n)) => Template(n).key \in seen

ExInv == BudgetInv /\ ValueInv /\ DraftsInv

LEMMA ValueUnchanged ==
    ASSUME ValueInv, UNCHANGED <<llmVars, rungVars, draft, posedVars>>,
           pc' \in {"await", "run", "graded", "analysed"},
           pc \in {"await", "run", "graded", "analysed"}
    PROVE  ValueInv' /\ DraftsInv'
<1>1. ~ Calling("answered") /\ call.at = "idle"
    BY DEF ValueInv, Calling
<1> QED  BY <1>1 DEF ValueInv, DraftsInv, Calling, llmVars, rungVars, posedVars

LEMMA ValueWhenAsking ==
    ASSUME ExInv, NEW n \in 0 .. DRAFTS - 1, AskForDraft(n), served < MaxServed,
           cached' \in {CacheOff} \cup [1 .. chain -> Values \cup {NoValue}],
           chain = 0 => \A m \in 0 .. n - 1 : IsUsable(Template(m)) => Template(m).key \in seen
    PROVE  ValueInv' /\ DraftsInv'
<1>1. /\ draft' = n /\ pc' = "ask" /\ UNCHANGED <<chain, rungVars, posedVars>>
      /\ Begin(Template(n))
    BY DEF AskForDraft
<1>2. \A m : Template(m)' = Template(m)
    BY <1>1, TemplateKept
<1>3. CASE chain = 0
  <2>1. call' = [at |-> "answered", provider |-> 0, attempt |-> 0, repaired |-> FALSE,
                 asked |-> [p \in 1 .. chain |-> <<>>], value |-> Template(n),
                 fault |-> "LLM_FAILURE", usedFallback |-> TRUE]
      BY <1>1, <1>3 DEF Begin, NoCall
  <2>2. call'.at = "answered" /\ call'.usedFallback /\ call'.value = Template(n)'
        /\ call'.fault # "none"
      BY <1>2, <2>1
  <2>3. IsAnswered(call)'
      BY <1>1, <2>2 DEF IsAnswered
  <2>4. ValueInv'
      BY <1>1, <2>2, <2>3 DEF ExInv, ValueInv, Calling, rungVars, posedVars
  <2>5. DraftsInv'
      BY <1>1, <1>2, <1>3, <2>2 DEF DraftsInv, Calling, posedVars
  <2> QED  BY <2>4, <2>5
<1>4. CASE chain # 0
  <2>1. call' = [at |-> "look", provider |-> 1, attempt |-> 0, repaired |-> FALSE,
                 asked |-> [p \in 1 .. chain |-> <<>>], value |-> NoValue,
                 fault |-> "none", usedFallback |-> FALSE]
      BY <1>1, <1>4 DEF Begin, NoCall
  <2>2. call'.at = "look" /\ ~ call'.usedFallback /\ call'.fault = "none"
      BY <2>1
  <2>3. ValueInv'
      BY <1>1, <2>2 DEF ExInv, ValueInv, Calling, rungVars, posedVars
  <2>4. DraftsInv'
      BY <1>1, <1>4 DEF DraftsInv
  <2> QED  BY <2>3, <2>4
<1> QED  BY <1>3, <1>4

LEMMA NewRequestIs ==
    ASSUME NEW caching
    PROVE  NewRequest(caching) \in {CacheOff} \cup [1 .. chain -> Values \cup {NoValue}]
BY DEF NewRequest

LEMMA ValueWhenGenerate ==
    ASSUME ExInv, Generate
    PROVE  ValueInv' /\ DraftsInv'
<1>1. 0 \in 0 .. DRAFTS - 1 /\ 0 .. 0 - 1 = {}
    BY DEF DRAFTS
<1> QED  BY <1>1, NewRequestIs, ValueWhenAsking DEF Generate

LEMMA ValueWhenNextDraft ==
    ASSUME ExInv, NextDraft
    PROVE  ValueInv' /\ DraftsInv'
<1>1. draft \in Nat /\ draft + 1 \in 0 .. DRAFTS - 1 /\ served < MaxServed
    BY DEF NextDraft, LoopEnds, ExInv, ValueInv, DRAFTS
<1>2. cached' \in {CacheOff} \cup [1 .. chain -> Values \cup {NoValue}]
    BY DEF NextDraft, ExInv, ValueInv
<1>3. ASSUME chain = 0, NEW m \in 0 .. draft + 1 - 1, IsUsable(Template(m))
      PROVE  Template(m).key \in seen
  <2>1. CASE m \in 0 .. draft - 1
      BY <1>3, <2>1 DEF NextDraft, ExInv, DraftsInv
  <2>2. CASE m = draft
    <3>1. call.value = Template(draft)
        BY <1>3 DEF NextDraft, ExInv, DraftsInv, ValueInv, IsAnswered
    <3> QED  BY <1>3, <2>2, <3>1 DEF NextDraft, LoopEnds, Wanted, Draft
  <2> QED  BY <1>1, <1>3, <2>1, <2>2
<1> QED  BY <1>1, <1>2, <1>3, ValueWhenAsking DEF NextDraft

(* What is served, and where it comes from.                                *)
LEMMA ChosenIs ==
    ASSUME ExInv, pc = "ask", Calling("answered"), Values \subseteq Problems
    PROVE  /\ Chosen.problem \in Problems
           /\ Chosen.degraded \in BOOLEAN
           /\ Chosen.degraded <=> Chosen.problem \notin Values
<1>1. draft \in Nat /\ variants \in Nat
    BY ExerciseAssumption DEF ExerciseAssumption, ExInv, ValueInv, DRAFTS
<1>2. Template(draft) \in Problems \ Values
    BY <1>1, TemplateIs, TemplateIsOurs
<1>3. CASE ~ Wanted /\ ~ Offline /\ ~ IsUsable(Draft)
  <2>1. Chosen = [problem |-> Template(draft), degraded |-> TRUE]
      BY <1>3 DEF Chosen
  <2> QED  BY <1>2, <2>1
<1>4. CASE ~ (~ Wanted /\ ~ Offline /\ ~ IsUsable(Draft))
  <2>1. Chosen = [problem |-> call.value, degraded |-> call.usedFallback]
      BY <1>4 DEF Chosen, Draft
  <2>2. call.usedFallback \in BOOLEAN
      BY DEF ExInv, BudgetInv, CallInv, CallTypeOK
  <2>3. CASE call.usedFallback
    <3>1. call.value = Template(draft)
        BY <2>3 DEF ExInv, ValueInv, IsAnswered
    <3> QED  BY <1>2, <2>1, <2>3, <3>1
  <2>4. CASE ~ call.usedFallback
    <3>1. call.value \in Values
        BY <2>4 DEF ExInv, ValueInv, IsAnswered
    <3> QED  BY <2>1, <2>2, <2>4, <3>1
  <2> QED  BY <2>3, <2>4
<1> QED  BY <1>3, <1>4

LEMMA ValueWhenPosed ==
    ASSUME ExInv, Serve \/ Halt
    PROVE  ValueInv' /\ DraftsInv'
<1>1. /\ pc = "ask" /\ Calling("answered") /\ pc' = "await" /\ call' = NoCall
      /\ UNCHANGED <<chain, cached, rungVars, draft>>
    BY DEF Serve, Halt
<1>2. call'.at = "idle" /\ ~ call'.usedFallback /\ call'.fault = "none"
    BY <1>1 DEF NoCall
<1>3. DraftsInv'
    BY <1>1 DEF DraftsInv
<1>4. Values \subseteq Problems
    BY DraftAssumption DEF DraftAssumption
<1>5. CASE Serve
  <2>1. problem' = Chosen.problem /\ degraded' = Chosen.degraded /\ served' = served + 1
        /\ halted' = halted
      BY <1>5 DEF Serve
  <2>2. served' \in 0 .. MaxServed
      BY <1>1, <2>1, ExerciseAssumption DEF ExerciseAssumption, ExInv, ValueInv
  <2>3. /\ problem' \in Problems /\ degraded' \in BOOLEAN
        /\ degraded' <=> problem' \notin Values
      BY <1>1, <1>4, <2>1, ChosenIs
  <2> QED  BY <1>1, <1>2, <1>3, <2>1, <2>2, <2>3 DEF ExInv, ValueInv, Calling, rungVars
<1>6. CASE Halt
  <2>1. problem' = NoProblem /\ degraded' = FALSE /\ halted' = TRUE /\ served' = served
      BY <1>6 DEF Halt
  <2>2. NoProblem \in Problems
    <3>1. <<"none", 0>> \in Origins \X Nat /\ <<>> \in Seq(Cases)
        BY DEF Origins
    <3> QED  BY <3>1 DEF NoProblem, Problems
  <2> QED  BY <1>1, <1>2, <1>3, <2>1, <2>2 DEF ExInv, ValueInv, Calling, rungVars
<1> QED  BY <1>5, <1>6

-----------------------------------------------------------------------------
(* A step of the call.                                                     *)

LEMMA ValueWhenCallGoesOn ==
    ASSUME ExInv, pc = "ask", UNCHANGED <<pc, chain, cached, exerciseVars>>, chain # 0,
           call'.at \in {"look", "ask"}, ~ Calling("answered"),
           call'.usedFallback = call.usedFallback, call'.fault = call.fault
    PROVE  ValueInv' /\ DraftsInv'
<1>1. ~ call'.usedFallback /\ call'.fault = "none"
    BY DEF ExInv, ValueInv
<1> QED  BY <1>1 DEF ExInv, ValueInv, DraftsInv, Calling, exerciseVars, rungVars, posedVars

LEMMA ValueWhenCallEnds ==
    ASSUME ExInv, pc = "ask", UNCHANGED <<pc, chain, exerciseVars>>, chain # 0,
           cached' \in {CacheOff} \cup [1 .. chain -> Values \cup {NoValue}],
           call'.at = "answered",
           \/ ~ call'.usedFallback /\ call'.fault = "none" /\ call'.value \in Values
           \/ call'.usedFallback /\ call'.fault # "none" /\ call'.value = Template(draft)
    PROVE  ValueInv' /\ DraftsInv'
<1>1. Template(draft)' = Template(draft)
    BY DEF Template, exerciseVars, rungVars
<1>2. IsAnswered(call)'
    BY <1>1 DEF IsAnswered
<1> QED  BY <1>2 DEF ExInv, ValueInv, DraftsInv, Calling, exerciseVars, rungVars, posedVars

LEMMA ValueWhenFailOver ==
    ASSUME ExInv, pc = "ask", UNCHANGED <<pc, chain, cached, exerciseVars>>, chain # 0,
           Calling("ask"), NEW asked, call' = FailOver(asked, Template(draft))
    PROVE  ValueInv' /\ DraftsInv'
<1>1. CASE call.provider = chain
  <2>1. call' = [at |-> "answered", provider |-> call.provider, attempt |-> call.attempt,
                 repaired |-> call.repaired, asked |-> asked, value |-> Template(draft),
                 fault |-> FaultOf(asked[call.provider]), usedFallback |-> TRUE]
      BY <1>1 DEF FailOver, Finish, ExInv, BudgetInv, CallInv, IsCallRecord
  <2>2. FaultOf(asked[call.provider]) # "none"
      BY DEF FaultOf
  <2>3. call'.at = "answered" /\ call'.usedFallback /\ call'.fault # "none"
        /\ call'.value = Template(draft)
      BY <2>1, <2>2
  <2>4. cached' \in {CacheOff} \cup [1 .. chain -> Values \cup {NoValue}]
      BY DEF ExInv, ValueInv
  <2> QED  BY <2>3, <2>4, ValueWhenCallEnds
<1>2. CASE call.provider # chain
  <2>1. call' = [at |-> "look", provider |-> call.provider + 1, attempt |-> call.attempt,
                 repaired |-> call.repaired, asked |-> asked, value |-> call.value,
                 fault |-> call.fault, usedFallback |-> call.usedFallback]
      BY <1>2 DEF FailOver, ExInv, BudgetInv, CallInv, IsCallRecord
  <2>2. call'.at = "look" /\ call'.fault = call.fault
      BY <2>1
  <2>3. call'.usedFallback = call.usedFallback
      BY <2>1
  <2>4. ~ Calling("answered")
      BY DEF Calling
  <2> QED  BY <2>2, <2>3, <2>4, ValueWhenCallGoesOn
<1> QED  BY <1>1, <1>2

LEMMA ValueWhenAgain ==
    ASSUME ExInv, pc = "ask", UNCHANGED <<pc, chain, cached, exerciseVars>>, chain # 0,
           Calling("ask"), NEW asked, NEW repaired,
           call' = NextAttempt(asked, repaired, Template(draft))
    PROVE  ValueInv' /\ DraftsInv'
<1>1. CASE call.attempt < MAX_RETRIES
  <2>1. call' = [at |-> call.at, provider |-> call.provider, attempt |-> call.attempt + 1,
                 repaired |-> repaired, asked |-> asked, value |-> call.value,
                 fault |-> call.fault, usedFallback |-> call.usedFallback]
      BY <1>1 DEF NextAttempt, ExInv, BudgetInv, CallInv, IsCallRecord
  <2>2. call'.at = "ask" /\ call'.fault = call.fault
      BY <2>1 DEF Calling
  <2>3. call'.usedFallback = call.usedFallback
      BY <2>1
  <2>4. ~ Calling("answered")
      BY DEF Calling
  <2> QED  BY <2>2, <2>3, <2>4, ValueWhenCallGoesOn
<1>2. CASE ~ call.attempt < MAX_RETRIES
    BY <1>2, ValueWhenFailOver DEF NextAttempt
<1> QED  BY <1>1, <1>2

LEMMA ValueWhenAsked ==
    ASSUME ExInv, Ask
    PROVE  ValueInv' /\ DraftsInv'
<1>1. /\ pc = "ask" /\ CallStep(Template(draft)) /\ UNCHANGED <<pc, exerciseVars>>
      /\ UNCHANGED chain
    BY DEF Ask, CallStep
<1>2. /\ chain # 0 /\ call.provider \in 1 .. chain
      /\ ~ Calling("answered") /\ ~ call.usedFallback /\ call.fault = "none"
  <2>1. Calling("look") \/ Calling("ask")
      BY <1>1 DEF CallStep, CacheHit, CacheMiss, Answer, Malformed, Permanent, Retryable
  <2>2. call.provider \in 1 .. chain
      BY <2>1 DEF ExInv, BudgetInv, CallInv, CallTypeOK
  <2>3. ~ Calling("answered")
      BY <2>1 DEF Calling
  <2> QED  BY <2>2, <2>3 DEF ExInv, ValueInv, BudgetInv, CallInv
<1>3. CASE CacheHit
  <2>1. call' = [at |-> "answered", provider |-> call.provider, attempt |-> call.attempt,
                 repaired |-> call.repaired, asked |-> call.asked, value |-> Stored,
                 fault |-> call.fault, usedFallback |-> call.usedFallback]
      BY <1>3 DEF CacheHit, ExInv, BudgetInv, CallInv, IsCallRecord
  <2>2. Stored \in Values
      BY <1>2, <1>3 DEF CacheHit, Stored, ExInv, ValueInv
  <2>3. call'.at = "answered" /\ ~ call'.usedFallback /\ call'.fault = "none"
        /\ call'.value \in Values
      BY <1>2, <2>1, <2>2
  <2>4. cached' \in {CacheOff} \cup [1 .. chain -> Values \cup {NoValue}]
      BY <1>3 DEF CacheHit, ExInv, ValueInv
  <2> QED  BY <1>1, <1>2, <2>3, <2>4, ValueWhenCallEnds
<1>4. CASE CacheMiss
  <2>1. call' = [at |-> "ask", provider |-> call.provider, attempt |-> 0,
                 repaired |-> FALSE, asked |-> call.asked, value |-> call.value,
                 fault |-> call.fault, usedFallback |-> call.usedFallback]
      BY <1>4 DEF CacheMiss, ExInv, BudgetInv, CallInv, IsCallRecord
  <2>2. call'.at = "ask" /\ call'.fault = call.fault
      BY <2>1
  <2>3. call'.usedFallback = call.usedFallback
      BY <2>1
  <2>4. cached' = cached
      BY <1>4 DEF CacheMiss
  <2> QED  BY <1>1, <1>2, <2>2, <2>3, <2>4, ValueWhenCallGoesOn
<1>5. ASSUME NEW value \in Values, Answer(value)
      PROVE  ValueInv' /\ DraftsInv'
  <2>1. call' = [at |-> "answered", provider |-> call.provider, attempt |-> call.attempt,
                 repaired |-> call.repaired, asked |-> Asked("valid"), value |-> value,
                 fault |-> call.fault, usedFallback |-> call.usedFallback]
      BY <1>5 DEF Answer, ExInv, BudgetInv, CallInv, IsCallRecord
  <2>2. call'.at = "answered" /\ ~ call'.usedFallback /\ call'.fault = "none"
        /\ call'.value \in Values
      BY <1>2, <1>5, <2>1
  <2>3. cached' \in {CacheOff} \cup [1 .. chain -> Values \cup {NoValue}]
      BY <1>2, <1>5 DEF Answer, ExInv, ValueInv
  <2> QED  BY <1>1, <1>2, <2>2, <2>3, ValueWhenCallEnds
<1>6. CASE \/ Malformed(Template(draft)) \/ Permanent(Template(draft))
           \/ Retryable(Template(draft))
  <2>1. cached' = cached /\ Calling("ask")
      BY <1>6 DEF Malformed, Permanent, Retryable
  <2>2. \/ \E asked : call' = FailOver(asked, Template(draft))
        \/ \E asked, repaired : call' = NextAttempt(asked, repaired, Template(draft))
      BY <1>6 DEF Malformed, Permanent, Retryable
  <2> QED  BY <1>1, <1>2, <2>1, <2>2, ValueWhenFailOver, ValueWhenAgain
<1> QED  BY <1>1, <1>3, <1>4, <1>5, <1>6 DEF CallStep

LEMMA ExInvInit == Init => ExInv
<1> SUFFICES ASSUME Init
             PROVE  ExInv
    OBVIOUS
<1>1. BudgetInv
    BY BudgetInit
<1>2. call.at = "idle" /\ ~ call.usedFallback /\ call.fault = "none"
    BY DEF Init, LLMInit, NoCall
<1>3. NoProblem \in Problems
  <2>1. <<"none", 0>> \in Origins \X Nat /\ <<>> \in Seq(Cases)
      BY DEF Origins
  <2> QED  BY <2>1 DEF NoProblem, Problems
<1>4. cached \in {CacheOff} \cup [1 .. chain -> Values \cup {NoValue}]
    BY NewRequestIs DEF Init, LLMInit
<1>5. 0 \in 0 .. MaxServed /\ 0 \in 0 .. DRAFTS - 1
    BY ExerciseAssumption DEF ExerciseAssumption, DRAFTS
<1> QED  BY <1>1, <1>2, <1>3, <1>4, <1>5 DEF ExInv, ValueInv, DraftsInv, Init, LLMInit, Calling

LEMMA ExInvNext ==
    ASSUME ExInv, [Next]_vars
    PROVE  ExInv'
<1>1. BudgetInv'
    BY BudgetNext DEF ExInv
<1>2. CASE Generate
    BY <1>1, <1>2, ValueWhenGenerate DEF ExInv
<1>3. CASE Ask
    BY <1>1, <1>3, ValueWhenAsked DEF ExInv
<1>4. CASE NextDraft
    BY <1>1, <1>4, ValueWhenNextDraft DEF ExInv
<1>5. CASE Serve \/ Halt
    BY <1>1, <1>5, ValueWhenPosed DEF ExInv
<1>6. CASE \/ Submit \/ ExecuteCase \/ ExecuteWhole \/ Grade \/ AnalyzeMisconception
  <2>1. UNCHANGED <<llmVars, rungVars, draft, posedVars>>
      BY <1>6 DEF Submit, ExecuteCase, ExecuteWhole, Run, Grade, AnalyzeMisconception
  <2>2. /\ pc \in {"await", "run", "graded", "analysed"}
        /\ pc' \in {"await", "run", "graded", "analysed"}
      BY <1>6 DEF Submit, ExecuteCase, ExecuteWhole, Run, Grade, AnalyzeMisconception
  <2> QED  BY <1>1, <2>1, <2>2, ValueUnchanged DEF ExInv
<1>7. CASE GoOn
  <2>1. /\ pc \in {"graded", "analysed"} /\ pc' = "pose" /\ variants' \in Variants
        /\ UNCHANGED <<llmVars, draft, posedVars>>
      BY <1>7 DEF GoOn
  <2>2. ~ Calling("answered")
      BY <2>1 DEF ExInv, ValueInv, Calling
  <2> QED  BY <1>1, <2>1, <2>2 DEF ExInv, ValueInv, DraftsInv, Calling, llmVars, posedVars
<1>8. CASE UNCHANGED vars
    BY <1>1, <1>8 DEF ExInv, ValueInv, DraftsInv, IsAnswered, Template, Calling, vars, llmVars,
       exerciseVars, posedVars, rungVars
<1> QED  BY <1>2, <1>3, <1>4, <1>5, <1>6, <1>7, <1>8 DEF Next

LEMMA ExInvAlways == Spec => []ExInv
<1>1. Init => ExInv
    BY ExInvInit
<1>2. ExInv /\ [Next]_vars => ExInv'
    BY ExInvNext
<1> QED  BY <1>1, <1>2, PTL DEF Spec

LEMMA ExInvFallback ==
    ASSUME ExInv
    PROVE  FallbackIsDeclared
<1>1. ASSUME Calling("answered")
      PROVE  /\ call.usedFallback <=> call.fault # "none"
             /\ call.usedFallback <=> call.value \notin Values
  <2>1. IsAnswered(call)
      BY <1>1 DEF ExInv, ValueInv
  <2>2. CASE call.usedFallback
    <3>1. draft \in Nat /\ variants \in Nat
        BY ExerciseAssumption DEF ExerciseAssumption, ExInv, ValueInv, DRAFTS
    <3>2. call.value \notin Values /\ call.fault # "none"
        BY <2>1, <2>2, <3>1, TemplateIsOurs DEF IsAnswered
    <3> QED  BY <2>2, <3>2
  <2>3. CASE ~ call.usedFallback
      BY <2>1, <2>3 DEF IsAnswered
  <2> QED  BY <2>2, <2>3
<1> QED  BY <1>1 DEF FallbackIsDeclared, ExInv, ValueInv

(* What a call returns is declared for what it is, and so is what the      *)
(* learner is shown, whatever the model drafted and however the providers  *)
(* failed (call_structured, generate_problem).                             *)
THEOREM FallbackIsDeclaredAlways == Spec => []FallbackIsDeclared
<1>1. ExInv => FallbackIsDeclared
    BY ExInvFallback
<1> QED  BY <1>1, ExInvAlways, PTL

(* Without a provider, what stands in for a draft is the ladder's own.     *)
LEMMA ServedRepeat ==
    ASSUME ExInv, Serve, problem'.key \in seen
    PROVE  /\ draft = DRAFTS - 1
           /\ chain = 0 => \A n \in 0 .. DRAFTS - 1 : Template(n).key \in seen
<1>1. /\ pc = "ask" /\ Calling("answered") /\ LoopEnds /\ IsUsable(Chosen.problem)
      /\ Chosen.problem.key \in seen /\ IsAnswered(call)
    BY DEF Serve, ExInv, ValueInv
<1>2. variants \in Nat /\ draft \in Nat
    BY ExerciseAssumption DEF ExerciseAssumption, ExInv, ValueInv, DRAFTS
<1>3. ~ Wanted
  <2> SUFFICES ASSUME Wanted
               PROVE  FALSE
      OBVIOUS
  <2>1. Chosen.problem = Draft
      BY DEF Chosen
  <2> QED  BY <1>1, <2>1 DEF Wanted
<1>4. ~ Offline
  <2> SUFFICES ASSUME Offline
               PROVE  FALSE
      OBVIOUS
  <2>1. Chosen.problem = Draft
      BY DEF Chosen
  <2>2. Draft = Template(draft) /\ language # "PYTHON"
      BY <1>1 DEF Offline, IsAnswered, Draft
  <2> QED  BY <1>1, <1>2, <2>1, <2>2, TemplateIs
<1>5. draft = DRAFTS - 1
    BY <1>1, <1>3, <1>4 DEF LoopEnds
<1>6. ASSUME chain = 0, NEW n \in 0 .. DRAFTS - 1
      PROVE  Template(n).key \in seen
  <2>1. Draft = Template(draft)
      BY <1>1, <1>6 DEF ExInv, DraftsInv, IsAnswered, Draft
  <2>2. Chosen.problem = Template(draft)
      BY <2>1 DEF Chosen
  <2>3. n \in Nat /\ IsUsable(Template(n))
      BY <1>1, <1>2, <1>6, <2>2, TemplateIs DEF DRAFTS
  <2>4. CASE n = draft
      BY <1>1, <2>2, <2>4
  <2>5. CASE n # draft
    <3>1. n \in 0 .. draft - 1
        BY <1>5, <1>6, <2>5 DEF DRAFTS
    <3> QED  BY <1>1, <1>6, <2>3, <3>1 DEF ExInv, DraftsInv
  <2> QED  BY <2>4, <2>5
<1> QED  BY <1>5, <1>6

(* A learner is asked the same again only when three drafts were of no use,*)
(* and without a model only when the rung has run out (generate_problem).  *)
THEOREM NoIdleRepeatAlways == Spec => NoIdleRepeat
<1> DEFINE Rare == served' # served /\ problem'.key \in seen =>
               /\ draft = DRAFTS - 1
               /\ chain = 0 => \A n \in 0 .. DRAFTS - 1 : Template(n).key \in seen
<1>1. ExInv /\ [Next]_vars => Rare
  <2> SUFFICES ASSUME ExInv, [Next]_vars, served' # served, problem'.key \in seen
               PROVE  /\ draft = DRAFTS - 1
                      /\ chain = 0 => \A n \in 0 .. DRAFTS - 1 : Template(n).key \in seen
      OBVIOUS
  <2>1. Serve
      BY DEF Next, vars, exerciseVars, posedVars, Generate, AskForDraft, Ask, NextDraft, Halt,
         Submit, ExecuteCase, ExecuteWhole, Run, Grade, AnalyzeMisconception, GoOn
  <2> QED  BY <2>1, ServedRepeat
<1>2. ExInv /\ [Next]_vars => [Rare]_vars
    BY <1>1
<1> QED  BY <1>2, ExInvAlways, PTL DEF Spec, NoIdleRepeat

-----------------------------------------------------------------------------
(* One run, and what it is worth.                                          *)

Executed == {Unstarted("blocked"), Unstarted("sandbox_error")}
            \cup {Ended(status) : status \in {"ok", "syntax_error", "runtime_error",
                                              "nonzero_exit", "timeout"}}

Runs == [case : Nat, execution : Executed, expected : Outputs \cup {Blank},
         printed : Outputs \cup {Blank}, passed : BOOLEAN]

IsPass(r) == r.passed <=> r.execution.status = "ok" /\ r.expected \in {r.printed, Blank}

LEMMA EndOfIs ==
    ASSUME NEW program \in Programs
    PROVE  EndOf(program) \in Executed
BY DEF Programs, EndOf, StatusFromCompleted, Executed

LEMMA ExecutionsAre ==
    ASSUME NEW s, NEW l, NEW e \in Executions(s, l)
    PROVE  e \in Executed
<1>1. ASSUME NEW env \in Environments(l)
      PROVE  Execution(env) \in Executed
  <2>1. EndOf(env.program) \in Executed
      BY EndOfIs DEF Environments
  <2> QED  BY <2>1 DEF Execution, Executed
<1>2. ASSUME NEW env \in DockerEnvironments
      PROVE  DockerExecution(env) \in Executed
  <2>1. EndOf(env.program) \in Executed
      BY EndOfIs DEF DockerEnvironments
  <2> QED  BY <2>1 DEF DockerExecution, Executed
<1>3. Unstarted("sandbox_error") \in Executed
    BY DEF Executed
<1> QED  BY <1>1, <1>2, <1>3 DEF Executions

(* A run that was not started is a fault of ours and no other is; and a    *)
(* run is correct when it passed.                                          *)
LEMMA ClassifyIs ==
    ASSUME NEW e \in Executed, NEW passed \in BOOLEAN
    PROVE  LET outcome == ClassifyWithExpectation(e, passed)
           IN  /\ ~ e.started => outcome \in SystemFaults
               /\ e.started => outcome \in StudentOutcomes
               /\ outcome = "CORRECT" <=> e.status = "ok" /\ passed
<1>2. ASSUME e = Unstarted("blocked") \/ e = Unstarted("sandbox_error")
      PROVE  /\ ~ e.started /\ e.status # "ok"
             /\ ClassifyWithExpectation(e, passed) \in SystemFaults
    BY <1>2 DEF Unstarted, ClassifyWithExpectation, Classify, SystemFaults
<1>3. ASSUME NEW status \in {"syntax_error", "runtime_error", "nonzero_exit", "timeout"},
             e = Ended(status)
      PROVE  /\ e.started /\ e.status # "ok"
             /\ ClassifyWithExpectation(e, passed) \in StudentOutcomes \ {"CORRECT"}
    BY <1>3 DEF Ended, ClassifyWithExpectation, Classify, StudentOutcomes
<1>4. ASSUME e = Ended("ok")
      PROVE  /\ e.started /\ e.status = "ok"
             /\ ClassifyWithExpectation(e, passed) =
                    IF passed THEN "CORRECT" ELSE "WRONG_ANSWER"
    BY <1>4 DEF Ended, ClassifyWithExpectation
<1>5. "CORRECT" \notin SystemFaults /\ {"CORRECT", "WRONG_ANSWER"} \subseteq StudentOutcomes
    BY DEF SystemFaults, StudentOutcomes
<1>6. CASE e = Unstarted("blocked") \/ e = Unstarted("sandbox_error")
    BY <1>2, <1>5, <1>6
<1>7. CASE \E status \in {"syntax_error", "runtime_error", "nonzero_exit", "timeout"} :
               e = Ended(status)
    BY <1>3, <1>7
<1>8. CASE e = Ended("ok")
    BY <1>4, <1>5, <1>8
<1> QED  BY <1>6, <1>7, <1>8 DEF Executed

LEMMA FaultIs ==
    ASSUME NEW r \in Runs
    PROVE  /\ IsFault(r) <=> ~ r.execution.started
           /\ r.passed /\ IsPass(r) => r.execution.started /\ r.execution.status = "ok"
<1>1. r.execution \in Executed /\ r.passed \in BOOLEAN
    BY DEF Runs
<1>2. StudentOutcomes \cap SystemFaults = {}
    BY DEF StudentOutcomes, SystemFaults
<1>3. r.execution.status = "ok" => r.execution.started
    BY <1>1 DEF Executed, Unstarted, Ended
<1> QED  BY <1>1, <1>2, <1>3, ClassifyIs DEF IsFault, IsPass

-----------------------------------------------------------------------------
(* The suite.                                                              *)

LEMMA ExpectationIs ==
    ASSUME NEW case \in Cases
    PROVE  /\ Expectation(case) \in Outputs \cup {Blank}
           /\ RunnerExpectation(case) \in Outputs \cup {Blank}
BY DEF Cases, Fields, Expectation, RunnerExpectation, Stripped

LEMMA DefaultIs ==
    ASSUME NEW e \in Outputs
    PROVE  /\ DefaultCase(e) \in Cases
           /\ Expectation(DefaultCase(e)) = e /\ RunnerExpectation(DefaultCase(e)) = e
           /\ e # Blank /\ e # Absent
BY OutputAssumption DEF OutputAssumption, DefaultCase, Cases, Fields, Expectation, Stripped,
   RunnerExpectation

LEMMA SuiteIs ==
    ASSUME NEW p \in Problems
    PROVE  /\ Suite(p) \in Seq(Cases)
           /\ Len(Suite(p)) <= Len(p.cases) + 1
           /\ Tested(p) \subseteq Kept(p) /\ Kept(p) \subseteq 1 .. Len(Suite(p))
           /\ \A i \in 1 .. Len(Suite(p)) : Suite(p)[i] \in Cases
<1>1. p.cases \in Seq(Cases) /\ Len(p.cases) \in Nat
    BY DEF Problems
<1>2. Tested(p) \subseteq Kept(p) /\ Kept(p) \subseteq 1 .. Len(Suite(p))
    BY DEF Tested, Kept
<1>3. CASE Suite(p) = p.cases
  <2>1. Suite(p) \in Seq(Cases) /\ Len(Suite(p)) <= Len(p.cases) + 1
      BY <1>1, <1>3
  <2>2. \A i \in 1 .. Len(Suite(p)) : Suite(p)[i] \in Cases
      BY <2>1
  <2> QED  BY <1>2, <2>1, <2>2
<1>4. CASE p.expected # Blank /\ Suite(p) = <<DefaultCase(p.expected)>>
  <2>1. DefaultCase(p.expected) \in Cases
      BY <1>4, DefaultIs DEF Problems
  <2>2. Suite(p) \in Seq(Cases) /\ Len(Suite(p)) = 1
      BY <1>4, <2>1
  <2>3. \A i \in 1 .. Len(Suite(p)) : Suite(p)[i] \in Cases
      BY <2>2
  <2> QED  BY <1>1, <1>2, <2>2, <2>3
<1>5. Suite(p) = p.cases \/ (p.expected # Blank /\ Suite(p) = <<DefaultCase(p.expected)>>)
    BY DEF Suite
<1> QED  BY <1>3, <1>4, <1>5

-----------------------------------------------------------------------------
(* The cases run so far.                                                   *)

(* Only the last run may be a fault, and it is the failure then.           *)
RunsInv ==
    /\ results \in Seq(Runs)
    /\ \A i \in 1 .. Len(results) : IsPass(results[i])
    /\ \A i \in 1 .. Len(results) - 1 : results[i].execution.started
    /\ failure \in 0 .. Len(results)
    /\ failure = 0 => \A i \in 1 .. Len(results) : results[i].passed
    /\ failure # 0 => ~ results[failure].passed
    /\ results # <<>> /\ ~ results[Len(results)].execution.started => failure = Len(results)

(* They are cases that can decide, in order, and none was left out.        *)
SuiteInv ==
    IF Kept(problem) = {}
    THEN Len(results) <= 1 /\ \A i \in 1 .. Len(results) : results[i].expected = Blank
    ELSE /\ \A i \in 1 .. Len(results) :
                /\ results[i].case \in Tested(problem) /\ results[i].case >= i
                /\ results[i].expected = RunnerExpectation(Suite(problem)[results[i].case])
         /\ \A t \in Tested(problem) :
                t <= Reached => \E i \in 1 .. Len(results) : results[i].case = t

IsGraded ==
    /\ grade.outcome = Verdict
    /\ grade.score = Score(PassedCount, Len(results))
    /\ grade.distinct = Distinct
    /\ code => AllRun

GradeInv ==
    /\ pc \in {"pose", "ask", "await"} => results = <<>>
    /\ code \in BOOLEAN
    /\ ~ code => results = <<>>
    /\ grade.outcome \in {"none"} \cup StudentOutcomes \cup SystemFaults
    /\ pc \in {"graded", "analysed"} => IsGraded
    /\ found.key \in Keys \cup {"none"}
    /\ found # NoPattern => pc = "analysed" /\ code

GradingInv == ExInv /\ RunsInv /\ SuiteInv /\ GradeInv

(* The cases that have been run have come after one another.               *)
LEMMA OneMoreRun ==
    ASSUME RunsInv, ~ Stopped, NEW r \in Runs, IsPass(r),
           results' = Append(results, r), failure' = FirstFailure(r)
    PROVE  RunsInv'
<1>1. /\ results \in Seq(Runs) /\ Len(results) \in Nat
      /\ results' \in Seq(Runs) /\ Len(results') = Len(results) + 1
      /\ results'[Len(results) + 1] = r
      /\ \A i \in 1 .. Len(results) : results'[i] = results[i] /\ results[i] \in Runs
    BY DEF RunsInv
<1>2. \A i \in 1 .. Len(results) : results[i].execution.started
  <2>1. CASE results = <<>>
      BY <2>1
  <2>2. CASE results # <<>>
    <3>1. Len(results) \in 1 .. Len(results)
        BY <1>1, <2>2
    <3>2. results[Len(results)].execution.started
        BY <1>1, <2>2, <3>1, FaultIs DEF Stopped
    <3> QED  BY <1>1, <3>2 DEF RunsInv
  <2> QED  BY <2>1, <2>2
<1>3. \A i \in 1 .. Len(results') : IsPass(results'[i])
  <2>1. ASSUME NEW i \in 1 .. Len(results')
        PROVE  IsPass(results'[i])
    <3>1. CASE i = Len(results) + 1
        BY <1>1, <3>1
    <3>2. CASE i \in 1 .. Len(results)
        BY <1>1, <3>2 DEF RunsInv
    <3> QED  BY <1>1, <2>1, <3>1, <3>2
  <2> QED  BY <2>1
<1>4. \A i \in 1 .. Len(results') - 1 : results'[i].execution.started
    BY <1>1, <1>2
<1>5. IsFault(r) <=> ~ r.execution.started
    BY FaultIs
<1>6. r.passed => r.execution.started
    BY FaultIs
<1>7. r.passed \in BOOLEAN
    BY DEF Runs
<1>8. CASE IsFault(r) \/ (~ r.passed /\ failure = 0)
  <2>1. failure' = Len(results) + 1 /\ ~ r.passed
      BY <1>5, <1>6, <1>8 DEF FirstFailure
  <2>2. failure' \in 0 .. Len(results') /\ failure' # 0 /\ ~ results'[failure'].passed
        /\ failure' = Len(results')
      BY <1>1, <2>1
  <2> QED  BY <1>1, <1>3, <1>4, <2>2 DEF RunsInv
<1>9. CASE ~ (IsFault(r) \/ (~ r.passed /\ failure = 0))
  <2>1. failure' = failure /\ r.execution.started /\ (failure = 0 => r.passed)
      BY <1>5, <1>9 DEF FirstFailure
  <2>2. /\ failure' \in 0 .. Len(results')
        /\ failure' # 0 => ~ results'[failure'].passed
      BY <1>1, <2>1 DEF RunsInv
  <2>3. failure' = 0 => \A i \in 1 .. Len(results') : results'[i].passed
      BY <1>1, <2>1 DEF RunsInv
  <2>4. results'[Len(results')].execution.started
      BY <1>1, <2>1
  <2> QED  BY <1>1, <1>3, <1>4, <2>2, <2>3, <2>4 DEF RunsInv
<1> QED  BY <1>8, <1>9

(* What Run appends.                                                       *)
LEMMA RunAppends ==
    ASSUME NEW case \in Nat, NEW expected \in Outputs \cup {Blank}, Run(case, expected)
    PROVE  /\ \E r \in Runs : /\ r.case = case /\ r.expected = expected /\ IsPass(r)
                              /\ results' = Append(results, r)
                              /\ failure' = FirstFailure(r)
           /\ UNCHANGED <<llmVars, pc, rungVars, draft, posedVars, code, grade, found>>
<1>1. PICK execution \in Executions(sandbox, language), printed \in Outputs :
          LET passed == execution.status = "ok" /\ expected \in {printed, Blank}
              result == [case |-> case, execution |-> execution, expected |-> expected,
                         printed |-> IF execution.status = "ok" THEN printed ELSE Blank,
                         passed |-> passed]
          IN  /\ results' = Append(results, result)
              /\ failure' = FirstFailure(result)
              /\ UNCHANGED <<llmVars, pc, rungVars, draft, posedVars, code, grade, found>>
    BY DEF Run
<1> DEFINE passed == execution.status = "ok" /\ expected \in {printed, Blank}
           result == [case |-> case, execution |-> execution, expected |-> expected,
                      printed |-> IF execution.status = "ok" THEN printed ELSE Blank,
                      passed |-> passed]
<1>2. execution \in Executed
    BY ExecutionsAre
<1>3. result \in Runs
    BY <1>2 DEF Runs
<1>4. IsPass(result)
    BY DEF IsPass
<1>5. result.case = case /\ result.expected = expected
    OBVIOUS
<1> QED  BY <1>1, <1>3, <1>4, <1>5

LEMMA SuiteWhenCase ==
    ASSUME GradingInv, ExecuteCase
    PROVE  /\ RunsInv' /\ SuiteInv'
           /\ UNCHANGED <<llmVars, pc, rungVars, draft, posedVars, code, grade, found>>
<1>1. PICK i \in ToRun : /\ \A j \in ToRun : i <= j
                         /\ Run(i, RunnerExpectation(Suite(problem)[i]))
    BY DEF ExecuteCase
<1>2. /\ i \in Tested(problem) /\ i > Reached /\ i \in Nat /\ i >= 1
      /\ Tested(problem) \subseteq Nat /\ Kept(problem) # {}
      /\ Suite(problem)[i] \in Cases
    BY <1>1, SuiteIs DEF ToRun, GradingInv, ExInv, ValueInv
<1>3. PICK r \in Runs : /\ r.case = i /\ IsPass(r)
                        /\ r.expected = RunnerExpectation(Suite(problem)[i])
                        /\ results' = Append(results, r)
                        /\ failure' = FirstFailure(r)
    BY <1>1, <1>2, ExpectationIs, RunAppends
<1>4. UNCHANGED <<llmVars, pc, rungVars, draft, posedVars, code, grade, found>>
    BY <1>1, <1>2, ExpectationIs, RunAppends
<1>5. RunsInv'
    BY <1>3, OneMoreRun DEF ExecuteCase, GradingInv
<1>6. /\ Len(results) \in Nat /\ Len(results') = Len(results) + 1
      /\ results'[Len(results) + 1] = r
      /\ \A k \in 1 .. Len(results) : results'[k] = results[k]
    BY <1>3 DEF GradingInv, RunsInv
<1>7. /\ \A k \in 1 .. Len(results) :
              /\ results[k].case \in Tested(problem) /\ results[k].case >= k
              /\ results[k].expected = RunnerExpectation(Suite(problem)[results[k].case])
      /\ \A t \in Tested(problem) :
              t <= Reached => \E k \in 1 .. Len(results) : results[k].case = t
    BY <1>2 DEF GradingInv, SuiteInv
<1>8. i >= Len(results) + 1
  <2>1. CASE results = <<>>
      BY <1>2, <2>1
  <2>2. CASE results # <<>>
    <3>1. Len(results) \in 1 .. Len(results)
        BY <1>6, <2>2 DEF GradingInv, RunsInv
    <3>2. Reached = results[Len(results)].case
        BY <2>2 DEF Reached
    <3> QED  BY <1>2, <1>6, <1>7, <3>1, <3>2
  <2> QED  BY <2>1, <2>2
<1>9. problem' = problem
    BY <1>4 DEF posedVars
<1>10. Reached' = i
    BY <1>3, <1>6 DEF Reached
<1>11. ASSUME NEW k \in 1 .. Len(results')
       PROVE  /\ results'[k].case \in Tested(problem) /\ results'[k].case >= k
              /\ results'[k].expected = RunnerExpectation(Suite(problem)[results'[k].case])
  <2>1. CASE k = Len(results) + 1
      BY <1>2, <1>3, <1>6, <1>8, <2>1
  <2>2. CASE k \in 1 .. Len(results)
      BY <1>6, <1>7, <2>2
  <2> QED  BY <1>6, <1>11, <2>1, <2>2
<1>12. ASSUME NEW t \in Tested(problem), t <= i
       PROVE  \E k \in 1 .. Len(results') : results'[k].case = t
  <2>1. CASE t <= Reached
    <3>1. PICK k \in 1 .. Len(results) : results[k].case = t
        BY <1>7, <2>1
    <3> QED  BY <1>6, <3>1
  <2>2. CASE t > Reached
    <3>1. t = i
        BY <1>1, <1>2, <1>12, <2>2 DEF ToRun
    <3> QED  BY <1>3, <1>6, <3>1
  <2>3. Reached \in Nat
    <3>1. CASE results = <<>>
        BY <3>1 DEF Reached
    <3>2. CASE results # <<>>
      <4>1. Len(results) \in 1 .. Len(results)
          BY <1>6, <3>2 DEF GradingInv, RunsInv
      <4> QED  BY <1>2, <1>7, <3>2, <4>1 DEF Reached
    <3> QED  BY <3>1, <3>2
  <2> QED  BY <1>2, <2>1, <2>2, <2>3
<1>13. SuiteInv'
  <2>1. Kept(problem') # {} /\ Tested(problem') = Tested(problem)
        /\ Suite(problem') = Suite(problem)
      BY <1>2, <1>9
  <2> QED  BY <1>10, <1>11, <1>12, <2>1 DEF SuiteInv
<1> QED  BY <1>4, <1>5, <1>13

LEMMA SuiteWhenWhole ==
    ASSUME GradingInv, ExecuteWhole
    PROVE  /\ RunsInv' /\ SuiteInv'
           /\ UNCHANGED <<llmVars, pc, rungVars, draft, posedVars, code, grade, found>>
<1>1. Run(1, Blank) /\ Kept(problem) = {} /\ results = <<>>
    BY DEF ExecuteWhole
<1>2. PICK r \in Runs : /\ r.expected = Blank /\ IsPass(r)
                        /\ results' = Append(results, r) /\ failure' = FirstFailure(r)
    BY <1>1, RunAppends
<1>3. UNCHANGED <<llmVars, pc, rungVars, draft, posedVars, code, grade, found>>
    BY <1>1, RunAppends
<1>4. RunsInv'
    BY <1>1, <1>2, OneMoreRun DEF Stopped, GradingInv
<1>5. Len(results') = 1 /\ results'[1] = r
    BY <1>1, <1>2
<1>6. problem' = problem
    BY <1>3 DEF posedVars
<1>7. Kept(problem') = {}
    BY <1>1, <1>6
<1>8. SuiteInv'
    BY <1>2, <1>5, <1>7 DEF SuiteInv
<1> QED  BY <1>3, <1>4, <1>8

-----------------------------------------------------------------------------
(* Patterns.                                                               *)

LEMMA HasLeast ==
    ASSUME NEW S \in SUBSET Nat, S # {}
    PROVE  \E i \in S : \A j \in S : i <= j
<1>1. \E i \in S : \A j \in S : ~ (<<j, i>> \in OpToRel(<, Nat))
    BY NatLessThanWellFounded, WFMin, Zenon
<1>2. PICK i \in S : \A j \in S : ~ (<<j, i>> \in OpToRel(<, Nat))
    BY <1>1
<1>3. ASSUME NEW j \in S
      PROVE  i <= j
  <2>1. ~ (j < i)
      BY <1>2 DEF OpToRel
  <2> QED  BY <2>1
<1> QED  BY <1>3

LEMMA FirstOfIs ==
    ASSUME NEW S \in SUBSET (1 .. Len(PATTERNS)), S # {}
    PROVE  \E i \in S : FirstOf(S) = PATTERNS[i]
<1>1. S \in SUBSET Nat
    OBVIOUS
<1>2. \E i \in S : \A j \in S : i <= j
    BY <1>1, HasLeast
<1> DEFINE first == CHOOSE i \in S : \A j \in S : i <= j
<1>3. first \in S
    BY <1>2
<1> QED  BY <1>3 DEF FirstOf

(* What only looks at the program needs something to look at.              *)
LEMMA PatternsAre ==
    \A i \in 1 .. Len(PATTERNS) :
        PATTERNS[i].outcome = "WRONG_ANSWER" => PATTERNS[i].looks
BY DEF PATTERNS, BySaying, ByOutcome, ByProgram

LEMMA DetectIs ==
    ASSUME NEW outcome, NEW signs
    PROVE  /\ Detect(outcome, signs).key \in Keys \cup {"none"}
           /\ outcome = "WRONG_ANSWER" /\ signs = {} => Detect(outcome, signs) = NoPattern
<1>1. ASSUME NEW S \in SUBSET (1 .. Len(PATTERNS)), S # {}
      PROVE  FirstOf(S).key \in Keys
    BY <1>1, FirstOfIs DEF Keys
<1>2. /\ SaidPatterns(signs) \in SUBSET (1 .. Len(PATTERNS))
      /\ OutcomePatterns(outcome, signs) \in SUBSET (1 .. Len(PATTERNS))
    BY DEF SaidPatterns, OutcomePatterns
<1>3. NoPattern.key = "none"
    BY DEF NoPattern
<1>4. outcome = "WRONG_ANSWER" /\ signs = {} =>
          SaidPatterns(signs) = {} /\ OutcomePatterns(outcome, signs) = {}
    BY PatternsAre DEF SaidPatterns, OutcomePatterns
<1>5. Detect(outcome, signs).key \in Keys \cup {"none"}
    BY <1>1, <1>2, <1>3 DEF Detect
<1> QED  BY <1>4, <1>5 DEF Detect

-----------------------------------------------------------------------------
(* The grade.                                                              *)

LEMMA VerdictIs ==
    ASSUME RunsInv
    PROVE  /\ Verdict \in StudentOutcomes \cup SystemFaults
           /\ results = <<>> => Verdict = "WRONG_ANSWER"
<1>1. "WRONG_ANSWER" \in StudentOutcomes
    BY DEF StudentOutcomes
<1>2. CASE ~ code \/ results = <<>>
    BY <1>1, <1>2 DEF Verdict
<1>3. CASE ~ (~ code \/ results = <<>>)
  <2> DEFINE decisive == IF failure = 0 THEN Len(results) ELSE failure
  <2>1. decisive \in 1 .. Len(results)
      BY <1>3 DEF RunsInv
  <2>2. results[decisive].execution \in Executed
    <3>1. results[decisive] \in Runs
        BY <2>1 DEF RunsInv
    <3> QED  BY <3>1 DEF Runs
  <2>3. (failure = 0) \in BOOLEAN
      OBVIOUS
  <2>4. Verdict = ClassifyWithExpectation(results[decisive].execution, failure = 0)
      BY <1>3 DEF Verdict
  <2> HIDE DEF decisive
  <2> QED  BY <1>3, <2>2, <2>3, <2>4, ClassifyIs
<1> QED  BY <1>2, <1>3

LEMMA GradeWhenRun ==
    ASSUME GradingInv, ExecuteCase \/ ExecuteWhole
    PROVE  GradeInv'
<1>1. UNCHANGED <<llmVars, pc, rungVars, draft, posedVars, code, grade, found>>
    BY SuiteWhenCase, SuiteWhenWhole
<1>2. pc = "run" /\ code
    BY DEF ExecuteCase, ExecuteWhole
<1> QED  BY <1>1, <1>2 DEF GradingInv, GradeInv

LEMMA GradeWhenGraded ==
    ASSUME GradingInv, Grade
    PROVE  GradeInv'
<1>1. /\ pc = "run" /\ pc' = "graded" /\ (code => AllRun)
      /\ UNCHANGED <<problem, code, results, failure, found>>
      /\ grade' = [outcome |-> Verdict, score |-> Score(PassedCount, Len(results)),
                   distinct |-> Distinct]
    BY DEF Grade, posedVars, runVars
<1>2. Verdict \in StudentOutcomes \cup SystemFaults
    BY VerdictIs DEF GradingInv
<1>3. /\ grade'.outcome = Verdict
      /\ grade'.score = Score(PassedCount, Len(results)) /\ grade'.distinct = Distinct
    BY <1>1
<1>4. Verdict' = Verdict
    BY <1>1 DEF Verdict
<1>5. PassedCount' = PassedCount
    BY <1>1 DEF PassedCount
<1>6. Distinct' = Distinct
    BY <1>1 DEF Distinct
<1>7. AllRun' = AllRun
    BY <1>1 DEF AllRun, Stopped, ToRun, Reached, IsFault
<1>8. IsGraded'
    BY <1>1, <1>3, <1>4, <1>5, <1>6, <1>7 DEF IsGraded
<1> QED  BY <1>1, <1>2, <1>3, <1>8 DEF GradingInv, GradeInv

LEMMA GradeWhenAnalysed ==
    ASSUME GradingInv, AnalyzeMisconception
    PROVE  GradeInv'
<1>1. /\ pc = "graded" /\ pc' = "analysed"
      /\ UNCHANGED <<problem, code, results, failure, grade>>
      /\ \/ found' = NoPattern
         \/ \E signs \in Signs : found' = Detect(grade.outcome, Shown(signs))
    BY DEF AnalyzeMisconception, posedVars, runVars
<1>2. IsGraded
    BY <1>1 DEF GradingInv, GradeInv
<1>3. IsGraded'
    BY <1>1, <1>2 DEF IsGraded, Verdict, PassedCount, Distinct, AllRun, Stopped, ToRun, Reached,
       IsFault
<1>4. found'.key \in Keys \cup {"none"}
    BY <1>1, DetectIs DEF NoPattern
<1>5. ASSUME ~ code
      PROVE  found' = NoPattern
  <2>1. grade.outcome = "WRONG_ANSWER"
      BY <1>2, <1>5 DEF IsGraded, Verdict
  <2>2. \A signs : Shown(signs) = {}
      BY <1>5 DEF Shown
  <2> QED  BY <1>1, <2>1, <2>2, DetectIs
<1> QED  BY <1>1, <1>3, <1>4, <1>5 DEF GradingInv, GradeInv

LEMMA NothingRun ==
    ASSUME results = <<>>, failure = 0, problem \in Problems
    PROVE  RunsInv /\ SuiteInv
<1>1. Len(results) = 0 /\ results \in Seq(Runs) /\ 1 .. 0 = {} /\ Reached = 0
    BY DEF Reached
<1>2. RunsInv
    BY <1>1 DEF RunsInv
<1>3. \A t \in Tested(problem) : ~ t <= Reached
    BY <1>1, SuiteIs
<1>4. SuiteInv
    BY <1>1, <1>3 DEF SuiteInv
<1> QED  BY <1>2, <1>4

LEMMA NothingRunNext ==
    ASSUME results' = <<>>, failure' = 0, problem' \in Problems
    PROVE  RunsInv' /\ SuiteInv'
<1>1. Len(results') = 0 /\ results' \in Seq(Runs) /\ 1 .. 0 = {} /\ Reached' = 0
    BY DEF Reached
<1>2. RunsInv'
    BY <1>1 DEF RunsInv
<1>3. \A t \in Tested(problem') : ~ t <= Reached'
    BY <1>1, SuiteIs
<1>4. SuiteInv'
    BY <1>1, <1>3 DEF SuiteInv
<1> QED  BY <1>2, <1>4

LEMMA GradingUnchanged ==
    ASSUME GradingInv, UNCHANGED <<problem, results, failure>>
    PROVE  RunsInv' /\ SuiteInv'
<1>1. RunsInv'
    BY DEF GradingInv, RunsInv
<1>2. SuiteInv'
    BY DEF GradingInv, SuiteInv, Reached
<1> QED  BY <1>1, <1>2

LEMMA GradingInit == Init => GradingInv
<1> SUFFICES ASSUME Init
             PROVE  GradingInv
    OBVIOUS
<1>1. ExInv
    BY ExInvInit
<1>2. RunsInv /\ SuiteInv
    BY <1>1, NothingRun DEF Init, ExInv, ValueInv
<1>3. GradeInv
    BY DEF Init, GradeInv, NoGrade, NoPattern
<1> QED  BY <1>1, <1>2, <1>3 DEF GradingInv

LEMMA GradingNext ==
    ASSUME GradingInv, [Next]_vars
    PROVE  GradingInv'
<1>1. ExInv'
    BY ExInvNext DEF GradingInv
<1>2. CASE Generate \/ Ask \/ NextDraft \/ Serve \/ Halt
  <2>1. /\ pc \in {"pose", "ask"} /\ pc' \in {"ask", "await"}
        /\ UNCHANGED <<code, results, failure, grade, found>>
      BY <1>2 DEF Generate, Ask, NextDraft, AskForDraft, Serve, Halt, exerciseVars, gradeVars,
         runVars, GradingInv, ExInv, ValueInv
  <2>2. results' = <<>> /\ failure' = 0 /\ problem' \in Problems
    <3>1. results = <<>>
        BY <2>1 DEF GradingInv, GradeInv
    <3>2. failure = 0
        BY <3>1 DEF GradingInv, RunsInv
    <3> QED  BY <1>1, <2>1, <3>1, <3>2 DEF ExInv, ValueInv
  <2>3. RunsInv' /\ SuiteInv'
      BY <2>2, NothingRunNext
  <2>4. GradeInv'
      BY <2>1, <2>2 DEF GradingInv, GradeInv
  <2> QED  BY <1>1, <2>3, <2>4 DEF GradingInv
<1>3. CASE Submit
  <2>1. /\ pc = "await" /\ pc' = "run" /\ code' \in BOOLEAN
        /\ UNCHANGED <<problem, results, failure, grade, found>>
      BY <1>3 DEF Submit, posedVars
  <2>2. GradeInv'
      BY <2>1 DEF GradingInv, GradeInv
  <2> QED  BY <1>1, <2>1, <2>2, GradingUnchanged DEF GradingInv
<1>4. CASE ExecuteCase
    BY <1>1, <1>4, SuiteWhenCase, GradeWhenRun DEF GradingInv
<1>5. CASE ExecuteWhole
    BY <1>1, <1>5, SuiteWhenWhole, GradeWhenRun DEF GradingInv
<1>6. CASE Grade
  <2>1. UNCHANGED <<problem, results, failure>>
      BY <1>6 DEF Grade, posedVars, runVars
  <2> QED  BY <1>1, <1>6, <2>1, GradingUnchanged, GradeWhenGraded DEF GradingInv
<1>7. CASE AnalyzeMisconception
  <2>1. UNCHANGED <<problem, results, failure>>
      BY <1>7 DEF AnalyzeMisconception, posedVars, runVars
  <2> QED  BY <1>1, <1>7, <2>1, GradingUnchanged, GradeWhenAnalysed DEF GradingInv
<1>8. CASE GoOn
  <2>1. /\ pc' = "pose" /\ code' = FALSE /\ results' = <<>> /\ failure' = 0
        /\ grade' = NoGrade /\ found' = NoPattern
      BY <1>8 DEF GoOn
  <2>2. RunsInv' /\ SuiteInv'
      BY <1>1, <2>1, NothingRunNext DEF ExInv, ValueInv
  <2>3. GradeInv'
      BY <2>1 DEF GradeInv, NoGrade, NoPattern
  <2> QED  BY <1>1, <2>2, <2>3 DEF GradingInv
<1>9. CASE UNCHANGED vars
  <2>1. UNCHANGED <<pc, problem, code, results, failure, grade, found>>
      BY <1>9 DEF vars, exerciseVars, posedVars, gradeVars, runVars
  <2>2. GradeInv'
      BY <2>1 DEF GradingInv, GradeInv, IsGraded, Verdict, PassedCount, Distinct, AllRun, Stopped,
         ToRun, Reached, IsFault
  <2> QED  BY <1>1, <2>1, <2>2, GradingUnchanged DEF GradingInv
<1> QED  BY <1>2, <1>3, <1>4, <1>5, <1>6, <1>7, <1>8, <1>9 DEF Next

LEMMA GradingAlways == Spec => []GradingInv
<1>1. Init => GradingInv
    BY GradingInit
<1>2. GradingInv /\ [Next]_vars => GradingInv'
    BY GradingNext
<1> QED  BY <1>1, <1>2, PTL DEF Spec

-----------------------------------------------------------------------------
(* What the invariants say of a grade.                                     *)

LEMMA CountsAre ==
    ASSUME RunsInv
    PROVE  /\ PassedCount \in Nat /\ PassedCount <= Len(results)
           /\ PassedCount = Len(results) <=> \A i \in 1 .. Len(results) : results[i].passed
<1> DEFINE all == 1 .. Len(results)
           passed == {i \in 1 .. Len(results) : results[i].passed}
<1>1. Len(results) \in Nat
    BY DEF RunsInv
<1>2. IsFiniteSet(all) /\ Cardinality(all) = Len(results)
    BY <1>1, FS_Interval, SMTT(30)
<1>3. passed \in SUBSET all
    OBVIOUS
<1>4. /\ IsFiniteSet(passed) /\ Cardinality(passed) <= Cardinality(all)
      /\ Cardinality(all) = Cardinality(passed) => all = passed
    BY <1>2, <1>3, FS_Subset
<1>5. Cardinality(passed) \in Nat
    BY <1>4, FS_CardinalityType
<1>6. PassedCount = Cardinality(passed)
    BY DEF PassedCount
<1>7. (all = passed) <=> \A i \in 1 .. Len(results) : results[i].passed
    OBVIOUS
<1> HIDE DEF all, passed
<1>8. Cardinality(passed) = Cardinality(all) <=> all = passed
    BY <1>4
<1> QED  BY <1>2, <1>4, <1>5, <1>6, <1>7, <1>8

LEMMA FiniteImage ==
    ASSUME NEW S, IsFiniteSet(S), NEW f, f = [x \in S |-> f[x]]
    PROVE  IsFiniteSet({f[x] : x \in S})
<1>1. f \in Surjection(S, {f[x] : x \in S})
    BY DEF Surjection
<1> QED  BY <1>1, FS_Surjection

LEMMA DistinctIs ==
    ASSUME problem \in Problems
    PROVE  Distinct \in Nat
<1> DEFINE f == [i \in Kept(problem) |-> Expectation(Suite(problem)[i])]
<1>1. Kept(problem) \in SUBSET (1 .. Len(Suite(problem))) /\ Len(Suite(problem)) \in Nat
    BY SuiteIs
<1>2. IsFiniteSet(Kept(problem))
  <2>1. IsFiniteSet(1 .. Len(Suite(problem)))
      BY <1>1, FS_Interval
  <2> QED  BY <1>1, <2>1, FS_Subset
<1>3. {f[i] : i \in Kept(problem)} = {Expectation(Suite(problem)[i]) : i \in Kept(problem)}
    OBVIOUS
<1>4. IsFiniteSet({f[i] : i \in Kept(problem)})
    BY <1>2, FiniteImage
<1>5. Cardinality({Expectation(Suite(problem)[i]) : i \in Kept(problem)}) \in Nat
    BY <1>3, <1>4, FS_CardinalityType
<1> QED  BY <1>5 DEF Distinct

(* A fault among the runs is the verdict.                                  *)
LEMMA FaultDecides ==
    ASSUME RunsInv, code, NEW i \in 1 .. Len(results), ~ results[i].execution.started
    PROVE  Verdict \in SystemFaults /\ Stopped
<1>1. i = Len(results) /\ results # <<>>
    BY DEF RunsInv
<1>2. failure = Len(results) /\ failure # 0
    BY <1>1 DEF RunsInv
<1>3. results[i] \in Runs
    BY DEF RunsInv
<1>4. results[i].execution \in Executed
    BY <1>3 DEF Runs
<1>5. Verdict = ClassifyWithExpectation(results[i].execution, FALSE)
    BY <1>1, <1>2 DEF Verdict
<1>6. Stopped
    BY <1>1, <1>3, FaultIs DEF Stopped
<1> QED  BY <1>4, <1>5, <1>6, ClassifyIs

(* What is in a suite without hidden expectations decides, all of it.      *)
LEMMA NothingHidden ==
    ASSUME problem \in Problems, ~ Hidden(problem)
    PROVE  /\ Tested(problem) = Kept(problem)
           /\ \A i \in Kept(problem) :
                  RunnerExpectation(Suite(problem)[i]) = Expectation(Suite(problem)[i])
<1>1. CASE Suite(problem) = problem.cases
    BY <1>1 DEF Hidden, Tested, Kept
<1>2. CASE problem.expected # Blank /\ Suite(problem) = <<DefaultCase(problem.expected)>>
  <2>1. problem.expected \in Outputs
      BY <1>2 DEF Problems
  <2>2. \A i \in 1 .. Len(Suite(problem)) : Suite(problem)[i] = DefaultCase(problem.expected)
      BY <1>2
  <2>3. \A i \in Kept(problem) : Suite(problem)[i] = DefaultCase(problem.expected)
      BY <2>2 DEF Kept
  <2> QED  BY <2>1, <2>3, DefaultIs DEF Tested
<1>3. \/ Suite(problem) = problem.cases
      \/ problem.expected # Blank /\ Suite(problem) = <<DefaultCase(problem.expected)>>
    BY DEF Suite
<1> QED  BY <1>1, <1>2, <1>3

LEMMA StatedIs ==
    ASSUME problem \in Problems, Stated(problem) # {}
    PROVE  /\ Kept(problem) # {}
           /\ Stated(problem) = {Expectation(Suite(problem)[i]) : i \in Kept(problem)}
<1> DEFINE told == {Expectation(problem.cases[i]) : i \in 1 .. Len(problem.cases)} \ {Blank}
<1>1. CASE told # {}
  <2>1. Stated(problem) = told
      BY <1>1 DEF Stated
  <2>2. Suite(problem) = problem.cases
      BY <1>1 DEF Suite
  <2>3. told = {Expectation(Suite(problem)[i]) : i \in Kept(problem)}
      BY <2>2 DEF Kept
  <2> QED  BY <1>1, <2>1, <2>3
<1>2. CASE told = {}
  <2>1. Stated(problem) = {problem.expected} \ {Blank}
      BY <1>2 DEF Stated
  <2>2. problem.expected \in Outputs /\ Stated(problem) = {problem.expected}
      BY <2>1 DEF Problems
  <2>3. Suite(problem) = <<DefaultCase(problem.expected)>>
      BY <1>2, <2>1 DEF Suite
  <2>4. Len(Suite(problem)) = 1 /\ Suite(problem)[1] = DefaultCase(problem.expected)
      BY <2>3
  <2>5. Kept(problem) = {1}
      BY <2>2, <2>4, DefaultIs DEF Kept
  <2>6. {Expectation(Suite(problem)[i]) : i \in Kept(problem)} = {problem.expected}
      BY <2>2, <2>4, <2>5, DefaultIs
  <2> QED  BY <2>2, <2>5, <2>6
<1> QED  BY <1>1, <1>2

LEMMA AllCompared ==
    ASSUME GradingInv, AllRun, ~ Stopped, Kept(problem) # {}, ~ Hidden(problem)
    PROVE  /\ Compared = {Expectation(Suite(problem)[i]) : i \in Kept(problem)}
           /\ results # <<>>
           /\ Blank \notin Compared
<1>1. problem \in Problems
    BY DEF GradingInv, ExInv, ValueInv
<1>2. /\ Tested(problem) = Kept(problem)
      /\ \A i \in Kept(problem) :
             RunnerExpectation(Suite(problem)[i]) = Expectation(Suite(problem)[i])
    BY <1>1, NothingHidden
<1>3. ToRun = {}
    BY DEF AllRun
<1>4. /\ \A i \in 1 .. Len(results) :
             /\ results[i].case \in Tested(problem)
             /\ results[i].expected = RunnerExpectation(Suite(problem)[results[i].case])
      /\ \A t \in Tested(problem) :
             t <= Reached => \E i \in 1 .. Len(results) : results[i].case = t
    BY DEF GradingInv, SuiteInv
<1>5. Tested(problem) \subseteq Nat /\ Len(results) \in Nat
    BY <1>1, SuiteIs DEF GradingInv, RunsInv
<1>6. Reached \in Nat
  <2>1. CASE results = <<>>
      BY <2>1 DEF Reached
  <2>2. CASE results # <<>>
    <3>1. Len(results) \in 1 .. Len(results)
        BY <1>5, <2>2 DEF GradingInv, RunsInv
    <3> QED  BY <1>4, <1>5, <2>2, <3>1 DEF Reached
  <2> QED  BY <2>1, <2>2
<1>7. \A t \in Tested(problem) : \E i \in 1 .. Len(results) : results[i].case = t
    BY <1>3, <1>4, <1>5, <1>6 DEF ToRun
<1>8. Compared = {Expectation(Suite(problem)[i]) : i \in Kept(problem)}
  <2>1. ASSUME NEW i \in 1 .. Len(results)
        PROVE  \E k \in Kept(problem) : results[i].expected = Expectation(Suite(problem)[k])
      BY <1>2, <1>4
  <2>2. ASSUME NEW k \in Kept(problem)
        PROVE  \E i \in 1 .. Len(results) : results[i].expected = Expectation(Suite(problem)[k])
    <3>1. PICK i \in 1 .. Len(results) : results[i].case = k
        BY <1>2, <1>7
    <3> QED  BY <1>2, <1>4, <3>1
  <2> QED  BY <2>1, <2>2, ZenonT(60) DEF Compared
<1>9. results # <<>>
  <2>1. PICK t : t \in Tested(problem)
      BY <1>2
  <2>2. PICK i \in 1 .. Len(results) : results[i].case = t
      BY <1>7, <2>1
  <2> QED  BY <2>2
<1>10. Blank \notin Compared
    BY <1>8 DEF Kept
<1> QED  BY <1>8, <1>9, <1>10

LEMMA CorrectIs ==
    ASSUME RunsInv, code, results # <<>>
    PROVE  Verdict = "CORRECT" <=> \A i \in 1 .. Len(results) : results[i].passed
<1>1. Len(results) \in 1 .. Len(results)
    BY DEF RunsInv
<1>2. CASE failure = 0
  <2>1. \A i \in 1 .. Len(results) : results[i].passed
      BY <1>2 DEF RunsInv
  <2>2. /\ results[Len(results)] \in Runs /\ IsPass(results[Len(results)])
        /\ results[Len(results)].passed
      BY <1>1, <2>1 DEF RunsInv
  <2>3. /\ results[Len(results)].execution \in Executed
        /\ results[Len(results)].execution.status = "ok"
      BY <2>2, FaultIs DEF Runs
  <2>4. Verdict = ClassifyWithExpectation(results[Len(results)].execution, TRUE)
      BY <1>2 DEF Verdict
  <2> QED  BY <2>1, <2>3, <2>4, ClassifyIs
<1>3. CASE failure # 0
  <2>1. failure \in 1 .. Len(results) /\ ~ results[failure].passed
      BY <1>3 DEF RunsInv
  <2>2. results[failure] \in Runs
      BY <2>1 DEF RunsInv
  <2>3. results[failure].execution \in Executed
      BY <2>2 DEF Runs
  <2>4. Verdict = ClassifyWithExpectation(results[failure].execution, FALSE)
      BY <1>3 DEF Verdict
  <2> QED  BY <2>1, <2>3, <2>4, ClassifyIs
<1> QED  BY <1>2, <1>3

LEMMA GradingEarned ==
    ASSUME GradingInv
    PROVE  VerdictIsEarned
<1> SUFFICES ASSUME pc \in {"graded", "analysed"}, code, grade.outcome \notin SystemFaults,
                    Stated(problem) # {}, ~ Hidden(problem)
             PROVE  /\ Compared = Stated(problem)
                    /\ grade.distinct = Cardinality(Compared)
                    /\ FullMarks(grade.score) <=> grade.outcome = "CORRECT"
                    /\ grade.outcome = "CORRECT" <=>
                           \A i \in 1 .. Len(results) :
                               /\ results[i].execution.status = "ok"
                               /\ results[i].printed = results[i].expected
    BY DEF VerdictIsEarned
<1>1. /\ problem \in Problems /\ RunsInv /\ IsGraded /\ AllRun
      /\ grade.outcome = Verdict /\ grade.distinct = Distinct
      /\ grade.score = Score(PassedCount, Len(results))
    BY DEF GradingInv, ExInv, ValueInv, GradeInv, IsGraded
<1>2. /\ Kept(problem) # {}
      /\ Stated(problem) = {Expectation(Suite(problem)[i]) : i \in Kept(problem)}
    BY <1>1, StatedIs
<1>3. \A i \in 1 .. Len(results) : results[i].execution.started
    BY <1>1, FaultDecides
<1>4. ~ Stopped
  <2>1. results # <<>> => Len(results) \in 1 .. Len(results)
      BY <1>1 DEF RunsInv
  <2>2. \A i \in 1 .. Len(results) : results[i] \in Runs
      BY <1>1 DEF RunsInv
  <2> QED  BY <1>3, <2>1, <2>2, FaultIs DEF Stopped
<1>5. /\ Compared = {Expectation(Suite(problem)[i]) : i \in Kept(problem)}
      /\ results # <<>> /\ Blank \notin Compared
    BY <1>1, <1>2, <1>4, AllCompared
<1>6. grade.distinct = Cardinality(Compared)
    BY <1>1, <1>2, <1>5 DEF Distinct
<1>7. FullMarks(grade.score) <=> \A i \in 1 .. Len(results) : results[i].passed
  <2>1. Len(results) # 0
      BY <1>1, <1>5 DEF RunsInv
  <2>2. grade.score.passed = PassedCount /\ grade.score.of = Len(results)
      BY <1>1, <2>1 DEF Score
  <2> QED  BY <1>1, <2>2, CountsAre DEF FullMarks
<1>8. grade.outcome = "CORRECT" <=> \A i \in 1 .. Len(results) : results[i].passed
    BY <1>1, <1>5, CorrectIs
<1>9. ASSUME NEW i \in 1 .. Len(results)
      PROVE  results[i].passed <=> /\ results[i].execution.status = "ok"
                                   /\ results[i].printed = results[i].expected
  <2>1. results[i].expected # Blank
      BY <1>5 DEF Compared
  <2>2. IsPass(results[i])
      BY <1>1 DEF RunsInv
  <2> QED  BY <2>1, <2>2 DEF IsPass
<1> QED  BY <1>2, <1>5, <1>6, <1>7, <1>8, <1>9

(* The outcome is CORRECT, and the score full, exactly when a program that *)
(* ended well printed every expectation the problem states, and as many    *)
(* were compared as the guess is priced on; for every draft of every shape *)
(* (execute_and_grade, run_test_cases).                                    *)
THEOREM VerdictIsEarnedAlways == Spec => []VerdictIsEarned
<1>1. GradingInv => VerdictIsEarned
    BY GradingEarned
<1> QED  BY <1>1, GradingAlways, PTL

LEMMA GradingFaults ==
    ASSUME GradingInv
    PROVE  FaultsAreNotEvidence
<1>1. problem \in Problems /\ RunsInv /\ Len(results) \in Nat
    BY DEF GradingInv, ExInv, ValueInv, RunsInv
<1>2. ASSUME pc \in {"graded", "analysed"}, grade.outcome \in StudentOutcomes
      PROVE  /\ \A i \in 1 .. Len(results) : results[i].execution.started
             /\ IsObservation(grade.outcome, grade.score, grade.distinct)
  <2>1. /\ grade.outcome = Verdict /\ grade.distinct = Distinct
        /\ grade.score = Score(PassedCount, Len(results))
      BY <1>2 DEF GradingInv, GradeInv, IsGraded
  <2>2. \A i \in 1 .. Len(results) : code
      BY DEF GradingInv, GradeInv
  <2>3. StudentOutcomes \cap SystemFaults = {}
      BY DEF StudentOutcomes, SystemFaults
  <2>4. \A i \in 1 .. Len(results) : results[i].execution.started
      BY <1>1, <1>2, <2>1, <2>2, <2>3, FaultDecides
  <2>5. PassedCount \in Nat /\ PassedCount <= Len(results)
      BY <1>1, CountsAre
  <2>6. /\ grade.score.passed = PassedCount
        /\ grade.score.of = IF Len(results) = 0 THEN 1 ELSE Len(results)
      BY <2>1 DEF Score
  <2>7. grade.distinct \in Nat
      BY <1>1, <2>1, DistinctIs
  <2> QED  BY <1>1, <1>2, <2>4, <2>5, <2>6, <2>7 DEF IsObservation
<1>3. \A i \in 1 .. Len(results) - 1 : results[i].execution.started
    BY <1>1 DEF RunsInv
<1>4. ASSUME found # NoPattern, ~ Hidden(problem)
      PROVE  results # <<>>
  <2>1. code /\ AllRun
      BY <1>4 DEF GradingInv, GradeInv, IsGraded
  <2>2. CASE Kept(problem) = {}
      BY <2>1, <2>2 DEF AllRun, Stopped
  <2>3. CASE Kept(problem) # {}
    <3>1. CASE Stopped
        BY <3>1 DEF Stopped
    <3>2. CASE ~ Stopped
        BY <1>4, <2>1, <2>3, <3>2, AllCompared
    <3> QED  BY <3>1, <3>2
  <2> QED  BY <2>2, <2>3
<1> QED  BY <1>2, <1>3, <1>4 DEF FaultsAreNotEvidence

(* Every run behind an outcome that counts against the learner was         *)
(* started, and update_mastery never refuses the observation made of it    *)
(* (run_test_cases, classify, Observation).                                *)
THEOREM FaultsAreNotEvidenceAlways == Spec => []FaultsAreNotEvidence
<1>1. GradingInv => FaultsAreNotEvidence
    BY GradingFaults
<1> QED  BY <1>1, GradingAlways, PTL

LEMMA RunsAreFew ==
    ASSUME GradingInv
    PROVE  Len(results) <= Len(problem.cases) + 1
<1>1. /\ problem \in Problems /\ Len(results) \in Nat /\ Len(problem.cases) \in Nat
      /\ Len(Suite(problem)) \in Nat /\ Len(Suite(problem)) <= Len(problem.cases) + 1
      /\ Tested(problem) \subseteq 1 .. Len(Suite(problem))
  <2>1. problem \in Problems
      BY DEF GradingInv, ExInv, ValueInv
  <2>2. problem.cases \in Seq(Cases)
      BY <2>1 DEF Problems
  <2> QED  BY <2>1, <2>2, SuiteIs DEF GradingInv, RunsInv
<1>2. CASE Kept(problem) = {}
    BY <1>1, <1>2 DEF GradingInv, SuiteInv
<1>3. CASE Kept(problem) # {} /\ Len(results) # 0
  <2>1. Len(results) \in 1 .. Len(results)
      BY <1>1, <1>3
  <2>2. /\ results[Len(results)].case \in Tested(problem)
        /\ results[Len(results)].case >= Len(results)
      BY <1>3, <2>1 DEF GradingInv, SuiteInv
  <2> QED  BY <1>1, <2>2
<1> QED  BY <1>1, <1>2, <1>3

(* The types of the variables, whatever the model drafts.                  *)
THEOREM ExerciseTypeOKAlways == Spec => []ExerciseTypeOK
<1>1. GradingInv => ExerciseTypeOK
  <2> SUFFICES ASSUME GradingInv
               PROVE  ExerciseTypeOK
      OBVIOUS
  <2>1. Len(results) <= Len(problem.cases) + 1
      BY RunsAreFew
  <2>2. CallTypeOK
      BY DEF GradingInv, ExInv, BudgetInv, CallInv
  <2> QED  BY <2>1, <2>2 DEF ExerciseTypeOK, GradingInv, ExInv, ValueInv, RunsInv, GradeInv
<1> QED  BY <1>1, GradingAlways, PTL
=============================================================================
