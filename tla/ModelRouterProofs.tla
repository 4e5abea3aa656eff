--------------------------- MODULE ModelRouterProofs --------------------------
(***************************************************************************)
(* Proofs about ModelRouter for any timeouts, budgets, providers and       *)
(* numbers of attempts.  What a question costs and what comes of it depend *)
(* on the order of the failures only; how long it takes comes last, where  *)
(* time is added to the invariant.                                         *)
(***************************************************************************)
EXTENDS ModelRouter, FiniteSetTheorems, TLAPS

USE NoneAssumption, ProviderAssumption, TriesAssumption DEF Tiers, Failures, Answers

\* The locals of the call
Fields == {"at", "who", "provider", "round", "asked", "began", "attempt", "tier", "falling",
           "limit", "tries", "reads", "requests", "failure", "timedOut", "answer"}

\* The type of the call, its times left open.
Shape ==
  /\ DOMAIN call = Fields
  /\ call.at \in Steps /\ call.who \in Agents /\ call.provider \in {"single", "retrying"}
  /\ call.round \in 1 .. 2 /\ call.attempt \in 1 .. MaxRetries
  /\ call.tier \in Tiers /\ call.falling \in BOOLEAN /\ call.tries \in Nat
  /\ call.reads \in Nat
  /\ call.requests \in Nat /\ call.failure \in Failures \cup {None}
  /\ call.timedOut \in BOOLEAN /\ call.answer \in Answers \cup {None}

\* Where a failure may have led.
Explained ==
  /\ call.provider = "retrying" => ~ call.timedOut /\ ~ call.falling
  /\ call.falling => call.timedOut
  /\ call.timedOut => CASE call.at = "attempt" -> FALSE
                        [] call.at = "stream"  -> FALSE
                        [] call.at = "http"    -> call.falling
                        [] call.at = "caught"  -> call.falling \/ call.failure = "timeout"
                        [] call.at = "spent"   -> call.failure = "timeout"
                        [] call.at = "raised"  -> call.answer # None
                        [] OTHER -> TRUE
  /\ call.at = "caught" => /\ call.failure \in {"timeout", "error"}
                           /\ call.failure = "timeout" => call.timedOut
  /\ call.at = "spent" /\ call.failure = "timeout" => call.timedOut \/ Passed
  /\ call.answer = "placeholder" => call.timedOut \/ Passed
  /\ call.at \in {"attempt", "http", "caught", "spent"} => call.answer = None
  /\ call.at = "stream" => call.answer \in {None, "part"}
  /\ call.at = "answered" => call.answer \in {"json", "text", "placeholder"}

\* What an agent may find.
Sound ==
  /\ call.who \in Streaming => call.at \in {"attempt", "stream", "parsed", "raised", "done"}
  /\ call.at = "stream" => call.who \in Streaming
  /\ call.at = "parsed" => IF call.who \in Streaming THEN call.answer \in {"text", "silence"}
                           ELSE HasKeys
  /\ used \in Answers \cup {None, "canned", "failed", "heuristic", "probe", "close"}
  /\ used \notin {"placeholder", "part"}

\* The agents ask without an answer.
LEMMA InitSound == Init => Shape /\ Explained /\ Sound
<1> SUFFICES ASSUME Init PROVE Shape /\ Explained /\ Sound
  OBVIOUS
<1>1. PICK w \in Agents, p \in Providers : call = Called(w, p, 1, now, 0)
  BY DEF Init
<1>2. TierOf[w] \in Tiers
  BY DEF TierOf, Agents, Tiers
<1>3. Shape
  BY <1>1, <1>2 DEF Shape, Fields, Called, Steps
<1>4. Explained
  BY <1>1 DEF Explained, Called
<1>5. Sound
  BY <1>1 DEF Sound, Called, Init
<1> QED
  BY <1>3, <1>4, <1>5

\* No step leaves the types.
LEMMA StepShape == Shape /\ [Next]_vars => Shape'
<1> SUFFICES ASSUME Shape, [Next]_vars PROVE Shape'
  OBVIOUS
<1> USE DEF Shape, Fields, Steps
<1>1. CASE StartAttempt
  BY <1>1 DEF StartAttempt, Request
<1>2. CASE OutOfTime
  BY <1>2 DEF OutOfTime
<1>3. CASE OpenStream
  BY <1>3 DEF OpenStream
<1>4. CASE ReadStream
  <2>1. CASE call' = [call EXCEPT !.reads = @ + 1, !.answer = "part"]
    BY <2>1
  <2>2. CASE call' = [call EXCEPT !.at = "parsed", !.answer = "silence"]
    BY <2>2
  <2> QED
    BY <1>4, <2>1, <2>2 DEF ReadStream
<1>5. CASE StreamEnds
  BY <1>5 DEF StreamEnds
<1>6. CASE StreamFails
  <2>1. PICK kind \in {"timeout", "error"} : call' = [call EXCEPT !.at = "raised", !.failure = kind]
    BY <1>6 DEF StreamFails
  <2> QED
    BY <2>1
<1>7. CASE Answered
  <2>1. PICK a \in {"json", "text"} : call' = [call EXCEPT !.at = "answered", !.answer = a]
    BY <1>7 DEF Answered
  <2> QED
    BY <2>1
<1>8. ASSUME NEW kind \in {"timeout", "error"}, Raise(kind)
      PROVE  Shape'
  BY <1>8 DEF Raise
<1>9. ASSUME SendAgain
      PROVE  Shape'
  <2>1. CASE call' = [call EXCEPT !.tries = @ + 1, !.reads = 0, !.requests = @ + 1]
    BY <2>1
  <2> QED
    BY <1>8, <1>9, <2>1 DEF SendAgain
<1>10. CASE TimesOut \/ Fails \/ FailsForGood
  BY <1>8, <1>9, <1>10, Zenon DEF TimesOut, Fails, FailsForGood
<1>11. CASE Fallback
  BY <1>11 DEF Fallback, Request, Below
<1>12. CASE FallbackEnds
  BY <1>12 DEF FallbackEnds, Placeholder
<1>13. CASE GiveUp
  <2>1. CASE Placeholder
    BY <2>1 DEF Placeholder
  <2>2. CASE Goto("raised") /\ UNCHANGED <<now, used>>
    BY <2>2 DEF Goto
  <2> QED
    BY <1>13, <2>1, <2>2 DEF GiveUp
<1>14. CASE Backoff
  BY <1>14 DEF Backoff
<1>15. CASE StopTrying
  BY <1>15 DEF StopTrying, Goto
<1>16. CASE Accept \/ Reject
  BY <1>16 DEF Accept, Reject, Goto
<1>17. CASE AskAgain
  <2>1. TierOf[call.who] \in Tiers
    BY DEF TierOf, Agents
  <2> QED
    BY <1>17, <2>1 DEF AskAgain, Called
<1>18. CASE Challenge \/ Review \/ Score \/ Speak
  BY <1>18 DEF Challenge, Review, Score, Speak, Use, Goto
<1>20. CASE Transfer
  BY <1>20 DEF Transfer
<1>19. CASE UNCHANGED vars
  BY <1>19 DEF vars
<1> QED
  BY <1>1, <1>2, <1>3, <1>4, <1>5, <1>6, <1>7, <1>10, <1>11, <1>12, <1>13, <1>14, <1>15,
     <1>16, <1>17, <1>18, <1>19, <1>20 DEF Next

\* Every step can be explained by what went before.
LEMMA StepExplained == Shape /\ Explained /\ Sound /\ [Next]_vars => Explained'
<1> SUFFICES ASSUME Shape, Explained, Sound, [Next]_vars PROVE Explained'
  OBVIOUS
<1> USE DEF Shape, Fields, Steps, Explained
<1>0. ASSUME now' = now, call'.who = call.who, call'.began = call.began
      PROVE  Passed' <=> Passed
  BY <1>0 DEF Passed, HasDeadline, Deadline
<1>1. CASE StartAttempt
  BY <1>1 DEF StartAttempt, Request
<1>2. CASE OutOfTime
  <2>1. Passed' <=> Passed
    BY <1>0, <1>2 DEF OutOfTime
  <2> QED
    BY <1>2, <2>1 DEF OutOfTime
<1>3. CASE OpenStream
  BY <1>3 DEF OpenStream
<1>4. CASE ReadStream
  <2>1. CASE call' = [call EXCEPT !.reads = @ + 1, !.answer = "part"]
    BY <1>4, <2>1 DEF ReadStream
  <2>2. CASE call' = [call EXCEPT !.at = "parsed", !.answer = "silence"]
    BY <1>4, <2>2 DEF ReadStream
  <2> QED
    BY <1>4, <2>1, <2>2 DEF ReadStream
<1>5. CASE StreamEnds
  BY <1>5 DEF StreamEnds
<1>6. CASE StreamFails
  <2>1. PICK kind \in {"timeout", "error"} : call' = [call EXCEPT !.at = "raised", !.failure = kind]
    BY <1>6 DEF StreamFails
  <2> QED
    BY <1>6, <2>1 DEF StreamFails
<1>7. CASE Answered
  <2>1. PICK a \in {"json", "text"} : call' = [call EXCEPT !.at = "answered", !.answer = a]
    BY <1>7 DEF Answered
  <2> QED
    BY <1>7, <2>1 DEF Answered
<1>8. ASSUME call.at = "http", NEW kind \in {"timeout", "error"}, Raise(kind),
             kind = "timeout" => call.provider = "single"
      PROVE  Explained'
  BY <1>8 DEF Raise
<1>9. ASSUME call.at = "http", SendAgain
      PROVE  Explained'
  <2>1. CASE call' = [call EXCEPT !.tries = @ + 1, !.reads = 0, !.requests = @ + 1]
    BY <1>9, <2>1
  <2> QED
    BY <1>8, <1>9, <2>1 DEF SendAgain
<1>10. CASE TimesOut \/ Fails \/ FailsForGood
  BY <1>8, <1>9, <1>10, Zenon DEF TimesOut, Fails, FailsForGood
<1>11. CASE Fallback
  BY <1>11 DEF Fallback, Request, Below
<1>12. CASE FallbackEnds
  BY <1>12 DEF FallbackEnds, Placeholder
<1>13. CASE GiveUp
  <2>1. Passed' <=> Passed
    BY <1>0, <1>13 DEF GiveUp, Placeholder, Goto
  <2>2. call.at = "spent" /\ now' = now
    BY <1>13 DEF GiveUp, Placeholder
  <2>3. CASE call.failure = "timeout" /\ Placeholder
    BY <2>1, <2>2, <2>3 DEF Placeholder
  <2>4. CASE call.failure # "timeout" /\ Goto("raised")
    BY <2>1, <2>2, <2>4 DEF Goto
  <2> QED
    BY <1>13, <2>3, <2>4 DEF GiveUp
<1>14. CASE Backoff
  BY <1>14 DEF Backoff
<1>15. CASE StopTrying
  <2>1. Passed' <=> Passed
    BY <1>0, <1>15 DEF StopTrying, Goto
  <2> QED
    BY <1>15, <2>1 DEF StopTrying, Goto
<1>16. CASE Accept \/ Reject
  <2>1. Passed' <=> Passed
    BY <1>0, <1>16 DEF Accept, Reject, Goto
  <2> QED
    BY <1>16, <2>1 DEF Accept, Reject, Goto
<1>17. CASE AskAgain
  BY <1>17 DEF AskAgain, Called
<1>18. CASE Challenge \/ Review \/ Score \/ Speak
  <2>1. Goto("done") /\ UNCHANGED now
    BY <1>18 DEF Challenge, Review, Score, Speak, Use
  <2>2. Passed' <=> Passed
    BY <1>0, <2>1 DEF Goto
  <2> QED
    BY <2>1, <2>2 DEF Goto
<1>20. CASE Transfer
  BY <1>20 DEF Transfer
<1>19. CASE UNCHANGED vars
  BY <1>19, <1>0 DEF vars
<1> QED
  BY <1>1, <1>2, <1>3, <1>4, <1>5, <1>6, <1>7, <1>10, <1>11, <1>12, <1>13, <1>14, <1>15,
     <1>16, <1>17, <1>18, <1>19, <1>20 DEF Next

\* No step hands an agent more than an answer.
LEMMA StepSound == Shape /\ Explained /\ Sound /\ [Next]_vars => Sound'
<1> SUFFICES ASSUME Shape, Explained, Sound, [Next]_vars PROVE Sound'
  OBVIOUS
<1> USE DEF Shape, Fields, Steps, Sound, HasKeys, Streaming
<1>1. CASE StartAttempt
  BY <1>1 DEF StartAttempt, Request
<1>2. CASE OutOfTime
  BY <1>2, BudgetAssumption DEF OutOfTime, Passed, HasDeadline
<1>3. CASE OpenStream
  BY <1>3 DEF OpenStream
<1>4. CASE ReadStream
  <2>1. CASE call' = [call EXCEPT !.reads = @ + 1, !.answer = "part"]
    BY <1>4, <2>1 DEF ReadStream
  <2>2. CASE call' = [call EXCEPT !.at = "parsed", !.answer = "silence"]
    BY <1>4, <2>2 DEF ReadStream
  <2> QED
    BY <1>4, <2>1, <2>2 DEF ReadStream
<1>5. CASE StreamEnds
  BY <1>5 DEF StreamEnds
<1>6. CASE StreamFails
  <2>1. PICK kind \in {"timeout", "error"} : call' = [call EXCEPT !.at = "raised", !.failure = kind]
    BY <1>6 DEF StreamFails
  <2> QED
    BY <1>6, <2>1 DEF StreamFails
<1>7. CASE Answered
  <2>1. PICK a \in {"json", "text"} : call' = [call EXCEPT !.at = "answered", !.answer = a]
    BY <1>7 DEF Answered
  <2> QED
    BY <1>7, <2>1 DEF Answered
<1>8. ASSUME call.at = "http", used' = used, NEW kind \in {"timeout", "error"}, Raise(kind)
      PROVE  Sound'
  BY <1>8 DEF Raise
<1>9. ASSUME call.at = "http", used' = used, SendAgain
      PROVE  Sound'
  <2>1. CASE call' = [call EXCEPT !.tries = @ + 1, !.reads = 0, !.requests = @ + 1]
    BY <1>9, <2>1
  <2> QED
    BY <1>8, <1>9, <2>1 DEF SendAgain
<1>10. CASE TimesOut \/ Fails \/ FailsForGood
  BY <1>8, <1>9, <1>10, Zenon DEF TimesOut, Fails, FailsForGood
<1>11. CASE Fallback
  BY <1>11 DEF Fallback, Request, Below
<1>12. CASE FallbackEnds
  BY <1>12 DEF FallbackEnds, Placeholder
<1>13. CASE GiveUp
  <2>1. call'.at \in {"answered", "raised"} /\ call'.who = call.who /\ used' = used
    <3>1. CASE Placeholder
      BY <3>1 DEF Placeholder
    <3>2. CASE Goto("raised") /\ UNCHANGED <<now, used>>
      BY <3>2 DEF Goto
    <3> QED
      BY <1>13, <3>1, <3>2 DEF GiveUp
  <2>2. call.who \notin Streaming
    BY <1>13 DEF GiveUp
  <2> QED
    BY <2>1, <2>2
<1>14. CASE Backoff
  BY <1>14 DEF Backoff
<1>15. CASE StopTrying
  BY <1>15 DEF StopTrying, Goto
<1>16. CASE Accept \/ Reject
  BY <1>16 DEF Accept, Reject, Goto
<1>17. CASE AskAgain
  BY <1>17 DEF AskAgain, Called
<1>18. CASE Challenge \/ Review \/ Score \/ Speak
  <2>1. Goto("done")
    BY <1>18 DEF Challenge, Review, Score, Speak, Use
  <2>2. /\ used' \in Answers \cup {None, "canned", "failed", "heuristic", "probe", "close"}
        /\ used' \notin {"placeholder", "part"}
    BY <1>18 DEF Challenge, Review, Score, Speak, Use, ParsedOutcomes
  <2> QED
    BY <2>1, <2>2 DEF Goto
<1>20. CASE Transfer
  BY <1>20 DEF Transfer
<1>19. CASE UNCHANGED vars
  BY <1>19 DEF vars
<1> QED
  BY <1>1, <1>2, <1>3, <1>4, <1>5, <1>6, <1>7, <1>10, <1>11, <1>12, <1>13, <1>14, <1>15,
     <1>16, <1>17, <1>18, <1>19, <1>20 DEF Next

-----------------------------------------------------------------------------
(* What a question has cost so far. *)

\* The requests of n attempts of OpenAIRouter
Sent(n) == n * HttpTries

\* The requests of the rounds before this one
Base == IF call.round = 1 THEN 0 ELSE CallBound

\* The requests this round may have cost by now
Allowed ==
  IF call.who \in Streaming THEN (IF call.at = "attempt" THEN 0 ELSE 1)
  ELSE IF call.provider = "single"
       THEN CASE call.at = "attempt" -> call.attempt - 1
              [] call.at \in {"http", "caught"} ->
                   call.attempt + ChainLength[TierOf[call.who]] - ChainLength[call.tier]
              [] OTHER -> MaxRetries + ChainLength[TierOf[call.who]]
       ELSE CASE call.at = "attempt" -> Sent(call.attempt - 1)
              [] call.at = "http"    -> Sent(call.attempt - 1) + call.tries
              [] call.at = "caught"  -> Sent(call.attempt)
              [] OTHER -> Sent(MaxRetries)

Cost ==
  /\ call.requests <= Base + Allowed
  /\ ~ call.falling => call.tier = TierOf[call.who]
  /\ call.at = "http" => call.tries <= HttpTries

\* Each attempt adds as many requests as the last.
LEMMA SentGrows ==
  ASSUME NEW n \in 1 .. MaxRetries
  PROVE  /\ Sent(n - 1) \in Nat /\ Sent(n) \in Nat /\ Sent(MaxRetries) \in Nat
         /\ Sent(n) = Sent(n - 1) + HttpTries
         /\ Sent(n) <= Sent(MaxRetries)
<1>1. MaxRetries \in Nat /\ HttpTries \in Nat /\ n \in Nat /\ n - 1 \in Nat /\ MaxRetries - n \in Nat
  OBVIOUS
<1>2. \A a, b \in Nat : a * b \in Nat
  OBVIOUS
<1>3. \A a, b, h \in Nat : a * h + b * h = (a + b) * h
  OBVIOUS
<1>4. (n - 1) * HttpTries + HttpTries = n * HttpTries
  <2>1. (n - 1) + 1 = n
    BY <1>1
  <2>2. (n - 1) * HttpTries + 1 * HttpTries = ((n - 1) + 1) * HttpTries
    BY <1>1, <1>3
  <2> QED
    BY <1>1, <2>1, <2>2
<1>5. n * HttpTries + (MaxRetries - n) * HttpTries = MaxRetries * HttpTries
  <2>1. n + (MaxRetries - n) = MaxRetries
    BY <1>1
  <2> QED
    BY <1>1, <1>3, <2>1
<1>6. (n - 1) * HttpTries \in Nat /\ n * HttpTries \in Nat /\ (MaxRetries - n) * HttpTries \in Nat
      /\ MaxRetries * HttpTries \in Nat
  BY <1>1, <1>2
<1> QED
  BY <1>1, <1>4, <1>5, <1>6 DEF Sent

\* The tiers below a tier
LEMMA Chain ==
  /\ \A w \in Agents : TierOf[w] \in Tiers
  /\ \A t \in Tiers : ChainLength[t] \in 0 .. 2
  /\ \A t \in Tiers :
       Below[t] # None => Below[t] \in Tiers /\ ChainLength[Below[t]] = ChainLength[t] - 1
<1>1. \A w \in Agents : TierOf[w] \in Tiers
  BY DEF Agents, TierOf
<1>2. ChainLength["top"] = 2 /\ ChainLength["mid"] = 1 /\ ChainLength["cheap"] = 0
  BY DEF ChainLength
<1>3. Below["top"] = "mid" /\ Below["mid"] = "cheap" /\ Below["cheap"] = None
  BY DEF Below
<1> QED
  BY <1>1, <1>2, <1>3

\* A round stays within what one call of the router may cost.
LEMMA AllowedBounded ==
  Shape /\ Cost => Allowed \in Int /\ CallBound \in Nat /\ Base \in Nat /\ Allowed <= CallBound
<1> SUFFICES ASSUME Shape, Cost
             PROVE  Allowed \in Int /\ CallBound \in Nat /\ Allowed <= CallBound
  BY DEF Base
<1>0. PICK n \in 1 .. MaxRetries : call.attempt = n
  BY DEF Shape
<1>1. CASE call.who \in Streaming
  <2>1. CallBound = 1
    BY <1>1 DEF CallBound, Streaming
  <2>2. Allowed = IF call.at = "attempt" THEN 0 ELSE 1
    BY <1>1, Zenon DEF Allowed
  <2> QED
    BY <2>1, <2>2
<1>2. CASE call.who \notin Streaming /\ call.provider = "single"
  <2>1. PICK top \in 0 .. 2, tier \in 0 .. 2 :
          top = ChainLength[TierOf[call.who]] /\ tier = ChainLength[call.tier]
    BY Chain DEF Shape
  <2>2. CallBound = MaxRetries + top
    BY <1>2, <2>1 DEF CallBound
  <2>3. CASE call.at = "attempt"
    BY <1>0, <1>2, <2>1, <2>2, <2>3 DEF Allowed
  <2>4. CASE call.at \in {"http", "caught"}
    <3>1. Allowed = n + top - tier
      BY <1>0, <1>2, <2>1, <2>4 DEF Allowed
    <3> QED
      BY <2>2, <3>1
  <2>5. CASE call.at \notin {"attempt", "http", "caught"}
    BY <1>2, <2>1, <2>2, <2>5 DEF Allowed
  <2> QED
    BY <2>3, <2>4, <2>5
<1>3. CASE call.who \notin Streaming /\ call.provider = "retrying"
  <2>1. CallBound = Sent(MaxRetries)
    BY <1>3 DEF CallBound, Sent
  <2>2. PICK a \in Nat, b \in Nat, m \in Nat :
          /\ a = Sent(n - 1) /\ b = Sent(n) /\ m = Sent(MaxRetries)
          /\ b = a + HttpTries /\ b <= m
    BY SentGrows
  <2>3. CASE call.at = "attempt"
    BY <1>0, <1>3, <2>1, <2>2, <2>3 DEF Allowed
  <2>4. CASE call.at = "http"
    <3>1. PICK k \in Nat : call.tries = k /\ k <= HttpTries
      BY <2>4 DEF Shape, Cost
    <3>2. Allowed = a + k
      BY <1>0, <1>3, <2>2, <2>4, <3>1 DEF Allowed
    <3> QED
      BY <2>1, <2>2, <3>1, <3>2
  <2>5. CASE call.at = "caught"
    BY <1>0, <1>3, <2>1, <2>2, <2>5 DEF Allowed
  <2>6. CASE call.at \notin {"attempt", "http", "caught"}
    BY <1>3, <2>1, <2>2, <2>6 DEF Allowed
  <2> QED
    BY <2>3, <2>4, <2>5, <2>6
<1> QED
  BY <1>1, <1>2, <1>3 DEF Shape

\* A question begins with no request sent.
LEMMA InitCost == Init => Cost
<1> SUFFICES ASSUME Init PROVE Cost
  OBVIOUS
<1>1. PICK w \in Agents, p \in Providers : call = Called(w, p, 1, now, 0)
  BY DEF Init
<1>2. /\ call.round = 1 /\ call.requests = 0 /\ call.at = "attempt" /\ call.attempt = 1
      /\ call.tier = TierOf[call.who]
  BY <1>1 DEF Called
<1>3. Base = 0 /\ Allowed = 0
  BY <1>2 DEF Base, Allowed, Sent
<1> QED
  BY <1>2, <1>3 DEF Cost

\* No step costs more than it may.
LEMMA StepCost == Shape /\ Explained /\ Sound /\ Cost /\ [Next]_vars => Cost'
<1> SUFFICES ASSUME Shape, Explained, Sound, Cost, [Next]_vars PROVE Cost'
  OBVIOUS
<1> USE DEF Shape, Fields, Steps
<1>a. PICK n \in 1 .. MaxRetries : call.attempt = n
  OBVIOUS
<1>b. PICK a \in Nat, b \in Nat, m \in Nat :
        /\ a = Sent(n - 1) /\ b = Sent(n) /\ m = Sent(MaxRetries)
        /\ b = a + HttpTries /\ b <= m
  BY SentGrows
<1>c. PICK top \in 0 .. 2, tier \in 0 .. 2 :
        top = ChainLength[TierOf[call.who]] /\ tier = ChainLength[call.tier]
  BY Chain
<1>d. ASSUME call'.who = call.who, call'.provider = call.provider, call'.round = call.round
      PROVE  Base' = Base
  BY <1>d DEF Base, CallBound
<1>e. CallBound = IF call.who \in Streaming THEN 1
                  ELSE IF call.provider = "single" THEN MaxRetries + top ELSE m
  BY <1>b, <1>c DEF CallBound, Sent
<1>f. call.requests \in Nat /\ Allowed \in Int /\ CallBound \in Nat /\ Base \in Nat /\ Allowed <= CallBound
  BY AllowedBounded
<1>g. ASSUME call'.at \in {"spent", "answered", "raised", "parsed", "done"},
             call'.who = call.who, call'.provider = call.provider, call'.round = call.round,
             call'.tier = call.tier, call'.falling = call.falling, call'.requests = call.requests
      PROVE  Cost'
  <2>1. Base' = Base
    BY <1>d, <1>g
  <2>2. Allowed' = CallBound
    BY <1>b, <1>c, <1>e, <1>g DEF Allowed
  <2> QED
    BY <1>f, <1>g, <2>1, <2>2 DEF Cost
<1>1. CASE StartAttempt
  <2>1. Base' = Base
    BY <1>1, <1>d DEF StartAttempt, Request
  <2>2. call.tier = TierOf[call.who]
    BY <1>1 DEF Cost, StartAttempt, Explained
  <2>3. /\ call'.at = "http" /\ call'.tier = call.tier /\ call'.requests = call.requests + 1
        /\ call'.who = call.who /\ call'.provider = call.provider /\ call'.attempt = n
        /\ call'.tries = 1 /\ call'.falling = FALSE
    BY <1>1, <1>a DEF StartAttempt, Request
  <2>4. Allowed' = Allowed + 1
    <3>1. CASE call.provider = "single"
      BY <1>1, <1>a, <1>c, <2>2, <2>3, <3>1 DEF Allowed, StartAttempt
    <3>2. CASE call.provider = "retrying"
      BY <1>1, <1>a, <1>b, <2>2, <2>3, <3>2 DEF Allowed, StartAttempt
    <3> QED
      BY <3>1, <3>2
  <2> QED
    BY <1>f, <2>1, <2>2, <2>3, <2>4 DEF Cost
<1>2. CASE OpenStream
  <2>1. Base' = Base
    BY <1>2, <1>d DEF OpenStream
  <2>2. /\ call'.at = "stream" /\ call'.tier = call.tier /\ call'.requests = call.requests + 1
        /\ call'.who = call.who /\ call'.falling = call.falling
    BY <1>2 DEF OpenStream
  <2>3. Allowed = 0 /\ Allowed' = 1
    BY <1>2, <2>2 DEF Allowed, OpenStream
  <2> QED
    BY <1>f, <2>1, <2>2, <2>3 DEF Cost
<1>3. CASE ReadStream
  <2>1. CASE call' = [call EXCEPT !.reads = @ + 1, !.answer = "part"]
    <3>1. /\ call'.at = "stream" /\ call'.tier = call.tier /\ call'.requests = call.requests
          /\ call'.who = call.who /\ call'.falling = call.falling
          /\ call'.provider = call.provider /\ call'.round = call.round
      BY <1>3, <2>1 DEF ReadStream
    <3>2. Base' = Base /\ Allowed' = Allowed
      BY <1>3, <1>d, <3>1 DEF Allowed, ReadStream, Sound
    <3> QED
      BY <3>1, <3>2 DEF Cost
  <2>2. CASE call' = [call EXCEPT !.at = "parsed", !.answer = "silence"]
    BY <1>g, <2>2
  <2> QED
    BY <1>3, <2>1, <2>2 DEF ReadStream
<1>4. CASE OutOfTime \/ StopTrying
  <2>1. CASE OutOfTime
    BY <1>g, <2>1 DEF OutOfTime
  <2>2. CASE StopTrying
    BY <1>g, <2>2 DEF StopTrying, Goto
  <2> QED
    BY <1>4, <2>1, <2>2
<1>5. CASE GiveUp
  <2>1. CASE Placeholder
    BY <1>g, <2>1 DEF Placeholder
  <2>2. CASE Goto("raised")
    BY <1>g, <2>2 DEF Goto
  <2> QED
    BY <1>5, <2>1, <2>2 DEF GiveUp
<1>6. CASE StreamEnds
  BY <1>6, <1>g DEF StreamEnds
<1>7. CASE StreamFails
  <2>1. PICK kind \in {"timeout", "error"} : call' = [call EXCEPT !.at = "raised", !.failure = kind]
    BY <1>7 DEF StreamFails
  <2> QED
    BY <1>g, <2>1
<1>8. CASE FallbackEnds
  BY <1>8, <1>g DEF FallbackEnds, Placeholder
<1>9. CASE Answered
  <2>1. PICK x \in {"json", "text"} : call' = [call EXCEPT !.at = "answered", !.answer = x]
    BY <1>9 DEF Answered
  <2> QED
    BY <1>g, <2>1
<1>10. CASE Accept \/ Reject
  BY <1>10, <1>g DEF Accept, Reject, Goto
<1>11. CASE Challenge \/ Review \/ Score \/ Speak
  <2>1. Goto("done")
    BY <1>11 DEF Challenge, Review, Score, Speak, Use
  <2> QED
    BY <1>g, <2>1 DEF Goto
<1>12. ASSUME call.at = "http", NEW kind \in {"timeout", "error"}, Raise(kind)
       PROVE  Cost'
  <2>1. /\ call'.at = "caught" /\ call'.tier = call.tier /\ call'.requests = call.requests
        /\ call'.who = call.who /\ call'.provider = call.provider /\ call'.round = call.round
        /\ call'.falling = call.falling /\ call'.attempt = n
    BY <1>12, <1>a DEF Raise
  <2>2. Base' = Base
    BY <1>d, <2>1
  <2>3. Allowed <= Allowed' /\ Allowed' \in Int
    <3>1. call.who \notin Streaming
      BY <1>12 DEF Sound
    <3>2. CASE call.provider = "single"
      BY <1>12, <1>a, <1>c, <2>1, <3>1, <3>2 DEF Allowed
    <3>3. CASE call.provider = "retrying"
      <4>1. PICK k \in Nat : call.tries = k /\ k <= HttpTries
        BY <1>12 DEF Cost
      <4>2. Allowed = a + k /\ Allowed' = b
        BY <1>12, <1>a, <1>b, <2>1, <3>1, <3>3, <4>1 DEF Allowed
      <4> QED
        BY <1>b, <4>1, <4>2
    <3> QED
      BY <3>2, <3>3
  <2> QED
    BY <1>f, <2>1, <2>2, <2>3 DEF Cost
<1>13. ASSUME call.at = "http", call.provider = "retrying", SendAgain
       PROVE  Cost'
  <2>1. CASE call.tries < HttpTries /\ call' = [call EXCEPT !.tries = @ + 1, !.reads = 0, !.requests = @ + 1]
    <3>1. /\ call'.at = "http" /\ call'.tier = call.tier /\ call'.requests = call.requests + 1
          /\ call'.who = call.who /\ call'.provider = call.provider /\ call'.round = call.round
          /\ call'.falling = call.falling /\ call'.attempt = n /\ call'.tries = call.tries + 1
      BY <1>13, <1>a, <2>1
    <3>2. call.who \notin Streaming
      BY <1>13 DEF Sound
    <3>3. Base' = Base
      BY <1>d, <3>1
    <3>4. PICK k \in Nat : call.tries = k /\ k < HttpTries
      BY <2>1
    <3>5. Allowed = a + k /\ Allowed' = a + (k + 1)
      BY <1>13, <1>a, <1>b, <3>1, <3>2, <3>4 DEF Allowed
    <3> QED
      BY <1>f, <3>1, <3>3, <3>4, <3>5 DEF Cost
  <2> QED
    BY <1>12, <1>13, <2>1 DEF SendAgain
<1>14. CASE TimesOut \/ Fails \/ FailsForGood
  BY <1>12, <1>13, <1>14, Zenon DEF TimesOut, Fails, FailsForGood
<1>15. CASE Fallback
  <2>1. /\ call'.at = "http" /\ call'.tier = Below[call.tier] /\ call'.requests = call.requests + 1
        /\ call'.who = call.who /\ call'.provider = call.provider /\ call'.round = call.round
        /\ call'.falling = TRUE /\ call'.attempt = n /\ call'.tries = 1
    BY <1>15, <1>a DEF Fallback, Request
  <2>2. call.at = "caught" /\ call.timedOut
    BY <1>15 DEF Fallback, Explained
  <2>3. call.provider = "single" /\ call.who \notin Streaming
    BY <2>2 DEF Explained, Sound
  <2>4. Base' = Base
    BY <1>d, <2>1
  <2>5. ChainLength[Below[call.tier]] = tier - 1
    BY <1>15, <1>c, Chain DEF Fallback
  <2>6. Allowed = n + top - tier /\ Allowed' = n + top - (tier - 1)
    BY <1>a, <1>c, <2>1, <2>2, <2>3, <2>5 DEF Allowed
  <2> QED
    BY <1>f, <2>1, <2>4, <2>6 DEF Cost
<1>16. CASE Backoff
  <2>1. /\ call'.at = "attempt" /\ call'.tier = call.tier /\ call'.requests = call.requests
        /\ call'.who = call.who /\ call'.provider = call.provider /\ call'.round = call.round
        /\ call'.falling = FALSE /\ call'.attempt = n + 1
    BY <1>16, <1>a DEF Backoff
  <2>2. call.at = "caught" /\ call.tier = TierOf[call.who] /\ call.who \notin Streaming
    BY <1>16 DEF Backoff, Cost, Sound
  <2>3. Base' = Base
    BY <1>d, <2>1
  <2>4. Allowed' = Allowed
    <3>1. CASE call.provider = "single"
      BY <1>a, <1>c, <2>1, <2>2, <3>1 DEF Allowed
    <3>2. CASE call.provider = "retrying"
      <4>1. call'.attempt - 1 = n
        BY <2>1
      <4>2. Allowed' = Sent(n)
        BY <2>1, <2>2, <3>2, <4>1 DEF Allowed
      <4> QED
        BY <1>a, <2>2, <3>2, <4>2 DEF Allowed
    <3> QED
      BY <3>1, <3>2
  <2> QED
    BY <1>f, <2>1, <2>2, <2>3, <2>4 DEF Cost
<1>17. CASE AskAgain
  <2>1. /\ call'.at = "attempt" /\ call'.tier = TierOf[call.who] /\ call'.requests = call.requests
        /\ call'.who = call.who /\ call'.provider = call.provider /\ call'.round = 2
        /\ call'.falling = FALSE /\ call'.attempt = 1 /\ call.round = 1
        /\ call.who \notin Streaming
    BY <1>17 DEF AskAgain, Called, Sound
  <2>2. Base = 0 /\ Base' = CallBound
    BY <2>1 DEF Base, CallBound
  <2>3. Allowed' = 0
    BY <2>1 DEF Allowed, Sent
  <2> QED
    BY <1>f, <2>1, <2>2, <2>3 DEF Cost
<1>19. CASE Transfer
  <2>1. /\ call'.at = "http" /\ call'.tier = call.tier /\ call'.requests = call.requests
        /\ call'.who = call.who /\ call'.falling = call.falling /\ call'.tries = call.tries
        /\ call'.provider = call.provider /\ call'.round = call.round
        /\ call'.attempt = call.attempt /\ call.at = "http"
    BY <1>19 DEF Transfer
  <2>2. Base' = Base /\ Allowed' = Allowed
    BY <1>d, <2>1 DEF Allowed
  <2> QED
    BY <2>1, <2>2 DEF Cost
<1>18. CASE UNCHANGED vars
  BY <1>18 DEF vars, Cost, Base, CallBound, Allowed
<1> QED
  BY <1>1, <1>2, <1>3, <1>4, <1>5, <1>6, <1>7, <1>8, <1>9, <1>10, <1>11, <1>14, <1>15,
     <1>16, <1>17, <1>18, <1>19 DEF Next

IInv == Shape /\ Explained /\ Sound /\ Cost

\* The strengthened invariant holds of every reachable state of ModelRouter.
THEOREM Inductive == Spec => []IInv
<1>1. Init => IInv
  BY InitSound, InitCost DEF IInv
<1>2. IInv /\ [Next]_vars => IInv'
  BY StepShape, StepExplained, StepSound, StepCost DEF IInv
<1> QED
  BY <1>1, <1>2, PTL DEF Spec

\* The types of the call and of what becomes of it
THEOREM TypesHold == Spec => []TypeOK
<1>1. IInv => TypeOK
  BY DEF IInv, Shape, Sound, TypeOK
<1> QED
  BY <1>1, Inductive, PTL

\* The router raises and makes the placeholder up only when it has cause to
\* (ModelRouter.call, its attempts and the chain below a timeout), whatever
\* fails in whatever order.
THEOREM Explanation == Spec => []OutcomeExplained
<1>1. IInv => OutcomeExplained
  BY DEF IInv, Explained, OutcomeExplained
<1> QED
  BY <1>1, Inductive, PTL

\* No agent hands the router's placeholder, or part of a failed stream, on.
THEOREM NoPlaceholder == Spec => []OnlyAnswersUsed
<1>1. IInv => OnlyAnswersUsed
  BY DEF IInv, Sound, OnlyAnswersUsed
<1> QED
  BY <1>1, Inductive, PTL

\* Whatever fails in whatever order, a question costs a bounded number of requests
\* (the attempts of ModelRouter.call and the tiers below the one timeout that starts
\* the chain; OpenAIRouter's own attempts multiply the router's).
THEOREM Bounded == Spec => []RequestsBounded
<1>1. IInv => RequestsBounded
  <2> SUFFICES ASSUME IInv PROVE RequestsBounded
    OBVIOUS
  <2>1. Allowed \in Int /\ CallBound \in Nat /\ Base \in Nat /\ Allowed <= CallBound
    BY AllowedBounded DEF IInv
  <2>2. call.requests \in Nat /\ call.requests <= Base + Allowed
    BY DEF IInv, Shape, Cost
  <2>3. CASE call.round = 1
    BY <2>1, <2>2, <2>3 DEF Base, RequestsBounded
  <2>4. CASE call.round = 2
    BY <2>1, <2>2, <2>4 DEF Base, RequestsBounded
  <2> QED
    BY <2>3, <2>4 DEF IInv, Shape
<1> QED
  BY <1>1, Inductive, PTL

-----------------------------------------------------------------------------
(***************************************************************************)
(* How long a question takes.  A deadline is looked at before each attempt *)
(* and before each tier of the chain, and a request is handed what is left *)
(* of it: so a request that OpenAIRouter does not repeat ends in time.     *)
(***************************************************************************)

\* The question is over in time, for a call whose request is not under way.
InTime == \/ now <= Deadline + Slept(call.attempt)
          \/ now <= Deadline + Overrun

\* The operations of the socket done for the request under way, in all its tries
Operations(tries, reads) == (tries - 1) * (MaxReads + 1) + reads

\* A request under way ends in time if this is its last operation: those before it cost
\* a timeout each, and the tries before this one a sleep each.
EndsInTime ==
  /\ call.limit <= Budgets[call.who]
  /\ call.tries \in 1 .. Tries /\ call.reads \in 0 .. MaxReads
  /\ now + call.limit <= Deadline + Operations(call.tries, call.reads) * call.limit
                            + Paused(call.tries - 1)

Timely ==
  /\ now \in Nat /\ call.began \in Nat /\ call.began <= now
  /\ call.at \in {"http", "stream"} => call.limit \in Nat
  /\ HasDeadline => IF call.at = "http" THEN EndsInTime ELSE InTime

\* A power of two is a number: of the subsets of n things.
LEMMA PowerOfTwo == ASSUME NEW n \in Nat PROVE 2 ^ n \in Nat
<1> DEFINE S == 1 .. n
<1>1. IsFiniteSet(S) /\ Cardinality(S) = n
  BY FS_Interval
<1> HIDE DEF S
<1>2. IsFiniteSet(SUBSET S) /\ Cardinality(SUBSET S) = 2 ^ Cardinality(S)
  BY <1>1, FS_SUBSET
<1>3. Cardinality(SUBSET S) \in Nat
  BY <1>2, FS_CardinalityType
<1> QED
  BY <1>1, <1>2, <1>3

\* The sleeps of the router take time.
LEMMA SleepIsTime ==
  ASSUME NEW n \in 1 .. MaxRetries
  PROVE  BaseDelay * 2 ^ (n - 1) \in Nat /\ Slept(n) \in Nat
<1>1. \A k \in Nat : BaseDelay * 2 ^ k \in Nat
  <2>1. \A a, b \in Nat : a * b \in Nat
    OBVIOUS
  <2> QED
    BY <2>1, PowerOfTwo, DelayAssumption
<1>2. n - 1 \in Nat /\ (n # 1 => n - 2 \in Nat)
  OBVIOUS
<1> QED
  BY <1>1, <1>2 DEF Slept

\* Each attempt of OpenAIRouter adds one more sleep than the last.
LEMMA PausedGrows ==
  ASSUME NEW n \in 1 .. HttpTries
  PROVE  /\ Paused(n - 1) \in Nat /\ Paused(n) \in Nat
         /\ Paused(n) = Paused(n - 1) + (TimeoutPause + ErrorPause) * n
         /\ Paused(n) <= Paused(HttpTries)
         /\ Paused(HttpTries) \in Nat
         /\ TimeoutPause * n \in Nat /\ ErrorPause * n \in Nat
         /\ TimeoutPause * n <= (TimeoutPause + ErrorPause) * n
         /\ ErrorPause * n <= (TimeoutPause + ErrorPause) * n
<1> DEFINE p == TimeoutPause + ErrorPause
           half(k) == (k * (k + 1)) \div 2
<1>1. p \in Nat /\ TimeoutPause \in Nat /\ ErrorPause \in Nat /\ n \in Nat /\ n - 1 \in Nat
  BY DelayAssumption
<1>2. \A k \in Nat : half(k) \in Nat
  OBVIOUS
<1>3. half(n) = half(n - 1) + n
  <2>1. n * (n + 1) = (n - 1) * ((n - 1) + 1) + 2 * n
    BY <1>1
  <2>2. \A x, k \in Nat : (x + 2 * k) \div 2 = x \div 2 + k
    OBVIOUS
  <2>3. (n - 1) * ((n - 1) + 1) \in Nat
    BY <1>1
  <2> QED
    BY <1>1, <2>1, <2>2, <2>3
<1>4. half(n) <= half(HttpTries)
  <2>1. n * (n + 1) <= HttpTries * (HttpTries + 1)
    OBVIOUS
  <2>2. \A x, y \in Nat : x <= y => x \div 2 <= y \div 2
    OBVIOUS
  <2>3. n * (n + 1) \in Nat /\ HttpTries * (HttpTries + 1) \in Nat
    BY <1>1
  <2> QED
    BY <2>1, <2>2, <2>3
<1>5. half(n) \in Nat /\ half(n - 1) \in Nat /\ half(HttpTries) \in Nat
  BY <1>1, <1>2
<1>6. Paused(n) = p * half(n) /\ Paused(n - 1) = p * half(n - 1) /\ Paused(HttpTries) = p * half(HttpTries)
  BY DEF Paused
<1> HIDE DEF half, p
<1>7. /\ \A a, b \in Nat : a * b \in Nat
      /\ \A a, b, c \in Nat : a * (b + c) = a * b + a * c
      /\ \A a, b, c \in Nat : b <= c => a * b <= a * c
  OBVIOUS
<1>8. /\ TimeoutPause * n <= (TimeoutPause + ErrorPause) * n
      /\ ErrorPause * n <= (TimeoutPause + ErrorPause) * n
  <2>1. \A a, b, c \in Nat : a * c <= (a + b) * c /\ b * c <= (a + b) * c
    OBVIOUS
  <2> QED
    BY <1>1, <2>1
<1>9. p * half(n) = p * half(n - 1) + p * n
  BY <1>1, <1>3, <1>5, <1>7
<1>10. p * half(n) <= p * half(HttpTries)
  BY <1>1, <1>4, <1>5, <1>7
<1>11. p * half(n) \in Nat /\ p * half(n - 1) \in Nat /\ p * half(HttpTries) \in Nat
       /\ TimeoutPause * n \in Nat /\ ErrorPause * n \in Nat
  BY <1>1, <1>5, <1>7
<1> QED
  BY <1>6, <1>8, <1>9, <1>10, <1>11 DEF p

\* Deadlines and budgets are times.
LEMMA DeadlineIsTime ==
  ASSUME Shape, Timely, HasDeadline
  PROVE  /\ Budgets[call.who] \in Nat /\ Deadline \in Nat
         /\ Deadline = call.began + Budgets[call.who]
         /\ call.who \notin Streaming
<1>1. Budgets[call.who] \in Nat /\ call.who \notin Streaming
  BY BudgetAssumption DEF Shape, HasDeadline
<1>2. call.began \in Nat
  BY DEF Timely
<1> QED
  BY <1>1, <1>2 DEF Deadline

\* The operations of a request are bounded.
LEMMA OperationsBounded ==
  ASSUME NEW n \in 1 .. Tries, NEW k \in 0 .. MaxReads
  PROVE  /\ Tries \in 1 .. HttpTries
         /\ Operations(n, k) \in Nat
         /\ (MaxReads + 1) * Tries - 1 \in Nat
         /\ Operations(n, k) <= (MaxReads + 1) * Tries - 1
         /\ Operations(n, k) + 1 = Operations(n, k + 1)
         /\ Operations(n, k) + 1 <= Operations(n + 1, 0)
<1>1. Tries \in 1 .. HttpTries /\ MaxReads \in Nat
  BY ReadsAssumption DEF Tries
<1> DEFINE c == MaxReads + 1
           m == Tries
<1>2. c \in Nat \ {0} /\ n \in 1 .. m /\ n - 1 \in Nat /\ m \in Nat \ {0} /\ k \in 0 .. c - 1
  BY <1>1
<1>3. (n - 1) * c \in Nat /\ c * m \in Nat /\ (n - 1) * c + c <= c * m
  <2>1. \A x, y, z \in Nat : x + 1 <= y => x * z \in Nat /\ z * y \in Nat /\ x * z + z <= z * y
    OBVIOUS
  <2>2. n - 1 \in Nat /\ (n - 1) + 1 <= m
    BY <1>2
  <2> QED
    BY <1>2, <2>1, <2>2
<1>4. Operations(n, k) = (n - 1) * c + k /\ Operations(n, k + 1) = (n - 1) * c + (k + 1)
  BY DEF Operations
<1>5. Operations(n + 1, 0) = (n - 1) * c + c
  <2>1. (n + 1) - 1 = n /\ n = (n - 1) + 1
    BY <1>2
  <2>2. \A x, z \in Nat : (x + 1) * z + 0 = x * z + z
    OBVIOUS
  <2> QED
    BY <1>2, <2>1, <2>2 DEF Operations
<1> DEFINE q == (n - 1) * c
           p == c * m
<1>6. /\ q \in Nat /\ p \in Nat /\ q + c <= p
      /\ Operations(n, k) = q + k /\ Operations(n, k + 1) = q + (k + 1)
      /\ Operations(n + 1, 0) = q + c
  BY <1>3, <1>4, <1>5
<1>7. /\ Operations(n, k) \in Nat /\ p - 1 \in Nat /\ Operations(n, k) <= p - 1
      /\ Operations(n, k) + 1 = Operations(n, k + 1)
      /\ Operations(n, k) + 1 <= Operations(n + 1, 0)
  <2> HIDE DEF q, p, c, m
  <2> QED
    BY <1>2, <1>6
<1> QED
  BY <1>1, <1>7

\* What the sleeps of the provider take
Sleeps == IF call.provider = "single" THEN 0 ELSE Paused(HttpTries)

\* What a request may take beyond its timeout is a time.
LEMMA OverrunIsTime ==
  ASSUME Shape, Timely, HasDeadline
  PROVE  /\ Overrun \in Nat /\ Sleeps \in Nat
         /\ Overrun = ((MaxReads + 1) * Tries - 1) * Budgets[call.who] + Sleeps
<1>1. Budgets[call.who] \in Nat
  BY DeadlineIsTime
<1>2. HttpTries \in 1 .. HttpTries
  OBVIOUS
<1>3. Paused(HttpTries) \in Nat
  BY <1>2, PausedGrows
<1>4. (MaxReads + 1) * Tries - 1 \in Nat
  <2>1. 1 \in 1 .. Tries /\ 0 \in 0 .. MaxReads
    BY ReadsAssumption DEF Tries
  <2> QED
    BY <2>1, OperationsBounded
<1>5. ((MaxReads + 1) * Tries - 1) * Budgets[call.who] \in Nat
  <2>1. \A a, b \in Nat : a * b \in Nat
    OBVIOUS
  <2> QED
    BY <1>1, <1>4, <2>1
<1>6. Sleeps \in Nat /\ Overrun = ((MaxReads + 1) * Tries - 1) * Budgets[call.who] + Sleeps
  BY <1>3 DEF Sleeps, Overrun
<1> QED
  BY <1>5, <1>6

\* The sleeps before a try are among those of the request.
LEMMA PauseBounded ==
  ASSUME Shape, NEW n \in 1 .. Tries
  PROVE  /\ Paused(n - 1) \in Nat /\ Paused(n - 1) <= Sleeps
         /\ call.provider = "retrying" => Paused(n) <= Sleeps
<1>1. CASE call.provider = "single"
  <2>1. n = 1 /\ n - 1 = 0
    BY <1>1 DEF Tries
  <2>2. Paused(0) = 0
    <3>1. 0 * (0 + 1) = 0 /\ 0 \div 2 = 0 /\ (TimeoutPause + ErrorPause) * 0 = 0
      BY DelayAssumption
    <3> QED
      BY <3>1 DEF Paused
  <2> QED
    BY <1>1, <2>1, <2>2 DEF Sleeps
<1>2. CASE call.provider = "retrying"
  <2>1. n \in 1 .. HttpTries /\ Sleeps = Paused(HttpTries) /\ HttpTries \in 1 .. HttpTries
    BY <1>2 DEF Tries, Sleeps
  <2>2. /\ Paused(n - 1) \in Nat /\ Paused(n) \in Nat /\ Paused(n) <= Paused(HttpTries)
        /\ Paused(n) = Paused(n - 1) + (TimeoutPause + ErrorPause) * n
        /\ Paused(HttpTries) \in Nat
    BY <2>1, PausedGrows
  <2>3. (TimeoutPause + ErrorPause) * n \in Nat
    BY DelayAssumption, <2>1
  <2> DEFINE q == (TimeoutPause + ErrorPause) * n
  <2>4. q \in Nat /\ Paused(n) = Paused(n - 1) + q
    BY <2>2, <2>3
  <2> HIDE DEF q
  <2> QED
    BY <2>1, <2>2, <2>4
<1> QED
  BY <1>1, <1>2 DEF Shape

\* The timeout of a request ends by the deadline.
LEMMA LimitIsTime ==
  ASSUME Shape, Timely, NEW t \in Tiers, ~ Passed
  PROVE  /\ Limit(t) \in Nat
         /\ HasDeadline => Limit(t) <= Budgets[call.who] /\ now + Limit(t) <= Deadline
<1>1. TierTimeout[t] \in Nat /\ now \in Nat
  BY TimeoutAssumption DEF Timely
<1>2. CASE HasDeadline
  <2>1. /\ Deadline \in Nat /\ Budgets[call.who] \in Nat /\ call.began \in Nat /\ call.began <= now
        /\ Deadline = call.began + Budgets[call.who] /\ now < Deadline
    BY <1>1, <1>2, DeadlineIsTime DEF Passed, Timely
  <2>2. Limit(t) = IF Deadline - now <= TierTimeout[t] THEN Deadline - now ELSE TierTimeout[t]
    BY <1>2 DEF Limit, Lesser
  <2> QED
    BY <1>1, <2>1, <2>2
<1>3. CASE ~ HasDeadline
  BY <1>1, <1>3 DEF Limit
<1> QED
  BY <1>2, <1>3

\* A request under way is not late, however it ends.
LEMMA RequestEnds ==
  ASSUME Shape, Timely, call.at = "http", HasDeadline, NEW d \in 0 .. call.limit
  PROVE  now + d <= Deadline + Overrun
<1> DEFINE n == call.tries
           m == call.limit
           b == Budgets[call.who]
           o == Operations(n, call.reads)
           most == (MaxReads + 1) * Tries - 1
<1>1. /\ now \in Nat /\ m \in Nat /\ b \in Nat /\ Deadline \in Nat /\ m <= b
      /\ n \in 1 .. Tries /\ call.reads \in 0 .. MaxReads
      /\ now + m <= Deadline + o * m + Paused(n - 1)
  BY DeadlineIsTime DEF Timely, EndsInTime
<1>2. now + d <= now + m
  BY <1>1
<1>3. o \in Nat /\ most \in Nat /\ o <= most
  BY <1>1, OperationsBounded
<1>4. o * m <= most * b /\ o * m \in Nat /\ most * b \in Nat
  <2>1. \A x, y, v, w \in Nat : x <= v /\ y <= w => x * y <= v * w /\ x * y \in Nat /\ v * w \in Nat
    OBVIOUS
  <2>2. o \in Nat /\ most \in Nat /\ m \in Nat /\ b \in Nat /\ o <= most /\ m <= b
    BY <1>1, <1>3
  <2> HIDE DEF o, most, m, b
  <2> QED
    BY <2>1, <2>2
<1>5. /\ Overrun = most * b + Sleeps /\ Sleeps \in Nat
      /\ Paused(n - 1) \in Nat /\ Paused(n - 1) <= Sleeps
  <2>1. Overrun = most * b + Sleeps /\ Sleeps \in Nat
    BY OverrunIsTime
  <2>2. Paused(n - 1) \in Nat /\ Paused(n - 1) <= Sleeps
    BY <1>1, PauseBounded
  <2> QED
    BY <2>1, <2>2
<1> DEFINE x == o * m
           y == most * b
           z == Paused(n - 1)
<1>6. /\ x \in Nat /\ y \in Nat /\ z \in Nat /\ x <= y /\ z <= Sleeps /\ Sleeps \in Nat
      /\ Overrun = y + Sleeps /\ now + m <= Deadline + x + z
      /\ now \in Nat /\ m \in Nat /\ Deadline \in Nat
  BY <1>1, <1>4, <1>5
<1>7. now + m <= Deadline + Overrun
  <2> HIDE DEF x, y, z, m
  <2> QED
    BY <1>6
<1> QED
  BY <1>1, <1>2, <1>6, <1>7

\* What a step leaves of the deadline, when it stays with the call.
LEMMA SameCall ==
  ASSUME call'.who = call.who, call'.began = call.began, call'.provider = call.provider
  PROVE  /\ HasDeadline' <=> HasDeadline
         /\ Deadline' = Deadline /\ Overrun' = Overrun /\ Tries' = Tries
BY DEF HasDeadline, Deadline, Overrun, Tries

\* A request is sent: it ends in time.
LEMMA RequestTimely ==
  ASSUME Shape, Timely, NEW t \in Tiers, NEW falling, Request(t, falling)
  PROVE  Timely'
<1>1. /\ call'.at = "http" /\ call'.limit = Limit(t) /\ call'.tries = 1 /\ call'.reads = 0
      /\ call'.who = call.who /\ call'.began = call.began /\ call'.provider = call.provider
      /\ now' = now /\ ~ Passed
  BY DEF Request, Shape, Fields
<1>2. (HasDeadline' <=> HasDeadline) /\ Deadline' = Deadline /\ Tries' = Tries
  BY <1>1, SameCall
<1>3. /\ Limit(t) \in Nat
      /\ HasDeadline => Limit(t) <= Budgets[call.who] /\ now + Limit(t) <= Deadline
  BY <1>1, LimitIsTime
<1>4. now' \in Nat /\ call'.began \in Nat /\ call'.began <= now' /\ call'.limit \in Nat
  BY <1>1, <1>3 DEF Timely
<1>5. ASSUME HasDeadline PROVE EndsInTime'
  <2>1. Deadline \in Nat
    BY <1>5, DeadlineIsTime
  <2>2. Paused(0) = 0
    <3>1. 0 * (0 + 1) = 0 /\ 0 \div 2 = 0 /\ (TimeoutPause + ErrorPause) * 0 = 0
      BY DelayAssumption
    <3> QED
      BY <3>1 DEF Paused
  <2>3. Operations(1, 0) = 0
    BY ReadsAssumption DEF Operations
  <2>4. Operations(call'.tries, call'.reads) * call'.limit = 0 /\ call'.tries - 1 = 0
    BY <1>1, <1>4, <2>3
  <2>5. now' + call'.limit <= Deadline' + Operations(call'.tries, call'.reads) * call'.limit
                                + Paused(call'.tries - 1)
    BY <1>1, <1>2, <1>3, <1>4, <1>5, <2>1, <2>2, <2>4
  <2>6. call'.tries \in 1 .. Tries' /\ call'.reads \in 0 .. MaxReads
    BY <1>1, ReadsAssumption DEF Tries
  <2> QED
    BY <1>1, <1>3, <1>5, <2>5, <2>6 DEF EndsInTime
<1> QED
  BY <1>1, <1>2, <1>4, <1>5 DEF Timely

\* An operation is done, and the next one has the timeout to itself.
LEMMA TransferTimely == ASSUME Shape, Timely, Transfer PROVE Timely'
<1>1. PICK d \in 0 .. call.limit : now' = now + d
  BY DEF Transfer
<1>2. /\ call.at = "http" /\ call.reads < MaxReads /\ call'.at = "http"
      /\ call'.limit = call.limit /\ call'.tries = call.tries /\ call'.reads = call.reads + 1
      /\ call'.who = call.who /\ call'.began = call.began /\ call'.provider = call.provider
  BY DEF Transfer, Shape, Fields
<1>3. (HasDeadline' <=> HasDeadline) /\ Deadline' = Deadline /\ Tries' = Tries
  BY <1>2, SameCall
<1>4. /\ now \in Nat /\ call.limit \in Nat /\ now' \in Nat /\ now' <= now + call.limit
      /\ call.began \in Nat /\ call'.began <= now'
  BY <1>1, <1>2 DEF Timely
<1>5. ASSUME HasDeadline PROVE EndsInTime'
  <2> DEFINE n == call.tries
             m == call.limit
             o == Operations(n, call.reads)
             x == o * m
             z == Paused(n - 1)
  <2>1. /\ Deadline \in Nat /\ n \in 1 .. Tries /\ m <= Budgets[call.who]
        /\ call.reads \in 0 .. MaxReads
        /\ now + m <= Deadline + x + z
    BY <1>2, <1>5, DeadlineIsTime DEF Timely, EndsInTime
  <2>2. o \in Nat /\ Operations(n, call.reads + 1) = o + 1
    BY <2>1, OperationsBounded
  <2>3. z \in Nat
    BY <2>1, PauseBounded
  <2>4. (o + 1) * m = x + m /\ x \in Nat
    <3>1. \A v, y \in Nat : (v + 1) * y = v * y + y /\ v * y \in Nat
      OBVIOUS
    <3>2. o \in Nat /\ m \in Nat
      BY <1>4, <2>2
    <3> HIDE DEF o, m
    <3> QED
      BY <3>1, <3>2
  <2>5. now' + m <= Deadline + (x + m) + z
    <3>1. /\ now \in Nat /\ now' \in Nat /\ m \in Nat /\ x \in Nat /\ z \in Nat /\ Deadline \in Nat
          /\ now + m <= Deadline + x + z /\ now' <= now + m
      BY <1>4, <2>1, <2>3, <2>4
    <3>2. \A a, b, c, u, v, w \in Nat :
            a + c <= u + v + w /\ b <= a + c => b + c <= u + (v + c) + w
      OBVIOUS
    <3> HIDE DEF x, z, m
    <3> QED
      BY <3>1, <3>2
  <2>6. now' + call'.limit <= Deadline' + Operations(call'.tries, call'.reads) * call'.limit
                                + Paused(call'.tries - 1)
    BY <1>2, <1>3, <1>5, <2>2, <2>4, <2>5
  <2>7. /\ call'.tries \in 1 .. Tries' /\ call'.reads \in 0 .. MaxReads
        /\ call'.limit <= Budgets[call'.who]
    BY <1>2, <1>3, <2>1, ReadsAssumption
  <2> QED
    BY <2>6, <2>7 DEF EndsInTime
<1> QED
  BY <1>2, <1>3, <1>4, <1>5 DEF Timely

\* A step that takes no time.
LEMMA NoTime ==
  ASSUME Shape, Timely, now' = now, call.at # "http", call'.at \notin {"http", "stream"},
         call'.who = call.who, call'.began = call.began, call'.provider = call.provider,
         call'.attempt = call.attempt
  PROVE  Timely'
<1>1. (HasDeadline' <=> HasDeadline) /\ Deadline' = Deadline /\ Overrun' = Overrun
  BY SameCall
<1>2. InTime' <=> InTime
  BY <1>1 DEF InTime
<1> QED
  BY <1>1, <1>2 DEF Timely

\* The end of a request: it took some of its time.
LEMMA RequestOver ==
  ASSUME Shape, Timely, call.at = "http", NEW d \in 0 .. call.limit, now' = now + d,
         call'.at \notin {"http", "stream"},
         call'.who = call.who, call'.began = call.began, call'.provider = call.provider
  PROVE  Timely'
<1>1. (HasDeadline' <=> HasDeadline) /\ Deadline' = Deadline /\ Overrun' = Overrun
  BY SameCall
<1>2. now' \in Nat /\ call'.began \in Nat /\ call'.began <= now'
  BY DEF Timely
<1>3. HasDeadline => InTime'
  BY <1>1, RequestEnds DEF InTime
<1> QED
  BY <1>1, <1>2, <1>3 DEF Timely

\* OpenAIRouter's try has failed after d, and it sleeps: another try, or the end.
LEMMA TryOver ==
  ASSUME Shape, Timely, call.at = "http", call.provider = "retrying",
         NEW d \in 0 .. call.limit, NEW pause \in Nat, now' = now + d + pause,
         pause <= (TimeoutPause + ErrorPause) * call.tries, SendAgain
  PROVE  Timely'
<1> DEFINE n == call.tries
           m == call.limit
           o == Operations(n, call.reads)
           q == (TimeoutPause + ErrorPause) * n
           x == o * m
<1>1. n \in Nat /\ m \in Nat /\ now \in Nat /\ call.began \in Nat /\ call.began <= now
  BY DEF Shape, Timely
<1>2. /\ call'.who = call.who /\ call'.began = call.began /\ call'.provider = call.provider
      /\ \/ /\ n < HttpTries /\ call'.at = "http" /\ call'.tries = n + 1
            /\ call'.reads = 0 /\ call'.limit = m
         \/ call'.at = "caught" /\ ~ (n < HttpTries)
  <2>1. CASE n < HttpTries
    <3>1. call' = [call EXCEPT !.tries = @ + 1, !.reads = 0, !.requests = @ + 1]
      BY <2>1 DEF SendAgain
    <3> QED
      BY <2>1, <3>1 DEF Shape, Fields
  <2>2. CASE ~ (n < HttpTries)
    <3>1. call' = [call EXCEPT !.at = "caught", !.failure = "error",
                               !.timedOut = @ \/ "error" = "timeout"]
      BY <2>2 DEF SendAgain, Raise
    <3> QED
      BY <2>2, <3>1 DEF Shape, Fields
  <2> QED
    BY <2>1, <2>2
<1>3. (HasDeadline' <=> HasDeadline) /\ Deadline' = Deadline /\ Overrun' = Overrun /\ Tries' = Tries
  BY <1>2, SameCall
<1>4. now' \in Nat /\ call'.began \in Nat /\ call'.began <= now'
  BY <1>1, <1>2
<1>5. q \in Nat /\ now' <= now + m + q
  <2>1. q \in Nat
    BY <1>1, DelayAssumption
  <2>2. d \in Nat /\ d <= m /\ pause <= q
    BY <1>1
  <2> HIDE DEF q, m
  <2> QED
    BY <1>1, <2>1, <2>2
<1>6. ASSUME HasDeadline
      PROVE  /\ n \in 1 .. Tries /\ Tries = HttpTries /\ m <= Budgets[call.who]
             /\ call.reads \in 0 .. MaxReads
             /\ Deadline \in Nat /\ Paused(n) \in Nat /\ o \in Nat /\ x \in Nat
             /\ now' <= Deadline + x + Paused(n)
  <2>1. /\ EndsInTime /\ Deadline \in Nat /\ Tries = HttpTries
    BY <1>6, DeadlineIsTime DEF Timely, Tries
  <2>2. /\ n \in 1 .. Tries /\ m <= Budgets[call.who] /\ call.reads \in 0 .. MaxReads
        /\ now + m <= Deadline + x + Paused(n - 1)
    BY <2>1 DEF EndsInTime
  <2>3. Paused(n - 1) \in Nat /\ Paused(n) \in Nat /\ Paused(n) = Paused(n - 1) + q
    BY <2>1, <2>2, PausedGrows
  <2>4. o \in Nat
    BY <2>2, OperationsBounded
  <2>5. x \in Nat
    <3>1. \A v, y \in Nat : v * y \in Nat
      OBVIOUS
    <3> QED
      BY <1>1, <2>4, <3>1
  <2> DEFINE z == Paused(n - 1)
             y == Paused(n)
  <2>6. now' <= Deadline + x + y
    <3>1. /\ now \in Nat /\ now' \in Nat /\ m \in Nat /\ x \in Nat /\ z \in Nat /\ y \in Nat
          /\ Deadline \in Nat /\ q \in Nat
          /\ now + m <= Deadline + x + z /\ now' <= now + m + q /\ y = z + q
      BY <1>1, <1>4, <1>5, <2>1, <2>2, <2>3, <2>5
    <3> HIDE DEF x, z, y, m, q
    <3> QED
      BY <3>1
  <2> QED
    BY <2>1, <2>2, <2>3, <2>4, <2>5, <2>6
<1>7. CASE call'.at = "http"
  <2>1. n < HttpTries /\ call'.tries = n + 1 /\ call'.reads = 0 /\ call'.limit = m
    BY <1>2, <1>7
  <2>2. ASSUME HasDeadline PROVE EndsInTime'
    <3>1. /\ call'.tries \in 1 .. Tries' /\ call'.tries - 1 = n /\ call'.reads \in 0 .. MaxReads
          /\ call'.limit <= Budgets[call'.who]
      BY <1>2, <1>3, <1>6, <2>1, <2>2, ReadsAssumption
    <3> DEFINE next == Operations(n + 1, 0)
               y == next * m
               z == Paused(n)
    <3>2. next \in Nat /\ o + 1 <= next
      <4>1. o + 1 <= next
        BY <1>6, <2>2, OperationsBounded
      <4>2. n + 1 \in 1 .. Tries /\ 0 \in 0 .. MaxReads
        BY <1>6, <2>1, <2>2, ReadsAssumption
      <4> QED
        BY <4>1, <4>2, OperationsBounded
    <3>3. x + m <= y /\ y \in Nat
      <4>1. \A u, v, w \in Nat : u + 1 <= v => u * w + w <= v * w /\ v * w \in Nat
        OBVIOUS
      <4>2. o \in Nat /\ next \in Nat /\ m \in Nat /\ o + 1 <= next
        BY <1>1, <1>6, <2>2, <3>2
      <4> HIDE DEF next, o, m
      <4> QED
        BY <4>1, <4>2
    <3>4. now' + m <= Deadline + y + z
      <4>1. /\ x \in Nat /\ y \in Nat /\ x + m <= y /\ m \in Nat /\ now' \in Nat
            /\ now' <= Deadline + x + z /\ Deadline \in Nat /\ z \in Nat
        BY <1>1, <1>4, <1>6, <2>2, <3>3
      <4> HIDE DEF x, y, z, m
      <4> QED
        BY <4>1
    <3>5. now' + call'.limit <= Deadline' + Operations(call'.tries, call'.reads) * call'.limit
                                  + Paused(call'.tries - 1)
      BY <1>3, <2>1, <2>2, <3>1, <3>4
    <3> QED
      BY <3>1, <3>5 DEF EndsInTime
  <2> QED
    BY <1>1, <1>3, <1>4, <1>7, <2>1, <2>2 DEF Timely
<1>8. CASE call'.at = "caught"
  <2>1. ASSUME HasDeadline PROVE now' <= Deadline + Overrun
    <3> DEFINE b == Budgets[call.who]
               most == (MaxReads + 1) * Tries - 1
               y == most * b
               z == Paused(n)
    <3>1. b \in Nat /\ most \in Nat /\ o <= most
      BY <1>6, <2>1, DeadlineIsTime, OperationsBounded
    <3>2. x <= y /\ y \in Nat
      <4>1. \A u, s, v, w \in Nat : u <= v /\ s <= w => u * s <= v * w /\ v * w \in Nat
        OBVIOUS
      <4>2. m <= b /\ o \in Nat /\ m \in Nat /\ b \in Nat /\ most \in Nat /\ o <= most
        BY <1>1, <1>6, <2>1, <3>1
      <4> HIDE DEF o, most, m, b
      <4> QED
        BY <4>1, <4>2
    <3>3. Overrun = y + Sleeps /\ Sleeps \in Nat /\ z <= Sleeps
      <4>1. Overrun = y + Sleeps /\ Sleeps \in Nat
        BY <2>1, OverrunIsTime
      <4>2. z <= Sleeps
        BY <1>6, <2>1, PauseBounded
      <4> QED
        BY <4>1, <4>2
    <3>4. /\ x \in Nat /\ y \in Nat /\ x <= y /\ Overrun = y + Sleeps /\ Sleeps \in Nat
          /\ now' <= Deadline + x + z /\ Deadline \in Nat /\ z \in Nat /\ z <= Sleeps
          /\ now' \in Nat
      BY <1>4, <1>6, <2>1, <3>2, <3>3
    <3> HIDE DEF x, y, z
    <3> QED
      BY <3>4
  <2> QED
    BY <1>3, <1>4, <1>8, <2>1 DEF Timely, InTime
<1> QED
  BY <1>2, <1>7, <1>8

\* No step takes more time than it may.
LEMMA StepTimely == Shape /\ Sound /\ Timely /\ [Next]_vars => Timely'
<1> SUFFICES ASSUME Shape, Sound, Timely, [Next]_vars PROVE Timely'
  OBVIOUS
<1>1. ASSUME call.who \in Streaming PROVE ~ HasDeadline
  BY <1>1, BudgetAssumption DEF HasDeadline
\* A step of a stream, which has no deadline.
<1>2. ASSUME call.who \in Streaming, call'.who = call.who, call'.began = call.began,
             call'.provider = call.provider, now' \in Nat, now <= now',
             call'.at \in {"http", "stream"} => call'.limit \in Nat
      PROVE  Timely'
  <2>1. ~ HasDeadline'
    BY <1>1, <1>2, SameCall
  <2>2. call.began \in Nat /\ call.began <= now /\ now \in Nat
    BY DEF Timely
  <2> QED
    BY <1>2, <2>1, <2>2 DEF Timely
<1>3. CASE StartAttempt
  BY <1>3, RequestTimely DEF StartAttempt, Shape
<1>4. CASE OpenStream
  <2>1. /\ call.who \in Streaming /\ now' = now /\ call'.limit = Limit(call.tier)
        /\ call'.who = call.who /\ call'.began = call.began /\ call'.provider = call.provider
    BY <1>4 DEF OpenStream, Shape, Fields
  <2>2. Limit(call.tier) \in Nat
    BY <1>1, <2>1, TimeoutAssumption DEF Limit, Shape
  <2> QED
    BY <1>2, <2>1, <2>2 DEF Timely
<1>5. CASE ReadStream \/ StreamFails
  <2>1. call.who \in Streaming /\ call.at = "stream" /\ call.limit \in Nat
    BY <1>5 DEF ReadStream, StreamFails, Sound, Timely
  <2>2. PICK d \in 0 .. call.limit : now' = now + d
    BY <1>5 DEF ReadStream, StreamFails
  <2>3. now' \in Nat /\ now <= now'
    BY <2>1, <2>2 DEF Timely
  <2>4. /\ call'.limit = call.limit /\ call'.who = call.who /\ call'.began = call.began
        /\ call'.provider = call.provider
    <3>1. CASE ReadStream
      <4>1. CASE call' = [call EXCEPT !.reads = @ + 1, !.answer = "part"]
        BY <4>1
      <4>2. CASE call' = [call EXCEPT !.at = "parsed", !.answer = "silence"]
        BY <4>2
      <4> QED
        BY <3>1, <4>1, <4>2 DEF ReadStream
    <3>2. CASE StreamFails
      <4>1. PICK kind \in {"timeout", "error"} :
              call' = [call EXCEPT !.at = "raised", !.failure = kind]
        BY <3>2 DEF StreamFails
      <4> QED
        BY <4>1 DEF Shape, Fields
    <3> QED
      BY <1>5, <3>1, <3>2
  <2> QED
    BY <1>2, <2>1, <2>3, <2>4
<1>6. CASE OutOfTime
  <2>1. /\ now' = now /\ call.at = "attempt" /\ call'.at = "spent" /\ call'.who = call.who
        /\ call'.began = call.began /\ call'.provider = call.provider
        /\ call'.attempt = call.attempt
    BY <1>6 DEF OutOfTime, Shape, Fields
  <2> QED
    BY <2>1, NoTime
<1>7. CASE StreamEnds
  <2>1. /\ now' = now /\ call.at = "stream" /\ call'.at = "parsed" /\ call'.who = call.who
        /\ call'.began = call.began /\ call'.provider = call.provider
        /\ call'.attempt = call.attempt
    BY <1>7 DEF StreamEnds, Shape, Fields
  <2> QED
    BY <2>1, NoTime
<1>8. ASSUME now' = now, call.at # "http",
             NEW x, Goto(x), x \notin {"http", "stream"}
      PROVE  Timely'
  <2>1. /\ call'.at = x /\ call'.who = call.who /\ call'.began = call.began
        /\ call'.provider = call.provider /\ call'.attempt = call.attempt
    BY <1>8 DEF Goto, Shape, Fields
  <2> QED
    BY <1>8, <2>1, NoTime
<1>9. ASSUME call.at # "http", Placeholder PROVE Timely'
  <2>1. /\ now' = now /\ call'.at = "answered" /\ call'.who = call.who
        /\ call'.began = call.began /\ call'.provider = call.provider
        /\ call'.attempt = call.attempt
    BY <1>9 DEF Placeholder, Shape, Fields
  <2> QED
    BY <1>9, <2>1, NoTime
<1>10. CASE FallbackEnds
  BY <1>9, <1>10 DEF FallbackEnds
<1>11. CASE GiveUp
  BY <1>8, <1>9, <1>11 DEF GiveUp
<1>12. CASE StopTrying \/ Accept \/ Reject
  BY <1>8, <1>12 DEF StopTrying, Accept, Reject
<1>13. CASE Challenge \/ Review \/ Score \/ Speak
  <2>1. Goto("done") /\ now' = now /\ call.at # "http"
    BY <1>13 DEF Challenge, Review, Score, Speak, Use
  <2> QED
    BY <1>8, <2>1
<1>14. CASE Answered
  <2>1. PICK d \in 0 .. call.limit : now' = now + d
    BY <1>14 DEF Answered
  <2>2. PICK a \in {"json", "text"} : call' = [call EXCEPT !.at = "answered", !.answer = a]
    BY <1>14 DEF Answered
  <2>3. /\ call'.at = "answered" /\ call'.who = call.who /\ call'.began = call.began
        /\ call'.provider = call.provider
    BY <2>2 DEF Shape, Fields
  <2> QED
    BY <1>14, <2>1, <2>3, RequestOver DEF Answered
<1>15. ASSUME call.at = "http", NEW d \in 0 .. call.limit, now' = now + d,
              NEW kind, Raise(kind)
       PROVE  Timely'
  <2>1. /\ call'.at = "caught" /\ call'.who = call.who /\ call'.began = call.began
        /\ call'.provider = call.provider
    BY <1>15 DEF Raise, Shape, Fields
  <2> QED
    BY <1>15, <2>1, RequestOver
<1>16. CASE FailsForGood
  BY <1>15, <1>16 DEF FailsForGood
<1>17. ASSUME call.at = "http"
       PROVE  /\ call.limit \in Nat /\ call.limit \in 0 .. call.limit
              /\ TimeoutPause * call.tries \in Nat /\ ErrorPause * call.tries \in Nat
              /\ TimeoutPause * call.tries <= (TimeoutPause + ErrorPause) * call.tries
              /\ ErrorPause * call.tries <= (TimeoutPause + ErrorPause) * call.tries
  <2>1. call.limit \in Nat /\ call.tries \in Nat
    BY <1>17 DEF Timely, Shape
  <2>2. \A a, b, c \in Nat : a * c \in Nat /\ b * c \in Nat /\ a * c <= (a + b) * c /\ b * c <= (a + b) * c
    OBVIOUS
  <2> QED
    BY <2>1, <2>2, DelayAssumption
<1>18. CASE TimesOut
  <2>1. CASE call.provider = "single" /\ now' = now + call.limit /\ Raise("timeout")
    BY <1>15, <1>17, <1>18, <2>1 DEF TimesOut
  <2>2. CASE /\ call.provider = "retrying"
             /\ now' = now + call.limit + TimeoutPause * call.tries
             /\ SendAgain
    BY <1>17, <1>18, <2>2, TryOver DEF TimesOut
  <2> QED
    BY <1>18, <2>1, <2>2 DEF TimesOut
<1>19. CASE Fails
  <2>1. PICK d \in 0 .. call.limit :
          \/ call.provider = "single" /\ now' = now + d /\ Raise("error")
          \/ /\ call.provider = "retrying"
             /\ now' = now + d + ErrorPause * call.tries
             /\ SendAgain
    BY <1>19 DEF Fails
  <2>2. CASE call.provider = "single" /\ now' = now + d /\ Raise("error")
    BY <1>15, <1>19, <2>2 DEF Fails
  <2>3. CASE /\ call.provider = "retrying"
             /\ now' = now + d + ErrorPause * call.tries
             /\ SendAgain
    BY <1>17, <1>19, <2>3, TryOver DEF Fails
  <2> QED
    BY <2>1, <2>2, <2>3
<1>20. CASE Fallback
  <2>1. Below[call.tier] \in Tiers
    BY <1>20, Chain DEF Fallback, Shape
  <2> QED
    BY <1>20, <2>1, RequestTimely DEF Fallback
<1>21. CASE Backoff
  <2> DEFINE n == call.attempt
             pause == BaseDelay * 2 ^ (n - 1)
  <2>1. /\ call'.at = "attempt" /\ call'.who = call.who /\ call'.began = call.began
        /\ call'.provider = call.provider /\ call'.attempt = n + 1
        /\ now' = now + pause /\ ~ Passed
    BY <1>21 DEF Backoff, Shape, Fields
  <2>2. n \in 1 .. MaxRetries
    BY DEF Shape
  <2>3. pause \in Nat
    BY <2>2, SleepIsTime
  <2>4. Slept(call'.attempt) = pause
    <3>1. (n + 1) - 2 = n - 1 /\ n + 1 # 1
      BY <2>2
    <3> QED
      BY <2>1, <3>1 DEF Slept
  <2>5. (HasDeadline' <=> HasDeadline) /\ Deadline' = Deadline
    BY <2>1, SameCall
  <2> HIDE DEF n, pause
  <2>6. now' \in Nat /\ call'.began \in Nat /\ call'.began <= now'
    BY <2>1, <2>3 DEF Timely
  <2>7. ASSUME HasDeadline PROVE now' <= Deadline + pause
    BY <2>1, <2>3, <2>7, DeadlineIsTime DEF Passed, Timely
  <2> QED
    BY <2>1, <2>4, <2>5, <2>6, <2>7 DEF Timely, InTime
<1>22. CASE AskAgain
  <2>1. /\ call'.at = "attempt" /\ call'.who = call.who /\ call'.began = now /\ now' = now
        /\ call'.attempt = 1
    BY <1>22 DEF AskAgain, Called
  <2>2. now \in Nat
    BY DEF Timely
  <2>3. ASSUME HasDeadline' PROVE now' <= Deadline' + Slept(call'.attempt)
    <3>1. Budgets[call.who] \in Nat
      BY <2>1, <2>3, BudgetAssumption DEF HasDeadline, Shape
    <3>2. Deadline' = now + Budgets[call.who] /\ Slept(call'.attempt) = 0
      BY <2>1 DEF Deadline, Slept
    <3> QED
      BY <2>1, <2>2, <3>1, <3>2
  <2> QED
    BY <2>1, <2>2, <2>3 DEF Timely, InTime
<1>24. CASE Transfer
  BY <1>24, TransferTimely
<1>23. CASE UNCHANGED vars
  <2>1. now' = now /\ call' = call
    BY <1>23 DEF vars
  <2>2. /\ HasDeadline' <=> HasDeadline
        /\ EndsInTime' <=> EndsInTime
        /\ InTime' <=> InTime
    BY <2>1 DEF HasDeadline, EndsInTime, InTime, Deadline, Overrun, Tries
  <2> QED
    BY <2>1, <2>2 DEF Timely
<1> QED
  BY <1>3, <1>4, <1>5, <1>6, <1>7, <1>10, <1>11, <1>12, <1>13, <1>14, <1>16, <1>18, <1>19,
     <1>20, <1>21, <1>22, <1>23, <1>24 DEF Next

\* The rounds of a question: the second begins after what the first may take, since it
\* is asked for after an answer of the model, which came within its request.
Rounds ==
  /\ call.asked \in Nat
  /\ HasDeadline => /\ call.began <= call.asked + (call.round - 1) * Spent
                    /\ call.at = "answered" /\ call.answer # "placeholder"
                         => now <= Deadline + Overrun

\* A step within a round.
LEMMA SameRound ==
  ASSUME Rounds, call'.asked = call.asked, call'.began = call.began, call'.round = call.round,
         call'.who = call.who, call'.provider = call.provider,
         HasDeadline /\ call'.at = "answered"
           => call'.answer = "placeholder" \/ now' <= Deadline + Overrun
  PROVE  Rounds'
<1>1. (HasDeadline' <=> HasDeadline) /\ Deadline' = Deadline /\ Overrun' = Overrun
  BY SameCall
<1>2. Spent' = Spent
  BY <1>1 DEF Spent
<1> QED
  BY <1>1, <1>2 DEF Rounds

\* No round begins later than it may.
LEMMA StepRounds == Shape /\ Explained /\ Sound /\ Timely /\ Rounds /\ [Next]_vars => Rounds'
<1> SUFFICES ASSUME Shape, Explained, Sound, Timely, Rounds, [Next]_vars PROVE Rounds'
  OBVIOUS
<1> USE DEF Shape, Fields
<1>a. ASSUME NEW x, x # "answered", Goto(x) PROVE Rounds'
  <2>1. /\ call'.asked = call.asked /\ call'.began = call.began /\ call'.round = call.round
        /\ call'.who = call.who /\ call'.provider = call.provider /\ call'.at = x
    BY <1>a DEF Goto
  <2> QED
    BY <1>a, <2>1, SameRound
<1>b. ASSUME Placeholder PROVE Rounds'
  <2>1. /\ call'.asked = call.asked /\ call'.began = call.began /\ call'.round = call.round
        /\ call'.who = call.who /\ call'.provider = call.provider
        /\ call'.answer = "placeholder"
    BY <1>b DEF Placeholder
  <2> QED
    BY <2>1, SameRound
\* A step that gives no answer
<1>c. ASSUME call'.asked = call.asked, call'.began = call.began, call'.round = call.round,
             call'.who = call.who, call'.provider = call.provider, call'.at # "answered"
      PROVE  Rounds'
  BY <1>c, SameRound
<1>d. ASSUME NEW kind, Raise(kind) PROVE Rounds'
  <2>1. /\ call'.asked = call.asked /\ call'.began = call.began /\ call'.round = call.round
        /\ call'.who = call.who /\ call'.provider = call.provider /\ call'.at = "caught"
    BY <1>d DEF Raise
  <2> QED
    BY <1>c, <2>1
<1>e. ASSUME NEW t, NEW falling, Request(t, falling) PROVE Rounds'
  <2>1. /\ call'.asked = call.asked /\ call'.began = call.began /\ call'.round = call.round
        /\ call'.who = call.who /\ call'.provider = call.provider /\ call'.at = "http"
    BY <1>e DEF Request
  <2> QED
    BY <1>c, <2>1
<1>f. ASSUME call.at = "http", SendAgain PROVE Rounds'
  <2>1. CASE call' = [call EXCEPT !.tries = @ + 1, !.reads = 0, !.requests = @ + 1]
    <3>1. /\ call'.asked = call.asked /\ call'.began = call.began /\ call'.round = call.round
          /\ call'.who = call.who /\ call'.provider = call.provider /\ call'.at = "http"
      BY <1>f, <2>1
    <3> QED
      BY <1>c, <3>1
  <2> QED
    BY <1>d, <1>f, <2>1 DEF SendAgain
<1>1. CASE StartAttempt \/ Fallback
  BY <1>1, <1>e DEF StartAttempt, Fallback
<1>2. CASE OutOfTime \/ OpenStream \/ StreamEnds \/ Backoff \/ Transfer
  <2>1. /\ call'.asked = call.asked /\ call'.began = call.began /\ call'.round = call.round
        /\ call'.who = call.who /\ call'.provider = call.provider /\ call'.at # "answered"
    <3>1. CASE OutOfTime
      BY <3>1 DEF OutOfTime
    <3>2. CASE OpenStream
      BY <3>2 DEF OpenStream
    <3>3. CASE StreamEnds
      BY <3>3 DEF StreamEnds
    <3>4. CASE Backoff
      BY <3>4 DEF Backoff
    <3>5. CASE Transfer
      BY <3>5 DEF Transfer
    <3> QED
      BY <1>2, <3>1, <3>2, <3>3, <3>4, <3>5
  <2> QED
    BY <1>c, <2>1
<1>3. CASE ReadStream
  <2>1. CASE call' = [call EXCEPT !.reads = @ + 1, !.answer = "part"]
    <3>1. /\ call'.asked = call.asked /\ call'.began = call.began /\ call'.round = call.round
          /\ call'.who = call.who /\ call'.provider = call.provider /\ call'.at # "answered"
      BY <1>3, <2>1 DEF ReadStream
    <3> QED
      BY <1>c, <3>1
  <2>2. CASE call' = [call EXCEPT !.at = "parsed", !.answer = "silence"]
    <3>1. /\ call'.asked = call.asked /\ call'.began = call.began /\ call'.round = call.round
          /\ call'.who = call.who /\ call'.provider = call.provider /\ call'.at # "answered"
      BY <2>2
    <3> QED
      BY <1>c, <3>1
  <2> QED
    BY <1>3, <2>1, <2>2 DEF ReadStream
<1>4. CASE StreamFails
  <2>1. PICK kind \in {"timeout", "error"} : call' = [call EXCEPT !.at = "raised", !.failure = kind]
    BY <1>4 DEF StreamFails
  <2>2. /\ call'.asked = call.asked /\ call'.began = call.began /\ call'.round = call.round
        /\ call'.who = call.who /\ call'.provider = call.provider /\ call'.at # "answered"
    BY <2>1
  <2> QED
    BY <1>c, <2>2
<1>5. CASE Answered
  <2>1. PICK d \in 0 .. call.limit : now' = now + d
    BY <1>5 DEF Answered
  <2>2. PICK a \in {"json", "text"} : call' = [call EXCEPT !.at = "answered", !.answer = a]
    BY <1>5 DEF Answered
  <2>3. /\ call'.asked = call.asked /\ call'.began = call.began /\ call'.round = call.round
        /\ call'.who = call.who /\ call'.provider = call.provider
    BY <2>2
  <2>4. HasDeadline => now' <= Deadline + Overrun
    BY <1>5, <2>1, RequestEnds DEF Answered
  <2> QED
    BY <2>3, <2>4, SameRound
<1>6. CASE TimesOut \/ Fails \/ FailsForGood
  BY <1>d, <1>f, <1>6, Zenon DEF TimesOut, Fails, FailsForGood
<1>7. CASE FallbackEnds
  BY <1>b, <1>7 DEF FallbackEnds
<1>8. CASE StopTrying \/ Accept \/ Reject
  BY <1>a, <1>8 DEF StopTrying, Accept, Reject
<1>9. CASE GiveUp
  BY <1>a, <1>b, <1>9 DEF GiveUp
<1>10. CASE Challenge \/ Review \/ Score \/ Speak
  <2>1. Goto("done")
    BY <1>10 DEF Challenge, Review, Score, Speak, Use
  <2> QED
    BY <1>a, <2>1
<1>11. CASE AskAgain
  <2>1. /\ call'.asked = call.asked /\ call'.began = now /\ call'.round = 2 /\ call.round = 1
        /\ call'.who = call.who /\ call'.provider = call.provider /\ call'.at = "attempt"
        /\ call.at = "answered"
    BY <1>11 DEF AskAgain, Called
  <2>2. call.answer # "placeholder"
    <3>1. call.who = "challenger"
      BY <1>11, <2>1 DEF AskAgain, Sound, Streaming, Structured, Agents
    <3> QED
      BY <1>11, <3>1 DEF AskAgain, HasKeys
  <2>3. (HasDeadline' <=> HasDeadline) /\ Spent' = Spent
    BY <2>1 DEF HasDeadline, Spent, Overrun, Tries
  <2>4. ASSUME HasDeadline PROVE now <= call.asked + Spent
    <3>1. /\ now \in Nat /\ call.began \in Nat /\ call.asked \in Nat
          /\ Budgets[call.who] \in Nat /\ Overrun \in Nat
          /\ Deadline = call.began + Budgets[call.who]
      BY <2>4, DeadlineIsTime, OverrunIsTime DEF Timely, Rounds
    <3>2. now <= Deadline + Overrun
      BY <2>1, <2>2, <2>4 DEF Rounds
    <3>3. Spent \in Nat
      BY <3>1 DEF Spent
    <3>4. (call.round - 1) * Spent = 0
      BY <2>1, <3>3
    <3>5. call.began <= call.asked
      BY <2>4, <3>1, <3>4 DEF Rounds
    <3> QED
      BY <3>1, <3>2, <3>5 DEF Spent
  <2>5. ASSUME HasDeadline PROVE call'.began <= call'.asked + (call'.round - 1) * Spent'
    <3>1. Spent \in Nat
      BY <2>5, DeadlineIsTime, OverrunIsTime DEF Spent
    <3>2. (2 - 1) * Spent = Spent
      BY <3>1
    <3> QED
      BY <2>1, <2>3, <2>4, <2>5, <3>2
  <2>6. call'.asked \in Nat
    BY <2>1 DEF Rounds
  <2> QED
    BY <2>1, <2>3, <2>5, <2>6 DEF Rounds
<1>12. CASE UNCHANGED vars
  <2>1. now' = now /\ call' = call
    BY <1>12 DEF vars
  <2> QED
    BY <2>1 DEF Rounds, HasDeadline, Deadline, Overrun, Spent, Tries
<1> QED
  BY <1>1, <1>2, <1>3, <1>4, <1>5, <1>6, <1>7, <1>8, <1>9, <1>10, <1>11, <1>12 DEF Next

\* A question put with a budget is over, from when it was put, within the budget and what
\* one request may take beyond it, for each round, or within the budget and one sleep of
\* the router (ModelRouter.call, call_json, and the sockets of the providers): whatever
\* the timeouts, the budgets, the number of attempts and of operations of a socket.
THEOREM InGoodTime == Spec => []Punctual
<1>1. Init => Timely /\ Rounds
  <2> SUFFICES ASSUME Init PROVE Timely /\ Rounds
    OBVIOUS
  <2>1. PICK w \in Agents, p \in Providers : call = Called(w, p, 1, now, 0)
    BY DEF Init
  <2>2. /\ call.at = "attempt" /\ call.who = w /\ call.began = 0 /\ call.attempt = 1 /\ now = 0
        /\ call.asked = 0 /\ call.round = 1
    BY <2>1 DEF Called, Init
  <2>3. ASSUME HasDeadline PROVE now <= Deadline + Slept(call.attempt)
    <3>1. Budgets[w] \in Nat
      BY <2>2, <2>3, BudgetAssumption DEF HasDeadline
    <3> QED
      BY <2>2, <3>1 DEF Deadline, Slept
  <2>4. Timely
    BY <2>2, <2>3 DEF Timely, InTime
  <2>5. Shape
    BY InitSound
  <2>6. ASSUME HasDeadline PROVE call.began <= call.asked + (call.round - 1) * Spent
    <3>1. Spent \in Nat
      BY <2>4, <2>5, <2>6, DeadlineIsTime, OverrunIsTime DEF Spent
    <3>2. (call.round - 1) * Spent = 0
      BY <2>2, <3>1
    <3> QED
      BY <2>2, <3>2
  <2> QED
    BY <2>2, <2>4, <2>6 DEF Rounds
<1>2. IInv /\ Timely /\ Rounds /\ [Next]_vars => Timely' /\ Rounds'
  BY StepTimely, StepRounds DEF IInv
<1>3. IInv /\ Timely /\ Rounds => Punctual
  <2> SUFFICES ASSUME IInv, Timely, Rounds, HasDeadline
               PROVE  LET before == call.asked + (call.round - 1) * Spent
                      IN  \/ now <= before + Budgets[call.who] + Slept(call.attempt)
                          \/ now <= before + Spent
    BY DEF Punctual
  <2> DEFINE before == call.asked + (call.round - 1) * Spent
  <2>1. \/ now <= Deadline + Slept(call.attempt)
        \/ now <= Deadline + Overrun
    <3>1. CASE call.at = "http"
      <4>1. call.limit \in Nat /\ 0 \in 0 .. call.limit /\ now \in Nat /\ now + 0 = now
        BY <3>1 DEF Timely
      <4>2. now + 0 <= Deadline + Overrun
        BY <3>1, <4>1, RequestEnds DEF IInv
      <4> QED
        BY <4>1, <4>2
    <3>2. CASE call.at # "http"
      BY <3>2 DEF Timely, InTime
    <3> QED
      BY <3>1, <3>2
  <2>2. /\ now \in Nat /\ call.began \in Nat /\ Budgets[call.who] \in Nat
        /\ Overrun \in Nat /\ Deadline = call.began + Budgets[call.who]
        /\ Slept(call.attempt) \in Nat
    BY DeadlineIsTime, OverrunIsTime, SleepIsTime DEF IInv, Timely, Shape
  <2>3. Spent = Budgets[call.who] + Overrun /\ Spent \in Nat
    BY <2>2 DEF Spent
  <2>4. before \in Nat /\ call.began <= before
    <3>1. call.round - 1 \in Nat /\ call.asked \in Nat
      BY DEF IInv, Shape, Rounds
    <3>2. (call.round - 1) * Spent \in Nat
      BY <2>3, <3>1
    <3> QED
      BY <3>1, <3>2 DEF Rounds
  <2> HIDE DEF before
  <2>5. \/ now <= before + Budgets[call.who] + Slept(call.attempt)
        \/ now <= before + Spent
    BY <2>1, <2>2, <2>3, <2>4
  <2> QED
    BY <2>5 DEF before
<1> QED
  BY <1>1, <1>2, <1>3, Inductive, PTL DEF Spec
=============================================================================
