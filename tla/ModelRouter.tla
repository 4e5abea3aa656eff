---------------------------- MODULE ModelRouter ----------------------------
(***************************************************************************)
(* One question to the language model, from the agent that asks it to the  *)
(* HTTP requests it costs: the challenger, the examiner or the problem     *)
(* scorer calls ModelRouter.call_json (adapters/llm/router.py), which      *)
(* calls a provider up to max_retries times and, after a timeout, down the *)
(* chain of tiers to a placeholder; the voice runner asks for a stream,    *)
(* which the providers open only when it is read, past the router's care.  *)
(*                                                                         *)
(* Two providers: "single" sends one request and raises what happened to   *)
(* it (adapters/llm/openrouter_router.py, and what the tests stand in);    *)
(* "retrying" is OpenAIRouter, the one the factory builds, with attempts   *)
(* and pauses of its own under the one timeout it was given.               *)
(*                                                                         *)
(* Time passes in requests and in sleeps, in ticks.  The timeout handed to *)
(* urlopen is one for each operation of the socket: to connect, to send    *)
(* and to read a part of the answer may take that long each.  What the     *)
(* model answers is kept as far as the callers tell answers apart: JSON    *)
(* with the keys asked for ("json"), or not ("text").                      *)
(***************************************************************************)
EXTENDS Integers

CONSTANTS None,          \* deadline_ms=None; no failure, no answer yet
          TierTimeout,   \* TierTimeout[t]: cheap_timeout, mid_timeout, top_timeout
          Budgets,       \* Budgets[w]: the deadline_ms agent w passes, or None
          Providers,     \* the providers considered, of "single" and "retrying"
          MaxRetries,    \* ModelRouter.max_retries
          HttpTries,     \* OpenAIRouter.max_retries
          BaseDelay,     \* the router's first backoff
          MaxReads,      \* bound: operations of the socket before the last of a request
          TimeoutPause, ErrorPause \* OpenAIRouter's sleeps, times the attempt

Tiers  == {"cheap", "mid", "top"}
Agents == {"challenger", "examiner", "scorer", "voice"}

\* The agents that ask for a stream, which they do without a deadline.
Streaming == {"voice"}

\* How a request fails, and what there is to use in the end.
Failures == {"timeout", "error"}
Answers  == {"json", "text", "placeholder", "part", "silence"}

ASSUME NoneAssumption == None \notin Int \cup Tiers \cup Failures \cup Answers
ASSUME TimeoutAssumption == TierTimeout \in [Tiers -> Nat]
ASSUME BudgetAssumption == /\ Budgets \in [Agents -> Nat \cup {None}]
                           /\ \A w \in Streaming : Budgets[w] = None
ASSUME ProviderAssumption == Providers \subseteq {"single", "retrying"}
ASSUME TriesAssumption == MaxRetries \in Nat \ {0} /\ HttpTries \in Nat \ {0}
ASSUME ReadsAssumption == MaxReads \in Nat
ASSUME DelayAssumption == BaseDelay \in Nat /\ TimeoutPause \in Nat /\ ErrorPause \in Nat

VARIABLES now,   \* time.monotonic()
          call,  \* the question in progress: its caller and the locals of the router
          used   \* what the agent made of the answer, or None

vars == <<now, call, used>>

TierOf == [challenger |-> "top", examiner |-> "mid", scorer |-> "mid", voice |-> "mid"]

\* The agents that pass json_schema, which call_json asks for once.
Structured == {"examiner", "scorer"}

Below == [top |-> "mid", mid |-> "cheap", cheap |-> None]

Lesser(a, b) == IF a <= b THEN a ELSE b

\* A call of ModelRouter.call by agent w, the n-th of its question.
\* It has a deadline of its own; asked is when the agent put the question.
Called(w, provider, n, asked, requests) ==
  [at |-> "attempt", who |-> w, provider |-> provider, round |-> n,
   asked |-> asked, began |-> now, attempt |-> 1, tier |-> TierOf[w], falling |-> FALSE,
   limit |-> 0, tries |-> 0, reads |-> 0, requests |-> requests,
   failure |-> None, timedOut |-> FALSE, answer |-> None]

Init ==
  /\ now = 0
  /\ used = None
  /\ \E w \in Agents, p \in Providers : call = Called(w, p, 1, now, 0)

\* --- time ----------------------------------------------------------------

HasDeadline == Budgets[call.who] # None
Deadline == call.began + Budgets[call.who]

Passed == HasDeadline /\ now >= Deadline

\* The timeout of a request at tier t.
Limit(t) == IF HasDeadline THEN Lesser(Deadline - now, TierTimeout[t]) ELSE TierTimeout[t]

Goto(step) == call' = [call EXCEPT !.at = step]

\* --- requests ------------------------------------------------------------

\* provider.call at tier t
Request(t, falling) ==
  /\ ~ Passed
  /\ call' = [call EXCEPT !.at = "http", !.tier = t, !.falling = falling,
                          !.limit = Limit(t), !.tries = 1, !.reads = 0,
                          !.requests = @ + 1]
  /\ UNCHANGED <<now, used>>

\* Mutant of StartAttempt: the tier's timeout is used as it is.
StartUncapped ==
  /\ call.at = "attempt"
  /\ ~ Passed
  /\ call' = [call EXCEPT !.at = "http", !.limit = TierTimeout[call.tier], !.tries = 1,
                          !.reads = 0, !.requests = @ + 1]
  /\ UNCHANGED <<now, used>>

\* The next attempt of ModelRouter.call
StartAttempt ==
  /\ call.at = "attempt" /\ call.who \notin Streaming
  /\ Request(call.tier, FALSE)

\* The deadline has passed before the attempt; an earlier failure is kept.
OutOfTime ==
  /\ call.at = "attempt" /\ Passed
  /\ call' = [call EXCEPT !.at = "spent",
                          !.failure = IF @ = None THEN "timeout" ELSE @]
  /\ UNCHANGED <<now, used>>

\* An operation of the socket is done, and it is not the last of the request: the
\* next one may take the whole timeout again.
Transfer ==
  /\ call.at = "http" /\ call.reads < MaxReads
  /\ \E d \in 0 .. call.limit : now' = now + d
  /\ call' = [call EXCEPT !.reads = @ + 1]
  /\ UNCHANGED used

\* The last of the answer was read.
Answered ==
  /\ call.at = "http"
  /\ \E d \in 0 .. call.limit : now' = now + d
  /\ \E a \in {"json", "text"} : call' = [call EXCEPT !.at = "answered", !.answer = a]
  /\ UNCHANGED used

\* What leaves the provider as an exception reaches the router.
Raise(kind) ==
  call' = [call EXCEPT !.at = "caught", !.failure = kind,
                       !.timedOut = @ \/ kind = "timeout"]

\* OpenAIRouter sleeps, and sends the request again with the same timeout;
\* after its last attempt it sleeps as well, and raises RuntimeError.
SendAgain ==
  IF call.tries < HttpTries
  THEN call' = [call EXCEPT !.tries = @ + 1, !.reads = 0, !.requests = @ + 1]
  ELSE Raise("error")

\* An operation of the socket takes longer than the limit.
TimesOut ==
  /\ call.at = "http"
  /\ \/ call.provider = "single" /\ now' = now + call.limit /\ Raise("timeout")
     \/ /\ call.provider = "retrying"
        /\ now' = now + call.limit + TimeoutPause * call.tries
        /\ SendAgain
  /\ UNCHANGED used

\* 429, 5xx or no connection: transient to OpenAIRouter
Fails ==
  /\ call.at = "http"
  /\ \E d \in 0 .. call.limit :
       \/ call.provider = "single" /\ now' = now + d /\ Raise("error")
       \/ /\ call.provider = "retrying"
          /\ now' = now + d + ErrorPause * call.tries
          /\ SendAgain
  /\ UNCHANGED used

\* Any other status, or a body that does not parse
FailsForGood ==
  /\ call.at = "http"
  /\ \E d \in 0 .. call.limit : now' = now + d
  /\ Raise("error")
  /\ UNCHANGED used

\* --- call_streaming_with_metrics -----------------------------------------

\* call returns the provider's generator at once; its request is sent when the
\* first chunk is asked for.
OpenStream ==
  /\ call.at = "attempt" /\ call.who \in Streaming
  /\ call' = [call EXCEPT !.at = "stream", !.limit = Limit(call.tier), !.requests = @ + 1]
  /\ UNCHANGED <<now, used>>

\* A chunk.  Each read has the timeout to itself.  An empty first chunk, which only
\* OpenAIRouter yields, is taken for an empty response, and the rest is not read.
ReadStream ==
  /\ call.at = "stream" /\ call.reads < MaxReads
  /\ \E d \in 0 .. call.limit : now' = now + d
  /\ \/ call' = [call EXCEPT !.reads = @ + 1, !.answer = "part"]
     \/ /\ call.provider = "retrying" /\ call.answer = None
        /\ call' = [call EXCEPT !.at = "parsed", !.answer = "silence"]
  /\ UNCHANGED used

\* The last chunk was read.
StreamEnds ==
  /\ call.at = "stream"
  /\ call' = [call EXCEPT !.at = "parsed",
                          !.answer = IF @ = None THEN "silence" ELSE "text"]
  /\ UNCHANGED <<now, used>>

\* A timeout, an error or a broken connection leaves the generator, and the router:
\* no attempt follows, and what was read is lost.
StreamFails ==
  /\ call.at = "stream"
  /\ \E d \in 0 .. call.limit : now' = now + d
  /\ \E kind \in {"timeout", "error"} :
       call' = [call EXCEPT !.at = "raised", !.failure = kind]
  /\ UNCHANGED used

\* --- ModelRouter.call after a failure ------------------------------------

\* A timeout with time left, or anything within the chain: the next tier below.
Fallback ==
  /\ call.at = "caught"
  /\ call.falling \/ (call.failure = "timeout" /\ ~ Passed)
  /\ Below[call.tier] # None
  /\ Request(Below[call.tier], TRUE)

Placeholder ==
  /\ call' = [call EXCEPT !.at = "answered", !.answer = "placeholder"]
  /\ UNCHANGED <<now, used>>

\* The end of the chain
FallbackEnds ==
  /\ call.at = "caught"
  /\ call.falling \/ (call.failure = "timeout" /\ ~ Passed)
  /\ Below[call.tier] = None \/ Passed
  /\ Placeholder

\* Mutant of Backoff: one attempt too many.
BackoffOnceMore ==
  /\ call.at = "caught" /\ ~ call.falling
  /\ call.failure = "error" /\ ~ Passed
  /\ call.attempt <= MaxRetries
  /\ now' = now + BaseDelay * 2 ^ (call.attempt - 1)
  /\ call' = [call EXCEPT !.at = "attempt", !.attempt = @ + 1]
  /\ UNCHANGED used

\* An error outside the chain: sleep, then the next attempt.
Backoff ==
  /\ call.at = "caught" /\ ~ call.falling
  /\ call.failure = "error" /\ ~ Passed
  /\ call.attempt < MaxRetries
  /\ now' = now + BaseDelay * 2 ^ (call.attempt - 1)
  /\ call' = [call EXCEPT !.at = "attempt", !.attempt = @ + 1]
  /\ UNCHANGED used

\* The last attempt, or no time for another
StopTrying ==
  /\ call.at = "caught" /\ ~ call.falling
  /\ call.failure = "error" \/ Passed
  /\ call.attempt = MaxRetries \/ Passed
  /\ Goto("spent")
  /\ UNCHANGED <<now, used>>

\* Mutant of GiveUp: the last failure is raised whatever it was.
GiveUpLoudly ==
  /\ call.at = "spent"
  /\ Goto("raised") /\ UNCHANGED <<now, used>>

\* A timeout last: the placeholder; anything else: RuntimeError.
GiveUp ==
  /\ call.at = "spent"
  /\ \/ call.failure = "timeout" /\ Placeholder
     \/ call.failure # "timeout" /\ Goto("raised") /\ UNCHANGED <<now, used>>

\* --- call_json -----------------------------------------------------------

\* The placeholder is a JSON object with the challenger's keys.
HasKeys == \/ call.answer = "json"
           \/ call.answer = "placeholder" /\ call.who = "challenger"

Accept ==
  /\ call.at = "answered" /\ HasKeys
  /\ Goto("parsed") /\ UNCHANGED <<now, used>>

\* Without a json_schema a useless answer is asked for once more, with a
\* deadline of its own.
AskAgain ==
  /\ call.at = "answered" /\ ~ HasKeys
  /\ call.who \notin Structured /\ call.round = 1
  /\ call' = Called(call.who, call.provider, 2, call.asked, call.requests)
  /\ UNCHANGED <<now, used>>

Reject ==
  /\ call.at = "answered" /\ ~ HasKeys
  /\ call.who \in Structured \/ call.round = 2
  /\ Goto("raised") /\ UNCHANGED <<now, used>>

\* --- the agents ----------------------------------------------------------

Use(what) == /\ used' = what
             /\ Goto("done")
             /\ UNCHANGED now

\* Mutant of Challenge: the placeholder is taken for a prompt.
ChallengeAsIs ==
  /\ call.who = "challenger"
  /\ \/ call.at = "parsed" /\ \E u \in {call.answer, "canned"} : Use(u)
     \/ call.at = "raised" /\ Use("canned")

\* LlmChallenger.propose_prompts: the model's prompt, unless it is empty or
\* starts as the placeholder's does, or the canned one.
Challenge ==
  /\ call.who = "challenger"
  /\ \/ call.at = "parsed" /\ call.answer # "placeholder" /\ Use("json")
     \/ call.at \in {"parsed", "raised"} /\ Use("canned")

\* What LlmExaminer._parse_outcome makes of an object with an action: a probe with
\* its text, a close, or an error.
ParsedOutcomes == IF call.answer = "json" THEN {"probe", "close", "failed"} ELSE {"failed"}

\* LlmExaminer.review: the parsed outcome, or the failure outcome.
Review ==
  /\ call.who = "examiner"
  /\ \/ call.at = "parsed" /\ \E outcome \in ParsedOutcomes : Use(outcome)
     \/ call.at = "raised" /\ Use("failed")

\* ProblemLlmScorer.score_problem: a list of signals, or heuristic ones.
Score ==
  /\ call.who = "scorer"
  /\ \/ call.at = "parsed" /\ Use(call.answer)
     \/ call.at \in {"parsed", "raised"} /\ Use("heuristic")

\* VoiceRunner.next_turn: the reply, which may be nothing; an exception ends the turn.
Speak ==
  /\ call.who = "voice"
  /\ \/ call.at = "parsed" /\ Use(call.answer)
     \/ call.at = "raised" /\ Use("failed")

\* -------------------------------------------------------------------------

Next ==
  \/ StartAttempt \/ OutOfTime
  \/ OpenStream \/ ReadStream \/ StreamEnds \/ StreamFails
  \/ Transfer \/ Answered \/ TimesOut \/ Fails \/ FailsForGood
  \/ Fallback \/ FallbackEnds \/ Backoff \/ StopTrying \/ GiveUp
  \/ Accept \/ AskAgain \/ Reject
  \/ Challenge \/ Review \/ Score \/ Speak

Spec == Init /\ [][Next]_vars

-----------------------------------------------------------------------------
(* Properties. *)

Steps == {"attempt", "http", "stream", "caught", "spent", "answered", "raised",
          "parsed", "done"}

\* Types of the call and of what becomes of it; the times are left to Punctual.
TypeOK ==
  /\ call.at \in Steps /\ call.who \in Agents /\ call.provider \in {"single", "retrying"}
  /\ call.round \in 1 .. 2 /\ call.attempt \in 1 .. MaxRetries
  /\ call.tier \in Tiers /\ call.falling \in BOOLEAN /\ call.tries \in Nat
  /\ call.reads \in Nat
  /\ call.requests \in Nat /\ call.failure \in Failures \cup {None}
  /\ call.timedOut \in BOOLEAN /\ call.answer \in Answers \cup {None}
  /\ used \in Answers \cup {None, "canned", "failed", "heuristic", "probe", "close"}

\* The requests one call of the router may cost: every attempt once, and the
\* tiers below after the one timeout that starts the chain; OpenAIRouter
\* multiplies the attempts and, raising no timeout, never starts the chain; a
\* stream is opened once.
ChainLength == [top |-> 2, mid |-> 1, cheap |-> 0]

CallBound ==
  IF call.who \in Streaming THEN 1
  ELSE IF call.provider = "single" THEN MaxRetries + ChainLength[TierOf[call.who]]
  ELSE MaxRetries * HttpTries

\* A question costs a bounded number of requests, whatever fails in whatever
\* order: retries and the fallback chain add up and never multiply.
RequestsBounded == call.requests <= call.round * CallBound

\* OpenAIRouter's sleeps after its first n attempts, as long as they can be
Paused(n) == (TimeoutPause + ErrorPause) * ((n * (n + 1)) \div 2)

\* The router's sleep before attempt n
Slept(n) == IF n = 1 THEN 0 ELSE BaseDelay * 2 ^ (n - 2)

\* The attempts the provider makes of a request
Tries == IF call.provider = "single" THEN 1 ELSE HttpTries

\* What a request may take beyond its timeout: every operation of the socket but one
\* has the timeout to itself, in every attempt of the provider, which sleeps after each.
Overrun == ((MaxReads + 1) * Tries - 1) * Budgets[call.who]
             + (IF call.provider = "single" THEN 0 ELSE Paused(HttpTries))

\* What one call of the router may take, its sleeps beyond the deadline left aside.
Spent == Budgets[call.who] + Overrun

\* From the moment an agent puts a question with a budget, the question is over within
\* the budget and what one request may take beyond it, however many attempts, sleeps and
\* tiers it took: nothing is sent once the budget is used up, so overruns do not add up.
\* Or it is over within the budget and one sleep of the router, which began in time;
\* the two do not add up, since no request is sent after such a sleep.  The budget is
\* one for each round: the challenger's second one (router.py:201) begins with a fresh
\* budget after all that the first may have taken.
Punctual ==
  LET before == call.asked + (call.round - 1) * Spent
  IN  HasDeadline => \/ now <= before + Budgets[call.who] + Slept(call.attempt)
                     \/ now <= before + Spent

\* The router raises only when no request of the call has timed out, and makes
\* the placeholder up only when one has, or the time was up before a request;
\* OpenAIRouter's timeouts never reach it, and start no chain.  (A stream's failure
\* passes the router by.)
OutcomeExplained ==
  /\ call.at = "raised" /\ call.answer = None => ~ call.timedOut
  /\ call.answer = "placeholder" => call.timedOut \/ Passed
  /\ call.provider = "retrying" => ~ call.timedOut /\ ~ call.falling

\* What the agents hand on to the interview is never the router's placeholder,
\* although it is a JSON object with the keys of one of them, nor a part of a
\* stream that failed.
OnlyAnswersUsed == used \notin {"placeholder", "part"}
=============================================================================
