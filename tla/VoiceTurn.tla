----------------------------- MODULE VoiceTurn -----------------------------
(***************************************************************************)
(* The voice interview of one session: every turn is a websocket           *)
(* (voice_websocket, adapters/http/app.py) on which the candidate speaks,  *)
(* VoiceRunner.next_turn (adapters/http/voice_runner.py) turns speech into *)
(* a reply, and the reply is sent, spoken and recorded.                    *)
(*                                                                         *)
(* Everything runs on one event loop, so what the code does between two    *)
(* awaits is one step here; but the scoring thread and other processes     *)
(* append to the same log, and an append that loses its race raises.  The  *)
(* client may stop speaking, switch to text or vanish at any moment.  Two  *)
(* sockets of one session are open together when a client that lost its    *)
(* connection comes back before the server has noticed.                    *)
(*                                                                         *)
(* Speech recognition, the model and speech synthesis are external: each   *)
(* may answer or raise.                                                    *)
(***************************************************************************)
EXTENDS Naturals, Sequences, FiniteSets

CONSTANTS Sockets,    \* connections of the session's client, 1 .. n, by first use
          Words,      \* whether what was heard has words: a set of BOOLEAN
          Stages,     \* the number of stages of the case
          TtsOn,      \* TTS_MODE
          MaxTurns,   \* bound: turns per socket
          MaxChunks,  \* bound: audio chunks of one reply
          MaxLost     \* bound: turns of which the log refuses an event

ASSUME SocketsAssumption == Sockets \subseteq Nat \ {0} /\ Words \subseteq BOOLEAN
ASSUME StagesAssumption == Stages \in Nat \ {0}
ASSUME BoundsAssumption == {MaxTurns, MaxChunks, MaxLost} \subseteq Nat /\ TtsOn \in BOOLEAN

VARIABLES log,     \* the session's events, each with the turn it belongs to
          turn,    \* turn[c]: where the handler of socket c stands
          client,  \* client[c]: "open", "switched" to text, or "gone"
          pending  \* FallbackChainTts._events: fallbacks not yet consumed

vars == <<log, turn, client, pending>>

\* n: the turns begun on this socket; shown: the reply's text was sent; audio:
\* chunks handed to the client; lost: an append was refused; cancelled: the
\* client switched to text while it was being listened to; bye: the close code,
\* "normal" is 1000, "error" 1011.
Idle(n) == [at |-> "closed", n |-> n, stage |-> 0, shown |-> FALSE, audio |-> 0,
            lost |-> FALSE, cancelled |-> FALSE, bye |-> "none"]

Init ==
  /\ log = <<>>
  /\ turn = [c \in Sockets |-> Idle(0)]
  /\ client = [c \in Sockets |-> "gone"]
  /\ pending = 0

Id(c) == <<c, turn[c].n>>

Positions(type) == {i \in DOMAIN log : log[i].type = type}

\* _current_stage counts the examiner's spoken turns.
CurrentStage ==
  LET asked == Cardinality(Positions("Examiner"))
  IN IF asked < Stages THEN asked ELSE Stages - 1

Events(types, id) == [i \in DOMAIN types |-> [type |-> types[i], id |-> id]]

\* Append the first k of the events of a turn; after fewer than all of them the
\* next one was refused.
AppendFirst(types, k, id) ==
  /\ k < Len(types) => Cardinality({c \in Sockets : turn[c].lost}) < MaxLost
  /\ log' = log \o Events(SubSeq(types, 1, k), id)

Goto(c, step) == turn' = [turn EXCEPT ![c].at = step]

\* --- the client ----------------------------------------------------------

Client(c, from, to) ==
  /\ turn[c].at \notin {"closed", "abandoned"}
  /\ client[c] \in from
  /\ client' = [client EXCEPT ![c] = to]
  /\ UNCHANGED <<log, pending>>

\* mode_switch "text": the reader ends the audio and closes the socket.  It does
\* so until it has read the end of the speech (audio_chunk with seq -1), after
\* which it reads no more: a switch sent then is as if it had not been.
SwitchToText(c) ==
  /\ Client(c, {"open"}, "switched")
  /\ turn' = [turn EXCEPT ![c].cancelled = (turn[c].at = "listening")]

Disconnect(c) == Client(c, {"open"}, "gone") /\ UNCHANGED turn

\* --- next_turn, up to the reply ------------------------------------------

\* Mutant of Connect: the stage is counted after the turn is entered.
ConnectNextStage(c) ==
  /\ turn[c].at = "closed" /\ turn[c].n < MaxTurns
  /\ LET t == [Idle(turn[c].n + 1) EXCEPT
                 !.stage = IF CurrentStage + 1 < Stages THEN CurrentStage + 1 ELSE CurrentStage]
     IN /\ turn' = [turn EXCEPT ![c] = [t EXCEPT !.at = "listening"]]
        /\ AppendFirst(<<"SpeechStarted">>, 1, <<c, t.n>>)
  /\ client' = [client EXCEPT ![c] = "open"]
  /\ UNCHANGED pending

\* The socket is accepted, the stage read and the turn begun.
Connect(c) ==
  /\ turn[c].at = "closed" /\ turn[c].n < MaxTurns
  /\ \A d \in Sockets : d < c => turn[d].n > 0
  /\ LET t == [Idle(turn[c].n + 1) EXCEPT !.stage = CurrentStage]
     IN \/ /\ AppendFirst(<<"SpeechStarted">>, 1, <<c, t.n>>)
           /\ turn' = [turn EXCEPT ![c] = [t EXCEPT !.at = "listening"]]
        \/ /\ AppendFirst(<<"SpeechStarted">>, 0, <<c, t.n>>)
           /\ turn' = [turn EXCEPT ![c] = [t EXCEPT !.at = "failing", !.lost = TRUE]]
  /\ client' = [client EXCEPT ![c] = "open"]
  /\ UNCHANGED pending

\* Speech recognition ends: with a final text, at the end of the audio, or
\* degraded by a timeout or a lost connection, keeping what it had.  Words in it
\* are scored for communication.
Heard(words) == <<"SpeechFinalized", "Candidate", "Transcript">>
                  \o IF words THEN <<"Communication">> ELSE <<>>

\* Recognition raises anything else: a closed connection, a message it cannot read.
RecognitionFails(c) ==
  /\ turn[c].at = "listening"
  /\ Goto(c, "failing")
  /\ UNCHANGED <<log, client, pending>>

\* What was heard is recorded, and the model replies or raises.
Listen(c) ==
  /\ turn[c].at = "listening"
  /\ \E words \in Words : \E k \in 0 .. Len(Heard(words)) :
       /\ AppendFirst(Heard(words), k, Id(c))
       /\ \/ k = Len(Heard(words)) /\ Goto(c, "reply")
          \/ k = Len(Heard(words)) /\ Goto(c, "failing")
          \/ /\ k < Len(Heard(words))
             /\ turn' = [turn EXCEPT ![c].at = "failing", ![c].lost = TRUE]
  /\ UNCHANGED <<client, pending>>

\* --- the reply -----------------------------------------------------------

\* Sending fails on the socket the reader closed, and sooner or later on one
\* whose client has gone.
SendOk(c) == client[c] # "switched"
SendFails(c) == client[c] \in {"switched", "gone"}

\* Mutant of SendReply: the audio generator is started before the text is sent.
SpeakBeforeText(c) ==
  /\ turn[c].at = "reply"
  /\ \/ SendOk(c) /\ turn' = [turn EXCEPT ![c].at = "speaking", ![c].shown = TRUE]
     \/ SendFails(c) /\ Goto(c, "abandoned")
  /\ UNCHANGED <<log, client, pending>>

\* The transcript and examiner_text; then the audio generator is started.
SendReply(c) ==
  /\ turn[c].at = "reply"
  /\ \/ SendOk(c) /\ turn' = [turn EXCEPT ![c].at = "speaking", ![c].shown = TRUE]
     \/ SendFails(c) /\ Goto(c, "failing")
  /\ UNCHANGED <<log, client, pending>>

Speaking == {"speaking", "speaking again"}

\* Synthesis yields a chunk, which is counted and then sent; when that fails the
\* generator is left suspended at its yield.
SpeakChunk(c) ==
  /\ turn[c].at \in Speaking /\ TtsOn
  /\ turn[c].audio < MaxChunks
  /\ \/ /\ SendOk(c)
        /\ turn' = [turn EXCEPT ![c].audio = @ + 1]
        /\ UNCHANGED client
     \/ /\ SendFails(c)
        /\ turn' = [turn EXCEPT ![c].audio = @ + 1, ![c].at = "abandoned"]
        /\ client' = [client EXCEPT ![c] = "gone"]
  /\ UNCHANGED <<log, pending>>

\* The primary provider raises TtsTimeout or TtsAllFailed only while it opens its
\* stream, before the first chunk.
PrimaryGivesUp(c) == TtsOn /\ turn[c].at = "speaking" /\ turn[c].audio = 0

\* FallbackChainTts: the fallback speaks the text.
FallBack(c) ==
  /\ PrimaryGivesUp(c)
  /\ Goto(c, "speaking again")
  /\ pending' = pending + 1
  /\ UNCHANGED <<log, client>>

\* The fallback cannot open its stream either, or reading from one of the two
\* fails, which the chain does not catch.
SynthesisFails(c) ==
  /\ turn[c].at \in Speaking /\ TtsOn
  /\ Goto(c, "record, then fail")
  /\ UNCHANGED <<log, client, pending>>

SpeechEnds(c) ==
  /\ turn[c].at \in Speaking
  /\ Goto(c, "record")
  /\ UNCHANGED <<log, client, pending>>

\* --- the finally of the audio generator ----------------------------------

\* Every fallback not yet consumed, whichever turn it happened in; then the
\* examiner's turn, its text, its audio if there was any, the latency, and the
\* authenticity score.
Recorded(c) ==
  [i \in 1 .. pending |-> "TierFallback"] \o <<"Examiner", "Text">>
    \o (IF turn[c].audio > 0 THEN <<"Audio">> ELSE <<>>) \o <<"Latency", "Authenticity">>

Recording == {"record", "record, then fail", "abandoned"}

AfterRecord(step) ==
  CASE step = "record"            -> "goodbye"
    [] step = "record, then fail" -> "failing"
    [] step = "abandoned"         -> "closed"

\* Mutant of Record: a refused append is swallowed.
RecordQuietly(c) ==
  /\ turn[c].at \in Recording
  /\ \E k \in 0 .. Len(Recorded(c)) :
       /\ AppendFirst(Recorded(c), k, Id(c))
       /\ turn' = [turn EXCEPT ![c].at = AfterRecord(@), ![c].lost = (k < Len(Recorded(c)))]
  /\ pending' = 0
  /\ UNCHANGED client

\* Mutant of Record: a stream that ends normally and is then closed by an error
\* is recorded by the handler as well.
RecordAgain(c) ==
  /\ turn[c].at \in Recording \cup {"failing"}
  /\ AppendFirst(Recorded(c), Len(Recorded(c)), Id(c))
  /\ Goto(c, IF turn[c].at = "failing" THEN "closed" ELSE AfterRecord(turn[c].at))
  /\ pending' = 0
  /\ UNCHANGED client

\* The generator ends, is raised out of, or is closed when the abandoned one is
\* collected; an error inside it ends the turn as any other.
Record(c) ==
  /\ turn[c].at \in Recording
  /\ LET all == Len(Recorded(c))
     IN \E k \in 0 .. all :
          /\ AppendFirst(Recorded(c), k, Id(c))
          /\ \/ k = all /\ Goto(c, AfterRecord(turn[c].at))
             \/ /\ k < all
                /\ turn' = [turn EXCEPT
                     ![c].at = IF turn[c].at = "abandoned" THEN "closed" ELSE "failing",
                     ![c].lost = TRUE]
  /\ pending' = 0
  /\ UNCHANGED client

\* --- the end of the turn -------------------------------------------------

Close(c, code) ==
  /\ turn' = [turn EXCEPT ![c] = [@ EXCEPT !.at = "closed", !.bye = code]]
  /\ client' = [client EXCEPT ![c] = "gone"]
  /\ UNCHANGED <<log, pending>>

\* The end marker, stage_change and close code 1000
SayGoodbye(c) ==
  /\ turn[c].at = "goodbye"
  /\ \/ SendOk(c) /\ Close(c, "normal")
     \/ SendFails(c) /\ Goto(c, "failing") /\ UNCHANGED <<log, client, pending>>

\* Mutant of Fail: the handler waits for the reader instead of cancelling it.
FailAndWait(c) ==
  /\ turn[c].at = "failing" /\ client[c] # "open"
  /\ Close(c, "error")

\* The handler's except: close code 1011, whether or not it arrives.
Fail(c) ==
  /\ turn[c].at = "failing"
  /\ Close(c, "error")

\* -------------------------------------------------------------------------

Handle(c) ==
  \/ RecognitionFails(c) \/ Listen(c) \/ SendReply(c)
  \/ SpeakChunk(c) \/ FallBack(c) \/ SynthesisFails(c) \/ SpeechEnds(c)
  \/ Record(c) \/ SayGoodbye(c) \/ Fail(c)

Next ==
  \E c \in Sockets :
    \/ Connect(c)
    \/ SwitchToText(c) \/ Disconnect(c)
    \/ Handle(c)

Spec == Init /\ [][Next]_vars

\* Fairness: the event loop runs the handler of an open socket; recognition,
\* model and synthesis answer or time out, each within its own limits.  The
\* client owes nothing.
FairSpec == Spec /\ \A c \in Sockets : WF_vars(Handle(c))

-----------------------------------------------------------------------------
(* Properties. *)

Steps == {"closed", "listening", "reply", "goodbye", "failing"} \cup Speaking \cup Recording

EventTypes == {"SpeechStarted", "SpeechFinalized", "Candidate", "Transcript", "Communication",
               "TierFallback", "Examiner", "Text", "Audio", "Latency", "Authenticity"}

\* Types of the log, of the turns and of what the clients did.
TypeOK ==
  /\ log \in Seq([type : EventTypes, id : Sockets \X Nat])
  /\ turn \in [Sockets -> [at : Steps, n : Nat, stage : 0 .. Stages - 1, shown : BOOLEAN,
                           audio : 0 .. MaxChunks, lost : BOOLEAN, cancelled : BOOLEAN,
                           bye : {"none", "normal", "error"}]]
  /\ client \in [Sockets -> {"open", "switched", "gone"}]
  /\ pending \in Nat

Of(type, id) == {i \in Positions(type) : log[i].id = id}

\* An examiner's turn is recorded once, after the candidate's turn it replies to
\* and the transcript of it, however the socket ended.
RepliesInOrder ==
  \A i \in Positions("Examiner") :
    /\ Of("Examiner", log[i].id) = {i}
    /\ \E a \in Of("Candidate", log[i].id), b \in Of("Transcript", log[i].id) :
         a < b /\ b < i

Over(c) == turn[c].at = "closed" /\ turn[c].n > 0

\* The log has asked what the candidate was asked: a recorded reply was sent to
\* the client, and a reply that was sent is recorded by the end of its turn,
\* unless the log refused it.
ShownIsRecorded ==
  \A c \in Sockets :
    /\ Of("Examiner", Id(c)) # {} => turn[c].shown
    /\ Over(c) /\ turn[c].shown /\ ~ turn[c].lost => Of("Examiner", Id(c)) # {}

\* A socket closed with code 1000 at its end leaves a complete turn: what both
\* said, the latency, the authenticity score, and the audio if and only if some
\* was sent.
GoodbyeMeansComplete ==
  \A c \in Sockets :
    turn[c].bye = "normal" =>
      /\ \A type \in {"SpeechFinalized", "Candidate", "Transcript", "Examiner", "Text",
                      "Latency", "Authenticity"} : Cardinality(Of(type, Id(c))) = 1
      /\ Of("Audio", Id(c)) # {} <=> turn[c].audio > 0

\* A reply is asked for the stage its place in the log has, unless another
\* socket's reply was recorded since its turn began.
StageIsCurrent ==
  \A c \in Sockets :
    \A i \in Of("Examiner", Id(c)), j \in Of("SpeechStarted", Id(c)) :
      LET before == Cardinality({k \in Positions("Examiner") : k < i})
          between == {k \in Positions("Examiner") : j < k /\ k < i}
      IN between = {} => turn[c].stage = IF before < Stages THEN before ELSE Stages - 1

\* Every socket is closed in the end, whatever the client does.
SocketsClose == \A c \in Sockets : turn[c].at # "closed" ~> turn[c].at = "closed"

\* A switch to text while the candidate is speaking cancels the voice turn
\* (voice_protocol.py, ClientModeSwitch): no answer of it is posted.
SwitchCancels ==
  \A c \in Sockets : turn[c].cancelled => Of("Candidate", Id(c)) = {}
=============================================================================
