----------------------------- MODULE ChatRoutes ------------------------------
(***************************************************************************)
(* POST /chat and POST /chat/stream, app/routes/chat_routes.py, over the   *)
(* conversation memory.                                                    *)
(*                                                                         *)
(* A request reads the history of its session when it arrives and adds its *)
(* turn when the pipeline has answered; any number of other requests, of   *)
(* the same session too, may come and go in between.  The stream's frames  *)
(* are sent one at a time, and the client may go away at any of them.      *)
(***************************************************************************)
EXTENDS ConversationStore

CONSTANTS
  NoSession,   \* a request without a session yet
  MaxTokens,   \* bound on the tokens of one stream
  MaxRestarts  \* bound on restarts of the process

ASSUME LimitsAssumption  == MaxTokens \in Nat /\ MaxRestarts \in Nat
ASSUME SessionAssumption == NoSession \notin Sessions

\* "left": the client had gone before the answer; "unheard": after the turn was added.
Phases ==
  {"new", "asked", "streaming", "recorded", "answered", "failed", "left", "unheard"}
Frames == {"token", "done", "error"}

VARIABLES
  phase,    \* phase[t] = where the request of turn t is
  session,  \* session[t] = its session, once it has one
  frames,   \* frames[t] = the frames sent to its client, if it is a stream
  restarts

\* History variables: what was answered, kept apart from what the store holds.
VARIABLES
  kept,     \* kept[s] = the turns added to s since it last entered the store
  byTurn    \* the sessions that have had a turn added, the latest last

history == <<kept, byTurn>>
routeVars == <<storeVars, phase, session, frames, restarts, history>>

RouteTypeOK ==
  /\ StoreTypeOK
  /\ phase \in [Turns -> Phases]
  /\ session \in [Turns -> Sessions \cup {NoSession}]
  /\ frames \in [Turns -> Seq(Frames)]
  /\ restarts \in 0 .. MaxRestarts

RouteInit ==
  /\ StoreInit
  /\ phase = [t \in Turns |-> "new"]
  /\ session = [t \in Turns |-> NoSession]
  /\ frames = [t \in Turns |-> << >>]
  /\ restarts = 0
  /\ kept = [s \in Sessions |-> << >>]
  /\ byTurn = << >>

Latest(s, list) == Append(Without(list, s), s)

Move(t, from, to) ==
  /\ phase[t] = from
  /\ phase' = [phase EXCEPT ![t] = to]

Send(t, frame) == frames' = [frames EXCEPT ![t] = Append(@, frame)]

\* 401, 422 or 429: the request is turned away before it has a session.
TurnedAway(t) ==
  /\ Move(t, "new", "failed")
  /\ UNCHANGED <<storeVars, session, frames, restarts, history>>

\* A request of session s is accepted, and the history is read:
\* _conversations.get(session_id).
Ask(t, s, to) ==
  /\ Move(t, "new", to)
  /\ session' = [session EXCEPT ![t] = s]
  /\ UNCHANGED <<storeVars, frames, restarts, history>>

\* The turn is added: _conversations.add_turn.
Record(t) ==
  LET s == session[t] IN
  /\ AddTurn(s, t)
  /\ kept' = [u \in Sessions |->
                IF u \notin {order'[i] : i \in DOMAIN order'} THEN << >>
                ELSE IF u = s THEN Append(kept[s], t)
                ELSE kept[u]]
  /\ byTurn' = Latest(s, byTurn)
  /\ UNCHANGED <<session, restarts>>

(***************************************************************************)
(* POST /chat.                                                             *)
(***************************************************************************)
Chat(t, s) == Ask(t, s, "asked")

ChatAnswered(t) ==
  /\ Move(t, "asked", "answered")
  /\ Record(t)
  /\ UNCHANGED frames

\* The pipeline raised: 500, 503 or 504.
ChatFailed(t) ==
  /\ Move(t, "asked", "failed")
  /\ UNCHANGED <<storeVars, session, frames, restarts, history>>

(***************************************************************************)
(* POST /chat/stream.                                                      *)
(***************************************************************************)
Stream(t, s) == Ask(t, s, "streaming")

\* A token that the citation scrubber lets through; the last may be its flush.
Token(t) ==
  /\ phase[t] = "streaming"
  /\ Len(frames[t]) < MaxTokens
  /\ Send(t, "token")
  /\ UNCHANGED <<storeVars, phase, session, restarts, history>>

\* Mutant of StreamFailed: the generator goes on after its error frame.
StreamFailsOn(t) ==
  /\ Move(t, "streaming", "recorded")
  /\ Send(t, "error")
  /\ UNCHANGED <<storeVars, session, restarts, history>>

\* The pipeline raised, or it ended without an answer in its state.
StreamFailed(t) ==
  /\ Move(t, "streaming", "failed")
  /\ Send(t, "error")
  /\ UNCHANGED <<storeVars, session, restarts, history>>

\* Mutant of StreamAnswered: the turn of a stream is not added.
StreamUnrecorded(t) ==
  /\ Move(t, "streaming", "recorded")
  /\ UNCHANGED <<storeVars, session, frames, restarts, history>>

\* The answer is complete: the turn is added before the final frame is sent.
StreamAnswered(t) ==
  /\ Move(t, "streaming", "recorded")
  /\ Record(t)
  /\ UNCHANGED frames

Done(t) ==
  /\ Move(t, "recorded", "answered")
  /\ Send(t, "done")
  /\ UNCHANGED <<storeVars, session, restarts, history>>

\* Mutant of Disconnect: the turn is added in a finally clause of the generator.
DisconnectRecords(t) ==
  /\ Move(t, "streaming", "left")
  /\ Record(t)
  /\ UNCHANGED frames

\* The client closes the connection: the generator is closed at its yield.
Disconnect(t) ==
  /\ \/ Move(t, "streaming", "left")
     \/ Move(t, "recorded", "unheard")
  /\ UNCHANGED <<storeVars, session, frames, restarts, history>>

\* Requests in flight die with the process.
Restart ==
  /\ restarts < MaxRestarts
  /\ restarts' = restarts + 1
  /\ Forget
  /\ phase' = [t \in Turns |->
                 CASE phase[t] \in {"asked", "streaming"} -> "left"
                   [] phase[t] = "recorded"              -> "unheard"
                   [] OTHER                              -> phase[t]]
  /\ kept' = [s \in Sessions |-> << >>]
  /\ byTurn' = << >>
  /\ UNCHANGED <<session, frames>>

\* A step of the request of turn t once it has been accepted.
Handle(t) ==
  \/ ChatAnswered(t) \/ ChatFailed(t)
  \/ Token(t) \/ StreamFailed(t) \/ StreamAnswered(t) \/ Done(t)

(***************************************************************************)
(* Properties.                                                             *)
(***************************************************************************)
\* The store holds, for each session, whole exchanges: the last MaxTurns turns
\* answered in it since it entered the store, in the order they were answered,
\* whichever requests overlapped.  No turn is lost, doubled, split or given to
\* another session.
Remembers ==
  \A s \in Sessions :
    /\ msgs[s] # << >> <=> s \in Resident
    /\ LET turns == LastOf(kept[s], MaxTurns) IN
         /\ Len(msgs[s]) = 2 * Len(turns)
         /\ \A i \in DOMAIN turns : SubSeq(msgs[s], 2 * i - 1, 2 * i) = Exchange(turns[i])

\* A session is listed once, and the sessions forgotten are those whose last
\* turn is the oldest: the dictionary is an end of the list of sessions by turn.
EvictsOldest == order = LastOf(byTurn, MaxSessions)

\* A stream is tokens, then at most one final frame: "done" when its turn was
\* answered and "error" when it failed, never both and never anything after it.
OneFinalFrame ==
  \A t \in Turns : \A i \in DOMAIN frames[t] :
    /\ i < Len(frames[t]) => frames[t][i] = "token"
    /\ frames[t][i] = "done" => phase[t] = "answered"
    /\ frames[t][i] = "error" => phase[t] = "failed"

Remembered(s) == {msgs[s][i].turn : i \in DOMAIN msgs[s]}

\* A turn that was answered is in the memory of its session, or a full memory of later
\* ones is, as long as no session had to be forgotten: also when its client had gone
\* unnoticed, or goes before it has been told.  A turn that failed, or whose stream the
\* server found closed before the answer was complete, is in no memory.
AnsweredIsRemembered ==
  \A t \in Turns :
    /\ phase[t] \in {"recorded", "answered", "unheard"} /\ restarts = 0
         /\ Len(byTurn) <= MaxSessions =>
         t \in Remembered(session[t]) \/ Len(msgs[session[t]]) = 2 * MaxTurns
    /\ phase[t] \in {"new", "asked", "streaming", "failed", "left"} =>
         \A s \in Sessions : t \notin Remembered(s)

(***************************************************************************)
(* The memory that the store implements.                                   *)
(***************************************************************************)
TurnsOf(s) == [i \in 1 .. Len(msgs[s]) \div 2 |-> msgs[s][2 * i].turn]

Memory == INSTANCE BoundedMemory WITH memory <- [s \in Sessions |-> TurnsOf(s)]

\* The store implements the bounded memory of BoundedMemory.
ImplementsMemory == Memory!Spec
==============================================================================
