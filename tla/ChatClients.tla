----------------------------- MODULE ChatClients -----------------------------
(***************************************************************************)
(* The clients of the chat routes: browser sessions of the Streamlit UI,   *)
(* frontend/app.py, each with the messages it shows and the session id it  *)
(* has been told, and callers of POST /chat.                               *)
(*                                                                         *)
(* A UI client asks one question at a time, over POST /chat/stream.  It    *)
(* learns its session id from the "done" frame and from nothing else, and  *)
(* at any moment it may lose the stream: the connection breaks or times    *)
(* out, or the user's next click makes Streamlit run the script again.     *)
(* The server may or may not notice.                                       *)
(***************************************************************************)
EXTENDS ChatRoutes

CONSTANTS
  Clients,  \* browser sessions of the UI
  NoClient, \* the owner of a turn that no UI client has asked
  NoTurn

ASSUME ClientsAssumption == NoClient \notin Clients /\ NoTurn \notin Turns

VARIABLES
  owner,      \* owner[t] = the client that asked turn t
  messages,   \* messages[c] = st.session_state["messages"]
  session_id, \* session_id[c] = st.session_state["session_id"], or NoSession
  asking      \* asking[c] = the turn whose stream it reads, or NoTurn

clientVars == <<owner, messages, session_id, asking>>
vars       == <<routeVars, clientVars>>

TypeOK ==
  /\ RouteTypeOK
  /\ owner \in [Turns -> Clients \cup {NoClient}]
  /\ messages \in [Clients -> Seq(Message)]
  /\ session_id \in [Clients -> Sessions \cup {NoSession}]
  /\ asking \in [Clients -> Turns \cup {NoTurn}]

Init ==
  /\ RouteInit
  /\ owner = [t \in Turns |-> NoClient]
  /\ messages = [c \in Clients |-> << >>]
  /\ session_id = [c \in Clients |-> NoSession]
  /\ asking = [c \in Clients |-> NoTurn]

\* uuid4().hex: a session that no request has had.
Fresh(s) == \A t \in Turns : session[t] # s

Show(c, role, t) == messages' = [messages EXCEPT ![c] = Append(@, [role |-> role, turn |-> t])]

\* The question is shown and sent.
Submit(c, t) ==
  /\ asking[c] = NoTurn
  /\ owner' = [owner EXCEPT ![t] = c]
  /\ Show(c, "user", t)
  /\ asking' = [asking EXCEPT ![c] = t]
  /\ UNCHANGED session_id

\* The server accepts it, in the session that the client names or in a new one.
SubmitAccepted(c, t) ==
  /\ Submit(c, t)
  /\ IF session_id[c] # NoSession THEN Stream(t, session_id[c])
     ELSE \E s \in Sessions : Fresh(s) /\ Stream(t, s)

SubmitRefused(c, t) == Submit(c, t) /\ TurnedAway(t)

\* POST /chat, by callers that know no session of the UI; one that is turned away
\* changes nothing.
Call(t) ==
  /\ \E s \in Sessions :
       /\ \A u \in Turns : session[u] = s => owner[u] = NoClient
       /\ Chat(t, s)
  /\ UNCHANGED clientVars

Sent(frame, t) == \E i \in DOMAIN frames[t] : frames[t][i] = frame

\* What stream_chat's result says: the turn is answered.
Learns(t) == Sent("done", t) /\ ~Sent("error", t)

\* The stream is closed by the server and has been read to its end.
ReadToTheEnd(c) ==
  LET t == asking[c] IN
  /\ t # NoTurn
  /\ phase[t] \in {"answered", "failed"}
  /\ asking' = [asking EXCEPT ![c] = NoTurn]
  /\ IF Learns(t)
       THEN /\ session_id' = [session_id EXCEPT ![c] = session[t]]
            /\ Show(c, "assistant", t)
       ELSE UNCHANGED <<session_id, messages>>
  /\ UNCHANGED <<owner, routeVars>>

\* The stream is lost, whatever has been sent: an error is shown, or the script
\* has been run again.  The question stays among the messages.
LoseStream(c) ==
  /\ asking[c] # NoTurn
  /\ asking' = [asking EXCEPT ![c] = NoTurn]
  /\ UNCHANGED <<owner, messages, session_id, routeVars>>

\* Mutant of NewConversation: the session id is kept.
NewConversationSameSession(c) ==
  /\ messages' = [messages EXCEPT ![c] = << >>]
  /\ asking' = [asking EXCEPT ![c] = NoTurn]
  /\ UNCHANGED <<owner, session_id, routeVars>>

\* "New conversation", or a restart of the UI; a stream that is read is lost.
NewConversation(c) ==
  /\ messages[c] # << >>
  /\ messages' = [messages EXCEPT ![c] = << >>]
  /\ session_id' = [session_id EXCEPT ![c] = NoSession]
  /\ asking' = [asking EXCEPT ![c] = NoTurn]
  /\ UNCHANGED <<owner, routeVars>>

\* The server finds the connection closed; a connection that breaks is lost by the
\* client first, which comes to the same.
NoticesLoss(t) ==
  /\ \A c \in Clients : asking[c] # t
  /\ Disconnect(t)

Next ==
  \/ \E t \in Turns : Call(t) \/ ((Handle(t) \/ NoticesLoss(t)) /\ UNCHANGED clientVars)
  \/ \E c \in Clients :
       \/ \E t \in Turns : SubmitAccepted(c, t) \/ SubmitRefused(c, t)
       \/ ReadToTheEnd(c) \/ LoseStream(c) \/ NewConversation(c)
  \/ Restart /\ UNCHANGED clientVars

Spec == Init /\ [][Next]_vars

(***************************************************************************)
(* Properties.                                                             *)
(***************************************************************************)
\* The elements of xs that are in S, in their order.
Those(xs, S) == FoldLeft(LAMBDA those, x : IF x \in S THEN Append(those, x) ELSE those, << >>, xs)

ShownBy(c, role) ==
  LET shown == Those(messages[c], [role : {role}, turn : Turns])
  IN [i \in DOMAIN shown |-> shown[i].turn]

\* What a client shows and what the server remembers of its session agree: the
\* answers shown are remembered in the order shown, all since the session entered
\* the memory, and all of them as long as none was forgotten; and what else the
\* memory holds are questions that this client shows without an answer, since their
\* streams were lost or are still read.  So a follow-up is read with the answer
\* that the user has before them, never with a turn of another conversation.
ConversationAgrees ==
  \A c \in Clients :
    session_id[c] # NoSession =>
      LET turns   == kept[session_id[c]]
          answers == ShownBy(c, "assistant")
          known   == Those(turns, ToSet(answers))
      IN /\ IsSuffix(known, answers)
         /\ restarts = 0 /\ Len(byTurn) <= MaxSessions => known = answers
         /\ ToSet(turns) \subseteq ToSet(ShownBy(c, "user"))
         /\ \A t \in ToSet(answers) : session[t] = session_id[c]
==============================================================================
