-------------------------- MODULE ConversationStore --------------------------
(***************************************************************************)
(* The in-process conversation memory,                                     *)
(* app/repository/conversation_store.py: an ordered dictionary from        *)
(* sessions to lists of messages.  Its lock makes get() and add_turn()     *)
(* atomic.  A turn stands for the question and the answer of one request,  *)
(* and a message for its role and its turn.                                *)
(***************************************************************************)
EXTENDS SequencesExt, Naturals

CONSTANTS
  Sessions,     \* session ids
  Turns,        \* one per chat request
  MaxTurns,     \* settings.history_turns
  MaxSessions   \* the capacity of the store

ASSUME MaxTurnsAssumption    == MaxTurns \in Nat
ASSUME MaxSessionsAssumption == MaxSessions \in Nat \ {0}

VARIABLES
  order,  \* the sessions in the dictionary, the oldest first
  msgs    \* msgs[s] = the messages of session s, << >> when it has none

storeVars == <<order, msgs>>

Roles   == {"user", "assistant"}
Message == [role : Roles, turn : Turns]

StoreTypeOK ==
  /\ order \in Seq(Sessions)
  /\ msgs \in [Sessions -> Seq(Message)]

StoreInit ==
  /\ order = << >>
  /\ msgs = [s \in Sessions |-> << >>]

Resident == {order[i] : i \in DOMAIN order}

\* Python's xs[-n:], which for n = 0 is the whole of xs.
LastOf(xs, n) == IF n = 0 \/ n >= Len(xs) THEN xs ELSE SubSeq(xs, Len(xs) - n + 1, Len(xs))

\* Mutant of Exchange: the answer is stored under another role.
ExchangeAi(t) == <<[role |-> "user", turn |-> t], [role |-> "ai", turn |-> t]>>

Exchange(t) == <<[role |-> "user", turn |-> t], [role |-> "assistant", turn |-> t]>>

\* Mutant of Reordered: s keeps its place in the dictionary.
ReorderedInPlace(s) == IF s \in Resident THEN order ELSE Append(order, s)

\* A list of sessions, each there once, without s.
Without(list, s) ==
  IF \E i \in DOMAIN list : list[i] = s
    THEN RemoveAt(list, CHOOSE i \in DOMAIN list : list[i] = s)
    ELSE list

\* The dictionary after add_turn has put s back at its end, before any eviction.
Reordered(s) == Append(Without(order, s), s)

\* s moves to the end of the dictionary with its last messages, and the oldest
\* sessions go while there are too many.
Keep(s, t, messages, sessions) ==
  /\ order' = LastOf(Reordered(s), sessions)
  /\ msgs' = [u \in Sessions |->
                IF u \notin {order'[i] : i \in DOMAIN order'} THEN << >>
                ELSE IF u = s THEN LastOf(msgs[s] \o Exchange(t), messages)
                ELSE msgs[u]]

\* Mutants of AddTurn: half a turn too few is kept, or a session too few.
AddTurnHalf(s, t)   == Keep(s, t, 2 * MaxTurns - 1, MaxSessions)
AddTurnEvicts(s, t) == Keep(s, t, 2 * MaxTurns, MaxSessions - 1)

AddTurn(s, t) == Keep(s, t, 2 * MaxTurns, MaxSessions)

\* The memory lives in the process.
Forget ==
  /\ order' = << >>
  /\ msgs' = [s \in Sessions |-> << >>]
==============================================================================
