---------------------------- MODULE BoundedMemory ----------------------------
(***************************************************************************)
(* What a follow-up question relies on: for each session, the memory is    *)
(* the last MaxTurns turns that were answered in it, in the order in which *)
(* they were answered.  A turn of one session changes no other session,    *)
(* except that as many sessions as exceed the capacity, and no more, are   *)
(* forgotten as a whole.                                                   *)
(***************************************************************************)
EXTENDS Naturals, Sequences, FiniteSets

CONSTANTS Sessions, Turns, MaxTurns, MaxSessions

VARIABLE memory  \* memory[s] = the turns remembered of session s

Init == memory = [s \in Sessions |-> << >>]

Remembered(m) == {s \in Sessions : m[s] # << >>}

Newest(turns) ==
  IF Len(turns) <= MaxTurns THEN turns
  ELSE SubSeq(turns, Len(turns) - MaxTurns + 1, Len(turns))

Answer(s, t) ==
  LET known == Remembered(memory) \cup {s} IN
  \E forgotten \in SUBSET (known \ {s}) :
    /\ Cardinality(forgotten) =
         IF Cardinality(known) > MaxSessions THEN Cardinality(known) - MaxSessions ELSE 0
    /\ memory' = [u \in Sessions |->
                    IF u \in forgotten THEN << >>
                    ELSE IF u = s THEN Newest(Append(memory[s], t))
                    ELSE memory[u]]

Restart == memory' = [s \in Sessions |-> << >>]

Next == Restart \/ \E s \in Sessions, t \in Turns : Answer(s, t)

Spec == Init /\ [][Next]_memory
==============================================================================
