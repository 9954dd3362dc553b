-------------------------- MODULE ChatClientsProofs ---------------------------
(***************************************************************************)
(* Proofs about the chat routes, their memory and their clients, for any   *)
(* sessions, turns, clients and bounds: the memory holds the last whole    *)
(* exchanges of each session, it implements BoundedMemory, and a stream    *)
(* has one final frame.                                                    *)
(***************************************************************************)
EXTENDS ChatClients, FoldFacts, SequenceTheorems, FiniteSetTheorems, TLAPS

LEMMA Bounds ==
  MaxTurns \in Nat /\ MaxSessions \in Nat \ {0} /\ MaxTokens \in Nat /\ MaxRestarts \in Nat
  BY MaxTurnsAssumption, MaxSessionsAssumption, LimitsAssumption

(***************************************************************************)
(* Lemmas about sequences.                                                 *)
(***************************************************************************)
LEMMA SeqFacts ==
  ASSUME NEW S, NEW xs \in Seq(S)
  PROVE  /\ Len(xs) \in Nat /\ DOMAIN xs = 1 .. Len(xs)
         /\ \A i \in 1 .. Len(xs) : xs[i] \in S
         /\ xs = << >> <=> Len(xs) = 0
  BY LenProperties, ElementOfSeq, EmptySeq

\* A slice of a sequence.
LEMMA SliceFacts ==
  ASSUME NEW S, NEW xs \in Seq(S), NEW m \in Nat \ {0}, NEW n \in Nat, n <= Len(xs), m <= n + 1
  PROVE  /\ SubSeq(xs, m, n) \in Seq(S)
         /\ Len(SubSeq(xs, m, n)) = n - m + 1
         /\ \A i \in 1 .. n - m + 1 : SubSeq(xs, m, n)[i] = xs[m + i - 1]
<1>1. Len(xs) \in Nat /\ \A i \in 1 .. Len(xs) : xs[i] \in S
  BY SeqFacts
<1>2. m \in Int /\ n \in Int /\ \A i \in m .. n : xs[i] \in S
  BY <1>1
<1>3. /\ SubSeq(xs, m, n) \in Seq(S)
      /\ Len(SubSeq(xs, m, n)) = IF m <= n THEN n - m + 1 ELSE 0
      /\ \A i \in 1 .. n - m + 1 : SubSeq(xs, m, n)[i] = xs[m + i - 1]
  BY <1>2, SubSeqProperties
<1>4. Len(SubSeq(xs, m, n)) = n - m + 1
  <2>1. CASE m <= n
    BY <1>3, <2>1
  <2>2. CASE ~(m <= n)
    <3>1. n - m + 1 = 0
      BY <2>2
    <3> QED
      BY <1>3, <2>2, <3>1
  <2> QED
    BY <2>1, <2>2
<1> QED
  BY <1>3, <1>4

\* Python's xs[-n:].
LEMMA LastOfFacts ==
  ASSUME NEW S, NEW xs \in Seq(S), NEW n \in Nat
  PROVE  /\ LastOf(xs, n) \in Seq(S)
         /\ Len(LastOf(xs, n)) = IF n = 0 \/ n >= Len(xs) THEN Len(xs) ELSE n
         /\ \A i \in 1 .. Len(LastOf(xs, n)) :
              LastOf(xs, n)[i] = xs[Len(xs) - Len(LastOf(xs, n)) + i]
<1>1. Len(xs) \in Nat
  BY SeqFacts
<1>2. CASE n = 0 \/ n >= Len(xs)
  <2>1. LastOf(xs, n) = xs
    BY <1>2 DEF LastOf
  <2> QED
    BY <1>1, <1>2, <2>1
<1>3. CASE ~(n = 0 \/ n >= Len(xs))
  <2> DEFINE from == Len(xs) - n + 1
  <2>1. LastOf(xs, n) = SubSeq(xs, from, Len(xs))
    BY <1>3 DEF LastOf
  <2>2. from \in Nat \ {0} /\ from <= Len(xs) + 1 /\ Len(xs) - from + 1 = n
    BY <1>1, <1>3
  <2>3. /\ LastOf(xs, n) \in Seq(S)
        /\ Len(LastOf(xs, n)) = n
        /\ \A i \in 1 .. n : LastOf(xs, n)[i] = xs[from + i - 1]
    <3> HIDE DEF from
    <3>1. /\ SubSeq(xs, from, Len(xs)) \in Seq(S)
          /\ Len(SubSeq(xs, from, Len(xs))) = Len(xs) - from + 1
          /\ \A i \in 1 .. Len(xs) - from + 1 : SubSeq(xs, from, Len(xs))[i] = xs[from + i - 1]
      BY <1>1, <2>2, SliceFacts
    <3> QED
      BY <2>1, <2>2, <3>1
  <2>4. \A i \in 1 .. n : from + i - 1 = Len(xs) - n + i
    BY <1>1
  <2> QED
    BY <1>3, <2>3, <2>4
<1> QED
  BY <1>2, <1>3

LEMMA AppendFacts ==
  ASSUME NEW S, NEW xs \in Seq(S), NEW x \in S
  PROVE  /\ Append(xs, x) \in Seq(S)
         /\ Len(Append(xs, x)) = Len(xs) + 1
         /\ \A i \in 1 .. Len(xs) : Append(xs, x)[i] = xs[i]
         /\ Append(xs, x)[Len(xs) + 1] = x
  BY AppendProperties, SeqFacts

\* What is appended to the last elements is appended to the whole.
LEMMA LastOfAppend ==
  ASSUME NEW S, NEW xs \in Seq(S), NEW x \in S, NEW n \in Nat
  PROVE  LastOf(Append(xs, x), n) = LastOf(Append(LastOf(xs, n), x), n)
<1> DEFINE ys == LastOf(xs, n)
           a  == LastOf(Append(xs, x), n)
           b  == LastOf(Append(ys, x), n)
<1>1. CASE n = 0
  BY <1>1 DEF LastOf
<1>2. CASE n # 0
  <2>1. /\ Len(xs) \in Nat /\ ys \in Seq(S)
        /\ Len(ys) = IF n >= Len(xs) THEN Len(xs) ELSE n
        /\ \A i \in 1 .. Len(ys) : ys[i] = xs[Len(xs) - Len(ys) + i]
    BY <1>2, SeqFacts, LastOfFacts
  <2>2. /\ Append(xs, x) \in Seq(S) /\ Len(Append(xs, x)) = Len(xs) + 1
        /\ \A i \in 1 .. Len(xs) : Append(xs, x)[i] = xs[i]
        /\ Append(xs, x)[Len(xs) + 1] = x
    BY AppendFacts
  <2> HIDE DEF ys
  <2>3. /\ Append(ys, x) \in Seq(S) /\ Len(Append(ys, x)) = Len(ys) + 1
        /\ \A i \in 1 .. Len(ys) : Append(ys, x)[i] = ys[i]
        /\ Append(ys, x)[Len(ys) + 1] = x
    BY <2>1, AppendFacts
  <2>4. /\ a \in Seq(S)
        /\ Len(a) = IF n >= Len(xs) + 1 THEN Len(xs) + 1 ELSE n
        /\ \A i \in 1 .. Len(a) : a[i] = Append(xs, x)[Len(xs) + 1 - Len(a) + i]
    <3> DEFINE all == Append(xs, x)
    <3> HIDE DEF all
    <3>1. all \in Seq(S) /\ Len(all) = Len(xs) + 1 /\ a = LastOf(all, n)
      BY <2>2 DEF all
    <3>1a. /\ LastOf(all, n) \in Seq(S)
           /\ Len(LastOf(all, n)) = IF n = 0 \/ n >= Len(all) THEN Len(all) ELSE n
           /\ \A i \in 1 .. Len(LastOf(all, n)) :
               LastOf(all, n)[i] = all[Len(all) - Len(LastOf(all, n)) + i]
      BY <3>1, LastOfFacts
    <3> HIDE DEF a
    <3>2. /\ a \in Seq(S) /\ Len(a) = IF n = 0 \/ n >= Len(all) THEN Len(all) ELSE n
          /\ \A i \in 1 .. Len(a) : a[i] = all[Len(all) - Len(a) + i]
      BY <3>1, <3>1a, Zenon
    <3>3. Len(a) = IF n >= Len(xs) + 1 THEN Len(xs) + 1 ELSE n
      <4>1. Len(all) = Len(xs) + 1
        BY <3>1
      <4>2. Len(a) = IF n = 0 \/ n >= Len(all) THEN Len(all) ELSE n
        BY <3>2
      <4> QED
        BY <1>2, <4>1, <4>2
    <3>4. ASSUME NEW i \in 1 .. Len(a) PROVE a[i] = all[Len(xs) + 1 - Len(a) + i]
      <4>1. Len(all) - Len(a) + i = Len(xs) + 1 - Len(a) + i
        BY <3>1
      <4>2. a[i] = all[Len(all) - Len(a) + i]
        BY <3>2
      <4> QED
        BY <4>1, <4>2
    <3> QED
      BY <3>2, <3>3, <3>4 DEF all
  <2>5. /\ b \in Seq(S)
        /\ Len(b) = IF n >= Len(ys) + 1 THEN Len(ys) + 1 ELSE n
        /\ \A i \in 1 .. Len(b) : b[i] = Append(ys, x)[Len(ys) + 1 - Len(b) + i]
    <3> DEFINE all == Append(ys, x)
    <3> HIDE DEF all
    <3>1. all \in Seq(S) /\ Len(all) = Len(ys) + 1 /\ b = LastOf(all, n)
      BY <2>3 DEF all
    <3>1a. /\ LastOf(all, n) \in Seq(S)
           /\ Len(LastOf(all, n)) = IF n = 0 \/ n >= Len(all) THEN Len(all) ELSE n
           /\ \A i \in 1 .. Len(LastOf(all, n)) :
               LastOf(all, n)[i] = all[Len(all) - Len(LastOf(all, n)) + i]
      BY <3>1, LastOfFacts
    <3> HIDE DEF b
    <3>2. /\ b \in Seq(S) /\ Len(b) = IF n = 0 \/ n >= Len(all) THEN Len(all) ELSE n
          /\ \A i \in 1 .. Len(b) : b[i] = all[Len(all) - Len(b) + i]
      BY <3>1, <3>1a, Zenon
    <3>3. Len(b) = IF n >= Len(ys) + 1 THEN Len(ys) + 1 ELSE n
      <4>1. Len(all) = Len(ys) + 1
        BY <3>1
      <4>2. Len(b) = IF n = 0 \/ n >= Len(all) THEN Len(all) ELSE n
        BY <3>2
      <4> QED
        BY <1>2, <4>1, <4>2
    <3>4. ASSUME NEW i \in 1 .. Len(b) PROVE b[i] = all[Len(ys) + 1 - Len(b) + i]
      <4>1. Len(all) - Len(b) + i = Len(ys) + 1 - Len(b) + i
        BY <3>1
      <4>2. b[i] = all[Len(all) - Len(b) + i]
        BY <3>2
      <4> QED
        BY <4>1, <4>2
    <3> QED
      BY <3>2, <3>3, <3>4 DEF all
  <2> HIDE DEF a, b
  <2>6. Len(a) = Len(b) /\ Len(a) <= Len(ys) + 1 /\ Len(a) \in Nat
    BY <1>2, <2>1, <2>4, <2>5
  <2>7. ASSUME NEW i \in 1 .. Len(a) PROVE a[i] = b[i]
    <3> DEFINE p == Len(xs) + 1 - Len(a) + i
               q == Len(ys) + 1 - Len(a) + i
    <3>1. a[i] = Append(xs, x)[p] /\ b[i] = Append(ys, x)[q]
      BY <2>4, <2>5, <2>6
    <3>2. Len(xs) \in Nat /\ Len(ys) \in Nat /\ Len(ys) <= Len(xs)
      BY <2>1
    <3>3. CASE i = Len(a)
      <4>1. p = Len(xs) + 1 /\ q = Len(ys) + 1
        BY <2>1, <2>6, <3>2, <3>3
      <4> QED
        BY <2>2, <2>3, <3>1, <4>1
    <3>4. CASE i # Len(a)
      <4>1. p \in 1 .. Len(xs) /\ q \in 1 .. Len(ys) /\ Len(xs) - Len(ys) + q = p
        BY <2>6, <3>2, <3>4
      <4> HIDE DEF p, q
      <4>2. Append(xs, x)[p] = xs[p] /\ Append(ys, x)[q] = ys[q]
        BY <2>2, <2>3, <4>1
      <4>3. ys[q] = xs[p]
        BY <2>1, <4>1
      <4> QED
        BY <3>1, <4>2, <4>3
    <3> QED
      BY <3>3, <3>4
  <2> QED
    BY <2>4, <2>5, <2>6, <2>7, SeqEqual DEF a, b, ys
<1> QED
  BY <1>1, <1>2

(***************************************************************************)
(* Exchanges.                                                              *)
(***************************************************************************)
\* The messages ms are the exchanges of the turns ts.
Pairs(ms, ts) ==
  /\ Len(ms) = 2 * Len(ts)
  /\ \A i \in 1 .. Len(ts) : /\ ms[2 * i - 1] = [role |-> "user", turn |-> ts[i]]
                             /\ ms[2 * i] = [role |-> "assistant", turn |-> ts[i]]

LEMMA ExchangeFacts ==
  ASSUME NEW t \in Turns
  PROVE  /\ Exchange(t) \in Seq(Message) /\ Len(Exchange(t)) = 2
         /\ Exchange(t)[1] = [role |-> "user", turn |-> t]
         /\ Exchange(t)[2] = [role |-> "assistant", turn |-> t]
<1>1. [role |-> "user", turn |-> t] \in Message /\ [role |-> "assistant", turn |-> t] \in Message
  BY DEF Message, Roles
<1> QED
  BY <1>1 DEF Exchange

\* The exchange of another turn is added whole.
LEMMA PairsAppend ==
  ASSUME NEW ms \in Seq(Message), NEW ts \in Seq(Turns), Pairs(ms, ts), NEW t \in Turns
  PROVE  Pairs(ms \o Exchange(t), Append(ts, t))
<1> DEFINE more == ms \o Exchange(t)
           all  == Append(ts, t)
<1>1. Len(ms) \in Nat /\ Len(ts) \in Nat /\ Len(ms) = 2 * Len(ts)
  BY SeqFacts DEF Pairs
<1>2. /\ Len(more) = Len(ms) + 2
      /\ \A i \in 1 .. Len(ms) + 2 : more[i] = IF i <= Len(ms) THEN ms[i] ELSE Exchange(t)[i - Len(ms)]
  <2> DEFINE e == Exchange(t)
  <2> HIDE DEF e
  <2>1. e \in Seq(Message) /\ Len(e) = 2
    BY ExchangeFacts DEF e
  <2>2. /\ Len(ms \o e) = Len(ms) + Len(e)
        /\ \A i \in 1 .. Len(ms) + Len(e) : (ms \o e)[i] = IF i <= Len(ms) THEN ms[i] ELSE e[i - Len(ms)]
    BY <2>1, ConcatProperties
  <2>3. Len(ms) + Len(e) = Len(ms) + 2
    BY <2>1
  <2> QED
    BY <2>2, <2>3 DEF e
<1>3. /\ Len(all) = Len(ts) + 1 /\ all[Len(ts) + 1] = t
      /\ \A i \in 1 .. Len(ts) : all[i] = ts[i]
  BY AppendFacts
<1> HIDE DEF more, all
<1>4. Len(more) = 2 * Len(all)
  BY <1>1, <1>2, <1>3
<1>5. ASSUME NEW i \in 1 .. Len(all)
      PROVE  /\ more[2 * i - 1] = [role |-> "user", turn |-> all[i]]
             /\ more[2 * i] = [role |-> "assistant", turn |-> all[i]]
  <2>1. i \in Nat /\ 1 <= i /\ i <= Len(ts) + 1
    BY <1>1, <1>3
  <2>2. CASE i = Len(ts) + 1
    <3>1. /\ 2 * i - 1 \in 1 .. Len(ms) + 2 /\ 2 * i \in 1 .. Len(ms) + 2
          /\ ~(2 * i - 1 <= Len(ms)) /\ ~(2 * i <= Len(ms))
          /\ 2 * i - 1 - Len(ms) = 1 /\ 2 * i - Len(ms) = 2
      BY <1>1, <2>1, <2>2
    <3>2. more[2 * i - 1] = Exchange(t)[1] /\ more[2 * i] = Exchange(t)[2]
      BY <1>2, <3>1
    <3>3. all[i] = t
      BY <1>3, <2>2
    <3> QED
      BY <3>2, <3>3, ExchangeFacts
  <2>3. CASE i # Len(ts) + 1
    <3>1. /\ i \in 1 .. Len(ts)
          /\ 2 * i - 1 \in 1 .. Len(ms) + 2 /\ 2 * i \in 1 .. Len(ms) + 2
          /\ 2 * i - 1 <= Len(ms) /\ 2 * i <= Len(ms)
      BY <1>1, <2>1, <2>3
    <3>2. more[2 * i - 1] = ms[2 * i - 1] /\ more[2 * i] = ms[2 * i]
      BY <1>2, <3>1
    <3>3. all[i] = ts[i]
      BY <1>3, <3>1
    <3> QED
      BY <3>1, <3>2, <3>3 DEF Pairs
  <2> QED
    BY <2>2, <2>3
<1> QED
  BY <1>4, <1>5 DEF Pairs, more, all

\* The bound counts exchanges, so it never leaves half of one (max_turns * 2).
LEMMA PairsLastOf ==
  ASSUME NEW ms \in Seq(Message), NEW ts \in Seq(Turns), Pairs(ms, ts), NEW n \in Nat
  PROVE  Pairs(LastOf(ms, 2 * n), LastOf(ts, n))
<1> DEFINE a == LastOf(ms, 2 * n)
           b == LastOf(ts, n)
<1>1. Len(ms) \in Nat /\ Len(ts) \in Nat /\ Len(ms) = 2 * Len(ts) /\ 2 * n \in Nat
  BY SeqFacts DEF Pairs
<1>2. /\ Len(a) = IF 2 * n = 0 \/ 2 * n >= Len(ms) THEN Len(ms) ELSE 2 * n
      /\ \A i \in 1 .. Len(a) : a[i] = ms[Len(ms) - Len(a) + i]
  BY <1>1, LastOfFacts
<1>3. /\ Len(b) = IF n = 0 \/ n >= Len(ts) THEN Len(ts) ELSE n
      /\ \A i \in 1 .. Len(b) : b[i] = ts[Len(ts) - Len(b) + i]
  BY LastOfFacts
<1> HIDE DEF a, b
<1>4. Len(a) = 2 * Len(b) /\ Len(b) \in Nat /\ Len(b) <= Len(ts)
  BY <1>1, <1>2, <1>3
<1>5. ASSUME NEW i \in 1 .. Len(b)
      PROVE  /\ a[2 * i - 1] = [role |-> "user", turn |-> b[i]]
             /\ a[2 * i] = [role |-> "assistant", turn |-> b[i]]
  <2> DEFINE k == Len(ts) - Len(b) + i
  <2>1. /\ k \in 1 .. Len(ts)
        /\ 2 * i - 1 \in 1 .. Len(a) /\ 2 * i \in 1 .. Len(a)
        /\ Len(ms) - Len(a) + (2 * i - 1) = 2 * k - 1
        /\ Len(ms) - Len(a) + 2 * i = 2 * k
    BY <1>1, <1>4
  <2>2. b[i] = ts[k]
    BY <1>3
  <2> HIDE DEF k
  <2>3. a[2 * i - 1] = ms[2 * k - 1] /\ a[2 * i] = ms[2 * k]
    BY <1>2, <2>1
  <2> QED
    BY <2>1, <2>2, <2>3 DEF Pairs
<1> QED
  BY <1>4, <1>5 DEF Pairs, a, b

(***************************************************************************)
(* The dictionary of sessions.                                             *)
(***************************************************************************)
Among(list)    == {list[i] : i \in DOMAIN list}
OnceEach(list) == \A i, j \in DOMAIN list : list[i] = list[j] => i = j
Distinct       == OnceEach(order)

\* A list without one of its elements.
LEMMA RemoveAtFacts ==
  ASSUME NEW list \in Seq(Sessions), NEW p \in 1 .. Len(list)
  PROVE  /\ RemoveAt(list, p) \in Seq(Sessions)
         /\ Len(RemoveAt(list, p)) = Len(list) - 1
         /\ \A i \in 1 .. Len(RemoveAt(list, p)) : RemoveAt(list, p)[i] = list[IF i < p THEN i ELSE i + 1]
<1> DEFINE before == SubSeq(list, 1, p - 1)
           after  == SubSeq(list, p + 1, Len(list))
           rest   == RemoveAt(list, p)
<1>1. Len(list) \in Nat
  BY SeqFacts
<1>2. /\ before \in Seq(Sessions) /\ Len(before) = p - 1
      /\ \A i \in 1 .. p - 1 : before[i] = list[i]
  <2>1. p - 1 \in Nat /\ p - 1 <= Len(list) /\ 1 <= (p - 1) + 1 /\ (p - 1) - 1 + 1 = p - 1
    BY <1>1
  <2>2. /\ before \in Seq(Sessions) /\ Len(before) = (p - 1) - 1 + 1
        /\ \A i \in 1 .. (p - 1) - 1 + 1 : before[i] = list[1 + i - 1]
    BY <1>1, <2>1, SliceFacts
  <2>3. \A i \in 1 .. p - 1 : 1 + i - 1 = i
    BY <1>1
  <2> QED
    BY <2>1, <2>2, <2>3
<1>3. /\ after \in Seq(Sessions) /\ Len(after) = Len(list) - p
      /\ \A i \in 1 .. Len(list) - p : after[i] = list[p + i]
  <2>1. p + 1 \in Nat \ {0} /\ p + 1 <= Len(list) + 1 /\ Len(list) - (p + 1) + 1 = Len(list) - p
    BY <1>1
  <2>2. /\ after \in Seq(Sessions) /\ Len(after) = Len(list) - (p + 1) + 1
        /\ \A i \in 1 .. Len(list) - (p + 1) + 1 : after[i] = list[p + 1 + i - 1]
    <3> DEFINE q == p + 1
    <3>1. /\ q \in Nat \ {0} /\ q <= Len(list) + 1 /\ Len(list) \in Nat /\ Len(list) <= Len(list)
          /\ after = SubSeq(list, q, Len(list))
      BY <1>1, <2>1
    <3> HIDE DEF q, after
    <3>2. /\ after \in Seq(Sessions) /\ Len(after) = Len(list) - q + 1
          /\ \A i \in 1 .. Len(list) - q + 1 : after[i] = list[q + i - 1]
      BY <3>1, SliceFacts
    <3> QED
      BY <3>2 DEF q
  <2>3. \A i \in 1 .. Len(list) - p : p + 1 + i - 1 = p + i
    BY <1>1
  <2> QED
    BY <2>1, <2>2, <2>3
<1>4. rest = before \o after
  BY DEF RemoveAt
<1> HIDE DEF before, after, rest
<1>5. /\ rest \in Seq(Sessions) /\ Len(rest) = Len(before) + Len(after)
      /\ \A i \in 1 .. Len(before) + Len(after) :
           rest[i] = IF i <= Len(before) THEN before[i] ELSE after[i - Len(before)]
  BY <1>2, <1>3, <1>4, ConcatProperties
<1>6. Len(rest) = Len(list) - 1
  BY <1>1, <1>2, <1>3, <1>5
<1>7. ASSUME NEW i \in 1 .. Len(rest) PROVE rest[i] = list[IF i < p THEN i ELSE i + 1]
  <2>0. i \in 1 .. Len(before) + Len(after)
    BY <1>5
  <2>1. CASE i < p
    <3>1. i <= Len(before) /\ i \in 1 .. p - 1
      BY <1>2, <2>1
    <3> QED
      BY <1>2, <1>5, <2>0, <2>1, <3>1
  <2>2. CASE ~(i < p)
    <3>1. /\ ~(i <= Len(before)) /\ i - Len(before) \in 1 .. Len(list) - p
          /\ p + (i - Len(before)) = i + 1
      BY <1>1, <1>2, <1>6, <2>2
    <3>2. rest[i] = after[i - Len(before)]
      BY <1>5, <2>0, <3>1
    <3>3. after[i - Len(before)] = list[p + (i - Len(before))]
      BY <1>3, <3>1
    <3> QED
      BY <2>2, <3>1, <3>2, <3>3
  <2> QED
    BY <2>1, <2>2
<1> QED
  BY <1>5, <1>6, <1>7 DEF rest

\* A list without s: itself, or without the one place of s.
LEMMA WithoutFacts ==
  ASSUME NEW list \in Seq(Sessions), NEW s \in Sessions
  PROVE  /\ s \notin Among(list) => Without(list, s) = list
         /\ s \in Among(list) =>
              \E p \in 1 .. Len(list) :
                /\ list[p] = s
                /\ Without(list, s) \in Seq(Sessions)
                /\ Len(Without(list, s)) = Len(list) - 1
                /\ \A i \in 1 .. Len(Without(list, s)) :
                     Without(list, s)[i] = list[IF i < p THEN i ELSE i + 1]
<1>1. CASE s \notin Among(list)
  BY <1>1 DEF Among, Without
<1>2. CASE s \in Among(list)
  <2> DEFINE p == CHOOSE i \in DOMAIN list : list[i] = s
  <2>1. \E i \in DOMAIN list : list[i] = s
    BY <1>2 DEF Among
  <2>2. p \in 1 .. Len(list) /\ list[p] = s
    BY <2>1, SeqFacts
  <2>3. Without(list, s) = RemoveAt(list, p)
    BY <2>1 DEF Without
  <2> HIDE DEF p
  <2> QED
    BY <1>2, <2>2, <2>3, RemoveAtFacts
<1> QED
  BY <1>1, <1>2

\* A session that is put at the end of a list is there once.
LEMMA ToEndFacts ==
  ASSUME NEW list \in Seq(Sessions), OnceEach(list), NEW s \in Sessions
  PROVE  LET all == Append(Without(list, s), s) IN
         /\ all \in Seq(Sessions) /\ Len(all) \in Nat \ {0} /\ all[Len(all)] = s
         /\ Len(all) = IF s \in Among(list) THEN Len(list) ELSE Len(list) + 1
         /\ OnceEach(all)
         /\ Among(all) = Among(list) \cup {s}
<1> DEFINE rest == Without(list, s)
           all  == Append(rest, s)
<1>1. /\ Len(list) \in Nat /\ DOMAIN list = 1 .. Len(list)
      /\ \A i \in 1 .. Len(list) : list[i] \in Sessions
  BY SeqFacts
<1>2. /\ rest \in Seq(Sessions) /\ Len(rest) \in Nat
      /\ Len(rest) = IF s \in Among(list) THEN Len(list) - 1 ELSE Len(list)
      /\ \A i, j \in 1 .. Len(rest) : rest[i] = rest[j] => i = j
      /\ \A i \in 1 .. Len(rest) : rest[i] \in Among(list) /\ rest[i] # s
      /\ \A u \in Among(list) \ {s} : \E i \in 1 .. Len(rest) : rest[i] = u
  <2>1. CASE s \notin Among(list)
    <3>1. rest = list
      BY <2>1, WithoutFacts
    <3> QED
      BY <1>1, <2>1, <3>1 DEF Among, OnceEach
  <2>2. CASE s \in Among(list)
    <3>1. PICK p \in 1 .. Len(list) :
            /\ list[p] = s
            /\ rest \in Seq(Sessions) /\ Len(rest) = Len(list) - 1
            /\ \A i \in 1 .. Len(rest) : rest[i] = list[IF i < p THEN i ELSE i + 1]
      BY <2>2, WithoutFacts
    <3> HIDE DEF rest
    <3>2. ASSUME NEW i \in 1 .. Len(rest)
          PROVE  LET k == IF i < p THEN i ELSE i + 1
                 IN  k \in 1 .. Len(list) /\ k # p /\ rest[i] = list[k]
      BY <1>1, <3>1
    <3>3. \A i, j \in 1 .. Len(rest) : rest[i] = rest[j] => i = j
      <4> SUFFICES ASSUME NEW i \in 1 .. Len(rest), NEW j \in 1 .. Len(rest), rest[i] = rest[j]
                   PROVE  i = j
        OBVIOUS
      <4> DEFINE k == IF i < p THEN i ELSE i + 1
                 l == IF j < p THEN j ELSE j + 1
      <4>1. k \in 1 .. Len(list) /\ l \in 1 .. Len(list) /\ list[k] = list[l]
        BY <3>2
      <4>2. k = l
        <5> HIDE DEF k, l
        <5> QED
          BY <1>1, <4>1 DEF OnceEach
      <4> QED
        BY <3>1, <4>2
    <3>4. \A i \in 1 .. Len(rest) : rest[i] \in Among(list) /\ rest[i] # s
      BY <1>1, <3>1, <3>2 DEF Among, OnceEach
    <3>5. ASSUME NEW u \in Among(list) \ {s} PROVE \E i \in 1 .. Len(rest) : rest[i] = u
      <4>1. PICK k \in 1 .. Len(list) : list[k] = u
        BY <1>1 DEF Among
      <4>2. k # p
        BY <3>1, <4>1
      <4> DEFINE i == IF k < p THEN k ELSE k - 1
      <4>3. i \in 1 .. Len(rest) /\ (IF i < p THEN i ELSE i + 1) = k
        BY <1>1, <3>1, <4>2
      <4> HIDE DEF i
      <4>4. rest[i] = list[IF i < p THEN i ELSE i + 1]
        BY <3>1, <4>3
      <4>5. rest[i] = u
        BY <4>1, <4>3, <4>4
      <4> QED
        BY <4>3, <4>5
    <3>6. Len(rest) \in Nat
      BY <1>1, <3>1
    <3> QED
      BY <2>2, <3>1, <3>3, <3>4, <3>5, <3>6
  <2> QED
    BY <2>1, <2>2
<1> HIDE DEF rest
<1>3. /\ all \in Seq(Sessions) /\ Len(all) = Len(rest) + 1
      /\ \A i \in 1 .. Len(rest) : all[i] = rest[i]
      /\ all[Len(rest) + 1] = s
  BY <1>2, AppendFacts
<1> HIDE DEF all
<1>4. /\ Len(all) \in Nat \ {0} /\ all[Len(all)] = s /\ DOMAIN all = 1 .. Len(all)
      /\ Len(all) = IF s \in Among(list) THEN Len(list) ELSE Len(list) + 1
  <2>1. Len(all) \in Nat \ {0} /\ all[Len(all)] = s /\ DOMAIN all = 1 .. Len(all)
    BY <1>2, <1>3, SeqFacts
  <2>2. CASE s \in Among(list)
    BY <1>1, <1>2, <1>3, <2>1, <2>2
  <2>3. CASE s \notin Among(list)
    BY <1>1, <1>2, <1>3, <2>1, <2>3
  <2> QED
    BY <2>1, <2>2, <2>3
<1>5. \A i \in 1 .. Len(all) : i \in 1 .. Len(rest) \/ i = Len(rest) + 1
  BY <1>2, <1>3
<1>6. OnceEach(all)
  BY <1>2, <1>3, <1>4, <1>5 DEF OnceEach
<1>7. Among(all) = Among(list) \cup {s}
  <2>1. ASSUME NEW i \in 1 .. Len(all) PROVE all[i] \in Among(list) \cup {s}
    BY <1>2, <1>3, <1>5
  <2>2. ASSUME NEW u \in Among(list) \cup {s} PROVE \E i \in 1 .. Len(all) : all[i] = u
    <3>1. CASE u = s
      BY <1>4, <3>1
    <3>2. CASE u # s
      <4>1. PICK i \in 1 .. Len(rest) : rest[i] = u
        BY <1>2, <3>2
      <4>2. i \in 1 .. Len(all)
        BY <1>2, <1>3
      <4> QED
        BY <1>3, <4>1, <4>2
    <3> QED
      BY <3>1, <3>2
  <2>3. Among(all) = {all[i] : i \in 1 .. Len(all)}
    BY <1>4 DEF Among
  <2> QED
    BY <2>1, <2>2, <2>3
<1> QED
  BY <1>3, <1>4, <1>6, <1>7 DEF all, rest

\* The dictionary when a session has been put back at its end (pop and store).
LEMMA ReorderedFacts ==
  ASSUME StoreTypeOK, Distinct, NEW s \in Sessions
  PROVE  /\ Reordered(s) \in Seq(Sessions) /\ Len(Reordered(s)) \in Nat \ {0}
         /\ Reordered(s)[Len(Reordered(s))] = s
         /\ \A i, j \in 1 .. Len(Reordered(s)) : Reordered(s)[i] = Reordered(s)[j] => i = j
         /\ {Reordered(s)[i] : i \in 1 .. Len(Reordered(s))} = Resident \cup {s}
<1> DEFINE all == Append(Without(order, s), s)
<1>1. order \in Seq(Sessions) /\ OnceEach(order)
  BY DEF StoreTypeOK, Distinct
<1>2. /\ all \in Seq(Sessions) /\ Len(all) \in Nat \ {0} /\ all[Len(all)] = s
      /\ OnceEach(all)
      /\ Among(all) = Among(order) \cup {s}
  BY <1>1, ToEndFacts
<1>3. Reordered(s) = all
  BY DEF Reordered
<1> HIDE DEF all
<1>4. DOMAIN all = 1 .. Len(all)
  BY <1>2, SeqFacts
<1>5. Among(order) = Resident /\ Among(all) = {all[i] : i \in 1 .. Len(all)}
  BY <1>4 DEF Among, Resident
<1> QED
  BY <1>2, <1>3, <1>4, <1>5 DEF OnceEach

\* What add_turn leaves in the dictionary: the sessions at the end of the list, s
\* among them.
LEMMA EvictedFacts ==
  ASSUME StoreTypeOK, Distinct, NEW s \in Sessions, order' = LastOf(Reordered(s), MaxSessions)
  PROVE  LET all  == Reordered(s)
             gone == Len(all) - Len(order')
         IN  /\ order' \in Seq(Sessions) /\ Len(order') \in Nat \ {0} /\ gone \in Nat
             /\ gone = IF Len(all) > MaxSessions THEN Len(all) - MaxSessions ELSE 0
             /\ \A i \in 1 .. Len(order') : order'[i] = all[gone + i]
             /\ Distinct'
             /\ s \in Resident' /\ Resident' \subseteq Resident \cup {s}
<1> DEFINE all  == Reordered(s)
           gone == Len(all) - Len(order')
<1>1. /\ all \in Seq(Sessions) /\ Len(all) \in Nat \ {0} /\ all[Len(all)] = s
      /\ \A i, j \in 1 .. Len(all) : all[i] = all[j] => i = j
      /\ {all[i] : i \in 1 .. Len(all)} = Resident \cup {s}
  BY ReorderedFacts
<1> HIDE DEF all
<1>2. order' = LastOf(all, MaxSessions)
  BY DEF all
<1>3. /\ order' \in Seq(Sessions)
      /\ Len(order') = IF MaxSessions = 0 \/ MaxSessions >= Len(all) THEN Len(all) ELSE MaxSessions
      /\ \A i \in 1 .. Len(order') : order'[i] = all[Len(all) - Len(order') + i]
  BY <1>1, <1>2, Bounds, LastOfFacts
<1>4. /\ Len(order') \in Nat \ {0} /\ gone \in Nat
      /\ gone = IF Len(all) > MaxSessions THEN Len(all) - MaxSessions ELSE 0
  <2>1. CASE Len(all) > MaxSessions
    <3>1. Len(order') = MaxSessions
      BY <1>1, <1>3, <2>1, Bounds
    <3> QED
      BY <1>1, <2>1, <3>1, Bounds
  <2>2. CASE ~(Len(all) > MaxSessions)
    <3>1. Len(order') = Len(all)
      BY <1>1, <1>3, <2>2, Bounds
    <3> QED
      BY <1>1, <2>2, <3>1, Bounds
  <2> QED
    BY <2>1, <2>2
<1>5. DOMAIN order' = 1 .. Len(order')
  BY <1>3, SeqFacts
<1>6. \A i \in 1 .. Len(order') : order'[i] = all[gone + i] /\ gone + i \in 1 .. Len(all)
  BY <1>1, <1>3, <1>4
<1>7. Distinct'
  <2> SUFFICES ASSUME NEW i \in 1 .. Len(order'), NEW j \in 1 .. Len(order'), order'[i] = order'[j]
               PROVE  i = j
    BY <1>5 DEF Distinct, OnceEach
  <2> HIDE DEF gone
  <2>1. gone + i = gone + j
    <3>1. gone + i \in 1 .. Len(all) /\ gone + j \in 1 .. Len(all)
      BY <1>6
    <3>2. all[gone + i] = all[gone + j]
      BY <1>6
    <3> QED
      BY <1>1, <3>1, <3>2
  <2> QED
    BY <1>4, <2>1
<1>8. s \in Resident'
  <2>1. gone + Len(order') = Len(all) /\ Len(order') \in 1 .. Len(order')
    BY <1>1, <1>4
  <2>2. order'[Len(order')] = s
    BY <1>1, <1>6, <2>1
  <2> QED
    BY <1>5, <2>1, <2>2 DEF Resident
<1>9. Resident' \subseteq Resident \cup {s}
  <2> HIDE DEF gone
  <2> SUFFICES ASSUME NEW u \in Resident' PROVE u \in {all[i] : i \in 1 .. Len(all)}
    BY <1>1
  <2>1. PICK i \in 1 .. Len(order') : u = order'[i]
    BY <1>5 DEF Resident
  <2> QED
    BY <1>6, <2>1
<1> QED
  BY <1>3, <1>4, <1>6, <1>7, <1>8, <1>9 DEF all

(***************************************************************************)
(* Types, and the memory.                                                  *)
(***************************************************************************)
\* A request that is under way has a session.
Accepted == \A t \in Turns : phase[t] \in {"asked", "streaming", "recorded"} => session[t] \in Sessions

\* The dictionary and the history of its sessions.
KeptWhole ==
  /\ Distinct
  /\ kept \in [Sessions -> Seq(Turns)]
  /\ \A s \in Sessions :
       /\ s \in Resident => kept[s] # << >>
       /\ s \notin Resident => kept[s] = << >>
       /\ Pairs(msgs[s], LastOf(kept[s], MaxTurns))

MInv == RouteTypeOK /\ Accepted /\ KeptWhole

\* Nothing else touches the memory than add_turn and a restart.
LEMMA SameMemory ==
  ASSUME KeptWhole, UNCHANGED <<storeVars, kept>>
  PROVE  KeptWhole'
  BY DEF KeptWhole, storeVars, Distinct, Resident

\* A turn is added to the memory of its session, whole, at its end, and sessions
\* leave as a whole (add_turn).
LEMMA RecordFacts ==
  ASSUME MInv, NEW t \in Turns, session[t] \in Sessions, Record(t)
  PROVE  /\ StoreTypeOK' /\ KeptWhole'
         /\ kept' = [u \in Sessions |-> IF u \notin Resident' THEN << >>
                                      ELSE IF u = session[t] THEN Append(kept[u], t) ELSE kept[u]]
<1> DEFINE s == session[t]
<1> USE DEF MInv
<1>0. s \in Sessions /\ StoreTypeOK /\ Distinct
  BY DEF RouteTypeOK, KeptWhole
<1> HIDE DEF s
<1>1. /\ order' = LastOf(Reordered(s), MaxSessions)
      /\ msgs' = [u \in Sessions |->
                    IF u \notin {order'[i] : i \in DOMAIN order'} THEN << >>
                    ELSE IF u = s THEN LastOf(msgs[s] \o Exchange(t), 2 * MaxTurns)
                    ELSE msgs[u]]
      /\ kept' = [u \in Sessions |->
                    IF u \notin {order'[i] : i \in DOMAIN order'} THEN << >>
                    ELSE IF u = s THEN Append(kept[s], t)
                    ELSE kept[u]]
  BY DEF Record, AddTurn, Keep, s
<1>2. Resident' = {order'[i] : i \in DOMAIN order'}
  BY DEF Resident
<1>3. order' \in Seq(Sessions) /\ Distinct' /\ s \in Resident' /\ Resident' \subseteq Resident \cup {s}
  BY <1>0, <1>1, EvictedFacts
<1>4. /\ \A u \in Sessions : /\ msgs[u] \in Seq(Message) /\ kept[u] \in Seq(Turns)
                            /\ LastOf(kept[u], MaxTurns) \in Seq(Turns)
      /\ msgs[s] \o Exchange(t) \in Seq(Message)
      /\ LastOf(msgs[s] \o Exchange(t), 2 * MaxTurns) \in Seq(Message)
      /\ Append(kept[s], t) \in Seq(Turns) /\ Append(kept[s], t) # << >>
  <2>1. \A u \in Sessions : msgs[u] \in Seq(Message) /\ kept[u] \in Seq(Turns)
    BY <1>0 DEF StoreTypeOK, KeptWhole
  <2>2. msgs[s] \o Exchange(t) \in Seq(Message)
    BY <1>0, <2>1, ExchangeFacts, ConcatProperties
  <2>3. 2 * MaxTurns \in Nat /\ MaxTurns \in Nat
    BY Bounds
  <2>4. \A u \in Sessions : LastOf(kept[u], MaxTurns) \in Seq(Turns)
    BY <2>1, <2>3, LastOfFacts
  <2>5. LastOf(msgs[s] \o Exchange(t), 2 * MaxTurns) \in Seq(Message)
    BY <2>2, <2>3, LastOfFacts
  <2>6. Append(kept[s], t) \in Seq(Turns) /\ Append(kept[s], t) # << >>
    BY <1>0, <2>1, AppendProperties
  <2> QED
    BY <2>1, <2>2, <2>4, <2>5, <2>6
<1>5. Pairs(LastOf(msgs[s] \o Exchange(t), 2 * MaxTurns), LastOf(Append(kept[s], t), MaxTurns))
  <2> DEFINE ts == LastOf(kept[s], MaxTurns)
  <2>1. Pairs(msgs[s], ts) /\ msgs[s] \in Seq(Message) /\ ts \in Seq(Turns)
    BY <1>0, <1>4 DEF KeptWhole
  <2>2. LastOf(Append(kept[s], t), MaxTurns) = LastOf(Append(ts, t), MaxTurns)
    BY <1>0, <1>4, Bounds, LastOfAppend
  <2> HIDE DEF ts
  <2>3. Pairs(msgs[s] \o Exchange(t), Append(ts, t)) /\ Append(ts, t) \in Seq(Turns)
    BY <2>1, PairsAppend, AppendProperties
  <2>4. Pairs(LastOf(msgs[s] \o Exchange(t), 2 * MaxTurns), LastOf(Append(ts, t), MaxTurns))
    BY <1>4, <2>3, Bounds, PairsLastOf
  <2> QED
    BY <2>2, <2>4
<1>6. Pairs(<< >>, LastOf(<< >>, MaxTurns))
  BY Bounds DEF Pairs, LastOf
<1>7. StoreTypeOK'
  BY <1>1, <1>3, <1>4 DEF StoreTypeOK
<1>8. kept' \in [Sessions -> Seq(Turns)]
  BY <1>1, <1>4
<1>9. ASSUME NEW u \in Sessions
      PROVE  /\ u \in Resident' => kept'[u] # << >>
             /\ u \notin Resident' => kept'[u] = << >>
             /\ Pairs(msgs'[u], LastOf(kept'[u], MaxTurns))
  <2>1. CASE u \notin Resident'
    <3>1. msgs'[u] = << >> /\ kept'[u] = << >>
      BY <1>1, <1>2, <2>1
    <3> QED
      BY <2>1, <3>1, <1>6
  <2>2. CASE u \in Resident' /\ u = s
    <3>1. msgs'[u] = LastOf(msgs[s] \o Exchange(t), 2 * MaxTurns) /\ kept'[u] = Append(kept[s], t)
      BY <1>1, <1>2, <2>2
    <3> QED
      BY <1>4, <1>5, <2>2, <3>1
  <2>3. CASE u \in Resident' /\ u # s
    <3>1. msgs'[u] = msgs[u] /\ kept'[u] = kept[u]
      BY <1>1, <1>2, <2>3
    <3>2. u \in Resident
      BY <1>3, <2>3
    <3> QED
      BY <2>3, <3>1, <3>2 DEF KeptWhole
  <2> QED
    BY <2>1, <2>2, <2>3
<1>10. KeptWhole'
  BY <1>3, <1>8, <1>9 DEF KeptWhole
<1>11. kept' = [u \in Sessions |-> IF u \notin Resident' THEN << >>
                                ELSE IF u = s THEN Append(kept[u], t) ELSE kept[u]]
  BY <1>1, <1>2
<1> QED
  BY <1>7, <1>10, <1>11 DEF s

\* A stream is tokens until its turn ends, and then has at most one other frame.
Ended == {"answered", "failed"}

FramesInv ==
  \A t \in Turns :
    /\ phase[t] \notin Ended => \A i \in 1 .. Len(frames[t]) : frames[t][i] = "token"
    /\ \A i \in 1 .. Len(frames[t]) :
         /\ i < Len(frames[t]) => frames[t][i] = "token"
         /\ frames[t][i] = "done" => phase[t] = "answered"
         /\ frames[t][i] = "error" => phase[t] = "failed"

RInv == MInv /\ FramesInv

\* A frame that is sent is the last.
LEMMA SendFacts ==
  ASSUME RouteTypeOK, NEW t \in Turns, NEW f \in Frames, Send(t, f)
  PROVE  /\ frames' \in [Turns -> Seq(Frames)]
         /\ \A u \in Turns \ {t} : frames'[u] = frames[u]
         /\ Len(frames'[t]) = Len(frames[t]) + 1
         /\ \A i \in 1 .. Len(frames[t]) : frames'[t][i] = frames[t][i]
         /\ frames'[t][Len(frames[t]) + 1] = f
<1>1. frames[t] \in Seq(Frames) /\ frames'[t] = Append(frames[t], f)
  BY DEF RouteTypeOK, Send
<1>2. /\ frames'[t] \in Seq(Frames)
      /\ Len(frames'[t]) = Len(frames[t]) + 1
      /\ \A i \in 1 .. Len(frames[t]) : frames'[t][i] = frames[t][i]
      /\ frames'[t][Len(frames[t]) + 1] = f
  BY <1>1, AppendFacts
<1>3. frames' = [frames EXCEPT ![t] = frames'[t]]
  BY <1>1 DEF Send
<1> HIDE DEF Send
<1> QED
  BY <1>2, <1>3 DEF RouteTypeOK

\* The frames of a stream stay in order when a step sends nothing, or one frame of
\* the kind that its phase calls for.
LEMMA FramesStay ==
  ASSUME RInv, NEW t \in Turns, frames' = frames,
         \A u \in Turns \ {t} : phase'[u] = phase[u],
         phase[t] \notin Ended
  PROVE  FramesInv'
<1> SUFFICES ASSUME NEW u \in Turns
             PROVE  /\ phase'[u] \notin Ended => \A i \in 1 .. Len(frames[u]) : frames[u][i] = "token"
                    /\ \A i \in 1 .. Len(frames[u]) :
                         /\ i < Len(frames[u]) => frames[u][i] = "token"
                         /\ frames[u][i] = "done" => phase'[u] = "answered"
                         /\ frames[u][i] = "error" => phase'[u] = "failed"
  BY DEF FramesInv
<1>1. CASE u = t
  BY <1>1 DEF RInv, FramesInv
<1>2. CASE u # t
  BY <1>2 DEF RInv, FramesInv
<1> QED
  BY <1>1, <1>2

LEMMA FramesSent ==
  ASSUME RInv, NEW t \in Turns, NEW f \in Frames, Send(t, f),
         \A u \in Turns \ {t} : phase'[u] = phase[u],
         phase[t] \notin Ended,
         \/ f = "token" /\ phase'[t] = phase[t]
         \/ f = "done" /\ phase'[t] = "answered"
         \/ f = "error" /\ phase'[t] = "failed"
  PROVE  FramesInv'
<1>1. RouteTypeOK /\ frames[t] \in Seq(Frames)
  BY DEF RInv, MInv, RouteTypeOK
<1>2. /\ Len(frames[t]) \in Nat /\ Len(frames'[t]) = Len(frames[t]) + 1
      /\ \A i \in 1 .. Len(frames[t]) : frames'[t][i] = "token"
      /\ frames'[t][Len(frames[t]) + 1] = f
      /\ \A u \in Turns \ {t} : frames'[u] = frames[u]
  BY <1>1, SendFacts, SeqFacts DEF RInv, FramesInv
<1> SUFFICES ASSUME NEW u \in Turns
             PROVE  /\ phase'[u] \notin Ended => \A i \in 1 .. Len(frames'[u]) : frames'[u][i] = "token"
                    /\ \A i \in 1 .. Len(frames'[u]) :
                         /\ i < Len(frames'[u]) => frames'[u][i] = "token"
                         /\ frames'[u][i] = "done" => phase'[u] = "answered"
                         /\ frames'[u][i] = "error" => phase'[u] = "failed"
  BY DEF FramesInv
<1>3. CASE u = t
  <2>1. \A i \in 1 .. Len(frames'[t]) : i \in 1 .. Len(frames[t]) \/ (i = Len(frames[t]) + 1 /\ ~(i < Len(frames'[t])))
    BY <1>2
  <2> QED
    BY <1>2, <1>3, <2>1 DEF Ended
<1>4. CASE u # t
  <2>1. frames'[u] = frames[u] /\ phase'[u] = phase[u]
    BY <1>2, <1>4
  <2> QED
    BY <2>1 DEF RInv, FramesInv
<1> QED
  BY <1>3, <1>4

\* A move of one request.
LEMMA MoveFacts ==
  ASSUME RInv, NEW t \in Turns, NEW from, NEW to \in Phases, Move(t, from, to)
  PROVE  /\ phase' \in [Turns -> Phases] /\ phase[t] = from /\ phase'[t] = to
         /\ \A u \in Turns \ {t} : phase'[u] = phase[u]
  BY DEF RInv, MInv, RouteTypeOK, Move

LEMMA InitRoutes == RouteInit => RInv
<1> SUFFICES ASSUME RouteInit PROVE RInv
  OBVIOUS
<1> USE Bounds
<1>1. RouteTypeOK
  BY EmptySeq DEF RouteInit, RouteTypeOK, StoreInit, StoreTypeOK, Phases
<1>2. KeptWhole
  <2>1. Resident = {} /\ Distinct
    BY EmptySeq DEF RouteInit, StoreInit, Resident, Distinct, OnceEach
  <2>2. LastOf(<< >>, MaxTurns) = << >> /\ Len(<< >>) = 0
    BY EmptySeq DEF LastOf
  <2> QED
    BY <2>1, <2>2, EmptySeq DEF RouteInit, StoreInit, KeptWhole, Pairs
<1>3. Accepted /\ FramesInv
  BY EmptySeq DEF RouteInit, Accepted, FramesInv
<1> QED
  BY <1>1, <1>2, <1>3 DEF RInv, MInv

\* A request arrives (chat, chat_stream).
LEMMA ArrivalSteps ==
  ASSUME RInv, NEW t \in Turns,
         TurnedAway(t) \/ \E s \in Sessions : Chat(t, s) \/ Stream(t, s)
  PROVE  RInv'
<1>1. CASE TurnedAway(t)
  <2>1. /\ phase' \in [Turns -> Phases] /\ phase[t] = "new" /\ phase'[t] = "failed"
        /\ \A u \in Turns \ {t} : phase'[u] = phase[u]
    BY <1>1, MoveFacts DEF TurnedAway, Phases
  <2>2. UNCHANGED <<storeVars, session, frames, restarts, kept>>
    BY <1>1 DEF TurnedAway, history
  <2>3. RouteTypeOK'
    BY <2>1, <2>2 DEF RInv, MInv, RouteTypeOK, StoreTypeOK, storeVars
  <2>4. Accepted'
    BY <2>1, <2>2 DEF RInv, MInv, Accepted
  <2>5. FramesInv'
    BY <2>1, <2>2, FramesStay DEF Ended
  <2> QED
    BY <2>2, <2>3, <2>4, <2>5, SameMemory DEF RInv, MInv
<1>2. ASSUME NEW s \in Sessions, Chat(t, s) \/ Stream(t, s) PROVE RInv'
  <2>1. /\ phase' \in [Turns -> Phases] /\ phase[t] = "new" /\ phase'[t] \in {"asked", "streaming"}
        /\ \A u \in Turns \ {t} : phase'[u] = phase[u]
    BY <1>2, MoveFacts DEF Chat, Stream, Ask, Phases
  <2>2. session' = [session EXCEPT ![t] = s] /\ UNCHANGED <<storeVars, frames, restarts, kept>>
    BY <1>2 DEF Chat, Stream, Ask, history
  <2>3. RouteTypeOK'
    BY <2>1, <2>2 DEF RInv, MInv, RouteTypeOK, StoreTypeOK, storeVars
  <2>4. Accepted'
    BY <2>1, <2>2 DEF RInv, MInv, Accepted, RouteTypeOK
  <2>5. FramesInv'
    BY <2>1, <2>2, FramesStay DEF Ended
  <2> QED
    BY <2>2, <2>3, <2>4, <2>5, SameMemory DEF RInv, MInv
<1> QED
  BY <1>1, <1>2

\* A turn is answered and added (add_turn, at the end of chat and of the stream).
LEMMA AnsweredSteps ==
  ASSUME RInv, NEW t \in Turns, ChatAnswered(t) \/ StreamAnswered(t)
  PROVE  RInv'
<1>1. /\ phase' \in [Turns -> Phases] /\ phase[t] \in {"asked", "streaming"}
      /\ phase'[t] \in {"answered", "recorded"}
      /\ \A u \in Turns \ {t} : phase'[u] = phase[u]
  BY MoveFacts DEF ChatAnswered, StreamAnswered, Phases
<1>2. Record(t) /\ UNCHANGED <<session, frames, restarts>>
  BY DEF ChatAnswered, StreamAnswered, Record
<1>3. session[t] \in Sessions
  BY <1>1 DEF RInv, MInv, Accepted
<1>4. StoreTypeOK' /\ KeptWhole'
  BY <1>2, <1>3, RecordFacts DEF RInv
<1>5. RouteTypeOK'
  BY <1>1, <1>2, <1>4 DEF RInv, MInv, RouteTypeOK
<1>6. Accepted'
  BY <1>1, <1>2, <1>3 DEF RInv, MInv, Accepted
<1>7. FramesInv'
  BY <1>1, <1>2, FramesStay DEF Ended
<1> QED
  BY <1>4, <1>5, <1>6, <1>7 DEF RInv, MInv

\* The other steps of a request.
LEMMA OtherSteps ==
  ASSUME RInv, NEW t \in Turns,
         ChatFailed(t) \/ Disconnect(t) \/ Token(t) \/ StreamFailed(t) \/ Done(t)
  PROVE  RInv'
<1>1. /\ UNCHANGED <<storeVars, session, restarts, kept>>
      /\ phase[t] \in {"asked", "streaming", "recorded"}
      /\ phase' \in [Turns -> Phases]
      /\ \A u \in Turns \ {t} : phase'[u] = phase[u]
      /\ phase'[t] \in {"failed", "left", "unheard", "answered"} \/ phase'[t] = phase[t]
      /\ frames' \in [Turns -> Seq(Frames)] /\ FramesInv'
  <2>1. CASE ChatFailed(t) \/ Disconnect(t)
    <3>1. /\ phase' \in [Turns -> Phases] /\ phase[t] \in {"asked", "streaming", "recorded"}
          /\ phase'[t] \in {"failed", "left", "unheard"}
          /\ \A u \in Turns \ {t} : phase'[u] = phase[u]
      BY <2>1, MoveFacts DEF ChatFailed, Disconnect, Phases
    <3>2. UNCHANGED <<storeVars, session, restarts, kept, frames>>
      BY <2>1 DEF ChatFailed, Disconnect, history
    <3>3. FramesInv'
      BY <3>1, <3>2, FramesStay DEF Ended
    <3> QED
      BY <3>1, <3>2, <3>3 DEF RInv, MInv, RouteTypeOK
  <2>2. CASE Token(t)
    <3>1. /\ phase[t] = "streaming" /\ phase' = phase /\ Send(t, "token")
          /\ UNCHANGED <<storeVars, session, restarts, kept>>
      BY <2>2 DEF Token, history
    <3>2. RouteTypeOK
      BY DEF RInv, MInv
    <3>3. frames' \in [Turns -> Seq(Frames)]
      BY <3>1, <3>2, SendFacts DEF Frames
    <3>4. FramesInv'
      BY <3>1, FramesSent DEF Frames, Ended
    <3> QED
      BY <3>1, <3>2, <3>3, <3>4 DEF RouteTypeOK
  <2>3. CASE StreamFailed(t)
    <3>1. /\ phase' \in [Turns -> Phases] /\ phase[t] = "streaming" /\ phase'[t] = "failed"
          /\ \A u \in Turns \ {t} : phase'[u] = phase[u]
      BY <2>3, MoveFacts DEF StreamFailed, Phases
    <3>2. Send(t, "error") /\ UNCHANGED <<storeVars, session, restarts, kept>>
      BY <2>3 DEF StreamFailed, history
    <3>3. RouteTypeOK
      BY DEF RInv, MInv
    <3>4. frames' \in [Turns -> Seq(Frames)]
      BY <3>2, <3>3, SendFacts DEF Frames
    <3>5. FramesInv'
      BY <3>1, <3>2, FramesSent DEF Frames, Ended
    <3> QED
      BY <3>1, <3>2, <3>4, <3>5
  <2>4. CASE Done(t)
    <3>1. /\ phase' \in [Turns -> Phases] /\ phase[t] = "recorded" /\ phase'[t] = "answered"
          /\ \A u \in Turns \ {t} : phase'[u] = phase[u]
      BY <2>4, MoveFacts DEF Done, Phases
    <3>2. Send(t, "done") /\ UNCHANGED <<storeVars, session, restarts, kept>>
      BY <2>4 DEF Done, history
    <3>3. RouteTypeOK
      BY DEF RInv, MInv
    <3>4. frames' \in [Turns -> Seq(Frames)]
      BY <3>2, <3>3, SendFacts DEF Frames
    <3>5. FramesInv'
      BY <3>1, <3>2, FramesSent DEF Frames, Ended
    <3> QED
      BY <3>1, <3>2, <3>4, <3>5
  <2> QED
    BY <2>1, <2>2, <2>3, <2>4
<1>2. RouteTypeOK'
  BY <1>1 DEF RInv, MInv, RouteTypeOK, StoreTypeOK, storeVars
<1>3. Accepted'
  BY <1>1 DEF RInv, MInv, Accepted
<1>4. KeptWhole'
  BY <1>1, SameMemory DEF RInv, MInv
<1> QED
  BY <1>1, <1>2, <1>3, <1>4 DEF RInv, MInv

\* The memory and the requests in flight are lost with the process.
LEMMA RestartStep ==
  ASSUME RInv, Restart
  PROVE  RInv'
<1>1. /\ order' = << >> /\ msgs' = [s \in Sessions |-> << >>] /\ kept' = [s \in Sessions |-> << >>]
      /\ phase' = [t \in Turns |->
                    CASE phase[t] \in {"asked", "streaming"} -> "left"
                      [] phase[t] = "recorded"              -> "unheard"
                      [] OTHER                              -> phase[t]]
      /\ restarts' \in 0 .. MaxRestarts
      /\ UNCHANGED <<session, frames>>
  BY Bounds DEF Restart, Forget, RInv, MInv, RouteTypeOK
<1>2. RouteTypeOK'
  BY <1>1, EmptySeq DEF RInv, MInv, RouteTypeOK, StoreTypeOK, Phases
<1>3. Accepted'
  BY <1>1 DEF Accepted
<1>4. KeptWhole'
  <2>1. Resident' = {} /\ Distinct'
    BY <1>1, EmptySeq DEF Resident, Distinct, OnceEach
  <2>2. LastOf(<< >>, MaxTurns) = << >> /\ Len(<< >>) = 0
    BY EmptySeq, Bounds DEF LastOf
  <2> QED
    BY <1>1, <2>1, <2>2, EmptySeq DEF KeptWhole, Pairs
<1>5. FramesInv'
  <2>1. ASSUME NEW u \in Turns
        PROVE  \/ phase'[u] = phase[u]
               \/ phase[u] \notin Ended /\ phase'[u] \in {"left", "unheard"}
    BY <1>1 DEF Ended
  <2> QED
    BY <1>1, <2>1 DEF RInv, FramesInv, Ended
<1> QED
  BY <1>2, <1>3, <1>4, <1>5 DEF RInv, MInv

\* What a step of the clients does to the routes.
LEMMA RoutesStep == TypeOK /\ RInv /\ [Next]_vars => RInv'
<1> SUFFICES ASSUME TypeOK, RInv, [Next]_vars PROVE RInv'
  OBVIOUS
<1>1. CASE UNCHANGED routeVars
  <2>1. UNCHANGED <<storeVars, phase, session, frames, restarts, kept>>
    BY <1>1 DEF routeVars, history
  <2>2. RouteTypeOK' /\ Accepted' /\ FramesInv'
    BY <2>1 DEF RInv, MInv, RouteTypeOK, StoreTypeOK, storeVars, Accepted, FramesInv
  <2> QED
    BY <2>1, <2>2, SameMemory DEF RInv, MInv
<1>2. CASE \E t \in Turns : Call(t) \/ (Handle(t) /\ UNCHANGED clientVars)
                           \/ (NoticesLoss(t) /\ UNCHANGED clientVars)
  BY <1>2, ArrivalSteps, AnsweredSteps, OtherSteps DEF Call, Handle, NoticesLoss
<1>3. ASSUME NEW c \in Clients, NEW t \in Turns, SubmitAccepted(c, t) \/ SubmitRefused(c, t)
      PROVE  RInv'
  <2>1. CASE SubmitRefused(c, t)
    BY <2>1, ArrivalSteps DEF SubmitRefused
  <2>2. CASE SubmitAccepted(c, t)
    <3>1. \E s \in Sessions : Stream(t, s)
      BY <2>2 DEF SubmitAccepted, TypeOK
    <3> QED
      BY <3>1, <2>2, ArrivalSteps
  <2> QED
    BY <1>3, <2>1, <2>2
<1>4. ASSUME NEW c \in Clients, ReadToTheEnd(c) \/ LoseStream(c) \/ NewConversation(c) PROVE RInv'
  BY <1>1, <1>4 DEF ReadToTheEnd, LoseStream, NewConversation
<1>5. CASE Restart
  BY <1>5, RestartStep
<1>6. CASE UNCHANGED vars
  BY <1>1, <1>6 DEF vars
<1> QED
  BY <1>2, <1>3, <1>4, <1>5, <1>6 DEF Next

CInv == TypeOK /\ RInv

\* A message more is shown.
LEMMA ShowFacts ==
  ASSUME TypeOK, NEW c \in Clients, NEW role \in Roles, NEW t \in Turns, Show(c, role, t)
  PROVE  messages' \in [Clients -> Seq(Message)]
<1>1. [role |-> role, turn |-> t] \in Message /\ messages[c] \in Seq(Message)
  BY DEF Message, TypeOK
<1>2. Append(messages[c], [role |-> role, turn |-> t]) \in Seq(Message)
  BY <1>1, AppendProperties
<1> QED
  BY <1>2 DEF Show, TypeOK

\* The clients keep the types (frontend/app.py).
LEMMA ClientsTypes == CInv /\ [Next]_vars => TypeOK'
<1> SUFFICES ASSUME CInv, [Next]_vars PROVE TypeOK'
  OBVIOUS
<1> USE DEF CInv
<1>1. RouteTypeOK'
  BY RoutesStep DEF RInv, MInv
<1>2. CASE UNCHANGED clientVars
  BY <1>1, <1>2 DEF clientVars, TypeOK
<1>3. CASE \E t \in Turns : Call(t)
  BY <1>2, <1>3 DEF Call
<1>4. ASSUME NEW c \in Clients, NEW t \in Turns, Submit(c, t) PROVE TypeOK'
  <2>1. messages' \in [Clients -> Seq(Message)]
    BY <1>4, ShowFacts DEF Submit, Roles
  <2> QED
    BY <1>1, <1>4, <2>1 DEF Submit, TypeOK
<1>5. ASSUME NEW c \in Clients, ReadToTheEnd(c) PROVE TypeOK'
  <2> DEFINE t == asking[c]
  <2>1. t \in Turns
    BY <1>5 DEF TypeOK, ReadToTheEnd
  <2>2. CASE Learns(t)
    <3>1. session_id' = [session_id EXCEPT ![c] = session[t]] /\ Show(c, "assistant", t)
      BY <1>5, <2>2 DEF ReadToTheEnd
    <3>2. messages' \in [Clients -> Seq(Message)]
      BY <2>1, <3>1, ShowFacts DEF Roles
    <3>3. session[t] \in Sessions \cup {NoSession}
      BY <2>1 DEF TypeOK, RouteTypeOK
    <3> QED
      BY <1>1, <1>5, <3>1, <3>2, <3>3 DEF ReadToTheEnd, TypeOK
  <2>3. CASE ~Learns(t)
    BY <1>1, <1>5, <2>3 DEF ReadToTheEnd, TypeOK
  <2> QED
    BY <2>2, <2>3
<1>6. ASSUME NEW c \in Clients, LoseStream(c) \/ NewConversation(c) PROVE TypeOK'
  <2>1. << >> \in Seq(Message)
    BY EmptySeq
  <2>2. CASE LoseStream(c)
    BY <1>1, <2>2 DEF LoseStream, TypeOK
  <2>3. CASE NewConversation(c)
    BY <1>1, <2>1, <2>3 DEF NewConversation, TypeOK
  <2> QED
    BY <1>6, <2>2, <2>3
<1> QED
  BY <1>2, <1>3, <1>4, <1>5, <1>6 DEF Next, SubmitAccepted, SubmitRefused, vars

LEMMA Clienteles == Spec => []CInv
<1>1. Init => CInv
  BY InitRoutes, EmptySeq DEF Init, CInv, TypeOK, RInv, MInv
<1>2. CInv /\ [Next]_vars => CInv'
  BY RoutesStep, ClientsTypes DEF CInv
<1> QED
  BY <1>1, <1>2, PTL DEF Spec

\* For any clients and sessions: every variable of the routes, of their memory and of
\* the clients keeps its type.
THEOREM TypeCorrect == Spec => []TypeOK
<1>1. CInv => TypeOK
  BY DEF CInv
<1> QED
  BY <1>1, Clienteles, PTL

\* For any bounds and interleaving of requests: the memory of a session holds the last
\* turns that were answered in it, as whole exchanges and in the order in which they
\* were answered (ConversationStore under chat and chat_stream).
THEOREM MemoryIsWhole == Spec => []Remembers
<1>1. CInv => Remembers
  <2> SUFFICES ASSUME CInv, NEW s \in Sessions
               PROVE  /\ msgs[s] # << >> <=> s \in Resident
                      /\ LET turns == LastOf(kept[s], MaxTurns) IN
                           /\ Len(msgs[s]) = 2 * Len(turns)
                           /\ \A i \in DOMAIN turns :
                                SubSeq(msgs[s], 2 * i - 1, 2 * i) = Exchange(turns[i])
    BY DEF Remembers
  <2> DEFINE turns == LastOf(kept[s], MaxTurns)
  <2>1. /\ msgs[s] \in Seq(Message) /\ kept[s] \in Seq(Turns) /\ Pairs(msgs[s], turns)
        /\ s \in Resident => kept[s] # << >>
        /\ s \notin Resident => kept[s] = << >>
    BY DEF CInv, RInv, MInv, RouteTypeOK, StoreTypeOK, KeptWhole
  <2>2. /\ turns \in Seq(Turns)
        /\ Len(turns) = IF MaxTurns = 0 \/ MaxTurns >= Len(kept[s]) THEN Len(kept[s]) ELSE MaxTurns
    BY <2>1, Bounds, LastOfFacts
  <2> HIDE DEF turns
  <2>3. /\ Len(msgs[s]) \in Nat /\ Len(turns) \in Nat /\ DOMAIN turns = 1 .. Len(turns)
        /\ Len(kept[s]) \in Nat
        /\ msgs[s] = << >> <=> Len(msgs[s]) = 0
        /\ kept[s] = << >> <=> Len(kept[s]) = 0
        /\ \A i \in 1 .. Len(turns) : turns[i] \in Turns
    BY <2>1, <2>2, SeqFacts
  <2>4. Len(msgs[s]) = 2 * Len(turns)
    BY <2>1 DEF Pairs
  <2>5. msgs[s] # << >> <=> s \in Resident
    BY <2>1, <2>2, <2>3, <2>4, Bounds
  <2>6. ASSUME NEW i \in DOMAIN turns
        PROVE  SubSeq(msgs[s], 2 * i - 1, 2 * i) = Exchange(turns[i])
    <3> DEFINE m == 2 * i - 1
               n == 2 * i
               part == SubSeq(msgs[s], m, n)
    <3>1. m \in Nat \ {0} /\ n \in Nat /\ n <= Len(msgs[s]) /\ m <= n + 1 /\ n - m + 1 = 2
      <4>1. i \in Nat /\ 1 <= i /\ i <= Len(turns) /\ Len(turns) \in Nat
        BY <2>3, <2>6
      <4>2. 2 * i - 1 \in Nat \ {0} /\ 2 * i \in Nat
        BY <4>1
      <4>3. 2 * i <= 2 * Len(turns)
        BY <4>1
      <4>4. m <= n + 1 /\ n - m + 1 = 2
        BY <4>1
      <4> QED
        BY <2>4, <4>2, <4>3, <4>4
    <3>2. m + 1 - 1 = m /\ m + 2 - 1 = n /\ 1 \in 1 .. 2 /\ 2 \in 1 .. 2
      BY <3>1
    <3>3. /\ msgs[s][m] = [role |-> "user", turn |-> turns[i]]
          /\ msgs[s][n] = [role |-> "assistant", turn |-> turns[i]]
      BY <2>1, <2>3 DEF Pairs
    <3> HIDE DEF m, n
    <3>4. /\ part \in Seq(Message) /\ Len(part) = n - m + 1
          /\ \A k \in 1 .. n - m + 1 : part[k] = msgs[s][m + k - 1]
      BY <2>1, <3>1, SliceFacts
    <3> HIDE DEF part
    <3>5. Len(part) = 2 /\ part[1] = msgs[s][m] /\ part[2] = msgs[s][n]
      BY <3>1, <3>2, <3>4
    <3>6. /\ Exchange(turns[i]) \in Seq(Message) /\ Len(Exchange(turns[i])) = 2
          /\ Exchange(turns[i])[1] = part[1] /\ Exchange(turns[i])[2] = part[2]
      BY <2>3, <3>3, <3>5, ExchangeFacts
    <3>7. \A k \in 1 .. Len(part) : k = 1 \/ k = 2
      BY <3>5
    <3>8. part = Exchange(turns[i])
      BY <3>4, <3>5, <3>6, <3>7, SeqEqual
    <3> QED
      BY <3>8 DEF part, m, n
  <2> QED
    BY <2>4, <2>5, <2>6 DEF turns
<1> QED
  BY <1>1, Clienteles, PTL

\* For any interleaving and loss of streams: a stream sends tokens and then at most one
\* final frame, of the kind that the turn's end calls for (event_stream).
THEOREM FinalFrames == Spec => []OneFinalFrame
<1>1. CInv => OneFinalFrame
  <2> SUFFICES ASSUME CInv, NEW t \in Turns, NEW i \in DOMAIN frames[t]
               PROVE  /\ i < Len(frames[t]) => frames[t][i] = "token"
                      /\ frames[t][i] = "done" => phase[t] = "answered"
                      /\ frames[t][i] = "error" => phase[t] = "failed"
    BY DEF OneFinalFrame
  <2>1. i \in 1 .. Len(frames[t])
    BY SeqFacts DEF CInv, RInv, MInv, RouteTypeOK
  <2> QED
    BY <2>1 DEF CInv, RInv, FramesInv
<1> QED
  BY <1>1, Clienteles, PTL

(***************************************************************************)
(* Who is forgotten.                                                       *)
(***************************************************************************)
\* The end of a list stays the end of it when a session is put back at its end.
LEMMA EndOfToEnd ==
  ASSUME NEW by \in Seq(Sessions), OnceEach(by), NEW s \in Sessions, NEW n \in Nat \ {0}
  PROVE  LET end == LastOf(by, n) IN
         /\ LastOf(Append(Without(end, s), s), n) = LastOf(Append(Without(by, s), s), n)
         /\ OnceEach(end)
<1> DEFINE end == LastOf(by, n)
           a0  == Append(Without(end, s), s)
           b0  == Append(Without(by, s), s)
           a   == LastOf(a0, n)
           b   == LastOf(b0, n)
           d   == Len(by) - n
<1>1. /\ Len(by) \in Nat /\ DOMAIN by = 1 .. Len(by)
      /\ \A i, j \in 1 .. Len(by) : by[i] = by[j] => i = j
  BY SeqFacts DEF OnceEach
<1>2. CASE Len(by) <= n
  <2>1. end = by
    BY <1>1, <1>2 DEF LastOf
  <2> QED
    BY <2>1
<1>3. CASE Len(by) > n
  <2>0. d \in Nat \ {0} /\ Len(by) = n + d
    <3>1. \A l \in Nat : l > n => l - n \in Nat \ {0} /\ l = n + (l - n)
      OBVIOUS
    <3>2. Len(by) \in Nat
      BY <1>1
    <3> QED
      BY <1>3, <3>1, <3>2
  <2> HIDE DEF d
  <2>1. end \in Seq(Sessions) /\ Len(end) = n /\ \A i \in 1 .. n : end[i] = by[d + i]
    <3>1. /\ end \in Seq(Sessions)
          /\ Len(end) = IF n = 0 \/ n >= Len(by) THEN Len(by) ELSE n
          /\ \A i \in 1 .. Len(end) : end[i] = by[Len(by) - Len(end) + i]
      BY LastOfFacts
    <3>2. Len(end) = n
      <4>1. ~ (n = 0 \/ n >= Len(by))
        BY <2>0
      <4> QED
        BY <3>1, <4>1
    <3>3. \A i \in 1 .. n : Len(by) - n + i = d + i
      BY <2>0
    <3> QED
      BY <3>1, <3>2, <3>3
  <2>2. DOMAIN end = 1 .. n
    BY <2>1, SeqFacts
  <2> HIDE DEF end
  <2>3. OnceEach(end)
    <3> SUFFICES ASSUME NEW i \in 1 .. n, NEW j \in 1 .. n, end[i] = end[j] PROVE i = j
      BY <2>2 DEF OnceEach
    <3>1. d + i \in 1 .. Len(by) /\ d + j \in 1 .. Len(by) /\ by[d + i] = by[d + j]
      BY <2>0, <2>1
    <3>2. d + i = d + j
      BY <1>1, <3>1
    <3> QED
      BY <2>0, <3>2
  <2>4. /\ a0 \in Seq(Sessions) /\ b0 \in Seq(Sessions)
        /\ Len(a0) = IF s \in Among(end) THEN n ELSE n + 1
        /\ Len(b0) = IF s \in Among(by) THEN n + d ELSE n + d + 1
        /\ a0[Len(a0)] = s /\ b0[Len(b0)] = s
    <3>1. /\ a0 \in Seq(Sessions) /\ a0[Len(a0)] = s
          /\ Len(a0) = IF s \in Among(end) THEN Len(end) ELSE Len(end) + 1
      BY <2>1, <2>3, ToEndFacts
    <3>2. /\ b0 \in Seq(Sessions) /\ b0[Len(b0)] = s
          /\ Len(b0) = IF s \in Among(by) THEN Len(by) ELSE Len(by) + 1
      BY ToEndFacts
    <3> HIDE DEF a0, b0
    <3> QED
      BY <2>0, <2>1, <3>1, <3>2
  <2>5. Len(a0) >= n /\ Len(b0) >= n /\ Len(a0) \in Nat /\ Len(b0) \in Nat
    <3> HIDE DEF a0, b0
    <3> QED
      BY <2>0, <2>4
  <2>6. /\ a \in Seq(Sessions) /\ Len(a) = n /\ \A i \in 1 .. n : a[i] = a0[Len(a0) - n + i]
        /\ b \in Seq(Sessions) /\ Len(b) = n /\ \A i \in 1 .. n : b[i] = b0[Len(b0) - n + i]
    <3> HIDE DEF a0, b0
    <3>1. /\ a \in Seq(Sessions)
          /\ Len(a) = IF n = 0 \/ n >= Len(a0) THEN Len(a0) ELSE n
          /\ \A i \in 1 .. Len(a) : a[i] = a0[Len(a0) - Len(a) + i]
      BY <2>4, LastOfFacts
    <3>2. /\ b \in Seq(Sessions)
          /\ Len(b) = IF n = 0 \/ n >= Len(b0) THEN Len(b0) ELSE n
          /\ \A i \in 1 .. Len(b) : b[i] = b0[Len(b0) - Len(b) + i]
      BY <2>4, LastOfFacts
    <3> HIDE DEF a, b
    <3>3. Len(a) = n /\ Len(b) = n
      BY <2>5, <3>1, <3>2
    <3> QED
      BY <3>1, <3>2, <3>3
  <2>7. ASSUME NEW i \in 1 .. n PROVE a[i] = b[i]
    <3>1. CASE i = n
      <4>1. Len(a0) - n + i = Len(a0) /\ Len(b0) - n + i = Len(b0)
        BY <2>5, <3>1
      <4> QED
        BY <2>4, <2>6, <4>1
    <3>2. CASE i # n
      <4>0. i \in 1 .. n - 1 /\ i + 1 \in 1 .. n
        BY <3>2
      <4>1. CASE s \notin Among(by)
        <5>1. s \notin Among(end)
          <6> SUFFICES ASSUME NEW k \in 1 .. n, end[k] = s PROVE FALSE
            BY <2>2 DEF Among
          <6>1. d + k \in 1 .. Len(by) /\ by[d + k] = s
            BY <2>0, <2>1
          <6> QED
            BY <1>1, <4>1, <6>1 DEF Among
        <5>2. Without(end, s) = end /\ Without(by, s) = by
          BY <2>1, <4>1, <5>1, WithoutFacts
        <5>3. Len(a0) - n + i = i + 1 /\ Len(b0) - n + i = d + i + 1
          BY <2>0, <2>4, <4>1, <5>1
        <5>4. /\ i + 1 \in 1 .. Len(end) /\ d + i + 1 \in 1 .. Len(by)
          BY <2>0, <2>1, <4>0
        <5>5. a0[i + 1] = end[i + 1] /\ b0[d + i + 1] = by[d + i + 1]
          BY <2>1, <5>2, <5>4, AppendFacts
        <5>6. end[i + 1] = by[d + i + 1]
          <6>1. end[i + 1] = by[d + (i + 1)] /\ d + (i + 1) = d + i + 1
            BY <2>0, <2>1, <4>0
          <6> QED
            BY <6>1
        <5> QED
          BY <2>6, <5>3, <5>5, <5>6
      <4>2. CASE s \in Among(by)
        <5>1. PICK p \in 1 .. Len(by) :
                /\ by[p] = s
                /\ Without(by, s) \in Seq(Sessions)
                /\ Len(Without(by, s)) = Len(by) - 1
                /\ \A k \in 1 .. Len(Without(by, s)) : Without(by, s)[k] = by[IF k < p THEN k ELSE k + 1]
          BY <4>2, WithoutFacts
        <5>2. Len(b0) - n + i = d + i
          BY <2>0, <2>4, <4>2
        <5>3. d + i \in 1 .. Len(Without(by, s))
          BY <2>0, <4>0, <5>1
        <5>4. b0[d + i] = by[IF d + i < p THEN d + i ELSE d + i + 1]
          BY <5>1, <5>3, AppendFacts
        <5>5. b[i] = by[IF d + i < p THEN d + i ELSE d + i + 1]
          BY <2>6, <5>2, <5>4
        <5>6. CASE p > d
          <6>1. p - d \in 1 .. n /\ d + (p - d) = p
            BY <1>1, <2>0, <5>6
          <6>2. end[p - d] = s
            BY <2>1, <5>1, <6>1
          <6>3. s \in Among(end)
            BY <2>2, <6>1, <6>2 DEF Among
          <6>4. PICK q \in 1 .. Len(end) :
                  /\ end[q] = s
                  /\ Without(end, s) \in Seq(Sessions)
                  /\ Len(Without(end, s)) = Len(end) - 1
                  /\ \A k \in 1 .. Len(Without(end, s)) : Without(end, s)[k] = end[IF k < q THEN k ELSE k + 1]
            BY <2>1, <6>3, WithoutFacts
          <6>5. q = p - d
            BY <2>1, <2>2, <2>3, <6>1, <6>2, <6>4 DEF OnceEach
          <6>6. Len(a0) - n + i = i
            BY <2>4, <6>3
          <6>7. i \in 1 .. Len(Without(end, s))
            BY <2>1, <4>0, <6>4
          <6>8. a0[i] = end[IF i < q THEN i ELSE i + 1]
            BY <6>4, <6>7, AppendFacts
          <6>9. a[i] = end[IF i < q THEN i ELSE i + 1]
            BY <2>6, <6>6, <6>8
          <6>10. CASE i < q
            <7>1. d + i < p /\ i \in 1 .. n
              BY <1>1, <2>0, <6>5, <6>10
            <7> QED
              BY <2>1, <5>5, <6>9, <6>10, <7>1
          <6>11. CASE ~(i < q)
            <7>1. ~(d + i < p) /\ d + (i + 1) = d + i + 1
              BY <1>1, <2>0, <6>5, <6>11
            <7>2. end[i + 1] = by[d + (i + 1)]
              BY <2>1, <4>0
            <7> QED
              BY <5>5, <6>9, <6>11, <7>1, <7>2
          <6> QED
            BY <6>10, <6>11
        <5>7. CASE ~(p > d)
          <6>1. s \notin Among(end)
            <7> SUFFICES ASSUME NEW k \in 1 .. n, end[k] = s PROVE FALSE
              BY <2>2 DEF Among
            <7>1. d + k \in 1 .. Len(by) /\ by[d + k] = by[p]
              BY <2>0, <2>1, <5>1
            <7>2. d + k = p
              BY <1>1, <7>1
            <7> QED
              BY <2>0, <5>7, <7>2
          <6>2. Without(end, s) = end
            BY <2>1, <6>1, WithoutFacts
          <6>3. Len(a0) - n + i = i + 1
            BY <2>4, <6>1
          <6>4. i + 1 \in 1 .. Len(end)
            BY <2>1, <4>0
          <6>5. a0[i + 1] = end[i + 1]
            BY <2>1, <6>2, <6>4, AppendFacts
          <6>6. end[i + 1] = by[d + (i + 1)] /\ d + (i + 1) = d + i + 1 /\ ~(d + i < p)
            BY <1>1, <2>0, <2>1, <4>0, <5>7
          <6> QED
            BY <2>6, <5>5, <6>3, <6>5, <6>6
        <5> QED
          BY <5>6, <5>7
      <4> QED
        BY <4>1, <4>2
    <3> QED
      BY <3>1, <3>2
  <2>8. a = b
    <3> HIDE DEF a, b
    <3> QED
      BY <2>6, <2>7, SeqEqual
  <2> QED
    BY <2>3, <2>8 DEF end
<1> QED
  BY <1>2, <1>3

\* What a step does to the dictionary and to its history.
LEMMA KindsOfSteps ==
  ASSUME CInv, [Next]_vars
  PROVE  \/ UNCHANGED <<storeVars, restarts, kept, byTurn>>
         \/ \E t \in Turns : /\ Record(t) /\ session[t] \in Sessions
                             /\ phase[t] \in {"asked", "streaming"}
                             /\ phase' = [phase EXCEPT ![t] = phase'[t]]
                             /\ phase'[t] \in {"recorded", "answered"}
         \/ Restart
<1> USE DEF CInv
<1>1. ASSUME NEW t \in Turns, ChatAnswered(t) \/ StreamAnswered(t)
      PROVE  /\ Record(t) /\ session[t] \in Sessions
             /\ phase[t] \in {"asked", "streaming"}
             /\ phase' = [phase EXCEPT ![t] = phase'[t]]
             /\ phase'[t] \in {"recorded", "answered"}
  BY <1>1 DEF ChatAnswered, StreamAnswered, Move, RInv, MInv, Accepted, RouteTypeOK
<1>2. ASSUME NEW t \in Turns,
             ChatFailed(t) \/ Token(t) \/ StreamFailed(t) \/ Done(t) \/ Disconnect(t) \/ TurnedAway(t)
      PROVE  UNCHANGED <<storeVars, restarts, kept, byTurn>>
  BY <1>2 DEF ChatFailed, Token, StreamFailed, Done, Disconnect, TurnedAway, history
<1>3. ASSUME NEW t \in Turns, NEW s, Chat(t, s) \/ Stream(t, s)
      PROVE  UNCHANGED <<storeVars, restarts, kept, byTurn>>
  BY <1>3 DEF Chat, Stream, Ask, history
<1>4. CASE \E t \in Turns : Call(t) \/ Handle(t) \/ NoticesLoss(t)
  BY <1>1, <1>2, <1>3, <1>4 DEF Call, Handle, NoticesLoss
<1>5. CASE \E c \in Clients, t \in Turns : SubmitAccepted(c, t) \/ SubmitRefused(c, t)
  BY <1>2, <1>3, <1>5 DEF SubmitAccepted, SubmitRefused
<1>6. CASE UNCHANGED routeVars
  BY <1>6 DEF routeVars, history
<1> QED
  BY <1>4, <1>5, <1>6 DEF Next, ReadToTheEnd, LoseStream, NewConversation, vars

\* The sessions by turn, each there once, and the dictionary their end.
ByTurnInv == byTurn \in Seq(Sessions) /\ OnceEach(byTurn) /\ EvictsOldest

LEMMA ByTurnStep == CInv /\ ByTurnInv /\ [Next]_vars => ByTurnInv'
<1> SUFFICES ASSUME CInv, ByTurnInv, [Next]_vars PROVE ByTurnInv'
  OBVIOUS
<1>1. CASE UNCHANGED <<storeVars, restarts, kept, byTurn>>
  BY <1>1 DEF ByTurnInv, EvictsOldest, storeVars, OnceEach
<1>2. ASSUME NEW t \in Turns, Record(t), session[t] \in Sessions PROVE ByTurnInv'
  <2> DEFINE s == session[t]
  <2>1. /\ byTurn' = Append(Without(byTurn, s), s)
        /\ order' = LastOf(Append(Without(order, s), s), MaxSessions)
    BY <1>2 DEF Record, Latest, AddTurn, Keep, Reordered
  <2>2. byTurn' \in Seq(Sessions) /\ OnceEach(byTurn')
    BY <1>2, <2>1, ToEndFacts DEF ByTurnInv
  <2>3. order' = LastOf(byTurn', MaxSessions)
    BY <1>2, <2>1, EndOfToEnd, Bounds DEF ByTurnInv, EvictsOldest
  <2> QED
    BY <2>2, <2>3 DEF ByTurnInv, EvictsOldest, OnceEach
<1>3. CASE Restart
  <2>1. order' = << >> /\ byTurn' = << >>
    BY <1>3 DEF Restart, Forget
  <2> QED
    BY <2>1, EmptySeq, Bounds DEF ByTurnInv, EvictsOldest, OnceEach, LastOf
<1> QED
  BY <1>1, <1>2, <1>3, KindsOfSteps

LEMMA ByTurn == Spec => [](CInv /\ ByTurnInv)
<1>1. Init => ByTurnInv
  BY EmptySeq, Bounds
     DEF Init, RouteInit, StoreInit, ByTurnInv, EvictsOldest, OnceEach, LastOf
<1>2. CInv /\ ByTurnInv /\ [Next]_vars => ByTurnInv'
  BY ByTurnStep
<1> QED
  BY <1>1, <1>2, Clienteles, PTL DEF Spec

\* For any capacity and interleaving of requests: the sessions that the store holds
\* are those whose last turn is the latest, in that order (add_turn's popitem).
THEOREM ForgetsTheOldest == Spec => []EvictsOldest
<1>1. ByTurnInv => EvictsOldest
  BY DEF ByTurnInv
<1> QED
  BY <1>1, ByTurn, PTL

\* The turns of the memory, by the phases of their requests: an answered turn is kept
\* as long as no session has been forgotten, and one without an answer is not kept.
Answered   == {"recorded", "answered", "unheard"}
Unanswered == {"new", "asked", "streaming", "failed", "left"}
Has(list, t) == t \in {list[i] : i \in DOMAIN list}

AnsweredInv ==
  \A t \in Turns :
    /\ phase[t] \in Answered =>
         /\ session[t] \in Sessions
         /\ restarts = 0 /\ Len(byTurn) <= MaxSessions => Has(kept[session[t]], t)
    /\ phase[t] \in Unanswered => \A s \in Sessions : ~Has(kept[s], t)

\* A step that adds no turn answers none either, but for a stream's last frame, and
\* changes no session but that of a request that arrives.
LEMMA QuietMoves ==
  ASSUME CInv, [Next]_vars, UNCHANGED <<storeVars, restarts, kept, byTurn>>, NEW t \in Turns
  PROVE  /\ phase'[t] \in Answered => phase[t] \in Answered /\ session'[t] = session[t]
         /\ phase'[t] \in Unanswered => phase[t] \in Unanswered
<1> USE DEF CInv
<1>0. phase \in [Turns -> Phases] /\ session \in [Turns -> Sessions \cup {NoSession}] /\ restarts \in Nat
  BY Bounds DEF RInv, MInv, RouteTypeOK
<1>1. ASSUME NEW u \in Turns,
             ChatFailed(u) \/ Token(u) \/ StreamFailed(u) \/ Done(u) \/ Disconnect(u) \/ TurnedAway(u)
      PROVE  /\ session' = session
             /\ phase'[t] \in Answered => phase[t] \in Answered
             /\ phase'[t] \in Unanswered => phase[t] \in Unanswered
  BY <1>0, <1>1 DEF ChatFailed, Token, StreamFailed, Done, Disconnect, TurnedAway, Move, Answered, Unanswered
<1>2. ASSUME NEW u \in Turns, NEW s, Chat(u, s) \/ Stream(u, s)
      PROVE  /\ phase'[t] \in Answered => phase[t] \in Answered /\ session'[t] = session[t]
             /\ phase'[t] \in Unanswered => phase[t] \in Unanswered
  BY <1>0, <1>2 DEF Chat, Stream, Ask, Move, Answered, Unanswered
<1>3. ASSUME NEW u \in Turns, ChatAnswered(u) \/ StreamAnswered(u) PROVE FALSE
  <2>1. /\ kept' = [v \in Sessions |-> IF v \notin Resident' THEN << >>
                                       ELSE IF v = session[u] THEN Append(kept[v], u) ELSE kept[v]]
        /\ session[u] \in Sessions /\ session[u] \in Resident'
        /\ kept[session[u]] \in Seq(Turns)
    <3>1. Record(u) /\ session[u] \in Sessions
      BY <1>3 DEF ChatAnswered, StreamAnswered, Move, RInv, MInv, Accepted
    <3>2. StoreTypeOK /\ Distinct /\ order' = LastOf(Reordered(session[u]), MaxSessions)
      BY <3>1 DEF Record, AddTurn, Keep, RInv, MInv, RouteTypeOK, KeptWhole
    <3> QED
      BY <3>1, <3>2, RecordFacts, EvictedFacts DEF RInv, MInv, KeptWhole
  <2>2. kept'[session[u]] = Append(kept[session[u]], u)
    BY <2>1
  <2>3. /\ Len(Append(kept[session[u]], u)) = Len(kept[session[u]]) + 1
        /\ Len(kept[session[u]]) \in Nat
    BY <2>1, AppendFacts, SeqFacts
  <2> QED
    BY <2>2, <2>3
<1>4. CASE \E u \in Turns : Call(u) \/ Handle(u) \/ NoticesLoss(u)
  BY <1>1, <1>2, <1>3, <1>4 DEF Call, Handle, NoticesLoss
<1>5. CASE \E c \in Clients, u \in Turns : SubmitAccepted(c, u) \/ SubmitRefused(c, u)
  BY <1>1, <1>2, <1>5 DEF SubmitAccepted, SubmitRefused
<1>6. CASE UNCHANGED routeVars
  BY <1>6 DEF routeVars
<1>7. CASE Restart
  BY <1>0, <1>7 DEF Restart
<1> QED
  BY <1>4, <1>5, <1>6, <1>7 DEF Next, ReadToTheEnd, LoseStream, NewConversation, vars

LEMMA AnsweredStep == CInv /\ ByTurnInv /\ AnsweredInv /\ [Next]_vars => AnsweredInv'
<1> SUFFICES ASSUME CInv, ByTurnInv, AnsweredInv, [Next]_vars PROVE AnsweredInv'
  OBVIOUS
<1>0. phase \in [Turns -> Phases] /\ Accepted /\ KeptWhole /\ restarts \in Nat
  BY Bounds DEF CInv, RInv, MInv, RouteTypeOK
<1>1. CASE UNCHANGED <<storeVars, restarts, kept, byTurn>>
  <2> SUFFICES ASSUME NEW t \in Turns
               PROVE  /\ phase'[t] \in Answered =>
                           /\ session'[t] \in Sessions
                           /\ restarts = 0 /\ Len(byTurn) <= MaxSessions => Has(kept[session'[t]], t)
                      /\ phase'[t] \in Unanswered => \A s \in Sessions : ~Has(kept[s], t)
    BY <1>1 DEF AnsweredInv, Has
  <2>1. /\ phase'[t] \in Answered => phase[t] \in Answered /\ session'[t] = session[t]
        /\ phase'[t] \in Unanswered => phase[t] \in Unanswered
    BY QuietMoves, <1>1
  <2> QED
    BY <2>1 DEF AnsweredInv
<1>2. ASSUME NEW t \in Turns, Record(t), session[t] \in Sessions,
             phase[t] \in {"asked", "streaming"},
             phase' = [phase EXCEPT ![t] = phase'[t]], phase'[t] \in {"recorded", "answered"}
      PROVE  AnsweredInv'
  <2> DEFINE s == session[t]
  <2>1. /\ session' = session /\ restarts' = restarts
        /\ byTurn' = Append(Without(byTurn, s), s)
        /\ order' = LastOf(Append(Without(order, s), s), MaxSessions)
    BY <1>2 DEF Record, Latest, AddTurn, Keep, Reordered
  <2>2. /\ kept' = [u \in Sessions |-> IF u \notin Resident' THEN << >>
                                       ELSE IF u = s THEN Append(kept[u], t) ELSE kept[u]]
        /\ s \in Resident'
    <3>1. StoreTypeOK /\ Distinct
      BY <1>0 DEF KeptWhole, CInv, RInv, MInv, RouteTypeOK
    <3> QED
      BY <1>2, <2>1, <3>1, RecordFacts, EvictedFacts DEF CInv, RInv, Reordered
  <2>3. ASSUME NEW u \in Sessions
        PROVE  /\ kept[u] \in Seq(Turns)
               /\ \A v \in Turns : Has(kept'[u], v) => Has(kept[u], v) \/ v = t
               /\ u = s => Has(kept'[u], t)
               /\ \A v \in Turns : u \in Resident' /\ Has(kept[u], v) => Has(kept'[u], v)
    <3>1. /\ kept[u] \in Seq(Turns) /\ Len(kept[u]) \in Nat /\ DOMAIN kept[u] = 1 .. Len(kept[u])
      BY <1>0, SeqFacts DEF KeptWhole
    <3>2. /\ DOMAIN Append(kept[u], t) = 1 .. Len(kept[u]) + 1
          /\ \A i \in 1 .. Len(kept[u]) : Append(kept[u], t)[i] = kept[u][i]
          /\ Append(kept[u], t)[Len(kept[u]) + 1] = t
      BY <3>1, AppendFacts, SeqFacts
    <3>3. CASE u \notin Resident'
      BY <2>2, <3>1, <3>3, EmptySeq DEF Has
    <3>4. CASE u \in Resident' /\ u # s
      BY <2>2, <3>1, <3>4 DEF Has
    <3>5. CASE u \in Resident' /\ u = s
      <4>1. kept'[u] = Append(kept[u], t)
        BY <2>2, <3>5
      <4>2. \A i \in 1 .. Len(kept[u]) + 1 : i \in 1 .. Len(kept[u]) \/ i = Len(kept[u]) + 1
        BY <3>1
      <4>3. 1 .. Len(kept[u]) \subseteq 1 .. Len(kept[u]) + 1 /\ Len(kept[u]) + 1 \in 1 .. Len(kept[u]) + 1
        BY <3>1
      <4> QED
        BY <3>1, <3>2, <4>1, <4>2, <4>3 DEF Has
    <3> QED
      BY <2>2, <3>1, <3>3, <3>4, <3>5
  \* As long as no session is forgotten, all that have had a turn are in the store.
  <2>4. Len(byTurn') <= MaxSessions =>
          Len(byTurn) <= MaxSessions /\ Resident \subseteq Resident'
    <3>1. /\ Len(byTurn') = IF s \in Among(byTurn) THEN Len(byTurn) ELSE Len(byTurn) + 1
          /\ Among(byTurn') = Among(byTurn) \cup {s}
      BY <1>2, <2>1, ToEndFacts DEF ByTurnInv
    <3>2. Len(byTurn) \in Nat
      BY SeqFacts DEF ByTurnInv
    <3>3. order = LastOf(byTurn, MaxSessions) /\ order' = LastOf(byTurn', MaxSessions)
      BY ByTurnStep DEF ByTurnInv, EvictsOldest
    <3>4. ASSUME Len(byTurn') <= MaxSessions
          PROVE  Len(byTurn) <= MaxSessions /\ order = byTurn /\ order' = byTurn'
      <4>1. Len(byTurn') \in Nat /\ Len(byTurn) <= Len(byTurn')
        BY <3>1, <3>2
      <4>2. Len(byTurn) <= MaxSessions
        BY <3>2, <3>4, <4>1, Bounds
      <4> QED
        BY <3>2, <3>3, <3>4, <4>1, <4>2, Bounds DEF LastOf
    <3> QED
      BY <3>1, <3>4 DEF Resident, Among
  <2>5. ASSUME NEW v \in Turns
        PROVE  /\ phase'[v] \in Answered =>
                    /\ session'[v] \in Sessions
                    /\ restarts' = 0 /\ Len(byTurn') <= MaxSessions => Has(kept'[session'[v]], v)
               /\ phase'[v] \in Unanswered => \A u \in Sessions : ~Has(kept'[u], v)
    <3>1. CASE v = t
      BY <1>2, <2>1, <2>3, <3>1 DEF Answered, Unanswered
    <3>2. CASE v # t
      <4>1. phase'[v] = phase[v]
        BY <1>0, <1>2, <3>2
      <4>2. ASSUME phase[v] \in Answered, restarts = 0, Len(byTurn') <= MaxSessions
            PROVE  Has(kept'[session[v]], v)
        <5>1. session[v] \in Sessions /\ Has(kept[session[v]], v)
          BY <2>4, <4>2 DEF AnsweredInv
        <5>2. session[v] \in Resident
          <6>1. kept[session[v]] # << >>
            BY <5>1, EmptySeq DEF Has
          <6> QED
            BY <1>0, <5>1, <6>1 DEF KeptWhole
        <5> QED
          BY <2>3, <2>4, <4>2, <5>1, <5>2
      <4> QED
        BY <2>1, <2>3, <3>2, <4>1, <4>2 DEF AnsweredInv
    <3> QED
      BY <3>1, <3>2
  <2> QED
    BY <2>5 DEF AnsweredInv, Has
<1>3. CASE Restart
  <2>1. /\ restarts' # 0 /\ session' = session
        /\ \A s \in Sessions : kept'[s] = << >>
        /\ \A t \in Turns : phase'[t] \in Answered => phase[t] \in Answered
    BY <1>0, <1>3 DEF Restart, Answered
  <2> QED
    BY <2>1, EmptySeq DEF AnsweredInv, Has
<1> QED
  BY <1>1, <1>2, <1>3, KindsOfSteps

LEMMA AnswersKept == Spec => [](CInv /\ ByTurnInv /\ AnsweredInv)
<1>1. Init => AnsweredInv
  BY EmptySeq DEF Init, RouteInit, AnsweredInv, Answered, Unanswered, Has
<1>2. CInv /\ ByTurnInv /\ AnsweredInv /\ [Next]_vars => AnsweredInv'
  BY AnsweredStep
<1> QED
  BY <1>1, <1>2, ByTurn, PTL DEF Spec

\* What a session remembers are the last of the turns kept for it.
LEMMA RememberedFacts ==
  ASSUME CInv, NEW s \in Sessions
  PROVE  LET turns == LastOf(kept[s], MaxTurns) IN
         /\ Len(msgs[s]) = 2 * Len(turns)
         /\ Remembered(s) = {turns[i] : i \in 1 .. Len(turns)}
<1> DEFINE turns == LastOf(kept[s], MaxTurns)
<1>1. /\ msgs[s] \in Seq(Message) /\ kept[s] \in Seq(Turns) /\ Pairs(msgs[s], turns)
  BY DEF CInv, RInv, MInv, RouteTypeOK, StoreTypeOK, KeptWhole
<1>2. turns \in Seq(Turns)
  BY <1>1, Bounds, LastOfFacts
<1> HIDE DEF turns
<1>3. /\ Len(turns) \in Nat /\ Len(msgs[s]) = 2 * Len(turns) /\ DOMAIN msgs[s] = 1 .. Len(msgs[s])
  BY <1>1, <1>2, SeqFacts DEF Pairs
<1>4. ASSUME NEW i \in 1 .. Len(turns)
      PROVE  /\ msgs[s][2 * i - 1].turn = turns[i] /\ msgs[s][2 * i].turn = turns[i]
  <2>1. /\ msgs[s][2 * i - 1] = [role |-> "user", turn |-> turns[i]]
        /\ msgs[s][2 * i] = [role |-> "assistant", turn |-> turns[i]]
    BY <1>1 DEF Pairs
  <2> QED
    BY <2>1
<1>5. \A i \in 1 .. Len(turns) : 2 * i \in 1 .. Len(msgs[s])
  BY <1>3
<1>6. ASSUME NEW j \in 1 .. Len(msgs[s])
      PROVE  \E i \in 1 .. Len(turns) : j = 2 * i - 1 \/ j = 2 * i
  <2> DEFINE h == (j + 1) \div 2
  <2>1. \A m \in Nat : \A k \in 1 .. 2 * m :
          (k + 1) \div 2 \in 1 .. m /\ (k = 2 * ((k + 1) \div 2) - 1 \/ k = 2 * ((k + 1) \div 2))
    OBVIOUS
  <2>2. h \in 1 .. Len(turns) /\ (j = 2 * h - 1 \/ j = 2 * h)
    BY <1>3, <2>1
  <2> QED
    BY <2>2
<1>7. Remembered(s) = {turns[i] : i \in 1 .. Len(turns)}
  <2>1. ASSUME NEW x \in Remembered(s) PROVE x \in {turns[i] : i \in 1 .. Len(turns)}
    <3>1. PICK j \in 1 .. Len(msgs[s]) : x = msgs[s][j].turn
      BY <1>3 DEF Remembered
    <3> QED
      BY <1>4, <1>6, <3>1
  <2>2. ASSUME NEW i \in 1 .. Len(turns) PROVE turns[i] \in Remembered(s)
    BY <1>3, <1>4, <1>5 DEF Remembered
  <2> QED
    BY <2>1, <2>2
<1> QED
  BY <1>3, <1>7 DEF turns

\* For any bounds and interleaving of requests, restarts and lost streams: a turn that
\* was answered, to its client or to nobody, is in the memory of its session, or later
\* ones fill it, as long as no session had to be forgotten; and a turn that failed, or
\* whose client was found gone before the answer, is in no memory.
THEOREM AnswersAreRemembered == Spec => []AnsweredIsRemembered
<1>1. CInv /\ AnsweredInv => AnsweredIsRemembered
  <2> SUFFICES ASSUME CInv, AnsweredInv, NEW t \in Turns
               PROVE  /\ phase[t] \in Answered /\ restarts = 0 /\ Len(byTurn) <= MaxSessions =>
                           t \in Remembered(session[t]) \/ Len(msgs[session[t]]) = 2 * MaxTurns
                      /\ phase[t] \in Unanswered => \A s \in Sessions : t \notin Remembered(s)
    BY DEF AnsweredIsRemembered, Answered, Unanswered
  <2>1. ASSUME NEW s \in Sessions
        PROVE  /\ t \in Remembered(s) => Has(kept[s], t)
               /\ Has(kept[s], t) => t \in Remembered(s) \/ Len(msgs[s]) = 2 * MaxTurns
    <3> DEFINE turns == LastOf(kept[s], MaxTurns)
    <3>1. /\ kept[s] \in Seq(Turns)
          /\ Len(msgs[s]) = 2 * Len(turns)
          /\ Remembered(s) = {turns[i] : i \in 1 .. Len(turns)}
      BY RememberedFacts DEF CInv, RInv, MInv, KeptWhole
    <3>2. /\ Len(kept[s]) \in Nat /\ DOMAIN kept[s] = 1 .. Len(kept[s])
      BY <3>1, SeqFacts
    <3>3. /\ Len(turns) = IF MaxTurns = 0 \/ MaxTurns >= Len(kept[s]) THEN Len(kept[s]) ELSE MaxTurns
          /\ \A i \in 1 .. Len(turns) : turns[i] = kept[s][Len(kept[s]) - Len(turns) + i]
      <4> DEFINE list == kept[s]
      <4>1. list \in Seq(Turns) /\ turns = LastOf(list, MaxTurns)
        BY <3>1
      <4> HIDE DEF list, turns
      <4>2. /\ Len(LastOf(list, MaxTurns)) =
                 IF MaxTurns = 0 \/ MaxTurns >= Len(list) THEN Len(list) ELSE MaxTurns
            /\ \A i \in 1 .. Len(LastOf(list, MaxTurns)) :
                 LastOf(list, MaxTurns)[i] = list[Len(list) - Len(LastOf(list, MaxTurns)) + i]
        BY <4>1, Bounds, LastOfFacts
      <4> QED
        BY <4>1, <4>2 DEF list
    <3> HIDE DEF turns
    <3>4. \A i \in 1 .. Len(turns) : Len(kept[s]) - Len(turns) + i \in 1 .. Len(kept[s])
      <4>1. Len(turns) \in Nat /\ Len(turns) <= Len(kept[s])
        <5>1. Len(turns) = IF MaxTurns = 0 \/ MaxTurns >= Len(kept[s]) THEN Len(kept[s]) ELSE MaxTurns
          BY <3>3
        <5>2. Len(kept[s]) \in Nat
          BY <3>2
        <5> QED
          BY <5>1, <5>2, Bounds
      <4> QED
        BY <3>2, <4>1
    <3>5. Len(turns) = Len(kept[s]) => \A i \in 1 .. Len(kept[s]) : turns[i] = kept[s][i]
      <4>1. \A n, i \in Nat : n - n + i = i
        OBVIOUS
      <4> QED
        BY <3>2, <3>3, <4>1
    <3>6. t \in Remembered(s) => Has(kept[s], t)
      BY <3>1, <3>2, <3>3, <3>4 DEF Has
    <3>7. Len(turns) = Len(kept[s]) /\ Has(kept[s], t) => t \in Remembered(s)
      BY <3>1, <3>2, <3>5 DEF Has
    <3> QED
      BY <3>1, <3>3, <3>6, <3>7
  <2> QED
    BY <2>1 DEF AnsweredInv
<1> QED
  BY <1>1, AnswersKept, PTL

(***************************************************************************)
(* The store implements the bounded memory.                                *)
(***************************************************************************)
\* The turns of whole exchanges.
LEMMA TurnsOfPairs ==
  ASSUME NEW ms \in Seq(Message), NEW ts \in Seq(Turns), Pairs(ms, ts)
  PROVE  [i \in 1 .. Len(ms) \div 2 |-> ms[2 * i].turn] = ts
<1>1. Len(ts) \in Nat /\ Len(ms) = 2 * Len(ts) /\ ts \in [1 .. Len(ts) -> Turns]
  BY LenProperties DEF Pairs
<1>2. Len(ms) \div 2 = Len(ts)
  <2>1. \A n \in Nat : (2 * n) \div 2 = n
    OBVIOUS
  <2> QED
    BY <1>1, <2>1
<1>3. ASSUME NEW i \in 1 .. Len(ts) PROVE ms[2 * i].turn = ts[i]
  <2>1. ms[2 * i] = [role |-> "assistant", turn |-> ts[i]]
    BY DEF Pairs
  <2> QED
    BY <2>1
<1> QED
  BY <1>1, <1>2, <1>3

\* As many sessions are forgotten as exceed the capacity (the while loop of
\* add_turn).
LEMMA EvictedCount ==
  ASSUME StoreTypeOK, Distinct, NEW s \in Sessions, order' = LastOf(Reordered(s), MaxSessions)
  PROVE  LET known == Resident \cup {s} IN
         /\ Cardinality(known) \in Nat
         /\ Cardinality(known \ Resident') =
              IF Cardinality(known) > MaxSessions THEN Cardinality(known) - MaxSessions ELSE 0
<1> DEFINE known == Resident \cup {s}
           all   == Reordered(s)
           gone  == Len(all) - Len(order')
           left  == known \ Resident'
<1>1. /\ all \in Seq(Sessions) /\ Len(all) \in Nat
      /\ \A i, j \in 1 .. Len(all) : all[i] = all[j] => i = j
      /\ {all[i] : i \in 1 .. Len(all)} = known
  BY ReorderedFacts
<1>2. /\ order' \in Seq(Sessions) /\ Len(order') \in Nat /\ gone \in Nat
      /\ gone = IF Len(all) > MaxSessions THEN Len(all) - MaxSessions ELSE 0
      /\ \A i \in 1 .. Len(order') : order'[i] = all[gone + i]
  BY EvictedFacts
<1> HIDE DEF all, known
<1>3. gone <= Len(all) /\ gone + Len(order') = Len(all)
  BY <1>1, <1>2
<1> HIDE DEF gone
<1>4. Resident' = {all[gone + i] : i \in 1 .. Len(order')}
  <2>1. Resident' = {order'[i] : i \in 1 .. Len(order')}
    BY <1>2, SeqFacts DEF Resident
  <2> QED
    BY <1>2, <2>1
<1>5. left = {all[i] : i \in 1 .. gone}
  <2>1. ASSUME NEW i \in 1 .. gone PROVE all[i] \in left
    <3>1. i \in 1 .. Len(all)
      BY <1>1, <1>2, <1>3
    <3>2. \A j \in 1 .. Len(order') : gone + j \in 1 .. Len(all) /\ gone + j # i
      BY <1>1, <1>2, <1>3
    <3> QED
      BY <1>1, <1>4, <3>1, <3>2
  <2>2. ASSUME NEW u \in left PROVE \E i \in 1 .. gone : all[i] = u
    <3>1. PICK i \in 1 .. Len(all) : all[i] = u
      BY <1>1
    <3>2. i \in 1 .. gone
      <4> SUFFICES ASSUME i \notin 1 .. gone PROVE FALSE
        OBVIOUS
      <4>1. i - gone \in 1 .. Len(order') /\ gone + (i - gone) = i
        BY <1>1, <1>2, <1>3
      <4>2. all[i] \in Resident'
        BY <1>4, <4>1
      <4> QED
        BY <3>1, <4>2
    <3> QED
      BY <3>1, <3>2
  <2> QED
    BY <2>1, <2>2
<1>6. ASSUME NEW n \in Nat, n <= Len(all)
      PROVE  Cardinality({all[i] : i \in 1 .. n}) = n
  <2> DEFINE T == {all[i] : i \in 1 .. n}
             f == [i \in 1 .. n |-> all[i]]
  <2>1. \A i \in 1 .. n : i \in 1 .. Len(all)
    BY <1>1, <1>6
  <2>2. f \in Bijection(1 .. n, T)
    <3>1. f \in [1 .. n -> T] /\ \A i \in 1 .. n : f[i] = all[i]
      OBVIOUS
    <3>2. \A i, j \in 1 .. n : f[i] = f[j] => i = j
      BY <1>1, <2>1, <3>1
    <3>3. \A x \in T : \E i \in 1 .. n : f[i] = x
      BY <3>1
    <3> QED
      BY <3>1, <3>2, <3>3 DEF Bijection, Injection, Surjection, IsInjective
  <2>3. ExistsBijection(1 .. n, T)
    BY <2>2 DEF ExistsBijection
  <2>4. IsFiniteSet(1 .. n) /\ Cardinality(1 .. n) = n
    BY FS_Interval
  <2> QED
    BY <2>3, <2>4, FS_Bijection
<1>7. Cardinality(known) = Len(all) /\ Cardinality(left) = gone
  <2> HIDE DEF left
  <2>1. Cardinality({all[i] : i \in 1 .. Len(all)}) = Len(all)
    BY <1>1, <1>6
  <2>2. Cardinality({all[i] : i \in 1 .. gone}) = gone
    BY <1>2, <1>3, <1>6
  <2> QED
    BY <1>1, <1>5, <2>1, <2>2
<1> QED
  BY <1>1, <1>2, <1>7 DEF known

LEMMA SameCardinality == \A S : Memory!Cardinality(S) = Cardinality(S)
  BY DEF Memory!Cardinality, Cardinality

\* Adding a turn is an answer of the bounded memory, which forgets the sessions that
\* have left the dictionary.
LEMMA RecordAnswers ==
  ASSUME MaxTurns > 0, RInv, NEW t \in Turns, session[t] \in Sessions, Record(t)
  PROVE  Memory!Answer(session[t], t)
<1> DEFINE s == session[t]
           known == Resident \cup {s}
           forgotten == known \ Resident'
<1>1. /\ StoreTypeOK' /\ KeptWhole' /\ StoreTypeOK /\ KeptWhole /\ s \in Sessions
      /\ kept' = [u \in Sessions |-> IF u \notin Resident' THEN << >>
                                   ELSE IF u = s THEN Append(kept[u], t) ELSE kept[u]]
  BY RecordFacts DEF RInv, MInv, RouteTypeOK
<1> HIDE DEF s
<1>2. order' = LastOf(Reordered(s), MaxSessions)
  BY DEF Record, AddTurn, Keep, s
<1>3. s \in Resident' /\ Resident' \subseteq known /\ Distinct
  BY <1>1, <1>2, EvictedFacts DEF KeptWhole
<1>4. Cardinality(forgotten) = IF Cardinality(known) > MaxSessions THEN Cardinality(known) - MaxSessions ELSE 0
  BY <1>1, <1>2, <1>3, EvictedCount
<1>5. /\ \A u \in Sessions : TurnsOf(u) = LastOf(kept[u], MaxTurns)
      /\ \A u \in Sessions : TurnsOf(u)' = LastOf(kept'[u], MaxTurns)
  <2>1. \A u \in Sessions : /\ kept[u] \in Seq(Turns) /\ kept'[u] \in Seq(Turns)
                          /\ msgs[u] \in Seq(Message) /\ msgs'[u] \in Seq(Message)
                          /\ Pairs(msgs[u], LastOf(kept[u], MaxTurns))
                          /\ Pairs(msgs'[u], LastOf(kept'[u], MaxTurns))
    BY <1>1 DEF KeptWhole, StoreTypeOK
  <2>2. \A u \in Sessions : /\ LastOf(kept[u], MaxTurns) \in Seq(Turns)
                          /\ LastOf(kept'[u], MaxTurns) \in Seq(Turns)
    BY <2>1, Bounds, LastOfFacts
  <2> QED
    BY <2>1, <2>2, TurnsOfPairs DEF TurnsOf
<1>6. ASSUME NEW xs \in Seq(Turns) PROVE Memory!Newest(xs) = LastOf(xs, MaxTurns)
  BY Bounds, SeqFacts DEF Memory!Newest, LastOf
<1>7. \A u \in Sessions : TurnsOf(u) # << >> <=> u \in Resident
  <2> SUFFICES ASSUME NEW u \in Sessions PROVE LastOf(kept[u], MaxTurns) # << >> <=> kept[u] # << >>
    BY <1>1, <1>5 DEF KeptWhole
  <2>1. kept[u] \in Seq(Turns)
    BY <1>1 DEF KeptWhole
  <2> DEFINE ts == LastOf(kept[u], MaxTurns)
  <2>2. ts \in Seq(Turns) /\ Len(ts) = IF MaxTurns = 0 \/ MaxTurns >= Len(kept[u]) THEN Len(kept[u]) ELSE MaxTurns
    BY <2>1, Bounds, LastOfFacts
  <2> HIDE DEF ts
  <2>3. (ts = << >> <=> Len(ts) = 0) /\ (kept[u] = << >> <=> Len(kept[u]) = 0) /\ Len(kept[u]) \in Nat
    BY <2>1, <2>2, SeqFacts
  <2> QED
    BY <2>2, <2>3, Bounds DEF ts
<1>8. Resident \subseteq Sessions
  BY <1>1, SeqFacts DEF StoreTypeOK, Resident
<1>9. Memory!Remembered([u \in Sessions |-> TurnsOf(u)]) \cup {s} = known
  BY <1>7, <1>8 DEF Memory!Remembered
<1>10. ASSUME NEW u \in Sessions
       PROVE  TurnsOf(u)' = IF u \in forgotten THEN << >>
                            ELSE IF u = s THEN Memory!Newest(Append(TurnsOf(s), t))
                            ELSE TurnsOf(u)
  <2>1. kept[u] \in Seq(Turns) /\ LastOf(<< >>, MaxTurns) = << >>
    BY <1>1, EmptySeq, Bounds DEF KeptWhole, LastOf
  <2>2. CASE u \notin Resident'
    <3>1. TurnsOf(u)' = << >>
      BY <1>1, <1>5, <2>1, <2>2
    <3>2. u \notin forgotten => TurnsOf(u) = << >> /\ u # s
      BY <1>3, <1>7, <2>2
    <3> QED
      BY <3>1, <3>2
  <2>3. CASE u \in Resident' /\ u = s
    <3>1. TurnsOf(u)' = LastOf(Append(kept[s], t), MaxTurns)
      BY <1>1, <1>5, <2>3
    <3>2. LastOf(Append(kept[s], t), MaxTurns) = LastOf(Append(TurnsOf(s), t), MaxTurns)
      BY <1>1, <1>5, <2>1, <2>3, Bounds, LastOfAppend
    <3>3. TurnsOf(s) \in Seq(Turns)
      BY <1>1, <1>5, <2>1, <2>3, Bounds, LastOfFacts
    <3>4. Append(TurnsOf(s), t) \in Seq(Turns)
      BY <3>3, AppendProperties
    <3> QED
      BY <1>6, <2>3, <3>1, <3>2, <3>4
  <2>4. CASE u \in Resident' /\ u # s
    BY <1>1, <1>5, <2>4
  <2> QED
    BY <2>2, <2>3, <2>4
<1>11. forgotten \in SUBSET (known \ {s})
  BY <1>3
<1> HIDE DEF forgotten
<1>12. [u \in Sessions |-> TurnsOf(u)]' =
        [u \in Sessions |-> IF u \in forgotten THEN << >>
                           ELSE IF u = s THEN Memory!Newest(Append([v \in Sessions |-> TurnsOf(v)][s], t))
                           ELSE [v \in Sessions |-> TurnsOf(v)][u]]
  BY <1>1, <1>10
<1>13. Memory!Answer(s, t)
  BY <1>4, <1>9, <1>11, <1>12, SameCardinality DEF Memory!Answer
<1> QED
  BY <1>13 DEF s

\* Each step of the routes and their clients is a step of the bounded memory, or none.
LEMMA StepImplements ==
  ASSUME MaxTurns > 0
  PROVE  CInv /\ [Next]_vars => [Memory!Next]_([s \in Sessions |-> TurnsOf(s)])
<1> SUFFICES ASSUME CInv, [Next]_vars PROVE [Memory!Next]_([s \in Sessions |-> TurnsOf(s)])
  OBVIOUS
<1> USE DEF CInv, RInv, MInv
<1>1. CASE UNCHANGED msgs
  BY <1>1 DEF TurnsOf
<1>2. ASSUME NEW t \in Turns, ChatAnswered(t) \/ StreamAnswered(t)
      PROVE  [Memory!Next]_([s \in Sessions |-> TurnsOf(s)])
  <2>1. session[t] \in Sessions /\ Record(t)
    BY <1>2 DEF ChatAnswered, StreamAnswered, Move, Accepted
  <2>2. Memory!Answer(session[t], t)
    BY <2>1, RecordAnswers
  <2> QED
    BY <2>1, <2>2 DEF Memory!Next
<1>3. CASE Restart
  <2>1. msgs' = [s \in Sessions |-> << >>]
    BY <1>3 DEF Restart, Forget
  <2>2. \A s \in Sessions : TurnsOf(s)' = << >>
    BY <2>1, EmptySeq DEF TurnsOf
  <2> QED
    BY <2>2 DEF Memory!Next, Memory!Restart
<1>4. ASSUME NEW t \in Turns,
             ChatFailed(t) \/ Token(t) \/ StreamFailed(t) \/ Done(t) \/ Disconnect(t) \/ TurnedAway(t)
      PROVE  UNCHANGED msgs
  BY <1>4 DEF ChatFailed, Token, StreamFailed, Done, Disconnect, TurnedAway, storeVars
<1>5. ASSUME NEW t \in Turns, NEW s, Chat(t, s) \/ Stream(t, s) PROVE UNCHANGED msgs
  BY <1>5 DEF Chat, Stream, Ask, storeVars
<1>6. CASE \E t \in Turns : Call(t) \/ Handle(t) \/ NoticesLoss(t)
  BY <1>1, <1>2, <1>4, <1>5, <1>6 DEF Call, Handle, NoticesLoss
<1>7. CASE \E c \in Clients, t \in Turns : SubmitAccepted(c, t) \/ SubmitRefused(c, t)
  BY <1>1, <1>4, <1>5, <1>7 DEF SubmitAccepted, SubmitRefused
<1>8. CASE \E c \in Clients : ReadToTheEnd(c) \/ LoseStream(c) \/ NewConversation(c)
  BY <1>1, <1>8 DEF ReadToTheEnd, LoseStream, NewConversation, routeVars, storeVars
<1>9. CASE UNCHANGED vars
  BY <1>1, <1>9 DEF vars, routeVars, storeVars
<1> QED
  BY <1>3, <1>6, <1>7, <1>8, <1>9 DEF Next

\* For any sessions, clients and interleavings of requests, and a bound that is not
\* zero: the store implements the memory that BoundedMemory describes.
THEOREM StoreImplementsMemory == ASSUME MaxTurns > 0 PROVE Spec => ImplementsMemory
<1>1. Init => Memory!Init
  <2> SUFFICES ASSUME Init PROVE \A s \in Sessions : TurnsOf(s) = << >>
    BY DEF Memory!Init
  <2>1. msgs = [s \in Sessions |-> << >>]
    BY DEF Init, RouteInit, StoreInit
  <2> QED
    BY <2>1, EmptySeq DEF TurnsOf
<1>2. CInv /\ [Next]_vars => [Memory!Next]_([s \in Sessions |-> TurnsOf(s)])
  BY StepImplements
<1> QED
  BY <1>1, <1>2, Clienteles, PTL DEF Spec, ImplementsMemory, Memory!Spec

(***************************************************************************)
(* What a client shows and what its session holds.                         *)
(*                                                                         *)
(* What the memory still holds of the answers that a client shows are the  *)
(* last of them, restarts and evictions included.  The invariant           *)
(* TalkInv says that a session has turns of one client only (OwnersInv),   *)
(* that each turn is kept once and where it belongs (KeptInv), what the    *)
(* turn in flight is about to add (AsksInv), and how the two sequences     *)
(* stand to each other (ShowsInv).                                         *)
(***************************************************************************)

(***************************************************************************)
(* Those of a sequence that are in a set.                                  *)
(***************************************************************************)
With(those, x, S) == IF x \in S THEN Append(those, x) ELSE those

\* xs has n elements, all of D.
Lists(xs, n, D) == n \in Nat /\ DOMAIN xs = 1 .. n /\ \A i \in 1 .. n : xs[i] \in D

\* acc[k] are those of the first k elements of xs.
Gathers(acc, n, xs, S, V) ==
  /\ acc \in [0 .. n -> V]
  /\ acc[0] = << >>
  /\ \A k \in 1 .. n : acc[k] = With(acc[k - 1], xs[k], S)

LEMMA ThoseGathered ==
  ASSUME NEW D, NEW n, NEW xs, Lists(xs, n, D), NEW S
  PROVE  \E acc : Gathers(acc, n, xs, S, Seq(D)) /\ Those(xs, S) = acc[n]
<1>0. n \in Nat /\ DOMAIN xs = 1 .. n /\ \A i \in 1 .. n : xs[i] \in D
  BY DEF Lists
<1>. DEFINE V == Seq(D)
            step == [kv \in (1 .. n) \X V |-> With(kv[2], xs[kv[1]], S)]
            Folds(g) == g = [t \in SUBSET (1 .. n) |->
                               IF t = {} THEN << >> ELSE With(g[t \ {Max(t)}], xs[Max(t)], S)]
            iter == CHOOSE g : Folds(g)
<1>1. Those(xs, S) = iter[1 .. n]
  BY <1>0 DEF Those, FoldLeft, MapThenFoldSet, With
<1>2. \A k \in 1 .. n, v \in V : step[<<k, v>>] = With(v, xs[k], S)
  OBVIOUS
<1>3. StaysWithin(step, n, V)
  <2>1. ASSUME NEW k \in 1 .. n, NEW v \in V PROVE With(v, xs[k], S) \in V
    BY <1>0 DEF With
  <2>. HIDE DEF step
  <2>. QED
    BY <1>2, <2>1 DEF StaysWithin
<1>. HIDE DEF step
<1>4. << >> \in V
  OBVIOUS
<1>5. PICK g : IsFold(g, 1 .. n, V, << >>, Largest(n), step)
  <2>. HIDE DEF V
  <2>. QED
    BY <1>0, <1>3, <1>4, SequenceFoldExists
<1>6. Folds(g)
  <2>1. ASSUME NEW t \in SUBSET (1 .. n), t # {}
        PROVE  step[<<Max(t), g[t \ {Max(t)}]>>] = With(g[t \ {Max(t)}], xs[Max(t)], S)
    <3>1. Max(t) \in 1 .. n
      BY <1>0, <2>1, Maximum
    <3>2. g[t \ {Max(t)}] \in V
      BY <1>5 DEF IsFold
    <3>. HIDE DEF V
    <3>. QED
      BY <1>2, <3>1, <3>2
  <2>. HIDE DEF V
  <2>. QED
    BY <1>5, <2>1 DEF IsFold, Largest
<1>7. Folds(iter)
  BY <1>6
<1>. HIDE DEF iter
<1>8. /\ iter = [t \in SUBSET (1 .. n) |-> iter[t]]
      /\ iter[{}] = << >>
      /\ \A t \in SUBSET (1 .. n) : t # {} => iter[t] = With(iter[t \ {Max(t)}], xs[Max(t)], S)
  BY <1>7
<1>. HIDE DEF V
<1>9. ASSUME NEW t \in SUBSET (1 .. n), t # {}, iter[t \ {Max(t)}] \in V
      PROVE  iter[t] = step[<<Max(t), iter[t \ {Max(t)}]>>]
  <2>1. Max(t) \in 1 .. n
    BY <1>0, <1>9, Maximum
  <2>. QED
    BY <1>2, <1>8, <1>9, <2>1
<1>10. FoldsWithin(iter, n, V, << >>, step)
  BY <1>8, <1>9 DEF FoldsWithin
<1>11. PICK acc : Accumulates(acc, n, V, << >>, step) /\ acc[n] = iter[1 .. n]
  <2>. DEFINE base == << >>
  <2>1. base \in V /\ FoldsWithin(iter, n, V, base, step)
    BY <1>4, <1>10
  <2>. HIDE DEF base
  <2>2. \E acc : Accumulates(acc, n, V, base, step) /\ acc[n] = iter[1 .. n]
    BY <1>0, <1>3, <2>1, SequenceFoldIs
  <2>. QED
    BY <2>2 DEF base
<1>12. ASSUME NEW k \in 1 .. n PROVE acc[k] = With(acc[k - 1], xs[k], S)
  <2>1. k - 1 \in 0 .. n
    BY <1>0
  <2>2. acc[k - 1] \in V /\ acc[k] = step[<<k, acc[k - 1]>>]
    BY <1>11, <2>1 DEF Accumulates
  <2>. QED
    BY <1>2, <2>2
<1>. QED
  BY <1>1, <1>11, <1>12 DEF Accumulates, Gathers, V

\* There is one way to gather them.
LEMMA GatheredOnce ==
  ASSUME NEW n \in Nat, NEW xs, NEW S, NEW V, NEW W,
         NEW a, Gathers(a, n, xs, S, V), NEW b, Gathers(b, n, xs, S, W)
  PROVE  a[n] = b[n]
<1>. DEFINE T == {k \in Nat : a[k] = b[k]}
<1>1. 0 \in T
  BY DEF Gathers
<1>2. ASSUME NEW k \in 1 .. n, k - 1 \in T PROVE k \in T
  BY <1>2 DEF Gathers
<1>. HIDE DEF T
<1>3. n \in T
  BY <1>1, <1>2, BoundedInduction
<1>. QED
  BY <1>3 DEF T

LEMMA ThoseAre ==
  ASSUME NEW D, NEW n, NEW xs, Lists(xs, n, D), NEW S,
         NEW acc, NEW V, Gathers(acc, n, xs, S, V)
  PROVE  Those(xs, S) = acc[n]
<1>1. PICK a : Gathers(a, n, xs, S, Seq(D)) /\ Those(xs, S) = a[n]
  BY ThoseGathered
<1>. QED
  BY <1>1, GatheredOnce DEF Lists

LEMMA SequenceLists ==
  ASSUME NEW D, NEW xs \in Seq(D)
  PROVE  Lists(xs, Len(xs), D)
  BY SeqFacts DEF Lists

\* One element more.
LEMMA ThoseAppended ==
  ASSUME NEW D, NEW xs \in Seq(D), NEW x \in D, NEW S
  PROVE  Those(Append(xs, x), S) = With(Those(xs, S), x, S)
<1>. DEFINE n == Len(xs)
            more == Append(xs, x)
<1>1. Lists(xs, n, D) /\ n \in Nat
  BY SequenceLists, SeqFacts
<1>2. more \in Seq(D) /\ Len(more) = n + 1 /\ more[n + 1] = x /\ \A i \in 1 .. n : more[i] = xs[i]
  BY AppendFacts
<1>3. Lists(more, n + 1, D)
  <2>. HIDE DEF more, n
  <2>. QED
    BY <1>2, SequenceLists
<1>. HIDE DEF more, n
<1>4. PICK a : Gathers(a, n + 1, more, S, Seq(D)) /\ Those(more, S) = a[n + 1]
  BY <1>3, ThoseGathered
<1>. DEFINE b == [k \in 0 .. n |-> a[k]]
<1>5. Gathers(b, n, xs, S, Seq(D))
  <2>1. \A k \in 1 .. n : k - 1 \in 0 .. n /\ k \in 0 .. n /\ k \in 1 .. n + 1
    BY <1>1
  <2>2. \A k \in 0 .. n : k \in 0 .. n + 1
    BY <1>1
  <2>3. b \in [0 .. n -> Seq(D)]
    BY <1>4, <2>2 DEF Gathers
  <2>4. 0 \in 0 .. n
    BY <1>1
  <2>5. b[0] = << >>
    BY <1>4, <2>4 DEF Gathers
  <2>6. \A k \in 1 .. n : b[k] = With(b[k - 1], xs[k], S)
    BY <1>2, <1>4, <2>1 DEF Gathers
  <2>. QED
    BY <2>3, <2>5, <2>6 DEF Gathers
<1>6. Those(xs, S) = b[n]
  <2>. HIDE DEF b
  <2>. QED
    BY <1>1, <1>5, ThoseAre
<1>7. n \in 0 .. n /\ n + 1 \in 1 .. n + 1 /\ (n + 1) - 1 = n
  BY <1>1
<1>8. a[n + 1] = With(a[n], x, S)
  BY <1>2, <1>4, <1>7 DEF Gathers
<1>. QED
  BY <1>4, <1>6, <1>7, <1>8 DEF more

LEMMA ThoseSeq ==
  ASSUME NEW D, NEW xs \in Seq(D), NEW S
  PROVE  Those(xs, S) \in Seq(D)
<1>. DEFINE n == Len(xs)
<1>1. Lists(xs, n, D) /\ n \in Nat
  BY SequenceLists, SeqFacts
<1>. HIDE DEF n
<1>2. PICK a : Gathers(a, n, xs, S, Seq(D)) /\ Those(xs, S) = a[n]
  BY <1>1, ThoseGathered
<1>. QED
  BY <1>1, <1>2 DEF Gathers

LEMMA ThoseOfNone ==
  ASSUME NEW D, NEW xs \in Seq(D), NEW S, \A i \in 1 .. Len(xs) : xs[i] \notin S
  PROVE  Those(xs, S) = << >>
<1>. DEFINE n == Len(xs)
            none == [k \in 0 .. n |-> << >>]
<1>1. Lists(xs, n, D) /\ n \in Nat /\ \A i \in 1 .. n : xs[i] \notin S
  BY SequenceLists, SeqFacts
<1>. HIDE DEF n
<1>2. \A k \in 1 .. n : k - 1 \in 0 .. n /\ k \in 0 .. n
  BY <1>1
<1>3. 0 \in 0 .. n /\ n \in 0 .. n
  BY <1>1
<1>4. Gathers(none, n, xs, S, Seq(D))
  BY <1>1, <1>2, <1>3 DEF Gathers, With
<1>5. Those(xs, S) = none[n]
  <2>. HIDE DEF none
  <2>. QED
    BY <1>1, <1>4, ThoseAre
<1>. QED
  BY <1>3, <1>5

\* S with one element more, which xs has after all of S.
LEMMA ThoseAndLast ==
  ASSUME NEW D, NEW xs \in Seq(D), OnceEach(xs), NEW S, NEW p \in 1 .. Len(xs),
         \A i \in 1 .. Len(xs) : xs[i] \in S => i < p
  PROVE  Those(xs, S \cup {xs[p]}) = Append(Those(xs, S), xs[p])
<1>. DEFINE n == Len(xs)
            t == xs[p]
            T == S \cup {t}
<1>1. /\ Lists(xs, n, D) /\ n \in Nat /\ p \in 1 .. n /\ t \in D
      /\ \A i \in 1 .. n : xs[i] \in S => i < p
      /\ \A i \in 1 .. n : xs[i] = t => i = p
  BY SequenceLists, SeqFacts DEF OnceEach
<1>2. \A i \in 1 .. n : /\ i < p => (xs[i] \in T <=> xs[i] \in S)
                        /\ i > p => xs[i] \notin T /\ xs[i] \notin S
                        /\ i = p => xs[i] = t /\ xs[i] \in T /\ xs[i] \notin S
  BY <1>1
<1>. HIDE DEF n, t, T
<1>3. PICK a : Gathers(a, n, xs, S, Seq(D)) /\ Those(xs, S) = a[n]
  BY <1>1, ThoseGathered
<1>. DEFINE b == [k \in 0 .. n |-> IF k < p THEN a[k] ELSE Append(a[k], t)]
<1>4. Gathers(b, n, xs, T, Seq(D))
  <2>1. b \in [0 .. n -> Seq(D)]
    BY <1>1, <1>3 DEF Gathers
  <2>2. b[0] = << >>
    BY <1>1, <1>3 DEF Gathers
  <2>3. ASSUME NEW k \in 1 .. n PROVE b[k] = With(b[k - 1], xs[k], T)
    <3>1. k \in 0 .. n /\ k - 1 \in 0 .. n
      BY <1>1
    <3>2. a[k] = With(a[k - 1], xs[k], S)
      BY <1>3 DEF Gathers
    <3>3. /\ b[k] = IF k < p THEN a[k] ELSE Append(a[k], t)
          /\ b[k - 1] = IF k - 1 < p THEN a[k - 1] ELSE Append(a[k - 1], t)
      BY <3>1
    <3>. HIDE DEF b
    <3>4. CASE k < p
      <4>1. b[k] = a[k] /\ b[k - 1] = a[k - 1]
        BY <1>1, <3>3, <3>4
      <4>2. xs[k] \in T <=> xs[k] \in S
        BY <1>2, <3>4
      <4>. QED
        BY <3>2, <4>1, <4>2 DEF With
    <3>5. CASE k = p
      <4>1. b[k] = Append(a[k], t) /\ b[k - 1] = a[k - 1]
        BY <1>1, <3>3, <3>5
      <4>2. xs[k] = t /\ xs[k] \in T /\ xs[k] \notin S
        BY <1>2, <3>5
      <4>. QED
        BY <3>2, <4>1, <4>2 DEF With
    <3>6. CASE k > p
      <4>1. b[k] = Append(a[k], t) /\ b[k - 1] = Append(a[k - 1], t)
        BY <1>1, <3>3, <3>6
      <4>2. xs[k] \notin T /\ xs[k] \notin S
        BY <1>2, <3>6
      <4>. QED
        BY <3>2, <4>1, <4>2 DEF With
    <3>. QED
      BY <1>1, <3>4, <3>5, <3>6
  <2>. QED
    BY <2>1, <2>2, <2>3 DEF Gathers
<1>5. Those(xs, T) = b[n]
  <2>. HIDE DEF b
  <2>. QED
    BY <1>1, <1>4, ThoseAre
<1>6. b[n] = Append(a[n], t)
  BY <1>1
<1>. QED
  BY <1>3, <1>5, <1>6 DEF t, T

\* Each of them is there.
LEMMA ThoseHave ==
  ASSUME NEW D, NEW xs \in Seq(D), NEW S, NEW x \in S, Has(xs, x)
  PROVE  Has(Those(xs, S), x)
<1>. DEFINE n == Len(xs)
<1>1. Lists(xs, n, D) /\ n \in Nat /\ DOMAIN xs = 1 .. n
  BY SequenceLists, SeqFacts
<1>. HIDE DEF n
<1>2. PICK p \in 1 .. n : xs[p] = x
  BY <1>1 DEF Has
<1>3. PICK a : Gathers(a, n, xs, S, Seq(D)) /\ Those(xs, S) = a[n]
  BY <1>1, ThoseGathered
<1>. DEFINE T == {k \in 0 .. n : k >= p => Has(a[k], x)}
<1>4. 0 \in T
  BY <1>1
<1>5. ASSUME NEW k \in 1 .. n, k - 1 \in T PROVE k \in T
  <2>1. /\ a[k] = With(a[k - 1], xs[k], S) /\ a[k - 1] \in Seq(D) /\ xs[k] \in D
        /\ k \in 0 .. n /\ k - 1 \in 0 .. n
    BY <1>1, <1>3 DEF Gathers, Lists
  <2>2. \A y \in D : Has(Append(a[k - 1], y), y) /\ (Has(a[k - 1], x) => Has(Append(a[k - 1], y), x))
    <3>. DEFINE those == a[k - 1]
    <3>1. those \in Seq(D)
      BY <2>1
    <3>. HIDE DEF those
    <3>2. ASSUME NEW y \in D
          PROVE  Has(Append(those, y), y) /\ (Has(those, x) => Has(Append(those, y), x))
      <4>1. /\ DOMAIN those = 1 .. Len(those) /\ Len(those) \in Nat
            /\ DOMAIN Append(those, y) = 1 .. Len(those) + 1
            /\ \A i \in 1 .. Len(those) : Append(those, y)[i] = those[i]
            /\ Append(those, y)[Len(those) + 1] = y
        BY <3>1, AppendFacts, SeqFacts
      <4>2. /\ \A i \in 1 .. Len(those) : i \in 1 .. Len(those) + 1
            /\ Len(those) + 1 \in 1 .. Len(those) + 1
        BY <4>1
      <4>. QED
        BY <4>1, <4>2 DEF Has
    <3>. QED
      BY <3>2 DEF those
  <2>3. CASE k = p
    BY <1>2, <2>1, <2>2, <2>3 DEF With
  <2>4. CASE k > p
    <3>1. Has(a[k - 1], x)
      BY <1>1, <1>5, <2>4
    <3>. QED
      BY <2>1, <2>2, <3>1 DEF With
  <2>5. CASE k < p
    BY <1>1, <2>1, <2>5
  <2>. QED
    BY <1>1, <2>3, <2>4, <2>5
<1>. HIDE DEF T
<1>6. n \in T
  BY <1>1, <1>4, <1>5, BoundedInduction
<1>. QED
  BY <1>1, <1>3, <1>6 DEF T

(***************************************************************************)
(* Ends of a sequence.                                                     *)
(***************************************************************************)
EndsIn(b, a) == Len(a) <= Len(b) /\ \A i \in 1 .. Len(a) : a[i] = b[Len(b) - Len(a) + i]

LEMMA SuffixFacts ==
  ASSUME NEW D, NEW a \in Seq(D), NEW b \in Seq(D)
  PROVE  IsSuffix(a, b) <=> EndsIn(b, a)
<1>. DEFINE m == Len(a)
            n == Len(b)
            ra == Reverse(a)
            rb == Reverse(b)
<1>1. /\ m \in Nat /\ \A i \in 1 .. m : a[i] \in D
      /\ n \in Nat /\ \A i \in 1 .. n : b[i] \in D
  BY SeqFacts
<1>2. ra = [i \in 1 .. m |-> a[m - i + 1]] /\ rb = [i \in 1 .. n |-> b[n - i + 1]]
  BY DEF Reverse
<1>3. IsSuffix(a, b) <=> Len(ra) <= Len(rb) /\ SubSeq(ra, 1, Len(ra)) = SubSeq(rb, 1, Len(ra))
  BY DEF IsSuffix, IsPrefix
<1>4. EndsIn(b, a) <=> m <= n /\ \A i \in 1 .. m : a[i] = b[n - m + i]
  BY DEF EndsIn
<1>. HIDE DEF m, n, ra, rb
<1>5. /\ \A i \in 1 .. m : m - i + 1 \in 1 .. m
      /\ \A i \in 1 .. n : n - i + 1 \in 1 .. n
  BY <1>1
<1>6. ra \in Seq(D) /\ Len(ra) = m /\ rb \in Seq(D) /\ Len(rb) = n
  BY <1>1, <1>2, <1>5
<1>7. ASSUME m <= n
      PROVE  SubSeq(ra, 1, m) = SubSeq(rb, 1, m) <=> \A i \in 1 .. m : a[i] = b[n - m + i]
  <2>1. /\ SubSeq(ra, 1, m) \in Seq(D) /\ Len(SubSeq(ra, 1, m)) = m
        /\ \A i \in 1 .. m : SubSeq(ra, 1, m)[i] = ra[i]
    <3>1. /\ 1 \in Nat \ {0} /\ m <= Len(ra) /\ 1 <= m + 1 /\ m - 1 + 1 = m
          /\ \A i \in 1 .. m : 1 + i - 1 = i
      BY <1>1, <1>6
    <3>. QED
      BY <1>1, <1>6, <3>1, SliceFacts
  <2>2. /\ SubSeq(rb, 1, m) \in Seq(D) /\ Len(SubSeq(rb, 1, m)) = m
        /\ \A i \in 1 .. m : SubSeq(rb, 1, m)[i] = rb[i]
    <3>1. /\ 1 \in Nat \ {0} /\ m <= Len(rb) /\ 1 <= m + 1 /\ m - 1 + 1 = m
          /\ \A i \in 1 .. m : 1 + i - 1 = i
      BY <1>1, <1>6, <1>7
    <3>. QED
      BY <1>1, <1>6, <3>1, SliceFacts
  <2>3. SubSeq(ra, 1, m) = SubSeq(rb, 1, m) <=> \A i \in 1 .. m : ra[i] = rb[i]
    BY <2>1, <2>2, SeqEqual
  <2>4. \A i \in 1 .. m : i \in 1 .. n /\ ra[i] = a[m - i + 1] /\ rb[i] = b[n - i + 1]
    BY <1>1, <1>2, <1>7
  <2>5. ASSUME \A i \in 1 .. m : a[m - i + 1] = b[n - i + 1], NEW i \in 1 .. m
        PROVE  a[i] = b[n - m + i]
    <3>. DEFINE j == m - i + 1
    <3>1. j \in 1 .. m /\ m - j + 1 = i /\ n - j + 1 = n - m + i
      BY <1>1
    <3>. HIDE DEF j
    <3>2. a[m - j + 1] = b[n - j + 1]
      BY <2>5, <3>1
    <3>. QED
      BY <3>1, <3>2
  <2>6. ASSUME \A i \in 1 .. m : a[i] = b[n - m + i], NEW i \in 1 .. m
        PROVE  a[m - i + 1] = b[n - i + 1]
    <3>. DEFINE j == m - i + 1
    <3>1. j \in 1 .. m /\ n - m + j = n - i + 1
      BY <1>1
    <3>. QED
      BY <2>6, <3>1
  <2>. QED
    BY <2>3, <2>4, <2>5, <2>6
<1>. QED
  BY <1>3, <1>4, <1>6, <1>7

LEMMA EndsInNone == ASSUME NEW D, NEW b \in Seq(D) PROVE EndsIn(b, << >>)
  BY SeqFacts DEF EndsIn

LEMMA EndsInAppended ==
  ASSUME NEW D, NEW a \in Seq(D), NEW b \in Seq(D), EndsIn(b, a), NEW x \in D
  PROVE  EndsIn(Append(b, x), Append(a, x))
<1>. DEFINE m == Len(a)
            n == Len(b)
            e == Append(a, x)
            f == Append(b, x)
<1>1. /\ m \in Nat /\ n \in Nat
      /\ Len(e) = m + 1 /\ e[m + 1] = x /\ \A i \in 1 .. m : e[i] = a[i]
      /\ Len(f) = n + 1 /\ f[n + 1] = x /\ \A i \in 1 .. n : f[i] = b[i]
  BY AppendFacts, SeqFacts
<1>2. m <= n /\ \A i \in 1 .. m : a[i] = b[n - m + i]
  BY DEF EndsIn
<1>. HIDE DEF m, n, e, f
<1>3. ASSUME NEW i \in 1 .. m + 1 PROVE e[i] = f[(n + 1) - (m + 1) + i]
  <2>1. (n + 1) - (m + 1) + i = n - m + i
    BY <1>1
  <2>2. CASE i = m + 1
    <3>1. n - m + i = n + 1
      BY <1>1, <2>2
    <3>. QED
      BY <1>1, <2>1, <2>2, <3>1
  <2>3. CASE i \in 1 .. m
    <3>1. n - m + i \in 1 .. n
      BY <1>1, <1>2, <2>3
    <3>. QED
      BY <1>1, <1>2, <2>1, <2>3, <3>1
  <2>. QED
    BY <1>1, <2>2, <2>3
<1>4. m + 1 <= n + 1
  BY <1>1, <1>2
<1>. QED
  BY <1>1, <1>3, <1>4 DEF EndsIn, e, f

\* An end that has all the elements, each of which is there once, is the whole.
LEMMA EndWithAll ==
  ASSUME NEW D, NEW a \in Seq(D), NEW b \in Seq(D), EndsIn(b, a), OnceEach(b),
         \A i \in 1 .. Len(b) : Has(a, b[i])
  PROVE  a = b
<1>1. /\ Len(a) \in Nat /\ DOMAIN a = 1 .. Len(a)
      /\ Len(b) \in Nat /\ DOMAIN b = 1 .. Len(b)
  BY SeqFacts
<1>2. Len(a) <= Len(b) /\ \A i \in 1 .. Len(a) : a[i] = b[Len(b) - Len(a) + i]
  BY DEF EndsIn
<1>3. Len(a) = Len(b)
  <2>1. ASSUME Len(a) < Len(b) PROVE FALSE
    <3>1. 1 \in 1 .. Len(b)
      BY <1>1, <2>1
    <3>2. PICK i \in 1 .. Len(a) : a[i] = b[1]
      BY <1>1, <3>1 DEF Has
    <3>3. Len(b) - Len(a) + i \in 1 .. Len(b) /\ Len(b) - Len(a) + i # 1
      BY <1>1, <2>1
    <3>4. b[Len(b) - Len(a) + i] = b[1]
      BY <1>2, <3>2
    <3>. QED
      BY <1>1, <3>1, <3>3, <3>4 DEF OnceEach
  <2>2. \A m, n \in Nat : m <= n => m = n \/ m < n
    OBVIOUS
  <2>. QED
    BY <1>1, <1>2, <2>1, <2>2
<1>4. \A i \in 1 .. Len(a) : a[i] = b[i]
  <2>1. \A i \in 1 .. Len(a) : Len(b) - Len(a) + i = i
    BY <1>1, <1>3
  <2>. QED
    BY <1>2, <2>1
<1>. QED
  BY <1>3, <1>4, SeqEqual

(***************************************************************************)
(* What is shown.                                                          *)
(***************************************************************************)
Said(list, role) ==
  LET shown == Those(list, [role : {role}, turn : Turns]) IN [i \in DOMAIN shown |-> shown[i].turn]

LEMMA ShownIsSaid == \A c, role : ShownBy(c, role) = Said(messages[c], role)
  BY DEF ShownBy, Said

LEMMA SaidFacts ==
  ASSUME NEW list \in Seq(Message), NEW role \in Roles
  PROVE  /\ Said(list, role) \in Seq(Turns)
         /\ \A r \in Roles, t \in Turns :
              Said(Append(list, [role |-> r, turn |-> t]), role) =
                IF r = role THEN Append(Said(list, role), t) ELSE Said(list, role)
<1>. DEFINE R == [role : {role}, turn : Turns]
            shown == Those(list, R)
<1>1. shown \in Seq(Message)
  BY ThoseSeq
<1>2. \A m \in Message : m.turn \in Turns
  BY DEF Message
<1>. HIDE DEF shown
<1>3. Len(shown) \in Nat /\ DOMAIN shown = 1 .. Len(shown) /\ \A i \in 1 .. Len(shown) : shown[i] \in Message
  BY <1>1, SeqFacts
<1>4. Said(list, role) = [i \in 1 .. Len(shown) |-> shown[i].turn]
  BY <1>3 DEF Said, shown
<1>5. Said(list, role) \in Seq(Turns)
  BY <1>2, <1>3, <1>4
<1>6. ASSUME NEW r \in Roles, NEW t \in Turns
      PROVE  Said(Append(list, [role |-> r, turn |-> t]), role) =
               IF r = role THEN Append(Said(list, role), t) ELSE Said(list, role)
  <2>. DEFINE m == [role |-> r, turn |-> t]
              more == Append(list, m)
  <2>1. m \in Message /\ (m \in R <=> r = role) /\ m.turn = t
    BY DEF Message
  <2>. HIDE DEF m, R
  <2>2. Those(more, R) = With(shown, m, R)
    BY <2>1, ThoseAppended DEF shown
  <2>3. Said(more, role) = [i \in DOMAIN Those(more, R) |-> Those(more, R)[i].turn]
    BY DEF Said, R
  <2>. HIDE DEF more
  <2>4. CASE r = role
    <3>1. Those(more, R) = Append(shown, m)
      BY <2>1, <2>2, <2>4 DEF With
    <3>2. /\ DOMAIN Append(shown, m) = 1 .. Len(shown) + 1
          /\ \A i \in 1 .. Len(shown) : Append(shown, m)[i] = shown[i]
          /\ Append(shown, m)[Len(shown) + 1] = m
      BY <1>1, <2>1, AppendFacts, SeqFacts
    <3>3. Said(more, role) = [i \in 1 .. Len(shown) + 1 |-> IF i = Len(shown) + 1 THEN t ELSE shown[i].turn]
      <4>1. \A i \in 1 .. Len(shown) + 1 : i \in 1 .. Len(shown) \/ i = Len(shown) + 1
        BY <1>3
      <4>2. Len(shown) + 1 \notin 1 .. Len(shown)
        BY <1>3
      <4>3. \A i \in 1 .. Len(shown) + 1 :
              Append(shown, m)[i].turn = IF i = Len(shown) + 1 THEN t ELSE shown[i].turn
        BY <2>1, <3>2, <4>1, <4>2
      <4>. QED
        BY <2>3, <3>1, <3>2, <4>3
    <3>4. Append(Said(list, role), t) = [i \in 1 .. Len(shown) + 1 |-> IF i = Len(shown) + 1 THEN t ELSE shown[i].turn]
      BY <1>3, <1>4, <1>5
    <3>. QED
      BY <2>4, <3>3, <3>4 DEF more, m
  <2>5. CASE r # role
    <3>1. Those(more, R) = shown
      BY <2>1, <2>2, <2>5 DEF With
    <3>. QED
      BY <1>3, <1>4, <2>3, <2>5, <3>1 DEF more, m
  <2>. QED
    BY <2>4, <2>5
<1>. QED
  BY <1>5, <1>6

LEMMA NothingSaid == ASSUME NEW role PROVE Said(<< >>, role) = << >>
<1>. DEFINE R == [role : {role}, turn : Turns]
            shown == Those(<< >>, R)
<1>1. shown = << >>
  <2>1. << >> \in Seq(Message) /\ \A i \in 1 .. Len(<< >>) : << >>[i] \notin R
    OBVIOUS
  <2>. HIDE DEF R
  <2>. QED
    BY <2>1, ThoseOfNone
<1>2. Said(<< >>, role) = [i \in DOMAIN shown |-> shown[i].turn]
  BY DEF Said
<1>. HIDE DEF shown
<1>. QED
  BY <1>1, <1>2

(***************************************************************************)
(* A conversation, at its client and in the memory.                        *)
(***************************************************************************)
\* A session belongs to one client, or to callers that are no client of the UI.
OwnersInv ==
  \A t \in Turns :
    /\ phase[t] = "new" => owner[t] = NoClient /\ session[t] = NoSession
    /\ \A u \in Turns : session[t] # NoSession /\ session[u] = session[t] => owner[u] = owner[t]

\* The turns kept for a session are its own, and each is there once.
KeptInv ==
  \A s \in Sessions :
    /\ OnceEach(kept[s])
    /\ \A t \in Turns : Has(kept[s], t) => session[t] = s

\* t comes after all of S, or nothing of S is there.
InOrder(turns, t, S) ==
  \/ \A i \in DOMAIN turns : turns[i] \notin S
  \/ \E p \in DOMAIN turns : turns[p] = t /\ \A i \in DOMAIN turns : turns[i] \in S => i < p

\* The turn whose stream a client reads: the client shows its question and not its
\* answer, it is of the session that the client knows, or the first of its own, and
\* its answer was added after those that the client shows.
Asks(c) ==
  LET t == asking[c] IN
  t # NoTurn =>
    /\ owner[t] = c
    /\ Has(Said(messages[c], "user"), t)
    /\ ~Has(Said(messages[c], "assistant"), t)
    /\ session[t] # NoSession =>
         IF session_id[c] = NoSession THEN \A u \in Turns : session[u] = session[t] => u = t
         ELSE session[t] = session_id[c]
    /\ phase[t] \in Answered => InOrder(kept[session[t]], t, Among(Said(messages[c], "assistant")))

\* What a client shows: every question of its session, and answers of it.
Shows(c) ==
  LET answers == Said(messages[c], "assistant") IN
  /\ OnceEach(answers)
  /\ session_id[c] = NoSession => answers = << >>
  /\ session_id[c] # NoSession =>
       /\ \E u \in Turns : owner[u] = c /\ session[u] = session_id[c]
       /\ \A u \in Turns : session[u] = session_id[c] => Has(Said(messages[c], "user"), u)
       /\ \A u \in Among(answers) : session[u] = session_id[c] /\ phase[u] = "answered"
       /\ EndsIn(answers, Those(kept[session_id[c]], Among(answers)))

AsksInv  == \A c \in Clients : Asks(c)
ShowsInv == \A c \in Clients : Shows(c)

\* Turn u gets a session that no other client has.
Named(u) ==
  /\ phase[u] = "new"
  /\ \A w \in Turns : session[w] = session'[u] => owner[w] = owner'[u]
  /\ owner'[u] \in Clients =>
       asking[owner'[u]] = NoTurn /\ Has(Said(messages'[owner'[u]], "user"), u)

\* What is shown of a client after one message more.
LEMMA ShowMore ==
  ASSUME TypeOK, NEW c \in Clients, NEW role \in Roles, NEW t \in Turns, Show(c, role, t)
  PROVE  /\ messages'[c] = Append(messages[c], [role |-> role, turn |-> t])
         /\ \A d \in Clients \ {c} : messages'[d] = messages[d]
         /\ \A r \in Roles : /\ Said(messages[c], r) \in Seq(Turns)
                              /\ Said(messages'[c], r) = IF r = role THEN Append(Said(messages[c], r), t)
                                                        ELSE Said(messages[c], r)
<1>1. messages \in [Clients -> Seq(Message)]
  BY DEF TypeOK
<1>2. messages'[c] = Append(messages[c], [role |-> role, turn |-> t])
  BY <1>1 DEF Show
<1>3. \A d \in Clients \ {c} : messages'[d] = messages[d]
  BY <1>1 DEF Show
<1>4. ASSUME NEW r \in Roles
      PROVE  /\ Said(messages[c], r) \in Seq(Turns)
             /\ Said(messages'[c], r) = IF role = r THEN Append(Said(messages[c], r), t)
                                       ELSE Said(messages[c], r)
  BY <1>1, <1>2, SaidFacts
<1>. QED
  BY <1>2, <1>3, <1>4

LEMMA HasAppended ==
  ASSUME NEW S, NEW xs \in Seq(S), NEW x \in S
  PROVE  /\ Has(Append(xs, x), x)
         /\ \A y : Has(xs, y) => Has(Append(xs, x), y)
         /\ \A y : Has(Append(xs, x), y) => Has(xs, y) \/ y = x
         /\ Among(Append(xs, x)) = Among(xs) \cup {x}
         /\ OnceEach(xs) /\ ~Has(xs, x) => OnceEach(Append(xs, x))
<1>. DEFINE n == Len(xs)
            more == Append(xs, x)
<1>1. /\ n \in Nat /\ DOMAIN xs = 1 .. n
      /\ DOMAIN more = 1 .. n + 1
      /\ \A i \in 1 .. n : more[i] = xs[i]
      /\ more[n + 1] = x
  BY AppendFacts, SeqFacts
<1>. HIDE DEF n, more
<1>2. /\ \A i \in 1 .. n : i \in 1 .. n + 1
      /\ n + 1 \in 1 .. n + 1 /\ n + 1 \notin 1 .. n
      /\ \A i \in 1 .. n + 1 : i \in 1 .. n \/ i = n + 1
  BY <1>1
<1>3. Among(more) = Among(xs) \cup {x}
  BY <1>1, <1>2 DEF Among
<1>4. ASSUME OnceEach(xs), ~Has(xs, x) PROVE OnceEach(more)
  BY <1>1, <1>2, <1>4 DEF OnceEach, Has
<1>. QED
  BY <1>3, <1>4 DEF Among, Has, more

\* What a step does to the phase, the session and the owner of a turn.
Moves(u) ==
  /\ phase'[u] = "new" => phase[u] = "new" /\ session'[u] = session[u] /\ owner'[u] = owner[u]
  /\ phase[u] = "answered" => phase'[u] = "answered"
  /\ session'[u] = session[u] \/ Named(u)
  /\ owner'[u] = owner[u] \/ phase[u] = "new"

\* The question that a client submits (submit, chat_stream).
LEMMA SubmitFacts ==
  ASSUME CInv, OwnersInv, ShowsInv, NEW c \in Clients, NEW t \in Turns,
         SubmitAccepted(c, t) \/ SubmitRefused(c, t)
  PROVE  /\ asking[c] = NoTurn /\ asking' = [asking EXCEPT ![c] = t]
         /\ owner' = [owner EXCEPT ![t] = c] /\ session_id' = session_id
         /\ Show(c, "user", t)
         /\ phase[t] = "new" /\ phase' = [phase EXCEPT ![t] = phase'[t]]
         /\ phase'[t] \in {"streaming", "failed"}
         /\ session' = [session EXCEPT ![t] = session'[t]]
         /\ \/ session'[t] = NoSession
            \/ session_id[c] # NoSession /\ session'[t] = session_id[c]
            \/ session_id[c] = NoSession /\ \A u \in Turns : session[u] # session'[t]
         /\ UNCHANGED <<storeVars, restarts, history>>
<1>1. TypeOK /\ phase \in [Turns -> Phases] /\ session \in [Turns -> Sessions \cup {NoSession}]
  BY DEF CInv, TypeOK, RouteTypeOK
<1>2. /\ asking[c] = NoTurn /\ asking' = [asking EXCEPT ![c] = t]
      /\ owner' = [owner EXCEPT ![t] = c] /\ session_id' = session_id
      /\ Show(c, "user", t)
  BY DEF SubmitAccepted, SubmitRefused, Submit
<1>3. CASE SubmitRefused(c, t)
  <2>1. TurnedAway(t)
    BY <1>3 DEF SubmitRefused
  <2>2. /\ phase[t] = "new" /\ phase' = [phase EXCEPT ![t] = "failed"] /\ session' = session
        /\ UNCHANGED <<storeVars, restarts, history>>
    BY <2>1 DEF TurnedAway, Move
  <2>3. phase'[t] = "failed"
    BY <1>1, <2>2
  <2>4. session'[t] = NoSession /\ session' = [session EXCEPT ![t] = session'[t]]
    BY <1>1, <2>2 DEF OwnersInv
  <2>. QED
    BY <1>2, <2>2, <2>3, <2>4
<1>4. CASE SubmitAccepted(c, t)
  <2>1. PICK s : /\ Stream(t, s)
                 /\ \/ session_id[c] # NoSession /\ s = session_id[c]
                    \/ session_id[c] = NoSession /\ Fresh(s)
    BY <1>4 DEF SubmitAccepted
  <2>2. /\ phase[t] = "new" /\ phase' = [phase EXCEPT ![t] = "streaming"]
        /\ session' = [session EXCEPT ![t] = s]
        /\ UNCHANGED <<storeVars, restarts, history>>
    BY <2>1 DEF Stream, Ask, Move
  <2>3. phase'[t] = "streaming" /\ session'[t] = s
    BY <1>1, <2>2
  <2>. QED
    BY <1>2, <2>1, <2>2, <2>3 DEF Fresh
<1>. QED
  BY <1>3, <1>4

LEMMA TurnsMove ==
  ASSUME CInv, OwnersInv, ShowsInv, [Next]_vars
  PROVE  /\ \A u \in Turns : Moves(u)
         /\ \A u, w \in Turns : session'[u] # session[u] /\ session'[w] # session[w] => u = w
<1>0. /\ TypeOK /\ phase \in [Turns -> Phases] /\ session \in [Turns -> Sessions \cup {NoSession}]
      /\ owner \in [Turns -> Clients \cup {NoClient}]
  BY DEF CInv, TypeOK, RouteTypeOK
<1>1. CASE UNCHANGED <<phase, session, owner>>
  BY <1>1 DEF Moves
<1>2. ASSUME NEW t \in Turns, UNCHANGED clientVars,
             ChatAnswered(t) \/ ChatFailed(t) \/ Token(t) \/ StreamFailed(t) \/ StreamAnswered(t)
               \/ Done(t) \/ Disconnect(t)
      PROVE  /\ \A u \in Turns : Moves(u)
             /\ session' = session
  <2>1. session' = session
    BY <1>2 DEF ChatAnswered, ChatFailed, Token, StreamFailed, StreamAnswered, Done, Disconnect, Record
  <2>2. owner' = owner
    BY <1>2 DEF clientVars
  <2>3. \/ phase' = phase
        \/ \E from \in {"asked", "streaming", "recorded"} :
             \E to \in {"answered", "failed", "recorded", "left", "unheard"} : Move(t, from, to)
    BY <1>2 DEF ChatAnswered, ChatFailed, Token, StreamFailed, StreamAnswered, Done, Disconnect
  <2>4. ASSUME NEW u \in Turns
        PROVE  /\ phase'[u] = "new" => phase[u] = "new"
               /\ phase[u] = "answered" => phase'[u] = "answered"
    BY <1>0, <2>3 DEF Move
  <2>. QED
    BY <2>1, <2>2, <2>4 DEF Moves
<1>3. CASE Restart /\ UNCHANGED clientVars
  <2>1. session' = session /\ owner' = owner
    BY <1>3 DEF Restart, clientVars
  <2>2. ASSUME NEW u \in Turns
        PROVE  /\ phase'[u] = "new" => phase[u] = "new"
               /\ phase[u] = "answered" => phase'[u] = "answered"
    BY <1>0, <1>3 DEF Restart
  <2>. QED
    BY <2>1, <2>2 DEF Moves
<1>4. ASSUME NEW t \in Turns, Call(t)
      PROVE  /\ \A u \in Turns : Moves(u)
             /\ \A u \in Turns \ {t} : session'[u] = session[u]
  <2>1. PICK s \in Sessions : (\A u \in Turns : session[u] = s => owner[u] = NoClient) /\ Chat(t, s)
    BY <1>4 DEF Call
  <2>2. /\ phase[t] = "new" /\ phase' = [phase EXCEPT ![t] = "asked"]
        /\ session' = [session EXCEPT ![t] = s] /\ owner' = owner
    BY <1>4, <2>1 DEF Call, Chat, Ask, Move, clientVars
  <2>3. owner[t] = NoClient /\ NoClient \notin Clients
    BY <2>2, ClientsAssumption DEF OwnersInv
  <2>4. Moves(t)
    BY <1>0, <2>1, <2>2, <2>3 DEF Moves, Named
  <2>5. \A u \in Turns \ {t} : Moves(u) /\ session'[u] = session[u]
    BY <1>0, <2>2 DEF Moves
  <2>. QED
    BY <2>4, <2>5
<1>5. ASSUME NEW c \in Clients, NEW t \in Turns, SubmitAccepted(c, t) \/ SubmitRefused(c, t)
      PROVE  /\ \A u \in Turns : Moves(u)
             /\ \A u \in Turns \ {t} : session'[u] = session[u]
  <2>1. /\ asking[c] = NoTurn /\ owner' = [owner EXCEPT ![t] = c]
        /\ Show(c, "user", t)
        /\ phase[t] = "new" /\ phase' = [phase EXCEPT ![t] = phase'[t]]
        /\ phase'[t] \in {"streaming", "failed"}
        /\ session' = [session EXCEPT ![t] = session'[t]]
        /\ \/ session'[t] = NoSession
           \/ session_id[c] # NoSession /\ session'[t] = session_id[c]
           \/ session_id[c] = NoSession /\ \A u \in Turns : session[u] # session'[t]
    BY <1>5, SubmitFacts
  <2>2. owner'[t] = c /\ session[t] = NoSession
    BY <1>0, <2>1 DEF OwnersInv
  <2>3. ASSUME session'[t] # session[t] PROVE Named(t)
    <3>1. \A w \in Turns : session[w] = session'[t] => owner[w] = c
      <4>1. CASE session_id[c] # NoSession /\ session'[t] = session_id[c]
        <5>1. PICK u \in Turns : owner[u] = c /\ session[u] = session_id[c]
          BY <4>1 DEF ShowsInv, Shows
        <5>. QED
          BY <4>1, <5>1 DEF OwnersInv
      <4>2. CASE \A u \in Turns : session[u] # session'[t]
        BY <4>2
      <4>. QED
        BY <2>1, <2>2, <2>3, <4>1, <4>2
    <3>2. Has(Said(messages'[c], "user"), t)
      <4>. DEFINE asked == Said(messages[c], "user")
      <4>1. asked \in Seq(Turns) /\ Said(messages'[c], "user") = Append(asked, t)
        BY <1>0, <2>1, ShowMore DEF Roles
      <4>. HIDE DEF asked
      <4>2. Has(Append(asked, t), t)
        BY <4>1, HasAppended
      <4>. QED
        BY <4>1, <4>2
    <3>. QED
      BY <2>1, <2>2, <3>1, <3>2 DEF Named
  <2>4. Moves(t)
    BY <2>1, <2>3 DEF Moves
  <2>5. \A u \in Turns \ {t} : phase'[u] = phase[u] /\ session'[u] = session[u] /\ owner'[u] = owner[u]
    BY <1>0, <2>1
  <2>6. \A u \in Turns \ {t} : Moves(u)
    BY <2>5 DEF Moves
  <2>. QED
    BY <2>4, <2>5, <2>6
<1>6. CASE \E c \in Clients : ReadToTheEnd(c) \/ LoseStream(c) \/ NewConversation(c)
  BY <1>1, <1>6 DEF ReadToTheEnd, LoseStream, NewConversation, routeVars
<1>7. CASE UNCHANGED vars
  BY <1>1, <1>7 DEF vars, routeVars, clientVars
<1>. QED
  BY <1>2, <1>3, <1>4, <1>5, <1>6, <1>7 DEF Next, Handle, NoticesLoss

LEMMA OwnersStep == CInv /\ OwnersInv /\ ShowsInv /\ [Next]_vars => OwnersInv'
<1>. SUFFICES ASSUME CInv, OwnersInv, ShowsInv, [Next]_vars PROVE OwnersInv'
  OBVIOUS
<1>1. /\ \A u \in Turns : Moves(u)
      /\ \A u, w \in Turns : session'[u] # session[u] /\ session'[w] # session[w] => u = w
  BY TurnsMove
<1>2. ASSUME NEW t \in Turns, phase'[t] = "new"
      PROVE  owner'[t] = NoClient /\ session'[t] = NoSession
  BY <1>1, <1>2 DEF Moves, OwnersInv
<1>3. ASSUME NEW t \in Turns, session[t] # NoSession
      PROVE  phase[t] # "new" /\ owner'[t] = owner[t] /\ session'[t] = session[t]
  BY <1>1, <1>3 DEF Moves, OwnersInv, Named
<1>4. ASSUME NEW t \in Turns, NEW u \in Turns, session'[t] # NoSession, session'[u] = session'[t]
      PROVE  owner'[u] = owner'[t]
  <2>1. CASE session[t] # NoSession /\ session[u] # NoSession
    BY <1>3, <1>4, <2>1 DEF OwnersInv
  <2>2. CASE session[t] = NoSession /\ session[u] = NoSession
    BY <1>1, <1>4, <2>2
  <2>3. CASE session[t] = NoSession /\ session[u] # NoSession
    BY <1>1, <1>3, <1>4, <2>3 DEF Moves, Named
  <2>4. CASE session[t] # NoSession /\ session[u] = NoSession
    BY <1>1, <1>3, <1>4, <2>4 DEF Moves, Named
  <2>. QED
    BY <2>1, <2>2, <2>3, <2>4
<1>. QED
  BY <1>2, <1>4 DEF OwnersInv

\* Turn t is added to the memory of its session s.
Adds(s, t) ==
  /\ session[t] = s /\ session'[t] = s
  /\ phase[t] \in {"asked", "streaming"}
  /\ kept'[s] = Append(kept[s], t)

\* A session's turns stay, or go, or have one added; and that is how a turn is answered.
LEMMA MemorySteps ==
  ASSUME CInv, [Next]_vars
  PROVE  /\ \A s \in Sessions : \/ kept'[s] = << >> \/ kept'[s] = kept[s]
                                \/ \E t \in Turns : Adds(s, t)
         /\ \A t \in Turns : phase'[t] \in Answered =>
              \/ phase[t] \in Answered /\ session'[t] = session[t]
              \/ session[t] \in Sessions /\ Adds(session[t], t)
<1>0. /\ RouteTypeOK /\ MInv /\ RInv /\ StoreTypeOK /\ Distinct
      /\ phase \in [Turns -> Phases] /\ kept \in [Sessions -> Seq(Turns)]
  BY DEF CInv, RInv, MInv, RouteTypeOK, KeptWhole
<1>1. CASE UNCHANGED <<storeVars, restarts, kept, byTurn>>
  <2>1. \A t \in Turns : phase'[t] \in Answered => phase[t] \in Answered /\ session'[t] = session[t]
    BY <1>1, QuietMoves
  <2>. QED
    BY <1>1, <2>1
<1>2. ASSUME NEW t \in Turns, Record(t), session[t] \in Sessions,
             phase[t] \in {"asked", "streaming"},
             phase' = [phase EXCEPT ![t] = phase'[t]], phase'[t] \in {"recorded", "answered"}
      PROVE  /\ \A s \in Sessions : \/ kept'[s] = << >> \/ kept'[s] = kept[s] \/ Adds(s, t)
             /\ Adds(session[t], t)
             /\ \A u \in Turns \ {t} : phase'[u] = phase[u] /\ session'[u] = session[u]
  <2>1. /\ kept' = [u \in Sessions |-> IF u \notin Resident' THEN << >>
                                       ELSE IF u = session[t] THEN Append(kept[u], t) ELSE kept[u]]
        /\ session' = session
    BY <1>0, <1>2, RecordFacts DEF Record
  <2>2. session[t] \in Resident'
    <3>1. order' = LastOf(Reordered(session[t]), MaxSessions)
      BY <1>2 DEF Record, AddTurn, Keep
    <3>. QED
      BY <1>0, <1>2, <3>1, EvictedFacts
  <2>3. Adds(session[t], t)
    BY <1>2, <2>1, <2>2 DEF Adds
  <2>. QED
    BY <1>0, <1>2, <2>1, <2>2, <2>3
<1>3. CASE Restart
  BY <1>0, <1>3 DEF Restart, Answered
<1>4. CASE \E t \in Turns : /\ Record(t) /\ session[t] \in Sessions
                            /\ phase[t] \in {"asked", "streaming"}
                            /\ phase' = [phase EXCEPT ![t] = phase'[t]]
                            /\ phase'[t] \in {"recorded", "answered"}
  <2>1. PICK t \in Turns : /\ Record(t) /\ session[t] \in Sessions
                          /\ phase[t] \in {"asked", "streaming"}
                          /\ phase' = [phase EXCEPT ![t] = phase'[t]]
                          /\ phase'[t] \in {"recorded", "answered"}
    BY <1>4
  <2>2. /\ \A s \in Sessions : \/ kept'[s] = << >> \/ kept'[s] = kept[s] \/ Adds(s, t)
        /\ Adds(session[t], t)
        /\ \A u \in Turns \ {t} : phase'[u] = phase[u] /\ session'[u] = session[u]
    BY <1>2, <2>1
  <2>. QED
    BY <2>1, <2>2
<1>. QED
  BY <1>1, <1>3, <1>4, KindsOfSteps

LEMMA KeptStep == CInv /\ AnsweredInv /\ OwnersInv /\ ShowsInv /\ KeptInv /\ [Next]_vars => KeptInv'
<1>. SUFFICES ASSUME CInv, AnsweredInv, OwnersInv, ShowsInv, KeptInv, [Next]_vars,
                     NEW s \in Sessions
              PROVE  /\ OnceEach(kept'[s])
                     /\ \A t \in Turns : Has(kept'[s], t) => session'[t] = s
  BY DEF KeptInv, OnceEach, Has
<1>1. kept[s] \in Seq(Turns) /\ NoSession \notin Sessions
  BY SessionAssumption DEF CInv, RInv, MInv, KeptWhole
<1>2. OnceEach(kept[s]) /\ \A t \in Turns : Has(kept[s], t) => session[t] = s /\ session'[t] = s
  <2>1. ASSUME NEW t \in Turns, Has(kept[s], t) PROVE session[t] = s /\ session'[t] = s
    <3>1. session[t] = s /\ phase[t] # "new"
      BY <1>1, <2>1 DEF KeptInv, OwnersInv
    <3>2. Moves(t)
      BY TurnsMove
    <3>. QED
      BY <3>1, <3>2 DEF Moves, Named
  <2>. QED
    BY <2>1 DEF KeptInv
<1>3. CASE kept'[s] = << >>
  BY <1>3, EmptySeq DEF OnceEach, Has
<1>4. CASE kept'[s] = kept[s]
  BY <1>2, <1>4
<1>5. ASSUME NEW t \in Turns, Adds(s, t)
      PROVE  /\ OnceEach(kept'[s])
             /\ \A u \in Turns : Has(kept'[s], u) => session'[u] = s
  <2>. DEFINE turns == kept[s]
  <2>1. /\ turns \in Seq(Turns) /\ OnceEach(turns) /\ ~Has(turns, t)
        /\ kept'[s] = Append(turns, t) /\ session'[t] = s
        /\ \A u \in Turns : Has(turns, u) => session'[u] = s
    BY <1>1, <1>2, <1>5 DEF Adds, AnsweredInv, Unanswered
  <2>. HIDE DEF turns
  <2>2. /\ OnceEach(Append(turns, t))
        /\ \A u : Has(Append(turns, t), u) => Has(turns, u) \/ u = t
    BY <2>1, HasAppended
  <2>. QED
    BY <2>1, <2>2
<1>. QED
  BY <1>3, <1>4, <1>5, MemorySteps

\* Of turns that are answered, those remembered stay or are forgotten; and a turn that
\* came after them, or is added now, comes after them.
LEMMA MemoryFollows ==
  ASSUME CInv, [Next]_vars, NEW s \in Sessions,
         NEW S, S \subseteq Turns, \A u \in S : phase[u] = "answered"
  PROVE  /\ Those(kept'[s], S) = << >> \/ Those(kept'[s], S) = Those(kept[s], S)
         /\ \A t \in Turns \ S : InOrder(kept[s], t, S) \/ Adds(s, t) => InOrder(kept'[s], t, S)
<1>. DEFINE turns == kept[s]
<1>1. turns \in Seq(Turns) /\ Len(turns) \in Nat /\ DOMAIN turns = 1 .. Len(turns)
  BY SeqFacts DEF CInv, RInv, MInv, KeptWhole
<1>2. CASE kept'[s] = << >>
  <2>1. << >> \in Seq(Turns) /\ \A i \in 1 .. Len(<< >>) : << >>[i] \notin S
    OBVIOUS
  <2>2. Those(<< >>, S) = << >>
    BY <2>1, ThoseOfNone
  <2>3. \A t : InOrder(<< >>, t, S)
    BY DEF InOrder
  <2>4. \A t : InOrder(kept'[s], t, S)
    BY <1>2, <2>3
  <2>. QED
    BY <1>2, <2>2, <2>4
<1>3. ASSUME NEW u \in Turns, Adds(s, u)
      PROVE  /\ Those(kept'[s], S) = Those(kept[s], S)
             /\ \A t \in Turns \ S : InOrder(kept[s], t, S) \/ t = u => InOrder(kept'[s], t, S)
  <2>1. u \notin S /\ kept'[s] = Append(turns, u)
    BY <1>3 DEF Adds
  <2>. HIDE DEF turns
  <2>2. Those(Append(turns, u), S) = Those(turns, S)
    BY <1>1, <2>1, ThoseAppended DEF With
  <2>. DEFINE more == Append(turns, u)
              n == Len(turns)
  <2>3. /\ DOMAIN more = 1 .. n + 1 /\ more[n + 1] = u
        /\ \A i \in 1 .. n : more[i] = turns[i]
    BY <1>1, AppendFacts, SeqFacts
  <2>4. n \in Nat /\ DOMAIN turns = 1 .. n
    BY <1>1
  <2>. HIDE DEF more, n
  <2>5. /\ \A i \in 1 .. n + 1 : i \in 1 .. n \/ i = n + 1
        /\ \A i \in 1 .. n : i \in 1 .. n + 1 /\ i < n + 1
        /\ n + 1 \in 1 .. n + 1
    BY <2>4
  <2>6. \A i \in 1 .. n + 1 : more[i] \in S => i \in 1 .. n /\ turns[i] \in S
    BY <2>1, <2>3, <2>5
  <2>7. ASSUME NEW t \in Turns \ S, InOrder(turns, t, S) PROVE InOrder(more, t, S)
    <3>1. CASE \A i \in 1 .. n : turns[i] \notin S
      BY <2>3, <2>6, <3>1 DEF InOrder
    <3>2. CASE \E p \in 1 .. n : turns[p] = t /\ \A i \in 1 .. n : turns[i] \in S => i < p
      <4>1. PICK p \in 1 .. n : turns[p] = t /\ \A i \in 1 .. n : turns[i] \in S => i < p
        BY <3>2
      <4>2. p \in 1 .. n + 1 /\ more[p] = t /\ \A i \in 1 .. n + 1 : more[i] \in S => i < p
        BY <2>3, <2>5, <2>6, <4>1
      <4>. QED
        BY <2>3, <4>2 DEF InOrder
    <3>. QED
      BY <2>4, <2>7, <3>1, <3>2 DEF InOrder
  <2>8. InOrder(more, u, S)
    <3>1. \A i \in 1 .. n + 1 : more[i] \in S => i < n + 1
      BY <2>5, <2>6
    <3>. QED
      BY <2>3, <2>5, <3>1 DEF InOrder
  <2>. QED
    BY <2>1, <2>2, <2>7, <2>8 DEF turns, more
<1>4. \/ kept'[s] = << >> \/ kept'[s] = kept[s] \/ \E u \in Turns : Adds(s, u)
  BY MemorySteps
<1>5. ASSUME kept'[s] = kept[s], NEW t \in Turns, Adds(s, t) PROVE InOrder(kept'[s], t, S)
  <2>1. turns = Append(turns, t)
    BY <1>5 DEF Adds
  <2>2. Len(Append(turns, t)) = Len(turns) + 1
    BY <1>1, AppendFacts
  <2>3. Len(turns) # Len(turns) + 1
    BY <1>1
  <2>. QED
    BY <2>1, <2>2, <2>3
<1>6. \A t, u \in Turns : Adds(s, t) /\ Adds(s, u) => t = u
  <2>1. ASSUME NEW t \in Turns, NEW u \in Turns, Adds(s, t), Adds(s, u) PROVE t = u
    <3>1. Append(turns, t) = Append(turns, u)
      BY <2>1 DEF Adds
    <3>2. Append(turns, t)[Len(turns) + 1] = t /\ Append(turns, u)[Len(turns) + 1] = u
      BY <1>1, AppendFacts
    <3>. QED
      BY <3>1, <3>2
  <2>. QED
    BY <2>1
<1>. QED
  BY <1>2, <1>3, <1>4, <1>5, <1>6

\* What a client shows of another conversation is untouched.
LEMMA AsideStep ==
  ASSUME CInv, AnsweredInv, OwnersInv, ShowsInv, AsksInv, [Next]_vars, NEW c \in Clients,
         messages'[c] = messages[c], session_id'[c] = session_id[c], asking'[c] = asking[c]
  PROVE  Asks(c)' /\ Shows(c)'
<1>. DEFINE asked == Said(messages[c], "user")
            answers == Said(messages[c], "assistant")
            S == Among(answers)
            t == asking[c]
            sid == session_id[c]
<1>1. /\ sid \in Sessions \cup {NoSession} /\ t \in Turns \cup {NoTurn}
      /\ NoSession \notin Sessions /\ NoClient \notin Clients /\ answers \in Seq(Turns)
      /\ messages[c] \in Seq(Message)
  BY SaidFacts, SessionAssumption, ClientsAssumption DEF CInv, TypeOK, Roles
<1>2. /\ \A u \in Turns : Moves(u)
      /\ \A u \in Turns : session[u] # NoSession => session'[u] = session[u] /\ phase[u] # "new"
      /\ \A u \in Turns : phase[u] # "new" => owner'[u] = owner[u]
      /\ \A u \in Turns : phase[u] = "new" => owner[u] = NoClient
  <2>1. \A u \in Turns : Moves(u)
    BY TurnsMove
  <2>. QED
    BY <2>1 DEF Moves, Named, OwnersInv
<1>3. S \subseteq Turns /\ \A u \in S : phase[u] = "answered"
  <2>1. S \subseteq Turns
    BY <1>1, SeqFacts DEF Among
  <2>2. CASE sid = NoSession
    <3>1. answers = << >>
      BY <2>2 DEF ShowsInv, Shows
    <3>. QED
      BY <2>1, <3>1, EmptySeq DEF Among
  <2>3. CASE sid # NoSession
    BY <2>1, <2>3 DEF ShowsInv, Shows
  <2>. QED
    BY <2>2, <2>3
<1>4. Asks(c)'
  <2>. SUFFICES ASSUME t # NoTurn
                PROVE  /\ owner'[t] = c
                       /\ Has(asked, t)
                       /\ ~Has(answers, t)
                       /\ session'[t] # NoSession =>
                            IF sid = NoSession THEN \A u \in Turns : session'[u] = session'[t] => u = t
                            ELSE session'[t] = sid
                       /\ phase'[t] \in Answered => InOrder(kept'[session'[t]], t, S)
    BY DEF Asks
  <2>1. /\ t \in Turns /\ owner[t] = c /\ Has(asked, t) /\ ~Has(answers, t)
        /\ session[t] # NoSession =>
             IF sid = NoSession THEN \A u \in Turns : session[u] = session[t] => u = t
             ELSE session[t] = sid
        /\ phase[t] \in Answered => InOrder(kept[session[t]], t, S)
    BY <1>1 DEF AsksInv, Asks
  <2>. HIDE DEF asked, answers, t, sid, S
  <2>2. phase[t] # "new" /\ owner'[t] = c /\ session'[t] = session[t]
    BY <1>1, <1>2, <2>1 DEF Moves, Named
  <2>3. ASSUME session[t] # NoSession, sid = NoSession, NEW u \in Turns, session'[u] = session[t]
        PROVE  u = t
    <3>1. CASE session'[u] = session[u]
      BY <2>1, <2>3, <3>1
    <3>2. CASE Named(u)
      <4>1. owner'[u] = c
        BY <2>1, <2>3, <3>2 DEF Named
      <4>2. asking[c] = NoTurn
        BY <3>2, <4>1 DEF Named
      <4>. QED
        BY <4>2 DEF t
    <3>. QED
      BY <1>2, <3>1, <3>2 DEF Moves
  <2>4. ASSUME phase'[t] \in Answered PROVE InOrder(kept'[session[t]], t, S)
    <3>1. /\ session[t] \in Sessions
          /\ phase[t] \in Answered \/ Adds(session[t], t)
      BY <2>1, <2>4, MemorySteps DEF AnsweredInv
    <3>2. t \in Turns \ S
      BY <2>1 DEF Has, S, Among
    <3>. QED
      BY <1>3, <2>1, <3>1, <3>2, MemoryFollows
  <2>. QED
    BY <2>1, <2>2, <2>3, <2>4
<1>5. Shows(c)'
  <2>. SUFFICES /\ OnceEach(answers)
                /\ sid = NoSession => answers = << >>
                /\ sid # NoSession =>
                     /\ \E u \in Turns : owner'[u] = c /\ session'[u] = sid
                     /\ \A u \in Turns : session'[u] = sid => Has(asked, u)
                     /\ \A u \in S : session'[u] = sid /\ phase'[u] = "answered"
                     /\ EndsIn(answers, Those(kept'[sid], S))
    BY DEF Shows
  <2>1. /\ OnceEach(answers)
        /\ sid = NoSession => answers = << >>
        /\ sid # NoSession =>
             /\ \E u \in Turns : owner[u] = c /\ session[u] = sid
             /\ \A u \in Turns : session[u] = sid => Has(asked, u)
             /\ \A u \in S : session[u] = sid /\ phase[u] = "answered"
             /\ EndsIn(answers, Those(kept[sid], S))
    BY DEF ShowsInv, Shows
  <2>2. \A u \in Turns : Named(u) /\ owner'[u] = c => Has(asked, u)
    BY DEF Named
  <2>. HIDE DEF asked, answers, t, sid, S
  <2>3. ASSUME sid # NoSession
        PROVE  /\ \E u \in Turns : owner'[u] = c /\ session'[u] = sid
               /\ \A u \in Turns : session'[u] = sid => Has(asked, u)
               /\ \A u \in S : session'[u] = sid /\ phase'[u] = "answered"
               /\ EndsIn(answers, Those(kept'[sid], S))
    <3>1. PICK w \in Turns : owner[w] = c /\ session[w] = sid
      BY <2>1, <2>3
    <3>2. owner'[w] = c /\ session'[w] = sid
      BY <1>2, <2>3, <3>1
    <3>3. ASSUME NEW u \in Turns, session'[u] = sid PROVE Has(asked, u)
      <4>1. CASE session'[u] = session[u]
        BY <2>1, <2>3, <3>3, <4>1
      <4>2. CASE Named(u)
        BY <2>2, <3>1, <3>3, <4>2 DEF Named
      <4>. QED
        BY <1>2, <4>1, <4>2 DEF Moves
    <3>4. \A u \in S : session'[u] = sid /\ phase'[u] = "answered"
      BY <1>2, <1>3, <2>1, <2>3 DEF Moves
    <3>5. EndsIn(answers, Those(kept'[sid], S))
      <4>1. Those(kept'[sid], S) = << >> \/ Those(kept'[sid], S) = Those(kept[sid], S)
        BY <1>1, <1>3, <2>3, MemoryFollows
      <4>2. EndsIn(answers, << >>)
        BY <1>1, EndsInNone
      <4>. QED
        BY <2>1, <2>3, <4>1, <4>2
    <3>. QED
      BY <3>2, <3>3, <3>4, <3>5
  <2>. QED
    BY <2>1, <2>3
<1>. QED
  BY <1>4, <1>5

\* A client asks one turn more.
LEMMA AskStep ==
  ASSUME CInv, AnsweredInv, OwnersInv, ShowsInv, NEW c \in Clients, NEW t \in Turns,
         [Next]_vars, SubmitAccepted(c, t) \/ SubmitRefused(c, t)
  PROVE  Asks(c)' /\ Shows(c)'
<1>. DEFINE asked == Said(messages[c], "user")
            answers == Said(messages[c], "assistant")
            S == Among(answers)
            sid == session_id[c]
<1>1. /\ phase \in [Turns -> Phases] /\ session \in [Turns -> Sessions \cup {NoSession}]
      /\ owner \in [Turns -> Clients \cup {NoClient}] /\ asking \in [Clients -> Turns \cup {NoTurn}]
      /\ NoClient \notin Clients /\ TypeOK
  BY ClientsAssumption DEF CInv, TypeOK, RouteTypeOK
<1>2. /\ asking'[c] = t /\ session_id'[c] = sid /\ owner'[t] = c
      /\ phase[t] = "new" /\ phase'[t] \in {"streaming", "failed"}
      /\ \A u \in Turns \ {t} : owner'[u] = owner[u] /\ session'[u] = session[u] /\ phase'[u] = phase[u]
      /\ \/ session'[t] = NoSession
         \/ sid # NoSession /\ session'[t] = sid
         \/ sid = NoSession /\ \A u \in Turns : session[u] # session'[t]
      /\ kept' = kept /\ Show(c, "user", t)
  BY <1>1, SubmitFacts DEF history
<1>3. /\ asked \in Seq(Turns) /\ answers \in Seq(Turns)
      /\ Said(messages'[c], "user") = Append(asked, t)
      /\ Said(messages'[c], "assistant") = answers
  BY <1>1, <1>2, ShowMore DEF Roles
<1>4. owner[t] = NoClient /\ session[t] = NoSession
  BY <1>2 DEF OwnersInv
<1>5. /\ OnceEach(answers)
      /\ sid = NoSession => answers = << >>
      /\ sid # NoSession =>
           /\ \E u \in Turns : owner[u] = c /\ session[u] = sid
           /\ \A u \in Turns : session[u] = sid => Has(asked, u)
           /\ \A u \in S : session[u] = sid /\ phase[u] = "answered"
           /\ EndsIn(answers, Those(kept[sid], S))
  BY DEF ShowsInv, Shows
<1>. HIDE DEF asked, sid
<1>6. /\ Has(Append(asked, t), t)
      /\ \A u : Has(asked, u) => Has(Append(asked, t), u)
  BY <1>3, HasAppended
<1>7. ~Has(answers, t)
  <2>1. CASE sid = NoSession
    <3>1. answers = << >>
      BY <1>5, <2>1
    <3>. QED
      BY <3>1, EmptySeq DEF Has
  <2>2. CASE sid # NoSession
    BY <1>2, <1>5, <2>2 DEF Has, Among
  <2>. QED
    BY <2>1, <2>2
<1>. HIDE DEF answers, S
<1>8. session'[t] # NoSession =>
        IF sid = NoSession THEN \A u \in Turns : session'[u] = session'[t] => u = t
        ELSE session'[t] = sid
  BY <1>2
<1>9. phase'[t] \notin Answered
  BY <1>2 DEF Answered
<1>10. Asks(c)'
  <2>. SUFFICES /\ owner'[t] = c
                /\ Has(Append(asked, t), t)
                /\ ~Has(answers, t)
                /\ session'[t] # NoSession =>
                     IF sid = NoSession THEN \A u \in Turns : session'[u] = session'[t] => u = t
                     ELSE session'[t] = sid
                /\ phase'[t] \notin Answered
    BY <1>2, <1>3 DEF Asks
  <2>. QED
    BY <1>2, <1>6, <1>7, <1>8, <1>9
<1>11. sid # NoSession =>
         /\ \E u \in Turns : owner'[u] = c /\ session'[u] = sid
         /\ \A u \in Turns : session'[u] = sid => Has(Append(asked, t), u)
         /\ \A u \in S : session'[u] = sid /\ phase'[u] = "answered"
  <2>. SUFFICES ASSUME sid # NoSession
                PROVE  /\ \E u \in Turns : owner'[u] = c /\ session'[u] = sid
                       /\ \A u \in Turns : session'[u] = sid => Has(Append(asked, t), u)
                       /\ \A u \in S : session'[u] = sid /\ phase'[u] = "answered"
    OBVIOUS
  <2>1. S \subseteq Turns /\ t \notin S
    BY <1>3, <1>7, SeqFacts DEF Among, Has, S
  <2>2. \E u \in Turns : owner'[u] = c /\ session'[u] = sid
    BY <1>1, <1>2, <1>4, <1>5
  <2>3. \A u \in Turns : session'[u] = sid => Has(Append(asked, t), u)
    BY <1>2, <1>5, <1>6
  <2>4. \A u \in S : session'[u] = sid /\ phase'[u] = "answered"
    BY <1>2, <1>5, <2>1
  <2>. QED
    BY <2>2, <2>3, <2>4
<1>12. Shows(c)'
  <2>. SUFFICES /\ OnceEach(answers)
                /\ sid = NoSession => answers = << >>
                /\ sid # NoSession =>
                     /\ \E u \in Turns : owner'[u] = c /\ session'[u] = sid
                     /\ \A u \in Turns : session'[u] = sid => Has(Append(asked, t), u)
                     /\ \A u \in S : session'[u] = sid /\ phase'[u] = "answered"
                     /\ EndsIn(answers, Those(kept[sid], S))
    BY <1>2, <1>3 DEF Shows, S
  <2>. QED
    BY <1>5, <1>11
<1>. QED
  BY <1>10, <1>12

\* A client stops reading: nothing of what it shows changes.
LEMMA StopStep ==
  ASSUME NEW c \in Clients, ShowsInv,
         UNCHANGED <<routeVars, owner>>, messages'[c] = messages[c], session_id'[c] = session_id[c],
         asking'[c] = NoTurn
  PROVE  Asks(c)' /\ Shows(c)'
<1>1. Asks(c)'
  BY DEF Asks
<1>2. session' = session /\ phase' = phase /\ kept' = kept /\ owner' = owner
  BY DEF routeVars, history
<1>3. Shows(c)'
  BY <1>2 DEF ShowsInv, Shows
<1>. QED
  BY <1>1, <1>3

\* A new conversation starts from nothing.
LEMMA AnewStep ==
  ASSUME NEW c \in Clients, messages'[c] = << >>, session_id'[c] = NoSession, asking'[c] = NoTurn
  PROVE  Asks(c)' /\ Shows(c)'
<1>1. Asks(c)'
  BY DEF Asks
<1>2. Said(messages'[c], "assistant") = << >>
  BY NothingSaid
<1>3. OnceEach(<< >>)
  BY DEF OnceEach
<1>4. Shows(c)'
  BY <1>2, <1>3 DEF Shows
<1>. QED
  BY <1>1, <1>4

\* The answer that a client has read to its end is the latest of the answers shown, in
\* what it shows and in the memory.
LEMMA LearnStep ==
  ASSUME CInv, AnsweredInv, OwnersInv, ShowsInv, AsksInv, KeptInv, NEW c \in Clients,
         ReadToTheEnd(c), Learns(asking[c])
  PROVE  Asks(c)' /\ Shows(c)'
<1>. DEFINE t == asking[c]
            asked == Said(messages[c], "user")
            answers == Said(messages[c], "assistant")
            S == Among(answers)
            sid == session_id[c]
            s == session[t]
            turns == kept[s]
<1>1. /\ t \in Turns /\ session_id \in [Clients -> Sessions \cup {NoSession}]
      /\ asking \in [Clients -> Turns \cup {NoTurn}] /\ TypeOK
      /\ NoSession \notin Sessions
      /\ kept \in [Sessions -> Seq(Turns)]
  BY SessionAssumption DEF CInv, TypeOK, ReadToTheEnd, RInv, MInv, KeptWhole
<1>2. /\ asking'[c] = NoTurn /\ session_id'[c] = s /\ Show(c, "assistant", t)
      /\ session' = session /\ phase' = phase /\ kept' = kept /\ owner' = owner
  BY <1>1 DEF ReadToTheEnd, routeVars, history
<1>3. /\ asked \in Seq(Turns) /\ answers \in Seq(Turns)
      /\ Said(messages'[c], "user") = asked
      /\ Said(messages'[c], "assistant") = Append(answers, t)
  BY <1>1, <1>2, ShowMore DEF Roles
<1>4. phase[t] = "answered" /\ s \in Sessions
  <2>1. \E i \in DOMAIN frames[t] : frames[t][i] = "done"
    BY DEF Learns, Sent
  <2>2. frames[t] \in Seq(Frames)
    BY <1>1 DEF TypeOK, RouteTypeOK
  <2>3. phase[t] = "answered"
    BY <1>1, <2>1, <2>2, SeqFacts DEF CInv, RInv, FramesInv
  <2>. QED
    BY <1>1, <2>3 DEF AnsweredInv, Answered
<1>5. /\ owner[t] = c /\ Has(asked, t) /\ ~Has(answers, t)
      /\ IF sid = NoSession THEN \A u \in Turns : session[u] = s => u = t ELSE s = sid
      /\ InOrder(turns, t, S)
  BY <1>1, <1>4, ClientsAssumption DEF AsksInv, Asks, Answered
<1>6. /\ OnceEach(answers)
      /\ sid = NoSession => answers = << >>
      /\ sid # NoSession =>
           /\ \A u \in Turns : session[u] = sid => Has(asked, u)
           /\ \A u \in S : session[u] = sid /\ phase[u] = "answered"
           /\ EndsIn(answers, Those(kept[sid], S))
  BY DEF ShowsInv, Shows
<1>7. turns \in Seq(Turns) /\ OnceEach(turns)
  BY <1>1, <1>4 DEF KeptInv
<1>. HIDE DEF t, asked, answers, sid, s, turns
<1>8. answers = << >> => S = {}
  BY EmptySeq DEF Among
<1>. HIDE DEF S
<1>9. EndsIn(answers, Those(turns, S))
  <2>1. CASE sid = NoSession
    <3>1. Those(turns, S) = << >>
      BY <1>6, <1>7, <1>8, <2>1, ThoseOfNone
    <3>. QED
      BY <1>3, <3>1, EndsInNone
  <2>2. CASE sid # NoSession
    BY <1>5, <1>6, <2>2 DEF turns
  <2>. QED
    BY <2>1, <2>2
<1>10. EndsIn(Append(answers, t), Those(turns, S \cup {t}))
  <2>1. /\ Append(answers, t) \in Seq(Turns) /\ Those(turns, S) \in Seq(Turns)
        /\ Len(turns) \in Nat /\ DOMAIN turns = 1 .. Len(turns)
    BY <1>1, <1>3, <1>7, AppendProperties, ThoseSeq, SeqFacts
  <2>2. CASE Has(turns, t)
    <3>1. PICK p \in 1 .. Len(turns) : turns[p] = t
      BY <2>1, <2>2 DEF Has
    <3>2. \A i \in 1 .. Len(turns) : turns[i] \in S => i < p
      BY <1>5, <1>7, <2>1, <3>1 DEF InOrder, OnceEach
    <3>3. Those(turns, S \cup {turns[p]}) = Append(Those(turns, S), turns[p])
      BY <1>7, <3>2, ThoseAndLast
    <3>4. EndsIn(Append(answers, t), Append(Those(turns, S), t))
      BY <1>1, <1>3, <1>9, <2>1, EndsInAppended
    <3>. QED
      BY <3>1, <3>3, <3>4
  <2>3. CASE ~Has(turns, t)
    <3>1. \A i \in 1 .. Len(turns) : turns[i] \notin S \cup {t}
      BY <1>5, <2>1, <2>3 DEF InOrder, Has
    <3>2. Those(turns, S \cup {t}) = << >>
      BY <1>7, <3>1, ThoseOfNone
    <3>3. EndsIn(Append(answers, t), << >>)
      BY <2>1, EndsInNone
    <3>. QED
      BY <3>2, <3>3
  <2>. QED
    BY <2>2, <2>3
<1>11. OnceEach(Append(answers, t)) /\ Among(Append(answers, t)) = S \cup {t}
  BY <1>1, <1>3, <1>5, <1>6, HasAppended DEF S
<1>12. \A u \in Turns : session[u] = s => Has(asked, u)
  BY <1>5, <1>6
<1>13. \A u \in S \cup {t} : session[u] = s /\ phase[u] = "answered"
  BY <1>4, <1>5, <1>6, <1>8 DEF s
<1>14. Asks(c)'
  BY <1>2 DEF Asks
<1>15. Shows(c)'
  <2>. SUFFICES /\ OnceEach(Append(answers, t))
                /\ s # NoSession
                /\ \E u \in Turns : owner[u] = c /\ session[u] = s
                /\ \A u \in Turns : session[u] = s => Has(asked, u)
                /\ \A u \in Among(Append(answers, t)) : session[u] = s /\ phase[u] = "answered"
                /\ EndsIn(Append(answers, t), Those(turns, Among(Append(answers, t))))
    BY <1>2, <1>3 DEF Shows, turns
  <2>. QED
    BY <1>1, <1>4, <1>5, <1>10, <1>11, <1>12, <1>13 DEF s
<1>. QED
  BY <1>14, <1>15

TalkInv == OwnersInv /\ KeptInv /\ AsksInv /\ ShowsInv

LEMMA TalkStep == CInv /\ AnsweredInv /\ TalkInv /\ [Next]_vars => TalkInv'
<1>. SUFFICES ASSUME CInv, AnsweredInv, TalkInv, [Next]_vars PROVE TalkInv'
  OBVIOUS
<1>1. OwnersInv /\ KeptInv /\ AsksInv /\ ShowsInv
  BY DEF TalkInv
<1>2. /\ messages \in [Clients -> Seq(Message)] /\ asking \in [Clients -> Turns \cup {NoTurn}]
      /\ session_id \in [Clients -> Sessions \cup {NoSession}] /\ TypeOK
  BY DEF CInv, TypeOK
<1>3. OwnersInv' /\ KeptInv'
  BY <1>1, OwnersStep, KeptStep
<1>4. ASSUME NEW c \in Clients PROVE Asks(c)' /\ Shows(c)'
  <2>1. CASE messages'[c] = messages[c] /\ session_id'[c] = session_id[c] /\ asking'[c] = asking[c]
    BY <1>1, <2>1, AsideStep
  <2>2. CASE UNCHANGED clientVars
    BY <2>1, <2>2 DEF clientVars
  <2>3. ASSUME NEW d \in Clients, NEW t \in Turns, SubmitAccepted(d, t) \/ SubmitRefused(d, t)
        PROVE  Asks(c)' /\ Shows(c)'
    <3>1. CASE d = c
      BY <1>1, <2>3, <3>1, AskStep
    <3>2. CASE d # c
      <4>1. /\ asking' = [asking EXCEPT ![d] = t] /\ session_id' = session_id /\ Show(d, "user", t)
        BY <1>1, <2>3, SubmitFacts
      <4>. QED
        BY <1>2, <2>1, <3>2, <4>1 DEF Show
    <3>. QED
      BY <3>1, <3>2
  <2>4. ASSUME NEW d \in Clients, ReadToTheEnd(d) \/ LoseStream(d) \/ NewConversation(d)
        PROVE  Asks(c)' /\ Shows(c)'
    <3>1. CASE d # c
      BY <1>2, <2>1, <2>4, <3>1 DEF ReadToTheEnd, LoseStream, NewConversation, Show
    <3>2. CASE d = c /\ ReadToTheEnd(c)
      <4>1. CASE Learns(asking[c])
        BY <1>1, <3>2, <4>1, LearnStep
      <4>2. CASE ~Learns(asking[c])
        BY <1>1, <1>2, <3>2, <4>2, StopStep DEF ReadToTheEnd
      <4>. QED
        BY <4>1, <4>2
    <3>3. CASE d = c /\ LoseStream(c)
      BY <1>1, <1>2, <3>3, StopStep DEF LoseStream
    <3>4. CASE d = c /\ NewConversation(c)
      BY <1>2, <3>4, AnewStep DEF NewConversation
    <3>. QED
      BY <2>4, <3>1, <3>2, <3>3, <3>4
  <2>. QED
    BY <2>2, <2>3, <2>4 DEF Next, Call, vars
<1>5. AsksInv' /\ ShowsInv'
  BY <1>4 DEF AsksInv, ShowsInv
<1>. QED
  BY <1>3, <1>5 DEF TalkInv

LEMMA Talk == Spec => [](CInv /\ ByTurnInv /\ AnsweredInv /\ TalkInv)
<1>1. Init => TalkInv
  <2>. SUFFICES ASSUME Init PROVE TalkInv
    OBVIOUS
  <2>1. /\ \A t \in Turns : phase[t] = "new" /\ owner[t] = NoClient /\ session[t] = NoSession
        /\ \A s \in Sessions : kept[s] = << >>
        /\ \A c \in Clients : messages[c] = << >> /\ session_id[c] = NoSession /\ asking[c] = NoTurn
    BY DEF Init, RouteInit
  <2>2. OwnersInv
    BY <2>1 DEF OwnersInv
  <2>3. KeptInv
    BY <2>1, EmptySeq DEF KeptInv, OnceEach, Has
  <2>4. AsksInv
    BY <2>1 DEF AsksInv, Asks
  <2>5. Said(<< >>, "assistant") = << >> /\ OnceEach(<< >>)
    BY NothingSaid DEF OnceEach
  <2>6. ShowsInv
    BY <2>1, <2>5 DEF ShowsInv, Shows
  <2>. QED
    BY <2>2, <2>3, <2>4, <2>6 DEF TalkInv
<1>2. CInv /\ AnsweredInv /\ TalkInv /\ [Next]_vars => TalkInv'
  BY TalkStep
<1>. QED
  BY <1>1, <1>2, AnswersKept, PTL DEF Spec

\* For any clients, sessions, bounds and interleaving of requests, lost streams, new
\* conversations and restarts: what a client shows of its conversation is what the
\* memory holds of it (submit and _stream_answer in frontend/app.py, chat_stream).
THEOREM ClientsAgree == Spec => []ConversationAgrees
<1>1. CInv /\ AnsweredInv /\ TalkInv => ConversationAgrees
  <2>. SUFFICES ASSUME CInv, AnsweredInv, TalkInv, NEW c \in Clients, session_id[c] # NoSession
                PROVE  LET turns   == kept[session_id[c]]
                           answers == ShownBy(c, "assistant")
                           known   == Those(turns, ToSet(answers))
                       IN /\ IsSuffix(known, answers)
                          /\ restarts = 0 /\ Len(byTurn) <= MaxSessions => known = answers
                          /\ ToSet(turns) \subseteq ToSet(ShownBy(c, "user"))
                          /\ \A t \in ToSet(answers) : session[t] = session_id[c]
    BY DEF ConversationAgrees
  <2>. DEFINE sid     == session_id[c]
              turns   == kept[sid]
              asked   == Said(messages[c], "user")
              answers == Said(messages[c], "assistant")
              S       == Among(answers)
              known   == Those(turns, S)
  <2>1. ShownBy(c, "user") = asked /\ ShownBy(c, "assistant") = answers
    BY ShownIsSaid
  <2>2. \A list : ToSet(list) = Among(list)
    BY DEF ToSet, Among
  <2>3. /\ sid \in Sessions /\ turns \in Seq(Turns) /\ messages[c] \in Seq(Message)
    BY DEF CInv, TypeOK, RInv, MInv, KeptWhole
  <2>4. asked \in Seq(Turns) /\ answers \in Seq(Turns) /\ known \in Seq(Turns)
    BY <2>3, SaidFacts, ThoseSeq DEF Roles
  <2>5. /\ OnceEach(answers)
        /\ \A u \in Turns : session[u] = sid => Has(asked, u)
        /\ \A u \in S : session[u] = sid /\ phase[u] = "answered"
        /\ EndsIn(answers, known)
    BY DEF TalkInv, ShowsInv, Shows
  <2>6. \A t \in Turns : Has(turns, t) => session[t] = sid
    BY <2>3 DEF TalkInv, KeptInv
  <2>7. \A list, t : Has(list, t) <=> t \in Among(list)
    BY DEF Has, Among
  <2>8. S \subseteq Turns /\ Among(turns) \subseteq Turns
    BY <2>3, <2>4, SeqFacts DEF Among
  <2>9. ASSUME restarts = 0, Len(byTurn) <= MaxSessions PROVE known = answers
    <3>1. \A u \in S : Has(turns, u)
      BY <2>5, <2>8, <2>9 DEF AnsweredInv, Answered
    <3>. HIDE DEF turns, S, answers
    <3>2. \A u \in S : Has(known, u)
      BY <2>3, <3>1, ThoseHave
    <3>3. \A i \in 1 .. Len(answers) : Has(known, answers[i])
      BY <2>4, <3>2, SeqFacts DEF S, Among
    <3>. HIDE DEF known
    <3>. QED
      BY <2>4, <2>5, <3>3, EndWithAll
  <2>. HIDE DEF turns, asked, answers, S, known
  <2>10. IsSuffix(known, answers)
    BY <2>4, <2>5, SuffixFacts
  <2>11. Among(turns) \subseteq Among(asked)
    BY <2>5, <2>6, <2>7, <2>8
  <2>. QED
    BY <2>1, <2>2, <2>5, <2>9, <2>10, <2>11 DEF turns, S, known, sid
<1>. QED
  BY <1>1, Talk, PTL
==============================================================================
