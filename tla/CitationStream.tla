--------------------------- MODULE CitationStream ----------------------------
(***************************************************************************)
(* Removing made-up citations from an answer, app/services/                *)
(* answer_service.py: scrub_citations on the whole reply and               *)
(* CitationScrubber on the tokens of a stream.                             *)
(*                                                                         *)
(* A text is a sequence of symbols: the two brackets, a space, a word, the *)
(* name of a retrieved file and the name of a file that was not retrieved. *)
(* The model's reply is any text, cut into tokens anywhere.                *)
(***************************************************************************)
EXTENDS Naturals, SequencesExt

CONSTANTS
  Symbols,   \* the symbols in play
  MaxLength  \* bound on the length of a reply

Open      == "["
Close     == "]"
Space     == " "
Retrieved == "retrieved.md"
MadeUp    == "made_up.md"
Filenames == {Retrieved, MadeUp}

ASSUME SymbolsAssumption == Symbols \subseteq Filenames \cup {Open, Close, Space, "word"}
ASSUME LengthAssumption  == MaxLength \in Nat

(***************************************************************************)
(* The regular expression _CITATION and its use in scrub_citations.        *)
(***************************************************************************)
\* The first position after i that holds x, or one past the end.
NextAt(xs, x, i) == Min({j \in DOMAIN xs : j > i /\ xs[j] = x} \cup {Len(xs) + 1})

\* A bracket with a file name inside and no bracket between: \[([^\[\]]+?\.md)...\].
IsCitation(xs, i) ==
  LET end == NextAt(xs, Close, i) IN
  /\ xs[i] = Open
  /\ end <= Len(xs)
  /\ NextAt(xs, Open, i) > end
  /\ \E j \in i + 1 .. end - 1 : xs[j] \in Filenames

\* The name that group 1 holds, stripped, is a retrieved file: nothing but spaces
\* stands between the bracket and the first file name.
IsAllowed(xs, i) ==
  \E j \in DOMAIN xs :
    /\ j > i
    /\ xs[j] = Retrieved
    /\ \A k \in i + 1 .. j - 1 : xs[k] = Space

\* The spaces right before position i travel with it: \s*.
SpacesBefore(xs, i) == {j \in 1 .. i - 1 : \A k \in j .. i - 1 : xs[k] = Space}

Dropped(xs) ==
  UNION {SpacesBefore(xs, i) \cup i .. NextAt(xs, Close, i) :
           i \in {j \in DOMAIN xs : IsCitation(xs, j) /\ ~IsAllowed(xs, j)}}

\* What is left of a text when the positions in D are taken out.
Without(xs, D) ==
  FoldLeft(LAMBDA left, i : IF i \in D THEN left ELSE Append(left, xs[i]),
           << >>, [i \in DOMAIN xs |-> i])

ScrubCitations(xs) == Without(xs, Dropped(xs))

(***************************************************************************)
(* CitationScrubber.                                                       *)
(***************************************************************************)
\* Mutant of WsStart: the spaces before a bracket are sent ahead of it.
WsStartAtBracket(xs, start) == start

\* ws_start: where the spaces begin that lead up to a bracket.
WsStart(xs, start) == Min(SpacesBefore(xs, start) \cup {start})

\* One pass of the loop of feed over what is buffered.  A bracket is held back until
\* the next closing one, with the spaces that lead up to it.
Pass(loop) ==
  LET xs      == loop.buf
      start   == NextAt(xs, Open, 0)
      wsStart == WsStart(xs, start)
      end     == NextAt(xs, Close, start)
      before  == SubSeq(xs, 1, wsStart - 1)
      span    == SubSeq(xs, wsStart, end)
  IN IF start > Len(xs) THEN [out |-> loop.out \o xs, buf |-> << >>]
     ELSE IF end > Len(xs) THEN [out |-> loop.out \o before, buf |-> SubSeq(xs, wsStart, Len(xs))]
     ELSE [out |-> loop.out \o before \o ScrubCitations(span), buf |-> SubSeq(xs, end + 1, Len(xs))]

\* The loop, pass after pass.  A pass that finds a whole bracket takes it out of the
\* buffer, and where another breaks a further one changes nothing: a pass for every
\* symbol is enough.
Drain(xs) == FoldLeft(LAMBDA loop, x : Pass(loop), [out |-> << >>, buf |-> xs], xs)

VARIABLES
  reply,    \* the model's whole reply
  sent,     \* how much of it has been fed to the scrubber
  buf,      \* _buf
  shown,    \* what the client has received
  flushed,  \* whether the stream has ended
  cuts      \* history: where the tokens end

vars == <<reply, sent, buf, shown, flushed, cuts>>

Init ==
  /\ reply \in UNION {[1 .. n -> Symbols] : n \in 0 .. MaxLength}
  /\ sent = 0
  /\ buf = << >>
  /\ shown = << >>
  /\ flushed = FALSE
  /\ cuts = {}

\* Mutant of Feed: every token is scrubbed on its own, with nothing held back.
FeedTokenwise(n) ==
  /\ ~flushed
  /\ shown' = shown \o ScrubCitations(SubSeq(reply, sent + 1, n))
  /\ sent' = n
  /\ cuts' = cuts \cup {n}
  /\ UNCHANGED <<reply, buf, flushed>>

\* A token of the reply arrives: everything up to position n.
Feed(n) ==
  LET drained == Drain(buf \o SubSeq(reply, sent + 1, n)) IN
  /\ ~flushed
  /\ shown' = shown \o drained.out
  /\ buf' = drained.buf
  /\ sent' = n
  /\ cuts' = cuts \cup {n}
  /\ UNCHANGED <<reply, flushed>>

\* Mutant of Flush: what is held back is lost.
FlushNothing ==
  /\ ~flushed
  /\ sent = Len(reply)
  /\ flushed' = TRUE
  /\ UNCHANGED <<reply, sent, buf, shown, cuts>>

\* The stream ends: what is held back has no closing bracket.
Flush ==
  /\ ~flushed
  /\ sent = Len(reply)
  /\ shown' = shown \o buf
  /\ buf' = << >>
  /\ flushed' = TRUE
  /\ UNCHANGED <<reply, sent, cuts>>

Next == Flush \/ \E n \in sent + 1 .. Len(reply) : Feed(n)

Spec == Init /\ [][Next]_vars

(***************************************************************************)
(* Properties.                                                             *)
(***************************************************************************)
WithoutSpaces(xs) == Without(xs, {i \in DOMAIN xs : xs[i] = Space})

\* Whatever the tokens, what the client has seen so far is the beginning of the
\* scrubbed reply, and at the end all of it, but for spaces: no citation that the
\* final answer will drop is ever shown, and nothing else is lost.
FollowsScrubbedReply ==
  LET wanted == WithoutSpaces(ScrubCitations(reply)) IN
  /\ IsPrefix(WithoutSpaces(shown), wanted)
  /\ flushed => WithoutSpaces(shown) = wanted

\* Spaces too, when no token ends in a space: then the stream shows exactly what
\* scrub_citations makes of the whole reply.
ExactUnlessCutAtSpace ==
  flushed /\ (\A n \in cuts : reply[n] # Space) => shown = ScrubCitations(reply)

\* A made-up file is cited only behind a retrieved one, in the same brackets.
LedByRetrieved(xs) ==
  \A i, j, end \in DOMAIN xs :
    /\ i < j /\ j < end
    /\ xs[i] = Open /\ xs[j] = MadeUp /\ xs[end] = Close
    /\ \A k \in i + 1 .. end - 1 : xs[k] \notin {Open, Close}
    => \E k \in i + 1 .. j - 1 : xs[k] = Retrieved

Flat(xs) ==
  \A i, j \in DOMAIN xs : i < j /\ xs[i] = Open /\ xs[j] = Open => NextAt(xs, Close, i) < j

\* At no moment of the stream is the client shown a citation that names a made-up file,
\* unless a retrieved file stands before it in the brackets: scrub_citations looks at
\* the first file name of a citation only, so of "only files actually retrieved may be
\* cited" this much holds, and [retrieved.md made_up.md] is shown.  It does not hold
\* either of a reply with an opening bracket that is not closed before the next one.
MadeUpNeverLeads == Flat(reply) => LedByRetrieved(shown)
==============================================================================
