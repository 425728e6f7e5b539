----------------------------- MODULE FrameSplit -----------------------------
(***************************************************************************)
(* The bytes between the carrier's trace stream and the portal's bus:      *)
(* apps/portal/carrier_client.go, streamCarrierTrace, splitFrames and      *)
(* splitOnDoubleNewline.                                                   *)
(*                                                                         *)
(* The carrier writes "data: ", the JSON text of an event and an empty     *)
(* line.  The portal reads whatever is there, at most a buffer full, and   *)
(* splits each read on its own: nothing is kept from one read to the next. *)
(* Text is cut into the tokens at whose borders a read matters: the two    *)
(* halves of the prefix, those of the body, and each newline.              *)
(***************************************************************************)
EXTENDS Naturals, Sequences, FiniteSets, SequencesExt

CONSTANTS
  MaxEvents,   \* bound: events the carrier emits
  BufLen       \* tokens the read buffer holds

ASSUME FrameAssumption == MaxEvents \in Nat \ {0} /\ BufLen \in Nat \ {0}

VARIABLES
  sent,      \* events the carrier has written so far
  wire,      \* tokens written and not yet read
  relayed,   \* the frames emitted into the portal's bus
  state      \* streamCarrierTrace: "reading", "ended", or "panicked"

vars == <<sent, wire, relayed, state>>

Events == 1 .. MaxEvents

Token(n, part) == [of |-> n, is |-> part]

\* Mutant: the JSON text itself ends with a newline, as json.Encoder writes it.
WrittenByEncoder(n) == <<Token(n, "da"), Token(n, "ta: "), Token(n, "head"), Token(n, "tail"),
                Token(n, "nl"), Token(n, "nl"), Token(n, "nl")>>

\* What the carrier writes for event n: "data: ", the JSON text, two newlines.
Written(n) == <<Token(n, "da"), Token(n, "ta: "), Token(n, "head"), Token(n, "tail"),
                Token(n, "nl"), Token(n, "nl")>>

Body(n) == SubSeq(Written(n), 3, 4)

-----------------------------------------------------------------------------
(* splitOnDoubleNewline and splitFrames, on the text of one read.           *)

IsNewline(t) == t.is = "nl"

\* Mutant: the text of the chunk is not cleared behind it.
CutAtKeeping(s, acc, i) ==
  LET cur == Append(acc.cur, s[i]) IN
  IF i > 1 /\ IsNewline(s[i-1]) /\ IsNewline(s[i])
  THEN [acc EXCEPT !.res = Append(@, SubSeq(cur, 1, Len(cur) - 2)), !.cur = cur]
  ELSE [acc EXCEPT !.cur = cur]

\* One turn of the loop.  The newline before byte i is looked for in the whole
\* text, also when it ended the chunk before: two bytes are then taken off a
\* chunk of one, which panics.
CutAt(s, acc, i) ==
  LET cur == Append(acc.cur, s[i]) IN
  IF i > 1 /\ IsNewline(s[i-1]) /\ IsNewline(s[i])
  THEN [res |-> Append(acc.res, SubSeq(cur, 1, Len(cur) - 2)), cur |-> << >>,
        panics |-> acc.panics \/ Len(cur) < 2]
  ELSE [acc EXCEPT !.cur = cur]

\* The text is cut behind every two newlines in a row, which are dropped; what
\* is left over is the last chunk.
SplitOnDoubleNewline(s) ==
  LET after[i \in 0 .. Len(s)] ==
        IF i = 0 THEN [res |-> << >>, cur |-> << >>, panics |-> FALSE]
                 ELSE CutAt(s, after[i - 1], i)
      all == after[Len(s)]
  IN  [chunks |-> IF all.cur = << >> THEN all.res ELSE Append(all.res, all.cur),
       panics |-> all.panics]

\* Mutant: every chunk that is long enough is taken for a frame.
HasPrefixAnywhere(c) == Len(c) > 2

\* A chunk is a frame when it starts with "data: " and goes on behind it.
HasPrefix(c) == Len(c) > 2 /\ c[1].is = "da" /\ c[2].is = "ta: "

\* The frames of one read, without the prefix.
Frames(s) ==
  LET chunks == SplitOnDoubleNewline(s).chunks
      out[i \in 0 .. Len(chunks)] ==
        IF i = 0 THEN << >>
        ELSE IF HasPrefix(chunks[i])
             THEN Append(out[i - 1], SubSeq(chunks[i], 3, Len(chunks[i])))
             ELSE out[i - 1]
  IN  out[Len(chunks)]

-----------------------------------------------------------------------------
Init ==
  /\ sent = 0
  /\ wire = << >>
  /\ relayed = << >>
  /\ state = "reading"

\* The carrier's handler writes and flushes one event.
CarrierWrites ==
  /\ sent < MaxEvents
  /\ sent' = sent + 1
  /\ wire' = wire \o Written(sent + 1)
  /\ UNCHANGED <<relayed, state>>

\* Body.Read returns what has arrived, up to the length of the buffer, and its
\* frames are emitted in order.
Read(len) ==
  /\ state = "reading"
  /\ len \in 1 .. Len(wire) /\ len <= BufLen
  /\ wire' = SubSeq(wire, len + 1, Len(wire))
  /\ IF SplitOnDoubleNewline(SubSeq(wire, 1, len)).panics
     THEN state' = "panicked" /\ UNCHANGED relayed
     ELSE relayed' = relayed \o Frames(SubSeq(wire, 1, len)) /\ UNCHANGED state
  /\ UNCHANGED sent

\* The read fails or the stream is over: the goroutine returns.  What the read
\* returned beside its error has been split like any other, which is Read.
Ends ==
  /\ state = "reading"
  /\ state' = "ended"
  /\ UNCHANGED <<sent, wire, relayed>>

Next ==
  \/ CarrierWrites
  \/ \E len \in 1 .. BufLen : Read(len)
  \/ Ends

Spec == Init /\ [][Next]_vars

-----------------------------------------------------------------------------
\* However the stream is cut, the splitter never takes two bytes off a chunk of
\* one, a panic that would take the whole portal down (carrier_client.go:182): the
\* text of an event must never end in a newline of its own.
NeverPanics == state # "panicked"

OfEvent(f) == f[1].of

\* However the stream is cut, no frame mixes two events or starts in the middle of
\* one, no event is relayed twice, and frames keep the order of their events: what
\* the page is given is a beginning of an event or nothing.
OneEventPerFrame ==
  /\ \A i \in DOMAIN relayed :
       IsPrefix(relayed[i], Append(Body(OfEvent(relayed[i])), Token(OfEvent(relayed[i]), "nl")))
  /\ \A i, j \in DOMAIN relayed : i < j => OfEvent(relayed[i]) < OfEvent(relayed[j])

\* The text of the read that a step has made.
Chunk == SubSeq(wire, 1, Len(wire) - Len(wire'))

\* After a cut the splitter is in step again within one event: an event that lies
\* whole in one read is relayed whole, unless the read begins with the second
\* newline of the event before it, in which case that one event is lost.
BackInStep ==
  [][ sent' = sent =>
        \A i \in 1 .. Len(Chunk), n \in Events :
          ( /\ i + Len(Written(n)) - 1 <= Len(Chunk)
            /\ SubSeq(Chunk, i, i + Len(Written(n)) - 1) = Written(n)
            /\ ~(i = 2 /\ IsNewline(Chunk[1])) )
          => Body(n) \in Range(relayed') ]_vars
=============================================================================
