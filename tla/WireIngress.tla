---------------------------- MODULE WireIngress ----------------------------
(***************************************************************************)
(* RealAeronIngressAdapter over an Aeron stream: publishers offer lines of *)
(* text, and the main loop polls.                                          *)
(*                                                                         *)
(* Aeron (external): a message longer than the MTU crosses as as many      *)
(* fragments as it needs, which come in one after another.  The            *)
(* subscription has every publisher's stream, so that another publisher's  *)
(* message may come between two of them.  (One message at a time is under  *)
(* way in several fragments here: as each is decoded alone, two would only *)
(* put the same fragments into another order.)  A poll hands those after   *)
(* the position to the handler, at most the limit it is given, and may     *)
(* stop early at the end of a term.  An exception of the handler goes to   *)
(* the client's error handler and ends the poll, with the position after   *)
(* the fragment.  The adapter has no assembler, so its handler sees        *)
(* fragments.                                                              *)
(***************************************************************************)
EXTENDS TextEventCodec, FiniteSets

CONSTANTS
  WireEvent,      \* events publishers send
  Garbage,        \* lines that are not events, from publishers of anything else
  Remains,        \* what can be left of a word cut in two
  FragmentLimit,  \* the constructor's
  MaxBatch,       \* argument of poll
  MaxFragments    \* bound: fragments in the stream

ASSUME WireEventAssumption ==
  \A e \in WireEvent :
    /\ e \in [key: Text, version: Nat \ {0}, payload: Bytes,
              source: SourceName, position: Text]
    /\ e.key # <<>> /\ ~IsBlank(e.key) /\ e.position # <<>>

ASSUME WireAssumption ==
  /\ Garbage \subseteq Text \ {<<>>} /\ \A g \in Garbage : ~DecodesAsEvent(g)
  /\ Remains \subseteq Word
  /\ FragmentLimit \in Nat /\ MaxBatch \in Nat /\ MaxFragments \in Nat

VARIABLES
  stream,     \* the fragments, in order
  unsent,     \* the rest of a message some fragments of which are in the stream
  consumed,   \* the subscription's position
  pollAt,     \* where poll stands
  seen,       \* fragments this poll has taken
  batch,      \* the list poll will return
  handed,     \* the events earlier polls returned
  sentWhole,  \* history: events sent in one fragment
  sentCut,    \* history: events sent in several
  foreignCut  \* history: lines that are not events, sent in several

pollVars == <<consumed, pollAt, seen, batch, handed>>

history == <<sentWhole, sentCut, foreignCut>>

wireVars == <<stream, unsent, pollVars, history>>

\* Mutant: the subscription is polled for its own limit.
LimitOfSubscription == FragmentLimit

\* What poll gives the subscription: the smaller of the two.
Limit == IF FragmentLimit <= MaxBatch THEN FragmentLimit ELSE MaxBatch

WireTypeOK ==
  /\ stream \in Seq(Text) /\ unsent \in Text
  /\ consumed \in 0 .. Len(stream)
  /\ pollAt \in {"idle", "polling", "returning"}
  /\ seen \in 0 .. Limit
  /\ Len(batch) <= seen
  /\ sentWhole \subseteq WireEvent /\ sentCut \subseteq WireEvent
  /\ foreignCut \subseteq Garbage

Init ==
  /\ stream = <<>> /\ unsent = <<>> /\ consumed = 0
  /\ pollAt = "idle" /\ seen = 0 /\ batch = <<>>
  /\ handed = <<>>
  /\ sentWhole = {} /\ sentCut = {} /\ foreignCut = {}

-----------------------------------------------------------------------------
(***************************************************************************)
(* The publishers.                                                         *)
(***************************************************************************)
Offer(fragment) ==
  /\ Len(stream) < MaxFragments
  /\ stream' = Append(stream, fragment)
  /\ UNCHANGED pollVars

SendEvent(e) ==
  /\ Offer(EncodeUpsertEvent(e))
  /\ sentWhole' = sentWhole \cup {e}
  /\ UNCHANGED <<unsent, sentCut, foreignCut>>

SendGarbage(g) == Offer(g) /\ UNCHANGED <<unsent, history>>

Nothing == WordPiece(Blank)

\* What a cut leaves of a piece on its two sides: it goes before the piece,
\* after it, or through it.
Halves(piece) ==
  {<<Nothing, piece>>, <<piece, Nothing>>} \cup
  (IF piece = Nothing THEN {} ELSE {<<WordPiece(v), WordPiece(w)>> : v, w \in Remains})

\* A fragment of the text goes, and the rest is to follow; neither is empty.
SendPart(text) ==
  \E i \in DOMAIN text : \E halves \in Halves(text[i]) :
    LET fragment == SubSeq(text, 1, i - 1) \o <<halves[1]>>
        rest == <<halves[2]>> \o SubSeq(text, i + 1, Len(text))
    IN  /\ fragment # <<Nothing>> /\ rest # <<Nothing>>
        /\ Offer(fragment)
        /\ unsent' = rest

SendLongEvent(e) ==
  /\ unsent = <<>>
  /\ SendPart(EncodeUpsertEvent(e))
  /\ sentCut' = sentCut \cup {e}
  /\ UNCHANGED <<sentWhole, foreignCut>>

SendLongGarbage(g) ==
  /\ unsent = <<>>
  /\ SendPart(g)
  /\ foreignCut' = foreignCut \cup {g}
  /\ UNCHANGED <<sentWhole, sentCut>>

SendNextFragment ==
  /\ unsent # <<>>
  /\ SendPart(unsent)
  /\ UNCHANGED history

SendLastFragment ==
  /\ unsent # <<>>
  /\ Offer(unsent)
  /\ unsent' = <<>>
  /\ UNCHANGED history

-----------------------------------------------------------------------------
(***************************************************************************)
(* poll(MaxBatch), a fragment a step.                                      *)
(***************************************************************************)
PollStarts ==
  /\ pollAt = "idle"
  /\ pollAt' = "polling"
  /\ UNCHANGED <<stream, unsent, consumed, seen, batch, handed, history>>

Full == Len(batch) >= MaxBatch

Fragment == stream[consumed + 1]

NextFragment ==
  /\ pollAt = "polling"
  /\ seen < Limit
  /\ consumed < Len(stream)
  /\ consumed' = consumed + 1
  /\ seen' = seen + 1
  /\ UNCHANGED <<stream, unsent, handed, history>>

\* The handler returns: it skips the fragment when the batch is full.
HandlerReturns ==
  /\ NextFragment
  /\ Full \/ DecodesAsEvent(Fragment)
  /\ batch' = IF Full THEN batch ELSE Append(batch, DecodeUpsertEvent(Fragment))
  /\ UNCHANGED pollAt

\* Mutant: a line that does not decode throws the batch away.
HandlerThrowsBatchAway ==
  /\ NextFragment
  /\ ~Full /\ ~DecodesAsEvent(Fragment)
  /\ batch' = <<>>
  /\ pollAt' = "returning"

HandlerThrows ==
  /\ NextFragment
  /\ ~Full /\ ~DecodesAsEvent(Fragment)
  /\ pollAt' = "returning"
  /\ UNCHANGED batch

\* Mutant: the list is kept for the next poll.
PollReturnsKeepingBatch ==
  /\ \/ pollAt = "polling" /\ (seen > 0 \/ seen = Limit \/ consumed = Len(stream))
     \/ pollAt = "returning"
  /\ pollAt' = "idle"
  /\ handed' = handed \o batch
  /\ seen' = 0
  /\ UNCHANGED <<stream, unsent, consumed, batch, history>>

PollReturns ==
  /\ \/ pollAt = "polling" /\ (seen > 0 \/ seen = Limit \/ consumed = Len(stream))
     \/ pollAt = "returning"
  /\ pollAt' = "idle"
  /\ handed' = handed \o batch
  /\ batch' = <<>>
  /\ seen' = 0
  /\ UNCHANGED <<stream, unsent, consumed, history>>

PollStep == PollStarts \/ HandlerReturns \/ HandlerThrows \/ PollReturns

Next ==
  \/ \E e \in WireEvent : SendEvent(e) \/ SendLongEvent(e)
  \/ \E g \in Garbage : SendGarbage(g) \/ SendLongGarbage(g)
  \/ SendNextFragment \/ SendLastFragment
  \/ PollStep

Spec == Init /\ [][Next]_wireVars

\* The main loop polls for as long as main runs; what ends it is in
\* StoreService (a publication that fails) and in Application.
FairSpec == Spec /\ WF_wireVars(PollStep)

-----------------------------------------------------------------------------
Received == handed \o batch

(***************************************************************************)
(* The adapter is an event source whose events are the fragments that      *)
(* decode: no fragment is taken twice or passed over, whatever the limits, *)
(* and one that does not decode costs no other its place.                  *)
(***************************************************************************)
Unread ==
  LET readable == SelectSeq(SubSeq(stream, consumed + 1, Len(stream)), DecodesAsEvent)
  IN  [i \in DOMAIN readable |-> DecodeUpsertEvent(readable[i])]

OnePiece == {text \in Text : Len(text) = 1}

Receivable == [key: OnePiece, version: Nat \ {0}, payload: Bytes,
               source: SourceName, position: OnePiece]

Source == INSTANCE EventSource WITH
  Event <- Receivable, waiting <- Unread, handedOut <- Received

ImplementsEventSource == Source!FairSpec

(***************************************************************************)
(* What the service gets was sent: an event that came in one fragment as   *)
(* it was; one sent in several with its key, its position or both cut      *)
(* short; and otherwise only what the key or the position of an event sent *)
(* in several, or a foreign line sent in several, itself spells.  No line  *)
(* that came whole is taken for another event, and no event is put         *)
(* together from two.                                                      *)
(***************************************************************************)
\* What a cut can leave for a key or a position.
CutShort(text) == \E w \in Remains \cup {Blank} : text = <<WordPiece(w)>>

CutFrom(e, f) ==
  /\ e.version = f.version /\ e.payload = f.payload /\ e.source = f.source
  /\ e.key = <<f.key[Len(f.key)]>> \/ CutShort(e.key)
  /\ e.position = <<f.position[1]>> \/ CutShort(e.position)

\* Five pieces of the text in a row say what the five fields of e would.
SpelledIn(e, text) ==
  \E j \in DOMAIN text :
    /\ j + 4 \in DOMAIN text
    /\ text[j] = LongPiece(e.version) /\ text[j + 1] = Upsert
    /\ text[j + 2] = Base64Piece(e.payload) /\ text[j + 3].kind = "long"
    /\ text[j + 4] = NamePiece(e.source)

WasSent(e) ==
  \/ e \in sentWhole
  \/ \E f \in sentCut : CutFrom(e, f) \/ SpelledIn(e, f.key) \/ SpelledIn(e, f.position)
  \/ \E g \in foreignCut : SpelledIn(e, g)

ReceivesWhatWasSent == \A i \in DOMAIN Received : WasSent(Received[i])

(***************************************************************************)
(* A consumer can decode the notification of every event that came in by   *)
(* the wire, and reads what was announced: such an event has a key in one  *)
(* piece.                                                                  *)
(***************************************************************************)
AnnouncementsReadable ==
  \A i \in DOMAIN Received : \A old \in 0 .. Received[i].version - 1 :
    LET n == [key |-> Received[i].key, oldVersion |-> old,
              newVersion |-> Received[i].version, payload |-> Received[i].payload]
        line == EncodeStateChangeNotification(n)
    IN  DecodesAsNotification(line) /\ DecodeStateChangeNotification(line) = n

(***************************************************************************)
(* An event sent in one fragment whose key and position hold no delimiter  *)
(* reaches the service, whatever else is in the stream.                    *)
(***************************************************************************)
Plain(e) == Len(e.key) = 1 /\ Len(e.position) = 1

PlainEventsArrive ==
  \A e \in WireEvent :
    e \in sentWhole /\ Plain(e) ~> \E i \in DOMAIN handed : handed[i] = e

(***************************************************************************)
(* Claim (docs/event-contracts.md, "All ingress adapters map               *)
(* source-specific payloads into this internal model", where the one rule  *)
(* for `entityKey` is that it is not empty): an event with any other key   *)
(* crosses the wire.                                                       *)
(***************************************************************************)
EveryEventCrosses == \A e \in sentWhole : DecodesAsEvent(EncodeUpsertEvent(e))
=============================================================================
