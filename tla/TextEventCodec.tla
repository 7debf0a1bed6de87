--------------------------- MODULE TextEventCodec ---------------------------
(***************************************************************************)
(* TextEventCodec: events and notifications as one line of text, their     *)
(* fields joined by a delimiter and split at it again.                     *)
(*                                                                         *)
(* A text is the sequence of the pieces between its delimiters, so a field *)
(* with no delimiter in it is one piece, joining is concatenation, and     *)
(* split gives back all the pieces whatever field they came from.  A piece *)
(* is a word (anything), a number, a payload in Base64 or the name of a    *)
(* constant of an enum; Base64 makes one piece of any bytes.  Times are    *)
(* numbers nothing looks at, so all are 0.  Strings are well-formed        *)
(* Unicode, for which UTF-8 loses nothing.                                 *)
(***************************************************************************)
EXTENDS Integers, Sequences

CONSTANTS
  Word,    \* the pieces keys and positions are made of
  Blank,   \* the one that is empty or white space
  Bytes    \* payloads

ASSUME WordAssumption == Blank \in Word

WordPiece(w) == [kind |-> "word", value |-> w]
LongPiece(n) == [kind |-> "long", value |-> n]
Base64Piece(b) == [kind |-> "base64", value |-> b]
NamePiece(s) == [kind |-> "name", value |-> s]

SourceName == {"AERON", "KAFKA"}

Pieces ==
  [kind: {"word"}, value: Word] \cup [kind: {"long"}, value: Int]
    \cup [kind: {"base64"}, value: Bytes]
    \cup [kind: {"name"}, value: SourceName \cup {"UPSERT", "UPSERT_APPLIED"}]

Text == Seq(Pieces)

Time == LongPiece(0)
Upsert == NamePiece("UPSERT")
Applied == NamePiece("UPSERT_APPLIED")

IsBlank(text) == text = <<WordPiece(Blank)>>

EncodedBytes(b) == <<Base64Piece(b)>>

-----------------------------------------------------------------------------
(***************************************************************************)
(* An event and its line.  The constructor of UpsertEvent refuses a blank  *)
(* key and a version that is not positive.                                 *)
(***************************************************************************)
EncodeUpsertEvent(e) ==
  e.key \o <<LongPiece(e.version), Upsert>> \o EncodedBytes(e.payload)
    \o <<Time, NamePiece(e.source)>> \o e.position

\* Mutant: a line with more pieces than fields is taken for its first seven.
AtLeastSevenFields(line) ==
  /\ Len(line) >= 7
  /\ line[2].kind = "long" /\ line[2].value > 0
  /\ line[3] = Upsert
  /\ line[4].kind = "base64"
  /\ line[5].kind = "long"
  /\ line[6].kind = "name" /\ line[6].value \in SourceName
  /\ ~IsBlank(<<line[1]>>)

DecodesAsEvent(line) ==
  /\ Len(line) = 7
  /\ line[2].kind = "long" /\ line[2].value > 0
  /\ line[3] = Upsert
  /\ line[4].kind = "base64"
  /\ line[5].kind = "long"
  /\ line[6].kind = "name" /\ line[6].value \in SourceName
  /\ ~IsBlank(<<line[1]>>)

DecodeUpsertEvent(line) ==
  [key |-> <<line[1]>>, version |-> line[2].value, payload |-> line[4].value,
   source |-> line[6].value, position |-> <<line[7]>>]

-----------------------------------------------------------------------------
(***************************************************************************)
(* A notification and its line.  StateChangeNotification refuses nothing.  *)
(***************************************************************************)
\* Mutant: the payload goes as it is, and its bytes may spell a delimiter.
EncodePayloadRaw(n) ==
  n.key \o <<LongPiece(n.oldVersion), LongPiece(n.newVersion), Applied, Time>>
    \o <<WordPiece(Blank), WordPiece(Blank)>>

EncodeStateChangeNotification(n) ==
  n.key \o <<LongPiece(n.oldVersion), LongPiece(n.newVersion), Applied, Time>>
    \o EncodedBytes(n.payload)

DecodesAsNotification(line) ==
  /\ Len(line) = 6
  /\ line[2].kind = "long"
  /\ line[3].kind = "long"
  /\ line[5].kind = "long"
  /\ line[6].kind = "base64"

DecodeStateChangeNotification(line) ==
  [key |-> <<line[1]>>, oldVersion |-> line[2].value,
   newVersion |-> line[3].value, payload |-> line[6].value]
=============================================================================
