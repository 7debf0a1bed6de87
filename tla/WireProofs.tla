----------------------------- MODULE WireProofs -----------------------------
(***************************************************************************)
(* Theorems about WireIngress and TextEventCodec, for any limits, any      *)
(* number of messages and of fragments of a message, and any keys and      *)
(* positions, with delimiters in them or not.                              *)
(***************************************************************************)
EXTENDS WireIngress, SequenceTheorems, TLAPS

-----------------------------------------------------------------------------
(***************************************************************************)
(* The codec.  A line is the key's pieces, five pieces, and the            *)
(* position's.                                                             *)
(***************************************************************************)
LEMMA PieceOfKind ==
  ASSUME NEW p \in Pieces
  PROVE  /\ p.kind = "long" => p.value \in Int /\ p = LongPiece(p.value)
         /\ p.kind = "base64" => p.value \in Bytes /\ p = Base64Piece(p.value)
         /\ p.kind = "name" => p = NamePiece(p.value)
  BY DEF Pieces, LongPiece, Base64Piece, NamePiece

LEMMA PiecesMade ==
  /\ \A n \in Int : LongPiece(n) \in Pieces
  /\ \A b \in Bytes : Base64Piece(b) \in Pieces
  /\ \A w \in Word : WordPiece(w) \in Pieces
  /\ \A s \in SourceName : NamePiece(s) \in Pieces
  /\ Upsert \in Pieces /\ Time \in Pieces
<1>1. \A n \in Int : LongPiece(n) \in Pieces
  BY DEF Pieces, LongPiece
<1>2. \A b \in Bytes : Base64Piece(b) \in Pieces
  BY DEF Pieces, Base64Piece
<1>3. \A w \in Word : WordPiece(w) \in Pieces
  BY DEF Pieces, WordPiece
<1>4. \A s \in SourceName \cup {"UPSERT"} : NamePiece(s) \in Pieces
  BY DEF Pieces, NamePiece
<1>5. Upsert \in Pieces /\ Time \in Pieces
  BY <1>1, <1>4 DEF Upsert, Time
<1> QED
  BY <1>1, <1>2, <1>3, <1>4, <1>5

LEMMA PieceAt == \A s \in Seq(Pieces) : \A i \in 1 .. Len(s) : s[i] \in Pieces
  OBVIOUS

LEMMA Joined ==
  ASSUME NEW s \in Seq(Pieces), NEW t \in Seq(Pieces)
  PROVE  /\ s \o t \in Seq(Pieces) /\ Len(s \o t) = Len(s) + Len(t)
         /\ \A i \in 1 .. Len(s) : (s \o t)[i] = s[i]
         /\ \A j \in 1 .. Len(t) : (s \o t)[Len(s) + j] = t[j]
<1>1. /\ s \o t \in Seq(Pieces) /\ Len(s \o t) = Len(s) + Len(t)
      /\ \A i \in 1 .. Len(s) + Len(t) :
           (s \o t)[i] = IF i <= Len(s) THEN s[i] ELSE t[i - Len(s)]
      /\ Len(s) \in Nat /\ Len(t) \in Nat
  BY ConcatProperties
<1>2. \A j \in 1 .. Len(t) : /\ Len(s) + j \in 1 .. Len(s) + Len(t)
                              /\ ~(Len(s) + j <= Len(s)) /\ (Len(s) + j) - Len(s) = j
  BY <1>1
<1>3. \A i \in 1 .. Len(s) : i \in 1 .. Len(s) + Len(t) /\ i <= Len(s)
  BY <1>1
<1> QED
  BY <1>1, <1>2, <1>3

LEMMA WireEventTyped ==
  ASSUME NEW e \in WireEvent
  PROVE  /\ e.key \in Text /\ e.position \in Text
         /\ e.version \in Nat \ {0} /\ e.payload \in Bytes /\ e.source \in SourceName
         /\ Len(e.key) \in Nat /\ Len(e.key) >= 1
         /\ Len(e.position) \in Nat /\ Len(e.position) >= 1
         /\ e = [key |-> e.key, version |-> e.version, payload |-> e.payload,
                 source |-> e.source, position |-> e.position]
<1>1. /\ e \in [key: Text, version: Nat \ {0}, payload: Bytes,
                source: SourceName, position: Text]
      /\ e.key # <<>> /\ e.position # <<>>
  BY WireEventAssumption
<1>2. e.key \in Seq(Pieces) /\ e.position \in Seq(Pieces)
  BY <1>1 DEF Text
<1>3. /\ Len(e.key) \in Nat /\ Len(e.key) >= 1
      /\ Len(e.position) \in Nat /\ Len(e.position) >= 1
  BY <1>1, <1>2, EmptySeq
<1> QED
  BY <1>1, <1>3

\* The pieces of e's line, with k pieces of key and p of position.
LineOf(line, e, k, p) ==
  /\ line \in Seq(Pieces) /\ Len(line) = k + 5 + p
  /\ \A i \in 1 .. k : line[i] = e.key[i]
  /\ line[k + 1] = LongPiece(e.version) /\ line[k + 2] = Upsert
  /\ line[k + 3] = Base64Piece(e.payload) /\ line[k + 4] = Time
  /\ line[k + 5] = NamePiece(e.source)
  /\ \A j \in 1 .. p : line[k + 5 + j] = e.position[j]

LEMMA EncodedLine ==
  ASSUME NEW e \in WireEvent
  PROVE  LineOf(EncodeUpsertEvent(e), e, Len(e.key), Len(e.position))
<1>0. PICK line, k, p : line = EncodeUpsertEvent(e) /\ k = Len(e.key) /\ p = Len(e.position)
  OBVIOUS
<1> DEFINE two == <<LongPiece(e.version), Upsert>>
           one == <<Base64Piece(e.payload)>>
           pair == <<Time, NamePiece(e.source)>>
<1>1. /\ e.key \in Seq(Pieces) /\ e.position \in Seq(Pieces) /\ k \in Nat /\ p \in Nat
  BY <1>0, WireEventTyped DEF Text
<1>2. /\ two \in Seq(Pieces) /\ Len(two) = 2
      /\ two[1] = LongPiece(e.version) /\ two[2] = Upsert
      /\ one \in Seq(Pieces) /\ Len(one) = 1 /\ one[1] = Base64Piece(e.payload)
      /\ pair \in Seq(Pieces) /\ Len(pair) = 2
      /\ pair[1] = Time /\ pair[2] = NamePiece(e.source)
  BY WireEventTyped, PiecesMade
<1>3. line = (((e.key \o two) \o one) \o pair) \o e.position
  BY <1>0 DEF EncodeUpsertEvent, EncodedBytes
<1> HIDE DEF two, one, pair
<1>4. /\ e.key \o two \in Seq(Pieces) /\ Len(e.key \o two) = k + 2
      /\ \A i \in 1 .. k : (e.key \o two)[i] = e.key[i]
      /\ \A i \in 1 .. 2 : (e.key \o two)[k + i] = two[i]
  <2>1. /\ e.key \o two \in Seq(Pieces) /\ Len(e.key \o two) = Len(e.key) + Len(two)
        /\ \A i \in 1 .. Len(e.key) : (e.key \o two)[i] = e.key[i]
        /\ \A i \in 1 .. Len(two) : (e.key \o two)[Len(e.key) + i] = two[i]
    BY <1>1, <1>2, Joined
  <2> QED
    BY <1>0, <1>1, <1>2, <2>1
<1>5. PICK a \in Seq(Pieces) : a = e.key \o two
  BY <1>4
<1>6. /\ a \o one \in Seq(Pieces) /\ Len(a \o one) = k + 3
      /\ \A i \in 1 .. k + 2 : (a \o one)[i] = a[i]
      /\ \A i \in 1 .. 1 : (a \o one)[(k + 2) + i] = one[i]
  <2>1. Len(a) = k + 2 /\ k + 2 \in Nat /\ (k + 2) + 1 = k + 3
    BY <1>1, <1>4, <1>5
  <2>2. /\ a \o one \in Seq(Pieces) /\ Len(a \o one) = Len(a) + Len(one)
        /\ \A i \in 1 .. Len(a) : (a \o one)[i] = a[i]
        /\ \A i \in 1 .. Len(one) : (a \o one)[Len(a) + i] = one[i]
    BY <1>1, <1>2, Joined
  <2> QED
    BY <1>2, <2>1, <2>2
<1>7. PICK b \in Seq(Pieces) : b = a \o one
  BY <1>6
<1>8. /\ b \o pair \in Seq(Pieces) /\ Len(b \o pair) = k + 5
      /\ \A i \in 1 .. k + 3 : (b \o pair)[i] = b[i]
      /\ \A i \in 1 .. 2 : (b \o pair)[(k + 3) + i] = pair[i]
  <2>1. Len(b) = k + 3 /\ k + 3 \in Nat /\ (k + 3) + 2 = k + 5
    BY <1>1, <1>6, <1>7
  <2>2. /\ b \o pair \in Seq(Pieces) /\ Len(b \o pair) = Len(b) + Len(pair)
        /\ \A i \in 1 .. Len(b) : (b \o pair)[i] = b[i]
        /\ \A i \in 1 .. Len(pair) : (b \o pair)[Len(b) + i] = pair[i]
    BY <1>1, <1>2, Joined
  <2> QED
    BY <1>2, <2>1, <2>2
<1>9. PICK c \in Seq(Pieces) : c = b \o pair
  BY <1>8
<1>10. /\ line \in Seq(Pieces) /\ Len(line) = k + 5 + p
       /\ \A i \in 1 .. k + 5 : line[i] = c[i]
       /\ \A j \in 1 .. p : line[k + 5 + j] = e.position[j]
  <2>1. Len(c) = k + 5 /\ k + 5 \in Nat /\ line = c \o e.position
    BY <1>1, <1>3, <1>5, <1>7, <1>8, <1>9
  <2>2. /\ c \o e.position \in Seq(Pieces) /\ Len(c \o e.position) = Len(c) + Len(e.position)
        /\ \A i \in 1 .. Len(c) : (c \o e.position)[i] = c[i]
        /\ \A i \in 1 .. Len(e.position) : (c \o e.position)[Len(c) + i] = e.position[i]
    BY <1>1, <1>2, Joined
  <2>3. Len(e.position) = p
    BY <1>0
  <2> QED
    BY <1>1, <2>1, <2>2, <2>3
<1>11. /\ \A i \in 1 .. k : c[i] = e.key[i]
       /\ c[k + 1] = LongPiece(e.version) /\ c[k + 2] = Upsert
       /\ c[k + 3] = Base64Piece(e.payload)
       /\ c[k + 4] = Time /\ c[k + 5] = NamePiece(e.source)
  <2>1. /\ \A i \in 1 .. k : a[i] = e.key[i]
        /\ a[k + 1] = LongPiece(e.version) /\ a[k + 2] = Upsert
    <3>1. 1 \in 1 .. 2 /\ 2 \in 1 .. 2
      OBVIOUS
    <3> QED
      BY <1>2, <1>4, <1>5, <3>1
  <2>2. /\ \A i \in 1 .. k + 2 : b[i] = a[i]
        /\ b[k + 3] = Base64Piece(e.payload)
    <3>1. (k + 2) + 1 = k + 3 /\ 1 \in 1 .. 1
      BY <1>1
    <3> QED
      BY <1>2, <1>6, <1>7, <3>1
  <2>3. /\ \A i \in 1 .. k + 3 : c[i] = b[i]
        /\ c[k + 4] = Time /\ c[k + 5] = NamePiece(e.source)
    <3>1. (k + 3) + 1 = k + 4 /\ (k + 3) + 2 = k + 5 /\ 1 \in 1 .. 2 /\ 2 \in 1 .. 2
      BY <1>1
    <3> QED
      BY <1>2, <1>8, <1>9, <3>1
  <2>4. /\ \A i \in 1 .. k : i \in 1 .. k + 2 /\ i \in 1 .. k + 3
        /\ k + 1 \in 1 .. k + 2 /\ k + 2 \in 1 .. k + 2
        /\ k + 1 \in 1 .. k + 3 /\ k + 2 \in 1 .. k + 3 /\ k + 3 \in 1 .. k + 3
    BY <1>1
  <2> QED
    BY <2>1, <2>2, <2>3, <2>4
<1>12. /\ \A i \in 1 .. k : i \in 1 .. k + 5
       /\ k + 1 \in 1 .. k + 5 /\ k + 2 \in 1 .. k + 5 /\ k + 3 \in 1 .. k + 5
       /\ k + 4 \in 1 .. k + 5 /\ k + 5 \in 1 .. k + 5
  BY <1>1
<1> QED
  BY <1>0, <1>10, <1>11, <1>12 DEF LineOf

-----------------------------------------------------------------------------
(***************************************************************************)
(* Fragments.  A fragment is some pieces of a line in a row, with what a   *)
(* cut left of a piece in its first place, its last place or both.         *)
(***************************************************************************)
Remnant(piece) == \E w \in Remains \cup {Blank} : piece = WordPiece(w)

PartOf(s, line) ==
  \E n \in 0 .. Len(line) :
    /\ n + Len(s) <= Len(line)
    /\ \A m \in 1 .. Len(s) :
         s[m] = line[n + m] \/ ((m = 1 \/ m = Len(s)) /\ Remnant(s[m]))

\* What is left to send of a line: its last pieces.
RestOf(s, line) ==
  \E n \in 0 .. Len(line) :
    /\ n + Len(s) = Len(line)
    /\ \A m \in 1 .. Len(s) : s[m] = line[n + m] \/ (m = 1 /\ Remnant(s[m]))

LEMMA WholeIsRest ==
  ASSUME NEW line \in Text
  PROVE  RestOf(line, line)
<1>1. Len(line) \in Nat
  BY DEF Text
<1>2. /\ 0 \in 0 .. Len(line) /\ 0 + Len(line) = Len(line)
      /\ \A m \in 1 .. Len(line) : 0 + m = m
  BY <1>1
<1> QED
  BY <1>2 DEF RestOf

LEMMA RestIsPart ==
  ASSUME NEW line \in Text, NEW s \in Text, RestOf(s, line)
  PROVE  PartOf(s, line)
<1>1. PICK n \in 0 .. Len(line) :
        /\ n + Len(s) = Len(line)
        /\ \A m \in 1 .. Len(s) : s[m] = line[n + m] \/ (m = 1 /\ Remnant(s[m]))
  BY DEF RestOf
<1>2. n + Len(s) <= Len(line)
  <2>1. Len(line) \in Nat
    BY DEF Text
  <2> QED
    BY <1>1, <2>1
<1> QED
  BY <1>1, <1>2 DEF PartOf

\* What comes before and what comes after one element of a sequence.
LEMMA Before ==
  ASSUME NEW S, NEW s \in Seq(S), NEW i \in 1 .. Len(s)
  PROVE  /\ SubSeq(s, 1, i - 1) \in Seq(S)
         /\ Len(SubSeq(s, 1, i - 1)) = i - 1
         /\ \A j \in 1 .. i - 1 : SubSeq(s, 1, i - 1)[j] = s[j]
<1>1. PICK k \in Nat : k + 1 = i /\ k = i - 1 /\ k <= Len(s)
  <2>1. i \in Nat /\ i >= 1 /\ i <= Len(s) /\ Len(s) \in Nat
    OBVIOUS
  <2>2. i - 1 \in Nat /\ (i - 1) + 1 = i /\ i - 1 <= Len(s)
    BY <2>1
  <2> QED
    BY <2>2
<1>2. \A j \in 1 .. k : s[j] \in S
  BY <1>1
<1>3. /\ SubSeq(s, 1, k) \in Seq(S)
      /\ Len(SubSeq(s, 1, k)) = IF 1 <= k THEN k - 1 + 1 ELSE 0
      /\ \A j \in 1 .. k - 1 + 1 : SubSeq(s, 1, k)[j] = s[1 + j - 1]
  BY <1>2, SubSeqProperties
<1>4. PICK a : a = SubSeq(s, 1, k)
  OBVIOUS
<1>5. k - 1 + 1 = k /\ (~ 1 <= k => k = 0) /\ \A j \in 1 .. k : 1 + j - 1 = j
  OBVIOUS
<1>6. a \in Seq(S) /\ Len(a) = k /\ \A j \in 1 .. k : a[j] = s[j]
  BY <1>3, <1>4, <1>5
<1> QED
  BY <1>1, <1>4, <1>6

LEMMA After ==
  ASSUME NEW S, NEW s \in Seq(S), NEW i \in 1 .. Len(s),
         NEW d \in Nat, i + d = Len(s)
  PROVE  /\ SubSeq(s, i + 1, Len(s)) \in Seq(S)
         /\ Len(SubSeq(s, i + 1, Len(s))) = d
         /\ \A j \in 1 .. d : SubSeq(s, i + 1, Len(s))[j] = s[i + j]
<1>1. PICK l \in Nat, m \in Nat : l = Len(s) /\ m = i + 1
  OBVIOUS
<1>2. i \in Nat /\ i + d = l
  BY <1>1
<1>3. \A j \in m .. l : s[j] \in S
  BY <1>1
<1>4. /\ SubSeq(s, m, l) \in Seq(S)
      /\ Len(SubSeq(s, m, l)) = IF m <= l THEN l - m + 1 ELSE 0
      /\ \A j \in 1 .. l - m + 1 : SubSeq(s, m, l)[j] = s[m + j - 1]
  BY <1>3, SubSeqProperties
<1>5. PICK b : b = SubSeq(s, m, l)
  OBVIOUS
<1>6. l - m + 1 = d /\ (~ m <= l => d = 0) /\ \A j \in 1 .. d : m + j - 1 = i + j
  BY <1>1, <1>2
<1>7. b \in Seq(S) /\ Len(b) = d /\ \A j \in 1 .. d : b[j] = s[i + j]
  BY <1>4, <1>5, <1>6
<1> QED
  BY <1>1, <1>5, <1>7

\* An index beyond the first is one more than another.
LEMMA OneLess ==
  ASSUME NEW d \in Nat, NEW m \in 2 .. 1 + d
  PROVE  \E j \in 1 .. d : m = 1 + j
<1>1. m - 1 \in 1 .. d /\ m = 1 + (m - 1)
  OBVIOUS
<1> QED
  BY <1>1

\* What a cut leaves of a piece is the piece itself or a word.
LEMMA HalvesTyped ==
  ASSUME NEW piece \in Pieces, NEW halves \in Halves(piece)
  PROVE  /\ halves[1] \in Pieces /\ (halves[1] = piece \/ Remnant(halves[1]))
         /\ halves[2] \in Pieces /\ (halves[2] = piece \/ Remnant(halves[2]))
<1>1. \A w \in Remains \cup {Blank} : WordPiece(w) \in Pieces /\ Remnant(WordPiece(w))
  BY PiecesMade, WireAssumption, WordAssumption DEF Remnant
<1>2. Nothing \in Pieces /\ Remnant(Nothing)
  BY <1>1 DEF Nothing
<1>3. \/ halves = <<Nothing, piece>>
      \/ halves = <<piece, Nothing>>
      \/ \E v, w \in Remains : halves = <<WordPiece(v), WordPiece(w)>>
  BY DEF Halves
<1>4. CASE halves = <<Nothing, piece>>
  BY <1>2, <1>4
<1>5. CASE halves = <<piece, Nothing>>
  BY <1>2, <1>5
<1>6. CASE \E v, w \in Remains : halves = <<WordPiece(v), WordPiece(w)>>
  <2>1. PICK v \in Remains, w \in Remains : halves = <<WordPiece(v), WordPiece(w)>>
    BY <1>6
  <2>2. halves[1] = WordPiece(v) /\ halves[2] = WordPiece(w)
    BY <2>1
  <2> QED
    BY <1>1, <2>2
<1> QED
  BY <1>3, <1>4, <1>5, <1>6

\* Cutting what is left to send gives a part and what is then left to send.
LEMMA CutRest ==
  ASSUME NEW line \in Text, NEW s \in Text, RestOf(s, line),
         NEW i \in DOMAIN s, NEW halves \in Halves(s[i]),
         NEW fragment, fragment = SubSeq(s, 1, i - 1) \o <<halves[1]>>,
         NEW rest, rest = <<halves[2]>> \o SubSeq(s, i + 1, Len(s))
  PROVE  /\ fragment \in Text /\ PartOf(fragment, line)
         /\ rest \in Text /\ RestOf(rest, line)
<1>1. PICK l \in Nat, len \in Nat, d \in Nat : l = Len(s) /\ len = Len(line) /\ i + d = l
  <2>1. Len(s) \in Nat /\ Len(line) \in Nat /\ i \in 1 .. Len(s)
    BY DEF Text
  <2>2. Len(s) - i \in Nat /\ i + (Len(s) - i) = Len(s)
    BY <2>1
  <2> QED
    BY <2>1, <2>2
<1>2. /\ s \in Seq(Pieces) /\ Len(s) \in Nat /\ i \in 1 .. Len(s)
      /\ i \in Nat /\ i >= 1 /\ i <= l /\ i + d = l
  <2>1. s \in Seq(Pieces) /\ Len(s) \in Nat /\ i \in 1 .. Len(s)
    BY DEF Text
  <2> QED
    BY <1>1, <2>1
<1>3. PICK n \in Nat :
        /\ n + l = len
        /\ \A m \in 1 .. l : s[m] = line[n + m] \/ (m = 1 /\ Remnant(s[m]))
  BY <1>1, SMTT(30) DEF RestOf
<1>4. i \in Nat /\ i >= 1 /\ i <= l /\ d \in Nat /\ i + d = l /\ n \in Nat /\ n + l = len
  BY <1>1, <1>2, <1>3
<1>5. PICK left \in Pieces, right \in Pieces :
        /\ left = halves[1] /\ (left = s[i] \/ Remnant(left))
        /\ right = halves[2] /\ (right = s[i] \/ Remnant(right))
  <2>1. PICK piece \in Pieces : piece = s[i]
    BY <1>1, <1>2, PieceAt
  <2>2. halves \in Halves(piece)
    BY <2>1
  <2>3. /\ halves[1] \in Pieces /\ (halves[1] = piece \/ Remnant(halves[1]))
        /\ halves[2] \in Pieces /\ (halves[2] = piece \/ Remnant(halves[2]))
    BY <2>2, HalvesTyped
  <2> QED
    BY <2>1, <2>3
<1>6. PICK a : a = SubSeq(s, 1, i - 1)
  OBVIOUS
<1>7. /\ a \in Seq(Pieces) /\ Len(a) = i - 1
      /\ \A j \in 1 .. i - 1 : a[j] = s[j]
  <2>1. s \in Seq(Pieces) /\ i \in 1 .. Len(s)
    BY <1>2
  <2> QED
    BY <1>6, <2>1, Before
<1>8. PICK b : b = SubSeq(s, i + 1, Len(s))
  OBVIOUS
<1>9. /\ b \in Seq(Pieces) /\ Len(b) = d
      /\ \A j \in 1 .. d : b[j] = s[i + j]
  <2>1. s \in Seq(Pieces) /\ i \in 1 .. Len(s) /\ d \in Nat /\ i + d = Len(s)
    BY <1>1, <1>2, <1>4
  <2> QED
    BY <1>8, <2>1, After
<1>10. PICK lone, front : lone = <<left>> /\ front = <<right>>
  OBVIOUS
<1>11. /\ Len(lone) = 1 /\ lone[1] = left /\ lone \in Seq(Pieces)
       /\ Len(front) = 1 /\ front[1] = right /\ front \in Seq(Pieces)
  BY <1>5, <1>10
<1>12. /\ fragment \in Seq(Pieces) /\ Len(fragment) = i
       /\ \A j \in 1 .. i - 1 : fragment[j] = s[j]
       /\ fragment[i] = left
  <2>1. fragment = a \o lone
    BY <1>5, <1>6, <1>10
  <2>2. /\ a \o lone \in Seq(Pieces) /\ Len(a \o lone) = Len(a) + Len(lone)
        /\ \A j \in 1 .. Len(a) : (a \o lone)[j] = a[j]
        /\ \A j \in 1 .. Len(lone) : (a \o lone)[Len(a) + j] = lone[j]
    BY <1>7, <1>11, Joined
  <2>3. /\ fragment \in Seq(Pieces) /\ Len(fragment) = (i - 1) + 1
        /\ \A j \in 1 .. i - 1 : fragment[j] = a[j]
        /\ \A j \in 1 .. 1 : fragment[(i - 1) + j] = lone[j]
    BY <1>7, <1>11, <2>1, <2>2
  <2>4. (i - 1) + 1 = i /\ 1 \in 1 .. 1
    BY <1>2
  <2> QED
    BY <1>7, <1>11, <2>3, <2>4
<1>13. /\ rest \in Seq(Pieces) /\ Len(rest) = 1 + d
       /\ rest[1] = right
       /\ \A j \in 1 .. d : rest[1 + j] = s[i + j]
  <2>1. rest = front \o b
    BY <1>5, <1>8, <1>10
  <2>2. /\ front \o b \in Seq(Pieces) /\ Len(front \o b) = Len(front) + Len(b)
        /\ \A j \in 1 .. Len(front) : (front \o b)[j] = front[j]
        /\ \A j \in 1 .. Len(b) : (front \o b)[Len(front) + j] = b[j]
    BY <1>9, <1>11, Joined
  <2>3. /\ rest \in Seq(Pieces) /\ Len(rest) = 1 + d
        /\ \A j \in 1 .. 1 : rest[j] = front[j]
        /\ \A j \in 1 .. d : rest[1 + j] = b[j]
    BY <1>9, <1>11, <2>1, <2>2
  <2>4. rest[1] = front[1]
    BY <2>3
  <2> QED
    BY <1>9, <1>4, <1>11, <2>3, <2>4
<1>14. PartOf(fragment, line)
  <2>1. n + i <= len
    BY <1>4
  <2>2. ASSUME NEW m \in 1 .. i
        PROVE  \/ fragment[m] = line[n + m]
               \/ (m = 1 \/ m = i) /\ Remnant(fragment[m])
    <3>1. m \in 1 .. l /\ (m \in 1 .. i - 1 \/ m = i)
      BY <1>4
    <3>2. s[m] = line[n + m] \/ (m = 1 /\ Remnant(s[m]))
      BY <1>3, <3>1
    <3>3. CASE m \in 1 .. i - 1
      BY <1>12, <3>2, <3>3
    <3>4. CASE m = i
      BY <1>5, <1>12, <3>2, <3>4
    <3> QED
      BY <3>1, <3>3, <3>4
  <2>3. n \in 0 .. len
    BY <1>4
  <2>4. Len(fragment) = i /\ Len(line) = len
    BY <1>1, <1>12
  <2> QED
    BY <2>1, <2>2, <2>3, <2>4 DEF PartOf
<1>15. RestOf(rest, line)
  <2>1. PICK q \in Nat : q + 1 = n + i
    <3>1. n \in Nat /\ i \in Nat /\ i >= 1
      BY <1>4
    <3>2. PICK j \in Nat : j + 1 = i
      <4>1. i - 1 \in Nat /\ (i - 1) + 1 = i
        BY <3>1
      <4> QED
        BY <4>1
    <3>3. n + j \in Nat /\ (n + j) + 1 = n + i
      BY <3>1, <3>2
    <3> QED
      BY <3>3
  <2>2. q + (1 + d) = len /\ q \in 0 .. len
    BY <1>4, <2>1, SMTT(30)
  <2>3. rest[1] = line[q + 1] \/ Remnant(rest[1])
    <3>1. n + i = q + 1 /\ i \in 1 .. l
      BY <1>4, <2>1
    <3>2. s[i] = line[n + i] \/ Remnant(s[i])
      BY <1>3, <3>1
    <3> QED
      BY <1>5, <1>13, <3>1, <3>2
  <2>4. ASSUME NEW m \in 2 .. 1 + d
        PROVE  rest[m] = line[q + m]
    <3>1. PICK j \in 1 .. d : m = 1 + j
      BY <1>4, OneLess
    <3>2. i + j \in 1 .. l /\ i + j # 1 /\ n + (i + j) = q + m
      <4>1. j \in Nat /\ j >= 1 /\ j <= d
        BY <1>4, <3>1
      <4>2. i \in Nat /\ i >= 1 /\ d \in Nat /\ i + d = l
        BY <1>4
      <4>3. i + j >= 1 /\ i + j # 1 /\ i + j \in Nat
        BY <4>1, <4>2, SMTT(30)
      <4>4. i + j <= l
        BY <4>1, <4>2
      <4>5. q + m = (q + 1) + j
        BY <2>1, <3>1, <4>1
      <4>6. (n + i) + j = n + (i + j)
        BY <4>1, <4>2
      <4> QED
        BY <2>1, <4>3, <4>4, <4>5, <4>6, SMTT(30)
    <3> QED
      BY <1>3, <1>13, <3>1, <3>2
  <2>5. \A m \in 1 .. 1 + d : m = 1 \/ m \in 2 .. 1 + d
    BY <1>4
  <2>6. Len(rest) = 1 + d /\ Len(line) = len
    BY <1>1, <1>13
  <2>7. q \in 0 .. Len(line) /\ q + Len(rest) = Len(line)
    BY <2>2, <2>6
  <2>8. \A m \in 1 .. Len(rest) : rest[m] = line[q + m] \/ (m = 1 /\ Remnant(rest[m]))
    BY <2>3, <2>4, <2>5, <2>6
  <2> QED
    BY <2>7, <2>8 DEF RestOf
<1> QED
  BY <1>12, <1>13, <1>14, <1>15 DEF Text

-----------------------------------------------------------------------------
(***************************************************************************)
(* What decodes, and what it decodes to.                                   *)
(***************************************************************************)
LEMMA Fields ==
  ASSUME NEW line \in Text, DecodesAsEvent(line),
         NEW e, e = DecodeUpsertEvent(line)
  PROVE  /\ e \in Receivable /\ Len(line) = 7
         /\ e.key = <<line[1]>> /\ e.position = <<line[7]>>
         /\ line[2] = LongPiece(e.version) /\ line[3] = Upsert
         /\ line[4] = Base64Piece(e.payload) /\ line[5].kind = "long"
         /\ line[6] = NamePiece(e.source)
<1>1. Len(line) = 7 /\ \A i \in 1 .. 7 : line[i] \in Pieces
  <2>1. Len(line) = 7
    BY DEF DecodesAsEvent
  <2> QED
    BY <2>1, PieceAt DEF Text
<1>2. /\ line[1] \in Pieces /\ line[2] \in Pieces /\ line[4] \in Pieces
      /\ line[6] \in Pieces /\ line[7] \in Pieces
  BY <1>1
<1>3. /\ line[2].value \in Nat \ {0} /\ line[2] = LongPiece(line[2].value)
      /\ line[4].value \in Bytes /\ line[4] = Base64Piece(line[4].value)
      /\ line[6].value \in SourceName /\ line[6] = NamePiece(line[6].value)
      /\ line[3] = Upsert /\ line[5].kind = "long"
  BY <1>2, PieceOfKind DEF DecodesAsEvent
<1>4. <<line[1]>> \in OnePiece /\ <<line[7]>> \in OnePiece
  BY <1>2 DEF OnePiece, Text
<1> QED
  BY <1>1, <1>3, <1>4 DEF DecodeUpsertEvent, Receivable

LEMMA SameFields ==
  ASSUME NEW m, NEW n, NEW b, NEW c, NEW q, NEW r,
         LongPiece(m) = LongPiece(n), Base64Piece(b) = Base64Piece(c),
         NamePiece(q) = NamePiece(r)
  PROVE  m = n /\ b = c /\ q = r
  BY DEF LongPiece, Base64Piece, NamePiece

LEMMA Kinds ==
  /\ \A n \in Nat \ {0} :
       /\ LongPiece(n) # Upsert /\ LongPiece(n) # Time
       /\ \A b : LongPiece(n) # Base64Piece(b)
       /\ \A r : LongPiece(n) # NamePiece(r)
  /\ \A r \in SourceName : NamePiece(r) # Upsert
<1>1. \A n : LongPiece(n).kind = "long" /\ LongPiece(n).value = n
  BY DEF LongPiece
<1>2. \A b, r : Base64Piece(b).kind = "base64" /\ NamePiece(r).kind = "name"
  BY DEF Base64Piece, NamePiece
<1>3. \A n, b, r : LongPiece(n) # Base64Piece(b) /\ LongPiece(n) # NamePiece(r)
  BY <1>1, <1>2
<1>4. \A r \in SourceName : NamePiece(r) # Upsert
  BY DEF NamePiece, Upsert, SourceName
<1> QED
  BY <1>1, <1>3, <1>4 DEF Upsert, Time

LEMMA OneLong ==
  ASSUME NEW s \in Seq(Pieces), Len(s) = 1
  PROVE  s = <<s[1]>>
  OBVIOUS

\* A whole line of seven pieces decodes to what it was made from.
LEMMA WholeDecodes ==
  ASSUME NEW f \in WireEvent, NEW line, line = EncodeUpsertEvent(f), DecodesAsEvent(line)
  PROVE  DecodeUpsertEvent(line) = f
<1>1. LineOf(line, f, Len(f.key), Len(f.position))
  BY EncodedLine
<1>2. PICK k, p : k = Len(f.key) /\ p = Len(f.position)
  OBVIOUS
<1>3. k \in Nat /\ k >= 1 /\ p \in Nat /\ p >= 1
  BY <1>2, WireEventTyped
<1>4. k = 1 /\ p = 1
  <2>1. line \in Seq(Pieces) /\ Len(line) = k + 5 + p
    BY <1>1, <1>2 DEF LineOf
  <2>2. PICK l \in Nat : l = Len(line)
    BY <2>1
  <2>3. l = k + 5 + p /\ l = 7
    BY <2>1, <2>2 DEF DecodesAsEvent
  <2> QED
    BY <1>3, <2>3
<1>5. /\ line[1] = f.key[1] /\ line[2] = LongPiece(f.version)
      /\ line[4] = Base64Piece(f.payload) /\ line[6] = NamePiece(f.source)
      /\ line[7] = f.position[1]
  BY <1>1, <1>2, <1>4 DEF LineOf
<1>6. f.key = <<f.key[1]>> /\ f.position = <<f.position[1]>>
  BY <1>2, <1>4, OneLong, WireEventTyped DEF Text
<1>7. PICK e : e = DecodeUpsertEvent(line)
  OBVIOUS
<1>8. /\ e.key = <<line[1]>> /\ e.position = <<line[7]>> /\ e.version = f.version
      /\ e.payload = f.payload /\ e.source = f.source
  <2>1. line \in Text
    BY <1>1 DEF LineOf, Text
  <2>2. /\ e.key = <<line[1]>> /\ e.position = <<line[7]>>
        /\ line[2] = LongPiece(e.version) /\ line[4] = Base64Piece(e.payload)
        /\ line[6] = NamePiece(e.source)
    BY <1>7, <2>1, Fields
  <2>3. /\ LongPiece(e.version) = LongPiece(f.version)
        /\ Base64Piece(e.payload) = Base64Piece(f.payload)
        /\ NamePiece(e.source) = NamePiece(f.source)
    BY <1>5, <2>2
  <2>4. e.version = f.version /\ e.payload = f.payload /\ e.source = f.source
    BY <2>3, SameFields
  <2> QED
    BY <2>2, <2>4
<1>9. e = [key |-> e.key, version |-> e.version, payload |-> e.payload,
          source |-> e.source, position |-> e.position]
  BY <1>7 DEF DecodeUpsertEvent
<1> QED
  BY <1>5, <1>6, <1>7, <1>8, <1>9, WireEventTyped

\* e is what the seven pieces of line after the first n say, its key and its
\* position cut short or not.
ReadAt(e, line, n) ==
  /\ n + 7 <= Len(line)
  /\ e.key = <<line[n + 1]>> \/ CutShort(e.key)
  /\ line[n + 2] = LongPiece(e.version) /\ line[n + 3] = Upsert
  /\ line[n + 4] = Base64Piece(e.payload) /\ line[n + 5].kind = "long"
  /\ line[n + 6] = NamePiece(e.source)
  /\ e.position = <<line[n + 7]>> \/ CutShort(e.position)

LEMMA PartFields ==
  ASSUME NEW line \in Text, NEW s \in Text, PartOf(s, line), DecodesAsEvent(s)
  PROVE  \E n \in Nat : ReadAt(DecodeUpsertEvent(s), line, n)
<1>0. PICK e : e = DecodeUpsertEvent(s)
  OBVIOUS
<1>1. /\ e \in Receivable /\ Len(s) = 7
      /\ e.key = <<s[1]>> /\ e.position = <<s[7]>>
      /\ s[2] = LongPiece(e.version) /\ s[3] = Upsert
      /\ s[4] = Base64Piece(e.payload) /\ s[5].kind = "long"
      /\ s[6] = NamePiece(e.source)
  BY <1>0, Fields
<1>2. PICK n \in 0 .. Len(line) :
        /\ n + 7 <= Len(line)
        /\ \A m \in 1 .. 7 : s[m] = line[n + m] \/ ((m = 1 \/ m = 7) /\ Remnant(s[m]))
  BY <1>1 DEF PartOf
<1>3. /\ s[2] = line[n + 2] /\ s[3] = line[n + 3] /\ s[4] = line[n + 4]
      /\ s[5] = line[n + 5] /\ s[6] = line[n + 6]
      /\ s[1] = line[n + 1] \/ Remnant(s[1])
      /\ s[7] = line[n + 7] \/ Remnant(s[7])
  BY <1>2
<1>4. \A piece : Remnant(piece) => CutShort(<<piece>>)
  BY DEF Remnant, CutShort
<1>5. ReadAt(e, line, n)
  BY <1>1, <1>2, <1>3, <1>4 DEF ReadAt
<1> QED
  BY <1>0, <1>5

\* A part of a line that decodes is what the line spells.
LEMMA PartSpells ==
  ASSUME NEW line \in Text, NEW s \in Text, PartOf(s, line), DecodesAsEvent(s)
  PROVE  SpelledIn(DecodeUpsertEvent(s), line)
<1>1. PICK e : e = DecodeUpsertEvent(s)
  OBVIOUS
<1>2. PICK n \in Nat : ReadAt(e, line, n)
  BY <1>1, PartFields
<1>3. /\ n + 2 \in DOMAIN line /\ (n + 2) + 4 \in DOMAIN line
      /\ (n + 2) + 1 = n + 3 /\ (n + 2) + 2 = n + 4
      /\ (n + 2) + 3 = n + 5 /\ (n + 2) + 4 = n + 6
  <2>1. DOMAIN line = 1 .. Len(line) /\ Len(line) \in Nat
    BY DEF Text
  <2> QED
    BY <1>2, <2>1 DEF ReadAt
<1> QED
  BY <1>1, <1>2, <1>3 DEF SpelledIn, ReadAt

\* A part of an event's line that decodes holds the five fields between key and
\* position, or lies in a key or a position that spells an event.
LEMMA PartDecodes ==
  ASSUME NEW f \in WireEvent, NEW s \in Text, PartOf(s, EncodeUpsertEvent(f)),
         DecodesAsEvent(s), NEW e, e = DecodeUpsertEvent(s)
  PROVE  CutFrom(e, f) \/ SpelledIn(e, f.key) \/ SpelledIn(e, f.position)
<1>1. PICK line, k, p :
        line = EncodeUpsertEvent(f) /\ k = Len(f.key) /\ p = Len(f.position)
  OBVIOUS
<1>2. /\ line \in Text /\ Len(line) = k + 5 + p
      /\ \A i \in 1 .. k : line[i] = f.key[i]
      /\ line[k + 1] = LongPiece(f.version) /\ line[k + 2] = Upsert
      /\ line[k + 3] = Base64Piece(f.payload) /\ line[k + 4] = Time
      /\ line[k + 5] = NamePiece(f.source)
      /\ \A j \in 1 .. p : line[k + 5 + j] = f.position[j]
  <2>1. LineOf(line, f, k, p)
    BY <1>1, EncodedLine
  <2> QED
    BY <2>1 DEF LineOf, Text
<1>3. k \in Nat /\ k >= 1 /\ p \in Nat /\ p >= 1
  BY <1>1, WireEventTyped
<1>4. PICK n \in Nat :
        /\ n + 7 <= Len(line)
        /\ e.key = <<line[n + 1]>> \/ CutShort(e.key)
        /\ line[n + 2] = LongPiece(e.version) /\ line[n + 3] = Upsert
        /\ line[n + 4] = Base64Piece(e.payload) /\ line[n + 5].kind = "long"
        /\ line[n + 6] = NamePiece(e.source)
        /\ e.position = <<line[n + 7]>> \/ CutShort(e.position)
  <2>1. PICK n \in Nat : ReadAt(e, line, n)
    BY <1>1, <1>2, PartFields
  <2> QED
    BY <2>1 DEF ReadAt
<1>5. n + 2 <= k + p
  <2>1. PICK l \in Nat : l = Len(line)
    BY <1>2 DEF Text
  <2>2. n + 7 <= l /\ l = k + 5 + p
    BY <1>2, <1>4, <2>1
  <2> QED
    BY <1>3, <2>2
<1>6. e.version \in Nat \ {0} /\ e.source \in SourceName
  BY Fields DEF Receivable
<1>7. f.version \in Nat \ {0}
  BY WireEventTyped
<1>8. CASE n + 1 = k
  <2>1. /\ n + 1 \in 1 .. k /\ n + 2 = k + 1 /\ n + 4 = k + 3 /\ n + 6 = k + 5
        /\ n + 7 = k + 5 + 1 /\ 1 \in 1 .. p
    BY <1>3, <1>8
  <2>2. /\ line[n + 1] = f.key[k] /\ line[n + 2] = LongPiece(f.version)
        /\ line[n + 4] = Base64Piece(f.payload) /\ line[n + 6] = NamePiece(f.source)
        /\ line[n + 7] = f.position[1]
    BY <1>2, <1>8, <2>1
  <2>3. e.version = f.version /\ e.payload = f.payload /\ e.source = f.source
    <3>1. /\ LongPiece(e.version) = LongPiece(f.version)
          /\ Base64Piece(e.payload) = Base64Piece(f.payload)
          /\ NamePiece(e.source) = NamePiece(f.source)
      BY <1>4, <2>2
    <3> QED
      BY <3>1, SameFields
  <2> QED
    BY <1>1, <1>4, <2>2, <2>3 DEF CutFrom
<1>9. CASE n + 6 <= k
  <2>1. PICK j \in Nat : j = n + 2
    BY <1>4
  <2>2. /\ j \in 1 .. k /\ j + 1 \in 1 .. k /\ j + 2 \in 1 .. k /\ j + 3 \in 1 .. k
        /\ j + 4 \in 1 .. k
        /\ j + 1 = n + 3 /\ j + 2 = n + 4 /\ j + 3 = n + 5 /\ j + 4 = n + 6
    BY <1>3, <1>9, <2>1
  <2>3. /\ f.key[j] = line[n + 2] /\ f.key[j + 1] = line[n + 3]
        /\ f.key[j + 2] = line[n + 4] /\ f.key[j + 3] = line[n + 5]
        /\ f.key[j + 4] = line[n + 6]
    BY <1>2, <2>1, <2>2
  <2>4. DOMAIN f.key = 1 .. k
    BY <1>1, WireEventTyped DEF Text
  <2> QED
    BY <1>4, <2>2, <2>3, <2>4 DEF SpelledIn
<1>10. CASE n + 2 > k + 5
  <2>1. PICK j \in Nat : n + 2 = k + 5 + j
    <3>1. (n + 2) - (k + 5) \in Nat /\ n + 2 = k + 5 + ((n + 2) - (k + 5))
      BY <1>3, <1>10
    <3> QED
      BY <3>1
  <2>2. /\ j \in 1 .. p /\ j + 1 \in 1 .. p /\ j + 2 \in 1 .. p /\ j + 3 \in 1 .. p
        /\ j + 4 \in 1 .. p
        /\ k + 5 + (j + 1) = n + 3 /\ k + 5 + (j + 2) = n + 4
        /\ k + 5 + (j + 3) = n + 5 /\ k + 5 + (j + 4) = n + 6
    BY <1>3, <1>5, <1>10, <2>1
  <2>3. /\ f.position[j] = line[n + 2] /\ f.position[j + 1] = line[n + 3]
        /\ f.position[j + 2] = line[n + 4] /\ f.position[j + 3] = line[n + 5]
        /\ f.position[j + 4] = line[n + 6]
    BY <1>2, <2>1, <2>2
  <2>4. DOMAIN f.position = 1 .. p
    BY <1>1, WireEventTyped DEF Text
  <2> QED
    BY <1>4, <2>2, <2>3, <2>4 DEF SpelledIn
<1>11. CASE k \in n + 2 .. n + 5
  <2>1. \/ k + 1 = n + 3 \/ k + 1 = n + 4 \/ k + 2 = n + 6 \/ k + 1 = n + 6
    BY <1>3, <1>11
  <2>2. \/ line[n + 3] = LongPiece(f.version) \/ line[n + 4] = LongPiece(f.version)
        \/ line[n + 6] = Upsert \/ line[n + 6] = LongPiece(f.version)
    BY <1>2, <2>1
  <2>3. /\ LongPiece(f.version) # Upsert
        /\ LongPiece(f.version) # Base64Piece(e.payload)
        /\ LongPiece(f.version) # NamePiece(e.source)
        /\ NamePiece(e.source) # Upsert
    BY <1>6, <1>7, Kinds
  <2> QED
    BY <1>4, <2>2, <2>3
<1>12. CASE n \in k .. k + 3
  <2>1. n + 2 = k + 2 \/ n + 2 = k + 3 \/ n + 2 = k + 4 \/ n + 2 = k + 5
    BY <1>3, <1>12
  <2>2. \/ line[n + 2] = Upsert \/ line[n + 2] = Base64Piece(f.payload)
        \/ line[n + 2] = Time \/ line[n + 2] = NamePiece(f.source)
    BY <1>2, <2>1
  <2>3. /\ LongPiece(e.version) # Upsert /\ LongPiece(e.version) # Time
        /\ LongPiece(e.version) # Base64Piece(f.payload)
        /\ LongPiece(e.version) # NamePiece(f.source)
    BY <1>6, Kinds
  <2> QED
    BY <1>4, <2>2, <2>3
<1>13. \/ n + 1 = k \/ n + 6 <= k \/ n + 2 > k + 5
       \/ k \in n + 2 .. n + 5 \/ n \in k .. k + 3
  BY <1>3
<1> QED
  BY <1>8, <1>9, <1>10, <1>11, <1>12, <1>13

-----------------------------------------------------------------------------
(***************************************************************************)
(* The inductive invariant: every fragment in the stream is a foreign line *)
(* or an event's, or a part of one that is sent in several fragments, what *)
(* is left to send is the rest of one, and every event received was        *)
(* decoded from a fragment.                                                *)
(***************************************************************************)
CutLines == foreignCut \cup {EncodeUpsertEvent(f) : f \in sentCut}

Known(s) ==
  \/ s \in Garbage
  \/ \E e \in sentWhole : s = EncodeUpsertEvent(e)
  \/ \E line \in CutLines : PartOf(s, line)

UnsentKnown == unsent = <<>> \/ \E line \in CutLines : RestOf(unsent, line)

StreamKnown == \A i \in DOMAIN stream : Known(stream[i])

Genuine(events) ==
  /\ events \in Seq(Receivable)
  /\ \A i \in DOMAIN events : WasSent(events[i])

WireInv ==
  WireTypeOK /\ StreamKnown /\ UnsentKnown /\ Genuine(batch) /\ Genuine(handed)

LEMMA EncodedText == \A e \in WireEvent : EncodeUpsertEvent(e) \in Text
<1> SUFFICES ASSUME NEW e \in WireEvent PROVE EncodeUpsertEvent(e) \in Text
  OBVIOUS
<1>1. LineOf(EncodeUpsertEvent(e), e, Len(e.key), Len(e.position))
  BY EncodedLine
<1> QED
  BY <1>1 DEF LineOf, Text

LEMMA KnownDecodes ==
  ASSUME sentWhole \subseteq WireEvent, sentCut \subseteq WireEvent,
         foreignCut \subseteq Garbage,
         NEW s \in Text, Known(s), DecodesAsEvent(s)
  PROVE  DecodeUpsertEvent(s) \in Receivable /\ WasSent(DecodeUpsertEvent(s))
<1>1. DecodeUpsertEvent(s) \in Receivable
  BY Fields
<1>2. ~(s \in Garbage)
  BY WireAssumption
<1>3. ASSUME NEW e \in sentWhole, s = EncodeUpsertEvent(e)
      PROVE  WasSent(DecodeUpsertEvent(s))
  <2>1. DecodeUpsertEvent(s) = e
    BY <1>3, WholeDecodes
  <2> QED
    BY <2>1 DEF WasSent
<1>4. ASSUME NEW f \in sentCut, PartOf(s, EncodeUpsertEvent(f))
      PROVE  WasSent(DecodeUpsertEvent(s))
  <2>1. PICK e : e = DecodeUpsertEvent(s)
    OBVIOUS
  <2>2. CutFrom(e, f) \/ SpelledIn(e, f.key) \/ SpelledIn(e, f.position)
    BY <1>4, <2>1, PartDecodes
  <2> QED
    BY <2>1, <2>2 DEF WasSent
<1>5. ASSUME NEW g \in foreignCut, PartOf(s, g)
      PROVE  WasSent(DecodeUpsertEvent(s))
  <2>1. g \in Text
    BY WireAssumption
  <2>2. SpelledIn(DecodeUpsertEvent(s), g)
    BY <1>5, <2>1, PartSpells
  <2> QED
    BY <2>2 DEF WasSent
<1> QED
  BY <1>1, <1>2, <1>3, <1>4, <1>5 DEF Known, CutLines

\* What was sent stays sent.
LEMMA MoreSent ==
  ASSUME sentWhole \subseteq sentWhole', sentCut \subseteq sentCut',
         foreignCut \subseteq foreignCut'
  PROVE  /\ \A line \in CutLines : line \in CutLines'
         /\ \A s : Known(s) => Known(s)'
         /\ \A e : WasSent(e) => WasSent(e)'
<1>1. ASSUME NEW line \in CutLines
      PROVE  line \in CutLines'
  BY <1>1 DEF CutLines
<1>2. ASSUME NEW s, Known(s)
      PROVE  Known(s)'
  BY <1>1, <1>2 DEF Known
<1>3. ASSUME NEW e, WasSent(e)
      PROVE  WasSent(e)'
  BY <1>3 DEF WasSent
<1> QED
  BY <1>1, <1>2, <1>3

LEMMA Appended ==
  ASSUME NEW S, NEW s \in Seq(S), NEW more \in Seq(S)
  PROVE  /\ s \o more \in Seq(S) /\ Len(s \o more) = Len(s) + Len(more)
         /\ \A i \in DOMAIN (s \o more) :
              \/ i \in DOMAIN s /\ (s \o more)[i] = s[i]
              \/ \E j \in DOMAIN more : (s \o more)[i] = more[j]
<1>1. /\ s \o more \in Seq(S) /\ Len(s \o more) = Len(s) + Len(more)
      /\ \A i \in 1 .. Len(s) + Len(more) :
           (s \o more)[i] = IF i <= Len(s) THEN s[i] ELSE more[i - Len(s)]
  BY ConcatProperties
<1>2. Len(s) \in Nat /\ Len(more) \in Nat
  OBVIOUS
<1>3. ASSUME NEW i \in DOMAIN (s \o more)
      PROVE  \/ i \in DOMAIN s /\ (s \o more)[i] = s[i]
             \/ \E j \in DOMAIN more : (s \o more)[i] = more[j]
  <2>1. i \in 1 .. Len(s) + Len(more)
    BY <1>1
  <2>2. CASE i <= Len(s)
    BY <1>1, <1>2, <2>1, <2>2
  <2>3. CASE ~(i <= Len(s))
    <3>1. i - Len(s) \in DOMAIN more /\ (s \o more)[i] = more[i - Len(s)]
      BY <1>1, <1>2, <2>1, <2>3
    <3> QED
      BY <3>1
  <2> QED
    BY <2>2, <2>3
<1> QED
  BY <1>1, <1>3

LEMMA GenuineTogether ==
  ASSUME NEW s, NEW more, Genuine(s), Genuine(more)
  PROVE  Genuine(s \o more)
<1>1. s \in Seq(Receivable) /\ more \in Seq(Receivable)
  BY DEF Genuine
<1>2. /\ s \o more \in Seq(Receivable)
      /\ \A i \in DOMAIN (s \o more) :
           \/ i \in DOMAIN s /\ (s \o more)[i] = s[i]
           \/ \E j \in DOMAIN more : (s \o more)[i] = more[j]
  BY <1>1, Appended
<1>3. ASSUME NEW i \in DOMAIN (s \o more)
      PROVE  WasSent((s \o more)[i])
  BY <1>2 DEF Genuine
<1> QED
  BY <1>2, <1>3 DEF Genuine

LEMMA WireInvInit == Init => WireInv
<1> SUFFICES ASSUME Init PROVE WireInv
  OBVIOUS
<1>1. WireTypeOK
  <2>1. Limit \in Nat
    BY WireAssumption DEF Limit
  <2> QED
    BY <2>1 DEF Init, WireTypeOK, Text
<1>2. StreamKnown /\ UnsentKnown
  BY DEF Init, StreamKnown, UnsentKnown
<1>3. Genuine(batch) /\ Genuine(handed)
  BY DEF Init, Genuine
<1> QED
  BY <1>1, <1>2, <1>3 DEF WireInv

\* An offer of a fragment that is known by then, with what is left to send.
LEMMA OfferKeeps ==
  ASSUME WireInv, NEW fragment \in Text, Offer(fragment),
         sentWhole \subseteq sentWhole', sentCut \subseteq sentCut',
         foreignCut \subseteq foreignCut',
         sentWhole' \subseteq WireEvent, sentCut' \subseteq WireEvent,
         foreignCut' \subseteq Garbage,
         Known(fragment)', unsent' \in Text, UnsentKnown'
  PROVE  WireInv'
<1>1. /\ stream' = Append(stream, fragment)
      /\ UNCHANGED <<consumed, pollAt, seen, batch, handed>>
  BY DEF Offer, pollVars
<1>2. /\ stream' \in Seq(Text) /\ Len(stream') = Len(stream) + 1
      /\ \A i \in DOMAIN stream' :
           (i \in DOMAIN stream /\ stream'[i] = stream[i]) \/ stream'[i] = fragment
  <2>1. stream \in Seq(Text)
    BY DEF WireInv, WireTypeOK
  <2> QED
    BY <1>1, <2>1
<1>3. WireTypeOK'
  <2>1. consumed' \in 0 .. Len(stream')
    <3>1. stream \in Seq(Text) /\ consumed \in 0 .. Len(stream) /\ Len(stream) \in Nat
      BY DEF WireInv, WireTypeOK
    <3> QED
      BY <1>1, <1>2, <3>1
  <2> QED
    BY <1>1, <1>2, <2>1 DEF WireInv, WireTypeOK, Limit
<1>4. StreamKnown'
  <2>1. \A s : Known(s) => Known(s)'
    BY MoreSent
  <2>2. ASSUME NEW i \in DOMAIN stream'
        PROVE  Known(stream[i])'
    <3>1. CASE i \in DOMAIN stream /\ stream'[i] = stream[i]
      <4>1. PICK s : s = stream[i]
        OBVIOUS
      <4>2. Known(s)'
        BY <2>1, <3>1, <4>1 DEF WireInv, StreamKnown
      <4> QED
        BY <3>1, <4>1, <4>2
    <3>2. CASE stream'[i] = fragment
      BY <3>2
    <3> QED
      BY <1>2, <3>1, <3>2
  <2> QED
    BY <2>2 DEF StreamKnown
<1>5. Genuine(batch)' /\ Genuine(handed)'
  <2>1. \A e : WasSent(e) => WasSent(e)'
    BY MoreSent
  <2>2. Genuine(batch) /\ Genuine(handed)
    BY DEF WireInv
  <2>3. /\ \A i \in DOMAIN batch : WasSent(batch[i])'
        /\ \A i \in DOMAIN handed : WasSent(handed[i])'
    BY <1>1, <2>1, <2>2 DEF Genuine
  <2> QED
    BY <1>1, <2>2, <2>3 DEF Genuine
<1> QED
  BY <1>3, <1>4, <1>5 DEF WireInv

\* A fragment of what is left to send of a line.
LEMMA PartKeeps ==
  ASSUME WireInv, NEW text \in Text, SendPart(text),
         NEW line \in Text, line \in CutLines', RestOf(text, line),
         sentWhole \subseteq sentWhole', sentCut \subseteq sentCut',
         foreignCut \subseteq foreignCut',
         sentWhole' \subseteq WireEvent, sentCut' \subseteq WireEvent,
         foreignCut' \subseteq Garbage
  PROVE  WireInv'
<1>0. PICK i \in DOMAIN text : \E halves \in Halves(text[i]) :
        /\ Offer(SubSeq(text, 1, i - 1) \o <<halves[1]>>)
        /\ unsent' = <<halves[2]>> \o SubSeq(text, i + 1, Len(text))
  BY DEF SendPart
<1>1. PICK halves \in Halves(text[i]) :
        /\ Offer(SubSeq(text, 1, i - 1) \o <<halves[1]>>)
        /\ unsent' = <<halves[2]>> \o SubSeq(text, i + 1, Len(text))
  BY <1>0
<1>2. PICK fragment : fragment = SubSeq(text, 1, i - 1) \o <<halves[1]>>
  OBVIOUS
<1>3. PICK rest : rest = <<halves[2]>> \o SubSeq(text, i + 1, Len(text))
  OBVIOUS
<1>4. /\ fragment \in Text /\ PartOf(fragment, line)
      /\ rest \in Text /\ RestOf(rest, line)
  BY <1>2, <1>3, CutRest
<1>5. Offer(fragment) /\ unsent' = rest
  BY <1>1, <1>2, <1>3
<1>6. Known(fragment)'
  BY <1>4 DEF Known
<1>7. UnsentKnown' /\ unsent' \in Text
  BY <1>4, <1>5 DEF UnsentKnown
<1> QED
  BY <1>4, <1>5, <1>6, <1>7, OfferKeeps

\* The handler is given a fragment of the stream, and takes it when it decodes.
LEMMA FragmentKnown ==
  ASSUME WireInv, NextFragment
  PROVE  /\ Fragment \in Text /\ Known(Fragment)
         /\ consumed' \in 0 .. Len(stream) /\ seen' \in 0 .. Limit /\ seen' = seen + 1
<1>1. /\ stream \in Seq(Text) /\ consumed \in 0 .. Len(stream) /\ Len(stream) \in Nat
      /\ consumed < Len(stream) /\ consumed' = consumed + 1
      /\ seen \in 0 .. Limit /\ seen < Limit /\ seen' = seen + 1
  BY DEF WireInv, WireTypeOK, NextFragment
<1>2. consumed + 1 \in 1 .. Len(stream)
  BY <1>1
<1>3. Fragment \in Text /\ Known(Fragment)
  BY <1>1, <1>2 DEF Fragment, WireInv, StreamKnown
<1>4. Limit \in Nat
  BY WireAssumption DEF Limit
<1>5. consumed' \in 0 .. Len(stream) /\ seen' \in 0 .. Limit
  BY <1>1, <1>4
<1> QED
  BY <1>1, <1>3, <1>5

LEMMA WireInvStep == WireInv /\ [Next]_wireVars => WireInv'
<1> SUFFICES ASSUME WireInv, [Next]_wireVars
             PROVE  WireInv'
  OBVIOUS
<1> USE DEF Limit
<1>1. /\ sentWhole \subseteq WireEvent /\ sentCut \subseteq WireEvent
      /\ foreignCut \subseteq Garbage /\ unsent \in Text
  BY DEF WireInv, WireTypeOK
<1>2. ASSUME NEW e \in WireEvent, SendEvent(e)
      PROVE  WireInv'
  <2>1. /\ Offer(EncodeUpsertEvent(e)) /\ unsent' = unsent
        /\ sentWhole' = sentWhole \cup {e} /\ sentCut' = sentCut /\ foreignCut' = foreignCut
    BY <1>2 DEF SendEvent
  <2>2. EncodeUpsertEvent(e) \in Text
    BY EncodedText
  <2>3. Known(EncodeUpsertEvent(e))'
    BY <2>1 DEF Known
  <2>4. UnsentKnown'
    BY <2>1 DEF WireInv, UnsentKnown, CutLines
  <2> QED
    BY <1>1, <2>1, <2>2, <2>3, <2>4, OfferKeeps
<1>3. ASSUME NEW e \in WireEvent, SendLongEvent(e)
      PROVE  WireInv'
  <2>1. PICK line : line = EncodeUpsertEvent(e)
    OBVIOUS
  <2>2. line \in Text /\ RestOf(line, line)
    BY <2>1, EncodedText, WholeIsRest
  <2>3. /\ SendPart(line)
        /\ sentWhole' = sentWhole /\ sentCut' = sentCut \cup {e} /\ foreignCut' = foreignCut
    BY <1>3, <2>1 DEF SendLongEvent
  <2>4. line \in CutLines'
    BY <2>1, <2>3 DEF CutLines
  <2> QED
    BY <1>1, <2>2, <2>3, <2>4, PartKeeps
<1>4. ASSUME NEW g \in Garbage, SendGarbage(g)
      PROVE  WireInv'
  <2>1. /\ Offer(g) /\ unsent' = unsent
        /\ sentWhole' = sentWhole /\ sentCut' = sentCut /\ foreignCut' = foreignCut
    BY <1>4 DEF SendGarbage, history
  <2>2. g \in Text
    BY WireAssumption
  <2>3. Known(g)'
    BY DEF Known
  <2>4. UnsentKnown'
    BY <2>1 DEF WireInv, UnsentKnown, CutLines
  <2> QED
    BY <1>1, <2>1, <2>2, <2>3, <2>4, OfferKeeps
<1>5. ASSUME NEW g \in Garbage, SendLongGarbage(g)
      PROVE  WireInv'
  <2>1. g \in Text /\ RestOf(g, g)
    BY WireAssumption, WholeIsRest
  <2>2. /\ SendPart(g)
        /\ sentWhole' = sentWhole /\ sentCut' = sentCut /\ foreignCut' = foreignCut \cup {g}
    BY <1>5 DEF SendLongGarbage
  <2>3. g \in CutLines'
    BY <2>2 DEF CutLines
  <2> QED
    BY <1>1, <2>1, <2>2, <2>3, PartKeeps
<1>6. ASSUME unsent # <<>>
      PROVE  \E line \in Text : line \in CutLines /\ RestOf(unsent, line)
  <2>1. PICK line \in CutLines : RestOf(unsent, line)
    BY <1>6 DEF WireInv, UnsentKnown
  <2>2. line \in Text
    BY <1>1, EncodedText, WireAssumption DEF CutLines
  <2> QED
    BY <2>1, <2>2
<1>7. CASE SendNextFragment
  <2>1. PICK line \in Text : line \in CutLines /\ RestOf(unsent, line)
    BY <1>6, <1>7 DEF SendNextFragment
  <2>2. /\ SendPart(unsent)
        /\ sentWhole' = sentWhole /\ sentCut' = sentCut /\ foreignCut' = foreignCut
    BY <1>7 DEF SendNextFragment, history
  <2>3. line \in CutLines'
    BY <2>1, <2>2 DEF CutLines
  <2> QED
    BY <1>1, <2>1, <2>2, <2>3, PartKeeps
<1>8. CASE SendLastFragment
  <2>1. PICK line \in Text : line \in CutLines /\ RestOf(unsent, line)
    BY <1>6, <1>8 DEF SendLastFragment
  <2>2. /\ Offer(unsent) /\ unsent' = <<>>
        /\ sentWhole' = sentWhole /\ sentCut' = sentCut /\ foreignCut' = foreignCut
    BY <1>8 DEF SendLastFragment, history
  <2>3. PartOf(unsent, line)
    BY <1>1, <2>1, RestIsPart
  <2>4. PICK s \in Text : s = unsent
    BY <1>1
  <2>5. Known(s)'
    BY <2>1, <2>2, <2>3, <2>4 DEF Known, CutLines
  <2>6. UnsentKnown' /\ unsent' \in Text
    BY <2>2 DEF UnsentKnown, Text
  <2> QED
    BY <1>1, <2>2, <2>4, <2>5, <2>6, OfferKeeps
<1>9. CASE PollStarts
  BY <1>9 DEF PollStarts, history, WireInv, WireTypeOK, StreamKnown, UnsentKnown, Known,
             CutLines, Genuine, WasSent
<1>10. CASE HandlerReturns
  <2>1. /\ Fragment \in Text /\ Known(Fragment)
        /\ consumed' \in 0 .. Len(stream) /\ seen' \in 0 .. Limit /\ seen' = seen + 1
    BY <1>10, FragmentKnown DEF HandlerReturns
  <2>2. /\ stream' = stream /\ handed' = handed /\ pollAt' = pollAt
        /\ unsent' = unsent
        /\ sentWhole' = sentWhole /\ sentCut' = sentCut /\ foreignCut' = foreignCut
    BY <1>10 DEF HandlerReturns, NextFragment, history
  <2>3. Genuine(batch') /\ Len(batch') <= seen'
    <3>1. CASE Full
      BY <1>10, <2>1, <3>1 DEF HandlerReturns, WireInv, WireTypeOK, Genuine
    <3>2. CASE ~Full
      <4>1. PICK e : e = DecodeUpsertEvent(Fragment)
        OBVIOUS
      <4>2. e \in Receivable /\ WasSent(e)
        BY <1>10, <2>1, <3>2, <4>1, KnownDecodes DEF HandlerReturns, WireInv, WireTypeOK
      <4>3. batch' = Append(batch, e)
        BY <1>10, <3>2, <4>1 DEF HandlerReturns
      <4>4. /\ batch \in Seq(Receivable) /\ Len(batch) <= seen /\ seen \in Nat
            /\ \A i \in DOMAIN batch : WasSent(batch[i])
        BY DEF WireInv, WireTypeOK, Genuine
      <4>5. /\ batch' \in Seq(Receivable) /\ Len(batch') = Len(batch) + 1
            /\ Len(batch) \in Nat
            /\ \A i \in DOMAIN batch' :
                 (i \in DOMAIN batch /\ batch'[i] = batch[i]) \/ batch'[i] = e
        BY <4>2, <4>3, <4>4
      <4>6. \A i \in DOMAIN batch' : WasSent(batch'[i])
        BY <4>2, <4>4, <4>5
      <4> QED
        BY <2>1, <4>4, <4>5, <4>6 DEF Genuine
    <3> QED
      BY <3>1, <3>2
  <2>4. WireTypeOK' /\ StreamKnown' /\ UnsentKnown'
    BY <2>1, <2>2, <2>3 DEF WireInv, WireTypeOK, StreamKnown, UnsentKnown, Known, CutLines
  <2>5. Genuine(batch)' /\ Genuine(handed)'
    BY <2>2, <2>3 DEF WireInv, Genuine, WasSent
  <2> QED
    BY <2>4, <2>5 DEF WireInv
<1>11. CASE HandlerThrows
  <2>1. /\ consumed' \in 0 .. Len(stream) /\ seen' \in 0 .. Limit /\ seen' = seen + 1
    BY <1>11, FragmentKnown DEF HandlerThrows
  <2>2. /\ stream' = stream /\ handed' = handed /\ batch' = batch /\ pollAt' = "returning"
        /\ unsent' = unsent
        /\ sentWhole' = sentWhole /\ sentCut' = sentCut /\ foreignCut' = foreignCut
    BY <1>11 DEF HandlerThrows, NextFragment, history
  <2>3. Len(batch') <= seen'
    <3>1. batch \in Seq(Receivable) /\ Len(batch) <= seen /\ seen \in Nat
      BY DEF WireInv, WireTypeOK, Genuine
    <3> QED
      BY <2>1, <2>2, <3>1
  <2>4. WireTypeOK' /\ StreamKnown' /\ UnsentKnown'
    BY <2>1, <2>2, <2>3 DEF WireInv, WireTypeOK, StreamKnown, UnsentKnown, Known, CutLines
  <2>5. Genuine(batch)' /\ Genuine(handed)'
    BY <2>2 DEF WireInv, Genuine, WasSent
  <2> QED
    BY <2>4, <2>5 DEF WireInv
<1>12. CASE PollReturns
  <2>1. /\ handed' = handed \o batch /\ batch' = <<>> /\ seen' = 0 /\ pollAt' = "idle"
        /\ UNCHANGED <<stream, unsent, consumed, sentWhole, sentCut, foreignCut>>
    BY <1>12 DEF PollReturns, history
  <2>2. Genuine(handed \o batch) /\ Genuine(<<>>)
    <3>1. Genuine(handed \o batch)
      BY GenuineTogether DEF WireInv
    <3> QED
      BY <3>1 DEF Genuine
  <2>3. Limit \in Nat
    BY WireAssumption
  <2>4. WireTypeOK' /\ StreamKnown' /\ UnsentKnown'
    BY <2>1, <2>3 DEF WireInv, WireTypeOK, StreamKnown, UnsentKnown, Known, CutLines
  <2>5. Genuine(batch)' /\ Genuine(handed)'
    BY <2>1, <2>2 DEF Genuine, WasSent
  <2> QED
    BY <2>4, <2>5 DEF WireInv
<1>13. CASE UNCHANGED wireVars
  BY <1>13 DEF wireVars, pollVars, history, WireInv, WireTypeOK, StreamKnown, UnsentKnown,
              Known, CutLines, Genuine, WasSent
<1> QED
  BY <1>2, <1>3, <1>4, <1>5, <1>7, <1>8, <1>9, <1>10, <1>11, <1>12, <1>13
     DEF Next, PollStep

LEMMA WireInvHolds == Spec => []WireInv
<1>1. Init => WireInv
  BY WireInvInit
<1>2. WireInv /\ [Next]_wireVars => WireInv'
  BY WireInvStep
<1> QED
  BY <1>1, <1>2, PTL DEF Spec

-----------------------------------------------------------------------------
(***************************************************************************)
(* The types, the positions and the limits of the poll loop.               *)
(***************************************************************************)
THEOREM WireTyped == Spec => []WireTypeOK
<1>1. WireInv => WireTypeOK
  BY DEF WireInv
<1> QED
  BY <1>1, WireInvHolds, PTL

(***************************************************************************)
(* What RealAeronIngressAdapter hands the service was sent, whatever else  *)
(* is in the stream, and into however many fragments and wherever Aeron    *)
(* cut it: an event that came in one fragment as it was, one sent in       *)
(* several with its key, its position or both cut short, and anything else *)
(* only where a key, a position or a foreign line sent in several spells   *)
(* it.                                                                     *)
(***************************************************************************)
THEOREM WhatIsReceivedWasSent == Spec => []ReceivesWhatWasSent
<1>1. WireInv => ReceivesWhatWasSent
  <2> SUFFICES ASSUME WireInv PROVE ReceivesWhatWasSent
    OBVIOUS
  <2>1. Genuine(handed \o batch)
    BY GenuineTogether DEF WireInv
  <2> QED
    BY <2>1 DEF Genuine, ReceivesWhatWasSent, Received
<1> QED
  BY <1>1, WireInvHolds, PTL

\* The line of a notification whose key is one piece has the six fields it was made of.
LEMMA NotificationCrosses ==
  ASSUME NEW n, NEW key \in OnePiece, NEW old \in Int, NEW new \in Int, NEW b \in Bytes,
         n = [key |-> key, oldVersion |-> old, newVersion |-> new, payload |-> b]
  PROVE  /\ DecodesAsNotification(EncodeStateChangeNotification(n))
         /\ DecodeStateChangeNotification(EncodeStateChangeNotification(n)) = n
<1> DEFINE four == <<LongPiece(old), LongPiece(new), Applied, Time>>
           one == <<Base64Piece(b)>>
<1>1. PICK line : line = EncodeStateChangeNotification(n)
  OBVIOUS
<1>2. key \in Seq(Pieces) /\ Len(key) = 1 /\ key = <<key[1]>>
  BY OneLong DEF OnePiece, Text
<1>3. Applied \in Pieces
  BY DEF Applied, NamePiece, Pieces
<1>4. /\ four \in Seq(Pieces) /\ Len(four) = 4
      /\ four[1] = LongPiece(old) /\ four[2] = LongPiece(new) /\ four[4] = Time
      /\ one \in Seq(Pieces) /\ Len(one) = 1 /\ one[1] = Base64Piece(b)
  BY <1>3, PiecesMade
<1>5. line = (key \o four) \o one
  BY <1>1 DEF EncodeStateChangeNotification, EncodedBytes
<1> HIDE DEF four, one
<1>6. PICK a : a = key \o four
  OBVIOUS
<1>7. /\ a \in Seq(Pieces) /\ Len(a) = 5
      /\ \A i \in 1 .. 1 : a[i] = key[i]
      /\ \A j \in 1 .. 4 : a[1 + j] = four[j]
  <2>1. /\ key \o four \in Seq(Pieces) /\ Len(key \o four) = Len(key) + Len(four)
        /\ \A i \in 1 .. Len(key) : (key \o four)[i] = key[i]
        /\ \A j \in 1 .. Len(four) : (key \o four)[Len(key) + j] = four[j]
    BY <1>2, <1>4, Joined
  <2>2. /\ a \in Seq(Pieces) /\ Len(a) = Len(key) + Len(four)
        /\ \A i \in 1 .. Len(key) : a[i] = key[i]
        /\ \A j \in 1 .. Len(four) : a[Len(key) + j] = four[j]
    BY <1>6, <2>1
  <2>3. Len(key) = 1 /\ Len(four) = 4
    BY <1>2, <1>4
  <2> QED
    BY <2>2, <2>3
<1>8. /\ a[1] = key[1] /\ a[2] = LongPiece(old) /\ a[3] = LongPiece(new) /\ a[5] = Time
  <2>1. a[1] = key[1] /\ a[1 + 1] = four[1] /\ a[1 + 2] = four[2] /\ a[1 + 4] = four[4]
    BY <1>7
  <2> QED
    BY <1>4, <2>1
<1>9. /\ line \in Seq(Pieces) /\ Len(line) = 6
      /\ line[1] = key[1] /\ line[2] = LongPiece(old) /\ line[3] = LongPiece(new)
      /\ line[5] = Time /\ line[6] = Base64Piece(b)
  <2>1. /\ a \o one \in Seq(Pieces) /\ Len(a \o one) = Len(a) + Len(one)
        /\ \A i \in 1 .. Len(a) : (a \o one)[i] = a[i]
        /\ \A j \in 1 .. Len(one) : (a \o one)[Len(a) + j] = one[j]
    BY <1>4, <1>7, Joined
  <2>2. /\ line \in Seq(Pieces) /\ Len(line) = 6
        /\ \A i \in 1 .. 5 : line[i] = a[i]
        /\ \A j \in 1 .. 1 : line[5 + j] = one[j]
    BY <1>4, <1>5, <1>6, <1>7, <2>1, SMTT(30)
  <2>3. line[1] = a[1] /\ line[2] = a[2] /\ line[3] = a[3] /\ line[5] = a[5]
    BY <2>2
  <2>4. line[5 + 1] = one[1]
    BY <2>2
  <2> QED
    BY <1>4, <1>8, <2>2, <2>3, <2>4
<1>10. DecodesAsNotification(line)
  BY <1>9 DEF DecodesAsNotification, LongPiece, Base64Piece, Time
<1>11. DecodeStateChangeNotification(line) = n
  <2>1. line[2].value = old /\ line[3].value = new /\ line[6].value = b
    BY <1>9 DEF LongPiece, Base64Piece
  <2>2. <<line[1]>> = key
    BY <1>2, <1>9
  <2> QED
    BY <2>1, <2>2 DEF DecodeStateChangeNotification
<1> QED
  BY <1>1, <1>10, <1>11

(***************************************************************************)
(* Whatever key an event had when it was sent, the key it comes in with    *)
(* holds no delimiter, so that the line AeronEgressPublisher makes of its  *)
(* notification decodes to the notification.                               *)
(***************************************************************************)
THEOREM AnnouncementsCross == Spec => []AnnouncementsReadable
<1>1. WireInv => AnnouncementsReadable
  <2> SUFFICES ASSUME WireInv,
                      NEW i \in DOMAIN Received, NEW old \in 0 .. Received[i].version - 1
               PROVE  LET n == [key |-> Received[i].key, oldVersion |-> old,
                                newVersion |-> Received[i].version,
                                payload |-> Received[i].payload]
                          line == EncodeStateChangeNotification(n)
                      IN  DecodesAsNotification(line) /\ DecodeStateChangeNotification(line) = n
    BY DEF AnnouncementsReadable
  <2>1. Received \in Seq(Receivable)
    BY GenuineTogether DEF WireInv, Received, Genuine
  <2>2. PICK e \in Receivable : e = Received[i]
    BY <2>1
  <2>3. e.key \in OnePiece /\ e.version \in Int /\ e.payload \in Bytes
    BY DEF Receivable
  <2>4. old \in Int
    BY <2>2, <2>3
  <2> QED
    BY <2>2, <2>3, <2>4, NotificationCrosses
<1> QED
  BY <1>1, WireInvHolds, PTL

=============================================================================
