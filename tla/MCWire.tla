------------------------------- MODULE MCWire -------------------------------
(***************************************************************************)
(* WireIngress on a small instance.                                        *)
(***************************************************************************)
EXTENDS WireIngress

CONSTANTS blank, key, tail, torn, bytes

Words == {blank, key, tail, torn}

One(w) == <<WordPiece(w)>>
Two(v, w) == <<WordPiece(v), WordPiece(w)>>

Line(k, v, s) == One(k) \o <<LongPiece(v), Upsert, Base64Piece(bytes), Time,
                             NamePiece(s)>> \o One(tail)

Event(k, v, p) == [key |-> k, version |-> v, payload |-> bytes,
                   source |-> "AERON", position |-> p]

\* A plain one, and one whose key is itself a line and whose position holds a delimiter.
Events == {Event(One(key), 1, One(tail)), Event(Line(key, 1, "KAFKA"), 2, Two(tail, key))}

\* A version that is not positive, and a field too many.
NoEvents == {Line(key, 0, "AERON"), One(tail) \o Line(key, 1, "KAFKA")}

Rests == {torn}

\* An event with a delimiter in its key.
KeyWithDelimiter == {Event(Two(tail, key), 1, One(tail))}
=============================================================================
