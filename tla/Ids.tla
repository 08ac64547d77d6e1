-------------------------------- MODULE Ids --------------------------------
(***************************************************************************)
(* Device ids: base32 of a SHA-256 digest with Luhn check digits and       *)
(* dashes (device_id_t), read out on one device and typed on another.      *)
(* A letter is its place in the alphabet, 0..31.                           *)
(***************************************************************************)
EXTENDS Integers, Sequences, SequencesExt

CONSTANTS Digests,              \* of 32 bytes
          MaxSlips              \* bound on typing errors

VARIABLES sha,                  \* the digest of the device
          text,                 \* what is typed
          slips,                \* errors: what and where
          id                    \* what the text is taken for, NoId at first

vars == <<sha, text, slips, id>>

Dash == 32
NoLetter == 33
DigestLength == 32
DASH_INT == 7
CHECK_DIGIT_INT == 13
LUHN_ITERATIONS == 4
LUHNIZED_SIZE == LUHN_ITERATIONS * (CHECK_DIGIT_INT + 1)
DASH_ITERATIONS == 8
DASHED_SIZE == LUHNIZED_SIZE + DASH_ITERATIONS - 1

Refused == [ok |-> FALSE, value |-> <<>>]
Accepted(v) == [ok |-> TRUE, value |-> v]
NoId == [ok |-> FALSE, value |-> <<0>>]

----------------------------------------------------------------------------
\* base32: a window of 16 bits over the bytes, five of them taken at a time.

Pull(w) == IF w.rest = <<>> THEN [w EXCEPT !.sign = @ + 8]
           ELSE [w EXCEPT !.in = @ + Head(w.rest) * 2^(16 - (w.bits + 8)), !.bits = @ + 8,
                          !.rest = Tail(@), !.sign = @ + 8]
Take(w) ==
    LET v == [w EXCEPT !.out = Append(@, w.in \div 2^11), !.bits = @ - 5, !.sign = @ - 5, !.in = (@ * 2^5) % 2^16]
    IN  IF v.sign <= 8 /\ v.rest # <<>> THEN Pull(v) ELSE v
RECURSIVE Letters(_)
Letters(w) == IF w.rest = <<>> /\ w.bits <= 0 THEN w.out ELSE Letters(Take(w))
encode(bytes) == Letters(Pull(Pull([in |-> 0, bits |-> 0, sign |-> 0, rest |-> bytes, out |-> <<>>])))

Push(w) == IF w.bits < 8 THEN w
           ELSE [w EXCEPT !.out = Append(@, w.acc \div 2^(w.bits - 8)), !.acc = @ % 2^(w.bits - 8), !.bits = @ - 8]
RECURSIVE Bytes(_)
Bytes(w) ==
    IF w.rest = <<>> THEN Accepted(w.out)
    ELSE IF Head(w.rest) >= Dash THEN Refused
    ELSE Bytes(Push([w EXCEPT !.acc = @ * 2^5 + Head(w.rest), !.bits = @ + 5, !.rest = Tail(@)]))
decode(letters) == Bytes([acc |-> 0, bits |-> 0, rest |-> letters, out |-> <<>>])

----------------------------------------------------------------------------
\* luhn32: every second letter counts twice. A character outside the alphabet
\* is refused, here or by decode (a debug build asserts).

\* mutant: every letter counts once
PlainSum(letters) == (32 - (FoldLeft(LAMBDA sum, c : sum + c, 0, letters) % 32)) % 32
calculate(letters) ==
    LET addend(i) == LET a == (IF i % 2 = 1 THEN 1 ELSE 2) * letters[i] IN (a \div 32) + (a % 32)
        add(sum, i) == sum + addend(i)
    IN  (32 - (FoldLeft(add, 0, [i \in DOMAIN letters |-> i]) % 32)) % 32
validate(piece) ==
    /\ \A i \in DOMAIN piece : piece[i] < Dash
    /\ Last(piece) = calculate(Front(piece))

----------------------------------------------------------------------------
\* device_id_t.

from_sha256(digest) ==
    LET enc == encode(digest)
        piece(i) == SubSeq(enc, i * CHECK_DIGIT_INT + 1, (i + 1) * CHECK_DIGIT_INT)
        luhnized == FlattenSeq([i \in 1 .. LUHN_ITERATIONS |-> Append(piece(i - 1), calculate(piece(i - 1)))])
        group(i) == SubSeq(luhnized, i * DASH_INT + 1, (i + 1) * DASH_INT)
    IN  FlattenSeq([i \in 1 .. DASH_ITERATIONS |-> IF i < DASH_ITERATIONS THEN Append(group(i - 1), Dash) ELSE group(i - 1)])

\* Dashes are dropped wherever they are; what is left moves to the front of the
\* buffer, whose tail keeps what it had.
Undashed(t) == LET kept == SelectSeq(t, LAMBDA c : c # Dash) IN kept \o SubSeq(t, Len(kept) + 1, Len(t))
Piece(b, i) == SubSeq(b, i * (CHECK_DIGIT_INT + 1) + 1, (i + 1) * (CHECK_DIGIT_INT + 1))
from_string(t) ==
    LET buff == Undashed(t)
    IN  IF Len(t) # DASHED_SIZE \/ \E i \in 0 .. LUHN_ITERATIONS - 1 : ~validate(Piece(buff, i)) THEN Refused
        ELSE decode(FlattenSeq([i \in 1 .. LUHN_ITERATIONS |-> Front(Piece(buff, i - 1))]))

get_short(t) == SubSeq(t, 1, DASH_INT)
\* A number of 64 bits is its eight bytes, the most significant one first.
get_uint(digest) == SubSeq(digest, 1, 8)
make_short(value) ==
    IF \A i \in DOMAIN value : value[i] = 0 THEN <<>> ELSE SubSeq(encode(SubSeq(value, 1, 5)), 1, DASH_INT)

----------------------------------------------------------------------------
Show == text = <<>> /\ text' = from_sha256(sha) /\ UNCHANGED <<sha, slips, id>>

CanSlip == text # <<>> /\ Len(slips) < MaxSlips /\ id = NoId
Mistype(i, c) ==
    /\ CanSlip /\ text[i] # c /\ text' = [text EXCEPT ![i] = c]
    /\ slips' = Append(slips, [kind |-> "wrong", at |-> i, was |-> {text[i]}])
    /\ UNCHANGED <<sha, id>>
Swap(i) ==
    /\ CanSlip /\ text[i] # text[i + 1] /\ text' = [text EXCEPT ![i] = text[i + 1], ![i + 1] = text[i]]
    /\ slips' = Append(slips, [kind |-> "swap", at |-> i, was |-> {text[i], text[i + 1]}])
    /\ UNCHANGED <<sha, id>>
Omit(i) ==
    /\ CanSlip /\ text' = RemoveAt(text, i)
    /\ slips' = Append(slips, [kind |-> "omit", at |-> i, was |-> {text[i]}])
    /\ UNCHANGED <<sha, id>>
Enter == text # <<>> /\ id = NoId /\ id' = from_string(text) /\ UNCHANGED <<sha, text, slips>>

Init == sha \in Digests /\ text = <<>> /\ slips = <<>> /\ id = NoId

Next ==
    \/ Show \/ Enter
    \/ \E i \in DOMAIN text, c \in 0 .. NoLetter : Mistype(i, c)
    \/ \E i \in DOMAIN text : Omit(i) \/ (i < Len(text) /\ Swap(i))

Spec == Init /\ [][Next]_vars

----------------------------------------------------------------------------
\* Type invariant: an id that was taken has the length of a digest.
TypeOK == /\ text # <<>> /\ slips = <<>> => Len(text) = DASHED_SIZE
          /\ id.ok => Len(id.value) = DigestLength

\* An id typed without error is the digest it came from.
TypedRight == id # NoId /\ slips = <<>> => id = Accepted(sha)

Unseen(s) == s.kind = "swap" /\ (s.was = {0, 31} \/ s.at % 16 = 14)
OneSlip == Len(slips) = 1 /\ Dash \notin slips[1].was /\ ~Unseen(slips[1])

\* A single error in the letters is found: a wrong letter, a letter left out, or
\* two neighbours that changed places - except the first and the last letter of
\* the alphabet, and a check digit with the letter before it (both count once).
SlipFound == id # NoId /\ OneSlip => ~id.ok

\* The name of a device made from its number is the beginning of its id.
ShortNames == text # <<>> /\ slips = <<>> => make_short(get_uint(sha)) \in {get_short(text), <<>>}

\* An id can be typed: rightly it is the device's, with a slip it is refused.
IdsRight == TypeOK /\ TypedRight /\ SlipFound /\ ShortNames
=============================================================================
