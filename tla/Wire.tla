-------------------------------- MODULE Wire --------------------------------
(***************************************************************************)
(* From a message to the felts of its slot and back: the frame, its        *)
(* padding to a bucket, the packing of the ciphertext, and the body of a   *)
(* payment.  The cipher is taken as given: it adds a tag of 16 bytes.      *)
(*                                                                         *)
(* A buffer is a function from the offsets 0..n-1 to bytes.  A number is   *)
(* the function of its digits to base 256 wherever the code only takes it  *)
(* apart and puts it together again: a felt of at most 31 bytes is a       *)
(* function on 0..30, of the lowest digit first, and an address or an      *)
(* amount one of the highest first.                                        *)
(***************************************************************************)
EXTENDS Integers, Sequences

Byte == 0..255
Buffer(n) == [0..(n - 1) -> Byte]

(***************************************************************************)
(* Frames.                                                                 *)
(***************************************************************************)
Version == 1
HeaderLen == 1 + 32 + 8 + 4
Buckets == {256, 1024, 4096}
MaxBody == 4096 - HeaderLen

Fits(len, bucket) == len + HeaderLen <= bucket
\* With a tier asked for (padTo), or without: the smallest that fits.
BucketAsked(len, padTo) == padTo \in Buckets /\ Fits(len, padTo)
BucketFor(len) ==
    IF Fits(len, 256) THEN 256 ELSE IF Fits(len, 1024) THEN 1024 ELSE 4096

Contents(len) == [sender: Buffer(32), time: Buffer(8), body: Buffer(len)]

\* The 4 bytes of the length; a body has less than 2^16 bytes.
LenByte(len, i) ==
    CASE i = 43 -> len \div 256 [] i = 44 -> len % 256 [] OTHER -> 0

Frame(m, len, bucket) ==
    [i \in 0..(bucket - 1) |->
       IF i = 0 THEN Version
       ELSE IF i < 33 THEN m.sender[i - 1]
       ELSE IF i < 41 THEN m.time[i - 33]
       ELSE IF i < HeaderLen THEN LenByte(len, i)
       ELSE IF i < HeaderLen + len THEN m.body[i - HeaderLen]
       ELSE 0]

LenIn(p) == p[41] * 16777216 + p[42] * 65536 + p[43] * 256 + p[44]

\* What unframe insists on, and what it then returns.
Framed(p, bucket) ==
    /\ bucket \in Buckets
    /\ p[0] = Version
    /\ HeaderLen + LenIn(p) <= bucket
    /\ \A i \in HeaderLen + LenIn(p) .. bucket - 1 : p[i] = 0
Unframe(p) ==
    [sender |-> [i \in 0..31 |-> p[i + 1]],
     time |-> [i \in 0..7 |-> p[i + 33]],
     body |-> [i \in 0..(LenIn(p) - 1) |-> p[i + HeaderLen]]]

(***************************************************************************)
(* Felts.                                                                  *)
(***************************************************************************)
Chunk == 31
TagLen == 16
FeltCount(n) == (n + Chunk - 1) \div Chunk
Felt == Buffer(Chunk)

PackFelts(c, n) ==
    [f \in 0..(FeltCount(n) - 1) |->
       [j \in 0..(Chunk - 1) |-> IF Chunk * f + j < n THEN c[Chunk * f + j] ELSE 0]]

\* Each felt is below 256^(the bytes of its chunk).
Unpackable(felts, n) ==
    /\ DOMAIN felts = 0..(FeltCount(n) - 1)
    /\ \A f \in DOMAIN felts : \A j \in 0..(Chunk - 1) :
          Chunk * f + j >= n => felts[f][j] = 0
UnpackFelts(felts, n) == [k \in 0..(n - 1) |-> felts[k \div Chunk][k % Chunk]]

CtLen(bucket) == bucket + TagLen
\* The table open looks the ciphertext's length up in, by the count of felts.
CtLenByFelts(count) ==
    IF count = 9 THEN 272 ELSE IF count = 34 THEN 1040 ELSE 4112
Openable(count) == count \in {9, 34, 133}

(***************************************************************************)
(* Slots.  The key and the associated data are of the slot alone, so that  *)
(* the cipher of a slot is a function enc, and dec its inverse.            *)
(***************************************************************************)
Seal(m, len, bucket, enc) ==
    PackFelts(enc[Frame(m, len, bucket)], CtLen(bucket))

Plain(felts, count, dec) == dec[UnpackFelts(felts, CtLenByFelts(count))]
Opens(felts, count, dec, bucket) ==
    /\ Openable(count)
    /\ Unpackable(felts, CtLenByFelts(count))
    /\ Framed(Plain(felts, count, dec), bucket)
Open(felts, count, dec) == Unframe(Plain(felts, count, dec))

\* Storage as the client reads it: a span, its length first.
Span(felts) == <<Len(felts)>> \o felts
ParseSpan(res) == SubSeq(res, 2, 1 + res[1])
SpanWhole(res) == Len(ParseSpan(res)) = res[1]

(***************************************************************************)
(* The price shown for a draft.                                            *)
(***************************************************************************)
SlotsFor(tier) == FeltCount(tier + 16) + 1 + 3
TooLong(len) == len > MaxBody
NextTier(tier) == IF tier = 256 THEN 1024 ELSE 4096
\* Near the boundary: how many more bytes the tier takes.
NearBoundary(len, within) ==
    /\ ~TooLong(len) /\ BucketFor(len) # 4096
    /\ BucketFor(len) - (len + HeaderLen) < within

(***************************************************************************)
(* The body of a payment: PAY1, the token, the amount, the memo.           *)
(***************************************************************************)
Magic == <<80, 65, 89, 49>>
PaymentHeaderLen == 4 + 32 + 16

Payment(len) == [token: Buffer(32), amount: Buffer(16), text: Buffer(len)]
EncodePayment(p, len) ==
    [i \in 0..(PaymentHeaderLen + len - 1) |->
       IF i < 4 THEN Magic[i + 1]
       ELSE IF i < 36 THEN p.token[i - 4]
       ELSE IF i < PaymentHeaderLen THEN p.amount[i - 36]
       ELSE p.text[i - PaymentHeaderLen]]

IsPayment(b, n) ==
    /\ n >= PaymentHeaderLen
    /\ \A i \in 0..3 : b[i] = Magic[i + 1]
DecodePayment(b, n) ==
    [token |-> [i \in 0..31 |-> b[i + 4]],
     amount |-> [i \in 0..15 |-> b[i + 36]],
     text |-> [i \in 0..(n - PaymentHeaderLen - 1) |-> b[i + PaymentHeaderLen]]]
=============================================================================
