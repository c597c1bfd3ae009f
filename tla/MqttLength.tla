----------------------------- MODULE MqttLength -----------------------------
(***************************************************************************)
(* The "remaining length" field of an MQTT packet as PubSubClient writes   *)
(* and reads it.  A length is a sequence of digits, least significant      *)
(* first; every digit but the last has the continuation bit (0x80) set, so *)
(* a byte is digit + Radix when another one follows.                       *)
(*                                                                         *)
(* Radix is 128 and Width is 2^16 in the code: buildHeader() takes its     *)
(* length as a uint16_t, so its loop makes at most three turns and is      *)
(* unrolled here.  readPacket() accepts up to four digits.                 *)
(***************************************************************************)
EXTENDS Integers, Sequences

CONSTANTS
    Radix,      \* values of one digit (128: the byte minus the 0x80 bit)
    Width       \* values of a uint16_t (65536)

\* Two digits do not always suffice for a uint16_t, three do.
ASSUME LengthAssumption ==
    /\ Radix \in Nat /\ Radix >= 2
    /\ Width \in Nat /\ Width >= 1
    /\ Width <= Radix * Radix * Radix

\* The conversion a caller's length goes through at the parameter of type uint16_t.
ToUint16(n) == n % Width

\* Mutant of LengthBytes: the loop ends after two digits.
LengthBytesMutant(n) ==
    LET len == ToUint16(n)
        hi  == len \div Radix
    IN  IF hi = 0 THEN <<len % Radix>>
        ELSE <<Radix + (len % Radix), hi % Radix>>

\* buildHeader(): the digits it stores for a (converted) length.
LengthBytes(n) ==
    LET len == ToUint16(n)
        hi  == len \div Radix
    IN  IF hi = 0 THEN <<len % Radix>>
        ELSE IF hi \div Radix = 0 THEN <<Radix + (len % Radix), hi % Radix>>
        ELSE <<Radix + (len % Radix), Radix + (hi % Radix), (hi \div Radix) % Radix>>

\* (digit & 128) # 0: another digit follows.
Continues(byte) == byte >= Radix

\* (digit & 127)
Digit(byte) == byte % Radix

\* The field is complete after its first k bytes.
EndsAt(bytes, k) ==
    /\ k <= Len(bytes)
    /\ ~Continues(bytes[k])
    /\ \A i \in 1 .. k - 1 : Continues(bytes[i])

\* The sum of digit * multiplier over the first k bytes (k at most four).
FieldValue(bytes, k) ==
    Digit(bytes[1])
    + (IF k >= 2 THEN Radix * Digit(bytes[2]) ELSE 0)
    + (IF k >= 3 THEN Radix * Radix * Digit(bytes[3]) ELSE 0)
    + (IF k >= 4 THEN Radix * Radix * Radix * Digit(bytes[4]) ELSE 0)

\* What readPacket() makes of the bytes after the packet type.  "used" is
\* *lengthLength; a fourth digit that still continues closes the connection
\* (len == 5), a field that ends early leaves the reader waiting.
ReadLength(bytes) ==
    IF \E k \in 1 .. 4 : EndsAt(bytes, k)
    THEN LET last == CHOOSE k \in 1 .. 4 : EndsAt(bytes, k)
         IN  [status |-> "ok", length |-> FieldValue(bytes, last), used |-> last]
    ELSE [status |-> IF Len(bytes) >= 4 THEN "killed" ELSE "waiting",
          length |-> 0, used |-> 0]
=============================================================================
