------------------------------ MODULE PtyFrame ------------------------------
(***************************************************************************)
(* The binary pty.data frame (web/src/proto/ptydata.ts, the mirror of      *)
(* internal/proto/ptydata.go): a version byte, the session's ULID in raw   *)
(* bytes, the payload. A ULID is IdChars digits of base 32 (26 in the      *)
(* code) for IdBytes bytes (16): its first digit has bits to spare.        *)
(***************************************************************************)
EXTENDS Naturals, Sequences

CONSTANTS IdChars, IdBytes

ASSUME IdAssumption ==
  /\ IdChars \in Nat \ {0} /\ IdBytes \in Nat \ {0}
  /\ 8 * IdBytes <= 5 * IdChars

Version == 1
HeaderLen == 1 + IdBytes
Byte == 0..255

\* What acc is after each digit: acc << 5n | v, or acc << 8n | byte.
Accumulated(digits, base) ==
  LET acc[i \in 0..Len(digits)] == IF i = 0 THEN 0 ELSE acc[i - 1] * base + digits[i]
  IN  acc
AsNumber(digits, base) == Accumulated(digits, base)[Len(digits)]

\* What acc is after each digit that is taken off its end: acc >>= 8n, or 5n.
Remaining(n, base, len) ==
  LET acc[i \in 0..len] == IF i = 0 THEN n ELSE acc[i - 1] \div base
  IN  acc
AsDigits(n, base, len) == [i \in 1..len |-> Remaining(n, base, len)[len - i] % base]

\* A ULID, as the values of its characters in ALPHABET, that fits the bytes.
ULIDs == {s \in [1..IdChars -> 0..31] : Remaining(AsNumber(s, 32), 256, IdBytes)[IdBytes] = 0}

ULIDToBytes(s) == AsDigits(AsNumber(s, 32), 256, IdBytes)

\* Mutant of BytesToULID: digits taken from the top, as if they were aligned.
BytesToULIDAligned(b) == AsDigits(AsNumber(b, 256) * 2^(5 * IdChars - 8 * IdBytes), 32, IdChars)

BytesToULID(b) == AsDigits(AsNumber(b, 256), 32, IdChars)

EncodePTYData(s, payload) == <<Version>> \o ULIDToBytes(s) \o payload

\* decodePTYData throws for any other frame.
Decodable(f) == Len(f) >= HeaderLen /\ f[1] = Version

DecodePTYData(f) ==
  [session |-> BytesToULID(SubSeq(f, 2, HeaderLen)),
   payload |-> SubSeq(f, HeaderLen + 1, Len(f))]
=============================================================================
