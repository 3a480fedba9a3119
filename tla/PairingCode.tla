----------------------------- MODULE PairingCode -----------------------------
(***************************************************************************)
(* The pairing code (pairing.rs:30-251): 18 bytes, written in Crockford's   *)
(* base 32 in groups of five characters and read back from what a user     *)
(* types.  Pure operators; a byte is a number, a character a string of one  *)
(* letter, a text a sequence of characters.                                *)
(***************************************************************************)
EXTENDS Integers, SequencesExt

AccBits == 16   \* of the accumulator's 64 bits; what is read lies in the low 12
Acc(n) == n % 2 ^ AccBits

PairingCodeBytes == 18
GroupSize == 5

Base32Chars == <<"0","1","2","3","4","5","6","7","8","9","A","B","C","D","E","F",
                 "G","H","J","K","M","N","P","Q","R","S","T","V","W","X","Y","Z">>
Base32Small == <<"0","1","2","3","4","5","6","7","8","9","a","b","c","d","e","f",
                 "g","h","j","k","m","n","p","q","r","s","t","v","w","x","y","z">>

\* What users take for one another: I and L for 1, O for 0.
Base32Aliases == [ch \in {"i", "I", "l", "L", "o", "O"} |-> IF ch \in {"o", "O"} THEN 0 ELSE 1]

\* Characters outside its domain have no entry, or (above 255) no place in the table.
Base32Decode ==
  [ch \in ToSet(Base32Chars) \cup ToSet(Base32Small) \cup DOMAIN Base32Aliases |->
     IF ch \in DOMAIN Base32Aliases THEN Base32Aliases[ch]
     ELSE CHOOSE v \in 0 .. 31 : ch \in {Base32Chars[v + 1], Base32Small[v + 1]}]

\* Both loops go over their input with an accumulator that starts empty.
EmptyAcc == [bits |-> 0, n |-> 0, out |-> <<>>]

-----------------------------------------------------------------------------
(* Encoding.                                                               *)

\* One byte more, and the one or two characters that are complete with it.
EncodeByte(s, byte) ==
  LET bits == Acc(s.bits * 2 ^ 8 + byte)
      n    == s.n + 8
  IN [bits |-> bits, n |-> n % 5,
      out  |-> s.out \o [j \in 1 .. n \div 5 |->
                           Base32Chars[((bits \div 2 ^ (n - 5 * j)) % 32) + 1]]]

\* The loop over the bytes: s[i] is what it holds after i of them.
EncodeBytes(data) ==
  LET s[i \in 0 .. Len(data)] == IF i = 0 THEN EmptyAcc ELSE EncodeByte(s[i - 1], data[i])
  IN s[Len(data)]

Base32EncodeVariant(data) ==   \* what is left keeps its place at the low end
  LET s == EncodeBytes(data)
  IN s.out \o (IF s.n > 0 THEN <<Base32Chars[(s.bits % 2 ^ s.n) + 1]>> ELSE <<>>)

\* The bits that are left fill up the last character from above.
Base32Encode(data) ==
  LET s == EncodeBytes(data)
  IN s.out \o (IF s.n > 0 THEN <<Base32Chars[((s.bits * 2 ^ (5 - s.n)) % 32) + 1]>> ELSE <<>>)

\* A dash after every five characters but the last.
FormatPairingCode(raw) ==
  [i \in 1 .. Len(raw) + ((Len(raw) - 1) \div GroupSize) |->
     IF (i % (GroupSize + 1)) = 0 THEN "-" ELSE raw[i - (i \div (GroupSize + 1))]]

Bytes(n)     == [1 .. n -> 0 .. 255]
PairingCodes == [ip : Bytes(4), port : 0 .. 2 ^ 16 - 1, name : Bytes(4), secret : Bytes(4), token : Bytes(4)]

\* The port goes out high byte first.
Layout(code) ==
  code.ip \o <<code.port \div 2 ^ 8, code.port % 2 ^ 8>>
  \o code.name \o code.secret \o code.token

Encode(code) == FormatPairingCode(Base32Encode(Layout(code)))

-----------------------------------------------------------------------------
(* Decoding.                                                               *)

DecodeCharVariant(s, ch) ==   \* the low bits of the accumulator
  LET bits == Acc(s.bits * 2 ^ 5 + Base32Decode[ch])
      n    == s.n + 5
  IN IF n < 8 THEN [s EXCEPT !.bits = bits, !.n = n]
     ELSE [bits |-> bits, n |-> n - 8, out |-> Append(s.out, bits % 2 ^ 8)]

DecodeChar(s, ch) ==
  LET bits == Acc(s.bits * 2 ^ 5 + Base32Decode[ch])
      n    == s.n + 5
  IN IF n < 8 THEN [s EXCEPT !.bits = bits, !.n = n]
     ELSE [bits |-> bits, n |-> n - 8,
           out  |-> Append(s.out, (bits \div 2 ^ (n - 8)) % 2 ^ 8)]

\* Without the dashes: s[i] is what is left of the first i characters.
Cleaned(text) ==
  LET s[i \in 0 .. Len(text)] ==
        IF i = 0 THEN <<>> ELSE IF text[i] = "-" THEN s[i - 1] ELSE Append(s[i - 1], text[i])
  IN s[Len(text)]

\* The empty code and a character without a value are errors, or panics.
Readable(text) == Cleaned(text) # <<>> /\ ToSet(Cleaned(text)) \subseteq DOMAIN Base32Decode

BytesOf(text) ==
  LET seq == Cleaned(text)
      s[i \in 0 .. Len(seq)] == IF i = 0 THEN EmptyAcc ELSE DecodeChar(s[i - 1], seq[i])
  IN s[Len(seq)].out

Decodes(text) == Readable(text) /\ Len(BytesOf(text)) = PairingCodeBytes

DecodeVariant(text) ==   \* the token begins with a byte of the secret
  LET b == BytesOf(text)
  IN [ip |-> SubSeq(b, 1, 4), port |-> b[5] * 2 ^ 8 + b[6], name |-> SubSeq(b, 7, 10),
      secret |-> SubSeq(b, 11, 14), token |-> SubSeq(b, 14, 18)]

\* Of a text that decodes.
Decode(text) ==
  LET b == BytesOf(text)
  IN [ip |-> SubSeq(b, 1, 4), port |-> b[5] * 2 ^ 8 + b[6], name |-> SubSeq(b, 7, 10),
      secret |-> SubSeq(b, 11, 14), token |-> SubSeq(b, 15, 18)]

HasPhysicalIp(code) == code.ip # <<0, 0, 0, 0>>

VerifyNetwork(code, name, secret) == code.name = name /\ code.secret = secret

-----------------------------------------------------------------------------
(* The reference: the bits of the characters, one after the other, in       *)
(* groups of eight.                                                        *)

Bit(value, width, i) == (value \div 2 ^ (width - i)) % 2   \* i = 1 is the highest

Regrouped(text) ==
  LET digits == Cleaned(text)
      bit(i) == Bit(Base32Decode[digits[((i - 1) \div 5) + 1]], 5, ((i - 1) % 5) + 1)
  IN [k \in 1 .. (5 * Len(digits)) \div 8 |->
        LET b(j) == bit(8 * (k - 1) + j)
        IN 128 * b(1) + 64 * b(2) + 32 * b(3) + 16 * b(4) + 8 * b(5) + 4 * b(6) + 2 * b(7) + b(8)]
=============================================================================
