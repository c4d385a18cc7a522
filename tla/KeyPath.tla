------------------------------- MODULE KeyPath -------------------------------
(***************************************************************************)
(* Key paths (src/merkle/proof_key_path.go): the keys of a chained proof   *)
(* as one string, and back.  Strings and keys are sequences of bytes.      *)
(***************************************************************************)
EXTENDS Integers, Sequences, SequencesExt

CONSTANTS
  Names,    \* the keys, sequences of bytes
  MaxKeys   \* bound on the keys of a path

VARIABLE pth   \* the KeyPath: a sequence of keys with their encodings

Slash == 47
Percent == 37
HexMark == <<120, 58>>   \* "x:"

Digits == 48..57
UpperCase == 65..90
LowerCase == 97..122

------------------------------------------------------------------------------
\* net/url and encoding/hex, as far as KeyPath uses them.
HexDigit(n) == IF n < 10 THEN 48 + n ELSE 55 + n

IsHexDigit(c) == c \in Digits \cup 65..70 \cup 97..102

HexValue(c) == IF c \in Digits THEN c - 48 ELSE IF c \in UpperCase THEN c - 55 ELSE c - 87

HexByte(c) == <<HexDigit(c \div 16), HexDigit(c % 16)>>

\* Besides letters and digits, a path segment may hold - _ . ~ $ & + : = @
shouldEscape(c) ==
  c \notin Digits \cup UpperCase \cup LowerCase \cup {45, 95, 46, 126, 36, 38, 43, 58, 61, 64}

PathEscape(s) ==
  FlattenSeq([i \in 1..Len(s) |->
                IF shouldEscape(s[i]) THEN <<Percent>> \o HexByte(s[i]) ELSE <<s[i]>>])

NoKey == [err |-> TRUE, key |-> <<>>]
KeyIs(key) == [err |-> FALSE, key |-> key]

\* What follows the first i - 1 bytes of s, unescaped.
PathUnescape(s) ==
  LET rest[i \in 1..(Len(s) + 3)] ==
        IF i > Len(s) THEN KeyIs(<<>>)
        ELSE IF s[i] # Percent
             THEN IF rest[i + 1].err THEN NoKey ELSE KeyIs(<<s[i]>> \o rest[i + 1].key)
        ELSE IF i + 2 > Len(s) \/ ~(IsHexDigit(s[i + 1]) /\ IsHexDigit(s[i + 2])) THEN NoKey
        ELSE IF rest[i + 3].err THEN NoKey
        ELSE KeyIs(<<16 * HexValue(s[i + 1]) + HexValue(s[i + 2])>> \o rest[i + 3].key)
  IN  rest[1]

HexDecodeString(s) ==
  IF Len(s) % 2 = 1 \/ \E i \in 1..Len(s) : ~IsHexDigit(s[i]) THEN NoKey
  ELSE KeyIs([i \in 1..(Len(s) \div 2) |-> 16 * HexValue(s[2 * i - 1]) + HexValue(s[2 * i])])

------------------------------------------------------------------------------
Encodings == {"url", "hex"}

String(kp) ==
  FlattenSeq([i \in 1..Len(kp) |->
                <<Slash>> \o
                  IF kp[i].enc = "url" THEN PathEscape(kp[i].name)
                  ELSE HexMark \o FlattenSeq([j \in 1..Len(kp[i].name) |-> HexByte(kp[i].name[j])])])

\* The parts between the slashes of a string that starts with one.
Parts(path) ==
  LET slashes == SelectSeq([i \in 1..Len(path) |-> i], LAMBDA i : path[i] = Slash)
      cuts == Append(slashes, Len(path) + 1)
  IN  [i \in 1..Len(slashes) |-> SubSeq(path, cuts[i] + 1, cuts[i + 1] - 1)]

IsHexPart(part) == Len(part) >= 2 /\ SubSeq(part, 1, 2) = HexMark

PartToKey_Raw(part) ==
  IF IsHexPart(part) THEN HexDecodeString(SubSeq(part, 3, Len(part))) ELSE KeyIs(part)

PartToKey(part) ==
  IF IsHexPart(part) THEN HexDecodeString(SubSeq(part, 3, Len(part))) ELSE PathUnescape(part)

BadPath == [err |-> TRUE, keys |-> <<>>]

KeyPathToKeys(path) ==
  IF path = <<>> \/ path[1] # Slash THEN BadPath
  ELSE LET decoded == [i \in 1..Len(Parts(path)) |-> PartToKey(Parts(path)[i])]
       IN  IF \E i \in 1..Len(decoded) : decoded[i].err THEN BadPath
           ELSE [err |-> FALSE, keys |-> [i \in 1..Len(decoded) |-> decoded[i].key]]

------------------------------------------------------------------------------
PathInit == pth = <<>>

AppendKey(name, enc) ==
  /\ Len(pth) < MaxKeys
  /\ pth' = Append(pth, [name |-> name, enc |-> enc])

PathNext == \E name \in Names, enc \in Encodings : AppendKey(name, enc)

PathSpec == PathInit /\ [][PathNext]_pth

------------------------------------------------------------------------------
KeysComeBack ==
  KeyPathToKeys(String(pth)) = [err |-> FALSE, keys |-> [i \in 1..Len(pth) |-> pth[i].name]]

LooksLikeHex(k) == k.enc = "url" /\ IsHexPart(k.name)

\* The keys of a path come back from its string, each as it was and in its place,
\* whatever bytes they hold (slashes, percent signs, escapes, hex marks) and
\* whichever encodings are mixed.  Two kinds of path never come back: the empty
\* one, and one with a key in URL encoding that starts with the mark of a hex one,
\* which PathEscape leaves as it is; it is read as another key or not at all.
PathsRoundTrip ==
  KeysComeBack <=> pth # <<>> /\ \A i \in 1..Len(pth) : ~LooksLikeHex(pth[i])
==============================================================================
