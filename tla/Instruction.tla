---------------------------- MODULE Instruction -----------------------------
(***************************************************************************)
(* Instructions of the Guacamole protocol and their text: "4.size,1.0;".    *)
(* An instruction is a sequence of elements, its opcode first; an element    *)
(* is a sequence of characters. The text is read as runes and sent as bytes.  *)
(*                                                                         *)
(* Characters are one byte long, but for "w", which takes the two bytes      *)
(* "w1" and "w2"; "?" is the replacement character that Go puts in the       *)
(* place of each byte that is no character, and is three bytes long itself.   *)
(***************************************************************************)
EXTENDS Integers, SequencesExt

CONSTANT Letters    \* characters of one byte that mean nothing to the protocol

DigitChars == <<"0", "1", "2", "3", "4", "5", "6", "7", "8", "9">>
Digits == ToSet(DigitChars)

OneByte == Letters \cup Digits \cup {".", ",", ";"}
WideBytes == {"w1", "w2", "?1", "?2", "?3"}

\* Runes and bytes.
Characters == OneByte \cup {"w", "?"} \cup WideBytes

ASSUME LettersAssumption ==
  Letters \cap (Digits \cup {".", ",", ";", "w", "?"} \cup WideBytes) = {}

Digit(c) == CHOOSE d \in 0..9 : DigitChars[d + 1] = c

\* The number that a sequence of digits stands for, 0 if there are none.
Number(ds) ==
  LET upTo[i \in 0..Len(ds)] ==
        IF i = 0 THEN 0 ELSE 10 * upTo[i - 1] + Digit(ds[i])
  IN  upTo[Len(ds)]

Decimal(n) ==
  LET text[m \in 0..n] ==
        IF m < 10 THEN <<DigitChars[m + 1]>>
        ELSE Append(text[m \div 10], DigitChars[(m % 10) + 1])
  IN  text[n]

Utf8(runes) ==
  FlattenSeq([i \in DOMAIN runes |->
                CASE runes[i] = "w" -> <<"w1", "w2">>
                  [] runes[i] = "?" -> <<"?1", "?2", "?3">>
                  [] OTHER -> <<runes[i]>>])

\* []rune(string(bytes)): a character that is not there in full becomes "?",
\* once for each of its bytes.
Runes(bytes) ==
  LET First(i) == bytes[i] = "w1"
      Second(i) == bytes[i] = "w2"
      Whole(i) == First(i) /\ i < Len(bytes) /\ Second(i + 1)
      Follows(i) == Second(i) /\ i > 1 /\ First(i - 1)
      Rune(i) == IF Whole(i) THEN <<"w">>
                 ELSE IF Follows(i) THEN <<>>
                 ELSE IF First(i) \/ Second(i) THEN <<"?">>
                 ELSE <<bytes[i]>>
  IN  FlattenSeq([i \in DOMAIN bytes |-> Rune(i)])

\* An element after its size, and what ends it.
Element(size, chars, end) == Decimal(size) \o <<".">> \o chars \o <<end>>

Text(ins, size) ==
  FlattenSeq([i \in DOMAIN ins |->
    Element(size[i], ins[i], IF i = Len(ins) THEN ";" ELSE ",")])

\* What guacd writes: a length counts characters, as Parse reads it.
ProtocolText(ins) == Text(ins, [i \in DOMAIN ins |-> Len(ins[i])])

\* Instruction.String: the length of a Go string, its bytes.
String(ins) == Text(ins, [i \in DOMAIN ins |-> Len(Utf8(ins[i]))])

\* Where the digits that start at i end, past the text if nothing follows.
DotAt(text, i) ==
  LET after == {j \in i..Len(text) : text[j] \notin Digits}
  IN  IF after = {} THEN Len(text) + 1 ELSE Min(after)

\* Where the terminator of the element that starts at i should be.
TerminatorAt(text, i) ==
  DotAt(text, i) + Number(SubSeq(text, i, DotAt(text, i) - 1)) + 1

Corrupt == <<"corrupt">>

\* Parse: the elements up to the first ";", the last one Corrupt on an error.
Parse(text) ==
  LET From[i \in 1..Len(text) + 1] ==
        LET dot == DotAt(text, i)
            end == TerminatorAt(text, i)
        IN  IF i > Len(text) THEN <<>>
            ELSE IF dot = i \/ dot > Len(text) \/ text[dot] # "." \/ end > Len(text)
            THEN <<Corrupt>>
            ELSE <<SubSeq(text, dot + 1, end - 1)>>
                   \o (IF text[end] = ";" THEN <<>> ELSE From[end + 1])
  IN  From[1]

=============================================================================
