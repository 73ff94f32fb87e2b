------------------------------ MODULE Plaintext ------------------------------
(***************************************************************************)
(* PlaintextSerializer and PlaintextDeserializer (serialization.cpp): a    *)
(* text is a sequence of characters, everything is written as strings      *)
(* that end in ";".  A reader starts at a position of the text and answers *)
(* with a value and the position behind it; where the code throws a        *)
(* DeserializationError, it answers with Error.                            *)
(***************************************************************************)
EXTENDS Integers, Sequences, FiniteSets
Seqs == INSTANCE SequencesExt

Concat(texts) == Seqs!FlattenSeq(texts)

MutantEscaped(char) == IF char = ";" THEN <<"\\", char>> ELSE <<char>>
Escaped(char) == IF char \in {";", "\\"} THEN <<"\\", char>> ELSE <<char>>
WriteString(chars) == Concat([i \in 1..Len(chars) |-> Escaped(chars[i])]) \o <<";">>

Error == [error |-> TRUE]
Got(value, next) == [error |-> FALSE, value |-> value, next |-> next]

MutantReadString(text, at) ==   \* takes what there is at the end of the input
  LET read[i \in 1..Len(text) + 1] ==
        IF i > Len(text) \/ (i = Len(text) /\ text[i] = "\\") THEN Got(<<>>, i)
        ELSE IF text[i] = ";" THEN Got(<<>>, i + 1)
        ELSE LET taken == IF text[i] = "\\" THEN i + 1 ELSE i
                 rest == read[taken + 1]
             IN Got(<<text[taken]>> \o rest.value, rest.next)
  IN read[at]
ReadString(text, at) ==
  LET read[i \in 1..Len(text) + 1] ==
        IF i > Len(text) \/ (i = Len(text) /\ text[i] = "\\") THEN Error   \* UnexpectedEof
        ELSE IF text[i] = ";" THEN Got(<<>>, i + 1)
        ELSE LET taken == IF text[i] = "\\" THEN i + 1 ELSE i
                 rest == read[taken + 1]
             IN IF rest.error THEN Error ELSE Got(<<text[taken]>> \o rest.value, rest.next)
  IN read[at]

-----------------------------------------------------------------------------
(* Natural numbers, in decimal digits.  (strtoull would take white space   *)
(* and a sign before them, which nobody writes; the 64 bits that it reads  *)
(* hold every counter, number and size that is written.)                   *)

Digit == <<"0", "1", "2", "3", "4", "5", "6", "7", "8", "9">>
Digits(n) ==
  LET digits[k \in 0..n] ==
        IF k < 10 THEN <<Digit[k + 1]>> ELSE digits[k \div 10] \o <<Digit[(k % 10) + 1]>>
  IN digits[n]
WriteInt(n) == WriteString(Digits(n))

DigitValue(char) == (CHOOSE d \in 1..10 : Digit[d] = char) - 1
Value(chars) ==
  LET value[i \in 0..Len(chars)] ==
        IF i = 0 THEN 0 ELSE 10 * value[i - 1] + DigitValue(chars[i])
  IN value[Len(chars)]

ReadInt(text, at) ==
  LET read == ReadString(text, at)
  IN IF read.error THEN Error
     ELSE IF \/ read.value = <<>>
             \/ \E i \in DOMAIN read.value : \A d \in 1..10 : Digit[d] # read.value[i]
       THEN Error   \* PlaintextInvalidInt
     ELSE Got(Value(read.value), read.next)

-----------------------------------------------------------------------------
\* A set, or a map by its keys, given what is written of each element: the
\* size, then the elements in order.
WriteMany(written) ==
  LET ordered == Seqs!SetToSeq(DOMAIN written)
  IN WriteInt(Len(ordered)) \o Concat([i \in 1..Len(ordered) |-> written[ordered[i]]])
=============================================================================
