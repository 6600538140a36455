---------------------------- MODULE TextConcordance ----------------------------
(* The closed workload of src/text_concordance.rs: lines, ASCII words and     *)
(* their frequencies, computed in one pass over the bytes with every counter  *)
(* checked against its limit.  A byte is a letter, a capital, a line feed or  *)
(* anything else.                                                             *)
EXTENDS Integers, Sequences, SequencesExt, FiniteSets, Functions

CONSTANTS MaxText, MaxLines, MaxWords, MaxFrequency

VARIABLE text

Bytes == {"a", "b", "A", "lf", "other"}
Alphabetic(byte) == byte \in {"a", "b", "A"}
Lower(byte) == IF byte = "A" THEN "a" ELSE byte

LineCount(input) ==
  IF input = <<>> THEN 0
  ELSE Len(SelectSeq(input, LAMBDA b : b = "lf")) + (IF Last(input) = "lf" THEN 0 ELSE 1)

(* A finished word counts once, in lower case.                                *)
RecordWordRaw(scan) ==
  LET word == scan.word
      n == IF word \in DOMAIN scan.frequencies THEN scan.frequencies[word] + 1 ELSE 1 IN
  [word |-> <<>>, count |-> scan.count + 1,
   frequencies |-> [w \in DOMAIN scan.frequencies \cup {word} |-> IF w = word THEN n ELSE scan.frequencies[w]],
   failed |-> scan.failed \/ scan.count + 1 > MaxWords \/ n > MaxFrequency]
record_word(scan) ==
  LET word == [i \in DOMAIN scan.word |-> Lower(scan.word[i])]
      n == IF word \in DOMAIN scan.frequencies THEN scan.frequencies[word] + 1 ELSE 1 IN
  [word |-> <<>>, count |-> scan.count + 1,
   frequencies |-> [w \in DOMAIN scan.frequencies \cup {word} |-> IF w = word THEN n ELSE scan.frequencies[w]],
   failed |-> scan.failed \/ scan.count + 1 > MaxWords \/ n > MaxFrequency]

Scan(byte, scan) ==
  IF Alphabetic(byte) THEN [scan EXCEPT !.word = Append(@, byte)]
  ELSE IF scan.word # <<>> THEN record_word(scan) ELSE scan

process_text_concordance(input) ==
  LET empty == [word |-> <<>>, count |-> 0, frequencies |-> <<>>, failed |-> LineCount(input) > MaxLines]
      last == FoldLeft(LAMBDA scan, byte : Scan(byte, scan), empty, input)
  IN IF last.word # <<>> THEN record_word(last) ELSE last

TextInit == text = <<>>
Extend(byte) == Len(text) < MaxText /\ text' = Append(text, byte)
TextNext == \E byte \in Bytes : Extend(byte)

(* The places where a maximal run of letters begins, and the word there.      *)
Starts == {i \in DOMAIN text : Alphabetic(text[i]) /\ (i = 1 \/ ~Alphabetic(text[i - 1]))}
EndOf(i) == CHOOSE j \in i..Len(text) : /\ \A k \in i..j : Alphabetic(text[k])
                                        /\ j = Len(text) \/ ~Alphabetic(text[j + 1])
WordAt(i) == [k \in 1..EndOf(i) - i + 1 |-> Lower(text[i + k - 1])]

(* The one-pass artifact is the concordance: its frequencies are those of the *)
(* maximal runs of letters regardless of case, and the input is refused       *)
(* exactly when the whole text exceeds a limit.                               *)
ConcordanceExact ==
  LET out == process_text_concordance(text)
      words == {WordAt(i) : i \in Starts}
      frequency(w) == Cardinality({i \in Starts : WordAt(i) = w}) IN
  /\ out.count = Cardinality(Starts) /\ DOMAIN out.frequencies = words
  /\ \A w \in words : out.frequencies[w] = frequency(w)
  /\ out.failed = \/ Cardinality(Starts) > MaxWords
                  \/ \E w \in words : frequency(w) > MaxFrequency
                  \/ LineCount(text) > MaxLines
=============================================================================
