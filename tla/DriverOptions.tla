---------------------------- MODULE DriverOptions ----------------------------
(***************************************************************************)
(* The line of CONFIG.SYS as parse_options reads it.  A line is the        *)
(* sequence of its characters up to the end-of-line character; of the      *)
(* letters only those of the options matter, in capitals, and what stands  *)
(* for itself in no option is "x".                                         *)
(***************************************************************************)
EXTENDS Integers, Sequences, SequencesExt

Blank   == {" "}
Digits  == {"0", "1", "2", "6"}
Letters == {"D", "K", "P", "B"}
Char    == Blank \cup Digits \cup Letters \cup {"/", "=", "x"}

DigitValue == [c \in Digits |-> CASE c = "0" -> 0 [] c = "1" -> 1 [] c = "2" -> 2 [] c = "6" -> 6]

At(line, p) == IF p \in DOMAIN line THEN line[p] ELSE "eol"

\* The first place from p on that has none of the characters: spanwhite, and the
\* loop of option_value.
Span(line, p, chars) ==
    CHOOSE q \in p .. Len(line) + 1 :
        At(line, q) \notin chars /\ \A r \in p .. q - 1 : line[r] \in chars

\* option_value computes in 16 bits.
Value(digits) == FoldLeft(LAMBDA v, c : (10 * v + DigitValue[c]) % 65536, 0, digits)

\* What is stored in partition_number, 8 bits wide: the else belongs to the inner if,
\* which asks for debug.
Stored(old, v, debug) == IF v \notin 1..4 /\ ~debug THEN v % 256 ELSE old

\* option_value wants at least one digit.
NumberAt_empty_mutant(line, p) == At(line, p) = "="
NumberAt(line, p) == At(line, p) = "=" /\ At(line, p + 1) \in Digits

\* One round of the loop of parse_options.  A line that is not accepted leaves what
\* was set before.  (portbase is 1 after any number: it is assigned in a condition.)
Round(line, s) ==
    LET letter    == At(line, s.at + 1)
        hasValue  == letter \in {"P", "B"}
        digitsEnd == Span(line, s.at + 3, Digits)
        good == /\ At(line, s.at) = "/" /\ letter \in Letters
                /\ hasValue => NumberAt(line, s.at + 2)
        v == Value(SubSeq(line, s.at + 3, digitsEnd - 1))
    IN  IF ~good THEN [s EXCEPT !.ok = FALSE]
        ELSE [ok        |-> TRUE,
              at        |-> Span(line, IF hasValue THEN digitsEnd ELSE s.at + 2, Blank),
              debug     |-> s.debug \/ letter = "D",
              partition |-> IF letter = "P" THEN Stored(s.partition, v, s.debug) ELSE s.partition,
              port      |-> IF letter = "B" THEN 1 ELSE s.port]

\* The line begins with the name of the driver.
NameEnd(line) == CHOOSE p \in 1 .. Len(line) + 1 :
    At(line, p) \in Blank \cup {"eol"} /\ \A r \in 1 .. p - 1 : line[r] \notin Blank

\* parse_options.  A round reads two characters at least.
Parsed(line) ==
    LET After[n \in 0 .. Len(line)] ==
            IF n = 0 THEN [ok |-> TRUE, at |-> Span(line, NameEnd(line), Blank), debug |-> FALSE,
                           partition |-> 0, port |-> 0]
            ELSE LET s == After[n - 1]
                 IN  IF ~s.ok \/ s.at > Len(line) THEN s ELSE Round(line, s)
    IN  After[Len(line)]

-----------------------------------------------------------------------------
(* The lines meant: blanks and options, where an option is a slash, a letter and,  *)
(* for P and B, a number.  Which character may follow which says it all.            *)

Option_or_end == Blank \cup {"/", "eol"}
Follows == [c \in Char |->
    CASE c \in Blank \cup {"D", "K"} -> Option_or_end
      [] c = "/" -> Letters
      [] c \in {"P", "B"} -> {"="}
      [] c = "=" -> Digits
      [] c \in Digits -> Digits \cup Option_or_end
      [] OTHER -> {}]

WellFormed(line) ==
    \A p \in NameEnd(line) .. Len(line) : At(line, p + 1) \in Follows[line[p]]
=============================================================================
