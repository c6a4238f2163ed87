------------------------------ MODULE GateOutput ------------------------------
(***************************************************************************)
(* What the runner keeps of the output of a Quality Gate command: the      *)
(* chunks it reads are kept up to a limit, the values to redact are        *)
(* replaced by a mark, and the result is cut to the bytes that are         *)
(* allowed. On Windows the end of stdout is kept apart, for the host's     *)
(* report follows it.                                                      *)
(*                                                                         *)
(* A byte is a symbol, a value to redact a sequence of symbols; decoding   *)
(* the bytes is not modelled.                                              *)
(***************************************************************************)
EXTENDS Naturals, Sequences, SequencesExt

CONSTANTS
  Bytes,         \* bound: the symbols that a command writes
  ValueLists,    \* bound: the lists of values to redact, the longest first
  Mark,          \* "[REDACTED]"
  Marker,        \* what precedes the report of the Windows host
  MaximumBytes,  \* maxOutputBytes
  TailBytes,     \* maximumWindowsJobProtocolBytes
  MaxWritten     \* bound: bytes that a command writes

VARIABLES
  values,      \* the values to redact
  text,        \* what the command has written
  kept,        \* the chunks that are kept, joined
  discarded,   \* something was not
  tail,        \* Windows: the end of stdout
  markers      \* Windows: how often the marker was seen

outputVars == <<values, text, kept, discarded, tail, markers>>

Init ==
  /\ values \in ValueLists
  /\ text = << >> /\ kept = << >> /\ discarded = FALSE
  /\ tail = << >> /\ markers = 0

Lengths == {Len(values[i]) : i \in DOMAIN values}
Longest == IF values = << >> THEN 0 ELSE CHOOSE n \in Lengths : \A m \in Lengths : m <= n

RetentionLimit == MaximumBytes + Longest

Prefix(s, n) == SubSeq(s, 1, IF n < Len(s) THEN n ELSE Len(s))

\* BoundedRedactedOutput.append to what is kept.
Kept(sofar, chunk) == Prefix(sofar \o chunk, RetentionLimit)
Discards(sofar, chunk) == Len(sofar) + Len(chunk) > RetentionLimit

OccursAt(value, s, i) == i + Len(value) - 1 <= Len(s) /\ SubSeq(s, i, i + Len(value) - 1) = value

\* One value is replaced from left to right: split and join.
Replaced(value, s) ==
  LET step(acc, i) ==
        IF i < acc.next THEN acc
        ELSE IF OccursAt(value, s, i)
             THEN [text |-> acc.text \o Mark, next |-> i + Len(value)]
             ELSE [text |-> Append(acc.text, s[i]), next |-> i + 1]
  IN  FoldLeft(step, [text |-> << >>, next |-> 1], [i \in 1..Len(s) |-> i]).text

\* The values are replaced one after the other, then the text is cut.
Redacted(s) == FoldLeft(LAMBDA t, value : Replaced(value, t), s, values)

Finished(s, lost) == [text |-> Prefix(Redacted(s), MaximumBytes),
                      truncated |-> lost \/ Len(Redacted(s)) > MaximumBytes]

\* countBufferOccurrences.
Occurrences(s) ==
  LET step(acc, i) == IF i >= acc.next /\ OccursAt(Marker, s, i)
                      THEN [count |-> acc.count + 1, next |-> i + Len(Marker)] ELSE acc
  IN  FoldLeft(step, [count |-> 0, next |-> 1], [i \in 1..Len(s) |-> i]).count

Suffix(s, n) == SubSeq(s, IF n < Len(s) THEN Len(s) - n + 1 ELSE 1, Len(s))

-----------------------------------------------------------------------------
\* A chunk of the command's output arrives: append to the output, and append of
\* WindowsJobStdoutAccumulator, which hands on what is no longer its tail.
Writes ==
  \E chunk \in UNION {[1..n -> Bytes] : n \in 1..2} :
    /\ Len(text) + Len(chunk) <= MaxWritten
    /\ text' = text \o chunk
    /\ LET joined == tail \o chunk
           out == SubSeq(joined, 1, Len(joined) - Len(Suffix(joined, TailBytes)))
       IN  /\ tail' = Suffix(joined, TailBytes)
           /\ kept' = Kept(kept, out)
           /\ discarded' = (discarded \/ Discards(kept, out))
           /\ markers' = markers + Occurrences(Suffix(tail, Len(Marker) - 1) \o chunk)
    /\ UNCHANGED values

Next == Writes

Spec == Init /\ [][Next]_outputVars

\* finish: what would be answered if the output ended here.  The report's marker
\* is in the tail, and what precedes it is output.
Ended == Finished(Kept(kept, tail), discarded \/ Discards(kept, tail))

-----------------------------------------------------------------------------
(* Properties.                                                             *)

Shows(s, value) == \E i \in 1..Len(s) : OccursAt(value, s, i)

\* However the output is cut into chunks: no value to redact is in what is
\* answered, it is not longer than allowed, and says so when it is not all; and
\* it is the beginning of the redacted output, unless a value that is longer
\* than its mark has moved the end of what was kept to where it shows.
OutputIsRedacted ==
  LET answer == Ended.text
  IN  /\ Len(answer) <= MaximumBytes
      /\ \A i \in DOMAIN values : ~Shows(answer, values[i])
      /\ ~Ended.truncated => answer = Redacted(text)
      /\ Longest <= Len(Mark) => IsPrefix(answer, Redacted(text))

\* The marker is counted once for each time it is written.
MarkersAreCounted == markers = Occurrences(text)

GateOutputSafe == OutputIsRedacted /\ MarkersAreCounted

\* Not true: the output that is answered is the beginning of the redacted output.
NothingOfAValueShows == IsPrefix(Ended.text, Redacted(text))
=============================================================================
