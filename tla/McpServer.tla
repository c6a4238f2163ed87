------------------------------ MODULE McpServer ------------------------------
(***************************************************************************)
(* The MCP server on the standard streams of the desktop: bytes that come  *)
(* in chunks of any size, their lines, the state of the connection, and    *)
(* answers that are written one after the other.                           *)
(*                                                                         *)
(* A message is one symbol, and a line that is not a single one does not   *)
(* parse; "bad" is a byte that is not UTF-8. Every request has an id, and  *)
(* only "initialized" is a notification. The settings' token is given to   *)
(* server and loop alike, so that each message is authorized.              *)
(***************************************************************************)
EXTENDS Naturals, Sequences, FiniteSetsExt, SequencesExt

CONSTANTS
  Symbols,    \* those that the client sends, beside Newline
  Newline,
  Limit,      \* symbols of a message
  MaxChunk,   \* bound: symbols of a chunk
  MaxInput,   \* bound: symbols in all
  None

VARIABLES
  sent,       \* all that has arrived
  closed,     \* the input has ended
  chunk,      \* what readFrames has still to look at
  buffer,     \* the bytes of the line so far
  discarding, \* the line is too long
  frame,      \* the line that is handled: [kind, raw], or None
  state,      \* of the connection
  response,   \* what is being written, or None
  answers,    \* what has been written
  loop        \* "running", "ended" or "failed"

framing == <<chunk, buffer, discarding>>
mcpVars == <<sent, closed, framing, frame, state, response, answers, loop>>

Init ==
  /\ sent = << >> /\ closed = FALSE /\ chunk = << >> /\ buffer = << >> /\ discarding = FALSE
  /\ frame = None /\ state = "NEW" /\ response = None /\ answers = << >> /\ loop = "running"

-----------------------------------------------------------------------------
(* What a message is answered, and what it makes of the connection.        *)

Handshake(connection, message) ==
  IF message = "initialize" /\ connection = "NEW" THEN "INITIALIZING"
  ELSE IF message = "initialized" /\ connection = "INITIALIZING" THEN "READY"
  ELSE connection

\* dispatch. A request by the name of a tool needs no handshake; a tool that fails is
\* an answer as well.
Reply(connection, message) ==
  CASE message = "initialized" -> None
    [] message = "ping" -> "ok"
    [] message = "initialize" -> IF connection = "NEW" THEN "ok" ELSE "refused"
    [] message \in {"list", "call"} -> IF connection = "READY" THEN "ok" ELSE "uninitialized"
    [] message = "failing" -> IF connection = "READY" THEN "failed" ELSE "uninitialized"
    [] message = "get-task" -> "ok"
    [] OTHER -> "unknown"

-----------------------------------------------------------------------------
(* readFrames.                                                             *)

Idle == loop = "running" /\ frame = None /\ response = None

ChunkArrives ==
  /\ Idle /\ ~closed /\ chunk = << >>
  /\ \E size \in 1..MaxChunk : \E symbols \in [1..size -> Symbols \union {Newline}] :
       /\ Len(sent) + size <= MaxInput
       /\ chunk' = symbols /\ sent' = sent \o symbols
  /\ UNCHANGED <<closed, buffer, discarding, frame, state, response, answers, loop>>

\* finish: what became of the line.
Finished(line, tooLong) ==
  IF tooLong THEN [kind |-> "oversized", raw |-> << >>]
  ELSE IF Contains(line, "bad") THEN [kind |-> "invalid-utf8", raw |-> << >>]
  ELSE [kind |-> "message", raw |-> line]

\* A segment of the chunk, up to its first newline or to its end.
LineEnd == Min({i \in 1..Len(chunk) : chunk[i] = Newline} \union {Len(chunk) + 1})
Segment == SubSeq(chunk, 1, LineEnd - 1)

\* Mutant of StillDiscarding: a newline does not end it.
StaysDiscarding(tooLong, ended) == tooLong
StillDiscarding(tooLong, ended) == tooLong /\ ~ended

TakeSegment ==
  LET tooLong == discarding \/ Len(buffer) + Len(Segment) > Limit
      line == IF tooLong THEN << >> ELSE buffer \o Segment
      ended == LineEnd <= Len(chunk)
  IN  /\ Idle /\ chunk # << >>
      /\ chunk' = SubSeq(chunk, LineEnd + 1, Len(chunk))
      /\ IF ended THEN frame' = Finished(line, tooLong) ELSE UNCHANGED frame
      /\ buffer' = IF ended THEN << >> ELSE line
      /\ discarding' = StillDiscarding(tooLong, ended)
      /\ UNCHANGED <<sent, closed, state, response, answers, loop>>

InputCloses ==
  /\ ~closed /\ closed' = TRUE
  /\ UNCHANGED <<sent, framing, frame, state, response, answers, loop>>

\* The last line may lack its newline; the loop ends after it.
LastFrame ==
  /\ Idle /\ closed /\ chunk = << >>
  /\ IF buffer # << >> \/ discarding
     THEN /\ frame' = Finished(buffer, discarding)
          /\ buffer' = << >> /\ discarding' = FALSE
          /\ UNCHANGED loop
     ELSE loop' = "ended" /\ UNCHANGED <<frame, buffer, discarding>>
  /\ UNCHANGED <<sent, closed, chunk, state, response, answers>>

-----------------------------------------------------------------------------
(* runMcpStdioServer.                                                      *)

\* handleRaw: blank lines are passed over.
FrameReply(connection, line) ==
  IF line.kind # "message" THEN line.kind
  ELSE IF line.raw = << >> THEN None
  ELSE IF Len(line.raw) = 1 THEN Reply(connection, line.raw[1]) ELSE "unparsed"
FrameHeard(connection, line) ==
  IF line.kind = "message" /\ Len(line.raw) = 1
  THEN Handshake(connection, line.raw[1]) ELSE connection

HandleFrame ==
  /\ frame # None /\ response = None /\ loop = "running"
  /\ frame' = None
  /\ response' = FrameReply(state, frame)
  /\ state' = FrameHeard(state, frame)
  /\ UNCHANGED <<sent, closed, framing, answers, loop>>

\* writeResponse is waited for; when it fails the loop ends.
ResponseWritten ==
  /\ response # None /\ loop = "running"
  /\ \/ answers' = Append(answers, response) /\ UNCHANGED loop
     \/ loop' = "failed" /\ UNCHANGED answers
  /\ response' = None
  /\ UNCHANGED <<sent, closed, framing, frame, state>>

Next ==
  \/ ChunkArrives \/ TakeSegment \/ InputCloses \/ LastFrame
  \/ HandleFrame \/ ResponseWritten

Spec == Init /\ [][Next]_mcpVars

-----------------------------------------------------------------------------
(* What must hold.                                                         *)

\* The answers to whole input, as if it came at once: symbol by symbol, the line so
\* far, and at its end what it does to the connection and is answered.
Heard(connection, line) ==
  IF Len(line) = 1 THEN Handshake(connection, line[1]) ELSE connection
LineReply(connection, line) ==
  IF Len(line) > Limit THEN "oversized"
  ELSE IF Contains(line, "bad") THEN "invalid-utf8"
  ELSE IF line = << >> THEN None
  ELSE IF Len(line) = 1 THEN Reply(connection, line[1]) ELSE "unparsed"
Says(said, reply) == IF reply = None THEN said ELSE Append(said, reply)

Fresh == [line |-> << >>, connection |-> "NEW", said |-> << >>]
Reads(past, symbol) ==
  IF symbol = Newline
  THEN [line |-> << >>, connection |-> Heard(past.connection, past.line),
        said |-> Says(past.said, LineReply(past.connection, past.line))]
  ELSE [line |-> Append(past.line, symbol), connection |-> past.connection,
        said |-> past.said]
Session(input) ==
  LET past[n \in 0..Len(input)] ==
        IF n = 0 THEN Fresh ELSE Reads(past[n - 1], input[n])
  IN  past[Len(input)]

\* The answers to all that has arrived when it ends here.
WholeAnswers == Session(Append(sent, Newline)).said

\* runMcpStdioServer: however the input is cut into chunks and whatever lines are
\* oversized, torn or not JSON, the answers written are those to the whole lines so
\* far, in order, one for each request and none for a notification; a last line that
\* the end of the input completes is answered too.
AnswersAreThoseOfTheLines ==
  /\ Idle /\ chunk = << >> /\ ~closed
       => Session(sent).connection = state /\ Session(sent).said = answers
  /\ loop = "ended" => answers = WholeAnswers
  /\ IsPrefix(answers, WholeAnswers)

-----------------------------------------------------------------------------
(* The inductive invariant.                                                *)

Input == Symbols \union {Newline}
Connections == {"NEW", "INITIALIZING", "READY"}
Frames == [kind : {"oversized", "invalid-utf8", "message"}, raw : Seq(Symbols)]
Replies == {"ok", "refused", "uninitialized", "failed", "unknown", "oversized",
            "invalid-utf8", "unparsed"}

\* A newline is no part of a line, and a line of one symbol is not too long.
WellFormed ==
  /\ Limit \in Nat \ {0} /\ MaxChunk \in Nat
  /\ Newline \notin Symbols /\ None \notin Replies /\ None \notin Frames

TypeOK ==
  /\ sent \in Seq(Input) /\ chunk \in Seq(Input) /\ buffer \in Seq(Symbols)
  /\ closed \in BOOLEAN /\ discarding \in BOOLEAN
  /\ frame \in Frames \union {None} /\ state \in Connections
  /\ response \in Replies \union {None} /\ answers \in Seq(Replies)
  /\ loop \in {"running", "ended", "failed"}

\* What readFrames has looked at, which is all but the chunk.
Consumed == SubSeq(sent, 1, Len(sent) - Len(chunk))
ChunkIsLast ==
  /\ Len(chunk) <= Len(sent)
  /\ \A i \in DOMAIN chunk : chunk[i] = sent[Len(sent) - Len(chunk) + i]

\* The buffer holds the line so far unless it is too long, or the end of the input
\* has completed it.
BufferIsLine ==
  LET line == Session(Consumed).line
  IN  \/ /\ discarding <=> Len(line) > Limit
         /\ buffer = IF discarding THEN << >> ELSE line
      \/ closed /\ chunk = << >> /\ buffer = << >> /\ ~discarding

\* What has been read, with a last line that is no longer in the buffer.
Taken ==
  IF buffer = << >> /\ ~discarding
  THEN Session(Append(Consumed, Newline)) ELSE Session(Consumed)

\* The line that is handled, or its answer on its way, is what lacks.
Pending == IF frame = None THEN response ELSE FrameReply(state, frame)
AnswersAreNext ==
  /\ frame # None => response = None
  /\ loop # "failed" =>
       /\ Taken.connection = IF frame = None THEN state ELSE FrameHeard(state, frame)
       /\ Taken.said = Says(answers, Pending)
  /\ IsPrefix(answers, Taken.said)

EndIsLast ==
  loop = "ended" => /\ closed /\ chunk = << >> /\ buffer = << >> /\ ~discarding
                    /\ frame = None /\ response = None

IInv == TypeOK /\ ChunkIsLast /\ BufferIsLine /\ AnswersAreNext /\ EndIsLast
=============================================================================
