----------------------------- MODULE ItchParser ------------------------------
(***************************************************************************)
(* Itch50Parser::parse and reset of include/modules/parser_itch50.hpp: the *)
(* loop over a buffer of concatenated messages, and a caller that parses   *)
(* on from bytes_consumed() after the event limit stopped a call.          *)
(*                                                                         *)
(* parse looks at the type byte of a message and at the bytes left, so a   *)
(* buffer is the sequence of its messages with the number of bytes each    *)
(* has.  A message shorter than its type asks for, or of unknown type, can *)
(* only be the last: the parser does not look behind it.                   *)
(***************************************************************************)
EXTENDS ItchEvents, SequencesExt

CONSTANTS Buffers,       \* the buffers a caller may have
          MaxEvents      \* max_events; 32 in the code

ASSUME ParserAssumption == MaxEvents \in Nat \ {0}

Message == [type : STRING, reference : Nat, newReference : Nat, bid : BOOLEAN,
            price : Nat, shares : Nat, size : Nat \ {0}]

\* A message that is whole and of a known type.
Whole(m) == LengthFor(m.type) # 0 /\ m.size = LengthFor(m.type)

ASSUME BuffersAssumption ==
  \A b \in Buffers :
    /\ b \in Seq(Message)
    /\ \A k \in DOMAIN b :
         \/ Whole(b[k])
         \/ k = Len(b) /\ (LengthFor(b[k].type) = 0 \/ b[k].size < LengthFor(b[k].type))

VARIABLES
  buffer,                \* the caller's buffer
  base,                  \* where in it the last call started
  offset, running,       \* the loop of a call under way
  events,                \* events_[0 .. event_count_ - 1]
  byteCount, consumed,   \* byte_count_, consumed_
  status,                \* status_
  delivered              \* history: the events of the calls since the start

parserVars == <<buffer, base, offset, running, events, byteCount, consumed, status, delivered>>

SizeOf(messages) == FoldLeft(LAMBDA n, m : n + m.size, 0, messages)
StartOf(k) == SizeOf(SubSeq(buffer, 1, k - 1))

\* The message at the parser's position.
Current == buffer[CHOOSE k \in DOMAIN buffer : StartOf(k) = base + offset]

ParserInit ==
  /\ buffer \in Buffers
  /\ base = 0 /\ offset = 0 /\ running = FALSE
  /\ events = <<>> /\ byteCount = 0 /\ consumed = 0 /\ status = "ok"
  /\ delivered = <<>>

\* The caller's two ways to call parse: from the start of the buffer, or on
\* from the bytes consumed.
ParseFrom(start) ==
  /\ ~running /\ running' = TRUE
  /\ base' = start /\ offset' = 0
  /\ events' = <<>> /\ byteCount' = SizeOf(buffer) - start /\ status' = "ok"
  /\ UNCHANGED <<buffer, consumed>>

ParseAll == ParseFrom(0) /\ byteCount = 0 /\ UNCHANGED delivered
ParseOn == ParseFrom(base + consumed) /\ status = "event_limit" /\ UNCHANGED delivered

\* Why the loop stops before the end of the buffer, in the order of its tests.
\* Mutants: the limit is tested before an event that would still fit; a
\* message cut off by one byte is taken for a whole one.
StopReasonEarly ==
  IF Len(events) >= MaxEvents - 1 THEN "event_limit"
  ELSE IF LengthFor(Current.type) = 0 THEN "unknown_type"
  ELSE IF byteCount - offset < LengthFor(Current.type) THEN "truncated"
  ELSE "ok"

StopReasonSlack ==
  IF Len(events) >= MaxEvents THEN "event_limit"
  ELSE IF LengthFor(Current.type) = 0 THEN "unknown_type"
  ELSE IF byteCount - offset < LengthFor(Current.type) - 1 THEN "truncated"
  ELSE "ok"

StopReason ==
  IF Len(events) >= MaxEvents THEN "event_limit"
  ELSE IF LengthFor(Current.type) = 0 THEN "unknown_type"
  ELSE IF byteCount - offset < LengthFor(Current.type) THEN "truncated"
  ELSE "ok"

TakeMessage ==
  /\ running /\ offset < byteCount /\ StopReason = "ok"
  /\ events' = Append(events, Decode(Current))
  /\ offset' = offset + LengthFor(Current.type)
  /\ UNCHANGED <<buffer, base, running, byteCount, consumed, status, delivered>>

\* Mutant: a truncated message makes the loop continue instead of ending it.
ReturnSpins ==
  /\ running
  /\ offset < byteCount => StopReason # "ok"
  /\ IF offset < byteCount /\ StopReason = "truncated"
       THEN UNCHANGED parserVars
       ELSE /\ status' = IF offset < byteCount THEN StopReason ELSE "ok"
            /\ consumed' = offset /\ running' = FALSE
            /\ delivered' = delivered \o events
            /\ UNCHANGED <<buffer, base, offset, events, byteCount>>

Return ==
  /\ running
  /\ offset < byteCount => StopReason # "ok"
  /\ status' = IF offset < byteCount THEN StopReason ELSE "ok"
  /\ consumed' = offset
  /\ running' = FALSE
  /\ delivered' = delivered \o events
  /\ UNCHANGED <<buffer, base, offset, events, byteCount>>

\* reset, after which the caller starts over.
Reset ==
  /\ ~running /\ byteCount > 0 /\ status # "event_limit"
  /\ events' = <<>> /\ byteCount' = 0 /\ consumed' = 0 /\ status' = "ok"
  /\ base' = 0 /\ offset' = 0 /\ delivered' = <<>>
  /\ UNCHANGED <<buffer, running>>

ParserNext == ParseAll \/ ParseOn \/ TakeMessage \/ Return \/ Reset

\* parse is a call that runs to its end; the caller goes on while there is
\* something left that only the event limit held back.
ParserFairness == WF_parserVars(TakeMessage \/ Return) /\ WF_parserVars(ParseOn)

ParserSpec == ParserInit /\ [][ParserNext]_parserVars /\ ParserFairness

------------------------------------------------------------------------------
\* The whole messages at the start of the buffer.
WholePart ==
  SubSeq(buffer, 1, Max({n \in 0 .. Len(buffer) : \A k \in 1 .. n : Whole(buffer[k])}))
Finished == ~running /\ byteCount > 0 /\ status # "event_limit"

\* status() explains the stop, as the comments of ParseStatus and of
\* bytes_consumed() say: ok exactly when the whole buffer was consumed, and
\* otherwise the bytes consumed end where the named obstacle begins.  A buffer
\* of exactly max_events messages is not an event-limit stop.
StatusExplainsStop ==
  ~running /\ byteCount > 0 =>
    /\ status = "ok" <=> consumed = byteCount
    /\ status # "ok" =>
         LET next == buffer[CHOOSE k \in DOMAIN buffer : StartOf(k) = base + consumed] IN
         status = IF Len(events) = MaxEvents THEN "event_limit"
                  ELSE IF next.type \notin DOMAIN KnownLengths THEN "unknown_type"
                  ELSE "truncated"

\* However many calls the event limit cuts the buffer into, the calls deliver
\* the events of its whole messages, each once and in order: a prefix of them
\* at any time and all of them once a call stops for another reason.
NothingLostBetweenCalls ==
  LET all == [k \in DOMAIN WholePart |-> Decode(WholePart[k])] IN
  /\ IsPrefix(delivered, all)
  /\ Finished => delivered = all

\* A caller that parses on always gets to the end of the buffer: every call
\* stopped by the event limit has consumed something.
ParsingEnds == running ~> Finished
==============================================================================
