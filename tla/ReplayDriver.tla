---------------------------- MODULE ReplayDriver -----------------------------
(***************************************************************************)
(* The replay tool, tools/itch_replay.cpp, from the mapped file to the     *)
(* stream the pipeline runs on: pass 1 counts the adds of each stock, then *)
(* one stock is chosen, and pass 2 pushes its messages.  Both passes read  *)
(* with Walker of tools/itch_analysis.hpp, one turn of their loops a step. *)
(*                                                                         *)
(* The file is the sequence of its frames, each with the length its header *)
(* says; the slice may end anywhere inside the last frame.  What pass 2    *)
(* does to the full-depth book is in ReplayBooks, the pipeline in          *)
(* TickToTrade; counters that are only printed are left out.               *)
(***************************************************************************)
EXTENDS ReplaySchedule, SequencesExt, FiniteSetsExt

CONSTANTS Files,         \* pairs of the frames of a file and its size in bytes
          Symbols,       \* what --symbol may ask for
          Limits,        \* what --model-messages may say
          ModelCapacity  \* kModelCapacity; 20000 in the tool

ASSUME StreamAssumption == ModelCapacity \in Nat \ {0}

\* With a limit of 0 the tool would read the message before the first.
ASSUME DriverAssumption == Limits \subseteq 1 .. ModelCapacity

NoSymbol == "any"        \* --symbol not given

VARIABLES
  file, size,            \* data and size, mapped
  want, modelMessages,   \* want_symbol, model_messages
  main,                  \* where main stands
  offset, stop,          \* the walker of the pass under way
  directory, adds,       \* directory, adds_by_locate
  locate,                \* the stock followed; 0 for none
  prevTs, havePrev,      \* prev_ts, have_prev
  arrival,               \* arrival
  bookMsgs,              \* book_msgs
  stream                 \* messages_[0 .. count_ - 1] of the ReplayStream

passOneVars == <<directory, adds>>
passTwoVars == <<stream, arrival, prevTs, havePrev, bookMsgs>>
inputVars == <<file, size, want, modelMessages>>
driverVars == <<inputVars, main, offset, stop, passOneVars, locate, passTwoVars>>

(***************************************************************************)
(* ReplayStream of include/pipeline/real_itch.hpp: the messages of the     *)
(* replay, as they are in the file, with the cycle each arrives in.        *)
(***************************************************************************)
MessageBytes == 40

\* push: refused when the stream is full or the message does not fit.
\* Mutant: the longest message, F, does not fit.
PushOkShort(m) == Len(stream) < ModelCapacity /\ m.length # 0 /\ m.length < MessageBytes

PushOk(m) == Len(stream) < ModelCapacity /\ m.length # 0 /\ m.length <= MessageBytes

push(m, at) ==
  stream' = IF PushOk(m) THEN Append(stream, [message |-> m, arrival |-> at]) ELSE stream

------------------------------------------------------------------------------
(***************************************************************************)
(* Walker of tools/itch_analysis.hpp.                                      *)
(***************************************************************************)
\* spec_length: 0 for a type that is not one of version 5.0.
SpecLengths == [S |-> 12, R |-> 39, H |-> 25, Y |-> 20, L |-> 26, V |-> 35, W |-> 12, K |-> 28,
                J |-> 35, h |-> 21, A |-> 36, F |-> 40, E |-> 31, C |-> 36, X |-> 23, D |-> 19,
                U |-> 35, P |-> 44, Q |-> 40, B |-> 19, I |-> 50, N |-> 20]
SpecLength(type) == IF type \in DOMAIN SpecLengths THEN SpecLengths[type] ELSE 0

HeaderBytes == 2
SizeOf(frames) == FoldLeft(LAMBDA n, f : n + HeaderBytes + f.length, 0, frames)

\* A frame is what the walker and the passes read of it, and the frames cover
\* the slice.
FrameRecord == [type : STRING, length : Nat, locate : Nat, ts : Nat, stock : STRING]

ASSUME FilesAssumption ==
  \A f \in Files : f.frames \in Seq(FrameRecord) /\ f.size \in 0 .. SizeOf(f.frames)

\* The frame that starts at the walker's offset.
Frame == file[CHOOSE k \in DOMAIN file : SizeOf(SubSeq(file, 1, k - 1)) = offset]

\* Walker::next: why it returns no message, in the order of its tests.
\* Mutant: the length is checked before it is known that the message is all
\* there.
WhyStoppedFraming ==
  IF offset >= size THEN "end"
  ELSE IF size - offset < HeaderBytes THEN "truncated_tail"
  ELSE IF Frame.length = 0 \/ SpecLength(Frame.type) # Frame.length THEN "bad_framing"
  ELSE IF size - offset - HeaderBytes < Frame.length THEN "truncated_tail"
  ELSE "no"

WhyStopped ==
  IF offset >= size THEN "end"
  ELSE IF size - offset < HeaderBytes THEN "truncated_tail"
  ELSE IF size - offset - HeaderBytes < Frame.length THEN "truncated_tail"
  ELSE IF Frame.length = 0 \/ SpecLength(Frame.type) # Frame.length THEN "bad_framing"
  ELSE "no"

WalkerNext ==
  IF WhyStopped = "no"
    THEN offset' = offset + HeaderBytes + Frame.length /\ UNCHANGED stop
    ELSE stop' = WhyStopped /\ UNCHANGED offset

\* The maps of pass 1: no entries, and an entry assigned.
NoEntries == [l \in {} |-> 0]
Assign(map, l, v) == [k \in DOMAIN map \cup {l} |-> IF k = l THEN v ELSE map[k]]

DriverInit ==
  /\ \E f \in Files : file = f.frames /\ size = f.size
  /\ want \in Symbols \cup {NoSymbol} /\ modelMessages \in Limits
  /\ main = "pass 1"
  /\ offset = 0 /\ stop = "end"
  /\ directory = NoEntries /\ adds = NoEntries /\ locate = 0
  /\ stream = <<>> /\ arrival = 0 /\ prevTs = 0 /\ havePrev = FALSE /\ bookMsgs = 0

PassOneMessage ==
  /\ main = "pass 1" /\ WhyStopped = "no" /\ WalkerNext
  /\ directory' = IF Frame.type = "R" THEN Assign(directory, Frame.locate, Frame.stock)
                                      ELSE directory
  /\ adds' = IF Frame.type \in {"A", "F"}
               THEN Assign(adds, Frame.locate,
                           IF Frame.locate \in DOMAIN adds THEN adds[Frame.locate] + 1 ELSE 1)
               ELSE adds
  /\ UNCHANGED <<inputVars, main, locate, passTwoVars>>

PassOneEnds ==
  /\ main = "pass 1" /\ WhyStopped # "no" /\ WalkerNext
  /\ IF WhyStopped = "bad_framing" THEN main' = "exit 1" ELSE main' = "choose"
  /\ UNCHANGED <<inputVars, passOneVars, locate, passTwoVars>>

\* The two loops run over maps, in increasing order of the locate.
Named == Max({0} \cup {l \in DOMAIN directory : directory[l] = want})

Busiest ==
  IF DOMAIN adds = {} THEN 0
    ELSE Min({l \in DOMAIN adds : \A k \in DOMAIN adds : adds[k] <= adds[l]})

ChooseStock ==
  /\ main = "choose"
  /\ locate' = IF want = NoSymbol THEN Busiest ELSE Named
  /\ IF want # NoSymbol /\ locate' = 0 THEN main' = "exit 1" ELSE main' = "pass 2"
  /\ offset' = 0 /\ stop' = "end"                       \* Walker w2
  /\ UNCHANGED <<inputVars, passOneVars, passTwoVars>>

BookTypes == {"A", "F", "E", "C", "X", "D", "U"}
Followed(f) == f.type \in BookTypes /\ f.locate = locate

\* Mutant: the loop continues without having moved the walker on.
PassTwoSkipsStuck ==
  /\ main = "pass 2" /\ WhyStopped = "no"
  /\ ~Followed(Frame)
  /\ UNCHANGED driverVars

PassTwoSkips ==
  /\ main = "pass 2" /\ WhyStopped = "no" /\ WalkerNext
  /\ ~Followed(Frame)
  /\ UNCHANGED <<inputVars, main, passOneVars, locate, passTwoVars>>

PassTwoMessage ==
  /\ main = "pass 2" /\ WhyStopped = "no" /\ WalkerNext
  /\ Followed(Frame)
  /\ bookMsgs' = bookMsgs + 1
  /\ IF Len(stream) < modelMessages
       THEN /\ arrival' = IF havePrev THEN arrival + Capped(Cycles(Elapsed(prevTs, Frame.ts)))
                                      ELSE arrival
            /\ prevTs' = Frame.ts /\ havePrev' = TRUE
            /\ push(Frame, arrival')
       ELSE UNCHANGED <<stream, arrival, prevTs, havePrev>>
  /\ UNCHANGED <<inputVars, main, passOneVars, locate>>

\* After pass 2 the model runs, if there is anything to run it on.
PassTwoEnds ==
  /\ main = "pass 2" /\ WhyStopped # "no" /\ WalkerNext
  /\ IF bookMsgs = 0 THEN main' = "exit 1" ELSE main' = "model"
  /\ UNCHANGED <<inputVars, passOneVars, locate, passTwoVars>>

DriverNext ==
  \/ PassOneMessage \/ PassOneEnds \/ ChooseStock
  \/ PassTwoSkips \/ PassTwoMessage \/ PassTwoEnds

DriverSpec == DriverInit /\ [][DriverNext]_driverVars /\ WF_driverVars(DriverNext)

------------------------------------------------------------------------------
(***************************************************************************)
(* What the file says, without walking it.                                 *)
(***************************************************************************)
\* The frames before the first one that is not all there or not well formed.
WellFramed(f) == f.type \in DOMAIN SpecLengths /\ f.length = SpecLengths[f.type]
InFile(k) == SizeOf(SubSeq(file, 1, k)) <= size
Messages ==
  LET good == {n \in 0 .. Len(file) : \A k \in 1 .. n : InFile(k) /\ WellFramed(file[k])} IN
  SubSeq(file, 1, Max(good))

\* The places of a stock's messages of some types, and the first places of a
\* set up to one of them.
Places(types, l) ==
  {k \in DOMAIN Messages : Messages[k].type \in types /\ Messages[k].locate = l}
UpTo(places, k) == {i \in places : i <= k}

Of(l) == Places(BookTypes, l)
AddsOf(l) == Cardinality(Places({"A", "F"}, l))
Locates == {file[k].locate : k \in DOMAIN file}
Ended == main \in {"model", "exit 1"}

\* A slice is rejected for its framing exactly when a message that is all in
\* the file is not well formed; one cut off at the end of the slice, even in
\* its header, is not an error ("truncated final message (slice boundary)").
RejectedForFraming ==
  main # "pass 1" =>
    (stop = "bad_framing"
       <=> \E k \in DOMAIN file : InFile(k) /\ ~WellFramed(file[k])
                                    /\ \A j \in 1 .. k - 1 : WellFramed(file[j]))

\* Without --symbol the stock followed has the most adds of the whole slice
\* and, of those with as many, the lowest locate.
FollowsBusiest ==
  main \in {"pass 2", "model"} /\ want = NoSymbol /\ locate # 0 =>
    \A l \in Locates : AddsOf(l) < AddsOf(locate) \/ (AddsOf(l) = AddsOf(locate) /\ locate <= l)

\* The model runs on the first messages of the followed stock that touch the
\* book, all of them up to modelMessages, in the order of the file and none
\* skipped: each would otherwise leave the model's book wrong for good.  The
\* stock is the busiest of the slice unless one was named.
StreamIsSlice ==
  /\ FollowsBusiest
  /\ main = "model" =>
       LET n == Cardinality(Of(locate)) IN
       /\ Len(stream) = IF n < modelMessages THEN n ELSE modelMessages
       /\ \A k \in Of(locate) :
            LET j == Cardinality(UpTo(Of(locate), k)) IN
            j <= Len(stream) => stream[j].message = Messages[k]

\* The k-th message's distance from the first, in nanoseconds.
SinceFirst(k) == stream[k].message.ts - stream[1].message.ts
InTime == \A k \in 1 .. Len(stream) - 1 : stream[k].message.ts <= stream[k + 1].message.ts
Uncapped ==
  \A k \in 1 .. Len(stream) - 1 :
    Cycles(stream[k + 1].message.ts - stream[k].message.ts) <= GapCap

\* Arrival cycles never go back, and where time stamps do not go back and no
\* gap is capped they follow them: never late and early by less than one
\* cycle for each gap, since every gap is rounded down on its own.
ArrivalsFollowTime ==
  /\ \A k \in 1 .. Len(stream) - 1 : stream[k].arrival <= stream[k + 1].arrival
  /\ InTime /\ Uncapped => \A k \in DOMAIN stream :
       SinceFirst(k) * NsDenominator - stream[k].arrival * NsNumerator
         \in 0 .. (k - 1) * (NsNumerator - 1)

\* Both passes end, whatever the file.
DriverEnds == <>Ended
==============================================================================
