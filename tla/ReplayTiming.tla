---------------------------- MODULE ReplayTiming -----------------------------
(***************************************************************************)
(* The last part of the replay tool (tools/itch_replay.cpp): the arrival   *)
(* schedule with its capped gaps, and the loop that steps the pipeline     *)
(* until it is done or a limit past the last arrival is reached.           *)
(*                                                                         *)
(* The pipeline is used through what LatencyLaw of PipelineProperties says *)
(* of it: a message waits for the wire, takes a cycle for each of its      *)
(* blocks and is posted a fixed number of cycles after the last block.     *)
(* Beside the schedule of the tool runs the one without a cap, which       *)
(* follows the time stamps alone.                                          *)
(***************************************************************************)
EXTENDS ReplaySchedule

CONSTANTS Gaps,          \* cycles between two messages by their time stamps
          Blocks,        \* the numbers of blocks of the messages
          MaxBlocks,     \* a bound on them
          MaxMessages,   \* model_messages
          StageCycles,   \* cycles behind the wire
          Slack,         \* cycles granted after the last arrival
          MayFail        \* whether a message may make a stage report an error

ASSUME TimingAssumption ==
  /\ Gaps \subseteq Nat
  /\ MaxBlocks \in Nat /\ Blocks \subseteq 1 .. MaxBlocks
  /\ MaxMessages \in Nat \ {0} /\ StageCycles \in Nat \ {0} /\ Slack \in Nat
  /\ MayFail \subseteq BOOLEAN

VARIABLES
  count,                 \* messages in the stream
  lastArrival, wireFree, \* the last arrival and the cycle after its last block
  exact, exactFree,      \* the same by the time stamps alone
  cutBacklog,            \* history: a gap was cut while the wire was behind
  failing,               \* cycle of the first error a stage would report; -1 for none
  error,                 \* error_ of the pipeline
  outcome                \* of the loop: pipeline.ok() or not

streamVars == <<count, lastArrival, wireFree, exact, exactFree, cutBacklog, failing>>
timingVars == <<streamVars, error, outcome>>

TimingInit ==
  /\ count = 0
  /\ lastArrival = 0 /\ wireFree = 0 /\ exact = 0 /\ exactFree = 0
  /\ cutBacklog = FALSE /\ failing = -1 /\ error = FALSE /\ outcome = "running"

Later(a, b) == IF a < b THEN b ELSE a

\* The wire takes a message as soon as it has arrived and the last block of
\* the one before it has gone.
WireFree(free, at, blocks) == Later(free, at) + blocks

\* The cycle in which the last message on the wire is posted.
Posted(free) == free + StageCycles - 1

\* The next message of the stock: pushed with its arrival cycle.  A message
\* the pipeline cannot apply stops it while that message is in a stage.
Push(gap, blocks, fails) ==
  /\ outcome = "running" /\ count < MaxMessages
  /\ count' = count + 1
  /\ LET g == IF count = 0 THEN 0 ELSE gap IN
     /\ lastArrival' = lastArrival + Capped(g)
     /\ exact' = exact + g
     /\ cutBacklog' = (cutBacklog \/ (g > GapCap /\ wireFree > lastArrival'))
  /\ wireFree' = WireFree(wireFree, lastArrival', blocks)
  /\ exactFree' = WireFree(exactFree, exact', blocks)
  /\ failing' \in IF fails /\ failing = -1 THEN wireFree' - 1 .. Posted(wireFree')
                                              ELSE {failing}
  /\ UNCHANGED <<error, outcome>>

\* Mutant: the limit counts from the first arrival, which is cycle 0.
LimitFromStart == Slack

Limit == lastArrival + Slack

\* The loop takes the cycles before the limit, or fewer if the pipeline is
\* done in one of them.
RunModel ==
  /\ outcome = "running" /\ count > 0
  /\ error' = (failing # -1 /\ failing < Limit)
  /\ outcome' = IF failing = -1 /\ Posted(wireFree) < Limit THEN "ok" ELSE "not ok"
  /\ UNCHANGED streamVars

TimingNext ==
  \/ \E gap \in Gaps, blocks \in Blocks, fails \in MayFail : Push(gap, blocks, fails)
  \/ RunModel

TimingSpec == TimingInit /\ [][TimingNext]_timingVars

------------------------------------------------------------------------------
\* What the tool says of every run that is not ok: "a stage reported an error".
NotOkMeansStageError == outcome = "not ok" => error

\* The limit is far enough out for (Slack - StageCycles) / MaxBlocks messages,
\* however they are bunched: such a run is ok or a stage has reported an error.
LimitSuffices == MaxBlocks * count + StageCycles <= Slack => NotOkMeansStageError

\* How long a message arriving now would wait for the wire.
Wait(free, at) == Later(free, at) - at

\* Shortening gaps only ever makes messages wait longer, so it can not hide a
\* latency; and it changes no latency at all unless a gap was cut while the
\* wire was behind by more than the cap (docs/real-itch-results.md shortens
\* them "because the pipeline drains in about 20 cycles").
CapHidesNothing ==
  /\ Wait(wireFree, lastArrival) >= Wait(exactFree, exact)
  /\ ~cutBacklog => wireFree - lastArrival = exactFree - exact
==============================================================================
