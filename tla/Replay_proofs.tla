---------------------------- MODULE Replay_proofs ----------------------------
(***************************************************************************)
(* The replay tool: the schedule it gives the messages and the limit of    *)
(* its loop, and the two books it keeps.  The full-depth book has a level  *)
(* exactly where its orders rest, with their shares, and until the         *)
(* pipeline faults the five-level book shows no more than that, the same   *)
(* while nothing has been dropped, and drops an add only if there are more *)
(* levels than it has; for every capacity, number of levels and set of     *)
(* references, prices and shares and for any number of dropped adds.  The  *)
(* last part is about main: why it rejects a file, which messages the      *)
(* model gets and at which cycles they arrive, for every file.             *)
(***************************************************************************)
EXTENDS ReplayTiming, ReplayBooks, ReplayDriver, BookStage_proofs, SequenceTheorems

(***************************************************************************)
(* The schedule and the limit of the loop, for every cap, every limit and  *)
(* streams of any length.  Both promises come from how far the wire may be *)
(* behind: at most the blocks of the messages so far, at least as far as   *)
(* without the cap, and exactly as far while no gap was cut that the wire  *)
(* had not yet caught up with.                                             *)
(***************************************************************************)
\* The wire can not be behind by more than all blocks received so far.
Backlog == wireFree <= lastArrival + MaxBlocks * count

\* A stage that fails does so before the last message would be posted.
FailsInTime == failing # -1 => failing <= Posted(wireFree)

TimingTypeOK ==
  /\ count \in Nat /\ lastArrival \in Nat /\ wireFree \in Nat
  /\ exact \in Nat /\ exactFree \in Nat /\ cutBacklog \in BOOLEAN
  /\ failing \in Int /\ error \in BOOLEAN

TimingInv ==
  TimingTypeOK /\ Backlog /\ FailsInTime /\ CapHidesNothing /\ LimitSuffices

\* One more message adds at most MaxBlocks cycles to what may be on the wire.
LEMMA MoreBlocks ==
  ASSUME NEW m \in Nat, NEW n \in Nat
  PROVE  m * (n + 1) = m * n + m /\ m * n \in Nat
BY SMT

\* A wire that is behind by no more than behind cycles posts its last message
\* before the limit.
LEMMA PostedBeforeLimit ==
  ASSUME NEW free \in Nat, NEW at \in Nat, NEW behind \in Nat, NEW stages \in Nat,
         NEW slack \in Nat, free <= at + behind, behind + stages <= slack
  PROVE  /\ free + stages - 1 < at + slack
         /\ \A c \in Int : c <= free + stages - 1 => c < at + slack
BY SMT

\* Nothing is on the wire before the first message.
LEMMA TimingStarts == TimingInit => TimingInv
<1> SUFFICES ASSUME TimingInit PROVE TimingInv
  OBVIOUS
<1>1. Backlog
  BY TimingAssumption, SMT DEF TimingInit, Backlog
<1>2. TimingTypeOK /\ FailsInTime
  <2>1. -1 \in Int
    BY SMT
  <2> QED
    BY <2>1 DEF TimingInit, TimingTypeOK, FailsInTime
<1>3. CapHidesNothing
  BY SMT DEF TimingInit, CapHidesNothing, Wait, Later
<1>4. LimitSuffices
  BY DEF TimingInit, LimitSuffices, NotOkMeansStageError
<1> QED
  BY <1>1, <1>2, <1>3, <1>4 DEF TimingInv

\* One more message keeps the bounds: the only place where the cap and the
\* wire's backlog meet.
LEMMA PushKeeps ==
  ASSUME TimingInv, NEW gap \in Gaps, NEW blocks \in Blocks, NEW fails \in MayFail,
         Push(gap, blocks, fails)
  PROVE  TimingInv'
<1> DEFINE g == IF count = 0 THEN 0 ELSE gap
<1>1. /\ g \in Nat /\ blocks \in Nat /\ blocks <= MaxBlocks /\ MaxBlocks \in Nat
      /\ GapCap \in Nat /\ StageCycles \in Nat /\ StageCycles > 0 /\ Slack \in Nat
  BY TimingAssumption, ScheduleAssumption, SMT
<1>2. /\ count' = count + 1
      /\ lastArrival' = lastArrival + Capped(g) /\ exact' = exact + g
      /\ cutBacklog' = (cutBacklog \/ (g > GapCap /\ wireFree > lastArrival'))
      /\ wireFree' = Later(wireFree, lastArrival') + blocks
      /\ exactFree' = Later(exactFree, exact') + blocks
      /\ failing' \in IF fails /\ failing = -1 THEN wireFree' - 1 .. Posted(wireFree')
                                                   ELSE {failing}
      /\ error' = error /\ outcome' = "running" /\ outcome = "running"
  BY DEF Push, WireFree
<1>3. /\ count \in Nat /\ lastArrival \in Nat /\ wireFree \in Nat
      /\ exact \in Nat /\ exactFree \in Nat /\ failing \in Int
  BY DEF TimingInv, TimingTypeOK
<1> HIDE DEF g
<1>4. Capped(g) \in Nat /\ Capped(g) <= g /\ Capped(g) <= GapCap
      /\ (g <= GapCap => Capped(g) = g) /\ (g > GapCap => Capped(g) = GapCap)
  BY <1>1, SMT DEF Capped
<1>5. TimingTypeOK'
  <2>1. /\ count' \in Nat /\ lastArrival' \in Nat /\ wireFree' \in Nat
        /\ exact' \in Nat /\ exactFree' \in Nat
    BY <1>1, <1>2, <1>3, <1>4, SMT DEF Later
  <2>2. failing' \in Int
    BY <2>1, <1>1, <1>2, <1>3, SMT DEF Posted
  <2>3. cutBacklog' \in BOOLEAN
    BY <1>2
  <2>4. error' \in BOOLEAN
    BY <1>2 DEF TimingInv, TimingTypeOK
  <2> QED
    BY <2>1, <2>2, <2>3, <2>4 DEF TimingTypeOK
<1>6. Backlog'
  <2>1. MaxBlocks * (count + 1) = MaxBlocks * count + MaxBlocks /\ MaxBlocks * count \in Nat
    BY <1>1, <1>3, MoreBlocks
  <2>2. wireFree <= lastArrival + MaxBlocks * count
    BY DEF TimingInv, Backlog
  <2> DEFINE behind == MaxBlocks * count
  <2>3. behind \in Nat /\ MaxBlocks * count' = behind + MaxBlocks /\ wireFree <= lastArrival + behind
    BY <2>1, <2>2, <1>2
  <2> HIDE DEF behind
  <2> QED
    BY <2>3, <1>1, <1>2, <1>3, <1>4, SMT DEF Backlog, Later
<1>7. FailsInTime'
  <2>1. wireFree <= wireFree'
    BY <1>1, <1>2, <1>3, <1>4, SMT DEF Later
  <2>2. failing # -1 => failing <= Posted(wireFree)
    BY DEF TimingInv, FailsInTime
  <2>3. wireFree' \in Nat
    BY <1>5 DEF TimingTypeOK
  <2> QED
    BY <2>1, <2>2, <2>3, <1>1, <1>2, <1>3, SMT DEF FailsInTime, Posted
<1>8. CapHidesNothing'
  <2>1. Wait(wireFree, lastArrival) >= Wait(exactFree, exact)
    BY DEF TimingInv, CapHidesNothing
  <2>2. Wait(wireFree, lastArrival)' >= Wait(exactFree, exact)'
    BY <2>1, <1>1, <1>2, <1>3, <1>4, SMT DEF Wait, Later
  <2>3. ASSUME ~cutBacklog' PROVE wireFree' - lastArrival' = exactFree' - exact'
    <3>1. wireFree - lastArrival = exactFree - exact
      BY <2>3, <1>2 DEF TimingInv, CapHidesNothing
    <3>2. g > GapCap => ~(wireFree > lastArrival')
      BY <2>3, <1>2
    <3> QED
      BY <3>1, <3>2, <1>1, <1>2, <1>3, <1>4, SMT DEF Later
  <2> QED
    BY <2>2, <2>3 DEF CapHidesNothing
<1>9. LimitSuffices'
  BY <1>2 DEF LimitSuffices, NotOkMeansStageError
<1> QED
  BY <1>2, <1>5, <1>6, <1>7, <1>8, <1>9 DEF TimingInv

\* The loop of the tool reaches its limit without an error only if the wire
\* was behind by nearly the whole slack.
LEMMA RunKeeps == ASSUME TimingInv, RunModel PROVE TimingInv'
<1>1. TimingTypeOK' /\ Backlog' /\ FailsInTime' /\ CapHidesNothing'
  <2>1. TimingTypeOK'
    <3>1. error' \in BOOLEAN
      BY DEF RunModel
    <3> QED
      BY <3>1 DEF TimingInv, TimingTypeOK, RunModel, streamVars
  <2> QED
    BY <2>1 DEF TimingInv, Backlog, FailsInTime, CapHidesNothing, RunModel, streamVars,
                Wait, Later, Posted
<1>2. LimitSuffices'
  <2> SUFFICES ASSUME MaxBlocks * count + StageCycles <= Slack, outcome' = "not ok"
               PROVE  error'
    BY DEF LimitSuffices, NotOkMeansStageError, RunModel, streamVars
  <2> DEFINE behind == MaxBlocks * count
  <2>1. /\ behind \in Nat /\ wireFree <= lastArrival + behind /\ behind + StageCycles <= Slack
        /\ lastArrival \in Nat /\ wireFree \in Nat /\ failing \in Int
        /\ StageCycles \in Nat /\ Slack \in Nat
    BY MoreBlocks, TimingAssumption DEF TimingInv, TimingTypeOK, Backlog
  <2> HIDE DEF behind
  <2>2. wireFree + StageCycles - 1 < lastArrival + Slack
    BY <2>1, PostedBeforeLimit
  <2>3. failing # -1
    BY <2>2 DEF RunModel, Posted, Limit
  <2>4. failing <= wireFree + StageCycles - 1
    BY <2>3 DEF TimingInv, FailsInTime, Posted
  <2>5. failing < lastArrival + Slack
    BY <2>1, <2>4, PostedBeforeLimit
  <2> QED
    BY <2>3, <2>5 DEF RunModel, Limit
<1> QED
  BY <1>1, <1>2 DEF TimingInv

\* The inductive invariant of the replay's schedule.
THEOREM TimingInvariant == TimingSpec => []TimingInv
<1>1. TimingInv /\ [TimingNext]_timingVars => TimingInv'
  <2> SUFFICES ASSUME TimingInv, [TimingNext]_timingVars PROVE TimingInv'
    OBVIOUS
  <2>1. CASE \E gap \in Gaps, blocks \in Blocks, fails \in MayFail : Push(gap, blocks, fails)
    BY <2>1, PushKeeps
  <2>2. CASE RunModel
    BY <2>2, RunKeeps
  <2>3. CASE UNCHANGED timingVars
    BY <2>3 DEF TimingInv, TimingTypeOK, Backlog, FailsInTime, CapHidesNothing, LimitSuffices,
                NotOkMeansStageError, Wait, Later, Posted, timingVars, streamVars
  <2> QED
    BY <2>1, <2>2, <2>3 DEF TimingNext
<1> QED
  BY <1>1, TimingStarts, PTL DEF TimingSpec

\* However the messages of a replay are bunched, the tool's limit is far enough
\* out for (Slack - StageCycles) / MaxBlocks of them: 14284 with its constants.
THEOREM LimitIsEnough == TimingSpec => []LimitSuffices
<1>1. TimingInv => LimitSuffices
  BY DEF TimingInv
<1> QED
  BY <1>1, TimingInvariant, PTL

\* For every cap the capped schedule hides no latency, and it leaves every
\* latency as it is unless a gap was cut while the wire was behind.
THEOREM CapIsSafe == TimingSpec => []CapHidesNothing
<1>1. TimingInv => CapHidesNothing
  BY DEF TimingInv
<1> QED
  BY <1>1, TimingInvariant, PTL

(***************************************************************************)
(* Maps: functions on some of the keys.                                    *)
(***************************************************************************)
Maps(K, V) == UNION {[D -> V] : D \in SUBSET K}

\* A map has a value of V for each of its keys.
LEMMA MapFacts ==
  ASSUME NEW K, NEW V, NEW f \in Maps(K, V)
  PROVE  /\ DOMAIN f \in SUBSET K /\ f = [k \in DOMAIN f |-> f[k]]
         /\ \A k \in DOMAIN f : f[k] \in V
  <1>1. PICK D \in SUBSET K : f \in [D -> V]
    BY DEF Maps
  <1>2. DOMAIN f = D
    BY <1>1
  <1>3. QED
    BY <1>1, <1>2

\* A function on some of the keys is a map.
LEMMA MapIntro ==
  ASSUME NEW K, NEW V, NEW f, f = [k \in DOMAIN f |-> f[k]], DOMAIN f \in SUBSET K,
         \A k \in DOMAIN f : f[k] \in V
  PROVE  f \in Maps(K, V)
  <1>1. f \in [DOMAIN f -> V]
    OBVIOUS
  <1>2. QED
    BY <1>1 DEF Maps

\* operator[] and an assignment.
LEMMA PutMap ==
  ASSUME NEW K, NEW V, NEW f \in Maps(K, V), NEW x \in K, NEW v \in V, NEW g, g = Put(f, x, v)
  PROVE  /\ g \in Maps(K, V) /\ DOMAIN g = DOMAIN f \cup {x}
         /\ g[x] = v /\ \A k \in DOMAIN f : k # x => g[k] = f[k]
  <1>1. DOMAIN f \in SUBSET K /\ \A k \in DOMAIN f : f[k] \in V
    BY MapFacts
  <1>2. DOMAIN g = DOMAIN f \cup {x} /\ g = [k \in DOMAIN g |-> g[k]]
    BY DEF Put
  <1>3. g[x] = v /\ \A k \in DOMAIN f : k # x => g[k] = f[k]
    BY DEF Put
  <1>4. g \in Maps(K, V)
    BY <1>1, <1>2, <1>3, MapIntro
  <1>5. QED
    BY <1>2, <1>3, <1>4

\* erase
LEMMA EraseMap ==
  ASSUME NEW K, NEW V, NEW f \in Maps(K, V), NEW x, NEW g, g = Erase(f, x)
  PROVE  /\ g \in Maps(K, V) /\ DOMAIN g = DOMAIN f \ {x}
         /\ \A k \in DOMAIN g : g[k] = f[k]
  <1>1. DOMAIN f \in SUBSET K /\ \A k \in DOMAIN f : f[k] \in V
    BY MapFacts
  <1>2. DOMAIN g = DOMAIN f \ {x} /\ g = [k \in DOMAIN g |-> g[k]]
    BY DEF Erase
  <1>3. \A k \in DOMAIN g : g[k] = f[k]
    BY DEF Erase
  <1>4. g \in Maps(K, V)
    BY <1>1, <1>2, <1>3, MapIntro
  <1>5. QED
    BY <1>2, <1>3, <1>4

(***************************************************************************)
(* The shares of the orders in orders_, at one price of one side.          *)
(***************************************************************************)
RestingOrders == [bid : BOOLEAN, price : Prices, shares : Nat \ {0}]
OrderMaps == {q \in Maps(References, RestingOrders) : IsFiniteSet(DOMAIN q)}

AskedAt(q, c, p) == {r \in DOMAIN q : q[r].bid = c /\ q[r].price = p}
Total(q, c, p) == Asked(q, AskedAt(q, c, p))

\* w has d shares more than q at the price p of the side c, and as many
\* everywhere else.
Moved(w, q, c, p, d) ==
  \A a \in BOOLEAN, v \in Prices :
    Total(w, a, v) = Total(q, a, v) + (IF a = c /\ v = p THEN d ELSE 0)

\* An order of a map.
LEMMA MapOrder ==
  ASSUME NEW q \in OrderMaps
  PROVE  /\ q \in Maps(References, RestingOrders) /\ IsFiniteSet(DOMAIN q)
         /\ DOMAIN q \in SUBSET References
         /\ \A r \in DOMAIN q : /\ q[r] \in RestingOrders /\ q[r].bid \in BOOLEAN
                                /\ q[r].price \in Prices /\ q[r].shares \in Nat \ {0}
  <1>1. q \in Maps(References, RestingOrders) /\ IsFiniteSet(DOMAIN q)
    BY DEF OrderMaps
  <1>2. DOMAIN q \in SUBSET References /\ \A r \in DOMAIN q : q[r] \in RestingOrders
    BY <1>1, MapFacts
  <1>3. QED
    BY <1>1, <1>2 DEF RestingOrders

\* What a side asks for at a price: none exactly if no order rests there, and
\* no less than any of its orders.
LEMMA TotalFacts ==
  ASSUME NEW q \in OrderMaps, NEW c, NEW p
  PROVE  /\ Total(q, c, p) \in Nat
         /\ Total(q, c, p) # 0 <=> AskedAt(q, c, p) # {}
         /\ \A r \in AskedAt(q, c, p) : q[r].shares <= Total(q, c, p)
  <1> DEFINE S == AskedAt(q, c, p)
  <1>1. S \in SUBSET DOMAIN q /\ IsFiniteSet(S)
    BY MapOrder, FS_Subset DEF AskedAt
  <1>2. \A r \in S : q[r].shares \in Nat /\ q[r].shares # 0
    BY <1>1, MapOrder
  <1>3. /\ Asked(q, {}) = 0 /\ Asked(q, S) \in Nat
        /\ \A x \in S : Asked(q, S) = q[x].shares + Asked(q, S \ {x})
                        /\ Asked(q, S \ {x}) \in Nat
    <2> HIDE DEF S
    <2> QED
      BY <1>1, <1>2, AskedFacts
  <1>4. \A r \in S : q[r].shares <= Asked(q, S) /\ Asked(q, S) # 0
    <2> HIDE DEF S
    <2> SUFFICES ASSUME NEW r \in S PROVE q[r].shares <= Asked(q, S) /\ Asked(q, S) # 0
      OBVIOUS
    <2>1. PICK f \in Nat, g \in Nat : f = q[r].shares /\ f # 0 /\ g = Asked(q, S \ {r})
      BY <1>2, <1>3
    <2>2. Asked(q, S) = f + g
      BY <1>3, <2>1
    <2>3. QED
      BY <2>1, <2>2
  <1>5. S = {} => Asked(q, S) = 0
    BY <1>3
  <1>6. S # {} => Asked(q, S) # 0
    <2> HIDE DEF S
    <2> QED
      BY <1>4
  <1>7. Total(q, c, p) = Asked(q, S)
    BY DEF Total
  <1> HIDE DEF S
  <1>8. QED
    BY <1>3, <1>4, <1>5, <1>6, <1>7 DEF S

\* A new order adds its shares at its price.
LEMMA PutTotal ==
  ASSUME NEW q \in OrderMaps, NEW r \in References \ DOMAIN q, NEW o \in RestingOrders,
         NEW w, w = Put(q, r, o)
  PROVE  w \in OrderMaps /\ Moved(w, q, o.bid, o.price, o.shares)
  <1>1. /\ w \in Maps(References, RestingOrders) /\ DOMAIN w = DOMAIN q \cup {r}
        /\ w[r] = o /\ \A k \in DOMAIN q : k # r => w[k] = q[k]
    <2>1. q \in Maps(References, RestingOrders) /\ r \in References
      BY MapOrder
    <2>2. QED
      BY <2>1, PutMap
  <1>2. w \in OrderMaps
    BY <1>1, MapOrder, FS_AddElement DEF OrderMaps
  <1>3. o.shares \in Nat
    BY DEF RestingOrders
  <1>4. ASSUME NEW c \in BOOLEAN, NEW p \in Prices
        PROVE  Total(w, c, p)
                 = Total(q, c, p) + (IF c = o.bid /\ p = o.price THEN o.shares ELSE 0)
    <2> DEFINE S == AskedAt(q, c, p)
    <2>1. S \in SUBSET DOMAIN q /\ r \notin S /\ IsFiniteSet(S)
      BY MapOrder, FS_Subset DEF AskedAt
    <2>2. \A k \in S : q[k].shares \in Nat /\ q[k].shares = w[k].shares
      BY <1>1, <2>1, MapOrder
    <2>3. AskedAt(w, c, p) = IF c = o.bid /\ p = o.price THEN S \cup {r} ELSE S
      BY <1>1 DEF AskedAt
    <2>4. Total(q, c, p) = Asked(q, S)
      BY DEF Total
    <2> HIDE DEF S
    <2>5. Asked(w, S) = Asked(q, S)
      BY <2>1, <2>2, AskedSame
    <2>6. PICK g \in Nat : g = Asked(q, S)
      BY <2>1, <2>2, AskedFacts
    <2>7. CASE c = o.bid /\ p = o.price
      <3>1. PICK T : T = S \cup {r}
        OBVIOUS
      <3>2. IsFiniteSet(T) /\ r \in T /\ T \ {r} = S
        BY <2>1, <3>1, FS_AddElement
      <3>3. \A k \in T : w[k].shares \in Nat
        BY <1>1, <1>3, <2>2, <3>1
      <3>4. Asked(w, T) = o.shares + Asked(w, S)
        BY <1>1, <3>2, <3>3, AskedFacts
      <3>5. Total(w, c, p) = o.shares + g
        BY <2>3, <2>5, <2>6, <2>7, <3>1, <3>4 DEF Total
      <3>6. QED
        BY <1>3, <2>4, <2>6, <2>7, <3>5
    <2>8. CASE ~(c = o.bid /\ p = o.price)
      <3>1. Total(w, c, p) = g
        BY <2>3, <2>5, <2>6, <2>8 DEF Total
      <3>2. QED
        BY <2>4, <2>6, <2>8, <3>1
    <2>9. QED
      BY <2>7, <2>8
  <1>5. QED
    BY <1>2, <1>4 DEF Moved

\* An order that leaves takes its shares with it.
LEMMA EraseTotal ==
  ASSUME NEW q \in OrderMaps, NEW r \in DOMAIN q, NEW w, w = Erase(q, r)
  PROVE  w \in OrderMaps /\ r \in References \ DOMAIN w
         /\ Moved(w, q, q[r].bid, q[r].price, -q[r].shares)
  <1>1. /\ w \in Maps(References, RestingOrders) /\ DOMAIN w = DOMAIN q \ {r}
        /\ \A k \in DOMAIN w : w[k] = q[k]
    <2>1. q \in Maps(References, RestingOrders)
      BY MapOrder
    <2>2. \A k, u, v : q \in Maps(u, v) => Erase(q, k) \in Maps(u, v)
      BY EraseMap
    <2>3. DOMAIN w = DOMAIN q \ {r} /\ \A k \in DOMAIN w : w[k] = q[k]
      BY DEF Erase
    <2>4. QED
      BY <2>1, <2>2, <2>3
  <1>2. w \in OrderMaps /\ r \in References \ DOMAIN w
    <2>1. DOMAIN w \subseteq DOMAIN q
      BY <1>1
    <2>2. IsFiniteSet(DOMAIN w)
      BY <2>1, MapOrder, FS_Subset
    <2>3. QED
      BY <1>1, <2>2, MapOrder DEF OrderMaps
  <1>3. PICK o \in RestingOrders : o = q[r]
    BY MapOrder
  <1>4. q = Put(w, r, o)
    <2>1. q = [k \in DOMAIN q |-> q[k]]
      BY MapOrder, MapFacts
    <2>2. DOMAIN w \cup {r} = DOMAIN q
      BY <1>1
    <2>3. \A k \in DOMAIN q : q[k] = IF k = r THEN o ELSE w[k]
      BY <1>1, <1>3
    <2>4. QED
      BY <2>1, <2>2, <2>3 DEF Put
  <1>5. Moved(q, w, o.bid, o.price, o.shares)
    BY <1>2, <1>4, PutTotal
  <1>6. ASSUME NEW c \in BOOLEAN, NEW p \in Prices
        PROVE  Total(w, c, p)
                 = Total(q, c, p) + (IF c = o.bid /\ p = o.price THEN -o.shares ELSE 0)
    <2>1. PICK f \in Nat, g \in Nat : f = Total(w, c, p) /\ g = Total(q, c, p)
      BY <1>2, TotalFacts
    <2>2. o.shares \in Nat
      BY DEF RestingOrders
    <2>3. g = f + (IF c = o.bid /\ p = o.price THEN o.shares ELSE 0)
      BY <1>5, <2>1 DEF Moved
    <2>4. QED
      BY <2>1, <2>2, <2>3
  <1>7. QED
    BY <1>2, <1>3, <1>6 DEF Moved

\* An order that is reduced takes the shares off that it gave up.
LEMMA LowerTotal ==
  ASSUME NEW q \in OrderMaps, NEW r \in DOMAIN q, NEW n \in Nat, n < q[r].shares,
         NEW w, w = [q EXCEPT ![r].shares = q[r].shares - n]
  PROVE  w \in OrderMaps /\ Moved(w, q, q[r].bid, q[r].price, -n)
  <1>1. PICK o \in RestingOrders : o = q[r]
    BY MapOrder
  <1>2. PICK e : e = [o EXCEPT !.shares = o.shares - n]
    OBVIOUS
  <1>3. PICK s \in Nat \ {0} : s = o.shares
    BY DEF RestingOrders
  <1>4. /\ e \in RestingOrders /\ e.bid = o.bid /\ e.price = o.price /\ e.shares = s - n
    <2>1. s - n \in Nat \ {0}
      BY <1>1, <1>3
    <2>2. QED
      BY <1>2, <1>3, <2>1 DEF RestingOrders
  <1>5. PICK z : z = Erase(q, r)
    OBVIOUS
  <1>6. z \in OrderMaps /\ r \in References \ DOMAIN z /\ Moved(z, q, o.bid, o.price, -s)
    BY <1>1, <1>3, <1>5, EraseTotal
  <1>7. w = Put(z, r, e)
    <2>1. w = [k \in DOMAIN q |-> IF k = r THEN e ELSE q[k]]
      <3>1. q = [k \in DOMAIN q |-> q[k]]
        BY MapOrder, MapFacts
      <3>2. w = [q EXCEPT ![r] = e]
        BY <1>1, <1>2
      <3>3. QED
        BY <3>1, <3>2
    <2>2. DOMAIN z \cup {r} = DOMAIN q /\ \A k \in DOMAIN q : k # r => z[k] = q[k]
      BY <1>5 DEF Erase
    <2>3. QED
      BY <2>1, <2>2 DEF Put
  <1>8. w \in OrderMaps /\ Moved(w, z, o.bid, o.price, s - n)
    <2>1. w \in OrderMaps /\ Moved(w, z, e.bid, e.price, e.shares)
      BY <1>4, <1>6, <1>7, PutTotal
    <2>2. QED
      BY <1>4, <2>1
  <1>9. ASSUME NEW c \in BOOLEAN, NEW p \in Prices
        PROVE  Total(w, c, p) = Total(q, c, p) + (IF c = o.bid /\ p = o.price THEN -n ELSE 0)
    <2>1. PICK f \in Nat, g \in Nat, h \in Nat :
            f = Total(w, c, p) /\ g = Total(q, c, p) /\ h = Total(z, c, p)
      BY <1>6, <1>8, TotalFacts
    <2>2. h = g + (IF c = o.bid /\ p = o.price THEN -s ELSE 0)
      BY <1>6, <2>1 DEF Moved
    <2>3. f = h + (IF c = o.bid /\ p = o.price THEN s - n ELSE 0)
      BY <1>8, <2>1 DEF Moved
    <2>4. QED
      BY <1>3, <2>1, <2>2, <2>3
  <1>10. QED
    BY <1>1, <1>8, <1>9 DEF Moved

(***************************************************************************)
(* bids_ and asks_: the shares of the levels of one side.                  *)
(***************************************************************************)
LevelMaps == Maps(Prices, Nat \ {0})

\* The map g shows d more shares than f at the price p.
Raised(g, f, p, d) ==
  \A v \in Prices : QuantityAt(g, v) = QuantityAt(f, v) + (IF v = p THEN d ELSE 0)

\* A level that is not there shows nothing.
LEMMA LevelFacts ==
  ASSUME NEW f \in LevelMaps
  PROVE  /\ DOMAIN f \in SUBSET Prices
         /\ \A v : /\ QuantityAt(f, v) \in Nat /\ (QuantityAt(f, v) # 0 <=> v \in DOMAIN f)
                   /\ v \in DOMAIN f => QuantityAt(f, v) = f[v]
  <1>1. DOMAIN f \in SUBSET Prices /\ \A v \in DOMAIN f : f[v] \in Nat \ {0}
    BY MapFacts DEF LevelMaps
  <1>2. QED
    BY <1>1 DEF QuantityAt

\* add: shares for a level, which appears if it was not there.
LEMMA RaiseMap ==
  ASSUME NEW f \in LevelMaps, NEW p \in Prices, NEW n \in Nat \ {0},
         NEW g, g = Put(f, p, QuantityAt(f, p) + n)
  PROVE  g \in LevelMaps /\ Raised(g, f, p, n)
  <1>1. PICK k \in Nat : k = QuantityAt(f, p)
    BY LevelFacts
  <1>2. PICK m \in Nat \ {0} : m = k + n /\ g = Put(f, p, m)
    BY <1>1
  <1>3. /\ g \in LevelMaps /\ DOMAIN g = DOMAIN f \cup {p}
        /\ g[p] = m /\ \A v \in DOMAIN f : v # p => g[v] = f[v]
    <2>1. \A K, V : f \in Maps(K, V) /\ p \in K /\ m \in V => Put(f, p, m) \in Maps(K, V)
      BY PutMap
    <2>2. g \in LevelMaps
      BY <1>2, <2>1 DEF LevelMaps
    <2>3. QED
      BY <1>2, <2>2 DEF Put
  <1>4. ASSUME NEW v \in Prices
        PROVE  QuantityAt(g, v) = QuantityAt(f, v) + (IF v = p THEN n ELSE 0)
    <2>1. CASE v = p
      BY <1>1, <1>2, <1>3, <2>1 DEF QuantityAt
    <2>2. CASE v # p
      <3>1. PICK j \in Nat : j = QuantityAt(f, v)
        BY LevelFacts
      <3>2. QuantityAt(g, v) = j
        BY <1>3, <2>2, <3>1 DEF QuantityAt
      <3>3. QED
        BY <2>2, <3>1, <3>2
    <2>3. QED
      BY <2>1, <2>2
  <1>5. QED
    BY <1>3, <1>4 DEF Raised

\* take: shares off a level, which disappears with its last one.
LEMMA LowerMap ==
  ASSUME NEW f \in LevelMaps, NEW p \in DOMAIN f, NEW n \in Nat, n <= f[p],
         NEW g, g = IF f[p] - n <= 0 THEN Erase(f, p) ELSE [f EXCEPT ![p] = f[p] - n]
  PROVE  g \in LevelMaps /\ Raised(g, f, p, -n)
  <1>1. PICK k \in Nat : k = f[p] /\ k # 0 /\ k = QuantityAt(f, p) /\ p \in Prices
    BY LevelFacts
  <1>2. CASE k - n <= 0
    <2>1. g = Erase(f, p) /\ k = n
      BY <1>1, <1>2
    <2>2. g \in LevelMaps
      <3>1. \A u, v : f \in Maps(u, v) => Erase(f, p) \in Maps(u, v)
        BY EraseMap
      <3>2. QED
        BY <2>1, <3>1 DEF LevelMaps
    <2>3. DOMAIN g = DOMAIN f \ {p} /\ \A v \in DOMAIN g : g[v] = f[v]
      BY <2>1 DEF Erase
    <2>4. ASSUME NEW v \in Prices
          PROVE  QuantityAt(g, v) = QuantityAt(f, v) + (IF v = p THEN -n ELSE 0)
      <3>1. PICK j \in Nat : j = QuantityAt(f, v)
        BY LevelFacts
      <3>2. QuantityAt(g, v) = IF v = p THEN 0 ELSE j
        BY <2>3, <3>1 DEF QuantityAt
      <3>3. v = p => j = n
        BY <1>1, <2>1, <3>1
      <3>4. QED
        BY <3>1, <3>2, <3>3
    <2>5. QED
      BY <2>2, <2>4 DEF Raised
  <1>3. CASE ~(k - n <= 0)
    <2>1. PICK m \in Nat \ {0} : m = k - n
      BY <1>1, <1>3
    <2>2. f = [v \in DOMAIN f |-> f[v]] /\ DOMAIN f \in SUBSET Prices
          /\ \A v \in DOMAIN f : f[v] \in Nat \ {0}
      BY MapFacts DEF LevelMaps
    <2>3. g = [f EXCEPT ![p] = m]
      BY <1>1, <1>3, <2>1
    <2>4. /\ DOMAIN g = DOMAIN f /\ g = [v \in DOMAIN g |-> g[v]]
          /\ \A v \in DOMAIN f : g[v] = IF v = p THEN m ELSE f[v]
      BY <2>2, <2>3
    <2>5. g \in LevelMaps
      <3>1. DOMAIN g \in SUBSET Prices /\ \A v \in DOMAIN g : g[v] \in Nat \ {0}
        BY <2>1, <2>2, <2>4
      <3>2. QED
        BY <2>4, <3>1, MapIntro DEF LevelMaps
    <2>6. ASSUME NEW v \in Prices
          PROVE  QuantityAt(g, v) = QuantityAt(f, v) + (IF v = p THEN -n ELSE 0)
      <3>1. PICK j \in Nat : j = QuantityAt(f, v)
        BY LevelFacts
      <3>2. QuantityAt(g, v) = IF v = p THEN m ELSE j
        BY <1>1, <2>4, <3>1 DEF QuantityAt
      <3>3. v = p => j = k
        BY <1>1, <3>1
      <3>4. QED
        BY <2>1, <3>1, <3>2, <3>3
    <2>7. QED
      BY <2>5, <2>6 DEF Raised
  <1>4. QED
    BY <1>2, <1>3


(***************************************************************************)
(* RealBook: each level shows the shares of the orders resting there.      *)
(***************************************************************************)
RealBooks == [orders : OrderMaps, bids : LevelMaps, asks : LevelMaps, unknown : Nat]

MapIs(map, q, c) == \A v \in Prices : QuantityAt(map, v) = Total(q, c, v)
RealOk(b) == b \in RealBooks /\ \A c \in BOOLEAN : MapIs(b[MapSide(c)], b.orders, c)

\* A book with an order map and two level maps.
LEMMA RealParts ==
  ASSUME NEW b \in RealBooks
  PROVE  /\ b.orders \in OrderMaps /\ b.unknown \in Nat
         /\ \A c \in BOOLEAN : b[MapSide(c)] \in LevelMaps
  BY DEF RealBooks, MapSide

\* d is b with the level map g on the side c.
SideSet(d, b, c, g) ==
  /\ d \in RealBooks /\ d.orders = b.orders
  /\ d[MapSide(c)] = g /\ \A a \in BOOLEAN : a # c => d[MapSide(a)] = b[MapSide(a)]
OrdersSet(d, b, q) ==
  /\ d \in RealBooks /\ d.orders = q
  /\ \A a \in BOOLEAN : d[MapSide(a)] = b[MapSide(a)]

\* A new level map for one side.
LEMMA SetSide ==
  ASSUME NEW b \in RealBooks, NEW c \in BOOLEAN, NEW g \in LevelMaps,
         NEW d, d = [b EXCEPT ![MapSide(c)] = g]
  PROVE  SideSet(d, b, c, g)
  <1>1. PICK s \in {"bids", "asks"} : s = MapSide(c)
    BY DEF MapSide
  <1>2. \A a \in BOOLEAN : MapSide(a) \in {"bids", "asks"} /\ (MapSide(a) = s <=> a = c)
    BY <1>1 DEF MapSide
  <1>3. /\ d \in RealBooks /\ d.orders = b.orders
        /\ \A z \in {"bids", "asks"} : d[z] = IF z = s THEN g ELSE b[z]
    BY <1>1 DEF RealBooks
  <1>4. QED
    BY <1>1, <1>2, <1>3 DEF SideSet

\* A new order map.
LEMMA SetOrders ==
  ASSUME NEW b \in RealBooks, NEW q \in OrderMaps, NEW d, d = [b EXCEPT !.orders = q]
  PROVE  OrdersSet(d, b, q)
  BY DEF RealBooks, MapSide, OrdersSet

\* The level maps follow the orders: both move by the same shares at the same
\* price of the same side.
LEMMA BothMoved ==
  ASSUME NEW b, RealOk(b), NEW d \in RealBooks, NEW c \in BOOLEAN, NEW p \in Prices,
         NEW n \in Int, NEW g, Raised(g, b[MapSide(c)], p, n), Moved(d.orders, b.orders, c, p, n),
         d[MapSide(c)] = g, \A a \in BOOLEAN : a # c => d[MapSide(a)] = b[MapSide(a)]
  PROVE  RealOk(d)
  <1>1. ASSUME NEW a \in BOOLEAN, NEW v \in Prices
        PROVE  QuantityAt(d[MapSide(a)], v) = Total(d.orders, a, v)
    <2>1. QuantityAt(b[MapSide(a)], v) = Total(b.orders, a, v)
      BY DEF RealOk, MapIs
    <2>2. PICK k \in Nat : k = Total(b.orders, a, v)
      BY RealParts, TotalFacts DEF RealOk
    <2>3. Total(d.orders, a, v) = k + (IF a = c /\ v = p THEN n ELSE 0)
      BY <2>2 DEF Moved
    <2>4. CASE a = c
      BY <2>1, <2>2, <2>3, <2>4 DEF Raised
    <2>5. CASE a # c
      BY <2>1, <2>2, <2>3, <2>5
    <2>6. QED
      BY <2>4, <2>5
  <1>2. QED
    BY <1>1 DEF RealOk, MapIs

\* add of a new order.
LEMMA RealAddOk ==
  ASSUME NEW b, RealOk(b), NEW r \in References \ DOMAIN b.orders, NEW c \in BOOLEAN,
         NEW p \in Prices, NEW n \in Nat \ {0}, NEW d, d = RealAdd(b, r, c, p, n)
  PROVE  RealOk(d) /\ d.orders = Put(b.orders, r, [bid |-> c, price |-> p, shares |-> n])
  <1>1. PICK o \in RestingOrders : /\ o = [bid |-> c, price |-> p, shares |-> n]
                                   /\ o.bid = c /\ o.price = p /\ o.shares = n
    <2>1. [bid |-> c, price |-> p, shares |-> n] \in RestingOrders
      BY DEF RestingOrders
    <2>2. QED
      BY <2>1
  <1>2. b \in RealBooks /\ b.orders \in OrderMaps /\ b[MapSide(c)] \in LevelMaps
    BY RealParts DEF RealOk
  <1>3. PICK w : w = Put(b.orders, r, o)
    OBVIOUS
  <1>4. w \in OrderMaps /\ Moved(w, b.orders, c, p, n)
    BY <1>1, <1>2, <1>3, PutTotal
  <1>5. PICK f : f = b[MapSide(c)]
    OBVIOUS
  <1>6. PICK g : g = Put(f, p, QuantityAt(f, p) + n)
    OBVIOUS
  <1>7. g \in LevelMaps /\ Raised(g, f, p, n)
    BY <1>2, <1>5, <1>6, RaiseMap
  <1>8. d = [b EXCEPT !.orders = w, ![MapSide(c)] = g]
    BY <1>1, <1>3, <1>5, <1>6 DEF RealAdd
  <1>9. PICK s \in {"bids", "asks"} : s = MapSide(c)
    BY DEF MapSide
  <1>10. \A a \in BOOLEAN : MapSide(a) \in {"bids", "asks"} /\ (MapSide(a) = s <=> a = c)
    BY <1>9 DEF MapSide
  <1>11. /\ d \in RealBooks /\ d.orders = w
         /\ \A z \in {"bids", "asks"} : d[z] = IF z = s THEN g ELSE b[z]
    BY <1>2, <1>4, <1>7, <1>8, <1>9 DEF RealBooks
  <1>12. /\ d[MapSide(c)] = g
         /\ \A a \in BOOLEAN : a # c => d[MapSide(a)] = b[MapSide(a)]
    BY <1>9, <1>10, <1>11
  <1>13. RealOk(d)
    BY <1>4, <1>5, <1>7, <1>11, <1>12, BothMoved
  <1>14. QED
    BY <1>1, <1>3, <1>11, <1>13


\* take: an order's shares are in its level, and as many as it asks for.
LEMMA RealTakeOk ==
  ASSUME NEW b, RealOk(b), NEW r \in DOMAIN b.orders, NEW o, o = b.orders[r],
         NEW n \in Nat, n <= o.shares, NEW d, d = RealTake(b, o, n)
  PROVE  \E g \in LevelMaps : /\ Raised(g, b[MapSide(o.bid)], o.price, -n)
                              /\ SideSet(d, b, o.bid, g)
  <1>1. b \in RealBooks /\ b.orders \in OrderMaps
    BY RealParts DEF RealOk
  <1>2. o.bid \in BOOLEAN /\ o.price \in Prices /\ o.shares \in Nat \ {0}
    BY <1>1, MapOrder
  <1>3. PICK c \in BOOLEAN, p \in Prices : c = o.bid /\ p = o.price
    BY <1>2
  <1>4. PICK f \in LevelMaps : f = b[MapSide(c)]
    BY <1>1, RealParts
  <1>5. QuantityAt(f, p) = Total(b.orders, c, p)
    BY <1>4 DEF RealOk, MapIs
  <1>6. r \in AskedAt(b.orders, c, p)
    BY <1>3 DEF AskedAt
  <1>7. PICK k \in Nat : k = Total(b.orders, c, p) /\ k # 0 /\ o.shares <= k
    BY <1>1, <1>6, TotalFacts
  <1>8. p \in DOMAIN f /\ f[p] = k
    BY <1>5, <1>7, LevelFacts
  <1>9. n <= k
    BY <1>2, <1>7
  <1>10. PICK g : g = IF f[p] - n <= 0 THEN Erase(f, p) ELSE [f EXCEPT ![p] = f[p] - n]
    OBVIOUS
  <1>11. g \in LevelMaps /\ Raised(g, f, p, -n)
    BY <1>8, <1>9, <1>10, LowerMap
  <1>12. d = [b EXCEPT ![MapSide(c)] = g]
    BY <1>3, <1>4, <1>8, <1>10 DEF RealTake
  <1>13. SideSet(d, b, c, g)
    BY <1>1, <1>11, <1>12, SetSide
  <1>14. QED
    BY <1>3, <1>4, <1>11, <1>13

\* The orders after one of them has given up n shares.
LessOrders(q, r, n) ==
  IF q[r].shares - n <= 0 THEN Erase(q, r) ELSE [q EXCEPT ![r].shares = q[r].shares - n]

\* They ask for n shares less.
LEMMA LessTotal ==
  ASSUME NEW q \in OrderMaps, NEW r \in DOMAIN q, NEW n \in Nat, n <= q[r].shares,
         NEW w, w = LessOrders(q, r, n)
  PROVE  w \in OrderMaps /\ Moved(w, q, q[r].bid, q[r].price, -n)
  <1>1. PICK k \in Nat \ {0} : k = q[r].shares
    BY MapOrder
  <1>2. CASE k - n <= 0
    <2>1. w = Erase(q, r) /\ k = n
      BY <1>1, <1>2 DEF LessOrders
    <2>2. w \in OrderMaps /\ Moved(w, q, q[r].bid, q[r].price, -q[r].shares)
      BY <2>1, EraseTotal
    <2>3. QED
      BY <1>1, <2>1, <2>2
  <1>3. CASE ~(k - n <= 0)
    <2>1. n < q[r].shares
      BY <1>1, <1>3
    <2>2. w = [q EXCEPT ![r].shares = q[r].shares - n]
      BY <1>1, <1>3 DEF LessOrders
    <2>3. QED
      BY <2>1, <2>2, LowerTotal
  <1>4. QED
    BY <1>2, <1>3

\* The order and its level lose the same shares.
LEMMA RealLessOk ==
  ASSUME NEW b, RealOk(b), NEW r \in DOMAIN b.orders, NEW n \in Nat, n <= b.orders[r].shares,
         NEW z, z = RealTake(b, b.orders[r], n),
         NEW w, w = LessOrders(b.orders, r, n), NEW d, d = [z EXCEPT !.orders = w]
  PROVE  RealOk(d) /\ d.orders = w
  <1>1. b \in RealBooks /\ b.orders \in OrderMaps
    BY RealParts DEF RealOk
  <1>2. PICK o : o = b.orders[r] /\ o.bid \in BOOLEAN /\ o.price \in Prices
    BY <1>1, MapOrder
  <1>3. PICK g \in LevelMaps : /\ Raised(g, b[MapSide(o.bid)], o.price, -n)
                               /\ SideSet(z, b, o.bid, g)
    BY <1>2, RealTakeOk
  <1>4. w \in OrderMaps /\ Moved(w, b.orders, o.bid, o.price, -n)
    BY <1>1, <1>2, LessTotal
  <1>5. OrdersSet(d, z, w)
    <2>1. z \in RealBooks
      BY <1>3 DEF SideSet
    <2>2. QED
      BY <1>4, <2>1, SetOrders
  <1>6. /\ d \in RealBooks /\ d.orders = w /\ d[MapSide(o.bid)] = g
        /\ \A a \in BOOLEAN : a # o.bid => d[MapSide(a)] = b[MapSide(a)]
    BY <1>2, <1>3, <1>5 DEF SideSet, OrdersSet
  <1>7. PICK m \in Int : m = -n
    OBVIOUS
  <1>8. RealOk(d)
    BY <1>2, <1>3, <1>4, <1>6, <1>7, BothMoved
  <1>9. QED
    BY <1>6, <1>8

\* The shares a reduction really takes.
Clamped(q, r, n) == IF n < q[r].shares THEN n ELSE q[r].shares

\* reduce
LEMMA RealReduceOk ==
  ASSUME NEW b, RealOk(b), NEW r \in DOMAIN b.orders, NEW n \in Nat,
         NEW d, d = RealReduce(b, r, n)
  PROVE  RealOk(d) /\ d.orders = LessOrders(b.orders, r, Clamped(b.orders, r, n))
  <1>1. b.orders \in OrderMaps /\ b.orders[r].shares \in Nat
    BY RealParts, MapOrder DEF RealOk
  <1>2. PICK k \in Nat : k = Clamped(b.orders, r, n) /\ k <= b.orders[r].shares
    BY <1>1 DEF Clamped
  <1>3. PICK z : z = RealTake(b, b.orders[r], k)
    OBVIOUS
  <1>4. PICK w : w = LessOrders(b.orders, r, k)
    OBVIOUS
  <1>5. z.orders = b.orders /\ z \in RealBooks
    BY <1>2, <1>3, RealTakeOk DEF SideSet
  <1>6. d = [z EXCEPT !.orders = w]
    <2>1. CASE b.orders[r].shares - k <= 0
      BY <1>2, <1>3, <1>4, <2>1 DEF RealReduce, LessOrders, Clamped
    <2>2. CASE ~(b.orders[r].shares - k <= 0)
      <3>1. d = [z EXCEPT !.orders[r].shares = b.orders[r].shares - k]
        BY <1>2, <1>3, <2>2 DEF RealReduce, Clamped
      <3>2. w = [z.orders EXCEPT ![r].shares = b.orders[r].shares - k]
        BY <1>4, <1>5, <2>2 DEF LessOrders
      <3>3. QED
        BY <1>5, <3>1, <3>2
    <2>3. QED
      BY <2>1, <2>2
  <1>7. QED
    BY <1>2, <1>3, <1>4, <1>6, RealLessOk

\* remove
LEMMA RealRemoveOk ==
  ASSUME NEW b, RealOk(b), NEW r \in DOMAIN b.orders, NEW d, d = RealRemove(b, r)
  PROVE  RealOk(d) /\ d.orders = Erase(b.orders, r)
  <1>1. b.orders \in OrderMaps
    BY RealParts DEF RealOk
  <1>2. PICK k \in Nat : k = b.orders[r].shares /\ k <= b.orders[r].shares
    BY <1>1, MapOrder
  <1>3. PICK w : w = LessOrders(b.orders, r, k)
    OBVIOUS
  <1>4. w = Erase(b.orders, r)
    BY <1>2, <1>3 DEF LessOrders
  <1>5. PICK z : z = RealTake(b, b.orders[r], k)
    OBVIOUS
  <1>6. d = [z EXCEPT !.orders = w]
    <2>1. z = RealTake(b, b.orders[r], b.orders[r].shares)
      BY <1>2, <1>5
    <2>2. d = [z EXCEPT !.orders = Erase(b.orders, r)]
      BY <2>1, Zenon DEF RealRemove
    <2>3. QED
      BY <1>4, <2>2
  <1>7. RealOk(d) /\ d.orders = w
    BY <1>2, <1>3, <1>5, <1>6, RealLessOk
  <1>8. QED
    BY <1>4, <1>7

\* A message about an order that is not there is counted and nothing else.
LEMMA UnknownOk ==
  ASSUME NEW b, RealOk(b), NEW d, d = Unknown(b)
  PROVE  RealOk(d) /\ d.orders = b.orders
  <1>1. b \in RealBooks
    BY DEF RealOk
  <1>2. d \in RealBooks /\ d.orders = b.orders /\ d.bids = b.bids /\ d.asks = b.asks
    BY <1>1 DEF RealBooks, Unknown
  <1>3. \A c \in BOOLEAN : d[MapSide(c)] = b[MapSide(c)]
    BY <1>2 DEF MapSide
  <1>4. QED
    BY <1>2, <1>3 DEF RealOk


(***************************************************************************)
(* The order table of the pipeline and the orders of RealBook.             *)
(***************************************************************************)
\* The table knows the orders of q, with the same shares.
Tracks(t, q) ==
  /\ \A k \in References : Known(t, k) <=> k \in DOMAIN q
  /\ \A k \in DOMAIN q : EntryIs(t, k, q[k])
  /\ \A c \in BOOLEAN, v \in Prices : SharesAt(t, c, v) = Total(q, c, v)

\* The orders of the map after one has given up n shares.
LEMMA LessEntries ==
  ASSUME NEW q \in OrderMaps, NEW r \in DOMAIN q, NEW n \in Nat, n <= q[r].shares,
         NEW w, w = LessOrders(q, r, n)
  PROVE  /\ \A k : k # r => (k \in DOMAIN w <=> k \in DOMAIN q)
         /\ \A k \in DOMAIN w : k # r => w[k] = q[k]
         /\ r \in DOMAIN w <=> n < q[r].shares
         /\ r \in DOMAIN w => /\ w[r].bid = q[r].bid /\ w[r].price = q[r].price
                              /\ w[r].shares = q[r].shares - n
  <1>1. PICK o \in RestingOrders : o = q[r]
    BY MapOrder
  <1>2. PICK s \in Nat \ {0} : s = o.shares
    BY DEF RestingOrders
  <1>3. CASE s - n <= 0
    <2>1. w = Erase(q, r)
      BY <1>1, <1>2, <1>3 DEF LessOrders
    <2>2. DOMAIN w = DOMAIN q \ {r} /\ \A k \in DOMAIN w : w[k] = q[k]
      BY <2>1 DEF Erase
    <2>3. ~(n < q[r].shares)
      BY <1>1, <1>2, <1>3
    <2>4. QED
      BY <2>2, <2>3
  <1>4. CASE ~(s - n <= 0)
    <2>1. PICK e : e = [o EXCEPT !.shares = s - n]
      OBVIOUS
    <2>2. e.bid = o.bid /\ e.price = o.price /\ e.shares = s - n
      BY <2>1 DEF RestingOrders
    <2>3. w = [q EXCEPT ![r] = e]
      BY <1>1, <1>2, <1>4, <2>1 DEF LessOrders
    <2>4. DOMAIN w = DOMAIN q /\ w[r] = e /\ \A k \in DOMAIN w : k # r => w[k] = q[k]
      <3>1. q = [k \in DOMAIN q |-> q[k]]
        BY MapOrder, MapFacts
      <3>2. QED
        BY <2>3, <3>1
    <2>5. n < q[r].shares
      BY <1>1, <1>2, <1>4
    <2>6. QED
      BY <1>1, <1>2, <2>2, <2>4, <2>5
  <1>5. QED
    BY <1>3, <1>4

\* insert and add keep the two together.
LEMMA InsertTracks ==
  ASSUME NEW t \in Tables(References, Prices, IntMax), LiveOnce(t), NEW q \in OrderMaps,
         Tracks(t, q), NEW r \in References \ DOMAIN q, InsertOk(t, r),
         NEW c \in BOOLEAN, NEW p \in Prices, NEW n \in 1 .. IntMax,
         NEW u, u = Insert(t, r, c, p, n),
         NEW w, w = Put(q, r, [bid |-> c, price |-> p, shares |-> n])
  PROVE  Tracks(u, w)
  <1>1. PICK o : o = [bid |-> c, price |-> p, shares |-> n]
    OBVIOUS
  <1>2. o \in RestingOrders /\ o.bid = c /\ o.price = p /\ o.shares = n
    <2>1. n \in Nat \ {0}
      BY IntMaxAssumption
    <2>2. QED
      BY <1>1, <2>1 DEF RestingOrders
  <1>3. w \in OrderMaps /\ Moved(w, q, c, p, n)
    BY <1>1, <1>2, PutTotal
  <1>4. /\ DOMAIN w = DOMAIN q \cup {r} /\ w[r] = o
        /\ \A k \in DOMAIN q : k # r => w[k] = q[k]
    BY <1>1 DEF Put
  <1>5. /\ Known(u, r) /\ EntryIs(u, r, o)
        /\ \A k : k # r => /\ Known(u, k) <=> Known(t, k)
                           /\ Known(t, k) => Entry(u, k) = Entry(t, k)
    BY <1>1, IntMaxAssumption, InsertEntries
  <1>6. \A k \in References : Known(u, k) <=> k \in DOMAIN w
    BY <1>4, <1>5 DEF Tracks
  <1>7. ASSUME NEW k \in DOMAIN w PROVE EntryIs(u, k, w[k])
    <2>1. CASE k = r
      BY <1>4, <1>5, <2>1
    <2>2. CASE k # r
      <3>1. k \in DOMAIN q /\ w[k] = q[k] /\ k \in References
        BY <1>4, <2>2, MapOrder
      <3>2. Known(t, k) /\ EntryIs(t, k, q[k])
        BY <3>1 DEF Tracks
      <3>3. Entry(u, k) = Entry(t, k)
        BY <1>5, <2>2, <3>2
      <3>4. QED
        BY <3>1, <3>2, <3>3 DEF EntryIs
    <2>3. QED
      BY <2>1, <2>2
  <1>8. ASSUME NEW a \in BOOLEAN, NEW v \in Prices PROVE SharesAt(u, a, v) = Total(w, a, v)
    <2>1. SharesAt(u, a, v) = SharesAt(t, a, v) + (IF a = c /\ v = p THEN n ELSE 0)
      BY IntMaxAssumption, InsertShares
    <2>2. SharesAt(t, a, v) = Total(q, a, v)
      BY DEF Tracks
    <2>3. QED
      BY <1>3, <2>1, <2>2 DEF Moved
  <1>9. QED
    BY <1>6, <1>7, <1>8 DEF Tracks

\* An order of the map is in the table, with the same shares.
LEMMA TrackedEntry ==
  ASSUME NEW t \in Tables(References, Prices, IntMax), LiveOnce(t), NEW q \in OrderMaps,
         Tracks(t, q), NEW r \in DOMAIN q, NEW o, o = Entry(t, r)
  PROVE  /\ Known(t, r) /\ o.bid = q[r].bid /\ o.price = q[r].price
         /\ o.remaining = q[r].shares /\ o.remaining \in 1 .. IntMax
  <1>1. Known(t, r) /\ EntryIs(t, r, q[r])
    BY MapOrder DEF Tracks
  <1>2. PICK x \in Slots : x = Min(Holding(t, r)) /\ t[x].live
    BY <1>1, FoundSlot
  <1>3. o.remaining \in 1 .. IntMax
    BY <1>2, SlotCases, IntMaxAssumption DEF Entry
  <1>4. QED
    BY <1>1, <1>3 DEF EntryIs

\* reduce and execute keep the two together.
LEMMA ReduceTracks ==
  ASSUME NEW t \in Tables(References, Prices, IntMax), LiveOnce(t), NEW q \in OrderMaps,
         Tracks(t, q), NEW r \in DOMAIN q, NEW n \in Nat, NEW u, u = Reduce(t, r, n),
         NEW w, w = LessOrders(q, r, Clamped(q, r, n))
  PROVE  Tracks(u, w)
  <1>1. PICK o : o = Entry(t, r)
    OBVIOUS
  <1>2. /\ Known(t, r) /\ o.bid = q[r].bid /\ o.price = q[r].price
        /\ o.remaining = q[r].shares /\ o.remaining \in 1 .. IntMax
    BY <1>1, TrackedEntry
  <1>3. PICK s \in Nat : s = o.remaining /\ s = q[r].shares
    BY <1>2, IntMaxAssumption
  <1>4. PICK a \in Nat : /\ a = Clamped(q, r, n) /\ a <= q[r].shares
                         /\ a = IF n < s THEN n ELSE s
    BY <1>3 DEF Clamped
  <1>5. a = Applied(t, r, n)
    BY <1>1, <1>3, <1>4 DEF Applied
  <1>6. w \in OrderMaps /\ Moved(w, q, q[r].bid, q[r].price, -a)
    BY <1>4, LessTotal
  <1>7. /\ \A k : k # r => (k \in DOMAIN w <=> k \in DOMAIN q)
        /\ \A k \in DOMAIN w : k # r => w[k] = q[k]
        /\ r \in DOMAIN w <=> a < q[r].shares
        /\ r \in DOMAIN w => /\ w[r].bid = q[r].bid /\ w[r].price = q[r].price
                             /\ w[r].shares = q[r].shares - a
    BY <1>4, LessEntries
  <1>8. /\ Known(u, r) <=> n < o.remaining
        /\ n < o.remaining =>
             EntryIs(u, r, [bid |-> o.bid, price |-> o.price, shares |-> o.remaining - n])
        /\ \A k : k # r => /\ Known(u, k) <=> Known(t, k)
                           /\ Known(t, k) => Entry(u, k) = Entry(t, k)
    BY <1>1, <1>2, IntMaxAssumption, ReduceEntries
  <1>9. a < q[r].shares <=> n < o.remaining
    BY <1>3, <1>4
  <1>10. \A k \in References : Known(u, k) <=> k \in DOMAIN w
    BY <1>7, <1>8, <1>9 DEF Tracks
  <1>11. ASSUME NEW k \in DOMAIN w PROVE EntryIs(u, k, w[k])
    <2>1. CASE k = r
      <3>1. n < o.remaining /\ a = n
        BY <1>3, <1>4, <1>7, <1>9, <2>1
      <3>2. QED
        BY <1>2, <1>7, <1>8, <2>1, <3>1 DEF EntryIs
    <2>2. CASE k # r
      <3>1. k \in DOMAIN q /\ w[k] = q[k] /\ k \in References
        BY <1>7, <2>2, MapOrder
      <3>2. Known(t, k) /\ EntryIs(t, k, q[k])
        BY <3>1 DEF Tracks
      <3>3. Entry(u, k) = Entry(t, k)
        BY <1>8, <2>2, <3>2
      <3>4. QED
        BY <3>1, <3>2, <3>3 DEF EntryIs
    <2>3. QED
      BY <2>1, <2>2
  <1>12. ASSUME NEW c \in BOOLEAN, NEW v \in Prices PROVE SharesAt(u, c, v) = Total(w, c, v)
    <2>1. SharesAt(u, c, v)
            = SharesAt(t, c, v) - (IF c = o.bid /\ v = o.price THEN a ELSE 0)
      BY <1>1, <1>2, <1>5, IntMaxAssumption, ReduceShares
    <2>2. PICK k \in Nat : k = SharesAt(t, c, v) /\ k = Total(q, c, v)
      BY TotalFacts DEF Tracks
    <2>3. Total(w, c, v) = k + (IF c = o.bid /\ v = o.price THEN -a ELSE 0)
      BY <1>2, <1>6, <2>2 DEF Moved
    <2>4. QED
      BY <2>1, <2>2, <2>3
  <1>13. QED
    BY <1>10, <1>11, <1>12 DEF Tracks

\* Delete and replace take INT32_MAX shares, which is the whole order.
LEMMA EraseTracks ==
  ASSUME NEW t \in Tables(References, Prices, IntMax), LiveOnce(t), NEW q \in OrderMaps,
         Tracks(t, q), NEW r \in DOMAIN q, NEW u, u = Reduce(t, r, IntMax),
         NEW w, w = Erase(q, r)
  PROVE  Tracks(u, w)
  <1>1. PICK s \in 1 .. IntMax : s = q[r].shares
    BY TrackedEntry
  <1>2. Clamped(q, r, IntMax) = s
    BY <1>1, IntMaxAssumption DEF Clamped
  <1>3. LessOrders(q, r, s) = w
    BY <1>1, IntMaxAssumption DEF LessOrders
  <1>4. w = LessOrders(q, r, Clamped(q, r, IntMax))
    BY <1>2, <1>3
  <1>5. QED
    BY <1>4, IntMaxAssumption, ReduceTracks


(***************************************************************************)
(* The two books message by message.                                       *)
(***************************************************************************)
\* The inductive invariant: the full-depth book is right, and until the
\* pipeline faults its table has the same orders and its book is backed by
\* them.
ReplayInv ==
  /\ fault \in BOOLEAN
  /\ WellFormed(entries, book, References, Prices, IntMax)
  /\ RealOk(real)
  /\ ~fault => Backed(entries, book, Prices) /\ Tracks(entries, real.orders)

AddEvent(e, q) ==
  /\ e.type = "A" /\ e.reference \in References \ DOMAIN q
  /\ e.bid \in BOOLEAN /\ e.price \in Prices /\ e.shares \in 1 .. IntMax
CancelEvent(e) == e.type = "X" /\ e.reference \in References /\ e.shares \in 1 .. IntMax
DeleteEvent(e) == e.type = "D" /\ e.reference \in References
ReplaceEvent(e, q) ==
  /\ e.type = "U" /\ e.reference \in References /\ e.newReference \in References \ DOMAIN q
  /\ e.price \in Prices /\ e.shares \in 1 .. IntMax

\* The four kinds of messages.
LEMMA EventKinds ==
  ASSUME NEW e \in Possible
  PROVE  \/ AddEvent(e, real.orders) \/ CancelEvent(e) \/ DeleteEvent(e)
         \/ ReplaceEvent(e, real.orders)
  <1> DEFINE A == {Event("A", r, 0, b, p, q) :
                     r \in References \ Live, b \in BOOLEAN, p \in Prices, q \in Shares}
             X == {Event("X", r, 0, FALSE, 0, q) : r \in References, q \in Shares}
             D == {Event("D", r, 0, FALSE, 0, 0) : r \in References}
             U == {Event("U", r, n, FALSE, p, q) :
                     r \in References, n \in References \ Live, p \in Prices, q \in Shares}
  <1>1. Shares \subseteq 1 .. IntMax
    BY ReplayAssumption
  <1>2. CASE e \in A
    BY <1>1, <1>2 DEF Event, AddEvent, Live
  <1>3. CASE e \in X
    BY <1>1, <1>3 DEF Event, CancelEvent
  <1>4. CASE e \in D
    BY <1>4 DEF Event, DeleteEvent
  <1>5. CASE e \in U
    BY <1>1, <1>5 DEF Event, ReplaceEvent, Live
  <1>6. Possible = A \cup X \cup D \cup U
    BY DEF Possible
  <1>7. QED
    <2> HIDE DEF A, X, D, U
    <2> QED
      BY <1>2, <1>3, <1>4, <1>5, <1>6

\* What they make the stage read is well formed.
LEMMA KindsWellFormed ==
  ASSUME NEW q, NEW e, AddEvent(e, q) \/ CancelEvent(e) \/ DeleteEvent(e) \/ ReplaceEvent(e, q)
  PROVE  WellFormedEvent(e, References, Prices, IntMax)
  <1>1. 1 .. IntMax \subseteq Nat
    BY IntMaxAssumption
  <1>2. QED
    BY <1>1 DEF AddEvent, CancelEvent, DeleteEvent, ReplaceEvent, WellFormedEvent,
                Adds, Reductions

\* RealBook::apply, message by message.
LEMMA RealApplyIs ==
  ASSUME NEW b, NEW q, NEW e
  PROVE  /\ AddEvent(e, q) =>
              RealApply(b, e) = RealAdd(b, e.reference, e.bid, e.price, e.shares)
         /\ CancelEvent(e) => RealApply(b, e) = RealReduce(b, e.reference, e.shares)
         /\ DeleteEvent(e) => RealApply(b, e) = RealRemove(b, e.reference)
         /\ ReplaceEvent(e, q) =>
              RealApply(b, e) = RealReplace(b, e.reference, e.newReference, e.price, e.shares)
  BY DEF AddEvent, CancelEvent, DeleteEvent, ReplaceEvent, RealApply

\* apply_to_book, message by message.
LEMMA StageApplyIs ==
  ASSUME NEW q, NEW e, apply_to_book(e)
  PROVE  /\ AddEvent(e, q) =>
              /\ entries' = Insert(entries, e.reference, e.bid, e.price, e.shares)
              /\ book' = AddTo(book, e.bid, e.price, e.shares)
              /\ ~ApplyFails(e) => InsertOk(entries, e.reference)
         /\ CancelEvent(e) /\ Known(entries, e.reference) =>
              /\ entries' = Reduce(entries, e.reference, e.shares)
              /\ book' = ReducedBook(e) /\ Taken(e) = e.shares
         /\ DeleteEvent(e) /\ Known(entries, e.reference) =>
              /\ entries' = Reduce(entries, e.reference, IntMax)
              /\ book' = ReducedBook(e) /\ Taken(e) = IntMax
         /\ ReplaceEvent(e, q) /\ Known(entries, e.reference) =>
              LET t == Reduce(entries, e.reference, IntMax)
                  c == Entry(entries, e.reference).bid IN
              /\ entries' = Insert(t, e.newReference, c, e.price, e.shares)
              /\ book' = AddTo(ReducedBook(e), c, e.price, e.shares) /\ Taken(e) = IntMax
              /\ ~ApplyFails(e) => InsertOk(t, e.newReference)
         /\ /\ CancelEvent(e) \/ DeleteEvent(e) \/ ReplaceEvent(e, q)
            /\ ~Known(entries, e.reference)
            => book' = book /\ ApplyFails(e)
  <1>1. /\ AddEvent(e, q) => e.type = "A"
        /\ CancelEvent(e) => e.type = "X"
        /\ DeleteEvent(e) => e.type = "D"
        /\ ReplaceEvent(e, q) => e.type = "U"
    BY DEF AddEvent, CancelEvent, DeleteEvent, ReplaceEvent
  <1>2. ApplyAdd(e) \/ ApplyReduction(e) \/ ApplyReplace(e) \/ ApplyNothing(e)
    BY DEF apply_to_book
  <1>3. CASE e.type = "A"
    <2>1. ApplyAdd(e)
      BY <1>2, <1>3 DEF ApplyReduction, ApplyReplace, ApplyNothing, Adds, Reductions
    <2>2. ~ApplyFails(e) => InsertOk(entries, e.reference)
      BY <1>3 DEF ApplyFails, Adds
    <2>3. QED
      BY <1>1, <1>3, <2>1, <2>2 DEF ApplyAdd
  <1>4. CASE e.type \in {"X", "D", "U"} /\ ~Known(entries, e.reference)
    <2>1. ApplyNothing(e)
      BY <1>2, <1>4 DEF ApplyAdd, ApplyReduction, ApplyReplace, Adds
    <2>2. ApplyFails(e)
      BY <1>4 DEF ApplyFails, Reductions, Removals
    <2>3. QED
      BY <1>1, <1>4, <2>1, <2>2 DEF ApplyNothing
  <1>5. CASE e.type \in {"X", "D"} /\ Known(entries, e.reference)
    <2>1. ApplyReduction(e)
      BY <1>2, <1>5 DEF ApplyAdd, ApplyReplace, ApplyNothing, Adds, Reductions, Removals
    <2>2. Taken(e) = IF e.type = "X" THEN e.shares ELSE IntMax
      BY <1>5 DEF Taken, Removals
    <2>3. QED
      BY <1>1, <1>5, <2>1, <2>2 DEF ApplyReduction, ReducedTable
  <1>6. CASE e.type = "U" /\ Known(entries, e.reference)
    <2>1. ApplyReplace(e)
      BY <1>2, <1>6 DEF ApplyAdd, ApplyReduction, ApplyNothing, Adds, Reductions, Removals
    <2>2. Taken(e) = IntMax
      BY <1>6 DEF Taken, Removals
    <2>3. ~ApplyFails(e) => InsertOk(ReducedTable(e), e.newReference)
      BY <1>6 DEF ApplyFails
    <2>4. QED
      BY <1>1, <1>6, <2>1, <2>2, <2>3 DEF ApplyReplace, ReducedTable
  <1>7. CASE e.type \notin {"A", "X", "D", "U"}
    BY <1>1, <1>7
  <1>8. QED
    BY <1>3, <1>4, <1>5, <1>6, <1>7


\* The replacement of an order that rests.
LEMMA RealReplaceIs ==
  ASSUME NEW b, RealOk(b), NEW r \in DOMAIN b.orders, NEW k \in References \ DOMAIN b.orders,
         NEW p \in Prices, NEW n \in 1 .. IntMax, NEW d, d = RealReplace(b, r, k, p, n),
         NEW z, z = RealRemove(b, r), NEW c, c = b.orders[r].bid
  PROVE  /\ RealOk(z) /\ z.orders = Erase(b.orders, r)
         /\ c \in BOOLEAN /\ k \in References \ DOMAIN z.orders
         /\ d = RealAdd(z, k, c, p, n) /\ RealOk(d)
         /\ d.orders = Put(z.orders, k, [bid |-> c, price |-> p, shares |-> n])
  <1>1. RealOk(z) /\ z.orders = Erase(b.orders, r)
    BY RealRemoveOk
  <1>2. c \in BOOLEAN
    BY RealParts, MapOrder DEF RealOk
  <1>3. k \in References \ DOMAIN z.orders
    BY <1>1 DEF Erase
  <1>4. d = RealAdd(z, k, c, p, n)
    BY DEF RealReplace
  <1>5. n \in Nat \ {0}
    BY IntMaxAssumption
  <1>6. RealOk(d) /\ d.orders = Put(z.orders, k, [bid |-> c, price |-> p, shares |-> n])
    BY <1>1, <1>2, <1>3, <1>4, <1>5, RealAddOk
  <1>7. QED
    BY <1>1, <1>2, <1>3, <1>4, <1>6

\* RealBook::apply keeps the full-depth book right, whatever the message.
LEMMA RealApplyOk ==
  ASSUME RealOk(real), NEW e \in Possible, NEW d, d = RealApply(real, e)
  PROVE  RealOk(d)
  <1>1. PICK b : b = real /\ RealOk(b)
    OBVIOUS
  <1>2. CASE AddEvent(e, b.orders)
    <2>1. d = RealAdd(b, e.reference, e.bid, e.price, e.shares)
      BY <1>1, <1>2, RealApplyIs
    <2>2. /\ e.reference \in References \ DOMAIN b.orders /\ e.bid \in BOOLEAN
          /\ e.price \in Prices /\ e.shares \in Nat \ {0}
      BY <1>2, IntMaxAssumption DEF AddEvent
    <2>3. RealOk(d) /\ d.orders = Put(b.orders, e.reference,
                                    [bid |-> e.bid, price |-> e.price, shares |-> e.shares])
      BY <1>1, <2>1, <2>2, RealAddOk
    <2>4. QED
      BY <2>3
  <1>3. CASE (CancelEvent(e) \/ DeleteEvent(e) \/ ReplaceEvent(e, b.orders))
             /\ e.reference \notin DOMAIN b.orders
    <2>1. d = Unknown(b)
      BY <1>1, <1>3, RealApplyIs DEF RealReduce, RealRemove, RealReplace
    <2>2. QED
      BY <1>1, <2>1, UnknownOk
  <1>4. CASE CancelEvent(e) /\ e.reference \in DOMAIN b.orders
    <2>1. d = RealReduce(b, e.reference, e.shares) /\ e.shares \in Nat
      BY <1>1, <1>4, RealApplyIs, IntMaxAssumption DEF CancelEvent
    <2>2. QED
      BY <1>1, <1>4, <2>1, RealReduceOk
  <1>5. CASE DeleteEvent(e) /\ e.reference \in DOMAIN b.orders
    <2>1. d = RealRemove(b, e.reference)
      BY <1>1, <1>5, RealApplyIs
    <2>2. QED
      BY <1>1, <1>5, <2>1, RealRemoveOk
  <1>6. CASE ReplaceEvent(e, b.orders) /\ e.reference \in DOMAIN b.orders
    <2>1. PICK r, k, p, n : r = e.reference /\ k = e.newReference /\ p = e.price /\ n = e.shares
      OBVIOUS
    <2>2. /\ r \in DOMAIN b.orders /\ k \in References \ DOMAIN b.orders
          /\ p \in Prices /\ n \in 1 .. IntMax
      BY <1>6, <2>1 DEF ReplaceEvent
    <2>3. PICK z, c : z = RealRemove(b, r) /\ c = b.orders[r].bid
      OBVIOUS
    <2>4. d = RealReplace(b, r, k, p, n)
      BY <1>1, <1>6, <2>1, RealApplyIs
    <2>5. RealOk(d) /\ d.orders = Put(z.orders, k, [bid |-> c, price |-> p, shares |-> n])
      BY <1>1, <2>2, <2>3, <2>4, RealReplaceIs
    <2>6. QED
      BY <2>5
  <1>7. QED
    BY <1>1, <1>2, <1>3, <1>4, <1>5, <1>6, EventKinds

\* The table and the full-depth book follow the same messages.
LEMMA TracksApply ==
  ASSUME WellFormed(entries, book, References, Prices, IntMax), RealOk(real),
         Tracks(entries, real.orders), NEW e \in Possible, apply_to_book(e), ~ApplyFails(e),
         NEW d, d = RealApply(real, e)
  PROVE  Tracks(entries', d.orders)
  <1>1. PICK b : b = real /\ RealOk(b)
    OBVIOUS
  <1>2. PICK t : /\ t = entries /\ t \in Tables(References, Prices, IntMax) /\ LiveOnce(t)
                 /\ Tracks(t, b.orders)
    BY <1>1 DEF WellFormed
  <1>3. PICK u : u = entries'
    OBVIOUS
  <1>4. b.orders \in OrderMaps
    BY <1>1, RealParts DEF RealOk
  <1>5. CASE AddEvent(e, b.orders)
    <2>1. /\ e.reference \in References \ DOMAIN b.orders /\ e.bid \in BOOLEAN
          /\ e.price \in Prices /\ e.shares \in 1 .. IntMax /\ e.shares \in Nat \ {0}
      BY <1>5, IntMaxAssumption DEF AddEvent
    <2>2. d = RealAdd(b, e.reference, e.bid, e.price, e.shares)
      BY <1>1, <1>5, RealApplyIs
    <2>3. d.orders = Put(b.orders, e.reference,
                         [bid |-> e.bid, price |-> e.price, shares |-> e.shares])
      BY <1>1, <2>1, <2>2, RealAddOk
    <2>4. /\ u = Insert(t, e.reference, e.bid, e.price, e.shares)
          /\ InsertOk(t, e.reference)
      BY <1>2, <1>3, <1>5, StageApplyIs
    <2>5. Tracks(u, d.orders)
      BY <1>2, <1>4, <2>1, <2>3, <2>4, InsertTracks
    <2>6. QED
      BY <1>3, <2>5
  <1>6. ASSUME CancelEvent(e) \/ DeleteEvent(e) \/ ReplaceEvent(e, b.orders)
        PROVE  Known(t, e.reference) /\ e.reference \in DOMAIN b.orders
    <2>1. Known(t, e.reference)
      BY <1>2, <1>6, StageApplyIs
    <2>2. e.reference \in References
      BY <1>6 DEF CancelEvent, DeleteEvent, ReplaceEvent
    <2>3. QED
      BY <1>2, <2>1, <2>2 DEF Tracks
  <1>7. CASE CancelEvent(e)
    <2>1. d = RealReduce(b, e.reference, e.shares) /\ e.shares \in Nat
      BY <1>1, <1>7, RealApplyIs, IntMaxAssumption DEF CancelEvent
    <2>2. d.orders = LessOrders(b.orders, e.reference,
                                Clamped(b.orders, e.reference, e.shares))
      BY <1>1, <1>6, <1>7, <2>1, RealReduceOk
    <2>3. u = Reduce(t, e.reference, e.shares)
      BY <1>2, <1>3, <1>6, <1>7, StageApplyIs
    <2>4. Tracks(u, d.orders)
      BY <1>2, <1>4, <1>6, <1>7, <2>1, <2>2, <2>3, ReduceTracks
    <2>5. QED
      BY <1>3, <2>4
  <1>8. CASE DeleteEvent(e)
    <2>1. d = RealRemove(b, e.reference)
      BY <1>1, <1>8, RealApplyIs
    <2>2. d.orders = Erase(b.orders, e.reference)
      BY <1>1, <1>6, <1>8, <2>1, RealRemoveOk
    <2>3. u = Reduce(t, e.reference, IntMax)
      BY <1>2, <1>3, <1>6, <1>8, StageApplyIs
    <2>4. Tracks(u, d.orders)
      BY <1>2, <1>4, <1>6, <1>8, <2>2, <2>3, EraseTracks
    <2>5. QED
      BY <1>3, <2>4
  <1>9. CASE ReplaceEvent(e, b.orders)
    <2>1. PICK r, k, p, n : r = e.reference /\ k = e.newReference /\ p = e.price /\ n = e.shares
      OBVIOUS
    <2>2. /\ r \in DOMAIN b.orders /\ k \in References \ DOMAIN b.orders /\ Known(t, r)
          /\ p \in Prices /\ n \in 1 .. IntMax
      BY <1>6, <1>9, <2>1 DEF ReplaceEvent
    <2>3. PICK z : z = RealRemove(b, r)
      OBVIOUS
    <2>4. PICK c : c = b.orders[r].bid
      OBVIOUS
    <2>5. d = RealReplace(b, r, k, p, n)
      BY <1>1, <1>9, <2>1, RealApplyIs
    <2>6. /\ RealOk(z) /\ z.orders = Erase(b.orders, r)
          /\ c \in BOOLEAN /\ k \in References \ DOMAIN z.orders
          /\ d.orders = Put(z.orders, k, [bid |-> c, price |-> p, shares |-> n])
      BY <1>1, <2>2, <2>3, <2>4, <2>5, RealReplaceIs
    <2>7. PICK x : x = Reduce(t, r, IntMax)
      OBVIOUS
    <2>8. Tracks(x, z.orders)
      BY <1>2, <1>4, <2>2, <2>6, <2>7, EraseTracks
    <2>9. x \in Tables(References, Prices, IntMax) /\ LiveOnce(x)
      BY <1>2, <2>2, <2>7, IntMaxAssumption, ReduceShares
    <2>10. c = Entry(t, r).bid
      BY <1>2, <1>4, <2>2, <2>4, TrackedEntry
    <2>11. u = Insert(x, k, c, p, n) /\ InsertOk(x, k)
      BY <1>2, <1>3, <1>9, <2>1, <2>2, <2>7, <2>10, StageApplyIs
    <2>12. z.orders \in OrderMaps
      BY <2>6, RealParts DEF RealOk
    <2>13. Tracks(u, d.orders)
      BY <2>2, <2>6, <2>8, <2>9, <2>11, <2>12, InsertTracks
    <2>14. QED
      BY <1>3, <2>13
  <1>10. QED
    BY <1>1, <1>5, <1>7, <1>8, <1>9, EventKinds

\* The invariant holds of every state.
THEOREM ReplayInvariant == ReplaySpec => []ReplayInv
  <1>1. ReplayInit => ReplayInv
    <2> SUFFICES ASSUME ReplayInit PROVE ReplayInv
      OBVIOUS
    <2>1. /\ entries = [i \in Slots |-> NoEntry] /\ book = EmptyBook
          /\ real = NoRealBook /\ fault = FALSE
      BY DEF ReplayInit, TableInit, BookInit, RealInit
    <2>2. /\ WellFormed(entries, book, References, Prices, IntMax)
          /\ Backed(entries, book, Prices)
      BY <2>1, EmptyStage, IntMaxAssumption
    <2>3. DOMAIN NoMap = {} /\ NoMap = [k \in DOMAIN NoMap |-> NoMap[k]]
      BY DEF NoMap
    <2>4. \A K, V : NoMap \in Maps(K, V)
      BY <2>3, MapIntro
    <2>5. NoMap \in OrderMaps /\ NoMap \in LevelMaps
      BY <2>3, <2>4, FS_EmptySet DEF OrderMaps, LevelMaps
    <2>6. /\ real.orders = NoMap /\ real \in RealBooks
          /\ \A c \in BOOLEAN : real[MapSide(c)] = NoMap
      BY <2>1, <2>5 DEF NoRealBook, RealBooks, MapSide
    <2>7. \A c, v : AskedAt(NoMap, c, v) = {} /\ QuantityAt(NoMap, v) = 0
      BY <2>3 DEF AskedAt, QuantityAt
    <2>8. \A c, v : Total(NoMap, c, v) = 0
      BY <2>5, <2>7, TotalFacts
    <2>9. RealOk(real)
      BY <2>6, <2>7, <2>8 DEF RealOk, MapIs
    <2>10. Tracks(entries, NoMap)
      <3>1. \A k : ~Known(entries, k)
        BY <2>1 DEF Known, Holding, NoEntry
      <3>2. \A c, v : RestingIn(entries, c, v) = {}
        BY <2>1 DEF RestingIn, NoEntry
      <3>3. \A c, v : SharesAt(entries, c, v) = 0
        BY <2>2, <3>2, RestingHolds, IntMaxAssumption DEF WellFormed
      <3>4. QED
        BY <2>3, <2>8, <3>1, <3>3 DEF Tracks
    <2>11. QED
      BY <2>1, <2>2, <2>6, <2>9, <2>10 DEF ReplayInv
  <1>2. ReplayInv /\ [ReplayNext]_replayVars => ReplayInv'
    <2> SUFFICES ASSUME ReplayInv, [ReplayNext]_replayVars PROVE ReplayInv'
      OBVIOUS
    <2>1. CASE UNCHANGED replayVars
      BY <2>1 DEF ReplayInv, replayVars
    <2>2. ASSUME NEW e \in Possible, ReplayStep(e) PROVE ReplayInv'
      <3>1. /\ ~fault /\ real' = RealApply(real, e) /\ apply_to_book(e)
            /\ fault' = ApplyFails(e)
        BY <2>2 DEF ReplayStep
      <3>2. WellFormedEvent(e, References, Prices, IntMax)
        BY EventKinds, KindsWellFormed
      <3>3. /\ WellFormed(entries', book', References, Prices, IntMax)
            /\ ~ApplyFails(e) => Backed(entries', book', Prices)
        BY <3>1, <3>2, ApplyKeeps, IntMaxAssumption DEF ReplayInv
      <3>4. PICK d : d = RealApply(real, e)
        OBVIOUS
      <3>5. RealOk(d)
        BY <3>4, RealApplyOk DEF ReplayInv
      <3>6. ~ApplyFails(e) => Tracks(entries', d.orders)
        BY <3>1, <3>4, TracksApply DEF ReplayInv
      <3>7. fault' \in BOOLEAN
        BY <3>1 DEF ApplyFails
      <3>8. QED
        BY <3>1, <3>3, <3>4, <3>5, <3>6, <3>7 DEF ReplayInv
    <2>3. QED
      BY <2>1, <2>2 DEF ReplayNext
  <1>3. QED
    BY <1>1, <1>2, PTL DEF ReplaySpec


\* The map the orders ask for is the one the full-depth book keeps.
LEMMA DepthIs ==
  ASSUME RealOk(real), NEW c \in BOOLEAN
  PROVE  real[MapSide(c)] = Depth(c)
  <1> DEFINE q == real.orders
             f == real[MapSide(c)]
             on == {r \in DOMAIN q : q[r].bid = c}
             D == {q[r].price : r \in on}
  <1>1. q \in OrderMaps /\ f \in LevelMaps
    BY RealParts DEF RealOk
  <1>2. \A v \in Prices : QuantityAt(f, v) = Total(q, c, v)
    BY DEF RealOk, MapIs
  <1>3. Depth(c) = [p \in D |-> Total(q, c, p)]
    <2>1. \A p : {r \in on : q[r].price = p} = AskedAt(q, c, p)
      BY DEF AskedAt
    <2>2. Depth(c) = [p \in D |-> Asked(q, {r \in on : q[r].price = p})]
      BY Zenon DEF Depth, Live, Asked
    <2>3. QED
      BY <2>1, <2>2 DEF Total
  <1>4. \A r \in on : q[r].price \in Prices
    BY <1>1, MapOrder
  <1>5. \A v : v \in D <=> AskedAt(q, c, v) # {}
    BY DEF AskedAt
  <1>6. /\ f = [v \in DOMAIN f |-> f[v]] /\ DOMAIN f \in SUBSET Prices
        /\ \A v \in DOMAIN f : f[v] = QuantityAt(f, v)
        /\ \A v : v \in DOMAIN f <=> QuantityAt(f, v) # 0
    <2> HIDE DEF f
    <2>1. f = [v \in DOMAIN f |-> f[v]]
      BY <1>1, MapFacts DEF LevelMaps
    <2>2. QED
      BY <1>1, <2>1, LevelFacts
  <1>7. \A v : v \in DOMAIN f <=> v \in D
    <2>1. \A v : Total(q, c, v) # 0 <=> AskedAt(q, c, v) # {}
      <3> HIDE DEF q
      <3> QED
        BY <1>1, TotalFacts
    <2>2. \A v \in D : v \in Prices
      BY <1>4
    <2> HIDE DEF q, f, D
    <2>3. QED
      BY <1>2, <1>5, <1>6, <2>1, <2>2
  <1> HIDE DEF q, f, D
  <1>8. f = [p \in D |-> Total(q, c, p)]
    BY <1>2, <1>6, <1>7
  <1>9. QED
    BY <1>3, <1>8 DEF f

\* While nothing has been dropped the pipeline's book shows the same levels.
LEMMA ShownIs ==
  ASSUME ReplayInv, ~fault, book.overflow = 0, NEW c \in BOOLEAN
  PROVE  Shown(c) = real[MapSide(c)]
  <1>1. PICK side \in SideArrays(Prices) : side = book[SideOf(c)] /\ OnePrice(side)
    BY DEF ReplayInv, WellFormed, Books, OnePriceBook, SideOf
  <1>2. PICK f \in LevelMaps : f = real[MapSide(c)]
    BY RealParts DEF ReplayInv, RealOk
  <1>3. \A v \in Prices : ShownAt(side, v) = QuantityAt(f, v)
    <2> SUFFICES ASSUME NEW v \in Prices PROVE ShownAt(side, v) = QuantityAt(f, v)
      OBVIOUS
    <2>1. ShownAt(side, v) = SharesAt(entries, c, v)
      BY <1>1 DEF ReplayInv, Backed
    <2>2. SharesAt(entries, c, v) = Total(real.orders, c, v)
      BY DEF ReplayInv, Tracks
    <2>3. QuantityAt(f, v) = Total(real.orders, c, v)
      BY <1>2 DEF ReplayInv, RealOk, MapIs
    <2>4. QED
      BY <2>1, <2>2, <2>3
  <1> DEFINE D == {side[i].price : i \in Occupied(side)}
  <1>4. Shown(c) = [p \in D |-> side[Min(AtPrice(side, p))].quantity]
    BY <1>1 DEF Shown
  <1>5. \A v : v \in D <=> AtPrice(side, v) # {}
    BY DEF AtPrice, Occupied, Unused
  <1>6. \A v \in D : v \in Prices
    BY <1>1, RowCases DEF Occupied, Unused
  <1>7. \A v : AtPrice(side, v) # {} <=> ShownAt(side, v) # 0
    BY <1>1, ShownIsNat DEF ShownAt
  <1>8. \A v \in D : side[Min(AtPrice(side, v))].quantity = ShownAt(side, v)
    BY <1>5 DEF ShownAt
  <1>9. /\ f = [v \in DOMAIN f |-> f[v]] /\ DOMAIN f \in SUBSET Prices
        /\ \A v \in DOMAIN f : f[v] = QuantityAt(f, v)
        /\ \A v : v \in DOMAIN f <=> QuantityAt(f, v) # 0
    <2>1. f = [v \in DOMAIN f |-> f[v]]
      BY <1>2, MapFacts DEF LevelMaps
    <2>2. QED
      BY <1>2, <2>1, LevelFacts
  <1> HIDE DEF D
  <1>10. \A v : v \in DOMAIN f <=> v \in D
    BY <1>3, <1>5, <1>6, <1>7, <1>9
  <1>11. f = [p \in D |-> side[Min(AtPrice(side, p))].quantity]
    BY <1>3, <1>6, <1>8, <1>9, <1>10
  <1>12. QED
    BY <1>2, <1>4, <1>11

\* The full-depth book of the replay tool is right, and the five-level book
\* shows the same as long as nothing has been dropped.
THEOREM ReplayBooksAgree == ReplaySpec => []BooksAgree
  <1>1. ReplayInv => BooksAgree
    <2> SUFFICES ASSUME ReplayInv PROVE BooksAgree
      OBVIOUS
    <2>1. \A c \in BOOLEAN : real[MapSide(c)] = Depth(c)
      BY DepthIs DEF ReplayInv
    <2>2. ASSUME ~fault, book.overflow = 0, NEW c \in BOOLEAN
          PROVE  Shown(c) = real[MapSide(c)]
      BY <2>2, ShownIs
    <2>3. QED
      BY <2>1, <2>2 DEF BooksAgree, RealLevelsMatch
  <1>2. QED
    BY <1>1, ReplayInvariant, PTL

\* An add is dropped only if every row has a level of a price at which orders
\* rest, none of them the price of the add: together more than Levels.
LEMMA DropIsDeep ==
  ASSUME NEW t, NEW b, WellFormed(t, b, References, Prices, IntMax), Backed(t, b, Prices),
         NEW z, RealOk(z), Tracks(t, z.orders), NEW c \in BOOLEAN, NEW p \in Prices,
         NEW n \in 1 .. IntMax, NEW x, x = AddTo(b, c, p, n), x.overflow # b.overflow,
         NEW r \in References \ DOMAIN z.orders, NEW d, d = RealAdd(z, r, c, p, n)
  PROVE  Cardinality(DOMAIN d[MapSide(c)]) > Levels
  <1>1. b \in Books(Prices) /\ OnePriceBook(b) /\ n \in Nat \ {0}
    BY IntMaxAssumption DEF WellFormed
  <1>2. PICK side \in SideArrays(Prices) : side = b[SideOf(c)] /\ OnePrice(side)
    BY <1>1 DEF Books, OnePriceBook, SideOf
  <1>3. AtPrice(side, p) = {} /\ Unused(side) = {}
    <2>1. FullBut(b[SideOf(c)], p)
      BY <1>1, DropsWhenFull
    <2>2. QED
      BY <1>2, <2>1 DEF FullBut
  <1>4. PICK f \in LevelMaps : f = z[MapSide(c)]
    BY RealParts DEF RealOk
  <1>5. PICK g : g = d[MapSide(c)]
    OBVIOUS
  <1>6. RealOk(d) /\ Moved(d.orders, z.orders, c, p, n)
    <2>1. RealOk(d) /\ d.orders = Put(z.orders, r, [bid |-> c, price |-> p, shares |-> n])
      BY <1>1, RealAddOk
    <2>2. PICK o \in RestingOrders : /\ o = [bid |-> c, price |-> p, shares |-> n]
                                     /\ o.bid = c /\ o.price = p /\ o.shares = n
      <3>1. [bid |-> c, price |-> p, shares |-> n] \in RestingOrders
        BY <1>1 DEF RestingOrders
      <3>2. QED
        BY <3>1
    <2>3. z.orders \in OrderMaps /\ d.orders = Put(z.orders, r, o)
      BY <2>1, <2>2, RealParts DEF RealOk
    <2>4. Moved(d.orders, z.orders, c, p, n)
      BY <2>2, <2>3, PutTotal
    <2>5. QED
      BY <2>1, <2>4
  <1>7. g \in LevelMaps /\ \A v \in Prices : QuantityAt(g, v) = Total(d.orders, c, v)
    BY <1>5, <1>6, RealParts DEF RealOk, MapIs
  <1>8. p \in DOMAIN g
    <2>1. PICK k \in Nat : k = Total(z.orders, c, p)
      BY RealParts, TotalFacts DEF RealOk
    <2>2. Total(d.orders, c, p) = k + n
      BY <1>6, <2>1 DEF Moved
    <2>3. QuantityAt(g, p) # 0
      BY <1>1, <1>7, <2>2
    <2>4. QED
      BY <1>7, <2>3, LevelFacts
  <1>9. ASSUME NEW i \in Rows PROVE side[i].price \in DOMAIN g /\ side[i].price # p
    <2>1. side[i].valid
      BY <1>3 DEF Unused
    <2>2. PICK v \in Prices : v = side[i].price /\ v # p
      BY <1>2, <1>3, <2>1, RowCases DEF AtPrice
    <2>3. i \in AtPrice(side, v)
      BY <2>1, <2>2 DEF AtPrice
    <2>4. PICK a \in Nat : a = ShownAt(side, v) /\ a # 0
      BY <1>2, <2>3, ShownIsNat
    <2>5. PICK k \in Nat : k = Total(z.orders, c, v)
      BY RealParts, TotalFacts DEF RealOk
    <2>6. a <= k
      BY <1>2, <2>4, <2>5 DEF Backed, Tracks
    <2>7. Total(d.orders, c, v) = k + 0
      BY <1>6, <2>2, <2>5 DEF Moved
    <2>8. QuantityAt(g, v) # 0
      BY <1>7, <2>4, <2>5, <2>6, <2>7
    <2>9. QED
      BY <1>7, <2>2, <2>8, LevelFacts
  <1> DEFINE h == [i \in Rows |-> side[i].price]
  <1>10. h \in [Rows -> DOMAIN g]
    BY <1>9
  <1>11. \A i, j \in Rows : h[i] = h[j] => i = j
    BY <1>2, <1>3 DEF OnePrice, Unused
  <1>12. \A i \in Rows : h[i] # p
    BY <1>9
  <1> HIDE DEF h
  <1>13. h \in Injection(Rows, DOMAIN g)
    BY <1>10, <1>11 DEF Injection, IsInjective
  <1>14. IsFiniteSet(DOMAIN g)
    <2>1. PICK m \in Int : m = IntMax - 1
      BY IntMaxAssumption
    <2>2. IsFiniteSet(1 .. m) /\ Prices \subseteq 1 .. m
      BY <2>1, FS_Interval, ReplayAssumption
    <2>3. DOMAIN g \subseteq 1 .. m
      BY <1>7, <2>2, LevelFacts
    <2>4. QED
      BY <2>2, <2>3, FS_Subset
  <1>15. IsFiniteSet(Rows) /\ Cardinality(Rows) = Levels
    BY FS_Interval, LevelsAssumption DEF Rows
  <1>16. /\ Cardinality(Rows) <= Cardinality(DOMAIN g)
         /\ Cardinality(Rows) = Cardinality(DOMAIN g) <=> h \in Surjection(Rows, DOMAIN g)
    BY <1>13, <1>14, FS_Injection
  <1>17. h \notin Surjection(Rows, DOMAIN g)
    BY <1>8, <1>12 DEF Surjection
  <1>18. PICK k \in Nat : k = Cardinality(DOMAIN g)
    BY <1>14, FS_CardinalityType
  <1>19. k > Levels
    BY <1>15, <1>16, <1>17, <1>18, LevelsAssumption
  <1>20. QED
    BY <1>5, <1>18, <1>19


\* The model drops an add only on a message after which the full-depth book
\* has more levels on some side than the model has, also if the message makes
\* the pipeline fault.
THEOREM ReplayDropMeansDeeper == ReplaySpec => DropMeansDeeper
  <1> DEFINE Deep(d) == \E s \in {"bids", "asks"} : Cardinality(DOMAIN d[s]) > Levels
  <1>1. ASSUME ReplayInv, NEW e \in Possible, ReplayStep(e), book'.overflow > book.overflow
        PROVE  Deep(real')
    <2>1. /\ ~fault /\ real' = RealApply(real, e) /\ apply_to_book(e)
      BY <1>1 DEF ReplayStep
    <2>2. PICK b : b = real /\ RealOk(b)
      BY <1>1 DEF ReplayInv
    <2>3. PICK t : /\ t = entries /\ WellFormed(t, book, References, Prices, IntMax)
                   /\ Backed(t, book, Prices) /\ Tracks(t, b.orders)
                   /\ t \in Tables(References, Prices, IntMax) /\ LiveOnce(t)
      BY <1>1, <2>1, <2>2 DEF ReplayInv, WellFormed
    <2>4. PICK d : d = RealApply(b, e) /\ d = real'
      BY <2>1, <2>2
    <2>5. PICK y : y = book'
      OBVIOUS
    <2>6. PICK x : x = book
      OBVIOUS
    <2>7. x \in Books(Prices) /\ OnePriceBook(x) /\ x.overflow \in Nat
      BY <2>3, <2>6 DEF WellFormed, Books
    <2>8. y.overflow # x.overflow
      BY <1>1, <2>5, <2>6, <2>7
    <2>9. b.orders \in OrderMaps
      BY <2>2, RealParts DEF RealOk
    <2>10. ASSUME NEW c \in BOOLEAN, Cardinality(DOMAIN d[MapSide(c)]) > Levels
           PROVE  Deep(real')
      BY <2>4, <2>10 DEF MapSide
    <2>11. CASE AddEvent(e, b.orders)
      <3>1. /\ e.reference \in References \ DOMAIN b.orders /\ e.bid \in BOOLEAN
            /\ e.price \in Prices /\ e.shares \in 1 .. IntMax
        BY <2>11 DEF AddEvent
      <3>2. y = AddTo(x, e.bid, e.price, e.shares)
        BY <2>1, <2>5, <2>6, <2>11, StageApplyIs
      <3>3. d = RealAdd(b, e.reference, e.bid, e.price, e.shares)
        BY <2>4, <2>11, RealApplyIs
      <3>4. Cardinality(DOMAIN d[MapSide(e.bid)]) > Levels
        BY <2>2, <2>3, <2>6, <2>8, <3>1, <3>2, <3>3, DropIsDeep
      <3>5. QED
        BY <2>10, <3>1, <3>4
    <2>12. ASSUME CancelEvent(e) \/ DeleteEvent(e) \/ ReplaceEvent(e, b.orders)
           PROVE  Known(t, e.reference) /\ e.reference \in DOMAIN b.orders
      <3>1. Known(t, e.reference)
        BY <2>1, <2>3, <2>5, <2>6, <2>8, <2>12, StageApplyIs
      <3>2. e.reference \in References
        BY <2>12 DEF CancelEvent, DeleteEvent, ReplaceEvent
      <3>3. QED
        BY <2>3, <3>1, <3>2 DEF Tracks
    <2>13. ASSUME Known(t, e.reference), NEW n \in Nat, n = Taken(e)
           PROVE  /\ ReducedBook(e).overflow = x.overflow
                  /\ WellFormed(Reduce(t, e.reference, n), ReducedBook(e),
                                References, Prices, IntMax)
                  /\ Backed(Reduce(t, e.reference, n), ReducedBook(e), Prices)
      <3>1. PICK r, o, a, u : /\ r = e.reference /\ o = Entry(t, r) /\ a = Applied(t, r, n)
                              /\ u = Reduce(t, r, n)
        OBVIOUS
      <3>2. PICK w : w = ExecuteIn(x, o.bid, o.price, Applied(t, r, n))
        OBVIOUS
      <3>3. w = ReducedBook(e)
        BY <2>3, <2>6, <2>13, <3>1, <3>2 DEF ReducedBook
      <3>4. /\ WellFormed(u, w, References, Prices, IntMax)
            /\ w.overflow = x.overflow
            /\ Backed(t, x, Prices) => Backed(u, w, Prices)
        BY <2>3, <2>6, <2>13, <3>1, <3>2, IntMaxAssumption, ReduceKeeps
      <3>5. QED
        BY <2>3, <2>6, <3>1, <3>3, <3>4
    <2>14. CASE CancelEvent(e) \/ DeleteEvent(e)
      <3>1. Taken(e) \in Nat /\ y = ReducedBook(e)
        <4>1. CancelEvent(e) => e.shares \in Nat
          BY IntMaxAssumption DEF CancelEvent
        <4>2. QED
          BY <2>1, <2>3, <2>5, <2>12, <2>14, <4>1, StageApplyIs, IntMaxAssumption
      <3>2. QED
        BY <2>8, <2>12, <2>13, <2>14, <3>1
    <2>15. CASE ReplaceEvent(e, b.orders)
      <3>1. PICK r, k, p, n : r = e.reference /\ k = e.newReference /\ p = e.price /\ n = e.shares
        OBVIOUS
      <3>2. /\ r \in DOMAIN b.orders /\ k \in References \ DOMAIN b.orders /\ Known(t, r)
            /\ p \in Prices /\ n \in 1 .. IntMax
        BY <2>12, <2>15, <3>1 DEF ReplaceEvent
      <3>3. PICK z, c : z = RealRemove(b, r) /\ c = b.orders[r].bid
        OBVIOUS
      <3>4. d = RealReplace(b, r, k, p, n)
        BY <2>4, <2>15, <3>1, RealApplyIs
      <3>5. /\ RealOk(z) /\ z.orders = Erase(b.orders, r)
            /\ c \in BOOLEAN /\ k \in References \ DOMAIN z.orders
            /\ d = RealAdd(z, k, c, p, n)
        <4>1. /\ RealOk(z) /\ z.orders = Erase(b.orders, r)
              /\ c \in BOOLEAN /\ k \in References \ DOMAIN z.orders
          <5>1. RealOk(z) /\ z.orders = Erase(b.orders, r)
            BY <2>2, <3>2, <3>3, RealRemoveOk
          <5>2. c \in BOOLEAN
            BY <2>9, <3>2, <3>3, MapOrder
          <5>3. k \in References \ DOMAIN z.orders
            BY <3>2, <5>1 DEF Erase
          <5>4. QED
            BY <5>1, <5>2, <5>3
        <4>2. d = RealAdd(z, k, c, p, n)
          BY <3>2, <3>3, <3>4 DEF RealReplace
        <4>3. QED
          BY <4>1, <4>2
      <3>6. PICK u, w : u = Reduce(t, r, IntMax) /\ w = ReducedBook(e)
        OBVIOUS
      <3>7. c = Entry(t, r).bid
        BY <2>3, <2>9, <3>2, <3>3, TrackedEntry
      <3>8. y = AddTo(w, c, p, n) /\ Taken(e) = IntMax
        BY <2>1, <2>3, <2>5, <2>15, <3>1, <3>2, <3>6, <3>7, StageApplyIs
      <3>9. /\ w.overflow = x.overflow /\ WellFormed(u, w, References, Prices, IntMax)
            /\ Backed(u, w, Prices)
        BY <2>13, <3>1, <3>2, <3>6, <3>8, IntMaxAssumption
      <3>10. Tracks(u, z.orders)
        BY <2>3, <2>9, <3>2, <3>5, <3>6, EraseTracks
      <3>11. y.overflow # w.overflow
        BY <2>8, <3>9
      <3>12. Cardinality(DOMAIN d[MapSide(c)]) > Levels
        BY <3>2, <3>5, <3>8, <3>9, <3>10, <3>11, DropIsDeep
      <3>13. QED
        BY <2>10, <3>5, <3>12
    <2>16. QED
      BY <2>2, <2>11, <2>14, <2>15, EventKinds
  <1>2. ReplayInv /\ [ReplayNext]_replayVars =>
          [book'.overflow > book.overflow => Deep(real')]_replayVars
    BY <1>1 DEF ReplayNext
  <1>3. QED
    BY <1>2, ReplayInvariant, PTL DEF ReplaySpec, DropMeansDeeper

------------------------------------------------------------------------------
(***************************************************************************)
(* The two passes over the file, for all files, symbols and limits.        *)
(***************************************************************************)
\* The bytes of the first k frames.
Before(k) == SizeOf(SubSeq(file, 1, k))

FileOk == file \in Seq(FrameRecord) /\ size \in 0 .. Before(Len(file))

FrameBytes(fs) == [k \in 1 .. Len(fs) |-> HeaderBytes + fs[k].length]

\* A frame of the file has the types its record says.
LEMMA FrameFacts ==
  ASSUME NEW fs \in Seq(FrameRecord)
  PROVE  /\ Len(fs) \in Nat /\ DOMAIN fs = 1 .. Len(fs)
         /\ \A k \in 1 .. Len(fs) : fs[k] \in FrameRecord /\ fs[k].length \in Nat
                                      /\ fs[k].ts \in Nat /\ fs[k].locate \in Nat
         /\ FrameBytes(fs) \in [1 .. Len(fs) -> Nat]
  <1>1. Len(fs) \in Nat /\ DOMAIN fs = 1 .. Len(fs)
    OBVIOUS
  <1>2. \A k \in 1 .. Len(fs) : fs[k] \in FrameRecord
    OBVIOUS
  <1>3. \A f \in FrameRecord : f.length \in Nat /\ f.ts \in Nat /\ f.locate \in Nat
    BY DEF FrameRecord
  <1>4. \A k \in 1 .. Len(fs) : fs[k].length \in Nat /\ HeaderBytes + fs[k].length \in Nat
    BY <1>2, <1>3 DEF HeaderBytes
  <1>5. FrameBytes(fs) \in [1 .. Len(fs) -> Nat]
    BY <1>4 DEF FrameBytes
  <1>6. QED
    BY <1>1, <1>2, <1>3, <1>4, <1>5

\* The size of the first frames is a prefix sum.
LEMMA SizeIsPrefixSum ==
  ASSUME NEW fs \in Seq(FrameRecord), NEW p, PrefixSums(p, FrameBytes(fs), Len(fs)),
         NEW m \in 0 .. Len(fs)
  PROVE  SizeOf(SubSeq(fs, 1, m)) = p[m]
  <1> DEFINE g == SubSeq(fs, 1, m)
             w == FrameBytes(fs)
             Q(h) == h = [s \in SUBSET DOMAIN g |->
                            IF s = {} THEN 0
                              ELSE h[s \ {Max(s)}] + HeaderBytes + g[Max(s)].length]
  <1>0. Len(fs) \in Nat /\ w \in [1 .. Len(fs) -> Nat] /\ m \in Nat /\ 1 .. m \subseteq 1 .. Len(fs)
    BY FrameFacts
  <1>1. DOMAIN g = 1 .. m
    BY <1>0
  <1>2. \A k \in 1 .. m : g[k] = fs[k]
    BY <1>0
  <1>3. \A k \in 1 .. m : w[k] = HeaderBytes + g[k].length /\ g[k].length \in Nat /\ w[k] \in Nat
    BY <1>0, <1>2, FrameFacts DEF FrameBytes
  <1>4. SizeOf(g) = (CHOOSE h : Q(h))[DOMAIN g]
    <2> HIDE DEF g
    <2> QED
      BY Zenon DEF SizeOf, FoldLeft, MapThenFoldSet
  <1>5. PICK e : LeftFoldOf(e, w, m)
    <2> HIDE DEF w
    <2> QED
      BY <1>0, PrefixSumsExist
  <1>6. Q(e)
    <2>1. ASSUME NEW s \in SUBSET (1 .. m), s # {}
          PROVE  e[s] = e[s \ {Max(s)}] + HeaderBytes + g[Max(s)].length
      <3>1. PICK x \in s : x = Max(s)
        BY <1>0, <2>1, MaxInInterval
      <3>2. x \in 1 .. m /\ s \ {x} \in SUBSET (1 .. m)
        OBVIOUS
      <3>3. e[s] = e[s \ {x}] + w[x]
        BY <1>5, <2>1, <3>1 DEF LeftFoldOf
      <3>4. e[s \ {x}] \in Nat
        BY <1>5, <3>2 DEF LeftFoldOf
      <3>5. PICK a \in Nat, b \in Nat : a = e[s \ {x}] /\ b = g[x].length /\ w[x] = HeaderBytes + b
        BY <1>3, <3>2, <3>4
      <3>6. e[s] = a + HeaderBytes + b
        <4> HIDE DEF w, g
        <4>1. e[s] = a + (HeaderBytes + b)
          BY <3>3, <3>5, Zenon
        <4>2. a + (HeaderBytes + b) = a + HeaderBytes + b
          <5>1. \A c, d \in Nat : c + (HeaderBytes + d) = c + HeaderBytes + d
            BY DEF HeaderBytes
          <5>2. QED
            BY <3>5, <5>1, Zenon
        <4>3. QED
          BY <4>1, <4>2, Zenon
      <3>7. QED
        <4> HIDE DEF w, g
        <4> QED
          BY <3>1, <3>5, <3>6
    <2>2. e = [s \in SUBSET (1 .. m) |-> e[s]] /\ e[{}] = 0
      BY <1>5 DEF LeftFoldOf
    <2> HIDE DEF g
    <2>3. QED
      BY <1>1, <2>1, <2>2
  <1>7. PICK h : Q(h) /\ h = CHOOSE f : Q(f)
    <2> HIDE DEF Q
    <2> QED
      BY <1>6
  <1>8. UnfoldsTo(h, w, m)
    <2>1. h[{}] = 0
      BY <1>7
    <2>2. ASSUME NEW k \in 1 .. m, h[1 .. (k - 1)] \in Nat
          PROVE  h[1 .. k] = h[1 .. (k - 1)] + w[k]
      <3>0. k \in Nat \ {0} /\ 1 .. k \in SUBSET (1 .. m)
        BY <1>0
      <3>1. PICK K : K = 1 .. k
        OBVIOUS
      <3>2. K \in SUBSET DOMAIN g /\ K # {} /\ Max(K) = k /\ K \ {Max(K)} = 1 .. (k - 1)
        BY <1>1, <3>0, <3>1, MaxOfPrefix
      <3>3. h[K] = h[K \ {Max(K)}] + HeaderBytes + g[Max(K)].length
        <4> HIDE DEF g
        <4> QED
          BY <1>7, <3>2
      <3>4. PICK a \in Nat, b \in Nat : a = h[1 .. (k - 1)] /\ b = g[k].length /\ w[k] = HeaderBytes + b
        BY <1>3, <2>2
      <3>5. h[K] = a + HeaderBytes + b
        BY <3>2, <3>3, <3>4
      <3>6. h[K] = a + w[k]
        BY <3>4, <3>5 DEF HeaderBytes
      <3>7. QED
        BY <3>1, <3>4, <3>6
    <2>3. QED
      BY <2>1, <2>2 DEF UnfoldsTo
  <1>9. h[1 .. m] = p[m]
    <2>1. PrefixSums(p, w, Len(fs))
      OBVIOUS
    <2> HIDE DEF w
    <2> QED
      BY <1>0, <1>8, <2>1, LeftFoldIsPrefixSum
  <1>10. QED
    <2> HIDE DEF Q
    <2> QED
      BY <1>1, <1>4, <1>7, <1>9

\* Every frame moves the walker on by its header and its length.
LEMMA BeforeFacts ==
  ASSUME FileOk
  PROVE  /\ Len(file) \in Nat /\ DOMAIN file = 1 .. Len(file)
         /\ \A k \in 0 .. Len(file) : Before(k) \in Nat
         /\ Before(0) = 0
         /\ \A k \in 1 .. Len(file) : Before(k) = Before(k - 1) + HeaderBytes + file[k].length
         /\ \A j, k \in 0 .. Len(file) : j < k => Before(j) < Before(k)
         /\ \A k \in 1 .. Len(file) : file[k] \in FrameRecord /\ file[k].length \in Nat
  <1> DEFINE n == Len(file)
             w == FrameBytes(file)
  <1>1. /\ n \in Nat /\ DOMAIN file = 1 .. n /\ w \in [1 .. n -> Nat]
        /\ \A k \in 1 .. n : file[k] \in FrameRecord /\ file[k].length \in Nat
    BY FrameFacts DEF FileOk
  <1>2. PICK p : PrefixSums(p, w, n)
    <2> HIDE DEF w, n
    <2> QED
      BY <1>1, PrefixSumsExist
  <1>3. \A k \in 0 .. n : Before(k) = p[k]
    BY <1>2, SizeIsPrefixSum DEF FileOk, Before
  <1>4. \A k \in 1 .. n : w[k] = HeaderBytes + file[k].length
    BY DEF FrameBytes
  <1> HIDE DEF w
  <1>5. \A k \in 0 .. n : Before(k) \in Nat
    BY <1>2, <1>3 DEF PrefixSums
  <1>6. Before(0) = 0
    BY <1>1, <1>2, <1>3 DEF PrefixSums
  <1>7. ASSUME NEW k \in 1 .. n
        PROVE  Before(k) = Before(k - 1) + HeaderBytes + file[k].length
    <2>1. k \in 0 .. n /\ k - 1 \in 0 .. n
      BY <1>1
    <2>2. p[k] = p[k - 1] + w[k]
      BY <1>2 DEF PrefixSums
    <2>3. PICK a \in Nat, b \in Nat : a = Before(k - 1) /\ b = file[k].length
      BY <1>1, <1>5, <2>1
    <2>4. Before(k) = a + (HeaderBytes + b)
      BY <1>3, <1>4, <2>1, <2>2, <2>3
    <2>5. Before(k) = a + HeaderBytes + b
      BY <2>4 DEF HeaderBytes
    <2>6. QED
      BY <2>3, <2>5
  <1>8. ASSUME NEW j \in 0 .. n, NEW k \in 0 .. n, j < k PROVE Before(j) < Before(k)
    <2>1. p[j] + w[k] <= p[k]
      BY <1>1, <1>2, <1>8, PrefixSumsGrow
    <2>2. k \in 1 .. n
      BY <1>1, <1>8
    <2>3. PICK a \in Nat, b \in Nat, c \in Nat :
            a = Before(j) /\ b = Before(k) /\ c = file[k].length
      BY <1>1, <1>5, <2>2
    <2>4. a + (HeaderBytes + c) <= b
      BY <1>3, <1>4, <2>1, <2>2, <2>3
    <2>5. a < b
      BY <2>4 DEF HeaderBytes
    <2>6. QED
      BY <2>3, <2>5
  <1>9. QED
    BY <1>1, <1>5, <1>6, <1>7, <1>8

\* The walker has passed the first n frames, all of them in the file and well
\* formed.
Walked(n) ==
  /\ n \in 0 .. Len(file)
  /\ offset = Before(n)
  /\ \A k \in 1 .. n : InFile(k) /\ WellFramed(file[k])

\* InFile in terms of the bytes before a frame.
LEMMA InFileIs == \A k : InFile(k) <=> Before(k) <= size
  BY DEF InFile, Before

\* The frame the walker reads is the next one.
LEMMA FrameIsNext ==
  ASSUME FileOk, NEW n, Walked(n), n < Len(file)
  PROVE  Frame = file[n + 1] /\ n + 1 \in 1 .. Len(file) /\ n \in Nat
  <1>1. Len(file) \in Nat /\ n \in 0 .. Len(file) /\ DOMAIN file = 1 .. Len(file) /\ offset = Before(n)
    BY BeforeFacts DEF Walked
  <1>2. n + 1 \in 1 .. Len(file) /\ n + 1 - 1 = n /\ n \in Nat
    BY <1>1
  <1>3. ASSUME NEW k \in 1 .. Len(file), Before(k - 1) = offset PROVE k = n + 1
    <2>1. k - 1 \in 0 .. Len(file)
      BY <1>1
    <2>2. ~(k - 1 < n) /\ ~(n < k - 1)
      <3>1. Before(n) \in Nat /\ Before(k - 1) = Before(n)
        BY <1>1, <1>3, BeforeFacts
      <3>2. PICK a \in Nat : a = Before(n) /\ a = Before(k - 1)
        BY <3>1
      <3>3. ~(a < a)
        OBVIOUS
      <3>4. QED
        BY <1>1, <2>1, <3>2, <3>3, BeforeFacts
    <2>3. QED
      BY <1>1, <2>1, <2>2
  <1> DEFINE C(k) == k \in DOMAIN file /\ SizeOf(SubSeq(file, 1, k - 1)) = offset
  <1>4. C(n + 1)
    BY <1>1, <1>2 DEF Before
  <1>5. \A k : C(k) => k = n + 1
    BY <1>1, <1>3 DEF Before
  <1>6. Frame = file[CHOOSE k : C(k)]
    BY Zenon DEF Frame
  <1>7. QED
    <2>1. (CHOOSE k : C(k)) = n + 1
      <3> HIDE DEF C
      <3> QED
        BY <1>4, <1>5
    <2>2. QED
      BY <1>2, <1>6, <2>1

\* Every type of version 5.0 has a length, and those of the book fit a slot.
LEMMA LengthFacts ==
  /\ \A t \in DOMAIN SpecLengths : SpecLengths[t] \in 1 .. 50
  /\ \A t \in BookTypes : t \in DOMAIN SpecLengths /\ SpecLengths[t] \in 1 .. MessageBytes
  BY DEF SpecLengths, BookTypes, MessageBytes

\* The test of the walker is that of a well-formed frame.
LEMMA FramingTest ==
  ASSUME NEW f \in FrameRecord
  PROVE  WellFramed(f) <=> ~(f.length = 0 \/ SpecLength(f.type) # f.length)
  <1>1. CASE f.type \in DOMAIN SpecLengths
    <2>1. SpecLengths[f.type] \in 1 .. 50 /\ SpecLength(f.type) = SpecLengths[f.type]
      BY <1>1, LengthFacts DEF SpecLength
    <2>2. WellFramed(f) <=> f.length = SpecLengths[f.type]
      BY <1>1 DEF WellFramed
    <2>3. QED
      BY <2>1, <2>2
  <1>2. CASE f.type \notin DOMAIN SpecLengths
    <2>1. SpecLength(f.type) = 0 /\ ~WellFramed(f)
      BY <1>2 DEF SpecLength, WellFramed
    <2>2. QED
      BY <2>1
  <1>3. QED
    BY <1>1, <1>2

\* The walker goes on exactly when the next frame is in the file and well
\* formed, and reports bad framing exactly when it is in the file and not.
LEMMA WalkerReads ==
  ASSUME FileOk, NEW n, Walked(n)
  PROVE  /\ WhyStopped = "no"
              <=> n < Len(file) /\ InFile(n + 1) /\ WellFramed(file[n + 1])
         /\ WhyStopped = "bad_framing"
              <=> n < Len(file) /\ InFile(n + 1) /\ ~WellFramed(file[n + 1])
         /\ WhyStopped \in {"no", "end", "truncated_tail", "bad_framing"}
  <1>1. Len(file) \in Nat /\ n \in 0 .. Len(file) /\ offset = Before(n) /\ Before(n) \in Nat
        /\ size \in 0 .. Before(Len(file)) /\ size \in Nat /\ Before(Len(file)) \in Nat
    <2>1. Len(file) \in Nat /\ n \in 0 .. Len(file) /\ offset = Before(n) /\ Before(n) \in Nat
      BY BeforeFacts DEF Walked
    <2>2. Len(file) \in 0 .. Len(file)
      BY <2>1
    <2>3. Before(Len(file)) \in Nat
      BY <2>2, BeforeFacts
    <2>4. QED
      BY <2>1, <2>3 DEF FileOk
  <1>2. CASE n = Len(file)
    <2>1. offset >= size
      BY <1>1, <1>2
    <2>2. WhyStopped = "end"
      BY <2>1 DEF WhyStopped
    <2>3. QED
      BY <1>1, <1>2, <2>2
  <1>3. CASE n < Len(file)
    <2>1. Frame = file[n + 1] /\ n + 1 \in 1 .. Len(file) /\ n \in Nat
      BY <1>3, FrameIsNext
    <2>2. PICK f \in FrameRecord : f = file[n + 1] /\ f.length \in Nat
      BY <2>1, BeforeFacts
    <2>3. n + 1 - 1 = n
      BY <2>1
    <2>4. PICK c \in Nat, o \in Nat, s \in Nat : c = f.length /\ o = offset /\ s = size
      BY <1>1, <2>2
    <2>5. Before(n + 1) = o + HeaderBytes + c
      BY <1>1, <2>1, <2>2, <2>3, <2>4, BeforeFacts
    <2>6. InFile(n + 1) <=> o + 2 + c <= s
      BY <2>4, <2>5, InFileIs DEF HeaderBytes
    <2>7. PICK wf \in BOOLEAN : (wf <=> WellFramed(f))
      BY DEF WellFramed
    <2>8. wf <=> ~(c = 0 \/ SpecLength(f.type) # c)
      BY <2>2, <2>4, <2>7, FramingTest
    <2>9. WhyStopped = IF o >= s THEN "end"
                       ELSE IF s - o < 2 THEN "truncated_tail"
                       ELSE IF s - o - 2 < c THEN "truncated_tail"
                       ELSE IF c = 0 \/ SpecLength(f.type) # c THEN "bad_framing" ELSE "no"
      BY <2>1, <2>2, <2>4 DEF WhyStopped, HeaderBytes
    <2>10. WhyStopped = IF o + 2 + c > s
                         THEN IF o >= s THEN "end" ELSE "truncated_tail"
                         ELSE IF wf THEN "no" ELSE "bad_framing"
      BY <2>8, <2>9, <2>4
    <2>11. QED
      BY <1>3, <2>2, <2>6, <2>7, <2>10, <2>4
  <1>4. QED
    BY <1>1, <1>2, <1>3

\* A step of the walker leaves it behind one more frame.
LEMMA WalkerMoves ==
  ASSUME FileOk, NEW n, Walked(n), WhyStopped = "no", WalkerNext, UNCHANGED inputVars
  PROVE  /\ n \in Nat /\ n + 1 \in 1 .. Len(file) /\ Frame = file[n + 1]
         /\ Walked(n + 1)' /\ stop' = stop /\ WellFramed(Frame)
  <1>1. n < Len(file) /\ InFile(n + 1) /\ WellFramed(file[n + 1])
    BY WalkerReads
  <1>2. Frame = file[n + 1] /\ n + 1 \in 1 .. Len(file) /\ n \in Nat
    BY <1>1, FrameIsNext
  <1>3. offset' = offset + HeaderBytes + Frame.length /\ stop' = stop
    BY DEF WalkerNext
  <1>4. n + 1 - 1 = n
    BY <1>2
  <1>5. Before(n + 1) = Before(n) + HeaderBytes + file[n + 1].length
    <2>1. PICK k \in 1 .. Len(file) : k = n + 1 /\ k - 1 = n
      BY <1>2, <1>4
    <2>2. Before(k) = Before(k - 1) + HeaderBytes + file[k].length
      BY BeforeFacts
    <2>3. QED
      BY <2>1, <2>2
  <1>6. offset' = Before(n + 1)
    BY <1>2, <1>3, <1>5 DEF Walked
  <1>7. n + 1 \in 0 .. Len(file)
    BY <1>2, BeforeFacts
  <1>8. \A k \in 1 .. (n + 1) : InFile(k) /\ WellFramed(file[k])
    <2>1. \A k \in 1 .. (n + 1) : k \in 1 .. n \/ k = n + 1
      BY <1>2
    <2>2. QED
      BY <1>1, <2>1 DEF Walked
  <1>9. file' = file /\ size' = size
    BY DEF inputVars
  <1>10. Walked(n + 1)'
    BY <1>6, <1>7, <1>8, <1>9 DEF Walked, Before, InFile
  <1>11. QED
    BY <1>1, <1>2, <1>3, <1>10

\* A message that is all in the file is not well formed, and no earlier one is
\* not.
BadFrame ==
  \E k \in DOMAIN file : InFile(k) /\ ~WellFramed(file[k]) /\ \A j \in 1 .. k - 1 : WellFramed(file[j])

\* The walker can not be in two places.
LEMMA BeforeOnce ==
  ASSUME FileOk, NEW n \in 0 .. Len(file), NEW m \in 0 .. Len(file), Before(n) = Before(m)
  PROVE  n = m
  <1>1. Len(file) \in Nat
    BY BeforeFacts
  <1>2. PICK a \in Nat : a = Before(n) /\ a = Before(m)
    BY <1>1, BeforeFacts
  <1>3. ~(a < a)
    OBVIOUS
  <1>4. ~(n < m) /\ ~(m < n)
    BY <1>1, <1>2, <1>3, BeforeFacts
  <1>5. QED
    BY <1>1, <1>4

\* A frame is in the file if a later one is.
LEMMA InFileDown ==
  ASSUME FileOk, NEW j \in 0 .. Len(file), NEW k \in 0 .. Len(file), j <= k, InFile(k)
  PROVE  InFile(j)
  <1>1. PICK a \in Nat, b \in Nat, s \in Nat : a = Before(j) /\ b = Before(k) /\ s = size
    <2>1. Len(file) \in 0 .. Len(file)
      BY BeforeFacts
    <2>2. Before(Len(file)) \in Nat
      BY <2>1, BeforeFacts
    <2>3. size \in Nat
      BY <2>2 DEF FileOk
    <2>4. QED
      BY <2>3, BeforeFacts
  <1>2. a <= b
    <2>1. CASE j = k
      BY <1>1, <2>1
    <2>2. CASE j < k
      BY <1>1, <2>2, BeforeFacts
    <2>3. QED
      BY <2>1, <2>2, BeforeFacts
  <1>3. b <= s
    BY <1>1, InFileIs
  <1>4. a <= s
    BY <1>2, <1>3
  <1>5. QED
    BY <1>1, <1>4, InFileIs

\* Where the walker stops, the messages of the file end; and it reports bad
\* framing exactly when there is any.
LEMMA WalkerStops ==
  ASSUME FileOk, NEW n, Walked(n), WhyStopped # "no"
  PROVE  /\ Messages = SubSeq(file, 1, n) /\ n \in 0 .. Len(file)
         /\ WhyStopped = "bad_framing" <=> BadFrame
  <1>1. Len(file) \in Nat /\ n \in 0 .. Len(file) /\ DOMAIN file = 1 .. Len(file)
    BY BeforeFacts DEF Walked
  <1>2. ~(n < Len(file) /\ InFile(n + 1) /\ WellFramed(file[n + 1]))
    BY WalkerReads
  <1>3. \A k \in 1 .. n : InFile(k) /\ WellFramed(file[k])
    BY DEF Walked
  <1> DEFINE good == {m \in 0 .. Len(file) : \A k \in 1 .. m : InFile(k) /\ WellFramed(file[k])}
  <1>4. n \in good
    BY <1>1, <1>3
  <1>5. ASSUME NEW m \in good PROVE m <= n
    <2>1. m \in 0 .. Len(file) /\ \A k \in 1 .. m : InFile(k) /\ WellFramed(file[k])
      OBVIOUS
    <2> SUFFICES ASSUME ~(m <= n) PROVE FALSE
      OBVIOUS
    <2>2. n + 1 \in 1 .. m /\ n < Len(file)
      BY <1>1, <2>1
    <2>3. QED
      BY <1>2, <2>1, <2>2
  <1>6. Max(good) = n
    <2>1. good \subseteq 0 .. Len(file) /\ good # {}
      BY <1>4
    <2>2. Max(good) \in good /\ n <= Max(good)
      <3> HIDE DEF good
      <3> QED
        BY <1>1, <1>4, <2>1, MaxOfNats
    <2>3. PICK x \in 0 .. Len(file) : x = Max(good) /\ x <= n /\ n <= x
      <3> HIDE DEF good
      <3> QED
        BY <1>5, <2>1, <2>2
    <2>4. x = n
      BY <1>1, <2>3
    <2>5. QED
      BY <2>3, <2>4
  <1>7. Messages = SubSeq(file, 1, n)
    BY <1>6 DEF Messages
  <1>8. ASSUME WhyStopped = "bad_framing" PROVE BadFrame
    <2>1. n < Len(file) /\ InFile(n + 1) /\ ~WellFramed(file[n + 1])
      BY <1>8, WalkerReads
    <2>2. n + 1 \in DOMAIN file /\ \A j \in 1 .. (n + 1) - 1 : j \in 1 .. n
      BY <1>1, <2>1
    <2>3. QED
      BY <1>3, <2>1, <2>2 DEF BadFrame
  <1>9. ASSUME BadFrame PROVE WhyStopped = "bad_framing"
    <2>1. PICK k \in DOMAIN file : InFile(k) /\ ~WellFramed(file[k])
                                     /\ \A j \in 1 .. k - 1 : WellFramed(file[j])
      BY <1>9 DEF BadFrame
    <2>2. k \in 1 .. Len(file) /\ ~(k <= n)
      BY <1>1, <1>3, <2>1
    <2>3. n < Len(file) /\ n + 1 \in 0 .. Len(file) /\ k \in 0 .. Len(file) /\ n + 1 <= k
      BY <1>1, <2>2
    <2>4. InFile(n + 1)
      BY <2>1, <2>3, InFileDown
    <2>5. ~WellFramed(file[n + 1])
      BY <1>2, <2>3, <2>4
    <2>6. QED
      BY <2>3, <2>4, <2>5, WalkerReads
  <1>10. QED
    BY <1>1, <1>7, <1>8, <1>9

\* The messages of the file are its first frames.
LEMMA MessagesAre ==
  ASSUME FileOk, NEW n \in 0 .. Len(file), Messages = SubSeq(file, 1, n)
  PROVE  Len(Messages) = n /\ DOMAIN Messages = 1 .. n /\ \A k \in 1 .. n : Messages[k] = file[k]
  <1>1. Len(file) \in Nat /\ 1 .. n \subseteq 1 .. Len(file) /\ file \in Seq(FrameRecord)
    BY BeforeFacts DEF FileOk
  <1>2. QED
    BY <1>1

\* The invariant of the walk: the walker stands in front of a frame, and once
\* a pass is over what stopped it is known.
WalkInv ==
  /\ FileOk /\ modelMessages \in Limits
  /\ main \in {"pass 1", "choose", "pass 2", "model", "exit 1"}
  /\ main \in {"pass 1", "pass 2"} => \E n : Walked(n)
  /\ main \in {"choose", "pass 2", "model"} => stop # "bad_framing"
  /\ main # "pass 1" => (stop = "bad_framing" <=> BadFrame)

\* There is nothing before the first frame.
LEMMA NothingBefore ==
  ASSUME FileOk
  PROVE  0 \in 0 .. Len(file) /\ Before(0) = 0 /\ \A k \in 1 .. 0 : FALSE
  BY BeforeFacts

\* The walker has passed nothing at the start of a pass.
LEMMA WalkStarts ==
  ASSUME FileOk, offset = 0
  PROVE  Walked(0)
  BY NothingBefore DEF Walked

\* What the tool starts with.
LEMMA DriverStarts ==
  ASSUME DriverInit
  PROVE  FileOk /\ modelMessages \in Limits
  <1>1. PICK f \in Files : file = f.frames /\ size = f.size
    BY DEF DriverInit
  <1>2. file \in Seq(FrameRecord) /\ size \in 0 .. SizeOf(file)
    BY <1>1, FilesAssumption
  <1>3. SubSeq(file, 1, Len(file)) = file
    <2>1. Len(file) \in Nat /\ DOMAIN file = 1 .. Len(file)
      BY <1>2
    <2>2. QED
      BY <1>2, <2>1, SubSeqFull
  <1>4. QED
    BY <1>2, <1>3 DEF FileOk, Before, DriverInit

\* Nothing the frames say changes with the state of the tool.
LEMMA FileStays ==
  ASSUME FileOk, UNCHANGED inputVars
  PROVE  /\ FileOk' /\ (BadFrame' <=> BadFrame) /\ Messages' = Messages
         /\ file' = file /\ modelMessages' = modelMessages /\ want' = want
  BY DEF FileOk, Before, BadFrame, Messages, InFile, inputVars

\* Where the walker stands changes with its offset alone.
LEMMA WalkedStays ==
  ASSUME NEW n, Walked(n), file' = file, size' = size, offset' = offset
  PROVE  Walked(n)'
  BY DEF Walked, Before, InFile

\* A step of a pass that takes a frame keeps the invariant.
LEMMA WalkOn ==
  ASSUME WalkInv, main \in {"pass 1", "pass 2"}, WhyStopped = "no", WalkerNext,
         UNCHANGED <<inputVars, main>>
  PROVE  WalkInv'
  <1>1. PICK n : Walked(n)
    BY DEF WalkInv
  <1>2. FileOk /\ UNCHANGED inputVars /\ main' = main
    BY DEF WalkInv
  <1>3. Walked(n + 1)' /\ stop' = stop
    BY <1>1, <1>2, WalkerMoves
  <1>4. FileOk' /\ (BadFrame' <=> BadFrame) /\ modelMessages' = modelMessages
    BY <1>2, FileStays
  <1>5. QED
    BY <1>2, <1>3, <1>4 DEF WalkInv

\* So does the step that ends one.
LEMMA WalkEnds ==
  ASSUME WalkInv, main \in {"pass 1", "pass 2"}, WhyStopped # "no", WalkerNext,
         UNCHANGED inputVars,
         main' = "exit 1" \/ (main' \in {"choose", "model"} /\ WhyStopped # "bad_framing")
  PROVE  WalkInv'
  <1>1. PICK n : Walked(n)
    BY DEF WalkInv
  <1>2. FileOk
    BY DEF WalkInv
  <1>3. WhyStopped = "bad_framing" <=> BadFrame
    BY <1>1, <1>2, WalkerStops
  <1>4. stop' = WhyStopped
    BY DEF WalkerNext
  <1>5. FileOk' /\ (BadFrame' <=> BadFrame) /\ modelMessages' = modelMessages
    BY <1>2, FileStays
  <1>6. QED
    BY <1>3, <1>4, <1>5 DEF WalkInv

\* Every step of the driver keeps what the walker knows of the file.
LEMMA WalkStep ==
  ASSUME WalkInv, [DriverNext]_driverVars
  PROVE  WalkInv'
  <1>1. CASE PassOneMessage
    BY <1>1, WalkOn DEF PassOneMessage
  <1>2. CASE PassOneEnds
    BY <1>2, WalkEnds DEF PassOneEnds
  <1>3. CASE ChooseStock
    <2>1. FileOk /\ UNCHANGED inputVars /\ main = "choose" /\ main' \in {"exit 1", "pass 2"}
          /\ offset' = 0 /\ stop' = "end"
      BY <1>3 DEF ChooseStock, WalkInv
    <2>2. FileOk' /\ (BadFrame' <=> BadFrame) /\ modelMessages' = modelMessages
      BY <2>1, FileStays
    <2>3. Walked(0)'
      <3>1. 0 \in 0 .. Len(file) /\ Before(0) = 0 /\ \A k \in 1 .. 0 : FALSE
        BY <2>1, NothingBefore
      <3>2. file' = file
        BY <2>1 DEF inputVars
      <3>3. QED
        BY <2>1, <3>1, <3>2 DEF Walked, Before
    <2>4. ~BadFrame
      BY <2>1 DEF WalkInv
    <2>5. QED
      BY <2>1, <2>2, <2>3, <2>4 DEF WalkInv
  <1>4. CASE PassTwoSkips
    BY <1>4, WalkOn DEF PassTwoSkips
  <1>5. CASE PassTwoMessage
    BY <1>5, WalkOn DEF PassTwoMessage
  <1>6. CASE PassTwoEnds
    <2>1. main = "pass 2" /\ WhyStopped # "no" /\ WalkerNext /\ UNCHANGED inputVars
          /\ main' \in {"exit 1", "model"}
      BY <1>6 DEF PassTwoEnds
    <2>2. PICK n : Walked(n)
      BY <2>1 DEF WalkInv
    <2>3. ~BadFrame /\ FileOk
      BY <2>1 DEF WalkInv
    <2>4. WhyStopped # "bad_framing"
      BY <2>1, <2>2, <2>3, WalkerStops
    <2>5. QED
      BY <2>1, <2>4, WalkEnds
  <1>7. CASE UNCHANGED driverVars
    <2>1. FileOk /\ UNCHANGED inputVars /\ main' = main /\ offset' = offset /\ stop' = stop
      BY <1>7 DEF driverVars, WalkInv
    <2>2. FileOk' /\ (BadFrame' <=> BadFrame) /\ modelMessages' = modelMessages
      BY <2>1, FileStays
    <2>3. file' = file /\ size' = size
      BY <2>1 DEF inputVars
    <2>4. \A n : Walked(n) => Walked(n)'
      BY <2>1, <2>3, WalkedStays
    <2>5. QED
      BY <2>1, <2>2, <2>4 DEF WalkInv
  <1>8. QED
    BY <1>1, <1>2, <1>3, <1>4, <1>5, <1>6, <1>7 DEF DriverNext

\* The walker always stands in front of a frame.
THEOREM WalkInvariant == DriverSpec => []WalkInv
  <1>1. DriverInit => WalkInv
    <2> SUFFICES ASSUME DriverInit PROVE WalkInv
      OBVIOUS
    <2>1. FileOk /\ modelMessages \in Limits
      BY DriverStarts
    <2>2. offset = 0 /\ main = "pass 1"
      BY DEF DriverInit
    <2>3. Walked(0)
      BY <2>1, <2>2, WalkStarts
    <2>4. QED
      BY <2>1, <2>2, <2>3 DEF WalkInv
  <1>2. WalkInv /\ [DriverNext]_driverVars => WalkInv'
    BY WalkStep
  <1>3. QED
    BY <1>1, <1>2, PTL DEF DriverSpec

\* Whatever the file, the tool rejects it for its framing exactly when a
\* message that is all in it is not well formed: a message the slice cuts off
\* is never taken for a bad one, nor a bad one for a cut.
THEOREM DriverRejects == DriverSpec => []RejectedForFraming
  <1>1. WalkInv => RejectedForFraming
    BY DEF WalkInv, RejectedForFraming, BadFrame
  <1>2. QED
    BY <1>1, WalkInvariant, PTL

------------------------------------------------------------------------------
(***************************************************************************)
(* The arrival cycles pass 2 gives the messages.                           *)
(***************************************************************************)
StreamRecord == [message : FrameRecord, arrival : Nat]

\* ArrivalsFollowTime of any sequence.
InOrder(s) == \A k \in 1 .. Len(s) - 1 : s[k].arrival <= s[k + 1].arrival
TimeForward(s) == \A k \in 1 .. Len(s) - 1 : s[k].message.ts <= s[k + 1].message.ts
NothingCapped(s) ==
  \A k \in 1 .. Len(s) - 1 : Cycles(s[k + 1].message.ts - s[k].message.ts) <= GapCap
LagAt(ts, first, at) == (ts - first) * NsDenominator - at * NsNumerator
Lag(s, k) == LagAt(s[k].message.ts, s[1].message.ts, s[k].arrival)
LagFits(lag, k) == lag \in 0 .. (k - 1) * (NsNumerator - 1)
GapFits(g, c) == g * NsDenominator - c * NsNumerator \in 0 .. NsNumerator - 1
RoundedDown(s) == \A k \in DOMAIN s : LagFits(Lag(s, k), k)
FollowsTime(s) == InOrder(s) /\ (TimeForward(s) /\ NothingCapped(s) => RoundedDown(s))

\* The property in terms of the parts named above.
LEMMA ArrivalsAre == ArrivalsFollowTime <=> FollowsTime(stream)
  BY DEF ArrivalsFollowTime, FollowsTime, InOrder, TimeForward, NothingCapped, RoundedDown, Lag,
         LagAt, LagFits, SinceFirst, InTime, Uncapped

\* Rounding a gap down loses less than a cycle of it.
LEMMA GapRounds ==
  ASSUME NEW g \in Nat
  PROVE  Cycles(g) \in Nat /\ GapFits(g, Cycles(g))
  BY DEF GapFits, Cycles, NsDenominator, NsNumerator

\* What was lost by rounding the gaps so far, and a gap more.
LEMMA LagGrows ==
  ASSUME NEW n \in Nat, NEW a \in Nat, NEW b \in Nat, NEW z \in Nat, NEW g \in Nat, NEW c \in Nat,
         LagFits(LagAt(b, z, a), n), GapFits(g, c), NEW y, y = b + g, NEW x, x = a + c,
         NEW m, m = n + 1
  PROVE  LagFits(LagAt(y, z, x), m)
  <1>1. PICK u : u = (b - z) * 165 - a * 512
    OBVIOUS
  <1>2. PICK v : v = g * 165 - c * 512
    OBVIOUS
  <1>3. u \in Int /\ v \in Int
    BY <1>1, <1>2
  <1>4. 0 <= u /\ u <= (n - 1) * 511 /\ 0 <= v /\ v <= 511
    BY <1>1, <1>2, <1>3 DEF LagAt, LagFits, GapFits, NsDenominator, NsNumerator
  <1>5. LagAt(y, z, x) = u + v
    BY <1>1, <1>2 DEF LagAt, NsDenominator, NsNumerator
  <1>6. u + v \in 0 .. n * 511
    BY <1>3, <1>4
  <1>7. QED
    BY <1>5, <1>6 DEF LagFits, NsNumerator

\* The fields of a message in the stream.
LEMMA StreamFields ==
  ASSUME NEW s \in Seq(StreamRecord)
  PROVE  /\ Len(s) \in Nat /\ DOMAIN s = 1 .. Len(s)
         /\ \A k \in 1 .. Len(s) : s[k] \in StreamRecord /\ s[k].arrival \in Nat
                                     /\ s[k].message \in FrameRecord /\ s[k].message.ts \in Nat
  <1>1. \A e \in StreamRecord : e.arrival \in Nat /\ e.message \in FrameRecord
    BY DEF StreamRecord
  <1>2. \A f \in FrameRecord : f.ts \in Nat
    BY DEF FrameRecord
  <1>3. Len(s) \in Nat /\ DOMAIN s = 1 .. Len(s) /\ \A k \in 1 .. Len(s) : s[k] \in StreamRecord
    OBVIOUS
  <1>4. QED
    BY <1>1, <1>2, <1>3

\* The arrival of one more message: that of the last one and the capped gap.
Arrives(s, e) ==
  LET n == Len(s) IN
  e.arrival = IF n = 0 THEN 0
                ELSE s[n].arrival + Capped(Cycles(Elapsed(s[n].message.ts, e.message.ts)))

\* One more message keeps the arrivals in order and rounded down.
LEMMA OneMoreArrives ==
  ASSUME NEW s \in Seq(StreamRecord), NEW e \in StreamRecord, FollowsTime(s), Arrives(s, e),
         NEW t, t = Append(s, e)
  PROVE  FollowsTime(t)
  <1> DEFINE n == Len(s)
  <1>1. /\ n \in Nat /\ t \in Seq(StreamRecord) /\ Len(t) = n + 1 /\ t[n + 1] = e
        /\ DOMAIN t = 1 .. (n + 1) /\ \A k \in 1 .. n : t[k] = s[k]
    BY AppendProperties
  <1>2. e.arrival \in Nat /\ e.message.ts \in Nat
    <2>1. t[n + 1] = e /\ n + 1 \in 1 .. Len(t)
      BY <1>1
    <2>2. QED
      BY <1>1, <2>1, StreamFields
  <1>3. /\ n \in Nat
        /\ \A k \in 1 .. n : s[k].arrival \in Nat /\ s[k].message.ts \in Nat
    BY StreamFields
  <1> HIDE DEF n
  <1>4. CASE n = 0
    <2>1. Len(t) = 1 /\ DOMAIN t = 1 .. 1 /\ t[1] = e
      BY <1>1, <1>4
    <2>2. e.arrival = 0
      BY <1>4 DEF Arrives, n
    <2>3. Lag(t, 1) = 0
      BY <1>2, <2>1, <2>2 DEF Lag, LagAt, NsDenominator, NsNumerator
    <2>4. \A k \in DOMAIN t : k = 1
      BY <2>1
    <2>5. RoundedDown(t)
      BY <2>3, <2>4 DEF RoundedDown, LagFits, NsNumerator
    <2>6. \A k \in 1 .. Len(t) - 1 : FALSE
      BY <2>1
    <2>7. QED
      BY <2>5, <2>6 DEF FollowsTime, InOrder
  <1>5. CASE n # 0
    <2>1. n \in 1 .. n /\ Len(t) - 1 = n /\ t[n] = s[n]
      BY <1>1, <1>5
    <2>2. PICK a \in Nat, b \in Nat, x \in Nat, y \in Nat :
            a = s[n].arrival /\ b = s[n].message.ts /\ x = e.arrival /\ y = e.message.ts
      BY <1>2, <1>3, <2>1
    <2>3. Elapsed(b, y) \in Nat
      BY <2>2 DEF Elapsed
    <2>4. PICK g \in Nat, c \in Nat : g = Elapsed(b, y) /\ c = Cycles(g)
      BY <2>3, GapRounds
    <2>5. Capped(c) \in Nat
      BY <2>4, ScheduleAssumption DEF Capped
    <2>6. x = a + Capped(c)
      BY <1>5, <2>2, <2>4 DEF Arrives, n
    <2>7. a <= x
      BY <2>2, <2>5, <2>6
    <2>8. InOrder(t)
      <3>1. ASSUME NEW k \in 1 .. Len(t) - 1 PROVE t[k].arrival <= t[k + 1].arrival
        <4>1. CASE k = n
          BY <1>1, <2>1, <2>2, <2>7, <4>1
        <4>2. CASE k # n
          <5>1. k \in 1 .. n - 1 /\ k \in 1 .. n /\ k + 1 \in 1 .. n
            BY <1>3, <2>1, <4>2
          <5>2. s[k].arrival <= s[k + 1].arrival
            BY <5>1 DEF FollowsTime, InOrder, n
          <5>3. QED
            BY <1>1, <5>1, <5>2
        <4>3. QED
          BY <4>1, <4>2
      <3>2. QED
        BY <3>1 DEF InOrder
    <2>9. ASSUME TimeForward(t), NothingCapped(t) PROVE RoundedDown(t)
      <3>1. \A k \in 1 .. n - 1 : k \in 1 .. Len(t) - 1 /\ k \in 1 .. n /\ k + 1 \in 1 .. n
        BY <1>3, <2>1
      <3>2. TimeForward(s) /\ NothingCapped(s)
        <4>1. ASSUME NEW k \in 1 .. n - 1
              PROVE  /\ s[k].message.ts <= s[k + 1].message.ts
                     /\ Cycles(s[k + 1].message.ts - s[k].message.ts) <= GapCap
          <5>1. t[k] = s[k] /\ t[k + 1] = s[k + 1] /\ k \in 1 .. Len(t) - 1
            BY <1>1, <3>1
          <5>2. QED
            BY <2>9, <5>1 DEF TimeForward, NothingCapped
        <4>2. QED
          BY <4>1 DEF TimeForward, NothingCapped, n
      <3>3. RoundedDown(s)
        BY <3>2 DEF FollowsTime
      <3>4. DOMAIN s = 1 .. n
        BY StreamFields DEF n
      <3>5. PICK z \in Nat : z = s[1].message.ts /\ z = t[1].message.ts
        <4>1. 1 \in 1 .. n
          BY <2>1
        <4>2. QED
          BY <1>1, <1>3, <4>1
      <3>6. \A k \in 1 .. n : Lag(t, k) = Lag(s, k)
        BY <1>1, <3>5 DEF Lag
      <3>7. b <= y /\ Cycles(y - b) <= GapCap
        <4>1. n \in 1 .. Len(t) - 1
          BY <2>1
        <4>2. t[n].message.ts <= t[n + 1].message.ts
              /\ Cycles(t[n + 1].message.ts - t[n].message.ts) <= GapCap
          BY <2>9, <4>1 DEF TimeForward, NothingCapped
        <4>3. QED
          BY <1>1, <2>1, <2>2, <4>2
      <3>8. g = y - b /\ Capped(c) = c
        <4>1. g = y - b
          BY <2>2, <2>4, <3>7 DEF Elapsed
        <4>2. c <= GapCap
          BY <2>4, <3>7, <4>1
        <4>3. QED
          BY <2>4, <4>1, <4>2, ScheduleAssumption DEF Capped
      <3>9. LagFits(LagAt(y, z, x), n + 1)
        <4>1. LagFits(LagAt(b, z, a), n)
          BY <2>1, <2>2, <3>3, <3>4, <3>5 DEF RoundedDown, Lag
        <4>2. GapFits(g, c)
          BY <2>4, GapRounds
        <4>3. y = b + g /\ x = a + c
          BY <2>2, <2>4, <2>6, <3>8
        <4>4. QED
          <5>1. PICK m : m = n + 1
            OBVIOUS
          <5>2. n \in Nat /\ a \in Nat /\ b \in Nat /\ z \in Nat /\ g \in Nat /\ c \in Nat
            BY <1>3, <2>2, <2>4, <3>5
          <5>3. LagFits(LagAt(y, z, x), m)
            BY <4>1, <4>2, <4>3, <5>1, <5>2, LagGrows, Zenon
          <5>4. QED
            BY <5>1, <5>3
      <3>10. ASSUME NEW k \in DOMAIN t PROVE LagFits(Lag(t, k), k)
        <4>1. CASE k = n + 1
          <5>1. Lag(t, k) = LagAt(y, z, x)
            BY <1>1, <2>2, <3>5, <4>1 DEF Lag
          <5>2. QED
            BY <3>9, <4>1, <5>1
        <4>2. CASE k # n + 1
          <5>1. k \in 1 .. n
            BY <1>1, <4>2
          <5>2. QED
            BY <3>3, <3>4, <3>6, <5>1 DEF RoundedDown
        <4>3. QED
          BY <4>1, <4>2
      <3>11. QED
        BY <3>10 DEF RoundedDown
    <2>10. QED
      BY <2>8, <2>9 DEF FollowsTime
  <1>6. QED
    BY <1>4, <1>5

\* The invariant of the schedule: the last arrival and the last time stamp
\* are those of the last message in the stream.
SchedInv ==
  /\ stream \in Seq(StreamRecord) /\ Len(stream) <= modelMessages
  /\ havePrev \in BOOLEAN /\ (havePrev <=> Len(stream) # 0)
  /\ Len(stream) = 0 => arrival = 0
  /\ Len(stream) # 0 => /\ stream[Len(stream)].arrival = arrival
                        /\ stream[Len(stream)].message.ts = prevTs
  /\ FollowsTime(stream)

\* A message of the book that the walker returns fits a slot of the stream,
\* and there is a slot for it up to the limit.
LEMMA PushFits ==
  ASSUME WalkInv, SchedInv, Len(stream) < modelMessages,
         NEW f \in FrameRecord, WellFramed(f), f.type \in BookTypes
  PROVE  PushOk(f)
  <1>1. modelMessages \in 1 .. ModelCapacity /\ ModelCapacity \in Nat
    BY DriverAssumption, StreamAssumption DEF WalkInv
  <1>2. Len(stream) \in Nat
    BY StreamFields DEF SchedInv
  <1>3. f.length \in 1 .. MessageBytes
    BY LengthFacts DEF WellFramed
  <1>4. Len(stream) < ModelCapacity
    <2>1. PICK c \in Nat, m \in Nat, k \in Nat : c = Len(stream) /\ m = modelMessages /\ k = ModelCapacity
      BY <1>1, <1>2
    <2>2. c < m /\ m <= k
      BY <1>1, <2>1
    <2>3. c < k
      BY <2>2
    <2>4. QED
      BY <2>1, <2>3
  <1>5. f.length # 0 /\ f.length <= MessageBytes
    <2>1. \A n \in 1 .. MessageBytes : n # 0 /\ n <= MessageBytes
      BY DEF MessageBytes
    <2>2. QED
      BY <1>3, <2>1, Zenon
  <1>6. QED
    BY <1>4, <1>5 DEF PushOk

\* PassTwoMessage below the limit: one more message with its arrival.
LEMMA PushedMessage ==
  ASSUME WalkInv, SchedInv, PassTwoMessage, Len(stream) < modelMessages
  PROVE  \E e \in StreamRecord :
           /\ e.message = Frame /\ stream' = Append(stream, e) /\ Arrives(stream, e)
           /\ arrival' = e.arrival /\ prevTs' = e.message.ts /\ havePrev' = TRUE
  <1>1. PICK n : Walked(n)
    BY DEF WalkInv, PassTwoMessage
  <1>2. FileOk /\ UNCHANGED inputVars /\ WhyStopped = "no" /\ WalkerNext /\ Followed(Frame)
    BY DEF WalkInv, PassTwoMessage
  <1>3. Frame = file[n + 1] /\ n + 1 \in 1 .. Len(file) /\ WellFramed(Frame)
    BY <1>1, <1>2, WalkerMoves
  <1>4. PICK f \in FrameRecord : f = Frame
    BY <1>2, <1>3, BeforeFacts
  <1>5. PushOk(f) /\ f.ts \in Nat
    <2>1. WellFramed(f) /\ f.type \in BookTypes
      BY <1>2, <1>3, <1>4 DEF Followed
    <2>2. QED
      BY <2>1, PushFits DEF FrameRecord
  <1>6. /\ arrival' = IF havePrev THEN arrival + Capped(Cycles(Elapsed(prevTs, f.ts)))
                                  ELSE arrival
        /\ prevTs' = f.ts /\ havePrev' = TRUE /\ push(f, arrival')
    BY <1>4 DEF PassTwoMessage
  <1>7. PICK at : at = arrival'
    OBVIOUS
  <1> DEFINE e == [message |-> f, arrival |-> at]
  <1>8. stream' = Append(stream, e)
    BY <1>5, <1>6, <1>7 DEF push
  <1>9. Len(stream) \in Nat /\ \A k \in 1 .. Len(stream) :
          stream[k].arrival \in Nat /\ stream[k].message.ts \in Nat
    BY StreamFields DEF SchedInv
  <1>10. CASE Len(stream) = 0
    <2>1. at = 0
      BY <1>6, <1>7, <1>10 DEF SchedInv
    <2>2. e \in StreamRecord /\ e.message = f /\ e.arrival = at
      BY <2>1 DEF StreamRecord
    <2>3. Arrives(stream, e)
      BY <1>10, <2>1, <2>2 DEF Arrives
    <2> HIDE DEF e
    <2>4. QED
      BY <1>4, <1>6, <1>7, <1>8, <2>2, <2>3
  <1>11. CASE Len(stream) # 0
    <2>1. Len(stream) \in 1 .. Len(stream)
      BY <1>9, <1>11
    <2>2. PICK a \in Nat, b \in Nat, y \in Nat :
            /\ a = arrival /\ a = stream[Len(stream)].arrival
            /\ b = prevTs /\ b = stream[Len(stream)].message.ts
            /\ y = f.ts
      BY <1>5, <1>9, <1>11, <2>1 DEF SchedInv
    <2>3. havePrev
      BY <1>11 DEF SchedInv
    <2>4. at = a + Capped(Cycles(Elapsed(b, y)))
      BY <1>6, <1>7, <2>2, <2>3
    <2>5. Elapsed(b, y) \in Nat
      BY <2>2 DEF Elapsed
    <2>6. PICK c \in Nat : c = Cycles(Elapsed(b, y))
      BY <2>5, GapRounds
    <2>7. at \in Nat
      BY <2>2, <2>4, <2>6, ScheduleAssumption DEF Capped
    <2>8. e \in StreamRecord /\ e.message = f /\ e.arrival = at
      BY <2>7 DEF StreamRecord
    <2> HIDE DEF e
    <2>9. Arrives(stream, e)
      BY <1>11, <2>2, <2>4, <2>8 DEF Arrives
    <2>10. QED
      BY <1>4, <1>6, <1>7, <1>8, <2>8, <2>9
  <1>12. QED
    BY <1>10, <1>11

\* Every step of the driver keeps the schedule of the stream.
LEMMA SchedStep ==
  ASSUME WalkInv, SchedInv, [DriverNext]_driverVars
  PROVE  SchedInv'
  <1>1. CASE PassTwoMessage /\ Len(stream) < modelMessages
    <2>1. PICK e \in StreamRecord :
            /\ stream' = Append(stream, e) /\ Arrives(stream, e)
            /\ arrival' = e.arrival /\ prevTs' = e.message.ts /\ havePrev' = TRUE
      BY <1>1, PushedMessage
    <2>2. PICK s \in Seq(StreamRecord) : s = stream /\ FollowsTime(s)
      BY DEF SchedInv
    <2>3. PICK t : t = Append(s, e)
      OBVIOUS
    <2>4. FollowsTime(t)
      BY <2>1, <2>2, <2>3, OneMoreArrives
    <2>5. t \in Seq(StreamRecord) /\ Len(t) = Len(s) + 1 /\ t[Len(t)] = e /\ Len(s) \in Nat
      BY <2>3, AppendProperties
    <2>6. Len(s) < modelMessages /\ modelMessages \in 1 .. ModelCapacity /\ ModelCapacity \in Nat
      BY <1>1, <2>2, DriverAssumption, StreamAssumption DEF WalkInv
    <2>7. Len(t) <= modelMessages /\ Len(t) # 0
      BY <2>5, <2>6
    <2>8. modelMessages' = modelMessages
      BY <1>1 DEF PassTwoMessage, inputVars
    <2>9. stream' = t
      BY <2>1, <2>2, <2>3
    <2>10. havePrev' \in BOOLEAN /\ havePrev'
      BY <2>1, Zenon
    <2>11. QED
      BY <2>1, <2>4, <2>5, <2>7, <2>8, <2>9, <2>10 DEF SchedInv
  <1>2. ASSUME UNCHANGED <<inputVars, stream, arrival, prevTs, havePrev>> PROVE SchedInv'
    <2>1. modelMessages' = modelMessages /\ stream' = stream /\ arrival' = arrival
          /\ prevTs' = prevTs /\ havePrev' = havePrev
      BY <1>2 DEF inputVars
    <2>2. QED
      BY <2>1 DEF SchedInv
  <1>3. CASE PassTwoMessage /\ ~(Len(stream) < modelMessages)
    BY <1>2, <1>3 DEF PassTwoMessage
  <1>4. CASE PassOneMessage
    BY <1>2, <1>4 DEF PassOneMessage, passTwoVars
  <1>5. CASE PassOneEnds
    BY <1>2, <1>5 DEF PassOneEnds, passTwoVars
  <1>6. CASE ChooseStock
    BY <1>2, <1>6 DEF ChooseStock, passTwoVars
  <1>7. CASE PassTwoSkips
    BY <1>2, <1>7 DEF PassTwoSkips, passTwoVars
  <1>8. CASE PassTwoEnds
    BY <1>2, <1>8 DEF PassTwoEnds, passTwoVars
  <1>9. CASE UNCHANGED driverVars
    BY <1>2, <1>9 DEF driverVars, passTwoVars
  <1>10. QED
    BY <1>1, <1>3, <1>4, <1>5, <1>6, <1>7, <1>8, <1>9 DEF DriverNext

\* The last arrival is that of the last message pushed.
THEOREM SchedInvariant == DriverSpec => []SchedInv
  <1>1. DriverInit => SchedInv
    <2> SUFFICES ASSUME DriverInit PROVE SchedInv
      OBVIOUS
    <2>1. modelMessages \in 1 .. ModelCapacity /\ ModelCapacity \in Nat
      BY DriverStarts, DriverAssumption, StreamAssumption
    <2>2. stream = <<>> /\ arrival = 0
      BY DEF DriverInit
    <2>3. havePrev \in BOOLEAN /\ ~havePrev
      BY Zenon DEF DriverInit
    <2>4. stream \in Seq(StreamRecord) /\ Len(stream) = 0 /\ DOMAIN stream = {}
      BY <2>2
    <2>5. Len(stream) <= modelMessages
      BY <2>1, <2>4
    <2>6. FollowsTime(stream)
      BY <2>4 DEF FollowsTime, InOrder, RoundedDown
    <2>7. QED
      BY <2>2, <2>3, <2>4, <2>5, <2>6 DEF SchedInv
  <1>2. WalkInv /\ SchedInv /\ [DriverNext]_driverVars => SchedInv'
    BY SchedStep
  <1>3. QED
    BY <1>1, <1>2, WalkInvariant, PTL DEF DriverSpec

\* For every file, cap and limit, the arrival cycles pass 2 computes never go
\* back, and without a cut gap they follow the time stamps to within a cycle
\* for every gap, however many gaps are rounded one after the other.
THEOREM ArrivalsAlwaysFollow == DriverSpec => []ArrivalsFollowTime
  <1>1. SchedInv => ArrivalsFollowTime
    BY ArrivalsAre DEF SchedInv
  <1>2. QED
    BY <1>1, SchedInvariant, PTL

------------------------------------------------------------------------------
(***************************************************************************)
(* The messages pass 2 takes, and the stock pass 1 finds.                  *)
(***************************************************************************)
\* The frames of some types and one stock among the first n.
PlacesIn(fs, n, types, l) == {k \in 1 .. n : fs[k].type \in types /\ fs[k].locate = l}

\* A place of a set is one of the first of it.
LEMMA UpToCounts ==
  ASSUME NEW P, P \subseteq Nat, IsFiniteSet(P), NEW k \in P
  PROVE  Cardinality(UpTo(P, k)) \in 1 .. Cardinality(P) /\ Cardinality(P) \in Nat
  <1>1. UpTo(P, k) \subseteq P /\ k \in UpTo(P, k)
    BY DEF UpTo
  <1>2. PICK c \in Nat, d \in Nat : c = Cardinality(UpTo(P, k)) /\ d = Cardinality(P) /\ c <= d
    BY <1>1, FS_Subset, FS_CardinalityType
  <1>3. c # 0
    BY <1>1, <1>2, FS_Subset, FS_EmptySet
  <1>4. c \in 1 .. d
    BY <1>2, <1>3
  <1>5. QED
    BY <1>2, <1>4

\* One frame more is a place more, or none.
LEMMA PlacesGrow ==
  ASSUME NEW fs, NEW n \in Nat, NEW types, NEW l, NEW m, m = n + 1,
         NEW P, P = PlacesIn(fs, n, types, l), NEW Q, Q = PlacesIn(fs, m, types, l)
  PROVE  /\ IsFiniteSet(P) /\ P \subseteq Nat /\ Cardinality(P) \in 0 .. n
         /\ ~(fs[m].type \in types /\ fs[m].locate = l) => Q = P
         /\ fs[m].type \in types /\ fs[m].locate = l =>
              /\ Q = P \cup {m} /\ m \notin P /\ Cardinality(Q) = Cardinality(P) + 1
              /\ UpTo(Q, m) = Q
         /\ \A k \in P : UpTo(Q, k) = UpTo(P, k)
  <1>1. P \subseteq 1 .. n /\ IsFiniteSet(1 .. n) /\ Cardinality(1 .. n) = n
    BY FS_Interval DEF PlacesIn
  <1>2. IsFiniteSet(P) /\ P \subseteq Nat
    BY <1>1, FS_Subset
  <1>3. Cardinality(P) \in 0 .. n
    <2>1. PICK c \in Nat : c = Cardinality(P) /\ c <= n
      BY <1>1, <1>2, FS_Subset, FS_CardinalityType
    <2>2. QED
      BY <2>1
  <1>4. \A k : k \in 1 .. m <=> k \in 1 .. n \/ k = m
    OBVIOUS
  <1>5. m \notin 1 .. n
    OBVIOUS
  <1>6. ASSUME ~(fs[m].type \in types /\ fs[m].locate = l) PROVE Q = P
    BY <1>4, <1>6 DEF PlacesIn
  <1>7. ASSUME fs[m].type \in types, fs[m].locate = l
        PROVE  /\ Q = P \cup {m} /\ m \notin P /\ Cardinality(Q) = Cardinality(P) + 1
               /\ UpTo(Q, m) = Q
    <2>1. Q = P \cup {m} /\ m \notin P
      BY <1>1, <1>4, <1>5, <1>7 DEF PlacesIn
    <2>2. Cardinality(Q) = Cardinality(P) + 1
      BY <1>2, <2>1, FS_AddElement
    <2>3. \A i \in Q : i <= m
      BY <1>1, <2>1
    <2>4. UpTo(Q, m) = Q
      BY <2>3 DEF UpTo
    <2>5. QED
      BY <2>1, <2>2, <2>4
  <1>8. ASSUME NEW k \in P PROVE UpTo(Q, k) = UpTo(P, k)
    <2>1. k \in 1 .. n
      BY <1>1
    <2>2. \A i : i \in Q /\ i <= k <=> i \in P /\ i <= k
      <3>1. \A i \in 1 .. m : i <= k => i \in 1 .. n
        BY <2>1
      <3>2. \A i : i \in Q => i \in 1 .. m
        BY DEF PlacesIn
      <3>3. \A i \in 1 .. n : i \in Q <=> i \in P
        BY <1>4 DEF PlacesIn
      <3>4. QED
        BY <1>1, <3>1, <3>2, <3>3
    <2>3. QED
      BY <2>2 DEF UpTo
  <1>9. QED
    BY <1>2, <1>3, <1>6, <1>7, <1>8

\* The sequence s holds the first messages at the places P of fs, all of them
\* up to limit.
FirstOf(s, fs, P, limit) ==
  /\ Len(s) = IF Cardinality(P) < limit THEN Cardinality(P) ELSE limit
  /\ \A k \in P : LET j == Cardinality(UpTo(P, k)) IN
                  j <= Len(s) => s[j].message = fs[k]

\* Q has one place more than P, behind all others.
OneMore(P, Q, m) ==
  /\ P \subseteq Nat /\ IsFiniteSet(P) /\ m \notin P /\ Q = P \cup {m}
  /\ Cardinality(Q) = Cardinality(P) + 1 /\ UpTo(Q, m) = Q
  /\ \A k \in P : UpTo(Q, k) = UpTo(P, k)

\* Below the limit the next message is appended.
LEMMA FirstOfGrows ==
  ASSUME NEW s \in Seq(StreamRecord), NEW fs, NEW P, NEW limit \in Nat, FirstOf(s, fs, P, limit),
         NEW m, NEW Q, OneMore(P, Q, m),
         NEW e \in StreamRecord, e.message = fs[m], NEW t, t = Append(s, e), Len(s) < limit
  PROVE  FirstOf(t, fs, Q, limit)
  <1>1. PICK c \in Nat : c = Cardinality(P)
    BY FS_CardinalityType DEF OneMore
  <1>2. Len(s) \in Nat /\ Len(s) = c
    BY <1>1 DEF FirstOf
  <1>3. Len(t) = c + 1 /\ t[c + 1] = e /\ \A j \in 1 .. c : t[j] = s[j]
    BY <1>2, AppendProperties
  <1>4. Cardinality(Q) = c + 1
    BY <1>1 DEF OneMore
  <1>5. Len(t) = IF Cardinality(Q) < limit THEN Cardinality(Q) ELSE limit
    BY <1>2, <1>3, <1>4
  <1>6. ASSUME NEW k \in Q, NEW j, j = Cardinality(UpTo(Q, k)), j <= Len(t)
        PROVE  t[j].message = fs[k]
    <2>1. CASE k = m
      BY <1>3, <1>4, <1>6, <2>1 DEF OneMore
    <2>2. CASE k # m
      <3>1. k \in P /\ j = Cardinality(UpTo(P, k))
        BY <1>6, <2>2 DEF OneMore
      <3>2. j \in 1 .. c
        BY <1>1, <3>1, UpToCounts DEF OneMore
      <3>3. s[j].message = fs[k]
        BY <1>2, <3>1, <3>2 DEF FirstOf
      <3>4. QED
        BY <1>3, <3>2, <3>3
    <2>3. QED
      BY <2>1, <2>2
  <1>7. QED
    BY <1>5, <1>6 DEF FirstOf

\* At the limit nothing is.
LEMMA FirstOfFull ==
  ASSUME NEW s \in Seq(StreamRecord), NEW fs, NEW P, NEW limit \in Nat, FirstOf(s, fs, P, limit),
         NEW m, NEW Q, OneMore(P, Q, m), ~(Len(s) < limit)
  PROVE  FirstOf(s, fs, Q, limit)
  <1>1. PICK c \in Nat : c = Cardinality(P)
    BY FS_CardinalityType DEF OneMore
  <1>2. Len(s) \in Nat /\ Len(s) = limit /\ limit <= c
    BY <1>1 DEF FirstOf
  <1>3. Cardinality(Q) = c + 1
    BY <1>1 DEF OneMore
  <1>4. Len(s) = IF Cardinality(Q) < limit THEN Cardinality(Q) ELSE limit
    BY <1>2, <1>3
  <1>5. ASSUME NEW k \in Q, NEW j, j = Cardinality(UpTo(Q, k)), j <= Len(s)
        PROVE  s[j].message = fs[k]
    <2>1. k # m
      <3> SUFFICES ASSUME k = m PROVE FALSE
        OBVIOUS
      <3>1. j = c + 1 /\ j <= limit
        BY <1>2, <1>3, <1>5 DEF OneMore
      <3>2. ~(c + 1 <= limit)
        BY <1>1, <1>2
      <3>3. QED
        BY <3>1, <3>2
    <2>2. k \in P /\ j = Cardinality(UpTo(P, k))
      BY <1>5, <2>1 DEF OneMore
    <2>3. QED
      BY <1>5, <2>2 DEF FirstOf
  <1>6. QED
    BY <1>4, <1>5 DEF FirstOf

\* Pass 1 has counted the adds among the first n frames.
AddTypes == {"A", "F"}
AddPlaces(n) == {k \in 1 .. n : file[k].type \in AddTypes}
Counted(n) ==
  /\ DOMAIN adds = {file[k].locate : k \in AddPlaces(n)}
  /\ \A l \in DOMAIN adds : adds[l] = Cardinality(PlacesIn(file, n, AddTypes, l))

\* One frame counted more.
LEMMA CountOne ==
  ASSUME FileOk, NEW n \in Nat, Counted(n), NEW m \in 1 .. Len(file), m = n + 1, PassOneMessage,
         Frame = file[m], file' = file
  PROVE  Counted(m)'
  <1>1. PICK l : l = file[m].locate
    OBVIOUS
  <1>2. \A k : k \in 1 .. m <=> k \in 1 .. n \/ k = m
    OBVIOUS
  <1>3. \A x : LET P == PlacesIn(file, n, AddTypes, x)
                   Q == PlacesIn(file, m, AddTypes, x) IN
          /\ Cardinality(P) \in 0 .. n
          /\ ~(file[m].type \in AddTypes /\ l = x) => Q = P
          /\ file[m].type \in AddTypes /\ l = x => Cardinality(Q) = Cardinality(P) + 1
    BY <1>1, PlacesGrow
  <1>4. CASE file[m].type \in AddTypes
    <2>1. PICK v : /\ v = IF l \in DOMAIN adds THEN adds[l] + 1 ELSE 1
                   /\ adds' = Assign(adds, l, v)
      BY <1>1, <1>4 DEF PassOneMessage, AddTypes
    <2>2. /\ DOMAIN adds' = DOMAIN adds \cup {l}
          /\ adds'[l] = IF l \in DOMAIN adds THEN adds[l] + 1 ELSE 1
          /\ \A x \in DOMAIN adds : x # l => adds'[x] = adds[x]
      BY <2>1 DEF Assign
    <2>3. AddPlaces(m) = AddPlaces(n) \cup {m}
      BY <1>2, <1>4 DEF AddPlaces
    <2>4. DOMAIN adds' = {file[k].locate : k \in AddPlaces(m)}
      BY <1>1, <2>2, <2>3 DEF Counted
    <2>5. ASSUME NEW x \in DOMAIN adds'
          PROVE  adds'[x] = Cardinality(PlacesIn(file, m, AddTypes, x))
      <3>1. CASE x = l /\ l \in DOMAIN adds
        <4>1. adds[l] = Cardinality(PlacesIn(file, n, AddTypes, l))
          BY <3>1 DEF Counted
        <4>2. Cardinality(PlacesIn(file, m, AddTypes, l)) = Cardinality(PlacesIn(file, n, AddTypes, l)) + 1
          BY <1>3, <1>4
        <4>3. QED
          BY <2>2, <3>1, <4>1, <4>2
      <3>2. CASE x = l /\ l \notin DOMAIN adds
        <4>1. PlacesIn(file, n, AddTypes, l) = {}
          <5> SUFFICES ASSUME NEW k \in PlacesIn(file, n, AddTypes, l) PROVE FALSE
            OBVIOUS
          <5>1. k \in AddPlaces(n) /\ file[k].locate = l
            BY DEF PlacesIn, AddPlaces
          <5>2. QED
            BY <3>2, <5>1 DEF Counted
        <4>2. Cardinality(PlacesIn(file, n, AddTypes, l)) = 0
          BY <4>1, FS_EmptySet
        <4>3. Cardinality(PlacesIn(file, m, AddTypes, l)) = 1
          BY <1>3, <1>4, <4>2
        <4>4. QED
          BY <2>2, <3>2, <4>3
      <3>3. CASE x # l
        <4>1. x \in DOMAIN adds /\ adds'[x] = adds[x]
          BY <2>2, <2>5, <3>3
        <4>2. PlacesIn(file, m, AddTypes, x) = PlacesIn(file, n, AddTypes, x)
          BY <1>3, <3>3
        <4>3. QED
          BY <4>1, <4>2 DEF Counted
      <3>4. QED
        BY <3>1, <3>2, <3>3
    <2>6. QED
      BY <2>2, <2>4, <2>5 DEF Counted, AddPlaces
  <1>5. CASE file[m].type \notin AddTypes
    <2>1. adds' = adds
      BY <1>5 DEF PassOneMessage, AddTypes
    <2>2. AddPlaces(m) = AddPlaces(n)
      BY <1>2, <1>5 DEF AddPlaces
    <2>3. \A x : PlacesIn(file, m, AddTypes, x) = PlacesIn(file, n, AddTypes, x)
      BY <1>3, <1>5
    <2>4. Counted(m)
      BY <2>2, <2>3 DEF Counted
    <2>5. QED
      BY <2>1, <2>4 DEF Counted, AddPlaces
  <1>6. QED
    BY <1>4, <1>5

\* Pass 1 counts the adds of the file.
LEMMA AddsAre ==
  ASSUME FileOk, NEW n \in 0 .. Len(file), Messages = SubSeq(file, 1, n), NEW types, NEW l
  PROVE  Places(types, l) = PlacesIn(file, n, types, l)
  <1>1. DOMAIN Messages = 1 .. n /\ \A k \in 1 .. n : Messages[k] = file[k]
    BY MessagesAre
  <1>2. QED
    BY <1>1 DEF Places, PlacesIn

\* The stock the tool chooses has the most adds and, among those with as many,
\* the lowest locate.
LEMMA BusiestIs ==
  ASSUME FileOk, NEW n \in 0 .. Len(file), Messages = SubSeq(file, 1, n), Counted(n),
         NEW b, b = Busiest, b # 0, NEW l \in Locates
  PROVE  AddsOf(l) < AddsOf(b) \/ (AddsOf(l) = AddsOf(b) /\ b <= l)
  <1> DEFINE C(x) == Cardinality(PlacesIn(file, n, AddTypes, x))
             V == {adds[x] : x \in DOMAIN adds}
             M == {x \in DOMAIN adds : \A k \in DOMAIN adds : adds[k] <= adds[x]}
  <1>1. \A x : AddsOf(x) = C(x)
    BY AddsAre DEF AddsOf, AddTypes
  <1>2. n \in Nat /\ Len(file) \in Nat /\ DOMAIN file = 1 .. Len(file)
        /\ \A k \in 1 .. Len(file) : file[k] \in FrameRecord
    BY BeforeFacts
  <1>3. \A x : C(x) \in 0 .. n /\ IsFiniteSet(PlacesIn(file, n, AddTypes, x))
    BY <1>2, PlacesGrow
  <1>4. DOMAIN adds # {} /\ b = Min(M)
    BY DEF Busiest
  <1>5. \A x \in DOMAIN adds : adds[x] = C(x)
    BY DEF Counted
  <1> HIDE DEF C
  <1>6. V \subseteq 0 .. n /\ V # {}
    BY <1>3, <1>4, <1>5
  <1>7. Max(V) \in V /\ \A v \in V : v <= Max(V)
    <2> HIDE DEF V
    <2> QED
      BY <1>2, <1>6, MaxOfNats
  <1>8. PICK y \in DOMAIN adds : adds[y] = Max(V)
    BY <1>7
  <1>9. y \in M
    BY <1>7, <1>8
  <1>10. DOMAIN adds \subseteq Nat
    <2>1. \A k \in AddPlaces(n) : file[k].locate \in Nat
      BY <1>2 DEF AddPlaces, FrameRecord
    <2>2. QED
      BY <2>1 DEF Counted
  <1>11. b \in M /\ \A x \in M : b <= x
    <2>1. M \subseteq Nat /\ M # {}
      BY <1>9, <1>10
    <2> HIDE DEF M
    <2>2. QED
      BY <1>4, <2>1, MinOfNats
  <1>12. b \in DOMAIN adds /\ adds[b] = C(b) /\ \A k \in DOMAIN adds : adds[k] <= C(b)
    BY <1>5, <1>11
  <1>13. CASE l \in DOMAIN adds
    <2>1. PICK u \in 0 .. n, v \in 0 .. n : u = C(l) /\ v = C(b) /\ u = adds[l] /\ v = adds[b] /\ u <= v
      BY <1>3, <1>5, <1>12, <1>13
    <2>2. CASE u < v
      BY <1>1, <2>1, <2>2
    <2>3. CASE u = v
      <3>1. l \in M
        BY <1>12, <1>13, <2>1, <2>3
      <3>2. QED
        BY <1>1, <1>11, <2>1, <2>3, <3>1
    <2>4. QED
      BY <2>1, <2>2, <2>3
  <1>14. CASE l \notin DOMAIN adds
    <2>1. PlacesIn(file, n, AddTypes, l) = {}
      <3> SUFFICES ASSUME NEW k \in PlacesIn(file, n, AddTypes, l) PROVE FALSE
        OBVIOUS
      <3>1. k \in AddPlaces(n) /\ file[k].locate = l
        BY DEF PlacesIn, AddPlaces
      <3>2. QED
        BY <1>14, <3>1 DEF Counted
    <2>2. C(l) = 0
      BY <2>1, FS_EmptySet DEF C
    <2>3. PICK k \in AddPlaces(n) : file[k].locate = b
      BY <1>12 DEF Counted
    <2>4. k \in PlacesIn(file, n, AddTypes, b)
      BY <2>3 DEF PlacesIn, AddPlaces
    <2>5. C(b) # 0
      BY <1>3, <2>4, FS_EmptySet DEF C
    <2>6. PICK v \in 0 .. n : v = C(b) /\ v # 0
      BY <1>3, <2>5
    <2>7. 0 < v
      BY <2>6
    <2>8. QED
      BY <1>1, <2>2, <2>6, <2>7
  <1>15. QED
    BY <1>13, <1>14

\* The invariant of the slice: pass 1 has counted what the walker has passed
\* and pass 2 has taken what it has passed, and both keep it when they end.
SliceInv ==
  /\ main = "pass 1" => \A n : Walked(n) => Counted(n)
  /\ main # "pass 1" =>
       \E n \in 0 .. Len(file) : Messages = SubSeq(file, 1, n) /\ Counted(n)
  /\ main \in {"pass 1", "choose"} => stream = <<>>
  /\ main \in {"pass 2", "model"} => (want = NoSymbol => locate = Busiest)
  /\ main = "pass 2" =>
       \A n : Walked(n) =>
         FirstOf(stream, file, PlacesIn(file, n, BookTypes, locate), modelMessages)
  /\ main = "model" =>
       \E n \in 0 .. Len(file) :
         /\ Messages = SubSeq(file, 1, n)
         /\ FirstOf(stream, file, PlacesIn(file, n, BookTypes, locate), modelMessages)

\* What a step that leaves the maps alone keeps.
LEMMA CountedStays ==
  ASSUME NEW n, Counted(n), file' = file, adds' = adds
  PROVE  Counted(n)'
  BY DEF Counted, AddPlaces

\* The same for the locate main picks.
LEMMA BusiestStays ==
  ASSUME adds' = adds
  PROVE  Busiest' = Busiest
  BY DEF Busiest

\* The invariant gives the property.
LEMMA SliceIs ==
  ASSUME WalkInv, SliceInv
  PROVE  StreamIsSlice
  <1>0. FileOk
    BY DEF WalkInv
  <1>1. FollowsBusiest
    <2> SUFFICES ASSUME main \in {"pass 2", "model"}, want = NoSymbol, locate # 0, NEW l \in Locates
                 PROVE  AddsOf(l) < AddsOf(locate) \/ (AddsOf(l) = AddsOf(locate) /\ locate <= l)
      BY DEF FollowsBusiest
    <2>1. locate = Busiest
      BY DEF SliceInv
    <2>2. PICK n \in 0 .. Len(file) : Messages = SubSeq(file, 1, n) /\ Counted(n)
      BY DEF SliceInv
    <2>3. PICK b : b = locate
      OBVIOUS
    <2>4. AddsOf(l) < AddsOf(b) \/ (AddsOf(l) = AddsOf(b) /\ b <= l)
      BY <1>0, <2>1, <2>2, <2>3, BusiestIs
    <2>5. QED
      BY <2>3, <2>4
  <1>2. ASSUME main = "model"
        PROVE  LET n == Cardinality(Of(locate)) IN
               /\ Len(stream) = IF n < modelMessages THEN n ELSE modelMessages
               /\ \A k \in Of(locate) :
                    LET j == Cardinality(UpTo(Of(locate), k)) IN
                    j <= Len(stream) => stream[j].message = Messages[k]
    <2>1. PICK n \in 0 .. Len(file) :
            /\ Messages = SubSeq(file, 1, n)
            /\ FirstOf(stream, file, PlacesIn(file, n, BookTypes, locate), modelMessages)
      BY <1>2 DEF SliceInv
    <2>2. Of(locate) = PlacesIn(file, n, BookTypes, locate)
      BY <1>0, <2>1, AddsAre DEF Of
    <2>3. \A k \in Of(locate) : Messages[k] = file[k]
      BY <1>0, <2>1, <2>2, MessagesAre DEF PlacesIn
    <2>4. QED
      BY <2>1, <2>2, <2>3 DEF FirstOf
  <1>3. QED
    BY <1>1, <1>2 DEF StreamIsSlice

\* The limit is a number.
LEMMA LimitIsNat ==
  ASSUME WalkInv
  PROVE  modelMessages \in Nat
  <1>1. modelMessages \in 1 .. ModelCapacity /\ ModelCapacity \in Nat
    BY DriverAssumption, StreamAssumption DEF WalkInv
  <1>2. QED
    BY <1>1

\* A step of pass 2 that takes a message of the stock.
LEMMA TakenMessage ==
  ASSUME WalkInv, SchedInv, SliceInv, PassTwoMessage, NEW n, Walked(n), NEW m, m = n + 1
  PROVE  FirstOf(stream', file, PlacesIn(file, m, BookTypes, locate), modelMessages)
  <1>1. FileOk /\ UNCHANGED inputVars /\ WhyStopped = "no" /\ WalkerNext /\ Followed(Frame)
        /\ main = "pass 2"
    BY DEF WalkInv, PassTwoMessage
  <1>2. Frame = file[m] /\ n \in Nat
    BY <1>1, WalkerMoves
  <1>3. PICK P, Q : P = PlacesIn(file, n, BookTypes, locate) /\ Q = PlacesIn(file, m, BookTypes, locate)
    OBVIOUS
  <1>4. file[m].type \in BookTypes /\ file[m].locate = locate
    BY <1>1, <1>2 DEF Followed
  <1>5. OneMore(P, Q, m)
    BY <1>2, <1>3, <1>4, PlacesGrow DEF OneMore
  <1>6. FirstOf(stream, file, P, modelMessages) /\ stream \in Seq(StreamRecord)
    BY <1>1, <1>3 DEF SliceInv, SchedInv
  <1>7. PICK limit \in Nat : limit = modelMessages
    BY LimitIsNat
  <1>8. CASE Len(stream) < modelMessages
    <2>1. PICK e \in StreamRecord : e.message = Frame /\ stream' = Append(stream, e)
      BY <1>8, PushedMessage
    <2>2. PICK s \in Seq(StreamRecord) : s = stream
      BY <1>6
    <2>3. PICK u : u = Append(s, e)
      OBVIOUS
    <2>4. FirstOf(s, file, P, limit) /\ Len(s) < limit /\ e.message = file[m]
      BY <1>2, <1>6, <1>7, <1>8, <2>1, <2>2
    <2>5. FirstOf(u, file, Q, limit)
      BY <1>5, <2>3, <2>4, FirstOfGrows
    <2>6. stream' = u
      BY <2>1, <2>2, <2>3
    <2>7. QED
      BY <1>3, <1>7, <2>5, <2>6
  <1>9. CASE ~(Len(stream) < modelMessages)
    <2>1. stream' = stream
      BY <1>9 DEF PassTwoMessage
    <2>2. FirstOf(stream, file, Q, modelMessages)
      <3>1. FirstOf(stream, file, P, limit) /\ ~(Len(stream) < limit)
        BY <1>6, <1>7, <1>9
      <3>2. FirstOf(stream, file, Q, limit)
        BY <1>5, <1>6, <3>1, FirstOfFull
      <3>3. QED
        BY <1>7, <3>2
    <2>3. QED
      BY <1>3, <2>1, <2>2
  <1>10. QED
    BY <1>8, <1>9

\* A walker that has moved on has passed exactly one frame more.
LEMMA OneFrameMore ==
  ASSUME WalkInv, main \in {"pass 1", "pass 2"}, WhyStopped = "no", WalkerNext,
         UNCHANGED <<inputVars, main>>, NEW k, Walked(k)'
  PROVE  \E n \in Nat : Walked(n) /\ k = n + 1 /\ Frame = file[k] /\ k \in 1 .. Len(file)
  <1>1. PICK n : Walked(n)
    BY DEF WalkInv
  <1>2. FileOk /\ UNCHANGED inputVars
    BY DEF WalkInv
  <1>3. n \in Nat /\ n + 1 \in 1 .. Len(file) /\ Frame = file[n + 1] /\ Walked(n + 1)'
    BY <1>1, <1>2, WalkerMoves
  <1>4. file' = file
    BY <1>2 DEF inputVars
  <1>5. /\ k \in 0 .. Len(file) /\ n + 1 \in 0 .. Len(file)
        /\ offset' = Before(k) /\ offset' = Before(n + 1)
    BY <1>3, <1>4 DEF Walked, Before
  <1>6. k = n + 1
    <2>1. PICK m \in 0 .. Len(file) : m = n + 1
      BY <1>5
    <2>2. QED
      BY <1>2, <1>5, <2>1, BeforeOnce
  <1>7. QED
    BY <1>1, <1>3, <1>6

\* Where the walker stops, what was known of the frames it has passed is known
\* of the messages of the file.
LEMMA PassedAll ==
  ASSUME WalkInv, main \in {"pass 1", "pass 2"}, WhyStopped # "no"
  PROVE  \E n \in 0 .. Len(file) : Walked(n) /\ Messages = SubSeq(file, 1, n)
  <1>1. PICK n : Walked(n)
    BY DEF WalkInv
  <1>2. FileOk
    BY DEF WalkInv
  <1>3. Messages = SubSeq(file, 1, n) /\ n \in 0 .. Len(file)
    BY <1>1, <1>2, WalkerStops
  <1>4. QED
    BY <1>1, <1>3

\* The conjuncts of the invariant for the states before and after pass 2.
LEMMA SliceStep ==
  ASSUME WalkInv, SchedInv, SliceInv, [DriverNext]_driverVars
  PROVE  SliceInv'
  <1>0. FileOk
    BY DEF WalkInv
  <1>1. CASE PassOneMessage
    <2>1. main = "pass 1" /\ main' = "pass 1" /\ WhyStopped = "no" /\ WalkerNext
          /\ UNCHANGED <<inputVars, main>> /\ stream' = stream
      BY <1>1 DEF PassOneMessage, passTwoVars
    <2>2. ASSUME NEW k, Walked(k)' PROVE Counted(k)'
      <3>1. PICK n \in Nat : Walked(n) /\ k = n + 1 /\ Frame = file[k] /\ k \in 1 .. Len(file)
        BY <2>1, <2>2, OneFrameMore
      <3>2. Counted(n)
        BY <2>1, <3>1 DEF SliceInv
      <3>3. file' = file
        BY <2>1 DEF inputVars
      <3>4. QED
        BY <1>0, <1>1, <3>1, <3>2, <3>3, CountOne
    <2>3. QED
      BY <2>1, <2>2 DEF SliceInv
  <1>2. CASE PassOneEnds
    <2>1. main = "pass 1" /\ main' \in {"exit 1", "choose"} /\ WhyStopped # "no"
          /\ UNCHANGED inputVars /\ adds' = adds /\ stream' = stream
      BY <1>2 DEF PassOneEnds, passOneVars, passTwoVars
    <2>2. PICK n \in 0 .. Len(file) : Walked(n) /\ Messages = SubSeq(file, 1, n)
      BY <2>1, PassedAll
    <2>3. Counted(n)
      BY <2>1, <2>2 DEF SliceInv
    <2>4. file' = file /\ Messages' = Messages
      BY <1>0, <2>1, FileStays
    <2>5. Counted(n)'
      BY <2>1, <2>3, <2>4, CountedStays
    <2>6. n \in 0 .. Len(file)' /\ Messages' = SubSeq(file', 1, n)
      BY <2>2, <2>4
    <2>7. QED
      BY <2>1, <2>5, <2>6 DEF SliceInv
  <1>3. CASE ChooseStock
    <2>1. main = "choose" /\ main' \in {"exit 1", "pass 2"} /\ offset' = 0
          /\ UNCHANGED inputVars /\ adds' = adds /\ stream' = stream
          /\ (want = NoSymbol => locate' = Busiest)
      BY <1>3 DEF ChooseStock, passOneVars, passTwoVars
    <2>2. PICK n \in 0 .. Len(file) : Messages = SubSeq(file, 1, n) /\ Counted(n)
      BY <2>1 DEF SliceInv
    <2>3. file' = file /\ Messages' = Messages /\ want' = want /\ modelMessages' = modelMessages
      BY <1>0, <2>1, FileStays
    <2>4. Counted(n)'
      BY <2>1, <2>2, <2>3, CountedStays
    <2>5. n \in 0 .. Len(file)' /\ Messages' = SubSeq(file', 1, n)
      BY <2>2, <2>3
    <2>6. Busiest' = Busiest
      BY <2>1, BusiestStays
    <2>7. ASSUME NEW k, Walked(k)'
          PROVE  FirstOf(stream', file', PlacesIn(file', k, BookTypes, locate'), modelMessages')
      <3>1. k \in 0 .. Len(file) /\ Before(k) = 0
        BY <2>1, <2>3, <2>7 DEF Walked, Before
      <3>2. k = 0
        <4>1. 0 \in 0 .. Len(file) /\ Before(0) = 0
          BY <1>0, NothingBefore
        <4>2. QED
          BY <1>0, <3>1, <4>1, BeforeOnce
      <3>3. PlacesIn(file', k, BookTypes, locate') = {}
        BY <3>2 DEF PlacesIn
      <3>4. stream' = <<>> /\ Cardinality({}) = 0 /\ modelMessages' \in Nat
        BY <2>1, <2>3, LimitIsNat, FS_EmptySet DEF SliceInv
      <3>5. Len(stream') = IF Cardinality({}) < modelMessages' THEN Cardinality({}) ELSE modelMessages'
        BY <3>4
      <3>6. QED
        BY <3>3, <3>5 DEF FirstOf
    <2>8. QED
      BY <2>1, <2>3, <2>4, <2>5, <2>6, <2>7 DEF SliceInv
  <1>4. ASSUME main = "pass 2", UNCHANGED <<inputVars, main, passOneVars, locate>>,
               WhyStopped = "no", WalkerNext,
               \A n, m : Walked(n) /\ m = n + 1 =>
                 FirstOf(stream', file, PlacesIn(file, m, BookTypes, locate), modelMessages)
        PROVE  SliceInv'
    <2>1. main' = "pass 2" /\ UNCHANGED inputVars /\ adds' = adds /\ locate' = locate
      BY <1>4 DEF passOneVars
    <2>2. PICK n \in 0 .. Len(file) : Messages = SubSeq(file, 1, n) /\ Counted(n)
      BY <1>4 DEF SliceInv
    <2>3. file' = file /\ Messages' = Messages /\ want' = want /\ modelMessages' = modelMessages
      BY <1>0, <2>1, FileStays
    <2>4. Counted(n)'
      BY <2>1, <2>2, <2>3, CountedStays
    <2>5. n \in 0 .. Len(file)' /\ Messages' = SubSeq(file', 1, n)
      BY <2>2, <2>3
    <2>6. Busiest' = Busiest
      BY <2>1, BusiestStays
    <2>7. ASSUME NEW k, Walked(k)'
          PROVE  FirstOf(stream', file', PlacesIn(file', k, BookTypes, locate'), modelMessages')
      <3>1. PICK j \in Nat : Walked(j) /\ k = j + 1
        BY <1>4, <2>7, OneFrameMore
      <3>2. FirstOf(stream', file, PlacesIn(file, k, BookTypes, locate), modelMessages)
        BY <1>4, <3>1
      <3>3. QED
        BY <2>1, <2>3, <3>2
    <2>8. want = NoSymbol => locate = Busiest
      BY <1>4 DEF SliceInv
    <2>9. QED
      BY <2>1, <2>3, <2>4, <2>5, <2>6, <2>7, <2>8 DEF SliceInv
  <1>5. CASE PassTwoSkips
    <2>1. main = "pass 2" /\ UNCHANGED <<inputVars, main, passOneVars, locate>>
          /\ WhyStopped = "no" /\ WalkerNext /\ stream' = stream /\ ~Followed(Frame)
      BY <1>5 DEF PassTwoSkips, passTwoVars
    <2>2. ASSUME NEW n, NEW m, Walked(n), m = n + 1
          PROVE  FirstOf(stream', file, PlacesIn(file, m, BookTypes, locate), modelMessages)
      <3>1. Frame = file[m] /\ n \in Nat
        BY <1>0, <2>1, <2>2, WalkerMoves
      <3>2. ~(file[m].type \in BookTypes /\ file[m].locate = locate)
        BY <2>1, <3>1 DEF Followed
      <3>3. PlacesIn(file, m, BookTypes, locate) = PlacesIn(file, n, BookTypes, locate)
        BY <2>2, <3>1, <3>2, PlacesGrow
      <3>4. FirstOf(stream, file, PlacesIn(file, n, BookTypes, locate), modelMessages)
        BY <2>1, <2>2 DEF SliceInv
      <3>5. QED
        BY <2>1, <3>3, <3>4
    <2>3. QED
      BY <1>4, <2>1, <2>2
  <1>6. CASE PassTwoMessage
    <2>1. main = "pass 2" /\ UNCHANGED <<inputVars, main, passOneVars, locate>>
          /\ WhyStopped = "no" /\ WalkerNext
      BY <1>6 DEF PassTwoMessage
    <2>2. ASSUME NEW n, NEW m, Walked(n), m = n + 1
          PROVE  FirstOf(stream', file, PlacesIn(file, m, BookTypes, locate), modelMessages)
      BY <1>6, <2>2, TakenMessage
    <2>3. QED
      BY <1>4, <2>1, <2>2
  <1>7. CASE PassTwoEnds
    <2>1. main = "pass 2" /\ main' \in {"exit 1", "model"} /\ WhyStopped # "no"
          /\ UNCHANGED inputVars /\ adds' = adds /\ locate' = locate /\ stream' = stream
      BY <1>7 DEF PassTwoEnds, passOneVars, passTwoVars
    <2>2. PICK n \in 0 .. Len(file) : Walked(n) /\ Messages = SubSeq(file, 1, n)
      BY <2>1, PassedAll
    <2>3. FirstOf(stream, file, PlacesIn(file, n, BookTypes, locate), modelMessages)
      BY <2>1, <2>2 DEF SliceInv
    <2>4. PICK k \in 0 .. Len(file) : Messages = SubSeq(file, 1, k) /\ Counted(k)
      BY <2>1 DEF SliceInv
    <2>5. file' = file /\ Messages' = Messages /\ want' = want /\ modelMessages' = modelMessages
      BY <1>0, <2>1, FileStays
    <2>6. Counted(k)'
      BY <2>1, <2>4, <2>5, CountedStays
    <2>7. k \in 0 .. Len(file)' /\ Messages' = SubSeq(file', 1, k)
      BY <2>4, <2>5
    <2>8. n \in 0 .. Len(file)' /\ Messages' = SubSeq(file', 1, n)
          /\ FirstOf(stream', file', PlacesIn(file', n, BookTypes, locate'), modelMessages')
      BY <2>1, <2>2, <2>3, <2>5
    <2>9. want' = NoSymbol => locate' = Busiest'
      BY <2>1, <2>5, BusiestStays DEF SliceInv
    <2>10. QED
      BY <2>1, <2>6, <2>7, <2>8, <2>9 DEF SliceInv
  <1>8. CASE UNCHANGED driverVars
    <2>1. UNCHANGED inputVars /\ adds' = adds /\ locate' = locate /\ stream' = stream
          /\ main' = main /\ offset' = offset
      BY <1>8 DEF driverVars, passOneVars, passTwoVars
    <2>2. file' = file /\ Messages' = Messages /\ want' = want /\ modelMessages' = modelMessages
      BY <1>0, <2>1, FileStays
    <2>3. \A n : (Walked(n)' <=> Walked(n)) /\ (Counted(n)' <=> Counted(n))
      BY <2>1, <2>2 DEF Walked, Before, InFile, Counted, AddPlaces, inputVars
    <2>4. Busiest' = Busiest
      BY <2>1, BusiestStays
    <2>5. QED
      BY <2>1, <2>2, <2>3, <2>4 DEF SliceInv
  <1>9. QED
    BY <1>1, <1>2, <1>3, <1>5, <1>6, <1>7, <1>8 DEF DriverNext

\* For every file, symbol and limit, the stock followed without --symbol is
\* the busiest of the slice, and the model runs on the first messages of the
\* followed stock that touch the book, in the order of the file, none skipped
\* and none refused by push.
THEOREM StreamAlwaysSlice == DriverSpec => []StreamIsSlice
  <1>1. DriverInit => SliceInv
    <2> SUFFICES ASSUME DriverInit PROVE SliceInv
      OBVIOUS
    <2>1. main = "pass 1" /\ stream = <<>> /\ offset = 0 /\ adds = NoEntries /\ FileOk
      BY DriverStarts DEF DriverInit
    <2>2. ASSUME NEW n, Walked(n) PROVE Counted(n)
      <3>1. n = 0
        <4>1. 0 \in 0 .. Len(file) /\ Before(0) = 0
          BY <2>1, NothingBefore
        <4>2. n \in 0 .. Len(file) /\ Before(n) = 0
          BY <2>1, <2>2 DEF Walked
        <4>3. QED
          BY <2>1, <4>1, <4>2, BeforeOnce
      <3>2. AddPlaces(n) = {}
        BY <3>1 DEF AddPlaces
      <3>3. DOMAIN adds = {}
        BY <2>1 DEF NoEntries
      <3>4. QED
        BY <3>2, <3>3 DEF Counted
    <2>3. QED
      BY <2>1, <2>2 DEF SliceInv
  <1>2. WalkInv /\ SchedInv /\ SliceInv /\ [DriverNext]_driverVars => SliceInv'
    BY SliceStep
  <1>3. WalkInv /\ SliceInv => StreamIsSlice
    BY SliceIs
  <1>4. QED
    BY <1>1, <1>2, <1>3, WalkInvariant, SchedInvariant, PTL DEF DriverSpec
==============================================================================
