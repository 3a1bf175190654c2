---------------------------- MODULE MCTickToTrade ----------------------------
(***************************************************************************)
(* Message streams for model checking the pipeline.                        *)
(***************************************************************************)
EXTENDS PipelineProperties

MCBlank == Quote(0, 0, 0, 0)

Msg(t, r, n, b, p, q, len) ==
  [type |-> t, reference |-> r, newReference |-> n, bid |-> b, price |-> p,
   shares |-> q, length |-> len, arrival |-> 0]
Arriving(m, at) == [m EXCEPT !.arrival = at]

(***************************************************************************)
(* Timing: four messages that can be applied, of 6, 7, 5 or 4 blocks, with *)
(* gaps below, at and above the wire time of a message.                    *)
(***************************************************************************)
CONSTANT Gaps

Later(i) == {Msg("F", i, 0, FALSE, 5 - i, 1, 40), Msg("E", 0, 0, FALSE, 0, 1, 31),
             Msg("X", 0, 0, FALSE, 0, 1, 23)}
TimingStreams ==
  {<<Arriving(Msg("A", 0, 0, TRUE, 1, 4, 36), g0), Arriving(m1, g0 + g1),
     Arriving(m2, g0 + g1 + g2), Arriving(m3, g0 + g1 + g2 + g3)>> :
       g0 \in {0, 3}, g1 \in Gaps, g2 \in Gaps, g3 \in Gaps,
       m1 \in Later(1), m2 \in Later(2), m3 \in Later(3)}

(***************************************************************************)
(* Contents: four messages, three of them waiting on the wire at the start *)
(* and one arriving while they are received, of every type, with fresh,    *)
(* live, replaced and unknown references, both sides, more shares than     *)
(* remain, and lengths that do not belong to the type.                     *)
(***************************************************************************)
Contents ==
  {Msg("A", r, 0, b, 1, q, 36) : r \in {0, 1}, b \in BOOLEAN, q \in {1, 3}}
    \cup {Msg("F", 2, 0, TRUE, 2, 1, 40), Msg("E", 0, 0, FALSE, 0, 1, 31),
          Msg("C", 0, 0, FALSE, 0, 2, 36), Msg("X", 1, 0, FALSE, 0, 4, 23),
          Msg("D", 0, 0, FALSE, 0, 0, 19), Msg("U", 0, 1, FALSE, 2, 2, 35),
          Msg("U", 0, 0, FALSE, 2, 2, 35), Msg("U", 1, 2, FALSE, 1, 3, 35),
          Msg("?", 0, 0, FALSE, 0, 0, 12), Msg("A", 1, 0, TRUE, 2, 1, 35),
          Msg("D", 0, 0, FALSE, 0, 0, 20), Msg("X", 0, 0, FALSE, 0, 1, 1)}
ContentStreams ==
  {<<m1, m2, m3, Arriving(m4, 4)>> :
     m1 \in {Msg("A", 0, 0, TRUE, 1, 3, 36), Msg("F", 0, 0, FALSE, 2, 2, 40)},
     m2 \in Contents, m3 \in Contents,
     m4 \in {Msg("A", 1, 0, FALSE, 1, 2, 36), Msg("X", 0, 0, FALSE, 0, 1, 23),
             Msg("U", 0, 1, FALSE, 2, 2, 35), Msg("D", 0, 0, FALSE, 0, 0, 20)}}

(***************************************************************************)
(* Every stream is one of a feed and names no more prices than the book    *)
(* has levels, so it is a ShallowStream: the theorems about what the       *)
(* pipeline computes apply to it.                                          *)
(***************************************************************************)
ASSUME FeedStreams
ASSUME \A s \in Streams : Cardinality({s[i].price : i \in DOMAIN s}) <= Levels
==============================================================================
