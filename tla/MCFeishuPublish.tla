-------------------------- MODULE MCFeishuPublish --------------------------
(* Small instances of FeishuPublish for TLC. *)
EXTENDS FeishuPublish, TLC

CONSTANTS a1, a2, s1, s2, t1, t2

Of(state, shop) == [source |-> TRUE, state |-> state, shop |-> shop]
Asked(row, targets, connections) ==
  [row |-> row, targets |-> targets, connections |-> connections]

(* Two shops or two targets, one app or the other. *)
TwoCards ==
  { Asked(a1, <<t1>>, {Of("problem", s1), Of("problem", s2), Of("ok", s1)}),
    Asked(a2, <<t1>>, {Of("problem", s1), Of("unconfigured", s2)}) }

(* Every early return, a target listed twice, two shops for two targets, a *)
(* tenant without a row.                                                   *)
EveryOutcome ==
  TwoCards \cup
  { Asked(a1, <<t1, t1>>, {Of("problem", s1)}),
    Asked(a1, <<t1, t2>>, {Of("problem", s1), Of("problem", s2)}),
    Asked(a1, <<t1, t2>>, {Of("ok", s1)}),
    Asked(a1, <<>>, {Of("problem", s1)}),
    Asked(a1, <<t1>>, {Of("unconfigured", s1), [Of("problem", s1) EXCEPT !.source = FALSE]}),
    Asked(NoApp, <<t1>>, {Of("problem", s1)}) }

OneCard == { Asked(a, <<t1>>, {Of("problem", s1)}) : a \in {a1, a2} }

PublishSymmetry == Permutations(Publishes)
=============================================================================
