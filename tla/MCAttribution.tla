---------------------------- MODULE MCAttribution ----------------------------
(* Instances of Attribution for TLC. *)
EXTENDS Attribution, TLC

CONSTANTS a1, a2, n1, n2, e1, e2, r1, r2

Home(e, r) == [edge |-> e, region |-> r]
Msg(a, e, r, at, nation, releasable) ==
    [asset |-> a, edge |-> e, region |-> r, at |-> at,
     nation |-> nation, releasable |-> releasable]
Unlabelled(a, e, r, at) == Msg(a, e, r, at, None, {})

\* Labelled and not, with an origin, with half of one, with a position.
TelemetryMessages ==
    {Unlabelled(a1, None, None, 0), Msg(a1, e2, None, 2, n1, {}),
     Msg(a1, None, None, None, n2, {n1}),
     Unlabelled(a2, None, None, 2), Msg(a2, e1, r1, None, n1, {n2}),
     Unlabelled(a2, e1, None, None)}
CapabilityMessages ==
    {Msg(a1, None, None, None, n1, {n2}), Msg(a1, e2, None, None, n2, {}),
     Unlabelled(a1, e2, r2, None), Unlabelled(a2, None, None, None)}
WindowMessages ==
    {Unlabelled(a1, None, None, None), Msg(a1, e2, None, None, n1, {}),
     Msg(a1, None, r2, None, n2, {n1})}
RollupMessages == {Msg(a1, None, None, None, None, S) : S \in SUBSET {n1, n2}}

Topic(h, messages) == [handler |-> h, topic |-> messages]
EveryTopic == {Topic("telemetry_latest", TelemetryMessages),
               Topic("capability_state", CapabilityMessages),
               Topic("telemetry_windows", WindowMessages),
               Topic("region_fleet_summary", RollupMessages)}
TelemetryTopic == {Topic("telemetry_latest", TelemetryMessages)}
RollupTopic == {Topic("region_fleet_summary", RollupMessages)}

Static(map) == [strategy |-> "static", map |-> map]
Nearest(fobs) == [strategy |-> "nearest_fob", fobs |-> fobs]
FobAt(e, r, at) == [edge |-> e, region |-> r, at |-> at]
Config(chain, fallback) ==
    [chain |-> chain, fallback |-> fallback, env |-> Home(e1, r1)]

\* a1 is pinned by both that can be built; a2 goes by its position, or by
\* nothing; and a file that still names the removed strategy.
Deployments ==
    {Config(<<Static(a1 :> Home(e1, r1)),
              Nearest(<<FobAt(e1, r1, 0), FobAt(e2, r2, 2)>>)>>, Home(e1, r2)),
     Config(<<Static(a1 :> Home(e1, r1))>>, Home(e1, r2)),
     Config(<<[strategy |-> "asset_id_prefix"]>>, Home(e1, r2))}
=============================================================================
