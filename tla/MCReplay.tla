------------------------------ MODULE MCReplay ------------------------------
(* Replay for TLC: a pipeline for each way of embedding one. *)
EXTENDS Replay

Plain(kind) == [kind |-> kind, subs |-> <<>>, max |-> 0]
Embedding(kind, subs) == [kind |-> kind, subs |-> subs, max |-> 0]
Bounded(body, max) == [kind |-> "loop", subs |-> <<body>>, max |-> max]

\* Two items, of which either may be rescued, folded into one.
Rescued ==
    [root |-> <<Plain("expand"), Embedding("rescue", <<"try">>), Plain("reduce")>>,
     try  |-> <<Plain("step")>>]

\* A Rescue around two items.
RescuedTwo ==
    [root |-> <<Embedding("rescue", <<"try">>), Plain("step")>>,
     try  |-> <<Plain("expand"), Plain("step"), Plain("step"), Plain("reduce")>>]

\* A bounded Loop whose body may drop the item, inside a Rescue.
Looped ==
    [root |-> <<Embedding("rescue", <<"try">>), Plain("step")>>,
     try  |-> <<Bounded("body", 2)>>,
     body |-> <<Plain("filter")>>]

\* A Switch with an arm of two items, and a Via in the other.
Switched ==
    [root  |-> <<Plain("expand"), Embedding("switch", <<"one", "other">>), Plain("reduce")>>,
     one   |-> <<Plain("expand")>>,
     other |-> <<Embedding("via", <<"effects">>)>>,
     effects |-> <<Plain("step")>>]

\* An Alongside inside a Rescue inside a Rescue.
Sided ==
    [root  |-> <<Embedding("rescue", <<"outer">>), Plain("step")>>,
     outer |-> <<Embedding("rescue", <<"inner">>), Plain("step")>>,
     inner |-> <<Embedding("alongside", <<"main">>)>>,
     main  |-> <<Plain("step")>>]

\* Two items through an Alongside and into a stream.
SidedTwo ==
    [root |-> <<Plain("expand"), Embedding("alongside", <<"main">>), Plain("stream")>>,
     main |-> <<Plain("filter")>>]

\* Two items through a step and a bounded Loop.
LoopBehindStep ==
    [root |-> <<Plain("expand"), Plain("step"), Bounded("body", 1), Plain("reduce")>>,
     body |-> <<Plain("step")>>]

\* Two items through a Via around a bounded Loop.
LoopInVia ==
    [root |-> <<Plain("expand"), Embedding("via", <<"effects">>), Plain("reduce")>>,
     effects |-> <<Bounded("body", 1)>>,
     body |-> <<Plain("step")>>]

Sample ==
    {Rescued, RescuedTwo, Looped, Switched, Sided, SidedTwo, LoopBehindStep, LoopInVia}
Loops == {LoopBehindStep}
=============================================================================
