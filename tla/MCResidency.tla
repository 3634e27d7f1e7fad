------------------------------ MODULE MCResidency ------------------------------
(***************************************************************************)
(* Instances of ResidencyHarness for TLC.  "chat" and "math" share a model *)
(* (as in bounded_agent_config.example.json), so consecutive items both    *)
(* reuse a resident model and switch to another one.                       *)
(***************************************************************************)
EXTENDS ResidencyMemory, TLC

CONSTANTS small, large, other

MCModels == {small, large, other}
ProfiledModels == {small, large}
MCRoutes == {"auto", "fast", "chat", "code", "math", "vision"}

MCProfiles == [fast |-> large, chat |-> small, math |-> small, code |-> large]

MCFootprint == (small :> 2) @@ (large :> 5) @@ (other :> 3)

Text(code, math, chat) == [code |-> code, math |-> math, chat |-> chat]

Item(id, route, prompt, expected) ==
    [item_id |-> id, route |-> route, prompt |-> prompt, expected_route |-> expected]

\* Reuse, then switch; the last item carries an explicit route and no label.
ReuseThenSwitch ==
    <<Item("i1", "auto", Text(FALSE, FALSE, TRUE), "chat"),
      Item("i2", "auto", Text(FALSE, TRUE, TRUE), "math"),
      Item("i3", "code", Text(FALSE, FALSE, FALSE), NoRoute)>>

\* A switch, with a label the router does not meet.
SwitchMislabelled ==
    <<Item("i1", "auto", Text(TRUE, FALSE, FALSE), "code"),
      Item("i2", "auto", Text(FALSE, FALSE, TRUE), "fast")>>

\* A switch between correctly labelled items.
Switch ==
    <<Item("i1", "auto", Text(TRUE, TRUE, FALSE), "code"),
      Item("i2", "auto", Text(FALSE, FALSE, TRUE), "chat")>>

MCItemIds == {"i1", "i2", "i3"}
================================================================================
