---------------------------- MODULE MCAuthorityGate ----------------------------
(***************************************************************************)
(* An instance of the gate with its adapter for TLC: one guard of a tool   *)
(* server that may send the sentinels, and one application that uses every *)
(* operation of the gate, with up to two source segments, and the levels   *)
(* on both sides of the boundaries 3 and 5.                                *)
(***************************************************************************)
EXTENDS MCPAdapter, Functions

CONSTANTS words

MCTexts == {words, BLOCKED_DESC, BLOCKED_RESULT}

Seg(authority, verdict) ==
    [authority |-> authority, resolved |-> TRUE, verdict |-> verdict]

IdOnly(authority, verdict) ==
    [authority |-> authority, resolved |-> FALSE, verdict |-> verdict]

Request(op, effect, sources, explicit, risky, level, confirmed) ==
    [op |-> op, effect |-> effect, sources |-> sources, explicit |-> explicit,
     risky_sink |-> risky, level |-> level, confirmed |-> confirmed]

On(op, effect, source, explicit) ==
    Request(op, effect, <<source>>, explicit, FALSE, 9, FALSE)

SegmentCalls ==
    { On("effect", "policy_change", Seg("developer", "none"), FALSE),
      On("effect", "tool_call", Seg("developer", "high_risk"), FALSE),
      On("effect", "tool_call", Seg("retrieved_external", "other"), FALSE),
      On("rag", "prompt_entry", Seg("retrieved_external", "high_risk"), FALSE),
      On("rag", "prompt_entry", Seg("unknown_untrusted", "none"), FALSE),
      On("memory", "memory_write", Seg("authenticated_user", "none"), TRUE),
      On("memory", "memory_write", Seg("authenticated_user", "none"), FALSE),
      On("memory", "memory_write", Seg("tool_output", "none"), TRUE) }

ToolSources ==
    { <<Seg("developer", "none"), Seg("tool_output", "other")>>,
      <<Seg("developer", "other"), Seg("system", "high_risk")>>,
      <<IdOnly("retrieved_external", "other"), Seg("developer", "none")>>,
      <<IdOnly("tool_output", "high_risk")>>,
      <<Seg("authenticated_user", "none")>> }

Tool(sources, risky, level, confirmed) ==
    Request("tool", "tool_call", sources, FALSE, risky, level, confirmed)

\* Sources that settle the call, and sinks that do.
ToolCalls ==
    {Tool(sources, TRUE, 3, TRUE) : sources \in ToolSources}
    \cup {Tool(<<>>, TRUE, level, confirmed) :
            level \in {2, 3, 4, 5}, confirmed \in BOOLEAN}
    \cup {Tool(<<>>, FALSE, 9, FALSE)}

MCCalls == SegmentCalls \cup ToolCalls \cup UNION {Range(Script(part)) : part \in Parts}
================================================================================
