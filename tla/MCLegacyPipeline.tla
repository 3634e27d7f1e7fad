--------------------------- MODULE MCLegacyPipeline ---------------------------
(***************************************************************************)
(* An instance of LegacyPipeline for TLC: contents on both sides of the    *)
(* thresholds 35 and 75, every marker that decides alone, some that        *)
(* compete, and two content types, with which one content reads like       *)
(* another; sinks that both generations count as risky, one or none.       *)
(***************************************************************************)
EXTENDS LegacyPipeline

Plain == [literal |-> {}, obfuscated |-> {}, keywords |-> 0, benign |-> FALSE,
          short |-> FALSE, base64 |-> FALSE, blob |-> FALSE]

Ordering == [Plain EXCEPT !.literal = {"TOOL_CALL_REQUEST"}]

MCContents ==
    { Plain, Ordering,
      [Plain EXCEPT !.keywords = 30, !.short = TRUE],
      [Plain EXCEPT !.obfuscated = {"SECRET_REQUEST", "TOOL_CALL_REQUEST"},
                    !.benign = TRUE],
      [Plain EXCEPT !.obfuscated = {"UNKNOWN_HIGH_RISK_MARKER"}, !.blob = TRUE],
      [Plain EXCEPT !.literal = {"SECRET_REQUEST", "MEMORY_WRITE_REQUEST"}],
      [Plain EXCEPT !.literal = {"TOOL_CALL_REQUEST", "UNKNOWN_HIGH_RISK_MARKER"}],
      [Plain EXCEPT !.literal = {"UNKNOWN_HIGH_RISK_MARKER"}, !.base64 = TRUE] }

MCContentTypes == {"document", "order_document"}

\* The end of Ordering is the beginning of the longer content type: without it, it is
\* Plain.  Otherwise the two texts can be told apart.
MCJoined ==
    [joined \in MCContents \X MCContentTypes |->
        IF joined = <<Ordering, "document">> THEN <<Plain, "order_document">> ELSE joined]

MCRequest(sids, sink, level, confirmed) ==
    [source_segment_ids |-> sids, sink |-> sink, level |-> level,
     user_confirmed |-> confirmed]

MCRequests ==
    {MCRequest({sid}, "search", 8, FALSE) : sid \in Ids}
    \cup {MCRequest({sid}, "calendar_invite", 3, TRUE) : sid \in {s \in Ids : s[2] = "developer"}}
    \cup {MCRequest({}, sink, level, confirmed) :
            sink \in {"payment", "send_email", "calendar_invite"},
            level \in {2, 4, 8}, confirmed \in BOOLEAN}
===============================================================================
