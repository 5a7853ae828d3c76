----------------------------- MODULE MCAgentRun -----------------------------
(* Two messages, two turns each and two tool calls in all, the first to a  *)
(* tool that can outlive its timeout; and one restart or failed write.     *)
EXTENDS AgentRun

MCCalls == 1..2

MCTools ==
  {<<"analyze_audio", "edit">>, <<"bash", "edit">>, <<"activate_skill", "read">>,
   <<"analyze_media", "unknown">>, <<"probe_media", "read">>}

=============================================================================
