-------------------------- MODULE MCUpstreamRequest --------------------------
(* Contents of chunks and bodies for TLC: every kind of message, alone and    *)
(* behind one that yields events or none.                                      *)
EXTENDS UpstreamRequest

MCChunks ==
    {<<>>,
     <<Other>>,
     <<Assistant(<<"a">>)>>,
     <<Assistant(<<>>), Malformed>>,
     <<Metadata(TRUE, "end_turn")>>,
     <<Metadata(FALSE, "stream_incomplete")>>,
     <<ToolUse("x", "n", <<<<"{", "}">>>>, TRUE), Exception>>,
     <<Other, Exception>>,
     <<Other, Malformed>>,
     <<ErrorEvent, Reasoning(<<"r">>)>>}

\* Each ends with the stop or error that decode_events always yields last.
MCBodies ==
    {<<Error>>,
     <<TextDelta(<<"a">>), Stop("end_turn")>>,
     <<ToolCallStart("x", "n"), ToolCallDelta("x", <<"{">>), ToolCallEnd("x", FALSE),
       Stop("stream_incomplete")>>}
=============================================================================
