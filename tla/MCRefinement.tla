---------------------------- MODULE MCRefinement ----------------------------
EXTENDS MCToolCall, ToolCallRefinement
=============================================================================
