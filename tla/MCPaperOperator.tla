--------------------------- MODULE MCPaperOperator ---------------------------
(* The paper bot with its operator, on the instances of MCPaperBot.        *)
EXTENDS MCPaperBot, PaperOperator
=============================================================================
