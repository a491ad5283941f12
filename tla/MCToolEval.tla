----------------------------- MODULE MCToolEval -----------------------------
EXTENDS ToolEval
=============================================================================
