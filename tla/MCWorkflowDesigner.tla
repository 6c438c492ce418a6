------------------------- MODULE MCWorkflowDesigner -------------------------
(* One browser, and the three ways connectors come: a source has no input, a *)
(* store no output, an operator both.                                        *)
EXTENDS WorkflowDesigner

=============================================================================
