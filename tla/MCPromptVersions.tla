--------------------------- MODULE MCPromptVersions ---------------------------
EXTENDS PromptVersions
CONSTANTS n1, n2

\* Two names that sanitize alike ("ops guide" and "ops/guide").
MCSanitize == [n \in {n1, n2} |-> "folder"]
==============================================================================
