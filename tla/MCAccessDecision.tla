-------------------------- MODULE MCAccessDecision --------------------------
(* TLC instance of AccessDecision: two rows whose names differ in case, one *)
(* more, and two agents, of which one may use a single server.              *)
EXTENDS AccessDecision

CONSTANTS jira, JIRA, wiki

MCKeyOf == [r \in Row |-> IF r = wiki THEN "wiki" ELSE "jira"]
MCDefinition == {{}, {wiki}}
==============================================================================
