--------------------------- MODULE ServiceRegistry ---------------------------
(***************************************************************************)
(* What newMCPAuthServiceResolver (cmd/slacker/main.go) promises to the    *)
(* HTTP handlers: get-or-create.  The first answer for a server name fixes *)
(* the service every later caller of the same process is answered with.    *)
(***************************************************************************)
CONSTANTS Server, Request, None

VARIABLES registry,   \* the service registered under each name, or None
          answer      \* the service each caller was answered with, or None

regVars == <<registry, answer>>

Init ==
  /\ registry = [s \in Server |-> None]
  /\ answer = [r \in Request |-> None]

\* A caller is answered with the registered service ...
Get(r, s) ==
  /\ answer[r] = None
  /\ registry[s] # None
  /\ answer' = [answer EXCEPT ![r] = registry[s]]
  /\ UNCHANGED registry

\* ... or registers the service it built (named after the caller).
Create(r, s) ==
  /\ answer[r] = None
  /\ registry[s] = None
  /\ registry' = [registry EXCEPT ![s] = r]
  /\ answer' = [answer EXCEPT ![r] = r]

\* A new process starts with an empty registry and no callers.
Forget == Init'

Next ==
  \/ \E r \in Request, s \in Server : Get(r, s) \/ Create(r, s)
  \/ Forget

Spec == Init /\ [][Next]_regVars
==============================================================================
