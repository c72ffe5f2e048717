----------------------------- MODULE AdminConfig -----------------------------
(***************************************************************************)
(* /slacker-config: administrators edit the table mcp_servers through      *)
(* modals (internal/slack/config_modal.go).  A modal shows the rows as     *)
(* they are when it is opened and is submitted any time later; modals are  *)
(* held by Slack and survive restarts of the process.  The event loop      *)
(* handles one submission at a time, and each is one statement or one      *)
(* transaction.                                                            *)
(***************************************************************************)
EXTENDS FiniteSets

CONSTANTS Server,  \* names of MCP servers
          Typed,   \* clients an administrator may have registered by hand
          View,    \* modals that may be open at once
          None     \* "no row", the empty string

VARIABLES mcpServers,  \* the table: a row under each name, or None
          view         \* what each modal is for and the servers it lists

adminVars == <<mcpServers, view>>

Mode == {"static", "dcr"}
Kind == {"closed", "add", "list", "remove"}

Row(Client) == [mode : Mode, id : Client \cup {None},
                secret : Client \cup {None}, enabled : BOOLEAN]

Configured == {s \in Server : mcpServers[s] # None}

\* A server may have been inserted as the README does for Jira: DCR, no client.
DynamicRow == [mode |-> "dcr", id |-> None, secret |-> None, enabled |-> TRUE]

AdminInit ==
  /\ mcpServers \in [Server -> {None, DynamicRow}]
  /\ view = [v \in View |-> [kind |-> "closed", shown |-> {}]]

-----------------------------------------------------------------------------
(* Opening: ListMCPServers, then the modal.  A failure leaves no modal.    *)

Open(v, k, servers) ==
  /\ view[v].kind = "closed"
  /\ view' = [view EXCEPT ![v] = [kind |-> k, shown |-> servers]]
  /\ UNCHANGED mcpServers

OpenMCPAddModal(v) == Open(v, "add", Configured)

\* Nothing to list or to remove: a message instead of a modal.
OpenMCPListModal(v) == Configured # {} /\ Open(v, "list", Configured)

OpenMCPRemoveModal(v) == Configured # {} /\ Open(v, "remove", Configured)

\* The modal is cancelled, or its submission is refused, lost or fails.
CloseModal(v) ==
  /\ view[v].kind # "closed"
  /\ view' = [view EXCEPT ![v] = [kind |-> "closed", shown |-> {}]]

DropModal(v) == CloseModal(v) /\ UNCHANGED mcpServers

-----------------------------------------------------------------------------
(* Submissions.                                                            *)

\* Fault variant: the secret of a static client is not asked for.
IdIsEnough(mode, id, secret) == mode = "static" => id # None

\* What handleMCPAddModalSubmission accepts.
ValidAdd(mode, id, secret) == mode = "static" => id # None /\ secret # None

\* UpsertMCPServer replaces the whole row, and enables it.
HandleMCPAddModalSubmission(v) ==
  /\ view[v].kind = "add"
  /\ \E s \in Server, mode \in Mode, id, secret \in Typed \cup {None} :
       /\ ValidAdd(mode, id, secret)
       /\ mcpServers' = [mcpServers EXCEPT ![s] =
            [mode |-> mode, id |-> id, secret |-> secret, enabled |-> TRUE]]
  /\ CloseModal(v)

\* SetEnabledMCPServers: disable all, then enable the selected ones.
SetEnabledMCPServers(selected) ==
  mcpServers' = [s \in Server |->
    IF s \in Configured
    THEN [mcpServers[s] EXCEPT !.enabled = s \in selected]
    ELSE None]

HandleMCPListModalSubmission(v) ==
  /\ view[v].kind = "list"
  /\ \E selected \in SUBSET view[v].shown : SetEnabledMCPServers(selected)
  /\ CloseModal(v)

HandleMCPRemoveModalSubmission(v) ==
  /\ view[v].kind = "remove"
  /\ \E s \in view[v].shown : mcpServers' = [mcpServers EXCEPT ![s] = None]
  /\ CloseModal(v)

\* One step of respondConfig or handleInteraction for one modal.
ModalStep(v) ==
  \/ OpenMCPAddModal(v) \/ OpenMCPListModal(v) \/ OpenMCPRemoveModal(v)
  \/ DropModal(v)
  \/ HandleMCPAddModalSubmission(v)
  \/ HandleMCPListModalSubmission(v)
  \/ HandleMCPRemoveModalSubmission(v)

-----------------------------------------------------------------------------
(* Properties, of every module that extends this one.                      *)

\* Modal v is submitted or dropped in this step.
Closing(v, k) == view[v].kind = k /\ view'[v].kind = "closed"

\* config_modal.go:239 requires a client and its secret for static mode: no
\* sequence of edits and late registrations leaves a static row without them.
StaticHasClient ==
  \A s \in Configured :
    mcpServers[s].mode = "static" =>
      mcpServers[s].id # None /\ mcpServers[s].secret # None

\* A removed server comes back only when an administrator adds it: neither a
\* list modal opened before the removal nor a registration that was under way
\* (SaveMCPRegistration) brings its row back.
RemovedStaysRemoved ==
  [][\A s \in Server :
       mcpServers[s] = None /\ mcpServers'[s] # None
         => \E v \in View : Closing(v, "add")]_mcpServers
==============================================================================
