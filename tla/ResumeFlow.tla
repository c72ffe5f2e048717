----------------------------- MODULE ResumeFlow ------------------------------
(***************************************************************************)
(* The life of a resume request: ResumeOAuthConversation of                *)
(* internal/slack/handlers.go over the turns of AgentTurn.                 *)
(*                                                                         *)
(* A successful OAuth callback starts a goroutine that loads the request,  *)
(* checks that it belongs to the user and server just connected, announces *)
(* and reruns the prompt in its thread, and then deletes the request.  The *)
(* link can be followed more than once, a rerun can itself prompt for more *)
(* servers, and each step that talks to Slack or the database can fail.    *)
(***************************************************************************)
EXTENDS AgentTurn

VARIABLES origin,     \* the request a resumed turn was started for, or None
          claim,      \* <<user, server>> of the OAuth state that started it
          authorized  \* <<user, server>> that have completed an exchange

resumeVars == <<origin, claim, authorized>>
vars == <<agentVars, resumeVars>>

TypeOK ==
  /\ TurnTypeOK
  /\ origin \in [Turn -> RowId \cup {None}]
  /\ claim \in [Turn -> (User \X Server) \cup {None}]
  /\ authorized \subseteq User \X Server

Init ==
  /\ TurnInit
  /\ origin = [t \in Turn |-> None]
  /\ claim = [t \in Turn |-> None]
  /\ authorized = {}

-----------------------------------------------------------------------------
(* The event loop handles one message at a time (see EventLoop).           *)

EventLoopIsFree == \A t \in Turn : origin[t] = None => stage[t] \in {"idle", "done"}

StartTurn(t, u) ==
  /\ EventLoopIsFree
  /\ BeginTurn(t, u)
  /\ UNCHANGED resumeVars

-----------------------------------------------------------------------------
(* The OAuth callback and its goroutine.                                   *)

\* A browser followed the link of a request and the callback stored a token
\* for the user the state names (normally the owner of the request).
OAuthSucceeds(t, id, u) ==
  /\ Go(t, "idle", "load")
  /\ id \in links
  /\ connected' = connected \cup {<<u, ServerOf(id)>>}
  /\ authorized' = authorized \cup {<<u, ServerOf(id)>>}
  /\ origin' = [origin EXCEPT ![t] = id]
  /\ claim' = [claim EXCEPT ![t] = <<u, ServerOf(id)>>]
  /\ UNCHANGED <<servers, user, needed, round, todo, rowVars, replied>>

\* Fault variant: the row is not compared with the state.
AnyClaim(t) == TRUE

\* The row names the user and the server of the state.
Owns(t) == claim[t] = <<Owner(origin[t]), ServerOf(origin[t])>>

LoadRequest(t) ==
  /\ Go(t, "load", "announce")
  /\ origin[t] \in rows
  /\ Owns(t)
  /\ user' = [user EXCEPT ![t] = Owner(origin[t])]
  /\ UNCHANGED <<accessVars, needed, round, todo, rowVars, replied, resumeVars>>

\* The row is gone, not the claimant's, or the query fails: nothing happens.
ResumeRefused(t) ==
  /\ Go(t, "load", "done")
  /\ origin' = [origin EXCEPT ![t] = None]
  /\ claim' = [claim EXCEPT ![t] = None]
  /\ UNCHANGED <<accessVars, user, needed, round, todo, rowVars, replied, authorized>>

\* "MCP access is connected. Resuming the original request."
Announce(t) ==
  /\ Go(t, "announce", "check")
  /\ UNCHANGED <<accessVars, user, needed, round, todo, rowVars, replied, resumeVars>>

AnnounceFails(t) ==
  /\ Go(t, "announce", "done")
  /\ UNCHANGED <<accessVars, user, needed, round, todo, rowVars, replied, resumeVars>>

\* Fault variant: the request is deleted before the reply is out.
PublishAfterDelete(t) ==
  /\ Go(t, "publish", "done")
  /\ replied' = replied
  /\ rows' = rows \ {origin[t]} /\ stale' = stale \ {origin[t]}
  /\ Return(t)
  /\ UNCHANGED <<accessVars, user, todo, lapsed, links, resumeVars>>

\* publishThreadReply succeeds: a resumed turn goes on to delete its request.
Publish(t) ==
  /\ Go(t, "publish", IF origin[t] = None THEN "done" ELSE "delete")
  /\ replied' = replied \cup {t}
  /\ Return(t)
  /\ UNCHANGED <<accessVars, user, todo, rowVars, resumeVars>>

\* Three attempts failed: the request is kept.
PublishFails(t) ==
  /\ Go(t, "publish", "done")
  /\ Return(t)
  /\ UNCHANGED <<accessVars, user, todo, rowVars, replied, resumeVars>>

DeleteRequest(t) ==
  /\ Go(t, "delete", "done")
  /\ rows' = rows \ {origin[t]}
  /\ stale' = stale \ {origin[t]}
  /\ UNCHANGED <<accessVars, user, needed, round, todo, lapsed, links, replied, resumeVars>>

DeleteFails(t) ==
  /\ Go(t, "delete", "done")
  /\ UNCHANGED <<accessVars, user, needed, round, todo, rowVars, replied, resumeVars>>

ResumeStep(t) ==
  \/ LoadRequest(t) \/ ResumeRefused(t) \/ Announce(t) \/ AnnounceFails(t)
  \/ Publish(t) \/ PublishFails(t) \/ DeleteRequest(t) \/ DeleteFails(t)

-----------------------------------------------------------------------------
(* Administrators, time, the process.                                      *)

\* DeleteMCPServer: the foreign key cascades to the resume requests.
RemoveServer(s) ==
  /\ s \in servers
  /\ servers' = servers \ {s}
  /\ Discard({id \in rows : ServerOf(id) = s})
  /\ UNCHANGED <<connected, turnVars, links, replied, resumeVars>>

RowGrowsStale(id) ==
  /\ id \in rows \ stale
  /\ stale' = stale \cup {id}
  /\ UNCHANGED <<accessVars, turnVars, rows, lapsed, links, replied, resumeVars>>

TokenExpires(u, s) ==
  /\ <<u, s>> \in connected
  /\ connected' = connected \ {<<u, s>>}
  /\ UNCHANGED <<servers, turnVars, rowVars, replied, resumeVars>>

\* The process stops: turns under way are lost, the database is kept.
Crash ==
  /\ stage' = [t \in Turn |-> IF stage[t] = "idle" THEN "idle" ELSE "done"]
  /\ todo' = [t \in Turn |-> {}]
  /\ needed' = [t \in Turn |-> {}]
  /\ round' = [t \in Turn |-> 0]
  /\ UNCHANGED <<accessVars, user, rowVars, replied, resumeVars>>

Next ==
  \/ \E t \in Turn, u \in User : StartTurn(t, u)
  \/ \E t \in Turn : (Answering(t) \/ Prompting(t)) /\ UNCHANGED resumeVars
  \/ \E t \in Turn, id \in RowId, u \in User : OAuthSucceeds(t, id, u)
  \/ \E t \in Turn : ResumeStep(t)
  \/ \E s \in Server : RemoveServer(s)
  \/ \E id \in RowId : RowGrowsStale(id)
  \/ \E u \in User, s \in Server : TokenExpires(u, s)
  \/ Crash

Spec == Init /\ [][Next]_vars

-----------------------------------------------------------------------------
(* Properties.                                                             *)

\* A link in a user's hands leads to the original prompt until that prompt
\* has been answered again: its row is in the database, unless it lapsed with
\* age or with its server, whatever failed or crashed in between.
LinkIsBacked ==
  \A id \in links :
    id \in rows \cup lapsed \/ \E t \in replied : origin[t] = id

Resuming == (TurnStage \cup {"announce", "delete"}) \ {"idle"}

\* A conversation is resumed on behalf of its owner only after that owner
\* authorized the server the request is for.
ResumedForAuthorizedOwner ==
  \A t \in Turn :
    origin[t] # None /\ stage[t] \in Resuming
      => <<Owner(origin[t]), ServerOf(origin[t])>> \in authorized

\* A request that was answered and deleted, or lapsed, never comes back, so its
\* link, followed again, resumes nothing: a turn that prompts again, itself or
\* while another resumes what it asked for, makes requests of its own.
DeletedStaysDeleted == [][\A id \in links \ rows : id \notin rows']_vars

\* Inductive strengthening: a row, or a link, is of a turn that has begun; a
\* resumed turn comes from a link, and from an OAuth state whose exchange
\* completed; a request is deleted by a turn that has replied.
RowInv == \A id \in rows \cup lapsed \cup links : stage[id[1]] \notin {"idle", "load"}

OriginInv ==
  \A t \in Turn :
    /\ stage[t] = "idle" => origin[t] = None
    /\ stage[t] = "load" => origin[t] # None /\ claim[t] \in authorized
    /\ origin[t] # None => origin[t] \in links

ReplyInv ==
  \A t \in Turn :
    /\ stage[t] \in {"idle", "load"} => t \notin replied
    /\ stage[t] = "delete" => t \in replied

IInv == TypeOK /\ RowInv /\ OriginInv /\ ReplyInv /\ LinkIsBacked /\ ResumedForAuthorizedOwner

\* docs/oauth-flow.md:44-45 loads and deletes the request, then reruns the
\* prompt: one request is answered at most once.
RequestAnsweredOnce ==
  \A t1, t2 \in replied : origin[t1] # None /\ origin[t1] = origin[t2] => t1 = t2
==============================================================================
