--------------------------- MODULE ResumeFlowProofs --------------------------
(* Proofs of the safety properties of ResumeFlow.                          *)
EXTENDS ResumeFlow, TLAPS

LEMMA TypeStep == TypeOK /\ [Next]_vars => TypeOK'
<1> SUFFICES ASSUME TypeOK, [Next]_vars PROVE TypeOK'
  OBVIOUS
<1> USE DEF TypeOK, TurnTypeOK, TurnStage, RowId, Go, accessVars, rowVars, turnVars, resumeVars
<1>1. ASSUME NEW t \in Turn, NEW u \in User, StartTurn(t, u) PROVE TypeOK'
  BY <1>1 DEF StartTurn, BeginTurn
<1>2. ASSUME NEW t \in Turn, Answering(t), UNCHANGED resumeVars PROVE TypeOK'
  <2>1. CASE CheckAccess(t)
    BY <2>1, <1>2 DEF CheckAccess, Unauthenticated
  <2>2. CASE AgentAnswers(t)
    BY <2>2, <1>2 DEF AgentAnswers
  <2>3. CASE AgentLacksAccess(t)
    BY <2>3, <1>2 DEF AgentLacksAccess
  <2>4. CASE AnswerLacksAccess(t)
    BY <2>4, <1>2 DEF AnswerLacksAccess
  <2>5. CASE AnswerStands(t)
    BY <2>5, <1>2 DEF AnswerStands
  <2> QED BY <1>2, <2>1, <2>2, <2>3, <2>4, <2>5 DEF Answering
<1>3. ASSUME NEW t \in Turn, Prompting(t), UNCHANGED resumeVars PROVE TypeOK'
  <2> USE DEF NextStage
  <2>1. CASE PromptNotNeeded(t)
    BY <2>1, <1>3 DEF PromptNotNeeded
  <2>2. CASE PromptStarts(t)
    BY <2>2, <1>3 DEF PromptStarts, Unauthenticated, Discard
  <2>3. ASSUME NEW s \in Server, PersistRow(t, s) PROVE TypeOK'
    <3>1. <<t, round[t], s>> \in RowId
      BY <2>3 DEF PersistRow
    <3> QED BY <2>3, <1>3, <3>1 DEF PersistRow
  <2>4. CASE PersistFails(t)
    BY <2>4, <1>3 DEF PersistFails
  <2>5. CASE PostLinks(t)
    BY <2>5, <1>3 DEF PostLinks, RowsOfPrompt
  <2>6. CASE PostFails(t)
    BY <2>6, <1>3 DEF PostFails
  <2> QED BY <1>3, <2>1, <2>2, <2>3, <2>4, <2>5, <2>6 DEF Prompting
<1>4. ASSUME NEW t \in Turn, NEW id \in RowId, NEW u \in User, OAuthSucceeds(t, id, u)
      PROVE TypeOK'
  BY <1>4 DEF OAuthSucceeds, ServerOf
<1>5. ASSUME NEW t \in Turn, ResumeStep(t) PROVE TypeOK'
  <2> USE DEF Return
  <2>1. CASE LoadRequest(t)
    BY <2>1 DEF LoadRequest, Owner
  <2>2. CASE ResumeRefused(t)
    BY <2>2 DEF ResumeRefused
  <2>3. CASE Announce(t) \/ AnnounceFails(t)
    BY <2>3 DEF Announce, AnnounceFails
  <2>4. CASE Publish(t)
    BY <2>4 DEF Publish
  <2>5. CASE PublishFails(t)
    BY <2>5 DEF PublishFails
  <2>6. CASE DeleteRequest(t)
    BY <2>6 DEF DeleteRequest
  <2>7. CASE DeleteFails(t)
    BY <2>7 DEF DeleteFails
  <2> QED BY <1>5, <2>1, <2>2, <2>3, <2>4, <2>5, <2>6, <2>7 DEF ResumeStep
<1>6. ASSUME NEW s \in Server, RemoveServer(s) PROVE TypeOK'
  BY <1>6 DEF RemoveServer, Discard
<1>7. ASSUME NEW id \in RowId, RowGrowsStale(id) PROVE TypeOK'
  BY <1>7 DEF RowGrowsStale
<1>8. ASSUME NEW u \in User, NEW s \in Server, TokenExpires(u, s) PROVE TypeOK'
  BY <1>8 DEF TokenExpires
<1>9. CASE Crash
  BY <1>9 DEF Crash
<1>10. CASE UNCHANGED vars
  BY <1>10 DEF vars, agentVars
<1> QED
  BY <1>1, <1>2, <1>3, <1>4, <1>5, <1>6, <1>7, <1>8, <1>9, <1>10 DEF Next

-----------------------------------------------------------------------------
(* A step inside a turn that has begun: it may add rows and links of its   *)
(* own, but neither replies nor touches the requests of other turns.       *)

Begun == (TurnStage \ {"idle"}) \cup {"announce"}

Inner(t) ==
  /\ stage[t] \in Begun /\ stage'[t] \in Begun \cup {"done"}
  /\ \A o \in Turn \ {t} : stage'[o] = stage[o]
  /\ rows \cup lapsed \subseteq rows' \cup lapsed'
  /\ \A id \in rows' \cup lapsed' : id \in rows \cup lapsed \/ id[1] = t
  /\ links \subseteq links' /\ links' \subseteq links \cup rows' \cup lapsed'
  /\ UNCHANGED <<user, replied, resumeVars>>

LEMMA InnerSteps ==
  ASSUME TypeOK, NEW t \in Turn,
         \/ (Answering(t) \/ Prompting(t)) /\ UNCHANGED resumeVars
         \/ Announce(t) \/ AnnounceFails(t) \/ PublishFails(t)
  PROVE  Inner(t)
<1> USE DEF TypeOK, TurnTypeOK, TurnStage, Begun, Inner, Go, accessVars, rowVars, turnVars, resumeVars
<1>1. CASE Answering(t) /\ UNCHANGED resumeVars
  BY <1>1 DEF Answering, CheckAccess, AgentAnswers, AgentLacksAccess, AnswerLacksAccess, AnswerStands
<1>2. ASSUME NEW s \in Server, PersistRow(t, s), UNCHANGED resumeVars PROVE Inner(t)
  BY <1>2 DEF PersistRow
<1>3. CASE PromptStarts(t) /\ UNCHANGED resumeVars
  BY <1>3 DEF PromptStarts, Discard
<1>4. CASE PostLinks(t) /\ UNCHANGED resumeVars
  BY <1>4 DEF PostLinks, RowsOfPrompt, NextStage
<1>5. CASE (PromptNotNeeded(t) \/ PersistFails(t) \/ PostFails(t)) /\ UNCHANGED resumeVars
  BY <1>5 DEF PromptNotNeeded, PersistFails, PostFails, NextStage
<1>6. CASE Announce(t) \/ AnnounceFails(t) \/ PublishFails(t)
  BY <1>6 DEF Announce, AnnounceFails, PublishFails, Return
<1> QED
  BY <1>1, <1>2, <1>3, <1>4, <1>5, <1>6 DEF Prompting

LEMMA InnerPreserves ==
  ASSUME IInv, NEW t \in Turn, Inner(t)
  PROVE  RowInv' /\ OriginInv' /\ ReplyInv' /\ LinkIsBacked' /\ ResumedForAuthorizedOwner'
<1> USE DEF IInv, Inner, Begun, TurnStage
<1>1. RowInv'
  BY DEF RowInv, TypeOK, TurnTypeOK, RowId
<1>2. OriginInv'
  BY DEF OriginInv, resumeVars
<1>3. ReplyInv'
  BY DEF ReplyInv
<1>4. LinkIsBacked'
  BY DEF LinkIsBacked, resumeVars
<1>5. ResumedForAuthorizedOwner'
  BY DEF ResumedForAuthorizedOwner, Resuming, Owner, ServerOf, resumeVars
<1> QED BY <1>1, <1>2, <1>3, <1>4, <1>5

-----------------------------------------------------------------------------
(* The steps that begin, resume, answer or end a turn, and those of the    *)
(* environment.                                                            *)

LEMMA OuterPreserves ==
  ASSUME IInv, [Next]_vars,
         \A t \in Turn : ~Inner(t)
  PROVE  RowInv' /\ OriginInv' /\ ReplyInv' /\ LinkIsBacked' /\ ResumedForAuthorizedOwner'
<1> DEFINE Goal == RowInv /\ OriginInv /\ ReplyInv /\ LinkIsBacked /\ ResumedForAuthorizedOwner
<1> SUFFICES Goal'
  OBVIOUS
<1> USE TurnAssumption
    DEF IInv, TypeOK, TurnTypeOK, TurnStage, RowId, RowInv, OriginInv, ReplyInv, LinkIsBacked,
        ResumedForAuthorizedOwner, Resuming, Owner, ServerOf, Go, accessVars, rowVars, turnVars,
        resumeVars
<1>1. ASSUME NEW t \in Turn, NEW u \in User, StartTurn(t, u) PROVE Goal'
  BY <1>1 DEF StartTurn, BeginTurn
<1>2. ASSUME NEW t \in Turn, NEW id \in RowId, NEW u \in User, OAuthSucceeds(t, id, u) PROVE Goal'
  BY <1>2 DEF OAuthSucceeds
<1>3. ASSUME NEW t \in Turn, ResumeStep(t) PROVE Goal'
  <2>1. CASE LoadRequest(t)
    BY <2>1 DEF LoadRequest, Owns
  <2>2. CASE ResumeRefused(t)
    BY <2>2 DEF ResumeRefused
  <2>3. CASE Publish(t)
    BY <2>3 DEF Publish, Return
  <2>4. CASE DeleteRequest(t)
    BY <2>4 DEF DeleteRequest
  <2>5. CASE DeleteFails(t)
    BY <2>5 DEF DeleteFails
  <2> QED BY <1>3, <2>1, <2>2, <2>3, <2>4, <2>5, InnerSteps DEF ResumeStep
<1>4. ASSUME NEW s \in Server, RemoveServer(s) PROVE Goal'
  BY <1>4 DEF RemoveServer, Discard
<1>5. ASSUME NEW id \in RowId, RowGrowsStale(id) PROVE Goal'
  BY <1>5 DEF RowGrowsStale
<1>6. ASSUME NEW u \in User, NEW s \in Server, TokenExpires(u, s) PROVE Goal'
  BY <1>6 DEF TokenExpires
<1>7. CASE Crash
  BY <1>7 DEF Crash
<1>8. CASE UNCHANGED vars
  BY <1>8 DEF vars, agentVars
<1>9. ASSUME NEW t \in Turn, Answering(t) \/ Prompting(t), UNCHANGED resumeVars PROVE Goal'
  BY <1>9, InnerSteps
<1> QED
  BY <1>1, <1>2, <1>3, <1>4, <1>5, <1>6, <1>7, <1>8, <1>9 DEF Next

\* The strengthened invariant holds in every reachable state, for any number
\* of turns, servers, users and buttons.
THEOREM ResumeInvariant == Spec => []IInv
<1>1. Init => IInv
  BY TurnAssumption
  DEF Init, TurnInit, IInv, TypeOK, TurnTypeOK, TurnStage, RowId, RowInv, OriginInv, ReplyInv,
      LinkIsBacked, ResumedForAuthorizedOwner, Resuming
<1>2. IInv /\ [Next]_vars => IInv'
  <2> SUFFICES ASSUME IInv, [Next]_vars PROVE IInv'
    OBVIOUS
  <2>1. TypeOK'
    BY TypeStep DEF IInv
  <2>2. CASE \A t \in Turn : ~Inner(t)
    BY <2>1, <2>2, OuterPreserves DEF IInv
  <2>3. ASSUME NEW t \in Turn, Inner(t) PROVE IInv'
    BY <2>1, <2>3, InnerPreserves DEF IInv
  <2> QED BY <2>2, <2>3
<1> QED
  BY <1>1, <1>2, PTL DEF Spec

\* Types, and the rows and prompts a turn under way has.
THEOREM ResumeTypeCorrect == Spec => []TypeOK
<1>1. IInv => TypeOK
  BY DEF IInv
<1> QED
  BY <1>1, ResumeInvariant, PTL

\* The link a user was given leads to the original prompt until the prompt has
\* been answered again, whatever fails or crashes on the way.
THEOREM LinkIsBackedCorrect == Spec => []LinkIsBacked
<1>1. IInv => LinkIsBacked
  BY DEF IInv
<1> QED
  BY <1>1, ResumeInvariant, PTL

\* A resumed turn runs for the owner of the request, who has authorized its
\* server.
THEOREM ResumedForOwnerCorrect == Spec => []ResumedForAuthorizedOwner
<1>1. IInv => ResumedForAuthorizedOwner
  BY DEF IInv
<1> QED
  BY <1>1, ResumeInvariant, PTL

-----------------------------------------------------------------------------
(* How a request can be answered twice, and how it cannot.                 *)

\* A prompt that is still being persisted has no links, and the next prompt of
\* a turn makes requests of its own.
LinkInv ==
  \A id \in links :
    /\ stage[id[1]] \notin {"check", "agent", "announce"}
    /\ stage[id[1]] \in {"prompt", "persist", "post"} => id[2] < round[id[1]]
    /\ stage[id[1]] = "after" => id[2] = 1

LEMMA LinkPreserved ==
  ASSUME IInv, LinkInv, [Next]_vars PROVE LinkInv'
<1> USE DEF IInv, TypeOK, TurnTypeOK, TurnStage, RowId, LinkInv, Go, accessVars, rowVars,
            turnVars, resumeVars
<1>1. ASSUME NEW t \in Turn, NEW u \in User, StartTurn(t, u) PROVE LinkInv'
  BY <1>1 DEF StartTurn, BeginTurn, RowInv
<1>2. ASSUME NEW t \in Turn, Answering(t) PROVE LinkInv'
  BY <1>2 DEF Answering, CheckAccess, AgentAnswers, AgentLacksAccess, AnswerLacksAccess,
              AnswerStands
<1>3. ASSUME NEW t \in Turn, Prompting(t) PROVE LinkInv'
  <2> USE DEF NextStage
  <2>1. CASE PromptNotNeeded(t) \/ PersistFails(t) \/ PostFails(t)
    BY <2>1 DEF PromptNotNeeded, PersistFails, PostFails
  <2>2. CASE PromptStarts(t)
    BY <2>2 DEF PromptStarts
  <2>3. ASSUME NEW s \in Server, PersistRow(t, s) PROVE LinkInv'
    BY <2>3 DEF PersistRow
  <2>4. CASE PostLinks(t)
    BY <2>4 DEF PostLinks, RowsOfPrompt
  <2> QED BY <1>3, <2>1, <2>2, <2>3, <2>4 DEF Prompting
<1>4. ASSUME NEW t \in Turn, NEW id \in RowId, NEW u \in User, OAuthSucceeds(t, id, u)
      PROVE LinkInv'
  BY <1>4 DEF OAuthSucceeds
<1>5. ASSUME NEW t \in Turn, ResumeStep(t) PROVE LinkInv'
  <2>1. CASE LoadRequest(t) \/ ResumeRefused(t)
    BY <2>1 DEF LoadRequest, ResumeRefused, RowInv
  <2>2. CASE Announce(t) \/ AnnounceFails(t)
    BY <2>2 DEF Announce, AnnounceFails
  <2>3. CASE Publish(t) \/ PublishFails(t)
    BY <2>3 DEF Publish, PublishFails, Return
  <2>4. CASE DeleteRequest(t) \/ DeleteFails(t)
    BY <2>4 DEF DeleteRequest, DeleteFails
  <2> QED BY <1>5, <2>1, <2>2, <2>3, <2>4 DEF ResumeStep
<1>6. CASE Crash
  BY <1>6 DEF Crash
<1>7. CASE UNCHANGED <<stage, round, links>>
  BY <1>7
<1> QED BY <1>1, <1>2, <1>3, <1>4, <1>5, <1>6, <1>7
        DEF Next, RemoveServer, RowGrowsStale, TokenExpires, vars, agentVars

LEMMA LinkedRowsStayDeleted ==
  ASSUME IInv, LinkInv, [Next]_vars, NEW id \in links, id \notin rows PROVE id \notin rows'
<1> USE DEF IInv, TypeOK, TurnTypeOK, RowId, Go, rowVars
<1>1. ASSUME NEW t \in Turn, Prompting(t) PROVE id \notin rows'
  <2>1. ASSUME NEW s \in Server, PersistRow(t, s) PROVE id \notin rows'
    BY <2>1 DEF PersistRow, LinkInv
  <2> QED BY <1>1, <2>1 DEF Prompting, PromptNotNeeded, PromptStarts, Discard, PersistFails,
                            PostLinks, PostFails
<1>2. CASE rows' \subseteq rows
  BY <1>2
<1> QED BY <1>1, <1>2
        DEF Next, StartTurn, BeginTurn, Answering, CheckAccess, AgentAnswers, AgentLacksAccess,
            AnswerLacksAccess, AnswerStands, OAuthSucceeds, ResumeStep, LoadRequest,
            ResumeRefused, Announce, AnnounceFails, Publish, PublishFails, DeleteRequest,
            DeleteFails, RemoveServer, Discard, RowGrowsStale, TokenExpires, Crash, vars,
            agentVars

\* A request that is gone is not made again: a prompt that still persists has
\* posted no link, and no two prompts share a request.
THEOREM DeletedRequestsStayDeleted == Spec => DeletedStaysDeleted
<1>1. Init => LinkInv
  BY DEF Init, TurnInit, LinkInv
<1>2. IInv /\ LinkInv /\ [Next]_vars => LinkInv'
  BY LinkPreserved
<1>3. IInv /\ LinkInv /\ [Next]_vars => [\A id \in links \ rows : id \notin rows']_vars
  BY LinkedRowsStayDeleted
<1> QED BY <1>1, <1>2, <1>3, ResumeInvariant, PTL DEF Spec, DeletedStaysDeleted

\* No two turns rerun one request at a time; a rerun that has replied deletes
\* its request before it ends.
Alone ==
  \A t1, t2 \in Turn :
    /\ origin[t1] # None /\ origin[t1] = origin[t2]
    /\ stage[t1] \in Resuming /\ stage[t2] \in Resuming
    => t1 = t2
Deletes ==
  \A t \in Turn : stage[t] = "delete" /\ stage'[t] = "done" => origin[t] \notin rows'

\* Whoever has answered a request is the last to have loaded it.
AnsweredInv ==
  \A t \in replied :
    origin[t] # None =>
      /\ origin[t] \notin rows \/ stage[t] = "delete"
      /\ \A o \in Turn \ {t} :
           origin[o] = origin[t] => o \notin replied /\ stage[o] \notin Resuming

LEMMA AnsweredPreserved ==
  ASSUME IInv, LinkInv, Alone, Alone', Deletes \/ UNCHANGED vars, AnsweredInv, [Next]_vars
  PROVE  AnsweredInv'
<1> USE DEF IInv, TypeOK, TurnTypeOK, TurnStage, Resuming, Go, accessVars, rowVars, turnVars,
            resumeVars
<1>1. ASSUME NEW t \in replied, origin[t] # None, origin[t] \notin rows PROVE origin[t] \notin rows'
  BY <1>1, LinkedRowsStayDeleted DEF OriginInv
<1>2. ASSUME UNCHANGED <<replied, origin>>,
             \A t \in Turn : \/ stage'[t] \in {stage[t], "done"}
                             \/ stage[t] \in Resuming /\ stage'[t] \in Resuming,
             \A t \in Turn : stage[t] = "delete" => stage'[t] \in {"delete", "done"}
      PROVE  AnsweredInv'
  <2> SUFFICES ASSUME NEW t \in replied, origin[t] # None
               PROVE  /\ origin[t] \notin rows' \/ stage'[t] = "delete"
                      /\ \A o \in Turn \ {t} :
                           origin[o] = origin[t] => o \notin replied /\ stage'[o] \notin Resuming
    BY <1>2 DEF AnsweredInv
  <2>1. origin[t] \notin rows' \/ stage'[t] = "delete"
    <3>1. CASE origin[t] \notin rows
      BY <1>1, <3>1
    <3>2. CASE stage[t] = "delete"
      BY <1>2, <3>2 DEF Deletes, vars, agentVars
    <3> QED BY <3>1, <3>2 DEF AnsweredInv
  <2>2. ASSUME NEW o \in Turn \ {t}, origin[o] = origin[t]
        PROVE  o \notin replied /\ stage'[o] \notin Resuming
    BY <1>2, <2>2 DEF AnsweredInv
  <2> QED BY <2>1, <2>2
<1>3. ASSUME NEW t \in Turn, NEW u \in User, StartTurn(t, u) PROVE AnsweredInv'
  <2>1. /\ origin[t] = None /\ t \notin replied /\ UNCHANGED <<rows, replied, origin>>
        /\ \A o \in Turn \ {t} : stage'[o] = stage[o]
    BY <1>3 DEF StartTurn, BeginTurn, OriginInv, ReplyInv
  <2> QED BY <2>1 DEF AnsweredInv
<1>4. ASSUME NEW t \in Turn, NEW id \in RowId, NEW u \in User, OAuthSucceeds(t, id, u)
      PROVE  AnsweredInv'
  <2>1. /\ t \notin replied /\ stage'[t] = "load" /\ UNCHANGED <<rows, replied>>
        /\ \A o \in Turn \ {t} : stage'[o] = stage[o] /\ origin'[o] = origin[o]
    BY <1>4 DEF OAuthSucceeds, ReplyInv
  <2> QED BY <2>1 DEF AnsweredInv
<1>5. ASSUME NEW t \in Turn, LoadRequest(t) PROVE AnsweredInv'
  <2>1. /\ t \notin replied /\ origin[t] \in rows /\ stage'[t] = "announce"
        /\ UNCHANGED <<rows, replied, origin>>
        /\ \A o \in Turn \ {t} : stage'[o] = stage[o]
    BY <1>5 DEF LoadRequest, ReplyInv
  <2>2. ASSUME NEW o \in replied, origin[o] # None, origin[o] = origin[t] PROVE FALSE
    <3>1. o # t /\ stage'[o] = "delete"
      BY <2>1, <2>2 DEF AnsweredInv
    <3> QED BY <2>1, <2>2, <3>1 DEF Alone
  <2> QED BY <2>1, <2>2 DEF AnsweredInv
<1>6. ASSUME NEW t \in Turn, ResumeRefused(t) PROVE AnsweredInv'
  <2>1. /\ t \notin replied /\ origin'[t] = None /\ UNCHANGED <<rows, replied>>
        /\ \A o \in Turn \ {t} : stage'[o] = stage[o] /\ origin'[o] = origin[o]
    BY <1>6 DEF ResumeRefused, ReplyInv
  <2> QED BY <2>1 DEF AnsweredInv
<1>7. ASSUME NEW t \in Turn, Publish(t) PROVE AnsweredInv'
  <2>1. /\ stage[t] = "publish" /\ replied' = replied \cup {t} /\ UNCHANGED <<rows, origin>>
        /\ origin[t] # None => stage'[t] = "delete"
        /\ stage'[t] \in {"delete", "done"}
        /\ \A o \in Turn \ {t} : stage'[o] = stage[o]
    BY <1>7 DEF Publish
  <2>2. ASSUME origin[t] # None, NEW o \in Turn \ {t}, origin[o] = origin[t]
        PROVE  o \notin replied /\ stage'[o] \notin Resuming
    BY <2>1, <2>2 DEF AnsweredInv, Alone
  <2>3. ASSUME NEW r \in replied, r # t, origin[r] # None
        PROVE  /\ origin[r] \notin rows \/ stage'[r] = "delete"
               /\ origin[t] # origin[r]
               /\ \A o \in Turn \ {r} :
                    origin[o] = origin[r] => o \notin replied' /\ stage'[o] \notin Resuming
    BY <2>1, <2>3 DEF AnsweredInv
  <2> QED BY <2>1, <2>2, <2>3 DEF AnsweredInv
<1>8. CASE \E t \in Turn : (Answering(t) \/ Prompting(t)) /\ UNCHANGED resumeVars
  <2> PICK t \in Turn : (Answering(t) \/ Prompting(t)) /\ UNCHANGED resumeVars
    BY <1>8
  <2>1. Inner(t)
    BY InnerSteps
  <2> QED BY <1>2, <2>1 DEF Inner, Begun
<1>9. ASSUME NEW t \in Turn, Announce(t) \/ AnnounceFails(t) \/ PublishFails(t) PROVE AnsweredInv'
  <2>1. Inner(t)
    BY <1>9, InnerSteps
  <2> QED BY <1>2, <2>1 DEF Inner, Begun
<1>10. ASSUME NEW t \in Turn, DeleteRequest(t) \/ DeleteFails(t) PROVE AnsweredInv'
  BY <1>2, <1>10 DEF DeleteRequest, DeleteFails
<1>11. CASE Crash
  <2>1. /\ UNCHANGED <<replied, origin>>
        /\ \A t \in Turn : stage'[t] \in {stage[t], "done"}
    BY <1>11 DEF Crash
  <2> QED BY <1>2, <2>1
<1>12. CASE UNCHANGED <<stage, replied, origin>>
  BY <1>2, <1>12
<1> QED BY <1>3, <1>4, <1>5, <1>6, <1>7, <1>8, <1>9, <1>10, <1>11, <1>12
        DEF Next, ResumeStep, RemoveServer, RowGrowsStale, TokenExpires, vars, agentVars

\* A request is answered once (docs/oauth-flow.md:44-45), if its link is not
\* followed again between the loading of its row and the end of the rerun, and
\* if a rerun that has replied deletes it (handlers.go:173-218): an overlap and a
\* deletion that fails, or is cut off by a crash, are the only ways to answer it
\* twice.
THEOREM AnsweredOnceUnlessOverlapping ==
  Spec /\ []Alone /\ [][Deletes]_vars => []RequestAnsweredOnce
<1>1. Init => LinkInv /\ AnsweredInv
  BY DEF Init, TurnInit, LinkInv, AnsweredInv
<1>2. IInv /\ LinkInv /\ [Next]_vars => LinkInv'
  BY LinkPreserved
<1>3. IInv /\ LinkInv /\ Alone /\ Alone' /\ [Deletes]_vars /\ AnsweredInv /\ [Next]_vars
        => AnsweredInv'
  BY AnsweredPreserved
<1>4. IInv /\ AnsweredInv => RequestAnsweredOnce
  BY DEF AnsweredInv, RequestAnsweredOnce, IInv, TypeOK, TurnTypeOK
<1> QED BY <1>1, <1>2, <1>3, <1>4, ResumeInvariant, PTL DEF Spec
==============================================================================
