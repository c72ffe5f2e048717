------------------------- MODULE AccessDecisionProofs -------------------------
(***************************************************************************)
(* Proofs about AccessDecision, for any servers, agents, timeouts and      *)
(* numbers of retries and edits.                                           *)
(***************************************************************************)
EXTENDS AccessDecision, TLAPS

\* A pause is followed by another attempt.
PauseInv == at = "backoff" => attempt < MaxRetries

\* The course of a turn: which round each step belongs to, and that nothing is
\* asked for after the classification unless a name is needed.
RoundInv ==
  /\ at \in {"list", "tokens"} => asked = {} /\ needed = {} /\ round = "before"
  /\ at \in {"resolve", "run"} => round = "before"
  /\ at = "judge" => round = "after"
  /\ at \in {"relist", "retokens", "post"} => round \in {"failed", "after"}
  /\ at \in {"call", "backoff"} => asked # {} /\ round \in {"before", "after"}

NeededInv ==
  /\ needed = {} /\ ~(at \in {"call", "backoff"} /\ round = "before") => asked = {}
  /\ at \in {"relist", "retokens", "post"} /\ round = "after" => needed # {}

\* The histories are about the tables as they are.
TableInv ==
  /\ held \subseteq servers \cap tokens
  /\ \A r \in lost : r \in servers /\ Lacks(r, servers, tokens)

\* What has lacked access since the prompt began is listed, and then found.
LostInv ==
  /\ at = "retokens" => lost \subseteq listed
  /\ at = "post" /\ needed = {} => lost \subseteq found

IInv ==
  /\ TypeOK /\ PauseInv /\ RoundInv /\ NeededInv /\ TableInv /\ LostInv
  /\ ConnectedIsNotMissing /\ OffersWereNeeded

-----------------------------------------------------------------------------
LEMMA KeysGrow == ASSUME NEW S, NEW T, S \subseteq T PROVE Keys(S) \subseteq Keys(T)
BY DEF Keys

LEMMA UnauthenticatedLacks ==
  ASSUME NEW rows, NEW wanted, held \subseteq servers \cap tokens
  PROVE  /\ Unauthenticated(rows, wanted) \subseteq rows
         /\ Keys(Unauthenticated(rows, wanted)) \cap Keys(held) = {}
         /\ wanted # {} => Keys(Unauthenticated(rows, wanted)) \subseteq wanted
         /\ wanted = {} => \A r \in rows : Lacks(r, servers, tokens) => r \in Unauthenticated(rows, wanted)
BY KeysGrow DEF Unauthenticated, Lacks, Keys

\* An edit of the tables only takes rows out of the histories.
LEMMA EditPreserves == ASSUME AccessAssumption, IInv, Edit PROVE IInv'
<1> USE DEF Edit, choiceVars, callVars
<1>1. /\ servers' \subseteq Row /\ tokens' \subseteq Row
      /\ held' \subseteq held /\ lost' \subseteq lost
      /\ edits' \in 0..MaxEdits
  BY DEF IInv, TypeOK, AccessAssumption
<1>2. TypeOK'
  BY <1>1 DEF IInv, TypeOK, Keys
<1>3. TableInv'
  BY DEF TableInv, Lacks
<1>4. ConnectedIsNotMissing'
  BY <1>1, KeysGrow DEF IInv, ConnectedIsNotMissing, Keys
<1>5. PauseInv' /\ RoundInv' /\ NeededInv'
  BY DEF IInv, PauseInv, RoundInv, NeededInv
<1>6. LostInv' /\ OffersWereNeeded'
  BY <1>1 DEF IInv, LostInv, OffersWereNeeded, Keys
<1> QED BY <1>2, <1>3, <1>4, <1>5, <1>6 DEF IInv

\* The end of a classification, with names of servers asked about.
LEMMA DecidePreserves ==
  ASSUME AccessAssumption, IInv, at = "call",
         NEW keys \in SUBSET Keys(asked), Decide(keys),
         UNCHANGED <<tableVars, round, listed, tools, lacked, found>>
  PROVE  IInv'
<1> USE DEF tableVars, NoCall
<1>1. keys \subseteq Keys(Row)
  BY DEF IInv, TypeOK, Keys
<1>2. CASE round = "before"
  <2>1. /\ at' = "resolve" /\ needed' = keys /\ asked' = MissingServers(keys)
        /\ held' = {} /\ lost' = {} /\ UNCHANGED round
        /\ attempt' = 0 /\ backoff' = InitialBackoff /\ elapsed' = 0 /\ wait' = 0
    BY <1>2 DEF Decide, Forget
  <2>2. MissingServers(keys) \subseteq asked /\ (keys = {} => MissingServers(keys) = {})
    BY DEF MissingServers
  <2>3. TypeOK'
    BY <1>1, <2>1, <2>2 DEF IInv, TypeOK, AccessAssumption, Keys
  <2>4. RoundInv' /\ NeededInv'
    BY <1>2, <2>1, <2>2 DEF RoundInv, NeededInv
  <2> QED BY <2>1, <2>3, <2>4
          DEF IInv, PauseInv, TableInv, LostInv, ConnectedIsNotMissing, OffersWereNeeded
<1>3. CASE round # "before"
  <2>1. /\ at' \in {"done", "relist"} /\ UNCHANGED <<needed, asked, round>>
        /\ held' = servers \cap tokens
        /\ lost' = {r \in servers : Lacks(r, servers, tokens)}
        /\ attempt' = 0 /\ backoff' = InitialBackoff /\ elapsed' = 0 /\ wait' = 0
    BY <1>3 DEF Decide, Observe
  <2>2. round = "after" /\ asked # {} /\ needed # {}
    BY <1>3 DEF IInv, RoundInv, NeededInv
  <2>3. TypeOK'
    BY <2>1 DEF IInv, TypeOK, AccessAssumption, Keys
  <2>4. RoundInv' /\ NeededInv'
    BY <2>1, <2>2 DEF RoundInv, NeededInv
  <2>5. TableInv'
    BY <2>1 DEF TableInv
  <2> QED BY <2>1, <2>2, <2>3, <2>4, <2>5
          DEF IInv, PauseInv, LostInv, ConnectedIsNotMissing, OffersWereNeeded
<1> QED BY <1>2, <1>3

\* The check before the run.
LEMMA CheckPreserves == ASSUME AccessAssumption, IInv, Check PROVE IInv'
<1> USE DEF tableVars, choiceVars, callVars, historyVars
<1>1. CASE ListServers
  <2>1. TypeOK'
    BY <1>1 DEF ListServers, Go, IInv, TypeOK, Keys
  <2> QED BY <1>1, <2>1
          DEF ListServers, Go, IInv, PauseInv, RoundInv, NeededInv, TableInv, Lacks, LostInv,
              ConnectedIsNotMissing, OffersWereNeeded, Keys
<1>2. CASE ListTokens
  <2> USE DEF ListTokens, NoCall
  <2>1. /\ asked' = Unauthenticated(listed, {}) /\ asked' \subseteq listed
        /\ Keys(asked') \cap Keys(held) = {}
    BY <1>2, UnauthenticatedLacks DEF IInv, TableInv
  <2>2. TypeOK'
    BY <1>2, <2>1 DEF IInv, TypeOK, Keys, AccessAssumption
  <2>3. RoundInv' /\ NeededInv' /\ ConnectedIsNotMissing'
    BY <1>2, <2>1 DEF IInv, RoundInv, NeededInv, ConnectedIsNotMissing, Keys
  <2> QED BY <1>2, <2>2, <2>3
          DEF IInv, PauseInv, TableInv, Lacks, LostInv, OffersWereNeeded,
              AccessAssumption, Keys
<1>3. CASE CheckFails
  <2>1. TypeOK'
    BY <1>3 DEF CheckFails, Forget, IInv, TypeOK, Keys
  <2> QED BY <1>3, <2>1
          DEF CheckFails, Forget, IInv, PauseInv, RoundInv, NeededInv, TableInv, LostInv,
              ConnectedIsNotMissing, OffersWereNeeded, Keys
<1> QED BY <1>1, <1>2, <1>3 DEF Check

\* The steps of a call that decide nothing yet, and the time they take.
LEMMA CallContinues ==
  ASSUME AccessAssumption, IInv, Tick \/ AttemptFails \/ Retry PROVE IInv'
<1> USE DEF tableVars, choiceVars, callVars, historyVars, Dead
<1>1. /\ at \in {"call", "backoff"} /\ at' \in {"call", "backoff"}
      /\ UNCHANGED <<tableVars, round, choiceVars, historyVars>>
  BY DEF Tick, AttemptFails, Retry, Go
<1>2. CASE Tick
  <2>1. TypeOK'
    BY <1>2 DEF Tick, IInv, TypeOK, Keys
  <2> QED BY <1>1, <1>2, <2>1
          DEF Tick, IInv, PauseInv, RoundInv, NeededInv, TableInv, Lacks, LostInv,
              ConnectedIsNotMissing, OffersWereNeeded, Keys
<1>3. CASE AttemptFails \/ Retry
  <2>1. attempt' \in 0..MaxRetries /\ (at' = "backoff" => attempt' < MaxRetries)
    BY <1>3 DEF AttemptFails, Retry, Go, IInv, TypeOK, PauseInv, AccessAssumption
  <2>2. backoff' \in Nat /\ wait' \in Nat /\ UNCHANGED elapsed
    <3>1. CASE AttemptFails
      BY <3>1 DEF AttemptFails, IInv, TypeOK
    <3>2. CASE Retry
      BY <3>2 DEF Retry, IInv, TypeOK, AccessAssumption
    <3> QED BY <1>3, <3>1, <3>2
  <2>3. TypeOK'
    BY <1>1, <2>1, <2>2 DEF IInv, TypeOK, Keys
  <2> QED BY <1>1, <2>1, <2>2, <2>3
          DEF IInv, PauseInv, RoundInv, NeededInv, TableInv, Lacks, LostInv,
              ConnectedIsNotMissing, OffersWereNeeded, Keys
<1> QED BY <1>2, <1>3

LEMMA CallPreserves == ASSUME AccessAssumption, IInv, Call PROVE IInv'
<1>1. CASE ModelAnswers
  <2>1. PICK named \in SUBSET (Keys(Row) \cup {None}) : Decide(Matched(named))
    BY <1>1 DEF ModelAnswers
  <2>2. Matched(named) \in SUBSET Keys(asked)
    BY DEF Matched
  <2> QED BY <1>1, <2>1, <2>2, DecidePreserves DEF ModelAnswers
<1>2. CASE ModelAnswersNothing \/ CallFails
  <2>1. PICK text : Decide(Keys(asked \cap text))
    BY <1>2 DEF ModelAnswersNothing, CallFails, FallBack
  <2>2. Keys(asked \cap text) \in SUBSET Keys(asked)
    BY KeysGrow
  <2> QED BY <1>2, <2>1, <2>2, DecidePreserves DEF ModelAnswersNothing, CallFails
<1> QED BY <1>1, <1>2, CallContinues DEF Call

LEMMA RunPreserves == ASSUME AccessAssumption, IInv, Run PROVE IInv'
<1> USE DEF tableVars, choiceVars, callVars, historyVars
<1>1. CASE SelectServers
  <2>1. tools' \subseteq Row /\ UNCHANGED <<listed, asked, needed, lacked, found>>
    BY <1>1 DEF SelectServers, Selected, IInv, TypeOK
  <2>2. TypeOK'
    BY <1>1, <2>1 DEF SelectServers, Go, IInv, TypeOK, Keys
  <2> QED BY <1>1, <2>1, <2>2
          DEF SelectServers, Go, IInv, PauseInv, RoundInv, NeededInv, TableInv, Lacks, LostInv,
              ConnectedIsNotMissing, OffersWereNeeded, Keys
<1>2. CASE RunEnds
  <2>1. TypeOK'
    BY <1>2 DEF RunEnds, IInv, TypeOK, Keys
  <2> QED BY <1>2, <2>1
          DEF RunEnds, IInv, PauseInv, RoundInv, NeededInv, TableInv, Lacks, LostInv,
              ConnectedIsNotMissing, OffersWereNeeded, Keys
<1>3. ASSUME NEW r \in Row, RunLacksAccess(r) PROVE IInv'
  <2> USE DEF RunLacksAccess, Go, Observe
  <2>1. TypeOK'
    BY <1>3 DEF IInv, TypeOK, Keys
  <2>2. TableInv'
    BY <1>3 DEF TableInv, Lacks
  <2> QED BY <1>3, <2>1, <2>2
          DEF IInv, PauseInv, RoundInv, NeededInv, LostInv,
              ConnectedIsNotMissing, OffersWereNeeded, Keys
<1> QED BY <1>1, <1>2, <1>3 DEF Run

LEMMA PromptPreserves == ASSUME AccessAssumption, IInv, Prompt PROVE IInv'
<1> USE DEF tableVars, choiceVars, callVars, historyVars
<1>1. CASE NothingMissing \/ ClassifyReply
  <2> USE DEF NothingMissing, ClassifyReply, Go, NoCall
  <2>1. TypeOK'
    BY <1>1 DEF IInv, TypeOK, Keys, AccessAssumption
  <2> QED BY <1>1, <2>1
          DEF IInv, PauseInv, RoundInv, NeededInv, TableInv, Lacks, LostInv,
              ConnectedIsNotMissing, OffersWereNeeded, Keys
<1>2. CASE ReplyCannot
  <2> USE DEF ReplyCannot, Go, Observe
  <2>1. TypeOK'
    BY <1>2 DEF IInv, TypeOK, Keys
  <2>2. TableInv'
    BY <1>2 DEF TableInv, Lacks
  <2> QED BY <1>2, <2>1, <2>2
          DEF IInv, PauseInv, RoundInv, NeededInv, LostInv,
              ConnectedIsNotMissing, OffersWereNeeded, Keys
<1>3. CASE RelistServers
  <2> USE DEF RelistServers, Go, ListAgain
  <2>1. TypeOK'
    BY <1>3 DEF IInv, TypeOK, Keys
  <2>2. lost' \subseteq listed'
    BY <1>3 DEF IInv, TableInv
  <2> QED BY <1>3, <2>1, <2>2
          DEF IInv, PauseInv, RoundInv, NeededInv, TableInv, Lacks, LostInv,
              ConnectedIsNotMissing, OffersWereNeeded, Keys
<1>4. CASE FindMissing
  <2> USE DEF FindMissing, Go
  <2>1. /\ found' \subseteq listed /\ Keys(found') \cap Keys(held) = {}
        /\ needed # {} => Keys(found') \subseteq needed
        /\ needed = {} => lost \subseteq found'
    BY <1>4, UnauthenticatedLacks DEF IInv, TableInv, LostInv
  <2>2. TypeOK'
    BY <1>4, <2>1 DEF IInv, TypeOK, Keys
  <2>3. ConnectedIsNotMissing' /\ OffersWereNeeded' /\ LostInv'
    BY <1>4, <2>1 DEF IInv, RoundInv, NeededInv, ConnectedIsNotMissing, OffersWereNeeded, LostInv, Keys
  <2> QED BY <1>4, <2>2, <2>3
          DEF IInv, PauseInv, RoundInv, NeededInv, TableInv, Lacks, Keys
<1>5. CASE NothingToOffer \/ OfferAccess
  <2> USE DEF NothingToOffer, OfferAccess, EndPrompt, AfterPrompt, Forget
  <2>1. TypeOK'
    BY <1>5 DEF IInv, TypeOK, Keys
  <2> QED BY <1>5, <2>1
          DEF IInv, PauseInv, RoundInv, NeededInv, TableInv, LostInv,
              ConnectedIsNotMissing, OffersWereNeeded, Keys
<1> QED BY <1>1, <1>2, <1>3, <1>4, <1>5 DEF Prompt

-----------------------------------------------------------------------------
\* The inductive invariant of a turn's decision about access.
THEOREM AccessInvariant == Spec => []IInv
<1>1. Init => IInv
  BY AccessAssumption
     DEF Init, IInv, TypeOK, PauseInv, RoundInv, NeededInv, TableInv, LostInv,
         ConnectedIsNotMissing, OffersWereNeeded, Keys
<1>2. IInv /\ [Next]_vars => IInv'
  <2> SUFFICES ASSUME IInv, [Next]_vars PROVE IInv'
    OBVIOUS
  <2>1. CASE UNCHANGED vars
    BY <2>1 DEF vars, tableVars, choiceVars, callVars, historyVars, IInv, TypeOK, PauseInv,
                RoundInv, NeededInv, TableInv, Lacks, LostInv, ConnectedIsNotMissing,
                OffersWereNeeded, Keys
  <2> QED BY <2>1, AccessAssumption, EditPreserves, CallContinues, CheckPreserves, CallPreserves,
             RunPreserves, PromptPreserves DEF Next
<1> QED BY <1>1, <1>2, PTL DEF Spec

\* Type correctness; among it, that a call makes at most maxLLMRetries + 1
\* attempts and that what is needed are names of configured servers.
THEOREM AccessTypeCorrect == Spec => []TypeOK
<1>1. IInv => TypeOK BY DEF IInv
<1> QED BY <1>1, AccessInvariant, PTL

\* A server the user is connected to while the tables are read is never taken
\* for missing: both checks read the tokens after the servers.
THEOREM ConnectedIsNotMissingCorrect == Spec => []ConnectedIsNotMissing
<1>1. IInv => ConnectedIsNotMissing BY DEF IInv
<1> QED BY <1>1, AccessInvariant, PTL

\* What is offered after a run was named by the classification of the prompt.
THEOREM OffersWereNeededCorrect == Spec => []OffersWereNeeded
<1>1. IInv => OffersWereNeeded BY DEF IInv
<1> QED BY <1>1, AccessInvariant, PTL

\* The server a run lacked access to is offered when nothing else was named,
\* because the prompt reads the servers and tokens again.
THEOREM LackedAccessIsOfferedCorrect == Spec => []LackedAccessIsOffered
<1>1. IInv => LackedAccessIsOffered BY DEF IInv, LostInv, LackedAccessIsOffered
<1> QED BY <1>1, AccessInvariant, PTL

-----------------------------------------------------------------------------
(* A turn has only so many steps: the bound under TurnEnds.                *)

\* How far the turn is from its end, a prompt after a failed run included.
Left ==
  CASE at = "list" -> 13
    [] at = "tokens" -> 12
    [] at \in {"call", "backoff"} -> IF round = "before" THEN 11 ELSE 4
    [] at = "resolve" -> 10
    [] at = "run" -> 9
    [] at = "relist" -> IF round = "failed" THEN 8 ELSE 3
    [] at = "retokens" -> IF round = "failed" THEN 7 ELSE 2
    [] at = "post" -> IF round = "failed" THEN 6 ELSE 1
    [] at = "judge" -> 5
    [] at = "done" -> 0

\* What is left of a call: attempts, with a pause before each, and time.
TriesLeft == 2 * (MaxRetries - attempt) + (IF at = "backoff" THEN 0 ELSE 1)
TimeLeft == Deadline - elapsed

\* The steps of the turn come closer to its end, or use up a call, whatever is
\* edited meanwhile; time passes only while a call has some of it left.
ComesToEnd ==
  /\ Check \/ Call \/ Run \/ Prompt =>
       Left' < Left \/ (Left' = Left /\ TriesLeft' < TriesLeft)
  /\ Tick => Left' = Left /\ TriesLeft' = TriesLeft /\ TimeLeft' < TimeLeft
  /\ Edit => Left' = Left /\ TriesLeft' = TriesLeft /\ TimeLeft' = TimeLeft

LEMMA LeftType ==
  ASSUME TypeOK PROVE Left \in 0..13
BY DEF Left, TypeOK

LEMMA TurnComesCloser ==
  ASSUME AccessAssumption, IInv, Check \/ Call \/ Run \/ Prompt
  PROVE  Left' < Left \/ (Left' = Left /\ TriesLeft' < TriesLeft)
<1> USE DEF Left, Go, IInv, RoundInv
<1>1. CASE Check
  BY <1>1 DEF Check, ListServers, ListTokens, CheckFails
<1>2. ASSUME NEW keys, at = "call", Decide(keys), UNCHANGED round PROVE Left' < Left
  <2>1. CASE round = "before"
    BY <1>2, <2>1 DEF Decide
  <2>2. CASE round = "after"
    BY <1>2, <2>2 DEF Decide
  <2> QED BY <1>2, <2>1, <2>2
<1>3. CASE ModelAnswers \/ ModelAnswersNothing \/ CallFails
  <2>1. at = "call" /\ UNCHANGED round /\ \E keys : Decide(keys)
    BY <1>3 DEF ModelAnswers, ModelAnswersNothing, CallFails, FallBack
  <2>2. PICK keys : Decide(keys)
    BY <2>1
  <2> QED BY <1>2, <2>1, <2>2
<1>4. CASE AttemptFails \/ Retry
  <2>1. Left' = Left
    BY <1>4 DEF AttemptFails, Retry
  <2>2. TriesLeft' < TriesLeft
    BY <1>4, AccessAssumption DEF AttemptFails, Retry, TriesLeft, TypeOK, AccessAssumption
  <2> QED BY <2>1, <2>2
<1>5. CASE Run
  BY <1>5 DEF Run, SelectServers, RunEnds, RunLacksAccess
<1>6. CASE NothingMissing \/ ReplyCannot \/ ClassifyReply
  BY <1>6 DEF NothingMissing, ReplyCannot, ClassifyReply
<1>7. CASE RelistServers \/ FindMissing
  BY <1>7 DEF RelistServers, FindMissing
<1>8. CASE NothingToOffer \/ OfferAccess
  BY <1>8 DEF NothingToOffer, OfferAccess, EndPrompt, AfterPrompt
<1> QED BY <1>1, <1>3, <1>4, <1>5, <1>6, <1>7, <1>8 DEF Call, Prompt

\* A call is over when its deadline is: the pauses and attempts of a call share
\* one context (openai.go:68-83).
DeadlineInv == elapsed <= Deadline

\* Whatever the model answers and the tables hold, a turn has at most thirteen
\* steps besides the retries of its calls, two for each of maxLLMRetries, and
\* waits no longer for a call than its deadline.  That it takes these steps is left to fairness.
THEOREM TurnIsBounded ==
  Spec => [](Left \in 0..13 /\ TriesLeft \in Nat /\ TimeLeft \in Nat) /\ [][ComesToEnd]_vars
<1>1. Init => DeadlineInv
  BY AccessAssumption DEF Init, DeadlineInv, AccessAssumption
<1>2. IInv /\ DeadlineInv /\ [Next]_vars => DeadlineInv'
  <2> SUFFICES ASSUME IInv, DeadlineInv, [Next]_vars PROVE DeadlineInv'
    OBVIOUS
  <2> USE DEF DeadlineInv
  <2>1. CASE Tick
    BY <2>1, AccessAssumption DEF Tick, Awake, Dead, IInv, TypeOK, AccessAssumption
  <2>2. CASE elapsed' = 0
    BY <2>2, AccessAssumption DEF AccessAssumption
  <2>3. CASE elapsed' = elapsed
    BY <2>3
  <2> QED BY <2>1, <2>2, <2>3
          DEF Next, Edit, Check, ListServers, ListTokens, CheckFails, Call, ModelAnswers,
              ModelAnswersNothing, CallFails, FallBack, Decide, AttemptFails, Retry, Run,
              SelectServers, RunEnds, RunLacksAccess, Prompt, NothingMissing, ReplyCannot,
              ClassifyReply, RelistServers, FindMissing, NothingToOffer, OfferAccess, NoCall,
              vars, callVars
<1>3. IInv /\ DeadlineInv => Left \in 0..13 /\ TriesLeft \in Nat /\ TimeLeft \in Nat
  <2> SUFFICES ASSUME IInv, DeadlineInv PROVE TriesLeft \in Nat /\ TimeLeft \in Nat
    BY LeftType DEF IInv
  <2> QED BY AccessAssumption
          DEF IInv, TypeOK, PauseInv, DeadlineInv, TriesLeft, TimeLeft, AccessAssumption
<1>4. IInv /\ DeadlineInv /\ [Next]_vars => [ComesToEnd]_vars
  <2> SUFFICES ASSUME IInv, DeadlineInv, Next PROVE ComesToEnd
    OBVIOUS
  <2>1. Check \/ Call \/ Run \/ Prompt =>
          Left' < Left \/ (Left' = Left /\ TriesLeft' < TriesLeft)
    BY AccessAssumption, TurnComesCloser
  <2>2. Tick => Left' = Left /\ TriesLeft' = TriesLeft /\ TimeLeft' < TimeLeft
    BY AccessAssumption DEF Tick, Left, TriesLeft, TimeLeft, choiceVars, IInv, TypeOK,
                            AccessAssumption
  <2>3. Edit => Left' = Left /\ TriesLeft' = TriesLeft /\ TimeLeft' = TimeLeft
    BY DEF Edit, Left, TriesLeft, TimeLeft, callVars
  <2> QED BY <2>1, <2>2, <2>3 DEF ComesToEnd
<1> QED BY <1>1, <1>2, <1>3, <1>4, AccessInvariant, PTL DEF Spec
==============================================================================
