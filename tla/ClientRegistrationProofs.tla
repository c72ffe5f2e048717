----------------------- MODULE ClientRegistrationProofs -----------------------
(***************************************************************************)
(* Proofs about ClientRegistration, for any number of servers, starts,     *)
(* modals and typed clients.                                               *)
(***************************************************************************)
EXTENDS ClientRegistration, TLAPS

-----------------------------------------------------------------------------
(* Types.                                                                  *)

\* What a step of a modal can make of the table and the modals.
LEMMA ModalTypes ==
  ASSUME NEW v \in View, ModalStep(v),
         mcpServers \in [Server -> Row(Client) \cup {None}],
         view \in [View -> [kind : Kind, shown : SUBSET Server]]
  PROVE  /\ mcpServers' \in [Server -> Row(Client) \cup {None}]
         /\ view' \in [View -> [kind : Kind, shown : SUBSET Server]]
<1> USE DEF Kind
<1>1. CASE OpenMCPAddModal(v) \/ OpenMCPListModal(v) \/ OpenMCPRemoveModal(v)
  BY <1>1 DEF OpenMCPAddModal, OpenMCPListModal, OpenMCPRemoveModal, Open, Configured
<1>2. CASE DropModal(v)
  BY <1>2 DEF DropModal, CloseModal
<1>3. CASE HandleMCPAddModalSubmission(v)
  <2>1. PICK s \in Server, mode \in Mode, id \in Typed \cup {None},
             secret \in Typed \cup {None} :
          /\ ValidAdd(mode, id, secret)
          /\ mcpServers' = [mcpServers EXCEPT ![s] =
               [mode |-> mode, id |-> id, secret |-> secret, enabled |-> TRUE]]
    BY <1>3, Zenon DEF HandleMCPAddModalSubmission
  <2>2. [mode |-> mode, id |-> id, secret |-> secret, enabled |-> TRUE] \in Row(Client)
    BY DEF Row, Client
  <2> QED BY <1>3, <2>1, <2>2 DEF HandleMCPAddModalSubmission, CloseModal
<1>4. CASE HandleMCPListModalSubmission(v)
  <2>1. PICK selected : SetEnabledMCPServers(selected)
    BY <1>4 DEF HandleMCPListModalSubmission
  <2>2. \A s \in Configured :
          [mcpServers[s] EXCEPT !.enabled = s \in selected] \in Row(Client)
    <3>1. TAKE s \in Configured
    <3>2. mcpServers[s] \in Row(Client) BY DEF Configured
    <3>3. (s \in selected) \in BOOLEAN OBVIOUS
    <3> QED BY <3>2, <3>3 DEF Row
  <2> QED BY <1>4, <2>1, <2>2 DEF HandleMCPListModalSubmission, SetEnabledMCPServers, CloseModal
<1>5. CASE HandleMCPRemoveModalSubmission(v)
  BY <1>5 DEF HandleMCPRemoveModalSubmission, CloseModal
<1> QED BY <1>1, <1>2, <1>3, <1>4, <1>5 DEF ModalStep

\* What is read of a field is a text of its type, and a text if one is there.
LEMMA ReadValue ==
  ASSUME NEW old \in Client \cup {None}, NEW new, NEW x \in Read(old, new),
         RegistrationAssumption
  PROVE  x \in Value /\ (old # None <=> x # None)
BY DEF Read, Value, RegistrationAssumption

\* A start under way has a server, and its Service is there.
LEMMA UnderWay ==
  ASSUME DataTypeOK, PlaceOK, NEW r \in Start, at[r] \notin {"idle", "gone"}
  PROVE  of[r] \in Server /\ service[of[r]] \in Registration
BY DEF DataTypeOK, PlaceOK

\* Overwriting a field of a Service.
LEMMA FieldWritten ==
  ASSUME DataTypeOK, NEW s \in Server, service[s] \in Registration,
         NEW x \in Client \cup {None}
  PROVE  /\ [service EXCEPT ![s].id = x] \in [Server -> Registration \cup {None}]
         /\ [service EXCEPT ![s].id = x][s] \in Registration
         /\ [service EXCEPT ![s].secret = x] \in [Server -> Registration \cup {None}]
         /\ [service EXCEPT ![s].secret = x][s] \in Registration
<1>1. [service[s] EXCEPT !.id = x] \in Registration
  BY DEF Registration
<1>2. [service[s] EXCEPT !.secret = x] \in Registration
  BY DEF Registration
<1> QED BY <1>1, <1>2 DEF DataTypeOK

\* A row read into a Service.
LEMMA RowRead ==
  ASSUME DataTypeOK, NEW s \in Configured
  PROVE  /\ mcpServers[s] \in Row(Client)
         /\ [mode |-> mcpServers[s].mode, id |-> mcpServers[s].id,
             secret |-> mcpServers[s].secret] \in Registration
<1>1. s \in Server /\ mcpServers[s] \in Row(Client)
  BY DEF DataTypeOK, Configured
<1> QED BY <1>1 DEF Row, Registration

LEMMA TypesHoldInitially == ASSUME RegistrationAssumption, Init PROVE TypeOK
<1>1. DynamicRow \in Row(Client)
  BY DEF DynamicRow, Row, Mode
<1>2. DataTypeOK
  BY <1>1 DEF Init, AdminInit, DataTypeOK, Kind, Position, NoClient, Value
<1>3. PlaceOK /\ LockOK
  BY DEF Init, PlaceOK, LockOK, Writing, RegistrationAssumption, Client
<1> QED BY <1>2, <1>3 DEF TypeOK

LEMMA BeginTypes ==
  ASSUME RegistrationAssumption, TypeOK, NEW r \in Start, NEW s \in Server, Begin(r, s)
  PROVE  TypeOK'
<1> USE DEF TypeOK
<1>1. /\ service' \in [Server -> Registration \cup {None}]
      /\ service'[s] # None
      /\ \A t \in Server : service[t] # None => service'[t] # None
  <2>1. None \notin Registration BY DEF RegistrationAssumption
  <2>2. CASE service[s] # None /\ UNCHANGED service
    BY <2>2 DEF DataTypeOK
  <2>3. CASE s \in Configured /\ service' = [service EXCEPT ![s] =
               [mode |-> mcpServers[s].mode, id |-> mcpServers[s].id,
                secret |-> mcpServers[s].secret]]
    BY <2>1, <2>3, RowRead DEF DataTypeOK
  <2> QED BY <2>2, <2>3 DEF Begin
<1>2. DataTypeOK'
  BY <1>1 DEF Begin, DataTypeOK, MoveTo, Position, adminVars
<1>3. PlaceOK'
  BY <1>1 DEF Begin, DataTypeOK, PlaceOK, MoveTo, Position
<1>4. LockOK'
  BY DEF Begin, DataTypeOK, LockOK, MoveTo, Writing
<1> QED BY <1>2, <1>3, <1>4

\* A step that stays outside the lock and leaves the Services alone.
LEMMA OutsideTheLock ==
  ASSUME TypeOK, NEW r \in Start, NEW p \in Position, MoveTo(r, p),
         at[r] \notin Writing \cup {"idle", "gone"}, p \notin Writing,
         UNCHANGED <<serviceVars, of>>
  PROVE  PlaceOK' /\ LockOK'
BY DEF TypeOK, DataTypeOK, PlaceOK, LockOK, MoveTo, serviceVars, Position

LEMMA ResolveTypes ==
  ASSUME RegistrationAssumption, TypeOK, NEW r \in Start, ResolveClientCredentials(r)
  PROVE  TypeOK'
<1> USE DEF TypeOK
<1>1. CASE ReadId(r)
  <2>1. of[r] \in Server /\ service[of[r]] \in Registration
    BY <1>1, UnderWay DEF ReadId
  <2>2. PICK x \in Read(service[of[r]].id, NewIds(of[r])) :
          client' = [client EXCEPT ![r].id = x]
    BY <1>1 DEF ReadId
  <2>3. x \in Value
    BY <2>1, <2>2, ReadValue DEF Registration
  <2>4. DataTypeOK'
    BY <1>1, <2>2, <2>3 DEF ReadId, DataTypeOK, MoveTo, Position, adminVars, serviceVars
  <2> QED BY <1>1, <2>4, OutsideTheLock DEF ReadId, Position, Writing
<1>2. CASE ReadSecret(r)
  <2>1. of[r] \in Server /\ service[of[r]] \in Registration
    BY <1>2, UnderWay DEF ReadSecret
  <2>2. PICK x \in Read(service[of[r]].secret, NewSecrets(of[r])) :
          client' = [client EXCEPT ![r].secret = x]
    BY <1>2 DEF ReadSecret
  <2>3. x \in Value
    BY <2>1, <2>2, ReadValue DEF Registration
  <2>4. PICK p \in {"authorized", "failed", "register"} : MoveTo(r, p)
    BY <1>2 DEF ReadSecret
  <2>5. DataTypeOK'
    BY <1>2, <2>2, <2>3, <2>4
       DEF ReadSecret, DataTypeOK, MoveTo, Position, adminVars, serviceVars
  <2> QED BY <1>2, <2>4, <2>5, OutsideTheLock DEF ReadSecret, Position, Writing
<1>3. CASE Fail(r)
  <2>1. DataTypeOK'
    BY <1>3 DEF Fail, DataTypeOK, MoveTo, Position, adminVars, serviceVars
  <2> QED BY <1>3, <2>1, OutsideTheLock DEF Fail, Position, Writing
<1>4. CASE RegisterClientDCR(r)
  <2>1. DataTypeOK'
    BY <1>4 DEF RegisterClientDCR, DataTypeOK, MoveTo, Position, adminVars, serviceVars
  <2> QED BY <1>4, <2>1, OutsideTheLock DEF RegisterClientDCR, Position, Writing
<1>5. CASE Lock(r)
  <2>1. of[r] \in Server BY <1>5, UnderWay DEF Lock
  <2>2. DataTypeOK'
    BY <1>5, <2>1 DEF Lock, DataTypeOK, MoveTo, Position, adminVars
  <2>3. PlaceOK'
    BY <1>5 DEF Lock, PlaceOK, DataTypeOK, MoveTo
  <2>4. LockOK'
    BY <1>5, <2>1 DEF Lock, LockOK, DataTypeOK, MoveTo, Writing, RegistrationAssumption, Client
  <2> QED BY <2>2, <2>3, <2>4
<1>6. CASE WriteId(r)
  <2>1. of[r] \in Server /\ service[of[r]] \in Registration
    BY <1>6, UnderWay DEF WriteId
  <2>2. /\ service' \in [Server -> Registration \cup {None}]
        /\ service'[of[r]] \in Registration
    BY <1>6, <2>1, FieldWritten DEF WriteId, Client
  <2>3. DataTypeOK'
    BY <1>6, <2>2 DEF WriteId, DataTypeOK, MoveTo, Position, adminVars
  <2>4. PlaceOK'
    BY <1>6, <2>1, <2>2 DEF WriteId, PlaceOK, DataTypeOK, MoveTo, RegistrationAssumption
  <2>5. LockOK'
    BY <1>6 DEF WriteId, LockOK, DataTypeOK, MoveTo, Writing
  <2> QED BY <2>3, <2>4, <2>5
<1>7. CASE WriteSecret(r)
  <2>1. of[r] \in Server /\ service[of[r]] \in Registration
    BY <1>7, UnderWay DEF WriteSecret
  <2>2. /\ service' \in [Server -> Registration \cup {None}]
        /\ service'[of[r]] \in Registration
    <3>1. issued[r] \in Client \cup {None} BY DEF DataTypeOK, Client
    <3> QED BY <1>7, <2>1, <3>1, FieldWritten DEF WriteSecret
  <2>3. DataTypeOK'
    BY <1>7, <2>2 DEF WriteSecret, DataTypeOK, MoveTo, Position, adminVars
  <2>4. PlaceOK'
    BY <1>7, <2>1, <2>2 DEF WriteSecret, PlaceOK, DataTypeOK, MoveTo, RegistrationAssumption
  <2>5. LockOK'
    BY <1>7, <2>1 DEF WriteSecret, LockOK, DataTypeOK, MoveTo, Writing, RegistrationAssumption, Client
  <2> QED BY <2>3, <2>4, <2>5
<1>8. CASE SaveMCPRegistration(r) \/ SaveFails(r)
  <2>1. r \in Client /\ issued[r] \in Client \cup {None}
    BY DEF DataTypeOK, Client
  <2>2. mcpServers' \in [Server -> Row(Client) \cup {None}]
    <3>1. CASE SaveFails(r)
      BY <3>1 DEF SaveFails, DataTypeOK
    <3>2. CASE SaveMCPRegistration(r)
      <4>1. \A s \in Configured :
              [mcpServers[s] EXCEPT !.mode = "dcr", !.id = r, !.secret = issued[r]]
                \in Row(Client)
        BY <2>1, RowRead DEF Row, Mode
      <4> QED BY <3>2, <4>1 DEF SaveMCPRegistration, DataTypeOK
    <3> QED BY <1>8, <3>1, <3>2
  <2>3. Authorize(r) BY <1>8 DEF SaveMCPRegistration, SaveFails
  <2>4. DataTypeOK'
    BY <2>1, <2>2, <2>3 DEF Authorize, DataTypeOK, MoveTo, Position, serviceVars, Value
  <2> QED BY <2>3, <2>4, OutsideTheLock DEF Authorize, Position, Writing
<1> QED BY <1>1, <1>2, <1>3, <1>4, <1>5, <1>6, <1>7, <1>8 DEF ResolveClientCredentials

LEMMA TypesArePreserved ==
  ASSUME RegistrationAssumption, TypeOK, [Next]_vars
  PROVE  TypeOK'
<1> USE DEF TypeOK
<1>1. CASE UNCHANGED vars
  BY <1>1 DEF vars, adminVars, serviceVars, startVars, DataTypeOK, PlaceOK, LockOK
<1>2. ASSUME NEW v \in View, Admin(v) PROVE TypeOK'
  BY <1>2, ModalTypes DEF Admin, serviceVars, startVars, DataTypeOK, PlaceOK, LockOK
<1>3. CASE Restart
  <2>1. DataTypeOK'
    BY <1>3 DEF Restart, DataTypeOK, Position, adminVars, NoClient, Value
  <2>2. PlaceOK' /\ LockOK'
    BY <1>3 DEF Restart, DataTypeOK, PlaceOK, LockOK, Writing, RegistrationAssumption, Client
  <2> QED BY <2>1, <2>2
<1> QED BY <1>1, <1>2, <1>3, BeginTypes, ResolveTypes DEF Next

-----------------------------------------------------------------------------
(* What a step can make of one row and of one Service.                     *)

RowAdded(s) ==
  /\ \E v \in View : Closing(v, "add")
  /\ \E mode \in Mode, id, secret \in Typed \cup {None} :
       /\ ValidAdd(mode, id, secret)
       /\ mcpServers'[s] = [mode |-> mode, id |-> id, secret |-> secret, enabled |-> TRUE]

RowEnabled(s) ==
  /\ mcpServers[s] # None
  /\ \E b \in BOOLEAN : mcpServers'[s] = [mcpServers[s] EXCEPT !.enabled = b]

RowSaved(s) ==
  /\ mcpServers[s] # None
  /\ \E r \in Start :
       /\ at[r] = "save"
       /\ mcpServers'[s] =
            [mcpServers[s] EXCEPT !.mode = "dcr", !.id = r, !.secret = issued[r]]

LEMMA RowChanges ==
  ASSUME RegistrationAssumption, TypeOK, [Next]_vars, NEW s \in Server
  PROVE  \/ mcpServers'[s] = mcpServers[s]
         \/ mcpServers'[s] = None
         \/ RowAdded(s) \/ RowEnabled(s) \/ RowSaved(s)
<1> USE DEF TypeOK, DataTypeOK
<1>1. CASE UNCHANGED mcpServers
  BY <1>1
<1>2. ASSUME NEW r \in Start, SaveMCPRegistration(r),
             s = of[r] /\ s \in Configured
      PROVE  RowSaved(s)
  BY <1>2 DEF SaveMCPRegistration, Authorize, RowSaved, Configured
<1>3. ASSUME NEW r \in Start, SaveMCPRegistration(r),
             ~(s = of[r] /\ s \in Configured)
      PROVE  mcpServers'[s] = mcpServers[s]
  BY <1>3 DEF SaveMCPRegistration
<1>4. ASSUME NEW v \in View, HandleMCPAddModalSubmission(v)
      PROVE  mcpServers'[s] = mcpServers[s] \/ RowAdded(s)
  <2>1. PICK t \in Server, mode \in Mode, id \in Typed \cup {None},
             secret \in Typed \cup {None} :
          /\ ValidAdd(mode, id, secret)
          /\ mcpServers' = [mcpServers EXCEPT ![t] =
               [mode |-> mode, id |-> id, secret |-> secret, enabled |-> TRUE]]
    BY <1>4, Zenon DEF HandleMCPAddModalSubmission
  <2>2. Closing(v, "add")
    BY <1>4 DEF HandleMCPAddModalSubmission, CloseModal, Closing
  <2>3. CASE t # s
    BY <2>1, <2>3
  <2>4. CASE t = s
    <3>1. mcpServers'[s] = [mode |-> mode, id |-> id, secret |-> secret, enabled |-> TRUE]
      BY <2>1, <2>4
    <3> QED BY <2>1, <2>2, <3>1, Zenon DEF RowAdded
  <2> QED BY <2>3, <2>4
<1>5. ASSUME NEW v \in View, HandleMCPListModalSubmission(v)
      PROVE  mcpServers'[s] = None \/ RowEnabled(s)
  <2>1. PICK selected : SetEnabledMCPServers(selected)
    BY <1>5 DEF HandleMCPListModalSubmission
  <2>2. (s \in selected) \in BOOLEAN
    OBVIOUS
  <2>3. CASE s \in Configured
    <3>1. mcpServers'[s] = [mcpServers[s] EXCEPT !.enabled = s \in selected]
      BY <2>1, <2>3 DEF SetEnabledMCPServers
    <3> QED BY <2>2, <2>3, <3>1, Zenon DEF RowEnabled, Configured
  <2>4. CASE s \notin Configured
    BY <2>1, <2>4 DEF SetEnabledMCPServers
  <2> QED BY <2>3, <2>4
<1>6. ASSUME NEW v \in View, HandleMCPRemoveModalSubmission(v)
      PROVE  mcpServers'[s] = mcpServers[s] \/ mcpServers'[s] = None
  BY <1>6 DEF HandleMCPRemoveModalSubmission
<1>7. ASSUME NEW r \in Start, ResolveClientCredentials(r), ~SaveMCPRegistration(r)
      PROVE  UNCHANGED mcpServers
  BY <1>7 DEF ResolveClientCredentials, ReadId, ReadSecret, Fail, RegisterClientDCR,
              Lock, WriteId, WriteSecret, SaveFails, adminVars
<1>8. ASSUME NEW v \in View, Admin(v), ~HandleMCPAddModalSubmission(v),
             ~HandleMCPListModalSubmission(v), ~HandleMCPRemoveModalSubmission(v)
      PROVE  UNCHANGED mcpServers
  BY <1>8 DEF Admin, ModalStep, OpenMCPAddModal, OpenMCPListModal, OpenMCPRemoveModal,
              Open, DropModal
<1>9. ASSUME (\E r \in Start, t \in Server : Begin(r, t)) \/ Restart \/ UNCHANGED vars
      PROVE  UNCHANGED mcpServers
  BY <1>9 DEF Begin, Restart, vars, adminVars
<1>10. CASE \E r \in Start : ResolveClientCredentials(r)
  BY <1>1, <1>2, <1>3, <1>7, <1>10
<1>11. CASE \E v \in View : Admin(v)
  BY <1>1, <1>4, <1>5, <1>6, <1>8, <1>11
<1> QED BY <1>1, <1>9, <1>10, <1>11 DEF Next

ServiceBuilt(s) ==
  /\ service[s] = None /\ mcpServers[s] # None
  /\ service'[s] = [mode |-> mcpServers[s].mode, id |-> mcpServers[s].id,
                    secret |-> mcpServers[s].secret]

IdWritten(s) ==
  /\ service[s] # None
  /\ \E r \in Start : /\ at[r] = "writeId" /\ at'[r] = "writeSecret" /\ mu'[s] = r
                      /\ service'[s] = [service[s] EXCEPT !.id = r]

SecretWritten(s) ==
  /\ service[s] # None
  /\ \E r \in Start : /\ at[r] = "writeSecret" /\ of[r] = s
                      /\ service'[s] = [service[s] EXCEPT !.secret = issued[r]]

LEMMA ServiceChanges ==
  ASSUME RegistrationAssumption, TypeOK, [Next]_vars, NEW s \in Server
  PROVE  \/ service'[s] = service[s] /\ (mu'[s] = None => mu[s] = None)
         \/ service'[s] = None /\ Restart
         \/ ServiceBuilt(s) \/ IdWritten(s) \/ SecretWritten(s)
<1> USE DEF TypeOK, DataTypeOK
<1> DEFINE Same == service'[s] = service[s] /\ (mu'[s] = None => mu[s] = None)
<1>2. ASSUME NEW r \in Start, NEW t \in Server, Begin(r, t)
      PROVE  Same \/ ServiceBuilt(s)
  BY <1>2 DEF Begin, ServiceBuilt, Configured
<1>3. ASSUME NEW r \in Start, WriteId(r)
      PROVE  Same \/ IdWritten(s)
  <2>1. at[r] = "writeId" /\ at'[r] = "writeSecret" /\ UNCHANGED <<mu, of>>
    BY <1>3 DEF WriteId, MoveTo
  <2>2. CASE of[r] = s
    <3>1. mu[s] = r
      BY <2>1, <2>2 DEF LockOK, Writing
    <3>2. service[s] # None
      BY <2>1, <2>2 DEF PlaceOK
    <3>3. service'[s] = [service[s] EXCEPT !.id = r]
      BY <1>3, <2>2 DEF WriteId
    <3> QED BY <2>1, <3>1, <3>2, <3>3 DEF IdWritten
  <2>3. CASE of[r] # s
    BY <1>3, <2>1, <2>3 DEF WriteId
  <2> QED BY <2>2, <2>3
<1>4. ASSUME NEW r \in Start, WriteSecret(r)
      PROVE  Same \/ SecretWritten(s)
  <2>1. at[r] = "writeSecret"
    BY <1>4 DEF WriteSecret
  <2>2. CASE of[r] = s
    <3>1. service[s] # None
      BY <2>1, <2>2 DEF PlaceOK
    <3>2. service'[s] = [service[s] EXCEPT !.secret = issued[r]]
      BY <1>4, <2>2 DEF WriteSecret
    <3> QED BY <2>1, <2>2, <3>1, <3>2 DEF SecretWritten
  <2>3. CASE of[r] # s
    BY <1>4, <2>3 DEF WriteSecret
  <2> QED BY <2>2, <2>3
<1>5. ASSUME NEW r \in Start, ResolveClientCredentials(r), ~WriteId(r), ~WriteSecret(r)
      PROVE  Same
  BY <1>5 DEF ResolveClientCredentials, ReadId, ReadSecret, Fail, RegisterClientDCR,
              Lock, SaveMCPRegistration, SaveFails, Authorize, serviceVars,
              RegistrationAssumption, Client
<1>6. ASSUME NEW v \in View, Admin(v) PROVE Same
  BY <1>6 DEF Admin, serviceVars
<1>7. ASSUME Restart PROVE service'[s] = None
  BY <1>7 DEF Restart
<1>8. ASSUME UNCHANGED vars PROVE Same
  BY <1>8 DEF vars, serviceVars
<1>9. CASE \E r \in Start : ResolveClientCredentials(r)
  BY <1>3, <1>4, <1>5, <1>9
<1> QED BY <1>2, <1>6, <1>7, <1>8, <1>9 DEF Next

-----------------------------------------------------------------------------
(* Rows.                                                                   *)

LEMMA StaticStep ==
  ASSUME RegistrationAssumption, TypeOK, StaticHasClient, [Next]_vars
  PROVE  StaticHasClient'
<1> SUFFICES ASSUME NEW s \in Server, mcpServers'[s] # None,
                    mcpServers'[s].mode = "static"
             PROVE  mcpServers'[s].id # None /\ mcpServers'[s].secret # None
  BY DEF StaticHasClient, Configured
<1>1. CASE mcpServers'[s] = mcpServers[s]
  BY <1>1 DEF StaticHasClient, Configured
<1>2. CASE RowAdded(s)
  BY <1>2 DEF RowAdded, ValidAdd
<1>3. CASE RowEnabled(s)
  <2>1. mcpServers[s] \in Row(Client)
    BY <1>3 DEF RowEnabled, TypeOK, DataTypeOK
  <2> QED BY <1>3, <2>1 DEF RowEnabled, Row, StaticHasClient, Configured
<1>4. CASE RowSaved(s)
  <2>1. mcpServers[s] \in Row(Client)
    BY <1>4 DEF RowSaved, TypeOK, DataTypeOK
  <2> QED BY <1>4, <2>1 DEF RowSaved, Row
<1> QED BY <1>1, <1>2, <1>3, <1>4, RowChanges

LEMMA RemovedStep ==
  ASSUME RegistrationAssumption, TypeOK, [Next]_vars
  PROVE  \A s \in Server :
           mcpServers[s] = None /\ mcpServers'[s] # None
             => \E v \in View : Closing(v, "add")
BY RowChanges DEF RowAdded, RowEnabled, RowSaved

-----------------------------------------------------------------------------
(* Starts.                                                                 *)

\* A start moves by its own steps, or all are stopped.
LEMMA StartChanges ==
  ASSUME RegistrationAssumption, TypeOK, [Next]_vars, NEW r \in Start
  PROVE  \/ \E s \in Server : Begin(r, s)
         \/ ResolveClientCredentials(r)
         \/ Restart
         \/ UNCHANGED <<at[r], of[r], client[r], issued[r], late[r]>>
<1> USE DEF TypeOK, DataTypeOK, MoveTo
<1>1. ASSUME NEW q \in Start, NEW s \in Server, Begin(q, s), q # r
      PROVE  UNCHANGED <<at[r], of[r], client[r], issued[r], late[r]>>
  BY <1>1 DEF Begin
<1>2. ASSUME NEW q \in Start, ResolveClientCredentials(q), q # r
      PROVE  UNCHANGED <<at[r], of[r], client[r], issued[r], late[r]>>
  BY <1>2 DEF ResolveClientCredentials, ReadId, ReadSecret, Fail, RegisterClientDCR,
              Lock, WriteId, WriteSecret, SaveMCPRegistration, SaveFails, Authorize
<1>3. ASSUME NEW v \in View, Admin(v)
      PROVE  UNCHANGED <<at[r], of[r], client[r], issued[r], late[r]>>
  BY <1>3 DEF Admin, startVars
<1>4. ASSUME UNCHANGED vars
      PROVE  UNCHANGED <<at[r], of[r], client[r], issued[r], late[r]>>
  BY <1>4 DEF vars, startVars
<1> QED BY <1>1, <1>2, <1>3, <1>4, Zenon DEF Next

\* Before a start registers a client, its name is not in use.
Early == {"idle", "readId", "readSecret", "register"}

LEMMA EarlyBefore ==
  ASSUME RegistrationAssumption, TypeOK, [Next]_vars, NEW r \in Start
  PROVE  /\ at'[r] \in Early => at[r] \in Early
         /\ at[r] \notin Early => issued'[r] = issued[r]
<1> USE DEF TypeOK, DataTypeOK, MoveTo, Early
<1>1. CASE \E s \in Server : Begin(r, s)
  BY <1>1 DEF Begin
<1>2. CASE ResolveClientCredentials(r)
  BY <1>2 DEF ResolveClientCredentials, ReadId, ReadSecret, Fail, RegisterClientDCR,
              Lock, WriteId, WriteSecret, SaveMCPRegistration, SaveFails, Authorize
<1>3. CASE Restart
  BY <1>3 DEF Restart
<1> QED BY <1>1, <1>2, <1>3, StartChanges

\* The way into the second write.
LEMMA SecondWrite ==
  ASSUME RegistrationAssumption, TypeOK, [Next]_vars, NEW r \in Start,
         at'[r] = "writeSecret"
  PROVE  \/ WriteId(r)
         \/ at[r] = "writeSecret" /\ of'[r] = of[r]
<1> USE DEF TypeOK, DataTypeOK, MoveTo
<1>1. CASE \E s \in Server : Begin(r, s)
  BY <1>1 DEF Begin
<1>2. CASE ResolveClientCredentials(r)
  BY <1>2 DEF ResolveClientCredentials, ReadId, ReadSecret, Fail, RegisterClientDCR,
              Lock, WriteId, WriteSecret, SaveMCPRegistration, SaveFails, Authorize
<1>3. CASE Restart
  BY <1>3 DEF Restart
<1> QED BY <1>1, <1>2, <1>3, StartChanges

-----------------------------------------------------------------------------
(* Credentials.                                                            *)

LEMMA PublishedStep ==
  ASSUME RegistrationAssumption, TypeOK, TypeOK', PublishedInv, [Next]_vars
  PROVE  PublishedInv'
<1> USE DEF TypeOK, DataTypeOK
<1>1. ASSUME NEW r \in Start, at'[r] \in Early, NEW s \in Server
      PROVE  /\ service'[s] # None => service'[s].id # r
             /\ mcpServers'[s] # None => mcpServers'[s].id # r
  <2>1. at[r] \in Early
    BY <1>1, EarlyBefore
  <2>2. /\ service[s] # None => service[s].id # r
        /\ mcpServers[s] # None => mcpServers[s].id # r
    BY <2>1 DEF PublishedInv, Early, Configured
  <2>3. service'[s] # None => service'[s].id # r
    <3>1. CASE ServiceBuilt(s)
      BY <2>2, <3>1 DEF ServiceBuilt
    <3>2. CASE IdWritten(s)
      <4>1. service[s] \in Registration BY <3>2 DEF IdWritten
      <4> QED BY <1>1, <3>2, <4>1 DEF IdWritten, Registration, Early
    <3>3. CASE SecretWritten(s)
      <4>1. service[s] \in Registration BY <3>3 DEF SecretWritten
      <4> QED BY <2>2, <3>3, <4>1 DEF SecretWritten, Registration
    <3> QED BY <2>2, <3>1, <3>2, <3>3, ServiceChanges
  <2>4. mcpServers'[s] # None => mcpServers'[s].id # r
    <3>1. CASE RowAdded(s)
      BY <3>1 DEF RowAdded, RegistrationAssumption, Client
    <3>2. CASE RowEnabled(s)
      <4>1. mcpServers[s] \in Row(Client) BY <3>2 DEF RowEnabled
      <4> QED BY <2>2, <3>2, <4>1 DEF RowEnabled, Row
    <3>3. CASE RowSaved(s)
      <4>1. mcpServers[s] \in Row(Client) BY <3>3 DEF RowSaved
      <4> QED BY <2>1, <3>3, <4>1 DEF RowSaved, Row, Early
    <3> QED BY <2>2, <3>1, <3>2, <3>3, RowChanges
  <2> QED BY <2>3, <2>4
<1>2. ASSUME NEW r \in Start, at'[r] = "writeSecret"
      PROVE  service'[of'[r]].id = r
  <2>1. CASE WriteId(r)
    <3>1. of[r] \in Server /\ service[of[r]] \in Registration
      BY <2>1, UnderWay DEF WriteId
    <3> QED BY <2>1, <3>1 DEF WriteId, Registration
  <2>2. CASE at[r] = "writeSecret" /\ of'[r] = of[r]
    <3>1. PICK s \in Server :
            s = of[r] /\ service[s] \in Registration /\ service[s].id = r
      BY <2>2, UnderWay DEF PublishedInv
    <3>2. ~Restart
      BY <1>2, <2>2 DEF Restart
    <3>3. mu'[s] = r
      BY <1>2, <2>2, <3>1 DEF LockOK, Writing
    <3>4. ~ServiceBuilt(s)
      BY <3>1 DEF ServiceBuilt, RegistrationAssumption
    <3>5. ~IdWritten(s)
      BY <2>2, <3>3 DEF IdWritten
    <3>6. SecretWritten(s) => service'[s].id = r
      BY <3>1 DEF SecretWritten, Registration
    <3>7. service'[s].id = r
      BY <3>1, <3>2, <3>4, <3>5, <3>6, ServiceChanges
    <3> QED BY <2>2, <3>1, <3>7
  <2> QED BY <1>2, <2>1, <2>2, SecondWrite
<1> QED BY <1>1, <1>2 DEF PublishedInv, Early, Configured

LEMMA WholeStep ==
  ASSUME RegistrationAssumption, TypeOK, PublishedInv, CredentialsAreWhole, [Next]_vars
  PROVE  CredentialsAreWhole'
<1> USE DEF TypeOK, DataTypeOK
<1>1. ASSUME NEW s \in Server, service'[s] # None, mu'[s] = None
      PROVE  Whole(service[s])'
  <2>1. CASE service'[s] = service[s] /\ (mu'[s] = None => mu[s] = None)
    <3>1. Whole(service[s])
      BY <1>1, <2>1 DEF CredentialsAreWhole
    <3>2. service[s].id \in Start => at[service[s].id] \notin Early
      BY <1>1, <2>1 DEF PublishedInv, Early
    <3> QED BY <2>1, <3>1, <3>2, EarlyBefore DEF Whole
  <2>2. CASE ServiceBuilt(s)
    <3>1. Whole(mcpServers[s])
      BY <2>2 DEF ServiceBuilt, CredentialsAreWhole, Configured
    <3>2. mcpServers[s].id \in Start => at[mcpServers[s].id] \notin Early
      BY <2>2 DEF ServiceBuilt, PublishedInv, Early, Configured
    <3> QED BY <2>2, <3>1, <3>2, EarlyBefore DEF Whole, ServiceBuilt
  <2>3. CASE IdWritten(s)
    BY <1>1, <2>3 DEF IdWritten, RegistrationAssumption, Client
  <2>4. CASE SecretWritten(s)
    <3>1. service[s] \in Registration
      BY <2>4 DEF SecretWritten
    <3>2. PICK r \in Start :
            /\ at[r] = "writeSecret" /\ of[r] = s
            /\ service'[s] = [service[s] EXCEPT !.secret = issued[r]]
      BY <2>4 DEF SecretWritten
    <3>3. service[s].id = r
      BY <3>2 DEF PublishedInv
    <3>4. issued'[r] = issued[r]
      BY <3>2, EarlyBefore DEF Early
    <3> QED BY <3>1, <3>2, <3>3, <3>4 DEF Whole, Registration
  <2> QED BY <1>1, <2>1, <2>2, <2>3, <2>4, ServiceChanges
<1>2. ASSUME NEW s \in Server, mcpServers'[s] # None
      PROVE  Whole(mcpServers[s])'
  <2>1. ASSUME mcpServers[s] # None,
               mcpServers'[s].id = mcpServers[s].id,
               mcpServers'[s].secret = mcpServers[s].secret
        PROVE  Whole(mcpServers[s])'
    <3>1. Whole(mcpServers[s])
      BY <2>1 DEF CredentialsAreWhole, Configured
    <3>2. mcpServers[s].id \in Start => at[mcpServers[s].id] \notin Early
      BY <2>1 DEF PublishedInv, Early, Configured
    <3> QED BY <2>1, <3>1, <3>2, EarlyBefore DEF Whole
  <2>2. CASE RowAdded(s)
    BY <2>2 DEF RowAdded, Whole, RegistrationAssumption, Client
  <2>3. CASE RowEnabled(s)
    <3>1. mcpServers[s] \in Row(Client) BY <2>3 DEF RowEnabled
    <3> QED BY <2>1, <2>3, <3>1 DEF RowEnabled, Row
  <2>4. CASE RowSaved(s)
    <3>1. mcpServers[s] \in Row(Client)
      BY <2>4 DEF RowSaved
    <3>2. PICK r \in Start :
            /\ at[r] = "save"
            /\ mcpServers'[s] =
                 [mcpServers[s] EXCEPT !.mode = "dcr", !.id = r, !.secret = issued[r]]
      BY <2>4 DEF RowSaved
    <3>3. issued'[r] = issued[r]
      BY <3>2, EarlyBefore DEF Early
    <3> QED BY <3>1, <3>2, <3>3 DEF Whole, Row
  <2> QED BY <1>2, <2>1, <2>2, <2>3, <2>4, RowChanges
<1> QED BY <1>1, <1>2 DEF CredentialsAreWhole, Configured

-----------------------------------------------------------------------------
(* A client is registered once.                                            *)

\* The Service of a server keeps a client as long as the process runs.
LEMMA ClientStays ==
  ASSUME RegistrationAssumption, TypeOK, [Next]_vars, NEW s \in Server, ~Restart,
         service[s] # None, service[s].id # None
  PROVE  service'[s] # None /\ service'[s].id # None
<1>1. service[s] \in Registration
  BY DEF TypeOK, DataTypeOK
<1>2. ~ServiceBuilt(s)
  BY DEF ServiceBuilt
<1>3. IdWritten(s) => service'[s] \in Registration /\ service'[s].id # None
  BY <1>1 DEF IdWritten, Registration, RegistrationAssumption, Client
<1>4. SecretWritten(s) => service'[s] \in Registration /\ service'[s].id # None
  <2>1. \A r \in Start : issued[r] \in Client \cup {None}
    BY DEF TypeOK, DataTypeOK, Client
  <2> QED BY <1>1, <2>1 DEF SecretWritten, Registration
<1>5. None \notin Registration
  BY DEF RegistrationAssumption
<1> QED BY <1>2, <1>3, <1>4, <1>5, ServiceChanges

LEMMA KnownStep ==
  ASSUME RegistrationAssumption, TypeOK, TypeOK', PublishedInv, KnownInv,
         RegistrationReused, [Next]_vars
  PROVE  KnownInv' /\ RegistrationReused'
<1> USE DEF TypeOK
<1> DEFINE HasClient(r) == service[of[r]].id # None
           Known(r) ==
             /\ at[r] \in {"save", "authorized"} => HasClient(r)
             /\ late[r] /\ at[r] = "readId" => HasClient(r)
             /\ at[r] = "readSecret" /\ (client[r].id # None \/ late[r])
                  => HasClient(r) /\ client[r].id # None
             /\ at[r] = "register" => ~late[r]
<1>1. \A r \in Start : Known(r)
  BY DEF KnownInv, RegistrationReused
<1>2. SUFFICES ASSUME NEW r \in Start PROVE Known(r)'
  BY DEF KnownInv, RegistrationReused
<1>3. ASSUME ~Restart, at[r] \notin {"idle", "gone"}, of'[r] = of[r], HasClient(r)
      PROVE  HasClient(r)'
  BY <1>3, UnderWay, ClientStays DEF RegistrationAssumption
<1>4. CASE Restart
  BY <1>4 DEF Restart
<1>5. ASSUME NEW s \in Server, Begin(r, s), ~Restart PROVE Known(r)'
  <2>1. at'[r] = "readId" /\ of'[r] = s
    BY <1>5 DEF Begin, DataTypeOK, MoveTo
  <2>2. ASSUME late'[r] PROVE HasClient(r)'
    <3>1. PICK q \in Start : of[q] = s /\ at[q] \in {"save", "authorized"}
      BY <1>5, <2>2 DEF Begin, DataTypeOK
    <3>2. service[s] # None /\ service[s].id # None
      BY <1>1, <3>1 DEF PlaceOK
    <3> QED BY <1>5, <2>1, <3>2, ClientStays
  <2> QED BY <2>1, <2>2
<1>6. CASE ResolveClientCredentials(r) /\ ~Restart
  <2> USE DEF MoveTo, DataTypeOK
  <2>1. CASE ReadId(r)
    <3>1. of[r] \in Server /\ service[of[r]] \in Registration
      BY <2>1, UnderWay DEF ReadId
    <3>2. PICK x \in Read(service[of[r]].id, NewIds(of[r])) :
            client' = [client EXCEPT ![r].id = x]
      BY <2>1 DEF ReadId
    <3>3. service[of[r]].id # None <=> x # None
      BY <3>1, ReadValue DEF Registration
    <3>4. client'[r].id = x
      BY <3>2
    <3>5. at[r] = "readId" /\ at'[r] = "readSecret" /\ UNCHANGED <<of, late>>
      BY <2>1 DEF ReadId
    <3>6. x # None \/ late[r] => HasClient(r)' /\ x # None
      BY <1>1, <1>3, <1>6, <3>3, <3>5
    <3> QED BY <3>4, <3>5, <3>6
  <2>2. CASE ReadSecret(r)
    <3>1. at[r] = "readSecret" /\ UNCHANGED <<of, late>>
      BY <2>2 DEF ReadSecret
    <3>2. at'[r] = "authorized" => client[r].id # None
      BY <2>2 DEF ReadSecret
    <3>3. at'[r] = "register" => client[r].id = None
      BY <2>2 DEF ReadSecret
    <3>4. at'[r] \in {"authorized", "failed", "register"}
      BY <2>2 DEF ReadSecret
    <3> QED BY <1>1, <1>3, <1>6, <3>1, <3>2, <3>3, <3>4
  <2>3. CASE Fail(r) \/ RegisterClientDCR(r) \/ Lock(r) \/ WriteId(r)
    BY <2>3 DEF Fail, RegisterClientDCR, Lock, WriteId
  <2>4. CASE WriteSecret(r)
    <3>1. HasClient(r)
      BY <2>4 DEF WriteSecret, PublishedInv, RegistrationAssumption, Client
    <3> QED BY <1>3, <1>6, <2>4, <3>1 DEF WriteSecret
  <2>5. CASE SaveMCPRegistration(r) \/ SaveFails(r)
    <3>1. Authorize(r)
      BY <2>5 DEF SaveMCPRegistration, SaveFails
    <3> QED BY <1>1, <1>3, <1>6, <3>1 DEF Authorize
  <2> QED BY <1>6, <2>1, <2>2, <2>3, <2>4, <2>5 DEF ResolveClientCredentials
<1>7. CASE UNCHANGED <<at[r], of[r], client[r], issued[r], late[r]>> /\ ~Restart
  <2>1. at[r] \notin {"idle", "gone"} /\ HasClient(r) => HasClient(r)'
    BY <1>3, <1>7
  <2> QED BY <1>1, <1>7, <2>1
<1> QED BY <1>4, <1>5, <1>6, <1>7, StartChanges

-----------------------------------------------------------------------------
(* Theorems.                                                               *)

LEMMA InvInitially == ASSUME RegistrationAssumption, Init PROVE IInv
<1>1. TypeOK
  BY TypesHoldInitially
<1>2. \A s \in Configured : mcpServers[s] = DynamicRow
  BY DEF Init, AdminInit, Configured
<1>3. StaticHasClient
  BY <1>2 DEF StaticHasClient, DynamicRow
<1>4. PublishedInv /\ CredentialsAreWhole
  BY <1>2 DEF Init, PublishedInv, CredentialsAreWhole, Whole, DynamicRow,
              RegistrationAssumption, Client
<1>5. KnownInv /\ RegistrationReused
  BY DEF Init, KnownInv, RegistrationReused
<1> QED BY <1>1, <1>3, <1>4, <1>5 DEF IInv

LEMMA InvPreserved ==
  ASSUME RegistrationAssumption, IInv, [Next]_vars PROVE IInv'
BY TypesArePreserved, StaticStep, PublishedStep, WholeStep, KnownStep DEF IInv

\* The inductive invariant of the registration of clients.
THEOREM RegistrationInvariant == Spec => []IInv
<1>1. Init => IInv
  BY RegistrationAssumption, InvInitially
<1>2. IInv /\ [Next]_vars => IInv'
  BY RegistrationAssumption, InvPreserved
<1> QED BY <1>1, <1>2, PTL DEF Spec

\* Type correctness; and only the start that is writing holds the lock.
THEOREM RegistrationTypeCorrect == Spec => []TypeOK
<1>1. IInv => TypeOK BY DEF IInv
<1> QED BY <1>1, RegistrationInvariant, PTL

\* A static row has a client and its secret (handleMCPAddModalSubmission),
\* whatever registrations are saved late.
THEOREM StaticHasClientCorrect == Spec => []StaticHasClient
<1>1. IInv => StaticHasClient BY DEF IInv
<1> QED BY <1>1, RegistrationInvariant, PTL

\* Outside the lock of resolveClientCredentials, the id and the secret of a
\* Service, and those of a row, come from one registration.
THEOREM CredentialsAreWholeCorrect == Spec => []CredentialsAreWhole
<1>1. IInv => CredentialsAreWhole BY DEF IInv
<1> QED BY <1>1, RegistrationInvariant, PTL

\* A start that begins when its Service has a client does not register one.
THEOREM RegistrationReusedCorrect == Spec => []RegistrationReused
<1>1. IInv => RegistrationReused BY DEF IInv
<1> QED BY <1>1, RegistrationInvariant, PTL

\* A removed row comes back only through an add modal: SaveMCPRegistration and
\* SetEnabledMCPServers update rows and never insert one.
THEOREM RemovedStaysRemovedCorrect == Spec => RemovedStaysRemoved
<1>1. IInv /\ [Next]_vars
        => [\A s \in Server :
              mcpServers[s] = None /\ mcpServers'[s] # None
                => \E v \in View : Closing(v, "add")]_mcpServers
  BY RegistrationAssumption, RemovedStep DEF IInv
<1> QED BY <1>1, RegistrationInvariant, PTL DEF Spec, RemovedStaysRemoved
==============================================================================
