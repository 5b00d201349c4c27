--------------------------- MODULE RegistryProofs ---------------------------
(* What TLAPS proves of Registry, for any commands, builds, pools and names. *)
EXTENDS Registry, TLAPS

USE BuildAssumption, BoundsAssumption, NoneAssumption

-----------------------------------------------------------------------------
(* Type correctness. *)

Step(c) == Command(c) \/ CommandFails(c)

LEMMA NoTxType == NoTx \in Tx
BY DEF NoTx, Tx

\* What a step does to the other commands: nothing.
LEMMA Frame ==
    ASSUME TypeOK, NEW c \in Commands, Step(c)
    PROVE  /\ at' \in [Commands -> Phases]
           /\ at' = [at EXCEPT ![c] = at'[c]] /\ tx' = [tx EXCEPT ![c] = tx'[c]]
           /\ \A d \in Commands \ {c} : at'[d] = at[d] /\ tx'[d] = tx[d]
<1> USE DEF TypeOK, Goto, End, Phases
<1>1. CASE MigrateLock(c)
      BY <1>1 DEF MigrateLock
<1>2. CASE MigrateCommit(c)
      BY <1>2 DEF MigrateCommit, Answered
<1>3. CASE \E e \in Emails : UpsertAccount(c, e)
      BY <1>3 DEF UpsertAccount
<1>4. CASE NextAddress(c)
      BY <1>4 DEF NextAddress
<1>5. CASE \E l \in Labels : LabelTaken(c, l) \/ InsertTunnel(c, l)
      BY <1>5 DEF LabelTaken, InsertTunnel
<1>6. CASE CommitTunnel(c)
      BY <1>6 DEF CommitTunnel, ShowAndEnsure
<1>7. CASE \E row \in tokens : FindToken(c, row)
      BY <1>7 DEF FindToken
<1>8. CASE DeleteToken(c)
      BY <1>8 DEF DeleteToken
<1>9. CASE CommitRotation(c)
      BY <1>9 DEF CommitRotation, ShowAndEnsure
<1>10. CASE \E name \in NodeNames : CreateNode(c, name)
      BY <1>10 DEF CreateNode, Answered
<1>11. CASE Serve(c)
      BY <1>11 DEF Serve
<1>12. CASE ListTunnels(c)
      BY <1>12 DEF ListTunnels
<1>13. CASE \E n \in DnsNames : LookupCNAME(c, n)
      BY <1>13 DEF LookupCNAME, Ensured
<1>14. CASE \E n \in DnsNames : PostCNAME(c, n)
      BY <1>14 DEF PostCNAME, Ensured
<1>15. CASE CommandFails(c)
      BY <1>15 DEF CommandFails
<1> QED BY <1>1, <1>2, <1>3, <1>4, <1>5, <1>6, <1>7, <1>8, <1>9, <1>10, <1>11,
           <1>12, <1>13, <1>14, <1>15 DEF Step, Command

LEMMA TypeInit == Init => TypeOK
<1> SUFFICES ASSUME Init PROVE TypeOK
    OBVIOUS
<1>1. at \in [Commands -> Phases]
      BY DEF Init, Phases
<1>2. tx \in [Commands -> Tx]
      BY NoTxType DEF Init
<1>3. cnames \in [DnsNames -> {"right", "wrong", None}]
      BY DEF Init
<1>4. 1 \in 1 .. MaxGw + 1 /\ 0 \in 0 .. MaxFailures
      OBVIOUS
<1> QED BY <1>1, <1>2, <1>3, <1>4 DEF Init, TypeOK

\* The fields a command has, each of its type.
LEMMA TxFields ==
    ASSUME TypeOK, NEW c \in Commands
    PROVE  /\ tx[c] \in Tx
           /\ \A s \in SUBSET Nat : [tx[c] EXCEPT !.pending = s] \in Tx
           /\ \A e \in Emails : [tx[c] EXCEPT !.email = e] \in Tx
           /\ \A n \in Nat : [tx[c] EXCEPT !.ip = n] \in Tx
           /\ \A l \in Labels : [tx[c] EXCEPT !.label = l] \in Tx
           /\ [tx[c] EXCEPT !.tries = @ + 1] \in Tx
           /\ \A r \in Token : [tx[c] EXCEPT !.row = r] \in Tx
           /\ \A n : [tx[c] EXCEPT !.todo = @ \ {n}] \in Tx
<1>1. tx[c] \in Tx
      BY DEF TypeOK
<1> QED BY <1>1 DEF Tx

\* The domains a command is to ensure.
LEMMA TodoType ==
    ASSUME TypeOK, NEW c \in Commands, NEW ls \in SUBSET Labels, NEW t \in Tx
    PROVE  [t EXCEPT !.domains = ls, !.todo = ls \X {"apex", "star"}] \in Tx
<1>1. ls \X {"apex", "star"} \in SUBSET DnsNames
      BY DEF DnsNames
<1> QED BY <1>1 DEF Tx

LEMMA ShowTypes ==
    ASSUME TypeOK, NEW c \in Commands, NEW ls \in SUBSET Labels, ShowAndEnsure(c, ls)
    PROVE  /\ tx' \in [Commands -> Tx] /\ printed' \subseteq Commands
           /\ failures' \in 0 .. MaxFailures
           /\ at'[c] \in {"lookup", "done", "failed"}
<1>1. [NoTx EXCEPT !.domains = ls, !.todo = ls \X {"apex", "star"}] \in Tx
      BY TodoType, NoTxType
<1> QED BY <1>1, NoTxType DEF ShowAndEnsure, End, Fails, TypeOK

\* The part of TypeOK about the commands, and the one about the tables.
CommandTypes ==
    /\ at \in [Commands -> Phases]
    /\ tx \in [Commands -> Tx]
    /\ \A c \in Commands :
          /\ at[c] \in {"address", "insert", "token"} => tx[c].email # None
          /\ at[c] = "token" => tx[c].label # None
          /\ at[c] \in {"delete", "newtoken"} => tx[c].row # None

Untouched == /\ UNCHANGED <<tables, ipSeq, gwSeq, dns, history>>
             /\ failures' = failures \/ Fails

LEMMA UntouchedTypes ==
    ASSUME TypeOK, CommandTypes', Untouched
    PROVE  TypeOK'
BY DEF TypeOK, CommandTypes, Untouched, Fails, tables, dns, history

LEMMA CommandStep ==
    ASSUME TypeOK, NEW c \in Commands, Step(c), tx'[c] \in Tx,
           at'[c] \in {"address", "insert", "token"} => tx'[c].email # None,
           at'[c] = "token" => tx'[c].label # None,
           at'[c] \in {"delete", "newtoken"} => tx'[c].row # None
    PROVE  CommandTypes'
<1>1. tx' \in [Commands -> Tx]
      BY Frame DEF TypeOK
<1> QED BY <1>1, Frame DEF TypeOK, CommandTypes

\* A command that ends, or that is past its transaction.
LEMMA EndStep ==
    ASSUME TypeOK, NEW c \in Commands, Step(c), tx'[c] \in Tx,
           at'[c] \in {"open", "migrating", "ready", "lookup", "write", "done",
                       "failed", "duplicate"}
    PROVE  CommandTypes'
BY CommandStep

LEMMA CommandTypesStep ==
    ASSUME TypeOK, NEW c \in Commands, Step(c)
    PROVE  CommandTypes'
<1> USE DEF TypeOK, Goto, End
<1>1. CASE MigrateLock(c)
  <2>1. 1 .. Build[c] \ applied \in SUBSET Nat
        OBVIOUS
  <2>2. tx'[c] = [tx[c] EXCEPT !.pending = 1 .. Build[c] \ applied] /\ at'[c] = "migrating"
        BY <1>1, TxFields DEF MigrateLock, Tx
  <2>3. [tx[c] EXCEPT !.pending = 1 .. Build[c] \ applied] \in Tx
        BY <2>1, TxFields
  <2> QED BY <2>2, <2>3, EndStep
<1>2. CASE MigrateCommit(c)
  <2>1. tx'[c] = NoTx /\ at'[c] \in {"ready", "failed", "duplicate"}
        BY <1>2 DEF MigrateCommit, Answered
  <2> QED BY <2>1, NoTxType, EndStep
<1>3. ASSUME NEW e \in Emails, UpsertAccount(c, e)
      PROVE  CommandTypes'
  <2>1. tx'[c] = [tx[c] EXCEPT !.email = e] /\ at'[c] = "address"
        BY <1>3, TxFields DEF UpsertAccount, Tx
  <2>2. tx'[c].email = e /\ e # None
        BY <2>1, TxFields DEF Tx
  <2>3. [tx[c] EXCEPT !.email = e] \in Tx
        BY TxFields DEF Tx
  <2> QED BY <2>1, <2>2, <2>3, CommandStep
<1>4. CASE NextAddress(c)
  <2>1. \/ tx'[c] = [tx[c] EXCEPT !.ip = ipSeq] /\ at'[c] = "insert"
        \/ tx'[c] = NoTx /\ at'[c] = "failed"
        BY <1>4 DEF NextAddress
  <2>2. CASE tx'[c] = [tx[c] EXCEPT !.ip = ipSeq] /\ at'[c] = "insert"
    <3>1. tx[c].email # None /\ tx'[c].email = tx[c].email
          BY <1>4, <2>2, TxFields DEF NextAddress, Tx
    <3>2. [tx[c] EXCEPT !.ip = ipSeq] \in Tx
          BY TxFields DEF Tx
    <3> QED BY <2>2, <3>1, <3>2, CommandStep
  <2> QED BY <2>1, <2>2, NoTxType, EndStep
<1>5. ASSUME NEW l \in Labels, LabelTaken(c, l)
      PROVE  CommandTypes'
  <2>1. \/ tx'[c] = [tx[c] EXCEPT !.tries = @ + 1] /\ at'[c] = "insert"
        \/ tx'[c] = NoTx /\ at'[c] = "failed"
        BY <1>5 DEF LabelTaken
  <2>2. CASE tx'[c] = [tx[c] EXCEPT !.tries = @ + 1] /\ at'[c] = "insert"
    <3>1. tx[c].email # None /\ tx'[c].email = tx[c].email
          BY <1>5, <2>2, TxFields DEF LabelTaken, Tx
    <3> QED BY <2>2, <3>1, TxFields, CommandStep
  <2> QED BY <2>1, <2>2, NoTxType, EndStep
<1>6. ASSUME NEW l \in Labels, InsertTunnel(c, l)
      PROVE  CommandTypes'
  <2>1. \/ tx'[c] = [tx[c] EXCEPT !.label = l] /\ at'[c] = "token"
        \/ tx'[c] = NoTx /\ at'[c] = "duplicate"
        BY <1>6 DEF InsertTunnel
  <2>2. CASE tx'[c] = [tx[c] EXCEPT !.label = l] /\ at'[c] = "token"
    <3>1. tx[c].email # None /\ tx'[c].email = tx[c].email /\ tx'[c].label = l
          BY <1>6, <2>2, TxFields DEF InsertTunnel, Tx
    <3>2. [tx[c] EXCEPT !.label = l] \in Tx
          BY TxFields DEF Tx
    <3> QED BY <2>2, <3>1, <3>2, CommandStep
  <2> QED BY <2>1, <2>2, NoTxType, EndStep
<1>7. CASE CommitTunnel(c)
  <2>1. {tx[c].label} \in SUBSET Labels
        BY <1>7, TxFields DEF CommitTunnel, Tx
  <2> QED BY <1>7, <2>1, ShowTypes, EndStep DEF CommitTunnel
<1>8. ASSUME NEW row \in tokens, FindToken(c, row)
      PROVE  CommandTypes'
  <2>1. tx'[c] = [tx[c] EXCEPT !.row = row] /\ at'[c] = "delete" /\ row \in Token
        BY <1>8 DEF FindToken
  <2>2. tx'[c].row = row /\ row # None
        BY <2>1, TxFields DEF Tx
  <2>3. row \in Token
        BY <2>1
  <2>4. [tx[c] EXCEPT !.row = row] \in Tx
        BY <2>3, TxFields
  <2> QED BY <2>1, <2>2, <2>4, CommandStep
<1>9. CASE DeleteToken(c)
  <2>1. \/ tx'[c] = tx[c] /\ at'[c] = "newtoken" /\ tx[c].row # None
        \/ tx'[c] = NoTx /\ at'[c] = "failed"
        BY <1>9 DEF DeleteToken
  <2> QED BY <2>1, TxFields, NoTxType, CommandStep
<1>10. CASE CommitRotation(c)
       BY <1>10, ShowTypes, EndStep DEF CommitRotation
<1>11. CASE \/ Serve(c) \/ CommandFails(c)
            \/ \E name \in NodeNames : CreateNode(c, name)
  <2>1. tx'[c] = NoTx /\ at'[c] \in {"done", "failed"}
        BY <1>11 DEF Serve, CommandFails, CreateNode, Answered
  <2> QED BY <2>1, NoTxType, EndStep
<1>12. CASE ListTunnels(c)
  <2>1. {t.label : t \in tunnels} \in SUBSET Labels
        BY DEF Tunnel
  <2>2. tx'[c] \in Tx /\ at'[c] = "lookup"
        BY <1>12, <2>1, TodoType, TxFields DEF ListTunnels
  <2> QED BY <2>2, EndStep
<1>13. ASSUME NEW n \in DnsNames, LookupCNAME(c, n) \/ PostCNAME(c, n)
       PROVE  CommandTypes'
  <2>1. tx'[c] \in {NoTx, tx[c], [tx[c] EXCEPT !.todo = @ \ {n}]}
        BY <1>13 DEF LookupCNAME, PostCNAME, Ensured
  <2>2. at'[c] \in {"lookup", "write", "done", "failed"}
        BY <1>13 DEF LookupCNAME, PostCNAME, Ensured
  <2>3. [tx[c] EXCEPT !.todo = @ \ {n}] \in Tx
        BY TxFields DEF Tx
  <2> QED BY <2>1, <2>2, <2>3, TxFields, NoTxType, EndStep
<1> QED BY <1>1, <1>2, <1>3, <1>4, <1>5, <1>6, <1>7, <1>8, <1>9, <1>10, <1>11,
           <1>12, <1>13 DEF Step, Command

LEMMA TypeStep == TypeOK /\ [Next]_vars => TypeOK'
<1> SUFFICES ASSUME TypeOK, [Next]_vars PROVE TypeOK'
    OBVIOUS
<1> USE DEF tables, dns, history
<1>1. CASE UNCHANGED vars
      BY <1>1 DEF vars, TypeOK
<1>2. ASSUME NEW c \in Commands, Step(c)
      PROVE  TypeOK'
  <2>1. CommandTypes'
        BY <1>2, CommandTypesStep
  <2>2. CASE \/ MigrateLock(c) \/ DeleteToken(c) \/ Serve(c) \/ ListTunnels(c)
             \/ \E e \in Emails : UpsertAccount(c, e)
             \/ \E l \in Labels : LabelTaken(c, l) \/ InsertTunnel(c, l)
             \/ \E row \in tokens : FindToken(c, row)
             \/ CommandFails(c)
    <3>1. Untouched
          BY <2>2 DEF MigrateLock, DeleteToken, Serve, ListTunnels, UpsertAccount,
                      LabelTaken, InsertTunnel, FindToken, CommandFails, Untouched
    <3> QED BY <2>1, <3>1, UntouchedTypes
  <2>3. CASE MigrateCommit(c)
    <3>1. tx[c].pending \subseteq Nat
          BY TxFields DEF Tx
    <3>2. applied' \subseteq Nat
          BY <2>3, <3>1 DEF MigrateCommit, TypeOK
    <3>3. failures' \in 0 .. MaxFailures
          BY <2>3, BoundsAssumption DEF MigrateCommit, Answered, Fails, TypeOK
    <3> QED BY <2>1, <2>3, <3>2, <3>3 DEF MigrateCommit, TypeOK, CommandTypes
  <2>4. CASE NextAddress(c)
        BY <2>1, <2>4 DEF NextAddress, TypeOK, CommandTypes
  <2>5. CASE CommitTunnel(c)
    <3>1. tx[c].email \in Emails /\ tx[c].label \in Labels /\ tx[c].ip \in Nat
          BY <2>5, TxFields DEF CommitTunnel, TypeOK, Tx
    <3>2. tunnels' \subseteq Tunnel
          BY <2>5, <3>1 DEF CommitTunnel, TypeOK, Tunnel
    <3>3. tokens' \subseteq Token
          BY <2>5 DEF CommitTunnel, TypeOK, Token
    <3>4. printed' \subseteq Commands /\ failures' \in 0 .. MaxFailures
          BY <2>5, <3>1, ShowTypes DEF CommitTunnel
    <3> QED BY <2>1, <2>5, <3>1, <3>2, <3>3, <3>4 DEF CommitTunnel, TypeOK, CommandTypes
  <2>6. CASE CommitRotation(c)
    <3>1. tx[c].row \in Token
          BY <2>6, TxFields DEF CommitRotation, TypeOK, Tx
    <3>2. tokens' \subseteq Token /\ replaced' \subseteq Commands
          BY <2>6, <3>1 DEF CommitRotation, TypeOK, Token
    <3>3. printed' \subseteq Commands /\ failures' \in 0 .. MaxFailures
          BY <2>6, ShowTypes DEF CommitRotation
    <3> QED BY <2>1, <2>6, <3>2, <3>3 DEF CommitRotation, TypeOK, CommandTypes
  <2>7. ASSUME NEW name \in NodeNames, CreateNode(c, name)
        PROVE  TypeOK'
    <3>1. gwSeq' \in 1 .. MaxGw + 1
          BY <2>7 DEF CreateNode, TypeOK
    <3>2. nodes' \subseteq [name : NodeNames, gw : 1 .. MaxGw]
          BY <2>7 DEF CreateNode, TypeOK
    <3>3. failures' \in 0 .. MaxFailures
          BY <2>7, BoundsAssumption DEF CreateNode, Answered, Fails, TypeOK
    <3> QED BY <2>1, <2>7, <3>1, <3>2, <3>3 DEF CreateNode, TypeOK, CommandTypes
  <2>8. ASSUME NEW n \in DnsNames, LookupCNAME(c, n) \/ PostCNAME(c, n)
        PROVE  TypeOK'
    <3>1. cnames' \in [DnsNames -> {"right", "wrong", None}]
          BY <2>8 DEF LookupCNAME, PostCNAME, TypeOK
    <3>2. failures' \in 0 .. MaxFailures
          BY <2>8, BoundsAssumption DEF LookupCNAME, PostCNAME, Fails, TypeOK
    <3> QED BY <2>1, <2>8, <3>1, <3>2 DEF LookupCNAME, PostCNAME, TypeOK, CommandTypes
  <2> QED BY <1>2, <2>2, <2>3, <2>4, <2>5, <2>6, <2>7, <2>8 DEF Step, Command
<1> QED BY <1>1, <1>2 DEF Next, Step

\* The tables, the sequences and what every command keeps in its transaction
\* are of their types, whatever the commands and however they interleave
\* (cmd/wgrelay-api, internal/store).
THEOREM TypeCorrect == Spec => []TypeOK
BY TypeInit, TypeStep, PTL DEF Spec

-----------------------------------------------------------------------------
(* The inductive invariant. *)

\* Before the command has committed anything that bears its name.
Early    == {"open", "migrating", "ready", "address", "insert", "token", "delete",
             "newtoken"}
InFlight == {"insert", "token"}

\* Who migrates is alone, and what it will apply is still missing.
MigrationInv ==
    /\ \A c, d \in Commands : at[c] = "migrating" /\ at[d] = "migrating" => c = d
    /\ \A c \in Commands :
          at[c] = "migrating" => tx[c].pending = 1 .. Build[c] \ applied
    /\ MigratedInOrder

\* An address or a label a transaction has is nobody else's, in the table or in
\* flight, and the sequence has gone past every address.
FlightInv ==
    /\ \A t \in tunnels : t.ip < ipSeq
    /\ \A c \in Commands : at[c] \in InFlight =>
          /\ tx[c].ip \in 1 .. PoolSize - 1 /\ tx[c].ip < ipSeq
          /\ \A t \in tunnels : t.ip # tx[c].ip
    /\ \A c, d \in Commands :
          at[c] \in InFlight /\ at[d] \in InFlight /\ c # d => tx[c].ip # tx[d].ip
    /\ \A c \in Commands : at[c] = "token" => \A t \in tunnels : t.label # tx[c].label
    /\ \A c, d \in Commands :
          at[c] = "token" /\ at[d] = "token" /\ c # d => tx[c].label # tx[d].label

NodeInv == \A n \in nodes : n.gw < gwSeq

\* A command is not the name of a tunnel or a token before its commit.
FreshInv ==
    \A c \in Commands : at[c] \in Early =>
        /\ c \notin printed /\ c \notin replaced
        /\ \A t \in tunnels : t.id # c
        /\ \A r \in tokens : r.token # c

\* A row a rotation has deleted is still there for the others, and is its own.
RotationInv ==
    /\ \A c \in Commands : at[c] = "newtoken" => tx[c].row \in tokens
    /\ \A c, d \in Commands :
          at[c] = "newtoken" /\ at[d] = "newtoken" /\ c # d => tx[c].row # tx[d].row

IInv == /\ TypeOK /\ MigrationInv /\ FlightInv /\ NodeInv /\ FreshInv /\ RotationInv
        /\ TablesAgree /\ PrintedTokensWork /\ NoDuplicateKey

LEMMA InitIInv == Init => IInv
<1> SUFFICES ASSUME Init PROVE IInv
    OBVIOUS
<1>1. TypeOK
      BY TypeInit
<1>2. MigrationInv
      BY DEF Init, MigrationInv, MigratedInOrder
<1>3. FlightInv /\ NodeInv /\ FreshInv /\ RotationInv
      BY DEF Init, FlightInv, NodeInv, FreshInv, RotationInv, InFlight
<1>4. TablesAgree /\ PrintedTokensWork /\ NoDuplicateKey
      BY DEF Init, TablesAgree, AddressesApart, OneTokenEach, PrintedTokensWork,
             NoDuplicateKey
<1> QED BY <1>1, <1>2, <1>3, <1>4 DEF IInv

\* The steps that leave the tables of tunnels, tokens and nodes alone and have
\* no lock or address of their own afterwards.
Quiet(c) ==
    \/ MigrateLock(c) \/ MigrateCommit(c) \/ Serve(c) \/ ListTunnels(c) \/ CommandFails(c)
    \/ \E e \in Emails : UpsertAccount(c, e)
    \/ \E row \in tokens : FindToken(c, row)
    \/ \E n \in DnsNames : LookupCNAME(c, n) \/ PostCNAME(c, n)

LEMMA QuietStep ==
    ASSUME TypeOK, NEW c \in Commands, Quiet(c)
    PROVE  /\ UNCHANGED <<accounts, tunnels, tokens, nodes, ipSeq, gwSeq, history>>
           /\ at'[c] \notin InFlight \cup {"newtoken"}
           /\ at'[c] \in Early => at[c] \in Early
<1> USE DEF TypeOK, Goto, End, tables, dns, InFlight, Early
<1>1. CASE MigrateLock(c) \/ MigrateCommit(c)
      BY <1>1 DEF MigrateLock, MigrateCommit, Answered
<1>2. CASE Serve(c) \/ ListTunnels(c) \/ CommandFails(c)
      BY <1>2 DEF Serve, ListTunnels, CommandFails
<1>3. CASE \E e \in Emails : UpsertAccount(c, e)
      BY <1>3 DEF UpsertAccount
<1>4. CASE \E row \in tokens : FindToken(c, row)
      BY <1>4 DEF FindToken
<1>5. CASE \E n \in DnsNames : LookupCNAME(c, n) \/ PostCNAME(c, n)
      BY <1>5 DEF LookupCNAME, PostCNAME, Ensured
<1> QED BY <1>1, <1>2, <1>3, <1>4, <1>5 DEF Quiet

-----------------------------------------------------------------------------
(* Migrations. *)

LEMMA MigrationStep ==
    ASSUME TypeOK, MigrationInv, NEW c \in Commands, Step(c)
    PROVE  MigrationInv' /\ (MigrateCommit(c) => at'[c] \in {"ready", "failed"})
<1> USE DEF TypeOK, MigrationInv, MigratedInOrder, Phases
<1>1. CASE MigrateLock(c)
  <2>1. /\ \A d \in Commands : at[d] # "migrating"
        /\ at'[c] = "migrating" /\ applied' = applied
        /\ tx'[c].pending = 1 .. Build[c] \ applied
        BY <1>1, TxFields DEF MigrateLock, Goto, Tx, tables
  <2>2. ~MigrateCommit(c)
        BY <1>1 DEF MigrateLock, MigrateCommit, Goto
  <2> QED BY <1>1, <2>1, <2>2, Frame DEF Step
<1>2. CASE MigrateCommit(c)
  <2>1. tx[c].pending = 1 .. Build[c] \ applied
        BY <1>2 DEF MigrateCommit
  <2>2. applied' = applied \cup 1 .. Build[c] /\ at'[c] \in {"ready", "failed"}
        BY <1>2, <2>1 DEF MigrateCommit, Answered, End
  <2>3. \A d \in Commands : at'[d] # "migrating"
        BY <1>2, <2>2, Frame DEF MigrateCommit, Step, Command
  <2>4. \A m \in applied' : 1 .. m \subseteq applied'
    <3>1. \A m \in 1 .. Build[c] : 1 .. m \subseteq 1 .. Build[c]
          OBVIOUS
    <3> QED BY <2>2, <3>1
  <2>5. \A d \in Commands :
           at'[d] \in Phases \ {"open", "migrating", "failed", "duplicate"} =>
               1 .. Build[d] \subseteq applied'
        BY <2>2, Frame
  <2> QED BY <2>2, <2>3, <2>4, <2>5
<1>3. CASE ~MigrateLock(c) /\ ~MigrateCommit(c)
  <2>1. /\ applied' = applied /\ at'[c] # "migrating" /\ at'[c] # "open"
        /\ at'[c] \notin {"failed", "duplicate"} =>
               at[c] \notin {"open", "migrating", "failed", "duplicate"}
        BY <1>3 DEF Step, Command, UpsertAccount, NextAddress, LabelTaken, InsertTunnel,
                    CommitTunnel, ShowAndEnsure, FindToken, DeleteToken, CommitRotation,
                    CreateNode, Answered, Serve, ListTunnels, LookupCNAME, PostCNAME,
                    Ensured, CommandFails, Goto, End, tables
  <2> QED BY <1>3, <2>1, Frame
<1> QED BY <1>1, <1>2, <1>3

-----------------------------------------------------------------------------
(* Addresses, labels and gateways. *)

LEMMA FlightStep ==
    ASSUME TypeOK, FlightInv, NEW c \in Commands, Step(c)
    PROVE  FlightInv'
<1> USE DEF TypeOK, FlightInv, InFlight
<1>1. CASE Quiet(c)
      BY <1>1, Frame, QuietStep
<1>2. CASE NextAddress(c)
  <2>1. /\ tunnels' = tunnels /\ ipSeq' = ipSeq + 1 /\ at'[c] # "token"
        /\ at'[c] = "insert" => tx'[c].ip = ipSeq /\ ipSeq \in 1 .. PoolSize - 1
        BY <1>2, TxFields DEF NextAddress, offsetAddr, Goto, End, Tx, tables
  <2>2. \A t \in tunnels : t.ip \in Nat
        BY DEF Tunnel
  <2>3. \A d \in Commands : tx[d].ip \in Nat
        BY TxFields DEF Tx
  <2> QED BY <2>1, <2>2, <2>3, Frame
<1>3. ASSUME NEW l \in Labels, LabelTaken(c, l)
      PROVE  FlightInv'
  <2>1. /\ tunnels' = tunnels /\ ipSeq' = ipSeq /\ at[c] = "insert" /\ at'[c] # "token"
        /\ at'[c] = "insert" => tx'[c].ip = tx[c].ip
        BY <1>3, TxFields DEF LabelTaken, End, Tx, tables
  <2> QED BY <2>1, Frame
<1>4. ASSUME NEW l \in Labels, InsertTunnel(c, l)
      PROVE  FlightInv'
  <2>1. /\ tunnels' = tunnels /\ ipSeq' = ipSeq /\ at[c] = "insert" /\ at'[c] = "token"
        /\ tx'[c].ip = tx[c].ip /\ tx'[c].label = l
    <3>1. \A t \in tunnels : t.ip # tx[c].ip
          BY <1>4 DEF InsertTunnel
    <3> QED BY <1>4, <3>1, TxFields DEF InsertTunnel, Goto, End, Tx, tables
  <2>2. /\ \A t \in tunnels : t.label # l
        /\ \A d \in Commands \ {c} : at[d] = "token" => tx[d].label # l
        BY <1>4 DEF InsertTunnel, MayInsert
  <2> QED BY <2>1, <2>2, Frame
<1>5. CASE CommitTunnel(c)
  <2>1. /\ at[c] = "token" /\ at'[c] \notin InFlight /\ ipSeq' = ipSeq
        /\ tunnels' = tunnels \cup {[id |-> c, email |-> tx[c].email,
                                     label |-> tx[c].label, ip |-> tx[c].ip]}
        BY <1>5 DEF CommitTunnel, ShowAndEnsure, End
  <2> QED BY <2>1, Frame
<1>6. CASE DeleteToken(c) \/ CommitRotation(c) \/ \E n \in NodeNames : CreateNode(c, n)
  <2>1. tunnels' = tunnels /\ ipSeq' = ipSeq /\ at'[c] \notin InFlight
        BY <1>6 DEF DeleteToken, CommitRotation, ShowAndEnsure, CreateNode, Answered,
                    Goto, End, tables
  <2> QED BY <2>1, Frame
<1> QED BY <1>1, <1>2, <1>3, <1>4, <1>5, <1>6 DEF Step, Command, Quiet

LEMMA NodeStep ==
    ASSUME TypeOK, NodeInv, AddressesApart, NEW c \in Commands, Step(c)
    PROVE  /\ NodeInv'
           /\ \A n, m \in nodes' : n.gw = m.gw \/ n.name = m.name => n = m
<1> USE DEF TypeOK, NodeInv, AddressesApart
<1>1. ASSUME NEW name \in NodeNames, CreateNode(c, name)
      PROVE  /\ NodeInv'
             /\ \A n, m \in nodes' : n.gw = m.gw \/ n.name = m.name => n = m
  <2>1. CASE nodes' = nodes
        BY <1>1, <2>1 DEF CreateNode
  <2>2. CASE nodes' # nodes
        BY <1>1, <2>2 DEF CreateNode
  <2> QED BY <2>1, <2>2
<1>2. CASE ~\E name \in NodeNames : CreateNode(c, name)
  <2>1. nodes' = nodes /\ gwSeq' = gwSeq
        BY <1>2, QuietStep DEF Step, Command, Quiet, NextAddress, LabelTaken, InsertTunnel,
              CommitTunnel, DeleteToken, CommitRotation, tables
  <2> QED BY <2>1
<1> QED BY <1>1, <1>2

-----------------------------------------------------------------------------
(* Tunnels, accounts and tokens. *)

LEMMA FreshStep ==
    ASSUME TypeOK, FreshInv, RotationInv, NEW c \in Commands, Step(c)
    PROVE  FreshInv'
<1> USE DEF TypeOK, FreshInv, Early
<1>1. CASE Quiet(c)
      BY <1>1, Frame, QuietStep DEF history
<1>2. CASE CommitTunnel(c)
  <2>1. /\ at'[c] \notin Early /\ printed' \in {printed, printed \cup {c}}
        /\ UNCHANGED replaced
        /\ \A t \in tunnels' : t \in tunnels \/ t.id = c
        /\ \A r \in tokens' : r \in tokens \/ r.token = c
        BY <1>2 DEF CommitTunnel, ShowAndEnsure, End
  <2> QED BY <2>1, Frame
<1>3. CASE CommitRotation(c)
  <2>1. tx[c].row \in tokens
        BY <1>3 DEF CommitRotation, RotationInv
  <2>2. /\ at'[c] \notin Early /\ printed' \in {printed, printed \cup {c}}
        /\ replaced' = replaced \cup {tx[c].row.token} /\ UNCHANGED tunnels
        /\ \A r \in tokens' : r \in tokens \/ r.token = c
        BY <1>3 DEF CommitRotation, ShowAndEnsure, End
  <2> QED BY <2>1, <2>2, Frame
<1>4. CASE \/ NextAddress(c) \/ DeleteToken(c)
           \/ \E l \in Labels : LabelTaken(c, l) \/ InsertTunnel(c, l)
           \/ \E n \in NodeNames : CreateNode(c, n)
  <2>1. /\ UNCHANGED <<tunnels, tokens, history>>
        /\ at[c] \in Early \/ at'[c] \notin Early
        BY <1>4 DEF NextAddress, DeleteToken, LabelTaken, InsertTunnel, CreateNode, Answered,
                    Goto, End, tables
  <2> QED BY <2>1, Frame DEF history
<1> QED BY <1>1, <1>2, <1>3, <1>4 DEF Step, Command, Quiet

\* The steps that leave tunnels, accounts and tokens alone.
LEMMA TablesKept ==
    ASSUME TypeOK, NEW c \in Commands, Step(c), ~CommitTunnel(c), ~CommitRotation(c)
    PROVE  UNCHANGED <<accounts, tunnels, tokens, history>>
BY QuietStep DEF Step, Command, Quiet, NextAddress, LabelTaken, InsertTunnel, DeleteToken,
                 CreateNode, tables

\* What the two commits do.
NewTunnel(c) == [id |-> c, email |-> tx[c].email, label |-> tx[c].label, ip |-> tx[c].ip]
NewToken(c)  == [tunnel |-> c, token |-> c]
Rotated(c)   == [tunnel |-> tx[c].row.tunnel, token |-> c]

LEMMA TunnelCommitted ==
    ASSUME TypeOK, FreshInv, NEW c \in Commands, CommitTunnel(c)
    PROVE  /\ at[c] = "token" /\ at'[c] \in {"lookup", "done", "failed"} /\ UNCHANGED replaced
           /\ accounts' = accounts \cup {tx[c].email}
           /\ tunnels' = tunnels \cup {NewTunnel(c)} /\ tokens' = tokens \cup {NewToken(c)}
           /\ printed' = printed \/ printed' = printed \cup {c}
           /\ c \notin replaced /\ \A u \in tunnels : u.id # c
           /\ \A s \in tokens : s.token # c
<1>1. at[c] = "token" /\ at[c] \in Early
      BY DEF CommitTunnel, Early
<1> QED BY <1>1 DEF CommitTunnel, ShowAndEnsure, End, FreshInv, NewTunnel, NewToken, TypeOK

LEMMA TokenRotated ==
    ASSUME TypeOK, FreshInv, RotationInv, NEW c \in Commands, CommitRotation(c)
    PROVE  /\ at[c] = "newtoken" /\ at'[c] \in {"lookup", "done", "failed"}
           /\ UNCHANGED <<accounts, tunnels>>
           /\ tokens' = (tokens \ {tx[c].row}) \cup {Rotated(c)}
           /\ replaced' = replaced \cup {tx[c].row.token}
           /\ printed' = printed \/ printed' = printed \cup {c}
           /\ tx[c].row \in tokens
           /\ c \notin replaced /\ \A s \in tokens : s.token # c
<1>1. at[c] = "newtoken" /\ at[c] \in Early
      BY DEF CommitRotation, Early
<1> QED BY <1>1 DEF CommitRotation, ShowAndEnsure, End, FreshInv, RotationInv, Rotated, TypeOK

LEMMA RotationStep ==
    ASSUME TypeOK, FreshInv, RotationInv, NEW c \in Commands, Step(c)
    PROVE  RotationInv'
<1> USE DEF RotationInv
<1>1. CASE CommitTunnel(c)
      BY <1>1, Frame, TunnelCommitted
<1>2. CASE CommitRotation(c)
      BY <1>2, Frame, TokenRotated
<1>3. CASE DeleteToken(c)
  <2>1. /\ tokens' = tokens
        /\ at'[c] = "newtoken" =>
               /\ tx'[c] = tx[c] /\ tx[c].row \in tokens
               /\ \A d \in Commands : at[d] = "newtoken" => tx[d].row # tx[c].row
        BY <1>3 DEF DeleteToken, Goto, End, tables, TypeOK
  <2> QED BY <2>1, Frame
<1>4. CASE ~CommitTunnel(c) /\ ~CommitRotation(c) /\ ~DeleteToken(c)
  <2>1. at'[c] # "newtoken"
        BY <1>4, QuietStep DEF Step, Command, Quiet, NextAddress, LabelTaken, InsertTunnel,
              CreateNode, Answered, Goto, End, TypeOK
  <2>2. tokens' = tokens
        BY <1>4, TablesKept
  <2> QED BY <2>1, <2>2, Frame
<1> QED BY <1>1, <1>2, <1>3, <1>4

LEMMA PrintedStep ==
    ASSUME TypeOK, FreshInv, RotationInv, OneTokenEach, PrintedTokensWork,
           NEW c \in Commands, Step(c)
    PROVE  PrintedTokensWork'
<1> USE DEF PrintedTokensWork
<1>1. CASE CommitTunnel(c)
  <2>1. NewToken(c).token = c /\ NewToken(c) \in tokens'
        BY <1>1, TunnelCommitted DEF NewToken
  <2> QED BY <1>1, <2>1, TunnelCommitted
<1>2. CASE CommitRotation(c)
  <2>1. Rotated(c).token = c /\ Rotated(c) \in tokens'
        BY <1>2, TokenRotated DEF Rotated
  <2>2. \A d \in printed' : d \in replaced' \/ \E s \in tokens' : s.token = d
        BY <1>2, <2>1, TokenRotated
  <2>3. \A s \in tokens' : s.token \notin replaced'
        BY <1>2, <2>1, TokenRotated DEF OneTokenEach
  <2> QED BY <2>2, <2>3
<1>3. CASE ~CommitTunnel(c) /\ ~CommitRotation(c)
      BY <1>3, TablesKept DEF history
<1> QED BY <1>1, <1>2, <1>3

LEMMA AccountStep ==
    ASSUME TypeOK, FreshInv, RotationInv, TablesAgree, NEW c \in Commands, Step(c)
    PROVE  accounts' = {t.email : t \in tunnels'}
<1>1. accounts = {t.email : t \in tunnels}
      BY DEF TablesAgree
<1>2. CASE CommitTunnel(c)
  <2>1. NewTunnel(c).email = tx[c].email
        BY DEF NewTunnel
  <2>2. /\ accounts' = accounts \cup {tx[c].email}
        /\ tunnels' = tunnels \cup {NewTunnel(c)}
        BY <1>2, TunnelCommitted
  <2> QED BY <1>1, <2>1, <2>2
<1>3. CASE ~CommitTunnel(c)
  <2>1. accounts' = accounts /\ tunnels' = tunnels
        BY <1>3, TablesKept, TokenRotated
  <2> QED BY <1>1, <2>1
<1> QED BY <1>2, <1>3

LEMMA TokenStep ==
    ASSUME TypeOK, FreshInv, RotationInv, OneTokenEach, NEW c \in Commands, Step(c)
    PROVE  OneTokenEach'
<1>1. {r.tunnel : r \in tokens} = {t.id : t \in tunnels}
      BY DEF OneTokenEach
<1>2. \A r, s \in tokens : r.tunnel = s.tunnel \/ r.token = s.token => r = s
      BY DEF OneTokenEach
<1>3. CASE CommitTunnel(c)
  <2>1. NewTunnel(c).id = c /\ NewToken(c).tunnel = c /\ NewToken(c).token = c
        BY DEF NewTunnel, NewToken
  <2>2. tunnels' = tunnels \cup {NewTunnel(c)} /\ tokens' = tokens \cup {NewToken(c)}
        BY <1>3, TunnelCommitted
  <2>3. {r.tunnel : r \in tokens'} = {t.id : t \in tunnels'}
        BY <1>1, <2>1, <2>2
  <2>4. \A s \in tokens : s.token # c /\ s.tunnel # c
        BY <1>1, <1>3, TunnelCommitted
  <2>5. \A r, s \in tokens' : r.tunnel = s.tunnel \/ r.token = s.token => r = s
        BY <1>2, <2>1, <2>2, <2>4
  <2> QED BY <2>3, <2>5 DEF OneTokenEach
<1>4. CASE CommitRotation(c)
  <2>1. Rotated(c).tunnel = tx[c].row.tunnel /\ Rotated(c).token = c
        BY DEF Rotated
  <2>2. /\ tokens' = (tokens \ {tx[c].row}) \cup {Rotated(c)} /\ tx[c].row \in tokens
        /\ tunnels' = tunnels /\ \A s \in tokens : s.token # c
        BY <1>4, TokenRotated
  <2>3. {r.tunnel : r \in tokens'} = {r.tunnel : r \in tokens}
        BY <2>1, <2>2
  <2>4. \A r, s \in tokens' : r.tunnel = s.tunnel \/ r.token = s.token => r = s
        BY <1>2, <2>1, <2>2
  <2> QED BY <1>1, <2>2, <2>3, <2>4 DEF OneTokenEach
<1>5. CASE ~CommitTunnel(c) /\ ~CommitRotation(c)
  <2>1. tokens' = tokens /\ tunnels' = tunnels
        BY <1>5, TablesKept
  <2> QED BY <1>1, <1>2, <2>1 DEF OneTokenEach
<1> QED BY <1>3, <1>4, <1>5

LEMMA AddressesStep ==
    ASSUME TypeOK, FlightInv, NodeInv, TablesAgree, NEW c \in Commands, Step(c)
    PROVE  AddressesApart'
<1> USE DEF TypeOK, TablesAgree, AddressesApart
<1>1. \A n, m \in nodes' : n.gw = m.gw \/ n.name = m.name => n = m
      BY NodeStep
<1>2. CASE CommitTunnel(c)
  <2>1. /\ at[c] = "token"
        /\ tunnels' = tunnels \cup {[id |-> c, email |-> tx[c].email,
                                     label |-> tx[c].label, ip |-> tx[c].ip]}
        BY <1>2 DEF CommitTunnel
  <2>2. /\ tx[c].ip \in 1 .. PoolSize - 1
        /\ \A t \in tunnels : t.ip # tx[c].ip /\ t.label # tx[c].label
        BY <2>1 DEF FlightInv, InFlight
  <2> QED BY <1>1, <2>1, <2>2
<1>3. CASE ~CommitTunnel(c)
  <2>1. tunnels' = tunnels
        BY <1>3, QuietStep DEF Step, Command, Quiet, NextAddress, LabelTaken, InsertTunnel,
              DeleteToken, CommitRotation, CreateNode, tables
  <2> QED BY <1>1, <2>1
<1> QED BY <1>2, <1>3

LEMMA DuplicateStep ==
    ASSUME TypeOK, MigrationInv, FlightInv, NoDuplicateKey, NEW c \in Commands, Step(c)
    PROVE  NoDuplicateKey'
<1> USE DEF TypeOK, NoDuplicateKey
<1>1. CASE MigrateCommit(c)
      BY <1>1, MigrationStep, Frame
<1>2. ASSUME NEW l \in Labels, InsertTunnel(c, l)
      PROVE  NoDuplicateKey'
  <2>1. \A t \in tunnels : t.ip # tx[c].ip
        BY <1>2 DEF InsertTunnel, FlightInv, InFlight
  <2>2. at'[c] = "token"
        BY <1>2, <2>1 DEF InsertTunnel, Goto
  <2> QED BY <2>2, Frame
<1>3. CASE ~MigrateCommit(c) /\ ~\E l \in Labels : InsertTunnel(c, l)
  <2>1. at'[c] # "duplicate"
        BY <1>3 DEF Step, Command, MigrateLock, UpsertAccount, NextAddress, LabelTaken,
              CommitTunnel, ShowAndEnsure, FindToken, DeleteToken, CommitRotation, CreateNode,
              Answered, Serve, ListTunnels, LookupCNAME, PostCNAME, Ensured, CommandFails, Goto, End
  <2> QED BY <2>1, Frame
<1> QED BY <1>1, <1>2, <1>3

-----------------------------------------------------------------------------

LEMMA NextIInv == IInv /\ [Next]_vars => IInv'
<1> SUFFICES ASSUME IInv, [Next]_vars PROVE IInv'
    OBVIOUS
<1>1. TypeOK'
      BY TypeStep DEF IInv
<1>2. CASE UNCHANGED vars
  <2>1. MigrationInv' /\ FlightInv' /\ NodeInv'
        BY <1>2 DEF vars, tables, IInv, MigrationInv, MigratedInOrder, FlightInv, NodeInv
  <2>2. FreshInv' /\ RotationInv'
        BY <1>2 DEF vars, tables, history, IInv, FreshInv, RotationInv
  <2>3. TablesAgree' /\ PrintedTokensWork' /\ NoDuplicateKey'
        BY <1>2 DEF vars, tables, history, IInv, TablesAgree, AddressesApart, OneTokenEach,
                    PrintedTokensWork, NoDuplicateKey
  <2> QED BY <1>1, <2>1, <2>2, <2>3 DEF IInv
<1>3. ASSUME NEW c \in Commands, Step(c)
      PROVE  IInv'
  <2>1. MigrationInv'
        BY <1>3, MigrationStep DEF IInv
  <2>2. FlightInv'
        BY <1>3, FlightStep DEF IInv
  <2>3. NodeInv' /\ AddressesApart'
        BY <1>3, NodeStep, AddressesStep DEF IInv, TablesAgree
  <2>4. FreshInv'
        BY <1>3, FreshStep DEF IInv
  <2>5. /\ RotationInv' /\ PrintedTokensWork' /\ OneTokenEach'
        /\ accounts' = {t.email : t \in tunnels'}
        BY <1>3, RotationStep, PrintedStep, TokenStep, AccountStep DEF IInv, TablesAgree
  <2>6. NoDuplicateKey'
        BY <1>3, DuplicateStep DEF IInv
  <2>7. TablesAgree'
        BY <2>3, <2>5 DEF TablesAgree
  <2> QED BY <1>1, <2>1, <2>2, <2>3, <2>4, <2>5, <2>6, <2>7 DEF IInv
<1> QED BY <1>2, <1>3 DEF Next, Step

LEMMA Invariance == Spec => []IInv
BY InitIInv, NextIInv, PTL DEF Spec

\* However many tunnels are created, tokens rotated and nodes added side by
\* side, and whatever fails between two statements, the committed tables agree
\* (CreateTunnel, RotateToken, CreateNode).
THEOREM TablesAlwaysAgree == Spec => []TablesAgree
<1>1. IInv => TablesAgree
      BY DEF IInv
<1> QED BY <1>1, Invariance, PTL

\* No command ends over a unique key: the advisory lock of Migrate and the
\* sequence of the addresses keep every INSERT clear of the others.
THEOREM KeysNeverCollide == Spec => []NoDuplicateKey
<1>1. IInv => NoDuplicateKey
      BY DEF IInv
<1> QED BY <1>1, Invariance, PTL

\* Migrations of any mix of builds leave the schema without a gap, and a
\* command finds its own applied (Migrate, main).
THEOREM SchemaIsComplete == Spec => []MigratedInOrder
<1>1. IInv => MigratedInOrder
      BY DEF IInv, MigrationInv
<1> QED BY <1>1, Invariance, PTL

\* A token that was shown works until a rotation replaces it, and never after
\* (tunnelCreate, tunnelRotate, RotateToken).
THEOREM ShownTokensWork == Spec => []PrintedTokensWork
<1>1. IInv => PrintedTokensWork
      BY DEF IInv
<1> QED BY <1>1, Invariance, PTL

-----------------------------------------------------------------------------
(* DNS records. *)

Kinds == {"apex", "star"}

\* What is no longer to do is right, and a command that is done has nothing
\* left to do.
Ensures(c) ==
    /\ at[c] \in {"lookup", "write", "done"} =>
          \A l \in tx[c].domains, kind \in Kinds :
              <<l, kind>> \in tx[c].todo \/ cnames[<<l, kind>>] = "right"
    /\ at[c] = "done" => tx[c].todo = {}

EnsureInv == provider => \A c \in Commands : Ensures(c)

\* No command makes a record wrong.
LEMMA RecordsStayRight ==
    ASSUME TypeOK, NEW c \in Commands, Step(c)
    PROVE  /\ UNCHANGED provider
           /\ \A n \in DnsNames : cnames[n] = "right" => cnames'[n] = "right"
<1>1. CASE \E n \in DnsNames : LookupCNAME(c, n) \/ PostCNAME(c, n)
      BY <1>1 DEF LookupCNAME, PostCNAME, TypeOK
<1>2. CASE ~\E n \in DnsNames : LookupCNAME(c, n) \/ PostCNAME(c, n)
      BY <1>2 DEF Step, Command, MigrateLock, MigrateCommit, UpsertAccount, NextAddress,
            LabelTaken, InsertTunnel, CommitTunnel, FindToken, DeleteToken, CommitRotation,
            CreateNode, Serve, ListTunnels, CommandFails, dns
<1> QED BY <1>1, <1>2

LEMMA EnsureOwn ==
    ASSUME TypeOK, provider, NEW c \in Commands, Ensures(c), Step(c)
    PROVE  Ensures(c)'
<1> USE DEF Ensures
<1>1. tx[c].domains \subseteq Labels
      BY TxFields DEF Tx
<1>2. \A l \in Labels, kind \in Kinds :
         cnames[<<l, kind>>] = "right" => cnames'[<<l, kind>>] = "right"
      BY RecordsStayRight DEF DnsNames, Kinds
<1>4. ASSUME at'[c] \in {"failed", "done"}, tx'[c] = NoTx
      PROVE  Ensures(c)'
      BY <1>4 DEF NoTx
<1>5. ASSUME NEW ls, tx'[c] = [NoTx EXCEPT !.domains = ls, !.todo = ls \X {"apex", "star"}],
             at'[c] = IF ls # {} THEN "lookup" ELSE "done"
      PROVE  Ensures(c)'
  <2>1. tx'[c].domains = ls /\ tx'[c].todo = ls \X Kinds
        BY <1>5 DEF NoTx, Kinds
  <2> QED BY <1>5, <2>1
<1>6. ASSUME NEW ls, ShowAndEnsure(c, ls)
      PROVE  Ensures(c)'
  <2>1. CASE at'[c] = "failed" /\ tx'[c] = NoTx
        BY <1>4, <2>1
  <2>2. CASE /\ tx'[c] = [NoTx EXCEPT !.domains = ls, !.todo = ls \X {"apex", "star"}]
             /\ at'[c] = IF ls # {} THEN "lookup" ELSE "done"
        BY <1>5, <2>2
  <2> QED BY <1>6, <2>1, <2>2 DEF ShowAndEnsure, End, TypeOK
<1>7. CASE CommitTunnel(c) \/ CommitRotation(c)
      BY <1>6, <1>7 DEF CommitTunnel, CommitRotation
<1>8. CASE ListTunnels(c)
  <2> DEFINE ls == {t.label : t \in tunnels}
  <2>1. tx' = [tx EXCEPT ![c].domains = ls, ![c].todo = ls \X Kinds] /\ at'[c] = "lookup"
        BY <1>8 DEF ListTunnels, Goto, TypeOK, Kinds
  <2> HIDE DEF ls
  <2>2. tx'[c].todo = ls \X Kinds /\ tx'[c].domains = ls
        BY <2>1, TxFields DEF TypeOK, Tx
  <2> QED BY <2>1, <2>2
<1>9. ASSUME NEW n \in DnsNames, LookupCNAME(c, n) \/ PostCNAME(c, n)
      PROVE  Ensures(c)'
  <2>1. at[c] \in {"lookup", "write"}
        BY <1>9 DEF LookupCNAME, PostCNAME
  <2>2. CASE Ensured(c, n) /\ cnames' = [cnames EXCEPT ![n] = "right"]
    <3>1. /\ tx'[c].domains = tx[c].domains /\ tx'[c].todo = tx[c].todo \ {n}
          /\ at'[c] = "done" => tx[c].todo = {n}
          BY <2>2, TxFields DEF Ensured, TypeOK, Tx
    <3>2. cnames'[n] = "right"
          BY <2>2 DEF TypeOK
    <3> QED BY <1>1, <1>2, <2>1, <3>1, <3>2
  <2>3. CASE at'[c] = "write" /\ tx' = tx
        BY <1>1, <1>2, <2>1, <2>3
  <2>4. CASE at'[c] = "failed" /\ tx'[c] = NoTx
        BY <1>4, <2>4
  <2> QED BY <1>9, <2>2, <2>3, <2>4 DEF LookupCNAME, PostCNAME, Goto, End, TypeOK
<1>10. CASE Serve(c) \/ CommandFails(c) \/ \E name \in NodeNames : CreateNode(c, name)
       BY <1>4, <1>10 DEF Serve, CommandFails, CreateNode, Answered, End, TypeOK
<1>11. CASE \/ MigrateLock(c) \/ MigrateCommit(c) \/ NextAddress(c) \/ DeleteToken(c)
            \/ \E e \in Emails : UpsertAccount(c, e)
            \/ \E l \in Labels : LabelTaken(c, l) \/ InsertTunnel(c, l)
            \/ \E row \in tokens : FindToken(c, row)
  <2>1. at'[c] \notin {"lookup", "write", "done"}
        BY <1>11 DEF MigrateLock, MigrateCommit, NextAddress, DeleteToken, UpsertAccount,
                     LabelTaken, InsertTunnel, FindToken, Answered, Goto, End, TypeOK
  <2> QED BY <2>1
<1> QED BY <1>7, <1>8, <1>9, <1>10, <1>11 DEF Step, Command

LEMMA EnsureOthers ==
    ASSUME TypeOK, NEW c \in Commands, Step(c), NEW d \in Commands \ {c}, Ensures(d)
    PROVE  Ensures(d)'
<1>1. tx[d].domains \subseteq Labels
      BY TxFields DEF Tx
<1>2. \A l \in Labels, kind \in Kinds :
         cnames[<<l, kind>>] = "right" => cnames'[<<l, kind>>] = "right"
      BY RecordsStayRight DEF DnsNames, Kinds
<1>3. at'[d] = at[d] /\ tx'[d] = tx[d]
      BY Frame
<1> QED BY <1>1, <1>2, <1>3 DEF Ensures

\* A command that ends well leaves its names right, and no other command
\* takes them away: not one that fails, nor one that lost the race to create
\* the same record (ensureDNS, EnsureCNAME).
THEOREM EnsuredNamesStay == Spec => []EnsuredNamesResolve
<1>1. Init => EnsureInv
      BY DEF Init, EnsureInv, Ensures
<1>2. TypeOK /\ EnsureInv /\ [Next]_vars => EnsureInv'
  <2> SUFFICES ASSUME TypeOK, EnsureInv, [Next]_vars PROVE EnsureInv'
      OBVIOUS
  <2>1. CASE UNCHANGED vars
        BY <2>1 DEF vars, dns, EnsureInv, Ensures
  <2>2. ASSUME NEW c \in Commands, Step(c)
        PROVE  EnsureInv'
        BY <2>2, EnsureOwn, EnsureOthers, RecordsStayRight DEF EnsureInv
  <2> QED BY <2>1, <2>2 DEF Next, Step
<1>3. EnsureInv => EnsuredNamesResolve
      BY DEF EnsureInv, Ensures, EnsuredNamesResolve, Kinds
<1> QED BY <1>1, <1>2, <1>3, TypeCorrect, PTL DEF Spec
=============================================================================
