------------------------ MODULE ConnectionInterface ------------------------
(***************************************************************************)
(* The Python server connection_interface.py between the simulation and    *)
(* the blockchain.  Every car and every user has a connection, and the     *)
(* server a thread for each of them (clientthread).  A car's thread        *)
(* deploys the car's contract; a user's thread turns each message it       *)
(* understands into a call of the contract of the car named in it, and     *)
(* waits until the call is mined (exec_query, query.js).                   *)
(*                                                                         *)
(* The users' messages are those of RideLog.  A message, the "Creation"    *)
(* message that each connection starts with included, travels as two       *)
(* fragments: recv returns some of those that have arrived and the regular *)
(* expression of dataProcessing finds the first message both of whose      *)
(* fragments are in that chunk.                                            *)
(*                                                                         *)
(* External parts: the docker containers, in which a script either gives   *)
(* its result or fails; web3, which gives up waiting after a while; and    *)
(* geth, which mines the pending calls in any order that keeps the order   *)
(* of each account.                                                        *)
(***************************************************************************)
EXTENDS RideLog, Integers, FiniteSets

AC == INSTANCE AskingCar

CONSTANTS
    NbAccounts,   \* accounts of the genesis block (10 in the code)
    MaxChunk,     \* fragments that one recv returns at most (HEADER bytes)
    ShortReads,   \* may recv return less than has arrived?
    MayFail,      \* may a script fail?
    MayTimeOut,   \* may web3 give up waiting for a call that is pending?
    AwaitCars,    \* do the users start when the contracts have been deployed?
    Ids,          \* bound: transactions are numbered from 0 .. Ids - 1
    MaxMessages   \* bound: messages of each user

ASSUME ServerConstants ==
    /\ IsFiniteSet(Users) /\ Users # {} /\ Users = 0 .. Cardinality(Users) - 1
    /\ IsFiniteSet(Cars) /\ Cars # {} /\ Cars = 0 .. Cardinality(Cars) - 1
    /\ NbAccounts \in Nat \ {0} /\ MaxChunk \in Nat \ {0, 1}
    /\ {ShortReads, MayFail, MayTimeOut, AwaitCars} \subseteq BOOLEAN
    /\ Ids \in Nat /\ MaxMessages \in Nat

VARIABLES
    read,               \* fragments each user's thread has received
    pc,                 \* where each user's thread is: "recv", "query" or "dead"
    handled,            \* the messages each user's thread has understood
    dockerEnvUserList,  \* the users whose environments have been created
    carPc,              \* where each car's thread is: ... "deploy" ... "idle"
    dockerEnvCarList,   \* the cars whose contracts are deployed, as they were
    pool,               \* calls submitted to geth and not yet mined
    chain,              \* calls mined
    contract            \* the storage of each car's contract

serverVars == <<read, pc, handled, dockerEnvUserList, carPc, dockerEnvCarList>>
ledgerVars == <<pool, chain, contract>>
allVars    == <<log, serverVars, ledgerVars>>

ServerInit ==
    /\ Init
    /\ read = [u \in Users |-> 0]
    /\ pc = [u \in Users |-> "recv"]
    /\ handled = [u \in Users |-> <<>>]
    /\ dockerEnvUserList = <<>>
    /\ carPc = [c \in Cars |-> "recv"]
    /\ dockerEnvCarList = <<>>
    /\ pool = <<>> /\ chain = <<>>
    /\ contract = [c \in Cars |-> AC!NewContract]

-----------------------------------------------------------------------------
(* The simulation: a user sends a message. *)
Written(u) == 2 * (Len(log[u]) + 1)

Listed(list, x) == \E i \in DOMAIN list : list[i] = x

MaySend(u) ==
    /\ Len(log[u]) < MaxMessages
    /\ AwaitCars => \A c \in Cars : Listed(dockerEnvCarList, c)

UserSends(u) ==
    /\ MaySend(u)
    /\ \/ End(u)
       \/ \E t \in 0 .. Ids - 1, c \in Cars :
             Announce(u, t, c) /\ (Open(u) \/ \A s \in 0 .. t - 1 : ~Unused(s))
    /\ UNCHANGED <<serverVars, ledgerVars>>

-----------------------------------------------------------------------------
(* The thread of a car. *)

\* The Creation message arrives and createEnvCar starts to deploy.
CarCreation(c) ==
    /\ carPc[c] = "recv"
    /\ carPc' = [carPc EXCEPT ![c] = "deploy"]
    /\ UNCHANGED <<log, read, pc, handled, dockerEnvUserList, dockerEnvCarList, ledgerVars>>

\* The Creation message arrives in two chunks, neither of which has words.
CarCreationTorn(c) ==
    /\ ShortReads /\ carPc[c] = "recv"
    /\ carPc' = [carPc EXCEPT ![c] = "idle"]
    /\ UNCHANGED <<log, read, pc, handled, dockerEnvUserList, dockerEnvCarList, ledgerVars>>

\* Mutant: the list is kept in the order of the cars.
CreateEnvCarSorted(c) ==
    /\ carPc[c] = "deploy"
    /\ carPc' = [carPc EXCEPT ![c] = "idle"]
    /\ dockerEnvCarList' = SelectSeq(dockerEnvCarList, LAMBDA d : d < c) \o <<c>>
                           \o SelectSeq(dockerEnvCarList, LAMBDA d : d > c)
    /\ UNCHANGED <<log, read, pc, handled, dockerEnvUserList, ledgerVars>>

\* The contract is mined: the environment is appended to the list, whatever
\* the number of the car.
CreateEnvCar(c) ==
    /\ carPc[c] = "deploy"
    /\ carPc' = [carPc EXCEPT ![c] = "idle"]
    /\ dockerEnvCarList' = Append(dockerEnvCarList, c)
    /\ UNCHANGED <<log, read, pc, handled, dockerEnvUserList, ledgerVars>>

\* The script gives no address: extract_contract_address raises.
CreateEnvCarFails(c) ==
    /\ MayFail /\ carPc[c] = "deploy"
    /\ carPc' = [carPc EXCEPT ![c] = "dead"]
    /\ UNCHANGED <<log, read, pc, handled, dockerEnvUserList, dockerEnvCarList, ledgerVars>>

-----------------------------------------------------------------------------
(* The thread of a user. *)

\* Mutant: recv waits for HEADER bytes, and pads what has not arrived.
ChunksPadded(u) == {MaxChunk}

\* recv: how many fragments the next chunk may have.
Chunks(u) ==
    LET arrived == Written(u) - read[u]
        most    == IF arrived < MaxChunk THEN arrived ELSE MaxChunk
    IN  {n \in 1 .. most : ShortReads \/ n = most}

\* Mutant: a message needs something after it.
HasWordsBeforeMore(u, n) == 2 * ((read[u] + 1) \div 2) + 2 < read[u] + n

\* dataProcessing: the first message that is whole in a chunk of n fragments,
\* if there is one.  Message 0 is the Creation message.
FirstWhole(u)   == (read[u] + 1) \div 2
HasWords(u, n)  == 2 * FirstWhole(u) + 2 <= read[u] + n

\* A chunk without words is dropped.
RecvNothing(u) ==
    /\ pc[u] = "recv"
    /\ \E n \in Chunks(u) :
          ~HasWords(u, n) /\ read' = [read EXCEPT ![u] = @ + n]
    /\ UNCHANGED <<log, pc, handled, dockerEnvUserList, carPc, dockerEnvCarList, ledgerVars>>

\* A chunk with words: the first message is handled, the rest is dropped.
Recv(u) ==
    /\ pc[u] = "recv"
    /\ \E n \in Chunks(u) :
          HasWords(u, n) /\ read' = [read EXCEPT ![u] = @ + n]
    /\ handled' = [handled EXCEPT ![u] = Append(@, FirstWhole(u))]

\* createEnvUser.  The environments of all users are the same container.
CreateEnvUser(u) ==
    /\ Recv(u) /\ FirstWhole(u) = 0
    /\ dockerEnvUserList' = Append(dockerEnvUserList, u)
    /\ UNCHANGED <<log, pc, carPc, dockerEnvCarList, ledgerVars>>

\* Mutant: the numbers are taken to start at 1.
InRangeFromOne(u, m) == m.car + 1 < Len(dockerEnvCarList) /\ u + 1 < Len(dockerEnvUserList)

\* The lists are indexed with the numbers of the car and of the user.
InRange(u, m) == m.car < Len(dockerEnvCarList) /\ u < Len(dockerEnvUserList)

ContractAddress(car) == dockerEnvCarList[car + 1]

\* Mutant: the account is chosen with the wrong field of info.
AccountOfCar(u, m) == IF m.kind = "Transaction" THEN m.car % NbAccounts ELSE 0

\* query.js calls from the user's account, query_endHour.js from the first.
Account(u, m) == IF m.kind = "Transaction" THEN u % NbAccounts ELSE 0

\* Mutant: the thread does not wait for the receipt.
ExecQueryNoWait(u) ==
    /\ Recv(u) /\ FirstWhole(u) > 0
    /\ LET m == log[u][FirstWhole(u)]
       IN  /\ InRange(u, m)
           /\ pool' = Append(pool, [user |-> u, number |-> FirstWhole(u), msg |-> m,
                                    account |-> Account(u, m),
                                    address |-> ContractAddress(m.car)])
    /\ UNCHANGED <<log, pc, dockerEnvUserList, carPc, dockerEnvCarList, chain, contract>>

\* exec_query, exec_query_addHour: the call is submitted and the thread waits.
ExecQuery(u) ==
    /\ Recv(u) /\ FirstWhole(u) > 0
    /\ LET m == log[u][FirstWhole(u)]
       IN  /\ InRange(u, m)
           /\ pool' = Append(pool, [user |-> u, number |-> FirstWhole(u), msg |-> m,
                                    account |-> Account(u, m),
                                    address |-> ContractAddress(m.car)])
    /\ pc' = [pc EXCEPT ![u] = "query"]
    /\ UNCHANGED <<log, dockerEnvUserList, carPc, dockerEnvCarList, chain, contract>>

\* The script fails before it has submitted the call, and prints so.
ExecQueryFails(u) ==
    /\ MayFail
    /\ Recv(u) /\ FirstWhole(u) > 0
    /\ InRange(u, log[u][FirstWhole(u)])
    /\ UNCHANGED <<log, pc, dockerEnvUserList, carPc, dockerEnvCarList, ledgerVars>>

\* The script gives up waiting.  The call is still pending.
QueryTimesOut(u) ==
    /\ MayTimeOut /\ pc[u] = "query"
    /\ pc' = [pc EXCEPT ![u] = "recv"]
    /\ UNCHANGED <<log, read, handled, dockerEnvUserList, carPc, dockerEnvCarList, ledgerVars>>

\* An index out of range raises and ends the thread.
ThreadDies(u) ==
    /\ Recv(u) /\ FirstWhole(u) > 0
    /\ ~InRange(u, log[u][FirstWhole(u)])
    /\ pc' = [pc EXCEPT ![u] = "dead"]
    /\ UNCHANGED <<log, dockerEnvUserList, carPc, dockerEnvCarList, ledgerVars>>

-----------------------------------------------------------------------------
(* geth mines a call: the contract is executed and the script that waits   *)
(* for the receipt returns.                                                *)
Minable(i) == \A j \in 1 .. i - 1 : pool[j].account # pool[i].account

Executed(call) ==
    LET k == contract[call.address]
    IN  [contract EXCEPT ![call.address] =
            IF call.msg.kind = "Transaction"
            THEN AC!AddTransactionInfo(k, call.msg.trans, call.user, call.msg.car)
            ELSE AC!AddEndHour(k, call.msg.trans)]

Waits(u, call) ==
    pc[u] = "query" /\ call.user = u /\ handled[u][Len(handled[u])] = call.number

Mine ==
    /\ \E i \in DOMAIN pool :
          /\ Minable(i)
          /\ pool' = SubSeq(pool, 1, i - 1) \o SubSeq(pool, i + 1, Len(pool))
          /\ chain' = Append(chain, pool[i])
          /\ contract' = Executed(pool[i])
          /\ pc' = [u \in Users |-> IF Waits(u, pool[i]) THEN "recv" ELSE pc[u]]
    /\ UNCHANGED <<log, read, handled, dockerEnvUserList, carPc, dockerEnvCarList>>

-----------------------------------------------------------------------------
CarThread(c) == CarCreation(c) \/ CarCreationTorn(c) \/ CreateEnvCar(c) \/ CreateEnvCarFails(c)

UserThread(u) ==
    \/ RecvNothing(u) \/ CreateEnvUser(u) \/ ExecQuery(u) \/ ExecQueryFails(u)
    \/ QueryTimesOut(u) \/ ThreadDies(u)

ServerNext ==
    \/ \E c \in Cars : CarThread(c)
    \/ \E u \in Users : UserSends(u) \/ UserThread(u)
    \/ Mine

ServerSpec == ServerInit /\ [][ServerNext]_allVars

\* The threads run, and a node mines.  The users may stop sending at any time.
FairServerSpec ==
    /\ ServerSpec
    /\ \A c \in Cars : WF_allVars(CarThread(c))
    /\ \A u \in Users : WF_allVars(UserThread(u))
    /\ WF_allVars(Mine)

-----------------------------------------------------------------------------
(* Properties. *)

\* The lists and the ledger hold what the code puts into them.
ServerTypeOK ==
    /\ log \in [Users -> Seq(Messages)]
    /\ \A u \in Users : read[u] \in 0 .. Written(u)
    /\ pc \in [Users -> {"recv", "query", "dead"}]
    /\ handled \in [Users -> Seq(Nat)]
    /\ dockerEnvUserList \in Seq(Users) /\ dockerEnvCarList \in Seq(Cars)
    /\ carPc \in [Cars -> {"recv", "deploy", "idle", "dead"}]
    /\ \A i \in DOMAIN pool : pool[i].address \in Cars
    /\ DOMAIN contract = Cars

\* Whatever is lost, torn, late or failing: a message is mined at most once,
\* and the calls of one kind of one user are mined in the order in which the
\* user sent them.
MinedInOrder ==
    \A i, j \in DOMAIN chain :
       i < j /\ chain[i].user = chain[j].user /\ chain[i].msg.kind = chain[j].msg.kind
          => chain[i].number < chain[j].number

\* All calls about a car go to the same contract, even while other contracts
\* are being deployed: the end of a ride goes where its announcement went.
Calls == {pool[i] : i \in DOMAIN pool} \cup {chain[i] : i \in DOMAIN chain}

SameContract ==
    \A x, y \in Calls : x.msg.car = y.msg.car => x.address = y.address

\* A contract records a transaction for the user that sent it, and an end only
\* for a ride that was ended.
RecordsTrue ==
    \A c \in Cars :
       /\ \A t \in DOMAIN contract[c].transactions :
             LET r == contract[c].transactions[t]
             IN  Listed(log[r.idPassenger], Transaction(t, r.idCar))
       /\ \A t \in contract[c].ended :
             \E u \in Users, d \in Cars : Listed(log[u], AddEndHour(t, d))

\* The lists are filled in the order in which threads get there and indexed
\* with numbers: a thread of a user dies of an index out of range only while
\* somebody with a number up to its own, or a car with a number up to that of
\* the message, has no entry yet.
DiesOnlyEarly ==
    [][\A u \in Users :
          pc[u] # "dead" /\ pc'[u] = "dead" =>
             \/ \E v \in 0 .. u : ~Listed(dockerEnvUserList, v)
             \/ \E c \in 0 .. log[u][FirstWhole(u)].car : ~Listed(dockerEnvCarList, c)]_allVars

\* Message k of u has been received whole, but in a chunk with another message
\* before it or in two chunks, and was dropped.
Dropped(u, k) == 2 * k + 2 <= read[u] /\ ~Listed(handled[u], k)

\* The users do not wait for the server, so that recv merges and tears their
\* messages.  If it returns all that has arrived, up to HEADER bytes, a thread
\* still understands one of any (MaxChunk + 1) \div 2 messages in a row: it
\* never misses as many as a chunk can touch.
Reach == (MaxChunk + 1) \div 2

LossBounded ==
    ~ShortReads =>
        \A u \in Users : \A k \in 0 .. Len(log[u]) :
           2 * (k + Reach) <= read[u] => \E j \in k .. k + Reach - 1 : Listed(handled[u], j)

\* addEndHour is not ignored by the contract if the announcement before it was
\* submitted: although it comes from another account, it is mined after the
\* announcement, in the same contract.
NoEndIgnored ==
    [][\A i \in DOMAIN chain' \ DOMAIN chain :
          /\ chain'[i].msg.kind = "addEndHour"
          /\ \E y \in Calls : y.user = chain'[i].user /\ y.number = chain'[i].number - 1
          => chain'[i].msg.trans \in contract'[chain'[i].address].ended]_allVars

\* The contract that is called belongs to the car of the ride.
RightContract == \A x \in Calls : x.address = x.msg.car

\* Message k of u ends the transaction t.
Ends(u, k, t) == log[u][k].kind = "addEndHour" /\ log[u][k].trans = t

\* "add the end hour of the drive when the drive is finised": every ride that
\* the simulation ends is ended in some contract, unless recv lost the end or
\* the announcement before it, or the thread is dead.
EndRecorded ==
    \A u \in Users, t \in 0 .. Ids - 1 :
       (\E k \in DOMAIN log[u] : Ends(u, k, t)) ~>
          \/ \E c \in Cars : t \in contract[c].ended
          \/ \E k \in DOMAIN log[u] : Ends(u, k, t) /\ (Dropped(u, k - 1) \/ Dropped(u, k))
          \/ pc[u] = "dead"
=============================================================================
