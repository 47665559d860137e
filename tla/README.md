# A verification model of BASIC

BASIC couples an agent-based simulation of a city (GAMA) with an Ethereum
network.  Users travel between home and work in shared autonomous cars; every
ride is announced to, and ended in, a smart contract of the car that drives it.
This directory holds TLA+ modules for the parts of that chain, the TLC
configurations that check them and TLAPS proofs of the main results.

## The system

| Part | State | Operations | Talks to |
|---|---|---|---|
| Ride dispatch, `CityScope_Custom_Template.gaml` | per user: `target`, `nextObjective`, `askingForCar`, `inAGroup`, `waitingForCar`, `inCar`, `myBlockCar`, `copassengers`, `currentTransaction`; per car: `isFree`, `objective`, `passengers`, `startPoints`, `endPoints`, two indices; the clock | reflexes `updateTarget` and `move` of users, `move` of cars, `stopSim` | writes to each other's attributes; sends to the server |
| Messages, `UserClient.gaml` | one TCP connection per user and per car | `sendMessage` | server |
| Python server, `connection_interface.py`, `docker_env_*.py` | one thread per connection; the lists `dockerEnvCarList` and `dockerEnvUserList`, shared by all threads | `recv`, `dataProcessing`, `createEnvCar`, `createEnvUser`, `exec_query`, `exec_query_addHour` | runs scripts in containers and waits for them |
| web3 scripts, `deploy.js`, `query.js`, `query_endHour.js` | none | submit a call, wait for the receipt | geth |
| Contract, `smart_contract_askingCar.sol` | `transactions`, `idsTransaction` | `addTransactionInfo`, `addEndHour`, `validTransaction` | - |
| Base model, `CityScope_main.gaml` | people with daily objectives, buildings, grid | `updateTargetAndObjective`, `move`, grid and population updates | host of the dispatch |
| `Game_IT.gaml` | people, bus, stops, roads | mode choice, bus rounds, traffic | - |
| geth's transaction pool, `core/tx_pool.go`, `tx_list.go`, `tx_journal.go` | `pending`, `queue`, the lookup `all`, the priced list, next nonces, local accounts, heartbeats, the journal on disk | `AddLocal`, `AddRemotes`, `SetGasPrice`, the eviction and journal ticks, head events, restart | the chain, by events of new heads |
| geth's chain, `core/blockchain.go`, and the miner's `resultLoop`, `miner/worker.go` | database (blocks, number index, head, lookup entries, receipts, states), current head, states in memory, events | `InsertChain`, `WriteBlockWithState`, `reorg`, `Stop`, loading the last state | pool and miner follow its head events; receipts answer the scripts |
| the rest of go-ethereum, netstats, docker files | - | - | third party or configuration |

What is hard here:

* In the simulation one agent runs at a time, but rides are a protocol between
  agents that write each other's attributes: a group is formed by one user on
  behalf of others, a car's reflex ends what the user's reflex began, and a new
  objective may arrive in the middle.
* The server has a thread per connection, shared lists indexed by numbers that
  need not be positions, blocking calls of many seconds during which the
  simulation goes on, and a stream protocol without framing.
* The ledger reorders calls of different accounts, and scripts give up waiting.
* geth's pool keeps the same transactions in four structures that every limit,
  price change and reorganisation of the chain must change together, and hears of
  the chain late; the chain has two writers, changes its head step by step while
  others read it, and must survive dying between any two database writes.

Correctness, per part: cars' lists stay consistent and cars are released; a user
is served, by one car, to the place its transaction says; the messages form
rides; calls reach the right contract, once, in order; what the pool calls
executable is executable, and local transactions are not lost; the chain's
indexes follow its head, which is the heaviest block and is announced; ended rides are ended in
the contract; people of the base model follow their objectives; nobody gets lost
between stops and bus.  `PROJECT.json` lists the hazards line by line.

## Modules

* **`Dispatch`** - the ride dispatch.  `phase` and `turn` are GAMA's scheduler
  (world, then each user's two reflexes, then each car's reflex, in the order of
  creation).  A reflex is one action; where its branches do different things
  there is one action per branch: `movement` is `KeepLooking`, `FormGroup`,
  `RetryGroup` and `Confirm`, a car's `move` is `CarWander`, `CarDrive`,
  `CarPickUp`, `CarDropOff` and `CarDropOffFails`.  The other operators are
  named after the actions of the GAML code.  Boolean attributes are sets of
  agents, list indices start at 1 and 0 stands for the code's -1.
  Nondeterministic are: who is near (`FindPeople`), which car or point is
  closest, whether a car arrives in a cycle, and how many cycles an hour has.
  Dereferencing nil in `dropOff` sets `status` to `"error"`, where the model
  ends; what GAMA then does is not modelled.  The simulation stops after the
  first cycle of day `LastDay`.
* **`RideLog`** - the abstract specification of what a user sends: a ride is
  announced (perhaps repeatedly), then ended once, with a number of its own.
  `Dispatch` implements it with `log <- sent`, and it is the environment of the
  server.
* **`AskingCar`** - the contract, as operators on its storage.
* **`ConnectionInterface`** - the server and what it uses of docker, web3 and
  geth.  A message is two fragments; `recv` returns up to `MaxChunk` fragments,
  and the regular expression finds the first message that is whole in the chunk
  (GAMA sends one line per message, and `.` does not match a line break).
  `ExecQuery` submits the call and blocks the thread until `Mine` takes it from
  `pool`, or `QueryTimesOut`.  A contract's address is the car that deployed it.
* **`CityScopePeople`** - the base model's people, which live in the same
  simulation as the dispatch: the clock (hours 6 to 29), the reset of the
  population and the five rules of `updateTargetAndObjective`.
* **`GameIT`** - the traffic game: the plan of a day from the activity table, the
  choice of an objective and a mode, driving with the count of cars per road, and
  the bus.  `move` is `MoveOn` and `Arrive`, `move_bus` is `WalkOn`, `ReachStop`
  and `ArriveByBus`, the bus's `r` is `BusDrives` and `BusStops`.  A road is what
  `current_edge` names; at the start of a drive it may be any, left over from an
  earlier trip.  A list of people says how often each is on it, since their order
  decides nothing.
* **`TxList`** - the containers of geth's pool.  A list of an account is a set;
  the priced list is kept entry by entry, with stale entries and their count.
* **`TxPool`** - the pool.  Every public operation holds `pool.mu` from begin to
  end and is one action; the methods they call are operators from pools to pools
  with the names of the code.  The chain moves on its own (`ChainHead`), and the
  pool hears of it later (`HeadEvent`), perhaps without the state
  (`HeadEventFails`).  Events are posted outside all locks, so `chainHeadCh` is a
  set: any of those that wait may come next.  `Restart` drops everything but the
  journal and the chain, of which the last blocks may be lost (`Repaired`).  Go's
  order of visiting maps is the order of `Accounts`, and heartbeats are a
  sequence, the latest last.
* **`Blockchain`** - the chain with its two writers: the importer (`frames` is the
  stack of `insertChain`, which calls itself for ancestors without a state) and
  the miner.  `write` is the call of `WriteBlockWithState` that holds `mu`; its
  steps are the database writes, so that the process may end between any two
  (`Restart`), and the other writer reads `current` in between.  `Stop` ends the
  import and saves states; the node stops the miner only later
  (`eth/backend.go:512`), so blocks may still be sealed and written.  `unclean`
  remembers that a process ended inside a write or with a head whose state is not
  on disk, be it by a crash or because of such a block.  Merged into one step are the
  writes that store a block (difficulty, header, body, state) and the entries of
  one block's transactions.  Of the events only those of new heads are kept.
* **`MCDispatch`, `MCConnectionInterface`, `MCCityScopePeople`, `MCGameIT`,
  `MCTxPool`, `MCBlockchain`** - the instances for TLC.
* **`RideLogProofs`, `DispatchProofs`, `CityScopePeopleProofs`, `GameITProofs`,
  `ConnectionInterfaceProofs`, `BlockchainProofs`, `TxPoolProofs`** - the proofs.
* **`Loops`** - the rule for loops over sequences, with step and invariant as
  parameters, which `TxPoolProofs` instantiates for every loop of the pool.

Definitions whose comment begins with "Mutant" are deliberate errors; putting
one in place of the definition that follows must make a property fail
(`PROJECT.json`, "mutants").

### Assumptions that are parameters

* `SentinelInReach`: may the marker {1000,1000,1000} for a destination that has
  been served be nearer to the car than one that has not?  The city is about
  two kilometres wide, so it may.
* `RidesFitInAnHour`: the hour changes only when nobody travels.  The code's
  working hours leave at least eleven hours between a user's trips in the day and
  five at night, and a ride takes minutes, so a ride meets a change of objective
  only after a very long wait.
* `ShortReads`, `MayFail`, `MayTimeOut`: what the operating system, the scripts
  and web3 may do.
* `AwaitCars`: does the person who starts the simulation wait for the contracts, as
  the repository's README asks?  Nothing makes users wait for the server: they
  send while their thread is blocked in a script.
* `Missing`: the blocks that the pool may fail to move to.

## Runs

The dispatch runs bound the day to four hours, with work after hour 0 and home after hour
2, and waiting for company to one cycle (three in the code): one cycle already
separates those who ask together from those who ask later.

| Run | Instance | Checks | Result |
|---|---|---|---|
| `dispatch_any` | 3 users, 1 car, one day, any geometry and ride length | `TypeOK`, `CarListsAgree`, `RidesWellFormed`, `ImplementsRideLog`, `CarsComeBack` | hold, 34 347 states |
| `dispatch_enough` | 3 users, 3 cars, one day, any ride length | `OneCarPerUser`, `NoError` | hold, 2 874 352 states |
| `dispatch_served` | 2 users, 2 cars, two days, rides fit in an hour | `DestinationRecorded`, `EndHourAfterRide`, `UsersServed` | hold, 56 575 states |
| `dispatch_shortage` | 4 users, 1 car | `NoError` | violated |
| `server_any` | 2 users, 2 cars, 2 messages each after Creation, everything may go wrong | `ServerTypeOK`, `MinedInOrder`, `SameContract`, `RecordsTrue`, `DiesOnlyEarly` | hold, 2 669 874 states |
| `server_merged` | 2 users, 1 car, 4 messages each after Creation; users wait for the contract but not for the server, nothing fails | `LossBounded`, `NoEndIgnored`, `EndRecorded` | hold, 375 456 states |
| `server_which_contract` | as `server_any`, but nothing fails and users wait for the contracts | `RightContract` | violated |
| `game_it` | 2 people with cars, 2 stops, 1 road, a row that visits home twice | `TypeOK`, `WaitsOrRidesOnce`, `NotOvercounted`, `LetOffAtNearestStop`, `TripsEnd` | hold, 261 692 states |
| `txpool` | 3 accounts, 9 transactions, 4 blocks on two branches, 2 + 2 slots, prices 1 and 3, two events in any order, the state of one block may be missing | `PoolTypeOK`, `LookupAgrees`, `PendingExecutable`, `NextNonceFree`, `PricedComplete`, `PoolBounded`, `LocalsKept`, `LocalsJournaled`, `ReorgReturnsLocals` | hold, 128 709 states |
| `txpool_reorg` | the same, with a cheaper transaction in the branch that is abandoned, one event at a time and no state missing | `PendingExecutable` | violated |
| `blockchain` | 8 blocks on two branches, one sealed here and one invalid, batches of two, any number of stops and ends of the process | `ChainTypeOK`, `CanonLinked`, `IndexExact`, `HeadHeaviest`, `HeadAnnounced` | hold, 2 661 767 states |
| `people_day` | 1 person, the code's ranges of times, one reset a day | `PeopleTypeOK`, `GoesWhereItShould`, `DayIsLived` | hold, 607 392 states |

Why the bounds are enough: three users make groups of one to three, a leader that
comes before or after its members, and a user left over; one car makes every
second group wait.  Two days make a user reuse all its attributes after four
trips.  A chunk of five fragments holds two messages and half of a third, so
messages are torn by the limit as well as by short reads.  With four
messages after Creation both ways of losing one occur in `server_merged`: behind
another message in a chunk, and across two chunks.  Two accounts are
enough to have calls on the same and on different accounts.  In the game two
people meet at a stop, on the bus and on a road, and trips of any length run into
the hours of later activities; an hour of one cycle is enough for that, and makes
`starting_minute` 0 or the 60 that never comes.  People of the base model do not
interact, so one is enough; two cycles an hour separate a change of the hour from
a cycle.

The pool's instance has a reorganisation between branches of equal weight, one
account with transactions on the abandoned branch, one with a replacement, a
balance that the new branch lowers and a gap, and one that fills the pool; with
two slots each, every limit is met.  Up to `ChanSize` head events wait (10 in the
code); with two, one overtakes the other, and the pool goes back to an older head.
A restart may begin at any block below the head, after which the chain grows
again.  The chain's instance has a longer and a shorter branch, of which either
may be the heavier as far as it is known, a tie with an own block, a transaction
that is on both branches, and a batch that fails after its first block; states
are lost with the process, which makes the importer meet ancestors without a
state.  Its chains are shorter than `triesInMemory`, the only bound beside the
blocks.

`DayIsLived` describes what the code does with windows that exclude both ends:
who is to work at 10 and lunch at 11 never leaves home that day, and similarly
for lunch at 13 and work at 14, and dinner at 20 and sleep at 21.  It is stated
for one reset a day; the dispatch model, which imports the base model, shortens
the step to 6 s, so that there 8640 cycles are 14.4 hours.

What the violations show:

* `dispatch_shortage`: users 2 and 3 form a group, led by 3, while the only car
  is taken.  When it is free again, 2 retries first, with its own list, and gets
  it for itself; 3's retry fails and clears 2's car.  After 2 has arrived, 3's
  next retry takes a car for both, and dropping off 2 dereferences a nil
  transaction.  It needs more users than cars; the code has 20 and 2.
* `server_which_contract`: the contracts are listed as they are mined.
* `txpool_reorg`: nonces 0 and 1 of an account are in a branch that is abandoned,
  and nonce 2 is pending.  Nonce 0 comes back to the pool; nonce 1 does not,
  because the minimal price has risen above its price.  `demoteUnexecutables`
  finds nonce 0 in front and keeps 2 behind the gap, and the next nonce is 3.

Also seen, without a run of their own:
messages that arrive while a thread waits for a receipt are returned by one `recv`,
and all but the first are dropped, as is what the limit tears: `LossBounded` says
how many in a row, and `EndRecorded` excepts the rides concerned;
with `SentinelInReach` a passenger may be dropped off twice (`NoError` fails with
two users and two cars); with `RidesFitInAnHour = FALSE` a user whose objective
changes while it rides may be "picked up" twice in place of another passenger,
who is then dropped off without having been in the car (`EndHourAfterRide`
fails); a user's thread may die because a user with a lower number is not
registered yet, even if everybody waits for the contracts (`DiesOnlyEarly` says
that this, or a car that is missing, is the only reason); with `MayTimeOut` an end
hour may be mined before its announcement and is ignored (`NoEndIgnored` fails).

In the pool: if reset fails at an old head that was overtaken by a newer one, the
next reorganisation starts from the old one and returns only part of the branch the
pool really left, which opens the same gap as in `txpool_reorg` (`PendingExecutable`
fails with `Missing = {"x1"}`; it holds for `{"x2"}` and for the run's `{"y"}`,
which are not in the middle of a branch); the count of stale entries may be too high, after which the equation
that `core/tx_pool_test.go:100` asserts is false (`PricedComplete` states what
does hold); a local transaction that replaces a pending one of an account that is
not yet local is neither journaled nor makes the account local (`LocalsJournaled`
and `LocalsKept` are about accounts that are local); when too many transactions
are queued the account with the latest heartbeat loses first, although the
comment says "drop oldest ones".

In the chain four things fail and are excluded by name from what is checked.  An end
of the process between the two writes of `insert`, in a reorganisation, leaves a
number below the head with a block of the other branch (`torn`, in `CanonLinked`).
An import that fails after it has moved the head returns without the event of the
new head (`aborted`, in `HeadAnnounced`): pool and miner stay on the old one
until the next block.  After an unclean end lookup entries may be left over or
missing, on an archive node receipts too (`IndexExact`), and the head may have been
rolled back below a heavier block (`HeadHeaviest`); for the latter an orderly stop is
enough, if a block is sealed after the states have been saved.  `CanonLinked` says
nothing about numbers above the head: when a shorter and heavier branch wins they
go on naming abandoned blocks.

Deadlock is not checked in the dispatch and server runs: the simulation stops on
the last day, and users may have nothing more to send.  Pool and chain always have
a next step, since blocks, transactions and restarts may always come.

### Fairness

`FairSpec`: weak fairness of `Next` (GAMA goes on running cycles) and strong
fairness of arriving, per car: in each of its turns a car may or may not arrive,
and `goto` brings it nearer to a fixed target in every cycle.  The hour need not
ever change, and nobody is assumed to set off.  `FairServerSpec`: weak fairness of
every thread and of mining (the README asks for one node that mines); the users
need not send anything.  No liveness is checked of pool and chain, whose
specifications have no fairness.  `GameIT!FairSpec`: weak fairness of `Next` and strong
fairness of arriving, for the bus and for each person, as for the cars; nobody
need set off.

## Proofs

TLAPS proves the following for every value of the constants that satisfies the
named assumptions of the modules (`DispatchConstants`, `PeopleConstants`, `GameITConstants`,
`ServerConstants`, and those of `Blockchain` and `TxPool`).  Each
inductive invariant was checked by TLC on the instances of the runs first.

**Dispatch**, for every number of users and cars, all working hours and any values
of the two assumptions about rides and geometry:

* `DispatchProofs!TypeCorrect` and `CarListsCorrect` - `TypeOK` and
  `CarListsAgree` are invariants.  Neither is inductive alone: types need that
  the index found by `findNextTarget` is in range, which follows from
  `CarListsAgree`; that a car under way has a passenger needs `GroupsNotEmpty`,
  because a member of a group asks with its own list.  The inductive invariant is
  the conjunction `CarsOK`; one lemma per conjunct has one step per action.
* `RideLogProofs!LogWellFormed` - RideLog guarantees `RidesWellFormed`.  This is
  inductive with the type of the log: a number is announced again only if it is
  the last one, and `EndedOnce` for the last message says it has not been ended.
* `Refinement` and `WellFormed` - `Dispatch` implements RideLog,
  hence its messages are well formed.  The invariant is `CarsOK` with
  `TripsLogged`, which ties a user's transaction and driver to its last message
  and keeps the numbers of different users apart.

If there are as many cars as users and the marker of a served destination is
never the nearest (`Enough`; the run `dispatch_shortage` shows what happens
without), for rides of any length:

* `DispatchProofs!OneCarEach` and `DropOffFindsTransaction` -
  `OneCarPerUser` and `NoError`.  A user without a car always finds a free one,
  by counting: every busy car has a passenger left, and that passenger has no
  other car.  So groups never wait, and `RetryGroup` never happens.  `NoError`
  rests on `ConfirmsInTime`: a member of a group that has not announced its ride
  does so before its car has picked up a second passenger, because all users move
  before all cars in a cycle.

If also `RidesFitInAnHour` (`InTime`):

* `DispatchProofs!DestinationsAgree` and `EndsAfterRide` -
  `DestinationRecorded` and the action property `EndHourAfterRide`.  A user on a
  trip is where its plan for this hour says (`StayPut`), since updateTarget has no
  further change for it once it has made one.  Hence nobody announces a ride
  twice, and `findNextTarget` always finds somebody who waits, so that counting
  pick-ups is counting passengers (`PickUpsOK`).

**Base model** (`CityScopePeopleProofs`):

* `PeopleTypeCorrect` and `PeopleGoWhereTheyShould` - for any population, ranges
  of times and reset period (so for the dispatch's 14.4 hours too),
  `PeopleTypeOK` and `GoesWhereItShould` are invariants.  They are proved
  together: arriving puts a person where its target is, which is the goal of its
  objective only by the second.
* `DaysAreLived` - `DayIsLived`, if the ranges are in the order of a day
  (`TimesInOrder`, true of the code's ranges) and for any number of cycles per
  hour.  The invariant `DayOK` gives the objective as a function of times and
  hour.

**Game** (`GameITProofs`), for any number of people, stops, roads and buildings, any
activity table and any length of hours and days:

* `GameTypeCorrect` - `TypeOK`, with `Plans`: no plan names the objective nobody
  has, so whoever chooses one has a place to go to.
* `NobodyLost` and `LetOffRight` - `WaitsOrRidesOnce` and the action property
  `LetOffAtNearestStop`.  The invariant `Riders` adds that a passenger is on the
  list of its own exit.  The exit is computed when the person boards, and the person's
  objective decides it when it leaves: it cannot change in between, because whoever
  waits or rides travels by bus, and trips by bus end with `bus_status` 2.
* `CarsCountedOnce` - `NotOvercounted`, inductive with the types: leaving a road
  counts down at most once (`LeaveCounts`), and a road left over from an earlier
  trip can only make the count too low.

**Server** (`ConnectionInterfaceProofs`), for any users, cars and accounts:

* `ServerTypeCorrect`, `CallsMinedInOrder`, `CallsToOneContract` and
  `ContractsTrue` hold of every server, with torn and merged reads, failing and
  abandoned scripts.  The invariant `ServerInv` says of each call in the pool or
  the chain which message it stems from and which contract it is for (`CallsOK`),
  and that calls of one user and one kind are pending and mined in the order of
  their messages (`OrderOK`).
* `ThreadsDieEarly` - the action property `DiesOnlyEarly`, of every server as well: a
  list with an entry for each number up to n is longer than n (`Pigeonhole`).  So it
  does not matter that threads append in any order once those before are there.
* `LossesBounded` - `LossBounded`, for any chunk size, if `recv` returns all that has
  arrived up to that size.  A chunk that is not full ends with a message, and a full one
  of at least three fragments has a whole message in it.  The invariant `LossOK` says
  how far what has been read is from the last message understood.
* `EndsAccepted` - the action property `NoEndIgnored`, if web3 does not give up
  (`~MayTimeOut`), whatever `recv` loses and whichever scripts fail.  A pending call
  is the message its user's thread waits for (`Awaited`), so an end is submitted
  only after the announcement before it is mined, and the contract knows that one
  (`Recorded`).

**Chain** (`BlockchainProofs`), for every tree of chains of at most 128 blocks
(`TreeAssumption`: no state is garbage collected), set of batches, miner and both ways
of keeping states:

* `ChainTypeCorrect`, `ChainLinked` and `ChainHeaviest` - `ChainTypeOK`,
  `CanonLinked` and `HeadHeaviest`.  The inductive invariant `ChainInv` has the
  structure of calls and writes (`StructInv`: `Types`, `Stored`, `Nested`,
  `WriteOK`, `NotTheHead`), `HeadOK`, `Linked` and `Heaviest`.  The heart is that
  `reorg` always has a block to insert: nobody ever writes the current head
  again, because the importer takes only blocks without a state or above the head
  and a nested call of `insertChain` is about ancestors of the block its caller is
  at.  Each insert then continues a block both chains have, so that the index is
  linked below the block inserted, at every single database write.
* `IndexCorrect` - `IndexExact`: while a reorganisation runs, the entries of
  transactions in inserted blocks are the new ones and all others those of the
  old chain (`LookupOK`); a block with a state has the receipts of its chain,
  except the one being written (`ReceiptsOK`).
* `HeadsAreAnnounced` - `HeadAnnounced`: a call of `insertChain` that has made a
  head goes on with blocks that have a state's parent, so no nested call begins
  and no event is lost with it (`BatchesOK`, `HeadKnown`).

**Pool** (`TxPoolProofs`), for any accounts, transactions, batches, prices, limits
and tree of blocks; `AccountSlots` and the price bump are positive, and the pool
has room for one transaction (`ConfigAssumption`):

* `PoolTypes` - `PoolTypeOK`, with a count of stale entries that never falls below
  zero, and `PricedAlwaysComplete` - `PricedComplete`.  They hold together: `Cap`,
  `Underpriced` and `Discard` count down for every stale entry they pop, and the
  count is never below the number of those (`SieveOK`).
* `LookupAlwaysAgrees` - `LookupAgrees`.  It is not inductive alone: it needs that
  nothing is pending and queued at once, since `removeTx` takes a transaction from
  one list only, and the priced list, since `Discard` decides what leaves the pool.
  In turn the heap is rebuilt without loss only because no two transactions have
  the same account and nonce, which makes its order total (`Sound`).
* `NextNonceAlwaysFree` - `NextNonceFree`.  Within an operation it may fail, but
  only for accounts that are then promoted: `add` reports whether it has queued
  something, and `reset` promotes all accounts with a queue (`Free`).
* `PoolAlwaysBounded` - `PoolBounded`.  The first part needs that a transaction
  that finds the pool full has removed another one (`MadeRoom`) and that a
  replacement removes what it replaces.  The second is what the equalizing loop
  establishes: after its k-th round the k largest remote accounts are equally
  large, as the next one or `AccountSlots`, or the pool is small enough
  (`SpamInv`).
* `LocalsAlwaysJournaled` - the action property `LocalsJournaled`.  Every operation
  that takes in a transaction journals it if its account is local by then, and
  rotating the journal writes all that the pool has of local accounts.
* `PoolAlwaysValid` - every transaction of the pool, queued ones included, has a
  nonce that is not used up and can be paid in the state of the pool's head.  It
  is part of the inductive invariant (`AllValid`): promotion assumes it of what is
  pending, and `reset` restores it with `demoteUnexecutables` for one list and
  `promoteExecutables` for the other.
* `PendingAlwaysExecutable` - `PendingExecutable`, as long as no head event takes
  transactions off the chain (`[][~Returns]_vars`): every other step, a plain new
  block and a restart included, leaves the pending transactions of each account
  without a gap from the state's nonce on (`Exec`).  With such an event it is
  false, as the run `txpool_reorg` shows, so the two results meet: the return of a
  branch is the only way to a gap.
* `LocalsAlwaysKept` - the action property `LocalsKept`, if of two transactions with
  one nonce one pays enough to replace the other (`PricesApart`, true in the run).
  `Stays` holds of every step but a restart without that; a restart finds for
  each valid entry of the journal some transaction with its nonce that the entry
  could not replace (`Holds`).  Without `PricesApart` it may be the other one of
  two at the same price: TLC finds a transaction mined in the place of a journaled
  one, returned by a reorganisation and lost for the older one at a restart.
* `ReorgAlwaysReturnsLocals` - the action property `ReorgReturnsLocals`, if no state
  is missing (`Missing = {}`), with events in any order.  The lemmas about `Fork`, `TxsOf` and `TxDifference`
  give that what returns is the old chain without the new one (`ReinjectAll`);
  `ChainAssumption`, that its nonces are below those of the old head; and
  `PoolAlwaysValid`, that the pool therefore has none of them, so that `add` takes
  them in.  After an event that failed the pool may hold a dearer transaction with
  the nonce, which keeps the returning one out and is then dropped as unpayable
  (TLC finds this with one account and two branches; in the bounded run it does
  not occur).

Each loop is an instance of `Loops`.  The proofs by induction, there and for
`CommonBlock` and `Max`, use the least counterexample (`LeastNat`, from `WFMin` and
`NatLessThanWellFounded`), since the provers cannot use the library's induction
theorems.

Only model-checked: all liveness properties, which need fairness.

## Not modelled

Geometry and speed; drawing; the `saveTransaction` action, which nothing calls;
reading maps and tables; compiling contracts, unlocking accounts and gas; the
deployments' own place in the order of an account (with the README's waiting they
come first); closing connections; a second simulation against a running server;
a person that wanders moves slowly about its place, which it keeps in the model;
the city matrix grid of the base model (off: `cityMatrix` is false and no
experiment sets it); in the game, closing a road to cars, pollution, density and
usage indicators and the weights of modes.  In geth: everything but the pool and
the chain (networking, synchronisation, consensus engines, EVM, tries, accounts,
RPC, light clients, tools), which is a third-party client with much generated
code, and of the chain fast sync, `SetHead`, future blocks, uncles, logs, the
caches, the heads of headers and fast blocks that `insert` also sets
(`blockchain.go:495-500`), which no property reads, and the garbage collection of
states on chains longer than 128 blocks.  The chain has one importer: `insertChain`
releases `chainmu` while it calls itself for the ancestors of a side chain
(`blockchain.go:1152`), so that another import, of fetcher or downloader, may come in
between; with the miner as second writer the model has that interference with
`WriteBlockWithState`, but not with two stacks of calls.  Disk writes succeed: if
rewriting the journal fails (`tx_journal.go:142-163`) geth goes on without one.  The game's model
assumes that every activity has a building (the code writes "problem with
act_real" and goes on with nil).

## Plan

1. Composition: `Blockchain` and `TxPool` through head events, and `Dispatch` with
   `ConnectionInterface`, with a second simulation against a running server (numbers
   start again, lists do not).
2. A second importer in `Blockchain`; failing writes of the journal.
3. The city matrix grid and the population that follows densities; closing roads
   in the game.
