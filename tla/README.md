# A formal model of the EKK runtime

EKK coordinates small control modules without a master. Each module runs the
same runtime: it broadcasts heartbeats and detects failures, elects its k
nearest neighbours, votes with them on proposals, shares a "coordination
field" with them through shared memory, and runs cooperative tasks. This
directory holds TLA+ models of that code, the TLC instances that check them
and proofs of their central properties with TLAPS. Paths below are relative to
`src/` (so `src/ekk_consensus.c` is `src/src/ekk_consensus.c` of the checkout).

Contents: 1 inventory, 2 how the project is built, 3 modules, 4 runs,
5 bounds, 6 fairness, 7 proofs, 8 what disagrees with the documentation,
9 what is not modelled.

## 1. Inventory

| component | code | state it keeps | operations | modules |
|---|---|---|---|---|
| Consensus engine | `ekk_consensus.[ch]` | ballot table (16), inhibition list, electorate, next ballot id, config | `set_electorate`, `propose`, `vote`, `inhibit`, `on_proposal`, `on_vote`, `on_inhibit`, `tick` | BallotRules, Consensus, VotingRound |
| Quarantine | end of `ekk_consensus.c` | the modules isolated, owned by the caller | `verify_evidence`, `propose_quarantine`, `execute_quarantine`, `lift` | Quarantine |
| Heartbeat | `ekk_heartbeat.[ch]` | table of tracked modules (health, last_seen, missed_count), last_send | `add/remove_neighbor`, `received`, `tick`, `send` | HeartbeatRules, Heartbeat |
| Topology | `ekk_topology.[ch]` | known modules and positions, elected neighbours, last_discovery | `on_discovery`, `on_neighbor_lost`, `reelect`, `tick` | Topology; metrics in FixedPoint |
| Coordination field | `ekk_field.[ch]` | one slot per module: sequence counter, field, time stamp, source | `publish`, `sample`, `sample_consistent`, `gc`; aggregate, gradients, decay | FieldSlot; FieldArithmetic |
| Module tick | `ekk_module.[ch]` | its state, and one of each component | `init/start/stop`, `tick` in eight phases, the callbacks | Mesh |
| Tasks | `ekk_module.[ch]` | task table, capabilities, active task | `add_task`, `task_ready`, `task_block`, deadlines, capabilities, slack, selection, run | Tasks |
| POSIX HAL | `hal/ekk_hal_posix.c` | message ring, clock origin | `send`, `broadcast`, `recv`, `set_module_id`, the injected error, `time_us` | HalRing, MessageBus; the clock in FixedPoint |
| Fixed point | `ekk_types.[ch]` | none | Q16.16 and Q15 arithmetic, decay, square root | FixedPoint |
| Runtime init | `ekk_init.c` | none | calls HAL and field init | none |
| Isabelle drafts, examples, tests | `docs/isabelle`, `examples`, `tests` | | | none: not part of the runtime |

How the parts interact:

- `ekk_module_tick` receives up to 16 messages and hands each to the component
  it is for (heartbeat, discovery, proposal, vote, inhibit), then ticks
  heartbeat, topology and consensus in that order, all with one `now`.
- The heartbeat's alive callback discovers the module in the topology, its
  dead callback removes it there; a discovery received adds the sender to the
  topology and to the heartbeat table, and since the HAL delivers broadcasts to
  their sender too, a module meets itself there.
- After the topology's tick `sync_consensus_electorate` gives the engine the
  elected neighbours as voters of the next ballots.
- The engine calls back into the module to decide a vote and to report a
  completed ballot.
- Fields are published and sampled through memory shared with other processes;
  only the slot's sequence counter orders them.
- Messages of the modules of one process go through one ring, from which each
  module takes its own while it is the current one.
- A task runs inside the tick and may call any operation of its module.

What is hard in each, and the properties that make it right:

- **Consensus.** Votes, inhibitions and the deadline race to end one ballot;
  messages are lost, repeated and reordered; the electorate changes under open
  ballots; tables of fixed size fill up; shares are rounded fixed point; ids
  wrap. Right means: counters equal the votes recorded, every result is what
  exact arithmetic over those votes says, each ballot is reported exactly once,
  an early rejection is justified, ballots keep their voters, keys are unique,
  every ballot ends and gives its place back.
- **Quarantine.** A vote names a key only, what it is about travels beside it.
  Right means: who is isolated was voted out by votes that meant this suspect.
- **Heartbeat.** Verdicts are taken between arrivals whose order nobody
  controls. Right means: no verdict before its time, callbacks that never drift
  from the table, no death of a live module when timing holds, and death of a
  silent one always.
- **Topology.** Most discoveries skip the election. Right means: the set is
  nevertheless always the one an election from scratch would give, and the
  application is told.
- **Field.** No lock, three kinds of threads, a compare-and-swap on one side
  and a blind increment on the other. Right means: a sample accepted is one
  publication, whole and fresh, and the counter is never left odd. Saturating
  sums and divisions by tiny weights must not leave 32 bits.
- **Module tick.** Two tables that should agree about who is alive, callbacks
  from one into the other in the middle of a tick, a state they set and the end
  of the tick recomputes. Right means: what a tick leaves behind agrees, and a
  neighbour found dead or silent is a neighbour no longer.
- **Tasks.** A task function may call anything, and the end of its run
  overwrites the state of its task. Right means: each tick runs the task that
  ranks first, and a blocked task stays blocked.
- **Ring.** Messages are taken out of its middle, slots reclaimed from its
  tail only. Right means: whatever is accepted is delivered once and in order,
  across wrap-around.

`PROJECT.json` lists the hazards line by line with the properties aimed at
each. Some have none, or one that exempts what the code gets wrong; a note
there says so.

## 2. How the project is built

Each component has a module of its own; the parts of it that are pure are
operators of a module that both the component and its compositions use
(`BallotRules`, `HeartbeatRules`, `FixedPoint`, `FieldArithmetic`).

- `Consensus` EXTENDS `BallotRules` and refines one `VotingRound` per ballot;
  `Quarantine` EXTENDS `Consensus` with what ballots are about.
- `Mesh` composes `Topology` and `HeartbeatRules` in the order of the tick.
- `HalRing` refines `MessageBus`.
- `FieldArithmetic` EXTENDS `FixedPoint`; `ArithmeticChecks` compares both with
  reference definitions.
- Theorems are in a module beside each component: `ConsensusProofs`,
  `QuarantineProofs` (EXTENDS the former), `HeartbeatProofs`, `TopologyProofs`,
  `MeshProofs` (cites the latter through an instance), `TasksProofs`,
  `FieldProofs` and `HalRingProofs`.

Every invariant and every action property of the runs is proved. What could
follow: the safety half of the liveness properties (what one tick achieves, say
that it ends every ballot past its deadline), and a run in which two Mesh
modules exchange their own announcements.

## 3. Modules

### BallotRules, Consensus, VotingRound

`BallotRules` is the data of one ballot and its pure code: `evaluate_ballot`
with its Q16.16 shares (`Ratio` is the floor the code computes), counting a
vote, storing a ballot, taking the snapshot of the electorate. `Carries`
states what a vote means without counters or rounding; `Tallied` and `Judged`
relate the two. A vote of ABSTAIN is counted without occupying its slot; a vote
of INHIBIT may be sent and is refused when it arrives.

`Consensus` is one engine for each module of `Engine`, and the network. The
ballot table is an array filled at its end and compacted in order, so a ballot
is named by its arrival number, its *handle*: `active[m]` are the handles in
the table and `ballots[m][h]` keeps the contents, also after the ballot has
left (the properties need it; the actions look at active handles only). Each
operation of `ekk_consensus.h` that changes state is an action:
`SetElectorate`, `Propose`, `CastVote`, `Inhibit`, `OnVote`, `RefuseInhibited`,
`RefuseFull` and `AcceptProposal` (the three answers of `on_proposal`),
`OnInhibit`, `Tick`. Messages stay in the set they were sent to and are
received any number of times, or never: loss, duplication, delay and
reordering. Modules outside `Engine` send any well-formed message. What an
application decides in its callback is a choice in `AcceptProposal`; `reported`
counts calls of `complete_callback`, `heard` remembers who was counted. Both
are history that no guard reads.

`VotingRound` is what the engine promises of a ballot: it opens with fixed
voters and a fixed quota, takes each voter's YES or NO at most once, and ends
once with a result that agrees with the votes taken. `Consensus` instantiates
it per ballot (`Round(m, h)`), with the YES and NO slots as the abstract sets.

A callback that calls back into the engine from inside its loops is not a step
of its own. Ballots are decided independently of each other, so what it does is
what the same call does just before or just after the tick, and those calls are
in the model; a callback that calls `ekk_consensus_tick` is excluded.

### Quarantine

`Quarantine` adds to the engines the data of a ballot: `suspect[m][h]`. A
proposal needs evidence that `ekk_consensus_verify_evidence` accepts
(`VerifyEvidence`, with the witnesses it looks at and the three kinds that can
convict), and the code does not ask that the evidence be about the suspect
named. Voters store the suspect with the ballot and their votes name the key
only. The repository calls none of these functions; the application is taken to
isolate whom an own approved ballot is about, as `ekk_consensus.h` says, at any
later time, more than once, and to lift as it likes.

### HeartbeatRules, Heartbeat

`HeartbeatRules` is one row of the table: `Heard` and `Checked` (what
`ekk_heartbeat_received` and `ekk_heartbeat_tick` do to it). `Heartbeat` has
one action per function. Times are kept as ages (`now - last_seen`), which is
all the code compares. Modules crash and restart with an empty table; messages
have an age too. `AutoBroadcast` are the modules configured with
`auto_broadcast`; the others send only when the application calls
`ekk_heartbeat_send`, and the two properties that expect heartbeats speak of
the former. `timely` splits the behaviours: where it is TRUE, messages are not
lost and take at most `MaxDelay`, and running modules tick at least every
`MaxGap`; where it is FALSE nothing is assumed. `HeartbeatAssumption` says what
the configuration must satisfy for `LiveNeverDead`: `Period + MaxGap + MaxDelay
<= TimeoutCount * Period`.

### Topology

The tables as functions: `known` from modules to positions, `neighbors` from
modules to the distance stored with them. `Nearest` is defined by rank (fewer
than K entries come before it), not by sorting; `Metric` is
`ekk_topology_distance` from this module, any function of module and position.
`OnDiscovery` keeps the code's three reasons for an election, `OnNeighborLost`
its order (compact first, then elect and compare with what is left).

### Mesh

The tick of one module, with `phase` as its program counter: `Begin`, `Receive`
(at most `MaxRx` times) or `ReceiveFails`, `Received`, `Judge` row after row,
`Elect` (topology tick, electorate, gradients), `Settle`. Messages arrive in
any order; `Start`, `Stop` and `Propose` may come at any point, also from a
callback in the middle of a tick. The callbacks are part of the step that
calls: `ReceiveHeartbeat` discovers whoever comes alive at `Origin`, and
`Judge` removes whom it finds dead and sets REFORMING. `entry_health` is the
copy of the health in `topology.neighbors[]` that decides who is sampled;
`overlooked` remembers modules found dead while they were not elected. Messages
may be the module's own: `hal_recv` delivers a broadcast to its sender. The
topology ignores a discovery of itself (`Admitted`), but `Track` gives it a row
of the heartbeat table, in which it lives and dies like a peer.

### Tasks

The task table with ids as positions. `ComputeSlack`, `Consider` (one task of
the scan), `Run` and `Finish` are the phases of a tick; between `Run` and
`Finish` the function of the task may call every operation (`Call`), and
`Finish` does what `run_task` does after it: it overwrites the state of the
task. Times are kept as differences (`next_in`, `left`), which stop where no
comparison changes any more.

### FieldSlot

One slot: its owner publishes, readers sample with retries, collectors expire
it, instruction by instruction: every read of the counter, of the source and of
the time stamp, and every part of a copy is a step of its own. Parts are
written and read in any order between the barriers. The value of a part is the
number of the publication that wrote it, so a torn copy is one with two
numbers, or with the source of an empty slot. Ages are unsigned as in the code:
a stamp from the future is huge. `clash` marks attempts, of readers and of
collectors, that began while two threads were both writing (`Clashing`: the
owner and a collector, or two collectors), the one window the counter does not
cover (section 8).

### FixedPoint, FieldArithmetic, ArithmeticChecks

Pure functions with the rounding, the saturation and the truncation of the
code, for words of any width: one is `RootOne^2` and the largest number
`MaxInt` (2^16 and 2^31 - 1 in the code). Sums of 32 bits that can overflow, in
the weight of a distant neighbour, wrap around (`Wrapped`), as builds do with
what C leaves undefined. `FixedPoint` has products, quotients, interpolation,
decay, roots, Q15, distances, slack and the clock; `FieldArithmetic` has the
aggregate over neighbours as a recursive function over the list, gradients,
decay and mixing of fields. `ArithmeticChecks` states as assumptions, which TLC
evaluates, what reference definitions say of them: exact quotients and
products, the exponential, integer roots, the weighted mean, and from which
distance on a weight is none (`WeightOverflows`).

### HalRing, MessageBus

The ring by slots, head and tail; sending and receiving hold the lock
throughout and are one step each. `Receive` takes the first valid slot
addressed to the current module or to all and moves the tail over what has been
read. `MessageBus` is what modules may expect: a set of pending letters, of
which each module takes the oldest addressed to it. `Bus` refines it by reading
the letters off the valid slots. As the HAL documents of itself, a broadcast is
one letter, taken by whoever asks first.

### MC modules

`MCConsensus`, `MCQuarantine`, `MCHeartbeat`, `MCTopology`, `MCMesh`,
`MCTasks`, `MCHalRing` and `MCFieldSlot` name the values the `.cfg` files give
to constants: thresholds (the Q16.16 values of the header), configurations,
evidence, kinds of tasks, positions on a line, symmetries.

## 4. Runs

Passing runs and what each shows on its instance:

- **votes** (`ConsensusVotes.cfg`): one engine, two peers, two table entries,
  three ballots, three ids. Votes come repeated, late and out of order,
  proposals repeated, ids wrap. The threshold is the supermajority, under which
  one NO of two or three voters rejects a ballot while votes are outstanding.
  `TalliesMatch`: counters equal slots. `ResultMatchesVotes`: results agree
  with exact shares. `EarlyRejectionSound`: the early exit rejects only what no
  remaining votes could carry, as long as nobody was counted twice.
  `UniqueKeys`: no key twice in a table before ids wrap.
- **inhibit** (`ConsensusInhibit.cfg`): one engine whose table and list hold
  one entry each, under the simple majority. `ArraysInBounds`, `ReportedOnce`,
  `OpenNotInhibited` (the two tables agree), `RoundsImplemented` (every step is
  a step of each ballot's VotingRound, or none) and the liveness
  `EveryBallotDecided` and `RoomReturns` (a ballot of which nothing is heard
  leaves the table).
- **quarantine** (`Quarantine.cfg`): two engines that hear only each other; one
  accuses the other, a third module and itself. `QuarantineEarned`: whoever is
  isolated was voted out, and each YES vote that counted was cast by a module
  that stored this ballot as one about the same suspect. `OutcomesAreCaused`:
  approvals and counted votes go back to messages that were sent. The run also
  evaluates `EvidenceJudged`, which evidence convicts and which does not.
- **heartbeat** (`Heartbeat.cfg`): `NoHastyVerdict`, `CallbacksMatch`,
  `LiveNeverDead`, `HealthEarned` (among the living, health moves along the
  edges of the plan, but for a late tick that skips SUSPECT, and only a
  heartbeat makes a module alive; what may follow DEAD is left open, section
  8), and the liveness `SilentDies` and `LiveIsFound`.
- **topology** (`Topology.cfg`): `NearestElected` (event-driven election equals
  election from scratch), `NeighborsTold` and the liveness `AnnouncesForEver`.
- **mesh** (`Mesh.cfg`): three peers for two places and four modules for three
  rows, since the module may take one itself. `TickSettles`: between
  ticks the state, the announced state, the electorate and the neighbours
  agree, and REFORMING is never left behind, not even by a tick that an error
  ends. `DeadNotElected`: nobody the heartbeat holds dead is elected, but for
  the two cases of section 8. `NearestAnnounced`: the elected are the nearest
  by what modules announced, unless the alive callback moved one to the origin.
  `SilentLeaves` (liveness): a neighbour from which nothing comes any more is
  elected no longer.
- **tasks** (`Tasks.cfg`): `RunsTheBest`: each tick runs the task that ranks
  first of all that may run, by the deadlines of this very tick. `BlockHolds`:
  a task blocked by another's run stays blocked until it is made ready.
- **field** (`FieldSlot.cfg`): `WholeUnlessClash`, `AcceptedIsFresh`,
  `ClaimsWhatItRead` (the compare-and-swap protects what was read) and the
  liveness `SlotReadable` (the counter is never left odd). The run also
  evaluates `ArithmeticChecks`.
- **ring** (`HalRing.cfg`): two modules, three slots, six messages, some to a
  module that never reads. `RingInOrder`: the slots in use are numbered in
  order, none is valid outside them, the tail rests on no message already read.
  `BusImplemented`: the refinement of MessageBus. `RoomReturns` (liveness): a
  full ring has room again if its oldest message has a reader.

Each run also checks, or shares with another run of its module, the module's
`TypeOK`. The definitions marked `mutant:` in the modules are faulty variants
of the definition after them; `PROJECT.json` pairs every property with one that
breaks it, so each property is known to say something.

Runs that find a violation, one statement of the repository each (section 8):
**abstain**, **field_torn**, **gradient**.

## 5. Bounds

- *Consensus.* Three modules and the threshold of a supermajority give
  electorates of which one vote is decisive, and the early exit is reached with
  votes outstanding; with the simple majority it takes four voters, and the
  double count of **abstain** takes four in any case, so that run has four
  modules. Two table entries are the least with a compaction that keeps one,
  one entry the least with an eviction from the inhibition list. `IdSpace = 3`
  makes ids reach 0 and wrap within three ballots. `MaxHandles`, `MaxInhibits`
  and `MaxTime` cap ballots, listed inhibitions and the clock; deadlines never
  exceed `MaxTime`, so every stored ballot can reach its own. No electorate of
  a run is too large for its array; that the surplus is cut off is left to
  `ArraysCorrect`. No action reads more than two ballots, and the proofs of
  section 7 have no bound on any of them.
- *Quarantine.* Two ballots in a row in a table of one (`MaxHandles = 2`,
  `MaxBallots = 1`): the least in which a late vote on the first can meet the
  second, which is about somebody else. Two engines; only the first has
  evidence that convicts; no inhibitions (`MaxInhibits = 0`).
- *Heartbeat.* Two periods to a death (`TimeoutCount = 2`) give all four
  healths; `MaxMissed = 2` lets the count saturate; from `MaxAge = 6` ages no
  longer change any comparison (the count saturates at an age of 4). One
  observer and one observed are enough: rows of the table do not interact
  except through its capacity.
- *Topology.* Five others, k = 2 and room for four: the table overflows, and
  there are candidates beyond the neighbours; three positions give ties and
  moves in both directions.
- *Mesh.* Three peers for two places: one is known and not elected, the case in
  which a death does not reach the topology. One announces itself at the
  origin, the others farther off, and the alive callback moves any of them.
  Three rows for the peers and the module itself: the table of rows can be full
  of others when a peer comes. One message in a tick and one heartbeat period
  to a timeout: between two messages the code does nothing that a tick between
  them would not do, and the four healths are those of Heartbeat. The gradient
  run needs one peer only.
- *Tasks.* Two tasks are the least with one that runs and one it changes; three
  kinds include a periodic one and one of the lowest priority; deadlines may be
  missed, urgent and not urgent. The proofs have no bound.
- *FieldSlot.* Two publications are the least with something to tear; one
  retry has both outcomes of a retry; two clock ticks separate the ages at
  which a sampler and a collector expire a field.
- *ArithmeticChecks.* Words of 16 bits with an integer part of 5, at the
  extremes and around one and zero; integer roots of all of them. What depends
  on 32 bits (the roots that do not converge) is evaluated at 32 bits. The
  proofs are for all words of all widths.
- *HalRing.* Three slots, of which two can be used: the least ring in which a
  message is taken from behind another. Six messages go round it twice.
- *Symmetry* is used in `votes` (modules outside Engine, which nothing orders),
  with invariants only.

## 6. Fairness

The main loop of every module calls `ekk_module_tick` for ever, which ticks
each component: weak fairness of `Tick` in Consensus, Heartbeat and Topology,
and of each phase in Mesh and Tasks (a task function returns: weak fairness of
`Finish`). Time passes: weak fairness of `AdvanceTime`, strong in Heartbeat,
where timely behaviours hold time back until messages and ticks that are due
have happened, and in Mesh, where time passes between ticks only. In Mesh an
error of the HAL may end a tick, but not every tick from some time on: strong
fairness of `Received`. Heartbeat also assumes that messages that have arrived
are read (weak fairness of each `Receive`): a tick empties its queue, up to 16
messages. In HalRing every module of the process has its turn again and again
and then reads (strong fairness of `SetModuleId(m)` and `Receive(m)`), and the
injected receive error, a test hook, is not set for ever. FieldSlot assumes
only that a thread that has begun to write goes on. Nothing is assumed of
applications, of proposals, votes and inhibitions, of crashes or of the order
of messages. Loss is unrestricted except in the `timely` behaviours of
Heartbeat, which `SilentDies` does not need.

## 7. Proofs

Checked by TLAPS for every set of modules and every value of the constants that
the named assumptions allow (`RulesAssumption`, `ConsensusAssumption`,
`RowAssumption`, `HeartbeatAssumption`, `TopologyAssumption`, `MeshAssumption`,
`ComponentAssumption`, `RingAssumption`, `TasksAssumption`, `FieldAssumption`,
`FixedPointAssumption`: sets are finite, numbers are naturals, K is not 0, a
ring has two slots, a word has room for one). The bounds of section 5 are
constants too, so a theorem holds for tables, electorates and clocks of every
size.

Few of the invariants are inductive by themselves. Each module defines the
strengthening it uses and shows `Init => IInv`, `IInv /\ [Next]_vars => IInv'`
and `IInv => Inv`; TLC was asked about the strengthenings first.

`ConsensusProofs` begins with the arithmetic of `BallotRules`. `RatioExact`:
the rounded Q16.16 share reaches a threshold exactly if the exact share does,
so rounding never decides a ballot. `EvaluateSound`: an evaluation agrees with
the slots of a tallied ballot. `RejectionHopeless`: when the early exit fires,
the YES votes together with every voter not heard do not carry the ballot.

Then the engines: `TypeCorrect` (TypeOK), `TalliesCorrect` (TalliesMatch),
`ResultsCorrect` (ResultMatchesVotes), `EarlyExitCorrect`
(EarlyRejectionSound), `ReportsCorrect` (ReportedOnce). That a result agrees
with the votes needs that counters agree with slots, that the early exit is
sound needs that `heard` lies within the electorate, and that a completed
ballot never completes again needs that handles not yet given out are open.
`IInv` is TypeOK and, for each engine, `EngineInv`: those facts together for
every ballot ever stored. The proof first classifies steps: whatever a step of
any engine does, each ballot is kept, opened, has a vote counted, or is ended
(`Keeps`, `Opens`, `Counts`, `Ends`; `EngineSteps`); then each class is shown
to preserve the invariant of a ballot (`KeepsInv`, `OpensInv`, `CountsInv`,
`EndsInv`). The same classes give the refinement `RoundsCorrect`
(RoundsImplemented): each is an action of the ballot's `VotingRound` or a
stutter.

What the classes do not see, the tables of an engine as a whole, has an
invariant of its own, `TableInv`, inductive beside `IInv`. From it follow
`ArraysCorrect` (ArraysInBounds), `KeysCorrect` (UniqueKeys, which needs that
ids are given out in order and so repeat only after the whole id space),
`TablesAgree` (OpenNotInhibited) and `OutcomesCorrect` (OutcomesAreCaused, from
the set of all messages ever sent).

`QuarantineProofs`: `QuarantineCorrect` (QuarantineEarned). What isolates a
suspect is an own approved ballot, and a vote counts for a ballot by its key
only; so `QInv` follows the keys. Who voted YES on a key had stored a ballot
with it (`VotesMeant`), a ballot stored of another engine has the suspect that
was broadcast with its key (`CopiesMeant`), and that is the suspect of the
ballot its proposer has under this key (`AccusationsMeant`). The steps of the
engines inside are steps of Consensus, so what is proved of those is used, not
proved again (`EnginesInvariance`).

`HeartbeatProofs`: `TypeCorrect`, `VerdictsWait` (NoHastyVerdict),
`CallbacksAgree` (CallbacksMatch), `HealthIsEarned` (HealthEarned), and
`LiveStaysUp` (LiveNeverDead), for every configuration with `Period + MaxGap +
MaxDelay <= TimeoutCount * Period`. The last rests on `FreshInv`: while the
next heartbeat of a trusted module is not yet due, its row is no older than its
last broadcast; once it is due, the module ticks within MaxGap; and from then
on a heartbeat that will make the row young again is on its way (`Fresh`).
`TrustInv` says that both ends of the trust are running. `TimeoutOutOfReach`
is about the configurations the code does not refuse: with a `timeout_count`
beyond what the counter of missed heartbeats holds, nobody is ever found dead.

`TopologyProofs`: `TypeCorrect`, `ElectionCorrect` (NearestElected),
`SizeCorrect` (AsManyAsKnown), `CallbackNamesNeighbors` (NeighborsTold), from
`IInv == TypeOK /\ NearestElected /\ NeighborsTold`. The core is
`SkippedElection`: if k modules are elected and none comes after m, adding or
moving m changes nothing. It rests on ranks: in a strict total order of
finitely many entries the ranks are 0 to n-1 (`RankInjective`, `RankedSize`),
so exactly min(k, n) have a rank below k (`NearestSize`), and these are closed
downwards (`NearestBefore`).

`MeshProofs`: `TypeCorrect`, `TicksSettle` (TickSettles), `DeadLeave`
(DeadNotElected), `NearestByAnnouncement` (NearestAnnounced), and
`TopologyImplemented`: every step of the mesh is a step of Topology or leaves
it alone. That theorem carries what `TopologyProofs` proves over to the mesh,
which cites its inductive invariant through an instance instead of proving it
again; the lemmas at the beginning (`SameActions`) say that two instances of
one module define the same. DeadNotElected is not inductive, since an election
may take in any known module: `KnownDead` says it of all modules known.
TickSettles needs `StateInv`, what holds in the middle of a tick: the
electorate is the neighbours from the election on, a module once started never
returns to INIT, and the application knows every state a module can vote in.
Nearness by announcement needs that announcements not overtaken by the alive
callback are what the topology stores (`AnnouncedKnown`). The types of the
tables range over all modules: the heartbeat's may hold the module itself, the
topology's and the electorate never do. `ElectorateBound` ties the mesh to the
engine: the electorate it sets never exceeds k voters.

`HalRingProofs`: `RingInOrderInvariant` for rings of every size, with the
arithmetic of positions around the ring as lemmas (`FollowingStep`,
`DistanceInjective`); and `RingImplementsBus`, step by step: a message accepted
is a `Post`, one read is a `Take`, everything else stutters. That the slot read
is the oldest letter that reaches the module is where the numbering of the
slots is needed.

`TasksProofs`: `TypeCorrect`, `BlocksHold` (BlockHolds, which needs that a held
task is not the active one) and `BestRuns` (RunsTheBest): the one-pass scan
keeps the first in rank of the tasks looked at, for any number of tasks.

`FieldProofs`: what saturation and rounding keep, for all words. `WordsClosed`
(nothing is lost in a cast), `LerpBetween`, `DecayIsShare`, `DecayShrinks`,
`GradientPoints`, `MixBetween`, `SlackOrdered`, `ClockMonotone`, and
`AverageFits`: each contribution to the aggregate is at most its weight times
the largest number, plus a rounding, so that the exact quotient fits into 32
bits however small the total weight. It has two hypotheses, which the code does
not check: every distance is `Near` (below 2^23 - 256 in the code), and one for
each neighbour fits into a word (32767 of them, where the code has at most
`EKK_K_NEIGHBORS`). Under these no sum of 32 bits wraps around. Without the
first, weights do turn negative or exceed one (section 8). The theorem is about
the step of the sum and the quotient; that a recursive sum over the list
applies the step to each entry is not something the prover can conclude by
induction.

`FieldProofs` is also about the slot, for any number of readers and collectors:
`SlotTypes` (TypeOK), `SamplesWhole` (WholeUnlessClash), `SamplesFresh`
(AcceptedIsFresh), `ClaimsAreCurrent` (ClaimsWhatItRead) and `ReleasedIsEven`,
the safety half of SlotReadable: the counter is odd only while somebody writes.
The invariant relates the counter to who is writing (its parity is that of the
number of threads between their increments), and an attempt under way to what
the slot held at its counter: as long as the counter is the one read, and the
attempt did not begin while two threads were writing, nobody writes and what
has been read is still there. A second collector can find the counter even
while the owner and the first collector both write, and claim the slot then,
which is why collectors carry `clash` too.

Only model-checked: liveness (`EveryBallotDecided`, both `RoomReturns`,
`SilentDies`, `LiveIsFound`, `AnnouncesForEver`, `SlotReadable`,
`SilentLeaves`), which is out of the prover's reach, and what needs induction
over data or an enumeration of values: the exactness of roots, the closeness of
the decay to the exponential and of the aggregate to the mean
(`ArithmeticChecks`), and which evidence convicts (`EvidenceJudged`).

## 8. Where the code and what is said of it differ

Three are runs whose single property quotes the statement and fails:

- **abstain**: an abstention is counted but does not occupy its slot, so a
  voter that abstains and then votes is counted twice. The `max_ratio` exit
  (`ekk_consensus.c:235-244`) then takes fewer votes for outstanding than are:
  in the run, one of four voters says YES, the second ABSTAIN and then NO, and
  the ballot is rejected although the YES of the two others would carry it
  (`ekk_consensus.c:559`).
- **field_torn**: a publication that begins while the collector holds the slot
  makes the counter even while both write; a torn field is accepted
  (`ekk_field.c:101`).
- **gradient**: entries of `topology.neighbors[]` have health UNKNOWN from
  their election on, and `ekk_field_sample_neighbors_at` skips those: no
  neighbour ever contributes to a gradient (`ekk_field.c:265`).

Others were met while modelling; where a property depends on one, it is stated
so that the model's behaviour, which is the code's, satisfies it:

- *Consensus.* The table is cleaned up only by a tick that itself ends a
  ballot, so a table full of ballots ended by votes stays full
  (`ekk_consensus.c:761`); hence the exceptions of `RoomReturns`. A voter
  tracks a ballot without an electorate and ends it as rejected (or cancelled)
  also when the proposer approved it (`ekk_consensus.c:659`): only the proposer
  sees APPROVED.
- *Quarantine.* The header says that evidence is verified when a proposal is
  received; `ekk_consensus_on_proposal` does not look at it, and it is not
  sent. `ekk_consensus_execute_quarantine` is documented to remove the suspect,
  filter its messages and notify others, and only sets a flag. The suspect
  named need not be the one of the evidence, and votes on its own case. The
  transition bitmap has 32 bits, so evidence of a transition out of state 4 or
  higher never convicts. A supermajority of 43908/65536 is more than two
  thirds: two of three voters do not suffice.
- *Heartbeat.* Any heartbeat revives a dead neighbour, also one that was long
  under way, without the re-discovery the verification plan asks for
  (`docs/VERIFICATION_PLAN.md:66-74`, `ekk_heartbeat.c:216`); `HealthEarned`
  does not approve that step and does not exclude it. A tick that comes late
  takes a module from ALIVE to DEAD at once, an edge the plan does not list
  either. `timeout_count` has 32 bits, `missed_count` eight, and nothing
  compares them: above 255 nobody ever dies (`ekk_heartbeat.c:251`).
- *Topology.* A neighbour lost without a replacement changes the topology
  without the changed callback: the array is compacted before the election
  saves it (`ekk_topology.c:389`). `NeighborsTold` therefore speaks of those
  elected, not of those gone.
- *Mesh.* A module found dead while known but not elected stays known, and a
  later election may elect it; its dead callback does not come again
  (`ekk_topology.c:378`, `overlooked`). The alive callback moves a module to
  the origin until it announces itself again (`ekk_module.c:911`). A module
  tracks itself: `ekk_hal_posix.c:244-250` delivers broadcasts to their sender,
  and `ekk_heartbeat_add_neighbor`, called at `ekk_module.c:170`, has no check
  for the module itself. It spends a row, and if the table is full by that, a
  peer may be elected that no row watches; `SilentLeaves` speaks of those that
  have one.
- *Tasks.* A task that blocks or readies itself has that overwritten when its
  run ends (`ekk_module.c:254`); a task of priority 255 without an urgent
  deadline never runs (`ekk_module.c:805`).
- *Roots.* The comment at `ekk_topology.c:116` says that 16 iterations suffice
  for all int32 inputs. From 47416995 on results are too large, by up to an
  eighth, and for INT32_MAX, the saturated square of all larger distances, the
  first guess overflows (the model takes the wrap-around) and the root is
  negative: modules more than 46340 apart sort before all others under the
  physical metric. `ekk_fixed_sqrt`, which nothing calls, has too few steps.
- *Weights.* `EKK_FIXED_ONE + (logical_distance << 8)` has 32 bits
  (`ekk_field.c:290-293`). From a distance of 2^23 - 256 on, which only custom
  metrics and the value for an unknown metric reach, it overflows: the weight
  then is negative, above one, or the largest word, where the sum comes out as
  0.
- *Decay.* The comment of `ekk_fixed_exp_decay` describes a piecewise linear
  function; it is 1/(1 + x + x^2/2), within 7 percent of one of the
  exponential. Negative components decay to -1, never to 0.
- *Ring.* A message to a module that does not read blocks all sends once it is
  the oldest (`ekk_hal_posix.c:173`); hence `OldestHasReader` in `RoomReturns`.

## 9. Not modelled, and why

- *Runtime init*: a sequence of calls without state of its own.
- *Types*: names of enumerations, conversions from and to floating point, and
  the clearing or filling of a field, which the runtime does not decide by. The
  SIMD variants of the ARM build compute the same as the portable code
  modelled.
- *HAL*: console output, delays, the platform's name; barriers, critical
  sections and shared memory are taken as what they promise. HALs of other
  platforms are not in the repository.
- *Module*: the counters of the status report; the application's weak
  overrides of task selection and of decisions other than the vote.
- *Consensus*: callbacks that call `ekk_consensus_tick`; the type of a
  proposal, which the engine only carries; failures of a broadcast, which to
  the ballot are a lost message. Arguments the functions refuse with
  `EKK_ERR_INVALID_ARG` change nothing.
- *Heartbeat*: the optional latency average, load, temperature and the sequence
  number, which nothing reads to decide. A module that restarts so fast that
  nobody misses it is modelled, but no property asks that it be noticed: the
  code has no incarnation numbers.
- *Topology*: the time stamps copied into neighbour entries, which nothing
  reads.
- *FieldSlot*: `update_flags`, which are set and cleared but decide nothing; an
  owner that dies between its two increments, since nothing says that a region
  outlives its owner.
- *Isabelle drafts, examples, tests*: read for what they say of the code.
