------------------------------ MODULE Consensus ------------------------------
(***************************************************************************)
(* The threshold voting of ekk_consensus.c: one engine per modelled module *)
(* and the messages they broadcast and send.  An engine keeps a table of   *)
(* at most MaxBallots ballots, those it proposed and those of others it    *)
(* voted on, and a list of at most MaxBallots inhibited ballot keys.       *)
(*                                                                         *)
(* The table is an array filled at its end and compacted in order.  A      *)
(* ballot is named here by its arrival number, its handle: active[m] holds *)
(* the handles in the array (in array order, the order of the numbers),    *)
(* and ballots[m][h] keeps the ballot's last contents once it has left.    *)
(* The inhibition list is a set of entries numbered in arrival order.      *)
(*                                                                         *)
(* The network may lose, repeat, delay and reorder: a message stays in the *)
(* set it was sent to and is received any number of times, or never.       *)
(* Modules outside Engine are not modelled; they may send any well-formed  *)
(* message at any time, and messages only they would receive are not kept. *)
(***************************************************************************)
EXTENDS BallotRules

CONSTANTS
  Engine,            \* the modules whose engines are modelled
  Vote,              \* what a voter may answer to a proposal
  Configs,           \* the configurations an engine may be given
  MaxBallots,        \* EKK_MAX_BALLOTS, of ballots and of inhibitions
  MaxNeighbors,      \* EKK_K_NEIGHBORS, bound of the electorate
  VoteTimeout,       \* config.vote_timeout, in clock units
  InhibitDuration,   \* config.inhibit_duration, in clock units
  MaxHandles,        \* bound: ballots an engine stores in a behaviour
  MaxInhibits,       \* bound: inhibitions an engine lists in a behaviour
  MaxTime            \* bound: the last value of a clock

ASSUME ConsensusAssumption ==
  /\ Engine \subseteq Module
  /\ Vote \subseteq VoteValue
  /\ Configs \subseteq [allow_self_vote : BOOLEAN, require_all_neighbors : BOOLEAN]
  /\ MaxBallots \in Nat \ {0}
  /\ MaxNeighbors \in Nat
  /\ VoteTimeout \in Nat
  /\ InhibitDuration \in Nat
  /\ MaxHandles \in Nat
  /\ MaxInhibits \in Nat
  /\ MaxTime \in Nat

VARIABLES
  config,         \* config[m]: the two switches of ekk_consensus_config_t
  electorate,     \* electorate[m]: peers with a vote in m's next ballot
  next_ballot_id, \* next_ballot_id[m]
  ballots,        \* ballots[m][h]: contents of the ballot with handle h
  active,         \* active[m]: handles of the ballots in the table
  allocated,      \* allocated[m]: the last handle given out
  inhibited,      \* inhibited[m]: listed inhibitions [key, until, nth]
  listed,         \* listed[m]: how many inhibitions were ever listed
  now,            \* now[m]: the clock m's HAL returns
  proposals,      \* proposal messages broadcast so far
  votes,          \* vote messages sent so far, each to its proposer
  inhibits,       \* inhibit messages broadcast so far
  reported,       \* reported[m][h]: calls of complete_callback for h
  heard           \* heard[m][h]: voters one of whose votes m has counted

network == <<proposals, votes, inhibits>>
vars == <<config, electorate, next_ballot_id, ballots, active, allocated,
          inhibited, listed, now, proposals, votes, inhibits, reported, heard>>

Handle == 1 .. MaxHandles
Inhibition == [key : Key, until : Nat, nth : Nat]

ProposalMsg == [key : Key, threshold : Threshold]
VoteMsg     == [from : Module, key : Key, vote : VoteValue]
InhibitMsg  == [from : Module, key : Key]

(***************************************************************************)
(* Searches.  Find is the first match, as in find_ballot_index.            *)
(***************************************************************************)
Find(m, key, h) ==
  /\ h \in active[m]
  /\ ballots[m][h].key = key
  /\ \A g \in active[m] : g < h => ballots[m][g].key # key

KnownNever(m, key) == FALSE          \* mutant: duplicates are stored again
Known(m, key) == \E h \in active[m] : ballots[m][h].key = key

Inhibited(m, key) ==
  \E e \in inhibited[m] : e.key = key /\ e.until > now[m]

FullLate(m) == Cardinality(active[m]) > MaxBallots  \* mutant: off by one
Full(m) == Cardinality(active[m]) >= MaxBallots

(***************************************************************************)
(* What m sends: a proposal and an inhibition go to all other modules, a   *)
(* vote to the proposer.  A vote to oneself is not kept: it is ignored, as *)
(* the own slot of a ballot holds YES from the start or does not exist.    *)
(***************************************************************************)
BroadcastProposal(m, key, threshold) ==
  proposals' = IF Engine = {m} THEN proposals
               ELSE proposals \union {[key |-> key, threshold |-> threshold]}

SendVote(m, key, vote) ==
  votes' = IF key.proposer \notin Engine \ {m} THEN votes
           ELSE votes \union {[from |-> m, key |-> key, vote |-> vote]}

SendInhibit(m, key) ==
  inhibits' = IF Engine = {m} THEN inhibits
              ELSE inhibits \union {[from |-> m, key |-> key]}

(***************************************************************************)
(* A ballot is stored at the end of the table (bounds: MaxHandles ballots  *)
(* in all, and a deadline the clock still reaches).                        *)
(***************************************************************************)
Store(m, ballot, voters) ==
  /\ ~Full(m)
  /\ allocated[m] < MaxHandles
  /\ ballot.deadline <= MaxTime
  /\ LET h == allocated[m] + 1
     IN  /\ allocated' = [allocated EXCEPT ![m] = h]
         /\ active'    = [active EXCEPT ![m] = @ \union {h}]
         /\ ballots'   = [ballots EXCEPT ![m][h] = ballot]
         /\ heard'     = [heard EXCEPT ![m][h] = voters]

(***************************************************************************)
(* finalize_ballot: the result is fixed and complete_callback is told.     *)
(***************************************************************************)
Finalize(m, h, ballot, result) ==
  /\ ballots'  = [ballots EXCEPT ![m][h] = Finalized(ballot, result)]
  /\ reported' = [reported EXCEPT ![m][h] = @ + 1]
-----------------------------------------------------------------------------
Init ==
  /\ config \in [Engine -> Configs]
  /\ electorate = [m \in Engine |-> {}]
  /\ next_ballot_id = [m \in Engine |-> NextId(InvalidId)]
  /\ ballots = [m \in Engine |-> [h \in Handle |->
                 StoredBallot([proposer |-> m, id |-> InvalidId], 0, 0)]]
  /\ active = [m \in Engine |-> {}]
  /\ allocated = [m \in Engine |-> 0]
  /\ inhibited = [m \in Engine |-> {}]
  /\ listed = [m \in Engine |-> 0]
  /\ now = [m \in Engine |-> 0]
  /\ proposals = {} /\ votes = {} /\ inhibits = {}
  /\ reported = [m \in Engine |-> [h \in Handle |-> 0]]
  /\ heard = [m \in Engine |-> [h \in Handle |-> {}]]

(***************************************************************************)
(* ekk_consensus_set_electorate: the module itself is left out, and what   *)
(* does not fit is dropped.  The list given may be in any order.           *)
(***************************************************************************)
SetElectorate(m, voters) ==
  LET peers == voters \ {m}
      size  == IF Cardinality(peers) <= MaxNeighbors
               THEN Cardinality(peers) ELSE MaxNeighbors
  IN  /\ \E E \in SUBSET peers :
           /\ Cardinality(E) = size
           /\ electorate' = [electorate EXCEPT ![m] = E]
      /\ UNCHANGED <<config, next_ballot_id, ballots, active, allocated,
                     inhibited, listed, now, network, reported, heard>>

(***************************************************************************)
(* ekk_consensus_propose, when the table has room (it returns BUSY and     *)
(* changes nothing otherwise).  The result is not evaluated here, not even *)
(* when the proposer is the whole electorate.                              *)
(***************************************************************************)
NewBallot(m, threshold) ==
  SnapshotElectorate(
    StoredBallot([proposer |-> m, id |-> next_ballot_id[m]], threshold,
                 now[m] + VoteTimeout),
    electorate[m], config[m].allow_self_vote)

Propose(m, threshold) ==
  LET ballot == NewBallot(m, threshold)
  IN  /\ Store(m, ballot, IF config[m].allow_self_vote THEN {m} ELSE {})
      /\ next_ballot_id' = [next_ballot_id EXCEPT ![m] = NextId(@)]
      /\ BroadcastProposal(m, ballot.key, threshold)
      /\ UNCHANGED <<config, electorate, inhibited, listed, now, votes,
                     inhibits, reported>>

(***************************************************************************)
(* ekk_consensus_on_vote.  It has an effect only on an own, open ballot,   *)
(* for an eligible voter whose slot still holds ABSTAIN.  INHIBIT may be   *)
(* sent as a vote but is refused.                                          *)
(***************************************************************************)
OnVote(m, voter, id, vote) ==
  LET key == [proposer |-> m, id |-> id]
  IN  /\ id # InvalidId /\ vote # "INHIBIT"
      /\ voter \in Engine => [from |-> voter, key |-> key, vote |-> vote] \in votes
      /\ \E h \in Handle :
           /\ Find(m, key, h)
           /\ ~ballots[m][h].completed
           /\ MayVote(ballots[m][h], voter)
           /\ heard' = [heard EXCEPT ![m][h] = @ \union {voter}]
           /\ LET counted == CountVote(ballots[m][h], voter, vote)
                  result  == Evaluate(counted)
              IN  IF result = "PENDING"
                  THEN /\ ballots' = [ballots EXCEPT ![m][h] = counted]
                       /\ UNCHANGED reported
                  ELSE Finalize(m, h, counted, result)
      /\ UNCHANGED <<config, electorate, next_ballot_id, active, allocated,
                     inhibited, listed, now, network>>
-----------------------------------------------------------------------------
(***************************************************************************)
(* ekk_consensus_on_proposal, for a proposal of another module.            *)
(*   - an inhibited key is answered by an inhibit message;                 *)
(*   - a known key is a duplicate and changes nothing (no action);         *)
(*   - a full table is answered by a NO;                                   *)
(*   - otherwise the ballot is stored, without an electorate, and the      *)
(*     application's decision is sent as the vote.                         *)
(***************************************************************************)
Received(m, key, threshold) ==
  /\ key.proposer # m
  /\ key.id # InvalidId
  /\ key.proposer \in Engine =>
       [key |-> key, threshold |-> threshold] \in proposals

RefuseInhibited(m, key, threshold) ==
  /\ Received(m, key, threshold)
  /\ Inhibited(m, key)
  /\ SendInhibit(m, key)
  /\ UNCHANGED <<config, electorate, next_ballot_id, ballots, active, allocated,
                 inhibited, listed, now, proposals, votes, reported, heard>>

RefuseFull(m, key, threshold) ==
  /\ Received(m, key, threshold)
  /\ ~Inhibited(m, key) /\ ~Known(m, key)
  /\ Full(m)
  /\ SendVote(m, key, "NO")
  /\ UNCHANGED <<config, electorate, next_ballot_id, ballots, active, allocated,
                 inhibited, listed, now, proposals, inhibits, reported, heard>>

TrackedWithPeers(m, key, threshold) ==  \* mutant: the voter runs a vote of its own
  SnapshotElectorate(StoredBallot(key, threshold, now[m] + VoteTimeout),
                     electorate[m], TRUE)

TrackedBallot(m, key, threshold) ==
  StoredBallot(key, threshold, now[m] + VoteTimeout)

AcceptProposal(m, key, threshold, decision) ==
  /\ Received(m, key, threshold)
  /\ ~Inhibited(m, key) /\ ~Known(m, key)
  /\ Store(m, TrackedBallot(m, key, threshold), {})
  /\ SendVote(m, key, decision)
  /\ UNCHANGED <<config, electorate, next_ballot_id, inhibited, listed, now,
                 proposals, inhibits, reported>>

(***************************************************************************)
(* ekk_consensus_vote: a further vote sent on a ballot still open.         *)
(***************************************************************************)
CastVote(m, key, vote) ==
  /\ key.id # InvalidId
  /\ \E h \in Handle : Find(m, key, h) /\ ~ballots[m][h].completed
  /\ SendVote(m, key, vote)
  /\ UNCHANGED <<config, electorate, next_ballot_id, ballots, active, allocated,
                 inhibited, listed, now, proposals, inhibits, reported, heard>>
-----------------------------------------------------------------------------
(***************************************************************************)
(* record_inhibition: a listed key is renewed in place, a new one is added *)
(* at the end of the list, pushing out the oldest when the list is full,   *)
(* and an open ballot with the key is cancelled.                           *)
(***************************************************************************)
ListInhibition(m, key) ==
  LET until == now[m] + InhibitDuration
      same  == {e \in inhibited[m] : e.key = key}
      oldest == {e \in inhibited[m] :
                   /\ Cardinality(inhibited[m]) >= MaxBallots
                   /\ \A f \in inhibited[m] : e.nth <= f.nth}
  IN  \/ /\ same # {}
         /\ inhibited' = [inhibited EXCEPT ![m] =
              (@ \ same) \union {[e EXCEPT !.until = until] : e \in same}]
         /\ UNCHANGED listed
      \/ /\ same = {}
         /\ listed[m] < MaxInhibits
         /\ listed' = [listed EXCEPT ![m] = @ + 1]
         /\ inhibited' = [inhibited EXCEPT ![m] = (@ \ oldest) \union
              {[key |-> key, until |-> until, nth |-> listed[m] + 1]}]

CancellableAlways(m, key) ==         \* mutant: completed ballots too
  {h \in Handle : Find(m, key, h)}
Cancellable(m, key) == {h \in Handle : Find(m, key, h) /\ ~ballots[m][h].completed}

CancelBallot(m, key) ==
  \/ \E h \in Cancellable(m, key) :
       Finalize(m, h, ballots[m][h], "CANCELLED")
  \/ Cancellable(m, key) = {} /\ UNCHANGED <<ballots, reported>>

RecordOrRenew(m, key) ==             \* mutant: a renewal does not cancel
  /\ ListInhibition(m, key)
  /\ IF \E e \in inhibited[m] : e.key = key
     THEN UNCHANGED <<ballots, reported>> ELSE CancelBallot(m, key)
  /\ UNCHANGED <<config, electorate, next_ballot_id, active, allocated, now,
                 proposals, votes, heard>>

RecordInhibition(m, key) ==
  /\ ListInhibition(m, key)
  /\ CancelBallot(m, key)
  /\ UNCHANGED <<config, electorate, next_ballot_id, active, allocated, now,
                 proposals, votes, heard>>

(***************************************************************************)
(* ekk_consensus_inhibit, called by the application, and                   *)
(* ekk_consensus_on_inhibit, for an inhibition another module broadcast.   *)
(***************************************************************************)
Inhibit(m, key) ==
  /\ key.id # InvalidId
  /\ RecordInhibition(m, key)
  /\ SendInhibit(m, key)

OnInhibit(m, sender, key) ==
  /\ key.id # InvalidId
  /\ sender # m
  /\ sender \in Engine => [from |-> sender, key |-> key] \in inhibits
  /\ RecordInhibition(m, key)
  /\ UNCHANGED inhibits

(***************************************************************************)
(* ekk_consensus_tick: open ballots that are inhibited or past their       *)
(* deadline are finalized, expired inhibitions leave the list, and, if     *)
(* this tick finalized a ballot, all completed ballots leave the table.    *)
(***************************************************************************)
DueOwn(m) == {h \in active[m] :      \* mutant: ballots of others are skipped
                /\ ~ballots[m][h].completed
                /\ ballots[m][h].key.proposer = m
                /\ \/ Inhibited(m, ballots[m][h].key)
                   \/ now[m] >= ballots[m][h].deadline}
DueAgain(m) == {h \in active[m] :    \* mutant: completed ballots end again
                  \/ Inhibited(m, ballots[m][h].key)
                  \/ now[m] >= ballots[m][h].deadline}
Due(m) == {h \in active[m] :
             /\ ~ballots[m][h].completed
             /\ \/ Inhibited(m, ballots[m][h].key)
                \/ now[m] >= ballots[m][h].deadline}

DeadlineResult(m, b) ==
  IF Evaluate(b) # "PENDING" THEN Evaluate(b)
  ELSE IF /\ config[m].require_all_neighbors
          /\ b.vote_count < Cardinality(b.eligible)
       THEN "TIMEOUT" ELSE "REJECTED"

TickResult(m, b) ==
  IF Inhibited(m, b.key) THEN "CANCELLED" ELSE DeadlineResult(m, b)

CleanupFirst(m, due) ==              \* mutant: before the ballots end
  IF due = {} THEN active[m] ELSE {h \in active[m] : ~ballots[m][h].completed}
Cleanup(m, due) ==
  IF due = {} THEN active[m]
  ELSE {h \in active[m] : ~ballots[m][h].completed /\ h \notin due}

Tick(m) ==
  LET due == Due(m)
  IN  /\ ballots' = [ballots EXCEPT ![m] = [h \in Handle |->
            IF h \in due THEN Finalized(@[h], TickResult(m, @[h])) ELSE @[h]]]
      /\ reported' = [reported EXCEPT ![m] = [h \in Handle |->
            IF h \in due THEN @[h] + 1 ELSE @[h]]]
      /\ active' = [active EXCEPT ![m] = Cleanup(m, due)]
      /\ inhibited' = [inhibited EXCEPT ![m] = {e \in @ : e.until > now[m]}]
      /\ UNCHANGED <<config, electorate, next_ballot_id, allocated, listed, now,
                     network, heard>>

AdvanceTime(m) ==
  /\ now[m] < MaxTime
  /\ now' = [now EXCEPT ![m] = @ + 1]
  /\ UNCHANGED <<config, electorate, next_ballot_id, ballots, active, allocated,
                 inhibited, listed, network, reported, heard>>
-----------------------------------------------------------------------------
Call(m) ==
  \/ \E voters \in SUBSET Module : SetElectorate(m, voters)
  \/ \E t \in Threshold : Propose(m, t)
  \/ \E key \in Key, v \in Vote : CastVote(m, key, v)
  \/ \E key \in Key : Inhibit(m, key)

Receive(m) ==
  \/ \E voter \in Module, id \in Id, v \in Vote : OnVote(m, voter, id, v)
  \/ \E key \in Key, t \in Threshold : RefuseInhibited(m, key, t)
  \/ \E key \in Key, t \in Threshold : RefuseFull(m, key, t)
  \/ \E key \in Key, t \in Threshold, v \in Vote : AcceptProposal(m, key, t, v)
  \/ \E sender \in Module, key \in Key : OnInhibit(m, sender, key)

Next == \E m \in Engine : Call(m) \/ Receive(m) \/ Tick(m) \/ AdvanceTime(m)

(***************************************************************************)
(* The main loop of every module ticks its engine forever, and its clock   *)
(* runs.  Nothing is assumed of calls and of messages.                     *)
(***************************************************************************)
Fairness == \A m \in Engine : WF_vars(Tick(m)) /\ WF_vars(AdvanceTime(m))

Spec == Init /\ [][Next]_vars /\ Fairness
-----------------------------------------------------------------------------
Own(m, h) == ballots[m][h].key.proposer = m
Open(m, h) == h \in active[m] /\ ~ballots[m][h].completed

(***************************************************************************)
(* Every variable holds values of its C type.                              *)
(***************************************************************************)
TypeOK ==
  /\ config \in [Engine -> Configs]
  /\ electorate \in [Engine -> SUBSET Module]
  /\ next_ballot_id \in [Engine -> Id]
  /\ ballots \in [Engine -> [Handle -> Ballot]]
  /\ active \in [Engine -> SUBSET Handle]
  /\ allocated \in [Engine -> 0 .. MaxHandles]
  /\ inhibited \in [Engine -> SUBSET Inhibition]
  /\ listed \in [Engine -> Nat]
  /\ now \in [Engine -> Nat]
  /\ proposals \subseteq ProposalMsg
  /\ votes \subseteq VoteMsg
  /\ inhibits \subseteq InhibitMsg
  /\ reported \in [Engine -> [Handle -> Nat]]
  /\ heard \in [Engine -> [Handle -> SUBSET Module]]

(***************************************************************************)
(* No array is written past its end: the ballot table and the inhibition   *)
(* list never hold more than MaxBallots entries (ballots[], inhibited[] and *)
(* inhibit_until[] of ekk_consensus_t), and a ballot never has more voters *)
(* than votes[] has slots.                                                 *)
(***************************************************************************)
ArraysInBounds ==
  \A m \in Engine :
    /\ Cardinality(active[m]) <= MaxBallots
    /\ Cardinality(inhibited[m]) <= MaxBallots
    /\ \A h \in Handle :
         Cardinality(ballots[m][h].eligible) <= MaxNeighbors + 1

(***************************************************************************)
(* The incremental counters of a ballot agree with its vote slots, however *)
(* votes were repeated or reordered, and no more votes are counted than    *)
(* there are voters, which keeps `eligible - total' of evaluate_ballot     *)
(* from wrapping around.                                                   *)
(***************************************************************************)
TalliesMatch ==
  \A m \in Engine, h \in Handle : Tallied(ballots[m][h])

(***************************************************************************)
(* Whatever path finalized a ballot (a vote, the deadline), it is approved *)
(* only if the YES votes recorded carry it under exact arithmetic, and     *)
(* rejected or timed out only if they do not.                              *)
(***************************************************************************)
ResultMatchesVotes ==
  \A m \in Engine, h \in Handle : Judged(ballots[m][h])

(***************************************************************************)
(* The early exit of evaluate_ballot: a ballot rejected before its         *)
(* deadline could not have been carried by any further votes of the voters *)
(* not heard yet, provided no voter was counted twice.                     *)
(***************************************************************************)
Hopeless(m, h) ==
  LET b == ballots[m][h]
  IN  \A S \in SUBSET (b.eligible \ heard[m][h]) :
        ~Carries(YesVoters(b) \union S, b)

RejectedEarly(m, h) ==
  /\ ballots[m][h].result = "REJECTED"
  /\ now[m] < ballots[m][h].deadline

CountedOnce(m, h) == ballots[m][h].vote_count = Cardinality(heard[m][h])

EarlyRejectionSound ==
  \A m \in Engine, h \in Handle :
    RejectedEarly(m, h) /\ CountedOnce(m, h) => Hopeless(m, h)

(***************************************************************************)
(* The `max_ratio' exit itself, for every ballot, as                       *)
(* docs/VERIFICATION_PLAN.md has it: "if the impossibility condition       *)
(* fires, verify it is genuinely impossible to reach threshold with        *)
(* remaining votes".  It is taken while vote_count says that votes are     *)
(* still out; a voter that abstained is counted again when it is heard     *)
(* again, and then fewer are taken to be out than are.                     *)
(***************************************************************************)
ImpossibilityFired(m, h) ==
  /\ RejectedEarly(m, h)
  /\ ballots[m][h].vote_count < Cardinality(ballots[m][h].eligible)

EarlyRejectionCorrect ==
  \A m \in Engine, h \in Handle : ImpossibilityFired(m, h) => Hopeless(m, h)

(***************************************************************************)
(* complete_callback is called exactly once for a completed ballot and     *)
(* never for an open one, though a vote, an inhibition and a tick may all  *)
(* try to finalize it; a ballot leaves the table only completed.           *)
(***************************************************************************)
ReportedOnce ==
  \A m \in Engine, h \in Handle :
    LET b == ballots[m][h]
    IN  /\ reported[m][h] = IF b.completed THEN 1 ELSE 0
        /\ b.completed <=> b.result # "PENDING"
        /\ h \in 1 .. allocated[m] => h \in active[m] \/ b.completed

(***************************************************************************)
(* Ballots are found by key, so no two of a table share one: those of      *)
(* other modules never, own ones as long as next_ballot_id has not wrapped. *)
(***************************************************************************)
UniqueKeys ==
  \A m \in Engine : \A g, h \in active[m] :
    /\ g # h
    /\ ballots[m][g].key = ballots[m][h].key
    => Own(m, g) /\ allocated[m] >= IdSpace

(***************************************************************************)
(* The two tables of an engine agree: a ballot of another module stays     *)
(* open only while its key is not inhibited (on_proposal checks before it  *)
(* stores, record_inhibition cancels what is stored).                      *)
(***************************************************************************)
OpenNotInhibited ==
  \A m \in Engine : \A h \in active[m] :
    Open(m, h) /\ ~Own(m, h) => ~Inhibited(m, ballots[m][h].key)

(***************************************************************************)
(* Only the proposer can see its ballot approved, and each vote it counted *)
(* from a modelled module was sent by that module, as that vote.           *)
(***************************************************************************)
OutcomesAreCaused ==
  \A m \in Engine, h \in Handle :
    LET b == ballots[m][h]
        key == b.key
    IN  /\ b.result = "APPROVED" => Own(m, h)
        /\ \A v \in (YesVoters(b) \union NoVoters(b)) \ {m} :
             v \in Engine =>
               [from |-> v, key |-> key, vote |-> b.votes[v]] \in votes

(***************************************************************************)
(* Each ballot of each engine is one voting round (module VotingRound).    *)
(***************************************************************************)
Round(m, h) == INSTANCE VotingRound WITH
  phase      <- IF h > allocated[m] THEN "NONE" ELSE ballots[m][h].result,
  voters     <- ballots[m][h].eligible,
  quota      <- ballots[m][h].threshold,
  yes        <- YesVoters(ballots[m][h]),
  no         <- NoVoters(ballots[m][h])

(***************************************************************************)
(* Every step of the engines, whatever it does to several ballots at once, *)
(* is for each ballot a step of its round or none: electorate and quota    *)
(* stay what they were when it was proposed, no voter's YES or NO is taken *)
(* twice or changed, and an ended round never changes again.               *)
(***************************************************************************)
RoundsImplemented ==
  /\ \A m \in Engine, h \in Handle : Round(m, h)!Init
  /\ [][\A m \in Engine, h \in Handle : Round(m, h)!Step]_vars

(***************************************************************************)
(* Every ballot stored is decided, without any message: the tick after the *)
(* deadline catches what votes and inhibitions do not end.                 *)
(***************************************************************************)
EveryBallotDecided == \A m \in Engine : \A h \in Handle : Round(m, h)!Ends

(***************************************************************************)
(* A ballot of which nothing is heard does not keep its place in the table *)
(* for ever: the tick that ends it at its deadline takes it out, also when *)
(* the table is full and no other ballot can end any more.  (Ballots that  *)
(* votes or inhibitions ended wait for such a tick, perhaps for ever.)     *)
(***************************************************************************)
RoomReturns ==
  \A m \in Engine, h \in Handle :
    h \in active[m] ~> \/ h \notin active[m]
                      \/ heard[m][h] \ {m} # {}
                      \/ ballots[m][h].result = "CANCELLED"
=============================================================================
