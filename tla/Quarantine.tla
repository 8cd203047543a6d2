----------------------------- MODULE Quarantine -----------------------------
(***************************************************************************)
(* Quarantine (ekk_consensus.c, from ekk_quarantine_init on): a module     *)
(* with evidence against another proposes to isolate it, the vote is one   *)
(* of module Consensus, and when it succeeds the proposer's application    *)
(* marks the suspect.  What the ballot is about travels in the data of the *)
(* proposal, next to the key by which votes find it.                       *)
(*                                                                         *)
(* The repository has the operations but no caller: the application is     *)
(* taken to do what ekk_consensus.h says, "called when quarantine vote     *)
(* succeeds", any number of times and at any time later.                   *)
(***************************************************************************)
EXTENDS Consensus, Sequences

CONSTANTS
  Suspect,           \* valid identities, also of modules that take no part
  Evidence           \* Evidence[m]: what m's application may come up with

VARIABLES
  suspect,           \* suspect[m][h]: proposal_data of the ballot with handle h
  accusations,       \* the data of the proposals broadcast so far
  quarantined,       \* quarantined[m]: modules m has isolated
  quarantine_count   \* quarantine_count[m]

quarantine == <<quarantined, quarantine_count>>
allVars == <<vars, suspect, accusations, quarantine>>

Unknown == "no suspect"
-----------------------------------------------------------------------------
(***************************************************************************)
(* ekk_consensus_verify_evidence.  At least one witness, of whom the first *)
(* MaxWitnesses are looked at, and none of those the suspect; then what    *)
(* the data must show.  The transition bitmap has 32 bits, and keys to     *)
(* check a MAC with do not exist yet.                                      *)
(***************************************************************************)
MaxWitnesses == 3
Witnesses(e) == {e.witnesses[i] : i \in DOMAIN e.witnesses \intersect (1 .. MaxWitnesses)}

Apart(x, y) == IF x > y THEN x - y ELSE y - x
Transition(e) == e.from * 8 + e.to

Convicts(e) ==
  CASE e.type = "EQUIVOCATION"   -> e.first # e.second
    [] e.type = "TIMING_ANOMALY" -> Apart(e.actual, e.expected) > e.threshold
    [] e.type = "STATE_INVALID"  -> Transition(e) < 32 /\ Transition(e) \notin e.valid
    [] OTHER                     -> FALSE

VerifyEvidence(e) ==
  /\ e.suspect \in Suspect
  /\ Witnesses(e) # {}
  /\ Witnesses(e) \subseteq Suspect \ {e.suspect}
  /\ Convicts(e)
-----------------------------------------------------------------------------
QuarantineInit ==
  /\ Init
  /\ suspect = [m \in Engine |-> [h \in Handle |-> Unknown]]
  /\ accusations = {}
  /\ quarantined = [m \in Engine |-> {}]
  /\ quarantine_count = [m \in Engine |-> 0]

About(m, s) == suspect' = [suspect EXCEPT ![m][allocated[m] + 1] = s]

(***************************************************************************)
(* ekk_consensus_propose_quarantine.  Nothing ties the evidence to the     *)
(* suspect that is named.                                                  *)
(***************************************************************************)
ProposeQuarantine(m, s, t) ==
  /\ \E e \in Evidence[m] : VerifyEvidence(e)
  /\ Propose(m, t)
  /\ About(m, s)
  /\ accusations' = accusations \union
       {[key |-> [proposer |-> m, id |-> next_ballot_id[m]], suspect |-> s]}
  /\ UNCHANGED quarantine

(***************************************************************************)
(* ekk_consensus_on_proposal stores the data with the ballot and does not  *)
(* look at it; evidence is not sent.                                       *)
(***************************************************************************)
AcceptQuarantine(m, key, t, s, decision) ==
  /\ key.proposer \in Engine => [key |-> key, suspect |-> s] \in accusations
  /\ AcceptProposal(m, key, t, decision)
  /\ About(m, s)
  /\ UNCHANGED <<accusations, quarantine>>

(***************************************************************************)
(* ekk_consensus_execute_quarantine: oneself is refused, and who is        *)
(* isolated already is not counted again.                                  *)
(***************************************************************************)
MayIsolate(m, s) == s \in Suspect \ {m}

Fresh(m, s) == s \notin quarantined[m]

VotedOut(m, s) ==
  \E h \in Handle :
    /\ Own(m, h) /\ ballots[m][h].result = "APPROVED"
    /\ suspect[m][h] = s

ExecuteQuarantine(m, s) ==
  /\ VotedOut(m, s)
  /\ MayIsolate(m, s) /\ Fresh(m, s)
  /\ quarantined' = [quarantined EXCEPT ![m] = @ \union {s}]
  /\ quarantine_count' = [quarantine_count EXCEPT ![m] = @ + 1]
  /\ UNCHANGED <<vars, suspect, accusations>>

LiftQuarantine(m, s) ==
  /\ s \in quarantined[m]
  /\ quarantined' = [quarantined EXCEPT ![m] = @ \ {s}]
  /\ quarantine_count' = [quarantine_count EXCEPT ![m] = IF @ > 0 THEN @ - 1 ELSE @]
  /\ UNCHANGED <<vars, suspect, accusations>>
-----------------------------------------------------------------------------
(***************************************************************************)
(* Every other step of the engines leaves the quarantine alone.            *)
(***************************************************************************)
OtherStep(m) ==
  /\ \/ \E voters \in SUBSET Module : SetElectorate(m, voters)
     \/ \E key \in Key, v \in Vote : CastVote(m, key, v)
     \/ \E key \in Key : Inhibit(m, key)
     \/ \E voter \in Module, id \in Id, v \in Vote : OnVote(m, voter, id, v)
     \/ \E key \in Key, t \in Threshold : RefuseInhibited(m, key, t) \/ RefuseFull(m, key, t)
     \/ \E sender \in Module, key \in Key : OnInhibit(m, sender, key)
     \/ Tick(m)
     \/ AdvanceTime(m)
  /\ UNCHANGED <<suspect, accusations, quarantine>>

QuarantineNext ==
  \E m \in Engine :
    \/ \E s \in Suspect, t \in Threshold : ProposeQuarantine(m, s, t)
    \/ \E key \in Key, t \in Threshold, s \in Suspect, v \in Vote :
         AcceptQuarantine(m, key, t, s, v)
    \/ \E s \in Suspect : ExecuteQuarantine(m, s) \/ LiftQuarantine(m, s)
    \/ OtherStep(m)

QuarantineSpec == QuarantineInit /\ [][QuarantineNext]_allVars
-----------------------------------------------------------------------------
(***************************************************************************)
(* Whoever m has isolated is not m itself, and was voted out: the YES      *)
(* votes of an own ballot carry it, and each was cast by a module that had *)
(* stored this ballot as one about the same suspect, although a vote only  *)
(* names a key and may arrive long after (as long as no key is used twice, *)
(* for 2^16 proposals).  The count is that of the modules isolated.        *)
(***************************************************************************)
Meant(v, key, s) == \E g \in Handle : ballots[v][g].key = key /\ suspect[v][g] = s

Convicted(m, s) ==
  \E h \in Handle :
    LET b == ballots[m][h]
    IN  /\ Own(m, h) /\ suspect[m][h] = s
        /\ Carries(YesVoters(b), b)
        /\ \A v \in YesVoters(b) \intersect Engine : Meant(v, b.key, s)

QuarantineEarned ==
  \A m \in Engine :
    /\ m \notin quarantined[m]
    /\ quarantine_count[m] = Cardinality(quarantined[m])
    /\ allocated[m] < IdSpace => \A s \in quarantined[m] : Convicted(m, s)
=============================================================================
