------------------------------ MODULE Verification ------------------------------
(***************************************************************************)
(* verify-deployments.ts: the contracts of the recorded deployments, of    *)
(* further implementations and of vaults are submitted to the chain's      *)
(* block explorer, one after the other, in runs that may be repeated.      *)
(* Deployments go on and other people use the explorer meanwhile.          *)
(*                                                                         *)
(* What a target claims of its address (contract, constructor arguments,   *)
(* libraries) is abstracted to whether that is what was deployed there.  A *)
(* definition no other one uses, placed before one with the same           *)
(* parameters, is a mutant of it.                                          *)
(***************************************************************************)
EXTENDS Naturals, Sequences, FiniteSets, SequencesExt

CONSTANTS
  Addresses,
  Files,               \* the records of deployments/, each a sequence of addresses
  Extras,              \* what IMPLEMENTATIONS and VAULTS may name, sequences of addresses
  Genuine,             \* addresses whose recorded source is what was deployed there
  MaxRuns

ASSUME VerificationAssumption ==
  /\ Genuine \subseteq Addresses /\ MaxRuns \in Nat /\ IsFiniteSet(Files)
  /\ \A list \in Files \union Extras : list \in Seq(Addresses)

VARIABLES
  deployed,            \* addresses with code
  listed,              \* addresses the block explorer has source for
  verifying,           \* the run: [phase, dry, targets, at, failed]
  runsMade,
  absent               \* history: targets of this run that had no code when their turn came

verifyVars == <<deployed, listed, verifying, runsMade, absent>>

NoRun == [phase |-> "none", dry |-> FALSE, targets |-> <<>>, at |-> 1, failed |-> 0]

VerifyInit ==
  /\ deployed \in SUBSET Addresses
  /\ listed \in SUBSET (deployed \intersect Genuine)
  /\ verifying = NoRun /\ runsMade = 0 /\ absent = {}

-----------------------------------------------------------------------------
\* targetsOf for every record, then the extra implementations and vaults
TargetsOf(records, extras) == FlattenSeq(records) \o extras

\* One record (DEPLOYMENT), or those of the chain in any order; none, a record of another chain,
\* a missing API key or an entry that cannot be read end the run before anything is submitted.
StartVerifying(records, extras, dry, refused) ==
  /\ verifying.phase \notin {"running", "submitting"} /\ runsMade < MaxRuns
  /\ runsMade' = runsMade + 1 /\ absent' = {}
  /\ verifying' = IF refused \/ records = <<>>
                  THEN [NoRun EXCEPT !.phase = "error"]
                  ELSE [phase |-> "running", dry |-> dry, targets |-> TargetsOf(records, extras),
                        at |-> 1, failed |-> 0]
  /\ UNCHANGED <<deployed, listed>>

Turn == verifying.phase = "running" /\ verifying.at \in DOMAIN verifying.targets
Target == verifying.targets[verifying.at]
Past(run) == [run EXCEPT !.at = @ + 1, !.phase = "running"]

SkipsAbsent ==
  /\ Turn /\ Target \notin deployed
  /\ verifying' = Past(verifying)
  /\ absent' = absent \union {Target}
  /\ UNCHANGED <<deployed, listed, runsMade>>

PlansOnly ==
  /\ Turn /\ Target \in deployed /\ verifying.dry
  /\ verifying' = Past(verifying)
  /\ UNCHANGED <<deployed, listed, runsMade, absent>>

\* isVerified: the explorer's answer, or null when it could not be asked
Answers == IF Target \in listed THEN {"true", "null"} ELSE {"false", "null"}

IsVerifiedNullSkips(answer) ==
  /\ Turn /\ Target \in deployed /\ ~ verifying.dry
  /\ answer \in Answers
  /\ verifying' = IF answer # "false" THEN Past(verifying) ELSE [verifying EXCEPT !.phase = "submitting"]
  /\ UNCHANGED <<deployed, listed, runsMade, absent>>

IsVerified(answer) ==
  /\ Turn /\ Target \in deployed /\ ~ verifying.dry
  /\ answer \in Answers
  /\ verifying' = IF answer = "true" THEN Past(verifying) ELSE [verifying EXCEPT !.phase = "submitting"]
  /\ UNCHANGED <<deployed, listed, runsMade, absent>>

\* run('verify:verify'): the explorer lists the source it can reproduce, and may do so although
\* the call fails, when its answer is lost; it says so of an address it already lists.
Submit(outcome) ==
  /\ verifying.phase = "submitting"
  /\ outcome = "verified" => Target \in Genuine
  /\ outcome = "already verified" => Target \in listed
  /\ \/ outcome \in {"verified", "lost"} /\ Target \in Genuine /\ listed' = listed \union {Target}
     \/ outcome \in {"already verified", "refused"} /\ UNCHANGED listed
  /\ verifying' = IF outcome \in {"verified", "already verified"} THEN Past(verifying)
                  ELSE [Past(verifying) EXCEPT !.failed = @ + 1]
  /\ UNCHANGED <<deployed, runsMade, absent>>

Finish ==
  /\ verifying.phase = "running" /\ verifying.at > Len(verifying.targets)
  /\ verifying' = [verifying EXCEPT !.phase = IF verifying.failed > 0 THEN "error" ELSE "done"]
  /\ UNCHANGED <<deployed, listed, runsMade, absent>>

\* Somebody else deploys a recorded contract, or verifies one.
DeployedMeanwhile(a) ==
  /\ deployed' = deployed \union {a}
  /\ UNCHANGED <<listed, verifying, runsMade, absent>>
ListedMeanwhile(a) ==
  /\ a \in deployed \intersect Genuine
  /\ listed' = listed \union {a}
  /\ UNCHANGED <<deployed, verifying, runsMade, absent>>
\* The process is stopped between two targets or while one is submitted.
Stopped ==
  /\ verifying.phase \in {"running", "submitting"}
  /\ verifying' = [verifying EXCEPT !.phase = "error"]
  /\ UNCHANGED <<deployed, listed, runsMade, absent>>

VerifyNext ==
  \/ \E chosen \in SUBSET Files : \E records \in SetToSeqs(chosen) :
       \E extras \in Extras, dry \in BOOLEAN, refused \in BOOLEAN :
         StartVerifying(records, extras, dry, refused)
  \/ SkipsAbsent \/ PlansOnly \/ Finish \/ Stopped
  \/ \E answer \in {"true", "false", "null"} : IsVerified(answer)
  \/ \E outcome \in {"verified", "already verified", "lost", "refused"} : Submit(outcome)
  \/ \E a \in Addresses : DeployedMeanwhile(a) \/ ListedMeanwhile(a)

VerifySpec == VerifyInit /\ [][VerifyNext]_verifyVars
===============================================================================
