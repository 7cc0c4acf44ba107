-------------------------------- MODULE Setup --------------------------------
(***************************************************************************)
(* `keyquorum setup <package.kqpkg>` (src/src/cli/setup_package.rs) and    *)
(* the package install ledger it works through                             *)
(* (src/src/db/package_ledger.rs), for the packages of one stream: one     *)
(* provider, recipient, drive and slot.                                    *)
(*                                                                         *)
(* Several setups of one store may run at once.  A setup plans from what   *)
(* it reads in no transaction, reserves its package with begin, then runs  *)
(* the steps, and asks the relay and writes files between the ledger's     *)
(* transactions.  It may stop anywhere, and is then run again.  Every      *)
(* package installs one key, for one relay and scope.                      *)
(***************************************************************************)
EXTENDS Naturals, FiniteSets, Sequences

CONSTANTS
    Packages,    \* the client packages of the stream
    Updates,     \* those that update: the others set up
    Generation,  \* a package's signed generation, 0 without a manifest
    Keys,        \* relay keys, by their hash
    Key,         \* the key a package carries
    NoKey,
    NoPackage,
    Procs,       \* setups that run at once
    MaxStops,    \* bound: setups that stop before their end
    MaxOutside   \* bound: changes other commands make to what setup wrote

ASSUME SetupAssumption ==
    /\ Updates \subseteq Packages
    /\ Generation \in [Packages -> Nat]
    /\ Key \in [Packages -> Keys]
    /\ NoKey \notin Keys /\ NoPackage \notin Packages
    /\ MaxStops \in Nat /\ MaxOutside \in Nat
    /\ \A k \in Updates : Generation[k] > 0

VARIABLES
    state,     \* package_installs.state, "none" for a package with no row
    done,      \* package_installs.steps_done
    baseline,  \* package_baselines.generation, 0 with no row
    retired,   \* package_retired_keys
    placed,    \* of the identity and the certificate, what is in place
    stored,    \* the key relay_credentials holds
    author,    \* the package whose setup stored it, if one did
    profile,   \* whether the stored defaults name this relay, drive and slot
    job,       \* what each running setup is about to do
    stops, outside

ledger == <<state, done, baseline>>
effects == <<placed, stored, author, profile>>
faults == <<stops, outside>>
vars == <<ledger, retired, effects, job, faults>>

\* standard_operations, with one key.
Steps == <<"identity", "certificate", "key", "relay">>
StepNames == {"identity", "certificate", "key", "relay"}

Idle == [pc |-> "idle"]
Planning == {"decided", "unretired", "planned"}
Applying == {"step", "run", "install", "check", "mark", "final", "complete"}
Jobs == {Idle}
    \cup [pc : Planning \cup Applying, pkg : Packages, replaces : Keys \cup {NoKey},
          at : 1 .. Len(Steps), alone : BOOLEAN]

Init ==
    /\ state = [k \in Packages |-> "none"]
    /\ done = [k \in Packages |-> {}]
    /\ baseline = 0
    /\ retired = {}
    /\ placed = {}
    /\ stored = NoKey /\ author = NoPackage
    /\ profile = FALSE
    /\ job = [p \in Procs |-> Idle]
    /\ stops = 0 /\ outside = 0

-----------------------------------------------------------------------------
PendingInStream == {k \in Packages : state[k] = "pending"}

Superseded(k) == Generation[k] > 0 /\ baseline > Generation[k]

\* Mutant: a package without a row is held to no generation.
Accepted_AnyGeneration(k) == PendingInStream = {}

\* decide for a package with no row: newer than the baseline, none pending.
Accepted(k) ==
    /\ Generation[k] > 0 /\ baseline > 0 => Generation[k] > baseline
    /\ PendingInStream = {}

\* decide, for a package met again as the very same bytes for the same target.
Decide(k) ==
    CASE state[k] = "none" -> IF Accepted(k) THEN "Install" ELSE "Refused"
      [] state[k] = "pending" -> IF Superseded(k) THEN "Refused" ELSE "Resume"
      [] state[k] = "complete" -> "AlreadyInstalled"
      [] state[k] = "failed" -> "Refused"

\* step_in_place.
InPlace(k, step) ==
    CASE step \in {"identity", "certificate"} -> step \in placed
      [] step = "key" -> stored = Key[k]
      [] step = "relay" -> profile

\* A setup goes on by itself; or it changed what another one may have read.
\* alone says that nothing changed since the setup began to plan, and from the
\* last look on, since then.
Go(p, j) == job' = [job EXCEPT ![p] = j]
Disturbed(q) == IF job[q] = Idle THEN Idle ELSE [job[q] EXCEPT !.alone = FALSE]
GoDisturbing(p, j) == job' = [q \in Procs |-> IF q = p THEN j ELSE Disturbed(q)]

-----------------------------------------------------------------------------
\* plan_in_batch reads the ledger, then the retired keys, then the stored key.
PlanDecide(p, k) ==
    /\ job[p] = Idle
    /\ Decide(k) \in {"Install", "Resume"}
    /\ Go(p, [pc |-> "decided", pkg |-> k, replaces |-> NoKey, at |-> 1, alone |-> TRUE])
    /\ UNCHANGED <<ledger, retired, effects, faults>>

\* Mutant: a retired key is not looked for.
PlanRetired_Unread(p) ==
    /\ job[p].pc = "decided"
    /\ Go(p, [job[p] EXCEPT !.pc = "unretired"])
    /\ UNCHANGED <<ledger, retired, effects, faults>>

PlanRetired(p) ==
    /\ job[p].pc = "decided"
    /\ Go(p, IF Key[job[p].pkg] \in retired THEN Idle ELSE [job[p] EXCEPT !.pc = "unretired"])
    /\ UNCHANGED <<ledger, retired, effects, faults>>

Different(k) == stored \notin {NoKey, Key[k]}

\* A setup refuses to replace another key, an update notes which it replaces.
PlanStored(p) ==
    LET k == job[p].pkg
    IN  /\ job[p].pc = "unretired"
        /\ Go(p, IF Different(k) /\ k \notin Updates THEN Idle
                 ELSE [job[p] EXCEPT !.pc = "planned",
                                     !.replaces = IF Different(k) THEN stored ELSE NoKey])
        /\ UNCHANGED <<ledger, retired, effects, faults>>

\* begin: decide again and, for a new package, record it pending and raise the
\* baseline, in one transaction.
Begin(p) ==
    LET k == job[p].pkg
        started == [job[p] EXCEPT !.pc = "step"]
    IN  /\ job[p].pc = "planned"
        /\ IF Decide(k) = "Install"
           THEN /\ state' = [state EXCEPT ![k] = "pending"]
                /\ baseline' = IF Generation[k] > baseline THEN Generation[k] ELSE baseline
                /\ GoDisturbing(p, started)
                /\ UNCHANGED done
           ELSE /\ Go(p, IF Decide(k) = "Resume" THEN started ELSE Idle)
                /\ UNCHANGED ledger
        /\ UNCHANGED <<retired, effects, faults>>

-----------------------------------------------------------------------------
StepOf(p) == Steps[job[p].at]
External(p) == StepOf(p) # "relay"

\* run_external_step: look whether the effect is in place.
LookFirst(p) ==
    /\ job[p].pc = "step"
    /\ External(p)
    /\ Go(p, [job[p] EXCEPT !.pc = IF InPlace(job[p].pkg, StepOf(p)) THEN "mark" ELSE "run"])
    /\ UNCHANGED <<ledger, retired, effects, faults>>

\* run_step: the identity and the certificate are only ever added.
Place(p) ==
    /\ job[p].pc = "run"
    /\ StepOf(p) \in {"identity", "certificate"}
    /\ placed' = placed \cup {StepOf(p)}
    /\ Go(p, [job[p] EXCEPT !.pc = "check"])
    /\ UNCHANGED <<ledger, retired, stored, author, profile, faults>>

\* Mutant: the absence of a key is retired, too.
Retire_NoKey(p) ==
    /\ job[p].pc = "run"
    /\ StepOf(p) = "key"
    /\ retired' = retired \cup {job[p].replaces}
    /\ GoDisturbing(p, [job[p] EXCEPT !.pc = "install"])
    /\ UNCHANGED <<ledger, effects, faults>>

\* A key step retires the key it was planned to replace.
Retire(p) ==
    /\ job[p].pc = "run"
    /\ StepOf(p) = "key"
    /\ retired' = retired \cup ({job[p].replaces} \ {NoKey})
    /\ IF job[p].replaces = NoKey
       THEN Go(p, [job[p] EXCEPT !.pc = "install"])
       ELSE GoDisturbing(p, [job[p] EXCEPT !.pc = "install"])
    /\ UNCHANGED <<ledger, effects, faults>>

\* install_key_component: the relay answers and confirms the key, which is then
\* stored over whatever is there for that relay and scope.
Install(p) ==
    /\ job[p].pc = "install"
    /\ stored' = Key[job[p].pkg]
    /\ author' = job[p].pkg
    /\ GoDisturbing(p, [job[p] EXCEPT !.pc = "check"])
    /\ UNCHANGED <<ledger, retired, placed, profile, faults>>

\* Look again.
Check(p) ==
    /\ job[p].pc = "check"
    /\ Go(p, IF InPlace(job[p].pkg, StepOf(p)) THEN [job[p] EXCEPT !.pc = "mark"] ELSE Idle)
    /\ UNCHANGED <<ledger, retired, effects, faults>>

MarkDone(k, step) == done' = [done EXCEPT ![k] = @ \cup {step}]

\* Mutant: a step marked by an earlier run is refused.
Mark_Once(p) ==
    LET k == job[p].pkg
    IN  /\ job[p].pc = "mark"
        /\ IF state[k] = "pending" /\ StepOf(p) \notin done[k]
           THEN /\ MarkDone(k, StepOf(p))
                /\ Go(p, [job[p] EXCEPT !.pc = "step", !.at = @ + 1])
           ELSE Go(p, Idle) /\ UNCHANGED done
        /\ UNCHANGED <<state, baseline, retired, effects, faults>>

\* mark_step, which refuses a package that is not pending any more.
Mark(p) ==
    LET k == job[p].pkg
    IN  /\ job[p].pc = "mark"
        /\ IF state[k] = "pending"
           THEN /\ MarkDone(k, StepOf(p))
                /\ Go(p, [job[p] EXCEPT !.pc = "step", !.at = @ + 1])
           ELSE Go(p, Idle) /\ UNCHANGED done
        /\ UNCHANGED <<state, baseline, retired, effects, faults>>

\* run_database_step: the defaults and the mark in one transaction, or neither.
RelayStep(p) ==
    LET k == job[p].pkg
    IN  /\ job[p].pc = "step"
        /\ ~External(p)
        /\ IF state[k] = "pending"
           THEN /\ profile' = TRUE
                /\ MarkDone(k, "relay")
                /\ Go(p, [job[p] EXCEPT !.pc = "final"])
           ELSE Go(p, Idle) /\ UNCHANGED <<profile, done>>
        /\ UNCHANGED <<state, baseline, retired, placed, stored, author, faults>>

\* Mutant: the effects are not looked at together.
Final_Trusts(p) ==
    /\ job[p].pc = "final"
    /\ Go(p, [job[p] EXCEPT !.pc = "complete", !.alone = TRUE])
    /\ UNCHANGED <<ledger, retired, effects, faults>>

\* Every effect is in place together, or the package stays pending.
Final(p) ==
    /\ job[p].pc = "final"
    /\ Go(p, IF \A step \in StepNames : InPlace(job[p].pkg, step)
             THEN [job[p] EXCEPT !.pc = "complete", !.alone = TRUE] ELSE Idle)
    /\ UNCHANGED <<ledger, retired, effects, faults>>

Complete(p) ==
    LET k == job[p].pkg
    IN  /\ job[p].pc = "complete"
        /\ state' = IF state[k] = "pending" THEN [state EXCEPT ![k] = "complete"] ELSE state
        /\ GoDisturbing(p, Idle)
        /\ UNCHANGED <<done, baseline, retired, effects, faults>>

\* A step fails, the relay cannot be reached, or the process dies.
Stop(p) ==
    /\ job[p] # Idle
    /\ stops < MaxStops
    /\ stops' = stops + 1
    /\ Go(p, Idle)
    /\ UNCHANGED <<ledger, retired, effects, outside>>

-----------------------------------------------------------------------------
\* Mutant: an abandoned package gives its generation back.
Abandon_Lowers(k) ==
    /\ state[k] = "pending"
    /\ state' = [state EXCEPT ![k] = "failed"]
    /\ baseline' = 0
    /\ job' = [q \in Procs |-> Disturbed(q)]
    /\ UNCHANGED <<done, retired, effects, faults>>

\* setup --abandon: the generation it reached stays.
Abandon(k) ==
    /\ state[k] = "pending"
    /\ state' = [state EXCEPT ![k] = "failed"]
    /\ job' = [q \in Procs |-> Disturbed(q)]
    /\ UNCHANGED <<done, baseline, retired, effects, faults>>

\* loadkey and a key letter store a key, a key the relay no longer knows is
\* deleted, and `use` names other defaults.
Outside ==
    /\ outside < MaxOutside
    /\ outside' = outside + 1
    /\ \/ /\ stored' \in (Keys \cup {NoKey}) \ {stored}
          /\ author' = NoPackage
          /\ UNCHANGED profile
       \/ /\ profile /\ profile' = FALSE
          /\ UNCHANGED <<stored, author>>
    /\ job' = [q \in Procs |-> Disturbed(q)]
    /\ UNCHANGED <<ledger, retired, placed, stops>>

Continue(p) ==
    \/ PlanRetired(p) \/ PlanStored(p) \/ Begin(p)
    \/ LookFirst(p) \/ Place(p) \/ Retire(p) \/ Install(p) \/ Check(p) \/ Mark(p)
    \/ RelayStep(p) \/ Final(p) \/ Complete(p)

Next ==
    \/ \E p \in Procs : (\E k \in Packages : PlanDecide(p, k)) \/ Continue(p) \/ Stop(p)
    \/ \E k \in Packages : Abandon(k)
    \/ Outside

Spec == Init /\ [][Next]_vars

\* A setup that runs goes on, and the package that is pending is run again.
FairSpec ==
    /\ Spec
    /\ \A p \in Procs : WF_vars(Continue(p))
    /\ SF_vars(\E p \in Procs, k \in PendingInStream : PlanDecide(p, k))

-----------------------------------------------------------------------------
TypeOK ==
    /\ state \in [Packages -> {"none", "pending", "complete", "failed"}]
    /\ done \in [Packages -> SUBSET StepNames]
    /\ baseline \in Nat
    /\ retired \subseteq Keys
    /\ placed \subseteq {"identity", "certificate"}
    /\ stored \in Keys \cup {NoKey}
    /\ author \in Packages \cup {NoPackage}
    /\ profile \in BOOLEAN
    /\ job \in [Procs -> Jobs]
    /\ stops \in 0 .. MaxStops /\ outside \in 0 .. MaxOutside

\* "Two setups racing for one stream cannot both pass" (begin): at most one
\* package is pending, and it is the newest ever accepted, so a pending package
\* is never superseded, whatever was abandoned before it.
PendingIsNewest ==
    /\ \A j, k \in PendingInStream : j = k
    /\ \A k \in PendingInStream : ~Superseded(k)

\* "never lowered, also by an abandoned package" (schema.sql): no package that
\* was ever accepted is above the baseline.
BaselineCovers == \A k \in Packages : state[k] # "none" => Generation[k] <= baseline

\* The setup p stores its key in this step.
Installs(p) == job[p].pc = "install" /\ job'[p].pc = "check"

\* "an older package can never replace what a newer one installed"
\* (package_ledger.rs).
NewestWins == [][\A p \in Procs :
    Installs(p) /\ author # NoPackage => Generation[job[p].pkg] >= Generation[author]]_vars

\* A setup that no other command got in the way of, since it planned, keeps the
\* promises of setup, whatever runs were stopped, packages abandoned and keys
\* loaded by hand before: it does not replace what a newer package installed,
\* does not put a replaced key back, and replaces no key at all unless it
\* updates, and then retires it.
AloneIsSafe == [][\A p \in Procs :
    Installs(p) /\ job[p].alone =>
        LET k == job[p].pkg
        IN  /\ author # NoPackage => Generation[k] >= Generation[author]
            /\ Key[k] \notin retired
            /\ Different(k) => k \in Updates /\ stored \in retired]_vars

\* A package is recorded complete with every effect in place together, unless
\* another command changed something after the last look.
CompleteIsInPlace == [][\A k \in Packages :
    state[k] # "complete" /\ state'[k] = "complete" =>
        \E p \in Procs :
            /\ job[p].pc = "complete" /\ job[p].pkg = k
            /\ job[p].alone => \A step \in StepNames : InPlace(k, step)]_vars

\* "An interrupted run is finished by running it again" (apply), unless the
\* package is abandoned, or another key was stored by hand or by a setup that
\* ran beside it.
Finishes == \A k \in Packages :
    state[k] = "pending" ~>
        (state[k] # "pending" \/ Key[k] \in retired \/ (k \notin Updates /\ Different(k)))
=============================================================================
