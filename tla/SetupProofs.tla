----------------------------- MODULE SetupProofs -----------------------------
(***************************************************************************)
(* What the package ledger keeps true for every set of packages, keys and  *)
(* setups that run at once.                                                *)
(***************************************************************************)
EXTENDS Setup, TLAPS

\* Only external steps are run outside a transaction, so there is a next one.
WorkIsExternal == \A p \in Procs :
    job[p].pc \in {"run", "install", "check", "mark"} => job[p].at < Len(Steps)

\* The invariant the theorems rest on.
IndInv == TypeOK /\ WorkIsExternal /\ PendingIsNewest /\ BaselineCovers

-----------------------------------------------------------------------------
\* What a running setup may turn into.
Working == {"run", "install", "check", "mark"}
Sound(j) == j \in Jobs /\ (j.pc \in Working => j.at < Len(Steps))

JobsOK == \A q \in Procs : Sound(job[q])

\* The default relay is the last step, and the only one of the database alone.
LEMMA StepsAre == /\ Len(Steps) = 4
                  /\ \A n \in 1 .. 4 : Steps[n] \in StepNames
                  /\ \A n \in 1 .. 4 : Steps[n] # "relay" => n < 4
BY DEF Steps, StepNames

\* Sound says of one job what the invariant says of all.
LEMMA JobsAre == TypeOK /\ WorkIsExternal => JobsOK
BY DEF TypeOK, WorkIsExternal, JobsOK, Sound, Working

\* An ended setup is sound.
LEMMA IdleIsSound == Sound(Idle)
BY DEF Jobs, Idle, Sound, Working

\* What a setup that runs carries, and what it may go on with.
LEMMA Running ==
    ASSUME NEW j, Sound(j), j.pc # "idle"
    PROVE  /\ j.pkg \in Packages /\ j.replaces \in Keys \cup {NoKey}
           /\ j.at \in 1 .. 4 /\ j.alone \in BOOLEAN
           /\ j.pc \in Planning \cup Applying
           /\ \A c \in Planning \cup Applying : j.at < 4 \/ c \notin Working =>
                /\ Sound([j EXCEPT !.pc = c])
                /\ Sound([j EXCEPT !.pc = c, !.alone = TRUE])
                /\ \A r \in Keys \cup {NoKey} : Sound([j EXCEPT !.pc = c, !.replaces = r])
           /\ \A n \in 1 .. 4 : Sound([j EXCEPT !.pc = "step", !.at = n])
           /\ Sound([j EXCEPT !.alone = FALSE])
<1>1. j \in [pc : Planning \cup Applying, pkg : Packages, replaces : Keys \cup {NoKey},
             at : 1 .. 4, alone : BOOLEAN]
  BY StepsAre DEF Sound, Jobs, Idle
<1>2. j.pc \in Working => j.at < 4
  BY StepsAre DEF Sound
<1> DEFINE Row == [pc : Planning \cup Applying, pkg : Packages, replaces : Keys \cup {NoKey},
                   at : 1 .. 4, alone : BOOLEAN]
<1>3. \A i \in Row : (i.pc \in Working => i.at < 4) => Sound(i)
  BY StepsAre DEF Sound, Jobs
<1> HIDE DEF Row
<1>4. ASSUME NEW c \in Planning \cup Applying, j.at < 4 \/ c \notin Working
      PROVE  /\ Sound([j EXCEPT !.pc = c])
             /\ Sound([j EXCEPT !.pc = c, !.alone = TRUE])
             /\ \A r \in Keys \cup {NoKey} : Sound([j EXCEPT !.pc = c, !.replaces = r])
  <2>1. /\ [j EXCEPT !.pc = c] \in Row
        /\ [j EXCEPT !.pc = c].pc = c /\ [j EXCEPT !.pc = c].at = j.at
    BY <1>1, <1>4 DEF Row
  <2>2. /\ [j EXCEPT !.pc = c, !.alone = TRUE] \in Row
        /\ [j EXCEPT !.pc = c, !.alone = TRUE].pc = c
        /\ [j EXCEPT !.pc = c, !.alone = TRUE].at = j.at
    BY <1>1, <1>4 DEF Row
  <2>3. ASSUME NEW r \in Keys \cup {NoKey}
        PROVE  /\ [j EXCEPT !.pc = c, !.replaces = r] \in Row
               /\ [j EXCEPT !.pc = c, !.replaces = r].pc = c
               /\ [j EXCEPT !.pc = c, !.replaces = r].at = j.at
    BY <1>1, <1>4, <2>3 DEF Row
  <2> QED BY <1>3, <1>4, <2>1, <2>2, <2>3
<1>5. ASSUME NEW n \in 1 .. 4 PROVE Sound([j EXCEPT !.pc = "step", !.at = n])
  <2>1. [j EXCEPT !.pc = "step", !.at = n] \in Row
        /\ [j EXCEPT !.pc = "step", !.at = n].pc = "step"
    BY <1>1, <1>5 DEF Row, Applying
  <2> QED BY <1>3, <2>1 DEF Working
<1>6. Sound([j EXCEPT !.alone = FALSE])
  <2>1. /\ [j EXCEPT !.alone = FALSE] \in Row
        /\ [j EXCEPT !.alone = FALSE].pc = j.pc /\ [j EXCEPT !.alone = FALSE].at = j.at
    BY <1>1 DEF Row
  <2> QED BY <1>2, <1>3, <2>1
<1> QED BY <1>1, <1>4, <1>5, <1>6 DEF Row

\* A setup stays sound when another one gets in its way.
LEMMA DisturbedIsSound ==
    ASSUME NEW q \in Procs, Sound(job[q])
    PROVE  Sound(Disturbed(q))
<1>1. CASE job[q] = Idle
  BY <1>1, IdleIsSound DEF Disturbed
<1>2. CASE job[q] # Idle
  <2>1. job[q].pc # "idle"
    BY <1>2 DEF Sound, Jobs, Planning, Applying
  <2> QED BY <1>2, <2>1, Running DEF Disturbed
<1> QED BY <1>1, <1>2

\* A setup that goes on, disturbing the others or not, leaves every job sound.
LEMMA Moved ==
    ASSUME NEW p \in Procs, NEW j, Sound(j), job \in [Procs -> Jobs], JobsOK,
           Go(p, j) \/ GoDisturbing(p, j)
    PROVE  job' \in [Procs -> Jobs] /\ WorkIsExternal'
<1>1. job' = [q \in Procs |-> job'[q]] /\ \A q \in Procs : Sound(job'[q])
  BY DisturbedIsSound DEF Go, GoDisturbing, JobsOK
<1> QED BY <1>1 DEF Sound, WorkIsExternal, Working

\* So does a command that is not a setup.
LEMMA AllMoved ==
    ASSUME job \in [Procs -> Jobs], JobsOK, job' = [q \in Procs |-> Disturbed(q)]
    PROVE  job' \in [Procs -> Jobs] /\ WorkIsExternal'
<1>1. job' = [q \in Procs |-> job'[q]] /\ \A q \in Procs : Sound(job'[q])
  BY DisturbedIsSound DEF JobsOK
<1> QED BY <1>1 DEF Sound, WorkIsExternal, Working

-----------------------------------------------------------------------------
\* The ledger's rows keep their types, and only external steps are run.
LEMMA PlanType ==
    ASSUME IndInv, NEW p \in Procs,
           (\E k \in Packages : PlanDecide(p, k)) \/ PlanRetired(p) \/ PlanStored(p)
    PROVE  TypeOK' /\ WorkIsExternal'
<1> USE DEF IndInv
<1>1. JobsOK /\ job \in [Procs -> Jobs] /\ Sound(job[p])
  BY JobsAre DEF TypeOK, JobsOK
<1>2. SUFFICES ASSUME NEW j, Sound(j), Go(p, j), UNCHANGED <<ledger, retired, effects, faults>>
               PROVE  TypeOK' /\ WorkIsExternal'
  <2>1. ASSUME NEW k \in Packages, PlanDecide(p, k)
        PROVE  Sound([pc |-> "decided", pkg |-> k, replaces |-> NoKey, at |-> 1, alone |-> TRUE])
    BY <2>1, StepsAre DEF Sound, Jobs, Planning, Working
  <2>2. ASSUME PlanRetired(p) PROVE Sound([job[p] EXCEPT !.pc = "unretired"])
    BY <1>1, <2>2, Running DEF PlanRetired, Planning, Working
  <2>3. ASSUME PlanStored(p), NEW r \in Keys \cup {NoKey}
        PROVE  Sound([job[p] EXCEPT !.pc = "planned", !.replaces = r])
    BY <1>1, <2>3, Running DEF PlanStored, Planning, Working
  <2>4. stored \in Keys \cup {NoKey}
    BY DEF TypeOK
  <2>5. CASE PlanStored(p)
    <3>1. PICK r \in Keys \cup {NoKey} :
             \/ Go(p, Idle)
             \/ Go(p, [job[p] EXCEPT !.pc = "planned", !.replaces = r])
      BY <2>4, <2>5 DEF PlanStored
    <3> QED BY <1>2, <2>3, <2>5, <3>1, IdleIsSound DEF PlanStored
  <2> QED BY <1>2, <2>1, <2>2, <2>5, IdleIsSound DEF PlanDecide, PlanRetired
<1>3. job' \in [Procs -> Jobs] /\ WorkIsExternal'
  BY <1>1, <1>2, Moved
<1> QED BY <1>2, <1>3 DEF TypeOK, ledger, effects, faults

\* So do the actions of apply.
LEMMA ApplyType ==
    ASSUME IndInv, NEW p \in Procs,
           \/ Begin(p) \/ LookFirst(p) \/ Place(p) \/ Retire(p) \/ Install(p) \/ Check(p)
           \/ Mark(p) \/ RelayStep(p) \/ Final(p) \/ Complete(p)
    PROVE  TypeOK' /\ WorkIsExternal'
<1> USE DEF IndInv
<1>1. JobsOK /\ job \in [Procs -> Jobs] /\ Sound(job[p])
  BY JobsAre DEF TypeOK, JobsOK
<1>2. job[p].pc \in Applying \cup {"planned"} /\ job[p].pc # "idle"
  BY DEF Begin, LookFirst, Place, Retire, Install, Check, Mark, RelayStep, Final, Complete, Applying
<1>3. job[p].pkg \in Packages /\ job[p].at \in 1 .. 4 /\ job[p].replaces \in Keys \cup {NoKey}
  BY <1>1, <1>2, Running
<1>4. /\ Sound([job[p] EXCEPT !.pc = "step"]) /\ Sound([job[p] EXCEPT !.pc = "final"])
      /\ Sound([job[p] EXCEPT !.pc = "complete", !.alone = TRUE])
  BY <1>1, <1>2, Running DEF Applying, Working
<1>5. ASSUME job[p].at < 4
      PROVE  /\ \A c \in Working : Sound([job[p] EXCEPT !.pc = c])
             /\ Sound([job[p] EXCEPT !.pc = "step", !.at = job[p].at + 1])
  <2>1. job[p].at + 1 \in 1 .. 4
    BY <1>3, <1>5
  <2> QED BY <1>1, <1>2, <1>5, <2>1, Running DEF Applying, Working
<1>6. job[p].pc \in Working => job[p].at < 4
  BY <1>1, StepsAre DEF Sound
<1>7. StepOf(p) \in StepNames /\ (External(p) => job[p].at < 4)
  BY <1>3, StepsAre DEF StepOf, External
<1>8. ASSUME NEW j, Sound(j), Go(p, j) \/ GoDisturbing(p, j)
      PROVE  job' \in [Procs -> Jobs] /\ WorkIsExternal'
  BY <1>1, <1>8, Moved
<1>9. CASE Begin(p)
  <2>1. job' \in [Procs -> Jobs] /\ WorkIsExternal'
    BY <1>4, <1>8, <1>9, IdleIsSound DEF Begin
  <2> QED BY <1>3, <1>9, <2>1, SetupAssumption DEF Begin, TypeOK, ledger, effects, faults
<1>10. CASE LookFirst(p)
  <2>1. job' \in [Procs -> Jobs] /\ WorkIsExternal'
    BY <1>5, <1>7, <1>8, <1>10 DEF LookFirst, Working
  <2> QED BY <1>10, <2>1 DEF LookFirst, TypeOK, ledger, effects, faults
<1>11. CASE Place(p)
  <2>1. job' \in [Procs -> Jobs] /\ WorkIsExternal'
    BY <1>5, <1>6, <1>8, <1>11 DEF Place, Working
  <2> QED BY <1>11, <2>1 DEF Place, TypeOK, ledger, faults
<1>12. CASE Retire(p)
  <2>1. job' \in [Procs -> Jobs] /\ WorkIsExternal'
    BY <1>5, <1>6, <1>8, <1>12 DEF Retire, Working
  <2> QED BY <1>3, <1>12, <2>1 DEF Retire, TypeOK, ledger, effects, faults
<1>13. CASE Install(p)
  <2>1. job' \in [Procs -> Jobs] /\ WorkIsExternal'
    BY <1>5, <1>6, <1>8, <1>13 DEF Install, Working
  <2> QED BY <1>3, <1>13, <2>1, SetupAssumption DEF Install, TypeOK, ledger, faults
<1>14. CASE Check(p)
  <2>1. job' \in [Procs -> Jobs] /\ WorkIsExternal'
    BY <1>5, <1>6, <1>8, <1>14, IdleIsSound DEF Check, Working
  <2> QED BY <1>14, <2>1 DEF Check, TypeOK, ledger, effects, faults
<1>15. CASE Mark(p)
  <2>1. job' \in [Procs -> Jobs] /\ WorkIsExternal'
    BY <1>5, <1>6, <1>8, <1>15, IdleIsSound DEF Mark, Working
  <2>2. done' \in [Packages -> SUBSET StepNames]
    BY <1>3, <1>7, <1>15 DEF Mark, MarkDone, TypeOK
  <2> QED BY <1>15, <2>1, <2>2 DEF Mark, TypeOK, effects, faults
<1>16. CASE RelayStep(p)
  <2>1. job' \in [Procs -> Jobs] /\ WorkIsExternal'
    BY <1>4, <1>8, <1>16, IdleIsSound DEF RelayStep
  <2>2. done' \in [Packages -> SUBSET StepNames]
    BY <1>3, <1>16 DEF RelayStep, MarkDone, StepNames, TypeOK
  <2>3. profile' \in BOOLEAN
    <3>1. profile' \in {TRUE, profile}
      BY <1>16, Zenon DEF RelayStep
    <3> QED BY <3>1, Zenon DEF TypeOK
  <2> QED BY <1>16, <2>1, <2>2, <2>3 DEF RelayStep, TypeOK, faults
<1>17. CASE Final(p)
  <2>1. job' \in [Procs -> Jobs] /\ WorkIsExternal'
    BY <1>4, <1>8, <1>17, IdleIsSound DEF Final
  <2> QED BY <1>17, <2>1 DEF Final, TypeOK, ledger, effects, faults
<1>18. CASE Complete(p)
  <2>1. job' \in [Procs -> Jobs] /\ WorkIsExternal'
    BY <1>8, <1>18, IdleIsSound DEF Complete
  <2> QED BY <1>3, <1>18, <2>1 DEF Complete, TypeOK, effects, faults
<1> QED BY <1>9, <1>10, <1>11, <1>12, <1>13, <1>14, <1>15, <1>16, <1>17, <1>18

\* And a stop, an abandon and what other commands do.
LEMMA OtherType ==
    ASSUME IndInv,
           \/ \E p \in Procs : Stop(p)
           \/ \E k \in Packages : Abandon(k)
           \/ Outside
    PROVE  TypeOK' /\ WorkIsExternal'
<1> USE DEF IndInv
<1>1. JobsOK /\ job \in [Procs -> Jobs]
  BY JobsAre DEF TypeOK
<1>2. ASSUME NEW p \in Procs, Stop(p) PROVE TypeOK' /\ WorkIsExternal'
  <2>1. job' \in [Procs -> Jobs] /\ WorkIsExternal'
    BY <1>1, <1>2, Moved, IdleIsSound DEF Stop
  <2>2. stops' \in 0 .. MaxStops
    BY <1>2, SetupAssumption DEF Stop, TypeOK
  <2> QED BY <1>2, <2>1, <2>2 DEF Stop, TypeOK, ledger, effects
<1>3. ASSUME NEW k \in Packages, Abandon(k) PROVE TypeOK' /\ WorkIsExternal'
  <2>1. job' \in [Procs -> Jobs] /\ WorkIsExternal'
    BY <1>1, <1>3, AllMoved DEF Abandon
  <2> QED BY <1>3, <2>1 DEF Abandon, TypeOK, effects, faults
<1>4. CASE Outside
  <2>1. job' \in [Procs -> Jobs] /\ WorkIsExternal'
    BY <1>1, <1>4, AllMoved DEF Outside
  <2>2. outside' \in 0 .. MaxOutside
    BY <1>4, SetupAssumption DEF Outside, TypeOK
  <2>3. profile' \in BOOLEAN
    <3>1. profile' \in {FALSE, profile}
      BY <1>4, Zenon DEF Outside
    <3> QED BY <3>1, Zenon DEF TypeOK
  <2>4. stored' \in Keys \cup {NoKey} /\ author' \in Packages \cup {NoPackage}
    BY <1>4 DEF Outside, TypeOK
  <2> QED BY <1>4, <2>1, <2>2, <2>3, <2>4 DEF Outside, TypeOK, ledger
<1> QED BY <1>2, <1>3, <1>4

-----------------------------------------------------------------------------
\* begin, of all actions, is the one that makes a package pending or raises the
\* baseline; the others leave every pending package pending, end it, or leave
\* the ledger alone.
LEMMA LedgerOnlyEnds ==
    ASSUME IndInv, Next, \A p \in Procs : ~Begin(p)
    PROVE  /\ baseline' = baseline
           /\ \A k \in Packages : state'[k] = state[k]
                                  \/ (state[k] = "pending" /\ state'[k] # "pending")
<1> USE DEF IndInv
<1>1. ASSUME NEW p \in Procs, Continue(p)
      PROVE  /\ baseline' = baseline
             /\ \A k \in Packages : state'[k] = state[k]
                                    \/ (state[k] = "pending" /\ state'[k] # "pending")
  <2>1. CASE Complete(p)
    BY <2>1 DEF Complete, TypeOK
  <2>2. CASE ~Complete(p)
    <3>1. UNCHANGED <<state, baseline>>
      BY <1>1, <2>2 DEF Continue, PlanRetired, PlanStored, LookFirst, Place, Retire, Install,
                        Check, Mark, RelayStep, Final, ledger
    <3> QED BY <3>1
  <2> QED BY <2>1, <2>2
<1>2. ASSUME NEW k \in Packages, Abandon(k)
      PROVE  /\ baseline' = baseline
             /\ \A j \in Packages : state'[j] = state[j]
                                    \/ (state[j] = "pending" /\ state'[j] # "pending")
  BY <1>2 DEF Abandon, TypeOK
<1>3. CASE \/ \E p \in Procs : (\E k \in Packages : PlanDecide(p, k)) \/ Stop(p)
           \/ Outside
  BY <1>3 DEF PlanDecide, Stop, Outside, ledger
<1> QED BY <1>1, <1>2, <1>3 DEF Next

\* begin accepts a new package only when none is pending, and only above the
\* baseline, which it then is.
LEMMA BeginKeeps ==
    ASSUME IndInv, NEW p \in Procs, Begin(p)
    PROVE  PendingIsNewest' /\ BaselineCovers'
<1> USE DEF IndInv
<1> DEFINE k == job[p].pkg
<1>1. k \in Packages /\ Generation[k] \in Nat /\ baseline \in Nat
  <2>1. Sound(job[p]) /\ job[p].pc # "idle"
    BY JobsAre DEF JobsOK, Begin
  <2> QED BY <2>1, Running, SetupAssumption DEF TypeOK
<1>2. CASE Decide(k) = "Install"
  <2>1. state[k] = "none" /\ Accepted(k)
    BY <1>1, <1>2 DEF Decide, TypeOK
  <2>2. /\ state' = [state EXCEPT ![k] = "pending"]
        /\ baseline' = IF Generation[k] > baseline THEN Generation[k] ELSE baseline
    BY <1>2 DEF Begin
  <2>3. \A j \in Packages : state'[j] = "pending" => j = k
    BY <2>1, <2>2 DEF Accepted, PendingInStream, TypeOK
  <2>4. Generation[k] > 0 => baseline' = Generation[k]
    BY <1>1, <2>1, <2>2 DEF Accepted
  <2>5. baseline' \in Nat /\ baseline' >= baseline /\ baseline' >= Generation[k]
    BY <1>1, <2>2
  <2>6. \A j \in Packages : Generation[j] \in Nat /\ (state'[j] # "none" => j = k \/ state[j] # "none")
    BY <2>2, SetupAssumption DEF TypeOK
  <2>7. PendingIsNewest'
    BY <1>1, <2>3, <2>4 DEF PendingIsNewest, PendingInStream, Superseded
  <2>8. BaselineCovers'
    BY <1>1, <2>5, <2>6 DEF BaselineCovers
  <2> QED BY <2>7, <2>8
<1>3. CASE Decide(k) # "Install"
  <2>1. UNCHANGED <<state, baseline>>
    BY <1>3 DEF Begin, ledger
  <2> QED BY <2>1 DEF PendingIsNewest, PendingInStream, Superseded, BaselineCovers
<1> QED BY <1>2, <1>3

-----------------------------------------------------------------------------
\* An empty ledger.
LEMMA InitInv == Init => IndInv
<1> SUFFICES ASSUME Init PROVE IndInv
  OBVIOUS
<1>1. TypeOK
  <2>1. Idle \in Jobs
    BY DEF Jobs
  <2>2. profile \in BOOLEAN
    BY Zenon DEF Init
  <2> QED BY <2>1, <2>2, SetupAssumption DEF Init, TypeOK
<1>2. WorkIsExternal
  BY DEF Init, WorkIsExternal, Idle
<1>3. PendingIsNewest /\ BaselineCovers
  BY DEF Init, PendingIsNewest, BaselineCovers, PendingInStream
<1> QED BY <1>1, <1>2, <1>3 DEF IndInv

\* Every step keeps the invariant.
LEMMA NextInv == IndInv /\ [Next]_vars => IndInv'
<1> SUFFICES ASSUME IndInv, [Next]_vars PROVE IndInv'
  OBVIOUS
<1>1. CASE UNCHANGED vars
  BY <1>1 DEF vars, ledger, effects, faults, IndInv, TypeOK, WorkIsExternal, PendingIsNewest,
              BaselineCovers, PendingInStream, Superseded
<1>2. CASE Next
  <2>1. TypeOK' /\ WorkIsExternal'
    BY <1>2, PlanType, ApplyType, OtherType DEF Next, Continue
  <2>2. PendingIsNewest' /\ BaselineCovers'
    <3>1. ASSUME NEW p \in Procs, Begin(p) PROVE PendingIsNewest' /\ BaselineCovers'
      BY <3>1, BeginKeeps
    <3>2. CASE \A p \in Procs : ~Begin(p)
      BY <1>2, <3>2, LedgerOnlyEnds
         DEF IndInv, PendingIsNewest, BaselineCovers, PendingInStream, Superseded
    <3> QED BY <3>1, <3>2
  <2> QED BY <2>1, <2>2 DEF IndInv
<1> QED BY <1>1, <1>2

\* However many setups run at once, stop and are abandoned, the ledger is as
\* decide and begin need it.
THEOREM LedgerInvariant == Spec => []IndInv
BY InitInv, NextInv, PTL DEF Spec

\* The ledger, the effects and the setups have their types.
THEOREM TypeCorrect == Spec => []TypeOK
<1>1. IndInv => TypeOK
  BY DEF IndInv
<1> QED BY <1>1, LedgerInvariant, PTL

\* At most one package of a stream is pending, and none accepted since is newer:
\* decide's refusal of a superseded package is never met.
THEOREM OnePendingNewest == Spec => []PendingIsNewest
<1>1. IndInv => PendingIsNewest
  BY DEF IndInv
<1> QED BY <1>1, LedgerInvariant, PTL

\* The baseline is never below a package that was accepted, abandoned or not.
THEOREM BaselineStands == Spec => []BaselineCovers
<1>1. IndInv => BaselineCovers
  BY DEF IndInv
<1> QED BY <1>1, LedgerInvariant, PTL
=============================================================================
