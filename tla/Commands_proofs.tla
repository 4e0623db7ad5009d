--------------------------- MODULE Commands_proofs ---------------------------
(* Theorems about what servers and agents tell each other.  What a command *)
(* does, and what the answer to a deployment says, for any clock, any      *)
(* number of commands and faults (ProcessControl).  And how commands,      *)
(* answers, logs, files and heartbeats are written on the wire: what is    *)
(* packed is what is read, for any base, any texts, numbers, lists and     *)
(* streams, by peers of this version and of older ones (Wire and Cases).   *)
EXTENDS ProcessControl, Cases, FunctionTheorems, NaturalsInduction, WellFoundedInduction,
        SequenceTheorems, TLAPS

-----------------------------------------------------------------------------
(* Process control.                                                        *)

(* The health check of a deployment began with a backup, and nothing takes *)
(* backups away (ProcessDeployer.execute_deploy).                          *)
BackedUp == \A s \in Server : at[s] = "health" => backup # Nothing

LEMMA VersionFacts ==
  /\ Nothing \notin Version
  /\ \A c \in 0 .. CommandBound : c < CommandBound => c + 2 \in Version /\ c + 1 \in 0 .. CommandBound
  /\ 1 \in Version
  /\ Agents \in Version
BY ControlAssumption DEF Version, Nothing, Agents

(* A fault is counted within its bound.                                    *)
LEMMA FaultType ==
  ASSUME faults \in 0 .. FaultBound, NEW t \in BOOLEAN, Fault(t)
  PROVE  faults' \in 0 .. FaultBound
BY ControlAssumption DEF Fault

(* What kill_all leaves and what start adds are versions.                  *)
LEMMA StartTypes ==
  ASSUME alive \subseteq Version, NEW t \in BOOLEAN, NEW exe \in Version,
         NEW left \in Survivors(t), NEW new \in Started(t, exe)
  PROVE  left \union new \subseteq Version /\ left \subseteq Version /\ new \subseteq Version
BY DEF Survivors, Started

LEMMA KillTypes ==
  ASSUME alive \subseteq Version, NEW t \in BOOLEAN, NEW left \in Survivors(t)
  PROVE  left \subseteq Version
BY DEF Survivors

LEMMA CopiedType ==
  ASSUME staged \in [Part -> Version \union {Nothing}], files \in [Part -> Version],
         NEW parts \in SUBSET StagedParts
  PROVE  Copied(parts) \in [Part -> Version]
BY DEF Copied, StagedParts

LEMMA TypeInit == Init => TypeOK /\ BackedUp
<1> SUFFICES ASSUME Init PROVE TypeOK /\ BackedUp
  OBVIOUS
<1>1. /\ alive \subseteq Version /\ files \in [Part -> Version]
      /\ found \in [Server -> Version] /\ put \in [Server -> Version]
  BY VersionFacts DEF Init
<1>2. /\ staged \in [Part -> Version \union {Nothing}]
      /\ writing \in [Server -> [todo : SUBSET Part, version : Version]]
  BY VersionFacts DEF Init, NoFiles
<1>3. /\ sched \in [stage : {"idle", "killed", "started"}, attempt : 0 .. 2]
      /\ times \subseteq 0 .. DayLength - 1
      /\ now \in 0 .. LastMinute /\ commands \in 0 .. CommandBound /\ faults \in 0 .. FaultBound
  BY ControlAssumption DEF Init, Idle
<1> QED
  BY <1>1, <1>2, <1>3 DEF Init, TypeOK, BackedUp

(* Every action keeps the types, and a deployment's backup.  What an       *)
(* action leaves alone keeps its type because it is unchanged.             *)
LEMMA TypeStep == TypeOK /\ BackedUp /\ [Next]_vars => TypeOK' /\ BackedUp'
<1> SUFFICES ASSUME TypeOK, BackedUp, [Next]_vars PROVE TypeOK' /\ BackedUp'
  OBVIOUS
<1> USE DEF TypeOK, BackedUp
<1>v. /\ \A v \in Version : v # Nothing
      /\ files["exe"] \in Version
      /\ \A s \in Server : at[s] = "health" => backup \in Version
  BY VersionFacts DEF Part
<1>r. \A v \in Version : Restored(files, v) \in [Part -> Version]
  BY DEF Restored, Part
<1>b. \A s \in Server : BeginDeploy(s) =>
        /\ backup' \in Version
        /\ found' \in [Server -> Version]
        /\ commands' \in 0 .. CommandBound
  BY <1>v, VersionFacts DEF BeginDeploy, Command
<1>c. \A s \in Server : Command(s) => commands' \in 0 .. CommandBound /\ commands + 2 \in Version
  BY VersionFacts DEF Command
<1>n. ASSUME NextAttempt
      PROVE  /\ alive' \subseteq Version
             /\ sched' \in [stage : {"idle", "killed", "started"}, attempt : 0 .. 2]
             /\ faults' \in 0 .. FaultBound
  <2>1. CASE sched.attempt < 2
    <3>1. KillFor(sched.attempt + 1) /\ sched.attempt + 1 \in 0 .. 2
      BY <1>n, <2>1 DEF NextAttempt
    <3> QED
      BY <3>1, FaultType, KillTypes DEF KillFor
  <2>2. CASE ~(sched.attempt < 2)
    BY <1>n, <2>2 DEF NextAttempt, Idle
  <2> QED
    BY <2>1, <2>2
<1>g. ASSUME AgentGone
      PROVE  /\ writing' \in [Server -> [todo : SUBSET Part, version : Version]]
             /\ at' = [s \in Server |-> "idle"]
             /\ mon' = "idle" /\ prev' = "unknown" /\ triggered' = {} /\ scheduler' \in BOOLEAN
             /\ sched' \in [stage : {"idle", "killed", "started"}, attempt : 0 .. 2]
  BY <1>g DEF AgentGone, Idle
<1>d. ASSUME NEW up \in BOOLEAN, Decide(up)
      PROVE  /\ alive' \subseteq Version
             /\ mon' \in {"idle", "down", "told"}
             /\ prev' \in {"unknown", "up", "down"}
             /\ faults' \in 0 .. FaultBound
  <2>1. CASE \E t \in BOOLEAN : \E new \in Started(t, files["exe"]) :
               /\ Fault(t)
               /\ alive' = alive \union new
               /\ mon' = IF new = {} THEN "idle" ELSE "told"
               /\ UNCHANGED prev
    BY <2>1, <1>v, FaultType DEF Started
  <2>2. CASE ~\E t \in BOOLEAN : \E new \in Started(t, files["exe"]) :
               /\ Fault(t)
               /\ alive' = alive \union new
               /\ mon' = IF new = {} THEN "idle" ELSE "told"
               /\ UNCHANGED prev
    BY <1>d, <2>2 DEF Decide
  <2> QED
    BY <2>1, <2>2
<1>1. ASSUME NEW s \in Server, BareRestart(s) PROVE TypeOK' /\ BackedUp'
  BY <1>1, <1>v, <1>c, FaultType, StartTypes DEF BareRestart, program, deploys, monitor, schedule, bounds
<1>2. ASSUME NEW s \in Server, Stop(s) PROVE TypeOK' /\ BackedUp'
  BY <1>2, <1>c, FaultType, KillTypes DEF Stop, AutoAfter, program, deploys, monitor, schedule, bounds
<1>3. ASSUME NEW s \in Server, Start(s) PROVE TypeOK' /\ BackedUp'
  BY <1>3, <1>v, <1>c, FaultType DEF Start, AutoAfter, Started, program, deploys, monitor, schedule, bounds
<1>4. ASSUME NEW s \in Server, Backup(s) PROVE TypeOK' /\ BackedUp'
  BY <1>4, <1>v, <1>c DEF Backup, program, deploys, monitor, schedule, bounds
<1>5. ASSUME NEW s \in Server, Rollback(s) PROVE TypeOK' /\ BackedUp'
  BY <1>5, <1>v, <1>c, <1>r, FaultType, StartTypes, KillTypes DEF Rollback, program, deploys, monitor, schedule, bounds
<1>6. ASSUME NEW s \in Server, Deploy(s) PROVE TypeOK' /\ BackedUp'
  <2>1. files' \in [Part -> Version] /\ files'["exe"] \in Version
    BY <1>6, CopiedType DEF Deploy, Part
  <2>2. /\ backup' \in Version /\ found' \in [Server -> Version]
        /\ commands' \in 0 .. CommandBound
    BY <1>6, <1>b DEF Deploy
  <2>3. put' \in [Server -> Version]
    BY <1>6, <2>1 DEF Deploy
  <2>4. alive' \subseteq Version /\ faults' \in 0 .. FaultBound
    BY <1>6, <2>1, FaultType, StartTypes DEF Deploy
  <2>5. /\ at' \in [Server -> {"idle", "extracting", "health", "updating"}]
        /\ staged' \in [Part -> Version \union {Nothing}]
    BY <1>6 DEF Deploy, NoFiles
  <2> QED
    BY <1>6, <1>v, <2>1, <2>2, <2>3, <2>4, <2>5 DEF Deploy, program, deploys, monitor, schedule, bounds
<1>7. ASSUME NEW s \in Server, DeployFails(s) PROVE TypeOK' /\ BackedUp'
  <2>1. PICK parts \in SUBSET StagedParts : files' = Restored(Copied(parts), files["exe"])
    BY <1>7 DEF DeployFails
  <2>2. files' \in [Part -> Version]
    BY <1>v, <2>1, CopiedType DEF Restored
  <2>3. /\ backup' \in Version /\ found' \in [Server -> Version]
        /\ commands' \in 0 .. CommandBound
    BY <1>7, <1>b DEF DeployFails
  <2>4. alive' \subseteq Version /\ faults' \in 0 .. FaultBound
    BY <1>7, <1>v, FaultType DEF DeployFails, Started
  <2> QED
    BY <1>7, <1>v, <2>2, <2>3, <2>4 DEF DeployFails, program, deploys, monitor, schedule, bounds
<1>8. ASSUME NEW s \in Server, HealthGood(s) PROVE TypeOK' /\ BackedUp'
  BY <1>8 DEF HealthGood, NoFiles, program, deploys, monitor, schedule, bounds
<1>9. ASSUME NEW s \in Server, HealthBad(s) PROVE TypeOK' /\ BackedUp'
  BY <1>9, <1>v, <1>r, FaultType, StartTypes DEF HealthBad, program, deploys, monitor, schedule, bounds
<1>10. ASSUME NEW s \in Server, Stage(s) PROVE TypeOK' /\ BackedUp'
  BY <1>10, <1>c DEF Stage, NoFiles, Part, program, deploys, monitor, schedule, bounds
<1>11. ASSUME NEW s \in Server, StageFile(s) PROVE TypeOK' /\ BackedUp'
  BY <1>11, <1>c DEF StageFile, Part, program, deploys, monitor, schedule, bounds
<1>12. ASSUME NEW s \in Server, Extract(s) PROVE TypeOK' /\ BackedUp'
  BY <1>12 DEF Extract, program, deploys, monitor, schedule, bounds
<1>13. ASSUME NEW s \in Server, Staged(s) PROVE TypeOK' /\ BackedUp'
  BY <1>13 DEF Staged, program, deploys, monitor, schedule, bounds
<1>14. ASSUME NEW s \in Server, StageAgent(s) PROVE TypeOK' /\ BackedUp'
  BY <1>14, <1>c, VersionFacts DEF StageAgent, program, deploys, monitor, schedule, bounds
<1>15. ASSUME NEW s \in Server, UpdateAgent(s) PROVE TypeOK' /\ BackedUp'
  BY <1>15, <1>g DEF UpdateAgent, NoFiles, program, deploys, monitor, schedule, bounds
<1>16. ASSUME NEW s \in Server, LoseConnection(s) PROVE TypeOK' /\ BackedUp'
  BY <1>16, FaultType DEF LoseConnection, program, deploys, monitor, schedule, bounds
<1>17. ASSUME NEW s \in Server, Reload(s) PROVE TypeOK' /\ BackedUp'
  BY <1>17, <1>c DEF Reload, program, deploys, monitor, schedule, bounds
<1>18. ASSUME Crash PROVE TypeOK' /\ BackedUp'
  BY <1>18, FaultType DEF Crash, program, deploys, monitor, schedule, bounds
<1>19. ASSUME AgentCrash PROVE TypeOK' /\ BackedUp'
  BY <1>19, <1>g, FaultType DEF AgentCrash, program, deploys, monitor, schedule, bounds
<1>20. ASSUME Check PROVE TypeOK' /\ BackedUp'
  BY <1>20, <1>d DEF Check, program, deploys, monitor, schedule, bounds
<1>21. ASSUME CheckGoesOn PROVE TypeOK' /\ BackedUp'
  BY <1>21, <1>d DEF CheckGoesOn, program, deploys, monitor, schedule, bounds
<1>22. ASSUME RestartTold PROVE TypeOK' /\ BackedUp'
  BY <1>22 DEF RestartTold, program, deploys, monitor, schedule, bounds
<1>23. ASSUME Tick PROVE TypeOK' /\ BackedUp'
  BY <1>23, ControlAssumption DEF Tick, program, deploys, monitor, schedule, bounds
<1>24. ASSUME Trigger PROVE TypeOK' /\ BackedUp'
  <2>1. alive' \subseteq Version /\ faults' \in 0 .. FaultBound
    BY <1>24, FaultType, KillTypes DEF Trigger, KillFor
  <2>2. sched' \in [stage : {"idle", "killed", "started"}, attempt : 0 .. 2]
    BY <1>24 DEF Trigger, KillFor
  <2>3. triggered' \subseteq 0 .. LastMinute
    BY <1>24 DEF Trigger
  <2> QED
    BY <1>24, <2>1, <2>2, <2>3 DEF Trigger, program, deploys, monitor, schedule, bounds
<1>25. ASSUME ScheduledStart PROVE TypeOK' /\ BackedUp'
  BY <1>25, <1>v DEF ScheduledStart, program, deploys, monitor, schedule, bounds
<1>26. ASSUME ScheduledStartRaises PROVE TypeOK' /\ BackedUp'
  BY <1>26, <1>n DEF ScheduledStartRaises, program, deploys, monitor, schedule, bounds
<1>27. ASSUME ScheduledVerify PROVE TypeOK' /\ BackedUp'
  BY <1>27, <1>n DEF ScheduledVerify, Idle, program, deploys, monitor, schedule, bounds
<1>28. CASE UNCHANGED vars
  BY <1>28 DEF vars, program, deploys, monitor, schedule, bounds
<1> QED
  BY <1>1, <1>2, <1>3, <1>4, <1>5, <1>6, <1>7, <1>8, <1>9, <1>10, <1>11, <1>12, <1>13, <1>14, <1>15, <1>16, <1>17, <1>18, <1>19, <1>20, <1>21, <1>22, <1>23, <1>24, <1>25, <1>26, <1>27, <1>28 DEF Next

(* The variables keep their types (ProcessControl.TypeOK).                 *)
THEOREM ControlTypes == Spec => []TypeOK
<1>1. Spec => [](TypeOK /\ BackedUp)
  BY TypeInit, TypeStep, PTL DEF Spec
<1> QED
  BY <1>1, PTL

-----------------------------------------------------------------------------
(* With one server, what a health check found and put in place stays, since *)
(* the files and the backup change by its commands only, and its handler is *)
(* at its await.                                                            *)
Untouched ==
  \A s \in Server : at[s] = "health" => files["exe"] = put[s] /\ backup = found[s]

(* The agent's process ends, either way.                                    *)
UpdateAgentOrCrash == AgentCrash \/ \E s \in Server : UpdateAgent(s)

LEMMA UntouchedStep ==
  ASSUME \A s, t \in Server : s = t, TypeOK, Untouched, [Next]_vars
  PROVE  Untouched'
<1> USE DEF TypeOK, Untouched
<1>1. CASE UNCHANGED <<files, backup, at, put, found>>
  BY <1>1
<1>2. ASSUME NEW s \in Server, at'[s] # "health"
      PROVE  Untouched'
  BY <1>2
<1>3. ASSUME NEW s \in Server, Deploy(s) PROVE Untouched'
  BY <1>3 DEF Deploy, BeginDeploy, Command
<1>4. ASSUME NEW s \in Server,
             \/ BareRestart(s) \/ Stop(s) \/ Start(s) \/ Backup(s) \/ Rollback(s)
             \/ DeployFails(s) \/ StageFile(s) \/ Reload(s)
      PROVE  Untouched'
  <2>1. at'[s] = "idle"
    BY <1>4 DEF BareRestart, Stop, Start, Backup, Rollback, DeployFails, BeginDeploy,
                StageFile, Reload, Command, deploys
  <2> QED
    BY <1>2, <2>1
<1>5. ASSUME NEW s \in Server,
             \/ HealthGood(s) \/ HealthBad(s) \/ Stage(s) \/ Staged(s) \/ StageAgent(s)
             \/ LoseConnection(s)
      PROVE  Untouched'
  <2>1. at'[s] # "health"
    BY <1>5 DEF HealthGood, HealthBad, Stage, Staged, StageAgent, LoseConnection
  <2> QED
    BY <1>2, <2>1
<1>6. ASSUME UpdateAgentOrCrash PROVE Untouched'
  BY <1>6 DEF UpdateAgentOrCrash, UpdateAgent, AgentCrash, AgentGone
<1>7. ASSUME \/ \E s \in Server : Extract(s)
             \/ Crash \/ Check \/ CheckGoesOn \/ RestartTold \/ Tick \/ Trigger
             \/ ScheduledStart \/ ScheduledStartRaises \/ ScheduledVerify
             \/ UNCHANGED vars
      PROVE  Untouched'
  BY <1>1, <1>7 DEF Extract, Crash, Check, CheckGoesOn, RestartTold, Tick, Trigger,
     ScheduledStart, ScheduledStartRaises, ScheduledVerify, vars, program, deploys
<1> QED
  BY <1>3, <1>4, <1>5, <1>6, <1>7 DEF Next, UpdateAgentOrCrash

LEMMA OutcomeStep ==
  ASSUME TypeOK, Untouched, NEW s \in Server
  PROVE  /\ HealthGood(s) => files["exe"] = put[s] /\ backup = found[s]
         /\ HealthBad(s) => files'["exe"] = found[s]
BY DEF TypeOK, Untouched, HealthGood, HealthBad, Restored, Part

(* When one server gives the commands, the answer to a deployment is true:  *)
(* ProcessDeployer.execute_deploy verifies the executable it put in place   *)
(* and rolls back to the one it found.                                      *)
THEOREM OutcomesTrue ==
  ASSUME \A s, t \in Server : s = t
  PROVE  Spec => OutcomeIsTrue
<1>1. Init => Untouched
  BY DEF Init, Untouched
<1>2. TypeOK /\ Untouched /\ [Next]_vars => Untouched'
  BY UntouchedStep
<1>3. TypeOK /\ Untouched => [\A s \in Server :
         /\ HealthGood(s) => files["exe"] = put[s] /\ backup = found[s]
         /\ HealthBad(s) => files'["exe"] = found[s]]_vars
  BY OutcomeStep
<1> QED
  BY <1>1, <1>2, <1>3, ControlTypes, PTL DEF Spec, OutcomeIsTrue

-----------------------------------------------------------------------------
(* Sequences, and functions defined by recursion over an interval.         *)

\* A set of naturals has a least one.
LEMMA LeastNatural ==
  ASSUME NEW T, T \subseteq Nat, T # {}
  PROVE  \E x \in T : \A y \in T : x <= y
<1> DEFINE less == OpToRel(<, Nat)
<1>1. IsWellFoundedOn(less, Nat)
  BY NatLessThanWellFounded
<1>2. \A x, y \in Nat : x < y => <<x, y>> \in less
  BY DEF OpToRel
<1> HIDE DEF less
<1>3. PICK x \in T : \A y \in T : ~(<<y, x>> \in less)
  BY <1>1, WFMin
<1>4. ASSUME NEW y \in T PROVE x <= y
  <2>1. x \in Nat /\ y \in Nat /\ ~(y < x)
    BY <1>2, <1>3
  <2>2. QED
    BY <2>1
<1>5. QED
  BY <1>4

\* What holds at 0 and goes on from each number to the next holds up to n: the
\* induction that the proofs below use, over an interval.
LEMMA Upward ==
  ASSUME NEW n \in Nat, NEW T, 0 \in T, \A i \in 1 .. n : i - 1 \in T => i \in T
  PROVE  \A i \in 0 .. n : i \in T
<1> DEFINE B == {i \in 0 .. n : i \notin T}
<1>1. ASSUME B # {} PROVE FALSE
  <2>1. B \subseteq Nat
    OBVIOUS
  <2>2. PICK i \in B : \A y \in B : i <= y
    BY <1>1, <2>1, LeastNatural
  <2>3. i \in 1 .. n /\ i - 1 \in 0 .. n /\ ~(i <= i - 1)
    OBVIOUS
  <2>4. i - 1 \in T
    BY <2>2, <2>3
  <2>5. QED
    BY <2>3, <2>4
<1>2. QED
  BY <1>1

\* A function each of whose values follows from the one before exists.
Follows(f, n, A, a, H) ==
  f \in [0 .. n -> A] /\ f[0] = a /\ \A i \in 1 .. n : f[i] = H[i][f[i - 1]]

\* A recursive function over an interval exists: the functions that Wire defines by
\* recursion are the ones that follow their equation.
LEMMA Recursion ==
  ASSUME NEW n \in Nat, NEW A, NEW a \in A, NEW H \in [1 .. n -> [A -> A]]
  PROVE  \E f : Follows(f, n, A, a, H)
<1> DEFINE Has(m) == \E f \in [0 .. m -> A] : f[0] = a /\ \A i \in 1 .. m : f[i] = H[i][f[i - 1]]
<1> DEFINE T == {m \in 0 .. n : Has(m)}
<1>1. 0 \in T
  <2> DEFINE g == [i \in 0 .. 0 |-> a]
  <2>1. g \in [0 .. 0 -> A] /\ g[0] = a
    OBVIOUS
  <2>2. \A i \in 1 .. 0 : FALSE
    OBVIOUS
  <2> HIDE DEF g
  <2>3. Has(0)
    BY <2>1, <2>2
  <2>4. 0 \in 0 .. n
    OBVIOUS
  <2> HIDE DEF Has
  <2>5. QED
    BY <2>3, <2>4
<1>2. ASSUME NEW m \in 1 .. n, m - 1 \in T PROVE m \in T
  <2>1. PICK f \in [0 .. m - 1 -> A] : f[0] = a /\ \A i \in 1 .. m - 1 : f[i] = H[i][f[i - 1]]
    BY <1>2
  <2> DEFINE g == [i \in 0 .. m |-> IF i = m THEN H[m][f[m - 1]] ELSE f[i]]
  <2>2. f[m - 1] \in A /\ H[m] \in [A -> A]
    OBVIOUS
  <2>3. H[m][f[m - 1]] \in A
    BY <2>2
  <2>4. g \in [0 .. m -> A]
    BY <2>3
  <2>5. g[0] = a
    BY <2>1
  <2>6. ASSUME NEW i \in 1 .. m PROVE g[i] = H[i][g[i - 1]]
    <3>1. i - 1 \in 0 .. m /\ i - 1 # m /\ i \in 0 .. m
      OBVIOUS
    <3>2. g[i - 1] = f[i - 1]
      BY <3>1
    <3>3. CASE i = m
      BY <3>1, <3>2, <3>3
    <3>4. CASE i # m
      <4>1. i \in 1 .. m - 1
        BY <3>4
      <4>2. g[i] = f[i]
        BY <3>1, <3>4
      <4>3. QED
        BY <2>1, <3>2, <4>1, <4>2
    <3>5. QED
      BY <3>3, <3>4
  <2> HIDE DEF g
  <2>7. Has(m)
    BY <2>4, <2>5, <2>6
  <2>8. m \in 0 .. n
    OBVIOUS
  <2> HIDE DEF Has
  <2>9. QED
    BY <2>7, <2>8
<1> HIDE DEF T, Has
<1>3. n \in T
  <2>1. \A i \in 0 .. n : i \in T
    BY <1>1, <1>2, Upward
  <2>2. QED
    BY <2>1
<1>4. QED
  BY <1>3 DEF T, Has, Follows

\* Sequences put one after the other, by their front parts.
LEMMA FlattenIs ==
  ASSUME NEW S, NEW seqs \in Seq(Seq(S))
  PROVE  \E f \in [0 .. Len(seqs) -> Seq(S)] :
           /\ f[0] = <<>>
           /\ \A i \in 1 .. Len(seqs) : f[i] = f[i - 1] \o seqs[i]
           /\ FlattenSeq(seqs) = f[Len(seqs)]
<1> DEFINE n == Len(seqs)
<1>1. n \in Nat /\ \A i \in 1 .. n : seqs[i] \in Seq(S)
  BY LenProperties, ElementOfSeq
<1> HIDE DEF n
<1> DEFINE H == [i \in 1 .. n |-> [x \in Seq(S) |-> x \o seqs[i]]]
<1>2. n \in Nat /\ H \in [1 .. n -> [Seq(S) -> Seq(S)]]
  BY <1>1, ConcatProperties
<1>3. <<>> \in Seq(S)
  OBVIOUS
<1>4. PICK f \in [0 .. n -> Seq(S)] : f[0] = <<>> /\ \A i \in 1 .. n : f[i] = H[i][f[i - 1]]
  <2> HIDE DEF H
  <2>1. \E f : Follows(f, n, Seq(S), <<>>, H)
    BY <1>2, <1>3, Recursion
  <2>2. QED
    BY <2>1 DEF Follows
<1>5. \A i \in 1 .. n : i - 1 \in 0 .. n /\ f[i - 1] \in Seq(S)
  BY <1>1
<1>6. \A i \in 1 .. n : f[i] = f[i - 1] \o seqs[i]
  BY <1>4, <1>5
<1>61. ASSUME 1 \in 1 .. n PROVE f[1] = seqs[1]
  <2>1. 1 - 1 = 0
    OBVIOUS
  <2>2. f[1] = f[0] \o seqs[1]
    BY <1>6, <1>61, <2>1
  <2>3. QED
    BY <1>1, <1>4, <1>61, <2>2, ConcatEmptySeq
<1>7. FlattenSeq(seqs) = f[n]
  <2>1. CASE n = 0
    <3>1. seqs = <<>>
      BY <2>1, EmptySeq DEF n
    <3>2. QED
      BY <1>4, <2>1, <3>1 DEF FlattenSeq, n
  <2>2. CASE n # 0
    <3> DEFINE Eqn(g) == g = [i \in 1 .. n |-> IF i = 1 THEN seqs[i] ELSE g[i - 1] \o seqs[i]]
    <3> DEFINE g == CHOOSE g : Eqn(g)
    <3>1. FlattenSeq(seqs) = g[n]
      BY <2>2 DEF FlattenSeq, n
    <3> DEFINE h == [i \in 1 .. n |-> f[i]]
    <3>2. Eqn(h)
      <4>1. ASSUME NEW i \in 1 .. n
            PROVE  h[i] = IF i = 1 THEN seqs[i] ELSE h[i - 1] \o seqs[i]
        <5>1. CASE i = 1
          BY <1>61, <5>1
        <5>2. CASE i # 1
          <6>1. i - 1 \in 1 .. n
            BY <1>1, <5>2
          <6>2. h[i - 1] = f[i - 1] /\ h[i] = f[i]
            BY <6>1
          <6> HIDE DEF h
          <6>3. QED
            BY <1>6, <5>2, <6>2
        <5>3. QED
          BY <5>1, <5>2
      <4>2. h = [i \in 1 .. n |-> h[i]]
        OBVIOUS
      <4> HIDE DEF h
      <4>3. QED
        BY <4>1, <4>2
    <3>3. Eqn(g)
      <4> HIDE DEF h, Eqn
      <4>1. QED
        BY <3>2
    <3>4. \A i \in 1 .. n : g[i] = IF i = 1 THEN seqs[i] ELSE g[i - 1] \o seqs[i]
      <4> HIDE DEF g
      <4>1. QED
        BY <3>3
    <3> HIDE DEF g
    <3> DEFINE T == {i \in 0 .. n : i = 0 \/ g[i] = f[i]}
    <3>5. ASSUME NEW i \in 1 .. n, i - 1 \in T PROVE i \in T
      <4>1. CASE i = 1
        <5>1. f[1] = h[1] /\ g[1] = seqs[1]
          BY <3>4, <4>1
        <5>2. f[1] = seqs[1]
          BY <1>61, <4>1
        <5>3. QED
          BY <4>1, <5>1, <5>2
      <4>2. CASE i # 1
        <5>1. g[i - 1] = f[i - 1]
          BY <3>5, <4>2
        <5>2. g[i] = g[i - 1] \o seqs[i]
          BY <3>4, <4>2
        <5>3. f[i] = f[i - 1] \o seqs[i]
          BY <1>6
        <5>4. g[i] = f[i] /\ i \in 0 .. n
          <6>1. g[i] = f[i]
            BY <5>1, <5>2, <5>3
          <6>2. QED
            BY <6>1
        <5>5. QED
          BY <5>4
      <4>3. QED
        BY <4>1, <4>2
    <3>6. 0 \in T
      BY <1>1
    <3>7. n \in T
      <4> HIDE DEF T
      <4>1. \A i \in 0 .. n : i \in T
        BY <1>1, <3>5, <3>6, Upward
      <4>2. QED
        BY <1>1, <4>1
    <3>8. QED
      BY <2>2, <3>1, <3>7
  <2>3. QED
    BY <2>1, <2>2
<1>8. QED
  BY <1>4, <1>6, <1>7 DEF n


\* t begins with s.
Begins(s, t) == Len(s) <= Len(t) /\ \A k \in 1 .. Len(s) : t[k] = s[k]

\* What a sequence begins with, a longer one begins with.
LEMMA BeginsMore ==
  ASSUME NEW S, NEW r \in Seq(S), NEW s \in Seq(S), NEW t \in Seq(S), Begins(r, s)
  PROVE  Begins(r, s \o t)
<1>1. Len(r) \in Nat /\ Len(s) \in Nat /\ Len(t) \in Nat
  BY LenProperties
<1>2. Len(s \o t) = Len(s) + Len(t) /\ \A k \in 1 .. Len(s) : (s \o t)[k] = s[k]
  BY <1>1, ConcatProperties
<1>3. QED
  BY <1>1, <1>2 DEF Begins

\* What is put one after the other: up to each part it begins with those before.
LEMMA FlatParts ==
  ASSUME NEW S, NEW seqs \in Seq(Seq(S))
  PROVE  \E f \in [0 .. Len(seqs) -> Seq(S)] :
           /\ f[0] = <<>>
           /\ \A i \in 1 .. Len(seqs) : f[i] = f[i - 1] \o seqs[i]
           /\ FlattenSeq(seqs) = f[Len(seqs)]
           /\ \A i \in 0 .. Len(seqs) : Begins(f[i], FlattenSeq(seqs))
<1> DEFINE n == Len(seqs)
<1>1. n \in Nat /\ \A i \in 1 .. n : seqs[i] \in Seq(S)
  BY LenProperties, ElementOfSeq
<1>2. PICK f \in [0 .. n -> Seq(S)] :
        f[0] = <<>> /\ (\A i \in 1 .. n : f[i] = f[i - 1] \o seqs[i]) /\ FlattenSeq(seqs) = f[n]
  BY FlattenIs
<1> HIDE DEF n
<1> DEFINE T == {m \in 0 .. n : \A i \in 0 .. m : Begins(f[i], f[m])}
<1>3. 0 \in T
  <2>1. Begins(f[0], f[0])
    BY <1>2, LenProperties DEF Begins
  <2>2. 0 \in 0 .. n /\ \A i \in 0 .. 0 : i = 0
    BY <1>1
  <2>3. QED
    BY <2>1, <2>2
<1>4. ASSUME NEW m \in 1 .. n, m - 1 \in T PROVE m \in T
  <2>1. m - 1 \in 0 .. n /\ m \in 0 .. n
    BY <1>1
  <2>2. f[m] = f[m - 1] \o seqs[m] /\ f[m - 1] \in Seq(S) /\ seqs[m] \in Seq(S)
    BY <1>1, <1>2, <2>1
  <2>3. ASSUME NEW i \in 0 .. m PROVE Begins(f[i], f[m])
    <3>1. CASE i = m
      <4>1. Len(f[m]) \in Nat
        BY <2>1, LenProperties
      <4>2. QED
        BY <3>1, <4>1 DEF Begins
    <3>2. CASE i # m
      <4>1. i \in 0 .. m - 1 /\ i \in 0 .. n
        BY <1>1, <3>2
      <4>2. Begins(f[i], f[m - 1]) /\ f[i] \in Seq(S)
        BY <1>4, <4>1
      <4>3. QED
        BY <2>2, <4>2, BeginsMore
    <3>3. QED
      BY <3>1, <3>2
  <2>4. QED
    BY <2>1, <2>3
<1> HIDE DEF T
<1>5. n \in T
  <2>1. \A i \in 0 .. n : i \in T
    BY <1>1, <1>3, <1>4, Upward
  <2>2. QED
    BY <1>1, <2>1
<1>6. QED
  BY <1>2, <1>5 DEF n, T


\* What a subsequence is.
LEMMA SubSeqIs ==
  ASSUME NEW S, NEW s \in Seq(S), NEW m \in Nat, NEW n \in Nat, m <= n, n <= Len(s)
  PROVE  /\ SubSeq(s, m + 1, n) \in Seq(S) /\ Len(SubSeq(s, m + 1, n)) = n - m
         /\ \A k \in 1 .. n - m : SubSeq(s, m + 1, n)[k] = s[m + k]
<1>1. Len(s) \in Nat
  BY LenProperties
<1>2. \A k \in m + 1 .. n : s[k] \in S
  BY <1>1, ElementOfSeq
<1>3. m + 1 \in Int /\ n \in Int
  OBVIOUS
<1> DEFINE u == SubSeq(s, m + 1, n)
<1>4. /\ u \in Seq(S) /\ Len(u) = IF m + 1 <= n THEN n - (m + 1) + 1 ELSE 0
      /\ \A k \in 1 .. n - (m + 1) + 1 : u[k] = s[m + 1 + k - 1]
  BY <1>2, <1>3, SubSeqProperties
<1> HIDE DEF u
<1>5. Len(u) = n - m
  BY <1>4
<1>6. ASSUME NEW k \in 1 .. n - m PROVE u[k] = s[m + k]
  <2>1. k \in 1 .. n - (m + 1) + 1 /\ m + 1 + k - 1 = m + k
    OBVIOUS
  <2>2. u[k] = s[m + 1 + k - 1]
    BY <1>4, <2>1
  <2>3. QED
    BY <2>1, <2>2
<1>7. QED
  BY <1>4, <1>5, <1>6 DEF u

\* In a whole of two parts each is where it was put.
LEMMA TwoParts ==
  ASSUME NEW S, NEW s \in Seq(S), NEW t \in Seq(S)
  PROVE  /\ s \o t \in Seq(S) /\ Len(s \o t) = Len(s) + Len(t)
         /\ SubSeq(s \o t, 1, Len(s)) = s
         /\ SubSeq(s \o t, Len(s) + 1, Len(s) + Len(t)) = t
<1>1. Len(s) \in Nat /\ Len(t) \in Nat
  BY LenProperties
<1> DEFINE u == s \o t
<1>2. /\ u \in Seq(S) /\ Len(u) = Len(s) + Len(t)
      /\ \A i \in 1 .. Len(s) + Len(t) : u[i] = IF i <= Len(s) THEN s[i] ELSE t[i - Len(s)]
  BY ConcatProperties
<1> HIDE DEF u
<1>3. SubSeq(u, 1, Len(s)) = s
  <2>1. 0 \in Nat /\ 0 <= Len(s) /\ Len(s) <= Len(u) /\ 0 + 1 = 1 /\ Len(s) - 0 = Len(s)
    BY <1>1, <1>2
  <2>2. /\ SubSeq(u, 1, Len(s)) \in Seq(S) /\ Len(SubSeq(u, 1, Len(s))) = Len(s)
        /\ \A k \in 1 .. Len(s) : SubSeq(u, 1, Len(s))[k] = u[0 + k]
    BY <1>1, <1>2, <2>1, SubSeqIs
  <2>3. \A k \in 1 .. Len(s) : k \in 1 .. Len(s) + Len(t) /\ 0 + k = k /\ k <= Len(s)
    BY <1>1
  <2>4. \A k \in 1 .. Len(s) : SubSeq(u, 1, Len(s))[k] = s[k]
    BY <1>2, <2>2, <2>3
  <2>5. QED
    BY <2>2, <2>4, SeqEqual
<1>4. SubSeq(u, Len(s) + 1, Len(s) + Len(t)) = t
  <2> DEFINE v == SubSeq(u, Len(s) + 1, Len(s) + Len(t))
  <2>1. /\ Len(s) + Len(t) \in Nat /\ Len(s) <= Len(s) + Len(t)
        /\ Len(s) + Len(t) <= Len(u) /\ Len(s) + Len(t) - Len(s) = Len(t)
    BY <1>1, <1>2
  <2>2. v \in Seq(S) /\ Len(v) = Len(t) /\ \A k \in 1 .. Len(t) : v[k] = u[Len(s) + k]
    BY <1>1, <1>2, <2>1, SubSeqIs
  <2> HIDE DEF v
  <2>3. \A k \in 1 .. Len(t) :
          Len(s) + k \in 1 .. Len(s) + Len(t) /\ ~(Len(s) + k <= Len(s)) /\ Len(s) + k - Len(s) = k
    BY <1>1
  <2>4. \A k \in 1 .. Len(t) : v[k] = t[k]
    BY <1>2, <2>2, <2>3
  <2>5. v = t
    BY <2>2, <2>4, SeqEqual
  <2>6. QED
    BY <2>5 DEF v
<1>5. QED
  BY <1>2, <1>3, <1>4 DEF u

\* A set that has the empty sequence, and each sequence whose front it has, has them all.
LEMMA SeqUpward ==
  ASSUME NEW S, NEW T, <<>> \in T, \A s \in Seq(S), e \in S : s \in T => Append(s, e) \in T
  PROVE  Seq(S) \subseteq T
<1> SUFFICES ASSUME NEW s \in Seq(S) PROVE s \in T
  OBVIOUS
<1>1. Len(s) \in Nat
  BY LenProperties
<1> DEFINE M == {m \in 0 .. Len(s) : SubSeq(s, 1, m) \in T}
<1>2. 0 \in M
  <2>1. SubSeq(s, 1, 0) = <<>>
    BY SubSeqEmpty
  <2>2. 0 \in 0 .. Len(s)
    BY <1>1
  <2>3. QED
    BY <2>1, <2>2, Zenon
<1>3. ASSUME NEW m \in 1 .. Len(s), m - 1 \in M PROVE m \in M
  <2>1. m - 1 \in Nat /\ m - 1 <= Len(s) /\ m \in 0 .. Len(s)
    BY <1>1
  <2>2. SubSeq(s, 1, m - 1) \in Seq(S)
    <3>1. \A i \in 1 .. m - 1 : s[i] \in S
      BY <1>1, ElementOfSeq
    <3>2. QED
      BY <2>1, <3>1, SubSeqProperties
  <2>3. SubSeq(s, 1, m) = Append(SubSeq(s, 1, m - 1), s[m]) /\ s[m] \in S
    <3>1. s[m] \in S
      BY ElementOfSeq
    <3>2. 1 \in 1 .. Len(s) /\ m \in 1 .. Len(s)
      BY <1>1
    <3>3. SubSeq(s, 1, m) = SubSeq(s, 1, m - 1) \o <<s[m]>>
      BY <3>2, SubSeqRecursiveSecond
    <3>4. Append(SubSeq(s, 1, m - 1), s[m]) = SubSeq(s, 1, m - 1) \o <<s[m]>>
      BY <2>2, <3>1, AppendIsConcat
    <3>5. QED
      BY <3>1, <3>3, <3>4
  <2>4. SubSeq(s, 1, m - 1) \in T
    BY <1>3
  <2>5. QED
    BY <2>1, <2>2, <2>3, <2>4
<1>4. Len(s) \in M
  <2> HIDE DEF M
  <2>1. \A i \in 0 .. Len(s) : i \in M
    BY <1>1, <1>2, <1>3, Upward
  <2>2. Len(s) \in 0 .. Len(s)
    BY <1>1
  <2>3. QED
    BY <2>1, <2>2
<1>5. SubSeq(s, 1, Len(s)) = s
  BY SubSeqFull
<1>6. QED
  BY <1>4, <1>5

\* The i-th part is where the lengths of those before it end.
AddsUp(seqs, ends) ==
  ends[0] = 0 /\ \A i \in 1 .. Len(seqs) : ends[i] = ends[i - 1] + Len(seqs[i])
Parted(s, seqs, ends) ==
  /\ Len(s) = ends[Len(seqs)]
  /\ \A i \in 1 .. Len(seqs) :
       /\ ends[i - 1] \in Nat /\ ends[i] \in Nat /\ ends[i] <= Len(s)
       /\ SubSeq(s, ends[i - 1] + 1, ends[i]) = seqs[i]

\* Sequences put one after the other can be cut again where their lengths add up to.
LEMMA FlatEnds ==
  ASSUME NEW S, NEW seqs \in Seq(Seq(S)), NEW ends, AddsUp(seqs, ends)
  PROVE  FlattenSeq(seqs) \in Seq(S) /\ Parted(FlattenSeq(seqs), seqs, ends)
<1> DEFINE n == Len(seqs)
<1> DEFINE s == FlattenSeq(seqs)
<1>1. n \in Nat /\ \A i \in 1 .. n : seqs[i] \in Seq(S) /\ Len(seqs[i]) \in Nat
  BY LenProperties, ElementOfSeq
<1>2. PICK f \in [0 .. n -> Seq(S)] :
        /\ f[0] = <<>> /\ (\A i \in 1 .. n : f[i] = f[i - 1] \o seqs[i])
        /\ s = f[n] /\ \A i \in 0 .. n : Begins(f[i], s)
  BY FlatParts
<1>3. ends[0] = 0 /\ \A i \in 1 .. n : ends[i] = ends[i - 1] + Len(seqs[i])
  BY DEF AddsUp
<1> HIDE DEF n, s
<1> DEFINE T == {m \in 0 .. n : Len(f[m]) = ends[m]}
<1>4. 0 \in T
  BY <1>1, <1>2, <1>3
<1>5. ASSUME NEW m \in 1 .. n, m - 1 \in T PROVE m \in T
  <2>1. m - 1 \in 0 .. n /\ m \in 0 .. n
    BY <1>1
  <2>2. f[m] = f[m - 1] \o seqs[m] /\ f[m - 1] \in Seq(S) /\ seqs[m] \in Seq(S)
    BY <1>1, <1>2, <2>1
  <2>3. Len(f[m]) = Len(f[m - 1]) + Len(seqs[m])
    BY <2>2, ConcatProperties
  <2>4. QED
    BY <1>3, <1>5, <2>1, <2>3
<1>6. \A i \in 0 .. n : Len(f[i]) = ends[i] /\ f[i] \in Seq(S) /\ ends[i] \in Nat
  <2>1. \A i \in 0 .. n : i \in T
    <3> HIDE DEF T
    <3>1. QED
      BY <1>1, <1>4, <1>5, Upward
  <2>2. QED
    BY <2>1, LenProperties
<1> HIDE DEF T
<1>7. s \in Seq(S) /\ Len(s) = ends[n]
  BY <1>1, <1>2, <1>6
<1>8. ASSUME NEW i \in 1 .. n
      PROVE  /\ ends[i - 1] \in Nat /\ ends[i] \in Nat /\ ends[i] <= Len(s)
             /\ SubSeq(s, ends[i - 1] + 1, ends[i]) = seqs[i]
  <2>1. i - 1 \in 0 .. n /\ i \in 0 .. n
    BY <1>1
  <2>2. ends[i - 1] \in Nat /\ ends[i] \in Nat /\ ends[i] = ends[i - 1] + Len(seqs[i])
    BY <1>3, <1>6, <2>1
  <2>3. ends[i] <= Len(s) /\ \A k \in 1 .. ends[i] : s[k] = f[i][k]
    BY <1>2, <1>6, <2>1 DEF Begins
  <2>4. \A k \in 1 .. Len(seqs[i]) : f[i][ends[i - 1] + k] = seqs[i][k]
    <3>1. f[i] = f[i - 1] \o seqs[i] /\ f[i - 1] \in Seq(S) /\ seqs[i] \in Seq(S)
      BY <1>1, <1>2, <2>1
    <3>2. \A k \in 1 .. Len(f[i - 1]) + Len(seqs[i]) :
            (f[i - 1] \o seqs[i])[k] = IF k <= Len(f[i - 1]) THEN f[i - 1][k] ELSE seqs[i][k - Len(f[i - 1])]
      BY <3>1, ConcatProperties
    <3>3. Len(f[i - 1]) = ends[i - 1]
      BY <1>6, <2>1
    <3>4. Len(seqs[i]) \in Nat
      BY <1>1
    <3> SUFFICES ASSUME NEW k \in 1 .. Len(seqs[i]) PROVE f[i][ends[i - 1] + k] = seqs[i][k]
      OBVIOUS
    <3>5. /\ ends[i - 1] + k \in 1 .. ends[i - 1] + Len(seqs[i]) /\ ~(ends[i - 1] + k <= ends[i - 1])
          /\ (ends[i - 1] + k) - ends[i - 1] = k
      <4> DEFINE m == ends[i - 1]
      <4> DEFINE l == Len(seqs[i])
      <4>1. m \in Nat /\ l \in Nat /\ k \in 1 .. l
        BY <2>2, <3>4
      <4> HIDE DEF m, l
      <4>2. m + k \in 1 .. m + l /\ ~(m + k <= m) /\ (m + k) - m = k
        BY <4>1
      <4>3. QED
        BY <4>2 DEF m, l
    <3>6. (f[i - 1] \o seqs[i])[ends[i - 1] + k] = seqs[i][(ends[i - 1] + k) - ends[i - 1]]
      <4> DEFINE a == f[i - 1]
      <4> DEFINE b == seqs[i]
      <4> DEFINE m == ends[i - 1] + k
      <4>1. \A l \in 1 .. Len(a) + Len(b) : (a \o b)[l] = IF l <= Len(a) THEN a[l] ELSE b[l - Len(a)]
        BY <3>2
      <4>2. m \in 1 .. Len(a) + Len(b) /\ ~(m <= Len(a))
        BY <3>3, <3>5
      <4> HIDE DEF a, b, m
      <4>3. (a \o b)[m] = b[m - Len(a)]
        BY <4>1, <4>2
      <4>4. QED
        BY <3>3, <4>3 DEF a, b, m
    <3>7. QED
      BY <3>1, <3>5, <3>6
  <2>5. SubSeq(s, ends[i - 1] + 1, ends[i]) = seqs[i]
    <3> DEFINE u == SubSeq(s, ends[i - 1] + 1, ends[i])
    <3>0. seqs[i] \in Seq(S) /\ Len(seqs[i]) \in Nat
      BY <1>1
    <3>1. ends[i - 1] <= ends[i] /\ ends[i] - ends[i - 1] = Len(seqs[i])
      <4> DEFINE a == ends[i - 1]
      <4> DEFINE b == ends[i]
      <4> DEFINE l == Len(seqs[i])
      <4>1. a \in Nat /\ l \in Nat /\ b = a + l
        BY <2>2, <3>0
      <4> HIDE DEF a, b, l
      <4>2. a <= b /\ b - a = l
        BY <4>1
      <4>3. QED
        BY <4>2 DEF a, b, l
    <3>2. /\ u \in Seq(S) /\ Len(u) = Len(seqs[i])
          /\ \A k \in 1 .. Len(seqs[i]) : u[k] = s[ends[i - 1] + k]
      <4> DEFINE a == ends[i - 1]
      <4> DEFINE b == ends[i]
      <4>1. a \in Nat /\ b \in Nat /\ a <= b /\ b - a = Len(seqs[i])
        BY <2>2, <3>0, <3>1
      <4>0. b <= Len(s)
        BY <2>3
      <4> HIDE DEF a, b
      <4>2. /\ SubSeq(s, a + 1, b) \in Seq(S) /\ Len(SubSeq(s, a + 1, b)) = b - a
            /\ \A k \in 1 .. b - a : SubSeq(s, a + 1, b)[k] = s[a + k]
        BY <1>7, <4>0, <4>1, SubSeqIs
      <4>3. QED
        BY <4>1, <4>2 DEF a, b
    <3> HIDE DEF u
    <3>3. ASSUME NEW k \in 1 .. Len(seqs[i]) PROVE u[k] = seqs[i][k]
      <4>1. ends[i - 1] + k \in 1 .. ends[i]
        BY <2>2, <3>0, <3>1
      <4>2. QED
        BY <2>3, <2>4, <3>2, <4>1
    <3>4. u = seqs[i]
      BY <3>0, <3>2, <3>3, SeqEqual
    <3>5. QED
      BY <3>4 DEF u
  <2>6. QED
    BY <2>2, <2>3, <2>5
<1>9. QED
  BY <1>7, <1>8 DEF Parted, n, s

\* Two functions whose values follow from the one before in the same way are the same.
SameStep(n, f, g) == \A i \in 1 .. n : f[i - 1] = g[i - 1] => f[i] = g[i]

\* Two functions of one equation are the same.
LEMMA SameUpward ==
  ASSUME NEW n \in Nat, NEW f, NEW g, f[0] = g[0], SameStep(n, f, g)
  PROVE  \A i \in 0 .. n : f[i] = g[i]
<1> DEFINE T == {i \in 0 .. n : f[i] = g[i]}
<1>1. 0 \in T
  OBVIOUS
<1>2. ASSUME NEW i \in 1 .. n, i - 1 \in T PROVE i \in T
  BY <1>2 DEF SameStep
<1> HIDE DEF T
<1>3. \A i \in 0 .. n : i \in T
  BY <1>1, <1>2, Upward
<1>4. QED
  BY <1>3 DEF T

\* One sequence more at the end.
LEMMA FlattenMore ==
  ASSUME NEW S, NEW seqs \in Seq(Seq(S)), NEW s \in Seq(S)
  PROVE  FlattenSeq(Append(seqs, s)) = FlattenSeq(seqs) \o s
<1> DEFINE n == Len(seqs)
<1> DEFINE more == Append(seqs, s)
<1>1. n \in Nat
  BY LenProperties
<1>2. /\ more \in Seq(Seq(S)) /\ Len(more) = n + 1 /\ more[n + 1] = s
      /\ \A i \in 1 .. n : more[i] = seqs[i]
  BY AppendProperties
<1>3. PICK f \in [0 .. n -> Seq(S)] :
        f[0] = <<>> /\ (\A i \in 1 .. n : f[i] = f[i - 1] \o seqs[i]) /\ FlattenSeq(seqs) = f[n]
  BY FlattenIs
<1>4. PICK g \in [0 .. n + 1 -> Seq(S)] :
        /\ g[0] = <<>> /\ (\A i \in 1 .. n + 1 : g[i] = g[i - 1] \o more[i])
        /\ FlattenSeq(more) = g[n + 1]
  <2> HIDE DEF more
  <2>1. \E g \in [0 .. Len(more) -> Seq(S)] :
          /\ g[0] = <<>> /\ (\A i \in 1 .. Len(more) : g[i] = g[i - 1] \o more[i])
          /\ FlattenSeq(more) = g[Len(more)]
    BY <1>2, FlattenIs
  <2>2. QED
    BY <1>2, <2>1
<1> HIDE DEF n, more
<1>5. SameStep(n, f, g)
  <2>1. \A i \in 1 .. n : i \in 1 .. n + 1
    BY <1>1
  <2>2. \A i \in 1 .. n : f[i - 1] = g[i - 1] => f[i] = g[i]
    <3> SUFFICES ASSUME NEW i \in 1 .. n, f[i - 1] = g[i - 1] PROVE f[i] = g[i]
      OBVIOUS
    <3>1. f[i] = f[i - 1] \o seqs[i]
      BY <1>3
    <3>2. more[i] = seqs[i]
      BY <1>2
    <3>3. g[i] = g[i - 1] \o more[i]
      BY <1>4, <2>1
    <3>4. QED
      BY <3>1, <3>2, <3>3
  <2>3. QED
    BY <2>2 DEF SameStep
<1>6. \A i \in 0 .. n : f[i] = g[i]
  <2>1. f[0] = g[0]
    BY <1>3, <1>4
  <2>2. QED
    BY <1>1, <1>5, <2>1, SameUpward
<1>7. f[n] = g[n] /\ g[n + 1] = g[n] \o more[n + 1]
  <2>1. n + 1 \in 1 .. n + 1 /\ n + 1 - 1 = n /\ n \in 0 .. n
    BY <1>1
  <2>2. \A i \in 1 .. n + 1 : i = n + 1 => g[i] = g[n] \o more[i]
    <3>1. \A i \in 1 .. n + 1 : g[i] = g[i - 1] \o more[i]
      BY <1>4
    <3>2. \A i \in 1 .. n + 1 : i = n + 1 => i - 1 = n
      BY <1>1
    <3>3. QED
      BY <3>1, <3>2
  <2>3. QED
    BY <1>6, <2>1, <2>2
<1>8. QED
  BY <1>2, <1>3, <1>4, <1>7 DEF n, more

LEMMA FlattenNone == FlattenSeq(<<>>) = <<>>
BY DEF FlattenSeq

-----------------------------------------------------------------------------
(* Texts: what is encoded is decoded to itself.                            *)

\* Texts.
LEMMA Utf8Is ==
  ASSUME NEW c \in Char
  PROVE  /\ Utf8(c) \in Seq(Byte)
         /\ c = "nul" => Utf8(c) = <<0>>
         /\ c = "a" => Utf8(c) = <<1>>
         /\ c = "wide" => Utf8(c) = <<2, 2>>
<1>1. 0 \in Byte /\ 1 \in Byte /\ 2 \in Byte
  BY WidthAssumption DEF Byte
<1>2. <<0>> \in Seq(Byte) /\ <<1>> \in Seq(Byte) /\ <<2, 2>> \in Seq(Byte)
  BY <1>1
<1>3. QED
  BY <1>2 DEF Char, Utf8

LEMMA FlattenType ==
  ASSUME NEW S, NEW seqs \in Seq(Seq(S))
  PROVE  FlattenSeq(seqs) \in Seq(S)
<1>1. PICK f \in [0 .. Len(seqs) -> Seq(S)] : FlattenSeq(seqs) = f[Len(seqs)]
  BY FlattenIs
<1>2. Len(seqs) \in Nat
  BY LenProperties
<1>3. Len(seqs) \in 0 .. Len(seqs)
  BY <1>2
<1>4. QED
  BY <1>1, <1>3

\* What a text is encoded to are bytes.
LEMMA EncodeType ==
  ASSUME NEW text \in Seq(Char)
  PROVE  Encode(text) \in Seq(Byte)
<1> DEFINE u == [i \in DOMAIN text |-> Utf8(text[i])]
<1>1. DOMAIN text = 1 .. Len(text) /\ Len(text) \in Nat
  BY LenProperties
<1>2. \A i \in 1 .. Len(text) : Utf8(text[i]) \in Seq(Byte)
  BY ElementOfSeq, Utf8Is
<1>3. u \in Seq(Seq(Byte))
  BY <1>1, <1>2
<1> HIDE DEF u
<1>4. QED
  BY <1>3, FlattenType DEF Encode, u

LEMMA EncodeNone == Encode(<<>>) = <<>>
<1>1. [i \in DOMAIN <<>> |-> Utf8(<<>>[i])] = <<>>
  OBVIOUS
<1>2. QED
  BY <1>1, FlattenNone DEF Encode

\* One character more, and its bytes at the end.
LEMMA EncodeMore ==
  ASSUME NEW text \in Seq(Char), NEW c \in Char
  PROVE  Encode(Append(text, c)) = Encode(text) \o Utf8(c)
<1> DEFINE more == Append(text, c)
<1> DEFINE u == [i \in DOMAIN text |-> Utf8(text[i])]
<1> DEFINE v == [i \in DOMAIN more |-> Utf8(more[i])]
<1>1. DOMAIN text = 1 .. Len(text) /\ Len(text) \in Nat
  BY LenProperties
<1>2. /\ more \in Seq(Char) /\ Len(more) = Len(text) + 1 /\ more[Len(text) + 1] = c
      /\ \A i \in 1 .. Len(text) : more[i] = text[i]
  BY AppendProperties
<1>3. DOMAIN more = 1 .. Len(text) + 1
  BY <1>2, LenProperties
<1> HIDE DEF more
<1>4. \A i \in 1 .. Len(text) : Utf8(text[i]) \in Seq(Byte)
  BY ElementOfSeq, Utf8Is
<1>5. Utf8(c) \in Seq(Byte)
  BY Utf8Is
<1>6. u \in Seq(Seq(Byte)) /\ Len(u) = Len(text)
  BY <1>1, <1>4
<1>7. v = Append(u, Utf8(c))
  <2>1. \A i \in 1 .. Len(text) + 1 : v[i] = IF i = Len(text) + 1 THEN Utf8(c) ELSE u[i]
    <3> SUFFICES ASSUME NEW i \in 1 .. Len(text) + 1
                 PROVE  v[i] = IF i = Len(text) + 1 THEN Utf8(c) ELSE u[i]
      OBVIOUS
    <3>1. v[i] = Utf8(more[i])
      BY <1>3
    <3>2. CASE i = Len(text) + 1
      BY <1>2, <3>1, <3>2
    <3>3. CASE i # Len(text) + 1
      <4>1. i \in 1 .. Len(text)
        BY <1>1, <3>3
      <4>2. u[i] = Utf8(text[i])
        BY <1>1, <4>1
      <4>3. QED
        BY <1>2, <3>1, <3>3, <4>1, <4>2
    <3>4. QED
      BY <3>2, <3>3
  <2>2. v \in Seq(Seq(Byte)) /\ Len(v) = Len(text) + 1
    <3>1. \A i \in 1 .. Len(text) + 1 : Utf8(more[i]) \in Seq(Byte)
      BY <1>2, ElementOfSeq, Utf8Is
    <3>2. QED
      BY <1>1, <1>3, <3>1
  <2> HIDE DEF u, v
  <2>3. /\ Append(u, Utf8(c)) \in Seq(Seq(Byte)) /\ Len(Append(u, Utf8(c))) = Len(u) + 1
        /\ Append(u, Utf8(c))[Len(u) + 1] = Utf8(c)
        /\ \A i \in 1 .. Len(u) : Append(u, Utf8(c))[i] = u[i]
    <3> DEFINE SB == Seq(Byte)
    <3>1. u \in Seq(SB) /\ Utf8(c) \in SB
      BY <1>5, <1>6
    <3> HIDE DEF SB
    <3>2. /\ Append(u, Utf8(c)) \in Seq(SB) /\ Len(Append(u, Utf8(c))) = Len(u) + 1
          /\ Append(u, Utf8(c))[Len(u) + 1] = Utf8(c)
          /\ \A i \in 1 .. Len(u) : Append(u, Utf8(c))[i] = u[i]
      BY <3>1, AppendProperties
    <3>3. QED
      BY <3>2 DEF SB
  <2>4. \A i \in 1 .. Len(text) + 1 : v[i] = Append(u, Utf8(c))[i]
    <3> SUFFICES ASSUME NEW i \in 1 .. Len(text) + 1 PROVE v[i] = Append(u, Utf8(c))[i]
      OBVIOUS
    <3>1. CASE i = Len(text) + 1
      BY <1>6, <2>1, <2>3, <3>1
    <3>2. CASE i # Len(text) + 1
      <4>1. i \in 1 .. Len(text)
        BY <1>1, <3>2
      <4>2. QED
        BY <1>6, <2>1, <2>3, <3>2, <4>1
    <3>3. QED
      BY <3>1, <3>2
  <2>5. QED
    BY <1>6, <2>2, <2>3, <2>4, SeqEqual
<1> HIDE DEF u, v
<1>8. FlattenSeq(Append(u, Utf8(c))) = FlattenSeq(u) \o Utf8(c)
  BY <1>5, <1>6, FlattenMore
<1>9. QED
  BY <1>7, <1>8 DEF Encode, u, v, more

\* The state of Decode and its step.
Collecting == [text : Seq(Char), open : Seq(Byte)]
NothingYet == [text |-> <<>>, open |-> <<>>]
Collected(x, b) ==
  LET open == Append(x.open, b)
      read == {c \in Char : Utf8(c) = open}
  IN IF read = {} THEN [text |-> x.text, open |-> open]
     ELSE [text |-> Append(x.text, CHOOSE c \in read : TRUE), open |-> <<>>]
DecodingOf(bytes, u) ==
  /\ u \in [0 .. Len(bytes) -> Collecting] /\ u[0] = NothingYet
  /\ \A i \in 1 .. Len(bytes) : u[i] = Collected(u[i - 1], bytes[i])
Decoded(bytes, x) == \E u : DecodingOf(bytes, u) /\ u[Len(bytes)] = x
Outcome(x) == IF x.open = <<>> THEN Returns(x.text) ELSE Raises

LEMMA CollectedType ==
  ASSUME NEW x \in Collecting, NEW b \in Byte
  PROVE  Collected(x, b) \in Collecting
<1> DEFINE open == Append(x.open, b)
<1> DEFINE read == {c \in Char : Utf8(c) = open}
<1>1. x.text \in Seq(Char) /\ x.open \in Seq(Byte)
  BY DEF Collecting
<1>2. open \in Seq(Byte) /\ <<>> \in Seq(Byte)
  BY <1>1, AppendProperties
<1>3. CASE read = {}
  <2>1. Collected(x, b) = [text |-> x.text, open |-> open]
    BY <1>3 DEF Collected
  <2> HIDE DEF open
  <2>2. QED
    BY <1>1, <1>2, <2>1 DEF Collecting
<1>4. CASE read # {}
  <2> DEFINE c == CHOOSE c \in read : TRUE
  <2>1. Collected(x, b) = [text |-> Append(x.text, c), open |-> <<>>]
    BY <1>4 DEF Collected
  <2>2. c \in Char
    BY <1>4
  <2> HIDE DEF c
  <2>3. Append(x.text, c) \in Seq(Char)
    BY <1>1, <2>2, AppendProperties
  <2>4. QED
    BY <1>2, <2>1, <2>3 DEF Collecting
<1>5. QED
  BY <1>3, <1>4

LEMMA NothingYetType == NothingYet \in Collecting
BY DEF NothingYet, Collecting

LEMMA DecodingExists ==
  ASSUME NEW bytes \in Seq(Byte)
  PROVE  \E u : DecodingOf(bytes, u)
<1> DEFINE n == Len(bytes)
<1>1. n \in Nat /\ \A i \in 1 .. n : bytes[i] \in Byte
  BY LenProperties, ElementOfSeq
<1> DEFINE H == [i \in 1 .. n |-> [x \in Collecting |-> Collected(x, bytes[i])]]
<1>2. H \in [1 .. n -> [Collecting -> Collecting]]
  BY <1>1, CollectedType
<1>3. \A i \in 1 .. n, x \in Collecting : H[i][x] = Collected(x, bytes[i])
  OBVIOUS
<1> HIDE DEF H, n
<1>4. PICK u : Follows(u, n, Collecting, NothingYet, H)
  BY <1>1, <1>2, NothingYetType, Recursion
<1>5. /\ u \in [0 .. n -> Collecting] /\ u[0] = NothingYet
      /\ \A i \in 1 .. n : u[i] = H[i][u[i - 1]]
  BY <1>4 DEF Follows
<1>6. ASSUME NEW i \in 1 .. n PROVE u[i] = Collected(u[i - 1], bytes[i])
  <2>1. i - 1 \in 0 .. n
    BY <1>1
  <2>2. u[i - 1] \in Collecting
    BY <1>5, <2>1
  <2>3. QED
    BY <1>3, <1>5, <2>2
<1>7. QED
  BY <1>5, <1>6 DEF DecodingOf, n

\* What the bytes are decoded to, by any function that follows the equation.
LEMMA DecodeIs ==
  ASSUME NEW bytes \in Seq(Byte), NEW x, Decoded(bytes, x)
  PROVE  Decode(bytes) = Outcome(x)
<1> DEFINE n == Len(bytes)
<1>1. n \in Nat
  BY LenProperties
<1> DEFINE Eqn(g) == g = [i \in 0 .. n |->
        IF i = 0 THEN [text |-> <<>>, open |-> <<>>]
        ELSE LET open == Append(g[i - 1].open, bytes[i])
                 read == {c \in Char : Utf8(c) = open}
             IN IF read = {} THEN [text |-> g[i - 1].text, open |-> open]
                ELSE [text |-> Append(g[i - 1].text, CHOOSE c \in read : TRUE), open |-> <<>>]]
<1> DEFINE g == CHOOSE g : Eqn(g)
<1>2. Decode(bytes) = IF g[n].open = <<>> THEN Returns(g[n].text) ELSE Raises
  BY DEF Decode
<1>3. PICK u : DecodingOf(bytes, u) /\ u[n] = x
  BY DEF Decoded
<1>4. /\ u \in [0 .. n -> Collecting] /\ u[0] = NothingYet
      /\ \A i \in 1 .. n : u[i] = Collected(u[i - 1], bytes[i])
  BY <1>3 DEF DecodingOf
<1> HIDE DEF n
<1>5. Eqn(u)
  <2>1. ASSUME NEW i \in 0 .. n
        PROVE  u[i] = IF i = 0 THEN NothingYet ELSE Collected(u[i - 1], bytes[i])
    <3>1. CASE i = 0
      BY <1>4, <3>1
    <3>2. CASE i # 0
      <4>1. i \in 1 .. n
        BY <1>1, <3>2
      <4>2. QED
        BY <1>4, <3>2, <4>1
    <3>3. QED
      BY <3>1, <3>2
  <2>2. u = [i \in 0 .. n |-> u[i]]
    BY <1>4
  <2>3. u = [i \in 0 .. n |-> IF i = 0 THEN NothingYet ELSE Collected(u[i - 1], bytes[i])]
    BY <2>1, <2>2, Zenon
  <2>4. QED
    BY <2>3, Zenon DEF Collected, NothingYet
<1>6. Eqn(g)
  <2> HIDE DEF Eqn
  <2>1. QED
    BY <1>5
<1>7. /\ g[0] = NothingYet
      /\ \A i \in 1 .. n : g[i] = Collected(g[i - 1], bytes[i])
  <2>1. g = [i \in 0 .. n |-> IF i = 0 THEN NothingYet ELSE Collected(g[i - 1], bytes[i])]
    BY <1>6, Zenon DEF Collected, NothingYet
  <2> HIDE DEF g
  <2>2. 0 \in 0 .. n /\ \A i \in 1 .. n : i \in 0 .. n /\ i # 0
    BY <1>1
  <2>3. \A i \in 0 .. n : g[i] = IF i = 0 THEN NothingYet ELSE Collected(g[i - 1], bytes[i])
    BY <2>1, Zenon
  <2>4. QED
    BY <2>2, <2>3
<1> HIDE DEF g, Eqn
<1>8. \A i \in 0 .. n : u[i] = g[i]
  <2>1. u[0] = g[0]
    BY <1>4, <1>7
  <2>2. SameStep(n, u, g)
    BY <1>4, <1>7 DEF SameStep
  <2>3. QED
    BY <1>1, <2>1, <2>2, SameUpward
<1>9. n \in 0 .. n
  BY <1>1
<1>10. g[n] = x
  BY <1>3, <1>8, <1>9 DEF n
<1>11. QED
  BY <1>2, <1>10 DEF Outcome

LEMMA DecodedNone == Decoded(<<>>, NothingYet)
<1>1. <<>> \in Seq(Byte) /\ Len(<<>>) = 0
  OBVIOUS
<1>2. PICK u : DecodingOf(<<>>, u)
  BY <1>1, DecodingExists
<1>3. QED
  BY <1>1, <1>2 DEF DecodingOf, Decoded

\* One byte more, and one step of the decoder.
LEMMA DecodedMore ==
  ASSUME NEW bytes \in Seq(Byte), NEW b \in Byte, NEW x, Decoded(bytes, x)
  PROVE  Decoded(Append(bytes, b), Collected(x, b))
<1> DEFINE n == Len(bytes)
<1> DEFINE more == Append(bytes, b)
<1>1. n \in Nat
  BY LenProperties
<1>2. /\ more \in Seq(Byte) /\ Len(more) = n + 1 /\ more[n + 1] = b
      /\ \A i \in 1 .. n : more[i] = bytes[i]
  BY AppendProperties
<1>3. PICK u : DecodingOf(bytes, u) /\ u[n] = x
  BY DEF Decoded
<1>4. /\ u[0] = NothingYet
      /\ \A i \in 1 .. n : u[i] = Collected(u[i - 1], bytes[i])
  BY <1>3 DEF DecodingOf
<1> HIDE DEF more
<1>5. PICK v : DecodingOf(more, v)
  BY <1>2, DecodingExists
<1>6. /\ v[0] = NothingYet
      /\ \A i \in 1 .. n + 1 : v[i] = Collected(v[i - 1], more[i])
  BY <1>2, <1>5 DEF DecodingOf
<1> HIDE DEF n
<1>7. \A i \in 0 .. n : u[i] = v[i]
  <2>1. SameStep(n, u, v)
    <3>1. \A i \in 1 .. n : i \in 1 .. n + 1
      BY <1>1
    <3>2. QED
      BY <1>2, <1>4, <1>6, <3>1 DEF SameStep
  <2>2. u[0] = v[0]
    BY <1>4, <1>6
  <2>3. QED
    BY <1>1, <2>1, <2>2, SameUpward
<1>8. n \in 0 .. n /\ n + 1 \in 1 .. n + 1 /\ n + 1 - 1 = n
  BY <1>1
<1>9. v[n] = x /\ v[n + 1] = Collected(v[n], b)
  BY <1>2, <1>3, <1>6, <1>7, <1>8
<1>10. QED
  BY <1>2, <1>5, <1>9 DEF Decoded, more

\* Between two characters nothing is left over.
LEMMA EncodeDecoded ==
  ASSUME NEW text \in Seq(Char)
  PROVE  Decoded(Encode(text), [text |-> text, open |-> <<>>])
<1> DEFINE At(t) == [text |-> t, open |-> <<>>]
<1> DEFINE T == {t \in Seq(Char) : Decoded(Encode(t), At(t))}
<1>1. <<>> \in T
  BY EncodeNone, DecodedNone DEF NothingYet
<1>2. ASSUME NEW t \in Seq(Char), NEW c \in Char, t \in T PROVE Append(t, c) \in T
  <2>1. Decoded(Encode(t), At(t)) /\ Encode(t) \in Seq(Byte)
    BY <1>2, EncodeType
  <2>2. Append(t, c) \in Seq(Char) /\ Encode(Append(t, c)) = Encode(t) \o Utf8(c)
    BY EncodeMore, AppendProperties
  <2> HIDE DEF T
  <2>3. 0 \in Byte /\ 1 \in Byte /\ 2 \in Byte
    BY WidthAssumption DEF Byte
  <2>4. CASE c \in {"nul", "a"}
    <3> DEFINE b == IF c = "nul" THEN 0 ELSE 1
    <3>1. b \in Byte /\ Utf8(c) = <<b>>
      BY <2>3, <2>4 DEF Utf8
    <3>2. Collected(At(t), b) = At(Append(t, c))
      <4> DEFINE read == {d \in Char : Utf8(d) = <<b>>}
      <4>1. read = {c}
        BY <2>4 DEF Utf8, Char
      <4>2. (CHOOSE d \in read : TRUE) = c /\ read # {}
        BY <4>1
      <4>3. Append(<<>>, b) = <<b>>
        OBVIOUS
      <4> HIDE DEF b
      <4>4. QED
        BY <4>2, <4>3 DEF Collected
    <3> HIDE DEF b, At
    <3>3. Encode(t) \o <<b>> = Append(Encode(t), b)
      BY <2>1, <3>1, AppendIsConcat
    <3>4. Decoded(Append(Encode(t), b), At(Append(t, c)))
      BY <2>1, <3>1, <3>2, DecodedMore
    <3>5. QED
      BY <2>2, <3>1, <3>3, <3>4 DEF T
  <2>5. CASE c = "wide"
    <3> DEFINE half == [text |-> t, open |-> <<2>>]
    <3>1. Utf8(c) = <<2, 2>>
      BY <2>5 DEF Utf8
    <3>2. Collected(At(t), 2) = half
      <4>1. \A d \in Char : Utf8(d) # <<2>>
        <5>1. \A d \in Char : Utf8(d) = <<0>> \/ Utf8(d) = <<1>> \/ Utf8(d) = <<2, 2>>
          BY DEF Utf8, Char
        <5>2. <<0>> # <<2>> /\ <<1>> # <<2>> /\ Len(<<2, 2>>) # Len(<<2>>)
          OBVIOUS
        <5>3. QED
          BY <5>1, <5>2
      <4>2. Append(<<>>, 2) = <<2>>
        OBVIOUS
      <4>3. QED
        BY <4>1, <4>2 DEF Collected
    <3>3. Collected(half, 2) = At(Append(t, c))
      <4> DEFINE read == {d \in Char : Utf8(d) = <<2, 2>>}
      <4>1. read = {c}
        BY <2>5 DEF Utf8, Char
      <4>2. (CHOOSE d \in read : TRUE) = c /\ read # {}
        BY <4>1
      <4>3. Append(<<2>>, 2) = <<2, 2>>
        <5> DEFINE one == Append(<<2>>, 2)
        <5> DEFINE two == <<2, 2>>
        <5>1. one \in Seq(Int) /\ Len(one) = 2 /\ one[1] = 2 /\ one[2] = 2
          OBVIOUS
        <5>2. two \in Seq(Int) /\ Len(two) = 2 /\ two[1] = 2 /\ two[2] = 2
          OBVIOUS
        <5> HIDE DEF one, two
        <5>3. \A i \in 1 .. Len(one) : one[i] = two[i]
          BY <5>1, <5>2
        <5>4. one = two
          BY <5>1, <5>2, <5>3, SeqEqual
        <5>5. QED
          BY <5>4 DEF one, two
      <4>4. QED
        BY <4>2, <4>3 DEF Collected
    <3> HIDE DEF half, At
    <3>4. Decoded(Append(Encode(t), 2), half)
      BY <2>1, <2>3, <3>2, DecodedMore
    <3>5. Append(Encode(t), 2) \in Seq(Byte)
      BY <2>1, <2>3, AppendProperties
    <3>6. Decoded(Append(Append(Encode(t), 2), 2), At(Append(t, c)))
      BY <2>3, <3>3, <3>4, <3>5, DecodedMore
    <3>7. Encode(t) \o <<2, 2>> = Append(Append(Encode(t), 2), 2)
      BY <2>1, <2>3
    <3>8. QED
      BY <2>2, <3>1, <3>6, <3>7 DEF T
  <2>6. QED
    BY <2>4, <2>5 DEF Char
<1> HIDE DEF T
<1>3. Seq(Char) \subseteq T
  BY <1>1, <1>2, SeqUpward
<1>4. QED
  BY <1>3 DEF T

\* A text that is encoded is decoded to itself.
LEMMA DecodeEncode ==
  ASSUME NEW text \in Seq(Char)
  PROVE  Decode(Encode(text)) = Returns(text)
<1> DEFINE x == [text |-> text, open |-> <<>>]
<1>1. Decoded(Encode(text), x)
  BY EncodeDecoded
<1> HIDE DEF x
<1>2. Decode(Encode(text)) = Outcome(x)
  BY <1>1, EncodeType, DecodeIs
<1>3. QED
  BY <1>2 DEF Outcome, x

-----------------------------------------------------------------------------
(* Fields of a text: NULs behind a text are stripped.                      *)

\* A sequence that does not end in a pad.
Solid(s, pad) == s = <<>> \/ s[Len(s)] # pad

\* Pads behind what does not end in a pad are stripped, and no more.
LEMMA StrippedIs ==
  ASSUME NEW S, NEW pad, NEW s \in Seq(S), NEW z \in Seq(S), Solid(s, pad),
         \A i \in 1 .. Len(z) : z[i] = pad
  PROVE  Stripped(s \o z, pad) = s
<1> DEFINE u == s \o z
<1> DEFINE K == {0} \cup {i \in DOMAIN u : u[i] # pad}
<1>1. Len(s) \in Nat /\ Len(z) \in Nat
  BY LenProperties
<1>2. /\ u \in Seq(S) /\ Len(u) = Len(s) + Len(z) /\ SubSeq(u, 1, Len(s)) = s
  BY TwoParts
<1>3. \A i \in 1 .. Len(s) + Len(z) : u[i] = IF i <= Len(s) THEN s[i] ELSE z[i - Len(s)]
  BY ConcatProperties
<1>4. DOMAIN u = 1 .. Len(s) + Len(z)
  BY <1>2, LenProperties
<1> HIDE DEF u
<1>5. Len(s) \in K
  <2>1. CASE s = <<>>
    BY <2>1
  <2>2. CASE s # <<>>
    <3>1. Len(s) # 0
      BY <2>2, EmptySeq
    <3>2. Len(s) \in 1 .. Len(s) + Len(z)
      BY <1>1, <3>1
    <3>3. u[Len(s)] = s[Len(s)]
      BY <1>1, <1>3, <3>2
    <3>4. QED
      BY <1>4, <2>2, <3>2, <3>3 DEF Solid
  <2>3. QED
    BY <2>1, <2>2
<1>6. ASSUME NEW i \in K PROVE i \in Nat /\ i <= Len(s)
  <2>1. CASE i = 0
    BY <1>1, <2>1
  <2>2. CASE i # 0
    <3>1. i \in 1 .. Len(s) + Len(z) /\ u[i] # pad
      BY <1>4, <2>2
    <3>2. ASSUME ~(i <= Len(s)) PROVE FALSE
      <4>1. u[i] = z[i - Len(s)] /\ i - Len(s) \in 1 .. Len(z)
        BY <1>1, <1>3, <3>1, <3>2
      <4>2. QED
        BY <3>1, <4>1
    <3>3. QED
      BY <1>1, <3>1, <3>2
  <2>3. QED
    BY <2>1, <2>2
<1> HIDE DEF K
<1>7. Max(K) = Len(s)
  <2>1. \A y \in K : Len(s) >= y
    BY <1>1, <1>6
  <2>2. ASSUME NEW x \in K, \A y \in K : x >= y PROVE x = Len(s)
    <3>1. x \in Nat /\ x <= Len(s) /\ x >= Len(s)
      BY <1>5, <1>6, <2>2
    <3>2. QED
      BY <1>1, <3>1
  <2>3. QED
    BY <1>5, <2>1, <2>2 DEF Max
<1>8. QED
  BY <1>2, <1>7 DEF Stripped, K, u

\* The bytes of a text are those of the text without its last NULs, and zeros.
Split(text, p, q, z) ==
  /\ p \in Seq(Char) /\ q \in Seq(Char) /\ z \in Seq(Byte)
  /\ text = p \o q /\ Encode(text) = Encode(p) \o z
  /\ \A i \in 1 .. Len(q) : q[i] = "nul"
  /\ \A i \in 1 .. Len(z) : z[i] = 0
  /\ Solid(p, "nul") /\ Solid(Encode(p), 0)

LEMMA AllMore ==
  ASSUME NEW S, NEW e \in S, NEW s \in Seq(S), \A i \in 1 .. Len(s) : s[i] = e
  PROVE  \A i \in 1 .. Len(Append(s, e)) : Append(s, e)[i] = e
<1>1. /\ Len(Append(s, e)) = Len(s) + 1 /\ Append(s, e)[Len(s) + 1] = e
      /\ \A i \in 1 .. Len(s) : Append(s, e)[i] = s[i]
  BY AppendProperties
<1>2. Len(s) \in Nat
  BY LenProperties
<1> DEFINE t == Append(s, e)
<1> HIDE DEF t
<1>3. \A i \in 1 .. Len(s) + 1 : i = Len(s) + 1 \/ i \in 1 .. Len(s)
  BY <1>2
<1>4. QED
  BY <1>1, <1>3

\* How parts are put together makes no difference.
Joined(p, q, r) == (p \o q) \o r = p \o (q \o r)
Appended(p, q, e) ==
  Append(p \o q, e) = p \o Append(q, e) /\ (p \o q) \o <<e>> = p \o Append(q, e)

LEMMA ConcatJoined ==
  ASSUME NEW S, NEW p \in Seq(S), NEW q \in Seq(S), NEW r \in Seq(S)
  PROVE  Joined(p, q, r)
BY ConcatAssociative DEF Joined

LEMMA ConcatAppended ==
  ASSUME NEW S, NEW p \in Seq(S), NEW q \in Seq(S), NEW e \in S
  PROVE  Appended(p, q, e)
<1>1. p \o q \in Seq(S) /\ <<e>> \in Seq(S)
  BY TwoParts
<1>2. Append(q, e) = q \o <<e>>
  BY AppendIsConcat
<1>3. Append(p \o q, e) = (p \o q) \o <<e>>
  BY <1>1, AppendIsConcat
<1>4. (p \o q) \o <<e>> = p \o (q \o <<e>>)
  BY <1>1, ConcatAssociative
<1>5. QED
  BY <1>2, <1>3, <1>4 DEF Appended

\* A text is what does not end in a NUL, and NULs.
LEMMA SplitExists ==
  ASSUME NEW text \in Seq(Char)
  PROVE  \E p, q, z : Split(text, p, q, z)
<1> DEFINE T == {t \in Seq(Char) : \E p, q, z : Split(t, p, q, z)}
<1>0. 0 \in Byte /\ 1 \in Byte /\ 2 \in Byte /\ "nul" \in Char
  BY WidthAssumption DEF Byte, Char
<1>1. <<>> \in T
  <2>1. Split(<<>>, <<>>, <<>>, <<>>)
    <3>1. <<>> \in Seq(Char) /\ <<>> \in Seq(Byte) /\ <<>> \o <<>> = <<>> /\ Len(<<>>) = 0
      OBVIOUS
    <3>2. QED
      BY <3>1, EncodeNone DEF Split, Solid
  <2>2. QED
    BY <2>1
<1>2. ASSUME NEW t \in Seq(Char), NEW c \in Char, t \in T PROVE Append(t, c) \in T
  <2>1. PICK p, q, z : Split(t, p, q, z)
    BY <1>2
  <2>2. /\ p \in Seq(Char) /\ q \in Seq(Char) /\ z \in Seq(Byte)
        /\ t = p \o q /\ Encode(t) = Encode(p) \o z
        /\ (\A i \in 1 .. Len(q) : q[i] = "nul") /\ (\A i \in 1 .. Len(z) : z[i] = 0)
        /\ Solid(p, "nul") /\ Solid(Encode(p), 0) /\ Encode(p) \in Seq(Byte)
    BY <2>1, EncodeType DEF Split
  <2>3. Append(t, c) \in Seq(Char) /\ Encode(Append(t, c)) = Encode(t) \o Utf8(c)
    BY AppendProperties, EncodeMore
  <2>4. CASE c = "nul"
    <3>1. Utf8(c) = <<0>>
      BY <2>4 DEF Utf8
    <3>2. Append(t, c) = p \o Append(q, c) /\ Append(q, c) \in Seq(Char)
      <4>1. Append(p \o q, c) = p \o Append(q, c)
        <5>1. Appended(p, q, c)
          BY <2>2, ConcatAppended
        <5>2. QED
          BY <5>1 DEF Appended
      <4>2. QED
        BY <2>2, <4>1, AppendProperties
    <3>3. Encode(Append(t, c)) = Encode(p) \o Append(z, 0) /\ Append(z, 0) \in Seq(Byte)
      <4> DEFINE e == Encode(p)
      <4>1. e \in Seq(Byte) /\ Encode(t) = e \o z
        BY <2>2
      <4> HIDE DEF e
      <4>2. (e \o z) \o <<0>> = e \o Append(z, 0)
        <5>1. Appended(e, z, 0)
          BY <1>0, <2>2, <4>1, ConcatAppended
        <5>2. QED
          BY <5>1 DEF Appended
      <4>3. QED
        BY <1>0, <2>2, <2>3, <3>1, <4>1, <4>2, AppendProperties DEF e
    <3>4. /\ \A i \in 1 .. Len(Append(q, c)) : Append(q, c)[i] = "nul"
          /\ \A i \in 1 .. Len(Append(z, 0)) : Append(z, 0)[i] = 0
      BY <1>0, <2>2, <2>4, AllMore
    <3>5. Split(Append(t, c), p, Append(q, c), Append(z, 0))
      BY <2>2, <3>2, <3>3, <3>4 DEF Split
    <3>6. QED
      BY <2>3, <3>5
  <2>5. CASE c # "nul"
    <3> DEFINE r == Append(t, c)
    <3>1. /\ r # <<>> /\ Len(r) = Len(t) + 1 /\ r[Len(t) + 1] = c
      BY AppendProperties
    <3>2. Solid(r, "nul")
      BY <2>5, <3>1 DEF Solid
    <3>3. Utf8(c) \in Seq(Byte) /\ Encode(t) \in Seq(Byte) /\ Encode(r) \in Seq(Byte)
      BY <2>3, EncodeType, Utf8Is
    <3>4. Solid(Encode(r), 0)
      <4> DEFINE e == Encode(t)
      <4>1. CASE c = "a"
        <5>1. Utf8(c) = <<1>>
          BY <4>1 DEF Utf8
        <5>2. Encode(r) = Append(e, 1)
          BY <2>3, <3>3, <5>1
        <5> HIDE DEF e
        <5>3. Len(Append(e, 1)) = Len(e) + 1 /\ Append(e, 1)[Len(e) + 1] = 1
          BY <1>0, <3>3, AppendProperties DEF e
        <5>4. QED
          BY <5>2, <5>3 DEF Solid
      <4>2. CASE c = "wide"
        <5>1. Utf8(c) = <<2, 2>>
          BY <4>2 DEF Utf8
        <5>2. Encode(r) = Append(Append(e, 2), 2)
          BY <1>0, <2>3, <3>3, <5>1
        <5>3. Append(e, 2) \in Seq(Byte)
          BY <1>0, <3>3
        <5> DEFINE d == Append(e, 2)
        <5> HIDE DEF d
        <5>4. Len(Append(d, 2)) = Len(d) + 1 /\ Append(d, 2)[Len(d) + 1] = 2
          BY <1>0, <5>3, AppendProperties DEF d
        <5>5. QED
          BY <5>2, <5>4 DEF Solid, d
      <4>3. QED
        BY <2>5, <4>1, <4>2 DEF Char
    <3>5. r = r \o <<>> /\ Encode(r) = Encode(r) \o <<>>
      <4> HIDE DEF r
      <4>1. r \in Seq(Char)
        BY <2>3 DEF r
      <4>2. QED
        BY <3>3, <4>1, ConcatEmptySeq
    <3>6. <<>> \in Seq(Char) /\ <<>> \in Seq(Byte) /\ \A i \in 1 .. Len(<<>>) : FALSE
      OBVIOUS
    <3>7. Split(r, r, <<>>, <<>>)
      <4>1. r \in Seq(Char)
        BY <2>3
      <4> HIDE DEF r
      <4>2. QED
        BY <3>2, <3>4, <3>5, <3>6, <4>1 DEF Split
    <3>8. QED
      BY <2>3, <3>7
  <2>6. QED
    BY <2>4, <2>5
<1> HIDE DEF T
<1>3. Seq(Char) \subseteq T
  BY <1>1, <1>2, SeqUpward
<1>4. QED
  BY <1>3 DEF T

\* A field of a text gives back the text without its last NULs.
LEMMA FixedText ==
  ASSUME NEW text \in Seq(Char), NEW n \in Nat, EncodeFixed(text, n).ok
  PROVE  /\ EncodeFixed(text, n).value \in Seq(Byte)
         /\ Len(EncodeFixed(text, n).value) = n
         /\ DecodeFixed(EncodeFixed(text, n).value) = Returns(Stripped(text, "nul"))
<1> DEFINE bytes == Encode(text)
<1> DEFINE pads == [i \in 1 .. n - Len(bytes) |-> 0]
<1>1. bytes \in Seq(Byte) /\ Len(bytes) \in Nat
  BY EncodeType, LenProperties
<1>2. Len(bytes) <= n /\ EncodeFixed(text, n) = Returns(bytes \o pads)
  <2>1. ~(Len(bytes) > n)
    BY DEF EncodeFixed, Raises
  <2>2. QED
    BY <1>1, <2>1 DEF EncodeFixed
<1>3. 0 \in Byte
  BY WidthAssumption DEF Byte
<1>4. n - Len(bytes) \in Nat
  BY <1>1, <1>2
<1>5. pads \in Seq(Byte) /\ Len(pads) = n - Len(bytes) /\ \A i \in 1 .. Len(pads) : pads[i] = 0
  BY <1>3, <1>4
<1>6. EncodeFixed(text, n).value = bytes \o pads
  BY <1>2 DEF Returns
<1> HIDE DEF pads, bytes
<1>7. bytes \o pads \in Seq(Byte) /\ Len(bytes \o pads) = n
  <2>1. bytes \o pads \in Seq(Byte) /\ Len(bytes \o pads) = Len(bytes) + Len(pads)
    BY <1>1, <1>5, TwoParts
  <2>2. QED
    BY <1>1, <1>5, <2>1
<1>8. PICK p, q, z : Split(text, p, q, z)
  BY SplitExists
<1>9. /\ p \in Seq(Char) /\ q \in Seq(Char) /\ z \in Seq(Byte)
      /\ text = p \o q /\ bytes = Encode(p) \o z
      /\ (\A i \in 1 .. Len(q) : q[i] = "nul") /\ (\A i \in 1 .. Len(z) : z[i] = 0)
      /\ Solid(p, "nul") /\ Solid(Encode(p), 0) /\ Encode(p) \in Seq(Byte)
  BY <1>8, EncodeType DEF Split, bytes
<1>10. Stripped(text, "nul") = p
  BY <1>9, StrippedIs
<1>11. bytes \o pads = Encode(p) \o (z \o pads) /\ z \o pads \in Seq(Byte)
  <2> DEFINE e == Encode(p)
  <2>1. e \in Seq(Byte) /\ bytes = e \o z
    BY <1>9
  <2> HIDE DEF e
  <2>2. (e \o z) \o pads = e \o (z \o pads)
    <3>1. Joined(e, z, pads)
      BY <1>5, <1>9, <2>1, ConcatJoined
    <3>2. QED
      BY <3>1 DEF Joined
  <2>3. z \o pads \in Seq(Byte)
    BY <1>5, <1>9, TwoParts
  <2>4. QED
    BY <2>1, <2>2, <2>3 DEF e
<1>12. \A i \in 1 .. Len(z \o pads) : (z \o pads)[i] = 0
  <2>1. /\ Len(z \o pads) = Len(z) + Len(pads)
        /\ \A i \in 1 .. Len(z) + Len(pads) :
             (z \o pads)[i] = IF i <= Len(z) THEN z[i] ELSE pads[i - Len(z)]
    BY <1>5, <1>9, ConcatProperties
  <2>2. Len(z) \in Nat /\ Len(pads) \in Nat
    BY <1>5, <1>9, LenProperties
  <2>3. \A i \in 1 .. Len(z) + Len(pads) :
          i \in 1 .. Len(z) \/ (~(i <= Len(z)) /\ i - Len(z) \in 1 .. Len(pads))
    BY <2>2
  <2>4. \A i \in 1 .. Len(z) : i <= Len(z)
    BY <2>2
  <2> DEFINE w == z \o pads
  <2> HIDE DEF w
  <2>5. \A i \in 1 .. Len(z) + Len(pads) : w[i] = 0
    BY <1>5, <1>9, <2>1, <2>3, <2>4 DEF w
  <2>6. QED
    BY <2>1, <2>5 DEF w
<1>13. Stripped(bytes \o pads, 0) = Encode(p)
  <2> DEFINE e == Encode(p)
  <2> DEFINE w == z \o pads
  <2>1. e \in Seq(Byte) /\ Solid(e, 0)
    BY <1>9
  <2>2. w \in Seq(Byte) /\ \A i \in 1 .. Len(w) : w[i] = 0
    BY <1>11, <1>12
  <2>3. bytes \o pads = e \o w
    BY <1>11
  <2> HIDE DEF e, w
  <2>4. Stripped(e \o w, 0) = e
    BY <2>1, <2>2, StrippedIs
  <2>5. Stripped(bytes \o pads, 0) = e
    BY <2>3, <2>4
  <2>6. QED
    BY <2>5 DEF e
<1>14. Decode(Encode(p)) = Returns(p)
  BY <1>9, DecodeEncode
<1>15. QED
  BY <1>6, <1>7, <1>10, <1>13, <1>14 DEF DecodeFixed

-----------------------------------------------------------------------------
(* Numbers: a number is the sum of its digits.                             *)

\* Numbers.
MadeOf(v, q, r) == q \in Nat /\ r \in Byte /\ q * Base + r = v

\* A number is its digits above the last, and the last.
LEMMA Digits ==
  ASSUME NEW v \in Nat
  PROVE  MadeOf(v, v \div Base, v % Base)
<1>1. Base \in Nat /\ Base > 0
  BY WidthAssumption
<1>2. v \div Base \in Nat /\ v % Base \in Nat /\ v % Base < Base
  BY <1>1
<1> DEFINE q == v \div Base
<1> DEFINE r == v % Base
<1>3. r = v - Base * q
  BY <1>1
<1>4. q \in Nat /\ r \in Nat /\ r < Base
  BY <1>2
<1> HIDE DEF q, r
<1>5. q * Base = Base * q /\ Base * q \in Nat
  BY <1>1, <1>4
<1>6. q * Base + r = v
  <2> DEFINE p == Base * q
  <2>1. r = v - p /\ p \in Nat /\ q * Base = p
    BY <1>3, <1>5
  <2> HIDE DEF p
  <2>2. QED
    BY <1>4, <2>1
<1>7. r \in Byte
  BY <1>1, <1>4 DEF Byte
<1>8. MadeOf(v, q, r)
  BY <1>4, <1>6, <1>7 DEF MadeOf
<1>9. QED
  BY <1>8, Zenon DEF q, r

\* Each digit that is taken makes the bound on the rest one digit shorter.
LEMMA LeftFits ==
  ASSUME NEW v \in Nat, NEW m \in Nat, v < m * Base
  PROVE  v \div Base < m
<1>1. Base \in Nat /\ Base > 0
  BY WidthAssumption
<1>2. QED
  BY <1>1

\* The bytes of a number by their front parts.
LEMMA UnpackIs ==
  ASSUME NEW bytes \in Seq(Byte)
  PROVE  \E u \in [0 .. Len(bytes) -> Nat] :
           /\ u[0] = 0 /\ \A i \in 1 .. Len(bytes) : u[i] = u[i - 1] * Base + bytes[i]
           /\ Unpack(bytes) = u[Len(bytes)]
<1> DEFINE n == Len(bytes)
<1>1. n \in Nat /\ \A i \in 1 .. n : bytes[i] \in Byte
  BY LenProperties, ElementOfSeq
<1>2. \A b \in Byte, x \in Nat : x * Base + b \in Nat
  BY WidthAssumption DEF Byte
<1> DEFINE H == [i \in 1 .. n |-> [x \in Nat |-> x * Base + bytes[i]]]
<1>3. H \in [1 .. n -> [Nat -> Nat]]
  BY <1>1, <1>2
<1>4. \A i \in 1 .. n, x \in Nat : H[i][x] = x * Base + bytes[i]
  OBVIOUS
<1> DEFINE Eqn(g) == g = [i \in 0 .. n |-> IF i = 0 THEN 0 ELSE g[i - 1] * Base + bytes[i]]
<1> DEFINE g == CHOOSE g : Eqn(g)
<1>5. Unpack(bytes) = g[n]
  BY DEF Unpack
<1> HIDE DEF H, n
<1>6. PICK u : Follows(u, n, Nat, 0, H)
  BY <1>1, <1>3, Recursion
<1>7. /\ u \in [0 .. n -> Nat] /\ u[0] = 0
      /\ \A i \in 1 .. n : u[i] = H[i][u[i - 1]]
  BY <1>6 DEF Follows
<1>8. \A i \in 1 .. n : u[i] = u[i - 1] * Base + bytes[i]
  <2>1. \A i \in 1 .. n : i - 1 \in 0 .. n
    BY <1>1
  <2>2. \A i \in 1 .. n : u[i - 1] \in Nat
    BY <1>7, <2>1
  <2>3. QED
    BY <1>4, <1>7, <2>2
<1>9. Eqn(u)
  <2>1. \A i \in 0 .. n : u[i] = IF i = 0 THEN 0 ELSE u[i - 1] * Base + bytes[i]
    <3>1. \A i \in 0 .. n : i = 0 \/ (i # 0 /\ i \in 1 .. n)
      BY <1>1
    <3>2. QED
      BY <1>7, <1>8, <3>1
  <2>2. u = [i \in 0 .. n |-> u[i]]
    BY <1>7
  <2>3. QED
    BY <2>1, <2>2, Zenon
<1>10. Eqn(g)
  <2> HIDE DEF Eqn
  <2>1. QED
    BY <1>9
<1>11. g[0] = 0 /\ \A i \in 1 .. n : g[i] = g[i - 1] * Base + bytes[i]
  <2> HIDE DEF g
  <2>1. \A i \in 0 .. n : g[i] = IF i = 0 THEN 0 ELSE g[i - 1] * Base + bytes[i]
    BY <1>10, Zenon
  <2>2. 0 \in 0 .. n /\ \A i \in 1 .. n : i \in 0 .. n /\ i # 0
    BY <1>1
  <2>3. QED
    BY <2>1, <2>2
<1> HIDE DEF g, Eqn
<1>12. SameStep(n, u, g)
  BY <1>8, <1>11 DEF SameStep
<1>13. \A i \in 0 .. n : u[i] = g[i]
  <2>1. u[0] = g[0]
    BY <1>7, <1>11
  <2>2. QED
    BY <1>1, <1>12, <2>1, SameUpward
<1>14. n \in 0 .. n
  BY <1>1
<1>15. Unpack(bytes) = u[n]
  BY <1>5, <1>13, <1>14
<1>16. QED
  BY <1>7, <1>8, <1>15 DEF n

LEMMA UnpackType ==
  ASSUME NEW bytes \in Seq(Byte)
  PROVE  Unpack(bytes) \in Nat
<1>1. PICK u \in [0 .. Len(bytes) -> Nat] : Unpack(bytes) = u[Len(bytes)]
  BY UnpackIs
<1>2. Len(bytes) \in Nat
  BY LenProperties
<1>3. Len(bytes) \in 0 .. Len(bytes)
  BY <1>2
<1>4. QED
  BY <1>1, <1>3

\* What is left of a number after each of its digits, and what Pack makes of it.
LeftOf(v, w, left) ==
  /\ left \in [0 .. w -> Nat] /\ left[0] = v
  /\ \A i \in 1 .. w : left[i] = left[i - 1] \div Base

\* The digits that are left of a number, digit by digit.
LEMMA PackIs ==
  ASSUME NEW v \in Nat, NEW w \in Nat
  PROVE  \E left : /\ LeftOf(v, w, left)
                   /\ Pack(v, w) = IF left[w] # 0 THEN Raises
                                   ELSE Returns([i \in 1 .. w |-> left[w - i] % Base])
<1> DEFINE H == [i \in 1 .. w |-> [x \in Nat |-> x \div Base]]
<1>1. H \in [1 .. w -> [Nat -> Nat]]
  BY Digits DEF MadeOf
<1>2. \A i \in 1 .. w, x \in Nat : H[i][x] = x \div Base
  OBVIOUS
<1> DEFINE Eqn(g) == g = [i \in 0 .. w |-> IF i = 0 THEN v ELSE g[i - 1] \div Base]
<1> DEFINE g == CHOOSE g : Eqn(g)
<1>3. Pack(v, w) = IF v < 0 \/ g[w] # 0 THEN Raises
                   ELSE Returns([i \in 1 .. w |-> g[w - i] % Base])
  BY DEF Pack
<1> HIDE DEF H
<1>4. PICK left : Follows(left, w, Nat, v, H)
  BY <1>1, Recursion
<1>5. /\ left \in [0 .. w -> Nat] /\ left[0] = v
      /\ \A i \in 1 .. w : left[i] = H[i][left[i - 1]]
  BY <1>4 DEF Follows
<1>6. \A i \in 1 .. w : left[i] = left[i - 1] \div Base
  <2>1. \A i \in 1 .. w : i - 1 \in 0 .. w
    OBVIOUS
  <2>2. \A i \in 1 .. w : left[i - 1] \in Nat
    BY <1>5, <2>1
  <2>3. QED
    BY <1>2, <1>5, <2>2
<1>7. Eqn(left)
  <2>1. \A i \in 0 .. w : left[i] = IF i = 0 THEN v ELSE left[i - 1] \div Base
    <3>1. \A i \in 0 .. w : i = 0 \/ (i # 0 /\ i \in 1 .. w)
      OBVIOUS
    <3>2. QED
      BY <1>5, <1>6, <3>1
  <2>2. left = [i \in 0 .. w |-> left[i]]
    BY <1>5
  <2>3. QED
    BY <2>1, <2>2, Zenon
<1>8. Eqn(g)
  <2> HIDE DEF Eqn
  <2>1. QED
    BY <1>7
<1>9. g[0] = v /\ \A i \in 1 .. w : g[i] = g[i - 1] \div Base
  <2> HIDE DEF g
  <2>1. \A i \in 0 .. w : g[i] = IF i = 0 THEN v ELSE g[i - 1] \div Base
    BY <1>8, Zenon
  <2>2. 0 \in 0 .. w /\ \A i \in 1 .. w : i \in 0 .. w /\ i # 0
    OBVIOUS
  <2>3. QED
    BY <2>1, <2>2
<1> HIDE DEF g, Eqn
<1>10. SameStep(w, left, g)
  BY <1>6, <1>9 DEF SameStep
<1>11. \A i \in 0 .. w : left[i] = g[i]
  <2>1. left[0] = g[0]
    BY <1>5, <1>9
  <2>2. QED
    BY <1>10, <2>1, SameUpward
<1>12. left[w] = g[w] /\ \A i \in 1 .. w : left[w - i] = g[w - i]
  <2>1. w \in 0 .. w /\ \A i \in 1 .. w : w - i \in 0 .. w
    OBVIOUS
  <2>2. QED
    BY <1>11, <2>1
<1>13. [i \in 1 .. w |-> g[w - i] % Base] = [i \in 1 .. w |-> left[w - i] % Base]
  BY <1>12
<1>14. Pack(v, w) = IF left[w] # 0 THEN Raises
                    ELSE Returns([i \in 1 .. w |-> left[w - i] % Base])
  <2>1. ~(v < 0)
    OBVIOUS
  <2>2. QED
    BY <1>3, <1>12, <1>13, <2>1
<1>15. QED
  BY <1>5, <1>6, <1>14 DEF LeftOf

\* A field of a number gives the number back.
LEMMA PackNumber ==
  ASSUME NEW v \in Int, NEW w \in Nat, Pack(v, w).ok
  PROVE  /\ v \in Nat /\ Pack(v, w).value \in Seq(Byte) /\ Len(Pack(v, w).value) = w
         /\ Unpack(Pack(v, w).value) = v
<1>1. v \in Nat
  BY DEF Pack, Raises
<1>2. PICK left : /\ LeftOf(v, w, left)
                  /\ Pack(v, w) = IF left[w] # 0 THEN Raises
                                  ELSE Returns([i \in 1 .. w |-> left[w - i] % Base])
  BY <1>1, PackIs
<1>3. left[w] = 0 /\ Pack(v, w).value = [i \in 1 .. w |-> left[w - i] % Base]
  BY <1>2 DEF Raises, Returns
<1>4. /\ left \in [0 .. w -> Nat] /\ left[0] = v
      /\ \A i \in 1 .. w : left[i] = left[i - 1] \div Base
  BY <1>2 DEF LeftOf
<1> DEFINE bytes == [i \in 1 .. w |-> left[w - i] % Base]
<1>5. \A i \in 1 .. w : w - i \in 0 .. w /\ left[w - i] \in Nat
  BY <1>4
<1>6. \A i \in 1 .. w : left[w - i] % Base \in Byte
  BY <1>5, Digits DEF MadeOf
<1>7. bytes \in Seq(Byte) /\ Len(bytes) = w
  BY <1>6
<1>8. \A i \in 1 .. w : bytes[i] = left[w - i] % Base
  OBVIOUS
<1> HIDE DEF bytes
<1>9. PICK u \in [0 .. Len(bytes) -> Nat] :
           /\ u[0] = 0 /\ (\A i \in 1 .. Len(bytes) : u[i] = u[i - 1] * Base + bytes[i])
           /\ Unpack(bytes) = u[Len(bytes)]
  BY <1>7, UnpackIs
<1>10. u[0] = 0 /\ (\A i \in 1 .. w : u[i] = u[i - 1] * Base + bytes[i]) /\ Unpack(bytes) = u[w]
  BY <1>7, <1>9
<1> DEFINE back == [i \in 0 .. w |-> left[w - i]]
<1>11. \A i \in 0 .. w : back[i] = left[w - i]
  OBVIOUS
<1> HIDE DEF back
<1>12. ASSUME NEW i \in 1 .. w PROVE back[i] = back[i - 1] * Base + bytes[i]
  <2>1. /\ back[i] = left[w - i] /\ back[i - 1] = left[w - (i - 1)]
        /\ bytes[i] = left[w - i] % Base
    <3>1. i \in 0 .. w /\ i - 1 \in 0 .. w
      OBVIOUS
    <3>2. QED
      BY <1>8, <1>11, <3>1
  <2>2. left[w - (i - 1)] = left[w - i] \div Base
    <3>1. w - (i - 1) \in 1 .. w /\ (w - (i - 1)) - 1 = w - i
      OBVIOUS
    <3>2. QED
      BY <1>4, <3>1
  <2>3. MadeOf(left[w - i], left[w - i] \div Base, left[w - i] % Base)
    BY <1>5, Digits
  <2>4. MadeOf(back[i], back[i - 1], bytes[i])
    BY <2>1, <2>2, <2>3, Zenon
  <2>5. QED
    BY <2>4 DEF MadeOf
<1>13. u[0] = back[0]
  <2>1. 0 \in 0 .. w /\ w - 0 = w
    OBVIOUS
  <2>2. back[0] = left[w]
    BY <1>11, <2>1
  <2>3. QED
    BY <1>3, <1>10, <2>2
<1>14. SameStep(w, u, back)
  BY <1>10, <1>12 DEF SameStep
<1>15. \A i \in 0 .. w : u[i] = back[i]
  BY <1>13, <1>14, SameUpward
<1>16. u[w] = v
  <2>1. w \in 0 .. w /\ w - w = 0
    OBVIOUS
  <2>2. u[w] = back[w] /\ back[w] = left[w - w]
    BY <1>11, <1>15, <2>1
  <2>3. QED
    BY <1>4, <2>1, <2>2
<1>17. QED
  BY <1>1, <1>3, <1>7, <1>10, <1>16 DEF bytes

\* A number that is small enough fits.
LEMMA PackByte ==
  ASSUME NEW v \in Byte
  PROVE  Pack(v, 1) = Returns(<<v>>)
<1>1. v \in Nat /\ v < 1 * Base /\ Base \in Nat /\ Base > 0
  BY WidthAssumption DEF Byte
<1>2. PICK left : /\ LeftOf(v, 1, left)
                  /\ Pack(v, 1) = IF left[1] # 0 THEN Raises
                                  ELSE Returns([i \in 1 .. 1 |-> left[1 - i] % Base])
  BY <1>1, PackIs
<1>3. left[0] = v /\ left[1] = v \div Base
  <2>1. 1 \in 1 .. 1 /\ 1 - 1 = 0
    OBVIOUS
  <2>2. \A i \in 1 .. 1 : left[i] = left[i - 1] \div Base
    BY <1>2 DEF LeftOf
  <2>3. QED
    BY <1>2, <2>1, <2>2 DEF LeftOf
<1>4. v \div Base < 1 /\ v \div Base \in Nat
  BY <1>1, LeftFits, Digits DEF MadeOf
<1>5. left[1] = 0
  BY <1>3, <1>4
<1>6. v % Base = v
  BY <1>3, <1>4, <1>5, <1>1, Digits DEF MadeOf
<1>7. [i \in 1 .. 1 |-> left[1 - i] % Base] = <<v>>
  <2> DEFINE s == [i \in 1 .. 1 |-> left[1 - i] % Base]
  <2>1. \A i \in 1 .. 1 : i = 1 /\ 1 - i = 0
    OBVIOUS
  <2>2. s[1] = v
    BY <1>3, <1>6, <2>1
  <2>3. v \in Int
    BY <1>1
  <2>4. \A i \in 1 .. 1 : left[1 - i] % Base \in Int
    BY <1>3, <1>6, <2>1, <2>3
  <2>5. s \in Seq(Int) /\ Len(s) = 1
    BY <2>4
  <2> HIDE DEF s
  <2>6. s = <<v>>
    BY <2>2, <2>3, <2>5
  <2>7. QED
    BY <2>6 DEF s
<1>8. QED
  BY <1>2, <1>5, <1>7

\* The length of a payload fits its field of the header.
LEMMA PackLength ==
  ASSUME NEW v \in 0 .. MaxPayload
  PROVE  Pack(v, 4).ok
<1>1. /\ Base \in Nat /\ v \in Nat /\ v < Base * Base * Base * Base
      /\ Base * Base * Base \in Nat /\ Base * Base \in Nat
  BY WidthAssumption
<1>2. PICK left : /\ LeftOf(v, 4, left)
                  /\ Pack(v, 4) = IF left[4] # 0 THEN Raises
                                  ELSE Returns([i \in 1 .. 4 |-> left[4 - i] % Base])
  BY <1>1, PackIs
<1>3. left \in [0 .. 4 -> Nat] /\ \A i \in 1 .. 4 : left[i] = left[i - 1] \div Base
  BY <1>2 DEF LeftOf
<1>4. /\ left[0] = v /\ left[1] = left[0] \div Base /\ left[2] = left[1] \div Base
      /\ left[3] = left[2] \div Base /\ left[4] = left[3] \div Base
      /\ left[1] \in Nat /\ left[2] \in Nat /\ left[3] \in Nat /\ left[4] \in Nat
  <2>1. /\ 1 \in 1 .. 4 /\ 2 \in 1 .. 4 /\ 3 \in 1 .. 4 /\ 4 \in 1 .. 4
        /\ 1 - 1 = 0 /\ 2 - 1 = 1 /\ 3 - 1 = 2 /\ 4 - 1 = 3
    OBVIOUS
  <2>2. QED
    BY <1>2, <1>3, <2>1 DEF LeftOf
<1>5. left[1] < Base * Base * Base
  BY <1>1, <1>4, LeftFits
<1>6. left[2] < Base * Base
  BY <1>1, <1>4, <1>5, LeftFits
<1>7. left[3] < Base
  BY <1>1, <1>4, <1>6, LeftFits
<1>8. left[4] < 1
  <2>1. left[3] < 1 * Base
    BY <1>1, <1>7
  <2>2. QED
    BY <1>4, <2>1, LeftFits
<1>9. QED
  BY <1>2, <1>4, <1>8 DEF Returns

-----------------------------------------------------------------------------
(* Layouts of fixed fields.                                                *)

\* A conversion returns or raises.
LEMMA ReturnsValue ==
  ASSUME NEW x
  PROVE  Returns(x).ok /\ Returns(x).value = x /\ ~Raises.ok
BY DEF Returns, Raises

LEMMA UnpackByte ==
  ASSUME NEW bytes \in Seq(Byte), Len(bytes) = 1
  PROVE  Unpack(bytes) = bytes[1] /\ bytes[1] \in Byte
<1>1. PICK u \in [0 .. Len(bytes) -> Nat] :
           /\ u[0] = 0 /\ (\A i \in 1 .. Len(bytes) : u[i] = u[i - 1] * Base + bytes[i])
           /\ Unpack(bytes) = u[Len(bytes)]
  BY UnpackIs
<1>2. 1 \in 1 .. Len(bytes) /\ 1 - 1 = 0
  OBVIOUS
<1>3. u[1] = u[0] * Base + bytes[1]
  <2>1. \A i \in 1 .. Len(bytes) : i = 1 => u[i] = u[0] * Base + bytes[i]
    BY <1>1
  <2>2. QED
    BY <1>2, <2>1
<1>4. bytes[1] \in Byte
  BY <1>2, ElementOfSeq
<1>5. 0 * Base + bytes[1] = bytes[1]
  BY <1>4, WidthAssumption DEF Byte
<1>6. QED
  BY <1>1, <1>3, <1>4, <1>5

\* What a field holds is read as it is meant.
MeantField(f, v) == IF f.kind = "text" THEN Trimmed(v) ELSE v
HoldsField(f, v, bytes) ==
  /\ bytes \in Seq(Byte) /\ Len(bytes) = f.size
  /\ UnpackField(f, bytes) = Returns(MeantField(f, v))

LEMMA FieldType ==
  ASSUME NEW f \in Field
  PROVE  /\ f.size \in Nat /\ f.kind \in {"text", "raw", "num", "signed", "enum"}
         /\ f.kind \in {"signed", "enum"} => f.size = 1
         /\ f.kind = "enum" => f.of \subseteq Byte
<1>1. CASE f \in [kind : {"text", "raw", "num"}, size : Nat]
  BY <1>1
<1>2. CASE f \in [kind : {"signed"}, size : {1}]
  BY <1>2
<1>3. CASE f \in [kind : {"enum"}, size : {1}, of : SUBSET Byte]
  BY <1>3
<1>4. QED
  BY <1>1, <1>2, <1>3 DEF Field

\* A field of any kind gives back what was packed in it.
LEMMA FieldReturns ==
  ASSUME NEW f \in Field, NEW v, GivenTo(f, v), PackField(f, v).ok
  PROVE  HoldsField(f, v, PackField(f, v).value)
<1> DEFINE bytes == PackField(f, v).value
<1>1. f.size \in Nat /\ f.kind \in {"text", "raw", "num", "signed", "enum"}
  BY FieldType
<1>2. CASE f.kind = "text"
  <2>1. v \in Seq(Char) /\ PackField(f, v) = EncodeFixed(v, f.size)
    BY <1>2 DEF GivenTo, PackField
  <2>2. UnpackField(f, bytes) = DecodeFixed(bytes) /\ MeantField(f, v) = Stripped(v, "nul")
    BY <1>2 DEF UnpackField, MeantField, Trimmed
  <2>3. /\ EncodeFixed(v, f.size).value \in Seq(Byte)
        /\ Len(EncodeFixed(v, f.size).value) = f.size
        /\ DecodeFixed(EncodeFixed(v, f.size).value) = Returns(Stripped(v, "nul"))
    BY <1>1, <2>1, FixedText
  <2>4. QED
    BY <2>1, <2>2, <2>3 DEF HoldsField
<1>3. CASE f.kind = "raw"
  <2>1. v \in Seq(Byte) /\ PackField(f, v) = IF Len(v) = f.size THEN Returns(v) ELSE Raises
    BY <1>3 DEF GivenTo, PackField
  <2>2. Len(v) = f.size /\ bytes = v
    BY <2>1 DEF Returns, Raises
  <2>3. UnpackField(f, bytes) = Returns(bytes) /\ MeantField(f, v) = v
    BY <1>3 DEF UnpackField, MeantField
  <2>4. QED
    BY <2>1, <2>2, <2>3 DEF HoldsField
<1>4. CASE f.kind = "num"
  <2>1. v \in Int /\ PackField(f, v) = Pack(v, f.size)
    BY <1>4 DEF GivenTo, PackField
  <2>2. bytes \in Seq(Byte) /\ Len(bytes) = f.size /\ Unpack(bytes) = v
    BY <1>1, <2>1, PackNumber
  <2>3. UnpackField(f, bytes) = Returns(Unpack(bytes)) /\ MeantField(f, v) = v
    BY <1>4 DEF UnpackField, MeantField
  <2>4. QED
    BY <2>2, <2>3 DEF HoldsField
<1>5. CASE f.kind = "signed"
  <2>1. v \in Int /\ PackField(f, v) = Pack(Signed(v), 1) /\ f.size = 1
    BY <1>5, FieldType DEF GivenTo, PackField
  <2>2. Base \in Nat /\ Base >= 6
    BY WidthAssumption
  <2>3. Signed(v) \in Int
    BY <2>1, <2>2 DEF Signed
  <2>4. bytes \in Seq(Byte) /\ Len(bytes) = 1 /\ Unpack(bytes) = Signed(v)
    BY <2>1, <2>3, PackNumber
  <2>5. bytes[1] = Signed(v) /\ bytes[1] \in Byte
    BY <2>4, UnpackByte
  <2>6. FromSigned(bytes[1]) = v
    <3>1. Signed(v) \in 0 .. Base - 1
      BY <2>5 DEF Byte
    <3> HIDE DEF bytes
    <3>2. v \in -(Base \div 2) .. Base \div 2 - 1
      BY <2>2, <3>1 DEF Signed
    <3>3. CASE v < 0
      <4>1. Signed(v) = v + Base
        BY <3>2, <3>3 DEF Signed
      <4>2. v + Base >= Base \div 2 /\ v + Base - Base = v
        BY <2>1, <2>2, <3>2
      <4>3. FromSigned(v + Base) = v
        BY <2>1, <2>2, <4>2 DEF FromSigned
      <4>4. QED
        BY <2>5, <4>1, <4>3
    <3>4. CASE ~(v < 0)
      <4>1. Signed(v) = v
        BY <3>2, <3>4 DEF Signed
      <4>2. ~(v >= Base \div 2)
        BY <2>1, <2>2, <3>2
      <4>3. QED
        BY <2>5, <4>1, <4>2 DEF FromSigned
    <3>5. QED
      BY <3>3, <3>4
  <2>7. UnpackField(f, bytes) = Returns(FromSigned(bytes[1])) /\ MeantField(f, v) = v
    BY <1>5 DEF UnpackField, MeantField
  <2>8. QED
    BY <2>1, <2>4, <2>6, <2>7 DEF HoldsField
<1>6. CASE f.kind = "enum"
  <2>1. PackField(f, v) = (IF v \in f.of THEN Pack(v, 1) ELSE Raises) /\ f.size = 1 /\ f.of \subseteq Byte
    BY <1>6, FieldType DEF PackField
  <2>2. v \in f.of /\ v \in Byte
    BY <2>1 DEF Raises
  <2>3. PackField(f, v) = Returns(<<v>>)
    BY <2>1, <2>2, PackByte
  <2>4. bytes = <<v>>
    BY <2>3 DEF Returns
  <2>5. bytes \in Seq(Byte) /\ Len(bytes) = 1 /\ bytes[1] = v
    <3>1. <<v>> \in Seq(Byte) /\ Len(<<v>>) = 1 /\ <<v>>[1] = v
      BY <2>2
    <3>2. QED
      BY <2>4, <3>1, Zenon
  <2>6. UnpackField(f, bytes) = (IF bytes[1] \in f.of THEN Returns(bytes[1]) ELSE Raises) /\ MeantField(f, v) = v
    BY <1>6 DEF UnpackField, MeantField
  <2>7. QED
    BY <2>1, <2>2, <2>5, <2>6 DEF HoldsField
<1>7. QED
  BY <1>1, <1>2, <1>3, <1>4, <1>5, <1>6

\* Where the fields of a layout end.
EndsAt(layout, ends) ==
  /\ ends \in [0 .. Len(layout) -> Nat] /\ ends[0] = 0
  /\ \A i \in 1 .. Len(layout) : ends[i] = ends[i - 1] + layout[i].size

\* Where the fields of a layout end.
LEMMA EndsIs ==
  ASSUME NEW layout \in Seq(Field)
  PROVE  EndsAt(layout, Ends(layout))
<1> DEFINE n == Len(layout)
<1>1. n \in Nat /\ \A i \in 1 .. n : layout[i] \in Field
  BY LenProperties, ElementOfSeq
<1>2. \A i \in 1 .. n : layout[i].size \in Nat
  BY <1>1, FieldType
<1> DEFINE H == [i \in 1 .. n |-> [x \in Nat |-> x + layout[i].size]]
<1>3. H \in [1 .. n -> [Nat -> Nat]]
  BY <1>2
<1>4. \A i \in 1 .. n, x \in Nat : H[i][x] = x + layout[i].size
  OBVIOUS
<1> DEFINE Eqn(g) == g = [i \in 0 .. n |-> IF i = 0 THEN 0 ELSE g[i - 1] + layout[i].size]
<1> DEFINE g == CHOOSE g : Eqn(g)
<1>5. Ends(layout) = g
  BY DEF Ends
<1> HIDE DEF H, n
<1>6. PICK u : Follows(u, n, Nat, 0, H)
  BY <1>1, <1>3, Recursion
<1>7. /\ u \in [0 .. n -> Nat] /\ u[0] = 0
      /\ \A i \in 1 .. n : u[i] = H[i][u[i - 1]]
  BY <1>6 DEF Follows
<1>8. \A i \in 1 .. n : u[i] = u[i - 1] + layout[i].size
  <2>1. \A i \in 1 .. n : i - 1 \in 0 .. n
    BY <1>1
  <2>2. \A i \in 1 .. n : u[i - 1] \in Nat
    BY <1>7, <2>1
  <2>3. QED
    BY <1>4, <1>7, <2>2
<1>9. Eqn(u)
  <2>1. \A i \in 0 .. n : u[i] = IF i = 0 THEN 0 ELSE u[i - 1] + layout[i].size
    <3>1. \A i \in 0 .. n : i = 0 \/ (i # 0 /\ i \in 1 .. n)
      BY <1>1
    <3>2. QED
      BY <1>7, <1>8, <3>1
  <2>2. u = [i \in 0 .. n |-> u[i]]
    BY <1>7
  <2>3. QED
    BY <2>1, <2>2, Zenon
<1>10. Eqn(g)
  <2> HIDE DEF Eqn
  <2>1. QED
    BY <1>9
<1>11. g = [i \in 0 .. n |-> g[i]] /\ g[0] = 0 /\ \A i \in 1 .. n : g[i] = g[i - 1] + layout[i].size
  <2> HIDE DEF g
  <2>1. \A i \in 0 .. n : g[i] = IF i = 0 THEN 0 ELSE g[i - 1] + layout[i].size
    BY <1>10, Zenon
  <2>2. 0 \in 0 .. n /\ \A i \in 1 .. n : i \in 0 .. n /\ i # 0
    BY <1>1
  <2>3. g = [i \in 0 .. n |-> g[i]]
    BY <1>10, <2>1
  <2>4. QED
    BY <2>1, <2>2, <2>3
<1> HIDE DEF g, Eqn
<1>12. SameStep(n, u, g)
  BY <1>8, <1>11 DEF SameStep
<1>13. \A i \in 0 .. n : u[i] = g[i]
  <2>1. u[0] = g[0]
    BY <1>7, <1>11
  <2>2. QED
    BY <1>1, <1>12, <2>1, SameUpward
<1>14. g \in [0 .. n -> Nat]
  BY <1>7, <1>11, <1>13
<1>15. QED
  BY <1>5, <1>11, <1>14 DEF EndsAt, n

LEMMA SizeOfType ==
  ASSUME NEW layout \in Seq(Field)
  PROVE  SizeOf(layout) \in Nat
<1>1. Len(layout) \in Nat
  BY LenProperties
<1>2. EndsAt(layout, Ends(layout))
  BY EndsIs
<1>3. Len(layout) \in 0 .. Len(layout)
  BY <1>1
<1>4. QED
  BY <1>2, <1>3 DEF EndsAt, SizeOf

\* What is packed by a layout is read as it is meant.
HoldsLayout(layout, v, bytes) ==
  /\ bytes \in Seq(Byte) /\ Len(bytes) = SizeOf(layout)
  /\ UnpackAll(layout, bytes) = Returns(TrimmedLayout(layout, v))

\* A layout gives back what was packed in it, field by field (struct.pack, struct.unpack).
LEMMA LayoutReturns ==
  ASSUME NEW layout, NEW v, Given(layout, v), PackAll(layout, v).ok
  PROVE  HoldsLayout(layout, v, PackAll(layout, v).value)
<1> DEFINE n == Len(layout)
<1> DEFINE parts == [i \in DOMAIN layout |-> PackField(layout[i], v[i])]
<1> DEFINE seqs == Values(parts)
<1> DEFINE bytes == PackAll(layout, v).value
<1> DEFINE ends == Ends(layout)
<1>1. layout \in Seq(Field) /\ \A i \in DOMAIN layout : GivenTo(layout[i], v[i])
  BY DEF Given
<1>2. n \in Nat /\ DOMAIN layout = 1 .. n /\ \A i \in 1 .. n : layout[i] \in Field
  BY <1>1, LenProperties, ElementOfSeq
<1>3. AllOk(parts) /\ bytes = FlattenSeq(seqs)
  <2>1. PackAll(layout, v) = IF AllOk(parts) THEN Returns(FlattenSeq(seqs)) ELSE Raises
    BY DEF PackAll
  <2> HIDE DEF parts, seqs
  <2>2. QED
    BY <2>1 DEF Returns, Raises
<1>4. ASSUME NEW i \in 1 .. n
      PROVE  HoldsField(layout[i], v[i], seqs[i])
  <2>1. PackField(layout[i], v[i]).ok /\ seqs[i] = PackField(layout[i], v[i]).value
    BY <1>2, <1>3 DEF AllOk, Values
  <2>2. layout[i] \in Field /\ GivenTo(layout[i], v[i])
    BY <1>1, <1>2
  <2>3. HoldsField(layout[i], v[i], PackField(layout[i], v[i]).value)
    BY <2>1, <2>2, FieldReturns
  <2>4. QED
    BY <2>1, <2>3
<1>5. DOMAIN seqs = 1 .. n
  BY <1>2 DEF Values
<1>6. seqs \in Seq(Seq(Byte)) /\ Len(seqs) = n
  <2>1. \A i \in 1 .. n : seqs[i] \in Seq(Byte)
    BY <1>4 DEF HoldsField
  <2>2. seqs = [i \in 1 .. n |-> seqs[i]]
    BY <1>2 DEF Values
  <2> HIDE DEF seqs
  <2>3. QED
    BY <1>2, <2>1, <2>2
<1>7. EndsAt(layout, ends)
  BY <1>1, EndsIs
<1> HIDE DEF seqs, parts, ends
<1>8. AddsUp(seqs, ends)
  BY <1>4, <1>6, <1>7 DEF EndsAt, HoldsField, AddsUp
<1> HIDE DEF n
<1>9. /\ bytes \in Seq(Byte) /\ Len(bytes) = ends[n]
      /\ \A i \in 1 .. n : SubSeq(bytes, ends[i - 1] + 1, ends[i]) = seqs[i]
  <2>1. bytes \in Seq(Byte) /\ Parted(bytes, seqs, ends)
    BY <1>3, <1>6, <1>8, FlatEnds
  <2>2. QED
    BY <1>6, <2>1 DEF Parted
<1>10. Len(bytes) = SizeOf(layout)
  BY <1>9 DEF SizeOf, ends, n
<1>11. UnpackAll(layout, bytes) = Returns(TrimmedLayout(layout, v))
  <2> DEFINE read == [i \in DOMAIN layout |->
                        UnpackField(layout[i], SubSeq(bytes, ends[i - 1] + 1, ends[i]))]
  <2>1. UnpackAll(layout, bytes) = IF Len(bytes) = SizeOf(layout) /\ AllOk(read)
                                   THEN Returns(Values(read)) ELSE Raises
    BY DEF UnpackAll, ends
  <2>2. \A i \in 1 .. n : read[i] = Returns(MeantField(layout[i], v[i]))
    <3> SUFFICES ASSUME NEW i \in 1 .. n PROVE read[i] = Returns(MeantField(layout[i], v[i]))
      OBVIOUS
    <3>1. SubSeq(bytes, ends[i - 1] + 1, ends[i]) = seqs[i]
      BY <1>9
    <3>2. read[i] = UnpackField(layout[i], SubSeq(bytes, ends[i - 1] + 1, ends[i]))
      BY <1>2
    <3> HIDE DEF read, bytes
    <3>3. read[i] = UnpackField(layout[i], seqs[i])
      BY <3>1, <3>2, Zenon
    <3>4. QED
      BY <1>4, <3>3 DEF HoldsField
  <2>3. DOMAIN read = 1 .. n
    BY <1>2
  <2> HIDE DEF read, bytes
  <2>4. AllOk(read)
    BY <2>2, <2>3 DEF AllOk, Returns
  <2>5. Values(read) = TrimmedLayout(layout, v)
    <3>1. \A i \in 1 .. n : read[i].value = MeantField(layout[i], v[i])
      <4> SUFFICES ASSUME NEW i \in 1 .. n PROVE read[i].value = MeantField(layout[i], v[i])
        OBVIOUS
      <4>1. read[i] = Returns(MeantField(layout[i], v[i]))
        BY <2>2
      <4>2. QED
        BY <4>1, ReturnsValue, Zenon
    <3>2. QED
      BY <1>2, <2>3, <3>1 DEF Values, TrimmedLayout, MeantField
  <2>6. QED
    BY <1>10, <2>1, <2>4, <2>5
<1>12. QED
  BY <1>9, <1>10, <1>11 DEF HoldsLayout

\* Bytes of another length are not.
LEMMA LayoutLength ==
  ASSUME NEW layout, NEW bytes, Len(bytes) # SizeOf(layout)
  PROVE  ~UnpackAll(layout, bytes).ok
BY DEF UnpackAll, Raises

\* A payload of fixed fields, whatever their number, kinds and sizes, is unpacked to
\* what was packed, and has the size of its layout.
THEOREM FixedIsRead ==
  ASSUME NEW layout, NEW v, Given(layout, v)
  PROVE  FixedReturns(layout, v)
<1>1. CASE PackAll(layout, v).ok
  <2>1. HoldsLayout(layout, v, PackAll(layout, v).value)
    BY <1>1, LayoutReturns
  <2>2. QED
    BY <2>1 DEF HoldsLayout, FixedReturns
<1>2. QED
  BY <1>1 DEF FixedReturns

-----------------------------------------------------------------------------
(* The layouts and tuples of the payloads.                                 *)

\* A function is its values, one after the other.
LEMMA TupleOne ==
  ASSUME NEW f, f = [i \in 1 .. 1 |-> f[i]]
  PROVE  f = <<f[1]>>
OBVIOUS

LEMMA TupleTwo ==
  ASSUME NEW f, f = [i \in 1 .. 2 |-> f[i]]
  PROVE  f = <<f[1], f[2]>>
OBVIOUS

LEMMA TupleThree ==
  ASSUME NEW f, f = [i \in 1 .. 3 |-> f[i]]
  PROVE  f = <<f[1], f[2], f[3]>>
OBVIOUS

LEMMA TupleFour ==
  ASSUME NEW f, f = [i \in 1 .. 4 |-> f[i]]
  PROVE  f = <<f[1], f[2], f[3], f[4]>>
OBVIOUS

LEMMA TupleFive ==
  ASSUME NEW f, f = [i \in 1 .. 5 |-> f[i]]
  PROVE  f = <<f[1], f[2], f[3], f[4], f[5]>>
OBVIOUS

\* Short sequences: t is s and one more.
Longer(s, e, t) == Append(s, e) = t /\ Front(t) = s /\ Last(t) = e

\* All but the last, and the last.
LEMMA FrontOfAppend ==
  ASSUME NEW X, NEW s \in Seq(X), NEW e \in X
  PROVE  Front(Append(s, e)) = s
BY DEF Front

LEMMA LastOfAppend ==
  ASSUME NEW X, NEW s \in Seq(X), NEW e \in X
  PROVE  Last(Append(s, e)) = e
BY DEF Last

LEMMA OneIn ==
  ASSUME NEW X, NEW a \in X, NEW s \in Seq(X), s = <<>>
  PROVE  Longer(s, a, <<a>>)
<1>1. Len(s) = 0
  OBVIOUS
<1>2. Append(s, a) = [i \in 1 .. 1 |-> IF i = 1 THEN a ELSE s[i]]
  BY <1>1
<1>3. Append(s, a) = <<a>>
  <2> DEFINE u == Append(s, a)
  <2>1. u = [i \in 1 .. 1 |-> u[i]] /\ u[1] = a
    BY <1>1, <1>2
  <2> HIDE DEF u
  <2>2. u = <<u[1]>>
    BY <2>1, TupleOne
  <2>3. QED
    BY <2>1, <2>2 DEF u
<1>4. Front(Append(s, a)) = s /\ Last(Append(s, a)) = a
  BY FrontOfAppend, LastOfAppend
<1>5. QED
  BY <1>3, <1>4, Zenon DEF Longer

LEMMA OneOf ==
  ASSUME NEW a
  PROVE  Longer(<<>>, a, <<a>>)
<1> DEFINE X == {a}
<1>1. a \in X
  OBVIOUS
<1>2. <<>> \in Seq(X)
  OBVIOUS
<1>3. QED
  BY <1>1, <1>2, OneIn, Zenon

LEMMA TwoIn ==
  ASSUME NEW X, NEW a \in X, NEW b \in X, NEW s \in Seq(X), s = <<a>>
  PROVE  Longer(s, b, <<a, b>>)
<1>1. Len(s) = 1 /\ s[1] = a
  OBVIOUS
<1>2. Append(s, b) = [i \in 1 .. 2 |-> IF i = 2 THEN b ELSE s[i]]
  BY <1>1
<1>3. Append(s, b) = <<a, b>>
  <2> DEFINE u == Append(s, b)
  <2>1. u = [i \in 1 .. 2 |-> u[i]] /\ u[1] = a /\ u[2] = b
    BY <1>1, <1>2
  <2> HIDE DEF u
  <2>2. u = <<u[1], u[2]>>
    BY <2>1, TupleTwo
  <2>3. QED
    BY <2>1, <2>2 DEF u
<1>4. Front(Append(s, b)) = s /\ Last(Append(s, b)) = b
  BY FrontOfAppend, LastOfAppend
<1>5. QED
  BY <1>3, <1>4, Zenon DEF Longer

LEMMA TwoOf ==
  ASSUME NEW a, NEW b
  PROVE  Longer(<<a>>, b, <<a, b>>)
<1> DEFINE X == {a, b}
<1>1. a \in X /\ b \in X
  OBVIOUS
<1>2. <<a>> \in Seq(X)
  OBVIOUS
<1>3. QED
  BY <1>1, <1>2, TwoIn, Zenon

LEMMA ThreeIn ==
  ASSUME NEW X, NEW a \in X, NEW b \in X, NEW c \in X, NEW s \in Seq(X), s = <<a, b>>
  PROVE  Longer(s, c, <<a, b, c>>)
<1>1. Len(s) = 2 /\ s[1] = a /\ s[2] = b
  OBVIOUS
<1>2. Append(s, c) = [i \in 1 .. 3 |-> IF i = 3 THEN c ELSE s[i]]
  BY <1>1
<1>3. Append(s, c) = <<a, b, c>>
  <2> DEFINE u == Append(s, c)
  <2>1. u = [i \in 1 .. 3 |-> u[i]] /\ u[1] = a /\ u[2] = b /\ u[3] = c
    BY <1>1, <1>2
  <2> HIDE DEF u
  <2>2. u = <<u[1], u[2], u[3]>>
    BY <2>1, TupleThree
  <2>3. QED
    BY <2>1, <2>2 DEF u
<1>4. Front(Append(s, c)) = s /\ Last(Append(s, c)) = c
  BY FrontOfAppend, LastOfAppend
<1>5. QED
  BY <1>3, <1>4, Zenon DEF Longer

LEMMA ThreeOf ==
  ASSUME NEW a, NEW b, NEW c
  PROVE  Longer(<<a, b>>, c, <<a, b, c>>)
<1> DEFINE X == {a, b, c}
<1>1. a \in X /\ b \in X /\ c \in X
  OBVIOUS
<1>2. <<a, b>> \in Seq(X)
  OBVIOUS
<1>3. QED
  BY <1>1, <1>2, ThreeIn, Zenon

LEMMA FourIn ==
  ASSUME NEW X, NEW a \in X, NEW b \in X, NEW c \in X, NEW d \in X, NEW s \in Seq(X), s = <<a, b, c>>
  PROVE  Longer(s, d, <<a, b, c, d>>)
<1>1. Len(s) = 3 /\ s[1] = a /\ s[2] = b /\ s[3] = c
  OBVIOUS
<1>2. Append(s, d) = [i \in 1 .. 4 |-> IF i = 4 THEN d ELSE s[i]]
  BY <1>1
<1>3. Append(s, d) = <<a, b, c, d>>
  <2> DEFINE u == Append(s, d)
  <2>1. u = [i \in 1 .. 4 |-> u[i]] /\ u[1] = a /\ u[2] = b /\ u[3] = c /\ u[4] = d
    BY <1>1, <1>2
  <2> HIDE DEF u
  <2>2. u = <<u[1], u[2], u[3], u[4]>>
    BY <2>1, TupleFour
  <2>3. QED
    BY <2>1, <2>2 DEF u
<1>4. Front(Append(s, d)) = s /\ Last(Append(s, d)) = d
  BY FrontOfAppend, LastOfAppend
<1>5. QED
  BY <1>3, <1>4, Zenon DEF Longer

LEMMA FourOf ==
  ASSUME NEW a, NEW b, NEW c, NEW d
  PROVE  Longer(<<a, b, c>>, d, <<a, b, c, d>>)
<1> DEFINE X == {a, b, c, d}
<1>1. a \in X /\ b \in X /\ c \in X /\ d \in X
  OBVIOUS
<1>2. <<a, b, c>> \in Seq(X)
  OBVIOUS
<1>3. QED
  BY <1>1, <1>2, FourIn, Zenon

LEMMA FiveOf ==
  ASSUME NEW a, NEW b, NEW c, NEW d, NEW e
  PROVE  Longer(<<a, b, c, d>>, e, <<a, b, c, d, e>>)
<1> DEFINE X == {a, b, c, d, e}
<1> DEFINE s == <<a, b, c, d>>
<1>1. e \in X /\ s \in Seq(X)
  OBVIOUS
<1>2. Len(s) = 4 /\ s[1] = a /\ s[2] = b /\ s[3] = c /\ s[4] = d
  OBVIOUS
<1> HIDE DEF X, s
<1>3. /\ Append(s, e) \in Seq(X) /\ Len(Append(s, e)) = Len(s) + 1
      /\ Append(s, e)[Len(s) + 1] = e /\ \A i \in 1 .. Len(s) : Append(s, e)[i] = s[i]
  BY <1>1, AppendProperties
<1>4. Append(s, e) = <<a, b, c, d, e>>
  <2> DEFINE u == Append(s, e)
  <2>0. u \in Seq(X) /\ Len(u) = 5 /\ u[5] = e /\ \A i \in 1 .. 4 : u[i] = s[i]
    BY <1>2, <1>3
  <2> HIDE DEF u
  <2>1. u = [i \in 1 .. 5 |-> u[i]] /\ u[1] = a /\ u[2] = b /\ u[3] = c /\ u[4] = d /\ u[5] = e
    <3>1. DOMAIN u = 1 .. 5 /\ u = [i \in DOMAIN u |-> u[i]]
      BY <2>0
    <3>2. QED
      BY <1>2, <2>0, <3>1
  <2>2. u = <<u[1], u[2], u[3], u[4], u[5]>>
    BY <2>1, TupleFive
  <2>3. QED
    BY <2>1, <2>2 DEF u
<1>5. Front(Append(s, e)) = s /\ Last(Append(s, e)) = e
  BY <1>1, FrontOfAppend, LastOfAppend
<1>6. Longer(s, e, <<a, b, c, d, e>>)
  BY <1>4, <1>5, Zenon DEF Longer
<1>7. QED
  BY <1>6 DEF s

LEMMA ConcatTwo ==
  ASSUME NEW a, NEW b, NEW c
  PROVE  <<a>> \o <<b, c>> = <<a, b, c>>
<1> DEFINE X == {a, b, c}
<1>1. a \in X /\ b \in X /\ c \in X /\ <<a>> \in Seq(X) /\ <<b>> \in Seq(X)
  OBVIOUS
<1> HIDE DEF X
<1>2. Appended(<<a>>, <<b>>, c)
  BY <1>1, ConcatAppended
<1>3. Append(<<a>> \o <<b>>, c) = <<a>> \o Append(<<b>>, c)
  BY <1>2, Zenon DEF Appended
<1>4. <<a>> \o <<b>> = Append(<<a>>, b)
  BY <1>1, AppendIsConcat
<1>5. Append(<<a>>, b) = <<a, b>> /\ Append(<<b>>, c) = <<b, c>> /\ Append(<<a, b>>, c) = <<a, b, c>>
  <2>1. Longer(<<a>>, b, <<a, b>>) /\ Longer(<<b>>, c, <<b, c>>) /\ Longer(<<a, b>>, c, <<a, b, c>>)
    BY TwoOf, ThreeOf
  <2>2. QED
    BY <2>1, Zenon DEF Longer
<1>6. QED
  BY <1>3, <1>4, <1>5, Zenon

\* Widths and kinds of field.
LEMMA Widths ==
  Width(4) = 1 /\ Width(8) = 1 /\ Width(16) = 2 /\ Width(32) = 2 /\ Width(64) = 2 /\ Width(256) = 3
<1>1. ASSUME NEW n \in Nat, n > 100 PROVE Width(n) = 3
  BY <1>1 DEF Width
<1>2. ASSUME NEW n \in Nat, ~(n > 100), n > 8 PROVE Width(n) = 2
  BY <1>2 DEF Width
<1>3. ASSUME NEW n \in Nat, ~(n > 100), ~(n > 8) PROVE Width(n) = 1
  BY <1>3 DEF Width
<1>4. Width(4) = 1 /\ Width(8) = 1
  BY <1>3
<1>5. Width(16) = 2 /\ Width(32) = 2 /\ Width(64) = 2
  BY <1>2
<1>6. Width(256) = 3
  BY <1>1
<1>7. QED
  BY <1>4, <1>5, <1>6

LEMMA Fields ==
  /\ \A n \in Nat : Text(n) \in Field /\ Raw(n) \in Field /\ Num(n) \in Field
  /\ \A S \in SUBSET Byte : Enum(S) \in Field
  /\ Int1 \in Field
<1>1. \A n \in Nat : Text(n) \in Field /\ Raw(n) \in Field /\ Num(n) \in Field
  BY DEF Text, Raw, Num, Field
<1>2. \A S \in SUBSET Byte : Enum(S) \in Field
  BY DEF Enum, Field
<1>3. Int1 \in Field
  BY DEF Int1, Field
<1>4. QED
  BY <1>1, <1>2, <1>3

LEMMA SmallEnums ==
  /\ {0, 1, 2} \in SUBSET Byte /\ {1, 2, 3} \in SUBSET Byte /\ {0, 1, 2, 3} \in SUBSET Byte
  /\ 0 .. 4 \in SUBSET Byte /\ {0, 1} \in SUBSET Byte /\ 0 .. 3 \in SUBSET Byte
  /\ PacketType \in SUBSET Byte
BY WidthAssumption DEF Byte, PacketType

\* What the fields take and give.
LEMMA TextTakes ==
  ASSUME NEW n, NEW v
  PROVE  /\ GivenTo(Text(n), v) <=> v \in Seq(Char)
         /\ MeantField(Text(n), v) = Trimmed(v) /\ Text(n).size = n /\ Text(n).kind = "text"
BY DEF GivenTo, MeantField, Text

LEMMA RawTakes ==
  ASSUME NEW n, NEW v
  PROVE  /\ GivenTo(Raw(n), v) <=> v \in Seq(Byte)
         /\ MeantField(Raw(n), v) = v /\ Raw(n).size = n /\ Raw(n).kind = "raw"
BY DEF GivenTo, MeantField, Raw

LEMMA NumTakes ==
  ASSUME NEW n, NEW v
  PROVE  /\ GivenTo(Num(n), v) <=> v \in Int
         /\ MeantField(Num(n), v) = v /\ Num(n).size = n /\ Num(n).kind = "num"
BY DEF GivenTo, MeantField, Num

LEMMA EnumTakes ==
  ASSUME NEW S, NEW v
  PROVE  /\ GivenTo(Enum(S), v) <=> v \in Int
         /\ MeantField(Enum(S), v) = v /\ Enum(S).size = 1 /\ Enum(S).kind = "enum"
BY DEF GivenTo, MeantField, Enum

LEMMA IntTakes ==
  ASSUME NEW v
  PROVE  /\ GivenTo(Int1, v) <=> v \in Int
         /\ MeantField(Int1, v) = v /\ Int1.size = 1 /\ Int1.kind = "signed"
BY DEF GivenTo, MeantField, Int1

\* Layouts of one, two, three and four fields.
Fits(layout, v, size, meant) ==
  /\ Given(layout, v) /\ layout \in Seq(Field) /\ SizeOf(layout) = size
  /\ TrimmedLayout(layout, v) = meant

\* Layouts of up to four fields.
LEMMA LayoutOne ==
  ASSUME NEW f \in Field, NEW v, GivenTo(f, v)
  PROVE  Fits(<<f>>, <<v>>, f.size, <<MeantField(f, v)>>)
<1> DEFINE layout == <<f>>
<1> DEFINE value == <<v>>
<1> DEFINE meant == TrimmedLayout(layout, value)
<1>1. layout \in Seq(Field) /\ Len(layout) = 1 /\ layout[1] = f /\ DOMAIN layout = 1 .. 1
  OBVIOUS
<1>2. DOMAIN value = 1 .. 1 /\ value[1] = v
  OBVIOUS
<1> HIDE DEF layout, value
<1>3. Given(layout, value)
  BY <1>1, <1>2 DEF Given
<1>4. EndsAt(layout, Ends(layout))
  BY <1>1, EndsIs
<1>5. f.size \in Nat
  BY FieldType
<1>6. SizeOf(layout) = f.size
  <2>1. 1 \in 1 .. 1 /\ 1 - 1 = 0
    OBVIOUS
  <2>2. Ends(layout)[1] = Ends(layout)[0] + f.size /\ Ends(layout)[0] = 0
    BY <1>1, <1>4, <2>1 DEF EndsAt
  <2>3. QED
    BY <1>1, <1>5, <2>2 DEF SizeOf
<1>7. meant = <<MeantField(f, v)>>
  <2>1. meant = [i \in 1 .. 1 |-> meant[i]] /\ meant[1] = MeantField(f, v)
    BY <1>1, <1>2 DEF TrimmedLayout, MeantField
  <2> HIDE DEF meant
  <2>2. meant = <<meant[1]>>
    BY <2>1, TupleOne
  <2>3. QED
    BY <2>1, <2>2
<1>8. QED
  BY <1>1, <1>3, <1>6, <1>7, Zenon DEF Fits, layout, value

LEMMA LayoutTwo ==
  ASSUME NEW f \in Field, NEW g \in Field, NEW v, NEW w, GivenTo(f, v), GivenTo(g, w)
  PROVE  Fits(<<f, g>>, <<v, w>>, f.size + g.size, <<MeantField(f, v), MeantField(g, w)>>)
<1> DEFINE layout == <<f, g>>
<1> DEFINE value == <<v, w>>
<1> DEFINE meant == TrimmedLayout(layout, value)
<1>1. /\ layout \in Seq(Field) /\ Len(layout) = 2 /\ layout[1] = f /\ layout[2] = g
      /\ DOMAIN layout = 1 .. 2
  OBVIOUS
<1>2. DOMAIN value = 1 .. 2 /\ value[1] = v /\ value[2] = w
  OBVIOUS
<1>0. \A i \in 1 .. 2 : i = 1 \/ i = 2
  OBVIOUS
<1> HIDE DEF layout, value
<1>3. Given(layout, value)
  BY <1>0, <1>1, <1>2 DEF Given
<1>4. EndsAt(layout, Ends(layout))
  BY <1>1, EndsIs
<1>5. f.size \in Nat /\ g.size \in Nat
  BY FieldType
<1>6. SizeOf(layout) = f.size + g.size
  <2>1. 1 \in 1 .. 2 /\ 1 - 1 = 0 /\ 2 \in 1 .. 2 /\ 2 - 1 = 1
    OBVIOUS
  <2>2. /\ Ends(layout)[1] = Ends(layout)[0] + f.size /\ Ends(layout)[0] = 0
        /\ Ends(layout)[2] = Ends(layout)[1] + g.size
    BY <1>1, <1>4, <2>1 DEF EndsAt
  <2>3. QED
    BY <1>1, <1>5, <2>2 DEF SizeOf
<1>7. meant = <<MeantField(f, v), MeantField(g, w)>>
  <2>1. /\ meant = [i \in 1 .. 2 |-> meant[i]] /\ meant[1] = MeantField(f, v)
        /\ meant[2] = MeantField(g, w)
    BY <1>1, <1>2 DEF TrimmedLayout, MeantField
  <2> HIDE DEF meant
  <2>2. meant = <<meant[1], meant[2]>>
    BY <2>1, TupleTwo
  <2>3. QED
    BY <2>1, <2>2
<1>8. QED
  BY <1>1, <1>3, <1>6, <1>7, Zenon DEF Fits, layout, value

LEMMA LayoutThree ==
  ASSUME NEW f \in Field, NEW g \in Field, NEW h \in Field, NEW v, NEW w, NEW x,
         GivenTo(f, v), GivenTo(g, w), GivenTo(h, x)
  PROVE  Fits(<<f, g, h>>, <<v, w, x>>, f.size + g.size + h.size,
              <<MeantField(f, v), MeantField(g, w), MeantField(h, x)>>)
<1> DEFINE layout == <<f, g, h>>
<1> DEFINE value == <<v, w, x>>
<1> DEFINE meant == TrimmedLayout(layout, value)
<1>1. /\ layout \in Seq(Field) /\ Len(layout) = 3 /\ layout[1] = f /\ layout[2] = g
      /\ layout[3] = h /\ DOMAIN layout = 1 .. 3
  OBVIOUS
<1>2. DOMAIN value = 1 .. 3 /\ value[1] = v /\ value[2] = w /\ value[3] = x
  OBVIOUS
<1>0. \A i \in 1 .. 3 : i = 1 \/ i = 2 \/ i = 3
  OBVIOUS
<1> HIDE DEF layout, value
<1>3. Given(layout, value)
  BY <1>0, <1>1, <1>2 DEF Given
<1>4. EndsAt(layout, Ends(layout))
  BY <1>1, EndsIs
<1>5. f.size \in Nat /\ g.size \in Nat /\ h.size \in Nat
  BY FieldType
<1>6. SizeOf(layout) = f.size + g.size + h.size
  <2>1. 1 \in 1 .. 3 /\ 1 - 1 = 0 /\ 2 \in 1 .. 3 /\ 2 - 1 = 1 /\ 3 \in 1 .. 3 /\ 3 - 1 = 2
    OBVIOUS
  <2>2. /\ Ends(layout)[1] = Ends(layout)[0] + f.size /\ Ends(layout)[0] = 0
        /\ Ends(layout)[2] = Ends(layout)[1] + g.size
        /\ Ends(layout)[3] = Ends(layout)[2] + h.size
    BY <1>1, <1>4, <2>1 DEF EndsAt
  <2>3. QED
    BY <1>1, <1>5, <2>2 DEF SizeOf
<1>7. meant = <<MeantField(f, v), MeantField(g, w), MeantField(h, x)>>
  <2>1. /\ meant = [i \in 1 .. 3 |-> meant[i]] /\ meant[1] = MeantField(f, v)
        /\ meant[2] = MeantField(g, w) /\ meant[3] = MeantField(h, x)
    BY <1>1, <1>2 DEF TrimmedLayout, MeantField
  <2> HIDE DEF meant
  <2>2. meant = <<meant[1], meant[2], meant[3]>>
    BY <2>1, TupleThree
  <2>3. QED
    BY <2>1, <2>2
<1>8. QED
  BY <1>1, <1>3, <1>6, <1>7, Zenon DEF Fits, layout, value

LEMMA LayoutFour ==
  ASSUME NEW f \in Field, NEW g \in Field, NEW h \in Field, NEW k \in Field,
         NEW v, NEW w, NEW x, NEW y,
         GivenTo(f, v), GivenTo(g, w), GivenTo(h, x), GivenTo(k, y)
  PROVE  Fits(<<f, g, h, k>>, <<v, w, x, y>>, f.size + g.size + h.size + k.size,
              <<MeantField(f, v), MeantField(g, w), MeantField(h, x), MeantField(k, y)>>)
<1> DEFINE layout == <<f, g, h, k>>
<1> DEFINE value == <<v, w, x, y>>
<1> DEFINE meant == TrimmedLayout(layout, value)
<1>1. /\ layout \in Seq(Field) /\ Len(layout) = 4 /\ layout[1] = f /\ layout[2] = g
      /\ layout[3] = h /\ layout[4] = k /\ DOMAIN layout = 1 .. 4
  OBVIOUS
<1>2. DOMAIN value = 1 .. 4 /\ value[1] = v /\ value[2] = w /\ value[3] = x /\ value[4] = y
  OBVIOUS
<1>0. \A i \in 1 .. 4 : i = 1 \/ i = 2 \/ i = 3 \/ i = 4
  OBVIOUS
<1> HIDE DEF layout, value
<1>3. Given(layout, value)
  BY <1>0, <1>1, <1>2 DEF Given
<1>4. EndsAt(layout, Ends(layout))
  BY <1>1, EndsIs
<1>5. f.size \in Nat /\ g.size \in Nat /\ h.size \in Nat /\ k.size \in Nat
  BY FieldType
<1>6. SizeOf(layout) = f.size + g.size + h.size + k.size
  <2>1. /\ 1 \in 1 .. 4 /\ 1 - 1 = 0 /\ 2 \in 1 .. 4 /\ 2 - 1 = 1 /\ 3 \in 1 .. 4 /\ 3 - 1 = 2
        /\ 4 \in 1 .. 4 /\ 4 - 1 = 3
    OBVIOUS
  <2>2. /\ Ends(layout)[1] = Ends(layout)[0] + f.size /\ Ends(layout)[0] = 0
        /\ Ends(layout)[2] = Ends(layout)[1] + g.size
        /\ Ends(layout)[3] = Ends(layout)[2] + h.size
        /\ Ends(layout)[4] = Ends(layout)[3] + k.size
    BY <1>1, <1>4, <2>1 DEF EndsAt
  <2>3. QED
    BY <1>1, <1>5, <2>2 DEF SizeOf
<1>7. meant = <<MeantField(f, v), MeantField(g, w), MeantField(h, x), MeantField(k, y)>>
  <2>1. /\ meant = [i \in 1 .. 4 |-> meant[i]] /\ meant[1] = MeantField(f, v)
        /\ meant[2] = MeantField(g, w) /\ meant[3] = MeantField(h, x)
        /\ meant[4] = MeantField(k, y)
    BY <1>1, <1>2 DEF TrimmedLayout, MeantField
  <2> HIDE DEF meant
  <2>2. meant = <<meant[1], meant[2], meant[3], meant[4]>>
    BY <2>1, TupleFour
  <2>3. QED
    BY <2>1, <2>2
<1>8. QED
  BY <1>1, <1>3, <1>6, <1>7, Zenon DEF Fits, layout, value

-----------------------------------------------------------------------------
(* Payloads with a header and a body.                                      *)

\* The parts of a whole.
LEMMA PartAt ==
  ASSUME NEW S, NEW s \in Seq(S), NEW t \in Seq(S),
         NEW m \in Nat, NEW n \in Nat, m <= n, n <= Len(t)
  PROVE  SubSeq(s \o t, Len(s) + m + 1, Len(s) + n) = SubSeq(t, m + 1, n)
<1> DEFINE u == s \o t
<1> DEFINE a == SubSeq(u, Len(s) + m + 1, Len(s) + n)
<1> DEFINE b == SubSeq(t, m + 1, n)
<1>1. Len(s) \in Nat /\ Len(t) \in Nat
  BY LenProperties
<1>2. /\ u \in Seq(S) /\ Len(u) = Len(s) + Len(t)
      /\ \A i \in 1 .. Len(s) + Len(t) : u[i] = IF i <= Len(s) THEN s[i] ELSE t[i - Len(s)]
  BY ConcatProperties
<1> HIDE DEF u
<1> DEFINE l == Len(s) + m
<1> DEFINE r == Len(s) + n
<1>3. l \in Nat /\ r \in Nat /\ l <= r /\ r <= Len(u) /\ r - l = n - m
  BY <1>1, <1>2
<1> HIDE DEF l, r
<1>4. /\ SubSeq(u, l + 1, r) \in Seq(S) /\ Len(SubSeq(u, l + 1, r)) = r - l
      /\ \A k \in 1 .. r - l : SubSeq(u, l + 1, r)[k] = u[l + k]
  BY <1>2, <1>3, SubSeqIs
<1>5. a \in Seq(S) /\ Len(a) = n - m /\ \A k \in 1 .. n - m : a[k] = u[l + k]
  BY <1>3, <1>4 DEF l, r
<1>6. b \in Seq(S) /\ Len(b) = n - m /\ \A k \in 1 .. n - m : b[k] = t[m + k]
  BY <1>1, SubSeqIs
<1> HIDE DEF a, b
<1>7. ASSUME NEW k \in 1 .. n - m PROVE a[k] = b[k]
  <2>1. /\ l + k \in 1 .. Len(s) + Len(t) /\ ~(l + k <= Len(s)) /\ l + k - Len(s) = m + k
    BY <1>1 DEF l
  <2>2. u[l + k] = t[m + k]
    <3> DEFINE i == l + k
    <3>1. i \in 1 .. Len(s) + Len(t) /\ ~(i <= Len(s)) /\ i - Len(s) = m + k
      BY <1>1 DEF l
    <3> HIDE DEF i
    <3>2. u[i] = t[i - Len(s)]
      BY <1>2, <3>1
    <3>3. QED
      BY <3>1, <3>2 DEF i
  <2>3. QED
    BY <1>5, <1>6, <2>2
<1>8. a = b
  BY <1>5, <1>6, <1>7, SeqEqual
<1>9. QED
  BY <1>8 DEF a, b, u

InTwo(bytes, head, body) ==
  /\ bytes \in Seq(Byte) /\ head \in Seq(Byte) /\ body \in Seq(Byte)
  /\ Len(bytes) = Len(head) + Len(body)
  /\ UpTo(bytes, Len(head)) = head /\ From(bytes, Len(head) + 1) = body

LEMMA WholeInTwo ==
  ASSUME NEW head \in Seq(Byte), NEW body \in Seq(Byte)
  PROVE  InTwo(head \o body, head, body)
<1> DEFINE u == head \o body
<1>1. Len(head) \in Nat /\ Len(body) \in Nat
  BY LenProperties
<1>2. /\ u \in Seq(Byte) /\ Len(u) = Len(head) + Len(body)
      /\ SubSeq(u, 1, Len(head)) = head
      /\ SubSeq(u, Len(head) + 1, Len(head) + Len(body)) = body
  BY TwoParts
<1> HIDE DEF u
<1>3. (IF Len(head) < Len(u) THEN Len(head) ELSE Len(u)) = Len(head)
  <2>1. Len(head) <= Len(u) /\ Len(u) \in Nat
    BY <1>1, <1>2
  <2> HIDE <1>2
  <2>2. QED
    BY <1>1, <2>1
<1>4. UpTo(u, Len(head)) = head
  BY <1>2, <1>3, Zenon DEF UpTo
<1>5. From(u, Len(head) + 1) = body
  BY <1>2, Zenon DEF From
<1>6. QED
  BY <1>2, <1>4, <1>5 DEF InTwo, u

LEMMA UpToAll ==
  ASSUME NEW bytes \in Seq(Byte)
  PROVE  UpTo(bytes, Len(bytes)) = bytes
<1>1. Len(bytes) \in Nat /\ SubSeq(bytes, 1, Len(bytes)) = bytes
  BY LenProperties, SubSeqFull
<1>2. (IF Len(bytes) < Len(bytes) THEN Len(bytes) ELSE Len(bytes)) = Len(bytes)
  OBVIOUS
<1>3. QED
  BY <1>1, <1>2, Zenon DEF UpTo

LEMMA UpToType ==
  ASSUME NEW bytes \in Seq(Byte), NEW n \in Nat
  PROVE  /\ UpTo(bytes, n) \in Seq(Byte)
         /\ Len(UpTo(bytes, n)) = IF n < Len(bytes) THEN n ELSE Len(bytes)
         /\ \A i \in 1 .. Len(UpTo(bytes, n)) : UpTo(bytes, n)[i] = bytes[i]
<1> DEFINE m == IF n < Len(bytes) THEN n ELSE Len(bytes)
<1>1. Len(bytes) \in Nat
  BY LenProperties
<1>2. m \in Nat /\ m <= Len(bytes) /\ 0 <= m /\ m - 0 = m /\ 0 + 1 = 1
  BY <1>1
<1>3. UpTo(bytes, n) = SubSeq(bytes, 1, m)
  BY DEF UpTo
<1> HIDE DEF m
<1>4. /\ SubSeq(bytes, 0 + 1, m) \in Seq(Byte) /\ Len(SubSeq(bytes, 0 + 1, m)) = m - 0
      /\ \A k \in 1 .. m - 0 : SubSeq(bytes, 0 + 1, m)[k] = bytes[0 + k]
  BY <1>2, SubSeqIs
<1>5. /\ SubSeq(bytes, 1, m) \in Seq(Byte) /\ Len(SubSeq(bytes, 1, m)) = m
      /\ \A k \in 1 .. m : SubSeq(bytes, 1, m)[k] = bytes[k]
  BY <1>2, <1>4
<1>6. QED
  BY <1>3, <1>5 DEF m

LEMMA FromType ==
  ASSUME NEW bytes \in Seq(Byte), NEW n \in Nat, n <= Len(bytes)
  PROVE  /\ From(bytes, n + 1) \in Seq(Byte) /\ Len(From(bytes, n + 1)) = Len(bytes) - n
         /\ \A i \in 1 .. Len(bytes) - n : From(bytes, n + 1)[i] = bytes[n + i]
<1>1. Len(bytes) \in Nat
  BY LenProperties
<1>2. QED
  BY <1>1, SubSeqIs DEF From

\* A header that counts what follows.
Counts(header, meant, body, bytes) ==
  /\ bytes \in Seq(Byte) /\ body \in Seq(Byte)
  /\ Len(bytes) = SizeOf(header) + Len(body)
  /\ UnpackAll(header, UpTo(bytes, SizeOf(header))) = Returns(meant)
  /\ From(bytes, SizeOf(header) + 1) = body

\* A header that counts the bytes behind it.
LEMMA CountedIs ==
  ASSUME NEW header, NEW v, NEW t, NEW size, NEW meant, NEW body \in Seq(Byte),
         Append(v, Len(body)) = t, Fits(header, t, size, meant), PackCounted(header, v, body).ok
  PROVE  Counts(header, meant, body, PackCounted(header, v, body).value)
<1> DEFINE packed == PackAll(header, t)
<1> DEFINE head == packed.value
<1>1. PackCounted(header, v, body) = IF packed.ok THEN Returns(head \o body) ELSE Raises
  BY DEF PackCounted
<1>2. packed.ok /\ PackCounted(header, v, body).value = head \o body
  <2> HIDE DEF packed
  <2>1. QED
    BY <1>1, ReturnsValue
<1>3. HoldsLayout(header, t, head)
  BY <1>2, LayoutReturns DEF Fits
<1>4. /\ head \in Seq(Byte) /\ Len(head) = SizeOf(header)
      /\ UnpackAll(header, head) = Returns(meant)
  BY <1>3 DEF HoldsLayout, Fits
<1> HIDE DEF packed
<1>5. InTwo(head \o body, head, body)
  BY <1>4, WholeInTwo
<1> DEFINE u == head \o body
<1>6. PackCounted(header, v, body).value = u
  BY <1>2
<1>7. InTwo(u, head, body)
  BY <1>5
<1> HIDE DEF u
<1>8. Counts(header, meant, body, u)
  BY <1>4, <1>7 DEF InTwo, Counts
<1>9. QED
  BY <1>6, <1>8

\* It is unpacked to what was packed.
LEMMA CountedReturns ==
  ASSUME NEW header, NEW meant, NEW body, NEW bytes,
         Counts(header, meant, body, bytes), Last(meant) = Len(body)
  PROVE  UnpackCounted(header, bytes) = Returns(Append(Front(meant), body))
<1> DEFINE head == UnpackAll(header, UpTo(bytes, SizeOf(header)))
<1> DEFINE rest == From(bytes, SizeOf(header) + 1)
<1>1. head = Returns(meant) /\ rest = body
  BY DEF Counts
<1>2. UnpackCounted(header, bytes) =
        IF head.ok /\ Last(head.value) = Len(rest)
        THEN Returns(Append(Front(head.value), rest)) ELSE Raises
  BY DEF UnpackCounted
<1> HIDE DEF head, rest
<1>3. head.ok /\ head.value = meant
  BY <1>1, ReturnsValue
<1>4. QED
  BY <1>1, <1>2, <1>3

\* Nothing that is cut off is.
LEMMA CountedCut ==
  ASSUME NEW header, NEW meant, NEW body, NEW bytes, SizeOf(header) \in Nat,
         Counts(header, meant, body, bytes), Last(meant) = Len(body),
         NEW n \in 0 .. Len(bytes) - 1
  PROVE  ~UnpackCounted(header, UpTo(bytes, n)).ok
<1> DEFINE size == SizeOf(header)
<1> DEFINE cut == UpTo(bytes, n)
<1> DEFINE head == UnpackAll(header, UpTo(cut, size))
<1> DEFINE rest == From(cut, size + 1)
<1>0. UnpackCounted(header, cut) =
        IF head.ok /\ Last(head.value) = Len(rest)
        THEN Returns(Append(Front(head.value), rest)) ELSE Raises
  BY DEF UnpackCounted
<1>1. /\ bytes \in Seq(Byte) /\ Len(bytes) = size + Len(body) /\ body \in Seq(Byte)
      /\ UnpackAll(header, UpTo(bytes, size)) = Returns(meant)
  BY DEF Counts
<1>2. Len(bytes) \in Nat /\ Len(body) \in Nat /\ n \in Nat /\ size \in Nat
  BY <1>1, LenProperties
<1>3. cut \in Seq(Byte) /\ Len(cut) = n /\ \A i \in 1 .. n : cut[i] = bytes[i]
  <2>1. n < Len(bytes)
    BY <1>2
  <2>2. QED
    BY <1>1, <1>2, <2>1, UpToType
<1> HIDE DEF cut, size
<1>4. UpTo(cut, size) \in Seq(Byte) /\ Len(UpTo(cut, size)) = IF size < n THEN size ELSE n
  BY <1>2, <1>3, UpToType
<1>5. CASE n < size
  <2>1. Len(UpTo(cut, size)) # size
    BY <1>2, <1>4, <1>5
  <2>2. ~head.ok
    BY <2>1, LayoutLength DEF size
  <2> HIDE DEF head
  <2>3. QED
    BY <1>0, <2>2, ReturnsValue DEF cut
<1>6. CASE ~(n < size)
  <2>1. size <= Len(cut)
    BY <1>2, <1>3, <1>6
  <2>2. rest \in Seq(Byte) /\ Len(rest) = n - size
    BY <1>2, <1>3, <2>1, FromType
  <2>3. Len(rest) # Len(body)
    BY <1>1, <1>2, <2>2
  <2>4. UpTo(cut, size) = UpTo(bytes, size)
    <3> DEFINE a == UpTo(cut, size)
    <3> DEFINE b == UpTo(bytes, size)
    <3>1. a \in Seq(Byte) /\ Len(a) = size /\ \A i \in 1 .. size : a[i] = cut[i]
      <4>1. (IF size < Len(cut) THEN size ELSE Len(cut)) = size
        BY <1>2, <1>3, <2>1
      <4>2. QED
        BY <1>2, <1>3, <4>1, UpToType
    <3>2. b \in Seq(Byte) /\ Len(b) = size /\ \A i \in 1 .. size : b[i] = bytes[i]
      <4>1. (IF size < Len(bytes) THEN size ELSE Len(bytes)) = size
        BY <1>1, <1>2
      <4>2. bytes \in Seq(Byte) /\ size \in Nat
        BY <1>1, <1>2
      <4>3. QED
        BY <4>1, <4>2, UpToType
    <3> HIDE DEF a, b
    <3>3. \A i \in 1 .. size : a[i] = b[i]
      <4>1. \A i \in 1 .. size : i \in 1 .. n
        BY <1>2, <1>6
      <4>2. QED
        BY <1>3, <3>1, <3>2, <4>1
    <3>4. a = b
      BY <3>1, <3>2, <3>3, SeqEqual
    <3>5. QED
      BY <3>4 DEF a, b
  <2>5. head = Returns(meant)
    BY <1>1, <2>4
  <2> HIDE DEF head, rest
  <2>6. head.value = meant
    BY <2>5, ReturnsValue
  <2>7. QED
    BY <1>0, <2>3, <2>6, ReturnsValue DEF cut
<1>7. QED
  BY <1>5, <1>6

\* The number that a header ends in.
LEMMA LastNumber ==
  ASSUME NEW layout \in Seq(Field), NEW k \in Nat \ {0}, Len(layout) = k,
         NEW w \in Nat, layout[k] = Num(w), NEW head, NEW meant,
         UnpackAll(layout, head) = Returns(meant)
  PROVE  /\ Unpack(SubSeq(head, SizeOf(layout) - w + 1, SizeOf(layout))) = meant[k]
         /\ SizeOf(layout) >= w
<1> DEFINE ends == Ends(layout)
<1> DEFINE parts == [i \in DOMAIN layout |->
                       UnpackField(layout[i], SubSeq(head, ends[i - 1] + 1, ends[i]))]
<1>1. EndsAt(layout, ends)
  BY EndsIs
<1>2. k \in 1 .. k /\ k - 1 \in 0 .. k /\ k \in 0 .. k
  OBVIOUS
<1>3. UnpackAll(layout, head) = IF Len(head) = SizeOf(layout) /\ AllOk(parts)
                                THEN Returns(Values(parts)) ELSE Raises
  BY DEF UnpackAll
<1>4. ends[k] = SizeOf(layout)
  BY DEF SizeOf
<1>5. DOMAIN layout = 1 .. k
  BY LenProperties
<1> HIDE DEF ends
<1>6. ends[k] = ends[k - 1] + w /\ ends[k - 1] \in Nat
  <2>1. Num(w).size = w
    BY NumTakes
  <2>2. QED
    BY <1>1, <1>2, <2>1 DEF EndsAt
<1>7. parts[k] = Returns(Unpack(SubSeq(head, ends[k - 1] + 1, ends[k])))
  <2>1. parts[k] = UnpackField(Num(w), SubSeq(head, ends[k - 1] + 1, ends[k]))
    BY <1>2, <1>5
  <2>2. QED
    BY <2>1 DEF UnpackField, Num
<1>8. DOMAIN parts = 1 .. k
  BY <1>5
<1> HIDE DEF parts
<1>9. Values(parts) = meant
  <2>1. UnpackAll(layout, head).ok /\ UnpackAll(layout, head).value = meant
    BY ReturnsValue
  <2>2. QED
    BY <1>3, <2>1, ReturnsValue
<1>10. meant[k] = parts[k].value
  BY <1>2, <1>8, <1>9 DEF Values
<1>11. meant[k] = Unpack(SubSeq(head, ends[k - 1] + 1, ends[k]))
  BY <1>7, <1>10, ReturnsValue
<1>12. ends[k - 1] + 1 = ends[k] - w + 1 /\ ends[k] >= w
  BY <1>6
<1>13. QED
  BY <1>4, <1>11, <1>12

-----------------------------------------------------------------------------
(* Logs and files.                                                         *)

\* Headers.
LEMMA LogHistFits ==
  ASSUME NEW v \in Seq(Char), NEW n \in Int
  PROVE  Fits(LogHistHeader, <<v, n>>, 7, <<Trimmed(v), n>>)
<1>1. /\ Text(3) \in Field /\ Num(4) \in Field /\ GivenTo(Text(3), v) /\ GivenTo(Num(4), n)
      /\ MeantField(Text(3), v) = Trimmed(v) /\ MeantField(Num(4), n) = n
      /\ Text(3).size = 3 /\ Num(4).size = 4
  BY Fields, TextTakes, NumTakes
<1>2. Fits(<<Text(3), Num(4)>>, <<v, n>>, Text(3).size + Num(4).size,
           <<MeantField(Text(3), v), MeantField(Num(4), n)>>)
  BY <1>1, LayoutTwo
<1>3. Text(3).size + Num(4).size = 7 /\ LogHistHeader = <<Text(3), Num(4)>>
  BY <1>1, Widths DEF LogHistHeader
<1>4. QED
  BY <1>1, <1>2, <1>3, Zenon

LEMMA FileChunkFits ==
  ASSUME NEW v \in Int, NEW n \in Int
  PROVE  Fits(FileChunkHeader, <<v, n>>, 6, <<v, n>>)
<1>1. /\ Num(4) \in Field /\ Num(2) \in Field /\ GivenTo(Num(4), v) /\ GivenTo(Num(2), n)
      /\ MeantField(Num(4), v) = v /\ MeantField(Num(2), n) = n
      /\ Num(4).size = 4 /\ Num(2).size = 2
  BY Fields, NumTakes
<1>2. Fits(<<Num(4), Num(2)>>, <<v, n>>, Num(4).size + Num(2).size,
           <<MeantField(Num(4), v), MeantField(Num(2), n)>>)
  BY <1>1, LayoutTwo
<1>3. Num(4).size + Num(2).size = 6 /\ FileChunkHeader = <<Num(4), Num(2)>>
  BY <1>1 DEF FileChunkHeader
<1>4. QED
  BY <1>1, <1>2, <1>3, Zenon

LEMMA LogRealFits ==
  ASSUME NEW a \in Int, NEW v \in Seq(Char), NEW n \in Int
  PROVE  Fits(LogRealHeader, <<a, v, n>>, 6, <<a, Trimmed(v), n>>)
<1>1. /\ Num(1) \in Field /\ Text(3) \in Field /\ Num(2) \in Field
      /\ GivenTo(Num(1), a) /\ GivenTo(Text(3), v) /\ GivenTo(Num(2), n)
      /\ MeantField(Num(1), a) = a /\ MeantField(Text(3), v) = Trimmed(v)
      /\ MeantField(Num(2), n) = n
      /\ Num(1).size = 1 /\ Text(3).size = 3 /\ Num(2).size = 2
  BY Fields, TextTakes, NumTakes
<1>2. Fits(<<Num(1), Text(3), Num(2)>>, <<a, v, n>>, Num(1).size + Text(3).size + Num(2).size,
           <<MeantField(Num(1), a), MeantField(Text(3), v), MeantField(Num(2), n)>>)
  BY <1>1, LayoutThree
<1>3. /\ Num(1).size + Text(3).size + Num(2).size = 6
      /\ LogRealHeader = <<Num(1), Text(3), Num(2)>>
  BY <1>1, Widths DEF LogRealHeader
<1>4. QED
  BY <1>1, <1>2, <1>3, Zenon

LEMMA LogLegacyFits ==
  ASSUME NEW v \in Seq(Char), NEW n \in Int
  PROVE  Fits(LogRealLegacy, <<v, n>>, 5, <<Trimmed(v), n>>)
<1>1. /\ Text(3) \in Field /\ Num(2) \in Field /\ GivenTo(Text(3), v) /\ GivenTo(Num(2), n)
      /\ MeantField(Text(3), v) = Trimmed(v) /\ MeantField(Num(2), n) = n
      /\ Text(3).size = 3 /\ Num(2).size = 2
  BY Fields, TextTakes, NumTakes
<1>2. Fits(<<Text(3), Num(2)>>, <<v, n>>, Text(3).size + Num(2).size,
           <<MeantField(Text(3), v), MeantField(Num(2), n)>>)
  BY <1>1, LayoutTwo
<1>3. Text(3).size + Num(2).size = 5 /\ LogRealLegacy = <<Text(3), Num(2)>>
  BY <1>1, Widths DEF LogRealLegacy
<1>4. QED
  BY <1>1, <1>2, <1>3, Zenon

-----------------------------------------------------------------------------

LEMMA LogHistCounts ==
  ASSUME NEW v \in Seq(Char) \X Seq(Byte), PackLogHist(v).ok
  PROVE  /\ Counts(LogHistHeader, <<Trimmed(v[1]), Len(v[2])>>, v[2], PackLogHist(v).value)
         /\ SizeOf(LogHistHeader) \in Nat
<1>1. v[1] \in Seq(Char) /\ v[2] \in Seq(Byte) /\ Len(v[2]) \in Int
  BY LenProperties
<1>2. Fits(LogHistHeader, <<v[1], Len(v[2])>>, 7, <<Trimmed(v[1]), Len(v[2])>>)
  BY <1>1, LogHistFits
<1>3. Append(<<v[1]>>, Len(v[2])) = <<v[1], Len(v[2])>>
  BY TwoOf, Zenon DEF Longer
<1>4. PackLogHist(v) = PackCounted(LogHistHeader, <<v[1]>>, v[2])
  BY DEF PackLogHist
<1>5. Counts(LogHistHeader, <<Trimmed(v[1]), Len(v[2])>>, v[2], PackLogHist(v).value)
  BY <1>1, <1>2, <1>3, <1>4, CountedIs
<1>6. QED
  BY <1>2, <1>5 DEF Fits

\* A part of a stored log is read as it was sent (LogHistPayload).
LEMMA LogHistReturns ==
  ASSUME NEW v \in Seq(Char) \X Seq(Byte)
  PROVE  VariableReturns("log_hist", v)
<1> DEFINE bytes == PackLogHist(v).value
<1> DEFINE n == Len(v[2])
<1>1. PackOf("log_hist", v) = PackLogHist(v) /\ UnpackOf("log_hist", bytes) = UnpackLogHist(bytes)
  BY DEF PackOf, UnpackOf
<1>2. Meant("log_hist", v) = <<Trimmed(v[1]), v[2]>>
  BY DEF Meant
<1>3. ASSUME PackLogHist(v).ok PROVE UnpackLogHist(bytes) = Returns(<<Trimmed(v[1]), v[2]>>)
  <2>1. Counts(LogHistHeader, <<Trimmed(v[1]), n>>, v[2], bytes)
    BY <1>3, LogHistCounts
  <2>2. Longer(<<Trimmed(v[1])>>, n, <<Trimmed(v[1]), n>>)
    BY TwoOf
  <2>3. Longer(<<Trimmed(v[1])>>, v[2], <<Trimmed(v[1]), v[2]>>)
    BY TwoOf
  <2>4. UnpackCounted(LogHistHeader, bytes) = Returns(Append(Front(<<Trimmed(v[1]), n>>), v[2]))
    BY <2>1, <2>2, CountedReturns DEF Longer
  <2> HIDE DEF bytes, n
  <2>5. QED
    BY <2>2, <2>3, <2>4, Zenon DEF Longer, UnpackLogHist
<1>4. QED
  BY <1>1, <1>2, <1>3 DEF VariableReturns

LEMMA FileChunkCounts ==
  ASSUME NEW v \in Int \X Seq(Byte), PackFileChunk(v).ok
  PROVE  /\ Counts(FileChunkHeader, <<v[1], Len(v[2])>>, v[2], PackFileChunk(v).value)
         /\ SizeOf(FileChunkHeader) \in Nat
<1>1. v[1] \in Int /\ v[2] \in Seq(Byte) /\ Len(v[2]) \in Int
  BY LenProperties
<1>2. Fits(FileChunkHeader, <<v[1], Len(v[2])>>, 6, <<v[1], Len(v[2])>>)
  BY <1>1, FileChunkFits
<1>3. Append(<<v[1]>>, Len(v[2])) = <<v[1], Len(v[2])>>
  BY TwoOf, Zenon DEF Longer
<1>4. PackFileChunk(v) = PackCounted(FileChunkHeader, <<v[1]>>, v[2])
  BY DEF PackFileChunk
<1>5. Counts(FileChunkHeader, <<v[1], Len(v[2])>>, v[2], PackFileChunk(v).value)
  BY <1>1, <1>2, <1>3, <1>4, CountedIs
<1>6. QED
  BY <1>2, <1>5 DEF Fits

\* A chunk of a file is read as it was sent (FileChunkPayload).
LEMMA FileChunkReturns ==
  ASSUME NEW v \in Int \X Seq(Byte)
  PROVE  VariableReturns("file_chunk", v)
<1> DEFINE bytes == PackFileChunk(v).value
<1> DEFINE n == Len(v[2])
<1>1. /\ PackOf("file_chunk", v) = PackFileChunk(v)
      /\ UnpackOf("file_chunk", bytes) = UnpackFileChunk(bytes)
  BY DEF PackOf, UnpackOf
<1>2. Meant("file_chunk", v) = v
  BY DEF Meant
<1>3. ASSUME PackFileChunk(v).ok PROVE UnpackFileChunk(bytes) = Returns(v)
  <2>1. Counts(FileChunkHeader, <<v[1], n>>, v[2], bytes)
    BY <1>3, FileChunkCounts
  <2>2. Longer(<<v[1]>>, n, <<v[1], n>>) /\ Longer(<<v[1]>>, v[2], <<v[1], v[2]>>)
    BY TwoOf
  <2>3. UnpackCounted(FileChunkHeader, bytes) = Returns(Append(Front(<<v[1], n>>), v[2]))
    BY <2>1, <2>2, CountedReturns DEF Longer
  <2>4. v = <<v[1], v[2]>>
    OBVIOUS
  <2> HIDE DEF bytes, n
  <2>5. UnpackFileChunk(bytes) = Returns(<<v[1], v[2]>>)
    BY <2>2, <2>3, Zenon DEF Longer, UnpackFileChunk
  <2>6. QED
    BY <2>4, <2>5
<1>4. QED
  BY <1>1, <1>2, <1>3 DEF VariableReturns

\* No front part of a payload unpacks.
LEMMA LogHistCut ==
  ASSUME NEW v \in Seq(Char) \X Seq(Byte), PackOf("log_hist", v).ok,
         NEW n \in 0 .. Len(PackOf("log_hist", v).value) - 1
  PROVE  ~UnpackOf("log_hist", UpTo(PackOf("log_hist", v).value, n)).ok
<1>1. PackOf("log_hist", v) = PackLogHist(v)
  BY DEF PackOf
<1>2. /\ Counts(LogHistHeader, <<Trimmed(v[1]), Len(v[2])>>, v[2], PackLogHist(v).value)
      /\ SizeOf(LogHistHeader) \in Nat
  BY <1>1, LogHistCounts
<1>3. Last(<<Trimmed(v[1]), Len(v[2])>>) = Len(v[2])
  BY TwoOf DEF Longer
<1>4. ~UnpackCounted(LogHistHeader, UpTo(PackLogHist(v).value, n)).ok
  BY <1>1, <1>2, <1>3, CountedCut
<1>5. QED
  BY <1>1, <1>4 DEF UnpackOf, UnpackLogHist

\* A chunk that is cut off is not read.
LEMMA FileChunkCut ==
  ASSUME NEW v \in Int \X Seq(Byte), PackOf("file_chunk", v).ok,
         NEW n \in 0 .. Len(PackOf("file_chunk", v).value) - 1
  PROVE  ~UnpackOf("file_chunk", UpTo(PackOf("file_chunk", v).value, n)).ok
<1>1. PackOf("file_chunk", v) = PackFileChunk(v)
  BY DEF PackOf
<1>2. /\ Counts(FileChunkHeader, <<v[1], Len(v[2])>>, v[2], PackFileChunk(v).value)
      /\ SizeOf(FileChunkHeader) \in Nat
  BY <1>1, FileChunkCounts
<1>3. Last(<<v[1], Len(v[2])>>) = Len(v[2])
  BY TwoOf DEF Longer
<1>4. ~UnpackCounted(FileChunkHeader, UpTo(PackFileChunk(v).value, n)).ok
  BY <1>1, <1>2, <1>3, CountedCut
<1>5. QED
  BY <1>1, <1>4 DEF UnpackOf, UnpackFileChunk

-----------------------------------------------------------------------------
\* The line of a counted payload.
LEMMA LineReturns ==
  ASSUME NEW header, NEW s, NEW n, NEW line \in Seq(Char), NEW bytes, NEW t, NEW meant,
         Longer(s, n, meant), n = Len(Encode(line)),
         Longer(s, Encode(line), t), Counts(header, meant, Encode(line), bytes)
  PROVE  WithLine(header, bytes) = Returns(Append(s, line))
<1> DEFINE e == Encode(line)
<1> DEFINE r == UnpackCounted(header, bytes)
<1> DEFINE d == Decode(Last(r.value))
<1>1. r = Returns(t)
  <2>1. Last(meant) = Len(e) /\ Front(meant) = s /\ Append(s, e) = t
    BY DEF Longer
  <2>2. r = Returns(Append(Front(meant), e))
    BY <2>1, CountedReturns
  <2>3. QED
    BY <2>1, <2>2
<1>2. r.ok /\ r.value = t
  BY <1>1, ReturnsValue
<1>3. d = Returns(line)
  <2>1. Decode(e) = Returns(line)
    BY DecodeEncode
  <2>2. Last(t) = e
    BY DEF Longer
  <2>3. QED
    BY <1>2, <2>1, <2>2
<1>4. Front(r.value) = s
  BY <1>2 DEF Longer
<1>5. WithLine(header, bytes) =
        IF r.ok /\ d.ok THEN Returns(Append(Front(r.value), d.value)) ELSE Raises
  BY DEF WithLine
<1> HIDE DEF r, d
<1>6. d.ok /\ d.value = line
  BY <1>3, ReturnsValue
<1>7. QED
  BY <1>2, <1>4, <1>5, <1>6

\* The count of a whole payload is where it is looked for.
LEMMA CountMatches ==
  ASSUME NEW header \in Seq(Field), NEW k \in Nat \ {0}, Len(header) = k,
         header[k] = Num(2), NEW meant, NEW body, NEW bytes, meant[k] = Len(body),
         Counts(header, meant, body, bytes)
  PROVE  Matches(header, bytes)
<1> DEFINE size == SizeOf(header)
<1>1. /\ bytes \in Seq(Byte) /\ Len(bytes) = size + Len(body) /\ body \in Seq(Byte)
      /\ UnpackAll(header, UpTo(bytes, size)) = Returns(meant)
  BY DEF Counts
<1>2. /\ Unpack(SubSeq(UpTo(bytes, size), size - 2 + 1, size)) = Len(body)
      /\ size >= 2
  BY <1>1, LastNumber
<1>3. size \in Nat /\ Len(bytes) \in Nat /\ Len(body) \in Nat
  BY <1>1, SizeOfType, LenProperties
<1> HIDE DEF size
<1>4. SubSeq(UpTo(bytes, size), size - 2 + 1, size) = SubSeq(bytes, size - 1, size)
  <2> DEFINE u == UpTo(bytes, size)
  <2>1. u \in Seq(Byte) /\ Len(u) = size /\ \A i \in 1 .. size : u[i] = bytes[i]
    <3>1. (IF size < Len(bytes) THEN size ELSE Len(bytes)) = size
      BY <1>1, <1>3
    <3>2. bytes \in Seq(Byte)
      BY <1>1
    <3>3. /\ u \in Seq(Byte) /\ Len(u) = IF size < Len(bytes) THEN size ELSE Len(bytes)
          /\ \A i \in 1 .. Len(u) : u[i] = bytes[i]
      BY <1>3, <3>2, UpToType
    <3> HIDE DEF u
    <3>4. QED
      BY <3>1, <3>3
  <2> HIDE DEF u
  <2> DEFINE m == size - 2
  <2>2. m \in Nat /\ m <= size /\ size <= Len(bytes) /\ size - 2 + 1 = m + 1 /\ size - 1 = m + 1
    BY <1>1, <1>2, <1>3
  <2>3. /\ SubSeq(u, m + 1, size) \in Seq(Byte) /\ Len(SubSeq(u, m + 1, size)) = size - m
        /\ \A k_1 \in 1 .. size - m : SubSeq(u, m + 1, size)[k_1] = u[m + k_1]
    BY <1>3, <2>1, <2>2, SubSeqIs
  <2>4. /\ SubSeq(bytes, m + 1, size) \in Seq(Byte) /\ Len(SubSeq(bytes, m + 1, size)) = size - m
        /\ \A k_1 \in 1 .. size - m : SubSeq(bytes, m + 1, size)[k_1] = bytes[m + k_1]
    BY <1>1, <1>3, <2>2, SubSeqIs
  <2> DEFINE a == SubSeq(u, m + 1, size)
  <2> DEFINE b == SubSeq(bytes, m + 1, size)
  <2>5. \A j \in 1 .. size - m : m + j \in 1 .. size
    BY <1>3, <2>2
  <2> HIDE DEF m
  <2>6. \A j \in 1 .. size - m : a[j] = b[j]
    BY <2>1, <2>3, <2>4, <2>5
  <2>7. a \in Seq(Byte) /\ b \in Seq(Byte) /\ Len(a) = size - m /\ Len(b) = size - m
    BY <2>3, <2>4
  <2> HIDE DEF a, b
  <2>8. a = b
    BY <2>6, <2>7, SeqEqual
  <2>9. QED
    BY <2>2, <2>8, Zenon DEF a, b, u
<1>5. Unpack(SubSeq(bytes, size - 1, size)) = Len(body)
  BY <1>2, <1>4
<1>6. Len(bytes) >= size /\ Len(bytes) = size + Unpack(SubSeq(bytes, size - 1, size))
  BY <1>1, <1>3, <1>5
<1>7. QED
  BY <1>6, Zenon DEF Matches, size

\* A log line with a folder is read as it was sent (LogRealPayload).
LEMMA LogRealReturns ==
  ASSUME NEW v \in Int \X Seq(Char) \X Seq(Char)
  PROVE  VariableReturns("log_real", v)
<1> DEFINE bytes == PackLogReal(v).value
<1> DEFINE e == Encode(v[3])
<1> DEFINE n == Len(e)
<1> DEFINE meant == <<v[1], Trimmed(v[2]), n>>
<1>1. /\ PackOf("log_real", v) = PackLogReal(v)
      /\ UnpackOf("log_real", bytes) = UnpackLogReal(bytes)
  BY DEF PackOf, UnpackOf
<1>2. Meant("log_real", v) = <<v[1], Trimmed(v[2]), v[3]>>
  BY DEF Meant
<1>3. ASSUME PackLogReal(v).ok
      PROVE  UnpackLogReal(bytes) = Returns(<<v[1], Trimmed(v[2]), v[3]>>)
  <2>1. v[1] \in Int /\ v[2] \in Seq(Char) /\ v[3] \in Seq(Char)
    OBVIOUS
  <2>2. e \in Seq(Byte) /\ n \in Int
    BY <2>1, EncodeType, LenProperties
  <2>3. Fits(LogRealHeader, <<v[1], v[2], n>>, 6, meant)
    BY <2>1, <2>2, LogRealFits
  <2>4. Longer(<<v[1], v[2]>>, n, <<v[1], v[2], n>>)
    BY ThreeOf
  <2>5. PackLogReal(v) = PackCounted(LogRealHeader, <<v[1], v[2]>>, e)
    BY DEF PackLogReal
  <2>6. Longer(<<v[1], Trimmed(v[2])>>, n, meant)
    BY ThreeOf
  <2>7. Longer(<<v[1], Trimmed(v[2])>>, e, <<v[1], Trimmed(v[2]), e>>)
    BY ThreeOf
  <2>8. Longer(<<v[1], Trimmed(v[2])>>, v[3], <<v[1], Trimmed(v[2]), v[3]>>)
    BY ThreeOf
  <2>9. meant[3] = n
    OBVIOUS
  <2> HIDE DEF e, n, meant
  <2>10. Append(<<v[1], v[2]>>, n) = <<v[1], v[2], n>>
    BY <2>4 DEF Longer
  <2>11. Counts(LogRealHeader, meant, e, bytes)
    BY <1>3, <2>2, <2>3, <2>5, <2>10, CountedIs DEF n
  <2>12. Matches(LogRealHeader, bytes)
    <3>1. Len(LogRealHeader) = 3 /\ LogRealHeader[3] = Num(2) /\ 3 \in Nat \ {0}
      BY DEF LogRealHeader
    <3>2. LogRealHeader \in Seq(Field)
      BY <2>3 DEF Fits
    <3>3. QED
      BY <2>9, <2>11, <3>1, <3>2, CountMatches DEF n
  <2>13. WithLine(LogRealHeader, bytes) = Returns(Append(<<v[1], Trimmed(v[2])>>, v[3]))
    BY <2>1, <2>6, <2>7, <2>11, LineReturns DEF e, n
  <2> HIDE DEF bytes
  <2>14. UnpackLogReal(bytes) = WithLine(LogRealHeader, bytes)
    BY <2>12 DEF UnpackLogReal
  <2>15. QED
    BY <2>8, <2>13, <2>14, Zenon DEF Longer
<1>4. QED
  BY <1>1, <1>2, <1>3 DEF VariableReturns

-----------------------------------------------------------------------------
(* Log lines of an older peer.                                             *)

\* A number of two bytes.
LEMMA UnpackTwo ==
  ASSUME NEW bytes \in Seq(Byte), Len(bytes) = 2
  PROVE  Unpack(bytes) = bytes[1] * Base + bytes[2] /\ bytes[1] \in Byte /\ bytes[2] \in Byte
<1>1. PICK u \in [0 .. Len(bytes) -> Nat] :
           /\ u[0] = 0 /\ (\A i \in 1 .. Len(bytes) : u[i] = u[i - 1] * Base + bytes[i])
           /\ Unpack(bytes) = u[Len(bytes)]
  BY UnpackIs
<1>2. 1 \in 1 .. 2 /\ 1 - 1 = 0 /\ 2 \in 1 .. 2 /\ 2 - 1 = 1
  OBVIOUS
<1>3. u[1] = u[0] * Base + bytes[1] /\ u[2] = u[1] * Base + bytes[2]
  <2>1. \A i \in 1 .. 2 : u[i] = u[i - 1] * Base + bytes[i]
    BY <1>1
  <2>2. \A i \in 1 .. 2 : i = 1 => u[i] = u[0] * Base + bytes[i]
    BY <2>1
  <2>3. \A i \in 1 .. 2 : i = 2 => u[i] = u[1] * Base + bytes[i]
    BY <2>1
  <2>4. QED
    BY <1>2, <2>2, <2>3
<1>4. bytes[1] \in Byte /\ bytes[2] \in Byte
  BY <1>2, ElementOfSeq
<1>5. 0 * Base + bytes[1] = bytes[1]
  BY <1>4, WidthAssumption DEF Byte
<1>6. QED
  BY <1>1, <1>3, <1>4, <1>5

\* The bytes of a text are below 3.
LEMMA EncodeSmall ==
  ASSUME NEW text \in Seq(Char)
  PROVE  Encode(text) \in Seq({0, 1, 2})
<1> DEFINE u == [i \in DOMAIN text |-> Utf8(text[i])]
<1>1. DOMAIN text = 1 .. Len(text) /\ Len(text) \in Nat
  BY LenProperties
<1>2. \A c \in Char : Utf8(c) \in Seq({0, 1, 2})
  <2>1. <<0>> \in Seq({0, 1, 2}) /\ <<1>> \in Seq({0, 1, 2}) /\ <<2, 2>> \in Seq({0, 1, 2})
    OBVIOUS
  <2>2. \A c \in Char : Utf8(c) \in {<<0>>, <<1>>, <<2, 2>>}
    BY Utf8Is DEF Char
  <2>3. QED
    BY <2>1, <2>2
<1>3. \A i \in 1 .. Len(text) : Utf8(text[i]) \in Seq({0, 1, 2})
  BY <1>2, ElementOfSeq
<1> DEFINE S == {0, 1, 2}
<1>4. \A i \in 1 .. Len(text) : Utf8(text[i]) \in Seq(S)
  BY <1>3
<1> HIDE DEF S
<1>5. u \in Seq(Seq(S))
  BY <1>1, <1>4
<1> HIDE DEF u
<1>6. Encode(text) \in Seq(S)
  BY <1>5, FlattenType DEF Encode, u
<1>7. QED
  BY <1>6 DEF S

\* A line of the old form is of the length of a new one only when its two digits are
\* the same: the lines that OldPeerIsRead leaves out.
LEMMA SameDigits ==
  ASSUME NEW h \in Nat, NEW l \in Nat, l < Base, NEW x \in 0 .. 2,
         h * Base + l = l * Base + x + 1
  PROVE  h = l /\ h * Base + l = (Base + 1) * (x + 1)
<1>1. Base \in Nat /\ Base >= 6
  BY WidthAssumption
<1>2. ASSUME h >= l + 1 PROVE FALSE
  <2>1. h * Base >= (l + 1) * Base
    BY <1>1, <1>2
  <2>2. (l + 1) * Base = l * Base + Base
    BY <1>1
  <2>3. h * Base \in Nat /\ l * Base \in Nat
    BY <1>1
  <2>4. QED
    BY <1>1, <2>1, <2>2, <2>3
<1>3. ASSUME l >= h + 1 PROVE FALSE
  <2>1. l * Base >= (h + 1) * Base
    BY <1>1, <1>3
  <2>2. (h + 1) * Base = h * Base + Base
    BY <1>1
  <2>3. h * Base \in Nat /\ l * Base \in Nat
    BY <1>1
  <2>4. QED
    BY <1>1, <2>1, <2>2, <2>3
<1>4. h = l
  BY <1>2, <1>3
<1>5. l = x + 1
  <2>1. h * Base = l * Base /\ l * Base \in Nat
    BY <1>1, <1>4
  <2>2. QED
    BY <2>1
<1>6. (x + 1) * Base + (x + 1) = (Base + 1) * (x + 1)
  BY <1>1
<1>7. QED
  BY <1>4, <1>5, <1>6

\* A log line without a folder is read as one of folder 0, but for the lines that their
\* length makes lines of the new form.
LEMMA OldLineIsRead ==
  ASSUME NEW v \in Seq(Char) \X Seq(Char), PackLegacyReal(v).ok,
         NEW e, e = Encode(v[2]),
         ~(e # <<>> /\ Len(e) = (Base + 1) * (e[1] + 1))
  PROVE  UnpackLogReal(PackLegacyReal(v).value) = Returns(<<0, Trimmed(v[1]), v[2]>>)
<1> DEFINE bytes == PackLegacyReal(v).value
<1> DEFINE n == Len(e)
<1> DEFINE meant == <<Trimmed(v[1]), n>>
<1>1. v[1] \in Seq(Char) /\ v[2] \in Seq(Char)
  OBVIOUS
<1>2. e \in Seq(Byte) /\ n \in Nat /\ e \in Seq({0, 1, 2})
  BY <1>1, EncodeType, EncodeSmall, LenProperties
<1>3. Fits(LogRealLegacy, <<v[1], n>>, 5, meant)
  <2>1. n \in Int
    BY <1>2
  <2>2. QED
    BY <1>1, <2>1, LogLegacyFits
<1>4. Longer(<<v[1]>>, n, <<v[1], n>>) /\ Longer(<<Trimmed(v[1])>>, n, meant)
  BY TwoOf
<1>5. Longer(<<Trimmed(v[1])>>, e, <<Trimmed(v[1]), e>>)
  BY TwoOf
<1>6. Longer(<<Trimmed(v[1])>>, v[2], <<Trimmed(v[1]), v[2]>>)
  BY TwoOf
<1>7. PackLegacyReal(v) = PackCounted(LogRealLegacy, <<v[1]>>, e)
  BY DEF PackLegacyReal
<1>8. meant[2] = n
  OBVIOUS
<1> HIDE DEF meant, n
<1>9. Counts(LogRealLegacy, meant, e, bytes)
  <2>1. Append(<<v[1]>>, Len(e)) = <<v[1], n>>
    BY <1>4 DEF Longer, n
  <2>2. PackCounted(LogRealLegacy, <<v[1]>>, e).ok
    BY <1>7
  <2>3. QED
    BY <1>2, <1>3, <1>7, <2>1, <2>2, CountedIs
<1>10. SizeOf(LogRealLegacy) = 5 /\ LogRealLegacy \in Seq(Field)
  BY <1>3 DEF Fits
<1>11. Matches(LogRealLegacy, bytes)
  <2>1. Len(LogRealLegacy) = 2 /\ LogRealLegacy[2] = Num(2) /\ 2 \in Nat \ {0}
    BY DEF LogRealLegacy
  <2>2. QED
    BY <1>8, <1>9, <1>10, <2>1, CountMatches DEF n
<1>12. SizeOf(LogRealHeader) = 6
  <2>1. Fits(LogRealHeader, <<0, v[1], 0>>, 6, <<0, Trimmed(v[1]), 0>>)
    BY <1>1, LogRealFits
  <2>2. QED
    BY <2>1 DEF Fits
<1>13. /\ bytes \in Seq(Byte) /\ Len(bytes) = 5 + n /\ From(bytes, 6) = e
  BY <1>9, <1>10 DEF Counts, n
<1> HIDE DEF bytes
<1>14. ~Matches(LogRealHeader, bytes)
  <2> SUFFICES ASSUME Matches(LogRealHeader, bytes) PROVE FALSE
    OBVIOUS
  <2>1. Len(bytes) >= 6 /\ Len(bytes) = 6 + Unpack(SubSeq(bytes, 5, 6))
    BY <1>12 DEF Matches
  <2>2. n >= 1 /\ 6 <= Len(bytes) /\ 5 <= Len(bytes)
    BY <1>2, <1>13, <2>1
  <2> DEFINE a == SubSeq(bytes, 4, 5)
  <2> DEFINE b == SubSeq(bytes, 5, 6)
  <2>3. a \in Seq(Byte) /\ Len(a) = 2 /\ \A k \in 1 .. 2 : a[k] = bytes[3 + k]
    <3>1. 3 \in Nat /\ 5 \in Nat /\ 3 <= 5 /\ 3 + 1 = 4 /\ 5 - 3 = 2
      OBVIOUS
    <3>2. /\ SubSeq(bytes, 3 + 1, 5) \in Seq(Byte) /\ Len(SubSeq(bytes, 3 + 1, 5)) = 5 - 3
          /\ \A k \in 1 .. 5 - 3 : SubSeq(bytes, 3 + 1, 5)[k] = bytes[3 + k]
      BY <1>13, <2>2, <3>1, SubSeqIs
    <3>3. QED
      BY <3>1, <3>2
  <2>4. b \in Seq(Byte) /\ Len(b) = 2 /\ \A k \in 1 .. 2 : b[k] = bytes[4 + k]
    <3>1. 4 \in Nat /\ 6 \in Nat /\ 4 <= 6 /\ 4 + 1 = 5 /\ 6 - 4 = 2
      OBVIOUS
    <3>2. /\ SubSeq(bytes, 4 + 1, 6) \in Seq(Byte) /\ Len(SubSeq(bytes, 4 + 1, 6)) = 6 - 4
          /\ \A k \in 1 .. 6 - 4 : SubSeq(bytes, 4 + 1, 6)[k] = bytes[4 + k]
      BY <1>13, <2>2, <3>1, SubSeqIs
    <3>3. QED
      BY <3>1, <3>2
  <2>5. Unpack(a) = n
    <3>1. Len(bytes) = 5 + Unpack(SubSeq(bytes, 5 - 1, 5))
      BY <1>10, <1>11 DEF Matches
    <3>2. 5 - 1 = 4
      OBVIOUS
    <3>3. Len(bytes) = 5 + Unpack(a)
      BY <3>1, <3>2
    <3>4. Unpack(a) \in Nat
      BY <2>3, UnpackType
    <3> HIDE DEF a
    <3>5. QED
      BY <1>2, <1>13, <3>3, <3>4
  <2>6. Unpack(b) \in Nat /\ 5 + n = 6 + Unpack(b)
    <3>1. Unpack(b) \in Nat
      BY <2>4, UnpackType
    <3> HIDE DEF b
    <3>2. Len(bytes) = 6 + Unpack(b)
      BY <2>1 DEF b
    <3>3. QED
      BY <1>13, <3>1, <3>2
  <2> HIDE DEF a, b
  <2>7. Unpack(a) = a[1] * Base + a[2] /\ a[1] \in Byte /\ a[2] \in Byte
    BY <2>3, UnpackTwo
  <2>8. Unpack(b) = b[1] * Base + b[2] /\ b[1] \in Byte /\ b[2] \in Byte
    BY <2>4, UnpackTwo
  <2>9. a[2] = b[1]
    <3>1. 1 \in 1 .. 2 /\ 2 \in 1 .. 2 /\ 3 + 2 = 5 /\ 4 + 1 = 5
      OBVIOUS
    <3>2. a[2] = bytes[3 + 2] /\ b[1] = bytes[4 + 1]
      BY <2>3, <2>4, <3>1
    <3>3. QED
      BY <3>1, <3>2
  <2>10. b[2] = e[1]
    <3>1. 5 \in Nat /\ 5 <= Len(bytes) /\ 5 + 1 = 6
      BY <2>2
    <3>2. \A i \in 1 .. Len(bytes) - 5 : From(bytes, 5 + 1)[i] = bytes[5 + i]
      BY <1>13, <3>1, FromType
    <3>3. 1 \in 1 .. Len(bytes) - 5 /\ 5 + 1 = 6
      BY <1>2, <1>13, <2>2
    <3>4. From(bytes, 5 + 1)[1] = bytes[5 + 1]
      BY <3>2, <3>3, Zenon
    <3>5. e[1] = bytes[6]
      BY <1>13, <3>3, <3>4
    <3>6. 2 \in 1 .. 2 /\ 4 + 2 = 6
      OBVIOUS
    <3>7. b[2] = bytes[4 + 2]
      BY <2>4, <3>6, Zenon
    <3>8. QED
      BY <3>5, <3>6, <3>7
  <2>11. e[1] \in 0 .. 2 /\ e # <<>>
    <3>1. 1 \in 1 .. Len(e)
      BY <1>2, <2>2 DEF n
    <3>2. e[1] \in {0, 1, 2}
      BY <1>2, <3>1, ElementOfSeq
    <3>3. e # <<>>
      BY <3>1
    <3>4. QED
      BY <3>2, <3>3
  <2> DEFINE h == a[1]
  <2> DEFINE l == a[2]
  <2> DEFINE x == e[1]
  <2>12. h \in Nat /\ l \in Nat /\ l < Base /\ x \in 0 .. 2
    BY <2>7, <2>11, WidthAssumption DEF Byte
  <2>13. n = h * Base + l
    BY <2>5, <2>7
  <2>14. n = l * Base + x + 1
    <3>1. Unpack(b) = l * Base + x
      BY <2>8, <2>9, <2>10
    <3> DEFINE y == l * Base + x
    <3>2. Unpack(b) = y /\ n = Unpack(b) + 1
      BY <1>2, <2>6, <3>1
    <3> HIDE DEF y
    <3>3. n = y + 1
      BY <3>2
    <3>4. QED
      BY <3>3 DEF y
  <2> HIDE DEF h, l, x
  <2>15. h * Base + l = (Base + 1) * (x + 1)
    BY <2>12, <2>13, <2>14, SameDigits
  <2>16. Len(e) = (Base + 1) * (e[1] + 1)
    BY <2>13, <2>15 DEF x, n
  <2>17. QED
    BY <2>11, <2>16
<1>15. WithLine(LogRealLegacy, bytes) = Returns(Append(<<Trimmed(v[1])>>, v[2]))
  BY <1>1, <1>4, <1>5, <1>9, LineReturns DEF n
<1> DEFINE r == WithLine(LogRealLegacy, bytes)
<1>16. UnpackLogReal(bytes) = IF r.ok THEN Returns(<<0>> \o r.value) ELSE Raises
  BY <1>11, <1>14 DEF UnpackLogReal
<1>17. r.ok /\ r.value = <<Trimmed(v[1]), v[2]>>
  BY <1>6, <1>15, ReturnsValue DEF Longer
<1> HIDE DEF r
<1>18. <<0>> \o <<Trimmed(v[1]), v[2]>> = <<0, Trimmed(v[1]), v[2]>>
  BY ConcatTwo
<1>19. QED
  BY <1>16, <1>17, <1>18, Zenon DEF bytes

-----------------------------------------------------------------------------
(* Commands about logs, and heartbeats of an older peer.                   *)

\* Commands about logs, without a folder and with one.
LEMMA CmdLogLegacyFits ==
  ASSUME NEW a \in Int, NEW v \in Seq(Char)
  PROVE  Fits(CmdLogLegacy, <<a, v>>, 2, <<a, Trimmed(v)>>)
<1> DEFINE E == Enum({1, 2, 3})
<1>1. /\ E \in Field /\ Text(1) \in Field /\ GivenTo(E, a) /\ GivenTo(Text(1), v)
      /\ MeantField(E, a) = a /\ MeantField(Text(1), v) = Trimmed(v)
      /\ E.size = 1 /\ Text(1).size = 1
  BY Fields, SmallEnums, EnumTakes, TextTakes
<1>2. CmdLogLegacy = <<E, Text(1)>>
  BY Widths DEF CmdLogLegacy
<1> HIDE DEF E
<1>3. Fits(<<E, Text(1)>>, <<a, v>>, E.size + Text(1).size,
           <<MeantField(E, a), MeantField(Text(1), v)>>)
  BY <1>1, LayoutTwo
<1>4. E.size + Text(1).size = 2
  BY <1>1
<1>5. QED
  BY <1>1, <1>2, <1>3, <1>4, Zenon

LEMMA CmdLogFits ==
  ASSUME NEW a \in Int, NEW v \in Seq(Char), NEW b \in Int
  PROVE  Fits(CmdLogPayload, <<a, v, b>>, 3, <<a, Trimmed(v), b>>)
<1> DEFINE E == Enum({1, 2, 3})
<1>1. /\ E \in Field /\ Text(1) \in Field /\ Int1 \in Field
      /\ GivenTo(E, a) /\ GivenTo(Text(1), v) /\ GivenTo(Int1, b)
      /\ MeantField(E, a) = a /\ MeantField(Text(1), v) = Trimmed(v) /\ MeantField(Int1, b) = b
      /\ E.size = 1 /\ Text(1).size = 1 /\ Int1.size = 1
  BY Fields, SmallEnums, EnumTakes, TextTakes, IntTakes
<1>2. CmdLogPayload = <<E, Text(1), Int1>>
  BY Widths DEF CmdLogPayload
<1> HIDE DEF E
<1>3. Fits(<<E, Text(1), Int1>>, <<a, v, b>>, E.size + Text(1).size + Int1.size,
           <<MeantField(E, a), MeantField(Text(1), v), MeantField(Int1, b)>>)
  BY <1>1, LayoutThree
<1>4. E.size + Text(1).size + Int1.size = 3
  BY <1>1
<1>5. QED
  BY <1>1, <1>2, <1>3, <1>4, Zenon

\* A command about logs without a folder is read as one of no folder.
LEMMA OldLogIsRead ==
  ASSUME NEW v \in Int \X Seq(Char), PackAll(CmdLogLegacy, v).ok
  PROVE  UnpackCmdLog(PackAll(CmdLogLegacy, v).value) = Returns(<<v[1], Trimmed(v[2]), -1>>)
<1> DEFINE bytes == PackAll(CmdLogLegacy, v).value
<1> DEFINE old == UnpackAll(CmdLogLegacy, bytes)
<1>1. v[1] \in Int /\ v[2] \in Seq(Char) /\ v = <<v[1], v[2]>>
  OBVIOUS
<1>2. Fits(CmdLogLegacy, v, 2, <<v[1], Trimmed(v[2])>>)
  BY <1>1, CmdLogLegacyFits
<1>3. SizeOf(CmdLogPayload) = 3
  <2>1. Fits(CmdLogPayload, <<v[1], v[2], 0>>, 3, <<v[1], Trimmed(v[2]), 0>>)
    BY <1>1, CmdLogFits
  <2>2. QED
    BY <2>1 DEF Fits
<1>4. HoldsLayout(CmdLogLegacy, v, bytes)
  BY <1>2, LayoutReturns DEF Fits
<1>5. Len(bytes) = 2 /\ old = Returns(<<v[1], Trimmed(v[2])>>)
  BY <1>2, <1>4 DEF HoldsLayout, Fits
<1>6. UnpackCmdLog(bytes) =
        IF Len(bytes) = SizeOf(CmdLogPayload) THEN UnpackAll(CmdLogPayload, bytes)
        ELSE IF old.ok THEN Returns(Append(old.value, -1)) ELSE Raises
  BY DEF UnpackCmdLog
<1> HIDE DEF old, bytes
<1>7. Len(bytes) # SizeOf(CmdLogPayload)
  BY <1>3, <1>5
<1>8. old.ok /\ old.value = <<v[1], Trimmed(v[2])>>
  BY <1>5, ReturnsValue
<1>9. Longer(<<v[1], Trimmed(v[2])>>, -1, <<v[1], Trimmed(v[2]), -1>>)
  BY ThreeOf
<1>10. UnpackCmdLog(bytes) = Returns(Append(old.value, -1))
  BY <1>6, <1>7, <1>8
<1>11. Append(old.value, -1) = <<v[1], Trimmed(v[2]), -1>>
  BY <1>8, <1>9 DEF Longer
<1>12. QED
  BY <1>10, <1>11 DEF bytes

\* A command of one byte.
LEMMA OldCtrlIsRead ==
  ASSUME NEW a \in 0 .. 4
  PROVE  UnpackCmdCtrl(<<a>>) = Returns(<<a, 1, <<>>>>)
<1> DEFINE bytes == <<a>>
<1>1. Len(bytes) = 1 /\ bytes[1] = a
  OBVIOUS
<1> HIDE DEF bytes
<1>2. UnpackCmdCtrl(bytes) = Returns(<<bytes[1], 1, <<>>>>)
  BY <1>1 DEF UnpackCmdCtrl
<1>3. QED
  BY <1>1, <1>2 DEF bytes

\* Heartbeats without statuses.
LEMMA HeartbeatOneFits ==
  ASSUME NEW a \in Int, NEW b \in Int, NEW c \in Int
  PROVE  Fits(HeartbeatV1, <<a, b, c>>, 10, <<a, b, c>>)
<1>1. /\ Num(8) \in Field /\ Num(1) \in Field
      /\ GivenTo(Num(8), a) /\ GivenTo(Num(1), b) /\ GivenTo(Num(1), c)
      /\ MeantField(Num(8), a) = a /\ MeantField(Num(1), b) = b /\ MeantField(Num(1), c) = c
      /\ Num(8).size = 8 /\ Num(1).size = 1
  BY Fields, NumTakes
<1>2. Fits(<<Num(8), Num(1), Num(1)>>, <<a, b, c>>, Num(8).size + Num(1).size + Num(1).size,
           <<MeantField(Num(8), a), MeantField(Num(1), b), MeantField(Num(1), c)>>)
  BY <1>1, LayoutThree
<1>3. Num(8).size + Num(1).size + Num(1).size = 10 /\ HeartbeatV1 = <<Num(8), Num(1), Num(1)>>
  BY <1>1 DEF HeartbeatV1
<1>4. QED
  BY <1>1, <1>2, <1>3, Zenon

LEMMA HeartbeatTwoFits ==
  ASSUME NEW a \in Int, NEW b \in Int, NEW c \in Int, NEW d \in Int
  PROVE  Fits(HeartbeatV2, <<a, b, c, d>>, 11, <<a, b, c, d>>)
<1>1. /\ Num(8) \in Field /\ Num(1) \in Field
      /\ GivenTo(Num(8), a) /\ GivenTo(Num(1), b) /\ GivenTo(Num(1), c) /\ GivenTo(Num(1), d)
      /\ MeantField(Num(8), a) = a /\ MeantField(Num(1), b) = b /\ MeantField(Num(1), c) = c
      /\ MeantField(Num(1), d) = d
      /\ Num(8).size = 8 /\ Num(1).size = 1
  BY Fields, NumTakes
<1>2. Fits(<<Num(8), Num(1), Num(1), Num(1)>>, <<a, b, c, d>>,
           Num(8).size + Num(1).size + Num(1).size + Num(1).size,
           <<MeantField(Num(8), a), MeantField(Num(1), b), MeantField(Num(1), c),
             MeantField(Num(1), d)>>)
  BY <1>1, LayoutFour
<1>3. /\ Num(8).size + Num(1).size + Num(1).size + Num(1).size = 11
      /\ HeartbeatV2 = <<Num(8), Num(1), Num(1), Num(1)>>
  BY <1>1 DEF HeartbeatV2
<1>4. QED
  BY <1>1, <1>2, <1>3, Zenon

LEMMA HeartbeatSizes == SizeOf(HeartbeatV1) = 10 /\ SizeOf(HeartbeatV2) = 11
<1>1. Fits(HeartbeatV1, <<0, 0, 0>>, 10, <<0, 0, 0>>)
  BY HeartbeatOneFits
<1>2. Fits(HeartbeatV2, <<0, 0, 0, 0>>, 11, <<0, 0, 0, 0>>)
  BY HeartbeatTwoFits
<1>3. QED
  BY <1>1, <1>2 DEF Fits

LEMMA OldBeatOne ==
  ASSUME NEW v \in Int \X Int \X Int, PackAll(HeartbeatV1, v).ok
  PROVE  UnpackHeartbeat(PackAll(HeartbeatV1, v).value) = Returns(v \o <<0, <<>>, 0>>)
<1> DEFINE bytes == PackAll(HeartbeatV1, v).value
<1> DEFINE v1 == UnpackAll(HeartbeatV1, bytes)
<1>1. v[1] \in Int /\ v[2] \in Int /\ v[3] \in Int /\ v = <<v[1], v[2], v[3]>>
  OBVIOUS
<1>2. Fits(HeartbeatV1, v, 10, v)
  BY <1>1, HeartbeatOneFits
<1>3. HoldsLayout(HeartbeatV1, v, bytes)
  BY <1>2, LayoutReturns DEF Fits
<1>4. Len(bytes) = 10 /\ v1 = Returns(v)
  BY <1>2, <1>3 DEF HoldsLayout, Fits
<1>5. v1.value = v
  BY <1>4, ReturnsValue
<1> HIDE DEF bytes
<1>6. UnpackHeartbeat(bytes) = Returns(v1.value \o <<NotMonitored, <<>>, 0>>)
  BY <1>4, HeartbeatSizes DEF UnpackHeartbeat
<1> HIDE DEF v1
<1>7. NotMonitored = 0
  BY DEF NotMonitored
<1>8. QED
  BY <1>5, <1>6, <1>7, Zenon DEF bytes

LEMMA OldBeatTwo ==
  ASSUME NEW v \in Int \X Int \X Int \X Int, PackAll(HeartbeatV2, v).ok
  PROVE  UnpackHeartbeat(PackAll(HeartbeatV2, v).value) = Returns(v \o <<<<>>, 0>>)
<1> DEFINE bytes == PackAll(HeartbeatV2, v).value
<1> DEFINE v2 == UnpackAll(HeartbeatV2, UpTo(bytes, SizeOf(HeartbeatV2)))
<1>1. v[1] \in Int /\ v[2] \in Int /\ v[3] \in Int /\ v[4] \in Int /\ v = <<v[1], v[2], v[3], v[4]>>
  OBVIOUS
<1>2. Fits(HeartbeatV2, v, 11, v)
  BY <1>1, HeartbeatTwoFits
<1>3. HoldsLayout(HeartbeatV2, v, bytes)
  BY <1>2, LayoutReturns DEF Fits
<1>4. bytes \in Seq(Byte) /\ Len(bytes) = 11 /\ UnpackAll(HeartbeatV2, bytes) = Returns(v)
  BY <1>2, <1>3 DEF HoldsLayout, Fits
<1> HIDE DEF bytes
<1>5. UpTo(bytes, SizeOf(HeartbeatV2)) = bytes
  BY <1>4, HeartbeatSizes, UpToAll
<1>6. v2.value = v
  BY <1>4, <1>5, ReturnsValue
<1>7. UnpackHeartbeat(bytes) = Returns(v2.value \o <<<<>>, 0>>)
  BY <1>4, HeartbeatSizes DEF UnpackHeartbeat
<1> HIDE DEF v2
<1>8. QED
  BY <1>6, <1>7, Zenon DEF bytes

\* The heartbeats of the two older lengths are read with what they lack left empty.
LEMMA OldBeatIsRead ==
  ASSUME NEW v \in Int \X Int \X Int \X Int
  PROVE  LET v1 == PackAll(HeartbeatV1, SubSeq(v, 1, 3))
             v2 == PackAll(HeartbeatV2, v)
         IN /\ v1.ok => UnpackHeartbeat(v1.value) = Returns(SubSeq(v, 1, 3) \o <<0, <<>>, 0>>)
            /\ v2.ok => UnpackHeartbeat(v2.value) = Returns(v \o <<<<>>, 0>>)
<1> DEFINE w == SubSeq(v, 1, 3)
<1>1. v[1] \in Int /\ v[2] \in Int /\ v[3] \in Int /\ v[4] \in Int /\ v = <<v[1], v[2], v[3], v[4]>>
  OBVIOUS
<1>2. w \in Int \X Int \X Int
  <2>1. Longer(<<v[1], v[2], v[3]>>, v[4], v)
    BY <1>1, FourOf
  <2>2. Front(v) = <<v[1], v[2], v[3]>>
    BY <2>1 DEF Longer
  <2>3. Len(v) - 1 = 3
    BY <1>1
  <2>4. w = Front(v)
    BY <2>3 DEF Front
  <2> HIDE DEF w
  <2>5. QED
    BY <1>1, <2>2, <2>4
<1> HIDE DEF w
<1>3. PackAll(HeartbeatV1, w).ok =>
        UnpackHeartbeat(PackAll(HeartbeatV1, w).value) = Returns(w \o <<0, <<>>, 0>>)
  BY <1>2, OldBeatOne
<1>4. PackAll(HeartbeatV2, v).ok =>
        UnpackHeartbeat(PackAll(HeartbeatV2, v).value) = Returns(v \o <<<<>>, 0>>)
  BY OldBeatTwo
<1>5. QED
  BY <1>3, <1>4, Zenon DEF w

-----------------------------------------------------------------------------
(* Control commands.                                                       *)

\* A text that its length precedes.
Prefixed(w, u, body) ==
  /\ u \in Seq(Byte) /\ body \in Seq(Byte) /\ Len(u) = w + Len(body)
  /\ From(u, w + 1) = body /\ Unpack(SubSeq(u, 1, w)) = Len(body)

\* A text that its length precedes, and what is read of it behind a header.
LEMMA PrefixedIs ==
  ASSUME NEW w \in Nat, NEW body \in Seq(Byte), PackCounted(<<Num(w)>>, <<>>, body).ok
  PROVE  Prefixed(w, PackCounted(<<Num(w)>>, <<>>, body).value, body)
<1> DEFINE layout == <<Num(w)>>
<1> DEFINE u == PackCounted(layout, <<>>, body).value
<1> DEFINE n == Len(body)
<1>1. n \in Nat /\ n \in Int
  BY LenProperties
<1>2. Num(w) \in Field /\ GivenTo(Num(w), n) /\ MeantField(Num(w), n) = n /\ Num(w).size = w
  BY <1>1, Fields, NumTakes
<1>3. Fits(layout, <<n>>, w, <<n>>)
  <2> HIDE DEF n
  <2>1. Fits(<<Num(w)>>, <<n>>, Num(w).size, <<MeantField(Num(w), n)>>)
    BY <1>2, LayoutOne
  <2>2. QED
    BY <1>2, <2>1
<1>4. layout \in Seq(Field) /\ SizeOf(layout) = w
  BY <1>3 DEF Fits
<1>5. Len(layout) = 1 /\ layout[1] = Num(w) /\ 1 \in Nat \ {0}
  OBVIOUS
<1>6. <<n>>[1] = n
  OBVIOUS
<1>7. Append(<<>>, n) = <<n>>
  BY OneOf DEF Longer
<1> HIDE DEF layout
<1>8. Counts(layout, <<n>>, body, u)
  <2>1. PackCounted(layout, <<>>, body).ok
    BY DEF layout
  <2>2. QED
    BY <1>3, <1>7, <2>1, CountedIs
<1>9. /\ u \in Seq(Byte) /\ body \in Seq(Byte) /\ Len(u) = w + n
      /\ UnpackAll(layout, UpTo(u, w)) = Returns(<<n>>)
      /\ From(u, w + 1) = body
  BY <1>4, <1>8 DEF Counts
<1> HIDE DEF u
<1> DEFINE head == UpTo(u, w)
<1> DEFINE meant == <<n>>
<1>10. Unpack(SubSeq(head, w - w + 1, w)) = n
  <2>1. UnpackAll(layout, head) = Returns(meant)
    BY <1>9
  <2>2. meant[1] = n
    BY <1>6
  <2> HIDE DEF head, meant
  <2>3. Unpack(SubSeq(head, SizeOf(layout) - w + 1, SizeOf(layout))) = meant[1]
    <3> DEFINE k == 1
    <3>1. k \in Nat \ {0} /\ Len(layout) = k /\ layout[k] = Num(w) /\ layout \in Seq(Field)
      BY <1>4, <1>5
    <3> HIDE DEF k
    <3>2. Unpack(SubSeq(head, SizeOf(layout) - w + 1, SizeOf(layout))) = meant[k]
      BY <2>1, <3>1, LastNumber
    <3>3. QED
      BY <3>2 DEF k
  <2>4. QED
    BY <1>4, <2>2, <2>3
<1>11. head = SubSeq(u, 1, w) /\ SubSeq(head, 1, w) = head
  <2>1. (IF w < Len(u) THEN w ELSE Len(u)) = w
    <3>1. Len(u) = w + n
      BY <1>9
    <3>2. QED
      BY <1>1, <3>1
  <2>2. head = SubSeq(u, 1, w)
    BY <2>1 DEF UpTo
  <2>3. u \in Seq(Byte)
    BY <1>9
  <2>4. head \in Seq(Byte) /\ Len(head) = w
    BY <2>1, <2>3, UpToType
  <2> HIDE DEF head
  <2>5. SubSeq(head, 1, Len(head)) = head
    BY <2>4, SubSeqFull
  <2>6. QED
    BY <2>2, <2>4, <2>5
<1>12. w - w + 1 = 1
  OBVIOUS
<1> HIDE DEF head
<1>13. Unpack(SubSeq(u, 1, w)) = n
  BY <1>10, <1>11, <1>12
<1>14. Prefixed(w, u, body)
  BY <1>9, <1>13 DEF Prefixed
<1>15. QED
  BY <1>14 DEF u, layout

\* The same after a head.
HasText(bytes, n, w, text) ==
  /\ bytes \in Seq(Byte) /\ Len(bytes) = n + w + Len(Encode(text))
  /\ Unpack(SubSeq(bytes, n + 1, n + w)) \in Nat
  /\ Decode(UpTo(From(bytes, n + w + 1), Unpack(SubSeq(bytes, n + 1, n + w)))) = Returns(text)

LEMMA TextAfter ==
  ASSUME NEW head \in Seq(Byte), NEW n, n = Len(head), NEW text \in Seq(Char), NEW w \in Nat, NEW u,
         Prefixed(w, u, Encode(text))
  PROVE  HasText(head \o u, n, w, text)
<1> DEFINE e == Encode(text)
<1> DEFINE bytes == head \o u
<1>1. /\ u \in Seq(Byte) /\ e \in Seq(Byte) /\ Len(u) = w + Len(e)
      /\ From(u, w + 1) = e /\ Unpack(SubSeq(u, 1, w)) = Len(e)
  BY DEF Prefixed
<1>2. Decode(e) = Returns(text)
  BY DecodeEncode
<1> HIDE DEF e
<1>3. n \in Nat /\ Len(u) \in Nat /\ Len(e) \in Nat
  BY <1>1, LenProperties
<1>4. bytes \in Seq(Byte) /\ Len(bytes) = n + Len(u)
  BY <1>1, TwoParts
<1>5. SubSeq(bytes, n + w + 1, Len(bytes)) = e
  <2>1. w <= Len(u) /\ Len(u) <= Len(u)
    BY <1>1, <1>3
  <2>2. SubSeq(bytes, n + w + 1, n + Len(u)) = SubSeq(u, w + 1, Len(u))
    BY <1>1, <1>3, <2>1, PartAt
  <2> HIDE DEF bytes
  <2>3. From(u, w + 1) = SubSeq(u, w + 1, Len(u))
    BY DEF From
  <2>4. QED
    BY <1>1, <1>4, <2>2, <2>3
<1>6. SubSeq(bytes, n + 1, n + w) = SubSeq(u, 1, w)
  <2>1. 0 <= w /\ w <= Len(u) /\ n + 0 + 1 = n + 1 /\ 0 + 1 = 1 /\ 0 \in Nat
    BY <1>1, <1>3
  <2>2. SubSeq(bytes, n + 0 + 1, n + w) = SubSeq(u, 0 + 1, w)
    BY <1>1, <2>1, PartAt
  <2> HIDE DEF bytes
  <2>3. QED
    BY <2>1, <2>2
<1> HIDE DEF bytes
<1>7. From(bytes, n + w + 1) = e
  BY <1>5 DEF From
<1>8. UpTo(From(bytes, n + w + 1), Unpack(SubSeq(bytes, n + 1, n + w))) = e
  <2>1. UpTo(e, Len(e)) = e
    BY <1>1, UpToAll
  <2>2. QED
    BY <1>1, <1>6, <1>7, <2>1
<1>9. Len(bytes) = n + w + Len(e)
  <2>1. Len(u) = w + Len(e)
    BY <1>1
  <2>2. QED
    BY <1>3, <1>4, <2>1
<1>10. Unpack(SubSeq(bytes, n + 1, n + w)) \in Nat
  <2>1. Unpack(SubSeq(u, 1, w)) = Len(e)
    BY <1>1
  <2>2. QED
    BY <1>3, <1>6, <2>1
<1>11. HasText(bytes, n, w, text)
  BY <1>2, <1>4, <1>8, <1>9, <1>10 DEF HasText, e
<1>12. QED
  BY <1>11 DEF bytes

-----------------------------------------------------------------------------
\* Commands that control a program.
LEMMA CmdCtrlFits ==
  ASSUME NEW a \in Int, NEW b \in Int
  PROVE  Fits(<<Enum(0 .. 4), Num(1)>>, <<a, b>>, 2, <<a, b>>)
<1> DEFINE E == Enum(0 .. 4)
<1>1. /\ E \in Field /\ Num(1) \in Field /\ GivenTo(E, a) /\ GivenTo(Num(1), b)
      /\ MeantField(E, a) = a /\ MeantField(Num(1), b) = b
      /\ E.size = 1 /\ Num(1).size = 1
  BY Fields, SmallEnums, EnumTakes, NumTakes
<1> HIDE DEF E
<1>3. Fits(<<E, Num(1)>>, <<a, b>>, E.size + Num(1).size,
           <<MeantField(E, a), MeantField(Num(1), b)>>)
  BY <1>1, LayoutTwo
<1>4. E.size + Num(1).size = 2
  BY <1>1
<1>5. Fits(<<E, Num(1)>>, <<a, b>>, 2, <<a, b>>)
  BY <1>1, <1>3, <1>4, Zenon
<1>6. QED
  BY <1>5 DEF E

\* A control command is read as it was sent, with a name and without (CmdCtrlPayload).
LEMMA CmdCtrlReturns ==
  ASSUME NEW v \in Int \X Int \X Seq(Char)
  PROVE  VariableReturns("cmd_ctrl", v)
<1> DEFINE layout == <<Enum(0 .. 4), Num(1)>>
<1> DEFINE packed == PackAll(layout, Front(v))
<1> DEFINE name == PackCounted(<<Num(1)>>, <<>>, Encode(Last(v)))
<1> DEFINE bytes == PackCmdCtrl(v).value
<1>1. /\ PackOf("cmd_ctrl", v) = PackCmdCtrl(v)
      /\ UnpackOf("cmd_ctrl", bytes) = UnpackCmdCtrl(bytes)
  BY DEF PackOf, UnpackOf
<1>2. Meant("cmd_ctrl", v) = v
  BY DEF Meant
<1>3. ASSUME PackCmdCtrl(v).ok PROVE UnpackCmdCtrl(bytes) = Returns(v)
  <2>1. v[1] \in Int /\ v[2] \in Int /\ v[3] \in Seq(Char) /\ v = <<v[1], v[2], v[3]>>
    OBVIOUS
  <2>2. Longer(<<v[1], v[2]>>, v[3], v)
    BY <2>1, ThreeOf
  <2>3. Front(v) = <<v[1], v[2]>> /\ Last(v) = v[3] /\ Append(<<v[1], v[2]>>, v[3]) = v
    BY <2>2, Zenon DEF Longer
  <2>4. Fits(layout, Front(v), 2, <<v[1], v[2]>>)
    <3>1. Fits(layout, <<v[1], v[2]>>, 2, <<v[1], v[2]>>)
      BY <2>1, CmdCtrlFits
    <3>2. QED
      BY <2>3, <3>1
  <2>5. PackCmdCtrl(v) = IF ~packed.ok \/ ~name.ok THEN Raises
                         ELSE IF Last(v) = <<>> THEN packed ELSE Returns(packed.value \o name.value)
    BY DEF PackCmdCtrl
  <2> HIDE DEF bytes, layout
  <2>6. packed.ok /\ name.ok
    <3> HIDE DEF packed, name
    <3>1. QED
      BY <1>3, <2>5, ReturnsValue
  <2>7. HoldsLayout(layout, Front(v), packed.value)
    BY <2>4, <2>6, LayoutReturns DEF Fits
  <2>8. /\ packed.value \in Seq(Byte) /\ Len(packed.value) = 2
        /\ UnpackAll(layout, packed.value) = Returns(<<v[1], v[2]>>)
    BY <2>4, <2>7 DEF HoldsLayout, Fits
  <2> DEFINE e == Encode(v[3])
  <2>9. e \in Seq(Byte) /\ Len(e) \in Nat
    <3>1. e \in Seq(Byte)
      BY <2>1, EncodeType
    <3>2. QED
      BY <3>1, LenProperties
  <2>10. Prefixed(1, name.value, e)
    BY <2>3, <2>6, <2>9, PrefixedIs
  <2> DEFINE head == UnpackAll(layout, UpTo(bytes, 2))
  <2> DEFINE read == Decode(UpTo(From(bytes, 4), bytes[3]))
  <2>11. CASE Last(v) = <<>>
    <3>1. PackCmdCtrl(v) = packed
      BY <2>5, <2>6, <2>11
    <3>2. bytes = packed.value
      BY <3>1 DEF bytes
    <3> HIDE DEF packed, name, e
    <3>3. UpTo(bytes, 2) = bytes
      BY <2>8, <3>2, UpToAll
    <3>4. head = Returns(<<v[1], v[2]>>)
      BY <2>8, <3>2, <3>3
    <3>5. UnpackCmdCtrl(bytes) = IF head.ok THEN Returns(Append(head.value, <<>>)) ELSE Raises
      BY <2>8, <3>2 DEF UnpackCmdCtrl, layout
    <3> HIDE DEF head
    <3>6. head.ok /\ head.value = <<v[1], v[2]>>
      BY <3>4, ReturnsValue
    <3>7. Append(<<v[1], v[2]>>, <<>>) = v
      BY <2>3, <2>11
    <3>8. QED
      BY <3>5, <3>6, <3>7
  <2>12. CASE Last(v) # <<>>
    <3>1. PackCmdCtrl(v) = Returns(packed.value \o name.value)
      BY <2>5, <2>6, <2>12
    <3>2. bytes = packed.value \o name.value
      BY <3>1, ReturnsValue DEF bytes
    <3>3. name.value \in Seq(Byte)
      BY <2>10 DEF Prefixed
    <3> DEFINE p == packed.value
    <3> DEFINE q == name.value
    <3>4. p \in Seq(Byte) /\ Len(p) = 2 /\ Prefixed(1, q, Encode(v[3])) /\ bytes = p \o q
      BY <2>8, <2>10, <3>2
    <3>5. UnpackAll(layout, p) = Returns(<<v[1], v[2]>>) /\ q \in Seq(Byte)
      BY <2>8, <3>3
    <3> HIDE DEF p, q, packed, name
    <3>6. HasText(bytes, 2, 1, v[3])
      BY <2>1, <3>4, TextAfter
    <3>7. /\ bytes \in Seq(Byte) /\ Len(bytes) = 2 + 1 + Len(e)
          /\ Decode(UpTo(From(bytes, 2 + 1 + 1), Unpack(SubSeq(bytes, 2 + 1, 2 + 1)))) = Returns(v[3])
      BY <3>6, Zenon DEF HasText
    <3>8. InTwo(p \o q, p, q)
      BY <3>4, <3>5, WholeInTwo
    <3>9. head = Returns(<<v[1], v[2]>>)
      <4>1. UpTo(bytes, Len(p)) = p
        BY <3>4, <3>8, Zenon DEF InTwo
      <4>2. QED
        BY <3>4, <3>5, <4>1
    <3> HIDE DEF e
    <3>10. Len(bytes) >= 3 /\ Len(bytes) # 0 /\ Len(bytes) # 1 /\ Len(bytes) # 2
      BY <2>9, <3>7
    <3>11. Unpack(SubSeq(bytes, 3, 3)) = bytes[3]
      <4>1. 2 \in Nat /\ 3 \in Nat /\ 2 <= 3 /\ 3 <= Len(bytes)
        BY <3>10
      <4> DEFINE s == SubSeq(bytes, 2 + 1, 3)
      <4>2. s \in Seq(Byte) /\ Len(s) = 3 - 2 /\ \A k \in 1 .. 3 - 2 : s[k] = bytes[2 + k]
        BY <3>7, <4>1, SubSeqIs
      <4>3. s = SubSeq(bytes, 3, 3)
        OBVIOUS
      <4> HIDE DEF s
      <4>4. 1 \in 1 .. 3 - 2 /\ 2 + 1 = 3
        OBVIOUS
      <4>5. s[1] = bytes[3] /\ Len(s) = 1
        BY <4>2, <4>4
      <4>6. Unpack(s) = s[1]
        BY <4>2, <4>5, UnpackByte
      <4>7. QED
        BY <4>3, <4>5, <4>6
    <3>12. read = Returns(v[3])
      <4>1. 2 + 1 + 1 = 4 /\ 2 + 1 = 3
        OBVIOUS
      <4>2. Decode(UpTo(From(bytes, 4), Unpack(SubSeq(bytes, 3, 3)))) = Returns(v[3])
        BY <3>7, <4>1
      <4>3. QED
        BY <3>11, <4>2
    <3>13. UnpackCmdCtrl(bytes) =
             IF head.ok /\ read.ok THEN Returns(Append(head.value, read.value)) ELSE Raises
      BY <3>10 DEF UnpackCmdCtrl, layout
    <3> HIDE DEF head, read
    <3>14. head.ok /\ head.value = <<v[1], v[2]>> /\ read.ok /\ read.value = v[3]
      BY <3>9, <3>12, ReturnsValue
    <3>15. QED
      BY <2>3, <3>13, <3>14
  <2>13. QED
    BY <2>11, <2>12
<1>4. QED
  BY <1>1, <1>2, <1>3 DEF VariableReturns

-----------------------------------------------------------------------------
(* Deployments.                                                            *)

\* Deployments.
LEMMA CmdDeployFits ==
  ASSUME NEW a \in Int, NEW b \in Seq(Byte), NEW c \in Seq(Char), NEW d \in Int
  PROVE  Fits(CmdDeployHeader, <<a, b, c, d>>, 10, <<a, b, Trimmed(c), d>>)
<1> DEFINE E == Enum({0, 1, 2})
<1>1. /\ Num(4) \in Field /\ Raw(2) \in Field /\ Text(3) \in Field /\ E \in Field
      /\ GivenTo(Num(4), a) /\ GivenTo(Raw(2), b) /\ GivenTo(Text(3), c) /\ GivenTo(E, d)
      /\ MeantField(Num(4), a) = a /\ MeantField(Raw(2), b) = b
      /\ MeantField(Text(3), c) = Trimmed(c) /\ MeantField(E, d) = d
      /\ Num(4).size = 4 /\ Raw(2).size = 2 /\ Text(3).size = 3 /\ E.size = 1
  BY Fields, SmallEnums, NumTakes, RawTakes, TextTakes, EnumTakes
<1>2. CmdDeployHeader = <<Num(4), Raw(2), Text(3), E>>
  BY Widths DEF CmdDeployHeader
<1> HIDE DEF E
<1>3. Fits(<<Num(4), Raw(2), Text(3), E>>, <<a, b, c, d>>,
           Num(4).size + Raw(2).size + Text(3).size + E.size,
           <<MeantField(Num(4), a), MeantField(Raw(2), b), MeantField(Text(3), c),
             MeantField(E, d)>>)
  BY <1>1, LayoutFour
<1>4. Num(4).size + Raw(2).size + Text(3).size + E.size = 10
  BY <1>1
<1>5. QED
  BY <1>1, <1>2, <1>3, <1>4, Zenon

\* A deployment is read as it was sent, with a path and without (CmdDeployPayload).
LEMMA CmdDeployReturns ==
  ASSUME NEW v \in Int \X Seq(Byte) \X Seq(Char) \X Int \X Seq(Char)
  PROVE  VariableReturns("cmd_deploy", v)
<1> DEFINE packed == PackAll(CmdDeployHeader, Front(v))
<1> DEFINE path == PackCounted(<<Num(2)>>, <<>>, Encode(Last(v)))
<1> DEFINE bytes == PackCmdDeploy(v).value
<1> DEFINE m == <<v[1], v[2], Trimmed(v[3]), v[4]>>
<1> DEFINE meant == <<v[1], v[2], Trimmed(v[3]), v[4], v[5]>>
<1>1. /\ PackOf("cmd_deploy", v) = PackCmdDeploy(v)
      /\ UnpackOf("cmd_deploy", bytes) = UnpackCmdDeploy(bytes)
  BY DEF PackOf, UnpackOf
<1>2. Meant("cmd_deploy", v) = meant
  BY DEF Meant
<1>3. ASSUME PackCmdDeploy(v).ok PROVE UnpackCmdDeploy(bytes) = Returns(meant)
  <2>1. /\ v[1] \in Int /\ v[2] \in Seq(Byte) /\ v[3] \in Seq(Char) /\ v[4] \in Int
        /\ v[5] \in Seq(Char) /\ v = <<v[1], v[2], v[3], v[4], v[5]>>
    OBVIOUS
  <2>2. Longer(<<v[1], v[2], v[3], v[4]>>, v[5], v) /\ Longer(m, v[5], meant)
    BY <2>1, FiveOf
  <2>3. Front(v) = <<v[1], v[2], v[3], v[4]>> /\ Last(v) = v[5] /\ Append(m, v[5]) = meant
    BY <2>2, Zenon DEF Longer
  <2>4. Fits(CmdDeployHeader, Front(v), 10, m)
    <3>1. Fits(CmdDeployHeader, <<v[1], v[2], v[3], v[4]>>, 10, m)
      BY <2>1, CmdDeployFits
    <3> HIDE DEF m
    <3>2. QED
      BY <2>3, <3>1
  <2>5. PackCmdDeploy(v) = IF ~packed.ok \/ ~path.ok THEN Raises
                           ELSE IF Last(v) = <<>> THEN packed
                           ELSE Returns(packed.value \o path.value)
    BY DEF PackCmdDeploy
  <2> HIDE DEF bytes, m, meant
  <2>6. packed.ok /\ path.ok
    <3> HIDE DEF packed, path
    <3>1. QED
      BY <1>3, <2>5, ReturnsValue
  <2>7. HoldsLayout(CmdDeployHeader, Front(v), packed.value)
    BY <2>4, <2>6, LayoutReturns DEF Fits
  <2>8. /\ packed.value \in Seq(Byte) /\ Len(packed.value) = 10
        /\ UnpackAll(CmdDeployHeader, packed.value) = Returns(m)
    BY <2>4, <2>7 DEF HoldsLayout, Fits
  <2>0. SizeOf(CmdDeployHeader) = 10
    BY <2>4 DEF Fits
  <2> DEFINE e == Encode(v[5])
  <2>9. e \in Seq(Byte) /\ Len(e) \in Nat
    <3>1. e \in Seq(Byte)
      BY <2>1, EncodeType
    <3>2. QED
      BY <3>1, LenProperties
  <2>10. Prefixed(2, path.value, e)
    BY <2>3, <2>6, <2>9, PrefixedIs
  <2> DEFINE head == UnpackAll(CmdDeployHeader, UpTo(bytes, 10))
  <2> DEFINE read == Decode(UpTo(From(bytes, 10 + 3), Unpack(SubSeq(bytes, 10 + 1, 10 + 2))))
  <2>14. UnpackCmdDeploy(bytes) =
           IF ~head.ok \/ Len(bytes) = 10 + 1 THEN Raises
           ELSE IF Len(bytes) = 10 THEN Returns(Append(head.value, <<>>))
           ELSE IF read.ok THEN Returns(Append(head.value, read.value)) ELSE Raises
    BY <2>0 DEF UnpackCmdDeploy
  <2>11. CASE Last(v) = <<>>
    <3>1. PackCmdDeploy(v) = packed
      BY <2>5, <2>6, <2>11
    <3>2. bytes = packed.value
      BY <3>1 DEF bytes
    <3> HIDE DEF packed, path, e
    <3>3. UpTo(bytes, 10) = bytes
      BY <2>8, <3>2, UpToAll
    <3>4. head = Returns(m)
      BY <2>8, <3>2, <3>3
    <3> HIDE DEF head, read
    <3>5. head.ok /\ head.value = m
      BY <3>4, ReturnsValue
    <3>6. Append(m, <<>>) = meant
      BY <2>3, <2>11
    <3>7. Len(bytes) = 10
      BY <2>8, <3>2
    <3>8. Len(bytes) # 10 + 1
      BY <3>7
    <3>9. UnpackCmdDeploy(bytes) = Returns(Append(head.value, <<>>))
      BY <2>14, <3>5, <3>7, <3>8, Zenon
    <3>10. QED
      BY <3>5, <3>6, <3>9, Zenon
  <2>12. CASE Last(v) # <<>>
    <3>1. PackCmdDeploy(v) = Returns(packed.value \o path.value)
      BY <2>5, <2>6, <2>12
    <3>2. bytes = packed.value \o path.value
      BY <3>1, ReturnsValue DEF bytes
    <3>3. path.value \in Seq(Byte)
      BY <2>10 DEF Prefixed
    <3> DEFINE p == packed.value
    <3> DEFINE q == path.value
    <3>4. p \in Seq(Byte) /\ Len(p) = 10 /\ Prefixed(2, q, Encode(v[5])) /\ bytes = p \o q
      BY <2>8, <2>10, <3>2
    <3>5. UnpackAll(CmdDeployHeader, p) = Returns(m) /\ q \in Seq(Byte)
      BY <2>8, <3>3
    <3> HIDE DEF p, q, packed, path
    <3>6. HasText(bytes, 10, 2, v[5])
      BY <2>1, <3>4, TextAfter
    <3>7. /\ bytes \in Seq(Byte) /\ Len(bytes) = 10 + 2 + Len(e)
          /\ Decode(UpTo(From(bytes, 10 + 2 + 1), Unpack(SubSeq(bytes, 10 + 1, 10 + 2))))
               = Returns(v[5])
      BY <3>6, Zenon DEF HasText
    <3>8. InTwo(p \o q, p, q)
      BY <3>4, <3>5, WholeInTwo
    <3>9. head = Returns(m)
      <4>1. UpTo(bytes, Len(p)) = p
        BY <3>4, <3>8, Zenon DEF InTwo
      <4>2. QED
        BY <3>4, <3>5, <4>1
    <3> HIDE DEF e
    <3>10. Len(bytes) # 10 + 1 /\ Len(bytes) # 10
      BY <2>9, <3>7
    <3>12. read = Returns(v[5])
      <4>1. 10 + 2 + 1 = 10 + 3
        OBVIOUS
      <4>2. QED
        BY <3>7, <4>1
    <3> HIDE DEF head, read
    <3>14. head.ok /\ head.value = m /\ read.ok /\ read.value = v[5]
      BY <3>9, <3>12, ReturnsValue
    <3>15. QED
      BY <2>3, <2>14, <3>10, <3>14
  <2>13. QED
    BY <2>11, <2>12
<1>4. QED
  BY <1>1, <1>2, <1>3 DEF VariableReturns

-----------------------------------------------------------------------------
(* Lists and objects.                                                      *)

\* Lists of entries of one size.
LEMMA Multiples ==
  ASSUME NEW n \in Nat, NEW k \in Nat
  PROVE  /\ [i \in 0 .. k |-> i * n] \in [0 .. k -> Nat]
         /\ \A i \in 1 .. k : i * n = (i - 1) * n + n
<1>1. \A i \in 0 .. k : i \in Nat
  OBVIOUS
<1>2. \A i \in Nat : i * n \in Nat
  OBVIOUS
<1>3. \A i \in 1 .. k : i \in Nat /\ i - 1 \in Nat /\ i = (i - 1) + 1
  OBVIOUS
<1>4. \A j \in Nat : (j + 1) * n = j * n + n
  OBVIOUS
<1>5. \A i \in 1 .. k : i * n = (i - 1) * n + n
  <2>1. TAKE i \in 1 .. k
  <2> DEFINE j == i - 1
  <2>2. j \in Nat /\ i = j + 1
    BY <1>3
  <2> HIDE DEF j
  <2>3. i * n = j * n + n
    BY <1>4, <2>2
  <2>4. QED
    BY <2>3 DEF j
<1>6. [i \in 0 .. k |-> i * n] \in [0 .. k -> Nat]
  BY <1>1, <1>2
<1>7. QED
  BY <1>5, <1>6

SameSize(seqs, n) == \A i \in 1 .. Len(seqs) : Len(seqs[i]) = n
EvenlyParted(flat, seqs, n) ==
  /\ flat \in Seq(Byte) /\ Len(flat) = Len(seqs) * n
  /\ \A i \in 1 .. Len(seqs) :
       /\ (i - 1) * n \in Nat /\ i * n \in Nat /\ (i - 1) * n <= i * n /\ i * n <= Len(flat)
       /\ SubSeq(flat, (i - 1) * n + 1, i * n) = seqs[i]

\* Sequences of one length put one after the other can be cut again.
LEMMA FlatEvenly ==
  ASSUME NEW seqs \in Seq(Seq(Byte)), NEW n \in Nat, SameSize(seqs, n)
  PROVE  EvenlyParted(FlattenSeq(seqs), seqs, n)
<1> DEFINE SB == Seq(Byte)
<1> DEFINE k == Len(seqs)
<1> DEFINE ends == [i \in 0 .. k |-> i * n]
<1>0. seqs \in Seq(SB)
  OBVIOUS
<1> HIDE DEF SB
<1>1. k \in Nat
  BY <1>0, LenProperties
<1> HIDE DEF k
<1>2. \A i \in 1 .. k : i * n = (i - 1) * n + n
  BY <1>1, Multiples
<1>3. \A i \in 0 .. k : ends[i] = i * n
  OBVIOUS
<1>4. 0 \in 0 .. k /\ k \in 0 .. k /\ \A i \in 1 .. k : i \in 0 .. k /\ i - 1 \in 0 .. k
  BY <1>1
<1> HIDE DEF ends
<1>5. ends[0] = 0
  BY <1>3, <1>4
<1>6. \A i \in 1 .. k : ends[i] = ends[i - 1] + Len(seqs[i])
  <2>1. TAKE i \in 1 .. k
  <2>2. ends[i] = i * n /\ ends[i - 1] = (i - 1) * n
    BY <1>3, <1>4
  <2>3. Len(seqs[i]) = n
    BY DEF SameSize, k
  <2>4. i * n = (i - 1) * n + n
    BY <1>2
  <2>5. QED
    BY <2>2, <2>3, <2>4
<1>7. AddsUp(seqs, ends)
  BY <1>5, <1>6, Zenon DEF AddsUp, k
<1> DEFINE flat == FlattenSeq(seqs)
<1>8. flat \in Seq(Byte) /\ Parted(flat, seqs, ends)
  BY <1>0, <1>7, FlatEnds DEF SB
<1> HIDE DEF flat
<1>9. Len(flat) = k * n
  BY <1>3, <1>4, <1>8 DEF Parted, k
<1>10. ASSUME NEW i \in 1 .. k
       PROVE  /\ (i - 1) * n \in Nat /\ i * n \in Nat /\ (i - 1) * n <= i * n /\ i * n <= Len(flat)
              /\ SubSeq(flat, (i - 1) * n + 1, i * n) = seqs[i]
  <2>1. ends[i] = i * n /\ ends[i - 1] = (i - 1) * n
    BY <1>3, <1>4
  <2>2. /\ ends[i - 1] \in Nat /\ ends[i] \in Nat /\ ends[i] <= Len(flat)
        /\ SubSeq(flat, ends[i - 1] + 1, ends[i]) = seqs[i]
    BY <1>8 DEF Parted, k
  <2>3. i * n = (i - 1) * n + n
    BY <1>2
  <2>4. (i - 1) * n <= i * n
    <3> DEFINE a == (i - 1) * n
    <3> DEFINE b == i * n
    <3>1. a \in Nat /\ b = a + n
      BY <2>1, <2>2, <2>3
    <3> HIDE DEF a, b
    <3>2. a <= b
      BY <3>1
    <3>3. QED
      BY <3>2 DEF a, b
  <2>5. QED
    BY <2>1, <2>2, <2>4, Zenon
<1>11. QED
  BY <1>8, <1>9, <1>10, Zenon DEF EvenlyParted, flat, k

\* A list of entries is read as it was sent, whatever their number (LogFileListPayload,
\* LogFileSelectPayload).
LEMMA ListIsRead ==
  ASSUME NEW layout \in Seq(Field), NEW vs, Len(vs) \in Nat, DOMAIN vs = 1 .. Len(vs),
         \A i \in DOMAIN vs : Given(layout, vs[i])
  PROVE  ListReturns(layout, vs)
<1> DEFINE k == Len(vs)
<1> DEFINE n == SizeOf(layout)
<1> DEFINE count == Pack(k, 2)
<1> DEFINE parts == [i \in 1 .. k |-> PackAll(layout, vs[i])]
<1> DEFINE seqs == Values(parts)
<1> DEFINE flat == FlattenSeq(seqs)
<1> DEFINE meant == [i \in 1 .. k |-> TrimmedLayout(layout, vs[i])]
<1> DEFINE bytes == PackList(layout, vs).value
<1>1. PackList(layout, vs) = IF count.ok /\ AllOk(parts) THEN Returns(count.value \o flat) ELSE Raises
  BY DEF PackList
<1>2. ASSUME PackList(layout, vs).ok PROVE UnpackList(layout, bytes) = Returns(meant)
  <2>1. count.ok /\ AllOk(parts) /\ bytes = count.value \o flat
    <3> HIDE DEF count, parts, flat
    <3>1. QED
      BY <1>1, <1>2, ReturnsValue
  <2>2. k \in Nat /\ k \in Int /\ n \in Nat
    BY SizeOfType
  <2>3. count.value \in Seq(Byte) /\ Len(count.value) = 2 /\ Unpack(count.value) = k
    BY <2>1, <2>2, PackNumber
  <2>4. DOMAIN parts = 1 .. k /\ \A i \in 1 .. k : parts[i] = PackAll(layout, vs[i])
    OBVIOUS
  <2> HIDE DEF parts, bytes, count
  <2>5. \A i \in 1 .. k : HoldsLayout(layout, vs[i], parts[i].value)
    <3>1. TAKE i \in 1 .. k
    <3>2. PackAll(layout, vs[i]).ok
      BY <2>1, <2>4 DEF AllOk
    <3>3. Given(layout, vs[i])
      OBVIOUS
    <3>4. QED
      BY <2>4, <3>2, <3>3, LayoutReturns
  <2>6. \A i \in 1 .. k : /\ parts[i].value \in Seq(Byte) /\ Len(parts[i].value) = n
                          /\ UnpackAll(layout, parts[i].value) = Returns(TrimmedLayout(layout, vs[i]))
    BY <2>5 DEF HoldsLayout
  <2>7. DOMAIN seqs = 1 .. k /\ \A i \in 1 .. k : seqs[i] = parts[i].value
    BY <2>4 DEF Values
  <2> DEFINE SB == Seq(Byte)
  <2>8. seqs = [i \in 1 .. k |-> parts[i].value]
    BY <2>4 DEF Values
  <2>9. \A i \in 1 .. k : parts[i].value \in SB
    BY <2>6
  <2> HIDE DEF SB, n, seqs, k
  <2>10. seqs \in Seq(SB) /\ Len(seqs) = k
    BY <2>2, <2>8, <2>9
  <2>11. SameSize(seqs, n)
    BY <2>6, <2>7, <2>10 DEF SameSize
  <2>12. EvenlyParted(flat, seqs, n)
    BY <2>2, <2>10, <2>11, FlatEvenly DEF SB
  <2> HIDE DEF flat
  <2>13. /\ flat \in Seq(Byte) /\ Len(flat) = k * n
         /\ \A i \in 1 .. k :
              /\ (i - 1) * n \in Nat /\ i * n \in Nat /\ (i - 1) * n <= i * n /\ i * n <= Len(flat)
              /\ SubSeq(flat, (i - 1) * n + 1, i * n) = seqs[i]
    BY <2>10, <2>12, Zenon DEF EvenlyParted
  <2> DEFINE p == count.value
  <2>14. p \in Seq(Byte) /\ Len(p) = 2 /\ Unpack(p) = k /\ bytes = p \o flat
    BY <2>1, <2>3
  <2> HIDE DEF p
  <2>15. bytes \in Seq(Byte) /\ Len(bytes) = 2 + k * n
    <3>1. p \o flat \in Seq(Byte) /\ Len(p \o flat) = Len(p) + Len(flat)
      BY <2>13, <2>14, TwoParts
    <3>2. QED
      BY <2>13, <2>14, <3>1, Zenon
  <2>16. UpTo(bytes, 2) = p
    <3>1. InTwo(p \o flat, p, flat)
      BY <2>13, <2>14, WholeInTwo
    <3>2. QED
      BY <2>14, <3>1, Zenon DEF InTwo
  <2>17. \A i \in 1 .. k : SubSeq(bytes, 3 + (i - 1) * n, 2 + i * n) = seqs[i]
    <3>1. TAKE i \in 1 .. k
    <3> DEFINE a == (i - 1) * n
    <3> DEFINE b == i * n
    <3>2. a \in Nat /\ b \in Nat /\ a <= b /\ b <= Len(flat) /\ SubSeq(flat, a + 1, b) = seqs[i]
      BY <2>13
    <3> HIDE DEF a, b
    <3>3. SubSeq(p \o flat, Len(p) + a + 1, Len(p) + b) = SubSeq(flat, a + 1, b)
      <4>1. p \in Seq(Byte) /\ flat \in Seq(Byte)
        BY <2>13, <2>14
      <4>2. a \in Nat /\ b \in Nat /\ a <= b /\ b <= Len(flat)
        BY <3>2
      <4>3. QED
        BY <4>1, <4>2, PartAt
    <3>4. 2 + a + 1 = 3 + a
      BY <3>2
    <3>5. SubSeq(bytes, 3 + a, 2 + b) = seqs[i]
      <4>1. SubSeq(bytes, 2 + a + 1, 2 + b) = seqs[i]
        BY <2>14, <3>2, <3>3, Zenon
      <4>2. QED
        BY <3>4, <4>1, Zenon
    <3>6. QED
      BY <3>5 DEF a, b
  <2> DEFINE read == [i \in 1 .. k |-> UnpackAll(layout, SubSeq(bytes, 3 + (i - 1) * n, 2 + i * n))]
  <2>18. /\ DOMAIN read = 1 .. k
         /\ \A i \in 1 .. k : read[i] = UnpackAll(layout, SubSeq(bytes, 3 + (i - 1) * n, 2 + i * n))
    OBVIOUS
  <2>19. UnpackList(layout, bytes) =
           IF Len(bytes) < 2 \/ Len(bytes) # 2 + k * n \/ ~AllOk(read) THEN Raises
           ELSE Returns(Values(read))
    BY <2>14, <2>16 DEF UnpackList, n
  <2> HIDE DEF read
  <2>20. \A i \in 1 .. k : read[i] = Returns(meant[i])
    <3>1. TAKE i \in 1 .. k
    <3>2. read[i] = UnpackAll(layout, seqs[i])
      BY <2>17, <2>18
    <3>3. meant[i] = TrimmedLayout(layout, vs[i])
      BY DEF k
    <3>4. QED
      BY <2>6, <2>7, <3>2, <3>3
  <2>21. \A i \in 1 .. k : read[i].ok /\ read[i].value = meant[i]
    BY <2>20, ReturnsValue
  <2>22. meant = [i \in 1 .. k |-> meant[i]]
    BY DEF k
  <2> HIDE DEF meant
  <2>23. AllOk(read) /\ Values(read) = meant
    BY <2>18, <2>21, <2>22 DEF AllOk, Values
  <2>24. ~(Len(bytes) < 2)
    <3> DEFINE a == k * n
    <3>1. a \in Nat /\ Len(bytes) = 2 + a
      <4>1. a = Len(flat)
        BY <2>13
      <4>2. flat \in Seq(Byte)
        BY <2>13
      <4>3. Len(flat) \in Nat
        BY <4>2, LenProperties
      <4>4. QED
        BY <2>15, <4>1, <4>3
    <3> HIDE DEF a
    <3>2. QED
      BY <3>1
  <2>25. QED
    BY <2>15, <2>19, <2>23, <2>24, Zenon DEF k
<1>3. QED
  BY <1>2 DEF ListReturns

\* Objects of keys and values.
LEMMA ObjectIsRead ==
  ASSUME NEW class, NEW gone
  PROVE  ObjectReturns(class, gone)
<1> DEFINE v == [k \in Keys(class) |-> "sent"]
<1> DEFINE object == [k \in Keys(class) \ gone |-> PackObject(class, v)[k]]
<1>1. DOMAIN object = Keys(class) \ gone
  OBVIOUS
<1>2. \A k \in Keys(class) \ gone : object[k] = "sent"
  BY DEF PackObject
<1>3. class.needs \subseteq Keys(class)
  BY DEF Keys
<1> HIDE DEF object
<1>4. class.needs \subseteq DOMAIN object <=> gone \cap class.needs = {}
  BY <1>1, <1>3
<1>5. \A k \in Keys(class) : (IF k \in DOMAIN object THEN object[k] ELSE class.defaults[k])
                               = (IF k \in gone THEN class.defaults[k] ELSE "sent")
  BY <1>1, <1>2
<1>6. [k \in Keys(class) |-> IF k \in DOMAIN object THEN object[k] ELSE class.defaults[k]]
        = [k \in Keys(class) |-> IF k \in gone THEN class.defaults[k] ELSE "sent"]
  BY <1>5
<1>7. QED
  BY <1>4, <1>6 DEF ObjectReturns, UnpackObject, object

-----------------------------------------------------------------------------
(* Heartbeats.                                                             *)

\* What is left of a sequence from a place on, in two parts.
LEMMA RestInTwo ==
  ASSUME NEW S, NEW s \in Seq(S), NEW m \in Nat, NEW n \in Nat, m <= n, n <= Len(s)
  PROVE  /\ From(s, m + 1) = SubSeq(s, m + 1, n) \o From(s, n + 1)
         /\ From(s, n + 1) \in Seq(S) /\ Len(From(s, n + 1)) = Len(s) - n
<1> DEFINE k == Len(s)
<1>1. k \in Nat
  BY LenProperties
<1> DEFINE a == SubSeq(s, m + 1, k)
<1> DEFINE b == SubSeq(s, m + 1, n)
<1> DEFINE c == SubSeq(s, n + 1, k)
<1>2. a \in Seq(S) /\ Len(a) = k - m /\ \A i \in 1 .. k - m : a[i] = s[m + i]
  <2>1. m <= k /\ k <= Len(s)
    BY <1>1
  <2>2. QED
    BY <1>1, <2>1, SubSeqIs
<1>3. b \in Seq(S) /\ Len(b) = n - m /\ \A i \in 1 .. n - m : b[i] = s[m + i]
  BY SubSeqIs
<1>4. c \in Seq(S) /\ Len(c) = k - n /\ \A i \in 1 .. k - n : c[i] = s[n + i]
  <2>1. n <= k /\ k <= Len(s)
    BY <1>1
  <2>2. QED
    BY <1>1, <2>1, SubSeqIs
<1>5. From(s, m + 1) = a /\ From(s, n + 1) = c
  BY DEF From
<1> HIDE DEF a, b, c
<1> DEFINE u == b \o c
<1>6. u \in Seq(S) /\ Len(u) = k - m
  <2>1. b \in Seq(S) /\ c \in Seq(S) /\ Len(b) = n - m /\ Len(c) = k - n
    BY <1>3, <1>4
  <2>2. u \in Seq(S) /\ Len(u) = Len(b) + Len(c)
    BY <2>1, TwoParts
  <2> HIDE DEF u, k
  <2>3. QED
    BY <1>1, <2>1, <2>2
<1>7. \A i \in 1 .. k - m : u[i] = a[i]
  <2>1. TAKE i \in 1 .. k - m
  <2>2. u[i] = IF i <= n - m THEN b[i] ELSE c[i - (n - m)]
    BY <1>1, <1>3, <1>4
  <2>3. CASE i <= n - m
    <3>1. i \in 1 .. n - m
      BY <1>1, <2>3
    <3>2. QED
      BY <1>2, <1>3, <2>2, <2>3, <3>1
  <2>4. CASE ~(i <= n - m)
    <3> DEFINE j == i - (n - m)
    <3>1. j \in 1 .. k - n /\ n + j = m + i
      BY <1>1, <2>4
    <3>2. u[i] = c[j]
      BY <2>2, <2>4
    <3> HIDE DEF j
    <3>3. c[j] = s[n + j]
      BY <1>4, <3>1
    <3>4. QED
      BY <1>2, <3>1, <3>2, <3>3
  <2>5. QED
    BY <2>3, <2>4
<1> HIDE DEF u
<1>8. u = a
  BY <1>1, <1>2, <1>6, <1>7, SeqEqual
<1>9. QED
  BY <1>4, <1>5, <1>8 DEF b, u

\* The parts of a flattened sequence, one after the other.
InParts(flat, seqs, ends) ==
  /\ ends[0] = 0 /\ ends[Len(seqs)] = Len(flat)
  /\ \A i \in 0 .. Len(seqs) : ends[i] \in Nat /\ ends[i] <= Len(flat)
  /\ \A i \in 1 .. Len(seqs) : ends[i] = ends[i - 1] + Len(seqs[i])
  /\ \A i \in 1 .. Len(seqs) : From(flat, ends[i - 1] + 1) = seqs[i] \o From(flat, ends[i] + 1)

\* Sequences put one after the other, with what is left behind each.
LEMMA FlatInParts ==
  ASSUME NEW S, NEW seqs \in Seq(Seq(S))
  PROVE  FlattenSeq(seqs) \in Seq(S) /\ \E ends : InParts(FlattenSeq(seqs), seqs, ends)
<1> DEFINE SB == Seq(S)
<1>0. seqs \in Seq(SB)
  OBVIOUS
<1> DEFINE n == Len(seqs)
<1> DEFINE flat == FlattenSeq(seqs)
<1>1. PICK f \in [0 .. n -> SB] :
           /\ f[0] = <<>>
           /\ \A i \in 1 .. n : f[i] = f[i - 1] \o seqs[i]
           /\ FlattenSeq(seqs) = f[n]
  BY FlattenIs
<1> HIDE DEF SB
<1>2. n \in Nat /\ \A i \in 1 .. n : seqs[i] \in SB
  BY <1>0, LenProperties, ElementOfSeq
<1> HIDE DEF n
<1> DEFINE ends == [i \in 0 .. n |-> Len(f[i])]
<1>3. 0 \in 0 .. n /\ n \in 0 .. n /\ \A i \in 1 .. n : i \in 0 .. n /\ i - 1 \in 0 .. n
  BY <1>2
<1>4. \A i \in 0 .. n : ends[i] = Len(f[i]) /\ f[i] \in SB
  BY <1>1
<1>5. \A i \in 0 .. n : ends[i] \in Nat
  BY <1>4, LenProperties DEF SB
<1> HIDE DEF ends
<1>6. ends[0] = 0
  BY <1>1, <1>3, <1>4
<1>7. \A i \in 1 .. n : ends[i] = ends[i - 1] + Len(seqs[i]) /\ Len(seqs[i]) \in Nat
  <2>1. TAKE i \in 1 .. n
  <2> DEFINE a == f[i - 1]
  <2> DEFINE b == seqs[i]
  <2>2. a \in Seq(S) /\ b \in Seq(S) /\ f[i] = a \o b /\ ends[i - 1] = Len(a) /\ ends[i] = Len(f[i])
    BY <1>1, <1>2, <1>3, <1>4 DEF SB
  <2> HIDE DEF a, b
  <2>3. Len(a \o b) = Len(a) + Len(b) /\ Len(b) \in Nat
    BY <2>2, TwoParts, LenProperties
  <2>4. QED
    BY <2>2, <2>3 DEF b
<1>8. AddsUp(seqs, ends)
  BY <1>6, <1>7 DEF AddsUp, n
<1>9. flat \in Seq(S) /\ Parted(flat, seqs, ends)
  BY <1>8, FlatEnds
<1>10. Len(flat) = ends[n] /\ Len(flat) \in Nat
  BY <1>9, LenProperties DEF Parted, n
<1> HIDE DEF flat
<1>11. \A i \in 0 .. n : ends[i] <= Len(flat)
  <2>1. TAKE i \in 0 .. n
  <2>2. i = 0 \/ i \in 1 .. n
    BY <1>2
  <2>3. i \in 1 .. n => ends[i] <= Len(flat)
    BY <1>9 DEF Parted, n
  <2>4. QED
    BY <1>6, <1>10, <2>2, <2>3
<1>12. \A i \in 1 .. n : From(flat, ends[i - 1] + 1) = seqs[i] \o From(flat, ends[i] + 1)
  <2>1. TAKE i \in 1 .. n
  <2> DEFINE a == ends[i - 1]
  <2> DEFINE b == ends[i]
  <2>2. a \in Nat /\ b \in Nat /\ a <= b /\ b <= Len(flat)
    <3>1. b = a + Len(seqs[i]) /\ Len(seqs[i]) \in Nat
      BY <1>7
    <3>2. a \in Nat /\ b \in Nat /\ b <= Len(flat)
      BY <1>3, <1>5, <1>11
    <3> HIDE DEF a, b
    <3>3. QED
      BY <3>1, <3>2
  <2>3. SubSeq(flat, a + 1, b) = seqs[i]
    BY <1>9 DEF Parted, n
  <2> HIDE DEF a, b
  <2>4. flat \in Seq(S)
    BY <1>9
  <2>5. From(flat, a + 1) = SubSeq(flat, a + 1, b) \o From(flat, b + 1)
    BY <2>2, <2>4, RestInTwo
  <2>6. QED
    BY <2>3, <2>5 DEF a, b
<1>13. InParts(flat, seqs, ends)
  BY <1>5, <1>6, <1>7, <1>10, <1>11, <1>12 DEF InParts, n
<1>14. QED
  BY <1>9, <1>13, Zenon DEF flat

\* One status of a heartbeat, as it is written.
StatusPiece(s, entry) ==
  /\ s \in Seq(Byte) /\ Len(s) >= 1 /\ s[1] \in Nat /\ Len(s) = s[1] + 2
  /\ Decode(SubSeq(s, 2, s[1] + 1)) = Returns(entry[1])
  /\ s[s[1] + 2] = entry[2]

\* A status is written as its name, with its length, and its state.
LEMMA StatusIs ==
  ASSUME NEW entry \in Seq(Char) \X Int, PackStatus(entry).ok
  PROVE  StatusPiece(PackStatus(entry).value, entry)
<1> DEFINE e == Encode(entry[1])
<1> DEFINE name == PackCounted(<<Num(1)>>, <<>>, e)
<1> DEFINE status == Pack(entry[2], 1)
<1> DEFINE s == PackStatus(entry).value
<1>1. entry[1] \in Seq(Char) /\ entry[2] \in Int
  OBVIOUS
<1>2. PackStatus(entry) = IF name.ok /\ status.ok THEN Returns(name.value \o status.value) ELSE Raises
  BY DEF PackStatus
<1>3. name.ok /\ status.ok /\ s = name.value \o status.value
  <2> HIDE DEF name, status
  <2>1. QED
    BY <1>2, ReturnsValue
<1> HIDE DEF s
<1>4. e \in Seq(Byte)
  BY <1>1, EncodeType
<1>5. Decode(e) = Returns(entry[1])
  BY <1>1, DecodeEncode
<1>6. status.value \in Seq(Byte) /\ Len(status.value) = 1 /\ Unpack(status.value) = entry[2]
  BY <1>1, <1>3, PackNumber
<1>7. Prefixed(1, name.value, e)
  BY <1>3, <1>4, PrefixedIs
<1> HIDE DEF e
<1> DEFINE p == name.value
<1> DEFINE q == status.value
<1> DEFINE n == Len(e)
<1>8. /\ p \in Seq(Byte) /\ Len(p) = 1 + n /\ From(p, 1 + 1) = e /\ Unpack(SubSeq(p, 1, 1)) = n
      /\ q \in Seq(Byte) /\ Len(q) = 1 /\ Unpack(q) = entry[2] /\ s = p \o q
  BY <1>3, <1>6, <1>7 DEF Prefixed
<1>9. n \in Nat
  BY <1>4, LenProperties
<1> HIDE DEF p, q, name, status, n
<1>10. s \in Seq(Byte) /\ Len(s) = n + 2
  <2>0. p \in Seq(Byte) /\ q \in Seq(Byte)
    BY <1>8
  <2>1. p \o q \in Seq(Byte) /\ Len(p \o q) = Len(p) + Len(q)
    BY <2>0, TwoParts
  <2>2. Len(p) = 1 + n /\ Len(q) = 1 /\ s = p \o q
    BY <1>8
  <2>3. QED
    BY <1>9, <2>1, <2>2
<1>11. \A i \in 1 .. n + 1 : s[i] = p[i]
  BY <1>8, <1>9
<1>12. p[1] = n
  <2>1. p \in Seq(Byte) /\ 0 \in Nat /\ 1 \in Nat /\ 0 <= 1 /\ 1 <= Len(p) /\ 0 + 1 = 1 /\ 1 - 0 = 1
    BY <1>8, <1>9
  <2> DEFINE r == SubSeq(p, 1, 1)
  <2>2. /\ SubSeq(p, 0 + 1, 1) \in Seq(Byte) /\ Len(SubSeq(p, 0 + 1, 1)) = 1 - 0
        /\ \A k \in 1 .. 1 - 0 : SubSeq(p, 0 + 1, 1)[k] = p[0 + k]
    BY <2>1, SubSeqIs
  <2>3. r \in Seq(Byte) /\ Len(r) = 1 /\ r[1] = p[1]
    BY <2>1, <2>2
  <2> HIDE DEF r
  <2>4. Unpack(r) = r[1]
    BY <2>3, UnpackByte
  <2>5. Unpack(r) = n
    BY <1>8 DEF r
  <2>6. QED
    BY <2>3, <2>4, <2>5
<1>13. s[1] = n
  <2>1. 1 \in 1 .. n + 1
    BY <1>9
  <2>2. QED
    BY <1>11, <1>12, <2>1
<1>14. s[n + 2] = entry[2]
  <2>1. Unpack(q) = q[1]
    BY <1>8, UnpackByte
  <2>2. s[n + 2] = q[1]
    <3>1. p \in Seq(Byte) /\ q \in Seq(Byte) /\ Len(p) = 1 + n /\ Len(q) = 1
      BY <1>8
    <3>2. \A i \in 1 .. Len(p) + Len(q) : (p \o q)[i] = IF i <= Len(p) THEN p[i] ELSE q[i - Len(p)]
      BY <3>1, ConcatProperties
    <3> DEFINE j == n + 2
    <3>3. j \in 1 .. Len(p) + Len(q) /\ ~(j <= Len(p)) /\ j - Len(p) = 1
      BY <1>9, <3>1
    <3>5. s = p \o q
      BY <1>8
    <3> HIDE DEF j
    <3>4. (p \o q)[j] = q[1]
      BY <3>2, <3>3, Zenon
    <3>6. QED
      BY <3>4, <3>5, Zenon DEF j
  <2>3. QED
    BY <1>8, <2>1, <2>2
<1>15. SubSeq(s, 2, n + 1) = e
  <2> DEFINE a == SubSeq(s, 1 + 1, n + 1)
  <2>1. 1 \in Nat /\ n + 1 \in Nat /\ 1 <= n + 1 /\ n + 1 <= Len(s) /\ (n + 1) - 1 = n
    BY <1>9, <1>10
  <2>2. a \in Seq(Byte) /\ Len(a) = (n + 1) - 1 /\ \A k \in 1 .. (n + 1) - 1 : a[k] = s[1 + k]
    <3> DEFINE j == n + 1
    <3>1. s \in Seq(Byte) /\ 1 \in Nat /\ j \in Nat /\ 1 <= j /\ j <= Len(s)
      BY <1>10, <2>1
    <3> HIDE DEF j
    <3>2. /\ SubSeq(s, 1 + 1, j) \in Seq(Byte) /\ Len(SubSeq(s, 1 + 1, j)) = j - 1
          /\ \A k \in 1 .. j - 1 : SubSeq(s, 1 + 1, j)[k] = s[1 + k]
      BY <3>1, SubSeqIs
    <3>3. QED
      BY <3>2, Zenon DEF j
  <2>3. \A k \in 1 .. n : e[k] = p[1 + k]
    <3>1. p \in Seq(Byte) /\ 1 \in Nat /\ 1 <= Len(p) /\ Len(p) - 1 = n
      BY <1>8, <1>9
    <3>2. \A k \in 1 .. Len(p) - 1 : From(p, 1 + 1)[k] = p[1 + k]
      BY <3>1, FromType
    <3>3. From(p, 1 + 1) = e
      BY <1>8
    <3>4. QED
      BY <3>1, <3>2, <3>3
  <2>4. \A k \in 1 .. n : 1 + k \in 1 .. n + 1
    BY <1>9
  <2>5. \A k \in 1 .. n : a[k] = e[k]
    <3>1. \A k \in 1 .. n : a[k] = s[1 + k]
      BY <2>1, <2>2
    <3> HIDE DEF a
    <3>2. QED
      BY <1>11, <2>3, <2>4, <3>1
  <2>6. a \in Seq(Byte) /\ Len(a) = n
    BY <2>1, <2>2
  <2> HIDE DEF a
  <2>7. a = e
    BY <1>4, <2>5, <2>6, SeqEqual DEF n
  <2>8. 1 + 1 = 2
    OBVIOUS
  <2>9. QED
    BY <2>7, <2>8 DEF a
<1>16. Len(s) >= 1
  BY <1>9, <1>10
<1>17. StatusPiece(s, entry)
  BY <1>5, <1>9, <1>10, <1>13, <1>14, <1>15, <1>16, Zenon DEF StatusPiece
<1>18. QED
  BY <1>17 DEF s

\* It is read from what it begins.
LEMMA StatusRead ==
  ASSUME NEW entry \in Seq(Char) \X Int, NEW s, StatusPiece(s, entry), NEW t \in Seq(Byte),
         NEW entries
  PROVE  ReadStatus(Returns(<<entries, s \o t>>)) = Returns(<<Append(entries, entry), t>>)
<1> DEFINE n == s[1]
<1> DEFINE bytes == s \o t
<1> DEFINE state == Returns(<<entries, bytes>>)
<1>1. s \in Seq(Byte) /\ Len(s) >= 1 /\ n \in Nat /\ Len(s) = n + 2
  BY DEF StatusPiece
<1>2. Decode(SubSeq(s, 2, n + 1)) = Returns(entry[1]) /\ s[n + 2] = entry[2]
  BY DEF StatusPiece
<1>3. bytes \in Seq(Byte) /\ Len(bytes) = Len(s) + Len(t) /\ Len(t) \in Nat
  BY <1>1, TwoParts, LenProperties
<1>4. bytes[1] = n /\ bytes[n + 2] = entry[2]
  <2>1. bytes[1] = s[1]
    BY <1>1
  <2>2. n + 2 \in 1 .. Len(s)
    BY <1>1
  <2>3. \A i \in 1 .. Len(s) : bytes[i] = s[i]
    BY <1>1
  <2> HIDE DEF bytes
  <2>4. bytes[n + 2] = s[n + 2]
    BY <2>2, <2>3
  <2>5. QED
    BY <1>2, <2>1, <2>4
<1>5. From(bytes, n + 3) = t
  <2>0. s \in Seq(Byte)
    BY <1>1
  <2>1. SubSeq(bytes, Len(s) + 1, Len(s) + Len(t)) = t
    BY <2>0, TwoParts
  <2>2. Len(s) + 1 = n + 3
    BY <1>1
  <2> HIDE DEF bytes
  <2>3. QED
    BY <1>3, <2>1, <2>2 DEF From
<1>6. SubSeq(bytes, 2, n + 1) = SubSeq(s, 2, n + 1)
  <2> DEFINE a == SubSeq(bytes, 1 + 1, n + 1)
  <2> DEFINE b == SubSeq(s, 1 + 1, n + 1)
  <2>0. \A i \in 1 .. Len(s) : bytes[i] = s[i]
    BY <1>1
  <2> HIDE DEF bytes, n
  <2>1. /\ 1 \in Nat /\ n + 1 \in Nat /\ 1 <= n + 1 /\ n + 1 <= Len(s) /\ (n + 1) - 1 = n
        /\ n + 1 <= Len(bytes)
    BY <1>1, <1>3
  <2>2. a \in Seq(Byte) /\ Len(a) = (n + 1) - 1 /\ \A k \in 1 .. (n + 1) - 1 : a[k] = bytes[1 + k]
    <3> DEFINE j == n + 1
    <3>1. bytes \in Seq(Byte) /\ 1 \in Nat /\ j \in Nat /\ 1 <= j /\ j <= Len(bytes)
      BY <1>3, <2>1
    <3> HIDE DEF j
    <3>2. /\ SubSeq(bytes, 1 + 1, j) \in Seq(Byte) /\ Len(SubSeq(bytes, 1 + 1, j)) = j - 1
          /\ \A k \in 1 .. j - 1 : SubSeq(bytes, 1 + 1, j)[k] = bytes[1 + k]
      BY <3>1, SubSeqIs
    <3>3. QED
      BY <3>2, Zenon DEF j
  <2>3. b \in Seq(Byte) /\ Len(b) = (n + 1) - 1 /\ \A k \in 1 .. (n + 1) - 1 : b[k] = s[1 + k]
    BY <1>1, <2>1, SubSeqIs
  <2> HIDE DEF a, b
  <2>4. \A k \in 1 .. (n + 1) - 1 : 1 + k \in 1 .. Len(s)
    BY <1>1
  <2>5. \A k \in 1 .. (n + 1) - 1 : a[k] = b[k]
    BY <2>0, <2>2, <2>3, <2>4
  <2>6. a = b
    BY <2>2, <2>3, <2>5, SeqEqual
  <2>7. 1 + 1 = 2
    OBVIOUS
  <2>8. QED
    BY <2>6, <2>7 DEF a, b
<1> HIDE DEF n, bytes
<1> DEFINE name == Decode(SubSeq(bytes, 2, n + 1))
<1>7. name = Returns(entry[1])
  BY <1>2, <1>6
<1>8. state.ok /\ state.value = <<entries, bytes>>
  BY ReturnsValue
<1> HIDE DEF state
<1>9. state.value[1] = entries /\ state.value[2] = bytes
  BY <1>8
<1>10. ReadStatus(state) =
         IF ~state.ok \/ bytes = <<>> \/ Len(bytes) < n + 2 \/ ~name.ok THEN Raises
         ELSE Returns(<<Append(entries, <<name.value, bytes[n + 2]>>), From(bytes, n + 3)>>)
  BY <1>4, <1>9 DEF ReadStatus
<1> HIDE DEF name
<1>11. name.ok /\ name.value = entry[1]
  BY <1>7, ReturnsValue
<1>12. ~(Len(bytes) < n + 2)
  BY <1>1, <1>3
<1>13. bytes # <<>>
  <2>1. Len(bytes) >= 1
    BY <1>1, <1>3
  <2>2. QED
    BY <2>1
<1>14. <<entry[1], entry[2]>> = entry
  OBVIOUS
<1>15. ReadStatus(state) = Returns(<<Append(entries, <<name.value, bytes[n + 2]>>), From(bytes, n + 3)>>)
  BY <1>8, <1>10, <1>11, <1>12, <1>13, Zenon
<1>16. ReadStatus(state) = Returns(<<Append(entries, entry), t>>)
  BY <1>4, <1>5, <1>11, <1>14, <1>15, Zenon
<1>17. QED
  BY <1>16 DEF state, bytes

\* One more entry of a front part.
LEMMA FrontPart ==
  ASSUME NEW S, NEW s \in Seq(S)
  PROVE  /\ SubSeq(s, 1, 0) = <<>> /\ SubSeq(s, 1, Len(s)) = s
         /\ \A i \in 1 .. Len(s) : SubSeq(s, 1, i) = Append(SubSeq(s, 1, i - 1), s[i])
<1>1. Len(s) \in Nat
  BY LenProperties
<1>2. SubSeq(s, 1, Len(s)) = s
  BY <1>1, SubSeqFull
<1>3. SubSeq(s, 1, 0) = <<>>
  <2> DEFINE a == SubSeq(s, 1, 0)
  <2>1. a \in Seq(S) /\ Len(a) = 0
    <3>1. 0 \in Nat /\ 0 <= 0 /\ 0 <= Len(s) /\ 0 - 0 = 0 /\ 0 + 1 = 1
      BY <1>1
    <3>2. SubSeq(s, 0 + 1, 0) \in Seq(S) /\ Len(SubSeq(s, 0 + 1, 0)) = 0 - 0
      BY <3>1, SubSeqIs
    <3>3. QED
      BY <3>1, <3>2
  <2> HIDE DEF a
  <2>2. a = <<>>
    BY <2>1, EmptySeq
  <2>3. QED
    BY <2>2 DEF a
<1>4. ASSUME NEW i \in 1 .. Len(s)
      PROVE  SubSeq(s, 1, i) = Append(SubSeq(s, 1, i - 1), s[i])
  <2> DEFINE a == SubSeq(s, 1, i)
  <2> DEFINE b == SubSeq(s, 1, i - 1)
  <2>1. /\ i \in Nat /\ i - 1 \in Nat /\ 0 \in Nat /\ 0 <= i /\ 0 <= i - 1 /\ i <= Len(s)
        /\ i - 1 <= Len(s) /\ 0 + 1 = 1 /\ i - 0 = i /\ i - 1 - 0 = i - 1
    BY <1>1
  <2>2. /\ SubSeq(s, 0 + 1, i) \in Seq(S) /\ Len(SubSeq(s, 0 + 1, i)) = i - 0
        /\ \A k \in 1 .. i - 0 : SubSeq(s, 0 + 1, i)[k] = s[0 + k]
    BY <2>1, SubSeqIs
  <2>3. /\ SubSeq(s, 0 + 1, i - 1) \in Seq(S) /\ Len(SubSeq(s, 0 + 1, i - 1)) = i - 1 - 0
        /\ \A k \in 1 .. i - 1 - 0 : SubSeq(s, 0 + 1, i - 1)[k] = s[0 + k]
    BY <2>1, SubSeqIs
  <2>4. a \in Seq(S) /\ Len(a) = i /\ \A k \in 1 .. i : a[k] = s[k]
    BY <2>1, <2>2
  <2>5. b \in Seq(S) /\ Len(b) = i - 1 /\ \A k \in 1 .. i - 1 : b[k] = s[k]
    BY <2>1, <2>3
  <2> HIDE DEF a, b
  <2>6. s[i] \in S
    BY ElementOfSeq
  <2> DEFINE u == Append(b, s[i])
  <2>7. u \in Seq(S) /\ Len(u) = i /\ \A k \in 1 .. i : u[k] = IF k <= i - 1 THEN b[k] ELSE s[i]
    BY <2>1, <2>5, <2>6
  <2> HIDE DEF u
  <2>8. \A k \in 1 .. i : u[k] = s[k]
    <3>1. \A k \in 1 .. i : k = i \/ (k <= i - 1 /\ k \in 1 .. i - 1)
      BY <2>1
    <3>2. QED
      BY <2>1, <2>5, <2>7, <3>1
  <2>9. a = u
    BY <2>4, <2>7, <2>8, SeqEqual
  <2>10. QED
    BY <2>9 DEF a, b, u
<1>5. QED
  BY <1>2, <1>3, <1>4

\* The statuses of a heartbeat, written one after the other, are read one after the other.
Pieces(seqs, entries) ==
  /\ seqs \in Seq(Seq(Byte)) /\ Len(seqs) = Len(entries)
  /\ \A i \in 1 .. Len(entries) : StatusPiece(seqs[i], entries[i])

\* By induction over the entries: each turn of the reader takes one, and leaves the rest.
LEMMA StatusesRead ==
  ASSUME NEW entries \in Seq(Seq(Char) \X Int), NEW seqs, Pieces(seqs, entries), NEW z \in Seq(Byte)
  PROVE  ReadStatuses(Len(entries), FlattenSeq(seqs) \o z) = Returns(<<entries, z>>)
<1> DEFINE SB == Seq(Byte)
<1> DEFINE T == Seq(Char) \X Int
<1> DEFINE n == Len(entries)
<1> DEFINE all == Append(seqs, z)
<1> DEFINE rest == FlattenSeq(seqs) \o z
<1>1. /\ seqs \in Seq(SB) /\ Len(seqs) = n /\ z \in SB /\ entries \in Seq(T)
      /\ \A i \in 1 .. n : StatusPiece(seqs[i], entries[i])
  BY DEF Pieces
<1> HIDE DEF SB, T
<1>2. n \in Nat /\ \A i \in 1 .. n : entries[i] \in T
  BY <1>1, LenProperties, ElementOfSeq
<1>3. /\ all \in Seq(SB) /\ Len(all) = n + 1 /\ all[n + 1] = z
      /\ \A i \in 1 .. n : all[i] = seqs[i]
  BY <1>1, <1>2
<1>4. FlattenSeq(all) = rest
  BY <1>1, FlattenMore DEF SB
<1> HIDE DEF all, rest, n
<1>5. PICK ends : InParts(FlattenSeq(all), all, ends)
  BY <1>3, FlatInParts DEF SB
<1>6. rest \in Seq(Byte)
  BY <1>3, <1>4, FlatInParts DEF SB
<1>7. /\ ends[0] = 0 /\ ends[n + 1] = Len(rest)
      /\ \A i \in 0 .. n + 1 : ends[i] \in Nat /\ ends[i] <= Len(rest)
      /\ \A i \in 1 .. n + 1 : From(rest, ends[i - 1] + 1) = all[i] \o From(rest, ends[i] + 1)
  BY <1>3, <1>4, <1>5 DEF InParts
<1> DEFINE left == [i \in 0 .. n + 1 |-> From(rest, ends[i] + 1)]
<1>8. \A i \in 0 .. n + 1 : left[i] = From(rest, ends[i] + 1)
  OBVIOUS
<1>9. \A i \in 0 .. n + 1 : left[i] \in Seq(Byte) /\ Len(left[i]) = Len(rest) - ends[i]
  <2>1. TAKE i \in 0 .. n + 1
  <2> DEFINE m == ends[i]
  <2>2. m \in Nat /\ m <= Len(rest)
    BY <1>7
  <2>3. left[i] = From(rest, m + 1)
    BY <1>8
  <2> HIDE DEF m, left
  <2>4. From(rest, m + 1) \in Seq(Byte) /\ Len(From(rest, m + 1)) = Len(rest) - m
    BY <1>6, <2>2, FromType
  <2>5. QED
    BY <2>3, <2>4 DEF m
<1> HIDE DEF left
<1>10. /\ 0 \in 0 .. n + 1 /\ n \in 0 .. n + 1 /\ n + 1 \in 0 .. n + 1 /\ n + 1 \in 1 .. n + 1
       /\ \A i \in 1 .. n : i \in 1 .. n + 1 /\ i \in 0 .. n + 1 /\ i - 1 \in 0 .. n + 1
       /\ (n + 1) - 1 = n
  BY <1>2
<1>11. \A i \in 1 .. n : left[i - 1] = seqs[i] \o left[i]
  <2>1. TAKE i \in 1 .. n
  <2>2. From(rest, ends[i - 1] + 1) = all[i] \o From(rest, ends[i] + 1) /\ all[i] = seqs[i]
    BY <1>3, <1>7, <1>10
  <2>3. left[i - 1] = From(rest, ends[i - 1] + 1) /\ left[i] = From(rest, ends[i] + 1)
    BY <1>8, <1>10
  <2>4. QED
    BY <2>2, <2>3
<1>12. left[0] = rest
  <2>1. left[0] = From(rest, 0 + 1)
    BY <1>7, <1>8, <1>10
  <2>2. SubSeq(rest, 1, Len(rest)) = rest /\ 0 + 1 = 1
    BY <1>6, SubSeqFull
  <2>3. QED
    BY <2>1, <2>2 DEF From
<1>13. left[n] = z
  <2>1. Len(left[n + 1]) = 0 /\ left[n + 1] \in Seq(Byte)
    <3>1. Len(left[n + 1]) = Len(rest) - Len(rest) /\ left[n + 1] \in Seq(Byte)
      BY <1>7, <1>9, <1>10
    <3>2. Len(rest) \in Nat
      BY <1>6, LenProperties
    <3>3. QED
      BY <3>1, <3>2
  <2>2. left[n + 1] = <<>>
    BY <2>1, EmptySeq
  <2>3. From(rest, ends[(n + 1) - 1] + 1) = all[n + 1] \o From(rest, ends[n + 1] + 1)
    BY <1>7, <1>10
  <2>4. left[n] = z \o left[n + 1]
    BY <1>3, <1>8, <1>10, <2>3
  <2>5. z \o <<>> = z
    BY ConcatEmptySeq
  <2>6. QED
    BY <2>2, <2>4, <2>5
<1> DEFINE start == Returns(<<<<>>, rest>>)
<1> DEFINE Eqn(g) == g = [k \in 0 .. n |-> IF k = 0 THEN start ELSE ReadStatus(g[k - 1])]
<1> DEFINE g == CHOOSE g : Eqn(g)
<1>14. ReadStatuses(n, rest) = g[n]
  BY DEF ReadStatuses
<1> DEFINE u == [k \in 0 .. n |-> Returns(<<SubSeq(entries, 1, k), left[k]>>)]
<1>15. \A k \in 0 .. n : u[k] = Returns(<<SubSeq(entries, 1, k), left[k]>>)
  OBVIOUS
<1>16. u = [k \in 0 .. n |-> u[k]]
  OBVIOUS
<1>17. /\ SubSeq(entries, 1, 0) = <<>> /\ SubSeq(entries, 1, n) = entries
       /\ \A i \in 1 .. n : SubSeq(entries, 1, i) = Append(SubSeq(entries, 1, i - 1), entries[i])
  BY <1>1, FrontPart DEF n
<1> HIDE DEF u, start, g
<1>18. 0 \in 0 .. n /\ n \in 0 .. n /\ \A k \in 1 .. n : k \in 0 .. n /\ k - 1 \in 0 .. n /\ k # 0
  BY <1>2
<1>19. u[0] = start
  BY <1>12, <1>15, <1>17, <1>18, Zenon DEF start
<1>20. \A k \in 1 .. n : u[k] = ReadStatus(u[k - 1])
  <2>1. TAKE k \in 1 .. n
  <2> DEFINE done == SubSeq(entries, 1, k - 1)
  <2> DEFINE with == SubSeq(entries, 1, k)
  <2>2. u[k - 1] = Returns(<<done, seqs[k] \o left[k]>>)
    BY <1>11, <1>15, <1>18
  <2>3. u[k] = Returns(<<with, left[k]>>) /\ with = Append(done, entries[k])
    BY <1>15, <1>17, <1>18
  <2> HIDE DEF done, with
  <2>4. entries[k] \in Seq(Char) \X Int /\ StatusPiece(seqs[k], entries[k]) /\ left[k] \in Seq(Byte)
    BY <1>1, <1>2, <1>9, <1>10 DEF T
  <2>5. ReadStatus(Returns(<<done, seqs[k] \o left[k]>>)) = Returns(<<Append(done, entries[k]), left[k]>>)
    BY <2>4, StatusRead
  <2>6. QED
    BY <2>2, <2>3, <2>5, Zenon
<1>21. Eqn(u)
  <2>1. \A k \in 0 .. n : u[k] = IF k = 0 THEN start ELSE ReadStatus(u[k - 1])
    <3>1. \A k \in 0 .. n : k = 0 \/ (k # 0 /\ k \in 1 .. n)
      BY <1>2
    <3>2. QED
      BY <1>19, <1>20, <3>1
  <2>2. QED
    BY <1>16, <2>1, Zenon
<1>22. Eqn(g)
  <2> HIDE DEF Eqn
  <2>1. QED
    BY <1>21 DEF g
<1>23. g[0] = start /\ \A k \in 1 .. n : g[k] = ReadStatus(g[k - 1])
  <2>1. \A k \in 0 .. n : g[k] = IF k = 0 THEN start ELSE ReadStatus(g[k - 1])
    BY <1>22, Zenon
  <2>2. QED
    BY <1>18, <2>1
<1>24. SameStep(n, g, u)
  BY <1>20, <1>23, Zenon DEF SameStep
<1>25. g[n] = u[n]
  <2>1. g[0] = u[0]
    BY <1>19, <1>23
  <2>2. \A i \in 0 .. n : g[i] = u[i]
    BY <1>2, <1>24, <2>1, SameUpward
  <2>3. QED
    BY <1>18, <2>2
<1>26. u[n] = Returns(<<entries, z>>)
  BY <1>13, <1>15, <1>17, <1>18, Zenon
<1>27. QED
  BY <1>14, <1>25, <1>26, Zenon DEF n, rest

LEMMA TupleSix ==
  ASSUME NEW f, f = [i \in 1 .. 6 |-> f[i]]
  PROVE  f = <<f[1], f[2], f[3], f[4], f[5], f[6]>>
OBVIOUS

LEMMA ConcatThree ==
  ASSUME NEW a, NEW b, NEW c, NEW d, NEW e, NEW f
  PROVE  <<a, b, c>> \o <<d, e, f>> = <<a, b, c, d, e, f>>
<1> DEFINE X == {a, b, c, d, e, f}
<1> DEFINE s == <<a, b, c>>
<1> DEFINE t == <<d, e, f>>
<1> DEFINE u == s \o t
<1>1. /\ s \in Seq(X) /\ Len(s) = 3 /\ s[1] = a /\ s[2] = b /\ s[3] = c
      /\ t \in Seq(X) /\ Len(t) = 3 /\ t[1] = d /\ t[2] = e /\ t[3] = f
  OBVIOUS
<1> HIDE DEF s, t, X
<1>2. /\ u \in Seq(X) /\ Len(u) = 6
      /\ \A i \in 1 .. 6 : u[i] = IF i <= 3 THEN s[i] ELSE t[i - 3]
  <2>1. /\ u \in Seq(X) /\ Len(u) = Len(s) + Len(t)
        /\ \A i \in 1 .. Len(s) + Len(t) : u[i] = IF i <= Len(s) THEN s[i] ELSE t[i - Len(s)]
    BY <1>1, ConcatProperties
  <2> HIDE DEF u
  <2>2. Len(s) + Len(t) = 6 /\ Len(s) = 3
    BY <1>1
  <2>3. QED
    BY <2>1, <2>2
<1> HIDE DEF u
<1>3. u = [i \in 1 .. 6 |-> u[i]]
  BY <1>2
<1>4. u[1] = a /\ u[2] = b /\ u[3] = c
  <2>1. \A i \in 1 .. 6 : i <= 3 => u[i] = s[i]
    BY <1>2
  <2>2. 1 \in 1 .. 6 /\ 2 \in 1 .. 6 /\ 3 \in 1 .. 6 /\ 1 <= 3 /\ 2 <= 3 /\ 3 <= 3
    OBVIOUS
  <2>3. QED
    BY <1>1, <2>1, <2>2
<1>5. u[4] = d /\ u[5] = e /\ u[6] = f
  <2>1. \A i \in 1 .. 6 : ~(i <= 3) => u[i] = t[i - 3]
    BY <1>2
  <2>2. /\ 4 \in 1 .. 6 /\ 5 \in 1 .. 6 /\ 6 \in 1 .. 6 /\ ~(4 <= 3) /\ ~(5 <= 3) /\ ~(6 <= 3)
        /\ 4 - 3 = 1 /\ 5 - 3 = 2 /\ 6 - 3 = 3
    OBVIOUS
  <2>3. QED
    BY <1>1, <2>1, <2>2
<1>6. u = <<u[1], u[2], u[3], u[4], u[5], u[6]>>
  BY <1>3, TupleSix
<1>7. QED
  BY <1>4, <1>5, <1>6 DEF u, s, t

\* One state that sums up the programs.
LEMMA AggregateIs ==
  ASSUME NEW entries
  PROVE  Aggregate(entries) = IF \E i \in DOMAIN entries : entries[i][2] = 2 THEN 2
                              ELSE IF \E i \in DOMAIN entries : entries[i][2] = 1 THEN 1 ELSE 0
BY DEF Aggregate, Down, Running, NotMonitored

LEMMA ClampedType ==
  ASSUME NEW x \in Int
  PROVE  /\ Clamped(x) \in Byte
         /\ Clamped(x) = IF x < 0 THEN 0 ELSE IF x > Base - 2 THEN Base - 2 ELSE x
BY WidthAssumption DEF Clamped, Full, Byte

\* Given bytes that are a head, the pieces of the statuses and the percentage of the disk.
HeartbeatIn(bytes, head, seqs, z, v) ==
  /\ head \in Seq(Byte) /\ Len(head) = 11 /\ z \in Byte /\ Pieces(seqs, v[4])
  /\ UnpackAll(HeartbeatV2, head) = Returns(<<v[1], v[2], v[3], Len(v[4])>>)
  /\ bytes = (head \o FlattenSeq(seqs)) \o <<z>>

LEMMA HeartbeatRead ==
  ASSUME NEW v, v[4] \in Seq(Seq(Char) \X Int), NEW bytes, NEW head, NEW seqs, NEW z,
         HeartbeatIn(bytes, head, seqs, z, v)
  PROVE  UnpackHeartbeat(bytes) = Returns(<<v[1], v[2], v[3], Aggregate(v[4]), v[4], z>>)
<1> DEFINE flat == FlattenSeq(seqs)
<1> DEFINE rest == flat \o <<z>>
<1> DEFINE four == <<v[1], v[2], v[3], Len(v[4])>>
<1>1. /\ head \in Seq(Byte) /\ Len(head) = 11 /\ z \in Byte /\ Pieces(seqs, v[4])
      /\ UnpackAll(HeartbeatV2, head) = Returns(four)
      /\ bytes = (head \o flat) \o <<z>>
  BY DEF HeartbeatIn
<1>2. flat \in Seq(Byte)
  BY <1>1, FlattenType DEF Pieces
<1>3. <<z>> \in Seq(Byte) /\ <<z>> # <<>> /\ Len(<<z>>) = 1 /\ <<z>>[1] = z
  BY <1>1
<1> DEFINE last == <<z>>
<1>4. last \in Seq(Byte) /\ last # <<>> /\ Len(last) = 1 /\ last[1] = z /\ rest = flat \o last
  BY <1>3
<1>5. bytes = (head \o flat) \o last
  BY <1>1
<1> HIDE DEF last, flat, four
<1>6. bytes = head \o rest
  <2>1. Joined(head, flat, last)
    BY <1>1, <1>2, <1>4, ConcatJoined
  <2>2. (head \o flat) \o last = head \o (flat \o last)
    BY <2>1, Zenon DEF Joined
  <2>3. QED
    BY <1>5, <1>4, <2>2, Zenon
<1>7. rest \in Seq(Byte) /\ Len(rest) = Len(flat) + 1 /\ Len(flat) \in Nat
  <2>1. flat \o last \in Seq(Byte) /\ Len(flat \o last) = Len(flat) + Len(last) /\ Len(flat) \in Nat
    BY <1>2, <1>4, TwoParts, LenProperties
  <2> HIDE DEF rest
  <2>2. QED
    BY <1>4, <2>1
<1>8. ReadStatuses(Len(v[4]), rest) = Returns(<<v[4], last>>)
  <2>1. Pieces(seqs, v[4])
    BY <1>1
  <2>2. ReadStatuses(Len(v[4]), FlattenSeq(seqs) \o last) = Returns(<<v[4], last>>)
    BY <1>4, <2>1, StatusesRead
  <2>3. FlattenSeq(seqs) \o last = rest
    BY <1>4 DEF flat
  <2>4. QED
    BY <2>2, <2>3
<1> HIDE DEF rest
<1>9. InTwo(bytes, head, rest)
  <2>1. head \in Seq(Byte)
    BY <1>1
  <2>2. InTwo(head \o rest, head, rest)
    BY <1>7, <2>1, WholeInTwo
  <2>3. QED
    BY <1>6, <2>2
<1>10. /\ Len(bytes) = 11 + Len(rest) /\ UpTo(bytes, 11) = head /\ From(bytes, 11 + 1) = rest
  BY <1>1, <1>9 DEF InTwo
<1> DEFINE v2 == UnpackAll(HeartbeatV2, UpTo(bytes, 11))
<1>11. v2.value = four
  <2>1. v2 = Returns(four)
    BY <1>1, <1>10
  <2> HIDE DEF v2
  <2>2. QED
    BY <2>1, ReturnsValue
<1>12. Longer(<<v[1], v[2], v[3]>>, Len(v[4]), four)
  BY FourOf DEF four
<1>13. Front(four) = <<v[1], v[2], v[3]>> /\ Last(four) = Len(v[4])
  BY <1>12, Zenon DEF Longer
<1> DEFINE read == ReadStatuses(Last(v2.value), From(bytes, 11 + 1))
<1>14. read = Returns(<<v[4], last>>)
  BY <1>8, <1>10, <1>11, <1>13
<1>15. Len(bytes) >= 12 /\ ~(Len(bytes) < 10) /\ Len(bytes) # 10 /\ Len(bytes) # 11
  BY <1>7, <1>10
<1>16. UnpackHeartbeat(bytes) =
         IF ~read.ok THEN Raises
         ELSE Returns(Front(v2.value) \o
                <<Aggregate(read.value[1]), read.value[1],
                  IF read.value[2] = <<>> THEN 0 ELSE read.value[2][1]>>)
  BY <1>15, HeartbeatSizes DEF UnpackHeartbeat
<1> HIDE DEF read, v2
<1>17. read.ok /\ read.value = <<v[4], last>>
  BY <1>14, ReturnsValue
<1>18. read.value[1] = v[4] /\ read.value[2] = last
  BY <1>17
<1>19. (IF read.value[2] = <<>> THEN 0 ELSE read.value[2][1]) = z
  BY <1>4, <1>18
<1>20. UnpackHeartbeat(bytes) =
         Returns(<<v[1], v[2], v[3]>> \o <<Aggregate(v[4]), v[4], z>>)
  BY <1>11, <1>13, <1>16, <1>17, <1>18, <1>19, Zenon
<1>21. QED
  <2>1. <<v[1], v[2], v[3]>> \o <<Aggregate(v[4]), v[4], z>> = <<v[1], v[2], v[3], Aggregate(v[4]), v[4], z>>
    BY ConcatThree
  <2>2. QED
    BY <1>20, <2>1, Zenon

\* A heartbeat is read as it was sent, with the state that sums up the programs and a
\* percentage within its bounds (HeartbeatPayload).
LEMMA HeartbeatReturns ==
  ASSUME NEW v \in Int \X Int \X Int \X Seq(Seq(Char) \X Int) \X Int
  PROVE  VariableReturns("heartbeat", v)
<1> DEFINE n == Len(v[4])
<1> DEFINE four == <<v[1], v[2], v[3], n>>
<1> DEFINE packed == PackAll(HeartbeatV2, four)
<1> DEFINE parts == [i \in DOMAIN v[4] |-> PackStatus(v[4][i])]
<1> DEFINE seqs == Values(parts)
<1> DEFINE z == Clamped(v[5])
<1> DEFINE bytes == PackHeartbeat(v).value
<1> DEFINE meant == <<v[1], v[2], v[3], Aggregate(v[4]), v[4], z>>
<1>1. /\ PackOf("heartbeat", v) = PackHeartbeat(v)
      /\ UnpackOf("heartbeat", bytes) = UnpackHeartbeat(bytes)
  BY DEF PackOf, UnpackOf
<1>2. v[1] \in Int /\ v[2] \in Int /\ v[3] \in Int /\ v[4] \in Seq(Seq(Char) \X Int) /\ v[5] \in Int
  OBVIOUS
<1>3. Meant("heartbeat", v) = meant
  <2>1. Meant("heartbeat", v) =
         <<v[1], v[2], v[3],
           IF \E i \in DOMAIN v[4] : v[4][i][2] = 2 THEN 2
           ELSE IF \E i \in DOMAIN v[4] : v[4][i][2] = 1 THEN 1 ELSE 0,
           v[4], IF v[5] < 0 THEN 0 ELSE IF v[5] > Base - 2 THEN Base - 2 ELSE v[5]>>
    BY DEF Meant
  <2>2. z = IF v[5] < 0 THEN 0 ELSE IF v[5] > Base - 2 THEN Base - 2 ELSE v[5]
    BY <1>2, ClampedType
  <2>3. Aggregate(v[4]) = IF \E i \in DOMAIN v[4] : v[4][i][2] = 2 THEN 2
           ELSE IF \E i \in DOMAIN v[4] : v[4][i][2] = 1 THEN 1 ELSE 0
    BY AggregateIs
  <2> HIDE DEF z
  <2>4. QED
    BY <2>1, <2>2, <2>3, Zenon
<1>4. ASSUME PackHeartbeat(v).ok PROVE UnpackHeartbeat(bytes) = Returns(meant)
  <2>1. PackHeartbeat(v) =
          IF v[2] \notin 0 .. Full \/ v[3] \notin 0 .. Full \/ ~packed.ok \/ ~AllOk(parts) THEN Raises
          ELSE Returns(packed.value \o FlattenSeq(seqs) \o <<z>>)
    BY DEF PackHeartbeat
  <2>2. packed.ok /\ AllOk(parts) /\ bytes = (packed.value \o FlattenSeq(seqs)) \o <<z>>
    <3> HIDE DEF packed, parts, seqs, z
    <3>1. QED
      BY <1>4, <2>1, ReturnsValue
  <2> HIDE DEF bytes
  <2>3. n \in Nat /\ n \in Int /\ DOMAIN v[4] = 1 .. n
    BY <1>2, LenProperties
  <2>4. Fits(HeartbeatV2, four, 11, four)
    <3> HIDE DEF n
    <3>1. QED
      BY <1>2, <2>3, HeartbeatTwoFits
  <2>5. HoldsLayout(HeartbeatV2, four, packed.value)
    BY <2>2, <2>4, LayoutReturns DEF Fits
  <2>6. /\ packed.value \in Seq(Byte) /\ Len(packed.value) = 11
        /\ UnpackAll(HeartbeatV2, packed.value) = Returns(four)
    BY <2>4, <2>5 DEF HoldsLayout, Fits
  <2>7. DOMAIN parts = 1 .. n /\ \A i \in 1 .. n : parts[i] = PackStatus(v[4][i])
    BY <2>3
  <2> HIDE DEF parts
  <2>8. \A i \in 1 .. n : StatusPiece(parts[i].value, v[4][i])
    <3>1. TAKE i \in 1 .. n
    <3>2. v[4][i] \in Seq(Char) \X Int
      BY <1>2, ElementOfSeq
    <3>3. PackStatus(v[4][i]).ok
      BY <2>2, <2>7 DEF AllOk
    <3>4. StatusPiece(PackStatus(v[4][i]).value, v[4][i])
      BY <3>2, <3>3, StatusIs
    <3>5. QED
      BY <2>7, <3>4
  <2>9. seqs = [i \in 1 .. n |-> parts[i].value]
    BY <2>7 DEF Values
  <2> DEFINE SB == Seq(Byte)
  <2>10. \A i \in 1 .. n : parts[i].value \in SB
    BY <2>8 DEF StatusPiece
  <2> HIDE DEF SB, seqs
  <2>11. seqs \in Seq(SB) /\ Len(seqs) = n /\ \A i \in 1 .. n : seqs[i] = parts[i].value
    BY <2>3, <2>9, <2>10
  <2>12. Pieces(seqs, v[4])
    BY <2>8, <2>11 DEF Pieces, SB
  <2>13. z \in Byte
    BY <1>2, ClampedType
  <2> DEFINE p == packed.value
  <2>14. HeartbeatIn(bytes, p, seqs, z, v)
    <3> HIDE DEF packed, z
    <3>1. QED
      BY <2>2, <2>6, <2>12, <2>13 DEF HeartbeatIn
  <2> HIDE DEF p, z, packed
  <2>15. QED
    BY <1>2, <2>14, HeartbeatRead
<1>5. QED
  BY <1>1, <1>3, <1>4 DEF VariableReturns

-----------------------------------------------------------------------------
(* Frames and streams.                                                     *)

\* Packets and their frames.
Packet == PacketType \X Seq(Byte)
FrameHeader == <<Enum(PacketType), Num(4)>>

\* The header of a frame.
LEMMA FrameHeaderFits ==
  ASSUME NEW a \in Int, NEW b \in Int
  PROVE  Fits(FrameHeader, <<a, b>>, 5, <<a, b>>)
<1> DEFINE E == Enum(PacketType)
<1>1. /\ E \in Field /\ Num(4) \in Field /\ GivenTo(E, a) /\ GivenTo(Num(4), b)
      /\ MeantField(E, a) = a /\ MeantField(Num(4), b) = b
      /\ E.size = 1 /\ Num(4).size = 4
  BY Fields, SmallEnums, EnumTakes, NumTakes
<1>2. FrameHeader = <<E, Num(4)>>
  BY DEF FrameHeader
<1> HIDE DEF E
<1>3. Fits(<<E, Num(4)>>, <<a, b>>, E.size + Num(4).size,
           <<MeantField(E, a), MeantField(Num(4), b)>>)
  BY <1>1, LayoutTwo
<1>4. E.size + Num(4).size = 5
  BY <1>1
<1>5. QED
  BY <1>1, <1>2, <1>3, <1>4, Zenon

\* A packet that is not too long has a header.
LEMMA HeaderPacks ==
  ASSUME NEW type \in PacketType, NEW n \in 0 .. MaxPayload
  PROVE  PackAll(FrameHeader, <<type, n>>).ok
<1> DEFINE v == <<type, n>>
<1> DEFINE parts == [i \in DOMAIN FrameHeader |-> PackField(FrameHeader[i], v[i])]
<1>1. /\ DOMAIN FrameHeader = 1 .. 2 /\ FrameHeader[1] = Enum(PacketType) /\ FrameHeader[2] = Num(4)
  BY DEF FrameHeader
<1>2. v[1] = type /\ v[2] = n
  OBVIOUS
<1> HIDE DEF v
<1>3. parts[1] = PackField(Enum(PacketType), type) /\ parts[2] = PackField(Num(4), n)
  <2>1. 1 \in 1 .. 2 /\ 2 \in 1 .. 2
    OBVIOUS
  <2>2. QED
    BY <1>1, <1>2, <2>1
<1>4. PackField(Enum(PacketType), type) = Pack(type, 1)
  BY DEF PackField, Enum
<1>5. PackField(Num(4), n) = Pack(n, 4)
  BY DEF PackField, Num
<1>6. Pack(type, 1).ok
  <2>1. type \in Byte
    BY SmallEnums
  <2>2. Pack(type, 1) = Returns(<<type>>)
    BY <2>1, PackByte
  <2>3. QED
    BY <2>2, ReturnsValue
<1>7. Pack(n, 4).ok
  BY PackLength
<1>8. DOMAIN parts = 1 .. 2
  BY <1>1
<1>9. AllOk(parts)
  <2>1. \A i \in 1 .. 2 : i = 1 \/ i = 2
    OBVIOUS
  <2>2. parts[1].ok /\ parts[2].ok
    BY <1>3, <1>4, <1>5, <1>6, <1>7
  <2> HIDE DEF parts
  <2>3. QED
    BY <1>8, <2>1, <2>2 DEF AllOk
<1>10. PackAll(FrameHeader, v) = IF AllOk(parts) THEN Returns(FlattenSeq(Values(parts))) ELSE Raises
  BY DEF PackAll
<1> HIDE DEF parts
<1>11. PackAll(FrameHeader, v).ok
  BY <1>9, <1>10, ReturnsValue
<1>12. QED
  BY <1>11 DEF v

Frame(b, packet) ==
  /\ b \in Seq(Byte) /\ Len(b) = 5 + Len(packet[2]) /\ Len(packet[2]) \in Nat
  /\ UnpackHeader(UpTo(b, 5)) = Returns(<<packet[1], Len(packet[2])>>)
  /\ From(b, 6) = packet[2]

\* A packet that is not too long is framed.
LEMMA FrameIs ==
  ASSUME NEW packet \in Packet, Len(packet[2]) <= MaxPayload
  PROVE  Frame(Build(packet[1], packet[2]).value, packet)
<1> DEFINE type == packet[1]
<1> DEFINE payload == packet[2]
<1> DEFINE n == Len(payload)
<1> DEFINE two == <<type, n>>
<1> DEFINE packed == PackAll(FrameHeader, two)
<1> DEFINE head == packed.value
<1>1. type \in PacketType /\ payload \in Seq(Byte)
  BY DEF Packet
<1>2. n \in 0 .. MaxPayload /\ n \in Nat /\ n \in Int /\ type \in Int
  <2>1. type \in Int
    BY <1>1 DEF PacketType
  <2>2. Len(payload) \in Nat
    BY <1>1, LenProperties
  <2>3. MaxPayload \in Nat
    BY WidthAssumption
  <2>4. QED
    BY <2>1, <2>2, <2>3
<1> HIDE DEF type, payload
<1>3. packed.ok
  <2> HIDE DEF n
  <2>1. QED
    BY <1>1, <1>2, HeaderPacks
<1>4. Fits(FrameHeader, two, 5, two)
  <2> HIDE DEF n
  <2>1. QED
    BY <1>2, FrameHeaderFits
<1>5. two[2] = n
  OBVIOUS
<1> HIDE DEF two
<1>6. HoldsLayout(FrameHeader, two, head)
  BY <1>3, <1>4, LayoutReturns DEF Fits
<1>7. head \in Seq(Byte) /\ Len(head) = 5 /\ UnpackAll(FrameHeader, head) = Returns(two)
  BY <1>4, <1>6 DEF HoldsLayout, Fits
<1>8. PackHeader(type, n) = packed
  <2>1. ~(n > MaxPayload)
    BY <1>2, WidthAssumption
  <2> HIDE DEF n
  <2>2. QED
    BY <2>1 DEF PackHeader, FrameHeader, two
<1>9. Build(type, payload) = IF packed.ok THEN Returns(packed.value \o payload) ELSE Raises
  BY <1>8 DEF Build
<1> HIDE DEF packed
<1>10. Build(type, payload).value = head \o payload
  BY <1>3, <1>9, ReturnsValue
<1> HIDE DEF head
<1> DEFINE b == head \o payload
<1>11. InTwo(b, head, payload)
  BY <1>1, <1>7, WholeInTwo
<1>12. /\ b \in Seq(Byte) /\ Len(b) = 5 + n /\ UpTo(b, 5) = head /\ From(b, 5 + 1) = payload
  BY <1>7, <1>11 DEF InTwo
<1> HIDE DEF b
<1>13. UnpackHeader(UpTo(b, 5)) = Returns(two)
  <2> DEFINE r == UnpackAll(FrameHeader, UpTo(b, 5))
  <2>1. UnpackHeader(UpTo(b, 5)) = IF r.ok /\ r.value[2] <= MaxPayload THEN r ELSE Raises
    BY DEF UnpackHeader, FrameHeader
  <2>2. r = Returns(two)
    BY <1>7, <1>12
  <2> HIDE DEF r
  <2>3. r.ok /\ r.value = two
    BY <2>2, ReturnsValue
  <2>4. r.value[2] <= MaxPayload
    BY <1>2, <1>5, <2>3
  <2>5. QED
    BY <2>1, <2>2, <2>3, <2>4
<1>14. Frame(b, packet)
  <2>1. 5 + 1 = 6
    OBVIOUS
  <2>2. QED
    BY <1>2, <1>12, <1>13, <2>1 DEF Frame, type, payload, two
<1>15. QED
  BY <1>10, <1>14 DEF b, type, payload

-----------------------------------------------------------------------------

LEMMA UpToSame ==
  ASSUME NEW s \in Seq(Byte), NEW t \in Seq(Byte), NEW k \in Nat, k <= Len(s), k <= Len(t),
         \A i \in 1 .. k : s[i] = t[i]
  PROVE  UpTo(s, k) = UpTo(t, k)
<1> DEFINE a == UpTo(s, k)
<1> DEFINE b == UpTo(t, k)
<1>1. Len(s) \in Nat /\ Len(t) \in Nat
  BY LenProperties
<1>2. (IF k < Len(s) THEN k ELSE Len(s)) = k /\ (IF k < Len(t) THEN k ELSE Len(t)) = k
  BY <1>1
<1>3. a \in Seq(Byte) /\ Len(a) = k /\ \A i \in 1 .. k : a[i] = s[i]
  BY <1>2, UpToType
<1>4. b \in Seq(Byte) /\ Len(b) = k /\ \A i \in 1 .. k : b[i] = t[i]
  BY <1>2, UpToType
<1> HIDE DEF a, b
<1>5. a = b
  BY <1>3, <1>4, SeqEqual
<1>6. QED
  BY <1>5 DEF a, b

\* One turn of the loop: a frame is there, only a part of one, or nothing.
At(m, done) == [from |-> m + 1, packets |-> done]

LEMMA AtIs ==
  ASSUME NEW m, NEW done
  PROVE  At(m, done).from = m + 1 /\ At(m, done).packets = done
BY DEF At

IsJoined(s, b, t) == s = b \o t /\ t \in Seq(Byte)

\* A turn of the receive loop takes the packet that is there,
LEMMA ReceiveWhole ==
  ASSUME NEW stream \in Seq(Byte), NEW m \in Nat, NEW done, NEW packet \in Packet,
         NEW b, Frame(b, packet), NEW t, IsJoined(From(stream, m + 1), b, t)
  PROVE  Receive(stream, At(m, done)) = At(m + Len(b), Append(done, packet))
<1> DEFINE n == Len(packet[2])
<1> DEFINE rest == b \o t
<1> DEFINE head == UnpackHeader(UpTo(rest, 5))
<1>0. From(stream, m + 1) = b \o t /\ t \in Seq(Byte)
  BY DEF IsJoined
<1>1. b \in Seq(Byte) /\ Len(b) = 5 + n /\ n \in Nat /\ Len(t) \in Nat
  BY <1>0, LenProperties DEF Frame
<1>2. UnpackHeader(UpTo(b, 5)) = Returns(<<packet[1], n>>) /\ From(b, 6) = packet[2]
  BY DEF Frame
<1> HIDE DEF n
<1>3. rest \in Seq(Byte) /\ Len(rest) = Len(b) + Len(t)
  BY <1>0, <1>1, TwoParts
<1>4. \A i \in 1 .. Len(b) : rest[i] = b[i]
  BY <1>0, <1>1
<1> HIDE DEF rest
<1>5. UpTo(rest, 5) = UpTo(b, 5)
  <2>1. 5 \in Nat /\ 5 <= Len(rest) /\ 5 <= Len(b) /\ \A i \in 1 .. 5 : i \in 1 .. Len(b)
    BY <1>1, <1>3
  <2>2. \A i \in 1 .. 5 : rest[i] = b[i]
    BY <1>4, <2>1
  <2>3. QED
    BY <1>1, <1>3, <2>1, <2>2, UpToSame
<1>6. head = Returns(<<packet[1], n>>)
  BY <1>2, <1>5
<1>7. Receive(stream, At(m, done)) =
        IF Len(rest) < 5 \/ ~head.ok \/ Len(rest) < 5 + head.value[2] THEN At(m, done)
        ELSE [from |-> (m + 1) + 5 + head.value[2],
              packets |-> Append(done, <<head.value[1], SubSeq(rest, 6, 5 + head.value[2])>>)]
  <2>1. From(stream, m + 1) = rest
    BY <1>0 DEF rest
  <2>2. QED
    BY <2>1, AtIs DEF Receive
<1> HIDE DEF head
<1>8. head.ok /\ head.value = <<packet[1], n>>
  BY <1>6, ReturnsValue
<1>9. head.value[1] = packet[1] /\ head.value[2] = n
  BY <1>8
<1>10. ~(Len(rest) < 5) /\ ~(Len(rest) < 5 + n)
  BY <1>1, <1>3
<1>11. SubSeq(rest, 6, 5 + n) = packet[2]
  <2> DEFINE c == SubSeq(rest, 5 + 1, 5 + n)
  <2> DEFINE d == SubSeq(b, 5 + 1, 5 + n)
  <2> DEFINE k == 5 + n
  <2>1. 5 \in Nat /\ k \in Nat /\ 5 <= k /\ k <= Len(rest) /\ k <= Len(b) /\ 5 + 1 = 6
    BY <1>1, <1>3
  <2>2. c = SubSeq(rest, 5 + 1, k) /\ d = SubSeq(b, 5 + 1, k)
    OBVIOUS
  <2> HIDE DEF c, d, k
  <2>0. rest \in Seq(Byte) /\ b \in Seq(Byte)
    BY <1>1, <1>3
  <2> HIDE DEF rest
  <2>3. /\ SubSeq(rest, 5 + 1, k) \in Seq(Byte) /\ Len(SubSeq(rest, 5 + 1, k)) = k - 5
        /\ \A i \in 1 .. k - 5 : SubSeq(rest, 5 + 1, k)[i] = rest[5 + i]
    BY <2>0, <2>1, SubSeqIs
  <2>4. /\ SubSeq(b, 5 + 1, k) \in Seq(Byte) /\ Len(SubSeq(b, 5 + 1, k)) = k - 5
        /\ \A i \in 1 .. k - 5 : SubSeq(b, 5 + 1, k)[i] = b[5 + i]
    BY <2>0, <2>1, SubSeqIs
  <2>5. \A i \in 1 .. k - 5 : 5 + i \in 1 .. Len(b)
    BY <1>1, <2>1
  <2>6. \A i \in 1 .. k - 5 : c[i] = d[i]
    BY <1>4, <2>2, <2>3, <2>4, <2>5
  <2>7. c \in Seq(Byte) /\ d \in Seq(Byte) /\ Len(c) = Len(d) /\ Len(c) = k - 5
    BY <2>2, <2>3, <2>4
  <2>8. c = d
    BY <2>6, <2>7, SeqEqual
  <2>9. k = Len(b)
    BY <1>1 DEF k
  <2>10. d = From(b, 6)
    BY <2>1, <2>2, <2>9 DEF From
  <2>11. SubSeq(rest, 6, k) = packet[2]
    BY <1>2, <2>1, <2>2, <2>8, <2>10
  <2>12. QED
    BY <2>11 DEF k
<1>12. <<packet[1], packet[2]>> = packet
  BY DEF Packet
<1>13. (m + 1) + 5 + n = (m + Len(b)) + 1
  BY <1>1
<1>14. Receive(stream, At(m, done)) = [from |-> (m + Len(b)) + 1, packets |-> Append(done, packet)]
  BY <1>7, <1>8, <1>9, <1>10, <1>11, <1>12, <1>13, Zenon
<1>15. QED
  BY <1>14, Zenon DEF At

\* takes nothing when a packet is there in part,
LEMMA ReceivePart ==
  ASSUME NEW stream \in Seq(Byte), NEW m \in Nat, NEW done, NEW packet \in Packet,
         NEW b, Frame(b, packet), NEW rest \in Seq(Byte), From(stream, m + 1) = rest,
         Len(rest) < Len(b), \A i \in 1 .. Len(rest) : rest[i] = b[i]
  PROVE  Receive(stream, At(m, done)) = At(m, done)
<1> DEFINE n == Len(packet[2])
<1> DEFINE head == UnpackHeader(UpTo(rest, 5))
<1>1. b \in Seq(Byte) /\ Len(b) = 5 + n /\ n \in Nat /\ Len(rest) \in Nat
  BY LenProperties DEF Frame
<1>2. UnpackHeader(UpTo(b, 5)) = Returns(<<packet[1], n>>)
  BY DEF Frame
<1> HIDE DEF n
<1>3. Receive(stream, At(m, done)) =
        IF Len(rest) < 5 \/ ~head.ok \/ Len(rest) < 5 + head.value[2] THEN At(m, done)
        ELSE [from |-> (m + 1) + 5 + head.value[2],
              packets |-> Append(done, <<head.value[1], SubSeq(rest, 6, 5 + head.value[2])>>)]
  BY AtIs DEF Receive
<1>4. CASE Len(rest) < 5
  BY <1>3, <1>4, Zenon
<1>5. CASE ~(Len(rest) < 5)
  <2>1. 5 \in Nat /\ 5 <= Len(rest) /\ 5 <= Len(b) /\ \A i \in 1 .. 5 : i \in 1 .. Len(rest)
    BY <1>1, <1>5
  <2>2. \A i \in 1 .. 5 : rest[i] = b[i]
    BY <2>1
  <2>3. UpTo(rest, 5) = UpTo(b, 5)
    BY <1>1, <2>1, <2>2, UpToSame
  <2>4. head = Returns(<<packet[1], n>>)
    BY <1>2, <2>3
  <2> HIDE DEF head
  <2>5. head.value = <<packet[1], n>>
    BY <2>4, ReturnsValue
  <2>6. head.value[2] = n
    BY <2>5
  <2>7. Len(rest) < 5 + n
    BY <1>1
  <2>8. QED
    BY <1>3, <2>6, <2>7, Zenon
<1>6. QED
  BY <1>4, <1>5

\* and nothing at the end of the stream.
LEMMA ReceiveNothing ==
  ASSUME NEW stream, NEW m, NEW done, Len(From(stream, m + 1)) = 0
  PROVE  Receive(stream, At(m, done)) = At(m, done)
<1> DEFINE rest == From(stream, m + 1)
<1>1. Len(rest) < 5
  OBVIOUS
<1> HIDE DEF rest
<1>2. QED
  BY <1>1, AtIs DEF Receive, rest

\* A stream is the frames of its packets.
Framed(sent, packets, frames, ends) ==
  /\ frames \in Seq(Seq(Byte)) /\ Len(frames) = Len(packets)
  /\ \A i \in 1 .. Len(packets) : Frame(frames[i], packets[i])
  /\ sent \in Seq(Byte) /\ InParts(sent, frames, ends)

\* What is sent are the frames of the packets.
LEMMA SentIs ==
  ASSUME NEW packets \in Seq(Packet), \A i \in DOMAIN packets : Len(packets[i][2]) <= MaxPayload
  PROVE  \E frames, ends : Framed(Sent(packets), packets, frames, ends)
<1> DEFINE n == Len(packets)
<1> DEFINE frames == [i \in DOMAIN packets |-> Build(packets[i][1], packets[i][2]).value]
<1> DEFINE SB == Seq(Byte)
<1>1. n \in Nat /\ DOMAIN packets = 1 .. n /\ \A i \in 1 .. n : packets[i] \in Packet
  BY LenProperties, ElementOfSeq
<1> DEFINE built == [i \in 1 .. n |-> Build(packets[i][1], packets[i][2]).value]
<1>2. frames = built /\ \A i \in 1 .. n : built[i] = Build(packets[i][1], packets[i][2]).value
  BY <1>1
<1>3. Sent(packets) = FlattenSeq(frames)
  BY DEF Sent
<1>4. \A i \in 1 .. n : Frame(built[i], packets[i])
  <2>1. TAKE i \in 1 .. n
  <2>2. packets[i] \in Packet /\ Len(packets[i][2]) <= MaxPayload
    BY <1>1
  <2>3. Frame(Build(packets[i][1], packets[i][2]).value, packets[i])
    BY <2>2, FrameIs
  <2>4. QED
    BY <1>2, <2>3
<1>5. \A i \in 1 .. n : built[i] \in SB
  BY <1>4 DEF Frame
<1>6. built = [i \in 1 .. n |-> built[i]]
  OBVIOUS
<1> HIDE DEF n, frames, built, SB
<1>7. built \in Seq(SB) /\ Len(built) = n
  BY <1>1, <1>5, <1>6
<1>8. FlattenSeq(built) \in Seq(Byte) /\ \E ends : InParts(FlattenSeq(built), built, ends)
  BY <1>7, FlatInParts DEF SB
<1>9. PICK ends : InParts(FlattenSeq(built), built, ends)
  BY <1>8
<1>10. Framed(Sent(packets), packets, built, ends)
  BY <1>2, <1>3, <1>4, <1>7, <1>8, <1>9 DEF Framed, n, SB
<1>11. QED
  BY <1>10

LEMMA PartElements ==
  ASSUME NEW flat \in Seq(Byte), NEW seqs \in Seq(Seq(Byte)), NEW ends, InParts(flat, seqs, ends),
         NEW i \in 1 .. Len(seqs)
  PROVE  /\ ends[i - 1] \in Nat /\ ends[i] \in Nat /\ ends[i - 1] <= Len(flat) /\ ends[i] <= Len(flat)
         /\ seqs[i] \in Seq(Byte) /\ Len(seqs[i]) \in Nat
         /\ ends[i] = ends[i - 1] + Len(seqs[i])
         /\ \A k \in 1 .. Len(seqs[i]) : flat[ends[i - 1] + k] = seqs[i][k]
<1> DEFINE SB == Seq(Byte)
<1> DEFINE m == ends[i - 1]
<1> DEFINE l == ends[i]
<1> DEFINE b == seqs[i]
<1>1. seqs \in Seq(SB)
  OBVIOUS
<1> HIDE DEF SB
<1>2. b \in SB /\ Len(seqs) \in Nat
  BY <1>1, ElementOfSeq, LenProperties
<1>3. i \in 0 .. Len(seqs) /\ i - 1 \in 0 .. Len(seqs)
  BY <1>2
<1>4. m \in Nat /\ m <= Len(flat) /\ l \in Nat /\ l <= Len(flat)
  BY <1>3 DEF InParts
<1>5. l = m + Len(b) /\ From(flat, m + 1) = b \o From(flat, l + 1)
  BY DEF InParts
<1> HIDE DEF m, l, b
<1>6. b \in Seq(Byte) /\ Len(b) \in Nat
  <2>1. b \in Seq(Byte)
    BY <1>2 DEF SB
  <2>2. QED
    BY <2>1, LenProperties
<1>7. From(flat, l + 1) \in Seq(Byte)
  BY <1>4, FromType
<1> DEFINE c == From(flat, l + 1)
<1> DEFINE a == From(flat, m + 1)
<1>8. a = b \o c /\ c \in Seq(Byte)
  BY <1>5, <1>7
<1>9. Len(flat) - m \in Nat /\ \A k \in 1 .. Len(flat) - m : a[k] = flat[m + k]
  <2>1. Len(flat) \in Nat
    BY LenProperties
  <2>2. QED
    BY <1>4, <2>1, FromType
<1> HIDE DEF a, c
<1>10. \A k \in 1 .. Len(b) : (b \o c)[k] = b[k]
  BY <1>6, <1>8
<1>11. \A k \in 1 .. Len(b) : k \in 1 .. Len(flat) - m
  <2>1. Len(flat) \in Nat
    BY LenProperties
  <2> HIDE <1>8
  <2>2. QED
    BY <1>4, <1>5, <1>6, <2>1
<1>12. \A k \in 1 .. Len(b) : flat[m + k] = b[k]
  BY <1>8, <1>9, <1>10, <1>11
<1>13. l = m + Len(b)
  BY <1>5
<1>14. QED
  BY <1>4, <1>6, <1>12, <1>13 DEF m, l, b

-----------------------------------------------------------------------------
\* What the loop has read after a number of packets, and where it stops.
ReadUpTo(packets, ends, j) == At(ends[j], SubSeq(packets, 1, j))

Stops(frames, ends, n, last) ==
  /\ last \in 0 .. Len(frames)
  /\ \A j \in 0 .. last : ends[j] <= n
  /\ last = Len(frames) \/ ends[last + 1] > n

\* A stream that ends after n bytes ends in a frame, or behind the last.
LEMMA StopExists ==
  ASSUME NEW sent, NEW packets, NEW frames, NEW ends, Framed(sent, packets, frames, ends),
         NEW n \in 0 .. Len(sent)
  PROVE  \E last : Stops(frames, ends, n, last) /\ (n = Len(sent) => last = Len(frames))
<1> DEFINE k == Len(frames)
<1>1. k \in Nat /\ Len(sent) \in Nat
  <2>1. sent \in Seq(Byte) /\ frames \in Seq(Seq(Byte))
    BY DEF Framed
  <2>2. QED
    BY <2>1, LenProperties
<1>2. ends[0] = 0 /\ \A i \in 0 .. k : ends[i] \in Nat /\ ends[i] <= Len(sent)
  BY DEF Framed, InParts
<1> HIDE DEF k
<1> DEFINE T == {j \in 0 .. k : j = k \/ ends[j + 1] > n}
<1>3. k \in T /\ T \subseteq Nat
  BY <1>1
<1>4. \A j \in 0 .. k : j \in T <=> (j = k \/ ends[j + 1] > n)
  OBVIOUS
<1>5. \A j \in T : j \in 0 .. k
  OBVIOUS
<1> HIDE DEF T
<1>6. PICK last \in T : \A j \in T : last <= j
  BY <1>3, LeastNatural
<1>7. last \in 0 .. k /\ last \in Nat
  BY <1>1, <1>5
<1>8. \A j \in 0 .. last : ends[j] <= n
  <2>1. TAKE j \in 0 .. last
  <2>2. CASE j = 0
    BY <1>1, <1>2, <2>2
  <2>3. CASE j # 0
    <3> DEFINE i == j - 1
    <3>1. i \in 0 .. k /\ ~(last <= i) /\ i + 1 = j /\ i # k /\ j \in 0 .. k
      BY <1>1, <1>7, <2>3
    <3> HIDE DEF i
    <3>2. i \notin T
      BY <1>6, <3>1
    <3>3. ~(ends[i + 1] > n)
      BY <1>4, <3>1, <3>2
    <3>4. ends[j] \in Nat
      BY <1>2, <3>1
    <3>5. ~(ends[j] > n)
      BY <3>1, <3>3
    <3> HIDE <3>1
    <3>6. QED
      BY <1>1, <3>4, <3>5
  <2>4. QED
    BY <2>2, <2>3
<1>9. last = k \/ ends[last + 1] > n
  BY <1>4, <1>7
<1>10. Stops(frames, ends, n, last)
  BY <1>7, <1>8, <1>9 DEF Stops, k
<1>11. n = Len(sent) => last = k
  <2>1. ASSUME n = Len(sent), last # k PROVE FALSE
    <3>1. last + 1 \in 0 .. k
      BY <1>1, <1>7, <2>1
    <3>2. ends[last + 1] \in Nat /\ ends[last + 1] <= n
      BY <1>2, <2>1, <3>1
    <3>3. ends[last + 1] > n
      BY <1>9, <2>1
    <3> HIDE <3>1
    <3>4. QED
      BY <1>1, <3>2, <3>3
  <2>2. QED
    BY <2>1
<1>12. QED
  BY <1>10, <1>11 DEF k

\* The part of the stream that was received.
Received(stream, sent, n) ==
  /\ stream \in Seq(Byte) /\ Len(stream) = n /\ \A i \in 1 .. n : stream[i] = sent[i]

LEMMA ReceivedIs ==
  ASSUME NEW sent \in Seq(Byte), NEW n \in 0 .. Len(sent)
  PROVE  Received(UpTo(sent, n), sent, n)
<1>1. Len(sent) \in Nat /\ n \in Nat
  BY LenProperties
<1>2. (IF n < Len(sent) THEN n ELSE Len(sent)) = n
  BY <1>1
<1>3. QED
  BY <1>1, <1>2, UpToType DEF Received

\* The packet behind those that are read is read next.
LEMMA ReadsNext ==
  ASSUME NEW sent, NEW packets \in Seq(Packet), NEW frames, NEW ends,
         Framed(sent, packets, frames, ends), NEW n \in 0 .. Len(sent),
         NEW stream, Received(stream, sent, n), NEW j \in 1 .. Len(frames), ends[j] <= n
  PROVE  Receive(stream, ReadUpTo(packets, ends, j - 1)) = ReadUpTo(packets, ends, j)
<1> DEFINE m == ends[j - 1]
<1> DEFINE l == ends[j]
<1> DEFINE b == frames[j]
<1>1. /\ frames \in Seq(Seq(Byte)) /\ Len(frames) = Len(packets)
      /\ sent \in Seq(Byte) /\ InParts(sent, frames, ends)
  BY DEF Framed
<1>2. Frame(b, packets[j]) /\ j \in 1 .. Len(packets)
  BY DEF Framed
<1>3. packets[j] \in Packet
  BY <1>2, ElementOfSeq
<1>4. /\ m \in Nat /\ l \in Nat /\ l = m + Len(b) /\ b \in Seq(Byte) /\ Len(b) \in Nat
      /\ \A k \in 1 .. Len(b) : sent[m + k] = b[k]
  BY <1>1, PartElements
<1>5. stream \in Seq(Byte) /\ Len(stream) = n /\ \A i \in 1 .. n : stream[i] = sent[i]
  BY DEF Received
<1>6. l <= n
  OBVIOUS
<1>0. n \in Nat
  OBVIOUS
<1>7. SubSeq(packets, 1, j) = Append(SubSeq(packets, 1, j - 1), packets[j])
  BY <1>2, FrontPart
<1>8. /\ ReadUpTo(packets, ends, j - 1) = At(m, SubSeq(packets, 1, j - 1))
      /\ ReadUpTo(packets, ends, j) = At(l, SubSeq(packets, 1, j))
  BY DEF ReadUpTo
<1> HIDE DEF m, l, b
<1>9. m <= l
  <2>1. l = m + Len(b) /\ m \in Nat /\ Len(b) \in Nat
    BY <1>4
  <2>2. QED
    BY <2>1
<1>10. /\ From(stream, m + 1) = SubSeq(stream, m + 1, l) \o From(stream, l + 1)
       /\ From(stream, l + 1) \in Seq(Byte)
  <2>1. stream \in Seq(Byte) /\ m \in Nat /\ l \in Nat /\ m <= l /\ l <= Len(stream)
    BY <1>4, <1>5, <1>6, <1>9
  <2>2. QED
    BY <2>1, RestInTwo
<1>11. SubSeq(stream, m + 1, l) = b
  <2> DEFINE a == SubSeq(stream, m + 1, l)
  <2>1. stream \in Seq(Byte) /\ m \in Nat /\ l \in Nat /\ m <= l /\ l <= Len(stream)
    BY <1>4, <1>5, <1>6, <1>9
  <2>2. a \in Seq(Byte) /\ Len(a) = l - m /\ \A k \in 1 .. l - m : a[k] = stream[m + k]
    BY <2>1, SubSeqIs
  <2> HIDE DEF a
  <2>3. l - m = Len(b)
    <3>1. l = m + Len(b) /\ m \in Nat /\ Len(b) \in Nat
      BY <1>4
    <3>2. QED
      BY <3>1
  <2>4. \A k \in 1 .. Len(b) : m + k \in 1 .. n
    <3>1. m \in Nat /\ l = m + Len(b) /\ Len(b) \in Nat
      BY <1>4
    <3>2. QED
      BY <1>0, <1>6, <3>1
  <2>5. \A k \in 1 .. Len(b) : a[k] = b[k]
    BY <1>4, <1>5, <2>2, <2>3, <2>4
  <2>6. b \in Seq(Byte)
    BY <1>4
  <2>7. a = b
    BY <2>2, <2>3, <2>5, <2>6, SeqEqual
  <2>8. QED
    BY <2>7 DEF a
<1> DEFINE t == From(stream, l + 1)
<1>12. From(stream, m + 1) = b \o t /\ t \in Seq(Byte)
  BY <1>10, <1>11
<1> HIDE DEF t
<1>13. m \in Nat /\ l = m + Len(b) /\ stream \in Seq(Byte)
  BY <1>4, <1>5
<1> DEFINE done == SubSeq(packets, 1, j - 1)
<1>14. Receive(stream, At(m, done)) = At(m + Len(b), Append(done, packets[j]))
  <2> DEFINE packet == packets[j]
  <2>1. packet \in Packet /\ Frame(b, packet)
    BY <1>2, <1>3
  <2>2. m \in Nat /\ stream \in Seq(Byte)
    BY <1>13
  <2> HIDE DEF done, packet
  <2>3. Receive(stream, At(m, done)) = At(m + Len(b), Append(done, packet))
    <3>1. IsJoined(From(stream, m + 1), b, t)
      BY <1>12 DEF IsJoined
    <3>2. QED
      BY <2>1, <2>2, <3>1, ReceiveWhole
  <2>4. QED
    BY <2>3 DEF packet
<1>15. QED
  BY <1>7, <1>8, <1>13, <1>14, Zenon

\* The packet that the stream ends in is not.
LEMMA ReadsNoMore ==
  ASSUME NEW sent, NEW packets \in Seq(Packet), NEW frames, NEW ends,
         Framed(sent, packets, frames, ends), NEW n \in 0 .. Len(sent),
         NEW stream, Received(stream, sent, n), NEW last, Stops(frames, ends, n, last)
  PROVE  Receive(stream, ReadUpTo(packets, ends, last)) = ReadUpTo(packets, ends, last)
<1> DEFINE m == ends[last]
<1> DEFINE k == Len(frames)
<1> DEFINE rest == From(stream, m + 1)
<1>1. /\ frames \in Seq(Seq(Byte)) /\ k = Len(packets)
      /\ sent \in Seq(Byte) /\ InParts(sent, frames, ends)
  BY DEF Framed
<1>2. last \in 0 .. k /\ m <= n /\ (last = k \/ ends[last + 1] > n)
  <2>1. last \in 0 .. k /\ (last = k \/ ends[last + 1] > n)
    BY DEF Stops
  <2>2. last \in 0 .. last
    BY <2>1
  <2>3. QED
    BY <2>1, <2>2 DEF Stops
<1>3. k \in Nat /\ Len(sent) \in Nat /\ n \in Nat /\ last \in Nat
  <2>1. k \in Nat /\ Len(sent) \in Nat
    BY <1>1, LenProperties
  <2> HIDE DEF k
  <2>2. QED
    BY <1>2, <2>1
<1>4. m \in Nat
  BY <1>1, <1>2 DEF InParts
<1>5. stream \in Seq(Byte) /\ Len(stream) = n /\ \A i \in 1 .. n : stream[i] = sent[i]
  BY DEF Received
<1>6. rest \in Seq(Byte) /\ Len(rest) = n - m /\ \A i \in 1 .. n - m : rest[i] = stream[m + i]
  <2> HIDE DEF m
  <2>1. stream \in Seq(Byte) /\ m \in Nat /\ m <= Len(stream) /\ Len(stream) = n
    BY <1>2, <1>4, <1>5
  <2>2. /\ From(stream, m + 1) \in Seq(Byte) /\ Len(From(stream, m + 1)) = Len(stream) - m
        /\ \A i \in 1 .. Len(stream) - m : From(stream, m + 1)[i] = stream[m + i]
    BY <2>1, FromType
  <2>3. QED
    BY <2>1, <2>2
<1>7. ReadUpTo(packets, ends, last) = At(m, SubSeq(packets, 1, last))
  BY DEF ReadUpTo
<1> DEFINE done == SubSeq(packets, 1, last)
<1> HIDE DEF rest, done
<1>8. CASE last = k
  <2>1. m = Len(sent)
    BY <1>1, <1>8 DEF InParts
  <2> HIDE DEF m, k
  <2>2. Len(rest) = 0
    BY <1>2, <1>3, <1>6, <2>1
  <2>3. Receive(stream, At(m, done)) = At(m, done)
    BY <2>2, ReceiveNothing DEF rest
  <2>4. QED
    BY <1>7, <2>3 DEF done, m
<1>9. CASE last # k
  <2> DEFINE j == last + 1
  <2> DEFINE b == frames[j]
  <2>1. j \in 1 .. k /\ j - 1 = last /\ ends[j] > n
    BY <1>2, <1>3, <1>9
  <2> HIDE DEF j
  <2>2. Frame(b, packets[j]) /\ packets[j] \in Packet
    <3>1. j \in 1 .. Len(packets)
      BY <1>1, <2>1
    <3>2. QED
      BY <3>1, ElementOfSeq DEF Framed
  <2>3. /\ ends[j] \in Nat /\ ends[j] = m + Len(b) /\ b \in Seq(Byte) /\ Len(b) \in Nat
        /\ \A i \in 1 .. Len(b) : sent[m + i] = b[i]
    BY <1>1, <2>1, PartElements
  <2> DEFINE l == ends[j]
  <2>4. l \in Nat /\ l = m + Len(b) /\ Len(b) \in Nat /\ l > n
    BY <2>1, <2>3
  <2> HIDE DEF m, k, b, l
  <2>5. Len(rest) < Len(b)
    BY <1>2, <1>3, <1>4, <1>6, <2>4
  <2>6. \A i \in 1 .. Len(rest) : rest[i] = b[i]
    <3>1. \A i \in 1 .. n - m : m + i \in 1 .. n /\ i \in 1 .. Len(b)
      BY <1>2, <1>3, <1>4, <2>4
    <3>2. QED
      BY <1>5, <1>6, <2>3, <3>1
  <2>7. Receive(stream, At(m, done)) = At(m, done)
    BY <1>4, <1>5, <1>6, <2>2, <2>5, <2>6, ReceivePart DEF rest
  <2>8. QED
    BY <1>7, <2>7 DEF done, m
<1>10. QED
  BY <1>8, <1>9

\* A frame is a byte at least, so that there are turns enough.
LEMMA EndsGrow ==
  ASSUME NEW sent, NEW packets, NEW frames, NEW ends, Framed(sent, packets, frames, ends)
  PROVE  \A i \in 0 .. Len(frames) : i <= ends[i]
<1> DEFINE k == Len(frames)
<1>1. /\ frames \in Seq(Seq(Byte)) /\ k = Len(packets)
      /\ sent \in Seq(Byte) /\ InParts(sent, frames, ends)
      /\ \A i \in 1 .. k : Frame(frames[i], packets[i])
  BY DEF Framed
<1>2. k \in Nat
  BY <1>1, LenProperties
<1>3. ends[0] = 0
  BY <1>1 DEF InParts
<1>4. \A i \in 1 .. k : ends[i - 1] \in Nat /\ ends[i] \in Nat /\ ends[i] >= ends[i - 1] + 1
  <2>1. TAKE i \in 1 .. k
  <2> DEFINE m == ends[i - 1]
  <2> DEFINE l == ends[i]
  <2> DEFINE b == frames[i]
  <2>2. m \in Nat /\ l \in Nat /\ l = m + Len(b) /\ Len(b) \in Nat
    BY <1>1, PartElements
  <2>3. Len(b) = 5 + Len(packets[i][2]) /\ Len(packets[i][2]) \in Nat
    BY <1>1 DEF Frame
  <2> HIDE DEF m, l, b
  <2>4. l >= m + 1
    BY <2>2, <2>3
  <2>5. QED
    BY <2>2, <2>4 DEF m, l
<1> HIDE DEF k
<1> DEFINE T == {i \in 0 .. k : i <= ends[i]}
<1>5. 0 \in T
  BY <1>2, <1>3
<1>6. \A i \in 1 .. k : i - 1 \in T => i \in T
  <2>1. SUFFICES ASSUME NEW i \in 1 .. k, i - 1 \in T PROVE i \in T
    OBVIOUS
  <2> DEFINE m == ends[i - 1]
  <2> DEFINE l == ends[i]
  <2>2. m \in Nat /\ l \in Nat /\ l >= m + 1
    BY <1>4
  <2>3. i - 1 <= m
    BY <2>1
  <2> HIDE DEF m, l
  <2>4. i <= l /\ i \in 0 .. k
    BY <1>2, <2>2, <2>3
  <2>5. QED
    BY <2>4 DEF l
<1>7. \A i \in 0 .. k : i \in T
  <2> HIDE DEF T
  <2>1. QED
    BY <1>2, <1>5, <1>6, Upward
<1>8. QED
  BY <1>7 DEF k

\* A loop of as many turns as there are bytes reads the packets that are there whole.
LEMMA ReadIs ==
  ASSUME NEW sent, NEW packets \in Seq(Packet), NEW frames, NEW ends,
         Framed(sent, packets, frames, ends), NEW n \in 0 .. Len(sent),
         NEW stream, Received(stream, sent, n), NEW last, Stops(frames, ends, n, last)
  PROVE  Read(stream) = SubSeq(packets, 1, last)
<1> DEFINE N == Len(frames)
<1>1. N \in Nat /\ Len(sent) \in Nat /\ n \in Nat /\ ends[0] = 0
  <2>1. frames \in Seq(Seq(Byte)) /\ sent \in Seq(Byte) /\ InParts(sent, frames, ends)
    BY DEF Framed
  <2>2. N \in Nat /\ Len(sent) \in Nat
    BY <2>1, LenProperties
  <2> HIDE DEF N
  <2>3. QED
    BY <2>1, <2>2 DEF InParts
<1>2. Len(stream) = n
  BY DEF Received
<1>3. last \in 0 .. N /\ \A j \in 0 .. last : ends[j] <= n
  BY DEF Stops
<1>4. \A j \in 0 .. N : j <= ends[j]
  BY EndsGrow
<1>5. \A j \in 0 .. N : ends[j] \in Nat
  BY DEF Framed, InParts
<1> HIDE DEF N
<1>6. last \in Nat /\ last <= n
  <2>1. last <= ends[last] /\ ends[last] \in Nat
    BY <1>3, <1>4, <1>5
  <2>2. last \in Nat /\ last \in 0 .. last
    BY <1>1, <1>3
  <2>3. ends[last] <= n
    BY <1>3, <2>2
  <2>4. QED
    BY <1>1, <2>1, <2>2, <2>3
<1> DEFINE start == [from |-> 1, packets |-> <<>>]
<1> DEFINE Eqn(g) == g = [k \in 0 .. n |-> IF k = 0 THEN start ELSE Receive(stream, g[k - 1])]
<1> DEFINE g == CHOOSE g : Eqn(g)
<1>7. Read(stream) = g[n].packets
  BY <1>2 DEF Read
<1> DEFINE read(k) == IF k < last THEN k ELSE last
<1> DEFINE u == [k \in 0 .. n |-> ReadUpTo(packets, ends, read(k))]
<1>8. \A k \in 0 .. n : u[k] = ReadUpTo(packets, ends, read(k))
  OBVIOUS
<1>9. u = [k \in 0 .. n |-> u[k]]
  OBVIOUS
<1> HIDE DEF u, start, g
<1>10. 0 \in 0 .. n /\ n \in 0 .. n /\ \A k \in 1 .. n : k \in 0 .. n /\ k - 1 \in 0 .. n /\ k # 0
  BY <1>1
<1>11. read(0) = 0 /\ read(n) = last
  BY <1>1, <1>6
<1>12. \A k \in 1 .. n : \/ k - 1 < last /\ read(k - 1) = k - 1 /\ read(k) = k /\ k \in 1 .. last
                         \/ read(k - 1) = last /\ read(k) = last
  BY <1>1, <1>6
<1> HIDE DEF read
<1>13. u[0] = start
  <2>1. u[0] = ReadUpTo(packets, ends, 0)
    BY <1>8, <1>10, <1>11
  <2>2. SubSeq(packets, 1, 0) = <<>>
    BY FrontPart
  <2>3. ReadUpTo(packets, ends, 0) = [from |-> 0 + 1, packets |-> <<>>]
    BY <1>1, <2>2 DEF ReadUpTo, At
  <2>4. 0 + 1 = 1
    OBVIOUS
  <2>5. QED
    BY <2>1, <2>3, <2>4 DEF start
<1>14. \A k \in 1 .. n : u[k] = Receive(stream, u[k - 1])
  <2>1. TAKE k \in 1 .. n
  <2>2. u[k] = ReadUpTo(packets, ends, read(k)) /\ u[k - 1] = ReadUpTo(packets, ends, read(k - 1))
    BY <1>8, <1>10
  <2>3. CASE k - 1 < last /\ read(k - 1) = k - 1 /\ read(k) = k /\ k \in 1 .. last
    <3>1. k \in 1 .. Len(frames) /\ k \in 0 .. last
      BY <1>1, <1>3, <2>3 DEF N
    <3>2. ends[k] <= n
      BY <1>3, <3>1
    <3>3. Receive(stream, ReadUpTo(packets, ends, k - 1)) = ReadUpTo(packets, ends, k)
      BY <3>1, <3>2, ReadsNext
    <3>4. QED
      BY <2>2, <2>3, <3>3
  <2>4. CASE read(k - 1) = last /\ read(k) = last
    <3>1. Receive(stream, ReadUpTo(packets, ends, last)) = ReadUpTo(packets, ends, last)
      BY ReadsNoMore
    <3>2. QED
      BY <2>2, <2>4, <3>1
  <2>5. QED
    BY <1>12, <2>3, <2>4
<1>15. Eqn(u)
  <2>1. \A k \in 0 .. n : u[k] = IF k = 0 THEN start ELSE Receive(stream, u[k - 1])
    <3>1. \A k \in 0 .. n : k = 0 \/ (k # 0 /\ k \in 1 .. n)
      BY <1>1
    <3>2. QED
      BY <1>13, <1>14, <3>1
  <2>2. QED
    BY <1>9, <2>1, Zenon
<1>16. Eqn(g)
  <2> HIDE DEF Eqn
  <2>1. QED
    BY <1>15 DEF g
<1>17. g[0] = start /\ \A k \in 1 .. n : g[k] = Receive(stream, g[k - 1])
  <2>1. \A k \in 0 .. n : g[k] = IF k = 0 THEN start ELSE Receive(stream, g[k - 1])
    BY <1>16, Zenon
  <2>2. QED
    BY <1>10, <2>1
<1>18. SameStep(n, g, u)
  BY <1>14, <1>17, Zenon DEF SameStep
<1>19. g[n] = u[n]
  <2>1. g[0] = u[0]
    BY <1>13, <1>17
  <2>2. \A i \in 0 .. n : g[i] = u[i]
    BY <1>1, <1>18, <2>1, SameUpward
  <2>3. QED
    BY <1>10, <2>2
<1>20. u[n] = ReadUpTo(packets, ends, last)
  BY <1>8, <1>10, <1>11
<1>21. ReadUpTo(packets, ends, last).packets = SubSeq(packets, 1, last)
  BY AtIs DEF ReadUpTo
<1>22. QED
  BY <1>7, <1>19, <1>20, <1>21

-----------------------------------------------------------------------------
Sendable(packets) ==
  packets \in Seq(Packet) /\ \A i \in DOMAIN packets : Len(packets[i][2]) <= MaxPayload

\* A whole stream is read as what was sent.
LEMMA StreamIsRead ==
  ASSUME NEW packets, Sendable(packets)
  PROVE  Read(Sent(packets)) = packets
<1> DEFINE sent == Sent(packets)
<1>1. packets \in Seq(Packet)
  BY DEF Sendable
<1>2. PICK frames, ends : Framed(sent, packets, frames, ends)
  BY SentIs DEF Sendable
<1> HIDE DEF sent
<1>3. sent \in Seq(Byte) /\ Len(frames) = Len(packets)
  BY <1>2 DEF Framed
<1> DEFINE n == Len(sent)
<1>4. n \in 0 .. Len(sent)
  BY <1>3, LenProperties
<1>5. Received(UpTo(sent, n), sent, n)
  BY <1>3, <1>4, ReceivedIs
<1>6. UpTo(sent, n) = sent
  BY <1>3, UpToAll
<1>7. PICK last : Stops(frames, ends, n, last) /\ (n = Len(sent) => last = Len(frames))
  BY <1>2, <1>4, StopExists
<1>8. Received(sent, sent, n) /\ last = Len(packets)
  BY <1>3, <1>5, <1>6, <1>7
<1> HIDE DEF n
<1>9. Read(sent) = SubSeq(packets, 1, last)
  BY <1>1, <1>2, <1>4, <1>7, <1>8, ReadIs
<1>10. SubSeq(packets, 1, Len(packets)) = packets
  BY <1>1, FrontPart
<1>11. QED
  BY <1>8, <1>9, <1>10 DEF sent

\* What was received of a stream gives packets that were sent.
LEMMA CutStream ==
  ASSUME NEW packets, Sendable(packets), NEW n \in 0 .. Len(Sent(packets))
  PROVE  IsPrefix(Read(UpTo(Sent(packets), n)), packets)
<1> DEFINE sent == Sent(packets)
<1>1. packets \in Seq(Packet)
  BY DEF Sendable
<1>2. PICK frames, ends : Framed(sent, packets, frames, ends)
  BY SentIs DEF Sendable
<1>0. n \in 0 .. Len(sent)
  OBVIOUS
<1> HIDE DEF sent
<1>3. sent \in Seq(Byte) /\ Len(frames) = Len(packets)
  BY <1>2 DEF Framed
<1>4. Received(UpTo(sent, n), sent, n)
  BY <1>0, <1>3, ReceivedIs
<1>5. PICK last : Stops(frames, ends, n, last)
  BY <1>0, <1>2, StopExists
<1>6. last \in 0 .. Len(packets)
  BY <1>3, <1>5 DEF Stops
<1>7. Read(UpTo(sent, n)) = SubSeq(packets, 1, last)
  BY <1>0, <1>1, <1>2, <1>4, <1>5, ReadIs
<1> DEFINE a == SubSeq(packets, 1, last)
<1>8. a \in Seq(Packet) /\ Len(a) = last /\ \A i \in 1 .. last : a[i] = packets[i]
  <2>1. /\ 0 \in Nat /\ last \in Nat /\ 0 <= last /\ last <= Len(packets) /\ 0 + 1 = 1
        /\ last - 0 = last /\ \A i \in 1 .. last : 0 + i = i
    <3>1. Len(packets) \in Nat
      BY <1>1, LenProperties
    <3>2. QED
      BY <1>6, <3>1
  <2>2. /\ SubSeq(packets, 0 + 1, last) \in Seq(Packet) /\ Len(SubSeq(packets, 0 + 1, last)) = last - 0
        /\ \A i \in 1 .. last - 0 : SubSeq(packets, 0 + 1, last)[i] = packets[0 + i]
    BY <1>1, <2>1, SubSeqIs
  <2>3. QED
    BY <2>1, <2>2
<1> HIDE DEF a
<1>9. DOMAIN a = 1 .. last
  BY <1>8, LenProperties
<1>10. IsPrefix(a, packets)
  <2>1. Len(a) <= Len(packets)
    <3>1. Len(packets) \in Nat
      BY <1>1, LenProperties
    <3>2. QED
      BY <1>6, <1>8, <3>1
  <2>2. \A i \in 1 .. Len(a) : a[i] = packets[i]
    BY <1>8
  <2>3. QED
    BY <1>1, <1>8, <2>1, <2>2 DEF IsPrefix
<1>11. QED
  BY <1>7, <1>10 DEF a, sent

-----------------------------------------------------------------------------
(* The two sides agree.                                                    *)

\* A payload of fixed fields that is cut off is not unpacked.
LEMMA FixedCut ==
  ASSUME NEW layout, NEW v, Given(layout, v), PackAll(layout, v).ok,
         NEW n \in 0 .. Len(PackAll(layout, v).value) - 1
  PROVE  ~UnpackAll(layout, UpTo(PackAll(layout, v).value, n)).ok
<1> DEFINE bytes == PackAll(layout, v).value
<1>1. bytes \in Seq(Byte) /\ Len(bytes) = SizeOf(layout)
  BY LayoutReturns DEF HoldsLayout
<1>2. n \in 0 .. Len(bytes) - 1
  OBVIOUS
<1> HIDE DEF bytes
<1>3. Len(bytes) \in Nat
  BY <1>1, LenProperties
<1>4. n \in Nat /\ n < Len(bytes)
  BY <1>2, <1>3
<1>5. Len(UpTo(bytes, n)) = n
  BY <1>1, <1>4, UpToType
<1>6. Len(UpTo(bytes, n)) # SizeOf(layout)
  BY <1>1, <1>3, <1>4, <1>5
<1>7. ~UnpackAll(layout, UpTo(bytes, n)).ok
  BY <1>6, LayoutLength
<1>8. QED
  BY <1>7 DEF bytes

\* A case that was chosen is one that may be sent.
CaseIs == case \in Exchanged \/ case = NoCase

\* The three parts of PeersAgree, for a case that may be chosen.
LEMMA AllSentIsRead ==
  ASSUME CaseIs
  PROVE  SentIsRead
<1>1. CASE case = NoCase
  BY <1>1 DEF SentIsRead, NoCase
<1>2. CASE case \in Exchanged
  <2>1. ASSUME case.kind = "fixed" PROVE FixedReturns(case.of, case.value)
    <3>1. Given(case.of, case.value)
      BY <1>2, <2>1, ExchangedAssumption
    <3>2. QED
      BY <3>1, FixedIsRead
  <2>2. ASSUME case.kind = "variable" PROVE VariableReturns(case.of, case.value)
    <3> DEFINE name == case.of
    <3> DEFINE v == case.value
    <3>1. /\ name \in {"log_hist", "file_chunk", "log_real", "cmd_deploy", "cmd_ctrl", "heartbeat"}
          /\ v \in ValueOf(name)
      BY <1>2, <2>2, ExchangedAssumption
    <3> HIDE DEF name, v
    <3>2. CASE name = "log_hist"
      <4>1. v \in Seq(Char) \X Seq(Byte)
        BY <3>1, <3>2 DEF ValueOf
      <4>2. QED
        BY <3>2, <4>1, LogHistReturns DEF name, v
    <3>3. CASE name = "file_chunk"
      <4>1. v \in Int \X Seq(Byte)
        BY <3>1, <3>3 DEF ValueOf
      <4>2. QED
        BY <3>3, <4>1, FileChunkReturns DEF name, v
    <3>4. CASE name = "log_real"
      <4>1. v \in Int \X Seq(Char) \X Seq(Char)
        BY <3>1, <3>4 DEF ValueOf
      <4>2. QED
        BY <3>4, <4>1, LogRealReturns DEF name, v
    <3>5. CASE name = "cmd_deploy"
      <4>1. v \in Int \X Seq(Byte) \X Seq(Char) \X Int \X Seq(Char)
        BY <3>1, <3>5 DEF ValueOf
      <4>2. QED
        BY <3>5, <4>1, CmdDeployReturns DEF name, v
    <3>6. CASE name = "cmd_ctrl"
      <4>1. v \in Int \X Int \X Seq(Char)
        BY <3>1, <3>6 DEF ValueOf
      <4>2. QED
        BY <3>6, <4>1, CmdCtrlReturns DEF name, v
    <3>7. CASE name = "heartbeat"
      <4>1. v \in Int \X Int \X Int \X Seq(Seq(Char) \X Int) \X Int
        BY <3>1, <3>7 DEF ValueOf
      <4>2. QED
        BY <3>7, <4>1, HeartbeatReturns DEF name, v
    <3>8. QED
      BY <3>1, <3>2, <3>3, <3>4, <3>5, <3>6, <3>7
  <2>3. ASSUME case.kind = "list" PROVE ListReturns(case.of, case.value)
    <3> DEFINE layout == case.of
    <3> DEFINE vs == case.value
    <3>1. /\ layout \in Seq(Field) /\ Len(vs) \in Nat /\ DOMAIN vs = 1 .. Len(vs)
          /\ \A i \in DOMAIN vs : Given(layout, vs[i])
      BY <1>2, <2>3, ExchangedAssumption
    <3> HIDE DEF layout, vs
    <3>2. ListReturns(layout, vs)
      BY <3>1, ListIsRead
    <3>3. QED
      BY <3>2 DEF layout, vs
  <2>4. ObjectReturns(case.of, case.value)
    BY ObjectIsRead
  <2>5. ASSUME case.kind = "stream" PROVE Read(Sent(case.value)) = case.value
    <3>1. Sendable(case.value)
      BY <1>2, <2>5, ExchangedAssumption DEF Sendable, Packet
    <3>2. QED
      BY <3>1, StreamIsRead
  <2>6. QED
    BY <2>1, <2>2, <2>3, <2>4, <2>5 DEF SentIsRead
<1>3. QED
  BY <1>1, <1>2 DEF CaseIs

LEMMA NoCutIsRead ==
  ASSUME CaseIs
  PROVE  CutIsNotRead
<1>1. CASE case = NoCase
  BY <1>1 DEF CutIsNotRead, NoCase
<1>2. CASE case \in Exchanged
  <2>1. ASSUME case.kind = "fixed", PackAll(case.of, case.value).ok,
               NEW n \in 0 .. Len(PackAll(case.of, case.value).value) - 1
        PROVE  ~UnpackAll(case.of, UpTo(PackAll(case.of, case.value).value, n)).ok
    <3>1. Given(case.of, case.value)
      BY <1>2, <2>1, ExchangedAssumption
    <3>2. QED
      BY <2>1, <3>1, FixedCut
  <2>2. ASSUME case.kind = "variable", case.of \notin ShortForm, PackOf(case.of, case.value).ok,
               NEW n \in 0 .. Len(PackOf(case.of, case.value).value) - 1
        PROVE  ~UnpackOf(case.of, UpTo(PackOf(case.of, case.value).value, n)).ok
    <3> DEFINE name == case.of
    <3> DEFINE v == case.value
    <3>1. name \in {"log_hist", "file_chunk"} /\ v \in ValueOf(name)
      BY <1>2, <2>2, ExchangedAssumption DEF ShortForm
    <3>0. PackOf(name, v).ok /\ n \in 0 .. Len(PackOf(name, v).value) - 1
      BY <2>2
    <3> HIDE DEF name, v
    <3>2. CASE name = "log_hist"
      <4>1. v \in Seq(Char) \X Seq(Byte)
        BY <3>1, <3>2 DEF ValueOf
      <4>2. PackOf("log_hist", v).ok /\ n \in 0 .. Len(PackOf("log_hist", v).value) - 1
        BY <3>0, <3>2
      <4>3. ~UnpackOf("log_hist", UpTo(PackOf("log_hist", v).value, n)).ok
        BY <4>1, <4>2, LogHistCut
      <4>4. QED
        BY <3>2, <4>3 DEF name, v
    <3>3. CASE name = "file_chunk"
      <4>1. v \in Int \X Seq(Byte)
        BY <3>1, <3>3 DEF ValueOf
      <4>2. PackOf("file_chunk", v).ok /\ n \in 0 .. Len(PackOf("file_chunk", v).value) - 1
        BY <3>0, <3>3
      <4>3. ~UnpackOf("file_chunk", UpTo(PackOf("file_chunk", v).value, n)).ok
        BY <4>1, <4>2, FileChunkCut
      <4>4. QED
        BY <3>3, <4>3 DEF name, v
    <3>4. QED
      BY <3>1, <3>2, <3>3
  <2>3. ASSUME case.kind = "stream", NEW n \in 0 .. Len(Sent(case.value))
        PROVE  IsPrefix(Read(UpTo(Sent(case.value), n)), case.value)
    <3>1. Sendable(case.value)
      BY <1>2, <2>3, ExchangedAssumption DEF Sendable, Packet
    <3>2. QED
      BY <2>3, <3>1, CutStream
  <2>4. QED
    BY <2>1, <2>2, <2>3 DEF CutIsNotRead
<1>3. QED
  BY <1>1, <1>2 DEF CaseIs

LEMMA OldPeersAreRead ==
  ASSUME CaseIs
  PROVE  OldPeerIsRead
<1>1. CASE case = NoCase
  BY <1>1 DEF OldPeerIsRead, NoCase
<1>2. CASE case \in Exchanged
  <2> DEFINE v == case.value
  <2>1. ASSUME case.kind = "old_line", PackLegacyReal(v).ok,
               ~(Encode(v[2]) # <<>> /\ Len(Encode(v[2])) = (Base + 1) * (Encode(v[2])[1] + 1))
        PROVE  UnpackLogReal(PackLegacyReal(v).value) = Returns(<<0, Trimmed(v[1]), v[2]>>)
    <3>1. v \in Seq(Char) \X Seq(Char)
      BY <1>2, <2>1, ExchangedAssumption
    <3> DEFINE e == Encode(v[2])
    <3>2. ~(e # <<>> /\ Len(e) = (Base + 1) * (e[1] + 1)) /\ e = Encode(v[2])
      BY <2>1
    <3> HIDE DEF v, e
    <3>3. QED
      BY <2>1, <3>1, <3>2, OldLineIsRead
  <2>2. ASSUME case.kind = "old_log", PackAll(CmdLogLegacy, v).ok
        PROVE  UnpackCmdLog(PackAll(CmdLogLegacy, v).value) = Returns(<<v[1], Trimmed(v[2]), -1>>)
    <3>1. v \in Int \X Seq(Char)
      BY <1>2, <2>2, ExchangedAssumption
    <3> HIDE DEF v
    <3>2. QED
      BY <2>2, <3>1, OldLogIsRead
  <2>3. ASSUME case.kind = "old_beat"
        PROVE  LET v1 == PackAll(HeartbeatV1, SubSeq(v, 1, 3))
                   v2 == PackAll(HeartbeatV2, v)
               IN /\ v1.ok => UnpackHeartbeat(v1.value) = Returns(SubSeq(v, 1, 3) \o <<0, <<>>, 0>>)
                  /\ v2.ok => UnpackHeartbeat(v2.value) = Returns(v \o <<<<>>, 0>>)
    <3>1. v \in Int \X Int \X Int \X Int
      BY <1>2, <2>3, ExchangedAssumption
    <3> HIDE DEF v
    <3>2. QED
      BY <3>1, OldBeatIsRead
  <2>4. ASSUME case.kind = "old_ctrl"
        PROVE  UnpackCmdCtrl(<<v>>) = Returns(<<v, 1, <<>>>>)
    <3>1. v \in 0 .. 4
      BY <1>2, <2>4, ExchangedAssumption
    <3> HIDE DEF v
    <3>2. QED
      BY <3>1, OldCtrlIsRead
  <2>5. QED
    BY <2>1, <2>2, <2>3, <2>4, Zenon DEF OldPeerIsRead
<1>3. QED
  BY <1>1, <1>2 DEF CaseIs

\* The two sides of a connection agree on what was sent.
THEOREM PeersAgreeAlways == CaseSpec => PeersAgree
<1>1. CaseInit => CaseIs
  BY DEF CaseInit, CaseIs
<1>2. CaseIs /\ [CaseNext]_case => CaseIs'
  BY DEF CaseNext, Choose, PutAway, CaseIs
<1>3. CaseIs => SentIsRead /\ CutIsNotRead /\ OldPeerIsRead
  BY AllSentIsRead, NoCutIsRead, OldPeersAreRead
<1>4. QED
  BY <1>1, <1>2, <1>3, PTL DEF CaseSpec, PeersAgree
=============================================================================
