--------------------------- MODULE PcStateProofs ---------------------------
(***************************************************************************)
(* Proofs about PcState, for every set of pins, every debounce length and  *)
(* every cap of the counter that is not below it.                          *)
(***************************************************************************)
EXTENDS PcState, TLAPS

(* The types, and those of the environment and of the histories, which the *)
(* induction needs as well.                                                *)
TypeInv ==
    /\ TypeOK
    /\ line \in [Pins -> Levels]
    /\ run.pin \in Pins
    /\ run.level \in Levels \cup {-1}
    /\ run.agree \in 0 .. Needed + 1
    /\ run.steady \in 0 .. Needed + 1

LEMMA LongerType ==
  ASSUME NEW n \in 0 .. Needed + 1
  PROVE  Longer(n) \in 1 .. Needed + 1
  BY PcStateAssumption DEF Longer

LEMMA CountType ==
  ASSUME NEW level, stable_count \in 0 .. CountCap
  PROVE  Count(level) \in 0 .. CountCap
  BY PcStateAssumption DEF Count

LEMMA TypeInvCorrect == SafetySpec => []TypeInv
  <1>1. Init => TypeInv
    BY PcStateAssumption DEF Init, TypeInv, TypeOK, Levels
  <1>2. TypeInv /\ [Next]_vars => TypeInv'
    <2> SUFFICES ASSUME TypeInv, [Next]_vars PROVE TypeInv'
      OBVIOUS
    <2> USE DEF TypeInv, TypeOK
    <2>1. ASSUME NEW p \in Pins, LineChanges(p) PROVE TypeInv'
      BY <2>1 DEF LineChanges, Levels
    <2>2. ASSUME NEW p \in Pins, SetPin(p) PROVE TypeInv'
      BY <2>2 DEF SetPin
    <2>3. CASE ReadGpio
      BY <2>3 DEF ReadGpio
    <2>4. CASE ReadLevel
      <3>1. line[gpio] \in Levels
        OBVIOUS
      <3>2. Count(line[gpio]) \in 0 .. CountCap
        BY CountType
      <3>3. 1 \in 0 .. Needed + 1
        BY PcStateAssumption
      <3>4. /\ Longer(run.agree) \in 0 .. Needed + 1
            /\ Longer(run.steady) \in 0 .. Needed + 1
        BY LongerType, PcStateAssumption
      <3>5. QED
        BY <2>4, <3>1, <3>2, <3>3, <3>4 DEF ReadLevel
    <2>5. CASE Commit
      BY <2>5 DEF Commit, Reading
    <2>6. CASE Forget
      BY <2>6 DEF Forget
    <2>7. CASE UNCHANGED vars
      BY <2>7 DEF vars
    <2>8. QED
      BY <2>1, <2>2, <2>3, <2>4, <2>5, <2>6, <2>7 DEF Next, Task
  <1>3. QED
    BY <1>1, <1>2, PTL DEF SafetySpec

(* Every variable of the sensing task keeps to its range, and the counter  *)
(* stays at or below its cap.                                              *)
THEOREM TypeCorrect == SafetySpec => []TypeOK
  <1>1. TypeInv => TypeOK
    BY DEF TypeInv
  <1>2. QED
    BY <1>1, TypeInvCorrect, PTL

----------------------------------------------------------------------------
(* Debouncing.  stable_count counts the samples that agree with the one    *)
(* before, so that agreeing samples are one more; both are followed no     *)
(* further than the test needs.                                            *)
Agreeing == IF last = -1 THEN 0
            ELSE IF stable_count < Needed THEN stable_count + 1 ELSE Needed + 1

RunInv ==
    /\ run.level = last
    /\ run.agree = Agreeing
    /\ last = -1 => stable_count = 0
    /\ task = "commit" => last # -1

(* A sample: the first one, one that differs or one that agrees.           *)
LEMMA ReadLevelRun ==
  ASSUME TypeInv, RunInv, ReadLevel
  PROVE  RunInv'
  <1>1. line[gpio] \in {0, 1} /\ last' = line[gpio] /\ task' = "commit"
    BY DEF ReadLevel, TypeInv, TypeOK, Levels
  <1>2. run'.level = last' /\ last' # -1
    BY <1>1 DEF ReadLevel
  <1>3. run'.agree = IF last = last' THEN Longer(run.agree) ELSE 1
    BY <1>1 DEF ReadLevel, RunInv
  <1>4. stable_count' = IF last' # last THEN 0
                        ELSE IF stable_count < CountCap THEN stable_count + 1
                        ELSE stable_count
    BY <1>1 DEF ReadLevel, Count
  <1>5. stable_count \in Nat /\ stable_count <= CountCap
    BY PcStateAssumption DEF TypeInv, TypeOK
  <1>6. run'.agree = Agreeing'
    <2>1. CASE last = last'
      BY <1>2, <1>3, <1>4, <1>5, <2>1, PcStateAssumption
      DEF Agreeing, Longer, RunInv
    <2>2. CASE last # last'
      BY <1>2, <1>3, <1>4, <2>2, PcStateAssumption DEF Agreeing
    <2>3. QED
      BY <2>1, <2>2
  <1>7. QED
    BY <1>2, <1>6 DEF RunInv

(* The history of agreeing samples is what last and stable_count say it    *)
(* is, and a commit is preceded by a sample.                               *)
THEOREM RunCorrect == SafetySpec => []RunInv
  <1>1. Init => RunInv
    BY DEF Init, RunInv, Agreeing
  <1>2. TypeInv /\ RunInv /\ [Next]_vars => RunInv'
    <2> SUFFICES ASSUME TypeInv, RunInv, [Next]_vars PROVE RunInv'
      OBVIOUS
    <2>1. ASSUME NEW p \in Pins, LineChanges(p) \/ SetPin(p) PROVE RunInv'
      BY <2>1 DEF LineChanges, SetPin, RunInv, Agreeing
    <2>2. CASE ReadGpio \/ Commit
      BY <2>2 DEF ReadGpio, Commit, RunInv, Agreeing
    <2>3. CASE ReadLevel
      BY <2>3, ReadLevelRun
    <2>4. CASE Forget \/ UNCHANGED vars
      BY <2>4 DEF Forget, vars, RunInv, Agreeing
    <2>5. QED
      BY <2>1, <2>2, <2>3, <2>4 DEF Next, Task
  <1>3. QED
    BY <1>1, <1>2, TypeInvCorrect, PTL DEF SafetySpec

(* An ON or OFF is committed only when the last Needed + 1 samples agree   *)
(* on it, whichever pins they were taken from.                             *)
THEOREM CommitsAgreedHolds == SafetySpec => CommitsAgreed
  <1> DEFINE A == s_state' \notin {s_state, "UNKNOWN"} =>
                    run.agree > Needed /\ s_state' = Reading(run.level)
  <1>1. TypeInv /\ RunInv /\ [Next]_vars => [A]_vars
    <2> SUFFICES ASSUME TypeInv, RunInv, Next, s_state' \notin {s_state, "UNKNOWN"}
                 PROVE  run.agree > Needed /\ s_state' = Reading(run.level)
      OBVIOUS
    <2>1. Commit
      BY DEF Next, Task, LineChanges, SetPin, ReadGpio, ReadLevel, Forget
    <2>2. stable_count >= Needed /\ s_state' = Reading(last) /\ last # -1
      BY <2>1 DEF Commit, RunInv
    <2>3. QED
      BY <2>2, PcStateAssumption DEF RunInv, Agreeing, TypeInv, TypeOK
  <1>2. QED
    BY <1>1, TypeInvCorrect, RunCorrect, PTL DEF SafetySpec, CommitsAgreed
============================================================================
