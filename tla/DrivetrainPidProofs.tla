-------------------------- MODULE DrivetrainPidProofs --------------------------
(***************************************************************************)
(* Theorems about DrivetrainPid, for any gains, any buttons and any number *)
(* of presses: type correctness, and that the dashboard tells the truth.   *)
(***************************************************************************)
EXTENDS DrivetrainPid, TLAPS

GainMap == [Slots -> Gains]

\* The steps that leave the controllers, the gains and what is shown alone.
ControlStep ==
    \/ PeriodicStarts \/ NotPressed
    \/ RefreshActual \/ LoadPendingFails
    \/ ApplyPending("ApplyPendingToControllers", "apply")
    \/ ApplyPending("ApplyAndWriteNVM", "applyNvm")
    \/ \E key \in {"ApplyPendingToControllers", "ApplyAndWriteNVM"} : ApplyRejected(key)
    \/ WriteNVM \/ WriteNVMRejected
    \/ StopTransactions
    \/ \E key \in ClientKeys : Press(key)

(***************************************************************************)
(* Type correctness.                                                       *)
(***************************************************************************)

LEMMA ConfigType == Config \in GainMap
BY GainsAssumption DEF Config, GainMap

LEMMA ButtonTypes ==
    /\ AfterButtons = 7 /\ DOMAIN ButtonOrder = 1 .. 6
    /\ Buttons = {"RefreshActual", "LoadPendingFromConfig", "LoadPendingFromActual",
                  "ApplyPendingToControllers", "WriteNVM", "ApplyAndWriteNVM"}
BY DEF AfterButtons, ButtonOrder, Buttons

LEMMA InitTypes == Init => TypeOK
<1> SUFFICES ASSUME Init PROVE TypeOK
  OBVIOUS
<1>1. {ntPending, pending, actual, ram, nvm} \subseteq [Slots -> Gains]
  <2>1. PICK g \in Gains : nvm = [s \in Slots |-> g]
    BY GainsAssumption DEF Init
  <2> QED
    BY <2>1, ConfigType DEF Init, GainMap
<1>2. job \in DOMAIN JobOps \cup {"none"} /\ job # "none"
  BY DEF Init, JobOps
<1>3. {hasActual, dirty, applyOk, stray} \subseteq BOOLEAN
  BY DEF Init
<1> QED
  BY <1>1, <1>2, <1>3, ButtonTypes DEF Init, TypeOK

\* The part of the types that a control step leaves alone.
GainTypes ==
    /\ {ntPending, pending, actual, ram, nvm} \subseteq [Slots -> Gains]
    /\ matching \subseteq Slots
    /\ {hasActual, dirty} \subseteq BOOLEAN

LEMMA ControlStepTypes ==
    ASSUME TypeOK, ControlStep
    PROVE  TypeOK'
<1> USE ButtonTypes DEF control, gainVars, shown, controllers
<1>1. GainTypes'
  BY DEF TypeOK, GainTypes, ControlStep, PeriodicStarts, NotPressed, RefreshActual, LoadPendingFails,
         ApplyPending, ApplyRejected, WriteNVM, WriteNVMRejected, StopTransactions, Press
<1>2. at' \in 0 .. AfterButtons
  BY DEF TypeOK, ControlStep, PeriodicStarts, NotPressed, RefreshActual, LoadPendingFails,
         ApplyPending, ApplyRejected, WriteNVM, WriteNVMRejected, StopTransactions, Press,
         AtButton, Consume
<1>3. pressed' \subseteq Buttons
  BY KeysAssumption DEF TypeOK, ControlStep, PeriodicStarts, NotPressed, RefreshActual, LoadPendingFails,
         ApplyPending, ApplyRejected, WriteNVM, WriteNVMRejected, StopTransactions, Press,
         AtButton, Consume
<1>4. job' \in DOMAIN JobOps \cup {"none"} /\ (job' = "none" => ops' = <<>>)
  <2>1. CASE \E j \in {"refresh", "apply", "applyNvm", "nvm"} : StartJob(j)
    BY <2>1 DEF StartJob, JobOps
  <2>2. CASE job' = job /\ (ops' = ops \/ NextOp)
    BY <2>2 DEF TypeOK, NextOp
  <2> QED
    BY <2>1, <2>2 DEF ControlStep, PeriodicStarts, NotPressed, RefreshActual, LoadPendingFails,
         ApplyPending, ApplyRejected, WriteNVM, WriteNVMRejected, StopTransactions, Press
<1>5. applyOk' \in BOOLEAN /\ stray' \in BOOLEAN
  BY DEF TypeOK, ControlStep, PeriodicStarts, NotPressed, RefreshActual, LoadPendingFails,
         ApplyPending, ApplyRejected, WriteNVM, WriteNVMRejected, StopTransactions, Press, StartJob
<1> QED
  BY <1>1, <1>2, <1>3, <1>4, <1>5 DEF TypeOK, GainTypes

LEMMA FlagTypes ==
    ASSUME UpdatePidMatchAndDirtyFlags
    PROVE  matching' \subseteq Slots /\ dirty' \in BOOLEAN
BY DEF UpdatePidMatchAndDirtyFlags

LEMMA StepTypes == TypeOK /\ [Next]_vars => TypeOK'
<1> SUFFICES ASSUME TypeOK, [Next]_vars PROVE TypeOK'
  OBVIOUS
<1> USE ButtonTypes DEF control, gainVars, shown, controllers
<1>0. Config \in [Slots -> Gains]
  BY ConfigType DEF GainMap
<1>1. CASE ControlStep
  BY <1>1, ControlStepTypes
<1>2. ASSUME NEW key, NEW gains \in [Slots -> Gains], LoadPending(key, gains) PROVE TypeOK'
  <2>1. at' \in 0 .. AfterButtons /\ pressed' \subseteq Buttons
    BY <1>2 DEF LoadPending, Consume, AtButton, TypeOK
  <2> QED
    BY <1>2, <2>1, FlagTypes DEF LoadPending, TypeOK
<1>3. CASE PeriodicEnds
  BY <1>3, FlagTypes DEF PeriodicEnds, TypeOK
<1>4. ASSUME NEW delivered \in BOOLEAN, WriteTransaction(delivered) PROVE TypeOK'
  <2>1. {ram', nvm'} \subseteq [Slots -> Gains]
    <3>1. CASE ~delivered
      BY <1>4, <3>1 DEF WriteTransaction, TypeOK
    <3>2. CASE Delivered(Head(ops))
      BY <3>2 DEF Delivered, TypeOK
    <3> QED
      BY <1>4, <3>1, <3>2 DEF WriteTransaction
  <2>2. /\ job' \in DOMAIN JobOps \cup {"none"} /\ (job' = "none" => ops' = <<>>)
        /\ stray' \in BOOLEAN /\ applyOk' \in BOOLEAN
    <3>1. CASE Acked(delivered) /\ ops' = Tail(ops) /\ UNCHANGED <<job, applyOk>>
      BY <1>4, <3>1 DEF WriteTransaction, NextOp, Acked, Outcomes, TypeOK
    <3>2. CASE JobFails
      BY <3>2 DEF JobFails
    <3> QED
      BY <1>4, <3>1, <3>2 DEF WriteTransaction
  <2> QED
    BY <1>4, <2>1, <2>2 DEF WriteTransaction, TypeOK
<1>5. CASE ReadbackOk
  BY <1>5, FlagTypes DEF ReadbackOk, TypeOK
<1>6. CASE ReadbackFails
  BY <1>0, <1>6 DEF ReadbackFails, TypeOK
<1>7. ASSUME NEW s \in EditSlots, NEW g \in Gains, EditPending(s, g) PROVE TypeOK'
  <2>1. ntPending' \in [Slots -> Gains]
    BY <1>7 DEF EditPending, TypeOK
  <2> QED
    BY <1>7, <2>1 DEF EditPending, TypeOK
<1>8. CASE Restart
  <2>1. {ntPending', pending', actual', ram', nvm'} \subseteq [Slots -> Gains]
    BY <1>0, <1>8 DEF Restart, TypeOK
  <2>2. job' \in DOMAIN JobOps /\ job' # "none" /\ at' = 0 /\ pressed' \subseteq Buttons
    BY <1>8 DEF Restart, JobOps, TypeOK
  <2>3. matching' = {} /\ {hasActual', dirty', applyOk', stray'} \subseteq BOOLEAN
    BY <1>8 DEF Restart
  <2> QED
    BY <2>1, <2>2, <2>3 DEF TypeOK
<1>9. CASE UNCHANGED vars
  BY <1>9 DEF vars, TypeOK
<1> QED
  BY <1>0, <1>1, <1>2, <1>3, <1>4, <1>5, <1>6, <1>7, <1>8, <1>9
     DEF Next, CodeStep, ControlStep, LoadPendingFromConfig, LoadPendingFromActual, TypeOK

\* Every variable of the PID configuration keeps its type.
THEOREM PidTypeCorrect == Spec => []TypeOK
<1> QED
  BY InitTypes, StepTypes, PTL DEF Spec

(***************************************************************************)
(* What the dashboard shows.  Gains are written only by a job that clears  *)
(* LastApplyOk if it stops, or else reads everything back.                 *)
(***************************************************************************)

NvmOps == {<<>>, <<"nvm81">>, <<"nvm80", "nvm81">>}

\* Jobs that write no gains.
Harmless == job \in {"none", "refresh", "nvm"}

TruthInv ==
    /\ job = "refresh" => ops = <<>>
    /\ job = "nvm" => ops \in NvmOps
    /\ Harmless /\ applyOk /\ hasActual => actual = ram
    /\ hasActual => /\ dirty = (pending # actual)
                    /\ matching = {s \in Slots : actual[s] = Config[s]}

LEMMA NvmTail ==
    ASSUME NEW o \in NvmOps, o # <<>>
    PROVE  Tail(o) \in NvmOps /\ Head(o) \notin Slots
<1>1. CASE o = <<"nvm81">>
  <2>1. Tail(<<"nvm81">>) = <<>> /\ Head(<<"nvm81">>) = "nvm81"
    OBVIOUS
  <2> QED
    BY <1>1, <2>1 DEF NvmOps, Slots
<1>2. CASE o = <<"nvm80", "nvm81">>
  <2>1. Tail(<<"nvm80", "nvm81">>) = <<"nvm81">> /\ Head(<<"nvm80", "nvm81">>) = "nvm80"
    OBVIOUS
  <2> QED
    BY <1>2, <2>1 DEF NvmOps, Slots
<1> QED
  BY <1>1, <1>2 DEF NvmOps

LEMMA StepTruth == TypeOK /\ TruthInv /\ [Next]_vars => TruthInv'
<1> SUFFICES ASSUME TypeOK, TruthInv, [Next]_vars PROVE TruthInv'
  OBVIOUS
<1> USE DEF control, gainVars, shown, controllers, Harmless
<1>1. CASE ControlStep
  <2>1. UNCHANGED <<gainVars, shown, ram>> /\ (applyOk' => applyOk)
    BY <1>1 DEF ControlStep, PeriodicStarts, NotPressed, RefreshActual, LoadPendingFails,
         ApplyPending, ApplyRejected, WriteNVM, WriteNVMRejected, StopTransactions, Press, TypeOK
  <2>2. CASE /\ job = "none"
             /\ \E j \in {"refresh", "apply", "applyNvm", "nvm"} : StartJob(j)
    BY <2>1, <2>2 DEF TruthInv, StartJob, JobOps, NvmOps
  <2>3. CASE job' = job /\ ops' = ops
    BY <2>1, <2>3 DEF TruthInv
  <2>4. CASE StopTransactions
    <3>1. job' = job /\ job \notin {"refresh", "nvm"}
      BY <2>4, NvmTail DEF StopTransactions, NextOp, TruthInv, NvmOps
    <3> QED
      BY <2>1, <3>1 DEF TruthInv
  <2> QED
    BY <1>1, <2>2, <2>3, <2>4
       DEF ControlStep, PeriodicStarts, NotPressed, RefreshActual, LoadPendingFails,
         ApplyPending, ApplyRejected, WriteNVM, WriteNVMRejected, Press, Consume, AtButton
<1>2. ASSUME UNCHANGED <<job, ops, actual, hasActual, ram, applyOk>>, UpdatePidMatchAndDirtyFlags
      PROVE  TruthInv'
  BY <1>2 DEF TruthInv, UpdatePidMatchAndDirtyFlags
<1>3. CASE LoadPendingFromConfig \/ LoadPendingFromActual \/ PeriodicEnds
  BY <1>2, <1>3 DEF LoadPendingFromConfig, LoadPendingFromActual, LoadPending, PeriodicEnds
<1>4. ASSUME NEW delivered \in BOOLEAN, WriteTransaction(delivered) PROVE TruthInv'
  <2>1. UNCHANGED <<gainVars, shown>> /\ job # "refresh"
    BY <1>4 DEF WriteTransaction, NextOp, TruthInv
  <2>2. CASE job = "nvm"
    <3>1. Head(ops) \notin Slots /\ Tail(ops) \in NvmOps
      BY <1>4, <2>2, NvmTail DEF WriteTransaction, NextOp, TruthInv
    <3>2. ram' = ram
      BY <1>4, <3>1 DEF WriteTransaction, Delivered
    <3>3. \/ job' = "nvm" /\ ops' = Tail(ops) /\ applyOk' = applyOk
          \/ job' = "none" /\ (applyOk' => applyOk)
      BY <1>4, <2>2 DEF WriteTransaction, JobFails
    <3>4. (job' = "nvm" => ops' \in NvmOps) /\ job' # "refresh"
      <4>1. job' \in {"nvm", "none"} /\ (job' = "nvm" => ops' = Tail(ops))
        BY <3>3
      <4> QED
        BY <3>1, <4>1
    <3>5. applyOk' => applyOk
      BY <3>3, Zenon
    <3>6. applyOk' /\ hasActual' => actual' = ram'
      BY <2>1, <2>2, <3>2, <3>5 DEF TruthInv
    <3>7. hasActual' => /\ dirty' = (pending' # actual')
                        /\ matching' = {s \in Slots : actual'[s] = Config[s]}
      BY <2>1 DEF TruthInv
    <3> QED
      BY <3>4, <3>6, <3>7 DEF TruthInv
  <2>3. CASE job # "nvm"
    <3>1. job' = job \/ (job' = "none" /\ ~applyOk')
      BY <1>4, <2>3 DEF WriteTransaction, JobFails
    <3>2. job # "none"
      BY <1>4 DEF WriteTransaction, NextOp
    <3> QED
      BY <2>1, <2>3, <3>1, <3>2 DEF TruthInv
  <2> QED
    BY <2>2, <2>3
<1>5. CASE ReadbackOk
  BY <1>5 DEF ReadbackOk, TruthInv, UpdatePidMatchAndDirtyFlags
<1>6. CASE ReadbackFails
  BY <1>6 DEF ReadbackFails, TruthInv
<1>7. ASSUME NEW s \in EditSlots, NEW g \in Gains, EditPending(s, g) PROVE TruthInv'
  BY <1>7 DEF EditPending, TruthInv
<1>8. CASE Restart
  BY <1>8 DEF Restart, TruthInv
<1>9. CASE UNCHANGED vars
  BY <1>9 DEF vars, TruthInv
<1> QED
  BY <1>1, <1>3, <1>4, <1>5, <1>6, <1>7, <1>8, <1>9 DEF Next, CodeStep, ControlStep

LEMMA TruthInvariant == Spec => []TruthInv
<1>1. Init => TruthInv
  BY DEF Init, TruthInv, Harmless
<1> QED
  BY <1>1, InitTypes, StepTypes, StepTruth, PTL DEF Spec

\* Whatever transaction is lost and whatever ack comes late: with LastApplyOk
\* true and a readback done, Actual/* is what the controllers run on.
THEOREM ActualIsAlwaysTrue == Spec => []ActualIsTrue
<1>1. TruthInv => ActualIsTrue
  BY DEF TruthInv, Harmless, ActualIsTrue
<1> QED
  BY <1>1, TruthInvariant, PTL

\* Under the same condition Dirty and MatchesConfig tell the truth between two
\* Periodics.
THEOREM FlagsAreAlwaysTrue == Spec => []FlagsAreTrue
<1>1. TruthInv => FlagsAreTrue
  BY DEF TruthInv, Harmless, FlagsAreTrue
<1> QED
  BY <1>1, TruthInvariant, PTL

=============================================================================
