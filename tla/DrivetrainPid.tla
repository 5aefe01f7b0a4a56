----------------------------- MODULE DrivetrainPid -----------------------------
(***************************************************************************)
(* The velocity-PID gains: Drivetrain's Config, Pending and Actual values, *)
(* the dashboard the operator edits Pending on, and the RAM and NVM of the *)
(* two motor controllers behind a serial line.  The code drives one serial *)
(* transaction at a time; the operator, a reboot of the program and a      *)
(* power cycle of the controllers interleave with them.                    *)
(*                                                                         *)
(* A transaction may be lost, and its one-byte ack may come late: then the *)
(* transaction fails, and the next one may take the late ack for its own.  *)
(***************************************************************************)
EXTENDS Integers, Sequences, FiniteSets, SerialOutcomes

CONSTANTS
    Gains,       \* velocity-PID settings that PidMatches tells apart
    ConfigGain,  \* the compiled-in setting, m_*Config
    StoredGains, \* settings that may be in the controllers' NVM at first
    ClientKeys,  \* dashboard buttons the operator uses
    EditSlots,   \* slots whose Pending/* the operator edits
    MaxPressed   \* bound: buttons that wait to be looked at

ASSUME GainsAssumption == ConfigGain \in Gains /\ StoredGains \subseteq Gains

\* Vertical M1 and M2 on controller 0x80, horizontal M1 on controller 0x81.
Slots == {"V1", "V2", "H1"}
Config == [s \in Slots |-> ConfigGain]

\* HandlePidDashboardActions looks at its buttons in this order.
ButtonOrder == <<"RefreshActual", "LoadPendingFromConfig", "LoadPendingFromActual",
                 "ApplyPendingToControllers", "WriteNVM", "ApplyAndWriteNVM">>
Buttons == {ButtonOrder[i] : i \in DOMAIN ButtonOrder}
AfterButtons == Len(ButtonOrder) + 1

ASSUME KeysAssumption == ClientKeys \subseteq Buttons /\ EditSlots \subseteq Slots
                         /\ MaxPressed \in Nat

VARIABLES
    at,          \* index of the button under test, AfterButtons after them, 0 between Periodics
    job,         \* multi-transaction operation under way, or "none"
    ops,         \* its transactions still to do before the readback
    pressed,     \* buttons that read true
    ntPending,   \* Pending/* on the dashboard
    pending,     \* m_*Pending
    actual,      \* m_*Actual
    hasActual,   \* m_hasActualPidValues; actual means nothing while it is false
    matching,    \* slots whose MatchesConfig is published true
    dirty,       \* RoboClawPID/Dirty
    applyOk,     \* m_pidLastApplyOk, published as LastApplyOk
    ram,         \* the controllers' RAM
    nvm,         \* the controllers' NVM
    stray        \* an ack of an earlier transaction is on its way to a write of a job

control == <<at, job, ops>>
gainVars == <<pending, actual, hasActual>>
shown == <<matching, dirty>>
controllers == <<ram, nvm>>
vars == <<control, pressed, ntPending, gainVars, shown, applyOk, controllers, stray>>

-----------------------------------------------------------------------------
(* Helpers.                                                                *)

\* Mutant: Pending is compared with Config.
UpdatePidMatchAndDirtyFlagsMutant ==
    /\ matching' = {s \in Slots : hasActual' /\ actual'[s] = Config[s]}
    /\ dirty' = (hasActual' /\ pending' # Config)

UpdatePidMatchAndDirtyFlags ==
    /\ matching' = {s \in Slots : hasActual' /\ actual'[s] = Config[s]}
    /\ dirty' = (hasActual' /\ pending' # actual')

\* The driver got its byte: the ack of this transaction or a stray one.  What is
\* late is followed while a write comes next: it can only fail a readback.
Acked(delivered) ==
    \E o \in Outcomes(stray, delivered) : o.ok /\ stray' = (o.late /\ Tail(ops) # <<>>)

JobOps ==
    [boot |-> <<"V1", "V2", "H1">>,
     refresh |-> <<>>,
     apply |-> <<"StopDrive", "V1", "V2", "H1">>,
     nvm |-> <<"nvm80", "nvm81">>,
     applyNvm |-> <<"StopDrive", "V1", "V2", "H1", "nvm80", "nvm81">>]

\* The motor and encoder writes before a job may have left an ack behind.
StartJob(j) == job' = j /\ ops' = JobOps[j] /\ stray' \in {FALSE, ops' # <<>>}

SlotsOf(op) == IF op = "nvm80" THEN {"V1", "V2"} ELSE {"H1"}

-----------------------------------------------------------------------------
(* Boot: the constructor.                                                  *)

Init ==
    /\ at = 0 /\ job = "boot" /\ ops = JobOps["boot"]
    /\ pressed = {} /\ ntPending = Config
    /\ pending = Config /\ actual = Config /\ hasActual = FALSE
    /\ matching = {} /\ dirty = FALSE
    /\ applyOk = FALSE
    /\ \E g \in StoredGains : nvm = [s \in Slots |-> g]
    /\ ram = nvm /\ stray \in BOOLEAN

\* The roboRIO program boots again, with or without a power cycle of the
\* controllers, which then load their NVM.
Restart ==
    /\ at' = 0 /\ job' = "boot" /\ ops' = JobOps["boot"]
    /\ pressed' \in {{}, pressed} /\ ntPending' = Config
    /\ pending' = Config /\ actual' = Config /\ hasActual' = FALSE
    /\ matching' = {} /\ dirty' = FALSE
    /\ applyOk' = FALSE
    /\ ram' \in {ram, nvm} /\ UNCHANGED nvm
    /\ stray' \in BOOLEAN

-----------------------------------------------------------------------------
(* HandlePidDashboardActions, one button after the other.                  *)

PeriodicStarts ==
    /\ at = 0 /\ job = "none" /\ at' = 1
    /\ UNCHANGED <<job, ops, pressed, ntPending, gainVars, shown, applyOk, controllers, stray>>

AtButton(key) == at \in DOMAIN ButtonOrder /\ ButtonOrder[at] = key /\ job = "none"

NotPressed ==
    /\ \E key \in Buttons \ pressed : AtButton(key)
    /\ at' = at + 1
    /\ UNCHANGED <<job, ops, pressed, ntPending, gainVars, shown, applyOk, controllers, stray>>

\* ConsumeDashboardButtonEdge returned true: the button has been cleared.
Consume(key) == AtButton(key) /\ key \in pressed /\ pressed' = pressed \ {key}

RefreshActual ==
    /\ Consume("RefreshActual") /\ at' = at + 1 /\ StartJob("refresh")
    /\ UNCHANGED <<ntPending, gainVars, shown, applyOk, controllers>>

LoadPending(key, gains) ==
    /\ Consume(key) /\ at' = at + 1
    /\ pending' = gains /\ ntPending' = gains
    /\ UNCHANGED <<actual, hasActual>> /\ UpdatePidMatchAndDirtyFlags
    /\ UNCHANGED <<job, ops, applyOk, controllers, stray>>

LoadPendingFromConfig == LoadPending("LoadPendingFromConfig", Config)

LoadPendingFromActual == hasActual /\ LoadPending("LoadPendingFromActual", actual)

LoadPendingFails ==
    /\ ~hasActual /\ Consume("LoadPendingFromActual") /\ at' = at + 1
    /\ UNCHANGED <<job, ops, ntPending, gainVars, shown, applyOk, controllers, stray>>

\* The robot is disabled and no drive test is on the dashboard.
ApplyPending(key, j) ==
    /\ Consume(key) /\ at' = at + 1 /\ StartJob(j)
    /\ UNCHANGED <<ntPending, gainVars, shown, applyOk, controllers>>

ApplyRejected(key) ==
    /\ Consume(key) /\ at' = at + 1
    /\ applyOk' = FALSE
    /\ UNCHANGED <<job, ops, ntPending, gainVars, shown, controllers, stray>>

WriteNVM ==
    /\ Consume("WriteNVM") /\ at' = at + 1 /\ StartJob("nvm")
    /\ UNCHANGED <<ntPending, gainVars, shown, applyOk, controllers>>

\* A rejected WriteNVM skips the button after it until the next Periodic.
WriteNVMRejected ==
    /\ Consume("WriteNVM") /\ at' = AfterButtons
    /\ UNCHANGED <<job, ops, ntPending, gainVars, shown, applyOk, controllers, stray>>

\* Periodic goes on: Pending is read from the dashboard only now.
PeriodicEnds ==
    /\ at = AfterButtons /\ job = "none" /\ at' = 0
    /\ pending' = ntPending /\ UNCHANGED <<actual, hasActual>>
    /\ UpdatePidMatchAndDirtyFlags
    /\ UNCHANGED <<job, ops, pressed, ntPending, applyOk, controllers, stray>>

-----------------------------------------------------------------------------
(* The transactions of a job: a chain of && that stops at the first one    *)
(* that is not acked.                                                      *)

NextOp == job # "none" /\ ops # <<>>

\* The StopDrive of an apply does not look at its acks.
StopTransactions ==
    /\ NextOp /\ Head(ops) = "StopDrive"
    /\ ops' = Tail(ops)
    /\ stray' \in BOOLEAN
    /\ UNCHANGED <<at, job, pressed, ntPending, gainVars, shown, applyOk, controllers>>

\* What a write leaves in the controllers if it is delivered.  On its way a gain
\* is a number in 16.16 fixed point, which rounds it by less than PidMatches'
\* tolerance: the members of Gains are settings up to that tolerance, and as
\* large as the format can hold.
Delivered(op) ==
    IF op \in Slots
    THEN ram' = [ram EXCEPT ![op] = pending[op]] /\ UNCHANGED nvm
    ELSE nvm' = [s \in Slots |-> IF s \in SlotsOf(op) THEN ram[s] ELSE nvm[s]] /\ UNCHANGED ram

\* Mutant: a failed apply leaves LastApplyOk as it was.
JobFailsMutant ==
    /\ job' = "none" /\ ops' = <<>> /\ stray' = FALSE
    /\ applyOk' = (applyOk /\ job # "boot")

\* The chain of && stops; what was written before it stays written.
JobFails ==
    /\ job' = "none" /\ ops' = <<>> /\ stray' = FALSE
    /\ applyOk' = (applyOk /\ job = "nvm")

WriteTransaction(delivered) ==
    /\ NextOp /\ Head(ops) # "StopDrive"
    /\ IF delivered THEN Delivered(Head(ops)) ELSE UNCHANGED controllers
    /\ \/ Acked(delivered) /\ ops' = Tail(ops) /\ UNCHANGED <<job, applyOk>>
       \/ JobFails  \* no byte in time, delivered or not
    /\ UNCHANGED <<at, pressed, ntPending, gainVars, shown>>

\* RefreshPidActualFromControllers: a byte too many breaks the CRC, so an ack
\* that comes late can only fail the readback.
ReadbackOk ==
    /\ job # "none" /\ ops = <<>> /\ job' = "none"
    /\ actual' = ram /\ hasActual' = TRUE /\ UNCHANGED pending
    /\ UpdatePidMatchAndDirtyFlags
    /\ applyOk' = (applyOk \/ job \in {"boot", "apply", "applyNvm"})
    /\ stray' = FALSE
    /\ UNCHANGED <<at, ops, pressed, ntPending, controllers>>

\* Mutant: the results of the reads are not looked at, so that the gains a
\* PIDReadResult is built with become Actual.
ReadbackFailsMutant ==
    /\ job # "none" /\ ops = <<>> /\ job' = "none"
    /\ hasActual' = TRUE /\ actual' = [s \in Slots |-> "default"] /\ UNCHANGED pending
    /\ UpdatePidMatchAndDirtyFlags
    /\ applyOk' = (applyOk \/ job \in {"boot", "apply", "applyNvm"})
    /\ stray' = FALSE
    /\ UNCHANGED <<at, ops, pressed, ntPending, controllers>>

\* Boot counts an apply as good that it could not read back.  The Actual values
\* are not read before the next readback has filled them.
ReadbackFails ==
    /\ job # "none" /\ ops = <<>> /\ job' = "none"
    /\ hasActual' = FALSE /\ actual' = Config /\ UNCHANGED <<pending, shown>>
    /\ applyOk' = (job = "boot" \/ (applyOk /\ job \in {"refresh", "nvm"}))
    /\ stray' = FALSE
    /\ UNCHANGED <<at, ops, pressed, ntPending, controllers>>

-----------------------------------------------------------------------------
(* The operator at the dashboard.                                          *)

Press(key) ==
    /\ key \notin pressed /\ Cardinality(pressed) < MaxPressed
    /\ pressed' = pressed \cup {key}
    /\ UNCHANGED <<control, ntPending, gainVars, shown, applyOk, controllers, stray>>

EditPending(s, g) ==
    /\ ntPending' = [ntPending EXCEPT ![s] = g]
    /\ UNCHANGED <<control, pressed, gainVars, shown, applyOk, controllers, stray>>

CodeStep ==
    \/ PeriodicStarts \/ NotPressed \/ PeriodicEnds
    \/ RefreshActual \/ LoadPendingFromConfig \/ LoadPendingFromActual \/ LoadPendingFails
    \/ ApplyPending("ApplyPendingToControllers", "apply")
    \/ ApplyPending("ApplyAndWriteNVM", "applyNvm")
    \/ \E key \in {"ApplyPendingToControllers", "ApplyAndWriteNVM"} : ApplyRejected(key)
    \/ WriteNVM \/ WriteNVMRejected
    \/ StopTransactions
    \/ \E delivered \in BOOLEAN : WriteTransaction(delivered)
    \/ ReadbackOk \/ ReadbackFails

Next ==
    \/ CodeStep
    \/ \E key \in ClientKeys : Press(key)
    \/ \E s \in EditSlots, g \in Gains : EditPending(s, g)
    \/ Restart

Spec == Init /\ [][Next]_vars

-----------------------------------------------------------------------------
(* Properties.                                                             *)

TypeOK ==
    /\ at \in 0 .. AfterButtons
    /\ job \in DOMAIN JobOps \cup {"none"}
    /\ job = "none" => ops = <<>>
    /\ pressed \subseteq Buttons
    /\ {ntPending, pending, actual, ram, nvm} \subseteq [Slots -> Gains]
    /\ matching \subseteq Slots
    /\ {hasActual, dirty, applyOk, stray} \subseteq BOOLEAN

\* What the operator relies on: as long as LastApplyOk is published true and a
\* readback has succeeded, Actual/* is what the controllers run on, whatever
\* transaction of an apply was lost and whatever ack came late.
ActualIsTrue == job = "none" /\ applyOk /\ hasActual => actual = ram

\* Under the same condition the flags tell the truth between two Periodics:
\* Dirty is false only if the controllers run on Pending as last read, and
\* MatchesConfig is true for exactly the slots that run on Config.
FlagsAreTrue ==
    at = 0 /\ job = "none" /\ applyOk /\ hasActual =>
      /\ dirty <=> pending # ram
      /\ matching = {s \in Slots : ram[s] = Config[s]}

\* Once the constructor has run, and as long as no operator applies anything
\* else, the controllers run on Config: "This ensures consistent velocity
\* control regardless of what is in NVM".
BootEnsuresConfig == job = "none" => ram = Config

=============================================================================
