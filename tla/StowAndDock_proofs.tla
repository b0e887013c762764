------------------------- MODULE StowAndDock_proofs --------------------------
(***************************************************************************)
(* Proofs about StowAndDock: what a routine leaves behind, that the arm is *)
(* brought in before the lift is lowered, and how soon a cancel ends it.   *)
(* The invariants say how far each wait and update has come: what has been *)
(* paused and is given back, and what is queued but not pushed.            *)
(***************************************************************************)
EXTENDS StowAndDock, TLAPS

BooleansOK ==
    /\ result \in BOOLEAN /\ canceled \in BOOLEAN /\ due \in BOOLEAN /\ cycled \in BOOLEAN
    /\ success \in BOOLEAN /\ paused \in BOOLEAN /\ guarded \in BOOLEAN
    /\ adapter \in BOOLEAN /\ contact \in BOOLEAN /\ tilted \in BOOLEAN
    /\ was.guarded \in BOOLEAN

DataOK ==
    /\ pc \in Waits \cup Updates \cup {"idle", "attempt", "ended"}
    /\ runs \in 0 .. MaxRuns
    /\ blocked \subseteq Move
    /\ pos \in Place
    /\ target \in [lift : {Free, 0, 1}, arm : {Free, 0}]
    /\ queue \in [lift : {Free, 0, 1}, arm : {Free, 0}, wheels : Wheels]
    /\ wheels \in Wheels
    /\ gains \in [routine : Gains, firmware : Gains]
    /\ was = [gains |-> was.gains, guarded |-> was.guarded] /\ was.gains \in Gains
    /\ tries \in 0 .. Retries
    /\ after \in 0 .. MaxAfter

LEMMA TypeParts == BooleansOK /\ DataOK <=> TypeOK
<1>1. ASSUME TypeOK PROVE BooleansOK /\ DataOK
    <2>1. was \in [gains : Gains, guarded : BOOLEAN]
        BY <1>1 DEF TypeOK
    <2>2. was = [gains |-> was.gains, guarded |-> was.guarded] /\ was.gains \in Gains /\ was.guarded \in BOOLEAN
        BY <2>1
    <2>3. BooleansOK
        BY <1>1, <2>2, Zenon DEF TypeOK, BooleansOK
    <2> QED
        BY <1>1, <2>2, <2>3, Zenon DEF TypeOK, DataOK
<1>2. ASSUME BooleansOK, DataOK PROVE TypeOK
    <2>1. was \in [gains : Gains, guarded : BOOLEAN]
        <3> DEFINE a == was.gains
                   b == was.guarded
        <3>1. was = [gains |-> a, guarded |-> b] /\ a \in Gains /\ b \in BOOLEAN
            BY <1>2, Zenon DEF BooleansOK, DataOK
        <3> HIDE DEF a, b
        <3>2. [gains |-> a, guarded |-> b] \in [gains : Gains, guarded : BOOLEAN]
            BY <3>1
        <3> QED
            BY <3>1, <3>2
    <2> QED
        BY <1>2, <2>1, Zenon DEF TypeOK, BooleansOK, DataOK
<1> QED
    BY <1>1, <1>2

\* An attempt to dock is one of those it has.
Attempting == pc \in {"drive", "settle", "lock", "undock"} => tries < Retries

TInv == BooleansOK /\ DataOK /\ Attempting

-----------------------------------------------------------------------------
(* The types, one lemma for each action.                                   *)

LEMMA Truth == TRUE \in BOOLEAN /\ FALSE \in BOOLEAN
OBVIOUS

LEMMA InitTypes == Init => TInv
<1> SUFFICES ASSUME Init PROVE TInv
    OBVIOUS
<1>1. BooleansOK
    <2>1. was.guarded = guarded
        BY DEF Init
    <2> QED
        BY <2>1, Truth, Zenon DEF Init, BooleansOK
<1>2. target \in [lift : {Free, 0, 1}, arm : {Free, 0}]
    BY DEF Init
<1>3. DataOK
    BY <1>2, RetriesAssumption, BoundAssumption
       DEF Init, DataOK, Nothing, Waits, Updates, Wheels, Gains
<1>4. Attempting
    BY DEF Init, Attempting
<1> QED
    BY <1>1, <1>3, <1>4 DEF TInv

\* The last positions commanded.
LEMMA TargetTypes ==
    ASSUME NEW l \in {Free, 0, 1}, NEW a \in {Free, 0}, NEW f,
           f = [j \in Joint |-> IF j = "lift" THEN l ELSE a]
    PROVE  f \in [lift : {Free, 0, 1}, arm : {Free, 0}] /\ f.lift = l /\ f.arm = a
<1>1. f = [lift |-> l, arm |-> a]
    BY DEF Joint
<1> QED
    BY <1>1

LEMMA StartFacts ==
    ASSUME TInv, Start
    PROVE  /\ target' \in [lift : {Free, 0, 1}, arm : {Free, 0}]
           /\ target'.lift = Free /\ target'.arm = Free
           /\ runs' \in 0 .. MaxRuns /\ canceled' \in BOOLEAN /\ after' \in 0 .. MaxAfter
           /\ wheels' = "none" /\ wheels' \in Wheels /\ pos' \in Place
<1>1. target' = [j \in Joint |-> IF j = "lift" THEN Free ELSE Free]
    BY DEF Start
<1>2. /\ target' \in [lift : {Free, 0, 1}, arm : {Free, 0}]
      /\ target'.lift = Free /\ target'.arm = Free
    BY <1>1, TargetTypes
<1>3. canceled' \in BOOLEAN
    BY Truth, Zenon DEF Start
<1>4. /\ runs' \in 0 .. MaxRuns /\ after' \in 0 .. MaxAfter
      /\ wheels' = "none" /\ wheels' \in Wheels /\ pos' \in Place
    BY BoundAssumption DEF TInv, DataOK, Start, Wheels
<1> QED
    BY <1>2, <1>3, <1>4, Zenon

LEMMA StowTypes ==
    ASSUME TInv, Stow
    PROVE  TInv'
<1>1. BooleansOK'
    <2>1. canceled' \in BOOLEAN
        BY StartFacts, Zenon DEF Stow
    <2>2. /\ result' = TRUE \/ UNCHANGED result
          /\ cycled' = FALSE \/ UNCHANGED cycled
          /\ paused' = TRUE \/ UNCHANGED paused
          /\ UNCHANGED <<due, guarded, was, charger, success>>
        BY Zenon DEF Stow, Wait
    <2>3. BooleansOK
        BY Zenon DEF TInv
    <2>4. result' \in BOOLEAN /\ cycled' \in BOOLEAN /\ paused' \in BOOLEAN
        BY <2>2, <2>3, Truth, Zenon DEF BooleansOK
    <2>5. UNCHANGED <<due, guarded, was, adapter, contact, tilted, success>>
        BY <2>2, Zenon DEF charger
    <2> QED
        BY <2>1, <2>3, <2>4, <2>5, Zenon DEF BooleansOK
<1>2. queue' \in [lift : {Free, 0, 1}, arm : {Free, 0}, wheels : Wheels]
    BY DEF TInv, DataOK, Stow, MoveTo, Nothing, Wheels
<1>3. /\ pc' = pc \/ pc' \in {"prestow", "arm"}
      /\ blocked' \subseteq Move
    BY DEF Stow, Wait
<1>4. pc' \in Waits \cup Updates \cup {"idle", "attempt", "ended"}
    BY <1>3 DEF TInv, DataOK, Waits
<1>5. UNCHANGED <<gains, was, tries>>
    BY Zenon DEF Stow
<1>6. DataOK'
    BY <1>2, <1>3, <1>4, <1>5, StartFacts, Zenon DEF TInv, DataOK, Stow
<1>7. Attempting'
    BY <1>3, <1>5 DEF TInv, Attempting
<1> QED
    BY <1>1, <1>6, <1>7 DEF TInv

LEMMA DockTypes ==
    ASSUME TInv, Dock
    PROVE  TInv'
<1>1. /\ was'.gains = gains.routine /\ was'.guarded = guarded
      /\ was' = [gains |-> gains.routine, guarded |-> guarded]
    BY DEF Dock
<1>2. BooleansOK'
    BY <1>1, Truth, StartFacts, Zenon DEF TInv, BooleansOK, Dock, Update, charger
<1>3. /\ queue' \in [lift : {Free, 0, 1}, arm : {Free, 0}, wheels : Wheels]
      /\ gains' \in [routine : Gains, firmware : Gains] /\ gains.routine \in Gains
      /\ blocked' \subseteq Move /\ tries' \in 0 .. Retries
      /\ pc' = "gains" /\ pc' \in Waits \cup Updates \cup {"idle", "attempt", "ended"}
    BY RetriesAssumption
       DEF TInv, DataOK, Dock, Update, Nothing, Wheels, Gains, Waits, Updates
<1>4. was' = [gains |-> was'.gains, guarded |-> was'.guarded] /\ was'.gains \in Gains
    BY <1>1, <1>3, Zenon
<1>5. DataOK'
    BY <1>3, <1>4, StartFacts, Zenon DEF DataOK, Dock
<1>6. Attempting'
    BY <1>3 DEF Attempting
<1> QED
    BY <1>2, <1>5, <1>6 DEF TInv

\* What a cycle pushes, and where the arm can be then.
LEMMA CycleFacts ==
    ASSUME TInv, Cycle
    PROVE  /\ target' \in [lift : {Free, 0, 1}, arm : {Free, 0}]
           /\ target'.lift = Pushed("lift") /\ target'.arm = Pushed("arm")
           /\ pos' \in Place /\ pos'.arm <= pos.arm
<1>1. Pushed("lift") \in {Free, 0, 1} /\ Pushed("arm") \in {Free, 0}
    BY DEF TInv, DataOK, Pushed
<1>2. target' = [j \in Joint |-> IF j = "lift" THEN Pushed("lift") ELSE Pushed("arm")]
    BY DEF Cycle, Joint
<1>3. PICK l \in Between(pos.lift, Pushed("lift")), a \in Between(pos.arm, Pushed("arm")) :
         \E w \in IF pc \in {"wrist", "lower"} THEN {0, pos.wrist} ELSE {pos.wrist} :
             pos' = [lift |-> l, arm |-> a, wrist |-> w]
    BY Zenon DEF Cycle
<1>4. PICK w \in IF pc \in {"wrist", "lower"} THEN {0, pos.wrist} ELSE {pos.wrist} :
             pos' = [lift |-> l, arm |-> a, wrist |-> w]
    BY <1>3
<1>5. pos.lift \in 0 .. 1 /\ pos.arm \in 0 .. 2 /\ pos.wrist \in 0 .. 1
    BY DEF TInv, DataOK, Place
<1>6. l \in 0 .. 1
    BY <1>1, <1>5 DEF Between, Free
<1>7. a \in 0 .. 2 /\ a <= pos.arm
    BY <1>1, <1>5 DEF Between, Free
<1>8. w \in 0 .. 1
    BY <1>5
<1> QED
    BY <1>1, <1>2, <1>4, <1>6, <1>7, <1>8, TargetTypes DEF Place

LEMMA CycleTypes ==
    ASSUME TInv, Cycle
    PROVE  TInv'
<1>1. BooleansOK'
    BY Truth, Zenon DEF TInv, BooleansOK, Cycle
<1>2. /\ queue' \in [lift : {Free, 0, 1}, arm : {Free, 0}, wheels : Wheels]
      /\ gains' \in [routine : Gains, firmware : Gains] /\ wheels' \in Wheels
      /\ after' \in 0 .. MaxAfter
    BY BoundAssumption DEF TInv, DataOK, Cycle, Nothing, Wheels, Gains
<1>3. UNCHANGED <<pc, runs, blocked, was, tries>>
    BY Zenon DEF Cycle
<1>4. DataOK'
    BY <1>2, <1>3, CycleFacts, Zenon DEF TInv, DataOK
<1>5. Attempting'
    BY <1>3, Zenon DEF TInv, Attempting
<1> QED
    BY <1>1, <1>4, <1>5 DEF TInv

LEMMA RunstopTypes ==
    ASSUME TInv, Runstop
    PROVE  TInv'
<1>1. BooleansOK'
    BY Truth, Zenon DEF TInv, BooleansOK, Runstop, body, settings, charger
<1>2. DataOK' /\ Attempting'
    BY RetriesAssumption, BoundAssumption DEF TInv, DataOK, Attempting, Waits, Updates, Stowing,
       Wheels, Gains, Free, Runstop, body, settings, charger
<1> QED
    BY <1>1, <1>2 DEF TInv

LEMMA PrestowedTypes ==
    ASSUME TInv, Prestowed
    PROVE  TInv'
<1>1. BooleansOK'
    BY Truth, Zenon DEF TInv, BooleansOK, Prestowed, AtSetpoint, StowRest, Wait, MoveTo, charger
<1>2. DataOK' /\ Attempting'
    BY RetriesAssumption, BoundAssumption DEF TInv, DataOK, Attempting, Waits, Updates, Stowing,
       Wheels, Gains, Free, Prestowed, AtSetpoint, StowRest, Wait, MoveTo, charger
<1> QED
    BY <1>1, <1>2 DEF TInv

LEMMA ArmInTypes ==
    ASSUME TInv, ArmIn
    PROVE  TInv'
<1>1. BooleansOK'
    BY Truth, Zenon DEF TInv, BooleansOK, ArmIn, AtSetpoint, GaveUp, StowRest, Wait, charger
<1>2. DataOK' /\ Attempting'
    BY RetriesAssumption, BoundAssumption DEF TInv, DataOK, Attempting, Waits, Updates, Stowing,
       Wheels, Gains, Free, ArmIn, AtSetpoint, GaveUp, StowRest, Wait, charger
<1> QED
    BY <1>1, <1>2 DEF TInv

LEMMA WristWaitedTypes ==
    ASSUME TInv, WristWaited
    PROVE  TInv'
<1>1. BooleansOK'
    BY Truth, Zenon DEF TInv, BooleansOK, WristWaited, GaveUp, StowRest, Wait, MoveTo, charger
<1>2. DataOK' /\ Attempting'
    BY RetriesAssumption, BoundAssumption DEF TInv, DataOK, Attempting, Waits, Updates, Stowing,
       Wheels, Gains, Free, WristWaited, GaveUp, StowRest, Wait, MoveTo, charger
<1> QED
    BY <1>1, <1>2 DEF TInv

LEMMA StowDoneTypes ==
    ASSUME TInv, StowDone
    PROVE  TInv'
<1>3. Stowed(pos) \in BOOLEAN
    BY DEF Stowed
<1>1. BooleansOK'
    BY Truth, <1>3, Zenon DEF TInv, BooleansOK, StowDone, StowReturn, StowRest, charger
<1>2. DataOK' /\ Attempting'
    BY RetriesAssumption, BoundAssumption DEF TInv, DataOK, Attempting, Waits, Updates, Stowing,
       Wheels, Gains, Free, StowDone, StowReturn, StowRest, charger
<1> QED
    BY <1>1, <1>2 DEF TInv

LEMMA StowFailedTypes ==
    ASSUME TInv, StowFailed
    PROVE  TInv'
<1>1. BooleansOK'
    BY Truth, Zenon DEF TInv, BooleansOK, StowFailed, StowReturn, StowRest, charger
<1>2. DataOK' /\ Attempting'
    BY RetriesAssumption, BoundAssumption DEF TInv, DataOK, Attempting, Waits, Updates, Stowing,
       Wheels, Gains, Free, StowFailed, StowReturn, StowRest, charger
<1> QED
    BY <1>1, <1>2 DEF TInv

LEMMA StowRaisesTypes ==
    ASSUME TInv, StowRaises
    PROVE  TInv'
<1>1. BooleansOK'
    BY Truth, Zenon DEF TInv, BooleansOK, StowRaises, StowReturn, StowRest, charger
<1>2. DataOK' /\ Attempting'
    BY RetriesAssumption, BoundAssumption DEF TInv, DataOK, Attempting, Waits, Updates, Stowing,
       Wheels, Gains, Free, StowRaises, StowReturn, StowRest, charger
<1> QED
    BY <1>1, <1>2 DEF TInv

LEMMA UnguardTypes ==
    ASSUME TInv, Unguard
    PROVE  TInv'
<1>1. BooleansOK'
    BY Truth, Zenon DEF TInv, BooleansOK, Unguard, DockRest
<1>2. DataOK' /\ Attempting'
    BY RetriesAssumption, BoundAssumption DEF TInv, DataOK, Attempting, Waits, Updates, Stowing,
       Wheels, Gains, Free, Unguard, DockRest
<1> QED
    BY <1>1, <1>2 DEF TInv

LEMMA AttemptTypes ==
    ASSUME TInv, Attempt
    PROVE  TInv'
<1>1. BooleansOK'
    BY Truth, Zenon DEF TInv, BooleansOK, Attempt, Undock, Command, Wait, Update, SettingsRest,
       DockRest, settings
<1>2. DataOK' /\ Attempting'
    BY RetriesAssumption, BoundAssumption DEF TInv, DataOK, Attempting, Waits, Updates, Stowing,
       Wheels, Gains, Free, Attempt, Undock, Command, Wait, Update, SettingsRest, DockRest,
       settings
<1> QED
    BY <1>1, <1>2 DEF TInv

LEMMA NoAttemptTypes ==
    ASSUME TInv, NoAttempt
    PROVE  TInv'
<1>3. (tries < Retries) \in BOOLEAN
    OBVIOUS
<1>1. BooleansOK'
    BY Truth, <1>3, Zenon DEF TInv, BooleansOK, NoAttempt, Restore, Update, DockRest
<1>2. DataOK' /\ Attempting'
    BY RetriesAssumption, BoundAssumption DEF TInv, DataOK, Attempting, Waits, Updates, Stowing,
       Wheels, Gains, Free, NoAttempt, Restore, Update, DockRest
<1> QED
    BY <1>1, <1>2 DEF TInv

LEMMA DriveOnTypes ==
    ASSUME TInv, DriveOn
    PROVE  TInv'
<1>1. BooleansOK'
    BY Truth, Zenon DEF TInv, BooleansOK, DriveOn, Command, Update, SettingsRest, DockRest,
       settings
<1>2. DataOK' /\ Attempting'
    BY RetriesAssumption, BoundAssumption DEF TInv, DataOK, Attempting, Waits, Updates, Stowing,
       Wheels, Gains, Free, DriveOn, Command, Update, SettingsRest, DockRest, settings
<1> QED
    BY <1>1, <1>2 DEF TInv

LEMMA DockedTypes ==
    ASSUME TInv, Docked
    PROVE  TInv'
<1>1. BooleansOK'
    BY Truth, Zenon DEF TInv, BooleansOK, Docked, Command, Wait, SettingsRest, DockRest,
       settings
<1>2. DataOK' /\ Attempting'
    BY RetriesAssumption, BoundAssumption DEF TInv, DataOK, Attempting, Waits, Updates, Stowing,
       Wheels, Gains, Free, Docked, Command, Wait, SettingsRest, DockRest, settings
<1> QED
    BY <1>1, <1>2 DEF TInv

LEMMA DriveOverTypes ==
    ASSUME TInv, DriveOver
    PROVE  TInv'
<1>1. BooleansOK'
    BY Truth, Zenon DEF TInv, BooleansOK, DriveOver, Undock, Command, Wait, SettingsRest,
       DockRest, settings
<1>2. DataOK' /\ Attempting'
    BY RetriesAssumption, BoundAssumption DEF TInv, DataOK, Attempting, Waits, Updates, Stowing,
       Wheels, Gains, Free, DriveOver, Undock, Command, Wait, SettingsRest, DockRest, settings
<1> QED
    BY <1>1, <1>2 DEF TInv

LEMMA LockTypes ==
    ASSUME TInv, Lock
    PROVE  TInv'
<1>1. BooleansOK'
    BY Truth, Zenon DEF TInv, BooleansOK, Lock, GaveUp, Command, Wait, SettingsRest, DockRest,
       settings
<1>2. DataOK' /\ Attempting'
    BY RetriesAssumption, BoundAssumption DEF TInv, DataOK, Attempting, Waits, Updates, Stowing,
       Wheels, Gains, Free, Lock, GaveUp, Command, Wait, SettingsRest, DockRest, settings
<1> QED
    BY <1>1, <1>2 DEF TInv

LEMMA LockedTypes ==
    ASSUME TInv, Locked
    PROVE  TInv'
<1>1. BooleansOK'
    BY Truth, Zenon DEF TInv, BooleansOK, Locked, Restore, Update, DockRest
<1>2. DataOK' /\ Attempting'
    BY RetriesAssumption, BoundAssumption DEF TInv, DataOK, Attempting, Waits, Updates, Stowing,
       Wheels, Gains, Free, Locked, Restore, Update, DockRest
<1> QED
    BY <1>1, <1>2 DEF TInv

LEMMA UndockedTypes ==
    ASSUME TInv, Undocked
    PROVE  TInv'
<1>1. BooleansOK'
    BY Truth, Zenon DEF TInv, BooleansOK, Undocked, GaveUp, DockRest, settings
<1>2. DataOK' /\ Attempting'
    BY RetriesAssumption, BoundAssumption DEF TInv, DataOK, Attempting, Waits, Updates, Stowing,
       Wheels, Gains, Free, Undocked, GaveUp, DockRest, settings
<1> QED
    BY <1>1, <1>2 DEF TInv

LEMMA UnpauseTypes ==
    ASSUME TInv, Unpause
    PROVE  TInv'
<1>3. (guarded \/ was.guarded) \in BOOLEAN
    OBVIOUS
<1>1. BooleansOK'
    BY Truth, <1>3, Zenon DEF TInv, BooleansOK, Unpause, Update, DockRest
<1>2. DataOK' /\ Attempting'
    BY RetriesAssumption, BoundAssumption DEF TInv, DataOK, Attempting, Waits, Updates, Stowing,
       Wheels, Gains, Free, Unpause, Update, DockRest
<1> QED
    BY <1>1, <1>2 DEF TInv

LEMMA DockReturnTypes ==
    ASSUME TInv, DockReturn
    PROVE  TInv'
<1>1. BooleansOK'
    BY Truth, Zenon DEF TInv, BooleansOK, DockReturn, body, settings, charger
<1>2. DataOK' /\ Attempting'
    BY RetriesAssumption, BoundAssumption DEF TInv, DataOK, Attempting, Waits, Updates, Stowing,
       Wheels, Gains, Free, DockReturn, body, settings, charger
<1> QED
    BY <1>1, <1>2 DEF TInv

LEMMA DockRaisesTypes ==
    ASSUME TInv, DockRaises
    PROVE  TInv'
<1>1. BooleansOK'
    BY Truth, Zenon DEF TInv, BooleansOK, DockRaises, body, settings, charger
<1>2. DataOK' /\ Attempting'
    BY RetriesAssumption, BoundAssumption DEF TInv, DataOK, Attempting, Waits, Updates, Stowing,
       Wheels, Gains, Free, DockRaises, body, settings, charger
<1> QED
    BY <1>1, <1>2 DEF TInv

-----------------------------------------------------------------------------
(* What a routine has paused and changed, and what it gives back.          *)

PausedInv ==
    /\ pc \in {"idle", "gains", "final"} => ~paused
    /\ pc \in Stowing \cup {"idle", "gains", "final"} => guarded = was.guarded
    /\ pc \in {"attempt", "drive", "settle", "lock", "undock", "restore"} => ~guarded

\* No wheel drives on when the commands queued have been pushed.
Halted == queue.wheels # "drive" /\ (queue.wheels = "none" => wheels # "drive")

MotionInv ==
    /\ pc \in Stowing \cup {"idle", "final"} => /\ gains = [routine |-> "user", firmware |-> "user"]
                                               /\ queue.wheels = "none" /\ wheels # "drive"
    /\ pc \in {"gains", "attempt", "drive", "settle", "lock", "undock"} => was.gains = "user"
    /\ pc \in {"gains", "attempt", "settle", "lock", "undock", "restore"} => Halted
    /\ pc = "restore" => /\ gains.routine = "user"
                         /\ ~due => gains.firmware = "user" /\ queue.wheels = "none"

\* How many cycles a canceled routine has had at most: one for the update it was in, one
\* to restore the gains, one to restore the guarded mode.
Limit == CASE pc \in Stowing -> 0
           [] pc \in {"gains", "drive"} -> IF due THEN 0 ELSE 1
           [] pc \in {"attempt", "settle", "lock", "undock"} -> 1
           [] pc = "restore" -> IF due THEN 1 ELSE 2
           [] pc = "final" -> IF due THEN 2 ELSE 3
           [] OTHER -> 3
PromptInv == (~canceled => after = 0) /\ after <= Limit

\* The arm is within the threshold, or a collision stop refuses to retract it.
ArmClear == pos.arm <= 1 \/ "retract" \in blocked
ArmInv ==
    /\ queue.lift = 0 \/ target.lift = 0 \/ pc = "wrist" => ArmClear
    /\ pc = "arm" /\ "retract" \notin blocked => IF cycled THEN target.arm = 0 ELSE queue.arm = 0

LEMMA RunstopKeeps ==
    ASSUME TInv, PausedInv, MotionInv, PromptInv, ArmInv, Runstop
    PROVE  PausedInv' /\ MotionInv' /\ PromptInv' /\ ArmInv'
<1>1. PausedInv'
    BY Truth DEF TInv, BooleansOK, PausedInv, Waits, Updates, Stowing, Runstop, body, settings,
       charger
<1>2. MotionInv'
    BY DEF TInv, DataOK, MotionInv, Halted, Waits, Updates, Stowing, Runstop, body, settings,
       charger
<1>3. PromptInv'
    BY DEF TInv, DataOK, PromptInv, Limit, Waits, Updates, Stowing, Runstop, body, settings,
       charger
<1>4. ArmInv'
    BY DEF TInv, DataOK, ArmInv, ArmClear, Waits, Updates, Runstop, body, settings, charger
<1> QED
    BY <1>1, <1>2, <1>3, <1>4

LEMMA PrestowedKeeps ==
    ASSUME TInv, PausedInv, MotionInv, PromptInv, ArmInv, Prestowed
    PROVE  PausedInv' /\ MotionInv' /\ PromptInv' /\ ArmInv'
<1>1. PausedInv'
    BY Truth DEF TInv, BooleansOK, PausedInv, Stowing, Prestowed, AtSetpoint, StowRest, Wait,
       MoveTo, charger
<1>2. MotionInv'
    BY DEF TInv, DataOK, MotionInv, Halted, Stowing, Prestowed, AtSetpoint, StowRest, Wait,
       MoveTo, charger
<1>3. PromptInv'
    BY DEF TInv, DataOK, PromptInv, Limit, Stowing, Prestowed, AtSetpoint, StowRest, Wait,
       MoveTo, charger
<1>4. ArmInv'
    BY DEF TInv, DataOK, ArmInv, ArmClear, Free, NearSetpoint, Prestowed, AtSetpoint, StowRest,
       Wait, MoveTo, charger
<1> QED
    BY <1>1, <1>2, <1>3, <1>4

LEMMA ArmInKeeps ==
    ASSUME TInv, PausedInv, MotionInv, PromptInv, ArmInv, ArmIn
    PROVE  PausedInv' /\ MotionInv' /\ PromptInv' /\ ArmInv'
<1>1. PausedInv'
    BY Truth DEF TInv, BooleansOK, PausedInv, Stowing, ArmIn, AtSetpoint, GaveUp, StowRest,
       Wait, charger
<1>2. MotionInv'
    BY DEF TInv, DataOK, MotionInv, Halted, Stowing, ArmIn, AtSetpoint, GaveUp, StowRest, Wait,
       charger
<1>3. PromptInv'
    BY DEF TInv, DataOK, PromptInv, Limit, Stowing, ArmIn, AtSetpoint, GaveUp, StowRest, Wait,
       charger
<1>4. ArmInv'
    BY DEF TInv, DataOK, ArmInv, ArmClear, Free, NearSetpoint, ArmIn, AtSetpoint, GaveUp,
       StowRest, Wait, charger
<1> QED
    BY <1>1, <1>2, <1>3, <1>4

LEMMA WristWaitedKeeps ==
    ASSUME TInv, PausedInv, MotionInv, PromptInv, ArmInv, WristWaited
    PROVE  PausedInv' /\ MotionInv' /\ PromptInv' /\ ArmInv'
<1>1. PausedInv'
    BY Truth DEF TInv, BooleansOK, PausedInv, Stowing, WristWaited, GaveUp, StowRest, Wait,
       MoveTo, charger
<1>2. MotionInv'
    BY DEF TInv, DataOK, MotionInv, Halted, Stowing, WristWaited, GaveUp, StowRest, Wait,
       MoveTo, charger
<1>3. PromptInv'
    BY DEF TInv, DataOK, PromptInv, Limit, Stowing, WristWaited, GaveUp, StowRest, Wait, MoveTo,
       charger
<1>4. ArmInv'
    BY DEF TInv, DataOK, ArmInv, ArmClear, WristWaited, GaveUp, StowRest, Wait, MoveTo, charger
<1> QED
    BY <1>1, <1>2, <1>3, <1>4

LEMMA StowDoneKeeps ==
    ASSUME TInv, PausedInv, MotionInv, PromptInv, ArmInv, StowDone
    PROVE  PausedInv' /\ MotionInv' /\ PromptInv' /\ ArmInv'
<1>1. PausedInv'
    BY Truth DEF TInv, BooleansOK, PausedInv, Stowing, AtSetpoint, StowDone, StowReturn,
       StowRest, charger
<1>2. MotionInv'
    BY DEF TInv, DataOK, MotionInv, Halted, Stowing, AtSetpoint, StowDone, StowReturn, StowRest,
       charger
<1>3. PromptInv'
    BY DEF TInv, DataOK, PromptInv, Limit, Stowing, AtSetpoint, StowDone, StowReturn, StowRest,
       charger
<1>4. ArmInv'
    BY DEF TInv, DataOK, ArmInv, ArmClear, Free, NearSetpoint, AtSetpoint, StowDone, StowReturn,
       StowRest, charger
<1> QED
    BY <1>1, <1>2, <1>3, <1>4

LEMMA StowFailedKeeps ==
    ASSUME TInv, PausedInv, MotionInv, PromptInv, ArmInv, StowFailed
    PROVE  PausedInv' /\ MotionInv' /\ PromptInv' /\ ArmInv'
<1>1. PausedInv'
    BY Truth DEF TInv, BooleansOK, PausedInv, Stowing, GaveUp, StowFailed, StowReturn, StowRest,
       charger
<1>2. MotionInv'
    BY DEF TInv, DataOK, MotionInv, Halted, Stowing, GaveUp, StowFailed, StowReturn, StowRest,
       charger
<1>3. PromptInv'
    BY DEF TInv, DataOK, PromptInv, Limit, Stowing, GaveUp, StowFailed, StowReturn, StowRest,
       charger
<1>4. ArmInv'
    BY DEF TInv, DataOK, ArmInv, ArmClear, GaveUp, StowFailed, StowReturn, StowRest, charger
<1> QED
    BY <1>1, <1>2, <1>3, <1>4

LEMMA StowRaisesKeeps ==
    ASSUME TInv, PausedInv, MotionInv, PromptInv, ArmInv, StowRaises
    PROVE  PausedInv' /\ MotionInv' /\ PromptInv' /\ ArmInv'
<1>1. PausedInv'
    BY Truth DEF TInv, BooleansOK, PausedInv, Stowing, StowRaises, StowReturn, StowRest, charger
<1>2. MotionInv'
    BY DEF TInv, DataOK, MotionInv, Halted, Stowing, StowRaises, StowReturn, StowRest, charger
<1>3. PromptInv'
    BY DEF TInv, DataOK, PromptInv, Limit, Stowing, StowRaises, StowReturn, StowRest, charger
<1>4. ArmInv'
    BY DEF TInv, DataOK, ArmInv, ArmClear, Stowing, StowRaises, StowReturn, StowRest, charger
<1> QED
    BY <1>1, <1>2, <1>3, <1>4

LEMMA UnguardKeeps ==
    ASSUME TInv, PausedInv, MotionInv, PromptInv, ArmInv, Unguard
    PROVE  PausedInv' /\ MotionInv' /\ PromptInv' /\ ArmInv'
<1>1. PausedInv'
    BY Truth DEF TInv, BooleansOK, PausedInv, Stowing, Unguard, DockRest
<1>2. MotionInv'
    BY DEF TInv, DataOK, MotionInv, Halted, Stowing, Unguard, DockRest
<1>3. PromptInv'
    BY DEF TInv, DataOK, PromptInv, Limit, Stowing, Unguard, DockRest
<1>4. ArmInv'
    BY DEF TInv, DataOK, ArmInv, ArmClear, Unguard, DockRest
<1> QED
    BY <1>1, <1>2, <1>3, <1>4

LEMMA AttemptKeeps ==
    ASSUME TInv, PausedInv, MotionInv, PromptInv, ArmInv, Attempt
    PROVE  PausedInv' /\ MotionInv' /\ PromptInv' /\ ArmInv'
<1>1. PausedInv'
    BY Truth DEF TInv, BooleansOK, PausedInv, Stowing, Attempt, Undock, Command, Wait, Update,
       SettingsRest, DockRest, settings
<1>2. MotionInv'
    BY DEF TInv, DataOK, MotionInv, Halted, Stowing, Attempt, Undock, Command, Wait, Update,
       SettingsRest, DockRest, settings
<1>3. PromptInv'
    BY DEF TInv, DataOK, PromptInv, Limit, Stowing, Attempt, Undock, Command, Wait, Update,
       SettingsRest, DockRest, settings
<1>4. ArmInv'
    BY DEF TInv, DataOK, ArmInv, ArmClear, Attempt, Undock, Command, Wait, Update, SettingsRest,
       DockRest, settings
<1> QED
    BY <1>1, <1>2, <1>3, <1>4

LEMMA NoAttemptKeeps ==
    ASSUME TInv, PausedInv, MotionInv, PromptInv, ArmInv, NoAttempt
    PROVE  PausedInv' /\ MotionInv' /\ PromptInv' /\ ArmInv'
<1>1. PausedInv'
    BY Truth DEF TInv, BooleansOK, PausedInv, Stowing, NoAttempt, Restore, Update, DockRest
<1>2. MotionInv'
    BY DEF TInv, DataOK, MotionInv, Halted, Stowing, NoAttempt, Restore, Update, DockRest
<1>3. PromptInv'
    BY DEF TInv, DataOK, PromptInv, Limit, Stowing, NoAttempt, Restore, Update, DockRest
<1>4. ArmInv'
    BY DEF TInv, DataOK, ArmInv, ArmClear, NoAttempt, Restore, Update, DockRest
<1> QED
    BY <1>1, <1>2, <1>3, <1>4

LEMMA DriveOnKeeps ==
    ASSUME TInv, PausedInv, MotionInv, PromptInv, ArmInv, DriveOn
    PROVE  PausedInv' /\ MotionInv' /\ PromptInv' /\ ArmInv'
<1>1. PausedInv'
    BY Truth DEF TInv, BooleansOK, PausedInv, Stowing, DriveOn, Command, Update, SettingsRest,
       DockRest, settings
<1>2. MotionInv'
    BY DEF TInv, DataOK, MotionInv, Halted, Stowing, DriveOn, Command, Update, SettingsRest,
       DockRest, settings
<1>3. PromptInv'
    BY DEF TInv, DataOK, PromptInv, Limit, Stowing, DriveOn, Command, Update, SettingsRest,
       DockRest, settings
<1>4. ArmInv'
    BY DEF TInv, DataOK, ArmInv, ArmClear, DriveOn, Command, Update, SettingsRest, DockRest,
       settings
<1> QED
    BY <1>1, <1>2, <1>3, <1>4

LEMMA DockedKeeps ==
    ASSUME TInv, PausedInv, MotionInv, PromptInv, ArmInv, Docked
    PROVE  PausedInv' /\ MotionInv' /\ PromptInv' /\ ArmInv'
<1>1. PausedInv'
    BY Truth DEF TInv, BooleansOK, PausedInv, Stowing, Docked, Command, Wait, SettingsRest,
       DockRest, settings
<1>2. MotionInv'
    BY DEF TInv, DataOK, MotionInv, Halted, Stowing, Docked, Command, Wait, SettingsRest,
       DockRest, settings
<1>3. PromptInv'
    BY DEF TInv, DataOK, PromptInv, Limit, Stowing, Docked, Command, Wait, SettingsRest,
       DockRest, settings
<1>4. ArmInv'
    BY DEF TInv, DataOK, ArmInv, ArmClear, Docked, Command, Wait, SettingsRest, DockRest,
       settings
<1> QED
    BY <1>1, <1>2, <1>3, <1>4

LEMMA DriveOverKeeps ==
    ASSUME TInv, PausedInv, MotionInv, PromptInv, ArmInv, DriveOver
    PROVE  PausedInv' /\ MotionInv' /\ PromptInv' /\ ArmInv'
<1>1. PausedInv'
    BY Truth DEF TInv, BooleansOK, PausedInv, Stowing, DriveOver, Undock, Command, Wait,
       SettingsRest, DockRest, settings
<1>2. MotionInv'
    BY DEF TInv, DataOK, MotionInv, Halted, Stowing, DriveOver, Undock, Command, Wait,
       SettingsRest, DockRest, settings
<1>3. PromptInv'
    BY DEF TInv, DataOK, PromptInv, Limit, Stowing, DriveOver, Undock, Command, Wait,
       SettingsRest, DockRest, settings
<1>4. ArmInv'
    BY DEF TInv, DataOK, ArmInv, ArmClear, DriveOver, Undock, Command, Wait, SettingsRest,
       DockRest, settings
<1> QED
    BY <1>1, <1>2, <1>3, <1>4

LEMMA LockKeeps ==
    ASSUME TInv, PausedInv, MotionInv, PromptInv, ArmInv, Lock
    PROVE  PausedInv' /\ MotionInv' /\ PromptInv' /\ ArmInv'
<1>1. PausedInv'
    BY Truth DEF TInv, BooleansOK, PausedInv, Stowing, Lock, GaveUp, Command, Wait,
       SettingsRest, DockRest, settings
<1>2. MotionInv'
    BY DEF TInv, DataOK, MotionInv, Halted, Stowing, Lock, GaveUp, Command, Wait, SettingsRest,
       DockRest, settings
<1>3. PromptInv'
    BY DEF TInv, DataOK, PromptInv, Limit, Stowing, Lock, GaveUp, Command, Wait, SettingsRest,
       DockRest, settings
<1>4. ArmInv'
    BY DEF TInv, DataOK, ArmInv, ArmClear, Lock, GaveUp, Command, Wait, SettingsRest, DockRest,
       settings
<1> QED
    BY <1>1, <1>2, <1>3, <1>4

LEMMA LockedKeeps ==
    ASSUME TInv, PausedInv, MotionInv, PromptInv, ArmInv, Locked
    PROVE  PausedInv' /\ MotionInv' /\ PromptInv' /\ ArmInv'
<1>1. PausedInv'
    BY Truth DEF TInv, BooleansOK, PausedInv, Stowing, GaveUp, Locked, Restore, Update, DockRest
<1>2. MotionInv'
    BY DEF TInv, DataOK, MotionInv, Halted, Stowing, GaveUp, Locked, Restore, Update, DockRest
<1>3. PromptInv'
    BY DEF TInv, DataOK, PromptInv, Limit, Stowing, GaveUp, Locked, Restore, Update, DockRest
<1>4. ArmInv'
    BY DEF TInv, DataOK, ArmInv, ArmClear, GaveUp, Locked, Restore, Update, DockRest
<1> QED
    BY <1>1, <1>2, <1>3, <1>4

LEMMA UndockedKeeps ==
    ASSUME TInv, PausedInv, MotionInv, PromptInv, ArmInv, Undocked
    PROVE  PausedInv' /\ MotionInv' /\ PromptInv' /\ ArmInv'
<1>1. PausedInv'
    BY Truth DEF TInv, BooleansOK, PausedInv, Stowing, Undocked, GaveUp, DockRest, settings
<1>2. MotionInv'
    BY DEF TInv, DataOK, MotionInv, Halted, Stowing, Undocked, GaveUp, DockRest, settings
<1>3. PromptInv'
    BY DEF TInv, DataOK, PromptInv, Limit, Stowing, Undocked, GaveUp, DockRest, settings
<1>4. ArmInv'
    BY DEF TInv, DataOK, ArmInv, ArmClear, Undocked, GaveUp, DockRest, settings
<1> QED
    BY <1>1, <1>2, <1>3, <1>4

LEMMA UnpauseKeeps ==
    ASSUME TInv, PausedInv, MotionInv, PromptInv, ArmInv, Unpause
    PROVE  PausedInv' /\ MotionInv' /\ PromptInv' /\ ArmInv'
<1>1. PausedInv'
    BY Truth DEF TInv, BooleansOK, PausedInv, Stowing, Unpause, Update, DockRest
<1>2. MotionInv'
    BY DEF TInv, DataOK, MotionInv, Halted, Stowing, Unpause, Update, DockRest
<1>3. PromptInv'
    BY DEF TInv, DataOK, PromptInv, Limit, Stowing, Unpause, Update, DockRest
<1>4. ArmInv'
    BY DEF TInv, DataOK, ArmInv, ArmClear, Unpause, Update, DockRest
<1> QED
    BY <1>1, <1>2, <1>3, <1>4

LEMMA DockReturnKeeps ==
    ASSUME TInv, PausedInv, MotionInv, PromptInv, ArmInv, DockReturn
    PROVE  PausedInv' /\ MotionInv' /\ PromptInv' /\ ArmInv'
<1>1. PausedInv'
    BY Truth DEF TInv, BooleansOK, PausedInv, Stowing, DockReturn, body, settings, charger
<1>2. MotionInv'
    BY DEF TInv, DataOK, MotionInv, Halted, Stowing, DockReturn, body, settings, charger
<1>3. PromptInv'
    BY DEF TInv, DataOK, PromptInv, Limit, Stowing, DockReturn, body, settings, charger
<1>4. ArmInv'
    BY DEF TInv, DataOK, ArmInv, ArmClear, DockReturn, body, settings, charger
<1> QED
    BY <1>1, <1>2, <1>3, <1>4

LEMMA DockRaisesKeeps ==
    ASSUME TInv, PausedInv, MotionInv, PromptInv, ArmInv, DockRaises
    PROVE  PausedInv' /\ MotionInv' /\ PromptInv' /\ ArmInv'
<1>1. PausedInv'
    BY Truth DEF TInv, BooleansOK, PausedInv, Waits, Updates, Stowing, DockRaises, body,
       settings, charger
<1>2. MotionInv'
    BY DEF TInv, DataOK, MotionInv, Halted, Waits, Updates, Stowing, DockRaises, body, settings,
       charger
<1>3. PromptInv'
    BY DEF TInv, DataOK, PromptInv, Limit, Waits, Updates, Stowing, DockRaises, body, settings,
       charger
<1>4. ArmInv'
    BY DEF TInv, DataOK, ArmInv, ArmClear, Waits, Updates, Stowing, DockRaises, body, settings,
       charger
<1> QED
    BY <1>1, <1>2, <1>3, <1>4

LEMMA CycleKeeps ==
    ASSUME TInv, PausedInv, MotionInv, PromptInv, ArmInv, Cycle
    PROVE  PausedInv' /\ MotionInv' /\ PromptInv' /\ ArmInv'
<1>1. PausedInv'
    BY Truth DEF TInv, BooleansOK, PausedInv, Waits, Updates, Stowing, Cycle, Nothing
<1>2. MotionInv'
    BY DEF TInv, DataOK, MotionInv, Halted, Waits, Updates, Stowing, Cycle, Nothing
<1>3. PromptInv'
    <2>1. pc' = pc /\ due' = FALSE /\ (~canceled' => ~canceled)
        <3>1. canceled' = canceled \/ canceled' = TRUE
            BY DEF Cycle
        <3>2. ~canceled' => ~canceled
            BY <3>1
        <3> QED
            BY <3>2, Zenon DEF Cycle
    <2>2. after \in Nat /\ Limit \in 0 .. 3 /\ Limit' \in 0 .. 3
        BY BoundAssumption DEF TInv, DataOK, Limit
    <2>3. CASE ~canceled
        <3>1. after' = 0
            BY <2>3 DEF Cycle, PromptInv
        <3> QED
            BY <2>2, <3>1 DEF PromptInv
    <2>4. CASE canceled
        <3>1. pc \in Updates /\ due
            BY <2>4, Zenon DEF Cycle
        <3>2. Limit' = Limit + 1
            BY <2>1, <3>1 DEF Limit, Updates, Stowing
        <3>3. after' = after \/ after' = after + 1
            BY DEF Cycle
        <3>4. after <= Limit
            BY Zenon DEF PromptInv
        <3>5. after' <= Limit'
            BY <2>2, <3>2, <3>3, <3>4
        <3> QED
            BY <2>1, <2>4, <3>5, Zenon DEF PromptInv
    <2> QED
        BY <2>3, <2>4
<1>4. ArmInv'
    <2>1. /\ UNCHANGED <<pc, blocked>> /\ cycled' = TRUE /\ queue' = Nothing
        BY Zenon DEF Cycle
    <2>2. ArmClear => ArmClear'
        <3>1. pos.arm \in Nat /\ pos'.arm \in Nat /\ pos'.arm <= pos.arm
            BY CycleFacts DEF TInv, DataOK, Place
        <3> QED
            BY <2>1, <3>1 DEF ArmClear
    <2>3. target'.lift = 0 => queue.lift = 0 \/ target.lift = 0
        BY CycleFacts DEF Pushed
    <2>4. pc = "arm" /\ "retract" \notin blocked => target'.arm = 0
        BY CycleFacts DEF Pushed, ArmInv, TInv, DataOK
    <2>5. queue'.lift # 0
        BY <2>1 DEF Nothing, Free
    <2> QED
        BY <2>1, <2>2, <2>3, <2>4, <2>5, Zenon DEF ArmInv
<1> QED
    BY <1>1, <1>2, <1>3, <1>4

LEMMA StowKeeps ==
    ASSUME TInv, PausedInv, MotionInv, PromptInv, ArmInv, Stow
    PROVE  PausedInv' /\ MotionInv' /\ PromptInv' /\ ArmInv'
<1>1. /\ pc = "idle" /\ UNCHANGED <<due, gains, guarded, was>>
      /\ wheels' = "none" /\ target'.lift = Free /\ target'.arm = Free
    BY StartFacts, Zenon DEF Stow, Start
<1>2. (Stowed(pos') /\ UNCHANGED <<pc, cycled, queue, paused>>) \/ pc' \in {"prestow", "arm"}
    BY DEF Stow, Wait
<1>3. PromptInv'
    <2>1. after' = 0
        BY DEF Stow, Start
    <2>2. pc' \in Stowing \cup {"idle"}
        BY <1>1, <1>2 DEF Stowing
    <2>3. 0 <= Limit'
        BY <2>2 DEF Limit, Stowing
    <2> QED
        BY <2>1, <2>3, Zenon DEF PromptInv
<1>4. CASE Stowed(pos') /\ UNCHANGED <<pc, cycled, queue, paused>>
    <2>1. PausedInv'
        BY <1>1, <1>4, Zenon DEF PausedInv
    <2>2. MotionInv'
        BY <1>1, <1>4 DEF MotionInv, Halted
    <2>3. ArmInv'
        BY <1>1, <1>4 DEF ArmInv, ArmClear, Stowed, Free
    <2> QED
        BY <2>1, <2>2, <2>3, <1>3
<1>5. CASE pc' \in {"prestow", "arm"}
    <2>1. PausedInv'
        <3>1. /\ guarded = was.guarded /\ pc' \notin {"idle", "gains", "final"}
              /\ pc' \notin {"attempt", "drive", "settle", "lock", "undock", "restore"}
            BY <1>1, <1>5 DEF PausedInv
        <3> QED
            BY <1>1, <3>1, Zenon DEF PausedInv
    <2>2. MotionInv'
        <3>1. queue'.wheels = "none"
            BY <1>1, <1>5 DEF Stow, MoveTo, Nothing
        <3> QED
            BY <1>1, <1>5, <3>1 DEF MotionInv
    <2>3. ArmInv'
        <3>1. queue'.lift # 0 /\ (pc' = "arm" /\ "retract" \notin blocked' => queue'.arm = 0)
            BY <1>1, <1>5 DEF Stow, Wait, MoveTo, Nothing, Free
        <3>2. pc' # "idle" /\ pc' # "wrist"
            BY <1>5
        <3>3. cycled' = FALSE
            BY <1>1, <3>2, Zenon DEF Stow, Wait
        <3>4. target'.lift # 0
            BY <1>1 DEF Free
        <3> QED
            BY <3>1, <3>2, <3>3, <3>4, Zenon DEF ArmInv
    <2> QED
        BY <2>1, <2>2, <2>3, <1>3
<1> QED
    BY <1>2, <1>4, <1>5

LEMMA DockKeeps ==
    ASSUME TInv, PausedInv, MotionInv, PromptInv, ArmInv, Dock
    PROVE  PausedInv' /\ MotionInv' /\ PromptInv' /\ ArmInv'
<1>1. /\ pc = "idle" /\ pc' = "gains" /\ UNCHANGED <<paused, guarded>>
      /\ was' = [gains |-> gains.routine, guarded |-> guarded] /\ queue' = Nothing
      /\ wheels' = "none" /\ target'.lift = Free /\ target'.arm = Free /\ after' = 0
    BY StartFacts, Zenon DEF Dock, Start, Update
<1>2. PausedInv'
    <2>1. /\ ~paused' /\ pc' \notin {"attempt", "drive", "settle", "lock", "undock", "restore"}
        BY <1>1 DEF PausedInv
    <2>2. was'.guarded = guarded'
        BY <1>1
    <2> QED
        BY <2>1, <2>2, Zenon DEF PausedInv
<1>3. MotionInv'
    BY <1>1 DEF MotionInv, Halted, Nothing, Stowing
<1>4. PromptInv'
    <2>1. 0 <= Limit'
        BY <1>1 DEF Limit, Stowing
    <2> QED
        BY <1>1, <2>1, Zenon DEF PromptInv
<1>5. ArmInv'
    BY <1>1 DEF ArmInv, Nothing, Free
<1> QED
    BY <1>2, <1>3, <1>4, <1>5

-----------------------------------------------------------------------------
IInv == TInv /\ PausedInv /\ MotionInv /\ PromptInv /\ ArmInv

LEMMA InitInv == Init => IInv
<1> SUFFICES ASSUME Init PROVE IInv
    OBVIOUS
<1>1. PausedInv
    <2>1. was.guarded = guarded /\ ~paused /\ pc = "idle"
        BY DEF Init
    <2>2. "idle" \notin {"attempt", "drive", "settle", "lock", "undock", "restore"}
        OBVIOUS
    <2> QED
        BY <2>1, <2>2, Zenon DEF PausedInv
<1>2. MotionInv
    BY DEF Init, MotionInv, Nothing
<1>3. PromptInv
    BY DEF Init, PromptInv, Limit, Stowing
<1>4. ArmInv
    BY DEF Init, ArmInv, Nothing, Free
<1> QED
    BY <1>1, <1>2, <1>3, <1>4, InitTypes DEF IInv

LEMMA NextTypes == TInv /\ [Next]_vars => TInv'
<1> SUFFICES ASSUME TInv, [Next]_vars PROVE TInv'
    OBVIOUS
<1>1. CASE UNCHANGED vars
    <2>1. UNCHANGED <<pc, runs, result, canceled, due, cycled, blocked, pos, target, queue, wheels>>
        BY <1>1, Zenon DEF vars, body
    <2>2. UNCHANGED <<gains, guarded, was, paused, tries, adapter, contact, tilted, success, after>>
        BY <1>1, Zenon DEF vars, settings, charger
    <2>3. BooleansOK'
        BY <2>1, <2>2, Zenon DEF TInv, BooleansOK
    <2>4. DataOK' /\ Attempting'
        BY <2>1, <2>2, Zenon DEF TInv, DataOK, Attempting
    <2> QED
        BY <2>3, <2>4 DEF TInv
<1>2. CASE Next
    BY <1>2, CycleTypes, RunstopTypes, StowTypes, PrestowedTypes, ArmInTypes, WristWaitedTypes,
       StowDoneTypes, StowFailedTypes, StowRaisesTypes, DockTypes, UnguardTypes, AttemptTypes,
       NoAttemptTypes, DriveOnTypes, DockedTypes, DriveOverTypes, LockTypes, LockedTypes,
       UndockedTypes, UnpauseTypes, DockReturnTypes, DockRaisesTypes, Zenon DEF Next
<1> QED
    BY <1>1, <1>2

LEMMA NextInv == IInv /\ [Next]_vars => IInv'
<1> SUFFICES ASSUME IInv, [Next]_vars PROVE IInv'
    OBVIOUS
<1>1. TInv'
    BY NextTypes DEF IInv
<1>2. CASE UNCHANGED vars
    <2>1. PausedInv' /\ MotionInv' /\ ArmInv'
        BY <1>2, Zenon DEF IInv, PausedInv, MotionInv, Halted, ArmInv, ArmClear, vars, body,
           settings, charger
    <2>2. PromptInv'
        BY <1>2, Zenon DEF IInv, PromptInv, Limit, vars
    <2> QED
        BY <1>1, <2>1, <2>2 DEF IInv
<1>3. CASE Next
    BY <1>1, <1>3, CycleKeeps, RunstopKeeps, StowKeeps, PrestowedKeeps, ArmInKeeps,
       WristWaitedKeeps, StowDoneKeeps, StowFailedKeeps, StowRaisesKeeps, DockKeeps,
       UnguardKeeps, AttemptKeeps, NoAttemptKeeps, DriveOnKeeps, DockedKeeps, DriveOverKeeps,
       LockKeeps, LockedKeeps, UndockedKeeps, UnpauseKeeps, DockReturnKeeps, DockRaisesKeeps,
       Zenon DEF Next, IInv
<1> QED
    BY <1>2, <1>3

LEMMA Invariance == Spec => []IInv
BY InitInv, NextInv, PTL DEF Spec

\* Every variable keeps its type, and no attempt to dock is made beyond those it has.
THEOREM TypeCorrect == Spec => []TypeOK
<1>1. IInv => TypeOK
    BY TypeParts DEF IInv, TInv
<1> QED
    BY <1>1, Invariance, PTL

\* For any number of attempts, and whatever is canceled, refused or raised: a routine
\* that has returned has paused nothing, its user's gains and guarded mode are back, also
\* in the firmware, and no wheel drives on.
THEOREM InOrder == Spec => []LeftInOrder
<1>1. IInv => LeftInOrder
    BY DEF IInv, PausedInv, MotionInv, LeftInOrder
<1> QED
    BY <1>1, Invariance, PTL

\* The lift is sent down only with the arm in, unless a collision stop kept it out.
THEOREM ArmFirst == Spec => []ArmBeforeLift
<1>1. IInv => ArmBeforeLift
    BY Zenon DEF IInv, ArmInv, ArmClear, ArmBeforeLift
<1> QED
    BY <1>1, Invariance, PTL

\* A canceled routine controls the robot for three more cycles at most.
THEOREM Prompt == Spec => []CancelPrompt
<1>1. IInv => CancelPrompt
    <2> SUFFICES ASSUME IInv PROVE CancelPrompt
        OBVIOUS
    <2>1. after \in Nat /\ after <= Limit
        BY BoundAssumption DEF IInv, TInv, DataOK, PromptInv
    <2>2. Limit \in 0 .. 3
        BY DEF Limit
    <2> QED
        BY <2>1, <2>2 DEF CancelPrompt
<1> QED
    BY <1>1, Invariance, PTL
=============================================================================
