-------------------------- MODULE CoprocessorProofs -------------------------
(***************************************************************************)
(* Proofs about the coprocessors on the bus of this processor.  The FP32   *)
(* unit is the atomic device Fp32Device, whatever it calculates, and the   *)
(* emulator's integer units return what those of the RTL return.           *)
(***************************************************************************)
EXTENDS Coprocessors, TLAPS

\* How far the FSM has come when the processor is in a given phase: a command
\* is taken in COMMIT and is over before the next access.
Stages ==
    /\ state = "IDLE" /\ start => phase = "COMMIT"
    /\ state = "EXEC" => start /\ phase \in {"COMMIT", "FETCH"}
    /\ state = "DONE" => start /\ phase \in {"COMMIT", "FETCH", "DECODE"}
    /\ busy <=> state # "IDLE"

FpInv == FpTypeOK /\ Stages

LEMMA FpInvInit == FpInit => FpInv
<1> SUFFICES ASSUME FpInit PROVE FpInv
  OBVIOUS
<1>1. FpTypeOK
  BY ResetAssumption DEF FpInit, PaceInit, FpTypeOK, Phases, Operand
<1>2. state = "IDLE" /\ ~start /\ ~busy
  BY Zenon DEF FpInit
<1>3. Stages
  BY <1>2 DEF Stages
<1> QED
  BY <1>1, <1>3 DEF FpInv

LEMMA PaceType == Pace => phase' \in Phases
BY DEF Pace, Phases

\* What the write port does to the operands and to START.
LEMMA PortStep ==
    ASSUME FpTypeOK, FpStore \/ NoStore
    PROVE  /\ operand_a' \in Operand /\ operand_b' \in Operand
           /\ operation' \in Operations /\ start' \in BOOLEAN
           /\ phase # "ACCESS" => start' = (start /\ state # "DONE")
<1>1. CASE phase = "ACCESS" /\ StoreA
  <2>1. PICK half \in {"lo", "hi"}, d \in Half : operand_a' = [operand_a EXCEPT ![half] = d]
    BY <1>1 DEF StoreA
  <2> QED
    BY <1>1, <2>1 DEF StoreA, FpTypeOK, Operand
<1>2. CASE phase = "ACCESS" /\ StoreB
  <2>1. PICK half \in {"lo", "hi"}, d \in Half : operand_b' = [operand_b EXCEPT ![half] = d]
    BY <1>2 DEF StoreB
  <2> QED
    BY <1>2, <2>1 DEF StoreB, FpTypeOK, Operand
<1>3. CASE phase = "ACCESS" /\ StoreControl
  BY <1>3 DEF StoreControl, FpTypeOK
<1>5. CASE phase = "ACCESS" /\ StoreReadOnly
  BY <1>5 DEF StoreReadOnly, FpTypeOK
<1>4. CASE NoStore
  BY <1>4 DEF NoStore, FpTypeOK
<1> QED
  BY <1>1, <1>2, <1>3, <1>4, <1>5 DEF FpStore

LEMMA FpInvStep == FpInv /\ [FpClock]_fpVars => FpInv'
<1> SUFFICES ASSUME FpInv, [FpClock]_fpVars PROVE FpInv'
  OBVIOUS
<1>1. CASE FpClock
  <2>1. /\ operand_a' \in Operand /\ operand_b' \in Operand
        /\ operation' \in Operations /\ start' \in BOOLEAN
        /\ phase # "ACCESS" => start' = (start /\ state # "DONE")
    BY <1>1, PortStep DEF FpClock, FpInv
  <2>2. phase' \in Phases
    BY <1>1, PaceType DEF FpClock
  <2>3. state' \in {"IDLE", "EXEC", "DONE"} /\ busy' \in BOOLEAN
    BY <1>1 DEF FpClock, Fsm, Idle, Execute, Done, FpInv, FpTypeOK
  <2>4. FpTypeOK'
    BY <2>1, <2>2, <2>3 DEF FpTypeOK
  <2>5. Stages'
    <3>1. CASE Idle
      BY <1>1, <2>1, <3>1 DEF FpClock, Pace, Idle, FpInv, Stages, FpTypeOK, Phases
    <3>2. CASE Execute
      BY <1>1, <2>1, <3>2 DEF FpClock, Pace, Execute, FpInv, Stages, FpTypeOK, Phases
    <3>3. CASE Done
      BY <1>1, <2>1, <3>3 DEF FpClock, Pace, Done, FpInv, Stages, FpTypeOK, Phases
    <3> QED
      BY <1>1, <3>1, <3>2, <3>3 DEF FpClock, Fsm
  <2> QED
    BY <2>4, <2>5 DEF FpInv
<1>2. CASE UNCHANGED fpVars
  BY <1>2 DEF fpVars, FpInv, FpTypeOK, Stages, Operand
<1> QED
  BY <1>1, <1>2

THEOREM FpInvariance == FpSpec => []FpInv
BY FpInvInit, FpInvStep, PTL DEF FpSpec

\* The registers of the coprocessor hold values of their width.
THEOREM FpTypeCorrect == FpSpec => []FpTypeOK
BY FpInvariance, PTL DEF FpInv

\* No access of the processor meets the coprocessor at work, with no busy bit
\* tested anywhere.
THEOREM DeviceIsSettled == FpSpec => []SettledAtAccess
<1>1. FpInv => SettledAtAccess
  BY DEF FpInv, FpTypeOK, Stages, SettledAtAccess
<1> QED
  BY <1>1, FpInvariance, PTL
-----------------------------------------------------------------------------
(* The refinement                                                          *)

\* A store happens to the atomic device when it happens to this one.
LEMMA StoreIsStore ==
    ASSUME FpInv, FpClock, FpStore
    PROVE  Device!DevNext
<1>1. state = "IDLE" /\ ~start /\ phase = "ACCESS"
  BY DEF FpInv, FpTypeOK, Stages, FpStore
<1>2. Idle /\ state' = "IDLE" /\ result' = result
  BY <1>1 DEF FpClock, Fsm, Idle, Execute, Done
<1>3. PromisedResult = result
  BY <1>1 DEF PromisedResult, Pending
<1>4. operand_a' \in Device!Operand /\ operand_b' \in Device!Operand
  BY PortStep DEF FpInv, Operand, Device!Operand
<1>5. CASE StoreA \/ StoreB \/ StoreReadOnly
  <2>1. PromisedResult' = result' /\ UNCHANGED operation
    BY <1>1, <1>2, <1>5 DEF PromisedResult, Pending, StoreA, StoreB, StoreReadOnly
  <2> QED
    BY <1>2, <1>3, <1>4, <2>1 DEF Device!DevNext, Device!StoreOperand
<1>6. CASE StoreControl
  <2>1. PromisedResult' =
          IF start' THEN Calculate(operand_a, operand_b, operation') ELSE result
    BY <1>2, <1>6 DEF PromisedResult, Pending, StoreControl
  <2>2. Device!Command(operation', start')
    BY <1>3, <1>6, <2>1 DEF Device!Command, StoreControl
  <2> QED
    BY <1>6, <2>2 DEF Device!DevNext, StoreControl
<1> QED
  BY <1>5, <1>6 DEF FpStore

\* On any other clock the atomic device stands still: what the FSM calculates
\* was promised before.
LEMMA ClockIsStutter ==
    ASSUME FpInv, FpClock, NoStore
    PROVE  UNCHANGED Device!devVars
<1>1. UNCHANGED <<operand_a, operand_b, operation>> /\ start' = (start /\ state # "DONE")
  BY DEF NoStore
<1>2. PromisedResult' = PromisedResult
  <2>1. CASE Idle
    BY <1>1, <2>1 DEF Idle, PromisedResult, Pending
  <2>2. CASE Execute
    BY <1>1, <2>2 DEF Execute, PromisedResult, Pending, FpInv, Stages
  <2>3. CASE Done
    BY <1>1, <2>3 DEF Done, PromisedResult, Pending
  <2> QED
    BY <2>1, <2>2, <2>3 DEF FpClock, Fsm
<1> QED
  BY <1>1, <1>2 DEF Device!devVars

\* The clocked coprocessor implements the atomic device: every START is
\* executed exactly once and on the operands it was stored for.
THEOREM CoprocessorIsDevice == FpSpec => ImplementsDevice
<1>1. FpInit => Device!DevInit
  BY DEF FpInit, Device!DevInit, PromisedResult, Pending
<1>2. FpInv /\ [FpClock]_fpVars => [Device!DevNext]_(Device!devVars)
  <2> SUFFICES ASSUME FpInv, [FpClock]_fpVars
               PROVE  [Device!DevNext]_(Device!devVars)
    OBVIOUS
  <2>1. CASE FpClock
    BY <2>1, StoreIsStore, ClockIsStutter DEF FpClock
  <2>2. CASE UNCHANGED fpVars
    BY <2>2 DEF fpVars, Device!devVars, PromisedResult, Pending
  <2> QED
    BY <2>1, <2>2
<1> QED
  BY <1>1, <1>2, FpInvariance, PTL DEF FpSpec, ImplementsDevice, Device!DevSpec

\* How many clocks a command takes at most from here.
CommandLeft == CASE state = "IDLE" -> 3 [] state = "EXEC" -> 2 [] OTHER -> 1

\* Every clock brings a command nearer to its end.
CommandsRunOut ==
    [][start => ~start' \/ (CommandLeft' \in Nat /\ CommandLeft' < CommandLeft)]_fpVars

\* A command takes at most three clocks, whatever the processor does meanwhile:
\* no store of a program falls into them.
THEOREM CommandIsShort == FpSpec => CommandsRunOut
<1>1. FpInv /\ [FpClock]_fpVars
        => [start => ~start' \/ (CommandLeft' \in Nat /\ CommandLeft' < CommandLeft)]_fpVars
  <2> SUFFICES ASSUME FpInv, FpClock, start, start'
               PROVE  CommandLeft' \in Nat /\ CommandLeft' < CommandLeft
    OBVIOUS
  <2>1. phase # "ACCESS" /\ state \in {"IDLE", "EXEC", "DONE"}
    BY DEF FpInv, FpTypeOK, Stages
  <2>2. start' = (start /\ state # "DONE")
    BY <2>1, PortStep DEF FpInv, FpClock
  <2>3. \/ state = "IDLE" /\ state' = "EXEC"
        \/ state = "EXEC" /\ state' = "DONE"
    BY <2>1, <2>2 DEF FpClock, Fsm, Idle, Execute, Done
  <2> QED
    BY <2>3 DEF CommandLeft
<1> QED
  BY <1>1, FpInvariance, PTL DEF FpSpec, CommandsRunOut

-----------------------------------------------------------------------------
(* Beside the integer units                                                *)

\* The stores to the other devices are clocks without a store to this one.
LEMMA OnTheBus == CopSpec => FpSpec
<1>1. CopInit => FpInit
  BY DEF CopInit
<1>2. [CopClock]_copVars => [FpClock]_fpVars
  BY DEF CopClock, FpClock, copVars
<1> QED
  BY <1>1, <1>2, PTL DEF CopSpec, FpSpec

\* Beside the multiplier and the 32-bit integer unit the coprocessor is the
\* same: no program finds it at work, and it implements the atomic device.
THEOREM SettledOnTheBus == CopSpec => []SettledAtAccess /\ ImplementsDevice
BY OnTheBus, DeviceIsSettled, CoprocessorIsDevice
-----------------------------------------------------------------------------
(* The 32-bit integer unit                                                 *)

\* The emulator's unit has the operands of the RTL's, and from the tick before
\* a FETCH to the next store the result of its own command.
WideInv ==
    /\ phase \in Phases
    /\ {"a", "b", "cmd", "out"} \subseteq DOMAIN wide
    /\ {"a", "b", "cmd"} \subseteq DOMAIN int32
    /\ wide.a = int32.a /\ wide.b = int32.b
    /\ int32.cmd = wide.cmd % 8 \/ (int32.cmd = 7 /\ wide.cmd = 0)
    /\ phase \in {"DECODE", "EXECUTE", "ACCESS"} =>
         wide.out = Combine(wide.cmd, Full(wide.a), Full(wide.b))

LEMMA LongStores ==
    ASSUME WideInv, LongStore
    PROVE  /\ DOMAIN wide' = DOMAIN wide /\ DOMAIN int32' = DOMAIN int32
           /\ wide'.a = int32'.a /\ wide'.b = int32'.b
           /\ int32'.cmd = wide'.cmd % 8 \/ (int32'.cmd = 7 /\ wide'.cmd = 0)
<1>1. CASE \E half \in {"lo", "hi"}, d \in Words : StoreLongA(half, d)
  BY <1>1 DEF StoreLongA, WideInv
<1>2. CASE \E half \in {"lo", "hi"}, d \in Words : StoreLongB(half, d)
  BY <1>2 DEF StoreLongB, WideInv
<1>3. CASE \E c \in Commands : StoreCommand(c)
  BY <1>3 DEF StoreCommand, WideInv
<1> QED
  BY <1>1, <1>2, <1>3 DEF LongStore

LEMMA WideInvStep == WideInv /\ [CopClock]_copVars => WideInv'
<1> SUFFICES ASSUME WideInv, [CopClock]_copVars PROVE WideInv'
  OBVIOUS
<1>1. CASE UNCHANGED <<phase, wide, int32>>
  BY <1>1 DEF WideInv
<1>2. CASE Pace /\ phase = "ACCESS" /\ LongStore
  BY <1>2, LongStores DEF WideInv, Pace, Phases
<1>3. CASE Pace /\ phase = "FETCH" /\ EmuTick
  BY <1>3 DEF EmuTick, WideTick, WideInv, Pace, Phases
<1>4. CASE Pace /\ phase # "FETCH" /\ UNCHANGED <<wide, int32>>
  BY <1>4 DEF WideInv, Pace, Phases
<1>5. FpStore => phase # "FETCH"
  BY DEF FpStore
<1>6. FactorStore => UNCHANGED <<wide, int32>>
  BY DEF FactorStore, StoreFactorA, StoreFactorB
<1> QED
  BY <1>1, <1>2, <1>3, <1>4, <1>5, <1>6
     DEF CopClock, IntClock, copVars, fpVars, intVars

\* Whatever a program stores, and in whatever order, a load from the emulator's
\* 32-bit integer unit returns what the unit's own command makes of the RTL's
\* operands; and the commands are the same one but before the first is stored
\* and beyond 7 (WideIntCoprocessor.cpp:53-90, testbench.sv:184-212).
THEOREM WideIsExact == CopSpec => []WideAgrees
<1>1. CopInit => WideInv
  BY DEF CopInit, FpInit, PaceInit, Phases, IntInit, WideInv
<1>2. WideInv => WideAgrees
  BY DEF WideInv, WideAgrees, int32_result
<1> QED
  BY <1>1, <1>2, WideInvStep, PTL DEF CopSpec
-----------------------------------------------------------------------------
(* The multiplier                                                          *)

LEMMA Powers ==
    \/ Modulus = 2 \/ Modulus = 4 \/ Modulus = 16 \/ Modulus = 256 \/ Modulus = 65536
<1>1. CASE WordBits = 1
  BY <1>1 DEF Modulus
<1>2. CASE WordBits = 2
  BY <1>2 DEF Modulus
<1>3. CASE WordBits = 4
  BY <1>3 DEF Modulus
<1>4. CASE WordBits = 8
  BY <1>4 DEF Modulus
<1>5. CASE WordBits = 16
  BY <1>5 DEF Modulus
<1> QED
  BY <1>1, <1>2, <1>3, <1>4, <1>5, WordBitsAssumption

\* Multiples of the modulus do not reach the low word.
LEMMA LowWord ==
    ASSUME NEW n \in Int, NEW k \in Int
    PROVE  (n + Modulus * k) % Modulus = n % Modulus
BY Powers

\* The sign of a factor shows in the high word of a product only.
LEMMA SignIsHigh ==
    ASSUME NEW x \in Words, NEW y \in Words
    PROVE  (AsSigned(x) * AsSigned(y)) % Modulus = (x * y) % Modulus
<1> DEFINE s == IF x >= Modulus \div 2 THEN 1 ELSE 0
           t == IF y >= Modulus \div 2 THEN 1 ELSE 0
           k == Modulus * (s * t) - s * y - t * x
<1>1. x \in Int /\ y \in Int /\ Modulus \in Int
  BY Powers DEF Words
<1>2. s \in Int /\ t \in Int /\ k \in Int /\ x * y \in Int
  BY <1>1
<1>3. AsSigned(x) = x - Modulus * s /\ AsSigned(y) = y - Modulus * t
  BY <1>1 DEF AsSigned
<1>4. AsSigned(x) * AsSigned(y) = x * y + Modulus * k
  BY <1>1, <1>2, <1>3
<1> HIDE DEF s, t, k
<1> QED
  BY <1>2, <1>4, LowWord

\* The emulator's unit has the factors of the RTL's and, since the last store,
\* their signed or unsigned product.
ProductInv ==
    /\ mdu \in [a : Words, b : Words]
    /\ {"a", "b", "out"} \subseteq DOMAIN multiplier
    /\ multiplier.a = mdu.a /\ multiplier.b = mdu.b
    /\ multiplier.out = IF last_stored = "a" THEN multiplySigned(mdu.a, mdu.b)
                        ELSE multiplyUnsigned(mdu.a, mdu.b)

LEMMA ProductInvStep == ProductInv /\ [CopClock]_copVars => ProductInv'
<1> SUFFICES ASSUME ProductInv, [CopClock]_copVars PROVE ProductInv'
  OBVIOUS
<1>1. CASE UNCHANGED <<mdu, multiplier, last_stored>>
  BY <1>1 DEF ProductInv, multiplySigned, multiplyUnsigned
<1>2. ASSUME NEW d \in Words, StoreFactorA(d) PROVE ProductInv'
  BY <1>2 DEF StoreFactorA, MultiplierStoreA, ProductInv, multiplySigned, multiplyUnsigned
<1>3. ASSUME NEW d \in Words, StoreFactorB(d) PROVE ProductInv'
  BY <1>3 DEF StoreFactorB, MultiplierStoreB, ProductInv, multiplySigned, multiplyUnsigned
<1>4. LongStore => UNCHANGED <<mdu, multiplier, last_stored>>
  BY DEF LongStore, StoreLongA, StoreLongB, StoreCommand
<1> QED
  BY <1>1, <1>2, <1>3, <1>4
     DEF CopClock, IntClock, FactorStore, EmuTick, copVars, intVars

\* The low word of a product is the same in both systems for all factors and
\* any order of stores, and the high word is if the factor stored last is not
\* A, or no factor has its sign bit set.
THEOREM ProductIsExact == CopSpec => []ProductAgrees
<1>1. CopInit => ProductInv
  <2>1. 0 \in Words /\ 0 * 0 = 0
    BY Powers DEF Words
  <2> QED
    BY <2>1 DEF CopInit, IntInit, ProductInv, multiplyUnsigned
<1>2. ProductInv => ProductAgrees
  <2> SUFFICES ASSUME ProductInv PROVE ProductAgrees
    OBVIOUS
  <2>1. mdu.a \in Words /\ mdu.b \in Words
    BY DEF ProductInv
  <2>2. CASE last_stored # "a"
    BY <2>2 DEF ProductInv, ProductAgrees, mdu_product, multiplyUnsigned
  <2>3. CASE last_stored = "a"
    <3>1. multiplier.out = Pair(AsSigned(mdu.a) * AsSigned(mdu.b))
      BY <2>3 DEF ProductInv, multiplySigned
    <3>2. multiplier.out.lo = mdu_product.lo
      BY <2>1, <3>1, SignIsHigh DEF mdu_product, Pair
    <3>3. mdu.a < Modulus \div 2 /\ mdu.b < Modulus \div 2 =>
            AsSigned(mdu.a) = mdu.a /\ AsSigned(mdu.b) = mdu.b
      BY <2>1, Powers DEF AsSigned, Words
    <3> QED
      BY <2>3, <3>1, <3>2, <3>3 DEF ProductAgrees, mdu_product
  <2> QED
    BY <2>2, <2>3
<1> QED
  BY <1>1, <1>2, ProductInvStep, PTL DEF CopSpec
=============================================================================
