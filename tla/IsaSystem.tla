----------------------------- MODULE IsaSystem -----------------------------
(***************************************************************************)
(* The programmer's view of the whole machine: the atomic processor of Isa *)
(* with its memory.  A store to the DMA counter moves the whole block      *)
(* before the next instruction, as if the processor were not there.        *)
(***************************************************************************)
EXTENDS Isa, Memory

VARIABLE mem

sysVars == <<vars, mem>>

\* The address and the value the memory access of instruction i is about.
AccessAddress(i, immx) == At(DATA_EAM, OpX(i, immx))

SysExecute(i, immx, immy) ==
    \/ /\ i.op = OpLdm
       /\ \E data \in Loaded(mem, AccessAddress(i, immx)) :
             Execute(i, immx, immy, data)
       /\ UNCHANGED mem
    \/ /\ i.op = OpStm
       /\ Execute(i, immx, immy, 0)
       /\ mem' = DmaDone(Stored(mem, AccessAddress(i, immx), OpY(i, immy)))
    \/ /\ i.op \notin {OpLdm, OpStm}
       /\ Execute(i, immx, immy, 0)
       /\ UNCHANGED mem

\* The words an immediate operand can have, if the instruction has one.
Immediates(present) == IF present THEN Word ELSE {0}

SysNext ==
    \/ \E i \in Instructions :
          \E immx \in Immediates(i.LX), immy \in Immediates(i.LY) :
             SysExecute(i, immx, immy)
    \/ \E v \in Address : TakeInterrupt(v) /\ UNCHANGED mem

SysSpec == Init /\ mem \in MemoryAtReset /\ [][SysNext]_sysVars
=============================================================================
