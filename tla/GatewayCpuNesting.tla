------------------------- MODULE GatewayCpuNesting -------------------------
(***************************************************************************)
(* How calls, returns and interrupts share the one hardware stack of       *)
(* design.sv.  A history variable remembers, for each address on the       *)
(* stack, whether a CAL or an interrupt put it there.                      *)
(***************************************************************************)
EXTENDS GatewayCpu

VARIABLE frames     \* "call" or "interrupt", one for each stack entry

nestVars == <<cpuVars, frames>>

NestInit == CpuInit /\ frames = <<>>

Record ==
    frames' = IF Len(call_stack') > Len(call_stack)
                THEN Append(frames, IF state = "INTERRUPT" THEN "interrupt"
                                                           ELSE "call")
              ELSE IF Len(call_stack') < Len(call_stack)
                THEN SubSeq(frames, 1, Len(frames) - 1)
              ELSE frames

NestNext == Next /\ Record

Handlers == {k \in 1 .. Len(frames) : frames[k] = "interrupt"}

\* A program that returns with RET.C from every subroutine called inside an
\* interrupt handler: the only RET it fetches there that enables interrupts is
\* the handler's own.
ReturnsMasked ==
    state = "DECODE" /\ IR.op = OpRet /\ Handlers # {}
      => IR.M \/ frames[Len(frames)] = "interrupt"

DisciplinedSpec == NestInit /\ [][NestNext /\ ReturnsMasked']_nestVars

\* Interrupts may not interrupt interrupts (ABI.md): no two stack entries are
\* interrupted programs.
InterruptsDoNotNest == \A k, l \in Handlers : k = l

\* While a handler is anywhere on the stack, interrupts are off, and the FSM is
\* not on its way into another handler.
HandlerRunsMasked ==
    Handlers # {} => ~interrupt_enable /\ state # "INTERRUPT"
=============================================================================
