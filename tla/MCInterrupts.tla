---------------------------- MODULE MCInterrupts ----------------------------
(***************************************************************************)
(* The end of interrupts, and the timer's interrupt with the waits for it, *)
(* on small instances.  The two share no variable, so a behaviour is that  *)
(* of one of them: Pit is extended, Interrupts is an instance.             *)
(***************************************************************************)
EXTENDS Pit

VARIABLES
  part,   \* the part that is looked at
  lapic, requested, isr, enabled, frames, pic, stray

dispatchVars == <<lapic, requested, isr, enabled, frames, pic, stray>>

(* One CPU and three fixed vectors: CPUs meet only in the requests they     *)
(* send each other, and a request comes at any time here.                   *)
Dispatch == INSTANCE Interrupts WITH
  Cpu <- {0}, Boot <- 0, Fixed <- {49, 65, 240}, Exception <- 14, MaxFrames <- 4,
  irr <- requested, iflag <- enabled

MCInit ==
  /\ part \in {"dispatch", "timer"}
  /\ IF part = "timer" THEN TRUE ELSE target = 500
  /\ Init /\ Dispatch!Init

MCNext ==
  \/ part = "dispatch" /\ Dispatch!Next /\ UNCHANGED <<part, vars>>
  \/ part = "timer" /\ Next /\ UNCHANGED <<part, dispatchVars>>

(* The fairness of the part that is looked at, as its module explains it.   *)
Fair ==
  /\ WF_dispatchVars(part = "dispatch" /\ Dispatch!Step(0))
  /\ WF_vars(part = "timer" /\ initialize_PIT_timer)
  /\ WF_vars(part = "timer" /\ Clock) /\ WF_vars(part = "timer" /\ PassOn)
  /\ \A c \in Cpu :
       /\ SF_vars(part = "timer" /\ Test(c)) /\ SF_vars(part = "timer" /\ halt(c))
       /\ SF_vars(part = "timer" /\ Deliver(c)) /\ WF_vars(part = "timer" /\ Unmask(c))

MCSpec == MCInit /\ [][MCNext]_<<part, vars, dispatchVars>> /\ Fair

-----------------------------------------------------------------------------
(* What the interrupt controllers hold in service is what is being served,  *)
(* and only that is ended.                                                  *)
ServiceExact == Dispatch!ServiceExact

(* A fixed interrupt that is in service is ended, and a wait for the timer  *)
(* ends on every CPU.                                                       *)
ServiceAndWaitsEnd == Dispatch!ServiceEnds /\ WaitEnds
=============================================================================
