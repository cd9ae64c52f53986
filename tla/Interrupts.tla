----------------------------- MODULE Interrupts -----------------------------
(***************************************************************************)
(* The dispatch of interrupts (src/kernel/interrupt/interrupts.c) with     *)
(* what ends them: the in-service register of each local APIC (apic.c) and *)
(* the pair of 8259 PICs, which are masked but may still raise spurious    *)
(* interrupts on the boot CPU (pic.c).                                     *)
(*                                                                         *)
(* A CPU is a stack of frames, one per interrupt_routine in progress.      *)
(* Exceptions come through trap gates, which leave the interrupt flag      *)
(* alone, all other vectors through interrupt gates (setup_idt).           *)
(***************************************************************************)
EXTENDS Integers, Sequences, FiniteSets, FiniteSetsExt

CONSTANTS
  Cpu,        \* CPUs
  Boot,       \* the one the PICs interrupt
  Fixed,      \* vectors of fixed interrupts: IPIs and redirected lines
  Exception,  \* the vector of an exception (below 32)
  MaxFrames   \* bound: interrupt_routines in progress on one CPU

SPURIOUS == 255        \* APIC_SPURIOUS_INTERRUPTS_VECTOR
PIC_IDT_START == 32
PIC_IDT_SIZE == 16

VARIABLES
  lapic,     \* each local APIC: "off", "on" (hardware), "enabled" (the flag too)
  irr, isr,  \* requested and in-service fixed vectors of each local APIC
  iflag,     \* the interrupt flag of each CPU
  frames,    \* the interrupt_routines in progress, innermost first
  pic,       \* the in-service lines of the two PICs
  stray      \* controllers told of the end of an interrupt they did not serve

vars == <<lapic, irr, isr, iflag, frames, pic, stray>>

-----------------------------------------------------------------------------
(* Entry through a gate.  "fresh" says that the code the frame interrupts   *)
(* has not faulted yet: an instruction that faults is executed once more    *)
(* and then goes on.                                                        *)
Frame(c, v) == [vector |-> v, pc |-> "entry", saved |-> iflag[c], fresh |-> TRUE]

TrapGate(v) == v < 32

Enter(c, v) ==
  /\ Len(frames[c]) < MaxFrames
  /\ frames' = [frames EXCEPT ![c] = <<Frame(c, v)>> \o @]
  /\ iflag' = [iflag EXCEPT ![c] = TrapGate(v) /\ @]

(* A fixed interrupt is requested: an IPI, or a line of an IO APIC.  A      *)
(* local APIC that is off drops it.                                         *)
Request(c, v) ==
  /\ lapic[c] # "off"
  /\ irr' = [irr EXCEPT ![c] = @ \cup {v}]
  /\ UNCHANGED <<lapic, isr, iflag, frames, pic, stray>>

(* The local APIC hands over its highest request, if nothing as urgent is   *)
(* in service.                                                              *)
Deliver(c) ==
  /\ iflag[c] /\ irr[c] # {}
  /\ LET v == Max(irr[c])
     IN /\ \A s \in isr[c] : v > s
        /\ irr' = [irr EXCEPT ![c] = @ \ {v}]
        /\ isr' = [isr EXCEPT ![c] = @ \cup {v}]
        /\ Enter(c, v)
  /\ UNCHANGED <<lapic, pic, stray>>

(* A request that went away is delivered with the spurious vector, and no   *)
(* in-service bit is set for it.                                            *)
DeliverSpurious(c) ==
  /\ lapic[c] # "off" /\ iflag[c]
  /\ Enter(c, SPURIOUS)
  /\ UNCHANGED <<lapic, irr, isr, pic, stray>>

(* The line of the master the slave is wired to, as init_pic tells both.    *)
CascadeLine == 2

(* A spurious interrupt of a PIC comes on its last line.  The slave's goes  *)
(* through a line of the master, which takes it for a real one.  Both PICs  *)
(* have been masked by disable_pic.                                         *)
DeliverPic(irq) ==
  /\ iflag[Boot]
  /\ irq = 15 => pic.master = {}
  /\ Enter(Boot, PIC_IDT_START + irq)
  /\ pic' = IF irq = 15 THEN [pic EXCEPT !.master = {CascadeLine}] ELSE pic
  /\ UNCHANGED <<lapic, irr, isr, stray>>

(* The code that runs on c faults: a handler, or what it interrupted.       *)
Fault(c) ==
  /\ frames[c] # <<>> => Head(frames[c]).pc = "handler" /\ Head(frames[c]).fresh
  /\ Len(frames[c]) < MaxFrames
  /\ frames' = [frames EXCEPT ![c] =
       <<Frame(c, Exception)>> \o
       (IF @ = <<>> THEN @ ELSE <<[Head(@) EXCEPT !.fresh = FALSE]>> \o Tail(@))]
  /\ iflag' = [iflag EXCEPT ![c] = TrapGate(Exception) /\ @]
  /\ UNCHANGED <<lapic, irr, isr, pic, stray>>

-----------------------------------------------------------------------------
(* get_pic_isr reads the slave's register for both bytes of its result.     *)
get_pic_isr == pic.slave \cup {8 + l : l \in pic.slave}

(* is_pic_interrupt_spurious: nothing is tested for line 15.                *)
is_pic_interrupt_spurious(irq) == irq = 7 /\ irq \notin get_pic_isr

(* The controllers pic_ack_interrupt sends the end of interrupt to.         *)
AckedPics(irq, spurious) ==
  IF spurious THEN (IF irq = 15 THEN {"master"} ELSE {})
  ELSE {"master"} \cup (IF irq >= 8 THEN {"slave"} ELSE {})

(* A PIC ends its most urgent line in service.                              *)
Ended(lines) == IF lines = {} THEN {} ELSE lines \ {Min(lines)}

pic_ack_interrupt(irq) ==
  LET to == AckedPics(irq, is_pic_interrupt_spurious(irq))
  IN /\ pic' = [p \in DOMAIN pic |-> IF p \in to THEN Ended(pic[p]) ELSE pic[p]]
     /\ stray' = stray \cup {p \in to : pic[p] = {}}

IsPic(v) == v - PIC_IDT_START \in 0..PIC_IDT_SIZE - 1

Goto(c, pc) == frames' = [frames EXCEPT ![c][1].pc = pc]

(* interrupt_routine up to the call of the handler.                         *)
Dispatch(c) ==
  /\ frames[c] # <<>> /\ Head(frames[c]).pc = "entry"
  /\ LET v == Head(frames[c]).vector
     IN \/ IsPic(v) /\ pic_ack_interrupt(v - PIC_IDT_START) /\ Goto(c, "return")
        \/ ~IsPic(v) /\ v = SPURIOUS /\ Goto(c, "return") /\ UNCHANGED <<pic, stray>>
        \/ ~IsPic(v) /\ v # SPURIOUS /\ Goto(c, "handler") /\ UNCHANGED <<pic, stray>>
  /\ UNCHANGED <<lapic, irr, isr, iflag>>

HandlerReturns(c) ==
  /\ frames[c] # <<>> /\ Head(frames[c]).pc = "handler"
  /\ Goto(c, "eoi")
  /\ UNCHANGED <<lapic, irr, isr, iflag, pic, stray>>

is_local_apic_initialized(c) == lapic[c] = "enabled"

is_interrupt_lapic_generated(c, v) == v \in isr[c]

(* interrupt_routine after the handler.  The end of interrupt ends the      *)
(* highest vector in service, whatever interrupt it was meant for.          *)
NeedsEoi(c, v) == is_local_apic_initialized(c) /\ is_interrupt_lapic_generated(c, v)

EndOfInterrupt(c) ==
  /\ frames[c] # <<>> /\ Head(frames[c]).pc = "eoi"
  /\ IF NeedsEoi(c, Head(frames[c]).vector)
     THEN /\ isr' = [isr EXCEPT ![c] = IF @ = {} THEN @ ELSE @ \ {Max(@)}]
          /\ stray' = IF isr[c] = {} THEN stray \cup {"lapic"} ELSE stray
     ELSE UNCHANGED <<isr, stray>>
  /\ Goto(c, "return")
  /\ UNCHANGED <<lapic, irr, iflag, pic>>

(* iretq: the interrupted code goes on with its own interrupt flag.         *)
Return(c) ==
  /\ frames[c] # <<>> /\ Head(frames[c]).pc = "return"
  /\ iflag' = [iflag EXCEPT ![c] = Head(frames[c]).saved]
  /\ frames' = [frames EXCEPT ![c] = Tail(@)]
  /\ UNCHANGED <<lapic, irr, isr, pic, stray>>

-----------------------------------------------------------------------------
(* init_local_apic: the local APIC is switched on, then marked as enabled.  *)
SwitchOn(c) ==
  /\ lapic[c] = "off" /\ frames[c] = <<>>
  /\ lapic' = [lapic EXCEPT ![c] = "on"]
  /\ UNCHANGED <<irr, isr, iflag, frames, pic, stray>>

MarkEnabled(c) ==
  /\ lapic[c] = "on" /\ frames[c] = <<>>
  /\ lapic' = [lapic EXCEPT ![c] = "enabled"]
  /\ UNCHANGED <<irr, isr, iflag, frames, pic, stray>>

(* kinit and the start of an AP enable interrupts after that.               *)
ReadyForInterrupts_On(c) == lapic[c] # "off"

ReadyForInterrupts(c) == lapic[c] = "enabled"

enable_interrupts(c) ==
  /\ ReadyForInterrupts(c) /\ frames[c] = <<>> /\ ~iflag[c]
  /\ iflag' = [iflag EXCEPT ![c] = TRUE]
  /\ UNCHANGED <<lapic, irr, isr, frames, pic, stray>>

Init ==
  /\ lapic = [c \in Cpu |-> "off"]
  /\ irr = [c \in Cpu |-> {}] /\ isr = [c \in Cpu |-> {}]
  /\ iflag = [c \in Cpu |-> FALSE]
  /\ frames = [c \in Cpu |-> <<>>]
  /\ pic = [master |-> {}, slave |-> {}]
  /\ stray = {}

Step(c) == Dispatch(c) \/ HandlerReturns(c) \/ EndOfInterrupt(c) \/ Return(c)

Next ==
  \/ \E c \in Cpu :
       \/ \E v \in Fixed : Request(c, v)
       \/ Deliver(c) \/ DeliverSpurious(c) \/ Fault(c)
       \/ Dispatch(c) \/ HandlerReturns(c) \/ EndOfInterrupt(c) \/ Return(c)
       \/ SwitchOn(c) \/ MarkEnabled(c) \/ enable_interrupts(c)
  \/ \E irq \in {7, 15} : DeliverPic(irq)

(* A CPU executes the code it is in.                                        *)
Spec == Init /\ [][Next]_vars /\ \A c \in Cpu : WF_vars(Step(c))
-----------------------------------------------------------------------------
(* The type of the state.                                                   *)
TypeOK ==
  /\ lapic \in [Cpu -> {"off", "on", "enabled"}]
  /\ irr \in [Cpu -> SUBSET Fixed] /\ isr \in [Cpu -> SUBSET Fixed]
  /\ iflag \in [Cpu -> BOOLEAN]
  /\ pic \in [{"master", "slave"} -> SUBSET (0..7)]
  /\ \A c \in Cpu : \A i \in DOMAIN frames[c] :
       frames[c][i].pc \in {"entry", "handler", "eoi", "return"}

(* The in-service register of a CPU holds exactly the fixed interrupts      *)
(* whose interrupt_routine has not sent its end of interrupt: none is left  *)
(* in service, where it would block its vector and all lower ones for ever, *)
(* and none is ended on behalf of another one.                              *)
InServiceIsRunning ==
  \A c \in Cpu :
    isr[c] = {v \in Fixed : \E i \in DOMAIN frames[c] :
                frames[c][i].vector = v /\ frames[c][i].pc # "return"}

(* No end of interrupt is sent to a local APIC or to the master PIC that    *)
(* has nothing in service (exceptions and spurious interrupts get none).    *)
EoiOnlyIfServed == stray \cap {"lapic", "master"} = {}

(* Line 2 of the master stays in service no longer than the interrupt of    *)
(* the slave that came through it, so that the slave can interrupt again.   *)
MasterLineReleased ==
  pic.master # {} =>
    \E i \in DOMAIN frames[Boot] :
      frames[Boot][i].vector = PIC_IDT_START + 15 /\ frames[Boot][i].pc = "entry"

(* Controllers and CPUs agree on what is in service, at any nesting of      *)
(* interrupts, spurious interrupts and exceptions.                          *)
ServiceExact == TypeOK /\ InServiceIsRunning /\ EoiOnlyIfServed /\ MasterLineReleased

(* A fixed interrupt that is in service is ended.                           *)
ServiceEnds == \A c \in Cpu, v \in Fixed : v \in isr[c] ~> v \notin isr[c]

(* A spurious interrupt of the slave PIC is acknowledged to the master      *)
(* only, as the comment in pic_ack_interrupt says.                          *)
SlaveNotAcked == "slave" \notin stray
=============================================================================
