-------------------------------- MODULE Pit ---------------------------------
(***************************************************************************)
(* The interval timer (src/kernel/timer/pit.c): how it is programmed, how  *)
(* its interrupt is counted on one CPU and passed on to the others, and    *)
(* the waits that test the tick counter and halt.                          *)
(*                                                                         *)
(* Time passes in steps of the timer's input clock.  A tick counter is     *)
(* only read as a difference to an earlier reading, so the model keeps,    *)
(* for each CPU that waits, the ticks counted since its wait began.        *)
(***************************************************************************)
EXTENDS Integers, Sequences, FiniteSets

CONSTANTS
  Cpu,          \* CPUs
  Boot,         \* the one that initialises the timer and gets its interrupt
  ZeroId,       \* the CPU whose APIC id is 0
  PIT_FREQ_HZ,  \* the input clock
  Targets,      \* frequencies that may be asked for
  CounterMax,   \* the largest counter value (0xffff)
  Scale,        \* units of a wait per second (1000 or 1000000)
  Waits,        \* lengths of waits, in those units
  MaxTicks,     \* bound: ticks counted for a wait
  MaxClocks     \* bound: clocks counted for a wait

(* A frequency of 0 or above the input clock's would divide by zero.  The   *)
(* bound on clocks is not reached before the ticks it allows.               *)
ASSUME PitAssumption ==
  /\ Boot \in Cpu /\ ZeroId \in Cpu
  /\ PIT_FREQ_HZ \in Nat \ {0} /\ Targets \subseteq 1 .. PIT_FREQ_HZ
  /\ CounterMax \in Nat \ {0} /\ Scale \in Nat /\ Waits \subseteq Nat
  /\ MaxTicks \in Nat \ {0, 1} /\ MaxClocks \in Nat
  /\ (MaxTicks - 2) * CounterMax <= MaxClocks

VARIABLES
  setup,    \* how many steps of initialize_PIT_timer are done
  target,   \* the frequency asked for
  channel,  \* the hardware's channel 0
  receiver, \* pit->interrupt_receiver_apic_id, as a CPU
  table,    \* what the interrupt table holds: "handler", "extra"
  routed,   \* the IO APIC sends the interrupt to Boot
  clock,    \* input clocks since the last tick
  irr,      \* CPUs with a requested timer interrupt
  iflag,    \* CPUs with interrupts enabled
  passing,  \* the handler on Boot has counted and not yet sent the IPI
  wait,     \* the wait of each CPU
  wrong     \* what interrupts met that they should not have

vars == <<setup, target, channel, receiver, table, routed, clock, irr, iflag,
          passing, wait, wrong>>

-----------------------------------------------------------------------------
(* get_counter_value_from_frequency and its inverse.  The rounding never    *)
(* applies: the remainder is below the divisor.                             *)
Rounded(q, r) == IF r > PIT_FREQ_HZ \div 2 THEN q + 1 ELSE q

Capped(n) == IF n > CounterMax THEN CounterMax ELSE n

counter == Capped(Rounded(PIT_FREQ_HZ \div target, PIT_FREQ_HZ % target))

interrupt_frequency == Rounded(PIT_FREQ_HZ \div counter, PIT_FREQ_HZ % counter)

(* make_control_word assigns three times, and only the last field is left.  *)
make_control_word(select, rw, mode) == [select |-> select, rw |-> 0, mode |-> 0]

PIT_MODE_COMMAND_PORT == 66  \* 0x42

(* A byte written to the command port 0x43 sets the mode of a channel; one  *)
(* written to 0x42 goes to channel 2.                                       *)
Command(port, word) == IF port = 67 THEN [channel EXCEPT !.mode = word.mode] ELSE channel

BytesOf(n) == <<n % 256, n \div 256>>

(* The steps of initialize_PIT_timer, in their order.                       *)
Steps == <<"handler", "extra", "command", "low", "high", "receiver", "enable">>

Ready == setup = Len(Steps)

initialize_PIT_timer ==
  /\ ~Ready
  /\ setup' = setup + 1
  /\ LET s == Steps[setup + 1]
     IN /\ table' = IF s \in {"handler", "extra"} THEN table \cup {s} ELSE table
        /\ channel' = CASE s = "command" -> Command(PIT_MODE_COMMAND_PORT, make_control_word(0, 3, 2))
                        [] s = "low" -> [channel EXCEPT !.low = BytesOf(counter)[1]]
                        [] s = "high" -> [channel EXCEPT !.high = BytesOf(counter)[2]]
                        [] OTHER -> channel
        /\ receiver' = IF s = "receiver" THEN Boot ELSE receiver
        /\ routed' = (routed \/ s = "enable")
  /\ UNCHANGED <<target, clock, irr, iflag, passing, wait, wrong>>

-----------------------------------------------------------------------------
Reload == channel.low + 256 * channel.high

(* A clock of the hardware, which counts down from the value it was given   *)
(* (or from the largest one) and interrupts at the end.                     *)
Clock ==
  /\ IF clock + 1 >= (IF Reload = 0 THEN CounterMax ELSE Reload)
     THEN clock' = 0 /\ irr' = IF routed THEN irr \cup {Boot} ELSE irr
     ELSE clock' = clock + 1 /\ UNCHANGED irr
  /\ wait' = [c \in Cpu |-> IF wait[c].pc \in {"idle", "over"} \/ wait[c].clocks = MaxClocks
                            THEN wait[c] ELSE [wait[c] EXCEPT !.clocks = @ + 1]]
  /\ UNCHANGED <<setup, target, channel, receiver, table, routed, iflag, passing, wrong>>

(* PIT_interrupt_handler goes on only on the CPU that gets the hardware's   *)
(* interrupt.                                                               *)
Counts_Everywhere(c) == TRUE

Counts(c) == c = receiver

Counted(w) == IF w.ticks = MaxTicks THEN w ELSE [w EXCEPT !.ticks = @ + 1]

Woken(w) == IF w.pc = "asleep" THEN [w EXCEPT !.pc = "test"] ELSE w

(* interrupt_routine with the handler and the data it finds in the table.   *)
Deliver(c) ==
  /\ c \in irr /\ c \in iflag /\ ~(c = Boot /\ passing)
  /\ irr' = irr \ {c}
  /\ wait' = [x \in Cpu |->
       LET w == IF Counts(c) THEN Counted(wait[x]) ELSE wait[x]
       IN IF x = c THEN Woken(w) ELSE w]
  /\ passing' = (passing \/ (Counts(c) /\ c = Boot))
  /\ wrong' = wrong \cup (IF table = {"handler", "extra"} THEN {} ELSE {"no data"})
                    \cup (IF c = Boot /\ ~Counts(c) THEN {"dropped"} ELSE {})
  /\ UNCHANGED <<setup, target, channel, receiver, table, routed, clock, iflag>>

(* send_IPI_by_destination_shorthand at the end of the handler.             *)
Others_None == {}

Others == Cpu \ {Boot}

PassOn ==
  /\ passing
  /\ passing' = FALSE
  /\ irr' = irr \cup Others
  /\ UNCHANGED <<setup, target, channel, receiver, table, routed, clock, iflag, wait, wrong>>

-----------------------------------------------------------------------------
Running(c) == ~(c = Boot /\ passing)

(* PIT_wait_ms, PIT_wait_us: the caller has interrupts enabled.             *)
StartWait(c, n) ==
  /\ Ready /\ Running(c) /\ wait[c].pc = "idle" /\ c \in iflag
  /\ wait' = [wait EXCEPT ![c] = [pc |-> "test", length |-> n, ticks |-> 0, clocks |-> 0]]
  /\ UNCHANGED <<setup, target, channel, receiver, table, routed, clock, irr, iflag, passing, wrong>>

Converted(ticks) == (ticks * Scale) \div interrupt_frequency

Test(c) ==
  /\ Running(c) /\ wait[c].pc = "test"
  /\ wait' = [wait EXCEPT ![c].pc =
                IF Converted(wait[c].ticks) < wait[c].length THEN "to halt" ELSE "over"]
  /\ UNCHANGED <<setup, target, channel, receiver, table, routed, clock, irr, iflag, passing, wrong>>

halt(c) ==
  /\ Running(c) /\ wait[c].pc = "to halt"
  /\ wait' = [wait EXCEPT ![c].pc = "asleep"]
  /\ UNCHANGED <<setup, target, channel, receiver, table, routed, clock, irr, iflag, passing, wrong>>

(* Any other interrupt ends a halt too.                                     *)
OtherInterrupt(c) ==
  /\ c \in iflag /\ Running(c) /\ wait[c].pc = "asleep"
  /\ wait' = [wait EXCEPT ![c] = Woken(@)]
  /\ UNCHANGED <<setup, target, channel, receiver, table, routed, clock, irr, iflag, passing, wrong>>

Finish(c) ==
  /\ wait[c].pc = "over"
  /\ wait' = [wait EXCEPT ![c] = [pc |-> "idle", length |-> 0, ticks |-> 0, clocks |-> 0]]
  /\ UNCHANGED <<setup, target, channel, receiver, table, routed, clock, irr, iflag, passing, wrong>>

(* A CPU that does not wait may mask interrupts, for as long as it likes.   *)
Mask(c) ==
  /\ Running(c) /\ wait[c].pc = "idle" /\ c \in iflag
  /\ iflag' = iflag \ {c}
  /\ UNCHANGED <<setup, target, channel, receiver, table, routed, clock, irr, passing, wait, wrong>>

Unmask(c) ==
  /\ c \notin iflag
  /\ iflag' = iflag \cup {c}
  /\ UNCHANGED <<setup, target, channel, receiver, table, routed, clock, irr, passing, wait, wrong>>

Init ==
  /\ setup = 0 /\ target \in Targets
  /\ channel = [mode |-> 3, low |-> 0, high |-> 0]   \* as the firmware leaves it
  /\ receiver = ZeroId /\ table = {} /\ routed = FALSE
  /\ clock = 0 /\ irr = {} /\ iflag = Cpu /\ passing = FALSE
  /\ wait = [c \in Cpu |-> [pc |-> "idle", length |-> 0, ticks |-> 0, clocks |-> 0]]
  /\ wrong = {}

Next ==
  \/ initialize_PIT_timer \/ Clock \/ PassOn
  \/ \E c \in Cpu :
       \/ Deliver(c) \/ Test(c) \/ halt(c) \/ OtherInterrupt(c) \/ Finish(c)
       \/ Mask(c) \/ Unmask(c)
       \/ \E n \in Waits : StartWait(c, n)

(* The hardware's clock runs, and CPUs do not keep interrupts masked for    *)
(* ever.  A requested interrupt is taken as soon as the flag allows it,     *)
(* however often it is masked again, and a CPU that waits executes its loop *)
(* between two ticks, however many ticks interrupt it.                      *)
Fairness ==
  /\ WF_vars(initialize_PIT_timer) /\ WF_vars(Clock) /\ WF_vars(PassOn)
  /\ \A c \in Cpu : /\ SF_vars(Test(c)) /\ SF_vars(halt(c)) /\ SF_vars(Deliver(c))
                    /\ WF_vars(Unmask(c))

Spec == Init /\ [][Next]_vars /\ Fairness
-----------------------------------------------------------------------------
(* The type of the state, and of the two numbers computed from the target.  *)
TypeOK ==
  /\ setup \in 0..Len(Steps) /\ target \in Targets
  /\ counter \in 1..CounterMax /\ interrupt_frequency \in 1..PIT_FREQ_HZ
  /\ irr \subseteq Cpu /\ iflag \subseteq Cpu /\ receiver \in Cpu
  /\ \A c \in Cpu : wait[c].pc \in {"idle", "test", "to halt", "asleep", "over"}

(* The handler never runs without its extra data, and never ignores an      *)
(* interrupt of the hardware because the receiver is not stored yet.        *)
HandlerReady == wrong = {}

(* Once the timer is set up, the frequency that is returned and used for    *)
(* all conversions is the one the hardware runs at, rounded down.           *)
FrequencyIsReal ==
  Ready => /\ interrupt_frequency * Reload <= PIT_FREQ_HZ
           /\ PIT_FREQ_HZ < (interrupt_frequency + 1) * Reload

(* How many periods a wait may be too short: one, because it begins         *)
(* between two ticks, and one because the tick before may not have been     *)
(* counted yet when it begins.                                              *)
Slack == 2

(* A wait that is over has lasted as long as was asked, up to that slack    *)
(* and the rounding of the frequency, on every CPU, however ticks, IPIs,    *)
(* tests and halts interleave.                                              *)
NotEarly ==
  \A c \in Cpu :
    wait[c].pc = "over" =>
      (wait[c].clocks + Slack * counter) * Scale
        >= wait[c].length * (PIT_FREQ_HZ - counter)

(* The timer as its callers rely on it: set up before its first interrupt,  *)
(* at the frequency it reports, with waits that are not too short.          *)
TimerSound == TypeOK /\ HandlerReady /\ FrequencyIsReal /\ NotEarly

(* A wait ends, also when the tick it needs comes between its test and its  *)
(* halt.                                                                    *)
WaitEnds == \A c \in Cpu : wait[c].pc = "test" ~> wait[c].pc = "over"

(* set_mode2_on_channel0 leaves channel 0 in mode 2.                        *)
ChannelInMode2 == Ready => channel.mode = 2
=============================================================================
