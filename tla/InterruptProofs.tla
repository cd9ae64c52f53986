-------------------------- MODULE InterruptProofs ---------------------------
(***************************************************************************)
(* Proofs about interrupts.  First the interval timer, for any number of   *)
(* CPUs, any input clock, any frequency it can give and waits of any       *)
(* length; then the dispatch of interrupts, for any number of CPUs, any    *)
(* vectors that lie apart as setup_idt has them and any depth of nesting.  *)
(***************************************************************************)
EXTENDS Pit, FiniteSetTheorems, WellFoundedInduction, TLAPS


------------------------------------------------------------------------------
(* Arithmetic.                                                              *)

Quotient(f, d) == f \div d
Remainder(f, d) == f % d

\* Division of a number by a smaller one; the rounding of pit.c never applies.
LEMMA DivideBy ==
  ASSUME NEW f \in Nat, NEW d \in Nat \ {0}, d <= f
  PROVE  /\ Quotient(f, d) \in 1 .. f /\ Remainder(f, d) \in Nat
         /\ f = d * Quotient(f, d) + Remainder(f, d) /\ Remainder(f, d) < d
         /\ ~(Remainder(f, d) > f \div 2)
<1>1. PICK q \in Int, r \in Nat : q = Quotient(f, d) /\ r = Remainder(f, d)
                                  /\ f = d * q + r /\ r < d
  BY DEF Quotient, Remainder
<1>2. q >= 1
  <2> SUFFICES ASSUME q <= 0 PROVE FALSE
    BY <1>1
  <2>1. d * q <= 0
    BY <1>1
  <2> QED BY <1>1, <2>1
<1>3. d * q >= d /\ d * q >= q
  BY <1>1, <1>2
<1>4. q <= f
  BY <1>1, <1>3
<1>5. 2 * r <= f
  BY <1>1, <1>3
<1>6. ~(r > f \div 2)
  BY <1>1, <1>5
<1>7. q \in 1 .. f
  BY <1>1, <1>2, <1>4
<1> QED BY <1>1, <1>6, <1>7

\* The counter and the frequency that are computed from the target.
LEMMA CounterFacts ==
  ASSUME target \in Targets
  PROVE  /\ counter \in 1 .. CounterMax /\ interrupt_frequency \in 1 .. PIT_FREQ_HZ
         /\ interrupt_frequency * counter <= PIT_FREQ_HZ
         /\ PIT_FREQ_HZ < (interrupt_frequency + 1) * counter
<1> DEFINE f == PIT_FREQ_HZ
<1>1. f \in Nat \ {0} /\ target \in Nat \ {0} /\ target <= f /\ CounterMax \in Nat \ {0}
  BY PitAssumption
<1>2. ASSUME NEW d \in Nat \ {0}, d <= f
      PROVE  Rounded(f \div d, f % d) = Quotient(f, d)
  <2>1. ~(Remainder(f, d) > f \div 2)
    BY <1>1, <1>2, DivideBy
  <2> QED BY <2>1, Zenon DEF Rounded, Quotient, Remainder
<1>3. counter = Capped(Quotient(f, target)) /\ Quotient(f, target) \in 1 .. f
  BY <1>1, <1>2, DivideBy, Zenon DEF counter
<1>4. PICK n \in Nat \ {0} : n = counter /\ n <= f /\ n \in 1 .. CounterMax
  BY <1>1, <1>3 DEF Capped
<1>5. interrupt_frequency = Quotient(f, n)
  <2>1. interrupt_frequency = Rounded(f \div n, f % n)
    BY <1>4, Zenon DEF interrupt_frequency
  <2> QED BY <1>2, <1>4, <2>1
<1>6. PICK g \in Nat, r \in Nat : g = Quotient(f, n) /\ g \in 1 .. f /\ f = n * g + r /\ r < n
  <2>1. /\ Quotient(f, n) \in 1 .. f /\ Remainder(f, n) \in Nat
        /\ f = n * Quotient(f, n) + Remainder(f, n) /\ Remainder(f, n) < n
    BY <1>1, <1>4, DivideBy, Zenon
  <2>2. Quotient(f, n) \in Nat
    BY <1>1, <2>1
  <2> QED BY <2>1, <2>2
<1>7. g * n <= f /\ f < (g + 1) * n
  BY <1>1, <1>4, <1>6
<1> QED BY <1>4, <1>5, <1>6, <1>7

\* A wait that has seen t ticks in k clocks, up to the slack, was long enough.
LEMMA LongEnough ==
  ASSUME target \in Targets, NEW t \in Nat, NEW k \in Nat, NEW length \in Nat,
         t * counter <= k + Slack * counter, ~(Converted(t) < length)
  PROVE  (k + Slack * counter) * Scale >= length * (PIT_FREQ_HZ - counter)
<1>1. PICK n \in Nat, g \in Nat, f \in Nat, s \in Nat :
        /\ n = counter /\ g = interrupt_frequency /\ f = PIT_FREQ_HZ /\ s = Scale
        /\ g > 0 /\ n > 0 /\ f < (g + 1) * n
  BY CounterFacts, PitAssumption
<1>2. (t * s) \div g >= length /\ (t * s) \div g \in Int
  BY <1>1 DEF Converted
<1>3. t * s >= g * length
  <2> DEFINE x == t * s
             q == x \div g
  <2>1. x \in Nat
    BY <1>1
  <2> HIDE DEF x
  <2>2. q \in Int /\ g * q <= x
    BY <1>1, <2>1
  <2>3. q >= length
    BY <1>2 DEF x
  <2> HIDE DEF q
  <2>4. g * q >= g * length
    BY <1>1, <2>2, <2>3
  <2> QED BY <1>1, <2>1, <2>2, <2>4 DEF x
<1>4. PICK m \in Nat : m = k + Slack * n /\ t * n <= m
  BY <1>1 DEF Slack
<1>5. m * s >= (t * n) * s
  BY <1>1, <1>4
<1>6. (t * n) * s = (t * s) * n
  BY <1>1
<1>7. (t * s) * n >= (g * length) * n
  <2> DEFINE x == t * s
             y == g * length
  <2>1. x \in Nat /\ y \in Nat /\ x >= y
    BY <1>1, <1>3
  <2> HIDE DEF x, y
  <2>2. x * n >= y * n
    BY <1>1, <2>1
  <2> QED BY <2>2 DEF x, y
<1>8. (g * length) * n >= length * (f - n)
  <2>1. g * n >= f - n
    BY <1>1
  <2>2. PICK x \in Int, y \in Int : x = g * n /\ y = f - n
    BY <1>1
  <2>3. length * x >= length * y
    BY <2>1, <2>2
  <2>4. (g * length) * n = length * (g * n)
    BY <1>1
  <2> QED BY <2>2, <2>3, <2>4
<1>9. m * s >= length * (f - n)
  <2> DEFINE a == m * s
             b == (t * n) * s
             c == (t * s) * n
             d == (g * length) * n
             e == length * (f - n)
  <2>1. a \in Int /\ b \in Int /\ c \in Int /\ d \in Int /\ e \in Int
    BY <1>1, <1>4
  <2>2. a >= b /\ b = c /\ c >= d /\ d >= e
    BY <1>5, <1>6, <1>7, <1>8
  <2> HIDE DEF a, b, c, d, e
  <2>3. a >= e
    BY <2>1, <2>2
  <2> QED BY <2>3 DEF a, e
<1> QED BY <1>1, <1>4, <1>9

------------------------------------------------------------------------------
(* The inductive invariant.                                                 *)

Waiting == {"test", "to halt", "asleep"}
WaitRecord == [pc : Waiting \cup {"idle", "over"}, length : Nat, ticks : 0 .. MaxTicks,
               clocks : 0 .. MaxClocks]

\* A tick that is requested and not counted yet, and the clocks since the last.
Pending(r) == IF Boot \in r THEN 1 ELSE 0
Phase(k, n) == IF k < n THEN k ELSE n - 1

\* What a wait has counted, is about to count and has seen of the next tick is
\* not more than the clocks it has lasted, but for what it found at its start.
Behind(w, p, m, n) ==
  w.clocks = MaxClocks \/ (w.ticks + p) * n + m <= w.clocks + Slack * n - 1
LongWait(w, n) == (w.clocks + Slack * n) * Scale >= w.length * (PIT_FREQ_HZ - n)
WaitOK(w, p, m, n) ==
  /\ w \in WaitRecord
  /\ w.pc \in Waiting => Behind(w, p, m, n)
  /\ w.pc = "over" => LongWait(w, n)

WaitInv ==
  /\ wait = [c \in Cpu |-> wait[c]]
  /\ \A c \in Cpu : WaitOK(wait[c], Pending(irr), Phase(clock, counter), counter)

\* What each step of initialize_PIT_timer leaves behind; interrupts and waits
\* come after the last one.
SetupInv ==
  /\ setup \in 0 .. 7 /\ target \in Targets /\ receiver \in Cpu /\ irr \subseteq Cpu
  /\ iflag \subseteq Cpu /\ clock \in Nat /\ routed \in BOOLEAN /\ passing \in BOOLEAN
  /\ channel = [mode |-> channel.mode, low |-> channel.low, high |-> channel.high]
  /\ table \subseteq {"handler", "extra"}
  /\ setup >= 1 => "handler" \in table
  /\ setup >= 2 => "extra" \in table
  /\ setup >= 4 => channel.low = counter % 256
  /\ setup >= 5 => channel.high = counter \div 256
  /\ setup >= 6 => receiver = Boot
  /\ routed => setup = 7
  /\ irr # {} \/ passing => routed
  /\ \A c \in Cpu : wait[c].pc # "idle" => setup = 7
  /\ wrong = {}

PitInv == SetupInv /\ WaitInv

------------------------------------------------------------------------------
(* Waits.                                                                   *)

\* A wait is its fields.
LEMMA WaitFields ==
  ASSUME NEW w \in WaitRecord
  PROVE  /\ w.pc \in Waiting \cup {"idle", "over"} /\ w.length \in Nat
         /\ w.ticks \in 0 .. MaxTicks /\ w.clocks \in 0 .. MaxClocks
         /\ w = [pc |-> w.pc, length |-> w.length, ticks |-> w.ticks, clocks |-> w.clocks]
BY DEF WaitRecord

\* A clock of the hardware, in which a tick may be requested.
LEMMA ClockBehind ==
  ASSUME NEW t \in Nat, NEW p \in {0, 1}, NEW q \in {0, 1}, NEW k \in Nat, NEW n \in Nat \ {0},
         NEW c \in Nat, (t + p) * n + Phase(k, n) <= c + Slack * n - 1
  PROVE  /\ k + 1 >= n => (t + q) * n + Phase(0, n) <= c + 1 + Slack * n - 1
         /\ k + 1 < n => (t + p) * n + Phase(k + 1, n) <= c + 1 + Slack * n - 1
<1>1. PICK x \in Nat, y \in Nat, z \in Nat : x = t * n /\ y = (t + p) * n /\ z = (t + q) * n
  OBVIOUS
<1>2. y >= x /\ z <= x + n
  <2>1. (t + p) * n = t * n + p * n /\ (t + q) * n = t * n + q * n
    OBVIOUS
  <2>2. p * n \in {0, n} /\ q * n \in {0, n}
    OBVIOUS
  <2> QED BY <1>1, <2>1, <2>2
<1>3. y + Phase(k, n) <= c + 2 * n - 1
  BY <1>1 DEF Slack
<1>4. k + 1 >= n => z + Phase(0, n) <= c + 1 + 2 * n - 1
  <2> SUFFICES ASSUME k + 1 >= n PROVE z + Phase(0, n) <= c + 1 + 2 * n - 1
    OBVIOUS
  <2>1. Phase(k, n) = n - 1 /\ Phase(0, n) = 0
    BY DEF Phase
  <2> QED BY <1>2, <1>3, <2>1
<1>5. k + 1 < n => y + Phase(k + 1, n) <= c + 1 + 2 * n - 1
  <2> SUFFICES ASSUME k + 1 < n PROVE y + Phase(k + 1, n) <= c + 1 + 2 * n - 1
    OBVIOUS
  <2>1. Phase(k, n) = k /\ Phase(k + 1, n) = k + 1
    BY DEF Phase
  <2> QED BY <1>3, <2>1
<1> QED BY <1>1, <1>4, <1>5 DEF Slack

\* The wait after it.
Aged(w) == IF w.pc \in {"idle", "over"} \/ w.clocks = MaxClocks THEN w
           ELSE [w EXCEPT !.clocks = @ + 1]

\* Which is as long as it was, or a clock longer.
LEMMA ClockWait ==
  ASSUME NEW w, NEW p \in {0, 1}, NEW q \in {0, 1}, NEW k \in Nat, NEW n \in Nat \ {0},
         WaitOK(w, p, Phase(k, n), n)
  PROVE  /\ Aged(w).pc = w.pc
         /\ k + 1 >= n => WaitOK(Aged(w), q, Phase(0, n), n)
         /\ k + 1 < n => WaitOK(Aged(w), p, Phase(k + 1, n), n)
<1>1. /\ w \in WaitRecord /\ (w.pc \in Waiting => Behind(w, p, Phase(k, n), n))
      /\ (w.pc = "over" => LongWait(w, n))
  BY DEF WaitOK
<1>2. /\ w.pc \in Waiting \cup {"idle", "over"} /\ w.length \in Nat /\ w.ticks \in 0 .. MaxTicks
      /\ w.clocks \in 0 .. MaxClocks
      /\ w = [pc |-> w.pc, length |-> w.length, ticks |-> w.ticks, clocks |-> w.clocks]
  BY <1>1, WaitFields
<1>3. "idle" \notin Waiting /\ "over" \notin Waiting
  BY DEF Waiting
<1>4. CASE w.pc \in {"idle", "over"}
  <2>1. Aged(w) = w
    BY <1>4 DEF Aged
  <2> QED BY <1>1, <1>3, <1>4, <2>1 DEF WaitOK
<1>5. CASE w.clocks = MaxClocks
  <2>1. Aged(w) = w
    BY <1>5 DEF Aged
  <2> QED BY <1>1, <1>5, <2>1 DEF WaitOK, Behind
<1>6. CASE w.pc \notin {"idle", "over"} /\ w.clocks # MaxClocks
  <2>1. PICK u : u = Aged(w)
    OBVIOUS
  <2>2. u = [pc |-> w.pc, length |-> w.length, ticks |-> w.ticks, clocks |-> w.clocks + 1]
    <3>1. u = [w EXCEPT !.clocks = w.clocks + 1]
      BY <1>6, <2>1 DEF Aged
    <3> QED BY <1>2, <3>1
  <2>3. u.pc = w.pc /\ u.ticks = w.ticks /\ u.clocks = w.clocks + 1 /\ u \in WaitRecord
    BY <1>2, <1>6, <2>2, PitAssumption DEF WaitRecord
  <2>4. (w.ticks + p) * n + Phase(k, n) <= w.clocks + Slack * n - 1
    BY <1>1, <1>2, <1>6 DEF Behind
  <2>5. w.ticks \in Nat /\ w.clocks \in Nat
    BY <1>2, PitAssumption
  <2>6. /\ k + 1 >= n => (w.ticks + q) * n + Phase(0, n) <= w.clocks + 1 + Slack * n - 1
        /\ k + 1 < n => (w.ticks + p) * n + Phase(k + 1, n) <= w.clocks + 1 + Slack * n - 1
    BY <2>4, <2>5, ClockBehind, Zenon
  <2>7. /\ k + 1 >= n => Behind(u, q, Phase(0, n), n)
        /\ k + 1 < n => Behind(u, p, Phase(k + 1, n), n)
    BY <2>3, <2>6 DEF Behind
  <2> QED BY <1>6, <2>1, <2>3, <2>7 DEF WaitOK
<1> QED BY <1>4, <1>5, <1>6

\* The interrupt handler counts a tick that was requested.
LEMMA CountedWait ==
  ASSUME NEW w, NEW m \in Nat, NEW n \in Nat \ {0}, WaitOK(w, 1, m, n)
  PROVE  WaitOK(Counted(w), 0, m, n) /\ Counted(w).pc = w.pc
<1>1. /\ w \in WaitRecord /\ (w.pc \in Waiting => Behind(w, 1, m, n))
      /\ (w.pc = "over" => LongWait(w, n))
  BY DEF WaitOK
<1>2. /\ w.pc \in Waiting \cup {"idle", "over"} /\ w.length \in Nat /\ w.ticks \in 0 .. MaxTicks
      /\ w.clocks \in 0 .. MaxClocks
      /\ w = [pc |-> w.pc, length |-> w.length, ticks |-> w.ticks, clocks |-> w.clocks]
  BY <1>1, WaitFields
<1>3. PICK t \in Nat, c \in Nat : t = w.ticks /\ c = w.clocks
  BY <1>2, PitAssumption
<1>4. PICK x \in Nat, y \in Nat : x = t * n /\ y = (t + 1) * n /\ x <= y
  <2>1. (t + 1) * n = t * n + n
    OBVIOUS
  <2> QED BY <2>1
<1>5. CASE w.ticks = MaxTicks
  <2>1. Counted(w) = w
    BY <1>5 DEF Counted
  <2>2. Behind(w, 1, m, n) => Behind(w, 0, m, n)
    <3> SUFFICES ASSUME Behind(w, 1, m, n), c # MaxClocks
                 PROVE  (t + 0) * n + m <= c + Slack * n - 1
      BY <1>3 DEF Behind
    <3>1. y + m <= c + Slack * n - 1
      BY <1>3, <1>4 DEF Behind
    <3>2. t + 0 = t /\ Slack * n \in Nat
      BY DEF Slack
    <3> QED BY <1>4, <3>1, <3>2
  <2> QED BY <1>1, <2>1, <2>2 DEF WaitOK
<1>6. CASE w.ticks # MaxTicks
  <2>1. PICK u : u = Counted(w)
    OBVIOUS
  <2>2. u = [pc |-> w.pc, length |-> w.length, ticks |-> w.ticks + 1, clocks |-> w.clocks]
    <3>1. u = [w EXCEPT !.ticks = w.ticks + 1]
      BY <1>6, <2>1 DEF Counted
    <3> QED BY <1>2, <3>1
  <2>3. /\ u.pc = w.pc /\ u.ticks = w.ticks + 1 /\ u.clocks = w.clocks /\ u.length = w.length
        /\ u \in WaitRecord
    BY <1>2, <1>6, <2>2, PitAssumption DEF WaitRecord
  <2>4. (t + 1) + 0 = t + 1
    OBVIOUS
  <2>5. Behind(w, 1, m, n) => Behind(u, 0, m, n)
    BY <1>3, <2>3, <2>4 DEF Behind
  <2>6. LongWait(w, n) => LongWait(u, n)
    BY <2>3 DEF LongWait
  <2> QED BY <1>1, <2>1, <2>3, <2>5, <2>6 DEF WaitOK
<1> QED BY <1>5, <1>6

\* A halt that ends.
LEMMA WokenWait ==
  ASSUME NEW w, NEW p, NEW m, NEW n, WaitOK(w, p, m, n)
  PROVE  WaitOK(Woken(w), p, m, n) /\ (Woken(w).pc # "idle" => w.pc # "idle")
<1>1. /\ w \in WaitRecord /\ (w.pc \in Waiting => Behind(w, p, m, n))
      /\ (w.pc = "over" => LongWait(w, n))
  BY DEF WaitOK
<1>2. w = [pc |-> w.pc, length |-> w.length, ticks |-> w.ticks, clocks |-> w.clocks]
  BY <1>1, WaitFields
<1>3. CASE w.pc # "asleep"
  BY <1>3 DEF Woken
<1>4. CASE w.pc = "asleep"
  <2>1. PICK u : u = Woken(w)
    OBVIOUS
  <2>2. u = [pc |-> "test", length |-> w.length, ticks |-> w.ticks, clocks |-> w.clocks]
    <3>1. u = [w EXCEPT !.pc = "test"]
      BY <1>4, <2>1 DEF Woken
    <3> QED BY <1>2, <3>1
  <2>3. u.pc = "test" /\ u.ticks = w.ticks /\ u.clocks = w.clocks /\ u \in WaitRecord
    BY <1>1, <2>2, WaitFields, Zenon DEF WaitRecord, Waiting
  <2>4. Behind(w, p, m, n) => Behind(u, p, m, n)
    BY <2>3 DEF Behind
  <2> QED BY <1>1, <1>4, <2>1, <2>3, <2>4 DEF WaitOK, Waiting
<1> QED BY <1>3, <1>4

------------------------------------------------------------------------------
(* Steps.                                                                   *)

\* The counter follows from the frequency that was asked for.
LEMMA CounterKept ==
  ASSUME target' = target
  PROVE  counter' = counter /\ interrupt_frequency' = interrupt_frequency
BY DEF counter, interrupt_frequency, Capped, Rounded

\* Types that the steps below need.
LEMMA InvTypes ==
  ASSUME PitInv
  PROVE  /\ counter \in Nat \ {0} /\ Pending(irr) \in {0, 1} /\ Phase(clock, counter) \in Nat
<1>1. target \in Targets /\ clock \in Nat
  BY DEF PitInv, SetupInv
<1>2. counter \in Nat \ {0}
  BY <1>1, CounterFacts, PitAssumption
<1> QED BY <1>1, <1>2 DEF Pending, Phase

\* A step that only changes the wait of one CPU.
LEMMA OneWait ==
  ASSUME PitInv, NEW c \in Cpu, NEW w,
         WaitOK(w, Pending(irr), Phase(clock, counter), counter),
         w.pc # "idle" => setup = 7,
         wait' = [wait EXCEPT ![c] = w],
         UNCHANGED <<setup, target, channel, receiver, table, routed, clock, irr, iflag, passing,
                     wrong>>
  PROVE  PitInv'
<1>1. counter' = counter
  BY CounterKept
<1>2. wait = [x \in Cpu |-> wait[x]]
  BY DEF PitInv, WaitInv
<1>3. wait' = [x \in Cpu |-> wait'[x]] /\ \A x \in Cpu : wait'[x] = IF x = c THEN w ELSE wait[x]
  BY <1>2
<1>4. WaitInv'
  <2>1. \A x \in Cpu : WaitOK(wait[x], Pending(irr), Phase(clock, counter), counter)
    BY DEF PitInv, WaitInv
  <2>2. Pending(irr') = Pending(irr) /\ Phase(clock', counter') = Phase(clock, counter)
    BY <1>1
  <2>3. \A x \in Cpu : WaitOK(wait'[x], Pending(irr'), Phase(clock', counter'), counter')
    BY <1>1, <1>3, <2>1, <2>2
  <2> QED BY <1>3, <2>3 DEF WaitInv, Pending, Phase, WaitOK, Behind, LongWait
<1>5. SetupInv'
  <2>1. \A x \in Cpu : wait'[x].pc # "idle" => setup' = 7
    BY <1>3 DEF PitInv, SetupInv
  <2> QED BY <1>1, <2>1 DEF PitInv, SetupInv
<1> QED BY <1>4, <1>5 DEF PitInv

\* The waits are sound when one begins,
LEMMA StartWaitStep ==
  ASSUME PitInv, NEW c \in Cpu, NEW n \in Waits, StartWait(c, n)
  PROVE  PitInv'
<1>1. PICK w : w = [pc |-> "test", length |-> n, ticks |-> 0, clocks |-> 0]
  BY Zenon
<1>2. w \in WaitRecord /\ w.pc = "test" /\ w.ticks = 0 /\ w.clocks = 0
  BY <1>1, PitAssumption DEF WaitRecord, Waiting
<1>3. Behind(w, Pending(irr), Phase(clock, counter), counter)
  <2>1. PICK p \in {0, 1}, m \in Nat, k \in Nat \ {0} :
          p = Pending(irr) /\ m = Phase(clock, counter) /\ k = counter
    BY InvTypes
  <2>2. m <= k - 1
    BY <2>1 DEF PitInv, SetupInv, Phase
  <2>3. (0 + p) * k \in {0, k}
    OBVIOUS
  <2>4. (0 + p) * k + m <= 0 + 2 * k - 1
    BY <2>2, <2>3
  <2> QED BY <1>2, <2>1, <2>4 DEF Behind, Slack
<1>4. WaitOK(w, Pending(irr), Phase(clock, counter), counter)
  BY <1>2, <1>3 DEF WaitOK
<1>5. setup = 7
  BY DEF StartWait, Ready, Steps
<1> QED BY <1>1, <1>4, <1>5, OneWait, Zenon DEF StartWait

\* A wait with another place in the code, still counting.
LEMMA WaitMoves ==
  ASSUME NEW w, NEW p, NEW m, NEW n, NEW s \in Waiting, WaitOK(w, p, m, n), w.pc \in Waiting
  PROVE  WaitOK([w EXCEPT !.pc = s], p, m, n) /\ [w EXCEPT !.pc = s].pc # "idle"
<1>1. w \in WaitRecord /\ Behind(w, p, m, n)
  BY DEF WaitOK
<1>2. PICK u : u = [w EXCEPT !.pc = s]
  BY Zenon
<1>3. u = [pc |-> s, length |-> w.length, ticks |-> w.ticks, clocks |-> w.clocks]
  BY <1>1, <1>2, WaitFields
<1>4. u.pc = s /\ u.ticks = w.ticks /\ u.clocks = w.clocks /\ u \in WaitRecord
  BY <1>1, <1>3, WaitFields DEF WaitRecord
<1>5. Behind(u, p, m, n)
  BY <1>1, <1>4 DEF Behind
<1> QED BY <1>2, <1>4, <1>5, Zenon DEF WaitOK, Waiting

\* when the loop tests the ticks,
LEMMA TestStep ==
  ASSUME PitInv, NEW c \in Cpu, Test(c)
  PROVE  PitInv'
<1>1. PICK w : w = wait[c]
  OBVIOUS
<1>2. /\ WaitOK(w, Pending(irr), Phase(clock, counter), counter) /\ w.pc = "test" /\ setup = 7
      /\ wait = [x \in Cpu |-> wait[x]] /\ target \in Targets
  BY <1>1, Zenon DEF PitInv, WaitInv, SetupInv, Test
<1>3. w.pc \in Waiting
  BY <1>2 DEF Waiting
<1>4. CASE Converted(w.ticks) < w.length
  <2>1. wait' = [wait EXCEPT ![c] = [w EXCEPT !.pc = "to halt"]]
    BY <1>1, <1>2, <1>4, Zenon DEF Test
  <2>2. "to halt" \in Waiting
    BY DEF Waiting
  <2>3. WaitOK([w EXCEPT !.pc = "to halt"], Pending(irr), Phase(clock, counter), counter)
    BY <1>2, <1>3, <2>2, WaitMoves, Zenon
  <2> QED BY <1>2, <2>1, <2>3, OneWait, Zenon DEF Test
<1>5. CASE ~(Converted(w.ticks) < w.length)
  <2>1. wait' = [wait EXCEPT ![c] = [w EXCEPT !.pc = "over"]]
    BY <1>1, <1>2, <1>5 DEF Test
  <2>2. w \in WaitRecord /\ Behind(w, Pending(irr), Phase(clock, counter), counter)
    BY <1>2, <1>3 DEF WaitOK
  <2>3. PICK u : u = [w EXCEPT !.pc = "over"]
    BY Zenon
  <2>4. u = [pc |-> "over", length |-> w.length, ticks |-> w.ticks, clocks |-> w.clocks]
    BY <2>2, <2>3, WaitFields
  <2>5. u.pc = "over" /\ u.length = w.length /\ u.clocks = w.clocks /\ u \in WaitRecord
    BY <2>2, <2>4, WaitFields DEF WaitRecord
  <2>6. w.ticks \in Nat /\ w.clocks \in Nat /\ w.length \in Nat /\ w.ticks <= MaxTicks
    BY <2>2, WaitFields, PitAssumption
  <2>7. PICK t \in Nat, k \in Nat, p \in {0, 1}, m \in Nat, n \in Nat \ {0} :
          /\ t = w.ticks /\ k = w.clocks /\ p = Pending(irr)
          /\ m = Phase(clock, counter) /\ n = counter
    BY <2>6, InvTypes
  <2>8. t * n <= k + Slack * n
    <3>1. CASE k = MaxClocks
      <4>1. n <= CounterMax
        BY <1>2, <2>7, CounterFacts, PitAssumption
      <4>2. PICK d \in Nat : d = MaxTicks - 2
        BY PitAssumption
      <4>3. d * n <= d * CounterMax
        BY <4>1, PitAssumption
      <4>4. d * CounterMax <= k
        BY <3>1, <4>2, PitAssumption
      <4>5. (d + 2) * n = d * n + 2 * n
        OBVIOUS
      <4>6. t <= d + 2
        BY <2>6, <2>7, <4>2, PitAssumption
      <4>7. t * n <= (d + 2) * n
        BY <4>6
      <4>8. PICK x \in Nat, y \in Nat, z \in Nat, v \in Nat :
              x = t * n /\ y = (d + 2) * n /\ z = d * n /\ v = d * CounterMax
        BY PitAssumption
      <4>9. x <= k + 2 * n
        BY <4>3, <4>4, <4>5, <4>7, <4>8
      <4> QED BY <4>8, <4>9 DEF Slack
    <3>2. CASE k # MaxClocks
      <4>1. (t + p) * n + m <= k + Slack * n - 1
        BY <2>2, <2>7, <3>2 DEF Behind
      <4>2. PICK x \in Nat, y \in Nat : x = t * n /\ y = (t + p) * n
        OBVIOUS
      <4>3. x <= y
        <5>1. (t + p) * n = t * n + p * n /\ p * n \in {0, n}
          OBVIOUS
        <5> QED BY <4>2, <5>1
      <4>4. Slack * n \in Nat
        BY DEF Slack
      <4> QED BY <4>1, <4>2, <4>3, <4>4
    <3> QED BY <3>1, <3>2
  <2>9. LongWait(u, counter)
    <3>1. (w.clocks + Slack * counter) * Scale >= w.length * (PIT_FREQ_HZ - counter)
      BY <1>2, <1>5, <2>6, <2>7, <2>8, LongEnough
    <3> QED BY <2>5, <3>1 DEF LongWait
  <2>10. WaitOK(u, Pending(irr), Phase(clock, counter), counter)
    BY <2>5, <2>9 DEF WaitOK, Waiting
  <2> QED BY <1>2, <2>1, <2>3, <2>10, OneWait, Zenon DEF Test
<1> QED BY <1>4, <1>5

\* when it halts,
LEMMA HaltStep ==
  ASSUME PitInv, NEW c \in Cpu, halt(c)
  PROVE  PitInv'
<1>1. PICK w : w = wait[c]
  OBVIOUS
<1>2. /\ WaitOK(w, Pending(irr), Phase(clock, counter), counter) /\ w.pc = "to halt"
      /\ setup = 7 /\ wait = [x \in Cpu |-> wait[x]]
  BY <1>1, Zenon DEF PitInv, WaitInv, SetupInv, halt
<1>3. w.pc \in Waiting /\ "asleep" \in Waiting
  BY <1>2, Zenon DEF Waiting
<1>4. wait' = [wait EXCEPT ![c] = [w EXCEPT !.pc = "asleep"]]
  BY <1>1, <1>2, Zenon DEF halt
<1>5. WaitOK([w EXCEPT !.pc = "asleep"], Pending(irr), Phase(clock, counter), counter)
  BY <1>2, <1>3, WaitMoves, Zenon
<1> QED BY <1>2, <1>4, <1>5, OneWait, Zenon DEF halt

\* when an interrupt that is not the timer's ends the halt,
LEMMA OtherStep ==
  ASSUME PitInv, NEW c \in Cpu, OtherInterrupt(c)
  PROVE  PitInv'
<1>1. PICK w : w = wait[c]
  OBVIOUS
<1>2. /\ WaitOK(w, Pending(irr), Phase(clock, counter), counter) /\ w.pc = "asleep"
      /\ setup = 7 /\ wait = [x \in Cpu |-> wait[x]]
  BY <1>1 DEF PitInv, WaitInv, SetupInv, OtherInterrupt
<1>3. wait' = [wait EXCEPT ![c] = Woken(w)]
  BY <1>1, <1>2 DEF OtherInterrupt
<1>4. WaitOK(Woken(w), Pending(irr), Phase(clock, counter), counter)
  BY <1>2, WokenWait
<1> QED BY <1>2, <1>3, <1>4, OneWait DEF OtherInterrupt

\* and when it ends.
LEMMA FinishStep ==
  ASSUME PitInv, NEW c \in Cpu, Finish(c)
  PROVE  PitInv'
<1>1. PICK w : w = [pc |-> "idle", length |-> 0, ticks |-> 0, clocks |-> 0]
  BY Zenon
<1>2. w \in WaitRecord /\ w.pc = "idle"
  BY <1>1, PitAssumption DEF WaitRecord, Waiting
<1>3. WaitOK(w, Pending(irr), Phase(clock, counter), counter)
  BY <1>2 DEF WaitOK, Waiting
<1> QED BY <1>1, <1>2, <1>3, OneWait, Zenon DEF Finish

\* A CPU masks interrupts or enables them.
LEMMA MaskStep ==
  ASSUME PitInv, NEW c \in Cpu, Mask(c) \/ Unmask(c)
  PROVE  PitInv'
<1>1. /\ iflag' \subseteq Cpu
      /\ UNCHANGED <<setup, target, channel, receiver, table, routed, clock, irr, passing, wait,
                     wrong>>
  BY DEF PitInv, SetupInv, Mask, Unmask
<1>2. counter' = counter
  BY <1>1, CounterKept
<1>3. SetupInv'
  BY <1>1, <1>2 DEF PitInv, SetupInv
<1>4. WaitInv'
  BY <1>1, <1>2 DEF PitInv, WaitInv, Pending, Phase, WaitOK, Behind, LongWait
<1> QED BY <1>3, <1>4 DEF PitInv

\* The handler passes the interrupt on to the other CPUs.
LEMMA PassOnStep ==
  ASSUME PitInv, PassOn
  PROVE  PitInv'
<1>1. /\ passing' = FALSE /\ irr' = irr \cup Others /\ passing
      /\ UNCHANGED <<setup, target, channel, receiver, table, routed, clock, iflag, wait, wrong>>
  BY DEF PassOn
<1>2. counter' = counter
  BY <1>1, CounterKept
<1>3. irr' \subseteq Cpu /\ routed' /\ (Boot \in irr' <=> Boot \in irr)
  BY <1>1 DEF PitInv, SetupInv, Others
<1>4. SetupInv'
  BY <1>1, <1>2, <1>3, Zenon DEF PitInv, SetupInv
<1>5. WaitInv'
  <2>1. Pending(irr') = Pending(irr)
    BY <1>3 DEF Pending
  <2>2. \A c \in Cpu : WaitOK(wait'[c], Pending(irr'), Phase(clock', counter'), counter')
    BY <1>1, <1>2, <2>1 DEF PitInv, WaitInv
  <2>3. wait' = [c \in Cpu |-> wait'[c]]
    BY <1>1 DEF PitInv, WaitInv
  <2> QED BY <2>2, <2>3 DEF WaitInv, Pending, Phase, WaitOK, Behind, LongWait
<1> QED BY <1>4, <1>5 DEF PitInv

\* An interrupt is delivered: on Boot it is counted, on the others it is not.
LEMMA DeliverStep ==
  ASSUME PitInv, NEW c \in Cpu, Deliver(c)
  PROVE  PitInv'
<1>1. c \in irr /\ routed /\ setup = 7
  BY Zenon DEF PitInv, SetupInv, Deliver
<1>2. receiver = Boot /\ table = {"handler", "extra"}
  BY <1>1 DEF PitInv, SetupInv
<1>3. counter' = counter
  BY CounterKept, Zenon DEF Deliver
<1>4. /\ irr' = irr \ {c}
      /\ UNCHANGED <<setup, target, channel, receiver, table, routed, clock, iflag>>
  BY Zenon DEF Deliver
<1>5. wrong' = {}
  BY <1>2 DEF Deliver, Counts, PitInv, SetupInv
<1>6. passing' \in BOOLEAN
  BY Zenon DEF Deliver, PitInv, SetupInv, Counts
<1>7. /\ wait' = [x \in Cpu |-> wait'[x]]
      /\ \A x \in Cpu : WaitOK(wait'[x], Pending(irr'), Phase(clock', counter'), counter')
  <2>1. wait' = [x \in Cpu |-> LET w == IF c = Boot THEN Counted(wait[x]) ELSE wait[x]
                               IN IF x = c THEN Woken(w) ELSE w]
    BY <1>2 DEF Deliver, Counts
  <2>2. wait' = [x \in Cpu |-> wait'[x]]
    BY <2>1, Zenon
  <2>3. ASSUME NEW x \in Cpu
        PROVE  WaitOK(wait'[x], Pending(irr'), Phase(clock', counter'), counter')
    <3>1. PICK w : w = IF c = Boot THEN Counted(wait[x]) ELSE wait[x]
      OBVIOUS
    <3>2. wait'[x] = IF x = c THEN Woken(w) ELSE w
      BY <2>1, <3>1
    <3>3. PICK p \in {0, 1}, m \in Nat, n \in Nat \ {0} :
            p = Pending(irr) /\ m = Phase(clock, counter) /\ n = counter
      BY InvTypes
    <3>4. WaitOK(wait[x], p, m, n)
      BY <3>3 DEF PitInv, WaitInv
    <3>5. WaitOK(w, Pending(irr'), m, n)
      <4>1. CASE c = Boot
        <5>1. p = 1 /\ Pending(irr') = 0
          BY <1>1, <1>4, <3>3, <4>1 DEF Pending
        <5> QED BY <3>1, <3>3, <3>4, <4>1, <5>1, CountedWait
      <4>2. CASE c # Boot
        <5>1. Pending(irr') = p
          BY <1>4, <3>3, <4>2 DEF Pending
        <5> QED BY <3>1, <3>4, <4>2, <5>1
      <4> QED BY <4>1, <4>2
    <3>6. WaitOK(wait'[x], Pending(irr'), m, n)
      <4>1. WaitOK(Woken(w), Pending(irr'), m, n)
        BY <3>5, WokenWait
      <4> QED BY <3>2, <3>5, <4>1
    <3> QED BY <1>3, <1>4, <3>3, <3>6
  <2> QED BY <2>2, <2>3
<1>8. WaitInv'
  BY <1>7 DEF WaitInv, Pending, Phase, WaitOK, Behind, LongWait
<1>9. SetupInv'
  BY <1>1, <1>3, <1>4, <1>5, <1>6 DEF PitInv, SetupInv
<1> QED BY <1>8, <1>9 DEF PitInv

\* The bytes written to the channel are the counter's.
LEMMA BytesAdd ==
  ASSUME NEW n \in Nat
  PROVE  (n % 256) + 256 * (n \div 256) = n /\ n % 256 \in Nat /\ n \div 256 \in Nat
OBVIOUS

\* So that, once the timer is set up, the hardware counts down from the counter.
LEMMA ReloadIsCounter ==
  ASSUME PitInv, Ready
  PROVE  Reload = counter /\ (IF Reload = 0 THEN CounterMax ELSE Reload) = counter
<1>1. channel.low = counter % 256 /\ channel.high = counter \div 256
  BY DEF PitInv, SetupInv, Ready, Steps
<1>2. PICK n \in Nat \ {0} : n = counter
  BY InvTypes
<1>3. channel.low = n % 256 /\ channel.high = n \div 256
  BY <1>1, <1>2
<1>4. (n % 256) + 256 * (n \div 256) = n
  BY BytesAdd
<1>5. Reload = n
  BY <1>3, <1>4 DEF Reload
<1> QED BY <1>2, <1>5

\* A clock of the hardware.
LEMMA ClockStep ==
  ASSUME PitInv, Clock
  PROVE  PitInv'
<1>1. UNCHANGED <<setup, target, channel, receiver, table, routed, iflag, passing, wrong>>
  BY DEF Clock
<1>2. counter' = counter
  BY <1>1, CounterKept
<1>3. PICK e : e = IF Reload = 0 THEN CounterMax ELSE Reload
  OBVIOUS
<1>4. IF clock + 1 >= e THEN clock' = 0 /\ irr' = (IF routed THEN irr \cup {Boot} ELSE irr)
      ELSE clock' = clock + 1 /\ irr' = irr
  BY <1>3 DEF Clock
<1>5. wait' = [c \in Cpu |-> Aged(wait[c])]
  BY DEF Clock, Aged
<1>6. wait' = [c \in Cpu |-> wait'[c]] /\ \A c \in Cpu : wait'[c] = Aged(wait[c])
  BY <1>5, Zenon
<1>7. clock' \in Nat /\ clock \in Nat /\ irr' \subseteq Cpu /\ (irr' # {} => routed)
  BY <1>4, PitAssumption DEF PitInv, SetupInv
<1>8. PICK p \in {0, 1}, n \in Nat \ {0} : p = Pending(irr) /\ n = counter
  BY InvTypes
<1>9. PICK q \in {0, 1} : q = Pending(irr')
  BY DEF Pending
<1>10. \A c \in Cpu : WaitOK(wait[c], p, Phase(clock, n), n)
  BY <1>8 DEF PitInv, WaitInv
<1>11. ASSUME NEW c \in Cpu
       PROVE  Aged(wait[c]).pc = wait[c].pc /\ WaitOK(Aged(wait[c]), q, Phase(clock', n), n)
  <2>1. /\ Aged(wait[c]).pc = wait[c].pc
        /\ clock + 1 >= n => WaitOK(Aged(wait[c]), q, Phase(0, n), n)
        /\ clock + 1 < n => WaitOK(Aged(wait[c]), p, Phase(clock + 1, n), n)
    BY <1>7, <1>10, ClockWait
  <2>2. CASE setup = 7
    <3>1. e = n
      BY <1>3, <1>8, <2>2, ReloadIsCounter DEF Ready, Steps
    <3>2. CASE clock + 1 >= n
      BY <1>4, <2>1, <3>1, <3>2
    <3>3. CASE ~(clock + 1 >= n)
      <4>1. clock + 1 < n
        BY <1>7, <3>3
      <4>2. clock' = clock + 1 /\ q = p
        BY <1>4, <1>8, <1>9, <3>1, <3>3
      <4> QED BY <2>1, <4>1, <4>2
    <3> QED BY <3>2, <3>3
  <2>3. CASE setup # 7
    <3>1. wait[c].pc = "idle"
      BY <2>3 DEF PitInv, SetupInv
    <3>2. wait[c] \in WaitRecord
      BY <1>10 DEF WaitOK
    <3>3. Aged(wait[c]) = wait[c]
      BY <3>1 DEF Aged
    <3> QED BY <3>1, <3>2, <3>3, Zenon DEF WaitOK, Waiting
  <2> QED BY <2>2, <2>3
<1>12. WaitInv'
  <2>1. \A c \in Cpu : WaitOK(wait'[c], Pending(irr'), Phase(clock', counter'), counter')
    BY <1>2, <1>6, <1>8, <1>9, <1>11
  <2> QED BY <1>6, <2>1 DEF WaitInv, Pending, Phase, WaitOK, Behind, LongWait
<1>13. SetupInv'
  <2>1. \A c \in Cpu : wait'[c].pc # "idle" => setup' = 7
    BY <1>1, <1>6, <1>11 DEF PitInv, SetupInv
  <2> QED BY <1>1, <1>2, <1>7, <2>1 DEF PitInv, SetupInv
<1> QED BY <1>12, <1>13 DEF PitInv

\* A step of initialize_PIT_timer.
LEMMA SetupStep ==
  ASSUME PitInv, initialize_PIT_timer
  PROVE  PitInv'
<1>1. /\ setup \in 0 .. 6 /\ setup' = setup + 1
      /\ UNCHANGED <<target, clock, irr, iflag, passing, wait, wrong>>
  BY DEF initialize_PIT_timer, PitInv, SetupInv, Ready, Steps
<1>2. counter' = counter
  BY <1>1, CounterKept
<1>3. PICK s : s = Steps[setup + 1]
  OBVIOUS
<1>4. /\ setup = 0 => s = "handler"
      /\ setup = 1 => s = "extra"
      /\ setup = 2 => s = "command"
      /\ setup = 3 => s = "low"
      /\ setup = 4 => s = "high"
      /\ setup = 5 => s = "receiver"
      /\ setup = 6 => s = "enable"
  BY <1>3 DEF Steps
<1>5. /\ table' = IF s \in {"handler", "extra"} THEN table \cup {s} ELSE table
      /\ channel' = CASE s = "command" -> Command(PIT_MODE_COMMAND_PORT, make_control_word(0, 3, 2))
                      [] s = "low" -> [channel EXCEPT !.low = BytesOf(counter)[1]]
                      [] s = "high" -> [channel EXCEPT !.high = BytesOf(counter)[2]]
                      [] OTHER -> channel
      /\ receiver' = (IF s = "receiver" THEN Boot ELSE receiver)
      /\ routed' = (routed \/ s = "enable")
  BY <1>3 DEF initialize_PIT_timer
<1>6. PICK m, l, h : channel = [mode |-> m, low |-> l, high |-> h]
  BY DEF PitInv, SetupInv
<1>7. BytesOf(counter)[1] = counter % 256 /\ BytesOf(counter)[2] = counter \div 256
  BY DEF BytesOf
<1>8. channel' = [mode |-> m, low |-> IF s = "low" THEN counter % 256 ELSE l,
                  high |-> IF s = "high" THEN counter \div 256 ELSE h]
  <2>1. CASE s = "command"
    BY <1>5, <1>6, <2>1 DEF Command, PIT_MODE_COMMAND_PORT
  <2>2. CASE s = "low"
    BY <1>5, <1>6, <1>7, <2>2
  <2>3. CASE s = "high"
    BY <1>5, <1>6, <1>7, <2>3
  <2>4. CASE s \notin {"command", "low", "high"}
    BY <1>5, <1>6, <2>4
  <2> QED BY <2>1, <2>2, <2>3, <2>4
<1>9. /\ channel' = [mode |-> channel'.mode, low |-> channel'.low, high |-> channel'.high]
      /\ channel'.low = IF s = "low" THEN counter % 256 ELSE channel.low
      /\ channel'.high = IF s = "high" THEN counter \div 256 ELSE channel.high
  BY <1>6, <1>8
<1>10. /\ setup' >= 4 => channel'.low = counter' % 256
       /\ setup' >= 5 => channel'.high = counter' \div 256
  <2>1. setup' >= 4 => s = "low" \/ (s # "low" /\ setup >= 4)
    BY <1>1, <1>4
  <2>2. setup' >= 5 => s = "high" \/ (s # "high" /\ setup >= 5)
    BY <1>1, <1>4
  <2> QED BY <1>2, <1>9, <2>1, <2>2 DEF PitInv, SetupInv
<1>11. /\ table' \subseteq {"handler", "extra"}
       /\ setup' >= 1 => "handler" \in table'
       /\ setup' >= 2 => "extra" \in table'
  BY <1>1, <1>4, <1>5 DEF PitInv, SetupInv
<1>12. receiver' \in Cpu /\ (setup' >= 6 => receiver' = Boot)
  BY <1>1, <1>4, <1>5, PitAssumption DEF PitInv, SetupInv
<1>13. routed' \in BOOLEAN /\ (routed' => setup' = 7) /\ (routed => routed')
  <2>1. ~routed
    BY <1>1 DEF PitInv, SetupInv
  <2>2. s = "enable" => setup' = 7
    BY <1>1, <1>4
  <2>3. routed' = (s = "enable")
    BY <1>5, <2>1, Zenon
  <2> QED BY <2>1, <2>2, <2>3, Zenon
<1>14. \A c \in Cpu : wait'[c].pc # "idle" => setup' = 7
  BY <1>1 DEF PitInv, SetupInv
<1>15. SetupInv'
  BY <1>1, <1>2, <1>9, <1>10, <1>11, <1>12, <1>13, <1>14 DEF PitInv, SetupInv
<1>16. WaitInv'
  BY <1>1, <1>2 DEF PitInv, WaitInv, Pending, Phase, WaitOK, Behind, LongWait
<1> QED BY <1>15, <1>16 DEF PitInv

------------------------------------------------------------------------------
(* The theorem.                                                             *)

\* At power on.
LEMMA InitInv == Init => PitInv
<1> SUFFICES ASSUME Init PROVE PitInv
  OBVIOUS
<1>1. PICK w : w = [pc |-> "idle", length |-> 0, ticks |-> 0, clocks |-> 0]
  BY Zenon
<1>2. w \in WaitRecord /\ w.pc = "idle"
  BY <1>1, PitAssumption DEF WaitRecord, Waiting
<1>3. wait = [c \in Cpu |-> w]
  BY <1>1 DEF Init
<1>4. WaitInv
  BY <1>2, <1>3, Zenon DEF WaitInv, WaitOK, Waiting
<1>5. SetupInv
  <2>1. \A c \in Cpu : wait[c].pc = "idle"
    BY <1>2, <1>3
  <2>2. /\ setup = 0 /\ target \in Targets /\ receiver \in Cpu /\ irr = {} /\ iflag = Cpu
        /\ clock = 0 /\ table = {} /\ wrong = {}
        /\ channel = [mode |-> channel.mode, low |-> channel.low, high |-> channel.high]
    BY PitAssumption DEF Init
  <2>3. routed = FALSE /\ passing = FALSE
    BY DEF Init
  <2>4. routed \in BOOLEAN /\ passing \in BOOLEAN /\ ~routed /\ ~passing
    BY <2>3, Zenon
  <2> QED BY <2>1, <2>2, <2>4 DEF SetupInv
<1> QED BY <1>4, <1>5 DEF PitInv

\* No step breaks the invariant.
LEMMA NextInv == PitInv /\ [Next]_vars => PitInv'
<1> SUFFICES ASSUME PitInv, [Next]_vars PROVE PitInv'
  OBVIOUS
<1>1. CASE UNCHANGED vars
  <2>1. counter' = counter
    BY <1>1, CounterKept DEF vars
  <2>2. SetupInv'
    BY <1>1, <2>1 DEF vars, PitInv, SetupInv
  <2>3. WaitInv'
    BY <1>1, <2>1 DEF vars, PitInv, WaitInv, Pending, Phase, WaitOK, Behind, LongWait
  <2> QED BY <2>2, <2>3 DEF PitInv
<1>2. CASE initialize_PIT_timer \/ Clock \/ PassOn
  BY <1>2, SetupStep, ClockStep, PassOnStep
<1>3. ASSUME NEW c \in Cpu,
             Deliver(c) \/ Test(c) \/ halt(c) \/ OtherInterrupt(c) \/ Finish(c) \/ Mask(c)
               \/ Unmask(c) \/ \E n \in Waits : StartWait(c, n)
      PROVE  PitInv'
  BY <1>3, DeliverStep, TestStep, HaltStep, OtherStep, FinishStep, MaskStep, StartWaitStep, Zenon
<1> QED BY <1>1, <1>2, <1>3 DEF Next

\* The invariant contains what the timer's callers rely on.
LEMMA InvSound == PitInv => TimerSound
<1> SUFFICES ASSUME PitInv PROVE TimerSound
  OBVIOUS
<1>1. target \in Targets
  BY DEF PitInv, SetupInv
<1>2. \A c \in Cpu : WaitOK(wait[c], Pending(irr), Phase(clock, counter), counter)
  BY DEF PitInv, WaitInv
<1>3. \A c \in Cpu : wait[c].pc \in {"idle", "test", "to halt", "asleep", "over"}
  BY <1>2, WaitFields, Zenon DEF WaitOK, Waiting
<1>4. TypeOK
  BY <1>1, <1>3, CounterFacts, Zenon DEF TypeOK, PitInv, SetupInv, Steps
<1>5. FrequencyIsReal
  BY <1>1, CounterFacts, ReloadIsCounter DEF FrequencyIsReal
<1>6. NotEarly
  BY <1>2 DEF NotEarly, WaitOK, LongWait
<1> QED BY <1>4, <1>5, <1>6 DEF TimerSound, HandlerReady, PitInv, SetupInv

\* For every number of CPUs, input clock, frequency asked for and length of a
\* wait: the timer of pit.c is set up before the first interrupt reaches its
\* handler, the frequency it reports is the one the hardware runs at, and no
\* wait ends early, however ticks, IPIs, masking, tests and halts interleave.
THEOREM TimerIsSound == Spec => []TimerSound
<1>1. PitInv /\ [Next]_vars => PitInv'
  BY NextInv
<1> QED BY <1>1, InitInv, InvSound, PTL DEF Spec

------------------------------------------------------------------------------
(* The dispatch of interrupts.                                              *)

CONSTANTS Fixed, Exception, MaxFrames
VARIABLES lapic, requested, isr, enabled, frames, pic, stray

Irq == INSTANCE Interrupts WITH irr <- requested, iflag <- enabled

------------------------------------------------------------------------------
(* The inductive invariant.                                                 *)

\* The vectors as setup_idt and the drivers give them out.
VectorsApart ==
  /\ Boot \in Cpu /\ Fixed \subseteq 48 .. 254 /\ Exception \in 0 .. 31 /\ MaxFrames \in Nat

Vectors(c) == Fixed \cup {Exception, Irq!SPURIOUS} \cup (IF c = Boot THEN {39, 47} ELSE {})
Places == {"entry", "handler", "eoi", "return"}
Frames(c) == [vector : Vectors(c), pc : Places, saved : BOOLEAN, fresh : BOOLEAN]

\* From the k-th frame outwards there are only exceptions.
OnlyTraps(s, k) == \A j \in 1 .. Len(s) : j > k => s[j].vector < 32

\* The fixed interrupts whose routine has not ended them.
Live(s) ==
  {v \in Fixed : \E i \in DOMAIN s : s[i].vector = v /\ s[i].pc # "return"}

\* An interrupt of the slave PIC that is not acknowledged yet.
SlaveWaits(s) == \E i \in DOMAIN s : s[i].vector = 47 /\ s[i].pc = "entry"

\* A CPU with the frames s, the interrupt flag f, the vectors q in service and
\* the local APIC l: interrupts that are no exceptions are entered with the flag
\* on, and it stays off until they return, so at most one is in progress.
CpuOK(c, s, f, q, l) ==
  /\ s \in Seq(Frames(c)) /\ f \in BOOLEAN
  /\ f => OnlyTraps(s, 0)
  /\ \A i \in 1 .. Len(s) : s[i].saved => OnlyTraps(s, i)
  /\ \A i \in 1 .. Len(s) : s[i].vector < 32 \/ s[i].saved
  /\ q = Live(s)
  /\ f \/ (\E i \in 1 .. Len(s) : s[i].saved) => l = "enabled"

ServiceInv ==
  /\ lapic \in [Cpu -> {"off", "on", "enabled"}]
  /\ requested \in [Cpu -> SUBSET Fixed] /\ isr \in [Cpu -> SUBSET Fixed]
  /\ enabled \in [Cpu -> BOOLEAN] /\ frames = [c \in Cpu |-> frames[c]]
  /\ \A c \in Cpu : CpuOK(c, frames[c], enabled[c], isr[c], lapic[c])
  /\ pic = [master |-> IF SlaveWaits(frames[Boot]) THEN {2} ELSE {}, slave |-> {}]
  /\ stray \subseteq {"slave"}

------------------------------------------------------------------------------
(* Stacks of frames.                                                        *)

\* The fields of a frame.
LEMMA FrameFields ==
  ASSUME NEW c, NEW e \in Frames(c)
  PROVE  /\ e.vector \in Vectors(c) /\ e.pc \in Places /\ e.saved \in BOOLEAN
         /\ e.fresh \in BOOLEAN
         /\ e = [vector |-> e.vector, pc |-> e.pc, saved |-> e.saved, fresh |-> e.fresh]
BY Zenon DEF Frames

\* A frame in front of the others.
LEMMA Pushed ==
  ASSUME NEW S, NEW s \in Seq(S), NEW e \in S
  PROVE  /\ <<e>> \o s \in Seq(S) /\ Len(<<e>> \o s) = Len(s) + 1 /\ (<<e>> \o s)[1] = e
         /\ \A i \in 1 .. Len(s) : (<<e>> \o s)[i + 1] = s[i]
         /\ \A i \in 2 .. Len(s) + 1 : (<<e>> \o s)[i] = s[i - 1]
OBVIOUS

\* Its removal.
LEMMA Popped ==
  ASSUME NEW S, NEW s \in Seq(S), s # <<>>
  PROVE  /\ Tail(s) \in Seq(S) /\ Len(Tail(s)) = Len(s) - 1 /\ Len(s) \in Nat \ {0}
         /\ s[1] \in S /\ Head(s) = s[1]
         /\ \A i \in 1 .. Len(s) - 1 : Tail(s)[i] = s[i + 1]
OBVIOUS

\* The innermost frame changes.
Top(s, e) == [s EXCEPT ![1] = e]

\* The frame on top changes, the others do not.
LEMMA Topped ==
  ASSUME NEW S, NEW s \in Seq(S), s # <<>>, NEW e \in S
  PROVE  /\ Top(s, e) \in Seq(S) /\ Len(Top(s, e)) = Len(s) /\ Top(s, e)[1] = e
         /\ \A i \in 2 .. Len(s) : Top(s, e)[i] = s[i]
BY DEF Top

\* Vectors in service are those of frames of this kind.
LEMMA LiveIs ==
  ASSUME NEW c, NEW s \in Seq(Frames(c)), NEW v
  PROVE  v \in Live(s) <=>
           v \in Fixed /\ \E i \in 1 .. Len(s) : s[i].vector = v /\ s[i].pc # "return"
BY DEF Live

\* An interrupt of the slave waits while its frame is at the entry.
LEMMA WaitsIs ==
  ASSUME NEW c, NEW s \in Seq(Frames(c))
  PROVE  SlaveWaits(s) <=> \E i \in 1 .. Len(s) : s[i].vector = 47 /\ s[i].pc = "entry"
BY DEF SlaveWaits

\* What the vectors are, one by one.
LEMMA VectorFacts ==
  ASSUME VectorsApart, NEW c, NEW v \in Vectors(c)
  PROVE  /\ v \in Nat /\ (v \in Fixed => v >= 48)
         /\ v >= 48 /\ v # Irq!SPURIOUS => v \in Fixed
         /\ v >= 32 /\ v < 48 => c = Boot /\ v \in {39, 47}
BY DEF VectorsApart, Vectors, Irq!SPURIOUS

\* An interrupt is entered.
LEMMA EnterOK ==
  ASSUME VectorsApart, NEW c, NEW s, NEW f, NEW q, NEW l, CpuOK(c, s, f, q, l),
         NEW v \in Vectors(c), v >= 32 => f,
         NEW e, e = [vector |-> v, pc |-> "entry", saved |-> f, fresh |-> TRUE],
         NEW g \in BOOLEAN, g <=> v < 32 /\ f
  PROVE  CpuOK(c, <<e>> \o s, g, q \cup ({v} \cap Fixed), l)
<1>1. /\ s \in Seq(Frames(c)) /\ f \in BOOLEAN /\ (f => OnlyTraps(s, 0))
      /\ (\A i \in 1 .. Len(s) : s[i].saved => OnlyTraps(s, i))
      /\ (\A i \in 1 .. Len(s) : s[i].vector < 32 \/ s[i].saved)
      /\ q = Live(s) /\ (f \/ (\E i \in 1 .. Len(s) : s[i].saved) => l = "enabled")
  BY Zenon DEF CpuOK
<1>2. e \in Frames(c) /\ e.vector = v /\ e.pc = "entry"
  BY <1>1, Zenon DEF Frames, Places
<1>s. e.saved <=> f
  BY <1>1, Zenon
<1>3. PICK t : t = <<e>> \o s
  BY Zenon
<1>4. /\ t \in Seq(Frames(c)) /\ Len(t) = Len(s) + 1 /\ t[1] = e
      /\ \A i \in 1 .. Len(s) : t[i + 1] = s[i]
      /\ \A i \in 2 .. Len(s) + 1 : t[i] = s[i - 1]
  BY <1>1, <1>2, <1>3, Pushed, SMTT(20)
<1>5. Len(s) \in Nat /\ v \in Nat
  BY <1>1, VectorFacts
<1>6. g => OnlyTraps(t, 0)
  <2> SUFFICES ASSUME g, NEW j \in 1 .. Len(t) PROVE t[j].vector < 32
    BY Zenon DEF OnlyTraps
  <2>1. v < 32 /\ OnlyTraps(s, 0)
    BY <1>1, Zenon
  <2>2. CASE j = 1
    BY <1>2, <1>4, <2>1, <2>2, Zenon
  <2>3. CASE j # 1
    <3>1. j - 1 \in 1 .. Len(s) /\ t[j] = s[j - 1] /\ j - 1 > 0
      BY <1>4, <1>5, <2>3
    <3> QED BY <2>1, <3>1, Zenon DEF OnlyTraps
  <2> QED BY <2>2, <2>3, Zenon
<1>7. ASSUME NEW i \in 1 .. Len(t), t[i].saved
      PROVE  OnlyTraps(t, i)
  <2> SUFFICES ASSUME NEW j \in 1 .. Len(t), j > i PROVE t[j].vector < 32
    BY Zenon DEF OnlyTraps
  <2>1. j - 1 \in 1 .. Len(s) /\ t[j] = s[j - 1] /\ j - 1 > 0
    BY <1>4, <1>5
  <2>2. CASE i = 1
    <3>1. f
      BY <1>4, <1>7, <1>s, <2>2, Zenon
    <3> QED BY <1>1, <2>1, <3>1, Zenon DEF OnlyTraps
  <2>3. CASE i # 1
    <3>1. i - 1 \in 1 .. Len(s) /\ t[i] = s[i - 1] /\ j - 1 > i - 1
      BY <1>4, <1>5, <2>3
    <3>2. s[i - 1].saved
      BY <1>7, <3>1, Zenon
    <3> QED BY <1>1, <2>1, <3>1, <3>2, Zenon DEF OnlyTraps
  <2> QED BY <2>2, <2>3, Zenon
<1>8. ASSUME NEW i \in 1 .. Len(t)
      PROVE  t[i].vector < 32 \/ t[i].saved
  <2>1. CASE i = 1
    <3>1. v < 32 \/ f
      BY <1>5
    <3> QED BY <1>2, <1>4, <1>s, <2>1, <3>1, Zenon
  <2>2. CASE i # 1
    <3>1. i - 1 \in 1 .. Len(s) /\ t[i] = s[i - 1]
      BY <1>4, <1>5, <2>2
    <3> QED BY <1>1, <3>1, Zenon
  <2> QED BY <2>1, <2>2, Zenon
<1>9. q \cup ({v} \cap Fixed) = Live(t)
  <2>1. ASSUME NEW x
        PROVE  x \in Live(t) <=> x \in q \/ (x = v /\ x \in Fixed)
    <3>1. x \in Live(t) <=>
            x \in Fixed /\ \E i \in 1 .. Len(t) : t[i].vector = x /\ t[i].pc # "return"
      <4>1. t \in Seq(Frames(c))
        BY <1>4, Zenon
      <4> QED BY ONLY <4>1, LiveIs
    <3>2. x \in q <=>
            x \in Fixed /\ \E i \in 1 .. Len(s) : s[i].vector = x /\ s[i].pc # "return"
      BY <1>1, LiveIs, Zenon
    <3>3. ASSUME NEW i \in 1 .. Len(t), t[i].vector = x, t[i].pc # "return", x # v
          PROVE  \E k \in 1 .. Len(s) : s[k].vector = x /\ s[k].pc # "return"
      <4>1. i # 1
        BY <1>2, <1>4, <3>3, Zenon
      <4>2. i - 1 \in 1 .. Len(s) /\ t[i] = s[i - 1]
        BY <1>4, <1>5, <4>1
      <4> QED BY <3>3, <4>2, Zenon
    <3>4. ASSUME NEW k \in 1 .. Len(s), s[k].vector = x, s[k].pc # "return"
          PROVE  \E i \in 1 .. Len(t) : t[i].vector = x /\ t[i].pc # "return"
      <4>1. k + 1 \in 1 .. Len(t) /\ t[k + 1] = s[k]
        BY <1>4, <1>5
      <4> QED BY <3>4, <4>1, Zenon
    <3>5. 1 \in 1 .. Len(t) /\ t[1].vector = v /\ t[1].pc # "return"
      BY <1>2, <1>4, <1>5
    <3> QED BY <3>1, <3>2, <3>3, <3>4, <3>5, Zenon
  <2> QED BY <2>1
<1>10. ASSUME g \/ \E i \in 1 .. Len(t) : t[i].saved
       PROVE  l = "enabled"
  <2>1. CASE g
    BY <1>1, <2>1, Zenon
  <2>2. CASE \E i \in 1 .. Len(t) : t[i].saved
    <3>1. PICK i \in 1 .. Len(t) : t[i].saved
      BY <2>2, Zenon
    <3>2. CASE i = 1
      BY <1>1, <1>4, <1>s, <3>1, <3>2, Zenon
    <3>3. CASE i # 1
      <4>1. i - 1 \in 1 .. Len(s) /\ t[i] = s[i - 1]
        BY <1>4, <1>5, <3>3
      <4> QED BY <1>1, <3>1, <4>1, Zenon
    <3> QED BY <3>2, <3>3, Zenon
  <2> QED BY <1>10, <2>1, <2>2, Zenon
<1>11. CpuOK(c, t, g, q \cup ({v} \cap Fixed), l)
  BY <1>4, <1>6, <1>7, <1>8, <1>9, <1>10, Zenon DEF CpuOK
<1> QED BY <1>3, <1>11, Zenon

\* An interrupt that is entered may be one of the slave PIC.
LEMMA PushedWaits ==
  ASSUME NEW c, NEW s \in Seq(Frames(c)), NEW e \in Frames(c), e.pc = "entry"
  PROVE  SlaveWaits(<<e>> \o s) <=> e.vector = 47 \/ SlaveWaits(s)
<1>1. PICK t : t = <<e>> \o s
  BY Zenon
<1>2. /\ t \in Seq(Frames(c)) /\ Len(t) = Len(s) + 1 /\ t[1] = e /\ Len(s) \in Nat
      /\ \A i \in 1 .. Len(s) : t[i + 1] = s[i]
      /\ \A i \in 2 .. Len(s) + 1 : t[i] = s[i - 1]
  BY <1>1, Pushed
<1>3. SlaveWaits(t) <=> e.vector = 47 \/ SlaveWaits(s)
  <2>1. SlaveWaits(t) <=> \E i \in 1 .. Len(t) : t[i].vector = 47 /\ t[i].pc = "entry"
    BY <1>2, WaitsIs, Zenon
  <2>2. SlaveWaits(s) <=> \E i \in 1 .. Len(s) : s[i].vector = 47 /\ s[i].pc = "entry"
    BY WaitsIs, Zenon
  <2>3. 1 \in 1 .. Len(t) /\ t[1].vector = e.vector /\ t[1].pc = "entry"
    BY <1>2
  <2>4. \A i \in 1 .. Len(t) : i = 1 \/ (i - 1 \in 1 .. Len(s) /\ t[i] = s[i - 1])
    BY <1>2
  <2>5. \A k \in 1 .. Len(s) : k + 1 \in 1 .. Len(t) /\ t[k + 1] = s[k]
    BY <1>2
  <2>6. SlaveWaits(t) => e.vector = 47 \/ SlaveWaits(s)
    <3> SUFFICES ASSUME NEW i \in 1 .. Len(t), t[i].vector = 47, t[i].pc = "entry", e.vector # 47
                 PROVE  SlaveWaits(s)
      BY <2>1, Zenon
    <3>1. i - 1 \in 1 .. Len(s) /\ t[i] = s[i - 1]
      BY <2>3, <2>4, Zenon
    <3> QED BY <2>2, <3>1, Zenon
  <2>7. e.vector = 47 \/ SlaveWaits(s) => SlaveWaits(t)
    <3>1. CASE e.vector = 47
      BY <2>1, <2>3, <3>1, Zenon
    <3>2. CASE SlaveWaits(s)
      <4>1. PICK k \in 1 .. Len(s) : s[k].vector = 47 /\ s[k].pc = "entry"
        BY <2>2, <3>2, Zenon
      <4>2. k + 1 \in 1 .. Len(t) /\ t[k + 1].vector = 47 /\ t[k + 1].pc = "entry"
        BY <2>5, <4>1, Zenon
      <4> QED BY <2>1, <4>2, Zenon
    <3> QED BY <3>1, <3>2, Zenon
  <2> QED BY <2>6, <2>7, Zenon
<1> QED BY <1>1, <1>3, Zenon

\* The innermost frame changes in its place or in "fresh".
LEMMA TopOK ==
  ASSUME VectorsApart, NEW c, NEW s, NEW f, NEW q, NEW l, CpuOK(c, s, f, q, l), s # <<>>,
         NEW e \in Frames(c), e.vector = s[1].vector, e.saved = s[1].saved,
         e.pc # "return", s[1].pc # "return"
  PROVE  CpuOK(c, Top(s, e), f, q, l)
<1>1. /\ s \in Seq(Frames(c)) /\ f \in BOOLEAN /\ (f => OnlyTraps(s, 0))
      /\ (\A i \in 1 .. Len(s) : s[i].saved => OnlyTraps(s, i))
      /\ (\A i \in 1 .. Len(s) : s[i].vector < 32 \/ s[i].saved)
      /\ q = Live(s) /\ (f \/ (\E i \in 1 .. Len(s) : s[i].saved) => l = "enabled")
  BY Zenon DEF CpuOK
<1>2. PICK t : t = Top(s, e)
  BY Zenon
<1>3. /\ t \in Seq(Frames(c)) /\ Len(t) = Len(s) /\ t[1] = e
      /\ \A i \in 2 .. Len(s) : t[i] = s[i]
  <2>1. s \in Seq(Frames(c))
    BY <1>1, Zenon
  <2>2. /\ Top(s, e) \in Seq(Frames(c)) /\ Len(Top(s, e)) = Len(s) /\ Top(s, e)[1] = e
        /\ \A i \in 2 .. Len(s) : Top(s, e)[i] = s[i]
    <3>1. s # <<>> /\ e \in Frames(c)
      BY Zenon
    <3> QED BY ONLY <2>1, <3>1, Topped
  <2> QED BY <1>2, <2>2, Zenon
<1>4. Len(s) \in Nat \ {0}
  BY <1>1, Popped, Zenon
<1>5. \A i \in 1 .. Len(s) : i = 1 \/ t[i] = s[i]
  BY <1>3, <1>4
<1>6. \A i \in 1 .. Len(s) : t[i].vector = s[i].vector /\ t[i].saved = s[i].saved
  BY <1>3, <1>5, Zenon
<1>7. \A i \in 1 .. Len(s) : t[i].pc # "return" <=> s[i].pc # "return"
  BY <1>3, <1>5, Zenon
<1>8. \A k : OnlyTraps(t, k) <=> OnlyTraps(s, k)
  BY <1>3, <1>6, Zenon DEF OnlyTraps
<1>9. Live(t) = Live(s)
  <2>1. ASSUME NEW x PROVE x \in Live(t) <=> x \in Live(s)
    <3>1. x \in Live(t) <=>
            x \in Fixed /\ \E i \in 1 .. Len(t) : t[i].vector = x /\ t[i].pc # "return"
      BY <1>3, LiveIs
    <3>2. x \in Live(s) <=>
            x \in Fixed /\ \E i \in 1 .. Len(s) : s[i].vector = x /\ s[i].pc # "return"
      BY <1>1, LiveIs, SMTT(20)
    <3> QED BY <1>3, <1>6, <1>7, <3>1, <3>2, SMTT(20)
  <2> QED BY <2>1, LiveIs, Zenon DEF Live
<1>10. CpuOK(c, t, f, q, l)
  <2>1. \A i \in 1 .. Len(t) : t[i].saved => OnlyTraps(t, i)
    BY <1>1, <1>3, <1>6, <1>8, Zenon
  <2>2. \A i \in 1 .. Len(t) : t[i].vector < 32 \/ t[i].saved
    BY <1>1, <1>3, <1>6, Zenon
  <2>3. f \/ (\E i \in 1 .. Len(t) : t[i].saved) => l = "enabled"
    BY <1>1, <1>3, <1>6, Zenon
  <2> QED BY <1>1, <1>3, <1>8, <1>9, <2>1, <2>2, <2>3, Zenon DEF CpuOK
<1> QED BY <1>2, <1>10, Zenon

\* The innermost routine is about to return: it is no longer in service.
LEMMA DoneOK ==
  ASSUME VectorsApart, NEW c, NEW s, NEW f, NEW q, NEW l, CpuOK(c, s, f, q, l), s # <<>>,
         NEW e \in Frames(c), e.vector = s[1].vector, e.saved = s[1].saved, e.pc = "return"
  PROVE  /\ CpuOK(c, Top(s, e), f, q \ {s[1].vector}, l)
         /\ s[1].vector \in Fixed => q \subseteq {s[1].vector}
         /\ s[1].vector = 47 => ~SlaveWaits(Top(s, e))
<1>1. /\ s \in Seq(Frames(c)) /\ f \in BOOLEAN /\ (f => OnlyTraps(s, 0))
      /\ (\A i \in 1 .. Len(s) : s[i].saved => OnlyTraps(s, i))
      /\ (\A i \in 1 .. Len(s) : s[i].vector < 32 \/ s[i].saved)
      /\ q = Live(s) /\ (f \/ (\E i \in 1 .. Len(s) : s[i].saved) => l = "enabled")
  BY Zenon DEF CpuOK
<1>2. PICK t : t = Top(s, e)
  BY Zenon
<1>3. /\ t \in Seq(Frames(c)) /\ Len(t) = Len(s) /\ t[1] = e
      /\ \A i \in 2 .. Len(s) : t[i] = s[i]
  <2>1. s \in Seq(Frames(c))
    BY <1>1, Zenon
  <2>2. /\ Top(s, e) \in Seq(Frames(c)) /\ Len(Top(s, e)) = Len(s) /\ Top(s, e)[1] = e
        /\ \A i \in 2 .. Len(s) : Top(s, e)[i] = s[i]
    <3>1. s # <<>> /\ e \in Frames(c)
      BY Zenon
    <3> QED BY ONLY <2>1, <3>1, Topped
  <2> QED BY <1>2, <2>2, Zenon
<1>4. Len(s) \in Nat \ {0} /\ s[1] \in Frames(c) /\ 1 \in 1 .. Len(s)
  BY <1>1, Popped
<1>5. \A i \in 1 .. Len(s) : i = 1 \/ (t[i] = s[i] /\ i > 1)
  BY <1>3, <1>4
<1>6. \A i \in 1 .. Len(s) : t[i].vector = s[i].vector /\ t[i].saved = s[i].saved
  BY <1>3, <1>5, Zenon
<1>7. \A k : OnlyTraps(t, k) <=> OnlyTraps(s, k)
  BY <1>3, <1>6, Zenon DEF OnlyTraps
<1>v. PICK v : v = s[1].vector
  BY Zenon
<1>8. v \in Nat /\ (v \in Fixed => v >= 48)
  BY <1>4, <1>v, FrameFields, VectorFacts, Zenon
<1>9. v >= 32 => \A i \in 1 .. Len(s) : i = 1 \/ s[i].vector < 32
  <2> SUFFICES ASSUME v >= 32 PROVE OnlyTraps(s, 1)
    BY <1>5, Zenon DEF OnlyTraps
  <2>1. ~(s[1].vector < 32)
    BY <1>8, <1>v
  <2> QED BY <1>1, <1>4, <2>1, Zenon
<1>10. \A x \in Fixed : ~(x < 32)
  BY DEF VectorsApart
<1>11. ASSUME NEW x
       PROVE  x \in Live(t) <=> x \in q /\ x # v
  <2>1. x \in Live(t) <=>
          x \in Fixed /\ \E i \in 1 .. Len(t) : t[i].vector = x /\ t[i].pc # "return"
    <3>1. t \in Seq(Frames(c))
      BY <1>3, Zenon
    <3> QED BY ONLY <3>1, LiveIs
  <2>2. x \in q <=>
          x \in Fixed /\ \E i \in 1 .. Len(s) : s[i].vector = x /\ s[i].pc # "return"
    BY <1>1, LiveIs
  <2>3. ASSUME NEW i \in 1 .. Len(t), t[i].vector = x, t[i].pc # "return", x \in Fixed
        PROVE  x \in q /\ x # v
    <3>1. i # 1 /\ i \in 1 .. Len(s) /\ t[i] = s[i]
      BY <1>3, <1>5, <2>3, Zenon
    <3>2. x # v
      BY <1>8, <1>9, <1>10, <2>3, <3>1
    <3> QED BY <2>2, <2>3, <3>1, <3>2, Zenon
  <2>4. ASSUME NEW i \in 1 .. Len(s), s[i].vector = x, s[i].pc # "return", x # v
        PROVE  \E j \in 1 .. Len(t) : t[j].vector = x /\ t[j].pc # "return"
    <3>1. i # 1
      BY <1>v, <2>4, Zenon
    <3> QED BY <1>3, <1>5, <2>4, <3>1, Zenon
  <2> QED BY <2>1, <2>2, <2>3, <2>4, Zenon
<1>12. q \ {v} = Live(t)
  BY <1>11, Zenon
<1>13. CpuOK(c, t, f, q \ {v}, l)
  <2>1. \A i \in 1 .. Len(t) : t[i].saved => OnlyTraps(t, i)
    BY <1>1, <1>3, <1>6, <1>7, Zenon
  <2>2. \A i \in 1 .. Len(t) : t[i].vector < 32 \/ t[i].saved
    BY <1>1, <1>3, <1>6, Zenon
  <2>3. f \/ (\E i \in 1 .. Len(t) : t[i].saved) => l = "enabled"
    BY <1>1, <1>3, <1>6, Zenon
  <2> QED BY <1>1, <1>3, <1>7, <1>12, <2>1, <2>2, <2>3, Zenon DEF CpuOK
<1>14. v \in Fixed => q \subseteq {v}
  <2> SUFFICES ASSUME v \in Fixed, NEW x \in q PROVE x = v
    BY Zenon
  <2>1. PICK i \in 1 .. Len(s) : s[i].vector = x /\ x \in Fixed
    BY <1>1, LiveIs
  <2>2. v >= 32
    BY <1>8
  <2>3. i = 1
    BY <1>9, <1>10, <2>1, <2>2, Zenon
  <2> QED BY <1>v, <2>1, <2>3, Zenon
<1>15. v = 47 => ~SlaveWaits(t)
  <2> SUFFICES ASSUME v = 47, NEW i \in 1 .. Len(t), t[i].vector = 47, t[i].pc = "entry"
               PROVE  FALSE
    BY <1>3, WaitsIs, Zenon
  <2>1. i = 1
    BY <1>3, <1>6, <1>9
  <2> QED BY <1>3, <2>1, Zenon
<1> QED BY <1>2, <1>13, <1>14, <1>15, <1>v, Zenon

\* What was an acknowledgement that is due stays one.
LEMMA TopWaits ==
  ASSUME NEW c, NEW s \in Seq(Frames(c)), s # <<>>, NEW e \in Frames(c),
         e.vector = 47 /\ e.pc = "entry" <=> s[1].vector = 47 /\ s[1].pc = "entry"
  PROVE  SlaveWaits(Top(s, e)) <=> SlaveWaits(s)
<1>1. PICK t : t = Top(s, e)
  BY Zenon
<1>2. /\ t \in Seq(Frames(c)) /\ Len(t) = Len(s) /\ t[1] = e
      /\ \A i \in 2 .. Len(s) : t[i] = s[i]
  <2>2. /\ Top(s, e) \in Seq(Frames(c)) /\ Len(Top(s, e)) = Len(s) /\ Top(s, e)[1] = e
        /\ \A i \in 2 .. Len(s) : Top(s, e)[i] = s[i]
    BY Topped
  <2> QED BY <1>1, <2>2, Zenon
<1>3. Len(s) \in Nat \ {0}
  BY Popped, Zenon
<1>4. \A i \in 1 .. Len(s) : i = 1 \/ t[i] = s[i]
  BY <1>2, <1>3
<1>5. SlaveWaits(t) <=> \E i \in 1 .. Len(t) : t[i].vector = 47 /\ t[i].pc = "entry"
  BY <1>2, WaitsIs, Zenon
<1>6. SlaveWaits(s) <=> \E i \in 1 .. Len(s) : s[i].vector = 47 /\ s[i].pc = "entry"
  BY WaitsIs, Zenon
<1> QED BY <1>1, <1>2, <1>4, <1>5, <1>6

\* A routine returns.
LEMMA ReturnOK ==
  ASSUME VectorsApart, NEW c, NEW s, NEW f, NEW q, NEW l, CpuOK(c, s, f, q, l), s # <<>>,
         s[1].pc = "return"
  PROVE  /\ CpuOK(c, Tail(s), s[1].saved, q, l)
         /\ SlaveWaits(Tail(s)) <=> SlaveWaits(s)
<1>1. /\ s \in Seq(Frames(c)) /\ f \in BOOLEAN /\ (f => OnlyTraps(s, 0))
      /\ (\A i \in 1 .. Len(s) : s[i].saved => OnlyTraps(s, i))
      /\ (\A i \in 1 .. Len(s) : s[i].vector < 32 \/ s[i].saved)
      /\ q = Live(s) /\ (f \/ (\E i \in 1 .. Len(s) : s[i].saved) => l = "enabled")
  BY Zenon DEF CpuOK
<1>2. PICK t : t = Tail(s)
  BY Zenon
<1>3. /\ t \in Seq(Frames(c)) /\ Len(t) = Len(s) - 1 /\ Len(s) \in Nat \ {0}
      /\ s[1] \in Frames(c) /\ \A i \in 1 .. Len(s) - 1 : t[i] = s[i + 1]
  BY <1>1, <1>2, Popped, Zenon
<1>4. /\ \A i \in 1 .. Len(t) : i + 1 \in 1 .. Len(s) /\ t[i] = s[i + 1]
      /\ \A i \in 1 .. Len(s) : i = 1 \/ (i - 1 \in 1 .. Len(t) /\ s[i] = t[i - 1])
      /\ 1 \in 1 .. Len(s)
  BY <1>3
<1>5. \A i \in 0 .. Len(s) - 1 : OnlyTraps(s, i + 1) => OnlyTraps(t, i)
  <2> SUFFICES ASSUME NEW i \in 0 .. Len(s) - 1, OnlyTraps(s, i + 1), NEW j \in 1 .. Len(t), j > i
               PROVE  t[j].vector < 32
    BY Zenon DEF OnlyTraps
  <2>1. j + 1 > i + 1
    BY <1>3
  <2> QED BY <1>4, <2>1, Zenon DEF OnlyTraps
<1>6. s[1].saved \in BOOLEAN
  BY <1>3, FrameFields, Zenon
<1>7. s[1].saved => OnlyTraps(t, 0)
  <2>1. s[1].saved => OnlyTraps(s, 0 + 1)
    BY <1>1, <1>4
  <2> QED BY <1>3, <1>5, <2>1
<1>8. \A i \in 1 .. Len(t) : t[i].saved => OnlyTraps(t, i)
  <2> SUFFICES ASSUME NEW i \in 1 .. Len(t), t[i].saved PROVE OnlyTraps(t, i)
    BY Zenon
  <2>1. OnlyTraps(s, i + 1)
    BY <1>1, <1>4, Zenon
  <2>2. i \in 0 .. Len(s) - 1
    BY <1>3
  <2> QED BY <1>5, <2>1, <2>2, Zenon
<1>9. \A i \in 1 .. Len(t) : t[i].vector < 32 \/ t[i].saved
  BY <1>1, <1>4, Zenon
<1>10. Live(t) = q
  <2>1. ASSUME NEW x PROVE x \in Live(t) <=> x \in q
    <3>1. x \in Live(t) <=>
            x \in Fixed /\ \E i \in 1 .. Len(t) : t[i].vector = x /\ t[i].pc # "return"
      BY <1>3, LiveIs
    <3>2. x \in q <=>
            x \in Fixed /\ \E i \in 1 .. Len(s) : s[i].vector = x /\ s[i].pc # "return"
      BY <1>1, LiveIs, Zenon
    <3> QED BY <1>4, <3>1, <3>2, Zenon
  <2> QED BY <1>1, <2>1, Zenon DEF Live
<1>11. s[1].saved \/ (\E i \in 1 .. Len(t) : t[i].saved) => l = "enabled"
  BY <1>1, <1>4, Zenon
<1>12. CpuOK(c, t, s[1].saved, q, l)
  BY <1>3, <1>6, <1>7, <1>8, <1>9, <1>10, <1>11, Zenon DEF CpuOK
<1>13. SlaveWaits(t) <=> SlaveWaits(s)
  <2>1. SlaveWaits(t) <=> \E i \in 1 .. Len(t) : t[i].vector = 47 /\ t[i].pc = "entry"
    BY <1>3, WaitsIs, Zenon
  <2>2. SlaveWaits(s) <=> \E i \in 1 .. Len(s) : s[i].vector = 47 /\ s[i].pc = "entry"
    BY <1>1, WaitsIs, Zenon
  <2>3. SlaveWaits(t) => SlaveWaits(s)
    <3> SUFFICES ASSUME NEW i \in 1 .. Len(t), t[i].vector = 47, t[i].pc = "entry"
                 PROVE  SlaveWaits(s)
      BY <2>1, Zenon
    <3>1. i + 1 \in 1 .. Len(s) /\ s[i + 1].vector = 47 /\ s[i + 1].pc = "entry"
      BY <1>4, Zenon
    <3> QED BY <2>2, <3>1, Zenon
  <2>4. s[1].pc # "entry"
    BY Zenon
  <2>5. SlaveWaits(s) => SlaveWaits(t)
    BY <1>4, <2>1, <2>2, <2>4, Zenon
  <2> QED BY <2>3, <2>5, Zenon
<1> QED BY <1>2, <1>12, <1>13, Zenon

------------------------------------------------------------------------------
(* Steps.                                                                   *)

\* Every non-empty set of naturals has a least element.
LEMMA LeastNat ==
  ASSUME NEW T, T \subseteq Nat, T # {}
  PROVE  \E n \in T : \A m \in T : n <= m
<1> DEFINE F == {0 .. k : k \in T}
<1>1. IsWellFoundedOn(StrictSubsetOrdering(Nat), FiniteSubsetsOf(Nat))
  BY FS_StrictSubsetOrderingWellFounded, Zenon
<1>2. \A k \in Nat : 0 .. k \in FiniteSubsetsOf(Nat)
  BY FS_Interval DEF FiniteSubsetsOf
<1>3. F \subseteq FiniteSubsetsOf(Nat) /\ F # {}
  BY <1>2, Zenon
<1>4. PICK s \in F : \A y \in F : ~(<<y, s>> \in StrictSubsetOrdering(Nat))
  <2> HIDE DEF F
  <2> QED BY <1>1, <1>3, WFMin, Zenon
<1>5. PICK n \in T : s = 0 .. n
  BY Zenon
<1>6. \A m \in T : m < n => <<0 .. m, s>> \in StrictSubsetOrdering(Nat)
  BY <1>5 DEF StrictSubsetOrdering
<1>7. \A m \in T : ~(m < n)
  <2> TAKE m \in T
  <2>1. 0 .. m \in F
    BY Zenon
  <2>2. ~(<<0 .. m, s>> \in StrictSubsetOrdering(Nat))
    BY <1>4, <2>1, Zenon
  <2> QED BY <1>6, <2>2, Zenon
<1> QED BY <1>7

\* A set of vectors has a greatest one.
LEMMA MaxIn ==
  ASSUME NEW S, S \subseteq 0 .. 255, S # {}
  PROVE  Irq!Max(S) \in S
<1>1. PICK D : D = {255 - x : x \in S}
  BY Zenon
<1>2. D \subseteq Nat /\ D # {}
  <2>1. \A x \in S : x \in 0 .. 255 /\ 255 - x \in Nat
    OBVIOUS
  <2>2. D \subseteq Nat
    BY <1>1, <2>1
  <2>3. PICK x : x \in S
    BY Zenon
  <2>4. 255 - x \in D
    BY <1>1, <2>3, Zenon
  <2> QED BY <2>2, <2>4, Zenon
<1>3. PICK n \in D : \A m \in D : n <= m
  BY <1>2, LeastNat, Zenon
<1>4. PICK x \in S : n = 255 - x
  BY <1>1, Zenon
<1>5. \A y \in S : x >= y
  <2> SUFFICES ASSUME NEW y \in S PROVE x >= y
    BY Zenon
  <2>1. 255 - y \in D
    BY <1>1, Zenon
  <2>2. 255 - x <= 255 - y
    BY <1>3, <1>4, <2>1, Zenon
  <2> QED BY <2>2
<1> QED BY <1>5, Zenon DEF Irq!Max

\* A step of CPU c leaves the others alone.
LEMMA OneCpu ==
  ASSUME VectorsApart, ServiceInv, NEW c \in Cpu,
         NEW s, NEW f, NEW q, NEW l, CpuOK(c, s, f, q, l), q \subseteq Fixed,
         l \in {"off", "on", "enabled"},
         frames' = [frames EXCEPT ![c] = s], enabled' = [enabled EXCEPT ![c] = f],
         isr' = [isr EXCEPT ![c] = q], lapic' = [lapic EXCEPT ![c] = l],
         requested' \in [Cpu -> SUBSET Fixed], stray' \subseteq {"slave"},
         pic' = [master |-> IF SlaveWaits(frames'[Boot]) THEN {2} ELSE {}, slave |-> {}]
  PROVE  ServiceInv'
<1>1. /\ lapic \in [Cpu -> {"off", "on", "enabled"}] /\ isr \in [Cpu -> SUBSET Fixed]
      /\ enabled \in [Cpu -> BOOLEAN] /\ frames = [d \in Cpu |-> frames[d]]
      /\ \A d \in Cpu : CpuOK(d, frames[d], enabled[d], isr[d], lapic[d])
  BY Zenon DEF ServiceInv
<1>2. f \in BOOLEAN
  BY Zenon DEF CpuOK
<1>3. /\ lapic' \in [Cpu -> {"off", "on", "enabled"}] /\ isr' \in [Cpu -> SUBSET Fixed]
      /\ frames' = [d \in Cpu |-> frames'[d]]
  BY <1>1, Zenon
<1>4. enabled' \in [Cpu -> BOOLEAN]
  BY <1>1, <1>2, Zenon
<1>5. ASSUME NEW d \in Cpu
      PROVE  CpuOK(d, frames'[d], enabled'[d], isr'[d], lapic'[d])
  <2>1. CASE d = c
    <3>1. frames'[d] = s /\ enabled'[d] = f /\ isr'[d] = q /\ lapic'[d] = l
      BY <1>1, <2>1, Zenon
    <3> QED BY <2>1, <3>1, Zenon
  <2>2. CASE d # c
    <3>1. /\ frames'[d] = frames[d] /\ enabled'[d] = enabled[d] /\ isr'[d] = isr[d]
          /\ lapic'[d] = lapic[d]
      BY <1>1, <2>2, Zenon
    <3> QED BY <1>1, <3>1, Zenon
  <2> QED BY <2>1, <2>2, Zenon
<1>6. (\A d \in Cpu : CpuOK(d, frames[d], enabled[d], isr[d], lapic[d]))'
  BY <1>5, Zenon DEF CpuOK, OnlyTraps, Live, Frames, Vectors, Irq!SPURIOUS, Places
<1>7. (pic = [master |-> IF SlaveWaits(frames[Boot]) THEN {2} ELSE {}, slave |-> {}])'
  BY Zenon DEF SlaveWaits
<1> QED BY <1>3, <1>4, <1>6, <1>7, Zenon DEF ServiceInv

\* The parts of a CPU's state.
LEMMA CpuParts ==
  ASSUME ServiceInv, NEW c \in Cpu
  PROVE  /\ CpuOK(c, frames[c], enabled[c], isr[c], lapic[c]) /\ isr[c] \subseteq Fixed
         /\ lapic[c] \in {"off", "on", "enabled"} /\ requested[c] \subseteq Fixed
         /\ enabled[c] \in BOOLEAN /\ frames[c] \in Seq(Frames(c))
         /\ isr = [isr EXCEPT ![c] = isr[c]] /\ lapic = [lapic EXCEPT ![c] = lapic[c]]
         /\ enabled = [enabled EXCEPT ![c] = enabled[c]]
         /\ frames = [frames EXCEPT ![c] = frames[c]]
<1>1. /\ lapic \in [Cpu -> {"off", "on", "enabled"}] /\ isr \in [Cpu -> SUBSET Fixed]
      /\ requested \in [Cpu -> SUBSET Fixed]
      /\ enabled \in [Cpu -> BOOLEAN] /\ frames = [d \in Cpu |-> frames[d]]
      /\ CpuOK(c, frames[c], enabled[c], isr[c], lapic[c])
  BY Zenon DEF ServiceInv
<1>2. frames[c] \in Seq(Frames(c)) /\ enabled[c] \in BOOLEAN
  BY <1>1, Zenon DEF CpuOK
<1>3. isr = [isr EXCEPT ![c] = isr[c]] /\ lapic = [lapic EXCEPT ![c] = lapic[c]]
  BY <1>1, Zenon
<1>4. enabled = [enabled EXCEPT ![c] = enabled[c]]
  BY <1>1, Zenon
<1>5. frames = [frames EXCEPT ![c] = frames[c]]
  BY <1>1, Zenon
<1> QED BY <1>1, <1>2, <1>3, <1>4, <1>5, Zenon

\* A request.
LEMMA RequestStep ==
  ASSUME VectorsApart, ServiceInv, NEW c \in Cpu, NEW v \in Fixed, Irq!Request(c, v)
  PROVE  ServiceInv'
<1>1. requested' \in [Cpu -> SUBSET Fixed]
  BY Zenon DEF Irq!Request, ServiceInv
<1>2. UNCHANGED <<lapic, isr, enabled, frames, pic, stray>>
  BY Zenon DEF Irq!Request
<1>3. /\ CpuOK(c, frames[c], enabled[c], isr[c], lapic[c]) /\ isr[c] \subseteq Fixed
      /\ lapic[c] \in {"off", "on", "enabled"}
      /\ isr = [isr EXCEPT ![c] = isr[c]] /\ lapic = [lapic EXCEPT ![c] = lapic[c]]
      /\ enabled = [enabled EXCEPT ![c] = enabled[c]] /\ frames = [frames EXCEPT ![c] = frames[c]]
  BY CpuParts, Zenon
<1>4. /\ pic = [master |-> IF SlaveWaits(frames[Boot]) THEN {2} ELSE {}, slave |-> {}]
      /\ stray \subseteq {"slave"}
  BY Zenon DEF ServiceInv
<1>5. pic' = [master |-> IF SlaveWaits(frames'[Boot]) THEN {2} ELSE {}, slave |-> {}]
  BY <1>2, <1>4, Zenon
<1> QED BY <1>1, <1>2, <1>3, <1>4, <1>5, OneCpu

\* Interrupts of any kind are entered as Enter says.
LEMMA EnterStep ==
  ASSUME VectorsApart, ServiceInv, NEW c \in Cpu, NEW v \in Vectors(c), v >= 32 => enabled[c],
         Irq!Enter(c, v), isr' = [isr EXCEPT ![c] = @ \cup ({v} \cap Fixed)], lapic' = lapic,
         requested' \in [Cpu -> SUBSET Fixed], stray' = stray,
         pic' = [master |-> IF SlaveWaits(frames'[Boot]) THEN {2} ELSE {}, slave |-> {}]
  PROVE  ServiceInv'
<1>1. /\ CpuOK(c, frames[c], enabled[c], isr[c], lapic[c]) /\ isr[c] \subseteq Fixed
      /\ lapic[c] \in {"off", "on", "enabled"} /\ enabled[c] \in BOOLEAN
      /\ lapic = [lapic EXCEPT ![c] = lapic[c]] /\ frames[c] \in Seq(Frames(c))
  BY CpuParts, Zenon
<1>2. PICK e : e = [vector |-> v, pc |-> "entry", saved |-> enabled[c], fresh |-> TRUE]
  BY Zenon
<1>3. PICK g \in BOOLEAN : g <=> v < 32 /\ enabled[c]
  BY Zenon
<1>4. CpuOK(c, <<e>> \o frames[c], g, isr[c] \cup ({v} \cap Fixed), lapic[c])
  BY <1>1, <1>2, <1>3, EnterOK
<1>5. frames' = [frames EXCEPT ![c] = <<e>> \o frames[c]]
  BY <1>2, Zenon DEF Irq!Enter, Irq!Frame
<1>6. enabled' = [enabled EXCEPT ![c] = g]
  <2>1. g = (v < 32 /\ enabled[c])
    BY <1>1, <1>3, Zenon
  <2> QED BY <2>1, Zenon DEF Irq!Enter, Irq!TrapGate
<1>7. isr[c] \cup ({v} \cap Fixed) \subseteq Fixed /\ stray' \subseteq {"slave"}
  BY <1>1, Zenon DEF ServiceInv
<1>8. isr' = [isr EXCEPT ![c] = isr[c] \cup ({v} \cap Fixed)] /\ lapic' = [lapic EXCEPT ![c] = lapic[c]]
  BY <1>1, Zenon
<1> QED BY <1>1, <1>4, <1>5, <1>6, <1>7, <1>8, OneCpu, Zenon

\* What entering an interrupt leaves to the slave PIC.
LEMMA EnterWaits ==
  ASSUME VectorsApart, ServiceInv, NEW c \in Cpu, NEW v \in Vectors(c), v >= 32 => enabled[c],
         Irq!Enter(c, v)
  PROVE  /\ c # Boot => SlaveWaits(frames'[Boot]) = SlaveWaits(frames[Boot])
         /\ c = Boot => (SlaveWaits(frames'[Boot]) <=> v = 47 \/ SlaveWaits(frames[Boot]))
<1>1. enabled[c] \in BOOLEAN /\ frames[c] \in Seq(Frames(c))
  BY CpuParts, Zenon
<1>2. PICK e : e = [vector |-> v, pc |-> "entry", saved |-> enabled[c], fresh |-> TRUE]
  BY Zenon
<1>3. e \in Frames(c) /\ e.vector = v /\ e.pc = "entry"
  BY <1>1, <1>2, Zenon DEF Frames, Places
<1>4. SlaveWaits(<<e>> \o frames[c]) <=> v = 47 \/ SlaveWaits(frames[c])
  BY <1>1, <1>3, PushedWaits
<1>5. frames' = [frames EXCEPT ![c] = <<e>> \o frames[c]]
  BY <1>2, Zenon DEF Irq!Enter, Irq!Frame
<1>6. frames = [d \in Cpu |-> frames[d]] /\ Boot \in Cpu
  BY Zenon DEF ServiceInv, VectorsApart
<1>7. frames'[Boot] = IF Boot = c THEN <<e>> \o frames[c] ELSE frames[Boot]
  BY <1>5, <1>6, Zenon
<1> QED BY <1>4, <1>7, Zenon

\* The local APIC delivers a fixed interrupt,
LEMMA FixedStep ==
  ASSUME VectorsApart, ServiceInv, NEW c \in Cpu, Irq!Deliver(c)
  PROVE  ServiceInv'
<1>1. requested[c] \subseteq Fixed /\ requested \in [Cpu -> SUBSET Fixed] /\ isr \in [Cpu -> SUBSET Fixed]
  BY CpuParts, Zenon DEF ServiceInv
<1>2. PICK v : v = Irq!Max(requested[c])
  BY Zenon
<1>3. v \in requested[c] /\ v \in Fixed
  <2>1. requested[c] \subseteq 0 .. 255
    <3> SUFFICES ASSUME NEW x \in requested[c] PROVE x \in 0 .. 255
      BY Zenon
    <3>1. x \in 48 .. 254
      BY <1>1, Zenon DEF VectorsApart
    <3> QED BY <3>1
  <2>2. requested[c] # {}
    BY Zenon DEF Irq!Deliver
  <2> QED BY <1>1, <1>2, <2>1, <2>2, MaxIn, Zenon
<1>4. v \in Vectors(c) /\ v # 47
  BY <1>3 DEF Vectors, VectorsApart
<1>5. /\ Irq!Enter(c, v) /\ enabled[c] /\ requested' = [requested EXCEPT ![c] = @ \ {v}]
      /\ isr' = [isr EXCEPT ![c] = @ \cup {v}] /\ UNCHANGED <<lapic, pic, stray>>
  BY <1>2, Zenon DEF Irq!Deliver
<1>6. requested' \in [Cpu -> SUBSET Fixed]
  BY <1>1, <1>5, Zenon
<1>7. {v} \cap Fixed = {v}
  BY <1>3, Zenon
<1>8. SlaveWaits(frames'[Boot]) <=> SlaveWaits(frames[Boot])
  BY <1>4, <1>5, EnterWaits
<1>9. pic' = [master |-> IF SlaveWaits(frames'[Boot]) THEN {2} ELSE {}, slave |-> {}]
  <2>1. pic = [master |-> IF SlaveWaits(frames[Boot]) THEN {2} ELSE {}, slave |-> {}]
    BY Zenon DEF ServiceInv
  <2>2. (IF SlaveWaits(frames'[Boot]) THEN {2} ELSE {}) = IF SlaveWaits(frames[Boot]) THEN {2} ELSE {}
    BY <1>8, Zenon
  <2> QED BY <1>5, <2>1, <2>2, Zenon
<1>10. isr' = [isr EXCEPT ![c] = @ \cup ({v} \cap Fixed)]
  BY <1>5, <1>7, Zenon
<1> QED BY <1>4, <1>5, <1>6, <1>9, <1>10, EnterStep, Zenon

\* or a spurious one.
LEMMA SpuriousStep ==
  ASSUME VectorsApart, ServiceInv, NEW c \in Cpu, Irq!DeliverSpurious(c)
  PROVE  ServiceInv'
<1>1. /\ requested \in [Cpu -> SUBSET Fixed] /\ isr[c] \subseteq Fixed
      /\ isr = [isr EXCEPT ![c] = isr[c]]
  BY CpuParts, Zenon DEF ServiceInv
<1>2. PICK v : v = Irq!SPURIOUS
  BY Zenon
<1>3. v \in Vectors(c) /\ v # 47 /\ {v} \cap Fixed = {}
  BY <1>2 DEF Vectors, VectorsApart, Irq!SPURIOUS
<1>4. Irq!Enter(c, v) /\ enabled[c] /\ UNCHANGED <<lapic, requested, isr, pic, stray>>
  BY <1>2, Zenon DEF Irq!DeliverSpurious
<1>5. SlaveWaits(frames'[Boot]) <=> SlaveWaits(frames[Boot])
  BY <1>3, <1>4, EnterWaits
<1>6. pic' = [master |-> IF SlaveWaits(frames'[Boot]) THEN {2} ELSE {}, slave |-> {}]
  <2>1. pic = [master |-> IF SlaveWaits(frames[Boot]) THEN {2} ELSE {}, slave |-> {}]
    BY Zenon DEF ServiceInv
  <2>2. (IF SlaveWaits(frames'[Boot]) THEN {2} ELSE {}) = IF SlaveWaits(frames[Boot]) THEN {2} ELSE {}
    BY <1>5, Zenon
  <2> QED BY <1>4, <2>1, <2>2, Zenon
<1>7. isr' = [isr EXCEPT ![c] = @ \cup ({v} \cap Fixed)]
  <2>1. isr[c] \cup ({v} \cap Fixed) = isr[c]
    BY <1>3, Zenon
  <2> QED BY <1>1, <1>4, <2>1, Zenon
<1>8. requested' \in [Cpu -> SUBSET Fixed]
  BY <1>1, <1>4, Zenon
<1> QED BY <1>3, <1>4, <1>6, <1>7, <1>8, EnterStep, Zenon

\* A PIC raises a spurious interrupt.
LEMMA PicStep ==
  ASSUME VectorsApart, ServiceInv, NEW irq \in {7, 15}, Irq!DeliverPic(irq)
  PROVE  ServiceInv'
<1>1. Boot \in Cpu
  BY Zenon DEF VectorsApart
<1>2. /\ requested \in [Cpu -> SUBSET Fixed] /\ isr[Boot] \subseteq Fixed
      /\ isr = [isr EXCEPT ![Boot] = isr[Boot]]
      /\ CpuOK(Boot, frames[Boot], enabled[Boot], isr[Boot], lapic[Boot])
  BY <1>1, CpuParts, Zenon DEF ServiceInv
<1>3. PICK v : v = 32 + irq
  BY Zenon
<1>4. v \in Vectors(Boot) /\ {v} \cap Fixed = {} /\ v \in {39, 47} /\ (v = 47 <=> irq = 15)
  BY <1>3 DEF Vectors, VectorsApart
<1>5. /\ Irq!Enter(Boot, v) /\ enabled[Boot] /\ UNCHANGED <<lapic, requested, isr, stray>>
      /\ pic' = IF irq = 15 THEN [pic EXCEPT !.master = {2}] ELSE pic
  BY <1>3, Zenon DEF Irq!DeliverPic, Irq!PIC_IDT_START, Irq!CascadeLine
<1>6. ~SlaveWaits(frames[Boot])
  <2>1. OnlyTraps(frames[Boot], 0) /\ frames[Boot] \in Seq(Frames(Boot))
    BY <1>2, <1>5, Zenon DEF CpuOK
  <2>2. SlaveWaits(frames[Boot]) <=>
          \E i \in 1 .. Len(frames[Boot]) : frames[Boot][i].vector = 47 /\ frames[Boot][i].pc = "entry"
    BY <2>1, WaitsIs
  <2> QED BY <2>1, <2>2 DEF OnlyTraps
<1>7. pic = [master |-> {}, slave |-> {}]
  BY <1>6, Zenon DEF ServiceInv
<1>8. SlaveWaits(frames'[Boot]) <=> v = 47
  BY <1>1, <1>4, <1>5, <1>6, EnterWaits
<1>9. pic' = [master |-> IF SlaveWaits(frames'[Boot]) THEN {2} ELSE {}, slave |-> {}]
  <2>1. CASE irq = 15
    <3>1. pic' = [master |-> {2}, slave |-> {}]
      BY <1>5, <1>7, <2>1, Zenon
    <3> QED BY <1>4, <1>8, <2>1, <3>1, Zenon
  <2>2. CASE irq = 7
    <3>1. pic' = [master |-> {}, slave |-> {}] /\ ~SlaveWaits(frames'[Boot])
      BY <1>4, <1>5, <1>7, <1>8, <2>2
    <3> QED BY <3>1, Zenon
  <2> QED BY <2>1, <2>2, Zenon
<1>10. isr' = [isr EXCEPT ![Boot] = @ \cup ({v} \cap Fixed)]
  <2>1. isr[Boot] \cup ({v} \cap Fixed) = isr[Boot]
    BY <1>4, Zenon
  <2> QED BY <1>2, <1>5, <2>1, Zenon
<1>11. requested' \in [Cpu -> SUBSET Fixed]
  BY <1>2, <1>5, Zenon
<1> QED BY <1>1, <1>4, <1>5, <1>9, <1>10, <1>11, EnterStep, Zenon

\* The state of CPU c goes on to another place of interrupt_routine.
LEMMA GotoIs ==
  ASSUME ServiceInv, NEW c \in Cpu, frames[c] # <<>>, NEW p \in Places, Irq!Goto(c, p)
  PROVE  \E e \in Frames(c) :
           /\ e.vector = frames[c][1].vector /\ e.saved = frames[c][1].saved /\ e.pc = p
           /\ frames' = [frames EXCEPT ![c] = Top(frames[c], e)]
<1>1. frames[c] \in Seq(Frames(c)) /\ frames = [d \in Cpu |-> frames[d]]
  BY CpuParts, Zenon DEF ServiceInv
<1>2. PICK d : d = frames[c][1]
  BY Zenon
<1>3. d \in Frames(c)
  BY <1>1, <1>2, Popped, Zenon
<1>4. PICK e : e = [d EXCEPT !.pc = p]
  BY Zenon
<1>5. e = [vector |-> d.vector, pc |-> p, saved |-> d.saved, fresh |-> d.fresh]
  BY <1>3, <1>4, FrameFields
<1>6. e \in Frames(c) /\ e.vector = d.vector /\ e.pc = p
  BY <1>3, <1>5, FrameFields, Zenon DEF Frames
<1>7. e.saved = d.saved
  BY <1>5, Zenon
<1>8. frames' = [frames EXCEPT ![c] = Top(frames[c], e)]
  BY <1>1, <1>2, <1>4, Zenon DEF Irq!Goto, Top
<1> QED BY <1>2, <1>6, <1>7, <1>8, Zenon

\* The innermost routine moves on, and nothing else changes.
LEMMA MoveStep ==
  ASSUME VectorsApart, ServiceInv, NEW c \in Cpu, frames[c] # <<>>, NEW p \in Places, Irq!Goto(c, p),
         frames[c][1].pc # "return", p # "return", p # "entry",
         frames[c][1].pc # "entry" \/ frames[c][1].vector # 47,
         UNCHANGED <<lapic, requested, isr, enabled, pic, stray>>
  PROVE  ServiceInv'
<1>1. /\ CpuOK(c, frames[c], enabled[c], isr[c], lapic[c]) /\ isr[c] \subseteq Fixed
      /\ lapic[c] \in {"off", "on", "enabled"} /\ frames[c] \in Seq(Frames(c))
      /\ isr = [isr EXCEPT ![c] = isr[c]] /\ lapic = [lapic EXCEPT ![c] = lapic[c]]
      /\ enabled = [enabled EXCEPT ![c] = enabled[c]]
  BY CpuParts, Zenon
<1>2. PICK e \in Frames(c) :
           /\ e.vector = frames[c][1].vector /\ e.saved = frames[c][1].saved /\ e.pc = p
           /\ frames' = [frames EXCEPT ![c] = Top(frames[c], e)]
  BY GotoIs, Zenon
<1>3. CpuOK(c, Top(frames[c], e), enabled[c], isr[c], lapic[c])
  BY <1>1, <1>2, TopOK, Zenon
<1>4. SlaveWaits(Top(frames[c], e)) <=> SlaveWaits(frames[c])
  BY <1>1, <1>2, TopWaits, Zenon
<1>5. /\ pic = [master |-> IF SlaveWaits(frames[Boot]) THEN {2} ELSE {}, slave |-> {}]
      /\ stray \subseteq {"slave"} /\ requested \in [Cpu -> SUBSET Fixed]
      /\ frames = [d \in Cpu |-> frames[d]] /\ Boot \in Cpu
  BY Zenon DEF ServiceInv, VectorsApart
<1>6. frames'[Boot] = IF Boot = c THEN Top(frames[c], e) ELSE frames[Boot]
  BY <1>2, <1>5, Zenon
<1>7. SlaveWaits(frames'[Boot]) <=> SlaveWaits(frames[Boot])
  BY <1>4, <1>6, Zenon
<1>8. pic' = [master |-> IF SlaveWaits(frames'[Boot]) THEN {2} ELSE {}, slave |-> {}]
  BY <1>5, <1>7, Zenon
<1>9. /\ isr' = [isr EXCEPT ![c] = isr[c]] /\ lapic' = [lapic EXCEPT ![c] = lapic[c]]
      /\ enabled' = [enabled EXCEPT ![c] = enabled[c]] /\ requested' \in [Cpu -> SUBSET Fixed]
      /\ stray' \subseteq {"slave"}
  BY <1>1, <1>5, Zenon
<1>10. VectorsApart /\ ServiceInv /\ c \in Cpu
  BY Zenon
<1> QED BY ONLY <1>1, <1>2, <1>3, <1>8, <1>9, <1>10, OneCpu, Zenon

\* The innermost routine is done with the controllers.
LEMMA DoneStep ==
  ASSUME VectorsApart, ServiceInv, NEW c \in Cpu, frames[c] # <<>>, Irq!Goto(c, "return"),
         frames[c][1].pc # "entry" \/ frames[c][1].vector # 47,
         isr' = [isr EXCEPT ![c] = @ \ {frames[c][1].vector}],
         UNCHANGED <<lapic, requested, enabled, pic, stray>>
  PROVE  ServiceInv'
<1>1. /\ CpuOK(c, frames[c], enabled[c], isr[c], lapic[c]) /\ isr[c] \subseteq Fixed
      /\ lapic[c] \in {"off", "on", "enabled"} /\ frames[c] \in Seq(Frames(c))
      /\ lapic = [lapic EXCEPT ![c] = lapic[c]] /\ enabled = [enabled EXCEPT ![c] = enabled[c]]
  BY CpuParts, Zenon
<1>2. PICK e \in Frames(c) :
           /\ e.vector = frames[c][1].vector /\ e.saved = frames[c][1].saved /\ e.pc = "return"
           /\ frames' = [frames EXCEPT ![c] = Top(frames[c], e)]
  BY GotoIs, Zenon DEF Places
<1>3. CpuOK(c, Top(frames[c], e), enabled[c], isr[c] \ {frames[c][1].vector}, lapic[c])
  BY <1>1, <1>2, DoneOK, Zenon
<1>4. SlaveWaits(Top(frames[c], e)) <=> SlaveWaits(frames[c])
  BY <1>1, <1>2, TopWaits, Zenon
<1>5. /\ pic = [master |-> IF SlaveWaits(frames[Boot]) THEN {2} ELSE {}, slave |-> {}]
      /\ stray \subseteq {"slave"} /\ requested \in [Cpu -> SUBSET Fixed]
      /\ frames = [d \in Cpu |-> frames[d]] /\ Boot \in Cpu
  BY Zenon DEF ServiceInv, VectorsApart
<1>6. frames'[Boot] = IF Boot = c THEN Top(frames[c], e) ELSE frames[Boot]
  BY <1>2, <1>5, Zenon
<1>7. SlaveWaits(frames'[Boot]) <=> SlaveWaits(frames[Boot])
  BY <1>4, <1>6, Zenon
<1>8. pic' = [master |-> IF SlaveWaits(frames'[Boot]) THEN {2} ELSE {}, slave |-> {}]
  BY <1>5, <1>7, Zenon
<1>9. isr[c] \ {frames[c][1].vector} \subseteq Fixed
  BY <1>1, Zenon
<1>10. /\ isr' = [isr EXCEPT ![c] = isr[c] \ {frames[c][1].vector}]
       /\ lapic' = [lapic EXCEPT ![c] = lapic[c]]
       /\ enabled' = [enabled EXCEPT ![c] = enabled[c]] /\ requested' \in [Cpu -> SUBSET Fixed]
       /\ stray' \subseteq {"slave"}
  BY <1>1, <1>5, Zenon
<1>11. VectorsApart /\ ServiceInv /\ c \in Cpu /\ isr[c] \ {frames[c][1].vector} \subseteq Fixed
  BY <1>1, Zenon
<1> QED BY ONLY <1>1, <1>2, <1>3, <1>8, <1>10, <1>11, OneCpu, Zenon

\* What the PICs do with an acknowledgement: a spurious interrupt of the master
\* gets none, and one of the slave is taken for a real one.
LEMMA AckIs ==
  ASSUME VectorsApart, ServiceInv, NEW irq \in {7, 15}, Irq!pic_ack_interrupt(irq),
         irq = 15 => SlaveWaits(frames[Boot])
  PROVE  /\ irq = 7 => pic' = pic
         /\ irq = 15 => pic' = [master |-> {}, slave |-> {}]
         /\ stray' \subseteq {"slave"}
<1>1. stray \subseteq {"slave"}
  BY Zenon DEF ServiceInv
<1>2. CASE irq = 7
  <2>1. \A l \in {} : l = 0
    BY Zenon
  <2>2. pic.slave = {}
    BY Zenon DEF ServiceInv
  <2>3. Irq!get_pic_isr = {}
    BY <2>2, Zenon DEF Irq!get_pic_isr
  <2>4. Irq!is_pic_interrupt_spurious(irq)
    BY <1>2, <2>3, Zenon DEF Irq!is_pic_interrupt_spurious
  <2>5. Irq!AckedPics(irq, Irq!is_pic_interrupt_spurious(irq)) = {}
    BY <1>2, <2>4 DEF Irq!AckedPics
  <2>6. /\ pic' = [p \in DOMAIN pic |-> pic[p]] /\ stray' = stray
    BY <2>5, Zenon DEF Irq!pic_ack_interrupt
  <2>7. pic = [p \in DOMAIN pic |-> pic[p]]
    BY Zenon DEF ServiceInv
  <2> QED BY <1>1, <1>2, <2>6, <2>7
<1>3. CASE irq = 15
  <2>1. pic = [master |-> {2}, slave |-> {}]
    BY <1>3, Zenon DEF ServiceInv
  <2>2. ~Irq!is_pic_interrupt_spurious(irq)
    BY <1>3 DEF Irq!is_pic_interrupt_spurious
  <2>3. Irq!AckedPics(irq, Irq!is_pic_interrupt_spurious(irq)) = {"master", "slave"}
    BY <1>3, <2>2 DEF Irq!AckedPics
  <2>4. Irq!Ended({2}) = {} /\ Irq!Ended({}) = {}
    BY DEF Irq!Ended, Irq!Min
  <2>5. /\ pic' = [p \in DOMAIN pic |-> IF p \in {"master", "slave"} THEN Irq!Ended(pic[p]) ELSE pic[p]]
        /\ stray' = stray \cup {p \in {"master", "slave"} : pic[p] = {}}
    BY <2>3, Zenon DEF Irq!pic_ack_interrupt
  <2>6. pic' = [master |-> {}, slave |-> {}]
    BY <2>1, <2>4, <2>5, Zenon
  <2>7. pic["master"] = {2} /\ pic["slave"] = {}
    BY <2>1, Zenon
  <2>8. stray' \subseteq {"slave"}
    BY <1>1, <2>5, <2>7, Zenon
  <2> QED BY <1>3, <2>6, <2>8
<1> QED BY <1>2, <1>3, Zenon

\* interrupt_routine up to the call of the handler.
LEMMA DispatchStep ==
  ASSUME VectorsApart, ServiceInv, NEW c \in Cpu, Irq!Dispatch(c)
  PROVE  ServiceInv'
<1>1. /\ CpuOK(c, frames[c], enabled[c], isr[c], lapic[c]) /\ isr[c] \subseteq Fixed
      /\ lapic[c] \in {"off", "on", "enabled"} /\ frames[c] \in Seq(Frames(c))
      /\ isr = [isr EXCEPT ![c] = isr[c]] /\ lapic = [lapic EXCEPT ![c] = lapic[c]]
      /\ enabled = [enabled EXCEPT ![c] = enabled[c]]
  BY CpuParts, Zenon
<1>2. frames[c] # <<>> /\ UNCHANGED <<lapic, requested, isr, enabled>> /\ Head(frames[c]).pc = "entry"
  BY Zenon DEF Irq!Dispatch
<1>3. frames[c][1] \in Frames(c) /\ Head(frames[c]) = frames[c][1]
  BY <1>1, <1>2, Popped, Zenon
<1>4. PICK v : v = frames[c][1].vector
  BY Zenon
<1>5. /\ v \in Vectors(c) /\ v \in Nat /\ (v \in Fixed => v >= 48)
      /\ (v >= 32 /\ v < 48 => c = Boot /\ v \in {39, 47}) /\ frames[c][1].pc = "entry"
  BY <1>2, <1>3, <1>4, FrameFields, VectorFacts
<1>6. \/ Irq!IsPic(v) /\ Irq!pic_ack_interrupt(v - 32) /\ Irq!Goto(c, "return")
      \/ ~Irq!IsPic(v) /\ v = Irq!SPURIOUS /\ Irq!Goto(c, "return") /\ UNCHANGED <<pic, stray>>
      \/ ~Irq!IsPic(v) /\ v # Irq!SPURIOUS /\ Irq!Goto(c, "handler") /\ UNCHANGED <<pic, stray>>
  BY <1>3, <1>4, Zenon DEF Irq!Dispatch, Irq!PIC_IDT_START
<1>7. Irq!IsPic(v) <=> v >= 32 /\ v < 48
  BY <1>5 DEF Irq!IsPic, Irq!PIC_IDT_START, Irq!PIC_IDT_SIZE
<1>8. CASE ~Irq!IsPic(v) /\ v = Irq!SPURIOUS /\ Irq!Goto(c, "return") /\ UNCHANGED <<pic, stray>>
  <2>1. v # 47 /\ v \notin Fixed
    BY <1>8 DEF Irq!SPURIOUS, VectorsApart
  <2>2. isr[c] \ {v} = isr[c]
    BY <1>1, <2>1, Zenon
  <2>3. isr' = [isr EXCEPT ![c] = @ \ {frames[c][1].vector}]
    BY <1>1, <1>2, <1>4, <2>2, Zenon
  <2> QED BY <1>2, <1>4, <1>8, <2>1, <2>3, DoneStep, Zenon
<1>9. CASE ~Irq!IsPic(v) /\ v # Irq!SPURIOUS /\ Irq!Goto(c, "handler") /\ UNCHANGED <<pic, stray>>
  <2>1. v # 47
    BY <1>5, <1>7, <1>9
  <2>2. "handler" \in Places
    BY Zenon DEF Places
  <2> QED BY <1>2, <1>4, <1>5, <1>9, <2>1, <2>2, MoveStep, Zenon
<1>10. CASE Irq!IsPic(v) /\ Irq!pic_ack_interrupt(v - 32) /\ Irq!Goto(c, "return")
  <2>1. c = Boot /\ v \in {39, 47} /\ v \notin Fixed
    BY <1>5, <1>7, <1>10
  <2>2. PICK irq \in {7, 15} : irq = v - 32 /\ (irq = 7 <=> v = 39) /\ (irq = 15 <=> v = 47)
    BY <2>1
  <2>3. irq = 15 => SlaveWaits(frames[Boot])
    <3>1. 1 \in DOMAIN frames[c]
      BY <1>1, <1>2
    <3> QED BY <1>4, <1>5, <2>1, <2>2, <3>1, Zenon DEF SlaveWaits
  <2>4. /\ irq = 7 => pic' = pic
        /\ irq = 15 => pic' = [master |-> {}, slave |-> {}]
        /\ stray' \subseteq {"slave"}
    BY <1>10, <2>2, <2>3, AckIs, Zenon
  <2>5. PICK e \in Frames(c) :
           /\ e.vector = frames[c][1].vector /\ e.saved = frames[c][1].saved /\ e.pc = "return"
           /\ frames' = [frames EXCEPT ![c] = Top(frames[c], e)]
    BY <1>2, <1>10, GotoIs, Zenon DEF Places
  <2>6. /\ CpuOK(c, Top(frames[c], e), enabled[c], isr[c] \ {frames[c][1].vector}, lapic[c])
        /\ frames[c][1].vector \in Fixed => isr[c] \subseteq {frames[c][1].vector}
        /\ frames[c][1].vector = 47 => ~SlaveWaits(Top(frames[c], e))
    BY <1>1, <1>2, <2>5, DoneOK, Zenon
  <2>7. isr[c] \ {frames[c][1].vector} = isr[c]
    BY <1>1, <1>4, <2>1
  <2>8. /\ pic = [master |-> IF SlaveWaits(frames[Boot]) THEN {2} ELSE {}, slave |-> {}]
        /\ requested \in [Cpu -> SUBSET Fixed] /\ frames = [d \in Cpu |-> frames[d]]
    BY Zenon DEF ServiceInv
  <2>9. frames'[Boot] = Top(frames[c], e)
    BY <2>1, <2>5, <2>8, Zenon
  <2>10. pic' = [master |-> IF SlaveWaits(frames'[Boot]) THEN {2} ELSE {}, slave |-> {}]
    <3>1. CASE irq = 15
      <4>1. ~SlaveWaits(frames'[Boot])
        BY <1>4, <2>2, <2>6, <2>9, <3>1, Zenon
      <4> QED BY <2>4, <3>1, <4>1, Zenon
    <3>2. CASE irq = 7
      <4>1. frames[c][1].vector # 47
        BY <1>4, <2>2, <3>2
      <4>2. SlaveWaits(Top(frames[c], e)) <=> SlaveWaits(frames[c])
        BY <1>1, <1>2, <2>5, <4>1, TopWaits, Zenon
      <4> QED BY <2>1, <2>4, <2>8, <2>9, <3>2, <4>2, Zenon
    <3> QED BY <3>1, <3>2, Zenon
  <2>11. /\ isr' = [isr EXCEPT ![c] = isr[c]] /\ lapic' = [lapic EXCEPT ![c] = lapic[c]]
         /\ enabled' = [enabled EXCEPT ![c] = enabled[c]] /\ requested' \in [Cpu -> SUBSET Fixed]
    BY <1>1, <1>2, <2>8, Zenon
  <2>12. CpuOK(c, Top(frames[c], e), enabled[c], isr[c], lapic[c])
    BY <2>6, <2>7, Zenon
  <2> QED BY <1>1, <2>4, <2>5, <2>10, <2>11, <2>12, OneCpu, Zenon
<1> QED BY <1>6, <1>8, <1>9, <1>10, Zenon

\* The handler returns.
LEMMA HandlerStep ==
  ASSUME VectorsApart, ServiceInv, NEW c \in Cpu, Irq!HandlerReturns(c)
  PROVE  ServiceInv'
<1>1. /\ frames[c] # <<>> /\ Head(frames[c]).pc = "handler" /\ Irq!Goto(c, "eoi")
      /\ UNCHANGED <<lapic, requested, isr, enabled, pic, stray>> /\ frames[c] \in Seq(Frames(c))
  BY CpuParts, Zenon DEF Irq!HandlerReturns
<1>2. frames[c][1].pc = "handler"
  BY <1>1, Popped, Zenon
<1>3. "eoi" \in Places
  BY Zenon DEF Places
<1> QED BY <1>1, <1>2, <1>3, MoveStep, Zenon

\* interrupt_routine after the handler.
LEMMA EoiStep ==
  ASSUME VectorsApart, ServiceInv, NEW c \in Cpu, Irq!EndOfInterrupt(c)
  PROVE  ServiceInv'
<1>1. /\ CpuOK(c, frames[c], enabled[c], isr[c], lapic[c]) /\ isr[c] \subseteq Fixed
      /\ frames[c] \in Seq(Frames(c)) /\ isr = [isr EXCEPT ![c] = isr[c]]
  BY CpuParts, Zenon
<1>2. /\ frames[c] # <<>> /\ Head(frames[c]).pc = "eoi" /\ Irq!Goto(c, "return")
      /\ UNCHANGED <<lapic, requested, enabled, pic>>
  BY Zenon DEF Irq!EndOfInterrupt
<1>3. frames[c][1] \in Frames(c) /\ Head(frames[c]) = frames[c][1] /\ 1 \in 1 .. Len(frames[c])
  BY <1>1, <1>2, Popped
<1>4. PICK v : v = frames[c][1].vector
  BY Zenon
<1>5. v \in Vectors(c) /\ v \in Nat /\ (v \in Fixed => v >= 48)
  BY <1>3, <1>4, FrameFields, VectorFacts
<1>6. IF Irq!NeedsEoi(c, v)
      THEN /\ isr' = [isr EXCEPT ![c] = IF @ = {} THEN @ ELSE @ \ {Irq!Max(@)}]
           /\ stray' = IF isr[c] = {} THEN stray \cup {"lapic"} ELSE stray
      ELSE isr' = isr /\ stray' = stray
  BY <1>3, <1>4, Zenon DEF Irq!EndOfInterrupt
<1>7. CASE v \in Fixed
  <2>1. v \in isr[c]
    <3>1. isr[c] = Live(frames[c])
      BY <1>1, Zenon DEF CpuOK
    <3> QED BY <1>1, <1>2, <1>3, <1>4, <1>7, <3>1, LiveIs
  <2>2. lapic[c] = "enabled"
    <3>1. frames[c][1].vector < 32 \/ frames[c][1].saved
      BY <1>1, <1>3, Zenon DEF CpuOK
    <3>2. frames[c][1].saved
      BY <1>4, <1>5, <1>7, <3>1
    <3> QED BY <1>1, <1>3, <3>2, Zenon DEF CpuOK
  <2>3. isr[c] = {v}
    <3>1. PICK e \in Frames(c) :
             /\ e.vector = frames[c][1].vector /\ e.saved = frames[c][1].saved /\ e.pc = "return"
             /\ frames' = [frames EXCEPT ![c] = Top(frames[c], e)]
      BY <1>2, GotoIs, Zenon DEF Places
    <3>2. /\ CpuOK(c, Top(frames[c], e), enabled[c], isr[c] \ {frames[c][1].vector}, lapic[c])
          /\ frames[c][1].vector \in Fixed => isr[c] \subseteq {frames[c][1].vector}
          /\ frames[c][1].vector = 47 => ~SlaveWaits(Top(frames[c], e))
      BY <1>1, <1>2, <3>1, DoneOK, Zenon
    <3> QED BY <1>4, <1>7, <2>1, <3>2, Zenon
  <2>4. Irq!Max(isr[c]) = v
    BY <1>5, <2>3 DEF Irq!Max
  <2>5. Irq!NeedsEoi(c, v)
    BY <2>1, <2>2, Zenon DEF Irq!NeedsEoi, Irq!is_local_apic_initialized, Irq!is_interrupt_lapic_generated
  <2>6. /\ isr' = [isr EXCEPT ![c] = isr[c] \ {v}] /\ stray' = stray
    BY <1>6, <2>1, <2>4, <2>5, Zenon
  <2>7. frames[c][1].pc # "entry"
    BY <1>2, <1>3, Zenon
  <2> QED BY <1>2, <1>4, <2>6, <2>7, DoneStep, Zenon
<1>8. CASE v \notin Fixed
  <2>1. ~Irq!NeedsEoi(c, v) /\ isr[c] \ {v} = isr[c]
    BY <1>1, <1>8, Zenon DEF Irq!NeedsEoi, Irq!is_interrupt_lapic_generated
  <2>2. isr' = [isr EXCEPT ![c] = @ \ {frames[c][1].vector}] /\ stray' = stray
    BY <1>1, <1>4, <1>6, <2>1, Zenon
  <2>3. frames[c][1].pc # "entry"
    BY <1>2, <1>3, Zenon
  <2> QED BY <1>2, <2>2, <2>3, DoneStep, Zenon
<1> QED BY <1>7, <1>8, Zenon

\* The routine returns to what it interrupted.
LEMMA ReturnStep ==
  ASSUME VectorsApart, ServiceInv, NEW c \in Cpu, Irq!Return(c)
  PROVE  ServiceInv'
<1>1. /\ CpuOK(c, frames[c], enabled[c], isr[c], lapic[c]) /\ isr[c] \subseteq Fixed
      /\ lapic[c] \in {"off", "on", "enabled"} /\ frames[c] \in Seq(Frames(c))
      /\ isr = [isr EXCEPT ![c] = isr[c]] /\ lapic = [lapic EXCEPT ![c] = lapic[c]]
  BY CpuParts, Zenon
<1>2. /\ frames[c] # <<>> /\ Head(frames[c]).pc = "return"
      /\ enabled' = [enabled EXCEPT ![c] = Head(frames[c]).saved]
      /\ frames' = [frames EXCEPT ![c] = Tail(frames[c])]
      /\ UNCHANGED <<lapic, requested, isr, pic, stray>>
  BY Zenon DEF Irq!Return
<1>3. Head(frames[c]) = frames[c][1]
  BY <1>1, <1>2, Popped, Zenon
<1>4. /\ CpuOK(c, Tail(frames[c]), frames[c][1].saved, isr[c], lapic[c])
      /\ SlaveWaits(Tail(frames[c])) <=> SlaveWaits(frames[c])
  BY <1>1, <1>2, <1>3, ReturnOK, Zenon
<1>5. /\ pic = [master |-> IF SlaveWaits(frames[Boot]) THEN {2} ELSE {}, slave |-> {}]
      /\ stray \subseteq {"slave"} /\ requested \in [Cpu -> SUBSET Fixed]
      /\ frames = [d \in Cpu |-> frames[d]] /\ Boot \in Cpu
  BY Zenon DEF ServiceInv, VectorsApart
<1>6. frames'[Boot] = IF Boot = c THEN Tail(frames[c]) ELSE frames[Boot]
  BY <1>2, <1>5, Zenon
<1>7. SlaveWaits(frames'[Boot]) <=> SlaveWaits(frames[Boot])
  BY <1>4, <1>6, Zenon
<1>8. pic' = [master |-> IF SlaveWaits(frames'[Boot]) THEN {2} ELSE {}, slave |-> {}]
  BY <1>2, <1>5, <1>7, Zenon
<1>9. enabled' = [enabled EXCEPT ![c] = frames[c][1].saved]
  BY <1>2, <1>3, Zenon
<1>10. /\ isr' = [isr EXCEPT ![c] = isr[c]] /\ lapic' = [lapic EXCEPT ![c] = lapic[c]]
       /\ requested' \in [Cpu -> SUBSET Fixed] /\ stray' \subseteq {"slave"}
  BY <1>1, <1>2, <1>5, Zenon
<1>11. frames' = [frames EXCEPT ![c] = Tail(frames[c])]
  BY <1>2, Zenon
<1>12. VectorsApart /\ ServiceInv /\ c \in Cpu
  BY Zenon
<1> QED BY ONLY <1>1, <1>4, <1>8, <1>9, <1>10, <1>11, <1>12, OneCpu, Zenon

\* The innermost frame, changed, in front of the others.
LEMMA TopIs ==
  ASSUME NEW S, NEW s \in Seq(S), s # <<>>, NEW e \in S
  PROVE  <<e>> \o Tail(s) = Top(s, e)
<1>1. /\ Tail(s) \in Seq(S) /\ Len(Tail(s)) = Len(s) - 1 /\ Len(s) \in Nat \ {0}
      /\ \A i \in 1 .. Len(s) - 1 : Tail(s)[i] = s[i + 1]
  BY Popped, Zenon
<1>2. PICK r \in Seq(S) : r = Tail(s)
  BY <1>1, Zenon
<1>3. /\ <<e>> \o r \in Seq(S) /\ Len(<<e>> \o r) = Len(s) /\ (<<e>> \o r)[1] = e
      /\ \A i \in 2 .. Len(s) : (<<e>> \o r)[i] = r[i - 1]
  BY <1>1, <1>2, Pushed
<1>4. \A i \in 2 .. Len(s) : r[i - 1] = s[i]
  BY <1>1, <1>2
<1>5. /\ Top(s, e) \in Seq(S) /\ Len(Top(s, e)) = Len(s) /\ Top(s, e)[1] = e
      /\ \A i \in 2 .. Len(s) : Top(s, e)[i] = s[i]
  BY Topped
<1>6. \A i \in 1 .. Len(s) : (<<e>> \o r)[i] = Top(s, e)[i]
  BY <1>1, <1>3, <1>4, <1>5
<1>7. PICK a \in Seq(S), b \in Seq(S) : a = <<e>> \o r /\ b = Top(s, e)
  BY <1>3, <1>5, Zenon
<1>8. Len(a) = Len(b) /\ \A i \in 1 .. Len(a) : a[i] = b[i]
  BY <1>3, <1>5, <1>6, <1>7, Zenon
<1>9. a = b
  BY <1>8
<1> QED BY <1>2, <1>7, <1>9, Zenon

\* What runs on a CPU faults.
LEMMA FaultStep ==
  ASSUME VectorsApart, ServiceInv, NEW c \in Cpu, Irq!Fault(c)
  PROVE  ServiceInv'
<1>1. /\ CpuOK(c, frames[c], enabled[c], isr[c], lapic[c]) /\ isr[c] \subseteq Fixed
      /\ lapic[c] \in {"off", "on", "enabled"} /\ frames[c] \in Seq(Frames(c))
      /\ isr = [isr EXCEPT ![c] = isr[c]] /\ lapic = [lapic EXCEPT ![c] = lapic[c]]
      /\ enabled[c] \in BOOLEAN
  BY CpuParts, Zenon
<1>2. PICK s : s = IF frames[c] = <<>> THEN <<>>
                   ELSE <<[Head(frames[c]) EXCEPT !.fresh = FALSE]>> \o Tail(frames[c])
  BY Zenon
<1>3. PICK e : e = [vector |-> Exception, pc |-> "entry", saved |-> enabled[c], fresh |-> TRUE]
  BY Zenon
<1>4. /\ frames' = [frames EXCEPT ![c] = <<e>> \o s]
      /\ enabled' = [enabled EXCEPT ![c] = Exception < 32 /\ enabled[c]]
      /\ UNCHANGED <<lapic, requested, isr, pic, stray>>
  <2>1. frames' = [frames EXCEPT ![c] =
          <<Irq!Frame(c, Exception)>> \o
            (IF frames[c] = <<>> THEN frames[c]
             ELSE <<[Head(frames[c]) EXCEPT !.fresh = FALSE]>> \o Tail(frames[c]))]
    BY Zenon DEF Irq!Fault
  <2>2. Irq!Frame(c, Exception) = e
    BY <1>3, Zenon DEF Irq!Frame
  <2>3. (IF frames[c] = <<>> THEN frames[c]
         ELSE <<[Head(frames[c]) EXCEPT !.fresh = FALSE]>> \o Tail(frames[c])) = s
    BY <1>2, Zenon
  <2>4. frames' = [frames EXCEPT ![c] = <<e>> \o s]
    BY <2>1, <2>2, <2>3, Zenon
  <2> QED BY <2>4, Zenon DEF Irq!Fault, Irq!TrapGate
<1>5. /\ CpuOK(c, s, enabled[c], isr[c], lapic[c])
      /\ SlaveWaits(s) <=> SlaveWaits(frames[c])
  <2>1. CASE frames[c] = <<>>
    <3>1. s = frames[c]
      BY <1>2, <2>1, Zenon
    <3> QED BY <1>1, <3>1, Zenon
  <2>2. CASE frames[c] # <<>>
    <3>1. PICK d : d = frames[c][1]
      BY Zenon
    <3>2. d \in Frames(c) /\ Head(frames[c]) = d
      BY <1>1, <2>2, <3>1, Popped, Zenon
    <3>3. PICK a : a = [d EXCEPT !.fresh = FALSE]
      BY Zenon
    <3>4. a = [vector |-> d.vector, pc |-> d.pc, saved |-> d.saved, fresh |-> FALSE]
      <4>1. d = [vector |-> d.vector, pc |-> d.pc, saved |-> d.saved, fresh |-> d.fresh]
        BY <3>2, FrameFields, Zenon
      <4> QED BY ONLY <3>3, <4>1, Zenon
    <3>5. a \in Frames(c) /\ a.vector = d.vector /\ a.pc = d.pc
      BY <3>2, <3>4, FrameFields, Zenon DEF Frames
    <3>6. a.saved = d.saved
      BY <3>4, Zenon
    <3>7. s = Top(frames[c], a)
      <4>1. s = <<a>> \o Tail(frames[c])
        BY <1>2, <2>2, <3>2, <3>3, Zenon
      <4> QED BY <1>1, <2>2, <3>5, <4>1, TopIs
    <3>8. d.pc = "handler"
      BY <2>2, <3>2, Zenon DEF Irq!Fault
    <3>9. CpuOK(c, Top(frames[c], a), enabled[c], isr[c], lapic[c])
      BY <1>1, <2>2, <3>1, <3>5, <3>6, <3>8, TopOK, Zenon
    <3>10. SlaveWaits(Top(frames[c], a)) <=> SlaveWaits(frames[c])
      BY <1>1, <2>2, <3>1, <3>5, TopWaits, Zenon
    <3> QED BY <3>7, <3>9, <3>10, Zenon
  <2> QED BY <2>1, <2>2, Zenon
<1>6. Exception \in Vectors(c) /\ Exception < 32 /\ Exception # 47 /\ {Exception} \cap Fixed = {}
  BY DEF Vectors, VectorsApart
<1>7. PICK g \in BOOLEAN : g <=> Exception < 32 /\ enabled[c]
  BY Zenon
<1>8. CpuOK(c, <<e>> \o s, g, isr[c] \cup ({Exception} \cap Fixed), lapic[c])
  <2>1. ~(Exception >= 32)
    BY DEF VectorsApart
  <2> QED BY <1>3, <1>5, <1>6, <1>7, <2>1, EnterOK
<1>9. isr[c] \cup ({Exception} \cap Fixed) = isr[c]
  BY <1>6, Zenon
<1>10. enabled' = [enabled EXCEPT ![c] = g]
  <2>1. g = (Exception < 32 /\ enabled[c])
    BY <1>1, <1>7, Zenon
  <2> QED BY <1>4, <2>1, Zenon
<1>11. SlaveWaits(<<e>> \o s) <=> SlaveWaits(frames[c])
  <2>1. e \in Frames(c) /\ e.vector = Exception /\ e.pc = "entry"
    BY <1>1, <1>3, <1>6, Zenon DEF Frames, Places
  <2>2. s \in Seq(Frames(c))
    BY <1>5, Zenon DEF CpuOK
  <2>3. SlaveWaits(<<e>> \o s) <=> e.vector = 47 \/ SlaveWaits(s)
    BY <2>1, <2>2, PushedWaits
  <2> QED BY <1>5, <1>6, <2>1, <2>3, Zenon
<1>12. /\ pic = [master |-> IF SlaveWaits(frames[Boot]) THEN {2} ELSE {}, slave |-> {}]
       /\ stray \subseteq {"slave"} /\ requested \in [Cpu -> SUBSET Fixed]
       /\ frames = [d \in Cpu |-> frames[d]] /\ Boot \in Cpu
  BY Zenon DEF ServiceInv, VectorsApart
<1>13. frames'[Boot] = IF Boot = c THEN <<e>> \o s ELSE frames[Boot]
  BY <1>4, <1>12, Zenon
<1>14. SlaveWaits(frames'[Boot]) <=> SlaveWaits(frames[Boot])
  BY <1>11, <1>13, Zenon
<1>15. pic' = [master |-> IF SlaveWaits(frames'[Boot]) THEN {2} ELSE {}, slave |-> {}]
  BY <1>4, <1>12, <1>14, Zenon
<1>16. /\ isr' = [isr EXCEPT ![c] = isr[c]] /\ lapic' = [lapic EXCEPT ![c] = lapic[c]]
       /\ requested' \in [Cpu -> SUBSET Fixed] /\ stray' \subseteq {"slave"}
  BY <1>1, <1>4, <1>12, Zenon
<1>17. CpuOK(c, <<e>> \o s, g, isr[c], lapic[c])
  BY <1>8, <1>9, Zenon
<1>18. frames' = [frames EXCEPT ![c] = <<e>> \o s]
  BY <1>4, Zenon
<1>19. VectorsApart /\ ServiceInv /\ c \in Cpu
  BY Zenon
<1> QED BY ONLY <1>1, <1>10, <1>15, <1>16, <1>17, <1>18, <1>19, OneCpu, Zenon

\* A local APIC is switched on and marked as enabled, then interrupts are.
LEMMA EnableStep ==
  ASSUME VectorsApart, ServiceInv, NEW c \in Cpu,
         Irq!SwitchOn(c) \/ Irq!MarkEnabled(c) \/ Irq!enable_interrupts(c)
  PROVE  ServiceInv'
<1>1. /\ CpuOK(c, frames[c], enabled[c], isr[c], lapic[c]) /\ isr[c] \subseteq Fixed
      /\ lapic[c] \in {"off", "on", "enabled"} /\ frames[c] \in Seq(Frames(c))
      /\ isr = [isr EXCEPT ![c] = isr[c]] /\ lapic = [lapic EXCEPT ![c] = lapic[c]]
      /\ enabled = [enabled EXCEPT ![c] = enabled[c]] /\ frames = [frames EXCEPT ![c] = frames[c]]
      /\ enabled[c] \in BOOLEAN
  BY CpuParts, Zenon
<1>2. PICK l, f : /\ lapic' = [lapic EXCEPT ![c] = l] /\ enabled' = [enabled EXCEPT ![c] = f]
                  /\ l \in {"on", "enabled"} /\ f \in BOOLEAN
                  /\ f => l = "enabled"
                  /\ frames[c] = <<>> /\ UNCHANGED <<requested, isr, frames, pic, stray>>
  <2>1. CASE Irq!SwitchOn(c)
    <3>1. ~enabled[c]
      BY <1>1, <2>1, Zenon DEF CpuOK, Irq!SwitchOn
    <3>2. /\ lapic' = [lapic EXCEPT ![c] = "on"] /\ enabled' = [enabled EXCEPT ![c] = enabled[c]]
          /\ frames[c] = <<>> /\ UNCHANGED <<requested, isr, frames, pic, stray>>
      BY <1>1, <2>1, Zenon DEF Irq!SwitchOn
    <3> QED BY <1>1, <3>1, <3>2, Zenon
  <2>2. CASE Irq!MarkEnabled(c)
    <3>1. /\ lapic' = [lapic EXCEPT ![c] = "enabled"] /\ enabled' = [enabled EXCEPT ![c] = enabled[c]]
          /\ frames[c] = <<>> /\ UNCHANGED <<requested, isr, frames, pic, stray>>
      BY <1>1, <2>2, Zenon DEF Irq!MarkEnabled
    <3> QED BY <1>1, <3>1, Zenon
  <2>3. CASE Irq!enable_interrupts(c)
    <3>1. /\ lapic' = [lapic EXCEPT ![c] = lapic[c]] /\ enabled' = [enabled EXCEPT ![c] = TRUE]
          /\ frames[c] = <<>> /\ UNCHANGED <<requested, isr, frames, pic, stray>>
          /\ lapic[c] = "enabled"
      BY <1>1, <2>3, Zenon DEF Irq!enable_interrupts, Irq!ReadyForInterrupts
    <3> QED BY <3>1, Zenon
  <2> QED BY <2>1, <2>2, <2>3, Zenon
<1>3. CpuOK(c, frames[c], f, isr[c], l)
  <2>1. isr[c] = Live(frames[c]) /\ Len(frames[c]) = 0
    BY <1>1, <1>2, Zenon DEF CpuOK
  <2>2. \A i : ~(i \in 1 .. Len(frames[c]))
    BY <2>1
  <2> QED BY <1>1, <1>2, <2>1, <2>2, Zenon DEF CpuOK, OnlyTraps
<1>4. /\ pic = [master |-> IF SlaveWaits(frames[Boot]) THEN {2} ELSE {}, slave |-> {}]
      /\ stray \subseteq {"slave"} /\ requested \in [Cpu -> SUBSET Fixed]
  BY Zenon DEF ServiceInv
<1>5. pic' = [master |-> IF SlaveWaits(frames'[Boot]) THEN {2} ELSE {}, slave |-> {}]
  BY <1>2, <1>4, Zenon
<1>6. /\ isr' = [isr EXCEPT ![c] = isr[c]] /\ frames' = [frames EXCEPT ![c] = frames[c]]
      /\ requested' \in [Cpu -> SUBSET Fixed] /\ stray' \subseteq {"slave"}
      /\ l \in {"off", "on", "enabled"}
  BY <1>1, <1>2, <1>4, Zenon
<1> QED BY <1>1, <1>2, <1>3, <1>5, <1>6, OneCpu, Zenon

------------------------------------------------------------------------------
(* The theorem.                                                             *)

\* Before the local APICs are switched on.
LEMMA ServiceInit ==
  ASSUME VectorsApart, Irq!Init
  PROVE  ServiceInv
<1>1. Boot \in Cpu
  BY Zenon DEF VectorsApart
<1>2. /\ lapic \in [Cpu -> {"off", "on", "enabled"}] /\ requested \in [Cpu -> SUBSET Fixed]
      /\ isr \in [Cpu -> SUBSET Fixed] /\ frames = [c \in Cpu |-> frames[c]]
      /\ stray \subseteq {"slave"} /\ pic = [master |-> {}, slave |-> {}]
      /\ \A c \in Cpu : frames[c] = <<>> /\ isr[c] = {}
  BY Zenon DEF Irq!Init
<1>3. enabled \in [Cpu -> BOOLEAN] /\ \A c \in Cpu : enabled[c] = FALSE
  BY Zenon DEF Irq!Init
<1>4. ~SlaveWaits(frames[Boot])
  BY <1>1, <1>2 DEF SlaveWaits
<1>5. ASSUME NEW c \in Cpu
      PROVE  CpuOK(c, frames[c], enabled[c], isr[c], lapic[c])
  <2>1. frames[c] \in Seq(Frames(c)) /\ Len(frames[c]) = 0 /\ DOMAIN frames[c] = {}
    <3>1. frames[c] = <<>>
      BY <1>2, Zenon
    <3> QED BY <3>1
  <2>2. \A i : ~(i \in 1 .. Len(frames[c]))
    BY <2>1
  <2>3. isr[c] = Live(frames[c])
    BY <1>2, <2>1, Zenon DEF Live
  <2>4. enabled[c] \in BOOLEAN /\ ~enabled[c]
    BY <1>3, Zenon
  <2> QED BY <2>1, <2>2, <2>3, <2>4, Zenon DEF CpuOK, OnlyTraps
<1>6. pic = [master |-> IF SlaveWaits(frames[Boot]) THEN {2} ELSE {}, slave |-> {}]
  BY <1>2, <1>4, Zenon
<1> QED BY <1>2, <1>3, <1>5, <1>6, Zenon DEF ServiceInv

\* No step breaks the invariant.
LEMMA ServiceNext ==
  ASSUME VectorsApart, ServiceInv, [Irq!Next]_Irq!vars
  PROVE  ServiceInv'
<1>1. CASE UNCHANGED Irq!vars
  <2>1. /\ lapic' = lapic /\ requested' = requested /\ isr' = isr /\ enabled' = enabled /\ frames' = frames
        /\ pic' = pic /\ stray' = stray
    BY <1>1, Zenon DEF Irq!vars
  <2>2. Boot \in Cpu /\ VectorsApart /\ ServiceInv
    BY Zenon DEF VectorsApart
  <2>3. /\ CpuOK(Boot, frames[Boot], enabled[Boot], isr[Boot], lapic[Boot])
        /\ isr[Boot] \subseteq Fixed /\ lapic[Boot] \in {"off", "on", "enabled"}
        /\ isr = [isr EXCEPT ![Boot] = isr[Boot]] /\ lapic = [lapic EXCEPT ![Boot] = lapic[Boot]]
        /\ enabled = [enabled EXCEPT ![Boot] = enabled[Boot]]
        /\ frames = [frames EXCEPT ![Boot] = frames[Boot]]
    BY <2>2, CpuParts, Zenon
  <2>4. /\ pic = [master |-> IF SlaveWaits(frames[Boot]) THEN {2} ELSE {}, slave |-> {}]
        /\ stray \subseteq {"slave"} /\ requested \in [Cpu -> SUBSET Fixed]
    BY Zenon DEF ServiceInv
  <2>5. pic' = [master |-> IF SlaveWaits(frames'[Boot]) THEN {2} ELSE {}, slave |-> {}]
    BY <2>1, <2>4, Zenon
  <2>6. /\ isr' = [isr EXCEPT ![Boot] = isr[Boot]] /\ lapic' = [lapic EXCEPT ![Boot] = lapic[Boot]]
        /\ enabled' = [enabled EXCEPT ![Boot] = enabled[Boot]]
        /\ frames' = [frames EXCEPT ![Boot] = frames[Boot]]
        /\ stray' \subseteq {"slave"} /\ requested' \in [Cpu -> SUBSET Fixed]
    BY <2>1, <2>3, <2>4, Zenon
  <2> QED BY ONLY <2>2, <2>3, <2>5, <2>6, OneCpu, Zenon
<1>2. ASSUME NEW c \in Cpu,
             \/ \E v \in Fixed : Irq!Request(c, v)
             \/ Irq!Deliver(c) \/ Irq!DeliverSpurious(c) \/ Irq!Fault(c)
             \/ Irq!Dispatch(c) \/ Irq!HandlerReturns(c) \/ Irq!EndOfInterrupt(c) \/ Irq!Return(c)
             \/ Irq!SwitchOn(c) \/ Irq!MarkEnabled(c) \/ Irq!enable_interrupts(c)
      PROVE  ServiceInv'
  BY <1>2, RequestStep, FixedStep, SpuriousStep, FaultStep, DispatchStep, HandlerStep, EoiStep,
     ReturnStep, EnableStep, Zenon
<1>3. ASSUME NEW irq \in {7, 15}, Irq!DeliverPic(irq)
      PROVE  ServiceInv'
  BY <1>3, PicStep, Zenon
<1> QED BY <1>1, <1>2, <1>3, Zenon DEF Irq!Next

\* The invariant says what is in service.
LEMMA InvExact ==
  ASSUME VectorsApart, ServiceInv
  PROVE  Irq!ServiceExact
<1>1. Boot \in Cpu
  BY Zenon DEF VectorsApart
<1>2. Irq!InServiceIsRunning
  BY Zenon DEF ServiceInv, CpuOK, Live, Irq!InServiceIsRunning
<1>3. Irq!EoiOnlyIfServed
  BY Zenon DEF ServiceInv, Irq!EoiOnlyIfServed
<1>4. Irq!MasterLineReleased
  <2> SUFFICES ASSUME pic.master # {} PROVE SlaveWaits(frames[Boot])
    BY DEF Irq!MasterLineReleased, SlaveWaits, Irq!PIC_IDT_START
  <2>1. pic.master = IF SlaveWaits(frames[Boot]) THEN {2} ELSE {}
    BY Zenon DEF ServiceInv
  <2> QED BY <2>1, Zenon
<1>5. Irq!TypeOK
  <2>1. pic \in [{"master", "slave"} -> SUBSET (0 .. 7)]
    <3>1. PICK m : m \in {{2}, {}} /\ pic = [master |-> m, slave |-> {}]
      BY Zenon DEF ServiceInv
    <3>2. m \subseteq 0 .. 7
      BY <3>1
    <3>3. pic = [p \in {"master", "slave"} |-> pic[p]]
      BY <3>1
    <3>4. pic["master"] = m /\ pic["slave"] = {}
      BY <3>1
    <3>5. \A p \in {"master", "slave"} : pic[p] \in SUBSET (0 .. 7)
      BY <3>2, <3>4, Zenon
    <3> QED BY <3>3, <3>5, Zenon
  <2>2. ASSUME NEW c \in Cpu, NEW i \in DOMAIN frames[c]
        PROVE  frames[c][i].pc \in {"entry", "handler", "eoi", "return"}
    <3>1. frames[c] \in Seq(Frames(c))
      BY CpuParts, Zenon
    <3>2. frames[c][i] \in Frames(c)
      BY <3>1
    <3> QED BY <3>2, FrameFields, Zenon DEF Places
  <2> QED BY <2>1, <2>2, Zenon DEF Irq!TypeOK, ServiceInv
<1> QED BY <1>2, <1>3, <1>4, <1>5, Zenon DEF Irq!ServiceExact

\* Controllers and CPUs agree on what is in service, whatever interrupts, spurious
\* interrupts and exceptions nest on however many CPUs: interrupt_routine ends the
\* interrupts it was entered for, each once, and no other.
THEOREM ServiceIsExact ==
  ASSUME VectorsApart
  PROVE  Irq!Spec => []Irq!ServiceExact
<1>1. Irq!Init => ServiceInv
  BY ServiceInit, Zenon
<1>2. ServiceInv /\ [Irq!Next]_Irq!vars => ServiceInv'
  BY ServiceNext, Zenon
<1>3. ServiceInv => Irq!ServiceExact
  BY InvExact, Zenon
<1> QED BY <1>1, <1>2, <1>3, PTL DEF Irq!Spec
=============================================================================
