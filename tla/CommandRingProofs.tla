-------------------------- MODULE CommandRingProofs --------------------------
(***************************************************************************)
(* For every capacity and every set of commands: the indices of the        *)
(* circular array stay consistent, the array implements CommandFifo, and    *)
(* every text has exactly one owner while it is allocated.                 *)
(***************************************************************************)
EXTENDS CommandRing, SequenceTheorems, FiniteSetTheorems, TLAPS

\* The modulo in the source is at most one subtraction.
LEMMA WrapValue ==
  ASSUME NEW n \in Nat, n < QueueCap + QueueCap
  PROVE  /\ Wrap(n) \in Slots
         /\ Wrap(n) = IF n < QueueCap THEN n ELSE n - QueueCap
<1> USE QueueCapAssumption
<1>1. CASE n < QueueCap
  <2>1. n % QueueCap = n
    BY <1>1
  <2> QED
    BY <1>1, <2>1 DEF Wrap, Slots
<1>2. CASE ~(n < QueueCap)
  <2>1. /\ n \div QueueCap \in Int
        /\ n = QueueCap * (n \div QueueCap) + (n % QueueCap)
        /\ n % QueueCap \in 0..(QueueCap - 1)
    OBVIOUS
  <2>2. n \div QueueCap = 1
    BY <1>2, <2>1
  <2>3. n % QueueCap = n - QueueCap
    BY <2>1, <2>2
  <2> QED
    BY <1>2, <2>3 DEF Wrap, Slots
<1> QED
  BY <1>1, <1>2

\* Distinct places of the queue are in distinct slots, and none is the tail
\* while there is room.
LEMMA SlotsDiffer ==
  ASSUME RingTypeOK, RingConsistent
  PROVE  /\ \A i \in 1..api_queue_count : SlotOf(i) \in Slots
         /\ \A i, j \in 1..api_queue_count : SlotOf(i) = SlotOf(j) => i = j
         /\ HasRoom => \A i \in 1..api_queue_count : SlotOf(i) # api_queue_tail
         /\ HasRoom => SlotOf(api_queue_count + 1) = api_queue_tail
         /\ api_queue_count > 0 => Newest = SlotOf(api_queue_count)
<1> USE QueueCapAssumption
<1> DEFINE At(i) == api_queue_head + i - 1
<1>1. /\ api_queue_head \in Nat /\ api_queue_head < QueueCap
      /\ api_queue_tail \in Nat /\ api_queue_tail < QueueCap
      /\ api_queue_count \in Nat /\ api_queue_count <= QueueCap
  BY DEF RingTypeOK, Slots
<1>2. api_queue_tail = IF api_queue_head + api_queue_count < QueueCap
                       THEN api_queue_head + api_queue_count
                       ELSE api_queue_head + api_queue_count - QueueCap
  <2>1. CASE api_queue_head + api_queue_count < QueueCap + QueueCap
    BY <1>1, <2>1, WrapValue DEF RingConsistent
  <2> QED
    BY <1>1, <2>1
<1>3. ASSUME NEW i \in Nat, 1 <= i, i <= api_queue_count + 1, i <= QueueCap
      PROVE  /\ SlotOf(i) \in Slots
             /\ SlotOf(i) = IF At(i) < QueueCap THEN At(i) ELSE At(i) - QueueCap
  BY <1>1, <1>3, WrapValue DEF SlotOf
<1>4. \A i \in 1..api_queue_count : SlotOf(i) \in Slots
  BY <1>1, <1>3
<1>5. \A i, j \in 1..api_queue_count : SlotOf(i) = SlotOf(j) => i = j
  BY <1>1, <1>3
<1>6. HasRoom => \A i \in 1..api_queue_count : SlotOf(i) # api_queue_tail
  BY <1>1, <1>2, <1>3 DEF HasRoom
<1>7. HasRoom => SlotOf(api_queue_count + 1) = api_queue_tail
  BY <1>1, <1>2, <1>3 DEF HasRoom
<1>8. api_queue_count > 0 => Newest = SlotOf(api_queue_count)
  <2> SUFFICES ASSUME api_queue_count > 0
               PROVE  Newest = SlotOf(api_queue_count)
    OBVIOUS
  <2>1. Newest = IF api_queue_tail = 0 THEN QueueCap - 1 ELSE api_queue_tail - 1
    <3>1. api_queue_tail - 1 + QueueCap \in Nat
      BY <1>1
    <3> QED
      BY <1>1, <3>1, WrapValue DEF Newest
  <2> QED
    BY <1>1, <1>2, <1>3, <2>1
<1> QED
  BY <1>4, <1>5, <1>6, <1>7, <1>8

IInv == RingTypeOK /\ RingConsistent

LEMMA InitEstablishes == Init => IInv
<1> SUFFICES ASSUME Init PROVE IInv
  OBVIOUS
<1> USE QueueCapAssumption
<1>1. RingTypeOK
  BY DEF Init, RingTypeOK, Slots
<1>2. Wrap(0) = 0
  BY WrapValue
<1>3. RingConsistent
  BY <1>2 DEF Init, RingConsistent
<1> QED
  BY <1>1, <1>3 DEF IInv

LEMMA QueueKeeps ==
  ASSUME IInv, NEW cmd \in Commands, api_queue_command(cmd)
  PROVE  IInv'
<1> USE QueueCapAssumption, CommandsAssumption DEF IInv
<1>0. /\ \A i \in 1..api_queue_count : SlotOf(i) \in Slots
      /\ \A i, j \in 1..api_queue_count : SlotOf(i) = SlotOf(j) => i = j
      /\ HasRoom => \A i \in 1..api_queue_count : SlotOf(i) # api_queue_tail
      /\ HasRoom => SlotOf(api_queue_count + 1) = api_queue_tail
      /\ api_queue_count > 0 => Newest = SlotOf(api_queue_count)
  BY SlotsDiffer
<1>1. CASE open /\ ReplacesMove(cmd)
  <2>1. Newest \in Slots
    BY <1>0, <1>1 DEF ReplacesMove, RingTypeOK
  <2>2. RingTypeOK'
    BY <1>1, <2>1 DEF api_queue_command, RingTypeOK
  <2>3. \A i \in 1..api_queue_count : SlotOf(i)' = SlotOf(i)
    BY <1>1 DEF api_queue_command, SlotOf, Wrap
  <2>4. api_queue_tail' = Wrap(api_queue_head' + api_queue_count')
    BY <1>1 DEF api_queue_command, RingConsistent
  <2>5. \A i \in 1..api_queue_count' : api_queue'[SlotOf(i)'] # Unused
    BY <1>0, <1>1, <2>1, <2>3 DEF api_queue_command, RingConsistent, RingTypeOK
  <2>6. RingConsistent'
    BY <2>4, <2>5 DEF RingConsistent, Wrap
  <2> QED
    BY <2>2, <2>6
<1>2. CASE ~(open /\ ReplacesMove(cmd)) /\ open /\ HasRoom
  <2>1. /\ api_queue_tail + 1 \in Nat
        /\ api_queue_tail + 1 < QueueCap + QueueCap
    BY DEF RingTypeOK, Slots
  <2>2. Wrap(api_queue_tail + 1) \in Slots
    BY <2>1, WrapValue
  <2>3. RingTypeOK'
    BY <1>2, <2>2 DEF api_queue_command, RingTypeOK, HasRoom
  <2>4. \A i \in Nat : SlotOf(i)' = SlotOf(i)
    BY <1>2 DEF api_queue_command, SlotOf, Wrap
  <2>5. ASSUME NEW i \in 1..api_queue_count'
        PROVE  api_queue'[SlotOf(i)'] # Unused
    <3>1. CASE i = api_queue_count + 1
      BY <1>0, <1>2, <2>4, <3>1 DEF api_queue_command, RingTypeOK
    <3>2. CASE i \in 1..api_queue_count
      BY <1>0, <1>2, <2>4, <3>2 DEF api_queue_command, RingTypeOK, RingConsistent
    <3> QED
      BY <1>2, <3>1, <3>2 DEF api_queue_command, RingTypeOK
  <2>6. api_queue_tail' = Wrap(api_queue_head' + api_queue_count')
    <3>1. api_queue_tail = IF api_queue_head + api_queue_count < QueueCap
                           THEN api_queue_head + api_queue_count
                           ELSE api_queue_head + api_queue_count - QueueCap
      BY WrapValue DEF RingConsistent, RingTypeOK, Slots
    <3>2. Wrap(api_queue_tail + 1) = IF api_queue_tail + 1 < QueueCap
                                     THEN api_queue_tail + 1
                                     ELSE api_queue_tail + 1 - QueueCap
      BY <2>1, WrapValue DEF RingTypeOK, Slots
    <3>3. Wrap(api_queue_head + (api_queue_count + 1)) =
            IF api_queue_head + (api_queue_count + 1) < QueueCap
            THEN api_queue_head + (api_queue_count + 1)
            ELSE api_queue_head + (api_queue_count + 1) - QueueCap
      BY <1>2, WrapValue DEF RingTypeOK, Slots, HasRoom
    <3> QED
      BY <1>2, <3>1, <3>2, <3>3 DEF api_queue_command, RingTypeOK, Slots, HasRoom
  <2>7. RingConsistent'
    BY <2>5, <2>6 DEF RingConsistent, Wrap
  <2> QED
    BY <2>3, <2>7
<1>3. CASE ~(open /\ ReplacesMove(cmd)) /\ ~(open /\ HasRoom)
  BY <1>3 DEF api_queue_command, ringVars, RingTypeOK, RingConsistent, SlotOf, Wrap
<1> QED
  BY <1>1, <1>2, <1>3

\* Advancing the head by n: the places behind it do not move.
LEMMA HeadAdvances ==
  ASSUME RingTypeOK, NEW n \in 0..api_queue_count
  PROVE  /\ Wrap(api_queue_head + n) \in Slots
         /\ \A i \in 1..(api_queue_count - n) :
              Wrap(Wrap(api_queue_head + n) + i - 1) = SlotOf(i + n)
         /\ Wrap(Wrap(api_queue_head + n) + (api_queue_count - n))
              = Wrap(api_queue_head + api_queue_count)
<1> USE QueueCapAssumption
<1>1. /\ api_queue_head \in Nat /\ api_queue_head < QueueCap
      /\ api_queue_count \in Nat /\ api_queue_count <= QueueCap
      /\ n \in Nat /\ n <= api_queue_count
  BY DEF RingTypeOK, Slots
<1>2. /\ Wrap(api_queue_head + n) \in Slots
      /\ Wrap(api_queue_head + n) = IF api_queue_head + n < QueueCap
                                    THEN api_queue_head + n
                                    ELSE api_queue_head + n - QueueCap
  BY <1>1, WrapValue
<1>3. ASSUME NEW k \in Nat, k <= api_queue_count - n
      PROVE  Wrap(Wrap(api_queue_head + n) + k) = Wrap(api_queue_head + n + k)
  <2> DEFINE base == Wrap(api_queue_head + n)
  <2>1. base + k \in Nat /\ base + k < QueueCap + QueueCap
    BY <1>1, <1>2, <1>3 DEF Slots
  <2>2. Wrap(base + k) = IF base + k < QueueCap THEN base + k ELSE base + k - QueueCap
    BY <1>1, <1>2, <1>3, <2>1, WrapValue DEF Slots
  <2>3. api_queue_head + n + k \in Nat /\ api_queue_head + n + k < QueueCap + QueueCap
    BY <1>1, <1>3
  <2>4. Wrap(api_queue_head + n + k) = IF api_queue_head + n + k < QueueCap
                                       THEN api_queue_head + n + k
                                       ELSE api_queue_head + n + k - QueueCap
    BY <1>1, <1>3, <2>3, WrapValue
  <2>5. base = IF api_queue_head + n < QueueCap
               THEN api_queue_head + n ELSE api_queue_head + n - QueueCap
    BY <1>2
  <2> HIDE DEF base
  <2>6. Wrap(base + k) = Wrap(api_queue_head + n + k)
    BY <1>1, <1>3, <2>2, <2>4, <2>5
  <2> QED
    BY <2>6 DEF base
<1>4. ASSUME NEW i \in 1..(api_queue_count - n)
      PROVE  Wrap(Wrap(api_queue_head + n) + i - 1) = SlotOf(i + n)
  <2>1. Wrap(Wrap(api_queue_head + n) + (i - 1)) = Wrap(api_queue_head + n + (i - 1))
    BY <1>1, <1>3
  <2>2. /\ Wrap(api_queue_head + n) + (i - 1) = Wrap(api_queue_head + n) + i - 1
        /\ api_queue_head + n + (i - 1) = api_queue_head + (i + n) - 1
    BY <1>1, <1>2 DEF Slots
  <2> QED
    BY <2>1, <2>2 DEF SlotOf
<1>5. Wrap(Wrap(api_queue_head + n) + (api_queue_count - n))
        = Wrap(api_queue_head + api_queue_count)
  <2>1. Wrap(Wrap(api_queue_head + n) + (api_queue_count - n))
          = Wrap(api_queue_head + n + (api_queue_count - n))
    BY <1>1, <1>3
  <2>2. api_queue_head + n + (api_queue_count - n) = api_queue_head + api_queue_count
    BY <1>1
  <2> QED
    BY <2>1, <2>2
<1> QED
  BY <1>2, <1>4, <1>5

LEMMA PopKeeps ==
  ASSUME IInv, api_pop_command
  PROVE  IInv'
<1> USE QueueCapAssumption DEF IInv
<1>1. 1 \in 0..api_queue_count /\ 1 \in 1..api_queue_count
  BY DEF api_pop_command, RingTypeOK
<1>2. /\ Wrap(api_queue_head + 1) \in Slots
      /\ \A i \in 1..(api_queue_count - 1) :
           Wrap(Wrap(api_queue_head + 1) + i - 1) = SlotOf(i + 1)
      /\ Wrap(Wrap(api_queue_head + 1) + (api_queue_count - 1))
           = Wrap(api_queue_head + api_queue_count)
  BY <1>1, HeadAdvances
<1>3. /\ SlotOf(1) = api_queue_head
      /\ api_queue[api_queue_head] \in Commands
  <2>1. api_queue_head + 1 - 1 = api_queue_head
    BY DEF RingTypeOK, Slots
  <2>2. SlotOf(1) = api_queue_head
    BY <2>1, WrapValue DEF SlotOf, RingTypeOK, Slots
  <2> QED
    BY <1>1, <2>2 DEF RingTypeOK, RingConsistent
<1>4. RingTypeOK'
  BY <1>2, <1>3 DEF api_pop_command, RingTypeOK
<1>5. \A i \in 1..api_queue_count' : SlotOf(i)' = SlotOf(i + 1)
  BY <1>2 DEF api_pop_command, SlotOf, Wrap
<1>6. api_queue_tail' = Wrap(api_queue_head' + api_queue_count')
  BY <1>2 DEF api_pop_command, RingConsistent
<1>7. \A i \in 1..api_queue_count' : api_queue'[SlotOf(i)'] # Unused
  BY <1>5 DEF api_pop_command, RingConsistent, RingTypeOK
<1>8. RingConsistent'
  BY <1>6, <1>7 DEF RingConsistent, Wrap
<1> QED
  BY <1>4, <1>8

LEMMA ClearKeeps ==
  ASSUME IInv, api_clear_queue
  PROVE  IInv'
<1> USE QueueCapAssumption DEF IInv
<1>1. /\ Wrap(api_queue_head + api_queue_count) \in Slots
      /\ Wrap(Wrap(api_queue_head + api_queue_count) + 0)
           = Wrap(api_queue_head + api_queue_count)
  <2>1. api_queue_count \in 0..api_queue_count /\ api_queue_count - api_queue_count = 0
    BY DEF RingTypeOK
  <2> QED
    BY <2>1, HeadAdvances
<1>2. RingTypeOK'
  BY <1>1 DEF api_clear_queue, RingTypeOK
<1>3. RingConsistent'
  BY <1>1 DEF api_clear_queue, RingConsistent, Wrap
<1> QED
  BY <1>2, <1>3

LEMMA RestKeeps ==
  ASSUME IInv, WorkerFrees \/ InitResets \/ UNCHANGED vars
  PROVE  IInv'
<1> USE QueueCapAssumption DEF IInv
<1>1. CASE WorkerFrees
  BY <1>1 DEF WorkerFrees, ringVars, RingTypeOK, RingConsistent, SlotOf, Wrap
<1>2. CASE InitResets
  <2>1. Wrap(0) = 0
    BY WrapValue
  <2>2. RingTypeOK'
    BY <1>2 DEF InitResets, RingTypeOK, Slots
  <2>3. RingConsistent'
    BY <1>2, <2>1 DEF InitResets, RingConsistent, Wrap
  <2> QED
    BY <2>2, <2>3
<1>3. CASE UNCHANGED vars
  BY <1>3 DEF vars, ringVars, RingTypeOK, RingConsistent, SlotOf, Wrap
<1> QED
  BY <1>1, <1>2, <1>3

\* What the worker holds, and the texts alive, are commands and texts.
HeldOK ==
  /\ open \in BOOLEAN
  /\ hand \in AtMostOne /\ taken \in AtMostOne
  /\ live \subseteq Texts

LEMMA HeldKeeps ==
  ASSUME IInv, HeldOK, [Next]_vars
  PROVE  HeldOK'
<1> USE QueueCapAssumption DEF HeldOK
<1>1. ASSUME NEW cmd \in Commands, api_queue_command(cmd)
      PROVE  HeldOK'
  <2>1. {cmd.text} \ {NoText} \subseteq Texts
    BY DEF Texts
  <2>2. live' \subseteq Texts
    BY <1>1, <2>1 DEF api_queue_command
  <2> QED
    BY <1>1, <2>2 DEF api_queue_command
<1>2. CASE api_pop_command
  <2>1. 1 \in 1..api_queue_count /\ api_queue_head + 1 - 1 = api_queue_head
    BY <1>2 DEF api_pop_command, IInv, RingTypeOK, Slots
  <2>2. SlotOf(1) = api_queue_head
    BY <2>1, WrapValue DEF SlotOf, IInv, RingTypeOK, Slots
  <2>3. api_queue[api_queue_head] \in Commands
    BY <2>1, <2>2 DEF IInv, RingTypeOK, RingConsistent
  <2>4. <<api_queue[api_queue_head]>> \in AtMostOne
    BY <2>3 DEF AtMostOne
  <2> QED
    BY <1>2, <2>4 DEF api_pop_command
<1>3. CASE WorkerFrees
  BY <1>3 DEF WorkerFrees, AtMostOne
<1>4. CASE api_clear_queue
  BY <1>4 DEF api_clear_queue
<1>5. CASE InitResets
  BY <1>5 DEF InitResets
<1>6. CASE UNCHANGED vars
  BY <1>6 DEF vars
<1> QED
  BY <1>1, <1>2, <1>3, <1>4, <1>5, <1>6 DEF Next

\* Head, tail and count stay in range and agree in every reachable state, for
\* every capacity (api_queue_command_locked, api_pop_command_locked,
\* api_clear_queue_locked, skyengine_api_init).
THEOREM RingSafe == Spec => [](TypeOK /\ RingConsistent)
<1>1. Init => IInv /\ HeldOK
  <2>1. Init => HeldOK
    BY DEF Init, HeldOK, AtMostOne
  <2> QED
    BY <2>1, InitEstablishes
<1>2. IInv /\ HeldOK /\ [Next]_vars => (IInv /\ HeldOK)'
  BY QueueKeeps, PopKeeps, ClearKeeps, RestKeeps, HeldKeeps DEF Next
<1>3. IInv /\ HeldOK => TypeOK /\ RingConsistent
  BY DEF IInv, HeldOK, TypeOK
<1> QED
  BY <1>1, <1>2, <1>3, PTL DEF Spec

-----------------------------------------------------------------------------
(* Ownership of the texts.                                                 *)

\* Place 0 is the worker's hand, place i the i-th pending command.
Holds(i, text) ==
  IF i = 0 THEN hand # << >> /\ hand[1].text = text
           ELSE api_queue[SlotOf(i)].text = text

\* TextsOwnedOnce without counting, and what keeps skyengine_api_init from
\* dropping commands: the queue of an ended run is empty.
Owned ==
  /\ \A text \in live : \E i \in 0..api_queue_count : Holds(i, text)
  /\ \A text \in Texts, i \in 0..api_queue_count : Holds(i, text) => text \in live
  /\ \A text \in Texts, i, j \in 0..api_queue_count :
       Holds(i, text) /\ Holds(j, text) => i = j
  /\ ~open => api_queue_count = 0

\* The command at the head of a queue that is not empty.
LEMMA OldestIsFirst ==
  ASSUME IInv, api_queue_count > 0
  PROVE  /\ SlotOf(1) = api_queue_head
         /\ api_queue[api_queue_head] \in Commands
<1> USE QueueCapAssumption
<1>1. /\ 1 \in 1..api_queue_count
      /\ api_queue_head + 1 - 1 = api_queue_head
  BY DEF IInv, RingTypeOK, Slots
<1>2. SlotOf(1) = api_queue_head
  BY <1>1, WrapValue DEF SlotOf, IInv, RingTypeOK, Slots
<1> QED
  BY <1>1, <1>2 DEF IInv, RingTypeOK, RingConsistent

LEMMA QueueKeepsOwned ==
  ASSUME IInv, HeldOK, Owned, NEW cmd \in Commands, api_queue_command(cmd)
  PROVE  Owned'
<1> USE QueueCapAssumption
<1> DEFINE n == api_queue_count
<1>0. /\ \A i \in 1..n : SlotOf(i) \in Slots
      /\ \A i, j \in 1..n : SlotOf(i) = SlotOf(j) => i = j
      /\ HasRoom => \A i \in 1..n : SlotOf(i) # api_queue_tail
      /\ HasRoom => SlotOf(n + 1) = api_queue_tail
      /\ n > 0 => Newest = SlotOf(n)
  BY SlotsDiffer DEF IInv
<1>1. /\ n \in Nat
      /\ hand' = hand /\ open' = open
      /\ \A i : SlotOf(i)' = SlotOf(i)
  BY DEF api_queue_command, ringVars, SlotOf, Wrap, IInv, RingTypeOK
<1>2. \A text \in Texts : text # NoText
  BY DEF Texts
<1>3. CASE open /\ ReplacesMove(cmd)
  <2>1. /\ n \in 1..n
        /\ api_queue' = [api_queue EXCEPT ![SlotOf(n)] = cmd]
        /\ n' = n /\ live' = live
    BY <1>0, <1>1, <1>3 DEF api_queue_command, ReplacesMove
  <2>2. /\ api_queue[SlotOf(n)] \in Commands
        /\ api_queue[SlotOf(n)].text = NoText /\ cmd.text = NoText
    BY <1>0, <1>3, <2>1, CommandsAssumption
    DEF ReplacesMove, IInv, RingTypeOK, RingConsistent
  <2>3. ASSUME NEW i \in 0..n, NEW text \in Texts
        PROVE  Holds(i, text)' <=> Holds(i, text)
    <3>1. CASE i = 0
      BY <1>1, <3>1 DEF Holds
    <3>2. CASE i # 0
      <4>1. i \in 1..n /\ SlotOf(i) \in Slots /\ SlotOf(i)' = SlotOf(i)
        BY <1>0, <1>1, <3>2
      <4>2. api_queue'[SlotOf(i)].text = api_queue[SlotOf(i)].text
        BY <4>1, <2>1, <2>2, <1>0 DEF IInv, RingTypeOK
      <4> QED
        BY <3>2, <4>1, <4>2 DEF Holds
    <3> QED
      BY <3>1, <3>2
  <2>4. live \subseteq Texts
    BY DEF HeldOK
  <2> QED
    BY <1>1, <2>1, <2>3, <2>4 DEF Owned
<1>4. CASE ~(open /\ ReplacesMove(cmd)) /\ open /\ HasRoom
  <2>1. /\ api_queue' = [api_queue EXCEPT ![SlotOf(n + 1)] = cmd]
        /\ n' = n + 1
        /\ live' = live \cup ({cmd.text} \ {NoText})
        /\ cmd.text \notin live
    BY <1>0, <1>4 DEF api_queue_command
  <2>2. SlotOf(n + 1) \in Slots /\ \A i \in 1..n : SlotOf(i) # SlotOf(n + 1)
    BY <1>0, <1>4 DEF IInv, RingTypeOK
  <2>3. ASSUME NEW i \in 0..n, NEW text
        PROVE  Holds(i, text)' <=> Holds(i, text)
    <3>1. CASE i = 0
      BY <1>1, <3>1 DEF Holds
    <3>2. CASE i # 0
      <4>1. i \in 1..n /\ SlotOf(i) \in Slots /\ SlotOf(i)' = SlotOf(i)
        BY <1>0, <1>1, <3>2
      <4>2. api_queue'[SlotOf(i)] = api_queue[SlotOf(i)]
        BY <4>1, <2>1, <2>2 DEF IInv, RingTypeOK
      <4> QED
        BY <3>2, <4>1, <4>2 DEF Holds
    <3> QED
      BY <3>1, <3>2
  <2>4. ASSUME NEW i, i = n + 1, NEW text
        PROVE  Holds(i, text)' <=> cmd.text = text
    <3>1. i # 0 /\ SlotOf(i)' = SlotOf(n + 1)
      BY <1>1, <2>4
    <3>2. api_queue'[SlotOf(n + 1)] = cmd
      BY <2>1, <2>2 DEF IInv, RingTypeOK
    <3> QED
      BY <3>1, <3>2 DEF Holds
  <2>5. \A i \in 0..n' : i \in 0..n \/ i = n + 1
    BY <1>1, <2>1
  <2>6. n + 1 \in 0..n' /\ 0..n \subseteq 0..n'
    BY <1>1, <2>1
  <2>7. \A text \in live' : \E i \in 0..n' : Holds(i, text)'
    <3> SUFFICES ASSUME NEW text \in live'
                 PROVE  \E i \in 0..n' : Holds(i, text)'
      OBVIOUS
    <3>1. CASE text \in live
      BY <3>1, <2>3, <2>6 DEF Owned
    <3>2. CASE text \notin live
      BY <3>2, <2>1, <2>4, <2>6
    <3> QED
      BY <3>1, <3>2
  <2>8. \A text \in Texts, i \in 0..n' : Holds(i, text)' => text \in live'
    <3> SUFFICES ASSUME NEW text \in Texts, NEW i \in 0..n', Holds(i, text)'
                 PROVE  text \in live'
      OBVIOUS
    <3>1. CASE i \in 0..n
      BY <3>1, <2>1, <2>3 DEF Owned
    <3>2. CASE i = n + 1
      BY <3>2, <2>1, <2>4, <1>2
    <3> QED
      BY <3>1, <3>2, <2>5
  <2>9. \A text \in Texts, i, j \in 0..n' : Holds(i, text)' /\ Holds(j, text)' => i = j
    <3> SUFFICES ASSUME NEW text \in Texts, NEW i \in 0..n', NEW j \in 0..n',
                        Holds(i, text)', Holds(j, text)'
                 PROVE  i = j
      OBVIOUS
    <3>1. CASE i \in 0..n /\ j \in 0..n
      BY <3>1, <2>3 DEF Owned
    <3>2. ASSUME NEW k \in 0..n, Holds(k, text)'
          PROVE  text # cmd.text
      BY <3>2, <2>1, <2>3 DEF Owned
    <3> QED
      BY <3>1, <3>2, <2>4, <2>5
  <2> QED
    BY <1>1, <1>4, <2>7, <2>8, <2>9 DEF Owned
<1>5. CASE ~(open /\ ReplacesMove(cmd)) /\ ~(open /\ HasRoom)
  <2>1. UNCHANGED <<ringVars, live>>
    BY <1>5 DEF api_queue_command
  <2>2. \A i, text : Holds(i, text)' <=> Holds(i, text)
    BY <1>1, <2>1 DEF Holds, ringVars
  <2> QED
    BY <1>1, <2>1, <2>2 DEF Owned, ringVars
<1> QED
  BY <1>3, <1>4, <1>5

\* The worker's hand was empty: the first place moves to it, and the others up.
LEMMA PopKeepsOwned ==
  ASSUME IInv, HeldOK, Owned, api_pop_command
  PROVE  Owned'
<1> USE QueueCapAssumption
<1> DEFINE n == api_queue_count
<1>1. /\ n \in Nat /\ n > 0 /\ n' = n - 1 /\ n' \in Nat
      /\ hand = << >> /\ hand' = <<api_queue[api_queue_head]>>
      /\ api_queue' = api_queue /\ live' = live /\ open /\ open'
  BY DEF api_pop_command, IInv, RingTypeOK
<1>2. SlotOf(1) = api_queue_head
  BY <1>1, OldestIsFirst
<1>3. \A i \in 1..(n - 1) : SlotOf(i)' = SlotOf(i + 1)
  <2>1. 1 \in 0..n
    BY <1>1
  <2>2. \A i \in 1..(n - 1) : Wrap(Wrap(api_queue_head + 1) + i - 1) = SlotOf(i + 1)
    BY <2>1, HeadAdvances DEF IInv
  <2> QED
    BY <2>2 DEF api_pop_command, SlotOf, Wrap
<1>4. ASSUME NEW i \in 0..n', NEW text
      PROVE  Holds(i, text)' <=> Holds(i + 1, text)
  <2>1. CASE i = 0
    BY <1>1, <1>2, <2>1 DEF Holds
  <2>2. CASE i # 0
    BY <1>1, <1>3, <2>2 DEF Holds
  <2> QED
    BY <2>1, <2>2
<1>5. /\ \A text : ~Holds(0, text)
      /\ \A i \in 0..n' : i + 1 \in 0..n
      /\ \A i \in 0..n : i # 0 => i - 1 \in 0..n' /\ (i - 1) + 1 = i
  BY <1>1 DEF Holds
<1>6. \A text \in live' : \E i \in 0..n' : Holds(i, text)'
  <2> SUFFICES ASSUME NEW text \in live
               PROVE  \E i \in 0..n' : Holds(i, text)'
    BY <1>1
  <2>1. PICK i \in 0..n : Holds(i, text)
    BY DEF Owned
  <2>2. i # 0 /\ i - 1 \in 0..n' /\ (i - 1) + 1 = i
    BY <1>5, <2>1
  <2>3. Holds(i - 1, text)'
    BY <1>4, <2>1, <2>2
  <2> QED
    BY <2>2, <2>3
<1>7. \A text \in Texts, i \in 0..n' : Holds(i, text)' => text \in live'
  BY <1>1, <1>4, <1>5 DEF Owned
<1>8. \A text \in Texts, i, j \in 0..n' : Holds(i, text)' /\ Holds(j, text)' => i = j
  <2> SUFFICES ASSUME NEW text \in Texts, NEW i \in 0..n', NEW j \in 0..n',
                      Holds(i, text)', Holds(j, text)'
               PROVE  i = j
    OBVIOUS
  <2>1. Holds(i + 1, text) /\ Holds(j + 1, text) /\ i + 1 \in 0..n /\ j + 1 \in 0..n
    BY <1>4, <1>5
  <2>2. i + 1 = j + 1
    BY <2>1 DEF Owned
  <2> QED
    BY <1>1, <2>2
<1> QED
  BY <1>1, <1>6, <1>7, <1>8 DEF Owned

\* What is freed was held by the one place that is given up.
LEMMA RestKeepsOwned ==
  ASSUME IInv, HeldOK, Owned,
         WorkerFrees \/ api_clear_queue \/ InitResets \/ UNCHANGED vars
  PROVE  Owned'
<1> USE QueueCapAssumption
<1> DEFINE n == api_queue_count
<1>0. /\ n \in Nat /\ 0 \in 0..n
      /\ live \subseteq Texts
      /\ \A text : Holds(0, text) <=> hand # << >> /\ hand[1].text = text
  BY DEF IInv, RingTypeOK, HeldOK, Holds
<1>1. CASE WorkerFrees
  <2>1. /\ n' = n /\ api_queue' = api_queue /\ open' = open
        /\ hand # << >> /\ hand' = << >>
        /\ live' = live \ {hand[1].text}
        /\ \A i : SlotOf(i)' = SlotOf(i)
    BY <1>1 DEF WorkerFrees, ringVars, SlotOf, Wrap
  <2>2. ASSUME NEW i \in 0..n, NEW text
        PROVE  Holds(i, text)' <=> i # 0 /\ Holds(i, text)
    BY <2>1 DEF Holds
  <2>3. Holds(0, hand[1].text)
    BY <1>0, <2>1
  <2>4. \A text \in live' : \E i \in 0..n' : Holds(i, text)'
    <3> SUFFICES ASSUME NEW text \in live'
                 PROVE  \E i \in 0..n' : Holds(i, text)'
      OBVIOUS
    <3>1. PICK i \in 0..n : Holds(i, text)
      BY <2>1 DEF Owned
    <3>2. i # 0
      BY <1>0, <2>1, <3>1
    <3> QED
      BY <2>1, <2>2, <3>1, <3>2
  <2>5. ASSUME NEW text \in Texts, NEW i \in 0..n', Holds(i, text)'
        PROVE  text \in live'
    <3>1. i \in 0..n /\ i # 0 /\ Holds(i, text)
      BY <2>1, <2>2, <2>5
    <3>2. text # hand[1].text
      BY <1>0, <2>3, <3>1 DEF Owned
    <3> QED
      BY <2>1, <3>1, <3>2 DEF Owned
  <2>6. \A text \in Texts, i, j \in 0..n' : Holds(i, text)' /\ Holds(j, text)' => i = j
    BY <2>1, <2>2 DEF Owned
  <2> QED
    BY <2>1, <2>4, <2>5, <2>6 DEF Owned
<1>2. CASE api_clear_queue
  <2>1. /\ n' = 0 /\ hand' = hand
        /\ live' = live \ PendingTexts
    BY <1>2 DEF api_clear_queue
  <2>2. ASSUME NEW i \in 0..n', NEW text
        PROVE  i = 0 /\ (Holds(i, text)' <=> Holds(0, text))
    BY <2>1 DEF Holds
  <2>3. \A i \in 1..n : \A text : Holds(i, text) <=> api_queue[SlotOf(i)].text = text
    BY DEF Holds
  <2>4. \A text \in live' : \E i \in 0..n' : Holds(i, text)'
    <3> SUFFICES ASSUME NEW text \in live'
                 PROVE  \E i \in 0..n' : Holds(i, text)'
      OBVIOUS
    <3>1. PICK i \in 0..n : Holds(i, text)
      BY <2>1 DEF Owned
    <3>2. i \notin 1..n
      BY <2>1, <2>3, <3>1 DEF PendingTexts
    <3>3. i = 0 /\ 0 \in 0..n'
      BY <1>0, <2>1, <3>2
    <3> QED
      BY <2>2, <3>1, <3>3
  <2>5. ASSUME NEW text \in Texts, NEW i \in 0..n', Holds(i, text)'
        PROVE  text \in live'
    <3>1. Holds(0, text)
      BY <2>2, <2>5
    <3>2. text \notin PendingTexts
      <4> SUFFICES ASSUME NEW j \in 1..n, api_queue[SlotOf(j)].text = text
                   PROVE  FALSE
        BY DEF PendingTexts
      <4>1. Holds(j, text) /\ j \in 0..n
        BY <1>0, <2>3
      <4>2. j = 0
        BY <1>0, <3>1, <4>1 DEF Owned
      <4> QED
        BY <4>2
    <3> QED
      BY <1>0, <2>1, <3>1, <3>2 DEF Owned
  <2>6. \A text \in Texts, i, j \in 0..n' : Holds(i, text)' /\ Holds(j, text)' => i = j
    BY <2>2
  <2> QED
    BY <2>1, <2>4, <2>5, <2>6 DEF Owned
<1>3. CASE InitResets
  <2>1. /\ n = 0 /\ n' = 0 /\ open' /\ hand' = hand /\ live' = live
    BY <1>3 DEF InitResets, Owned
  <2>2. ASSUME NEW i \in 0..n, NEW text
        PROVE  Holds(i, text)' <=> Holds(i, text)
    BY <2>1 DEF Holds
  <2> QED
    BY <1>0, <2>1, <2>2 DEF Owned
<1>4. CASE UNCHANGED vars
  <2>1. /\ n' = n /\ open' = open /\ live' = live
        /\ \A i, text : Holds(i, text)' <=> Holds(i, text)
    BY <1>4 DEF vars, ringVars, Holds, SlotOf, Wrap
  <2> QED
    BY <2>1 DEF Owned
<1> QED
  BY <1>1, <1>2, <1>3, <1>4

LEMMA OwnedCounts ==
  ASSUME IInv, Owned
  PROVE  TextsOwnedOnce
<1> SUFFICES ASSUME NEW text \in Texts
             PROVE  Cardinality(Holders(text)) = IF text \in live THEN 1 ELSE 0
  BY DEF TextsOwnedOnce
<1>1. Holders(text) = {i \in 0..api_queue_count : Holds(i, text)}
  <2>1. api_queue_count \in Nat
    BY DEF IInv, RingTypeOK
  <2>2. \A i : i \in Holders(text) <=>
                 \/ i \in 1..api_queue_count /\ api_queue[SlotOf(i)].text = text
                 \/ i = 0 /\ hand # << >> /\ hand[1].text = text
    BY DEF Holders
  <2>3. \A i : i \in 0..api_queue_count /\ Holds(i, text) <=>
                 \/ i \in 1..api_queue_count /\ api_queue[SlotOf(i)].text = text
                 \/ i = 0 /\ hand # << >> /\ hand[1].text = text
    BY <2>1 DEF Holds
  <2> QED
    BY <2>2, <2>3
<1>2. CASE text \in live
  <2>1. PICK i \in 0..api_queue_count : Holds(i, text)
    BY <1>2 DEF Owned
  <2>2. Holders(text) = {i}
    BY <1>1, <2>1 DEF Owned
  <2> QED
    BY <1>2, <2>2, FS_Singleton
<1>3. CASE text \notin live
  <2>1. Holders(text) = {}
    BY <1>1, <1>3 DEF Owned
  <2> QED
    BY <1>3, <2>1, FS_EmptySet
<1> QED
  BY <1>2, <1>3

\* A text that set_edit_text allocated is held by exactly one pending command
\* or by the worker until it is freed: nothing leaks, nothing is freed early,
\* whatever mix of queue, pop, dispatch, stop and init ran before.
THEOREM RingOwnsTexts == Spec => []TextsOwnedOnce
<1>1. Init => IInv /\ HeldOK /\ Owned
  <2>1. Init => HeldOK
    BY DEF Init, HeldOK, AtMostOne
  <2>2. ASSUME Init
        PROVE  Owned
    <3>1. /\ api_queue_count = 0 /\ live = {} /\ open
          /\ \A i \in 0..0 : \A text : ~Holds(i, text)
      BY <2>2 DEF Init, Holds
    <3> QED
      BY <3>1 DEF Owned
  <2> QED
    BY <2>1, <2>2, InitEstablishes
<1>2. IInv /\ HeldOK /\ [Next]_vars => (IInv /\ HeldOK)'
  BY QueueKeeps, PopKeeps, ClearKeeps, RestKeeps, HeldKeeps DEF Next
<1>3. IInv /\ HeldOK /\ Owned /\ [Next]_vars => Owned'
  BY QueueKeepsOwned, PopKeepsOwned, RestKeepsOwned DEF Next
<1>4. IInv /\ Owned => TextsOwnedOnce
  BY OwnedCounts
<1> QED
  BY <1>1, <1>2, <1>3, <1>4, PTL DEF Spec

-----------------------------------------------------------------------------
(* The refinement of CommandFifo.                                          *)
LEMMA PendingElements ==
  ASSUME IInv
  PROVE  /\ pending \in Seq(Commands)
         /\ Len(pending) = api_queue_count
         /\ \A i \in 1..api_queue_count : pending[i] = api_queue[SlotOf(i)]
<1>1. api_queue_count \in Nat
  BY DEF IInv, RingTypeOK
<1>2. \A i \in 1..api_queue_count : api_queue[SlotOf(i)] \in Commands
  BY SlotsDiffer DEF IInv, RingTypeOK, RingConsistent
<1> QED
  BY <1>1, <1>2 DEF pending

\* The same of the next state.
LEMMA PendingElementsNext ==
  ASSUME IInv'
  PROVE  /\ pending' \in Seq(Commands)
         /\ Len(pending') = api_queue_count'
         /\ \A i \in 1..api_queue_count' : pending'[i] = api_queue'[SlotOf(i)']
<1>1. api_queue_count' \in Nat
  BY DEF IInv, RingTypeOK
<1>2. (IInv => /\ pending \in Seq(Commands)
               /\ Len(pending) = api_queue_count
               /\ \A i \in 1..api_queue_count : pending[i] = api_queue[SlotOf(i)])'
  BY PendingElements, PTL
<1> QED
  BY <1>2

\* The two modules use the same operators on sequences.
LEMMA SameOffer == \A queue, cmd : F!Offer(queue, cmd) = Offer(queue, cmd)
  BY DEF Offer, F!Offer, Coalesces, F!Coalesces, Full, F!Full, IsMove, F!IsMove

LEMMA QueueRefines ==
  ASSUME IInv, IInv', NEW cmd \in Commands, api_queue_command(cmd)
  PROVE  F!Queue(cmd) \/ UNCHANGED <<pending, taken>>
<1> USE QueueCapAssumption
<1>0. /\ \A i \in 1..api_queue_count : SlotOf(i) \in Slots
      /\ \A i, j \in 1..api_queue_count : SlotOf(i) = SlotOf(j) => i = j
      /\ HasRoom => \A i \in 1..api_queue_count : SlotOf(i) # api_queue_tail
      /\ HasRoom => SlotOf(api_queue_count + 1) = api_queue_tail
      /\ api_queue_count > 0 => Newest = SlotOf(api_queue_count)
  BY SlotsDiffer DEF IInv
<1>1. /\ pending \in Seq(Commands)
      /\ Len(pending) = api_queue_count
      /\ \A i \in 1..api_queue_count : pending[i] = api_queue[SlotOf(i)]
  BY PendingElements
<1>2. /\ pending' \in Seq(Commands)
      /\ Len(pending') = api_queue_count'
      /\ \A i \in 1..api_queue_count' : pending'[i] = api_queue'[SlotOf(i)']
  BY PendingElementsNext
<1>3. api_queue_head' = api_queue_head /\ \A i \in Nat : SlotOf(i)' = SlotOf(i)
  BY DEF api_queue_command, ringVars, SlotOf, Wrap
<1>4. taken' = taken
  BY DEF api_queue_command
<1>5. ReplacesMove(cmd) <=> Coalesces(pending, cmd)
  <2>1. api_queue_count > 0 <=> pending # << >>
    BY <1>1, EmptySeq
  <2>2. api_queue_count > 0 => pending[Len(pending)] = api_queue[Newest]
    BY <1>0, <1>1 DEF IInv, RingTypeOK
  <2> QED
    BY <1>1, <2>1, <2>2 DEF ReplacesMove, Coalesces
<1>6. HasRoom <=> ~Full(pending)
  BY <1>1 DEF HasRoom, Full, IInv, RingTypeOK
<1>7. CASE open /\ ReplacesMove(cmd)
  <2> DEFINE n == api_queue_count
  <2>1. n \in 1..Len(pending) /\ n = Len(pending)
    BY <1>1, <1>7 DEF ReplacesMove, IInv, RingTypeOK
  <2>2. /\ [pending EXCEPT ![n] = cmd] \in Seq(Commands)
        /\ Len([pending EXCEPT ![n] = cmd]) = n
        /\ \A j \in 1..n : [pending EXCEPT ![n] = cmd][j] = IF j = n THEN cmd ELSE pending[j]
    BY <1>1, <2>1, ExceptSeq
  <2>3. api_queue' = [api_queue EXCEPT ![Newest] = cmd] /\ api_queue_count' = n
    BY <1>7 DEF api_queue_command
  <2>4. \A j \in 1..n : pending'[j] = IF j = n THEN cmd ELSE pending[j]
    BY <1>0, <1>1, <1>2, <1>3, <2>1, <2>3 DEF IInv, RingTypeOK
  <2>5. pending' = [pending EXCEPT ![n] = cmd]
    BY <1>2, <2>2, <2>3, <2>4, SeqEqual
  <2>6. pending' = Offer(pending, cmd)
    BY <1>5, <1>7, <2>1, <2>5 DEF Offer
  <2> QED
    BY <1>4, <2>6, SameOffer DEF F!Queue
<1>8. CASE ~(open /\ ReplacesMove(cmd)) /\ open /\ HasRoom
  <2> DEFINE n == api_queue_count
  <2>1. /\ Append(pending, cmd) \in Seq(Commands)
        /\ Len(Append(pending, cmd)) = n + 1
        /\ \A j \in 1..n : Append(pending, cmd)[j] = pending[j]
        /\ Append(pending, cmd)[n + 1] = cmd
    BY <1>1, AppendProperties
  <2>2. api_queue' = [api_queue EXCEPT ![api_queue_tail] = cmd] /\ api_queue_count' = n + 1
    BY <1>8 DEF api_queue_command
  <2>3. n \in Nat
    BY DEF IInv, RingTypeOK
  <2>4. ASSUME NEW j \in 1..(n + 1)
        PROVE  pending'[j] = Append(pending, cmd)[j]
    <3>1. pending'[j] = api_queue'[SlotOf(j)]
      BY <1>2, <1>3, <2>2, <2>3
    <3>2. CASE j = n + 1
      BY <1>0, <1>8, <2>1, <2>2, <3>1, <3>2 DEF IInv, RingTypeOK
    <3>3. CASE j \in 1..n
      BY <1>0, <1>1, <1>8, <2>1, <2>2, <3>1, <3>3 DEF IInv, RingTypeOK
    <3>4. j = n + 1 \/ j \in 1..n
      BY <2>3
    <3> QED
      BY <3>2, <3>3, <3>4
  <2>5. pending' = Append(pending, cmd)
    BY <1>2, <2>1, <2>2, <2>4, SeqEqual
  <2>6. pending' = Offer(pending, cmd)
    BY <1>5, <1>6, <1>8, <2>5 DEF Offer
  <2> QED
    BY <1>4, <2>6, SameOffer DEF F!Queue
<1>9. CASE ~(open /\ ReplacesMove(cmd)) /\ ~(open /\ HasRoom)
  <2>1. UNCHANGED ringVars
    BY <1>9 DEF api_queue_command
  <2>2. pending' = pending
    BY <2>1 DEF ringVars, pending, SlotOf, Wrap
  <2> QED
    BY <1>4, <2>2
<1> QED
  BY <1>7, <1>8, <1>9

LEMMA PopRefines ==
  ASSUME IInv, IInv', api_pop_command
  PROVE  F!Pop
<1> USE QueueCapAssumption
<1>1. /\ pending \in Seq(Commands)
      /\ Len(pending) = api_queue_count
      /\ \A i \in 1..api_queue_count : pending[i] = api_queue[SlotOf(i)]
  BY PendingElements
<1>2. /\ pending' \in Seq(Commands)
      /\ Len(pending') = api_queue_count'
      /\ \A i \in 1..api_queue_count' : pending'[i] = api_queue'[SlotOf(i)']
  BY PendingElementsNext
<1>3. /\ api_queue_count \in Nat /\ api_queue_count > 0
      /\ api_queue_count' = api_queue_count - 1
      /\ api_queue' = api_queue
  BY DEF api_pop_command, IInv, RingTypeOK
<1>4. pending # << >>
  BY <1>1, <1>3, EmptySeq
<1>5. /\ Tail(pending) \in Seq(Commands)
      /\ Len(Tail(pending)) = api_queue_count - 1
      /\ \A i \in 1..(api_queue_count - 1) : Tail(pending)[i] = pending[i + 1]
      /\ Head(pending) = pending[1]
  BY <1>1, <1>4, HeadTailProperties
<1>6. \A i \in 1..(api_queue_count - 1) : SlotOf(i)' = SlotOf(i + 1)
  <2>1. 1 \in 0..api_queue_count
    BY <1>3
  <2>2. \A i \in 1..(api_queue_count - 1) :
          Wrap(Wrap(api_queue_head + 1) + i - 1) = SlotOf(i + 1)
    BY <2>1, HeadAdvances DEF IInv
  <2> QED
    BY <2>2 DEF api_pop_command, SlotOf, Wrap
<1>7. pending' = Tail(pending)
  <2>1. \A i \in 1..(api_queue_count - 1) : pending'[i] = Tail(pending)[i]
    BY <1>1, <1>2, <1>3, <1>5, <1>6
  <2> QED
    BY <1>2, <1>3, <1>5, <2>1, SeqEqual
<1>8. SlotOf(1) = api_queue_head
  <2>1. api_queue_head + 1 - 1 = api_queue_head
    BY DEF IInv, RingTypeOK, Slots
  <2> QED
    BY <2>1, WrapValue DEF SlotOf, IInv, RingTypeOK, Slots
<1>9. taken' = <<Head(pending)>>
  BY <1>1, <1>3, <1>5, <1>8 DEF api_pop_command
<1> QED
  BY <1>4, <1>7, <1>9 DEF F!Pop

LEMMA EmptyPending ==
  ASSUME IInv', api_queue_count' = 0
  PROVE  pending' = << >>
  BY PendingElementsNext, EmptySeq

LEMMA RestRefines ==
  ASSUME IInv, IInv', [Next]_vars
  PROVE  [F!Next]_<<pending, taken>>
<1>1. ASSUME NEW cmd \in Commands, api_queue_command(cmd)
      PROVE  [F!Next]_<<pending, taken>>
  BY <1>1, QueueRefines DEF F!Next
<1>2. CASE api_pop_command
  BY <1>2, PopRefines DEF F!Next
<1>3. CASE WorkerFrees
  <2>1. pending' = pending /\ taken' = taken
    BY <1>3 DEF WorkerFrees, ringVars, pending, SlotOf, Wrap
  <2> QED
    BY <2>1
<1>4. CASE api_clear_queue
  <2>1. pending' = << >> /\ taken' = taken
    BY <1>4, EmptyPending DEF api_clear_queue
  <2> QED
    BY <2>1 DEF F!Next, F!Clear
<1>5. CASE InitResets
  <2>1. pending' = << >> /\ taken' = taken
    BY <1>5, EmptyPending DEF InitResets
  <2> QED
    BY <2>1 DEF F!Next, F!Clear
<1>6. CASE UNCHANGED vars
  <2>1. pending' = pending /\ taken' = taken
    BY <1>6 DEF vars, ringVars, pending, SlotOf, Wrap
  <2> QED
    BY <2>1
<1> QED
  BY <1>1, <1>2, <1>3, <1>4, <1>5, <1>6 DEF Next

\* The circular array is a bounded first-in first-out queue in which a newer
\* move replaces the newest pending one: every step of the array operations of
\* skyengine_api.c is a step of CommandFifo or leaves its queue unchanged.
THEOREM RingImplementsFifo == Spec => ImplementsFifo
<1>1. Init => F!Init
  <2>1. Init => IInv /\ api_queue_count = 0
    BY InitEstablishes DEF Init
  <2>2. Init => pending = << >>
    BY <2>1, PendingElements, EmptySeq
  <2> QED
    BY <2>2 DEF Init, F!Init
<1>2. Init => IInv
  BY InitEstablishes
<1>3. IInv /\ [Next]_vars => IInv'
  BY QueueKeeps, PopKeeps, ClearKeeps, RestKeeps DEF Next
<1>4. IInv /\ IInv' /\ [Next]_vars => [F!Next]_<<pending, taken>>
  BY RestRefines
<1> QED
  BY <1>1, <1>2, <1>3, <1>4, PTL DEF Spec, ImplementsFifo, F!Spec
=============================================================================
