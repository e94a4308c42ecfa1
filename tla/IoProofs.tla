-------------------------------- MODULE IoProofs --------------------------------
(***************************************************************************)
(* Proofs about Io, for any keys, any bound on the queue and any program.  *)
(***************************************************************************)
EXTENDS Io, TLAPS

Events == [type : {"down", "up", "quit"}, key : Keys \cup {""}]

TypeOK ==
  /\ events \in Seq(Events)
  /\ down \subseteq Keys
  /\ joypad_state \subseteq Buttons
  /\ joypad \subseteq {4, 5}
  /\ pad \subseteq Buttons
  /\ polled \subseteq {"d-pad", "actions"}

(* For a key with events in the queue the last of them says whether the key *)
(* is held; for the others the button does.                                 *)
Waiting(k) == {i \in DOMAIN events : events[i].key = k}
Newest(k, i) == i \in Waiting(k) /\ \A j \in Waiting(k) : j <= i
KeyAgrees(k) ==
  /\ Waiting(k) = {} => (Mapped[k] \in joypad_state <=> k \in down)
  /\ \A i \in DOMAIN events : Newest(k, i) =>
       events[i].type = (IF k \in down THEN "down" ELSE "up")
QueueAgrees == \A k \in DOMAIN Mapped : KeyAgrees(k)

IoInv == TypeOK /\ PadAgrees /\ QueueAgrees
-----------------------------------------------------------------------------
LEMMA MappedKeys ==
  /\ DOMAIN Mapped = {"RIGHT", "LEFT", "UP", "DOWN", "z", "x", "BACKSPACE", "RETURN"}
  /\ Mapped["RIGHT"] = 0 /\ Mapped["LEFT"] = 1 /\ Mapped["UP"] = 2 /\ Mapped["DOWN"] = 3
  /\ Mapped["z"] = 4 /\ Mapped["x"] = 5 /\ Mapped["BACKSPACE"] = 6 /\ Mapped["RETURN"] = 7
  BY DEF Mapped

(* key_to_btn is one to one between the mapped keys and the buttons. *)
LEMMA OneToOne ==
  /\ \A k \in DOMAIN Mapped : Mapped[k] \in Buttons /\ key_to_btn(k) = Mapped[k]
  /\ \A k, l \in DOMAIN Mapped : Mapped[k] = Mapped[l] => k = l
  /\ \A b \in Buttons : \E k \in DOMAIN Mapped : Mapped[k] = b
  /\ \A k : k \notin DOMAIN Mapped => key_to_btn(k) = -1
  /\ "" \notin DOMAIN Mapped
<1>1. \A k \in DOMAIN Mapped : Mapped[k] \in Buttons /\ key_to_btn(k) = Mapped[k]
  BY MappedKeys DEF Buttons, key_to_btn
<1>2. \A k, l \in DOMAIN Mapped : Mapped[k] = Mapped[l] => k = l
  BY MappedKeys
<1>3. \A b \in Buttons : \E k \in DOMAIN Mapped : Mapped[k] = b
  BY MappedKeys DEF Buttons
<1>4. \A k : k \notin DOMAIN Mapped => key_to_btn(k) = -1
  BY DEF key_to_btn
<1>5. "" \notin DOMAIN Mapped
  BY MappedKeys
<1> QED
  BY <1>1, <1>2, <1>3, <1>4, <1>5

(* key_to_btn at any key *)
LEMMA ButtonOf ==
  ASSUME NEW k
  PROVE  \/ k \in DOMAIN Mapped /\ key_to_btn(k) = Mapped[k] /\ Mapped[k] \in 0 .. 7
         \/ k \notin DOMAIN Mapped /\ key_to_btn(k) = -1
  BY MappedKeys DEF key_to_btn

LEMMA Starts == Init => IoInv
<1> SUFFICES ASSUME Init PROVE IoInv
  OBVIOUS
<1>1. TypeOK
  BY DEF Init, TypeOK
<1>2. PadAgrees
  BY DEF Init, PadAgrees
<1>3. QueueAgrees
  BY DEF Init, QueueAgrees, KeyAgrees, Newest, Waiting
<1> QED
  BY <1>1, <1>2, <1>3 DEF IoInv
-----------------------------------------------------------------------------
(* The queue. *)

(* An event of one key, put behind the others, speaks for that key alone.   *)
LEMMA SendKeeps ==
  ASSUME TypeOK, QueueAgrees, NEW e \in Events,
         events' = Append(events, e), joypad_state' = joypad_state,
         \A k \in DOMAIN Mapped :
           \/ k = e.key /\ e.type = (IF k \in down' THEN "down" ELSE "up")
           \/ k # e.key /\ (k \in down' <=> k \in down)
  PROVE  QueueAgrees'
<1> SUFFICES ASSUME NEW k \in DOMAIN Mapped PROVE KeyAgrees(k)'
  BY DEF QueueAgrees
<1> DEFINE n == Len(events)
<1>1. /\ DOMAIN events = 1 .. n /\ DOMAIN events' = 1 .. n + 1 /\ n \in Nat
      /\ \A i \in 1 .. n : events'[i] = events[i]
      /\ events'[n + 1] = e
  BY DEF TypeOK
<1> HIDE DEF n
<1>2. KeyAgrees(k)
  BY DEF QueueAgrees
<1>3. CASE k = e.key
  <2>1. n + 1 \in Waiting(k)'
    BY <1>1, <1>3 DEF Waiting
  <2>2. \A i \in DOMAIN events' : Newest(k, i)' => i = n + 1
    BY <1>1, <2>1 DEF Newest, Waiting
  <2> QED
    BY <1>1, <1>3, <2>1, <2>2 DEF KeyAgrees
<1>4. CASE k # e.key
  <2>1. Waiting(k)' = Waiting(k)
    BY <1>1, <1>4 DEF Waiting
  <2>2. \A i \in DOMAIN events' : Newest(k, i)' => Newest(k, i) /\ i \in 1 .. n
    BY <1>1, <2>1 DEF Newest, Waiting
  <2> QED
    BY <1>1, <1>2, <1>4, <2>1, <2>2 DEF KeyAgrees
<1> QED
  BY <1>3, <1>4

LEMMA PlayerKeeps == IoInv /\ Player => IoInv'
<1> SUFFICES ASSUME IoInv, Player PROVE IoInv'
  OBVIOUS
<1> USE DEF IoInv
<1>1. UNCHANGED <<joypad_state, joypad, pad, polled>>
  BY DEF Player, padVars
<1>2. PadAgrees'
  BY <1>1 DEF PadAgrees
<1>3. PICK e \in Events :
        /\ events' = Append(events, e)
        /\ down' \subseteq Keys
        /\ \A k \in DOMAIN Mapped :
             \/ k = e.key /\ e.type = (IF k \in down' THEN "down" ELSE "up")
             \/ k # e.key /\ (k \in down' <=> k \in down)
  <2> DEFINE Fits(e) ==
        /\ e \in Events
        /\ events' = Append(events, e)
        /\ down' \subseteq Keys
        /\ \A k \in DOMAIN Mapped :
             \/ k = e.key /\ e.type = (IF k \in down' THEN "down" ELSE "up")
             \/ k # e.key /\ (k \in down' <=> k \in down)
  <2>1. ASSUME NEW l \in Keys, Send("down", l), down' = down \cup {l}
        PROVE  Fits([type |-> "down", key |-> l])
    BY <2>1 DEF Send, Events, TypeOK
  <2>2. ASSUME NEW l \in down, Send("up", l), down' = down \ {l}
        PROVE  Fits([type |-> "up", key |-> l])
    BY <2>2 DEF Send, Events, TypeOK
  <2>3. ASSUME Send("quit", ""), UNCHANGED down
        PROVE  Fits([type |-> "quit", key |-> ""])
    BY <2>3, OneToOne DEF Send, Events, TypeOK
  <2>4. \E e : Fits(e)
    <3> HIDE DEF Fits
    <3> QED
      BY <2>1, <2>2, <2>3 DEF Player
  <2> QED
    BY <2>4
<1>4. TypeOK'
  BY <1>1, <1>3 DEF TypeOK
<1>5. QueueAgrees'
  BY <1>1, <1>3, SendKeeps
<1> QED
  BY <1>2, <1>4, <1>5

(* The first event is taken out and its button follows it. *)
LEMMA HandleKeeps == IoInv /\ HandleEvent => IoInv'
<1> SUFFICES ASSUME IoInv, HandleEvent PROVE IoInv'
  OBVIOUS
<1> USE DEF IoInv
<1> DEFINE e == Head(events)
           b == key_to_btn(e.key)
           n == Len(events)
<1>1. /\ events # <<>> /\ events' = Tail(events)
      /\ polled' = {g \in polled : b \notin Half(g)}
      /\ UNCHANGED <<down, joypad, pad>>
  BY DEF HandleEvent
<1>2. /\ e.type = "down" /\ b >= 0 => joypad_state' = joypad_state \cup {b}
      /\ e.type = "up" /\ b >= 0 => joypad_state' = joypad_state \ {b}
      /\ ~(e.type \in {"down", "up"} /\ b >= 0) => joypad_state' = joypad_state
  BY DEF HandleEvent, joypad_press, joypad_release
<1>3. /\ n \in Nat \ {0} /\ DOMAIN events = 1 .. n /\ DOMAIN events' = 1 .. n - 1
      /\ \A i \in 1 .. n - 1 : events'[i] = events[i + 1]
      /\ e = events[1] /\ e \in Events
  BY <1>1 DEF TypeOK
<1>4. b >= 0 => b \in Buttons
  BY ButtonOf DEF Buttons
<1>5. TypeOK'
  <2>1. joypad_state' \subseteq Buttons
    <3>1. \/ joypad_state' \in {joypad_state, joypad_state \ {b}}
          \/ joypad_state' = joypad_state \cup {b} /\ b \in Buttons
      <4> HIDE DEF e, b
      <4> QED
        BY <1>2, <1>4
    <3>2. joypad_state \subseteq Buttons
      BY DEF TypeOK
    <3> QED
      BY <3>1, <3>2
  <2>2. events' \in Seq(Events)
    BY <1>1 DEF TypeOK
  <2> QED
    BY <1>1, <2>1, <2>2 DEF TypeOK
<1>6. PadAgrees'
  <2> SUFFICES ASSUME NEW g \in polled, b \notin Half(g), NEW c \in Half(g)
               PROVE  c \in pad <=> c \in joypad_state'
    BY <1>1 DEF PadAgrees
  <2>1. c # b
    OBVIOUS
  <2> HIDE DEF e, b
  <2>2. c \in joypad_state' <=> c \in joypad_state
    BY <1>2, <2>1
  <2> QED
    BY <2>2 DEF PadAgrees
<1>7. ASSUME NEW k \in DOMAIN Mapped PROVE KeyAgrees(k)'
  <2> HIDE DEF e, b, n
  <2>1. KeyAgrees(k)
    BY DEF QueueAgrees
  <2>2. \A i \in 1 .. n - 1 : i \in Waiting(k)' <=> i + 1 \in Waiting(k)
    BY <1>3 DEF Waiting
  <2>3. ASSUME NEW i \in 1 .. n - 1, Newest(k, i)' PROVE Newest(k, i + 1)
    <3>1. \A j \in Waiting(k) : j = 1 \/ j - 1 \in Waiting(k)'
      BY <1>3 DEF Waiting
    <3> QED
      BY <1>3, <2>2, <2>3, <3>1 DEF Newest, Waiting
  <2>4. \A i \in DOMAIN events' : Newest(k, i)' =>
          events'[i].type = (IF k \in down' THEN "down" ELSE "up")
    BY <1>1, <1>3, <2>1, <2>3 DEF KeyAgrees
  <2>5. ASSUME Waiting(k)' = {} PROVE Mapped[k] \in joypad_state' <=> k \in down'
    <3>1. \A j \in Waiting(k) : j = 1
      <4>1. \A j \in 2 .. n : j - 1 \in 1 .. n - 1 /\ (j - 1) + 1 = j
        BY <1>3
      <4>2. \A j \in 2 .. n : j \notin Waiting(k)
        BY <2>2, <2>5, <4>1
      <4>3. Waiting(k) \subseteq 1 .. n
        BY <1>3 DEF Waiting
      <4> QED
        BY <1>3, <4>2, <4>3
    <3>2. CASE k = e.key
      <4>1. Newest(k, 1)
        BY <1>3, <3>1, <3>2 DEF Newest, Waiting
      <4>2. e.type = (IF k \in down THEN "down" ELSE "up")
        BY <1>3, <2>1, <4>1 DEF KeyAgrees
      <4>3. b = Mapped[k] /\ b >= 0
        BY <3>2, ButtonOf DEF b
      <4> QED
        BY <1>1, <1>2, <4>2, <4>3
    <3>3. CASE k # e.key
      <4>1. Waiting(k) = {}
        BY <1>3, <3>1, <3>3 DEF Waiting
      <4>2. b # Mapped[k]
        <5>1. CASE e.key \in DOMAIN Mapped
          BY <3>3, <5>1, OneToOne DEF b
        <5>2. CASE e.key \notin DOMAIN Mapped
          <6>1. b = -1
            BY <5>2, ButtonOf DEF b
          <6>2. Mapped[k] \in 0 .. 7
            BY OneToOne DEF Buttons
          <6> QED
            BY <6>1, <6>2
        <5> QED
          BY <5>1, <5>2
      <4> QED
        BY <1>1, <1>2, <2>1, <4>1, <4>2 DEF KeyAgrees
    <3> QED
      BY <3>2, <3>3
  <2> QED
    BY <2>4, <2>5 DEF KeyAgrees
<1> QED
  BY <1>5, <1>6, <1>7 DEF QueueAgrees
-----------------------------------------------------------------------------
(* The program. *)

(* What PollGroup reads of a half is what is held. *)
LEMMA PollKeeps ==
  ASSUME IoInv, NEW g \in {"d-pad", "actions"}, PollGroup(g)
  PROVE  PadAgrees' /\ pad' \subseteq Buttons /\ polled' \subseteq {"d-pad", "actions"}
<1> USE DEF IoInv, TypeOK
<1>1. joypad_state' = joypad_state /\ polled' = polled \cup {g}
  BY DEF PollGroup
<1>2. CASE g = "actions"
  <2>1. \A n \in 0 .. 3 : n \notin ReadP1 <=> n + 4 \in joypad_state
    BY <1>2 DEF PollGroup, ReadP1, Group
  <2>2. pad' = (pad \ (4 .. 7)) \cup {m + 4 : m \in {n \in 0 .. 3 : n \notin ReadP1}}
    BY <1>2 DEF PollGroup, Half
  <2>3. \A m \in 4 .. 7 : m \in pad' <=> m \in joypad_state
    BY <2>1, <2>2
  <2>4. \A m \in 0 .. 3 : m \in pad' <=> m \in pad
    BY <2>2
  <2>5. pad' \subseteq Buttons
    <3>1. \A m \in {m + 4 : m \in {n \in 0 .. 3 : n \notin ReadP1}} : m \in 4 .. 7
      OBVIOUS
    <3>2. pad' \subseteq Buttons \cup (4 .. 7)
      BY <2>2, <3>1
    <3> QED
      BY <3>2 DEF Buttons
  <2> QED
    BY <1>1, <1>2, <2>3, <2>4, <2>5 DEF PadAgrees, Half
<1>3. CASE g = "d-pad"
  <2>1. \A n \in 0 .. 3 : n \notin ReadP1 <=> n \in joypad_state
    BY <1>3 DEF PollGroup, ReadP1, Group
  <2>2. pad' = (pad \ (0 .. 3)) \cup {m + 0 : m \in {n \in 0 .. 3 : n \notin ReadP1}}
    BY <1>3 DEF PollGroup, Half
  <2>3. \A m \in 0 .. 3 : m \in pad' <=> m \in joypad_state
    BY <2>1, <2>2
  <2>4. \A m \in 4 .. 7 : m \in pad' <=> m \in pad
    BY <2>2
  <2>5. pad' \subseteq Buttons
    <3>1. \A m \in {m + 0 : m \in {n \in 0 .. 3 : n \notin ReadP1}} : m \in 0 .. 3
      OBVIOUS
    <3>2. pad' \subseteq Buttons \cup (0 .. 3)
      BY <2>2, <3>1
    <3> QED
      BY <3>2 DEF Buttons
  <2> QED
    BY <1>1, <1>3, <2>3, <2>4, <2>5 DEF PadAgrees, Half
<1> QED
  BY <1>2, <1>3

LEMMA CpuStepKeeps == IoInv /\ CpuStep => IoInv'
<1> SUFFICES ASSUME IoInv, CpuStep PROVE IoInv'
  OBVIOUS
<1> USE DEF IoInv
<1>1. UNCHANGED <<events, down>> /\ Instruction
  BY DEF CpuStep
<1>2. UNCHANGED joypad_state
  BY <1>1 DEF Instruction, WriteP1, PollGroup, Acknowledge, WriteSB, WriteSC
<1>3. QueueAgrees'
  BY <1>1, <1>2 DEF QueueAgrees, KeyAgrees, Newest, Waiting
<1>4. CASE \E S \in SUBSET {4, 5} : WriteP1(S)
  <2>1. joypad' \subseteq {4, 5} /\ UNCHANGED <<pad, polled>>
    BY <1>4 DEF WriteP1
  <2> QED
    BY <1>1, <1>2, <1>3, <2>1 DEF TypeOK, PadAgrees
<1>5. CASE \E g \in {"d-pad", "actions"} : PollGroup(g)
  <2>1. UNCHANGED joypad
    BY <1>5 DEF PollGroup
  <2> QED
    BY <1>1, <1>2, <1>3, <1>5, <2>1, PollKeeps DEF TypeOK
<1>6. CASE Acknowledge \/ (\E c \in Chars : WriteSB(c)) \/ (\E v \in Controls : WriteSC(v))
  <2>1. UNCHANGED <<joypad, pad, polled>>
    BY <1>6 DEF Acknowledge, WriteSB, WriteSC, padVars
  <2> QED
    BY <1>1, <1>2, <1>3, <2>1 DEF TypeOK, PadAgrees
<1> QED
  BY <1>1, <1>4, <1>5, <1>6 DEF Instruction

LEMMA StepKeeps == IoInv /\ [Next]_vars => IoInv'
<1> SUFFICES ASSUME IoInv, [Next]_vars PROVE IoInv'
  OBVIOUS
<1>1. CASE Player
  BY <1>1, PlayerKeeps
<1>2. CASE HandleEvent
  BY <1>2, HandleKeeps
<1>3. CASE CpuStep
  BY <1>3, CpuStepKeeps
<1>4. CASE NoEventLeft \/ Exited \/ UNCHANGED vars
  <2>1. UNCHANGED <<events, down, joypad_state, joypad, pad, polled>>
    BY <1>4 DEF NoEventLeft, Exited, vars, queueVars, padVars
  <2> QED
    <3>1. TypeOK' /\ PadAgrees'
      BY <2>1 DEF IoInv, TypeOK, PadAgrees
    <3>2. QueueAgrees'
      BY <2>1 DEF IoInv, QueueAgrees, KeyAgrees, Newest, Waiting
    <3> QED
      BY <3>1, <3>2 DEF IoInv
<1> QED
  BY <1>1, <1>2, <1>3, <1>4 DEF Next

LEMMA AlwaysIoInv == Spec => []IoInv
<1> QED
  BY Starts, StepKeeps, PTL DEF Spec
-----------------------------------------------------------------------------
(* The buttons of the keys that have no event left in the queue are those   *)
(* the player holds, for any keys, any number of events and any order of    *)
(* them, a quit included.                                                   *)
THEOREM KeysAreFollowed == Spec => []KeysFollowed
<1>1. IoInv => KeysFollowed
  <2> SUFFICES ASSUME IoInv, NEW k \in DOMAIN Mapped,
                      \A i \in DOMAIN events : events[i].key # k
               PROVE  Mapped[k] \in joypad_state <=> k \in down
    BY DEF KeysFollowed, IoInv, TypeOK
  <2>1. Waiting(k) = {}
    BY DEF Waiting
  <2> QED
    BY <2>1 DEF IoInv, QueueAgrees, KeyAgrees
<1> QED
  BY <1>1, AlwaysIoInv, PTL

(* A program knows the buttons that are held of each group it has read      *)
(* since the last event of that group.                                      *)
THEOREM PadIsHeld == Spec => []PadAgrees
<1>1. IoInv => PadAgrees
  BY DEF IoInv
<1> QED
  BY <1>1, AlwaysIoInv, PTL
=============================================================================
